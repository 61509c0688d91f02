---------------------------- MODULE AccessProofs ----------------------------
(***************************************************************************)
(* Theorems about who may use a session from outside and with which login: *)
(* ConnectedAuthority, for any number of requests, command ids, grants,    *)
(* revocations, changes of the execution identity and crashes; Pairing, for *)
(* any number of invitations, redemptions, revocations, refusals and deaths *)
(* of the writer; TokenRefresh, for any number of processes, logins, tokens, *)
(* sign-ins and sign-outs, deaths and lost answers; and DeviceEnrollment, for *)
(* any number of enrollments, workers, requests, changes of authority and  *)
(* restarts. They have no state in common.                                 *)
(***************************************************************************)
EXTENDS ConnectedAuthority, Pairing, TokenRefresh, DeviceEnrollment, FiniteSetTheorems, TLAPS

-----------------------------------------------------------------------------
(* The inductive invariant.                                                *)

Attempt ==
  [pc : {"idle", "bind", "epoch", "pin", "save", "check", "send", "reply", "done"},
   id : Ids \cup {""}, as : Authority \cup {Nobody}, epoch : 0..MaxEpoch,
   sent : BOOLEAN, end : {"", "answered", "refused", "unknown"}]

Typed ==
  /\ record \in [Grants -> [revision : 1..MaxRevision, revoked : BOOLEAN]]
  /\ epoch \in 1..MaxEpoch
  /\ bound \in [Ids -> Authority \cup {Nobody}]
  /\ pins \in [DerivedIds -> 0..MaxEpoch]
  /\ derived \subseteq DerivedIds
  /\ applied \subseteq [id : Ids, as : Authority]
  /\ try \in [Attempts -> Attempt]

Bound == {"epoch", "pin", "save", "check", "send", "reply"}

\* An attempt under way has a caller, and past the binding its command id is
\* bound to that caller.
BindingHeld ==
  \A a \in Attempts :
    /\ try[a].pc \in Bound \cup {"bind"} => try[a].id \in Ids /\ try[a].as \in Authority
    /\ try[a].pc \in Bound => bound[try[a].id] = try[a].as

\* An attempt that pins or checks names a derived grant, and one that checks
\* names one that exists.
DerivedHeld ==
  \A a \in Attempts :
    /\ try[a].pc \in {"pin", "save", "check"} => DerivedId(a) \in DerivedIds
    /\ try[a].pc = "check" => DerivedId(a) \in derived

\* Only an attempt that reached the runtime says it did.
SentLate ==
  \A a \in Attempts : try[a].sent => try[a].pc \in {"reply", "done"}

\* Only a done attempt has an end.
EndLate == \A a \in Attempts : try[a].end # "" => try[a].pc = "done"

Held == BindingHeld /\ DerivedHeld /\ SentLate /\ EndLate /\ EffectIsBound /\ RefusalIsDefinite

IInv == Typed /\ Held

LEMMA NobodyHasNoAuthority == Nobody \notin Authority
  BY DEF Nobody, Authority

LEMMA InitIInv == ConnectedAssumption /\ Init => IInv
<1> SUFFICES ASSUME ConnectedAssumption, Init PROVE IInv
  OBVIOUS
<1>1. Fresh \in Attempt
  BY DEF Fresh, Attempt, ConnectedAssumption
<1>2. Typed
  BY <1>1 DEF Init, Typed, ConnectedAssumption, Unpinned
<1>3. Held
  BY DEF Init, Fresh, Bound, Held, BindingHeld, DerivedHeld, SentLate, EndLate,
     EffectIsBound, RefusalIsDefinite
<1>4. QED BY <1>2, <1>3 DEF IInv

\* What the updates of an attempt keep.
LEMMA AttemptUpdates ==
  ASSUME NEW t \in Attempt
  PROVE  /\ \A pc \in {"epoch", "save", "check", "pin", "send"} :
              /\ [t EXCEPT !.pc = pc] \in Attempt
              /\ \A e \in 0..MaxEpoch : [t EXCEPT !.epoch = e, !.pc = pc] \in Attempt
              /\ \A e \in 0..MaxEpoch : [t EXCEPT !.pc = pc, !.epoch = e] \in Attempt
         /\ \A e \in {"answered", "refused", "unknown"} :
              [t EXCEPT !.pc = "done", !.end = e] \in Attempt
         /\ [t EXCEPT !.pc = "reply", !.sent = TRUE] \in Attempt
  BY ZenonT(30) DEF Attempt

LEMMA FreshAttempts ==
  ASSUME NEW c \in Ids, NEW as \in Authority, ConnectedAssumption
  PROVE  /\ [Fresh EXCEPT !.pc = "bind", !.id = c, !.as = as] \in Attempt
         /\ [Fresh EXCEPT !.pc = "done", !.id = c, !.as = as, !.end = "refused"] \in Attempt
<1>1. Fresh \in Attempt BY DEF Fresh, Attempt, ConnectedAssumption
<1>2. \A t \in Attempt :
        /\ [t EXCEPT !.pc = "bind", !.id = c, !.as = as] \in Attempt
        /\ [t EXCEPT !.pc = "done", !.id = c, !.as = as, !.end = "refused"] \in Attempt
  BY ZenonT(30) DEF Attempt
<1>3. QED BY <1>1, <1>2

\* Types are kept.
LEMMA NextTyped ==
  ASSUME ConnectedAssumption, Typed, BindingHeld, DerivedHeld, [Next]_vars
  PROVE  Typed'
<1>0. /\ epoch \in 0..MaxEpoch
      /\ \A a \in Attempts : try[a] \in Attempt
      /\ try \in [Attempts -> Attempt]
  BY DEF Typed, ConnectedAssumption
<1>1. CASE UNCHANGED vars BY <1>1 DEF vars, Typed
<1>2. ASSUME NEW a \in Attempts, NEW t \in Attempt, try' = [try EXCEPT ![a] = t]
      PROVE  try' \in [Attempts -> Attempt]
  BY <1>0, <1>2
<1>3. ASSUME NEW a \in Attempts, NEW c \in Ids, NEW g \in Grants, Authenticate(a, c, g)
      PROVE  Typed'
  <2> DEFINE as == [grant |-> g, revision |-> record[g].revision]
  <2>1. as \in Authority BY DEF Authority, Typed
  <2> HIDE DEF as
  <2>2. \E t \in Attempt : try' = [try EXCEPT ![a] = t]
    BY <1>3, <2>1, FreshAttempts DEF Authenticate, as
  <2>3. QED BY <1>2, <1>3, <2>2 DEF Authenticate, Typed
<1>4. ASSUME NEW a \in Attempts, NEW pc \in {"epoch", "save", "check", "pin", "send"},
             Go(a, pc)
      PROVE  try' \in [Attempts -> Attempt]
  <2>1. try' = [try EXCEPT ![a] = [try[a] EXCEPT !.pc = pc]] BY <1>0, <1>4 DEF Go
  <2>2. QED BY <1>0, <1>2, <2>1, AttemptUpdates
<1>5. ASSUME NEW a \in Attempts, NEW e \in {"answered", "refused", "unknown"}, End(a, e)
      PROVE  try' \in [Attempts -> Attempt]
  <2>1. try' = [try EXCEPT ![a] = [try[a] EXCEPT !.pc = "done", !.end = e]]
    BY <1>0, <1>5 DEF End
  <2>2. QED BY <1>0, <1>2, <2>1, AttemptUpdates
<1>6. ASSUME NEW a \in Attempts, Serve(a) PROVE Typed'
  <2>1. CASE Bind(a)
    <3>1. try' \in [Attempts -> Attempt] BY <1>4, <2>1 DEF Bind
    <3>2. try[a].id \in Ids /\ try[a].as \in Authority BY <2>1 DEF Bind, BindingHeld
    <3>3. QED BY <2>1, <3>1, <3>2 DEF Bind, Typed
  <2>2. CASE DeriveId(a)
    <3>1. PICK pc \in {"pin", "check"} :
            try' = [try EXCEPT ![a] = [try[a] EXCEPT !.epoch = epoch, !.pc = pc]]
      BY <1>0, <2>2 DEF DeriveId
    <3>2. try' \in [Attempts -> Attempt] BY <1>0, <1>2, <3>1, AttemptUpdates
    <3>3. QED BY <2>2, <3>2 DEF DeriveId, Typed
  <2>3. CASE Pin(a)
    <3>1. try' \in [Attempts -> Attempt] BY <1>4, <2>3 DEF Pin
    <3>2. QED BY <1>0, <2>3, <3>1 DEF Pin, Typed
  <2>4. CASE SaveDerived(a)
    <3>1. try' \in [Attempts -> Attempt] BY <1>4, <2>4 DEF SaveDerived
    <3>2. DerivedId(a) \in DerivedIds BY <2>4 DEF SaveDerived, DerivedHeld
    <3>3. QED BY <2>4, <3>1, <3>2 DEF SaveDerived, Typed
  <2>5. CASE CheckEpoch(a)
    <3>1. try' = [try EXCEPT ![a] = [try[a] EXCEPT !.pc = "send", !.epoch = epoch]]
      BY <1>0, <2>5 DEF CheckEpoch
    <3>2. try' \in [Attempts -> Attempt] BY <1>0, <1>2, <3>1, AttemptUpdates
    <3>3. QED BY <2>5, <3>2 DEF CheckEpoch, Typed
  <2>6. CASE Refuse(a)
    <3>1. try' \in [Attempts -> Attempt] BY <1>5, <2>6 DEF Refuse
    <3>2. QED BY <2>6, <3>1 DEF Refuse, Typed
  <2>7. CASE Dispatch(a)
    <3>1. try' = [try EXCEPT ![a] = [try[a] EXCEPT !.pc = "reply", !.sent = TRUE]]
      BY <1>0, <2>7 DEF Dispatch
    <3>2. try' \in [Attempts -> Attempt] BY <1>0, <1>2, <3>1, AttemptUpdates
    <3>3. try[a].id \in Ids /\ try[a].as \in Authority
      BY <2>7 DEF Dispatch, BindingHeld, Bound
    <3>4. QED BY <2>7, <3>2, <3>3 DEF Dispatch, Typed
  <2>8. CASE FinishReply(a)
    <3>1. try' \in [Attempts -> Attempt]
      <4>1. \E e \in {"answered", "unknown"} : End(a, e) BY <2>8 DEF FinishReply
      <4>2. QED BY <1>5, <4>1
    <3>2. QED BY <2>8, <3>1 DEF FinishReply, Typed
  <2>9. QED BY <1>6, <2>1, <2>2, <2>3, <2>4, <2>5, <2>6, <2>7, <2>8 DEF Serve
<1>7. ASSUME NEW g \in Grants, Revoke(g) PROVE Typed'
  BY <1>7 DEF Revoke, ConnectedAssumption, Typed
<1>8. CASE ChangeIdentity BY <1>8 DEF ChangeIdentity, ConnectedAssumption, Typed
<1>9. CASE Crash
  <2>1. \A t \in Attempt : [t EXCEPT !.pc = "done", !.end = "unknown"] \in Attempt
    BY AttemptUpdates
  <2>2. try' \in [Attempts -> Attempt] BY <1>0, <1>9, <2>1 DEF Crash
  <2>3. QED BY <1>9, <2>2 DEF Crash, Typed
<1>10. QED BY <1>1, <1>3, <1>6, <1>7, <1>8, <1>9 DEF Next

\* The fields that the updates of an attempt leave alone.
LEMMA AttemptFields ==
  ASSUME NEW t \in Attempt, NEW x, NEW y
  PROVE  LET p == [t EXCEPT !.pc = x]
             q == [t EXCEPT !.epoch = y, !.pc = x]
             r == [t EXCEPT !.pc = x, !.epoch = y]
             d == [t EXCEPT !.pc = "done", !.end = x]
             s == [t EXCEPT !.pc = "reply", !.sent = TRUE]
         IN  /\ p.pc = x /\ p.id = t.id /\ p.as = t.as /\ p.epoch = t.epoch
             /\ p.sent = t.sent /\ p.end = t.end
             /\ q.pc = x /\ q.id = t.id /\ q.as = t.as /\ q.epoch = y
             /\ q.sent = t.sent /\ q.end = t.end
             /\ r.pc = x /\ r.id = t.id /\ r.as = t.as /\ r.epoch = y
             /\ r.sent = t.sent /\ r.end = t.end
             /\ d.pc = "done" /\ d.sent = t.sent /\ d.end = x
             /\ s.pc = "reply" /\ s.id = t.id /\ s.as = t.as /\ s.sent /\ s.end = t.end
  BY DEF Attempt

\* A step that changes one attempt keeps what is held of the others.
LEMMA OthersKeep ==
  ASSUME Typed, Held, NEW a \in Attempts, NEW t, try' = [try EXCEPT ![a] = t],
         derived \subseteq derived', EffectIsBound',
         \A c \in Ids : bound[c] \in Authority => bound'[c] = bound[c],
         t.pc \in Bound \cup {"bind"} => t.id \in Ids /\ t.as \in Authority,
         t.pc \in Bound => bound'[t.id] = t.as,
         t.pc \in {"pin", "save", "check"} =>
           [grant |-> t.as.grant, revision |-> t.as.revision, epoch |-> t.epoch] \in DerivedIds,
         t.pc = "check" =>
           [grant |-> t.as.grant, revision |-> t.as.revision, epoch |-> t.epoch] \in derived',
         t.sent => t.pc \in {"reply", "done"},
         t.end # "" => t.pc = "done",
         t.end = "refused" => ~t.sent
  PROVE  Held'
<1>0. try \in [Attempts -> Attempt] BY DEF Typed
<1>1. try'[a] = t /\ \A b \in Attempts : b # a => try'[b] = try[b]
  BY <1>0
<1>2. BindingHeld'
  <2>1. SUFFICES ASSUME NEW b \in Attempts
        PROVE  /\ try'[b].pc \in Bound \cup {"bind"} =>
                    try'[b].id \in Ids /\ try'[b].as \in Authority
               /\ try'[b].pc \in Bound => bound'[try'[b].id] = try'[b].as
    BY DEF BindingHeld, Bound, Authority
  <2>2. CASE b = a BY <1>1, <2>2
  <2>3. CASE b # a
    <3>1. /\ try'[b] = try[b]
          /\ try[b].pc \in Bound \cup {"bind"} => try[b].id \in Ids /\ try[b].as \in Authority
          /\ try[b].pc \in Bound => bound[try[b].id] = try[b].as
      BY <1>1, <2>3 DEF Held, BindingHeld
    <3>2. try[b].pc \in Bound => bound'[try[b].id] = try[b].as
      BY <3>1
    <3>3. QED BY <3>1, <3>2
  <2>4. QED BY <2>2, <2>3
<1>3. DerivedHeld'
  BY <1>1 DEF Held, DerivedHeld, DerivedId
<1>4. SentLate' /\ EndLate' /\ RefusalIsDefinite'
  BY ZenonT(30), <1>1 DEF Held, SentLate, EndLate, RefusalIsDefinite
<1>5. QED BY <1>2, <1>3, <1>4 DEF Held

LEMMA NextHeld ==
  ASSUME ConnectedAssumption, Typed, Held, [Next]_vars
  PROVE  Held'
<1>0. /\ epoch \in 1..MaxEpoch
      /\ \A a \in Attempts : try[a] \in Attempt
      /\ try \in [Attempts -> Attempt]
      /\ bound \in [Ids -> Authority \cup {Nobody}]
      /\ applied \subseteq [id : Ids, as : Authority]
  BY DEF Typed
<1>1. ASSUME UNCHANGED <<bound, derived, applied, try>> PROVE Held'
  BY <1>1 DEF Held, BindingHeld, DerivedHeld, SentLate, EndLate, EffectIsBound,
     RefusalIsDefinite, DerivedId
<1>2. ASSUME UNCHANGED <<bound, applied>> PROVE EffectIsBound'
  BY <1>2 DEF Held, EffectIsBound
<1>3. ASSUME NEW a \in Attempts, NEW c \in Ids, NEW g \in Grants, Authenticate(a, c, g)
      PROVE  Held'
  <2> DEFINE as == [grant |-> g, revision |-> record[g].revision]
             t == try'[a]
  <2>1. as \in Authority BY DEF Authority, Typed
  <2>2. /\ try' = [try EXCEPT ![a] = t]
        /\ t.pc \in {"bind", "done"} /\ t.id = c /\ t.as = as /\ ~t.sent
        /\ t.end \in {"", "refused"} /\ (t.pc = "bind" => t.end = "")
        /\ UNCHANGED <<bound, derived, applied>>
    BY <1>0, <1>3 DEF Authenticate, Fresh
  <2> HIDE DEF t, as
  <2>3. QED BY <1>2, <2>1, <2>2, OthersKeep DEF Bound
<1>4. ASSUME NEW a \in Attempts, Bind(a) PROVE Held'
  <2> DEFINE t == [try[a] EXCEPT !.pc = "epoch"]
  <2>1. /\ try' = [try EXCEPT ![a] = t]
        /\ t.pc = "epoch" /\ t.id = try[a].id /\ t.as = try[a].as
        /\ t.sent = try[a].sent /\ t.end = try[a].end
    BY <1>0, <1>4, AttemptFields DEF Bind, Go
  <2>2. /\ try[a].id \in Ids /\ try[a].as \in Authority
        /\ ~try[a].sent /\ try[a].end = ""
    BY <1>4 DEF Bind, Held, BindingHeld, SentLate, EndLate
  <2>3. /\ bound' = [bound EXCEPT ![try[a].id] = try[a].as]
        /\ bound[try[a].id] \in {Nobody, try[a].as}
        /\ UNCHANGED <<derived, applied>>
    BY <1>4 DEF Bind
  <2>4. \A c \in Ids : bound[c] \in Authority => bound'[c] = bound[c]
    BY <1>0, <2>2, <2>3, NobodyHasNoAuthority
  <2>5. \A e \in applied : e.id \in Ids /\ e.as \in Authority
    BY <1>0
  <2>6. EffectIsBound'
    BY <2>3, <2>4, <2>5 DEF Held, EffectIsBound
  <2>7. bound'[t.id] = t.as BY <1>0, <2>1, <2>2, <2>3
  <2> HIDE DEF t
  <2>8. QED BY <2>1, <2>2, <2>3, <2>4, <2>6, <2>7, OthersKeep DEF Bound
<1>5. ASSUME NEW a \in Attempts, DeriveId(a) PROVE Held'
  <2> DEFINE d == [grant |-> try[a].as.grant, revision |-> try[a].as.revision,
                   epoch |-> epoch]
             t == [try[a] EXCEPT !.epoch = epoch,
                     !.pc = IF d \in derived THEN "check" ELSE "pin"]
  <2>1. [DerivedId(a) EXCEPT !.epoch = epoch] = d BY DEF DerivedId
  <2>2. /\ try' = [try EXCEPT ![a] = t]
        /\ UNCHANGED <<bound, derived, applied>>
    BY <1>0, <1>5, <2>1 DEF DeriveId
  <2>3. /\ t.pc = (IF d \in derived THEN "check" ELSE "pin")
        /\ t.id = try[a].id /\ t.as = try[a].as /\ t.epoch = epoch
        /\ t.sent = try[a].sent /\ t.end = try[a].end
    BY <1>0, AttemptFields
  <2>4. /\ try[a].id \in Ids /\ try[a].as \in Authority
        /\ bound[try[a].id] = try[a].as /\ ~try[a].sent /\ try[a].end = ""
    BY <1>5 DEF DeriveId, Held, BindingHeld, SentLate, EndLate, Bound
  <2>5. d \in DerivedIds BY <1>0, <2>4 DEF DerivedIds, Authority
  <2>6. /\ t.pc \in {"check", "pin"} /\ (t.pc = "check" => d \in derived)
        /\ [grant |-> t.as.grant, revision |-> t.as.revision, epoch |-> t.epoch] = d
    BY <2>3
  <2> HIDE DEF t, d
  <2>7. EffectIsBound' BY <1>2, <2>2
  <2>8. QED BY <2>2, <2>3, <2>4, <2>5, <2>6, <2>7, OthersKeep DEF Bound
<1>6. ASSUME NEW a \in Attempts, Pin(a) \/ SaveDerived(a) PROVE Held'
  <2>1. PICK pc \in {"save", "check"} :
          /\ try' = [try EXCEPT ![a] = [try[a] EXCEPT !.pc = pc]]
          /\ pc = "check" => derived' = derived \cup {DerivedId(a)}
          /\ try[a].pc \in {"pin", "save"}
          /\ derived \subseteq derived' /\ UNCHANGED <<bound, applied>>
    BY <1>0, <1>6 DEF Pin, SaveDerived, Go
  <2> DEFINE t == [try[a] EXCEPT !.pc = pc]
  <2>2. /\ t.pc = pc /\ t.id = try[a].id /\ t.as = try[a].as /\ t.epoch = try[a].epoch
        /\ t.sent = try[a].sent /\ t.end = try[a].end
    BY <1>0, AttemptFields
  <2>3. /\ try[a].id \in Ids /\ try[a].as \in Authority
        /\ bound[try[a].id] = try[a].as /\ ~try[a].sent /\ try[a].end = ""
        /\ DerivedId(a) \in DerivedIds
    BY <2>1 DEF Held, BindingHeld, DerivedHeld, SentLate, EndLate, Bound
  <2>4. [grant |-> t.as.grant, revision |-> t.as.revision, epoch |-> t.epoch]
        = DerivedId(a)
    BY <2>2 DEF DerivedId
  <2>5. EffectIsBound' BY <1>2, <2>1
  <2>6. try' = [try EXCEPT ![a] = t] BY <2>1
  <2> HIDE DEF t
  <2>7. /\ [grant |-> t.as.grant, revision |-> t.as.revision, epoch |-> t.epoch] \in DerivedIds
        /\ t.pc = "check" =>
             [grant |-> t.as.grant, revision |-> t.as.revision, epoch |-> t.epoch] \in derived'
    <3>1. t.pc = "check" => DerivedId(a) \in derived' BY <2>1, <2>2
    <3>2. QED BY <2>3, <2>4, <3>1
  <2>8. /\ t.pc \in {"save", "check"} /\ t.id \in Ids /\ t.as \in Authority
        /\ bound'[t.id] = t.as /\ ~t.sent /\ t.end = ""
        /\ \A c \in Ids : bound'[c] = bound[c]
    BY <2>1, <2>2, <2>3
  <2>9. QED BY <2>1, <2>5, <2>6, <2>7, <2>8, OthersKeep
<1>7. ASSUME NEW a \in Attempts, CheckEpoch(a) PROVE Held'
  <2> DEFINE t == [try[a] EXCEPT !.pc = "send", !.epoch = epoch]
  <2>1. /\ try' = [try EXCEPT ![a] = t] /\ UNCHANGED <<bound, derived, applied>>
    BY <1>0, <1>7 DEF CheckEpoch
  <2>2. /\ t.pc = "send" /\ t.id = try[a].id /\ t.as = try[a].as
        /\ t.sent = try[a].sent /\ t.end = try[a].end
    BY <1>0, AttemptFields
  <2>3. /\ try[a].id \in Ids /\ try[a].as \in Authority
        /\ bound[try[a].id] = try[a].as /\ ~try[a].sent /\ try[a].end = ""
    BY <1>7 DEF CheckEpoch, Held, BindingHeld, SentLate, EndLate, Bound
  <2>4. EffectIsBound' BY <1>2, <2>1
  <2> HIDE DEF t
  <2>5. QED BY <2>1, <2>2, <2>3, <2>4, OthersKeep DEF Bound
<1>8. ASSUME NEW a \in Attempts, Refuse(a) PROVE Held'
  <2> DEFINE t == [try[a] EXCEPT !.pc = "done", !.end = "refused"]
  <2>1. /\ try' = [try EXCEPT ![a] = t] /\ UNCHANGED <<bound, derived, applied>>
    BY <1>0, <1>8 DEF Refuse, End
  <2>2. t.pc = "done" /\ t.sent = try[a].sent /\ t.end = "refused"
    BY <1>0, AttemptFields
  <2>3. ~try[a].sent
    BY <1>8 DEF Refuse, Unfit, Held, SentLate
  <2>4. EffectIsBound' BY <1>2, <2>1
  <2> HIDE DEF t
  <2>5. QED BY <2>1, <2>2, <2>3, <2>4, OthersKeep DEF Bound
<1>9. ASSUME NEW a \in Attempts, Dispatch(a) PROVE Held'
  <2> DEFINE t == [try[a] EXCEPT !.pc = "reply", !.sent = TRUE]
  <2>1. /\ try' = [try EXCEPT ![a] = t] /\ UNCHANGED <<bound, derived>>
        /\ applied' = applied \cup {[id |-> try[a].id, as |-> try[a].as]}
    BY <1>0, <1>9 DEF Dispatch
  <2>2. /\ t.pc = "reply" /\ t.id = try[a].id /\ t.as = try[a].as /\ t.end = try[a].end
    BY <1>0, AttemptFields
  <2>3. /\ try[a].id \in Ids /\ try[a].as \in Authority
        /\ bound[try[a].id] = try[a].as /\ try[a].end = ""
    BY <1>9 DEF Dispatch, Held, BindingHeld, EndLate, Bound
  <2>4. EffectIsBound'
    <3>1. ASSUME NEW e \in applied' PROVE bound'[e.id] = e.as
      <4>1. CASE e \in applied BY <2>1, <4>1 DEF Held, EffectIsBound
      <4>2. CASE e = [id |-> try[a].id, as |-> try[a].as] BY <2>1, <2>3, <4>2
      <4>3. QED BY <2>1, <3>1, <4>1, <4>2
    <3>2. QED BY <3>1 DEF EffectIsBound
  <2> HIDE DEF t
  <2>5. QED BY <2>1, <2>2, <2>3, <2>4, OthersKeep DEF Bound
<1>10. ASSUME NEW a \in Attempts, FinishReply(a) PROVE Held'
  <2>1. PICK e \in {"answered", "unknown"} : End(a, e)
    BY <1>10 DEF FinishReply
  <2> DEFINE t == [try[a] EXCEPT !.pc = "done", !.end = e]
  <2>2. /\ try' = [try EXCEPT ![a] = t] /\ UNCHANGED <<bound, derived, applied>>
    BY <1>0, <1>10, <2>1 DEF FinishReply, End
  <2>3. t.pc = "done" /\ t.end = e
    BY <1>0, AttemptFields
  <2>4. EffectIsBound' BY <1>2, <2>2
  <2> HIDE DEF t
  <2>5. QED BY <2>2, <2>3, <2>4, OthersKeep DEF Bound
<1>11. CASE Crash
  <2>1. /\ UNCHANGED <<bound, derived, applied>>
        /\ \A a \in Attempts :
             \/ try'[a] = try[a] /\ try[a].pc \in {"idle", "done"}
             \/ try'[a] = [try[a] EXCEPT !.pc = "done", !.end = "unknown"]
    BY <1>11 DEF Crash
  <2>2. \A a \in Attempts :
          \/ try'[a] = try[a] /\ try[a].pc \in {"idle", "done"}
          \/ try'[a].pc = "done" /\ try'[a].end = "unknown"
    <3>1. ASSUME NEW a \in Attempts, try'[a] = [try[a] EXCEPT !.pc = "done", !.end = "unknown"]
          PROVE  try'[a].pc = "done" /\ try'[a].end = "unknown"
      <4>1. try[a] \in Attempt BY <1>0
      <4>2. QED BY <3>1, <4>1 DEF Attempt
    <3>2. QED BY <2>1, <3>1
  <2>3. EffectIsBound' BY <1>2, <2>1
  <2>4. BindingHeld' /\ DerivedHeld' BY <2>2 DEF BindingHeld, DerivedHeld, Bound
  <2>5. SentLate' /\ EndLate' /\ RefusalIsDefinite'
    BY <2>2 DEF Held, SentLate, EndLate, RefusalIsDefinite
  <2>6. QED BY <2>3, <2>4, <2>5 DEF Held
<1>12. CASE UNCHANGED vars BY <1>1, <1>12 DEF vars
<1>13. ASSUME NEW g \in Grants, Revoke(g) PROVE Held'
  BY <1>1, <1>13 DEF Revoke
<1>14. CASE ChangeIdentity BY <1>1, <1>14 DEF ChangeIdentity
<1>15. QED
  BY <1>3, <1>4, <1>5, <1>6, <1>7, <1>8, <1>9, <1>10, <1>11, <1>12, <1>13, <1>14
     DEF Next, Serve

-----------------------------------------------------------------------------
(* The theorems.                                                           *)

LEMMA AuthorityKeeps == ASSUME ConnectedAssumption, IInv, [Next]_vars PROVE IInv'
BY NextTyped, NextHeld DEF IInv, Held

\* The inductive invariant holds of every behaviour.
THEOREM AuthorityInvariant == ConnectedAssumption => (Spec => []IInv)
<1> SUFFICES ASSUME ConnectedAssumption PROVE Spec => []IInv
  OBVIOUS
<1>1. Init => IInv BY InitIInv
<1>2. IInv /\ [Next]_vars => IInv' BY AuthorityKeeps
<1>3. QED BY <1>1, <1>2, PTL DEF Spec

LEMMA IInvIsSafe == IInv => ConnectedSafety
<1> SUFFICES ASSUME IInv PROVE ConnectedSafety
  OBVIOUS
<1>1. TypeOK
  <2>1. ASSUME NEW a \in Attempts
        PROVE  /\ try[a].pc \in {"idle", "bind", "epoch", "pin", "save", "check",
                                 "send", "reply", "done"}
               /\ try[a].end \in {"", "answered", "refused", "unknown"}
    BY DEF IInv, Typed, Attempt
  <2>2. QED BY <2>1 DEF IInv, Typed, TypeOK
<1>2. OneAuthorityPerCommand BY DEF IInv, Held, EffectIsBound, OneAuthorityPerCommand
<1>3. QED BY <1>1, <1>2 DEF ConnectedSafety, IInv, Held

\* An effect is admitted under the authority its command id is retained for,
\* which is one for the id's whole life, and "refused" is said only where there
\* was none (connection.rs 499-506 and 560-591).
THEOREM CommandsKeepTheirAuthority == ConnectedAssumption => (Spec => []ConnectedSafety)
<1>1. ConnectedAssumption => (Spec => []IInv) BY AuthorityInvariant
<1>2. IInv => ConnectedSafety BY IInvIsSafe
<1>3. QED BY <1>1, <1>2, PTL

LEMMA StepKeepsPins ==
  ASSUME Typed, [Next]_vars
  PROVE  PinIsForever
<1>1. CASE UNCHANGED pins BY <1>1 DEF PinIsForever
<1>2. ASSUME NEW a \in Attempts, Pin(a) PROVE PinIsForever
  BY <1>2 DEF Pin, PinIsForever, Typed
<1>3. QED
  BY <1>1, <1>2 DEF Next, Serve, vars, Authenticate, Bind, DeriveId, SaveDerived, CheckEpoch,
     Refuse, Dispatch, FinishReply, Revoke, ChangeIdentity, Crash

\* The step from the check to the dispatch is CheckEpoch's.
LEMMA StepHonoursEpoch ==
  ASSUME IInv, [Next]_vars
  PROVE  EpochHonoured
<1>0. try \in [Attempts -> Attempt] BY DEF IInv, Typed
<1>1. SUFFICES ASSUME NEW a \in Attempts, try[a].pc = "check", try'[a].pc = "send"
      PROVE  \E d \in derived : /\ d.grant = try[a].as.grant
                                /\ d.revision = try[a].as.revision
                                /\ pins[d] = epoch
  BY DEF EpochHonoured
<1>2. CheckEpoch(a)
  <2>1. ~UNCHANGED try BY <1>1
  <2>2. ~Crash
    <3>1. try[a] \in Attempt BY <1>0
    <3>2. [try[a] EXCEPT !.pc = "done", !.end = "unknown"].pc = "done" BY <3>1 DEF Attempt
    <3>3. Crash => try'[a] = [try[a] EXCEPT !.pc = "done", !.end = "unknown"]
      BY <1>1 DEF Crash
    <3>4. QED BY <1>1, <3>2, <3>3
  <2>3. ASSUME NEW b \in Attempts, NEW c \in Ids, NEW g \in Grants, Authenticate(b, c, g)
        PROVE  FALSE
    BY <1>0, <1>1, <2>3 DEF Authenticate, Fresh
  <2>4. PICK b \in Attempts : Serve(b)
    BY <2>1, <2>2, <2>3 DEF Next, vars, Revoke, ChangeIdentity
  <2>5. b = a
    <3>1. \E t : try' = [try EXCEPT ![b] = t]
      <4>1. CASE Bind(b) \/ Pin(b) \/ SaveDerived(b)
        BY <1>0, <4>1 DEF Bind, Pin, SaveDerived, Go
      <4>2. CASE DeriveId(b) BY <1>0, <4>2 DEF DeriveId
      <4>3. CASE CheckEpoch(b) BY <1>0, <4>3 DEF CheckEpoch
      <4>4. CASE Refuse(b) \/ FinishReply(b) BY <1>0, <4>4 DEF Refuse, FinishReply, End
      <4>5. CASE Dispatch(b) BY <1>0, <4>5 DEF Dispatch
      <4>6. QED BY <2>4, <4>1, <4>2, <4>3, <4>4, <4>5 DEF Serve
    <3>2. QED BY <1>0, <1>1, <3>1
  <2>6. ~Refuse(a)
    <3>1. try[a] \in Attempt BY <1>0
    <3>2. [try[a] EXCEPT !.pc = "done", !.end = "refused"].pc = "done" BY <3>1 DEF Attempt
    <3>3. QED BY <1>0, <1>1, <3>2 DEF Refuse, End
  <2>7. QED
    BY <1>1, <2>4, <2>5, <2>6
       DEF Serve, Bind, DeriveId, Pin, SaveDerived, Dispatch, FinishReply
<1>3. DerivedId(a) \in derived /\ pins[DerivedId(a)] = epoch
  BY <1>1, <1>2 DEF CheckEpoch, EpochChecked, IInv, Held, DerivedHeld
<1>4. DerivedId(a).grant = try[a].as.grant /\ DerivedId(a).revision = try[a].as.revision
  BY DEF DerivedId
<1>5. QED BY <1>3, <1>4

\* A pin is written once, and no command is carried into an execution identity
\* other than the one its derived grant was pinned to (execution_epoch.rs
\* 100-157), although that identity is read twice without a lock.
THEOREM PinsDecide == ConnectedAssumption => (Spec => [][Steps]_vars)
<1> SUFFICES ASSUME ConnectedAssumption PROVE Spec => [][Steps]_vars
  OBVIOUS
<1>1. IInv /\ [Next]_vars => [Steps]_vars
  BY StepKeepsPins, StepHonoursEpoch DEF IInv, Steps
<1>2. Spec => []IInv BY AuthorityInvariant
<1>3. QED BY <1>1, <1>2, PTL DEF Spec

-----------------------------------------------------------------------------
(* The pairing state: the inductive invariant.                             *)

Redemptions == [cmd : PairCmds, grant : GrantNumbers, observed : BOOLEAN, expires : Nat]
Invitations == [phase : {"new", "open", "gone"}, attempts : Nat, expires : Nat,
                red : Redemptions \cup {None}]
Intents == [grant : GrantNumbers, expected : Nat, observed : BOOLEAN]
GrantRecords == [revision : Nat, revoked : BOOLEAN, expires : Nat]
Events == [kind : {"InvitationRecorded", "PublicationIntended", "PublicationObserved",
                   "RevocationIntended", "RevocationObserved"},
           cmd : Invites \cup PairCmds \cup RevokeCmds, grant : Nat, revision : Nat]

PairKinds ==
  /\ now \in 1..MaxClock /\ faults \in 0..MaxFaults
  /\ inv \in [Invites -> Invitations] /\ revs \in [RevokeCmds -> Intents \cup {None}]
  /\ window \in [start : Nat, attempts : 0..Budget]
  /\ audit \in Seq(Events)
  /\ file \in [GrantNumbers -> GrantRecords]
  /\ op = Idle \/ op \in OpType
  /\ mintedFor \in [GrantNumbers -> Invites \cup {None}]
  /\ \E n \in 0..MaxGrants : Minted = 1..n
  /\ died \subseteq GrantNumbers

\* The journal holds an event.
Told(k, c, g, n) == \E j \in 1..Len(audit) : audit[j] = Event(k, c, g, n)

\* A redemption is intended, then observed, and pruned only after its grant expired.
RedemptionOK(i) ==
  LET r == inv[i].red IN
  r # None =>
    /\ mintedFor[r.grant] = i /\ inv[i].phase # "new"
    /\ Told("PublicationIntended", r.cmd, r.grant, 1)
    /\ r.observed => Told("PublicationObserved", r.cmd, r.grant, 1)
    /\ inv[i].phase = "gone" => r.observed /\ r.expires <= now

\* What a revocation says of the record.
RevocationOK(c) ==
  LET r == revs[c] IN
  r # None =>
    /\ r.grant \in Minted /\ r.expected >= 1
    /\ Told("RevocationIntended", c, r.grant, r.expected)
    /\ r.observed =>
         /\ r.grant \in died
         /\ file[r.grant] = Absent \/ file[r.grant].revision >= r.expected + 1
         /\ Told("RevocationObserved", c, r.grant, r.expected + 1)

\* A record is as it was redeemed, or as the last revocation left it.
GrantOK(g) ==
  /\ g \in Minted => inv[mintedFor[g]].red # None /\ inv[mintedFor[g]].red.grant = g
  /\ file[g] # Absent => g \in Minted /\ file[g].revision >= 1
  /\ file[g].revoked <=> file[g].revision >= 2
  /\ file[g].revision = 1 => file[g] = Original(inv[mintedFor[g]].red)
  /\ file[g].revision >= 2 =>
       g \in died /\ \E c \in Revocations : /\ revs[c].grant = g
                                            /\ revs[c].expected + 1 = file[g].revision
  /\ g \in died =>
       /\ \E c \in Revocations : revs[c].grant = g
       /\ file[g] = Absent \/ file[g].revoked
  /\ \A n \in 1..(file[g].revision - 1) :
       \E c \in RevokeCmds : Told("RevocationIntended", c, g, n)

\* What an event says happened.
EventsOK ==
  \A j \in 1..Len(audit) :
    /\ audit[j].kind = "PublicationObserved" =>
         \E i \in Invites : inv[i].red # None /\ inv[i].red.observed
                            /\ inv[i].red.grant = audit[j].grant
    /\ audit[j].kind = "RevocationObserved" =>
         audit[j].cmd \in Revocations /\ revs[audit[j].cmd].observed

\* The writer's next save is still the right one.
OpOK ==
  /\ op.kind = "redeem" =>
       LET r == inv[op.invite].red IN
       /\ op.invite \in Redeemed /\ ~r.observed /\ r.expires > now
       /\ \A c \in Revocations : revs[c].grant # r.grant
       /\ op.step = "publish" => file[r.grant] = Absent
  /\ op.kind = "revoke" =>
       /\ op.grant \in Minted /\ op.expected >= 1
       /\ op.cmd \in Revocations =>
            revs[op.cmd].grant = op.grant /\ revs[op.cmd].expected = op.expected
       /\ op.step # "settle" => op.cmd \in Revocations /\ ~revs[op.cmd].observed
       /\ op.step = "write" => file[op.grant].revision = op.expected
       /\ op.step = "observe" => file[op.grant].revision = op.expected + 1

JournalOK == AuditTellsHistory /\ ObservedOnce /\ EventsOK

Evidence ==
  /\ \A i \in Invites : RedemptionOK(i)
  /\ \A c \in RevokeCmds : RevocationOK(c)
  /\ \A g \in GrantNumbers : GrantOK(g)
  /\ JournalOK

ReplyOK ==
  reply.kind = "revoked" => reply.grant \in GrantNumbers /\ reply.revision \in Nat

PairIInv == PairKinds /\ Evidence /\ OpOK /\ ReplyOK /\ RevocationIsTrue

LEMMA RecordsAreNotNone ==
  /\ \A r \in Redemptions : r # None
  /\ \A r \in Intents : r # None
BY DEF Redemptions, Intents, None

\* What the kinds say of an invitation, a revocation and a grant record.
LEMMA Reds ==
  ASSUME PairKinds, NEW i \in Invites
  PROVE  /\ inv[i] \in Invitations
         /\ inv[i].red # None => inv[i].red \in Redemptions
         /\ inv[i].red = None \/ inv[i].red \in Redemptions
BY DEF PairKinds, Invitations

LEMMA Revs ==
  ASSUME PairKinds, NEW c \in RevokeCmds
  PROVE  /\ revs[c] \in Intents \cup {None}
         /\ revs[c] # None => revs[c] \in Intents
BY DEF PairKinds

LEMMA Ops ==
  ASSUME PairKinds
  PROVE  /\ op.kind = "redeem" =>
              op \in [kind : {"redeem"}, invite : Invites, step : {"publish", "observe"}]
         /\ op.kind = "revoke" =>
              op \in [kind : {"revoke"}, cmd : RevokeCmds, grant : GrantNumbers,
                      expected : Nat, step : {"settle", "write", "observe"}]
BY DEF PairKinds, OpType, Idle

LEMMA KindsAreTyped == ASSUME PairKinds PROVE PairTypeOK
<1>1. \A i \in Invites : /\ inv[i].phase \in {"new", "open", "gone"}
                          /\ {inv[i].attempts, inv[i].expires} \subseteq Nat
  BY DEF PairKinds, Invitations
<1>2. \A i \in Invites : inv[i].red = None \/ inv[i].red \in Redemptions
  BY Reds
<1>3. \A c \in RevokeCmds : revs[c] = None \/ revs[c] \in Intents
  BY DEF PairKinds
<1>4. QED BY <1>1, <1>2, <1>3 DEF PairKinds, PairTypeOK, Redemptions, Intents, GrantRecords

LEMMA PairBegins == ASSUME PairingAssumption, PairInit PROVE PairIInv
<1>1. Minted = {} BY DEF PairInit, Minted, None
<1>2. PairKinds
  <2>1. 1..0 = {} /\ 0 \in 0..MaxGrants BY DEF PairingAssumption
  <2>2. NoInvite \in Invitations /\ Absent \in GrantRecords
    BY DEF NoInvite, Absent, Invitations, GrantRecords
  <2>3. <<>> \in Seq(Events) OBVIOUS
  <2>4. [start |-> 0, attempts |-> 0] \in [start : Nat, attempts : 0..Budget]
    BY DEF PairingAssumption
  <2>5. 1 \in 1..MaxClock /\ 0 \in 0..MaxFaults BY DEF PairingAssumption
  <2>6. \E n \in 0..MaxGrants : Minted = 1..n BY <1>1, <2>1
  <2>7. QED BY <2>2, <2>3, <2>4, <2>5, <2>6 DEF PairInit, PairKinds
<1>3. Evidence
  <2>1. \A i \in Invites : RedemptionOK(i) BY DEF PairInit, NoInvite, RedemptionOK
  <2>2. \A c \in RevokeCmds : RevocationOK(c) BY DEF PairInit, RevocationOK
  <2>3. \A g \in GrantNumbers : GrantOK(g)
    <3>1. \A n : n \in 1..(0 - 1) => FALSE OBVIOUS
    <3>2. TAKE g \in GrantNumbers
    <3>3. file[g] = Absent /\ g \notin died /\ g \notin Minted BY <1>1 DEF PairInit
    <3>4. QED BY <3>1, <3>3 DEF GrantOK, Absent
  <2>4. JournalOK
    BY DEF PairInit, JournalOK, AuditTellsHistory, ObservedOnce, EventsOK
  <2>5. QED BY <2>1, <2>2, <2>3, <2>4 DEF Evidence
<1>4. QED BY <1>2, <1>3 DEF PairIInv, PairInit, OpOK, ReplyOK, RevocationIsTrue, Idle, NoReply

-----------------------------------------------------------------------------
(* The journal grows.                                                      *)

Grows(e) == audit' = Append(audit, e)

LEMMA GrownJournal ==
  ASSUME PairKinds, NEW e \in Events, Grows(e)
  PROVE  /\ audit' \in Seq(Events)
         /\ Len(audit) \in Nat /\ Len(audit') = Len(audit) + 1
         /\ \A j \in 1..Len(audit) : audit'[j] = audit[j]
         /\ audit'[Len(audit) + 1] = e
BY DEF PairKinds, Grows

LEMMA ToldStays ==
  ASSUME PairKinds, NEW e \in Events, Grows(e), NEW k, NEW c, NEW g, NEW n
  PROVE  /\ Told(k, c, g, n) => Told(k, c, g, n)'
         /\ e = Event(k, c, g, n) => Told(k, c, g, n)'
BY GrownJournal DEF Told, Event

LEMMA HistoryGrows ==
  ASSUME PairKinds, AuditTellsHistory, NEW e \in Events, Grows(e),
         e.kind = "RevocationIntended" =>
           \E j \in 1..Len(audit) :
             /\ audit[j].grant = e.grant /\ audit[j].revision = e.revision
             /\ audit[j].kind \in {"PublicationObserved", "RevocationObserved"}
  PROVE  AuditTellsHistory'
<1>1. PICK n \in Nat : n = Len(audit) BY GrownJournal
<1>2. Len(audit') = n + 1 BY <1>1, GrownJournal
<1>3. \A j \in 1..n : audit'[j] = audit[j] BY <1>1, GrownJournal
<1>4. audit'[n + 1].kind = e.kind /\ audit'[n + 1].grant = e.grant
      /\ audit'[n + 1].revision = e.revision
  BY <1>1, GrownJournal
<1>5. \A k \in 1..n : audit[k].kind = "RevocationIntended" =>
        \E j \in 1..(k - 1) :
          /\ audit[j].grant = audit[k].grant /\ audit[j].revision = audit[k].revision
          /\ audit[j].kind \in {"PublicationObserved", "RevocationObserved"}
  BY <1>1 DEF AuditTellsHistory
<1>6. e.kind = "RevocationIntended" =>
        \E j \in 1..n :
          /\ audit[j].grant = e.grant /\ audit[j].revision = e.revision
          /\ audit[j].kind \in {"PublicationObserved", "RevocationObserved"}
  BY <1>1
<1>7. ASSUME NEW k \in 1..(n + 1), audit'[k].kind = "RevocationIntended"
      PROVE  \E j \in 1..(k - 1) :
               /\ audit'[j].grant = audit'[k].grant
               /\ audit'[j].revision = audit'[k].revision
               /\ audit'[j].kind \in {"PublicationObserved", "RevocationObserved"}
  <2>1. CASE k \in 1..n
    <3>1. PICK j \in 1..(k - 1) :
             /\ audit[j].grant = audit[k].grant /\ audit[j].revision = audit[k].revision
             /\ audit[j].kind \in {"PublicationObserved", "RevocationObserved"}
      BY <1>3, <1>5, <1>7, <2>1
    <3>2. audit'[j] = audit[j] /\ audit'[k] = audit[k] BY <1>3, <2>1
    <3>3. QED BY <3>1, <3>2
  <2>2. CASE k = n + 1
    <3>1. (k - 1) = n BY <2>2
    <3>2. PICK j \in 1..n :
             /\ audit[j].grant = e.grant /\ audit[j].revision = e.revision
             /\ audit[j].kind \in {"PublicationObserved", "RevocationObserved"}
      BY <1>4, <1>6, <1>7, <2>2
    <3>3. audit'[j] = audit[j] BY <1>3
    <3>4. QED BY <1>4, <2>2, <3>1, <3>2, <3>3
  <2>3. QED BY <2>1, <2>2
<1>8. QED BY <1>2, <1>7 DEF AuditTellsHistory

LEMMA OnceGrows ==
  ASSUME PairKinds, ObservedOnce, NEW e \in Events, Grows(e),
         e.kind \in {"PublicationObserved", "RevocationObserved"} =>
           /\ \A j \in 1..Len(audit) :
                ~(audit[j].kind = e.kind /\ audit[j].cmd = e.cmd /\ audit[j].grant = e.grant)
           /\ \E j \in 1..Len(audit) :
                /\ audit[j].cmd = e.cmd /\ audit[j].grant = e.grant
                /\ audit[j].kind = IF e.kind = "PublicationObserved"
                                   THEN "PublicationIntended" ELSE "RevocationIntended"
  PROVE  ObservedOnce'
<1>1. PICK n \in Nat : n = Len(audit) BY GrownJournal
<1>2. Len(audit') = n + 1 BY <1>1, GrownJournal
<1>3. \A j \in 1..n : audit'[j] = audit[j] BY <1>1, GrownJournal
<1>4. audit'[n + 1].kind = e.kind /\ audit'[n + 1].grant = e.grant
      /\ audit'[n + 1].cmd = e.cmd
  BY <1>1, GrownJournal
<1>5. \A k \in 1..n : audit[k].kind \in {"PublicationObserved", "RevocationObserved"} =>
        /\ \A j \in 1..n : audit[j].kind = audit[k].kind /\ audit[j].cmd = audit[k].cmd
                           /\ audit[j].grant = audit[k].grant => j = k
        /\ \E j \in 1..(k - 1) :
             /\ audit[j].cmd = audit[k].cmd /\ audit[j].grant = audit[k].grant
             /\ audit[j].kind = IF audit[k].kind = "PublicationObserved"
                                THEN "PublicationIntended" ELSE "RevocationIntended"
  BY <1>1 DEF ObservedOnce
<1>6. e.kind \in {"PublicationObserved", "RevocationObserved"} =>
        /\ \A j \in 1..n :
             ~(audit[j].kind = e.kind /\ audit[j].cmd = e.cmd /\ audit[j].grant = e.grant)
        /\ \E j \in 1..n :
             /\ audit[j].cmd = e.cmd /\ audit[j].grant = e.grant
             /\ audit[j].kind = IF e.kind = "PublicationObserved"
                                THEN "PublicationIntended" ELSE "RevocationIntended"
  BY <1>1
<1>7. ASSUME NEW k \in 1..(n + 1),
             audit'[k].kind \in {"PublicationObserved", "RevocationObserved"}
      PROVE  /\ \A j \in 1..(n + 1) :
                  audit'[j].kind = audit'[k].kind /\ audit'[j].cmd = audit'[k].cmd
                  /\ audit'[j].grant = audit'[k].grant => j = k
             /\ \E j \in 1..(k - 1) :
                  /\ audit'[j].cmd = audit'[k].cmd /\ audit'[j].grant = audit'[k].grant
                  /\ audit'[j].kind = IF audit'[k].kind = "PublicationObserved"
                                      THEN "PublicationIntended" ELSE "RevocationIntended"
  <2>1. CASE k \in 1..n
    <3>1. audit'[k] = audit[k] BY <1>3, <2>1
    <3>2. \A j \in 1..n : audit[j].kind = audit[k].kind /\ audit[j].cmd = audit[k].cmd
                          /\ audit[j].grant = audit[k].grant => j = k
      BY <1>5, <1>7, <2>1, <3>1
    <3>3. PICK j \in 1..(k - 1) :
             /\ audit[j].cmd = audit[k].cmd /\ audit[j].grant = audit[k].grant
             /\ audit[j].kind = IF audit[k].kind = "PublicationObserved"
                                THEN "PublicationIntended" ELSE "RevocationIntended"
      BY <1>5, <1>7, <2>1, <3>1
    <3>4. audit'[j] = audit[j] BY <1>3, <2>1
    <3>5. ~(e.kind = audit[k].kind /\ e.cmd = audit[k].cmd /\ e.grant = audit[k].grant)
      BY <1>6, <1>7, <2>1, <3>1
    <3>6. \A m \in 1..(n + 1) : m \in 1..n \/ m = n + 1 OBVIOUS
    <3>7. \A m \in 1..(n + 1) :
            audit'[m].kind = audit[k].kind /\ audit'[m].cmd = audit[k].cmd
            /\ audit'[m].grant = audit[k].grant => m = k
      BY <1>3, <1>4, <3>2, <3>5, <3>6
    <3>8. QED BY <3>1, <3>3, <3>4, <3>7
  <2>2. CASE k = n + 1
    <3>1. (k - 1) = n BY <2>2
    <3>2. PICK j \in 1..n :
             /\ audit[j].cmd = e.cmd /\ audit[j].grant = e.grant
             /\ audit[j].kind = IF e.kind = "PublicationObserved"
                                THEN "PublicationIntended" ELSE "RevocationIntended"
      BY <1>4, <1>6, <1>7, <2>2
    <3>3. audit'[j] = audit[j] BY <1>3
    <3>4. \A m \in 1..n :
            ~(audit[m].kind = e.kind /\ audit[m].cmd = e.cmd /\ audit[m].grant = e.grant)
      BY <1>4, <1>6, <1>7, <2>2
    <3>5. \A m \in 1..(n + 1) : m \in 1..n \/ m = n + 1 OBVIOUS
    <3>6. \A m \in 1..(n + 1) :
            audit'[m].kind = e.kind /\ audit'[m].cmd = e.cmd
            /\ audit'[m].grant = e.grant => m = n + 1
      BY <1>3, <3>4, <3>5
    <3>7. \E m \in 1..(k - 1) :
            /\ audit'[m].cmd = e.cmd /\ audit'[m].grant = e.grant
            /\ audit'[m].kind = IF e.kind = "PublicationObserved"
                                THEN "PublicationIntended" ELSE "RevocationIntended"
      BY <3>1, <3>2, <3>3
    <3>8. QED BY <1>4, <2>2, <3>6, <3>7
  <2>3. QED BY <2>1, <2>2
<1>8. QED BY <1>2, <1>7 DEF ObservedOnce

-----------------------------------------------------------------------------
(* What a step keeps.                                                      *)

\* The journal is appended to, at most.
Writes(e) == audit' = audit \/ (e \in Events /\ Grows(e))

Remembers == \A k, c, g, n : Told(k, c, g, n) => Told(k, c, g, n)'

\* Redemptions and revocations are retained, and stay observed.
Retains ==
  /\ \A i \in Invites : inv[i].red # None =>
       /\ inv'[i].red # None /\ inv'[i].red.cmd = inv[i].red.cmd
       /\ inv'[i].red.grant = inv[i].red.grant /\ inv'[i].red.expires = inv[i].red.expires
       /\ inv[i].red.observed => inv'[i].red.observed
  /\ \A c \in RevokeCmds : revs[c] # None =>
       /\ revs'[c] # None /\ revs'[c].grant = revs[c].grant
       /\ revs'[c].expected = revs[c].expected
       /\ revs[c].observed => revs'[c].observed

LEMMA JournalRemembers ==
  ASSUME PairKinds, NEW e, Writes(e)
  PROVE  Remembers
<1>1. CASE audit' = audit BY <1>1 DEF Remembers, Told
<1>2. CASE e \in Events /\ Grows(e) BY <1>2, ToldStays DEF Remembers
<1>3. QED BY <1>1, <1>2 DEF Writes

LEMMA RedemptionStays ==
  ASSUME NEW i \in Invites, RedemptionOK(i), Remembers, inv'[i].red = inv[i].red,
         inv[i].red # None =>
           /\ mintedFor'[inv[i].red.grant] = mintedFor[inv[i].red.grant]
           /\ inv'[i].phase # "new"
           /\ inv'[i].phase = "gone" => inv[i].red.observed /\ inv[i].red.expires <= now'
  PROVE  RedemptionOK(i)'
<1>1. PICK r : r = inv[i].red OBVIOUS
<1>2. SUFFICES ASSUME r # None
               PROVE  /\ mintedFor'[r.grant] = i /\ inv'[i].phase # "new"
                      /\ Told("PublicationIntended", r.cmd, r.grant, 1)'
                      /\ r.observed => Told("PublicationObserved", r.cmd, r.grant, 1)'
                      /\ inv'[i].phase = "gone" => r.observed /\ r.expires <= now'
  BY <1>1 DEF RedemptionOK
<1>3. QED BY <1>1, <1>2 DEF RedemptionOK, Remembers

LEMMA RevocationStays ==
  ASSUME PairKinds, PairKinds', NEW c \in RevokeCmds, RevocationOK(c), Remembers,
         revs'[c] = revs[c], Minted \subseteq Minted', died \subseteq died',
         revs[c] # None =>
           LET g == revs[c].grant IN
           \/ file'[g] \in {file[g], Absent}
           \/ file[g] # Absent /\ file'[g].revision >= file[g].revision
  PROVE  RevocationOK(c)'
<1>1. PICK r : r = revs[c] OBVIOUS
<1>2. SUFFICES ASSUME r # None
               PROVE  /\ r.grant \in Minted' /\ r.expected >= 1
                      /\ Told("RevocationIntended", c, r.grant, r.expected)'
                      /\ r.observed =>
                           /\ r.grant \in died'
                           /\ file'[r.grant] = Absent
                              \/ file'[r.grant].revision >= r.expected + 1
                           /\ Told("RevocationObserved", c, r.grant, r.expected + 1)'
  BY <1>1 DEF RevocationOK
<1>3. r \in Intents BY <1>1, <1>2, Revs
<1>4. r.grant \in GrantNumbers /\ r.expected \in Nat BY <1>3 DEF Intents
<1>5. file[r.grant].revision \in Nat /\ file'[r.grant].revision \in Nat
  BY <1>4 DEF PairKinds, GrantRecords
<1>6. r.observed => file'[r.grant] = Absent \/ file'[r.grant].revision >= r.expected + 1
  BY <1>1, <1>2, <1>4, <1>5 DEF RevocationOK
<1>7. QED BY <1>1, <1>2, <1>6 DEF RevocationOK, Remembers

LEMMA GrantStays ==
  ASSUME PairKinds, NEW g \in GrantNumbers, GrantOK(g), Remembers, Retains,
         file'[g] \in {file[g], Absent}, mintedFor'[g] = mintedFor[g],
         g \in died' <=> g \in died
  PROVE  GrantOK(g)'
<1>1. g \in Minted' <=> g \in Minted BY DEF Minted
<1>2. g \in Minted => mintedFor[g] \in Invites BY DEF Minted, PairKinds
<1>3. g \in Minted' =>
        inv'[mintedFor'[g]].red # None /\ inv'[mintedFor'[g]].red.grant = g
  BY <1>1, <1>2 DEF GrantOK, Retains
<1>4. g \in died' => /\ \E c \in Revocations' : revs'[c].grant = g
                     /\ file'[g] = Absent \/ file'[g].revoked
  <2>1. SUFFICES ASSUME g \in died PROVE \E c \in Revocations' : revs'[c].grant = g
    BY DEF GrantOK
  <2>2. PICK c \in Revocations : revs[c].grant = g BY <2>1 DEF GrantOK
  <2>3. QED BY <2>2 DEF Retains, Revocations
<1>5. CASE file'[g] = Absent
  <2>1. \A n : n \in 1..(0 - 1) => FALSE OBVIOUS
  <2>2. QED BY <1>3, <1>4, <1>5, <2>1 DEF GrantOK, Absent
<1>6. CASE file'[g] = file[g]
  <2>1. file[g] # Absent => g \in Minted' /\ file[g].revision >= 1 BY <1>1 DEF GrantOK
  <2>2. file[g].revoked <=> file[g].revision >= 2 BY DEF GrantOK
  <2>3. file[g].revision = 1 => file[g] = Original(inv'[mintedFor'[g]].red)
    <3>1. SUFFICES ASSUME file[g].revision = 1
                   PROVE  file[g] = Original(inv'[mintedFor[g]].red)
      OBVIOUS
    <3>2. g \in Minted BY <3>1 DEF GrantOK, Absent
    <3>3. inv'[mintedFor[g]].red.expires = inv[mintedFor[g]].red.expires
      BY <1>2, <3>2 DEF GrantOK, Retains
    <3>4. QED BY <3>1, <3>3 DEF GrantOK, Original
  <2>4. file[g].revision >= 2 =>
          g \in died' /\ \E c \in Revocations' : /\ revs'[c].grant = g
                                                 /\ revs'[c].expected + 1 = file[g].revision
    <3>1. SUFFICES ASSUME file[g].revision >= 2
                   PROVE  \E c \in Revocations' : /\ revs'[c].grant = g
                                                  /\ revs'[c].expected + 1 = file[g].revision
      BY DEF GrantOK
    <3>2. PICK c \in Revocations : revs[c].grant = g /\ revs[c].expected + 1 = file[g].revision
      BY <3>1 DEF GrantOK
    <3>3. QED BY <3>2 DEF Retains, Revocations
  <2>5. \A n \in 1..(file[g].revision - 1) :
          \E c \in RevokeCmds : Told("RevocationIntended", c, g, n)'
    BY DEF GrantOK, Remembers
  <2>6. QED BY <1>3, <1>4, <1>6, <2>1, <2>2, <2>3, <2>4, <2>5 DEF GrantOK
<1>7. QED BY <1>5, <1>6

\* What an event may say after the step.
Tells(e) ==
  /\ e.kind = "PublicationObserved" =>
       \E i \in Invites : inv[i].red # None /\ inv[i].red.observed
                          /\ inv[i].red.grant = e.grant
  /\ e.kind = "RevocationObserved" =>
       e.cmd \in RevokeCmds /\ revs[e.cmd] # None /\ revs[e.cmd].observed

LEMMA EventsStay ==
  ASSUME PairKinds, EventsOK, Retains, NEW e, Writes(e), Grows(e) => Tells(e)'
  PROVE  EventsOK'
<1>1. ASSUME NEW d, Tells(d) PROVE Tells(d)'
  <2>1. ASSUME d.kind = "PublicationObserved"
        PROVE  \E i \in Invites : inv'[i].red # None /\ inv'[i].red.observed
                                  /\ inv'[i].red.grant = d.grant
    <3>1. PICK i \in Invites : inv[i].red # None /\ inv[i].red.observed
                               /\ inv[i].red.grant = d.grant
      BY <1>1, <2>1 DEF Tells
    <3>2. QED BY <3>1 DEF Retains
  <2>2. d.kind = "RevocationObserved" =>
          d.cmd \in RevokeCmds /\ revs'[d.cmd] # None /\ revs'[d.cmd].observed
    BY <1>1 DEF Tells, Retains
  <2>3. QED BY <2>1, <2>2 DEF Tells
<1>2. \A j \in 1..Len(audit) : Tells(audit[j])
  BY DEF EventsOK, Tells, Revocations
<1>3. ASSUME NEW j \in 1..Len(audit')
      PROVE  /\ audit'[j].kind = "PublicationObserved" =>
                  \E i \in Invites : inv'[i].red # None /\ inv'[i].red.observed
                                     /\ inv'[i].red.grant = audit'[j].grant
             /\ audit'[j].kind = "RevocationObserved" =>
                  /\ audit'[j].cmd \in RevokeCmds /\ revs'[audit'[j].cmd] # None
                  /\ revs'[audit'[j].cmd].observed
  <2>1. PICK d : d = audit'[j] OBVIOUS
  <2>2. SUFFICES Tells(d)' BY <2>1 DEF Tells
  <2>3. CASE audit' = audit
    <3>1. Tells(d) BY <1>2, <2>1, <2>3
    <3>2. QED BY <1>1, <3>1
  <2>4. CASE e \in Events /\ Grows(e)
    <3>1. PICK n \in Nat : n = Len(audit) BY <2>4, GrownJournal
    <3>2. j \in 1..n \/ j = n + 1 BY <2>4, <3>1, GrownJournal
    <3>3. CASE j \in 1..n
      <4>1. d = audit[j] BY <2>1, <2>4, <3>1, <3>3, GrownJournal
      <4>2. Tells(d) BY <1>2, <3>1, <3>3, <4>1
      <4>3. QED BY <1>1, <4>2
    <3>4. CASE j = n + 1
      <4>1. d = e BY <2>1, <2>4, <3>1, <3>4, GrownJournal
      <4>2. QED BY <2>4, <4>1
    <3>5. QED BY <3>2, <3>3, <3>4
  <2>5. QED BY <2>3, <2>4 DEF Writes
<1>4. QED BY <1>3 DEF EventsOK, Revocations

\* What the journal must hold before an event.
Follows(e) ==
  /\ e.kind = "RevocationIntended" =>
       \E j \in 1..Len(audit) :
         /\ audit[j].grant = e.grant /\ audit[j].revision = e.revision
         /\ audit[j].kind \in {"PublicationObserved", "RevocationObserved"}
  /\ e.kind \in {"PublicationObserved", "RevocationObserved"} =>
       /\ \A j \in 1..Len(audit) :
            ~(audit[j].kind = e.kind /\ audit[j].cmd = e.cmd /\ audit[j].grant = e.grant)
       /\ \E j \in 1..Len(audit) :
            /\ audit[j].cmd = e.cmd /\ audit[j].grant = e.grant
            /\ audit[j].kind = IF e.kind = "PublicationObserved"
                               THEN "PublicationIntended" ELSE "RevocationIntended"

LEMMA JournalStays ==
  ASSUME PairKinds, JournalOK, Retains, NEW e, Writes(e),
         Grows(e) => Tells(e)' /\ Follows(e)
  PROVE  JournalOK'
<1>1. EventsOK' BY EventsStay DEF JournalOK
<1>2. CASE audit' = audit
  <2>1. AuditTellsHistory' BY <1>2 DEF JournalOK, AuditTellsHistory
  <2>2. ObservedOnce' BY <1>2 DEF JournalOK, ObservedOnce
  <2>3. QED BY <1>1, <2>1, <2>2 DEF JournalOK
<1>3. CASE e \in Events /\ Grows(e)
  <2>1. AuditTellsHistory' BY <1>3, HistoryGrows DEF JournalOK, Follows
  <2>2. ObservedOnce' BY <1>3, OnceGrows DEF JournalOK, Follows
  <2>3. QED BY <1>1, <2>1, <2>2 DEF JournalOK
<1>4. QED BY <1>2, <1>3 DEF Writes

\* A step that touches neither a redemption nor a revocation, and no record but
\* to lose one.
LEMMA EvidenceStays ==
  ASSUME PairKinds, PairKinds', Evidence, NEW e, Writes(e), e.kind = "InvitationRecorded",
         UNCHANGED <<revs, mintedFor, died>>, now <= now',
         \A g \in GrantNumbers : file'[g] \in {file[g], Absent},
         \A i \in Invites :
           /\ inv'[i].red = inv[i].red
           /\ inv[i].red # None =>
                /\ inv'[i].phase # "new"
                /\ inv'[i].phase = "gone" => inv[i].red.observed /\ inv[i].red.expires <= now'
  PROVE  Evidence'
<1>1. Remembers BY JournalRemembers
<1>2. Retains BY DEF Retains
<1>3. ASSUME NEW i \in Invites PROVE RedemptionOK(i)'
  <2>1. RedemptionOK(i) BY DEF Evidence
  <2>2. QED BY <1>1, <2>1, RedemptionStays
<1>4. ASSUME NEW c \in RevokeCmds PROVE RevocationOK(c)'
  <2>1. RevocationOK(c) BY DEF Evidence
  <2>2. Minted' = Minted BY DEF Minted
  <2>3. revs[c] # None => revs[c].grant \in GrantNumbers BY Revs DEF Intents
  <2>4. QED BY <1>1, <2>1, <2>2, <2>3, RevocationStays
<1>5. ASSUME NEW g \in GrantNumbers PROVE GrantOK(g)'
  <2>1. GrantOK(g) BY DEF Evidence
  <2>2. QED BY <1>1, <1>2, <2>1, GrantStays
<1>6. JournalOK'
  <2>1. JournalOK BY DEF Evidence
  <2>2. Tells(e)' /\ Follows(e) BY DEF Tells, Follows
  <2>3. QED BY <1>2, <2>1, <2>2, JournalStays
<1>7. QED BY <1>3, <1>4, <1>5, <1>6 DEF Evidence

LEMMA QuietEvidence ==
  ASSUME PairKinds, PairKinds', Evidence, UNCHANGED <<inv, revs, audit, file, mintedFor, died>>,
         now <= now'
  PROVE  Evidence'
<1>1. PICK e : e = Event("InvitationRecorded", 0, 0, 0) OBVIOUS
<1>2. e.kind = "InvitationRecorded" BY <1>1 DEF Event
<1>3. Writes(e) BY DEF Writes
<1>4. ASSUME NEW i \in Invites, inv[i].red # None
      PROVE  /\ inv'[i].phase # "new"
             /\ inv'[i].phase = "gone" => inv[i].red.observed /\ inv[i].red.expires <= now'
  <2>1. RedemptionOK(i) BY DEF Evidence
  <2>2. inv[i].red \in Redemptions BY <1>4, Reds
  <2>3. inv[i].red.expires \in Nat /\ now \in Nat /\ now' \in Nat
    BY <2>2 DEF Redemptions, PairKinds
  <2>4. QED BY <1>4, <2>1, <2>3 DEF RedemptionOK
<1>5. QED BY <1>2, <1>3, <1>4, EvidenceStays

-----------------------------------------------------------------------------
(* Commands that change nothing on disk.                                   *)

QuietDisk == UNCHANGED <<inv, revs, window, audit, file, mintedFor, died>>

LEMMA QuietKinds ==
  ASSUME PairKinds, QuietDisk, now' \in 1..MaxClock, faults' \in 0..MaxFaults,
         op' = Idle \/ op' \in OpType
  PROVE  PairKinds'
<1>1. Minted' = Minted BY DEF QuietDisk, Minted
<1>2. QED BY <1>1 DEF QuietDisk, PairKinds

LEMMA QuietStep ==
  ASSUME PairIInv, QuietDisk, now' \in 1..MaxClock, now <= now', faults' \in 0..MaxFaults,
         op' = Idle \/ op' \in OpType, OpOK',
         (reply' # reply /\ reply'.kind = "revoked") =>
           /\ reply'.grant \in died /\ reply'.revision \in Nat
           /\ file[reply'.grant] = Absent
              \/ file[reply'.grant].revision >= reply'.revision
  PROVE  PairIInv'
<1>1. PairKinds' BY QuietKinds DEF PairIInv
<1>2. Evidence' BY <1>1, QuietEvidence DEF PairIInv, QuietDisk
<1>3. ReplyOK' /\ RevocationIsTrue'
  BY DEF PairIInv, PairKinds, ReplyOK, RevocationIsTrue, QuietDisk
<1>4. QED BY <1>1, <1>2, <1>3 DEF PairIInv

LEMMA IdleIsFine == op = Idle => OpOK
BY DEF Idle, OpOK

LEMMA TickKeeps == ASSUME PairingAssumption, PairIInv, Tick PROVE PairIInv'
<1>1. now' \in 1..MaxClock /\ now <= now'
  BY SMTT(30) DEF PairIInv, PairKinds, Tick, PairingAssumption
<1>2. OpOK' BY IdleIsFine DEF Tick, OpOK, Idle
<1>3. QED BY <1>1, <1>2, QuietStep DEF Tick, disk, QuietDisk, PairIInv, PairKinds, NoReply

LEMMA StopKeeps == ASSUME PairingAssumption, PairIInv, Stop PROVE PairIInv'
<1>1. now' \in 1..MaxClock /\ now <= now' /\ faults' \in 0..MaxFaults
  BY SMTT(30) DEF PairIInv, PairKinds, Stop, PairingAssumption
<1>2. OpOK' BY DEF Stop, OpOK, Idle
<1>3. QED BY <1>1, <1>2, QuietStep DEF Stop, disk, QuietDisk

LEMMA RefuseKeeps == ASSUME PairingAssumption, PairIInv, RefuseRevocation PROVE PairIInv'
<1>1. now' \in 1..MaxClock /\ now <= now' /\ faults' \in 0..MaxFaults
  BY DEF PairIInv, PairKinds, RefuseRevocation, PairingAssumption
<1>2. OpOK' BY DEF RefuseRevocation, OpOK, Idle
<1>3. QED BY <1>1, <1>2, QuietStep DEF RefuseRevocation, disk, QuietDisk

LEMMA RedeemRetryKeeps ==
  ASSUME PairingAssumption, PairIInv, NEW i \in Invites, NEW c \in PairCmds, RedeemRetry(i, c)
  PROVE  PairIInv'
<1>1. now' \in 1..MaxClock /\ now <= now' /\ faults' \in 0..MaxFaults
  BY DEF PairIInv, PairKinds, RedeemRetry, PairingAssumption
<1>2. PICK s \in {"publish", "observe"} :
        /\ s = RetryStep(i, c) /\ op' = [kind |-> "redeem", invite |-> i, step |-> s]
  BY DEF RedeemRetry
<1>3. op' \in OpType BY <1>2 DEF OpType
<1>4. PICK r : r = inv[i].red OBVIOUS
<1>5. r \in Redemptions BY <1>4, Reds DEF RedeemRetry, Redeemed, PairIInv
<1>6. /\ ~(r.cmd # c \/ r.expires <= now \/ \E d \in Revocations : revs[d].grant = r.grant)
      /\ s = "publish" => file[r.grant] = Absent /\ ~r.observed
      /\ s = "observe" => ~r.observed
  BY <1>2, <1>4 DEF RetryStep
<1>7. r.expires > now
  <2>1. r.expires \in Nat /\ now \in Nat BY <1>5 DEF Redemptions, PairIInv, PairKinds
  <2>2. QED BY <1>6, <2>1
<1>8. OpOK' BY <1>2, <1>4, <1>6, <1>7 DEF RedeemRetry, OpOK, Redeemed, Recorded, Revocations
<1>9. QED BY <1>1, <1>3, <1>8, QuietStep DEF RedeemRetry, QuietDisk, NoReply

LEMMA RedeemAgainKeeps ==
  ASSUME PairingAssumption, PairIInv, NEW i \in Invites, NEW c \in PairCmds, RedeemAgain(i, c)
  PROVE  PairIInv'
<1>1. now' \in 1..MaxClock /\ now <= now' /\ faults' \in 0..MaxFaults
  BY DEF PairIInv, PairKinds, RedeemAgain, PairingAssumption
<1>2. op' = Idle /\ OpOK' BY DEF RedeemAgain, OpOK, Idle
<1>3. QED BY <1>1, <1>2, QuietStep DEF RedeemAgain, QuietDisk

LEMMA RevokeBeginKeeps ==
  ASSUME PairingAssumption, PairIInv, NEW c \in RevokeCmds, NEW g \in Minted,
         NEW n \in 1..MaxExpected, RevokeBegin(c, g, n)
  PROVE  PairIInv'
<1>1. now' \in 1..MaxClock /\ now <= now' /\ faults' \in 0..MaxFaults
  BY DEF PairIInv, PairKinds, RevokeBegin, PairingAssumption
<1>2. op' = [kind |-> "revoke", cmd |-> c, grant |-> g, expected |-> n, step |-> "settle"]
  BY DEF RevokeBegin
<1>3. n \in Nat /\ n >= 1 BY DEF PairingAssumption
<1>4. op' \in OpType BY <1>2, <1>3 DEF OpType, Minted
<1>5. OpOK' BY <1>2, <1>3 DEF RevokeBegin, OpOK, Revocations, Minted
<1>6. QED BY <1>1, <1>4, <1>5, QuietStep DEF RevokeBegin, QuietDisk, NoReply

LEMMA RevokeAgainKeeps ==
  ASSUME PairingAssumption, PairIInv, NEW c \in RevokeCmds, RevokeAgain(c)
  PROVE  PairIInv'
<1>1. now' \in 1..MaxClock /\ now <= now' /\ faults' \in 0..MaxFaults
  BY DEF PairIInv, PairKinds, RevokeAgain, PairingAssumption
<1>2. op' = Idle /\ OpOK' BY DEF RevokeAgain, OpOK, Idle
<1>3. PICK r : r = revs[c] OBVIOUS
<1>4. r # None /\ r \in Intents /\ r.observed
  BY <1>3, Revs DEF RevokeAgain, Revocations, PairIInv
<1>5. r.expected + 1 \in Nat BY <1>4 DEF Intents
<1>6. r.grant \in died
      /\ (file[r.grant] = Absent \/ file[r.grant].revision >= r.expected + 1)
  BY <1>3, <1>4 DEF PairIInv, Evidence, RevocationOK
<1>7. reply' = [kind |-> "revoked", grant |-> r.grant, revision |-> r.expected + 1]
  BY <1>3 DEF RevokeAgain
<1>8. QED BY <1>1, <1>2, <1>5, <1>6, <1>7, QuietStep DEF RevokeAgain, QuietDisk

LEMMA RevokeSettledKeeps == ASSUME PairingAssumption, PairIInv, RevokeSettled PROVE PairIInv'
<1>1. now' \in 1..MaxClock /\ now <= now' /\ faults' \in 0..MaxFaults
  BY DEF PairIInv, PairKinds, RevokeSettled, PairingAssumption
<1>2. op' = Idle /\ OpOK' BY DEF RevokeSettled, OpOK, Idle
<1>3. PICK r : r = revs[op.cmd] OBVIOUS
<1>4. op.cmd \in RevokeCmds /\ r # None /\ r \in Intents /\ r.observed
  BY <1>3, Revs DEF RevokeSettled, Revocations, PairIInv
<1>5. r.grant = op.grant /\ r.expected = op.expected
  BY <1>3 DEF PairIInv, OpOK, RevokeSettled, Settling
<1>6. r.expected + 1 \in Nat BY <1>4 DEF Intents
<1>7. r.grant \in died
      /\ (file[r.grant] = Absent \/ file[r.grant].revision >= r.expected + 1)
  BY <1>3, <1>4 DEF PairIInv, Evidence, RevocationOK
<1>8. reply' = [kind |-> "revoked", grant |-> r.grant, revision |-> r.expected + 1]
  BY <1>5 DEF RevokeSettled
<1>9. QED BY <1>1, <1>2, <1>6, <1>7, <1>8, QuietStep DEF RevokeSettled, QuietDisk

LEMMA RevokeResumeKeeps == ASSUME PairingAssumption, PairIInv, RevokeResume PROVE PairIInv'
<1>1. now' \in 1..MaxClock /\ now <= now' /\ faults' \in 0..MaxFaults
  BY DEF PairIInv, PairKinds, RevokeResume, PairingAssumption
<1>2. PICK o : o = op OBVIOUS
<1>3. o \in [kind : {"revoke"}, cmd : RevokeCmds, grant : GrantNumbers,
             expected : Nat, step : {"settle", "write", "observe"}]
  BY <1>2, Ops DEF PairIInv, RevokeResume, Settled, Settling
<1>4. op' = [o EXCEPT !.step = "write"] BY <1>2 DEF RevokeResume
<1>5. op' \in OpType /\ op'.step = "write" /\ op'.kind = "revoke"
  BY <1>3, <1>4 DEF OpType
<1>6. op'.cmd = o.cmd /\ op'.grant = o.grant /\ op'.expected = o.expected
  BY <1>3, <1>4
<1>7. OpOK'
  BY <1>2, <1>5, <1>6 DEF RevokeResume, Settled, Settling, PairIInv, OpOK, Minted, Revocations
<1>8. QED BY <1>1, <1>5, <1>7, QuietStep DEF RevokeResume, QuietDisk

-----------------------------------------------------------------------------
(* Invitations.                                                            *)

\* A step between two commands that changes an invitation but no redemption.
InviteFrame(e) ==
  /\ Writes(e) /\ e.kind = "InvitationRecorded"
  /\ op' = Idle /\ reply' = NoReply
  /\ now' = now /\ revs' = revs /\ mintedFor' = mintedFor /\ died' = died
  /\ \A g \in GrantNumbers : file'[g] \in {file[g], Absent}
  /\ \A i \in Invites :
       /\ inv'[i].red = inv[i].red
       /\ \/ inv'[i].phase = inv[i].phase
          \/ inv[i].red = None
          \/ inv'[i].phase = "gone" /\ ~Kept(inv[i])

LEMMA InviteStep ==
  ASSUME PairIInv, PairKinds', NEW e, InviteFrame(e)
  PROVE  PairIInv'
<1>1. Evidence'
  <2>1. ASSUME NEW i \in Invites, inv[i].red # None
        PROVE  /\ inv'[i].phase # "new"
               /\ inv'[i].phase = "gone" => inv[i].red.observed /\ inv[i].red.expires <= now'
    <3>1. RedemptionOK(i) BY DEF Evidence, PairIInv
    <3>2. inv[i].red \in Redemptions BY <2>1, Reds DEF PairIInv
    <3>3. inv[i].red.expires \in Nat /\ now \in Nat
      BY <3>2 DEF Redemptions, PairKinds, PairIInv
    <3>4. ~Kept(inv[i]) => inv[i].red.observed /\ inv[i].red.expires <= now
      BY <2>1, <3>3 DEF Kept
    <3>5. QED BY <2>1, <3>1, <3>3, <3>4 DEF RedemptionOK, InviteFrame
  <2>2. now <= now' BY DEF PairIInv, PairKinds, InviteFrame
  <2>3. QED BY <2>1, <2>2, EvidenceStays DEF PairIInv, InviteFrame
<1>2. OpOK' BY DEF InviteFrame, OpOK, Idle
<1>3. ReplyOK' /\ RevocationIsTrue' BY DEF InviteFrame, NoReply, ReplyOK, RevocationIsTrue
<1>4. QED BY <1>1, <1>2, <1>3 DEF PairIInv

LEMMA InviteKeeps ==
  ASSUME PairingAssumption, PairIInv, NEW i \in Invites, Invite(i)
  PROVE  PairIInv'
<1>1. PICK e : e = Event("InvitationRecorded", i, 0, 0) OBVIOUS
<1>2. e \in Events /\ e.kind = "InvitationRecorded" /\ Grows(e)
  BY <1>1 DEF Event, Events, Invite, Grows
<1>3. PICK kept : inv' = [j \in Invites |->
                     IF j = i THEN [phase |-> "open", attempts |-> 0,
                                    expires |-> now + InviteTtl, red |-> None]
                     ELSE IF j \in Recorded \ kept THEN [inv[j] EXCEPT !.phase = "gone"]
                     ELSE inv[j]]
                  /\ kept = {j \in Recorded : Kept(inv[j])}
  BY DEF Invite
<1>4. [phase |-> "open", attempts |-> 0, expires |-> now + InviteTtl, red |-> None]
        \in Invitations
  <2>1. now + InviteTtl \in Nat BY SMTT(30) DEF PairIInv, PairKinds, PairingAssumption
  <2>2. QED BY <2>1 DEF Invitations
<1>5. \A j \in Invites : /\ [inv[j] EXCEPT !.phase = "gone"] \in Invitations
                         /\ [inv[j] EXCEPT !.phase = "gone"].red = inv[j].red
                         /\ [inv[j] EXCEPT !.phase = "gone"].phase = "gone"
  BY Reds DEF Invitations, PairIInv
<1>6. inv' \in [Invites -> Invitations]
  BY <1>3, <1>4, <1>5 DEF PairIInv, PairKinds
<1>7. inv[i].red = None BY DEF Invite, NoInvite
<1>8. ASSUME NEW j \in Invites
      PROVE  /\ inv'[j].red = inv[j].red
             /\ \/ inv'[j].phase = inv[j].phase
                \/ inv[j].red = None
                \/ inv'[j].phase = "gone" /\ ~Kept(inv[j])
  BY <1>3, <1>5, <1>7
<1>9. PairKinds'
  <2>1. audit' \in Seq(Events) BY <1>2, GrownJournal DEF PairIInv
  <2>2. Minted' = Minted BY DEF Minted, Invite
  <2>3. QED BY <1>6, <2>1, <2>2 DEF PairIInv, PairKinds, Invite
<1>10. /\ op' = Idle /\ reply' = NoReply /\ UNCHANGED <<now, revs, mintedFor, died>>
       /\ \A g \in GrantNumbers : file'[g] \in {file[g], Absent}
  BY DEF Invite
<1>11. Writes(e) BY <1>2 DEF Writes
<1>12. InviteFrame(e) BY <1>2, <1>8, <1>10, <1>11 DEF InviteFrame
<1>13. QED BY <1>9, <1>12, InviteStep

LEMMA WrongCodeKeeps ==
  ASSUME PairingAssumption, PairIInv, NEW i \in Invites, WrongCode(i)
  PROVE  PairIInv'
<1>1. PICK e : e = Event("InvitationRecorded", 0, 0, 0) OBVIOUS
<1>2. e.kind = "InvitationRecorded" /\ Writes(e) BY <1>1 DEF Event, Writes, WrongCode
<1>3. inv' \in [Invites -> Invitations]
  <2>1. \A j \in Invites : [inv[j] EXCEPT !.attempts = @ + 1] \in Invitations
    BY Reds DEF Invitations, PairIInv
  <2>2. QED BY <2>1 DEF WrongCode, PairIInv, PairKinds
<1>4. ASSUME NEW j \in Invites
      PROVE  inv'[j].red = inv[j].red /\ inv'[j].phase = inv[j].phase
  BY Reds DEF WrongCode, PairIInv, PairKinds, Invitations
<1>5. window' \in [start : Nat, attempts : 0..Budget]
  <2>1. PICK fresh : /\ fresh \in {[start |-> now, attempts |-> 0], window}
                     /\ fresh.attempts < Budget
                     /\ window' = [fresh EXCEPT !.attempts = @ + 1]
    BY DEF WrongCode
  <2>2. fresh \in [start : Nat, attempts : 0..Budget]
    BY SMTT(30), <2>1 DEF PairIInv, PairKinds, PairingAssumption
  <2>3. QED BY <2>1, <2>2 DEF PairingAssumption
<1>6. PairKinds'
  <2>1. Minted' = Minted BY DEF Minted, WrongCode
  <2>2. QED BY <1>3, <1>5, <2>1 DEF PairIInv, PairKinds, WrongCode
<1>7. /\ op' = Idle /\ reply' = NoReply /\ UNCHANGED <<now, revs, mintedFor, died>>
      /\ \A g \in GrantNumbers : file'[g] \in {file[g], Absent}
  BY DEF WrongCode
<1>8. InviteFrame(e) BY <1>2, <1>4, <1>7 DEF InviteFrame
<1>9. QED BY <1>6, <1>8, InviteStep

LEMMA MigrateKeeps == ASSUME PairingAssumption, PairIInv, Migrate PROVE PairIInv'
<1>1. PICK e : e = Event("InvitationRecorded", 0, 0, 0) OBVIOUS
<1>2. e.kind = "InvitationRecorded" /\ Writes(e) BY <1>1 DEF Event, Writes, Migrate
<1>3. \A j \in Invites : /\ [inv[j] EXCEPT !.expires = 0] \in Invitations
                         /\ [inv[j] EXCEPT !.expires = 0].red = inv[j].red
                         /\ [inv[j] EXCEPT !.expires = 0].phase = inv[j].phase
  BY Reds DEF Invitations, PairIInv
<1>4. inv' \in [Invites -> Invitations] BY <1>3 DEF Migrate, PairIInv, PairKinds
<1>5. ASSUME NEW j \in Invites
      PROVE  inv'[j].red = inv[j].red /\ inv'[j].phase = inv[j].phase
  BY <1>3 DEF Migrate
<1>6. PairKinds'
  <2>1. Minted' = Minted BY DEF Minted, Migrate
  <2>2. QED BY <1>4, <2>1 DEF PairIInv, PairKinds, Migrate
<1>7. /\ op' = Idle /\ reply' = NoReply /\ UNCHANGED <<now, revs, mintedFor, died>>
      /\ \A g \in GrantNumbers : file'[g] \in {file[g], Absent}
  BY DEF Migrate
<1>8. InviteFrame(e) BY <1>2, <1>5, <1>7 DEF InviteFrame
<1>9. QED BY <1>6, <1>8, InviteStep

LEMMA LoseKeeps ==
  ASSUME PairingAssumption, PairIInv, NEW g \in GrantNumbers, Lose(g)
  PROVE  PairIInv'
<1>1. PICK e : e = Event("InvitationRecorded", 0, 0, 0) OBVIOUS
<1>2. e.kind = "InvitationRecorded" /\ Writes(e) BY <1>1 DEF Event, Writes, Lose
<1>3. Absent \in GrantRecords BY DEF Absent, GrantRecords
<1>4. /\ file' \in [GrantNumbers -> GrantRecords]
      /\ \A h \in GrantNumbers : file'[h] \in {file[h], Absent}
  BY <1>3 DEF Lose, PairIInv, PairKinds
<1>5. PairKinds'
  <2>1. Minted' = Minted BY DEF Minted, Lose
  <2>2. faults' \in 0..MaxFaults BY SMTT(30) DEF Lose, PairIInv, PairKinds, PairingAssumption
  <2>3. QED BY <1>4, <2>1, <2>2 DEF PairIInv, PairKinds, Lose
<1>6. op' = Idle /\ reply' = NoReply /\ UNCHANGED <<now, revs, mintedFor, died>>
  BY DEF Lose
<1>7. inv' = inv BY DEF Lose
<1>8. InviteFrame(e) BY <1>2, <1>4, <1>6, <1>7 DEF InviteFrame
<1>9. QED BY <1>5, <1>8, InviteStep

-----------------------------------------------------------------------------
(* Redemption.                                                             *)

\* The next grant number was never used.
LEMMA NextGrant ==
  ASSUME PairingAssumption, PairKinds
  PROVE  \E n \in 0..MaxGrants : /\ Minted = 1..n /\ Cardinality(Minted) + 1 = n + 1
                                 /\ (n + 1) \notin Minted
<1>1. PICK n \in 0..MaxGrants : Minted = 1..n BY DEF PairKinds
<1>2. n \in Nat BY DEF PairingAssumption
<1>3. Cardinality(1..n) = n BY <1>2, FS_Interval
<1>4. QED BY <1>1, <1>2, <1>3

\* A redemption names the one invitation its grant was minted for.
LEMMA RedeemedGrants ==
  ASSUME PairIInv, NEW i \in Invites, inv[i].red # None, PairingAssumption
  PROVE  /\ inv[i].red.grant \in Minted /\ mintedFor[inv[i].red.grant] = i
         /\ inv[i].red \in Redemptions
         /\ inv[i].phase = "gone" => inv[i].red.observed /\ inv[i].red.expires <= now
<1>1. RedemptionOK(i) BY DEF PairIInv, Evidence
<1>2. inv[i].red \in Redemptions BY Reds DEF PairIInv
<1>3. inv[i].red.grant \in GrantNumbers BY <1>2 DEF Redemptions
<1>4. QED BY <1>1, <1>2, <1>3 DEF RedemptionOK, Minted, PairingAssumption

LEMMA RedeemIntentKeeps ==
  ASSUME PairingAssumption, PairIInv, NEW i \in Invites, NEW c \in PairCmds, RedeemIntent(i, c)
  PROVE  PairIInv'
<1>1. PICK n \in 0..MaxGrants : /\ Minted = 1..n /\ Cardinality(Minted) + 1 = n + 1
                                /\ (n + 1) \notin Minted
  BY NextGrant DEF PairIInv
<1>2. PICK g : g = n + 1 OBVIOUS
<1>3. g \in GrantNumbers /\ g \notin Minted /\ n \in Nat
  BY <1>1, <1>2 DEF RedeemIntent, PairingAssumption
<1>4. PICK r : r = [cmd |-> c, grant |-> g, observed |-> FALSE, expires |-> now + GrantTtl]
  OBVIOUS
<1>5. now \in Nat /\ GrantTtl \in Nat /\ GrantTtl >= 1
  BY SMTT(30) DEF PairIInv, PairKinds, PairingAssumption
<1>6. r \in Redemptions /\ r # None
  <2>1. r \in Redemptions BY <1>3, <1>4, <1>5 DEF Redemptions
  <2>2. QED BY <2>1, RecordsAreNotNone
<1>7. r.expires > now /\ r.grant = g /\ r.cmd = c /\ ~r.observed BY <1>4, <1>5
<1>8. /\ inv' = [inv EXCEPT ![i].red = r] /\ mintedFor' = [mintedFor EXCEPT ![g] = i]
      /\ audit' = Append(audit, Event("PublicationIntended", c, g, 1))
      /\ op' = [kind |-> "redeem", invite |-> i, step |-> "publish"]
      /\ reply' = NoReply
      /\ now' = now /\ revs' = revs /\ window' = window /\ file' = file /\ died' = died
      /\ faults' = faults
  BY <1>1, <1>2, <1>4 DEF RedeemIntent
<1>9. inv[i].red = None /\ inv[i].phase = "open" BY DEF RedeemIntent, MayRedeem
<1>10. /\ inv' \in [Invites -> Invitations]
       /\ inv'[i].red = r /\ inv'[i].phase = "open"
       /\ \A j \in Invites \ {i} : inv'[j] = inv[j]
  BY ZenonT(30), <1>6, <1>8, <1>9 DEF PairIInv, PairKinds, Invitations
<1>11. /\ mintedFor' \in [GrantNumbers -> Invites \cup {None}]
       /\ mintedFor'[g] = i /\ \A h \in GrantNumbers \ {g} : mintedFor'[h] = mintedFor[h]
  BY <1>3, <1>8 DEF PairIInv, PairKinds
<1>12. PICK e : e = Event("PublicationIntended", c, g, 1) OBVIOUS
<1>13. e \in Events /\ e.kind = "PublicationIntended" /\ Grows(e)
  BY <1>3, <1>8, <1>12 DEF Event, Events, Grows, GrantNumbers
<1>14. Minted' = 1..(n + 1)
  <2>1. i # None BY DEF PairingAssumption
  <2>2. Minted' = Minted \cup {g} BY <1>3, <1>11, <2>1 DEF Minted
  <2>3. QED BY <1>1, <1>2, <1>3, <2>2
<1>15. PairKinds'
  <2>1. audit' \in Seq(Events) BY <1>13, GrownJournal DEF PairIInv
  <2>2. op' \in OpType BY <1>8 DEF OpType
  <2>3. n + 1 \in 0..MaxGrants BY <1>2, <1>3 DEF GrantNumbers, PairingAssumption
  <2>4. QED BY <1>8, <1>10, <1>11, <1>14, <2>1, <2>2, <2>3 DEF PairIInv, PairKinds
<1>16. Remembers /\ Told("PublicationIntended", c, g, 1)'
  BY <1>12, <1>13, JournalRemembers, ToldStays DEF Writes, PairIInv
<1>17. Retains BY <1>8, <1>9, <1>10 DEF Retains
<1>18. Evidence'
  <2>1. ASSUME NEW j \in Invites PROVE RedemptionOK(j)'
    <3>1. CASE j = i
      <4>1. inv'[j].red = r /\ inv'[j].phase = "open" /\ mintedFor'[r.grant] = j
        BY <1>7, <1>10, <1>11, <3>1
      <4>2. QED BY <1>7, <1>16, <4>1 DEF RedemptionOK
    <3>2. CASE j # i
      <4>1. inv'[j] = inv[j] BY <1>10, <3>2
      <4>2. RedemptionOK(j) BY DEF PairIInv, Evidence
      <4>3. inv[j].red # None => inv[j].red.grant \in GrantNumbers \ {g}
        BY <1>3, RedeemedGrants DEF Minted
      <4>4. inv[j].red # None => mintedFor'[inv[j].red.grant] = mintedFor[inv[j].red.grant]
        BY <1>11, <4>3
      <4>5. inv[j].red # None => /\ inv'[j].phase # "new"
                                 /\ inv'[j].phase = "gone" =>
                                      inv[j].red.observed /\ inv[j].red.expires <= now'
        BY <1>8, <4>1, <4>2 DEF RedemptionOK
      <4>6. QED BY <1>16, <4>1, <4>2, <4>4, <4>5, RedemptionStays
    <3>3. QED BY <3>1, <3>2
  <2>2. ASSUME NEW d \in RevokeCmds PROVE RevocationOK(d)'
    <3>1. RevocationOK(d) BY DEF PairIInv, Evidence
    <3>2. Minted \subseteq Minted' BY <1>1, <1>3, <1>14
    <3>3. QED BY <1>8, <1>15, <1>16, <3>1, <3>2, RevocationStays DEF PairIInv
  <2>3. ASSUME NEW h \in GrantNumbers PROVE GrantOK(h)'
    <3>1. GrantOK(h) BY DEF PairIInv, Evidence
    <3>2. CASE h # g
      <4>1. mintedFor'[h] = mintedFor[h] BY <1>11, <3>2
      <4>2. QED BY <1>8, <1>16, <1>17, <3>1, <4>1, GrantStays DEF PairIInv
    <3>3. CASE h = g
      <4>1. file'[h] = Absent BY <1>3, <1>8, <3>1, <3>3 DEF GrantOK
      <4>2. h \notin died'
        <5>1. SUFFICES ASSUME h \in died PROVE FALSE BY <1>8
        <5>2. PICK d \in Revocations : revs[d].grant = h BY <3>1, <5>1 DEF GrantOK
        <5>3. RevocationOK(d) /\ revs[d] # None BY <5>2 DEF PairIInv, Evidence, Revocations
        <5>4. QED BY <1>3, <3>3, <5>2, <5>3 DEF RevocationOK
      <4>3. inv'[mintedFor'[h]].red = r BY <1>10, <1>11, <3>3
      <4>4. \A m : m \in 1..(0 - 1) => FALSE OBVIOUS
      <4>5. QED BY <1>6, <1>7, <3>3, <4>1, <4>2, <4>3, <4>4 DEF GrantOK, Absent
    <3>4. QED BY <3>2, <3>3
  <2>4. JournalOK'
    <3>1. Tells(e)' /\ Follows(e) BY <1>13 DEF Tells, Follows
    <3>2. QED BY <1>13, <1>17, <3>1, JournalStays DEF PairIInv, Evidence, Writes
  <2>5. QED BY <2>1, <2>2, <2>3, <2>4 DEF Evidence
<1>19. OpOK'
  <2>1. i \in Redeemed' BY <1>6, <1>10 DEF Redeemed, Recorded
  <2>2. file[g] = Absent
    <3>1. GrantOK(g) BY <1>3 DEF PairIInv, Evidence
    <3>2. QED BY <1>3, <3>1 DEF GrantOK
  <2>3. \A d \in Revocations' : revs'[d].grant # g
    <3>1. \A d \in Revocations : RevocationOK(d) /\ revs[d] # None
      BY DEF PairIInv, Evidence, Revocations
    <3>2. QED BY <1>3, <1>8, <3>1 DEF RevocationOK, Revocations
  <2>4. QED BY <1>7, <1>8, <1>10, <2>1, <2>2, <2>3 DEF OpOK
<1>20. QED BY <1>8, <1>15, <1>18, <1>19 DEF PairIInv, ReplyOK, RevocationIsTrue, NoReply

LEMMA RedeemPublishKeeps == ASSUME PairingAssumption, PairIInv, RedeemPublish PROVE PairIInv'
<1>1. PICK i : i = op.invite OBVIOUS
<1>2. PICK r : r = inv[i].red OBVIOUS
<1>3. op \in [kind : {"redeem"}, invite : Invites, step : {"publish", "observe"}]
  BY Ops DEF PairIInv, RedeemPublish
<1>4. /\ i \in Invites /\ i \in Redeemed /\ r # None /\ ~r.observed /\ r.expires > now
      /\ \A c \in Revocations : revs[c].grant # r.grant
      /\ file[r.grant] = Absent
  BY <1>1, <1>2, <1>3 DEF PairIInv, OpOK, RedeemPublish, Redeemed
<1>5. PICK g : g = r.grant OBVIOUS
<1>6. r \in Redemptions /\ g \in GrantNumbers /\ g \in Minted /\ mintedFor[g] = i
  BY <1>2, <1>4, <1>5, RedeemedGrants DEF Redemptions
<1>7. /\ file' = [file EXCEPT ![g] = Original(r)] /\ op' = [op EXCEPT !.step = "observe"]
      /\ now' = now /\ inv' = inv /\ revs' = revs /\ window' = window /\ audit' = audit
      /\ reply' = reply /\ mintedFor' = mintedFor /\ died' = died /\ faults' = faults
  BY <1>1, <1>2, <1>5 DEF RedeemPublish
<1>8. Original(r) \in GrantRecords BY <1>6 DEF Original, GrantRecords, Redemptions
<1>9. /\ file' \in [GrantNumbers -> GrantRecords] /\ file'[g] = Original(r)
      /\ \A h \in GrantNumbers \ {g} : file'[h] = file[h]
  BY <1>6, <1>7, <1>8 DEF PairIInv, PairKinds
<1>10. op'.kind = "redeem" /\ op'.invite = i /\ op'.step = "observe" /\ op' \in OpType
  BY <1>1, <1>3, <1>7 DEF OpType
<1>11. Minted' = Minted BY <1>7 DEF Minted
<1>12. PairKinds' BY <1>7, <1>9, <1>10, <1>11 DEF PairIInv, PairKinds
<1>13. Remembers /\ Retains BY <1>7 DEF Remembers, Told, Retains
<1>14. g \notin died
  <2>1. GrantOK(g) BY <1>6 DEF PairIInv, Evidence
  <2>2. QED BY <1>4, <1>5, <2>1 DEF GrantOK
<1>15. Evidence'
  <2>1. ASSUME NEW j \in Invites PROVE RedemptionOK(j)'
    <3>1. RedemptionOK(j) BY DEF PairIInv, Evidence
    <3>2. QED BY <1>7, <1>13, <3>1, RedemptionStays DEF RedemptionOK
  <2>2. ASSUME NEW d \in RevokeCmds PROVE RevocationOK(d)'
    <3>1. RevocationOK(d) BY DEF PairIInv, Evidence
    <3>2. revs[d] # None => revs[d].grant \in GrantNumbers \ {g}
      BY <1>4, <1>5, Revs DEF PairIInv, Revocations, Intents
    <3>3. QED BY <1>7, <1>9, <1>11, <1>12, <1>13, <3>1, <3>2, RevocationStays DEF PairIInv
  <2>3. ASSUME NEW h \in GrantNumbers PROVE GrantOK(h)'
    <3>1. GrantOK(h) BY DEF PairIInv, Evidence
    <3>2. CASE h # g
      BY <1>7, <1>9, <1>13, <3>1, <3>2, GrantStays DEF PairIInv
    <3>3. CASE h = g
      <4>1. file'[h] = [revision |-> 1, revoked |-> FALSE, expires |-> r.expires]
        BY <1>9, <3>3 DEF Original
      <4>2. h \notin died' /\ h \in Minted' /\ inv'[mintedFor'[h]].red = r
        BY <1>2, <1>6, <1>7, <1>11, <1>14, <3>3
      <4>3. \A m : m \in 1..(1 - 1) => FALSE OBVIOUS
      <4>4. QED BY <1>4, <1>5, <3>3, <4>1, <4>2, <4>3 DEF GrantOK, Original
    <3>4. QED BY <3>2, <3>3
  <2>4. JournalOK'
    BY <1>7 DEF PairIInv, Evidence, JournalOK, AuditTellsHistory, ObservedOnce, EventsOK,
       Revocations
  <2>5. QED BY <2>1, <2>2, <2>3, <2>4 DEF Evidence
<1>16. OpOK'
  BY <1>2, <1>4, <1>7, <1>10 DEF OpOK, Redeemed, Recorded, Revocations
<1>17. ReplyOK' BY <1>7 DEF PairIInv, ReplyOK
<1>18. RevocationIsTrue'
  BY <1>7, <1>9, <1>14 DEF PairIInv, ReplyOK, RevocationIsTrue
<1>19. QED BY <1>12, <1>15, <1>16, <1>17, <1>18 DEF PairIInv

\* The observation of a redemption nobody observed yet.
LEMMA ObserveRedemptionKeeps ==
  ASSUME PairingAssumption, PairIInv, NEW i \in Invites, inv[i].red # None,
         ~inv[i].red.observed, ObserveRedemption(i), PairKinds',
         UNCHANGED <<now, revs, file, mintedFor, died>>
  PROVE  /\ Evidence' /\ inv'[i].phase = inv[i].phase /\ inv'[i].red # None
         /\ inv'[i].red.grant = inv[i].red.grant
         /\ \A j \in Invites \ {i} : inv'[j] = inv[j]
<1>1. PICK r : r = inv[i].red OBVIOUS
<1>2. PICK s : s = [r EXCEPT !.observed = TRUE] OBVIOUS
<1>3. PICK g : g = r.grant OBVIOUS
<1>4. /\ r \in Redemptions /\ g \in GrantNumbers /\ g \in Minted /\ mintedFor[g] = i
      /\ inv[i].phase # "gone"
  BY <1>1, <1>3, RedeemedGrants DEF Redemptions
<1>5. s \in Redemptions /\ s # None
  <2>1. s \in Redemptions BY <1>2, <1>4 DEF Redemptions
  <2>2. QED BY <2>1, RecordsAreNotNone
<1>6. s.cmd = r.cmd /\ s.grant = g /\ s.expires = r.expires /\ s.observed
  BY <1>2, <1>3, <1>4 DEF Redemptions
<1>7. /\ inv'[i].red = s /\ inv'[i].phase = inv[i].phase
      /\ \A j \in Invites \ {i} : inv'[j] = inv[j]
  <2>1. inv[i] \in Invitations /\ inv' = [inv EXCEPT ![i].red.observed = TRUE]
    BY Reds DEF PairIInv, ObserveRedemption
  <2>2. QED BY <1>1, <1>2, <2>1 DEF PairIInv, PairKinds, Invitations
<1>8. PICK e : e = Event("PublicationObserved", r.cmd, g, 1) OBVIOUS
<1>9. /\ e \in Events /\ e.kind = "PublicationObserved" /\ e.cmd = r.cmd /\ e.grant = g
      /\ Grows(e) /\ Writes(e)
  BY <1>1, <1>3, <1>4, <1>8 DEF Event, Events, Grows, GrantNumbers, Redemptions,
                            ObserveRedemption, Writes
<1>10. Remembers /\ Told("PublicationObserved", r.cmd, g, 1)'
  BY <1>8, <1>9, JournalRemembers, ToldStays DEF PairIInv
<1>11. Retains BY <1>1, <1>3, <1>5, <1>6, <1>7 DEF Retains
<1>12. Minted' = Minted BY DEF Minted
<1>13. RedemptionOK(i) BY DEF PairIInv, Evidence
<1>14. Told("PublicationIntended", r.cmd, g, 1) BY <1>1, <1>3, <1>13 DEF RedemptionOK
<1>15. ASSUME NEW j \in Invites PROVE RedemptionOK(j)'
  <2>1. CASE j = i
    <3>1. /\ inv'[j].red = s /\ inv'[j].phase # "gone" /\ inv'[j].phase # "new"
          /\ mintedFor'[g] = j
      BY <1>1, <1>4, <1>7, <1>13, <2>1 DEF RedemptionOK
    <3>2. Told("PublicationIntended", r.cmd, g, 1)' BY <1>10, <1>14 DEF Remembers
    <3>3. QED BY <1>6, <1>10, <3>1, <3>2 DEF RedemptionOK
  <2>2. CASE j # i
    <3>1. RedemptionOK(j) BY DEF PairIInv, Evidence
    <3>2. inv'[j] = inv[j] BY <1>7, <2>2
    <3>3. QED BY <1>10, <3>1, <3>2, RedemptionStays DEF RedemptionOK
  <2>3. QED BY <2>1, <2>2
<1>16. ASSUME NEW c \in RevokeCmds PROVE RevocationOK(c)'
  <2>1. RevocationOK(c) BY DEF PairIInv, Evidence
  <2>2. QED BY <1>10, <1>12, <2>1, RevocationStays DEF PairIInv
<1>17. ASSUME NEW h \in GrantNumbers PROVE GrantOK(h)'
  <2>1. GrantOK(h) BY DEF PairIInv, Evidence
  <2>2. QED BY <1>10, <1>11, <2>1, GrantStays DEF PairIInv
<1>18. JournalOK'
  <2>1. JournalOK BY DEF PairIInv, Evidence
  <2>2. Tells(e)' BY <1>5, <1>6, <1>7, <1>9 DEF Tells
  <2>3. ASSUME NEW j \in 1..Len(audit), audit[j].kind = "PublicationObserved",
               audit[j].grant = g
        PROVE  FALSE
    <3>1. PICK m \in Invites : inv[m].red # None /\ inv[m].red.observed
                               /\ inv[m].red.grant = g
      BY <2>1, <2>3 DEF JournalOK, EventsOK
    <3>2. m = i BY <1>4, <3>1, RedeemedGrants
    <3>3. QED BY <3>1, <3>2
  <2>4. \E j \in 1..Len(audit) : /\ audit[j].cmd = r.cmd /\ audit[j].grant = g
                                 /\ audit[j].kind = "PublicationIntended"
    BY <1>14 DEF Told, Event
  <2>5. Follows(e) BY <1>9, <2>3, <2>4 DEF Follows
  <2>6. QED BY <1>9, <1>11, <2>1, <2>2, <2>5, JournalStays DEF PairIInv
<1>19. QED BY <1>1, <1>3, <1>5, <1>6, <1>7, <1>15, <1>16, <1>17, <1>18 DEF Evidence

LEMMA ObserveRedemptionKinds ==
  ASSUME PairingAssumption, PairIInv, NEW i \in Invites, inv[i].red # None,
         ObserveRedemption(i), op' = Idle \/ op' = op,
         UNCHANGED <<now, revs, window, file, mintedFor, died, faults>>
  PROVE  PairKinds'
<1>1. PICK r : r = inv[i].red OBVIOUS
<1>2. r \in Redemptions BY <1>1, RedeemedGrants
<1>3. PICK s : s = [r EXCEPT !.observed = TRUE] OBVIOUS
<1>4. s \in Redemptions BY <1>2, <1>3 DEF Redemptions
<1>5. inv' \in [Invites -> Invitations]
  <2>1. inv[i] \in Invitations /\ inv' = [inv EXCEPT ![i].red.observed = TRUE]
    BY Reds DEF PairIInv, ObserveRedemption
  <2>2. [inv[i] EXCEPT !.red = s] \in Invitations BY <1>4, <2>1 DEF Invitations
  <2>3. inv' = [inv EXCEPT ![i] = [inv[i] EXCEPT !.red = s]] BY <1>1, <1>3, <2>1
  <2>4. QED BY <2>2, <2>3 DEF PairIInv, PairKinds
<1>6. audit' \in Seq(Events)
  <2>1. PICK e : e = Event("PublicationObserved", r.cmd, r.grant, 1) OBVIOUS
  <2>2. e \in Events /\ Grows(e)
    BY <1>1, <1>2, <2>1 DEF Event, Events, Grows, GrantNumbers, Redemptions, ObserveRedemption
  <2>3. QED BY <2>2, GrownJournal DEF PairIInv
<1>7. Minted' = Minted BY DEF Minted
<1>8. QED BY <1>5, <1>6, <1>7 DEF PairIInv, PairKinds

LEMMA RedeemObserveKeeps == ASSUME PairingAssumption, PairIInv, RedeemObserve PROVE PairIInv'
<1>1. PICK i : i = op.invite OBVIOUS
<1>2. i \in Invites /\ inv[i].red # None /\ ~inv[i].red.observed
  BY <1>1, Ops DEF PairIInv, OpOK, RedeemObserve, Redeemed
<1>3. /\ ObserveRedemption(i) /\ op' = Idle
      /\ reply' = [kind |-> "credential", grant |-> inv[i].red.grant]
      /\ UNCHANGED <<now, revs, window, file, mintedFor, died, faults>>
  BY <1>1 DEF RedeemObserve
<1>4. PairKinds' BY <1>2, <1>3, ObserveRedemptionKinds
<1>5. Evidence' BY <1>2, <1>3, <1>4, ObserveRedemptionKeeps
<1>6. OpOK' BY <1>3 DEF OpOK, Idle
<1>7. ReplyOK' /\ RevocationIsTrue' BY <1>3 DEF ReplyOK, RevocationIsTrue
<1>8. QED BY <1>4, <1>5, <1>6, <1>7 DEF PairIInv

LEMMA SettleRedemptionKeeps ==
  ASSUME PairingAssumption, PairIInv, SettleRedemption
  PROVE  PairIInv'
<1>1. PICK i \in PendingRedemption(op.grant) : ObserveRedemption(i)
  BY DEF SettleRedemption
<1>2. i \in Invites /\ inv[i].red # None /\ ~inv[i].red.observed
  BY <1>1 DEF PendingRedemption, Redeemed, Recorded
<1>3. op' = op /\ reply' = reply /\ UNCHANGED <<now, revs, window, file, mintedFor, died, faults>>
  BY DEF SettleRedemption
<1>4. PairKinds' BY <1>1, <1>2, <1>3, ObserveRedemptionKinds
<1>5. Evidence' BY <1>1, <1>2, <1>3, <1>4, ObserveRedemptionKeeps
<1>6. OpOK'
  <2>1. op.kind = "revoke" /\ op.step = "settle" BY DEF SettleRedemption, Settling
  <2>2. Minted' = Minted BY <1>3 DEF Minted
  <2>3. QED BY <1>3, <2>1, <2>2 DEF PairIInv, OpOK, Revocations
<1>7. ReplyOK' /\ RevocationIsTrue' BY <1>3 DEF PairIInv, ReplyOK, RevocationIsTrue
<1>8. QED BY <1>4, <1>5, <1>6, <1>7 DEF PairIInv

-----------------------------------------------------------------------------
(* Revocation.                                                             *)

LEMMA RevokedGrants ==
  ASSUME PairIInv, NEW c \in RevokeCmds, revs[c] # None
  PROVE  /\ revs[c] \in Intents /\ revs[c].grant \in Minted /\ revs[c].expected >= 1
         /\ revs[c].grant \in GrantNumbers /\ revs[c].expected \in Nat
         /\ Told("RevocationIntended", c, revs[c].grant, revs[c].expected)
<1>1. revs[c] \in Intents BY Revs DEF PairIInv
<1>2. RevocationOK(c) BY DEF PairIInv, Evidence
<1>3. QED BY <1>1, <1>2 DEF RevocationOK, Intents

\* The observation of a revocation that the record shows.
LEMMA ObserveRevocationKeeps ==
  ASSUME PairingAssumption, PairIInv, NEW c \in RevokeCmds, revs[c] # None,
         ~revs[c].observed, ObserveRevocation(c),
         file[revs[c].grant].revision = revs[c].expected + 1,
         op' = Idle \/ op' = op,
         UNCHANGED <<now, inv, window, file, mintedFor, died, faults>>
  PROVE  /\ PairKinds' /\ Evidence' /\ \A d \in RevokeCmds \ {c} : revs'[d] = revs[d]
         /\ revs[c].grant \in died
         /\ revs'[c] # None /\ revs'[c].grant = revs[c].grant
         /\ revs'[c].expected = revs[c].expected
<1>1. PICK r : r = revs[c] OBVIOUS
<1>2. PICK s : s = [r EXCEPT !.observed = TRUE] OBVIOUS
<1>3. PICK g : g = r.grant OBVIOUS
<1>4. /\ r \in Intents /\ g \in Minted /\ g \in GrantNumbers
      /\ r.expected \in Nat /\ r.expected >= 1
      /\ Told("RevocationIntended", c, g, r.expected)
  BY <1>1, <1>3, RevokedGrants
<1>5. s \in Intents /\ s # None
  <2>1. s \in Intents BY <1>2, <1>4 DEF Intents
  <2>2. QED BY <2>1, RecordsAreNotNone
<1>6. s.grant = g /\ s.expected = r.expected /\ s.observed
  BY <1>2, <1>3, <1>4 DEF Intents
<1>7. /\ revs' \in [RevokeCmds -> Intents \cup {None}] /\ revs'[c] = s
      /\ \A d \in RevokeCmds \ {c} : revs'[d] = revs[d]
  BY <1>1, <1>2, <1>5 DEF ObserveRevocation, PairIInv, PairKinds
<1>8. PICK e : e = Event("RevocationObserved", c, g, r.expected + 1) OBVIOUS
<1>9. /\ e \in Events /\ e.kind = "RevocationObserved" /\ e.cmd = c /\ e.grant = g
      /\ Grows(e) /\ Writes(e)
  BY <1>1, <1>3, <1>4, <1>8 DEF Event, Events, Grows, GrantNumbers, ObserveRevocation, Writes
<1>10. PairKinds'
  <2>1. Minted' = Minted BY DEF Minted
  <2>2. audit' \in Seq(Events) BY <1>9, GrownJournal DEF PairIInv
  <2>3. QED BY <1>7, <2>1, <2>2 DEF PairIInv, PairKinds
<1>11. Remembers /\ Told("RevocationObserved", c, g, r.expected + 1)'
  BY <1>8, <1>9, JournalRemembers, ToldStays DEF PairIInv
<1>12. Retains BY <1>1, <1>3, <1>5, <1>6, <1>7 DEF Retains
<1>13. Minted' = Minted BY DEF Minted
<1>14. g \in died /\ file[g].revision >= r.expected + 1
  <2>1. GrantOK(g) BY <1>4 DEF PairIInv, Evidence
  <2>2. file[g].revision = r.expected + 1 BY <1>1, <1>3
  <2>3. QED BY <1>4, <2>1, <2>2 DEF GrantOK
<1>15. ASSUME NEW i \in Invites PROVE RedemptionOK(i)'
  <2>1. RedemptionOK(i) BY DEF PairIInv, Evidence
  <2>2. QED BY <1>11, <2>1, RedemptionStays DEF RedemptionOK
<1>16. ASSUME NEW d \in RevokeCmds PROVE RevocationOK(d)'
  <2>1. CASE d = c
    <3>1. revs'[d] = s BY <1>7, <2>1
    <3>2. Told("RevocationIntended", c, g, r.expected)' BY <1>4, <1>11 DEF Remembers
    <3>3. QED BY <1>4, <1>6, <1>11, <1>13, <1>14, <2>1, <3>1, <3>2 DEF RevocationOK
  <2>2. CASE d # c
    <3>1. RevocationOK(d) /\ revs'[d] = revs[d] BY <1>7, <2>2 DEF PairIInv, Evidence
    <3>2. QED BY <1>10, <1>11, <1>13, <3>1, RevocationStays DEF PairIInv
  <2>3. QED BY <2>1, <2>2
<1>17. ASSUME NEW h \in GrantNumbers PROVE GrantOK(h)'
  <2>1. GrantOK(h) BY DEF PairIInv, Evidence
  <2>2. QED BY <1>11, <1>12, <2>1, GrantStays DEF PairIInv
<1>18. JournalOK'
  <2>1. JournalOK BY DEF PairIInv, Evidence
  <2>2. Tells(e)' BY <1>5, <1>6, <1>7, <1>9 DEF Tells
  <2>3. \A j \in 1..Len(audit) : ~(audit[j].kind = "RevocationObserved" /\ audit[j].cmd = c)
    BY <2>1 DEF JournalOK, EventsOK
  <2>4. \E j \in 1..Len(audit) : /\ audit[j].cmd = c /\ audit[j].grant = g
                                 /\ audit[j].kind = "RevocationIntended"
    BY <1>4 DEF Told, Event
  <2>5. Follows(e) BY <1>9, <2>3, <2>4 DEF Follows
  <2>6. QED BY <1>9, <1>12, <2>1, <2>2, <2>5, JournalStays DEF PairIInv
<1>19. QED BY <1>1, <1>3, <1>5, <1>6, <1>7, <1>10, <1>14, <1>15, <1>16, <1>17, <1>18
           DEF Evidence

LEMMA SettleRevocationKeeps ==
  ASSUME PairingAssumption, PairIInv, SettleRevocation
  PROVE  PairIInv'
<1>1. PICK c \in EarlierRevocation(op.grant) : ObserveRevocation(c)
  BY DEF SettleRevocation
<1>2. /\ c \in RevokeCmds /\ revs[c] # None /\ ~revs[c].observed
      /\ file[revs[c].grant].revision = revs[c].expected + 1
  BY <1>1 DEF EarlierRevocation, Revocations
<1>3. /\ op' = op /\ reply' = reply
      /\ UNCHANGED <<now, inv, window, file, mintedFor, died, faults>>
  BY DEF SettleRevocation
<1>4. /\ PairKinds' /\ Evidence' /\ \A d \in RevokeCmds \ {c} : revs'[d] = revs[d]
      /\ revs'[c] # None /\ revs'[c].grant = revs[c].grant
      /\ revs'[c].expected = revs[c].expected
  BY <1>1, <1>2, <1>3, ObserveRevocationKeeps
<1>5. OpOK'
  <2>1. op.kind = "revoke" /\ op.step = "settle" BY DEF SettleRevocation, Settling
  <2>2. Minted' = Minted BY <1>3 DEF Minted
  <2>3. op.cmd \in Revocations' =>
          revs'[op.cmd].grant = op.grant /\ revs'[op.cmd].expected = op.expected
    <3>1. CASE op.cmd = c BY <1>2, <1>4, <2>1, <3>1 DEF PairIInv, OpOK, Revocations
    <3>2. CASE op.cmd # c BY <1>4, <2>1, <3>2 DEF PairIInv, OpOK, Revocations
    <3>3. QED BY <3>1, <3>2
  <2>4. op.grant \in Minted' /\ op.expected >= 1 BY <2>1, <2>2 DEF PairIInv, OpOK
  <2>5. QED BY <1>3, <2>1, <2>3, <2>4 DEF OpOK
<1>6. ReplyOK' /\ RevocationIsTrue' BY <1>3 DEF PairIInv, ReplyOK, RevocationIsTrue
<1>7. QED BY <1>4, <1>5, <1>6 DEF PairIInv

LEMMA RevokeObserveKeeps == ASSUME PairingAssumption, PairIInv, RevokeObserve PROVE PairIInv'
<1>1. PICK c : c = op.cmd OBVIOUS
<1>2. op.kind = "revoke" /\ op.step = "observe" BY DEF RevokeObserve
<1>3. /\ c \in RevokeCmds /\ revs[c] # None /\ ~revs[c].observed
      /\ revs[c].grant = op.grant /\ revs[c].expected = op.expected
      /\ file[op.grant].revision = op.expected + 1
  BY <1>1, <1>2 DEF PairIInv, OpOK, Revocations
<1>4. /\ ObserveRevocation(c) /\ op' = Idle
      /\ reply' = [kind |-> "revoked", grant |-> op.grant, revision |-> op.expected + 1]
      /\ UNCHANGED <<now, inv, window, file, mintedFor, died, faults>>
  BY <1>1 DEF RevokeObserve
<1>5. PairKinds' /\ Evidence' /\ op.grant \in died
  BY <1>3, <1>4, ObserveRevocationKeeps
<1>6. OpOK' BY <1>4 DEF OpOK, Idle
<1>7. op.expected + 1 \in Nat /\ op.grant \in GrantNumbers
  BY <1>3, RevokedGrants
<1>8. ReplyOK' BY <1>4, <1>7 DEF ReplyOK
<1>9. RevocationIsTrue'
  <2>1. file'[op.grant].revision >= op.expected + 1 BY <1>3, <1>4, <1>7
  <2>2. QED BY <1>4, <1>5, <2>1 DEF RevocationIsTrue
<1>10. QED BY <1>5, <1>6, <1>8, <1>9 DEF PairIInv

\* A settled record has its revision in the journal.
LEMMA SettledIsTold ==
  ASSUME PairingAssumption, PairIInv, Settled
  PROVE  \E j \in 1..Len(audit) :
           /\ audit[j].grant = op.grant /\ audit[j].revision = op.expected
           /\ audit[j].kind \in {"PublicationObserved", "RevocationObserved"}
<1>1. PICK g : g = op.grant OBVIOUS
<1>2. PICK n : n = op.expected OBVIOUS
<1>3. /\ file[g] # Absent /\ file[g].revision = n
      /\ PendingRedemption(g) = {} /\ EarlierRevocation(g) = {}
      /\ g \in Minted /\ g \in GrantNumbers /\ n >= 1 /\ n \in Nat
  BY <1>1, <1>2, Ops DEF PairIInv, OpOK, Settled, Settling, Minted
<1>4. GrantOK(g) BY <1>3 DEF PairIInv, Evidence
<1>5. CASE n = 1
  <2>1. PICK i : i = mintedFor[g] OBVIOUS
  <2>2. i \in Invites /\ inv[i].red # None /\ inv[i].red.grant = g
    BY <1>3, <1>4, <2>1 DEF GrantOK, Minted, PairIInv, PairKinds
  <2>3. RedemptionOK(i) /\ inv[i] \in Invitations
    BY <2>2, Reds DEF PairIInv, Evidence
  <2>4. inv[i].red.observed
    <3>1. SUFFICES ASSUME inv[i].phase = "open", ~inv[i].red.observed PROVE FALSE
      BY <2>2, <2>3 DEF RedemptionOK, Invitations
    <3>2. i \in PendingRedemption(g)
      BY <2>2, <3>1 DEF PendingRedemption, Redeemed, Recorded
    <3>3. QED BY <1>3, <3>2
  <2>5. Told("PublicationObserved", inv[i].red.cmd, g, 1)
    BY <2>2, <2>3, <2>4 DEF RedemptionOK
  <2>6. QED BY <1>1, <1>2, <1>5, <2>5 DEF Told, Event
<1>6. CASE n >= 2
  <2>1. PICK c \in Revocations : revs[c].grant = g /\ revs[c].expected + 1 = n
    BY <1>3, <1>4, <1>6 DEF GrantOK
  <2>2. c \in RevokeCmds /\ revs[c] # None BY <2>1 DEF Revocations
  <2>3. revs[c].observed
    <3>1. file[g].revoked BY <1>3, <1>4, <1>6 DEF GrantOK
    <3>2. QED BY <1>3, <2>1, <3>1 DEF EarlierRevocation
  <2>4. Told("RevocationObserved", c, g, n)
    <3>1. RevocationOK(c) BY <2>2 DEF PairIInv, Evidence
    <3>2. QED BY <2>1, <2>2, <2>3, <3>1 DEF RevocationOK
  <2>5. QED BY <1>1, <1>2, <2>4 DEF Told, Event
<1>7. QED BY <1>3, <1>5, <1>6

LEMMA RevokeIntentKeeps == ASSUME PairingAssumption, PairIInv, RevokeIntent PROVE PairIInv'
<1>1. PICK c : c = op.cmd OBVIOUS
<1>2. PICK g : g = op.grant OBVIOUS
<1>3. PICK n : n = op.expected OBVIOUS
<1>4. op \in [kind : {"revoke"}, cmd : RevokeCmds, grant : GrantNumbers,
              expected : Nat, step : {"settle", "write", "observe"}]
  BY Ops DEF PairIInv, RevokeIntent, Settled, Settling
<1>5. /\ c \in RevokeCmds /\ g \in GrantNumbers /\ n \in Nat /\ revs[c] = None
      /\ g \in Minted /\ n >= 1 /\ file[g].revision = n /\ Settled
  BY <1>1, <1>2, <1>3, <1>4 DEF PairIInv, OpOK, RevokeIntent, Settled, Settling
<1>6. PICK s : s = [grant |-> g, expected |-> n, observed |-> FALSE] OBVIOUS
<1>7. s \in Intents /\ s # None /\ s.grant = g /\ s.expected = n /\ ~s.observed
  <2>1. s \in Intents BY <1>5, <1>6 DEF Intents
  <2>2. QED BY <1>6, <2>1, RecordsAreNotNone
<1>8. /\ revs' \in [RevokeCmds -> Intents \cup {None}] /\ revs'[c] = s
      /\ \A d \in RevokeCmds \ {c} : revs'[d] = revs[d]
  BY <1>1, <1>2, <1>3, <1>5, <1>6, <1>7 DEF RevokeIntent, PairIInv, PairKinds
<1>9. PICK e : e = Event("RevocationIntended", c, g, n) OBVIOUS
<1>10. /\ e \in Events /\ e.kind = "RevocationIntended" /\ e.cmd = c /\ e.grant = g
       /\ e.revision = n /\ Grows(e) /\ Writes(e)
  BY <1>1, <1>2, <1>3, <1>5, <1>9 DEF Event, Events, Grows, GrantNumbers, RevokeIntent, Writes
<1>11. /\ now' = now /\ inv' = inv /\ window' = window /\ file' = file /\ reply' = reply
       /\ mintedFor' = mintedFor /\ died' = died /\ faults' = faults
       /\ op' = [op EXCEPT !.step = "write"]
  BY DEF RevokeIntent
<1>12. /\ op' \in OpType /\ op'.kind = "revoke" /\ op'.step = "write"
       /\ op'.cmd = c /\ op'.grant = g /\ op'.expected = n
  BY <1>1, <1>2, <1>3, <1>4, <1>11 DEF OpType
<1>13. Minted' = Minted BY <1>11 DEF Minted
<1>14. PairKinds'
  <2>1. audit' \in Seq(Events) BY <1>10, GrownJournal DEF PairIInv
  <2>2. QED BY <1>8, <1>11, <1>12, <1>13, <2>1 DEF PairIInv, PairKinds
<1>15. Remembers /\ Told("RevocationIntended", c, g, n)'
  BY <1>9, <1>10, JournalRemembers, ToldStays DEF PairIInv
<1>16. Retains BY <1>5, <1>8, <1>11 DEF Retains
<1>17. ASSUME NEW i \in Invites PROVE RedemptionOK(i)'
  <2>1. RedemptionOK(i) BY DEF PairIInv, Evidence
  <2>2. QED BY <1>11, <1>15, <2>1, RedemptionStays DEF RedemptionOK
<1>18. ASSUME NEW d \in RevokeCmds PROVE RevocationOK(d)'
  <2>1. CASE d = c
    <3>1. revs'[d] = s BY <1>8, <2>1
    <3>2. QED BY <1>5, <1>7, <1>13, <1>15, <2>1, <3>1 DEF RevocationOK
  <2>2. CASE d # c
    <3>1. RevocationOK(d) /\ revs'[d] = revs[d] BY <1>8, <2>2 DEF PairIInv, Evidence
    <3>2. QED BY <1>11, <1>13, <1>14, <1>15, <3>1, RevocationStays DEF PairIInv
  <2>3. QED BY <2>1, <2>2
<1>19. ASSUME NEW h \in GrantNumbers PROVE GrantOK(h)'
  <2>1. GrantOK(h) BY DEF PairIInv, Evidence
  <2>2. QED BY <1>11, <1>15, <1>16, <2>1, GrantStays DEF PairIInv
<1>20. JournalOK'
  <2>1. JournalOK BY DEF PairIInv, Evidence
  <2>2. Tells(e)' BY <1>10 DEF Tells
  <2>3. \E j \in 1..Len(audit) :
          /\ audit[j].grant = g /\ audit[j].revision = n
          /\ audit[j].kind \in {"PublicationObserved", "RevocationObserved"}
    BY <1>2, <1>3, <1>5, SettledIsTold
  <2>4. Follows(e) BY <1>10, <2>3 DEF Follows
  <2>5. QED BY <1>10, <1>16, <2>1, <2>2, <2>4, JournalStays DEF PairIInv
<1>21. OpOK'
  BY <1>5, <1>7, <1>8, <1>11, <1>12, <1>13 DEF OpOK, Revocations
<1>22. ReplyOK' /\ RevocationIsTrue' BY <1>11 DEF PairIInv, ReplyOK, RevocationIsTrue
<1>23. QED BY <1>14, <1>17, <1>18, <1>19, <1>20, <1>21, <1>22 DEF PairIInv, Evidence

LEMMA RevokeWriteKeeps == ASSUME PairingAssumption, PairIInv, RevokeWrite PROVE PairIInv'
<1>1. PICK c : c = op.cmd OBVIOUS
<1>2. PICK g : g = op.grant OBVIOUS
<1>3. PICK n : n = op.expected OBVIOUS
<1>4. op \in [kind : {"revoke"}, cmd : RevokeCmds, grant : GrantNumbers,
              expected : Nat, step : {"settle", "write", "observe"}]
  BY Ops DEF PairIInv, RevokeWrite
<1>5. /\ c \in RevokeCmds /\ g \in GrantNumbers /\ n \in Nat
      /\ revs[c] # None /\ ~revs[c].observed /\ revs[c].grant = g /\ revs[c].expected = n
      /\ g \in Minted /\ n >= 1 /\ file[g].revision = n
  BY <1>1, <1>2, <1>3, <1>4 DEF PairIInv, OpOK, RevokeWrite, Revocations
<1>6. PICK f : f = file[g] OBVIOUS
<1>7. f \in GrantRecords /\ f.revision = n BY <1>5, <1>6 DEF PairIInv, PairKinds
<1>8. PICK h : h = [f EXCEPT !.revoked = TRUE, !.revision = n + 1] OBVIOUS
<1>9. h \in GrantRecords /\ h.revoked = TRUE /\ h.revision = n + 1
  <2>1. n + 1 \in Nat BY <1>5
  <2>2. QED BY <1>7, <1>8, <2>1 DEF GrantRecords
<1>10. /\ file' = [file EXCEPT ![g] = h] /\ died' = died \cup {g}
       /\ op' = [op EXCEPT !.step = "observe"]
       /\ now' = now /\ inv' = inv /\ revs' = revs /\ window' = window /\ audit' = audit
       /\ reply' = reply /\ mintedFor' = mintedFor /\ faults' = faults
  BY <1>2, <1>5, <1>6, <1>8 DEF RevokeWrite, PairIInv, PairKinds, GrantRecords
<1>11. /\ file' \in [GrantNumbers -> GrantRecords] /\ file'[g] = h
       /\ \A k \in GrantNumbers \ {g} : file'[k] = file[k]
  BY <1>5, <1>9, <1>10 DEF PairIInv, PairKinds
<1>12. /\ op' \in OpType /\ op'.kind = "revoke" /\ op'.step = "observe"
       /\ op'.cmd = c /\ op'.grant = g /\ op'.expected = n
  BY <1>1, <1>2, <1>3, <1>4, <1>10 DEF OpType
<1>13. Minted' = Minted BY <1>10 DEF Minted
<1>14. PairKinds'
  <2>1. died' \subseteq GrantNumbers BY <1>5, <1>10 DEF PairIInv, PairKinds
  <2>2. QED BY <1>10, <1>11, <1>12, <1>13, <2>1 DEF PairIInv, PairKinds
<1>15. Remembers /\ Retains BY <1>10 DEF Remembers, Told, Retains
<1>16. ASSUME NEW i \in Invites PROVE RedemptionOK(i)'
  <2>1. RedemptionOK(i) BY DEF PairIInv, Evidence
  <2>2. QED BY <1>10, <1>15, <2>1, RedemptionStays DEF RedemptionOK
<1>17. ASSUME NEW d \in RevokeCmds PROVE RevocationOK(d)'
  <2>1. RevocationOK(d) BY DEF PairIInv, Evidence
  <2>2. died \subseteq died' BY <1>10
  <2>3. revs[d] # None =>
          \/ file'[revs[d].grant] \in {file[revs[d].grant], Absent}
          \/ file[revs[d].grant] # Absent
             /\ file'[revs[d].grant].revision >= file[revs[d].grant].revision
    <3>1. SUFFICES ASSUME revs[d] # None, revs[d].grant = g
                   PROVE  file[g] # Absent /\ file'[g].revision >= file[g].revision
      BY <1>11, RevokedGrants
    <3>2. QED BY <1>5, <1>9, <1>11 DEF Absent
  <2>4. QED BY <1>10, <1>13, <1>14, <1>15, <2>1, <2>2, <2>3, RevocationStays DEF PairIInv
<1>18. ASSUME NEW k \in GrantNumbers PROVE GrantOK(k)'
  <2>1. GrantOK(k) BY DEF PairIInv, Evidence
  <2>2. CASE k # g
    <3>1. file'[k] \in {file[k], Absent} /\ (k \in died' <=> k \in died)
      BY <1>10, <1>11, <2>2
    <3>2. QED BY <1>10, <1>15, <2>1, <3>1, GrantStays DEF PairIInv
  <2>3. CASE k = g
    <3>1. c \in Revocations' /\ revs'[c].grant = g /\ revs'[c].expected = n
      BY <1>5, <1>10 DEF Revocations
    <3>2. inv'[mintedFor'[k]].red # None /\ inv'[mintedFor'[k]].red.grant = k
      BY <1>5, <1>10, <2>1, <2>3 DEF GrantOK
    <3>3. ASSUME NEW m \in 1..((n + 1) - 1)
          PROVE  \E d \in RevokeCmds : Told("RevocationIntended", d, g, m)'
      <4>1. CASE m = n
        <5>1. Told("RevocationIntended", c, g, n) BY <1>5, RevokedGrants
        <5>2. QED BY <1>5, <1>15, <4>1, <5>1 DEF Remembers
      <4>2. CASE m # n
        <5>1. m \in 1..(file[g].revision - 1) BY <1>5, <3>3, <4>2
        <5>2. QED BY <1>15, <2>1, <2>3, <5>1 DEF GrantOK, Remembers
      <4>3. QED BY <4>1, <4>2
    <3>4. g \in Minted' /\ g \in died' BY <1>5, <1>10, <1>13
    <3>5. n + 1 >= 2 /\ n + 1 # 1 BY <1>5
    <3>6. file'[k].revoked = TRUE /\ file'[k].revision = n + 1
      BY <1>9, <1>11, <2>3
    <3>7. \A m \in 1..(file'[k].revision - 1) :
            \E d \in RevokeCmds : Told("RevocationIntended", d, k, m)'
      BY <2>3, <3>3, <3>6
    <3>8. QED BY <1>5, <2>3, <3>1, <3>2, <3>4, <3>5, <3>6, <3>7 DEF GrantOK
  <2>4. QED BY <2>2, <2>3
<1>19. JournalOK'
  BY <1>10 DEF PairIInv, Evidence, JournalOK, AuditTellsHistory, ObservedOnce, EventsOK,
     Revocations
<1>20. OpOK' BY <1>5, <1>9, <1>10, <1>11, <1>12, <1>13 DEF OpOK, Revocations
<1>21. ReplyOK' BY <1>10 DEF PairIInv, ReplyOK
<1>22. RevocationIsTrue'
  <2>1. SUFFICES ASSUME reply.kind = "revoked"
                 PROVE  /\ reply.grant \in died'
                        /\ file'[reply.grant] = Absent
                           \/ file'[reply.grant].revision >= reply.revision
    BY <1>10 DEF RevocationIsTrue
  <2>2. /\ reply.grant \in GrantNumbers /\ reply.revision \in Nat /\ reply.grant \in died
        /\ file[reply.grant] = Absent \/ file[reply.grant].revision >= reply.revision
    BY <2>1 DEF PairIInv, ReplyOK, RevocationIsTrue
  <2>3. file[g] # Absent BY <1>5 DEF Absent
  <2>4. CASE reply.grant = g BY <1>5, <1>9, <1>10, <1>11, <2>2, <2>3, <2>4
  <2>5. CASE reply.grant # g BY <1>10, <1>11, <2>2, <2>5
  <2>6. QED BY <2>4, <2>5
<1>23. QED BY <1>14, <1>16, <1>17, <1>18, <1>19, <1>20, <1>21, <1>22 DEF PairIInv, Evidence

-----------------------------------------------------------------------------
(* Theorems.                                                               *)

LEMMA PairKeeps ==
  ASSUME PairingAssumption, PairIInv, [PairNext]_pairVars
  PROVE  PairIInv'
<1>1. ASSUME NEW i \in Invites, Invite(i) \/ WrongCode(i) PROVE PairIInv'
  BY <1>1, InviteKeeps, WrongCodeKeeps
<1>2. ASSUME NEW i \in Invites, NEW c \in PairCmds, Redeem(i, c) PROVE PairIInv'
  BY <1>2, RedeemIntentKeeps, RedeemRetryKeeps, RedeemAgainKeeps DEF Redeem
<1>3. ASSUME NEW c \in RevokeCmds, NEW g \in Minted, NEW n \in 1..MaxExpected,
             RevokeBegin(c, g, n)
      PROVE  PairIInv'
  BY <1>3, RevokeBeginKeeps
<1>4. ASSUME NEW c \in RevokeCmds, RevokeAgain(c) PROVE PairIInv'
  BY <1>4, RevokeAgainKeeps
<1>5. ASSUME NEW g \in GrantNumbers, Lose(g) PROVE PairIInv'
  BY <1>5, LoseKeeps
<1>6. CASE Working
  BY <1>6, RedeemPublishKeeps, RedeemObserveKeeps, SettleRedemptionKeeps,
     SettleRevocationKeeps, RevokeSettledKeeps, RevokeIntentKeeps, RevokeResumeKeeps,
     RevokeWriteKeeps, RevokeObserveKeeps, RefuseKeeps DEF Working
<1>7. CASE Migrate BY <1>7, MigrateKeeps
<1>8. CASE Stop BY <1>8, StopKeeps
<1>9. CASE Tick BY <1>9, TickKeeps
<1>10. CASE UNCHANGED pairVars
  <2>1. QuietDisk /\ UNCHANGED <<now, faults, op, reply>>
    BY <1>10 DEF pairVars, QuietDisk
  <2>2. OpOK' /\ (op' = Idle \/ op' \in OpType)
    BY <2>1 DEF PairIInv, PairKinds, OpOK, QuietDisk, Minted, Redeemed, Recorded, Revocations
  <2>3. now' \in 1..MaxClock /\ now <= now' /\ faults' \in 0..MaxFaults
    BY <2>1 DEF PairIInv, PairKinds, PairingAssumption
  <2>4. QED BY <2>1, <2>2, <2>3, QuietStep
<1>11. QED BY <1>1, <1>2, <1>3, <1>4, <1>5, <1>6, <1>7, <1>8, <1>9, <1>10 DEF PairNext

LEMMA PairIsSafe == ASSUME PairingAssumption, PairIInv PROVE PairingSafety
<1>1. PairTypeOK BY KindsAreTyped DEF PairIInv
<1>2. \A g \in GrantNumbers : GrantOK(g) BY DEF PairIInv, Evidence
<1>3. \A g \in Minted : /\ g \in GrantNumbers /\ mintedFor[g] \in Invites
                        /\ inv[mintedFor[g]].red # None /\ inv[mintedFor[g]].red.grant = g
  BY <1>2 DEF GrantOK, Minted, PairIInv, PairKinds
<1>4. OneGrantPerInvitation BY <1>3 DEF OneGrantPerInvitation
<1>5. RevokedForGood BY <1>2 DEF RevokedForGood, GrantOK, PairIInv, PairKinds
<1>6. LiveEvidenceKept
  <2>1. SUFFICES ASSUME NEW g \in Minted, file[g] # Absent, ~file[g].revoked,
                        file[g].expires > now
                 PROVE  /\ inv[mintedFor[g]].phase = "open"
                        /\ inv[mintedFor[g]].red # None /\ inv[mintedFor[g]].red.grant = g
    BY DEF LiveEvidenceKept
  <2>2. PICK i \in Invites : i = mintedFor[g] /\ inv[i].red # None /\ inv[i].red.grant = g
    BY <1>3, <2>1
  <2>3. /\ g \in GrantNumbers /\ file[g].revision \in Nat /\ now \in Nat
        /\ inv[i].red.expires \in Nat /\ inv[i] \in Invitations
    BY SMTT(30), <1>3, <2>1, <2>2, RedeemedGrants, Reds
       DEF PairIInv, PairKinds, GrantRecords, Redemptions
  <2>4. file[g].expires = inv[i].red.expires
    <3>1. file[g].revision = 1 BY <1>2, <2>1, <2>3 DEF GrantOK
    <3>2. file[g] = Original(inv[i].red) BY <1>2, <2>2, <2>3, <3>1 DEF GrantOK
    <3>3. QED BY <3>2 DEF Original
  <2>5. inv[i].phase # "new" BY <2>2 DEF PairIInv, Evidence, RedemptionOK
  <2>6. inv[i].phase # "gone" BY <2>1, <2>2, <2>3, <2>4, RedeemedGrants
  <2>7. QED BY <2>2, <2>3, <2>5, <2>6 DEF Invitations
<1>7. AuditPrecedesAuthority
  <2>1. SUFFICES ASSUME NEW g \in GrantNumbers, file[g] # Absent
                 PROVE  /\ \E j \in 1..Len(audit) :
                             audit[j].kind = "PublicationIntended" /\ audit[j].grant = g
                        /\ \A n \in 1..(file[g].revision - 1) :
                             \E j \in 1..Len(audit) :
                               /\ audit[j].kind = "RevocationIntended"
                               /\ audit[j].grant = g /\ audit[j].revision = n
    BY DEF AuditPrecedesAuthority
  <2>2. g \in Minted BY <1>2, <2>1 DEF GrantOK
  <2>3. PICK i \in Invites : inv[i].red # None /\ inv[i].red.grant = g
    BY <1>3, <2>2
  <2>4. Told("PublicationIntended", inv[i].red.cmd, g, 1)
    BY <2>3 DEF PairIInv, Evidence, RedemptionOK
  <2>5. \A n \in 1..(file[g].revision - 1) :
          \E c \in RevokeCmds : Told("RevocationIntended", c, g, n)
    BY <1>2 DEF GrantOK
  <2>6. \A k, c, n : Told(k, c, g, n) =>
          \E j \in 1..Len(audit) : /\ audit[j].kind = k /\ audit[j].grant = g
                                   /\ audit[j].revision = n
    BY DEF Told, Event
  <2>7. QED BY <2>4, <2>5, <2>6
<1>8. QED BY <1>1, <1>4, <1>5, <1>6, <1>7 DEF PairIInv, Evidence, JournalOK, PairingSafety

\* Only a retry of an observed redemption and its observation hand out a credential.
LEMMA CredentialSteps ==
  ASSUME PairingAssumption, PairIInv, [PairNext]_pairVars,
         reply'.kind = "credential", reply' # reply
  PROVE  \/ \E i \in Invites, c \in PairCmds : RedeemAgain(i, c)
         \/ RedeemObserve
<1>1. NoReply.kind # "credential" BY DEF NoReply
<1>2. ASSUME Working PROVE RedeemObserve
  BY <1>2 DEF Working, disk, RedeemPublish, SettleRedemption, SettleRevocation, RevokeSettled,
     RevokeIntent, RevokeResume, RevokeWrite, RevokeObserve, RefuseRevocation
<1>3. ~(Migrate \/ Stop \/ Tick \/ UNCHANGED pairVars)
  BY <1>1 DEF Migrate, Stop, Tick, pairVars
<1>4. \A i \in Invites : ~(Invite(i) \/ WrongCode(i)) BY <1>1 DEF Invite, WrongCode
<1>5. \A i \in Invites, c \in PairCmds : Redeem(i, c) => RedeemAgain(i, c)
  BY <1>1 DEF Redeem, RedeemIntent, RedeemRetry
<1>6. \A c \in RevokeCmds, g \in Minted, n \in 1..MaxExpected : ~RevokeBegin(c, g, n)
  BY <1>1 DEF RevokeBegin
<1>7. \A c \in RevokeCmds : ~RevokeAgain(c) BY DEF RevokeAgain
<1>8. \A g \in GrantNumbers : ~Lose(g) BY <1>1 DEF Lose
<1>9. QED BY <1>2, <1>3, <1>4, <1>5, <1>6, <1>7, <1>8 DEF PairNext

LEMMA CredentialStaysLive ==
  ASSUME PairingAssumption, PairIInv, [PairNext]_pairVars
  PROVE  CredentialIsLive
<1> SUFFICES ASSUME reply'.kind = "credential", reply' # reply
             PROVE  LET g == reply'.grant IN
                    /\ file'[g] # Absent /\ ~file'[g].revoked /\ file'[g].revision = 1
                    /\ file'[g].expires > now
                    /\ \A c \in RevokeCmds : revs[c] = None \/ revs[c].grant # g
  BY DEF CredentialIsLive
<1>1. \A r : LET f == Original(r) IN
             f # Absent /\ f.revoked = FALSE /\ f.revision = 1 /\ f.expires = r.expires
  BY DEF Original, Absent
<1>2. ASSUME NEW i \in Invites, NEW c \in PairCmds, RedeemAgain(i, c)
      PROVE  \E r : /\ reply'.grant = r.grant /\ file'[r.grant] = Original(r)
                    /\ r.expires > now /\ \A d \in Revocations : revs[d].grant # r.grant
  <2>1. PICK r : r = inv[i].red OBVIOUS
  <2>2. r \in Redemptions BY <1>2, <2>1, RedeemedGrants DEF RedeemAgain, Redeemed
  <2>3. r.expires \in Nat /\ now \in Nat BY <2>2 DEF Redemptions, PairIInv, PairKinds
  <2>4. RetryStep(i, c) = "return" /\ reply'.grant = r.grant /\ file' = file
    BY <1>2, <2>1 DEF RedeemAgain
  <2>5. /\ ~(r.expires <= now) /\ \A d \in Revocations : revs[d].grant # r.grant
        /\ file[r.grant] = Original(r)
    BY <2>1, <2>4 DEF RetryStep
  <2>6. QED BY <2>3, <2>4, <2>5
<1>3. ASSUME RedeemObserve
      PROVE  \E r : /\ reply'.grant = r.grant /\ file'[r.grant] = Original(r)
                    /\ r.expires > now /\ \A d \in Revocations : revs[d].grant # r.grant
  <2>1. PICK r : r = inv[op.invite].red OBVIOUS
  <2>2. /\ reply'.grant = r.grant /\ file' = file /\ file[r.grant] = Original(r)
        /\ op.kind = "redeem"
    BY <1>3, <2>1 DEF RedeemObserve, ObserveRedemption
  <2>3. r.expires > now /\ \A d \in Revocations : revs[d].grant # r.grant
    BY <2>1, <2>2 DEF PairIInv, OpOK
  <2>4. QED BY <2>2, <2>3
<1>4. PICK r : /\ reply'.grant = r.grant /\ file'[r.grant] = Original(r)
               /\ r.expires > now /\ \A d \in Revocations : revs[d].grant # r.grant
  BY <1>2, <1>3, CredentialSteps
<1>5. QED BY <1>1, <1>4 DEF Revocations

\* Only a publication and a revocation write a grant record.
LEMMA RecordSteps ==
  ASSUME PairingAssumption, PairIInv, [PairNext]_pairVars
  PROVE  \/ file' = file \/ RedeemPublish \/ RevokeWrite
         \/ \E g \in GrantNumbers : file' = [file EXCEPT ![g] = Absent]
BY DEF PairNext, Redeem, Working, pairVars, disk, Invite, WrongCode, RedeemIntent, RedeemRetry,
   RedeemAgain, RedeemObserve, RevokeBegin, RevokeAgain, Lose, SettleRedemption,
   SettleRevocation, RevokeSettled, RevokeIntent, RevokeResume, RevokeObserve,
   RefuseRevocation, Migrate, Stop, Tick

LEMMA ObservedIsNotRecreated ==
  ASSUME PairingAssumption, PairIInv, [PairNext]_pairVars
  PROVE  NotRecreated
<1> SUFFICES ASSUME NEW i \in Invites, i \in Redeemed, inv[i].red.observed,
                    file[inv[i].red.grant] = Absent
             PROVE  file'[inv[i].red.grant] = Absent
  BY DEF NotRecreated
<1>1. PICK g : g = inv[i].red.grant OBVIOUS
<1>2. g \in GrantNumbers /\ mintedFor[g] = i
  BY <1>1, RedeemedGrants DEF Redeemed, Minted
<1>3. file \in [GrantNumbers -> GrantRecords] BY DEF PairIInv, PairKinds
<1>4. CASE RedeemPublish
  <2>1. PICK j : j = op.invite OBVIOUS
  <2>2. j \in Invites /\ j \in Redeemed /\ ~inv[j].red.observed
    BY <1>4, <2>1, Ops DEF RedeemPublish, PairIInv, OpOK
  <2>3. mintedFor[inv[j].red.grant] = j BY <2>2, RedeemedGrants DEF Redeemed
  <2>4. inv[j].red.grant # g BY <1>2, <2>2, <2>3
  <2>5. QED BY <1>1, <1>2, <1>3, <1>4, <2>1, <2>4 DEF RedeemPublish
<1>5. CASE RevokeWrite
  <2>1. op.grant # g
    BY <1>1, <1>5 DEF RevokeWrite, PairIInv, OpOK, Absent
  <2>2. QED BY <1>1, <1>2, <1>3, <1>5, <2>1 DEF RevokeWrite
<1>6. QED BY <1>1, <1>2, <1>3, <1>4, <1>5, RecordSteps

LEMMA PairIsCareful ==
  ASSUME PairingAssumption, PairIInv, [PairNext]_pairVars
  PROVE  PairSteps
BY CredentialStaysLive, ObservedIsNotRecreated DEF PairSteps

(* An invitation yields one grant, a revoked device stays revoked, live       *)
(* evidence outlives pruning, and the journal precedes every change and tells *)
(* the whole history, wherever the writer dies (pairing.rs,                   *)
(* pairing/audit.rs).                                                         *)
THEOREM PairingIsSafe == PairingAssumption => (PairSpec => []PairingSafety)
<1> SUFFICES ASSUME PairingAssumption PROVE PairSpec => []PairingSafety
  OBVIOUS
<1>1. PairInit => PairIInv BY PairBegins
<1>2. PairIInv /\ [PairNext]_pairVars => PairIInv' BY PairKeeps
<1>3. PairIInv => PairingSafety BY PairIsSafe
<1>4. QED BY <1>1, <1>2, <1>3, PTL DEF PairSpec

(* A credential is handed out only while its record is live and no revocation *)
(* of it is intended, and an observed record that disappears is not written   *)
(* again (pairing.rs redeem).                                                 *)
THEOREM CredentialsAreLive == PairingAssumption => (PairSpec => [][PairSteps]_pairVars)
<1> SUFFICES ASSUME PairingAssumption PROVE PairSpec => [][PairSteps]_pairVars
  OBVIOUS
<1>1. PairInit => PairIInv BY PairBegins
<1>2. PairIInv /\ [PairNext]_pairVars => PairIInv' BY PairKeeps
<1>3. PairIInv /\ [PairNext]_pairVars => [PairSteps]_pairVars BY PairIsCareful
<1>4. QED BY <1>1, <1>2, <1>3, PTL DEF PairSpec

-----------------------------------------------------------------------------
(* The rotation of a shared login: the inductive invariant.                *)

Account ==
  [gen : 1..MaxGen, state : {"ready", "signed out", "removed"}, cred : 0..MaxTokens,
   fence : Nat, login : Logins]

Process ==
  [pc : {"unbound", "load", "begin", "reload", "exchange", "save", "use", "done", "failed"},
   gen : 0..MaxGen, cur : 0..MaxTokens, rejected : 0..MaxTokens, fence : Nat,
   got : 0..MaxTokens, recovered : BOOLEAN]

\* The registry's credential is a token that was issued to the login its
\* generation was given to; what was not issued was not sent.
RegistryOK ==
  /\ acct \in Account
  /\ login \in [Tokens -> Logins] /\ genLogin \in [1..MaxGen -> Logins]
  /\ pred \in [Tokens -> 0..MaxTokens] /\ sent \in [Tokens -> Nat]
  /\ issued \in Tokens /\ expired \subseteq Tokens /\ fences \in Nat
  /\ acct.state = "ready" <=> acct.cred # NoToken
  /\ acct.cred <= issued /\ acct.fence <= fences
  /\ genLogin[acct.gen] = acct.login
  /\ acct.cred # NoToken => login[acct.cred] = acct.login
  /\ \A t \in Tokens : t > issued => sent[t] = 0

\* A process that holds a fence holds the credential it was set for as long as
\* it stands; what it got in exchange is offered to nobody yet.
ProcOK(r) ==
  /\ r \in Process
  /\ r.cur <= issued /\ r.got <= issued /\ r.gen <= acct.gen
  /\ r.pc # "unbound" => r.gen > 0
  /\ r.pc = "use" => r.cur \in Tokens /\ login[r.cur] = genLogin[r.gen]
  /\ r.pc \in {"exchange", "save"} =>
       /\ r.fence \in 1..fences
       /\ acct.fence = r.fence => acct.cred = r.cur
  /\ r.pc = "exchange" => r.cur \in Tokens /\ sent[r.cur] = 0
  /\ r.pc = "save" =>
       /\ r.got \in Tokens /\ sent[r.got] = 0
       /\ pred[r.got] = r.cur /\ acct.cred # r.got

ProcsOK == proc \in [Procs -> Process] /\ \A p \in Procs : ProcOK(proc[p])

\* What is offered is nobody's; a token is one process's to spend.
OfferOK ==
  (acct.state = "ready" /\ acct.fence = NoFence) =>
    /\ sent[acct.cred] = 0
    /\ \A p \in Procs : proc[p].pc = "exchange" => proc[p].cur # acct.cred

ApartOK ==
  \A p, q \in Procs :
    /\ proc[p].pc = "exchange" /\ proc[q].pc = "exchange" /\ p # q
         => proc[p].cur # proc[q].cur
    /\ proc[p].pc = "save" /\ proc[q].pc = "exchange" => proc[p].got # proc[q].cur
    /\ proc[p].pc = "save" /\ proc[q].pc = "save" /\ p # q
         => proc[p].got # proc[q].got

RefreshIInv == RegistryOK /\ ProcsOK /\ OfferOK /\ ApartOK /\ NeverReplayed

-----------------------------------------------------------------------------
(* A step of one process that leaves the registry alone.                   *)

LEMMA QuietProcess ==
  ASSUME RefreshAssumption, RefreshIInv, UNCHANGED Registry, NEW p \in Procs, NEW n,
         proc' = [proc EXCEPT ![p] = n], ProcOK(n), n.pc \notin {"exchange", "save"}
  PROVE  RefreshIInv'
<1>0. proc \in [Procs -> Process] /\ n \in Process BY DEF RefreshIInv, ProcsOK, ProcOK
<1>1. /\ proc' \in [Procs -> Process] /\ proc'[p] = n
      /\ \A q \in Procs : q # p => proc'[q] = proc[q]
  BY <1>0
<1>2. UNCHANGED <<acct, login, pred, issued, sent, genLogin, expired, fences>>
  BY DEF Registry
<1>3. RegistryOK' BY <1>2 DEF RefreshIInv, RegistryOK
<1>4. ASSUME NEW q \in Procs PROVE ProcOK(proc[q])'
  <2>1. ProcOK(proc'[q]) BY <1>1 DEF RefreshIInv, ProcsOK
  <2>2. QED BY <1>2, <2>1 DEF ProcOK
<1>5. ProcsOK' BY <1>1, <1>4 DEF ProcsOK
<1>6. \A q \in Procs : proc'[q].pc \in {"exchange", "save"} => proc'[q] = proc[q]
  BY <1>1
<1>7. OfferOK' BY <1>2, <1>6 DEF RefreshIInv, OfferOK
<1>8. ApartOK' BY <1>6 DEF RefreshIInv, ApartOK
<1>9. NeverReplayed' BY <1>2 DEF RefreshIInv, NeverReplayed
<1>10. QED BY <1>3, <1>5, <1>7, <1>8, <1>9 DEF RefreshIInv

LEMMA Constants ==
  ASSUME RefreshAssumption
  PROVE  /\ MaxTokens \in Nat /\ MaxTokens > 0 /\ MaxGen \in Nat /\ MaxGen > 0
         /\ MaxExpiries \in Nat /\ MaxLosses \in Nat
         /\ 1 \in 1..MaxGen /\ 1 \in Tokens /\ 0 \in 0..MaxTokens /\ 0 \in 0..MaxGen
BY DEF RefreshAssumption, Tokens

\* What a process becomes in its steps that are neither an exchange nor a save.
LEMMA ProcessTurns ==
  ASSUME RefreshAssumption, RegistryOK, NEW r, ProcOK(r)
  PROVE  /\ ProcOK(NewProc) /\ NewProc.pc = "unbound"
         /\ \A x \in {"begin", "reload", "done", "failed"} :
              ProcOK([r EXCEPT !.pc = x]) \/ r.pc = "unbound"
<1>1. ProcOK(NewProc) /\ NewProc.pc = "unbound"
  <2>1. NewProc \in Process BY Constants DEF NewProc, Process, NoToken, NoFence
  <2>2. issued \in Nat /\ acct.gen \in Nat /\ 0 <= issued /\ 0 <= acct.gen
    <3>1. issued \in 1..MaxTokens /\ acct.gen \in 1..MaxGen
      BY DEF RegistryOK, Account, Tokens
    <3>2. QED BY <3>1, Constants
  <2>3. QED BY <2>1, <2>2 DEF NewProc, ProcOK, NoToken, NoFence
<1>2. ASSUME NEW x \in {"begin", "reload", "done", "failed"}, r.pc # "unbound"
      PROVE  ProcOK([r EXCEPT !.pc = x])
  BY <1>2 DEF ProcOK, Process
<1>3. QED BY <1>1, <1>2

\* n is r, bound to generation g; the account b, signed out or removed.
BoundTo(n, r, g) == n = [r EXCEPT !.pc = "load", !.gen = g]
SignedOutOf(n, b, g, s) ==
  /\ s \in {"signed out", "removed"}
  /\ n = [b EXCEPT !.gen = g, !.cred = NoToken, !.fence = NoFence, !.state = s]

LEMMA BoundRecords ==
  ASSUME NEW r \in Process, NEW g \in 0..MaxGen, NEW n,
         BoundTo(n, r, g)
  PROVE  /\ n \in Process /\ n.pc = "load" /\ n.gen = g
         /\ n.cur = r.cur /\ n.got = r.got
BY DEF Process, BoundTo

LEMMA ProcessActs ==
  ASSUME RefreshAssumption, RefreshIInv, NEW p \in Procs,
         \/ Freeze(p) \/ Request(p) \/ Load(p) \/ Unavailable(p) \/ BeginRefused(p)
         \/ Reload(p) \/ SaveRefused(p) \/ Use(p) \/ Rejected(p) \/ Die(p)
  PROVE  RefreshIInv'
<1> DEFINE r == proc[p]
<1>0. /\ RegistryOK /\ ProcOK(r) /\ r \in Process /\ proc \in [Procs -> Process]
      /\ acct \in Account /\ issued \in Tokens
  BY DEF RefreshIInv, ProcsOK, ProcOK, RegistryOK
<1>1. UNCHANGED Registry
  BY DEF Freeze, Request, Load, Unavailable, BeginRefused, Reload, SaveRefused, Use,
     Rejected, Die
<1>2. ASSUME NEW n, proc' = [proc EXCEPT ![p] = n], ProcOK(n),
             n.pc \notin {"exchange", "save"}
      PROVE  RefreshIInv'
  BY <1>1, <1>2, QuietProcess
<1>3. ASSUME NEW x \in {"reload", "done", "failed"}, r.pc # "unbound",
             proc' = [proc EXCEPT ![p].pc = x]
      PROVE  RefreshIInv'
  <2> DEFINE n == [r EXCEPT !.pc = x]
  <2>1. ProcOK(n) BY <1>0, <1>3, ProcessTurns
  <2>2. proc' = [proc EXCEPT ![p] = n] BY <1>3
  <2>3. n.pc = x BY <1>0 DEF Process
  <2> HIDE DEF n
  <2>4. QED BY <1>2, <2>1, <2>2, <2>3
<1>4. CASE Freeze(p)
  <2>2. acct.gen \in 1..MaxGen /\ acct.gen \in 0..MaxGen /\ acct.gen > 0
    <3>1. acct \in Account BY <1>0
    <3>2. acct.gen \in 1..MaxGen BY <3>1 DEF Account
    <3>3. QED BY <3>2, Constants
  <2> DEFINE n == [r EXCEPT !.pc = "load", !.gen = acct.gen]
  <2>1. proc' = [proc EXCEPT ![p] = n] BY <1>0, <1>4 DEF Freeze
  <2>n. BoundTo(n, r, acct.gen) BY DEF BoundTo
  <2> HIDE DEF n
  <2>3. /\ n \in Process /\ n.pc = "load" /\ n.gen = acct.gen /\ n.cur = r.cur
        /\ n.got = r.got
    <3> HIDE DEF r
    <3> QED BY <1>0, <2>2, <2>n, BoundRecords
  <2>4. acct.gen <= acct.gen BY <2>2, Constants
  <2>5. ProcOK(n) BY <1>0, <2>2, <2>3, <2>4 DEF ProcOK
  <2>6. QED BY <1>2, <2>1, <2>3, <2>5
<1>5. CASE Request(p)
  <2> DEFINE n == [r EXCEPT !.pc = "load", !.rejected = NoToken]
  <2>1. proc' = [proc EXCEPT ![p] = n] /\ r.pc # "unbound" BY <1>0, <1>5 DEF Request
  <2>2. n \in Process /\ n.pc = "load" BY <1>0, Constants DEF Process, NoToken
  <2>3. ProcOK(n) BY <1>0, <2>1, <2>2 DEF ProcOK, Process
  <2> HIDE DEF n
  <2>4. QED BY <1>2, <2>1, <2>2, <2>3
<1>6. ASSUME Readable(p), r.pc # "unbound", NEW x \in {"use", "begin", "failed"},
             proc' = [proc EXCEPT ![p].cur = acct.cred, ![p].pc = x]
      PROVE  RefreshIInv'
  <2> DEFINE n == [r EXCEPT !.cur = acct.cred, !.pc = x]
  <2>1. proc' = [proc EXCEPT ![p] = n] BY <1>0, <1>6
  <2>2. /\ acct.cred \in 0..MaxTokens /\ acct.cred # NoToken /\ acct.cred <= issued
        /\ login[acct.cred] = genLogin[r.gen]
    BY <1>0, <1>6 DEF RegistryOK, Account, Readable, Checked
  <2>3. acct.cred \in Tokens BY <2>2, Constants DEF Tokens, NoToken
  <2>4. n \in Process /\ n.pc = x /\ n.cur = acct.cred /\ n.gen = r.gen /\ n.got = r.got
    BY <1>0, <2>2 DEF Process
  <2> HIDE DEF n
  <2>5. ProcOK(n) BY <1>0, <1>6, <2>2, <2>3, <2>4 DEF ProcOK
  <2>6. QED BY <1>2, <2>1, <2>4, <2>5
<1>7. CASE Load(p) BY <1>6, <1>7 DEF Load
<1>8. CASE Unavailable(p) BY <1>3, <1>8 DEF Unavailable, GivesUp
<1>9. CASE BeginRefused(p) BY <1>3, <1>9 DEF BeginRefused
<1>10. CASE Reload(p) BY <1>6, <1>10 DEF Reload
<1>11. CASE SaveRefused(p) BY <1>3, <1>11 DEF SaveRefused
<1>12. CASE Use(p) BY <1>3, <1>12 DEF Use
<1>13. CASE Rejected(p)
  <2>1. CASE proc' = [proc EXCEPT ![p].pc = "failed"] BY <1>3, <1>13, <2>1 DEF Rejected
  <2>2. CASE proc' = [proc EXCEPT ![p].pc = "load", ![p].rejected = proc[p].cur,
                                 ![p].recovered = TRUE]
    <3> DEFINE n == [r EXCEPT !.pc = "load", !.rejected = r.cur, !.recovered = TRUE]
    <3>1. proc' = [proc EXCEPT ![p] = n] /\ r.pc = "use" BY <1>0, <1>13, <2>2 DEF Rejected
    <3>2. n \in Process /\ n.pc = "load" BY <1>0 DEF Process
    <3>3. ProcOK(n) BY <1>0, <3>1, <3>2 DEF ProcOK, Process
    <3> HIDE DEF n
    <3>4. QED BY <1>2, <3>1, <3>2, <3>3
  <2>3. QED BY <1>13, <2>1, <2>2 DEF Rejected
<1>14. CASE Die(p)
  BY <1>0, <1>2, <1>14, ProcessTurns DEF Die
<1>15. QED
  BY <1>4, <1>5, <1>7, <1>8, <1>9, <1>10, <1>11, <1>12, <1>13, <1>14

-----------------------------------------------------------------------------
(* The fence, the exchange and the save.                                   *)

\* The records these steps write.
LEMMA Updates ==
  ASSUME NEW r \in Process, NEW b \in Account, NEW f \in Nat
  PROVE  /\ [r EXCEPT !.pc = "exchange", !.fence = f] \in Process
         /\ [b EXCEPT !.fence = f] \in Account
BY DEF Process, Account

LEMMA BeginKeeps ==
  ASSUME RefreshAssumption, RefreshIInv, NEW p \in Procs, Begin(p) PROVE RefreshIInv'
<1> DEFINE r == proc[p]
           n == [r EXCEPT !.pc = "exchange", !.fence = fences + 1]
           a == [acct EXCEPT !.fence = fences + 1]
<1>0. /\ RegistryOK /\ ProcOK(r) /\ r \in Process /\ proc \in [Procs -> Process]
      /\ acct \in Account /\ fences \in Nat /\ acct.fence <= fences
      /\ \A q \in Procs : ProcOK(proc[q]) /\ proc[q] \in Process
  BY DEF RefreshIInv, ProcsOK, ProcOK, RegistryOK
<1>1. /\ proc' = [proc EXCEPT ![p] = n] /\ acct' = a /\ fences' = fences + 1
      /\ UNCHANGED <<login, pred, issued, sent, genLogin, expired>>
      /\ acct.state = "ready" /\ acct.fence = NoFence /\ acct.cred = r.cur
      /\ r.pc = "begin"
  BY <1>0 DEF Begin, MayBegin, Checked
<1>2. /\ a \in Account /\ a.gen = acct.gen /\ a.state = acct.state /\ a.cred = acct.cred
      /\ a.login = acct.login /\ a.fence = fences + 1
  <2>1. fences + 1 \in Nat BY <1>0
  <2>2. a \in Account BY <1>0, <2>1, Updates
  <2>3. QED BY <1>0, <2>2 DEF Account
<1>3. /\ n \in Process /\ n.pc = "exchange" /\ n.fence = fences + 1 /\ n.cur = r.cur
      /\ n.got = r.got /\ n.gen = r.gen
  <2>1. fences + 1 \in Nat BY <1>0
  <2>2. n \in Process BY <1>0, <2>1, Updates
  <2>3. QED BY <1>0, <2>2 DEF Process
<1> HIDE DEF n, a
<1>4. /\ proc' \in [Procs -> Process] /\ proc'[p] = n
      /\ \A q \in Procs : q # p => proc'[q] = proc[q]
  BY <1>0, <1>1, <1>3
<1>5. acct.cred \in Tokens
  <2>1. acct.cred \in 0..MaxTokens /\ acct.cred # 0 BY <1>0, <1>1 DEF RegistryOK, Account, NoToken
  <2>2. QED BY <2>1, Constants DEF Tokens
<1>6. /\ sent[acct.cred] = 0
      /\ \A q \in Procs : proc[q].pc = "exchange" => proc[q].cur # acct.cred
  BY <1>1 DEF RefreshIInv, OfferOK
<1>7. RegistryOK' BY <1>0, <1>1, <1>2 DEF RegistryOK
<1>8. ASSUME NEW q \in Procs PROVE ProcOK(proc[q])'
  <2>1. CASE q = p
    <3>1. fences + 1 \in 1..(fences + 1) /\ a.cred = n.cur BY <1>0, <1>1, <1>2, <1>3
    <3>2. r.pc # "unbound" BY <1>1
    <3>3. QED BY <1>0, <1>1, <1>2, <1>3, <1>4, <1>5, <1>6, <2>1, <3>1, <3>2 DEF ProcOK
  <2>2. CASE q # p
    <3>1. proc'[q] = proc[q] /\ ProcOK(proc[q]) BY <1>0, <1>4, <2>2
    <3>2. proc[q].fence \in 1..fences => proc[q].fence \in 1..(fences + 1)
                                         /\ proc[q].fence # fences + 1
      BY <1>0
    <3>3. QED BY <1>1, <1>2, <3>1, <3>2 DEF ProcOK
  <2>3. QED BY <2>1, <2>2
<1>9. ProcsOK' BY <1>4, <1>8 DEF ProcsOK
<1>10. OfferOK'
  <2>1. acct'.fence # NoFence BY <1>0, <1>1, <1>2 DEF NoFence
  <2>2. QED BY <2>1 DEF OfferOK
<1>11. ApartOK'
  <2>1. ASSUME NEW q \in Procs, q # p, proc[q].pc = "exchange" PROVE proc[q].cur # n.cur
    BY <1>1, <1>3, <1>6, <2>1
  <2>2. ASSUME NEW q \in Procs, q # p, proc[q].pc = "save" PROVE proc[q].got # n.cur
    <3>1. acct.cred # proc[q].got BY <1>0, <2>2 DEF ProcOK
    <3>2. QED BY <1>1, <1>3, <3>1
  <2>3. QED BY <1>3, <1>4, <2>1, <2>2 DEF RefreshIInv, ApartOK
<1>12. NeverReplayed' BY <1>1 DEF RefreshIInv, NeverReplayed
<1>13. QED BY <1>7, <1>9, <1>10, <1>11, <1>12 DEF RefreshIInv

\* The exchange was sent: nobody else holds the token, and the one it brings is
\* new.
LEMMA ExchangeKeeps ==
  ASSUME RefreshAssumption, RefreshIInv, NEW p \in Procs, Exchange(p) \/ ExchangeFails(p)
  PROVE  RefreshIInv'
<1> DEFINE r == proc[p]
<1>0. /\ RegistryOK /\ ProcOK(r) /\ r \in Process /\ proc \in [Procs -> Process]
      /\ acct \in Account /\ fences \in Nat /\ r.pc = "exchange"
      /\ r.cur \in Tokens /\ sent[r.cur] = 0 /\ sent \in [Tokens -> Nat]
      /\ issued \in Tokens /\ pred \in [Tokens -> 0..MaxTokens]
      /\ \A q \in Procs : ProcOK(proc[q]) /\ proc[q] \in Process
  BY DEF RefreshIInv, ProcsOK, ProcOK, RegistryOK, Exchange, ExchangeFails
<1>1. /\ sent' = [sent EXCEPT ![r.cur] = 1]
      /\ UNCHANGED <<acct, genLogin, expired, fences>>
  BY <1>0 DEF Exchange, ExchangeFails
<1>2. /\ sent' \in [Tokens -> Nat] /\ sent'[r.cur] = 1
      /\ \A t \in Tokens : t # r.cur => sent'[t] = sent[t]
  BY <1>0, <1>1
<1>3. \A q \in Procs : proc[q].pc = "exchange" /\ q # p => proc[q].cur # r.cur
  BY <1>0 DEF RefreshIInv, ApartOK
<1>4. \A q \in Procs : proc[q].pc = "save" => proc[q].got # r.cur
  BY <1>0 DEF RefreshIInv, ApartOK
<1>5. r.cur <= issued BY <1>0 DEF ProcOK
<1>6. acct.state = "ready" /\ acct.fence = NoFence => acct.cred # r.cur /\ acct.cred \in Tokens
  <2>1. acct.state = "ready" => acct.cred \in 0..MaxTokens /\ acct.cred # 0
    BY <1>0 DEF RegistryOK, Account, NoToken
  <2>2. QED BY <1>0, <2>1, Constants DEF RefreshIInv, OfferOK, Tokens
<1>7. NeverReplayed'
  <2>1. ASSUME NEW t \in Tokens PROVE sent'[t] <= 1
    BY <1>2 DEF RefreshIInv, NeverReplayed
  <2>2. QED BY <2>1 DEF NeverReplayed
<1>8. CASE ExchangeFails(p)
  <2> DEFINE n == [r EXCEPT !.pc = "failed"]
  <2>1. proc' = [proc EXCEPT ![p] = n] /\ UNCHANGED <<login, pred, issued>>
    BY <1>0, <1>8 DEF ExchangeFails
  <2>2. /\ n \in Process /\ n.pc = "failed" /\ n.cur = r.cur /\ n.got = r.got
        /\ n.gen = r.gen
    BY <1>0 DEF Process
  <2> HIDE DEF n
  <2>3. /\ proc' \in [Procs -> Process] /\ proc'[p] = n
        /\ \A q \in Procs : q # p => proc'[q] = proc[q]
    BY <1>0, <2>1, <2>2
  <2>4. RegistryOK'
    <3>1. \A t \in Tokens : t > issued => sent'[t] = 0
      BY <1>0, <1>2, <1>5 DEF RegistryOK, Tokens
    <3>2. QED BY <1>0, <1>1, <1>2, <2>1, <3>1 DEF RegistryOK
  <2>5. ASSUME NEW q \in Procs PROVE ProcOK(proc[q])'
    <3>1. CASE q = p BY <1>0, <1>1, <2>1, <2>2, <2>3, <3>1 DEF ProcOK
    <3>2. CASE q # p
      <4>1. proc'[q] = proc[q] /\ ProcOK(proc[q]) BY <1>0, <2>3, <3>2
      <4>2. proc[q].pc = "exchange" => sent'[proc[q].cur] = 0
        BY <1>2, <1>3, <3>2, <4>1 DEF ProcOK
      <4>3. proc[q].pc = "save" => sent'[proc[q].got] = 0
        BY <1>2, <1>4, <4>1 DEF ProcOK
      <4>4. QED BY <1>1, <2>1, <4>1, <4>2, <4>3 DEF ProcOK
    <3>3. QED BY <3>1, <3>2
  <2>6. ProcsOK' BY <2>3, <2>5 DEF ProcsOK
  <2>7. OfferOK'
    BY <1>1, <1>2, <1>6, <2>2, <2>3 DEF RefreshIInv, OfferOK
  <2>8. ApartOK'
    BY <2>2, <2>3 DEF RefreshIInv, ApartOK
  <2>9. QED BY <1>7, <2>4, <2>6, <2>7, <2>8 DEF RefreshIInv
<1>9. CASE Exchange(p)
  <2> DEFINE g == issued + 1
             n == [r EXCEPT !.pc = "save", !.got = g]
  <2>1. g \in Tokens /\ g > issued /\ g \in 0..MaxTokens /\ g \in Nat
    <3>1. issued \in 1..MaxTokens /\ issued < MaxTokens
      BY <1>0, <1>9 DEF Exchange, Tokens
    <3>2. QED BY <3>1, Constants DEF Tokens
  <2>2. /\ proc' = [proc EXCEPT ![p] = n] /\ issued' = g
        /\ pred' = [pred EXCEPT ![g] = r.cur]
        /\ \E l \in Logins : login' = [login EXCEPT ![g] = l]
    BY <1>0, <1>9 DEF Exchange
  <2>3. /\ n \in Process /\ n.pc = "save" /\ n.cur = r.cur /\ n.got = g
        /\ n.gen = r.gen /\ n.fence = r.fence
    BY <1>0, <2>1 DEF Process
  <2> HIDE DEF n, g
  <2>4. /\ proc' \in [Procs -> Process] /\ proc'[p] = n
        /\ \A q \in Procs : q # p => proc'[q] = proc[q]
    BY <1>0, <2>2, <2>3
  <2>5. issued \in Nat /\ \A t \in Tokens : t \in Nat /\ (t <= issued => t # g /\ t <= g)
    BY <1>0, <2>1 DEF Tokens
  <2>6. sent'[g] = 0 /\ r.cur # g
    <3>1. r.cur # g BY <1>0, <1>5, <2>5
    <3>2. sent[g] = 0 BY <1>0, <2>1 DEF RegistryOK
    <3>3. QED BY <1>2, <2>1, <3>1, <3>2
  <2>7. /\ login' \in [Tokens -> Logins] /\ pred' \in [Tokens -> 0..MaxTokens]
        /\ pred'[g] = r.cur
        /\ \A t \in Tokens : t <= issued => login'[t] = login[t] /\ pred'[t] = pred[t]
    <3>1. login \in [Tokens -> Logins] /\ r.cur \in 0..MaxTokens
      BY <1>0 DEF RegistryOK, Process
    <3>2. QED BY <1>0, <2>1, <2>2, <2>5, <3>1
  <2>8. RegistryOK'
    <3>1. \A t \in Tokens : t > g => sent'[t] = 0
      <4>1. ASSUME NEW t \in Tokens, t > g PROVE sent'[t] = 0
        <5>1. t > issued /\ t # r.cur BY <1>0, <1>5, <2>1, <2>5, <4>1
        <5>2. QED BY <1>0, <1>2, <5>1 DEF RegistryOK
      <4>2. QED BY <4>1
    <3>2. acct.cred <= issued /\ acct.cred \in 0..MaxTokens
      BY <1>0 DEF RegistryOK, Account
    <3>3. acct.cred <= g BY <2>1, <2>5, <3>2
    <3>4. acct.cred # NoToken => login'[acct.cred] = login[acct.cred]
      BY <2>7, <3>2, Constants DEF Tokens, NoToken
    <3>5. QED BY <1>0, <1>1, <1>2, <2>1, <2>2, <2>7, <3>1, <3>3, <3>4 DEF RegistryOK
  <2>9. acct.cred # g
    <3>1. acct.cred <= issued /\ acct.cred \in 0..MaxTokens
      BY <1>0 DEF RegistryOK, Account
    <3>2. QED BY <2>1, <2>5, <3>1
  <2>10. ASSUME NEW q \in Procs, q # p PROVE proc[q].got # g /\ proc[q].cur # g
    <3>1. proc[q].got <= issued /\ proc[q].cur <= issued /\ proc[q] \in Process
      BY <1>0 DEF ProcOK
    <3>2. QED BY <2>1, <2>5, <3>1 DEF Process
  <2>11. ASSUME NEW q \in Procs PROVE ProcOK(proc[q])'
    <3>0. /\ ProcOK(proc[q]) /\ proc[q].cur <= g /\ proc[q].got <= g
      <4>1. proc[q].got <= issued /\ proc[q].cur <= issued /\ proc[q] \in Process
        BY <1>0 DEF ProcOK
      <4>2. proc[q].cur \in Nat /\ proc[q].got \in Nat BY <4>1 DEF Process
      <4>3. QED BY <1>0, <2>1, <2>5, <4>1, <4>2
    <3>1. CASE q = p
      <4>1. g <= g BY <2>1
      <4>2. QED BY <1>0, <1>1, <2>1, <2>2, <2>3, <2>4, <2>6, <2>7, <2>9, <3>0, <3>1, <4>1
               DEF ProcOK
    <3>2. CASE q # p
      <4>1. proc'[q] = proc[q] BY <2>4, <3>2
      <4>2. proc[q].pc = "exchange" => sent'[proc[q].cur] = 0
        BY <1>2, <1>3, <3>0, <3>2 DEF ProcOK
      <4>3. proc[q].pc = "save" => sent'[proc[q].got] = 0 /\ pred'[proc[q].got] = proc[q].cur
        BY <1>2, <1>4, <2>7, <3>0 DEF ProcOK
      <4>4. proc[q].pc = "use" => login'[proc[q].cur] = genLogin[proc[q].gen]
        BY <2>7, <3>0 DEF ProcOK
      <4>5. QED BY <1>1, <2>2, <3>0, <4>1, <4>2, <4>3, <4>4 DEF ProcOK
    <3>3. QED BY <3>1, <3>2
  <2>12. ProcsOK' BY <2>4, <2>11 DEF ProcsOK
  <2>13. OfferOK' BY <1>1, <1>2, <1>6, <2>3, <2>4 DEF RefreshIInv, OfferOK
  <2>14. ApartOK' BY <2>3, <2>4, <2>10 DEF RefreshIInv, ApartOK
  <2>15. QED BY <1>7, <2>8, <2>12, <2>13, <2>14 DEF RefreshIInv
<1>10. QED BY <1>8, <1>9

\* The commit: the fence still stands, so the credential is the one that was
\* exchanged.
LEMMA SaveKeeps == ASSUME RefreshAssumption, RefreshIInv, NEW p \in Procs, Save(p) PROVE RefreshIInv'
<1> DEFINE r == proc[p]
           n == [r EXCEPT !.pc = "use", !.cur = r.got]
           a == [acct EXCEPT !.cred = r.got, !.fence = NoFence]
<1>0. /\ RegistryOK /\ ProcOK(r) /\ r \in Process /\ proc \in [Procs -> Process]
      /\ acct \in Account /\ fences \in Nat /\ issued \in Tokens
      /\ \A q \in Procs : ProcOK(proc[q]) /\ proc[q] \in Process
  BY DEF RefreshIInv, ProcsOK, ProcOK, RegistryOK
<1>1. /\ proc' = [proc EXCEPT ![p] = n] /\ acct' = a
      /\ UNCHANGED <<login, pred, issued, sent, genLogin, expired, fences>>
      /\ acct.state = "ready" /\ acct.gen = r.gen /\ acct.fence = r.fence
      /\ login[r.got] = acct.login /\ r.pc = "save"
  BY <1>0 DEF Save, MaySave, Checked
<1>2. /\ r.got \in Tokens /\ r.got # NoToken /\ r.got <= issued /\ sent[r.got] = 0
      /\ r.got \in 0..MaxTokens /\ NoFence \in Nat
  BY <1>0, <1>1, Constants DEF ProcOK, Process, Tokens, NoToken, NoFence
<1>3. /\ a \in Account /\ a.gen = acct.gen /\ a.state = acct.state /\ a.cred = r.got
      /\ a.login = acct.login /\ a.fence = NoFence
  BY <1>0, <1>2 DEF Account
<1>4. /\ n \in Process /\ n.pc = "use" /\ n.cur = r.got /\ n.got = r.got /\ n.gen = r.gen
  BY <1>0, <1>2 DEF Process
<1> HIDE DEF n, a
<1>5. /\ proc' \in [Procs -> Process] /\ proc'[p] = n
      /\ \A q \in Procs : q # p => proc'[q] = proc[q]
  BY <1>0, <1>1, <1>4
<1>6. RegistryOK'
  <2>1. NoFence <= fences BY <1>0 DEF NoFence
  <2>2. QED BY <1>0, <1>1, <1>2, <1>3, <2>1 DEF RegistryOK
<1>7. ASSUME NEW q \in Procs PROVE ProcOK(proc[q])'
  <2>1. CASE q = p
    <3>1. r.pc # "unbound" BY <1>1
    <3>2. login[n.cur] = genLogin[n.gen] BY <1>0, <1>1, <1>4 DEF RegistryOK
    <3>3. QED BY <1>0, <1>1, <1>2, <1>3, <1>4, <1>5, <2>1, <3>1, <3>2 DEF ProcOK
  <2>2. CASE q # p
    <3>1. proc'[q] = proc[q] /\ ProcOK(proc[q]) BY <1>0, <1>5, <2>2
    <3>2. proc[q].fence \in 1..fences => proc[q].fence # NoFence BY <1>0 DEF NoFence
    <3>3. proc[q].pc = "save" => proc[q].got # r.got
      BY <1>1, <2>2 DEF RefreshIInv, ApartOK
    <3>4. QED BY <1>1, <1>3, <3>1, <3>2, <3>3 DEF ProcOK
  <2>3. QED BY <2>1, <2>2
<1>8. ProcsOK' BY <1>5, <1>7 DEF ProcsOK
<1>9. OfferOK'
  <2>1. ASSUME NEW q \in Procs, proc'[q].pc = "exchange" PROVE proc'[q].cur # r.got
    <3>1. q # p /\ proc'[q] = proc[q] BY <1>4, <1>5, <2>1
    <3>2. QED BY <1>1, <2>1, <3>1 DEF RefreshIInv, ApartOK
  <2>2. QED BY <1>1, <1>2, <1>3, <2>1 DEF OfferOK
<1>10. ApartOK' BY <1>4, <1>5 DEF RefreshIInv, ApartOK
<1>11. NeverReplayed' BY <1>1 DEF RefreshIInv, NeverReplayed
<1>12. QED BY <1>6, <1>8, <1>9, <1>10, <1>11 DEF RefreshIInv

-----------------------------------------------------------------------------
(* The provider's clock and the host owner.                                *)

LEMMA Transitive ==
  ASSUME NEW x \in Nat, NEW y \in Nat, NEW z \in Nat, x <= y, y <= z
  PROVE  x <= z
OBVIOUS

\* The account changes, its generation does not go back, and its credential
\* is none or one nobody has seen.
LEMMA OwnerKeeps ==
  ASSUME RefreshAssumption, RefreshIInv, UNCHANGED <<proc, fences, sent>>, RegistryOK',
         acct'.gen \in Nat, acct.gen <= acct'.gen, acct'.fence = NoFence,
         acct'.cred \in {NoToken} \cup {t \in Tokens : t > issued}, issued <= issued',
         acct'.state = "ready" => acct'.cred # NoToken,
         \A t \in Tokens : t <= issued => login'[t] = login[t] /\ pred'[t] = pred[t],
         \A g \in 1..MaxGen : g <= acct.gen => genLogin'[g] = genLogin[g]
  PROVE  RefreshIInv'
<1>0. /\ RegistryOK /\ acct \in Account /\ fences \in Nat /\ issued \in Tokens
      /\ proc \in [Procs -> Process] /\ issued \in Nat /\ issued' \in Nat
      /\ \A q \in Procs : ProcOK(proc[q]) /\ proc[q] \in Process
  BY SMTT(30), Constants DEF RefreshIInv, ProcsOK, ProcOK, RegistryOK, Tokens
<1>1. ASSUME NEW q \in Procs
      PROVE  /\ proc[q].cur \in Nat /\ proc[q].got \in Nat /\ proc[q].gen \in Nat
             /\ proc[q].cur <= issued' /\ proc[q].got <= issued' /\ proc[q].gen <= acct'.gen
             /\ proc[q].cur <= issued /\ proc[q].got <= issued
  <2>1. proc[q].cur <= issued /\ proc[q].got <= issued /\ proc[q].gen <= acct.gen
    BY <1>0 DEF ProcOK
  <2>2. proc[q].cur \in Nat /\ proc[q].got \in Nat /\ proc[q].gen \in Nat /\ acct.gen \in Nat
    <3>1. proc[q] \in Process BY <1>0
    <3>2. acct.gen \in 1..MaxGen BY <1>0 DEF Account
    <3>3. /\ proc[q].cur \in 0..MaxTokens /\ proc[q].got \in 0..MaxTokens
          /\ proc[q].gen \in 0..MaxGen
      BY <3>1 DEF Process
    <3>4. QED BY <3>2, <3>3, Constants
  <2>3. issued \in Nat /\ issued' \in Nat /\ issued <= issued'
        /\ acct'.gen \in Nat /\ acct.gen <= acct'.gen
    BY <1>0
  <2>4. proc[q].cur <= issued' BY <2>1, <2>2, <2>3, Transitive
  <2>5. proc[q].got <= issued' BY <2>1, <2>2, <2>3, Transitive
  <2>6. proc[q].gen <= acct'.gen BY <2>1, <2>2, <2>3, Transitive
  <2>7. QED BY <2>1, <2>2, <2>4, <2>5, <2>6
<1>2. ASSUME NEW q \in Procs PROVE ProcOK(proc[q])'
  <2>1. ProcOK(proc[q]) BY <1>0
  <2>2. proc[q].pc = "use" => login'[proc[q].cur] = genLogin'[proc[q].gen]
    <3>1. proc[q].pc = "use" =>
            /\ proc[q].cur \in Tokens /\ login[proc[q].cur] = genLogin[proc[q].gen]
            /\ proc[q].gen \in 1..MaxGen /\ proc[q].gen <= acct.gen
      BY <1>0, <2>1, Constants DEF ProcOK, Process
    <3>2. QED BY <1>1, <3>1
  <2>3. proc[q].fence \in 1..fences => proc[q].fence # acct'.fence BY <1>0 DEF NoFence
  <2>4. proc[q].pc = "save" =>
          /\ pred'[proc[q].got] = proc[q].cur
          /\ acct'.cred # proc[q].got
    <3>1. proc[q].pc = "save" => proc[q].got \in Tokens /\ pred[proc[q].got] = proc[q].cur
      BY <2>1 DEF ProcOK
    <3>2. proc[q].got \in Tokens => acct'.cred # proc[q].got
      BY <1>0, <1>1, Constants DEF Tokens, NoToken
    <3>3. QED BY <1>1, <3>1, <3>2
  <2>5. QED BY <1>1, <2>1, <2>2, <2>3, <2>4 DEF ProcOK
<1>3. ProcsOK' BY <1>0, <1>2 DEF ProcsOK
<1>4. OfferOK'
  <2>1. acct'.state = "ready" => acct'.cred \in Tokens /\ acct'.cred > issued
    OBVIOUS
  <2>2. acct'.state = "ready" => sent[acct'.cred] = 0 BY <1>0, <2>1 DEF RegistryOK
  <2>3. ASSUME NEW q \in Procs, acct'.state = "ready" PROVE proc[q].cur # acct'.cred
    BY <1>0, <1>1, <2>1, <2>3 DEF Tokens
  <2>4. QED BY <2>2, <2>3 DEF OfferOK
<1>5. ApartOK' BY DEF RefreshIInv, ApartOK
<1>6. NeverReplayed' BY DEF RefreshIInv, NeverReplayed
<1>7. QED BY <1>3, <1>4, <1>5, <1>6 DEF RefreshIInv

LEMMA SignedOut ==
  ASSUME NEW b \in Account, NEW g \in 1..MaxGen, NoToken \in 0..MaxTokens,
         NEW s, NEW n, SignedOutOf(n, b, g, s)
  PROVE  /\ n \in Account /\ n.gen = g /\ n.cred = NoToken /\ n.fence = NoFence
         /\ n.state = s /\ n.login = b.login
BY DEF Account, NoFence, SignedOutOf

LEMMA SignedIn ==
  ASSUME NEW g \in 1..MaxGen, NEW c \in 0..MaxTokens, NEW l \in Logins, NEW n,
         n = [gen |-> g, login |-> l, cred |-> c, fence |-> NoFence, state |-> "ready"]
  PROVE  /\ n \in Account /\ n.gen = g /\ n.cred = c /\ n.fence = NoFence
         /\ n.state = "ready" /\ n.login = l
BY DEF Account, NoFence

LEMMA ReauthenticateKeeps ==
  ASSUME RefreshAssumption, RefreshIInv, NEW l \in Logins, Reauthenticate(l)
  PROVE  RefreshIInv'
<1> DEFINE g == IF l = acct.login THEN acct.gen ELSE acct.gen + 1
           t == issued + 1
           n == [gen |-> g, login |-> l, cred |-> t, fence |-> NoFence, state |-> "ready"]
<1>0. /\ RegistryOK /\ acct \in Account /\ fences \in Nat /\ issued \in Tokens
      /\ login \in [Tokens -> Logins] /\ genLogin \in [1..MaxGen -> Logins]
      /\ pred \in [Tokens -> 0..MaxTokens] /\ genLogin[acct.gen] = acct.login
  BY DEF RefreshIInv, RegistryOK
<1>1. /\ g <= MaxGen /\ issued < MaxTokens /\ issued' = t /\ acct' = n
      /\ login' = [login EXCEPT ![t] = l] /\ pred' = [pred EXCEPT ![t] = NoToken]
      /\ genLogin' = [genLogin EXCEPT ![g] = l]
      /\ UNCHANGED <<sent, expired, proc, fences>>
  BY DEF Reauthenticate
<1>2. /\ t \in Tokens /\ t > issued /\ t \in 0..MaxTokens /\ t # NoToken /\ issued <= t
      /\ issued \in Nat
  BY <1>0, <1>1, Constants DEF Tokens, NoToken
<1>3. acct.gen \in 1..MaxGen BY <1>0 DEF Account
<1>4. g \in 1..MaxGen /\ acct.gen <= g /\ g \in Nat
  BY <1>1, <1>3, Constants
<1>5. \A h \in 1..MaxGen : h <= acct.gen => (h # g \/ l = acct.login)
  BY <1>3, Constants
<1> HIDE DEF g, t
<1>6. /\ n \in Account /\ n.gen = g /\ n.cred = t /\ n.fence = NoFence
      /\ n.state = "ready" /\ n.login = l
  BY <1>0, <1>2, <1>4, SignedIn
<1> HIDE DEF n
<1>7. /\ login' \in [Tokens -> Logins] /\ login'[t] = l
      /\ pred' \in [Tokens -> 0..MaxTokens]
      /\ genLogin' \in [1..MaxGen -> Logins] /\ genLogin'[g] = l
      /\ \A u \in Tokens : u <= issued => login'[u] = login[u] /\ pred'[u] = pred[u]
  <2>1. NoToken \in 0..MaxTokens BY Constants DEF NoToken
  <2>2. \A u \in Tokens : u <= issued => u # t BY <1>2 DEF Tokens
  <2>3. QED BY <1>0, <1>1, <1>2, <1>4, <2>1, <2>2
<1>8. \A h \in 1..MaxGen : h <= acct.gen => genLogin'[h] = genLogin[h]
  <2>1. ASSUME NEW h \in 1..MaxGen, h <= acct.gen PROVE genLogin'[h] = genLogin[h]
    <3>1. CASE h # g BY <1>0, <1>1, <3>1
    <3>2. CASE h = g
      <4>1. l = acct.login BY <1>5, <2>1, <3>2
      <4>2. g = acct.gen BY <4>1 DEF g
      <4>3. QED BY <1>0, <1>7, <3>2, <4>1, <4>2
    <3>3. QED BY <3>1, <3>2
  <2>2. QED BY <2>1
<1>9. RegistryOK'
  <2>1. \A u \in Tokens : u > t => sent[u] = 0
    <3>1. \A u \in Tokens : u > t => u > issued BY <1>0, <1>2 DEF Tokens
    <3>2. QED BY <1>0, <3>1 DEF RegistryOK
  <2>2. t <= t /\ NoFence <= fences BY <1>0, <1>2 DEF NoFence, Tokens
  <2>3. QED BY <1>0, <1>1, <1>2, <1>6, <1>7, <2>1, <2>2 DEF RegistryOK
<1>10. QED BY <1>1, <1>2, <1>4, <1>6, <1>7, <1>8, <1>9, OwnerKeeps

LEMMA LogoutKeeps ==
  ASSUME RefreshAssumption, RefreshIInv, NEW remove \in BOOLEAN, Logout(remove)
  PROVE  RefreshIInv'
<1> DEFINE g == acct.gen + 1
           s == IF remove THEN "removed" ELSE "signed out"
           n == [acct EXCEPT !.gen = g, !.cred = NoToken, !.fence = NoFence, !.state = s]
<1>0. /\ RegistryOK /\ acct \in Account /\ fences \in Nat /\ issued \in Tokens
      /\ genLogin \in [1..MaxGen -> Logins] /\ acct.login \in Logins
      /\ acct.gen \in 1..MaxGen
  BY DEF RefreshIInv, RegistryOK, Account
<1>1. /\ acct.gen < MaxGen /\ acct' = n /\ genLogin' = [genLogin EXCEPT ![g] = acct.login]
      /\ UNCHANGED <<login, pred, issued, sent, expired, proc, fences>>
  BY <1>0 DEF Logout, Account
<1>2. g \in 1..MaxGen /\ acct.gen <= g /\ g \in Nat /\ \A h \in 1..MaxGen : h <= acct.gen => h # g
  BY <1>0, <1>1, Constants
<1>3. s \in {"signed out", "removed"} /\ s # "ready" OBVIOUS
<1>4. NoToken \in 0..MaxTokens BY Constants DEF NoToken
<1> HIDE DEF g, s
<1>n. SignedOutOf(n, acct, g, s) BY <1>3 DEF SignedOutOf
<1> HIDE DEF n
<1>5. /\ n \in Account /\ n.gen = g /\ n.cred = NoToken /\ n.fence = NoFence
      /\ n.state = s /\ n.login = acct.login
  <2>1. acct \in Account /\ g \in 1..MaxGen /\ NoToken \in 0..MaxTokens
    BY <1>0, <1>2, <1>4
  <2>2. QED BY <2>1, <1>n, SignedOut
<1>6. /\ genLogin' \in [1..MaxGen -> Logins] /\ genLogin'[g] = acct.login
      /\ \A h \in 1..MaxGen : h <= acct.gen => genLogin'[h] = genLogin[h]
  BY <1>0, <1>1, <1>2
<1>7. NoToken <= issued /\ NoFence <= fences /\ issued <= issued
  BY <1>0, Constants DEF NoToken, NoFence, Tokens
<1>8. RegistryOK' BY <1>0, <1>1, <1>3, <1>5, <1>6, <1>7 DEF RegistryOK
<1>9. QED BY <1>1, <1>2, <1>3, <1>5, <1>6, <1>7, <1>8, OwnerKeeps

LEMMA ExpireKeeps == ASSUME RefreshAssumption, RefreshIInv, TokenExpires PROVE RefreshIInv'
<1>1. /\ UNCHANGED <<acct, login, pred, issued, sent, genLogin, proc, fences>>
      /\ expired' \subseteq Tokens
  BY DEF TokenExpires, RefreshIInv, RegistryOK
<1>2. RegistryOK' BY <1>1 DEF RefreshIInv, RegistryOK
<1>3. ProcsOK' BY <1>1 DEF RefreshIInv, ProcsOK, ProcOK
<1>4. OfferOK' /\ ApartOK' BY <1>1 DEF RefreshIInv, OfferOK, ApartOK
<1>5. NeverReplayed' BY <1>1 DEF RefreshIInv, NeverReplayed
<1>6. QED BY <1>2, <1>3, <1>4, <1>5 DEF RefreshIInv

-----------------------------------------------------------------------------
(* The theorems.                                                           *)

LEMMA RefreshBegins == ASSUME RefreshAssumption, RefreshInit PROVE RefreshIInv
<1>1. PICK l \in Logins :
        /\ acct = [gen |-> 1, state |-> "ready", cred |-> 1, fence |-> NoFence, login |-> l]
        /\ login = [t \in Tokens |-> l]
        /\ genLogin = [g \in 1..MaxGen |-> l]
  BY DEF RefreshInit
<1>2. /\ pred = [t \in Tokens |-> NoToken] /\ issued = 1
      /\ sent = [t \in Tokens |-> 0] /\ expired = {} /\ fences = 0
      /\ proc = [p \in Procs |-> NewProc]
  BY DEF RefreshInit
<1>3. 1 \in 1..MaxGen /\ 1 \in Tokens /\ 1 \in 0..MaxTokens /\ NoToken \in 0..MaxTokens
  BY Constants DEF Tokens, NoToken
<1>4. /\ acct \in Account /\ acct.gen = 1 /\ acct.cred = 1 /\ acct.fence = NoFence
      /\ acct.state = "ready" /\ acct.login = l
  BY <1>1, <1>3 DEF Account, NoFence
<1>5. RegistryOK
  BY <1>1, <1>2, <1>3, <1>4 DEF RegistryOK, NoToken, NoFence
<1>6. /\ NewProc \in Process /\ NewProc.pc = "unbound" /\ ProcOK(NewProc)
  <2>1. RegistryOK BY <1>5
  <2>2. NewProc \in Process BY Constants DEF NewProc, Process, NoToken, NoFence
  <2>3. QED BY <1>2, <1>4, <2>2 DEF NewProc, ProcOK, NoToken, NoFence
<1>7. ProcsOK BY <1>2, <1>6 DEF ProcsOK
<1>8. OfferOK /\ ApartOK /\ NeverReplayed
  BY <1>2, <1>3, <1>4, <1>6 DEF OfferOK, ApartOK, NeverReplayed
<1>9. QED BY <1>5, <1>7, <1>8 DEF RefreshIInv

LEMMA RefreshKeeps ==
  ASSUME RefreshAssumption, RefreshIInv, [RefreshNext]_refreshVars PROVE RefreshIInv'
<1>1. CASE UNCHANGED refreshVars
  <2>1. RegistryOK' BY <1>1 DEF refreshVars, RefreshIInv, RegistryOK
  <2>2. ProcsOK' BY <1>1 DEF refreshVars, RefreshIInv, ProcsOK, ProcOK
  <2>3. OfferOK' /\ ApartOK' /\ NeverReplayed'
    BY <1>1 DEF refreshVars, RefreshIInv, OfferOK, ApartOK, NeverReplayed
  <2>4. QED BY <2>1, <2>2, <2>3 DEF RefreshIInv
<1>2. ASSUME NEW p \in Procs, Freeze(p) \/ Request(p) \/ ResolveStep(p) \/ Die(p) PROVE RefreshIInv'
  <2>1. CASE Begin(p) BY <2>1, BeginKeeps
  <2>2. CASE Exchange(p) \/ ExchangeFails(p) BY <2>2, ExchangeKeeps
  <2>3. CASE Save(p) BY <2>3, SaveKeeps
  <2>4. QED BY <1>2, <2>1, <2>2, <2>3, ProcessActs DEF ResolveStep
<1>3. CASE TokenExpires BY <1>3, ExpireKeeps
<1>4. ASSUME NEW l \in Logins, Reauthenticate(l) PROVE RefreshIInv' BY <1>4, ReauthenticateKeeps
<1>5. ASSUME NEW remove \in BOOLEAN, Logout(remove) PROVE RefreshIInv' BY <1>5, LogoutKeeps
<1>6. QED BY <1>1, <1>2, <1>3, <1>4, <1>5 DEF RefreshNext

(* A fence marks the credential it was set for until it is committed or the  *)
(* owner replaces it (accounts.rs, oauth_begin to oauth_save).               *)
THEOREM RefreshInvariant == RefreshAssumption => (RefreshSpec => []RefreshIInv)
<1> SUFFICES ASSUME RefreshAssumption PROVE RefreshSpec => []RefreshIInv OBVIOUS
<1>1. RefreshInit => RefreshIInv BY RefreshBegins
<1>2. RefreshIInv /\ [RefreshNext]_refreshVars => RefreshIInv' BY RefreshKeeps
<1>3. QED BY <1>1, <1>2, PTL DEF RefreshSpec

LEMMA RefreshIsSafe == ASSUME RefreshAssumption, RefreshIInv PROVE TokenRefreshSafety
<1>1. RefreshTypeOK
  <2>1. RegistryOK /\ \A p \in Procs : proc[p] \in Process BY DEF RefreshIInv, ProcsOK
  <2>2. \A p \in Procs :
          /\ proc[p].pc \in {"unbound", "load", "begin", "reload", "exchange", "save",
                             "use", "done", "failed"}
          /\ {proc[p].cur, proc[p].got, proc[p].rejected} \subseteq 0..MaxTokens
    BY <2>1 DEF Process
  <2>3. QED BY <2>1, <2>2 DEF RegistryOK, Account, RefreshTypeOK
<1>2. NeverReplayed BY DEF RefreshIInv
<1>3. OfferedIsUnspent BY DEF RefreshIInv, OfferOK, OfferedIsUnspent
<1>4. SameLogin BY DEF RefreshIInv, ProcsOK, ProcOK, SameLogin
<1>5. QED BY <1>1, <1>2, <1>3, <1>4 DEF TokenRefreshSafety

(* A refresh token is sent once, what the registry offers is unspent, and no *)
(* process uses a token of another login than its binding's, whoever dies,   *)
(* loses an answer, signs in, signs out or removes the account meanwhile     *)
(* (chatgpt_oauth.rs, accounts.rs).                                          *)
THEOREM TokensAreSpentOnce == RefreshAssumption => (RefreshSpec => []TokenRefreshSafety)
<1> SUFFICES ASSUME RefreshAssumption PROVE RefreshSpec => []TokenRefreshSafety OBVIOUS
<1>1. RefreshSpec => []RefreshIInv BY RefreshInvariant
<1>2. RefreshIInv => TokenRefreshSafety BY RefreshIsSafe
<1>3. QED BY <1>1, <1>2, PTL

\* A credential changes by a sign-in, or by the commit of its own exchange.
LEMMA CommitsAreTimely ==
  ASSUME RefreshAssumption, RefreshIInv, [RefreshNext]_refreshVars
  PROVE  NoLateCommit /\ RemovedForGood
<1>1. ASSUME acct' = acct PROVE NoLateCommit /\ RemovedForGood
  BY <1>1 DEF NoLateCommit, RemovedForGood
<1>2. CASE UNCHANGED refreshVars BY <1>1, <1>2 DEF refreshVars
<1>3. ASSUME NEW p \in Procs, Begin(p) PROVE NoLateCommit /\ RemovedForGood
  <2>1. acct.state = "ready" /\ acct \in Account /\ acct' = [acct EXCEPT !.fence = fences + 1]
    BY <1>3 DEF Begin, MayBegin, Checked, RefreshIInv, RegistryOK
  <2>2. acct'.cred = acct.cred BY <2>1 DEF Account
  <2>3. QED BY <2>1, <2>2 DEF NoLateCommit, RemovedForGood
<1>4. ASSUME NEW p \in Procs, Save(p) PROVE NoLateCommit /\ RemovedForGood
  <2>1. /\ acct.state = "ready" /\ acct \in Account /\ pred' = pred
        /\ acct' = [acct EXCEPT !.cred = proc[p].got, !.fence = NoFence]
        /\ acct.fence = proc[p].fence /\ proc[p].pc = "save"
    BY <1>4 DEF Save, MaySave, Checked, RefreshIInv, RegistryOK
  <2>2. acct'.cred = proc[p].got BY <2>1 DEF Account
  <2>3. acct.cred = proc[p].cur /\ pred[proc[p].got] = proc[p].cur
    BY <2>1 DEF RefreshIInv, ProcsOK, ProcOK
  <2>4. QED BY <2>1, <2>2, <2>3 DEF NoLateCommit, RemovedForGood
<1>5. ASSUME NEW l \in Logins, Reauthenticate(l) PROVE NoLateCommit /\ RemovedForGood
  <2>1. /\ acct.state # "removed" /\ acct'.cred = issued + 1
        /\ pred' = [pred EXCEPT ![issued + 1] = NoToken] /\ pred \in [Tokens -> 0..MaxTokens]
    BY <1>5 DEF Reauthenticate, RefreshIInv, RegistryOK
  <2>2. QED BY <2>1 DEF NoLateCommit, RemovedForGood
<1>6. ASSUME NEW remove \in BOOLEAN, Logout(remove) PROVE NoLateCommit /\ RemovedForGood
  <2>1. /\ acct.state # "removed" /\ acct'.cred = NoToken
    BY <1>6 DEF Logout, RefreshIInv, RegistryOK, Account
  <2>2. NoToken \notin Tokens BY Constants DEF NoToken, Tokens
  <2>3. QED BY <2>1, <2>2 DEF NoLateCommit, RemovedForGood
<1>7. CASE TokenExpires BY <1>1, <1>7 DEF TokenExpires
<1>8. ASSUME NEW p \in Procs, Freeze(p) \/ Request(p) \/ ResolveStep(p) \/ Die(p)
      PROVE  NoLateCommit /\ RemovedForGood
  BY <1>1, <1>3, <1>4, <1>8
     DEF ResolveStep, Freeze, Request, Load, Unavailable, BeginRefused, Reload, Exchange,
     ExchangeFails, SaveRefused, Use, Rejected, Die, Registry
<1>9. QED BY <1>2, <1>5, <1>6, <1>7, <1>8 DEF RefreshNext

(* An exchange that ends late overwrites no newer sign-in and undoes no      *)
(* sign-out, and a removed account stays removed (accounts.rs, oauth_save).  *)
THEOREM LateCommitsAreRefused == RefreshAssumption => (RefreshSpec => [][RefreshSteps]_refreshVars)
<1> SUFFICES ASSUME RefreshAssumption PROVE RefreshSpec => [][RefreshSteps]_refreshVars OBVIOUS
<1>1. RefreshIInv /\ [RefreshNext]_refreshVars => [RefreshSteps]_refreshVars
  BY CommitsAreTimely DEF RefreshSteps
<1>2. RefreshSpec => []RefreshIInv BY RefreshInvariant
<1>3. QED BY <1>1, <1>2, PTL DEF RefreshSpec

-----------------------------------------------------------------------------
(* Device sign-in: the inductive invariant.                                *)

Starters == {"begin", "begun"}
InCharge == {"poll", "recheck", "exchange", "finish"}
Results == {"tokens", "pending", "denied", "expired", "failed"}
Jobs ==
  {IdleWorker} \cup [pc : {"begin", "run", "poll", "recheck", "exchange"}, e : Enrollments]
               \cup [pc : {"begun"}, e : Enrollments, got : {"device", "failed"}]
               \cup [pc : {"finish"}, e : Enrollments, got : Results,
                     phase : {"poll", "exchange"}]

\* A worker that called the provider for its enrollment, or is about to.
Busy(w) == worker[w].pc \in Starters \cup InCharge
\* One that has not exchanged a grant.
Polls(w) == \/ worker[w].pc \in {"poll", "recheck"}
            \/ worker[w].pc = "finish" /\ worker[w].phase = "poll"

Kinds ==
  /\ EnrollTypeOK
  /\ worker \in [Workers -> Jobs]
  /\ begun \in [Enrollments -> Nat] /\ exchanged \in [Enrollments -> Nat]
  /\ fenced \subseteq Enrollments

\* The provider's calls are accounted for by the record.
RecordOK(e) ==
  /\ begun[e] <= 1 /\ exchanged[e] <= 1
  /\ rec[e].state = "none" => begun[e] = 0 /\ e \notin resume
  /\ rec[e].state \in {"none", "starting", "pending"} => exchanged[e] = 0
  /\ rec[e].state = "exchanging" /\ rec[e].polling => exchanged[e] = 0 /\ rec[e].device
  /\ e \in fenced => rec[e].state = "cancelled" /\ begun[e] = 0 /\ exchanged[e] = 0

\* A worker's next call is one that was not made.
JobOK(w) ==
  LET e == worker[w].e IN
  /\ worker[w].pc # "idle" => rec[e].state # "none"
  /\ worker[w].pc \in Starters => rec[e].state \in {"starting", "cancelled", "uncertain"}
  /\ worker[w].pc \in InCharge => rec[e].state \notin {"none", "starting", "pending"}
  /\ Busy(w) => e \notin fenced
  /\ worker[w].pc = "begin" => begun[e] = 0
  /\ Polls(w) \/ worker[w].pc = "exchange" => exchanged[e] = 0
  /\ Polls(w) /\ rec[e].state = "exchanging" => rec[e].polling
  /\ worker[w].pc = "exchange" /\ rec[e].state = "exchanging" => ~rec[e].polling

\* One worker at a time calls the provider for an enrollment.
Alone ==
  \A w, x \in Workers : Busy(w) /\ Busy(x) /\ worker[w].e = worker[x].e => w = x

CallsOK ==
  /\ Kinds
  /\ \A e \in Enrollments : RecordOK(e)
  /\ \A w \in Workers : JobOK(w)
  /\ Alone

OutcomeOK == PublishedIsSucceeded /\ AliasUnique /\ AttemptsBounded

EnrollIInv == CallsOK /\ OutcomeOK

-----------------------------------------------------------------------------
(* A record moves on its own: it expires, or is closed.                    *)

Records == [state : States, device : BOOLEAN, polling : BOOLEAN, effects : BOOLEAN,
            cancels : 0 .. MaxCancels]

AsideTo(r, n) ==
  \/ n.state = r.state /\ n.device = r.device /\ n.polling = r.polling
  \/ /\ n.device = FALSE
     /\ \/ r.state = "starting" /\ n.state = "uncertain"
        \/ r.state = "pending" /\ n.state = "expired"
        \/ r.state = "exchanging" /\ n.state \in {"uncertain", "expired", "denied"}
        \/ r.state \notin {"none", "succeeded"} /\ n.state = "cancelled"

LEMMA KindsAre ==
  ASSUME Kinds
  PROVE  /\ rec \in [Enrollments -> Records]
         /\ \A e \in Enrollments :
              /\ rec[e] \in Records
              /\ rec[e].state \in States /\ rec[e].device \in BOOLEAN
              /\ rec[e].polling \in BOOLEAN
              /\ rec[e].state = "pending" => rec[e].device
              /\ rec[e].device => rec[e].state \in {"pending", "exchanging"}
BY DEF Kinds, EnrollTypeOK, Records

LEMMA JobsAre ==
  ASSUME Kinds, NEW w \in Workers
  PROVE  /\ worker[w] \in Jobs
         /\ worker[w].pc \in {"idle", "run"} \cup Starters \cup InCharge
         /\ worker[w].pc # "idle" => worker[w].e \in Enrollments
         /\ worker[w].pc = "begun" => worker[w].got \in {"device", "failed"}
         /\ worker[w].pc = "finish" =>
              worker[w].got \in Results /\ worker[w].phase \in {"poll", "exchange"}
<1>1. worker[w] \in Jobs BY DEF Kinds
<1>2. QED BY <1>1 DEF Jobs, IdleWorker, Starters, InCharge

LEMMA Expiring ==
  ASSUME Kinds, NEW e \in Enrollments
  PROVE  /\ Expire(e) \in Records /\ AsideTo(rec[e], Expire(e))
         /\ Expire(e).state = "pending" => rec[e].state = "pending" /\ e \notin past
         /\ e \notin past => Expire(e) = rec[e]
         /\ Expire(e).state \in Active \cup {"uncertain"} <=>
              /\ rec[e].state \in Active \cup {"uncertain"}
              /\ ~(rec[e].state = "pending" /\ e \in past)
         /\ e \in past => Expire(e).state \notin Active
<1>1. rec[e] \in Records BY KindsAre
<1>2. CASE e \notin past BY <1>1, <1>2 DEF Expire, AsideTo
<1>3. CASE e \in past /\ rec[e].state \in {"starting", "exchanging"}
  BY <1>1, <1>3 DEF Expire, AsideTo, Records, States, Active
<1>4. CASE e \in past /\ rec[e].state = "pending"
  BY <1>1, <1>4 DEF Expire, AsideTo, Records, States, Active
<1>5. CASE e \in past /\ rec[e].state \notin Active
  BY <1>1, <1>5 DEF Expire, AsideTo, Active
<1>6. QED BY <1>2, <1>3, <1>4, <1>5 DEF Active

LEMMA RecordStays ==
  ASSUME Kinds, NEW e \in Enrollments, RecordOK(e), AsideTo(rec[e], rec'[e]),
         rec'[e] \in Records, begun'[e] = begun[e], exchanged'[e] = exchanged[e],
         e \in fenced' <=> e \in fenced,
         e \in resume' => rec[e].state # "none"
  PROVE  /\ RecordOK(e)'
         /\ rec'[e].state = "pending" => rec'[e].device
         /\ rec'[e].device => rec'[e].state \in {"pending", "exchanging"}
BY KindsAre DEF RecordOK, AsideTo, Records

LEMMA JobStays ==
  ASSUME NEW w \in Workers, JobOK(w), worker'[w] = worker[w], NEW e, e = worker[w].e,
         worker[w].pc # "idle" =>
           /\ AsideTo(rec[e], rec'[e])
           /\ begun'[e] = begun[e] /\ exchanged'[e] = exchanged[e]
           /\ e \in fenced' <=> e \in fenced
  PROVE  JobOK(w)'
<1>1. CASE worker[w].pc = "idle" BY <1>1 DEF JobOK, Busy, Polls, Starters, InCharge
<1>2. CASE worker[w].pc # "idle"
  <2>1. /\ rec[e].state # "none" => rec'[e].state # "none"
        /\ rec[e].state \in {"starting", "cancelled", "uncertain"} =>
             rec'[e].state \in {"starting", "cancelled", "uncertain"}
        /\ rec[e].state \notin {"none", "starting", "pending"} =>
             rec'[e].state \notin {"none", "starting", "pending"}
        /\ rec'[e].state = "exchanging" =>
             rec[e].state = "exchanging" /\ rec'[e].polling = rec[e].polling
    BY <1>2 DEF AsideTo
  <2>2. QED BY <1>2, <2>1 DEF JobOK, Busy, Polls
<1>3. QED BY <1>1, <1>2

\* Whoever calls the provider for an enrollment goes on with it, or leaves it.
LEMMA AsideKeepsCalls ==
  ASSUME CallsOK, rec' \in [Enrollments -> Records],
         \A e \in Enrollments : AsideTo(rec[e], rec'[e]),
         UNCHANGED <<begun, exchanged, fenced>>,
         resume' \subseteq Enrollments, authorized' \subseteq Enrollments,
         past' \subseteq Enrollments,
         \A e \in resume' : rec[e].state # "none",
         worker' \in [Workers -> Jobs],
         \A w \in Workers :
           \/ worker'[w] = worker[w]
           \/ JobOK(w)' /\ (Busy(w)' => Busy(w) /\ worker'[w].e = worker[w].e)
  PROVE  CallsOK'
<1>0. Kinds BY DEF CallsOK
<1>1. ASSUME NEW e \in Enrollments
      PROVE  /\ RecordOK(e)'
             /\ rec'[e].state = "pending" => rec'[e].device
             /\ rec'[e].device => rec'[e].state \in {"pending", "exchanging"}
  BY <1>0, RecordStays DEF CallsOK
<1>2. Kinds'
  <2>1. EnrollTypeOK' BY <1>1 DEF EnrollTypeOK, Records
  <2>2. QED BY <1>0, <2>1 DEF Kinds
<1>3. ASSUME NEW w \in Workers PROVE JobOK(w)'
  <2>1. CASE worker'[w] = worker[w]
    <3>1. JobOK(w) BY DEF CallsOK
    <3>2. worker[w].pc # "idle" => worker[w].e \in Enrollments BY <1>0, JobsAre
    <3>3. QED BY <2>1, <3>1, <3>2, JobStays
  <2>2. QED BY <2>1
<1>4. Alone' BY DEF CallsOK, Alone, Busy
<1>5. QED BY <1>1, <1>2, <1>3, <1>4 DEF CallsOK

\* A step of the one worker that is busy with an enrollment.
LEMMA WorkerKeepsCalls ==
  ASSUME CallsOK, NEW w \in Workers, NEW e \in Enrollments,
         worker' \in [Workers -> Jobs], worker'[w].e = e,
         \A x \in Workers : x # w => worker'[x] = worker[x],
         \A x \in Workers : x # w /\ Busy(x) => worker[x].e # e,
         rec' \in [Enrollments -> Records], rec'[e].state # "none",
         begun' \in [Enrollments -> Nat], exchanged' \in [Enrollments -> Nat],
         \A d \in Enrollments : d # e =>
           rec'[d] = rec[d] /\ begun'[d] = begun[d] /\ exchanged'[d] = exchanged[d],
         UNCHANGED <<resume, authorized, past, fenced>>,
         rec'[e].state = "pending" => rec'[e].device,
         rec'[e].device => rec'[e].state \in {"pending", "exchanging"},
         RecordOK(e)', JobOK(w)'
  PROVE  CallsOK'
<1>0. Kinds BY DEF CallsOK
<1>1. Kinds'
  <2>1. EnrollTypeOK' BY <1>0 DEF Kinds, EnrollTypeOK, Records
  <2>2. QED BY <1>0, <2>1 DEF Kinds
<1>2. ASSUME NEW d \in Enrollments PROVE RecordOK(d)' BY DEF CallsOK, RecordOK
<1>3. ASSUME NEW x \in Workers PROVE JobOK(x)'
  <2>1. CASE x # w /\ worker[x].pc # "idle" /\ worker[x].e # e
    <3>1. worker[x].e \in Enrollments BY <1>0, <2>1, JobsAre
    <3>2. QED BY <2>1, <3>1 DEF CallsOK, JobOK, Busy, Polls
  <2>2. CASE x # w /\ ~Busy(x) /\ worker[x].e = e
    BY <2>2 DEF CallsOK, JobOK, Busy, Polls, Starters, InCharge
  <2>3. CASE x # w /\ worker[x].pc = "idle"
    BY <2>3 DEF JobOK, Busy, Polls, Starters, InCharge
  <2>4. QED BY <2>1, <2>2, <2>3
<1>4. Alone' BY DEF CallsOK, Alone, Busy
<1>5. QED BY <1>1, <1>2, <1>3, <1>4 DEF CallsOK

-----------------------------------------------------------------------------
(* What an enrollment comes to.                                            *)

Reserved == Active \cup {"uncertain"}

LEMMA OutcomeStays ==
  ASSUME EnrollmentAssumption, OutcomeOK, accounts' = accounts,
         \A e \in Enrollments :
           /\ rec'[e].state \in Reserved => rec[e].state \in Reserved
           /\ rec'[e].state \in Active => rec[e].state \in Active
           /\ rec'[e].state = "succeeded" <=> rec[e].state = "succeeded"
  PROVE  OutcomeOK'
<1>1. PublishedIsSucceeded' BY DEF OutcomeOK, PublishedIsSucceeded
<1>2. AliasUnique' BY DEF OutcomeOK, AliasUnique, Reserved
<1>3. AttemptsBounded'
  <2> DEFINE A == {e \in Enrollments : rec[e].state \in Active}
             B == {e \in Enrollments : rec'[e].state \in Active}
  <2>1. B \subseteq A OBVIOUS
  <2>2. IsFiniteSet(A)
    <3>1. A \subseteq Enrollments OBVIOUS
    <3>2. QED BY <3>1, FS_Subset DEF EnrollmentAssumption
  <2>3. IsFiniteSet(B) /\ Cardinality(B) <= Cardinality(A) BY <2>1, <2>2, FS_Subset
  <2>4. Cardinality(A) \in Nat /\ Cardinality(B) \in Nat BY <2>2, <2>3, FS_CardinalityType
  <2>5. Cardinality(A) <= MaxActive BY DEF OutcomeOK, AttemptsBounded
  <2>6. MaxActive \in Nat BY DEF EnrollmentAssumption
  <2>7. Cardinality(B) <= MaxActive BY <2>3, <2>4, <2>5, <2>6
  <2>8. QED BY <2>7 DEF AttemptsBounded
<1>4. QED BY <1>1, <1>2, <1>3 DEF OutcomeOK

LEMMA AsideKeepsOutcome ==
  ASSUME EnrollmentAssumption, OutcomeOK, accounts' = accounts,
         \A e \in Enrollments : AsideTo(rec[e], rec'[e])
  PROVE  OutcomeOK'
<1>1. \A e \in Enrollments :
        /\ rec'[e].state \in Reserved => rec[e].state \in Reserved
        /\ rec'[e].state \in Active => rec[e].state \in Active
        /\ rec'[e].state = "succeeded" <=> rec[e].state = "succeeded"
  BY DEF AsideTo, Reserved, Active
<1>2. QED BY <1>1, OutcomeStays

-----------------------------------------------------------------------------
(* The operations.                                                         *)

\* A new record: nobody acted for it before.
LEMMA NewKeepsCalls ==
  ASSUME CallsOK, NEW e \in Enrollments, rec[e].state = "none",
         rec' \in [Enrollments -> Records], rec'[e].state \in {"starting", "cancelled"},
         rec'[e].device = FALSE,
         \A d \in Enrollments : d # e => AsideTo(rec[d], rec'[d]),
         \A d \in Enrollments : d # e => (d \in fenced' <=> d \in fenced),
         e \in fenced' => rec'[e].state = "cancelled", fenced' \subseteq Enrollments,
         UNCHANGED <<begun, exchanged, resume, authorized, past>>,
         worker' \in [Workers -> Jobs],
         \/ worker' = worker
         \/ \E w \in Workers :
              /\ worker[w].pc = "idle" /\ rec'[e].state = "starting"
              /\ worker'[w] = [pc |-> "begin", e |-> e]
              /\ \A x \in Workers : x # w => worker'[x] = worker[x]
  PROVE  CallsOK'
<1>0. Kinds BY DEF CallsOK
<1>1. begun[e] = 0 /\ exchanged[e] = 0 /\ e \notin resume BY DEF CallsOK, RecordOK
<1>2. ASSUME NEW d \in Enrollments
      PROVE  /\ RecordOK(d)'
             /\ rec'[d].state = "pending" => rec'[d].device
             /\ rec'[d].device => rec'[d].state \in {"pending", "exchanging"}
  <2>1. CASE d = e BY <1>1, <2>1 DEF RecordOK
  <2>2. CASE d # e
    <3>1. rec'[d] \in Records OBVIOUS
    <3>2. RecordOK(d) BY DEF CallsOK
    <3>3. d \in resume' => rec[d].state # "none" BY <3>2 DEF RecordOK
    <3>4. QED BY <1>0, <2>2, <3>1, <3>2, <3>3, RecordStays
  <2>3. QED BY <2>1, <2>2
<1>3. Kinds'
  <2>1. EnrollTypeOK' BY <1>0, <1>2 DEF Kinds, EnrollTypeOK, Records
  <2>2. QED BY <1>0, <2>1 DEF Kinds
<1>4. ASSUME NEW w \in Workers, worker'[w] = worker[w] PROVE JobOK(w)'
  <2>1. JobOK(w) BY DEF CallsOK
  <2>2. worker[w].pc # "idle" => worker[w].e \in Enrollments /\ worker[w].e # e
    BY <1>0, <2>1, JobsAre DEF JobOK
  <2>3. QED BY <1>4, <2>1, <2>2, JobStays
<1>5. ASSUME NEW w \in Workers PROVE JobOK(w)'
  <2>1. CASE worker'[w] = worker[w] BY <1>4, <2>1
  <2>2. CASE worker'[w] = [pc |-> "begin", e |-> e] /\ rec'[e].state = "starting"
    BY <1>1, <2>2 DEF JobOK, Busy, Polls, Starters, InCharge
  <2>3. QED BY <2>1, <2>2
<1>6. \A x \in Workers : Busy(x) => worker[x].e # e
  BY DEF CallsOK, JobOK, Busy, Starters, InCharge
<1>7. Alone'
  <2>1. CASE worker' = worker BY <2>1 DEF CallsOK, Alone, Busy
  <2>2. ASSUME NEW w \in Workers, worker'[w] = [pc |-> "begin", e |-> e],
               \A x \in Workers : x # w => worker'[x] = worker[x]
        PROVE  Alone'
    BY <1>6, <2>2 DEF CallsOK, Alone, Busy
  <2>3. QED BY <2>1, <2>2
<1>8. QED BY <1>2, <1>3, <1>5, <1>7 DEF CallsOK

\* A step that leaves the outcomes and the other parts alone.
LEMMA AsideKeeps ==
  ASSUME EnrollmentAssumption, EnrollIInv, rec' \in [Enrollments -> Records],
         \A e \in Enrollments : AsideTo(rec[e], rec'[e]),
         UNCHANGED <<accounts, begun, exchanged, fenced>>,
         resume' \subseteq Enrollments, authorized' \subseteq Enrollments,
         past' \subseteq Enrollments,
         \A e \in resume' : rec[e].state # "none",
         worker' \in [Workers -> Jobs],
         \A w \in Workers :
           \/ worker'[w] = worker[w]
           \/ JobOK(w)' /\ (Busy(w)' => Busy(w) /\ worker'[w].e = worker[w].e)
  PROVE  EnrollIInv'
<1>1. CallsOK' BY AsideKeepsCalls DEF EnrollIInv
<1>2. OutcomeOK' BY AsideKeepsOutcome DEF EnrollIInv
<1>3. QED BY <1>1, <1>2 DEF EnrollIInv

LEMMA Others ==
  ASSUME Kinds
  PROVE  /\ resume \subseteq Enrollments /\ authorized \subseteq Enrollments
         /\ past \subseteq Enrollments /\ worker \in [Workers -> Jobs]
         /\ begun \in [Enrollments -> Nat] /\ exchanged \in [Enrollments -> Nat]
         /\ fenced \subseteq Enrollments
BY DEF Kinds, EnrollTypeOK

LEMMA Running ==
  ASSUME NEW e \in Enrollments
  PROVE  IdleWorker \in Jobs /\ [pc |-> "run", e |-> e] \in Jobs /\ [pc |-> "begin", e |-> e] \in Jobs
BY DEF Jobs

\* A worker that only runs, or rests, has nothing to account for.
LEMMA RestsOK ==
  ASSUME NEW w \in Workers, NEW e \in Enrollments, rec'[e].state # "none",
         worker'[w] = IdleWorker \/ worker'[w] = [pc |-> "run", e |-> e]
  PROVE  JobOK(w)' /\ ~Busy(w)'
BY DEF JobOK, Busy, Polls, Starters, InCharge, IdleWorker

\* A record changes on its own and at most one worker rests or runs.
LEMMA QuietKeeps ==
  ASSUME EnrollmentAssumption, EnrollIInv, NEW e \in Enrollments, rec[e].state # "none",
         rec' \in [Enrollments -> Records],
         \A d \in Enrollments : AsideTo(rec[d], rec'[d]),
         UNCHANGED <<accounts, begun, exchanged, fenced>>,
         resume' \subseteq resume, authorized' \subseteq Enrollments,
         past' \subseteq Enrollments,
         \/ worker' = worker
         \/ \E w \in Workers :
              worker' = [worker EXCEPT ![w] = IdleWorker]
              \/ worker' = [worker EXCEPT ![w] = [pc |-> "run", e |-> e]]
  PROVE  EnrollIInv'
<1>1. Kinds BY DEF EnrollIInv, CallsOK
<1>2. resume' \subseteq Enrollments /\ \A d \in resume' : rec[d].state # "none"
  BY <1>1, Others DEF EnrollIInv, CallsOK, RecordOK
<1>3. rec'[e].state # "none" BY DEF AsideTo
<1>4. CASE worker' = worker BY <1>1, <1>2, <1>4, Others, AsideKeeps
<1>5. ASSUME NEW w \in Workers,
             worker' = [worker EXCEPT ![w] = IdleWorker]
             \/ worker' = [worker EXCEPT ![w] = [pc |-> "run", e |-> e]]
      PROVE  EnrollIInv'
  <2>1. worker' \in [Workers -> Jobs] BY <1>1, <1>5, Others, Running
  <2>2. \A x \in Workers : x # w => worker'[x] = worker[x] BY <1>1, <1>5, Others
  <2>3. worker'[w] = IdleWorker \/ worker'[w] = [pc |-> "run", e |-> e] BY <1>1, <1>5, Others
  <2>4. JobOK(w)' /\ ~Busy(w)' BY <1>3, <2>3, RestsOK
  <2>5. QED BY <1>2, <2>1, <2>2, <2>4, AsideKeeps
<1>6. QED BY <1>4, <1>5

LEMMA OneAside ==
  ASSUME Kinds, NEW e \in Enrollments, NEW n \in Records, AsideTo(rec[e], n),
         rec' = [rec EXCEPT ![e] = n]
  PROVE  /\ rec' \in [Enrollments -> Records] /\ rec'[e] = n
         /\ \A d \in Enrollments : d # e => rec'[d] = rec[d]
         /\ \A d \in Enrollments : AsideTo(rec[d], rec'[d])
<1>1. rec \in [Enrollments -> Records] BY KindsAre
<1>2. \A d \in Enrollments : rec'[d] = IF d = e THEN n ELSE rec[d] BY <1>1
<1>3. rec' \in [Enrollments -> Records] BY <1>1
<1>4. QED BY <1>2, <1>3 DEF AsideTo

LEMMA AllExpire ==
  ASSUME Kinds, rec' = [x \in Enrollments |-> Expire(x)]
  PROVE  /\ rec' \in [Enrollments -> Records]
         /\ \A d \in Enrollments : rec'[d] = Expire(d) /\ AsideTo(rec[d], rec'[d])
BY Expiring

\* The registry admits a new enrollment: its alias is free and there is room.
LEMMA AdmittedOutcome ==
  ASSUME EnrollmentAssumption, Kinds, OutcomeOK, accounts' = accounts, NEW e \in Enrollments,
         rec[e].state = "none", rec'[e].state = "starting",
         \A d \in Enrollments : d # e => rec'[d] = Expire(d),
         Admissible([x \in Enrollments |-> Expire(x)], e)
  PROVE  OutcomeOK'
<1> DEFINE A == {x \in Enrollments : Expire(x).state \in Active}
           B == {x \in Enrollments : rec'[x].state \in Active}
<1>1. \A d \in Enrollments : d # e =>
        /\ rec'[d].state \in Reserved => rec[d].state \in Reserved
        /\ rec'[d].state = "succeeded" <=> rec[d].state = "succeeded"
  BY Expiring DEF AsideTo, Reserved, Active
<1>2. /\ \A a \in accounts : a.alias # AliasOf[e]
      /\ \A x \in Enrollments : AliasOf[x] = AliasOf[e] /\ x # e =>
           rec'[x].state \notin Reserved
      /\ Cardinality(A) < MaxActive
  BY DEF Admissible, Reserved
<1>3. PublishedIsSucceeded' BY <1>1 DEF OutcomeOK, PublishedIsSucceeded
<1>4. AliasUnique'
  <2>1. \A a, b \in accounts' : a.alias = b.alias => a = b BY DEF OutcomeOK, AliasUnique
  <2>2. ASSUME NEW d \in Enrollments, rec'[d].state \in Reserved
        PROVE  /\ \A a \in accounts' : a.alias # AliasOf[d]
               /\ \A x \in Enrollments \ {d} : AliasOf[x] = AliasOf[d] =>
                    rec'[x].state \notin Reserved
    BY <1>1, <1>2, <2>2 DEF OutcomeOK, AliasUnique, Reserved
  <2>3. QED BY <2>1, <2>2 DEF AliasUnique, Reserved
<1>5. AttemptsBounded'
  <2>1. A \subseteq Enrollments /\ B \subseteq A \cup {e} OBVIOUS
  <2>2. IsFiniteSet(A) BY <2>1, FS_Subset DEF EnrollmentAssumption
  <2>3. /\ IsFiniteSet(A \cup {e})
        /\ Cardinality(A \cup {e}) = IF e \in A THEN Cardinality(A) ELSE Cardinality(A) + 1
    BY <2>2, FS_AddElement
  <2>4. IsFiniteSet(B) /\ Cardinality(B) <= Cardinality(A \cup {e}) BY <2>1, <2>3, FS_Subset
  <2>5. Cardinality(A) \in Nat /\ Cardinality(B) \in Nat /\ MaxActive \in Nat
    BY <2>2, <2>4, FS_CardinalityType DEF EnrollmentAssumption
  <2>6. Cardinality(B) <= MaxActive BY <1>2, <2>3, <2>4, <2>5
  <2>7. QED BY <2>6 DEF AttemptsBounded
<1>6. QED BY <1>3, <1>4, <1>5 DEF OutcomeOK

LEMMA NewRecords ==
  ASSUME EnrollmentAssumption, NEW state \in States, NEW effects \in BOOLEAN
  PROVE  /\ NewRecord(state, effects) \in Records
         /\ NewRecord(state, effects).state = state
         /\ NewRecord(state, effects).device = FALSE
BY DEF NewRecord, Records, EnrollmentAssumption

LEMMA StartKeeps ==
  ASSUME EnrollmentAssumption, EnrollIInv, NEW w \in Workers, NEW e \in Enrollments, Start(w, e)
  PROVE  EnrollIInv'
<1>0. /\ Kinds /\ CallsOK /\ OutcomeOK /\ worker[w].pc = "idle"
      /\ UNCHANGED <<accounts, begun, exchanged, resume, authorized, past, fenced>>
  BY DEF EnrollIInv, CallsOK, Start, world
<1>1. CASE /\ rec[e].state # "none" /\ rec' = [x \in Enrollments |-> Expire(x)]
           /\ worker' = [worker EXCEPT ![w] = [pc |-> "run", e |-> e]]
  BY <1>0, <1>1, AllExpire, Others, QuietKeeps
<1>2. CASE /\ rec[e].state = "none" /\ Admissible([x \in Enrollments |-> Expire(x)], e)
           /\ rec' = [[x \in Enrollments |-> Expire(x)] EXCEPT
                       ![e] = NewRecord("starting", TRUE)]
           /\ worker' = [worker EXCEPT ![w] = [pc |-> "begin", e |-> e]]
  <2> DEFINE n == NewRecord("starting", TRUE)
  <2>1. n \in Records /\ n.state = "starting" /\ n.device = FALSE
    BY NewRecords DEF States, Active
  <2>2. rec' = [[x \in Enrollments |-> Expire(x)] EXCEPT ![e] = n] BY <1>2
  <2> HIDE DEF n
  <2>3. /\ rec' \in [Enrollments -> Records] /\ rec'[e] = n
        /\ \A d \in Enrollments : d # e => rec'[d] = Expire(d)
    BY <1>0, <2>1, <2>2, Expiring
  <2>4. /\ worker' \in [Workers -> Jobs] /\ worker'[w] = [pc |-> "begin", e |-> e]
        /\ \A x \in Workers : x # w => worker'[x] = worker[x]
    BY <1>0, <1>2, Others, Running
  <2>5. \A d \in Enrollments : d # e => AsideTo(rec[d], rec'[d]) BY <1>0, <2>3, Expiring
  <2>6. e \notin fenced' BY <1>0, <1>2 DEF CallsOK, RecordOK
  <2>7. CallsOK'
    <3>1. /\ rec[e].state = "none" /\ rec'[e].state = "starting" /\ rec'[e].device = FALSE
          /\ fenced' \subseteq Enrollments
      BY <1>0, <1>2, <2>1, <2>3, Others
    <3>2. \E x \in Workers :
            /\ worker[x].pc = "idle" /\ rec'[e].state = "starting"
            /\ worker'[x] = [pc |-> "begin", e |-> e]
            /\ \A y \in Workers : y # x => worker'[y] = worker[y]
      BY <1>0, <2>4, <3>1
    <3>3. \A d \in Enrollments : d # e => (d \in fenced' <=> d \in fenced) BY <1>0
    <3>4. UNCHANGED <<begun, exchanged, resume, authorized, past>> BY <1>0
    <3>5. rec' \in [Enrollments -> Records] /\ worker' \in [Workers -> Jobs] BY <2>3, <2>4
    <3>6. CallsOK BY <1>0
    <3>7. QED BY <2>5, <2>6, <3>1, <3>2, <3>3, <3>4, <3>5, <3>6, NewKeepsCalls
  <2>8. OutcomeOK' BY <1>0, <1>2, <2>1, <2>3, AdmittedOutcome
  <2>9. QED BY <2>7, <2>8 DEF EnrollIInv
<1>3. QED BY <1>1, <1>2 DEF Start

LEMMA ResolveKeeps ==
  ASSUME EnrollmentAssumption, EnrollIInv, NEW e \in Enrollments, Resolve(e) PROVE EnrollIInv'
<1>0. /\ Kinds /\ CallsOK /\ OutcomeOK
      /\ UNCHANGED <<accounts, worker, begun, exchanged, resume, authorized, past>>
  BY DEF EnrollIInv, CallsOK, Resolve
<1>1. CASE rec[e].state # "none" /\ rec' = [rec EXCEPT ![e] = Expire(e)] /\ fenced' = fenced
  BY <1>0, <1>1, Expiring, OneAside, Others, QuietKeeps
<1>2. CASE /\ rec[e].state = "none" /\ fenced' = fenced \cup {e}
           /\ rec' = [rec EXCEPT ![e] = NewRecord("cancelled", FALSE)]
  <2> DEFINE n == NewRecord("cancelled", FALSE)
  <2>1. n \in Records /\ n.state = "cancelled" /\ n.device = FALSE
    BY NewRecords DEF States, Active
  <2>2. rec' = [rec EXCEPT ![e] = n] BY <1>2
  <2> HIDE DEF n
  <2>3. /\ rec' \in [Enrollments -> Records] /\ rec'[e] = n
        /\ \A d \in Enrollments : d # e => rec'[d] = rec[d]
    BY <1>0, <2>1, <2>2, KindsAre
  <2>4. \A d \in Enrollments : d # e => AsideTo(rec[d], rec'[d]) BY <2>3 DEF AsideTo
  <2>5. worker' \in [Workers -> Jobs] BY <1>0, Others
  <2>6. CallsOK' BY <1>0, <1>2, <2>1, <2>3, <2>4, <2>5, Others, NewKeepsCalls
  <2>7. OutcomeOK' BY <1>0, <1>2, <2>1, <2>3, OutcomeStays DEF Reserved, Active
  <2>8. QED BY <2>6, <2>7 DEF EnrollIInv
<1>3. QED BY <1>1, <1>2 DEF Resolve

LEMMA StatusKeeps ==
  ASSUME EnrollmentAssumption, EnrollIInv, NEW e \in Enrollments, Status(e) PROVE EnrollIInv'
<1>0. /\ Kinds /\ rec[e].state # "none" /\ rec' = [rec EXCEPT ![e] = Expire(e)]
      /\ UNCHANGED <<accounts, worker, begun, exchanged, resume, authorized, past, fenced>>
  BY DEF EnrollIInv, CallsOK, Status, world
<1>1. QED BY <1>0, Expiring, OneAside, Others, QuietKeeps

LEMMA CancelKeeps ==
  ASSUME EnrollmentAssumption, EnrollIInv, NEW e \in Enrollments, NEW again \in BOOLEAN,
         Cancel(e, again)
  PROVE  EnrollIInv'
<1>0. /\ Kinds /\ rec[e].state # "none" /\ rec[e] \in Records
      /\ UNCHANGED <<accounts, worker, begun, exchanged, resume, authorized, past, fenced>>
  BY KindsAre DEF EnrollIInv, CallsOK, Cancel, world
<1> DEFINE r == rec[e]
           k == IF again THEN r.cancels ELSE r.cancels + 1
           t == IF r.state = "succeeded" THEN "succeeded" ELSE "cancelled"
           v == IF r.state = "succeeded" THEN r.device ELSE FALSE
           n == [r EXCEPT !.cancels = k, !.state = t, !.device = v]
<1>1. k \in 0 .. MaxCancels
  BY <1>0 DEF Cancel, Records, EnrollmentAssumption
<1>2. rec' = [rec EXCEPT ![e] = n] BY <1>0, KindsAre DEF Cancel, Records
<1>3. n \in Records /\ AsideTo(r, n)
  <2>1. r \in Records /\ r.state # "none" BY <1>0
  <2>2. t \in States /\ v \in BOOLEAN /\ t # "none" BY <2>1 DEF States, Records
  <2>3. r.state = "succeeded" => t = r.state /\ v = r.device OBVIOUS
  <2>4. r.state # "succeeded" => t = "cancelled" /\ v = FALSE OBVIOUS
  <2> HIDE DEF r, k, t, v
  <2>5. QED BY <1>1, <2>1, <2>2, <2>3, <2>4 DEF Records, AsideTo
<1> HIDE DEF n
<1>4. QED BY <1>0, <1>2, <1>3, OneAside, Others, QuietKeeps

LEMMA AddAccountKeeps ==
  ASSUME EnrollmentAssumption, EnrollIInv, NEW alias, AddAccount(alias) PROVE EnrollIInv'
<1>0. /\ UNCHANGED <<rec, worker, begun, exchanged, resume, authorized, past, fenced>>
      /\ accounts' = accounts \cup {[alias |-> alias, by |-> {}]}
      /\ \A a \in accounts : a.alias # alias
      /\ \A e \in Enrollments : AliasOf[e] = alias => rec[e].state \notin Reserved
      /\ CallsOK /\ OutcomeOK
  BY DEF AddAccount, world, MayInsert, AliasReserved, Reserved, EnrollIInv
<1>1. CallsOK'
  <2>1. Kinds /\ \A e \in resume : rec[e].state # "none"
    BY <1>0, Others DEF CallsOK, RecordOK
  <2>2. \A e \in Enrollments : AsideTo(rec[e], rec'[e]) BY <1>0 DEF AsideTo
  <2>3. QED BY <1>0, <2>1, <2>2, KindsAre, Others, AsideKeepsCalls
<1>2. PublishedIsSucceeded' BY <1>0 DEF OutcomeOK, PublishedIsSucceeded
<1>3. AliasUnique'
  <2>1. \A a \in accounts' :
          a \in accounts \/ (a = [alias |-> alias, by |-> {}] /\ a.alias = alias)
    BY <1>0
  <2>2. \A a, b \in accounts' : a.alias = b.alias => a = b
    BY <1>0, <2>1 DEF OutcomeOK, AliasUnique
  <2>3. ASSUME NEW e \in Enrollments, rec[e].state \in Reserved
        PROVE  \A a \in accounts' : a.alias # AliasOf[e]
    BY <1>0, <2>1, <2>3 DEF OutcomeOK, AliasUnique, Reserved
  <2>4. QED BY <1>0, <2>2, <2>3 DEF OutcomeOK, AliasUnique, Reserved
<1>4. AttemptsBounded' BY <1>0 DEF OutcomeOK, AttemptsBounded
<1>5. QED BY <1>1, <1>2, <1>3, <1>4 DEF EnrollIInv, OutcomeOK

-----------------------------------------------------------------------------
(* A worker's transactions.                                                *)

LEMMA Changed ==
  ASSUME Kinds, NEW e \in Enrollments, NEW s \in States, NEW v \in BOOLEAN, NEW p \in BOOLEAN,
         \/ rec' = [rec EXCEPT ![e].state = s, ![e].polling = p, ![e].device = v]
         \/ rec' = [rec EXCEPT ![e].state = s, ![e].device = v] /\ p = rec[e].polling
         \/ /\ rec' = [rec EXCEPT ![e].state = s, ![e].polling = p]
            /\ v = rec[e].device
         \/ rec' = [rec EXCEPT ![e].state = s] /\ p = rec[e].polling /\ v = rec[e].device
         \/ rec' = [rec EXCEPT ![e].polling = p] /\ s = rec[e].state /\ v = rec[e].device
  PROVE  /\ rec' \in [Enrollments -> Records]
         /\ rec'[e].state = s /\ rec'[e].device = v /\ rec'[e].polling = p
         /\ \A d \in Enrollments : d # e => rec'[d] = rec[d]
<1> DEFINE n == [rec[e] EXCEPT !.state = s, !.polling = p, !.device = v]
<1>1. rec \in [Enrollments -> Records] /\ rec[e] \in Records BY KindsAre
<1>2. rec' = [rec EXCEPT ![e] = n]
  <2>1. CASE rec' = [rec EXCEPT ![e].state = s, ![e].polling = p, ![e].device = v]
    BY <1>1, <2>1 DEF Records
  <2>2. CASE rec' = [rec EXCEPT ![e].state = s, ![e].device = v] /\ p = rec[e].polling
    BY <1>1, <2>2 DEF Records
  <2>3. CASE rec' = [rec EXCEPT ![e].state = s, ![e].polling = p] /\ v = rec[e].device
    BY <1>1, <2>3 DEF Records
  <2>4. CASE rec' = [rec EXCEPT ![e].state = s] /\ p = rec[e].polling /\ v = rec[e].device
    BY <1>1, <2>4 DEF Records
  <2>5. CASE rec' = [rec EXCEPT ![e].polling = p] /\ s = rec[e].state /\ v = rec[e].device
    BY <1>1, <2>5 DEF Records
  <2>6. QED BY <2>1, <2>2, <2>3, <2>4, <2>5
<1>3. n \in Records /\ n.state = s /\ n.device = v /\ n.polling = p BY <1>1 DEF Records
<1> HIDE DEF n
<1>4. QED BY <1>1, <1>2, <1>3

\* The enrollment is closed, or left as it is.
LEMMA ClosingKeeps ==
  ASSUME EnrollmentAssumption, EnrollIInv, NEW w \in Workers, NEW e \in Enrollments,
         rec[e].state # "none",
         rec' \in [Enrollments -> Records],
         \A d \in Enrollments : d # e => rec'[d] = rec[d],
         AsideTo(rec[e], rec'[e]),
         UNCHANGED <<accounts, begun, exchanged, world>>,
         worker' = [worker EXCEPT ![w] = IdleWorker]
         \/ worker' = [worker EXCEPT ![w] = [pc |-> "run", e |-> e]]
  PROVE  EnrollIInv'
<1>1. Kinds BY DEF EnrollIInv, CallsOK
<1>2. \A d \in Enrollments : AsideTo(rec[d], rec'[d]) BY DEF AsideTo
<1>3. UNCHANGED <<resume, authorized, past, fenced>> BY DEF world
<1>4. QED BY <1>1, <1>2, <1>3, Others, QuietKeeps

\* The worker goes on in its own job.
LEMMA JobKeeps ==
  ASSUME EnrollmentAssumption, EnrollIInv, NEW w \in Workers, NEW e \in Enrollments,
         worker[w].e = e, Busy(w),
         rec' \in [Enrollments -> Records],
         \A d \in Enrollments : AsideTo(rec[d], rec'[d]),
         UNCHANGED <<accounts, begun, exchanged, world>>,
         NEW j \in Jobs, worker' = [worker EXCEPT ![w] = j], j.e = e, JobOK(w)'
  PROVE  EnrollIInv'
<1>1. Kinds BY DEF EnrollIInv, CallsOK
<1>2. UNCHANGED <<resume, authorized, past, fenced>> BY DEF world
<1>3. \A d \in resume : rec[d].state # "none" BY <1>1, Others DEF EnrollIInv, CallsOK, RecordOK
<1>4. /\ worker' \in [Workers -> Jobs] /\ worker'[w] = j
      /\ \A x \in Workers : x # w => worker'[x] = worker[x]
  BY <1>1, Others
<1>5. QED BY <1>1, <1>2, <1>3, <1>4, Others, AsideKeeps

LEMMA AtWork ==
  ASSUME EnrollIInv, NEW w \in Workers, worker[w].pc # "idle"
  PROVE  /\ Kinds /\ CallsOK /\ OutcomeOK /\ worker \in [Workers -> Jobs]
         /\ worker[w].e \in Enrollments /\ JobOK(w) /\ RecordOK(worker[w].e)
         /\ rec[worker[w].e].state # "none" /\ rec[worker[w].e] \in Records
         /\ \A x \in Workers : x # w /\ Busy(x) /\ Busy(w) => worker[x].e # worker[w].e
         /\ rec[worker[w].e].state = "pending" => rec[worker[w].e].device
         /\ rec[worker[w].e].device => rec[worker[w].e].state \in {"pending", "exchanging"}
<1>1. Kinds /\ CallsOK /\ OutcomeOK BY DEF EnrollIInv, CallsOK
<1>2. worker[w].e \in Enrollments BY <1>1, JobsAre
<1>3. JobOK(w) /\ RecordOK(worker[w].e) BY <1>1, <1>2 DEF CallsOK
<1>4. \A x \in Workers : x # w /\ Busy(x) /\ Busy(w) => worker[x].e # worker[w].e
  BY <1>1 DEF CallsOK, Alone
<1>5. rec[worker[w].e].state # "none" BY <1>3 DEF JobOK
<1>6. QED BY <1>1, <1>2, <1>3, <1>4, <1>5, KindsAre, Others

LEMMA BeginRevokedKeeps ==
  ASSUME EnrollmentAssumption, EnrollIInv, NEW w \in Workers, BeginRevoked(w) PROVE EnrollIInv'
<1>0. worker[w].pc = "begin" BY DEF BeginRevoked, At
<1>e. PICK e \in Enrollments : e = worker[w].e BY <1>0, AtWork
<1>1. /\ Kinds /\ e \in Enrollments /\ rec[e].state \in {"starting", "cancelled", "uncertain"}
      /\ rec[e].polling \in BOOLEAN
  BY <1>e, <1>0, AtWork DEF JobOK, Starters, Records
<1>2. /\ rec' = [rec EXCEPT ![e].state = "cancelled", ![e].device = FALSE]
      /\ worker' = [worker EXCEPT ![w] = [pc |-> "run", e |-> e]]
      /\ UNCHANGED <<accounts, begun, exchanged, world>>
  BY <1>e DEF BeginRevoked, Goto
<1>3. "cancelled" \in States BY DEF States
<1>4. /\ rec' \in [Enrollments -> Records] /\ \A d \in Enrollments : d # e => rec'[d] = rec[d]
      /\ rec'[e].state = "cancelled" /\ rec'[e].device = FALSE
  BY <1>1, <1>2, <1>3, Changed
<1>5. AsideTo(rec[e], rec'[e]) BY <1>1, <1>4 DEF AsideTo
<1>6. QED BY <1>1, <1>2, <1>4, <1>5, ClosingKeeps

LEMMA BeginDeviceKeeps ==
  ASSUME EnrollmentAssumption, EnrollIInv, NEW w \in Workers, BeginDevice(w) PROVE EnrollIInv'
<1>0. worker[w].pc = "begin" /\ UNCHANGED <<rec, accounts, exchanged, world>>
  BY DEF BeginDevice, At
<1>e. PICK e \in Enrollments : e = worker[w].e BY <1>0, AtWork
<1>1. /\ Kinds /\ CallsOK /\ OutcomeOK /\ e \in Enrollments /\ worker \in [Workers -> Jobs]
      /\ rec[e].state \in {"starting", "cancelled", "uncertain"} /\ begun[e] = 0
      /\ e \notin fenced /\ RecordOK(e) /\ rec \in [Enrollments -> Records]
      /\ begun \in [Enrollments -> Nat] /\ exchanged \in [Enrollments -> Nat]
      /\ \A x \in Workers : x # w /\ Busy(x) => worker[x].e # e
      /\ rec[e].device => rec[e].state \in {"pending", "exchanging"}
  BY <1>e, <1>0, AtWork, KindsAre, Others DEF JobOK, Starters, Busy
<1>2. PICK got \in {"device", "failed"} :
        /\ worker' = [worker EXCEPT ![w] = [pc |-> "begun", e |-> e, got |-> got]]
        /\ begun' = [begun EXCEPT ![e] = @ + 1]
  BY <1>e DEF BeginDevice, Goto
<1>3. [pc |-> "begun", e |-> e, got |-> got] \in Jobs BY <1>1 DEF Jobs
<1>4. /\ worker' \in [Workers -> Jobs] /\ worker'[w] = [pc |-> "begun", e |-> e, got |-> got]
      /\ \A x \in Workers : x # w => worker'[x] = worker[x]
  BY <1>1, <1>2, <1>3
<1>5. /\ begun' \in [Enrollments -> Nat] /\ begun'[e] = 1
      /\ \A d \in Enrollments : d # e => begun'[d] = begun[d]
  BY <1>1, <1>2
<1>6. RecordOK(e)' BY <1>0, <1>1, <1>5 DEF RecordOK, world
<1>7. JobOK(w)' BY <1>0, <1>1, <1>4 DEF JobOK, Busy, Polls, Starters, InCharge, world
<1>8. CallsOK'
  <2>1. UNCHANGED <<resume, authorized, past, fenced>> BY <1>0 DEF world
  <2>2. worker'[w].e = e BY <1>4
  <2>3. QED BY <1>0, <1>1, <1>4, <1>5, <1>6, <1>7, <2>1, <2>2, WorkerKeepsCalls
<1>9. OutcomeOK' BY <1>0, <1>1, OutcomeStays
<1>10. QED BY <1>8, <1>9 DEF EnrollIInv

LEMMA BegunKeeps ==
  ASSUME EnrollmentAssumption, EnrollIInv, NEW w \in Workers, Begun(w) PROVE EnrollIInv'
<1>a. worker[w].pc = "begun" BY DEF Begun, At
<1>e. PICK e \in Enrollments : e = worker[w].e BY <1>a, AtWork
<1>0. /\ worker[w].pc = "begun" /\ UNCHANGED <<accounts, begun, exchanged, world>>
      /\ worker' = [worker EXCEPT ![w] = [pc |-> "run", e |-> e]]
  BY <1>a, <1>e DEF Begun, Goto
<1>1. /\ Kinds /\ CallsOK /\ OutcomeOK /\ e \in Enrollments /\ worker \in [Workers -> Jobs]
      /\ rec[e].state \in {"starting", "cancelled", "uncertain"}
      /\ RecordOK(e) /\ rec \in [Enrollments -> Records] /\ rec[e] \in Records
      /\ rec[e].polling \in BOOLEAN /\ rec[e].device = FALSE
      /\ begun \in [Enrollments -> Nat] /\ exchanged \in [Enrollments -> Nat]
      /\ \A x \in Workers : x # w /\ Busy(x) => worker[x].e # e
      /\ rec[e].state # "none"
  BY <1>e, <1>0, AtWork, KindsAre, Others DEF JobOK, Starters, Busy
<1>2. \/ rec' = rec
      \/ rec[e].state = "starting" /\ rec' = [rec EXCEPT ![e].state = "cancelled"]
      \/ rec[e].state = "starting" /\ rec' = [rec EXCEPT ![e].state = "uncertain"]
      \/ /\ rec[e].state = "starting"
         /\ rec' = [rec EXCEPT ![e].state = "pending", ![e].device = TRUE]
  BY <1>e DEF Begun
<1>3. {"cancelled", "uncertain", "pending"} \subseteq States BY DEF States, Active
<1>4. CASE rec' = rec
  <2>1. AsideTo(rec[e], rec'[e]) BY <1>4 DEF AsideTo
  <2>2. QED BY <1>0, <1>1, <1>4, <2>1, ClosingKeeps
<1>5. ASSUME NEW s \in {"cancelled", "uncertain"}, rec[e].state = "starting",
             rec' = [rec EXCEPT ![e].state = s]
      PROVE  EnrollIInv'
  <2>0. s \in States BY <1>3
  <2>1. /\ rec' \in [Enrollments -> Records] /\ \A d \in Enrollments : d # e => rec'[d] = rec[d]
        /\ rec'[e].state = s /\ rec'[e].device = FALSE
    BY <1>1, <1>5, <2>0, Changed
  <2>2. AsideTo(rec[e], rec'[e]) BY <1>5, <2>1 DEF AsideTo
  <2>3. QED BY <1>0, <1>1, <2>1, <2>2, ClosingKeeps
<1>6. CASE /\ rec[e].state = "starting"
           /\ rec' = [rec EXCEPT ![e].state = "pending", ![e].device = TRUE]
  <2>1. /\ rec' \in [Enrollments -> Records] /\ \A d \in Enrollments : d # e => rec'[d] = rec[d]
        /\ rec'[e].state = "pending" /\ rec'[e].device = TRUE
    BY <1>1, <1>3, <1>6, Changed
  <2>2. /\ worker' \in [Workers -> Jobs] /\ worker'[w] = [pc |-> "run", e |-> e]
        /\ \A x \in Workers : x # w => worker'[x] = worker[x]
    BY <1>0, <1>1, Running
  <2>3. RecordOK(e)' BY <1>0, <1>1, <1>6, <2>1 DEF RecordOK, world
  <2>4. JobOK(w)' BY <2>1, <2>2, <1>1, RestsOK
  <2>5. CallsOK'
    <3>1. UNCHANGED <<resume, authorized, past, fenced>> BY <1>0 DEF world
    <3>2. worker'[w].e = e BY <2>2
    <3>3. QED BY <1>0, <1>1, <2>1, <2>2, <2>3, <2>4, <3>1, <3>2, WorkerKeepsCalls
  <2>6. OutcomeOK' BY <1>0, <1>1, <1>6, <2>1, OutcomeStays DEF Reserved, Active
  <2>7. QED BY <2>5, <2>6 DEF EnrollIInv
<1>7. QED BY <1>2, <1>4, <1>5, <1>6

LEMMA DriveKeeps ==
  ASSUME EnrollmentAssumption, EnrollIInv, NEW w \in Workers, Drive(w) PROVE EnrollIInv'
<1>a. worker[w].pc = "run" BY DEF Drive, At
<1>e. PICK e \in Enrollments : e = worker[w].e BY <1>a, AtWork
<1>0. UNCHANGED <<accounts, begun, exchanged, world>> BY DEF Drive
<1>1. /\ Kinds /\ CallsOK /\ OutcomeOK /\ worker \in [Workers -> Jobs]
      /\ RecordOK(e) /\ rec \in [Enrollments -> Records] /\ rec[e] \in Records
      /\ rec[e].polling \in BOOLEAN /\ rec[e].state # "none"
      /\ rec[e].state = "pending" => rec[e].device
      /\ begun \in [Enrollments -> Nat] /\ exchanged \in [Enrollments -> Nat]
  BY <1>a, <1>e, AtWork, KindsAre, Others
<1>2. CASE /\ worker' = [worker EXCEPT ![w] = IdleWorker]
           /\ \/ rec' = rec
              \/ /\ rec[e].state # "succeeded"
                 /\ rec' = [rec EXCEPT ![e].state = "cancelled", ![e].device = FALSE]
              \/ rec' = [rec EXCEPT ![e] = Expire(e)]
  <2>1. CASE rec' = rec
    <3>1. AsideTo(rec[e], rec'[e]) BY <2>1 DEF AsideTo
    <3>2. QED BY <1>0, <1>1, <1>2, <2>1, <3>1, ClosingKeeps
  <2>2. CASE /\ rec[e].state # "succeeded"
             /\ rec' = [rec EXCEPT ![e].state = "cancelled", ![e].device = FALSE]
    <3>1. "cancelled" \in States BY DEF States
    <3>2. /\ rec' \in [Enrollments -> Records]
          /\ \A d \in Enrollments : d # e => rec'[d] = rec[d]
          /\ rec'[e].state = "cancelled" /\ rec'[e].device = FALSE
      BY <1>1, <2>2, <3>1, Changed
    <3>3. AsideTo(rec[e], rec'[e]) BY <1>1, <2>2, <3>2 DEF AsideTo
    <3>4. QED BY <1>0, <1>1, <1>2, <3>2, <3>3, ClosingKeeps
  <2>3. CASE rec' = [rec EXCEPT ![e] = Expire(e)]
    <3>1. Expire(e) \in Records /\ AsideTo(rec[e], Expire(e)) BY <1>1, Expiring
    <3>2. /\ rec' \in [Enrollments -> Records]
          /\ \A d \in Enrollments : d # e => rec'[d] = rec[d]
          /\ AsideTo(rec[e], rec'[e])
      BY <1>1, <2>3, <3>1, OneAside
    <3>3. QED BY <1>0, <1>1, <1>2, <3>2, ClosingKeeps
  <2>4. QED BY <1>2, <2>1, <2>2, <2>3
<1>3. CASE /\ Expire(e).state = "pending"
           /\ rec' = [rec EXCEPT ![e] = [Expire(e) EXCEPT !.state = "exchanging", !.polling = TRUE]]
           /\ worker' = [worker EXCEPT ![w] = [pc |-> "poll", e |-> e]]
  <2>1. rec[e].state = "pending" /\ Expire(e) = rec[e] BY <1>1, <1>3, Expiring
  <2>2. /\ rec' = [rec EXCEPT ![e].state = "exchanging", ![e].polling = TRUE]
    BY <1>1, <1>3, <2>1
  <2>3. "exchanging" \in States /\ rec[e].device = TRUE /\ TRUE \in BOOLEAN
    BY <1>1, <2>1 DEF States, Active, Records
  <2>4. /\ rec' \in [Enrollments -> Records]
        /\ \A d \in Enrollments : d # e => rec'[d] = rec[d]
        /\ rec'[e].state = "exchanging" /\ rec'[e].device = TRUE /\ rec'[e].polling = TRUE
    BY <1>1, <2>2, <2>3, Changed
  <2>5. [pc |-> "poll", e |-> e] \in Jobs BY DEF Jobs
  <2>6. /\ worker' \in [Workers -> Jobs] /\ worker'[w] = [pc |-> "poll", e |-> e]
        /\ \A x \in Workers : x # w => worker'[x] = worker[x]
    BY <1>1, <1>3, <2>5
  <2>7. e \notin fenced /\ exchanged[e] = 0 BY <1>1, <2>1 DEF RecordOK
  <2>8. RecordOK(e)' BY <1>0, <1>1, <2>1, <2>4, <2>7 DEF RecordOK, world
  <2>9. JobOK(w)'
    BY <1>0, <2>4, <2>6, <2>7 DEF JobOK, Busy, Polls, Starters, InCharge, world
  <2>10. \A x \in Workers : x # w /\ Busy(x) => worker[x].e # e
    BY <1>1, <2>1 DEF CallsOK, JobOK, Busy, Starters
  <2>11. CallsOK'
    <3>1. UNCHANGED <<resume, authorized, past, fenced>> BY <1>0 DEF world
    <3>2. worker'[w].e = e BY <2>6
    <3>3. QED BY <1>0, <1>1, <2>4, <2>6, <2>8, <2>9, <2>10, <3>1, <3>2, WorkerKeepsCalls
  <2>12. OutcomeOK' BY <1>0, <1>1, <2>1, <2>4, OutcomeStays DEF Reserved, Active
  <2>13. QED BY <2>11, <2>12 DEF EnrollIInv
<1>4. QED BY <1>e, <1>2, <1>3 DEF Drive, Goto

LEMMA PollKeeps ==
  ASSUME EnrollmentAssumption, EnrollIInv, NEW w \in Workers, Poll(w) PROVE EnrollIInv'
<1>a. worker[w].pc = "poll" /\ UNCHANGED <<rec, accounts, begun, exchanged, world>>
  BY DEF Poll, At
<1>e. PICK e \in Enrollments : e = worker[w].e BY <1>a, AtWork
<1>1. /\ Kinds /\ worker \in [Workers -> Jobs] /\ rec \in [Enrollments -> Records]
      /\ rec[e].state \notin {"none", "starting", "pending"} /\ e \notin fenced
      /\ exchanged[e] = 0 /\ (rec[e].state = "exchanging" => rec[e].polling)
      /\ Busy(w) /\ UNCHANGED fenced
  BY <1>a, <1>e, AtWork, KindsAre DEF JobOK, Busy, InCharge, Polls, world
<1>2. PICK j \in Jobs :
        /\ worker' = [worker EXCEPT ![w] = j] /\ j.e = e
        /\ (j.pc = "recheck" \/ (j.pc = "finish" /\ j.phase = "poll"))
  <2>1. CASE worker' = [worker EXCEPT ![w] = [pc |-> "recheck", e |-> e]]
    <3>1. [pc |-> "recheck", e |-> e] \in Jobs BY DEF Jobs
    <3>2. QED BY <2>1, <3>1
  <2>2. ASSUME NEW got \in Results,
               worker' = [worker EXCEPT ![w] =
                           [pc |-> "finish", e |-> e, got |-> got, phase |-> "poll"]]
        PROVE  \E j \in Jobs :
                 /\ worker' = [worker EXCEPT ![w] = j] /\ j.e = e
                 /\ (j.pc = "recheck" \/ (j.pc = "finish" /\ j.phase = "poll"))
    <3>1. [pc |-> "finish", e |-> e, got |-> got, phase |-> "poll"] \in Jobs
      BY <2>2 DEF Jobs
    <3>2. QED BY <2>2, <3>1
  <2>3. \/ worker' = [worker EXCEPT ![w] = [pc |-> "recheck", e |-> e]]
        \/ \E got \in Results :
             worker' = [worker EXCEPT ![w] =
                         [pc |-> "finish", e |-> e, got |-> got, phase |-> "poll"]]
    BY <1>e DEF Poll, Goto, Results
  <2>4. QED BY <2>1, <2>2, <2>3
<1>3. worker'[w] = j BY <1>1, <1>2
<1>4. JobOK(w)'
  BY <1>a, <1>1, <1>2, <1>3 DEF JobOK, Busy, Polls, Starters, InCharge
<1>5. \A d \in Enrollments : AsideTo(rec[d], rec'[d]) BY <1>a DEF AsideTo
<1>6. QED BY <1>a, <1>e, <1>1, <1>2, <1>4, <1>5, JobKeeps

LEMMA RecheckKeeps ==
  ASSUME EnrollmentAssumption, EnrollIInv, NEW w \in Workers, Recheck(w) PROVE EnrollIInv'
<1>a. worker[w].pc = "recheck" /\ UNCHANGED <<accounts, begun, exchanged, world>>
  BY DEF Recheck, At
<1>e. PICK e \in Enrollments : e = worker[w].e BY <1>a, AtWork
<1>1. /\ Kinds /\ CallsOK /\ OutcomeOK
      /\ worker \in [Workers -> Jobs] /\ rec \in [Enrollments -> Records]
      /\ rec[e].state \notin {"none", "starting", "pending"} /\ e \notin fenced
      /\ exchanged[e] = 0 /\ (rec[e].state = "exchanging" => rec[e].polling)
      /\ Busy(w) /\ UNCHANGED fenced /\ RecordOK(e)
      /\ rec[e].polling \in BOOLEAN /\ rec[e].device \in BOOLEAN /\ rec[e].state \in States
      /\ begun \in [Enrollments -> Nat] /\ exchanged \in [Enrollments -> Nat]
      /\ \A x \in Workers : x # w /\ Busy(x) => worker[x].e # e
  BY <1>a, <1>e, AtWork, KindsAre, Others DEF JobOK, Busy, InCharge, Polls, world
<1> DEFINE over == [pc |-> "finish", e |-> e, got |-> "failed", phase |-> "poll"]
<1>2. over \in Jobs /\ over.e = e /\ over.pc = "finish" /\ over.phase = "poll"
  BY DEF Jobs, Results
<1>3. \/ rec' = rec /\ worker' = [worker EXCEPT ![w] = over]
      \/ /\ rec[e].state = "exchanging" /\ worker' = [worker EXCEPT ![w] = over]
         /\ \E s \in {"cancelled", "expired"} :
              rec' = [rec EXCEPT ![e].state = s, ![e].device = FALSE]
      \/ /\ rec[e].state = "exchanging" /\ rec' = [rec EXCEPT ![e].polling = FALSE]
         /\ worker' = [worker EXCEPT ![w] = [pc |-> "exchange", e |-> e]]
  <2>1. CASE rec[e].state # "exchanging" BY <1>e, <2>1 DEF Recheck, Goto
  <2>2. CASE rec[e].state = "exchanging" /\ e \notin authorized
    BY <1>e, <2>2 DEF Recheck, Goto
  <2>3. CASE rec[e].state = "exchanging" /\ e \in authorized /\ e \in past
    BY <1>e, <2>3 DEF Recheck, Goto
  <2>4. CASE rec[e].state = "exchanging" /\ e \in authorized /\ e \notin past
    BY <1>e, <2>4 DEF Recheck, Goto
  <2>5. QED BY <2>1, <2>2, <2>3, <2>4
<1> HIDE DEF over
<1>4. ASSUME rec' \in [Enrollments -> Records],
             \A d \in Enrollments : AsideTo(rec[d], rec'[d]),
             worker' = [worker EXCEPT ![w] = over]
      PROVE  EnrollIInv'
  <2>1. worker'[w] = over BY <1>1, <1>2, <1>4
  <2>2. /\ rec'[e].state \notin {"none", "starting", "pending"}
        /\ rec'[e].state = "exchanging" => rec'[e].polling
    BY <1>1, <1>4 DEF AsideTo
  <2>3. JobOK(w)'
    BY <1>a, <1>1, <1>2, <2>1, <2>2 DEF JobOK, Busy, Polls, Starters, InCharge
  <2>4. QED BY <1>a, <1>e, <1>1, <1>2, <1>4, <2>3, JobKeeps
<1>5. CASE rec' = rec /\ worker' = [worker EXCEPT ![w] = over]
  <2>1. \A d \in Enrollments : AsideTo(rec[d], rec'[d]) BY <1>5 DEF AsideTo
  <2>2. QED BY <1>1, <1>4, <1>5, <2>1
<1>6. ASSUME NEW s \in {"cancelled", "expired"}, rec[e].state = "exchanging",
             worker' = [worker EXCEPT ![w] = over],
             rec' = [rec EXCEPT ![e].state = s, ![e].device = FALSE]
      PROVE  EnrollIInv'
  <2>0. s \in States BY <1>6 DEF States
  <2>1. /\ rec' \in [Enrollments -> Records]
        /\ \A d \in Enrollments : d # e => rec'[d] = rec[d]
        /\ rec'[e].state = s /\ rec'[e].device = FALSE
    BY <1>1, <1>6, <2>0, Changed
  <2>2. \A d \in Enrollments : AsideTo(rec[d], rec'[d]) BY <1>6, <2>1 DEF AsideTo
  <2>3. QED BY <1>4, <1>6, <2>1, <2>2
<1>7. CASE /\ rec[e].state = "exchanging" /\ rec' = [rec EXCEPT ![e].polling = FALSE]
           /\ worker' = [worker EXCEPT ![w] = [pc |-> "exchange", e |-> e]]
  <2>1. /\ rec' \in [Enrollments -> Records]
        /\ \A d \in Enrollments : d # e => rec'[d] = rec[d]
        /\ rec'[e].state = "exchanging" /\ rec'[e].device = rec[e].device
        /\ rec'[e].polling = FALSE
    BY ZenonT(30), <1>1, <1>7, Changed
  <2>2. [pc |-> "exchange", e |-> e] \in Jobs BY DEF Jobs
  <2>3. /\ worker' \in [Workers -> Jobs] /\ worker'[w] = [pc |-> "exchange", e |-> e]
        /\ \A x \in Workers : x # w => worker'[x] = worker[x]
    BY <1>1, <1>7, <2>2
  <2>4. RecordOK(e)' BY <1>a, <1>1, <2>1 DEF RecordOK, world
  <2>5. JobOK(w)' BY <1>a, <1>1, <2>1, <2>3 DEF JobOK, Busy, Polls, Starters, InCharge
  <2>6. CallsOK'
    <3>1. UNCHANGED <<resume, authorized, past, fenced>> BY <1>a DEF world
    <3>2. worker'[w].e = e BY <2>3
    <3>3. QED BY <1>a, <1>1, <2>1, <2>3, <2>4, <2>5, <3>1, <3>2, WorkerKeepsCalls
  <2>7. OutcomeOK' BY <1>a, <1>1, <1>7, <2>1, OutcomeStays DEF Reserved, Active
  <2>8. QED BY <2>6, <2>7 DEF EnrollIInv
<1>8. QED BY <1>3, <1>5, <1>6, <1>7

LEMMA ExchangeGrantKeeps ==
  ASSUME EnrollmentAssumption, EnrollIInv, NEW w \in Workers, ExchangeGrant(w) PROVE EnrollIInv'
<1>a. worker[w].pc = "exchange" /\ UNCHANGED <<rec, accounts, begun, world>>
  BY DEF ExchangeGrant, At
<1>e. PICK e \in Enrollments : e = worker[w].e BY <1>a, AtWork
<1>1. /\ Kinds /\ CallsOK /\ OutcomeOK
      /\ worker \in [Workers -> Jobs] /\ rec \in [Enrollments -> Records]
      /\ rec[e].state \notin {"none", "starting", "pending"} /\ e \notin fenced
      /\ exchanged[e] = 0 /\ (rec[e].state = "exchanging" => ~rec[e].polling)
      /\ UNCHANGED fenced /\ RecordOK(e)
      /\ rec[e].device => rec[e].state \in {"pending", "exchanging"}
      /\ begun \in [Enrollments -> Nat] /\ exchanged \in [Enrollments -> Nat]
      /\ \A x \in Workers : x # w /\ Busy(x) => worker[x].e # e
  BY <1>a, <1>e, AtWork, KindsAre, Others DEF JobOK, Busy, InCharge, Polls, world
<1>2. PICK got \in Results :
        /\ exchanged' = [exchanged EXCEPT ![e] = @ + 1]
        /\ worker' = [worker EXCEPT ![w] =
                       [pc |-> "finish", e |-> e, got |-> got, phase |-> "exchange"]]
  BY <1>e DEF ExchangeGrant, Goto, Results
<1>3. [pc |-> "finish", e |-> e, got |-> got, phase |-> "exchange"] \in Jobs BY DEF Jobs
<1>4. /\ worker' \in [Workers -> Jobs] /\ worker'[w].pc = "finish" /\ worker'[w].e = e
      /\ worker'[w].phase = "exchange"
      /\ \A x \in Workers : x # w => worker'[x] = worker[x]
  BY <1>1, <1>2, <1>3
<1>5. /\ exchanged' \in [Enrollments -> Nat] /\ exchanged'[e] = 1
      /\ \A d \in Enrollments : d # e => exchanged'[d] = exchanged[d]
  BY <1>1, <1>2
<1>6. RecordOK(e)' BY <1>a, <1>1, <1>5 DEF RecordOK, world
<1>7. JobOK(w)' BY <1>a, <1>1, <1>4 DEF JobOK, Busy, Polls, Starters, InCharge
<1>8. CallsOK'
  <2>1. UNCHANGED <<resume, authorized, past, fenced>> BY <1>a DEF world
  <2>2. QED BY <1>a, <1>1, <1>4, <1>5, <1>6, <1>7, <2>1, WorkerKeepsCalls
<1>9. OutcomeOK' BY <1>a, <1>1, OutcomeStays
<1>10. QED BY <1>8, <1>9 DEF EnrollIInv

\* The account is published and the enrollment succeeds, in one transaction.
LEMMA Publishing ==
  ASSUME EnrollmentAssumption, OutcomeOK, NEW e \in Enrollments, rec[e].state = "exchanging",
         MayInsert(AliasOf[e], {e}),
         accounts' = accounts \cup {[alias |-> AliasOf[e], by |-> {e}]},
         rec'[e].state = "succeeded",
         \A d \in Enrollments : d # e => rec'[d] = rec[d]
  PROVE  OutcomeOK'
<1> DEFINE new == [alias |-> AliasOf[e], by |-> {e}]
<1>1. /\ \A a \in accounts : a.alias # AliasOf[e]
      /\ \A d \in Enrollments : d # e /\ AliasOf[d] = AliasOf[e] => rec[d].state \notin Reserved
  BY DEF MayInsert, AliasReserved, Reserved
<1>2. /\ \A a \in accounts' : a \in accounts \/ a = new
      /\ new \in accounts' /\ accounts \subseteq accounts'
      /\ new.alias = AliasOf[e] /\ new.by = {e}
  OBVIOUS
<1> HIDE DEF new
<1>3. PublishedIsSucceeded'
  <2>1. \A d \in Enrollments : d # e => {d} # {e} OBVIOUS
  <2>2. ASSUME NEW d \in Enrollments
        PROVE  rec'[d].state = "succeeded" <=> \E a \in accounts' : a.by = {d}
    <3>1. CASE d = e BY <1>2, <3>1
    <3>2. CASE d # e BY <1>2, <2>1, <3>2 DEF OutcomeOK, PublishedIsSucceeded
    <3>3. QED BY <3>1, <3>2
  <2>3. QED BY <2>2 DEF PublishedIsSucceeded
<1>4. AliasUnique'
  <2>1. \A a, b \in accounts' : a.alias = b.alias => a = b
    BY <1>1, <1>2 DEF OutcomeOK, AliasUnique
  <2>2. ASSUME NEW d \in Enrollments, rec'[d].state \in Reserved
        PROVE  /\ \A a \in accounts' : a.alias # AliasOf[d]
               /\ \A x \in Enrollments \ {d} : AliasOf[x] = AliasOf[d] =>
                    rec'[x].state \notin Reserved
    <3>1. d # e /\ rec[d].state \in Reserved BY <2>2 DEF Reserved, Active
    <3>2. AliasOf[d] # AliasOf[e] BY <1>1, <3>1
    <3>3. \A a \in accounts : a.alias # AliasOf[d]
      BY <3>1 DEF OutcomeOK, AliasUnique, Reserved
    <3>4. \A x \in Enrollments \ {d} : AliasOf[x] = AliasOf[d] => rec[x].state \notin Reserved
      BY <3>1 DEF OutcomeOK, AliasUnique, Reserved
    <3>5. QED BY <1>2, <3>2, <3>3, <3>4
  <2>3. QED BY <2>1, <2>2 DEF AliasUnique, Reserved
<1>5. AttemptsBounded'
  <2> DEFINE A == {x \in Enrollments : rec[x].state \in Active}
             B == {x \in Enrollments : rec'[x].state \in Active}
  <2>1. B \subseteq A BY DEF Active
  <2>2. A \subseteq Enrollments OBVIOUS
  <2>3. IsFiniteSet(A) BY <2>2, FS_Subset DEF EnrollmentAssumption
  <2>4. IsFiniteSet(B) /\ Cardinality(B) <= Cardinality(A) BY <2>1, <2>3, FS_Subset
  <2>5. Cardinality(A) \in Nat /\ Cardinality(B) \in Nat /\ MaxActive \in Nat
    BY <2>3, <2>4, FS_CardinalityType DEF EnrollmentAssumption
  <2>6. Cardinality(A) <= MaxActive BY DEF OutcomeOK, AttemptsBounded
  <2>7. Cardinality(B) <= MaxActive BY <2>4, <2>5, <2>6
  <2>8. QED BY <2>7 DEF AttemptsBounded
<1>6. QED BY <1>3, <1>4, <1>5 DEF OutcomeOK

\* The worker applies an answer to the enrollment it holds, and runs on.
LEMMA Applied ==
  ASSUME EnrollmentAssumption, EnrollIInv, NEW w \in Workers, NEW e \in Enrollments,
         e = worker[w].e, worker[w].pc = "finish", rec[e].state = "exchanging",
         UNCHANGED <<begun, exchanged, world>>,
         worker' = [worker EXCEPT ![w] = [pc |-> "run", e |-> e]],
         rec' \in [Enrollments -> Records],
         \A d \in Enrollments : d # e => rec'[d] = rec[d],
         \/ rec'[e].state = "succeeded" /\ rec'[e].device = FALSE
         \/ /\ rec'[e].state = "pending" /\ exchanged[e] = 0
            /\ rec'[e].device = rec[e].device /\ rec[e].device = TRUE
  PROVE  CallsOK'
<1>1. /\ Kinds /\ CallsOK /\ worker \in [Workers -> Jobs] /\ e \notin fenced
      /\ RecordOK(e)
      /\ begun \in [Enrollments -> Nat] /\ exchanged \in [Enrollments -> Nat]
      /\ \A x \in Workers : x # w /\ Busy(x) => worker[x].e # e
  BY AtWork, Others DEF JobOK, Busy, InCharge
<1>2. /\ worker' \in [Workers -> Jobs] /\ worker'[w] = [pc |-> "run", e |-> e]
      /\ \A x \in Workers : x # w => worker'[x] = worker[x]
  BY <1>1, Running
<1>3. rec'[e].state # "none" OBVIOUS
<1>4. UNCHANGED <<resume, authorized, past, fenced>> BY DEF world
<1>5. RecordOK(e)' BY <1>1, <1>4 DEF RecordOK
<1>6. JobOK(w)' BY <1>2, <1>3, RestsOK
<1>7. worker'[w].e = e BY <1>2
<1>8. rec'[e].device => rec'[e].state \in {"pending", "exchanging"} OBVIOUS
<1>9. rec'[e].state = "pending" => rec'[e].device OBVIOUS
<1>10. QED BY <1>1, <1>2, <1>3, <1>4, <1>5, <1>6, <1>7, <1>8, <1>9, WorkerKeepsCalls

LEMMA FinishKeeps ==
  ASSUME EnrollmentAssumption, EnrollIInv, NEW w \in Workers, Finish(w) PROVE EnrollIInv'
<1>a. worker[w].pc = "finish" /\ UNCHANGED <<begun, exchanged, world>>
  BY DEF Finish, At
<1>e. PICK e \in Enrollments : e = worker[w].e BY <1>a, AtWork
<1>1. /\ Kinds /\ OutcomeOK
      /\ worker \in [Workers -> Jobs] /\ rec \in [Enrollments -> Records]
      /\ rec[e].state # "none" /\ RecordOK(e)
      /\ (Polls(w) => exchanged[e] = 0 /\ (rec[e].state = "exchanging" => rec[e].polling))
      /\ rec[e].polling \in BOOLEAN /\ rec[e].device \in BOOLEAN /\ rec[e].state \in States
  BY <1>a, <1>e, AtWork, KindsAre DEF JobOK
<1>2. worker' = [worker EXCEPT ![w] = [pc |-> "run", e |-> e]] BY <1>e DEF Finish, Goto
<1>3. \/ rec' = rec /\ accounts' = accounts
      \/ /\ rec[e].state = "exchanging" /\ accounts' = accounts
         /\ rec' = [rec EXCEPT ![e].state = "cancelled", ![e].device = FALSE]
      \/ /\ rec[e].state = "exchanging" /\ accounts' = accounts
         /\ \E s \in {"uncertain", "expired", "denied"} :
              rec' = [rec EXCEPT ![e].state = s, ![e].polling = FALSE, ![e].device = FALSE]
      \/ /\ rec[e].state = "exchanging" /\ MayInsert(AliasOf[e], {e})
         /\ accounts' = accounts \cup {[alias |-> AliasOf[e], by |-> {e}]}
         /\ rec' = [rec EXCEPT ![e].state = "succeeded", ![e].polling = FALSE,
                               ![e].device = FALSE]
      \/ /\ rec[e].state = "exchanging" /\ accounts' = accounts /\ PollAgain(w)
         /\ rec' = [rec EXCEPT ![e].state = "pending", ![e].polling = FALSE]
  <2>1. CASE rec[e].state # "exchanging" BY <1>e, <2>1 DEF Finish
  <2>2. CASE rec[e].state = "exchanging" /\ e \notin authorized BY <1>e, <2>2 DEF Finish
  <2>3. CASE rec[e].state = "exchanging" /\ e \in authorized BY <1>e, <2>3 DEF Finish
  <2>4. QED BY <2>1, <2>2, <2>3
<1>4. ASSUME accounts' = accounts, rec' \in [Enrollments -> Records],
             \A d \in Enrollments : d # e => rec'[d] = rec[d], AsideTo(rec[e], rec'[e])
      PROVE  EnrollIInv'
  BY <1>a, <1>1, <1>2, <1>4, ClosingKeeps
<1>5. CASE rec' = rec /\ accounts' = accounts
  <2>1. AsideTo(rec[e], rec'[e]) BY <1>5 DEF AsideTo
  <2>2. QED BY <1>1, <1>4, <1>5, <2>1
<1>6. CASE /\ rec[e].state = "exchanging" /\ accounts' = accounts
           /\ rec' = [rec EXCEPT ![e].state = "cancelled", ![e].device = FALSE]
  <2>0. "cancelled" \in States BY DEF States
  <2>1. /\ rec' \in [Enrollments -> Records]
        /\ \A d \in Enrollments : d # e => rec'[d] = rec[d]
        /\ rec'[e].state = "cancelled" /\ rec'[e].device = FALSE
    BY <1>1, <1>6, <2>0, Changed
  <2>2. AsideTo(rec[e], rec'[e]) BY <1>6, <2>1 DEF AsideTo
  <2>3. QED BY <1>4, <1>6, <2>1, <2>2
<1>7. ASSUME NEW s \in {"uncertain", "expired", "denied"}, rec[e].state = "exchanging",
             accounts' = accounts,
             rec' = [rec EXCEPT ![e].state = s, ![e].polling = FALSE, ![e].device = FALSE]
      PROVE  EnrollIInv'
  <2>0. s \in States BY <1>7 DEF States
  <2>1. /\ rec' \in [Enrollments -> Records]
        /\ \A d \in Enrollments : d # e => rec'[d] = rec[d]
        /\ rec'[e].state = s /\ rec'[e].device = FALSE
    BY <1>1, <1>7, <2>0, Changed
  <2>2. AsideTo(rec[e], rec'[e]) BY <1>7, <2>1 DEF AsideTo
  <2>3. QED BY <1>4, <1>7, <2>1, <2>2
<1>8. CASE /\ rec[e].state = "exchanging" /\ MayInsert(AliasOf[e], {e})
           /\ accounts' = accounts \cup {[alias |-> AliasOf[e], by |-> {e}]}
           /\ rec' = [rec EXCEPT ![e].state = "succeeded", ![e].polling = FALSE,
                                 ![e].device = FALSE]
  <2>0. "succeeded" \in States BY DEF States
  <2>1. /\ rec' \in [Enrollments -> Records]
        /\ \A d \in Enrollments : d # e => rec'[d] = rec[d]
        /\ rec'[e].state = "succeeded" /\ rec'[e].device = FALSE
    BY <1>1, <1>8, <2>0, Changed
  <2>2. CallsOK' BY ZenonT(30), <1>a, <1>e, <1>2, <1>8, <2>1, Applied
  <2>3. OutcomeOK' BY <1>1, <1>8, <2>1, Publishing
  <2>4. QED BY <2>2, <2>3 DEF EnrollIInv
<1>9. CASE /\ rec[e].state = "exchanging" /\ accounts' = accounts /\ PollAgain(w)
           /\ rec' = [rec EXCEPT ![e].state = "pending", ![e].polling = FALSE]
  <2>0. "pending" \in States BY DEF States, Active
  <2>1. /\ rec' \in [Enrollments -> Records]
        /\ \A d \in Enrollments : d # e => rec'[d] = rec[d]
        /\ rec'[e].state = "pending" /\ rec'[e].device = rec[e].device
    BY <1>1, <1>9, <2>0, Changed
  <2>2. Polls(w) BY <1>a, <1>9 DEF PollAgain, Polls
  <2>3. exchanged[e] = 0 /\ rec[e].device = TRUE BY <1>1, <1>9, <2>2 DEF RecordOK
  <2>4. CallsOK' BY <1>a, <1>e, <1>2, <1>9, <2>1, <2>3, Applied
  <2>5. OutcomeOK' BY <1>1, <1>9, <2>1, OutcomeStays DEF Reserved, Active
  <2>6. QED BY <2>4, <2>5 DEF EnrollIInv
<1>10. QED BY <1>3, <1>5, <1>6, <1>7, <1>8, <1>9

-----------------------------------------------------------------------------
(* The host.                                                               *)

LEMMA SameRecords ==
  ASSUME Kinds, rec' = rec
  PROVE  rec' \in [Enrollments -> Records] /\ \A d \in Enrollments : AsideTo(rec[d], rec'[d])
BY KindsAre DEF AsideTo

LEMMA HostKeeps ==
  ASSUME EnrollmentAssumption, EnrollIInv, NEW e \in Enrollments,
         ClockPasses(e) \/ AuthorityChanges(e)
  PROVE  EnrollIInv'
<1>1. Kinds /\ \A d \in resume : rec[d].state # "none" BY Others DEF EnrollIInv, CallsOK, RecordOK
<1>2. /\ rec' = rec /\ worker' = worker /\ resume' = resume
      /\ UNCHANGED <<accounts, begun, exchanged, fenced>>
      /\ past' \subseteq past \cup {e} /\ authorized' \subseteq authorized \cup {e}
  BY DEF ClockPasses, AuthorityChanges
<1>3. QED BY <1>1, <1>2, SameRecords, Others, AsideKeeps

LEMMA RestartKeeps ==
  ASSUME EnrollmentAssumption, EnrollIInv, Restart PROVE EnrollIInv'
<1>1. Kinds BY DEF EnrollIInv, CallsOK
<1>2. /\ rec' = [x \in Enrollments |-> Expire(x)]
      /\ resume' = {x \in Enrollments : Expire(x).state \in Active}
      /\ worker' = [w \in Workers |-> IdleWorker]
      /\ UNCHANGED <<accounts, authorized, past, begun, exchanged, fenced>>
  BY DEF Restart
<1>3. resume' \subseteq Enrollments /\ \A d \in resume' : rec[d].state # "none"
  BY <1>1, <1>2, Expiring DEF Active
<1>4. worker' \in [Workers -> Jobs] BY <1>2 DEF Jobs
<1>5. \A w \in Workers : JobOK(w)' /\ ~Busy(w)'
  BY <1>2 DEF JobOK, Busy, Polls, Starters, InCharge, IdleWorker
<1>6. QED BY <1>1, <1>2, <1>3, <1>4, <1>5, AllExpire, Others, AsideKeeps

LEMMA ResumeKeeps ==
  ASSUME EnrollmentAssumption, EnrollIInv, NEW w \in Workers, NEW e \in Enrollments, Resume(w, e)
  PROVE  EnrollIInv'
<1>1. Kinds /\ rec[e].state # "none" BY DEF EnrollIInv, CallsOK, RecordOK, Resume
<1>2. /\ rec' = rec /\ worker' = [worker EXCEPT ![w] = [pc |-> "run", e |-> e]]
      /\ resume' \subseteq resume
      /\ UNCHANGED <<accounts, authorized, past, begun, exchanged, fenced>>
  BY DEF Resume, Goto
<1>3. QED BY <1>1, <1>2, SameRecords, Others, QuietKeeps

-----------------------------------------------------------------------------
(* The theorems.                                                           *)

LEMMA EnrollBegins == ASSUME EnrollmentAssumption, EnrollInit PROVE EnrollIInv
<1>1. NoRecord \in Records /\ NoRecord.state = "none" /\ NoRecord.device = FALSE
  BY NewRecords DEF NoRecord, States
<1>2. /\ rec = [e \in Enrollments |-> NoRecord] /\ accounts = {}
      /\ worker = [w \in Workers |-> IdleWorker]
      /\ resume = {} /\ authorized = Enrollments /\ past = {} /\ fenced = {}
      /\ begun = [e \in Enrollments |-> 0] /\ exchanged = [e \in Enrollments |-> 0]
  BY DEF EnrollInit
<1>3. /\ \A e \in Enrollments : rec[e].state = "none" /\ rec[e].device = FALSE
      /\ rec \in [Enrollments -> Records]
  BY <1>1, <1>2
<1>4. Kinds
  <2>1. worker \in [Workers -> Jobs] BY <1>2, Running DEF Jobs
  <2>2. EnrollTypeOK BY <1>2, <1>3 DEF EnrollTypeOK, Records
  <2>3. QED BY <1>2, <2>1, <2>2 DEF Kinds
<1>5. \A e \in Enrollments : RecordOK(e) BY <1>2, <1>3 DEF RecordOK
<1>6. \A w \in Workers : JobOK(w) /\ ~Busy(w)
  BY <1>2 DEF JobOK, Busy, Polls, Starters, InCharge, IdleWorker
<1>7. OutcomeOK
  <2>1. PublishedIsSucceeded /\ AliasUnique
    BY <1>2, <1>3 DEF PublishedIsSucceeded, AliasUnique, Active
  <2>2. {e \in Enrollments : rec[e].state \in Active} = {} BY <1>3 DEF Active
  <2>3. AttemptsBounded
    BY <2>2, FS_EmptySet DEF AttemptsBounded, EnrollmentAssumption
  <2>4. QED BY <2>1, <2>3 DEF OutcomeOK
<1>8. QED BY <1>4, <1>5, <1>6, <1>7 DEF EnrollIInv, CallsOK, Alone

LEMMA StutterKeeps ==
  ASSUME EnrollmentAssumption, EnrollIInv, UNCHANGED enrollVars
  PROVE  EnrollIInv'
<1>1. Kinds /\ \A d \in resume : rec[d].state # "none" BY Others DEF EnrollIInv, CallsOK, RecordOK
<1>2. /\ rec' = rec /\ worker' = worker
      /\ UNCHANGED <<accounts, begun, exchanged, fenced, resume, authorized, past>>
  BY DEF enrollVars
<1>3. QED BY <1>1, <1>2, SameRecords, Others, AsideKeeps

LEMMA WorkKeeps ==
  ASSUME EnrollmentAssumption, EnrollIInv, NEW w \in Workers, Work(w) PROVE EnrollIInv'
BY BeginRevokedKeeps, BeginDeviceKeeps, BegunKeeps, DriveKeeps, PollKeeps, RecheckKeeps,
   ExchangeGrantKeeps, FinishKeeps DEF Work

LEMMA EnrollKeeps ==
  ASSUME EnrollmentAssumption, EnrollIInv, [EnrollNext]_enrollVars
  PROVE  EnrollIInv'
<1>1. ASSUME NEW e \in Enrollments,
             \/ Resolve(e) \/ Status(e) \/ ClockPasses(e) \/ AuthorityChanges(e)
             \/ \E again \in BOOLEAN : Cancel(e, again)
             \/ \E w \in Workers : Start(w, e) \/ Resume(w, e)
             \/ AddAccount(AliasOf[e])
      PROVE  EnrollIInv'
  BY <1>1, ResolveKeeps, StatusKeeps, HostKeeps, CancelKeeps, StartKeeps, ResumeKeeps,
     AddAccountKeeps
<1>2. QED BY <1>1, WorkKeeps, RestartKeeps, StutterKeeps DEF EnrollNext

LEMMA EnrollIsSafe == ASSUME EnrollIInv PROVE EnrollmentSafety
<1>1. Kinds /\ CallsOK /\ OutcomeOK BY DEF EnrollIInv, CallsOK
<1>2. EffectsOnce /\ FencedNeverStarts
  <2>1. EffectsOnce BY <1>1 DEF CallsOK, RecordOK, EffectsOnce
  <2>2. ASSUME NEW e \in fenced PROVE begun[e] = 0 /\ exchanged[e] = 0
    BY <1>1, Others DEF CallsOK, RecordOK
  <2>3. QED BY <2>1, <2>2 DEF FencedNeverStarts
<1>3. CodeStillUsable
  <2>1. ASSUME NEW e \in Enrollments, ShowsCode(e)
        PROVE  exchanged[e] = 0 /\ e \notin past
    <3>1. Expire(e).state \in Active BY <2>1 DEF ShowsCode, Active
    <3>2. e \notin past /\ Expire(e) = rec[e] BY <1>1, <3>1, Expiring
    <3>3. RecordOK(e) BY <1>1 DEF CallsOK
    <3>4. QED BY <2>1, <3>2, <3>3 DEF ShowsCode, RecordOK
  <2>2. QED BY <2>1 DEF CodeStillUsable
<1>4. QED BY <1>1, <1>2, <1>3 DEF EnrollmentSafety, Kinds, OutcomeOK

\* The record moves within a step, so that one that is closed stays closed.
LEMMA EnrollStaysClosed ==
  ASSUME EnrollmentAssumption, EnrollIInv, [EnrollNext]_enrollVars
  PROVE  ClosedIsFinal
<1>0. Kinds BY DEF EnrollIInv, CallsOK
<1>1. SUFFICES ASSUME NEW d \in Enrollments, rec[d].state \in {"cancelled", "succeeded"}
               PROVE  rec'[d].state = rec[d].state
  BY DEF ClosedIsFinal
<1>2. Expire(d) = rec[d] /\ rec[d] \in Records /\ rec \in [Enrollments -> Records]
  BY <1>0, <1>1, KindsAre DEF Expire
<1>3. ASSUME NEW w \in Workers, NEW e \in Enrollments, Start(w, e)
      PROVE  rec'[d].state = rec[d].state
  BY <1>1, <1>2, <1>3 DEF Start
<1>4. ASSUME NEW e \in Enrollments, Resolve(e) \/ Status(e)
      PROVE  rec'[d].state = rec[d].state
  BY <1>1, <1>2, <1>4 DEF Resolve, Status
<1>5. ASSUME NEW e \in Enrollments, NEW again \in BOOLEAN, Cancel(e, again)
      PROVE  rec'[d].state = rec[d].state
  BY <1>1, <1>2, <1>5 DEF Cancel, Records
<1>6. ASSUME NEW w \in Workers, Work(w) PROVE rec'[d].state = rec[d].state
  <2>1. CASE BeginRevoked(w)
    <3>1. worker[w].e \in Enrollments /\ rec[worker[w].e].state # "succeeded"
      BY <2>1, AtWork DEF BeginRevoked, At, JobOK, Starters
    <3>2. QED BY <1>1, <1>2, <2>1, <3>1 DEF BeginRevoked, Records
  <2>2. CASE Begun(w) BY <1>1, <1>2, <2>2 DEF Begun, Records
  <2>3. CASE Drive(w)
    <3>1. worker[w].e \in Enrollments BY <2>3, AtWork DEF Drive, At
    <3>2. QED BY <1>1, <1>2, <2>3, <3>1 DEF Drive, Records
  <2>4. CASE Recheck(w) BY <1>1, <1>2, <2>4 DEF Recheck, Records
  <2>5. CASE Finish(w) BY <1>1, <1>2, <2>5 DEF Finish, Records
  <2>6. CASE BeginDevice(w) \/ Poll(w) \/ ExchangeGrant(w)
    BY <2>6 DEF BeginDevice, Poll, ExchangeGrant
  <2>7. QED BY <1>6, <2>1, <2>2, <2>3, <2>4, <2>5, <2>6 DEF Work
<1>7. ASSUME Restart PROVE rec'[d].state = rec[d].state BY <1>2, <1>7 DEF Restart
<1>8. ASSUME NEW e \in Enrollments,
             \/ ClockPasses(e) \/ AuthorityChanges(e) \/ AddAccount(AliasOf[e])
             \/ \E w \in Workers : Resume(w, e)
      PROVE  rec'[d].state = rec[d].state
  BY <1>8 DEF ClockPasses, AuthorityChanges, AddAccount, Resume
<1>9. CASE UNCHANGED enrollVars BY <1>9 DEF enrollVars
<1>10. QED BY <1>3, <1>4, <1>5, <1>6, <1>7, <1>8, <1>9 DEF EnrollNext

(* What the provider is asked and what an enrollment comes to are bound to   *)
(* its record in every reachable state (accounts/device.rs).                 *)
THEOREM EnrollmentInvariant == EnrollmentAssumption => (EnrollSpec => []EnrollIInv)
<1> SUFFICES ASSUME EnrollmentAssumption PROVE EnrollSpec => []EnrollIInv OBVIOUS
<1>1. EnrollInit => EnrollIInv BY EnrollBegins
<1>2. EnrollIInv /\ [EnrollNext]_enrollVars => EnrollIInv' BY EnrollKeeps
<1>3. QED BY <1>1, <1>2, PTL DEF EnrollSpec

(* The code is requested once and the grant exchanged once per enrollment, a *)
(* start that was fenced off never happens, cancellation and publication     *)
(* exclude each other and an alias has one owner, with any number of workers *)
(* on one enrollment and a restart at any point (accounts/device.rs).        *)
THEOREM EnrollmentsActOnce == EnrollmentAssumption => (EnrollSpec => []EnrollmentSafety)
<1> SUFFICES ASSUME EnrollmentAssumption PROVE EnrollSpec => []EnrollmentSafety OBVIOUS
<1>1. EnrollIInv => EnrollmentSafety BY EnrollIsSafe
<1>2. EnrollSpec => []EnrollIInv BY EnrollmentInvariant
<1>3. QED BY <1>1, <1>2, PTL

(* No late answer of the provider reopens an enrollment that was cancelled   *)
(* or succeeded (accounts/device.rs, drive).                                 *)
THEOREM ClosedStaysClosed == EnrollmentAssumption => (EnrollSpec => [][ClosedIsFinal]_enrollVars)
<1> SUFFICES ASSUME EnrollmentAssumption PROVE EnrollSpec => [][ClosedIsFinal]_enrollVars OBVIOUS
<1>1. EnrollIInv /\ [EnrollNext]_enrollVars => ClosedIsFinal BY EnrollStaysClosed
<1>2. EnrollSpec => []EnrollIInv BY EnrollmentInvariant
<1>3. QED BY <1>1, <1>2, PTL DEF EnrollSpec
=============================================================================
