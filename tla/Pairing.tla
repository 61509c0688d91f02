------------------------------ MODULE Pairing ------------------------------
(***************************************************************************)
(* Workspace pairing (src/vessel/src/process/pairing.rs).  The account      *)
(* owner records an invitation; a Helm that holds its code redeems it for a *)
(* connection grant; the owner may revoke the grant.  Every writer, local   *)
(* CLI included, holds one OS file lock, but a redemption or a revocation   *)
(* is several durable replacements of two files (the pairing state, with    *)
(* its audit journal, and the grant record), and the writer may die between *)
(* any two of them.  The same request is then sent again.                   *)
(*                                                                         *)
(* A grant is a number, minted at redemption (Uuid::new_v4); a code is      *)
(* right or wrong, principal and endpoint included.  `now' is read once per *)
(* command.  Everything that is not history is on disk, except `op'.        *)
(***************************************************************************)
EXTENDS Naturals, FiniteSets, Sequences, FiniteSetsExt

CONSTANTS Invites,        \* invitation ids
          PairCmds,       \* command ids of redemptions
          RevokeCmds,     \* command ids of revocations
          MaxGrants,      \* bound on minted grants
          Limit,          \* LIMIT: invitations, revocations, grant files
          Lockout,        \* wrong codes an unredeemed invitation survives (8)
          Budget,         \* wrong codes per window over all callers (120)
          Window, InviteTtl, GrantTtl,
          MaxClock, MaxExpected, MaxFaults

None == [absent |-> TRUE]

PairingAssumption ==
    /\ IsFiniteSet(Invites) /\ IsFiniteSet(PairCmds) /\ IsFiniteSet(RevokeCmds)
    /\ None \notin Invites
    /\ {MaxGrants, Limit, Lockout, Budget, Window, InviteTtl, MaxExpected,
        MaxFaults} \subseteq Nat
    /\ {GrantTtl, MaxClock} \subseteq Nat \ {0}

GrantNumbers == 1..MaxGrants

VARIABLES
    now,       \* the wall clock
    inv,       \* State.invitations: Pending, by id
    revs,      \* State.revocations: Revocation, by command id
    window,    \* State.window_ms and State.attempts
    audit,     \* State.audit: the events, oldest first
    file,      \* access/connections/<grant>.json
    op,        \* the writer that holds the lock: the command and its next save
    reply,     \* the answer of the last command (history)
    mintedFor, \* grant -> the invitation it was minted for (history)
    died,      \* grants that were once recorded as revoked (history)
    faults     \* writers that died while holding the lock

pairVars == <<now, inv, revs, window, audit, file, op, reply, mintedFor, died, faults>>
disk == <<inv, revs, window, audit, file>>

Absent == [revision |-> 0, revoked |-> FALSE, expires |-> 0]
Idle == [kind |-> "none"]
NoReply == [kind |-> "none"]
NoInvite == [phase |-> "new", attempts |-> 0, expires |-> 0, red |-> None]

Minted == {g \in GrantNumbers : mintedFor[g] # None}
Recorded == {i \in Invites : inv[i].phase = "open"}
Redeemed == {i \in Recorded : inv[i].red # None}
Revocations == {c \in RevokeCmds : revs[c] # None}

\* The grant as redemption wrote it: same_grant compares a record with it.
Original(r) == [revision |-> 1, revoked |-> FALSE, expires |-> r.expires]

Event(k, c, g, n) == [kind |-> k, cmd |-> c, grant |-> g, revision |-> n]

PairInit ==
    /\ now = 1
    /\ inv = [i \in Invites |-> NoInvite]
    /\ revs = [c \in RevokeCmds |-> None]
    /\ window = [start |-> 0, attempts |-> 0]
    /\ audit = <<>>
    /\ file = [g \in GrantNumbers |-> Absent]
    /\ op = Idle
    /\ reply = NoReply
    /\ mintedFor = [g \in GrantNumbers |-> None]
    /\ died = {}
    /\ faults = 0

-----------------------------------------------------------------------------
(* invite_with_access: prune, check the capacity, record.  One save.        *)

\* Mutation: an invitation is dropped when it expires, redeemed or not.
KeptUntilInviteExpiry(p) == p.expires > now

\* Retained by invite: redemption material outlives the invitation, until the
\* grant it names has been observed and has expired.
Kept(p) == IF p.red = None THEN p.expires > now
           ELSE ~p.red.observed \/ p.red.expires > now

Invite(i) ==
    LET kept == {j \in Recorded : Kept(inv[j])} IN
    /\ op = Idle
    /\ inv[i] = NoInvite
    /\ Cardinality(kept) < Limit
    /\ inv' = [j \in Invites |->
                 IF j = i THEN [phase |-> "open", attempts |-> 0,
                                expires |-> now + InviteTtl, red |-> None]
                 ELSE IF j \in Recorded \ kept THEN [inv[j] EXCEPT !.phase = "gone"]
                 ELSE inv[j]]
    /\ audit' = Append(audit, Event("InvitationRecorded", i, 0, 0))
    /\ reply' = NoReply
    /\ UNCHANGED <<now, revs, window, file, op, mintedFor, died, faults>>

\* Mutation: the window admits one wrong code too many.
WrongCodeOver(i) ==
    LET fresh == IF now - window.start >= Window
                 THEN [start |-> now, attempts |-> 0] ELSE window IN
    /\ op = Idle
    /\ fresh.attempts <= Budget
    /\ window' = [fresh EXCEPT !.attempts = @ + 1]
    /\ inv' = IF inv[i].phase = "open" THEN [inv EXCEPT ![i].attempts = @ + 1] ELSE inv
    /\ reply' = NoReply
    /\ UNCHANGED <<now, revs, audit, file, op, mintedFor, died, faults>>

\* A request whose invitation, code, principal or endpoint does not match.
\* The shared window is durable; a rate-limited request is not counted at all.
WrongCode(i) ==
    LET fresh == IF now - window.start >= Window
                 THEN [start |-> now, attempts |-> 0] ELSE window IN
    /\ op = Idle
    /\ fresh.attempts < Budget
    /\ window' = [fresh EXCEPT !.attempts = @ + 1]
    /\ inv' = IF inv[i].phase = "open" THEN [inv EXCEPT ![i].attempts = @ + 1] ELSE inv
    /\ reply' = NoReply
    /\ UNCHANGED <<now, revs, audit, file, op, mintedFor, died, faults>>

-----------------------------------------------------------------------------
(* redeem                                                                   *)

\* Mutation: a redemption nobody observed is not taken for a redemption.
MayRedeemUnobserved(i, c) ==
    /\ inv[i].phase = "open"
    /\ inv[i].red # None => ~inv[i].red.observed
    /\ inv[i].attempts < Lockout
    /\ inv[i].expires > now
    /\ Cardinality({g \in GrantNumbers : file[g] # Absent}) < Limit

MayRedeem(i, c) ==
    /\ inv[i].phase = "open"
    /\ inv[i].red = None
    /\ inv[i].attempts < Lockout
    /\ inv[i].expires > now
    /\ \A j \in Redeemed : inv[j].red.cmd # c
    /\ Cardinality({g \in GrantNumbers : file[g] # Absent}) < Limit

\* The intent and its audit event are one replacement of the state file.
RedeemIntent(i, c) ==
    LET g == Cardinality(Minted) + 1 IN
    /\ op = Idle
    /\ MayRedeem(i, c)
    /\ g \in GrantNumbers
    /\ inv' = [inv EXCEPT ![i].red = [cmd |-> c, grant |-> g, observed |-> FALSE,
                                      expires |-> now + GrantTtl]]
    /\ mintedFor' = [mintedFor EXCEPT ![g] = i]
    /\ audit' = Append(audit, Event("PublicationIntended", c, g, 1))
    /\ op' = [kind |-> "redeem", invite |-> i, step |-> "publish"]
    /\ reply' = NoReply
    /\ UNCHANGED <<now, revs, window, file, died, faults>>

\* Mutation: an exact retry looks only at its own retained redemption.
RetryStepUnchecked(i, c) ==
    LET r == inv[i].red IN
    IF r.cmd # c \/ r.expires <= now THEN "denied"
    ELSE IF file[r.grant] = Original(r) THEN (IF r.observed THEN "return" ELSE "observe")
    ELSE "publish"

\* Mutation: an exact retry is answered although a revocation is recorded.
RetryStepRevoked(i, c) ==
    LET r == inv[i].red IN
    IF r.cmd # c \/ r.expires <= now THEN "denied"
    ELSE IF file[r.grant] = Absent THEN (IF r.observed THEN "denied" ELSE "publish")
    ELSE IF file[r.grant] # Original(r) THEN "denied"
    ELSE IF r.observed THEN "return" ELSE "observe"

\* Mutation: a grant record that disappeared is written again.
RetryStepRecreates(i, c) ==
    LET r == inv[i].red IN
    IF \/ r.cmd # c \/ r.expires <= now
       \/ \E d \in Revocations : revs[d].grant = r.grant
    THEN "denied"
    ELSE IF file[r.grant] = Absent THEN "publish"
    ELSE IF file[r.grant] # Original(r) THEN "denied"
    ELSE IF r.observed THEN "return" ELSE "observe"

\* Mutation: the invitation's own expiry also ends the retries.
RetryStepInviteExpiry(i, c) ==
    LET r == inv[i].red IN
    IF \/ r.cmd # c \/ inv[i].expires <= now
       \/ \E d \in Revocations : revs[d].grant = r.grant
    THEN "denied"
    ELSE IF file[r.grant] = Absent THEN (IF r.observed THEN "denied" ELSE "publish")
    ELSE IF file[r.grant] # Original(r) THEN "denied"
    ELSE IF r.observed THEN "return" ELSE "observe"

\* What a request with the right code does with a retained redemption.
RetryStep(i, c) ==
    LET r == inv[i].red IN
    IF \/ r.cmd # c \/ r.expires <= now
       \/ \E d \in Revocations : revs[d].grant = r.grant
    THEN "denied"
    ELSE IF file[r.grant] = Absent THEN (IF r.observed THEN "denied" ELSE "publish")
    ELSE IF file[r.grant] # Original(r) THEN "denied"
    ELSE IF r.observed THEN "return" ELSE "observe"

RedeemRetry(i, c) ==
    /\ op = Idle
    /\ i \in Redeemed
    /\ RetryStep(i, c) \in {"publish", "observe"}
    /\ op' = [kind |-> "redeem", invite |-> i, step |-> RetryStep(i, c)]
    /\ reply' = NoReply
    /\ UNCHANGED <<now, inv, revs, window, audit, file, mintedFor, died, faults>>

RedeemAgain(i, c) ==
    /\ op = Idle
    /\ i \in Redeemed
    /\ RetryStep(i, c) = "return"
    /\ reply' = [kind |-> "credential", grant |-> inv[i].red.grant]
    /\ UNCHANGED <<now, inv, revs, window, audit, file, op, mintedFor, died, faults>>

\* store::save of the grant record: from here on the credential authenticates.
RedeemPublish ==
    /\ op.kind = "redeem" /\ op.step = "publish"
    /\ LET r == inv[op.invite].red IN file' = [file EXCEPT ![r.grant] = Original(r)]
    /\ op' = [op EXCEPT !.step = "observe"]
    /\ UNCHANGED <<now, inv, revs, window, audit, reply, mintedFor, died, faults>>

\* observe_redemption: the record is read back, the event and the flag are one
\* save.
ObserveRedemption(i) ==
    LET r == inv[i].red IN
    /\ file[r.grant] = Original(r)
    /\ audit' = Append(audit, Event("PublicationObserved", r.cmd, r.grant, 1))
    /\ inv' = [inv EXCEPT ![i].red.observed = TRUE]

RedeemObserve ==
    /\ op.kind = "redeem" /\ op.step = "observe"
    /\ ObserveRedemption(op.invite)
    /\ op' = Idle
    /\ reply' = [kind |-> "credential", grant |-> inv[op.invite].red.grant]
    /\ UNCHANGED <<now, revs, window, file, mintedFor, died, faults>>

-----------------------------------------------------------------------------
(* revoke                                                                   *)

\* A command id retained for another grant or revision conflicts.
RevokeBegin(c, g, n) ==
    /\ op = Idle
    /\ revs[c] # None => revs[c].grant = g /\ revs[c].expected = n /\ ~revs[c].observed
    /\ op' = [kind |-> "revoke", cmd |-> c, grant |-> g, expected |-> n, step |-> "settle"]
    /\ reply' = NoReply
    /\ UNCHANGED <<now, inv, revs, window, audit, file, mintedFor, died, faults>>

\* Mutation: a retained intent is taken for a completed revocation.
RevokeAgainEarly(c) ==
    /\ op = Idle
    /\ c \in Revocations
    /\ reply' = [kind |-> "revoked", grant |-> revs[c].grant,
                 revision |-> revs[c].expected + 1]
    /\ UNCHANGED <<now, inv, revs, window, audit, file, op, mintedFor, died, faults>>

\* A completed revocation keeps its outcome for an exact retry.
RevokeAgain(c) ==
    /\ op = Idle
    /\ c \in Revocations /\ revs[c].observed
    /\ reply' = [kind |-> "revoked", grant |-> revs[c].grant,
                 revision |-> revs[c].expected + 1]
    /\ UNCHANGED <<now, inv, revs, window, audit, file, op, mintedFor, died, faults>>

PendingRedemption(g) == {i \in Redeemed : inv[i].red.grant = g /\ ~inv[i].red.observed}

\* Mutation: only the command's own revocation is settled before the next.
EarlierRevocationOwn(g) ==
    {c \in Revocations : /\ c = op.cmd /\ revs[c].grant = g /\ ~revs[c].observed
                         /\ file[g].revoked /\ file[g].revision = revs[c].expected + 1}

\* Mutation: observed revocations are observed again.
EarlierRevocationAgain(g) ==
    {c \in Revocations : /\ revs[c].grant = g
                         /\ file[g].revoked /\ file[g].revision = revs[c].expected + 1}

\* Revocations of g whose effect is in the record but not yet in the journal.
EarlierRevocation(g) ==
    {c \in Revocations : /\ revs[c].grant = g /\ ~revs[c].observed
                         /\ file[g].revoked /\ file[g].revision = revs[c].expected + 1}

Settling == op.kind = "revoke" /\ op.step = "settle"

\* Before the record changes, its publication enters the journal ...
SettleRedemption ==
    /\ Settling
    /\ \E i \in PendingRedemption(op.grant) : ObserveRedemption(i)
    /\ UNCHANGED <<now, revs, window, file, op, reply, mintedFor, died, faults>>

\* observe_revocation: event and flag in one save.
ObserveRevocation(c) ==
    /\ revs' = [revs EXCEPT ![c].observed = TRUE]
    /\ audit' = Append(audit, Event("RevocationObserved", c, revs[c].grant,
                                    file[revs[c].grant].revision))

\* ... and so does every earlier revocation that it still shows.
SettleRevocation ==
    /\ Settling
    /\ PendingRedemption(op.grant) = {}
    /\ file[op.grant] # Absent
    /\ \E c \in EarlierRevocation(op.grant) : ObserveRevocation(c)
    /\ UNCHANGED <<now, inv, window, file, op, reply, mintedFor, died, faults>>

\* The earlier attempt of this very command had reached the record.
RevokeSettled ==
    /\ Settling
    /\ op.cmd \in Revocations /\ revs[op.cmd].observed
    /\ PendingRedemption(op.grant) = {} /\ EarlierRevocation(op.grant) = {}
    /\ op' = Idle
    /\ reply' = [kind |-> "revoked", grant |-> op.grant, revision |-> op.expected + 1]
    /\ UNCHANGED <<now, inv, revs, window, audit, file, mintedFor, died, faults>>

Settled == /\ Settling
           /\ file[op.grant] # Absent
           /\ PendingRedemption(op.grant) = {} /\ EarlierRevocation(op.grant) = {}
           /\ file[op.grant].revision = op.expected

\* Mutation: the intent is kept in memory and saved with the observation.
RevokeIntentUnsaved ==
    /\ Settled
    /\ revs[op.cmd] = None
    /\ revs' = [revs EXCEPT ![op.cmd] = [grant |-> op.grant, expected |-> op.expected,
                                         observed |-> FALSE]]
    /\ op' = [op EXCEPT !.step = "write"]
    /\ UNCHANGED <<now, inv, window, audit, file, reply, mintedFor, died, faults>>

RevokeIntent ==
    /\ Settled
    /\ revs[op.cmd] = None
    /\ Cardinality(Revocations) < Limit
    /\ revs' = [revs EXCEPT ![op.cmd] = [grant |-> op.grant, expected |-> op.expected,
                                         observed |-> FALSE]]
    /\ audit' = Append(audit, Event("RevocationIntended", op.cmd, op.grant, op.expected))
    /\ op' = [op EXCEPT !.step = "write"]
    /\ UNCHANGED <<now, inv, window, file, reply, mintedFor, died, faults>>

\* A retained intent whose record is still at the expected revision resumes.
RevokeResume ==
    /\ Settled
    /\ op.cmd \in Revocations /\ ~revs[op.cmd].observed
    /\ op' = [op EXCEPT !.step = "write"]
    /\ UNCHANGED <<now, inv, revs, window, audit, file, reply, mintedFor, died, faults>>

RevokeWrite ==
    /\ op.kind = "revoke" /\ op.step = "write"
    /\ file' = [file EXCEPT ![op.grant].revoked = TRUE, ![op.grant].revision = @ + 1]
    /\ died' = died \cup {op.grant}
    /\ op' = [op EXCEPT !.step = "observe"]
    /\ UNCHANGED <<now, inv, revs, window, audit, reply, mintedFor, faults>>

RevokeObserve ==
    /\ op.kind = "revoke" /\ op.step = "observe"
    /\ file[op.grant].revision = op.expected + 1
    /\ ObserveRevocation(op.cmd)
    /\ op' = Idle
    /\ reply' = [kind |-> "revoked", grant |-> op.grant, revision |-> op.expected + 1]
    /\ UNCHANGED <<now, inv, window, file, mintedFor, died, faults>>

-----------------------------------------------------------------------------

\* migration_export and migration_import: the state moves to the system Vessel
\* under the same identities; an invitation nobody redeemed stops being one.
Migrate ==
    /\ op = Idle
    /\ inv' = [i \in Invites |-> IF i \in Recorded \ Redeemed
                                 THEN [inv[i] EXCEPT !.expires = 0] ELSE inv[i]]
    /\ inv' # inv
    /\ reply' = NoReply
    /\ UNCHANGED <<now, revs, window, audit, file, op, mintedFor, died, faults>>

\* A save fails, a check refuses, or the process dies; the lock is released.
Stop ==
    /\ op # Idle
    /\ faults < MaxFaults
    /\ faults' = faults + 1
    /\ op' = Idle
    /\ UNCHANGED <<now, disk, reply, mintedFor, died>>

\* A revocation that its checks end: no record to change, another revision than
\* the one expected, no room for one more receipt.
RefuseRevocation ==
    /\ Settling
    /\ \/ file[op.grant] = Absent
       \/ /\ PendingRedemption(op.grant) = {} /\ EarlierRevocation(op.grant) = {}
          /\ file[op.grant].revision # op.expected
          /\ ~(op.cmd \in Revocations /\ revs[op.cmd].observed)
       \/ Settled /\ revs[op.cmd] = None /\ Cardinality(Revocations) >= Limit
    /\ op' = Idle
    /\ UNCHANGED <<now, disk, reply, mintedFor, died, faults>>

\* The environment: between two commands a grant record is deleted by hand.
Lose(g) ==
    /\ op = Idle
    /\ file[g] # Absent
    /\ faults < MaxFaults
    /\ faults' = faults + 1
    /\ file' = [file EXCEPT ![g] = Absent]
    /\ reply' = NoReply
    /\ UNCHANGED <<now, inv, revs, window, audit, op, mintedFor, died>>

Tick ==
    /\ now < MaxClock
    /\ op = Idle
    /\ now' = now + 1
    /\ reply' = NoReply
    /\ UNCHANGED <<disk, op, mintedFor, died, faults>>

Redeem(i, c) == RedeemIntent(i, c) \/ RedeemRetry(i, c) \/ RedeemAgain(i, c)

Working ==
    \/ RedeemPublish \/ RedeemObserve
    \/ SettleRedemption \/ SettleRevocation \/ RevokeSettled
    \/ RevokeIntent \/ RevokeResume \/ RevokeWrite \/ RevokeObserve
    \/ RefuseRevocation

PairNext ==
    \/ \E i \in Invites : Invite(i) \/ WrongCode(i)
    \/ \E i \in Invites, c \in PairCmds : Redeem(i, c)
    \/ \E c \in RevokeCmds, g \in Minted, n \in 1..MaxExpected : RevokeBegin(c, g, n)
    \/ \E c \in RevokeCmds : RevokeAgain(c)
    \/ \E g \in GrantNumbers : Lose(g)
    \/ Working \/ Migrate \/ Stop \/ Tick

PairSpec == PairInit /\ [][PairNext]_pairVars

-----------------------------------------------------------------------------

OpType == [kind : {"redeem"}, invite : Invites, step : {"publish", "observe"}]
          \cup [kind : {"revoke"}, cmd : RevokeCmds, grant : GrantNumbers, expected : Nat,
                step : {"settle", "write", "observe"}]

PairTypeOK ==
    /\ now \in 1..MaxClock /\ faults \in 0..MaxFaults
    /\ \A i \in Invites :
         /\ inv[i].phase \in {"new", "open", "gone"}
         /\ {inv[i].attempts, inv[i].expires} \subseteq Nat
         /\ inv[i].red = None \/ inv[i].red \in
              [cmd : PairCmds, grant : GrantNumbers, observed : BOOLEAN, expires : Nat]
    /\ \A c \in RevokeCmds : revs[c] = None \/ revs[c] \in
              [grant : GrantNumbers, expected : Nat, observed : BOOLEAN]
    /\ window \in [start : Nat, attempts : 0..Budget]
    /\ file \in [GrantNumbers -> [revision : Nat, revoked : BOOLEAN, expires : Nat]]
    /\ op = Idle \/ op \in OpType
    /\ died \subseteq GrantNumbers

\* However often a redemption is interrupted and sent again, by however many
\* holders of the code, one invitation becomes at most one grant
\* (pairing.rs 659-724: the intent is durable before the record exists).
OneGrantPerInvitation ==
    \A g, h \in Minted : mintedFor[g] = mintedFor[h] => g = h

\* Authority never exists without its audit evidence: a grant record has a
\* durable "intended" event, and a record at a later revision has one for every
\* revocation step it went through (pairing.rs 708-724, 855-878).
AuditPrecedesAuthority ==
    \A g \in GrantNumbers : file[g] # Absent =>
        /\ \E j \in 1..Len(audit) : audit[j].kind = "PublicationIntended" /\ audit[j].grant = g
        /\ \A n \in 1..(file[g].revision - 1) :
             \E j \in 1..Len(audit) : /\ audit[j].kind = "RevocationIntended"
                                      /\ audit[j].grant = g /\ audit[j].revision = n

\* The journal has no hole: when a revocation is intended from some revision of
\* a grant, the journal already shows that revision as observed, the publication
\* for the first and the earlier revocation for a later one, whichever of the
\* commands were cut short before they could say so (pairing.rs 803-829,
\* "preserve any pending publication observation").
AuditTellsHistory ==
    \A k \in 1..Len(audit) : audit[k].kind = "RevocationIntended" =>
        \E j \in 1..(k - 1) :
            /\ audit[j].grant = audit[k].grant /\ audit[j].revision = audit[k].revision
            /\ audit[j].kind \in {"PublicationObserved", "RevocationObserved"}

\* An event is observed at most once for a command, and never without the
\* intent of the same command before it (pairing.rs 230-261, 951-979).
ObservedOnce ==
    \A k \in 1..Len(audit) :
        audit[k].kind \in {"PublicationObserved", "RevocationObserved"} =>
            /\ \A j \in 1..Len(audit) : audit[j].kind = audit[k].kind
                    /\ audit[j].cmd = audit[k].cmd /\ audit[j].grant = audit[k].grant => j = k
            /\ \E j \in 1..(k - 1) : /\ audit[j].cmd = audit[k].cmd
                                      /\ audit[j].grant = audit[k].grant
                                      /\ audit[j].kind = IF audit[k].kind = "PublicationObserved"
                                            THEN "PublicationIntended" ELSE "RevocationIntended"

\* The evidence an exact retry needs is never evicted while the credential
\* could still be returned, however old the invitation is (pairing.rs 545-550,
\* "never evict live retry evidence").
LiveEvidenceKept ==
    \A g \in Minted : (file[g] # Absent /\ ~file[g].revoked /\ file[g].expires > now) =>
        LET i == mintedFor[g] IN
        inv[i].phase = "open" /\ inv[i].red # None /\ inv[i].red.grant = g

\* A revoked grant is never live again: not by an exact retry of its
\* redemption, not after its record was lost, not by a second revocation.
RevokedForGood ==
    \A g \in died : file[g] = Absent \/ file[g].revoked

\* A revocation that is reported done did happen, at that revision or a later
\* one, even when this command's own write was lost and another one's stands.
RevocationIsTrue ==
    reply.kind = "revoked" =>
        /\ reply.grant \in died
        /\ file[reply.grant] = Absent \/ file[reply.grant].revision >= reply.revision

\* A credential is returned only while its record is live as first written and
\* no revocation of it is recorded: the durable intent to revoke already ends
\* the retries, although the record may not show it yet (pairing.rs 726-746).
CredentialIsLive ==
    (reply'.kind = "credential" /\ reply' # reply) =>
      LET g == reply'.grant IN
      /\ file'[g] # Absent /\ ~file'[g].revoked /\ file'[g].revision = 1
      /\ file'[g].expires > now
      /\ \A c \in RevokeCmds : revs[c] = None \/ revs[c].grant # g

\* An observed record that disappears is not recreated (pairing.rs 748-752).
NotRecreated ==
    \A i \in Invites : (i \in Redeemed /\ inv[i].red.observed) =>
      (file[inv[i].red.grant] = Absent => file'[inv[i].red.grant] = Absent)

\* A Helm that keeps sending its original request after a redemption was cut
\* short has it published and observed, unless the grant expires or is revoked:
\* wrong codes of strangers and other commands cannot keep it away
\* (pairing.rs 645-648).
PairFairness ==
    /\ WF_pairVars(Working)
    /\ \A i \in Invites, c \in PairCmds : SF_pairVars(RedeemRetry(i, c) \/ RedeemAgain(i, c))

PairFairSpec == PairSpec /\ PairFairness

Cut(i) == i \in Redeemed /\ ~inv[i].red.observed
Over(r) == r.expires <= now \/ \E c \in Revocations : revs[c].grant = r.grant

RetryIsAnswered ==
    \A i \in Invites :
        Cut(i) ~> (i \in Redeemed /\ (inv[i].red.observed \/ Over(inv[i].red)))

\* One invitation, one grant; revocation is for good; and the audit journal has
\* said so first, through any interruption (pairing.rs).
PairingSafety ==
  /\ PairTypeOK /\ OneGrantPerInvitation /\ LiveEvidenceKept /\ RevokedForGood
  /\ AuditPrecedesAuthority /\ AuditTellsHistory /\ ObservedOnce /\ RevocationIsTrue

\* No step hands out a credential that is not live, or brings back a record:
\* [][PairSteps]_pairVars.
PairSteps == CredentialIsLive /\ NotRecreated
=============================================================================
