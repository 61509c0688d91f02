-------------------------- MODULE AuthorityProofs ---------------------------
(***************************************************************************)
(* Theorems about MCAuthority: what is proved of a component for every     *)
(* value of its constants holds of each of its instances beside the        *)
(* others, whose steps leave it alone.                                     *)
(***************************************************************************)
EXTENDS MCAuthority, TLAPS

-----------------------------------------------------------------------------
(* The owner of a session.                                                 *)

OwnershipInv == component = "ownership" => Ownership!IInv

LEMMA OwnershipBegins == ASSUME Init PROVE OwnershipInv
<1> SUFFICES ASSUME component = "ownership" PROVE Ownership!IInv BY DEF OwnershipInv
<1>1. Ownership!Init BY DEF Init
<1>2. QED BY <1>1, ComponentBounds, Ownership!OwnershipBegins

LEMMA OwnershipKeeps == ASSUME OwnershipInv, [Next]_vars PROVE OwnershipInv'
<1> SUFFICES ASSUME component' = "ownership" PROVE Ownership!IInv' BY DEF OwnershipInv
<1>1. component = "ownership" BY DEF Next, vars
<1>2. [Ownership!Next]_(Ownership!vars)
  BY <1>1 DEF Next, vars, vesselVars, Ownership!vars, Ownership!disk, Ownership!locks,
              Ownership!proc, Ownership!rw, Ownership!wire, Ownership!vessel,
              Ownership!ghost
<1>3. QED BY <1>1, <1>2, ComponentBounds, Ownership!OwnershipKeeps DEF OwnershipInv

(* One owner, one execution of a command and honest refusals, while the      *)
(* runtime suspends, is restarted and crashes and the supervisor retries     *)
(* (routing.rs, recovery.rs, suspension.rs).                                 *)
THEOREM OwnersRunCommandsOnce == Spec => []OwnershipSafety
<1>1. Init => OwnershipInv BY OwnershipBegins
<1>2. OwnershipInv /\ [Next]_vars => OwnershipInv' BY OwnershipKeeps
<1>3. OwnershipInv => OwnershipSafety
  BY ComponentBounds, Ownership!OwnershipIsSafe DEF OwnershipInv, OwnershipSafety
<1>4. QED BY <1>1, <1>2, <1>3, PTL DEF Spec

-----------------------------------------------------------------------------
(* The move of a session.                                                  *)

MoveInv ==
  /\ component = "move" => Ownership!MoveIInv
  /\ component = "crashes" => Crashes!MoveIInv
  /\ component = "race" => Race!MoveIInv

LEMMA MoveBegins == ASSUME Init PROVE MoveInv
<1>1. CASE component = "move"
  <2>1. Ownership!MoveInit BY <1>1 DEF Init
  <2>2. QED BY <1>1, <2>1, ComponentBounds, Ownership!MoveBegins DEF MoveInv
<1>2. CASE component = "crashes"
  <2>1. Crashes!MoveInit BY <1>2 DEF Init
  <2>2. QED BY <1>2, <2>1, ComponentBounds, Crashes!MoveBegins DEF MoveInv
<1>3. CASE component = "race"
  <2>1. Race!MoveInit BY <1>3 DEF Init
  <2>2. QED BY <1>3, <2>1, ComponentBounds, Race!MoveBegins DEF MoveInv
<1>4. QED BY <1>1, <1>2, <1>3 DEF MoveInv

LEMMA MoveKeeps == ASSUME MoveInv, [Next]_vars PROVE MoveInv'
<1>1. component' = component BY DEF Next, vars
<1>2. CASE component = "move"
  <2>1. [Ownership!MoveNext]_(Ownership!moveVars) BY <1>2 DEF Next, vars, moveVars, Ownership!moveVars
  <2>2. QED BY <1>1, <1>2, <2>1, ComponentBounds, Ownership!MoveKeeps DEF MoveInv
<1>3. CASE component = "crashes"
  <2>1. [Crashes!MoveNext]_(Crashes!moveVars) BY <1>3 DEF Next, vars, moveVars, Crashes!moveVars
  <2>2. QED BY <1>1, <1>3, <2>1, ComponentBounds, Crashes!MoveKeeps DEF MoveInv
<1>4. CASE component = "race"
  <2>1. [Race!MoveNext]_(Race!moveVars) BY <1>4 DEF Next, vars, moveVars, Race!moveVars
  <2>2. QED BY <1>1, <1>4, <2>1, ComponentBounds, Race!MoveKeeps DEF MoveInv
<1>5. QED BY <1>1, <1>2, <1>3, <1>4 DEF MoveInv

(* One owner, one history and one execution in each of the three moves, in   *)
(* which a reply is lost, the processes crash and a second move competes     *)
(* (transfer/source.rs, transfer/destination.rs).                            *)
THEOREM MovesAreSafe == Spec => []OwnerMoveSafety
<1>1. Init => MoveInv BY MoveBegins
<1>2. MoveInv /\ [Next]_vars => MoveInv' BY MoveKeeps
<1>3. MoveInv => OwnerMoveSafety
  BY ComponentBounds, Ownership!MoveIsSafe, Crashes!MoveIsSafe, Race!MoveIsSafe
     DEF MoveInv, OwnerMoveSafety
<1>4. QED BY <1>1, <1>2, <1>3, PTL DEF Spec

-----------------------------------------------------------------------------
(* Pairing and revocation.                                                 *)

PairingInv ==
  /\ component = "pairing" => Access!PairIInv
  /\ component = "audit" => Audit!PairIInv

LEMMA PairingBegins == ASSUME Init PROVE PairingInv
<1>1. ASSUME component = "pairing" PROVE Access!PairIInv
  <2>1. Access!PairInit BY <1>1 DEF Init
  <2>2. QED BY <2>1, ComponentBounds, Access!PairBegins
<1>2. ASSUME component = "audit" PROVE Audit!PairIInv
  <2>1. Audit!PairInit BY <1>2 DEF Init
  <2>2. QED BY <2>1, ComponentBounds, Audit!PairBegins
<1>3. QED BY <1>1, <1>2 DEF PairingInv

LEMMA PairingSteps ==
  ASSUME [Next]_vars
  PROVE  /\ component' = component
         /\ component = "pairing" => [Access!PairNext]_(Access!pairVars)
         /\ component = "audit" => [Audit!PairNext]_(Audit!pairVars)
<1>1. component' = component BY DEF Next, vars
<1>2. ASSUME component = "pairing" PROVE [Access!PairNext]_(Access!pairVars)
  BY <1>2 DEF Next, vars, pairVars, Access!pairVars
<1>3. ASSUME component = "audit" PROVE [Audit!PairNext]_(Audit!pairVars)
  BY <1>3 DEF Next, vars, pairVars, Audit!pairVars
<1>4. QED BY <1>1, <1>2, <1>3

LEMMA PairingKeeps == ASSUME PairingInv, [Next]_vars PROVE PairingInv'
<1>1. ASSUME component' = "pairing" PROVE Access!PairIInv'
  <2>1. component = "pairing" BY <1>1, PairingSteps
  <2>2. [Access!PairNext]_(Access!pairVars) BY <2>1, PairingSteps
  <2>3. QED BY <2>1, <2>2, ComponentBounds, Access!PairKeeps DEF PairingInv
<1>2. ASSUME component' = "audit" PROVE Audit!PairIInv'
  <2>1. component = "audit" BY <1>2, PairingSteps
  <2>2. [Audit!PairNext]_(Audit!pairVars) BY <2>1, PairingSteps
  <2>3. QED BY <2>1, <2>2, ComponentBounds, Audit!PairKeeps DEF PairingInv
<1>3. QED BY <1>1, <1>2 DEF PairingInv

(* An invitation yields one grant and a revoked device stays revoked, beside *)
(* everything else that decides who may act (pairing.rs, pairing/audit.rs).  *)
THEOREM InvitationsYieldOneGrant == Spec => []PairingSafety
<1>1. Init => PairingInv BY PairingBegins
<1>2. PairingInv /\ [Next]_vars => PairingInv' BY PairingKeeps
<1>3. PairingInv => PairingSafety
  BY ComponentBounds, Access!PairIsSafe, Audit!PairIsSafe DEF PairingInv, PairingSafety
<1>4. QED BY <1>1, <1>2, <1>3, PTL DEF Spec

-----------------------------------------------------------------------------
(* The authority of a connected client.                                    *)

ConnectedInv == component = "connected" => Access!IInv

LEMMA ConnectedBegins == ASSUME Init PROVE ConnectedInv
<1> SUFFICES ASSUME component = "connected" PROVE Access!IInv BY DEF ConnectedInv
<1>1. Access!Init BY DEF Init
<1>2. QED BY <1>1, ComponentBounds, Access!InitIInv

LEMMA ConnectedKeeps == ASSUME ConnectedInv, [Next]_vars PROVE ConnectedInv'
<1> SUFFICES ASSUME component' = "connected" PROVE Access!IInv' BY DEF ConnectedInv
<1>1. component = "connected" BY DEF Next, vars
<1>2. [Access!Next]_(Access!vars)
  BY <1>1 DEF Next, vars, connectedVars, Access!vars
<1>3. QED BY <1>1, <1>2, ComponentBounds, Access!AuthorityKeeps DEF ConnectedInv

(* What ran under a command id was bound to the one authority it is retained *)
(* for, beside everything else that decides who may act                      *)
(* (access/connection.rs).                                                   *)
THEOREM CallersKeepTheirAuthority == Spec => []ConnectedSafety
<1>1. Init => ConnectedInv BY ConnectedBegins
<1>2. ConnectedInv /\ [Next]_vars => ConnectedInv' BY ConnectedKeeps
<1>3. ConnectedInv => ConnectedSafety
  BY Access!IInvIsSafe DEF ConnectedInv, ConnectedSafety
<1>4. QED BY <1>1, <1>2, <1>3, PTL DEF Spec

-----------------------------------------------------------------------------
(* The rotation of a shared login.                                         *)

RefreshInv == component = "refresh" => Access!RefreshIInv

LEMMA RefreshBegins == ASSUME Init PROVE RefreshInv
<1> SUFFICES ASSUME component = "refresh" PROVE Access!RefreshIInv BY DEF RefreshInv
<1>1. Access!RefreshInit BY DEF Init
<1>2. QED BY <1>1, ComponentBounds, Access!RefreshBegins

LEMMA RefreshKeeps == ASSUME RefreshInv, [Next]_vars PROVE RefreshInv'
<1> SUFFICES ASSUME component' = "refresh" PROVE Access!RefreshIInv' BY DEF RefreshInv
<1>1. component = "refresh" BY DEF Next, vars
<1>2. [Access!RefreshNext]_(Access!refreshVars)
  BY <1>1 DEF Next, vars, tokenVars, Access!refreshVars
<1>3. QED BY <1>1, <1>2, ComponentBounds, Access!RefreshKeeps DEF RefreshInv

(* No refresh token is sent twice and no process gets the token of another   *)
(* login, beside everything else that decides who may act                    *)
(* (chatgpt_oauth.rs, accounts.rs).                                          *)
THEOREM LoginsAreKeptApart == Spec => []TokenRefreshSafety
<1>1. Init => RefreshInv BY RefreshBegins
<1>2. RefreshInv /\ [Next]_vars => RefreshInv' BY RefreshKeeps
<1>3. RefreshInv => TokenRefreshSafety
  BY ComponentBounds, Access!RefreshIsSafe DEF RefreshInv, TokenRefreshSafety
<1>4. QED BY <1>1, <1>2, <1>3, PTL DEF Spec

-----------------------------------------------------------------------------
(* Device sign-in.                                                         *)

EnrollmentInv ==
  /\ component = "enrollment" => Access!EnrollIInv
  /\ component = "restart" => Audit!EnrollIInv
  /\ component = "capacity" => Capacity!EnrollIInv

LEMMA EnrollmentBegins == ASSUME Init PROVE EnrollmentInv
<1>1. ASSUME component = "enrollment" PROVE Access!EnrollIInv
  <2>1. Access!EnrollInit BY <1>1 DEF Init
  <2>2. QED BY <2>1, ComponentBounds, Access!EnrollBegins
<1>2. ASSUME component = "restart" PROVE Audit!EnrollIInv
  <2>1. Audit!EnrollInit BY <1>2 DEF Init
  <2>2. QED BY <2>1, ComponentBounds, Audit!EnrollBegins
<1>3. ASSUME component = "capacity" PROVE Capacity!EnrollIInv
  <2>1. Capacity!EnrollInit BY <1>3 DEF Init
  <2>2. QED BY <2>1, ComponentBounds, Capacity!EnrollBegins
<1>4. QED BY <1>1, <1>2, <1>3 DEF EnrollmentInv

LEMMA EnrollmentKeeps == ASSUME EnrollmentInv, [Next]_vars PROVE EnrollmentInv'
<1>1. ASSUME component' = "enrollment" PROVE Access!EnrollIInv'
  <2>1. component = "enrollment" BY <1>1 DEF Next, vars
  <2>2. [Access!EnrollNext]_(Access!enrollVars)
    BY <2>1 DEF Next, vars, enrollVars, Access!enrollVars
  <2>3. QED BY <2>1, <2>2, ComponentBounds, Access!EnrollKeeps DEF EnrollmentInv
<1>2. ASSUME component' = "restart" PROVE Audit!EnrollIInv'
  <2>1. component = "restart" BY <1>2 DEF Next, vars
  <2>2. [Audit!EnrollNext]_(Audit!enrollVars)
    BY <2>1 DEF Next, vars, enrollVars, Audit!enrollVars
  <2>3. QED BY <2>1, <2>2, ComponentBounds, Audit!EnrollKeeps DEF EnrollmentInv
<1>3. ASSUME component' = "capacity" PROVE Capacity!EnrollIInv'
  <2>1. component = "capacity" BY <1>3 DEF Next, vars
  <2>2. [Capacity!EnrollNext]_(Capacity!enrollVars)
    BY <2>1 DEF Next, vars, enrollVars, Capacity!enrollVars
  <2>3. QED BY <2>1, <2>2, ComponentBounds, Capacity!EnrollKeeps DEF EnrollmentInv
<1>4. QED BY <1>1, <1>2, <1>3 DEF EnrollmentInv

(* A sign-in asks its provider once, ends in one way and reserves its alias  *)
(* until then, beside everything else that decides who may act               *)
(* (accounts/device.rs).                                                     *)
THEOREM SignInsHappenOnce == Spec => []EnrollmentSafety
<1>1. Init => EnrollmentInv BY EnrollmentBegins
<1>2. EnrollmentInv /\ [Next]_vars => EnrollmentInv' BY EnrollmentKeeps
<1>3. EnrollmentInv => EnrollmentSafety
  BY Access!EnrollIsSafe, Audit!EnrollIsSafe, Capacity!EnrollIsSafe
     DEF EnrollmentInv, EnrollmentSafety
<1>4. QED BY <1>1, <1>2, <1>3, PTL DEF Spec

-----------------------------------------------------------------------------
(* The steps.                                                              *)

AuthorityInv ==
  /\ PairingInv
  /\ ConnectedInv
  /\ RefreshInv
  /\ EnrollmentInv

LawfulStep ==
  /\ component = "pairing" => Access!PairSteps
  /\ component = "audit" => Audit!PairSteps
  /\ component = "connected" => Access!Steps
  /\ component = "refresh" => Access!RefreshSteps
  /\ component = "enrollment" => Access!ClosedIsFinal
  /\ component = "restart" => Audit!ClosedIsFinal
  /\ component = "capacity" => Capacity!ClosedIsFinal

LEMMA StepIsLawful == ASSUME AuthorityInv, [Next]_vars PROVE LawfulStep
<1>1. ASSUME component = "pairing" PROVE Access!PairSteps
  <2>1. Access!PairIInv BY <1>1 DEF AuthorityInv, PairingInv
  <2>2. [Access!PairNext]_(Access!pairVars) BY <1>1, PairingSteps
  <2>3. QED BY <2>1, <2>2, ComponentBounds, Access!PairIsCareful
<1>2. ASSUME component = "audit" PROVE Audit!PairSteps
  <2>1. Audit!PairIInv BY <1>2 DEF AuthorityInv, PairingInv
  <2>2. [Audit!PairNext]_(Audit!pairVars) BY <1>2, PairingSteps
  <2>3. QED BY <2>1, <2>2, ComponentBounds, Audit!PairIsCareful
<1>3. ASSUME component = "connected" PROVE Access!Steps
  <2>1. Access!IInv BY <1>3 DEF AuthorityInv, ConnectedInv
  <2>2. [Access!Next]_(Access!vars)
    BY <1>3 DEF Next, vars, connectedVars, Access!vars
  <2>3. Access!Typed BY <2>1 DEF Access!IInv
  <2>4. Access!PinIsForever BY <2>2, <2>3, Access!StepKeepsPins
  <2>5. Access!EpochHonoured BY <2>1, <2>2, Access!StepHonoursEpoch
  <2>6. QED BY <2>4, <2>5 DEF Access!Steps
<1>4. ASSUME component = "refresh" PROVE Access!RefreshSteps
  <2>1. Access!RefreshIInv BY <1>4 DEF AuthorityInv, RefreshInv
  <2>2. [Access!RefreshNext]_(Access!refreshVars)
    BY <1>4 DEF Next, vars, tokenVars, Access!refreshVars
  <2>3. QED BY <2>1, <2>2, ComponentBounds, Access!CommitsAreTimely DEF Access!RefreshSteps
<1>5. ASSUME component = "enrollment" PROVE Access!ClosedIsFinal
  <2>1. Access!EnrollIInv BY <1>5 DEF AuthorityInv, EnrollmentInv
  <2>2. [Access!EnrollNext]_(Access!enrollVars)
    BY <1>5 DEF Next, vars, enrollVars, Access!enrollVars
  <2>3. QED BY <2>1, <2>2, ComponentBounds, Access!EnrollStaysClosed
<1>6. ASSUME component = "restart" PROVE Audit!ClosedIsFinal
  <2>1. Audit!EnrollIInv BY <1>6 DEF AuthorityInv, EnrollmentInv
  <2>2. [Audit!EnrollNext]_(Audit!enrollVars)
    BY <1>6 DEF Next, vars, enrollVars, Audit!enrollVars
  <2>3. QED BY <2>1, <2>2, ComponentBounds, Audit!EnrollStaysClosed
<1>7. ASSUME component = "capacity" PROVE Capacity!ClosedIsFinal
  <2>1. Capacity!EnrollIInv BY <1>7 DEF AuthorityInv, EnrollmentInv
  <2>2. [Capacity!EnrollNext]_(Capacity!enrollVars)
    BY <1>7 DEF Next, vars, enrollVars, Capacity!enrollVars
  <2>3. QED BY <2>1, <2>2, ComponentBounds, Capacity!EnrollStaysClosed
<1>8. QED BY <1>1, <1>2, <1>3, <1>4, <1>5, <1>6, <1>7 DEF LawfulStep

(* No step hands out a dead credential or recreates one, moves a pin or      *)
(* carries a command past it, commits a late token or brings back a removed  *)
(* account, or reopens a closed enrollment (pairing.rs, execution_epoch.rs,  *)
(* chatgpt_oauth.rs, accounts/device.rs).                                    *)
THEOREM StepsAreLawful == Spec => AuthoritySteps
<1>1. Init => AuthorityInv
  BY PairingBegins, ConnectedBegins, RefreshBegins, EnrollmentBegins DEF AuthorityInv
<1>2. AuthorityInv /\ [Next]_vars => AuthorityInv'
  BY PairingKeeps, ConnectedKeeps, RefreshKeeps, EnrollmentKeeps DEF AuthorityInv
<1>3. AuthorityInv /\ [Next]_vars => [LawfulStep]_vars BY StepIsLawful
<1>4. [LawfulStep]_vars
      <=> [/\ component = "pairing" => Access!PairSteps
           /\ component = "audit" => Audit!PairSteps
           /\ component = "connected" => Access!Steps
           /\ component = "refresh" => Access!RefreshSteps
           /\ component = "enrollment" => Access!ClosedIsFinal
           /\ component = "restart" => Audit!ClosedIsFinal
           /\ component = "capacity" => Capacity!ClosedIsFinal]_vars
  BY DEF LawfulStep
<1>5. QED BY <1>1, <1>2, <1>3, <1>4, PTL DEF Spec, AuthoritySteps
=============================================================================
