---------------------------- MODULE SignInProofs ----------------------------
(***************************************************************************)
(* Proofs about SignIn.tla, for any intervals the service may advertise    *)
(* and any lifetime of a device code.                                      *)
(***************************************************************************)
EXTENDS SignIn, TLAPS

USE TimeAssumption

LEMMA InitEstablishes == Init => IInv
  <1> SUFFICES ASSUME Init PROVE IInv
    OBVIOUS
  <1> USE DEF Init, Orderly, Ended
  <1>1. TypeOK
    <2>1. wait \in 0..interval /\ age \in 0..(Lifetime + 1)
          /\ quiet \in 0..(Lifetime + 1)
      OBVIOUS
    <2> QED
      BY <2>1 DEF TypeOK, Phases, Asking
  <1>2. Pact /\ AnswersAreTrue
    BY DEF Pact, AnswersAreTrue, Hops
  <1>3. AccountIsApprovedOwner /\ ErrorsTellTheTruth
    BY DEF AccountIsApprovedOwner, ErrorsTellTheTruth
  <1> QED
    BY <1>1, <1>2, <1>3 DEF IInv

(* A failure keeps the invariant as long as its reason is true.            *)
LEMMA FailKeeps ==
  ASSUME IInv, NEW why \in Failures, Fail(why),
         why = "declined" => user = "declined",
         why = "expired" => age >= Lifetime,
         why = "noEntitlement" => user = "approved" /\ ~owner,
         why = "cancelled" => cancelled,
         why = "noClientID" => ~clientID
  PROVE  IInv'
  <1> USE DEF IInv, Fail, world, clock, Orderly, Ended
  <1>1. TypeOK'
    BY DEF TypeOK, Phases
  <1>2. Pact' /\ AnswersAreTrue'
    BY DEF Pact, AnswersAreTrue, Hops
  <1>3. AccountIsApprovedOwner' /\ ErrorsTellTheTruth'
    BY DEF AccountIsApprovedOwner, ErrorsTellTheTruth, Failures
  <1> QED
    BY <1>1, <1>2, <1>3

LEMMA ClientKeeps ==
  ASSUME IInv, Client
  PROVE  IInv'
  <1> USE DEF IInv, client, world, clock, Orderly, Ended
  <1>1. CASE NoClientID
    BY <1>1, FailKeeps DEF NoClientID, Failures
  <1>2. CASE Ask
    BY <1>2 DEF Ask, TypeOK, Pact, AnswersAreTrue, AccountIsApprovedOwner,
                ErrorsTellTheTruth, Asking, Hops
  <1>3. CASE TimerFires
    <2>1. TypeOK'
      BY <1>3 DEF TimerFires, TypeOK, Phases, Asking
    <2>2. Pact' /\ Orderly'
      BY <1>3 DEF TimerFires, TypeOK, Pact, Backoff
    <2>3. AnswersAreTrue' /\ AccountIsApprovedOwner' /\ ErrorsTellTheTruth'
      BY <1>3 DEF TimerFires, TypeOK, AnswersAreTrue, AccountIsApprovedOwner,
                  ErrorsTellTheTruth, Hops
    <2> QED
      BY <2>1, <2>2, <2>3
  <1>4. CASE Cancelled
    BY <1>4, FailKeeps DEF Cancelled, Failures
  <1>5. CASE Broken
    BY <1>5, FailKeeps DEF Broken, Failures
  <1>6. CASE CodeArrives
    BY <1>6 DEF CodeArrives, TypeOK, Pact, AnswersAreTrue, AccountIsApprovedOwner,
                ErrorsTellTheTruth, Phases, Asking, Hops, PollInterval, Expected,
                Default
  <1>7. CASE StillPending
    BY <1>7 DEF StillPending, TypeOK, Pact, AnswersAreTrue, AccountIsApprovedOwner,
                ErrorsTellTheTruth, Phases, Asking, Hops
  <1>8. CASE SlowDown
    BY <1>8 DEF SlowDown, TypeOK, Pact, AnswersAreTrue, AccountIsApprovedOwner,
                ErrorsTellTheTruth, Phases, Asking, Hops, Backoff
  <1>9. CASE Refused
    BY <1>9, FailKeeps DEF Refused, Failures, AnswersAreTrue
  <1>10. CASE TokenArrives
    BY <1>10 DEF TokenArrives, TypeOK, Pact, AnswersAreTrue,
                 AccountIsApprovedOwner, ErrorsTellTheTruth, Phases, Asking, Hops
  <1>11. CASE HopDone
    BY <1>11 DEF HopDone, TypeOK, Pact, AnswersAreTrue, AccountIsApprovedOwner,
                 ErrorsTellTheTruth, Phases, Asking, Hops, After
  <1>12. CASE HopRefused
    BY <1>12, FailKeeps DEF HopRefused, Failures
  <1>13. CASE ProfileArrives
    <2>1. CASE wire = "not_found" /\ Fail("noEntitlement")
      BY <1>13, <2>1, FailKeeps DEF ProfileArrives, Failures, AnswersAreTrue, Hops
    <2>2. CASE ~ (wire = "not_found" /\ Fail("noEntitlement"))
      BY <1>13, <2>2 DEF ProfileArrives, TypeOK, Pact, AnswersAreTrue,
                         AccountIsApprovedOwner, ErrorsTellTheTruth, Phases, Hops,
                         Failures
    <2> QED
      BY <2>1, <2>2
  <1> QED
    BY <1>1, <1>2, <1>3, <1>4, <1>5, <1>6, <1>7, <1>8, <1>9, <1>10, <1>11, <1>12,
       <1>13 DEF Client

LEMMA WorldKeeps ==
  ASSUME IInv, Service \/ UserAnswers \/ Cancel \/ Tick
  PROVE  IInv'
  <1> USE DEF IInv, client, world, clock, Orderly, Ended
  <1>1. CASE ServeCode
    BY <1>1 DEF ServeCode, TypeOK, Pact, AnswersAreTrue, AccountIsApprovedOwner,
                ErrorsTellTheTruth, Hops
  <1>2. CASE ServePoll
    <2>1. TypeOK'
      BY <1>2 DEF ServePoll, TypeOK, Backoff
    <2>2. Pact' /\ Orderly'
      BY <1>2 DEF ServePoll, TypeOK, Pact, Backoff
    <2>3. AnswersAreTrue'
      BY <1>2 DEF ServePoll, TypeOK, AnswersAreTrue, Hops
    <2>4. AccountIsApprovedOwner' /\ ErrorsTellTheTruth'
      BY <1>2 DEF ServePoll, AccountIsApprovedOwner, ErrorsTellTheTruth
    <2> QED
      BY <2>1, <2>2, <2>3, <2>4
  <1>3. CASE ServeHop
    BY <1>3 DEF ServeHop, TypeOK, Pact, AnswersAreTrue, AccountIsApprovedOwner,
                ErrorsTellTheTruth, Hops
  <1>4. CASE UserAnswers
    BY <1>4 DEF UserAnswers, TypeOK, Pact, AnswersAreTrue, AccountIsApprovedOwner,
                ErrorsTellTheTruth, Hops
  <1>5. CASE Cancel
    BY <1>5 DEF Cancel, TypeOK, Pact, AnswersAreTrue, AccountIsApprovedOwner,
                ErrorsTellTheTruth
  <1>6. CASE Tick
    <2>1. TypeOK'
      BY <1>6 DEF Tick, TypeOK, Later
    <2>2. Pact' /\ Orderly'
      BY <1>6 DEF Tick, TypeOK, Pact, Later, Backoff
    <2>3. AnswersAreTrue' /\ AccountIsApprovedOwner' /\ ErrorsTellTheTruth'
      BY <1>6 DEF Tick, TypeOK, AnswersAreTrue, AccountIsApprovedOwner,
                  ErrorsTellTheTruth, Later
    <2> QED
      BY <2>1, <2>2, <2>3
  <1> QED
    BY <1>1, <1>2, <1>3, <1>4, <1>5, <1>6 DEF Service

LEMMA NextKeeps ==
  ASSUME IInv, [Next]_vars
  PROVE  IInv'
  <1>1. CASE Client
    BY <1>1, ClientKeeps
  <1>2. CASE Service \/ UserAnswers \/ Cancel \/ Tick
    BY <1>2, WorldKeeps
  <1>3. CASE Finished \/ UNCHANGED vars
    BY <1>3 DEF Finished, vars, client, world, clock, IInv, TypeOK, Orderly, Ended,
                Pact, AnswersAreTrue, AccountIsApprovedOwner, ErrorsTellTheTruth
  <1> QED
    BY <1>1, <1>2, <1>3 DEF Next

THEOREM InductiveInvariant == Spec => []IInv
  BY InitEstablishes, NextKeeps, PTL DEF Spec

\* Every variable keeps its type, whatever interval the service advertises.
THEOREM TypeCorrect == Spec => []TypeOK
  <1>1. IInv => TypeOK
    BY DEF IInv
  <1> QED
    BY <1>1, InductiveInvariant, PTL

\* The client never polls before the service is ready for it, for any number
\* of slow_downs (devicecode.go:141-172).
THEOREM PollsKeepTheirDistance == Spec => []NeverTooSoon
  <1>1. IInv => NeverTooSoon
    BY DEF IInv, Pact, NeverTooSoon
  <1> QED
    BY <1>1, InductiveInvariant, PTL

\* Only an approved account that owns the game signs in (xbox.go:71-93 and
\* 173-177).
THEOREM OnlyOwnersSignIn == Spec => []AccountIsApprovedOwner
  <1>1. IInv => AccountIsApprovedOwner
    BY DEF IInv
  <1> QED
    BY <1>1, InductiveInvariant, PTL

\* A failed sign in names what happened (devicecode.go:100-106).
THEOREM FailuresAreTrue == Spec => []ErrorsTellTheTruth
  <1>1. IInv => ErrorsTellTheTruth
    BY DEF IInv
  <1> QED
    BY <1>1, InductiveInvariant, PTL

-----------------------------------------------------------------------------
(* SignIn implements Account.                                              *)

Granted == user = "approved" /\ owner

(* Account's definitions, with the refinement mapping filled in.           *)
LEMMA Mapping ==
  /\ UNCHANGED <<Result, Granted, cancelled>> => UNCHANGED Promise!vars
  /\ Promise!Init <=> Result = "running" /\ Granted = FALSE /\ cancelled = FALSE
  /\ Promise!Grant <=> /\ Result = "running"
                       /\ ~Granted
                       /\ Granted' = TRUE
                       /\ UNCHANGED <<Result, cancelled>>
  /\ Promise!Withdraw <=> /\ Result = "running"
                          /\ cancelled' = TRUE
                          /\ UNCHANGED <<Result, Granted>>
  /\ Promise!Succeed <=> /\ Result = "running"
                         /\ Granted
                         /\ Result' = "ok"
                         /\ UNCHANGED <<Granted, cancelled>>
  /\ Promise!Fail <=> /\ Result = "running"
                      /\ Result' = "failed"
                      /\ UNCHANGED <<Granted, cancelled>>
  BY DEF Promise!vars, Promise!Init, Promise!Grant, Promise!Withdraw,
         Promise!Succeed, Promise!Fail, Granted

(* A failure of any kind is a failure to the caller.                       *)
LEMMA FailImplements ==
  ASSUME ~Ended, NEW why, Fail(why)
  PROVE  Promise!Next
  <1>1. Result = "running" /\ Result' = "failed"
    BY DEF Fail, Result, Ended
  <1>2. UNCHANGED <<Granted, cancelled>>
    BY DEF Fail, world, Granted
  <1> QED
    BY <1>1, <1>2, Mapping DEF Promise!Next

LEMMA NextImplements ==
  ASSUME IInv, [Next]_vars
  PROVE  [Promise!Next]_(Promise!vars)
  <1> USE DEF client, world, clock
  <1>1. CASE NoClientID \/ Cancelled \/ Broken \/ Refused \/ HopRefused
    BY <1>1, FailImplements DEF NoClientID, Cancelled, Broken, Refused, HopRefused,
                                Asking, Hops, Ended
  <1>2. CASE Ask \/ TimerFires \/ CodeArrives \/ StillPending \/ SlowDown
               \/ TokenArrives \/ HopDone
    <2>1. UNCHANGED <<Granted, cancelled>>
      BY <1>2 DEF Ask, TimerFires, CodeArrives, StillPending, SlowDown, TokenArrives,
                  HopDone, Granted
    <2>2. UNCHANGED Result
      BY <1>2 DEF Ask, TimerFires, CodeArrives, StillPending, SlowDown, TokenArrives,
                  HopDone, Result, Hops, After
    <2> QED
      BY <2>1, <2>2, Mapping
  <1>3. CASE ProfileArrives
    <2>1. CASE wire = "not_found" /\ Fail("noEntitlement")
      BY <1>3, <2>1, FailImplements DEF ProfileArrives, Ended
    <2>2. CASE ~ (wire = "not_found" /\ Fail("noEntitlement"))
      <3>1. Result = "running" /\ Result' = "ok" /\ UNCHANGED <<Granted, cancelled>>
        BY <1>3, <2>2 DEF ProfileArrives, Result, Granted
      <3>2. Granted
        BY <1>3, <2>2 DEF ProfileArrives, IInv, AnswersAreTrue, Hops, Granted
      <3> QED
        BY <3>1, <3>2, Mapping DEF Promise!Next
    <2> QED
      BY <2>1, <2>2
  <1>4. CASE Service \/ Tick \/ Finished \/ UNCHANGED vars
    <2>1. UNCHANGED <<Result, Granted, cancelled>>
      BY <1>4 DEF Service, ServeCode, ServePoll, ServeHop, Tick, Finished, vars,
                  Result, Granted
    <2> QED
      BY <2>1, Mapping
  <1>5. CASE UserAnswers
    <2>1. Result = "running" /\ UNCHANGED <<Result, cancelled>> /\ ~Granted
      BY <1>5 DEF UserAnswers, Result, Granted
    <2>2. Granted' = TRUE \/ UNCHANGED Granted
      BY <1>5, <2>1 DEF UserAnswers, Granted
    <2> QED
      BY <2>1, <2>2, Mapping DEF Promise!Next
  <1>6. CASE Cancel
    <2>1. Result = "running" /\ cancelled' = TRUE /\ UNCHANGED <<Result, Granted>>
      BY <1>6 DEF Cancel, Ended, Result, Granted
    <2> QED
      BY <2>1, Mapping DEF Promise!Next
  <1> QED
    BY <1>1, <1>2, <1>3, <1>4, <1>5, <1>6 DEF Next, Client

\* Every sign in is a run of Account: an account only for someone who owns the
\* game and approved, and one result, which stays.
THEOREM Refinement == Spec => KeepsPromise
  <1>1. Init => Promise!Init
    <2> SUFFICES ASSUME Init PROVE Promise!Init
      OBVIOUS
    <2>1. Result = "running" /\ Granted = FALSE /\ cancelled = FALSE
      BY DEF Init, Result, Granted
    <2> QED
      BY <2>1, Mapping
  <1> QED
    BY <1>1, NextImplements, InductiveInvariant, PTL
    DEF Spec, KeepsPromise, Promise!Spec
=============================================================================
