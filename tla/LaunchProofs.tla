---------------------------- MODULE LaunchProofs ----------------------------
(***************************************************************************)
(* Proofs about Launch.tla, for any libraries, any objects and answers     *)
(* that name them, and any Java majors.                                    *)
(***************************************************************************)
EXTENDS Launch, TLAPS

USE MajorAssumption, AssetAssumption
USE DEF input, files, account, session, context

LEMMA InputStays == InputType /\ UNCHANGED input => InputType'
  BY DEF InputType

LEMMA FilesStay == FileType /\ UNCHANGED files => FileType'
  BY DEF FileType

LEMMA InitEstablishes == Init => IInv
  <1> SUFFICES ASSUME Init PROVE IInv
    OBVIOUS
  <1> USE DEF Init
  <1>1. TypeOK
    BY DEF TypeOK, InputType, FileType, ProcessType
  <1>2. Installed /\ Ready
    BY DEF Installed, Ready, Started
  <1>3. /\ NeverLaunchesIncomplete
        /\ NeverLaunchesUnsigned
    BY DEF NeverLaunchesIncomplete, NeverLaunchesUnsigned, Started
  <1>4. ExitTellsTheSession /\ GameNeverOutlivesTheAgent
    BY DEF ExitTellsTheSession, GameNeverOutlivesTheAgent, Started
  <1> QED
    BY <1>1, <1>2, <1>3, <1>4 DEF IInv

(* Returning keeps the invariant when the status is right for the session. *)
LEMMA ExitKeeps ==
  ASSUME IInv, NEW status \in {"success", "failure"}, Exit(status),
         game # "running",
         status = "success" => dryRun \/ game = "quit" \/ (Started /\ long),
         status = "failure" /\ game = "quit" => sigterm
  PROVE  IInv'
  <1> USE DEF IInv, Exit
  <1>1. TypeOK'
    BY InputStays, FilesStay DEF TypeOK, ProcessType
  <1>2. Installed' /\ Ready'
    BY DEF TypeOK, Installed, Ready, Started
  <1>3. /\ NeverLaunchesIncomplete'
        /\ NeverLaunchesUnsigned'
    BY DEF NeverLaunchesIncomplete, NeverLaunchesUnsigned, Started
  <1>4. ExitTellsTheSession' /\ GameNeverOutlivesTheAgent'
    BY DEF ExitTellsTheSession, GameNeverOutlivesTheAgent, Started
  <1> QED
    BY <1>1, <1>2, <1>3, <1>4

(* Before the game has started, whatever fails exits with a failure.       *)
LEMMA EarlyFailureKeeps ==
  ASSUME IInv, Exit("failure"), phase \notin {"playing", "exited"}
  PROVE  IInv'
  <1>1. game = "none"
    BY DEF IInv, Ready, Started
  <1> QED
    BY <1>1, ExitKeeps

(* The properties of a game that has not started hold while it does not.   *)
LEMMA NotStarted ==
  ASSUME game' = "none", exit' = "none"
  PROVE  /\ NeverLaunchesIncomplete'
         /\ NeverLaunchesUnsigned'
         /\ ExitTellsTheSession'
         /\ GameNeverOutlivesTheAgent'
  BY DEF NeverLaunchesIncomplete, NeverLaunchesUnsigned,
         ExitTellsTheSession, GameNeverOutlivesTheAgent, Started

LEMMA AgentKeeps ==
  ASSUME IInv, Agent
  PROVE  IInv'
  <1> USE DEF IInv
  <1>0. phase # "exited" /\ phase # "playing" => game = "none" /\ exit = "none"
    BY DEF Ready, Started
  <1>1. CASE LoadFails
    BY <1>1, EarlyFailureKeeps DEF LoadFails
  <1>2. CASE Plan
    <2>1. CASE dryRun /\ Exit("success")
      BY <1>0, <1>2, <2>1, ExitKeeps DEF Plan
    <2>2. CASE ~ (dryRun /\ Exit("success"))
      <3>1. TypeOK'
        BY <1>2, <2>2, InputStays, FilesStay
        DEF Plan, TypeOK, ProcessType
      <3>2. Installed' /\ Ready'
        BY <1>0, <1>2, <2>2 DEF Plan, Installed, Ready, Started
      <3> QED
        BY <1>0, <1>2, <2>2, <3>1, <3>2, NotStarted DEF Plan
    <2> QED
      BY <2>1, <2>2
  <1>3. CASE ResolveVersion
    <2>1. CASE Exit("failure")
      BY <1>3, <2>1, EarlyFailureKeeps DEF ResolveVersion
    <2>2. CASE ~Exit("failure")
      <3>1. TypeOK'
        BY <1>3, <2>2, InputStays, FilesStay
        DEF ResolveVersion, Continue, TypeOK, ProcessType
      <3>2. Installed' /\ Ready'
        BY <1>0, <1>3, <2>2 DEF ResolveVersion, Continue, Installed, Ready, Started
      <3> QED
        BY <1>0, <1>3, <2>2, <3>1, <3>2, NotStarted DEF ResolveVersion, Continue
    <2> QED
      BY <2>1, <2>2
  <1>4. CASE StageEnds
    <2>1. CASE Exit("failure")
      BY <1>4, <2>1, EarlyFailureKeeps DEF StageEnds
    <2>2. CASE ~Exit("failure")
      <3>1. TypeOK'
        BY <1>4, <2>2, InputStays, FilesStay
        DEF StageEnds, Continue, TypeOK, ProcessType
      <3>2. Installed' /\ Ready'
        BY <1>0, <1>4, <2>2 DEF StageEnds, Continue, Installed, Ready, Started
      <3> QED
        BY <1>0, <1>4, <2>2, <3>1, <3>2, NotStarted DEF StageEnds, Continue
    <2> QED
      BY <2>1, <2>2
  <1>5. CASE FetchIndex
    <2>1. CASE Exit("failure")
      BY <1>5, <2>1, EarlyFailureKeeps DEF FetchIndex
    <2>2. CASE ~Exit("failure")
      <3>1. TypeOK'
        <4>1. InputType' /\ ProcessType'
          BY <1>5, <2>2, InputStays DEF FetchIndex, Continue, TypeOK, ProcessType
        <4>2. FileType'
          BY <1>5, <2>2 DEF FetchIndex, Continue, TypeOK, FileType
        <4> QED
          BY <1>5, <2>2, <4>1, <4>2 DEF FetchIndex, Continue, TypeOK
      <3>2. Installed' /\ Ready'
        BY <1>0, <1>5, <2>2 DEF FetchIndex, Continue, Installed, Ready, Started
      <3> QED
        BY <1>0, <1>5, <2>2, <3>1, <3>2, NotStarted DEF FetchIndex, Continue
    <2> QED
      BY <2>1, <2>2
  <1>6. CASE SaveIndex
    <2>1. CASE Exit("failure")
      BY <1>6, <2>1, EarlyFailureKeeps DEF SaveIndex
    <2>2. CASE ~Exit("failure")
      <3>1. TypeOK'
        <4>1. InputType'
          BY <1>6, <2>2, InputStays DEF SaveIndex, TypeOK
        <4>2. FileType' /\ ProcessType'
          BY <1>6, <2>2 DEF SaveIndex, TypeOK, FileType, ProcessType
        <4> QED
          BY <1>6, <2>2, <4>1, <4>2 DEF SaveIndex, TypeOK
      <3>2. Installed' /\ Ready'
        BY <1>0, <1>6, <2>2 DEF SaveIndex, Installed, Ready, Started
      <3> QED
        BY <1>0, <1>6, <2>2, <3>1, <3>2, NotStarted DEF SaveIndex
    <2> QED
      BY <2>1, <2>2
  <1>7. CASE ResolveSpec
    <2>1. CASE Exit("failure")
      BY <1>7, <2>1, EarlyFailureKeeps DEF ResolveSpec
    <2>2. CASE ~Exit("failure")
      <3>1. TypeOK'
        BY <1>7, <2>2, InputStays, FilesStay
        DEF ResolveSpec, Continue, TypeOK, ProcessType
      <3>2. Installed' /\ Ready'
        BY <1>0, <1>7, <2>2 DEF ResolveSpec, Continue, Installed, Ready, Started
      <3> QED
        BY <1>0, <1>7, <2>2, <3>1, <3>2, NotStarted DEF ResolveSpec, Continue
    <2> QED
      BY <2>1, <2>2
  <1>8. CASE SelectRuntime
    <2>1. CASE Exit("failure")
      BY <1>8, <2>1, EarlyFailureKeeps DEF SelectRuntime
    <2>2. CASE ~Exit("failure")
      <3>1. TypeOK'
        BY <1>8, <2>2, InputStays, FilesStay
        DEF SelectRuntime, Continue, TypeOK, InputType, ProcessType
      <3>2. Installed' /\ Ready'
        BY <1>0, <1>8, <2>2 DEF SelectRuntime, Continue, Installed, Ready, Started
      <3> QED
        BY <1>0, <1>8, <2>2, <3>1, <3>2, NotStarted DEF SelectRuntime, Continue
    <2> QED
      BY <2>1, <2>2
  <1>9. CASE JoinSignIn
    <2>1. CASE Exit("failure")
      BY <1>9, <2>1, EarlyFailureKeeps DEF JoinSignIn
    <2>2. CASE ~Exit("failure")
      <3>1. TypeOK'
        BY <1>9, <2>2, InputStays, FilesStay
        DEF JoinSignIn, Continue, TypeOK, ProcessType
      <3>2. Installed' /\ Ready'
        BY <1>0, <1>9, <2>2 DEF JoinSignIn, Continue, Installed, Ready, Started
      <3> QED
        BY <1>0, <1>9, <2>2, <3>1, <3>2, NotStarted DEF JoinSignIn, Continue
    <2> QED
      BY <2>1, <2>2
  <1>10. CASE StartGame
    <2>1. CASE Exit("failure")
      BY <1>10, <2>1, EarlyFailureKeeps DEF StartGame
    <2>2. CASE ~Exit("failure")
      <3>1. TypeOK'
        BY <1>10, <2>2, InputStays, FilesStay
        DEF StartGame, TypeOK, ProcessType
      <3>2. Installed' /\ Ready'
        BY <1>0, <1>10, <2>2 DEF StartGame, Installed, Ready, Started
      <3>3. /\ NeverLaunchesIncomplete'
            /\ NeverLaunchesUnsigned'
        BY <1>10, <2>2 DEF StartGame, Installed, Ready, NeverLaunchesIncomplete,
                           NeverLaunchesUnsigned
      <3>4. ExitTellsTheSession' /\ GameNeverOutlivesTheAgent'
        BY <1>0, <1>10, <2>2 DEF StartGame, ExitTellsTheSession,
                                 GameNeverOutlivesTheAgent
      <3> QED
        BY <3>1, <3>2, <3>3, <3>4
    <2> QED
      BY <2>1, <2>2
  <1>11. CASE ReportSession
    <2>1. Started /\ (cancelled => sigterm)
      BY <1>11 DEF ReportSession, Started, Ready
    <2>2. CASE game = "quit" /\ cancelled /\ Exit("failure")
      BY <1>11, <2>1, <2>2, ExitKeeps DEF ReportSession
    <2>3. CASE game = "quit" \/ long
      BY <1>11, <2>1, <2>2, <2>3, ExitKeeps DEF ReportSession
    <2>4. CASE ~ (game = "quit" \/ long)
      BY <1>11, <2>1, <2>2, <2>4, ExitKeeps DEF ReportSession
    <2> QED
      BY <2>3, <2>4
  <1> QED
    BY <1>1, <1>2, <1>3, <1>4, <1>5, <1>6, <1>7, <1>8, <1>9, <1>10, <1>11 DEF Agent

LEMMA FetchKeeps ==
  ASSUME IInv, FileArrives \/ FetchSucceeds \/ FetchFails
  PROVE  IInv'
  <1> USE DEF IInv, LibrarySet!Arrive, AssetSet!Arrive, LibrarySet!Succeed,
              AssetSet!Succeed, LibrarySet!Fail, AssetSet!Fail
  <1>1. /\ phase' = phase /\ phase \in {"libraries", "assets"}
        /\ UNCHANGED <<input, index, account, runtime, session, context, exit>>
    BY DEF FileArrives, FetchSucceeds, FetchFails
  <1>2. game = "none" /\ exit = "none"
    BY <1>1 DEF Ready, Started
  <1>3. /\ libs \subseteq libs' /\ libs' \in SUBSET Libraries
        /\ assets \subseteq assets' /\ assets' \in SUBSET Objects
        /\ listed' = listed
    BY DEF FileArrives, FetchSucceeds, FetchFails, TypeOK, FileType
  <1>4. fetch' \in {"running", "ok", "failed"}
    BY DEF FileArrives, FetchSucceeds, FetchFails
  <1>5. TypeOK'
    BY <1>1, <1>3, <1>4, InputStays DEF TypeOK, FileType, ProcessType
  <1>6. Ready'
    BY <1>1, <1>2, <1>4 DEF Ready, Started
  <1>7. Installed'
    <2>1. fetch' = "ok" => \/ fetch = "ok" /\ UNCHANGED files
                           \/ phase = "libraries" /\ (libs' = Libraries \/ cancelled)
                           \/ phase = "assets" /\ (listed' \subseteq assets' \/ cancelled)
      <3>1. CASE FetchSucceeds /\ phase = "assets"
        <4>1. assets \cup (Objects \ listed) = Objects \/ cancelled
          BY <3>1 DEF FetchSucceeds
        <4>2. listed \subseteq Objects
          BY DEF TypeOK, FileType
        <4>3. UNCHANGED <<assets, listed>>
          BY <3>1 DEF FetchSucceeds
        <4> QED
          BY <3>1, <4>1, <4>2, <4>3
      <3>2. CASE FetchSucceeds /\ phase = "libraries"
        BY <3>2 DEF FetchSucceeds
      <3>3. CASE FileArrives \/ FetchFails
        BY <3>3 DEF FileArrives, FetchFails
      <3> QED
        BY <1>1, <3>1, <3>2, <3>3
    <2>2. phase = "assets" => libs' = libs
      BY DEF FileArrives, FetchSucceeds, FetchFails
    <2> QED
      BY <1>1, <2>1, <2>2 DEF Installed
  <1> QED
    BY <1>1, <1>2, <1>5, <1>6, <1>7, NotStarted

LEMMA OthersKeep ==
  ASSUME IInv, SignInReturns \/ UserApproves \/ GameEnds \/ KillGame \/ Sigterm
  PROVE  IInv'
  <1> USE DEF IInv
  <1> USE DEF PlayerSignIn!Succeed, PlayerSignIn!Fail, PlayerSignIn!Grant
  <1>1. CASE SignInReturns \/ UserApproves
    <2>1. /\ signin = "running"
          /\ UNCHANGED <<input, phase, fetch, files, runtime, session, context, exit>>
      BY <1>1 DEF SignInReturns, UserApproves
    <2>2. signin' \in {"running", "ok", "failed"}
      BY <1>1 DEF SignInReturns, UserApproves
    <2>3. granted' = granted \/ granted' = TRUE
      BY <1>1 DEF SignInReturns, UserApproves
    <2>4. signin' = "ok" => offline \/ granted'
      BY <1>1 DEF SignInReturns, UserApproves
    <2>5. InputType' /\ FileType'
      BY <2>1, InputStays, FilesStay DEF TypeOK
    <2>6. ProcessType'
      <3>1. granted \in BOOLEAN
        BY DEF TypeOK, ProcessType
      <3>2. granted' \in BOOLEAN
        BY <2>3, <3>1, Zenon
      <3> QED
        BY <2>1, <2>2, <3>2 DEF TypeOK, ProcessType
    <2>7. Installed' /\ Ready'
      BY <2>1, <2>4 DEF Installed, Ready, Started
    <2>8. TypeOK'
      BY <2>1, <2>5, <2>6 DEF TypeOK
    <2>9. game = "none"
      BY <2>1 DEF NeverLaunchesUnsigned, Started
    <2>10. /\ NeverLaunchesIncomplete' /\ NeverLaunchesUnsigned'
           /\ ExitTellsTheSession' /\ GameNeverOutlivesTheAgent'
      BY <2>1, <2>9 DEF NeverLaunchesIncomplete, NeverLaunchesUnsigned,
                        ExitTellsTheSession, GameNeverOutlivesTheAgent, Started
    <2> QED
      BY <2>7, <2>8, <2>10
  <1>2. CASE GameEnds \/ KillGame
    <2>1. Started /\ phase = "playing" /\ exit = "none"
      BY <1>2 DEF GameEnds, KillGame, Ready, Started, GameNeverOutlivesTheAgent
    <2>2. TypeOK' /\ Installed' /\ Ready'
      BY <1>2, <2>1, InputStays, FilesStay
      DEF GameEnds, KillGame, TypeOK, ProcessType, Installed, Ready, Started
    <2>3. /\ NeverLaunchesIncomplete'
          /\ NeverLaunchesUnsigned'
      BY <1>2, <2>1 DEF GameEnds, KillGame, NeverLaunchesIncomplete,
                        NeverLaunchesUnsigned
    <2>4. ExitTellsTheSession' /\ GameNeverOutlivesTheAgent'
      BY <1>2, <2>1 DEF GameEnds, KillGame, ExitTellsTheSession,
                        GameNeverOutlivesTheAgent
    <2> QED
      BY <2>2, <2>3, <2>4
  <1>3. CASE Sigterm
    <2>1. TypeOK' /\ Installed' /\ Ready'
      BY <1>3, InputStays, FilesStay
      DEF Sigterm, TypeOK, ProcessType, Installed, Ready, Started
    <2>2. /\ NeverLaunchesIncomplete'
          /\ NeverLaunchesUnsigned'
      BY <1>3 DEF Sigterm, NeverLaunchesIncomplete, NeverLaunchesUnsigned, Started
    <2>3. ExitTellsTheSession' /\ GameNeverOutlivesTheAgent'
      BY <1>3 DEF Sigterm, ExitTellsTheSession, GameNeverOutlivesTheAgent
    <2> QED
      BY <2>1, <2>2, <2>3
  <1> QED
    BY <1>1, <1>2, <1>3

LEMMA NextKeeps ==
  ASSUME IInv, [Next]_vars
  PROVE  IInv'
  <1>1. CASE Finished \/ UNCHANGED vars
    BY <1>1, InputStays, FilesStay
    DEF Finished, vars, IInv, TypeOK, ProcessType, Installed, Ready, Started,
        NeverLaunchesIncomplete, NeverLaunchesUnsigned,
        ExitTellsTheSession, GameNeverOutlivesTheAgent
  <1> QED
    BY <1>1, AgentKeeps, FetchKeeps, OthersKeep DEF Next

-----------------------------------------------------------------------------
THEOREM InductiveInvariant == Spec => []IInv
  BY InitEstablishes, NextKeeps, PTL DEF Spec

\* Every variable keeps its type, for every version and every machine.
THEOREM TypeCorrect == Spec => []TypeOK
  <1>1. IInv => TypeOK
    BY DEF IInv
  <1> QED
    BY <1>1, InductiveInvariant, PTL

\* The game never starts on files that are not all there, for any version and
\* any answers to the two requests for its index, but for what the first of
\* them left out (agent.go:100-103, install.go:88-109, launch.go:129).
THEOREM NoIncompleteLaunch == Spec => []NeverLaunchesIncomplete
  <1>1. IInv => NeverLaunchesIncomplete
    BY DEF IInv
  <1> QED
    BY <1>1, InductiveInvariant, PTL

\* The game never starts without an account, which online is that of somebody
\* who approved and owns the game (agent.go:118-121).
THEOREM NoUnsignedLaunch == Spec => []NeverLaunchesUnsigned
  <1>1. IInv => NeverLaunchesUnsigned
    BY DEF IInv
  <1> QED
    BY <1>1, InductiveInvariant, PTL

\* The exit status says how the session went (agent.go:57-68,
\* launch.go:134-155).
THEOREM ExitStatusIsRight == Spec => []ExitTellsTheSession
  <1>1. IInv => ExitTellsTheSession
    BY DEF IInv
  <1> QED
    BY <1>1, InductiveInvariant, PTL

\* No game is left running without its supervisor (launch.go:135).
THEOREM GameIsSupervised == Spec => []GameNeverOutlivesTheAgent
  <1>1. IInv => GameNeverOutlivesTheAgent
    BY DEF IInv
  <1> QED
    BY <1>1, InductiveInvariant, PTL

\* A dry run writes nothing, asks nothing and starts nothing
\* (agent.go:50-55).
THEOREM DryRunIsHarmless == Spec => DryRunChangesNothing
  <1>1. ASSUME IInv, [Next]_vars, dryRun
        PROVE  UNCHANGED <<libs, index, assets, signin, game>>
    <2>1. /\ phase \in {"load", "exited"} /\ signin = "off"
          /\ game = "none"
      BY <1>1 DEF IInv, Ready, Started
    <2>2. CASE Agent
      BY <1>1, <2>1, <2>2
      DEF Agent, LoadFails, Plan, ResolveVersion, StageEnds, FetchIndex, SaveIndex,
          ResolveSpec, SelectRuntime, JoinSignIn, StartGame, ReportSession, Exit
    <2>3. CASE FileArrives \/ FetchSucceeds \/ FetchFails
      BY <2>1, <2>3 DEF FileArrives, FetchSucceeds, FetchFails
    <2>4. CASE SignInReturns \/ UserApproves \/ GameEnds \/ KillGame
      BY <2>1, <2>4 DEF SignInReturns, UserApproves, GameEnds, KillGame,
                        PlayerSignIn!Succeed, PlayerSignIn!Fail, PlayerSignIn!Grant
    <2>5. CASE Sigterm \/ Finished \/ UNCHANGED vars
      BY <2>5 DEF Sigterm, Finished, vars
    <2> QED
      BY <1>1, <2>2, <2>3, <2>4, <2>5 DEF Next
  <1>2. IInv /\ [Next]_vars
            => [dryRun => UNCHANGED <<libs, index, assets, signin, game>>]_vars
    BY <1>1
  <1> QED
    BY <1>2, InductiveInvariant, PTL DEF Spec, DryRunChangesNothing
=============================================================================
