------------------------------- MODULE Launch -------------------------------
(***************************************************************************)
(* One run of phantomd (src/internal/agent/agent.go, launch.go and         *)
(* install.go): load the manifest, plan, install in stages while a second  *)
(* goroutine signs the player in, choose a Java runtime, run the game as a *)
(* child process and turn its end into an exit status.  SIGTERM may come   *)
(* at any moment.                                                          *)
(*                                                                         *)
(* The two FetchAll calls are taken at their word: they are instances of   *)
(* Download.tla, which FetchPool.tla is proved to implement.  So is the    *)
(* sign in of Account.tla, which SignIn.tla is proved to implement.        *)
(***************************************************************************)
EXTENDS Naturals

CONSTANTS
    Libraries,  \* the libraries and the client jar the version names
    Objects,    \* the objects an asset index can name
    Assets,     \* those that the index with the published digest names
    Majors      \* Java majors

\* Zero is the major of a version document that names none.
ASSUME MajorAssumption == Majors \subseteq Nat \ {0}
ASSUME AssetAssumption == Assets \subseteq Objects

VARIABLES
    dryRun, offline,    \* the -dry-run flag; the manifest's auth.mode
    wanted,             \* the Java major of the version document
    installed,          \* the majors under -jvm-root
    hasIndex,           \* the version document declares an asset index
    phase,              \* where Run is
    fetch,              \* the FetchAll call of this phase
    libs, index, assets,\* what of the set, the index and the objects is on disk
    listed,             \* the objects that the answer to AssetIndex named
    signin,             \* the sign in goroutine and the result it sends
    granted,            \* a user who owns the game approved on a phone
    runtime,            \* the selected runtime's major
    game,               \* the game process
    long,               \* it ran for 60 seconds or more
    sigterm, cancelled, \* the signal came; Launch's context is cancelled
    exit                \* the exit status of phantomd

input == <<dryRun, offline, wanted, installed, hasIndex>>
files == <<libs, index, assets, listed>>
account == <<signin, granted>>
session == <<game, long>>
context == <<sigterm, cancelled>>
vars == <<input, phase, fetch, files, account, runtime, session, context, exit>>

LibrarySet == INSTANCE Download WITH
    Jobs <- Libraries, have <- libs, status <- fetch, withdrawn <- cancelled
\* What no entry of the set asks for counts as there.
AssetSet == INSTANCE Download WITH
    Jobs <- Objects, have <- assets \cup (Objects \ listed), status <- fetch,
    withdrawn <- cancelled
PlayerSignIn == INSTANCE Account WITH status <- signin, withdrawn <- cancelled

\* An earlier run may have left any of the files.
Init == /\ dryRun \in BOOLEAN
        /\ offline \in BOOLEAN
        /\ wanted \in Majors \cup {0}
        /\ installed \in SUBSET Majors
        /\ hasIndex \in BOOLEAN
        /\ phase = "load"
        /\ fetch = "idle"
        /\ libs \in SUBSET Libraries
        /\ index \in BOOLEAN
        /\ assets \in SUBSET Objects
        /\ listed = {}
        /\ signin = "off"
        /\ granted = FALSE
        /\ runtime = 0
        /\ game = "none"
        /\ long = FALSE
        /\ sigterm = FALSE
        /\ cancelled = FALSE
        /\ exit = "none"

\* Run returns; on its way Launch's deferred cancel runs.
Exit(status) == /\ phase' = "exited"
                /\ exit' = status
                /\ cancelled' = TRUE
                /\ fetch' = "idle"
                /\ UNCHANGED <<input, files, account, runtime, session, sigterm>>

Continue(to) == /\ phase' = to
                /\ UNCHANGED <<input, files, account, session, context, exit>>

-----------------------------------------------------------------------------
(* Run, up to Launch.                                                      *)

\* manifest.Load fails: the source, the decoding or the validation.
LoadFails == phase = "load" /\ Exit("failure")

\* Mutation: the plan of a dry run is carried out.
PlanIgnoresDryRun == /\ phase = "load"
                     /\ phase' = "resolve"
                     /\ signin' = "running"
                     /\ UNCHANGED <<input, fetch, files, granted, runtime, session,
                                    context, exit>>

\* BuildPlan and writePlan; then a dry run ends, and Launch starts the sign
\* in goroutine.
Plan == /\ phase = "load"
        /\ \/ dryRun /\ Exit("success")
           \/ /\ ~dryRun
              /\ phase' = "resolve"
              /\ signin' = "running"
              /\ UNCHANGED <<input, fetch, files, granted, runtime, session,
                             context, exit>>

-----------------------------------------------------------------------------
(* Installer.Install.                                                      *)

\* Client.Resolve: two requests, which a cancelled context cannot make.
ResolveVersion == /\ phase = "resolve"
                  /\ \/ /\ ~cancelled
                        /\ Continue("libraries")
                        /\ fetch' = "running"
                        /\ UNCHANGED runtime
                     \/ Exit("failure")

\* A file of the running FetchAll call arrives.
FileArrives == /\ \/ phase = "libraries" /\ LibrarySet!Arrive /\ UNCHANGED assets
                  \/ /\ phase = "assets"
                     /\ \E new \in SUBSET listed : assets' = assets \cup new
                     /\ UNCHANGED <<libs, listed>>
                     /\ AssetSet!Arrive
               /\ UNCHANGED <<input, phase, index, listed, account, runtime, session,
                              sigterm, exit>>

\* FetchAll returns nil.
FetchSucceeds == /\ phase \in {"libraries", "assets"}
                 /\ UNCHANGED <<input, phase, files, account, runtime, session,
                                context, exit>>
                 /\ \/ phase = "libraries" /\ LibrarySet!Succeed
                    \/ phase = "assets" /\ AssetSet!Succeed

\* FetchAll returns an error.
FetchFails == /\ phase \in {"libraries", "assets"}
              /\ UNCHANGED <<input, phase, files, account, runtime, session,
                             context, exit>>
              /\ \/ phase = "libraries" /\ LibrarySet!Fail
                 \/ phase = "assets" /\ AssetSet!Fail

\* Mutation: a stage that failed is started again, for ever.
StageRetries == /\ phase \in {"libraries", "assets"}
                /\ \/ /\ fetch = "failed"
                      /\ Continue(phase)
                      /\ fetch' = "running"
                   \/ /\ fetch = "ok"
                      /\ Continue(IF phase = "libraries" THEN "index" ELSE "spec")
                      /\ fetch' = "idle"
                /\ UNCHANGED runtime

\* Mutation: the error of a stage is logged and forgotten.
StageIgnoresError == /\ phase \in {"libraries", "assets"}
                     /\ fetch \in {"ok", "failed"}
                     /\ Continue(IF phase = "libraries" THEN "index" ELSE "spec")
                     /\ fetch' = "idle"
                     /\ UNCHANGED runtime

\* The stage's error ends Install, nil leads to the next stage.
StageEnds == /\ phase \in {"libraries", "assets"}
             /\ \/ fetch = "failed" /\ Exit("failure")
                \/ /\ fetch = "ok"
                   /\ Continue(IF phase = "libraries" THEN "index" ELSE "spec")
                   /\ fetch' = "idle"
                   /\ UNCHANGED runtime

\* fetchAssets without an index has nothing to do; with one, it requests the
\* index.  This answer is decoded and not compared with the published digest:
\* it may name any objects, and it is what the set of the stage is made from.
FetchIndex == /\ phase = "index"
              /\ \/ ~hasIndex /\ Continue("spec") /\ UNCHANGED <<fetch, runtime>>
                 \/ /\ hasIndex
                    /\ ~cancelled
                    /\ phase' = "saveIndex"
                    /\ listed' \in SUBSET Objects
                    /\ UNCHANGED <<input, fetch, libs, index, assets, account, runtime,
                                   session, context, exit>>
                 \/ hasIndex /\ Exit("failure")

\* Fetch requests the index a second time, unless the file is there already,
\* and puts what has the published digest where the game reads it.  Then the
\* set is fetched; an entry that no path can be made of ends the run, as an
\* error of FetchAll does.
SaveIndex == /\ phase = "saveIndex"
             /\ \/ /\ index \/ ~cancelled
                   /\ phase' = "assets"
                   /\ index' = TRUE
                   /\ fetch' = "running"
                   /\ UNCHANGED <<input, libs, assets, listed, account, runtime,
                                  session, context, exit>>
                \/ Exit("failure")

\* Version.Resolve: a document without a main class ends here.
ResolveSpec == /\ phase = "spec"
               /\ \/ Continue("runtimes") /\ UNCHANGED <<fetch, runtime>>
                  \/ Exit("failure")

-----------------------------------------------------------------------------
(* The rest of Launch.                                                     *)

\* FindRuntimes and SelectRuntime: exactly the major of the version document.
\* A directory that cannot be read is an error too.
SelectRuntime == /\ phase = "runtimes"
                 /\ \/ /\ wanted \in installed
                       /\ runtime' = wanted
                       /\ Continue("join")
                       /\ UNCHANGED fetch
                    \/ Exit("failure")

\* Mutation: the error of the sign in is not looked at.
JoinIgnoresError == /\ phase = "join"
                    /\ signin \in {"ok", "failed"}
                    /\ Continue("start")
                    /\ UNCHANGED <<fetch, runtime>>

\* result := <-auth
JoinSignIn == /\ phase = "join"
              /\ \/ signin = "failed" /\ Exit("failure")
                 \/ /\ signin = "ok"
                    /\ Continue("start")
                    /\ UNCHANGED <<fetch, runtime>>

\* Mutation: exec.Command, without the context.
StartDetached == /\ phase = "start"
                 /\ phase' = "playing"
                 /\ game' = "running"
                 /\ UNCHANGED <<input, fetch, files, account, runtime, long,
                                context, exit>>

\* Launcher.Run: a cancelled context starts no process; the directory or the
\* process itself may fail.
StartGame == /\ phase = "start"
             /\ \/ /\ ~cancelled
                   /\ phase' = "playing"
                   /\ game' = "running"
                   /\ UNCHANGED <<input, fetch, files, account, runtime, long,
                                  context, exit>>
                \/ Exit("failure")

\* Mutation: a crash is judged by how it died, not by how long it lived.
ReportAnyCrash == /\ phase = "playing"
                  /\ game \notin {"none", "running"}
                  /\ Exit(IF game = "signalled" THEN "success" ELSE
                          IF game = "quit" THEN "success" ELSE "failure")

\* Mutation: cmd.Start in place of cmd.Run.
ReportAtOnce == /\ phase = "playing"
                /\ Exit(IF game = "quit" \/ long THEN "success" ELSE "failure")

\* cmd.Run returns and Run reports the session: a quit, and a crash after a
\* minute, are a success; a crash before is not.  A game that quits as the
\* context is cancelled may come back as the context's error.
ReportSession == /\ phase = "playing"
                 /\ game \notin {"none", "running"}
                 /\ \/ Exit(IF game = "quit" \/ long THEN "success" ELSE "failure")
                    \/ game = "quit" /\ cancelled /\ Exit("failure")

-----------------------------------------------------------------------------
(* The sign in goroutine, the game and the machine.                        *)

\* resolveAccount returns and the result is sent: the channel has room for it,
\* so nobody need be waiting.  Offline mode cannot fail.
SignInReturns == /\ exit = "none"
                 /\ \/ /\ offline
                       /\ signin = "running"
                       /\ signin' = "ok"
                       /\ UNCHANGED <<granted, cancelled>>
                    \/ ~offline /\ (PlayerSignIn!Succeed \/ PlayerSignIn!Fail)
                 /\ UNCHANGED <<input, phase, fetch, files, runtime, session,
                                sigterm, exit>>

\* The code is on the screen until SignIn has returned.
UserApproves == /\ exit = "none"
                /\ ~offline
                /\ PlayerSignIn!Grant
                /\ UNCHANGED <<input, phase, fetch, files, runtime, session,
                               sigterm, exit>>

\* The player quits, the game crashes, or something kills it.
GameEnds == /\ game = "running"
            /\ game' \in {"quit", "crash", "signalled"}
            /\ long' \in BOOLEAN
            /\ UNCHANGED <<input, phase, fetch, files, account, runtime, context,
                           exit>>

\* Mutation: no watcher kills the game when the context is cancelled.
KillNothing == FALSE /\ UNCHANGED vars

\* exec.CommandContext kills the game when its context is cancelled.
KillGame == /\ game = "running"
            /\ cancelled
            /\ game' = "signalled"
            /\ long' \in BOOLEAN
            /\ UNCHANGED <<input, phase, fetch, files, account, runtime, context,
                           exit>>

\* SIGTERM or an interrupt: main's context, and with it every other one.
Sigterm == /\ exit = "none"
           /\ ~sigterm
           /\ sigterm' = TRUE
           /\ cancelled' = TRUE
           /\ UNCHANGED <<input, phase, fetch, files, account, runtime, session,
                          exit>>

Finished == exit # "none" /\ UNCHANGED vars

-----------------------------------------------------------------------------
Agent == \/ LoadFails
         \/ Plan
         \/ ResolveVersion
         \/ StageEnds
         \/ FetchIndex
         \/ SaveIndex
         \/ ResolveSpec
         \/ SelectRuntime
         \/ JoinSignIn
         \/ StartGame
         \/ ReportSession

Next == Agent \/ FileArrives \/ FetchSucceeds \/ FetchFails \/ SignInReturns
        \/ UserApproves \/ GameEnds \/ KillGame \/ Sigterm \/ Finished

Spec == Init /\ [][Next]_vars

(* The main goroutine runs, FetchAll returns (FetchPool's Returns), a sign *)
(* in ends (SignIn's Ends), and a killed process dies.  The player need    *)
(* never leave the game and no signal need come.                           *)
FairSpec == /\ Spec
            /\ WF_vars(Agent)
            /\ WF_vars(FetchSucceeds \/ FetchFails)
            /\ WF_vars(SignInReturns)
            /\ WF_vars(KillGame)

-----------------------------------------------------------------------------
InputType == /\ dryRun \in BOOLEAN /\ offline \in BOOLEAN /\ hasIndex \in BOOLEAN
             /\ wanted \in Majors \cup {0}
             /\ installed \in SUBSET Majors

FileType == /\ libs \in SUBSET Libraries
            /\ index \in BOOLEAN
            /\ assets \in SUBSET Objects
            /\ listed \in SUBSET Objects

ProcessType == /\ phase \in {"load", "resolve", "libraries", "index", "saveIndex",
                             "assets", "spec", "runtimes", "join", "start",
                             "playing", "exited"}
               /\ fetch \in {"idle", "running", "ok", "failed"}
               /\ signin \in {"off", "running", "ok", "failed"}
               /\ game \in {"none", "running", "quit", "crash", "signalled"}
               /\ exit \in {"none", "success", "failure"}
               /\ granted \in BOOLEAN
               /\ long \in BOOLEAN /\ sigterm \in BOOLEAN /\ cancelled \in BOOLEAN

\* The shape of the state.
TypeOK == InputType /\ FileType /\ ProcessType /\ runtime \in Majors \cup {0}

Started == game # "none"

\* The game never starts on an incomplete installation (install.go:40,
\* "downloads everything the version needs"), although a cancelled FetchAll
\* may have returned nil before everything was there: the libraries, the
\* index, and of the objects this index names each one that the other answer,
\* which the set was made from, had not left out (install.go:88, 94).
NeverLaunchesIncomplete ==
    Started => /\ libs = Libraries
               /\ hasIndex => index /\ Assets \cap listed \subseteq assets

\* The game never starts without an account, whichever of the two goroutines
\* finishes first, and online never without somebody who approved and owns the
\* game (agent.go:118-121).
NeverLaunchesUnsigned == Started => signin = "ok" /\ (offline \/ granted)

\* "resolve and report the plan without changing anything" (main.go:32): a
\* dry run writes no file, asks nobody to sign in and starts no game.
DryRunChangesNothing ==
    [][dryRun => UNCHANGED <<libs, index, assets, signin, game>>]_vars

\* The exit status tells the session unit how the session went: success is a
\* game that was quit or that lasted (launch.go:53-58), and a game the player
\* quit is reported as a failure only to somebody who was ending it anyway.
ExitTellsTheSession ==
    /\ exit = "success" /\ ~dryRun => game = "quit" \/ (Started /\ long)
    /\ exit = "failure" /\ game = "quit" => sigterm

\* phantomd supervises the game to its end: it never exits and leaves it
\* behind.
GameNeverOutlivesTheAgent == exit # "none" => game # "running"

\* What each stage has ensured by the time the next one runs: the files, or a
\* cancelled context that will not let the game start.
Installed ==
    /\ phase \in {"index", "saveIndex", "assets", "spec", "runtimes", "join", "start"}
            \/ (phase = "libraries" /\ fetch = "ok")
        => libs = Libraries \/ cancelled
    /\ hasIndex /\ phase \in {"assets", "spec", "runtimes", "join", "start"} => index
    /\ hasIndex /\ (\/ phase \in {"spec", "runtimes", "join", "start"}
                    \/ phase = "assets" /\ fetch = "ok")
        => listed \subseteq assets \/ cancelled

\* What Launch holds when it starts the game, and what becomes of the game.
Ready ==
    /\ phase \in {"join", "start"} => runtime = wanted /\ wanted \in installed
    /\ phase = "start" => signin = "ok"
    /\ signin = "ok" => offline \/ granted
    /\ phase = "playing" => Started
    /\ Started => phase \in {"playing", "exited"}
    /\ (exit # "none") <=> (phase = "exited")
    /\ cancelled /\ phase # "exited" => sigterm
    /\ phase \in {"libraries", "assets"} => fetch \in {"running", "ok", "failed"}
    /\ dryRun => phase \in {"load", "exited"} /\ signin = "off" /\ ~Started

IInv == /\ TypeOK
        /\ Installed
        /\ Ready
        /\ NeverLaunchesIncomplete
        /\ NeverLaunchesUnsigned
        /\ ExitTellsTheSession
        /\ GameNeverOutlivesTheAgent

\* The agent comes to a decision: it starts the game or gives up.
Decides == <>(Started \/ exit # "none")

\* A signal ends phantomd, in whatever stage and with the game running.
SigtermEnds == sigterm ~> exit # "none"

\* "Doing them in sequence would also mean a misconfigured client id is only
\* discovered after half a gigabyte has been fetched" (agent.go:75): once the
\* sign in has failed, no further download begins.
AuthFailureStopsDownloads ==
    [][signin = "failed" /\ fetch' = "running" => fetch = "running"]_vars
=============================================================================
