------------------------------ MODULE Prepare ------------------------------
(***************************************************************************)
(* What one run of phantomd makes of its inputs, from the manifest to the  *)
(* java command line: Load and Validate, BuildPlan, the files Install      *)
(* fetches, Version.Resolve, the Java runtime, the account and             *)
(* Launcher.Command (src/internal/agent).  Launch.tla has the order, the   *)
(* failures and the signals of the same run; here is its data.  The sign   *)
(* in runs beside the installation, as it does there.                      *)
(***************************************************************************)
EXTENDS Manifest, VersionDoc

CONSTANTS
    Inputs,         \* what a run may find: -client-id, PHANTOM_CLIENT_ID, the
                    \* manifest at the source and the clock when it is read
    Published,      \* Published[v] are the documents that the URL of version v
                    \* may answer with
    Roots,          \* the contents of the directory of Java runtimes
    Atoi,           \* Atoi[s] is the number a text of digits stands for
    Profiles,       \* the accounts a sign in may end with
    OfflineUUID     \* OfflineUUID[name] is the identity of an offline player

ASSUME InputAssumption ==
    Inputs \subseteq [flag : STRING, env : STRING, file : Manifests, now : Int]
ASSUME DocumentAssumption == \A v \in DOMAIN Published : Published[v] \subseteq Versions
ASSUME AccountAssumption ==
    /\ OfflineUUID \in [WellFormed -> STRING]
    /\ Profiles \subseteq [name : STRING, uuid : STRING, token : STRING,
                           userType : STRING]
ASSUME RootAssumption ==
    /\ Atoi \in [DOMAIN Atoi -> Int]
    /\ \A root \in Roots : \A entry \in root : entry.name \in Seq(STRING)

Documents == UNION {Published[v] : v \in DOMAIN Published}

VARIABLES
    phase,      \* where Run and Launch are, or "signin-test"
    flag, env,  \* -client-id and PHANTOM_CLIENT_ID
    file,       \* the manifest at the source, and then in memory
    loadedAt,   \* the clock Validate was given
    errors,     \* the fields Validate objected to
    plan,       \* the Plan
    auth,       \* the sign in goroutine: "idle", "ok", "failed"
    asked,      \* the client id it asked a device code for
    account,    \* the account it returned
    doc,        \* the version document
    installed,  \* the jars Install fetched
    spec,       \* the LaunchSpec
    java,       \* the runtime
    command     \* the arguments of java

inputs == <<flag, env, file>>
loaded == <<loadedAt, errors, plan>>
signedIn == <<auth, asked, account>>
built == <<doc, installed, spec, java, command>>
vars == <<phase, inputs, loaded, signedIn, built>>

Installing == {"install", "resolve", "runtime", "join"}

-----------------------------------------------------------------------------
Init == /\ phase \in {"load", "signin-test"}
        /\ \E input \in Inputs : /\ flag = input.flag
                               /\ env = input.env
                               /\ file = input.file
                               /\ loadedAt = input.now
        /\ errors = {}
        /\ plan = <<>>
        /\ auth = "idle"
        /\ asked = <<>>
        /\ account = <<>>
        /\ doc = <<>>
        /\ installed = {}
        /\ spec = <<>>
        /\ java = <<>>
        /\ command = <<>>

\* Load, Decode and Validate.
Load == /\ phase = "load"
        /\ errors' = Validate(file, loadedAt)
        /\ phase' = IF errors' = {} THEN "plan" ELSE "failed"
        /\ UNCHANGED <<inputs, loadedAt, plan, signedIn, built>>

\* The source is plain http, does not open, or is not the JSON of a manifest.
LoadFails == /\ phase = "load"
             /\ phase' = "failed"
             /\ UNCHANGED <<inputs, loaded, signedIn, built>>

\* Each mod goes to its file name under the mods directory, but for the
\* manual ones, which the person is asked for.
PlanOf(m) ==
    LET Manual == {i \in DOMAIN m.mods : m.mods[i].manual}
    IN  [downloads |-> [i \in DOMAIN m.mods \ Manual |-> m.mods[i].filename],
         manual |-> {m.mods[i].filename : i \in Manual},
         needsAuth |-> m.auth.mode = "microsoft",
         needsNetwork |-> RequiresNetwork(m)]

BuildPlan == /\ phase = "plan"
             /\ phase' = "install"
             /\ plan' = <<PlanOf(file)>>
             /\ UNCHANGED <<inputs, loadedAt, errors, signedIn, built>>

-----------------------------------------------------------------------------
(* The account.                                                            *)

\* Mutation: the manifest goes before the environment.
ResolveClientIDManifestFirst(flagValue, manifestValue) ==
    CASE ~Blank(flagValue) -> TrimSpace(flagValue)
      [] Blank(flagValue) /\ ~Blank(manifestValue) -> TrimSpace(manifestValue)
      [] OTHER -> TrimSpace(env)

\* The first of the three that is not blank; "" when there is none.
ResolveClientID(flagValue, manifestValue) ==
    CASE ~Blank(flagValue) -> TrimSpace(flagValue)
      [] Blank(flagValue) /\ ~Blank(env) -> TrimSpace(env)
      [] OTHER -> TrimSpace(manifestValue)

OfflineAccount(name) == [name |-> name, uuid |-> OfflineUUID[name],
                         token |-> "", userType |-> "legacy"]

\* Mutation: the flag and the environment are all there is.
SignInUnconfigured == /\ asked' = <<ResolveClientID(flag, "")>>
                      /\ \/ \E profile \in Profiles : account' = <<profile>>
                                                      /\ auth' = "ok"
                         \/ auth' = "failed" /\ UNCHANGED account

\* SignIn with the client id; SignIn.tla says how it may end.
SignInAccount == /\ asked' = <<ResolveClientID(flag, file.auth.clientID)>>
                 /\ \/ \E profile \in Profiles : account' = <<profile>>
                                                 /\ auth' = "ok"
                    \/ auth' = "failed" /\ UNCHANGED account

\* resolveAccount, in its goroutine.
ResolveAccount ==
    /\ phase \in Installing
    /\ auth = "idle"
    /\ \/ /\ file.auth.mode = "offline"
          /\ account' = <<OfflineAccount(file.auth.offlineUsername)>>
          /\ auth' = "ok"
          /\ UNCHANGED asked
       \/ file.auth.mode = "microsoft" /\ SignInAccount
    /\ UNCHANGED <<phase, inputs, loaded, built>>

\* phantomd -signin-test: there is no manifest, and a missing client id is
\* told before anything is asked.
SignInOnly == /\ phase = "signin-test"
              /\ phase' = "ended"
              /\ asked' = IF ResolveClientID(flag, "") = "" THEN <<>>
                          ELSE <<ResolveClientID(flag, "")>>
              /\ UNCHANGED <<inputs, loaded, auth, account, built>>

-----------------------------------------------------------------------------
(* The installation.                                                       *)

\* Mutation: the client jar is put where its version id says.
FetchSetByID(d) ==
    {artifact.path : artifact \in ToSet(SelectLibraries(d, LinuxAMD64))}
        \cup {JarOf[d.id]}

\* The destinations of fetchClientAndLibraries.
FetchSet(d) ==
    {artifact.path : artifact \in ToSet(SelectLibraries(d, LinuxAMD64))}
        \cup {ClientJarPath(d.id, d.client[1])}

\* Mojang lists the version, its document decodes and names a client, and every
\* file is fetched.  The document's own id goes by what the document says.
Install == /\ phase = "install"
           /\ file.version \in DOMAIN Published
           /\ \E d \in Published[file.version] :
                /\ Decodes(d.jvm) /\ Decodes(d.game)
                /\ d.client # <<>>
                /\ doc' = <<d>>
                /\ installed' = FetchSet(d)
           /\ phase' = "resolve"
           /\ UNCHANGED <<inputs, loaded, signedIn, spec, java, command>>

\* There is no such version or client, or something was not fetched.
InstallFails == /\ phase = "install"
                /\ phase' = "failed"
                /\ UNCHANGED <<inputs, loaded, signedIn, built>>

\* Version.Resolve, which refuses a document without a main class.
ResolveSpec == /\ phase = "resolve"
               /\ IF doc[1].mainClass = ""
                  THEN phase' = "failed" /\ UNCHANGED spec
                  ELSE /\ phase' = "runtime"
                       /\ spec' = <<Resolve(doc[1], LinuxAMD64)>>
               /\ UNCHANGED <<inputs, loaded, signedIn, doc, installed, java,
                              command>>

\* Mutation: any number will do.
IsNumbered(name) == Len(name) > 1 /\ name[1] = "java" /\ name[2] \in DOMAIN Atoi

\* A directory's name is its pieces between the hyphens: java-21-openjdk-amd64
\* is of major 21, java-1.21.0-openjdk-amd64 of none.
IsRuntimeName(name) == /\ Len(name) > 1
                       /\ name[1] = "java"
                       /\ name[2] \in DOMAIN Atoi
                       /\ Atoi[name[2]] > 0

FindRuntimes(root) ==
    {[major |-> Atoi[entry.name[2]], path |-> entry.name] :
        entry \in {e \in root : IsRuntimeName(e.name) /\ e.java = "file"}}

\* Mutation: a newer runtime will do.
SelectRuntimeAtLeast ==
    /\ phase = "runtime"
    /\ \/ \E root \in Roots : \E rt \in FindRuntimes(root) :
            rt.major >= doc[1].major /\ java' = <<rt>> /\ phase' = "join"
       \/ phase' = "failed" /\ UNCHANGED java
    /\ UNCHANGED <<inputs, loaded, signedIn, doc, installed, spec, command>>

\* The first of the major the version names, whichever the sort puts first;
\* no such runtime, or no such directory, ends the run.
SelectRuntime ==
    /\ phase = "runtime"
    /\ \/ \E root \in Roots : \E rt \in FindRuntimes(root) :
            rt.major = doc[1].major /\ java' = <<rt>> /\ phase' = "join"
       \/ phase' = "failed" /\ UNCHANGED java
    /\ UNCHANGED <<inputs, loaded, signedIn, doc, installed, spec, command>>

-----------------------------------------------------------------------------
(* The command line.                                                       *)

\* What each placeholder stands for; directories are their layout's names.
Placeholders(s, who) ==
    [auth_player_name |-> <<who.name>>, auth_uuid |-> <<who.uuid>>,
     auth_access_token |-> <<who.token>>, user_type |-> <<who.userType>>,
     clientid |-> <<>>, auth_xuid |-> <<>>,
     version_name |-> <<doc[1].id>>, classpath |-> s.classpath,
     game_directory |-> <<"minecraft">>, assets_root |-> <<"assets">>,
     natives_directory |-> <<"libraries">>,
     library_directory |-> <<"libraries">>,
     launcher_name |-> <<"phantommc">>]

\* Mutation: the heap is set after the manifest's own arguments.
CommandHeapLast(s, m, who) ==
    SubstituteAll(s.jvm, Placeholders(s, who)) \o m.args
      \o << <<"-Xmx", ToString(m.heapMB)>>, <<s.mainClass>> >>
      \o SubstituteAll(s.game, Placeholders(s, who))

\* Launcher.Command.
Command(s, m, who) ==
    SubstituteAll(s.jvm, Placeholders(s, who))
      \o << <<"-Xmx", ToString(m.heapMB)>> >> \o m.args \o << <<s.mainClass>> >>
      \o SubstituteAll(s.game, Placeholders(s, who))

\* Launch receives the sign in's result and starts the game, or ends.
JoinSignIn == /\ phase = "join"
              /\ \/ /\ auth = "ok"
                    /\ phase' = "running"
                    /\ command' = Command(spec[1], file, account[1])
                 \/ /\ auth = "failed"
                    /\ phase' = "failed"
                    /\ UNCHANGED command
              /\ UNCHANGED <<inputs, loaded, signedIn, doc, installed, spec, java>>

\* The game runs, the agent has returned an error, or there was none to run.
Finished == phase \in {"running", "failed", "ended"} /\ UNCHANGED vars

Next == \/ Load \/ LoadFails \/ BuildPlan
        \/ ResolveAccount \/ SignInOnly
        \/ Install \/ InstallFails \/ ResolveSpec \/ SelectRuntime
        \/ JoinSignIn
        \/ Finished

Spec == Init /\ [][Next]_vars

-----------------------------------------------------------------------------
(* Invariants.                                                             *)

\* The shape of the state; a runtime's major is positive.
TypeOK ==
    /\ phase \in {"signin-test", "load", "plan", "running", "failed", "ended"}
                 \cup Installing
    /\ [flag |-> flag, env |-> env, file |-> file, now |-> loadedAt] \in Inputs
    /\ errors \in {{}, Validate(file, loadedAt)}
    /\ plan \in {<<>>, <<PlanOf(file)>>}
    /\ auth \in {"idle", "ok", "failed"}
    /\ asked \in Seq(STRING)
    /\ account \in {<<>>} \cup
          {<<who>> : who \in Profiles \cup {OfflineAccount(name) : name \in WellFormed}}
    /\ doc \in Seq(Documents)
    /\ java \in Seq([major : Nat \ {0}, path : Seq(STRING)])

\* What Validate lets through can be carried out: no two downloads of a plan
\* go to one file, and none goes where the person is asked to put one
\* (validate.go:152, the map of the names seen).
OneFilePerDestination ==
    \A k \in DOMAIN plan :
        LET downloads == plan[k].downloads
        IN  \A i \in DOMAIN downloads :
                /\ downloads[i] \notin plan[k].manual
                /\ \A j \in DOMAIN downloads : downloads[i] = downloads[j] => i = j

\* An accepted manifest gives its sign in what it needs.  With microsoft that is
\* a client id: the flag's, without one the environment's, and the manifest's own
\* only when neither has one (clientid.go:22-25).  Offline it is a name and an
\* entitlement that has a signature, which no code verifies, and that had not
\* expired when the manifest was read (manifest.go:136-141).
\* A device code is never asked for without a client id, so what SignIn says
\* of a missing one (signin.go:17) is never read in a run with a manifest, and
\* never by a run whose plan said that it needed no account or no network.
AcceptedCanSignIn ==
    /\ asked # <<>> =>
          /\ asked[1] # ""
          /\ ~Blank(flag) => asked[1] = TrimSpace(flag)
          /\ Blank(flag) /\ ~Blank(env) => asked[1] = TrimSpace(env)
          /\ Blank(flag) /\ Blank(env) => asked[1] = TrimSpace(file.auth.clientID)
          /\ \A k \in DOMAIN plan : plan[k].needsAuth /\ plan[k].needsNetwork
    /\ auth = "ok" /\ file.auth.mode = "offline" =>
          /\ account[1].name \in WellFormed
          /\ \E i \in DOMAIN file.auth.entitlement :
                /\ file.auth.entitlement[i].signature # ""
                /\ loadedAt < file.auth.entitlement[i].expiresAt

\* Version.Resolve and fetchClientAndLibraries each select the libraries and
\* name the client jar: the classpath is what was fetched, no file less or
\* more, the client last.
ClasspathIsInstalled ==
    spec # <<>> => /\ ToSet(spec[1].classpath) = installed
                   /\ Last(spec[1].classpath) = ClientJarPath(doc[1].id, doc[1].client[1])

\* The last rule that matches decides of a library, and deny is the default
\* (rules.go:35-37).
LastMatchDecides ==
    doc # <<>> =>
        LET Wanted == {i \in DOMAIN doc[1].libraries :
                        LastMatchWins(LinuxAMD64, doc[1].libraries[i].rules)}
        IN  installed = {ClientJarPath(doc[1].id, doc[1].client[1])}
                          \cup UNION {{doc[1].libraries[i].artifact[k].path :
                                       k \in DOMAIN doc[1].libraries[i].artifact} :
                                         i \in Wanted}

\* arg has the player's identity in the places of text, in their order.
Identifies(arg, text, who) ==
    LET Identity == [auth_uuid |-> who.uuid, auth_player_name |-> who.name]
        Places == {i \in DOMAIN text : text[i] \in DOMAIN Identity}
    IN  \E at \in [Places -> DOMAIN arg] :
            /\ \A i \in Places : arg[at[i]] = Identity[text[i]]
            /\ \A i, j \in Places : i < j => at[i] < at[j]

\* Where the arguments of java are that were templates.
FromTemplates ==
    1..Len(spec[1].jvm)
        \cup (Len(command) - Len(spec[1].game) + 1)..Len(command)

\* Every template that applies reaches the game with the identity of who signed
\* in, and no template reaches java unfilled, but for what a value itself may
\* bring in: the uuid is not replaced before it is known (mojang/launch.go:
\* 54-57), nor left for the jvm to trip over (agent/launch.go:87-89).
TemplatesAreFilled ==
    phase = "running" =>
        /\ \A k \in DOMAIN doc[1].game :
             LastMatchWins(LinuxAMD64, DecodeArgument(doc[1].game[k]).rules) =>
                \A text \in ToSet(doc[1].game[k].texts) :
                    "auth_uuid" \in ToSet(text) =>
                        \E arg \in ToSet(command) : Identifies(arg, text, account[1])
        /\ LET values == Placeholders(spec[1], account[1])
           IN  \A i \in FromTemplates :
                 ToSet(command[i]) \cap DOMAIN values
                     \subseteq UNION {ToSet(values[name]) : name \in DOMAIN values}

\* An option set more than once has its last value.
Setting(args, option) ==
    args[Max({i \in DOMAIN args : args[i] # <<>> /\ args[i][1] = option})]

\* What java reads before the main class.
JVMPart == SubSeq(command, 1, Len(command) - Len(spec[1].game) - 1)

\* Anything from the manifest can override the arguments Mojang and the agent
\* give the jvm (agent/launch.go:67-68).
ManifestArgsOverride ==
    phase = "running" =>
        \A i \in DOMAIN file.args : file.args[i] # <<>> =>
            Setting(JVMPart, file.args[i][1]) = Setting(file.args, file.args[i][1])

\* The game runs on the major the version document names, whatever the
\* manifest says and the directory is called (java.go:46-49); a document that
\* names none starts no game, whatever directories there are.
RuntimeIsTheVersionsOwn ==
    phase = "running" => /\ doc[1].major > 0
                         /\ java[1].major = doc[1].major
                         /\ Atoi[java[1].path[2]] = doc[1].major

-----------------------------------------------------------------------------
(* The inductive invariant behind what is proved of them.                  *)

\* A run goes beyond Load only with a manifest that passed, and the sign in
\* and the plan are of such a run.
Accepted ==
    \/ phase \in {"plan", "running"} \cup Installing
    \/ auth # "idle"
    \/ plan # <<>>
    => Validate(file, loadedAt) = {}

\* What each stage has when it begins.
StageHas ==
    /\ phase \in Installing \cup {"running"} => plan # <<>>
    /\ phase \in {"load", "signin-test", "plan"} =>
          plan = <<>> /\ auth = "idle" /\ asked = <<>>
    /\ auth = "ok" => Len(account) = 1
    /\ phase \in {"resolve", "runtime", "join", "running"} => Len(doc) = 1
    /\ phase \in {"join", "running"} =>
          /\ Len(java) = 1
          /\ IsRuntimeName(java[1].path)
          /\ java[1].major = doc[1].major
          /\ java[1].major = Atoi[java[1].path[2]]

\* What each stage makes, and of what.
MadeOf ==
    /\ doc # <<>> => /\ doc[1] \in Documents
                     /\ Decodes(doc[1].game)
                     /\ installed = FetchSet(doc[1])
    /\ phase \in {"signin-test", "load", "plan", "install", "resolve"} => spec = <<>>
    /\ spec # <<>> => doc # <<>> /\ spec = <<Resolve(doc[1], LinuxAMD64)>>
    /\ phase \in {"runtime", "join", "running"} => spec # <<>>
    /\ phase = "running" => /\ auth = "ok"
                            /\ command = Command(spec[1], file, account[1])

IInv == TypeOK /\ AcceptedCanSignIn /\ Accepted /\ StageHas /\ MadeOf
=============================================================================
