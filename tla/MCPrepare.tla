----------------------------- MODULE MCPrepare -----------------------------
(***************************************************************************)
(* A good manifest and a good version document, and what they become when  *)
(* one part at a time takes every value of a small set.                    *)
(***************************************************************************)
EXTENDS Prepare

MCTrimmed == " " :> "" @@ " app " :> "app"
MCWellFormed == {"pack", "Steve", "a.jar", "b.jar", "digest", "https", "host"}
MCMatchesEmpty == {".*"}
MCFeatures == {"is_demo_user"}
MCJarOf == "1.21" :> "client-1.21.jar" @@ "1.16" :> "client-1.16.jar"
MCAtoi == "21" :> 21 @@ "25" :> 25 @@ "0" :> 0
MCOfflineUUID == [name \in MCWellFormed |-> "uuid-offline"]
MCProfiles == {[name |-> "Alex", uuid |-> "uuid-Alex", token |-> "token",
                userType |-> "msa"]}

-----------------------------------------------------------------------------
Mod == [source |-> "modrinth", filename |-> "a.jar", manual |-> FALSE,
        url |-> "https", size |-> 1, sha512 |-> "digest"]
Manual == [Mod EXCEPT !.manual = TRUE, !.url = ""]
Base == [schemaVersion |-> 1, id |-> "pack", name |-> "Pack", version |-> "1.21",
         loader |-> [kind |-> "fabric", version |-> "0.16"], major |-> 25,
         vendor |-> "auto", heapMB |-> 512, args |-> << <<"-Xss", "2M">> >>,
         auth |-> [mode |-> "microsoft", offlineUsername |-> "",
                   clientID |-> "app", entitlement |-> <<>>],
         mods |-> <<Mod>>, servers |-> <<[name |-> "Home", address |-> "host"]>>]

\* The old version has a single document, the new one many.
Old == [Base EXCEPT !.version = "1.16"]

Entitlement(t) == [signature |-> "signed", expiresAt |-> t]

\* Every combination of mode, name, client id and entitlement.
AuthVariants ==
    {[Old EXCEPT !.auth = a] :
        a \in [mode : {"microsoft", "offline", ""},
               offlineUsername : {"", "Steve"},
               clientID : {"", " ", "app", " app "},
               entitlement : {<<>>, <<Entitlement(1)>>, <<Entitlement(2)>>,
                              <<[Entitlement(2) EXCEPT !.signature = ""]>>}]}

ModChoices == {Mod, Manual, [Mod EXCEPT !.filename = "b.jar"],
               [Manual EXCEPT !.filename = "b.jar"]}
BadMods == {[Mod EXCEPT !.filename = "../a.jar"], [Mod EXCEPT !.url = "http"],
            [Mod EXCEPT !.size = 0], [Mod EXCEPT !.sha512 = ""],
            [Mod EXCEPT !.manual = TRUE], [Mod EXCEPT !.source = "ftp"]}
ModLists == [1..2 -> ModChoices] \cup [1..3 -> ModChoices]
              \cup [1..1 -> ModChoices \cup BadMods] \cup {<<>>}
ModVariants == {[Old EXCEPT !.mods = mods] : mods \in ModLists}

Vanilla(version, mods) ==
    [Base EXCEPT !.loader = [kind |-> "vanilla", version |-> version], !.mods = mods]
Server(name, address) == <<[name |-> name, address |-> address]>>
OtherVariants ==
    {[Base EXCEPT !.schemaVersion = 2], [Base EXCEPT !.id = ""],
     [Base EXCEPT !.name = " "], [Base EXCEPT !.version = ""],
     [Base EXCEPT !.version = "none"],
     [Base EXCEPT !.major = 7], [Base EXCEPT !.heapMB = 511],
     [Base EXCEPT !.vendor = ""], [Base EXCEPT !.loader.version = ""],
     [Base EXCEPT !.loader.kind = ""], Vanilla("", <<>>), Vanilla("", <<Mod>>),
     Vanilla("1", <<>>), [Base EXCEPT !.servers = Server(" ", "host")],
     [Base EXCEPT !.servers = Server("Home", "")],
     [Base EXCEPT !.args = <<>>], [Base EXCEPT !.args = << <<"-Xmx", "1G">> >>]}

MCInputs == [flag : {"", " ", "flag"}, env : {"", " ", "env"},
             file : AuthVariants, now : 0..2]
              \cup [flag : {""}, env : {""}, file : ModVariants \cup OtherVariants,
                    now : {0}]

-----------------------------------------------------------------------------
OS(name, arch, version) == <<[name |-> name, arch |-> arch, version |-> version]>>
Rule(action, os, features) == [action |-> action, os |-> os, features |-> features]
RuleChoices ==
    {Rule("allow", <<>>, <<>>), Rule("disallow", <<>>, <<>>),
     Rule("allow", OS("linux", "", ""), <<>>),
     Rule("disallow", OS("linux", "x86_64", ""), <<>>),
     Rule("allow", OS("osx", "", ""), <<>>),
     Rule("disallow", OS("", "x86", ""), <<>>),
     Rule("allow", OS("", "", ".*"), <<>>), Rule("disallow", OS("", "", "10"), <<>>),
     Rule("allow", <<>>, "is_demo_user" :> TRUE),
     Rule("disallow", <<>>, "is_demo_user" :> FALSE)}
RuleLists == {<<>>} \cup [1..1 -> RuleChoices] \cup [1..2 -> RuleChoices]

Library(path, rules) == [artifact |-> <<[path |-> path]>>, rules |-> rules]
Argument(shape, rules, texts) == [shape |-> shape, rules |-> rules, texts |-> texts]
Doc == [id |-> "1.21", mainClass |-> "Main", major |-> 21,
        client |-> <<[path |-> ""]>>,
        libraries |-> <<Library("lwjgl", <<>>)>>,
        jvm |-> <<Argument("string", <<>>, << <<"-cp", "classpath">> >>),
                  Argument("one", <<Rule("allow", OS("linux", "", ""), <<>>)>>,
                           << <<"-Xss", "1M">> >>)>>,
        game |-> <<Argument("string", <<>>, << <<"auth_uuid">> >>),
                   Argument("many", <<>>, << <<"--name">>, <<"auth_player_name">> >>)>>]

NewDocuments ==
    {[Doc EXCEPT !.libraries = @ \o <<Library("jna", rules)>>] : rules \in RuleLists}
    \cup {[Doc EXCEPT !.game = @ \o <<Argument(shape, rules, << <<"clientid", "auth_player_name", "--id=", "auth_uuid">> >>)>>] :
            shape \in {"one", "other"}, rules \in [1..1 -> RuleChoices]}
    \cup {Doc, [Doc EXCEPT !.major = 0], [Doc EXCEPT !.major = 25],
          [Doc EXCEPT !.id = "1.16"],
          [Doc EXCEPT !.mainClass = ""], [Doc EXCEPT !.client = <<>>],
          [Doc EXCEPT !.client = <<[path |-> "own.jar"]>>],
          [Doc EXCEPT !.libraries = @ \o <<[artifact |-> <<>>, rules |-> <<>>]>>]}
\* One of the new version's documents has the other version's id.
MCPublished == "1.21" :> NewDocuments @@ "1.16" :> {[Doc EXCEPT !.id = "1.16"]}

Entry(name, kind) == [name |-> name, java |-> kind]
MCRoots == {{}, {Entry(<<"java", "21", "openjdk", "amd64">>, "file"),
                 Entry(<<"java", "25", "openjdk", "amd64">>, "file"),
                 Entry(<<"java", "1.21.0", "openjdk", "amd64">>, "file"),
                 Entry(<<"default", "java">>, "file"), Entry(<<"java", "0">>, "file")},
            {Entry(<<"java", "21", "openjdk", "amd64">>, "directory"),
             Entry(<<"java", "25", "openjdk", "amd64">>, "file")}}
=============================================================================
