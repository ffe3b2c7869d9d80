------------------------------ MODULE Manifest ------------------------------
(***************************************************************************)
(* The build manifest (src/internal/manifest): its records, and Validate,  *)
(* which every manifest passes before anything else looks at it.  A text   *)
(* that has to match a pattern is in WellFormed or not; an optional value  *)
(* is a sequence of at most one.                                           *)
(***************************************************************************)
EXTENDS Integers, Sequences

CONSTANTS
    WellFormed, \* the texts that match the pattern of the field they are in:
                \* an id, a username, a bare .jar name, a digest, an https url
    Trimmed     \* Trimmed[s] is s without the white space around it, for each
                \* text s that has any

ASSUME TextAssumption ==
    /\ "" \notin WellFormed \cup DOMAIN Trimmed
    /\ \A s \in DOMAIN Trimmed : Trimmed[s] \in STRING \ DOMAIN Trimmed

TrimSpace(s) == IF s \in DOMAIN Trimmed THEN Trimmed[s] ELSE s
Blank(s) == TrimSpace(s) = ""

-----------------------------------------------------------------------------
Entitlements == [signature : STRING, expiresAt : Int]
Auths == [mode : STRING, offlineUsername : STRING, clientID : STRING,
          entitlement : Seq(Entitlements)]
Mods == [source : STRING, filename : STRING, manual : BOOLEAN, url : STRING,
         size : Int, sha512 : STRING]
Servers == [name : STRING, address : STRING]
Manifests == [schemaVersion : Int, id : STRING, name : STRING,
              version : STRING, loader : [kind : STRING, version : STRING],
              major : Int, vendor : STRING, heapMB : Int,
              args : Seq(Seq(STRING)), auth : Auths, mods : Seq(Mods),
              servers : Seq(Servers)]

SchemaVersion == 1
Sources == {"modrinth", "curseforge", "direct"}
Vendors == {"auto", "amd", "intel", "nvidia"}
ModLoaders == {"fabric", "quilt", "forge", "neoforge"}

-----------------------------------------------------------------------------
(* Validation collects the fields it objects to; none is an acceptance.    *)

Fault(broken, field) == IF broken THEN {field} ELSE {}

\* Mutation: a nil entitlement passes.
ValidIfAny(entitlement, now) ==
    \A i \in DOMAIN entitlement : /\ entitlement[i].signature # ""
                                  /\ now < entitlement[i].expiresAt

\* Entitlement.Valid: a nil one is not.
Valid(entitlement, now) ==
    \E i \in DOMAIN entitlement : /\ entitlement[i].signature # ""
                                  /\ now < entitlement[i].expiresAt

AuthFaults(a, now) ==
    CASE a.mode = "microsoft" ->
            Fault(a.offlineUsername # "", "auth.offlineUsername")
                \cup Fault(Blank(a.clientID), "auth.clientId")
      [] a.mode = "offline" ->
            Fault(a.clientID # "", "auth.clientId")
                \cup Fault(a.offlineUsername \notin WellFormed,
                           "auth.offlineUsername")
                \cup Fault(~Valid(a.entitlement, now), "auth.entitlement")
      [] OTHER -> {"auth.mode"}

ArtifactFaults(mod) ==
    Fault(mod.sha512 \notin WellFormed, "artifact.sha512")
        \cup Fault(mod.size <= 0, "artifact.size")
        \cup Fault(IF mod.manual THEN mod.url # "" ELSE mod.url \notin WellFormed,
                   "artifact.url")

\* Mutation: only neighbours are compared.
DuplicateOfLast(mods, i) == i > 1 /\ mods[i - 1].filename = mods[i].filename

\* The map of the names seen so far.
Duplicate(mods, i) == \E j \in 1..(i - 1) : mods[j].filename = mods[i].filename

ModFaults(mods) ==
    UNION {Fault(mods[i].source \notin Sources, "mods.source")
             \cup Fault(mods[i].filename \notin WellFormed, "mods.filename")
             \cup Fault(Duplicate(mods, i), "mods.filename")
             \cup ArtifactFaults(mods[i]) : i \in DOMAIN mods}

\* An address with a blank inside is as good as none.
ServerFaults(servers) ==
    UNION {Fault(Blank(servers[i].name), "servers.name")
             \cup Fault(servers[i].address \notin WellFormed, "servers.address")
             : i \in DOMAIN servers}

LoaderFaults(loader, mods) ==
    CASE loader.kind = "vanilla" -> Fault(loader.version # "", "loader.version")
                                      \cup Fault(mods # <<>>, "mods")
      [] loader.kind \in ModLoaders -> Fault(loader.version = "", "loader.version")
      [] OTHER -> {"loader.kind"}

Validate(m, now) ==
    Fault(m.schemaVersion # SchemaVersion, "schemaVersion")
        \cup Fault(m.id \notin WellFormed, "id")
        \cup Fault(Blank(m.name), "name")
        \cup Fault(Blank(m.version), "minecraft.version")
        \cup LoaderFaults(m.loader, m.mods)
        \cup Fault(m.major < 8, "java.major")
        \cup Fault(m.heapMB < 512, "jvm.heapMB")
        \cup Fault(m.vendor \notin Vendors, "graphics.vendor")
        \cup AuthFaults(m.auth, now)
        \cup ModFaults(m.mods)
        \cup ServerFaults(m.servers)

\* What the plan prints; no other code asks.
RequiresNetwork(m) == m.mods # <<>> \/ m.auth.mode = "microsoft"
=============================================================================
