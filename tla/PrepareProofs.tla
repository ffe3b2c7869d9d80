--------------------------- MODULE PrepareProofs ---------------------------
(***************************************************************************)
(* Proofs about Prepare.tla, for any manifests, version documents,         *)
(* directories of runtimes and accounts.                                   *)
(***************************************************************************)
EXTENDS Prepare, Induction

USE DEF inputs, loaded, signedIn, built, Installing

-----------------------------------------------------------------------------
LEMMA Singleton == ASSUME NEW S, NEW x \in S PROVE <<x>> \in Seq(S)
  OBVIOUS

LEMMA Empty == ASSUME NEW S PROVE <<>> \in Seq(S)
  OBVIOUS

(* What the validation ensures.                                            *)

LEMMA AcceptedAuth ==
  ASSUME NEW m, NEW now, Validate(m, now) = {}
  PROVE  /\ m.auth.mode \in {"microsoft", "offline"}
         /\ m.auth.mode = "microsoft" => ~Blank(m.auth.clientID)
         /\ m.auth.mode = "offline" => /\ m.auth.offlineUsername \in WellFormed
                                       /\ Valid(m.auth.entitlement, now)
  <1>1. AuthFaults(m.auth, now) = {}
    BY DEF Validate
  <1>2. m.auth.mode \in {"microsoft", "offline"}
    BY <1>1 DEF AuthFaults
  <1>3. CASE m.auth.mode = "microsoft"
    <2>1. Fault(Blank(m.auth.clientID), "auth.clientId") = {}
      BY <1>1, <1>3 DEF AuthFaults
    <2> QED
      BY <1>3, <2>1 DEF Fault
  <1>4. CASE m.auth.mode = "offline"
    <2>1. /\ Fault(m.auth.offlineUsername \notin WellFormed,
                   "auth.offlineUsername") = {}
          /\ Fault(~Valid(m.auth.entitlement, now), "auth.entitlement") = {}
      BY <1>1, <1>4 DEF AuthFaults
    <2> QED
      BY <1>4, <2>1 DEF Fault
  <1> QED
    BY <1>2, <1>3, <1>4

LEMMA AcceptedMods ==
  ASSUME NEW m, NEW now, Validate(m, now) = {}
  PROVE  \A i \in DOMAIN m.mods : ~Duplicate(m.mods, i)
  <1> SUFFICES ASSUME NEW i \in DOMAIN m.mods PROVE ~Duplicate(m.mods, i)
    OBVIOUS
  <1>1. ModFaults(m.mods) \subseteq Validate(m, now)
    BY DEF Validate
  <1>2. Fault(Duplicate(m.mods, i), "mods.filename") \subseteq ModFaults(m.mods)
    BY DEF ModFaults
  <1> QED
    BY <1>1, <1>2 DEF Fault

(* The client id is the first of the three that is not blank.              *)
LEMMA ResolvedClientID ==
  ASSUME flag \in STRING, env \in STRING, NEW value
  PROVE  /\ value \in STRING => ResolveClientID(flag, value) \in STRING
         /\ ~Blank(flag) => ResolveClientID(flag, value) = TrimSpace(flag)
         /\ Blank(flag) /\ ~Blank(env) => ResolveClientID(flag, value) = TrimSpace(env)
         /\ Blank(flag) /\ Blank(env) => ResolveClientID(flag, value) = TrimSpace(value)
         /\ TrimSpace(value) # "" => ResolveClientID(flag, value) # ""
  <1>1. \A s \in STRING : TrimSpace(s) \in STRING
    BY TextAssumption DEF TrimSpace
  <1> QED
    BY <1>1 DEF ResolveClientID, Blank

-----------------------------------------------------------------------------
LEMMA InputFields ==
  ASSUME [flag |-> flag, env |-> env, file |-> file, now |-> loadedAt] \in Inputs
  PROVE  /\ flag \in STRING /\ env \in STRING /\ file \in Manifests
         /\ file.auth.clientID \in STRING /\ file.auth.offlineUsername \in STRING
  <1>1. flag \in STRING /\ env \in STRING /\ file \in Manifests
    BY InputAssumption
  <1> QED
    BY <1>1 DEF Manifests, Auths

LEMMA InitEstablishes == Init => IInv
  <1> SUFFICES ASSUME Init PROVE IInv
    OBVIOUS
  <1>1. TypeOK
    <2>1. PICK input \in Inputs : /\ flag = input.flag
                                  /\ env = input.env
                                  /\ file = input.file
                                  /\ loadedAt = input.now
      BY DEF Init
    <2>2. input = [flag |-> flag, env |-> env, file |-> file, now |-> loadedAt]
      BY <2>1, InputAssumption
    <2> QED
      BY <2>1, <2>2 DEF Init, TypeOK
  <1>2. AcceptedCanSignIn /\ Accepted /\ StageHas /\ MadeOf
    BY DEF Init, AcceptedCanSignIn, Accepted, StageHas, MadeOf
  <1> QED
    BY <1>1, <1>2 DEF IInv

(* The stages before the command line is made, and the end of a run that   *)
(* failed, leave what is made as it is.                                    *)
LEMMA MadeStays ==
  ASSUME MadeOf, UNCHANGED built, phase # "running",
         phase' \in {phase, "failed", "ended"}
           \/ (phase = "load" /\ phase' = "plan")
           \/ (phase = "plan" /\ phase' = "install")
           \/ (phase = "runtime" /\ phase' = "join")
  PROVE  MadeOf'
  BY DEF MadeOf

LEMMA ResolveAccountKeeps ==
  ASSUME IInv, ResolveAccount
  PROVE  IInv'
  <1>1. Validate(file, loadedAt) = {} /\ plan = <<PlanOf(file)>>
    BY DEF ResolveAccount, IInv, TypeOK, Accepted, StageHas
  <1>2. /\ flag \in STRING /\ env \in STRING
        /\ file.auth.clientID \in STRING /\ file.auth.offlineUsername \in STRING
    BY InputFields DEF IInv, TypeOK
  <1>3. Accepted' /\ MadeOf'
    BY <1>1, MadeStays DEF ResolveAccount, Accepted, IInv
  <1>4. CASE file.auth.mode = "offline"
    <2>1. /\ account' = <<OfflineAccount(file.auth.offlineUsername)>>
          /\ auth' = "ok" /\ asked' = asked
      BY <1>4 DEF ResolveAccount
    <2>2. /\ file.auth.offlineUsername \in WellFormed
          /\ Valid(file.auth.entitlement, loadedAt)
      BY <1>1, <1>4, AcceptedAuth
    <2>3. TypeOK'
      BY <2>1, <2>2 DEF ResolveAccount, IInv, TypeOK, OfflineAccount
    <2>4. AcceptedCanSignIn'
      BY <2>1, <2>2 DEF ResolveAccount, IInv, AcceptedCanSignIn, OfflineAccount, Valid
    <2>5. StageHas'
      BY <2>1 DEF ResolveAccount, IInv, StageHas
    <2> QED
      BY <1>3, <2>3, <2>4, <2>5 DEF IInv
  <1>5. CASE file.auth.mode = "microsoft"
    <2> DEFINE id == ResolveClientID(flag, file.auth.clientID)
    <2>1. /\ asked' = <<id>>
          /\ \/ auth' = "failed" /\ account' = account
             \/ auth' = "ok" /\ \E profile \in Profiles : account' = <<profile>>
      BY <1>5 DEF ResolveAccount, SignInAccount
    <2>2. TrimSpace(file.auth.clientID) # ""
      BY <1>1, <1>5, AcceptedAuth DEF Blank
    <2>3. /\ id \in STRING /\ id # ""
          /\ ~Blank(flag) => id = TrimSpace(flag)
          /\ Blank(flag) /\ ~Blank(env) => id = TrimSpace(env)
          /\ Blank(flag) /\ Blank(env) => id = TrimSpace(file.auth.clientID)
      BY <1>2, <2>2, ResolvedClientID
    <2> HIDE DEF id
    <2>4. PlanOf(file).needsAuth /\ PlanOf(file).needsNetwork
      BY <1>5 DEF PlanOf, RequiresNetwork
    <2>5. TypeOK'
      <3>1. asked' \in Seq(STRING)
        BY <2>1, <2>3, Singleton, Zenon
      <3>2. account' \in {<<>>} \cup
              {<<who>> : who \in Profiles \cup {OfflineAccount(name) : name \in WellFormed}}
        BY <2>1 DEF IInv, TypeOK
      <3> QED
        BY <2>1, <3>1, <3>2 DEF ResolveAccount, IInv, TypeOK, OfflineAccount
    <2>6. AcceptedCanSignIn'
      <3>1. asked'[1] = id /\ plan' = plan /\ \A k \in DOMAIN plan : plan[k] = PlanOf(file)
        BY <1>1, <2>1 DEF ResolveAccount
      <3>2. UNCHANGED inputs
        BY DEF ResolveAccount
      <3> QED
        BY <1>5, <2>3, <2>4, <3>1, <3>2 DEF inputs, AcceptedCanSignIn, Blank, TrimSpace
    <2>7. StageHas'
      BY <2>1 DEF ResolveAccount, IInv, StageHas
    <2> QED
      BY <1>3, <2>5, <2>6, <2>7 DEF IInv
  <1> QED
    BY <1>4, <1>5 DEF ResolveAccount

LEMMA SignInOnlyKeeps ==
  ASSUME IInv, SignInOnly
  PROVE  IInv'
  <1> DEFINE id == ResolveClientID(flag, "")
  <1>1. flag \in STRING /\ env \in STRING
    BY InputFields DEF IInv, TypeOK
  <1>2. TrimSpace("") = "" /\ TrimSpace(flag) \in STRING /\ TrimSpace(env) \in STRING
    BY <1>1, TextAssumption DEF TrimSpace
  <1>3. /\ ~Blank(flag) => id = TrimSpace(flag)
        /\ Blank(flag) /\ ~Blank(env) => id = TrimSpace(env)
        /\ Blank(flag) /\ Blank(env) => id = ""
    BY <1>1, <1>2, ResolvedClientID
  <1>4. plan' = <<>> /\ auth' = "idle" /\ UNCHANGED inputs
    BY DEF SignInOnly, IInv, StageHas
  <1>5. asked' = <<>> \/ (asked' = <<id>> /\ id # "")
    BY DEF SignInOnly
  <1> HIDE DEF id
  <1>6. TypeOK'
    <2>1. asked' \in Seq(STRING)
      <3>1. CASE asked' = <<>>
        BY <3>1, Empty, Zenon
      <3>2. CASE asked' = <<id>> /\ id # ""
        <4>1. id \in STRING
          BY <1>2, <1>3, <3>2
        <4> QED
          BY <3>2, <4>1, Singleton, Zenon
      <3> QED
        BY <1>5, <3>1, <3>2
    <2> QED
      BY <2>1 DEF SignInOnly, IInv, TypeOK
  <1>7. AcceptedCanSignIn'
    <2>1. CASE asked' = <<>>
      BY <1>4, <2>1 DEF AcceptedCanSignIn
    <2>2. CASE asked' = <<id>> /\ id # ""
      <3>1. asked'[1] = id
        BY <2>2
      <3>2. flag' = flag /\ env' = env
        BY <1>4
      <3>3. ~Blank(flag') => id = TrimSpace(flag')
        BY <1>3, <3>2
      <3>4. /\ Blank(flag') /\ ~Blank(env') => id = TrimSpace(env')
            /\ ~(Blank(flag') /\ Blank(env'))
        BY <1>3, <2>2, <3>2
      <3>5. \A k \in DOMAIN plan' : plan'[k].needsAuth /\ plan'[k].needsNetwork
        BY <1>4
      <3>6. auth' # "ok"
        BY <1>4
      <3> QED
        BY <2>2, <3>1, <3>3, <3>4, <3>5, <3>6, Zenon DEF AcceptedCanSignIn
    <2> QED
      BY <1>5, <2>1, <2>2
  <1>8. Accepted' /\ StageHas' /\ MadeOf'
    BY <1>4, MadeStays DEF SignInOnly, IInv, Accepted, StageHas
  <1> QED
    BY <1>6, <1>7, <1>8 DEF IInv

(* No other action touches the sign in.                                    *)
LEMMA OthersKeepSignIn ==
  ASSUME AcceptedCanSignIn, UNCHANGED <<inputs, loadedAt, signedIn>>,
         plan' = plan \/ asked = <<>>
  PROVE  AcceptedCanSignIn'
  BY DEF AcceptedCanSignIn, Blank, TrimSpace

LEMMA SelectRuntimeKeeps ==
  ASSUME IInv, SelectRuntime
  PROVE  IInv'
  <1>1. AcceptedCanSignIn'
    BY OthersKeepSignIn DEF IInv, SelectRuntime
  <1>2. Accepted' /\ MadeOf'
    <2>1. Accepted'
      BY DEF IInv, SelectRuntime, Accepted
    <2>2. MadeOf'
      BY DEF IInv, SelectRuntime, MadeOf
    <2> QED
      BY <2>1, <2>2
  <1>3. CASE phase' = "failed" /\ UNCHANGED java
    <2>1. TypeOK' /\ StageHas'
      BY <1>3 DEF SelectRuntime, IInv, TypeOK, StageHas
    <2> QED
      BY <1>1, <1>2, <2>1 DEF IInv
  <1>4. ASSUME NEW root \in Roots, NEW rt \in FindRuntimes(root),
               rt.major = doc[1].major, java' = <<rt>>, phase' = "join"
        PROVE  IInv'
    <2>1. PICK entry \in root : /\ IsRuntimeName(entry.name)
                                /\ rt = [major |-> Atoi[entry.name[2]],
                                         path |-> entry.name]
      BY <1>4 DEF FindRuntimes
    <2>2. entry.name \in Seq(STRING)
      BY <1>4, <2>1, RootAssumption
    <2>3. rt.major \in Nat \ {0} /\ rt.major = Atoi[rt.path[2]]
      BY <2>1, <2>2, RootAssumption DEF IsRuntimeName
    <2>4. rt \in [major : Nat \ {0}, path : Seq(STRING)] /\ IsRuntimeName(rt.path)
      BY <2>1, <2>2, <2>3
    <2>5. TypeOK'
      BY <1>4, <2>4 DEF SelectRuntime, IInv, TypeOK
    <2>6. StageHas'
      BY <1>4, <2>3, <2>4 DEF SelectRuntime, IInv, StageHas
    <2> QED
      BY <1>1, <1>2, <2>5, <2>6 DEF IInv
  <1> QED
    BY <1>3, <1>4 DEF SelectRuntime

LEMMA NextKeeps == IInv /\ [Next]_vars => IInv'
  <1> SUFFICES ASSUME IInv, [Next]_vars PROVE IInv'
    OBVIOUS
  <1>1. CASE Load
    <2>1. TypeOK'
      BY <1>1 DEF Load, IInv, TypeOK
    <2>2. AcceptedCanSignIn'
      BY <1>1, OthersKeepSignIn DEF Load, IInv
    <2>3. Accepted' /\ StageHas' /\ MadeOf'
      BY <1>1, MadeStays DEF Load, IInv, Accepted, StageHas
    <2> QED
      BY <2>1, <2>2, <2>3 DEF IInv
  <1>2. CASE LoadFails \/ InstallFails
    <2>1. AcceptedCanSignIn'
      BY <1>2, OthersKeepSignIn DEF LoadFails, InstallFails, IInv
    <2>2. TypeOK' /\ Accepted' /\ StageHas'
      BY <1>2 DEF LoadFails, InstallFails, IInv, TypeOK, Accepted, StageHas
    <2>3. MadeOf'
      BY <1>2, MadeStays DEF LoadFails, InstallFails, IInv
    <2> QED
      BY <2>1, <2>2, <2>3 DEF IInv
  <1>3. CASE BuildPlan
    <2>1. TypeOK'
      BY <1>3 DEF BuildPlan, IInv, TypeOK
    <2>2. AcceptedCanSignIn'
      BY <1>3, OthersKeepSignIn DEF BuildPlan, IInv, StageHas
    <2>3. Accepted' /\ StageHas' /\ MadeOf'
      BY <1>3, MadeStays DEF BuildPlan, IInv, Accepted, StageHas
    <2> QED
      BY <2>1, <2>2, <2>3 DEF IInv
  <1>4. CASE Install
    <2>1. TypeOK'
      BY <1>4 DEF Install, IInv, TypeOK, Documents
    <2>2. AcceptedCanSignIn'
      BY <1>4, OthersKeepSignIn DEF Install, IInv
    <2>3. Accepted' /\ StageHas'
      BY <1>4 DEF Install, IInv, Accepted, StageHas
    <2>4. MadeOf'
      <3>1. PICK d \in Documents : /\ Decodes(d.game)
                                   /\ doc' = <<d>>
                                   /\ installed' = FetchSet(d)
        BY <1>4 DEF Install, Documents
      <3>2. phase' = "resolve" /\ spec' = <<>>
        BY <1>4 DEF Install, IInv, MadeOf
      <3> QED
        BY <3>1, <3>2 DEF MadeOf
    <2> QED
      BY <2>1, <2>2, <2>3, <2>4 DEF IInv
  <1>5. CASE ResolveSpec
    <2>1. AcceptedCanSignIn'
      BY <1>5, OthersKeepSignIn DEF ResolveSpec, IInv
    <2>2. TypeOK' /\ Accepted' /\ StageHas'
      BY <1>5 DEF ResolveSpec, IInv, TypeOK, Accepted, StageHas
    <2>3. doc # <<>>
      <3>1. Len(doc) = 1 /\ doc \in Seq(Documents)
        BY <1>5 DEF ResolveSpec, IInv, StageHas, TypeOK
      <3>2. doc = <<>> => Len(doc) = 0
        OBVIOUS
      <3> QED
        BY <3>1, <3>2
    <2>4. MadeOf'
      <3>1. CASE phase' = "failed" /\ UNCHANGED spec
        BY <1>5, <3>1, MadeStays DEF ResolveSpec, IInv
      <3>2. CASE phase' = "runtime" /\ spec' = <<Resolve(doc[1], LinuxAMD64)>>
        BY <1>5, <2>3, <3>2 DEF ResolveSpec, IInv, MadeOf
      <3> QED
        BY <1>5, <3>1, <3>2 DEF ResolveSpec
    <2> QED
      BY <2>1, <2>2, <2>4 DEF IInv
  <1>6. CASE JoinSignIn
    <2>1. AcceptedCanSignIn'
      BY <1>6, OthersKeepSignIn DEF JoinSignIn, IInv
    <2>2. TypeOK' /\ Accepted' /\ StageHas'
      BY <1>6 DEF JoinSignIn, IInv, TypeOK, Accepted, StageHas
    <2>3. MadeOf'
      BY <1>6 DEF JoinSignIn, IInv, MadeOf, Command, Placeholders
    <2> QED
      BY <2>1, <2>2, <2>3 DEF IInv
  <1>7. CASE Finished \/ UNCHANGED vars
    <2>1. UNCHANGED vars
      BY <1>7 DEF Finished
    <2>2. AcceptedCanSignIn'
      BY <2>1, OthersKeepSignIn DEF vars, IInv
    <2>3. TypeOK' /\ Accepted' /\ StageHas'
      BY <2>1 DEF vars, IInv, TypeOK, Accepted, StageHas
    <2>4. MadeOf'
      BY <2>1 DEF vars, IInv, MadeOf, Command, Placeholders
    <2> QED
      BY <2>2, <2>3, <2>4 DEF IInv
  <1> QED
    BY <1>1, <1>2, <1>3, <1>4, <1>5, <1>6, <1>7, ResolveAccountKeeps,
       SignInOnlyKeeps, SelectRuntimeKeeps DEF Next

-----------------------------------------------------------------------------
(* The rules, the libraries and the arguments of a version document.       *)

(* f is the variable of a loop that every index of hits sets, to whether   *)
(* it is one of good.                                                      *)
SetByHits(f, n, hits, good) ==
    /\ f[0] = FALSE
    /\ \A i \in 1..n : f[i] = IF i \in hits THEN i \in good ELSE f[i - 1]

(* The last index that hits is a good one.                                 *)
LastIsGood(m, hits, good) ==
    \E i \in 1..m : i \in hits /\ i \in good /\ \A j \in (i + 1)..m : j \notin hits

\* What is left in the variable is what the last hit set.
LEMMA LastHitDecides ==
  ASSUME NEW n \in Nat, NEW hits, NEW good, NEW f, SetByHits(f, n, hits, good)
  PROVE  f[n] <=> LastIsGood(n, hits, good)
  <1> DEFINE right == {m \in Nat : m <= n => (f[m] <=> LastIsGood(m, hits, good))}
  <1>1. 0 \in right
    BY DEF SetByHits, LastIsGood
  <1>2. ASSUME NEW m \in Nat, m \in right PROVE m + 1 \in right
    <2>1. SUFFICES ASSUME m + 1 <= n
                   PROVE  f[m + 1] <=> LastIsGood(m + 1, hits, good)
      OBVIOUS
    <2>2. f[m + 1] = IF m + 1 \in hits THEN m + 1 \in good ELSE f[m]
      <3>1. m + 1 \in 1..n /\ m + 1 - 1 = m
        BY <2>1
      <3> QED
        BY <3>1 DEF SetByHits
    <2>3. f[m] <=> LastIsGood(m, hits, good)
      BY <1>2, <2>1
    <2>4. CASE m + 1 \in hits
      <3>1. LastIsGood(m + 1, hits, good) <=> m + 1 \in good
        BY <2>4 DEF LastIsGood
      <3> QED
        BY <2>2, <2>4, <3>1
    <2>5. CASE m + 1 \notin hits
      <3>1. LastIsGood(m + 1, hits, good) <=> LastIsGood(m, hits, good)
        BY <2>5 DEF LastIsGood
      <3> QED
        BY <2>2, <2>3, <2>5, <3>1
    <2> QED
      BY <2>4, <2>5
  <1>3. Nat \subseteq right
    <2> HIDE DEF right
    <2> QED
      BY <1>1, <1>2, SetInduction
  <1> QED
    BY <1>3

\* Allows lets the last rule that matches decide, and deny is the default.
LEMMA AllowsIsLastMatch ==
  ASSUME NEW p, NEW rules \in Seq(Rules)
  PROVE  Allows(p, rules) <=> LastMatchWins(p, rules)
  <1> DEFINE n == Len(rules)
             hits == {i \in 1..n : Matches(p, rules[i])}
             good == {i \in 1..n : rules[i].action = "allow"}
             Body(f) == [i \in 0..n |->
                          CASE i = 0 -> FALSE
                            [] i > 0 /\ Matches(p, rules[i]) -> rules[i].action = "allow"
                            [] OTHER -> f[i - 1]]
             allowed == CHOOSE f : f = Body(f)
             step == [q \in BOOLEAN \X (1..n) |->
                        IF q[2] \in hits THEN q[2] \in good ELSE q[1]]
  <1>1. n \in Nat /\ DOMAIN rules = 1..n /\ (rules = <<>> <=> n = 0)
    OBVIOUS
  <1>2. Allows(p, rules) <=> rules = <<>> \/ allowed[n]
    BY Zenon DEF Allows
  <1>3. PICK f : Iterates(f, BOOLEAN, FALSE, n, step)
    <2>1. step \in [BOOLEAN \X (1..n) -> BOOLEAN]
      <3> HIDE DEF hits, good, n
      <3>1. ASSUME NEW q \in BOOLEAN \X (1..n)
            PROVE  (IF q[2] \in hits THEN q[2] \in good ELSE q[1]) \in BOOLEAN
        <4>1. q[1] \in BOOLEAN
          OBVIOUS
        <4>2. (q[2] \in good) \in BOOLEAN
          OBVIOUS
        <4> QED
          BY <4>1, <4>2, Zenon
      <3> QED
        BY <3>1, Zenon
    <2> HIDE DEF step, n
    <2> QED
      BY <1>1, <2>1, RecursionExists
  <1> HIDE DEF n
  <1>4. \A i \in 1..n : /\ i \in hits <=> Matches(p, rules[i])
                        /\ i \in good <=> rules[i].action = "allow"
    OBVIOUS
  <1> HIDE DEF hits, good
  <1>5. f = Body(f)
    <2>1. f \in [0..n -> BOOLEAN] /\ f[0] = FALSE
      BY <1>3 DEF Iterates
    <2>2. ASSUME NEW i \in 1..n
          PROVE  f[i] = IF i \in hits THEN i \in good ELSE f[i - 1]
      <3>1. f[i] = step[<<f[i - 1], i>>]
        BY <1>3 DEF Iterates
      <3>2. f[i - 1] \in BOOLEAN
        <4>1. i - 1 \in 0..n
          BY <1>1
        <4> QED
          BY <2>1, <4>1
      <3> QED
        BY <3>1, <3>2
    <2>3. ASSUME NEW i \in 0..n PROVE f[i] = Body(f)[i]
      <3>1. CASE i = 0
        <4>1. Body(f)[0] = FALSE
          <5>1. 0 \in 0..n
            BY <1>1
          <5> QED
            BY <5>1
        <4> QED
          BY <2>1, <3>1, <4>1, Zenon
      <3>2. CASE i # 0
        <4>1. i \in 1..n /\ i > 0
          BY <1>1, <3>2
        <4>2. f[i] = IF Matches(p, rules[i]) THEN rules[i].action = "allow" ELSE f[i - 1]
          <5>1. (i \in good) = (rules[i].action = "allow")
            BY <1>4, <4>1
          <5>2. f[i] = IF i \in hits THEN i \in good ELSE f[i - 1]
            BY <2>2, <4>1
          <5>3. i \in hits <=> Matches(p, rules[i])
            BY <1>4, <4>1
          <5> HIDE DEF Body
          <5> QED
            BY <5>1, <5>2, <5>3
        <4>3. Body(f)[i] = IF Matches(p, rules[i]) THEN rules[i].action = "allow" ELSE f[i - 1]
          BY <3>2, <4>1, Zenon
        <4> QED
          BY <4>2, <4>3
      <3> QED
        BY <3>1, <3>2
    <2> HIDE <2>2
    <2> QED
      BY <2>1, <2>3, Zenon
  <1>6. allowed = Body(allowed)
    <2> HIDE DEF Body
    <2> QED
      BY <1>5, Zenon
  <1> HIDE DEF allowed, step
  <1>7. SetByHits(allowed, n, hits, good)
    <2>1. allowed[0] = FALSE
      <3>1. 0 \in 0..n
        BY <1>1
      <3> QED
        BY <1>6, <3>1
    <2>2. ASSUME NEW i \in 1..n
          PROVE  allowed[i] = IF i \in hits THEN i \in good ELSE allowed[i - 1]
      <3>1. i \in 0..n /\ i # 0 /\ i > 0
        BY <1>1
      <3>2. allowed[i] = IF Matches(p, rules[i]) THEN rules[i].action = "allow"
                         ELSE allowed[i - 1]
        BY <1>6, <3>1, Zenon
      <3>3. (i \in good) = (rules[i].action = "allow")
        BY <1>4
      <3> QED
        BY <1>4, <3>2, <3>3
    <2> QED
      BY <2>1, <2>2 DEF SetByHits
  <1>8. allowed[n] <=> LastIsGood(n, hits, good)
    BY <1>1, <1>7, LastHitDecides
  <1>9. LastIsGood(n, hits, good)
          <=> \E i \in 1..n : /\ Matches(p, rules[i])
                              /\ rules[i].action = "allow"
                              /\ \A j \in (i + 1)..n : ~Matches(p, rules[j])
    <2>1. \A i \in 1..n : \A j \in (i + 1)..n : j \in 1..n
      BY <1>1
    <2> QED
      BY <1>4, <2>1, Zenon DEF LastIsGood
  <1> QED
    BY <1>1, <1>2, <1>8, <1>9, Zenon DEF LastMatchWins, n

\* The sequences from gives to those chosen, and none to the others.
Choice(n, chosen, from) == [i \in 1..n |-> IF i \in chosen THEN from[i] ELSE <<>>]

\* A choice of some of the sequences, flattened, is a sequence of what those
\* have.
LEMMA FlattenedChoice ==
  ASSUME NEW S, NEW n \in Nat, NEW chosen, NEW from \in [1..n -> Seq(S)]
  PROVE  /\ FlattenSeq(Choice(n, chosen, from)) \in Seq(S)
         /\ ToSet(FlattenSeq(Choice(n, chosen, from)))
              = UNION {ToSet(from[i]) : i \in 1..n \cap chosen}
  <1> DEFINE seqs == Choice(n, chosen, from)
  <1>1. seqs \in Seq(Seq(S)) /\ DOMAIN seqs = 1..n
    BY DEF Choice
  <1>2. \A i \in 1..n : seqs[i] = IF i \in chosen THEN from[i] ELSE <<>>
    BY DEF Choice
  <1> HIDE DEF seqs
  <1>3. /\ FlattenSeq(seqs) \in Seq(S)
        /\ ToSet(FlattenSeq(seqs)) = UNION {ToSet(seqs[i]) : i \in 1..n}
    BY <1>1, FlattenSeqType, FlattenSeqRange
  <1>4. ToSet(<<>>) = {}
    BY DEF ToSet
  <1>5. UNION {ToSet(seqs[i]) : i \in 1..n}
          = UNION {ToSet(from[i]) : i \in 1..n \cap chosen}
    BY <1>2, <1>4
  <1> QED
    BY <1>3, <1>5 DEF seqs

\* The libraries are the artifacts of those whose last rule that matches
\* allows them.
LEMMA SelectedLibraries ==
  ASSUME NEW p, NEW d \in Versions
  PROVE  LET Wanted == {i \in DOMAIN d.libraries : LastMatchWins(p, d.libraries[i].rules)}
         IN  /\ SelectLibraries(d, p) \in Seq(Downloads)
             /\ ToSet(SelectLibraries(d, p))
                  = UNION {ToSet(d.libraries[i].artifact) : i \in Wanted}
  <1> DEFINE n == Len(d.libraries)
             chosen == {i \in 1..n : Allows(p, d.libraries[i].rules)}
             from == [i \in 1..n |-> d.libraries[i].artifact]
             seqs == Choice(n, chosen, from)
  <1>1. d.libraries \in Seq(Libraries)
    BY DEF Versions
  <1>2. n \in Nat /\ DOMAIN d.libraries = 1..n
    BY <1>1
  <1>3. \A i \in 1..n : /\ d.libraries[i].artifact \in Seq(Downloads)
                        /\ d.libraries[i].rules \in Seq(Rules)
    <2>1. \A i \in 1..n : d.libraries[i] \in Libraries
      BY <1>1, <1>2
    <2>2. \A l \in Libraries : l.artifact \in Seq(Downloads) /\ l.rules \in Seq(Rules)
      BY DEF Libraries
    <2> QED
      BY <2>1, <2>2, Zenon
  <1> HIDE DEF n
  <1>4. SelectLibraries(d, p) = FlattenSeq(seqs)
    BY <1>2 DEF SelectLibraries, Choice
  <1>5. \A i \in 1..n : i \in chosen <=> LastMatchWins(p, d.libraries[i].rules)
    BY <1>3, AllowsIsLastMatch
  <1>6. from \in [1..n -> Seq(Downloads)] /\ \A i \in 1..n : from[i] = d.libraries[i].artifact
    BY <1>3
  <1> HIDE DEF chosen, from
  <1>7. /\ FlattenSeq(seqs) \in Seq(Downloads)
        /\ ToSet(FlattenSeq(seqs))
             = UNION {ToSet(from[i]) : i \in 1..n \cap chosen}
    BY <1>2, <1>6, FlattenedChoice
  <1> HIDE DEF seqs
  <1> QED
    BY <1>2, <1>4, <1>5, <1>6, <1>7

\* And so are the arguments the texts of those.
LEMMA SelectedArgs ==
  ASSUME NEW p, NEW arguments \in Seq(Arguments)
  PROVE  LET Wanted == {i \in DOMAIN arguments :
                          LastMatchWins(p, DecodeArgument(arguments[i]).rules)}
         IN  /\ SelectArgs(arguments, p) \in Seq(Seq(STRING))
             /\ ToSet(SelectArgs(arguments, p))
                  = UNION {ToSet(arguments[i].texts) : i \in Wanted}
  <1> DEFINE n == Len(arguments)
             chosen == {i \in 1..n : Allows(p, DecodeArgument(arguments[i]).rules)}
             from == [i \in 1..n |-> arguments[i].texts]
             seqs == Choice(n, chosen, from)
  <1>1. n \in Nat /\ DOMAIN arguments = 1..n
    OBVIOUS
  <1>2. \A i \in 1..n : /\ arguments[i].texts \in Seq(Seq(STRING))
                        /\ arguments[i].rules \in Seq(Rules)
    <2>1. \A i \in 1..n : arguments[i] \in Arguments
      BY <1>1
    <2>2. \A a \in Arguments : a.texts \in Seq(Seq(STRING)) /\ a.rules \in Seq(Rules)
      BY DEF Arguments
    <2> QED
      BY <2>1, <2>2, Zenon
  <1> HIDE DEF n
  <1>3. \A i \in 1..n : /\ DecodeArgument(arguments[i]).rules \in Seq(Rules)
                        /\ DecodeArgument(arguments[i]).values = arguments[i].texts
    <2>1. <<>> \in Seq(Rules)
      OBVIOUS
    <2> QED
      BY <1>2, <2>1, Zenon DEF DecodeArgument
  <1>4. SelectArgs(arguments, p) = FlattenSeq(seqs)
    <2>1. SelectArgs(arguments, p)
            = FlattenSeq([i \in 1..n |->
                IF Allows(p, DecodeArgument(arguments[i]).rules)
                THEN DecodeArgument(arguments[i]).values ELSE <<>>])
      BY <1>1, Zenon DEF SelectArgs
    <2>2. ASSUME NEW i \in 1..n
          PROVE  (IF Allows(p, DecodeArgument(arguments[i]).rules)
                  THEN DecodeArgument(arguments[i]).values ELSE <<>>)
                   = IF i \in chosen THEN from[i] ELSE <<>>
      BY <1>3
    <2> HIDE DEF chosen, from
    <2>3. seqs = [i \in 1..n |->
                IF Allows(p, DecodeArgument(arguments[i]).rules)
                THEN DecodeArgument(arguments[i]).values ELSE <<>>]
      BY <2>2, Zenon DEF Choice
    <2> QED
      BY <2>1, <2>3, Zenon
  <1>5. \A i \in 1..n :
           i \in chosen <=> LastMatchWins(p, DecodeArgument(arguments[i]).rules)
    BY <1>3, AllowsIsLastMatch
  <1>6. from \in [1..n -> Seq(Seq(STRING))] /\ \A i \in 1..n : from[i] = arguments[i].texts
    BY <1>2
  <1> HIDE DEF chosen, from
  <1>7. /\ FlattenSeq(seqs) \in Seq(Seq(STRING))
        /\ ToSet(FlattenSeq(seqs))
             = UNION {ToSet(from[i]) : i \in 1..n \cap chosen}
    <2> DEFINE T == Seq(STRING)
    <2> HIDE DEF T
    <2>1. from \in [1..n -> Seq(T)]
      BY <1>6 DEF T
    <2>2. /\ FlattenSeq(seqs) \in Seq(T)
          /\ ToSet(FlattenSeq(seqs))
               = UNION {ToSet(from[i]) : i \in 1..n \cap chosen}
      BY <1>1, <2>1, FlattenedChoice
    <2> QED
      BY <2>2 DEF T
  <1> HIDE DEF seqs
  <1>8. UNION {ToSet(from[i]) : i \in 1..n \cap chosen}
          = UNION {ToSet(arguments[i].texts) :
              i \in {i \in 1..n : LastMatchWins(p, DecodeArgument(arguments[i]).rules)}}
    BY <1>5, <1>6
  <1> QED
    BY <1>1, <1>4, <1>7, <1>8, Zenon

\* The paths of the files, and one more.
LEMMA PathsAndOne ==
  ASSUME NEW files \in Seq(Downloads), NEW x
  PROVE  LET s == Append([i \in DOMAIN files |-> files[i].path], x)
         IN  /\ s \in Seq(ToSet(s))
             /\ ToSet(s) = {file_.path : file_ \in ToSet(files)} \cup {x}
             /\ Last(s) = x
  <1> DEFINE T == STRING \cup {x}
             n == Len(files)
             paths == [i \in DOMAIN files |-> files[i].path]
             s == Append(paths, x)
  <1>1. n \in Nat /\ DOMAIN files = 1..n /\ \A i \in 1..n : files[i].path \in STRING
    <2>1. n \in Nat /\ DOMAIN files = 1..n /\ \A i \in 1..n : files[i] \in Downloads
      OBVIOUS
    <2>2. \A f \in Downloads : f.path \in STRING
      BY DEF Downloads
    <2> QED
      BY <2>1, <2>2
  <1>2. paths \in Seq(T) /\ Len(paths) = n /\ x \in T
    BY <1>1
  <1>3. \A i \in 1..n : paths[i] = files[i].path
    BY <1>1
  <1> HIDE DEF T, n, paths
  <1>4. /\ s \in Seq(T) /\ Len(s) = n + 1 /\ DOMAIN s = 1..(n + 1)
        /\ s[n + 1] = x
        /\ \A i \in 1..n : s[i] = paths[i]
    BY <1>2
  <1> HIDE DEF s
  <1>5. ToSet(s) = {files[i].path : i \in 1..n} \cup {x}
    <2>1. 1..(n + 1) = (1..n) \cup {n + 1}
      BY <1>1
    <2> QED
      BY <1>3, <1>4, <2>1 DEF ToSet
  <1>6. {f.path : f \in ToSet(files)} = {files[i].path : i \in 1..n}
    BY <1>1 DEF ToSet
  <1>7. Last(s) = x
    BY <1>4 DEF Last
  <1>8. s \in Seq(ToSet(s))
    <2>1. \A i \in 1..Len(s) : s[i] \in ToSet(s)
      BY <1>4 DEF ToSet
    <2>2. Len(s) \in Nat /\ s = [i \in 1..Len(s) |-> s[i]]
      BY <1>1, <1>4
    <2> QED
      BY <2>1, <2>2
  <1> QED
    BY <1>5, <1>6, <1>7, <1>8 DEF s, paths

-----------------------------------------------------------------------------
(* What a list of templates becomes.                                       *)

\* The parts a template's text is flattened from.
Pieces(text, values) ==
    [i \in DOMAIN text |->
        IF text[i] \in DOMAIN values THEN values[text[i]] ELSE <<text[i]>>]

\* Each value is a sequence.
AreSequences(values) == \A name \in DOMAIN values : values[name] \in Seq(ToSet(values[name]))

\* The parts are sequences of something.
LEMMA PiecesType ==
  ASSUME NEW text \in Seq(STRING), NEW values, AreSequences(values)
  PROVE  /\ \E S : Pieces(text, values) \in Seq(Seq(S))
         /\ DOMAIN Pieces(text, values) = DOMAIN text
         /\ \A i \in DOMAIN text :
              Pieces(text, values)[i]
                = IF text[i] \in DOMAIN values THEN values[text[i]] ELSE <<text[i]>>
  <1> DEFINE n == Len(text)
             seqs == Pieces(text, values)
  <1>1. n \in Nat /\ DOMAIN text = 1..n
    OBVIOUS
  <1>2. /\ seqs = [i \in 1..n |-> seqs[i]]
        /\ DOMAIN seqs = 1..n
        /\ \A i \in 1..n :
             seqs[i] = IF text[i] \in DOMAIN values THEN values[text[i]] ELSE <<text[i]>>
    BY <1>1 DEF Pieces
  <1> HIDE DEF n, seqs
  <1>3. \A x : <<x>> \in Seq(ToSet(<<x>>))
    BY DEF ToSet
  <1>4. \A i \in 1..n : seqs[i] \in Seq(ToSet(seqs[i]))
    BY <1>2, <1>3 DEF AreSequences
  <1>5. seqs \in Seq(Seq(UNION {ToSet(seqs[i]) : i \in 1..n}))
    BY <1>1, <1>2, <1>4, AnySequence
  <1> QED
    BY <1>1, <1>2, <1>5 DEF seqs

\* Nothing is left of a name but what a value brings in.
LEMMA NothingUnfilled ==
  ASSUME NEW text \in Seq(STRING), NEW values, AreSequences(values)
  PROVE  ToSet(Substitute(text, values)) \cap DOMAIN values
           \subseteq UNION {ToSet(values[name]) : name \in DOMAIN values}
  <1> DEFINE seqs == Pieces(text, values)
  <1>1. PICK S : seqs \in Seq(Seq(S))
    BY PiecesType
  <1>2. /\ DOMAIN seqs = DOMAIN text
        /\ \A i \in DOMAIN text :
             seqs[i] = IF text[i] \in DOMAIN values THEN values[text[i]] ELSE <<text[i]>>
    BY PiecesType
  <1>3. Substitute(text, values) = FlattenSeq(seqs)
    BY DEF Substitute, Pieces
  <1> HIDE DEF seqs
  <1>4. ToSet(Substitute(text, values)) = UNION {ToSet(seqs[i]) : i \in DOMAIN seqs}
    BY <1>1, <1>3, FlattenSeqRange
  <1>5. SUFFICES ASSUME NEW x \in ToSet(Substitute(text, values)), x \in DOMAIN values
                 PROVE  \E name \in DOMAIN values : x \in ToSet(values[name])
    OBVIOUS
  <1>6. PICK i \in DOMAIN text : x \in ToSet(seqs[i])
    BY <1>2, <1>4, <1>5
  <1>7. text[i] \in DOMAIN values
    <2>1. SUFFICES ASSUME text[i] \notin DOMAIN values PROVE FALSE
      OBVIOUS
    <2>2. seqs[i] = <<text[i]>>
      BY <1>2, <2>1
    <2>3. x = text[i]
      BY <1>6, <2>2 DEF ToSet
    <2> QED
      BY <1>5, <2>1, <2>3
  <1> QED
    BY <1>2, <1>6, <1>7

\* arg has the values of the places, in their order.
InTheirPlaces(arg, text, Places, value) ==
    \E at \in [Places -> DOMAIN arg] :
        /\ \A i \in Places : arg[at[i]] = value[text[i]]
        /\ \A i, j \in Places : i < j => at[i] < at[j]

\* A value of one text is whole in its place: arg has it at an index that grows
\* with the place.
LEMMA ValuesInTheirPlaces ==
  ASSUME NEW text \in Seq(STRING), NEW values, AreSequences(values),
         NEW Places, Places \subseteq DOMAIN text, NEW value,
         \A i \in Places : text[i] \in DOMAIN values /\ values[text[i]] = <<value[text[i]]>>
  PROVE  InTheirPlaces(Substitute(text, values), text, Places, value)
  <1> DEFINE seqs == Pieces(text, values)
             arg == Substitute(text, values)
  <1>1. PICK S : seqs \in Seq(Seq(S))
    BY PiecesType
  <1>2. /\ DOMAIN seqs = DOMAIN text
        /\ \A i \in DOMAIN text :
             seqs[i] = IF text[i] \in DOMAIN values THEN values[text[i]] ELSE <<text[i]>>
    BY PiecesType
  <1>3. arg = FlattenSeq(seqs)
    BY DEF Substitute, Pieces
  <1> HIDE DEF seqs, arg
  <1>4. arg \in Seq(S) /\ DOMAIN arg = 1..Len(arg) /\ Len(arg) \in Nat
    BY <1>1, <1>3, FlattenSeqType
  <1>5. PICK off : Offsets(off, seqs, arg)
    BY <1>1, <1>3, FlattenSeqOffsets
  <1>6. ASSUME NEW i \in Places
        PROVE  seqs[i] = <<value[text[i]]>> /\ Len(seqs[i]) = 1 /\ seqs[i][1] = value[text[i]]
    <2>1. seqs[i] = <<value[text[i]]>>
      BY <1>2
    <2> QED
      BY <2>1
  <1> DEFINE at == [i \in Places |-> off[i] + 1]
  <1>7. ASSUME NEW i \in Places
        PROVE  /\ off[i] \in Nat /\ off[i] + 1 \in DOMAIN arg
               /\ arg[off[i] + 1] = value[text[i]]
               /\ \A j \in Places : i < j => off[i] + 1 <= off[j]
    <2>1. i \in DOMAIN seqs /\ \A j \in Places : j \in DOMAIN seqs
      BY <1>2
    <2>2. /\ off[i] \in Nat
          /\ off[i] + Len(seqs[i]) <= Len(arg)
          /\ \A k \in 1..Len(seqs[i]) : arg[off[i] + k] = seqs[i][k]
          /\ \A j \in DOMAIN seqs : i < j => off[i] + Len(seqs[i]) <= off[j]
      BY <1>5, <2>1, Zenon DEF Offsets
    <2>3. off[i] + 1 <= Len(arg) /\ \A j \in Places : i < j => off[i] + 1 <= off[j]
      BY <1>6, <2>1, <2>2, Zenon
    <2>4. off[i] + 1 \in DOMAIN arg
      BY <1>4, <2>2, <2>3
    <2>5. arg[off[i] + 1] = seqs[i][1]
      <3>1. 1 \in 1..1
        OBVIOUS
      <3> QED
        BY <1>6, <2>2, <3>1, Zenon
    <2> QED
      BY <1>6, <2>2, <2>3, <2>4, <2>5, Zenon
  <1>8. at \in [Places -> DOMAIN arg]
    BY <1>7
  <1>9. \A i \in Places : arg[at[i]] = value[text[i]]
    BY <1>7
  <1>10. \A i, j \in Places : i < j => at[i] < at[j]
    BY <1>7
  <1> QED
    BY <1>8, <1>9, <1>10, Zenon DEF arg, InTheirPlaces

-----------------------------------------------------------------------------
(* The command line and its parts.                                         *)

\* u begins with a, ends with g, and all of it but g and one element is pre.
Framed(u, a, g, pre) ==
    /\ Len(a) \in Nat /\ Len(g) \in Nat /\ Len(u) \in Nat /\ DOMAIN u = 1..Len(u)
    /\ Len(a) + Len(g) <= Len(u)
    /\ \A k \in 1..Len(a) : u[k] = a[k]
    /\ \A k \in 1..Len(g) : u[Len(u) - Len(g) + k] = g[k]
    /\ SubSeq(u, 1, Len(u) - Len(g) - 1) = pre

\* What is around the heap, the manifest's arguments and the main class.
LEMMA FiveParts ==
  ASSUME NEW X, NEW a \in Seq(X), NEW h \in X, NEW m \in Seq(X), NEW c \in X,
         NEW g \in Seq(X)
  PROVE  Framed(a \o <<h>> \o m \o <<c>> \o g, a, g, a \o <<h>> \o m)
  <1> DEFINE ah == a \o <<h>>
             pre == ah \o m
             prec == pre \o <<c>>
             u == prec \o g
  <1>1. <<h>> \in Seq(X) /\ <<c>> \in Seq(X) /\ Len(<<c>>) = 1 /\ Len(<<h>>) = 1
    OBVIOUS
  <1>2. ah \in Seq(X) /\ Joins(ah, a, <<h>>)
    <2>1. ah \in Seq(X)
      BY <1>1
    <2> QED
      BY <1>1, <2>1, ConcatJoins, Zenon
  <1> HIDE DEF ah
  <1>3. pre \in Seq(X) /\ Joins(pre, ah, m)
    BY <1>2, ConcatJoins
  <1> HIDE DEF pre
  <1>4. prec \in Seq(X) /\ Joins(prec, pre, <<c>>)
    <2>1. prec \in Seq(X)
      BY <1>1, <1>3
    <2> QED
      BY <1>1, <1>3, <2>1, ConcatJoins, Zenon
  <1> HIDE DEF prec
  <1>5. u \in Seq(X) /\ Joins(u, prec, g)
    BY <1>4, ConcatJoins
  <1> HIDE DEF u
  <1>6. /\ Len(a) \in Nat /\ Len(ah) = Len(a) + 1
        /\ Len(m) \in Nat /\ Len(pre) = Len(ah) + Len(m)
        /\ Len(prec) = Len(pre) + 1
        /\ Len(g) \in Nat /\ Len(u) = Len(prec) + Len(g)
    BY <1>1, <1>2, <1>3, <1>4, <1>5, Zenon DEF Joins
  <1>7. /\ \A k \in 1..Len(a) : ah[k] = a[k]
        /\ \A k \in 1..Len(ah) : pre[k] = ah[k]
        /\ \A k \in 1..Len(pre) : prec[k] = pre[k]
        /\ \A k \in 1..Len(prec) : u[k] = prec[k]
        /\ \A k \in 1..Len(g) : u[Len(prec) + k] = g[k]
    BY <1>2, <1>3, <1>4, <1>5, Zenon DEF Joins
  <1>8. /\ Len(a) <= Len(ah) /\ Len(ah) <= Len(pre) /\ Len(pre) <= Len(prec)
        /\ Len(u) - Len(g) = Len(prec) /\ Len(u) - Len(g) - 1 = Len(pre)
        /\ Len(u) \in Nat /\ Len(a) + Len(g) <= Len(u)
        /\ Len(ah) \in Nat /\ Len(pre) \in Nat /\ Len(prec) \in Nat
    BY <1>6
  <1>9. /\ 1..Len(a) \subseteq 1..Len(ah)
        /\ 1..Len(ah) \subseteq 1..Len(pre)
        /\ 1..Len(pre) \subseteq 1..Len(prec)
    BY <1>6, <1>8
  <1>10. \A k \in 1..Len(a) : u[k] = a[k]
    BY <1>7, <1>9, Zenon
  <1>11. \A k \in 1..Len(pre) : u[k] = pre[k]
    BY <1>7, <1>9, Zenon
  <1>12. SubSeq(u, 1, Len(pre)) = pre
    <2>1. /\ SubSeq(u, 1, Len(pre)) = [k \in 1..Len(pre) |-> u[k]]
          /\ pre = [k \in 1..Len(pre) |-> pre[k]]
      <3>1. pre = [k \in 1..Len(pre) |-> pre[k]]
        BY <1>3
      <3>2. Len(pre) <= Len(u) /\ Len(pre) \in Nat
        BY <1>6, <1>8
      <3>3. \A k \in 1..Len(pre) : 1 + k - 1 = k
        OBVIOUS
      <3>4. SubSeq(u, 1, Len(pre)) = [k \in 1..Len(pre) |-> u[k]]
        BY <1>5, <3>2
      <3> QED
        BY <3>1, <3>4
    <2> QED
      BY <1>11, <2>1, Zenon
  <1>13. DOMAIN u = 1..Len(u)
    BY <1>5
  <1>14. Framed(u, a, g, pre)
    BY <1>6, <1>7, <1>8, <1>10, <1>12, <1>13, Zenon DEF Framed
  <1> QED
    BY <1>14 DEF u, prec, pre, ah

\* A template's place is its own in the list of what the templates become.
LEMMA SubstituteAllType ==
  ASSUME NEW texts \in Seq(Seq(STRING)), NEW values, NEW X,
         \A text \in Seq(STRING) : Substitute(text, values) \in X
  PROVE  /\ SubstituteAll(texts, values) \in Seq(X)
         /\ Len(SubstituteAll(texts, values)) = Len(texts)
         /\ \A i \in 1..Len(texts) :
              /\ texts[i] \in Seq(STRING)
              /\ SubstituteAll(texts, values)[i] = Substitute(texts[i], values)
  <1> DEFINE n == Len(texts)
             T == Seq(STRING)
  <1>1. n \in Nat /\ DOMAIN texts = 1..n /\ \A i \in 1..n : texts[i] \in T
    OBVIOUS
  <1> HIDE DEF n, T
  <1>2. SubstituteAll(texts, values) = [i \in 1..n |-> Substitute(texts[i], values)]
    BY <1>1 DEF SubstituteAll
  <1>3. \A i \in 1..n : Substitute(texts[i], values) \in X
    BY <1>1 DEF T
  <1> QED
    BY <1>1, <1>2, <1>3 DEF n, T

\* The last setting of an option is the one after.
LEMMA LastSetting ==
  ASSUME NEW u, NEW s, NEW t, Joins(u, s, t),
         DOMAIN u = 1..Len(u), DOMAIN t = 1..Len(t),
         NEW i \in DOMAIN t, t[i] # <<>>
  PROVE  Setting(u, t[i][1]) = Setting(t, t[i][1])
  <1> DEFINE o == t[i][1]
             U == {k \in DOMAIN u : u[k] # <<>> /\ u[k][1] = o}
             T == {k \in DOMAIN t : t[k] # <<>> /\ t[k][1] = o}
             l == Len(s)
  <1>0. /\ l \in Nat /\ Len(t) \in Nat /\ Len(u) = l + Len(t)
        /\ \A k \in 1..Len(t) : u[l + k] = t[k]
    BY Zenon DEF Joins
  <1> HIDE DEF l, o
  <1>1. /\ T \in SUBSET Nat /\ T # {} /\ \A k \in T : k <= Len(t)
        /\ Max(T) \in T /\ \A k \in T : Max(T) >= k
    <2>1. T \in SUBSET Nat /\ i \in T /\ \A k \in T : k <= Len(t)
      BY <1>0 DEF o
    <2> HIDE DEF T
    <2> QED
      BY <1>0, <2>1, MaxIsGreatest
  <1>2. l + Max(T) \in U
    <2>1. Max(T) \in 1..Len(t) /\ t[Max(T)] # <<>> /\ t[Max(T)][1] = o
      BY <1>1
    <2> HIDE DEF T
    <2>2. l + Max(T) \in 1..Len(u) /\ u[l + Max(T)] = t[Max(T)]
      BY <1>0, <2>1
    <2> QED
      BY <2>1, <2>2
  <1>3. /\ Max(U) \in U /\ \A k \in U : Max(U) >= k
    <2>1. U \in SUBSET Nat /\ U # {} /\ Len(u) \in Nat /\ \A k \in U : k <= Len(u)
      BY <1>0, <1>2
    <2> HIDE DEF U
    <2> QED
      BY <2>1, MaxIsGreatest
  <1>4. Max(U) \in 1..Len(u) /\ u[Max(U)] # <<>> /\ u[Max(U)][1] = o
    BY <1>3
  <1>5. Max(U) >= l + Max(T) /\ Max(T) \in 1..Len(t)
    BY <1>1, <1>2, <1>3
  <1> DEFINE k == Max(U) - l
  <1>6. k \in 1..Len(t) /\ l + k = Max(U) /\ k >= Max(T)
    <2> HIDE DEF U, T
    <2> QED
      BY <1>0, <1>4, <1>5
  <1> HIDE DEF k
  <1>7. t[k] = u[Max(U)]
    BY <1>0, <1>6, Zenon
  <1>8. k \in T
    BY <1>4, <1>6, <1>7, Zenon
  <1>9. k = Max(T)
    <2> HIDE DEF U, T
    <2>1. Max(T) >= k
      BY <1>1, <1>8
    <2> QED
      BY <1>5, <1>6, <2>1
  <1>10. Setting(u, o) = u[Max(U)] /\ Setting(t, o) = t[Max(T)]
    BY Zenon DEF Setting
  <1> QED
    BY <1>7, <1>9, <1>10, Zenon DEF o

-----------------------------------------------------------------------------
(* The parts of a document.                                                *)
LEMMA DocumentParts ==
  ASSUME IInv, doc # <<>>
  PROVE  /\ doc[1] \in Versions
         /\ doc[1].jvm \in Seq(Arguments) /\ doc[1].game \in Seq(Arguments)
         /\ installed = FetchSet(doc[1])
  BY DocumentAssumption DEF IInv, MadeOf, Versions, Documents

\* The classpath is made of the list the files were fetched by.
LEMMA ClasspathHolds == IInv => ClasspathIsInstalled
  <1> SUFFICES ASSUME IInv, spec # <<>>
               PROVE  /\ ToSet(spec[1].classpath) = installed
                      /\ Last(spec[1].classpath) = ClientJarPath(doc[1].id, doc[1].client[1])
    BY DEF ClasspathIsInstalled
  <1> DEFINE files == SelectLibraries(doc[1], LinuxAMD64)
             jar == ClientJarPath(doc[1].id, doc[1].client[1])
             classpath == Append([i \in DOMAIN files |-> files[i].path], jar)
  <1>1. doc # <<>> /\ spec = <<Resolve(doc[1], LinuxAMD64)>>
    BY DEF IInv, MadeOf
  <1>2. files \in Seq(Downloads)
    BY <1>1, DocumentParts, SelectedLibraries
  <1>3. spec[1].classpath = classpath
    BY <1>1 DEF Resolve
  <1>4. installed = {f.path : f \in ToSet(files)} \cup {jar}
    BY <1>1, DocumentParts DEF FetchSet
  <1> HIDE DEF files, jar
  <1>5. ToSet(classpath) = {f.path : f \in ToSet(files)} \cup {jar} /\ Last(classpath) = jar
    BY <1>2, PathsAndOne
  <1> QED
    BY <1>3, <1>4, <1>5 DEF jar

\* The list is of the libraries the rules let through.
LEMMA LastMatchHolds == IInv => LastMatchDecides
  <1> SUFFICES ASSUME IInv, doc # <<>> PROVE LastMatchDecides
    BY DEF LastMatchDecides
  <1> DEFINE d == doc[1]
             Wanted == {i \in DOMAIN d.libraries :
                          LastMatchWins(LinuxAMD64, d.libraries[i].rules)}
             jar == ClientJarPath(d.id, d.client[1])
  <1>1. d \in Versions /\ installed = FetchSet(d)
    BY DocumentParts
  <1> HIDE DEF d
  <1>2. ToSet(SelectLibraries(d, LinuxAMD64))
          = UNION {ToSet(d.libraries[i].artifact) : i \in Wanted}
    BY <1>1, SelectedLibraries
  <1> HIDE DEF jar
  <1>3. installed = {f.path : f \in ToSet(SelectLibraries(d, LinuxAMD64))} \cup {jar}
    BY <1>1 DEF FetchSet, jar
  <1> HIDE DEF Wanted
  <1>4. installed = {jar} \cup UNION {{d.libraries[i].artifact[k].path :
                                          k \in DOMAIN d.libraries[i].artifact} :
                                            i \in Wanted}
    <2> DEFINE all == UNION {ToSet(d.libraries[i].artifact) : i \in Wanted}
               PathsOf(i) == {d.libraries[i].artifact[k].path :
                                k \in DOMAIN d.libraries[i].artifact}
               paths == UNION {PathsOf(i) : i \in Wanted}
    <2>1. \A i \in Wanted : PathsOf(i) = {f.path : f \in ToSet(d.libraries[i].artifact)}
      BY DEF ToSet
    <2> HIDE DEF PathsOf
    <2>2. paths = {f.path : f \in all}
      BY <2>1
    <2>3. ToSet(SelectLibraries(d, LinuxAMD64)) = all
      BY <1>2
    <2> HIDE DEF paths, all
    <2>4. installed = {jar} \cup paths
      BY <1>3, <2>2, <2>3
    <2> QED
      BY <2>4, Zenon DEF paths, PathsOf
  <1> QED
    BY <1>4 DEF LastMatchDecides, Wanted, jar, d

(* The command line of a run, and what it is made of.                      *)
Values == Placeholders(spec[1], account[1])

\* What the placeholders stand for.
LEMMA ValuesAreSequences ==
  ASSUME IInv, spec # <<>>
  PROVE  AreSequences(Values)
  <1> DEFINE files == SelectLibraries(doc[1], LinuxAMD64)
             jar == ClientJarPath(doc[1].id, doc[1].client[1])
             classpath == Append([i \in DOMAIN files |-> files[i].path], jar)
  <1>1. doc # <<>> /\ spec = <<Resolve(doc[1], LinuxAMD64)>>
    BY DEF IInv, MadeOf
  <1>2. files \in Seq(Downloads)
    BY <1>1, DocumentParts, SelectedLibraries
  <1>3. spec[1].classpath = classpath
    BY <1>1 DEF Resolve
  <1> HIDE DEF files, jar
  <1>4. classpath \in Seq(ToSet(classpath))
    BY <1>2, PathsAndOne
  <1> HIDE DEF classpath
  <1>5. \A x : <<x>> \in Seq(ToSet(<<x>>))
    BY DEF ToSet
  <1>6. <<>> \in Seq(ToSet(<<>>))
    OBVIOUS
  <1>7. \A name \in DOMAIN Values :
           \/ Values[name] = <<>>
           \/ Values[name] = classpath
           \/ \E x : Values[name] = <<x>>
    BY <1>3 DEF Values, Placeholders
  <1> QED
    BY <1>4, <1>5, <1>6, <1>7, Zenon DEF AreSequences

\* The templates are those of the document that apply.
LEMMA Templates ==
  ASSUME IInv, spec # <<>>
  PROVE  /\ doc # <<>>
         /\ spec[1].jvm = SelectArgs(doc[1].jvm, LinuxAMD64)
         /\ spec[1].game = SelectArgs(doc[1].game, LinuxAMD64)
         /\ spec[1].jvm \in Seq(Seq(STRING)) /\ spec[1].game \in Seq(Seq(STRING))
  <1>1. doc # <<>> /\ spec = <<Resolve(doc[1], LinuxAMD64)>>
    BY DEF IInv, MadeOf
  <1>2. doc[1].jvm \in Seq(Arguments) /\ doc[1].game \in Seq(Arguments)
    BY <1>1, DocumentParts
  <1>3. /\ spec[1].jvm = SelectArgs(doc[1].jvm, LinuxAMD64)
        /\ spec[1].game = SelectArgs(doc[1].game, LinuxAMD64)
    BY <1>1 DEF Resolve
  <1>4. /\ SelectArgs(doc[1].jvm, LinuxAMD64) \in Seq(Seq(STRING))
        /\ SelectArgs(doc[1].game, LinuxAMD64) \in Seq(Seq(STRING))
    BY <1>2, SelectedArgs
  <1> QED
    BY <1>1, <1>3, <1>4

\* The jvm's templates, the heap, the manifest's own arguments, the main class
\* and the game's templates.
LEMMA CommandParts ==
  ASSUME IInv, phase = "running"
  PROVE  LET jvm == SubstituteAll(spec[1].jvm, Values)
             game == SubstituteAll(spec[1].game, Values)
             heap == <<"-Xmx", ToString(file.heapMB)>>
         IN  /\ spec # <<>>
             /\ Framed(command, jvm, game, jvm \o <<heap>> \o file.args)
             /\ Joins(jvm \o <<heap>> \o file.args, jvm \o <<heap>>, file.args)
             /\ DOMAIN (jvm \o <<heap>> \o file.args) = 1..Len(jvm \o <<heap>> \o file.args)
             /\ DOMAIN file.args = 1..Len(file.args)
             /\ Len(jvm) = Len(spec[1].jvm) /\ Len(game) = Len(spec[1].game)
  <1> DEFINE jvm == SubstituteAll(spec[1].jvm, Values)
             game == SubstituteAll(spec[1].game, Values)
             heap == <<"-Xmx", ToString(file.heapMB)>>
             main == <<spec[1].mainClass>>
             X == {Substitute(text, Values) : text \in Seq(STRING)}
                    \cup Seq(STRING) \cup {heap, main}
  <1>1. spec # <<>> /\ command = Command(spec[1], file, account[1])
    BY DEF IInv, MadeOf
  <1>2. file.args \in Seq(X)
    <2>1. file.args \in Seq(Seq(STRING))
      BY InputFields DEF IInv, TypeOK, Manifests
    <2>2. Seq(STRING) \subseteq X
      OBVIOUS
    <2> HIDE DEF X
    <2> QED
      BY <2>1, <2>2
  <1>3. heap \in X /\ main \in X /\ \A text \in Seq(STRING) : Substitute(text, Values) \in X
    OBVIOUS
  <1> HIDE DEF X
  <1>4. /\ jvm \in Seq(X) /\ Len(jvm) = Len(spec[1].jvm)
        /\ game \in Seq(X) /\ Len(game) = Len(spec[1].game)
    BY <1>1, <1>3, Templates, SubstituteAllType
  <1>5. command = jvm \o <<heap>> \o file.args \o <<main>> \o game
    BY <1>1, Zenon DEF Command, Values
  <1> HIDE DEF jvm, game, heap, main
  <1>6. Framed(command, jvm, game, jvm \o <<heap>> \o file.args)
    BY <1>2, <1>3, <1>4, <1>5, FiveParts, Zenon
  <1>7. /\ jvm \o <<heap>> \in Seq(X)
        /\ jvm \o <<heap>> \o file.args \in Seq(X)
    BY <1>2, <1>3, <1>4
  <1>8. Joins(jvm \o <<heap>> \o file.args, jvm \o <<heap>>, file.args)
    BY <1>2, <1>7, ConcatJoins, Zenon
  <1>9. /\ DOMAIN (jvm \o <<heap>> \o file.args) = 1..Len(jvm \o <<heap>> \o file.args)
        /\ DOMAIN file.args = 1..Len(file.args)
    <2>1. \A s \in Seq(X) : DOMAIN s = 1..Len(s)
      OBVIOUS
    <2> QED
      BY <1>2, <1>7, <2>1, Zenon
  <1> QED
    BY <1>1, <1>4, <1>6, <1>8, <1>9, Zenon DEF jvm, game, heap

\* The manifest's arguments end what java reads before the main class.
LEMMA ArgsOverride == IInv => ManifestArgsOverride
  <1> SUFFICES ASSUME IInv, phase = "running", NEW i \in DOMAIN file.args,
                      file.args[i] # <<>>
               PROVE  Setting(JVMPart, file.args[i][1]) = Setting(file.args, file.args[i][1])
    BY Zenon DEF ManifestArgsOverride
  <1> DEFINE jvm == SubstituteAll(spec[1].jvm, Values)
             game == SubstituteAll(spec[1].game, Values)
             heap == <<"-Xmx", ToString(file.heapMB)>>
             pre == jvm \o <<heap>>
             part == pre \o file.args
  <1>1. /\ Framed(command, jvm, game, part) /\ Joins(part, pre, file.args)
        /\ DOMAIN part = 1..Len(part) /\ DOMAIN file.args = 1..Len(file.args)
        /\ Len(game) = Len(spec[1].game)
    BY CommandParts, Zenon
  <1> HIDE DEF part, pre, jvm, game
  <1>2. JVMPart = part
    BY <1>1, Zenon DEF JVMPart, Framed
  <1>3. Setting(part, file.args[i][1]) = Setting(file.args, file.args[i][1])
    BY <1>1, LastSetting, Zenon
  <1> QED
    BY <1>2, <1>3, Zenon

\* What the templates become is where FromTemplates says, with the values whole.
LEMMA TemplatesHold == IInv => TemplatesAreFilled
  <1> SUFFICES ASSUME IInv, phase = "running" PROVE TemplatesAreFilled
    BY Zenon DEF TemplatesAreFilled
  <1> DEFINE jvm == SubstituteAll(spec[1].jvm, Values)
             game == SubstituteAll(spec[1].game, Values)
             heap == <<"-Xmx", ToString(file.heapMB)>>
             part == jvm \o <<heap>> \o file.args
             l == Len(command) - Len(game)
  <1>1. /\ spec # <<>> /\ Framed(command, jvm, game, part)
        /\ Len(jvm) = Len(spec[1].jvm) /\ Len(game) = Len(spec[1].game)
    BY CommandParts, Zenon
  <1>2. AreSequences(Values)
    BY <1>1, ValuesAreSequences
  <1>3. /\ spec[1].jvm \in Seq(Seq(STRING)) /\ spec[1].game \in Seq(Seq(STRING))
        /\ spec[1].game = SelectArgs(doc[1].game, LinuxAMD64) /\ doc # <<>>
    BY <1>1, Templates
  <1> DEFINE X == {Substitute(text, Values) : text \in Seq(STRING)}
  <1>4. \A text \in Seq(STRING) : Substitute(text, Values) \in X
    OBVIOUS
  <1> HIDE DEF X
  <1>5. /\ \A i \in 1..Len(spec[1].jvm) :
             /\ spec[1].jvm[i] \in Seq(STRING)
             /\ jvm[i] = Substitute(spec[1].jvm[i], Values)
        /\ \A i \in 1..Len(spec[1].game) :
             /\ spec[1].game[i] \in Seq(STRING)
             /\ game[i] = Substitute(spec[1].game[i], Values)
    BY <1>3, <1>4, SubstituteAllType
  <1> HIDE DEF jvm, game, part
  <1>6. /\ Len(game) \in Nat /\ Len(jvm) \in Nat /\ Len(command) \in Nat
        /\ Len(jvm) + Len(game) <= Len(command) /\ DOMAIN command = 1..Len(command)
        /\ \A k \in 1..Len(jvm) : command[k] = jvm[k]
        /\ \A k \in 1..Len(game) : command[l + k] = game[k]
    BY <1>1, Zenon DEF Framed
  <1>7. ASSUME NEW k \in DOMAIN doc[1].game,
               LastMatchWins(LinuxAMD64, DecodeArgument(doc[1].game[k]).rules),
               NEW text \in ToSet(doc[1].game[k].texts)
        PROVE  \E arg \in ToSet(command) : Identifies(arg, text, account[1])
    <2>1. text \in ToSet(spec[1].game)
      <3>1. doc[1].game \in Seq(Arguments)
        BY <1>3, DocumentParts
      <3>2. ToSet(SelectArgs(doc[1].game, LinuxAMD64))
              = UNION {ToSet(doc[1].game[i].texts) :
                  i \in {i \in DOMAIN doc[1].game :
                     LastMatchWins(LinuxAMD64, DecodeArgument(doc[1].game[i]).rules)}}
        BY <3>1, SelectedArgs
      <3> QED
        BY <1>3, <1>7, <3>2
    <2>2. PICK m \in 1..Len(spec[1].game) : text = spec[1].game[m]
      BY <1>3, <2>1 DEF ToSet
    <2>3. text \in Seq(STRING) /\ game[m] = Substitute(text, Values)
      BY <1>5, <2>2
    <2> DEFINE arg == Substitute(text, Values)
    <2>4. arg \in ToSet(command)
      <3>1. m \in 1..Len(game) /\ l + m \in DOMAIN command
        <4>1. m \in 1..Len(game) /\ Len(game) \in Nat /\ Len(command) \in Nat
              /\ Len(jvm) \in Nat /\ Len(jvm) + Len(game) <= Len(command)
              /\ DOMAIN command = 1..Len(command)
          BY <1>1, <1>6, Zenon
        <4> QED
          BY <4>1
      <3>2. command[l + m] = arg
        BY <1>6, <2>3, <3>1, Zenon
      <3> QED
        BY <3>1, <3>2 DEF ToSet
    <2>5. Identifies(arg, text, account[1])
      <3> DEFINE Identity == [auth_uuid |-> account[1].uuid,
                              auth_player_name |-> account[1].name]
                 Places == {i \in DOMAIN text : text[i] \in DOMAIN Identity}
      <3>1. \A name \in DOMAIN Identity :
               name \in DOMAIN Values /\ Values[name] = <<Identity[name]>>
        BY DEF Values, Placeholders
      <3>2. \A i \in Places : /\ text[i] \in DOMAIN Values
                              /\ Values[text[i]] = <<Identity[text[i]]>>
        BY <3>1
      <3>3. Places \subseteq DOMAIN text
        OBVIOUS
      <3> HIDE DEF Identity, Places, arg
      <3>4. InTheirPlaces(arg, text, Places, Identity)
        BY <1>2, <2>3, <3>2, <3>3, ValuesInTheirPlaces, Zenon DEF arg
      <3> QED
        BY <3>4, Zenon DEF InTheirPlaces, Identifies, Identity, Places
    <2> QED
      BY <2>4, <2>5
  <1>8. ASSUME NEW i \in FromTemplates
        PROVE  \E text \in Seq(STRING) : command[i] = Substitute(text, Values)
    <2>1. CASE i \in 1..Len(spec[1].jvm)
      BY <1>1, <1>5, <1>6, <2>1, Zenon
    <2>2. CASE i \in (Len(command) - Len(spec[1].game) + 1)..Len(command)
      <3>1. PICK m \in 1..Len(game) : i = l + m
        <4>1. Len(game) \in Nat /\ Len(command) \in Nat /\ i \in (l + 1)..Len(command)
          BY <1>1, <1>6, <2>2, Zenon
        <4>2. i - l \in 1..Len(game) /\ i = l + (i - l)
          BY <4>1
        <4> QED
          BY <4>2
      <3> QED
        BY <1>1, <1>5, <1>6, <3>1, Zenon
    <2> QED
      BY <2>1, <2>2 DEF FromTemplates
  <1>9. ASSUME NEW i \in FromTemplates
        PROVE  ToSet(command[i]) \cap DOMAIN Values
                 \subseteq UNION {ToSet(Values[name]) : name \in DOMAIN Values}
    <2>1. PICK text \in Seq(STRING) : command[i] = Substitute(text, Values)
      BY <1>8
    <2> QED
      BY <1>2, <2>1, NothingUnfilled, Zenon
  <1> QED
    BY <1>7, <1>9, Zenon DEF TemplatesAreFilled, Values

-----------------------------------------------------------------------------
(* The theorems.                                                           *)

\* A run goes on only with a manifest that passed Validate, and each stage has
\* what it begins with (agent.go:44-57, load.go:48).
THEOREM InductiveInvariant == Spec => []IInv
  BY InitEstablishes, NextKeeps, PTL DEF Spec

\* The data of a run keeps its shape, whatever the manifest and the version
\* document say.
THEOREM TypeCorrect == Spec => []TypeOK
  <1>1. IInv => TypeOK
    BY DEF IInv
  <1> QED
    BY <1>1, InductiveInvariant, PTL

\* No two downloads of a plan go to one file, and none to a place where the
\* person is asked to put one (validate.go:151-157, agent.go:162-173).
THEOREM NoCollision == Spec => []OneFilePerDestination
  <1>1. IInv => OneFilePerDestination
    <2> SUFFICES ASSUME IInv, NEW k \in DOMAIN plan,
                        NEW i \in DOMAIN plan[k].downloads
                 PROVE  /\ plan[k].downloads[i] \notin plan[k].manual
                        /\ \A j \in DOMAIN plan[k].downloads :
                             plan[k].downloads[i] = plan[k].downloads[j] => i = j
      BY DEF OneFilePerDestination
    <2> DEFINE mods == file.mods
               Manual == {j \in DOMAIN mods : mods[j].manual}
    <2>1. Validate(file, loadedAt) = {} /\ plan[k] = PlanOf(file)
      BY DEF IInv, TypeOK, Accepted
    <2>2. mods \in Seq(Mods)
      BY InputFields DEF IInv, TypeOK, Manifests
    <2>3. \A j \in DOMAIN mods : \A l \in 1..(j - 1) :
             mods[l].filename # mods[j].filename
      BY <2>1, AcceptedMods DEF Duplicate
    <2>4. \A j, l \in DOMAIN mods : mods[j].filename = mods[l].filename => j = l
      BY <2>2, <2>3
    <2>5. /\ plan[k].downloads = [j \in DOMAIN mods \ Manual |-> mods[j].filename]
          /\ plan[k].manual = {mods[j].filename : j \in Manual}
      BY <2>1 DEF PlanOf
    <2> HIDE DEF mods
    <2> QED
      BY <2>4, <2>5
  <1> QED
    BY <1>1, InductiveInvariant, PTL

\* A run asks for a device code with the client id of the flag, then of the
\* environment, then of the manifest, and never without one; an offline account is
\* made only for a name and an entitlement that has a signature, of whatever worth,
\* and had not expired when it was read (validate.go:107-128, manifest.go:136-141,
\* clientid.go:26-37, agent.go:135-148).
THEOREM SignInHasWhatItNeeds == Spec => []AcceptedCanSignIn
  <1>1. IInv => AcceptedCanSignIn
    BY DEF IInv
  <1> QED
    BY <1>1, InductiveInvariant, PTL

\* The game runs on the major of the version document, from a directory named
\* for it (java.go:50-82).
THEOREM RightRuntime == Spec => []RuntimeIsTheVersionsOwn
  <1>1. IInv => RuntimeIsTheVersionsOwn
    <2> SUFFICES ASSUME IInv, phase = "running"
                 PROVE  /\ doc[1].major > 0
                        /\ java[1].major = doc[1].major
                        /\ Atoi[java[1].path[2]] = doc[1].major
      BY DEF RuntimeIsTheVersionsOwn
    <2>1. /\ java[1].major = doc[1].major
          /\ Atoi[java[1].path[2]] = doc[1].major
      BY DEF IInv, StageHas
    <2>2. Atoi[java[1].path[2]] > 0
      BY DEF IInv, StageHas, IsRuntimeName
    <2> QED
      BY <2>1, <2>2
  <1> QED
    BY <1>1, InductiveInvariant, PTL

\* The classpath is what was fetched, the client's jar last: Resolve and
\* fetchClientAndLibraries agree for every document (mojang/launch.go:68-72,
\* install.go:68-76).
THEOREM ClasspathWasFetched == Spec => []ClasspathIsInstalled
  BY ClasspathHolds, InductiveInvariant, PTL

\* The loop of Allows is what its comment says of it, for any number of rules
\* and any platform they name (rules.go:35-53).
THEOREM RulesDecide == Spec => []LastMatchDecides
  BY LastMatchHolds, InductiveInvariant, PTL

\* Every template that applies reaches the game with the identity of who
\* signed in, and none reaches java unfilled (mojang/launch.go:54-57,
\* agent/launch.go:61-94).
THEOREM IdentityReachesTheGame == Spec => []TemplatesAreFilled
  BY TemplatesHold, InductiveInvariant, PTL

\* What the manifest gives the jvm is the last that java reads of it
\* (agent/launch.go:67-68).
THEOREM TheManifestHasTheLastWord == Spec => []ManifestArgsOverride
  BY ArgsOverride, InductiveInvariant, PTL
=============================================================================
