-------------------------- MODULE ImageBuildProofs --------------------------
(***************************************************************************)
(* Proofs about ImageBuild.tla, for any package lists, any options and any *)
(* number of builds.                                                       *)
(***************************************************************************)
EXTENDS ImageBuild, TLAPS

USE ListAssumption, NeedsAssumption, RequestAssumption, BoundAssumption
USE DEF run, work, outcome, Steps, Trap

-----------------------------------------------------------------------------
LEMMA One == ASSUME NEW S, NEW x \in S PROVE <<x>> \in Seq(S) /\ Len(<<x>>) = 1
  OBVIOUS

LEMMA Empty == ASSUME NEW S PROVE <<>> \in Seq(S) /\ Len(<<>>) = 0
  OBVIOUS

LEMMA NothingYet == /\ <<>> \in Seq(Roots) /\ Len(<<>>) <= 1
                    /\ <<>> \in Seq([whole : BOOLEAN, tree : Trees])
  <1>1. Len(<<>>) = 0
    BY Empty
  <1> QED
    BY <1>1, Empty

LEMMA First == ASSUME NEW S, NEW s \in Seq(S), Len(s) = 1 PROVE s[1] \in S
  OBVIOUS

LEMMA RequestedIsASequence ==
  ASSUME request \in Requests
  PROVE  Requested \in Seq(Lists \cup {"nvidia"})
  <1>1. request.lists \in Seq(Lists)
    OBVIOUS
  <1>2. request.lists \in Seq(Lists \cup {"nvidia"})
    BY <1>1
  <1>3. <<"nvidia">> \in Seq(Lists \cup {"nvidia"})
    BY One
  <1>4. <<>> \in Seq(Lists \cup {"nvidia"})
    BY Empty
  <1>5. (IF request.nvidia THEN <<"nvidia">> ELSE <<>>) \in Seq(Lists \cup {"nvidia"})
    BY <1>3, <1>4
  <1> QED
    BY <1>2, <1>5 DEF Requested

LEMMA IncludedIsOfLists ==
  ASSUME request \in Requests
  PROVE  Included \in SUBSET Lists
  <1>2. DOMAIN Requested \subseteq Nat \ {0}
    BY RequestedIsASequence
  <1>3. ASSUME NEW k \in DOMAIN Requested,
               \A j \in 1..k : Requested[j] \in Present
        PROVE  Requested[k] \in Lists
    <2>1. k \in 1..k
      BY <1>2
    <2> QED
      BY <1>3, <2>1
  <1> QED
    BY <1>3 DEF Included

(* Nothing is lost when every list asked for has a file.                   *)
LEMMA AllPresent ==
  ASSUME request \in Requests, ToSet(Requested) \subseteq Present
  PROVE  Included = ToSet(Requested)
  <1>1. Requested \in Seq(Lists \cup {"nvidia"})
    BY RequestedIsASequence
  <1>2. \A k \in DOMAIN Requested : 1..k \subseteq DOMAIN Requested
    BY <1>1
  <1>3. \A k \in DOMAIN Requested : Requested[k] \in Present
    BY DEF ToSet
  <1>4. {k \in DOMAIN Requested : \A j \in 1..k : Requested[j] \in Present}
          = DOMAIN Requested
    BY <1>2, <1>3
  <1> QED
    BY <1>4 DEF Included, ToSet

(* A build is asked for its lists once.                                    *)
LEMMA ListsStay ==
  ASSUME UNCHANGED request
  PROVE  Included' = Included /\ ToSet(Requested)' = ToSet(Requested)
  BY DEF Included, Requested, ToSet

LEMMA BareIsARoot == TypeOK => Bare \in Roots
  BY DEF TypeOK, RunType, TreeType, FlagType, Bare, Roots

(* What a step that breaks off leaves is of the right shape.               *)
LEMMA BrokenOffKeepsShape ==
  ASSUME TypeOK, BrokenOff
  PROVE  /\ rootfs' \in Seq(Roots) /\ Len(rootfs') <= 1
         /\ iso' \in Seq([whole : BOOLEAN, tree : Trees]) /\ Len(iso') <= 1
  <1>1. <<Bare>> \in Seq(Roots) /\ Len(<<Bare>>) = 1
    BY BareIsARoot, One
  <1> DEFINE image == [whole |-> FALSE, tree |-> tree]
  <1>2. image \in [whole : BOOLEAN, tree : Trees]
    BY DEF TypeOK, TreeType
  <1>3. iso' = iso \/ iso' = <<image>>
    BY DEF BrokenOff
  <1>4. rootfs' = rootfs \/ rootfs' = <<Bare>>
    BY DEF BrokenOff
  <1> HIDE DEF image
  <1>5. <<image>> \in Seq([whole : BOOLEAN, tree : Trees]) /\ Len(<<image>>) = 1
    BY <1>2, One
  <1>6. rootfs' \in Seq(Roots) /\ Len(rootfs') <= 1
    <2>1. rootfs \in Seq(Roots) /\ Len(rootfs) <= 1
      BY DEF TypeOK, TreeType
    <2>2. CASE rootfs' = rootfs
      BY <2>1, <2>2, Zenon
    <2>3. CASE rootfs' = <<Bare>>
      <3>1. Len(rootfs') <= 1
        BY <1>1, <2>3
      <3> QED
        BY <1>1, <2>3, <3>1, Zenon
    <2> QED
      BY <1>4, <2>2, <2>3
  <1>7. iso' \in Seq([whole : BOOLEAN, tree : Trees]) /\ Len(iso') <= 1
    <2>1. iso \in Seq([whole : BOOLEAN, tree : Trees]) /\ Len(iso) <= 1
      BY DEF TypeOK, TreeType
    <2>2. CASE iso' = iso
      BY <2>1, <2>2, Zenon
    <2>3. CASE iso' = <<image>>
      <3>1. Len(iso') <= 1
        BY <1>5, <2>3
      <3> QED
        BY <1>5, <2>3, <3>1, Zenon
    <2> QED
      BY <1>3, <2>2, <2>3
  <1> QED
    BY <1>6, <1>7

LEMMA InitEstablishes == Init => IInv
  <1> SUFFICES ASSUME Init PROVE IInv
    OBVIOUS
  <1>0. NoTree \in Trees
    BY Empty DEF NoTree, Trees
  <1>1. TypeOK
    <2>1. RunType
      BY DEF Init, RunType
    <2>3. FlagType
      BY DEF Init, FlagType
    <2>2. TreeType
      BY <1>0, NothingYet DEF Init, TreeType
    <2> QED
      BY <2>1, <2>2, <2>3 DEF TypeOK
  <1>2. Mounted /\ Made
    BY DEF Init, Mounted, Made
  <1>3. DevicesAreSafe /\ SuccessIsWhole /\ NothingLeftBehind
    BY DEF Init, DevicesAreSafe, SuccessIsWhole, NothingLeftBehind
  <1> QED
    BY <1>1, <1>2, <1>3 DEF IInv

(* The properties while a build runs.                                      *)
LEMMA Running ==
  ASSUME DevicesAreSafe, UNCHANGED <<hostDev, stuck, orphaned>>,
         result' \notin {"ok"}, pc' # "idle"
  PROVE  DevicesAreSafe' /\ SuccessIsWhole' /\ NothingLeftBehind'
  BY DEF DevicesAreSafe, SuccessIsWhole, NothingLeftBehind

-----------------------------------------------------------------------------
(* The steps of main.                                                      *)

LEMMA StartKeeps ==
  ASSUME IInv, Start
  PROVE  IInv'
  <1>1. TypeOK'
    <2>1. RunType'
      BY DEF Start, IInv, TypeOK, RunType
    <2>2. TreeType'
      BY DEF Start, IInv, TypeOK, TreeType
    <2>3. FlagType'
      BY DEF Start, IInv, TypeOK, FlagType
    <2> QED
      BY <2>1, <2>2, <2>3 DEF TypeOK
  <1>2. Mounted' /\ Made'
    BY DEF Start, IInv, Mounted, Made
  <1>3. DevicesAreSafe' /\ SuccessIsWhole' /\ NothingLeftBehind'
    BY DEF Start, IInv, DevicesAreSafe, SuccessIsWhole, NothingLeftBehind
  <1> QED
    BY <1>1, <1>2, <1>3 DEF IInv

LEMMA CleanKeeps ==
  ASSUME IInv, Clean
  PROVE  IInv'
  <1>0. NoTree \in Trees
    BY Empty DEF NoTree, Trees
  <1>1. TypeOK'
    <2>1. RunType'
      BY DEF Clean, IInv, TypeOK, RunType
    <2>2. TreeType'
      BY <1>0, NothingYet DEF Clean, IInv, TypeOK, TreeType
    <2>3. FlagType'
      BY DEF Clean, IInv, TypeOK, FlagType
    <2> QED
      BY <2>1, <2>2, <2>3 DEF TypeOK
  <1>2. Mounted' /\ Made'
    BY DEF Clean, IInv, TypeOK, RunType, TreeType, FlagType, Mounted, Made
  <1>3. result' # "ok" /\ pc' # "idle"
    BY DEF Clean, IInv, Made
  <1>4. DevicesAreSafe'
    BY DEF Clean, IInv, Mounted, DevicesAreSafe
  <1>5. SuccessIsWhole' /\ NothingLeftBehind'
    BY <1>3 DEF SuccessIsWhole, NothingLeftBehind
  <1> QED
    BY <1>1, <1>2, <1>4, <1>5 DEF IInv

(* A step of main leaves what it does not say alone.                       *)
LEMMA StepKeeps ==
  ASSUME IInv, NEW from \in Steps, NEW to \in Steps, Step(from, to)
  PROVE  DevicesAreSafe' /\ SuccessIsWhole' /\ NothingLeftBehind'
  <1>1. /\ UNCHANGED <<hostDev, stuck, orphaned>> /\ pc' = to
        /\ result = "running" /\ UNCHANGED result
    BY DEF Step, IInv, Made
  <1> QED
    BY <1>1, Running DEF IInv

LEMMA BuildKeeps ==
  ASSUME IInv, Build
  PROVE  IInv'
  <1> USE DEF Step
  <1>0. UNCHANGED request
    BY DEF Build, Clean, Bootstrap, Configure, MountDev, UpdateInitramfs, UmountDev,
           CopyKernel, BuildSquashfs, BuildLoaders, BuildISO
  <1>L. Included' = Included
    BY <1>0, ListsStay
  <1>1. CASE Clean
    BY <1>1, CleanKeeps
  <1>2. CASE Bootstrap
    <2>1. DevicesAreSafe' /\ SuccessIsWhole' /\ NothingLeftBehind'
      BY <1>2, StepKeeps DEF Bootstrap
    <2> DEFINE root == [Bare EXCEPT !.lists = Included]
    <2>2. root \in Roots /\ root.run = number /\ root.lists = Included
      BY BareIsARoot, IncludedIsOfLists DEF IInv, TypeOK, RunType, TreeType, FlagType, Bare, Roots
    <2> HIDE DEF root
    <2>3. rootfs' = <<root>>
      BY <1>2 DEF Bootstrap, root
    <2>4. TypeOK'
      <3>1. rootfs' \in Seq(Roots) /\ Len(rootfs') <= 1
        BY <2>2, <2>3, One
      <3> QED
        BY <1>2, <3>1 DEF Bootstrap, IInv, TypeOK, RunType, TreeType, FlagType
    <2>5. Mounted' /\ Made'
      BY <1>L, <1>2, <2>2, <2>3 DEF Bootstrap, IInv, Mounted, Made
    <2> QED
      BY <2>1, <2>4, <2>5 DEF IInv
  <1>3. CASE Configure
    <2>1. DevicesAreSafe' /\ SuccessIsWhole' /\ NothingLeftBehind'
      BY <1>3, StepKeeps DEF Configure
    <2>2. rootfs[1] \in Roots /\ rootfs[1].run = number /\ rootfs[1].lists = Included
      BY <1>3, First DEF Configure, IInv, TypeOK, RunType, TreeType, Made
    <2> DEFINE root == [rootfs[1] EXCEPT !.agent = agent]
    <2>3. /\ root \in Roots /\ root.run = number /\ root.lists = Included
          /\ root.agent = agent
      BY <2>2 DEF IInv, TypeOK, RunType, TreeType, FlagType, Roots
    <2>4. agent \/ request.allowNoAgent
      BY <1>3 DEF Configure, Unable
    <2> HIDE DEF root
    <2>5. rootfs' = <<root>>
      BY <1>3 DEF Configure, root
    <2>6. TypeOK'
      <3>1. rootfs' \in Seq(Roots) /\ Len(rootfs') <= 1
        BY <2>3, <2>5, One
      <3> QED
        BY <1>3, <3>1 DEF Configure, IInv, TypeOK, RunType, TreeType, FlagType
    <2>7. Mounted' /\ Made'
      BY <1>L, <1>3, <2>3, <2>4, <2>5 DEF Configure, IInv, Mounted, Made
    <2> QED
      BY <2>1, <2>6, <2>7 DEF IInv
  <1>4. CASE MountDev
    <2>1. DevicesAreSafe' /\ SuccessIsWhole' /\ NothingLeftBehind'
      BY <1>4, StepKeeps DEF MountDev
    <2>2. mounts = 0
      BY <1>4 DEF MountDev, IInv, Mounted
    <2>3. TypeOK' /\ Mounted' /\ Made'
      BY <1>L, <1>4, <2>2 DEF MountDev, IInv, TypeOK, RunType, TreeType, FlagType, Mounted, Made
    <2> QED
      BY <2>1, <2>3 DEF IInv
  <1>5. CASE UpdateInitramfs
    <2>1. DevicesAreSafe' /\ SuccessIsWhole' /\ NothingLeftBehind'
      BY <1>5, StepKeeps DEF UpdateInitramfs
    <2>2. /\ rootfs[1] \in Roots /\ rootfs[1].run = number
          /\ rootfs[1].lists = Included
          /\ rootfs[1].agent \/ request.allowNoAgent
      BY <1>5, First DEF UpdateInitramfs, IInv, TypeOK, RunType, TreeType, Made
    <2> DEFINE root == [rootfs[1] EXCEPT !.initrd = TRUE]
    <2>3. root \in Roots /\ root.run = number /\ root.initrd
          /\ root.lists = Included /\ root.agent = rootfs[1].agent
      BY <2>2 DEF Roots
    <2> HIDE DEF root
    <2>4. rootfs' = <<root>>
      BY <1>5 DEF UpdateInitramfs, root
    <2>5. TypeOK'
      <3>1. rootfs' \in Seq(Roots) /\ Len(rootfs') <= 1
        BY <2>3, <2>4, One
      <3> QED
        BY <1>5, <3>1 DEF UpdateInitramfs, IInv, TypeOK, RunType, TreeType, FlagType
    <2>6. Mounted'
      BY <1>5 DEF UpdateInitramfs, IInv, Mounted
    <2>7. pc' = "umount" /\ result' = "running" /\ UNCHANGED <<number, request>>
      BY <1>5 DEF UpdateInitramfs, IInv, Made
    <2>8. Len(rootfs') = 1 /\ rootfs'[1] = root
      BY <2>4
    <2>9. Made'
      BY <1>L, <2>2, <2>3, <2>7, <2>8 DEF Made
    <2> QED
      BY <2>1, <2>5, <2>6, <2>9 DEF IInv
  <1>6. CASE UmountDev
    <2>1. DevicesAreSafe' /\ SuccessIsWhole' /\ NothingLeftBehind'
      BY <1>6, StepKeeps DEF UmountDev
    <2>2. mounts = 1
      BY <1>6 DEF UmountDev, IInv, Mounted
    <2>3. TypeOK' /\ Mounted' /\ Made'
      BY <1>L, <1>6, <2>2 DEF UmountDev, IInv, TypeOK, RunType, TreeType, FlagType, Mounted, Made
    <2> QED
      BY <2>1, <2>3 DEF IInv
  <1>7. CASE CopyKernel
    <2>1. DevicesAreSafe' /\ SuccessIsWhole' /\ NothingLeftBehind'
      BY <1>7, StepKeeps DEF CopyKernel
    <2>2. rootfs[1] \in Roots /\ rootfs[1].initrd
      BY <1>7, First DEF CopyKernel, IInv, TypeOK, RunType, TreeType, Made
    <2>3. tree' \in Trees /\ tree'.initrd
      BY <1>7, <2>2 DEF CopyKernel, IInv, TypeOK, RunType, TreeType, FlagType, Trees, Roots
    <2>4. TypeOK' /\ Mounted' /\ Made'
      BY <1>L, <1>7, <2>3 DEF CopyKernel, IInv, TypeOK, RunType, TreeType, FlagType, Mounted, Made
    <2> QED
      BY <2>1, <2>4 DEF IInv
  <1>8. CASE BuildSquashfs
    <2>1. DevicesAreSafe' /\ SuccessIsWhole' /\ NothingLeftBehind'
      BY <1>8, StepKeeps DEF BuildSquashfs
    <2>2. /\ rootfs[1] \in Roots /\ rootfs[1].run = number
          /\ rootfs[1].lists = Included
          /\ rootfs[1].agent \/ request.allowNoAgent
          /\ mounts = 0 /\ tree.initrd
      BY <1>8, First DEF BuildSquashfs, IInv, TypeOK, RunType, TreeType, Made, Mounted
    <2> DEFINE image == [run |-> rootfs[1].run, lists |-> rootfs[1].lists,
                         agent |-> rootfs[1].agent, devices |-> mounts > 0]
    <2>3. /\ image \in Images /\ image.run = number /\ ~image.devices
          /\ image.lists = Included /\ image.agent = rootfs[1].agent
      <3>1. /\ image.run = number /\ image.lists = rootfs[1].lists
            /\ image.agent = rootfs[1].agent /\ image.devices = (mounts > 0)
        BY <2>2
      <3>2. (mounts > 0) = FALSE
        BY <2>2
      <3>3. image \in Images
        BY <2>2, <3>2 DEF Images, Roots
      <3> QED
        BY <2>2, <3>1, <3>2, <3>3
    <2> HIDE DEF image
    <2>4. tree' = [tree EXCEPT !.root = <<image>>]
      BY <1>8 DEF BuildSquashfs, image
    <2>5. /\ tree' \in Trees /\ tree'.root = <<image>> /\ tree'.initrd
      BY <2>2, <2>3, <2>4, One DEF IInv, TypeOK, TreeType, Trees
    <2>6. TypeOK' /\ Mounted'
      BY <1>8, <2>5 DEF BuildSquashfs, IInv, TypeOK, RunType, TreeType, FlagType, Mounted
    <2>7. Made'
      BY <1>L, <1>8, <2>2, <2>3, <2>5 DEF BuildSquashfs, IInv, Made
    <2> QED
      BY <2>1, <2>6, <2>7 DEF IInv
  <1>9. CASE BuildLoaders
    <2>1. DevicesAreSafe' /\ SuccessIsWhole' /\ NothingLeftBehind'
      BY <1>9, StepKeeps DEF BuildLoaders
    <2>2. /\ tree' \in Trees /\ tree'.loaders
          /\ tree'.root = tree.root /\ tree'.initrd = tree.initrd
      BY <1>9 DEF BuildLoaders, IInv, TypeOK, RunType, TreeType, FlagType, Trees
    <2>3. TypeOK' /\ Mounted' /\ Made'
      BY <1>L, <1>9, <2>2 DEF BuildLoaders, IInv, TypeOK, RunType, TreeType, FlagType, Mounted, Made
    <2> QED
      BY <2>1, <2>3 DEF IInv
  <1>10. CASE BuildISO
    <2> DEFINE image == [whole |-> TRUE, tree |-> tree]
    <2>1. image \in [whole : BOOLEAN, tree : Trees] /\ image.whole /\ image.tree = tree
      BY DEF IInv, TypeOK, RunType, TreeType, FlagType
    <2> HIDE DEF image
    <2>2. iso' = <<image>>
      BY <1>10 DEF BuildISO, image
    <2>3. TypeOK'
      <3>1. /\ iso' \in Seq([whole : BOOLEAN, tree : Trees]) /\ Len(iso') <= 1
        BY <2>1, <2>2, One
      <3> QED
        BY <1>10, <3>1 DEF BuildISO, IInv, TypeOK, RunType, TreeType, FlagType
    <2>4. Mounted' /\ Made'
      BY <1>10 DEF BuildISO, IInv, Mounted, Made
    <2>5. SuccessIsWhole'
      <3>1. /\ tree.initrd /\ tree.loaders /\ Len(tree.root) = 1
            /\ tree.root[1].run = number /\ ~tree.root[1].devices
            /\ tree.root[1].lists = Included
            /\ tree.root[1].agent \/ request.allowNoAgent
        BY <1>10 DEF BuildISO, IInv, Made
      <3>2. iso' # <<>> /\ iso'[1] = image
        BY <2>2
      <3>3. tree.root # <<>>
        BY <3>1
      <3>4. (ToSet(Requested) \subseteq Present)' => tree.root[1].lists = ToSet(Requested)'
        BY <1>0, <3>1, ListsStay, AllPresent DEF IInv, TypeOK, RunType
      <3> QED
        BY <1>10, <2>1, <3>1, <3>2, <3>3, <3>4 DEF BuildISO, SuccessIsWhole
    <2>6. DevicesAreSafe' /\ NothingLeftBehind'
      BY <1>10 DEF BuildISO, IInv, DevicesAreSafe, NothingLeftBehind
    <2> QED
      BY <2>3, <2>4, <2>5, <2>6 DEF IInv
  <1> QED
    BY <1>1, <1>2, <1>3, <1>4, <1>5, <1>6, <1>7, <1>8, <1>9, <1>10 DEF Build

-----------------------------------------------------------------------------
(* Failures, the trap and the kill.                                        *)

LEMMA FailureKeeps ==
  ASSUME IInv, StepFails
  PROVE  IInv'
  <1>1. /\ pc \in Steps /\ pc' = "unmount" /\ result' = "failed"
        /\ UNCHANGED <<run, mounts, tree, hostDev, stuck, orphaned>>
        /\ BrokenOff
    BY DEF StepFails
  <1>2. TypeOK'
    BY <1>1, BrokenOffKeepsShape DEF IInv, TypeOK, RunType, TreeType, FlagType
  <1>3. Mounted' /\ Made'
    BY <1>1 DEF IInv, Mounted, Made
  <1>4. DevicesAreSafe' /\ SuccessIsWhole' /\ NothingLeftBehind'
    BY <1>1, Running DEF IInv
  <1> QED
    BY <1>2, <1>3, <1>4 DEF IInv

LEMMA TrapKeeps ==
  ASSUME IInv, TrapUnmount \/ TrapRemove
  PROVE  IInv'
  <1>1. CASE TrapUnmount
    <2>1. TypeOK'
      <3>1. RunType'
        BY <1>1 DEF TrapUnmount, IInv, TypeOK, RunType
      <3>2. TreeType'
        BY <1>1 DEF TrapUnmount, IInv, TypeOK, TreeType
      <3>3. FlagType'
        <4>1. stuck' = stuck \/ stuck' = stuck \cup {number}
          BY <1>1 DEF TrapUnmount
        <4>2. stuck' \in SUBSET (0..MaxRuns)
          BY <4>1 DEF IInv, TypeOK, RunType, FlagType
        <4> QED
          BY <1>1, <4>2 DEF TrapUnmount, IInv, TypeOK, FlagType
      <3> QED
        BY <3>1, <3>2, <3>3 DEF TypeOK
    <2>2. Mounted' /\ Made'
      BY <1>1 DEF TrapUnmount, IInv, TypeOK, RunType, TreeType, FlagType, Mounted, Made
    <2>3. DevicesAreSafe' /\ SuccessIsWhole' /\ NothingLeftBehind'
      BY <1>1, ListsStay DEF TrapUnmount, IInv, DevicesAreSafe, SuccessIsWhole,
                  NothingLeftBehind
    <2> QED
      BY <2>1, <2>2, <2>3 DEF IInv
  <1>2. CASE TrapRemove
    <2>1. TypeOK'
      <3>1. RunType'
        BY <1>2 DEF TrapRemove, IInv, TypeOK, RunType
      <3>2. TreeType'
        BY <1>2, NothingYet DEF TrapRemove, IInv, TypeOK, TreeType
      <3>3. FlagType'
        BY <1>2 DEF TrapRemove, IInv, TypeOK, FlagType
      <3> QED
        BY <3>1, <3>2, <3>3 DEF TypeOK
    <2>2. Mounted' /\ Made'
      BY <1>2 DEF TrapRemove, IInv, TypeOK, RunType, TreeType, FlagType, Mounted, Made
    <2>3. DevicesAreSafe'
      <3>1. mounts = 0 \/ mounts > 0
        BY DEF IInv, TypeOK, TreeType
      <3>2. mounts > 0 => number \in stuck
        BY <1>2 DEF TrapRemove, IInv, Mounted
      <3>3. UNCHANGED <<stuck, orphaned>>
        BY <1>2 DEF TrapRemove
      <3>4. mounts = 0 => hostDev' = hostDev \/ hostDev' = (hostDev /\ mounts = 0)
        BY <1>2 DEF TrapRemove
      <3>5. CASE mounts > 0
        BY <3>2, <3>3, <3>5 DEF DevicesAreSafe
      <3>6. CASE mounts = 0
        BY <3>3, <3>4, <3>6 DEF IInv, DevicesAreSafe
      <3> QED
        BY <3>1, <3>5, <3>6
    <2>4. SuccessIsWhole'
      BY <1>2, ListsStay DEF TrapRemove, IInv, SuccessIsWhole
    <2>5. NothingLeftBehind'
      BY <1>2 DEF TrapRemove, IInv, TypeOK, RunType, TreeType, FlagType, Mounted, NothingLeftBehind
    <2> QED
      BY <2>1, <2>2, <2>3, <2>4, <2>5 DEF IInv
  <1> QED
    BY <1>1, <1>2

LEMMA KilledKeeps ==
  ASSUME IInv, Killed
  PROVE  IInv'
  <1>1. TypeOK'
    <2>1. orphaned' \in BOOLEAN
      BY DEF Killed
    <2> QED
      BY <2>1, BrokenOffKeepsShape DEF Killed, IInv, TypeOK, RunType, TreeType, FlagType
  <1>2. Mounted' /\ Made'
    BY DEF Killed, IInv, Mounted, Made
  <1>3. DevicesAreSafe' /\ SuccessIsWhole' /\ NothingLeftBehind'
    BY DEF Killed, IInv, DevicesAreSafe, SuccessIsWhole, NothingLeftBehind
  <1> QED
    BY <1>1, <1>2, <1>3 DEF IInv

LEMMA NextKeeps == IInv /\ [Next]_vars => IInv'
  <1> SUFFICES ASSUME IInv, [Next]_vars PROVE IInv'
    OBVIOUS
  <1>1. CASE Finished \/ UNCHANGED vars
    <2>1. UNCHANGED vars
      BY <1>1 DEF Finished
    <2>2. Included' = Included /\ ToSet(Requested)' = ToSet(Requested)
      BY <2>1, ListsStay DEF vars
    <2> QED
      BY <2>1, <2>2 DEF vars, IInv, TypeOK, RunType, TreeType, FlagType, Mounted, Made, DevicesAreSafe,
                  SuccessIsWhole, NothingLeftBehind
  <1> QED
    BY <1>1, StartKeeps, BuildKeeps, FailureKeeps, TrapKeeps, KilledKeeps DEF Next

-----------------------------------------------------------------------------
(* The theorems.                                                           *)

\* Where /dev is mounted, and what each step finds done, whatever builds came
\* before and however they ended (build.sh:156-172, 284-303).
THEOREM InductiveInvariant == Spec => []IInv
  BY InitEstablishes, NextKeeps, PTL DEF Spec

\* The state keeps its shape; /dev is never mounted twice.
THEOREM TypeCorrect == Spec => []TypeOK
  <1>1. IInv => TypeOK
    BY DEF IInv
  <1> QED
    BY <1>1, InductiveInvariant, PTL

\* No rm goes through the bind mount unless umount failed or a build was
\* killed without its trap (build.sh:275-292).
THEOREM HostDevicesSurvive == Spec => []DevicesAreSafe
  <1>1. IInv => DevicesAreSafe
    BY DEF IInv
  <1> QED
    BY <1>1, InductiveInvariant, PTL

\* Success means a whole image of this build's own making (build.sh:284-303).
THEOREM SuccessTellsTheTruth == Spec => []SuccessIsWhole
  <1>1. IInv => SuccessIsWhole
    BY DEF IInv
  <1> QED
    BY <1>1, InductiveInvariant, PTL

\* A success leaves no mount and no tree it was not told to keep, and a failure
\* no mount that its trap could have taken off (build.sh:275-282).
THEOREM TrapCleansUp == Spec => []NothingLeftBehind
  <1>1. IInv => NothingLeftBehind
    BY DEF IInv
  <1> QED
    BY <1>1, InductiveInvariant, PTL
=============================================================================
