----------------------------- MODULE BootProofs -----------------------------
(***************************************************************************)
(* Proofs about Boot.tla, for any devices, any number of rounds and any    *)
(* number of times a device is plugged in or pulled out.                   *)
(***************************************************************************)
EXTENDS Boot, TLAPS

USE DevicesAssumption, BoundsAssumption
USE DEF search, mounts, stack, world, Lines

LEMMA InitEstablishes == Init => IInv
  <1> SUFFICES ASSUME Init PROVE IInv
    OBVIOUS
  <1>1. TypeOK
    <2>1. waited \in 0..Tries /\ plugs \in 0..MaxPlugs
      BY DEF Init
    <2> QED
      BY <2>1 DEF Init, TypeOK
  <1>2. MountsInOrder /\ FailuresAreNoted /\ RoundIsComplete /\ LayersInOrder
        /\ NotFoundMeansAbsent
    BY DEF Init, MountsInOrder, FailuresAreNoted, RoundIsComplete, LayersInOrder,
           NotFoundMeansAbsent, Searching, Found
  <1> QED
    BY <1>1, <1>2 DEF IInv

(* Calling panic keeps the invariant, whatever line it is called at, when  *)
(* no medium was there to be found or one has been found.                  *)
LEMMA FailKeeps ==
  ASSUME IInv, NEW next \in {"copy", "announce", "overlay", "done"}, Fail(next),
         next = "copy" => steady \cap Carriers \subseteq refused,
         UNCHANGED <<keep, search, mounts, stack, removable, world>>
  PROVE  IInv'
  <1> USE DEF IInv, Fail
  <1>1. TypeOK'
    BY DEF TypeOK
  <1>2. MountsInOrder' /\ LayersInOrder'
    BY DEF MountsInOrder, LayersInOrder
  <1>3. FailuresAreNoted' /\ RoundIsComplete' /\ NotFoundMeansAbsent'
    BY DEF FailuresAreNoted, RoundIsComplete, NotFoundMeansAbsent, Searching
  <1> QED
    BY <1>1, <1>2, <1>3

(* find_medium, one round after the other.                                 *)
LEMMA FindMediumKeeps ==
  ASSUME IInv, FindMedium
  PROVE  IInv'
  <1> USE DEF IInv, Continue
  <1> USE DEF MountsInOrder, FailuresAreNoted, RoundIsComplete, LayersInOrder,
              NotFoundMeansAbsent, Searching, Found
  <1>1. CASE ListDevices
    BY <1>1 DEF ListDevices, TypeOK
  <1>2. ASSUME NEW d \in Devices, SkipDevice(d) PROVE IInv'
    <2>1. TypeOK'
      BY <1>2 DEF SkipDevice, NextCandidate, TypeOK
    <2>2. seen' \cap steady' \cap Carriers \subseteq refused'
      BY <1>2 DEF SkipDevice, TypeOK
    <2> QED
      BY <1>2, <2>1, <2>2 DEF SkipDevice
  <1>3. ASSUME NEW d \in Devices, MountDevice(d) PROVE IInv'
    <2>1. TypeOK'
      BY <1>3 DEF MountDevice, NextCandidate, TypeOK
    <2> QED
      BY <1>3, <2>1 DEF MountDevice, TypeOK
  <1>4. CASE FindPayload
    <2>1. TypeOK'
      BY <1>4 DEF FindPayload, TypeOK
    <2> QED
      BY <1>4, <2>1 DEF FindPayload
  <1>5. CASE NoPayload
    <2>1. TypeOK'
      BY <1>5 DEF NoPayload, TypeOK
    <2>2. under' \cap Carriers = {}
      BY <1>5 DEF NoPayload
    <2>3. seen' \cap steady' \cap Carriers \subseteq refused'
      BY <1>5 DEF NoPayload
    <2>4. MountsInOrder'
      BY <1>5, <2>2 DEF NoPayload
    <2>5. RoundIsComplete'
      BY <1>5, <2>3 DEF NoPayload
    <2>6. FailuresAreNoted' /\ LayersInOrder' /\ NotFoundMeansAbsent'
      BY <1>5 DEF NoPayload
    <2> QED
      BY <2>1, <2>4, <2>5, <2>6
  <1>6. CASE Sleep
    <2>1. waited' \in 0..Tries
      BY <1>6 DEF Sleep, TypeOK
    <2>2. TypeOK'
      BY <1>6, <2>1 DEF Sleep, TypeOK
    <2>3. steady' \cap Carriers \subseteq refused'
      BY <1>6 DEF Sleep
    <2>4. MountsInOrder' /\ RoundIsComplete'
      BY <1>6, <2>3 DEF Sleep
    <2>5. FailuresAreNoted' /\ LayersInOrder' /\ NotFoundMeansAbsent'
      BY <1>6 DEF Sleep
    <2> QED
      BY <2>2, <2>4, <2>5
  <1>7. CASE NothingFound
    BY <1>7, FailKeeps DEF NothingFound
  <1> QED
    BY <1>1, <1>2, <1>3, <1>4, <1>5, <1>6, <1>7 DEF FindMedium

(* mountroot from the copy on.                                             *)
LEMMA MountrootKeeps ==
  ASSUME IInv, Script, ~FindMedium
  PROVE  IInv'
  <1> USE DEF IInv, Continue
  <1> USE DEF MountsInOrder, FailuresAreNoted, RoundIsComplete, LayersInOrder,
              NotFoundMeansAbsent, Searching, Found
  <1>1. CASE CopyToRam
    BY <1>1 DEF CopyToRam, TypeOK
  <1>2. CASE Unmount
    <2>1. TypeOK'
      BY <1>2 DEF Unmount, TypeOK
    <2> QED
      BY <1>2, <2>1 DEF Unmount
  <1>3. CASE UnmountFails
    BY <1>3, FailKeeps DEF UnmountFails
  <1>4. CASE Announce
    BY <1>4 DEF Announce, TypeOK
  <1>5. CASE MountImage
    BY <1>5 DEF MountImage, TypeOK
  <1>6. CASE MountImageFails
    BY <1>6, FailKeeps DEF MountImageFails
  <1>7. CASE StackOverlay
    BY <1>7 DEF StackOverlay, TypeOK
  <1>8. CASE StackOverlayFails
    BY <1>8, FailKeeps DEF StackOverlayFails
  <1> QED
    BY <1>1, <1>2, <1>3, <1>4, <1>5, <1>6, <1>7, <1>8 DEF Script

(* The person may do anything at any line.                                 *)
LEMMA PersonKeeps ==
  ASSUME IInv, LeaveShell \/ \E d \in Devices : PlugIn(d) \/ PullOut(d)
  PROVE  IInv'
  <1> USE DEF IInv
  <1> USE DEF MountsInOrder, FailuresAreNoted, RoundIsComplete, LayersInOrder,
              NotFoundMeansAbsent, Searching, Found
  <1>1. CASE LeaveShell
    BY <1>1 DEF LeaveShell, TypeOK
  <1>2. ASSUME NEW d \in Devices, PlugIn(d) PROVE IInv'
    <2>1. plugs' \in 0..MaxPlugs
      BY <1>2 DEF PlugIn, TypeOK
    <2>2. TypeOK'
      BY <1>2, <2>1 DEF PlugIn, TypeOK
    <2>3. MountsInOrder' /\ RoundIsComplete'
      BY <1>2 DEF PlugIn
    <2> QED
      BY <1>2, <2>2, <2>3 DEF PlugIn
  <1>3. ASSUME NEW d \in Devices, PullOut(d) PROVE IInv'
    <2>1. plugs' \in 0..MaxPlugs
      BY <1>3 DEF PullOut, TypeOK
    <2>2. TypeOK'
      BY <1>3, <2>1 DEF PullOut, TypeOK
    <2>3. Gone \notin Carriers
      OBVIOUS
    <2>4. MountsInOrder'
      BY <1>3, <2>3 DEF PullOut, TypeOK
    <2> QED
      BY <1>3, <2>2, <2>4 DEF PullOut
  <1> QED
    BY <1>1, <1>2, <1>3

(***************************************************************************)
(* IInv is an invariant.                                                   *)
(***************************************************************************)
THEOREM InductiveInvariant == Spec => []IInv
  <1>1. IInv /\ [Next]_vars => IInv'
    <2> SUFFICES ASSUME IInv, [Next]_vars PROVE IInv'
      OBVIOUS
    <2>1. CASE Script
      BY <2>1, FindMediumKeeps, MountrootKeeps
    <2>2. CASE LeaveShell \/ \E d \in Devices : PlugIn(d) \/ PullOut(d)
      BY <2>2, PersonKeeps
    <2>3. CASE UNCHANGED vars
      BY <2>3 DEF vars, IInv, TypeOK, MountsInOrder, FailuresAreNoted,
         RoundIsComplete, LayersInOrder, NotFoundMeansAbsent, Searching, Found
    <2> QED
      BY <2>1, <2>2, <2>3 DEF Next, Finished
  <1> QED
    BY InitEstablishes, <1>1, PTL DEF Spec

(* Every variable of the script keeps its type, whoever plugs in what.     *)
THEOREM TypeCorrect == Spec => []TypeOK
  <1>1. IInv => TypeOK
    BY DEF IInv
  <1> QED
    BY InductiveInvariant, <1>1, PTL

(***************************************************************************)
(* A boot in which no step failed ends with the overlay on the whole image *)
(* in memory, however the copy went and whenever the stick was pulled out. *)
(***************************************************************************)
THEOREM BootsFromMemory == Spec => []RootIsInMemory
  <1>1. IInv => RootIsInMemory
    BY DEF IInv, LayersInOrder, RootIsInMemory
  <1> QED
    BY InductiveInvariant, <1>1, PTL

(***************************************************************************)
(* When the script says that the drive can be removed, no mount of it is   *)
(* left, although umount may have failed on any device probed before it.   *)
(***************************************************************************)
THEOREM DriveIsReleased == Spec => []ReleasedIsUnmounted
  <1>1. IInv => ReleasedIsUnmounted
    BY DEF IInv, TypeOK, MountsInOrder, Found, ReleasedIsUnmounted
  <1> QED
    BY InductiveInvariant, <1>1, PTL

(***************************************************************************)
(* find_medium never passes over a medium that is plugged in for a whole   *)
(* round: it tries each, and gives up only if none of them would mount.    *)
(***************************************************************************)
THEOREM SearchIsComplete == Spec => []NotFoundMeansAbsent
  <1>1. IInv => NotFoundMeansAbsent
    BY DEF IInv
  <1> QED
    BY InductiveInvariant, <1>1, PTL
=============================================================================
