-------------------------------- MODULE Boot --------------------------------
(***************************************************************************)
(* The initramfs boot script os/initramfs/scripts/phantom: mountroot finds *)
(* the medium that carries the compressed root, copies it into memory,     *)
(* releases the medium and stacks a writable overlay on the copy.          *)
(*                                                                         *)
(* The script is one process.  The other actor is the person with the      *)
(* sticks, who plugs them in and pulls them out at any moment, and who may *)
(* leave the shell that panic opens, in which case the script goes on with *)
(* the line after the failed one.  A device is a stick (or a disk or a     *)
(* partition); one that was pulled out and put back is a new device to the *)
(* kernel, so a mount left on the old one is Gone for good.                *)
(***************************************************************************)
EXTENDS Naturals

CONSTANTS
  Devices,    \* the block devices that may be there
  Carriers,   \* those with the payload at phantom.image
  Foreign,    \* those with a file system that mounts and no payload on it
  Labelled,   \* those whose label is phantom.label, whatever is on them
  None,       \* no device
  Gone,       \* the mount of a device that was pulled out
  Tries,      \* rounds of find_medium: 45 in the script
  MaxPlugs    \* bound: how often a device is plugged in or pulled out

ASSUME DevicesAssumption ==
  /\ Carriers \subseteq Devices
  /\ Foreign \subseteq Devices
  /\ Labelled \subseteq Devices
  /\ Carriers \cap Foreign = {}
  /\ None \notin Devices
  /\ Gone \notin Devices
  /\ None # Gone

ASSUME BoundsAssumption == Tries \in Nat \ {0} /\ MaxPlugs \in Nat

VARIABLES
  pc,         \* the line of mountroot the script is at
  back,       \* where it goes on if the person leaves the shell
  keep,       \* PHANTOM_KEEP_MEDIUM
  waited,     \* find_medium's counter of rounds
  list,       \* candidate_devices at the start of this round
  first,      \* the device the label's link led to, None once it was tried
  seen,       \* the devices this round has come to
  device,     \* the device find_medium echoed
  top,        \* what is mounted at MEDIUM, the topmost mount
  under,      \* mounts that a failed umount left under it
  image,      \* RAM/root.squashfs
  lower,      \* LOWER is the mounted image
  root,       \* what the overlay at rootmnt stands on
  removable,  \* "the drive can be removed now" has been said
  panics,     \* panic has been called
  present,    \* the devices plugged in
  plugs,      \* how often that has changed
  steady,     \* history: those plugged in since this round's list was made
  refused     \* history: those of them whose mount failed in this round

vars == <<pc, back, keep, waited, list, first, seen, device, top, under, image,
          lower, root, removable, panics, present, plugs, steady, refused>>

search == <<waited, list, first, seen, device>>
mounts == <<top, under>>
stack  == <<image, lower, root>>
world  == <<present, plugs, steady, refused>>

Lines == {"round", "probe", "test", "copy", "release", "announce", "squash",
          "overlay", "done"}

TypeOK ==
  /\ pc \in Lines \cup {"shell"}
  /\ back \in {"copy", "announce", "overlay", "done"}
  /\ keep \in BOOLEAN
  /\ waited \in 0..Tries
  /\ list \subseteq Devices
  /\ first \in list \cup {None}
  /\ seen \subseteq list
  /\ device \in Devices \cup {None}
  /\ top \in Devices \cup {None, Gone}
  /\ under \subseteq Devices \cup {Gone}
  /\ image \in {"none", "short", "whole"}
  /\ lower \in BOOLEAN
  /\ root \in {"none", "empty", "image"}
  /\ removable \in BOOLEAN
  /\ panics \in BOOLEAN
  /\ present \subseteq Devices
  /\ plugs \in 0..MaxPlugs
  /\ steady \subseteq present
  /\ refused \subseteq steady \cap seen

Init ==
  /\ pc = "round"
  /\ back = "done"
  /\ keep \in BOOLEAN
  /\ waited = 0
  /\ list = {}
  /\ first = None
  /\ seen = {}
  /\ device = None
  /\ top = None
  /\ under = {}
  /\ image = "none"
  /\ lower = FALSE
  /\ root = "none"
  /\ removable = FALSE
  /\ panics = FALSE
  /\ present \in SUBSET Devices
  /\ plugs = 0
  /\ steady = {}
  /\ refused = {}

(***************************************************************************)
(* fail "...": the reason goes to the console and panic opens a shell;     *)
(* next is the line the script is left to run if the shell is left.        *)
(***************************************************************************)
Fail(next) ==
  /\ pc' = "shell"
  /\ back' = next
  /\ panics' = TRUE

Continue(next) ==
  /\ pc' = next
  /\ UNCHANGED <<back, panics>>

-----------------------------------------------------------------------------
(* find_medium *)

\* Mutation: the label is trusted: devices without it are listed only if none has it.
ListByLabel ==
  /\ pc = "round"
  /\ waited < Tries
  /\ list' = IF present \cap Labelled # {} THEN present \cap Labelled ELSE present
  /\ seen' = {}
  /\ first' \in {None} \cup (list' \cap Labelled)
  /\ steady' = present
  /\ refused' = {}
  /\ Continue("probe")
  /\ UNCHANGED <<keep, waited, device, mounts, stack, removable, present, plugs>>

\* Mutation: seen is made once, in front of the loop, and not for every round.
ListOnce ==
  /\ pc = "round"
  /\ waited < Tries
  /\ list' = present
  /\ UNCHANGED seen
  /\ first' \in {None} \cup (list' \cap Labelled)
  /\ steady' = present
  /\ refused' = {}
  /\ Continue("probe")
  /\ UNCHANGED <<keep, waited, device, mounts, stack, removable, present, plugs>>

\* A round begins: seen is emptied and the candidates are listed once, first the
\* one that the label's link leads to, if there is a link by now.
ListDevices ==
  /\ pc = "round"
  /\ waited < Tries
  /\ list' = present
  /\ seen' = {}
  /\ first' \in {None} \cup (list' \cap Labelled)
  /\ steady' = present
  /\ refused' = {}
  /\ Continue("probe")
  /\ UNCHANGED <<keep, waited, device, mounts, stack, removable, present, plugs>>

\* Of several devices with the label the link leads to one; all but that one
\* follow in blkid's order.
NextCandidate(d) ==
  /\ d \in list \ seen
  /\ first \in {None, d}

\* The next device of the list is no longer there, or its mount fails: there is
\* no file system on it, or it is not ready, as a stick just plugged in may be.
SkipDevice(d) ==
  /\ pc = "probe"
  /\ NextCandidate(d)
  /\ seen' = seen \cup {d}
  /\ first' = None
  /\ refused' = refused \cup ({d} \cap steady)
  /\ UNCHANGED <<pc, back, keep, waited, list, device, mounts, stack,
                 removable, panics, present, plugs, steady>>

\* carries_payload mounts it over whatever is mounted at MEDIUM.
MountDevice(d) ==
  /\ pc = "probe"
  /\ NextCandidate(d)
  /\ d \in present \cap (Carriers \cup Foreign)
  /\ seen' = seen \cup {d}
  /\ first' = None
  /\ top' = d
  /\ under' = IF top = None THEN under ELSE under \cup {top}
  /\ Continue("test")
  /\ UNCHANGED <<keep, waited, list, device, stack, removable, world>>

\* The payload is there: the medium stays mounted and the search is over.
FindPayload ==
  /\ pc = "test"
  /\ top \in Carriers
  /\ device' = top
  /\ Continue("copy")
  /\ UNCHANGED <<keep, waited, list, first, seen, mounts, stack, removable, world>>

\* What was mounted is unmounted; if that fails the script does not care.
NoPayload ==
  /\ pc = "test"
  /\ top \notin Carriers
  /\ \/ top' = None /\ UNCHANGED under
     \/ top' = None /\ under' = under \cup {top}
  /\ Continue("probe")
  /\ UNCHANGED <<keep, search, stack, removable, world>>

\* Mutation: the round is not counted.
SleepForever ==
  /\ pc = "probe"
  /\ list \subseteq seen
  /\ Continue("round")
  /\ UNCHANGED <<keep, search, mounts, stack, removable, world>>

\* The list is exhausted: a second's sleep and another round.
Sleep ==
  /\ pc = "probe"
  /\ list \subseteq seen
  /\ waited' = waited + 1
  /\ Continue("round")
  /\ UNCHANGED <<keep, list, first, seen, device, mounts, stack, removable, world>>

\* After the last round find_medium returns 1 and mountroot fails.
NothingFound ==
  /\ pc = "round"
  /\ waited = Tries
  /\ Fail("copy")
  /\ UNCHANGED <<keep, search, mounts, stack, removable, world>>

-----------------------------------------------------------------------------
(* mountroot after the search *)

(***************************************************************************)
(* copy_to_ram: no command of it is checked.  From a live medium cp copies *)
(* the whole image, or a part of it when the stick goes away or the memory *)
(* runs out in the middle; from no medium it copies nothing.               *)
(***************************************************************************)
CopyToRam ==
  /\ pc = "copy"
  /\ image' \in IF top \in Carriers THEN {"short", "whole"} ELSE {"none"}
  /\ Continue(IF keep THEN "squash" ELSE "release")
  /\ UNCHANGED <<keep, search, mounts, lower, root, removable, world>>

\* umount "$MEDIUM" takes the topmost mount off, when there is one.
Unmount ==
  /\ pc = "release"
  /\ \/ /\ top # None
        /\ top' = None
        /\ UNCHANGED under
     \/ /\ top = None
        /\ \E d \in under : under' = under \ {d}
        /\ UNCHANGED top
  /\ Continue("announce")
  /\ UNCHANGED <<keep, search, stack, removable, world>>

\* Mutation: umount "$MEDIUM" || true, as in carries_payload.
UnmountFailsUnseen ==
  /\ pc = "release"
  /\ Continue("announce")
  /\ UNCHANGED <<keep, search, mounts, stack, removable, world>>

\* It fails, for want of a mount or because the mount is busy.
UnmountFails ==
  /\ pc = "release"
  /\ Fail("announce")
  /\ UNCHANGED <<keep, search, mounts, stack, removable, world>>

Announce ==
  /\ pc = "announce"
  /\ removable' = TRUE
  /\ Continue("squash")
  /\ UNCHANGED <<keep, search, mounts, stack, world>>

(***************************************************************************)
(* The loop mount of the copy.  The kernel refuses a squashfs image that   *)
(* is shorter than its superblock says.                                    *)
(***************************************************************************)
MountImage ==
  /\ pc = "squash"
  /\ image = "whole"
  /\ lower' = TRUE
  /\ Continue("overlay")
  /\ UNCHANGED <<keep, search, mounts, image, root, removable, world>>

\* Mutation: the loop mount is not followed by || fail.
MountImageFailsUnseen ==
  /\ pc = "squash"
  /\ Continue("overlay")
  /\ UNCHANGED <<keep, search, mounts, stack, removable, world>>

MountImageFails ==
  /\ pc = "squash"
  /\ Fail("overlay")
  /\ UNCHANGED <<keep, search, mounts, stack, removable, world>>

\* The overlay does not mind an empty lower directory.
StackOverlay ==
  /\ pc = "overlay"
  /\ root' = IF lower THEN "image" ELSE "empty"
  /\ Continue("done")
  /\ UNCHANGED <<keep, search, mounts, image, lower, removable, world>>

StackOverlayFails ==
  /\ pc = "overlay"
  /\ Fail("done")
  /\ UNCHANGED <<keep, search, mounts, stack, removable, world>>

-----------------------------------------------------------------------------
(* The person at the machine *)

\* External: panic returns when its shell is left.
LeaveShell ==
  /\ pc = "shell"
  /\ pc' = back
  /\ UNCHANGED <<back, keep, search, mounts, stack, removable, panics, world>>

PlugIn(d) ==
  /\ plugs < MaxPlugs
  /\ d \notin present
  /\ present' = present \cup {d}
  /\ plugs' = plugs + 1
  /\ UNCHANGED <<pc, back, keep, search, mounts, stack, removable, panics, steady,
                 refused>>

\* The mounts of a device that is pulled out outlive it, and read nothing.
PullOut(d) ==
  /\ plugs < MaxPlugs
  /\ d \in present
  /\ present' = present \ {d}
  /\ steady' = steady \ {d}
  /\ refused' = refused \ {d}
  /\ plugs' = plugs + 1
  /\ top' = IF top = d THEN Gone ELSE top
  /\ under' = IF d \in under THEN (under \ {d}) \cup {Gone} ELSE under
  /\ UNCHANGED <<pc, back, keep, search, stack, removable, panics>>

Finished == pc = "done" /\ UNCHANGED vars

FindMedium ==
  \/ ListDevices
  \/ \E d \in Devices : SkipDevice(d) \/ MountDevice(d)
  \/ FindPayload
  \/ NoPayload
  \/ Sleep
  \/ NothingFound

Script ==
  \/ FindMedium
  \/ CopyToRam
  \/ Unmount \/ UnmountFails \/ Announce
  \/ MountImage \/ MountImageFails
  \/ StackOverlay \/ StackOverlayFails

Next ==
  \/ Script
  \/ LeaveShell
  \/ \E d \in Devices : PlugIn(d) \/ PullOut(d)
  \/ Finished

Spec == Init /\ [][Next]_vars

(***************************************************************************)
(* The kernel keeps running the script.  Nobody has to leave a shell, plug *)
(* anything in or pull anything out.                                       *)
(***************************************************************************)
FairSpec == Spec /\ WF_vars(Script)

-----------------------------------------------------------------------------
(* Properties *)

\* When the script says that the root is in memory, and no step failed, the
\* overlay stands on the whole image, wherever the medium has gone meanwhile.
RootIsInMemory ==
  pc = "done" /\ ~panics => root = "image" /\ image = "whole"

\* When the script says the drive can be removed, and umount has not failed in
\* front of it, no live mount of the boot medium is left, whatever probing left
\* behind at the same mount point.
ReleasedIsUnmounted ==
  removable /\ ~panics => device # None /\ device \notin {top} \cup under

\* find_medium gives up only if the last round tried every medium with the
\* payload that was plugged in for the whole of it, and none of them would mount
\* ("The authoritative test is whether a device actually carries the payload",
\* scripts/phantom:62), whatever the labels say, whatever was mounted or pulled
\* out before, and whichever failed to mount in an earlier round.
NotFoundMeansAbsent ==
  pc = "shell" /\ back = "copy" => steady \cap Carriers \subseteq refused

\* docs/boot.md:92: "Every failure in `mountroot` calls `panic`".  A copy that
\* failed would then never be followed by the message that the drive can go.
EveryFailurePanics == removable /\ ~panics => image = "whole"

\* Within its rounds the script either comes to the end or stops at a shell with
\* the reason: plugging and pulling does not keep it searching.
Decides == <>(pc \in {"done", "shell"})

-----------------------------------------------------------------------------
(* The inductive invariant *)

Searching == pc \in {"round", "probe", "test"}
Found     == pc \in {"copy", "release", "announce", "squash", "overlay", "done"}

\* Until a step has failed, what probing left behind is not a boot medium, and
\* the topmost mount is the medium found until it is released.
MountsInOrder ==
  ~panics =>
    /\ under \cap Carriers = {}
    /\ pc \in {"round", "probe"} => top = None
    /\ pc = "test" => top # None
    /\ pc \in {"copy", "release"} => top \in {device, Gone}
    /\ pc = "announce" => top = None
    /\ Found => device \in Carriers
    /\ removable => top = None /\ Found

\* The search runs once, before anything can fail, and the shell is a failure.
FailuresAreNoted ==
  /\ Searching => ~panics
  /\ pc = "shell" => panics

\* A round comes to every medium that stays plugged in, and stops at it if it
\* mounts.
RoundIsComplete ==
  /\ pc = "round" => steady \cap Carriers \subseteq refused
  /\ pc \in {"probe", "test"} => waited < Tries /\ steady \subseteq list
  /\ pc = "probe" => seen \cap steady \cap Carriers \subseteq refused
  /\ pc = "test" => seen \cap steady \cap Carriers \subseteq refused \cup {top}

\* Until a step has failed, each layer stands on the one before it.
LayersInOrder ==
  ~panics =>
    /\ lower => image = "whole" /\ pc \in {"overlay", "done"}
    /\ pc \in {"overlay", "done"} => lower
    /\ pc = "done" => root = "image"

\* The invariant the proofs of BootProofs go by: the state of the mounts and of
\* the layers at every line, and what a round has come to so far.
IInv ==
  /\ TypeOK
  /\ MountsInOrder
  /\ FailuresAreNoted
  /\ RoundIsComplete
  /\ LayersInOrder
  /\ NotFoundMeansAbsent

=============================================================================
