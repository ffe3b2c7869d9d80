----------------------------- MODULE ImageBuild -----------------------------
(***************************************************************************)
(* Builds of the boot image on one host, one after the other over the same *)
(* --work and --out (os/build.sh).  Any tool may fail, a signal may come,  *)
(* and the shell may be killed without its exit trap.  The image is made   *)
(* in a tree that has the host's /dev bind-mounted for a while.            *)
(***************************************************************************)
EXTENDS Naturals, Sequences, SequencesExt

CONSTANTS
    Lists,      \* the names that --lists may have
    Present,    \* those of a file in os/config
    Needs,      \* Needs[step] are the lists without whose packages it fails
    Requests,   \* the options a build may be called with
    MaxRuns     \* bound on the builds

ASSUME ListAssumption == Present \subseteq Lists
ASSUME NeedsAssumption == Needs \in [{"bootstrap", "configure"} -> SUBSET Lists]
ASSUME RequestAssumption ==
    Requests \subseteq [lists : Seq(Lists), nvidia : BOOLEAN,
                        keepRootfs : BOOLEAN, allowNoAgent : BOOLEAN]
ASSUME BoundAssumption == MaxRuns \in Nat

VARIABLES
    pc,         \* the step of main or of the exit trap; "idle" between builds
    number,     \* which build this is
    request,    \* its options
    agent,      \* OUT has a phantomd
    rootfs,     \* ROOTFS: <<>> or <<its contents>>
    mounts,     \* the bind mounts of /dev at ROOTFS/dev
    hostDev,    \* the host's /dev is as it was
    tree,       \* WORK/iso
    iso,        \* the image in OUT: <<>> or <<its contents>>
    result,     \* how the build ended
    stuck,      \* the builds whose trap could not unmount /dev
    orphaned    \* some build was killed with /dev mounted

run == <<number, request, agent>>
work == <<rootfs, mounts, tree>>
outcome == <<result, stuck, orphaned>>
vars == <<pc, run, work, hostDev, iso, outcome>>

Steps == {"clean", "bootstrap", "configure", "mount", "update", "umount", "copy",
          "squash", "loaders", "iso"}
Trap == {"unmount", "remove"}

\* An image root of nothing, as a bootstrap that broke off leaves one.
Bare == [run |-> number, lists |-> {}, agent |-> FALSE, initrd |-> FALSE]
NoTree == [initrd |-> FALSE, root |-> <<>>, loaders |-> FALSE]

\* package_list: the nvidia list goes last.
Requested == request.lists \o (IF request.nvidia THEN <<"nvidia">> ELSE <<>>)

\* Mutation: a loop over names that end in a comma loses the last.
IncludedButLast == {Requested[i] : i \in DOMAIN Requested \ {Len(Requested)}} \cap Present

\* Its loop dies at the first list without a file, but the loop is part of a
\* pipeline and the function of a command substitution, so what had been
\* printed until then is what mmdebstrap includes.
Included == {Requested[i] : i \in {k \in DOMAIN Requested :
                                     \A j \in 1..k : Requested[j] \in Present}}

Init == /\ pc = "idle"
        /\ number = 0
        /\ request \in Requests
        /\ agent = FALSE
        /\ rootfs = <<>>
        /\ mounts = 0
        /\ hostDev = TRUE
        /\ tree = NoTree
        /\ iso = <<>>
        /\ result = "none"
        /\ stuck = {}
        /\ orphaned = FALSE

-----------------------------------------------------------------------------
\* main up to the trap: bad arguments, another user than root, a missing tool
\* or keyring refuse the build before it touches anything.
Start == /\ pc = "idle"
         /\ number < MaxRuns
         /\ number' = number + 1
         /\ request' \in Requests
         /\ agent' \in BOOLEAN
         /\ \/ pc' = "clean" /\ result' = "running"
            \/ pc' = "idle" /\ result' = "refused"
         /\ UNCHANGED <<work, hostDev, iso, stuck, orphaned>>

\* Mutation: rm's status is ignored.
CleanIgnoresStatus == /\ pc = "clean"
                      /\ tree' = NoTree
                      /\ pc' = "bootstrap"
                      /\ hostDev' = (hostDev /\ mounts = 0)
                      /\ rootfs' = IF mounts = 0 THEN <<>> ELSE rootfs
                      /\ UNCHANGED <<run, mounts, iso, outcome>>

\* rm -rf of what the last build left.  Nothing asks whether /dev is mounted
\* there still: rm goes through the mount, and fails at its root.
Clean == /\ pc = "clean"
         /\ tree' = NoTree
         /\ \/ /\ mounts = 0
               /\ rootfs' = <<>>
               /\ pc' = "bootstrap"
               /\ UNCHANGED <<hostDev, result>>
            \/ /\ mounts > 0
               /\ hostDev' = FALSE
               /\ pc' = "unmount"
               /\ result' = "failed"
               /\ UNCHANGED rootfs
         /\ UNCHANGED <<run, mounts, iso, stuck, orphaned>>

\* Mutation: a missing agent is only logged.
UnableForPackages == pc \in DOMAIN Needs /\ ~ (Needs[pc] \subseteq Included)

\* What ends a build although no tool misbehaves: packages that a step relies
\* on, such as the unit it enables, and an agent that is missing unasked.
Unable == \/ pc \in DOMAIN Needs /\ ~ (Needs[pc] \subseteq Included)
          \/ pc = "configure" /\ ~agent /\ ~request.allowNoAgent

\* A step of main does its work.
Step(from, to) == /\ pc = from
                  /\ ~Unable
                  /\ pc' = to
                  /\ UNCHANGED <<run, hostDev, outcome>>

Bootstrap == /\ Step("bootstrap", "configure")
             /\ rootfs' = <<[Bare EXCEPT !.lists = Included]>>
             /\ UNCHANGED <<mounts, tree, iso>>

Configure == /\ Step("configure", "mount")
             /\ rootfs' = <<[rootfs[1] EXCEPT !.agent = agent]>>
             /\ UNCHANGED <<mounts, tree, iso>>

MountDev == /\ Step("mount", "update")
            /\ mounts' = mounts + 1
            /\ UNCHANGED <<rootfs, tree, iso>>

UpdateInitramfs == /\ Step("update", "umount")
                   /\ rootfs' = <<[rootfs[1] EXCEPT !.initrd = TRUE]>>
                   /\ UNCHANGED <<mounts, tree, iso>>

\* Mutation: unmounting is left to the trap.
UmountLater == Step("umount", "copy") /\ UNCHANGED <<work, iso>>

UmountDev == /\ Step("umount", "copy")
             /\ mounts' = mounts - 1
             /\ UNCHANGED <<rootfs, tree, iso>>

CopyKernel == /\ Step("copy", "squash")
              /\ tree' = [tree EXCEPT !.initrd = rootfs[1].initrd]
              /\ UNCHANGED <<rootfs, mounts, iso>>

\* mksquashfs takes what it finds under ROOTFS, mounts and all.
BuildSquashfs ==
    /\ Step("squash", "loaders")
    /\ tree' = [tree EXCEPT !.root = <<[run |-> rootfs[1].run,
                                        lists |-> rootfs[1].lists,
                                        agent |-> rootfs[1].agent,
                                        devices |-> mounts > 0]>>]
    /\ UNCHANGED <<rootfs, mounts, iso>>

\* write_grub_config, build_efi_image and build_bios_image.
BuildLoaders == /\ Step("loaders", "iso")
                /\ tree' = [tree EXCEPT !.loaders = TRUE]
                /\ UNCHANGED <<rootfs, mounts, iso>>

\* xorriso writes the image in place; main ends and the trap runs.
BuildISO == /\ pc = "iso"
            /\ iso' = <<[whole |-> TRUE, tree |-> tree]>>
            /\ result' = "ok"
            /\ pc' = "unmount"
            /\ UNCHANGED <<run, work, hostDev, stuck, orphaned>>

\* What a step that breaks off may leave behind.
BrokenOff == /\ rootfs' \in {rootfs} \cup (IF pc = "bootstrap" THEN {<<Bare>>} ELSE {})
             /\ iso' \in {iso} \cup
                   (IF pc = "iso" THEN {<<[whole |-> FALSE, tree |-> tree]>>} ELSE {})

\* What a step relies on is not there, a tool fails, or a signal ends the
\* shell by way of its trap: die, or set -e.
StepFails == /\ pc \in Steps
             /\ pc' = "unmount"
             /\ result' = "failed"
             /\ BrokenOff
             /\ UNCHANGED <<run, mounts, tree, hostDev, stuck, orphaned>>

-----------------------------------------------------------------------------
(* cleanup, the exit trap.                                                 *)

\* Mutation: a tree that is kept is left as it is.
KeepSkipsUnmount == /\ pc = "unmount"
                    /\ pc' = "remove"
                    /\ mounts' = IF request.keepRootfs THEN mounts ELSE 0
                    /\ UNCHANGED <<run, rootfs, tree, hostDev, iso, outcome>>

\* Mutation: the trap only removes.
TrapOnlyRemoves == /\ pc = "unmount"
                   /\ pc' = "remove"
                   /\ UNCHANGED <<run, work, hostDev, iso, outcome>>

\* umount || true: something may still have a device open, update-initramfs
\* itself when the signal came to the shell alone.
TrapUnmount == /\ pc = "unmount"
               /\ pc' = "remove"
               /\ \/ mounts' = 0 /\ UNCHANGED stuck
                  \/ mounts > 0 /\ stuck' = stuck \cup {number} /\ UNCHANGED mounts
               /\ UNCHANGED <<run, rootfs, tree, hostDev, iso, result, orphaned>>

\* rm -rf of the rootfs, unless it is to be kept.  It may fail and leave a tree,
\* as when a tool that outlived the signal still writes there; the shell then
\* ends with rm's status.  With /dev mounted it goes through the mount.
TrapRemove == /\ pc = "remove"
              /\ pc' = "idle"
              /\ \/ /\ request.keepRootfs \/ rootfs = <<>>
                    /\ UNCHANGED <<rootfs, hostDev, result>>
                 \/ /\ ~request.keepRootfs /\ rootfs # <<>> /\ mounts = 0
                    /\ rootfs' = <<>>
                    /\ UNCHANGED <<hostDev, result>>
                 \/ /\ ~request.keepRootfs /\ rootfs # <<>>
                    /\ hostDev' = (hostDev /\ mounts = 0)
                    /\ result' = "failed"
                    /\ UNCHANGED rootfs
              /\ UNCHANGED <<run, mounts, tree, iso, stuck, orphaned>>

\* SIGKILL, or a second signal while the trap runs.
Killed == /\ pc # "idle"
          /\ pc' = "idle"
          /\ result' = "killed"
          /\ orphaned' = (orphaned \/ mounts > 0)
          /\ BrokenOff
          /\ UNCHANGED <<run, mounts, tree, hostDev, stuck>>

Finished == pc = "idle" /\ number = MaxRuns /\ UNCHANGED vars

Build == \/ Clean \/ Bootstrap \/ Configure \/ MountDev \/ UpdateInitramfs
         \/ UmountDev \/ CopyKernel \/ BuildSquashfs \/ BuildLoaders \/ BuildISO

Next == \/ Start \/ Build \/ StepFails
        \/ TrapUnmount \/ TrapRemove
        \/ Killed
        \/ Finished

Spec == Init /\ [][Next]_vars

-----------------------------------------------------------------------------
Roots == [run : 0..MaxRuns, lists : SUBSET Lists, agent : BOOLEAN, initrd : BOOLEAN]
Images == [run : 0..MaxRuns, lists : SUBSET Lists, agent : BOOLEAN, devices : BOOLEAN]
Trees == [initrd : BOOLEAN, root : Seq(Images), loaders : BOOLEAN]

RunType == /\ pc \in {"idle"} \cup Steps \cup Trap
           /\ number \in 0..MaxRuns
           /\ request \in Requests
           /\ result \in {"none", "running", "refused", "ok", "failed", "killed"}

TreeType == /\ rootfs \in Seq(Roots) /\ Len(rootfs) <= 1
            /\ mounts \in 0..1
            /\ tree \in Trees
            /\ iso \in Seq([whole : BOOLEAN, tree : Trees]) /\ Len(iso) <= 1

FlagType == /\ agent \in BOOLEAN /\ hostDev \in BOOLEAN
            /\ stuck \in SUBSET (0..MaxRuns) /\ orphaned \in BOOLEAN

\* The shape of the state; /dev is never mounted twice.
TypeOK == RunType /\ TreeType /\ FlagType

\* Two commands of the script delete the tree that /dev is mounted in for a
\* while (build.sh:280 and 292).  Neither goes through the mount, however the
\* builds before ended, unless umount itself failed or a build was killed
\* without its trap.
DevicesAreSafe == ~hostDev => stuck # {} \/ orphaned

\* A build that reports success has published an image of its own making: with
\* a root, an initramfs and boot loaders of this build and not of one before,
\* of every package list that was asked for, provided each has a file, with the
\* agent unless the caller asked for none, and without the host's devices
\* (build.sh:284-303).
SuccessIsWhole ==
    result = "ok" =>
        /\ iso # <<>>
        /\ iso[1].whole
        /\ iso[1].tree.initrd /\ iso[1].tree.loaders
        /\ iso[1].tree.root # <<>>
        /\ LET root == iso[1].tree.root[1]
           IN  /\ root.run = number
               /\ ToSet(Requested) \subseteq Present => root.lists = ToSet(Requested)
               /\ root.agent \/ request.allowNoAgent
               /\ ~root.devices

\* A build that reports success leaves no mount, and no tree unless it was told
\* to keep it; one that fails, whose trap runs too, leaves /dev mounted only if
\* its own umount failed, whatever the builds before it left (build.sh:275-282).
NothingLeftBehind ==
    pc = "idle" =>
        /\ result = "ok" => mounts = 0 /\ (rootfs # <<>> => request.keepRootfs)
        /\ result = "failed" /\ mounts > 0 => number \in stuck

-----------------------------------------------------------------------------
(* The inductive invariant behind what is proved of them.                  *)

\* Where /dev can be mounted, and why.
Mounted ==
    /\ pc \in {"update", "umount"} => mounts = 1
    /\ pc \in Steps \ {"clean", "update", "umount"} => mounts = 0
    /\ pc = "unmount" /\ result = "ok" => mounts = 0
    /\ pc = "remove" /\ mounts > 0 => number \in stuck /\ result = "failed"
    /\ pc \in {"idle", "clean"} /\ mounts > 0 => stuck # {} \/ orphaned

\* What each step finds done.
Made ==
    /\ pc \in {"configure", "mount", "update", "umount", "copy", "squash"} =>
          /\ Len(rootfs) = 1
          /\ rootfs[1].run = number
          /\ rootfs[1].lists = Included
    /\ pc \in {"mount", "update", "umount", "copy", "squash"} =>
          rootfs[1].agent \/ request.allowNoAgent
    /\ pc \in {"copy", "squash", "umount"} => rootfs[1].initrd
    /\ pc \in {"squash", "loaders", "iso"} => tree.initrd
    /\ pc \in {"loaders", "iso"} =>
          /\ Len(tree.root) = 1
          /\ tree.root[1].run = number
          /\ tree.root[1].lists = Included
          /\ tree.root[1].agent \/ request.allowNoAgent
          /\ ~tree.root[1].devices
    /\ pc = "iso" => tree.loaders
    /\ pc \in Steps => result = "running"
    /\ pc \in Trap => result \in {"ok", "failed"}

IInv == /\ TypeOK
        /\ Mounted
        /\ Made
        /\ DevicesAreSafe
        /\ SuccessIsWhole
        /\ NothingLeftBehind
=============================================================================
