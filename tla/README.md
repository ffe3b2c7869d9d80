# A verification of PhantomMC

PhantomMC is a boot image that copies itself into memory and runs one program,
`phantomd`, which fetches Minecraft, signs the player in and runs the game. This
directory holds TLA+ models of its code, TLC runs that check them on small
instances, and TLAPS proofs of what matters most for every instance. All paths
below are those of the repository; `PROJECT.json` maps every definition to the
lines it models.

## The system

| part | state it keeps | operations | talks to |
| --- | --- | --- | --- |
| boot script, `os/initramfs/scripts/phantom` | mounts, the copy, the overlay | find_medium, copy_to_ram, mountroot | the kernel, a person with sticks |
| agent, `internal/agent/agent.go`, `launch.go`, `cmd/phantomd` | stage, account, child process | Run, Launch, Launcher.Run | installer, sign in, game, SIGTERM |
| installer, `internal/agent/install.go` | files on disk, last progress bucket | Install, fetchClientAndLibraries, fetchAssets, progress | download pool |
| download pool, `internal/mojang/assets.go`, `client.go` | goroutines, a channel, a context, counters, temporary files | FetchAll, Fetch | Mojang's servers, the disk |
| sign in, `internal/agent/signin.go`, `internal/msauth` | poll interval, tokens | RequestDeviceCode, PollForToken, Authenticate | Microsoft, Xbox, Minecraft services, a user's phone |
| Java runtimes, `internal/agent/java.go` | none | FindRuntimes, SelectRuntime | the file system |
| client id, `internal/agent/clientid.go` | none | ResolveClientID | flag, environment, manifest |
| manifest, `internal/manifest` | none | Load, Decode, Validate | a file or an https server |
| version document, `internal/mojang/version.go`, `rules.go`, `launch.go` | none | Allows, SelectLibraries, Resolve, Substitute | |
| session unit and script, `os/overlay` | none | exec | systemd, cage |
| image build, `os/build.sh` | a rootfs with a bind mount for a while, a tree, the image | main's steps, cleanup | build tools, the host's `/dev` |
| hook; smoke test; CI | none | | |

The web builder, the prefetch tool, network bring-up, the failure screen and mod
loaders are described in `docs/` and have no code.

How they interact: the boot script ends in a root in memory; systemd starts the
session, which execs `phantomd` under a compositor, once (`Restart=no`).
`Run` loads a manifest and calls `Launch`, which starts a goroutine for the sign
in and, concurrently, installs: two FetchAll calls with a pool of workers each,
the workers calling the progress closure. It then joins the goroutine through a
channel of capacity one and runs the game as a child bound to its context. One
context, cancelled by SIGTERM or by Launch's return, reaches all of them.

What is hard in it: the pool (first error, cancellation, a dispatcher and workers
that leave, two entries with one destination, a kill in the middle of a write);
the progress closure that races; polling that must back off, may lose an answer
and races its timer against a cancellation; the sign in and the download joined in
either order with either failing; a game that ends while a signal arrives; a
script whose user pulls the stick out at any line and which checks some of its
commands and not others; a build that mounts the host's `/dev` in a tree it
deletes, on the way out and at the next start. `PROJECT.json` lists these as
hazards, each at its line.

What makes each part correct:

- pool: nil means everything is there; an error is the cause; nothing but whole,
  verified files lands; nothing is left running; it returns;
- progress: no step is lost, the end is said once;
- sign in: polls keep the distance the service asks for; an account is an
  approved owner's; each error says what happened; it ends;
- agent: no game on half an installation or without an account; a truthful exit
  status; no game left behind; SIGTERM ends it; a dry run changes nothing;
- manifest, version document, Java: what Validate accepts can be carried out;
  the classpath is what was fetched; rules decide as their comment says; the
  game gets the identity of who signed in, what the manifest sets, and the
  runtime of its version;
- boot: the root is whole and in memory; a drive said to be removable is
  released; the search gives up only on what will not mount; the script does
  not hang;
- image build: the host keeps its devices; success means a whole image of this
  build and leaves nothing that was not asked for; a failure takes off its mount.

## The modules

| module | models | notes |
| --- | --- | --- |
| `Download` | what one FetchAll call promises | the abstract specification |
| `FetchPool` | FetchAll with Fetch, verifySHA1 | implements `Download` |
| `Progress` | the counters and `Installer.progress` | what a worker does between two entries |
| `Account` | what one SignIn call promises | the abstract specification |
| `SignIn` | SignIn, PollForToken, Authenticate | client, user, service and clock; implements `Account` |
| `Launch` | Run, Launch, Install, Launcher.Run | composes two instances of `Download` and one of `Account` with the game |
| `Boot` | mountroot and all it calls | script and person |
| `Manifest` | Manifest.Validate and what it calls | operators |
| `VersionDoc` | rules, libraries, arguments, Version.Resolve, Substitute | operators |
| `Prepare` | the data of one run, from Load to Launcher.Command | composes `Manifest` and `VersionDoc` with the client id, the account and the Java runtimes |
| `ImageBuild` | build.sh | several builds over one work directory |
| `Induction` | | lemmas: induction, and what it gives of recursive functions, Max and FlattenSeq |
| `FetchPoolProofs`, `ProgressProofs`, `SignInProofs`, `LaunchProofs`, `BootProofs`, `PrepareProofs`, `ImageBuildProofs` | | theorems |
| `MCFetchPool`, `MCProgress`, `MCSignIn`, `MCLaunch`, `MCBoot`, `MCPrepare`, `MCImageBuild` | | instances for TLC |

An operator introduced by "Mutation:" is a plausible slip in the code. No
behaviour of a module uses it; put in the place of the action that follows it, it
makes a property fail, which shows that the property looks at that code.

**FetchPool.** `main` is FetchAll's own goroutine (sending, waiting, returned),
`pc[w]` the worker's place in Fetch. `Take` is the rendezvous on the unbuffered
channel; `CloseJobs` is the loop's end or `case <-ctx.Done()`, which select may
prefer at any time after the cancellation and need not. A worker goes `Verify`
(the file is already there), `Request`, `Copy`, `Land` (digest, rename), `Count`,
or fails at any of them and goes to `RecordError`, which is the `errOnce.Do` with
its `cancel()`. File contents are model values; `Partial` is a temporary file
that is being written. A file that is there may fail to be read and is then
downloaded again. `Kill` stops the process between any two steps and leaves
temporary files; it is the end of the process and not of the machine, Fetch
syncing nothing before its rename. `Restart` calls FetchAll again over the same disk. `errOnce` and
`wg` are their effects: the first error stays, `Return` waits for every worker.

**Progress.** The counters are incremented in two atomic steps, and the closure's
read and write of `lastBucket` are two steps of the worker. Integers of one word
are read and written whole, so the data race shows as interleaving.

**SignIn.** `phase` is the client's line, `wire` the one exchange it has open.
`ServePoll` is the service: it answers by the code's age, the user's answer and
its own `demand` for quiet, and may say slow_down whenever it likes. Time is in
units of five seconds, which both the default interval and the back-off are.
For `Account`, polls and hops are stutters; what it sees are the user's approval,
the cancellation and the one result.

**Launch.** `phase` is the stage of Install, Launch or Run. While a FetchAll call
runs, `fetch` and the set's files move as `Download` lets them, which FetchPool's
refinement justifies: nil to a cancelled caller with files missing included. The
installer asks for the asset index twice: `FetchIndex` is the answer the set is
made from, which nothing verifies, and names any set of `Objects` (`listed`);
`SaveIndex` is the answer that is verified and saved, which the game reads and
which names `Assets`. The goroutine of the sign in moves as `Account` lets it,
which SignIn's refinement justifies: `UserApproves` and `SignInReturns` are its
actions; an offline account needs nobody and cannot fail. Which major the version
wants is a value, and the runtime is chosen for it; where the value comes from is
in `Prepare`. `Exit` is a return of Run with the deferred cancel and the process's
exit.

**Prepare.** The same run as Launch's, seen by what it computes. `phase` is the
stage of Run and Launch, or "signin-test" for `phantomd -signin-test`. A field
that is a pointer in the code, and a result that may not be there yet, is a
sequence of at most one. What a pattern accepts is the set `WellFormed`,
TrimSpace the table `Trimmed`, Atoi and the offline identity are tables too; an
argument's text is the sequence of its literals and placeholders. A value
may itself contain a placeholder's text, an argument may be empty, and the
properties allow for both. `errors` is
the set of fields Validate objects to. Validate runs on the clock of the moment
the manifest is read; `ResolveAccount` runs at any time of the installation, as
its goroutine does. `Install` fetches `FetchSet`, `ResolveSpec` computes its
libraries a second time, `Command` puts java's arguments together. A step that
can fail for a reason outside its data has a `Fails` beside it; the order of
failures, signals and dry runs are Launch's. Four of Mojang's placeholders that
nothing distinguishes are left out.

**Boot.** `pc` is mountroot's line. Mounting and testing a device are two steps,
so that it can be pulled out in between; `top` is the topmost mount at MEDIUM and
`under` what failed umounts left below. `first` is the device that the label's
link led to, if there was a link. The mount of any device may fail in any round
(`SkipDevice`), a medium that is plugged in but not ready being one; `steady` and
`refused` remember which devices were there for the whole round and which of them
would not mount. A medium that mounts is assumed to be readable. A device that is
pulled out turns its mounts into `Gone`; put back, it is a new device. `Fail`
opens panic's shell, which the person may leave, and `back` is the line the script
then goes on with. The kernel's refusal of a squashfs image shorter than its
superblock says is taken for granted in `MountImage`.

**ImageBuild.** `pc` is the step of main, or of the exit trap. `Start` is main up
to the trap, `Build` its steps; `StepFails` ends one by way of the trap, whether
what it relies on is not there (`Unable`), a tool fails or a signal comes, and
`Killed` without the trap. `rootfs` and `iso` are sequences of at most one; a root
carries the number of its build, the lists it was made of and whether it has the
agent. `hostDev` turns false when rm goes through the mount. umount can fail
because a process may still hold a device: a signal ends the shell and not the
tool it was waiting for. For the same reason the trap's rm may fail and leave a
tree. `stuck` has the numbers of the builds whose trap could not unmount. `Needs`
is what is known of the packages from outside: which lists a step cannot do
without. The image is named for the GPU and the model has one, of the last build
that wrote it.

## The runs

| run | question | states |
| --- | --- | --- |
| `FetchPool` | do nil, an error and the files mean what they should, is anything done twice, does the pool implement `Download`, does it return | 62 thousand |
| `FetchPoolCancel` | does nil mean complete to a caller that cancelled: no | |
| `Progress` | does the race lose a step, or the last line | 13 thousand |
| `ProgressRace` | is the closure safe for concurrent use: no | |
| `SignIn` | distance, ownership, errors; does it implement `Account`; does every sign in end | 9 thousand |
| `SignInLostPoll` | does PollForToken block until it is answered: no | |
| `Launch` | what is true when the game starts, what the status says, does phantomd decide, does SIGTERM end it | 107 thousand |
| `LaunchAuth` | does a failed sign in keep downloads from beginning: no | |
| `Prepare` | does what is accepted, fetched and computed fit together, from the manifest to java's arguments | 24 thousand |
| `Boot` | root, release and search against sticks that come and go; does the script end | 964 thousand |
| `BootCopy` | does every failure panic: a failed copy does not | |
| `ImageBuild` | do the host's devices survive, is a success a whole image, what is left behind | 103 thousand |

Bounds, and why they are enough:

- `FetchPool`: two workers and three entries let one worker fail while the other
  is in any place and the dispatcher still has something to send; two of the
  entries share a destination and one has no digest; bodies are right or wrong;
  `MaxKills` = 1 gives a run over what a killed one left. The theorems need none
  of these numbers.
- `Progress`: five entries on a scale of three steps (`Buckets` = 3 for the code's
  20): a count below the steps, two that share one, one that is alone on its step
  and the last; sizes differ. Two workers race.
- `SignIn`: advertised intervals from -1 to 2 units and a short `Lifetime`, so a
  code sees several polls, several slow_downs and its own end; clocks stop one
  unit after it.
- `Launch`: two libraries, two objects of which the saved index names one, so
  that the other answer may leave that one out, add the other or both; enough
  majors for the one wanted not to be installed; every subset of files on disk at
  the start.
- `Prepare`: a good manifest and a good document with one part at a time varied:
  all combinations of mode, name, client id (none, blank, padded), entitlement,
  clock, flag and environment; all lists of up to three mods out of two names,
  fetched or manual, and one of each kind of bad one; each other field at its
  boundary; all lists of up to two rules out of ten, one for each way to match or
  not; three directories of runtimes, with names that only look right; documents that
  call themselves by another version than the one asked for. The theorems
  need none of it. Two rules are enough for the last of two matches to differ
  from the first, and for a match to be followed by none.
- `Boot`: a stick with the payload and no label, a labelled one without it, a
  stick with both and a device without a file system; `Tries` = 2 for the
  script's 45, which is what it takes for one round to follow another;
  `MaxPlugs` = 3: out, in, and out again.
- `ImageBuild`: three builds: one that leaves a mount or a tree, the next that
  meets it, and one more after that; with the lists of the fast build and those
  the steps need, nvidia or not, an agent or none, a tree kept or not.

Runs check for deadlock: each module's `Finished` is the one place it may stop.

Fairness, and what in the code justifies it:

- `FetchPool`: weak fairness of each worker, of `CloseJobs` and of `Return`: the Go
  scheduler runs what can run, and the http.Client's five-minute timeout
  (`agent.go:94`) ends a request or a body that hangs.
- `SignIn`: of the client, of the service (an exchange ends with an answer or with
  the client's timeout of 30 seconds) and of time. Nobody need answer the phone.
- `Launch`: of the main goroutine, of the end of a FetchAll (`Returns`), of a sign
  in (`Ends`) and of the death of a killed process. The game need not end.
- `Boot`: of the script. Nobody need leave a shell or touch a stick.
- `Progress`, `Prepare` and `ImageBuild` state none and claim no liveness: that a
  run decides is Launch's `Decides`, and a build ends when its tools do.

## What the runs found

Five of the repository's own statements do not hold of the code; `PROJECT.json`
quotes each under "findings".

1. FetchAll cancelled by its caller can return nil with files missing
   (`assets.go:118`). `NeverLaunchesIncomplete` shows why nothing comes of it:
   the context that was cancelled is the one exec.CommandContext refuses.
2. The progress closure is not safe for concurrent use (`install.go:131`).
   `EveryStepReported` and `OneLastLine` show that only a repeated line can come
   of it.
3. PollForToken does not block until it is answered: one failed exchange ends it
   (`devicecode.go:156`).
4. A sign in that failed is noticed only after everything has been downloaded
   (`agent.go:118`).
5. A copy that fails does not panic; the person is told that the drive can go
   (`scripts/phantom:116`). `RootIsInMemory` shows that no root comes up on it.

Five more show in a definition, and have no run of their own:

- A client id from the flag or the environment is not enough in a run with a
  manifest, though `clientid.go:43` calls each of the three ways enough:
  `AuthFaults` wants one in the manifest too (`validate.go:112`), before
  `ResolveClientID` looks at the others. `AcceptedCanSignIn` shows the other side:
  an accepted manifest never asks for a device code without one.
- A missing package list is not fatal, though the script means it to be
  (`build.sh:96`): die ends only the subshell of a command substitution, and
  `Included` is what came before. `--gpu nvidia` always meets it, os/config having
  no packages.nvidia; `SuccessIsWhole` promises the lists only if each has a file.
- The documented fast build, `--lists base,boot` (`docs/building.md:52`), cannot
  get past `systemctl enable seatd.service` (`build.sh:147`): seatd is in the
  graphics list, which is `Needs` of "configure".
- An entitlement counts if it has a signature, whatever it is: `Valid` looks for
  an empty one and for the expiry (`manifest.go:136`), and no code verifies a
  signature. `docs/authentication.md:145` has the agent check "signature valid?",
  and `docs/adr/0006-offline-mode-requires-entitlement.md:27` honours offline mode "only
  when that assertion is present and valid". `AcceptedCanSignIn` promises what the
  code checks and no more.
- "Install downloads everything the version needs" (`install.go:40`), but the set
  of objects comes from an answer for the index that nothing verifies
  (`install.go:88`), and the game reads another (`install.go:94`). An object the
  first left out is missing when the game starts, with no error:
  `NeverLaunchesIncomplete` promises the objects that both name. All else holds
  whatever the first answer is.

## The proofs

Each `*Proofs` module proves its component's `IInv` inductive and draws the
properties from it; `PROJECT.json` lists every theorem. They hold for all values
of the constants under the assumptions the modules name:

- `FetchPoolProofs`: any workers, entries, destinations, digests and kills. The
  properties are not inductive: nil means complete because every entry that was
  offered is counted, held or excused by an error (`Accounted`), an error comes
  with a cancellation and the other way round (`Blame`), and a worker knows what it
  holds (`Holding`). From it: TypeOK, NilMeansComplete, ErrorIsRootCause,
  QuietAfterReturn, NeverStranded, OnlyVerifiedBytesLand, CountedIsFetched, and
  `Refinement`, by which every step is a step of `Download` or a stutter.
  EveryStepCounts is the safety half of `Returns`: what is ahead of a call
  (`Ahead`: the stages of its entries, its workers, its own two steps, the
  caller's cancellation) shrinks at every step, as no two workers hold one entry
  (`OneHolder`); a call of N entries by W workers is over in 6N + W + 3 steps.
- `ProgressProofs`: any entries, workers, sizes and number of steps.
  EveryStepReported and OneLastLine are about the history of lines, and follow
  from what the workers hold: a count taken and not yet reported is in a worker's
  hands, with the value it read (`NoneForgotten`); the last count is taken once
  (`LastCountIsOnce`); and a step that was counted is reported, or covered by
  someone who is about to (`StepsAreCovered`). The race on `lastBucket` is in the
  proof as it is in the code: the value read may be old in any way. TypeOK, which
  says that no counter passes its total, and LastLineLagsByThePool are about sums
  of sizes: `BytesAreOfTheAdded` says of which entries `bytesDone` is the sum, so
  that what it misses are the entries of the workers between the two additions,
  and whoever takes the last count is none of those (`LastCountLags`).
  `NothingIsLost` draws from the same that both counters end at their totals.
- `SignInProofs`: any set of advertised intervals and any lifetime. `Pact` relates
  the client's interval and what is left of its wait to the service's demand and
  to how long it has been quiet; `AnswersAreTrue` says what an unread answer
  knows of the user. `Refinement` takes every step to a step of `Account` or a
  stutter; it needs the invariant for the one that hands over the account.
- `LaunchProofs`: any libraries, objects and majors. `Installed` says what each
  stage has ensured: the files, of the objects those the first index listed, or a
  cancelled context. `Ready` says what Launch
  holds when it starts the game: online, an account that `Account` granted.
- `BootProofs`: any devices, labels, number of rounds and pluggings.
  `MountsInOrder` keeps boot media out of the mounts left behind, `LayersInOrder`
  stands each layer on the one before, and `RoundIsComplete` says that what stays
  plugged in and was passed over carries nothing or would not mount.
- `PrepareProofs`: any manifests, documents, runtimes and accounts, lists of any
  length in them. `Accepted` says that a run which went on had a manifest that
  passed, `StageHas` what each stage begins with, and `MadeOf` of what each made
  what it made: with it, what is said of the files, the specification and the
  command line is said of the operators that compute them. From it: TypeOK,
  OneFilePerDestination, AcceptedCanSignIn, RuntimeIsTheVersionsOwn; and, by
  induction over the lists, LastMatchDecides (the loop of Allows is the sentence
  above it, `AllowsIsLastMatch`), ClasspathIsInstalled, TemplatesAreFilled (each
  value is whole in its place, `ValuesInTheirPlaces`, and nothing else is left,
  `NothingUnfilled`) and ManifestArgsOverride (`LastSetting`). A
  document is any whose fields have the types of the code's (`DocumentAssumption`).
- `ImageBuildProofs`: any lists, requests, needs and number of builds. The three
  properties are about the ends of a build; `Mounted` says where /dev can be
  mounted at each line, and why if it should not be, with the number of the build
  whose umount failed, `Made` what each step finds
  done by this build and not by one before.

- `Induction`: what ProgressProofs and PrepareProofs rest on. The library's induction theorems take
  a predicate or a definition as a parameter, which no installed prover can
  instantiate; `WFMin` takes a set and a relation, and from it and the order of
  the numbers come the least element and induction on a set (`SetInduction`). A
  recursive function given by its steps as data then exists
  (`RecursionExists`) and is the only one (`RecursionAgrees`), Max is a greatest
  element, and FlattenSeq gives every sequence whole and in its order
  (`FlattenSeqType`, `FlattenSeqRange`, `FlattenSeqOffsets`).

The runs check an `IInv` or a `TypeOK` only where it says something by itself.

Only model-checked: all liveness (`Returns`, `Ends`, `Decides`, `SigtermEnds`),
which needs ENABLED and fairness, beyond the proof system. Every invariant and
every action property of the runs is a theorem. No module has a RECURSIVE
operator.

## What is not modelled, and the plan

Left out of the modules on purpose: wording and layout of output, the content of
HTTP requests, directories' creation apart from its failure, sizes but for
Progress, file modes.

Not modelled: the hook, the session script and unit, the smoke test and CI, which
have no behaviour of their own; the parts the docs describe and nobody has built;
SIGKILL of phantomd, after which none of its code runs (in FetchPool it is
modelled, with the next start); a power cut, after which the disk may have less
than was renamed into place. Of the manifest, mods,
loaders and servers are validated and put in the plan, and no code fetches,
installs or joins them; `RequiresNetwork` is only printed, so that an offline
vanilla build, which it says needs no network, still asks Mojang for its files.

Done, in the order of the plan: Download and FetchPool with proofs and
refinement; Progress with proofs; SignIn with proofs; Launch with proofs; Boot
with proofs; Manifest, VersionDoc and Prepare, the Java runtimes in it, with
proofs; Account, the refinement and its composition in Launch; ImageBuild with
proofs. What is left is listed above and is no part of what
boots or of what builds it.
