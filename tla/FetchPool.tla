----------------------------- MODULE FetchPool -----------------------------
(***************************************************************************)
(* One call of Client.FetchAll (src/internal/mojang/assets.go) and the     *)
(* Client.Fetch calls it makes (src/internal/mojang/client.go): a          *)
(* dispatcher offers the entries of a FetchSet over an unbuffered channel, *)
(* a fixed pool of goroutines takes them, and the first error cancels the  *)
(* context they share.  The caller may cancel the context it passed, and   *)
(* the process may be killed and the call made again over the disk it      *)
(* left.                                                                   *)
(*                                                                         *)
(* A file's contents stand for their SHA1: Bodies are the contents a file  *)
(* or a response can have, and an artifact's digest is the body that has   *)
(* it.  The counters handed to the progress callback are in Progress.tla;  *)
(* here the counter of finished entries is the set of them.                *)
(***************************************************************************)
EXTENDS Naturals, FiniteSets

CONSTANTS
    Workers,    \* the goroutines of the pool
    N,          \* the number of entries of the FetchSet
    Dests,      \* the paths files are written to
    Dest,       \* Dest[i] is where entry i goes
    Bodies,     \* the contents a file or a response body can have
    Digest,     \* Digest[i] is the body entry i must have, or NoDigest
    NoDigest,   \* the empty SHA1 of metadata that publishes none
    Absent,     \* no file
    Partial,    \* a temporary file still being written
    MaxKills    \* bound: how many times the process is killed

Jobs == 1..N

\* FetchAll returns at once when the set is empty and raises workers to 1.
ASSUME SetAssumption == N \in Nat \ {0} /\ MaxKills \in Nat
ASSUME PoolAssumption == Workers # {}
ASSUME ContentAssumption == /\ Dest \in [Jobs -> Dests]
                            /\ Digest \in [Jobs -> Bodies \cup {NoDigest}]
                            /\ {NoDigest, Absent, Partial} \cap Bodies = {}
                            /\ Absent # Partial
\* Two entries of one path are the same object: an asset's path is its
\* digest, a library's is its Maven coordinate.
ASSUME PathAssumption ==
    \A i, j \in Jobs : Dest[i] = Dest[j] => Digest[i] = Digest[j]

VARIABLES
    main,       \* FetchAll itself: "dispatch", "wait", "returned", "killed"
    next,       \* the entry the dispatcher offers
    pc,         \* where each goroutine is
    job,        \* the entry each goroutine works on
    err,        \* the error Fetch gave each goroutine
    tmp,        \* each goroutine's .partial-* file
    firstErr,   \* the error errOnce recorded
    done,       \* the entries counted as done
    cancelled,  \* the context of the pool is cancelled
    parent,     \* the caller's context is cancelled
    disk,       \* the file at each path
    orphans,    \* .partial-* files left behind by a killed process
    kills       \* how often the process was killed

vars == <<main, next, pc, job, err, tmp, firstErr, done, cancelled, parent,
          disk, orphans, kills>>

\* Why a Fetch failed: its context was cancelled, or anything else (the
\* network, the status, the digest, the file system).
Causes == {"cancelled", "fetch"}
NoErr == "none"

Locations == {"idle", "verify", "request", "copy", "land", "count",
              "failing", "exited"}
Busy == Locations \ {"idle", "exited"}
Active == main \in {"dispatch", "wait"}

-----------------------------------------------------------------------------
(* The digest comparisons of Fetch and verifySHA1.                         *)

\* client.go:116 accepts a body that has the digest, and any body when the
\* metadata gives none.
Accepts(body, i) == body \in Bodies /\ (Digest[i] = NoDigest \/ body = Digest[i])

\* verifySHA1: never true without a digest, nor of a file that is absent.
Present(i) == Digest[i] # NoDigest /\ disk[Dest[i]] = Digest[i]

\* The file of entry i is in place.
Fetched(i) == Accepts(disk[Dest[i]], i)

-----------------------------------------------------------------------------
InitRun == /\ main = "dispatch"
           /\ next = 1
           /\ pc = [w \in Workers |-> "idle"]
           /\ job = [w \in Workers |-> 0]
           /\ err = [w \in Workers |-> NoErr]
           /\ tmp = [w \in Workers |-> Absent]
           /\ firstErr = NoErr
           /\ done = {}
           /\ cancelled = FALSE
           /\ parent = FALSE

\* The disk may hold anything an earlier boot, or another tool, left there.
Init == /\ InitRun
        /\ disk \in [Dests -> Bodies \cup {Absent}]
        /\ orphans = {}
        /\ kills = 0

-----------------------------------------------------------------------------
(* The dispatcher.                                                         *)

\* case jobs <- i: the channel is unbuffered, so a worker receives as the
\* dispatcher sends.
Take(w) == /\ main = "dispatch"
           /\ next <= N
           /\ pc[w] = "idle"
           /\ pc' = [pc EXCEPT ![w] = "verify"]
           /\ job' = [job EXCEPT ![w] = next]
           /\ next' = next + 1
           /\ UNCHANGED <<main, err, tmp, firstErr, done, cancelled, parent,
                          disk, orphans, kills>>

\* The dispatcher closes the channel after the last entry, or as soon as it
\* picks case <-ctx.Done().
CloseJobs == /\ main = "dispatch"
             /\ next > N \/ cancelled
             /\ main' = "wait"
             /\ UNCHANGED <<next, pc, job, err, tmp, firstErr, done,
                            cancelled, parent, disk, orphans, kills>>

\* Mutation: FetchAll does not wait for the pool.
ReturnAtOnce == /\ main = "wait"
                /\ main' = "returned"
                /\ cancelled' = TRUE
                /\ UNCHANGED <<next, pc, job, err, tmp, firstErr, done,
                               parent, disk, orphans, kills>>

\* wg.Wait is over: return firstErr, running the deferred cancel.
Return == /\ main = "wait"
          /\ \A w \in Workers : pc[w] = "exited"
          /\ main' = "returned"
          /\ cancelled' = TRUE
          /\ UNCHANGED <<next, pc, job, err, tmp, firstErr, done, parent,
                         disk, orphans, kills>>

-----------------------------------------------------------------------------
(* A worker running Fetch for job[w].                                      *)

\* Fetch is about to return the error cause; its deferred Remove deletes the
\* temporary file.
GiveUp(w, cause) == /\ pc' = [pc EXCEPT ![w] = "failing"]
                    /\ err' = [err EXCEPT ![w] = cause]
                    /\ tmp' = [tmp EXCEPT ![w] = Absent]
                    /\ UNCHANGED <<main, next, job, firstErr, done, cancelled,
                                   parent, disk, orphans, kills>>

Move(w, location) == /\ pc' = [pc EXCEPT ![w] = location]
                     /\ UNCHANGED <<main, next, job, err, firstErr, done,
                                    cancelled, parent, orphans, kills>>

\* A file already there with the right digest is left alone.  One that is
\* missing, has another digest or cannot be read is downloaded.
Verify(w) == /\ pc[w] = "verify"
             /\ \/ Present(job[w]) /\ Move(w, "count")
                \/ Move(w, "request")
             /\ UNCHANGED <<tmp, disk>>

\* Mutation: the response is written straight to its destination.
RequestInPlace(w) == /\ pc[w] = "request"
                     /\ \/ /\ ~cancelled
                           /\ Move(w, "copy")
                           /\ tmp' = [tmp EXCEPT ![w] = Partial]
                           /\ disk' = [disk EXCEPT ![Dest[job[w]]] = Partial]
                        \/ GiveUp(w, "fetch")

\* Mutation: a failed request is tried again, for ever.
RequestForever(w) == /\ pc[w] = "request"
                     /\ \/ /\ ~cancelled
                           /\ Move(w, "copy")
                           /\ tmp' = [tmp EXCEPT ![w] = Partial]
                           /\ UNCHANGED disk
                        \/ Move(w, "verify") /\ UNCHANGED <<tmp, disk>>

\* MkdirAll, the GET, its status, CreateTemp.  A cancelled context starts no
\* request; a directory or a request can fail for any other reason.
Request(w) == /\ pc[w] = "request"
              /\ \/ /\ ~cancelled
                    /\ Move(w, "copy")
                    /\ tmp' = [tmp EXCEPT ![w] = Partial]
                    /\ UNCHANGED disk
                 \/ GiveUp(w, "fetch")
                 \/ cancelled /\ GiveUp(w, "cancelled")

\* io.Copy and Close: the whole response, whatever the server sent, or an
\* error.  A cancelled context usually breaks the copy, unless the body has
\* already arrived.
Copy(w) == /\ pc[w] = "copy"
           /\ \/ \E body \in Bodies :
                    /\ Move(w, "land")
                    /\ tmp' = [tmp EXCEPT ![w] = body]
                    /\ UNCHANGED disk
              \/ GiveUp(w, "fetch")
              \/ cancelled /\ GiveUp(w, "cancelled")

\* Mutation: the file is renamed into place whatever its digest.
LandUnchecked(w) == /\ pc[w] = "land"
                    /\ Move(w, "count")
                    /\ disk' = [disk EXCEPT ![Dest[job[w]]] = tmp[w]]
                    /\ tmp' = [tmp EXCEPT ![w] = Absent]

\* The digest of what was copied, and the Rename.
Land(w) == /\ pc[w] = "land"
           /\ \/ /\ Accepts(tmp[w], job[w])
                 /\ Move(w, "count")
                 /\ disk' = [disk EXCEPT ![Dest[job[w]]] = tmp[w]]
                 /\ tmp' = [tmp EXCEPT ![w] = Absent]
              \/ GiveUp(w, "fetch")

\* done.Add(1), the bytes and the progress report, then the next entry.
Count(w) == /\ pc[w] = "count"
            /\ done' = done \cup {job[w]}
            /\ pc' = [pc EXCEPT ![w] = "idle"]
            /\ UNCHANGED <<main, next, job, err, tmp, firstErr, cancelled,
                           parent, disk, orphans, kills>>

\* Mutation: every error is recorded, the last one wins.
RecordLast(w) == /\ pc[w] = "failing"
                 /\ pc' = [pc EXCEPT ![w] = "exited"]
                 /\ firstErr' = err[w]
                 /\ cancelled' = TRUE
                 /\ UNCHANGED <<main, next, job, err, tmp, done, parent, disk,
                                orphans, kills>>

\* Mutation: an error caused by a cancelled context is not recorded.
RecordNothing(w) == /\ pc[w] = "failing"
                    /\ pc' = [pc EXCEPT ![w] = "exited"]
                    /\ UNCHANGED <<main, next, job, err, tmp, firstErr, done,
                                   cancelled, parent, disk, orphans, kills>>

\* errOnce.Do: the first failing worker records its error and cancels; every
\* failing worker leaves the pool.
RecordError(w) == /\ pc[w] = "failing"
                  /\ pc' = [pc EXCEPT ![w] = "exited"]
                  /\ IF firstErr = NoErr
                     THEN firstErr' = err[w] /\ cancelled' = TRUE
                     ELSE UNCHANGED <<firstErr, cancelled>>
                  /\ UNCHANGED <<main, next, job, err, tmp, done, parent, disk,
                                 orphans, kills>>

\* for i := range jobs ends once the channel is closed.
Exit(w) == /\ pc[w] = "idle"
           /\ main = "wait"
           /\ Move(w, "exited")
           /\ UNCHANGED <<tmp, disk>>

-----------------------------------------------------------------------------
(* The caller and the machine.                                             *)

\* SIGTERM, or a failure elsewhere, cancels the context FetchAll was given.
ParentCancel == /\ Active
                /\ ~parent
                /\ parent' = TRUE
                /\ cancelled' = TRUE
                /\ UNCHANGED <<main, next, pc, job, err, tmp, firstErr, done,
                               disk, orphans, kills>>

\* SIGKILL between any two steps: no deferred call runs, and the temporary
\* files stay.
Kill == /\ Active
        /\ kills < MaxKills
        /\ kills' = kills + 1
        /\ main' = "killed"
        /\ pc' = [w \in Workers |-> "exited"]
        /\ tmp' = [w \in Workers |-> Absent]
        /\ orphans' = orphans \cup
                        {<<kills', w>> : w \in {v \in Workers : tmp[v] # Absent}}
        /\ UNCHANGED <<next, job, err, firstErr, done, cancelled, parent, disk>>

\* The agent is started again and calls FetchAll for the same set.
Restart == /\ main = "killed"
           /\ main' = "dispatch"
           /\ next' = 1
           /\ pc' = [w \in Workers |-> "idle"]
           /\ job' = [w \in Workers |-> 0]
           /\ err' = [w \in Workers |-> NoErr]
           /\ tmp' = [w \in Workers |-> Absent]
           /\ firstErr' = NoErr
           /\ done' = {}
           /\ cancelled' = FALSE
           /\ parent' = FALSE
           /\ UNCHANGED <<disk, orphans, kills>>

\* FetchAll has returned: nothing is left to do.
Finished == main = "returned" /\ UNCHANGED vars

-----------------------------------------------------------------------------
Work(w) == \/ Take(w)
           \/ Verify(w)
           \/ Request(w)
           \/ Copy(w)
           \/ Land(w)
           \/ Count(w)
           \/ RecordError(w)
           \/ Exit(w)

Next == \/ \E w \in Workers : Work(w)
        \/ CloseJobs
        \/ Return
        \/ ParentCancel
        \/ Kill
        \/ Restart
        \/ Finished

Spec == Init /\ [][Next]_vars

(* The Go scheduler runs every goroutine that can run, and the five-minute *)
(* timeout of the http.Client ends every request and every copy.  Nobody   *)
(* has to cancel, kill or restart anything.                                *)
Fairness == /\ \A w \in Workers : WF_vars(Work(w))
            /\ WF_vars(CloseJobs)
            /\ WF_vars(Return)

FairSpec == Spec /\ Fairness

-----------------------------------------------------------------------------
(* Invariants.                                                             *)

\* The shape of the state.
TypeOK == /\ main \in {"dispatch", "wait", "returned", "killed"}
          /\ next \in 1..(N + 1)
          /\ pc \in [Workers -> Locations]
          /\ job \in [Workers -> 0..N]
          /\ err \in [Workers -> Causes \cup {NoErr}]
          /\ tmp \in [Workers -> Bodies \cup {Absent, Partial}]
          /\ firstErr \in Causes \cup {NoErr}
          /\ done \in SUBSET Jobs
          /\ cancelled \in BOOLEAN
          /\ parent \in BOOLEAN
          /\ disk \in [Dests -> Bodies \cup {Absent}]
          /\ orphans \in SUBSET ((1..MaxKills) \X Workers)
          /\ kills \in 0..MaxKills

Complete == \A i \in Jobs : Fetched(i)

\* FetchAll returns nil to a caller who still wants the files only when every
\* one of them is in place (install.go:41, "Install downloads everything").
NilMeansComplete ==
    main = "returned" /\ firstErr = NoErr /\ ~parent => Complete

\* What install.go takes nil to mean, whoever cancelled: it goes on to the
\* next stage.  FetchAll returns firstErr even when it stopped on ctx.Done
\* and no worker had anything to fail at.
NilAlwaysMeansComplete ==
    main = "returned" /\ firstErr = NoErr => Complete

\* "The first error cancels the rest and is returned" (assets.go:72): the
\* error returned is the cause of the failure, never the cancellation that
\* followed it, unless the caller was the one to cancel.
ErrorIsRootCause == firstErr = "cancelled" => parent

\* When FetchAll returns, with or without an error, none of its goroutines is
\* still running and none of its temporary files is left.
QuietAfterReturn ==
    main = "returned" => \A w \in Workers : pc[w] = "exited" /\ tmp[w] = Absent

\* A worker that fails leaves the pool for good.  The dispatcher never blocks
\* on a channel nobody reads: when the last worker has gone, ctx.Done is
\* there to be picked.
NeverStranded ==
    main = "dispatch" /\ (\A w \in Workers : pc[w] = "exited") => cancelled

\* What the progress callback counts as done is on disk, and stays there.
CountedIsFetched == \A i \in done : Fetched(i)

-----------------------------------------------------------------------------
(* The inductive invariant behind them.                                    *)

\* A worker that is busy works on an entry already offered, and holds a
\* temporary file only between the request and the rename.
Holding ==
    \A w \in Workers :
        /\ pc[w] \in Busy => job[w] \in 1..(next - 1)
        /\ pc[w] = "land" => tmp[w] \in Bodies
        /\ pc[w] \notin {"copy", "land"} => tmp[w] = Absent
        /\ pc[w] = "count" => Fetched(job[w])

\* No entry is lost: one that was offered has been counted, or a worker still
\* has it, or there is an error to report.
Accounted ==
    main # "killed" =>
        \A i \in 1..(next - 1) :
            \/ i \in done
            \/ firstErr # NoErr
            \/ \E w \in Workers : pc[w] \in Busy /\ job[w] = i

\* Where a cancelled context, an error and an early end come from.
Blame ==
    /\ Active /\ cancelled => parent \/ firstErr # NoErr
    /\ parent /\ Active => cancelled
    /\ firstErr # NoErr /\ Active => cancelled
    /\ main \in {"wait", "returned"} => next = N + 1 \/ parent \/ firstErr # NoErr
    /\ \A w \in Workers :
        /\ pc[w] = "failing" => err[w] \in Causes
        /\ pc[w] = "failing" /\ err[w] = "cancelled" => cancelled
        /\ pc[w] = "exited" /\ main = "dispatch" => firstErr # NoErr

\* Nothing runs once FetchAll has returned or its process is gone.
Stopped ==
    main \in {"returned", "killed"} => \A w \in Workers : pc[w] = "exited"

\* No two workers have the same entry.
OneHolder ==
    \A v, w \in Workers : pc[v] \in Busy /\ pc[w] \in Busy /\ job[v] = job[w]
                             => v = w

IInv == /\ TypeOK
        /\ Holding
        /\ OneHolder
        /\ CountedIsFetched
        /\ Accounted
        /\ Blame
        /\ ErrorIsRootCause
        /\ Stopped

-----------------------------------------------------------------------------
(* Steps, liveness and refinement.                                         *)

\* What a call may still do: stages 0 to 5 of an entry, from the offer to the
\* count, the end of each worker, the two steps of the dispatcher after its
\* loop, and the one cancellation by the caller.
Stage == [idle |-> 6, verify |-> 1, request |-> 2, copy |-> 3, land |-> 4,
          count |-> 5, failing |-> 6, exited |-> 6]
StagesAhead ==
    {s \in Jobs \X (0..5) :
        \/ s[1] >= next
        \/ \E w \in Workers : job[w] = s[1] /\ s[2] >= Stage[pc[w]]}
Ahead == [entries |-> StagesAhead,
          workers |-> {w \in Workers : pc[w] # "exited"},
          calls |-> CASE main = "dispatch" -> {"close", "return"}
                      [] main = "wait" -> {"return"}
                      [] OTHER -> {},
          caller |-> IF parent THEN {} ELSE {"cancel"}]

\* FetchAll does nothing twice: whatever order the goroutines run in, each step
\* leaves less to do, and none gives anything back. No entry is retried, and
\* none is taken by a second worker (assets.go:95-123, client.go:67-131).
EveryStepCounts ==
    [][main # "killed" =>
          /\ \A part \in DOMAIN Ahead : Ahead'[part] \subseteq Ahead[part]
          /\ Ahead' # Ahead]_vars

\* The file at a destination changes only to a whole body with the digest
\* the metadata gives, whoever cancels and whenever the process dies
\* (client.go:99, "an interrupted download never leaves a file that looks
\* complete on the next boot").  A verified file is therefore never lost.
OnlyVerifiedBytesLand ==
    [][\A i \in Jobs : disk'[Dest[i]] # disk[Dest[i]]
                            => Accepts(disk'[Dest[i]], i)]_vars

\* FetchAll comes back, whatever fails and whoever cancels, unless it is
\* killed and never called again.
Returns == main = "dispatch" ~> main \in {"returned", "killed"}

Promise == INSTANCE Download WITH
    have <- {i \in Jobs : Fetched(i)},
    status <- CASE Active -> "running"
                [] main = "killed" -> "killed"
                [] main = "returned" /\ firstErr = NoErr -> "ok"
                [] OTHER -> "failed",
    withdrawn <- parent

\* FetchAll keeps the promise of Download.tla.
KeepsPromise == Promise!Spec
=============================================================================
