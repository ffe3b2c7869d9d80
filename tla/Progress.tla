------------------------------ MODULE Progress ------------------------------
(***************************************************************************)
(* What a worker of FetchPool.tla does between a Fetch that succeeded and  *)
(* its next entry (src/internal/mojang/assets.go:106-110): two atomic      *)
(* counters and the progress callback, which is the closure Installer.     *)
(* progress returns (src/internal/agent/install.go:121-134).  The closure  *)
(* reads and writes lastBucket with no lock, and every worker calls it.    *)
(***************************************************************************)
EXTENDS Naturals, FiniteSets, Sequences, FiniteSetsExt

CONSTANTS
    Workers,    \* the goroutines of the pool
    Total,      \* the number of entries of the set
    Size,       \* Size[i] is the declared size of entry i
    Buckets     \* lines per stage: the code's 20, fewer for TLC

ASSUME ProgressAssumption == /\ IsFiniteSet(Workers)
                             /\ Total \in Nat \ {0}
                             /\ Size \in [1..Total -> Nat]
                             /\ Buckets \in Nat \ {0}

VARIABLES
    next,       \* the entry the next Fetch to succeed is for
    pc,         \* where each worker is
    job,        \* the entry each worker has fetched
    done,       \* atomic.Int64
    bytesDone,  \* atomic.Int64
    n, b,       \* each worker's copies of the two
    lastBucket, \* the closure's variable
    lines       \* the lines logged, as <<done, bytes>>

vars == <<next, pc, job, done, bytesDone, n, b, lastBucket, lines>>

Bucket(count) == (count * Buckets) \div Total

Init == /\ next = 1
        /\ pc = [w \in Workers |-> "fetch"]
        /\ job = [w \in Workers |-> 0]
        /\ done = 0
        /\ bytesDone = 0
        /\ n = [w \in Workers |-> 0]
        /\ b = [w \in Workers |-> 0]
        /\ lastBucket = 0
        /\ lines = <<>>

Goto(w, location) == pc' = [pc EXCEPT ![w] = location]

\* Mutation: one entry too many.
FetchedOneMore(w) == /\ pc[w] = "fetch"
                     /\ next <= Total + 1
                     /\ Goto(w, "count")
                     /\ job' = [job EXCEPT ![w] = next]
                     /\ next' = next + 1
                     /\ UNCHANGED <<done, bytesDone, n, b, lastBucket, lines>>

\* A Fetch returns nil.
Fetched(w) == /\ pc[w] = "fetch"
              /\ next <= Total
              /\ Goto(w, "count")
              /\ job' = [job EXCEPT ![w] = next]
              /\ next' = next + 1
              /\ UNCHANGED <<done, bytesDone, n, b, lastBucket, lines>>

\* n := done.Add(1)
AddDone(w) == /\ pc[w] = "count"
              /\ Goto(w, "bytes")
              /\ done' = done + 1
              /\ n' = [n EXCEPT ![w] = done']
              /\ UNCHANGED <<next, job, bytesDone, b, lastBucket, lines>>

\* Mutation: the count is loaded again instead of kept from the addition.
AddBytesLoadDone(w) == /\ pc[w] = "bytes"
                       /\ Goto(w, "compare")
                       /\ bytesDone' = bytesDone + Size[job[w]]
                       /\ b' = [b EXCEPT ![w] = bytesDone']
                       /\ n' = [n EXCEPT ![w] = done]
                       /\ UNCHANGED <<next, job, done, lastBucket, lines>>

\* Mutation: the value before the addition is reported.
AddBytesOld(w) == /\ pc[w] = "bytes"
                  /\ Goto(w, "compare")
                  /\ bytesDone' = bytesDone + Size[job[w]]
                  /\ b' = [b EXCEPT ![w] = bytesDone]
                  /\ UNCHANGED <<next, job, done, n, lastBucket, lines>>

\* b := bytesDone.Add(size)
AddBytes(w) == /\ pc[w] = "bytes"
               /\ Goto(w, "compare")
               /\ bytesDone' = bytesDone + Size[job[w]]
               /\ b' = [b EXCEPT ![w] = bytesDone']
               /\ UNCHANGED <<next, job, done, n, lastBucket, lines>>

\* Mutation: a bucket below the last one is skipped too.
CompareOrdered(w) == /\ pc[w] = "compare"
                     /\ Goto(w, IF Bucket(n[w]) <= lastBucket /\ n[w] # Total
                                THEN "fetch" ELSE "store")
                     /\ UNCHANGED <<next, job, done, bytesDone, n, b,
                                    lastBucket, lines>>

\* if bucket == lastBucket && done != total { return }
Compare(w) == /\ pc[w] = "compare"
              /\ Goto(w, IF Bucket(n[w]) = lastBucket /\ n[w] # Total
                         THEN "fetch" ELSE "store")
              /\ UNCHANGED <<next, job, done, bytesDone, n, b, lastBucket, lines>>

\* lastBucket = bucket
Store(w) == /\ pc[w] = "store"
            /\ Goto(w, "print")
            /\ lastBucket' = Bucket(n[w])
            /\ UNCHANGED <<next, job, done, bytesDone, n, b, lines>>

\* in.logf: one write to the console.
PrintLine(w) == /\ pc[w] = "print"
                /\ Goto(w, "fetch")
                /\ lines' = Append(lines, <<n[w], b[w]>>)
                /\ UNCHANGED <<next, job, done, bytesDone, n, b, lastBucket>>

Quiet == next > Total /\ \A w \in Workers : pc[w] = "fetch"

Finished == Quiet /\ UNCHANGED vars

Next == \/ \E w \in Workers : \/ Fetched(w)
                              \/ AddDone(w)
                              \/ AddBytes(w)
                              \/ Compare(w)
                              \/ Store(w)
                              \/ PrintLine(w)
        \/ Finished

Spec == Init /\ [][Next]_vars

-----------------------------------------------------------------------------
Printed == {lines[k] : k \in 1..Len(lines)}

\* The declared bytes of a set of entries.
SizeOf(entries) ==
    LET sum[i \in 0..Total] ==
          IF i = 0 THEN 0
          ELSE sum[i - 1] + (IF i \in entries THEN Size[i] ELSE 0)
    IN  sum[Total]

\* FetchSet.TotalBytes.
SizeOfAll == SizeOf(1..Total)
Largest == Max({Size[i] : i \in 1..Total})

\* The shape of the state.
TypeOK == /\ next \in 1..(Total + 1)
          /\ pc \in [Workers ->
                        {"fetch", "count", "bytes", "compare", "store", "print"}]
          /\ job \in [Workers -> 0..Total]
          /\ done \in 0..Total
          /\ bytesDone \in 0..SizeOfAll
          /\ n \in [Workers -> 0..Total]
          /\ b \in [Workers -> 0..SizeOfAll]
          /\ lastBucket \in 0..Buckets
          /\ lines \in Seq((1..Total) \X (0..SizeOfAll))

\* "progress reports at every five percent" (install.go:119): however the
\* callers race, no step of the scale that a count reached goes unreported.
EveryStepReported ==
    Quiet => \A c \in 1..Total :
                Bucket(c) > 0 => \E line \in Printed : Bucket(line[1]) = Bucket(c)

\* The end of a stage is reported, and reported once: exactly one caller gets
\* the last count.
OneLastLine ==
    Quiet => Cardinality({k \in 1..Len(lines) : lines[k][1] = Total}) = 1

\* The two counters are separate, so the 100% line may miss bytes, but only
\* those of entries whose workers are between the two additions.
LagsByThePool(bytes) ==
    bytes + (Cardinality(Workers) - 1) * Largest >= SizeOfAll
LastLineLagsByThePool ==
    \A line \in Printed : line[1] = Total => LagsByThePool(line[2])

\* "Called from multiple goroutines, so implementations must be safe for
\* concurrent use" (assets.go:46-47): nobody writes lastBucket while another
\* goroutine is about to read or write it.
SafeForConcurrentUse ==
    ~ \E v, w \in Workers : /\ v # w
                            /\ pc[v] = "store"
                            /\ pc[w] \in {"compare", "store"}

-----------------------------------------------------------------------------
(* The inductive invariant behind the reports.                             *)

\* Between its first addition and its return to the next Fetch, a worker holds
\* a count that no other has.
Holding(w) == pc[w] \in {"bytes", "compare", "store", "print"}

\* What the steps rely on of the shape of the state.
Shape == /\ next \in 1..(Total + 1)
         /\ pc \in [Workers ->
                       {"fetch", "count", "bytes", "compare", "store", "print"}]
         /\ job \in [Workers -> 0..Total]
         /\ done \in Nat /\ bytesDone \in Nat
         /\ n \in [Workers -> Nat] /\ b \in [Workers -> Nat]
         /\ lines \in Seq(Nat \X Nat)
         /\ \A w \in Workers : pc[w] \in {"count", "bytes"} => job[w] > 0

\* Every entry fetched is counted, or about to be.
Uncounted == {w \in Workers : pc[w] = "count"}
NoneForgotten == done + Cardinality(Uncounted) = next - 1

\* A count handed out is held by one worker, or is on one line, or was
\* returned with; the last is never returned with.
LastCountIsOnce ==
    /\ \A w \in Workers : Holding(w) => n[w] \in 1..done
    /\ \A k \in DOMAIN lines : lines[k][1] <= done
    /\ \A v, w \in Workers :
          Holding(v) /\ Holding(w) /\ n[v] = Total /\ n[w] = Total => v = w
    /\ \A k, l \in DOMAIN lines :
          lines[k][1] = Total /\ lines[l][1] = Total => k = l
    /\ \A k \in DOMAIN lines, w \in Workers :
          lines[k][1] = Total => ~ (Holding(w) /\ n[w] = Total)
    /\ done = Total => \/ \E w \in Workers : Holding(w) /\ n[w] = Total
                       \/ \E k \in DOMAIN lines : lines[k][1] = Total

\* The step lastBucket stands for has its line, or a worker about to print it,
\* and so has every step a count has reached, or a worker on the way.
Reported(step) == \E k \in DOMAIN lines : Bucket(lines[k][1]) = step
StepsAreCovered ==
    /\ lastBucket # 0 =>
          \/ Reported(lastBucket)
          \/ \E w \in Workers : pc[w] = "print" /\ Bucket(n[w]) = lastBucket
    /\ \A c \in 1..done :
          Bucket(c) # 0 => \/ Reported(Bucket(c))
                          \/ \E w \in Workers : Holding(w) /\ Bucket(n[w]) = Bucket(c)

\* bytesDone is exact: the bytes of the entries fetched, but for those whose
\* workers have yet to add them, each its own.
Adding == {w \in Workers : pc[w] \in {"count", "bytes"}}
Added == (1..(next - 1)) \ {job[w] : w \in Adding}
BytesAreOfTheAdded ==
    /\ \A w \in Adding : job[w] < next
    /\ \A v, w \in Adding : job[v] = job[w] => v = w
    /\ bytesDone = SizeOf(Added)

\* Whoever has the last count takes bytesDone with it when all entries are
\* counted, and only the others may have theirs to add.
LastCountLags ==
    /\ \A w \in Workers :
          pc[w] \in {"compare", "store", "print"} /\ n[w] = Total =>
              LagsByThePool(b[w])
    /\ \A k \in DOMAIN lines : lines[k][1] = Total => LagsByThePool(lines[k][2])

IInv == TypeOK /\ Shape /\ NoneForgotten /\ LastCountIsOnce /\ StepsAreCovered
        /\ BytesAreOfTheAdded /\ LastCountLags
=============================================================================
