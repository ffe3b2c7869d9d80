-------------------------- MODULE FetchPoolProofs --------------------------
(***************************************************************************)
(* Proofs about FetchPool.tla, for any number of workers and of entries,   *)
(* any paths, any contents and any number of kills.                        *)
(***************************************************************************)
EXTENDS FetchPool, TLAPS

USE SetAssumption, PoolAssumption, ContentAssumption

(* The parts of the invariant that only concern one worker's own step.     *)

LEMMA InitEstablishes == Init => IInv
  <1> SUFFICES ASSUME Init PROVE IInv
    OBVIOUS
  <1> USE DEF Init, InitRun
  <1>1. TypeOK
    <2>1. orphans \in SUBSET ((1..MaxKills) \X Workers)
      OBVIOUS
    <2>2. kills \in 0..MaxKills /\ next \in 1..(N + 1)
      OBVIOUS
    <2>3. pc \in [Workers -> Locations] /\ job \in [Workers -> 0..N]
      BY DEF Locations
    <2> QED
      BY <2>1, <2>2, <2>3 DEF TypeOK
  <1>2. Holding /\ OneHolder /\ CountedIsFetched /\ Accounted
    BY DEF Holding, OneHolder, CountedIsFetched, Accounted, Busy, Locations
  <1>3. Blame /\ ErrorIsRootCause /\ Stopped
    BY DEF Blame, ErrorIsRootCause, Stopped, Active, NoErr
  <1> QED
    BY <1>1, <1>2, <1>3 DEF IInv

LEMMA GiveUpKeeps ==
  ASSUME IInv, NEW w \in Workers, NEW cause \in Causes,
         pc[w] \in {"request", "copy", "land"},
         cause = "cancelled" => cancelled,
         GiveUp(w, cause)
  PROVE  IInv'
  <1> USE DEF IInv, GiveUp
  <1>1. TypeOK'
    BY DEF TypeOK, Locations
  <1>2. Holding'
    BY DEF TypeOK, Holding, Busy, Locations, Fetched
  <1>3. CountedIsFetched'
    BY DEF CountedIsFetched, Fetched
  <1>4. Accounted'
    BY DEF TypeOK, Accounted, Busy, Locations
  <1>5. Blame'
    BY DEF TypeOK, Blame, Active
  <1>6. ErrorIsRootCause' /\ Stopped'
    BY DEF TypeOK, ErrorIsRootCause, Stopped
  <1>9. OneHolder'
    BY DEF TypeOK, OneHolder, Busy, Locations
  <1> QED
    BY <1>1, <1>2, <1>3, <1>4, <1>5, <1>6, <1>9

LEMMA MoveKeeps ==
  ASSUME IInv, NEW w \in Workers, NEW location \in Busy \ {"failing"},
         Move(w, location),
         pc[w] \in Busy,
         tmp' \in [Workers -> Bodies \cup {Absent, Partial}],
         disk' \in [Dests -> Bodies \cup {Absent}],
         \A v \in Workers \ {w} : tmp'[v] = tmp[v],
         location = "land" => tmp'[w] \in Bodies,
         location \notin {"copy", "land"} => tmp'[w] = Absent,
         \A i \in Jobs : Fetched(i) => Fetched(i)',
         location = "count" => Fetched(job[w])'
  PROVE  IInv'
  <1> USE DEF IInv, Move
  <1>1. TypeOK'
    BY DEF TypeOK, Busy
  <1>2. Holding'
    <2> SUFFICES ASSUME NEW v \in Workers
                 PROVE  /\ pc'[v] \in Busy => job'[v] \in 1..(next' - 1)
                        /\ pc'[v] = "land" => tmp'[v] \in Bodies
                        /\ pc'[v] \notin {"copy", "land"} => tmp'[v] = Absent
                        /\ pc'[v] = "count" => Fetched(job[v])'
      BY DEF Holding
    <2>1. job[v] \in 0..N /\ (pc[v] \in Busy => job[v] \in Jobs)
      BY DEF TypeOK, Holding, Jobs
    <2>2. CASE v = w
      BY <2>1, <2>2 DEF TypeOK, Holding, Busy
    <2>3. CASE v # w
      BY <2>1, <2>3 DEF TypeOK, Holding, Busy, Locations
    <2> QED
      BY <2>2, <2>3
  <1>3. CountedIsFetched'
    BY DEF TypeOK, CountedIsFetched
  <1>4. Accounted'
    BY DEF TypeOK, Accounted, Busy, Locations
  <1>5. Blame'
    BY DEF TypeOK, Blame, Active, Busy
  <1>6. ErrorIsRootCause' /\ Stopped'
    BY DEF TypeOK, ErrorIsRootCause, Stopped, Busy
  <1>9. OneHolder'
    BY DEF TypeOK, OneHolder, Busy, Locations
  <1> QED
    BY <1>1, <1>2, <1>3, <1>4, <1>5, <1>6, <1>9

-----------------------------------------------------------------------------
(* One lemma per action of a worker.                                       *)

LEMMA TakeKeeps ==
  ASSUME IInv, NEW w \in Workers, Take(w)
  PROVE  IInv'
  <1> USE DEF IInv, Take
  <1>1. TypeOK'
    BY DEF TypeOK, Locations
  <1>2. Holding'
    <2> SUFFICES ASSUME NEW v \in Workers
                 PROVE  /\ pc'[v] \in Busy => job'[v] \in 1..(next' - 1)
                        /\ pc'[v] = "land" => tmp'[v] \in Bodies
                        /\ pc'[v] \notin {"copy", "land"} => tmp'[v] = Absent
                        /\ pc'[v] = "count" => Fetched(job[v])'
      BY DEF Holding
    <2>1. CASE v = w
      BY <2>1 DEF TypeOK, Holding, Busy
    <2>2. CASE v # w
      BY <2>2 DEF TypeOK, Holding, Busy, Locations, Fetched
    <2> QED
      BY <2>1, <2>2
  <1>3. CountedIsFetched'
    BY DEF CountedIsFetched, Fetched
  <1>4. Accounted'
    <2> SUFFICES ASSUME NEW i \in 1..next
                 PROVE  \/ i \in done
                        \/ firstErr # NoErr
                        \/ \E v \in Workers : pc'[v] \in Busy /\ job'[v] = i
      BY DEF TypeOK, Accounted
    <2>1. CASE i = next
      BY <2>1 DEF TypeOK, Busy, Locations
    <2>2. CASE i # next
      BY <2>2 DEF TypeOK, Accounted, Busy, Locations
    <2> QED
      BY <2>1, <2>2
  <1>5. Blame'
    BY DEF TypeOK, Blame, Active
  <1>6. ErrorIsRootCause' /\ Stopped'
    BY DEF TypeOK, ErrorIsRootCause, Stopped
  <1>9. OneHolder'
    BY DEF TypeOK, Holding, OneHolder, Busy, Locations
  <1> QED
    BY <1>1, <1>2, <1>3, <1>4, <1>5, <1>6, <1>9

LEMMA VerifyKeeps ==
  ASSUME IInv, NEW w \in Workers, Verify(w)
  PROVE  IInv'
  <1> USE DEF Verify
  <1>1. job[w] \in Jobs
    BY DEF IInv, TypeOK, Holding, Busy, Locations, Jobs
  <1>2. tmp[w] = Absent
    BY DEF IInv, Holding
  <1>3. \A i \in Jobs : Fetched(i) => Fetched(i)'
    BY DEF Fetched
  <1>4. CASE Present(job[w]) /\ Move(w, "count")
    <2>1. Fetched(job[w])'
      BY <1>1, <1>4 DEF Present, Fetched, Accepts, Move
    <2> QED
      BY <1>2, <1>3, <1>4, <2>1, MoveKeeps DEF IInv, TypeOK, Busy, Locations
  <1>5. CASE Move(w, "request")
    BY <1>2, <1>3, <1>5, MoveKeeps DEF IInv, TypeOK, Busy, Locations
  <1> QED
    BY <1>4, <1>5

LEMMA RequestKeeps ==
  ASSUME IInv, NEW w \in Workers, Request(w)
  PROVE  IInv'
  <1>1. CASE Move(w, "copy") /\ tmp' = [tmp EXCEPT ![w] = Partial] /\ UNCHANGED disk
    <2>1. \A i \in Jobs : Fetched(i) => Fetched(i)'
      BY <1>1 DEF Fetched
    <2> QED
      BY <1>1, <2>1, MoveKeeps DEF Request, IInv, TypeOK, Busy, Locations
  <1>2. CASE GiveUp(w, "fetch")
    BY <1>2, GiveUpKeeps DEF Request, Causes
  <1>3. CASE cancelled /\ GiveUp(w, "cancelled")
    BY <1>3, GiveUpKeeps DEF Request, Causes
  <1> QED
    BY <1>1, <1>2, <1>3 DEF Request

LEMMA CopyKeeps ==
  ASSUME IInv, NEW w \in Workers, Copy(w)
  PROVE  IInv'
  <1>1. ASSUME NEW body \in Bodies,
               Move(w, "land"), tmp' = [tmp EXCEPT ![w] = body], UNCHANGED disk
        PROVE  IInv'
    <2>1. \A i \in Jobs : Fetched(i) => Fetched(i)'
      BY <1>1 DEF Fetched
    <2> QED
      BY <1>1, <2>1, MoveKeeps DEF Copy, IInv, TypeOK, Busy, Locations
  <1>2. CASE GiveUp(w, "fetch")
    BY <1>2, GiveUpKeeps DEF Copy, Causes
  <1>3. CASE cancelled /\ GiveUp(w, "cancelled")
    BY <1>3, GiveUpKeeps DEF Copy, Causes
  <1> QED
    BY <1>1, <1>2, <1>3 DEF Copy

(* A body that is right for one entry of a path is right for all of them,  *)
(* so a rename never spoils a file that was in place.                      *)
LEMMA LandingKeepsFetched ==
  ASSUME TypeOK, NEW j \in Jobs, NEW body, Accepts(body, j),
         disk' = [disk EXCEPT ![Dest[j]] = body]
  PROVE  /\ Fetched(j)'
         /\ \A i \in Jobs : Fetched(i) => Fetched(i)'
         /\ \A i \in Jobs : disk'[Dest[i]] # disk[Dest[i]]
                                => Accepts(disk'[Dest[i]], i)
  BY PathAssumption DEF TypeOK, Fetched, Accepts

LEMMA LandKeeps ==
  ASSUME IInv, NEW w \in Workers, Land(w)
  PROVE  IInv'
  <1>1. CASE /\ Accepts(tmp[w], job[w])
             /\ Move(w, "count")
             /\ disk' = [disk EXCEPT ![Dest[job[w]]] = tmp[w]]
             /\ tmp' = [tmp EXCEPT ![w] = Absent]
    <2>1. job[w] \in Jobs
      BY DEF Land, IInv, TypeOK, Holding, Busy, Locations, Jobs
    <2>2. /\ Fetched(job[w])'
          /\ \A i \in Jobs : Fetched(i) => Fetched(i)'
      <3>1. \A j \in Jobs : j = job[w] => Fetched(j)'
        BY <1>1, LandingKeepsFetched DEF IInv
      <3> QED
        BY <1>1, <2>1, <3>1, LandingKeepsFetched DEF IInv, Move
    <2>3. tmp[w] \in Bodies
      BY <1>1 DEF Accepts
    <2> QED
      BY <1>1, <2>2, <2>3, MoveKeeps DEF Land, IInv, TypeOK, Busy, Locations
  <1>2. CASE GiveUp(w, "fetch")
    BY <1>2, GiveUpKeeps DEF Land, Causes
  <1> QED
    BY <1>1, <1>2 DEF Land

LEMMA CountKeeps ==
  ASSUME IInv, NEW w \in Workers, Count(w)
  PROVE  IInv'
  <1> USE DEF IInv, Count
  <1>1. job[w] \in Jobs /\ Fetched(job[w])
    BY DEF TypeOK, Holding, Busy, Locations, Jobs
  <1>2. TypeOK'
    BY <1>1 DEF TypeOK, Locations
  <1>3. Holding'
    BY DEF TypeOK, Holding, Busy, Locations, Fetched
  <1>4. CountedIsFetched'
    BY <1>1 DEF CountedIsFetched, Fetched
  <1>5. Accounted'
    BY DEF TypeOK, Accounted, Busy, Locations
  <1>6. Blame'
    BY DEF TypeOK, Blame, Active
  <1>7. ErrorIsRootCause' /\ Stopped'
    BY DEF TypeOK, ErrorIsRootCause, Stopped
  <1>9. OneHolder'
    BY DEF TypeOK, OneHolder, Busy, Locations
  <1> QED
    BY <1>2, <1>3, <1>4, <1>5, <1>6, <1>7, <1>9

LEMMA RecordErrorKeeps ==
  ASSUME IInv, NEW w \in Workers, RecordError(w)
  PROVE  IInv'
  <1> USE DEF IInv, RecordError
  <1>1. Active
    BY DEF TypeOK, Stopped, Active
  <1>2. firstErr' # NoErr /\ cancelled'
    BY <1>1 DEF TypeOK, Blame, Causes, NoErr
  <1>3. TypeOK'
    BY DEF TypeOK, Locations, Blame
  <1>4. Holding'
    BY DEF TypeOK, Holding, Busy, Locations, Fetched
  <1>5. CountedIsFetched'
    BY DEF CountedIsFetched, Fetched
  <1>6. Accounted' /\ Stopped'
    BY <1>1, <1>2 DEF TypeOK, Accounted, Stopped, Active
  <1>7. Blame'
    BY <1>1, <1>2 DEF TypeOK, Blame, Active
  <1>8. ErrorIsRootCause'
    BY <1>1 DEF TypeOK, ErrorIsRootCause, Blame
  <1>9. OneHolder'
    BY DEF TypeOK, OneHolder, Busy, Locations
  <1> QED
    BY <1>3, <1>4, <1>5, <1>6, <1>7, <1>8, <1>9

LEMMA ExitKeeps ==
  ASSUME IInv, NEW w \in Workers, Exit(w)
  PROVE  IInv'
  <1> USE DEF IInv, Exit, Move
  <1>1. TypeOK'
    BY DEF TypeOK, Locations
  <1>2. Holding'
    BY DEF TypeOK, Holding, Busy, Locations, Fetched
  <1>3. CountedIsFetched'
    BY DEF CountedIsFetched, Fetched
  <1>4. Accounted'
    BY DEF TypeOK, Accounted, Busy, Locations
  <1>5. Blame'
    BY DEF TypeOK, Blame, Active
  <1>6. ErrorIsRootCause' /\ Stopped'
    BY DEF TypeOK, ErrorIsRootCause, Stopped
  <1>9. OneHolder'
    BY DEF TypeOK, OneHolder, Busy, Locations
  <1> QED
    BY <1>1, <1>2, <1>3, <1>4, <1>5, <1>6, <1>9

-----------------------------------------------------------------------------
(* One lemma per action of the dispatcher, the caller and the machine.     *)

LEMMA CloseJobsKeeps ==
  ASSUME IInv, CloseJobs
  PROVE  IInv'
  <1> USE DEF IInv, CloseJobs
  <1>1. TypeOK' /\ Holding' /\ OneHolder' /\ CountedIsFetched' /\ Accounted'
    BY DEF TypeOK, Holding, OneHolder, CountedIsFetched, Accounted, Fetched
  <1>2. Blame'
    BY DEF TypeOK, Blame, Active
  <1>3. ErrorIsRootCause' /\ Stopped'
    BY DEF ErrorIsRootCause, Stopped
  <1> QED
    BY <1>1, <1>2, <1>3

LEMMA ReturnKeeps ==
  ASSUME IInv, Return
  PROVE  IInv'
  <1> USE DEF IInv, Return
  <1>1. TypeOK' /\ Holding' /\ OneHolder' /\ CountedIsFetched' /\ Accounted'
    BY DEF TypeOK, Holding, OneHolder, CountedIsFetched, Accounted, Fetched
  <1>2. Blame'
    BY DEF TypeOK, Blame, Active
  <1>3. ErrorIsRootCause' /\ Stopped'
    BY DEF ErrorIsRootCause, Stopped
  <1> QED
    BY <1>1, <1>2, <1>3

LEMMA ParentCancelKeeps ==
  ASSUME IInv, ParentCancel
  PROVE  IInv'
  <1> USE DEF IInv, ParentCancel
  <1>1. TypeOK' /\ Holding' /\ OneHolder' /\ CountedIsFetched' /\ Accounted'
    BY DEF TypeOK, Holding, OneHolder, CountedIsFetched, Accounted, Fetched
  <1>2. Blame'
    BY DEF TypeOK, Blame, Active
  <1>3. ErrorIsRootCause' /\ Stopped'
    BY DEF ErrorIsRootCause, Stopped
  <1> QED
    BY <1>1, <1>2, <1>3

LEMMA KillKeeps ==
  ASSUME IInv, Kill
  PROVE  IInv'
  <1> USE DEF IInv, Kill
  <1>1. kills' \in 1..MaxKills
    BY DEF TypeOK
  <1>2. TypeOK'
    <2>1. {<<kills', w>> : w \in {v \in Workers : tmp[v] # Absent}}
            \in SUBSET ((1..MaxKills) \X Workers)
      BY <1>1
    <2> QED
      BY <1>1, <2>1 DEF TypeOK, Locations
  <1>3. Holding' /\ OneHolder'
    BY DEF Holding, OneHolder, Busy
  <1>4. CountedIsFetched' /\ Accounted'
    BY DEF CountedIsFetched, Accounted, Fetched
  <1>5. Blame' /\ ErrorIsRootCause' /\ Stopped'
    BY DEF Blame, Active, ErrorIsRootCause, Stopped
  <1> QED
    BY <1>2, <1>3, <1>4, <1>5

LEMMA RestartKeeps ==
  ASSUME IInv, Restart
  PROVE  IInv'
  <1> USE DEF IInv, Restart
  <1>1. TypeOK'
    <2>1. next' \in 1..(N + 1)
      OBVIOUS
    <2>2. pc' \in [Workers -> Locations] /\ job' \in [Workers -> 0..N]
      BY DEF Locations
    <2> QED
      BY <2>1, <2>2 DEF TypeOK
  <1>2. Holding' /\ OneHolder' /\ CountedIsFetched' /\ Accounted'
    BY DEF Holding, OneHolder, CountedIsFetched, Accounted, Busy, Locations
  <1>3. Blame' /\ ErrorIsRootCause' /\ Stopped'
    BY DEF Blame, Active, ErrorIsRootCause, Stopped, NoErr
  <1> QED
    BY <1>1, <1>2, <1>3

LEMMA StutterKeeps ==
  ASSUME IInv, UNCHANGED vars
  PROVE  IInv'
  BY DEF IInv, vars, TypeOK, Holding, OneHolder, CountedIsFetched, Accounted, Blame,
         ErrorIsRootCause, Stopped, Fetched, Active

LEMMA NextKeeps ==
  ASSUME IInv, [Next]_vars
  PROVE  IInv'
  <1>1. ASSUME NEW w \in Workers, Work(w)
        PROVE  IInv'
    BY <1>1, TakeKeeps, VerifyKeeps, RequestKeeps, CopyKeeps, LandKeeps,
       CountKeeps, RecordErrorKeeps, ExitKeeps DEF Work
  <1>2. CASE CloseJobs
    BY <1>2, CloseJobsKeeps
  <1>3. CASE Return
    BY <1>3, ReturnKeeps
  <1>4. CASE ParentCancel
    BY <1>4, ParentCancelKeeps
  <1>5. CASE Kill
    BY <1>5, KillKeeps
  <1>6. CASE Restart
    BY <1>6, RestartKeeps
  <1>7. CASE Finished \/ UNCHANGED vars
    BY <1>7, StutterKeeps DEF Finished
  <1> QED
    BY <1>1, <1>2, <1>3, <1>4, <1>5, <1>6, <1>7 DEF Next

-----------------------------------------------------------------------------
(* The theorems.                                                           *)

\* The inductive invariant holds of every run of FetchAll.
THEOREM InductiveInvariant == Spec => []IInv
  BY InitEstablishes, NextKeeps, PTL DEF Spec

\* Every variable keeps its type, for every pool and every set.
THEOREM TypeCorrect == Spec => []TypeOK
  <1>1. IInv => TypeOK
    BY DEF IInv
  <1> QED
    BY <1>1, InductiveInvariant, PTL

\* nil means that every file of the set is in place, unless the caller
\* cancelled (assets.go:73-126).
THEOREM NilIsComplete == Spec => []NilMeansComplete
  <1>1. IInv => NilMeansComplete
    BY DEF IInv, TypeOK, NilMeansComplete, Complete, Stopped, Accounted,
           CountedIsFetched, Blame, Busy, Jobs
  <1> QED
    BY <1>1, InductiveInvariant, PTL

\* The error returned is a cause and never a consequence of the cancellation
\* it brought about (assets.go:99-105).
THEOREM FirstErrorIsCause == Spec => []ErrorIsRootCause
  <1>1. IInv => ErrorIsRootCause
    BY DEF IInv
  <1> QED
    BY <1>1, InductiveInvariant, PTL

\* FetchAll leaves neither a goroutine nor a temporary file behind
\* (client.go:105, assets.go:120 and 125).
THEOREM NothingLeftBehind == Spec => []QuietAfterReturn
  <1>1. IInv => QuietAfterReturn
    BY DEF IInv, QuietAfterReturn, Stopped, Holding
  <1> QED
    BY <1>1, InductiveInvariant, PTL

\* What the progress callback counts is on disk: a worker adds to done only
\* after its Fetch, and no verified file is lost (assets.go:98-106).
THEOREM CountIsTrue == Spec => []CountedIsFetched
  <1>1. IInv => CountedIsFetched
    BY DEF IInv
  <1> QED
    BY <1>1, InductiveInvariant, PTL

\* The dispatcher never waits for readers that have all left
\* (assets.go:115-122).
THEOREM DispatcherHasAWayOut == Spec => []NeverStranded
  <1>1. IInv => NeverStranded
    BY DEF IInv, NeverStranded, Blame, Active
  <1> QED
    BY <1>1, InductiveInvariant, PTL

-----------------------------------------------------------------------------
(* What a step may do to the files.                                        *)

LEMMA OnlyLandWrites ==
  ASSUME IInv, [Next]_vars
  PROVE  \/ UNCHANGED disk
         \/ \E w \in Workers :
                /\ job[w] \in Jobs
                /\ Accepts(tmp[w], job[w])
                /\ disk' = [disk EXCEPT ![Dest[job[w]]] = tmp[w]]
                /\ UNCHANGED <<main, firstErr, parent>>
  <1>1. ASSUME NEW w \in Workers, Land(w)
        PROVE  \/ UNCHANGED disk
               \/ /\ job[w] \in Jobs
                  /\ Accepts(tmp[w], job[w])
                  /\ disk' = [disk EXCEPT ![Dest[job[w]]] = tmp[w]]
                  /\ UNCHANGED <<main, firstErr, parent>>
    <2>1. job[w] \in Jobs
      BY <1>1 DEF Land, IInv, TypeOK, Holding, Busy, Locations, Jobs
    <2>2. CASE GiveUp(w, "fetch")
      BY <2>2 DEF GiveUp
    <2>3. CASE ~GiveUp(w, "fetch")
      BY <1>1, <2>1, <2>3 DEF Land, Move
    <2> QED
      BY <2>2, <2>3
  <1>2. ASSUME NEW w \in Workers, Work(w), ~Land(w)
        PROVE  UNCHANGED disk
    BY <1>2 DEF Work, Take, Verify, Request, Copy, Count, RecordError, Exit,
                GiveUp, Move
  <1>3. CASE CloseJobs \/ Return \/ ParentCancel \/ Kill \/ Restart
             \/ Finished \/ UNCHANGED vars
    BY <1>3 DEF CloseJobs, Return, ParentCancel, Kill, Restart, Finished, vars
  <1> QED
    BY <1>1, <1>2, <1>3 DEF Next

LEMMA WritesAreVerified ==
  ASSUME IInv, [Next]_vars
  PROVE  /\ \A i \in Jobs : Fetched(i) => Fetched(i)'
         /\ \A i \in Jobs : disk'[Dest[i]] # disk[Dest[i]]
                                => Accepts(disk'[Dest[i]], i)
  <1>1. CASE UNCHANGED disk
    BY <1>1 DEF Fetched
  <1>2. ASSUME NEW w \in Workers,
               job[w] \in Jobs,
               Accepts(tmp[w], job[w]),
               disk' = [disk EXCEPT ![Dest[job[w]]] = tmp[w]]
        PROVE  /\ \A i \in Jobs : Fetched(i) => Fetched(i)'
               /\ \A i \in Jobs : disk'[Dest[i]] # disk[Dest[i]]
                                      => Accepts(disk'[Dest[i]], i)
    BY <1>2, LandingKeepsFetched DEF IInv
  <1> QED
    BY <1>1, <1>2, OnlyLandWrites

\* No step of any run, a kill included, leaves at a destination anything but
\* what was there or a whole body with the right digest (client.go:99-119).
THEOREM WholeFilesOnly == Spec => OnlyVerifiedBytesLand
  BY InductiveInvariant, WritesAreVerified, PTL DEF Spec, OnlyVerifiedBytesLand

-----------------------------------------------------------------------------
(* Every step leaves less to do.                                           *)

\* Stage k of entry i is still ahead.
StageAhead(i, k) == \/ i >= next
                    \/ \E w \in Workers : job[w] = i /\ k >= Stage[pc[w]]

LEMMA StageValues ==
  /\ Stage["idle"] = 6 /\ Stage["verify"] = 1 /\ Stage["request"] = 2
  /\ Stage["copy"] = 3 /\ Stage["land"] = 4 /\ Stage["count"] = 5
  /\ Stage["failing"] = 6 /\ Stage["exited"] = 6
  /\ \A l \in Locations : Stage[l] \in 1..6
  BY DEF Stage, Locations

LEMMA EntriesAhead ==
  /\ \A i \in Jobs, k \in 0..5 : <<i, k>> \in StagesAhead <=> StageAhead(i, k)
  /\ \A s \in StagesAhead : \E i \in Jobs, k \in 0..5 : s = <<i, k>>
  BY DEF StagesAhead, StageAhead

LEMMA EntriesAheadNext ==
  /\ \A i \in Jobs, k \in 0..5 : <<i, k>> \in StagesAhead' <=> StageAhead(i, k)'
  /\ \A s \in StagesAhead' : \E i \in Jobs, k \in 0..5 : s = <<i, k>>
  BY DEF StagesAhead, StageAhead

LEMMA EntriesShrink ==
  ASSUME \A i \in Jobs, k \in 0..5 : StageAhead(i, k)' => StageAhead(i, k)
  PROVE  /\ StagesAhead' \subseteq StagesAhead
         /\ (\E i \in Jobs, k \in 0..5 : StageAhead(i, k) /\ ~StageAhead(i, k)')
               => StagesAhead' # StagesAhead
  <1>1. ASSUME NEW s \in StagesAhead'
        PROVE  s \in StagesAhead
    <2>1. PICK i \in Jobs, k \in 0..5 : s = <<i, k>>
      BY EntriesAheadNext
    <2> QED
      BY <2>1, EntriesAhead, EntriesAheadNext
  <1>2. ASSUME NEW i \in Jobs, NEW k \in 0..5,
               StageAhead(i, k), ~StageAhead(i, k)'
        PROVE  StagesAhead' # StagesAhead
    <2>1. <<i, k>> \in StagesAhead /\ <<i, k>> \notin StagesAhead'
      BY <1>2, EntriesAhead, EntriesAheadNext
    <2> QED
      BY <2>1
  <1> QED
    BY <1>1, <1>2

\* A worker that goes on with its entry, or is done with it, leaves at least
\* one stage of that entry behind: nobody else has it.
LEMMA MovingOn ==
  ASSUME IInv, NEW w \in Workers, NEW l \in Locations,
         pc[w] \in Busy, pc' = [pc EXCEPT ![w] = l], UNCHANGED <<job, next>>,
         Stage[pc[w]] < Stage[l]
  PROVE  StagesAhead' \subseteq StagesAhead /\ StagesAhead' # StagesAhead
  <1> USE DEF IInv, TypeOK
  <1>1. /\ \A v \in Workers : Stage[pc[v]] \in 1..6 /\ Stage[pc'[v]] \in 1..6
        /\ pc'[w] = l /\ \A v \in Workers \ {w} : pc'[v] = pc[v]
    BY StageValues
  <1>2. \A i \in Jobs, k \in 0..5 : StageAhead(i, k)' => StageAhead(i, k)
    <2> SUFFICES ASSUME NEW i \in Jobs, NEW k \in 0..5, StageAhead(i, k)'
                 PROVE  StageAhead(i, k)
      OBVIOUS
    <2>1. ASSUME NEW v \in Workers, job[v] = i, k >= Stage[pc'[v]]
          PROVE  k >= Stage[pc[v]]
      BY <1>1, <2>1
    <2> QED
      BY <2>1 DEF StageAhead
  <1>3. job[w] \in 1..(next - 1) /\ job[w] \in Jobs
    BY DEF Holding, Jobs
  <1>4. PICK i \in Jobs, k \in 1..5 : i = job[w] /\ k = Stage[pc[w]]
    BY <1>1, <1>3, StageValues
  <1>5. StageAhead(i, k)
    BY <1>1, <1>4 DEF StageAhead
  <1>6. ASSUME NEW v \in Workers, job[v] = i
        PROVE  ~(k >= Stage[pc'[v]])
    <2>1. CASE v = w
      BY <1>1, <1>4, <2>1
    <2>2. CASE v # w
      <3>1. pc[v] \in {"idle", "exited"}
        BY <1>4, <1>6, <2>2 DEF OneHolder, Busy
      <3> QED
        BY <1>1, <1>4, <2>2, <3>1, StageValues
    <2> QED
      BY <2>1, <2>2
  <1>7. ~StageAhead(i, k)'
    BY <1>3, <1>4, <1>6 DEF StageAhead
  <1>8. k \in 0..5
    OBVIOUS
  <1> QED
    BY <1>2, <1>5, <1>7, <1>8, EntriesShrink

\* An entry that is taken is not offered again.
LEMMA TakingOne ==
  ASSUME IInv, NEW w \in Workers, Take(w)
  PROVE  StagesAhead' \subseteq StagesAhead /\ StagesAhead' # StagesAhead
  <1> USE DEF IInv, TypeOK, Take
  <1>1. /\ \A v \in Workers : Stage[pc[v]] \in 1..6 /\ Stage[pc'[v]] \in 1..6
        /\ pc'[w] = "verify" /\ \A v \in Workers \ {w} : pc'[v] = pc[v]
        /\ job'[w] = next /\ \A v \in Workers \ {w} : job'[v] = job[v]
    BY StageValues DEF Locations
  <1>2. \A i \in Jobs, k \in 0..5 : StageAhead(i, k)' => StageAhead(i, k)
    <2> SUFFICES ASSUME NEW i \in Jobs, NEW k \in 0..5, StageAhead(i, k)'
                 PROVE  StageAhead(i, k)
      OBVIOUS
    <2>1. CASE i >= next'
      BY <2>1 DEF StageAhead, Jobs
    <2>2. ASSUME NEW v \in Workers, job'[v] = i, k >= Stage[pc'[v]]
          PROVE  StageAhead(i, k)
      BY <1>1, <2>2 DEF StageAhead, Jobs
    <2> QED
      BY <2>1, <2>2 DEF StageAhead
  <1>3. PICK i \in Jobs : i = next
    BY DEF Jobs
  <1>4. StageAhead(i, 0)
    BY <1>3 DEF StageAhead
  <1>5. ~StageAhead(i, 0)'
    <2>1. ASSUME NEW v \in Workers, job'[v] = i, 0 >= Stage[pc'[v]]
          PROVE  FALSE
      BY <1>1, <2>1
    <2>2. ~(i >= next')
      BY <1>3
    <2> QED
      BY <2>1, <2>2 DEF StageAhead
  <1>6. 0 \in 0..5
    OBVIOUS
  <1> QED
    BY <1>2, <1>4, <1>5, <1>6, EntriesShrink

\* Progress made on an entry, by a worker, or by FetchAll and its caller.
LEMMA LessAhead ==
  ASSUME StagesAhead' \subseteq StagesAhead,
         Ahead.workers' \subseteq Ahead.workers,
         Ahead.calls' \subseteq Ahead.calls,
         Ahead.caller' \subseteq Ahead.caller,
         \/ StagesAhead' # StagesAhead
         \/ Ahead.workers' # Ahead.workers
         \/ Ahead.calls' # Ahead.calls
         \/ Ahead.caller' # Ahead.caller
  PROVE  /\ \A part \in DOMAIN Ahead : Ahead'[part] \subseteq Ahead[part]
         /\ Ahead' # Ahead
  <1>1. Ahead.entries = StagesAhead /\ Ahead.entries' = StagesAhead'
    BY DEF Ahead
  <1>2. DOMAIN Ahead = {"entries", "workers", "calls", "caller"}
    BY DEF Ahead
  <1> QED
    BY <1>1, <1>2

LEMMA Parts ==
  /\ Ahead.workers = {w \in Workers : pc[w] # "exited"}
  /\ Ahead.calls = CASE main = "dispatch" -> {"close", "return"}
                     [] main = "wait" -> {"return"}
                     [] OTHER -> {}
  /\ Ahead.caller = IF parent THEN {} ELSE {"cancel"}
  BY DEF Ahead

LEMMA PartsNext ==
  /\ Ahead.workers' = {w \in Workers : pc'[w] # "exited"}
  /\ Ahead.calls' = CASE main' = "dispatch" -> {"close", "return"}
                      [] main' = "wait" -> {"return"}
                      [] OTHER -> {}
  /\ Ahead.caller' = IF parent' THEN {} ELSE {"cancel"}
  BY DEF Ahead

\* There is less ahead.
Progresses == /\ \A part \in DOMAIN Ahead : Ahead'[part] \subseteq Ahead[part]
              /\ Ahead' # Ahead

LEMMA WorkCounts ==
  ASSUME IInv, NEW w \in Workers, Work(w)
  PROVE  Progresses
  <1> USE DEF IInv
  <1>1. UNCHANGED <<main, parent>>
    BY DEF Work, Take, Verify, Request, Copy, Land, Count, RecordError, Exit,
           GiveUp, Move
  <1>2. Ahead.calls' = Ahead.calls /\ Ahead.caller' = Ahead.caller
    BY <1>1, Parts, PartsNext
  <1>3. CASE RecordError(w) \/ Exit(w)
    <2>1. /\ pc[w] \in {"failing", "idle"} /\ pc' = [pc EXCEPT ![w] = "exited"]
          /\ UNCHANGED <<job, next>>
      BY <1>3 DEF RecordError, Exit, Move
    <2>2. Ahead.workers' \subseteq Ahead.workers /\ Ahead.workers' # Ahead.workers
      <3>1. w \in Ahead.workers /\ w \notin Ahead.workers'
        BY <2>1, Parts, PartsNext DEF TypeOK
      <3>2. ASSUME NEW v \in Ahead.workers' PROVE v \in Ahead.workers
        BY <2>1, Parts, PartsNext DEF TypeOK
      <3> QED
        BY <3>1, <3>2
    <2>3. \A i \in Jobs, k \in 0..5 : StageAhead(i, k)' => StageAhead(i, k)
      <3>1. \A v \in Workers : Stage[pc'[v]] = Stage[pc[v]]
        BY <2>1, StageValues DEF TypeOK
      <3> QED
        BY <2>1, <3>1 DEF StageAhead
    <2> QED
      BY <1>2, <2>2, <2>3, EntriesShrink, LessAhead DEF Progresses
  <1>4. CASE ~(RecordError(w) \/ Exit(w))
    <2>1. StagesAhead' \subseteq StagesAhead /\ StagesAhead' # StagesAhead
      <3>1. CASE Take(w)
        BY <3>1, TakingOne
      <3>2. CASE ~Take(w)
        <4>1. PICK l \in Locations :
                 /\ pc[w] \in Busy /\ pc' = [pc EXCEPT ![w] = l]
                 /\ UNCHANGED <<job, next>>
                 /\ Stage[pc[w]] < Stage[l]
          <5>1. CASE Verify(w)
            <6>1. /\ pc[w] = "verify" /\ UNCHANGED <<job, next>>
                  /\ \/ pc' = [pc EXCEPT ![w] = "count"]
                     \/ pc' = [pc EXCEPT ![w] = "request"]
              BY <5>1 DEF Verify, Move
            <6> QED
              BY <6>1, StageValues DEF Busy, Locations
          <5>2. CASE Request(w)
            BY <5>2, StageValues DEF Request, Move, GiveUp, Busy, Locations
          <5>3. CASE Copy(w)
            BY <5>3, StageValues DEF Copy, Move, GiveUp, Busy, Locations
          <5>4. CASE Land(w)
            BY <5>4, StageValues DEF Land, Move, GiveUp, Busy, Locations
          <5>5. CASE Count(w)
            BY <5>5, StageValues DEF Count, Busy, Locations
          <5> QED
            BY <1>4, <3>2, <5>1, <5>2, <5>3, <5>4, <5>5 DEF Work
        <4> QED
          BY <4>1, MovingOn
      <3> QED
        BY <3>1, <3>2
    <2>2. \A v \in Workers : pc'[v] = "exited" => pc[v] = "exited"
      BY <1>4 DEF Work, Take, Verify, Request, Copy, Land, Count, GiveUp, Move,
                  TypeOK
    <2>3. \A v \in Workers : pc[v] = "exited" => pc'[v] = "exited"
      BY <1>4 DEF Work, Take, Verify, Request, Copy, Land, Count, GiveUp, Move,
                  TypeOK
    <2>4. Ahead.workers' = Ahead.workers
      BY <2>2, <2>3, Parts, PartsNext
    <2> QED
      BY <1>2, <2>1, <2>4, LessAhead DEF Progresses
  <1> QED
    BY <1>3, <1>4

\* A step that leaves every entry to the worker that has it.
LEMMA SameEntries ==
  ASSUME UNCHANGED <<next, job, pc>>
  PROVE  StagesAhead' = StagesAhead /\ Ahead.workers' = Ahead.workers
  <1>1. StagesAhead' = StagesAhead
    BY DEF StagesAhead
  <1> QED
    BY <1>1, Parts, PartsNext

LEMMA StepCounts ==
  ASSUME IInv, [Next]_vars
  PROVE  main # "killed" /\ vars' # vars => Progresses
  <1> SUFFICES ASSUME main # "killed", vars' # vars PROVE Progresses
    OBVIOUS
  <1>1. CASE CloseJobs \/ Return
    <2>1. /\ UNCHANGED <<next, job, pc, parent>>
          /\ \/ main = "dispatch" /\ main' = "wait"
             \/ main = "wait" /\ main' = "returned"
      BY <1>1 DEF CloseJobs, Return
    <2>2. Ahead.calls' \subseteq Ahead.calls /\ Ahead.calls' # Ahead.calls
      BY <2>1, Parts, PartsNext
    <2>3. Ahead.caller' = Ahead.caller
      BY <2>1, Parts, PartsNext
    <2> QED
      BY <2>1, <2>2, <2>3, SameEntries, LessAhead DEF Progresses
  <1>2. CASE ParentCancel
    <2>1. UNCHANGED <<next, job, pc, main>> /\ ~parent /\ parent'
      BY <1>2 DEF ParentCancel
    <2>2. Ahead.caller' \subseteq Ahead.caller /\ Ahead.caller' # Ahead.caller
      BY <2>1, Parts, PartsNext
    <2>3. Ahead.calls' = Ahead.calls
      BY <2>1, Parts, PartsNext
    <2> QED
      BY <2>1, <2>2, <2>3, SameEntries, LessAhead DEF Progresses
  <1>3. CASE Kill
    <2>1. /\ main \in {"dispatch", "wait"} /\ main' = "killed"
          /\ UNCHANGED <<next, job, parent>>
          /\ pc' = [w \in Workers |-> "exited"]
      BY <1>3 DEF Kill, Active
    <2>2. Ahead.calls' \subseteq Ahead.calls /\ Ahead.calls' # Ahead.calls
      BY <2>1, Parts, PartsNext
    <2>3. Ahead.caller' = Ahead.caller
      BY <2>1, Parts, PartsNext
    <2>4. Ahead.workers' \subseteq Ahead.workers
      BY <2>1, Parts, PartsNext
    <2>5. \A i \in Jobs, k \in 0..5 : StageAhead(i, k)' => StageAhead(i, k)
      BY <2>1, StageValues DEF StageAhead
    <2> QED
      BY <2>2, <2>3, <2>4, <2>5, EntriesShrink, LessAhead DEF Progresses
  <1>4. ~Restart /\ ~Finished
    BY DEF Restart, Finished
  <1> QED
    BY <1>1, <1>2, <1>3, <1>4, WorkCounts DEF Next

\* FetchAll does nothing twice, and nothing for ever: each of its steps crosses
\* something off what is ahead, so a call of N entries by a pool of W workers
\* takes at most 6N + W + 3 of them (assets.go:95-123, client.go:67-131).
THEOREM NothingIsDoneTwice == Spec => EveryStepCounts
  <1>1. IInv /\ [Next]_vars =>
          [main # "killed" =>
              /\ \A part \in DOMAIN Ahead : Ahead'[part] \subseteq Ahead[part]
              /\ Ahead' # Ahead]_vars
    BY StepCounts DEF Progresses
  <1> QED
    BY <1>1, InductiveInvariant, PTL DEF Spec, EveryStepCounts

-----------------------------------------------------------------------------
(* FetchAll implements Download.                                           *)

Status == CASE Active -> "running"
            [] main = "killed" -> "killed"
            [] main = "returned" /\ firstErr = NoErr -> "ok"
            [] OTHER -> "failed"
Have == {i \in Jobs : Fetched(i)}

LEMMA StatusValues ==
  ASSUME TypeOK
  PROVE  /\ Status = "running" <=> main \in {"dispatch", "wait"}
         /\ Status = "killed" <=> main = "killed"
         /\ Status = "ok" <=> main = "returned" /\ firstErr = NoErr
         /\ Status = "failed" <=> main = "returned" /\ firstErr # NoErr
  BY DEF TypeOK, Status, Active

(* Download's definitions, with the refinement mapping filled in.          *)
LEMMA Mapping ==
  /\ UNCHANGED <<Have, Status, parent>> => UNCHANGED Promise!vars
  /\ Promise!Init <=> Have \in SUBSET Jobs /\ Status = "running" /\ parent = FALSE
  /\ Promise!Arrive <=> /\ Status = "running"
                        /\ Have' \in SUBSET Jobs
                        /\ Have \subseteq Have'
                        /\ UNCHANGED <<Status, parent>>
  /\ Promise!Withdraw <=> /\ Status = "running"
                          /\ parent' = TRUE
                          /\ UNCHANGED <<Have, Status>>
  /\ Promise!Succeed <=> /\ Status = "running"
                         /\ Have = Jobs \/ parent
                         /\ Status' = "ok"
                         /\ UNCHANGED <<Have, parent>>
  /\ Promise!Fail <=> /\ Status = "running"
                      /\ Status' = "failed"
                      /\ UNCHANGED <<Have, parent>>
  /\ Promise!Die <=> /\ Status = "running"
                     /\ Status' = "killed"
                     /\ UNCHANGED <<Have, parent>>
  /\ Promise!Again <=> /\ Status = "killed"
                       /\ Status' = "running"
                       /\ parent' = FALSE
                       /\ UNCHANGED Have
  BY DEF Promise!vars, Promise!Init, Promise!Arrive, Promise!Withdraw,
         Promise!Succeed, Promise!Fail, Promise!Die, Promise!Again, Have, Status

LEMMA NextImplements ==
  ASSUME IInv, [Next]_vars
  PROVE  [Promise!Next]_(Promise!vars)
  <1>1. TypeOK /\ TypeOK' /\ IInv'
    BY NextKeeps DEF IInv
  <1>2. Have \subseteq Have' /\ Have' \in SUBSET Jobs
    BY WritesAreVerified DEF Have
  <1>3. UNCHANGED disk => UNCHANGED Have
    BY DEF Have, Fetched
  <1>4. UNCHANGED <<main, firstErr>> => UNCHANGED Status
    BY DEF Status, Active
  <1>5. ASSUME NEW w \in Workers, Work(w)
        PROVE  UNCHANGED <<Status, parent>>
               /\ (Status = "running" \/ UNCHANGED Have)
    <2>1. CASE RecordError(w)
      <3>1. Active
        BY <2>1 DEF IInv, TypeOK, Stopped, Active, RecordError
      <3> QED
        BY <1>3, <2>1, <3>1 DEF RecordError, Status, Active
    <2>2. CASE ~RecordError(w)
      <3>1. UNCHANGED <<main, firstErr, parent>>
        BY <1>5, <2>2 DEF Work, Take, Verify, Request, Copy, Land, Count, Exit,
                          GiveUp, Move
      <3>2. CASE Land(w)
        <4>1. main \in {"dispatch", "wait"}
          BY <3>2 DEF Land, IInv, TypeOK, Stopped
        <4> QED
          BY <1>1, <1>4, <3>1, <4>1, StatusValues
      <3>3. CASE ~Land(w)
        <4>1. UNCHANGED disk
          BY <1>5, <2>2, <3>3 DEF Work, Take, Verify, Request, Copy, Count, Exit,
                                  GiveUp, Move
        <4> QED
          BY <1>3, <1>4, <3>1, <4>1
      <3> QED
        BY <3>2, <3>3
    <2> QED
      BY <2>1, <2>2
  <1>6. CASE \E w \in Workers : Work(w)
    <2>1. CASE Status = "running"
      BY <1>2, <1>5, <1>6, <2>1, Mapping DEF Promise!Next
    <2>2. CASE Status # "running"
      BY <1>5, <1>6, <2>2, Mapping
    <2> QED
      BY <2>1, <2>2
  <1>7. CASE CloseJobs
    BY <1>3, <1>7, Mapping DEF CloseJobs, Status, Active
  <1>8. CASE Return
    <2>1. /\ UNCHANGED <<Have, parent>>
          /\ Status = "running" /\ Status' \in {"ok", "failed"}
          /\ Status' = "ok" => firstErr = NoErr
      BY <1>1, <1>3, <1>8, StatusValues DEF Return, Status, Active
    <2>2. firstErr = NoErr /\ ~parent => Have = Jobs
      BY <1>1, <1>8 DEF Return, IInv, TypeOK, Have, Accounted, CountedIsFetched,
                        Blame, Busy, Jobs
    <2> QED
      BY <1>1, <2>1, <2>2, Mapping DEF Promise!Next, TypeOK
  <1>9. CASE ParentCancel
    <2>1. Status = "running" /\ parent' = TRUE /\ UNCHANGED <<Have, Status>>
      BY <1>3, <1>9 DEF ParentCancel, Status, Active
    <2> QED
      BY <2>1, Mapping DEF Promise!Next
  <1>10. CASE Kill
    <2>1. Status = "running" /\ Status' = "killed" /\ UNCHANGED <<Have, parent>>
      BY <1>3, <1>10 DEF Kill, Status, Active
    <2> QED
      BY <2>1, Mapping DEF Promise!Next
  <1>11. CASE Restart
    <2>1. /\ Status = "killed" /\ Status' = "running"
          /\ parent' = FALSE /\ UNCHANGED Have
      BY <1>3, <1>11 DEF Restart, Status, Active
    <2> QED
      BY <2>1, Mapping DEF Promise!Next
  <1>12. CASE Finished \/ UNCHANGED vars
    BY <1>3, <1>4, <1>12, Mapping DEF Finished, vars
  <1> QED
    BY <1>6, <1>7, <1>8, <1>9, <1>10, <1>11, <1>12 DEF Next

\* Every run of FetchAll is a run of Download: nil, an error, a kill and a
\* cancellation mean to the caller what that module says.
THEOREM Refinement == Spec => KeepsPromise
  <1>1. Init => Promise!Init
    <2> SUFFICES ASSUME Init PROVE Promise!Init
      OBVIOUS
    <2>1. Have \in SUBSET Jobs
      BY DEF Have
    <2>2. Status = "running" /\ parent = FALSE
      BY DEF Init, InitRun, Status, Active
    <2> QED
      BY <2>1, <2>2, Mapping
  <1> QED
    BY <1>1, NextImplements, InductiveInvariant, PTL
    DEF Spec, KeepsPromise, Promise!Spec
=============================================================================
