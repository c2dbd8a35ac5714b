------------------------ MODULE ComputeLedgerProofs -------------------------
(***************************************************************************)
(* More proofs about ComputeRuntime, on top of those of                    *)
(* ComputeRuntimeProofs: that the budget snapshot adds up (CountInv); that *)
(* the state file is current when every write succeeds (FileInv); and,     *)
(* with the local backend alone, that a job is reported ended only when it *)
(* has, and that its slot is freed (LocalInv).                             *)
(*                                                                         *)
(* A result may be on its way to a record from a tracker and from several  *)
(* requests at once.  That it is counted once, and under one outcome, is   *)
(* ResultInv: while one is on its way it is the one the job has, and the   *)
(* one the record has if it has any.  For that a local job keeps its       *)
(* status once it has ended, and one of Kaggle while any request runs,     *)
(* since its push loop ends in a macrotask (JobKeeps).                     *)
(***************************************************************************)
EXTENDS ComputeRuntimeProofs

InJobs(i) == i \in ToSet(jobs)
Given(i)  == job[i].status # "unknown"

\* A request works on a job the backend has and, once it is recorded, the runtime.
CallerInv(c) ==
    LET r == caller[c] IN
    /\ r.step \in {"submitted", "waiting", "snapshot", "applying", "cancelling"} => Given(r.id)
    /\ r.step \in {"waiting", "snapshot", "applying", "cancelling"} => InJobs(r.id)
    /\ (r.step = "submitted") => ~InJobs(r.id)
    /\ (r.step = "submitted" /\ r.value \in Terminal) => (job[r.id].status \in Terminal)
    /\ (r.step = "applying") => (r.value = job[r.id].status)
    /\ (r.step = "waiting") => (job[r.id].backend = "local")
CallersInv ==
    /\ \A c \in Callers : CallerInv(c)
    /\ \A c, d \in Callers :
          (c # d /\ caller[c].step = "submitted" /\ caller[d].step = "submitted") => (caller[c].id # caller[d].id)

TrackerInv(i) ==
    (tracker[i] # "none") =>
        /\ InJobs(i) /\ Given(i)
        /\ (tracker[i] = "waiting") => (job[i].backend = "local")
        /\ (tracker[i] = "rejected") => (job[i].backend # "local")
        /\ tracker[i] \in Terminal => (tracker[i] = job[i].status)
TrackersInv == \A i \in Ids : TrackerInv(i)

\* A killed local job is cancelled, and one that is not known has no process.
JobsInv ==
    \A i \in Ids : /\ (job[i].backend = "local" /\ job[i].killed) => (job[i].status = "cancelled")
                   /\ (job[i].status = "unknown") => ~job[i].live

\* A result of the job may be on its way to its record.
Carries(c, i) ==
    /\ caller[c].id = i /\ caller[c].step \in {"snapshot", "applying"}
    /\ caller[c].value \in Terminal
Due(i) ==
    \/ job[i].backend = "local" \/ tracker[i] \in Terminal
    \/ \E c \in Callers : Carries(c, i)

ResultInv ==
    \A i \in Ids : (InJobs(i) /\ Given(i) /\ record[i].result # "none" /\ Due(i))
                      => (record[i].result = job[i].status)

\* A job of this process is accounted with its result, one of an earlier process was
\* when it was restored.
EntryInv(i) ==
    /\ record[i].accounted <=> (record[i].result # "none" \/ ~Given(i))
    /\ ~Given(i) => (record[i].status # "running")
LedgerInv == \A i \in Ids : InJobs(i) => EntryInv(i)

DistinctInv ==
    /\ IsInjective(jobs)
    /\ \A k, n \in DOMAIN disk : (disk[k].id = disk[n].id) => (k = n)

LInv == CallersInv /\ TrackersInv /\ JobsInv /\ ResultInv /\ LedgerInv /\ DistinctInv

-----------------------------------------------------------------------------
(* Jobs and their ids. *)

\* The jobs the runtime knows were given out.
LEMMA KnownJobs ==
    ASSUME IInv
    PROVE  /\ issued \in Nat /\ issued <= MaxIds /\ \A i \in 1..issued : i \in Ids
           /\ \A i : InJobs(i) => i \in 1..issued
           /\ \A k \in DOMAIN jobs : InJobs(jobs[k])
           /\ jobs \in Seq(Ids)
<1>1. issued \in Nat /\ issued <= MaxIds
      BY LimitsAssumption DEF IInv, TypeOK, BackendOK
<1>2. \A i \in 1..issued : i \in Ids
      BY <1>1, LimitsAssumption DEF Ids
<1>3. \A i : InJobs(i) => i \in 1..issued
      BY DEF IInv, JobsShape, InJobs, ToSet
<1>4. \A k \in DOMAIN jobs : InJobs(jobs[k])
      BY DEF InJobs, ToSet
<1>5. QED
      BY <1>1, <1>2, <1>3, <1>4 DEF IInv, TypeOK, RecordsOK

\* What IInv says of the request of one caller.
LEMMA CallerTypes ==
    ASSUME IInv, NEW c \in Callers
    PROVE  /\ caller[c] \in Requests /\ caller \in [Callers -> Requests]
           /\ caller[c].step \in {"submitted", "waiting", "snapshot", "applying", "cancelling"} =>
                 caller[c].id \in 1..issued /\ caller[c].id \in Ids
           /\ caller[c].step \in {"submitted", "snapshot"} => caller[c].value \in Statuses
           /\ (caller[c].step = "applying") => caller[c].value \in Terminal
           /\ (caller[c].step = "snapshot" /\ caller[c].value \in Terminal) =>
                 (job[caller[c].id].status \in Terminal)
<1>1. caller \in [Callers -> Requests]
      BY DEF IInv, TypeOK, CallersOK
<1>2. QED
      BY <1>1, KnownJobs DEF IInv, CallerShape

\* Jobs and records have their types.
LEMMA JobTypes == ASSUME IInv PROVE job \in [Ids -> BackendJobs] /\ record \in [Ids -> Records]
    BY DEF IInv, TypeOK, BackendOK, RecordsOK

\* What a step that is no restart leaves true of a job that was given out.
JobKeeps(i) ==
    /\ job'[i].backend = job[i].backend
    /\ (job[i].status = "unknown") <=> (job'[i].status = "unknown")
    /\ job[i].status \in Terminal => job'[i].status \in Terminal
    /\ (job[i].status \in Terminal /\ (job[i].backend = "local" \/ ~Quiet)) => (job'[i].status = job[i].status)

\* What the steps do to a job.
Ends(j, k) ==
    /\ k \in BackendJobs /\ j.status # "unknown" /\ k.backend = j.backend
    /\ \/ /\ j.status = "running" /\ k.status \in Terminal
          /\ j.backend = "local" => (k.killed => k.status = "cancelled")
       \/ /\ j.status \in Terminal /\ k.status = j.status /\ k.killed = j.killed
       \/ /\ j.status \in Terminal /\ k.status \in Terminal /\ j.backend # "local" /\ Quiet

\* A step leaves a job alone, ends it, or starts a new one.
LEMMA JobSteps ==
    ASSUME IInv, JobsInv, Next, ~Restart, NEW i \in Ids
    PROVE  \/ job'[i] = job[i] \/ Ends(job[i], job'[i])
           \/ \E c \in Callers : /\ BackendSubmit(c) /\ i = issued + 1
                                 /\ job'[i].status \in Statuses /\ ~job'[i].killed
                                 /\ caller'[c].value = job'[i].status /\ caller'[c].id = i
                                 /\ caller'[c].step = "submitted"
<1>1. job \in [Ids -> BackendJobs] /\ job[i] \in BackendJobs
      BY JobTypes
<1>2. /\ job[i].status \in Statuses \cup {"unknown"} /\ job[i].backend \in Backends
      /\ job[i].live \in BOOLEAN /\ job[i].killed \in BOOLEAN
      BY <1>1 DEF BackendJobs
<1>3. ASSUME NEW s \in Terminal, NEW l \in BOOLEAN, NEW k \in BOOLEAN
      PROVE  [job[i] EXCEPT !.status = s, !.live = l, !.killed = k] \in BackendJobs
      BY <1>1 DEF BackendJobs, Statuses
<1>4. ASSUME NEW c \in Callers, NEW d \in Ids, Cancel(c, d) PROVE job'[i] = job[i] \/ Ends(job[i], job'[i])
  <2>1. CASE job[d].status # "running" \/ d # i
        BY <1>1, <1>4, <2>1 DEF Cancel
  <2>2. CASE job[i].status = "running" /\ d = i /\ job[i].backend = "local"
    <3>1. job'[i] = Kill(job[i])
          BY <1>1, <1>4, <2>2 DEF Cancel
    <3>2. Kill(job[i]) = [job[i] EXCEPT !.status = "cancelled", !.live = job[i].live, !.killed = TRUE]
          BY <1>1 DEF Kill, BackendJobs
    <3>3. Kill(job[i]) \in BackendJobs
          BY <1>2, <1>3, <3>2 DEF Terminal
    <3>4. Kill(job[i]).status = "cancelled" /\ Kill(job[i]).backend = job[i].backend
          BY <1>1 DEF Kill, BackendJobs
    <3>5. QED
          BY <2>2, <3>1, <3>3, <3>4 DEF Ends, Terminal
  <2>3. CASE job[i].status = "running" /\ d = i /\ job[i].backend # "local"
    <3>1. job'[i] = [job[i] EXCEPT !.status = "failed"]
          BY <1>1, <1>4, <2>3 DEF Cancel
    <3>2. job'[i] \in BackendJobs /\ job'[i].status = "failed" /\ job'[i].backend = job[i].backend
          BY <1>1, <3>1 DEF BackendJobs, Statuses, Terminal
    <3>3. QED
          BY <2>3, <3>2 DEF Ends, Terminal
  <2>4. QED
        BY <2>1, <2>2, <2>3
<1>5. CASE Dispose
  <2>1. CASE ~(job[i].status = "running" /\ job[i].backend = "local")
        BY <1>1, <1>5, <2>1 DEF Dispose
  <2>2. CASE job[i].status = "running" /\ job[i].backend = "local"
    <3>1. job'[i] = Kill(job[i])
          BY <1>1, <1>5, <2>2 DEF Dispose
    <3>2. Kill(job[i]) = [job[i] EXCEPT !.status = "cancelled", !.live = job[i].live, !.killed = TRUE]
          BY <1>1 DEF Kill, BackendJobs
    <3>3. Kill(job[i]) \in BackendJobs
          BY <1>2, <1>3, <3>2 DEF Terminal
    <3>4. Kill(job[i]).status = "cancelled" /\ Kill(job[i]).backend = job[i].backend
          BY <1>1 DEF Kill, BackendJobs
    <3>5. QED
          BY <2>2, <3>1, <3>3, <3>4 DEF Ends, Terminal
  <2>3. QED
        BY <2>1, <2>2
<1>6. ASSUME NEW d \in Ids, JobEnds(d) PROVE job'[i] = job[i] \/ Ends(job[i], job'[i])
  <2>1. CASE d # i
        BY <1>1, <1>6, <2>1 DEF JobEnds
  <2>2. CASE d = i
    <3>1. PICK status \in {"completed", "failed"} :
              job' = [job EXCEPT ![d].live = FALSE,
                                 ![d].status = IF @ = "cancelled" THEN @ ELSE status]
          BY <1>6 DEF JobEnds
    <3>2. PICK s : s = IF job[i].status = "cancelled" THEN job[i].status ELSE status
          OBVIOUS
    <3>3. s \in Terminal
          BY <3>2 DEF Terminal
    <3>4. job'[i] = [job[i] EXCEPT !.live = FALSE, !.status = s]
          BY <1>1, <2>2, <3>1, <3>2
    <3>5. /\ job'[i] \in BackendJobs /\ job'[i].status = s /\ job'[i].backend = job[i].backend
          /\ job'[i].killed = job[i].killed
          BY <1>1, <3>3, <3>4 DEF BackendJobs, Statuses
    <3>6. job[i].live /\ Quiet
          BY <1>6, <2>2 DEF JobEnds
    <3>7. (job[i].backend = "local") => (job[i].status = "running" \/ job[i].killed)
          BY <3>6 DEF IInv, ProcessShape
    <3>8. /\ (job[i].backend = "local" /\ job[i].killed) => (job[i].status = "cancelled")
          /\ job[i].status # "unknown"
          BY <3>6 DEF JobsInv
    <3>9. QED
          BY <1>2, <3>2, <3>3, <3>5, <3>6, <3>7, <3>8 DEF Ends, Statuses, Terminal
  <2>3. QED
        BY <2>1, <2>2
<1>7. ASSUME NEW c \in Callers, BackendSubmit(c)
      PROVE  \/ job'[i] = job[i]
             \/ /\ i = issued + 1 /\ job'[i].status \in Statuses /\ ~job'[i].killed
                /\ caller'[c].value = job'[i].status /\ caller'[c].id = i
                /\ caller'[c].step = "submitted"
  <2>1. CASE job' = job
        BY <2>1
  <2>2. ASSUME NEW status \in {"running", "failed"},
               issued < MaxIds,
               job' = [job EXCEPT ![issued + 1] =
                          [backend |-> caller[c].backend, status |-> status,
                           live |-> status = "running", killed |-> FALSE]],
               Become(c, [caller[c] EXCEPT !.step = "submitted", !.id = issued + 1, !.value = status])
        PROVE  \/ job'[i] = job[i]
               \/ /\ i = issued + 1 /\ job'[i].status \in Statuses /\ ~job'[i].killed
                  /\ caller'[c].value = job'[i].status /\ caller'[c].id = i
                  /\ caller'[c].step = "submitted"
    <3>1. CASE i # issued + 1
          BY <1>1, <2>2, <3>1
    <3>2. CASE i = issued + 1
      <4>1. job'[i] = [backend |-> caller[c].backend, status |-> status,
                       live |-> status = "running", killed |-> FALSE]
            BY <1>1, <2>2, <3>2
      <4>2. caller'[c] = [caller[c] EXCEPT !.step = "submitted", !.id = issued + 1, !.value = status]
            BY <2>2, CallerTypes DEF Become
      <4>3. /\ caller'[c].value = status /\ caller'[c].id = issued + 1 /\ caller'[c].step = "submitted"
            BY <4>2, CallerTypes DEF Requests
      <4>4. QED
            BY <3>2, <4>1, <4>3 DEF Statuses, Terminal
    <3>3. QED
          BY <3>1, <3>2
  <2>3. QED
        BY <1>7, <2>1, <2>2 DEF BackendSubmit
<1>8. QED
      BY <1>4, <1>5, <1>6, <1>7
      DEF Next, Request, Segment, Tracking, Submit, Result, Poll, RecordJob, PollSnapshot, Apply, CancelRecord,
          ResultWakes, TrackerWakes, TrackerSettles, Crash

\* So a job that was given out goes one way only.
LEMMA JobsKeep ==
    ASSUME IInv, JobsInv, Next, ~Restart, NEW i \in 1..issued PROVE JobKeeps(i)
<1>1. i \in Ids /\ i # issued + 1
      BY KnownJobs
<1>2. job'[i] = job[i] \/ Ends(job[i], job'[i])
      BY <1>1, JobSteps
<1>3. QED
      BY <1>2 DEF JobKeeps, Ends, Terminal

\* JobsInv is inductive.
LEMMA JobsPreserved == ASSUME IInv, JobsInv, Next PROVE JobsInv'
<1>1. CASE Restart
      BY <1>1 DEF Restart, JobsInv, Unknown
<1>2. CASE ~Restart
  <2>1. ASSUME NEW i \in Ids
        PROVE  /\ (job'[i].backend = "local" /\ job'[i].killed) => (job'[i].status = "cancelled")
               /\ (job'[i].status = "unknown") => ~job'[i].live
        BY <1>2, JobSteps DEF JobsInv, Ends, Terminal, Statuses
  <2>2. QED
        BY <2>1 DEF JobsInv
<1>3. QED
      BY <1>1, <1>2

-----------------------------------------------------------------------------
(* What a step does to the records, the trackers and the requests. *)

\* The result of a job is applied: the one it has, and the one its record has if any.
Applied(i, s) ==
    /\ i \in Ids /\ s \in Terminal /\ InJobs(i) /\ Given(i) /\ s = job[i].status
    /\ (record[i].result # "none") => (record[i].result = s)
    /\ UNCHANGED <<jobs, job>> /\ ApplyResult(i, s)

\* Only the status of a record of this process changes.
Marked(i, s) ==
    /\ i \in Ids /\ s \in Statuses /\ InJobs(i) /\ Given(i)
    /\ record' = [record EXCEPT ![i].status = s]
    /\ UNCHANGED <<jobs, job, accounting>>

\* A request that applies a result applies the one the job has.
LEMMA RequestApplies ==
    ASSUME IInv, LInv, NEW c \in Callers, ResultWakes(c) \/ Apply(c)
    PROVE  \E i \in Ids, s \in Terminal : Applied(i, s)
<1>1. PICK i \in Ids : i = caller[c].id /\ InJobs(i) /\ Given(i)
      BY CallerTypes DEF ResultWakes, Apply, LInv, CallersInv, CallerInv
<1>2. CASE ResultWakes(c)
  <2>1. PICK s \in Terminal : s = job[i].status
        BY <1>1, <1>2 DEF ResultWakes
  <2>2. job[i].backend = "local"
        BY <1>1, <1>2 DEF ResultWakes, LInv, CallersInv, CallerInv
  <2>3. (record[i].result # "none") => (record[i].result = s)
        BY <1>1, <2>1, <2>2 DEF LInv, ResultInv, Due
  <2>4. ApplyResult(i, s) /\ UNCHANGED job
        BY <1>1, <1>2, <2>1 DEF ResultWakes
  <2>5. QED
        BY <1>1, <2>1, <2>3, <2>4 DEF Applied, ApplyResult
<1>3. CASE Apply(c)
  <2>1. caller[c].step = "applying" /\ caller[c].value \in Terminal /\ caller[c].value = job[i].status
        BY <1>1, <1>3, CallerTypes DEF Apply, LInv, CallersInv, CallerInv
  <2>2. PICK s \in Terminal : s = caller[c].value
        BY <2>1
  <2>3. Due(i)
        BY <1>1, <2>1 DEF Due, Carries
  <2>4. (record[i].result # "none") => (record[i].result = s)
        BY <1>1, <2>1, <2>2, <2>3 DEF LInv, ResultInv
  <2>5. ApplyResult(i, s) /\ UNCHANGED job
        BY <1>1, <1>3, <2>2 DEF Apply
  <2>6. QED
        BY <1>1, <2>1, <2>2, <2>4, <2>5 DEF Applied, ApplyResult
<1>4. QED
      BY <1>2, <1>3

\* So does a tracker, unless backend.result rejected.
LEMMA TrackerApplies ==
    ASSUME IInv, LInv, NEW i \in Ids, Tracking(i)
    PROVE  \/ \E s \in Terminal : Applied(i, s)
           \/ Marked(i, "failed") /\ Persist /\ tracker[i] = "rejected"
<1>1. tracker[i] # "none" /\ InJobs(i) /\ Given(i) /\ UNCHANGED job
      BY DEF Tracking, TrackerWakes, TrackerSettles, LInv, TrackersInv, TrackerInv, Terminal
<1>2. CASE TrackerWakes(i)
  <2>1. PICK s \in Terminal : s = job[i].status
        BY <1>2 DEF TrackerWakes
  <2>2. job[i].backend = "local"
        BY <1>2 DEF TrackerWakes, LInv, TrackersInv, TrackerInv
  <2>3. (record[i].result # "none") => (record[i].result = s)
        BY <1>1, <2>1, <2>2 DEF LInv, ResultInv, Due
  <2>4. ApplyResult(i, s)
        BY <1>2, <2>1 DEF TrackerWakes
  <2>5. QED
        BY <1>1, <2>1, <2>3, <2>4 DEF Applied, ApplyResult
<1>3. CASE tracker[i] \in Terminal /\ ApplyResult(i, tracker[i])
  <2>1. PICK s \in Terminal : s = tracker[i] /\ s = job[i].status
        BY <1>1, <1>3 DEF LInv, TrackersInv, TrackerInv
  <2>2. (record[i].result # "none") => (record[i].result = s)
        BY <1>1, <1>3, <2>1 DEF LInv, ResultInv, Due
  <2>3. QED
        BY <1>1, <1>3, <2>1, <2>2 DEF Applied, ApplyResult
<1>4. CASE /\ tracker[i] = "rejected" /\ record' = [record EXCEPT ![i].status = "failed"]
           /\ UNCHANGED <<jobs, accounting>> /\ Persist
      BY <1>1, <1>4 DEF Marked, Statuses, Terminal
<1>5. QED
      BY <1>2, <1>3, <1>4 DEF Tracking, TrackerSettles

\* poll() and cancel() write a status only.
LEMMA RequestMarks ==
    ASSUME IInv, LInv, NEW c \in Callers, PollSnapshot(c) \/ CancelRecord(c)
    PROVE  \E i \in Ids, s \in Statuses : i = caller[c].id /\ Marked(i, s)
<1>1. PICK i \in Ids : i = caller[c].id /\ InJobs(i) /\ Given(i)
      BY CallerTypes DEF PollSnapshot, CancelRecord, LInv, CallersInv, CallerInv
<1>2. CASE PollSnapshot(c)
  <2>1. caller[c].value \in Statuses
        BY <1>2, CallerTypes DEF PollSnapshot
  <2>2. Marked(i, caller[c].value)
        BY <1>1, <1>2, <2>1 DEF PollSnapshot, Marked
  <2>3. QED
        BY <1>1, <2>1, <2>2
<1>3. CASE CancelRecord(c)
  <2>1. Marked(i, "cancelled") /\ "cancelled" \in Statuses
        BY <1>1, <1>3 DEF CancelRecord, Marked, Statuses, Terminal
  <2>2. QED
        BY <1>1, <2>1
<1>4. QED
      BY <1>2, <1>3

\* The records after a step.
LEMMA RecordSteps ==
    ASSUME IInv, LInv, Next, ~Restart
    PROVE  \/ UNCHANGED <<jobs, record, accounting>>
           \/ \E i \in Ids, s \in Terminal : Applied(i, s)
           \/ \E i \in Ids, s \in Statuses : Marked(i, s)
           \/ Dispose
           \/ \E c \in Callers : RecordJob(c)
<1>1. "failed" \in Statuses
      BY DEF Statuses, Terminal
<1>2. ASSUME NEW c \in Callers, Request(c) \/ BackendSubmit(c) PROVE UNCHANGED <<jobs, record, accounting>>
      BY <1>2 DEF Request, Submit, Result, Poll, Cancel, BackendSubmit
<1>3. ASSUME NEW i \in Ids, JobEnds(i) PROVE UNCHANGED <<jobs, record, accounting>>
      BY <1>3 DEF JobEnds
<1>4. CASE Crash
      BY <1>4 DEF Crash
<1>5. QED
      BY <1>1, <1>2, <1>3, <1>4, RequestApplies, TrackerApplies, RequestMarks DEF Next, Segment

\* A record that is applied, and one that is marked.
LEMMA AppliedRecord ==
    ASSUME IInv, NEW i \in Ids, NEW s \in Terminal, Applied(i, s)
    PROVE  /\ \A j \in Ids \ {i} : record'[j] = record[j]
           /\ record'[i].result = s /\ record'[i].accounted /\ record'[i].status = s
           /\ record'[i].backend = record[i].backend
<1>1. record[i] \in Records /\ record \in [Ids -> Records]
      BY JobTypes
<1>2. record' = [record EXCEPT ![i] = [record[i] EXCEPT !.result = s, !.status = s, !.accounted = TRUE]]
      BY DEF Applied, ApplyResult
<1>3. PICK r : r = [record[i] EXCEPT !.result = s, !.status = s, !.accounted = TRUE]
      OBVIOUS
<1>4. r.result = s /\ r.accounted /\ r.status = s /\ r.backend = record[i].backend
      BY <1>1, <1>3 DEF Records
<1>5. QED
      BY <1>1, <1>2, <1>3, <1>4

LEMMA MarkedRecord ==
    ASSUME IInv, NEW i \in Ids, NEW s \in Statuses, Marked(i, s)
    PROVE  /\ \A j \in Ids \ {i} : record'[j] = record[j]
           /\ record'[i].result = record[i].result /\ record'[i].accounted = record[i].accounted
           /\ record'[i].backend = record[i].backend /\ record'[i].status = s
<1>1. record[i] \in Records /\ record \in [Ids -> Records]
      BY JobTypes
<1>2. record' = [record EXCEPT ![i] = [record[i] EXCEPT !.status = s]]
      BY DEF Marked
<1>3. QED
      BY <1>1, <1>2 DEF Records

\* dispose() cancels the records that run.
LEMMA DisposedRecord ==
    ASSUME IInv, Dispose, NEW i \in Ids
    PROVE  /\ record'[i].result = record[i].result /\ record'[i].accounted = record[i].accounted
           /\ record'[i].backend = record[i].backend
           /\ record'[i].status = IF i \in Running THEN "cancelled" ELSE record[i].status
<1>1. record[i] \in Records
      BY JobTypes
<1>2. record'[i] = IF i \in Running THEN [record[i] EXCEPT !.status = "cancelled"] ELSE record[i]
      BY DEF Dispose
<1>3. QED
      BY <1>1, <1>2 DEF Records

\* What is recorded is a job the backend has and the runtime had not.
LEMMA NewRecord ==
    ASSUME IInv, LInv, NEW c \in Callers, RecordJob(c)
    PROVE  /\ caller[c].id \in 1..issued /\ caller[c].id \in Ids /\ Given(caller[c].id)
           /\ ~InJobs(caller[c].id) /\ caller[c].value \in Statuses /\ UNCHANGED job
           /\ jobs' = Append(jobs, caller[c].id)
           /\ \A i : InJobs(i)' <=> (InJobs(i) \/ i = caller[c].id)
           /\ \A j \in Ids \ {caller[c].id} : record'[j] = record[j] /\ tracker'[j] = tracker[j]
           /\ record'[caller[c].id] = [NoRecord EXCEPT !.backend = caller[c].backend,
                                                       !.status = caller[c].value]
           /\ tracker'[caller[c].id] = ResultNow(caller[c].id)
<1>1. caller[c].step = "submitted"
      BY DEF RecordJob
<1>2. /\ caller[c].id \in 1..issued /\ caller[c].id \in Ids /\ Given(caller[c].id)
      /\ ~InJobs(caller[c].id) /\ caller[c].value \in Statuses
      BY <1>1, CallerTypes DEF LInv, CallersInv, CallerInv
<1>3. jobs' = Append(jobs, caller[c].id) /\ jobs \in Seq(Ids)
      BY KnownJobs DEF RecordJob
<1>4. \A i : InJobs(i)' <=> (InJobs(i) \/ i = caller[c].id)
  <2>1. /\ Len(jobs) \in Nat /\ DOMAIN jobs = 1..Len(jobs) /\ DOMAIN jobs' = 1..Len(jobs) + 1
        /\ \A k \in 1..Len(jobs) : jobs'[k] = jobs[k]
        /\ jobs'[Len(jobs) + 1] = caller[c].id
        BY <1>2, <1>3
  <2>2. 1..Len(jobs) + 1 = (1..Len(jobs)) \cup {Len(jobs) + 1}
        BY <2>1
  <2>3. QED
        BY <2>1, <2>2 DEF InJobs, ToSet
<1>5. record \in [Ids -> Records] /\ tracker \in [Ids -> Terminal \cup {"none", "waiting", "rejected"}]
      BY DEF IInv, TypeOK, RecordsOK
<1>6. QED
      BY <1>2, <1>3, <1>4, <1>5 DEF RecordJob

\* Jobs are added by submit() alone, and stay until a restart.
LEMMA JobsGrow ==
    ASSUME IInv, LInv, Next, ~Restart
    PROVE  /\ \A i : InJobs(i) => InJobs(i)'
           /\ \A i : (InJobs(i)' /\ ~InJobs(i)) => \E c \in Callers : RecordJob(c) /\ i = caller[c].id
<1>1. CASE UNCHANGED jobs
      BY <1>1 DEF InJobs
<1>2. QED
      BY <1>1, RecordSteps, NewRecord DEF Applied, Marked, Dispose

\* A step is that of one request, or leaves all of them.
LEMMA OneCaller ==
    ASSUME IInv, Next, ~Restart, NEW c \in Callers
    PROVE  \/ caller'[c] = caller[c]
           \/ /\ Request(c) \/ Segment(c)
              /\ \A d \in Callers \ {c} : caller'[d] = caller[d]
<1>1. caller \in [Callers -> Requests]
      BY DEF IInv, TypeOK, CallersOK
<1>2. ASSUME NEW e \in Callers, Request(e) \/ Segment(e)
      PROVE  \A d \in Callers \ {e} : caller'[d] = caller[d]
      BY <1>1, <1>2
      DEF Request, Segment, Submit, BackendSubmit, RecordJob, Result, ResultWakes, Poll, PollSnapshot, Apply,
          Cancel, CancelRecord, Become
<1>3. ASSUME NEW i \in Ids, Tracking(i) \/ JobEnds(i) PROVE caller' = caller
      BY <1>3 DEF Tracking, TrackerWakes, TrackerSettles, JobEnds
<1>4. CASE Dispose \/ Crash
      BY <1>4 DEF Dispose, Crash
<1>5. QED
      BY <1>2, <1>3, <1>4 DEF Next

-----------------------------------------------------------------------------
(* CallersInv *)

\* What a request has in hand stays true while it waits for its turn.
LEMMA CallerStays ==
    ASSUME IInv, LInv, Next, ~Restart, NEW c \in Callers, caller'[c] = caller[c]
    PROVE  CallerInv(c)'
<1> DEFINE i == caller[c].id
<1>1. CASE caller[c].step \notin {"submitted", "waiting", "snapshot", "applying", "cancelling"}
      BY <1>1 DEF CallerInv
<1>2. CASE caller[c].step \in {"submitted", "waiting", "snapshot", "applying", "cancelling"}
  <2>1. PICK k \in 1..issued : k = i
        BY <1>2, CallerTypes
  <2>2. JobKeeps(k) /\ Given(k) /\ CallerInv(c)
        BY <1>2, <2>1, JobsKeep DEF LInv, CallersInv, CallerInv
  <2>3. Given(k)'
        BY <2>2 DEF JobKeeps, Given
  <2>4. caller[c].step # "submitted" => InJobs(k) /\ InJobs(k)'
        BY <1>2, <2>1, <2>2, JobsGrow DEF CallerInv
  <2>5. ASSUME caller[c].step = "submitted" PROVE ~InJobs(k)'
    <3>1. ~InJobs(k)
          BY <2>1, <2>2, <2>5 DEF CallerInv
    <3>2. ASSUME NEW d \in Callers, RecordJob(d) PROVE caller[d].id # k
      <4>1. d # c
        <5>1. caller'[d] = Idle
              BY <3>2, CallerTypes DEF RecordJob, Become
        <5>2. QED
              BY <2>5, <5>1 DEF Idle
      <4>2. caller[d].step = "submitted"
            BY <3>2 DEF RecordJob
      <4>3. QED
            BY <2>1, <2>5, <4>1, <4>2 DEF LInv, CallersInv
    <3>3. QED
          BY <3>1, <3>2, JobsGrow
  <2>6. (caller[c].step = "submitted" /\ caller[c].value \in Terminal) => (job'[k].status \in Terminal)
        BY <2>1, <2>2 DEF CallerInv, JobKeeps
  <2>7. (caller[c].step = "applying") => (caller[c].value = job'[k].status)
    <3>1. (caller[c].step = "applying") => ~Quiet
          BY DEF Quiet, Micro
    <3>2. QED
          BY <2>1, <2>2, <3>1, CallerTypes DEF CallerInv, JobKeeps
  <2>8. (caller[c].step = "waiting") => (job'[k].backend = "local")
        BY <2>1, <2>2 DEF CallerInv, JobKeeps
  <2>9. QED
        BY <1>2, <2>1, <2>3, <2>4, <2>5, <2>6, <2>7, <2>8 DEF CallerInv
<1>3. QED
      BY <1>1, <1>2

\* What it goes on with is true.
LEMMA CallerMoves ==
    ASSUME IInv, LInv, Next, ~Restart, NEW c \in Callers, Request(c) \/ Segment(c)
    PROVE  /\ CallerInv(c)'
           /\ (caller'[c].step = "submitted") => (caller'[c].id = issued + 1)
<1>1. ASSUME NEW b \in Backends, Submit(c, b) PROVE caller'[c].step = "available"
      BY <1>1, CallerTypes DEF Submit, Become, Idle
<1>2. ASSUME NEW i \in Ids, Result(c, i)
      PROVE  CallerInv(c)' /\ caller'[c].step # "submitted"
  <2>1. PICK v : v = ResultNow(i)
        OBVIOUS
  <2>2. PICK s : s = IF v = "waiting" THEN "waiting" ELSE "applying"
        OBVIOUS
  <2>3. caller'[c] = [Idle EXCEPT !.step = s, !.id = i, !.value = v]
        BY <1>2, <2>1, <2>2, CallerTypes DEF Result, Become
  <2>4. caller'[c].step = s /\ caller'[c].id = i /\ caller'[c].value = v
        BY <2>3 DEF Idle
  <2>5. InJobs(i) /\ Given(i) /\ UNCHANGED <<jobs, job>> /\ v # "rejected"
        BY <1>2, <2>1 DEF Result, Known, InJobs, Given
  <2>6. /\ (s = "waiting") => (job[i].backend = "local")
        /\ (s = "applying") => (v = job[i].status)
        BY <2>1, <2>2, <2>5 DEF ResultNow, Terminal
  <2>7. QED
        BY <2>2, <2>4, <2>5, <2>6 DEF CallerInv, InJobs, Given
<1>3. ASSUME NEW i \in Ids, Poll(c, i)
      PROVE  CallerInv(c)' /\ caller'[c].step # "submitted"
  <2>1. caller'[c] = [Idle EXCEPT !.step = "snapshot", !.id = i, !.value = job[i].status]
        BY <1>3, CallerTypes DEF Poll, Become
  <2>2. caller'[c].step = "snapshot" /\ caller'[c].id = i
        BY <2>1 DEF Idle
  <2>3. InJobs(i) /\ Given(i) /\ UNCHANGED <<jobs, job>>
        BY <1>3 DEF Poll, Known, InJobs, Given
  <2>4. QED
        BY <2>2, <2>3 DEF CallerInv, InJobs, Given
<1>4. ASSUME NEW i \in Ids, Cancel(c, i)
      PROVE  CallerInv(c)' /\ caller'[c].step # "submitted"
  <2>1. caller'[c] = [Idle EXCEPT !.step = "cancelling", !.id = i]
        BY <1>4, CallerTypes DEF Cancel, Become
  <2>2. caller'[c].step = "cancelling" /\ caller'[c].id = i
        BY <2>1 DEF Idle
  <2>3. InJobs(i) /\ Given(i) /\ UNCHANGED jobs
        BY <1>4 DEF Cancel, InJobs, LInv, LedgerInv, EntryInv
  <2>4. i \in 1..issued
        BY <2>3, KnownJobs
  <2>5. JobKeeps(i)
        BY <2>4, JobsKeep DEF LInv
  <2>6. Given(i)'
        BY <2>3, <2>5 DEF JobKeeps, Given
  <2>7. QED
        BY <2>2, <2>3, <2>6 DEF CallerInv, InJobs
<1>5. CASE BackendSubmit(c)
  <2>1. CASE Become(c, Idle)
    <3>1. caller'[c].step = "idle"
          BY <2>1, CallerTypes DEF Become, Idle
    <3>2. QED
          BY <3>1 DEF CallerInv
  <2>2. ASSUME NEW status \in {"running", "failed"},
               issued < MaxIds,
               job' = [job EXCEPT ![issued + 1] =
                          [backend |-> caller[c].backend, status |-> status,
                           live |-> status = "running", killed |-> FALSE]],
               Become(c, [caller[c] EXCEPT !.step = "submitted", !.id = issued + 1, !.value = status])
        PROVE  CallerInv(c)' /\ caller'[c].id = issued + 1
    <3>1. PICK i : i = issued + 1
          OBVIOUS
    <3>2. i \in Ids /\ ~InJobs(i)
      <4>1. issued \in Nat /\ issued < MaxIds /\ MaxIds \in Nat
            BY <2>2, KnownJobs, LimitsAssumption
      <4>2. i \in Ids
            BY <3>1, <4>1 DEF Ids
      <4>3. i \notin 1..issued
            BY <3>1, <4>1
      <4>4. QED
            BY <4>2, <4>3, KnownJobs
    <3>3. job'[i].status = status
          BY <2>2, <3>1, <3>2, JobTypes
    <3>4. caller'[c] = [caller[c] EXCEPT !.step = "submitted", !.id = i, !.value = status]
          BY <2>2, <3>1, CallerTypes DEF Become
    <3>5. caller'[c].step = "submitted" /\ caller'[c].id = i /\ caller'[c].value = status
          BY <3>4, CallerTypes DEF Requests
    <3>6. ~InJobs(i)'
          BY <1>5, <3>2 DEF BackendSubmit, InJobs
    <3>7. Given(i)'
          BY <2>2, <3>3 DEF Given
    <3>8. QED
          BY <3>1, <3>3, <3>5, <3>6, <3>7 DEF CallerInv
  <2>3. QED
        BY <1>5, <2>1, <2>2 DEF BackendSubmit, CallerInv
<1>6. CASE RecordJob(c) \/ Apply(c) \/ CancelRecord(c) \/ ResultWakes(c)
  <2>1. caller'[c] = Idle
        BY <1>6, CallerTypes DEF RecordJob, Apply, CancelRecord, ResultWakes, Become
  <2>2. caller'[c].step = "idle"
        BY <2>1 DEF Idle
  <2>3. QED
        BY <2>2 DEF CallerInv
<1>7. CASE PollSnapshot(c)
  <2>1. PICK i \in Ids : i = caller[c].id
        BY <1>7, CallerTypes DEF PollSnapshot
  <2>2. CASE caller[c].value \in Terminal
    <3>1. caller'[c] = [caller[c] EXCEPT !.step = "applying", !.value = job[i].status]
          BY <1>7, <2>1, <2>2, CallerTypes DEF PollSnapshot, Become
    <3>2. caller'[c].step = "applying" /\ caller'[c].value = job[i].status /\ caller'[c].id = i
          BY <2>1, <3>1, CallerTypes DEF Requests
    <3>3. InJobs(i) /\ Given(i) /\ UNCHANGED <<jobs, job>>
          BY <1>7, <2>1 DEF PollSnapshot, LInv, CallersInv, CallerInv
    <3>4. QED
          BY <3>2, <3>3 DEF CallerInv, InJobs, Given
  <2>3. CASE caller[c].value \notin Terminal
    <3>1. caller'[c] = Idle
          BY <1>7, <2>3, CallerTypes DEF PollSnapshot, Become
    <3>2. caller'[c].step = "idle"
          BY <3>1 DEF Idle
    <3>3. QED
          BY <3>2 DEF CallerInv
  <2>4. QED
        BY <2>2, <2>3
<1>8. ASSUME NEW b \in Backends, Submit(c, b) PROVE CallerInv(c)'
      BY <1>1, <1>8 DEF CallerInv
<1>9. QED
      BY <1>1, <1>2, <1>3, <1>4, <1>5, <1>6, <1>7, <1>8 DEF Request, Segment

\* CallersInv is inductive.
LEMMA CallersPreserved == ASSUME IInv, LInv, Next PROVE CallersInv'
<1>1. CASE Restart
  <2>1. \A c \in Callers : caller'[c].step = "idle"
        BY <1>1 DEF Restart, Idle
  <2>2. QED
        BY <2>1 DEF CallersInv, CallerInv
<1>2. CASE ~Restart
  <2>1. ASSUME NEW c \in Callers PROVE CallerInv(c)'
        BY <1>2, OneCaller, CallerStays, CallerMoves
  <2>2. ASSUME NEW c \in Callers, NEW d \in Callers, c # d,
               caller'[c].step = "submitted", caller'[d].step = "submitted"
        PROVE  caller'[c].id # caller'[d].id
    <3>1. issued \in Nat
          BY KnownJobs
    <3>2. ASSUME NEW e \in Callers, caller'[e] = caller[e], caller'[e].step = "submitted"
          PROVE  caller'[e].id \in 1..issued
          BY <3>2, CallerTypes
    <3>3. CASE caller'[c] = caller[c] /\ caller'[d] = caller[d]
          BY <2>2, <3>3 DEF LInv, CallersInv
    <3>4. CASE Request(c) \/ Segment(c)
      <4>1. caller'[c].id = issued + 1
            BY <1>2, <2>2, <3>4, CallerMoves
      <4>2. CASE caller'[d] = caller[d]
            BY <2>2, <3>1, <3>2, <4>1, <4>2
      <4>3. CASE caller'[c] = caller[c]
            BY <2>2, <3>1, <3>2, <3>4, <4>1, <4>3
      <4>4. QED
            BY <1>2, <2>2, <4>2, <4>3, OneCaller
    <3>5. CASE Request(d) \/ Segment(d)
      <4>1. caller'[d].id = issued + 1
            BY <1>2, <2>2, <3>5, CallerMoves
      <4>2. CASE caller'[c] = caller[c]
            BY <2>2, <3>1, <3>2, <4>1, <4>2
      <4>3. CASE caller'[d] = caller[d]
            BY <2>2, <3>1, <3>2, <4>1, <4>3
      <4>4. QED
            BY <1>2, <2>2, <4>2, <4>3, OneCaller
    <3>6. QED
          BY <1>2, <3>3, <3>4, <3>5, OneCaller
  <2>3. QED
        BY <2>1, <2>2 DEF CallersInv
<1>3. QED
      BY <1>1, <1>2

-----------------------------------------------------------------------------
(* TrackersInv and ResultInv *)

\* A tracker goes, or begins with the record of its job.
LEMMA TrackerSteps ==
    ASSUME IInv, LInv, Next, ~Restart, NEW i \in Ids
    PROVE  \/ tracker'[i] \in {tracker[i], "none"}
           \/ \E c \in Callers : RecordJob(c) /\ i = caller[c].id /\ tracker'[i] = ResultNow(i)
<1>1. tracker \in [Ids -> Terminal \cup {"none", "waiting", "rejected"}]
      BY DEF IInv, TypeOK, RecordsOK
<1>2. ASSUME NEW j \in Ids, Tracking(j) PROVE tracker'[i] \in {tracker[i], "none"}
      BY <1>1, <1>2 DEF Tracking, TrackerWakes, TrackerSettles
<1>3. ASSUME NEW c \in Callers, Request(c) \/ BackendSubmit(c) \/ PollSnapshot(c) \/ Apply(c)
                                \/ CancelRecord(c) \/ ResultWakes(c)
      PROVE  tracker' = tracker
      BY <1>3
      DEF Request, Submit, Result, Poll, Cancel, BackendSubmit, PollSnapshot, Apply, CancelRecord, ResultWakes
<1>4. ASSUME NEW j \in Ids, JobEnds(j) PROVE tracker' = tracker
      BY <1>4 DEF JobEnds
<1>5. CASE Dispose \/ Crash
      BY <1>5 DEF Dispose, Crash
<1>6. QED
      BY <1>2, <1>3, <1>4, <1>5, NewRecord DEF Next, Segment

\* TrackersInv is inductive.
LEMMA TrackersPreserved == ASSUME IInv, LInv, Next PROVE TrackersInv'
<1>1. CASE Restart
      BY <1>1 DEF Restart, TrackersInv, TrackerInv
<1>2. CASE ~Restart
  <2>1. SUFFICES ASSUME NEW i \in Ids, tracker'[i] # "none" PROVE TrackerInv(i)'
        BY DEF TrackersInv, TrackerInv
  <2>2. CASE tracker'[i] = tracker[i]
    <3>1. TrackerInv(i) /\ InJobs(i) /\ Given(i)
          BY <2>1, <2>2 DEF LInv, TrackersInv, TrackerInv
    <3>2. i \in 1..issued
          BY <3>1, KnownJobs
    <3>3. JobKeeps(i)
          BY <1>2, <3>2, JobsKeep DEF LInv
    <3>4. InJobs(i)' /\ Given(i)'
          BY <1>2, <3>1, <3>3, JobsGrow DEF JobKeeps, Given
    <3>5. tracker[i] \in Terminal => ~Quiet
          BY DEF Quiet, Terminal
    <3>6. QED
          BY <2>1, <2>2, <3>1, <3>3, <3>4, <3>5 DEF TrackerInv, JobKeeps
  <2>3. ASSUME NEW c \in Callers, RecordJob(c), i = caller[c].id, tracker'[i] = ResultNow(i)
        PROVE  TrackerInv(i)'
    <3>1. InJobs(i)' /\ Given(i) /\ UNCHANGED job
          BY <2>3, NewRecord
    <3>2. /\ (ResultNow(i) = "waiting") => (job[i].backend = "local")
          /\ (ResultNow(i) = "rejected") => (job[i].backend # "local")
          /\ ResultNow(i) \in Terminal => (ResultNow(i) = job[i].status)
          BY DEF ResultNow, Terminal
    <3>3. QED
          BY <2>3, <3>1, <3>2 DEF TrackerInv, Given
  <2>4. QED
        BY <1>2, <2>1, <2>2, <2>3, TrackerSteps
<1>3. QED
      BY <1>1, <1>2

\* While a result is on its way, a job of Kaggle does not change.
LEMMA DueIsMicro ==
    ASSUME NEW i \in Ids, Due(i), job[i].backend # "local" PROVE ~Quiet
    BY DEF Due, Quiet, Carries, Micro, Terminal

\* A result sets out for a record that has none.
LEMMA DueStep ==
    ASSUME IInv, LInv, Next, ~Restart, NEW i \in Ids, InJobs(i), Due(i)', record[i].result # "none"
    PROVE  Due(i)
<1>1. i \in 1..issued
      BY KnownJobs
<1>2. CASE job'[i].backend = "local"
      BY <1>1, <1>2, JobsKeep DEF LInv, JobKeeps, Due
<1>3. CASE tracker'[i] \in Terminal
  <2>1. tracker'[i] = tracker[i]
        BY <1>3, TrackerSteps, NewRecord DEF Terminal
  <2>2. QED
        BY <1>3, <2>1 DEF Due
<1>4. ASSUME NEW c \in Callers, Carries(c, i)' PROVE Due(i)
  <2>1. /\ caller'[c].id = i /\ caller'[c].step \in {"snapshot", "applying"}
        /\ caller'[c].value \in Terminal
        BY <1>4 DEF Carries
  <2>2. CASE caller'[c] = caller[c]
        BY <2>1, <2>2 DEF Carries, Due
  <2>3. ASSUME NEW j \in Ids, Result(c, j) \/ Poll(c, j) PROVE caller'[c].id = j /\ record[j].result = "none"
    <3>1. PICK s, v : caller'[c] = [Idle EXCEPT !.step = s, !.id = j, !.value = v]
          BY <2>3, CallerTypes DEF Result, Poll, Become
    <3>2. caller'[c].id = j
          BY <3>1 DEF Idle
    <3>3. QED
          BY <2>3, <3>2 DEF Result, Poll, Known
  <2>4. CASE PollSnapshot(c)
    <3>1. CASE caller[c].value \in Terminal
      <4>1. PICK v : caller'[c] = [caller[c] EXCEPT !.step = "applying", !.value = v]
            BY <2>4, <3>1, CallerTypes DEF PollSnapshot, Become
      <4>2. caller'[c].id = caller[c].id
            BY <4>1, CallerTypes DEF Requests
      <4>3. QED
            BY <2>1, <2>4, <3>1, <4>2 DEF Carries, Due, PollSnapshot
    <3>2. CASE caller[c].value \notin Terminal
      <4>1. caller'[c] = Idle
            BY <2>4, <3>2, CallerTypes DEF PollSnapshot, Become
      <4>2. QED
            BY <2>1, <4>1 DEF Idle
    <3>3. QED
          BY <3>1, <3>2
  <2>5. ASSUME NEW b \in Backends, Submit(c, b) PROVE FALSE
    <3>1. caller'[c] = [Idle EXCEPT !.step = "available", !.backend = b]
          BY <2>5, CallerTypes DEF Submit, Become
    <3>2. QED
          BY <2>1, <3>1 DEF Idle
  <2>6. ASSUME NEW j \in Ids, Cancel(c, j) PROVE FALSE
    <3>1. caller'[c] = [Idle EXCEPT !.step = "cancelling", !.id = j]
          BY <2>6, CallerTypes DEF Cancel, Become
    <3>2. QED
          BY <2>1, <3>1 DEF Idle
  <2>7. CASE RecordJob(c) \/ Apply(c) \/ CancelRecord(c) \/ ResultWakes(c)
    <3>1. caller'[c] = Idle
          BY <2>7, CallerTypes DEF RecordJob, Apply, CancelRecord, ResultWakes, Become
    <3>2. QED
          BY <2>1, <3>1 DEF Idle
  <2>8. CASE BackendSubmit(c)
    <3>1. CASE caller'[c] = Idle
          BY <2>1, <3>1 DEF Idle
    <3>2. ASSUME NEW v, caller'[c] = [caller[c] EXCEPT !.step = "submitted", !.id = issued + 1, !.value = v]
          PROVE  FALSE
      <4>1. caller'[c].step = "submitted"
            BY <3>2, CallerTypes DEF Requests
      <4>2. QED
            BY <2>1, <4>1
    <3>3. QED
          BY <2>8, <3>1, <3>2, CallerTypes DEF BackendSubmit, Become
  <2>9. QED
        BY <2>1, <2>2, <2>3, <2>4, <2>5, <2>6, <2>7, <2>8, OneCaller DEF Request, Segment
<1>5. QED
      BY <1>2, <1>3, <1>4 DEF Due

\* Only _applyResult writes the result of a job that is recorded.
LEMMA ResultKept ==
    ASSUME IInv, LInv, Next, ~Restart, NEW i \in Ids, InJobs(i)
    PROVE  \/ /\ record'[i].result = record[i].result
              /\ record'[i].accounted = record[i].accounted
              /\ record'[i].backend = record[i].backend
           \/ \E s \in Terminal : Applied(i, s)
<1>1. ASSUME NEW j \in Ids, NEW s \in Terminal, Applied(j, s), j # i PROVE record'[i] = record[i]
      BY <1>1, AppliedRecord
<1>2. ASSUME NEW j \in Ids, NEW s \in Statuses, Marked(j, s)
      PROVE  /\ record'[i].result = record[i].result
             /\ record'[i].accounted = record[i].accounted
             /\ record'[i].backend = record[i].backend
      BY <1>2, MarkedRecord
<1>3. ASSUME NEW c \in Callers, RecordJob(c) PROVE record'[i] = record[i]
      BY <1>3, NewRecord
<1>4. QED
      BY <1>1, <1>2, <1>3, RecordSteps, DisposedRecord

\* ResultInv is inductive.
LEMMA ResultPreserved == ASSUME IInv, LInv, Next PROVE ResultInv'
<1>1. CASE Restart
  <2>1. \A i \in Ids : ~Given(i)'
        BY <1>1 DEF Restart, Given, Unknown
  <2>2. QED
        BY <2>1 DEF ResultInv
<1>2. CASE ~Restart
  <2>1. SUFFICES ASSUME NEW i \in Ids, InJobs(i)', Given(i)', record'[i].result # "none", Due(i)'
                 PROVE  record'[i].result = job'[i].status
        BY DEF ResultInv
  <2>2. CASE ~InJobs(i)
    <3>1. PICK c \in Callers : RecordJob(c) /\ i = caller[c].id
          BY <1>2, <2>1, <2>2, JobsGrow
    <3>2. record'[i] = [NoRecord EXCEPT !.backend = caller[c].backend, !.status = caller[c].value]
          BY <3>1, NewRecord
    <3>3. QED
          BY <2>1, <3>2 DEF NoRecord
  <2>3. CASE InJobs(i)
    <3>1. i \in 1..issued
          BY <2>3, KnownJobs
    <3>2. JobKeeps(i)
          BY <1>2, <3>1, JobsKeep DEF LInv
    <3>3. ASSUME NEW s \in Terminal, Applied(i, s) PROVE record'[i].result = job'[i].status
          BY <3>3, AppliedRecord DEF Applied
    <3>4. CASE record'[i].result = record[i].result
      <4>1. Given(i) /\ Due(i)
            BY <1>2, <2>1, <2>3, <3>2, <3>4, DueStep DEF JobKeeps, Given
      <4>2. record[i].result = job[i].status /\ record[i].result \in Terminal
            BY <2>1, <2>3, <3>4, <4>1, JobTypes DEF LInv, ResultInv, Records
      <4>3. job[i].backend = "local" \/ ~Quiet
            BY <4>1, DueIsMicro
      <4>4. QED
            BY <3>2, <3>4, <4>2, <4>3 DEF JobKeeps
    <3>5. QED
          BY <1>2, <2>3, <3>3, <3>4, ResultKept
  <2>4. QED
        BY <2>2, <2>3
<1>3. QED
      BY <1>1, <1>2

-----------------------------------------------------------------------------
(* LedgerInv and DistinctInv *)

\* What _restore makes of the entries of the state file.
Rec(k) == LET r == Restored(disk[k]) IN [r EXCEPT !.status = Outcome(r)]

\* Every restored record is accounted and ended, and has the result of its entry.
LEMMA RestoredRecords ==
    ASSUME IInv, DistinctInv, Restart
    PROVE  /\ disk \in Seq(Entries) /\ Len(jobs') = Len(disk) /\ DOMAIN jobs' = DOMAIN disk
           /\ \A k \in DOMAIN disk :
                 /\ disk[k] \in Entries
                 /\ Rec(k).accounted /\ Rec(k).result = disk[k].result /\ Rec(k).backend = disk[k].backend
                 /\ Rec(k).status = IF disk[k].result # "none" THEN disk[k].result
                                    ELSE IF disk[k].status = "running" THEN "failed" ELSE disk[k].status
                 /\ Rec(k).status \in Terminal /\ Outcome(Rec(k)) = Rec(k).status
                 /\ jobs'[k] = disk[k].id /\ record'[disk[k].id] = Rec(k)
           /\ \A i : InJobs(i)' <=> (\E k \in DOMAIN disk : i = disk[k].id)
<1>1. disk \in Seq(Entries)
      BY DEF IInv, TypeOK, RecordsOK
<1>2. ASSUME NEW k \in DOMAIN disk
      PROVE  /\ disk[k] \in Entries
             /\ Rec(k).accounted /\ Rec(k).result = disk[k].result /\ Rec(k).backend = disk[k].backend
             /\ Rec(k).status = IF disk[k].result # "none" THEN disk[k].result
                                ELSE IF disk[k].status = "running" THEN "failed" ELSE disk[k].status
             /\ Rec(k).status \in Terminal /\ Outcome(Rec(k)) = Rec(k).status
  <2>1. disk[k] \in Entries
        BY <1>1, <1>2
  <2>2. PICK e \in Entries : e = disk[k]
        BY <2>1
  <2>3. PICK s : s = IF e.status = "running" THEN "failed" ELSE e.status
        OBVIOUS
  <2>4. PICK r : r = Restored(e)
        OBVIOUS
  <2>5. r = [NoRecord EXCEPT !.backend = e.backend, !.status = s, !.result = e.result, !.accounted = TRUE]
        BY <2>3, <2>4 DEF Restored
  <2>6. r = [backend |-> e.backend, status |-> s, result |-> e.result, accounted |-> TRUE]
        BY <2>5 DEF NoRecord
  <2>7. PICK o : o = IF e.result # "none" THEN e.result ELSE s
        OBVIOUS
  <2>8. Outcome(r) = o
        BY <2>6, <2>7 DEF Outcome
  <2>9. Rec(k) = [r EXCEPT !.status = o]
        BY <2>2, <2>4, <2>8 DEF Rec
  <2>10. Rec(k) = [backend |-> e.backend, status |-> o, result |-> e.result, accounted |-> TRUE]
        BY <2>6, <2>9
  <2>11. e.status \in Statuses /\ e.result \in Terminal \cup {"none"}
        BY DEF Entries
  <2>12. s \in Terminal
        BY <2>3, <2>11 DEF Statuses, Terminal
  <2>13. o \in Terminal
        BY <2>7, <2>11, <2>12 DEF Terminal
  <2>14. Outcome(Rec(k)) = o
        BY <2>7, <2>10 DEF Outcome
  <2>15. QED
        BY <2>1, <2>2, <2>3, <2>7, <2>10, <2>13, <2>14
<1>3. jobs' = [k \in DOMAIN disk |-> disk[k].id]
      BY DEF Restart, Restore
<1>4. Len(jobs') = Len(disk) /\ DOMAIN jobs' = DOMAIN disk
  <2>1. Len(disk) \in Nat /\ DOMAIN disk = 1..Len(disk)
        BY <1>1
  <2>2. jobs' = [k \in 1..Len(disk) |-> disk[k].id]
        BY <1>3, <2>1
  <2>3. QED
        BY <2>1, <2>2
<1>5. ASSUME NEW k \in DOMAIN disk PROVE record'[disk[k].id] = Rec(k)
  <2>1. PICK i \in Ids : i = disk[k].id
        BY <1>2, <1>5 DEF Entries
  <2>2. record'[i] = IF \E n \in DOMAIN disk : disk[n].id = i
                     THEN [m \in DOMAIN disk |-> Rec(m)][CHOOSE n \in DOMAIN disk : disk[n].id = i]
                     ELSE NoRecord
        BY DEF Restart, Restore, Rec
  <2>3. \A n \in DOMAIN disk : disk[n].id = i => n = k
        BY <1>5, <2>1 DEF DistinctInv
  <2>4. (CHOOSE n \in DOMAIN disk : disk[n].id = i) = k
        BY <1>5, <2>1, <2>3
  <2>5. QED
        BY <1>5, <2>1, <2>2, <2>4
<1>6. \A i : InJobs(i)' <=> (\E k \in DOMAIN disk : i = disk[k].id)
      BY <1>3 DEF InJobs, ToSet
<1>7. QED
      BY <1>1, <1>2, <1>3, <1>4, <1>5, <1>6

\* LedgerInv is inductive.
LEMMA LedgerPreserved == ASSUME IInv, LInv, Next PROVE LedgerInv'
<1>1. CASE Restart
  <2>1. SUFFICES ASSUME NEW i \in Ids, InJobs(i)' PROVE EntryInv(i)'
        BY DEF LedgerInv
  <2>2. PICK k \in DOMAIN disk : i = disk[k].id
        BY <1>1, <2>1, RestoredRecords DEF LInv
  <2>3. record'[i].accounted /\ record'[i].status \in Terminal
        BY <1>1, <2>2, RestoredRecords DEF LInv
  <2>4. ~Given(i)'
        BY <1>1 DEF Restart, Given, Unknown
  <2>5. QED
        BY <2>3, <2>4 DEF EntryInv, Terminal
<1>2. CASE ~Restart
  <2>1. SUFFICES ASSUME NEW i \in Ids, InJobs(i)' PROVE EntryInv(i)'
        BY DEF LedgerInv
  <2>2. CASE ~InJobs(i)
    <3>1. PICK c \in Callers : RecordJob(c) /\ i = caller[c].id
          BY <1>2, <2>1, <2>2, JobsGrow
    <3>2. record'[i] = [NoRecord EXCEPT !.backend = caller[c].backend, !.status = caller[c].value]
          BY <3>1, NewRecord
    <3>3. ~record'[i].accounted /\ record'[i].result = "none"
          BY <3>2 DEF NoRecord
    <3>4. Given(i)'
          BY <3>1, NewRecord DEF Given
    <3>5. QED
          BY <3>3, <3>4 DEF EntryInv
  <2>3. CASE InJobs(i)
    <3>1. i \in 1..issued /\ EntryInv(i)
          BY <2>3, KnownJobs DEF LInv, LedgerInv
    <3>2. JobKeeps(i)
          BY <1>2, <3>1, JobsKeep DEF LInv
    <3>3. Given(i)' <=> Given(i)
          BY <3>2 DEF JobKeeps, Given
    <3>4. ASSUME NEW s \in Terminal, Applied(i, s) PROVE EntryInv(i)'
      <4>1. record'[i].result = s /\ record'[i].accounted /\ Given(i)
            BY <3>4, AppliedRecord DEF Applied
      <4>2. QED
            BY <3>3, <4>1 DEF EntryInv, Terminal
    <3>5. CASE record'[i].result = record[i].result /\ record'[i].accounted = record[i].accounted
      <4>1. ~Given(i) => record'[i].status # "running"
        <5>1. ASSUME NEW j \in Ids, NEW s \in Terminal, Applied(j, s), ~Given(i) PROVE record'[i] = record[i]
              BY <5>1, AppliedRecord DEF Applied
        <5>2. ASSUME NEW j \in Ids, NEW s \in Statuses, Marked(j, s), ~Given(i) PROVE record'[i] = record[i]
              BY <5>2, MarkedRecord DEF Marked
        <5>3. ASSUME NEW c \in Callers, RecordJob(c) PROVE record'[i] = record[i]
              BY <2>3, <5>3, NewRecord
        <5>4. CASE Dispose
              BY <3>1, <5>4, DisposedRecord DEF EntryInv
        <5>5. QED
              BY <1>2, <3>1, <5>1, <5>2, <5>3, <5>4, RecordSteps DEF EntryInv
      <4>2. QED
            BY <3>1, <3>3, <3>5, <4>1 DEF EntryInv
    <3>6. QED
          BY <1>2, <2>3, <3>4, <3>5, ResultKept
  <2>4. QED
        BY <2>2, <2>3
<1>3. QED
      BY <1>1, <1>2

Saved == disk' = [k \in 1..Len(jobs') |-> Entry(jobs'[k], record'[jobs'[k]])]

\* The state file is left alone, or holds the records of all jobs.
LEMMA DiskSteps ==
    ASSUME IInv, Next, ~Restart
    PROVE  disk' = disk \/ Saved
<1>1. ASSUME Persist PROVE disk' = disk \/ Saved
      BY <1>1 DEF Persist, Saved
<1>2. ASSUME NEW i, NEW s, ApplyResult(i, s) PROVE Persist
      BY <1>2 DEF ApplyResult
<1>3. ASSUME NEW c \in Callers, Request(c) \/ BackendSubmit(c) \/ PollSnapshot(c) PROVE disk' = disk
      BY <1>3 DEF Request, Submit, Result, Poll, Cancel, BackendSubmit, PollSnapshot
<1>4. ASSUME NEW c \in Callers, RecordJob(c) \/ CancelRecord(c) PROVE Persist
      BY <1>4 DEF RecordJob, CancelRecord
<1>5. ASSUME NEW c \in Callers, Apply(c) \/ ResultWakes(c) PROVE Persist
      BY <1>2, <1>5 DEF Apply, ResultWakes
<1>6. ASSUME NEW i \in Ids, Tracking(i) PROVE Persist
      BY <1>2, <1>6 DEF Tracking, TrackerWakes, TrackerSettles
<1>7. ASSUME NEW i \in Ids, JobEnds(i) PROVE disk' = disk
      BY <1>7 DEF JobEnds
<1>8. CASE Dispose
      BY <1>1, <1>8 DEF Dispose
<1>9. CASE Crash
      BY <1>9 DEF Crash
<1>10. QED
      BY <1>1, <1>3, <1>4, <1>5, <1>6, <1>7, <1>8, <1>9 DEF Next, Segment

\* DistinctInv is inductive.
LEMMA DistinctPreserved == ASSUME IInv, LInv, Next PROVE DistinctInv'
<1>0. jobs \in Seq(Ids) /\ disk \in Seq(Entries) /\ DistinctInv
      BY DEF IInv, TypeOK, RecordsOK, LInv
<1>1. CASE Restart
  <2>1. /\ DOMAIN jobs' = DOMAIN disk /\ \A k \in DOMAIN disk : jobs'[k] = disk[k].id
        BY <1>0, <1>1, RestoredRecords
  <2>2. IsInjective(jobs)'
        BY <1>0, <2>1 DEF IsInjective, DistinctInv
  <2>3. disk' = disk \/ \E k \in DOMAIN disk : disk' = [n \in 1..k |-> Entry(disk[n].id, Rec(n))]
    <3>1. ASSUME NEW k \in DOMAIN disk PROVE \A n \in 1..k : n \in DOMAIN disk
          BY <1>0
    <3>2. ASSUME NEW k \in DOMAIN disk
          PROVE  [n \in 1..k |-> Entry(disk[n].id, [m \in DOMAIN disk |-> Rec(m)][n])]
                   = [n \in 1..k |-> Entry(disk[n].id, Rec(n))]
          BY <3>1
    <3>3. \/ disk' = disk
          \/ \E k \in DOMAIN disk : disk' = [n \in 1..k |-> Entry(disk[n].id, [m \in DOMAIN disk |-> Rec(m)][n])]
          BY <1>1 DEF Restart, Restore, Rec
    <3>4. QED
          BY <3>2, <3>3
  <2>4. ASSUME NEW k \in DOMAIN disk, disk' = [n \in 1..k |-> Entry(disk[n].id, Rec(n))]
        PROVE  \A m, n \in DOMAIN disk' : (disk'[m].id = disk'[n].id) => (m = n)
    <3>1. DOMAIN disk' \subseteq DOMAIN disk /\ \A n \in DOMAIN disk' : disk'[n].id = disk[n].id
          BY <1>0, <2>4 DEF Entry
    <3>2. QED
          BY <1>0, <3>1 DEF DistinctInv
  <2>5. QED
        BY <1>0, <2>2, <2>3, <2>4 DEF DistinctInv
<1>2. CASE ~Restart
  <2>1. IsInjective(jobs)' /\ jobs' \in Seq(Ids)
    <3>1. CASE UNCHANGED jobs
          BY <1>0, <3>1 DEF IsInjective, DistinctInv
    <3>2. ASSUME NEW c \in Callers, RecordJob(c) PROVE IsInjective(jobs)' /\ jobs' \in Seq(Ids)
      <4>1. PICK i \in Ids : i = caller[c].id /\ ~InJobs(i) /\ jobs' = Append(jobs, i)
            BY <3>2, NewRecord
      <4>2. \A k \in DOMAIN jobs : jobs[k] # i
            BY <4>1 DEF InJobs, ToSet
      <4>3. QED
            BY <1>0, <4>1, <4>2 DEF IsInjective, DistinctInv
    <3>3. QED
          BY <1>2, <3>1, <3>2, RecordSteps DEF Applied, Marked, Dispose
  <2>2. CASE disk' = disk
        BY <1>0, <2>1, <2>2 DEF DistinctInv
  <2>3. CASE Saved
    <3>1. DOMAIN disk' = DOMAIN jobs' /\ \A k \in DOMAIN disk' : disk'[k].id = jobs'[k]
          BY <2>1, <2>3 DEF Saved, Entry
    <3>2. QED
          BY <2>1, <3>1 DEF DistinctInv, IsInjective
  <2>4. QED
        BY <1>2, <2>2, <2>3, DiskSteps
<1>3. QED
      BY <1>1, <1>2

-----------------------------------------------------------------------------
(* The budget snapshot: the jobs an outcome stands for, and those that took time. *)

CountsAs(i, s) == InJobs(i) /\ record[i].accounted /\ Outcome(record[i]) = s
TookTime(i)    == InJobs(i) /\ record[i].result # "none" /\ record[i].backend = "local"
Counted(s) == {i \in Ids : CountsAs(i, s)}
Timed      == {i \in Ids : TookTime(i)}

CountInv ==
    /\ \A s \in Terminal : counts[s] = Cardinality(Counted(s))
    /\ totalDurationMs = Cardinality(Timed)

\* Both are finite.
LEMMA CountedFinite == ASSUME NEW s PROVE IsFiniteSet(Counted(s)) /\ IsFiniteSet(Timed)
<1>1. IsFiniteSet(Ids)
      BY LimitsAssumption, FS_Interval DEF Ids
<1>2. QED
      BY <1>1, FS_Subset DEF Counted, Timed

\* CountsAs and TookTime of a job decide its part.
LEMMA CountKept ==
    ASSUME CountInv, UNCHANGED accounting,
           \A i \in Ids : (\A s \in Terminal : CountsAs(i, s)' <=> CountsAs(i, s)) /\ (TookTime(i)' <=> TookTime(i))
    PROVE  CountInv'
<1>1. Timed' = Timed /\ \A s \in Terminal : Counted(s)' = Counted(s)
      BY DEF Timed, Counted
<1>2. QED
      BY <1>1 DEF CountInv, accounting

\* The result of a job is applied.
LEMMA CountApplied ==
    ASSUME IInv, LInv, CountInv, NEW i \in Ids, NEW s \in Terminal, Applied(i, s) PROVE CountInv'
<1>1. /\ InJobs(i) /\ Given(i) /\ EntryInv(i) /\ UNCHANGED jobs
      /\ (record[i].result # "none") => (record[i].result = s)
      /\ record[i] \in Records
      BY JobTypes DEF Applied, LInv, LedgerInv
<1>2. ASSUME NEW j \in Ids, j # i
      PROVE  (\A t \in Terminal : CountsAs(j, t)' <=> CountsAs(j, t)) /\ (TookTime(j)' <=> TookTime(j))
  <2>1. record'[j] = record[j]
        BY <1>2, AppliedRecord
  <2>2. Outcome(record'[j]) = Outcome(record[j])
        BY <2>1
  <2>3. QED
        BY <1>1, <2>1, <2>2 DEF CountsAs, TookTime, InJobs
<1>3. /\ record'[i].result = s /\ record'[i].accounted /\ record'[i].backend = record[i].backend
      /\ InJobs(i)' /\ s # "none"
      BY <1>1, AppliedRecord DEF InJobs, Terminal
<1>4. Outcome(record'[i]) = s
      BY <1>3 DEF Outcome
<1>5. CASE record[i].accounted
  <2>1. record[i].result = s
        BY <1>1, <1>5 DEF EntryInv
  <2>2. Outcome(record[i]) = s
        BY <1>3, <2>1 DEF Outcome
  <2>3. (\A t \in Terminal : CountsAs(i, t)' <=> CountsAs(i, t)) /\ (TookTime(i)' <=> TookTime(i))
        BY <1>1, <1>3, <1>4, <1>5, <2>1, <2>2 DEF CountsAs, TookTime
  <2>4. UNCHANGED accounting
        BY <1>5 DEF Applied, ApplyResult
  <2>5. QED
        BY <1>2, <2>3, <2>4, CountKept
<1>6. CASE ~record[i].accounted
  <2>1. record[i].result = "none"
        BY <1>1, <1>6 DEF EntryInv
  <2>2. counts \in [Terminal -> Nat] /\ totalDurationMs \in Nat
        BY DEF IInv, TypeOK, RecordsOK
  <2>3. /\ counts' = [counts EXCEPT ![s] = counts[s] + 1]
        /\ totalDurationMs' = totalDurationMs + DurationMs(record[i].backend)
        BY <1>6 DEF Applied, ApplyResult
  <2>4. ASSUME NEW t \in Terminal PROVE counts'[t] = Cardinality(Counted(t)')
    <3>1. IsFiniteSet(Counted(t)) /\ counts[t] = Cardinality(Counted(t))
          BY CountedFinite DEF CountInv
    <3>2. CASE t = s
      <4>1. Counted(t)' = Counted(t) \cup {i} /\ i \notin Counted(t)
            BY <1>2, <1>3, <1>4, <1>6, <3>2 DEF Counted, CountsAs
      <4>2. QED
            BY <2>2, <2>3, <3>1, <3>2, <4>1, FS_AddElement
    <3>3. CASE t # s
      <4>1. Counted(t)' = Counted(t)
            BY <1>2, <1>3, <1>4, <1>6, <3>3 DEF Counted, CountsAs
      <4>2. QED
            BY <2>2, <2>3, <3>1, <3>3, <4>1
    <3>4. QED
          BY <3>2, <3>3
  <2>5. totalDurationMs' = Cardinality(Timed')
    <3>1. IsFiniteSet(Timed) /\ totalDurationMs = Cardinality(Timed)
          BY CountedFinite DEF CountInv
    <3>2. CASE record[i].backend = "local"
      <4>1. Timed' = Timed \cup {i} /\ i \notin Timed
            BY <1>2, <1>3, <2>1, <3>2 DEF Timed, TookTime
      <4>2. totalDurationMs' = totalDurationMs + 1
            BY <2>3, <3>2 DEF DurationMs
      <4>3. QED
            BY <3>1, <4>1, <4>2, FS_AddElement
    <3>3. CASE record[i].backend # "local"
      <4>1. Timed' = Timed
            BY <1>2, <1>3, <2>1, <3>3 DEF Timed, TookTime
      <4>2. totalDurationMs' = totalDurationMs
            BY <2>2, <2>3, <3>3 DEF DurationMs
      <4>3. QED
            BY <3>1, <4>1, <4>2
    <3>4. QED
          BY <3>2, <3>3
  <2>6. QED
        BY <2>4, <2>5 DEF CountInv
<1>7. QED
      BY <1>5, <1>6

\* A record of this process without a result is not counted, whatever its status.
LEMMA CountMarked ==
    ASSUME IInv, LInv, CountInv, UNCHANGED <<jobs, accounting>>,
           \A i \in Ids : /\ record'[i].result = record[i].result /\ record'[i].accounted = record[i].accounted
                          /\ record'[i].backend = record[i].backend
                          /\ record'[i].status = record[i].status \/ ~InJobs(i) \/ Given(i)
    PROVE  CountInv'
<1>1. ASSUME NEW i \in Ids
      PROVE  (\A t \in Terminal : CountsAs(i, t)' <=> CountsAs(i, t)) /\ (TookTime(i)' <=> TookTime(i))
  <2>1. InJobs(i)' <=> InJobs(i)
        BY DEF InJobs
  <2>2. CASE record'[i].status = record[i].status
    <3>1. Outcome(record'[i]) = Outcome(record[i])
          BY <2>2 DEF Outcome
    <3>2. QED
          BY <2>1, <3>1 DEF CountsAs, TookTime
  <2>3. CASE ~InJobs(i)
        BY <2>1, <2>3 DEF CountsAs, TookTime
  <2>4. CASE InJobs(i) /\ Given(i)
    <3>1. record[i].accounted => (record[i].result # "none")
          BY <2>4 DEF LInv, LedgerInv, EntryInv
    <3>2. (record[i].result # "none") => (Outcome(record'[i]) = Outcome(record[i]))
          BY DEF Outcome
    <3>3. QED
          BY <2>1, <3>1, <3>2 DEF CountsAs, TookTime
  <2>5. QED
        BY <2>2, <2>3, <2>4
<1>2. QED
      BY <1>1, CountKept

\* A new record counts for nothing yet.
LEMMA CountRecorded ==
    ASSUME IInv, LInv, CountInv, NEW c \in Callers, RecordJob(c) PROVE CountInv'
<1>1. PICK i \in Ids :
         /\ ~InJobs(i) /\ \A j \in Ids : InJobs(j)' <=> (InJobs(j) \/ j = i)
         /\ \A j \in Ids \ {i} : record'[j] = record[j]
         /\ record'[i] = [NoRecord EXCEPT !.backend = caller[c].backend, !.status = caller[c].value]
      BY NewRecord
<1>2. record'[i].result = "none" /\ ~record'[i].accounted
      BY <1>1 DEF NoRecord
<1>3. ASSUME NEW j \in Ids
      PROVE  (\A t \in Terminal : CountsAs(j, t)' <=> CountsAs(j, t)) /\ (TookTime(j)' <=> TookTime(j))
  <2>1. CASE j = i
        BY <1>1, <1>2, <2>1 DEF CountsAs, TookTime
  <2>2. CASE j # i
    <3>1. Outcome(record'[j]) = Outcome(record[j]) /\ record'[j] = record[j]
          BY <1>1, <2>2
    <3>2. QED
          BY <1>1, <2>2, <3>1 DEF CountsAs, TookTime
  <2>3. QED
        BY <2>1, <2>2
<1>4. UNCHANGED accounting
      BY DEF RecordJob
<1>5. QED
      BY <1>3, <1>4, CountKept

\* The entries of the state file stand for as many jobs.
LEMMA EntriesAreJobs ==
    ASSUME IInv, DistinctInv, NEW K \in SUBSET DOMAIN disk
    PROVE  Cardinality({disk[k].id : k \in K}) = Cardinality(K)
<1> DEFINE f == [k \in K |-> disk[k].id]
           T == {disk[k].id : k \in K}
<1>1. IsFiniteSet(DOMAIN disk)
  <2>1. disk \in Seq(Entries)
        BY DEF IInv, TypeOK, RecordsOK
  <2>2. DOMAIN disk = 1..Len(disk) /\ Len(disk) \in Nat
        BY <2>1
  <2>3. QED
        BY <2>2, FS_Interval
<1>2. IsFiniteSet(K)
      BY <1>1, FS_Subset
<1>3. f \in [K -> T] /\ (\A a, b \in K : f[a] = f[b] => a = b) /\ \A t \in T : \E k \in K : f[k] = t
      BY DEF DistinctInv
<1>4. f \in Bijection(K, T)
      BY <1>3 DEF Bijection, Injection, Surjection, IsInjective
<1>5. ExistsBijection(K, T)
      BY <1>4 DEF ExistsBijection
<1>6. QED
      BY <1>2, <1>5, FS_Bijection

\* _restore counts the entries, which are as many jobs.
LEMMA CountRestored ==
    ASSUME IInv, LInv, Restart PROVE CountInv'
<1>0. DistinctInv
      BY DEF LInv
<1>1. ASSUME NEW i \in Ids, NEW s
      PROVE  CountsAs(i, s)' <=> \E k \in DOMAIN disk : i = disk[k].id /\ Rec(k).status = s
  <2>1. ASSUME NEW k \in DOMAIN disk, i = disk[k].id PROVE CountsAs(i, s)' <=> (Rec(k).status = s)
    <3>1. InJobs(i)' /\ record'[i] = Rec(k) /\ Rec(k).accounted /\ Outcome(Rec(k)) = Rec(k).status
          BY <1>0, <2>1, RestoredRecords
    <3>2. QED
          BY <3>1 DEF CountsAs
  <2>2. ASSUME \A k \in DOMAIN disk : i # disk[k].id PROVE ~CountsAs(i, s)'
        BY <1>0, <2>2, RestoredRecords DEF CountsAs
  <2>3. QED
        BY <1>0, <2>1, <2>2 DEF DistinctInv
<1>2. ASSUME NEW i \in Ids
      PROVE  TookTime(i)' <=> \E k \in DOMAIN disk :
                                 i = disk[k].id /\ disk[k].result # "none" /\ disk[k].backend = "local"
  <2>1. ASSUME NEW k \in DOMAIN disk, i = disk[k].id
        PROVE  TookTime(i)' <=> (disk[k].result # "none" /\ disk[k].backend = "local")
    <3>1. InJobs(i)' /\ record'[i] = Rec(k) /\ Rec(k).result = disk[k].result /\ Rec(k).backend = disk[k].backend
          BY <1>0, <2>1, RestoredRecords
    <3>2. QED
          BY <3>1 DEF TookTime
  <2>2. ASSUME \A k \in DOMAIN disk : i # disk[k].id PROVE ~TookTime(i)'
        BY <1>0, <2>2, RestoredRecords DEF TookTime
  <2>3. QED
        BY <1>0, <2>1, <2>2 DEF DistinctInv
<1>3. \A k \in DOMAIN disk : disk[k].id \in Ids
      BY <1>0, RestoredRecords DEF Entries
<1>4. ASSUME NEW s \in Terminal PROVE counts'[s] = Cardinality(Counted(s)')
  <2>1. PICK K \in SUBSET DOMAIN disk : K = {k \in DOMAIN disk : Rec(k).status = s}
        OBVIOUS
  <2>2. Counted(s)' = {disk[k].id : k \in K}
        BY <1>1, <1>3, <2>1 DEF Counted
  <2>3. counts'[s] = Cardinality({k \in DOMAIN disk : [m \in DOMAIN disk |-> Rec(m)][k].status = s})
        BY DEF Restart, Restore, Rec
  <2>4. {k \in DOMAIN disk : [m \in DOMAIN disk |-> Rec(m)][k].status = s} = K
        BY <2>1
  <2>5. QED
        BY <1>0, <2>2, <2>3, <2>4, EntriesAreJobs
<1>5. totalDurationMs' = Cardinality(Timed')
  <2>1. PICK K \in SUBSET DOMAIN disk :
           K = {k \in DOMAIN disk : disk[k].result # "none" /\ disk[k].backend = "local"}
        OBVIOUS
  <2>2. Timed' = {disk[k].id : k \in K}
        BY <1>2, <1>3, <2>1 DEF Timed
  <2>3. totalDurationMs' = Cardinality({k \in {n \in DOMAIN disk : disk[n].result # "none"} :
                                           disk[k].backend = "local"})
        BY DEF Restart, Restore
  <2>4. {k \in {n \in DOMAIN disk : disk[n].result # "none"} : disk[k].backend = "local"} = K
        BY <2>1
  <2>5. QED
        BY <1>0, <2>2, <2>3, <2>4, EntriesAreJobs
<1>6. QED
      BY <1>4, <1>5 DEF CountInv

\* CountInv is inductive.
LEMMA CountPreserved == ASSUME IInv, LInv, CountInv, Next PROVE CountInv'
<1>1. CASE Restart
      BY <1>1, CountRestored
<1>2. CASE ~Restart
  <2>1. CASE UNCHANGED <<jobs, record, accounting>>
        BY <2>1, CountMarked
  <2>2. ASSUME NEW i \in Ids, NEW s \in Statuses, Marked(i, s) PROVE CountInv'
    <3>1. \A j \in Ids : /\ record'[j].result = record[j].result /\ record'[j].accounted = record[j].accounted
                         /\ record'[j].backend = record[j].backend
                         /\ record'[j].status = record[j].status \/ ~InJobs(j) \/ Given(j)
          BY <2>2, MarkedRecord DEF Marked
    <3>2. QED
          BY <2>2, <3>1, CountMarked DEF Marked
  <2>3. CASE Dispose
    <3>1. ASSUME NEW j \in Ids
          PROVE  /\ record'[j].result = record[j].result /\ record'[j].accounted = record[j].accounted
                 /\ record'[j].backend = record[j].backend
                 /\ record'[j].status = record[j].status \/ ~InJobs(j) \/ Given(j)
      <4>1. (InJobs(j) /\ ~Given(j)) => j \notin Running
            BY DEF LInv, LedgerInv, EntryInv, Running, InJobs
      <4>2. QED
            BY <2>3, <4>1, DisposedRecord
    <3>2. QED
          BY <2>3, <3>1, CountMarked DEF Dispose
  <2>4. QED
        BY <1>2, <2>1, <2>2, <2>3, CountApplied, CountRecorded, RecordSteps
<1>3. QED
      BY <1>1, <1>2

-----------------------------------------------------------------------------
(* The state file, when every write succeeds *)

InFile(i)  == \E k \in DOMAIN disk : disk[k].id = i
SavedAs(i) == \E k \in DOMAIN disk : disk[k].id = i /\ disk[k].result = record[i].result

\* What was handed out is on the file as long as the first process and its successor
\* have not overwritten it, and the file follows the records until dispose().
FileInv ==
    /\ restarts = 0 => \A i \in returned : InFile(i)
    /\ ((up /\ restarts <= 1) \/ restarts = 0) => returned \subseteq ToSet(jobs)
    /\ (up /\ ~disposed) => \A i \in Ids : (InJobs(i) /\ Given(i)) => SavedAs(i)

-----------------------------------------------------------------------------
(* The local backend alone *)

LocalOnly == Backends = {"local"}

\* A job of this process has a tracker until it has a result, and the tracker still
\* waits while a poll has just seen the job run.
LocalInv ==
    /\ \A i \in Ids : (InJobs(i) /\ Given(i) /\ tracker[i] = "none") => (record[i].result # "none")
    /\ \A c \in Callers :
          /\ (caller[c].step = "cancelling") => (job[caller[c].id].status # "running")
          /\ (caller[c].step = "snapshot" /\ caller[c].value \notin Terminal) => (tracker[caller[c].id] = "waiting")
    /\ \A i \in Ids : (InJobs(i) /\ record[i].status \in Terminal) => (job[i].status # "running")
    /\ \A i \in Ids : (InJobs(i) /\ record[i].status = "running") => (tracker[i] # "none")

-----------------------------------------------------------------------------
(* FileInv *)

\* A step that does not write the file changes nothing it stands for.
LEMMA FileSteps ==
    ASSUME IInv, LInv, Next, ~Restart, ~WritesFail, ~disposed
    PROVE  \/ Saved
           \/ /\ UNCHANGED <<disk, jobs, returned>>
              /\ \A i \in Ids : record'[i].result = record[i].result
<1>1. ASSUME Persist PROVE Saved
      BY <1>1 DEF Persist, Saved
<1>2. ASSUME NEW i, NEW s, ApplyResult(i, s) PROVE Persist
      BY <1>2 DEF ApplyResult
<1>3. ASSUME NEW c \in Callers, Request(c) \/ BackendSubmit(c)
      PROVE  UNCHANGED <<disk, jobs, returned, record>>
      BY <1>3 DEF Request, Submit, Result, Poll, Cancel, BackendSubmit
<1>4. ASSUME NEW c \in Callers, PollSnapshot(c)
      PROVE  /\ UNCHANGED <<disk, jobs, returned>>
             /\ \A i \in Ids : record'[i].result = record[i].result
  <2>1. PICK i \in Ids, s \in Statuses : Marked(i, s)
        BY <1>4, RequestMarks
  <2>2. \A j \in Ids : record'[j].result = record[j].result
        BY <2>1, MarkedRecord
  <2>3. QED
        BY <1>4, <2>2 DEF PollSnapshot
<1>5. ASSUME NEW c \in Callers, RecordJob(c) \/ CancelRecord(c) PROVE Persist
      BY <1>5 DEF RecordJob, CancelRecord
<1>6. ASSUME NEW c \in Callers, Apply(c) \/ ResultWakes(c) PROVE Persist
      BY <1>2, <1>6 DEF Apply, ResultWakes
<1>7. ASSUME NEW i \in Ids, Tracking(i) PROVE Persist
      BY <1>2, <1>7 DEF Tracking, TrackerWakes, TrackerSettles
<1>8. ASSUME NEW i \in Ids, JobEnds(i) PROVE UNCHANGED <<disk, jobs, returned, record>>
      BY <1>8 DEF JobEnds
<1>9. CASE Dispose
      BY <1>1, <1>9 DEF Dispose
<1>10. CASE Crash
      BY <1>10 DEF Crash
<1>11. QED
      BY <1>1, <1>3, <1>4, <1>5, <1>6, <1>7, <1>8, <1>9, <1>10 DEF Next, Segment

\* Once disposed, nothing is written, and no id is handed out.
LEMMA DisposedSteps ==
    ASSUME Next, ~Restart, disposed PROVE UNCHANGED <<disk, returned>> /\ disposed'
<1>1. ASSUME Persist PROVE disk' = disk
      BY <1>1 DEF Persist
<1>2. ASSUME NEW i, NEW s, ApplyResult(i, s) PROVE Persist
      BY <1>2 DEF ApplyResult
<1>3. ASSUME NEW c \in Callers, Request(c) \/ BackendSubmit(c) \/ PollSnapshot(c)
      PROVE  UNCHANGED <<disk, returned, disposed>>
      BY <1>3 DEF Request, Submit, Result, Poll, Cancel, BackendSubmit, PollSnapshot, host
<1>4. ASSUME NEW c \in Callers, RecordJob(c) \/ CancelRecord(c) PROVE UNCHANGED <<disk, returned, disposed>>
      BY <1>1, <1>4 DEF RecordJob, CancelRecord, host
<1>5. ASSUME NEW c \in Callers, Apply(c) \/ ResultWakes(c) PROVE UNCHANGED <<disk, returned, disposed>>
      BY <1>1, <1>2, <1>5 DEF Apply, ResultWakes, host
<1>6. ASSUME NEW i \in Ids, Tracking(i) PROVE UNCHANGED <<disk, returned, disposed>>
      BY <1>1, <1>2, <1>6 DEF Tracking, TrackerWakes, TrackerSettles, host
<1>7. ASSUME NEW i \in Ids, JobEnds(i) PROVE UNCHANGED <<disk, returned, disposed>>
      BY <1>7 DEF JobEnds, host
<1>8. CASE Dispose
      BY <1>8 DEF Dispose
<1>9. CASE Crash
      BY <1>9 DEF Crash
<1>10. QED
      BY <1>3, <1>4, <1>5, <1>6, <1>7, <1>8, <1>9 DEF Next, Segment

\* What a step hands out is recorded.
LEMMA ReturnedSteps ==
    ASSUME IInv, LInv, Next, ~Restart
    PROVE  /\ restarts' = restarts /\ (up' => up)
           /\ \A i \in returned' : i \in returned \/ InJobs(i)'
<1>1. ASSUME NEW c \in Callers, RecordJob(c)
      PROVE  restarts' = restarts /\ up' = up /\ \A i \in returned' : i \in returned \/ InJobs(i)'
      BY <1>1, NewRecord DEF RecordJob, host
<1>2. ASSUME NEW c \in Callers, Request(c) \/ (Segment(c) /\ ~RecordJob(c))
      PROVE  UNCHANGED <<restarts, up, returned>>
      BY <1>2
      DEF Request, Segment, Submit, Result, Poll, Cancel, BackendSubmit, PollSnapshot, Apply, CancelRecord,
          ResultWakes, host
<1>3. ASSUME NEW i \in Ids, Tracking(i) \/ JobEnds(i) PROVE UNCHANGED <<restarts, up, returned>>
      BY <1>3 DEF Tracking, TrackerWakes, TrackerSettles, JobEnds, host
<1>4. CASE Dispose \/ Crash
      BY <1>4 DEF Dispose, Crash
<1>5. QED
      BY <1>1, <1>2, <1>3, <1>4 DEF Next

\* A saved file holds every job.
LEMMA SavedFile ==
    ASSUME Saved, jobs' \in Seq(Ids), NEW i, InJobs(i)'
    PROVE  \E k \in DOMAIN disk' : disk'[k].id = i /\ disk'[k].result = record'[i].result
<1>1. PICK k \in 1..Len(jobs') : jobs'[k] = i
      BY DEF InJobs, ToSet
<1>2. disk'[k] = Entry(i, record'[i]) /\ k \in DOMAIN disk'
      BY <1>1 DEF Saved
<1>3. QED
      BY <1>2 DEF Entry

\* FileInv is inductive.
LEMMA FilePreserved ==
    ASSUME IInv, IInv', LInv, FileInv, ~WritesFail, Next PROVE FileInv'
<1>1. restarts \in Nat /\ jobs' \in Seq(Ids)
      BY DEF IInv, TypeOK, HostOK, RecordsOK
<1>2. CASE Restart
  <2>1. restarts' = restarts + 1 /\ returned' = returned /\ \A i \in Ids : ~Given(i)'
        BY <1>2 DEF Restart, Given, Unknown
  <2>2. restarts' # 0
        BY <1>1, <2>1
  <2>3. ASSUME restarts' <= 1 PROVE returned' \subseteq ToSet(jobs)'
    <3>1. restarts = 0
          BY <1>1, <2>1, <2>3
    <3>2. \A i \in returned : InJobs(i)'
          BY <1>2, <3>1, RestoredRecords DEF FileInv, InFile, LInv
    <3>3. QED
          BY <2>1, <3>2 DEF InJobs
  <2>4. QED
        BY <2>1, <2>2, <2>3 DEF FileInv
<1>3. CASE ~Restart
  <2>1. /\ restarts' = restarts /\ (up' => up)
        /\ \A i \in returned' : i \in returned \/ InJobs(i)'
        BY <1>3, ReturnedSteps
  <2>2. ((up' /\ restarts' <= 1) \/ restarts' = 0) => returned' \subseteq ToSet(jobs)'
    <3>1. SUFFICES ASSUME (up /\ restarts <= 1) \/ restarts = 0, NEW i \in returned' PROVE InJobs(i)'
          BY <2>1 DEF InJobs
    <3>2. i \in returned => InJobs(i)
          BY <3>1 DEF FileInv, InJobs
    <3>3. QED
          BY <1>3, <2>1, <3>1, <3>2, JobsGrow
  <2>3. (restarts' = 0) => \A i \in returned' : InFile(i)'
    <3>1. CASE disposed
          BY <1>3, <2>1, <3>1, DisposedSteps DEF FileInv, InFile
    <3>2. CASE ~disposed /\ Saved
          BY <1>1, <2>2, <3>2, SavedFile DEF InFile, InJobs
    <3>3. CASE ~disposed /\ UNCHANGED <<disk, returned>>
          BY <2>1, <3>3 DEF FileInv, InFile
    <3>4. QED
          BY <1>3, <3>1, <3>2, <3>3, FileSteps
  <2>4. ASSUME up', ~disposed', NEW i \in Ids, InJobs(i)', Given(i)' PROVE SavedAs(i)'
    <3>1. ~disposed
          BY <1>3, <2>4, DisposedSteps
    <3>2. CASE Saved
          BY <1>1, <2>4, <3>2, SavedFile DEF SavedAs
    <3>3. CASE UNCHANGED <<disk, jobs>> /\ record'[i].result = record[i].result
      <4>1. InJobs(i)
            BY <2>4, <3>3 DEF InJobs
      <4>2. i \in 1..issued
            BY <4>1, KnownJobs
      <4>3. Given(i)
            BY <1>3, <2>4, <4>2, JobsKeep DEF LInv, JobKeeps, Given
      <4>4. SavedAs(i)
            BY <2>1, <2>4, <3>1, <4>1, <4>3 DEF FileInv
      <4>5. QED
            BY <3>3, <4>4 DEF SavedAs
    <3>4. QED
          BY <1>3, <3>1, <3>2, <3>3, FileSteps
  <2>5. QED
        BY <2>2, <2>3, <2>4 DEF FileInv
<1>4. QED
      BY <1>2, <1>3

-----------------------------------------------------------------------------
(* LocalInv *)

\* Every job a request or a tracker works on is the local backend's.
LEMMA LocalJobs ==
    ASSUME IInv, LocalOnly, NEW i \in Ids
    PROVE  job[i].backend = "local" /\ job[i].status \in Terminal \cup {"running", "unknown"}
    BY JobTypes DEF LocalOnly, BackendJobs, Statuses

\* Of a job that is recorded, the tracker goes only with a result that is applied.
LEMMA LocalTracking ==
    ASSUME IInv, LInv, LocalOnly, Next, ~Restart, NEW i \in Ids, InJobs(i)
    PROVE  \/ tracker'[i] = tracker[i]
           \/ /\ tracker[i] # "waiting" \/ Quiet
              /\ record'[i].result \in Terminal /\ record'[i].status \in Terminal
<1>1. tracker \in [Ids -> Terminal \cup {"none", "waiting", "rejected"}]
      BY DEF IInv, TypeOK, RecordsOK
<1>2. ASSUME NEW j \in Ids, Tracking(j), j # i PROVE tracker'[i] = tracker[i]
      BY <1>1, <1>2 DEF Tracking, TrackerWakes, TrackerSettles
<1>3. CASE Tracking(i)
  <2>1. tracker[i] # "waiting" \/ Quiet
        BY <1>3 DEF Tracking, TrackerWakes, TrackerSettles, Terminal
  <2>2. tracker[i] # "rejected"
        BY LocalJobs DEF LInv, TrackersInv, TrackerInv
  <2>3. PICK s \in Terminal : ApplyResult(i, s)
        BY <1>3, <2>2 DEF Tracking, TrackerWakes, TrackerSettles
  <2>4. record' = [record EXCEPT ![i] = [record[i] EXCEPT !.result = s, !.status = s, !.accounted = TRUE]]
        BY <2>3 DEF ApplyResult
  <2>5. PICK r : r = [record[i] EXCEPT !.result = s, !.status = s, !.accounted = TRUE]
        OBVIOUS
  <2>6. r.result = s /\ r.status = s
        BY <2>5, JobTypes DEF Records
  <2>7. record'[i] = r
        BY <2>4, <2>5, JobTypes
  <2>8. QED
        BY <2>1, <2>6, <2>7
<1>4. ASSUME NEW c \in Callers, Request(c) \/ (Segment(c) /\ ~RecordJob(c)) PROVE tracker' = tracker
      BY <1>4
      DEF Request, Segment, Submit, Result, Poll, Cancel, BackendSubmit, PollSnapshot, Apply, CancelRecord,
          ResultWakes
<1>5. ASSUME NEW c \in Callers, RecordJob(c) PROVE tracker'[i] = tracker[i]
      BY <1>5, NewRecord
<1>6. ASSUME NEW j \in Ids, JobEnds(j) PROVE tracker' = tracker
      BY <1>6 DEF JobEnds
<1>7. CASE Dispose \/ Crash
      BY <1>7 DEF Dispose, Crash
<1>8. QED
      BY <1>2, <1>3, <1>4, <1>5, <1>6, <1>7 DEF Next

\* A job of this process without a tracker has a result.
LEMMA ResultBeforeLeave ==
    ASSUME IInv, LInv, LocalInv, LocalOnly, Next, ~Restart,
           NEW i \in Ids, InJobs(i)', Given(i)', tracker'[i] = "none"
    PROVE  record'[i].result # "none"
<1>1. CASE ~InJobs(i)
  <2>1. PICK c \in Callers : RecordJob(c) /\ i = caller[c].id
        BY <1>1, JobsGrow
  <2>2. tracker'[i] = ResultNow(i)
        BY <2>1, NewRecord
  <2>3. QED
        BY <2>2 DEF ResultNow, Terminal
<1>2. CASE InJobs(i)
  <2>1. i \in 1..issued
        BY <1>2, KnownJobs
  <2>2. Given(i)
        BY <2>1, JobsKeep DEF LInv, JobKeeps, Given
  <2>3. CASE tracker'[i] = tracker[i]
    <3>1. record[i].result # "none"
          BY <1>2, <2>2, <2>3 DEF LocalInv
    <3>2. ASSUME NEW s \in Terminal, Applied(i, s) PROVE record'[i].result # "none"
          BY <3>2, AppliedRecord DEF Terminal
    <3>3. QED
          BY <1>2, <3>1, <3>2, ResultKept
  <2>4. QED
        BY <1>2, <2>3, LocalTracking DEF Terminal
<1>3. QED
      BY <1>1, <1>2

\* cancel() has ended the job before it marks the record, and a poll that saw the job
\* run has it waited for.
RequestLocal(c) ==
    /\ (caller[c].step = "cancelling") => (job[caller[c].id].status # "running")
    /\ (caller[c].step = "snapshot" /\ caller[c].value \notin Terminal) => (tracker[caller[c].id] = "waiting")

\* Both stay true while the request waits for its turn.
LEMMA RequestLocalStays ==
    ASSUME IInv, LInv, LocalInv, LocalOnly, Next, ~Restart, NEW c \in Callers, caller'[c] = caller[c]
    PROVE  RequestLocal(c)'
<1>1. CASE caller[c].step \in {"cancelling", "snapshot"}
  <2>1. PICK i \in Ids : i = caller[c].id /\ i \in 1..issued /\ InJobs(i) /\ Given(i)
        BY <1>1, CallerTypes DEF LInv, CallersInv, CallerInv
  <2>2. JobKeeps(i)
        BY <2>1, JobsKeep DEF LInv
  <2>3. (caller[c].step = "cancelling") => (job'[i].status # "running")
    <3>1. (caller[c].step = "cancelling") => job[i].status \in Terminal
          BY <2>1, LocalJobs DEF LocalInv, Given
    <3>2. QED
          BY <2>2, <3>1 DEF JobKeeps, Terminal
  <2>4. (caller[c].step = "snapshot" /\ caller[c].value \notin Terminal) => (tracker'[i] = "waiting")
    <3>1. ~Quiet
          BY <1>1 DEF Quiet, Micro
    <3>2. QED
          BY <2>1, <3>1, LocalTracking DEF LocalInv
  <2>5. QED
        BY <2>1, <2>3, <2>4 DEF RequestLocal
<1>2. QED
      BY <1>1 DEF RequestLocal

\* Both are true when the request gets there.
LEMMA RequestLocalMoves ==
    ASSUME IInv, LInv, LocalInv, LocalOnly, NEW c \in Callers, Request(c) \/ Segment(c)
    PROVE  RequestLocal(c)'
<1>1. ASSUME NEW i \in Ids, Poll(c, i) PROVE RequestLocal(c)'
  <2>1. caller'[c] = [Idle EXCEPT !.step = "snapshot", !.id = i, !.value = job[i].status]
        BY <1>1, CallerTypes DEF Poll, Become
  <2>2. caller'[c].step = "snapshot" /\ caller'[c].id = i /\ caller'[c].value = job[i].status
        BY <2>1 DEF Idle
  <2>3. InJobs(i) /\ Given(i) /\ record[i].result = "none" /\ tracker' = tracker
        BY <1>1 DEF Poll, Known, InJobs, Given
  <2>4. tracker[i] \in Terminal \cup {"waiting", "rejected"}
        BY <2>3 DEF LocalInv, IInv, TypeOK, RecordsOK
  <2>5. job[i].status \notin Terminal => (tracker[i] = "waiting")
        BY <2>3, <2>4, LocalJobs DEF LInv, TrackersInv, TrackerInv, Terminal
  <2>6. QED
        BY <2>2, <2>3, <2>5 DEF RequestLocal
<1>2. ASSUME NEW i \in Ids, Cancel(c, i) PROVE RequestLocal(c)'
  <2>1. caller'[c] = [Idle EXCEPT !.step = "cancelling", !.id = i]
        BY <1>2, CallerTypes DEF Cancel, Become
  <2>2. caller'[c].step = "cancelling" /\ caller'[c].id = i
        BY <2>1 DEF Idle
  <2>3. job'[i].status # "running"
    <3>1. CASE job[i].status # "running"
          BY <1>2, <3>1 DEF Cancel
    <3>2. CASE job[i].status = "running"
      <4>1. job'[i] = Kill(job[i])
            BY <1>2, <3>2, LocalJobs, JobTypes DEF Cancel
      <4>2. Kill(job[i]).status = "cancelled"
            BY JobTypes DEF Kill, BackendJobs
      <4>3. QED
            BY <4>1, <4>2
    <3>3. QED
          BY <3>1, <3>2
  <2>4. QED
        BY <2>2, <2>3 DEF RequestLocal
<1>3. ASSUME NEW b \in Backends, Submit(c, b) PROVE caller'[c].step = "available"
      BY <1>3, CallerTypes DEF Submit, Become, Idle
<1>4. ASSUME NEW i \in Ids, Result(c, i) PROVE caller'[c].step \in {"waiting", "applying"}
  <2>1. PICK s : s = IF ResultNow(i) = "waiting" THEN "waiting" ELSE "applying"
        OBVIOUS
  <2>2. caller'[c] = [Idle EXCEPT !.step = s, !.id = i, !.value = ResultNow(i)]
        BY <1>4, <2>1, CallerTypes DEF Result, Become
  <2>3. caller'[c].step = s
        BY <2>2 DEF Idle
  <2>4. QED
        BY <2>1, <2>3
<1>5. CASE caller'[c] = Idle
      BY <1>5 DEF Idle, RequestLocal
<1>6. CASE caller'[c].step \in {"submitted", "applying"}
      BY <1>6 DEF RequestLocal
<1>7. CASE Segment(c)
  <2>1. CASE RecordJob(c) \/ Apply(c) \/ CancelRecord(c) \/ ResultWakes(c)
        BY <1>5, <2>1, CallerTypes DEF RecordJob, Apply, CancelRecord, ResultWakes, Become
  <2>2. CASE PollSnapshot(c)
    <3>1. caller'[c] = Idle \/ \E v : caller'[c] = [caller[c] EXCEPT !.step = "applying", !.value = v]
          BY <2>2, CallerTypes DEF PollSnapshot, Become
    <3>2. ASSUME NEW v, caller'[c] = [caller[c] EXCEPT !.step = "applying", !.value = v]
          PROVE  caller'[c].step = "applying"
          BY <3>2, CallerTypes DEF Requests
    <3>3. QED
          BY <1>5, <1>6, <3>1, <3>2
  <2>3. CASE BackendSubmit(c)
    <3>1. caller'[c] = Idle
          \/ \E v : caller'[c] = [caller[c] EXCEPT !.step = "submitted", !.id = issued + 1, !.value = v]
          BY <2>3, CallerTypes DEF BackendSubmit, Become
    <3>2. ASSUME NEW v, caller'[c] = [caller[c] EXCEPT !.step = "submitted", !.id = issued + 1, !.value = v]
          PROVE  caller'[c].step = "submitted"
          BY <3>2, CallerTypes DEF Requests
    <3>3. QED
          BY <1>5, <1>6, <3>1, <3>2
  <2>4. QED
        BY <1>7, <2>1, <2>2, <2>3 DEF Segment
<1>8. QED
      BY <1>1, <1>2, <1>3, <1>4, <1>7 DEF Request, RequestLocal

\* What a mark says of the job: it has ended, or it was seen running by a poll, and is
\* still waited for.
LEMMA MarksAreTrue ==
    ASSUME IInv, LInv, LocalInv, LocalOnly, NEW i \in Ids, InJobs(i),
           \/ \E c \in Callers : i = caller[c].id /\ (PollSnapshot(c) \/ CancelRecord(c))
           \/ Tracking(i) /\ tracker[i] = "rejected"
    PROVE  /\ record'[i].status \in Terminal => job'[i].status # "running"
           /\ (record'[i].status = "running") => (tracker'[i] # "none")
<1>1. record \in [Ids -> Records]
      BY JobTypes
<1>2. ASSUME Tracking(i), tracker[i] = "rejected" PROVE FALSE
      BY <1>2, LocalJobs DEF LInv, TrackersInv, TrackerInv
<1>3. ASSUME NEW c \in Callers, i = caller[c].id, PollSnapshot(c)
      PROVE  /\ record'[i].status \in Terminal => job'[i].status # "running"
             /\ (record'[i].status = "running") => (tracker'[i] # "none")
  <2>1. record'[i].status = caller[c].value /\ job' = job /\ tracker' = tracker /\ caller[c].step = "snapshot"
        BY <1>1, <1>3 DEF PollSnapshot, Records
  <2>2. caller[c].value \in Terminal => job[i].status # "running"
        BY <1>3, <2>1, CallerTypes DEF Terminal
  <2>3. (caller[c].value = "running") => (tracker[i] = "waiting")
        BY <1>3, <2>1 DEF LocalInv, Terminal
  <2>4. QED
        BY <2>1, <2>2, <2>3
<1>4. ASSUME NEW c \in Callers, i = caller[c].id, CancelRecord(c)
      PROVE  /\ record'[i].status \in Terminal => job'[i].status # "running"
             /\ (record'[i].status = "running") => (tracker'[i] # "none")
  <2>1. record'[i].status = "cancelled" /\ job' = job /\ caller[c].step = "cancelling"
        BY <1>1, <1>4 DEF CancelRecord, Records
  <2>2. job[i].status # "running"
        BY <1>4, <2>1 DEF LocalInv
  <2>3. QED
        BY <2>1, <2>2
<1>5. QED
      BY <1>2, <1>3, <1>4

\* Of a job that is recorded already, at any step.
LEMMA StatusIsTrue ==
    ASSUME IInv, LInv, LocalInv, LocalOnly, Next, ~Restart, NEW i \in Ids, InJobs(i)
    PROVE  /\ record'[i].status \in Terminal => job'[i].status # "running"
           /\ (record'[i].status = "running") => (tracker'[i] # "none")
<1>1. i \in 1..issued
      BY KnownJobs
<1>2. JobKeeps(i) /\ job[i].status \in Terminal \cup {"running", "unknown"}
      BY <1>1, JobsKeep, LocalJobs DEF LInv
<1>3. (job[i].status # "running") => (job'[i].status # "running")
      BY <1>2 DEF JobKeeps, Terminal
<1>4. CASE record'[i] = record[i]
  <2>1. record'[i].status \in Terminal => job'[i].status # "running"
        BY <1>3, <1>4 DEF LocalInv
  <2>2. (record'[i].status = "running") => (tracker'[i] # "none")
    <3>1. CASE tracker'[i] = tracker[i]
          BY <1>4, <3>1 DEF LocalInv
    <3>2. CASE record'[i].status \in Terminal
          BY <3>2 DEF Terminal
    <3>3. QED
          BY <3>1, <3>2, LocalTracking
  <2>3. QED
        BY <2>1, <2>2
<1>5. ASSUME NEW s \in Terminal, Applied(i, s)
      PROVE  record'[i].status \in Terminal /\ job'[i].status # "running"
  <2>1. record'[i].status = s /\ job' = job /\ s = job[i].status
        BY <1>5, AppliedRecord DEF Applied
  <2>2. QED
        BY <2>1 DEF Terminal
<1>6. CASE Dispose
  <2>1. tracker' = tracker
        BY <1>6 DEF Dispose
  <2>2. CASE i \in Running
    <3>1. record'[i].status = "cancelled"
          BY <1>6, <2>2, DisposedRecord
    <3>2. job'[i].status # "running"
      <4>1. CASE job[i].status # "running"
            BY <1>3, <4>1
      <4>2. CASE job[i].status = "running"
        <5>1. job'[i] = Kill(job[i])
              BY <1>6, <4>2, LocalJobs DEF Dispose
        <5>2. Kill(job[i]).status = "cancelled"
              BY JobTypes DEF Kill, BackendJobs
        <5>3. QED
              BY <5>1, <5>2
      <4>3. QED
            BY <4>1, <4>2
    <3>3. QED
          BY <3>1, <3>2
  <2>3. CASE i \notin Running
    <3>1. record'[i].status = record[i].status
          BY <1>6, <2>3, DisposedRecord
    <3>2. QED
          BY <1>3, <2>1, <3>1 DEF LocalInv
  <2>4. QED
        BY <2>2, <2>3
<1>7. ASSUME NEW j \in Ids, NEW s \in Terminal, Applied(j, s), j # i PROVE record'[i] = record[i]
      BY <1>7, AppliedRecord
<1>8. ASSUME NEW j \in Ids, NEW s \in Statuses, Marked(j, s), j # i PROVE record'[i] = record[i]
      BY <1>8, MarkedRecord
<1>9. ASSUME NEW c \in Callers, RecordJob(c) PROVE record'[i] = record[i]
      BY <1>9, NewRecord
<1>10. ASSUME NEW c \in Callers, Request(c) \/ BackendSubmit(c) PROVE record' = record
      BY <1>10 DEF Request, Submit, Result, Poll, Cancel, BackendSubmit
<1>11. ASSUME NEW c \in Callers, Apply(c) \/ ResultWakes(c)
       PROVE  record'[i] = record[i] \/ \E s \in Terminal : Applied(i, s)
      BY <1>7, <1>11, RequestApplies
<1>12. ASSUME NEW c \in Callers, PollSnapshot(c) \/ CancelRecord(c)
       PROVE  record'[i] = record[i] \/ i = caller[c].id
      BY <1>8, <1>12, RequestMarks
<1>13. ASSUME NEW j \in Ids, Tracking(j)
       PROVE  \/ record'[i] = record[i] \/ \E s \in Terminal : Applied(i, s)
              \/ j = i /\ tracker[i] = "rejected"
      BY <1>7, <1>8, <1>13, TrackerApplies DEF Statuses, Terminal
<1>14. ASSUME NEW j \in Ids, JobEnds(j) PROVE record' = record
      BY <1>14 DEF JobEnds
<1>15. CASE Crash
      BY <1>4, <1>15 DEF Crash
<1>16. ASSUME NEW s \in Terminal, Applied(i, s)
       PROVE  /\ record'[i].status \in Terminal => job'[i].status # "running"
              /\ (record'[i].status = "running") => (tracker'[i] # "none")
      BY <1>5, <1>16 DEF Terminal
<1>17. CASE \E c \in Callers : Request(c) \/ Segment(c)
      BY <1>4, <1>9, <1>10, <1>11, <1>12, <1>16, <1>17, MarksAreTrue DEF Segment
<1>18. CASE \E j \in Ids : Tracking(j) \/ JobEnds(j)
      BY <1>4, <1>13, <1>14, <1>16, <1>18, MarksAreTrue
<1>19. QED
      BY <1>6, <1>15, <1>17, <1>18 DEF Next

\* LocalInv is inductive.
LEMMA LocalPreserved ==
    ASSUME IInv, LInv, LocalInv, LocalOnly, Next PROVE LocalInv'
<1>1. CASE Restart
  <2>1. \A c \in Callers : caller'[c].step = "idle"
        BY <1>1 DEF Restart, Idle
  <2>2. \A i \in Ids : ~Given(i)' /\ job'[i].status # "running"
        BY <1>1 DEF Restart, Given, Unknown
  <2>3. \A i \in Ids : InJobs(i)' => record'[i].status \in Terminal
        BY <1>1, RestoredRecords DEF LInv
  <2>4. QED
        BY <2>1, <2>2, <2>3 DEF LocalInv, Terminal
<1>2. CASE ~Restart
  <2>1. \A i \in Ids : (InJobs(i)' /\ Given(i)' /\ tracker'[i] = "none") => (record'[i].result # "none")
        BY <1>2, ResultBeforeLeave
  <2>2. \A c \in Callers : RequestLocal(c)'
        BY <1>2, OneCaller, RequestLocalStays, RequestLocalMoves
  <2>3. ASSUME NEW i \in Ids, InJobs(i)'
        PROVE  /\ record'[i].status \in Terminal => job'[i].status # "running"
               /\ (record'[i].status = "running") => (tracker'[i] # "none")
    <3>1. CASE InJobs(i)
          BY <1>2, <3>1, StatusIsTrue
    <3>2. CASE ~InJobs(i)
      <4>1. PICK c \in Callers : RecordJob(c) /\ i = caller[c].id
            BY <1>2, <2>3, <3>2, JobsGrow
      <4>2. record'[i] = [NoRecord EXCEPT !.backend = caller[c].backend, !.status = caller[c].value]
            BY <4>1, NewRecord
      <4>3. record'[i].status = caller[c].value /\ tracker'[i] = ResultNow(i) /\ job' = job
            BY <4>1, <4>2, NewRecord DEF NoRecord
      <4>4. caller[c].value \in Terminal => job[i].status \in Terminal
            BY <4>1 DEF LInv, CallersInv, CallerInv, RecordJob
      <4>5. QED
            BY <4>3, <4>4 DEF ResultNow, Terminal
    <3>3. QED
          BY <3>1, <3>2
  <2>4. QED
        BY <2>1, <2>2, <2>3 DEF LocalInv, RequestLocal
<1>3. QED
      BY <1>1, <1>2

-----------------------------------------------------------------------------
(* The invariants together, and the theorems *)

\* A new runtime satisfies all of them.
LEMMA InitLedger == ASSUME Init PROVE LInv /\ CountInv /\ FileInv /\ LocalInv
<1> USE DEF Init
<1>1. \A i : ~InJobs(i)
      BY DEF InJobs, ToSet
<1>2. CallersInv /\ TrackersInv /\ JobsInv
      BY DEF CallersInv, CallerInv, TrackersInv, TrackerInv, JobsInv, Idle, Unknown
<1>3. ResultInv /\ LedgerInv
      BY <1>1 DEF ResultInv, LedgerInv
<1>4. DistinctInv
      BY DEF DistinctInv, IsInjective
<1>5. CountInv
  <2>1. Timed = {} /\ \A s : Counted(s) = {}
        BY <1>1 DEF Timed, Counted, CountsAs, TookTime
  <2>2. QED
        BY <2>1, FS_EmptySet DEF CountInv, Zero
<1>6. FileInv
      BY <1>1 DEF FileInv
<1>7. LocalInv
      BY <1>1 DEF LocalInv, Idle
<1>8. QED
      BY <1>2, <1>3, <1>4, <1>5, <1>6, <1>7 DEF LInv

\* Every step keeps each, stuttering included.
LEMMA StepLedger == ASSUME IInv, LInv, [Next]_vars PROVE LInv'
<1>1. CASE Next
      BY <1>1, CallersPreserved, TrackersPreserved, JobsPreserved, ResultPreserved, LedgerPreserved,
         DistinctPreserved DEF LInv
<1>2. CASE UNCHANGED vars
      BY <1>2
      DEF vars, host, accounting, LInv, CallersInv, CallerInv, TrackersInv, TrackerInv, JobsInv, ResultInv, Due,
          Carries, LedgerInv, EntryInv, DistinctInv, InJobs, Given
<1>3. QED
      BY <1>1, <1>2

LEMMA StepCount == ASSUME IInv, LInv, CountInv, [Next]_vars PROVE CountInv'
<1>1. CASE UNCHANGED vars
  <2>1. Timed' = Timed /\ \A s \in Terminal : Counted(s)' = Counted(s)
        BY <1>1 DEF vars, accounting, Timed, Counted, CountsAs, TookTime, InJobs, Outcome
  <2>2. QED
        BY <1>1, <2>1 DEF vars, accounting, CountInv
<1>2. QED
      BY <1>1, CountPreserved

LEMMA StepFile == ASSUME IInv, IInv', LInv, FileInv, ~WritesFail, [Next]_vars PROVE FileInv'
<1>1. CASE UNCHANGED vars
      BY <1>1 DEF vars, host, accounting, FileInv, InFile, SavedAs, InJobs, Given
<1>2. QED
      BY <1>1, FilePreserved

LEMMA StepLocal == ASSUME IInv, LInv, LocalInv, LocalOnly, [Next]_vars PROVE LocalInv'
<1>1. CASE UNCHANGED vars
      BY <1>1 DEF vars, host, accounting, LocalInv, InJobs, Given
<1>2. QED
      BY <1>1, LocalPreserved

\* The invariant of this module.
LEMMA LedgerInvariant == Spec => [](IInv /\ LInv /\ CountInv)
<1>1. Init => IInv /\ LInv /\ CountInv
      BY InitIInv, InitLedger
<1>2. IInv /\ LInv /\ CountInv /\ [Next]_vars => (IInv /\ LInv /\ CountInv)'
      BY StepIInv, StepLedger, StepCount
<1>3. QED
      BY <1>1, <1>2, PTL DEF Spec

\* The budget snapshot of compute-runtime.ts adds up, with every backend and whatever
\* fails: each job is counted once, under the outcome it has, and its duration once,
\* although its tracker, result() and poll() race to apply it and a restart applies it
\* again.
THEOREM CountersAddUp == Spec => []CountersMatch
<1>1. IInv /\ LInv /\ CountInv => CountersMatch
  <2>1. SUFFICES ASSUME IInv, LInv, CountInv PROVE CountersMatch
        OBVIOUS
  <2>2. \A i : InJobs(i) => i \in Ids
        BY <2>1, KnownJobs
  <2>3. ASSUME NEW s
        PROVE  Counted(s) = {i \in ToSet(jobs) : record[i].accounted /\ Outcome(record[i]) = s}
        BY <2>2 DEF Counted, CountsAs, InJobs
  <2>4. Timed = {i \in ToSet(jobs) : record[i].result # "none" /\ record[i].backend = "local"}
        BY <2>2 DEF Timed, TookTime, InJobs
  <2>5. jobsSubmitted = Len(jobs) /\ IsInjective(jobs)
        BY <2>1 DEF IInv, BudgetShape, LInv, DistinctInv
  <2>6. QED
        BY <2>1, <2>3, <2>4, <2>5 DEF CountersMatch, CountInv
<1>2. QED
      BY <1>1, LedgerInvariant, PTL

\* As long as every write succeeds, the state file has every job of this process with
\* the result it was given, and the next process knows every id that submit() handed out.
THEOREM FileStaysCurrent == ASSUME ~WritesFail PROVE Spec => []FileIsCurrent
<1>1. Init => FileInv
      BY InitLedger
<1>2. IInv /\ IInv' /\ LInv /\ FileInv /\ [Next]_vars => FileInv'
      BY StepFile
<1>3. IInv /\ FileInv => FileIsCurrent
  <2>1. SUFFICES ASSUME IInv, FileInv PROVE FileIsCurrent
        OBVIOUS
  <2>2. \A i \in ToSet(jobs) : i \in Ids /\ InJobs(i)
        BY <2>1, KnownJobs DEF InJobs
  <2>3. QED
        BY <2>1, <2>2 DEF FileInv, FileIsCurrent, SavedAs, Given
<1>4. QED
      BY <1>1, <1>2, <1>3, LedgerInvariant, PTL DEF Spec

\* With the local backend alone a job is reported ended only when its process has been
\* ended, also by a cancel() or a dispose() that races a poll.
THEOREM EndsAreTrue == ASSUME LocalOnly PROVE Spec => []TerminalMeansEnded
<1>1. Init => LocalInv
      BY InitLedger
<1>2. IInv /\ LInv /\ LocalInv /\ [Next]_vars => LocalInv'
      BY StepLocal
<1>3. IInv /\ LocalInv => TerminalMeansEnded
  <2>1. SUFFICES ASSUME IInv, LocalInv, NEW i \in ToSet(jobs), record[i].status \in Terminal
                 PROVE  job[i].status \in Terminal \cup {"unknown"}
        BY DEF TerminalMeansEnded
  <2>2. InJobs(i) /\ i \in Ids
        BY <2>1, KnownJobs DEF InJobs
  <2>3. job[i].status # "running"
        BY <2>1, <2>2 DEF LocalInv
  <2>4. job[i].status \in Statuses \cup {"unknown"}
        BY <2>1, <2>2, JobTypes DEF BackendJobs
  <2>5. QED
        BY <2>3, <2>4 DEF Statuses
<1>4. QED
      BY <1>1, <1>2, <1>3, LedgerInvariant, PTL DEF Spec

\* With the local backend alone a job that takes a slot of the concurrency limit has a
\* tracker that will free it.
THEOREM SlotsAreTracked == ASSUME LocalOnly PROVE Spec => []NoGhosts
<1>1. Init => LocalInv
      BY InitLedger
<1>2. IInv /\ LInv /\ LocalInv /\ [Next]_vars => LocalInv'
      BY StepLocal
<1>3. IInv /\ LocalInv => NoGhosts
  <2>1. SUFFICES ASSUME IInv, LocalInv, NEW i \in Running PROVE tracker[i] # "none"
        BY DEF NoGhosts
  <2>2. InJobs(i) /\ i \in Ids /\ record[i].status = "running"
        BY <2>1, KnownJobs DEF InJobs, Running
  <2>3. QED
        BY <2>1, <2>2 DEF LocalInv
<1>4. QED
      BY <1>1, <1>2, <1>3, LedgerInvariant, PTL DEF Spec
=============================================================================
