--------------------------- MODULE ComputeRuntime ---------------------------
(***************************************************************************)
(* The compute runtime of packages/coding-agent (core/compute): admission  *)
(* of jobs, the local and the Kaggle backend, tracking of completion,      *)
(* accounting, the state file and its restoration after a restart.         *)
(*                                                                         *)
(* A host request (submit, result, poll, cancel) is a chain of segments    *)
(* between awaits, run by a caller.  All its awaits but the wait for a     *)
(* local job resume in microtasks: timers and process exits come only when *)
(* no such chain is under way (Quiet).  Several requests can be delivered  *)
(* in one tick, so calls start, and chains interleave, at any await.       *)
(***************************************************************************)
EXTENDS Integers, FiniteSets, SequencesExt

CONSTANTS
    Callers,         \* host requests that can be under way at the same time
    Backends,        \* the registered backends: "local", and "kaggle" if enabled
    MaxConcurrency, MaxJobs, \* limits of the runtime
    WritesFail,      \* whether a write of the state file may fail
    MaxIds,          \* bound: jobs ever given to a backend
    MaxRestarts      \* bound: restarts of the host process

ASSUME LimitsAssumption ==
    /\ MaxConcurrency \in Nat \ {0} /\ MaxJobs \in Nat \ {0}
    /\ MaxIds \in Nat /\ MaxRestarts \in Nat
ASSUME CallersAssumption == IsFiniteSet(Callers) /\ Callers # {}
ASSUME BackendsAssumption == "local" \in Backends /\ Backends \subseteq {"local", "kaggle"}
ASSUME WritesAssumption == WritesFail \in BOOLEAN

VARIABLES
    up, restarts,     \* the host process
    signal, disposed, \* options.signal fired; dispose() was called
    issued,           \* jobs given to a backend so far: ids are 1..issued
    job,              \* the backend's job: status, whether its process (or push
                      \* loop) lives, whether that process was killed
    jobs,             \* this.jobs: job ids in insertion order
    record,           \* ... and the record of each
    jobsSubmitted, counts, totalDurationMs,
    tracker,          \* _trackCompletion of each job
    caller,           \* the request each caller is in
    disk,             \* the jobs of the state file
    returned          \* history: ids that submit() handed out before dispose()

host       == <<up, restarts, signal, disposed>>
accounting == <<counts, totalDurationMs>>
vars == <<host, issued, job, jobs, record, jobsSubmitted, accounting, tracker, caller, disk, returned>>

Ids      == 1..MaxIds
Terminal == {"completed", "failed", "cancelled"}
Unknown  == [backend |-> "local", status |-> "unknown", live |-> FALSE, killed |-> FALSE]
NoRecord == [backend |-> "local", status |-> "none", result |-> "none", accounted |-> FALSE]
Idle     == [step |-> "idle", id |-> 0, backend |-> "local", value |-> "none"]
Zero     == [s \in Terminal |-> 0]

Init ==
    /\ up = TRUE /\ restarts = 0 /\ signal = FALSE /\ disposed = FALSE
    /\ issued = 0 /\ job = [i \in Ids |-> Unknown]
    /\ jobs = <<>> /\ record = [i \in Ids |-> NoRecord]
    /\ jobsSubmitted = 0 /\ counts = Zero /\ totalDurationMs = 0
    /\ tracker = [i \in Ids |-> "none"]
    /\ caller = [c \in Callers |-> Idle]
    /\ disk = <<>> /\ returned = {}

Micro(c) == caller[c].step \notin {"idle", "waiting"}
Quiet    == up /\ (\A c \in Callers : ~Micro(c)) /\ \A i \in Ids : tracker[i] \in {"none", "waiting"}

\* _runningJobCount
Running == {i \in ToSet(jobs) : record[i].status = "running"}

-----------------------------------------------------------------------------
(* The state file *)

Entry(i, r) == [id |-> i, backend |-> r.backend, status |-> r.status, result |-> r.result]

\* _persist, after the jobs and records of this step: nothing once disposed, and
\* a failed write leaves the old file.
Persist ==
    \/ ~disposed /\ disk' = [k \in 1..Len(jobs') |-> Entry(jobs'[k], record'[jobs'[k]])]
    \/ (disposed \/ WritesFail) /\ UNCHANGED disk

\* The durationMs of a result: a local job lasts one unit of time, the Kaggle backend
\* reports 0.
DurationMs(backend) == IF backend = "local" THEN 1 ELSE 0

\* Mutants: a result is counted every time it is applied; it is not saved.
ApplyResultAgain(i, status) ==
    /\ record' = [record EXCEPT ![i].result = status, ![i].status = status, ![i].accounted = TRUE]
    /\ counts' = [counts EXCEPT ![status] = @ + 1]
    /\ totalDurationMs' = totalDurationMs + DurationMs(record[i].backend)
    /\ UNCHANGED jobs
    /\ Persist

ApplyResultUnsaved(i, status) ==
    /\ record' = [record EXCEPT ![i].result = status, ![i].status = status, ![i].accounted = TRUE]
    /\ counts' = [counts EXCEPT ![status] = @ + 1]
    /\ totalDurationMs' = totalDurationMs + DurationMs(record[i].backend)
    /\ UNCHANGED <<jobs, disk>>

\* _applyResult: the first result of a job is accounted, every one is recorded.
ApplyResult(i, status) ==
    /\ record' = [record EXCEPT ![i].result = status, ![i].status = status, ![i].accounted = TRUE]
    /\ IF record[i].accounted
       THEN UNCHANGED accounting
       ELSE /\ counts' = [counts EXCEPT ![status] = @ + 1]
            /\ totalDurationMs' = totalDurationMs + DurationMs(record[i].backend)
    /\ UNCHANGED jobs
    /\ Persist

-----------------------------------------------------------------------------
(* submit *)

Become(c, state) == caller' = [caller EXCEPT ![c] = state]
Free(c) == up /\ caller[c] = Idle

\* Mutant: maxJobs is not checked.
SubmitUnchecked(c, b) ==
    /\ Free(c) /\ ~signal
    /\ Cardinality(Running) < MaxConcurrency
    /\ Become(c, [Idle EXCEPT !.step = "available", !.backend = b])
    /\ UNCHANGED <<host, issued, job, jobs, record, jobsSubmitted, accounting, tracker, disk, returned>>

\* The checks before the first await.  A rejected call changes nothing.
Submit(c, b) ==
    /\ Free(c) /\ ~signal
    /\ jobsSubmitted < MaxJobs /\ Cardinality(Running) < MaxConcurrency
    /\ Become(c, [Idle EXCEPT !.step = "available", !.backend = b])
    /\ UNCHANGED <<host, issued, job, jobs, record, jobsSubmitted, accounting, tracker, disk, returned>>

\* Mutant: _start does not look at the signal.
BackendSubmitThoughAborted(c) ==
    /\ up /\ caller[c].step = "available" /\ issued < MaxIds
    /\ issued' = issued + 1
    /\ job' = [job EXCEPT ![issued + 1] = [backend |-> caller[c].backend, status |-> "running",
                                           live |-> TRUE, killed |-> FALSE]]
    /\ Become(c, [caller[c] EXCEPT !.step = "submitted", !.id = issued + 1, !.value = "running"])
    /\ UNCHANGED <<host, jobs, record, jobsSubmitted, accounting, tracker, disk, returned>>

\* backend.submit starts the job before it returns: _start / _push run up to the
\* spawned process or the pushed kernel, or mark the job failed.
BackendSubmit(c) ==
    LET Start(status) ==
            /\ issued < MaxIds /\ issued' = issued + 1
            /\ job' = [job EXCEPT ![issued + 1] =
                          [backend |-> caller[c].backend, status |-> status,
                           live |-> status = "running", killed |-> FALSE]]
            /\ Become(c, [caller[c] EXCEPT !.step = "submitted", !.id = issued + 1, !.value = status])
    IN  /\ up /\ caller[c].step = "available"
        /\ \/ ~signal /\ Start("running")
           \/ (caller[c].backend = "local" \/ ~signal) /\ Start("failed")
           \/ Become(c, Idle) /\ UNCHANGED <<issued, job>>  \* unavailable, or no worktree
        /\ UNCHANGED <<host, jobs, record, jobsSubmitted, accounting, tracker, disk, returned>>

\* backend.result: the local backend waits for the job, Kaggle's rejects.
ResultNow(i) ==
    IF job[i].status \in Terminal THEN job[i].status
    ELSE IF job[i].backend = "local" THEN "waiting" ELSE "rejected"

\* Mutant: _trackCompletion is not called.
RecordUntracked(c) ==
    LET i == caller[c].id
    IN  /\ up /\ caller[c].step = "submitted"
        /\ jobs' = Append(jobs, i)
        /\ record' = [record EXCEPT ![i] = [NoRecord EXCEPT !.backend = caller[c].backend,
                                                            !.status = caller[c].value]]
        /\ jobsSubmitted' = jobsSubmitted + 1
        /\ Persist
        /\ Become(c, Idle)
        /\ returned' = returned \cup {i}
        /\ UNCHANGED <<host, issued, job, accounting, tracker>>

\* The record is made from the submission, counted and saved; tracking begins.
RecordJob(c) ==
    LET i == caller[c].id
    IN  /\ up /\ caller[c].step = "submitted"
        /\ jobs' = Append(jobs, i)
        /\ record' = [record EXCEPT ![i] = [NoRecord EXCEPT !.backend = caller[c].backend,
                                                            !.status = caller[c].value]]
        /\ jobsSubmitted' = jobsSubmitted + 1
        /\ Persist
        /\ tracker' = [tracker EXCEPT ![i] = ResultNow(i)]
        /\ Become(c, Idle)
        /\ returned' = IF disposed THEN returned ELSE returned \cup {i}
        /\ UNCHANGED <<host, issued, job, accounting>>

-----------------------------------------------------------------------------
(* Completion: _trackCompletion, result, poll *)

TrackerWakes(i) ==
    /\ Quiet /\ tracker[i] = "waiting" /\ job[i].status \in Terminal
    /\ ApplyResult(i, job[i].status)
    /\ tracker' = [tracker EXCEPT ![i] = "none"]
    /\ UNCHANGED <<host, issued, job, jobsSubmitted, caller, returned>>

\* The result was there when tracking began, or backend.result rejected.
TrackerSettles(i) ==
    /\ up
    /\ \/ tracker[i] \in Terminal /\ ApplyResult(i, tracker[i])
       \/ /\ tracker[i] = "rejected"
          /\ record' = [record EXCEPT ![i].status = "failed"]
          /\ UNCHANGED <<jobs, accounting>>
          /\ Persist
    /\ tracker' = [tracker EXCEPT ![i] = "none"]
    /\ UNCHANGED <<host, issued, job, jobsSubmitted, caller, returned>>

\* Mutant: the backend is not asked whether it has the job (_requireJob).
KnownToRuntime(i) == i \in ToSet(jobs) /\ record[i].result = "none"

\* The runtime has the job without a result, and so has the backend: otherwise
\* result() and poll() return or throw at once.
Known(i) == i \in ToSet(jobs) /\ record[i].result = "none" /\ job[i].status # "unknown"

Result(c, i) ==
    LET r == ResultNow(i)
    IN  /\ Free(c) /\ Known(i) /\ r # "rejected"
        /\ Become(c, [Idle EXCEPT !.step = IF r = "waiting" THEN "waiting" ELSE "applying",
                                  !.id = i, !.value = r])
        /\ UNCHANGED <<host, issued, job, jobs, record, jobsSubmitted, accounting, tracker, disk, returned>>

\* The wait of a local result() ends.
ResultWakes(c) ==
    /\ Quiet /\ caller[c].step = "waiting" /\ job[caller[c].id].status \in Terminal
    /\ ApplyResult(caller[c].id, job[caller[c].id].status)
    /\ Become(c, Idle)
    /\ UNCHANGED <<host, issued, job, jobsSubmitted, tracker, returned>>

\* backend.status is read now, the record written after the await.
Poll(c, i) ==
    /\ Free(c) /\ Known(i)
    /\ Become(c, [Idle EXCEPT !.step = "snapshot", !.id = i, !.value = job[i].status])
    /\ UNCHANGED <<host, issued, job, jobs, record, jobsSubmitted, accounting, tracker, disk, returned>>

PollSnapshot(c) ==
    LET i == caller[c].id
    IN  /\ up /\ caller[c].step = "snapshot"
        /\ record' = [record EXCEPT ![i].status = caller[c].value]
        /\ Become(c, IF caller[c].value \in Terminal
                     THEN [caller[c] EXCEPT !.step = "applying", !.value = job[i].status]
                     ELSE Idle)
        /\ UNCHANGED <<host, issued, job, jobs, jobsSubmitted, accounting, tracker, disk, returned>>

\* A result obtained without waiting is applied: the end of result() and poll().
Apply(c) ==
    /\ up /\ caller[c].step = "applying"
    /\ ApplyResult(caller[c].id, caller[c].value)
    /\ Become(c, Idle)
    /\ UNCHANGED <<host, issued, job, jobsSubmitted, tracker, returned>>

-----------------------------------------------------------------------------
(* cancel and dispose *)

\* LocalComputeBackend.cancel and dispose: kill the process, mark the job.
Kill(j) == [j EXCEPT !.status = "cancelled", !.killed = TRUE]

\* Mutant: cancel() does not reach the backend.
CancelInName(c, i) ==
    /\ Free(c) /\ i \in ToSet(jobs) /\ record[i].status = "running"
    /\ Become(c, [Idle EXCEPT !.step = "cancelling", !.id = i])
    /\ UNCHANGED <<host, issued, job, jobs, record, jobsSubmitted, accounting, tracker, disk, returned>>

Cancel(c, i) ==
    /\ Free(c) /\ i \in ToSet(jobs) /\ record[i].status = "running"
    /\ job' = IF job[i].status # "running" THEN job
              ELSE [job EXCEPT ![i] = IF job[i].backend = "local" THEN Kill(@)
                                      ELSE [@ EXCEPT !.status = "failed"]]
    /\ Become(c, [Idle EXCEPT !.step = "cancelling", !.id = i])
    /\ UNCHANGED <<host, issued, jobs, record, jobsSubmitted, accounting, tracker, disk, returned>>

CancelRecord(c) ==
    /\ up /\ caller[c].step = "cancelling"
    /\ record' = [record EXCEPT ![caller[c].id].status = "cancelled"]
    /\ UNCHANGED jobs
    /\ Persist
    /\ Become(c, Idle)
    /\ UNCHANGED <<host, issued, job, jobsSubmitted, accounting, tracker, returned>>

\* The session's dispose callback: the signal fires, then dispose().  The Kaggle
\* backend has no dispose.
Dispose ==
    /\ up /\ ~disposed
    /\ signal' = TRUE /\ disposed' = TRUE
    /\ job' = [i \in Ids |-> IF job[i].status = "running" /\ job[i].backend = "local"
                             THEN Kill(job[i]) ELSE job[i]]
    /\ record' = [i \in Ids |-> IF i \in Running THEN [record[i] EXCEPT !.status = "cancelled"]
                                ELSE record[i]]
    /\ UNCHANGED jobs
    /\ Persist
    /\ UNCHANGED <<up, restarts, issued, jobsSubmitted, accounting, tracker, caller, returned>>

-----------------------------------------------------------------------------
(* The environment: processes end, the host stops and starts again *)

\* finish() of a local job keeps "cancelled".  Kaggle's push loop ends with the
\* state of the kernel whatever became of the job meanwhile.
JobEnds(i) ==
    /\ Quiet /\ job[i].live
    /\ \E status \in {"completed", "failed"} :
          job' = [job EXCEPT ![i].live = FALSE,
                             ![i].status = IF @ = "cancelled" THEN @ ELSE status]
    /\ UNCHANGED <<host, issued, jobs, record, jobsSubmitted, accounting, tracker, caller, disk, returned>>

Crash ==
    /\ up /\ restarts < MaxRestarts
    /\ up' = FALSE
    /\ UNCHANGED <<restarts, signal, disposed, issued, job, jobs, record, jobsSubmitted, accounting,
                   tracker, caller, disk, returned>>

\* Mutant: jobs that were in flight are restored as they were.
RestoredAsIs(e) == [NoRecord EXCEPT !.backend = e.backend, !.status = e.status,
                                    !.result = e.result, !.accounted = TRUE]

\* _restore, entry by entry: a job that was in flight is failed, and a job with a
\* result goes through _applyResult, which saves the entries restored so far.
Restored(e) == [NoRecord EXCEPT !.backend = e.backend,
                                !.status = IF e.status = "running" THEN "failed" ELSE e.status,
                                !.result = e.result, !.accounted = TRUE]
Outcome(r)  == IF r.result # "none" THEN r.result ELSE r.status

Restore ==
    LET recs == [k \in DOMAIN disk |->
                    LET r == Restored(disk[k]) IN [r EXCEPT !.status = Outcome(r)]]
        saves == {k \in DOMAIN disk : disk[k].result # "none"}
        File(k) == [n \in 1..k |-> Entry(disk[n].id, recs[n])]
    IN  /\ jobs' = [k \in DOMAIN disk |-> disk[k].id]
        /\ record' = [i \in Ids |-> IF \E k \in DOMAIN disk : disk[k].id = i
                                    THEN recs[CHOOSE k \in DOMAIN disk : disk[k].id = i]
                                    ELSE NoRecord]
        /\ jobsSubmitted' = Len(disk)
        /\ totalDurationMs' = Cardinality({k \in saves : disk[k].backend = "local"})
        /\ counts' = [s \in Terminal |-> Cardinality({k \in DOMAIN disk : recs[k].status = s})]
        /\ \/ \E k \in saves : /\ WritesFail \/ \A n \in saves : n <= k
                               /\ disk' = File(k)
           \/ (saves = {} \/ WritesFail) /\ UNCHANGED disk

\* A new process constructs the runtime over the same state file.
Restart ==
    /\ ~up /\ up' = TRUE /\ restarts' = restarts + 1
    /\ signal' = FALSE /\ disposed' = FALSE
    /\ job' = [i \in Ids |-> Unknown] /\ tracker' = [i \in Ids |-> "none"]
    /\ caller' = [c \in Callers |-> Idle]
    /\ Restore
    /\ UNCHANGED <<issued, returned>>

-----------------------------------------------------------------------------
Request(c) ==
    \/ \E b \in Backends : Submit(c, b)
    \/ \E i \in Ids : Result(c, i) \/ Poll(c, i) \/ Cancel(c, i)

Segment(c) == BackendSubmit(c) \/ RecordJob(c) \/ PollSnapshot(c) \/ Apply(c) \/ CancelRecord(c)
              \/ ResultWakes(c)
Tracking(i) == TrackerWakes(i) \/ TrackerSettles(i)

Next == \/ \E c \in Callers : Request(c) \/ Segment(c)
        \/ \E i \in Ids : Tracking(i) \/ JobEnds(i)
        \/ Dispose \/ Crash \/ Restart

\* Microtasks run.  Requests are delivered by the event loop, so the microtask queue
\* drains again and again; the loop then serves due timers and exited processes, and
\* a local job ends, at the latest when its timer kills it.
Fairness == /\ \A c \in Callers : WF_vars(Segment(c))
            /\ []<>(Quiet \/ ~up)
            /\ \A i \in Ids : /\ SF_vars(Tracking(i))
                              /\ SF_vars(job[i].backend = "local" /\ JobEnds(i))

Spec == Init /\ [][Next]_vars /\ Fairness

-----------------------------------------------------------------------------
(* Properties *)

Steps == {"idle", "available", "submitted", "waiting", "snapshot", "applying", "cancelling"}
Statuses == Terminal \cup {"running"}

BackendJobs == [backend : Backends, status : Statuses \cup {"unknown"}, live : BOOLEAN, killed : BOOLEAN]
Records  == [backend : Backends, status : Statuses \cup {"none"}, result : Terminal \cup {"none"},
             accounted : BOOLEAN]
Requests == [step : Steps, id : 0..MaxIds, backend : Backends, value : Statuses \cup {"none", "waiting"}]
Entries  == [id : Ids, backend : Backends, status : Statuses, result : Terminal \cup {"none"}]

HostOK ==
    /\ up \in BOOLEAN /\ signal \in BOOLEAN /\ disposed \in BOOLEAN
    /\ restarts \in 0..MaxRestarts /\ (~up => restarts < MaxRestarts)

BackendOK ==
    /\ issued \in 0..MaxIds /\ returned \subseteq 1..issued
    /\ job \in [Ids -> BackendJobs]

RecordsOK ==
    /\ jobs \in Seq(Ids) /\ jobsSubmitted \in Nat /\ totalDurationMs \in Nat
    /\ counts \in [Terminal -> Nat]
    /\ record \in [Ids -> Records]
    /\ tracker \in [Ids -> Terminal \cup {"none", "waiting", "rejected"}]
    /\ disk \in Seq(Entries)

CallersOK == caller \in [Callers -> Requests]

\* The host, the backends' jobs, the runtime's records and the requests under way
\* have their types.
TypeOK == HostOK /\ BackendOK /\ RecordsOK /\ CallersOK

\* The budget snapshot adds up: every job is counted once, under the outcome it
\* has, and its duration once, although its tracker, result(), poll() and a restart
\* may each apply it.
CountersMatch ==
    /\ jobsSubmitted = Len(jobs) /\ IsInjective(jobs)
    /\ \A s \in Terminal :
          counts[s] = Cardinality({i \in ToSet(jobs) : record[i].accounted /\ Outcome(record[i]) = s})
    /\ totalDurationMs = Cardinality({i \in ToSet(jobs) :
                                       record[i].result # "none" /\ record[i].backend = "local"})

\* A job is reported ended only when its backend has ended it.
TerminalMeansEnded ==
    up => \A i \in ToSet(jobs) :
            record[i].status \in Terminal => job[i].status \in Terminal \cup {"unknown"}

\* A job that takes a slot of the concurrency limit has a tracker that will free it;
\* a restored runtime never counts a job of its predecessor as running.
NoGhosts == up => \A i \in Running : tracker[i] # "none"

\* Once the session shuts down no local process is left running that was not killed,
\* also when the submission was between its checks and its start.
DisposeKills ==
    up /\ signal => \A i \in Ids : job[i].backend = "local" /\ job[i].live => job[i].killed

\* The state file has every job of this process, with the result a caller was given,
\* and the next process knows every job that was handed out.  (The one after it may
\* not: _restore saves the jobs restored so far, and the rest are not saved again
\* before the next submission.)
FileIsCurrent ==
    /\ up /\ ~disposed => \A i \in ToSet(jobs) : job[i].status # "unknown" =>
          \E k \in DOMAIN disk : disk[k].id = i /\ disk[k].result = record[i].result
    /\ up /\ restarts <= 1 /\ ~WritesFail => returned \subseteq ToSet(jobs)

InFlight == {c \in Callers : caller[c].step \in {"available", "submitted"}}

\* maxJobs can be exceeded, by at most the other submissions in flight.
JobBudget == jobsSubmitted + Cardinality(InFlight) <= MaxJobs + Cardinality(Callers) - 1

\* Every recorded job is accounted in the end, and its status is the one of its
\* result, unless the host stops first.
EveryJobSettles ==
    \A i \in Ids : record[i].status # "none" ~>
        ~up \/ (record[i].accounted /\ record[i].status = Outcome(record[i]))

=============================================================================
