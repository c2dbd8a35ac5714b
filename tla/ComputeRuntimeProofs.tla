------------------------ MODULE ComputeRuntimeProofs ------------------------
(***************************************************************************)
(* Proofs about ComputeRuntime for every value of its constants.           *)
(***************************************************************************)
EXTENDS ComputeRuntime, FiniteSetTheorems, TLAPS

\* What a request under way has in hand: an id a backend gave out, a status it read.
\* A snapshot that says the job has ended stays true until the request goes on.
CallerShape ==
    \A c \in Callers :
        /\ caller[c].step \in {"submitted", "waiting", "snapshot", "applying", "cancelling"} =>
              caller[c].id \in 1..issued
        /\ caller[c].step \in {"submitted", "snapshot"} => caller[c].value \in Statuses
        /\ caller[c].step = "applying" => caller[c].value \in Terminal
        /\ caller[c].step = "snapshot" /\ caller[c].value \in Terminal =>
              job[caller[c].id].status \in Terminal

\* The runtime and the state file hold only jobs that were given out, with a record.
JobsShape ==
    /\ \A k \in DOMAIN jobs : jobs[k] \in 1..issued /\ record[jobs[k]].status \in Statuses
    /\ \A k \in DOMAIN disk : disk[k].id \in 1..issued

\* A local process that lives runs its job, or has been killed.
ProcessShape ==
    /\ \A i \in Ids : job[i].backend = "local" /\ job[i].live =>
          job[i].status = "running" \/ job[i].killed
    /\ DisposeKills

Slack == MaxJobs + Cardinality(Callers) - 1

\* The job counter counts the records, and what the state file can bring back stays
\* within the same bound: that carries JobBudget over a restart.
BudgetShape == jobsSubmitted = Len(jobs) /\ Len(disk) <= Slack /\ JobBudget

IInv == TypeOK /\ CallerShape /\ JobsShape /\ ProcessShape /\ BudgetShape

-----------------------------------------------------------------------------
(* Submissions in flight *)

\* The submissions in flight are finitely many, at most all callers.
LEMMA InFlightFinite ==
    /\ IsFiniteSet(InFlight) /\ Cardinality(InFlight) \in Nat
    /\ Cardinality(InFlight) <= Cardinality(Callers)
    /\ Cardinality(Callers) \in Nat
<1>1. InFlight \in SUBSET Callers
  BY DEF InFlight
<1> QED
  BY <1>1, CallersAssumption, FS_Subset, FS_CardinalityType

\* There is a caller.
LEMMA SomeCaller == Cardinality(Callers) >= 1
  BY CallersAssumption, FS_EmptySet, FS_CardinalityType

\* The same at the next state: a caller that goes on leaves the count alone, lowers
\* or raises it by one.
LEMMA InFlightStep ==
    ASSUME NEW c \in Callers, NEW state, CallersOK, Become(c, state)
    PROVE  /\ Cardinality(InFlight') \in Nat /\ Cardinality(InFlight') <= Cardinality(Callers)
           /\ state.step \notin {"available", "submitted"} /\ c \notin InFlight =>
                 Cardinality(InFlight') = Cardinality(InFlight)
           /\ state.step \notin {"available", "submitted"} /\ c \in InFlight =>
                 Cardinality(InFlight') = Cardinality(InFlight) - 1
           /\ state.step \in {"available", "submitted"} /\ c \in InFlight =>
                 Cardinality(InFlight') = Cardinality(InFlight)
<1>1. InFlight' = IF state.step \in {"available", "submitted"}
                  THEN InFlight \cup {c} ELSE InFlight \ {c}
  BY DEF InFlight, Become, CallersOK
<1>2. InFlight' \in SUBSET Callers
  BY DEF InFlight
<1>3. Cardinality(InFlight') \in Nat /\ Cardinality(InFlight') <= Cardinality(Callers)
  BY <1>2, CallersAssumption, FS_Subset, FS_CardinalityType
<1>4. c \in InFlight => InFlight \cup {c} = InFlight
  OBVIOUS
<1>5. c \notin InFlight => InFlight \ {c} = InFlight
  OBVIOUS
<1> QED
  BY <1>1, <1>3, <1>4, <1>5, InFlightFinite, FS_RemoveElement

-----------------------------------------------------------------------------
(* The state file *)

\* _persist writes one well-formed entry per record, or leaves the file alone.
LEMMA PersistTyped ==
    ASSUME Persist, disk \in Seq(Entries), jobs' \in Seq(Ids),
           record' \in [Ids -> Records],
           \A k \in DOMAIN jobs' : record'[jobs'[k]].status \in Statuses
    PROVE  /\ disk' \in Seq(Entries)
           /\ \/ disk' = disk
              \/ Len(disk') = Len(jobs') /\ \A k \in DOMAIN disk' : disk'[k].id = jobs'[k]
<1>1. CASE disk' = disk
  BY <1>1
<1>2. CASE disk' = [k \in 1..Len(jobs') |-> Entry(jobs'[k], record'[jobs'[k]])]
  <2>1. \A k \in 1..Len(jobs') : Entry(jobs'[k], record'[jobs'[k]]) \in Entries
    BY DEF Entry, Entries, Records
  <2>2. disk' \in Seq(Entries) /\ Len(disk') = Len(jobs')
    BY <1>2, <2>1
  <2>3. \A k \in DOMAIN disk' : disk'[k].id = jobs'[k]
    BY <1>2 DEF Entry
  <2> QED
    BY <2>2, <2>3
<1> QED
  BY <1>1, <1>2 DEF Persist

\* The records, and with the saved file also what a restart brings back, fit the bound.
LEMMA WithinSlack ==
    ASSUME RecordsOK, BudgetShape
    PROVE  Slack \in Int /\ Len(jobs) <= Slack /\ Len(disk) <= Slack
  BY LimitsAssumption, InFlightFinite DEF BudgetShape, JobBudget, Slack, RecordsOK

\* A step that rewrites records of known jobs and saves them keeps jobs and file in shape.
LEMMA SaveKeeps ==
    ASSUME RecordsOK, JobsShape, BudgetShape, Persist, jobs' = jobs, issued' = issued,
           record' \in [Ids -> Records],
           \A k \in DOMAIN jobs : record'[jobs[k]].status \in Statuses
    PROVE  disk' \in Seq(Entries) /\ JobsShape' /\ Len(disk') <= Slack
<1>1. jobs' \in Seq(Ids) /\ disk \in Seq(Entries)
  BY DEF RecordsOK
<1>2. /\ disk' \in Seq(Entries)
      /\ \/ disk' = disk
         \/ Len(disk') = Len(jobs') /\ \A k \in DOMAIN disk' : disk'[k].id = jobs'[k]
  BY <1>1, PersistTyped
<1>3. Len(disk') <= Slack
  BY <1>2, WithinSlack
<1>4. CASE disk' = disk
  BY <1>2, <1>3, <1>4 DEF JobsShape
<1>5. CASE Len(disk') = Len(jobs') /\ \A k \in DOMAIN disk' : disk'[k].id = jobs'[k]
  <2>1. DOMAIN disk' = DOMAIN jobs'
    BY <1>1, <1>2, <1>5
  <2> QED
    BY <1>2, <1>3, <1>5, <2>1 DEF JobsShape
<1> QED
  BY <1>2, <1>4, <1>5

\* A record that is given another status stays a record.
LEMMA RecordMarked ==
    ASSUME NEW r \in Records, NEW s \in Statuses
    PROVE  [r EXCEPT !.status = s] \in Records /\ [r EXCEPT !.status = s].status = s
  BY DEF Records

\* So does one that is given a result (_applyResult).
LEMMA RecordApplied ==
    ASSUME NEW r \in Records, NEW s \in Terminal
    PROVE  LET new == [r EXCEPT !.result = s, !.status = s, !.accounted = TRUE]
           IN  new \in Records /\ new.status = s
  BY DEF Records, Statuses

\* _applyResult keeps the records well typed, and jobs and file in shape.
LEMMA ApplyKeeps ==
    ASSUME RecordsOK, JobsShape, BudgetShape, issued' = issued,
           NEW i \in Ids, NEW s \in Terminal, ApplyResult(i, s)
    PROVE  /\ record' \in [Ids -> Records] /\ jobs' = jobs /\ disk' \in Seq(Entries)
           /\ counts' \in [Terminal -> Nat] /\ totalDurationMs' \in Nat
           /\ JobsShape' /\ Len(disk') <= Slack
<1> DEFINE new == [record[i] EXCEPT !.result = s, !.status = s, !.accounted = TRUE]
<1>0. record[i] \in Records /\ record' = [record EXCEPT ![i] = new]
  BY DEF ApplyResult, RecordsOK
<1>a. new \in Records /\ new.status = s
  BY <1>0, RecordApplied
<1> HIDE DEF new
<1>1. record' \in [Ids -> Records]
  BY <1>0, <1>a DEF RecordsOK
<1>2. \A k \in DOMAIN jobs : record'[jobs[k]].status \in Statuses
  BY <1>0, <1>a DEF RecordsOK, Statuses, JobsShape
<1>3. counts' \in [Terminal -> Nat] /\ totalDurationMs' \in Nat
  <2>1. DurationMs(record[i].backend) \in Nat
    BY DEF DurationMs
  <2>2. CASE record[i].accounted
    BY <2>2 DEF ApplyResult, RecordsOK, accounting
  <2>3. CASE ~record[i].accounted
    BY <2>1, <2>3 DEF ApplyResult, RecordsOK
  <2> QED
    BY <2>2, <2>3
<1> QED
  BY <1>1, <1>2, <1>3, SaveKeeps DEF ApplyResult

\* Recording the end of a job without a result does so, too.
LEMMA MarkKeeps ==
    ASSUME RecordsOK, JobsShape, BudgetShape, issued' = issued, jobs' = jobs, Persist,
           NEW i \in Ids, NEW s \in Terminal, record' = [record EXCEPT ![i].status = s]
    PROVE  record' \in [Ids -> Records] /\ disk' \in Seq(Entries) /\ JobsShape' /\ Len(disk') <= Slack
<1>1. record' \in [Ids -> Records]
  BY DEF RecordsOK, Records, Statuses
<1>2. \A k \in DOMAIN jobs : record'[jobs[k]].status \in Statuses
  BY DEF RecordsOK, Records, Statuses, JobsShape
<1> QED
  BY <1>1, <1>2, SaveKeeps

-----------------------------------------------------------------------------
(* Requests *)

\* The states a request goes through have their type.
LEMMA RequestMoves ==
    ASSUME NEW r \in Requests, NEW step \in Steps, NEW i \in Ids,
           NEW v \in Statuses \cup {"none", "waiting"}
    PROVE  LET new == [r EXCEPT !.step = step, !.id = i, !.value = v]
           IN  new \in Requests /\ new.step = step /\ new.id = i /\ new.value = v
<1>1. i \in 0..MaxIds
  BY LimitsAssumption DEF Ids
<1>2. ASSUME NEW I, NEW V, i \in I, v \in V, r \in [step : Steps, id : I, backend : Backends, value : V]
      PROVE  LET new == [r EXCEPT !.step = step, !.id = i, !.value = v]
             IN  /\ new \in [step : Steps, id : I, backend : Backends, value : V]
                 /\ new.step = step /\ new.id = i /\ new.value = v
  BY <1>2
<1> QED
  BY <1>1, <1>2 DEF Requests

\* The same for cancel(), which has no value in hand.
LEMMA RequestCancels ==
    ASSUME NEW r \in Requests, NEW step \in Steps, NEW i \in Ids
    PROVE  [r EXCEPT !.step = step, !.id = i] \in Requests
<1>1. i \in 0..MaxIds
  BY LimitsAssumption DEF Ids
<1>2. ASSUME NEW I, NEW V, i \in I, r \in [step : Steps, id : I, backend : Backends, value : V]
      PROVE  [r EXCEPT !.step = step, !.id = i] \in [step : Steps, id : I, backend : Backends, value : V]
  BY <1>2
<1> QED
  BY <1>1, <1>2 DEF Requests

\* A caller without a request has its type.
LEMMA IdleTyped == Idle \in Requests
  BY LimitsAssumption, BackendsAssumption DEF Idle, Requests, Steps

\* A request goes on to a well-formed state.
LEMMA BecomeTyped ==
    ASSUME CallersOK, NEW c \in Callers, NEW state \in Requests, Become(c, state)
    PROVE  CallersOK'
  BY DEF CallersOK, Become

\* What a request has in hand stays true while jobs only end.
LEMMA BecomeShaped ==
    ASSUME CallersOK, CallerShape, issued \in Nat, issued' \in Nat, issued <= issued',
           NEW c \in Callers, NEW state \in Requests, Become(c, state),
           \A i \in 1..issued : job[i].status \in Terminal => job'[i].status \in Terminal,
           state.step \in {"submitted", "waiting", "snapshot", "applying", "cancelling"} =>
              state.id \in 1..issued',
           state.step \in {"submitted", "snapshot"} => state.value \in Statuses,
           state.step = "applying" => state.value \in Terminal,
           state.step = "snapshot" /\ state.value \in Terminal => job'[state.id].status \in Terminal
    PROVE  CallerShape'
<1> SUFFICES ASSUME NEW d \in Callers
    PROVE  (/\ caller[d].step \in {"submitted", "waiting", "snapshot", "applying", "cancelling"} =>
                  caller[d].id \in 1..issued
            /\ caller[d].step \in {"submitted", "snapshot"} => caller[d].value \in Statuses
            /\ caller[d].step = "applying" => caller[d].value \in Terminal
            /\ caller[d].step = "snapshot" /\ caller[d].value \in Terminal =>
                  job[caller[d].id].status \in Terminal)'
  BY DEF CallerShape
<1>1. CASE d = c
  <2>1. caller'[d] = state
    BY <1>1 DEF Become, CallersOK
  <2> QED
    BY <2>1
<1>2. CASE d # c
  <2>1. caller'[d] = caller[d]
    BY <1>2 DEF Become, CallersOK
  <2> QED
    BY <2>1 DEF CallerShape
<1> QED
  BY <1>1, <1>2

-----------------------------------------------------------------------------
(* IInv is inductive *)

\* IInv holds of a new runtime.
LEMMA InitIInv == Init => IInv
<1> SUFFICES ASSUME Init PROVE IInv
  OBVIOUS
<1> USE DEF Init
<1>1. HostOK
  <2>1. restarts \in 0..MaxRestarts
    BY LimitsAssumption
  <2> QED
    BY <2>1 DEF HostOK
<1>2. BackendOK
  BY LimitsAssumption, BackendsAssumption DEF BackendOK, BackendJobs, Unknown, Ids
<1>3. RecordsOK
  BY BackendsAssumption DEF RecordsOK, Records, NoRecord, Zero, Terminal, Statuses
<1>4. CallersOK
  BY LimitsAssumption, BackendsAssumption DEF CallersOK, Requests, Idle, Steps
<1>5. CallerShape /\ JobsShape
  BY DEF CallerShape, JobsShape, Idle
<1>6. ProcessShape
  BY DEF ProcessShape, DisposeKills, Unknown
<1>7. InFlight = {}
  BY DEF InFlight, Idle
<1>8. BudgetShape
  BY <1>7, LimitsAssumption, SomeCaller, InFlightFinite, FS_EmptySet
     DEF BudgetShape, JobBudget, Slack
<1> QED
  BY <1>1, <1>2, <1>3, <1>4, <1>5, <1>6, <1>8 DEF IInv, TypeOK

\* Every step of the runtime, its callers, its jobs and the host preserves IInv.
LEMMA StepIInv == IInv /\ [Next]_vars => IInv'
<1> SUFFICES ASSUME IInv, [Next]_vars PROVE IInv'
  OBVIOUS
<1> USE LimitsAssumption, BackendsAssumption DEF IInv, TypeOK, host, accounting
<1>1. ASSUME NEW c \in Callers, NEW b \in Backends, Submit(c, b) PROVE IInv'
  <2> USE <1>1 DEF Submit, Free, Become
  <2>1. HostOK'
    BY DEF HostOK
  <2>2. BackendOK'
    BY DEF BackendOK, Statuses, Terminal, Unknown, Ids, BackendJobs
  <2>3. RecordsOK'
    BY DEF RecordsOK, JobsShape, Statuses, Terminal, NoRecord, Ids, BackendOK, CallerShape,
       Records, BackendJobs
  <2>4. CallersOK'
    BY DEF CallersOK, BackendOK, Idle, Steps, Statuses, Terminal, Ids, Requests, BackendJobs
  <2>5. CallerShape'
    BY DEF CallerShape, JobsShape, CallersOK, BackendOK, RecordsOK, Idle, Ids, Statuses,
       Terminal, Unknown, BackendJobs, Requests
  <2>6. JobsShape'
    BY DEF JobsShape, CallerShape, RecordsOK, BackendOK, NoRecord, Ids, Statuses, Terminal, Records
  <2>7. ProcessShape'
    BY DEF ProcessShape, DisposeKills, BackendOK, HostOK, Unknown, Ids, BackendJobs
  <2>8. BudgetShape'
    <3>1. Cardinality(InFlight') \in Nat /\ Cardinality(InFlight') <= Cardinality(Callers)
      BY InFlightStep
    <3> QED
      BY <3>1, InFlightFinite DEF BudgetShape, JobBudget, Slack, RecordsOK
  <2> QED
    BY <2>1, <2>2, <2>3, <2>4, <2>5, <2>6, <2>7, <2>8 DEF IInv, TypeOK
<1>2. ASSUME NEW c \in Callers, NEW i \in Ids, Result(c, i) PROVE IInv'
  <2> USE <1>2 DEF Result, Free, Known, ResultNow, Become
  <2>1. HostOK'
    BY DEF HostOK
  <2>2. BackendOK'
    BY DEF BackendOK, Statuses, Terminal, Unknown, Ids, BackendJobs
  <2>3. RecordsOK'
    BY DEF RecordsOK, JobsShape, Statuses, Terminal, NoRecord, Ids, BackendOK, CallerShape,
       Records, BackendJobs
  <2>4. CallersOK'
    <3> DEFINE state == [Idle EXCEPT !.step = IF ResultNow(i) = "waiting" THEN "waiting" ELSE "applying",
                                   !.id = i, !.value = ResultNow(i)]
    <3>1. state \in Requests
      <4>1. ResultNow(i) \in Statuses \cup {"none", "waiting"}
        BY DEF Statuses, BackendOK, BackendJobs
      <4>2. (IF ResultNow(i) = "waiting" THEN "waiting" ELSE "applying") \in Steps
        BY DEF Steps
      <4> HIDE DEF Idle, ResultNow
      <4> QED
        BY <4>1, <4>2, IdleTyped, RequestMoves
    <3>2. Become(c, state)
      OBVIOUS
    <3> HIDE DEF state, Become
    <3> QED
      BY <3>1, <3>2, BecomeTyped
  <2>5. CallerShape'
    <3> DEFINE state == [Idle EXCEPT !.step = IF ResultNow(i) = "waiting" THEN "waiting" ELSE "applying",
                                   !.id = i, !.value = ResultNow(i)]
    <3>1. state \in Requests
      <4>1. ResultNow(i) \in Statuses \cup {"none", "waiting"}
        BY DEF Statuses, BackendOK, BackendJobs
      <4>2. (IF ResultNow(i) = "waiting" THEN "waiting" ELSE "applying") \in Steps
        BY DEF Steps
      <4> HIDE DEF Idle, ResultNow
      <4> QED
        BY <4>1, <4>2, IdleTyped, RequestMoves
    <3>2. Become(c, state)
      OBVIOUS
    <3>3. issued \in Nat /\ issued' = issued
      BY DEF BackendOK
    <3>4. i \in 1..issued
      BY DEF JobsShape, RecordsOK, ToSet
    <3>5. \A k \in 1..issued : job[k].status \in Terminal => job'[k].status \in Terminal
      BY DEF BackendOK, BackendJobs, Terminal, Ids
    <3>6. /\ state.id = i
          /\ state.step \notin {"submitted"}
          /\ state.step = "applying" => state.value \in Terminal
          /\ state.step = "snapshot" => state.value \in Statuses /\ job'[i].status = state.value
      BY DEF Idle, Statuses, Terminal, BackendOK, BackendJobs
    <3> HIDE DEF state, Become
    <3> QED
      BY <3>1, <3>2, <3>3, <3>4, <3>5, <3>6, BecomeShaped
  <2>6. JobsShape'
    BY DEF JobsShape, CallerShape, RecordsOK, BackendOK, NoRecord, Ids, Statuses, Terminal, Records
  <2>7. ProcessShape'
    BY DEF ProcessShape, DisposeKills, BackendOK, HostOK, Unknown, Ids, BackendJobs
  <2>8. BudgetShape'
    <3> DEFINE state == [Idle EXCEPT !.step = IF ResultNow(i) = "waiting" THEN "waiting" ELSE "applying",
                                   !.id = i, !.value = ResultNow(i)]
    <3>1. state.step \notin {"available", "submitted"} /\ c \notin InFlight
      BY DEF InFlight, Idle, CallersOK, Requests
    <3>2. Become(c, state)
      OBVIOUS
    <3>3. Cardinality(InFlight') = Cardinality(InFlight)
      <4> HIDE DEF state, Become
      <4> QED
        BY <3>1, <3>2, InFlightStep
    <3> QED
      BY <3>3 DEF BudgetShape, JobBudget, Slack
  <2> QED
    BY <2>1, <2>2, <2>3, <2>4, <2>5, <2>6, <2>7, <2>8 DEF IInv, TypeOK
<1>3. ASSUME NEW c \in Callers, NEW i \in Ids, Poll(c, i) PROVE IInv'
  <2> USE <1>3 DEF Poll, Free, Known, Become
  <2>1. HostOK'
    BY DEF HostOK
  <2>2. BackendOK'
    BY DEF BackendOK, Statuses, Terminal, Unknown, Ids, BackendJobs
  <2>3. RecordsOK'
    BY DEF RecordsOK, JobsShape, Statuses, Terminal, NoRecord, Ids, BackendOK, CallerShape,
       Records, BackendJobs
  <2>4. CallersOK'
    <3> DEFINE state == [Idle EXCEPT !.step = "snapshot", !.id = i, !.value = job[i].status]
    <3>1. state \in Requests
      <4>1. job[i].status \in Statuses \cup {"none", "waiting"}
        BY DEF Statuses, BackendOK, BackendJobs, JobsShape
      <4>2. "snapshot" \in Steps
        BY DEF Steps
      <4> HIDE DEF Idle
      <4>3. \A v \in Statuses \cup {"none", "waiting"} :
               [Idle EXCEPT !.step = "snapshot", !.id = i, !.value = v] \in Requests
        BY <4>2, IdleTyped, RequestMoves
      <4> QED
        BY <4>1, <4>3
    <3>2. Become(c, state)
      OBVIOUS
    <3> HIDE DEF state, Become
    <3> QED
      BY <3>1, <3>2, BecomeTyped
  <2>5. CallerShape'
    <3> DEFINE state == [Idle EXCEPT !.step = "snapshot", !.id = i, !.value = job[i].status]
    <3>1. state \in Requests
      <4>1. job[i].status \in Statuses \cup {"none", "waiting"}
        BY DEF Statuses, BackendOK, BackendJobs, JobsShape
      <4>2. "snapshot" \in Steps
        BY DEF Steps
      <4> HIDE DEF Idle
      <4>3. \A v \in Statuses \cup {"none", "waiting"} :
               [Idle EXCEPT !.step = "snapshot", !.id = i, !.value = v] \in Requests
        BY <4>2, IdleTyped, RequestMoves
      <4> QED
        BY <4>1, <4>3
    <3>2. Become(c, state)
      OBVIOUS
    <3>3. issued \in Nat /\ issued' = issued
      BY DEF BackendOK
    <3>4. i \in 1..issued
      BY DEF JobsShape, RecordsOK, ToSet
    <3>5. \A k \in 1..issued : job[k].status \in Terminal => job'[k].status \in Terminal
      BY DEF BackendOK, BackendJobs, Terminal, Ids
    <3>6. /\ state.id = i
          /\ state.step \notin {"submitted"}
          /\ state.step = "applying" => state.value \in Terminal
          /\ state.step = "snapshot" => state.value \in Statuses /\ job'[i].status = state.value
      BY DEF Idle, Statuses, Terminal, BackendOK, BackendJobs
    <3> HIDE DEF state, Become
    <3> QED
      BY <3>1, <3>2, <3>3, <3>4, <3>5, <3>6, BecomeShaped
  <2>6. JobsShape'
    BY DEF JobsShape, CallerShape, RecordsOK, BackendOK, NoRecord, Ids, Statuses, Terminal, Records
  <2>7. ProcessShape'
    BY DEF ProcessShape, DisposeKills, BackendOK, HostOK, Unknown, Ids, BackendJobs
  <2>8. BudgetShape'
    <3> DEFINE state == [Idle EXCEPT !.step = "snapshot", !.id = i, !.value = job[i].status]
    <3>1. state.step \notin {"available", "submitted"} /\ c \notin InFlight
      BY DEF InFlight, Idle, CallersOK, Requests
    <3>2. Become(c, state)
      OBVIOUS
    <3>3. Cardinality(InFlight') = Cardinality(InFlight)
      <4> HIDE DEF state, Become
      <4> QED
        BY <3>1, <3>2, InFlightStep
    <3> QED
      BY <3>3 DEF BudgetShape, JobBudget, Slack
  <2> QED
    BY <2>1, <2>2, <2>3, <2>4, <2>5, <2>6, <2>7, <2>8 DEF IInv, TypeOK
<1>4. ASSUME NEW c \in Callers, NEW i \in Ids, Cancel(c, i) PROVE IInv'
  <2> USE <1>4 DEF Cancel, Free, Kill, Become
  <2>1. HostOK'
    BY DEF HostOK
  <2>2. BackendOK'
    BY ZenonT(60) DEF BackendOK, Statuses, Terminal, Unknown, Ids, BackendJobs
  <2>3. RecordsOK'
    BY DEF RecordsOK, JobsShape, Statuses, Terminal, NoRecord, Ids, BackendOK, CallerShape,
       Records, BackendJobs
  <2>4. CallersOK'
    <3> DEFINE state == [Idle EXCEPT !.step = "cancelling", !.id = i]
    <3>1. state \in Requests
      <4>1. "cancelling" \in Steps
        BY DEF Steps
      <4> HIDE DEF Idle
      <4> QED
        BY <4>1, IdleTyped, RequestCancels
    <3>2. Become(c, state)
      OBVIOUS
    <3> HIDE DEF state, Become
    <3> QED
      BY <3>1, <3>2, BecomeTyped
  <2>5. CallerShape'
    <3> DEFINE state == [Idle EXCEPT !.step = "cancelling", !.id = i]
    <3>1. state \in Requests
      <4>1. "cancelling" \in Steps
        BY DEF Steps
      <4> HIDE DEF Idle
      <4> QED
        BY <4>1, IdleTyped, RequestCancels
    <3>2. Become(c, state)
      OBVIOUS
    <3>3. issued \in Nat /\ issued' = issued
      BY DEF BackendOK
    <3>4. i \in 1..issued
      BY DEF JobsShape, RecordsOK, ToSet
    <3>5. \A k \in 1..issued : job[k].status \in Terminal => job'[k].status \in Terminal
      BY DEF BackendOK, BackendJobs, Terminal, Ids
    <3>6. /\ state.id = i
          /\ state.step \notin {"submitted"}
          /\ state.step = "applying" => state.value \in Terminal
          /\ state.step = "snapshot" => state.value \in Statuses /\ job'[i].status = state.value
      BY DEF Idle, Statuses, Terminal, BackendOK, BackendJobs
    <3> HIDE DEF state, Become
    <3> QED
      BY <3>1, <3>2, <3>3, <3>4, <3>5, <3>6, BecomeShaped
  <2>6. JobsShape'
    BY DEF JobsShape, CallerShape, RecordsOK, BackendOK, NoRecord, Ids, Statuses, Terminal, Records
  <2>7. ProcessShape'
    BY DEF ProcessShape, DisposeKills, BackendOK, HostOK, Unknown, Ids, BackendJobs
  <2>8. BudgetShape'
    <3> DEFINE state == [Idle EXCEPT !.step = "cancelling", !.id = i]
    <3>1. state.step \notin {"available", "submitted"} /\ c \notin InFlight
      BY DEF InFlight, Idle, CallersOK, Requests
    <3>2. Become(c, state)
      OBVIOUS
    <3>3. Cardinality(InFlight') = Cardinality(InFlight)
      <4> HIDE DEF state, Become
      <4> QED
        BY <3>1, <3>2, InFlightStep
    <3> QED
      BY <3>3 DEF BudgetShape, JobBudget, Slack
  <2> QED
    BY <2>1, <2>2, <2>3, <2>4, <2>5, <2>6, <2>7, <2>8 DEF IInv, TypeOK
<1>5. ASSUME NEW c \in Callers, BackendSubmit(c) PROVE IInv'
  <2> USE <1>5 DEF BackendSubmit, Become
  <2> DEFINE Started(status) ==
         [caller[c] EXCEPT !.step = "submitted", !.id = issued + 1, !.value = status]
  <2>s. \A status \in {"running", "failed"} :
           issued < MaxIds => Started(status) \in Requests /\ Started(status).step = "submitted"
    <3> SUFFICES ASSUME NEW status \in {"running", "failed"}, issued < MaxIds
                 PROVE  Started(status) \in Requests /\ Started(status).step = "submitted"
      OBVIOUS
    <3>1. caller[c] \in Requests /\ issued + 1 \in Ids /\ status \in Statuses
      BY DEF CallersOK, BackendOK, Ids, Statuses, Terminal
    <3>2. "submitted" \in Steps
      BY DEF Steps
    <3>3. \A r \in Requests, k \in Ids, v \in Statuses \cup {"none", "waiting"} :
             [r EXCEPT !.step = "submitted", !.id = k, !.value = v] \in Requests
      BY <3>2, RequestMoves
    <3>4. status \in Statuses \cup {"none", "waiting"}
      BY <3>1
    <3>5. Started(status) \in Requests
      BY <3>1, <3>3, <3>4, Zenon
    <3>6. Started(status).step = "submitted"
      BY <3>1 DEF Requests
    <3> QED
      BY <3>5, <3>6
  <2>0. \/ caller' = [caller EXCEPT ![c] = Idle] /\ issued' = issued /\ job' = job
        \/ \E status \in {"running", "failed"} :
              /\ issued < MaxIds /\ issued' = issued + 1
              /\ signal => status = "failed"
              /\ job' = [job EXCEPT ![issued + 1] =
                            [backend |-> caller[c].backend, status |-> status,
                             live |-> status = "running", killed |-> FALSE]]
              /\ caller' = [caller EXCEPT ![c] = Started(status)]
    BY Zenon DEF HostOK
  <2>1. HostOK'
    BY DEF HostOK
  <2>2. BackendOK'
    <3>1. CASE caller' = [caller EXCEPT ![c] = Idle] /\ issued' = issued /\ job' = job
      BY <3>1 DEF BackendOK
    <3>2. ASSUME NEW status \in {"running", "failed"}, issued < MaxIds, issued' = issued + 1,
                 signal => status = "failed",
                 job' = [job EXCEPT ![issued + 1] =
                            [backend |-> caller[c].backend, status |-> status,
                             live |-> status = "running", killed |-> FALSE]],
                 caller' = [caller EXCEPT ![c] = Started(status)]
          PROVE  BackendOK'
      <4>1. caller[c].backend \in Backends /\ issued + 1 \in Ids
        BY <3>2 DEF CallersOK, Requests, BackendOK, Ids
      <4>2. (status = "running") \in BOOLEAN
        OBVIOUS
      <4>3. [backend |-> caller[c].backend, status |-> status, live |-> status = "running",
             killed |-> FALSE] \in BackendJobs
        BY <4>1, <4>2 DEF BackendJobs, Statuses, Terminal
      <4> QED
        BY <3>2, <4>1, <4>3 DEF BackendOK
    <3> QED
      BY <2>0, <3>1, <3>2
  <2>3. RecordsOK'
    BY DEF RecordsOK, JobsShape, Statuses, Terminal, NoRecord, Ids, BackendOK, CallerShape,
       Records, BackendJobs
  <2>4. CallersOK'
    <3>1. CASE caller' = [caller EXCEPT ![c] = Idle] /\ issued' = issued /\ job' = job
      BY <3>1 DEF CallersOK, Requests, Idle, Steps
    <3>2. ASSUME NEW status \in {"running", "failed"}, issued < MaxIds, issued' = issued + 1,
                 signal => status = "failed",
                 job' = [job EXCEPT ![issued + 1] =
                            [backend |-> caller[c].backend, status |-> status,
                             live |-> status = "running", killed |-> FALSE]],
                 caller' = [caller EXCEPT ![c] = Started(status)]
          PROVE  CallersOK'
      <4>1. Started(status) \in Requests
        BY <2>s, <3>2
      <4> QED
        BY <3>2, <4>1 DEF CallersOK
    <3> QED
      BY <2>0, <3>1, <3>2
  <2>5. CallerShape'
    <3>1. CASE caller' = [caller EXCEPT ![c] = Idle] /\ issued' = issued /\ job' = job
      <4>1. Idle \in Requests
        BY DEF Requests, Idle, Steps
      <4>2. Idle.step = "idle" /\ issued \in Nat /\ Become(c, Idle)
        BY <3>1 DEF Idle, BackendOK
      <4> HIDE DEF Become, Idle
      <4> QED
        BY <3>1, <4>1, <4>2, BecomeShaped
    <3>2. ASSUME NEW status \in {"running", "failed"}, issued < MaxIds, issued' = issued + 1,
                 signal => status = "failed",
                 job' = [job EXCEPT ![issued + 1] =
                            [backend |-> caller[c].backend, status |-> status,
                             live |-> status = "running", killed |-> FALSE]],
                 caller' = [caller EXCEPT ![c] = Started(status)]
          PROVE  CallerShape'
      <4>1. Started(status) \in Requests
        BY <2>s, <3>2
      <4>2. \A k \in 1..issued : job'[k] = job[k]
        BY <3>2 DEF BackendOK, Ids
      <4>3. /\ Started(status).step = "submitted" /\ Started(status).id = issued + 1
            /\ Started(status).value \in Statuses
        BY DEF CallersOK, Requests, Statuses, Terminal
      <4>4. /\ issued \in Nat /\ issued' \in Nat /\ issued <= issued' /\ issued + 1 \in 1..issued'
            /\ Become(c, Started(status))
        BY <3>2 DEF BackendOK
      <4>5. \A k \in 1..issued : job[k].status \in Terminal => job'[k].status \in Terminal
        BY <4>2
      <4> HIDE DEF Started, Become
      <4> QED
        BY <4>1, <4>3, <4>4, <4>5, BecomeShaped
    <3> QED
      BY <2>0, <3>1, <3>2
  <2>6. JobsShape'
    BY <2>0 DEF JobsShape, BackendOK
  <2>7. ProcessShape'
    <3>1. CASE caller' = [caller EXCEPT ![c] = Idle] /\ issued' = issued /\ job' = job
      BY <3>1 DEF ProcessShape, DisposeKills
    <3>2. ASSUME NEW status \in {"running", "failed"}, issued < MaxIds, issued' = issued + 1,
                 signal => status = "failed",
                 job' = [job EXCEPT ![issued + 1] =
                            [backend |-> caller[c].backend, status |-> status,
                             live |-> status = "running", killed |-> FALSE]],
                 caller' = [caller EXCEPT ![c] = Started(status)]
          PROVE  ProcessShape'
      <4>1. issued + 1 \in Ids
        BY <3>2 DEF BackendOK, Ids
      <4>2. \A k \in Ids : k # issued + 1 => job'[k] = job[k]
        BY <3>2 DEF BackendOK
      <4>3. /\ job'[issued + 1].status = status /\ job'[issued + 1].live = (status = "running")
        BY <3>2, <4>1 DEF BackendOK
      <4> QED
        BY <3>2, <4>2, <4>3 DEF ProcessShape, DisposeKills
    <3> QED
      BY <2>0, <3>1, <3>2
  <2>8. BudgetShape'
    <3>1. c \in InFlight
      BY DEF InFlight
    <3>2. Cardinality(InFlight') <= Cardinality(InFlight) /\ Cardinality(InFlight') \in Nat
      <4>1. CASE caller' = [caller EXCEPT ![c] = Idle]
        <5>1. Idle.step = "idle" /\ Become(c, Idle)
          BY <4>1 DEF Idle
        <5> HIDE DEF Become, Idle
        <5> QED
          BY <3>1, <5>1, InFlightStep, InFlightFinite
      <4>2. ASSUME NEW status \in {"running", "failed"}, issued < MaxIds,
                   caller' = [caller EXCEPT ![c] = Started(status)]
            PROVE  Cardinality(InFlight') <= Cardinality(InFlight) /\ Cardinality(InFlight') \in Nat
        <5>1. Started(status).step = "submitted" /\ Become(c, Started(status))
          BY <2>s, <4>2
        <5> HIDE DEF Started, Become
        <5> QED
          BY <3>1, <5>1, InFlightStep, InFlightFinite
      <4> QED
        BY <2>0, <4>1, <4>2
    <3> QED
      BY <3>2, InFlightFinite, LimitsAssumption DEF BudgetShape, JobBudget, Slack, RecordsOK
  <2> QED
    BY <2>1, <2>2, <2>3, <2>4, <2>5, <2>6, <2>7, <2>8 DEF IInv, TypeOK
<1>6. ASSUME NEW c \in Callers, RecordJob(c) PROVE IInv'
  <2> USE <1>6 DEF RecordJob, ResultNow, Become
  <2> DEFINE i == caller[c].id
  <2>0. i \in 1..issued /\ i \in Ids /\ caller[c].value \in Statuses /\ caller[c].backend \in Backends
    BY DEF CallerShape, BackendOK, Ids, CallersOK, Requests
  <2>a. /\ record' \in [Ids -> Records] /\ jobs' \in Seq(Ids)
        /\ \A k \in DOMAIN jobs' : jobs'[k] \in 1..issued /\ record'[jobs'[k]].status \in Statuses
    <3>1. [NoRecord EXCEPT !.backend = caller[c].backend, !.status = caller[c].value] \in Records
      BY <2>0 DEF NoRecord, Records
    <3>2. record' \in [Ids -> Records] /\ jobs' \in Seq(Ids)
      BY <2>0, <3>1 DEF RecordsOK
    <3>3. record'[i].status \in Statuses /\ \A k \in Ids : k # i => record'[k] = record[k]
      BY <2>0 DEF RecordsOK, NoRecord
    <3>4. ASSUME NEW k \in DOMAIN jobs'
          PROVE  jobs'[k] \in 1..issued /\ record'[jobs'[k]].status \in Statuses
      <4>1. CASE k \in DOMAIN jobs
        BY <2>0, <3>3, <4>1 DEF RecordsOK, JobsShape
      <4>2. CASE k \notin DOMAIN jobs
        <5>1. jobs'[k] = i
          BY <3>4, <4>2 DEF RecordsOK
        <5> QED
          BY <2>0, <3>3, <5>1
      <4> QED
        BY <4>1, <4>2
    <3> QED
      BY <3>2, <3>4
  <2>b. /\ disk' \in Seq(Entries)
        /\ \/ disk' = disk
           \/ Len(disk') = Len(jobs') /\ \A k \in DOMAIN disk' : disk'[k].id = jobs'[k]
    BY <2>a, PersistTyped DEF RecordsOK
  <2>c. Cardinality(InFlight') = Cardinality(InFlight) - 1
    <3>1. c \in InFlight /\ Idle.step = "idle" /\ Become(c, Idle)
      BY DEF InFlight, Idle
    <3> HIDE DEF Become, Idle
    <3> QED
      BY <3>1, InFlightStep
  <2>1. HostOK'
    BY DEF HostOK
  <2>2. BackendOK'
    BY <2>0 DEF BackendOK
  <2>3. RecordsOK'
    <3>1. tracker' \in [Ids -> Terminal \cup {"none", "waiting", "rejected"}]
      BY <2>0 DEF RecordsOK
    <3>2. jobsSubmitted' \in Nat /\ totalDurationMs' \in Nat /\ counts' \in [Terminal -> Nat]
      BY DEF RecordsOK
    <3> QED
      BY <2>a, <2>b, <3>1, <3>2 DEF RecordsOK
  <2>4. CallersOK'
    BY DEF CallersOK, BackendOK, Idle, Steps, Statuses, Terminal, Ids, Requests, BackendJobs
  <2>5. CallerShape'
    BY DEF CallerShape, JobsShape, CallersOK, BackendOK, RecordsOK, Idle, Ids, Statuses,
       Terminal, Unknown, BackendJobs, Requests
  <2>6. JobsShape'
    <3>1. ASSUME NEW k \in DOMAIN disk' PROVE disk'[k].id \in 1..issued
      <4>1. CASE disk' = disk
        BY <3>1, <4>1 DEF JobsShape
      <4>2. CASE Len(disk') = Len(jobs') /\ disk'[k].id = jobs'[k]
        <5>1. k \in DOMAIN jobs'
          BY <2>a, <2>b, <3>1, <4>2
        <5> QED
          BY <2>a, <4>2, <5>1
      <4> QED
        BY <2>b, <3>1, <4>1, <4>2
    <3> QED
      BY <2>a, <3>1 DEF JobsShape
  <2>7. ProcessShape'
    BY DEF ProcessShape, DisposeKills, BackendOK, HostOK, Unknown, Ids, BackendJobs
  <2>8. BudgetShape'
    <3>1. Len(jobs') = Len(jobs) + 1
      BY DEF RecordsOK
    <3>2. jobsSubmitted' = Len(jobs') /\ Len(jobs) \in Nat
      BY <3>1 DEF RecordsOK, BudgetShape
    <3>3. JobBudget' /\ Cardinality(InFlight) - 1 \in Nat
      <4>1. Cardinality(InFlight') \in Nat
        BY InFlightStep
      <4> QED
        BY <2>c, <3>1, <3>2, <4>1, InFlightFinite DEF BudgetShape, JobBudget
    <3>4. Len(jobs') <= Slack
      BY <2>c, <3>1, <3>2, <3>3, InFlightFinite DEF JobBudget, Slack
    <3>5. Len(disk') <= Slack
      BY <2>b, <3>4, WithinSlack
    <3> QED
      BY <3>2, <3>3, <3>5 DEF BudgetShape, Slack
  <2> QED
    BY <2>1, <2>2, <2>3, <2>4, <2>5, <2>6, <2>7, <2>8 DEF IInv, TypeOK
<1>7. ASSUME NEW c \in Callers, PollSnapshot(c) PROVE IInv'
  <2> USE <1>7 DEF PollSnapshot, Become
  <2>0. record' \in [Ids -> Records] /\ \A k \in DOMAIN jobs : record'[jobs[k]].status \in Statuses
    <3>1. caller[c].id \in Ids /\ caller[c].value \in Statuses
      BY DEF CallerShape, BackendOK, Ids
    <3> DEFINE new == [record[caller[c].id] EXCEPT !.status = caller[c].value]
    <3>2. new \in Records /\ new.status \in Statuses
      BY <3>1, RecordMarked DEF RecordsOK
    <3>3. record' = [record EXCEPT ![caller[c].id] = new]
      OBVIOUS
    <3> HIDE DEF new
    <3> QED
      BY <3>1, <3>2, <3>3 DEF RecordsOK, JobsShape
  <2>1. HostOK'
    BY DEF HostOK
  <2>2. BackendOK'
    BY DEF BackendOK, Statuses, Terminal, Unknown, Ids, BackendJobs
  <2>3. RecordsOK'
    BY <2>0 DEF RecordsOK
  <2>4. CallersOK'
    <3> DEFINE state == IF caller[c].value \in Terminal
                        THEN [caller[c] EXCEPT !.step = "applying", !.value = job[caller[c].id].status]
                        ELSE Idle
    <3>1. CASE caller[c].value \in Terminal
      <4>1. job[caller[c].id].status \in Terminal
        BY <3>1 DEF CallerShape
      <4>2. caller[c] \in Requests
        BY DEF CallersOK
      <4> QED
        BY <3>1, <4>1, <4>2 DEF CallersOK, Requests, Steps, Statuses
    <3>2. CASE caller[c].value \notin Terminal
      BY <3>2, BackendsAssumption DEF CallersOK, Requests, Idle, Steps
    <3> QED
      BY <3>1, <3>2
  <2>5. CallerShape'
    BY DEF CallerShape, JobsShape, CallersOK, BackendOK, RecordsOK, Idle, Ids, Statuses,
       Terminal, Unknown, BackendJobs, Requests
  <2>6. JobsShape'
    BY <2>0 DEF JobsShape
  <2>7. ProcessShape'
    BY DEF ProcessShape, DisposeKills, BackendOK, HostOK, Unknown, Ids, BackendJobs
  <2>8. BudgetShape'
    <3> DEFINE state == IF caller[c].value \in Terminal
                        THEN [caller[c] EXCEPT !.step = "applying", !.value = job[caller[c].id].status]
                        ELSE Idle
    <3>1. state.step \notin {"available", "submitted"} /\ c \notin InFlight
      BY DEF InFlight, Idle, CallersOK, Requests
    <3>2. Become(c, state)
      OBVIOUS
    <3>3. Cardinality(InFlight') = Cardinality(InFlight)
      <4> HIDE DEF state, Become
      <4> QED
        BY <3>1, <3>2, InFlightStep
    <3> QED
      BY <3>3 DEF BudgetShape, JobBudget, Slack
  <2> QED
    BY <2>1, <2>2, <2>3, <2>4, <2>5, <2>6, <2>7, <2>8 DEF IInv, TypeOK
<1>8. ASSUME NEW c \in Callers, Apply(c) PROVE IInv'
  <2> USE <1>8 DEF Apply, ApplyResult, Become
  <2>0. record' \in [Ids -> Records] /\ jobs' = jobs /\ disk' \in Seq(Entries)
       /\ JobsShape' /\ Len(disk') <= Slack /\ counts' \in [Terminal -> Nat] /\ totalDurationMs' \in Nat
    <3>1. caller[c].id \in Ids
      BY DEF CallerShape, BackendOK, Ids
    <3>2. caller[c].value \in Terminal
      BY DEF CallerShape
    <3> HIDE DEF ApplyResult
    <3> QED
      BY <3>1, <3>2, ApplyKeeps
  <2>1. HostOK'
    BY DEF HostOK
  <2>2. BackendOK'
    BY DEF BackendOK, Statuses, Terminal, Unknown, Ids, BackendJobs
  <2>3. RecordsOK'
    BY <2>0 DEF RecordsOK, Statuses, Terminal
  <2>4. CallersOK'
    BY DEF CallersOK, BackendOK, Idle, Steps, Statuses, Terminal, Ids, Requests, BackendJobs
  <2>5. CallerShape'
    BY DEF CallerShape, JobsShape, CallersOK, BackendOK, RecordsOK, Idle, Ids, Statuses,
       Terminal, Unknown, BackendJobs, Requests
  <2>6. JobsShape'
    BY <2>0
  <2>7. ProcessShape'
    BY DEF ProcessShape, DisposeKills, BackendOK, HostOK, Unknown, Ids, BackendJobs
  <2>8. BudgetShape'
    <3> DEFINE state == Idle
    <3>1. state.step \notin {"available", "submitted"} /\ c \notin InFlight
      BY DEF InFlight, Idle, CallersOK, Requests
    <3>2. Become(c, state)
      OBVIOUS
    <3>3. Cardinality(InFlight') = Cardinality(InFlight)
      <4> HIDE DEF state, Become
      <4> QED
        BY <3>1, <3>2, InFlightStep
    <3> QED
      BY <2>0, <3>3 DEF BudgetShape, JobBudget, Slack
  <2> QED
    BY <2>1, <2>2, <2>3, <2>4, <2>5, <2>6, <2>7, <2>8 DEF IInv, TypeOK
<1>9. ASSUME NEW c \in Callers, CancelRecord(c) PROVE IInv'
  <2> USE <1>9 DEF CancelRecord, Become
  <2>0. record' \in [Ids -> Records] /\ jobs' = jobs /\ disk' \in Seq(Entries)
       /\ JobsShape' /\ Len(disk') <= Slack
    <3>1. caller[c].id \in Ids
      BY DEF CallerShape, BackendOK, Ids
    <3>2. "cancelled" \in Terminal
      BY DEF Terminal
    <3> QED
      BY <3>1, <3>2, MarkKeeps
  <2>1. HostOK'
    BY DEF HostOK
  <2>2. BackendOK'
    BY DEF BackendOK, Statuses, Terminal, Unknown, Ids, BackendJobs
  <2>3. RecordsOK'
    BY <2>0 DEF RecordsOK, Statuses, Terminal
  <2>4. CallersOK'
    BY DEF CallersOK, BackendOK, Idle, Steps, Statuses, Terminal, Ids, Requests, BackendJobs
  <2>5. CallerShape'
    BY DEF CallerShape, JobsShape, CallersOK, BackendOK, RecordsOK, Idle, Ids, Statuses,
       Terminal, Unknown, BackendJobs, Requests
  <2>6. JobsShape'
    BY <2>0
  <2>7. ProcessShape'
    BY DEF ProcessShape, DisposeKills, BackendOK, HostOK, Unknown, Ids, BackendJobs
  <2>8. BudgetShape'
    <3> DEFINE state == Idle
    <3>1. state.step \notin {"available", "submitted"} /\ c \notin InFlight
      BY DEF InFlight, Idle, CallersOK, Requests
    <3>2. Become(c, state)
      OBVIOUS
    <3>3. Cardinality(InFlight') = Cardinality(InFlight)
      <4> HIDE DEF state, Become
      <4> QED
        BY <3>1, <3>2, InFlightStep
    <3> QED
      BY <2>0, <3>3 DEF BudgetShape, JobBudget, Slack
  <2> QED
    BY <2>1, <2>2, <2>3, <2>4, <2>5, <2>6, <2>7, <2>8 DEF IInv, TypeOK
<1>10. ASSUME NEW c \in Callers, ResultWakes(c) PROVE IInv'
  <2> USE <1>10 DEF ResultWakes, ApplyResult, Become
  <2>0. record' \in [Ids -> Records] /\ jobs' = jobs /\ disk' \in Seq(Entries)
       /\ JobsShape' /\ Len(disk') <= Slack /\ counts' \in [Terminal -> Nat] /\ totalDurationMs' \in Nat
    <3>1. caller[c].id \in Ids
      BY DEF CallerShape, BackendOK, Ids
    <3> HIDE DEF ApplyResult
    <3> QED
      BY <3>1, ApplyKeeps
  <2>1. HostOK'
    BY DEF HostOK
  <2>2. BackendOK'
    BY DEF BackendOK, Statuses, Terminal, Unknown, Ids, BackendJobs
  <2>3. RecordsOK'
    BY <2>0 DEF RecordsOK, Statuses, Terminal
  <2>4. CallersOK'
    BY DEF CallersOK, BackendOK, Idle, Steps, Statuses, Terminal, Ids, Requests, BackendJobs
  <2>5. CallerShape'
    BY DEF CallerShape, JobsShape, CallersOK, BackendOK, RecordsOK, Idle, Ids, Statuses,
       Terminal, Unknown, BackendJobs, Requests
  <2>6. JobsShape'
    BY <2>0
  <2>7. ProcessShape'
    BY DEF ProcessShape, DisposeKills, BackendOK, HostOK, Unknown, Ids, BackendJobs
  <2>8. BudgetShape'
    <3> DEFINE state == Idle
    <3>1. state.step \notin {"available", "submitted"} /\ c \notin InFlight
      BY DEF InFlight, Idle, CallersOK, Requests
    <3>2. Become(c, state)
      OBVIOUS
    <3>3. Cardinality(InFlight') = Cardinality(InFlight)
      <4> HIDE DEF state, Become
      <4> QED
        BY <3>1, <3>2, InFlightStep
    <3> QED
      BY <2>0, <3>3 DEF BudgetShape, JobBudget, Slack
  <2> QED
    BY <2>1, <2>2, <2>3, <2>4, <2>5, <2>6, <2>7, <2>8 DEF IInv, TypeOK
<1>11. ASSUME NEW i \in Ids, TrackerWakes(i) PROVE IInv'
  <2> USE <1>11 DEF TrackerWakes, ApplyResult, Become
  <2>0. record' \in [Ids -> Records] /\ jobs' = jobs /\ disk' \in Seq(Entries)
       /\ JobsShape' /\ Len(disk') <= Slack /\ counts' \in [Terminal -> Nat] /\ totalDurationMs' \in Nat
    <3> HIDE DEF ApplyResult
    <3> QED
      BY ApplyKeeps
  <2>1. HostOK'
    BY DEF HostOK
  <2>2. BackendOK'
    BY DEF BackendOK, Statuses, Terminal, Unknown, Ids, BackendJobs
  <2>3. RecordsOK'
    BY <2>0 DEF RecordsOK, Statuses, Terminal
  <2>4. CallersOK'
    BY DEF CallersOK, BackendOK, Idle, Steps, Statuses, Terminal, Ids, Requests, BackendJobs
  <2>5. CallerShape'
    BY DEF CallerShape, JobsShape, CallersOK, BackendOK, RecordsOK, Idle, Ids, Statuses,
       Terminal, Unknown, BackendJobs, Requests
  <2>6. JobsShape'
    BY <2>0
  <2>7. ProcessShape'
    BY DEF ProcessShape, DisposeKills, BackendOK, HostOK, Unknown, Ids, BackendJobs
  <2>8. BudgetShape'
    <3>1. InFlight' = InFlight
      BY DEF InFlight
    <3> QED
      BY <2>0, <3>1 DEF BudgetShape, JobBudget, Slack
  <2> QED
    BY <2>1, <2>2, <2>3, <2>4, <2>5, <2>6, <2>7, <2>8 DEF IInv, TypeOK
<1>12. ASSUME NEW i \in Ids, TrackerSettles(i) PROVE IInv'
  <2> USE <1>12 DEF TrackerSettles, ApplyResult, Become
  <2>0. record' \in [Ids -> Records] /\ jobs' = jobs /\ disk' \in Seq(Entries)
       /\ JobsShape' /\ Len(disk') <= Slack /\ counts' \in [Terminal -> Nat] /\ totalDurationMs' \in Nat
    <3> HIDE DEF ApplyResult
    <3>1. CASE tracker[i] \in Terminal /\ ApplyResult(i, tracker[i])
      BY <3>1, ApplyKeeps
    <3>2. CASE tracker[i] = "rejected"
      <4>1. "failed" \in Terminal /\ "rejected" \notin Terminal
        BY DEF Terminal
      <4> QED
        BY <3>2, <4>1, MarkKeeps DEF RecordsOK
    <3> QED
      BY <3>1, <3>2
  <2>1. HostOK'
    BY DEF HostOK
  <2>2. BackendOK'
    BY DEF BackendOK, Statuses, Terminal, Unknown, Ids, BackendJobs
  <2>3. RecordsOK'
    BY <2>0 DEF RecordsOK, Statuses, Terminal
  <2>4. CallersOK'
    BY DEF CallersOK, BackendOK, Idle, Steps, Statuses, Terminal, Ids, Requests, BackendJobs
  <2>5. CallerShape'
    BY DEF CallerShape, JobsShape, CallersOK, BackendOK, RecordsOK, Idle, Ids, Statuses,
       Terminal, Unknown, BackendJobs, Requests
  <2>6. JobsShape'
    BY <2>0
  <2>7. ProcessShape'
    BY DEF ProcessShape, DisposeKills, BackendOK, HostOK, Unknown, Ids, BackendJobs
  <2>8. BudgetShape'
    <3>1. InFlight' = InFlight
      BY DEF InFlight
    <3> QED
      BY <2>0, <3>1 DEF BudgetShape, JobBudget, Slack
  <2> QED
    BY <2>1, <2>2, <2>3, <2>4, <2>5, <2>6, <2>7, <2>8 DEF IInv, TypeOK
<1>13. ASSUME NEW i \in Ids, JobEnds(i) PROVE IInv'
  <2> USE <1>13 DEF JobEnds, Quiet, Micro, Become
  <2>1. HostOK'
    BY DEF HostOK
  <2>2. BackendOK'
    <3>1. PICK status \in {"completed", "failed"} :
             job' = [job EXCEPT ![i].live = FALSE,
                                ![i].status = IF @ = "cancelled" THEN @ ELSE status]
      OBVIOUS
    <3> DEFINE new == [job[i] EXCEPT !.live = FALSE, !.status = IF @ = "cancelled" THEN @ ELSE status]
    <3>2. job[i] \in BackendJobs /\ job' = [job EXCEPT ![i] = new]
      BY <3>1 DEF BackendOK
    <3>3. new \in BackendJobs
      BY <3>2 DEF BackendJobs, Statuses, Terminal
    <3> HIDE DEF new
    <3> QED
      BY <3>2, <3>3 DEF BackendOK
  <2>3. RecordsOK'
    BY DEF RecordsOK, JobsShape, Statuses, Terminal, NoRecord, Ids, BackendOK, CallerShape,
       Records, BackendJobs
  <2>4. CallersOK'
    BY DEF CallersOK, BackendOK, Idle, Steps, Statuses, Terminal, Ids, Requests, BackendJobs
  <2>5. CallerShape'
    BY DEF CallerShape, JobsShape, CallersOK, BackendOK, RecordsOK, Idle, Ids, Statuses,
       Terminal, Unknown, BackendJobs, Requests
  <2>6. JobsShape'
    BY DEF JobsShape, CallerShape, RecordsOK, BackendOK, NoRecord, Ids, Statuses, Terminal, Records
  <2>7. ProcessShape'
    BY DEF ProcessShape, DisposeKills, BackendOK, HostOK, Unknown, Ids, BackendJobs
  <2>8. BudgetShape'
    <3>1. InFlight' = InFlight
      BY DEF InFlight
    <3> QED
      BY <3>1 DEF BudgetShape, JobBudget, Slack
  <2> QED
    BY <2>1, <2>2, <2>3, <2>4, <2>5, <2>6, <2>7, <2>8 DEF IInv, TypeOK
<1>14. ASSUME Dispose PROVE IInv'
  <2> USE <1>14 DEF Dispose, Kill, Running, Become
  <2>0. record' \in [Ids -> Records] /\ jobs' = jobs /\ disk' \in Seq(Entries)
       /\ JobsShape' /\ Len(disk') <= Slack
    <3>a. \A k \in Ids : /\ [record[k] EXCEPT !.status = "cancelled"] \in Records
                          /\ [record[k] EXCEPT !.status = "cancelled"].status \in Statuses
      BY RecordMarked DEF RecordsOK, Statuses, Terminal
    <3>1. record' \in [Ids -> Records]
      BY <3>a DEF RecordsOK
    <3>2. \A k \in DOMAIN jobs : record'[jobs[k]].status \in Statuses
      <4> SUFFICES ASSUME NEW k \in DOMAIN jobs PROVE record'[jobs[k]].status \in Statuses
        OBVIOUS
      <4>1. jobs[k] \in Ids /\ record[jobs[k]].status \in Statuses
        <5> HIDE <1>14
        <5> QED
          BY DEF RecordsOK, JobsShape
      <4> QED
        BY <3>a, <4>1
    <3> HIDE DEF Persist
    <3> QED
      BY <3>1, <3>2, SaveKeeps
  <2>1. HostOK'
    BY DEF HostOK
  <2>2. BackendOK'
    BY DEF BackendOK, Statuses, Terminal, Unknown, Ids, BackendJobs
  <2>3. RecordsOK'
    BY <2>0 DEF RecordsOK, Statuses, Terminal
  <2>4. CallersOK'
    BY DEF CallersOK, BackendOK, Idle, Steps, Statuses, Terminal, Ids, Requests, BackendJobs
  <2>5. CallerShape'
    <3>1. \A k \in Ids : job[k].status \in Terminal => job'[k] = job[k]
      BY DEF Terminal
    <3>2. \A k \in 1..issued : k \in Ids
      <4>1. issued \in 0..MaxIds
        BY DEF BackendOK
      <4> HIDE <1>14
      <4> QED
        BY <4>1 DEF Ids
    <3> QED
      BY <3>1, <3>2 DEF CallerShape
  <2>6. JobsShape'
    BY <2>0
  <2>7. ProcessShape'
    BY DEF ProcessShape, DisposeKills, BackendOK, HostOK, Unknown, Ids, BackendJobs
  <2>8. BudgetShape'
    <3>1. InFlight' = InFlight
      BY DEF InFlight
    <3> QED
      BY <2>0, <3>1 DEF BudgetShape, JobBudget, Slack
  <2> QED
    BY <2>1, <2>2, <2>3, <2>4, <2>5, <2>6, <2>7, <2>8 DEF IInv, TypeOK
<1>15. ASSUME Crash PROVE IInv'
  <2> USE <1>15 DEF Crash, Become
  <2>1. HostOK'
    BY DEF HostOK
  <2>2. BackendOK'
    BY DEF BackendOK, Statuses, Terminal, Unknown, Ids, BackendJobs
  <2>3. RecordsOK'
    BY DEF RecordsOK, JobsShape, Statuses, Terminal, NoRecord, Ids, BackendOK, CallerShape,
       Records, BackendJobs
  <2>4. CallersOK'
    BY DEF CallersOK, BackendOK, Idle, Steps, Statuses, Terminal, Ids, Requests, BackendJobs
  <2>5. CallerShape'
    BY DEF CallerShape, JobsShape, CallersOK, BackendOK, RecordsOK, Idle, Ids, Statuses,
       Terminal, Unknown, BackendJobs, Requests
  <2>6. JobsShape'
    BY DEF JobsShape, CallerShape, RecordsOK, BackendOK, NoRecord, Ids, Statuses, Terminal, Records
  <2>7. ProcessShape'
    BY DEF ProcessShape, DisposeKills, BackendOK, HostOK, Unknown, Ids, BackendJobs
  <2>8. BudgetShape'
    <3>1. InFlight' = InFlight
      BY DEF InFlight
    <3> QED
      BY <3>1 DEF BudgetShape, JobBudget, Slack
  <2> QED
    BY <2>1, <2>2, <2>3, <2>4, <2>5, <2>6, <2>7, <2>8 DEF IInv, TypeOK
<1>16. ASSUME Restart PROVE IInv'
  <2> USE <1>16 DEF Restart, Become
  <2> DEFINE recs == [k \in DOMAIN disk |->
                       LET r == Restored(disk[k]) IN [r EXCEPT !.status = Outcome(r)]]
             File(k) == [n \in 1..k |-> Entry(disk[n].id, recs[n])]
  <2>0. \A k \in DOMAIN disk : recs[k] \in Records /\ recs[k].status \in Terminal
    <3> SUFFICES ASSUME NEW k \in DOMAIN disk PROVE recs[k] \in Records /\ recs[k].status \in Terminal
      OBVIOUS
    <3>1. disk[k] \in Entries
      BY DEF RecordsOK
    <3> DEFINE r == Restored(disk[k])
    <3>2. r \in Records /\ r.status \in Terminal
      BY <3>1 DEF Entries, Records, Restored, NoRecord, Statuses, Terminal
    <3>3. Outcome(r) \in Terminal
      BY <3>2 DEF Outcome, Records
    <3>4. recs[k] = [r EXCEPT !.status = Outcome(r)]
      OBVIOUS
    <3> HIDE DEF r, recs
    <3> QED
      BY <3>2, <3>3, <3>4 DEF Records, Statuses
  <2>a. \A k \in DOMAIN disk : disk[k].id \in 1..issued /\ disk[k].id \in Ids
    BY DEF JobsShape, BackendOK, Ids
  <2>b. disk' = disk \/ \E k \in DOMAIN disk : disk' = File(k)
    BY DEF Restore
  <2>c. disk' \in Seq(Entries) /\ Len(disk') <= Len(disk) /\ \A k \in DOMAIN disk' : disk'[k].id = disk[k].id
    <3>1. CASE disk' = disk
      BY <3>1 DEF RecordsOK
    <3>2. ASSUME NEW k \in DOMAIN disk, disk' = File(k)
          PROVE  disk' \in Seq(Entries) /\ Len(disk') <= Len(disk) /\ \A n \in DOMAIN disk' : disk'[n].id = disk[n].id
      <4>1. k \in Nat /\ k <= Len(disk) /\ \A n \in 1..k : n \in DOMAIN disk
        BY <3>2 DEF RecordsOK
      <4>2. ASSUME NEW n \in 1..k PROVE Entry(disk[n].id, recs[n]) \in Entries
        <5>1. recs[n] \in Records /\ recs[n].status \in Terminal /\ disk[n].id \in Ids
          BY <2>0, <2>a, <4>1, <4>2
        <5> HIDE DEF recs
        <5> QED
          BY <5>1 DEF Entry, Entries, Records, Statuses
      <4>3. \A n \in 1..k : File(k)[n].id = disk[n].id
        BY DEF Entry
      <4> HIDE DEF recs
      <4> QED
        BY <3>2, <4>1, <4>2, <4>3, SMTT(30)
    <3> QED
      BY <2>b, <3>1, <3>2
  <2>d. /\ jobs' \in Seq(Ids) /\ Len(jobs') = Len(disk)
        /\ \A k \in DOMAIN jobs' : k \in DOMAIN disk /\ jobs'[k] = disk[k].id
    <3>1. jobs' = [k \in 1..Len(disk) |-> disk[k].id] /\ Len(disk) \in Nat
      BY DEF Restore, RecordsOK
    <3>2. \A k \in 1..Len(disk) : disk[k].id \in Ids
      BY <2>a DEF RecordsOK
    <3>3. DOMAIN disk = 1..Len(disk)
      BY DEF RecordsOK
    <3> HIDE <1>16
    <3> QED
      BY <3>1, <3>2, <3>3
  <2>e. /\ record' \in [Ids -> Records]
        /\ \A k \in DOMAIN disk : record'[disk[k].id].status \in Terminal
    <3>1. record' = [i \in Ids |-> IF \E k \in DOMAIN disk : disk[k].id = i
                                   THEN recs[CHOOSE k \in DOMAIN disk : disk[k].id = i]
                                   ELSE NoRecord]
      BY DEF Restore
    <3>2. NoRecord \in Records
      BY DEF NoRecord, Records
    <3> HIDE DEF recs
    <3> QED
      BY <2>0, <2>a, <3>1, <3>2
  <2>1. HostOK'
    <3>1. restarts < MaxRestarts
      BY Zenon DEF HostOK
    <3>2. restarts' \in 0..MaxRestarts
      BY <3>1 DEF HostOK
    <3> QED
      BY <3>2 DEF HostOK
  <2>2. BackendOK'
    BY DEF BackendOK, Statuses, Terminal, Unknown, Ids, BackendJobs
  <2>3. RecordsOK'
    <3>1. IsFiniteSet(DOMAIN disk) /\ Len(disk) \in Nat
      BY FS_Interval DEF RecordsOK
    <3>2. \A S \in SUBSET DOMAIN disk : Cardinality(S) \in Nat
      BY <3>1, FS_Subset, FS_CardinalityType
    <3>3. counts' \in [Terminal -> Nat]
      <4>1. counts' = [s \in Terminal |-> Cardinality({k \in DOMAIN disk : recs[k].status = s})]
        BY DEF Restore
      <4> HIDE DEF recs
      <4> QED
        BY <3>2, <4>1
    <3>4. totalDurationMs' \in Nat
      <4> DEFINE saves == {k \in DOMAIN disk : disk[k].result # "none"}
      <4>1. totalDurationMs' = Cardinality({k \in saves : disk[k].backend = "local"})
        BY DEF Restore
      <4> QED
        BY <3>2, <4>1
    <3>5. jobsSubmitted' \in Nat
      BY <3>1 DEF Restore
    <3>6. tracker' \in [Ids -> Terminal \cup {"none", "waiting", "rejected"}]
      OBVIOUS
    <3> QED
      BY <2>c, <2>d, <2>e, <3>3, <3>4, <3>5, <3>6 DEF RecordsOK
  <2>4. CallersOK'
    BY DEF CallersOK, Requests, Idle, Steps
  <2>5. CallerShape'
    BY DEF CallerShape, JobsShape, CallersOK, BackendOK, RecordsOK, Idle, Ids, Statuses,
       Terminal, Unknown, BackendJobs, Requests
  <2>6. JobsShape'
    <3>1. \A k \in DOMAIN jobs' : jobs'[k] \in 1..issued /\ record'[jobs'[k]].status \in Statuses
      BY <2>a, <2>d, <2>e DEF Statuses
    <3>2. \A k \in DOMAIN disk' : k \in DOMAIN disk
      BY <2>c DEF RecordsOK
    <3> QED
      BY <2>a, <2>c, <3>1, <3>2 DEF JobsShape
  <2>7. ProcessShape'
    BY DEF ProcessShape, DisposeKills, BackendOK, HostOK, Unknown, Ids, BackendJobs
  <2>8. BudgetShape'
    <3>1. InFlight' = {}
      BY DEF InFlight, Idle
    <3>2. Cardinality(InFlight') = 0
      BY <3>1, FS_EmptySet
    <3>3. jobsSubmitted' = Len(disk)
      BY DEF Restore
    <3>4. Len(disk') <= Slack /\ Len(disk) <= Slack
      BY <2>c, WithinSlack DEF RecordsOK
    <3> QED
      BY <2>d, <3>2, <3>3, <3>4, WithinSlack DEF BudgetShape, JobBudget, Slack, RecordsOK
  <2> QED
    BY <2>1, <2>2, <2>3, <2>4, <2>5, <2>6, <2>7, <2>8 DEF IInv, TypeOK
<1>17. CASE UNCHANGED vars
  BY <1>17 DEF vars, HostOK, BackendOK, RecordsOK, CallersOK, CallerShape, JobsShape,
     ProcessShape, DisposeKills, BudgetShape, JobBudget, InFlight
<1> HIDE DEF IInv, TypeOK
<1> QED
  BY <1>1, <1>2, <1>3, <1>4, <1>5, <1>6, <1>7, <1>8, <1>9, <1>10, <1>11, <1>12, <1>13, <1>14,
     <1>15, <1>16, <1>17
  DEF Next, Request, Segment, Tracking

\* IInv is an invariant of the runtime.
THEOREM IInvHolds == Spec => []IInv
  BY InitIInv, StepIInv, PTL DEF Spec

\* Type correctness: records, counters, requests and the state file are well formed
\* in every reachable state, across crashes and restores.
THEOREM TypeCorrect == Spec => []TypeOK
<1>1. IInv => TypeOK
  BY DEF IInv
<1> QED
  BY <1>1, IInvHolds, PTL

\* maxJobs, checked before an await and counted after it, is exceeded by at most the
\* number of other submissions that can be in flight, also across restarts.
THEOREM JobBudgetHolds == Spec => []JobBudget
<1>1. IInv => JobBudget
  BY DEF IInv, BudgetShape
<1> QED
  BY <1>1, IInvHolds, PTL

\* After the shutdown signal every local process that still lives has been killed,
\* whatever was between its checks and its start when the signal came.
THEOREM ShutdownKills == Spec => []DisposeKills
<1>1. IInv => DisposeKills
  BY DEF IInv, ProcessShape
<1> QED
  BY <1>1, IInvHolds, PTL
=============================================================================
