--------------------------- MODULE DiscoveryEngine ---------------------------
(***************************************************************************)
(* One campaign of the discovery engine (core/discovery/engine.ts) and its *)
(* file (core/discovery/persistence.ts).  Operations of the engine run on  *)
(* one thread, and give way to each other only where they await the        *)
(* compute runtime: a call is "submit" while it awaits compute.submit and  *)
(* "result" while it awaits compute.result.  Every change of the campaign  *)
(* is followed by _touch or _persist, which rewrites the file, except the  *)
(* counters of a replication, which are saved when it ends.  Writes of the *)
(* file never fail here.                                                   *)
(*                                                                         *)
(* A result is its status and the objective score of its metrics           *)
(* (NoObjective: no metric has a direction); the campaign's file is a copy *)
(* of what _persist saves.  Of the four archives the elites are modelled:  *)
(* the others are kept by the same filter and push under other tests.      *)
(***************************************************************************)
EXTENDS Integers, FiniteSets, SequencesExt

CONSTANTS Experiences,     \* ids experiences may get
          Calls,           \* operations that may be in progress at a time
          MaxExperiences,  \* budgets.maxExperiences
          MaxComputeJobs,  \* budgets.maxComputeJobs
          Seeds,           \* how many seeds replicate may be given
          MaxScore,        \* scores kept are 0..MaxScore for 0..1, in steps
          MaxAttached,     \* bound: results attached from outside
          MaxScored,       \* bound: scores asked for by a caller
          MaxCrashes       \* bound: stops of the host

NoObjective == -2   \* objectiveScore returned undefined
NoScore == -1       \* the experience has not been scored
None == "none"

ASSUME DiscoveryAssumption ==
    /\ IsFiniteSet(Experiences) /\ IsFiniteSet(Calls) /\ Calls # {}
    /\ MaxExperiences \in Nat \ {0}
    /\ MaxComputeJobs \in Nat \ {0}
    /\ Seeds \subseteq 1..20
    /\ MaxScore \in Nat /\ MaxScore % 2 = 0
    /\ MaxAttached \in Nat
    /\ MaxScored \in Nat
    /\ MaxCrashes \in Nat

VARIABLES
    campaign,   \* status, usage and elites of the campaign
    exps,       \* experience -> status and score
    file,       \* what the campaign's file holds
    calls,      \* call -> what it awaits, for which experience
    attached,   \* results attached from outside (counted for the properties)
    scored,     \* calls of scoreExperience so far
    curated,    \* experiences whose archives a caller chose
    orphans,    \* experiences that no call awaits: the host stopped, or compute.result threw
    unanswered, \* jobs whose result the compute runtime refused (for the properties)
    crashes

vars == <<campaign, exps, file, calls, attached, scored, curated, orphans, unanswered, crashes>>

Scores == 0..MaxScore
Given == (-1)..(MaxScore + 1)  \* a caller may give any number, below 0 and above 1 too
Measured == Scores \cup {NoObjective}    \* what objectiveScore makes of the metrics
Objectives == Given \cup {NoObjective}   \* override.score ?? objectiveScore(...)
Recorded == {e \in Experiences : exps[e].status # "absent"}
Idle == [pc |-> "idle", op |-> None, exp |-> None, left |-> 0]

\* createCampaign: the campaign is active and already saved.
NewCampaign ==
    [status |-> "active", elites |-> <<>>,
     usage |-> [submitted |-> 0, completed |-> 0, failed |-> 0]]

Init ==
    /\ campaign = NewCampaign
    /\ exps = [e \in Experiences |-> [status |-> "absent", score |-> NoScore]]
    /\ file = [campaign |-> campaign, exps |-> exps]
    /\ calls = [c \in Calls |-> Idle]
    /\ attached = 0
    /\ scored = 0
    /\ curated = {}
    /\ orphans = {}
    /\ unanswered = 0
    /\ crashes = 0

(***************************************************************************)
(* _touch and _persist: the file is replaced by the campaign as it is.     *)
(***************************************************************************)
Persist(cam, ex) ==
    /\ campaign' = cam
    /\ exps' = ex
    /\ file' = [campaign |-> cam, exps |-> ex]

Exhaust == Persist([campaign EXCEPT !.status = "budget_exhausted"], exps)

\* checkBudgets, which counts experiences and jobs and reads the clock; late
\* says that maxWallTimeMs has passed.  The engine never raises tokensClaimed.
BudgetHit(late) ==
    \/ Cardinality(Recorded) >= MaxExperiences
    \/ campaign.usage.submitted >= MaxComputeJobs
    \/ late

Counted(cam, ok) ==
    IF ok THEN [cam EXCEPT !.usage.completed = @ + 1]
          ELSE [cam EXCEPT !.usage.failed = @ + 1]

(***************************************************************************)
(* _scoreExperience: the score, clamped to 0..1 and 0.5 where there is no  *)
(* objective, and the place among the elites: the experience is taken out  *)
(* and, if it is valid and its objective, not clamped, is better than      *)
(* every other score kept so far, appended again.                          *)
(***************************************************************************)
BestSoFar(e, objective) ==
    /\ objective # NoObjective
    /\ \A k \in Experiences \ {e} : exps[k].score # NoScore => objective > exps[k].score

\* The experience keeps the place it had among the elites.
RescoredInPlace(cam, e, elite) ==
    [cam EXCEPT !.elites = IF elite /\ ~Contains(@, e) THEN Append(@, e) ELSE @]

\* filter((id) => id !== e)
Others(ids, e) == FlattenSeq([i \in DOMAIN ids |-> IF ids[i] = e THEN <<>> ELSE <<ids[i]>>])

Rescored(cam, e, elite) ==
    [cam EXCEPT !.elites = IF elite THEN Append(Others(@, e), e) ELSE Others(@, e)]

Clamp01(x) == IF x < 0 THEN 0 ELSE IF x > MaxScore THEN MaxScore ELSE x

WithScore(ex, e, objective) ==
    [ex EXCEPT ![e].score = IF objective = NoObjective THEN MaxScore \div 2 ELSE Clamp01(objective)]

\* A cancelled result is counted and changes nothing of the experience.
ApplyResultUnlessCancelled(e, status, objective) ==
    LET cam == Counted(campaign, status = "completed")
        ex == [exps EXCEPT ![e].status = status]
    IN  IF status = "cancelled"
        THEN Persist(cam, exps) /\ UNCHANGED curated
        ELSE /\ \E valid \in {status = "completed", FALSE} :
                   Persist(Rescored(cam, e, valid /\ BestSoFar(e, objective)),
                           WithScore(ex, e, objective))
             /\ curated' = curated \ {e}

(***************************************************************************)
(* _applyResult: a result is counted and, unless it was cancelled, scored. *)
(* Whether a completed result is valid is its own claim.                   *)
(***************************************************************************)
ApplyResult(e, status, objective) ==
    LET cam == Counted(campaign, status = "completed")
        ex == [exps EXCEPT ![e].status = status]
    IN  IF status = "cancelled"
        THEN Persist(cam, ex) /\ UNCHANGED curated
        ELSE /\ \E valid \in {status = "completed", FALSE} :
                   Persist(Rescored(cam, e, valid /\ BestSoFar(e, objective)),
                           WithScore(ex, e, objective))
             /\ curated' = curated \ {e}

-----------------------------------------------------------------------------
(* Recording and executing an experience *)

Enter(c, op, pc, e, left) ==
    calls' = [calls EXCEPT ![c] = [pc |-> pc, op |-> op, exp |-> e, left |-> left]]

\* recordExperience: with execute it goes on, in the same step, to the
\* checks of executeExperience, which an experience just recorded under
\* unspent budgets passes.
RecordExperience(c, execute, late) ==
    /\ calls[c].pc = "idle"
    /\ campaign.status = "active"
    /\ IF BudgetHit(late)
       THEN Exhaust /\ UNCHANGED calls
       ELSE \E e \in Experiences \ Recorded :
               /\ Persist(campaign, [exps EXCEPT ![e].status = "pending"])
               /\ IF execute THEN Enter(c, "execute", "submit", e, 1)
                             ELSE UNCHANGED calls
    /\ UNCHANGED <<attached, scored, curated, orphans, unanswered, crashes>>

\* executeExperience up to its await of compute.submit.
ExecuteExperience(c, e) ==
    /\ calls[c].pc = "idle"
    /\ campaign.status = "active"
    /\ exps[e].status \notin {"absent", "completed", "running"}
    /\ IF campaign.usage.submitted >= MaxComputeJobs
       THEN Exhaust /\ UNCHANGED calls
       ELSE Enter(c, "execute", "submit", e, 1) /\ UNCHANGED <<campaign, exps, file>>
    /\ UNCHANGED <<attached, scored, curated, orphans, unanswered, crashes>>

\* The status is set, and the file written, only with the result.
SubmittedUnsaved(c) ==
    /\ calls[c].pc = "submit" /\ calls[c].op = "execute"
    /\ campaign' = [campaign EXCEPT !.usage.submitted = @ + 1]
    /\ exps' = [exps EXCEPT ![calls[c].exp].status = "running"]
    /\ calls' = [calls EXCEPT ![c].pc = "result"]
    /\ orphans' = orphans \ {calls[c].exp}
    /\ UNCHANGED <<file, attached, scored, curated, unanswered, crashes>>

\* The compute runtime took the job of an execution: it is counted and the
\* experience is running, whatever happened to it meanwhile.
Submitted(c) ==
    /\ calls[c].pc = "submit" /\ calls[c].op = "execute"
    /\ Persist([campaign EXCEPT !.usage.submitted = @ + 1],
               [exps EXCEPT ![calls[c].exp].status = "running"])
    /\ calls' = [calls EXCEPT ![c].pc = "result"]
    /\ orphans' = orphans \ {calls[c].exp}
    /\ UNCHANGED <<attached, scored, curated, unanswered, crashes>>

\* The compute runtime refused the job: the call throws and, of what it had
\* done, nothing is taken back.
SubmitRefused(c) ==
    /\ calls[c].pc = "submit"
    /\ calls' = [calls EXCEPT ![c] = Idle]
    /\ UNCHANGED <<campaign, exps, file, attached, scored, curated, orphans, unanswered, crashes>>

\* A result that comes when the experience is no longer running is dropped.
ResultIfRunning(c) ==
    /\ calls[c].pc = "result" /\ calls[c].op = "execute"
    /\ IF exps[calls[c].exp].status = "running"
       THEN \E status \in {"completed", "failed", "cancelled"}, objective \in Measured :
               ApplyResult(calls[c].exp, status, objective)
       ELSE UNCHANGED <<campaign, exps, file, curated>>
    /\ calls' = [calls EXCEPT ![c] = Idle]
    /\ UNCHANGED <<attached, scored, orphans, unanswered, crashes>>

\* The compute runtime answered with the job's result.
Result(c) ==
    /\ calls[c].pc = "result" /\ calls[c].op = "execute"
    /\ \E status \in {"completed", "failed", "cancelled"}, objective \in Measured :
          ApplyResult(calls[c].exp, status, objective)
    /\ calls' = [calls EXCEPT ![c] = Idle]
    /\ UNCHANGED <<attached, scored, orphans, unanswered, crashes>>

\* compute.result throws, as that of a Kaggle job does while the job runs: so
\* does the call, and the experience it executes stays running.
ResultRefused(c) ==
    /\ calls[c].pc = "result"
    /\ calls' = [calls EXCEPT ![c] = Idle]
    /\ unanswered' = unanswered + 1
    /\ orphans' = IF calls[c].op = "execute" THEN orphans \cup {calls[c].exp} ELSE orphans
    /\ UNCHANGED <<campaign, exps, file, attached, scored, curated, crashes>>

-----------------------------------------------------------------------------
(* Operations that do not wait *)

\* attachResult: applied whatever the experience's status.
AttachResult(e) ==
    /\ attached < MaxAttached
    /\ e \in Recorded
    /\ \E status \in {"completed", "failed", "cancelled"}, objective \in Measured :
          ApplyResult(e, status, objective)
    /\ attached' = attached + 1
    /\ orphans' = orphans \ {e}
    /\ UNCHANGED <<calls, scored, unanswered, crashes>>

\* scoreExperience: the caller may give the objective, the validity and the
\* archives; what it does not give is computed again.
ScoreExperience(e) ==
    /\ scored < MaxScored
    /\ scored' = scored + 1
    /\ e \in Recorded
    /\ \E objective \in Objectives :
          \/ /\ \E valid \in BOOLEAN :
                   Persist(Rescored(campaign, e, valid /\ BestSoFar(e, objective)),
                           WithScore(exps, e, objective))
             /\ curated' = curated \ {e}
          \/ /\ \E elite \in BOOLEAN :
                   Persist(Rescored(campaign, e, elite), WithScore(exps, e, objective))
             /\ curated' = curated \cup {e}
    /\ UNCHANGED <<calls, attached, orphans, unanswered, crashes>>

\* pauseCampaign, resumeCampaign, complete and markBudgetExhausted.
SetStatus(from, to) ==
    /\ campaign.status \in from
    /\ Persist([campaign EXCEPT !.status = to], exps)
    /\ UNCHANGED <<calls, attached, scored, curated, orphans, unanswered, crashes>>

PauseCampaign == SetStatus({"active"}, "paused")
ResumeCampaign == SetStatus({"paused"}, "active")
Complete == SetStatus({"active", "paused", "completed", "budget_exhausted"}, "completed")
MarkBudgetExhausted ==
    SetStatus({"active", "paused", "completed", "budget_exhausted"}, "budget_exhausted")

\* setBaseline and summarize change only what the campaign reports, and save
\* the campaign.
Touch ==
    /\ Persist(campaign, exps)
    /\ UNCHANGED <<calls, attached, scored, curated, orphans, unanswered, crashes>>

-----------------------------------------------------------------------------
(* Replication: one job after the other, counted in memory only *)

\* The room for the seeds is not looked at.
ReplicateUnchecked(c, e, n, late) ==
    /\ calls[c].pc = "idle"
    /\ campaign.status = "active"
    /\ ~BudgetHit(late)
    /\ exps[e].status = "completed"
    /\ Enter(c, "replicate", "submit", e, n)
    /\ UNCHANGED <<campaign, exps, file, attached, scored, curated, orphans, unanswered, crashes>>

Replicate(c, e, n, late) ==
    /\ calls[c].pc = "idle"
    /\ campaign.status = "active"
    /\ IF BudgetHit(late)
       THEN Exhaust /\ UNCHANGED calls
       ELSE /\ exps[e].status = "completed"
            /\ campaign.usage.submitted + n <= MaxComputeJobs
            /\ Enter(c, "replicate", "submit", e, n)
            /\ UNCHANGED <<campaign, exps, file>>
    /\ UNCHANGED <<attached, scored, curated, orphans, unanswered, crashes>>

ReplicaSubmitted(c) ==
    /\ calls[c].pc = "submit" /\ calls[c].op = "replicate"
    /\ campaign' = [campaign EXCEPT !.usage.submitted = @ + 1]
    /\ calls' = [calls EXCEPT ![c].pc = "result"]
    /\ UNCHANGED <<exps, file, attached, scored, curated, orphans, unanswered, crashes>>

\* The result of one seed; after the last one the campaign is saved.
ReplicaResult(c) ==
    /\ calls[c].pc = "result" /\ calls[c].op = "replicate"
    /\ \E ok \in BOOLEAN :
          IF calls[c].left = 1
          THEN Persist(Counted(campaign, ok), exps) /\ calls' = [calls EXCEPT ![c] = Idle]
          ELSE /\ campaign' = Counted(campaign, ok)
               /\ calls' = [calls EXCEPT ![c].pc = "submit", ![c].left = @ - 1]
               /\ UNCHANGED <<exps, file>>
    /\ UNCHANGED <<attached, scored, curated, orphans, unanswered, crashes>>

-----------------------------------------------------------------------------
(* The host *)

\* The host stops and starts again: _restore reads the file, and no call of
\* the old process comes back for the experiences that were running.
Restart ==
    /\ crashes < MaxCrashes
    /\ crashes' = crashes + 1
    /\ campaign' = file.campaign
    /\ exps' = file.exps
    /\ calls' = [c \in Calls |-> Idle]
    /\ orphans' = {e \in Experiences : exps'[e].status = "running"}
    /\ unanswered' = 0
    /\ UNCHANGED <<file, attached, scored, curated>>

\* What the compute runtime answers to a call.
Answer(c) ==
    \/ Submitted(c) \/ SubmitRefused(c) \/ Result(c) \/ ResultRefused(c)
    \/ ReplicaSubmitted(c) \/ ReplicaResult(c)

Next ==
    \/ \E c \in Calls : Answer(c)
    \/ \E c \in Calls, execute, late \in BOOLEAN : RecordExperience(c, execute, late)
    \/ \E c \in Calls, e \in Experiences : ExecuteExperience(c, e)
    \/ \E c \in Calls, e \in Experiences, n \in Seeds, late \in BOOLEAN : Replicate(c, e, n, late)
    \/ \E e \in Experiences : AttachResult(e) \/ ScoreExperience(e)
    \/ PauseCampaign \/ ResumeCampaign \/ Complete \/ MarkBudgetExhausted \/ Touch
    \/ Restart

Spec == Init /\ [][Next]_vars

-----------------------------------------------------------------------------
(* Properties *)

\* Jobs a call in progress may still submit.
Outstanding(c) ==
    CASE calls[c].pc = "submit" -> calls[c].left
      [] calls[c].pc = "result" -> calls[c].left - 1
      [] OTHER -> 0

\* The jobs calls in progress may still submit, numbered for each call.
Admitted == UNION {{c} \X (1..Outstanding(c)) : c \in Calls}

\* Calls whose job was counted and whose result was not.
Awaited == {c \in Calls : calls[c].pc = "result"}

\* The budget of compute jobs is looked at before compute.submit is awaited
\* and spent after it, so calls in progress together overrun it; but never by
\* more than what the other calls in progress had been admitted for, since the
\* last call admitted still found room for all of its jobs.
OverrunIsBounded ==
    LET most == Max(Seeds \cup {1})
    IN  campaign.usage.submitted + Cardinality(Admitted)
          <= MaxComputeJobs + (Cardinality(Calls) - 1) * most

\* Every job the campaign counts as submitted is counted once more, when its
\* result comes, as completed or as failed, however executions, replications
\* and attached results overlap; only a result the compute runtime refuses
\* stays uncounted.  A stop of the host loses results, and never makes one
\* count twice.
JobsCountedOnce ==
    LET u == campaign.usage
        ended == u.completed + u.failed + unanswered + Cardinality(Awaited)
    IN  /\ ended <= u.submitted + attached
        /\ crashes = 0 => ended = u.submitted + attached

Below(x, y) == x < y \/ (x = MaxScore /\ y = MaxScore)

\* The elites are listed from the worst to the best: each one not placed by
\* hand was, when it was scored last, better than all before it.  Scoring an
\* experience again, and a restart, keep the order.  Only the top score can be
\* shared: an objective above 1 beats an elite that has 1 and is itself kept as 1.
ElitesAscend ==
    LET elites == campaign.elites
    IN  \A i, j \in DOMAIN elites :
           i < j /\ elites[i] \notin curated /\ elites[j] \notin curated
              => Below(exps[elites[i]].score, exps[elites[j]].score)

\* At every moment a stop of the host would bring back the campaign's status,
\* its elites and all experiences as they are; only counters of replications
\* that have not ended may be lower in the file, never higher.
FileIsCurrent ==
    /\ file.exps = exps
    /\ file.campaign.status = campaign.status
    /\ file.campaign.elites = campaign.elites
    /\ \A k \in DOMAIN campaign.usage : file.campaign.usage[k] <= campaign.usage[k]

\* An experience is running only while a call awaits its job's result, so it
\* settles once the compute runtime answers, however executions of the same
\* experience overlap; the exceptions are the experiences a stop of the host,
\* or a compute.result that threw, left running: no later call may execute
\* them again, and only attachResult ends them.
RunningIsAwaited ==
    \A e \in Experiences \ orphans :
        exps[e].status = "running" =>
            \E c \in Awaited : calls[c].op = "execute" /\ calls[c].exp = e
=============================================================================
