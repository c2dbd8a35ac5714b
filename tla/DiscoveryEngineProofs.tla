----------------------- MODULE DiscoveryEngineProofs -----------------------
(***************************************************************************)
(* Proofs about DiscoveryEngine, for any budgets, any experiences and any  *)
(* number of calls in progress.                                            *)
(*                                                                         *)
(* The invariant adds to the properties the shape of the state, that a     *)
(* call in progress names an experience, and that the counters of the      *)
(* file, which a restart brings back, are consistent too.  On top of it    *)
(* stand the budget of jobs (BudgetInv) and the elites (EliteInv).         *)
(***************************************************************************)
EXTENDS DiscoveryEngine, FiniteSetTheorems, TLAPS

Usage == [submitted : Nat, completed : Nat, failed : Nat]

\* A campaign as the engine keeps it and as the file holds it.
IsCampaign(cam) ==
    /\ DOMAIN cam = {"status", "elites", "usage"}
    /\ cam.usage \in Usage

Statuses == {"absent", "pending", "running", "completed", "failed", "cancelled"}
ExperienceRecords == [Experiences -> [status : Statuses, score : Scores \cup {NoScore}]]

CallRecords == [Calls -> [pc : {"idle", "submit", "result"}, op : {"execute", "replicate", None},
                          exp : Experiences \cup {None}, left : Int]]

\* The types of the state; those of the elites are in EliteInv.
Shape ==
    /\ IsCampaign(campaign) /\ IsCampaign(file.campaign)
    /\ exps \in ExperienceRecords
    /\ calls \in CallRecords
    /\ attached \in Nat /\ unanswered \in Nat /\ crashes \in Nat

\* A call in progress is about an experience.
CallsAreAboutExperiences ==
    \A c \in Calls : calls[c].pc # "idle" => calls[c].exp \in Experiences

\* The file never counts more ends of jobs than starts and attached results.
FileCountsOnce ==
    file.campaign.usage.completed + file.campaign.usage.failed
        <= file.campaign.usage.submitted + attached

\* The inductive invariant.
IInv ==
    /\ Shape /\ CallsAreAboutExperiences /\ FileIsCurrent /\ RunningIsAwaited
    /\ JobsCountedOnce /\ FileCountsOnce

-----------------------------------------------------------------------------
(* What the engine's helpers keep *)

\* A step that saves the campaign leaves the file as it should be.
LEMMA PersistIsCurrent ==
    ASSUME NEW cam, NEW ex, IsCampaign(cam), Persist(cam, ex)
    PROVE  /\ IsCampaign(campaign') /\ IsCampaign(file'.campaign)
           /\ campaign' = cam /\ exps' = ex /\ file'.campaign = cam
           /\ FileIsCurrent'
<1>1. /\ campaign' = cam /\ exps' = ex
      /\ file'.campaign = cam /\ file'.exps = ex
      BY DEF Persist
<1>2. FileIsCurrent'
      BY <1>1 DEF FileIsCurrent, IsCampaign, Usage
<1>3. QED
      BY <1>1, <1>2

\* Counting a result adds one to the ends of jobs and nothing else.
LEMMA CountedOnce ==
    ASSUME NEW cam, IsCampaign(cam), NEW ok \in BOOLEAN
    PROVE  LET new == Counted(cam, ok)
           IN  /\ IsCampaign(new)
               /\ new.usage.submitted = cam.usage.submitted
               /\ new.usage.completed + new.usage.failed
                     = cam.usage.completed + cam.usage.failed + 1
      BY DEF Counted, IsCampaign, Usage

\* Scoring leaves the counters alone ...
LEMMA RescoredKeepsUsage ==
    ASSUME NEW cam, IsCampaign(cam), NEW e, NEW elite
    PROVE  IsCampaign(Rescored(cam, e, elite)) /\ Rescored(cam, e, elite).usage = cam.usage
      BY DEF Rescored, IsCampaign

\* ... and the status of every experience.
LEMMA ScoredKeepsStatus ==
    ASSUME NEW ex \in ExperienceRecords, NEW e \in Experiences,
           NEW objective \in Objectives
    PROVE  /\ WithScore(ex, e, objective) \in ExperienceRecords
           /\ \A k \in Experiences : WithScore(ex, e, objective)[k].status = ex[k].status
<1>1. MaxScore \div 2 \in Scores
      BY DiscoveryAssumption DEF Scores
<1>2. objective # NoObjective => Clamp01(objective) \in Scores
      BY DiscoveryAssumption DEF Clamp01, Objectives, Given, Scores
<1>3. (IF objective = NoObjective THEN MaxScore \div 2 ELSE Clamp01(objective)) \in Scores
      BY <1>1, <1>2
<1>4. QED
      BY <1>3 DEF WithScore, ExperienceRecords

Results == {"completed", "failed", "cancelled"}

\* What the metrics yield is one of the objectives a caller may give, or none.
LEMMA MeasuredObjectives == Measured \subseteq Objectives
      BY DiscoveryAssumption DEF Measured, Objectives, Given, Scores

\* _applyResult counts one end, settles the experience and saves.
LEMMA AppliedResult ==
    ASSUME Shape, NEW e \in Experiences, NEW status \in Results, NEW objective \in Objectives,
           ApplyResult(e, status, objective)
    PROVE  /\ IsCampaign(campaign') /\ IsCampaign(file'.campaign)
           /\ file'.campaign = campaign'
           /\ FileIsCurrent' /\ exps' \in ExperienceRecords
           /\ exps'[e].status = status
           /\ \A k \in Experiences \ {e} : exps'[k].status = exps[k].status
           /\ campaign'.usage.submitted = campaign.usage.submitted
           /\ campaign'.usage.completed + campaign'.usage.failed
                 = campaign.usage.completed + campaign.usage.failed + 1
<1> DEFINE cam == Counted(campaign, status = "completed")
           ex == [exps EXCEPT ![e].status = status]
<1>1. /\ IsCampaign(cam)
      /\ cam.usage.submitted = campaign.usage.submitted
      /\ cam.usage.completed + cam.usage.failed
            = campaign.usage.completed + campaign.usage.failed + 1
      BY CountedOnce DEF Shape
<1>2. /\ ex \in ExperienceRecords /\ ex[e].status = status
      /\ \A k \in Experiences \ {e} : ex[k].status = exps[k].status
      BY DEF Shape, ExperienceRecords, Statuses, Results
<1>3. CASE status = "cancelled"
  <2>1. Persist(cam, ex)
        BY <1>3 DEF ApplyResult
  <2>2. QED
        BY <1>1, <1>2, <2>1, PersistIsCurrent
<1>4. CASE status # "cancelled"
  <2>1. PICK valid \in {status = "completed", FALSE} :
            Persist(Rescored(cam, e, valid /\ BestSoFar(e, objective)),
                    WithScore(ex, e, objective))
        BY <1>4 DEF ApplyResult
  <2> DEFINE new == Rescored(cam, e, valid /\ BestSoFar(e, objective))
  <2>2. IsCampaign(new) /\ new.usage = cam.usage
        BY <1>1, RescoredKeepsUsage
  <2>3. /\ WithScore(ex, e, objective) \in ExperienceRecords
        /\ \A k \in Experiences : WithScore(ex, e, objective)[k].status = ex[k].status
        BY <1>2, ScoredKeepsStatus
  <2>4. /\ IsCampaign(campaign') /\ IsCampaign(file'.campaign)
        /\ campaign' = new /\ exps' = WithScore(ex, e, objective) /\ file'.campaign = new
        /\ FileIsCurrent'
        BY <2>1, <2>2, PersistIsCurrent
  <2> HIDE DEF new
  <2>5. QED
        BY <1>1, <1>2, <2>2, <2>3, <2>4
<1>5. QED
      BY <1>3, <1>4


-----------------------------------------------------------------------------
(* Counting *)

\* The calls that wait for a result are finitely many.
LEMMA AwaitedIsFinite == IsFiniteSet(Awaited) /\ Cardinality(Awaited) \in Nat
<1>1. IsFiniteSet(Awaited)
      BY DiscoveryAssumption, FS_Subset DEF Awaited
<1>2. QED
      BY <1>1, FS_CardinalityType

\* A job that is counted is awaited from then on.
LEMMA OneMoreAwaited ==
    ASSUME NEW c \in Calls, c \notin Awaited, Awaited' = Awaited \cup {c}
    PROVE  Cardinality(Awaited') = Cardinality(Awaited) + 1
      BY AwaitedIsFinite, FS_AddElement

\* A result that came is awaited no more.
LEMMA OneLessAwaited ==
    ASSUME NEW c \in Calls, c \in Awaited, Awaited' = Awaited \ {c}
    PROVE  Cardinality(Awaited') = Cardinality(Awaited) - 1
      BY AwaitedIsFinite, FS_RemoveElement

\* What a step may do to the counters: nothing, start a job, end one, give
\* one up, or count an attached result.
SameCounts ==
    campaign'.usage = campaign.usage /\ Awaited' = Awaited /\ UNCHANGED <<attached, unanswered>>
StartsJob(c) ==
    /\ c \notin Awaited /\ Awaited' = Awaited \cup {c} /\ UNCHANGED <<attached, unanswered>>
    /\ campaign'.usage.submitted = campaign.usage.submitted + 1
    /\ campaign'.usage.completed = campaign.usage.completed
    /\ campaign'.usage.failed = campaign.usage.failed
EndsOne ==
    /\ campaign'.usage.submitted = campaign.usage.submitted
    /\ campaign'.usage.completed + campaign'.usage.failed
          = campaign.usage.completed + campaign.usage.failed + 1
EndsJob(c) ==
    c \in Awaited /\ Awaited' = Awaited \ {c} /\ UNCHANGED <<attached, unanswered>> /\ EndsOne
GivesUp(c) ==
    /\ c \in Awaited /\ Awaited' = Awaited \ {c} /\ unanswered' = unanswered + 1
    /\ attached' = attached /\ campaign'.usage = campaign.usage
Attaches ==
    Awaited' = Awaited /\ attached' = attached + 1 /\ unanswered' = unanswered /\ EndsOne

\* Each of them keeps the account balanced.
LEMMA AccountKept ==
    ASSUME Shape, Shape', JobsCountedOnce, crashes' = crashes,
           SameCounts \/ (\E c \in Calls : StartsJob(c) \/ EndsJob(c) \/ GivesUp(c)) \/ Attaches
    PROVE  JobsCountedOnce'
<1>1. /\ Cardinality(Awaited) \in Nat
      /\ campaign.usage \in Usage /\ campaign'.usage \in Usage
      /\ attached \in Nat /\ attached' \in Nat /\ unanswered \in Nat
      BY AwaitedIsFinite DEF Shape, IsCampaign
<1>2. CASE SameCounts
      BY <1>1, <1>2 DEF SameCounts, JobsCountedOnce, Usage
<1>3. ASSUME NEW c \in Calls, StartsJob(c)
      PROVE  JobsCountedOnce'
  <2>1. Cardinality(Awaited') = Cardinality(Awaited) + 1
        BY <1>3, OneMoreAwaited DEF StartsJob
  <2>2. QED
        BY <1>1, <1>3, <2>1 DEF StartsJob, JobsCountedOnce, Usage
<1>4. ASSUME NEW c \in Calls, EndsJob(c)
      PROVE  JobsCountedOnce'
  <2>1. Cardinality(Awaited') = Cardinality(Awaited) - 1
        BY <1>4, OneLessAwaited DEF EndsJob
  <2>2. QED
        BY <1>1, <1>4, <2>1 DEF EndsJob, EndsOne, JobsCountedOnce, Usage
<1>5. ASSUME NEW c \in Calls, GivesUp(c)
      PROVE  JobsCountedOnce'
  <2>1. Cardinality(Awaited') = Cardinality(Awaited) - 1
        BY <1>5, OneLessAwaited DEF GivesUp
  <2>2. QED
        BY <1>1, <1>5, <2>1 DEF GivesUp, JobsCountedOnce, Usage
<1>6. CASE Attaches
      BY <1>1, <1>6 DEF Attaches, EndsOne, JobsCountedOnce, Usage
<1>7. QED
      BY <1>2, <1>3, <1>4, <1>5, <1>6

\* The file is either left alone or written with the account of this moment.
LEMMA FileAccountKept ==
    ASSUME Shape, Shape', FileCountsOnce, JobsCountedOnce', attached <= attached',
           file'.campaign \in {file.campaign, campaign'}
    PROVE  FileCountsOnce'
<1>1. Cardinality(Awaited') \in Nat
  <2>1. IsFiniteSet(Awaited')
        BY DiscoveryAssumption, FS_Subset DEF Awaited
  <2>2. QED
        BY <2>1, FS_CardinalityType
<1>2. CASE file'.campaign = file.campaign
      BY <1>2 DEF FileCountsOnce, Shape, IsCampaign, Usage
<1>3. CASE file'.campaign = campaign'
      BY <1>1, <1>3 DEF FileCountsOnce, JobsCountedOnce, Shape, IsCampaign, Usage
<1>4. QED
      BY <1>2, <1>3

-----------------------------------------------------------------------------
(* The actions *)

\* A step that changes no call that waits for a result.
NoAwaitedCallChanges ==
    /\ calls' \in CallRecords /\ CallsAreAboutExperiences'
    /\ Awaited' = Awaited /\ \A c \in Awaited : calls'[c] = calls[c]
    /\ UNCHANGED <<attached, orphans, unanswered, crashes>>

\* A step that saves, starts and ends no job and sets nothing running.
LEMMA QuietSave ==
    ASSUME IInv, NEW cam, IsCampaign(cam), cam.usage = campaign.usage,
           NEW ex \in ExperienceRecords,
           \A k \in Experiences : ex[k].status = "running" => exps[k].status = "running",
           Persist(cam, ex), NoAwaitedCallChanges
    PROVE  IInv'
<1>1. /\ IsCampaign(campaign') /\ IsCampaign(file'.campaign)
      /\ campaign' = cam /\ exps' = ex /\ file'.campaign = cam
      /\ FileIsCurrent'
      BY PersistIsCurrent
<1>2. Shape' /\ CallsAreAboutExperiences'
      BY <1>1 DEF IInv, Shape, NoAwaitedCallChanges, CallRecords
<1>3. RunningIsAwaited'
      BY <1>1 DEF IInv, RunningIsAwaited, NoAwaitedCallChanges
<1>4. JobsCountedOnce'
  <2>1. SameCounts /\ crashes' = crashes
        BY <1>1 DEF SameCounts, NoAwaitedCallChanges
  <2>2. QED
        BY <1>2, <2>1, AccountKept DEF IInv
<1>5. FileCountsOnce'
  <2>1. attached <= attached'
        BY DEF IInv, Shape, NoAwaitedCallChanges
  <2>2. QED
        BY <1>1, <1>2, <1>4, <2>1, FileAccountKept DEF IInv
<1>6. QED
      BY <1>1, <1>2, <1>3, <1>4, <1>5 DEF IInv

\* A step that changes nothing but calls which do not wait for a result.
LEMMA QuietCall ==
    ASSUME IInv, UNCHANGED <<campaign, exps, file>>, NoAwaitedCallChanges
    PROVE  IInv'
<1>1. Shape' /\ CallsAreAboutExperiences' /\ FileIsCurrent'
      BY DEF IInv, Shape, FileIsCurrent, NoAwaitedCallChanges, CallRecords
<1>2. RunningIsAwaited'
      BY DEF IInv, RunningIsAwaited, NoAwaitedCallChanges
<1>3. JobsCountedOnce' /\ FileCountsOnce'
      BY DEF IInv, JobsCountedOnce, FileCountsOnce, NoAwaitedCallChanges
<1>4. QED
      BY <1>1, <1>2, <1>3 DEF IInv

\* An idle call that starts waits for compute.submit first.
LEMMA EnteredCall ==
    ASSUME IInv, NEW c \in Calls, calls[c].pc = "idle", NEW e \in Experiences,
           NEW op \in {"execute", "replicate"}, NEW left \in Int,
           Enter(c, op, "submit", e, left), UNCHANGED <<attached, orphans, unanswered, crashes>>
    PROVE  NoAwaitedCallChanges
<1>1. calls \in CallRecords
      BY DEF IInv, Shape
<1>2. calls' \in CallRecords /\ \A k \in Calls \ {c} : calls'[k] = calls[k]
      BY <1>1 DEF Enter, CallRecords
<1>3. calls'[c].pc = "submit" /\ calls'[c].exp = e
      BY <1>1 DEF Enter, CallRecords
<1>4. QED
      BY <1>1, <1>2, <1>3 DEF IInv, NoAwaitedCallChanges, CallsAreAboutExperiences, Awaited

\* Steps that leave all calls alone.
LEMMA UnchangedCalls ==
    ASSUME IInv, UNCHANGED <<calls, attached, orphans, unanswered, crashes>>
    PROVE  NoAwaitedCallChanges
      BY DEF IInv, Shape, CallRecords, NoAwaitedCallChanges, CallsAreAboutExperiences, Awaited

\* A change of status, as checkBudgets and the four operations on it make it.
LEMMA StatusKept ==
    ASSUME IInv, NEW to, Persist([campaign EXCEPT !.status = to], exps),
           UNCHANGED <<calls, attached, orphans, unanswered, crashes>>
    PROVE  IInv'
<1>1. LET cam == [campaign EXCEPT !.status = to]
      IN  IsCampaign(cam) /\ cam.usage = campaign.usage
      BY DEF IInv, Shape, IsCampaign
<1>2. exps \in ExperienceRecords
      BY DEF IInv, Shape
<1>3. QED
      BY <1>1, <1>2, QuietSave, UnchangedCalls

\* recordExperience adds a pending experience or finds a budget spent.
LEMMA RecordExperienceKept ==
    ASSUME IInv, NEW c \in Calls, NEW execute \in BOOLEAN, NEW late \in BOOLEAN,
           RecordExperience(c, execute, late)
    PROVE  IInv'
<1>1. CASE BudgetHit(late)
      BY <1>1, StatusKept DEF RecordExperience, Exhaust
<1>2. CASE ~BudgetHit(late)
  <2>1. PICK e \in Experiences \ Recorded :
            /\ Persist(campaign, [exps EXCEPT ![e].status = "pending"])
            /\ IF execute THEN Enter(c, "execute", "submit", e, 1) ELSE UNCHANGED calls
        BY <1>2 DEF RecordExperience
  <2> DEFINE ex == [exps EXCEPT ![e].status = "pending"]
  <2>2. /\ ex \in ExperienceRecords
        /\ \A k \in Experiences : ex[k].status = "running" => exps[k].status = "running"
        BY DEF IInv, Shape, ExperienceRecords, Statuses
  <2>3. NoAwaitedCallChanges
        BY <2>1, EnteredCall, UnchangedCalls DEF RecordExperience
  <2>4. IsCampaign(campaign)
        BY DEF IInv, Shape
  <2>5. QED
        BY <2>1, <2>2, <2>3, <2>4, QuietSave
<1>3. QED
      BY <1>1, <1>2

\* executeExperience up to its first await.
LEMMA ExecuteExperienceKept ==
    ASSUME IInv, NEW c \in Calls, NEW e \in Experiences, ExecuteExperience(c, e)
    PROVE  IInv'
<1>1. CASE campaign.usage.submitted >= MaxComputeJobs
      BY <1>1, StatusKept DEF ExecuteExperience, Exhaust
<1>2. CASE ~(campaign.usage.submitted >= MaxComputeJobs)
      BY <1>2, EnteredCall, QuietCall DEF ExecuteExperience
<1>3. QED
      BY <1>1, <1>2

\* replicate up to its first await.
LEMMA ReplicateKept ==
    ASSUME IInv, NEW c \in Calls, NEW e \in Experiences, NEW n \in Seeds, NEW late \in BOOLEAN,
           Replicate(c, e, n, late)
    PROVE  IInv'
<1>1. CASE BudgetHit(late)
      BY <1>1, StatusKept DEF Replicate, Exhaust
<1>2. CASE ~BudgetHit(late)
  <2>1. n \in Int
        BY DiscoveryAssumption
  <2>2. QED
        BY <1>2, <2>1, EnteredCall, QuietCall DEF Replicate
<1>3. QED
      BY <1>1, <1>2

\* A call that throws waits for nothing.
LEMMA SubmitRefusedKept ==
    ASSUME IInv, NEW c \in Calls, SubmitRefused(c)
    PROVE  IInv'
<1>1. calls \in CallRecords
      BY DEF IInv, Shape
<1>2. calls' \in CallRecords /\ \A k \in Calls \ {c} : calls'[k] = calls[k]
      BY <1>1 DEF SubmitRefused, CallRecords, Idle
<1>3. calls'[c].pc = "idle"
      BY <1>1 DEF SubmitRefused, CallRecords, Idle
<1>4. NoAwaitedCallChanges
      BY <1>1, <1>2, <1>3 DEF IInv, SubmitRefused, NoAwaitedCallChanges,
         CallsAreAboutExperiences, Awaited
<1>5. QED
      BY <1>4, QuietCall DEF SubmitRefused

\* scoreExperience changes scores and elites only.
LEMMA ScoreExperienceKept ==
    ASSUME IInv, NEW e \in Experiences, ScoreExperience(e)
    PROVE  IInv'
<1>1. PICK objective \in Objectives, elite \in BOOLEAN :
          Persist(Rescored(campaign, e, elite), WithScore(exps, e, objective))
      BY DEF ScoreExperience, BestSoFar
<1>2. /\ IsCampaign(Rescored(campaign, e, elite))
      /\ Rescored(campaign, e, elite).usage = campaign.usage
      BY RescoredKeepsUsage DEF IInv, Shape
<1>3. /\ WithScore(exps, e, objective) \in ExperienceRecords
      /\ \A k \in Experiences : WithScore(exps, e, objective)[k].status = exps[k].status
      BY ScoredKeepsStatus DEF IInv, Shape
<1>4. NoAwaitedCallChanges
      BY UnchangedCalls DEF ScoreExperience
<1>5. QED
      BY <1>1, <1>2, <1>3, <1>4, QuietSave

\* setBaseline and summarize save the campaign as it is.
LEMMA TouchKept ==
    ASSUME IInv, Touch
    PROVE  IInv'
<1>1. IsCampaign(campaign) /\ exps \in ExperienceRecords
      BY DEF IInv, Shape
<1>2. QED
      BY <1>1, QuietSave, UnchangedCalls DEF Touch

\* The call that waits for the job is there before the experience is running.
LEMMA SubmittedKept ==
    ASSUME IInv, NEW c \in Calls, Submitted(c)
    PROVE  IInv'
<1> DEFINE e == calls[c].exp
           cam == [campaign EXCEPT !.usage.submitted = @ + 1]
           ex == [exps EXCEPT ![e].status = "running"]
<1>1. /\ calls \in CallRecords /\ e \in Experiences
      /\ calls[c].pc = "submit" /\ calls[c].op = "execute"
      BY DEF IInv, Shape, CallRecords, CallsAreAboutExperiences, Submitted
<1>2. /\ IsCampaign(cam) /\ cam.usage.submitted = campaign.usage.submitted + 1
      /\ cam.usage.completed = campaign.usage.completed /\ cam.usage.failed = campaign.usage.failed
      BY DEF IInv, Shape, IsCampaign, Usage
<1>3. ex \in ExperienceRecords /\ \A k \in Experiences \ {e} : ex[k].status = exps[k].status
      BY <1>1 DEF IInv, Shape, ExperienceRecords, Statuses
<1>4. /\ calls' \in CallRecords /\ \A k \in Calls \ {c} : calls'[k] = calls[k]
      /\ calls'[c].pc = "result" /\ calls'[c].op = "execute" /\ calls'[c].exp = e
      BY <1>1 DEF Submitted, CallRecords
<1>5. Persist(cam, ex)
      BY DEF Submitted
<1> HIDE DEF cam, ex, e
<1>6. /\ IsCampaign(campaign') /\ IsCampaign(file'.campaign)
      /\ campaign' = cam /\ exps' = ex /\ file'.campaign = cam
      /\ FileIsCurrent'
      BY <1>2, <1>5, PersistIsCurrent
<1>7. /\ attached' = attached /\ unanswered' = unanswered /\ crashes' = crashes
      /\ orphans \ {e} \subseteq orphans' /\ orphans' \subseteq orphans
      BY DEF Submitted, e
<1>8. Shape' /\ CallsAreAboutExperiences'
      BY <1>1, <1>3, <1>4, <1>6, <1>7 DEF IInv, Shape, CallRecords, CallsAreAboutExperiences
<1>9. RunningIsAwaited'
  <2>1. SUFFICES ASSUME NEW k \in Experiences \ orphans', exps'[k].status = "running"
                 PROVE  \E d \in Calls : /\ calls'[d].pc = "result"
                                        /\ calls'[d].op = "execute" /\ calls'[d].exp = k
        BY DEF RunningIsAwaited, Awaited
  <2>2. CASE k = e
        BY <1>4, <2>2
  <2>3. CASE k # e
    <3>1. PICK d \in Awaited : calls[d].op = "execute" /\ calls[d].exp = k
          BY <1>3, <1>6, <1>7, <2>1, <2>3 DEF IInv, RunningIsAwaited
    <3>2. d \in Calls /\ d # c /\ calls[d].pc = "result"
          BY <1>1, <3>1 DEF Awaited
    <3>3. QED
          BY <1>4, <3>1, <3>2
  <2>4. QED
        BY <2>2, <2>3
<1>10. JobsCountedOnce'
  <2>1. StartsJob(c)
        BY <1>1, <1>2, <1>4, <1>6, <1>7 DEF StartsJob, Awaited
  <2>2. QED
        BY <1>7, <1>8, <2>1, AccountKept DEF IInv
<1>11. FileCountsOnce'
  <2>1. attached <= attached'
        BY <1>7 DEF IInv, Shape
  <2>2. QED
        BY <1>6, <1>8, <1>10, <2>1, FileAccountKept DEF IInv
<1>12. QED
      BY <1>6, <1>8, <1>9, <1>10, <1>11 DEF IInv

\* The call that waited settles its experience, and only this one.
LEMMA ResultKept ==
    ASSUME IInv, NEW c \in Calls, Result(c)
    PROVE  IInv'
<1> DEFINE e == calls[c].exp
<1>1. /\ calls \in CallRecords /\ e \in Experiences
      /\ calls[c].pc = "result" /\ calls[c].op = "execute"
      BY DEF IInv, Shape, CallRecords, CallsAreAboutExperiences, Result
<1>2. PICK status \in Results, objective \in Objectives : ApplyResult(e, status, objective)
      BY MeasuredObjectives DEF Result, Results
<1>3. /\ calls' \in CallRecords /\ \A k \in Calls \ {c} : calls'[k] = calls[k]
      /\ calls'[c].pc = "idle"
      BY <1>1 DEF Result, CallRecords, Idle
<1>4. UNCHANGED <<attached, unanswered, crashes, orphans>>
      BY DEF Result
<1> HIDE DEF e
<1>5. /\ IsCampaign(campaign') /\ IsCampaign(file'.campaign)
      /\ file'.campaign = campaign'
      /\ FileIsCurrent' /\ exps' \in ExperienceRecords
      /\ exps'[e].status = status
      /\ \A k \in Experiences \ {e} : exps'[k].status = exps[k].status
      /\ EndsOne
      BY <1>1, <1>2, AppliedResult DEF IInv, EndsOne
<1>6. Shape' /\ CallsAreAboutExperiences'
      BY <1>1, <1>3, <1>4, <1>5 DEF IInv, Shape, CallRecords, CallsAreAboutExperiences
<1>7. RunningIsAwaited'
  <2>1. SUFFICES ASSUME NEW k \in Experiences \ orphans', exps'[k].status = "running"
                 PROVE  \E d \in Calls : /\ calls'[d].pc = "result"
                                        /\ calls'[d].op = "execute" /\ calls'[d].exp = k
        BY DEF RunningIsAwaited, Awaited
  <2>2. k # e /\ exps[k].status = "running" /\ k \notin orphans
        BY <1>4, <1>5, <2>1 DEF Results
  <2>3. PICK d \in Awaited : calls[d].op = "execute" /\ calls[d].exp = k
        BY <2>2 DEF IInv, RunningIsAwaited
  <2>4. d \in Calls /\ d # c /\ calls[d].pc = "result"
        BY <2>2, <2>3 DEF Awaited, e
  <2>5. QED
        BY <1>3, <2>3, <2>4
<1>8. JobsCountedOnce'
  <2>1. EndsJob(c)
        BY <1>1, <1>3, <1>4, <1>5 DEF EndsJob, Awaited
  <2>2. QED
        BY <1>4, <1>6, <2>1, AccountKept DEF IInv
<1>9. FileCountsOnce'
  <2>1. attached <= attached'
        BY <1>4 DEF IInv, Shape
  <2>2. QED
        BY <1>5, <1>6, <1>8, <2>1, FileAccountKept DEF IInv
<1>10. QED
      BY <1>5, <1>6, <1>7, <1>8, <1>9 DEF IInv

\* A call whose result is refused leaves its experience without anyone to wait.
LEMMA ResultRefusedKept ==
    ASSUME IInv, NEW c \in Calls, ResultRefused(c)
    PROVE  IInv'
<1>1. calls \in CallRecords /\ calls[c].pc = "result"
      BY DEF IInv, Shape, ResultRefused
<1>2. /\ calls' \in CallRecords /\ \A k \in Calls \ {c} : calls'[k] = calls[k]
      /\ calls'[c].pc = "idle"
      BY <1>1 DEF ResultRefused, CallRecords, Idle
<1>3. /\ UNCHANGED <<campaign, exps, file, attached, crashes>>
      /\ unanswered' = unanswered + 1 /\ orphans \subseteq orphans'
      /\ calls[c].op = "execute" => calls[c].exp \in orphans'
      BY DEF ResultRefused
<1>4. Shape' /\ CallsAreAboutExperiences'
      BY <1>1, <1>2, <1>3 DEF IInv, Shape, CallRecords, CallsAreAboutExperiences
<1>5. FileIsCurrent' /\ FileCountsOnce'
      BY <1>3 DEF IInv, FileIsCurrent, FileCountsOnce
<1>6. RunningIsAwaited'
  <2>1. SUFFICES ASSUME NEW k \in Experiences \ orphans', exps'[k].status = "running"
                 PROVE  \E d \in Calls : /\ calls'[d].pc = "result"
                                        /\ calls'[d].op = "execute" /\ calls'[d].exp = k
        BY DEF RunningIsAwaited, Awaited
  <2>2. PICK d \in Awaited : calls[d].op = "execute" /\ calls[d].exp = k
        BY <1>3, <2>1 DEF IInv, RunningIsAwaited
  <2>3. d \in Calls /\ d # c /\ calls[d].pc = "result"
        BY <1>3, <2>1, <2>2 DEF Awaited
  <2>4. QED
        BY <1>2, <2>2, <2>3
<1>7. JobsCountedOnce'
  <2>1. GivesUp(c)
        BY <1>1, <1>2, <1>3 DEF GivesUp, Awaited
  <2>2. QED
        BY <1>3, <1>4, <2>1, AccountKept DEF IInv
<1>8. QED
      BY <1>4, <1>5, <1>6, <1>7 DEF IInv

\* attachResult counts one end more, and one attached result more.
LEMMA AttachResultKept ==
    ASSUME IInv, NEW e \in Experiences, AttachResult(e)
    PROVE  IInv'
<1>1. PICK status \in Results, objective \in Objectives : ApplyResult(e, status, objective)
      BY MeasuredObjectives DEF AttachResult, Results
<1>2. /\ IsCampaign(campaign') /\ IsCampaign(file'.campaign)
      /\ file'.campaign = campaign'
      /\ FileIsCurrent' /\ exps' \in ExperienceRecords
      /\ exps'[e].status = status
      /\ \A k \in Experiences \ {e} : exps'[k].status = exps[k].status
      /\ EndsOne
      BY <1>1, AppliedResult DEF IInv, EndsOne
<1>3. /\ attached' = attached + 1 /\ UNCHANGED <<unanswered, crashes, calls>>
      /\ orphans' = orphans \ {e}
      BY DEF AttachResult
<1>4. Shape' /\ CallsAreAboutExperiences'
      BY <1>2, <1>3 DEF IInv, Shape, CallsAreAboutExperiences
<1>5. RunningIsAwaited'
      BY <1>2, <1>3 DEF IInv, RunningIsAwaited, Awaited, Results
<1>6. JobsCountedOnce'
  <2>1. Attaches
        BY <1>2, <1>3 DEF Attaches, Awaited
  <2>2. QED
        BY <1>3, <1>4, <2>1, AccountKept DEF IInv
<1>7. FileCountsOnce'
  <2>1. attached <= attached'
        BY <1>3 DEF IInv, Shape
  <2>2. QED
        BY <1>2, <1>4, <1>6, <2>1, FileAccountKept DEF IInv
<1>8. QED
      BY <1>2, <1>4, <1>5, <1>6, <1>7 DEF IInv

\* A replica's start is counted in memory only: the file falls behind.
LEMMA ReplicaSubmittedKept ==
    ASSUME IInv, NEW c \in Calls, ReplicaSubmitted(c)
    PROVE  IInv'
<1>1. /\ calls \in CallRecords /\ calls[c].exp \in Experiences
      /\ calls[c].pc = "submit" /\ calls[c].op = "replicate"
      BY DEF IInv, Shape, CallRecords, CallsAreAboutExperiences, ReplicaSubmitted
<1>2. /\ IsCampaign(campaign') /\ campaign'.usage.submitted = campaign.usage.submitted + 1
      /\ campaign'.usage.completed = campaign.usage.completed
      /\ campaign'.usage.failed = campaign.usage.failed
      /\ campaign'.status = campaign.status /\ campaign'.elites = campaign.elites
      BY DEF IInv, Shape, IsCampaign, Usage, ReplicaSubmitted
<1>3. /\ calls' \in CallRecords /\ \A k \in Calls \ {c} : calls'[k] = calls[k]
      /\ calls'[c].pc = "result" /\ calls'[c].op = "replicate"
      /\ calls'[c].exp = calls[c].exp
      BY <1>1 DEF ReplicaSubmitted, CallRecords
<1>4. UNCHANGED <<exps, file, attached, orphans, unanswered, crashes>>
      BY DEF ReplicaSubmitted
<1>5. Shape' /\ CallsAreAboutExperiences'
      BY <1>1, <1>2, <1>3, <1>4 DEF IInv, Shape, CallRecords, CallsAreAboutExperiences
<1>6. FileIsCurrent'
      BY <1>2, <1>4 DEF IInv, Shape, FileIsCurrent, IsCampaign, Usage
<1>7. RunningIsAwaited'
      BY <1>1, <1>3, <1>4 DEF IInv, RunningIsAwaited, Awaited
<1>8. JobsCountedOnce'
  <2>1. StartsJob(c)
        BY <1>1, <1>2, <1>3, <1>4 DEF StartsJob, Awaited
  <2>2. QED
        BY <1>4, <1>5, <2>1, AccountKept DEF IInv
<1>9. FileCountsOnce'
      BY <1>4 DEF IInv, FileCountsOnce
<1>10. QED
      BY <1>5, <1>6, <1>7, <1>8, <1>9 DEF IInv

\* A replica's end; only the last one saves.
LEMMA ReplicaResultKept ==
    ASSUME IInv, NEW c \in Calls, ReplicaResult(c)
    PROVE  IInv'
<1>1. /\ calls \in CallRecords /\ calls[c].exp \in Experiences
      /\ calls[c].pc = "result" /\ calls[c].op = "replicate"
      BY DEF IInv, Shape, CallRecords, CallsAreAboutExperiences, ReplicaResult
<1>2. PICK ok \in BOOLEAN :
          IF calls[c].left = 1
          THEN Persist(Counted(campaign, ok), exps) /\ calls' = [calls EXCEPT ![c] = Idle]
          ELSE /\ campaign' = Counted(campaign, ok)
               /\ calls' = [calls EXCEPT ![c].pc = "submit", ![c].left = @ - 1]
               /\ UNCHANGED <<exps, file>>
      BY DEF ReplicaResult
<1>3. /\ IsCampaign(Counted(campaign, ok))
      /\ campaign' = Counted(campaign, ok) => EndsOne
      BY CountedOnce DEF IInv, Shape, EndsOne
<1>4. /\ Counted(campaign, ok).status = campaign.status
      /\ Counted(campaign, ok).elites = campaign.elites
      /\ \A k \in DOMAIN campaign.usage : campaign.usage[k] <= Counted(campaign, ok).usage[k]
      BY DEF IInv, Shape, IsCampaign, Usage, Counted
<1>5. /\ calls' \in CallRecords /\ \A k \in Calls \ {c} : calls'[k] = calls[k]
      /\ calls'[c].pc # "result"
      /\ calls'[c].pc # "idle" => calls'[c].exp \in Experiences
  <2>1. CASE calls[c].left = 1
        BY <1>1, <1>2, <2>1 DEF CallRecords, Idle
  <2>2. CASE calls[c].left # 1
        BY <1>1, <1>2, <2>2 DEF CallRecords
  <2>3. QED
        BY <2>1, <2>2
<1>6. UNCHANGED <<attached, orphans, unanswered, crashes>>
      BY DEF ReplicaResult
<1>7. /\ campaign' = Counted(campaign, ok) /\ exps' = exps
      /\ IsCampaign(file'.campaign) /\ file'.campaign \in {file.campaign, campaign'}
      /\ FileIsCurrent'
  <2>1. CASE calls[c].left = 1
    <3>1. Persist(Counted(campaign, ok), exps)
          BY <1>2, <2>1
    <3>2. QED
          BY <1>3, <3>1, PersistIsCurrent
  <2>2. CASE calls[c].left # 1
    <3>1. campaign' = Counted(campaign, ok) /\ UNCHANGED <<exps, file>>
          BY <1>2, <2>2
    <3>2. FileIsCurrent'
          BY <1>3, <1>4, <3>1 DEF IInv, Shape, FileIsCurrent, IsCampaign, Usage
    <3>3. QED
          BY <3>1, <3>2 DEF IInv, Shape
  <2>3. QED
        BY <2>1, <2>2
<1>8. Shape' /\ CallsAreAboutExperiences'
      BY <1>1, <1>3, <1>5, <1>6, <1>7 DEF IInv, Shape, CallRecords, CallsAreAboutExperiences
<1>9. RunningIsAwaited'
      BY <1>1, <1>5, <1>6, <1>7 DEF IInv, RunningIsAwaited, Awaited
<1>10. JobsCountedOnce'
  <2>1. EndsJob(c)
        BY <1>1, <1>3, <1>5, <1>6, <1>7 DEF EndsJob, Awaited
  <2>2. QED
        BY <1>6, <1>8, <2>1, AccountKept DEF IInv
<1>11. FileCountsOnce'
  <2>1. attached <= attached'
        BY <1>6 DEF IInv, Shape
  <2>2. QED
        BY <1>7, <1>8, <1>10, <2>1, FileAccountKept DEF IInv
<1>12. QED
      BY <1>7, <1>8, <1>9, <1>10, <1>11 DEF IInv

\* After a restart no call waits, and what runs in the file is an orphan.
LEMMA RestartKept ==
    ASSUME IInv, Restart
    PROVE  IInv'
<1>1. /\ campaign' = file.campaign /\ exps' = exps /\ file' = file /\ attached' = attached
      /\ unanswered' = 0 /\ crashes' = crashes + 1
      /\ \A c \in Calls : calls'[c] = Idle
      /\ orphans' = {e \in Experiences : exps'[e].status = "running"}
      BY DEF IInv, FileIsCurrent, Restart
<1>2. Shape' /\ CallsAreAboutExperiences'
  <2>1. calls' \in CallRecords
        BY DEF Restart, CallRecords, Idle
  <2>2. QED
        BY <1>1, <2>1 DEF IInv, Shape, CallRecords, CallsAreAboutExperiences, Idle
<1>3. FileIsCurrent'
      BY <1>1 DEF IInv, Shape, FileIsCurrent, IsCampaign, Usage
<1>4. RunningIsAwaited'
      BY <1>1 DEF RunningIsAwaited
<1>5. Awaited' = {}
      BY <1>1 DEF Awaited, Idle
<1>6. JobsCountedOnce'
  <2>1. Cardinality(Awaited') = 0
        BY <1>5, FS_EmptySet
  <2>2. crashes' # 0
        BY <1>1 DEF IInv, Shape
  <2>3. QED
        BY <1>1, <2>1, <2>2 DEF IInv, Shape, IsCampaign, Usage, JobsCountedOnce, FileCountsOnce
<1>7. FileCountsOnce'
      BY <1>1 DEF IInv, FileCountsOnce
<1>8. QED
      BY <1>2, <1>3, <1>4, <1>6, <1>7 DEF IInv

-----------------------------------------------------------------------------
(* The invariant and the theorems *)

\* A new campaign satisfies the invariant.
LEMMA Initially == Init => IInv
<1>1. SUFFICES ASSUME Init
               PROVE  IInv
      OBVIOUS
<1>2. Shape /\ CallsAreAboutExperiences
      BY <1>1 DEF Init, Shape, CallsAreAboutExperiences, NewCampaign, IsCampaign, Usage, Idle,
         ExperienceRecords, Statuses, NoScore, CallRecords
<1>3. FileIsCurrent /\ RunningIsAwaited /\ FileCountsOnce
      BY <1>1 DEF Init, FileIsCurrent, RunningIsAwaited, FileCountsOnce, NewCampaign
<1>4. JobsCountedOnce
  <2>1. Awaited = {}
        BY <1>1 DEF Init, Awaited, Idle
  <2>2. Cardinality(Awaited) = 0
        BY <2>1, FS_EmptySet
  <2>3. QED
        BY <1>1, <2>2 DEF Init, NewCampaign, JobsCountedOnce
<1>5. QED
      BY <1>2, <1>3, <1>4 DEF IInv

\* Every action keeps the invariant.
LEMMA Inductive == IInv /\ [Next]_vars => IInv'
<1>1. SUFFICES ASSUME IInv, [Next]_vars
               PROVE  IInv'
      OBVIOUS
<1>2. ASSUME NEW c \in Calls, Answer(c)
      PROVE  IInv'
      BY <1>1, <1>2, SubmittedKept, SubmitRefusedKept, ResultKept, ResultRefusedKept,
         ReplicaSubmittedKept, ReplicaResultKept DEF Answer
<1>3. ASSUME NEW c \in Calls, NEW execute \in BOOLEAN, NEW late \in BOOLEAN,
             RecordExperience(c, execute, late)
      PROVE  IInv'
      BY <1>1, <1>3, RecordExperienceKept
<1>4. ASSUME NEW c \in Calls, NEW e \in Experiences, ExecuteExperience(c, e)
      PROVE  IInv'
      BY <1>1, <1>4, ExecuteExperienceKept
<1>5. ASSUME NEW c \in Calls, NEW e \in Experiences, NEW n \in Seeds, NEW late \in BOOLEAN,
             Replicate(c, e, n, late)
      PROVE  IInv'
      BY <1>1, <1>5, ReplicateKept
<1>6. ASSUME NEW e \in Experiences, AttachResult(e) \/ ScoreExperience(e)
      PROVE  IInv'
      BY <1>1, <1>6, AttachResultKept, ScoreExperienceKept
<1>7. CASE PauseCampaign \/ ResumeCampaign \/ Complete \/ MarkBudgetExhausted
      BY <1>1, <1>7, StatusKept
      DEF PauseCampaign, ResumeCampaign, Complete, MarkBudgetExhausted, SetStatus
<1>8. CASE Touch \/ Restart
      BY <1>1, <1>8, TouchKept, RestartKept
<1>9. CASE UNCHANGED vars
      BY <1>1, <1>9, UnchangedCalls, QuietCall DEF vars
<1>10. QED
      BY <1>1, <1>2, <1>3, <1>4, <1>5, <1>6, <1>7, <1>8, <1>9 DEF Next

\* The invariant holds in every reachable state.
LEMMA Invariance == Spec => []IInv
      BY Initially, Inductive, PTL DEF Spec

\* executeExperience, replicate, attachResult: however they overlap, each job the
\* campaign counts as submitted ends as completed or failed exactly once, unless
\* its result was refused.
THEOREM EachJobCountsOnce == Spec => []JobsCountedOnce
<1>1. IInv => JobsCountedOnce
      BY DEF IInv
<1>2. QED
      BY <1>1, Invariance, PTL

\* _touch and _persist: a stop of the host at any await loses nothing of the
\* campaign but counters of replications that have not ended.
THEOREM FileStaysCurrent == Spec => []FileIsCurrent
<1>1. IInv => FileIsCurrent
      BY DEF IInv
<1>2. QED
      BY <1>1, Invariance, PTL

\* executeExperience: but for a stop of the host and for results that were refused,
\* nothing is left running that no call will settle.
THEOREM NothingRunsForgotten == Spec => []RunningIsAwaited
<1>1. IInv => RunningIsAwaited
      BY DEF IInv
<1>2. QED
      BY <1>1, Invariance, PTL

-----------------------------------------------------------------------------
(* Induction over the natural numbers *)

\* Induction over the naturals as a fact about a set: a least counterexample n
\* would make 0..(n - 1) a smaller set of its kind.
LEMMA NatSetInduction ==
    ASSUME NEW S, 0 \in S, \A n \in Nat : n \in S => n + 1 \in S
    PROVE  Nat \subseteq S
<1> SUFFICES ASSUME NEW k \in Nat, k \notin S
             PROVE  FALSE
      OBVIOUS
<1> DEFINE R == StrictSubsetOrdering(Nat)
           F == {X \in FiniteSubsetsOf(Nat) : \E n \in Nat : X = 0..n /\ n \notin S}
<1>1. IsWellFoundedOn(R, FiniteSubsetsOf(Nat))
      BY FS_StrictSubsetOrderingWellFounded
<1>2. \A n \in Nat : 0..n \in FiniteSubsetsOf(Nat)
      BY FS_Interval DEF FiniteSubsetsOf
<1>3. 0..k \in F
      BY <1>2
<1>4. PICK X \in F : \A Y \in F : <<Y, X>> \notin R
  <2> HIDE DEF R
  <2>1. F # {} /\ F \subseteq FiniteSubsetsOf(Nat)
        BY <1>3
  <2> HIDE DEF F
  <2>2. QED
        BY <1>1, <2>1, WFMin
<1>5. PICK n \in Nat : X = 0..n /\ n \notin S
      OBVIOUS
<1>6. n # 0 /\ n - 1 \in Nat /\ n - 1 \notin S
      BY <1>5
<1>7. 0..(n - 1) \in F
      BY <1>2, <1>6
<1>8. <<0..(n - 1), X>> \in R
  <2>1. 0..(n - 1) \subseteq X /\ n \in X /\ n \notin 0..(n - 1)
        BY <1>5
  <2>2. X \in SUBSET Nat /\ 0..(n - 1) \in SUBSET Nat
        BY <1>5
  <2>3. QED
        BY <2>1, <2>2, <1>2, <1>5, <1>6 DEF StrictSubsetOrdering, FiniteSubsetsOf
<1>9. QED
      BY <1>4, <1>7, <1>8

-----------------------------------------------------------------------------
(* The budget of jobs *)

\* The most jobs one call may be admitted for.
Most == Max(Seeds \cup {1})

\* A set of numbers up to a bound has a maximum, by induction on the bound.
LEMMA MaxExists ==
    \A n \in Nat : \A S \in SUBSET (1..n) : S # {} => \E x \in S : \A y \in S : x >= y
<1> DEFINE N == {n \in Nat : \A S \in SUBSET (1..n) :
                                S # {} => \E x \in S : \A y \in S : x >= y}
<1>1. 0 \in N
  <2>1. 1..0 = {}
        OBVIOUS
  <2>2. QED
        BY <2>1
<1>2. ASSUME NEW n \in Nat, n \in N
      PROVE  n + 1 \in N
  <2>1. SUFFICES ASSUME NEW S \in SUBSET (1..(n + 1)), S # {}
                 PROVE  \E x \in S : \A y \in S : x >= y
        OBVIOUS
  <2>2. CASE n + 1 \in S
    <3>1. \A y \in S : n + 1 >= y
          OBVIOUS
    <3>2. QED
          BY <2>2, <3>1
  <2>3. CASE n + 1 \notin S
    <3>1. S \in SUBSET (1..n)
          BY <2>3
    <3>2. QED
          BY <1>2, <2>1, <3>1
  <2>4. QED
        BY <2>2, <2>3
<1> HIDE DEF N
<1>3. Nat \subseteq N
      BY <1>1, <1>2, NatSetInduction
<1>4. QED
      BY <1>3 DEF N

LEMMA MostIsMost == Most \in Nat /\ 1 \in 1..Most /\ Seeds \subseteq 1..Most
<1>1. Seeds \cup {1} \in SUBSET (1..20) /\ Seeds \cup {1} # {}
      BY DiscoveryAssumption
<1>2. \E x \in Seeds \cup {1} : \A y \in Seeds \cup {1} : x >= y
  <2> HIDE DEF Max
  <2>1. 20 \in Nat
        OBVIOUS
  <2>2. QED
        BY <1>1, <2>1, MaxExists
<1>3. Most \in Seeds \cup {1} /\ \A y \in Seeds \cup {1} : Most >= y
      BY <1>2 DEF Most, Max
<1>4. QED
      BY <1>1, <1>3

\* A call in progress has been admitted for no more jobs than one call may be.
LeftIsBounded ==
    \A c \in Calls : calls[c].pc # "idle" => calls[c].left \in 1..Most

\* What submissions of other calls may come to.
Room == (Cardinality(Calls) - 1) * Most

LEMMA RoomIsNat == Room \in Nat
<1>1. Cardinality(Calls) \in Nat /\ Cardinality(Calls) # 0
      BY DiscoveryAssumption, FS_CardinalityType, FS_EmptySet
<1>2. Cardinality(Calls) - 1 \in Nat
      BY <1>1
<1>3. \A m, n \in Nat : m * n \in Nat
      OBVIOUS
<1>4. QED
      BY <1>2, <1>3, MostIsMost DEF Room

\* Calls other than c have been admitted for no more than the room for them ...
AdmittedElsewhere(c) == {a \in Admitted : a[1] # c}

LEMMA ElsewhereIsBounded ==
    ASSUME NEW c \in Calls, LeftIsBounded, Shape
    PROVE  /\ IsFiniteSet(AdmittedElsewhere(c))
           /\ Cardinality(AdmittedElsewhere(c)) <= Room
<1>1. IsFiniteSet(Calls \ {c}) /\ Cardinality(Calls \ {c}) = Cardinality(Calls) - 1
      BY DiscoveryAssumption, FS_RemoveElement
<1>2. IsFiniteSet(1..Most) /\ Cardinality(1..Most) = Most
  <2>1. 1 \in Int /\ Most \in Int /\ ~(1 > Most) /\ Most - 1 + 1 = Most
        BY MostIsMost
  <2>2. QED
        BY <2>1, FS_Interval
<1>3. /\ IsFiniteSet((Calls \ {c}) \X (1..Most))
      /\ Cardinality((Calls \ {c}) \X (1..Most)) = Room
  <2>1. /\ IsFiniteSet((Calls \ {c}) \X (1..Most))
        /\ Cardinality((Calls \ {c}) \X (1..Most))
              = Cardinality(Calls \ {c}) * Cardinality(1..Most)
        BY <1>1, <1>2, FS_Product, Zenon
  <2>2. Cardinality(Calls \ {c}) * Cardinality(1..Most) = Room
        BY <1>1, <1>2, Zenon DEF Room
  <2>3. QED
        BY <2>1, <2>2, Zenon
<1>4. \A d \in Calls : Outstanding(d) <= Most /\ Outstanding(d) \in Int
      BY MostIsMost DEF LeftIsBounded, Outstanding, Shape, CallRecords
<1>5. AdmittedElsewhere(c) \in SUBSET ((Calls \ {c}) \X (1..Most))
  <2>1. SUFFICES ASSUME NEW a \in AdmittedElsewhere(c)
                 PROVE  a \in (Calls \ {c}) \X (1..Most)
        OBVIOUS
  <2>2. PICK d \in Calls : a \in {d} \X (1..Outstanding(d))
        BY DEF AdmittedElsewhere, Admitted
  <2>3. d # c
        BY <2>2 DEF AdmittedElsewhere
  <2>4. 1..Outstanding(d) \subseteq 1..Most
        BY <1>4, MostIsMost
  <2>5. QED
        BY <2>2, <2>3, <2>4
<1>6. QED
      BY <1>3, <1>5, FS_Subset

\* ... and all calls together for finitely many jobs.
LEMMA AdmittedIsFinite ==
    ASSUME LeftIsBounded, Shape
    PROVE  IsFiniteSet(Admitted) /\ Cardinality(Admitted) \in Nat
<1>1. PICK c : c \in Calls
      BY DiscoveryAssumption
<1>2. Outstanding(c) \in Int
      BY <1>1 DEF Outstanding, Shape, CallRecords
<1>3. IsFiniteSet({c} \X (1..Outstanding(c)))
  <2>1. IsFiniteSet({c})
        BY FS_Singleton
  <2>2. IsFiniteSet(1..Outstanding(c))
        BY <1>2, FS_Interval
  <2>3. QED
        BY <2>1, <2>2, FS_Product
<1>4. IsFiniteSet(AdmittedElsewhere(c))
      BY <1>1, ElsewhereIsBounded
<1>5. Admitted \subseteq AdmittedElsewhere(c) \cup ({c} \X (1..Outstanding(c)))
  <2>1. SUFFICES ASSUME NEW a \in Admitted, a \notin AdmittedElsewhere(c)
                 PROVE  a \in {c} \X (1..Outstanding(c))
        OBVIOUS
  <2>2. PICK d \in Calls : a \in {d} \X (1..Outstanding(d))
        BY DEF Admitted
  <2>3. a[1] = c /\ d = c
        BY <2>1, <2>2 DEF AdmittedElsewhere
  <2>4. QED
        BY <2>2, <2>3
<1>6. IsFiniteSet(AdmittedElsewhere(c) \cup ({c} \X (1..Outstanding(c))))
      BY <1>3, <1>4, FS_Union
<1>7. IsFiniteSet(Admitted)
      BY <1>5, <1>6, FS_Subset
<1>8. QED
      BY <1>7, FS_CardinalityType

\* The jobs admitted are those of one call and those of the others ...
LEMMA AdmittedSplit ==
    ASSUME NEW c \in Calls
    PROVE  Admitted = AdmittedElsewhere(c) \cup ({c} \X (1..Outstanding(c)))
<1>1. ASSUME NEW a \in Admitted, a \notin AdmittedElsewhere(c)
      PROVE  a \in {c} \X (1..Outstanding(c))
  <2>1. PICK d \in Calls : a \in {d} \X (1..Outstanding(d))
        BY <1>1 DEF Admitted
  <2>2. a[1] = c /\ d = c
        BY <1>1, <2>1 DEF AdmittedElsewhere
  <2>3. QED
        BY <2>1, <2>2
<1>2. {c} \X (1..Outstanding(c)) \subseteq Admitted
      BY DEF Admitted
<1>3. QED
      BY <1>1, <1>2 DEF AdmittedElsewhere

\* ... which a step of one call leaves alone.
LEMMA AdmittedNext ==
    ASSUME NEW c \in Calls, \A d \in Calls \ {c} : calls'[d] = calls[d]
    PROVE  Admitted' = AdmittedElsewhere(c) \cup ({c} \X (1..Outstanding(c)'))
<1>1. \A d \in Calls \ {c} : Outstanding(d)' = Outstanding(d)
      BY DEF Outstanding
<1>2. PICK out : out = Outstanding(c)'
      OBVIOUS
<1>3. Admitted' = UNION {{d} \X (1..Outstanding(d)') : d \in Calls}
      BY DEF Admitted
<1>4. ASSUME NEW a \in Admitted', a \notin AdmittedElsewhere(c)
      PROVE  a \in {c} \X (1..out)
  <2>1. PICK d \in Calls : a \in {d} \X (1..Outstanding(d)')
        BY <1>3, <1>4
  <2>2. CASE d = c
        BY <1>2, <2>1, <2>2
  <2>3. CASE d # c
    <3>1. a \in {d} \X (1..Outstanding(d)) /\ a[1] # c
          BY <1>1, <2>1, <2>3
    <3>2. a \in AdmittedElsewhere(c)
          BY <3>1 DEF AdmittedElsewhere, Admitted
    <3>3. QED
          BY <1>4, <3>2
  <2>4. QED
        BY <2>2, <2>3
<1>5. {c} \X (1..out) \subseteq Admitted'
      BY <1>2, <1>3
<1>6. ASSUME NEW a \in AdmittedElsewhere(c)
      PROVE  a \in Admitted'
  <2>1. PICK d \in Calls : a \in {d} \X (1..Outstanding(d))
        BY DEF AdmittedElsewhere, Admitted
  <2>2. d # c
        BY <2>1 DEF AdmittedElsewhere
  <2>3. a \in {d} \X (1..Outstanding(d)')
        BY <1>1, <2>1, <2>2
  <2>4. QED
        BY <1>3, <2>3
<1>7. QED
      BY <1>2, <1>4, <1>5, <1>6

\* What the counter and the calls in progress come to.
BudgetInv == LeftIsBounded /\ OverrunIsBounded

LEMMA Overrun ==
    OverrunIsBounded <=>
        campaign.usage.submitted + Cardinality(Admitted) <= MaxComputeJobs + Room
      BY DEF OverrunIsBounded, Room, Most

\* Nothing is submitted and no call gets more.
LEMMA NothingAdmitted ==
    ASSUME IInv, BudgetInv, Shape', LeftIsBounded', Admitted' \subseteq Admitted,
           campaign'.usage.submitted <= campaign.usage.submitted
    PROVE  BudgetInv'
<1>1. IsFiniteSet(Admitted) /\ Cardinality(Admitted) \in Nat
      BY AdmittedIsFinite DEF IInv, BudgetInv
<1>2. Cardinality(Admitted') <= Cardinality(Admitted) /\ IsFiniteSet(Admitted')
      BY <1>1, FS_Subset
<1>3. Cardinality(Admitted') \in Nat
      BY <1>2, FS_CardinalityType
<1>4. /\ campaign.usage.submitted \in Nat /\ campaign'.usage.submitted \in Nat
      /\ MaxComputeJobs + Room \in Nat
      BY DiscoveryAssumption, RoomIsNat DEF IInv, Shape, IsCampaign, Usage
<1>5. campaign.usage.submitted + Cardinality(Admitted) <= MaxComputeJobs + Room
      BY Overrun DEF BudgetInv
<1>6. campaign'.usage.submitted + Cardinality(Admitted') <= MaxComputeJobs + Room
      BY <1>1, <1>2, <1>3, <1>4, <1>5
<1>7. OverrunIsBounded'
      BY <1>6 DEF OverrunIsBounded, Room, Most
<1>8. QED
      BY <1>7 DEF BudgetInv

\* A job that is submitted is admitted no more.
LEMMA AdmittedIsSubmitted ==
    ASSUME IInv, BudgetInv, Shape', LeftIsBounded', NEW a \in Admitted, Admitted' = Admitted \ {a},
           campaign'.usage.submitted = campaign.usage.submitted + 1
    PROVE  BudgetInv'
<1>1. IsFiniteSet(Admitted) /\ Cardinality(Admitted) \in Nat
      BY AdmittedIsFinite DEF IInv, BudgetInv
<1>2. Cardinality(Admitted') = Cardinality(Admitted) - 1
      BY <1>1, FS_RemoveElement
<1>3. campaign.usage.submitted \in Nat
      BY DEF IInv, Shape, IsCampaign, Usage
<1>4. campaign.usage.submitted + Cardinality(Admitted) <= MaxComputeJobs + Room
      BY Overrun DEF BudgetInv
<1>5. campaign'.usage.submitted + Cardinality(Admitted')
          = campaign.usage.submitted + Cardinality(Admitted)
      BY <1>1, <1>2, <1>3
<1>6. OverrunIsBounded'
      BY <1>4, <1>5 DEF OverrunIsBounded, Room, Most
<1>7. QED
      BY <1>6 DEF BudgetInv

\* A call is admitted when there is room for all of its jobs, and the others
\* have no more than theirs.
LEMMA CallIsAdmitted ==
    ASSUME IInv, BudgetInv, Shape', LeftIsBounded', NEW c \in Calls,
           \A d \in Calls \ {c} : calls'[d] = calls[d],
           NEW n \in Nat, Outstanding(c)' = n,
           campaign.usage.submitted + n <= MaxComputeJobs,
           campaign'.usage.submitted = campaign.usage.submitted
    PROVE  BudgetInv'
<1>1. /\ IsFiniteSet(AdmittedElsewhere(c)) /\ Cardinality(AdmittedElsewhere(c)) <= Room
      BY ElsewhereIsBounded DEF IInv, BudgetInv
<1>2. IsFiniteSet({c} \X (1..n)) /\ Cardinality({c} \X (1..n)) = n
  <2>1. IsFiniteSet({c}) /\ Cardinality({c}) = 1
        BY FS_Singleton
  <2>2. IsFiniteSet(1..n) /\ Cardinality(1..n) = n
    <3>1. IsFiniteSet(1..n) /\ Cardinality(1..n) = IF 1 > n THEN 0 ELSE n - 1 + 1
          BY FS_Interval
    <3>2. (IF 1 > n THEN 0 ELSE n - 1 + 1) = n
          OBVIOUS
    <3>3. QED
          BY <3>1, <3>2
  <2>3. /\ IsFiniteSet({c} \X (1..n))
        /\ Cardinality({c} \X (1..n)) = Cardinality({c}) * Cardinality(1..n)
        BY <2>1, <2>2, FS_Product, Zenon
  <2>4. 1 * n = n
        OBVIOUS
  <2>5. QED
        BY <2>1, <2>2, <2>3, <2>4
<1>3. Admitted' = AdmittedElsewhere(c) \cup ({c} \X (1..n))
      BY AdmittedNext
<1>4. /\ Cardinality(AdmittedElsewhere(c)) \in Nat
      /\ Cardinality(AdmittedElsewhere(c) \cap ({c} \X (1..n))) \in Nat
  <2>1. IsFiniteSet(AdmittedElsewhere(c) \cap ({c} \X (1..n)))
        BY <1>1, FS_Subset
  <2>2. QED
        BY <1>1, <2>1, FS_CardinalityType
<1>5. Cardinality(Admitted') = Cardinality(AdmittedElsewhere(c)) + n
          - Cardinality(AdmittedElsewhere(c) \cap ({c} \X (1..n)))
      BY <1>1, <1>2, <1>3, FS_Union
<1>6. campaign.usage.submitted \in Nat /\ MaxComputeJobs \in Nat /\ Room \in Nat
      BY DiscoveryAssumption, RoomIsNat DEF IInv, Shape, IsCampaign, Usage
<1>7. campaign'.usage.submitted + Cardinality(Admitted') <= MaxComputeJobs + Room
      BY <1>1, <1>4, <1>5, <1>6
<1>8. OverrunIsBounded'
      BY <1>7 DEF OverrunIsBounded, Room, Most
<1>9. QED
      BY <1>8 DEF BudgetInv

\* A step that changes one call, and only so that it may submit less.
LEMMA OneCallLess ==
    ASSUME IInv, BudgetInv, Shape', NEW c \in Calls,
           \A d \in Calls \ {c} : calls'[d] = calls[d],
           calls'[c].pc # "idle" => calls'[c].left \in 1..Most,
           Outstanding(c)' <= Outstanding(c),
           campaign'.usage.submitted = campaign.usage.submitted
    PROVE  BudgetInv'
<1>1. LeftIsBounded'
      BY DEF BudgetInv, LeftIsBounded, Most
<1>2. PICK m, n : m = Outstanding(c)' /\ n = Outstanding(c) /\ m \in Int /\ n \in Int
      BY DEF IInv, Shape, CallRecords, Outstanding
<1>3. 1..m \subseteq 1..n
      BY <1>2
<1>4. Admitted' = AdmittedElsewhere(c) \cup ({c} \X (1..m))
      BY <1>2, AdmittedNext
<1>5. Admitted = AdmittedElsewhere(c) \cup ({c} \X (1..n))
      BY <1>2, AdmittedSplit
<1>6. Admitted' \subseteq Admitted
      BY <1>3, <1>4, <1>5
<1>7. campaign'.usage.submitted <= campaign.usage.submitted
      BY DEF IInv, Shape, IsCampaign, Usage
<1>8. QED
      BY <1>1, <1>6, <1>7, NothingAdmitted

\* A step that changes no call and submits nothing.
LEMMA SameCalls ==
    ASSUME IInv, BudgetInv, Shape', calls' = calls,
           campaign'.usage.submitted = campaign.usage.submitted
    PROVE  BudgetInv'
<1>1. LeftIsBounded' /\ Admitted' = Admitted
      BY DEF BudgetInv, LeftIsBounded, Most, Admitted, Outstanding
<1>2. campaign'.usage.submitted <= campaign.usage.submitted
      BY DEF IInv, Shape, IsCampaign, Usage
<1>3. QED
      BY <1>1, <1>2, NothingAdmitted

\* compute.submit took one job of a call that waited for it.
LEMMA JobSubmitted ==
    ASSUME IInv, BudgetInv, Shape', NEW c \in Calls, calls[c].pc = "submit",
           \A d \in Calls \ {c} : calls'[d] = calls[d],
           calls'[c] = [calls[c] EXCEPT !.pc = "result"],
           campaign'.usage.submitted = campaign.usage.submitted + 1
    PROVE  BudgetInv'
<1>1. PICK n : n = calls[c].left
      OBVIOUS
<1>2. n \in 1..Most
      BY <1>1 DEF BudgetInv, LeftIsBounded
<1>3. calls'[c].pc = "result" /\ calls'[c].left = n
      BY <1>1 DEF IInv, Shape, CallRecords
<1>4. Outstanding(c) = n /\ Outstanding(c)' = n - 1
      BY <1>1, <1>3 DEF Outstanding
<1>5. LeftIsBounded'
      BY <1>2, <1>3 DEF BudgetInv, LeftIsBounded, Most
<1>6. n \in Nat /\ 1..(n - 1) = (1..n) \ {n}
      BY <1>2, MostIsMost
<1>7. Admitted = AdmittedElsewhere(c) \cup ({c} \X (1..n))
      BY <1>4, AdmittedSplit
<1>8. Admitted' = AdmittedElsewhere(c) \cup ({c} \X (1..(n - 1)))
      BY <1>4, AdmittedNext
<1>9. \A a \in AdmittedElsewhere(c) : a # <<c, n>>
      BY DEF AdmittedElsewhere
<1>10. <<c, n>> \in Admitted
      BY <1>2, <1>7
<1>11. Admitted' = Admitted \ {<<c, n>>}
      BY <1>6, <1>7, <1>8, <1>9
<1>12. QED
      BY <1>5, <1>10, <1>11, AdmittedIsSubmitted

\* A call that enters found room for all of its jobs.
LEMMA CallEntered ==
    ASSUME IInv, BudgetInv, Shape', NEW c \in Calls, NEW op, NEW e, NEW n \in 1..Most,
           Enter(c, op, "submit", e, n),
           campaign.usage.submitted + n <= MaxComputeJobs,
           campaign'.usage.submitted = campaign.usage.submitted
    PROVE  BudgetInv'
<1>1. /\ \A d \in Calls \ {c} : calls'[d] = calls[d]
      /\ calls'[c].pc = "submit" /\ calls'[c].left = n
      BY DEF IInv, Shape, CallRecords, Enter
<1>2. LeftIsBounded'
      BY <1>1 DEF BudgetInv, LeftIsBounded, Most
<1>3. Outstanding(c)' = n
      BY <1>1 DEF Outstanding
<1>4. n \in Nat
      BY MostIsMost
<1>5. QED
      BY <1>1, <1>2, <1>3, <1>4, CallIsAdmitted

\* Every step that answers a call.
LEMMA AnswerKeepsBudget ==
    ASSUME IInv, BudgetInv, IInv', NEW c \in Calls, Answer(c)
    PROVE  BudgetInv'
<1>1. Shape' /\ calls \in CallRecords
      BY DEF IInv, Shape
<1>2. CASE Submitted(c)
  <2>1. /\ campaign'.usage.submitted = campaign.usage.submitted + 1
        /\ calls[c].pc = "submit" /\ calls' = [calls EXCEPT ![c].pc = "result"]
        BY <1>2 DEF Submitted, Persist, IInv, Shape, IsCampaign, Usage
  <2>2. /\ calls'[c] = [calls[c] EXCEPT !.pc = "result"]
        /\ \A d \in Calls \ {c} : calls'[d] = calls[d]
        BY <1>1, <2>1 DEF CallRecords
  <2>3. QED
        BY <1>1, <2>1, <2>2, JobSubmitted
<1>3. CASE ReplicaSubmitted(c)
  <2>1. /\ campaign'.usage.submitted = campaign.usage.submitted + 1
        /\ calls[c].pc = "submit" /\ calls' = [calls EXCEPT ![c].pc = "result"]
        BY <1>3 DEF ReplicaSubmitted, IInv, Shape, IsCampaign, Usage
  <2>2. /\ calls'[c] = [calls[c] EXCEPT !.pc = "result"]
        /\ \A d \in Calls \ {c} : calls'[d] = calls[d]
        BY <1>1, <2>1 DEF CallRecords
  <2>3. QED
        BY <1>1, <2>1, <2>2, JobSubmitted
<1>4. ASSUME calls' = [calls EXCEPT ![c] = Idle], calls[c].pc # "idle",
             campaign'.usage.submitted = campaign.usage.submitted
      PROVE  BudgetInv'
  <2>1. calls'[c] = Idle /\ \A d \in Calls \ {c} : calls'[d] = calls[d]
        BY <1>1, <1>4 DEF CallRecords
  <2>2. Outstanding(c)' = 0 /\ calls'[c].pc = "idle"
        BY <2>1 DEF Outstanding, Idle
  <2>3. Outstanding(c) >= 0
        BY <1>4, MostIsMost DEF BudgetInv, LeftIsBounded, Outstanding
  <2>4. Outstanding(c)' <= Outstanding(c)
        BY <2>2, <2>3
  <2>5. QED
        BY <1>1, <1>4, <2>1, <2>2, <2>4, OneCallLess
<1>5. CASE SubmitRefused(c) \/ ResultRefused(c)
  <2>1. /\ calls' = [calls EXCEPT ![c] = Idle] /\ calls[c].pc # "idle" /\ campaign' = campaign
        BY <1>5 DEF SubmitRefused, ResultRefused
  <2>2. QED
        BY <1>4, <2>1
<1>6. CASE Result(c)
  <2>1. /\ calls' = [calls EXCEPT ![c] = Idle] /\ calls[c].pc # "idle"
        /\ calls[c].exp \in Experiences
        BY <1>6 DEF Result, IInv, CallsAreAboutExperiences
  <2>2. PICK status \in Results, objective \in Objectives :
            ApplyResult(calls[c].exp, status, objective)
        BY <1>6, MeasuredObjectives DEF Result, Results
  <2>3. campaign'.usage.submitted = campaign.usage.submitted
        BY <2>1, <2>2, AppliedResult DEF IInv
  <2>4. QED
        BY <1>4, <2>1, <2>3
<1>7. CASE ReplicaResult(c)
  <2>1. PICK ok \in BOOLEAN :
            IF calls[c].left = 1
            THEN Persist(Counted(campaign, ok), exps) /\ calls' = [calls EXCEPT ![c] = Idle]
            ELSE /\ campaign' = Counted(campaign, ok)
                 /\ calls' = [calls EXCEPT ![c].pc = "submit", ![c].left = @ - 1]
                 /\ UNCHANGED <<exps, file>>
        BY <1>7 DEF ReplicaResult
  <2>2. campaign' = Counted(campaign, ok)
        BY <2>1 DEF Persist
  <2>3. campaign'.usage.submitted = campaign.usage.submitted
        BY <2>2, CountedOnce DEF IInv, Shape
  <2>4. calls[c].pc = "result"
        BY <1>7 DEF ReplicaResult
  <2>5. CASE calls[c].left = 1
        BY <1>4, <2>1, <2>3, <2>4, <2>5
  <2>6. CASE calls[c].left # 1
    <3>1. calls' = [calls EXCEPT ![c].pc = "submit", ![c].left = @ - 1]
          BY <2>1, <2>6
    <3>2. /\ calls'[c].pc = "submit" /\ calls'[c].left = calls[c].left - 1
          /\ \A d \in Calls \ {c} : calls'[d] = calls[d]
          BY <1>1, <3>1 DEF CallRecords
    <3>3. calls[c].left \in 1..Most
          BY <2>4 DEF BudgetInv, LeftIsBounded
    <3>4. calls'[c].left \in 1..Most
          BY <2>6, <3>2, <3>3, MostIsMost
    <3>5. Outstanding(c)' = calls[c].left - 1 /\ Outstanding(c) = calls[c].left - 1
          BY <2>4, <3>2 DEF Outstanding
    <3>6. Outstanding(c)' <= Outstanding(c)
          BY <3>3, <3>5, MostIsMost
    <3>7. QED
          BY <1>1, <2>3, <3>2, <3>4, <3>6, OneCallLess
  <2>7. QED
        BY <2>5, <2>6
<1>8. QED
      BY <1>2, <1>3, <1>5, <1>6, <1>7 DEF Answer

\* A change of the campaign's status leaves its counters alone.
LEMMA StatusKeepsCounters ==
    ASSUME Shape, NEW to, Persist([campaign EXCEPT !.status = to], exps)
    PROVE  campaign'.usage.submitted = campaign.usage.submitted
      BY DEF Persist, Shape, IsCampaign

\* recordExperience, executeExperience and replicate look at the budget and
\* enter in the same step.
LEMMA EntryKeepsBudget ==
    ASSUME IInv, BudgetInv, IInv', NEW c \in Calls,
           \/ \E execute, late \in BOOLEAN : RecordExperience(c, execute, late)
           \/ \E e \in Experiences : ExecuteExperience(c, e)
           \/ \E e \in Experiences, n \in Seeds, late \in BOOLEAN : Replicate(c, e, n, late)
    PROVE  BudgetInv'
<1>1. Shape' /\ campaign.usage.submitted \in Nat /\ MaxComputeJobs \in Nat
      BY DiscoveryAssumption DEF IInv, Shape, IsCampaign, Usage
<1>2. CASE Exhaust /\ UNCHANGED calls
      BY <1>1, <1>2, StatusKeepsCounters, SameCalls DEF Exhaust, IInv
<1>3. ASSUME NEW execute \in BOOLEAN, NEW late \in BOOLEAN, RecordExperience(c, execute, late)
      PROVE  BudgetInv'
  <2>1. CASE BudgetHit(late)
        BY <1>2, <1>3, <2>1 DEF RecordExperience
  <2>2. CASE ~BudgetHit(late)
    <3>1. PICK e \in Experiences \ Recorded :
              /\ Persist(campaign, [exps EXCEPT ![e].status = "pending"])
              /\ IF execute THEN Enter(c, "execute", "submit", e, 1) ELSE UNCHANGED calls
          BY <1>3, <2>2 DEF RecordExperience
    <3>2. campaign' = campaign
          BY <3>1 DEF Persist
    <3>3. campaign.usage.submitted + 1 <= MaxComputeJobs
          BY <1>1, <2>2 DEF BudgetHit
    <3>4. CASE execute
          BY <1>1, <3>1, <3>2, <3>3, <3>4, MostIsMost, CallEntered
    <3>5. CASE ~execute
          BY <1>1, <3>1, <3>2, <3>5, SameCalls
    <3>6. QED
          BY <3>4, <3>5
  <2>3. QED
        BY <2>1, <2>2
<1>4. ASSUME NEW e \in Experiences, ExecuteExperience(c, e)
      PROVE  BudgetInv'
  <2>1. CASE campaign.usage.submitted >= MaxComputeJobs
        BY <1>2, <1>4, <2>1 DEF ExecuteExperience
  <2>2. CASE ~(campaign.usage.submitted >= MaxComputeJobs)
    <3>1. Enter(c, "execute", "submit", e, 1) /\ campaign' = campaign
          BY <1>4, <2>2 DEF ExecuteExperience
    <3>2. campaign.usage.submitted + 1 <= MaxComputeJobs
          BY <1>1, <2>2
    <3>3. QED
          BY <1>1, <3>1, <3>2, MostIsMost, CallEntered
  <2>3. QED
        BY <2>1, <2>2
<1>5. ASSUME NEW e \in Experiences, NEW n \in Seeds, NEW late \in BOOLEAN,
             Replicate(c, e, n, late)
      PROVE  BudgetInv'
  <2>1. CASE BudgetHit(late)
        BY <1>2, <1>5, <2>1 DEF Replicate
  <2>2. CASE ~BudgetHit(late)
    <3>1. /\ Enter(c, "replicate", "submit", e, n) /\ campaign' = campaign
          /\ campaign.usage.submitted + n <= MaxComputeJobs
          BY <1>5, <2>2 DEF Replicate
    <3>2. n \in 1..Most
          BY MostIsMost
    <3>3. QED
          BY <1>1, <3>1, <3>2, CallEntered
  <2>3. QED
        BY <2>1, <2>2
<1>6. QED
      BY <1>3, <1>4, <1>5

\* A restart has no calls in progress and the counters of the file.
LEMMA RestartKeepsBudget ==
    ASSUME IInv, BudgetInv, IInv', Restart
    PROVE  BudgetInv'
<1>1. Shape' /\ campaign' = file.campaign /\ \A c \in Calls : calls'[c] = Idle
      BY DEF IInv, Restart
<1>2. \A c \in Calls : calls'[c].pc = "idle" /\ Outstanding(c)' = 0
      BY <1>1 DEF Idle, Outstanding
<1>3. Admitted' = {}
  <2>1. Admitted' = UNION {{c} \X (1..Outstanding(c)') : c \in Calls}
        BY DEF Admitted
  <2>2. \A c \in Calls : {c} \X (1..Outstanding(c)') = {}
        BY <1>2
  <2>3. QED
        BY <2>1, <2>2
<1>4. LeftIsBounded'
      BY <1>2 DEF LeftIsBounded
<1>5. campaign'.usage.submitted <= campaign.usage.submitted
      BY <1>1 DEF IInv, FileIsCurrent, Shape, IsCampaign, Usage
<1>6. QED
      BY <1>1, <1>3, <1>4, <1>5, NothingAdmitted

LEMMA BudgetKept == IInv /\ IInv' /\ BudgetInv /\ [Next]_vars => BudgetInv'
<1>1. SUFFICES ASSUME IInv, IInv', BudgetInv, [Next]_vars
               PROVE  BudgetInv'
      OBVIOUS
<1>2. Shape' /\ IsCampaign(campaign)
      BY <1>1 DEF IInv, Shape
<1>3. CASE \E c \in Calls : Answer(c)
      BY <1>1, <1>3, AnswerKeepsBudget
<1>4. CASE \/ \E c \in Calls, execute, late \in BOOLEAN : RecordExperience(c, execute, late)
           \/ \E c \in Calls, e \in Experiences : ExecuteExperience(c, e)
           \/ \E c \in Calls, e \in Experiences, n \in Seeds, late \in BOOLEAN :
                 Replicate(c, e, n, late)
      BY <1>1, <1>4, EntryKeepsBudget
<1>5. ASSUME NEW e \in Experiences, AttachResult(e)
      PROVE  BudgetInv'
  <2>1. PICK status \in Results, objective \in Objectives : ApplyResult(e, status, objective)
        BY <1>5, MeasuredObjectives DEF AttachResult, Results
  <2>2. campaign'.usage.submitted = campaign.usage.submitted
        BY <1>1, <2>1, AppliedResult DEF IInv
  <2>3. calls' = calls
        BY <1>5 DEF AttachResult
  <2>4. QED
        BY <1>1, <1>2, <2>2, <2>3, SameCalls
<1>6. ASSUME NEW e \in Experiences, ScoreExperience(e)
      PROVE  BudgetInv'
  <2>1. PICK objective \in Objectives, elite \in BOOLEAN :
            Persist(Rescored(campaign, e, elite), WithScore(exps, e, objective))
        BY <1>6 DEF ScoreExperience, BestSoFar
  <2>2. campaign'.usage = campaign.usage
        BY <1>2, <2>1, RescoredKeepsUsage DEF Persist
  <2>3. calls' = calls
        BY <1>6 DEF ScoreExperience
  <2>4. QED
        BY <1>1, <1>2, <2>2, <2>3, SameCalls
<1>7. CASE PauseCampaign \/ ResumeCampaign \/ Complete \/ MarkBudgetExhausted
  <2>1. /\ campaign'.usage.submitted = campaign.usage.submitted
        /\ calls' = calls
        BY <1>1, <1>7, StatusKeepsCounters
        DEF IInv, PauseCampaign, ResumeCampaign, Complete, MarkBudgetExhausted, SetStatus
  <2>2. QED
        BY <1>1, <1>2, <2>1, SameCalls
<1>8. CASE Touch \/ UNCHANGED vars
  <2>1. campaign' = campaign /\ calls' = calls
        BY <1>8 DEF Touch, Persist, vars
  <2>2. QED
        BY <1>1, <1>2, <2>1, SameCalls
<1>9. CASE Restart
      BY <1>1, <1>9, RestartKeepsBudget
<1>10. QED
      BY <1>1, <1>3, <1>4, <1>5, <1>6, <1>7, <1>8, <1>9 DEF Next

LEMMA BudgetInitially == Init => BudgetInv
<1>1. SUFFICES ASSUME Init
               PROVE  BudgetInv
      OBVIOUS
<1>2. \A c \in Calls : calls[c].pc = "idle" /\ Outstanding(c) = 0
      BY <1>1 DEF Init, Idle, Outstanding
<1>3. Admitted = {}
      BY <1>2 DEF Admitted
<1>4. Cardinality(Admitted) = 0 /\ campaign.usage.submitted = 0
      BY <1>1, <1>3, FS_EmptySet DEF Init, NewCampaign
<1>5. campaign.usage.submitted + Cardinality(Admitted) <= MaxComputeJobs + Room
      BY <1>4, DiscoveryAssumption, RoomIsNat
<1>6. QED
      BY <1>2, <1>5, Overrun DEF BudgetInv, LeftIsBounded

\* executeExperience and replicate look at maxComputeJobs before compute.submit
\* and count after it: calls that overlap overrun the budget, but by no more
\* than the others had been admitted for.
THEOREM OverrunStaysBounded == Spec => []OverrunIsBounded
<1>1. BudgetInv => OverrunIsBounded
      BY DEF BudgetInv
<1>2. QED
      BY <1>1, BudgetInitially, BudgetKept, Invariance, PTL DEF Spec

-----------------------------------------------------------------------------
(* The elites *)

\* FlattenSeq, which filters the elites, is the last of the partial concatenations
\* of its sequences, by induction on their number.
LEMMA FlattenBy ==
    ASSUME NEW S, NEW q \in Seq(Seq(S)), Len(q) > 0
    PROVE  \E f \in [1..Len(q) -> Seq(S)] :
             /\ f[1] = q[1]
             /\ \A i \in 2..Len(q) : f[i] = f[i - 1] \o q[i]
             /\ FlattenSeq(q) = f[Len(q)]
<1> DEFINE Joins(g, n) == /\ g \in [1..n -> Seq(S)]
                          /\ \A i \in 1..n : g[i] = IF i = 1 THEN q[i] ELSE g[i - 1] \o q[i]
           N == {n \in Nat : n > Len(q) \/ \E g : Joins(g, n)}
<1>0. Len(q) \in Nat /\ \A i \in 1..Len(q) : q[i] \in Seq(S)
      OBVIOUS
<1>1. \E g : Joins(g, 0)
  <2>1. Joins([i \in 1..0 |-> q[1]], 0)
        OBVIOUS
  <2> HIDE DEF Joins
  <2> QED
        BY <2>1
<1>2. ASSUME NEW n \in Nat, n + 1 <= Len(q), NEW g, Joins(g, n)
      PROVE  \E h : Joins(h, n + 1)
  <2> DEFINE h == [i \in 1..(n + 1) |->
                     IF i = n + 1 THEN IF i = 1 THEN q[i] ELSE g[i - 1] \o q[i] ELSE g[i]]
  <2>1. \A i \in 1..n : h[i] = g[i] /\ g[i] \in Seq(S)
    <3>1. g \in [1..n -> Seq(S)]
          BY <1>2
    <3>2. \A i \in 1..n : g[i] \in Seq(S)
          BY <3>1
    <3> QED
          BY <3>2
  <2>2. h[n + 1] = IF n + 1 = 1 THEN q[n + 1] ELSE h[n] \o q[n + 1]
        BY <1>0
  <2>3. h[n + 1] \in Seq(S)
        BY <1>0, <1>2, <2>1, <2>2
  <2>4. h \in [1..(n + 1) -> Seq(S)]
    <3>1. \A i \in 1..(n + 1) : h[i] \in Seq(S)
      <4>1. \A i \in 1..(n + 1) : i = n + 1 \/ i \in 1..n
            OBVIOUS
      <4> HIDE DEF h
      <4> QED
            BY <4>1, <2>1, <2>3
    <3>2. h = [i \in 1..(n + 1) |-> h[i]]
          OBVIOUS
    <3> HIDE DEF h
    <3> QED BY <3>1, <3>2
  <2>5. \A i \in 1..n : i # 1 => h[i - 1] = g[i - 1]
        OBVIOUS
  <2> HIDE DEF h
  <2>6. \A i \in 1..(n + 1) : h[i] = IF i = 1 THEN q[i] ELSE h[i - 1] \o q[i]
    <3> SUFFICES ASSUME NEW i \in 1..(n + 1) PROVE h[i] = IF i = 1 THEN q[i] ELSE h[i - 1] \o q[i]
          OBVIOUS
    <3>1. CASE i = n + 1
          BY <2>2, <3>1
    <3>2. CASE i \in 1..n
          BY <2>1, <2>5, <3>2, <1>2
    <3> QED
          BY <3>1, <3>2
  <2>7. Joins(h, n + 1)
        BY <2>4, <2>6
  <2> HIDE DEF Joins
  <2> QED
        BY <2>7
<1> HIDE DEF Joins
<1>3. Nat \subseteq N
  <2>1. 0 \in N
        BY <1>1
  <2>2. ASSUME NEW n \in Nat, n \in N PROVE n + 1 \in N
        BY <1>0, <1>2, <2>2
  <2> HIDE DEF N
  <2> QED
        BY <2>1, <2>2, NatSetInduction
<1>4. PICK g : Joins(g, Len(q))
      BY <1>0, <1>3
<1>5. g = [i \in 1..Len(q) |-> IF i = 1 THEN q[i] ELSE g[i - 1] \o q[i]]
      BY <1>4 DEF Joins
<1> DEFINE f == CHOOSE f : f = [i \in 1..Len(q) |-> IF i = 1 THEN q[i] ELSE f[i - 1] \o q[i]]
<1>6. FlattenSeq(q) = f[Len(q)]
      BY DEF FlattenSeq
<1>7. f = [i \in 1..Len(q) |-> IF i = 1 THEN q[i] ELSE f[i - 1] \o q[i]]
      BY <1>5
<1> HIDE DEF f
<1>8. PICK F : F = f
      OBVIOUS
<1>9. \A n \in 1..Len(q) : F[n] = g[n]
  <2> DEFINE M == {n \in Nat : n \in 1..Len(q) => F[n] = g[n]}
  <2>1. 0 \in M
        OBVIOUS
  <2>2. ASSUME NEW n \in Nat, n \in M PROVE n + 1 \in M
    <3> SUFFICES ASSUME n + 1 \in 1..Len(q) PROVE F[n + 1] = g[n + 1]
          OBVIOUS
    <3>1. F[n + 1] = IF n + 1 = 1 THEN q[n + 1] ELSE F[n] \o q[n + 1]
      <4>1. \A i \in 1..Len(q) : F[i] = IF i = 1 THEN q[i] ELSE F[i - 1] \o q[i]
            BY <1>7, <1>8
      <4>2. (n + 1) - 1 = n
            OBVIOUS
      <4> QED
            BY <4>1, <4>2
    <3>2. g[n + 1] = IF n + 1 = 1 THEN q[n + 1] ELSE g[n] \o q[n + 1]
      <4>1. \A i \in 1..Len(q) : g[i] = IF i = 1 THEN q[i] ELSE g[i - 1] \o q[i]
            BY <1>4 DEF Joins
      <4>2. (n + 1) - 1 = n
            OBVIOUS
      <4> QED
            BY <4>1, <4>2
    <3>3. n # 0 => F[n] = g[n]
          BY <2>2, <1>0
    <3> QED
          BY <3>1, <3>2, <3>3
  <2>3. Nat \subseteq M
    <3> HIDE DEF M
    <3> QED
          BY <2>1, <2>2, NatSetInduction
  <2> QED
        BY <2>3, <1>0
<1>10. FlattenSeq(q) = g[Len(q)]
      BY <1>0, <1>6, <1>8, <1>9
<1>11. g \in [1..Len(q) -> Seq(S)]
      BY <1>4 DEF Joins
<1>12. g[1] = q[1] /\ \A i \in 2..Len(q) : g[i] = g[i - 1] \o q[i]
  <2>1. \A i \in 1..Len(q) : g[i] = IF i = 1 THEN q[i] ELSE g[i - 1] \o q[i]
        BY <1>4 DEF Joins
  <2>2. 1 \in 1..Len(q) /\ \A i \in 2..Len(q) : i \in 1..Len(q) /\ i # 1
        BY <1>0
  <2> QED
        BY <2>1, <2>2
<1> QED
      BY <1>10, <1>11, <1>12

\* What a filter has kept of the first n ids: their order, and e is not among them.
KeptUpTo(r, s, e, n) ==
    /\ \A i \in DOMAIN r : r[i] # e /\ \E k \in 1..n : r[i] = s[k]
    /\ \A i, j \in DOMAIN r :
          i < j => \E k, l \in 1..n : k < l /\ r[i] = s[k] /\ r[j] = s[l]

\* One more id is dropped or appended.
LEMMA KeptNext ==
    ASSUME NEW S, NEW s \in Seq(S), NEW e, NEW n \in Nat, n + 1 <= Len(s),
           NEW r \in Seq(S), KeptUpTo(r, s, e, n)
    PROVE  /\ KeptUpTo(r \o <<>>, s, e, n + 1)
           /\ s[n + 1] # e => KeptUpTo(r \o <<s[n + 1]>>, s, e, n + 1)
<1>1. \A k \in 1..n : k \in 1..(n + 1) /\ k < n + 1
      OBVIOUS
<1>2. r \o <<>> = r
      OBVIOUS
<1>3. KeptUpTo(r, s, e, n + 1)
  <2>1. \A i \in DOMAIN r : r[i] # e /\ \E k \in 1..(n + 1) : r[i] = s[k]
        BY <1>1 DEF KeptUpTo
  <2>2. \A i, j \in DOMAIN r :
           i < j => \E k, l \in 1..(n + 1) : k < l /\ r[i] = s[k] /\ r[j] = s[l]
        BY <1>1 DEF KeptUpTo
  <2>3. QED
        BY <2>1, <2>2 DEF KeptUpTo
<1>4. ASSUME s[n + 1] # e
      PROVE  KeptUpTo(r \o <<s[n + 1]>>, s, e, n + 1)
  <2>1. PICK t : t = r \o <<s[n + 1]>>
        OBVIOUS
  <2>2. s[n + 1] \in S
        OBVIOUS
  <2>3. /\ Len(r) \in Nat /\ DOMAIN r = 1..Len(r) /\ DOMAIN t = 1..(Len(r) + 1)
        /\ t[Len(r) + 1] = s[n + 1] /\ \A i \in 1..Len(r) : t[i] = r[i]
        BY <2>1, <2>2
  <2>4. \A i \in DOMAIN t : t[i] # e /\ \E k \in 1..(n + 1) : t[i] = s[k]
    <3>1. SUFFICES ASSUME NEW i \in DOMAIN t
                   PROVE  t[i] # e /\ \E k \in 1..(n + 1) : t[i] = s[k]
          OBVIOUS
    <3>2. CASE i = Len(r) + 1
      <4>1. n + 1 \in 1..(n + 1)
            OBVIOUS
      <4>2. QED
            BY <1>4, <2>3, <3>2, <4>1
    <3>3. CASE i \in DOMAIN r
      <4>1. t[i] = r[i]
            BY <2>3, <3>3
      <4>2. QED
            BY <1>3, <3>3, <4>1 DEF KeptUpTo
    <3>4. QED
          BY <2>3, <3>1, <3>2, <3>3
  <2>5. \A i, j \in DOMAIN t :
           i < j => \E k, l \in 1..(n + 1) : k < l /\ t[i] = s[k] /\ t[j] = s[l]
    <3>1. SUFFICES ASSUME NEW i \in DOMAIN t, NEW j \in DOMAIN t, i < j
                   PROVE  \E k, l \in 1..(n + 1) : k < l /\ t[i] = s[k] /\ t[j] = s[l]
          OBVIOUS
    <3>2. i \in DOMAIN r /\ t[i] = r[i]
          BY <2>3, <3>1
    <3>3. CASE j = Len(r) + 1
      <4>1. PICK k \in 1..n : r[i] = s[k]
            BY <3>2 DEF KeptUpTo
      <4>2. n + 1 \in 1..(n + 1) /\ k \in 1..(n + 1) /\ k < n + 1
            BY <1>1
      <4>3. QED
            BY <2>3, <3>2, <3>3, <4>1, <4>2
    <3>4. CASE j \in DOMAIN r
      <4>1. t[j] = r[j]
            BY <2>3, <3>4
      <4>2. QED
            BY <1>3, <3>1, <3>2, <3>4, <4>1 DEF KeptUpTo
    <3>5. QED
          BY <2>3, <3>1, <3>3, <3>4
  <2>6. KeptUpTo(t, s, e, n + 1)
        BY <2>4, <2>5 DEF KeptUpTo
  <2>7. QED
        BY <2>1, <2>6
<1>5. QED
      BY <1>2, <1>3, <1>4

\* The filter of _scoreExperience keeps the others, in their order.
LEMMA OthersKept ==
    ASSUME NEW S, NEW s \in Seq(S), NEW e
    PROVE  Others(s, e) \in Seq(S) /\ KeptUpTo(Others(s, e), s, e, Len(s))
<1>1. Len(s) \in Nat /\ DOMAIN s = 1..Len(s) /\ \A i \in 1..Len(s) : s[i] \in S
      OBVIOUS
<1> DEFINE f == [i \in DOMAIN s |-> IF s[i] = e THEN <<>> ELSE <<s[i]>>]
<1>2. /\ f = [i \in 1..Len(s) |-> f[i]]
      /\ \A i \in 1..Len(s) : f[i] \in Seq(S) /\ f[i] = IF s[i] = e THEN <<>> ELSE <<s[i]>>
      BY <1>1
<1>3. Others(s, e) = FlattenSeq(f)
      BY DEF Others
<1> HIDE DEF f
<1>4. f \in Seq(Seq(S)) /\ Len(f) = Len(s)
      BY <1>1, <1>2
<1>5. <<>> \in Seq(S) /\ KeptUpTo(<<>>, s, e, 0)
      BY DEF KeptUpTo
<1>6. CASE Len(s) = 0
  <2>1. f = <<>>
        BY <1>4, <1>6
  <2>2. FlattenSeq(f) = <<>>
        BY <2>1 DEF FlattenSeq
  <2>3. QED
        BY <1>3, <1>5, <1>6, <2>2
<1>7. CASE Len(s) > 0
  <2>1. PICK g \in [1..Len(f) -> Seq(S)] :
            /\ g[1] = f[1]
            /\ \A i \in 2..Len(f) : g[i] = g[i - 1] \o f[i]
            /\ FlattenSeq(f) = g[Len(f)]
        BY <1>4, <1>7, FlattenBy
  <2>2. \A i \in 1..Len(s) : g[i] \in Seq(S)
        BY <1>4, <2>1
  <2>3. ASSUME NEW n \in Nat, n + 1 <= Len(s), NEW r \in Seq(S), KeptUpTo(r, s, e, n)
        PROVE  KeptUpTo(r \o f[n + 1], s, e, n + 1)
    <3>1. f[n + 1] = IF s[n + 1] = e THEN <<>> ELSE <<s[n + 1]>>
          BY <1>1, <1>2, <2>3
    <3>2. /\ KeptUpTo(r \o <<>>, s, e, n + 1)
          /\ s[n + 1] # e => KeptUpTo(r \o <<s[n + 1]>>, s, e, n + 1)
          BY <2>3, KeptNext
    <3>3. CASE s[n + 1] = e
          BY <3>1, <3>2, <3>3
    <3>4. CASE s[n + 1] # e
          BY <3>1, <3>2, <3>4
    <3>5. QED
          BY <3>3, <3>4
  <2> DEFINE N == {n \in Nat : n + 1 <= Len(s) => KeptUpTo(g[n + 1], s, e, n + 1)}
  <2>4. 0 \in N
    <3>1. KeptUpTo(<<>> \o f[0 + 1], s, e, 0 + 1)
      <4>1. 0 \in Nat /\ 0 + 1 <= Len(s)
            BY <1>1, <1>7
      <4>2. QED
            BY ONLY <1>5, <2>3, <4>1
    <3>2. 0 + 1 = 1 /\ <<>> \o f[1] = g[1]
          BY <1>1, <1>2, <1>7, <2>1
    <3>3. QED
          BY <3>1, <3>2
  <2>5. ASSUME NEW n \in Nat, n \in N
        PROVE  n + 1 \in N
    <3>1. SUFFICES ASSUME (n + 1) + 1 <= Len(s)
                   PROVE  KeptUpTo(g[(n + 1) + 1], s, e, (n + 1) + 1)
          OBVIOUS
    <3>2. /\ n + 1 \in 1..Len(s) /\ n + 1 \in Nat /\ n + 1 <= Len(s)
          /\ (n + 1) + 1 \in 2..Len(f) /\ ((n + 1) + 1) - 1 = n + 1
          BY <1>1, <1>4, <3>1
    <3>3. g[(n + 1) + 1] = g[n + 1] \o f[(n + 1) + 1] /\ g[n + 1] \in Seq(S)
          BY <2>1, <2>2, <3>2
    <3>4. KeptUpTo(g[n + 1], s, e, n + 1)
          BY <2>5, <3>2
    <3>5. QED
          BY <2>3, <3>1, <3>2, <3>3, <3>4
  <2> HIDE DEF N
  <2>6. Nat \subseteq N
        BY <2>4, <2>5, NatSetInduction
  <2>7. KeptUpTo(g[Len(s)], s, e, Len(s))
    <3>1. Len(s) - 1 \in N /\ (Len(s) - 1) + 1 = Len(s)
          BY <1>1, <1>7, <2>6
    <3>2. QED
          BY <1>1, <3>1 DEF N
  <2>8. Others(s, e) = g[Len(s)] /\ g[Len(s)] \in Seq(S)
        BY <1>1, <1>3, <1>4, <1>7, <2>1, <2>2
  <2>9. QED
        BY <2>7, <2>8
<1>8. QED
      BY <1>1, <1>6, <1>7

\* The elites are recorded experiences, in ascending order.
EliteInv == campaign.elites \in Seq(Experiences) /\ ElitesAscend

\* A step that changes neither elites, nor scores, nor who placed them.
LEMMA SameElites ==
    ASSUME EliteInv, campaign'.elites = campaign.elites, curated' = curated,
           \A k \in Experiences : exps'[k].score = exps[k].score
    PROVE  EliteInv'
<1>1. \A i \in DOMAIN campaign.elites : campaign.elites[i] \in Experiences
      BY DEF EliteInv
<1>2. ElitesAscend'
      BY <1>1 DEF EliteInv, ElitesAscend
<1>3. QED
      BY <1>2 DEF EliteInv

\* An experience that is scored keeps the score it is given; the others keep theirs.
LEMMA ScoresKept ==
    ASSUME NEW ex \in ExperienceRecords, NEW e \in Experiences, NEW objective \in Objectives
    PROVE  /\ \A k \in Experiences \ {e} : WithScore(ex, e, objective)[k].score = ex[k].score
           /\ objective # NoObjective => WithScore(ex, e, objective)[e].score = Clamp01(objective)
      BY DEF WithScore, ExperienceRecords

\* The score kept for an objective better than all so far is above the score of
\* each experience, scored or not, or both are the top score.
LEMMA BestIsBest ==
    ASSUME Shape, NEW e \in Experiences, NEW objective \in Objectives, BestSoFar(e, objective)
    PROVE  \A k \in Experiences \ {e} : Below(exps[k].score, Clamp01(objective))
<1>1. objective \in Int /\ MaxScore \in Nat
      BY DiscoveryAssumption DEF BestSoFar, Objectives, Given
<1>2. ASSUME NEW k \in Experiences \ {e}
      PROVE  Below(exps[k].score, Clamp01(objective))
  <2>1. exps[k].score \in Scores \cup {NoScore}
        BY DEF Shape, ExperienceRecords
  <2>2. exps[k].score # NoScore => objective > exps[k].score
        BY DEF BestSoFar
  <2>3. QED
        BY ONLY <1>1, <2>1, <2>2 DEF Below, Clamp01, Scores, NoScore
<1>3. QED
      BY <1>2

\* _scoreExperience: an experience the engine places comes last and is the
\* best; one a caller places is left out of the order.
LEMMA RescoredAscends ==
    ASSUME Shape, EliteInv, NEW e \in Experiences, NEW objective \in Objectives,
           NEW elite \in BOOLEAN, NEW cam, IsCampaign(cam), cam.elites = campaign.elites,
           NEW ex \in ExperienceRecords, \A k \in Experiences : ex[k].score = exps[k].score,
           Persist(Rescored(cam, e, elite), WithScore(ex, e, objective)),
           \/ curated' = curated \ {e} /\ (elite => BestSoFar(e, objective))
           \/ curated' = curated \cup {e}
    PROVE  EliteInv'
<1> DEFINE s == campaign.elites
           r == Others(s, e)
<1>1. s \in Seq(Experiences)
      BY DEF EliteInv
<1>2. r \in Seq(Experiences) /\ KeptUpTo(r, s, e, Len(s))
      BY <1>1, OthersKept
<1>3. /\ exps' = WithScore(ex, e, objective)
      /\ campaign'.elites = IF elite THEN Append(r, e) ELSE r
      BY DEF Persist, Rescored, IsCampaign
<1>4. \A k \in Experiences \ {e} : exps'[k].score = exps[k].score /\ (k \in curated' <=> k \in curated)
      BY <1>3, ScoresKept
<1>5. \A i \in 1..Len(s) : i \in DOMAIN s /\ s[i] \in Experiences
      BY <1>1
<1>6. \A i, j \in DOMAIN s : i < j /\ s[i] \notin curated /\ s[j] \notin curated
                                => Below(exps[s[i]].score, exps[s[j]].score)
      BY DEF EliteInv, ElitesAscend
<1> HIDE DEF s, r
<1>7. /\ Len(r) \in Nat /\ DOMAIN r = 1..Len(r)
      /\ \A i \in DOMAIN r : r[i] \in Experiences \ {e}
      BY <1>2 DEF KeptUpTo
<1>8. \A i, j \in DOMAIN r : i < j /\ r[i] \notin curated' /\ r[j] \notin curated'
                                => Below(exps'[r[i]].score, exps'[r[j]].score)
  <2>1. SUFFICES ASSUME NEW i \in DOMAIN r, NEW j \in DOMAIN r, i < j,
                        r[i] \notin curated', r[j] \notin curated'
                 PROVE  Below(exps'[r[i]].score, exps'[r[j]].score)
        OBVIOUS
  <2>2. PICK k \in 1..Len(s), l \in 1..Len(s) : k < l /\ r[i] = s[k] /\ r[j] = s[l]
        BY <1>2, <2>1 DEF KeptUpTo
  <2>3. k \in DOMAIN s /\ l \in DOMAIN s
        BY <1>5
  <2>4. /\ exps'[r[i]].score = exps[r[i]].score /\ r[i] \notin curated
        /\ exps'[r[j]].score = exps[r[j]].score /\ r[j] \notin curated
        BY <1>4, <1>7, <2>1
  <2>5. Below(exps[s[k]].score, exps[s[l]].score)
        BY <1>6, <2>2, <2>3, <2>4
  <2>6. QED
        BY <2>2, <2>4, <2>5
<1>9. CASE ~elite
  <2>1. campaign'.elites = r
        BY <1>3, <1>9
  <2>2. ElitesAscend'
        BY <1>8, <2>1 DEF ElitesAscend
  <2>3. QED
        BY <1>2, <2>1, <2>2 DEF EliteInv
<1>10. CASE elite
  <2>1. PICK t : t = Append(r, e)
        OBVIOUS
  <2>2. /\ t \in Seq(Experiences) /\ DOMAIN t = 1..(Len(r) + 1)
        /\ t[Len(r) + 1] = e /\ \A i \in 1..Len(r) : t[i] = r[i]
        BY <1>2, <1>7, <2>1
  <2>3. campaign'.elites = t
        BY <1>3, <1>10, <2>1
  <2>4. ASSUME NEW i \in DOMAIN t, NEW j \in DOMAIN t, i < j,
               t[i] \notin curated', t[j] \notin curated'
        PROVE  Below(exps'[t[i]].score, exps'[t[j]].score)
    <3>1. i \in DOMAIN r /\ t[i] = r[i]
          BY <1>7, <2>2, <2>4
    <3>2. CASE j \in DOMAIN r
      <4>1. t[j] = r[j]
            BY <1>7, <2>2, <3>2
      <4>2. QED
            BY <1>8, <2>4, <3>1, <3>2, <4>1
    <3>3. CASE j = Len(r) + 1
      <4>1. t[j] = e /\ e \notin curated'
            BY <2>2, <2>4, <3>3
      <4>2. BestSoFar(e, objective)
            BY <1>10, <4>1
      <4>3. exps'[e].score = Clamp01(objective)
            BY <1>3, <4>2, ScoresKept DEF BestSoFar
      <4>4. Below(exps[r[i]].score, Clamp01(objective))
            BY <1>7, <3>1, <4>2, BestIsBest
      <4>5. exps'[r[i]].score = exps[r[i]].score
            BY <1>4, <1>7, <3>1
      <4>6. QED
            BY <3>1, <4>1, <4>3, <4>4, <4>5
    <3>4. QED
          BY <1>7, <2>2, <3>2, <3>3
  <2>5. ElitesAscend'
        BY <2>3, <2>4 DEF ElitesAscend
  <2>6. QED
        BY <2>2, <2>3, <2>5 DEF EliteInv
<1>11. QED
      BY <1>9, <1>10

\* A result leaves the elites as they are or scores its experience.
LEMMA AppliedAscends ==
    ASSUME Shape, EliteInv, NEW e \in Experiences, NEW status \in Results,
           NEW objective \in Objectives, ApplyResult(e, status, objective)
    PROVE  EliteInv'
<1> DEFINE cam == Counted(campaign, status = "completed")
           ex == [exps EXCEPT ![e].status = status]
<1>1. IsCampaign(cam)
      BY CountedOnce DEF Shape
<1>2. cam.elites = campaign.elites
      BY DEF Counted, Shape, IsCampaign
<1>3. ex \in ExperienceRecords /\ \A k \in Experiences : ex[k].score = exps[k].score
      BY DEF Shape, ExperienceRecords, Statuses, Results
<1>4. CASE status = "cancelled"
  <2>1. Persist(cam, ex) /\ curated' = curated
        BY <1>4 DEF ApplyResult
  <2>2. campaign' = cam /\ exps' = ex
        BY <2>1 DEF Persist
  <2>3. QED
        BY <1>2, <1>3, <2>1, <2>2, SameElites
<1>5. CASE status # "cancelled"
  <2>1. PICK valid \in {status = "completed", FALSE} :
            Persist(Rescored(cam, e, valid /\ BestSoFar(e, objective)),
                    WithScore(ex, e, objective))
        BY <1>5 DEF ApplyResult
  <2>2. curated' = curated \ {e}
        BY <1>5 DEF ApplyResult
  <2>3. PICK elite \in BOOLEAN : elite = (valid /\ BestSoFar(e, objective))
        OBVIOUS
  <2>4. Persist(Rescored(cam, e, elite), WithScore(ex, e, objective))
        BY <2>1, <2>3
  <2>5. elite => BestSoFar(e, objective)
        BY <2>3
  <2> HIDE DEF cam, ex
  <2>6. QED
        BY <1>1, <1>2, <1>3, <2>2, <2>4, <2>5, RescoredAscends
<1>6. QED
      BY <1>4, <1>5

\* Every action keeps the order of the elites.
LEMMA ElitesKept == IInv /\ EliteInv /\ [Next]_vars => EliteInv'
<1>1. SUFFICES ASSUME IInv, EliteInv, [Next]_vars
               PROVE  EliteInv'
      OBVIOUS
<1>2. Shape /\ exps \in ExperienceRecords /\ IsCampaign(campaign)
      BY <1>1 DEF IInv, Shape
<1>3. ASSUME NEW c \in Calls, Answer(c)
      PROVE  EliteInv'
  <2>1. CASE Submitted(c)
    <3>1. /\ campaign' = [campaign EXCEPT !.usage.submitted = @ + 1]
          /\ exps' = [exps EXCEPT ![calls[c].exp].status = "running"] /\ curated' = curated
          BY <2>1 DEF Submitted, Persist
    <3>2. campaign'.elites = campaign.elites
          BY <1>2, <3>1 DEF IsCampaign
    <3>3. \A k \in Experiences : exps'[k].score = exps[k].score
          BY <1>2, <3>1 DEF ExperienceRecords
    <3>4. QED
          BY <1>1, <3>1, <3>2, <3>3, SameElites
  <2>2. CASE SubmitRefused(c) \/ ResultRefused(c)
    <3>1. UNCHANGED <<campaign, exps, curated>>
          BY <2>2 DEF SubmitRefused, ResultRefused
    <3>2. QED
          BY <1>1, <3>1, SameElites
  <2>3. CASE Result(c)
    <3>1. calls[c].exp \in Experiences
          BY <1>1, <2>3 DEF Result, IInv, CallsAreAboutExperiences
    <3>2. PICK status \in Results, objective \in Objectives :
              ApplyResult(calls[c].exp, status, objective)
          BY <2>3, MeasuredObjectives DEF Result, Results
    <3>3. QED
          BY <1>1, <1>2, <3>1, <3>2, AppliedAscends
  <2>4. CASE ReplicaSubmitted(c)
    <3>1. /\ campaign' = [campaign EXCEPT !.usage.submitted = @ + 1]
          /\ UNCHANGED <<exps, curated>>
          BY <2>4 DEF ReplicaSubmitted
    <3>2. campaign'.elites = campaign.elites
          BY <1>2, <3>1 DEF IsCampaign
    <3>3. QED
          BY <1>1, <3>1, <3>2, SameElites
  <2>5. CASE ReplicaResult(c)
    <3>1. PICK ok \in BOOLEAN : campaign' = Counted(campaign, ok)
          BY <2>5 DEF ReplicaResult, Persist
    <3>2. campaign'.elites = campaign.elites
          BY <1>2, <3>1 DEF Counted, IsCampaign
    <3>3. exps' = exps /\ curated' = curated
          BY <2>5 DEF ReplicaResult, Persist
    <3>4. QED
          BY <1>1, <3>2, <3>3, SameElites
  <2>6. QED
        BY <1>3, <2>1, <2>2, <2>3, <2>4, <2>5 DEF Answer
<1>4. ASSUME NEW to, Persist([campaign EXCEPT !.status = to], exps), curated' = curated
      PROVE  EliteInv'
  <2>1. campaign'.elites = campaign.elites /\ exps' = exps
        BY <1>2, <1>4 DEF Persist, IsCampaign
  <2>2. QED
        BY <1>1, <1>4, <2>1, SameElites
<1>5. ASSUME NEW c \in Calls, NEW execute \in BOOLEAN, NEW late \in BOOLEAN,
             RecordExperience(c, execute, late)
      PROVE  EliteInv'
  <2>1. CASE BudgetHit(late)
        BY <1>4, <1>5, <2>1 DEF RecordExperience, Exhaust
  <2>2. CASE ~BudgetHit(late)
    <3>1. PICK e \in Experiences : Persist(campaign, [exps EXCEPT ![e].status = "pending"])
          BY <1>5, <2>2 DEF RecordExperience
    <3>2. /\ campaign' = campaign /\ exps' = [exps EXCEPT ![e].status = "pending"]
          /\ curated' = curated
          BY <1>5, <3>1 DEF RecordExperience, Persist
    <3>3. \A k \in Experiences : exps'[k].score = exps[k].score
          BY <1>2, <3>2 DEF ExperienceRecords
    <3>4. QED
          BY <1>1, <3>2, <3>3, SameElites
  <2>3. QED
        BY <2>1, <2>2
<1>6. ASSUME NEW c \in Calls, NEW e \in Experiences, ExecuteExperience(c, e)
      PROVE  EliteInv'
  <2>1. CASE campaign.usage.submitted >= MaxComputeJobs
        BY <1>4, <1>6, <2>1 DEF ExecuteExperience, Exhaust
  <2>2. CASE ~(campaign.usage.submitted >= MaxComputeJobs)
    <3>1. UNCHANGED <<campaign, exps, curated>>
          BY <1>6, <2>2 DEF ExecuteExperience
    <3>2. QED
          BY <1>1, <3>1, SameElites
  <2>3. QED
        BY <2>1, <2>2
<1>7. ASSUME NEW c \in Calls, NEW e \in Experiences, NEW n \in Seeds, NEW late \in BOOLEAN,
             Replicate(c, e, n, late)
      PROVE  EliteInv'
  <2>1. CASE BudgetHit(late)
        BY <1>4, <1>7, <2>1 DEF Replicate, Exhaust
  <2>2. CASE ~BudgetHit(late)
    <3>1. UNCHANGED <<campaign, exps, curated>>
          BY <1>7, <2>2 DEF Replicate
    <3>2. QED
          BY <1>1, <3>1, SameElites
  <2>3. QED
        BY <2>1, <2>2
<1>8. ASSUME NEW e \in Experiences, AttachResult(e)
      PROVE  EliteInv'
  <2>1. PICK status \in Results, objective \in Objectives : ApplyResult(e, status, objective)
        BY <1>8, MeasuredObjectives DEF AttachResult, Results
  <2>2. QED
        BY <1>1, <1>2, <2>1, AppliedAscends
<1>9. ASSUME NEW e \in Experiences, ScoreExperience(e)
      PROVE  EliteInv'
  <2>1. PICK objective \in Objectives :
            \/ /\ \E valid \in BOOLEAN :
                     Persist(Rescored(campaign, e, valid /\ BestSoFar(e, objective)),
                             WithScore(exps, e, objective))
               /\ curated' = curated \ {e}
            \/ /\ \E elite \in BOOLEAN :
                     Persist(Rescored(campaign, e, elite), WithScore(exps, e, objective))
               /\ curated' = curated \cup {e}
        BY <1>9 DEF ScoreExperience
  <2>2. PICK elite \in BOOLEAN :
            /\ Persist(Rescored(campaign, e, elite), WithScore(exps, e, objective))
            /\ \/ curated' = curated \ {e} /\ (elite => BestSoFar(e, objective))
               \/ curated' = curated \cup {e}
        BY <2>1, Zenon DEF BestSoFar
  <2>3. QED
        BY <1>1, <1>2, <2>2, RescoredAscends
<1>10. CASE PauseCampaign \/ ResumeCampaign \/ Complete \/ MarkBudgetExhausted
      BY <1>4, <1>10 DEF PauseCampaign, ResumeCampaign, Complete, MarkBudgetExhausted, SetStatus
<1>11. CASE Touch \/ UNCHANGED vars
  <2>1. UNCHANGED <<campaign, exps, curated>>
        BY <1>11 DEF Touch, Persist, vars
  <2>2. QED
        BY <1>1, <2>1, SameElites
<1>12. CASE Restart
  <2>1. campaign'.elites = campaign.elites /\ UNCHANGED <<exps, curated>>
        BY <1>1, <1>12 DEF Restart, IInv, FileIsCurrent
  <2>2. QED
        BY <1>1, <2>1, SameElites
<1>13. QED
      BY <1>1, <1>3, <1>5, <1>6, <1>7, <1>8, <1>9, <1>10, <1>11, <1>12 DEF Next

LEMMA ElitesInitially == Init => EliteInv
      BY DEF Init, NewCampaign, EliteInv, ElitesAscend

\* _scoreExperience: whatever results come in which order, and however often an
\* experience is scored again, the elites the engine placed are in ascending order,
\* so that none of them has a better score than the last; two may share the top
\* score, where an objective above 1 was clamped.
THEOREM ElitesStayInOrder == Spec => []ElitesAscend
<1>1. EliteInv => ElitesAscend
      BY DEF EliteInv
<1>2. QED
      BY <1>1, ElitesInitially, ElitesKept, Invariance, PTL DEF Spec

=============================================================================
