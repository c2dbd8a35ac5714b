-------------------------- MODULE AgentInvariants --------------------------
(***************************************************************************)
(* The invariants that AgentProofs proves of Agent, in the order they are  *)
(* proved, with the notions they are stated in.                            *)
(*                                                                         *)
(* IInv ties waits, responses and runs to the labels of the loop.  On it   *)
(* stand TalkInv, about the conversation: the two copies of it, the        *)
(* response at hand and the results behind it; SupersededRun, about a run  *)
(* whose complete response a listener aborted; Accounted, about the places *)
(* a message may be in; and OrderInv, about the line: the transcript       *)
(* followed by all that is on its way to it.                               *)
(***************************************************************************)
EXTENDS Agent

\* The responses that a request may end with.
ReplySet == [role : {"assistant"}, id : Nat, calls : 0..MaxCalls,
             stopReason : {"stop", "error", "aborted"}]

\* Labels at which a batch of tool calls is being executed.
BatchLabels == {"announce", "prepare", "prepared", "result", "resultEnd", "resulted", "batchDone"}

\* Which segment follows which wait.
WaitMatchesLabel ==
    /\ wait = "poll" => pc \in {"start", "polledSteering", "polledFollowUp"}
    /\ wait = "provider" => pc = "stream"
    /\ wait = "beforeToolCall" => pc = "prepare"
    /\ wait = "tools" => pc = "result"
    /\ wait = "shouldStopAfterTurn" => pc = "stopped"
    /\ wait = "getContinuationMessages" => pc = "continued"
    /\ pc \in {"idle", "announce", "fail", "pollSteering", "pollFollowUp"} => wait = "none"
    /\ pc \in {"finish", "failFinish"} => wait \in {"none", "agent_end"}
    /\ wait = "agent_end" => pc \in {"finish", "failFinish"}

\* The response and the call at hand are the ones the labels promise.
BatchShape ==
    /\ reply \in ReplySet \cup {NoMessage}
    /\ pc \in BatchLabels \cup {"replyEnd", "turn", "afterTurn"} => reply \in ReplySet
    /\ pc \in BatchLabels => turn \in 1..MaxTurns /\ reply.calls >= 1
    /\ pc \in {"replyEnd", "turn"} /\ reply.stopReason = "stop" => turn \in 1..MaxTurns
    /\ pc \in {"prepare", "prepared", "resultEnd", "resulted"} => idx <= reply.calls
    /\ wait = "tools" => idx <= reply.calls
    /\ pc \in BatchLabels => idx <= reply.calls + 1

\* The active run is the last one started; exactly the runs before it have ended,
\* and it too once it has emitted agent_end.
RunShape ==
    /\ activeRun = 0 <=> pc = "idle"
    /\ activeRun # 0 => activeRun = runs
    /\ pc \in {"finish", "failFinish"} => activeRun \in ended
    /\ \A r \in 1..runs : r # activeRun => r \in ended
    /\ activeRun = 0 => ~isStreaming /\ streamingMessage = NoMessage
    /\ activeRun # 0 /\ ~disturbed => isStreaming

IInv == TypeOK /\ WaitMatchesLabel /\ BatchShape /\ RunShape

-----------------------------------------------------------------------------
(* Tool tasks, pending calls and the end of a run *)

\* No listener of agent_end or tool_execution_end rejects.
EndListenersReturn == ThrowOn \cap {"agent_end", "tool_execution_end"} = {}

\* Tool tasks run only while their batch waits for them, and no task breaks.
\* Calls of later responses, and of a response whose batch has not begun, have no
\* task yet: that is why every task of the batch belongs to the active run.
TasksInBatch ==
    /\ \A c \in CallIds : tools[c].status # "broken"
    /\ \A c \in CallIds : tools[c].status \in {"executing", "refused"} =>
          tools[c].run = activeRun /\ wait = "tools" /\ c \in Awaited
    /\ \A c \in CallIds : c[1] > turn => tools[c].status = "none"
    /\ pc \in {"replyEnd", "turn"} /\ reply.stopReason = "stop" =>
          \A c \in CallIds : c[1] = turn => tools[c].status = "none"
    /\ pc \in BatchLabels =>
          \A c \in CallIds : c[1] = turn /\ tools[c].status # "none" => tools[c].run = activeRun
    /\ pc = "prepare" => tools[Call].status = "announced"

\* A run that has emitted agent_end does nothing but finish.
EndedIsOver == activeRun \in ended => pc \in {"finish", "failFinish"}

FInv == IInv /\ TasksInBatch /\ EndedIsOver /\ AgentEndIsFinal

\* state.pendingToolCalls tells the announced calls of the active run; no task belongs
\* to a run that has not started, and the call being prepared has been announced.
PendingOfRun ==
    /\ PendingMatchesTasks
    /\ activeRun = 0 => pendingToolCalls = {}
    /\ \A c \in CallIds : tools[c].run <= runs
    /\ pc = "prepare" => tools[Call].status = "announced" /\ tools[Call].run = activeRun

PendingInv == IInv /\ PendingOfRun

-----------------------------------------------------------------------------
(* The conversation: types, the two copies, the response at hand and its results *)

\* The messages: what hosts queue, the results of tool calls, responses.
HostIds      == DOMAIN RoleOf
HostMessages == {HostMessage(m) : m \in HostIds}
ResultMessages      == [role : {"toolResult"}, id : CallIds]
ResponseMessages    == [role : {"assistant"}, id : Nat, calls : 0..MaxCalls,
                 stopReason : {"stop", "error", "aborted", "partial"}]
Messages     == HostMessages \cup ResultMessages \cup ResponseMessages

\* The labels of handleRunFailure, those before the loop proper, and those at which
\* the transcript is ahead of the context or behind it.
Failing   == {"fail", "failEnd", "failAgentEnd", "failFinish"}
Prompting == {"begin", "prompts", "promptEnd"}
InLoop      == pc \notin Failing \cup {"idle"}
Apart     == Prompting \cup BatchLabels \cup {"replyEnd", "injected"}

\* The queues hold batches, the lists messages; what a label says of its list.
QueuesOK == steeringQueue \in Seq(Seq(HostIds)) /\ followUpQueue \in Seq(Seq(HostIds))
ListsOK  == /\ prompts \in Seq(HostMessages) /\ pendingMessages \in Seq(HostMessages)
            /\ polled \in Seq(HostMessages)
CopiesOK == /\ messages \in Seq(Messages) /\ context \in Seq(Messages)
            /\ newMessages \in Seq(Messages) /\ toolResults \in Seq(ResultMessages)
            /\ base \in Nat
LabelsOK ==
    /\ pc = "promptEnd" => prompts # <<>>
    /\ pc \in {"injectEnd", "injected"} => pendingMessages # <<>>
    /\ addedPartial /\ InLoop => pc \in {"stream", "next", "turn"} /\ context # <<>>
    /\ pc = "next" => addedPartial
    /\ pc = "failEnd" => reply \in ReplySet
    /\ superseded # "none" /\ InLoop =>
          /\ pc \in {"replyEnd", "turn", "end", "finish"}
          /\ pc \in {"replyEnd", "turn"} => reply.stopReason = "aborted"

DataInv == QueuesOK /\ ListsOK /\ CopiesOK /\ LabelsOK
ListInv == IInv /\ DataInv

\* The context the loop pushes to and the transcript that processEvents maintains
\* differ only by what is on its way between the two: the prompts not yet emitted,
\* the partial or unfinished response, the results of the current batch, the
\* message being injected.  A run that ends with a superseded response pushes to the
\* context no more; what it reports is said by SupersededRun.
CopiesAgree ==
  InLoop /\ ~disturbed /\ superseded = "none" =>
    /\ pc \in Prompting => context = messages \o prompts
    /\ addedPartial /\ pc # "turn" => context = Append(messages, Partial)
    /\ pc = "replyEnd" => context = Append(messages, reply)
    /\ pc \in BatchLabels \ {"resulted"} => messages = context \o toolResults
    /\ pc = "resulted" => messages = Append(context \o toolResults, ToolResult(Call))
    /\ pc = "injected" => messages = Append(context, Head(pendingMessages))
    /\ pc \notin Apart /\ (~addedPartial \/ pc = "turn") => messages = context

CopyInv == ListInv /\ CopiesAgree

\* n is what c has from position b on, but for the last lag elements.
TailOf(c, n, b, lag) ==
    /\ Len(c) = b + Len(n) + lag
    /\ \A i \in 1..Len(n) : n[i] = c[b + i]

\* The last message of the context is not in newMessages yet.
Lags == addedPartial \/ pc \in {"replyEnd", "turn"}

\* newMessages is what the run has added to the context.
NewIsTail ==
  InLoop /\ superseded = "none" => TailOf(context, newMessages, base, IF Lags THEN 1 ELSE 0)

\* x is the last element of s.
EndsWith(s, x) == s # <<>> /\ s[Len(s)] = x

\* While a response is being completed or answered it is the last message of the
\* context; only a response that stopped normally has tool calls.
ReplyInContext ==
    /\ pc \in BatchLabels \cup {"replyEnd", "turn"} =>
          /\ EndsWith(context, reply)
          /\ reply.stopReason = "stop" => reply.id = turn
          /\ reply.stopReason # "stop" => reply.calls = 0
    /\ pc \in BatchLabels => reply.stopReason = "stop"

TailInv == CopyInv /\ NewIsTail /\ ReplyInContext

\* The results of the current batch are those of calls 1, 2, ... of the response; a
\* batch that ends early belongs to an aborted run.
ResultsInOrder ==
    pc \in BatchLabels =>
      /\ \A k \in 1..Len(toolResults) : toolResults[k] = ToolResult(<<turn, k>>)
      /\ IF batchMode = "parallel" /\ pc \in {"announce", "prepare", "prepared"}
         THEN toolResults = <<>> ELSE Len(toolResults) = idx - 1
      /\ pc = "batchDone" => Aborted \/ idx > reply.calls

\* Every response at positions lo + 1 to hi of ms is followed by its results.
Answered(ms, lo, hi) ==
    \A i \in (lo + 1)..hi :
        ms[i].role = "assistant" =>
            \A k \in 1..ms[i].calls :
                /\ i + k <= Len(ms)
                /\ ms[i + k] = ToolResult(<<ms[i].id, k>>)

\* The last response of the context is still being answered.
Answering == pc \in BatchLabels \cup {"turn"}

\* All responses of the run are answered, but for the last one while its batch runs or
\* when the abort signal cut it short, after which the run ends.
AllAnswered ==
  InLoop /\ ~disturbed /\ superseded = "none" =>
    /\ Answering => Answered(messages, base, Len(context) - 1)
    /\ ~Answering /\ ~(Aborted /\ pc \in {"afterTurn", "end", "finish"}) =>
          Answered(messages, base, Len(messages))

\* The tasks of later responses, and of one whose batch has not begun, have not
\* started; those of the current batch belong to the active run.
TurnTasks ==
    /\ \A c \in CallIds : c[1] > turn => tools[c].status = "none"
    /\ pc \in {"replyEnd", "turn"} /\ reply.stopReason = "stop" =>
          \A c \in CallIds : c[1] = turn => tools[c].status = "none"
    /\ pc \in BatchLabels =>
          \A c \in CallIds : c[1] = turn /\ tools[c].status # "none" => tools[c].run = activeRun

TalkInv == PendingInv /\ ListInv /\ CopiesAgree /\ NewIsTail /\ ReplyInContext /\ ResultsInOrder /\ AllAnswered /\ TurnTasks

-----------------------------------------------------------------------------
(* The report of a run, and its complete response that a listener aborted *)

\* The part of c after position b.
Suffix(c, b) == SubSeq(c, b + 1, Len(c))

\* The superseded response is in the transcript and in no report.
Unreported == IF superseded = "told" THEN 1 ELSE 0

\* n is what s has from position b on, but for d elements before the last one.
ReportOf(s, n, b, d) ==
    /\ Len(n) >= 1 /\ Len(s) = b + Len(n) + d
    /\ \A i \in 1..(Len(n) - 1) : n[i] = s[b + i]
    /\ n[Len(n)] = s[Len(s)]

\* An aborted run whose response was superseded is on its way to its agent_end:
\* newMessages lacks that response if the transcript has it, and nothing else.
SupersededRun ==
  InLoop /\ superseded # "none" =>
    /\ Aborted
    /\ ~disturbed =>
         /\ pc = "replyEnd" => TailOf(messages, newMessages, base, Unreported)
         /\ pc = "turn" => TailOf(messages, newMessages, base, Unreported + 1)
                           /\ EndsWith(messages, reply)
         /\ pc \in {"end", "finish"} => ReportOf(messages, newMessages, base, Unreported)

ReportInv == TalkInv /\ SupersededRun

-----------------------------------------------------------------------------
(* What a starting tool may rely on *)

\* What ToolStartIsJustified says of a call that starts.
Justified(c) ==
  /\ activeRun \notin abortedRuns
  /\ ~disturbed =>
       /\ c \in pendingToolCalls
       /\ \E i \in DOMAIN messages :
             messages[i].role = "assistant" /\ messages[i].id = c[1]
       /\ batchMode = "sequential" =>
             \A k \in 1..(c[2] - 1) : ToolResult(<<c[1], k>>) \in ToSet(messages)

-----------------------------------------------------------------------------
(* Where a message is that the host handed over *)

\* The messages of a list, and those a transcript says for the host.
Ids(s) == {m.id : m \in ToSet(s)}

Said(ms) == {ms[i].id : i \in {j \in DOMAIN ms : ms[j].role \in {"user", "custom"}}}

\* What the host handed over, and how it moves on: which batches the queues and sent
\* hold, where each list may be non-empty, and the message just injected is said.
HandedOver == UNION {ToSet(sent[i][2]) : i \in DOMAIN sent}

BatchesQueued ==
    /\ steeringQueue \in Seq(Batches) /\ followUpQueue \in Seq(Batches)
    /\ sent \in Seq({"prompt", "steer", "followUp", "continuation"} \X Batches)

ListsByLabel ==
    /\ prompts # <<>> => pc \in Prompting \cup {"fail"}
    /\ pendingMessages # <<>> => pc \in {"inject", "injectEnd", "injected", "fail"}
    /\ polled # <<>> => pc \in {"start", "polledSteering", "polledFollowUp", "continued", "fail"}
    /\ wait = "getContinuationMessages" => polled = <<>>

InjectedIsSaid == pc = "injected" => Head(pendingMessages).id \in InTranscript \cup gone

Accounted == abortedRuns \cup failed = {} => HandedOver \subseteq Held

\* What a message the host handed over may be in.
Places == Said(messages) \cup gone \cup InQueue(steeringQueue) \cup InQueue(followUpQueue)
          \cup Ids(prompts) \cup Ids(pendingMessages) \cup Ids(polled)

\* A step loses nothing, and what it hands over is somewhere.
NothingMissing ==
    abortedRuns' \cup failed' = {} =>
        /\ abortedRuns \cup failed = {}
        /\ Places \subseteq Places'
        /\ HandedOver' \subseteq HandedOver \cup Places'

-----------------------------------------------------------------------------
(* The line: the transcript and what is on its way to it *)

\* The operations whose batches wait in a queue, and the histories of operations.
QueueOps == {"steer", "followUp"}
SentSeqs == Seq({"prompt", "steer", "followUp", "continuation"} \X Batches)

\* A message is handed over in one place of one batch: messages are objects with an
\* identity, and the host makes new ones for every call.
DisjointBatches ==
    \A b, c \in Batches : \A k \in DOMAIN b, l \in DOMAIN c : b[k] = c[l] => b = c /\ k = l

\* The line tells x.
Told(x, line) == \E p \in DOMAIN line : line[p] = HostMessage(x)

\* No batch is handed over twice.
SentOnce(s) == \A i, j \in DOMAIN s : s[i][2] = s[j][2] => i = j

\* No message is twice in a line, and all were handed over.
EachOnce(line, s) ==
    \A p \in DOMAIN line : \A x \in HostIds : line[p] = HostMessage(x) =>
        /\ \E i \in DOMAIN s : x \in ToSet(s[i][2])
        /\ \A q \in DOMAIN line : line[q] = HostMessage(x) => p = q

\* The messages of a batch follow each other, but for those in g.
Together(line, g) ==
    \A b \in Batches : \A k \in DOMAIN b \ {1} : \A p \in DOMAIN line :
        line[p] = HostMessage(b[k]) =>
            b[k - 1] \in g \/ (p > 1 /\ line[p - 1] = HostMessage(b[k - 1]))

\* Batches of one queue are in the order they were handed over.
InTurn(line, s) ==
    \A i, j \in DOMAIN s : i < j /\ s[i][1] = s[j][1] /\ s[i][1] \in QueueOps =>
        \A p, q \in DOMAIN line :
            line[p] = HostMessage(s[i][2][1]) /\ line[q] = HostMessage(s[j][2][1]) => p < q

LineOK(line, s, g) == EachOnce(line, s) /\ Together(line, g) /\ InTurn(line, s)

\* No message of the queue q is in the line.
Waits(q, line) == \A k \in DOMAIN q : \A x \in ToSet(q[k]) : ~Told(x, line)

\* A queue holds batches of its operation in the order they were handed over, and they
\* were handed over after those of the same operation that are in the line.
QueueOK(op, q, line, s) ==
    /\ \A k \in DOMAIN q : \E i \in DOMAIN s : s[i] = <<op, q[k]>>
    /\ \A k, l \in DOMAIN q : k < l =>
          \A i, j \in DOMAIN s : s[i][2] = q[k] /\ s[j][2] = q[l] => i < j
    /\ Waits(q, line)
    /\ \A k \in DOMAIN q : \A i, j \in DOMAIN s :
          s[i][2] = q[k] /\ s[j][1] = op /\ Told(s[j][2][1], line) => j < i

\* All of it, for a line, the queues Q, the history s and the removed messages g.
OrderAt(line, Q, s, g) ==
    /\ SentOnce(s) /\ LineOK(line, s, g)
    /\ \A op \in QueueOps : QueueOK(op, Q[op], line, s)

\* r is a subsequence of q.
Sub(r, q) ==
    \E h \in [DOMAIN r -> DOMAIN q] :
        /\ \A k \in DOMAIN r : r[k] = q[h[k]]
        /\ \A k, l \in DOMAIN r : k < l => h[k] < h[l]

Queues == [QueueOps -> Seq(Batches)]

\* The queues Q, but for that of o, which is q.
With(Q, o, q, R) == R[o] = q /\ \A op \in QueueOps \ {o} : R[op] = Q[op]

\* The batch b has not been handed over.
FreshIn(b, s) == \A i \in DOMAIN s : s[i][2] # b

\* n is the part of the line behind position d.
Window(n, line, d) == \A p \in DOMAIN n : p + d \in DOMAIN line /\ n[p] = line[p + d]

\* The transcript and all that is on its way into it: the prompts, the injected messages
\* (the first of which has just joined the transcript at "injected"), what was
\* polled.  handleRunFailure drops what is on its way.
LineOf(ms, p, c, l, label) ==
    IF label = "fail" THEN ms
    ELSE ms \o (p \o ((IF label = "injected" THEN Tail(c) ELSE c) \o l))

Line    == LineOf(messages, prompts, pendingMessages, polled, pc)
QueueOf == [op \in QueueOps |-> IF op = "steer" THEN steeringQueue ELSE followUpQueue]

OrderInv == OrderAt(Line, QueueOf, sent, gone)

\* What the labels say of the lists, and the types of all that is ordered.
ListTypes ==
    /\ messages \in Seq(Messages)
    /\ prompts \in Seq(HostMessages) /\ pendingMessages \in Seq(HostMessages)
    /\ polled \in Seq(HostMessages)
    /\ pc = "promptEnd" => prompts # <<>>
    /\ pc \in {"injectEnd", "injected"} => pendingMessages # <<>>

=============================================================================
