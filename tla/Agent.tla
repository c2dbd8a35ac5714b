------------------------------- MODULE Agent -------------------------------
(***************************************************************************)
(* The agent of packages/agent: the Agent class (agent.ts), which owns the *)
(* transcript, the steering and follow-up queues and the active run, and   *)
(* the loop it runs (agent-loop.ts): inject pending messages, ask the      *)
(* model, execute its tool calls, poll for more work.                      *)
(*                                                                         *)
(* JavaScript runs one segment at a time, from one await to the next.  An  *)
(* action is such a segment; pc names the segment that runs next and wait  *)
(* the promise it is suspended on: the listeners of an emitted event, or   *)
(* an external operation that is raced with the abort signal.  Host calls  *)
(* (prompt, steer, abort, ...) and the concurrent tool tasks of a parallel *)
(* batch interleave at every await.                                        *)
(*                                                                         *)
(* A message is its role and an identity; an assistant message also has    *)
(* its number of tool calls and its stop reason.                           *)
(***************************************************************************)
EXTENDS Naturals, FiniteSets, SequencesExt

CONSTANTS
    Batches,    \* the message batches a host prompts, steers, ... with
    RoleOf,     \* the role of each message of a batch: "user" or "custom"
    HostOps,    \* the queue operations this host uses besides prompt and abort
    QueueModes, \* the drain modes the host sets: "all", "one-at-a-time"
    BatchModes, \* how a batch of tool calls may run: "sequential", "parallel"
    ThrowOn,    \* events whose listeners may throw; "provider" and "hook"
                \* when the provider or a host callback may reject
    MaxRuns,    \* bound: runs started
    MaxTurns,   \* bound: complete responses of the model
    MaxCalls,   \* bound: tool calls in one response
    MaxResets   \* bound: calls of reset()

EventTypes == {"agent_start", "turn_start", "message_start", "message_update",
               "message_end", "tool_execution_start", "tool_execution_end",
               "turn_end", "agent_end"}

ASSUME BoundsAssumption ==
    MaxRuns \in Nat /\ MaxTurns \in Nat /\ MaxCalls \in Nat /\ MaxResets \in Nat
ASSUME ModesAssumption ==
    /\ BatchModes \subseteq {"sequential", "parallel"}
    /\ QueueModes \subseteq {"all", "one-at-a-time"}
\* enqueue() ignores an empty batch.
ASSUME BatchesAssumption ==
    /\ RoleOf \in [DOMAIN RoleOf -> {"user", "custom"}]
    /\ Batches \subseteq Seq(DOMAIN RoleOf) \ {<<>>}
ASSUME ThrowAssumption == ThrowOn \subseteq EventTypes \cup {"provider", "hook"}

VARIABLES
    \* AgentState
    messages,         \* the transcript, state.messages
    isStreaming,
    streamingMessage, \* the message between its start and its end event
    pendingToolCalls, \* ids of the tool calls announced and not yet ended
    errorMessage,     \* whether state.errorMessage is set
    \* PendingMessageQueues: sequences of batches, and the drain mode of each
    steeringQueue, followUpQueue, mode,
    \* ActiveRun
    runs,             \* number of runs started
    activeRun,        \* the active run, 0 when idle
    abortedRuns,      \* runs whose abort signal has fired
    \* runLoop: where it is and its locals
    pc, wait,
    context,          \* currentContext.messages
    newMessages,
    prompts,          \* prompt messages still to be emitted
    pendingMessages,  \* injected messages still to be emitted
    polled,           \* the value of the last poll
    firstTurn, skipInitialSteeringPoll, hasMoreToolCalls,
    addedPartial,
    reply,            \* the assistant message being emitted or answered
    \* executeToolCalls
    turn,             \* complete responses so far
    batchMode, idx, toolResults,
    tools,            \* the task of each tool call
    \* history
    sent,             \* <<operation, batch>> in the order the host made them
    gone,             \* messages the host removed again
    ended,            \* runs that have emitted agent_end
    late,             \* runs that emitted an event after their agent_end
    failed,           \* runs that went through handleRunFailure
    base,             \* length of the transcript when the run started
    resets,
    disturbed,        \* reset() was called during the active run
    superseded        \* the response of the active run that an aborted one took
                      \* the place of: "none", "untold" or, after its message_end, "told"

agentState == <<messages, isStreaming, streamingMessage, pendingToolCalls, errorMessage>>
queues     == <<steeringQueue, followUpQueue, mode>>
runVars    == <<runs, activeRun, abortedRuns>>
control    == <<pc, wait, ended, late>>
locals     == <<context, newMessages, prompts, pendingMessages, polled, firstTurn,
                skipInitialSteeringPoll, hasMoreToolCalls, addedPartial, reply>>
batchVars  == <<turn, batchMode, idx, toolResults, tools>>
history    == <<sent, gone, failed, base, resets, disturbed, superseded>>
vars       == <<agentState, queues, runVars, control, locals, batchVars, history>>

-----------------------------------------------------------------------------
(* Messages and tool calls *)

NoMessage        == [role |-> "none"]
HostMessage(m)   == [role |-> RoleOf[m], id |-> m]
Assistant(n, c, stop) ==
    [role |-> "assistant", id |-> n, calls |-> c, stopReason |-> stop]
ToolResult(c)    == [role |-> "toolResult", id |-> c]
AsMessages(b)    == [i \in DOMAIN b |-> HostMessage(b[i])]

CallIds   == (1..MaxTurns) \X (1..MaxCalls)
NoTask    == [status |-> "none", run |-> 0, terminate |-> FALSE]
Call      == <<turn, idx>>                    \* the call at hand
Calls     == {<<turn, i>> : i \in 1..reply.calls}  \* the calls of the batch
Aborted   == activeRun \in abortedRuns
Unsent    == {b \in Batches : \A i \in DOMAIN sent : sent[i][2] # b}

Init ==
    /\ messages = <<>> /\ isStreaming = FALSE /\ streamingMessage = NoMessage
    /\ pendingToolCalls = {} /\ errorMessage = FALSE
    /\ steeringQueue = <<>> /\ followUpQueue = <<>>
    /\ mode = [steering |-> "one-at-a-time", followUp |-> "one-at-a-time"]
    /\ runs = 0 /\ activeRun = 0 /\ abortedRuns = {}
    /\ pc = "idle" /\ wait = "none" /\ ended = {} /\ late = {}
    /\ context = <<>> /\ newMessages = <<>> /\ prompts = <<>>
    /\ pendingMessages = <<>> /\ polled = <<>> /\ firstTurn = TRUE
    /\ skipInitialSteeringPoll = FALSE /\ hasMoreToolCalls = FALSE
    /\ addedPartial = FALSE /\ reply = NoMessage
    /\ turn = 0 /\ batchMode = "parallel" /\ idx = 1 /\ toolResults = <<>>
    /\ tools = [c \in CallIds |-> NoTask]
    /\ sent = <<>> /\ gone = {} /\ failed = {} /\ base = 0
    /\ resets = 0 /\ disturbed = FALSE /\ superseded = "none"

-----------------------------------------------------------------------------
(* Suspension: emit an event and await its listeners, await an operation,  *)
(* or go on to the next segment.                                           *)

Emit(type, next) ==
    /\ wait' = type /\ pc' = next
    /\ ended' = IF type = "agent_end" THEN ended \cup {activeRun} ELSE ended
    /\ late'  = IF activeRun \in ended THEN late \cup {activeRun} ELSE late

Await(operation, next) == wait' = operation /\ pc' = next /\ UNCHANGED <<ended, late>>

Goto(next) == Await("none", next)

At(label) == pc = label /\ wait = "none"

\* processEvents on message_start / message_update: the message is shown as streaming.
EmitShown(type, m, next) ==
    /\ Emit(type, next)
    /\ streamingMessage' = m
    /\ UNCHANGED <<messages, isStreaming, pendingToolCalls, errorMessage>>

\* processEvents on message_end: the message joins the transcript.
EmitMessageEnd(m, next) ==
    /\ Emit("message_end", next)
    /\ streamingMessage' = NoMessage
    /\ messages' = Append(messages, m)
    /\ UNCHANGED <<isStreaming, pendingToolCalls, errorMessage>>

\* processEvents on agent_end.
EmitAgentEnd(next) ==
    /\ Emit("agent_end", next)
    /\ streamingMessage' = NoMessage
    /\ UNCHANGED <<messages, isStreaming, pendingToolCalls, errorMessage>>

\* processEvents on turn_end: an errored response sets errorMessage.
EmitTurnEnd(next) ==
    /\ Emit("turn_end", next)
    /\ errorMessage' = (errorMessage \/ reply.stopReason \in {"error", "aborted"})
    /\ UNCHANGED <<messages, isStreaming, streamingMessage, pendingToolCalls>>

ListenersSettle ==
    /\ wait \in EventTypes
    /\ Goto(pc)
    /\ UNCHANGED <<agentState, queues, runVars, locals, batchVars, history>>

\* Mutant: a throwing listener skips handleRunFailure and goes to finishRun.
ListenersThrowPastFailure ==
    /\ wait \in EventTypes \cap ThrowOn
    /\ pc \notin {"failEnd", "failAgentEnd", "failFinish"}
    /\ Goto("failFinish")
    /\ UNCHANGED <<agentState, queues, runVars, locals, batchVars, history>>

\* A rejected listener rejects emit and with it the run (but for ListenersAbort);
\* handleRunFailure swallows what its own three emits throw.
ListenersThrow ==
    /\ wait \in EventTypes \cap ThrowOn
    /\ pc \notin {"failEnd", "failAgentEnd", "failFinish"}
    /\ Goto("fail")
    /\ UNCHANGED <<agentState, queues, runVars, locals, batchVars, history>>

-----------------------------------------------------------------------------
(* Agent: runs and queues *)

\* runWithLifecycle up to the first await of runAgentLoop / runAgentLoopContinue.
StartRun(ms, skip) ==
    /\ activeRun = 0 /\ runs < MaxRuns
    /\ runs' = runs + 1 /\ activeRun' = runs + 1
    /\ isStreaming' = TRUE /\ streamingMessage' = NoMessage /\ errorMessage' = FALSE
    /\ context' = messages \o ms /\ newMessages' = ms /\ prompts' = ms
    /\ pendingMessages' = <<>> /\ polled' = <<>>
    /\ firstTurn' = TRUE /\ skipInitialSteeringPoll' = skip
    /\ hasMoreToolCalls' = TRUE /\ addedPartial' = FALSE
    /\ base' = Len(messages) /\ disturbed' = FALSE /\ superseded' = "none"
    /\ Await("agent_start", "begin")
    /\ UNCHANGED <<messages, pendingToolCalls, abortedRuns, mode, reply, batchVars,
                   gone, failed, resets>>

Prompt(b) ==
    /\ b \in Unsent
    /\ StartRun(AsMessages(b), FALSE)
    /\ sent' = Append(sent, <<"prompt", b>>)
    /\ UNCHANGED <<steeringQueue, followUpQueue>>

\* Mutants of drain in one-at-a-time mode: the queue is cleared; nothing leaves it.
RestDropsAll(q, m)  == <<>>
RestKeepsHead(q, m) == IF q = <<>> \/ m = "all" THEN <<>> ELSE q

\* PendingMessageQueue.drain
Drained(q, m) == IF q = <<>> THEN <<>> ELSE IF m = "all" THEN FlattenSeq(q) ELSE Head(q)
Rest(q, m)    == IF q = <<>> \/ m = "all" THEN <<>> ELSE Tail(q)

LastRole == IF messages = <<>> THEN "none" ELSE Last(messages).role

\* continue(): queued work first when the transcript cannot be continued as it is.
Continue ==
    /\ UNCHANGED sent
    /\ \/ /\ LastRole \in {"none", "assistant", "custom"}
          /\ steeringQueue # <<>>
          /\ StartRun(AsMessages(Drained(steeringQueue, mode.steering)), TRUE)
          /\ steeringQueue' = Rest(steeringQueue, mode.steering)
          /\ UNCHANGED followUpQueue
       \/ /\ LastRole \in {"none", "assistant", "custom"}
          /\ steeringQueue = <<>> /\ followUpQueue # <<>>
          /\ StartRun(AsMessages(Drained(followUpQueue, mode.followUp)), FALSE)
          /\ followUpQueue' = Rest(followUpQueue, mode.followUp)
          /\ UNCHANGED steeringQueue
       \/ /\ \/ LastRole \in {"user", "toolResult"}
             \/ LastRole = "custom" /\ steeringQueue = <<>> /\ followUpQueue = <<>>
          /\ StartRun(<<>>, FALSE)
          /\ UNCHANGED <<steeringQueue, followUpQueue>>

Host == UNCHANGED <<runs, activeRun, control, locals, batchVars, failed, base, superseded>>

\* Mutant: steer() puts the batch first.
SteerToFront(b) ==
    /\ b \in Unsent
    /\ steeringQueue' = <<b>> \o steeringQueue
    /\ sent' = Append(sent, <<"steer", b>>)
    /\ Host /\ UNCHANGED <<agentState, followUpQueue, mode, abortedRuns, gone, resets, disturbed>>

Steer(b) ==
    /\ b \in Unsent
    /\ steeringQueue' = Append(steeringQueue, b)
    /\ sent' = Append(sent, <<"steer", b>>)
    /\ Host /\ UNCHANGED <<agentState, followUpQueue, mode, abortedRuns, gone, resets, disturbed>>

FollowUp(b) ==
    /\ b \in Unsent
    /\ followUpQueue' = Append(followUpQueue, b)
    /\ sent' = Append(sent, <<"followUp", b>>)
    /\ Host /\ UNCHANGED <<agentState, steeringQueue, mode, abortedRuns, gone, resets, disturbed>>

InQueue(q) == UNION {ToSet(q[i]) : i \in DOMAIN q}

\* clearSteeringQueue, clearFollowUpQueue, clearAllQueues
ClearQueues ==
    /\ \/ steeringQueue' = <<>> /\ followUpQueue' = <<>>
       \/ steeringQueue' = <<>> /\ UNCHANGED followUpQueue
       \/ followUpQueue' = <<>> /\ UNCHANGED steeringQueue
    /\ gone' = gone \cup ((InQueue(steeringQueue) \cup InQueue(followUpQueue))
                          \ (InQueue(steeringQueue') \cup InQueue(followUpQueue')))
    /\ Host /\ UNCHANGED <<agentState, mode, abortedRuns, sent, resets, disturbed>>

\* PendingMessageQueue.removeWhere: a batch goes as a whole when one of its messages matches.
Without(q, m) == FlattenSeq([i \in DOMAIN q |-> IF m \in ToSet(q[i]) THEN <<>> ELSE <<q[i]>>])

RemoveQueuedMessages(m) ==
    /\ m \in InQueue(steeringQueue) \cup InQueue(followUpQueue)
    /\ steeringQueue' = Without(steeringQueue, m)
    /\ followUpQueue' = Without(followUpQueue, m)
    /\ gone' = gone \cup UNION {ToSet(b) : b \in {c \in Batches : m \in ToSet(c)}}
    /\ Host /\ UNCHANGED <<agentState, mode, abortedRuns, sent, resets, disturbed>>

SetMode(q, m) ==
    /\ mode' = [mode EXCEPT ![q] = m]
    /\ Host /\ UNCHANGED <<agentState, steeringQueue, followUpQueue, abortedRuns, sent, gone,
                           resets, disturbed>>

Abort ==
    /\ activeRun # 0
    /\ abortedRuns' = abortedRuns \cup {activeRun}
    /\ Host /\ UNCHANGED <<agentState, queues, sent, gone, resets, disturbed>>

Reset ==
    /\ resets < MaxResets /\ resets' = resets + 1
    /\ messages' = <<>> /\ isStreaming' = FALSE /\ streamingMessage' = NoMessage
    /\ pendingToolCalls' = {} /\ errorMessage' = FALSE
    /\ steeringQueue' = <<>> /\ followUpQueue' = <<>>
    /\ disturbed' = (disturbed \/ activeRun # 0)
    /\ gone' = gone \cup InQueue(steeringQueue) \cup InQueue(followUpQueue)
                    \cup {messages[i].id : i \in {j \in DOMAIN messages :
                                             messages[j].role \in {"user", "custom"}}}
    /\ Host /\ UNCHANGED <<mode, abortedRuns, sent>>

\* Mutant: finishRun leaves pendingToolCalls as they are.
FinishRunKeepsPending ==
    /\ At("finish") \/ At("failFinish")
    /\ isStreaming' = FALSE /\ streamingMessage' = NoMessage
    /\ activeRun' = 0
    /\ Goto("idle")
    /\ UNCHANGED <<messages, pendingToolCalls, errorMessage, queues, runs, abortedRuns, locals,
                   batchVars, history>>

FinishRun ==
    /\ At("finish") \/ At("failFinish")
    /\ isStreaming' = FALSE /\ streamingMessage' = NoMessage /\ pendingToolCalls' = {}
    /\ activeRun' = 0
    /\ Goto("idle")
    /\ UNCHANGED <<messages, errorMessage, queues, runs, abortedRuns, locals, batchVars, history>>

-----------------------------------------------------------------------------
(* handleRunFailure: an assistant message for the failure, then agent_end *)

Fail ==
    /\ At("fail")
    /\ reply' = Assistant(0, 0, IF Aborted THEN "aborted" ELSE "error")
    /\ errorMessage' = TRUE
    /\ streamingMessage' = reply'
    /\ Emit("message_start", "failEnd")
    /\ prompts' = <<>> /\ pendingMessages' = <<>> /\ polled' = <<>>
    /\ failed' = failed \cup {activeRun}
    /\ UNCHANGED <<messages, isStreaming, pendingToolCalls, queues, runVars, context, newMessages,
                   firstTurn, skipInitialSteeringPoll, hasMoreToolCalls, addedPartial,
                   batchVars, sent, gone, base, resets, disturbed, superseded>>

FailEnd ==
    /\ \/ At("failEnd") /\ EmitMessageEnd(reply, "failAgentEnd")
       \/ At("failAgentEnd") /\ EmitAgentEnd("failFinish")
    /\ UNCHANGED <<queues, runVars, locals, batchVars, history>>

-----------------------------------------------------------------------------
(* runAgentLoop and runLoop: prompts, injected messages, polls *)

Begin ==
    /\ At("begin")
    /\ Emit("turn_start", "prompts")
    /\ UNCHANGED <<agentState, queues, runVars, locals, batchVars, history>>

EmitPrompts ==
    /\ \/ /\ At("prompts") /\ prompts # <<>>
          /\ EmitShown("message_start", Head(prompts), "promptEnd")
          /\ UNCHANGED prompts
       \/ /\ At("promptEnd")
          /\ EmitMessageEnd(Head(prompts), "prompts")
          /\ prompts' = Tail(prompts)
    /\ UNCHANGED <<queues, runVars, context, newMessages, pendingMessages, polled, firstTurn,
                   skipInitialSteeringPoll, hasMoreToolCalls, addedPartial, reply,
                   batchVars, history>>

Polling == UNCHANGED <<agentState, mode, runVars, context, newMessages, prompts, pendingMessages,
                       firstTurn, hasMoreToolCalls, addedPartial, reply, batchVars, history>>

\* pollMessagesUnlessAborted(getSteeringMessages): the queue is drained when the
\* poll is made, the loop resumes when its promise wins the race with the signal.
PollSteering ==
    \E next \in {"start", "polledSteering"} :
        /\ IF next = "start" THEN At("prompts") /\ prompts = <<>> ELSE At("pollSteering")
        /\ \/ /\ Aborted
              /\ polled' = <<>> /\ Goto(next)
              /\ UNCHANGED <<steeringQueue, skipInitialSteeringPoll>>
           \/ /\ ~Aborted /\ skipInitialSteeringPoll
              /\ polled' = <<>> /\ skipInitialSteeringPoll' = FALSE /\ Await("poll", next)
              /\ UNCHANGED steeringQueue
           \/ /\ ~Aborted /\ ~skipInitialSteeringPoll
              /\ polled' = AsMessages(Drained(steeringQueue, mode.steering))
              /\ steeringQueue' = Rest(steeringQueue, mode.steering)
              /\ Await("poll", next)
              /\ UNCHANGED skipInitialSteeringPoll
        /\ Polling /\ UNCHANGED followUpQueue

\* pollMessagesUnlessAborted(getFollowUpMessages)
PollFollowUp ==
    /\ At("pollFollowUp")
    /\ \/ /\ Aborted
          /\ polled' = <<>> /\ Goto("polledFollowUp")
          /\ UNCHANGED followUpQueue
       \/ /\ ~Aborted
          /\ polled' = AsMessages(Drained(followUpQueue, mode.followUp))
          /\ followUpQueue' = Rest(followUpQueue, mode.followUp)
          /\ Await("poll", "polledFollowUp")
    /\ Polling /\ UNCHANGED <<steeringQueue, skipInitialSteeringPoll>>

\* raceWithAbort around a poll, shouldStopAfterTurn or getContinuationMessages:
\* the signal wins as long as the operation has not settled.  The first poll
\* rejects the run, the ones after a turn end it (settlePostTurn).
RaceAborted ==
    /\ wait \in {"poll", "shouldStopAfterTurn", "getContinuationMessages"}
    /\ Aborted
    /\ Goto(IF pc = "start" THEN "fail" ELSE "end")
    /\ polled' = <<>>
    /\ Polling /\ UNCHANGED <<steeringQueue, followUpQueue, skipInitialSteeringPoll>>

PollSettles ==
    /\ wait = "poll" /\ ~Aborted
    /\ Goto(pc)
    /\ UNCHANGED <<agentState, queues, runVars, locals, batchVars, history>>

\* The head of the two while loops: throwIfAborted, then turn_start unless it is
\* the first turn.  hold are the messages to inject.
StartTurn(hold) ==
    /\ \/ Aborted /\ Goto("fail") /\ UNCHANGED firstTurn
       \/ ~Aborted /\ firstTurn /\ firstTurn' = FALSE /\ Goto("inject")
       \/ ~Aborted /\ ~firstTurn /\ Emit("turn_start", "inject") /\ UNCHANGED firstTurn
    /\ pendingMessages' = hold /\ polled' = <<>>
    /\ UNCHANGED <<context, newMessages, prompts, skipInitialSteeringPoll, hasMoreToolCalls,
                   addedPartial, reply>>

FirstTurn ==
    /\ At("start")
    /\ StartTurn(polled)
    /\ UNCHANGED <<agentState, queues, runVars, batchVars, history>>

\* Pending messages enter the transcript one by one, then the context.
Inject ==
    /\ \/ /\ At("inject") /\ pendingMessages # <<>>
          /\ EmitShown("message_start", Head(pendingMessages), "injectEnd")
          /\ UNCHANGED <<context, newMessages, pendingMessages>>
       \/ /\ At("injectEnd")
          /\ EmitMessageEnd(Head(pendingMessages), "injected")
          /\ UNCHANGED <<context, newMessages, pendingMessages>>
       \/ /\ At("injected")
          /\ context' = Append(context, Head(pendingMessages))
          /\ newMessages' = Append(newMessages, Head(pendingMessages))
          /\ pendingMessages' = Tail(pendingMessages)
          /\ Goto("inject")
          /\ UNCHANGED agentState
    /\ UNCHANGED <<queues, runVars, prompts, polled, firstTurn, skipInitialSteeringPoll,
                   hasMoreToolCalls, addedPartial, reply, batchVars, history>>

-----------------------------------------------------------------------------
(* streamAssistantResponse *)

Asking == UNCHANGED <<queues, runVars, newMessages, prompts, pendingMessages, polled, firstTurn,
                      skipInitialSteeringPoll, hasMoreToolCalls, batchMode, idx,
                      toolResults, tools>>
Streaming == Asking /\ UNCHANGED history

WithReply(m) == IF addedPartial THEN ReplaceAt(context, Len(context), m) ELSE Append(context, m)

\* The response m is complete: it takes the place of the partial message and ends.
Respond(m) ==
    /\ context' = WithReply(m) /\ reply' = m /\ UNCHANGED addedPartial
    /\ IF addedPartial THEN EmitMessageEnd(m, "turn")
                       ELSE EmitShown("message_start", m, "replyEnd")

Request ==
    /\ At("inject") /\ pendingMessages = <<>>
    /\ \/ Aborted /\ Respond(Assistant(0, 0, "aborted"))
       \/ ~Aborted /\ Await("provider", "stream") /\ addedPartial' = FALSE
          /\ UNCHANGED <<agentState, context, reply>>
    /\ Streaming /\ UNCHANGED turn

Partial == Assistant(turn + 1, 0, "partial")

ProviderStarts ==
    /\ wait = "provider" /\ ~Aborted /\ ~addedPartial
    /\ context' = Append(context, Partial) /\ addedPartial' = TRUE
    /\ EmitShown("message_start", Partial, "next")
    /\ Streaming /\ UNCHANGED <<turn, reply>>

ProviderUpdates ==
    /\ wait = "provider" /\ ~Aborted /\ addedPartial
    /\ EmitShown("message_update", Partial, "next")
    /\ Streaming /\ UNCHANGED <<turn, context, addedPartial, reply>>

NextEvent ==
    /\ At("next")
    /\ Await("provider", "stream")
    /\ UNCHANGED <<agentState, queues, runVars, locals, batchVars, history>>

ProviderDone(c, stop) ==
    /\ wait = "provider" /\ ~Aborted /\ turn < MaxTurns
    /\ turn' = turn + 1
    /\ Respond(Assistant(turn + 1, c, stop))
    /\ Streaming

ProviderThrows ==
    /\ wait = "provider" /\ ~Aborted /\ "provider" \in ThrowOn
    /\ Goto("fail")
    /\ UNCHANGED <<agentState, queues, runVars, locals, batchVars, history>>

ProviderAborted ==
    /\ wait = "provider" /\ Aborted
    /\ Respond(Assistant(0, 0, "aborted"))
    /\ Streaming /\ UNCHANGED turn

\* A listener of the response's own events rejects with an AbortError and the run
\* is aborted: as in ProviderAborted an aborted message follows, which takes the
\* place of a response that is already complete.
ListenersAbort ==
    /\ wait \in {"message_start", "message_update", "message_end"} \cap ThrowOn /\ Aborted
    /\ pc = "next" \/ (pc \in {"replyEnd", "turn"} /\ reply.stopReason # "aborted")
    /\ Respond(Assistant(0, 0, "aborted"))
    /\ superseded' = CASE pc = "next"     -> superseded
                       [] pc = "replyEnd" -> "untold"
                       [] pc = "turn"     -> "told"
    /\ Asking /\ UNCHANGED <<turn, sent, gone, failed, base, resets, disturbed>>

ReplyEnd ==
    /\ At("replyEnd")
    /\ EmitMessageEnd(reply, "turn")
    /\ UNCHANGED <<queues, runVars, locals, batchVars, history>>

-----------------------------------------------------------------------------
(* The rest of a turn, and executeToolCalls *)

\* Mutant: a response without tool calls is not pushed to newMessages.
TurnForgetsResponse ==
    /\ At("turn")
    /\ reply.stopReason = "stop" /\ reply.calls = 0
    /\ hasMoreToolCalls' = FALSE /\ addedPartial' = FALSE
    /\ EmitTurnEnd("afterTurn")
    /\ UNCHANGED <<queues, runVars, context, newMessages, prompts, pendingMessages, polled,
                   firstTurn, skipInitialSteeringPoll, reply, batchVars, history>>

\* The response has joined the transcript: the turn ends here, or its tool calls run.
Turn ==
    /\ At("turn")
    /\ newMessages' = Append(newMessages, reply) /\ addedPartial' = FALSE
    /\ \/ /\ reply.stopReason \in {"error", "aborted"}
          /\ EmitTurnEnd("end")
          /\ UNCHANGED <<hasMoreToolCalls, batchMode, idx, toolResults>>
       \/ /\ reply.stopReason = "stop" /\ reply.calls = 0
          /\ hasMoreToolCalls' = FALSE
          /\ EmitTurnEnd("afterTurn")
          /\ UNCHANGED <<batchMode, idx, toolResults>>
       \/ /\ reply.stopReason = "stop" /\ reply.calls > 0
          /\ batchMode' \in BatchModes
          /\ idx' = 1 /\ toolResults' = <<>>
          /\ Goto("announce")
          /\ UNCHANGED <<agentState, hasMoreToolCalls>>
    /\ UNCHANGED <<queues, runVars, context, prompts, pendingMessages, polled, firstTurn,
                   skipInitialSteeringPoll, reply, turn, tools, history>>

Batch == UNCHANGED <<queues, runVars, locals, turn, batchMode, history>>

\* Mutant: the loop over the calls runs once too often.
AnnounceOneTooMany ==
    /\ At("announce") /\ idx <= reply.calls + 1
    /\ Emit("tool_execution_start", "prepare")
    /\ pendingToolCalls' = pendingToolCalls \cup {Call}
    /\ UNCHANGED <<messages, isStreaming, streamingMessage, errorMessage, tools, idx, toolResults>>
    /\ Batch

\* tool_execution_start for the next call; an aborted sequential batch stops here.
Announce ==
    /\ At("announce") /\ idx <= reply.calls
    /\ \/ /\ batchMode = "sequential" /\ Aborted
          /\ Goto("batchDone")
          /\ UNCHANGED <<agentState, tools>>
       \/ /\ batchMode = "parallel" \/ ~Aborted
          /\ Emit("tool_execution_start", "prepare")
          /\ pendingToolCalls' = pendingToolCalls \cup {Call}
          /\ tools' = [tools EXCEPT ![Call] = [NoTask EXCEPT !.status = "announced",
                                                             !.run = activeRun]]
          /\ UNCHANGED <<messages, isStreaming, streamingMessage, errorMessage>>
    /\ Batch /\ UNCHANGED <<idx, toolResults>>

\* prepareToolCall allows the call, or answers it at once with an error result
\* (unknown tool, invalid arguments, blocked or failed beforeToolCall).
Allow ==
    /\ tools' = [tools EXCEPT ![Call].status = "prepared"]
    /\ Goto("prepared")
    /\ UNCHANGED agentState

AnswerAtOnce ==
    /\ tools' = [tools EXCEPT ![Call].status = "done"]
    /\ Emit("tool_execution_end", "prepared")
    /\ pendingToolCalls' = pendingToolCalls \ {Call}
    /\ UNCHANGED <<messages, isStreaming, streamingMessage, errorMessage>>

PrepareToolCall ==
    /\ At("prepare")
    /\ \/ Allow
       \/ AnswerAtOnce
       \/ Await("beforeToolCall", "prepare") /\ UNCHANGED <<agentState, tools>>
    /\ Batch /\ UNCHANGED <<idx, toolResults>>

BeforeToolCallSettles ==
    /\ wait = "beforeToolCall" /\ ~Aborted
    /\ Allow \/ AnswerAtOnce
    /\ Batch /\ UNCHANGED <<idx, toolResults>>

\* Mutant: beforeToolCall is awaited without the abort race.
BeforeToolCallNotRaced == FALSE

BeforeToolCallAborted ==
    /\ wait = "beforeToolCall" /\ Aborted
    /\ AnswerAtOnce
    /\ Batch /\ UNCHANGED <<idx, toolResults>>

\* Mutant: executePreparedToolCall does not look at the signal first.
LaunchThoughAborted(S) ==
    tools' = [c \in CallIds |->
                IF c \in S /\ tools[c].status = "prepared"
                THEN [tools[c] EXCEPT !.status = "executing"]
                ELSE tools[c]]

\* executePreparedToolCall begins: an aborted run answers without running the tool.
Launch(S) ==
    tools' = [c \in CallIds |->
                IF c \in S /\ tools[c].status = "prepared"
                THEN [tools[c] EXCEPT !.status = IF Aborted THEN "refused" ELSE "executing"]
                ELSE tools[c]]

\* Sequential: run the call that was just prepared.  Parallel: prepare the next.
Prepared ==
    /\ At("prepared")
    /\ \/ /\ batchMode = "sequential"
          /\ Launch({Call}) /\ Await("tools", "result")
          /\ UNCHANGED idx
       \/ /\ batchMode = "parallel"
          /\ idx' = idx + 1 /\ Goto("announce")
          /\ UNCHANGED tools
    /\ Batch /\ UNCHANGED <<agentState, toolResults>>

\* Every call is prepared: a parallel batch starts all of them, Promise.all.
LaunchAll ==
    /\ At("announce") /\ idx > reply.calls
    /\ \/ /\ batchMode = "parallel"
          /\ Launch(Calls) /\ idx' = 1 /\ Await("tools", "result")
       \/ /\ batchMode = "sequential"
          /\ Goto("batchDone")
          /\ UNCHANGED <<tools, idx>>
    /\ Batch /\ UNCHANGED <<agentState, toolResults>>

\* A tool task of any run ends with a result and emits tool_execution_end.  The
\* reducer runs even when no run is active; then processEvents throws.
EndTask(c, terminate) ==
    /\ pendingToolCalls' = pendingToolCalls \ {c}
    /\ tools' = [tools EXCEPT ![c].status = IF activeRun = 0 THEN "broken" ELSE "ending",
                              ![c].terminate = terminate]
    /\ late' = IF activeRun # 0 /\ tools[c].run \in ended
               THEN late \cup {tools[c].run} ELSE late
    /\ UNCHANGED <<messages, isStreaming, streamingMessage, errorMessage, pc, wait, ended,
                   idx, toolResults>>
    /\ Batch

\* The tool returns or throws, and afterToolCall may override the result.
ToolEnds(c) ==
    /\ tools[c].status = "executing" /\ tools[c].run \notin abortedRuns
    /\ \E terminate \in BOOLEAN : EndTask(c, terminate)

\* The signal ends the wait for the tool, which may ignore it.
ToolAborted(c) ==
    /\ \/ tools[c].status = "executing" /\ tools[c].run \in abortedRuns
       \/ tools[c].status = "refused"
    /\ EndTask(c, FALSE)

ToolEndSettles(c) ==
    /\ tools[c].status = "ending"
    /\ tools' = [tools EXCEPT ![c].status = "done"]
    /\ Batch /\ UNCHANGED <<agentState, control, idx, toolResults>>

ToolEndThrows(c) ==
    /\ tools[c].status = "ending" /\ "tool_execution_end" \in ThrowOn
    /\ tools' = [tools EXCEPT ![c].status = "broken"]
    /\ Batch /\ UNCHANGED <<agentState, control, idx, toolResults>>

Awaited == IF batchMode = "sequential" THEN {Call} ELSE Calls

\* Mutant: the batch goes on when the first of its tools is done.
ToolsSettleAtFirst ==
    /\ wait = "tools"
    /\ \E c \in Awaited : tools[c].status = "done"
    /\ Goto("result")
    /\ Batch /\ UNCHANGED <<agentState, idx, toolResults, tools>>

ToolsSettle ==
    /\ wait = "tools"
    /\ \/ (\A c \in Awaited : tools[c].status = "done") /\ Goto("result")
       \/ (\E c \in Awaited : tools[c].status = "broken") /\ Goto("fail")
    /\ Batch /\ UNCHANGED <<agentState, idx, toolResults, tools>>

\* Mutant: a sequential batch stops after its first result.
EmitOnlyFirstResult ==
    /\ \/ /\ At("result") /\ idx <= reply.calls
          /\ EmitShown("message_start", ToolResult(Call), "resultEnd")
          /\ UNCHANGED <<idx, toolResults>>
       \/ /\ At("resultEnd")
          /\ EmitMessageEnd(ToolResult(Call), "resulted")
          /\ UNCHANGED <<idx, toolResults>>
       \/ /\ At("resulted")
          /\ toolResults' = Append(toolResults, ToolResult(Call))
          /\ idx' = idx + 1
          /\ Goto("batchDone")
          /\ UNCHANGED agentState
    /\ Batch /\ UNCHANGED tools

\* createToolResultMessage and its two events, in the order of the calls.
EmitResult ==
    /\ \/ /\ At("result") /\ idx <= reply.calls
          /\ EmitShown("message_start", ToolResult(Call), "resultEnd")
          /\ UNCHANGED <<idx, toolResults>>
       \/ /\ At("resultEnd")
          /\ EmitMessageEnd(ToolResult(Call), "resulted")
          /\ UNCHANGED <<idx, toolResults>>
       \/ /\ At("resulted")
          /\ toolResults' = Append(toolResults, ToolResult(Call))
          /\ idx' = idx + 1
          /\ Goto(IF batchMode = "parallel" THEN "result"
                  ELSE IF Aborted THEN "batchDone" ELSE "announce")
          /\ UNCHANGED agentState
    /\ Batch /\ UNCHANGED tools

\* shouldTerminateToolBatch
Terminates == toolResults # <<>> /\ \A i \in DOMAIN toolResults : tools[toolResults[i].id].terminate

\* Mutant: the results are not pushed to the context of the next request.
BatchDoneKeepsContext ==
    /\ \/ At("batchDone")
       \/ At("result") /\ idx > reply.calls
    /\ newMessages' = newMessages \o toolResults
    /\ hasMoreToolCalls' = ~Terminates
    /\ EmitTurnEnd("afterTurn")
    /\ UNCHANGED <<queues, runVars, context, prompts, pendingMessages, polled, firstTurn,
                   skipInitialSteeringPoll, addedPartial, reply, batchVars, history>>

BatchDone ==
    /\ \/ At("batchDone")
       \/ At("result") /\ idx > reply.calls
    /\ context' = context \o toolResults
    /\ newMessages' = newMessages \o toolResults
    /\ hasMoreToolCalls' = ~Terminates
    /\ EmitTurnEnd("afterTurn")
    /\ UNCHANGED <<queues, runVars, prompts, pendingMessages, polled, firstTurn,
                   skipInitialSteeringPoll, addedPartial, reply, batchVars, history>>

-----------------------------------------------------------------------------
(* After a turn: stop, steering, follow-ups, continuation *)

AfterTurn ==
    /\ At("afterTurn")
    /\ \/ Aborted /\ Goto("end")
       \/ ~Aborted /\ Await("shouldStopAfterTurn", "stopped")
    /\ UNCHANGED <<agentState, queues, runVars, locals, batchVars, history>>

\* shouldStopAfterTurn, then shouldStopBeforeTurn
StopHookSettles ==
    /\ wait = "shouldStopAfterTurn" /\ ~Aborted
    /\ \/ Goto("end")
       \/ Goto("pollSteering")
       \/ "hook" \in ThrowOn /\ Goto("fail")
    /\ UNCHANGED <<agentState, queues, runVars, locals, batchVars, history>>

\* shouldStopBeforeTurn may end the run only when the poll came back empty.
PolledSteering ==
    /\ At("polledSteering")
    /\ \/ polled = <<>> /\ Goto("end") /\ UNCHANGED locals
       \/ (polled # <<>> \/ hasMoreToolCalls) /\ StartTurn(polled)
       \/ polled = <<>> /\ ~hasMoreToolCalls /\ Goto("pollFollowUp") /\ UNCHANGED locals
    /\ UNCHANGED <<agentState, queues, runVars, batchVars, history>>

PolledFollowUp ==
    /\ At("polledFollowUp")
    /\ \/ polled # <<>> /\ StartTurn(polled)
       \/ polled = <<>> /\ Goto("end") /\ UNCHANGED locals
       \/ polled = <<>> /\ Await("getContinuationMessages", "continued") /\ UNCHANGED locals
    /\ UNCHANGED <<agentState, queues, runVars, batchVars, history>>

ContinuationSettles ==
    /\ wait = "getContinuationMessages" /\ ~Aborted
    /\ \/ Goto("continued") /\ UNCHANGED <<polled, sent>>
       \/ /\ \E b \in Unsent : polled' = AsMessages(b) /\ sent' = Append(sent, <<"continuation", b>>)
          /\ Goto("continued")
       \/ "hook" \in ThrowOn /\ Goto("fail") /\ UNCHANGED <<polled, sent>>
    /\ UNCHANGED <<agentState, queues, runVars, context, newMessages, prompts, pendingMessages,
                   firstTurn, skipInitialSteeringPoll, hasMoreToolCalls, addedPartial, reply,
                   batchVars, gone, failed, base, resets, disturbed, superseded>>

Continued ==
    /\ At("continued")
    /\ \/ polled # <<>> /\ StartTurn(polled)
       \/ polled = <<>> /\ Goto("end") /\ UNCHANGED locals
    /\ UNCHANGED <<agentState, queues, runVars, batchVars, history>>

End ==
    /\ At("end")
    /\ EmitAgentEnd("finish")
    /\ UNCHANGED <<queues, runVars, locals, batchVars, history>>

-----------------------------------------------------------------------------
HostCall ==
    \/ Abort \/ Reset
    \/ \E b \in Batches : Prompt(b)
    \/ "continue" \in HostOps /\ Continue
    \/ "steer" \in HostOps /\ \E b \in Batches : Steer(b)
    \/ "followUp" \in HostOps /\ \E b \in Batches : FollowUp(b)
    \/ "clear" \in HostOps /\ ClearQueues
    \/ "remove" \in HostOps /\ \E b \in Batches : \E m \in ToSet(b) : RemoveQueuedMessages(m)
    \/ \E q \in {"steering", "followUp"}, m \in QueueModes : SetMode(q, m)

\* Steps the program takes by itself: segments, listeners that return, and
\* waits that the abort signal ends.
LoopStep ==
    \/ ListenersSettle \/ FinishRun \/ Fail \/ FailEnd \/ Begin \/ EmitPrompts
    \/ PollSteering \/ PollFollowUp \/ RaceAborted \/ PollSettles \/ FirstTurn \/ Inject
    \/ Request \/ NextEvent \/ ProviderAborted \/ ReplyEnd \/ Turn \/ Announce
    \/ PrepareToolCall \/ BeforeToolCallAborted \/ Prepared \/ LaunchAll \/ ToolsSettle
    \/ EmitResult \/ BatchDone \/ AfterTurn \/ PolledSteering \/ PolledFollowUp
    \/ Continued \/ End

TaskStep(c) == ToolAborted(c) \/ ToolEndSettles(c)

\* Steps that wait for the model, a tool or a host callback, or that a fault makes.
External ==
    \/ ListenersThrow \/ ListenersAbort \/ ProviderStarts \/ ProviderUpdates \/ ProviderThrows
    \/ \E c \in 0..MaxCalls : ProviderDone(c, "stop")
    \/ ProviderDone(0, "error")
    \/ BeforeToolCallSettles \/ StopHookSettles \/ ContinuationSettles
    \/ \E c \in CallIds : ToolEnds(c) \/ ToolEndThrows(c)

Next == HostCall \/ LoopStep \/ External \/ \E c \in CallIds : TaskStep(c)

\* Segments run and awaited listeners return; nothing is assumed of the model,
\* of tools, of host callbacks or of the host.
Fairness == WF_vars(LoopStep) /\ \A c \in CallIds : WF_vars(TaskStep(c))

Spec == Init /\ [][Next]_vars /\ Fairness

-----------------------------------------------------------------------------
(* Properties *)

Labels == {"idle", "begin", "prompts", "promptEnd", "start", "inject", "injectEnd", "injected",
           "stream", "next", "replyEnd", "turn", "announce", "prepare", "prepared", "result",
           "resultEnd", "resulted", "batchDone", "afterTurn", "stopped", "pollSteering",
           "polledSteering", "pollFollowUp", "polledFollowUp", "continued", "end", "finish",
           "fail", "failEnd", "failAgentEnd", "failFinish"}
Operations == {"none", "poll", "provider", "beforeToolCall", "tools", "shouldStopAfterTurn",
               "getContinuationMessages"}
Statuses == {"none", "announced", "prepared", "executing", "refused", "ending", "done", "broken"}
Tasks == [status : Statuses, run : 0..MaxRuns, terminate : BOOLEAN]

FlagsOK ==
    /\ isStreaming \in BOOLEAN /\ errorMessage \in BOOLEAN /\ disturbed \in BOOLEAN
    /\ firstTurn \in BOOLEAN /\ skipInitialSteeringPoll \in BOOLEAN
    /\ hasMoreToolCalls \in BOOLEAN /\ addedPartial \in BOOLEAN
    /\ superseded \in {"none", "untold", "told"}

ControlOK ==
    /\ pc \in Labels /\ wait \in EventTypes \cup Operations
    /\ mode \in [{"steering", "followUp"} -> {"all", "one-at-a-time"}]

RunsOK ==
    /\ runs \in 0..MaxRuns /\ activeRun \in 0..runs /\ resets \in 0..MaxResets
    /\ abortedRuns \subseteq 1..runs
    /\ ended \subseteq 1..runs /\ late \subseteq 1..runs /\ failed \subseteq 1..runs

BatchOK ==
    /\ turn \in 0..MaxTurns /\ idx \in 1..(MaxCalls + 1)
    /\ batchMode \in {"sequential", "parallel"}
    /\ pendingToolCalls \subseteq CallIds
    /\ tools \in [CallIds -> Tasks]

\* The control state of the agent (flags, labels, runs) and of its tool tasks
\* has its type.
TypeOK == FlagsOK /\ ControlOK /\ RunsOK /\ BatchOK

InTranscript == {messages[i].id : i \in {j \in DOMAIN messages :
                                            messages[j].role \in {"user", "custom"}}}
Positions(m) == {i \in DOMAIN messages : messages[i] = HostMessage(m)}

\* While a request to the model is under way, the context it was built from
\* (runLoop's currentContext, pushed to separately) is the transcript that
\* processEvents maintains, plus the partial response.
RequestSeesTranscript ==
    wait = "provider" /\ ~disturbed =>
        context = IF addedPartial THEN Append(messages, Partial) ELSE messages

\* No request goes out while a tool call of this run lacks its result: every
\* response with tool calls is followed at once by their results, in call order,
\* whatever order the tools of a parallel batch finished in.
CallsAnswered ==
    wait = "provider" /\ ~disturbed =>
        \A i \in (base + 1)..Len(messages) :
            messages[i].role = "assistant" =>
                \A k \in 1..messages[i].calls :
                    /\ i + k <= Len(messages)
                    /\ messages[i + k] = ToolResult(<<messages[i].id, k>>)

\* agent_end of a run that did not fail reports the messages the run added to the
\* transcript, in order and all of them, but for one: a response that was complete
\* when a listener aborted it is in the transcript, before the aborted message that
\* took its place in the report.
AgentEndReportsRun ==
    wait = "agent_end" /\ pc = "finish" /\ ~disturbed =>
        LET added == SubSeq(messages, base + 1, Len(messages)) IN
        IF superseded = "told"
        THEN newMessages = RemoveAt(added, Len(added) - 1) /\ Aborted
        ELSE newMessages = added

\* state.pendingToolCalls are the calls of the active run that were announced
\* and have not ended, through listeners, aborts and failures; none when idle.
PendingMatchesTasks ==
    ~disturbed =>
        pendingToolCalls = {c \in CallIds :
            /\ activeRun # 0 /\ tools[c].run = activeRun
            /\ tools[c].status \in {"announced", "prepared", "executing", "refused"}}

\* No message the host hands over enters the transcript twice, and the messages
\* of a batch stay together and in order, whichever queue it went through.
BatchesStayTogether ==
    /\ \A b \in Batches : \A k \in DOMAIN b : Cardinality(Positions(b[k])) <= 1
    /\ \A b \in Batches : \A k \in DOMAIN b \ {1} : \A i \in Positions(b[k]) :
            b[k - 1] \in gone \/ (i - 1) \in Positions(b[k - 1])

\* Batches of one queue enter the transcript in the order they were queued.
QueuesAreFIFO ==
    \A i, j \in DOMAIN sent :
        i < j /\ sent[i][1] = sent[j][1] /\ sent[i][1] \in {"steer", "followUp"} =>
            \A p \in Positions(sent[i][2][1]), q \in Positions(sent[j][2][1]) : p < q

Held == InTranscript \cup gone \cup InQueue(steeringQueue) \cup InQueue(followUpQueue)
        \cup {m.id : m \in ToSet(prompts) \cup ToSet(pendingMessages) \cup ToSet(polled)}
Lost == (UNION {ToSet(sent[i][2]) : i \in DOMAIN sent}) \ Held

\* A message the host handed over is in a queue, on its way, in the transcript
\* or removed by the host, unless a run was aborted or failed.
NothingLostWithoutFailure == Lost # {} => abortedRuns \cup failed # {}

\* agent_end is the last event of a run.
AgentEndIsFinal == late = {}

\* The agent is idle only when every run it started has emitted agent_end, and
\* isStreaming tells whether a run is active.
IdleMeansEnded ==
    /\ activeRun = 0 => ended = 1..runs /\ ~isStreaming /\ streamingMessage = NoMessage
    /\ activeRun # 0 /\ ~disturbed => isStreaming

Starts(c) == tools[c].status # "executing" /\ tools'[c].status = "executing"

\* A tool starts only in a run that is not aborted, after its response has joined
\* the transcript and the call was announced, and in a sequential batch only when
\* the results of all earlier calls are in the transcript.
ToolStartIsJustified ==
    [][\A c \in CallIds : Starts(c) =>
         /\ activeRun \notin abortedRuns
         /\ ~disturbed =>
              /\ c \in pendingToolCalls
              /\ \E i \in DOMAIN messages :
                    messages[i].role = "assistant" /\ messages[i].id = c[1]
              /\ batchMode = "sequential" =>
                    \A k \in 1..(c[2] - 1) : ToolResult(<<c[1], k>>) \in ToSet(messages)]_vars

\* abort() settles the run even when the model, the tools and the host callbacks
\* never answer: every wait for them is raced with the signal.
AbortSettles == Aborted ~> activeRun = 0

=============================================================================
