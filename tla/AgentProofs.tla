---------------------------- MODULE AgentProofs ----------------------------
(***************************************************************************)
(* Proofs about Agent for every value of its constants.                    *)
(***************************************************************************)
EXTENDS AgentInvariants, FiniteSetTheorems, TLAPS

-----------------------------------------------------------------------------
(* What the pieces of an action keep *)

\* Changing the status of a task, and recording whether it asked to terminate,
\* leaves the table of tasks well typed (executePreparedToolCall and finalize).
LEMMA TaskUpdates ==
    ASSUME tools \in [CallIds -> Tasks], NEW c \in CallIds, NEW s \in Statuses,
           NEW t \in BOOLEAN
    PROVE  [tools EXCEPT ![c].status = s, ![c].terminate = t] \in [CallIds -> Tasks]
  BY DEF Tasks

\* The call at hand of a batch is a call.
LEMMA CallInBatch ==
    ASSUME BatchOK, turn \in 1..MaxTurns, idx \in 1..MaxCalls
    PROVE  Call \in CallIds
  BY DEF Call, CallIds

\* Emitting an event (processEvents) in an active run marks only that run.
LEMMA EmitKeepsRuns ==
    ASSUME RunsOK, activeRun # 0, NEW type, NEW next, Emit(type, next)
    PROVE  ended' \subseteq 1..runs /\ late' \subseteq 1..runs
  BY BoundsAssumption DEF RunsOK, Emit

\* Starting a run (runWithLifecycle) keeps the sets of runs well typed.
LEMMA StartRunKeepsRuns ==
    ASSUME RunsOK, NEW ms, NEW skip, StartRun(ms, skip)
    PROVE  RunsOK'
  BY BoundsAssumption DEF RunsOK, StartRun, Await

-----------------------------------------------------------------------------
(* IInv is inductive *)

\* IInv holds of a new Agent.
LEMMA InitIInv == Init => IInv
<1> SUFFICES ASSUME Init PROVE IInv
  OBVIOUS
<1> USE BoundsAssumption DEF Init
<1>1. FlagsOK
  BY DEF FlagsOK
<1>2. ControlOK
  BY DEF ControlOK, Labels, EventTypes, Operations
<1>3. RunsOK
  BY DEF RunsOK
<1>4. BatchOK
  BY DEF BatchOK, NoTask, Tasks, Statuses
<1>5. WaitMatchesLabel
  BY DEF WaitMatchesLabel
<1>6. BatchShape
  BY DEF BatchShape, BatchLabels
<1>7. RunShape
  BY DEF RunShape
<1> QED
  BY <1>1, <1>2, <1>3, <1>4, <1>5, <1>6, <1>7 DEF IInv, TypeOK

\* Every step of the agent, its loop, its tool tasks and its host preserves IInv.
LEMMA StepIInv == IInv /\ [Next]_vars => IInv'
<1> SUFFICES ASSUME IInv, [Next]_vars PROVE IInv'
  OBVIOUS
<1> USE BoundsAssumption, ModesAssumption
<1> USE DEF IInv, TypeOK, FlagsOK, ControlOK, RunsOK, BatchOK, WaitMatchesLabel, BatchShape,
     RunShape
<1> USE DEF ReplySet, Labels, Operations, EventTypes, Statuses, BatchLabels, CallIds, NoTask, Tasks
<1> USE DEF agentState, queues, runVars, control, locals, batchVars, history, Emit, Await, Goto, At
<1>1. ASSUME NEW b \in Batches, Prompt(b) PROVE IInv'
  <2> USE <1>1 DEF Prompt, StartRun
  <2>1. FlagsOK'
    OBVIOUS
  <2>2. ControlOK'
    OBVIOUS
  <2>3. RunsOK'
    BY StartRunKeepsRuns
  <2>4. BatchOK'
    OBVIOUS
  <2>5. WaitMatchesLabel'
    OBVIOUS
  <2>6. BatchShape'
    OBVIOUS
  <2>7. RunShape'
    OBVIOUS
  <2> QED
    BY <2>1, <2>2, <2>3, <2>4, <2>5, <2>6, <2>7
<1>2. ASSUME Continue PROVE IInv'
  <2> USE <1>2 DEF Continue, StartRun
  <2>1. FlagsOK'
    OBVIOUS
  <2>2. ControlOK'
    OBVIOUS
  <2>3. RunsOK'
    BY StartRunKeepsRuns
  <2>4. BatchOK'
    OBVIOUS
  <2>5. WaitMatchesLabel'
    OBVIOUS
  <2>6. BatchShape'
    OBVIOUS
  <2>7. RunShape'
    OBVIOUS
  <2> QED
    BY <2>1, <2>2, <2>3, <2>4, <2>5, <2>6, <2>7
<1>3. ASSUME NEW b \in Batches, Steer(b) PROVE IInv'
  BY <1>3 DEF Steer, Host
<1>4. ASSUME NEW b \in Batches, FollowUp(b) PROVE IInv'
  BY <1>4 DEF FollowUp, Host
<1>5. ASSUME ClearQueues PROVE IInv'
  BY <1>5 DEF ClearQueues, Host
<1>6. ASSUME NEW m, RemoveQueuedMessages(m) PROVE IInv'
  BY <1>6 DEF RemoveQueuedMessages, Host
<1>7. ASSUME NEW q \in {"steering", "followUp"}, NEW m \in QueueModes, SetMode(q, m) PROVE IInv'
  BY <1>7 DEF SetMode, Host
<1>8. ASSUME Abort PROVE IInv'
  BY <1>8 DEF Abort, Host
<1>9. ASSUME Reset PROVE IInv'
  <2> USE <1>9 DEF Reset, Host
  <2>1. FlagsOK'
    OBVIOUS
  <2>2. ControlOK'
    OBVIOUS
  <2>3. RunsOK'
    OBVIOUS
  <2>4. BatchOK'
    OBVIOUS
  <2>5. WaitMatchesLabel'
    OBVIOUS
  <2>6. BatchShape'
    OBVIOUS
  <2>7. RunShape'
    OBVIOUS
  <2> QED
    BY <2>1, <2>2, <2>3, <2>4, <2>5, <2>6, <2>7
<1>10. ASSUME ListenersSettle PROVE IInv'
  BY <1>10 DEF ListenersSettle
<1>11. ASSUME FinishRun PROVE IInv'
  <2> USE <1>11 DEF FinishRun
  <2>1. FlagsOK'
    OBVIOUS
  <2>2. ControlOK'
    OBVIOUS
  <2>3. RunsOK'
    OBVIOUS
  <2>4. BatchOK'
    OBVIOUS
  <2>5. WaitMatchesLabel'
    OBVIOUS
  <2>6. BatchShape'
    OBVIOUS
  <2>7. RunShape'
    OBVIOUS
  <2> QED
    BY <2>1, <2>2, <2>3, <2>4, <2>5, <2>6, <2>7
<1>12. ASSUME Fail PROVE IInv'
  BY <1>12 DEF Fail, Assistant, Aborted
<1>13. ASSUME FailEnd PROVE IInv'
  <2> USE <1>13 DEF FailEnd, EmitMessageEnd, EmitAgentEnd
  <2>1. FlagsOK'
    OBVIOUS
  <2>2. ControlOK'
    OBVIOUS
  <2>3. RunsOK'
    BY EmitKeepsRuns
  <2>4. BatchOK'
    OBVIOUS
  <2>5. WaitMatchesLabel'
    OBVIOUS
  <2>6. BatchShape'
    OBVIOUS
  <2>7. RunShape'
    OBVIOUS
  <2> QED
    BY <2>1, <2>2, <2>3, <2>4, <2>5, <2>6, <2>7
<1>14. ASSUME Begin PROVE IInv'
  BY <1>14 DEF Begin
<1>15. ASSUME EmitPrompts PROVE IInv'
  <2> USE <1>15 DEF EmitPrompts, EmitShown, EmitMessageEnd
  <2>1. FlagsOK'
    OBVIOUS
  <2>2. ControlOK'
    OBVIOUS
  <2>3. RunsOK'
    OBVIOUS
  <2>4. BatchOK'
    OBVIOUS
  <2>5. WaitMatchesLabel'
    OBVIOUS
  <2>6. BatchShape'
    OBVIOUS
  <2>7. RunShape'
    OBVIOUS
  <2> QED
    BY <2>1, <2>2, <2>3, <2>4, <2>5, <2>6, <2>7
<1>16. ASSUME PollSteering PROVE IInv'
  <2> USE <1>16 DEF PollSteering, Polling
  <2>1. FlagsOK'
    OBVIOUS
  <2>2. ControlOK'
    OBVIOUS
  <2>3. RunsOK'
    OBVIOUS
  <2>4. BatchOK'
    OBVIOUS
  <2>5. WaitMatchesLabel'
    OBVIOUS
  <2>6. BatchShape'
    OBVIOUS
  <2>7. RunShape'
    OBVIOUS
  <2> QED
    BY <2>1, <2>2, <2>3, <2>4, <2>5, <2>6, <2>7
<1>17. ASSUME PollFollowUp PROVE IInv'
  <2> USE <1>17 DEF PollFollowUp, Polling
  <2>1. FlagsOK'
    OBVIOUS
  <2>2. ControlOK'
    OBVIOUS
  <2>3. RunsOK'
    OBVIOUS
  <2>4. BatchOK'
    OBVIOUS
  <2>5. WaitMatchesLabel'
    OBVIOUS
  <2>6. BatchShape'
    OBVIOUS
  <2>7. RunShape'
    OBVIOUS
  <2> QED
    BY <2>1, <2>2, <2>3, <2>4, <2>5, <2>6, <2>7
<1>18. ASSUME RaceAborted PROVE IInv'
  BY <1>18 DEF RaceAborted, Polling
<1>19. ASSUME PollSettles PROVE IInv'
  BY <1>19 DEF PollSettles
<1>20. ASSUME FirstTurn PROVE IInv'
  <2> USE <1>20 DEF FirstTurn, StartTurn
  <2>1. FlagsOK'
    OBVIOUS
  <2>2. ControlOK'
    OBVIOUS
  <2>3. RunsOK'
    OBVIOUS
  <2>4. BatchOK'
    OBVIOUS
  <2>5. WaitMatchesLabel'
    OBVIOUS
  <2>6. BatchShape'
    OBVIOUS
  <2>7. RunShape'
    OBVIOUS
  <2> QED
    BY <2>1, <2>2, <2>3, <2>4, <2>5, <2>6, <2>7
<1>21. ASSUME Inject PROVE IInv'
  <2> USE <1>21 DEF Inject, EmitShown, EmitMessageEnd
  <2>1. FlagsOK'
    OBVIOUS
  <2>2. ControlOK'
    OBVIOUS
  <2>3. RunsOK'
    OBVIOUS
  <2>4. BatchOK'
    OBVIOUS
  <2>5. WaitMatchesLabel'
    OBVIOUS
  <2>6. BatchShape'
    OBVIOUS
  <2>7. RunShape'
    OBVIOUS
  <2> QED
    BY <2>1, <2>2, <2>3, <2>4, <2>5, <2>6, <2>7
<1>22. ASSUME Request PROVE IInv'
  <2> USE <1>22 DEF Request, Respond, Streaming, Asking, EmitShown, EmitMessageEnd, Assistant
  <2>1. FlagsOK'
    OBVIOUS
  <2>2. ControlOK'
    OBVIOUS
  <2>3. RunsOK'
    BY EmitKeepsRuns
  <2>4. BatchOK'
    OBVIOUS
  <2>5. WaitMatchesLabel'
    OBVIOUS
  <2>6. BatchShape'
    OBVIOUS
  <2>7. RunShape'
    OBVIOUS
  <2> QED
    BY <2>1, <2>2, <2>3, <2>4, <2>5, <2>6, <2>7
<1>23. ASSUME NextEvent PROVE IInv'
  BY <1>23 DEF NextEvent
<1>24. ASSUME ProviderAborted PROVE IInv'
  <2> USE <1>24 DEF ProviderAborted, Respond, Streaming, Asking, EmitShown, EmitMessageEnd, Assistant
  <2>1. FlagsOK'
    OBVIOUS
  <2>2. ControlOK'
    OBVIOUS
  <2>3. RunsOK'
    BY ZenonT(60)
  <2>4. BatchOK'
    OBVIOUS
  <2>5. WaitMatchesLabel'
    OBVIOUS
  <2>6. BatchShape'
    OBVIOUS
  <2>7. RunShape'
    OBVIOUS
  <2> QED
    BY <2>1, <2>2, <2>3, <2>4, <2>5, <2>6, <2>7
<1>24a. ASSUME ListenersAbort PROVE IInv'
  <2> USE <1>24a DEF ListenersAbort, Respond, Streaming, Asking, EmitShown, EmitMessageEnd, Assistant
  <2>1. FlagsOK'
    OBVIOUS
  <2>2. ControlOK'
    OBVIOUS
  <2>3. RunsOK'
    BY ZenonT(60)
  <2>4. BatchOK'
    OBVIOUS
  <2>5. WaitMatchesLabel'
    OBVIOUS
  <2>6. BatchShape'
    OBVIOUS
  <2>7. RunShape'
    OBVIOUS
  <2> QED
    BY <2>1, <2>2, <2>3, <2>4, <2>5, <2>6, <2>7
<1>25. ASSUME ReplyEnd PROVE IInv'
  BY <1>25 DEF ReplyEnd, EmitMessageEnd
<1>26. ASSUME Turn PROVE IInv'
  <2> USE <1>26 DEF Turn, EmitTurnEnd
  <2>1. FlagsOK'
    OBVIOUS
  <2>2. ControlOK'
    OBVIOUS
  <2>3. RunsOK'
    OBVIOUS
  <2>4. BatchOK'
    <3>1. CASE UNCHANGED <<batchMode, idx>>
      BY <3>1
    <3>2. CASE batchMode' \in BatchModes /\ idx' = 1 /\ UNCHANGED agentState
      BY <3>2
    <3> QED
      BY <3>1, <3>2
  <2>5. WaitMatchesLabel'
    OBVIOUS
  <2>6. BatchShape'
    OBVIOUS
  <2>7. RunShape'
    OBVIOUS
  <2> QED
    BY <2>1, <2>2, <2>3, <2>4, <2>5, <2>6, <2>7
<1>27. ASSUME Announce PROVE IInv'
  <2> USE <1>27 DEF Announce, Batch, Call
  <2>1. FlagsOK'
    OBVIOUS
  <2>2. ControlOK'
    OBVIOUS
  <2>3. RunsOK'
    OBVIOUS
  <2>4. BatchOK'
    <3>1. Call \in CallIds
      BY CallInBatch
    <3>2. [NoTask EXCEPT !.status = "announced", !.run = activeRun] \in Tasks
      OBVIOUS
    <3> HIDE DEF Call, CallIds, Tasks, NoTask
    <3>3. tools' \in [CallIds -> Tasks]
      BY <3>1, <3>2
    <3> QED
      BY <3>1, <3>3
  <2>5. WaitMatchesLabel'
    OBVIOUS
  <2>6. BatchShape'
    OBVIOUS
  <2>7. RunShape'
    OBVIOUS
  <2> QED
    BY <2>1, <2>2, <2>3, <2>4, <2>5, <2>6, <2>7
<1>28. ASSUME PrepareToolCall PROVE IInv'
  <2> USE <1>28 DEF PrepareToolCall, Batch, Allow, AnswerAtOnce, Call
  <2>1. FlagsOK'
    OBVIOUS
  <2>2. ControlOK'
    OBVIOUS
  <2>3. RunsOK'
    OBVIOUS
  <2>4. BatchOK'
    <3>1. Call \in CallIds
      BY CallInBatch
    <3> HIDE DEF Call, CallIds
    <3>2. tools' \in [CallIds -> Tasks]
      BY <3>1
    <3> QED
      BY <3>1, <3>2
  <2>5. WaitMatchesLabel'
    OBVIOUS
  <2>6. BatchShape'
    OBVIOUS
  <2>7. RunShape'
    OBVIOUS
  <2> QED
    BY <2>1, <2>2, <2>3, <2>4, <2>5, <2>6, <2>7
<1>29. ASSUME BeforeToolCallAborted PROVE IInv'
  BY <1>29 DEF BeforeToolCallAborted, Batch, AnswerAtOnce, Call
<1>30. ASSUME Prepared PROVE IInv'
  BY <1>30 DEF Prepared, Batch, Launch, Call
<1>31. ASSUME LaunchAll PROVE IInv'
  BY <1>31 DEF LaunchAll, Batch, Launch
<1>32. ASSUME ToolsSettle PROVE IInv'
  <2> USE <1>32 DEF ToolsSettle, Batch
  <2>1. FlagsOK'
    OBVIOUS
  <2>2. ControlOK'
    OBVIOUS
  <2>3. RunsOK'
    OBVIOUS
  <2>4. BatchOK'
    OBVIOUS
  <2>5. WaitMatchesLabel'
    OBVIOUS
  <2>6. BatchShape'
    OBVIOUS
  <2>7. RunShape'
    OBVIOUS
  <2> QED
    BY <2>1, <2>2, <2>3, <2>4, <2>5, <2>6, <2>7
<1>33. ASSUME EmitResult PROVE IInv'
  <2> USE <1>33 DEF EmitResult, Batch, EmitShown, EmitMessageEnd, ToolResult
  <2>1. FlagsOK'
    OBVIOUS
  <2>2. ControlOK'
    OBVIOUS
  <2>3. RunsOK'
    OBVIOUS
  <2>4. BatchOK'
    OBVIOUS
  <2>5. WaitMatchesLabel'
    OBVIOUS
  <2>6. BatchShape'
    OBVIOUS
  <2>7. RunShape'
    OBVIOUS
  <2> QED
    BY <2>1, <2>2, <2>3, <2>4, <2>5, <2>6, <2>7
<1>34. ASSUME BatchDone PROVE IInv'
  BY <1>34 DEF BatchDone, EmitTurnEnd
<1>35. ASSUME AfterTurn PROVE IInv'
  <2> USE <1>35 DEF AfterTurn
  <2>1. FlagsOK'
    OBVIOUS
  <2>2. ControlOK'
    OBVIOUS
  <2>3. RunsOK'
    OBVIOUS
  <2>4. BatchOK'
    OBVIOUS
  <2>5. WaitMatchesLabel'
    OBVIOUS
  <2>6. BatchShape'
    OBVIOUS
  <2>7. RunShape'
    OBVIOUS
  <2> QED
    BY <2>1, <2>2, <2>3, <2>4, <2>5, <2>6, <2>7
<1>36. ASSUME PolledSteering PROVE IInv'
  <2> USE <1>36 DEF PolledSteering, StartTurn
  <2>1. FlagsOK'
    OBVIOUS
  <2>2. ControlOK'
    OBVIOUS
  <2>3. RunsOK'
    OBVIOUS
  <2>4. BatchOK'
    OBVIOUS
  <2>5. WaitMatchesLabel'
    OBVIOUS
  <2>6. BatchShape'
    OBVIOUS
  <2>7. RunShape'
    OBVIOUS
  <2> QED
    BY <2>1, <2>2, <2>3, <2>4, <2>5, <2>6, <2>7
<1>37. ASSUME PolledFollowUp PROVE IInv'
  <2> USE <1>37 DEF PolledFollowUp, StartTurn
  <2>1. FlagsOK'
    OBVIOUS
  <2>2. ControlOK'
    OBVIOUS
  <2>3. RunsOK'
    OBVIOUS
  <2>4. BatchOK'
    OBVIOUS
  <2>5. WaitMatchesLabel'
    OBVIOUS
  <2>6. BatchShape'
    OBVIOUS
  <2>7. RunShape'
    OBVIOUS
  <2> QED
    BY <2>1, <2>2, <2>3, <2>4, <2>5, <2>6, <2>7
<1>38. ASSUME Continued PROVE IInv'
  <2> USE <1>38 DEF Continued, StartTurn
  <2>1. FlagsOK'
    OBVIOUS
  <2>2. ControlOK'
    OBVIOUS
  <2>3. RunsOK'
    OBVIOUS
  <2>4. BatchOK'
    OBVIOUS
  <2>5. WaitMatchesLabel'
    OBVIOUS
  <2>6. BatchShape'
    OBVIOUS
  <2>7. RunShape'
    OBVIOUS
  <2> QED
    BY <2>1, <2>2, <2>3, <2>4, <2>5, <2>6, <2>7
<1>39. ASSUME End PROVE IInv'
  BY <1>39 DEF End, EmitAgentEnd
<1>40. ASSUME ListenersThrow PROVE IInv'
  BY <1>40 DEF ListenersThrow
<1>41. ASSUME ProviderStarts PROVE IInv'
  BY <1>41 DEF ProviderStarts, Streaming, Asking, EmitShown
<1>42. ASSUME ProviderUpdates PROVE IInv'
  BY <1>42 DEF ProviderUpdates, Streaming, Asking, EmitShown
<1>43. ASSUME ProviderThrows PROVE IInv'
  BY <1>43 DEF ProviderThrows
<1>44. ASSUME NEW k \in 0..MaxCalls, NEW stop \in {"stop", "error"}, ProviderDone(k, stop)
     PROVE IInv'
  <2> USE <1>44 DEF ProviderDone, Respond, Streaming, Asking, EmitShown, EmitMessageEnd, Assistant
  <2>1. FlagsOK'
    OBVIOUS
  <2>2. ControlOK'
    OBVIOUS
  <2>3. RunsOK'
    BY ZenonT(60)
  <2>4. BatchOK'
    OBVIOUS
  <2>5. WaitMatchesLabel'
    OBVIOUS
  <2>6. BatchShape'
    OBVIOUS
  <2>7. RunShape'
    OBVIOUS
  <2> QED
    BY <2>1, <2>2, <2>3, <2>4, <2>5, <2>6, <2>7
<1>45. ASSUME BeforeToolCallSettles PROVE IInv'
  <2> USE <1>45 DEF BeforeToolCallSettles, Batch, Allow, AnswerAtOnce, Call
  <2>1. FlagsOK'
    OBVIOUS
  <2>2. ControlOK'
    OBVIOUS
  <2>3. RunsOK'
    OBVIOUS
  <2>4. BatchOK'
    <3>1. Call \in CallIds
      BY CallInBatch
    <3> HIDE DEF Call, CallIds
    <3>2. tools' \in [CallIds -> Tasks]
      BY <3>1
    <3> QED
      BY <3>1, <3>2
  <2>5. WaitMatchesLabel'
    OBVIOUS
  <2>6. BatchShape'
    OBVIOUS
  <2>7. RunShape'
    OBVIOUS
  <2> QED
    BY <2>1, <2>2, <2>3, <2>4, <2>5, <2>6, <2>7
<1>46. ASSUME StopHookSettles PROVE IInv'
  <2> USE <1>46 DEF StopHookSettles
  <2>1. FlagsOK'
    OBVIOUS
  <2>2. ControlOK'
    OBVIOUS
  <2>3. RunsOK'
    OBVIOUS
  <2>4. BatchOK'
    OBVIOUS
  <2>5. WaitMatchesLabel'
    OBVIOUS
  <2>6. BatchShape'
    OBVIOUS
  <2>7. RunShape'
    OBVIOUS
  <2> QED
    BY <2>1, <2>2, <2>3, <2>4, <2>5, <2>6, <2>7
<1>47. ASSUME ContinuationSettles PROVE IInv'
  <2> USE <1>47 DEF ContinuationSettles
  <2>1. FlagsOK'
    OBVIOUS
  <2>2. ControlOK'
    OBVIOUS
  <2>3. RunsOK'
    OBVIOUS
  <2>4. BatchOK'
    OBVIOUS
  <2>5. WaitMatchesLabel'
    OBVIOUS
  <2>6. BatchShape'
    OBVIOUS
  <2>7. RunShape'
    OBVIOUS
  <2> QED
    BY <2>1, <2>2, <2>3, <2>4, <2>5, <2>6, <2>7
<1>48. ASSUME NEW c \in CallIds, ToolEnds(c) PROVE IInv'
  <2> USE <1>48 DEF ToolEnds, EndTask, Batch
  <2>1. FlagsOK'
    OBVIOUS
  <2>2. ControlOK'
    OBVIOUS
  <2>3. RunsOK'
    OBVIOUS
  <2>4. BatchOK'
    <3>1. PICK t \in BOOLEAN : EndTask(c, t)
      OBVIOUS
    <3>2. tools' \in [CallIds -> Tasks]
      BY <3>1, TaskUpdates
    <3> QED
      BY <3>1, <3>2
  <2>5. WaitMatchesLabel'
    OBVIOUS
  <2>6. BatchShape'
    OBVIOUS
  <2>7. RunShape'
    OBVIOUS
  <2> QED
    BY <2>1, <2>2, <2>3, <2>4, <2>5, <2>6, <2>7
<1>49. ASSUME NEW c \in CallIds, ToolEndThrows(c) PROVE IInv'
  BY <1>49 DEF ToolEndThrows, Batch
<1>50. ASSUME NEW c \in CallIds, ToolAborted(c) PROVE IInv'
  <2> USE <1>50 DEF ToolAborted, EndTask, Batch
  <2>1. FlagsOK'
    OBVIOUS
  <2>2. ControlOK'
    OBVIOUS
  <2>3. RunsOK'
    OBVIOUS
  <2>4. BatchOK'
    <3>1. tools' \in [CallIds -> Tasks]
      BY TaskUpdates
    <3> QED
      BY <3>1
  <2>5. WaitMatchesLabel'
    OBVIOUS
  <2>6. BatchShape'
    OBVIOUS
  <2>7. RunShape'
    OBVIOUS
  <2> QED
    BY <2>1, <2>2, <2>3, <2>4, <2>5, <2>6, <2>7
<1>51. ASSUME NEW c \in CallIds, ToolEndSettles(c) PROVE IInv'
  BY <1>51 DEF ToolEndSettles, Batch
<1>52. CASE UNCHANGED vars
  BY <1>52 DEF vars
<1> HIDE DEF IInv, TypeOK, FlagsOK, ControlOK, RunsOK, BatchOK, WaitMatchesLabel, BatchShape,
     RunShape
<1> HIDE DEF ReplySet, Labels, Operations, EventTypes, Statuses, BatchLabels, CallIds, NoTask, Tasks
<1> HIDE DEF agentState, queues, runVars, control, locals, batchVars, history, Emit, Await, Goto, At
<1> QED
  BY <1>1, <1>2, <1>3, <1>4, <1>5, <1>6, <1>7, <1>8, <1>9, <1>10, <1>11, <1>12, <1>13, <1>14,
     <1>15, <1>16, <1>17, <1>18, <1>19, <1>20, <1>21, <1>22, <1>23, <1>24, <1>24a, <1>25, <1>26,
     <1>27, <1>28, <1>29, <1>30, <1>31, <1>32, <1>33, <1>34, <1>35, <1>36, <1>37, <1>38,
     <1>39, <1>40, <1>41, <1>42, <1>43, <1>44, <1>45, <1>46, <1>47, <1>48, <1>49, <1>50,
     <1>51, <1>52
  DEF Next, HostCall, LoopStep, External, TaskStep

\* IInv is an invariant of the agent.
THEOREM IInvHolds == Spec => []IInv
  BY InitIInv, StepIInv, PTL DEF Spec

\* Type correctness: the control state of the agent, its loop and its tool tasks
\* has its type in every reachable state, whatever the constants.
THEOREM TypeCorrect == Spec => []TypeOK
<1>1. IInv => TypeOK
  BY DEF IInv
<1> QED
  BY <1>1, IInvHolds, PTL

\* finishRun runs only behind an agent_end: an idle agent has ended every run it
\* started, and isStreaming tells whether a run is active.
THEOREM IdleIsSettled == Spec => []IdleMeansEnded
<1>1. IInv => IdleMeansEnded
  <2> SUFFICES ASSUME IInv PROVE IdleMeansEnded
    OBVIOUS
  <2> USE DEF IInv, RunShape, TypeOK, RunsOK
  <2>1. ASSUME activeRun = 0 PROVE ended = 1..runs
    <3>1. \A r \in 1..runs : r \in ended
      BY <2>1, BoundsAssumption
    <3> QED
      BY <3>1
  <2> QED
    BY <2>1 DEF IdleMeansEnded
<1> QED
  BY <1>1, IInvHolds, PTL

-----------------------------------------------------------------------------
(* agent_end is final when the listeners of the end events return *)

\* The first component of a call is the number of its response.
LEMMA TurnOfCall == \A c \in CallIds : c[1] \in 1..MaxTurns
  BY DEF CallIds

\* FInv holds of a new Agent.
LEMMA InitFInv == Init => FInv
<1> SUFFICES ASSUME Init PROVE FInv
  OBVIOUS
<1>1. IInv
  BY InitIInv
<1>2. TasksInBatch
  BY DEF Init, TasksInBatch, NoTask, BatchLabels
<1>3. EndedIsOver /\ AgentEndIsFinal
  BY DEF Init, EndedIsOver, AgentEndIsFinal
<1> QED
  BY <1>1, <1>2, <1>3 DEF FInv

\* Every step preserves FInv.
LEMMA StepFInv == ASSUME EndListenersReturn PROVE FInv /\ [Next]_vars => FInv'
<1> SUFFICES ASSUME FInv, [Next]_vars PROVE FInv'
  OBVIOUS
<1>0. IInv'
  BY StepIInv DEF FInv
<1> USE <1>0, EndListenersReturn, BoundsAssumption, TurnOfCall DEF EndListenersReturn
<1> USE DEF FInv, EndedIsOver, AgentEndIsFinal, Awaited, Calls, Call, BatchLabels, EventTypes
<1> USE DEF IInv, TypeOK, ControlOK, RunsOK, BatchOK, WaitMatchesLabel, BatchShape, RunShape,
     ReplySet
<1> USE DEF agentState, queues, runVars, control, locals, batchVars, history, Emit, Await, Goto, At
<1>1. ASSUME NEW b \in Batches, Prompt(b) PROVE FInv'
  BY <1>1 DEF Prompt, StartRun, TasksInBatch
<1>2. ASSUME Continue PROVE FInv'
  <2> USE <1>2 DEF Continue, StartRun
  <2>1. TasksInBatch'
    BY SMTT(30) DEF TasksInBatch
  <2>2. EndedIsOver' /\ AgentEndIsFinal'
    OBVIOUS
  <2> QED
    BY <2>1, <2>2
<1>3. ASSUME NEW b \in Batches, Steer(b) PROVE FInv'
  BY <1>3 DEF Steer, Host, TasksInBatch
<1>4. ASSUME NEW b \in Batches, FollowUp(b) PROVE FInv'
  BY <1>4 DEF FollowUp, Host, TasksInBatch
<1>5. ASSUME ClearQueues PROVE FInv'
  BY <1>5 DEF ClearQueues, Host, TasksInBatch
<1>6. ASSUME NEW m, RemoveQueuedMessages(m) PROVE FInv'
  BY <1>6 DEF RemoveQueuedMessages, Host, TasksInBatch
<1>7. ASSUME NEW q \in {"steering", "followUp"}, NEW m \in QueueModes, SetMode(q, m) PROVE FInv'
  BY <1>7 DEF SetMode, Host, TasksInBatch
<1>8. ASSUME Abort PROVE FInv'
  BY <1>8 DEF Abort, Host, TasksInBatch
<1>9. ASSUME Reset PROVE FInv'
  BY <1>9 DEF Reset, Host, TasksInBatch
<1>10. ASSUME ListenersSettle PROVE FInv'
  BY <1>10 DEF ListenersSettle, TasksInBatch
<1>11. ASSUME FinishRun PROVE FInv'
  BY <1>11 DEF FinishRun, TasksInBatch
<1>12. ASSUME Fail PROVE FInv'
  BY <1>12 DEF Fail, Assistant, Aborted, TasksInBatch
<1>13. ASSUME FailEnd PROVE FInv'
  BY <1>13 DEF FailEnd, EmitMessageEnd, EmitAgentEnd, TasksInBatch
<1>14. ASSUME Begin PROVE FInv'
  BY <1>14 DEF Begin, TasksInBatch
<1>15. ASSUME EmitPrompts PROVE FInv'
  BY <1>15 DEF EmitPrompts, EmitShown, EmitMessageEnd, TasksInBatch
<1>16. ASSUME PollSteering PROVE FInv'
  BY <1>16 DEF PollSteering, Polling, TasksInBatch
<1>17. ASSUME PollFollowUp PROVE FInv'
  BY <1>17 DEF PollFollowUp, Polling, TasksInBatch
<1>18. ASSUME RaceAborted PROVE FInv'
  BY <1>18 DEF RaceAborted, Polling, TasksInBatch
<1>19. ASSUME PollSettles PROVE FInv'
  BY <1>19 DEF PollSettles, TasksInBatch
<1>20. ASSUME FirstTurn PROVE FInv'
  BY <1>20 DEF FirstTurn, StartTurn, TasksInBatch
<1>21. ASSUME Inject PROVE FInv'
  BY <1>21 DEF Inject, EmitShown, EmitMessageEnd, TasksInBatch
<1>22. ASSUME Request PROVE FInv'
  BY <1>22 DEF Request, Respond, Streaming, Asking, EmitShown, EmitMessageEnd, Assistant, TasksInBatch
<1>23. ASSUME NextEvent PROVE FInv'
  BY <1>23 DEF NextEvent, TasksInBatch
<1>24. ASSUME ProviderAborted PROVE FInv'
  BY <1>24 DEF ProviderAborted, Respond, Streaming, Asking, EmitShown, EmitMessageEnd, Assistant,
       TasksInBatch
<1>24a. ASSUME ListenersAbort PROVE FInv'
  BY <1>24a DEF ListenersAbort, Respond, Streaming, Asking, EmitShown, EmitMessageEnd, Assistant,
       TasksInBatch
<1>25. ASSUME ReplyEnd PROVE FInv'
  BY <1>25 DEF ReplyEnd, EmitMessageEnd, TasksInBatch
<1>26. ASSUME Turn PROVE FInv'
  BY <1>26 DEF Turn, EmitTurnEnd, TasksInBatch
<1>27. ASSUME Announce PROVE FInv'
  <2> USE <1>27 DEF Announce, Batch, Call
  <2>1. TasksInBatch'
    <3>1. Call \in CallIds /\ Call[1] = turn /\ Call' = Call
      BY CallInBatch
    <3> HIDE DEF Call, CallIds
    <3>2. CASE UNCHANGED tools /\ pc' = "batchDone"
      BY <3>2 DEF TasksInBatch
    <3>3. CASE /\ tools' = [tools EXCEPT ![Call] = [NoTask EXCEPT !.status = "announced",
                                                               !.run = activeRun]]
               /\ pc' = "prepare" /\ wait' = "tool_execution_start"
      <4>1. \A c \in CallIds : c # Call => tools'[c] = tools[c]
        BY <3>3
      <4>2. tools'[Call].status = "announced" /\ tools'[Call].run = activeRun
        BY <3>1, <3>3 DEF NoTask
      <4> QED
        BY <3>1, <3>3, <4>1, <4>2 DEF TasksInBatch
    <3> QED
      BY <3>2, <3>3
  <2>2. EndedIsOver' /\ AgentEndIsFinal'
    OBVIOUS
  <2> QED
    BY <2>1, <2>2
<1>28. ASSUME PrepareToolCall PROVE FInv'
  <2> USE <1>28 DEF PrepareToolCall, Batch, Allow, AnswerAtOnce, Call
  <2>1. TasksInBatch'
    <3>1. Call \in CallIds /\ Call[1] = turn /\ Call' = Call
      BY CallInBatch
    <3> HIDE DEF Call, CallIds
    <3>2. \A c \in CallIds : c # Call => tools'[c] = tools[c]
      OBVIOUS
    <3>3. tools'[Call].run = activeRun
      BY <3>1 DEF TasksInBatch, Tasks
    <3>4. \/ tools'[Call].status \in {"prepared", "done"} /\ pc' = "prepared"
          \/ UNCHANGED tools /\ pc' = "prepare"
      BY <3>1 DEF TasksInBatch, Tasks
    <3> QED
      BY <3>1, <3>2, <3>3, <3>4 DEF TasksInBatch
  <2>2. EndedIsOver' /\ AgentEndIsFinal'
    OBVIOUS
  <2> QED
    BY <2>1, <2>2
<1>29. ASSUME BeforeToolCallAborted PROVE FInv'
  BY <1>29 DEF BeforeToolCallAborted, Batch, AnswerAtOnce, Call, TasksInBatch
<1>30. ASSUME Prepared PROVE FInv'
  <2> USE <1>30 DEF Prepared, Batch, Launch, Call
  <2>1. TasksInBatch'
    <3>1. CASE UNCHANGED tools /\ pc' = "announce" /\ wait' = "none"
      BY <3>1 DEF TasksInBatch
    <3>2. CASE /\ Launch(Awaited) /\ wait' = "tools" /\ pc' = "result"
               /\ Awaited' = Awaited /\ UNCHANGED <<turn, reply, activeRun>>
      <4>1. \A c \in Awaited : c[1] = turn
        OBVIOUS
      <4> HIDE DEF Awaited
      <4>2. \A c \in CallIds : tools'[c].run = tools[c].run
        BY <3>2 DEF Launch, Tasks
      <4>3. \A c \in CallIds : \/ tools'[c].status = tools[c].status
                               \/ /\ c \in Awaited /\ tools[c].status = "prepared"
                                  /\ tools'[c].status \in {"executing", "refused"}
        BY <3>2 DEF Launch, Tasks
      <4>4. \A c \in CallIds : tools[c].status \notin {"executing", "refused"}
        BY DEF TasksInBatch
      <4> QED
        BY <3>2, <4>1, <4>2, <4>3, <4>4 DEF TasksInBatch
    <3> QED
      BY <3>1, <3>2
  <2>2. EndedIsOver' /\ AgentEndIsFinal'
    OBVIOUS
  <2> QED
    BY <2>1, <2>2
<1>31. ASSUME LaunchAll PROVE FInv'
  <2> USE <1>31 DEF LaunchAll, Batch, Launch
  <2>1. TasksInBatch'
    <3>1. CASE UNCHANGED tools /\ pc' = "batchDone" /\ wait' = "none"
      BY <3>1 DEF TasksInBatch
    <3>2. CASE /\ Launch(Awaited) /\ wait' = "tools" /\ pc' = "result"
               /\ Awaited' = Awaited /\ UNCHANGED <<turn, reply, activeRun>>
      <4>1. \A c \in Awaited : c[1] = turn
        OBVIOUS
      <4> HIDE DEF Awaited
      <4>2. \A c \in CallIds : tools'[c].run = tools[c].run
        BY <3>2 DEF Launch, Tasks
      <4>3. \A c \in CallIds : \/ tools'[c].status = tools[c].status
                               \/ /\ c \in Awaited /\ tools[c].status = "prepared"
                                  /\ tools'[c].status \in {"executing", "refused"}
        BY <3>2 DEF Launch, Tasks
      <4>4. \A c \in CallIds : tools[c].status \notin {"executing", "refused"}
        BY DEF TasksInBatch
      <4> QED
        BY <3>2, <4>1, <4>2, <4>3, <4>4 DEF TasksInBatch
    <3> QED
      BY <3>1, <3>2
  <2>2. EndedIsOver' /\ AgentEndIsFinal'
    OBVIOUS
  <2> QED
    BY <2>1, <2>2
<1>32. ASSUME ToolsSettle PROVE FInv'
  <2> USE <1>32 DEF ToolsSettle, Batch
  <2>1. TasksInBatch'
    <3>1. Awaited \subseteq CallIds
      BY CallInBatch DEF CallIds
    <3> HIDE DEF Awaited, CallIds
    <3>2. \A c \in CallIds : tools[c].status \notin {"executing", "refused"}
      BY <3>1 DEF TasksInBatch
    <3> QED
      BY <3>2 DEF TasksInBatch
  <2>2. EndedIsOver' /\ AgentEndIsFinal'
    OBVIOUS
  <2> QED
    BY <2>1, <2>2
<1>33. ASSUME EmitResult PROVE FInv'
  BY <1>33 DEF EmitResult, Batch, EmitShown, EmitMessageEnd, ToolResult, TasksInBatch
<1>34. ASSUME BatchDone PROVE FInv'
  BY <1>34 DEF BatchDone, EmitTurnEnd, TasksInBatch
<1>35. ASSUME AfterTurn PROVE FInv'
  BY <1>35 DEF AfterTurn, TasksInBatch
<1>36. ASSUME PolledSteering PROVE FInv'
  BY <1>36 DEF PolledSteering, StartTurn, TasksInBatch
<1>37. ASSUME PolledFollowUp PROVE FInv'
  BY <1>37 DEF PolledFollowUp, StartTurn, TasksInBatch
<1>38. ASSUME Continued PROVE FInv'
  BY <1>38 DEF Continued, StartTurn, TasksInBatch
<1>39. ASSUME End PROVE FInv'
  BY <1>39 DEF End, EmitAgentEnd, TasksInBatch
<1>40. ASSUME ListenersThrow PROVE FInv'
  BY <1>40 DEF ListenersThrow, TasksInBatch
<1>41. ASSUME ProviderStarts PROVE FInv'
  BY <1>41 DEF ProviderStarts, Streaming, Asking, EmitShown, TasksInBatch
<1>42. ASSUME ProviderUpdates PROVE FInv'
  BY <1>42 DEF ProviderUpdates, Streaming, Asking, EmitShown, TasksInBatch
<1>43. ASSUME ProviderThrows PROVE FInv'
  BY <1>43 DEF ProviderThrows, TasksInBatch
<1>44. ASSUME NEW k \in 0..MaxCalls, NEW stop \in {"stop", "error"}, ProviderDone(k, stop)
     PROVE FInv'
  BY <1>44 DEF ProviderDone, Respond, Streaming, Asking, EmitShown, EmitMessageEnd, Assistant, TasksInBatch
<1>45. ASSUME BeforeToolCallSettles PROVE FInv'
  <2> USE <1>45 DEF BeforeToolCallSettles, Batch, Allow, AnswerAtOnce, Call
  <2>1. TasksInBatch'
    <3>1. Call \in CallIds /\ Call[1] = turn /\ Call' = Call
      BY CallInBatch
    <3> HIDE DEF Call, CallIds
    <3>2. \A c \in CallIds : c # Call => tools'[c] = tools[c]
      OBVIOUS
    <3>3. tools'[Call].run = activeRun
      BY <3>1 DEF TasksInBatch, Tasks
    <3>4. \/ tools'[Call].status \in {"prepared", "done"} /\ pc' = "prepared"
          \/ UNCHANGED tools /\ pc' = "prepare"
      BY <3>1 DEF TasksInBatch, Tasks
    <3> QED
      BY <3>1, <3>2, <3>3, <3>4 DEF TasksInBatch
  <2>2. EndedIsOver' /\ AgentEndIsFinal'
    OBVIOUS
  <2> QED
    BY <2>1, <2>2
<1>46. ASSUME StopHookSettles PROVE FInv'
  BY <1>46 DEF StopHookSettles, TasksInBatch
<1>47. ASSUME ContinuationSettles PROVE FInv'
  BY <1>47 DEF ContinuationSettles, TasksInBatch
<1>48. ASSUME NEW c \in CallIds, ToolEnds(c) PROVE FInv'
  <2> USE <1>48 DEF ToolEnds, EndTask, Batch
  <2>1. TasksInBatch'
    BY DEF TasksInBatch
  <2>2. EndedIsOver' /\ AgentEndIsFinal'
    BY DEF TasksInBatch
  <2> QED
    BY <2>1, <2>2
<1>49. ASSUME NEW c \in CallIds, ToolEndThrows(c) PROVE FInv'
  BY <1>49 DEF ToolEndThrows, Batch, TasksInBatch
<1>50. ASSUME NEW c \in CallIds, ToolAborted(c) PROVE FInv'
  <2> USE <1>50 DEF ToolAborted, EndTask, Batch
  <2>1. TasksInBatch'
    BY DEF TasksInBatch
  <2>2. EndedIsOver' /\ AgentEndIsFinal'
    BY DEF TasksInBatch
  <2> QED
    BY <2>1, <2>2
<1>51. ASSUME NEW c \in CallIds, ToolEndSettles(c) PROVE FInv'
  BY <1>51 DEF ToolEndSettles, Batch, TasksInBatch
<1>52. CASE UNCHANGED vars
  BY <1>52 DEF vars, TasksInBatch
<1> HIDE DEF FInv, EndedIsOver, AgentEndIsFinal, Awaited, Calls, Call, BatchLabels, EventTypes
<1> HIDE DEF IInv, TypeOK, ControlOK, RunsOK, BatchOK, WaitMatchesLabel, BatchShape, RunShape,
     ReplySet
<1> HIDE DEF agentState, queues, runVars, control, locals, batchVars, history, Emit, Await, Goto, At
<1> QED
  BY <1>1, <1>2, <1>3, <1>4, <1>5, <1>6, <1>7, <1>8, <1>9, <1>10, <1>11, <1>12, <1>13, <1>14,
     <1>15, <1>16, <1>17, <1>18, <1>19, <1>20, <1>21, <1>22, <1>23, <1>24, <1>24a, <1>25, <1>26,
     <1>27, <1>28, <1>29, <1>30, <1>31, <1>32, <1>33, <1>34, <1>35, <1>36, <1>37, <1>38,
     <1>39, <1>40, <1>41, <1>42, <1>43, <1>44, <1>45, <1>46, <1>47, <1>48, <1>49, <1>50,
     <1>51, <1>52
  DEF Next, HostCall, LoopStep, External, TaskStep

\* agent_end is the last event of a run, of whatever outcome, as long as the
\* listeners of agent_end and tool_execution_end return: then no tool task outlives
\* its batch, and nothing leads from behind agent_end back into the run.
THEOREM AgentEndFinal == ASSUME EndListenersReturn PROVE Spec => []AgentEndIsFinal
<1>1. FInv /\ [Next]_vars => FInv'
  BY StepFInv
<1>2. FInv => AgentEndIsFinal
  BY DEF FInv
<1> QED
  BY <1>1, <1>2, InitFInv, PTL DEF Spec

-----------------------------------------------------------------------------
(* state.pendingToolCalls and the tasks                                    *)

\* PendingInv holds of a new Agent.
LEMMA InitPendingInv == Init => PendingInv
<1> SUFFICES ASSUME Init PROVE PendingInv
  OBVIOUS
<1>1. IInv
  BY InitIInv
<1>2. PendingOfRun
  BY DEF Init, PendingOfRun, PendingMatchesTasks, NoTask
<1> QED
  BY <1>1, <1>2 DEF PendingInv

\* Announcing, answering, ending and launching calls, finishing and failing a run
\* and every host call preserve PendingInv.
LEMMA StepPendingInv == PendingInv /\ [Next]_vars => PendingInv'
<1> SUFFICES ASSUME PendingInv, [Next]_vars PROVE PendingInv'
  OBVIOUS
<1>0. IInv'
  BY StepIInv DEF PendingInv
<1> USE <1>0, BoundsAssumption, TurnOfCall
<1> USE DEF PendingInv, PendingOfRun, PendingMatchesTasks, Call, EventTypes
<1> USE DEF IInv, TypeOK, ControlOK, RunsOK, BatchOK, WaitMatchesLabel, RunShape
<1> USE DEF agentState, queues, runVars, control, locals, batchVars, history, Emit, Await, Goto, At
<1>1. ASSUME NEW b \in Batches, Prompt(b) PROVE PendingInv'
  <2> USE <1>1 DEF Prompt, StartRun
  <2>1. activeRun' = runs' /\ runs' > runs /\ activeRun = 0 /\ UNCHANGED <<tools, pendingToolCalls>>
    OBVIOUS
  <2>2. pc' # "prepare" /\ runs \in Nat /\ runs' \in Nat
    OBVIOUS
  <2>3. \A c \in CallIds : tools[c].run # activeRun' /\ tools'[c].run <= runs'
    BY <2>1, <2>2 DEF Tasks
  <2> HIDE DEF CallIds
  <2> QED
    BY <2>1, <2>2, <2>3
<1>2. ASSUME Continue PROVE PendingInv'
  <2> USE <1>2 DEF Continue, StartRun
  <2>1. activeRun' = runs' /\ runs' > runs /\ activeRun = 0 /\ UNCHANGED <<tools, pendingToolCalls>>
    OBVIOUS
  <2>2. pc' # "prepare" /\ runs \in Nat /\ runs' \in Nat
    OBVIOUS
  <2>3. \A c \in CallIds : tools[c].run # activeRun' /\ tools'[c].run <= runs'
    BY <2>1, <2>2 DEF Tasks
  <2> HIDE DEF CallIds
  <2> QED
    BY <2>1, <2>2, <2>3
<1>3. ASSUME NEW b \in Batches, Steer(b) PROVE PendingInv'
  BY <1>3 DEF Steer, Host
<1>4. ASSUME NEW b \in Batches, FollowUp(b) PROVE PendingInv'
  BY <1>4 DEF FollowUp, Host
<1>5. ASSUME ClearQueues PROVE PendingInv'
  BY <1>5 DEF ClearQueues, Host
<1>6. ASSUME NEW m, RemoveQueuedMessages(m) PROVE PendingInv'
  BY <1>6 DEF RemoveQueuedMessages, Host
<1>7. ASSUME NEW q \in {"steering", "followUp"}, NEW m \in QueueModes, SetMode(q, m)
     PROVE PendingInv'
  BY <1>7 DEF SetMode, Host
<1>8. ASSUME Abort PROVE PendingInv'
  BY <1>8 DEF Abort, Host
<1>9. ASSUME Reset PROVE PendingInv'
  BY <1>9 DEF Reset, Host
<1>10. ASSUME ListenersSettle PROVE PendingInv'
  BY <1>10 DEF ListenersSettle
<1>11. ASSUME FinishRun PROVE PendingInv'
  BY <1>11 DEF FinishRun
<1>12. ASSUME Fail PROVE PendingInv'
  BY <1>12 DEF Fail, Assistant, Aborted
<1>13. ASSUME FailEnd PROVE PendingInv'
  BY <1>13 DEF FailEnd, EmitMessageEnd, EmitAgentEnd
<1>14. ASSUME Begin PROVE PendingInv'
  BY <1>14 DEF Begin
<1>15. ASSUME EmitPrompts PROVE PendingInv'
  BY <1>15 DEF EmitPrompts, EmitShown, EmitMessageEnd
<1>16. ASSUME PollSteering PROVE PendingInv'
  BY <1>16 DEF PollSteering, Polling
<1>17. ASSUME PollFollowUp PROVE PendingInv'
  BY <1>17 DEF PollFollowUp, Polling
<1>18. ASSUME RaceAborted PROVE PendingInv'
  BY <1>18 DEF RaceAborted, Polling
<1>19. ASSUME PollSettles PROVE PendingInv'
  BY <1>19 DEF PollSettles
<1>20. ASSUME FirstTurn PROVE PendingInv'
  BY <1>20 DEF FirstTurn, StartTurn
<1>21. ASSUME Inject PROVE PendingInv'
  BY <1>21 DEF Inject, EmitShown, EmitMessageEnd
<1>22. ASSUME Request PROVE PendingInv'
  BY <1>22 DEF Request, Respond, Streaming, Asking, EmitShown, EmitMessageEnd, Assistant
<1>23. ASSUME NextEvent PROVE PendingInv'
  BY <1>23 DEF NextEvent
<1>24. ASSUME ProviderAborted PROVE PendingInv'
  BY <1>24 DEF ProviderAborted, Respond, Streaming, Asking, EmitShown, EmitMessageEnd, Assistant
<1>24a. ASSUME ListenersAbort PROVE PendingInv'
  BY <1>24a DEF ListenersAbort, Respond, Streaming, Asking, EmitShown, EmitMessageEnd, Assistant
<1>25. ASSUME ReplyEnd PROVE PendingInv'
  BY <1>25 DEF ReplyEnd, EmitMessageEnd
<1>26. ASSUME Turn PROVE PendingInv'
  BY <1>26 DEF Turn, EmitTurnEnd
<1>27. ASSUME Announce PROVE PendingInv'
  <2> USE <1>27 DEF Announce, Batch
  <2>1. Call \in CallIds /\ Call' = Call
    BY CallInBatch DEF BatchShape, BatchLabels, ReplySet
  <2> HIDE DEF Call
  <2>2. CASE UNCHANGED <<tools, pendingToolCalls>> /\ pc' = "batchDone"
    BY <2>2
  <2>3. CASE /\ tools' = [tools EXCEPT ![Call] = [NoTask EXCEPT !.status = "announced",
                                                             !.run = activeRun]]
             /\ pendingToolCalls' = pendingToolCalls \cup {Call}
    <3>1. \A c \in CallIds : c # Call => tools'[c] = tools[c]
      BY <2>3
    <3>2. tools'[Call].status = "announced" /\ tools'[Call].run = activeRun
      BY <2>1, <2>3 DEF NoTask
    <3> QED
      BY <2>1, <2>3, <3>1, <3>2
  <2> QED
    BY <2>2, <2>3
<1>28. ASSUME PrepareToolCall PROVE PendingInv'
  <2> USE <1>28 DEF PrepareToolCall, Batch, Allow, AnswerAtOnce
  <2>1. Call \in CallIds /\ Call' = Call
    BY CallInBatch DEF BatchShape, BatchLabels, ReplySet
  <2> HIDE DEF Call
  <2>2. \A c \in CallIds : c # Call => tools'[c] = tools[c]
    OBVIOUS
  <2>3. tools'[Call].run = tools[Call].run
    BY <2>1 DEF Tasks
  <2>4. \/ tools'[Call].status = "prepared" /\ pc' = "prepared" /\ UNCHANGED pendingToolCalls
        \/ tools'[Call].status = "done" /\ pc' = "prepared" /\ pendingToolCalls' = pendingToolCalls \ {Call}
        \/ UNCHANGED <<tools, pendingToolCalls>> /\ pc' = "prepare"
    BY <2>1 DEF Tasks
  <2> QED
    BY <2>1, <2>2, <2>3, <2>4
<1>29. ASSUME BeforeToolCallAborted PROVE PendingInv'
  BY <1>29 DEF BeforeToolCallAborted, Batch, AnswerAtOnce, Call
<1>30. ASSUME Prepared PROVE PendingInv'
  <2> USE <1>30 DEF Prepared, Batch, Launch
  <2>1. pc' # "prepare" /\ UNCHANGED <<runs, activeRun, pendingToolCalls, disturbed>>
    OBVIOUS
  <2>2. \A c \in CallIds : tools'[c].run = tools[c].run
    BY DEF Tasks
  <2>3. \A c \in CallIds : \/ tools'[c].status = tools[c].status
                           \/ /\ tools[c].status = "prepared"
                              /\ tools'[c].status \in {"executing", "refused"}
    BY DEF Tasks
  <2> HIDE <1>30 DEF Call, CallIds
  <2> QED
    BY <2>1, <2>2, <2>3
<1>31. ASSUME LaunchAll PROVE PendingInv'
  <2> USE <1>31 DEF LaunchAll, Batch, Launch
  <2>1. pc' # "prepare" /\ UNCHANGED <<runs, activeRun, pendingToolCalls, disturbed>>
    OBVIOUS
  <2>2. \A c \in CallIds : tools'[c].run = tools[c].run
    BY DEF Tasks
  <2>3. \A c \in CallIds : \/ tools'[c].status = tools[c].status
                           \/ /\ tools[c].status = "prepared"
                              /\ tools'[c].status \in {"executing", "refused"}
    BY DEF Tasks
  <2> HIDE <1>31 DEF Call, CallIds
  <2> QED
    BY <2>1, <2>2, <2>3
<1>32. ASSUME ToolsSettle PROVE PendingInv'
  BY <1>32 DEF ToolsSettle, Batch
<1>33. ASSUME EmitResult PROVE PendingInv'
  BY <1>33 DEF EmitResult, Batch, EmitShown, EmitMessageEnd, ToolResult
<1>34. ASSUME BatchDone PROVE PendingInv'
  BY <1>34 DEF BatchDone, EmitTurnEnd
<1>35. ASSUME AfterTurn PROVE PendingInv'
  BY <1>35 DEF AfterTurn
<1>36. ASSUME PolledSteering PROVE PendingInv'
  BY <1>36 DEF PolledSteering, StartTurn
<1>37. ASSUME PolledFollowUp PROVE PendingInv'
  BY <1>37 DEF PolledFollowUp, StartTurn
<1>38. ASSUME Continued PROVE PendingInv'
  BY <1>38 DEF Continued, StartTurn
<1>39. ASSUME End PROVE PendingInv'
  BY <1>39 DEF End, EmitAgentEnd
<1>40. ASSUME ListenersThrow PROVE PendingInv'
  BY <1>40 DEF ListenersThrow
<1>41. ASSUME ProviderStarts PROVE PendingInv'
  BY <1>41 DEF ProviderStarts, Streaming, Asking, EmitShown
<1>42. ASSUME ProviderUpdates PROVE PendingInv'
  BY <1>42 DEF ProviderUpdates, Streaming, Asking, EmitShown
<1>43. ASSUME ProviderThrows PROVE PendingInv'
  BY <1>43 DEF ProviderThrows
<1>44. ASSUME NEW k \in 0..MaxCalls, NEW stop \in {"stop", "error"}, ProviderDone(k, stop)
     PROVE PendingInv'
  BY <1>44 DEF ProviderDone, Respond, Streaming, Asking, EmitShown, EmitMessageEnd, Assistant
<1>45. ASSUME BeforeToolCallSettles PROVE PendingInv'
  <2> USE <1>45 DEF BeforeToolCallSettles, Batch, Allow, AnswerAtOnce
  <2>1. Call \in CallIds /\ Call' = Call
    BY CallInBatch DEF BatchShape, BatchLabels, ReplySet
  <2> HIDE DEF Call
  <2>2. \A c \in CallIds : c # Call => tools'[c] = tools[c]
    OBVIOUS
  <2>3. tools'[Call].run = tools[Call].run
    BY <2>1 DEF Tasks
  <2>4. \/ tools'[Call].status = "prepared" /\ pc' = "prepared" /\ UNCHANGED pendingToolCalls
        \/ tools'[Call].status = "done" /\ pc' = "prepared" /\ pendingToolCalls' = pendingToolCalls \ {Call}
        \/ UNCHANGED <<tools, pendingToolCalls>> /\ pc' = "prepare"
    BY <2>1 DEF Tasks
  <2> QED
    BY <2>1, <2>2, <2>3, <2>4
<1>46. ASSUME StopHookSettles PROVE PendingInv'
  BY <1>46 DEF StopHookSettles
<1>47. ASSUME ContinuationSettles PROVE PendingInv'
  BY <1>47 DEF ContinuationSettles
<1>48. ASSUME NEW c \in CallIds, ToolEnds(c) PROVE PendingInv'
  <2> USE <1>48 DEF ToolEnds, EndTask, Batch
  <2>1. UNCHANGED <<pc, turn, idx, runs, activeRun, disturbed>> /\ pendingToolCalls' = pendingToolCalls \ {c}
    OBVIOUS
  <2>2. \A d \in CallIds : d # c => tools'[d] = tools[d]
    OBVIOUS
  <2>3. tools'[c].run = tools[c].run /\ tools'[c].status \in {"ending", "broken"}
    BY DEF Tasks
  <2>4. tools[c].status \in {"executing", "refused"}
    OBVIOUS
  <2>5. pc = "prepare" => Call \in CallIds /\ Call' = Call
    BY <2>1, CallInBatch DEF BatchShape, BatchLabels, ReplySet
  <2> HIDE <1>48 DEF Call
  <2> QED
    BY <2>1, <2>2, <2>3, <2>4, <2>5
<1>49. ASSUME NEW c \in CallIds, ToolEndThrows(c) PROVE PendingInv'
  BY <1>49 DEF ToolEndThrows, Batch
<1>50. ASSUME NEW c \in CallIds, ToolAborted(c) PROVE PendingInv'
  <2> USE <1>50 DEF ToolAborted, EndTask, Batch
  <2>1. UNCHANGED <<pc, turn, idx, runs, activeRun, disturbed>> /\ pendingToolCalls' = pendingToolCalls \ {c}
    OBVIOUS
  <2>2. \A d \in CallIds : d # c => tools'[d] = tools[d]
    OBVIOUS
  <2>3. tools'[c].run = tools[c].run /\ tools'[c].status \in {"ending", "broken"}
    BY DEF Tasks
  <2>4. tools[c].status \in {"executing", "refused"}
    OBVIOUS
  <2>5. pc = "prepare" => Call \in CallIds /\ Call' = Call
    BY <2>1, CallInBatch DEF BatchShape, BatchLabels, ReplySet
  <2> HIDE <1>50 DEF Call
  <2> QED
    BY <2>1, <2>2, <2>3, <2>4, <2>5
<1>51. ASSUME NEW c \in CallIds, ToolEndSettles(c) PROVE PendingInv'
  BY <1>51 DEF ToolEndSettles, Batch
<1>52. CASE UNCHANGED vars
  BY <1>52 DEF vars
<1> HIDE DEF PendingInv, PendingOfRun, PendingMatchesTasks, Call, EventTypes
<1> HIDE DEF IInv, TypeOK, ControlOK, RunsOK, BatchOK, WaitMatchesLabel, RunShape
<1> HIDE DEF agentState, queues, runVars, control, locals, batchVars, history, Emit, Await, Goto, At
<1> QED
  BY <1>1, <1>2, <1>3, <1>4, <1>5, <1>6, <1>7, <1>8, <1>9, <1>10, <1>11, <1>12, <1>13, <1>14,
       <1>15, <1>16, <1>17, <1>18, <1>19, <1>20, <1>21, <1>22, <1>23, <1>24, <1>24a, <1>25, <1>26, <1>27,
       <1>28, <1>29, <1>30, <1>31, <1>32, <1>33, <1>34, <1>35, <1>36, <1>37, <1>38, <1>39, <1>40,
       <1>41, <1>42, <1>43, <1>44, <1>45, <1>46, <1>47, <1>48, <1>49, <1>50, <1>51, <1>52
  DEF Next, HostCall, LoopStep, External, TaskStep

\* processEvents adds a call to state.pendingToolCalls when it is announced and takes
\* it out when it ends, whichever task ends first and whatever aborts or fails, so
\* the set is exactly the unfinished calls of the active run and empty when idle.
THEOREM PendingIsTasks == Spec => []PendingMatchesTasks
<1>1. PendingInv => PendingMatchesTasks
  BY DEF PendingInv, PendingOfRun
<1> QED
  BY <1>1, InitPendingInv, StepPendingInv, PTL DEF Spec

-----------------------------------------------------------------------------
(* Sequences: induction on their length, and what the operators of the model return *)

\* Induction over the natural numbers, as a fact about sets: the smallest initial
\* segment that leaves S would have a smaller one.
LEMMA NatSetInduction ==
  ASSUME NEW S, 0 \in S, \A n \in Nat : n \in S => n + 1 \in S
  PROVE  Nat \subseteq S
<1> SUFFICES ASSUME NEW k \in Nat, k \notin S PROVE FALSE
  OBVIOUS
<1> DEFINE R == StrictSubsetOrdering(Nat)
           F == {X \in FiniteSubsetsOf(Nat) : \E n \in Nat : X = 0..n /\ n \notin S}
<1>1. IsWellFoundedOn(R, FiniteSubsetsOf(Nat))
  BY FS_StrictSubsetOrderingWellFounded
<1>2. \A n \in Nat : 0..n \in FiniteSubsetsOf(Nat)
  BY FS_Interval DEF FiniteSubsetsOf
<1>3. 0..k \in F
  BY <1>2
<1>4. PICK X \in F : \A Y \in F : <<Y, X>> \notin R
  <2> HIDE DEF R
  <2>1. F # {} /\ F \subseteq FiniteSubsetsOf(Nat)
    BY <1>3
  <2> HIDE DEF F
  <2> QED
    BY <1>1, <2>1, WFMin
<1>5. PICK n \in Nat : X = 0..n /\ n \notin S
  OBVIOUS
<1>6. n # 0 /\ n - 1 \in Nat /\ n - 1 \notin S
  BY <1>5
<1>7. 0..(n - 1) \in F
  BY <1>2, <1>6
<1>8. <<0..(n - 1), X>> \in R
  <2>1. 0..(n - 1) \subseteq X /\ n \in X /\ n \notin 0..(n - 1)
    BY <1>5
  <2>2. X \in SUBSET Nat /\ 0..(n - 1) \in SUBSET Nat
    BY <1>5
  <2> QED
    BY <2>1, <2>2, <1>2, <1>5, <1>6 DEF StrictSubsetOrdering, FiniteSubsetsOf
<1> QED BY <1>4, <1>7, <1>8

\* FlattenSeq (drain in "all" mode, removeWhere) is the last of the partial
\* concatenations of the sequence, by induction on their number.
LEMMA FlattenBy ==
  ASSUME NEW S, NEW q \in Seq(Seq(S)), Len(q) > 0
  PROVE  \E f \in [1..Len(q) -> Seq(S)] :
           /\ f[1] = q[1]
           /\ \A i \in 2..Len(q) : f[i] = f[i - 1] \o q[i]
           /\ FlattenSeq(q) = f[Len(q)]
<1> DEFINE Joins(g, n) == /\ g \in [1..n -> Seq(S)]
                          /\ \A i \in 1..n : g[i] = IF i = 1 THEN q[i] ELSE g[i - 1] \o q[i]
           N == {n \in Nat : n > Len(q) \/ \E g : Joins(g, n)}
<1>0. Len(q) \in Nat /\ \A i \in 1..Len(q) : q[i] \in Seq(S)
  OBVIOUS
<1>1. \E g : Joins(g, 0)
  <2>1. Joins([i \in 1..0 |-> q[1]], 0)
    OBVIOUS
  <2> HIDE DEF Joins
  <2> QED
    BY <2>1
<1>2. ASSUME NEW n \in Nat, n + 1 <= Len(q), NEW g, Joins(g, n)
      PROVE  \E h : Joins(h, n + 1)
  <2> DEFINE h == [i \in 1..(n + 1) |->
                     IF i = n + 1 THEN IF i = 1 THEN q[i] ELSE g[i - 1] \o q[i] ELSE g[i]]
  <2>1. \A i \in 1..n : h[i] = g[i] /\ g[i] \in Seq(S)
    <3>1. g \in [1..n -> Seq(S)]
      BY <1>2
    <3>2. \A i \in 1..n : g[i] \in Seq(S)
      BY <3>1
    <3> QED
      BY <3>2
  <2>2. h[n + 1] = IF n + 1 = 1 THEN q[n + 1] ELSE h[n] \o q[n + 1]
    BY <1>0
  <2>3. h[n + 1] \in Seq(S)
    BY <1>0, <1>2, <2>1, <2>2
  <2>4. h \in [1..(n + 1) -> Seq(S)]
    <3>1. \A i \in 1..(n + 1) : h[i] \in Seq(S)
      <4>1. \A i \in 1..(n + 1) : i = n + 1 \/ i \in 1..n
        OBVIOUS
      <4> HIDE DEF h
      <4> QED
        BY <4>1, <2>1, <2>3
    <3>2. h = [i \in 1..(n + 1) |-> h[i]]
      OBVIOUS
    <3> HIDE DEF h
    <3> QED BY <3>1, <3>2
  <2>5. \A i \in 1..n : i # 1 => h[i - 1] = g[i - 1]
    OBVIOUS
  <2> HIDE DEF h
  <2>6. \A i \in 1..(n + 1) : h[i] = IF i = 1 THEN q[i] ELSE h[i - 1] \o q[i]
    <3> SUFFICES ASSUME NEW i \in 1..(n + 1) PROVE h[i] = IF i = 1 THEN q[i] ELSE h[i - 1] \o q[i]
      OBVIOUS
    <3>1. CASE i = n + 1
      BY <2>2, <3>1
    <3>2. CASE i \in 1..n
      BY <2>1, <2>5, <3>2, <1>2
    <3> QED
      BY <3>1, <3>2
  <2>7. Joins(h, n + 1)
    BY <2>4, <2>6
  <2> HIDE DEF Joins
  <2> QED
    BY <2>7
<1> HIDE DEF Joins
<1>3. Nat \subseteq N
  <2>1. 0 \in N
    BY <1>1
  <2>2. ASSUME NEW n \in Nat, n \in N PROVE n + 1 \in N
    BY <1>0, <1>2, <2>2
  <2> HIDE DEF N
  <2> QED
    BY <2>1, <2>2, NatSetInduction
<1>4. PICK g : Joins(g, Len(q))
  BY <1>0, <1>3
<1>5. g = [i \in 1..Len(q) |-> IF i = 1 THEN q[i] ELSE g[i - 1] \o q[i]]
  BY <1>4 DEF Joins
<1> DEFINE f == CHOOSE f : f = [i \in 1..Len(q) |-> IF i = 1 THEN q[i] ELSE f[i - 1] \o q[i]]
<1>6. FlattenSeq(q) = f[Len(q)]
  BY DEF FlattenSeq
<1>7. f = [i \in 1..Len(q) |-> IF i = 1 THEN q[i] ELSE f[i - 1] \o q[i]]
  BY <1>5
<1> HIDE DEF f
<1>8. PICK F : F = f
  OBVIOUS
<1>9. \A n \in 1..Len(q) : F[n] = g[n]
  <2> DEFINE M == {n \in Nat : n \in 1..Len(q) => F[n] = g[n]}
  <2>1. 0 \in M
    OBVIOUS
  <2>2. ASSUME NEW n \in Nat, n \in M PROVE n + 1 \in M
    <3> SUFFICES ASSUME n + 1 \in 1..Len(q) PROVE F[n + 1] = g[n + 1]
      OBVIOUS
    <3>1. F[n + 1] = IF n + 1 = 1 THEN q[n + 1] ELSE F[n] \o q[n + 1]
      <4>1. \A i \in 1..Len(q) : F[i] = IF i = 1 THEN q[i] ELSE F[i - 1] \o q[i]
        BY <1>7, <1>8
      <4>2. (n + 1) - 1 = n
        OBVIOUS
      <4> QED
        BY <4>1, <4>2
    <3>2. g[n + 1] = IF n + 1 = 1 THEN q[n + 1] ELSE g[n] \o q[n + 1]
      <4>1. \A i \in 1..Len(q) : g[i] = IF i = 1 THEN q[i] ELSE g[i - 1] \o q[i]
        BY <1>4 DEF Joins
      <4>2. (n + 1) - 1 = n
        OBVIOUS
      <4> QED
        BY <4>1, <4>2
    <3>3. n # 0 => F[n] = g[n]
      BY <2>2, <1>0
    <3> QED
      BY <3>1, <3>2, <3>3
  <2>3. Nat \subseteq M
    <3> HIDE DEF M
    <3> QED
      BY <2>1, <2>2, NatSetInduction
  <2> QED
    BY <2>3, <1>0
<1>10. FlattenSeq(q) = g[Len(q)]
  BY <1>0, <1>6, <1>8, <1>9
<1>11. g \in [1..Len(q) -> Seq(S)]
  BY <1>4 DEF Joins
<1>12. g[1] = q[1] /\ \A i \in 2..Len(q) : g[i] = g[i - 1] \o q[i]
  <2>1. \A i \in 1..Len(q) : g[i] = IF i = 1 THEN q[i] ELSE g[i - 1] \o q[i]
    BY <1>4 DEF Joins
  <2>2. 1 \in 1..Len(q) /\ \A i \in 2..Len(q) : i \in 1..Len(q) /\ i # 1
    BY <1>0
  <2> QED
    BY <2>1, <2>2
<1> QED
  BY <1>10, <1>11, <1>12

-----------------------------------------------------------------------------
(* The lists of the agent have their types                                 *)

\* A flattened sequence of sequences over S is a sequence over S.
LEMMA FlattenType ==
  ASSUME NEW S, NEW q \in Seq(Seq(S))
  PROVE  FlattenSeq(q) \in Seq(S)
<1>1. CASE Len(q) = 0
  <2>1. q = <<>>
    BY <1>1
  <2> QED
    BY <2>1 DEF FlattenSeq
<1>2. CASE Len(q) > 0
  <2>1. PICK f \in [1..Len(q) -> Seq(S)] : FlattenSeq(q) = f[Len(q)]
    BY <1>2, FlattenBy
  <2>2. Len(q) \in 1..Len(q)
    BY <1>2
  <2>3. f[Len(q)] \in Seq(S)
    BY <2>2
  <2> QED
    BY <2>1, <2>3
<1> QED
  <2>1. Len(q) \in Nat
    OBVIOUS
  <2> QED
    BY <2>1, <1>1, <1>2

\* A batch becomes as many host messages.
LEMMA AsMessagesType ==
  ASSUME NEW b \in Seq(HostIds)
  PROVE  AsMessages(b) \in Seq(HostMessages) /\ Len(AsMessages(b)) = Len(b)
<1>1. DOMAIN b = 1..Len(b) /\ Len(b) \in Nat
  OBVIOUS
<1>2. \A i \in 1..Len(b) : HostMessage(b[i]) \in HostMessages
  BY DEF HostMessages
<1>3. AsMessages(b) = [i \in 1..Len(b) |-> HostMessage(b[i])]
  BY <1>1 DEF AsMessages
<1> HIDE DEF HostMessages
<1> QED
  BY <1>1, <1>2, <1>3

\* Draining or filtering a queue gives a batch and a queue.
LEMMA QueueTypes ==
  ASSUME NEW q \in Seq(Seq(HostIds)), NEW m
  PROVE  Drained(q, m) \in Seq(HostIds) /\ Rest(q, m) \in Seq(Seq(HostIds))
         /\ Without(q, m) \in Seq(Seq(HostIds))
<1>1. Drained(q, m) \in Seq(HostIds)
  BY FlattenType DEF Drained
<1>2. Rest(q, m) \in Seq(Seq(HostIds))
  BY DEF Rest
<1>3. Without(q, m) \in Seq(Seq(HostIds))
  <2> DEFINE f == [i \in DOMAIN q |-> IF m \in ToSet(q[i]) THEN <<>> ELSE <<q[i]>>]
  <2>1. \A i \in 1..Len(q) : f[i] \in Seq(Seq(HostIds))
    OBVIOUS
  <2>2. DOMAIN f = 1..Len(q) /\ Len(q) \in Nat
    OBVIOUS
  <2>3. f = [i \in 1..Len(q) |-> f[i]]
    BY <2>2
  <2>4. Without(q, m) = FlattenSeq(f)
    BY DEF Without
  <2> HIDE DEF f
  <2>5. f \in Seq(Seq(Seq(HostIds)))
    BY <2>1, <2>2, <2>3
  <2> QED
    BY <2>4, <2>5, FlattenType
<1> QED
  BY <1>1, <1>2, <1>3

\* A sequence over a set is one over every larger set.
LEMMA SeqOfSubset == \A S, T : S \subseteq T => \A s \in Seq(S) : s \in Seq(T)
<1> SUFFICES ASSUME NEW S, NEW T, S \subseteq T, NEW s \in Seq(S) PROVE s \in Seq(T)
  OBVIOUS
<1>1. Len(s) \in Nat /\ DOMAIN s = 1..Len(s) /\ \A i \in 1..Len(s) : s[i] \in S
  OBVIOUS
<1>2. s = [i \in 1..Len(s) |-> s[i]]
  OBVIOUS
<1>3. \A i \in 1..Len(s) : s[i] \in T
  BY <1>1
<1> QED
  BY <1>1, <1>2, <1>3

\* The empty sequence, and the type of Append.
LEMMA SeqFacts ==
  /\ \A S : <<>> \in Seq(S)
  /\ \A S : \A q \in Seq(S), x \in S : Append(q, x) \in Seq(S) /\ Append(q, x) # <<>>
<1>1. ASSUME NEW S PROVE <<>> \in Seq(S)
  OBVIOUS
<1>2. ASSUME NEW S, NEW q \in Seq(S), NEW x \in S PROVE Append(q, x) \in Seq(S)
  OBVIOUS
<1>3. ASSUME NEW S, NEW q \in Seq(S), NEW x \in S PROVE Append(q, x) # <<>>
  <2>1. Len(Append(q, x)) = Len(q) + 1 /\ Len(q) \in Nat
    OBVIOUS
  <2>2. Len(<<>>) = 0
    OBVIOUS
  <2> QED
    BY <2>1, <2>2
<1> QED
  BY <1>1, <1>2, <1>3

\* Host messages, responses and results are messages.
LEMMA MessageKinds ==
  /\ HostMessages \subseteq Messages /\ ReplySet \subseteq Messages /\ ResultMessages \subseteq Messages
  /\ turn \in Nat => Partial \in Messages
  /\ \A c \in CallIds : ToolResult(c) \in ResultMessages
<1>1. HostMessages \subseteq Messages /\ ResultMessages \subseteq Messages
  BY DEF Messages
<1>2. ReplySet \subseteq Messages
  BY DEF Messages, ResponseMessages, ReplySet
<1>3. ASSUME turn \in Nat PROVE Partial \in ResponseMessages
  BY <1>3, BoundsAssumption DEF ResponseMessages, Partial, Assistant
<1>4. \A c \in CallIds : ToolResult(c) \in ResultMessages
  BY DEF ResultMessages, ToolResult
<1> QED
  BY <1>1, <1>2, <1>3, <1>4 DEF Messages

\* The context with the complete response in place of the partial one is not empty.
LEMMA WithReplyType ==
  ASSUME context \in Seq(Messages), addedPartial => context # <<>>, NEW m \in Messages
  PROVE  WithReply(m) \in Seq(Messages) /\ WithReply(m) # <<>>
<1>1. CASE addedPartial
  <2>1. Len(context) \in 1..Len(context)
    BY <1>1
  <2>2. ReplaceAt(context, Len(context), m) \in Seq(Messages)
    BY <2>1 DEF ReplaceAt
  <2>3. Len(ReplaceAt(context, Len(context), m)) = Len(context)
    BY <2>1 DEF ReplaceAt
  <2>4. Len(context) # 0 /\ Len(<<>>) = 0
    BY <2>1
  <2>5. ReplaceAt(context, Len(context), m) # <<>>
    BY ONLY <2>3, <2>4
  <2> QED
    BY <1>1, <2>2, <2>5 DEF WithReply
<1>2. CASE ~addedPartial
  BY <1>2, SeqFacts DEF WithReply
<1> QED
  BY <1>1, <1>2

\* ListInv holds of a new Agent.
LEMMA InitListInv == Init => ListInv
<1> SUFFICES ASSUME Init PROVE ListInv
  OBVIOUS
<1>1. IInv
  BY InitIInv
<1>2. QueuesOK /\ ListsOK /\ CopiesOK
  BY DEF Init, QueuesOK, ListsOK, CopiesOK
<1>3. LabelsOK
  BY DEF Init, LabelsOK, InLoop
<1> QED
  BY <1>1, <1>2, <1>3 DEF ListInv, DataInv

\* Every step keeps the types of the lists, and the labels of non-empty lists.
LEMMA StepData == ASSUME ListInv, [Next]_vars PROVE DataInv'
<1>a. /\ turn \in Nat /\ WaitMatchesLabel
      /\ pc \in {"replyEnd", "turn"} => reply \in ReplySet
      /\ reply \in ReplySet \cup {NoMessage}
      /\ pc \in {"resultEnd", "resulted"} => Call \in CallIds
  BY BoundsAssumption, CallInBatch
  DEF ListInv, IInv, TypeOK, BatchOK, BatchShape, BatchLabels, ReplySet
<1>b. QueuesOK /\ ListsOK /\ CopiesOK /\ LabelsOK
  BY DEF ListInv, DataInv
<1>e. /\ \A S : <<>> \in Seq(S)
      /\ \A S : \A q \in Seq(S), x \in S : Append(q, x) \in Seq(S) /\ Append(q, x) # <<>>
  BY SeqFacts
<1> USE <1>a, <1>b, <1>e DEF DataInv, QueuesOK, ListsOK, CopiesOK, LabelsOK, EventTypes, InLoop,
     Failing
<1> USE DEF WaitMatchesLabel
<1> USE DEF agentState, queues, runVars, control, locals, batchVars, history, Emit, Await, Goto, At
<1>1. ASSUME NEW b \in Batches, Prompt(b) PROVE DataInv'
  <2> USE <1>1 DEF Prompt, StartRun
  <2>c. b \in Seq(HostIds)
    BY BatchesAssumption DEF HostIds
  <2>d. newMessages' \in Seq(HostMessages) /\ prompts' = newMessages' /\ context' = messages \o newMessages'
    BY <2>c, AsMessagesType
  <2>e. newMessages' \in Seq(Messages)
    BY <2>d, SeqOfSubset, MessageKinds
  <2>1. QueuesOK'
    OBVIOUS
  <2>2. ListsOK'
    BY <2>d
  <2>3. CopiesOK'
    BY <2>d, <2>e
  <2>4. LabelsOK'
    OBVIOUS
  <2> QED
    BY <2>1, <2>2, <2>3, <2>4
<1>2. ASSUME Continue PROVE DataInv'
  <2> USE <1>2 DEF Continue
  <2>1. PICK ms \in Seq(HostIds), skip \in BOOLEAN : StartRun(AsMessages(ms), skip)
    <3>1. CASE StartRun(AsMessages(Drained(steeringQueue, mode.steering)), TRUE)
      BY <3>1, QueueTypes
    <3>2. CASE StartRun(AsMessages(Drained(followUpQueue, mode.followUp)), FALSE)
      BY <3>2, QueueTypes
    <3>3. CASE StartRun(<<>>, FALSE)
      <4>1. AsMessages(<<>>) = <<>>
        BY DEF AsMessages
      <4>2. <<>> \in Seq(HostIds)
          OBVIOUS
      <4> QED
        BY <3>3, <4>1, <4>2
    <3> QED
      BY <3>1, <3>2, <3>3
  <2>2. QueuesOK'
    BY QueueTypes
  <2>3. newMessages' \in Seq(HostMessages) /\ prompts' = newMessages' /\ context' = messages \o newMessages'
    BY <2>1, AsMessagesType DEF StartRun
  <2>4. newMessages' \in Seq(Messages)
    BY <2>3, SeqOfSubset, MessageKinds
  <2>5. ListsOK'
    BY <2>1, <2>3 DEF StartRun
  <2>6. CopiesOK'
    BY <2>1, <2>3, <2>4 DEF StartRun
  <2>7. LabelsOK'
    BY <2>1 DEF StartRun
  <2> QED
    BY <2>2, <2>5, <2>6, <2>7
<1>3. ASSUME NEW b \in Batches, Steer(b) PROVE DataInv'
  <2> USE <1>3 DEF Steer, Host
  <2>c. b \in Seq(HostIds)
    BY BatchesAssumption DEF HostIds
  <2>1. QueuesOK'
    BY <2>c
  <2>2. ListsOK'
    OBVIOUS
  <2>3. CopiesOK'
    OBVIOUS
  <2>4. LabelsOK'
    OBVIOUS
  <2> QED
    BY <2>1, <2>2, <2>3, <2>4
<1>4. ASSUME NEW b \in Batches, FollowUp(b) PROVE DataInv'
  <2> USE <1>4 DEF FollowUp, Host
  <2>c. b \in Seq(HostIds)
    BY BatchesAssumption DEF HostIds
  <2>1. QueuesOK'
    BY <2>c
  <2>2. ListsOK'
    OBVIOUS
  <2>3. CopiesOK'
    OBVIOUS
  <2>4. LabelsOK'
    OBVIOUS
  <2> QED
    BY <2>1, <2>2, <2>3, <2>4
<1>5. ASSUME ClearQueues PROVE DataInv'
  <2> USE <1>5 DEF ClearQueues, Host
  <2>c. steeringQueue' \in {<<>>, steeringQueue} /\ followUpQueue' \in {<<>>, followUpQueue}
    OBVIOUS
  <2>1. QueuesOK'
    BY ONLY <2>c, <1>b, <1>e DEF QueuesOK
  <2>2. ListsOK'
    OBVIOUS
  <2>3. CopiesOK'
    OBVIOUS
  <2>4. LabelsOK'
    OBVIOUS
  <2> QED
    BY <2>1, <2>2, <2>3, <2>4
<1>6. ASSUME NEW m, RemoveQueuedMessages(m) PROVE DataInv'
  <2> USE <1>6 DEF RemoveQueuedMessages, Host
  <2>1. QueuesOK'
    BY QueueTypes
  <2>2. ListsOK'
    OBVIOUS
  <2>3. CopiesOK'
    OBVIOUS
  <2>4. LabelsOK'
    OBVIOUS
  <2> QED
    BY <2>1, <2>2, <2>3, <2>4
<1>7. ASSUME NEW q \in {"steering", "followUp"}, NEW m \in QueueModes, SetMode(q, m) PROVE DataInv'
  BY <1>7 DEF SetMode, Host
<1>8. ASSUME Abort PROVE DataInv'
  BY <1>8 DEF Abort, Host
<1>9. ASSUME Reset PROVE DataInv'
  BY <1>9 DEF Reset, Host
<1>10. ASSUME ListenersSettle PROVE DataInv'
  BY <1>10 DEF ListenersSettle
<1>11. ASSUME FinishRun PROVE DataInv'
  BY <1>11 DEF FinishRun
<1>12. ASSUME Fail PROVE DataInv'
  <2> USE <1>12 DEF Fail, Assistant, Aborted
  <2>1. QueuesOK'
    OBVIOUS
  <2>2. ListsOK'
    OBVIOUS
  <2>3. CopiesOK'
    OBVIOUS
  <2>4. LabelsOK'
    BY BoundsAssumption DEF ReplySet
  <2> QED
    BY <2>1, <2>2, <2>3, <2>4
<1>13. ASSUME FailEnd PROVE DataInv'
  <2> USE <1>13 DEF FailEnd, EmitMessageEnd, EmitAgentEnd
  <2>c. pc = "failEnd" => reply \in Messages
    BY MessageKinds
  <2>s. /\ (messages' = messages \/ (reply \in Messages /\ messages' = Append(messages, reply)))
        /\ UNCHANGED <<context, newMessages, toolResults, base>>
    BY <2>c
  <2>1. QueuesOK'
    OBVIOUS
  <2>2. ListsOK'
    OBVIOUS
  <2>3. CopiesOK'
    BY ONLY <1>b, <1>e, <2>s DEF CopiesOK
  <2>4. LabelsOK'
    OBVIOUS
  <2> QED
    BY <2>1, <2>2, <2>3, <2>4
<1>14. ASSUME Begin PROVE DataInv'
  BY <1>14 DEF Begin
<1>15. ASSUME EmitPrompts PROVE DataInv'
  <2> USE <1>15 DEF EmitPrompts, EmitShown, EmitMessageEnd
  <2>c. pc = "promptEnd" => Head(prompts) \in HostMessages /\ Tail(prompts) \in Seq(HostMessages)
    OBVIOUS
  <2>s. /\ (messages' = messages \/ (Head(prompts) \in Messages /\ messages' = Append(messages, Head(prompts))))
        /\ UNCHANGED <<context, newMessages, toolResults, base>>
    BY <2>c, MessageKinds
  <2>1. QueuesOK'
    OBVIOUS
  <2>2. ListsOK'
    BY <2>c
  <2>3. CopiesOK'
    BY ONLY <1>b, <1>e, <2>s DEF CopiesOK
  <2>4. LabelsOK'
    OBVIOUS
  <2> QED
    BY <2>1, <2>2, <2>3, <2>4
<1>16. ASSUME PollSteering PROVE DataInv'
  <2> USE <1>16 DEF PollSteering, Polling
  <2>c. \A m : \A q \in Seq(Seq(HostIds)) : AsMessages(Drained(q, m)) \in Seq(HostMessages)
    BY QueueTypes, AsMessagesType
  <2>s. /\ UNCHANGED <<prompts, pendingMessages>>
        /\ (polled' = <<>> \/ polled' \in Seq(HostMessages))
    BY <2>c
  <2>1. QueuesOK'
    BY QueueTypes
  <2>2. ListsOK'
    BY ONLY <1>b, <1>e, <2>s DEF ListsOK
  <2>3. CopiesOK'
    OBVIOUS
  <2>4. LabelsOK'
    OBVIOUS
  <2> QED
    BY <2>1, <2>2, <2>3, <2>4
<1>17. ASSUME PollFollowUp PROVE DataInv'
  <2> USE <1>17 DEF PollFollowUp, Polling
  <2>c. \A m : \A q \in Seq(Seq(HostIds)) : AsMessages(Drained(q, m)) \in Seq(HostMessages)
    BY QueueTypes, AsMessagesType
  <2>s. /\ UNCHANGED <<prompts, pendingMessages>>
        /\ (polled' = <<>> \/ polled' \in Seq(HostMessages))
    BY <2>c
  <2>1. QueuesOK'
    BY QueueTypes
  <2>2. ListsOK'
    BY ONLY <1>b, <1>e, <2>s DEF ListsOK
  <2>3. CopiesOK'
    OBVIOUS
  <2>4. LabelsOK'
    OBVIOUS
  <2> QED
    BY <2>1, <2>2, <2>3, <2>4
<1>18. ASSUME RaceAborted PROVE DataInv'
  BY <1>18 DEF RaceAborted, Polling
<1>19. ASSUME PollSettles PROVE DataInv'
  BY <1>19 DEF PollSettles
<1>20. ASSUME FirstTurn PROVE DataInv'
  BY <1>20 DEF FirstTurn, StartTurn
<1>21. ASSUME Inject PROVE DataInv'
  <2> USE <1>21 DEF Inject, EmitShown, EmitMessageEnd
  <2>c. pc \in {"injectEnd", "injected"} => /\ Head(pendingMessages) \in HostMessages
                                             /\ Tail(pendingMessages) \in Seq(HostMessages)
    OBVIOUS
  <2>d. pc \in {"injectEnd", "injected"} => Head(pendingMessages) \in Messages
    BY <2>c, MessageKinds
  <2>s. /\ \/ messages' = messages
           \/ Head(pendingMessages) \in Messages /\ messages' = Append(messages, Head(pendingMessages))
        /\ \/ UNCHANGED <<context, newMessages>>
           \/ /\ Head(pendingMessages) \in Messages
              /\ context' = Append(context, Head(pendingMessages))
              /\ newMessages' = Append(newMessages, Head(pendingMessages))
        /\ UNCHANGED <<toolResults, base>>
    BY <2>d
  <2>1. QueuesOK'
    OBVIOUS
  <2>2. ListsOK'
    BY <2>c
  <2>3. CopiesOK'
    BY ONLY <1>b, <1>e, <2>s DEF CopiesOK
  <2>4. LabelsOK'
    OBVIOUS
  <2> QED
    BY <2>1, <2>2, <2>3, <2>4
<1>22. ASSUME Request PROVE DataInv'
  <2> USE <1>22 DEF Request, Respond, Streaming, Asking, EmitShown, EmitMessageEnd, Assistant
  <2>c. Assistant(0, 0, "aborted") \in ReplySet
    BY BoundsAssumption DEF ReplySet
  <2>d. Assistant(0, 0, "aborted") \in Messages
    BY <2>c, MessageKinds
  <2>e. WithReply(Assistant(0, 0, "aborted")) \in Seq(Messages)
    BY <2>d, WithReplyType
  <2>s. /\ (messages' = messages \/ (Assistant(0, 0, "aborted") \in Messages /\ messages' = Append(messages, Assistant(0, 0, "aborted"))))
        /\ (context' = context \/ context' \in Seq(Messages))
        /\ UNCHANGED <<newMessages, toolResults, base>>
    BY <2>d, <2>e
  <2>1. QueuesOK'
    OBVIOUS
  <2>2. ListsOK'
    OBVIOUS
  <2>3. CopiesOK'
    BY ONLY <1>b, <1>e, <2>s DEF CopiesOK
  <2>4. LabelsOK'
    BY <2>c
  <2> QED
    BY <2>1, <2>2, <2>3, <2>4
<1>23. ASSUME NextEvent PROVE DataInv'
  BY <1>23 DEF NextEvent
<1>24. ASSUME ProviderAborted PROVE DataInv'
  <2> USE <1>24 DEF ProviderAborted, Respond, Streaming, Asking, EmitShown, EmitMessageEnd, Assistant
  <2>c. Assistant(0, 0, "aborted") \in ReplySet
    BY BoundsAssumption DEF ReplySet
  <2>d. Assistant(0, 0, "aborted") \in Messages
    BY <2>c, MessageKinds
  <2>e. WithReply(Assistant(0, 0, "aborted")) \in Seq(Messages) /\ WithReply(Assistant(0, 0, "aborted")) # <<>>
    BY <2>d, WithReplyType
  <2>s. /\ (messages' = messages \/ (Assistant(0, 0, "aborted") \in Messages /\ messages' = Append(messages, Assistant(0, 0, "aborted"))))
        /\ (context' = context \/ context' \in Seq(Messages))
        /\ UNCHANGED <<newMessages, toolResults, base>>
    BY <2>d, <2>e
  <2>1. QueuesOK'
    OBVIOUS
  <2>2. ListsOK'
    OBVIOUS
  <2>3. CopiesOK'
    BY ONLY <1>b, <1>e, <2>s DEF CopiesOK
  <2>f. pc = "stream" /\ superseded = "none" /\ superseded' = "none"
    OBVIOUS
  <2>4. LabelsOK'
    BY <2>c, <2>e, <2>f
  <2> QED
    BY <2>1, <2>2, <2>3, <2>4
<1>24a. ASSUME ListenersAbort PROVE DataInv'
  <2> USE <1>24a DEF ListenersAbort, Respond, Streaming, Asking, EmitShown, EmitMessageEnd, Assistant
  <2>c. Assistant(0, 0, "aborted") \in ReplySet
    BY BoundsAssumption DEF ReplySet
  <2>d. Assistant(0, 0, "aborted") \in Messages
    BY <2>c, MessageKinds
  <2>e. WithReply(Assistant(0, 0, "aborted")) \in Seq(Messages) /\ WithReply(Assistant(0, 0, "aborted")) # <<>>
    BY <2>d, WithReplyType
  <2>s. /\ (messages' = messages \/ (Assistant(0, 0, "aborted") \in Messages /\ messages' = Append(messages, Assistant(0, 0, "aborted"))))
        /\ (context' = context \/ context' \in Seq(Messages))
        /\ UNCHANGED <<newMessages, toolResults, base>>
    BY <2>d, <2>e
  <2>1. QueuesOK'
    OBVIOUS
  <2>2. ListsOK'
    OBVIOUS
  <2>3. CopiesOK'
    BY ONLY <1>b, <1>e, <2>s DEF CopiesOK
  <2>f. pc \in {"next", "replyEnd", "turn"} /\ pc' \in {"replyEnd", "turn"}
    OBVIOUS
  <2>g. addedPartial' => context' # <<>>
    BY <2>e
  <2>h. reply'.stopReason = "aborted"
    OBVIOUS
  <2>i. addedPartial' => pc' = "turn"
    OBVIOUS
  <2>4. LabelsOK'
    BY ONLY <2>f, <2>g, <2>h, <2>i DEF LabelsOK, InLoop, Failing
  <2> QED
    BY <2>1, <2>2, <2>3, <2>4
<1>25. ASSUME ReplyEnd PROVE DataInv'
  <2> USE <1>25 DEF ReplyEnd, EmitMessageEnd
  <2>c. reply \in Messages
    BY MessageKinds
  <2>1. QueuesOK'
    OBVIOUS
  <2>2. ListsOK'
    OBVIOUS
  <2>3. CopiesOK'
    BY <2>c
  <2>4. LabelsOK'
    OBVIOUS
  <2> QED
    BY <2>1, <2>2, <2>3, <2>4
<1>26. ASSUME Turn PROVE DataInv'
  <2> USE <1>26 DEF Turn, EmitTurnEnd
  <2>c. reply \in Messages
    BY MessageKinds
  <2>s. /\ reply \in Messages /\ newMessages' = Append(newMessages, reply)
        /\ toolResults' \in {<<>>, toolResults} /\ UNCHANGED <<messages, context, base>>
    BY <2>c
  <2>1. QueuesOK'
    OBVIOUS
  <2>2. ListsOK'
    OBVIOUS
  <2>3. CopiesOK'
    BY ONLY <1>b, <1>e, <2>s DEF CopiesOK
  <2>4. LabelsOK'
    OBVIOUS
  <2> QED
    BY <2>1, <2>2, <2>3, <2>4
<1>27. ASSUME Announce PROVE DataInv'
  BY <1>27 DEF Announce, Batch, Call
<1>28. ASSUME PrepareToolCall PROVE DataInv'
  BY <1>28 DEF PrepareToolCall, Batch, Allow, AnswerAtOnce, Call
<1>29. ASSUME BeforeToolCallAborted PROVE DataInv'
  BY <1>29 DEF BeforeToolCallAborted, Batch, AnswerAtOnce, Call
<1>30. ASSUME Prepared PROVE DataInv'
  BY <1>30 DEF Prepared, Batch, Launch, Call
<1>31. ASSUME LaunchAll PROVE DataInv'
  BY <1>31 DEF LaunchAll, Batch, Launch
<1>32. ASSUME ToolsSettle PROVE DataInv'
  BY <1>32 DEF ToolsSettle, Batch
<1>33. ASSUME EmitResult PROVE DataInv'
  <2> USE <1>33 DEF EmitResult, Batch, EmitShown, EmitMessageEnd
  <2>c. pc \in {"resultEnd", "resulted"} => ToolResult(Call) \in ResultMessages /\ ToolResult(Call) \in Messages
    BY MessageKinds
  <2>s. /\ \/ messages' = messages
           \/ ToolResult(Call) \in Messages /\ messages' = Append(messages, ToolResult(Call))
        /\ \/ toolResults' = toolResults
           \/ ToolResult(Call) \in ResultMessages /\ toolResults' = Append(toolResults, ToolResult(Call))
        /\ UNCHANGED <<context, newMessages, base>>
    BY <2>c
  <2>1. QueuesOK'
    OBVIOUS
  <2>2. ListsOK'
    OBVIOUS
  <2>3. CopiesOK'
    BY ONLY <1>b, <1>e, <2>s DEF CopiesOK
  <2>4. LabelsOK'
    OBVIOUS
  <2> QED
    BY <2>1, <2>2, <2>3, <2>4
<1>34. ASSUME BatchDone PROVE DataInv'
  <2> USE <1>34 DEF BatchDone, EmitTurnEnd
  <2>c. toolResults \in Seq(Messages)
    BY SeqOfSubset, MessageKinds
  <2>1. QueuesOK'
    OBVIOUS
  <2>2. ListsOK'
    OBVIOUS
  <2>3. CopiesOK'
    BY <2>c
  <2>4. LabelsOK'
    OBVIOUS
  <2> QED
    BY <2>1, <2>2, <2>3, <2>4
<1>35. ASSUME AfterTurn PROVE DataInv'
  BY <1>35 DEF AfterTurn
<1>36. ASSUME PolledSteering PROVE DataInv'
  <2> USE <1>36 DEF PolledSteering, StartTurn
  <2>s. /\ prompts' = prompts /\ polled' \in {<<>>, polled}
        /\ pendingMessages' \in {polled, pendingMessages}
    OBVIOUS
  <2>1. QueuesOK'
    OBVIOUS
  <2>2. ListsOK'
    BY ONLY <1>b, <1>e, <2>s DEF ListsOK
  <2>3. CopiesOK'
    OBVIOUS
  <2>4. LabelsOK'
    OBVIOUS
  <2> QED
    BY <2>1, <2>2, <2>3, <2>4
<1>37. ASSUME PolledFollowUp PROVE DataInv'
  <2> USE <1>37 DEF PolledFollowUp, StartTurn
  <2>s. /\ prompts' = prompts /\ polled' \in {<<>>, polled}
        /\ pendingMessages' \in {polled, pendingMessages}
    OBVIOUS
  <2>1. QueuesOK'
    OBVIOUS
  <2>2. ListsOK'
    BY ONLY <1>b, <1>e, <2>s DEF ListsOK
  <2>3. CopiesOK'
    OBVIOUS
  <2>4. LabelsOK'
    OBVIOUS
  <2> QED
    BY <2>1, <2>2, <2>3, <2>4
<1>38. ASSUME Continued PROVE DataInv'
  <2> USE <1>38 DEF Continued, StartTurn
  <2>s. /\ prompts' = prompts /\ polled' \in {<<>>, polled}
        /\ pendingMessages' \in {polled, pendingMessages}
    OBVIOUS
  <2>1. QueuesOK'
    OBVIOUS
  <2>2. ListsOK'
    BY ONLY <1>b, <1>e, <2>s DEF ListsOK
  <2>3. CopiesOK'
    OBVIOUS
  <2>4. LabelsOK'
    OBVIOUS
  <2> QED
    BY <2>1, <2>2, <2>3, <2>4
<1>39. ASSUME End PROVE DataInv'
  BY <1>39 DEF End, EmitAgentEnd
<1>40. ASSUME ListenersThrow PROVE DataInv'
  BY <1>40 DEF ListenersThrow
<1>41. ASSUME ProviderStarts PROVE DataInv'
  <2> USE <1>41 DEF ProviderStarts, Streaming, Asking, EmitShown
  <2>c. Append(context, Partial) \in Seq(Messages) /\ Append(context, Partial) # <<>>
    BY MessageKinds
  <2>1. QueuesOK'
    OBVIOUS
  <2>2. ListsOK'
    OBVIOUS
  <2>3. CopiesOK'
    BY <2>c
  <2>4. LabelsOK'
    BY <2>c
  <2> QED
    BY <2>1, <2>2, <2>3, <2>4
<1>42. ASSUME ProviderUpdates PROVE DataInv'
  BY <1>42 DEF ProviderUpdates, Streaming, Asking, EmitShown
<1>43. ASSUME ProviderThrows PROVE DataInv'
  BY <1>43 DEF ProviderThrows
<1>44. ASSUME NEW k \in 0..MaxCalls, NEW stop \in {"stop", "error"}, ProviderDone(k, stop)
     PROVE DataInv'
  <2> USE <1>44 DEF ProviderDone, Respond, Streaming, Asking, EmitShown, EmitMessageEnd, Assistant
  <2>c. Assistant(turn + 1, k, stop) \in ReplySet
    BY BoundsAssumption DEF ReplySet
  <2>d. Assistant(turn + 1, k, stop) \in Messages
    BY <2>c, MessageKinds
  <2>e. WithReply(Assistant(turn + 1, k, stop)) \in Seq(Messages) /\ WithReply(Assistant(turn + 1, k, stop)) # <<>>
    BY <2>d, WithReplyType
  <2>s. /\ (messages' = messages \/ (Assistant(turn + 1, k, stop) \in Messages /\ messages' = Append(messages, Assistant(turn + 1, k, stop))))
        /\ (context' = context \/ context' \in Seq(Messages))
        /\ UNCHANGED <<newMessages, toolResults, base>>
    BY <2>d, <2>e
  <2>1. QueuesOK'
    OBVIOUS
  <2>2. ListsOK'
    OBVIOUS
  <2>3. CopiesOK'
    BY ONLY <1>b, <1>e, <2>s DEF CopiesOK
  <2>f. pc = "stream" /\ superseded = "none" /\ superseded' = "none"
    OBVIOUS
  <2>4. LabelsOK'
    BY <2>c, <2>e, <2>f
  <2> QED
    BY <2>1, <2>2, <2>3, <2>4
<1>45. ASSUME BeforeToolCallSettles PROVE DataInv'
  BY <1>45 DEF BeforeToolCallSettles, Batch, Allow, AnswerAtOnce, Call
<1>46. ASSUME StopHookSettles PROVE DataInv'
  BY <1>46 DEF StopHookSettles
<1>47. ASSUME ContinuationSettles PROVE DataInv'
  <2> USE <1>47 DEF ContinuationSettles
  <2>c. \A b \in Batches : AsMessages(b) \in Seq(HostMessages)
    BY BatchesAssumption, AsMessagesType DEF HostIds
  <2>s. /\ UNCHANGED <<prompts, pendingMessages>>
        /\ (polled' = polled \/ polled' \in Seq(HostMessages))
    BY <2>c DEF Unsent
  <2>1. QueuesOK'
    OBVIOUS
  <2>2. ListsOK'
    BY ONLY <1>b, <1>e, <2>s DEF ListsOK
  <2>3. CopiesOK'
    OBVIOUS
  <2>4. LabelsOK'
    OBVIOUS
  <2> QED
    BY <2>1, <2>2, <2>3, <2>4
<1>48. ASSUME NEW c \in CallIds, ToolEnds(c) PROVE DataInv'
  BY <1>48 DEF ToolEnds, EndTask, Batch
<1>49. ASSUME NEW c \in CallIds, ToolEndThrows(c) PROVE DataInv'
  BY <1>49 DEF ToolEndThrows, Batch
<1>50. ASSUME NEW c \in CallIds, ToolAborted(c) PROVE DataInv'
  BY <1>50 DEF ToolAborted, EndTask, Batch
<1>51. ASSUME NEW c \in CallIds, ToolEndSettles(c) PROVE DataInv'
  BY <1>51 DEF ToolEndSettles, Batch
<1>52. CASE UNCHANGED vars
  BY <1>52 DEF vars
<1> HIDE <1>a, <1>b, <1>e DEF DataInv, QueuesOK, ListsOK, CopiesOK, LabelsOK, EventTypes, InLoop,
     Failing
<1> HIDE DEF WaitMatchesLabel
<1> HIDE DEF agentState, queues, runVars, control, locals, batchVars, history, Emit, Await, Goto, At
<1> QED
  BY <1>1, <1>2, <1>3, <1>4, <1>5, <1>6, <1>7, <1>8, <1>9, <1>10, <1>11, <1>12, <1>13, <1>14,
       <1>15, <1>16, <1>17, <1>18, <1>19, <1>20, <1>21, <1>22, <1>23, <1>24, <1>24a, <1>25, <1>26, <1>27,
       <1>28, <1>29, <1>30, <1>31, <1>32, <1>33, <1>34, <1>35, <1>36, <1>37, <1>38, <1>39, <1>40,
       <1>41, <1>42, <1>43, <1>44, <1>45, <1>46, <1>47, <1>48, <1>49, <1>50, <1>51, <1>52,
       BoundsAssumption
  DEF Next, HostCall, LoopStep, External, TaskStep

-----------------------------------------------------------------------------
(* The context is the transcript                                           *)

\* Moving the head of t to the end of s leaves their concatenation.
LEMMA AppendHead ==
  \A S : \A s, t \in Seq(S) : t # <<>> => Append(s, Head(t)) \o Tail(t) = s \o t
<1> SUFFICES ASSUME NEW S, NEW s \in Seq(S), NEW t \in Seq(S), t # <<>>
             PROVE  Append(s, Head(t)) \o Tail(t) = s \o t
  OBVIOUS
<1>1. Head(t) = t[1] /\ Len(t) >= 1 /\ Len(Tail(t)) = Len(t) - 1 /\ Tail(t) \in Seq(S)
      /\ \A i \in 1..(Len(t) - 1) : Tail(t)[i] = t[i + 1]
  OBVIOUS
<1>2. Append(s, Head(t)) \in Seq(S) /\ Len(Append(s, Head(t))) = Len(s) + 1
  BY <1>1
<1> DEFINE l == Append(s, Head(t)) \o Tail(t)
           r == s \o t
<1>3. l \in Seq(S) /\ r \in Seq(S) /\ Len(l) = Len(s) + Len(t) /\ Len(r) = Len(s) + Len(t)
  BY <1>1, <1>2
<1>4. \A i \in 1..Len(r) : l[i] = r[i]
  BY <1>1, <1>2
<1> HIDE DEF l, r
<1> QED
  BY <1>3, <1>4

\* Nothing is appended by the empty sequence.
LEMMA ConcatEmpty == \A S : \A s \in Seq(S) : s \o <<>> = s
  OBVIOUS

\* Append and concatenation associate.
LEMMA AppendConcat ==
  \A S : \A s, t \in Seq(S), x \in S : Append(s \o t, x) = s \o Append(t, x)
  OBVIOUS

\* Replacing the last element of Append(s, x) appends the replacement to s.
LEMMA ReplaceLast ==
  \A S : \A s \in Seq(S), x, y \in S :
    ReplaceAt(Append(s, x), Len(Append(s, x)), y) = Append(s, y)
<1> SUFFICES ASSUME NEW S, NEW s \in Seq(S), NEW x \in S, NEW y \in S
             PROVE  ReplaceAt(Append(s, x), Len(Append(s, x)), y) = Append(s, y)
  OBVIOUS
<1>1. Len(Append(s, x)) = Len(s) + 1 /\ Len(s) \in Nat /\ Append(s, x) \in Seq(S)
  OBVIOUS
<1> DEFINE l == [Append(s, x) EXCEPT ![Len(s) + 1] = y]
           r == Append(s, y)
<1>2. l \in Seq(S) /\ r \in Seq(S) /\ Len(l) = Len(s) + 1 /\ Len(r) = Len(s) + 1
  BY <1>1
<1>3. \A i \in 1..Len(r) : l[i] = r[i]
  <2>1. Len(r) = Len(s) + 1 /\ DOMAIN Append(s, x) = 1..(Len(s) + 1)
    BY <1>1, <1>2
  <2>2. l[Len(s) + 1] = y /\ r[Len(s) + 1] = y
    BY <1>1, <2>1
  <2>3. ASSUME NEW i \in 1..Len(s) PROVE l[i] = s[i] /\ r[i] = s[i]
    <3>1. i \in 1..(Len(s) + 1) /\ i # Len(s) + 1
      BY <1>1
    <3>2. Append(s, x)[i] = s[i] /\ Append(s, y)[i] = s[i]
      BY <1>1
    <3>3. l[i] = Append(s, x)[i]
      BY <2>1, <3>1
    <3> QED
      BY <3>2, <3>3
  <2> HIDE DEF l, r
  <2> QED
    BY <1>1, <2>1, <2>2, <2>3
<1> HIDE DEF l, r
<1>4. l = r
  BY <1>2, <1>3
<1> QED
  BY <1>1, <1>4 DEF l, r, ReplaceAt

\* What CopiesAgree reads.
talkVars == <<pc, disturbed, messages, context, newMessages, base, prompts, pendingMessages,
              addedPartial, reply, turn, batchMode, idx, toolResults, activeRun, superseded>>

\* CopiesAgree holds of a new Agent.
LEMMA InitCopies == Init => CopiesAgree
  BY DEF Init, CopiesAgree, InLoop, Failing

\* A step that leaves what CopiesAgree reads keeps it.
LEMMA CopiesFrame == ASSUME CopiesAgree, UNCHANGED talkVars PROVE CopiesAgree'
<1>1. InLoop' = InLoop /\ Partial' = Partial /\ ToolResult(Call)' = ToolResult(Call)
  BY DEF talkVars, InLoop, Partial, ToolResult, Call
<1> HIDE DEF InLoop, Partial, ToolResult, Call
<1> QED
  BY <1>1 DEF talkVars, CopiesAgree, Prompting, BatchLabels, Apart

\* Every step moves a message in the context and in the transcript in such an order
\* that CopiesAgree is kept.
LEMMA StepCopies == ASSUME CopyInv, [Next]_vars PROVE CopiesAgree'
<1>a. /\ turn \in Nat /\ WaitMatchesLabel /\ (activeRun = 0 <=> pc = "idle")
      /\ pc \in {"replyEnd", "turn"} => reply \in ReplySet
      /\ pc \in {"resultEnd", "resulted"} => Call \in CallIds
  BY BoundsAssumption, CallInBatch
  DEF CopyInv, ListInv, IInv, TypeOK, BatchOK, BatchShape, BatchLabels, ReplySet, RunShape
<1>b. DataInv /\ CopiesAgree /\ DataInv'
  BY StepData DEF CopyInv, ListInv
<1> USE <1>a, <1>b, BoundsAssumption, MessageKinds
<1> USE DEF DataInv, ListsOK, CopiesOK, LabelsOK, EventTypes, InLoop, Failing, CopiesAgree,
     WaitMatchesLabel
<1> USE DEF Prompting, BatchLabels, Apart
<1> USE DEF agentState, queues, runVars, control, locals, batchVars, history, Emit, Await, Goto, At
<1>1. ASSUME NEW b \in Batches, Prompt(b) PROVE CopiesAgree'
  BY <1>1 DEF Prompt, StartRun
<1>2. ASSUME Continue PROVE CopiesAgree'
  BY <1>2 DEF Continue, StartRun
<1>3. ASSUME NEW b \in Batches, Steer(b) PROVE CopiesAgree'
  <2>1. UNCHANGED talkVars
    BY <1>3 DEF Steer, Host, talkVars
  <2> QED
    BY <2>1, CopiesFrame
<1>4. ASSUME NEW b \in Batches, FollowUp(b) PROVE CopiesAgree'
  <2>1. UNCHANGED talkVars
    BY <1>4 DEF FollowUp, Host, talkVars
  <2> QED
    BY <2>1, CopiesFrame
<1>5. ASSUME ClearQueues PROVE CopiesAgree'
  <2>1. UNCHANGED talkVars
    BY <1>5 DEF ClearQueues, Host, talkVars
  <2> QED
    BY <2>1, CopiesFrame
<1>6. ASSUME NEW m, RemoveQueuedMessages(m) PROVE CopiesAgree'
  <2>1. UNCHANGED talkVars
    BY <1>6 DEF RemoveQueuedMessages, Host, talkVars
  <2> QED
    BY <2>1, CopiesFrame
<1>7. ASSUME NEW q \in {"steering", "followUp"}, NEW m \in QueueModes, SetMode(q, m)
     PROVE CopiesAgree'
  <2>1. UNCHANGED talkVars
    BY <1>7 DEF SetMode, Host, talkVars
  <2> QED
    BY <2>1, CopiesFrame
<1>8. ASSUME Abort PROVE CopiesAgree'
  <2>1. UNCHANGED talkVars
    BY <1>8 DEF Abort, Host, talkVars
  <2> QED
    BY <2>1, CopiesFrame
<1>9. ASSUME Reset PROVE CopiesAgree'
  <2> USE <1>9 DEF Reset, Host
  <2>1. CASE activeRun # 0
    BY <2>1
  <2>2. CASE activeRun = 0
    BY <2>2, <1>a
  <2> QED
    BY <2>1, <2>2
<1>10. ASSUME ListenersSettle PROVE CopiesAgree'
  <2>1. UNCHANGED talkVars
    BY <1>10 DEF ListenersSettle, talkVars
  <2> QED
    BY <2>1, CopiesFrame
<1>11. ASSUME FinishRun PROVE CopiesAgree'
  BY <1>11 DEF FinishRun
<1>12. ASSUME Fail PROVE CopiesAgree'
  BY <1>12 DEF Fail, Assistant, Aborted
<1>13. ASSUME FailEnd PROVE CopiesAgree'
  BY <1>13 DEF FailEnd, EmitMessageEnd, EmitAgentEnd
<1>14. ASSUME Begin PROVE CopiesAgree'
  BY <1>14 DEF Begin
<1>15. ASSUME EmitPrompts PROVE CopiesAgree'
  <2> USE <1>15 DEF EmitPrompts, EmitShown, EmitMessageEnd
  <2>1. CASE At("prompts")
    BY <2>1
  <2>2. CASE At("promptEnd")
    <3>1. /\ prompts # <<>> /\ messages' = Append(messages, Head(prompts)) /\ prompts' = Tail(prompts)
          /\ pc' = "prompts" /\ UNCHANGED <<context, disturbed, addedPartial>>
      BY <2>2
    <3>2. messages' \o prompts' = messages \o prompts
      <4>1. prompts \in Seq(Messages)
        BY SeqOfSubset
      <4>2. Append(messages, Head(prompts)) \o Tail(prompts) = messages \o prompts
        BY ONLY <3>1, <4>1, <1>b, AppendHead DEF DataInv, CopiesOK
      <4> QED
        BY ONLY <3>1, <4>2
    <3>3. pc = "promptEnd" /\ ~addedPartial
      BY <2>2
    <3> QED
      BY ONLY <1>b, <3>1, <3>2, <3>3 DEF CopiesAgree, InLoop, Failing, Prompting, BatchLabels, Apart
  <2> QED
    BY <2>1, <2>2
<1>16. ASSUME PollSteering PROVE CopiesAgree'
  <2> USE <1>16 DEF PollSteering, Polling
  <2>1. CASE pc' = "start"
    <3>1. prompts = <<>> /\ pc = "prompts" /\ UNCHANGED <<messages, context, addedPartial, disturbed>>
      BY <2>1
    <3>2. messages \o prompts = messages
      BY <3>1, ConcatEmpty
    <3> QED
      BY <2>1, <3>1, <3>2
  <2>2. CASE pc' = "polledSteering"
    BY <2>2
  <2> QED
    BY <2>1, <2>2
<1>17. ASSUME PollFollowUp PROVE CopiesAgree'
  BY <1>17 DEF PollFollowUp, Polling
<1>18. ASSUME RaceAborted PROVE CopiesAgree'
  BY <1>18 DEF RaceAborted, Polling
<1>19. ASSUME PollSettles PROVE CopiesAgree'
  BY <1>19 DEF PollSettles
<1>20. ASSUME FirstTurn PROVE CopiesAgree'
  BY <1>20 DEF FirstTurn, StartTurn
<1>21. ASSUME Inject PROVE CopiesAgree'
  BY <1>21 DEF Inject, EmitShown, EmitMessageEnd
<1>22. ASSUME Request PROVE CopiesAgree'
  <2> USE <1>22 DEF Request, Respond, Streaming, Asking, EmitShown, EmitMessageEnd, Assistant
  <2>1. CASE Aborted
    <3>1. ~addedPartial
      OBVIOUS
    <3>2. UNCHANGED <<messages, disturbed>> /\ ~addedPartial' /\ pc' = "replyEnd" /\ pc \in {"stream", "inject"}
          /\ context' = Append(context, reply')
      BY <2>1, <3>1 DEF WithReply
    <3> QED
      BY <3>1, <3>2
  <2>2. CASE ~Aborted
    BY <2>2
  <2> QED
    BY <2>1, <2>2
<1>23. ASSUME NextEvent PROVE CopiesAgree'
  <2> USE <1>23 DEF NextEvent
  <2>1. Partial' = Partial
    BY DEF Partial
  <2> QED
    BY <2>1
<1>24. ASSUME ProviderAborted PROVE CopiesAgree'
  <2> USE <1>24 DEF ProviderAborted, Respond, Streaming, Asking, EmitShown, EmitMessageEnd, Assistant
  <2>1. CASE addedPartial
    <3>1. UNCHANGED <<disturbed, addedPartial, superseded>> /\ pc' = "turn" /\ pc = "stream"
          /\ messages' = Append(messages, reply') /\ context' = WithReply(reply') /\ reply' \in ReplySet
          /\ superseded = "none"
      BY <2>1 DEF ReplySet
    <3>2. ASSUME ~disturbed PROVE context' = Append(messages, reply')
      <4>1. context = Append(messages, Partial) /\ Partial \in Messages /\ reply' \in Messages
        BY <2>1, <3>1, <3>2
      <4>2. context' = ReplaceAt(context, Len(context), reply')
        BY <2>1, <3>1 DEF WithReply
      <4>3. messages \in Seq(Messages)
        OBVIOUS
      <4>4. PICK r : r = reply'
        OBVIOUS
      <4>5. ReplaceAt(Append(messages, Partial), Len(Append(messages, Partial)), r) = Append(messages, r)
        BY ONLY <4>1, <4>3, <4>4, ReplaceLast
      <4> QED
        BY ONLY <4>1, <4>2, <4>4, <4>5
    <3> QED
      BY <3>1, <3>2
  <2>2. CASE ~addedPartial
    <3>1. UNCHANGED <<messages, disturbed>> /\ ~addedPartial' /\ pc' = "replyEnd" /\ pc \in {"stream", "inject"}
          /\ context' = Append(context, reply')
      BY <2>2 DEF WithReply
    <3> QED
      BY <2>2, <3>1
  <2> QED
    BY <2>1, <2>2
<1>24a. ASSUME ListenersAbort PROVE CopiesAgree'
  <2> USE <1>24a DEF ListenersAbort, Respond, Streaming, Asking, EmitShown, EmitMessageEnd, Assistant
  <2>1. CASE pc = "next"
    <3>0. addedPartial
      BY <2>1
    <3>1. UNCHANGED <<disturbed, addedPartial, superseded>> /\ pc' = "turn"
          /\ messages' = Append(messages, reply') /\ context' = WithReply(reply') /\ reply' \in ReplySet
      BY <2>1, <3>0 DEF ReplySet
    <3>2. ASSUME ~disturbed, superseded = "none" PROVE context' = Append(messages, reply')
      <4>1. context = Append(messages, Partial) /\ Partial \in Messages /\ reply' \in Messages
        BY <2>1, <3>0, <3>1, <3>2
      <4>2. context' = ReplaceAt(context, Len(context), reply')
        BY <3>0, <3>1 DEF WithReply
      <4>3. messages \in Seq(Messages)
        OBVIOUS
      <4>4. PICK r : r = reply'
        OBVIOUS
      <4>5. ReplaceAt(Append(messages, Partial), Len(Append(messages, Partial)), r) = Append(messages, r)
        BY ONLY <4>1, <4>3, <4>4, ReplaceLast
      <4> QED
        BY ONLY <4>1, <4>2, <4>4, <4>5
    <3> QED
      BY ONLY <3>1, <3>2 DEF CopiesAgree, InLoop, Failing, Prompting, BatchLabels, Apart
  <2>2. CASE pc # "next"
    <3>1. superseded' # "none"
      BY <2>2
    <3> QED
      BY ONLY <3>1 DEF CopiesAgree
  <2> QED
    BY <2>1, <2>2
<1>25. ASSUME ReplyEnd PROVE CopiesAgree'
  BY <1>25 DEF ReplyEnd, EmitMessageEnd
<1>26. ASSUME Turn PROVE CopiesAgree'
  <2> USE <1>26 DEF Turn, EmitTurnEnd
  <2>1. CASE reply.calls > 0 /\ reply.stopReason = "stop"
    <3>1. toolResults' = <<>> /\ UNCHANGED <<messages, context, disturbed, superseded>>
          /\ pc' = "announce" /\ pc = "turn"
      BY <2>1
    <3>2. context \o toolResults' = context
      BY <3>1, ConcatEmpty
    <3>3. ~addedPartial'
      OBVIOUS
    <3> QED
      BY ONLY <1>b, <3>1, <3>2, <3>3 DEF CopiesAgree, InLoop, Failing, Prompting, BatchLabels, Apart
  <2>2. CASE ~(reply.calls > 0 /\ reply.stopReason = "stop")
    <3>1. UNCHANGED <<messages, context, disturbed, superseded>>
          /\ pc' \in {"afterTurn", "end"} /\ pc = "turn" /\ ~addedPartial'
      BY <2>2
    <3> QED
      BY ONLY <1>b, <3>1 DEF CopiesAgree, InLoop, Failing, Prompting, BatchLabels, Apart
  <2> QED
    BY <2>1, <2>2
<1>27. ASSUME Announce PROVE CopiesAgree'
  BY <1>27 DEF Announce, Batch, Call
<1>28. ASSUME PrepareToolCall PROVE CopiesAgree'
  BY <1>28 DEF PrepareToolCall, Batch, Allow, AnswerAtOnce, Call
<1>29. ASSUME BeforeToolCallAborted PROVE CopiesAgree'
  BY <1>29 DEF BeforeToolCallAborted, Batch, AnswerAtOnce, Call
<1>30. ASSUME Prepared PROVE CopiesAgree'
  BY <1>30 DEF Prepared, Batch, Launch, Call
<1>31. ASSUME LaunchAll PROVE CopiesAgree'
  BY <1>31 DEF LaunchAll, Batch, Launch
<1>32. ASSUME ToolsSettle PROVE CopiesAgree'
  BY <1>32 DEF ToolsSettle, Batch
<1>33. ASSUME EmitResult PROVE CopiesAgree'
  <2> USE <1>33 DEF EmitResult, Batch, EmitShown, EmitMessageEnd, ToolResult
  <2>1. CASE At("result")
    BY <2>1
  <2>2. CASE At("resultEnd")
    <3>1. ToolResult(Call)' = ToolResult(Call)
      BY <2>2 DEF ToolResult, Call
    <3>2. messages' = Append(messages, ToolResult(Call)) /\ pc' = "resulted"
          /\ UNCHANGED <<context, toolResults, disturbed, addedPartial>>
      BY <2>2
    <3>3. pc = "resultEnd" /\ ~addedPartial
      BY <2>2
    <3> HIDE DEF ToolResult, Call
    <3> QED
      BY ONLY <1>b, <3>1, <3>2, <3>3 DEF CopiesAgree, InLoop, Failing, Prompting, BatchLabels, Apart
  <2>3. CASE At("resulted")
    <3>1. /\ toolResults' = Append(toolResults, ToolResult(Call)) /\ pc' \in {"result", "batchDone", "announce"}
          /\ UNCHANGED <<messages, context, disturbed, addedPartial>> /\ ToolResult(Call) \in ResultMessages
      BY <2>3
    <3>2. Append(context \o toolResults, ToolResult(Call)) = context \o Append(toolResults, ToolResult(Call))
      <4>1. toolResults \in Seq(Messages) /\ ToolResult(Call) \in Messages
        BY <3>1, SeqOfSubset
      <4>2. context \in Seq(Messages)
        OBVIOUS
      <4>3. PICK x : x = ToolResult(Call)
        OBVIOUS
      <4>4. Append(context \o toolResults, x) = context \o Append(toolResults, x)
        BY ONLY <4>1, <4>2, <4>3, AppendConcat
      <4> QED
        BY ONLY <4>3, <4>4
    <3>3. pc = "resulted" /\ ~addedPartial
      BY <2>3
    <3> HIDE DEF ToolResult, Call
    <3> QED
      BY ONLY <1>b, <3>1, <3>2, <3>3 DEF CopiesAgree, InLoop, Failing, Prompting, BatchLabels, Apart
  <2> QED
    BY <2>1, <2>2, <2>3
<1>34. ASSUME BatchDone PROVE CopiesAgree'
  BY <1>34 DEF BatchDone, EmitTurnEnd
<1>35. ASSUME AfterTurn PROVE CopiesAgree'
  BY <1>35 DEF AfterTurn
<1>36. ASSUME PolledSteering PROVE CopiesAgree'
  BY <1>36 DEF PolledSteering, StartTurn
<1>37. ASSUME PolledFollowUp PROVE CopiesAgree'
  BY <1>37 DEF PolledFollowUp, StartTurn
<1>38. ASSUME Continued PROVE CopiesAgree'
  BY <1>38 DEF Continued, StartTurn
<1>39. ASSUME End PROVE CopiesAgree'
  BY <1>39 DEF End, EmitAgentEnd
<1>40. ASSUME ListenersThrow PROVE CopiesAgree'
  BY <1>40 DEF ListenersThrow
<1>41. ASSUME ProviderStarts PROVE CopiesAgree'
  <2> USE <1>41 DEF ProviderStarts, Streaming, Asking, EmitShown
  <2>1. Partial' = Partial
    BY DEF Partial
  <2> QED
    BY <2>1
<1>42. ASSUME ProviderUpdates PROVE CopiesAgree'
  <2> USE <1>42 DEF ProviderUpdates, Streaming, Asking, EmitShown
  <2>1. Partial' = Partial
    BY DEF Partial
  <2> QED
    BY <2>1
<1>43. ASSUME ProviderThrows PROVE CopiesAgree'
  BY <1>43 DEF ProviderThrows
<1>44. ASSUME NEW k \in 0..MaxCalls, NEW stop \in {"stop", "error"}, ProviderDone(k, stop)
     PROVE CopiesAgree'
  <2> USE <1>44 DEF ProviderDone, Respond, Streaming, Asking, EmitShown, EmitMessageEnd, Assistant
  <2>1. CASE addedPartial
    <3>1. UNCHANGED <<disturbed, addedPartial, superseded>> /\ pc' = "turn" /\ pc = "stream"
          /\ messages' = Append(messages, reply') /\ context' = WithReply(reply') /\ reply' \in ReplySet
          /\ superseded = "none"
      BY <2>1 DEF ReplySet
    <3>2. ASSUME ~disturbed PROVE context' = Append(messages, reply')
      <4>1. context = Append(messages, Partial) /\ Partial \in Messages /\ reply' \in Messages
        BY <2>1, <3>1, <3>2
      <4>2. context' = ReplaceAt(context, Len(context), reply')
        BY <2>1, <3>1 DEF WithReply
      <4>3. messages \in Seq(Messages)
        OBVIOUS
      <4>4. PICK r : r = reply'
        OBVIOUS
      <4>5. ReplaceAt(Append(messages, Partial), Len(Append(messages, Partial)), r) = Append(messages, r)
        BY ONLY <4>1, <4>3, <4>4, ReplaceLast
      <4> QED
        BY ONLY <4>1, <4>2, <4>4, <4>5
    <3> QED
      BY <3>1, <3>2
  <2>2. CASE ~addedPartial
    <3>1. UNCHANGED <<messages, disturbed>> /\ ~addedPartial' /\ pc' = "replyEnd" /\ pc \in {"stream", "inject"}
          /\ context' = Append(context, reply')
      BY <2>2 DEF WithReply
    <3> QED
      BY <2>2, <3>1
  <2> QED
    BY <2>1, <2>2
<1>45. ASSUME BeforeToolCallSettles PROVE CopiesAgree'
  BY <1>45 DEF BeforeToolCallSettles, Batch, Allow, AnswerAtOnce, Call
<1>46. ASSUME StopHookSettles PROVE CopiesAgree'
  BY <1>46 DEF StopHookSettles
<1>47. ASSUME ContinuationSettles PROVE CopiesAgree'
  BY <1>47 DEF ContinuationSettles
<1>48. ASSUME NEW c \in CallIds, ToolEnds(c) PROVE CopiesAgree'
  <2>1. UNCHANGED talkVars
    BY <1>48 DEF ToolEnds, EndTask, Batch, talkVars
  <2> QED
    BY <2>1, CopiesFrame
<1>49. ASSUME NEW c \in CallIds, ToolEndThrows(c) PROVE CopiesAgree'
  <2>1. UNCHANGED talkVars
    BY <1>49 DEF ToolEndThrows, Batch, talkVars
  <2> QED
    BY <2>1, CopiesFrame
<1>50. ASSUME NEW c \in CallIds, ToolAborted(c) PROVE CopiesAgree'
  <2>1. UNCHANGED talkVars
    BY <1>50 DEF ToolAborted, EndTask, Batch, talkVars
  <2> QED
    BY <2>1, CopiesFrame
<1>51. ASSUME NEW c \in CallIds, ToolEndSettles(c) PROVE CopiesAgree'
  <2>1. UNCHANGED talkVars
    BY <1>51 DEF ToolEndSettles, Batch, talkVars
  <2> QED
    BY <2>1, CopiesFrame
<1>52. CASE UNCHANGED vars
  <2>1. UNCHANGED talkVars
    BY <1>52 DEF vars, talkVars
  <2> QED
    BY <2>1, CopiesFrame
<1> HIDE <1>a, <1>b DEF DataInv, ListsOK, CopiesOK, LabelsOK, EventTypes, InLoop, Failing,
     CopiesAgree, WaitMatchesLabel
<1> HIDE DEF Prompting, BatchLabels, Apart
<1> HIDE DEF agentState, queues, runVars, control, locals, batchVars, history, Emit, Await, Goto, At
<1> QED
  BY <1>1, <1>2, <1>3, <1>4, <1>5, <1>6, <1>7, <1>8, <1>9, <1>10, <1>11, <1>12, <1>13, <1>14,
       <1>15, <1>16, <1>17, <1>18, <1>19, <1>20, <1>21, <1>22, <1>23, <1>24, <1>24a, <1>25, <1>26, <1>27,
       <1>28, <1>29, <1>30, <1>31, <1>32, <1>33, <1>34, <1>35, <1>36, <1>37, <1>38, <1>39, <1>40,
       <1>41, <1>42, <1>43, <1>44, <1>45, <1>46, <1>47, <1>48, <1>49, <1>50, <1>51, <1>52,
       BoundsAssumption
  DEF Next, HostCall, LoopStep, External, TaskStep

-----------------------------------------------------------------------------
(* newMessages is the tail of the context, which ends with the response    *)

\* The elements of Append and of a concatenation.
LEMMA SeqElements ==
  /\ \A S : \A s \in Seq(S), x \in S : /\ Len(Append(s, x)) = Len(s) + 1
                                       /\ Append(s, x)[Len(s) + 1] = x
                                       /\ \A i \in 1..Len(s) : Append(s, x)[i] = s[i]
  /\ \A S : \A s, t \in Seq(S) : /\ Len(s \o t) = Len(s) + Len(t)
                                 /\ \A i \in 1..Len(s) : (s \o t)[i] = s[i]
                                 /\ \A i \in 1..Len(t) : (s \o t)[Len(s) + i] = t[i]
  /\ \A S : \A s \in Seq(S) : Len(s) \in Nat /\ (s # <<>> => Len(s) >= 1)
                              /\ \A i \in 1..Len(s) : s[i] \in S
<1>1. ASSUME NEW S, NEW s \in Seq(S), NEW x \in S
      PROVE  /\ Len(Append(s, x)) = Len(s) + 1
             /\ Append(s, x)[Len(s) + 1] = x
             /\ \A i \in 1..Len(s) : Append(s, x)[i] = s[i]
  OBVIOUS
<1>2. ASSUME NEW S, NEW s \in Seq(S), NEW t \in Seq(S)
      PROVE  /\ Len(s \o t) = Len(s) + Len(t)
             /\ \A i \in 1..Len(s) : (s \o t)[i] = s[i]
             /\ \A i \in 1..Len(t) : (s \o t)[Len(s) + i] = t[i]
  OBVIOUS
<1>3. ASSUME NEW S, NEW s \in Seq(S)
      PROVE  Len(s) \in Nat /\ (s # <<>> => Len(s) >= 1) /\ \A i \in 1..Len(s) : s[i] \in S
  OBVIOUS
<1> QED
  BY <1>1, <1>2, <1>3

\* How the pushes of the loop keep TailOf.
LEMMA Tails ==
  \A S : \A c, n \in Seq(S), b \in Nat :
    /\ \A t \in Seq(S) : TailOf(c \o t, t, Len(c), 0)
    /\ \A t \in Seq(S) : TailOf(c, n, b, 0) => TailOf(c \o t, n \o t, b, 0)
    /\ \A x \in S : TailOf(c, n, b, 0) => /\ TailOf(Append(c, x), Append(n, x), b, 0)
                                          /\ TailOf(Append(c, x), n, b, 1)
    /\ \A x \in S : TailOf(c, n, b, 1) =>
          /\ TailOf(ReplaceAt(c, Len(c), x), n, b, 1)
          /\ EndsWith(c, x) => TailOf(c, Append(n, x), b, 0)
<1> SUFFICES ASSUME NEW S, NEW c \in Seq(S), NEW n \in Seq(S), NEW b \in Nat
             PROVE  /\ \A t \in Seq(S) : TailOf(c \o t, t, Len(c), 0)
                    /\ \A t \in Seq(S) : TailOf(c, n, b, 0) => TailOf(c \o t, n \o t, b, 0)
                    /\ \A x \in S : TailOf(c, n, b, 0) => /\ TailOf(Append(c, x), Append(n, x), b, 0)
                                                          /\ TailOf(Append(c, x), n, b, 1)
                    /\ \A x \in S : TailOf(c, n, b, 1) =>
                          /\ TailOf(ReplaceAt(c, Len(c), x), n, b, 1)
                          /\ EndsWith(c, x) => TailOf(c, Append(n, x), b, 0)
  OBVIOUS
<1>0. Len(c) \in Nat /\ Len(n) \in Nat
  OBVIOUS
<1>1. ASSUME NEW t \in Seq(S) PROVE TailOf(c \o t, t, Len(c), 0)
  <2>1. Len(c \o t) = Len(c) + Len(t) /\ \A i \in 1..Len(t) : (c \o t)[Len(c) + i] = t[i]
    BY SeqElements
  <2> QED
    BY <1>0, <2>1 DEF TailOf
<1>2. ASSUME NEW t \in Seq(S), TailOf(c, n, b, 0) PROVE TailOf(c \o t, n \o t, b, 0)
  <2>1. Len(t) \in Nat /\ Len(c \o t) = Len(c) + Len(t) /\ Len(n \o t) = Len(n) + Len(t)
    BY SeqElements
  <2>2. Len(c) = b + Len(n) /\ \A i \in 1..Len(n) : n[i] = c[b + i]
    BY <1>2, <1>0 DEF TailOf
  <2>3. ASSUME NEW i \in 1..(Len(n) + Len(t)) PROVE (n \o t)[i] = (c \o t)[b + i]
    <3>1. CASE i <= Len(n)
      <4>1. i \in 1..Len(n) /\ b + i \in 1..Len(c)
        BY <3>1, <2>1, <2>2, <1>0
      <4>2. (n \o t)[i] = n[i] /\ (c \o t)[b + i] = c[b + i]
        BY <4>1, SeqElements
      <4> QED
        BY <4>1, <4>2, <2>2
    <3>2. CASE i > Len(n)
      <4>1. i - Len(n) \in 1..Len(t) /\ i = Len(n) + (i - Len(n))
        BY <3>2, <2>1, <1>0
      <4>2. PICK j \in 1..Len(t) : i = Len(n) + j
        BY <4>1
      <4>3. b + i = Len(c) + j
        BY <4>2, <2>2, <1>0
      <4>4. (n \o t)[Len(n) + j] = t[j] /\ (c \o t)[Len(c) + j] = t[j]
        BY SeqElements
      <4> QED
        BY <4>2, <4>3, <4>4
    <3>3. i <= Len(n) \/ i > Len(n)
      BY <1>0, <2>1
    <3> QED
      BY <3>1, <3>2, <3>3, Zenon
  <2> QED
    BY <2>1, <2>2, <2>3, <1>0 DEF TailOf
<1>3. ASSUME NEW x \in S, TailOf(c, n, b, 0)
      PROVE TailOf(Append(c, x), Append(n, x), b, 0) /\ TailOf(Append(c, x), n, b, 1)
  <2>1. /\ Len(Append(c, x)) = Len(c) + 1 /\ Append(c, x)[Len(c) + 1] = x
        /\ Len(Append(n, x)) = Len(n) + 1 /\ Append(n, x)[Len(n) + 1] = x
        /\ \A i \in 1..Len(c) : Append(c, x)[i] = c[i]
        /\ \A i \in 1..Len(n) : Append(n, x)[i] = n[i]
    BY SeqElements
  <2>2. Len(c) = b + Len(n) /\ \A i \in 1..Len(n) : n[i] = c[b + i]
    BY <1>3, <1>0 DEF TailOf
  <2>3. \A i \in 1..Len(n) : b + i \in 1..Len(c)
    BY <2>2, <1>0
  <2>4. \A i \in 1..Len(n) : Append(c, x)[b + i] = n[i]
    BY <2>1, <2>2, <2>3
  <2>5. \A i \in 1..(Len(n) + 1) : i \in 1..Len(n) \/ (i = Len(n) + 1 /\ b + i = Len(c) + 1)
    BY ONLY <2>2, <1>0
  <2>6. \A i \in 1..Len(Append(n, x)) : Append(n, x)[i] = Append(c, x)[b + i]
    BY <2>1, <2>4, <2>5
  <2> QED
    BY <2>1, <2>2, <2>4, <2>6, <1>0 DEF TailOf
<1>4. ASSUME NEW x \in S, TailOf(c, n, b, 1)
      PROVE TailOf(ReplaceAt(c, Len(c), x), n, b, 1)
  <2>1. Len(c) = b + Len(n) + 1 /\ \A i \in 1..Len(n) : n[i] = c[b + i]
    BY <1>4, <1>0 DEF TailOf
  <2>2. DOMAIN c = 1..Len(c) /\ Len(c) \in 1..Len(c)
    BY <2>1, <1>0
  <2>3. ReplaceAt(c, Len(c), x) \in Seq(S) /\ Len(ReplaceAt(c, Len(c), x)) = Len(c)
    BY <2>2 DEF ReplaceAt
  <2>4. \A i \in 1..Len(n) : b + i \in 1..Len(c) /\ b + i # Len(c)
    BY <2>1, <1>0
  <2>5. \A i \in 1..Len(n) : ReplaceAt(c, Len(c), x)[b + i] = n[i]
    BY <2>1, <2>2, <2>4 DEF ReplaceAt
  <2> QED
    BY <2>1, <2>3, <2>5 DEF TailOf
<1>5. ASSUME NEW x \in S, TailOf(c, n, b, 1), EndsWith(c, x)
      PROVE TailOf(c, Append(n, x), b, 0)
  <2>1. Len(c) = b + Len(n) + 1 /\ \A i \in 1..Len(n) : n[i] = c[b + i]
    BY <1>5, <1>0 DEF TailOf
  <2>2. /\ Len(Append(n, x)) = Len(n) + 1 /\ Append(n, x)[Len(n) + 1] = x
        /\ \A i \in 1..Len(n) : Append(n, x)[i] = n[i]
    BY SeqElements
  <2>3. c[Len(c)] = x
    BY <1>5 DEF EndsWith
  <2>4. \A i \in 1..Len(Append(n, x)) : i \in 1..Len(n) \/ (i = Len(n) + 1 /\ b + i = Len(c))
    BY <2>1, <2>2, <1>0
  <2> QED
    BY <2>1, <2>2, <2>3, <2>4, <1>0 DEF TailOf
<1> HIDE DEF TailOf
<1> QED
  BY <1>1, <1>2, <1>3, <1>4, <1>5

\* Append and ReplaceAt put the message last.
LEMMA Ends ==
  \A S : \A c \in Seq(S), x \in S :
    /\ EndsWith(Append(c, x), x)
    /\ c # <<>> => EndsWith(ReplaceAt(c, Len(c), x), x)
<1> SUFFICES ASSUME NEW S, NEW c \in Seq(S), NEW x \in S
             PROVE  /\ EndsWith(Append(c, x), x)
                    /\ c # <<>> => EndsWith(ReplaceAt(c, Len(c), x), x)
  OBVIOUS
<1>1. EndsWith(Append(c, x), x)
  BY SeqFacts, SeqElements DEF EndsWith
<1>2. ASSUME c # <<>> PROVE EndsWith(ReplaceAt(c, Len(c), x), x)
  <2>1. DOMAIN c = 1..Len(c) /\ Len(c) \in 1..Len(c)
    BY <1>2
  <2>2. ReplaceAt(c, Len(c), x) \in Seq(S) /\ Len(ReplaceAt(c, Len(c), x)) = Len(c)
    BY <2>1 DEF ReplaceAt
  <2>3. ReplaceAt(c, Len(c), x)[Len(c)] = x
    BY <2>1 DEF ReplaceAt
  <2>4. ReplaceAt(c, Len(c), x) # <<>>
    BY <2>1, <2>2
  <2> HIDE DEF ReplaceAt
  <2> QED
    BY <2>2, <2>3, <2>4 DEF EndsWith
<1> QED
  BY <1>1, <1>2

\* Both hold of a new Agent.
LEMMA InitTail == Init => NewIsTail /\ ReplyInContext
  BY DEF Init, NewIsTail, ReplyInContext, InLoop, BatchLabels

\* What NewIsTail and ReplyInContext read.
tailVars == <<pc, context, newMessages, base, addedPartial, reply, turn, superseded>>

\* A step that leaves these variables keeps NewIsTail.
LEMMA TailFrame == ASSUME NewIsTail, UNCHANGED tailVars PROVE NewIsTail'
<1>1. InLoop' = InLoop /\ Lags' = Lags
  BY DEF tailVars, InLoop, Lags
<1> HIDE DEF InLoop, Lags
<1> QED
  BY <1>1 DEF tailVars, NewIsTail, TailOf

\* A step that leaves these variables keeps ReplyInContext.
LEMMA ReplyFrame == ASSUME ReplyInContext, UNCHANGED tailVars PROVE ReplyInContext'
  BY DEF tailVars, ReplyInContext, BatchLabels, EndsWith

\* Every push to the context has its push to newMessages, at once or one label later,
\* so NewIsTail is kept.
LEMMA StepTail == ASSUME TailInv, [Next]_vars PROVE NewIsTail'
<1>a. /\ turn \in Nat /\ WaitMatchesLabel
      /\ pc \in {"replyEnd", "turn"} => reply \in ReplySet
      /\ reply \in ReplySet \cup {NoMessage}
  BY BoundsAssumption
  DEF TailInv, CopyInv, ListInv, IInv, TypeOK, BatchOK, BatchShape, BatchLabels, ReplySet
<1>b. DataInv /\ NewIsTail /\ ReplyInContext /\ DataInv'
  BY StepData DEF TailInv, CopyInv, ListInv
<1> USE <1>a, <1>b, BoundsAssumption, MessageKinds
<1> USE DEF DataInv, ListsOK, CopiesOK, LabelsOK, EventTypes, InLoop, Failing, NewIsTail,
     ReplyInContext, WaitMatchesLabel
<1> USE DEF BatchLabels, Lags
<1> USE DEF agentState, queues, runVars, control, locals, batchVars, history, Emit, Await, Goto, At
<1>1. ASSUME NEW b \in Batches, Prompt(b) PROVE NewIsTail'
  <2> USE <1>1 DEF Prompt, StartRun
  <2>1. PICK ms : ms = AsMessages(b)
    OBVIOUS
  <2>2. ms \in Seq(HostMessages)
    BY <2>1, AsMessagesType, BatchesAssumption DEF HostIds
  <2>3. ms \in Seq(Messages)
    BY <2>2, SeqOfSubset
  <2>4. /\ context' = messages \o ms /\ newMessages' = ms /\ base' = Len(messages)
        /\ pc' = "begin" /\ ~addedPartial'
    BY <2>1
  <2> QED
    BY ONLY <2>3, <2>4, <1>b, Tails DEF DataInv, CopiesOK, NewIsTail, Lags
<1>2. ASSUME Continue PROVE NewIsTail'
  <2> USE <1>2 DEF Continue
  <2>1. PICK ms : StartRun(ms, TRUE) \/ StartRun(ms, FALSE)
    OBVIOUS
  <2>2. /\ context' = messages \o ms /\ newMessages' = ms /\ base' = Len(messages)
        /\ pc' = "begin" /\ ~addedPartial'
    BY <2>1 DEF StartRun
  <2>3. ms \in Seq(Messages)
    BY <2>2
  <2> QED
    BY ONLY <2>2, <2>3, <1>b, Tails DEF DataInv, CopiesOK, NewIsTail, Lags
<1>3. ASSUME NEW b \in Batches, Steer(b) PROVE NewIsTail'
  <2>1. UNCHANGED tailVars
    BY <1>3 DEF Steer, Host, tailVars
  <2> QED
    BY <2>1, TailFrame
<1>4. ASSUME NEW b \in Batches, FollowUp(b) PROVE NewIsTail'
  <2>1. UNCHANGED tailVars
    BY <1>4 DEF FollowUp, Host, tailVars
  <2> QED
    BY <2>1, TailFrame
<1>5. ASSUME ClearQueues PROVE NewIsTail'
  <2>1. UNCHANGED tailVars
    BY <1>5 DEF ClearQueues, Host, tailVars
  <2> QED
    BY <2>1, TailFrame
<1>6. ASSUME NEW m, RemoveQueuedMessages(m) PROVE NewIsTail'
  <2>1. UNCHANGED tailVars
    BY <1>6 DEF RemoveQueuedMessages, Host, tailVars
  <2> QED
    BY <2>1, TailFrame
<1>7. ASSUME NEW q \in {"steering", "followUp"}, NEW m \in QueueModes, SetMode(q, m)
     PROVE NewIsTail'
  <2>1. UNCHANGED tailVars
    BY <1>7 DEF SetMode, Host, tailVars
  <2> QED
    BY <2>1, TailFrame
<1>8. ASSUME Abort PROVE NewIsTail'
  <2>1. UNCHANGED tailVars
    BY <1>8 DEF Abort, Host, tailVars
  <2> QED
    BY <2>1, TailFrame
<1>9. ASSUME Reset PROVE NewIsTail'
  <2>1. UNCHANGED tailVars
    BY <1>9 DEF Reset, Host, tailVars
  <2> QED
    BY <2>1, TailFrame
<1>10. ASSUME ListenersSettle PROVE NewIsTail'
  <2>1. UNCHANGED tailVars
    BY <1>10 DEF ListenersSettle, tailVars
  <2> QED
    BY <2>1, TailFrame
<1>11. ASSUME FinishRun PROVE NewIsTail'
  BY <1>11 DEF FinishRun
<1>12. ASSUME Fail PROVE NewIsTail'
  BY <1>12 DEF Fail, Assistant, Aborted
<1>13. ASSUME FailEnd PROVE NewIsTail'
  BY <1>13 DEF FailEnd, EmitMessageEnd, EmitAgentEnd
<1>14. ASSUME Begin PROVE NewIsTail'
  BY <1>14 DEF Begin
<1>15. ASSUME EmitPrompts PROVE NewIsTail'
  BY <1>15 DEF EmitPrompts, EmitShown, EmitMessageEnd
<1>16. ASSUME PollSteering PROVE NewIsTail'
  BY <1>16 DEF PollSteering, Polling
<1>17. ASSUME PollFollowUp PROVE NewIsTail'
  BY <1>17 DEF PollFollowUp, Polling
<1>18. ASSUME RaceAborted PROVE NewIsTail'
  BY <1>18 DEF RaceAborted, Polling
<1>19. ASSUME PollSettles PROVE NewIsTail'
  BY <1>19 DEF PollSettles
<1>20. ASSUME FirstTurn PROVE NewIsTail'
  BY <1>20 DEF FirstTurn, StartTurn
<1>21. ASSUME Inject PROVE NewIsTail'
  <2> USE <1>21 DEF Inject, EmitShown, EmitMessageEnd
  <2>1. CASE At("injected")
    <3>1. PICK m : m = Head(pendingMessages)
      OBVIOUS
    <3>2. m \in HostMessages
      BY <2>1, <3>1
    <3>3. m \in Messages
      BY <3>2
    <3>4. /\ context' = Append(context, m) /\ newMessages' = Append(newMessages, m) /\ UNCHANGED base
          /\ pc = "injected" /\ pc' = "inject" /\ ~addedPartial /\ ~addedPartial'
      BY <2>1, <3>1
    <3>5. TailOf(context, newMessages, base, 0)
      BY <3>4
    <3> QED
      BY ONLY <3>3, <3>4, <3>5, <1>b, Tails DEF DataInv, CopiesOK, NewIsTail, Lags
  <2>2. CASE ~At("injected")
    <3>1. /\ UNCHANGED <<context, newMessages, base, addedPartial>>
          /\ pc \in {"inject", "injectEnd"} /\ pc' \in {"injectEnd", "injected"}
      BY <2>2
    <3> QED
      BY ONLY <1>b, <3>1 DEF NewIsTail, InLoop, Failing, Lags, TailOf
  <2> QED
    BY <2>1, <2>2
<1>22. ASSUME Request PROVE NewIsTail'
  <2> USE <1>22 DEF Request, Respond, Streaming, Asking, EmitShown, EmitMessageEnd, Assistant
  <2>0. CASE Aborted
    <3>1. PICK m : m = reply'
      OBVIOUS
    <3>2. m \in ReplySet
      BY <2>0, <3>1 DEF ReplySet
    <3>3. /\ context' = WithReply(m) /\ UNCHANGED <<newMessages, base>> /\ ~addedPartial'
          /\ pc \in {"inject", "stream"} /\ (addedPartial => pc = "stream" /\ context # <<>>)
          /\ pc' \in {"turn", "replyEnd"}
      BY <2>0, <3>1
    <3>4. context' = IF addedPartial THEN ReplaceAt(context, Len(context), m) ELSE Append(context, m)
      BY <3>3 DEF WithReply
    <3>5. m \in Messages
      BY <3>2
    <3>6. TailOf(context, newMessages, base, IF addedPartial THEN 1 ELSE 0)
      BY ONLY <3>3, <1>b DEF NewIsTail, InLoop, Failing, Lags
    <3>7. TailOf(context', newMessages', base', 1)
      BY ONLY <3>3, <3>4, <3>5, <3>6, <1>b, Tails DEF DataInv, CopiesOK
    <3> QED
      BY ONLY <3>3, <3>7 DEF NewIsTail, Lags
  <2>1. CASE ~Aborted
    BY <2>1
  <2> QED
    BY <2>0, <2>1
<1>23. ASSUME NextEvent PROVE NewIsTail'
  BY <1>23 DEF NextEvent
<1>24. ASSUME ProviderAborted PROVE NewIsTail'
  <2> USE <1>24 DEF ProviderAborted, Respond, Streaming, Asking, EmitShown, EmitMessageEnd, Assistant
  <2>1. PICK m : m = reply'
    OBVIOUS
  <2>2. m \in ReplySet
    BY <2>1 DEF ReplySet
  <2>3. /\ context' = WithReply(m) /\ UNCHANGED <<newMessages, base>> /\ superseded = "none"
        /\ pc \in {"inject", "stream"} /\ (addedPartial => pc = "stream" /\ context # <<>>)
        /\ pc' \in {"turn", "replyEnd"}
    BY <2>1
  <2>4. context' = IF addedPartial THEN ReplaceAt(context, Len(context), m) ELSE Append(context, m)
    BY <2>3 DEF WithReply
  <2>5. m \in Messages
    BY <2>2
  <2>6. TailOf(context, newMessages, base, IF addedPartial THEN 1 ELSE 0)
    BY ONLY <2>3, <1>b DEF NewIsTail, InLoop, Failing, Lags
  <2>7. TailOf(context', newMessages', base', 1)
    BY ONLY <2>3, <2>4, <2>5, <2>6, <1>b, Tails DEF DataInv, CopiesOK
  <2> QED
    BY ONLY <2>3, <2>7 DEF NewIsTail, Lags
<1>24a. ASSUME ListenersAbort PROVE NewIsTail'
  <2> USE <1>24a DEF ListenersAbort, Respond, Streaming, Asking, EmitShown, EmitMessageEnd, Assistant
  <2>1. CASE pc = "next"
    <3>1. PICK m : m = reply'
      OBVIOUS
    <3>2. m \in ReplySet
      BY <3>1 DEF ReplySet
    <3>3. /\ context' = WithReply(m) /\ UNCHANGED <<newMessages, base>> /\ superseded = "none"
          /\ pc = "next" /\ addedPartial /\ context # <<>> /\ pc' = "turn"
      BY <2>1, <3>1
    <3>4. context' = ReplaceAt(context, Len(context), m)
      BY <3>3 DEF WithReply
    <3>5. m \in Messages
      BY <3>2
    <3>6. TailOf(context, newMessages, base, 1)
      BY ONLY <3>3, <1>b DEF NewIsTail, InLoop, Failing, Lags
    <3>7. TailOf(context', newMessages', base', 1)
      BY ONLY <3>3, <3>4, <3>5, <3>6, <1>b, Tails DEF DataInv, CopiesOK
    <3> QED
      BY ONLY <3>3, <3>7 DEF NewIsTail, Lags
  <2>2. CASE pc # "next"
    <3>1. superseded' # "none"
      BY <2>2
    <3> QED
      BY ONLY <3>1 DEF NewIsTail
  <2> QED
    BY <2>1, <2>2
<1>25. ASSUME ReplyEnd PROVE NewIsTail'
  BY <1>25 DEF ReplyEnd, EmitMessageEnd
<1>26. ASSUME Turn PROVE NewIsTail'
  <2> USE <1>26 DEF Turn, EmitTurnEnd
  <2>1. EndsWith(context, reply) /\ reply \in Messages
    OBVIOUS
  <2>2. /\ UNCHANGED <<context, base>> /\ newMessages' = Append(newMessages, reply)
        /\ pc = "turn" /\ pc' \in {"end", "afterTurn", "announce"} /\ ~addedPartial' /\ UNCHANGED superseded
    OBVIOUS
  <2>3. superseded = "none" => TailOf(context, newMessages, base, 1)
    BY <2>2
  <2> QED
    BY ONLY <2>1, <2>2, <2>3, <1>b, Tails DEF DataInv, CopiesOK, NewIsTail, Lags
<1>27. ASSUME Announce PROVE NewIsTail'
  BY <1>27 DEF Announce, Batch, Call
<1>28. ASSUME PrepareToolCall PROVE NewIsTail'
  BY <1>28 DEF PrepareToolCall, Batch, Allow, AnswerAtOnce, Call
<1>29. ASSUME BeforeToolCallAborted PROVE NewIsTail'
  BY <1>29 DEF BeforeToolCallAborted, Batch, AnswerAtOnce, Call
<1>30. ASSUME Prepared PROVE NewIsTail'
  BY <1>30 DEF Prepared, Batch, Launch, Call
<1>31. ASSUME LaunchAll PROVE NewIsTail'
  BY <1>31 DEF LaunchAll, Batch, Launch
<1>32. ASSUME ToolsSettle PROVE NewIsTail'
  BY <1>32 DEF ToolsSettle, Batch
<1>33. ASSUME EmitResult PROVE NewIsTail'
  BY <1>33 DEF EmitResult, Batch, EmitShown, EmitMessageEnd, ToolResult
<1>34. ASSUME BatchDone PROVE NewIsTail'
  <2> USE <1>34 DEF BatchDone, EmitTurnEnd
  <2>1. /\ context' = context \o toolResults /\ newMessages' = newMessages \o toolResults /\ UNCHANGED base
        /\ pc \in BatchLabels /\ pc' = "afterTurn" /\ ~addedPartial /\ ~addedPartial'
    OBVIOUS
  <2>2. TailOf(context, newMessages, base, 0)
    BY <2>1
  <2>3. toolResults \in Seq(Messages)
    BY SeqOfSubset
  <2> QED
    BY ONLY <2>1, <2>2, <2>3, <1>b, Tails DEF DataInv, CopiesOK, NewIsTail, Lags
<1>35. ASSUME AfterTurn PROVE NewIsTail'
  BY <1>35 DEF AfterTurn
<1>36. ASSUME PolledSteering PROVE NewIsTail'
  BY <1>36 DEF PolledSteering, StartTurn
<1>37. ASSUME PolledFollowUp PROVE NewIsTail'
  BY <1>37 DEF PolledFollowUp, StartTurn
<1>38. ASSUME Continued PROVE NewIsTail'
  BY <1>38 DEF Continued, StartTurn
<1>39. ASSUME End PROVE NewIsTail'
  BY <1>39 DEF End, EmitAgentEnd
<1>40. ASSUME ListenersThrow PROVE NewIsTail'
  BY <1>40 DEF ListenersThrow
<1>41. ASSUME ProviderStarts PROVE NewIsTail'
  <2> USE <1>41 DEF ProviderStarts, Streaming, Asking, EmitShown
  <2>1. PICK m : m = Partial
    OBVIOUS
  <2>2. /\ context' = Append(context, m) /\ UNCHANGED <<newMessages, base>> /\ m \in Messages
        /\ pc = "stream" /\ pc' = "next" /\ ~addedPartial /\ addedPartial'
    BY <2>1
  <2>3. TailOf(context, newMessages, base, 0)
    BY <2>2
  <2> QED
    BY ONLY <2>2, <2>3, <1>b, Tails DEF DataInv, CopiesOK, NewIsTail, Lags
<1>42. ASSUME ProviderUpdates PROVE NewIsTail'
  BY <1>42 DEF ProviderUpdates, Streaming, Asking, EmitShown
<1>43. ASSUME ProviderThrows PROVE NewIsTail'
  BY <1>43 DEF ProviderThrows
<1>44. ASSUME NEW k \in 0..MaxCalls, NEW stop \in {"stop", "error"}, ProviderDone(k, stop)
     PROVE NewIsTail'
  <2> USE <1>44 DEF ProviderDone, Respond, Streaming, Asking, EmitShown, EmitMessageEnd, Assistant
  <2>1. PICK m : m = reply'
    OBVIOUS
  <2>2. m \in ReplySet
    BY <2>1 DEF ReplySet
  <2>3. /\ context' = WithReply(m) /\ UNCHANGED <<newMessages, base>> /\ superseded = "none"
        /\ pc \in {"inject", "stream"} /\ (addedPartial => pc = "stream" /\ context # <<>>)
        /\ pc' \in {"turn", "replyEnd"}
    BY <2>1
  <2>4. context' = IF addedPartial THEN ReplaceAt(context, Len(context), m) ELSE Append(context, m)
    BY <2>3 DEF WithReply
  <2>5. m \in Messages
    BY <2>2
  <2>6. TailOf(context, newMessages, base, IF addedPartial THEN 1 ELSE 0)
    BY ONLY <2>3, <1>b DEF NewIsTail, InLoop, Failing, Lags
  <2>7. TailOf(context', newMessages', base', 1)
    BY ONLY <2>3, <2>4, <2>5, <2>6, <1>b, Tails DEF DataInv, CopiesOK
  <2> QED
    BY ONLY <2>3, <2>7 DEF NewIsTail, Lags
<1>45. ASSUME BeforeToolCallSettles PROVE NewIsTail'
  BY <1>45 DEF BeforeToolCallSettles, Batch, Allow, AnswerAtOnce, Call
<1>46. ASSUME StopHookSettles PROVE NewIsTail'
  BY <1>46 DEF StopHookSettles
<1>47. ASSUME ContinuationSettles PROVE NewIsTail'
  BY <1>47 DEF ContinuationSettles
<1>48. ASSUME NEW c \in CallIds, ToolEnds(c) PROVE NewIsTail'
  <2>1. UNCHANGED tailVars
    BY <1>48 DEF ToolEnds, EndTask, Batch, tailVars
  <2> QED
    BY <2>1, TailFrame
<1>49. ASSUME NEW c \in CallIds, ToolEndThrows(c) PROVE NewIsTail'
  <2>1. UNCHANGED tailVars
    BY <1>49 DEF ToolEndThrows, Batch, tailVars
  <2> QED
    BY <2>1, TailFrame
<1>50. ASSUME NEW c \in CallIds, ToolAborted(c) PROVE NewIsTail'
  <2>1. UNCHANGED tailVars
    BY <1>50 DEF ToolAborted, EndTask, Batch, tailVars
  <2> QED
    BY <2>1, TailFrame
<1>51. ASSUME NEW c \in CallIds, ToolEndSettles(c) PROVE NewIsTail'
  <2>1. UNCHANGED tailVars
    BY <1>51 DEF ToolEndSettles, Batch, tailVars
  <2> QED
    BY <2>1, TailFrame
<1>52. CASE UNCHANGED vars
  <2>1. UNCHANGED tailVars
    BY <1>52 DEF vars, tailVars
  <2> QED
    BY <2>1, TailFrame
<1> HIDE <1>a, <1>b DEF DataInv, ListsOK, CopiesOK, LabelsOK, EventTypes, InLoop, Failing,
     NewIsTail, ReplyInContext, WaitMatchesLabel
<1> HIDE DEF BatchLabels, Lags
<1> HIDE DEF agentState, queues, runVars, control, locals, batchVars, history, Emit, Await, Goto, At
<1> QED
  BY <1>1, <1>2, <1>3, <1>4, <1>5, <1>6, <1>7, <1>8, <1>9, <1>10, <1>11, <1>12, <1>13, <1>14,
       <1>15, <1>16, <1>17, <1>18, <1>19, <1>20, <1>21, <1>22, <1>23, <1>24, <1>24a, <1>25, <1>26, <1>27,
       <1>28, <1>29, <1>30, <1>31, <1>32, <1>33, <1>34, <1>35, <1>36, <1>37, <1>38, <1>39, <1>40,
       <1>41, <1>42, <1>43, <1>44, <1>45, <1>46, <1>47, <1>48, <1>49, <1>50, <1>51, <1>52,
       BoundsAssumption
  DEF Next, HostCall, LoopStep, External, TaskStep

\* Every step keeps the response at the end of the context until it is answered.
LEMMA StepReply == ASSUME TailInv, [Next]_vars PROVE ReplyInContext'
<1>a. /\ turn \in Nat /\ WaitMatchesLabel
      /\ pc \in {"replyEnd", "turn"} => reply \in ReplySet
      /\ reply \in ReplySet \cup {NoMessage}
  BY BoundsAssumption
  DEF TailInv, CopyInv, ListInv, IInv, TypeOK, BatchOK, BatchShape, BatchLabels, ReplySet
<1>b. DataInv /\ NewIsTail /\ ReplyInContext /\ DataInv'
  BY StepData DEF TailInv, CopyInv, ListInv
<1> USE <1>a, <1>b, BoundsAssumption, MessageKinds
<1> USE DEF DataInv, ListsOK, CopiesOK, LabelsOK, EventTypes, InLoop, Failing, NewIsTail,
     ReplyInContext, WaitMatchesLabel
<1> USE DEF BatchLabels, Lags
<1> USE DEF agentState, queues, runVars, control, locals, batchVars, history, Emit, Await, Goto, At
<1>1. ASSUME NEW b \in Batches, Prompt(b) PROVE ReplyInContext'
  BY <1>1 DEF Prompt, StartRun
<1>2. ASSUME Continue PROVE ReplyInContext'
  BY <1>2 DEF Continue, StartRun
<1>3. ASSUME NEW b \in Batches, Steer(b) PROVE ReplyInContext'
  <2>1. UNCHANGED tailVars
    BY <1>3 DEF Steer, Host, tailVars
  <2> QED
    BY <2>1, ReplyFrame
<1>4. ASSUME NEW b \in Batches, FollowUp(b) PROVE ReplyInContext'
  <2>1. UNCHANGED tailVars
    BY <1>4 DEF FollowUp, Host, tailVars
  <2> QED
    BY <2>1, ReplyFrame
<1>5. ASSUME ClearQueues PROVE ReplyInContext'
  <2>1. UNCHANGED tailVars
    BY <1>5 DEF ClearQueues, Host, tailVars
  <2> QED
    BY <2>1, ReplyFrame
<1>6. ASSUME NEW m, RemoveQueuedMessages(m) PROVE ReplyInContext'
  <2>1. UNCHANGED tailVars
    BY <1>6 DEF RemoveQueuedMessages, Host, tailVars
  <2> QED
    BY <2>1, ReplyFrame
<1>7. ASSUME NEW q \in {"steering", "followUp"}, NEW m \in QueueModes, SetMode(q, m)
     PROVE ReplyInContext'
  <2>1. UNCHANGED tailVars
    BY <1>7 DEF SetMode, Host, tailVars
  <2> QED
    BY <2>1, ReplyFrame
<1>8. ASSUME Abort PROVE ReplyInContext'
  <2>1. UNCHANGED tailVars
    BY <1>8 DEF Abort, Host, tailVars
  <2> QED
    BY <2>1, ReplyFrame
<1>9. ASSUME Reset PROVE ReplyInContext'
  <2>1. UNCHANGED tailVars
    BY <1>9 DEF Reset, Host, tailVars
  <2> QED
    BY <2>1, ReplyFrame
<1>10. ASSUME ListenersSettle PROVE ReplyInContext'
  <2>1. UNCHANGED tailVars
    BY <1>10 DEF ListenersSettle, tailVars
  <2> QED
    BY <2>1, ReplyFrame
<1>11. ASSUME FinishRun PROVE ReplyInContext'
  BY <1>11 DEF FinishRun
<1>12. ASSUME Fail PROVE ReplyInContext'
  BY <1>12 DEF Fail, Assistant, Aborted
<1>13. ASSUME FailEnd PROVE ReplyInContext'
  BY <1>13 DEF FailEnd, EmitMessageEnd, EmitAgentEnd
<1>14. ASSUME Begin PROVE ReplyInContext'
  BY <1>14 DEF Begin
<1>15. ASSUME EmitPrompts PROVE ReplyInContext'
  BY <1>15 DEF EmitPrompts, EmitShown, EmitMessageEnd
<1>16. ASSUME PollSteering PROVE ReplyInContext'
  BY <1>16 DEF PollSteering, Polling
<1>17. ASSUME PollFollowUp PROVE ReplyInContext'
  BY <1>17 DEF PollFollowUp, Polling
<1>18. ASSUME RaceAborted PROVE ReplyInContext'
  BY <1>18 DEF RaceAborted, Polling
<1>19. ASSUME PollSettles PROVE ReplyInContext'
  BY <1>19 DEF PollSettles
<1>20. ASSUME FirstTurn PROVE ReplyInContext'
  BY <1>20 DEF FirstTurn, StartTurn
<1>21. ASSUME Inject PROVE ReplyInContext'
  BY <1>21 DEF Inject, EmitShown, EmitMessageEnd
<1>22. ASSUME Request PROVE ReplyInContext'
  <2> USE <1>22 DEF Request, Respond, Streaming, Asking, EmitShown, EmitMessageEnd, Assistant
  <2>0. CASE Aborted
    <3>1. PICK m : m = reply'
      OBVIOUS
    <3>2. m \in ReplySet
      BY <2>0, <3>1 DEF ReplySet
    <3>3. /\ context' = WithReply(m) /\ UNCHANGED <<newMessages, base>> /\ ~addedPartial'
          /\ pc \in {"inject", "stream"} /\ (addedPartial => pc = "stream" /\ context # <<>>)
          /\ pc' \in {"turn", "replyEnd"}
      BY <2>0, <3>1
    <3>4. context' = IF addedPartial THEN ReplaceAt(context, Len(context), m) ELSE Append(context, m)
      BY <3>3 DEF WithReply
    <3>5. m \in Messages
      BY <3>2
    <3>6. EndsWith(context', m)
      BY ONLY <3>3, <3>4, <3>5, <1>b, Ends DEF DataInv, CopiesOK
    <3>7. (m.stopReason = "stop" => m.id = turn') /\ (m.stopReason # "stop" => m.calls = 0)
      BY <2>0, <3>1
    <3> QED
      BY ONLY <3>1, <3>3, <3>6, <3>7 DEF ReplyInContext, BatchLabels
  <2>1. CASE ~Aborted
    BY <2>1
  <2> QED
    BY <2>0, <2>1
<1>23. ASSUME NextEvent PROVE ReplyInContext'
  BY <1>23 DEF NextEvent
<1>24. ASSUME ProviderAborted PROVE ReplyInContext'
  <2> USE <1>24 DEF ProviderAborted, Respond, Streaming, Asking, EmitShown, EmitMessageEnd, Assistant
  <2>1. PICK m : m = reply'
    OBVIOUS
  <2>2. m \in ReplySet
    BY <2>1 DEF ReplySet
  <2>3. /\ context' = WithReply(m) /\ UNCHANGED <<newMessages, base>>
        /\ pc \in {"inject", "stream"} /\ (addedPartial => pc = "stream" /\ context # <<>>)
        /\ pc' \in {"turn", "replyEnd"}
    BY <2>1
  <2>4. context' = IF addedPartial THEN ReplaceAt(context, Len(context), m) ELSE Append(context, m)
    BY <2>3 DEF WithReply
  <2>5. m \in Messages
    BY <2>2
  <2>6. EndsWith(context', m)
    BY ONLY <2>3, <2>4, <2>5, <1>b, Ends DEF DataInv, CopiesOK
  <2>7. (m.stopReason = "stop" => m.id = turn') /\ (m.stopReason # "stop" => m.calls = 0)
    BY <2>1
  <2> QED
    BY ONLY <2>1, <2>3, <2>6, <2>7 DEF ReplyInContext, BatchLabels
<1>24a. ASSUME ListenersAbort PROVE ReplyInContext'
  <2> USE <1>24a DEF ListenersAbort, Respond, Streaming, Asking, EmitShown, EmitMessageEnd, Assistant
  <2>1. PICK m : m = reply'
    OBVIOUS
  <2>2. m \in ReplySet
    BY <2>1 DEF ReplySet
  <2>3. /\ context' = WithReply(m) /\ UNCHANGED <<newMessages, base>>
        /\ (addedPartial => context # <<>>)
        /\ pc' \in {"turn", "replyEnd"}
    BY <2>1
  <2>4. context' = IF addedPartial THEN ReplaceAt(context, Len(context), m) ELSE Append(context, m)
    BY <2>3 DEF WithReply
  <2>5. m \in Messages
    BY <2>2
  <2>6. EndsWith(context', m)
    BY ONLY <2>3, <2>4, <2>5, <1>b, Ends DEF DataInv, CopiesOK
  <2>7. (m.stopReason = "stop" => m.id = turn') /\ (m.stopReason # "stop" => m.calls = 0)
    BY <2>1
  <2> QED
    BY ONLY <2>1, <2>3, <2>6, <2>7 DEF ReplyInContext, BatchLabels
<1>25. ASSUME ReplyEnd PROVE ReplyInContext'
  BY <1>25 DEF ReplyEnd, EmitMessageEnd
<1>26. ASSUME Turn PROVE ReplyInContext'
  BY <1>26 DEF Turn, EmitTurnEnd
<1>27. ASSUME Announce PROVE ReplyInContext'
  BY <1>27 DEF Announce, Batch, Call
<1>28. ASSUME PrepareToolCall PROVE ReplyInContext'
  BY <1>28 DEF PrepareToolCall, Batch, Allow, AnswerAtOnce, Call
<1>29. ASSUME BeforeToolCallAborted PROVE ReplyInContext'
  BY <1>29 DEF BeforeToolCallAborted, Batch, AnswerAtOnce, Call
<1>30. ASSUME Prepared PROVE ReplyInContext'
  BY <1>30 DEF Prepared, Batch, Launch, Call
<1>31. ASSUME LaunchAll PROVE ReplyInContext'
  BY <1>31 DEF LaunchAll, Batch, Launch
<1>32. ASSUME ToolsSettle PROVE ReplyInContext'
  BY <1>32 DEF ToolsSettle, Batch
<1>33. ASSUME EmitResult PROVE ReplyInContext'
  BY <1>33 DEF EmitResult, Batch, EmitShown, EmitMessageEnd, ToolResult
<1>34. ASSUME BatchDone PROVE ReplyInContext'
  BY <1>34 DEF BatchDone, EmitTurnEnd
<1>35. ASSUME AfterTurn PROVE ReplyInContext'
  BY <1>35 DEF AfterTurn
<1>36. ASSUME PolledSteering PROVE ReplyInContext'
  BY <1>36 DEF PolledSteering, StartTurn
<1>37. ASSUME PolledFollowUp PROVE ReplyInContext'
  BY <1>37 DEF PolledFollowUp, StartTurn
<1>38. ASSUME Continued PROVE ReplyInContext'
  BY <1>38 DEF Continued, StartTurn
<1>39. ASSUME End PROVE ReplyInContext'
  BY <1>39 DEF End, EmitAgentEnd
<1>40. ASSUME ListenersThrow PROVE ReplyInContext'
  BY <1>40 DEF ListenersThrow
<1>41. ASSUME ProviderStarts PROVE ReplyInContext'
  BY <1>41 DEF ProviderStarts, Streaming, Asking, EmitShown
<1>42. ASSUME ProviderUpdates PROVE ReplyInContext'
  BY <1>42 DEF ProviderUpdates, Streaming, Asking, EmitShown
<1>43. ASSUME ProviderThrows PROVE ReplyInContext'
  BY <1>43 DEF ProviderThrows
<1>44. ASSUME NEW k \in 0..MaxCalls, NEW stop \in {"stop", "error"}, stop = "error" => k = 0,
     ProviderDone(k, stop) PROVE ReplyInContext'
  <2> USE <1>44 DEF ProviderDone, Respond, Streaming, Asking, EmitShown, EmitMessageEnd, Assistant
  <2>1. PICK m : m = reply'
    OBVIOUS
  <2>2. m \in ReplySet
    BY <2>1 DEF ReplySet
  <2>3. /\ context' = WithReply(m) /\ UNCHANGED <<newMessages, base>>
        /\ pc \in {"inject", "stream"} /\ (addedPartial => pc = "stream" /\ context # <<>>)
        /\ pc' \in {"turn", "replyEnd"}
    BY <2>1
  <2>4. context' = IF addedPartial THEN ReplaceAt(context, Len(context), m) ELSE Append(context, m)
    BY <2>3 DEF WithReply
  <2>5. m \in Messages
    BY <2>2
  <2>6. EndsWith(context', m)
    BY ONLY <2>3, <2>4, <2>5, <1>b, Ends DEF DataInv, CopiesOK
  <2>7. (m.stopReason = "stop" => m.id = turn') /\ (m.stopReason # "stop" => m.calls = 0)
    BY <2>1
  <2> QED
    BY ONLY <2>1, <2>3, <2>6, <2>7 DEF ReplyInContext, BatchLabels
<1>45. ASSUME BeforeToolCallSettles PROVE ReplyInContext'
  BY <1>45 DEF BeforeToolCallSettles, Batch, Allow, AnswerAtOnce, Call
<1>46. ASSUME StopHookSettles PROVE ReplyInContext'
  BY <1>46 DEF StopHookSettles
<1>47. ASSUME ContinuationSettles PROVE ReplyInContext'
  BY <1>47 DEF ContinuationSettles
<1>48. ASSUME NEW c \in CallIds, ToolEnds(c) PROVE ReplyInContext'
  <2>1. UNCHANGED tailVars
    BY <1>48 DEF ToolEnds, EndTask, Batch, tailVars
  <2> QED
    BY <2>1, ReplyFrame
<1>49. ASSUME NEW c \in CallIds, ToolEndThrows(c) PROVE ReplyInContext'
  <2>1. UNCHANGED tailVars
    BY <1>49 DEF ToolEndThrows, Batch, tailVars
  <2> QED
    BY <2>1, ReplyFrame
<1>50. ASSUME NEW c \in CallIds, ToolAborted(c) PROVE ReplyInContext'
  <2>1. UNCHANGED tailVars
    BY <1>50 DEF ToolAborted, EndTask, Batch, tailVars
  <2> QED
    BY <2>1, ReplyFrame
<1>51. ASSUME NEW c \in CallIds, ToolEndSettles(c) PROVE ReplyInContext'
  <2>1. UNCHANGED tailVars
    BY <1>51 DEF ToolEndSettles, Batch, tailVars
  <2> QED
    BY <2>1, ReplyFrame
<1>52. CASE UNCHANGED vars
  <2>1. UNCHANGED tailVars
    BY <1>52 DEF vars, tailVars
  <2> QED
    BY <2>1, ReplyFrame
<1> HIDE <1>a, <1>b DEF DataInv, ListsOK, CopiesOK, LabelsOK, EventTypes, InLoop, Failing,
     NewIsTail, ReplyInContext, WaitMatchesLabel
<1> HIDE DEF BatchLabels, Lags
<1> HIDE DEF agentState, queues, runVars, control, locals, batchVars, history, Emit, Await, Goto, At
<1> QED
  BY <1>1, <1>2, <1>3, <1>4, <1>5, <1>6, <1>7, <1>8, <1>9, <1>10, <1>11, <1>12, <1>13, <1>14,
       <1>15, <1>16, <1>17, <1>18, <1>19, <1>20, <1>21, <1>22, <1>23, <1>24, <1>24a, <1>25, <1>26, <1>27,
       <1>28, <1>29, <1>30, <1>31, <1>32, <1>33, <1>34, <1>35, <1>36, <1>37, <1>38, <1>39, <1>40,
       <1>41, <1>42, <1>43, <1>44, <1>45, <1>46, <1>47, <1>48, <1>49, <1>50, <1>51, <1>52,
       BoundsAssumption
  DEF Next, HostCall, LoopStep, External, TaskStep

-----------------------------------------------------------------------------
(* Tool calls and their results                                            *)

\* The three hold of a new Agent.
LEMMA InitTalk == Init => ResultsInOrder /\ AllAnswered /\ TurnTasks
<1> SUFFICES ASSUME Init PROVE ResultsInOrder /\ AllAnswered /\ TurnTasks
  OBVIOUS
<1>1. ResultsInOrder /\ AllAnswered
  BY DEF Init, ResultsInOrder, AllAnswered, InLoop, BatchLabels
<1>2. TurnTasks
  BY DEF Init, TurnTasks, BatchLabels, NoTask
<1> QED
  BY <1>1, <1>2

\* What ResultsInOrder reads.
resultVars == <<pc, toolResults, turn, batchMode, idx, activeRun, abortedRuns, reply>>

\* A step that leaves these variables keeps ResultsInOrder.
LEMMA ResultsFrame == ASSUME ResultsInOrder, UNCHANGED resultVars PROVE ResultsInOrder'
  BY DEF resultVars, ResultsInOrder, BatchLabels, Aborted, ToolResult

\* What TurnTasks reads.
taskVars == <<pc, turn, tools, activeRun, reply>>

\* A step that leaves these variables keeps TurnTasks.
LEMMA TurnFrame == ASSUME TurnTasks, UNCHANGED taskVars PROVE TurnTasks'
  BY DEF taskVars, TurnTasks, BatchLabels

\* Every step keeps the results in the order of the calls.
LEMMA StepResults == ASSUME TalkInv, [Next]_vars PROVE ResultsInOrder'
<1>a. /\ turn \in Nat /\ idx \in Nat /\ WaitMatchesLabel /\ (activeRun = 0 <=> pc = "idle")
      /\ pc \in BatchLabels \cup {"replyEnd", "turn", "afterTurn"} => reply \in ReplySet
      /\ pc \in BatchLabels => turn \in 1..MaxTurns /\ reply.calls >= 1 /\ idx <= reply.calls + 1
      /\ pc \in {"prepare", "prepared", "resultEnd", "resulted"} => idx <= reply.calls /\ Call \in CallIds
      /\ reply \in ReplySet \cup {NoMessage}
      /\ pc = "prepare" => tools[Call].status = "announced" /\ tools[Call].run = activeRun
      /\ tools \in [CallIds -> Tasks] /\ batchMode \in {"sequential", "parallel"}
  BY BoundsAssumption, CallInBatch
  DEF TalkInv, PendingInv, PendingOfRun, IInv, TypeOK, BatchOK, BatchShape, BatchLabels, ReplySet, RunShape
<1>b. DataInv /\ DataInv' /\ NewIsTail /\ ReplyInContext /\ CopiesAgree /\ ResultsInOrder /\ AllAnswered /\ TurnTasks
  BY StepData DEF TalkInv, ListInv
<1> USE <1>a, <1>b, BoundsAssumption
<1> USE DEF ResultsInOrder, BatchLabels, agentState, queues, runVars, control, locals, batchVars,
     history, Emit, Await, Goto, At, EventTypes, WaitMatchesLabel
<1>1. ASSUME NEW b \in Batches, Prompt(b) PROVE ResultsInOrder'
  BY <1>1 DEF Prompt, StartRun
<1>2. ASSUME Continue PROVE ResultsInOrder'
  BY <1>2 DEF Continue, StartRun
<1>3. ASSUME NEW b \in Batches, Steer(b) PROVE ResultsInOrder'
  <2>1. UNCHANGED resultVars
    BY <1>3 DEF Steer, Host, resultVars
  <2> QED
    BY <2>1, ResultsFrame
<1>4. ASSUME NEW b \in Batches, FollowUp(b) PROVE ResultsInOrder'
  <2>1. UNCHANGED resultVars
    BY <1>4 DEF FollowUp, Host, resultVars
  <2> QED
    BY <2>1, ResultsFrame
<1>5. ASSUME ClearQueues PROVE ResultsInOrder'
  <2>1. UNCHANGED resultVars
    BY <1>5 DEF ClearQueues, Host, resultVars
  <2> QED
    BY <2>1, ResultsFrame
<1>6. ASSUME NEW m, RemoveQueuedMessages(m) PROVE ResultsInOrder'
  <2>1. UNCHANGED resultVars
    BY <1>6 DEF RemoveQueuedMessages, Host, resultVars
  <2> QED
    BY <2>1, ResultsFrame
<1>7. ASSUME NEW q \in {"steering", "followUp"}, NEW m \in QueueModes, SetMode(q, m)
     PROVE ResultsInOrder'
  <2>1. UNCHANGED resultVars
    BY <1>7 DEF SetMode, Host, resultVars
  <2> QED
    BY <2>1, ResultsFrame
<1>8. ASSUME Abort PROVE ResultsInOrder'
  <2> USE <1>8 DEF Abort, Host
  <2>1. UNCHANGED <<pc, toolResults, turn, batchMode, idx, reply>> /\ (Aborted => Aborted')
    BY DEF Aborted
  <2> QED
    BY ONLY <1>b, <2>1 DEF ResultsInOrder, BatchLabels, ToolResult
<1>9. ASSUME Reset PROVE ResultsInOrder'
  <2>1. UNCHANGED resultVars
    BY <1>9 DEF Reset, Host, resultVars
  <2> QED
    BY <2>1, ResultsFrame
<1>10. ASSUME ListenersSettle PROVE ResultsInOrder'
  <2>1. UNCHANGED resultVars
    BY <1>10 DEF ListenersSettle, resultVars
  <2> QED
    BY <2>1, ResultsFrame
<1>11. ASSUME FinishRun PROVE ResultsInOrder'
  BY <1>11 DEF FinishRun
<1>12. ASSUME Fail PROVE ResultsInOrder'
  BY <1>12 DEF Fail, Assistant, Aborted
<1>13. ASSUME FailEnd PROVE ResultsInOrder'
  BY <1>13 DEF FailEnd, EmitMessageEnd, EmitAgentEnd
<1>14. ASSUME Begin PROVE ResultsInOrder'
  BY <1>14 DEF Begin
<1>15. ASSUME EmitPrompts PROVE ResultsInOrder'
  BY <1>15 DEF EmitPrompts, EmitShown, EmitMessageEnd
<1>16. ASSUME PollSteering PROVE ResultsInOrder'
  BY <1>16 DEF PollSteering, Polling
<1>17. ASSUME PollFollowUp PROVE ResultsInOrder'
  BY <1>17 DEF PollFollowUp, Polling
<1>18. ASSUME RaceAborted PROVE ResultsInOrder'
  BY <1>18 DEF RaceAborted, Polling
<1>19. ASSUME PollSettles PROVE ResultsInOrder'
  BY <1>19 DEF PollSettles
<1>20. ASSUME FirstTurn PROVE ResultsInOrder'
  BY <1>20 DEF FirstTurn, StartTurn
<1>21. ASSUME Inject PROVE ResultsInOrder'
  BY <1>21 DEF Inject, EmitShown, EmitMessageEnd
<1>22. ASSUME Request PROVE ResultsInOrder'
  BY <1>22 DEF Request, Respond, Streaming, Asking, EmitShown, EmitMessageEnd, Assistant
<1>23. ASSUME NextEvent PROVE ResultsInOrder'
  BY <1>23 DEF NextEvent
<1>24. ASSUME ProviderAborted PROVE ResultsInOrder'
  BY <1>24 DEF ProviderAborted, Respond, Streaming, Asking, EmitShown, EmitMessageEnd, Assistant
<1>24a. ASSUME ListenersAbort PROVE ResultsInOrder'
  BY <1>24a DEF ListenersAbort, Respond, Streaming, Asking, EmitShown, EmitMessageEnd, Assistant
<1>25. ASSUME ReplyEnd PROVE ResultsInOrder'
  BY <1>25 DEF ReplyEnd, EmitMessageEnd
<1>26. ASSUME Turn PROVE ResultsInOrder'
  BY <1>26 DEF Turn, EmitTurnEnd
<1>27. ASSUME Announce PROVE ResultsInOrder'
  <2> USE <1>27 DEF Announce, Batch, Call
  <2>1. UNCHANGED <<toolResults, turn, batchMode, idx, reply>> /\ (Aborted <=> Aborted')
        /\ pc = "announce" /\ idx <= reply.calls
    BY DEF Aborted
  <2>2. (pc' = "batchDone" /\ batchMode = "sequential" /\ Aborted) \/ pc' = "prepare"
    OBVIOUS
  <2> QED
    BY ONLY <1>b, <2>1, <2>2 DEF ResultsInOrder, BatchLabels, ToolResult
<1>28. ASSUME PrepareToolCall PROVE ResultsInOrder'
  BY <1>28 DEF PrepareToolCall, Batch, Allow, AnswerAtOnce, Call
<1>29. ASSUME BeforeToolCallAborted PROVE ResultsInOrder'
  BY <1>29 DEF BeforeToolCallAborted, Batch, AnswerAtOnce, Call
<1>30. ASSUME Prepared PROVE ResultsInOrder'
  BY <1>30 DEF Prepared, Batch, Launch, Call
<1>31. ASSUME LaunchAll PROVE ResultsInOrder'
  BY <1>31 DEF LaunchAll, Batch, Launch
<1>32. ASSUME ToolsSettle PROVE ResultsInOrder'
  BY <1>32 DEF ToolsSettle, Batch
<1>33. ASSUME EmitResult PROVE ResultsInOrder'
  <2> USE <1>33 DEF EmitResult, Batch, EmitShown, EmitMessageEnd
  <2>1. CASE At("resulted")
    <3>1. /\ toolResults' = Append(toolResults, ToolResult(Call)) /\ idx' = idx + 1 /\ pc = "resulted"
          /\ UNCHANGED <<turn, batchMode, reply>> /\ (Aborted <=> Aborted')
      BY <2>1 DEF Aborted
    <3>2. \/ pc' = "result"
          \/ pc' = "batchDone" /\ Aborted
          \/ pc' = "announce" /\ batchMode = "sequential"
      BY <2>1
    <3>3. Len(toolResults) = idx - 1 /\ toolResults \in Seq(ResultMessages) /\ ToolResult(Call) \in ResultMessages
      BY <2>1, MessageKinds DEF DataInv, CopiesOK
    <3>4. /\ Len(toolResults') = idx' - 1
          /\ toolResults'[idx] = ToolResult(Call)
          /\ \A k \in 1..(idx - 1) : toolResults'[k] = toolResults[k]
      BY <3>1, <3>3
    <3>5. ASSUME NEW k \in 1..Len(toolResults') PROVE toolResults'[k] = ToolResult(<<turn, k>>)
      <4>1. CASE k = idx
        BY <4>1, <3>4 DEF Call, ToolResult
      <4>2. CASE k # idx
        <5>1. k \in 1..(idx - 1)
          BY <4>2, <3>1, <3>4
        <5>2. toolResults[k] = ToolResult(<<turn, k>>)
          BY <5>1, <3>1, <3>3
        <5> QED
          BY <5>1, <5>2, <3>4
      <4> QED
        BY <4>1, <4>2
    <3>6. \A k \in 1..Len(toolResults') : toolResults'[k] = ToolResult(<<turn', k>>)
      BY ONLY <3>1, <3>5
    <3> QED
      BY ONLY <3>1, <3>2, <3>4, <3>6 DEF ResultsInOrder, BatchLabels, ToolResult
  <2>2. CASE At("result") \/ At("resultEnd")
    <3>1. UNCHANGED <<toolResults, turn, batchMode, idx, reply>> /\ pc' \in {"resultEnd", "resulted"}
          /\ pc \in {"result", "resultEnd"}
      BY <2>2
    <3> QED
      BY ONLY <1>b, <3>1 DEF ResultsInOrder, BatchLabels, ToolResult
  <2> QED
    BY <2>1, <2>2
<1>34. ASSUME BatchDone PROVE ResultsInOrder'
  BY <1>34 DEF BatchDone, EmitTurnEnd
<1>35. ASSUME AfterTurn PROVE ResultsInOrder'
  BY <1>35 DEF AfterTurn
<1>36. ASSUME PolledSteering PROVE ResultsInOrder'
  BY <1>36 DEF PolledSteering, StartTurn
<1>37. ASSUME PolledFollowUp PROVE ResultsInOrder'
  BY <1>37 DEF PolledFollowUp, StartTurn
<1>38. ASSUME Continued PROVE ResultsInOrder'
  BY <1>38 DEF Continued, StartTurn
<1>39. ASSUME End PROVE ResultsInOrder'
  BY <1>39 DEF End, EmitAgentEnd
<1>40. ASSUME ListenersThrow PROVE ResultsInOrder'
  BY <1>40 DEF ListenersThrow
<1>41. ASSUME ProviderStarts PROVE ResultsInOrder'
  BY <1>41 DEF ProviderStarts, Streaming, Asking, EmitShown
<1>42. ASSUME ProviderUpdates PROVE ResultsInOrder'
  BY <1>42 DEF ProviderUpdates, Streaming, Asking, EmitShown
<1>43. ASSUME ProviderThrows PROVE ResultsInOrder'
  BY <1>43 DEF ProviderThrows
<1>44. ASSUME NEW k \in 0..MaxCalls, NEW stop \in {"stop", "error"}, stop = "error" => k = 0,
     ProviderDone(k, stop) PROVE ResultsInOrder'
  BY <1>44 DEF ProviderDone, Respond, Streaming, Asking, EmitShown, EmitMessageEnd, Assistant
<1>45. ASSUME BeforeToolCallSettles PROVE ResultsInOrder'
  BY <1>45 DEF BeforeToolCallSettles, Batch, Allow, AnswerAtOnce, Call
<1>46. ASSUME StopHookSettles PROVE ResultsInOrder'
  BY <1>46 DEF StopHookSettles
<1>47. ASSUME ContinuationSettles PROVE ResultsInOrder'
  BY <1>47 DEF ContinuationSettles
<1>48. ASSUME NEW c \in CallIds, ToolEnds(c) PROVE ResultsInOrder'
  <2>1. UNCHANGED resultVars
    BY <1>48 DEF ToolEnds, EndTask, Batch, resultVars
  <2> QED
    BY <2>1, ResultsFrame
<1>49. ASSUME NEW c \in CallIds, ToolEndThrows(c) PROVE ResultsInOrder'
  <2>1. UNCHANGED resultVars
    BY <1>49 DEF ToolEndThrows, Batch, resultVars
  <2> QED
    BY <2>1, ResultsFrame
<1>50. ASSUME NEW c \in CallIds, ToolAborted(c) PROVE ResultsInOrder'
  <2>1. UNCHANGED resultVars
    BY <1>50 DEF ToolAborted, EndTask, Batch, resultVars
  <2> QED
    BY <2>1, ResultsFrame
<1>51. ASSUME NEW c \in CallIds, ToolEndSettles(c) PROVE ResultsInOrder'
  <2>1. UNCHANGED resultVars
    BY <1>51 DEF ToolEndSettles, Batch, resultVars
  <2> QED
    BY <2>1, ResultsFrame
<1>52. CASE UNCHANGED vars
  <2>1. UNCHANGED resultVars
    BY <1>52 DEF vars, resultVars
  <2> QED
    BY <2>1, ResultsFrame
<1> HIDE <1>a, <1>b DEF ResultsInOrder, BatchLabels, agentState, queues, runVars, control, locals,
     batchVars, history, Emit, Await, Goto, At, EventTypes, WaitMatchesLabel
<1> QED
  BY <1>1, <1>2, <1>3, <1>4, <1>5, <1>6, <1>7, <1>8, <1>9, <1>10, <1>11, <1>12, <1>13, <1>14,
       <1>15, <1>16, <1>17, <1>18, <1>19, <1>20, <1>21, <1>22, <1>23, <1>24, <1>24a, <1>25, <1>26, <1>27,
       <1>28, <1>29, <1>30, <1>31, <1>32, <1>33, <1>34, <1>35, <1>36, <1>37, <1>38, <1>39, <1>40,
       <1>41, <1>42, <1>43, <1>44, <1>45, <1>46, <1>47, <1>48, <1>49, <1>50, <1>51, <1>52,
       BoundsAssumption
  DEF Next, HostCall, LoopStep, External, TaskStep

\* Every step keeps the tasks of the current response with the active run.
LEMMA StepTurn == ASSUME TalkInv, [Next]_vars PROVE TurnTasks'
<1>a. /\ turn \in Nat /\ idx \in Nat /\ WaitMatchesLabel /\ (activeRun = 0 <=> pc = "idle")
      /\ pc \in BatchLabels \cup {"replyEnd", "turn", "afterTurn"} => reply \in ReplySet
      /\ pc \in BatchLabels => turn \in 1..MaxTurns /\ reply.calls >= 1 /\ idx <= reply.calls + 1
      /\ pc \in {"prepare", "prepared", "resultEnd", "resulted"} => idx <= reply.calls /\ Call \in CallIds
      /\ reply \in ReplySet \cup {NoMessage}
      /\ pc = "prepare" => tools[Call].status = "announced" /\ tools[Call].run = activeRun
      /\ tools \in [CallIds -> Tasks] /\ batchMode \in {"sequential", "parallel"}
  BY BoundsAssumption, CallInBatch
  DEF TalkInv, PendingInv, PendingOfRun, IInv, TypeOK, BatchOK, BatchShape, BatchLabels, ReplySet, RunShape
<1>b. DataInv /\ DataInv' /\ NewIsTail /\ ReplyInContext /\ CopiesAgree /\ ResultsInOrder /\ AllAnswered /\ TurnTasks
  BY StepData DEF TalkInv, ListInv
<1> USE <1>a, <1>b, BoundsAssumption
<1> USE DEF TurnTasks, BatchLabels, agentState, queues, runVars, control, locals, batchVars,
     history, Emit, Await, Goto, At, EventTypes, WaitMatchesLabel
<1>1. ASSUME NEW b \in Batches, Prompt(b) PROVE TurnTasks'
  BY <1>1 DEF Prompt, StartRun
<1>2. ASSUME Continue PROVE TurnTasks'
  BY <1>2 DEF Continue, StartRun
<1>3. ASSUME NEW b \in Batches, Steer(b) PROVE TurnTasks'
  <2>1. UNCHANGED taskVars
    BY <1>3 DEF Steer, Host, taskVars
  <2> QED
    BY <2>1, TurnFrame
<1>4. ASSUME NEW b \in Batches, FollowUp(b) PROVE TurnTasks'
  <2>1. UNCHANGED taskVars
    BY <1>4 DEF FollowUp, Host, taskVars
  <2> QED
    BY <2>1, TurnFrame
<1>5. ASSUME ClearQueues PROVE TurnTasks'
  <2>1. UNCHANGED taskVars
    BY <1>5 DEF ClearQueues, Host, taskVars
  <2> QED
    BY <2>1, TurnFrame
<1>6. ASSUME NEW m, RemoveQueuedMessages(m) PROVE TurnTasks'
  <2>1. UNCHANGED taskVars
    BY <1>6 DEF RemoveQueuedMessages, Host, taskVars
  <2> QED
    BY <2>1, TurnFrame
<1>7. ASSUME NEW q \in {"steering", "followUp"}, NEW m \in QueueModes, SetMode(q, m)
     PROVE TurnTasks'
  <2>1. UNCHANGED taskVars
    BY <1>7 DEF SetMode, Host, taskVars
  <2> QED
    BY <2>1, TurnFrame
<1>8. ASSUME Abort PROVE TurnTasks'
  <2>1. UNCHANGED taskVars
    BY <1>8 DEF Abort, Host, taskVars
  <2> QED
    BY <2>1, TurnFrame
<1>9. ASSUME Reset PROVE TurnTasks'
  <2>1. UNCHANGED taskVars
    BY <1>9 DEF Reset, Host, taskVars
  <2> QED
    BY <2>1, TurnFrame
<1>10. ASSUME ListenersSettle PROVE TurnTasks'
  <2>1. UNCHANGED taskVars
    BY <1>10 DEF ListenersSettle, taskVars
  <2> QED
    BY <2>1, TurnFrame
<1>11. ASSUME FinishRun PROVE TurnTasks'
  BY <1>11 DEF FinishRun
<1>12. ASSUME Fail PROVE TurnTasks'
  BY <1>12 DEF Fail, Assistant, Aborted
<1>13. ASSUME FailEnd PROVE TurnTasks'
  BY <1>13 DEF FailEnd, EmitMessageEnd, EmitAgentEnd
<1>14. ASSUME Begin PROVE TurnTasks'
  BY <1>14 DEF Begin
<1>15. ASSUME EmitPrompts PROVE TurnTasks'
  BY <1>15 DEF EmitPrompts, EmitShown, EmitMessageEnd
<1>16. ASSUME PollSteering PROVE TurnTasks'
  BY <1>16 DEF PollSteering, Polling
<1>17. ASSUME PollFollowUp PROVE TurnTasks'
  BY <1>17 DEF PollFollowUp, Polling
<1>18. ASSUME RaceAborted PROVE TurnTasks'
  BY <1>18 DEF RaceAborted, Polling
<1>19. ASSUME PollSettles PROVE TurnTasks'
  BY <1>19 DEF PollSettles
<1>20. ASSUME FirstTurn PROVE TurnTasks'
  BY <1>20 DEF FirstTurn, StartTurn
<1>21. ASSUME Inject PROVE TurnTasks'
  BY <1>21 DEF Inject, EmitShown, EmitMessageEnd
<1>22. ASSUME Request PROVE TurnTasks'
  BY <1>22 DEF Request, Respond, Streaming, Asking, EmitShown, EmitMessageEnd, Assistant
<1>23. ASSUME NextEvent PROVE TurnTasks'
  BY <1>23 DEF NextEvent
<1>24. ASSUME ProviderAborted PROVE TurnTasks'
  BY <1>24 DEF ProviderAborted, Respond, Streaming, Asking, EmitShown, EmitMessageEnd, Assistant
<1>24a. ASSUME ListenersAbort PROVE TurnTasks'
  BY <1>24a DEF ListenersAbort, Respond, Streaming, Asking, EmitShown, EmitMessageEnd, Assistant
<1>25. ASSUME ReplyEnd PROVE TurnTasks'
  BY <1>25 DEF ReplyEnd, EmitMessageEnd
<1>26. ASSUME Turn PROVE TurnTasks'
  BY <1>26 DEF Turn, EmitTurnEnd
<1>27. ASSUME Announce PROVE TurnTasks'
  <2> USE <1>27 DEF Announce, Batch, Call
  <2>1. CASE UNCHANGED tools
    BY <2>1
  <2>2. CASE pc' = "prepare"
    <3>1. UNCHANGED <<turn, activeRun, reply>> /\ pc = "announce"
      BY <2>2
    <3>4. tools' = [tools EXCEPT ![Call] = [NoTask EXCEPT !.status = "announced", !.run = activeRun]]
      BY <2>2
    <3>5. [NoTask EXCEPT !.status = "announced", !.run = activeRun].run = activeRun
      BY DEF NoTask
    <3>6. Call[1] = turn
      OBVIOUS
    <3>2. \A c \in CallIds : /\ c # Call => tools'[c] = tools[c]
                             /\ c = Call => c[1] = turn /\ tools'[c].run = activeRun
      BY ONLY <1>a, <3>4, <3>5, <3>6
    <3>3. turn \in Nat
      OBVIOUS
    <3> QED
      BY ONLY <1>b, <2>2, <3>1, <3>2, <3>3 DEF TurnTasks, BatchLabels
  <2> QED
    BY <2>1, <2>2
<1>28. ASSUME PrepareToolCall PROVE TurnTasks'
  <2> USE <1>28 DEF PrepareToolCall, Batch, Allow, AnswerAtOnce, Call
  <2>1. UNCHANGED <<turn, activeRun, reply>> /\ pc \in BatchLabels /\ pc' \in BatchLabels
    OBVIOUS
  <2>2. \A c \in CallIds : /\ tools'[c].run = tools[c].run
                           /\ tools'[c].status = "none" <=> tools[c].status = "none"
    BY DEF Tasks
  <2> QED
    BY ONLY <1>b, <2>1, <2>2 DEF TurnTasks, BatchLabels
<1>29. ASSUME BeforeToolCallAborted PROVE TurnTasks'
  BY <1>29 DEF BeforeToolCallAborted, Batch, AnswerAtOnce, Call
<1>30. ASSUME Prepared PROVE TurnTasks'
  <2> USE <1>30 DEF Prepared, Batch, Launch, Call
  <2>1. UNCHANGED <<turn, activeRun, reply>> /\ pc \in BatchLabels /\ pc' \in BatchLabels
    OBVIOUS
  <2>2. \A c \in CallIds : /\ tools'[c].run = tools[c].run
                           /\ tools'[c].status = "none" <=> tools[c].status = "none"
    BY DEF Tasks
  <2> QED
    BY ONLY <1>b, <2>1, <2>2 DEF TurnTasks, BatchLabels
<1>31. ASSUME LaunchAll PROVE TurnTasks'
  <2> USE <1>31 DEF LaunchAll, Batch, Launch
  <2>1. UNCHANGED <<turn, activeRun, reply>> /\ pc \in BatchLabels /\ pc' \in BatchLabels
    OBVIOUS
  <2>2. \A c \in CallIds : /\ tools'[c].run = tools[c].run
                           /\ tools'[c].status = "none" <=> tools[c].status = "none"
    BY DEF Tasks
  <2> QED
    BY ONLY <1>b, <2>1, <2>2 DEF TurnTasks, BatchLabels
<1>32. ASSUME ToolsSettle PROVE TurnTasks'
  BY <1>32 DEF ToolsSettle, Batch
<1>33. ASSUME EmitResult PROVE TurnTasks'
  BY <1>33 DEF EmitResult, Batch, EmitShown, EmitMessageEnd, ToolResult
<1>34. ASSUME BatchDone PROVE TurnTasks'
  BY <1>34 DEF BatchDone, EmitTurnEnd
<1>35. ASSUME AfterTurn PROVE TurnTasks'
  BY <1>35 DEF AfterTurn
<1>36. ASSUME PolledSteering PROVE TurnTasks'
  BY <1>36 DEF PolledSteering, StartTurn
<1>37. ASSUME PolledFollowUp PROVE TurnTasks'
  BY <1>37 DEF PolledFollowUp, StartTurn
<1>38. ASSUME Continued PROVE TurnTasks'
  BY <1>38 DEF Continued, StartTurn
<1>39. ASSUME End PROVE TurnTasks'
  BY <1>39 DEF End, EmitAgentEnd
<1>40. ASSUME ListenersThrow PROVE TurnTasks'
  BY <1>40 DEF ListenersThrow
<1>41. ASSUME ProviderStarts PROVE TurnTasks'
  BY <1>41 DEF ProviderStarts, Streaming, Asking, EmitShown
<1>42. ASSUME ProviderUpdates PROVE TurnTasks'
  BY <1>42 DEF ProviderUpdates, Streaming, Asking, EmitShown
<1>43. ASSUME ProviderThrows PROVE TurnTasks'
  BY <1>43 DEF ProviderThrows
<1>44. ASSUME NEW k \in 0..MaxCalls, NEW stop \in {"stop", "error"}, stop = "error" => k = 0,
     ProviderDone(k, stop) PROVE TurnTasks'
  <2> USE <1>44 DEF ProviderDone, Respond, Streaming, Asking, EmitShown, EmitMessageEnd, Assistant
  <2>1. turn' = turn + 1 /\ UNCHANGED <<tools, activeRun>> /\ pc' \in {"turn", "replyEnd"}
    OBVIOUS
  <2>2. \A c \in CallIds : c[1] \in Nat
    BY DEF CallIds
  <2>3. \A c \in CallIds : c[1] > turn <=> c[1] > turn' \/ c[1] = turn'
    BY <2>1, <2>2
  <2> QED
    BY ONLY <1>b, <2>1, <2>3 DEF TurnTasks, BatchLabels
<1>45. ASSUME BeforeToolCallSettles PROVE TurnTasks'
  <2> USE <1>45 DEF BeforeToolCallSettles, Batch, Allow, AnswerAtOnce, Call
  <2>1. UNCHANGED <<turn, activeRun, reply>> /\ pc \in BatchLabels /\ pc' \in BatchLabels
    OBVIOUS
  <2>2. \A c \in CallIds : /\ tools'[c].run = tools[c].run
                           /\ tools'[c].status = "none" <=> tools[c].status = "none"
    BY DEF Tasks
  <2> QED
    BY ONLY <1>b, <2>1, <2>2 DEF TurnTasks, BatchLabels
<1>46. ASSUME StopHookSettles PROVE TurnTasks'
  BY <1>46 DEF StopHookSettles
<1>47. ASSUME ContinuationSettles PROVE TurnTasks'
  BY <1>47 DEF ContinuationSettles
<1>48. ASSUME NEW c \in CallIds, ToolEnds(c) PROVE TurnTasks'
  BY <1>48 DEF ToolEnds, EndTask, Batch
<1>49. ASSUME NEW c \in CallIds, ToolEndThrows(c) PROVE TurnTasks'
  BY <1>49 DEF ToolEndThrows, Batch
<1>50. ASSUME NEW c \in CallIds, ToolAborted(c) PROVE TurnTasks'
  BY <1>50 DEF ToolAborted, EndTask, Batch
<1>51. ASSUME NEW c \in CallIds, ToolEndSettles(c) PROVE TurnTasks'
  BY <1>51 DEF ToolEndSettles, Batch
<1>52. CASE UNCHANGED vars
  <2>1. UNCHANGED taskVars
    BY <1>52 DEF vars, taskVars
  <2> QED
    BY <2>1, TurnFrame
<1> HIDE <1>a, <1>b DEF TurnTasks, BatchLabels, agentState, queues, runVars, control, locals,
     batchVars, history, Emit, Await, Goto, At, EventTypes, WaitMatchesLabel
<1> QED
  BY <1>1, <1>2, <1>3, <1>4, <1>5, <1>6, <1>7, <1>8, <1>9, <1>10, <1>11, <1>12, <1>13, <1>14,
       <1>15, <1>16, <1>17, <1>18, <1>19, <1>20, <1>21, <1>22, <1>23, <1>24, <1>24a, <1>25, <1>26, <1>27,
       <1>28, <1>29, <1>30, <1>31, <1>32, <1>33, <1>34, <1>35, <1>36, <1>37, <1>38, <1>39, <1>40,
       <1>41, <1>42, <1>43, <1>44, <1>45, <1>46, <1>47, <1>48, <1>49, <1>50, <1>51, <1>52,
       BoundsAssumption
  DEF Next, HostCall, LoopStep, External, TaskStep

\* The role tells responses from other messages.
LEMMA RoleKinds ==
  /\ \A m \in HostMessages \cup ResultMessages : m.role # "assistant"
  /\ \A m \in ReplySet : m.role = "assistant" /\ m.id \in Nat /\ m.calls \in 0..MaxCalls
<1>1. ASSUME NEW m \in HostMessages PROVE m.role # "assistant"
  <2>1. PICK h \in HostIds : m = HostMessage(h)
    BY DEF HostMessages
  <2>2. m.role \in {"user", "custom"}
    BY <2>1, BatchesAssumption DEF HostMessage, HostIds
  <2> QED
    BY <2>2
<1>2. ASSUME NEW m \in ResultMessages PROVE m.role # "assistant"
  BY DEF ResultMessages
<1>3. ASSUME NEW m \in ReplySet
     PROVE m.role = "assistant" /\ m.id \in Nat /\ m.calls \in 0..MaxCalls
  BY DEF ReplySet
<1> QED
  BY <1>1, <1>2, <1>3

\* Answered and appending a message: what was answered stays answered, and a message
\* that is no response needs no answer.
LEMMA AnsweredGrows ==
  \A ms \in Seq(Messages), x \in Messages, lo \in Nat :
    /\ Answered(ms, Len(ms), Len(ms))
    /\ \A hi \in Int : hi <= Len(ms) /\ Answered(ms, lo, hi) => Answered(Append(ms, x), lo, hi)
    /\ \A hi \in Int : hi <= Len(ms) /\ Answered(ms, lo, Len(ms)) => Answered(ms, lo, hi)
    /\ x.role # "assistant" /\ Answered(ms, lo, Len(ms))
          => Answered(Append(ms, x), lo, Len(ms) + 1)
<1> SUFFICES ASSUME NEW ms \in Seq(Messages), NEW x \in Messages, NEW lo \in Nat
             PROVE  /\ Answered(ms, Len(ms), Len(ms))
                    /\ \A hi \in Int : hi <= Len(ms) /\ Answered(ms, lo, hi) => Answered(Append(ms, x), lo, hi)
                    /\ \A hi \in Int : hi <= Len(ms) /\ Answered(ms, lo, Len(ms)) => Answered(ms, lo, hi)
                    /\ x.role # "assistant" /\ Answered(ms, lo, Len(ms))
                          => Answered(Append(ms, x), lo, Len(ms) + 1)
  OBVIOUS
<1>0. Len(ms) \in Nat /\ \A m \in Messages : m.role = "assistant" => m.calls \in Nat
  <2>1. \A m \in ResponseMessages : m.calls \in Nat
    BY BoundsAssumption DEF ResponseMessages
  <2> QED
    BY <2>1, RoleKinds DEF Messages
<1>1. /\ Len(Append(ms, x)) = Len(ms) + 1 /\ Append(ms, x)[Len(ms) + 1] = x
      /\ \A i \in 1..Len(ms) : Append(ms, x)[i] = ms[i] /\ ms[i] \in Messages
  BY SeqElements
<1>2. Answered(ms, Len(ms), Len(ms))
  BY <1>0 DEF Answered
<1>3. ASSUME NEW hi \in Int, hi <= Len(ms), Answered(ms, lo, hi)
      PROVE  Answered(Append(ms, x), lo, hi)
  <2>1. ASSUME NEW i \in (lo + 1)..hi, Append(ms, x)[i].role = "assistant",
               NEW k \in 1..Append(ms, x)[i].calls
        PROVE  /\ i + k <= Len(Append(ms, x))
               /\ Append(ms, x)[i + k] = ToolResult(<<Append(ms, x)[i].id, k>>)
    <3>1. i \in 1..Len(ms) /\ Append(ms, x)[i] = ms[i] /\ ms[i].calls \in Nat
      BY <1>0, <1>1, <1>3, <2>1
    <3>2. i + k <= Len(ms) /\ ms[i + k] = ToolResult(<<ms[i].id, k>>)
      BY <3>1, <1>3, <2>1 DEF Answered
    <3>3. i + k \in 1..Len(ms)
      BY <3>1, <3>2, <1>0
    <3>4. i + k <= Len(ms) + 1
      BY <3>3, <1>0
    <3> QED
      BY <3>1, <3>2, <3>3, <3>4, <1>1
  <2> HIDE DEF ToolResult
  <2> QED
    BY <2>1 DEF Answered
<1>4. ASSUME NEW hi \in Int, hi <= Len(ms), Answered(ms, lo, Len(ms))
      PROVE  Answered(ms, lo, hi)
  BY <1>4, <1>0 DEF Answered
<1>5. ASSUME x.role # "assistant", Answered(ms, lo, Len(ms))
      PROVE  Answered(Append(ms, x), lo, Len(ms) + 1)
  <2>1. Answered(Append(ms, x), lo, Len(ms))
    BY <1>0, <1>3, <1>5
  <2>2. \A i \in (lo + 1)..(Len(ms) + 1) : i \in (lo + 1)..Len(ms) \/ i = Len(ms) + 1
    BY <1>0
  <2> QED
    BY <2>1, <2>2, <1>1, <1>5 DEF Answered
<1> HIDE DEF Answered
<1> QED
  BY <1>2, <1>3, <1>4, <1>5

\* A run that has added nothing has nothing to answer.
LEMMA StartAnswered == \A ms \in Seq(Messages) : Answered(ms, Len(ms), Len(ms))
<1> SUFFICES ASSUME NEW ms \in Seq(Messages) PROVE Answered(ms, Len(ms), Len(ms))
  OBVIOUS
<1>1. Len(ms) \in Nat
  OBVIOUS
<1> QED
  BY <1>1 DEF Answered

\* A response followed by a complete batch of results is answered.
LEMMA AnsweredBatch ==
  \A c \in Seq(Messages), t \in Seq(ResultMessages), r \in ReplySet, lo \in Nat :
    /\ EndsWith(c, r) /\ Len(t) = r.calls
    /\ \A k \in 1..Len(t) : t[k] = ToolResult(<<r.id, k>>)
    /\ Answered(c \o t, lo, Len(c) - 1)
    => Answered(c \o t, lo, Len(c \o t))
<1> SUFFICES ASSUME NEW c \in Seq(Messages), NEW t \in Seq(ResultMessages), NEW r \in ReplySet, NEW lo \in Nat,
                    EndsWith(c, r), Len(t) = r.calls,
                    \A k \in 1..Len(t) : t[k] = ToolResult(<<r.id, k>>),
                    Answered(c \o t, lo, Len(c) - 1)
             PROVE  Answered(c \o t, lo, Len(c \o t))
  OBVIOUS
<1>0. t \in Seq(Messages)
  BY SeqOfSubset, MessageKinds
<1>1. /\ Len(c) \in Nat /\ Len(t) \in Nat /\ Len(c \o t) = Len(c) + Len(t)
      /\ \A i \in 1..Len(c) : (c \o t)[i] = c[i]
      /\ \A i \in 1..Len(t) : (c \o t)[Len(c) + i] = t[i] /\ t[i] \in ResultMessages
      /\ Len(c) >= 1 /\ c[Len(c)] = r
  BY <1>0, SeqElements DEF EndsWith
<1>2. \A i \in (lo + 1)..Len(c \o t) :
         i \in (lo + 1)..(Len(c) - 1) \/ i = Len(c) \/ \E j \in 1..Len(t) : i = Len(c) + j
  <2> SUFFICES ASSUME NEW i \in (lo + 1)..(Len(c) + Len(t)), i > Len(c)
               PROVE  \E j \in 1..Len(t) : i = Len(c) + j
    BY <1>1
  <2>1. i - Len(c) \in 1..Len(t) /\ i = Len(c) + (i - Len(c))
    BY <1>1
  <2> QED
    BY <2>1
<1>3. \A j \in 1..Len(t) : (c \o t)[Len(c) + j].role # "assistant"
  BY <1>1, RoleKinds
<1>4. \A k \in 1..r.calls : Len(c) + k <= Len(c \o t) /\ (c \o t)[Len(c) + k] = ToolResult(<<r.id, k>>)
  BY <1>1
<1>5. (c \o t)[Len(c)] = r
  BY <1>1
<1> HIDE DEF ToolResult
<1> QED
  BY <1>2, <1>3, <1>4, <1>5 DEF Answered

\* A response without tool calls is answered.
LEMMA AnsweredEnd ==
  \A c \in Seq(Messages), r \in ReplySet, lo \in Nat :
    EndsWith(c, r) /\ r.calls = 0 /\ Answered(c, lo, Len(c) - 1) => Answered(c, lo, Len(c))
<1> SUFFICES ASSUME NEW c \in Seq(Messages), NEW r \in ReplySet, NEW lo \in Nat,
                    EndsWith(c, r), r.calls = 0, Answered(c, lo, Len(c) - 1)
             PROVE  Answered(c, lo, Len(c))
  OBVIOUS
<1>1. Len(c) \in Nat /\ c[Len(c)] = r
  BY DEF EndsWith
<1>2. \A i \in (lo + 1)..Len(c) : i \in (lo + 1)..(Len(c) - 1) \/ i = Len(c)
  BY <1>1
<1> QED
  BY <1>1, <1>2 DEF Answered

\* What AllAnswered reads.
saidVars == <<pc, messages, context, base, disturbed, activeRun, abortedRuns, superseded>>

\* A step that leaves these variables keeps AllAnswered.
LEMMA SaidFrame == ASSUME AllAnswered, UNCHANGED saidVars PROVE AllAnswered'
<1>1. InLoop' = InLoop /\ Answering' = Answering /\ Aborted' = Aborted
  BY DEF saidVars, InLoop, Answering, Aborted
<1>2. UNCHANGED <<pc, messages, context, base, disturbed, superseded>>
  BY DEF saidVars
<1> QED
  BY ONLY AllAnswered, <1>1, <1>2 DEF AllAnswered

\* Every step keeps the responses before the current one answered.
LEMMA StepAnswered == ASSUME TalkInv, [Next]_vars PROVE AllAnswered'
<1>a. /\ turn \in Nat /\ idx \in Nat /\ WaitMatchesLabel /\ (activeRun = 0 <=> pc = "idle")
      /\ pc \in BatchLabels \cup {"replyEnd", "turn", "afterTurn"} => reply \in ReplySet
      /\ pc \in BatchLabels => turn \in 1..MaxTurns /\ reply.calls >= 1 /\ idx <= reply.calls + 1
      /\ pc \in {"prepare", "prepared", "resultEnd", "resulted"} => idx <= reply.calls /\ Call \in CallIds
      /\ reply \in ReplySet \cup {NoMessage}
      /\ pc = "prepare" => tools[Call].status = "announced" /\ tools[Call].run = activeRun
      /\ tools \in [CallIds -> Tasks] /\ batchMode \in {"sequential", "parallel"}
  BY BoundsAssumption, CallInBatch
  DEF TalkInv, PendingInv, PendingOfRun, IInv, TypeOK, BatchOK, BatchShape, BatchLabels, ReplySet, RunShape
<1>b. DataInv /\ DataInv' /\ NewIsTail /\ ReplyInContext /\ CopiesAgree /\ ResultsInOrder /\ AllAnswered /\ TurnTasks
  BY StepData DEF TalkInv, ListInv
<1> USE <1>a, <1>b, BoundsAssumption
<1> USE DEF AllAnswered, BatchLabels, InLoop, Failing, Answering, agentState, queues, runVars,
     control, locals, batchVars, history, Emit, Await, Goto, At, EventTypes, WaitMatchesLabel
<1>1. ASSUME NEW b \in Batches, Prompt(b) PROVE AllAnswered'
  <2> USE <1>1 DEF Prompt, StartRun
  <2>1. base' = Len(messages) /\ UNCHANGED messages /\ pc' = "begin"
    OBVIOUS
  <2>2. Answered(messages, Len(messages), Len(messages))
    BY StartAnswered DEF DataInv, CopiesOK
  <2> QED
    BY ONLY <2>1, <2>2 DEF AllAnswered, Answering, BatchLabels
<1>2. ASSUME Continue PROVE AllAnswered'
  <2> USE <1>2 DEF Continue, StartRun
  <2>1. base' = Len(messages) /\ UNCHANGED messages /\ pc' = "begin"
    OBVIOUS
  <2>2. Answered(messages, Len(messages), Len(messages))
    BY StartAnswered DEF DataInv, CopiesOK
  <2> QED
    BY ONLY <2>1, <2>2 DEF AllAnswered, Answering, BatchLabels
<1>3. ASSUME NEW b \in Batches, Steer(b) PROVE AllAnswered'
  <2>1. UNCHANGED saidVars
    BY <1>3 DEF Steer, Host, saidVars
  <2> QED
    BY <2>1, SaidFrame
<1>4. ASSUME NEW b \in Batches, FollowUp(b) PROVE AllAnswered'
  <2>1. UNCHANGED saidVars
    BY <1>4 DEF FollowUp, Host, saidVars
  <2> QED
    BY <2>1, SaidFrame
<1>5. ASSUME ClearQueues PROVE AllAnswered'
  <2>1. UNCHANGED saidVars
    BY <1>5 DEF ClearQueues, Host, saidVars
  <2> QED
    BY <2>1, SaidFrame
<1>6. ASSUME NEW m, RemoveQueuedMessages(m) PROVE AllAnswered'
  <2>1. UNCHANGED saidVars
    BY <1>6 DEF RemoveQueuedMessages, Host, saidVars
  <2> QED
    BY <2>1, SaidFrame
<1>7. ASSUME NEW q \in {"steering", "followUp"}, NEW m \in QueueModes, SetMode(q, m)
     PROVE AllAnswered'
  <2>1. UNCHANGED saidVars
    BY <1>7 DEF SetMode, Host, saidVars
  <2> QED
    BY <2>1, SaidFrame
<1>8. ASSUME Abort PROVE AllAnswered'
  <2> USE <1>8 DEF Abort, Host
  <2>1. UNCHANGED <<pc, messages, context, base, disturbed, superseded>> /\ (Aborted => Aborted')
    BY DEF Aborted
  <2> QED
    BY ONLY <1>b, <2>1 DEF AllAnswered, Answering, InLoop, BatchLabels
<1>9. ASSUME Reset PROVE AllAnswered'
  BY <1>9 DEF Reset, Host
<1>10. ASSUME ListenersSettle PROVE AllAnswered'
  <2>1. UNCHANGED saidVars
    BY <1>10 DEF ListenersSettle, saidVars
  <2> QED
    BY <2>1, SaidFrame
<1>11. ASSUME FinishRun PROVE AllAnswered'
  BY <1>11 DEF FinishRun
<1>12. ASSUME Fail PROVE AllAnswered'
  BY <1>12 DEF Fail, Assistant, Aborted
<1>13. ASSUME FailEnd PROVE AllAnswered'
  BY <1>13 DEF FailEnd, EmitMessageEnd, EmitAgentEnd
<1>14. ASSUME Begin PROVE AllAnswered'
  BY <1>14 DEF Begin
<1>15. ASSUME EmitPrompts PROVE AllAnswered'
  <2> USE <1>15 DEF EmitPrompts, EmitShown, EmitMessageEnd
  <2>1. CASE At("promptEnd")
    <3>1. PICK m : m = Head(prompts)
      OBVIOUS
    <3>2. m \in HostMessages
      BY <2>1, <3>1 DEF DataInv, ListsOK, LabelsOK
    <3>3. m \in Messages /\ m.role # "assistant"
      BY <3>2, MessageKinds, RoleKinds
    <3>4. messages' = Append(messages, m) /\ UNCHANGED <<base, disturbed, superseded>> /\ pc = "promptEnd" /\ pc' = "prompts"
      BY <2>1, <3>1
    <3>5. ASSUME ~disturbed, superseded = "none" PROVE Answered(Append(messages, m), base, Len(messages) + 1)
      <4>1. Answered(messages, base, Len(messages))
        BY ONLY <1>b, <3>4, <3>5 DEF AllAnswered, InLoop, Failing, Answering, BatchLabels
      <4> QED
        BY ONLY <4>1, <3>3, <1>b, AnsweredGrows DEF DataInv, CopiesOK
    <3>6. Len(messages') = Len(messages) + 1
      BY ONLY <3>3, <3>4, <1>b DEF DataInv, CopiesOK
    <3> QED
      BY ONLY <3>4, <3>5, <3>6 DEF AllAnswered, Answering, BatchLabels
  <2>2. CASE ~At("promptEnd")
    <3>1. UNCHANGED <<messages, base, disturbed, superseded>> /\ pc \notin {"afterTurn", "end", "finish"}
          /\ pc \in {"prompts", "promptEnd"} /\ pc' \in {"prompts", "promptEnd"}
      BY <2>2
    <3> QED
      BY ONLY <3>1, <1>b DEF AllAnswered, InLoop, Failing, Answering, BatchLabels
  <2> QED
    BY <2>1, <2>2
<1>16. ASSUME PollSteering PROVE AllAnswered'
  BY <1>16 DEF PollSteering, Polling
<1>17. ASSUME PollFollowUp PROVE AllAnswered'
  BY <1>17 DEF PollFollowUp, Polling
<1>18. ASSUME RaceAborted PROVE AllAnswered'
  BY <1>18 DEF RaceAborted, Polling
<1>19. ASSUME PollSettles PROVE AllAnswered'
  BY <1>19 DEF PollSettles
<1>20. ASSUME FirstTurn PROVE AllAnswered'
  BY <1>20 DEF FirstTurn, StartTurn
<1>21. ASSUME Inject PROVE AllAnswered'
  <2> USE <1>21 DEF Inject, EmitShown, EmitMessageEnd
  <2>1. CASE At("injectEnd")
    <3>1. PICK m : m = Head(pendingMessages)
      OBVIOUS
    <3>2. m \in HostMessages
      BY <2>1, <3>1 DEF DataInv, ListsOK, LabelsOK
    <3>3. m \in Messages /\ m.role # "assistant"
      BY <3>2, MessageKinds, RoleKinds
    <3>4. messages' = Append(messages, m) /\ UNCHANGED <<base, disturbed, superseded>> /\ pc = "injectEnd" /\ pc' = "injected"
      BY <2>1, <3>1
    <3>5. ASSUME ~disturbed, superseded = "none" PROVE Answered(Append(messages, m), base, Len(messages) + 1)
      <4>1. Answered(messages, base, Len(messages))
        BY ONLY <1>b, <3>4, <3>5 DEF AllAnswered, InLoop, Failing, Answering, BatchLabels
      <4> QED
        BY ONLY <4>1, <3>3, <1>b, AnsweredGrows DEF DataInv, CopiesOK
    <3>6. Len(messages') = Len(messages) + 1
      BY ONLY <3>3, <3>4, <1>b DEF DataInv, CopiesOK
    <3> QED
      BY ONLY <3>4, <3>5, <3>6 DEF AllAnswered, Answering, BatchLabels
  <2>2. CASE ~At("injectEnd")
    <3>1. UNCHANGED <<messages, base, disturbed, superseded>> /\ pc \notin {"afterTurn", "end", "finish"}
          /\ pc \in {"inject", "injectEnd", "injected"} /\ pc' \in {"inject", "injectEnd", "injected"}
      BY <2>2
    <3> QED
      BY ONLY <3>1, <1>b DEF AllAnswered, InLoop, Failing, Answering, BatchLabels
  <2> QED
    BY <2>1, <2>2
<1>22. ASSUME Request PROVE AllAnswered'
  <2> USE <1>22 DEF Request, Respond, Streaming, Asking, EmitShown, EmitMessageEnd, Assistant
  <2>1. CASE Aborted
    <3>1. ~addedPartial
      BY DEF DataInv, LabelsOK
    <3>2. UNCHANGED <<messages, base, disturbed, superseded>> /\ pc = "inject" /\ pc' = "replyEnd"
      BY <2>1, <3>1
    <3> QED
      BY ONLY <3>2, <1>b DEF AllAnswered, InLoop, Failing, Answering, BatchLabels
  <2>2. CASE ~Aborted
    <3>1. UNCHANGED <<messages, base, disturbed, superseded>> /\ pc = "inject" /\ pc' = "stream"
      BY <2>2
    <3> QED
      BY ONLY <3>1, <1>b DEF AllAnswered, InLoop, Failing, Answering, BatchLabels
  <2> QED
    BY <2>1, <2>2
<1>23. ASSUME NextEvent PROVE AllAnswered'
  BY <1>23 DEF NextEvent
<1>24. ASSUME ProviderAborted PROVE AllAnswered'
  <2> USE <1>24 DEF ProviderAborted, Respond, Streaming, Asking, EmitShown, EmitMessageEnd, Assistant
  <2>1. CASE addedPartial
    <3>1. PICK m : m = reply'
      OBVIOUS
    <3>2. m \in ReplySet
      BY <2>1, <3>1 DEF ReplySet
    <3>3. m \in Messages
      BY <3>2, MessageKinds
    <3>4. /\ messages' = Append(messages, m) /\ UNCHANGED <<base, disturbed, superseded>>
          /\ pc = "stream" /\ pc' = "turn"
      BY <2>1, <3>1
    <3>5. ASSUME ~disturbed, superseded = "none" PROVE context' = messages'
      <4>1. CopiesAgree'
        BY StepCopies DEF TalkInv, CopyInv
      <4> QED
        BY ONLY <4>1, <3>4, <3>5 DEF CopiesAgree, InLoop, Failing, Prompting, Apart,
             BatchLabels
    <3>6. ASSUME ~disturbed, superseded = "none" PROVE Answered(Append(messages, m), base, Len(messages))
      <4>1. Answered(messages, base, Len(messages))
        BY ONLY <1>b, <3>4, <3>6 DEF AllAnswered, InLoop, Failing, Answering, BatchLabels
      <4>2. Len(messages) \in Int
        BY DEF DataInv, CopiesOK
      <4> QED
        BY ONLY <4>1, <4>2, <3>3, <1>b, AnsweredGrows DEF DataInv, CopiesOK
    <3>7. Len(messages') - 1 = Len(messages)
      BY ONLY <3>3, <3>4, <1>b DEF DataInv, CopiesOK
    <3> QED
      BY ONLY <3>4, <3>5, <3>6, <3>7 DEF AllAnswered, Answering, BatchLabels
  <2>2. CASE ~addedPartial
    <3>1. UNCHANGED <<messages, base, disturbed, superseded>> /\ pc \in {"stream"} /\ pc' = "replyEnd"
      BY <2>2
    <3> QED
      BY ONLY <3>1, <1>b DEF AllAnswered, InLoop, Failing, Answering, BatchLabels
  <2> QED
    BY <2>1, <2>2
<1>24a. ASSUME ListenersAbort PROVE AllAnswered'
  <2> USE <1>24a DEF ListenersAbort, Respond, Streaming, Asking, EmitShown, EmitMessageEnd, Assistant
  <2>1. CASE pc = "next"
    <3>0. addedPartial
      BY <2>1 DEF DataInv, LabelsOK
    <3>1. PICK m : m = reply'
      OBVIOUS
    <3>2. m \in ReplySet
      BY <2>1, <3>1 DEF ReplySet
    <3>3. m \in Messages
      BY <3>2, MessageKinds
    <3>4. /\ messages' = Append(messages, m) /\ UNCHANGED <<base, disturbed, superseded>>
          /\ pc = "next" /\ pc' = "turn"
      BY <2>1, <3>0, <3>1
    <3>5. ASSUME ~disturbed, superseded = "none" PROVE context' = messages'
      <4>1. CopiesAgree'
        BY StepCopies DEF TalkInv, CopyInv
      <4> QED
        BY ONLY <4>1, <3>4, <3>5 DEF CopiesAgree, InLoop, Failing, Prompting, Apart,
             BatchLabels
    <3>6. ASSUME ~disturbed, superseded = "none" PROVE Answered(Append(messages, m), base, Len(messages))
      <4>1. Answered(messages, base, Len(messages))
        BY ONLY <1>b, <3>4, <3>6 DEF AllAnswered, InLoop, Failing, Answering, BatchLabels
      <4>2. Len(messages) \in Int
        BY DEF DataInv, CopiesOK
      <4> QED
        BY ONLY <4>1, <4>2, <3>3, <1>b, AnsweredGrows DEF DataInv, CopiesOK
    <3>7. Len(messages') - 1 = Len(messages)
      BY ONLY <3>3, <3>4, <1>b DEF DataInv, CopiesOK
    <3> QED
      BY ONLY <3>4, <3>5, <3>6, <3>7 DEF AllAnswered, Answering, BatchLabels
  <2>2. CASE pc # "next"
    <3>1. superseded' # "none"
      BY <2>2
    <3> QED
      BY ONLY <3>1 DEF AllAnswered
  <2> QED
    BY <2>1, <2>2
<1>25. ASSUME ReplyEnd PROVE AllAnswered'
  <2> USE <1>25 DEF ReplyEnd, EmitMessageEnd
  <2>1. PICK m : m = reply
    OBVIOUS
  <2>2. m \in ReplySet
    BY <2>1 DEF ReplySet
  <2>3. m \in Messages
    BY <2>2, MessageKinds
  <2>4. /\ messages' = Append(messages, m) /\ UNCHANGED <<base, disturbed, superseded>>
        /\ pc = "replyEnd" /\ pc' = "turn"
    BY <2>1
  <2>5. ASSUME ~disturbed, superseded = "none" PROVE context' = messages'
    <3>1. CopiesAgree'
      BY StepCopies DEF TalkInv, CopyInv
    <3>2. ~addedPartial'
      BY <2>4 DEF DataInv, LabelsOK
    <3> QED
      BY ONLY <3>1, <3>2, <2>4, <2>5 DEF CopiesAgree, InLoop, Failing, Prompting, Apart, BatchLabels
  <2>6. ASSUME ~disturbed, superseded = "none" PROVE Answered(Append(messages, m), base, Len(messages))
    <3>1. Answered(messages, base, Len(messages))
      BY ONLY <1>b, <2>4, <2>6 DEF AllAnswered, InLoop, Failing, Answering, BatchLabels
    <3>2. Len(messages) \in Int
      BY DEF DataInv, CopiesOK
    <3> QED
      BY ONLY <3>1, <3>2, <2>3, <1>b, AnsweredGrows DEF DataInv, CopiesOK
  <2>7. Len(messages') - 1 = Len(messages)
    BY ONLY <2>3, <2>4, <1>b DEF DataInv, CopiesOK
  <2> QED
    BY ONLY <2>4, <2>5, <2>6, <2>7 DEF AllAnswered, Answering, BatchLabels
<1>26. ASSUME Turn PROVE AllAnswered'
  <2> USE <1>26 DEF Turn, EmitTurnEnd
  <2>1. CASE pc' = "announce"
    <3>1. UNCHANGED <<messages, context, base, disturbed, superseded>> /\ pc = "turn"
      BY <2>1
    <3> QED
      BY ONLY <2>1, <3>1, <1>b DEF AllAnswered, InLoop, Failing, Answering, BatchLabels
  <2>2. CASE pc' # "announce"
    <3>1. /\ UNCHANGED <<messages, context, base, disturbed, superseded>> /\ pc = "turn" /\ pc' \in {"end", "afterTurn"}
          /\ reply \in ReplySet
      BY <2>2 DEF DataInv, LabelsOK
    <3>2. reply.calls = 0 /\ EndsWith(context, reply)
      BY <2>2, <3>1 DEF ReplyInContext
    <3>3. ASSUME ~disturbed, superseded = "none" PROVE Answered(messages, base, Len(messages))
      <4>1. context = messages
        BY ONLY <1>b, <3>1, <3>3 DEF CopiesAgree, InLoop, Failing, Prompting, BatchLabels, Apart
      <4>2. Answered(messages, base, Len(context) - 1)
        BY ONLY <1>b, <3>1, <3>3 DEF AllAnswered, InLoop, Failing, Answering, BatchLabels
      <4> QED
        BY ONLY <4>1, <4>2, <3>1, <3>2, <1>b, AnsweredEnd DEF DataInv, CopiesOK
    <3> QED
      BY ONLY <3>1, <3>3 DEF AllAnswered, Answering, BatchLabels
  <2> QED
    BY <2>1, <2>2
<1>27. ASSUME Announce PROVE AllAnswered'
  BY <1>27 DEF Announce, Batch, Call
<1>28. ASSUME PrepareToolCall PROVE AllAnswered'
  BY <1>28 DEF PrepareToolCall, Batch, Allow, AnswerAtOnce, Call
<1>29. ASSUME BeforeToolCallAborted PROVE AllAnswered'
  BY <1>29 DEF BeforeToolCallAborted, Batch, AnswerAtOnce, Call
<1>30. ASSUME Prepared PROVE AllAnswered'
  BY <1>30 DEF Prepared, Batch, Launch, Call
<1>31. ASSUME LaunchAll PROVE AllAnswered'
  BY <1>31 DEF LaunchAll, Batch, Launch
<1>32. ASSUME ToolsSettle PROVE AllAnswered'
  BY <1>32 DEF ToolsSettle, Batch
<1>33. ASSUME EmitResult PROVE AllAnswered'
  <2> USE <1>33 DEF EmitResult, Batch, EmitShown, EmitMessageEnd
  <2>1. CASE At("resultEnd")
    <3>1. PICK m : m = ToolResult(Call)
      OBVIOUS
    <3>2. m \in Messages
      BY <2>1, <3>1, MessageKinds
    <3>3. messages' = Append(messages, m) /\ UNCHANGED <<context, base, disturbed, superseded>> /\ pc = "resultEnd" /\ pc' = "resulted"
      BY <2>1, <3>1
    <3>4. ASSUME ~disturbed, superseded = "none" PROVE Answered(Append(messages, m), base, Len(context) - 1)
      <4>1. Answered(messages, base, Len(context) - 1)
        BY ONLY <1>b, <3>3, <3>4 DEF AllAnswered, InLoop, Failing, Answering, BatchLabels
      <4>2. messages = context \o toolResults /\ toolResults \in Seq(Messages)
        BY <3>3, <3>4, SeqOfSubset, MessageKinds DEF CopiesAgree, InLoop, Failing, Prompting,
             BatchLabels, Apart, DataInv, CopiesOK
      <4>3. Len(context) - 1 \in Int /\ Len(context) - 1 <= Len(messages)
        BY ONLY <4>2, <1>b, SeqElements DEF DataInv, CopiesOK
      <4> QED
        BY ONLY <4>1, <4>3, <3>2, <1>b, AnsweredGrows DEF DataInv, CopiesOK
    <3> QED
      BY ONLY <3>3, <3>4 DEF AllAnswered, Answering, BatchLabels
  <2>2. CASE ~At("resultEnd")
    <3>1. /\ UNCHANGED <<messages, context, base, disturbed, superseded>>
          /\ pc \in BatchLabels /\ pc' \in BatchLabels
      BY <2>2
    <3> QED
      BY ONLY <3>1, <1>b DEF AllAnswered, InLoop, Failing, Answering, BatchLabels
  <2> QED
    BY <2>1, <2>2
<1>34. ASSUME BatchDone PROVE AllAnswered'
  <2> USE <1>34 DEF BatchDone, EmitTurnEnd
  <2>1. /\ UNCHANGED <<messages, base, disturbed, superseded>> /\ pc \in {"batchDone", "result"} /\ pc' = "afterTurn"
        /\ (Aborted <=> Aborted') /\ (pc = "result" => idx > reply.calls) /\ reply \in ReplySet
        /\ ~addedPartial
    BY DEF Aborted, DataInv, LabelsOK
  <2>2. ASSUME ~disturbed, superseded = "none", ~Aborted PROVE Answered(messages, base, Len(messages))
    <3>1. messages = context \o toolResults
      BY ONLY <1>b, <2>1, <2>2 DEF CopiesAgree, InLoop, Failing, Prompting, BatchLabels, Apart
    <3>2. Answered(messages, base, Len(context) - 1)
      BY ONLY <1>b, <2>1, <2>2 DEF AllAnswered, InLoop, Failing, Answering, BatchLabels
    <3>3. EndsWith(context, reply) /\ reply.id = turn
      BY ONLY <1>b, <2>1 DEF ReplyInContext, BatchLabels
    <3>4. /\ idx > reply.calls /\ Len(toolResults) = idx - 1
          /\ \A k \in 1..Len(toolResults) : toolResults[k] = ToolResult(<<turn, k>>)
      BY ONLY <1>b, <2>1, <2>2 DEF ResultsInOrder, BatchLabels
    <3>5. idx \in Nat /\ reply.calls \in Nat /\ idx <= reply.calls + 1
      BY <2>1, RoleKinds
    <3>6. Len(toolResults) = reply.calls
      BY ONLY <3>4, <3>5
    <3>7. \A k \in 1..Len(toolResults) : toolResults[k] = ToolResult(<<reply.id, k>>)
      BY ONLY <3>3, <3>4
    <3>8. Answered(context \o toolResults, base, Len(context) - 1)
      BY ONLY <3>1, <3>2
    <3>9. Answered(context \o toolResults, base, Len(context \o toolResults))
      BY ONLY <3>3, <3>6, <3>7, <3>8, <2>1, <1>b, AnsweredBatch DEF DataInv, CopiesOK
    <3> QED
      BY ONLY <3>1, <3>9
  <2> QED
    BY ONLY <2>1, <2>2 DEF AllAnswered, Answering, BatchLabels
<1>35. ASSUME AfterTurn PROVE AllAnswered'
  <2> USE <1>35 DEF AfterTurn
  <2>1. /\ UNCHANGED <<messages, context, base, disturbed, superseded>> /\ (Aborted <=> Aborted')
        /\ pc \in {"afterTurn", "end"} /\ pc' \in {"stopped", "end", "finish"}
        /\ pc' = "stopped" => ~Aborted
    BY DEF Aborted
  <2> QED
    BY ONLY <2>1, <1>b DEF AllAnswered, Answering, InLoop, Failing, BatchLabels
<1>36. ASSUME PolledSteering PROVE AllAnswered'
  BY <1>36 DEF PolledSteering, StartTurn
<1>37. ASSUME PolledFollowUp PROVE AllAnswered'
  BY <1>37 DEF PolledFollowUp, StartTurn
<1>38. ASSUME Continued PROVE AllAnswered'
  BY <1>38 DEF Continued, StartTurn
<1>39. ASSUME End PROVE AllAnswered'
  <2> USE <1>39 DEF End, EmitAgentEnd
  <2>1. /\ UNCHANGED <<messages, context, base, disturbed, superseded>> /\ (Aborted <=> Aborted')
        /\ pc \in {"afterTurn", "end"} /\ pc' \in {"stopped", "end", "finish"}
        /\ pc' = "stopped" => ~Aborted
    BY DEF Aborted
  <2> QED
    BY ONLY <2>1, <1>b DEF AllAnswered, Answering, InLoop, Failing, BatchLabels
<1>40. ASSUME ListenersThrow PROVE AllAnswered'
  BY <1>40 DEF ListenersThrow
<1>41. ASSUME ProviderStarts PROVE AllAnswered'
  BY <1>41 DEF ProviderStarts, Streaming, Asking, EmitShown
<1>42. ASSUME ProviderUpdates PROVE AllAnswered'
  BY <1>42 DEF ProviderUpdates, Streaming, Asking, EmitShown
<1>43. ASSUME ProviderThrows PROVE AllAnswered'
  BY <1>43 DEF ProviderThrows
<1>44. ASSUME NEW k \in 0..MaxCalls, NEW stop \in {"stop", "error"}, stop = "error" => k = 0,
     ProviderDone(k, stop) PROVE AllAnswered'
  <2> USE <1>44 DEF ProviderDone, Respond, Streaming, Asking, EmitShown, EmitMessageEnd, Assistant
  <2>1. CASE addedPartial
    <3>1. PICK m : m = reply'
      OBVIOUS
    <3>2. m \in ReplySet
      BY <2>1, <3>1 DEF ReplySet
    <3>3. m \in Messages
      BY <3>2, MessageKinds
    <3>4. /\ messages' = Append(messages, m) /\ UNCHANGED <<base, disturbed, superseded>>
          /\ pc = "stream" /\ pc' = "turn"
      BY <2>1, <3>1
    <3>5. ASSUME ~disturbed, superseded = "none" PROVE context' = messages'
      <4>1. CopiesAgree'
        BY StepCopies DEF TalkInv, CopyInv
      <4> QED
        BY ONLY <4>1, <3>4, <3>5 DEF CopiesAgree, InLoop, Failing, Prompting, Apart,
             BatchLabels
    <3>6. ASSUME ~disturbed, superseded = "none" PROVE Answered(Append(messages, m), base, Len(messages))
      <4>1. Answered(messages, base, Len(messages))
        BY ONLY <1>b, <3>4, <3>6 DEF AllAnswered, InLoop, Failing, Answering, BatchLabels
      <4>2. Len(messages) \in Int
        BY DEF DataInv, CopiesOK
      <4> QED
        BY ONLY <4>1, <4>2, <3>3, <1>b, AnsweredGrows DEF DataInv, CopiesOK
    <3>7. Len(messages') - 1 = Len(messages)
      BY ONLY <3>3, <3>4, <1>b DEF DataInv, CopiesOK
    <3> QED
      BY ONLY <3>4, <3>5, <3>6, <3>7 DEF AllAnswered, Answering, BatchLabels
  <2>2. CASE ~addedPartial
    <3>1. UNCHANGED <<messages, base, disturbed, superseded>> /\ pc \in {"stream"} /\ pc' = "replyEnd"
      BY <2>2
    <3> QED
      BY ONLY <3>1, <1>b DEF AllAnswered, InLoop, Failing, Answering, BatchLabels
  <2> QED
    BY <2>1, <2>2
<1>45. ASSUME BeforeToolCallSettles PROVE AllAnswered'
  BY <1>45 DEF BeforeToolCallSettles, Batch, Allow, AnswerAtOnce, Call
<1>46. ASSUME StopHookSettles PROVE AllAnswered'
  BY <1>46 DEF StopHookSettles
<1>47. ASSUME ContinuationSettles PROVE AllAnswered'
  BY <1>47 DEF ContinuationSettles
<1>48. ASSUME NEW c \in CallIds, ToolEnds(c) PROVE AllAnswered'
  <2>1. UNCHANGED saidVars
    BY <1>48 DEF ToolEnds, EndTask, Batch, saidVars
  <2> QED
    BY <2>1, SaidFrame
<1>49. ASSUME NEW c \in CallIds, ToolEndThrows(c) PROVE AllAnswered'
  <2>1. UNCHANGED saidVars
    BY <1>49 DEF ToolEndThrows, Batch, saidVars
  <2> QED
    BY <2>1, SaidFrame
<1>50. ASSUME NEW c \in CallIds, ToolAborted(c) PROVE AllAnswered'
  <2>1. UNCHANGED saidVars
    BY <1>50 DEF ToolAborted, EndTask, Batch, saidVars
  <2> QED
    BY <2>1, SaidFrame
<1>51. ASSUME NEW c \in CallIds, ToolEndSettles(c) PROVE AllAnswered'
  <2>1. UNCHANGED saidVars
    BY <1>51 DEF ToolEndSettles, Batch, saidVars
  <2> QED
    BY <2>1, SaidFrame
<1>52. CASE UNCHANGED vars
  <2>1. UNCHANGED saidVars
    BY <1>52 DEF vars, saidVars
  <2> QED
    BY <2>1, SaidFrame
<1> HIDE <1>a, <1>b DEF AllAnswered, BatchLabels, InLoop, Failing, Answering, agentState, queues,
     runVars, control, locals, batchVars, history, Emit, Await, Goto, At, EventTypes,
     WaitMatchesLabel
<1> QED
  BY <1>1, <1>2, <1>3, <1>4, <1>5, <1>6, <1>7, <1>8, <1>9, <1>10, <1>11, <1>12, <1>13, <1>14,
       <1>15, <1>16, <1>17, <1>18, <1>19, <1>20, <1>21, <1>22, <1>23, <1>24, <1>24a, <1>25, <1>26, <1>27,
       <1>28, <1>29, <1>30, <1>31, <1>32, <1>33, <1>34, <1>35, <1>36, <1>37, <1>38, <1>39, <1>40,
       <1>41, <1>42, <1>43, <1>44, <1>45, <1>46, <1>47, <1>48, <1>49, <1>50, <1>51, <1>52,
       BoundsAssumption
  DEF Next, HostCall, LoopStep, External, TaskStep

-----------------------------------------------------------------------------
(* The invariant of the conversation, and what follows from it             *)

\* TalkInv holds of a new Agent.
LEMMA InitTalkInv == Init => TalkInv
<1>1. Init => ReplyInContext /\ NewIsTail
  BY InitTail
<1> QED
  BY <1>1, InitPendingInv, InitListInv, InitCopies, InitTalk DEF TalkInv

\* Every step preserves TalkInv.
LEMMA StepTalkInv == TalkInv /\ [Next]_vars => TalkInv'
<1> SUFFICES ASSUME TalkInv, [Next]_vars PROVE TalkInv'
  OBVIOUS
<1>1. PendingInv'
  BY StepPendingInv DEF TalkInv
<1>2. ListInv'
  <2>1. IInv' /\ DataInv'
    BY <1>1, StepData DEF TalkInv, PendingInv
  <2> QED
    BY <2>1 DEF ListInv
<1>3. CopiesAgree'
  BY StepCopies DEF TalkInv, CopyInv
<1>4. NewIsTail' /\ ReplyInContext'
  BY StepTail, StepReply DEF TalkInv, TailInv, CopyInv
<1>5. ResultsInOrder' /\ TurnTasks' /\ AllAnswered'
  BY StepResults, StepTurn, StepAnswered
<1> QED
  BY <1>1, <1>2, <1>3, <1>4, <1>5 DEF TalkInv

\* TalkInv is an invariant of the agent.
THEOREM TalkInvHolds == Spec => []TalkInv
<1>1. Init => TalkInv
  BY InitTalkInv
<1>2. TalkInv /\ [Next]_vars => TalkInv'
  BY StepTalkInv
<1> QED
  BY <1>1, <1>2, PTL DEF Spec

\* streamAssistantResponse sends the context, which runLoop pushes to on its own; it is
\* the transcript, plus the partial response, whenever a request is under way.
THEOREM RequestsAreFaithful == Spec => []RequestSeesTranscript
<1>1. TalkInv => RequestSeesTranscript
  <2> SUFFICES ASSUME TalkInv, wait = "provider", ~disturbed
               PROVE  context = IF addedPartial THEN Append(messages, Partial) ELSE messages
    BY DEF RequestSeesTranscript
  <2>1. pc = "stream" /\ LabelsOK
    BY DEF TalkInv, ListInv, IInv, WaitMatchesLabel, DataInv
  <2>2. superseded = "none"
    BY <2>1 DEF LabelsOK, InLoop, Failing
  <2> QED
    BY <2>1, <2>2 DEF TalkInv, CopiesAgree, InLoop, Failing, Apart, Prompting, BatchLabels
<1> QED
  BY <1>1, TalkInvHolds, PTL

\* A request goes out only when every earlier response of the run is followed at once by
\* the results of its calls in call order, in whatever order parallel tools finished.
THEOREM RequestsAreAnswered == Spec => []CallsAnswered
<1>1. TalkInv => CallsAnswered
  <2> SUFFICES ASSUME TalkInv, wait = "provider", ~disturbed
               PROVE  \A i \in (base + 1)..Len(messages) :
                        messages[i].role = "assistant" =>
                            \A k \in 1..messages[i].calls :
                                /\ i + k <= Len(messages)
                                /\ messages[i + k] = ToolResult(<<messages[i].id, k>>)
    BY DEF CallsAnswered
  <2>1. pc = "stream" /\ LabelsOK
    BY DEF TalkInv, ListInv, IInv, WaitMatchesLabel, DataInv
  <2>3. superseded = "none"
    BY <2>1 DEF LabelsOK, InLoop, Failing
  <2>2. Answered(messages, base, Len(messages))
    BY <2>1, <2>3 DEF TalkInv, AllAnswered, InLoop, Failing, Answering, BatchLabels
  <2> QED
    BY <2>2 DEF Answered
<1> QED
  BY <1>1, TalkInvHolds, PTL

\* The elements of what SubSeq leaves of a sequence without its first b.
LEMMA SuffixElement ==
  ASSUME NEW S, NEW c \in Seq(S), NEW b \in Nat, NEW i \in 1..(Len(c) - b)
  PROVE  SubSeq(c, b + 1, Len(c))[i] = c[b + i]
<1>1. Len(c) \in Nat /\ b + 1 \in Int /\ i \in 1..(Len(c) - (b + 1) + 1) /\ (b + 1) + i - 1 = b + i
  OBVIOUS
<1>2. SubSeq(c, b + 1, Len(c))[i] = c[(b + 1) + i - 1]
  BY <1>1
<1> QED
  BY <1>1, <1>2

\* TailOf without lag is Suffix.
LEMMA TailIsSuffix ==
  \A S : \A c, n \in Seq(S) : \A b \in Nat :
     TailOf(c, n, b, 0) => n = Suffix(c, b)
<1>1. ASSUME NEW S, NEW c \in Seq(S), NEW n \in Seq(S), NEW b \in Nat, TailOf(c, n, b, 0)
      PROVE  n = Suffix(c, b)
  <2>1. Len(c) \in Nat /\ Len(n) \in Nat /\ Len(c) = b + Len(n)
        /\ \A i \in 1..Len(n) : n[i] = c[b + i]
    BY <1>1 DEF TailOf
  <2> DEFINE r == Suffix(c, b)
  <2>2. r \in Seq(S) /\ Len(r) = Len(n) /\ \A i \in 1..Len(n) : r[i] = c[b + i]
    <3>1. \A i \in (b + 1)..Len(c) : c[i] \in S
      BY <2>1
    <3>2. Len(c) - (b + 1) + 1 = Len(n) /\ \A i \in 1..Len(n) : i + (b + 1) - 1 = b + i
      BY <2>1
    <3>3. r \in Seq(S)
      BY <2>1, <3>1 DEF Suffix
    <3>4. Len(r) = Len(n)
      BY <2>1, <3>2 DEF Suffix
    <3>5. \A i \in 1..Len(n) : r[i] = c[b + i]
      <4>1. Len(c) - b = Len(n)
        BY ONLY <2>1, b \in Nat
      <4> QED
        BY <4>1, SuffixElement DEF Suffix
    <3> QED
      BY <3>3, <3>4, <3>5
  <2> HIDE DEF r
  <2>3. \A i \in 1..Len(n) : n[i] = r[i]
    BY <2>1, <2>2
  <2>4. n = r
    BY <2>1, <2>2, <2>3
  <2> QED
    BY <2>4 DEF r
<1> QED
  BY <1>1

-----------------------------------------------------------------------------
(* A response that a listener's AbortError supersedes                      *)

\* How the transcript and the report grow apart and together again.
LEMMA ReportMoves ==
  \A S : \A s, n \in Seq(S), x \in S, b, d \in Nat :
    /\ TailOf(Append(s, x), n, b, 1) => TailOf(s, n, b, 0)
    /\ TailOf(s, n, b, d) => TailOf(Append(s, x), n, b, d + 1)
    /\ TailOf(s, n, b, d + 1) /\ EndsWith(s, x) => ReportOf(s, Append(n, x), b, d)
<1> SUFFICES ASSUME NEW S, NEW s \in Seq(S), NEW n \in Seq(S), NEW x \in S, NEW b \in Nat, NEW d \in Nat
             PROVE  /\ TailOf(Append(s, x), n, b, 1) => TailOf(s, n, b, 0)
                    /\ TailOf(s, n, b, d) => TailOf(Append(s, x), n, b, d + 1)
                    /\ TailOf(s, n, b, d + 1) /\ EndsWith(s, x) => ReportOf(s, Append(n, x), b, d)
  OBVIOUS
<1>0. /\ Len(s) \in Nat /\ Len(n) \in Nat
      /\ Len(Append(s, x)) = Len(s) + 1 /\ \A i \in 1..Len(s) : Append(s, x)[i] = s[i]
      /\ Len(Append(n, x)) = Len(n) + 1 /\ Append(n, x)[Len(n) + 1] = x
      /\ \A i \in 1..Len(n) : Append(n, x)[i] = n[i]
  BY SeqElements
<1>1. ASSUME TailOf(Append(s, x), n, b, 1) PROVE TailOf(s, n, b, 0)
  <2>0. Len(Append(s, x)) = b + Len(n) + 1 /\ \A i \in 1..Len(n) : n[i] = Append(s, x)[b + i]
    BY ONLY <1>1 DEF TailOf
  <2>1. Len(s) = b + Len(n) /\ \A i \in 1..Len(n) : n[i] = Append(s, x)[b + i]
    <3>1. Len(s) \in Nat /\ Len(n) \in Nat /\ Len(s) + 1 = b + Len(n) + 1
      BY ONLY <1>0, <2>0
    <3>2. Len(s) = b + Len(n)
      BY ONLY <3>1, b \in Nat
    <3> QED
      BY ONLY <2>0, <3>2
  <2>2. \A i \in 1..Len(n) : b + i \in 1..Len(s)
    BY <1>0, <2>1
  <2>3. \A i \in 1..Len(n) : n[i] = s[b + i]
    BY <1>0, <2>1, <2>2
  <2> QED
    BY <1>0, <2>1, <2>3 DEF TailOf
<1>2. ASSUME TailOf(s, n, b, d) PROVE TailOf(Append(s, x), n, b, d + 1)
  <2>1. Len(s) = b + Len(n) + d /\ \A i \in 1..Len(n) : n[i] = s[b + i]
    BY <1>2 DEF TailOf
  <2>2. \A i \in 1..Len(n) : b + i \in 1..Len(s)
    BY <1>0, <2>1
  <2>3. \A i \in 1..Len(n) : n[i] = Append(s, x)[b + i]
    BY <1>0, <2>1, <2>2
  <2>4. Len(Append(s, x)) = b + Len(n) + (d + 1)
    BY <1>0, <2>1
  <2> QED
    BY ONLY <2>3, <2>4 DEF TailOf
<1>3. ASSUME TailOf(s, n, b, d + 1), EndsWith(s, x) PROVE ReportOf(s, Append(n, x), b, d)
  <2>1. Len(s) = b + Len(n) + (d + 1) /\ \A i \in 1..Len(n) : n[i] = s[b + i]
    BY <1>3 DEF TailOf
  <2>2. s[Len(s)] = x
    BY <1>3 DEF EndsWith
  <2>3. Len(Append(n, x)) >= 1 /\ Len(s) = b + Len(Append(n, x)) + d
    BY ONLY <1>0, <2>1
  <2>4. \A i \in 1..(Len(Append(n, x)) - 1) : i \in 1..Len(n)
    BY ONLY <1>0
  <2>5. \A i \in 1..(Len(Append(n, x)) - 1) : Append(n, x)[i] = s[b + i]
    BY ONLY <1>0, <2>1, <2>4
  <2>6. Append(n, x)[Len(Append(n, x))] = s[Len(s)]
    BY ONLY <1>0, <2>2
  <2> QED
    BY ONLY <2>3, <2>5, <2>6 DEF ReportOf
<1> QED
  BY <1>1, <1>2, <1>3

\* What SupersededRun reads.
reportVars == <<pc, activeRun, abortedRuns, disturbed, messages, newMessages, base, reply, superseded>>

\* A step that leaves these variables keeps SupersededRun.
LEMMA ReportFrame == ASSUME SupersededRun, UNCHANGED reportVars PROVE SupersededRun'
<1>1. InLoop' = InLoop /\ Aborted' = Aborted /\ Unreported' = Unreported
  BY DEF reportVars, InLoop, Aborted, Unreported
<1>2. UNCHANGED <<pc, disturbed, messages, newMessages, base, reply, superseded>>
  BY DEF reportVars
<1> QED
  BY ONLY SupersededRun, <1>1, <1>2 DEF SupersededRun, TailOf, EndsWith, ReportOf

\* Where no response is superseded there is nothing to keep.
LEMMA ReportEmpty == ASSUME superseded' = "none" PROVE SupersededRun'
  BY DEF SupersededRun

\* Every step of a run that ends with a superseded response keeps SupersededRun.
LEMMA StepReport == ASSUME ReportInv, [Next]_vars PROVE SupersededRun'
<1>a. /\ WaitMatchesLabel /\ (activeRun = 0 <=> pc = "idle")
      /\ pc \in {"replyEnd", "turn"} => reply \in ReplySet
  BY DEF ReportInv, TalkInv, ListInv, IInv, BatchShape, RunShape, ReplySet
<1>b. LabelsOK /\ CopiesOK /\ NewIsTail /\ CopiesAgree /\ SupersededRun
  BY DEF ReportInv, TalkInv, ListInv, DataInv
<1> USE <1>a, <1>b
<1> USE DEF LabelsOK, InLoop, Failing, WaitMatchesLabel, EventTypes
<1> USE DEF agentState, queues, runVars, control, locals, batchVars, history, Emit, Await, Goto, At
<1>1. ASSUME NEW b \in Batches, Prompt(b) PROVE SupersededRun'
  <2>1. superseded' = "none"
    BY <1>1 DEF Prompt, StartRun
  <2> QED
    BY <2>1, ReportEmpty
<1>2. ASSUME Continue PROVE SupersededRun'
  <2>1. superseded' = "none"
    BY <1>2 DEF Continue, StartRun
  <2> QED
    BY <2>1, ReportEmpty
<1>3. ASSUME NEW b \in Batches, Steer(b) PROVE SupersededRun'
  <2>1. UNCHANGED reportVars
    BY <1>3 DEF Steer, Host, reportVars
  <2> QED
    BY <2>1, ReportFrame
<1>4. ASSUME NEW b \in Batches, FollowUp(b) PROVE SupersededRun'
  <2>1. UNCHANGED reportVars
    BY <1>4 DEF FollowUp, Host, reportVars
  <2> QED
    BY <2>1, ReportFrame
<1>5. ASSUME ClearQueues PROVE SupersededRun'
  <2>1. UNCHANGED reportVars
    BY <1>5 DEF ClearQueues, Host, reportVars
  <2> QED
    BY <2>1, ReportFrame
<1>6. ASSUME NEW m, RemoveQueuedMessages(m) PROVE SupersededRun'
  <2>1. UNCHANGED reportVars
    BY <1>6 DEF RemoveQueuedMessages, Host, reportVars
  <2> QED
    BY <2>1, ReportFrame
<1>7. ASSUME NEW q \in {"steering", "followUp"}, NEW m \in QueueModes, SetMode(q, m) PROVE SupersededRun'
  <2>1. UNCHANGED reportVars
    BY <1>7 DEF SetMode, Host, reportVars
  <2> QED
    BY <2>1, ReportFrame
<1>8. ASSUME Abort PROVE SupersededRun'
  <2>1. /\ UNCHANGED <<pc, disturbed, messages, newMessages, base, reply, superseded>>
        /\ (Aborted => Aborted')
    BY <1>8 DEF Abort, Host, Aborted
  <2>2. InLoop' = InLoop /\ Unreported' = Unreported
    BY ONLY <2>1 DEF InLoop, Failing, Unreported
  <2> QED
    BY ONLY SupersededRun, <2>1, <2>2 DEF SupersededRun, TailOf, EndsWith, ReportOf
<1>9. ASSUME Reset PROVE SupersededRun'
  <2>1. pc' = pc /\ superseded' = superseded /\ (Aborted => Aborted') /\ (activeRun # 0 => disturbed')
    BY <1>9 DEF Reset, Host, Aborted
  <2> QED
    BY ONLY <1>a, <1>b, <2>1 DEF SupersededRun, InLoop, Failing
<1>10. ASSUME ListenersSettle PROVE SupersededRun'
  <2>1. UNCHANGED reportVars
    BY <1>10 DEF ListenersSettle, reportVars
  <2> QED
    BY <2>1, ReportFrame
<1>11. ASSUME FinishRun PROVE SupersededRun'
  <2>1. ~InLoop'
    BY <1>11 DEF FinishRun
  <2> QED
    BY ONLY <2>1 DEF SupersededRun
<1>12. ASSUME Fail PROVE SupersededRun'
  <2>1. ~InLoop'
    BY <1>12 DEF Fail
  <2> QED
    BY ONLY <2>1 DEF SupersededRun
<1>13. ASSUME FailEnd PROVE SupersededRun'
  <2>1. ~InLoop'
    BY <1>13 DEF FailEnd, EmitMessageEnd, EmitAgentEnd
  <2> QED
    BY ONLY <2>1 DEF SupersededRun
<1>14. ASSUME Begin PROVE SupersededRun'
  <2>1. superseded' = "none"
    BY <1>14 DEF Begin
  <2> QED
    BY <2>1, ReportEmpty
<1>15. ASSUME EmitPrompts PROVE SupersededRun'
  <2>1. superseded' = "none"
    BY <1>15 DEF EmitPrompts, EmitShown, EmitMessageEnd
  <2> QED
    BY <2>1, ReportEmpty
<1>16. ASSUME PollSteering PROVE SupersededRun'
  <2>1. superseded' = "none"
    BY <1>16 DEF PollSteering, Polling
  <2> QED
    BY <2>1, ReportEmpty
<1>17. ASSUME PollFollowUp PROVE SupersededRun'
  <2>1. superseded' = "none"
    BY <1>17 DEF PollFollowUp, Polling
  <2> QED
    BY <2>1, ReportEmpty
<1>18. ASSUME RaceAborted PROVE SupersededRun'
  <2>1. superseded' = "none"
    BY <1>18 DEF RaceAborted, Polling
  <2> QED
    BY <2>1, ReportEmpty
<1>19. ASSUME PollSettles PROVE SupersededRun'
  <2>1. superseded' = "none"
    BY <1>19 DEF PollSettles
  <2> QED
    BY <2>1, ReportEmpty
<1>20. ASSUME FirstTurn PROVE SupersededRun'
  <2>1. superseded' = "none"
    BY <1>20 DEF FirstTurn, StartTurn
  <2> QED
    BY <2>1, ReportEmpty
<1>21. ASSUME Inject PROVE SupersededRun'
  <2>1. superseded' = "none"
    BY <1>21 DEF Inject, EmitShown, EmitMessageEnd
  <2> QED
    BY <2>1, ReportEmpty
<1>22. ASSUME Request PROVE SupersededRun'
  <2>1. superseded' = "none"
    BY <1>22 DEF Request, Respond, Streaming, Asking, EmitShown, EmitMessageEnd
  <2> QED
    BY <2>1, ReportEmpty
<1>23. ASSUME NextEvent PROVE SupersededRun'
  <2>1. superseded' = "none"
    BY <1>23 DEF NextEvent
  <2> QED
    BY <2>1, ReportEmpty
<1>24. ASSUME ProviderAborted PROVE SupersededRun'
  <2>1. superseded' = "none"
    BY <1>24 DEF ProviderAborted, Respond, Streaming, Asking, EmitShown, EmitMessageEnd
  <2> QED
    BY <2>1, ReportEmpty
<1>24a. ASSUME ListenersAbort PROVE SupersededRun'
  <2> USE <1>24a DEF ListenersAbort, Respond, Asking, EmitShown, EmitMessageEnd, Assistant
  <2>1. pc \in {"next", "replyEnd", "turn"} /\ superseded = "none" /\ Aborted' /\ UNCHANGED <<disturbed, newMessages, base>>
    BY DEF Aborted
  <2>2. CASE pc = "next"
    <3>1. superseded' = "none"
      BY <2>1, <2>2
    <3> QED
      BY <3>1, ReportEmpty
  <2>3. CASE pc = "replyEnd"
    <3>1. superseded' = "untold" /\ pc' = "replyEnd" /\ UNCHANGED messages
      BY <2>3
    <3>2. ASSUME ~disturbed PROVE TailOf(messages, newMessages, base, 0)
      <4>1. PICK r : r = reply
        OBVIOUS
      <4>2. context = Append(messages, r) /\ TailOf(context, newMessages, base, 1)
        BY <2>1, <2>3, <3>2, <4>1 DEF CopiesAgree, NewIsTail, Lags
      <4>3. r \in Messages
        BY <2>3, <4>1, MessageKinds
      <4> QED
        BY ONLY <4>2, <4>3, <1>b, ReportMoves DEF CopiesOK
    <3>3. Unreported' = 0
      BY ONLY <3>1 DEF Unreported
    <3> QED
      BY ONLY <2>1, <3>1, <3>2, <3>3 DEF SupersededRun, TailOf
  <2>4. CASE pc = "turn"
    <3>1. superseded' = "told"
      BY <2>4
    <3>2. Unreported' = 1
      BY ONLY <3>1 DEF Unreported
    <3>3. ASSUME ~disturbed PROVE TailOf(messages, newMessages, base, 1)
      <4>1. context = messages
        BY <2>1, <2>4, <3>3 DEF CopiesAgree, Apart, Prompting, BatchLabels
      <4>2. TailOf(context, newMessages, base, 1)
        BY <2>1, <2>4 DEF NewIsTail, Lags
      <4> QED
        BY ONLY <4>1, <4>2
    <3>4. CASE ~addedPartial
      <4>1. pc' = "replyEnd" /\ UNCHANGED messages
        BY <3>4
      <4> QED
        BY ONLY <2>1, <3>1, <3>2, <3>3, <4>1 DEF SupersededRun, TailOf
    <3>5. CASE addedPartial
      <4>1. PICK m : m = reply'
        OBVIOUS
      <4>2. pc' = "turn" /\ messages' = Append(messages, m)
        BY <3>5, <4>1
      <4>3. m \in Messages
        <5>1. m \in ReplySet
          BY <4>1, BoundsAssumption DEF ReplySet
        <5> QED
          BY <5>1, MessageKinds
      <4>4. EndsWith(messages', m)
        BY ONLY <4>2, <4>3, <1>b, Ends DEF CopiesOK
      <4>5. ASSUME ~disturbed PROVE TailOf(messages', newMessages, base, 1 + 1)
        BY ONLY <3>3, <4>2, <4>3, <4>5, <1>b, ReportMoves DEF CopiesOK
      <4> QED
        BY ONLY <2>1, <3>1, <3>2, <4>1, <4>2, <4>4, <4>5 DEF SupersededRun, TailOf, EndsWith
    <3> QED
      BY <3>4, <3>5
  <2> QED
    BY <2>1, <2>2, <2>3, <2>4
<1>25. ASSUME ReplyEnd PROVE SupersededRun'
  <2> USE <1>25 DEF ReplyEnd, EmitMessageEnd
  <2>1. PICK m : m = reply
    OBVIOUS
  <2>2. /\ pc = "replyEnd" /\ pc' = "turn" /\ messages' = Append(messages, m)
        /\ UNCHANGED <<disturbed, newMessages, base, reply, superseded>> /\ (Aborted => Aborted')
    BY <2>1 DEF Aborted
  <2>3. m \in Messages
    BY <2>1, <2>2, MessageKinds
  <2>4. EndsWith(messages', m)
    BY ONLY <2>2, <2>3, <1>b, Ends DEF CopiesOK
  <2>5. Unreported \in Nat /\ Unreported' = Unreported
    BY ONLY <2>2 DEF Unreported
  <2>6. ASSUME ~disturbed, superseded # "none" PROVE TailOf(messages', newMessages, base, Unreported + 1)
    <3>1. PICK d \in Nat : d = Unreported
      BY ONLY <2>5
    <3>2. TailOf(messages, newMessages, base, d)
      BY ONLY <1>b, <2>2, <2>6, <3>1 DEF SupersededRun, InLoop, Failing
    <3>3. TailOf(messages', newMessages, base, d + 1)
      BY ONLY <2>2, <2>3, <3>2, <1>b, d \in Nat, ReportMoves DEF CopiesOK
    <3> QED
      BY ONLY <3>1, <3>3
  <2>7. superseded # "none" => Aborted
    BY ONLY <1>b, <2>2 DEF SupersededRun, InLoop, Failing
  <2> QED
    BY ONLY <2>1, <2>2, <2>4, <2>5, <2>6, <2>7 DEF SupersededRun, TailOf, EndsWith
<1>26. ASSUME Turn PROVE SupersededRun'
  <2> USE <1>26 DEF Turn, EmitTurnEnd
  <2>1. PICK m : m = reply
    OBVIOUS
  <2>2. /\ pc = "turn" /\ newMessages' = Append(newMessages, m)
        /\ UNCHANGED <<disturbed, messages, base, superseded>> /\ (Aborted => Aborted')
        /\ superseded # "none" => pc' = "end"
    BY <2>1 DEF Aborted
  <2>3. m \in Messages
    BY <2>1, <2>2, MessageKinds
  <2>5. Unreported \in Nat /\ Unreported' = Unreported
    BY ONLY <2>2 DEF Unreported
  <2>6. ASSUME ~disturbed, superseded # "none" PROVE ReportOf(messages, newMessages', base, Unreported)
    <3>1. PICK d \in Nat : d = Unreported
      BY ONLY <2>5
    <3>2. TailOf(messages, newMessages, base, d + 1) /\ EndsWith(messages, m)
      BY ONLY <1>b, <2>1, <2>2, <2>6, <3>1 DEF SupersededRun, InLoop, Failing
    <3>3. ReportOf(messages, Append(newMessages, m), base, d)
      BY ONLY <2>3, <3>2, <1>b, d \in Nat, ReportMoves DEF CopiesOK
    <3> QED
      BY ONLY <2>2, <3>1, <3>3
  <2>7. superseded # "none" => Aborted
    BY ONLY <1>b, <2>2 DEF SupersededRun, InLoop, Failing
  <2> QED
    BY ONLY <2>2, <2>5, <2>6, <2>7 DEF SupersededRun, ReportOf
<1>27. ASSUME Announce PROVE SupersededRun'
  <2>1. superseded' = "none"
    BY <1>27 DEF Announce, Batch
  <2> QED
    BY <2>1, ReportEmpty
<1>28. ASSUME PrepareToolCall PROVE SupersededRun'
  <2>1. superseded' = "none"
    BY <1>28 DEF PrepareToolCall, Batch, Allow, AnswerAtOnce
  <2> QED
    BY <2>1, ReportEmpty
<1>29. ASSUME BeforeToolCallAborted PROVE SupersededRun'
  <2>1. superseded' = "none"
    BY <1>29 DEF BeforeToolCallAborted, Batch, AnswerAtOnce
  <2> QED
    BY <2>1, ReportEmpty
<1>30. ASSUME Prepared PROVE SupersededRun'
  <2>1. superseded' = "none"
    BY <1>30 DEF Prepared, Batch
  <2> QED
    BY <2>1, ReportEmpty
<1>31. ASSUME LaunchAll PROVE SupersededRun'
  <2>1. superseded' = "none"
    BY <1>31 DEF LaunchAll, Batch
  <2> QED
    BY <2>1, ReportEmpty
<1>32. ASSUME ToolsSettle PROVE SupersededRun'
  <2>1. superseded' = "none"
    BY <1>32 DEF ToolsSettle, Batch
  <2> QED
    BY <2>1, ReportEmpty
<1>33. ASSUME EmitResult PROVE SupersededRun'
  <2>1. superseded' = "none"
    BY <1>33 DEF EmitResult, Batch, EmitShown, EmitMessageEnd
  <2> QED
    BY <2>1, ReportEmpty
<1>34. ASSUME BatchDone PROVE SupersededRun'
  <2>1. superseded' = "none"
    BY <1>34 DEF BatchDone, EmitTurnEnd
  <2> QED
    BY <2>1, ReportEmpty
<1>35. ASSUME AfterTurn PROVE SupersededRun'
  <2>1. superseded' = "none"
    BY <1>35 DEF AfterTurn
  <2> QED
    BY <2>1, ReportEmpty
<1>36. ASSUME PolledSteering PROVE SupersededRun'
  <2>1. superseded' = "none"
    BY <1>36 DEF PolledSteering, StartTurn
  <2> QED
    BY <2>1, ReportEmpty
<1>37. ASSUME PolledFollowUp PROVE SupersededRun'
  <2>1. superseded' = "none"
    BY <1>37 DEF PolledFollowUp, StartTurn
  <2> QED
    BY <2>1, ReportEmpty
<1>38. ASSUME Continued PROVE SupersededRun'
  <2>1. superseded' = "none"
    BY <1>38 DEF Continued, StartTurn
  <2> QED
    BY <2>1, ReportEmpty
<1>39. ASSUME End PROVE SupersededRun'
  <2>1. /\ pc = "end" /\ pc' = "finish" /\ (Aborted => Aborted')
        /\ UNCHANGED <<disturbed, messages, newMessages, base, reply, superseded>>
    BY <1>39 DEF End, EmitAgentEnd, Aborted
  <2>2. Unreported' = Unreported
    BY ONLY <2>1 DEF Unreported
  <2> QED
    BY ONLY <1>b, <2>1, <2>2 DEF SupersededRun, InLoop, Failing, ReportOf
<1>40. ASSUME ListenersThrow PROVE SupersededRun'
  <2>1. ~InLoop'
    BY <1>40 DEF ListenersThrow
  <2> QED
    BY ONLY <2>1 DEF SupersededRun
<1>41. ASSUME ProviderStarts PROVE SupersededRun'
  <2>1. superseded' = "none"
    BY <1>41 DEF ProviderStarts, Streaming, Asking, EmitShown
  <2> QED
    BY <2>1, ReportEmpty
<1>42. ASSUME ProviderUpdates PROVE SupersededRun'
  <2>1. superseded' = "none"
    BY <1>42 DEF ProviderUpdates, Streaming, Asking, EmitShown
  <2> QED
    BY <2>1, ReportEmpty
<1>43. ASSUME ProviderThrows PROVE SupersededRun'
  <2>1. ~InLoop'
    BY <1>43 DEF ProviderThrows
  <2> QED
    BY ONLY <2>1 DEF SupersededRun
<1>44. ASSUME NEW k \in 0..MaxCalls, NEW stop \in {"stop", "error"}, ProviderDone(k, stop) PROVE SupersededRun'
  <2>1. superseded' = "none"
    BY <1>44 DEF ProviderDone, Respond, Streaming, Asking, EmitShown, EmitMessageEnd
  <2> QED
    BY <2>1, ReportEmpty
<1>45. ASSUME BeforeToolCallSettles PROVE SupersededRun'
  <2>1. superseded' = "none"
    BY <1>45 DEF BeforeToolCallSettles, Batch, Allow, AnswerAtOnce
  <2> QED
    BY <2>1, ReportEmpty
<1>46. ASSUME StopHookSettles PROVE SupersededRun'
  <2>1. superseded' = "none"
    BY <1>46 DEF StopHookSettles
  <2> QED
    BY <2>1, ReportEmpty
<1>47. ASSUME ContinuationSettles PROVE SupersededRun'
  <2>1. superseded' = "none"
    BY <1>47 DEF ContinuationSettles
  <2> QED
    BY <2>1, ReportEmpty
<1>48. ASSUME NEW c \in CallIds, ToolEnds(c) PROVE SupersededRun'
  <2>1. UNCHANGED reportVars
    BY <1>48 DEF ToolEnds, EndTask, Batch, reportVars
  <2> QED
    BY <2>1, ReportFrame
<1>49. ASSUME NEW c \in CallIds, ToolEndThrows(c) PROVE SupersededRun'
  <2>1. UNCHANGED reportVars
    BY <1>49 DEF ToolEndThrows, Batch, reportVars
  <2> QED
    BY <2>1, ReportFrame
<1>50. ASSUME NEW c \in CallIds, ToolAborted(c) PROVE SupersededRun'
  <2>1. UNCHANGED reportVars
    BY <1>50 DEF ToolAborted, EndTask, Batch, reportVars
  <2> QED
    BY <2>1, ReportFrame
<1>51. ASSUME NEW c \in CallIds, ToolEndSettles(c) PROVE SupersededRun'
  <2>1. UNCHANGED reportVars
    BY <1>51 DEF ToolEndSettles, Batch, reportVars
  <2> QED
    BY <2>1, ReportFrame
<1>52. CASE UNCHANGED vars
  <2>1. UNCHANGED reportVars
    BY <1>52 DEF vars, reportVars
  <2> QED
    BY <2>1, ReportFrame
<1> HIDE <1>a, <1>b DEF LabelsOK, InLoop, Failing, WaitMatchesLabel, EventTypes
<1> HIDE DEF agentState, queues, runVars, control, locals, batchVars, history, Emit, Await, Goto, At
<1> QED
  BY <1>1, <1>2, <1>3, <1>4, <1>5, <1>6, <1>7, <1>8, <1>9, <1>10, <1>11, <1>12, <1>13, <1>14,
       <1>15, <1>16, <1>17, <1>18, <1>19, <1>20, <1>21, <1>22, <1>23, <1>24, <1>24a, <1>25, <1>26, <1>27,
       <1>28, <1>29, <1>30, <1>31, <1>32, <1>33, <1>34, <1>35, <1>36, <1>37, <1>38, <1>39, <1>40,
       <1>41, <1>42, <1>43, <1>44, <1>45, <1>46, <1>47, <1>48, <1>49, <1>50, <1>51, <1>52,
       BoundsAssumption
  DEF Next, HostCall, LoopStep, External, TaskStep

\* SupersededRun is an invariant of the agent.
LEMMA ReportInvHolds == Spec => []ReportInv
<1>1. Init => ReportInv
  <2> SUFFICES ASSUME Init PROVE ReportInv
    OBVIOUS
  <2>1. TalkInv
    BY InitTalkInv
  <2>2. superseded = "none"
    BY DEF Init
  <2> QED
    BY <2>1, <2>2 DEF ReportInv, SupersededRun
<1>2. ReportInv /\ [Next]_vars => ReportInv'
  <2> SUFFICES ASSUME ReportInv, [Next]_vars PROVE ReportInv'
    OBVIOUS
  <2>1. TalkInv'
    BY StepTalkInv DEF ReportInv
  <2>2. SupersededRun'
    BY StepReport
  <2> QED
    BY ONLY <2>1, <2>2 DEF ReportInv
<1> QED
  BY <1>1, <1>2, PTL DEF Spec

\* ReportOf without a gap is Suffix; with a gap of one, Suffix without its last but one.
LEMMA ReportIsSuffix ==
  \A S : \A s, n \in Seq(S), b \in Nat :
    /\ ReportOf(s, n, b, 0) => n = Suffix(s, b)
    /\ ReportOf(s, n, b, 1) => n = RemoveAt(Suffix(s, b), Len(Suffix(s, b)) - 1)
<1> SUFFICES ASSUME NEW S, NEW s \in Seq(S), NEW n \in Seq(S), NEW b \in Nat
             PROVE  /\ ReportOf(s, n, b, 0) => n = Suffix(s, b)
                    /\ ReportOf(s, n, b, 1) => n = RemoveAt(Suffix(s, b), Len(Suffix(s, b)) - 1)
  OBVIOUS
<1>0. Len(s) \in Nat /\ Len(n) \in Nat
  OBVIOUS
<1>1. ASSUME ReportOf(s, n, b, 0) PROVE n = Suffix(s, b)
  <2>1. /\ Len(n) >= 1 /\ Len(s) = b + Len(n) /\ \A i \in 1..(Len(n) - 1) : n[i] = s[b + i]
        /\ n[Len(n)] = s[Len(s)]
    BY <1>0, <1>1 DEF ReportOf
  <2>2. \A i \in 1..Len(n) : i \in 1..(Len(n) - 1) \/ (i = Len(n) /\ b + i = Len(s))
    <3>1. \A k, m \in Nat : m = b + k => \A i \in 1..k : i \in 1..(k - 1) \/ (i = k /\ b + i = m)
      BY ONLY b \in Nat
    <3>2. Len(s) = b + Len(n)
      BY ONLY <2>1
    <3> QED
      BY ONLY <1>0, <3>1, <3>2
  <2>3. \A i \in 1..Len(n) : n[i] = s[b + i]
    BY ONLY <2>1, <2>2
  <2>4. TailOf(s, n, b, 0)
    BY <1>0, <2>1, <2>3 DEF TailOf
  <2> QED
    BY ONLY <2>4, s \in Seq(S), n \in Seq(S), b \in Nat, TailIsSuffix
<1>2. ASSUME ReportOf(s, n, b, 1) PROVE n = RemoveAt(Suffix(s, b), Len(Suffix(s, b)) - 1)
  <2> DEFINE r == Suffix(s, b)
             l == SubSeq(r, 1, Len(n) - 1)
             e == SubSeq(r, Len(n) + 1, Len(n) + 1)
  <2>1. /\ Len(n) >= 1 /\ Len(s) = b + Len(n) + 1 /\ \A i \in 1..(Len(n) - 1) : n[i] = s[b + i]
        /\ n[Len(n)] = s[Len(s)]
    BY <1>0, <1>2 DEF ReportOf
  <2>2. r \in Seq(S) /\ Len(r) = Len(n) + 1 /\ \A i \in 1..(Len(n) + 1) : r[i] = s[b + i]
    <3>1. \A i \in (b + 1)..Len(s) : s[i] \in S
      BY <1>0, <2>1
    <3>2. Len(s) - (b + 1) + 1 = Len(n) + 1 /\ \A i \in 1..(Len(n) + 1) : i + (b + 1) - 1 = b + i
      BY <1>0, <2>1
    <3>3. r \in Seq(S)
      BY <1>0, <2>1, <3>1 DEF Suffix
    <3>4. Len(r) = Len(n) + 1
      BY <1>0, <2>1, <3>2 DEF Suffix
    <3>5. \A i \in 1..(Len(n) + 1) : r[i] = s[b + i]
      BY <1>0, <2>1, <3>2 DEF Suffix
    <3> QED
      BY <3>3, <3>4, <3>5
  <2> HIDE DEF r
  <2>3. l \in Seq(S) /\ Len(l) = Len(n) - 1 /\ \A i \in 1..(Len(n) - 1) : l[i] = r[i]
    <3>0. Len(n) - 1 \in Nat
      <4>1. Len(n) \in Nat /\ Len(n) >= 1
        BY ONLY <1>0, <2>1
      <4> QED
        BY ONLY <4>1
    <3>1. PICK k \in Nat : k = Len(n) - 1
      BY ONLY <3>0
    <3>2. \A i \in 1..k : r[i] \in S
      BY <1>0, <2>1, <2>2, <3>1
    <3>3. SubSeq(r, 1, k) \in Seq(S) /\ Len(SubSeq(r, 1, k)) = k /\ \A i \in 1..k : SubSeq(r, 1, k)[i] = r[i]
      BY ONLY <3>2, k \in Nat
    <3> QED
      BY ONLY <3>1, <3>3
  <2>4. e \in Seq(S) /\ Len(e) = 1 /\ e[1] = r[Len(n) + 1]
    <3>1. r[Len(n) + 1] \in S
      BY <1>0, <2>1, <2>2
    <3> QED
      BY <1>0, <2>1, <2>2, <3>1
  <2>5. RemoveAt(r, Len(r) - 1) = l \o e
    <3>1. Len(r) - 1 = Len(n) /\ (Len(r) - 1) - 1 = Len(n) - 1 /\ (Len(r) - 1) + 1 = Len(n) + 1
      BY <1>0, <2>2
    <3> QED
      BY <2>2, <3>1 DEF RemoveAt
  <2> HIDE DEF l, e
  <2>6. l \o e \in Seq(S) /\ Len(l \o e) = Len(n)
    <3>1. Len(l \o e) = Len(l) + Len(e)
      <4>1. \A p, q \in Seq(S) : Len(p \o q) = Len(p) + Len(q)
        OBVIOUS
      <4> QED
        BY ONLY <2>3, <2>4, <4>1
    <3> QED
      BY <1>0, <2>3, <2>4, <3>1
  <2>7. ASSUME NEW i \in 1..Len(n) PROVE (l \o e)[i] = n[i]
    <3>1. CASE i \in 1..(Len(n) - 1)
      <4>1. (l \o e)[i] = l[i]
        BY <2>3, <2>4, <3>1, SeqElements
      <4>2. l[i] = s[b + i]
        BY <1>0, <2>2, <2>3, <3>1
      <4> QED
        BY <2>1, <3>1, <4>1, <4>2
    <3>2. CASE i = Len(n)
      <4>1. Len(l) + 1 = Len(n)
        BY <1>0, <2>3
      <4>2. (l \o e)[Len(l) + 1] = e[1]
        BY <2>3, <2>4, SeqElements
      <4>3. r[Len(n) + 1] = s[Len(s)]
        <5>1. Len(n) + 1 \in 1..(Len(n) + 1) /\ b + (Len(n) + 1) = Len(s)
          BY <1>0, <2>1
        <5> QED
          BY ONLY <5>1, <2>2
      <4> QED
        BY ONLY <2>1, <2>4, <3>2, <4>1, <4>2, <4>3
    <3>3. i \in 1..(Len(n) - 1) \/ i = Len(n)
      BY ONLY <1>0, <2>7
    <3> QED
      BY <3>1, <3>2, <3>3
  <2>8. n = l \o e
    <3>1. PICK t : t = l \o e
      OBVIOUS
    <3>2. t \in Seq(S) /\ Len(t) = Len(n) /\ \A i \in 1..Len(n) : t[i] = n[i]
      BY <2>6, <2>7, <3>1
    <3>3. n = t
      BY ONLY <3>2, n \in Seq(S)
    <3> QED
      BY ONLY <3>1, <3>3
  <2> QED
    BY <2>5, <2>8 DEF r
<1> QED
  BY <1>1, <1>2

\* agent_end of a run that did not fail reports exactly what the run added to the
\* transcript, but for a complete response that a listener aborted: the aborted message
\* takes its place in the report and follows it in the transcript.
THEOREM ReportsAreFaithful == Spec => []AgentEndReportsRun
<1>1. ReportInv => AgentEndReportsRun
  <2> SUFFICES ASSUME ReportInv, pc = "finish", ~disturbed
               PROVE  IF superseded = "told"
                      THEN newMessages = RemoveAt(Suffix(messages, base), Len(Suffix(messages, base)) - 1)
                           /\ Aborted
                      ELSE newMessages = Suffix(messages, base)
    BY DEF AgentEndReportsRun, Suffix
  <2>0. DataInv /\ InLoop
    BY DEF ReportInv, TalkInv, ListInv, InLoop, Failing
  <2>4. /\ context \in Seq(Messages) /\ newMessages \in Seq(Messages) /\ base \in Nat
        /\ messages \in Seq(Messages)
    BY <2>0 DEF DataInv, CopiesOK
  <2>1. CASE superseded = "none"
    <3>1. ~addedPartial
      BY <2>0 DEF DataInv, LabelsOK, InLoop, Failing
    <3>2. context = messages
      BY <2>1, <3>1 DEF ReportInv, TalkInv, CopiesAgree, InLoop, Failing, Apart, Prompting, BatchLabels
    <3>3. TailOf(context, newMessages, base, 0)
      BY <2>1, <3>1 DEF ReportInv, TalkInv, NewIsTail, InLoop, Failing, Lags
    <3>4. \A c, n \in Seq(Messages) : \A b \in Nat : TailOf(c, n, b, 0) => n = Suffix(c, b)
      BY ONLY TailIsSuffix
    <3>5. newMessages = Suffix(context, base)
      BY ONLY <2>4, <3>3, <3>4
    <3> QED
      BY ONLY <2>1, <3>2, <3>5
  <2>2. CASE superseded # "none"
    <3>1. Aborted /\ ReportOf(messages, newMessages, base, Unreported)
      BY <2>0, <2>2 DEF ReportInv, SupersededRun
    <3>2. \A s, n \in Seq(Messages), b \in Nat :
            /\ ReportOf(s, n, b, 0) => n = Suffix(s, b)
            /\ ReportOf(s, n, b, 1) => n = RemoveAt(Suffix(s, b), Len(Suffix(s, b)) - 1)
      BY ONLY ReportIsSuffix
    <3>3. ASSUME superseded = "told"
          PROVE  newMessages = RemoveAt(Suffix(messages, base), Len(Suffix(messages, base)) - 1)
      <4>1. Unreported = 1
        BY ONLY <3>3 DEF Unreported
      <4> QED
        BY ONLY <2>4, <3>1, <3>2, <4>1
    <3>4. ASSUME superseded # "told" PROVE newMessages = Suffix(messages, base)
      <4>1. Unreported = 0
        BY ONLY <3>4 DEF Unreported
      <4> QED
        BY ONLY <2>4, <3>1, <3>2, <4>1
    <3> QED
      BY ONLY <3>1, <3>3, <3>4
  <2> QED
    BY <2>1, <2>2
<1> QED
  BY <1>1, ReportInvHolds, PTL

-----------------------------------------------------------------------------
(* Tool calls start as they should                                         *)

\* A call that is ready to be launched in a run that is not aborted is justified.
LEMMA LaunchJustified ==
  ASSUME TalkInv, pc \in {"announce", "prepared"}, ~Aborted, NEW c \in CallIds,
         c[1] = turn, tools[c].status = "prepared", batchMode = "sequential" => c = Call /\ pc = "prepared"
  PROVE  Justified(c)
<1> USE DEF TalkInv
<1>1. pc \in BatchLabels /\ InLoop /\ activeRun # 0 /\ ~addedPartial /\ DataInv /\ idx \in Nat
      /\ reply \in ReplySet
  BY DEF ListInv, IInv, RunShape, BatchShape, BatchLabels, InLoop, Failing, BatchLabels, DataInv,
       LabelsOK, TypeOK, BatchOK
<1>2. ASSUME ~disturbed PROVE c \in pendingToolCalls
  <2>1. tools[c].run = activeRun
    BY <1>1 DEF TurnTasks
  <2> QED
    BY <1>1, <1>2, <2>1 DEF PendingInv, PendingOfRun, PendingMatchesTasks
<1>3. ASSUME ~disturbed PROVE messages = context \o toolResults
  <2>1. superseded = "none"
    BY <1>1 DEF DataInv, LabelsOK, BatchLabels
  <2> QED
    BY <1>1, <1>3, <2>1 DEF CopiesAgree, BatchLabels
<1>4. EndsWith(context, reply) /\ reply.id = turn /\ reply.role = "assistant"
  BY <1>1, RoleKinds DEF ReplyInContext
<1>5. toolResults \in Seq(Messages) /\ context \in Seq(Messages)
  BY <1>1, SeqOfSubset, MessageKinds DEF DataInv, CopiesOK
<1>6. /\ Len(messages) = Len(context) + Len(toolResults) /\ messages \in Seq(Messages)
      /\ \A i \in 1..Len(context) : messages[i] = context[i]
      /\ \A i \in 1..Len(toolResults) : messages[Len(context) + i] = toolResults[i]
      /\ Len(context) \in Nat /\ Len(context) >= 1 /\ Len(toolResults) \in Nat
      \/ disturbed
  BY <1>1, <1>3, <1>4, <1>5, SeqElements DEF EndsWith, DataInv, CopiesOK
<1>7. ASSUME ~disturbed
      PROVE  \E i \in DOMAIN messages : messages[i].role = "assistant" /\ messages[i].id = c[1]
  <2>1. Len(context) \in DOMAIN messages
    BY <1>6, <1>7
  <2>2. messages[Len(context)] = reply
    BY <1>4, <1>6, <1>7 DEF EndsWith
  <2> QED
    BY <2>1, <2>2, <1>4
<1>8. ASSUME ~disturbed, batchMode = "sequential", NEW k \in 1..(c[2] - 1)
      PROVE  ToolResult(<<c[1], k>>) \in ToSet(messages)
  <2>1. c[2] = idx /\ Len(toolResults) = idx - 1
    BY <1>8, <1>1 DEF Call, ResultsInOrder
  <2>2. toolResults[k] = ToolResult(<<turn, k>>) /\ k \in 1..Len(toolResults)
    BY <2>1, <1>8, <1>1 DEF ResultsInOrder
  <2>3. messages[Len(context) + k] = ToolResult(<<turn, k>>)
    BY <2>2, <1>6, <1>8
  <2>4. Len(context) + k \in DOMAIN messages
    BY <2>2, <1>6, <1>8
  <2> QED
    BY <2>3, <2>4 DEF ToSet
<1> QED
  BY <1>2, <1>7, <1>8 DEF Justified, Aborted

\* Only executePreparedToolCall starts a tool, and what it starts is justified.
LEMMA StartsAreJustified ==
  ASSUME TalkInv, [Next]_vars, NEW d \in CallIds, Starts(d) PROVE Justified(d)
<1>a. tools \in [CallIds -> Tasks] /\ turn \in Nat /\ WaitMatchesLabel
  BY DEF TalkInv, ListInv, IInv, TypeOK, BatchOK
<1> USE <1>a DEF Starts, Tasks
<1> USE DEF agentState, queues, runVars, control, locals, batchVars, history, Emit, Await, Goto, At
<1>1. ASSUME NEW b \in Batches, Prompt(b) PROVE Justified(d)
  BY <1>1 DEF Prompt, StartRun
<1>2. ASSUME Continue PROVE Justified(d)
  BY <1>2 DEF Continue, StartRun
<1>3. ASSUME NEW b \in Batches, Steer(b) PROVE Justified(d)
  BY <1>3 DEF Steer, Host
<1>4. ASSUME NEW b \in Batches, FollowUp(b) PROVE Justified(d)
  BY <1>4 DEF FollowUp, Host
<1>5. ASSUME ClearQueues PROVE Justified(d)
  BY <1>5 DEF ClearQueues, Host
<1>6. ASSUME NEW m, RemoveQueuedMessages(m) PROVE Justified(d)
  BY <1>6 DEF RemoveQueuedMessages, Host
<1>7. ASSUME NEW q \in {"steering", "followUp"}, NEW m \in QueueModes, SetMode(q, m)
     PROVE Justified(d)
  BY <1>7 DEF SetMode, Host
<1>8. ASSUME Abort PROVE Justified(d)
  BY <1>8 DEF Abort, Host
<1>9. ASSUME Reset PROVE Justified(d)
  BY <1>9 DEF Reset, Host
<1>10. ASSUME ListenersSettle PROVE Justified(d)
  BY <1>10 DEF ListenersSettle
<1>11. ASSUME FinishRun PROVE Justified(d)
  BY <1>11 DEF FinishRun
<1>12. ASSUME Fail PROVE Justified(d)
  BY <1>12 DEF Fail, Assistant, Aborted
<1>13. ASSUME FailEnd PROVE Justified(d)
  BY <1>13 DEF FailEnd, EmitMessageEnd, EmitAgentEnd
<1>14. ASSUME Begin PROVE Justified(d)
  BY <1>14 DEF Begin
<1>15. ASSUME EmitPrompts PROVE Justified(d)
  BY <1>15 DEF EmitPrompts, EmitShown, EmitMessageEnd
<1>16. ASSUME PollSteering PROVE Justified(d)
  BY <1>16 DEF PollSteering, Polling
<1>17. ASSUME PollFollowUp PROVE Justified(d)
  BY <1>17 DEF PollFollowUp, Polling
<1>18. ASSUME RaceAborted PROVE Justified(d)
  BY <1>18 DEF RaceAborted, Polling
<1>19. ASSUME PollSettles PROVE Justified(d)
  BY <1>19 DEF PollSettles
<1>20. ASSUME FirstTurn PROVE Justified(d)
  BY <1>20 DEF FirstTurn, StartTurn
<1>21. ASSUME Inject PROVE Justified(d)
  BY <1>21 DEF Inject, EmitShown, EmitMessageEnd
<1>22. ASSUME Request PROVE Justified(d)
  BY <1>22 DEF Request, Respond, Streaming, Asking, EmitShown, EmitMessageEnd, Assistant
<1>23. ASSUME NextEvent PROVE Justified(d)
  BY <1>23 DEF NextEvent
<1>24. ASSUME ProviderAborted PROVE Justified(d)
  BY <1>24 DEF ProviderAborted, Respond, Streaming, Asking, EmitShown, EmitMessageEnd, Assistant
<1>24a. ASSUME ListenersAbort PROVE Justified(d)
  BY <1>24a DEF ListenersAbort, Respond, Streaming, Asking, EmitShown, EmitMessageEnd, Assistant
<1>25. ASSUME ReplyEnd PROVE Justified(d)
  BY <1>25 DEF ReplyEnd, EmitMessageEnd
<1>26. ASSUME Turn PROVE Justified(d)
  BY <1>26 DEF Turn, EmitTurnEnd
<1>27. ASSUME Announce PROVE Justified(d)
  <2> USE <1>27 DEF Announce, Batch
  <2>1. UNCHANGED tools \/ tools' = [tools EXCEPT ![Call] = [NoTask EXCEPT !.status = "announced", !.run = activeRun]]
    OBVIOUS
  <2>2. [NoTask EXCEPT !.status = "announced", !.run = activeRun].status = "announced"
    BY DEF NoTask
  <2> HIDE DEF Tasks
  <2> QED
    BY ONLY <1>a, <2>1, <2>2, Starts(d), d \in CallIds DEF Starts
<1>28. ASSUME PrepareToolCall PROVE Justified(d)
  BY <1>28 DEF PrepareToolCall, Batch, Allow, AnswerAtOnce, Call
<1>29. ASSUME BeforeToolCallAborted PROVE Justified(d)
  BY <1>29 DEF BeforeToolCallAborted, Batch, AnswerAtOnce, Call
<1>30. ASSUME Prepared PROVE Justified(d)
  <2> USE <1>30 DEF Prepared, Batch, Launch
  <2>1. ~Aborted /\ tools[d].status = "prepared" /\ d = Call /\ pc = "prepared"
    OBVIOUS
  <2>2. d[1] = turn
    BY <2>1 DEF Call
  <2> QED
    BY ONLY TalkInv, d \in CallIds, <2>1, <2>2, LaunchJustified
<1>31. ASSUME LaunchAll PROVE Justified(d)
  <2> USE <1>31 DEF LaunchAll, Batch, Launch
  <2>1. ~Aborted /\ tools[d].status = "prepared" /\ d \in Calls /\ pc = "announce" /\ batchMode = "parallel"
    OBVIOUS
  <2>2. d[1] = turn
    BY <2>1 DEF Calls
  <2> QED
    BY ONLY TalkInv, d \in CallIds, <2>1, <2>2, LaunchJustified
<1>32. ASSUME ToolsSettle PROVE Justified(d)
  BY <1>32 DEF ToolsSettle, Batch
<1>33. ASSUME EmitResult PROVE Justified(d)
  BY <1>33 DEF EmitResult, Batch, EmitShown, EmitMessageEnd, ToolResult
<1>34. ASSUME BatchDone PROVE Justified(d)
  BY <1>34 DEF BatchDone, EmitTurnEnd
<1>35. ASSUME AfterTurn PROVE Justified(d)
  BY <1>35 DEF AfterTurn
<1>36. ASSUME PolledSteering PROVE Justified(d)
  BY <1>36 DEF PolledSteering, StartTurn
<1>37. ASSUME PolledFollowUp PROVE Justified(d)
  BY <1>37 DEF PolledFollowUp, StartTurn
<1>38. ASSUME Continued PROVE Justified(d)
  BY <1>38 DEF Continued, StartTurn
<1>39. ASSUME End PROVE Justified(d)
  BY <1>39 DEF End, EmitAgentEnd
<1>40. ASSUME ListenersThrow PROVE Justified(d)
  BY <1>40 DEF ListenersThrow
<1>41. ASSUME ProviderStarts PROVE Justified(d)
  BY <1>41 DEF ProviderStarts, Streaming, Asking, EmitShown
<1>42. ASSUME ProviderUpdates PROVE Justified(d)
  BY <1>42 DEF ProviderUpdates, Streaming, Asking, EmitShown
<1>43. ASSUME ProviderThrows PROVE Justified(d)
  BY <1>43 DEF ProviderThrows
<1>44. ASSUME NEW k \in 0..MaxCalls, NEW stop \in {"stop", "error"}, ProviderDone(k, stop)
     PROVE Justified(d)
  BY <1>44 DEF ProviderDone, Respond, Streaming, Asking, EmitShown, EmitMessageEnd, Assistant
<1>45. ASSUME BeforeToolCallSettles PROVE Justified(d)
  BY <1>45 DEF BeforeToolCallSettles, Batch, Allow, AnswerAtOnce, Call
<1>46. ASSUME StopHookSettles PROVE Justified(d)
  BY <1>46 DEF StopHookSettles
<1>47. ASSUME ContinuationSettles PROVE Justified(d)
  BY <1>47 DEF ContinuationSettles
<1>48. ASSUME NEW c \in CallIds, ToolEnds(c) PROVE Justified(d)
  BY <1>48 DEF ToolEnds, EndTask, Batch
<1>49. ASSUME NEW c \in CallIds, ToolEndThrows(c) PROVE Justified(d)
  BY <1>49 DEF ToolEndThrows, Batch
<1>50. ASSUME NEW c \in CallIds, ToolAborted(c) PROVE Justified(d)
  BY <1>50 DEF ToolAborted, EndTask, Batch
<1>51. ASSUME NEW c \in CallIds, ToolEndSettles(c) PROVE Justified(d)
  BY <1>51 DEF ToolEndSettles, Batch
<1>52. CASE UNCHANGED vars
  BY <1>52 DEF vars
<1> HIDE <1>a DEF Starts, Tasks
<1> HIDE DEF agentState, queues, runVars, control, locals, batchVars, history, Emit, Await, Goto, At
<1> QED
  BY <1>1, <1>2, <1>3, <1>4, <1>5, <1>6, <1>7, <1>8, <1>9, <1>10, <1>11, <1>12, <1>13, <1>14,
       <1>15, <1>16, <1>17, <1>18, <1>19, <1>20, <1>21, <1>22, <1>23, <1>24, <1>24a, <1>25, <1>26, <1>27,
       <1>28, <1>29, <1>30, <1>31, <1>32, <1>33, <1>34, <1>35, <1>36, <1>37, <1>38, <1>39, <1>40,
       <1>41, <1>42, <1>43, <1>44, <1>45, <1>46, <1>47, <1>48, <1>49, <1>50, <1>51, <1>52,
       BoundsAssumption
  DEF Next, HostCall, LoopStep, External, TaskStep

\* A tool starts only in a run that is not aborted, after its response has joined the
\* transcript and its call was announced, and in a sequential batch only behind the
\* results of all earlier calls.
THEOREM ToolStartsAreJustified == Spec => ToolStartIsJustified
<1>1. TalkInv /\ [Next]_vars => [\A c \in CallIds : Starts(c) => Justified(c)]_vars
  BY StartsAreJustified
<1>2. [\A c \in CallIds : Starts(c) => Justified(c)]_vars =>
        [\A c \in CallIds : Starts(c) =>
         /\ activeRun \notin abortedRuns
         /\ ~disturbed =>
              /\ c \in pendingToolCalls
              /\ \E i \in DOMAIN messages :
                    messages[i].role = "assistant" /\ messages[i].id = c[1]
              /\ batchMode = "sequential" =>
                    \A k \in 1..(c[2] - 1) : ToolResult(<<c[1], k>>) \in ToSet(messages)]_vars
  BY DEF Justified
<1> QED
  BY <1>1, <1>2, TalkInvHolds, PTL DEF Spec, ToolStartIsJustified

-----------------------------------------------------------------------------
(* Nothing the host hands over gets lost                                   *)

\* What ToSet says of a concatenation.
LEMMA ConcatElements == \A S : \A s, t \in Seq(S) : ToSet(s \o t) = ToSet(s) \cup ToSet(t)
<1> SUFFICES ASSUME NEW S, NEW s \in Seq(S), NEW t \in Seq(S)
             PROVE  ToSet(s \o t) = ToSet(s) \cup ToSet(t)
  OBVIOUS
<1> DEFINE c == s \o t
<1>1. /\ Len(s) \in Nat /\ Len(t) \in Nat /\ DOMAIN c = 1..(Len(s) + Len(t))
      /\ DOMAIN s = 1..Len(s) /\ DOMAIN t = 1..Len(t)
      /\ \A i \in 1..(Len(s) + Len(t)) :
           c[i] = IF i <= Len(s) THEN s[i] ELSE t[i - Len(s)]
  OBVIOUS
<1> HIDE DEF c
<1>2. \A i \in 1..Len(t) : c[Len(s) + i] = t[i] /\ Len(s) + i \in DOMAIN c
  BY <1>1
<1>3. \A i \in 1..Len(s) : c[i] = s[i] /\ i \in DOMAIN c
  BY <1>1
<1>4. ASSUME NEW i \in DOMAIN c PROVE c[i] \in ToSet(s) \cup ToSet(t)
  <2>1. CASE i <= Len(s)
    <3>1. i \in DOMAIN s /\ c[i] = s[i]
      BY <1>1, <1>4, <2>1
    <3> QED
      BY <3>1 DEF ToSet
  <2>2. CASE ~(i <= Len(s))
    <3>1. i - Len(s) \in DOMAIN t /\ c[i] = t[i - Len(s)]
      BY <1>1, <1>4, <2>2
    <3> QED
      BY <3>1 DEF ToSet
  <2> QED
    BY <2>1, <2>2
<1>5. ToSet(c) \subseteq ToSet(s) \cup ToSet(t)
  BY <1>4 DEF ToSet
<1>6. ToSet(s) \subseteq ToSet(c)
  BY <1>1, <1>3 DEF ToSet
<1>7. ToSet(t) \subseteq ToSet(c)
  BY <1>1, <1>2 DEF ToSet
<1>8. ToSet(c) = ToSet(s) \cup ToSet(t)
  BY <1>5, <1>6, <1>7
<1> QED
  BY <1>8 DEF c

\* A flattened sequence has the elements of its sequences.
LEMMA FlattenElements ==
  ASSUME NEW S, NEW q \in Seq(Seq(S))
  PROVE  ToSet(FlattenSeq(q)) = UNION {ToSet(q[i]) : i \in DOMAIN q}
<1>0. Len(q) \in Nat /\ DOMAIN q = 1..Len(q) /\ \A i \in 1..Len(q) : q[i] \in Seq(S)
  OBVIOUS
<1>1. CASE Len(q) = 0
  <2>1. q = <<>>
    BY <1>1
  <2>2. FlattenSeq(q) = <<>>
    BY <2>1 DEF FlattenSeq
  <2> QED
    BY <2>1, <2>2 DEF ToSet
<1>2. CASE Len(q) > 0
  <2>1. PICK f \in [1..Len(q) -> Seq(S)] :
             /\ f[1] = q[1]
             /\ \A i \in 2..Len(q) : f[i] = f[i - 1] \o q[i]
             /\ FlattenSeq(q) = f[Len(q)]
    BY <1>2, FlattenBy
  <2> DEFINE U(n) == UNION {ToSet(q[i]) : i \in 1..n}
             N == {n \in Nat : n + 1 <= Len(q) => ToSet(f[n + 1]) = U(n + 1)}
  <2>2. 0 \in N
    BY <2>1, <1>0, <1>2
  <2>3. ASSUME NEW n \in Nat, n \in N PROVE n + 1 \in N
    <3> SUFFICES ASSUME (n + 1) + 1 <= Len(q) PROVE ToSet(f[(n + 1) + 1]) = U((n + 1) + 1)
      OBVIOUS
    <3>0. n + 1 \in 1..Len(q) /\ n + 2 \in 1..Len(q) /\ (n + 1) + 1 = n + 2 /\ n + 1 <= Len(q)
      BY <1>0
    <3>1. f[n + 2] = f[n + 1] \o q[n + 2]
      <4>1. n + 2 \in 2..Len(q) /\ (n + 2) - 1 = n + 1
        BY <1>0
      <4> QED
        BY <4>1, <2>1
    <3>2. f[n + 1] \in Seq(S) /\ q[n + 2] \in Seq(S)
      BY <3>0, <1>0, <2>1
    <3>3. \A s, t \in Seq(S) : ToSet(s \o t) = ToSet(s) \cup ToSet(t)
      BY ConcatElements
    <3>4. ToSet(f[n + 2]) = ToSet(f[n + 1]) \cup ToSet(q[n + 2])
      BY <3>1, <3>2, <3>3
    <3>5. ToSet(f[n + 1]) = U(n + 1)
      BY <2>3, <3>0
    <3>6. 1..(n + 2) = 1..(n + 1) \cup {n + 2}
      OBVIOUS
    <3>7. U(n + 2) = U(n + 1) \cup ToSet(q[n + 2])
      BY <3>6
    <3> QED
      BY <3>0, <3>4, <3>5, <3>7
  <2> HIDE DEF N
  <2>4. Nat \subseteq N
    BY <2>2, <2>3, NatSetInduction
  <2>5. ToSet(f[Len(q)]) = U(Len(q))
    <3>1. Len(q) - 1 \in N /\ (Len(q) - 1) + 1 = Len(q)
      BY <1>0, <1>2, <2>4
    <3> QED
      BY <3>1, <1>0 DEF N
  <2> QED
    BY <2>1, <2>5, <1>0
<1> QED
  BY <1>0, <1>1, <1>2

\* Draining, filtering and extending a queue lose no message but those of removed batches.
LEMMA QueueElements ==
  ASSUME NEW S, NEW q \in Seq(Seq(S))
  PROVE  /\ \A b \in Seq(S) : InQueue(Append(q, b)) = InQueue(q) \cup ToSet(b)
         /\ \A m : InQueue(q) \subseteq ToSet(Drained(q, m)) \cup InQueue(Rest(q, m))
         /\ \A m : \A i \in DOMAIN q : m \in ToSet(q[i]) \/ ToSet(q[i]) \subseteq InQueue(Without(q, m))
<1>0. Len(q) \in Nat /\ DOMAIN q = 1..Len(q) /\ \A i \in 1..Len(q) : q[i] \in Seq(S)
  OBVIOUS
<1>1. ASSUME NEW b \in Seq(S) PROVE InQueue(Append(q, b)) = InQueue(q) \cup ToSet(b)
  <2>1. /\ DOMAIN Append(q, b) = 1..(Len(q) + 1) /\ Append(q, b)[Len(q) + 1] = b
        /\ \A i \in 1..Len(q) : Append(q, b)[i] = q[i]
    OBVIOUS
  <2>2. 1..(Len(q) + 1) = 1..Len(q) \cup {Len(q) + 1}
    BY <1>0
  <2> QED
    BY <1>0, <2>1, <2>2 DEF InQueue
<1>2. ASSUME NEW m PROVE InQueue(q) \subseteq ToSet(Drained(q, m)) \cup InQueue(Rest(q, m))
  <2>1. CASE q = <<>>
    BY <2>1 DEF InQueue
  <2>2. CASE q # <<>> /\ m = "all"
    BY <2>2, FlattenElements DEF InQueue, Drained
  <2>3. CASE q # <<>> /\ m # "all"
    <3>1. Drained(q, m) = q[1] /\ Rest(q, m) = Tail(q) /\ Len(q) >= 1
      BY <2>3 DEF Drained, Rest
    <3>2. DOMAIN Tail(q) = 1..(Len(q) - 1) /\ \A i \in 1..(Len(q) - 1) : Tail(q)[i] = q[i + 1]
      BY <3>1
    <3>3. \A i \in 1..Len(q) : i = 1 \/ (i - 1 \in 1..(Len(q) - 1) /\ (i - 1) + 1 = i)
      BY <1>0
    <3>4. ASSUME NEW i \in 1..Len(q) PROVE ToSet(q[i]) \subseteq ToSet(q[1]) \cup InQueue(Tail(q))
      <4>1. CASE i = 1
        BY <4>1
      <4>2. CASE i - 1 \in DOMAIN Tail(q)
        <5>1. Tail(q)[i - 1] = q[i]
          BY <3>2, <3>3, <4>2
        <5> QED
          BY <4>2, <5>1 DEF InQueue
      <4> QED
        BY <3>2, <3>3, <4>1, <4>2
    <3> QED
      BY <3>1, <3>4, <1>0 DEF InQueue
  <2> QED
    BY <2>1, <2>2, <2>3
<1>3. ASSUME NEW m, NEW i \in DOMAIN q, m \notin ToSet(q[i])
      PROVE  ToSet(q[i]) \subseteq InQueue(Without(q, m))
  <2> DEFINE f == [j \in DOMAIN q |-> IF m \in ToSet(q[j]) THEN <<>> ELSE <<q[j]>>]
  <2>1. f = [j \in 1..Len(q) |-> f[j]] /\ \A j \in 1..Len(q) : f[j] \in Seq(Seq(S))
    BY <1>0
  <2>2. f[i] = <<q[i]>> /\ DOMAIN f = DOMAIN q
    BY <1>3
  <2>3. Without(q, m) = FlattenSeq(f)
    BY DEF Without
  <2> HIDE DEF f
  <2>4. f \in Seq(Seq(Seq(S)))
    BY <2>1, <1>0
  <2>5. ToSet(Without(q, m)) = UNION {ToSet(f[j]) : j \in DOMAIN f}
    BY <2>3, <2>4, FlattenElements
  <2>6. q[i] \in ToSet(f[i])
    BY <2>2 DEF ToSet
  <2>7. q[i] \in ToSet(Without(q, m))
    BY <2>5, <2>6, <2>2
  <2> QED
    BY <2>7 DEF ToSet, InQueue
<1> QED
  BY <1>1, <1>2, <1>3

\* Draining and filtering a queue of batches give one.
LEMMA QueuesOfBatches ==
  ASSUME NEW q \in Seq(Batches), NEW m
  PROVE  Rest(q, m) \in Seq(Batches) /\ Without(q, m) \in Seq(Batches)
<1>0. Len(q) \in Nat /\ DOMAIN q = 1..Len(q) /\ \A i \in 1..Len(q) : q[i] \in Batches
  OBVIOUS
<1>1. Rest(q, m) \in Seq(Batches)
  BY DEF Rest
<1>2. Without(q, m) \in Seq(Batches)
  <2> DEFINE f == [j \in DOMAIN q |-> IF m \in ToSet(q[j]) THEN <<>> ELSE <<q[j]>>]
  <2>1. f = [j \in 1..Len(q) |-> f[j]] /\ \A j \in 1..Len(q) : f[j] \in Seq(Batches)
    BY <1>0
  <2>3. Without(q, m) = FlattenSeq(f)
    BY DEF Without
  <2> HIDE DEF f
  <2>4. f \in Seq(Seq(Batches))
    BY <2>1, <1>0
  <2> QED
    BY <2>3, <2>4, FlattenType
<1> QED
  BY <1>1, <1>2

\* The messages of batches, and of the head and the tail of a list.
LEMMA IdsOfLists ==
  /\ Ids(<<>>) = {}
  /\ \A b \in Seq(HostIds) : Ids(AsMessages(b)) = ToSet(b)
  /\ \A S : \A s \in Seq(S) : s # <<>> => Ids(s) \subseteq {Head(s).id} \cup Ids(Tail(s))
<1>1. Ids(<<>>) = {}
  BY DEF Ids, ToSet
<1>2. ASSUME NEW b \in Seq(HostIds) PROVE Ids(AsMessages(b)) = ToSet(b)
  <2>1. DOMAIN AsMessages(b) = DOMAIN b /\ \A i \in DOMAIN b : AsMessages(b)[i] = HostMessage(b[i])
    BY DEF AsMessages
  <2>2. \A m : HostMessage(m).id = m
    BY DEF HostMessage
  <2>3. \A i \in DOMAIN b : AsMessages(b)[i].id = b[i]
    BY <2>1, <2>2
  <2> QED
    BY <2>1, <2>3 DEF Ids, ToSet
<1>3. ASSUME NEW S, NEW s \in Seq(S), s # <<>>
      PROVE  Ids(s) \subseteq {Head(s).id} \cup Ids(Tail(s))
  <2>1. Len(s) \in Nat /\ Len(s) >= 1 /\ DOMAIN s = 1..Len(s) /\ Head(s) = s[1]
    BY <1>3
  <2>2. DOMAIN Tail(s) = 1..(Len(s) - 1) /\ \A i \in 1..(Len(s) - 1) : Tail(s)[i] = s[i + 1]
    BY <1>3
  <2>3. \A i \in 1..Len(s) : i = 1 \/ (i - 1 \in 1..(Len(s) - 1) /\ (i - 1) + 1 = i)
    BY <2>1
  <2>4. \A i \in 1..Len(s) : s[i] = Head(s) \/ s[i] \in ToSet(Tail(s))
    BY <2>1, <2>2, <2>3 DEF ToSet
  <2> QED
    BY <2>1, <2>4 DEF Ids, ToSet
<1> QED
  BY <1>1, <1>2, <1>3

\* A transcript that grows keeps saying what it said, and says its new message.
LEMMA SaidGrows ==
  \A S : \A ms \in Seq(S), x \in S :
     /\ Said(ms) \subseteq Said(Append(ms, x))
     /\ x.role \in {"user", "custom"} => x.id \in Said(Append(ms, x))
<1> SUFFICES ASSUME NEW S, NEW ms \in Seq(S), NEW x \in S
             PROVE  /\ Said(ms) \subseteq Said(Append(ms, x))
                    /\ x.role \in {"user", "custom"} => x.id \in Said(Append(ms, x))
  OBVIOUS
<1>1. /\ Len(ms) \in Nat /\ DOMAIN ms = 1..Len(ms)
      /\ DOMAIN Append(ms, x) = 1..(Len(ms) + 1) /\ Append(ms, x)[Len(ms) + 1] = x
      /\ \A i \in 1..Len(ms) : Append(ms, x)[i] = ms[i]
  OBVIOUS
<1>2. \A i \in DOMAIN ms : i \in DOMAIN Append(ms, x)
  BY <1>1
<1>3. Len(ms) + 1 \in DOMAIN Append(ms, x)
  BY <1>1
<1> QED
  BY <1>1, <1>2, <1>3 DEF Said

\* All of it holds of a new Agent.
LEMMA InitLost == Init => BatchesQueued /\ ListsByLabel /\ InjectedIsSaid /\ Accounted
<1> SUFFICES ASSUME Init PROVE BatchesQueued /\ ListsByLabel /\ InjectedIsSaid /\ Accounted
  OBVIOUS
<1> USE DEF Init
<1>1. BatchesQueued
  BY SeqFacts DEF BatchesQueued
<1>2. ListsByLabel /\ InjectedIsSaid
  BY DEF ListsByLabel, InjectedIsSaid
<1>3. HandedOver = {}
  BY DEF HandedOver
<1> QED
  BY <1>1, <1>2, <1>3 DEF Accounted

\* What BatchesQueued reads.
batchListVars == <<steeringQueue, followUpQueue, sent>>

\* A step that leaves these variables keeps BatchesQueued.
LEMMA BatchesFrame == ASSUME BatchesQueued, UNCHANGED batchListVars PROVE BatchesQueued'
BY DEF BatchesQueued, batchListVars

\* Every step keeps batches in the queues and in sent.
LEMMA StepBatches == ASSUME BatchesQueued, [Next]_vars PROVE BatchesQueued'
<1> DEFINE Sent == {"prompt", "steer", "followUp", "continuation"} \X Batches
<1>b. steeringQueue \in Seq(Batches) /\ followUpQueue \in Seq(Batches) /\ sent \in Seq(Sent)
  BY DEF BatchesQueued
<1>q. \A m : /\ Rest(steeringQueue, m) \in Seq(Batches) /\ Without(steeringQueue, m) \in Seq(Batches)
             /\ Rest(followUpQueue, m) \in Seq(Batches) /\ Without(followUpQueue, m) \in Seq(Batches)
  BY <1>b, QueuesOfBatches
<1>s. /\ <<>> \in Seq(Batches)
      /\ \A b \in Batches : /\ Append(steeringQueue, b) \in Seq(Batches)
                            /\ Append(followUpQueue, b) \in Seq(Batches)
                            /\ \A o \in {"prompt", "steer", "followUp", "continuation"} :
                                 Append(sent, <<o, b>>) \in Seq(Sent)
  <2>1. \A b \in Batches, o \in {"prompt", "steer", "followUp", "continuation"} : <<o, b>> \in Sent
    OBVIOUS
  <2> HIDE DEF Sent
  <2> QED
    BY <1>b, <2>1, SeqFacts
<1> USE DEF agentState, queues, runVars, control, locals, batchVars, history, Emit, Await, Goto, At
<1>1. ASSUME NEW b \in Batches, Prompt(b) PROVE BatchesQueued'
  <2> USE <1>1 DEF Prompt, StartRun
  <2>1. b \in Batches /\ sent' = Append(sent, <<"prompt", b>>) /\ UNCHANGED <<steeringQueue, followUpQueue>>
    OBVIOUS
  <2> QED
    BY ONLY <1>b, <1>s, <2>1 DEF BatchesQueued
<1>2. ASSUME Continue PROVE BatchesQueued'
  <2> USE <1>2 DEF Continue
  <2>1. /\ sent' = sent
        /\ steeringQueue' \in {steeringQueue, Rest(steeringQueue, mode.steering)}
        /\ followUpQueue' \in {followUpQueue, Rest(followUpQueue, mode.followUp)}
    OBVIOUS
  <2> QED
    BY ONLY <1>b, <1>q, <1>s, <2>1 DEF BatchesQueued
<1>3. ASSUME NEW b \in Batches, Steer(b) PROVE BatchesQueued'
  <2> USE <1>3 DEF Steer, Host
  <2>1. b \in Batches /\ sent' = Append(sent, <<"steer", b>>) /\ steeringQueue' = Append(steeringQueue, b)
        /\ UNCHANGED followUpQueue
    OBVIOUS
  <2> QED
    BY ONLY <1>b, <1>q, <1>s, <2>1 DEF BatchesQueued
<1>4. ASSUME NEW b \in Batches, FollowUp(b) PROVE BatchesQueued'
  <2> USE <1>4 DEF FollowUp, Host
  <2>1. b \in Batches /\ sent' = Append(sent, <<"followUp", b>>) /\ followUpQueue' = Append(followUpQueue, b)
        /\ UNCHANGED steeringQueue
    OBVIOUS
  <2> QED
    BY ONLY <1>b, <1>q, <1>s, <2>1 DEF BatchesQueued
<1>5. ASSUME ClearQueues PROVE BatchesQueued'
  <2> USE <1>5 DEF ClearQueues, Host
  <2>1. sent' = sent /\ steeringQueue' \in {<<>>, steeringQueue} /\ followUpQueue' \in {<<>>, followUpQueue}
    OBVIOUS
  <2> QED
    BY ONLY <1>b, <1>q, <1>s, <2>1 DEF BatchesQueued
<1>6. ASSUME NEW m, RemoveQueuedMessages(m) PROVE BatchesQueued'
  <2> USE <1>6 DEF RemoveQueuedMessages, Host
  <2>1. sent' = sent /\ steeringQueue' = Without(steeringQueue, m) /\ followUpQueue' = Without(followUpQueue, m)
    OBVIOUS
  <2> QED
    BY ONLY <1>b, <1>q, <1>s, <2>1 DEF BatchesQueued
<1>7. ASSUME NEW q \in {"steering", "followUp"}, NEW m \in QueueModes, SetMode(q, m)
     PROVE BatchesQueued'
  <2>1. UNCHANGED batchListVars
    BY <1>7 DEF SetMode, Host, batchListVars
  <2> QED
    BY <2>1, BatchesFrame
<1>8. ASSUME Abort PROVE BatchesQueued'
  <2>1. UNCHANGED batchListVars
    BY <1>8 DEF Abort, Host, batchListVars
  <2> QED
    BY <2>1, BatchesFrame
<1>9. ASSUME Reset PROVE BatchesQueued'
  <2> USE <1>9 DEF Reset, Host
  <2>1. sent' = sent /\ steeringQueue' = <<>> /\ followUpQueue' = <<>>
    OBVIOUS
  <2> QED
    BY ONLY <1>b, <1>q, <1>s, <2>1 DEF BatchesQueued
<1>10. ASSUME ListenersSettle PROVE BatchesQueued'
  <2>1. UNCHANGED batchListVars
    BY <1>10 DEF ListenersSettle, batchListVars
  <2> QED
    BY <2>1, BatchesFrame
<1>11. ASSUME FinishRun PROVE BatchesQueued'
  <2>1. UNCHANGED batchListVars
    BY <1>11 DEF FinishRun, batchListVars
  <2> QED
    BY <2>1, BatchesFrame
<1>12. ASSUME Fail PROVE BatchesQueued'
  <2>1. UNCHANGED batchListVars
    BY <1>12 DEF Fail, Assistant, Aborted, batchListVars
  <2> QED
    BY <2>1, BatchesFrame
<1>13. ASSUME FailEnd PROVE BatchesQueued'
  <2>1. UNCHANGED batchListVars
    BY <1>13 DEF FailEnd, EmitMessageEnd, EmitAgentEnd, batchListVars
  <2> QED
    BY <2>1, BatchesFrame
<1>14. ASSUME Begin PROVE BatchesQueued'
  <2>1. UNCHANGED batchListVars
    BY <1>14 DEF Begin, batchListVars
  <2> QED
    BY <2>1, BatchesFrame
<1>15. ASSUME EmitPrompts PROVE BatchesQueued'
  <2>1. UNCHANGED batchListVars
    BY <1>15 DEF EmitPrompts, EmitShown, EmitMessageEnd, batchListVars
  <2> QED
    BY <2>1, BatchesFrame
<1>16. ASSUME PollSteering PROVE BatchesQueued'
  <2> USE <1>16 DEF PollSteering, Polling
  <2>1. /\ sent' = sent
        /\ steeringQueue' \in {steeringQueue, Rest(steeringQueue, mode.steering)}
        /\ followUpQueue' \in {followUpQueue, Rest(followUpQueue, mode.followUp)}
    OBVIOUS
  <2> QED
    BY ONLY <1>b, <1>q, <1>s, <2>1 DEF BatchesQueued
<1>17. ASSUME PollFollowUp PROVE BatchesQueued'
  <2> USE <1>17 DEF PollFollowUp, Polling
  <2>1. /\ sent' = sent
        /\ steeringQueue' \in {steeringQueue, Rest(steeringQueue, mode.steering)}
        /\ followUpQueue' \in {followUpQueue, Rest(followUpQueue, mode.followUp)}
    OBVIOUS
  <2> QED
    BY ONLY <1>b, <1>q, <1>s, <2>1 DEF BatchesQueued
<1>18. ASSUME RaceAborted PROVE BatchesQueued'
  <2>1. UNCHANGED batchListVars
    BY <1>18 DEF RaceAborted, Polling, batchListVars
  <2> QED
    BY <2>1, BatchesFrame
<1>19. ASSUME PollSettles PROVE BatchesQueued'
  <2>1. UNCHANGED batchListVars
    BY <1>19 DEF PollSettles, batchListVars
  <2> QED
    BY <2>1, BatchesFrame
<1>20. ASSUME FirstTurn PROVE BatchesQueued'
  <2>1. UNCHANGED batchListVars
    BY <1>20 DEF FirstTurn, StartTurn, batchListVars
  <2> QED
    BY <2>1, BatchesFrame
<1>21. ASSUME Inject PROVE BatchesQueued'
  <2>1. UNCHANGED batchListVars
    BY <1>21 DEF Inject, EmitShown, EmitMessageEnd, batchListVars
  <2> QED
    BY <2>1, BatchesFrame
<1>22. ASSUME Request PROVE BatchesQueued'
  <2>1. UNCHANGED batchListVars
    BY <1>22 DEF Request, Respond, Streaming, Asking, EmitShown, EmitMessageEnd, Assistant, batchListVars
  <2> QED
    BY <2>1, BatchesFrame
<1>23. ASSUME NextEvent PROVE BatchesQueued'
  <2>1. UNCHANGED batchListVars
    BY <1>23 DEF NextEvent, batchListVars
  <2> QED
    BY <2>1, BatchesFrame
<1>24. ASSUME ProviderAborted PROVE BatchesQueued'
  <2>1. UNCHANGED batchListVars
    BY <1>24 DEF ProviderAborted, Respond, Streaming, Asking, EmitShown, EmitMessageEnd, Assistant,
         batchListVars
  <2> QED
    BY <2>1, BatchesFrame
<1>24a. ASSUME ListenersAbort PROVE BatchesQueued'
  <2>1. UNCHANGED batchListVars
    BY <1>24a DEF ListenersAbort, Respond, Streaming, Asking, EmitShown, EmitMessageEnd, Assistant,
         batchListVars
  <2> QED
    BY <2>1, BatchesFrame
<1>25. ASSUME ReplyEnd PROVE BatchesQueued'
  <2>1. UNCHANGED batchListVars
    BY <1>25 DEF ReplyEnd, EmitMessageEnd, batchListVars
  <2> QED
    BY <2>1, BatchesFrame
<1>26. ASSUME Turn PROVE BatchesQueued'
  <2>1. UNCHANGED batchListVars
    BY <1>26 DEF Turn, EmitTurnEnd, batchListVars
  <2> QED
    BY <2>1, BatchesFrame
<1>27. ASSUME Announce PROVE BatchesQueued'
  <2>1. UNCHANGED batchListVars
    BY <1>27 DEF Announce, Batch, Call, batchListVars
  <2> QED
    BY <2>1, BatchesFrame
<1>28. ASSUME PrepareToolCall PROVE BatchesQueued'
  <2>1. UNCHANGED batchListVars
    BY <1>28 DEF PrepareToolCall, Batch, Allow, AnswerAtOnce, Call, batchListVars
  <2> QED
    BY <2>1, BatchesFrame
<1>29. ASSUME BeforeToolCallAborted PROVE BatchesQueued'
  <2>1. UNCHANGED batchListVars
    BY <1>29 DEF BeforeToolCallAborted, Batch, AnswerAtOnce, Call, batchListVars
  <2> QED
    BY <2>1, BatchesFrame
<1>30. ASSUME Prepared PROVE BatchesQueued'
  <2>1. UNCHANGED batchListVars
    BY <1>30 DEF Prepared, Batch, Launch, Call, batchListVars
  <2> QED
    BY <2>1, BatchesFrame
<1>31. ASSUME LaunchAll PROVE BatchesQueued'
  <2>1. UNCHANGED batchListVars
    BY <1>31 DEF LaunchAll, Batch, Launch, batchListVars
  <2> QED
    BY <2>1, BatchesFrame
<1>32. ASSUME ToolsSettle PROVE BatchesQueued'
  <2>1. UNCHANGED batchListVars
    BY <1>32 DEF ToolsSettle, Batch, batchListVars
  <2> QED
    BY <2>1, BatchesFrame
<1>33. ASSUME EmitResult PROVE BatchesQueued'
  <2>1. UNCHANGED batchListVars
    BY <1>33 DEF EmitResult, Batch, EmitShown, EmitMessageEnd, ToolResult, batchListVars
  <2> QED
    BY <2>1, BatchesFrame
<1>34. ASSUME BatchDone PROVE BatchesQueued'
  <2>1. UNCHANGED batchListVars
    BY <1>34 DEF BatchDone, EmitTurnEnd, batchListVars
  <2> QED
    BY <2>1, BatchesFrame
<1>35. ASSUME AfterTurn PROVE BatchesQueued'
  <2>1. UNCHANGED batchListVars
    BY <1>35 DEF AfterTurn, batchListVars
  <2> QED
    BY <2>1, BatchesFrame
<1>36. ASSUME PolledSteering PROVE BatchesQueued'
  <2>1. UNCHANGED batchListVars
    BY <1>36 DEF PolledSteering, StartTurn, batchListVars
  <2> QED
    BY <2>1, BatchesFrame
<1>37. ASSUME PolledFollowUp PROVE BatchesQueued'
  <2>1. UNCHANGED batchListVars
    BY <1>37 DEF PolledFollowUp, StartTurn, batchListVars
  <2> QED
    BY <2>1, BatchesFrame
<1>38. ASSUME Continued PROVE BatchesQueued'
  <2>1. UNCHANGED batchListVars
    BY <1>38 DEF Continued, StartTurn, batchListVars
  <2> QED
    BY <2>1, BatchesFrame
<1>39. ASSUME End PROVE BatchesQueued'
  <2>1. UNCHANGED batchListVars
    BY <1>39 DEF End, EmitAgentEnd, batchListVars
  <2> QED
    BY <2>1, BatchesFrame
<1>40. ASSUME ListenersThrow PROVE BatchesQueued'
  <2>1. UNCHANGED batchListVars
    BY <1>40 DEF ListenersThrow, batchListVars
  <2> QED
    BY <2>1, BatchesFrame
<1>41. ASSUME ProviderStarts PROVE BatchesQueued'
  <2>1. UNCHANGED batchListVars
    BY <1>41 DEF ProviderStarts, Streaming, Asking, EmitShown, batchListVars
  <2> QED
    BY <2>1, BatchesFrame
<1>42. ASSUME ProviderUpdates PROVE BatchesQueued'
  <2>1. UNCHANGED batchListVars
    BY <1>42 DEF ProviderUpdates, Streaming, Asking, EmitShown, batchListVars
  <2> QED
    BY <2>1, BatchesFrame
<1>43. ASSUME ProviderThrows PROVE BatchesQueued'
  <2>1. UNCHANGED batchListVars
    BY <1>43 DEF ProviderThrows, batchListVars
  <2> QED
    BY <2>1, BatchesFrame
<1>44. ASSUME NEW k \in 0..MaxCalls, NEW stop \in {"stop", "error"}, ProviderDone(k, stop)
     PROVE BatchesQueued'
  <2>1. UNCHANGED batchListVars
    BY <1>44 DEF ProviderDone, Respond, Streaming, Asking, EmitShown, EmitMessageEnd, Assistant,
         batchListVars
  <2> QED
    BY <2>1, BatchesFrame
<1>45. ASSUME BeforeToolCallSettles PROVE BatchesQueued'
  <2>1. UNCHANGED batchListVars
    BY <1>45 DEF BeforeToolCallSettles, Batch, Allow, AnswerAtOnce, Call, batchListVars
  <2> QED
    BY <2>1, BatchesFrame
<1>46. ASSUME StopHookSettles PROVE BatchesQueued'
  <2>1. UNCHANGED batchListVars
    BY <1>46 DEF StopHookSettles, batchListVars
  <2> QED
    BY <2>1, BatchesFrame
<1>47. ASSUME ContinuationSettles PROVE BatchesQueued'
  <2> USE <1>47 DEF ContinuationSettles
  <2>1. UNCHANGED <<steeringQueue, followUpQueue>> /\ (sent' = sent \/ \E b \in Batches : sent' = Append(sent, <<"continuation", b>>))
    BY DEF Unsent
  <2> QED
    BY ONLY <1>b, <1>s, <2>1 DEF BatchesQueued
<1>48. ASSUME NEW c \in CallIds, ToolEnds(c) PROVE BatchesQueued'
  <2>1. UNCHANGED batchListVars
    BY <1>48 DEF ToolEnds, EndTask, Batch, batchListVars
  <2> QED
    BY <2>1, BatchesFrame
<1>49. ASSUME NEW c \in CallIds, ToolEndThrows(c) PROVE BatchesQueued'
  <2>1. UNCHANGED batchListVars
    BY <1>49 DEF ToolEndThrows, Batch, batchListVars
  <2> QED
    BY <2>1, BatchesFrame
<1>50. ASSUME NEW c \in CallIds, ToolAborted(c) PROVE BatchesQueued'
  <2>1. UNCHANGED batchListVars
    BY <1>50 DEF ToolAborted, EndTask, Batch, batchListVars
  <2> QED
    BY <2>1, BatchesFrame
<1>51. ASSUME NEW c \in CallIds, ToolEndSettles(c) PROVE BatchesQueued'
  <2>1. UNCHANGED batchListVars
    BY <1>51 DEF ToolEndSettles, Batch, batchListVars
  <2> QED
    BY <2>1, BatchesFrame
<1>52. CASE UNCHANGED vars
  <2>1. UNCHANGED batchListVars
    BY <1>52 DEF vars, batchListVars
  <2> QED
    BY <2>1, BatchesFrame
<1> HIDE DEF Sent
<1> HIDE DEF agentState, queues, runVars, control, locals, batchVars, history, Emit, Await, Goto, At
<1> QED
  BY <1>1, <1>2, <1>3, <1>4, <1>5, <1>6, <1>7, <1>8, <1>9, <1>10, <1>11, <1>12, <1>13, <1>14,
       <1>15, <1>16, <1>17, <1>18, <1>19, <1>20, <1>21, <1>22, <1>23, <1>24, <1>24a, <1>25, <1>26, <1>27,
       <1>28, <1>29, <1>30, <1>31, <1>32, <1>33, <1>34, <1>35, <1>36, <1>37, <1>38, <1>39, <1>40,
       <1>41, <1>42, <1>43, <1>44, <1>45, <1>46, <1>47, <1>48, <1>49, <1>50, <1>51, <1>52,
       BoundsAssumption
  DEF Next, HostCall, LoopStep, External, TaskStep

\* Every step keeps the labels at which the lists may be non-empty.
LEMMA StepLists == ASSUME ListInv, ListsByLabel, [Next]_vars PROVE ListsByLabel'
<1>a. WaitMatchesLabel /\ (activeRun = 0 => pc = "idle")
  BY DEF ListInv, IInv, RunShape
<1> USE <1>a DEF WaitMatchesLabel, ListsByLabel, Prompting
<1> USE DEF agentState, queues, runVars, control, locals, batchVars, history, Emit, Await, Goto, At
<1>1. ASSUME NEW b \in Batches, Prompt(b) PROVE ListsByLabel'
  BY <1>1 DEF Prompt, StartRun, EventTypes
<1>2. ASSUME Continue PROVE ListsByLabel'
  BY <1>2 DEF Continue, StartRun, EventTypes
<1>3. ASSUME NEW b \in Batches, Steer(b) PROVE ListsByLabel'
  BY <1>3 DEF Steer, Host, EventTypes
<1>4. ASSUME NEW b \in Batches, FollowUp(b) PROVE ListsByLabel'
  BY <1>4 DEF FollowUp, Host, EventTypes
<1>5. ASSUME ClearQueues PROVE ListsByLabel'
  BY <1>5 DEF ClearQueues, Host, EventTypes
<1>6. ASSUME NEW m, RemoveQueuedMessages(m) PROVE ListsByLabel'
  BY <1>6 DEF RemoveQueuedMessages, Host, EventTypes
<1>7. ASSUME NEW q \in {"steering", "followUp"}, NEW m \in QueueModes, SetMode(q, m)
     PROVE ListsByLabel'
  BY <1>7 DEF SetMode, Host, EventTypes
<1>8. ASSUME Abort PROVE ListsByLabel'
  BY <1>8 DEF Abort, Host, EventTypes
<1>9. ASSUME Reset PROVE ListsByLabel'
  BY <1>9 DEF Reset, Host, EventTypes
<1>10. ASSUME ListenersSettle PROVE ListsByLabel'
  BY <1>10 DEF ListenersSettle, EventTypes
<1>11. ASSUME FinishRun PROVE ListsByLabel'
  BY <1>11 DEF FinishRun, EventTypes
<1>12. ASSUME Fail PROVE ListsByLabel'
  BY <1>12 DEF Fail, Assistant, Aborted, EventTypes
<1>13. ASSUME FailEnd PROVE ListsByLabel'
  BY <1>13 DEF FailEnd, EmitMessageEnd, EmitAgentEnd, EventTypes
<1>14. ASSUME Begin PROVE ListsByLabel'
  BY <1>14 DEF Begin, EventTypes
<1>15. ASSUME EmitPrompts PROVE ListsByLabel'
  BY <1>15 DEF EmitPrompts, EmitShown, EmitMessageEnd, EventTypes
<1>16. ASSUME PollSteering PROVE ListsByLabel'
  BY <1>16 DEF PollSteering, Polling, EventTypes
<1>17. ASSUME PollFollowUp PROVE ListsByLabel'
  BY <1>17 DEF PollFollowUp, Polling, EventTypes
<1>18. ASSUME RaceAborted PROVE ListsByLabel'
  BY <1>18 DEF RaceAborted, Polling, EventTypes
<1>19. ASSUME PollSettles PROVE ListsByLabel'
  BY <1>19 DEF PollSettles, EventTypes
<1>20. ASSUME FirstTurn PROVE ListsByLabel'
  BY <1>20 DEF FirstTurn, StartTurn, EventTypes
<1>21. ASSUME Inject PROVE ListsByLabel'
  BY <1>21 DEF Inject, EmitShown, EmitMessageEnd, EventTypes
<1>22. ASSUME Request PROVE ListsByLabel'
  BY <1>22 DEF Request, Respond, Streaming, Asking, EmitShown, EmitMessageEnd, Assistant, EventTypes
<1>23. ASSUME NextEvent PROVE ListsByLabel'
  BY <1>23 DEF NextEvent, EventTypes
<1>24. ASSUME ProviderAborted PROVE ListsByLabel'
  BY <1>24 DEF ProviderAborted, Respond, Streaming, Asking, EmitShown, EmitMessageEnd, Assistant, EventTypes
<1>24a. ASSUME ListenersAbort PROVE ListsByLabel'
  BY <1>24a DEF ListenersAbort, Respond, Streaming, Asking, EmitShown, EmitMessageEnd, Assistant, EventTypes
<1>25. ASSUME ReplyEnd PROVE ListsByLabel'
  BY <1>25 DEF ReplyEnd, EmitMessageEnd, EventTypes
<1>26. ASSUME Turn PROVE ListsByLabel'
  BY <1>26 DEF Turn, EmitTurnEnd, EventTypes
<1>27. ASSUME Announce PROVE ListsByLabel'
  BY <1>27 DEF Announce, Batch, Call, EventTypes
<1>28. ASSUME PrepareToolCall PROVE ListsByLabel'
  BY <1>28 DEF PrepareToolCall, Batch, Allow, AnswerAtOnce, Call, EventTypes
<1>29. ASSUME BeforeToolCallAborted PROVE ListsByLabel'
  BY <1>29 DEF BeforeToolCallAborted, Batch, AnswerAtOnce, Call, EventTypes
<1>30. ASSUME Prepared PROVE ListsByLabel'
  BY <1>30 DEF Prepared, Batch, Launch, Call, EventTypes
<1>31. ASSUME LaunchAll PROVE ListsByLabel'
  BY <1>31 DEF LaunchAll, Batch, Launch, EventTypes
<1>32. ASSUME ToolsSettle PROVE ListsByLabel'
  BY <1>32 DEF ToolsSettle, Batch, EventTypes
<1>33. ASSUME EmitResult PROVE ListsByLabel'
  BY <1>33 DEF EmitResult, Batch, EmitShown, EmitMessageEnd, ToolResult, EventTypes
<1>34. ASSUME BatchDone PROVE ListsByLabel'
  BY <1>34 DEF BatchDone, EmitTurnEnd, EventTypes
<1>35. ASSUME AfterTurn PROVE ListsByLabel'
  BY <1>35 DEF AfterTurn, EventTypes
<1>36. ASSUME PolledSteering PROVE ListsByLabel'
  BY <1>36 DEF PolledSteering, StartTurn, EventTypes
<1>37. ASSUME PolledFollowUp PROVE ListsByLabel'
  BY <1>37 DEF PolledFollowUp, StartTurn, EventTypes
<1>38. ASSUME Continued PROVE ListsByLabel'
  BY <1>38 DEF Continued, StartTurn, EventTypes
<1>39. ASSUME End PROVE ListsByLabel'
  BY <1>39 DEF End, EmitAgentEnd, EventTypes
<1>40. ASSUME ListenersThrow PROVE ListsByLabel'
  BY <1>40 DEF ListenersThrow, EventTypes
<1>41. ASSUME ProviderStarts PROVE ListsByLabel'
  BY <1>41 DEF ProviderStarts, Streaming, Asking, EmitShown, EventTypes
<1>42. ASSUME ProviderUpdates PROVE ListsByLabel'
  BY <1>42 DEF ProviderUpdates, Streaming, Asking, EmitShown, EventTypes
<1>43. ASSUME ProviderThrows PROVE ListsByLabel'
  BY <1>43 DEF ProviderThrows, EventTypes
<1>44. ASSUME NEW k \in 0..MaxCalls, NEW stop \in {"stop", "error"}, ProviderDone(k, stop)
     PROVE ListsByLabel'
  BY <1>44 DEF ProviderDone, Respond, Streaming, Asking, EmitShown, EmitMessageEnd, Assistant, EventTypes
<1>45. ASSUME BeforeToolCallSettles PROVE ListsByLabel'
  BY <1>45 DEF BeforeToolCallSettles, Batch, Allow, AnswerAtOnce, Call, EventTypes
<1>46. ASSUME StopHookSettles PROVE ListsByLabel'
  BY <1>46 DEF StopHookSettles, EventTypes
<1>47. ASSUME ContinuationSettles PROVE ListsByLabel'
  BY <1>47 DEF ContinuationSettles, EventTypes
<1>48. ASSUME NEW c \in CallIds, ToolEnds(c) PROVE ListsByLabel'
  BY <1>48 DEF ToolEnds, EndTask, Batch, EventTypes
<1>49. ASSUME NEW c \in CallIds, ToolEndThrows(c) PROVE ListsByLabel'
  BY <1>49 DEF ToolEndThrows, Batch, EventTypes
<1>50. ASSUME NEW c \in CallIds, ToolAborted(c) PROVE ListsByLabel'
  BY <1>50 DEF ToolAborted, EndTask, Batch, EventTypes
<1>51. ASSUME NEW c \in CallIds, ToolEndSettles(c) PROVE ListsByLabel'
  BY <1>51 DEF ToolEndSettles, Batch, EventTypes
<1>52. CASE UNCHANGED vars
  BY <1>52 DEF vars, EventTypes
<1> HIDE <1>a DEF WaitMatchesLabel, ListsByLabel, Prompting
<1> HIDE DEF agentState, queues, runVars, control, locals, batchVars, history, Emit, Await, Goto, At
<1> QED
  BY <1>1, <1>2, <1>3, <1>4, <1>5, <1>6, <1>7, <1>8, <1>9, <1>10, <1>11, <1>12, <1>13, <1>14,
       <1>15, <1>16, <1>17, <1>18, <1>19, <1>20, <1>21, <1>22, <1>23, <1>24, <1>24a, <1>25, <1>26, <1>27,
       <1>28, <1>29, <1>30, <1>31, <1>32, <1>33, <1>34, <1>35, <1>36, <1>37, <1>38, <1>39, <1>40,
       <1>41, <1>42, <1>43, <1>44, <1>45, <1>46, <1>47, <1>48, <1>49, <1>50, <1>51, <1>52,
       BoundsAssumption
  DEF Next, HostCall, LoopStep, External, TaskStep

\* Places is Held of the model.
LEMMA HeldIsPlaces == Held = Places /\ Held' = Places'
<1>1. InTranscript = Said(messages) /\ InTranscript' = Said(messages')
  BY DEF InTranscript, Said
<1>2. \A p, q, r : {m.id : m \in ToSet(p) \cup ToSet(q) \cup ToSet(r)} = Ids(p) \cup Ids(q) \cup Ids(r)
  BY DEF Ids
<1>3. Held = Places
  BY ONLY <1>1, <1>2 DEF Held, Places
<1>4. Held' = Places'
  <2>1. {m.id : m \in ToSet(prompts') \cup ToSet(pendingMessages') \cup ToSet(polled')}
          = Ids(prompts') \cup Ids(pendingMessages') \cup Ids(polled')
    BY <1>2
  <2> QED
    BY ONLY <1>1, <2>1 DEF Held, Places
<1> QED
  BY <1>3, <1>4

\* The lists and queues, and the history that tells what should be in them.
keptVars == <<steeringQueue, followUpQueue, sent, gone, prompts, pendingMessages, polled>>

\* A step that leaves them and the transcript loses nothing.
LEMMA KeptFrame ==
  ASSUME UNCHANGED <<keptVars, messages>>, abortedRuns \subseteq abortedRuns',
       failed \subseteq failed'
  PROVE  NothingMissing
<1>1. Places' = Places /\ HandedOver' = HandedOver
  BY DEF keptVars, Places, HandedOver
<1> QED
  BY <1>1 DEF NothingMissing

\* A message that joins the transcript loses nothing.
LEMMA MessageJoins ==
  ASSUME messages \in Seq(Messages), UNCHANGED <<keptVars, abortedRuns, failed>>,
         NEW x, messages' = Append(messages, x)
  PROVE  NothingMissing
<1>1. Said(messages) \subseteq Said(messages')
  <2> DEFINE S == Messages \cup {x}
  <2>1. messages \in Seq(S) /\ x \in S
    BY SeqOfSubset
  <2> HIDE DEF S
  <2> QED
    BY <2>1, SaidGrows
<1>2. Places \subseteq Places' /\ HandedOver' = HandedOver
  BY <1>1 DEF keptVars, Places, HandedOver
<1> QED
  BY <1>2 DEF NothingMissing

\* What was polled is injected next.
LEMMA TurnTakesPolled ==
  ASSUME StartTurn(polled), pendingMessages = <<>>,
         UNCHANGED <<messages, steeringQueue, followUpQueue, sent, gone, abortedRuns, failed>>
  PROVE  NothingMissing
<1>1. UNCHANGED prompts /\ pendingMessages' = polled
  BY DEF StartTurn
<1>2. Places \subseteq Places' /\ HandedOver' = HandedOver
  BY <1>1, IdsOfLists DEF Places, HandedOver
<1> QED
  BY <1>2 DEF NothingMissing

\* What the host hands over in a step.
LEMMA HandOver ==
  ASSUME BatchesQueued, NEW o \in {"prompt", "steer", "followUp", "continuation"},
       NEW b \in Batches,
         sent' = Append(sent, <<o, b>>)
  PROVE  HandedOver' = HandedOver \cup ToSet(b)
<1>1. /\ Len(sent) \in Nat /\ DOMAIN sent = 1..Len(sent) /\ DOMAIN sent' = 1..(Len(sent) + 1)
      /\ sent'[Len(sent) + 1] = <<o, b>> /\ \A i \in 1..Len(sent) : sent'[i] = sent[i]
  BY DEF BatchesQueued
<1>2. 1..(Len(sent) + 1) = 1..Len(sent) \cup {Len(sent) + 1}
  BY <1>1
<1>3. sent'[Len(sent) + 1][2] = b
  BY <1>1
<1> QED
  BY <1>1, <1>2, <1>3 DEF HandedOver

\* No step loses a message, unless it aborts or fails a run: a drained batch is in the
\* list it was drained to, a prompt or an injected message leaves its list when it
\* joins the transcript, and reset and removal put what they drop in gone.
LEMMA StepMissing == ASSUME ListInv, BatchesQueued, ListsByLabel, InjectedIsSaid, [Next]_vars PROVE NothingMissing
<1>a. /\ activeRun = 0 <=> pc = "idle"
      /\ WaitMatchesLabel
      /\ messages \in Seq(Messages)
      /\ prompts \in Seq(HostMessages) /\ pendingMessages \in Seq(HostMessages)
      /\ polled \in Seq(HostMessages)
      /\ pc = "promptEnd" => prompts # <<>>
      /\ pc \in {"injectEnd", "injected"} => pendingMessages # <<>>
  BY DEF ListInv, IInv, RunShape, DataInv, ListsOK, CopiesOK, LabelsOK
<1>l. /\ prompts # <<>> => pc \in {"begin", "prompts", "promptEnd", "fail"}
      /\ pendingMessages # <<>> => pc \in {"inject", "injectEnd", "injected", "fail"}
      /\ polled # <<>> => pc \in {"start", "polledSteering", "polledFollowUp", "continued", "fail"}
      /\ wait = "getContinuationMessages" => polled = <<>>
  BY DEF ListsByLabel, Prompting
<1>q. steeringQueue \in Seq(Seq(HostIds)) /\ followUpQueue \in Seq(Seq(HostIds))
  BY DEF ListInv, DataInv, QueuesOK
<1>b. \A b \in Batches : b \in Seq(HostIds) /\ Ids(AsMessages(b)) = ToSet(b)
  BY BatchesAssumption, IdsOfLists DEF HostIds
<1>e. Ids(<<>>) = {} /\ \A s \in Seq(HostMessages) : s # <<>> => Ids(s) \subseteq {Head(s).id} \cup Ids(Tail(s))
  BY IdsOfLists
<1>d. /\ \A m : /\ InQueue(steeringQueue) \subseteq Ids(AsMessages(Drained(steeringQueue, m)))
                                                      \cup InQueue(Rest(steeringQueue, m))
                /\ InQueue(followUpQueue) \subseteq Ids(AsMessages(Drained(followUpQueue, m)))
                                                      \cup InQueue(Rest(followUpQueue, m))
  <2>1. \A q \in Seq(Seq(HostIds)) : \A m :
           InQueue(q) \subseteq Ids(AsMessages(Drained(q, m))) \cup InQueue(Rest(q, m))
    BY QueueElements, QueueTypes, IdsOfLists
  <2> QED
    BY <2>1, <1>q
<1>h. \A m \in HostMessages : m.role \in {"user", "custom"}
  BY BatchesAssumption DEF HostMessages, HostMessage, HostIds
<1> USE DEF agentState, queues, runVars, control, locals, batchVars, history, Emit, Await, Goto, At
<1>1. ASSUME NEW b \in Batches, Prompt(b) PROVE NothingMissing
  <2> USE <1>1 DEF Prompt, StartRun
  <2>1. /\ UNCHANGED <<messages, gone, steeringQueue, followUpQueue, abortedRuns, failed>>
        /\ prompts = <<>> /\ pendingMessages = <<>> /\ polled = <<>>
        /\ prompts' = AsMessages(b) /\ pendingMessages' = <<>> /\ polled' = <<>>
    BY <1>a, <1>l
  <2>2. HandedOver' = HandedOver \cup ToSet(b)
    BY HandOver
  <2>3. Places \subseteq Places' /\ ToSet(b) \subseteq Places'
    BY ONLY <2>1, <1>e, <1>b, b \in Batches DEF Places
  <2> QED
    BY ONLY <2>1, <2>2, <2>3 DEF NothingMissing
<1>2. ASSUME Continue PROVE NothingMissing
  <2> USE <1>2 DEF Continue
  <2>0. /\ UNCHANGED <<messages, gone, sent, abortedRuns, failed>>
        /\ prompts = <<>> /\ pendingMessages = <<>> /\ polled = <<>>
        /\ pendingMessages' = <<>> /\ polled' = <<>>
    BY <1>a, <1>l DEF StartRun
  <2>1. \/ /\ prompts' = AsMessages(Drained(steeringQueue, mode.steering))
           /\ steeringQueue' = Rest(steeringQueue, mode.steering) /\ UNCHANGED followUpQueue
        \/ /\ prompts' = AsMessages(Drained(followUpQueue, mode.followUp))
           /\ followUpQueue' = Rest(followUpQueue, mode.followUp) /\ UNCHANGED steeringQueue
        \/ UNCHANGED <<steeringQueue, followUpQueue>>
    BY DEF StartRun
  <2>2. Places \subseteq Places' /\ HandedOver' = HandedOver
    BY ONLY <2>0, <2>1, <1>e, <1>d DEF Places, HandedOver
  <2> QED
    BY ONLY <2>0, <2>2 DEF NothingMissing
<1>3. ASSUME NEW b \in Batches, Steer(b) PROVE NothingMissing
  <2> USE <1>3 DEF Steer, Host
  <2>1. /\ UNCHANGED <<messages, gone, followUpQueue, prompts, pendingMessages, polled, abortedRuns, failed>>
        /\ steeringQueue' = Append(steeringQueue, b)
    OBVIOUS
  <2>2. HandedOver' = HandedOver \cup ToSet(b)
    BY HandOver
  <2>3. InQueue(steeringQueue') = InQueue(steeringQueue) \cup ToSet(b)
    BY <1>q, <1>b, <2>1, QueueElements
  <2>4. Places \subseteq Places' /\ ToSet(b) \subseteq Places'
    BY ONLY <2>1, <2>3 DEF Places
  <2> QED
    BY ONLY <2>1, <2>2, <2>4 DEF NothingMissing
<1>4. ASSUME NEW b \in Batches, FollowUp(b) PROVE NothingMissing
  <2> USE <1>4 DEF FollowUp, Host
  <2>1. /\ UNCHANGED <<messages, gone, steeringQueue, prompts, pendingMessages, polled, abortedRuns, failed>>
        /\ followUpQueue' = Append(followUpQueue, b)
    OBVIOUS
  <2>2. HandedOver' = HandedOver \cup ToSet(b)
    BY HandOver
  <2>3. InQueue(followUpQueue') = InQueue(followUpQueue) \cup ToSet(b)
    BY <1>q, <1>b, <2>1, QueueElements
  <2>4. Places \subseteq Places' /\ ToSet(b) \subseteq Places'
    BY ONLY <2>1, <2>3 DEF Places
  <2> QED
    BY ONLY <2>1, <2>2, <2>4 DEF NothingMissing
<1>5. ASSUME ClearQueues PROVE NothingMissing
  <2> USE <1>5 DEF ClearQueues, Host
  <2>1. /\ UNCHANGED <<messages, prompts, pendingMessages, polled, sent, abortedRuns, failed>>
        /\ gone' = gone \cup ((InQueue(steeringQueue) \cup InQueue(followUpQueue))
                               \ (InQueue(steeringQueue') \cup InQueue(followUpQueue')))
    BY <1>a, <1>l
  <2>2. Places \subseteq Places' /\ HandedOver' = HandedOver
    BY ONLY <2>1, <1>e DEF Places, HandedOver
  <2> QED
    BY ONLY <2>1, <2>2 DEF NothingMissing
<1>6. ASSUME NEW m, RemoveQueuedMessages(m) PROVE NothingMissing
  <2> USE <1>6 DEF RemoveQueuedMessages, Host
  <2>1. /\ UNCHANGED <<messages, prompts, pendingMessages, polled, sent, abortedRuns, failed>>
        /\ steeringQueue' = Without(steeringQueue, m) /\ followUpQueue' = Without(followUpQueue, m)
        /\ gone' = gone \cup UNION {ToSet(b) : b \in {c \in Batches : m \in ToSet(c)}}
    OBVIOUS
  <2>2. \A q \in Seq(Batches) : InQueue(q) \subseteq InQueue(Without(q, m)) \cup gone'
    <3> SUFFICES ASSUME NEW q \in Seq(Batches), NEW i \in DOMAIN q
                 PROVE  ToSet(q[i]) \subseteq InQueue(Without(q, m)) \cup gone'
      BY DEF InQueue
    <3>1. q[i] \in Batches
      OBVIOUS
    <3>2. q \in Seq(Seq(HostIds))
      BY SeqOfSubset, BatchesAssumption DEF HostIds
    <3>3. m \in ToSet(q[i]) \/ ToSet(q[i]) \subseteq InQueue(Without(q, m))
      BY <3>2, QueueElements
    <3> QED
      BY ONLY <2>1, <3>1, <3>3
  <2>3. steeringQueue \in Seq(Batches) /\ followUpQueue \in Seq(Batches)
    BY DEF BatchesQueued
  <2>4. Places \subseteq Places' /\ HandedOver' = HandedOver
    BY ONLY <2>1, <2>2, <2>3 DEF Places, HandedOver
  <2> QED
    BY ONLY <2>1, <2>4 DEF NothingMissing
<1>7. ASSUME NEW q \in {"steering", "followUp"}, NEW m \in QueueModes, SetMode(q, m)
     PROVE NothingMissing
  <2>1. UNCHANGED <<keptVars, messages>> /\ abortedRuns \subseteq abortedRuns' /\ failed \subseteq failed'
    BY <1>7 DEF SetMode, Host, keptVars
  <2> QED
    BY <2>1, KeptFrame
<1>8. ASSUME Abort PROVE NothingMissing
  <2>1. UNCHANGED <<keptVars, messages>> /\ abortedRuns \subseteq abortedRuns' /\ failed \subseteq failed'
    BY <1>8 DEF Abort, Host, keptVars
  <2> QED
    BY <2>1, KeptFrame
<1>9. ASSUME Reset PROVE NothingMissing
  <2> USE <1>9 DEF Reset, Host
  <2>1. /\ UNCHANGED <<prompts, pendingMessages, polled, sent, abortedRuns, failed>>
        /\ gone' = gone \cup InQueue(steeringQueue) \cup InQueue(followUpQueue) \cup Said(messages)
    BY DEF Said
  <2>2. Places \subseteq Places' /\ HandedOver' = HandedOver
    BY ONLY <2>1 DEF Places, HandedOver
  <2> QED
    BY ONLY <2>1, <2>2 DEF NothingMissing
<1>10. ASSUME ListenersSettle PROVE NothingMissing
  <2>1. UNCHANGED <<keptVars, messages>> /\ abortedRuns \subseteq abortedRuns' /\ failed \subseteq failed'
    BY <1>10 DEF ListenersSettle, keptVars
  <2> QED
    BY <2>1, KeptFrame
<1>11. ASSUME FinishRun PROVE NothingMissing
  <2>1. UNCHANGED <<keptVars, messages>> /\ abortedRuns \subseteq abortedRuns' /\ failed \subseteq failed'
    BY <1>11 DEF FinishRun, keptVars
  <2> QED
    BY <2>1, KeptFrame
<1>12. ASSUME Fail PROVE NothingMissing
  <2> USE <1>12 DEF Fail, Assistant, Aborted
  <2>1. failed' # {}
    OBVIOUS
  <2> QED
    BY ONLY <2>1 DEF NothingMissing
<1>13. ASSUME FailEnd PROVE NothingMissing
  <2> USE <1>13 DEF FailEnd, EmitMessageEnd, EmitAgentEnd
  <2>1. /\ UNCHANGED <<keptVars, abortedRuns, failed>>
        /\ (UNCHANGED messages \/ \E x : messages' = Append(messages, x))
    BY DEF keptVars
  <2> QED
    BY ONLY <1>a, <2>1, KeptFrame, MessageJoins
<1>14. ASSUME Begin PROVE NothingMissing
  <2>1. UNCHANGED <<keptVars, messages>> /\ abortedRuns \subseteq abortedRuns' /\ failed \subseteq failed'
    BY <1>14 DEF Begin, keptVars
  <2> QED
    BY <2>1, KeptFrame
<1>15. ASSUME EmitPrompts PROVE NothingMissing
  <2> USE <1>15 DEF EmitPrompts, EmitShown, EmitMessageEnd
  <2>1. /\ UNCHANGED <<gone, steeringQueue, followUpQueue, sent, pendingMessages, polled, abortedRuns, failed>>
        /\ \/ UNCHANGED <<messages, prompts>>
           \/ /\ prompts # <<>> /\ messages' = Append(messages, Head(prompts))
              /\ prompts' = Tail(prompts)
    BY <1>a
  <2>2. CASE UNCHANGED <<messages, prompts>>
    BY <2>1, <2>2, KeptFrame DEF keptVars
  <2>3. CASE prompts # <<>> /\ messages' = Append(messages,
       Head(prompts)) /\ prompts' = Tail(prompts)
    <3>1. Head(prompts) \in HostMessages
      BY <1>a, <2>3
    <3>2. Head(prompts) \in Messages /\ Head(prompts).role \in {"user", "custom"}
      BY <3>1, <1>h, MessageKinds
    <3>3. Said(messages) \subseteq Said(messages') /\ Head(prompts).id \in Said(messages')
      BY <3>2, <1>a, <2>3, SaidGrows
    <3>4. Ids(prompts) \subseteq {Head(prompts).id} \cup Ids(prompts')
      BY <1>a, <1>e, <2>3
    <3>5. Places \subseteq Places' /\ HandedOver' = HandedOver
      BY ONLY <2>1, <3>3, <3>4 DEF Places, HandedOver
    <3> QED
      BY ONLY <2>1, <3>5 DEF NothingMissing
  <2> QED
    BY <2>1, <2>2, <2>3
<1>16. ASSUME PollSteering PROVE NothingMissing
  <2> USE <1>16 DEF PollSteering, Polling
  <2>1. /\ UNCHANGED <<messages, gone, followUpQueue, sent, prompts, pendingMessages, abortedRuns, failed>>
        /\ polled = <<>>
        /\ \/ polled' = <<>> /\ UNCHANGED steeringQueue
           \/ /\ polled' = AsMessages(Drained(steeringQueue, mode.steering))
              /\ steeringQueue' = Rest(steeringQueue, mode.steering)
    BY <1>a, <1>l
  <2>2. Places \subseteq Places' /\ HandedOver' = HandedOver
    BY ONLY <2>1, <1>e, <1>d DEF Places, HandedOver
  <2> QED
    BY ONLY <2>1, <2>2 DEF NothingMissing
<1>17. ASSUME PollFollowUp PROVE NothingMissing
  <2> USE <1>17 DEF PollFollowUp, Polling
  <2>1. /\ UNCHANGED <<messages, gone, steeringQueue, sent, prompts, pendingMessages, abortedRuns, failed>>
        /\ polled = <<>>
        /\ \/ polled' = <<>> /\ UNCHANGED followUpQueue
           \/ /\ polled' = AsMessages(Drained(followUpQueue, mode.followUp))
              /\ followUpQueue' = Rest(followUpQueue, mode.followUp)
    BY <1>a, <1>l
  <2>2. Places \subseteq Places' /\ HandedOver' = HandedOver
    BY ONLY <2>1, <1>e, <1>d DEF Places, HandedOver
  <2> QED
    BY ONLY <2>1, <2>2 DEF NothingMissing
<1>18. ASSUME RaceAborted PROVE NothingMissing
  <2> USE <1>18 DEF RaceAborted, Polling
  <2>1. abortedRuns' # {}
    BY DEF Aborted
  <2> QED
    BY ONLY <2>1 DEF NothingMissing
<1>19. ASSUME PollSettles PROVE NothingMissing
  <2>1. UNCHANGED <<keptVars, messages>> /\ abortedRuns \subseteq abortedRuns' /\ failed \subseteq failed'
    BY <1>19 DEF PollSettles, keptVars
  <2> QED
    BY <2>1, KeptFrame
<1>20. ASSUME FirstTurn PROVE NothingMissing
  <2> USE <1>20 DEF FirstTurn
  <2>0. pendingMessages = <<>> /\ UNCHANGED <<messages, steeringQueue, followUpQueue, sent, gone, abortedRuns, failed>>
    BY <1>l
  <2>1. CASE StartTurn(polled)
    BY ONLY <2>0, <2>1, TurnTakesPolled
  <2> QED
    BY <2>1
<1>21. ASSUME Inject PROVE NothingMissing
  <2> USE <1>21 DEF Inject, EmitShown, EmitMessageEnd
  <2>1. CASE At("injected")
    <3>1. /\ UNCHANGED <<messages, gone, steeringQueue, followUpQueue, sent, prompts, polled, abortedRuns, failed>>
          /\ pendingMessages # <<>> /\ pendingMessages' = Tail(pendingMessages)
          /\ pendingMessages \in Seq(HostMessages)
      BY <2>1, <1>a
    <3>2. Head(pendingMessages).id \in Said(messages) \cup gone
      BY <2>1 DEF InjectedIsSaid, InTranscript, Said
    <3>3. Ids(pendingMessages) \subseteq {Head(pendingMessages).id} \cup Ids(pendingMessages')
      BY <1>e, <3>1
    <3>4. Places \subseteq Places' /\ HandedOver' = HandedOver
      BY ONLY <3>1, <3>2, <3>3 DEF Places, HandedOver
    <3> QED
      BY ONLY <3>1, <3>4 DEF NothingMissing
  <2>2. CASE ~At("injected")
    <3>1. /\ UNCHANGED <<keptVars, abortedRuns, failed>>
          /\ (UNCHANGED messages \/ \E x : messages' = Append(messages, x))
      BY <2>2 DEF keptVars
    <3> QED
      BY ONLY <1>a, <3>1, KeptFrame, MessageJoins
  <2> QED
    BY <2>1, <2>2
<1>22. ASSUME Request PROVE NothingMissing
  <2> USE <1>22 DEF Request, Respond, Streaming, Asking, EmitShown, EmitMessageEnd, Assistant
  <2>1. /\ UNCHANGED <<keptVars, abortedRuns, failed>>
        /\ (UNCHANGED messages \/ \E x : messages' = Append(messages, x))
    BY DEF keptVars
  <2> QED
    BY ONLY <1>a, <2>1, KeptFrame, MessageJoins
<1>23. ASSUME NextEvent PROVE NothingMissing
  <2>1. UNCHANGED <<keptVars, messages>> /\ abortedRuns \subseteq abortedRuns' /\ failed \subseteq failed'
    BY <1>23 DEF NextEvent, keptVars
  <2> QED
    BY <2>1, KeptFrame
<1>24. ASSUME ProviderAborted PROVE NothingMissing
  <2> USE <1>24 DEF ProviderAborted, Respond, Streaming, Asking, EmitShown, EmitMessageEnd, Assistant
  <2>1. /\ UNCHANGED <<keptVars, abortedRuns, failed>>
        /\ (UNCHANGED messages \/ \E x : messages' = Append(messages, x))
    BY DEF keptVars
  <2> QED
    BY ONLY <1>a, <2>1, KeptFrame, MessageJoins
<1>24a. ASSUME ListenersAbort PROVE NothingMissing
  <2> USE <1>24a DEF ListenersAbort, Respond, Streaming, Asking, EmitShown, EmitMessageEnd, Assistant
  <2>1. /\ UNCHANGED <<keptVars, abortedRuns, failed>>
        /\ (UNCHANGED messages \/ \E x : messages' = Append(messages, x))
    BY DEF keptVars
  <2> QED
    BY ONLY <1>a, <2>1, KeptFrame, MessageJoins
<1>25. ASSUME ReplyEnd PROVE NothingMissing
  <2> USE <1>25 DEF ReplyEnd, EmitMessageEnd
  <2>1. /\ UNCHANGED <<keptVars, abortedRuns, failed>>
        /\ (UNCHANGED messages \/ \E x : messages' = Append(messages, x))
    BY DEF keptVars
  <2> QED
    BY ONLY <1>a, <2>1, KeptFrame, MessageJoins
<1>26. ASSUME Turn PROVE NothingMissing
  <2>1. UNCHANGED <<keptVars, messages>> /\ abortedRuns \subseteq abortedRuns' /\ failed \subseteq failed'
    BY <1>26 DEF Turn, EmitTurnEnd, keptVars
  <2> QED
    BY <2>1, KeptFrame
<1>27. ASSUME Announce PROVE NothingMissing
  <2>1. UNCHANGED <<keptVars, messages>> /\ abortedRuns \subseteq abortedRuns' /\ failed \subseteq failed'
    BY <1>27 DEF Announce, Batch, Call, keptVars
  <2> QED
    BY <2>1, KeptFrame
<1>28. ASSUME PrepareToolCall PROVE NothingMissing
  <2>1. UNCHANGED <<keptVars, messages>> /\ abortedRuns \subseteq abortedRuns' /\ failed \subseteq failed'
    BY <1>28 DEF PrepareToolCall, Batch, Allow, AnswerAtOnce, Call, keptVars
  <2> QED
    BY <2>1, KeptFrame
<1>29. ASSUME BeforeToolCallAborted PROVE NothingMissing
  <2>1. UNCHANGED <<keptVars, messages>> /\ abortedRuns \subseteq abortedRuns' /\ failed \subseteq failed'
    BY <1>29 DEF BeforeToolCallAborted, Batch, AnswerAtOnce, Call, keptVars
  <2> QED
    BY <2>1, KeptFrame
<1>30. ASSUME Prepared PROVE NothingMissing
  <2>1. UNCHANGED <<keptVars, messages>> /\ abortedRuns \subseteq abortedRuns' /\ failed \subseteq failed'
    BY <1>30 DEF Prepared, Batch, Launch, Call, keptVars
  <2> QED
    BY <2>1, KeptFrame
<1>31. ASSUME LaunchAll PROVE NothingMissing
  <2>1. UNCHANGED <<keptVars, messages>> /\ abortedRuns \subseteq abortedRuns' /\ failed \subseteq failed'
    BY <1>31 DEF LaunchAll, Batch, Launch, keptVars
  <2> QED
    BY <2>1, KeptFrame
<1>32. ASSUME ToolsSettle PROVE NothingMissing
  <2>1. UNCHANGED <<keptVars, messages>> /\ abortedRuns \subseteq abortedRuns' /\ failed \subseteq failed'
    BY <1>32 DEF ToolsSettle, Batch, keptVars
  <2> QED
    BY <2>1, KeptFrame
<1>33. ASSUME EmitResult PROVE NothingMissing
  <2> USE <1>33 DEF EmitResult, Batch, EmitShown, EmitMessageEnd, ToolResult
  <2>1. /\ UNCHANGED <<keptVars, abortedRuns, failed>>
        /\ (UNCHANGED messages \/ \E x : messages' = Append(messages, x))
    BY DEF keptVars
  <2> QED
    BY ONLY <1>a, <2>1, KeptFrame, MessageJoins
<1>34. ASSUME BatchDone PROVE NothingMissing
  <2>1. UNCHANGED <<keptVars, messages>> /\ abortedRuns \subseteq abortedRuns' /\ failed \subseteq failed'
    BY <1>34 DEF BatchDone, EmitTurnEnd, keptVars
  <2> QED
    BY <2>1, KeptFrame
<1>35. ASSUME AfterTurn PROVE NothingMissing
  <2>1. UNCHANGED <<keptVars, messages>> /\ abortedRuns \subseteq abortedRuns' /\ failed \subseteq failed'
    BY <1>35 DEF AfterTurn, keptVars
  <2> QED
    BY <2>1, KeptFrame
<1>36. ASSUME PolledSteering PROVE NothingMissing
  <2> USE <1>36 DEF PolledSteering
  <2>0. pendingMessages = <<>> /\ UNCHANGED <<messages, steeringQueue, followUpQueue, sent, gone, abortedRuns, failed>>
    BY <1>l
  <2>1. CASE StartTurn(polled)
    BY ONLY <2>0, <2>1, TurnTakesPolled
  <2>2. CASE UNCHANGED locals
    BY <2>0, <2>2, KeptFrame DEF keptVars
  <2> QED
    BY <2>1, <2>2
<1>37. ASSUME PolledFollowUp PROVE NothingMissing
  <2> USE <1>37 DEF PolledFollowUp
  <2>0. pendingMessages = <<>> /\ UNCHANGED <<messages, steeringQueue, followUpQueue, sent, gone, abortedRuns, failed>>
    BY <1>l
  <2>1. CASE StartTurn(polled)
    BY ONLY <2>0, <2>1, TurnTakesPolled
  <2>2. CASE UNCHANGED locals
    BY <2>0, <2>2, KeptFrame DEF keptVars
  <2> QED
    BY <2>1, <2>2
<1>38. ASSUME Continued PROVE NothingMissing
  <2> USE <1>38 DEF Continued
  <2>0. pendingMessages = <<>> /\ UNCHANGED <<messages, steeringQueue, followUpQueue, sent, gone, abortedRuns, failed>>
    BY <1>l
  <2>1. CASE StartTurn(polled)
    BY ONLY <2>0, <2>1, TurnTakesPolled
  <2>2. CASE UNCHANGED locals
    BY <2>0, <2>2, KeptFrame DEF keptVars
  <2> QED
    BY <2>1, <2>2
<1>39. ASSUME End PROVE NothingMissing
  <2>1. UNCHANGED <<keptVars, messages>> /\ abortedRuns \subseteq abortedRuns' /\ failed \subseteq failed'
    BY <1>39 DEF End, EmitAgentEnd, keptVars
  <2> QED
    BY <2>1, KeptFrame
<1>40. ASSUME ListenersThrow PROVE NothingMissing
  <2>1. UNCHANGED <<keptVars, messages>> /\ abortedRuns \subseteq abortedRuns' /\ failed \subseteq failed'
    BY <1>40 DEF ListenersThrow, keptVars
  <2> QED
    BY <2>1, KeptFrame
<1>41. ASSUME ProviderStarts PROVE NothingMissing
  <2>1. UNCHANGED <<keptVars, messages>> /\ abortedRuns \subseteq abortedRuns' /\ failed \subseteq failed'
    BY <1>41 DEF ProviderStarts, Streaming, Asking, EmitShown, keptVars
  <2> QED
    BY <2>1, KeptFrame
<1>42. ASSUME ProviderUpdates PROVE NothingMissing
  <2>1. UNCHANGED <<keptVars, messages>> /\ abortedRuns \subseteq abortedRuns' /\ failed \subseteq failed'
    BY <1>42 DEF ProviderUpdates, Streaming, Asking, EmitShown, keptVars
  <2> QED
    BY <2>1, KeptFrame
<1>43. ASSUME ProviderThrows PROVE NothingMissing
  <2>1. UNCHANGED <<keptVars, messages>> /\ abortedRuns \subseteq abortedRuns' /\ failed \subseteq failed'
    BY <1>43 DEF ProviderThrows, keptVars
  <2> QED
    BY <2>1, KeptFrame
<1>44. ASSUME NEW k \in 0..MaxCalls, NEW stop \in {"stop", "error"}, ProviderDone(k, stop)
     PROVE NothingMissing
  <2> USE <1>44 DEF ProviderDone, Respond, Streaming, Asking, EmitShown, EmitMessageEnd, Assistant
  <2>1. /\ UNCHANGED <<keptVars, abortedRuns, failed>>
        /\ (UNCHANGED messages \/ \E x : messages' = Append(messages, x))
    BY DEF keptVars
  <2> QED
    BY ONLY <1>a, <2>1, KeptFrame, MessageJoins
<1>45. ASSUME BeforeToolCallSettles PROVE NothingMissing
  <2>1. UNCHANGED <<keptVars, messages>> /\ abortedRuns \subseteq abortedRuns' /\ failed \subseteq failed'
    BY <1>45 DEF BeforeToolCallSettles, Batch, Allow, AnswerAtOnce, Call, keptVars
  <2> QED
    BY <2>1, KeptFrame
<1>46. ASSUME StopHookSettles PROVE NothingMissing
  <2>1. UNCHANGED <<keptVars, messages>> /\ abortedRuns \subseteq abortedRuns' /\ failed \subseteq failed'
    BY <1>46 DEF StopHookSettles, keptVars
  <2> QED
    BY <2>1, KeptFrame
<1>47. ASSUME ContinuationSettles PROVE NothingMissing
  <2> USE <1>47 DEF ContinuationSettles
  <2>1. /\ UNCHANGED <<messages, gone, steeringQueue, followUpQueue, prompts, pendingMessages, abortedRuns, failed>>
        /\ polled = <<>>
        /\ \/ UNCHANGED <<polled, sent>>
           \/ \E b \in Batches : polled' = AsMessages(b) /\ sent' = Append(sent, <<"continuation", b>>)
    BY <1>l DEF Unsent
  <2>2. CASE UNCHANGED <<polled, sent>>
    BY <2>1, <2>2, KeptFrame DEF keptVars
  <2>3. ASSUME NEW b \in Batches, polled' = AsMessages(b), sent' = Append(sent,
       <<"continuation", b>>)
        PROVE  NothingMissing
    <3>1. HandedOver' = HandedOver \cup ToSet(b)
      BY <2>3, HandOver
    <3>2. Places \subseteq Places' /\ ToSet(b) \subseteq Places'
      BY ONLY <2>1, <2>3, <1>e, <1>b DEF Places
    <3> QED
      BY ONLY <2>1, <3>1, <3>2 DEF NothingMissing
  <2> QED
    BY ONLY <2>1, <2>2, <2>3
<1>48. ASSUME NEW c \in CallIds, ToolEnds(c) PROVE NothingMissing
  <2>1. UNCHANGED <<keptVars, messages>> /\ abortedRuns \subseteq abortedRuns' /\ failed \subseteq failed'
    BY <1>48 DEF ToolEnds, EndTask, Batch, keptVars
  <2> QED
    BY <2>1, KeptFrame
<1>49. ASSUME NEW c \in CallIds, ToolEndThrows(c) PROVE NothingMissing
  <2>1. UNCHANGED <<keptVars, messages>> /\ abortedRuns \subseteq abortedRuns' /\ failed \subseteq failed'
    BY <1>49 DEF ToolEndThrows, Batch, keptVars
  <2> QED
    BY <2>1, KeptFrame
<1>50. ASSUME NEW c \in CallIds, ToolAborted(c) PROVE NothingMissing
  <2>1. UNCHANGED <<keptVars, messages>> /\ abortedRuns \subseteq abortedRuns' /\ failed \subseteq failed'
    BY <1>50 DEF ToolAborted, EndTask, Batch, keptVars
  <2> QED
    BY <2>1, KeptFrame
<1>51. ASSUME NEW c \in CallIds, ToolEndSettles(c) PROVE NothingMissing
  <2>1. UNCHANGED <<keptVars, messages>> /\ abortedRuns \subseteq abortedRuns' /\ failed \subseteq failed'
    BY <1>51 DEF ToolEndSettles, Batch, keptVars
  <2> QED
    BY <2>1, KeptFrame
<1>52. CASE UNCHANGED vars
  <2>1. UNCHANGED <<keptVars, messages>> /\ abortedRuns \subseteq abortedRuns' /\ failed \subseteq failed'
    BY <1>52 DEF vars, keptVars
  <2> QED
    BY <2>1, KeptFrame
<1> HIDE DEF agentState, queues, runVars, control, locals, batchVars, history, Emit, Await, Goto, At
<1> QED
  BY <1>1, <1>2, <1>3, <1>4, <1>5, <1>6, <1>7, <1>8, <1>9, <1>10, <1>11, <1>12, <1>13, <1>14,
       <1>15, <1>16, <1>17, <1>18, <1>19, <1>20, <1>21, <1>22, <1>23, <1>24, <1>24a, <1>25, <1>26, <1>27,
       <1>28, <1>29, <1>30, <1>31, <1>32, <1>33, <1>34, <1>35, <1>36, <1>37, <1>38, <1>39, <1>40,
       <1>41, <1>42, <1>43, <1>44, <1>45, <1>46, <1>47, <1>48, <1>49, <1>50, <1>51, <1>52,
       BoundsAssumption
  DEF Next, HostCall, LoopStep, External, TaskStep

\* What InjectedIsSaid reads.
injectedVars == <<messages, gone, pendingMessages, pc>>

\* A step that leaves these variables keeps InjectedIsSaid.
LEMMA InjectedFrame == ASSUME InjectedIsSaid, UNCHANGED injectedVars PROVE InjectedIsSaid'
BY DEF InjectedIsSaid, injectedVars, InTranscript

\* The message that is pushed to the context has joined the transcript just before.
LEMMA StepInjected == ASSUME ListInv, InjectedIsSaid, [Next]_vars PROVE InjectedIsSaid'
<1> DEFINE Here == Said(messages) \cup gone
<1>a. /\ messages \in Seq(Messages) /\ pendingMessages \in Seq(HostMessages)
      /\ pc \in {"injectEnd", "injected"} => pendingMessages # <<>>
      /\ activeRun = 0 <=> pc = "idle"
      /\ WaitMatchesLabel
  BY DEF ListInv, IInv, RunShape, DataInv, ListsOK, CopiesOK, LabelsOK
<1>h. \A m \in HostMessages : m.role \in {"user", "custom"} /\ m \in Messages
  BY BatchesAssumption, MessageKinds DEF HostMessages, HostMessage, HostIds
<1>i. pc = "injected" => Head(pendingMessages).id \in Here
  BY DEF InjectedIsSaid, InTranscript, Said
<1>g. ASSUME pc' = "injected", pc = "injected", UNCHANGED pendingMessages, Here \subseteq Here'
      PROVE  InjectedIsSaid'
  <2>1. Head(pendingMessages').id \in Here'
    BY <1>g, <1>i
  <2> QED
    BY <2>1 DEF InjectedIsSaid, InTranscript, Said
<1> USE DEF agentState, queues, runVars, control, locals, batchVars, history, Emit, Await, Goto, At
<1>1. ASSUME NEW b \in Batches, Prompt(b) PROVE InjectedIsSaid'
  BY <1>1 DEF Prompt, StartRun, InjectedIsSaid, EventTypes
<1>2. ASSUME Continue PROVE InjectedIsSaid'
  BY <1>2 DEF Continue, StartRun, InjectedIsSaid, EventTypes
<1>3. ASSUME NEW b \in Batches, Steer(b) PROVE InjectedIsSaid'
  <2>1. UNCHANGED injectedVars
    BY <1>3 DEF Steer, Host, injectedVars
  <2> QED
    BY <2>1, InjectedFrame
<1>4. ASSUME NEW b \in Batches, FollowUp(b) PROVE InjectedIsSaid'
  <2>1. UNCHANGED injectedVars
    BY <1>4 DEF FollowUp, Host, injectedVars
  <2> QED
    BY <2>1, InjectedFrame
<1>5. ASSUME ClearQueues PROVE InjectedIsSaid'
  <2> USE <1>5 DEF ClearQueues, Host
  <2>1. UNCHANGED <<messages, pendingMessages, pc>> /\ gone \subseteq gone'
    OBVIOUS
  <2> QED
    BY <2>1, <1>g DEF InjectedIsSaid
<1>6. ASSUME NEW m, RemoveQueuedMessages(m) PROVE InjectedIsSaid'
  <2> USE <1>6 DEF RemoveQueuedMessages, Host
  <2>1. UNCHANGED <<messages, pendingMessages, pc>> /\ gone \subseteq gone'
    OBVIOUS
  <2> QED
    BY <2>1, <1>g DEF InjectedIsSaid
<1>7. ASSUME NEW q \in {"steering", "followUp"}, NEW m \in QueueModes, SetMode(q, m)
     PROVE InjectedIsSaid'
  <2>1. UNCHANGED injectedVars
    BY <1>7 DEF SetMode, Host, injectedVars
  <2> QED
    BY <2>1, InjectedFrame
<1>8. ASSUME Abort PROVE InjectedIsSaid'
  <2>1. UNCHANGED injectedVars
    BY <1>8 DEF Abort, Host, injectedVars
  <2> QED
    BY <2>1, InjectedFrame
<1>9. ASSUME Reset PROVE InjectedIsSaid'
  <2> USE <1>9 DEF Reset, Host
  <2>1. UNCHANGED <<pendingMessages, pc>> /\ Here \subseteq Here'
    BY DEF Said
  <2> QED
    BY <2>1, <1>g DEF InjectedIsSaid
<1>10. ASSUME ListenersSettle PROVE InjectedIsSaid'
  <2>1. UNCHANGED injectedVars
    BY <1>10 DEF ListenersSettle, injectedVars
  <2> QED
    BY <2>1, InjectedFrame
<1>11. ASSUME FinishRun PROVE InjectedIsSaid'
  BY <1>11 DEF FinishRun, InjectedIsSaid, EventTypes
<1>12. ASSUME Fail PROVE InjectedIsSaid'
  BY <1>12 DEF Fail, Assistant, Aborted, InjectedIsSaid, EventTypes
<1>13. ASSUME FailEnd PROVE InjectedIsSaid'
  BY <1>13 DEF FailEnd, EmitMessageEnd, EmitAgentEnd, InjectedIsSaid, EventTypes
<1>14. ASSUME Begin PROVE InjectedIsSaid'
  BY <1>14 DEF Begin, InjectedIsSaid, EventTypes
<1>15. ASSUME EmitPrompts PROVE InjectedIsSaid'
  BY <1>15 DEF EmitPrompts, EmitShown, EmitMessageEnd, InjectedIsSaid, EventTypes
<1>16. ASSUME PollSteering PROVE InjectedIsSaid'
  BY <1>16 DEF PollSteering, Polling, InjectedIsSaid, EventTypes
<1>17. ASSUME PollFollowUp PROVE InjectedIsSaid'
  BY <1>17 DEF PollFollowUp, Polling, InjectedIsSaid, EventTypes
<1>18. ASSUME RaceAborted PROVE InjectedIsSaid'
  BY <1>18 DEF RaceAborted, Polling, InjectedIsSaid, EventTypes
<1>19. ASSUME PollSettles PROVE InjectedIsSaid'
  <2> USE <1>19 DEF PollSettles
  <2>1. pc' # "injected"
    BY <1>a DEF WaitMatchesLabel
  <2> QED
    BY <2>1 DEF InjectedIsSaid
<1>20. ASSUME FirstTurn PROVE InjectedIsSaid'
  BY <1>20 DEF FirstTurn, StartTurn, InjectedIsSaid, EventTypes
<1>21. ASSUME Inject PROVE InjectedIsSaid'
  <2> USE <1>21 DEF Inject, EmitShown, EmitMessageEnd
  <2>1. CASE At("injectEnd")
    <3>1. /\ UNCHANGED pendingMessages /\ messages' = Append(messages, Head(pendingMessages))
          /\ pendingMessages # <<>>
      BY <2>1, <1>a
    <3>2. Head(pendingMessages) \in HostMessages
      BY <1>a, <3>1
    <3>3. Head(pendingMessages).id \in Said(messages')
      BY <1>a, <1>h, <3>1, <3>2, SaidGrows
    <3> QED
      BY <3>1, <3>3 DEF InjectedIsSaid, InTranscript, Said
  <2>2. CASE ~At("injectEnd")
    BY <2>2 DEF InjectedIsSaid
  <2> QED
    BY <2>1, <2>2
<1>22. ASSUME Request PROVE InjectedIsSaid'
  BY <1>22 DEF Request, Respond, Streaming, Asking, EmitShown, EmitMessageEnd, Assistant, InjectedIsSaid,
       EventTypes
<1>23. ASSUME NextEvent PROVE InjectedIsSaid'
  BY <1>23 DEF NextEvent, InjectedIsSaid, EventTypes
<1>24. ASSUME ProviderAborted PROVE InjectedIsSaid'
  BY <1>24 DEF ProviderAborted, Respond, Streaming, Asking, EmitShown, EmitMessageEnd, Assistant,
       InjectedIsSaid, EventTypes
<1>24a. ASSUME ListenersAbort PROVE InjectedIsSaid'
  BY <1>24a DEF ListenersAbort, Respond, Streaming, Asking, EmitShown, EmitMessageEnd, Assistant,
       InjectedIsSaid, EventTypes
<1>25. ASSUME ReplyEnd PROVE InjectedIsSaid'
  BY <1>25 DEF ReplyEnd, EmitMessageEnd, InjectedIsSaid, EventTypes
<1>26. ASSUME Turn PROVE InjectedIsSaid'
  BY <1>26 DEF Turn, EmitTurnEnd, InjectedIsSaid, EventTypes
<1>27. ASSUME Announce PROVE InjectedIsSaid'
  BY <1>27 DEF Announce, Batch, Call, InjectedIsSaid, EventTypes
<1>28. ASSUME PrepareToolCall PROVE InjectedIsSaid'
  BY <1>28 DEF PrepareToolCall, Batch, Allow, AnswerAtOnce, Call, InjectedIsSaid, EventTypes
<1>29. ASSUME BeforeToolCallAborted PROVE InjectedIsSaid'
  BY <1>29 DEF BeforeToolCallAborted, Batch, AnswerAtOnce, Call, InjectedIsSaid, EventTypes
<1>30. ASSUME Prepared PROVE InjectedIsSaid'
  BY <1>30 DEF Prepared, Batch, Launch, Call, InjectedIsSaid, EventTypes
<1>31. ASSUME LaunchAll PROVE InjectedIsSaid'
  BY <1>31 DEF LaunchAll, Batch, Launch, InjectedIsSaid, EventTypes
<1>32. ASSUME ToolsSettle PROVE InjectedIsSaid'
  BY <1>32 DEF ToolsSettle, Batch, InjectedIsSaid, EventTypes
<1>33. ASSUME EmitResult PROVE InjectedIsSaid'
  BY <1>33 DEF EmitResult, Batch, EmitShown, EmitMessageEnd, ToolResult, InjectedIsSaid, EventTypes
<1>34. ASSUME BatchDone PROVE InjectedIsSaid'
  BY <1>34 DEF BatchDone, EmitTurnEnd, InjectedIsSaid, EventTypes
<1>35. ASSUME AfterTurn PROVE InjectedIsSaid'
  BY <1>35 DEF AfterTurn, InjectedIsSaid, EventTypes
<1>36. ASSUME PolledSteering PROVE InjectedIsSaid'
  BY <1>36 DEF PolledSteering, StartTurn, InjectedIsSaid, EventTypes
<1>37. ASSUME PolledFollowUp PROVE InjectedIsSaid'
  BY <1>37 DEF PolledFollowUp, StartTurn, InjectedIsSaid, EventTypes
<1>38. ASSUME Continued PROVE InjectedIsSaid'
  BY <1>38 DEF Continued, StartTurn, InjectedIsSaid, EventTypes
<1>39. ASSUME End PROVE InjectedIsSaid'
  BY <1>39 DEF End, EmitAgentEnd, InjectedIsSaid, EventTypes
<1>40. ASSUME ListenersThrow PROVE InjectedIsSaid'
  BY <1>40 DEF ListenersThrow, InjectedIsSaid, EventTypes
<1>41. ASSUME ProviderStarts PROVE InjectedIsSaid'
  BY <1>41 DEF ProviderStarts, Streaming, Asking, EmitShown, InjectedIsSaid, EventTypes
<1>42. ASSUME ProviderUpdates PROVE InjectedIsSaid'
  BY <1>42 DEF ProviderUpdates, Streaming, Asking, EmitShown, InjectedIsSaid, EventTypes
<1>43. ASSUME ProviderThrows PROVE InjectedIsSaid'
  BY <1>43 DEF ProviderThrows, InjectedIsSaid, EventTypes
<1>44. ASSUME NEW k \in 0..MaxCalls, NEW stop \in {"stop", "error"}, ProviderDone(k, stop)
     PROVE InjectedIsSaid'
  BY <1>44 DEF ProviderDone, Respond, Streaming, Asking, EmitShown, EmitMessageEnd, Assistant,
       InjectedIsSaid, EventTypes
<1>45. ASSUME BeforeToolCallSettles PROVE InjectedIsSaid'
  BY <1>45 DEF BeforeToolCallSettles, Batch, Allow, AnswerAtOnce, Call, InjectedIsSaid, EventTypes
<1>46. ASSUME StopHookSettles PROVE InjectedIsSaid'
  BY <1>46 DEF StopHookSettles, InjectedIsSaid, EventTypes
<1>47. ASSUME ContinuationSettles PROVE InjectedIsSaid'
  BY <1>47 DEF ContinuationSettles, InjectedIsSaid, EventTypes
<1>48. ASSUME NEW c \in CallIds, ToolEnds(c) PROVE InjectedIsSaid'
  <2>1. UNCHANGED injectedVars
    BY <1>48 DEF ToolEnds, EndTask, Batch, injectedVars
  <2> QED
    BY <2>1, InjectedFrame
<1>49. ASSUME NEW c \in CallIds, ToolEndThrows(c) PROVE InjectedIsSaid'
  <2>1. UNCHANGED injectedVars
    BY <1>49 DEF ToolEndThrows, Batch, injectedVars
  <2> QED
    BY <2>1, InjectedFrame
<1>50. ASSUME NEW c \in CallIds, ToolAborted(c) PROVE InjectedIsSaid'
  <2>1. UNCHANGED injectedVars
    BY <1>50 DEF ToolAborted, EndTask, Batch, injectedVars
  <2> QED
    BY <2>1, InjectedFrame
<1>51. ASSUME NEW c \in CallIds, ToolEndSettles(c) PROVE InjectedIsSaid'
  <2>1. UNCHANGED injectedVars
    BY <1>51 DEF ToolEndSettles, Batch, injectedVars
  <2> QED
    BY <2>1, InjectedFrame
<1>52. CASE UNCHANGED vars
  <2>1. UNCHANGED injectedVars
    BY <1>52 DEF vars, injectedVars
  <2> QED
    BY <2>1, InjectedFrame
<1> HIDE DEF agentState, queues, runVars, control, locals, batchVars, history, Emit, Await, Goto, At
<1> QED
  BY <1>1, <1>2, <1>3, <1>4, <1>5, <1>6, <1>7, <1>8, <1>9, <1>10, <1>11, <1>12, <1>13, <1>14,
       <1>15, <1>16, <1>17, <1>18, <1>19, <1>20, <1>21, <1>22, <1>23, <1>24, <1>24a, <1>25, <1>26, <1>27,
       <1>28, <1>29, <1>30, <1>31, <1>32, <1>33, <1>34, <1>35, <1>36, <1>37, <1>38, <1>39, <1>40,
       <1>41, <1>42, <1>43, <1>44, <1>45, <1>46, <1>47, <1>48, <1>49, <1>50, <1>51, <1>52,
       BoundsAssumption
  DEF Next, HostCall, LoopStep, External, TaskStep

\* Every step keeps all that was handed over in its places.
LEMMA StepAccounted ==
  ASSUME ListInv, BatchesQueued, ListsByLabel, InjectedIsSaid, Accounted, [Next]_vars
       PROVE Accounted'
<1>1. NothingMissing
  BY StepMissing
<1>2. Held = Places /\ Held' = Places'
  BY HeldIsPlaces
<1>3. abortedRuns \cup failed = {} => HandedOver \subseteq Held
  BY DEF Accounted
<1>4. abortedRuns' \cup failed' = {} => HandedOver' \subseteq Held'
  BY ONLY <1>1, <1>2, <1>3 DEF NothingMissing
<1> QED
  BY ONLY <1>4 DEF Accounted

\* As long as no run is aborted or fails, every message handed to prompt, steer, followUp
\* or as a continuation is in a queue, on its way, in the transcript or removed by
\* the host: drain, the polls and the injection never drop one.
THEOREM NothingIsLost == Spec => []NothingLostWithoutFailure
<1> DEFINE Inv == BatchesQueued /\ ListsByLabel /\ InjectedIsSaid /\ Accounted
<1>1. Init => Inv
  BY InitLost
<1>2. ListInv /\ Inv /\ [Next]_vars => Inv'
  BY StepBatches, StepLists, StepInjected, StepAccounted
<1>3. TalkInv => ListInv
  BY DEF TalkInv
<1>4. Inv => NothingLostWithoutFailure
  <2>1. Lost = HandedOver \ Held
    BY DEF Lost, HandedOver
  <2>2. Accounted => (Lost # {} => abortedRuns \cup failed # {})
    BY ONLY <2>1 DEF Accounted
  <2> QED
    BY <2>2 DEF NothingLostWithoutFailure
<1> QED
  BY <1>1, <1>2, <1>3, <1>4, TalkInvHolds, PTL DEF Spec

-----------------------------------------------------------------------------
(* The order in which batches join the transcript                          *)

\* Host messages have the identity they were made from.
LEMMA HostIdentity == \A x, y : HostMessage(x) = HostMessage(y) => x = y
<1>1. \A x : HostMessage(x).id = x
  BY DEF HostMessage
<1> QED
  BY ONLY <1>1

\* A batch is a non-empty sequence of host messages.
LEMMA BatchFacts ==
  \A b \in Batches : /\ b \in Seq(HostIds) /\ Len(b) \in Nat /\ Len(b) >= 1 /\ DOMAIN b = 1..Len(b) /\ 1 \in DOMAIN b
                     /\ b[1] \in ToSet(b) /\ ToSet(b) \subseteq HostIds
                     /\ \A x \in ToSet(b) : \E k \in DOMAIN b : b[k] = x
<1> SUFFICES ASSUME NEW b \in Batches
             PROVE  /\ b \in Seq(HostIds) /\ Len(b) \in Nat /\ Len(b) >= 1 /\ DOMAIN b = 1..Len(b) /\ 1 \in DOMAIN b
                    /\ b[1] \in ToSet(b) /\ ToSet(b) \subseteq HostIds
                    /\ \A x \in ToSet(b) : \E k \in DOMAIN b : b[k] = x
  OBVIOUS
<1>1. b \in Seq(HostIds) /\ b # <<>>
  BY BatchesAssumption DEF HostIds
<1>2. Len(b) \in Nat /\ Len(b) >= 1 /\ DOMAIN b = 1..Len(b) /\ 1 \in DOMAIN b
  BY <1>1
<1>3. \A k \in DOMAIN b : b[k] \in HostIds
  BY <1>1
<1> QED
  BY <1>1, <1>2, <1>3 DEF ToSet

\* A history is a sequence of operations and batches.
LEMMA SentFacts ==
  \A s \in SentSeqs : /\ Len(s) \in Nat /\ DOMAIN s = 1..Len(s)
                      /\ \A i \in DOMAIN s : s[i][2] \in Batches /\ s[i] = <<s[i][1], s[i][2]>>
  BY DEF SentSeqs

\* Batches that share a message are the same.
LEMMA Disjoint ==
  ASSUME DisjointBatches
  PROVE  \A b, c \in Batches : \A x : x \in ToSet(b) /\ x \in ToSet(c) => b = c
BY BatchFacts DEF DisjointBatches

\* What a line gets when a batch follows it.
LEMMA LineAndBatch ==
  \A line \in Seq(Messages), b \in Batches : \E L \in Nat : \E n \in Seq(Messages) :
     /\ L = Len(line) /\ n = line \o AsMessages(b)
     /\ DOMAIN line = 1..L /\ DOMAIN n = 1..(L + Len(b))
     /\ \A p \in 1..L : n[p] = line[p]
     /\ \A p \in DOMAIN n : p \notin 1..L => p - L \in DOMAIN b /\ n[p] = HostMessage(b[p - L])
     /\ \A k \in DOMAIN b : L + k \in DOMAIN n /\ n[L + k] = HostMessage(b[k])
<1> SUFFICES ASSUME NEW line \in Seq(Messages), NEW b \in Batches
             PROVE  \E L \in Nat : \E n \in Seq(Messages) :
     /\ L = Len(line) /\ n = line \o AsMessages(b)
     /\ DOMAIN line = 1..L /\ DOMAIN n = 1..(L + Len(b))
     /\ \A p \in 1..L : n[p] = line[p]
     /\ \A p \in DOMAIN n : p \notin 1..L => p - L \in DOMAIN b /\ n[p] = HostMessage(b[p - L])
     /\ \A k \in DOMAIN b : L + k \in DOMAIN n /\ n[L + k] = HostMessage(b[k])
  OBVIOUS
<1>1. b \in Seq(HostIds) /\ Len(b) \in Nat /\ DOMAIN b = 1..Len(b)
  BY BatchFacts
<1>2. AsMessages(b) \in Seq(Messages) /\ Len(AsMessages(b)) = Len(b)
  BY <1>1, AsMessagesType, SeqOfSubset, MessageKinds
<1>3. \A k \in 1..Len(b) : AsMessages(b)[k] = HostMessage(b[k])
  BY <1>1 DEF AsMessages
<1> DEFINE a == AsMessages(b)
           n == line \o a
           L == Len(line)
<1> HIDE DEF a
<1>4. L \in Nat /\ DOMAIN line = 1..L /\ a \in Seq(Messages) /\ Len(a) = Len(b)
      /\ \A k \in 1..Len(b) : a[k] = HostMessage(b[k])
  BY <1>2, <1>3 DEF a
<1>5. n \in Seq(Messages) /\ Len(n) = L + Len(b) /\ DOMAIN n = 1..(L + Len(b))
      /\ \A p \in 1..(L + Len(b)) : n[p] = IF p <= L THEN line[p] ELSE a[p - L]
  BY <1>4
<1> HIDE DEF n, L
<1>6. \A p \in 1..L : n[p] = line[p]
  BY <1>1, <1>4, <1>5
<1>7. \A p \in DOMAIN n : p \notin 1..L => p - L \in DOMAIN b /\ n[p] = HostMessage(b[p - L])
  BY <1>1, <1>4, <1>5
<1>8. \A k \in DOMAIN b : L + k \in DOMAIN n /\ n[L + k] = HostMessage(b[k])
  BY <1>1, <1>4, <1>5
<1>9. n = line \o AsMessages(b) /\ L = Len(line)
  BY DEF a, n, L
<1> QED
  BY <1>4, <1>5, <1>6, <1>7, <1>8, <1>9

\* A line that gets the batch whose turn it is remains in order.
LEMMA LineGrows ==
  ASSUME DisjointBatches
  PROVE  \A line \in Seq(Messages), s \in SentSeqs : \A g : \A i0 \in DOMAIN s :
           LET b == s[i0][2] IN
             /\ LineOK(line, s, g) /\ SentOnce(s)
             /\ \A x \in ToSet(b) : ~Told(x, line)
             /\ \A j \in DOMAIN s : s[j][1] = s[i0][1] /\ s[i0][1] \in QueueOps /\ Told(s[j][2][1], line)
                                      => j < i0
             => LineOK(line \o AsMessages(b), s, g)
<1> SUFFICES ASSUME NEW line \in Seq(Messages), NEW s \in SentSeqs, NEW g, NEW i0 \in DOMAIN s,
                    LineOK(line, s, g), SentOnce(s),
                    \A x \in ToSet(s[i0][2]) : ~Told(x, line),
                    \A j \in DOMAIN s : s[j][1] = s[i0][1] /\ s[i0][1] \in QueueOps /\ Told(s[j][2][1], line)
                                          => j < i0
             PROVE  LineOK(line \o AsMessages(s[i0][2]), s, g)
  OBVIOUS
<1>s. /\ Len(s) \in Nat /\ DOMAIN s = 1..Len(s)
      /\ \A i \in DOMAIN s : s[i][2] \in Batches
  BY SentFacts
<1>1. PICK b \in Batches : b = s[i0][2]
  BY <1>s
<1>2. PICK L \in Nat, n \in Seq(Messages) :
     /\ L = Len(line) /\ n = line \o AsMessages(b)
     /\ DOMAIN line = 1..L /\ DOMAIN n = 1..(L + Len(b))
     /\ \A p \in 1..L : n[p] = line[p]
     /\ \A p \in DOMAIN n : p \notin 1..L => p - L \in DOMAIN b /\ n[p] = HostMessage(b[p - L])
     /\ \A k \in DOMAIN b : L + k \in DOMAIN n /\ n[L + k] = HostMessage(b[k])
  BY LineAndBatch
<1>3. Len(b) \in Nat /\ DOMAIN b = 1..Len(b) /\ ToSet(b) \subseteq HostIds /\ \A k \in DOMAIN b : b[k] \in ToSet(b)
  BY BatchFacts DEF ToSet
<1>4. \A p \in DOMAIN n : \A x : n[p] = HostMessage(x) =>
         \/ p \in DOMAIN line /\ line[p] = HostMessage(x) /\ Told(x, line) /\ x \notin ToSet(b)
         \/ p \notin DOMAIN line /\ p - L \in DOMAIN b /\ x = b[p - L] /\ x \in ToSet(b) /\ ~Told(x, line)
  <2> SUFFICES ASSUME NEW p \in DOMAIN n, NEW x, n[p] = HostMessage(x)
               PROVE  \/ p \in DOMAIN line /\ line[p] = HostMessage(x) /\ Told(x, line) /\ x \notin ToSet(b)
                      \/ p \notin DOMAIN line /\ p - L \in DOMAIN b /\ x = b[p - L] /\ x \in ToSet(b)
                            /\ ~Told(x, line)
    OBVIOUS
  <2>1. CASE p \in 1..L
    <3>1. p \in DOMAIN line /\ line[p] = HostMessage(x)
      BY <1>2, <2>1
    <3>2. Told(x, line)
      BY <3>1 DEF Told
    <3> QED
      BY <3>1, <3>2, <1>1
  <2>2. CASE p \notin 1..L
    <3>1. p - L \in DOMAIN b /\ n[p] = HostMessage(b[p - L])
      BY <1>2, <2>2
    <3>2. x = b[p - L]
      BY <3>1, HostIdentity
    <3> QED
      BY <3>1, <3>2, <1>1, <1>2, <1>3, <2>2
  <2> QED
    BY <2>1, <2>2
<1>5. EachOnce(n, s)
  <2> SUFFICES ASSUME NEW p \in DOMAIN n, NEW x \in HostIds, n[p] = HostMessage(x)
               PROVE  /\ \E i \in DOMAIN s : x \in ToSet(s[i][2])
                      /\ \A q \in DOMAIN n : n[q] = HostMessage(x) => p = q
    BY DEF EachOnce
  <2>1. CASE x \in ToSet(b)
    <3>1. ASSUME NEW q \in DOMAIN n, n[q] = HostMessage(x) PROVE p = q
      <4>1. p - L \in DOMAIN b /\ q - L \in DOMAIN b /\ b[p - L] = b[q - L]
        BY <1>4, <2>1, <3>1
      <4>2. p - L = q - L
        BY <4>1 DEF DisjointBatches
      <4> QED
        BY <4>2, <1>2
    <3> QED
      BY <3>1, <1>1, <2>1
  <2>2. CASE x \notin ToSet(b)
    <3>1. \A q \in DOMAIN n : n[q] = HostMessage(x) => q \in DOMAIN line /\ line[q] = HostMessage(x)
      BY <1>4, <2>2
    <3>2. p \in DOMAIN line /\ line[p] = HostMessage(x)
      BY <3>1
    <3> QED
      BY ONLY <3>1, <3>2, LineOK(line, s, g), x \in HostIds DEF LineOK, EachOnce
  <2> QED
    BY <2>1, <2>2
<1>6. Together(n, g)
  <2> SUFFICES ASSUME NEW c \in Batches, NEW k \in DOMAIN c \ {1}, NEW p \in DOMAIN n,
                      n[p] = HostMessage(c[k])
               PROVE  c[k - 1] \in g \/ (p > 1 /\ n[p - 1] = HostMessage(c[k - 1]))
    BY DEF Together
  <2>1. CASE p \in DOMAIN line /\ line[p] = HostMessage(c[k])
    <3>1. c[k - 1] \in g \/ (p > 1 /\ line[p - 1] = HostMessage(c[k - 1]))
      BY <2>1 DEF LineOK, Together
    <3>2. p > 1 => n[p - 1] = line[p - 1]
      BY <2>1, <1>2
    <3> QED
      BY <3>1, <3>2
  <2>2. CASE p - L \in DOMAIN b /\ c[k] = b[p - L]
    <3>1. c = b /\ k = p - L
      BY <2>2 DEF DisjointBatches
    <3>2. k \in Nat /\ k > 1 /\ k - 1 \in DOMAIN b
      BY <1>3, <3>1
    <3>3. n[L + (k - 1)] = HostMessage(b[k - 1])
      BY <1>2, <3>2
    <3>5. p \in Int /\ L \in Nat
      BY <1>2, <1>3
    <3>4. p > 1 /\ L + (k - 1) = p - 1
      BY ONLY <3>1, <3>2, <3>5
    <3> QED
      BY <3>1, <3>3, <3>4
  <2> QED
    BY <2>1, <2>2, <1>4
<1>7. InTurn(n, s)
  <2> SUFFICES ASSUME NEW i \in DOMAIN s, NEW j \in DOMAIN s, i < j, s[i][1] = s[j][1], s[i][1] \in QueueOps,
                      NEW p \in DOMAIN n, NEW q \in DOMAIN n,
                      n[p] = HostMessage(s[i][2][1]), n[q] = HostMessage(s[j][2][1])
               PROVE  p < q
    BY DEF InTurn
  <2>1. \A k \in DOMAIN s : s[k][2][1] \in ToSet(b) => k = i0
    <3>1. \A k \in DOMAIN s : s[k][2][1] \in ToSet(s[k][2])
      BY <1>s, BatchFacts
    <3>2. \A k \in DOMAIN s : s[k][2][1] \in ToSet(b) => s[k][2] = b
      BY <1>s, <3>1, Disjoint
    <3> QED
      BY <3>2, <1>1 DEF SentOnce
  <2>2. CASE s[i][2][1] \in ToSet(b)
    <3>1. i = i0 /\ j # i0
      BY <2>1, <2>2, <1>s
    <3>2. Told(s[j][2][1], line)
      BY <1>4, <3>1, <2>1
    <3> QED
      BY <3>1, <3>2, <1>s
  <2>3. CASE s[i][2][1] \notin ToSet(b) /\ s[j][2][1] \in ToSet(b)
    <3>1. p \in DOMAIN line /\ q \notin DOMAIN line
      BY <1>4, <2>3
    <3> QED
      BY <3>1, <1>2
  <2>4. CASE s[i][2][1] \notin ToSet(b) /\ s[j][2][1] \notin ToSet(b)
    <3>1. p \in DOMAIN line /\ q \in DOMAIN line
          /\ line[p] = HostMessage(s[i][2][1]) /\ line[q] = HostMessage(s[j][2][1])
      BY <1>4, <2>4
    <3> QED
      BY <3>1 DEF LineOK, InTurn
  <2> QED
    BY <2>2, <2>3, <2>4
<1> QED
  BY <1>1, <1>2, <1>5, <1>6, <1>7 DEF LineOK

\* A queue that loses batches remains in order.
LEMMA SubQueue ==
  \A op, line, s, q, r : QueueOK(op, q, line, s) /\ Sub(r, q) => QueueOK(op, r, line, s)
<1> SUFFICES ASSUME NEW op, NEW line, NEW s, NEW q, NEW r, QueueOK(op, q, line, s),
                    NEW h \in [DOMAIN r -> DOMAIN q],
                    \A k \in DOMAIN r : r[k] = q[h[k]],
                    \A k, l \in DOMAIN r : k < l => h[k] < h[l]
             PROVE  QueueOK(op, r, line, s)
  BY DEF Sub
<1>1. \A k \in DOMAIN r : h[k] \in DOMAIN q
  OBVIOUS
<1>2. \A k \in DOMAIN r : \E i \in DOMAIN s : s[i] = <<op, r[k]>>
  BY <1>1 DEF QueueOK
<1>3. \A k, l \in DOMAIN r : k < l =>
          \A i, j \in DOMAIN s : s[i][2] = r[k] /\ s[j][2] = r[l] => i < j
  BY <1>1 DEF QueueOK
<1>4. Waits(r, line)
  BY <1>1 DEF QueueOK, Waits
<1>5. \A k \in DOMAIN r : \A i, j \in DOMAIN s :
          s[i][2] = r[k] /\ s[j][1] = op /\ Told(s[j][2][1], line) => j < i
  BY <1>1 DEF QueueOK
<1> QED
  BY <1>2, <1>3, <1>4, <1>5 DEF QueueOK

\* A sequence, its tail and the empty one are subsequences.
LEMMA SubQueues ==
  \A S : \A q \in Seq(S) :
     /\ Sub(q, q) /\ Sub(<<>>, q)
     /\ q # <<>> => Sub(Tail(q), q)
<1> SUFFICES ASSUME NEW S, NEW q \in Seq(S)
             PROVE  Sub(q, q) /\ Sub(<<>>, q) /\ (q # <<>> => Sub(Tail(q), q))
  OBVIOUS
<1>1. Sub(q, q)
  <2> DEFINE h == [k \in DOMAIN q |-> k]
  <2>1. h \in [DOMAIN q -> DOMAIN q] /\ (\A k \in DOMAIN q : q[k] = q[h[k]])
        /\ \A k, l \in DOMAIN q : k < l => h[k] < h[l]
    OBVIOUS
  <2> HIDE DEF h
  <2> QED
    BY <2>1 DEF Sub
<1>2. Sub(<<>>, q)
  <2> DEFINE h == [k \in DOMAIN <<>> |-> 1]
  <2>1. h \in [DOMAIN <<>> -> DOMAIN q]
    OBVIOUS
  <2> HIDE DEF h
  <2>2. \A k \in DOMAIN <<>> : FALSE
    OBVIOUS
  <2> QED
    BY <2>1, <2>2 DEF Sub
<1>3. ASSUME q # <<>> PROVE Sub(Tail(q), q)
  <2>0. Len(q) \in Nat /\ Len(q) >= 1 /\ DOMAIN q = 1..Len(q)
        /\ DOMAIN Tail(q) = 1..(Len(q) - 1) /\ \A k \in 1..(Len(q) - 1) : Tail(q)[k] = q[k + 1]
    BY <1>3
  <2> DEFINE h == [k \in DOMAIN Tail(q) |-> k + 1]
  <2>1. h \in [DOMAIN Tail(q) -> DOMAIN q] /\ (\A k \in DOMAIN Tail(q) : Tail(q)[k] = q[h[k]])
        /\ \A k, l \in DOMAIN Tail(q) : k < l => h[k] < h[l]
    BY <2>0
  <2> HIDE DEF h
  <2> QED
    BY <2>1 DEF Sub
<1> QED
  BY <1>1, <1>2, <1>3

\* removeWhere leaves a subsequence, by induction on the batches it has looked at.
LEMMA WithoutIsSub == \A m : \A q \in Seq(Batches) : Sub(Without(q, m), q)
<1> SUFFICES ASSUME NEW m, NEW q \in Seq(Batches) PROVE Sub(Without(q, m), q)
  OBVIOUS
<1>0. Len(q) \in Nat /\ DOMAIN q = 1..Len(q) /\ \A i \in 1..Len(q) : q[i] \in Batches
  OBVIOUS
<1> DEFINE f == [j \in DOMAIN q |-> IF m \in ToSet(q[j]) THEN <<>> ELSE <<q[j]>>]
<1>1. f = [j \in 1..Len(q) |-> f[j]] /\ \A j \in 1..Len(q) : f[j] \in Seq(Batches) /\ (f[j] = <<>> \/ f[j] = <<q[j]>>)
  BY <1>0
<1>2. Without(q, m) = FlattenSeq(f)
  BY DEF Without
<1> HIDE DEF f
<1>3. f \in Seq(Seq(Batches)) /\ Len(f) = Len(q)
  BY <1>0, <1>1
<1>4. CASE Len(q) = 0
  <2>1. f = <<>>
    BY <1>3, <1>4
  <2>2. FlattenSeq(f) = <<>>
    BY <2>1 DEF FlattenSeq
  <2> QED
    BY <1>2, <2>2, SubQueues
<1>5. CASE Len(q) > 0
  <2>1. PICK g \in [1..Len(f) -> Seq(Batches)] :
             /\ g[1] = f[1]
             /\ \A i \in 2..Len(f) : g[i] = g[i - 1] \o f[i]
             /\ FlattenSeq(f) = g[Len(f)]
    BY <1>3, <1>5, FlattenBy
  <2> DEFINE UpTo(r, n) ==
               \E h \in [DOMAIN r -> 1..n] :
                  /\ \A k \in DOMAIN r : r[k] = q[h[k]]
                  /\ \A k, l \in DOMAIN r : k < l => h[k] < h[l]
             N == {n \in Nat : n + 1 <= Len(q) => UpTo(g[n + 1], n + 1)}
  <2>2. \A r \in Seq(Batches) : \A n \in Nat : UpTo(r, n) => UpTo(r, n + 1)
    <3> SUFFICES ASSUME NEW r \in Seq(Batches), NEW n \in Nat, NEW h \in [DOMAIN r -> 1..n],
                        \A k \in DOMAIN r : r[k] = q[h[k]],
                        \A k, l \in DOMAIN r : k < l => h[k] < h[l]
                 PROVE  UpTo(r, n + 1)
      OBVIOUS
    <3>1. h \in [DOMAIN r -> 1..(n + 1)]
      OBVIOUS
    <3> QED
      BY <3>1
  <2>3. \A r \in Seq(Batches) : \A n \in Nat : n + 1 <= Len(q) /\ UpTo(r, n) => UpTo(r \o <<q[n + 1]>>, n + 1)
    <3> SUFFICES ASSUME NEW r \in Seq(Batches), NEW n \in Nat, n + 1 <= Len(q),
                        NEW h \in [DOMAIN r -> 1..n],
                        \A k \in DOMAIN r : r[k] = q[h[k]],
                        \A k, l \in DOMAIN r : k < l => h[k] < h[l]
                 PROVE  UpTo(r \o <<q[n + 1]>>, n + 1)
      OBVIOUS
    <3>0. PICK t : t = r \o <<q[n + 1]>>
      OBVIOUS
    <3>1. Len(r) \in Nat /\ DOMAIN r = 1..Len(r) /\ DOMAIN t = 1..(Len(r) + 1)
          /\ t[Len(r) + 1] = q[n + 1] /\ \A k \in 1..Len(r) : t[k] = r[k]
      BY <1>0, <3>0
    <3> DEFINE i == [k \in DOMAIN t |-> IF k = Len(r) + 1 THEN n + 1 ELSE h[k]]
    <3>2. \A k \in DOMAIN t : k = Len(r) + 1 \/ k \in DOMAIN r
      BY <3>1
    <3>3. \A k \in DOMAIN r : k # Len(r) + 1 /\ i[k] = h[k] /\ h[k] \in 1..n
      BY <3>1
    <3>4. i[Len(r) + 1] = n + 1
      BY <3>1
    <3>5. i \in [DOMAIN t -> 1..(n + 1)]
      BY <3>2, <3>3
    <3> HIDE DEF i
    <3>6. \A k \in DOMAIN t : t[k] = q[i[k]]
      BY <3>1, <3>2, <3>3, <3>4
    <3>7. ASSUME NEW k \in DOMAIN t, NEW l \in DOMAIN t, k < l PROVE i[k] < i[l]
      <4>1. k \in DOMAIN r
        BY <3>1, <3>7
      <4>2. CASE l = Len(r) + 1
        BY <3>3, <3>4, <4>1, <4>2
      <4>3. CASE l \in DOMAIN r
        BY <3>3, <4>1, <4>3, <3>7
      <4> QED
        BY <3>2, <4>2, <4>3
    <3>8. UpTo(t, n + 1)
      BY <3>5, <3>6, <3>7
    <3> QED
      BY <3>0, <3>8
  <2>4. UpTo(<<>>, 0)
    <3> DEFINE h == [k \in DOMAIN <<>> |-> 1]
    <3>1. h \in [DOMAIN <<>> -> 1..0] /\ \A k \in DOMAIN <<>> : FALSE
      OBVIOUS
    <3> HIDE DEF h
    <3> QED
      BY <3>1
  <2> HIDE DEF UpTo
  <2>e. <<>> \in Seq(Batches) /\ (\A r \in Seq(Batches) : r \o <<>> = r) /\ \A b \in Batches : <<>> \o <<b>> = <<b>>
    OBVIOUS
  <2>5. \A r \in Seq(Batches) : \A n \in Nat : n + 1 <= Len(q) /\ UpTo(r, n) => UpTo(r \o f[n + 1], n + 1)
    <3> SUFFICES ASSUME NEW r \in Seq(Batches), NEW n \in Nat, n + 1 <= Len(q), UpTo(r, n)
                 PROVE  UpTo(r \o f[n + 1], n + 1)
      OBVIOUS
    <3>1. n + 1 \in 1..Len(q)
      BY <1>0
    <3>2. CASE f[n + 1] = <<>>
      BY <2>2, <2>e, <3>2
    <3>3. CASE f[n + 1] = <<q[n + 1]>>
      BY <2>3, <3>3
    <3> QED
      BY <1>1, <3>1, <3>2, <3>3
  <2>6. 0 \in N
    <3>0. 0 + 1 <= Len(q) /\ 0 + 1 = 1
      BY <1>5, <1>0
    <3>3. UpTo(<<>> \o f[0 + 1], 0 + 1)
      BY <2>e, <2>4, <2>5, <3>0
    <3>1. UpTo(<<>> \o f[1], 1)
      BY <3>0, <3>3
    <3>2. <<>> \o f[1] = f[1]
      BY <1>1, <1>0, <1>5
    <3> QED
      BY <3>1, <3>2, <2>1
  <2>7. ASSUME NEW n \in Nat, n \in N PROVE n + 1 \in N
    <3> SUFFICES ASSUME (n + 1) + 1 <= Len(q) PROVE UpTo(g[(n + 1) + 1], (n + 1) + 1)
      OBVIOUS
    <3>1. n + 1 \in 1..Len(f) /\ (n + 1) + 1 \in 2..Len(f) /\ ((n + 1) + 1) - 1 = n + 1 /\ n + 1 <= Len(q)
      BY <1>0, <1>3
    <3>2. g[(n + 1) + 1] = g[n + 1] \o f[(n + 1) + 1] /\ g[n + 1] \in Seq(Batches)
      BY <2>1, <3>1
    <3>3. UpTo(g[n + 1], n + 1)
      BY <2>7, <3>1
    <3> QED
      BY <2>5, <3>2, <3>3
  <2> HIDE DEF N
  <2>8. Nat \subseteq N
    BY <2>6, <2>7, NatSetInduction
  <2>9. UpTo(g[Len(q)], Len(q))
    <3>1. Len(q) - 1 \in N /\ (Len(q) - 1) + 1 = Len(q)
      BY <1>0, <1>5, <2>8
    <3> QED
      BY <3>1, <1>0 DEF N
  <2>10. Without(q, m) = g[Len(q)]
    BY <1>2, <1>3, <2>1
  <2> QED
    BY ONLY <1>0, <2>9, <2>10 DEF UpTo, Sub
<1> QED
  BY <1>0, <1>4, <1>5

\* The queues remain in order when a batch that is not in them joins the line.
LEMMA QueueKeeps ==
  ASSUME DisjointBatches
  PROVE  \A line \in Seq(Messages), s \in SentSeqs : \A i0 \in DOMAIN s :
           \A op \in QueueOps : \A q \in Seq(Batches) :
             LET b == s[i0][2] IN
             /\ QueueOK(op, q, line, s) /\ SentOnce(s)
             /\ \A k \in DOMAIN q : q[k] # b
             /\ s[i0][1] = op => \A k \in DOMAIN q : \A i \in DOMAIN s : s[i][2] = q[k] => i0 < i
             => QueueOK(op, q, line \o AsMessages(b), s)
<1> SUFFICES ASSUME NEW line \in Seq(Messages), NEW s \in SentSeqs, NEW i0 \in DOMAIN s,
                    NEW op \in QueueOps, NEW q \in Seq(Batches),
                    QueueOK(op, q, line, s), SentOnce(s),
                    \A k \in DOMAIN q : q[k] # s[i0][2],
                    s[i0][1] = op => \A k \in DOMAIN q : \A i \in DOMAIN s : s[i][2] = q[k] => i0 < i
             PROVE  QueueOK(op, q, line \o AsMessages(s[i0][2]), s)
  OBVIOUS
<1>s. \A i \in DOMAIN s : s[i][2] \in Batches
  BY SentFacts
<1>q. \A k \in DOMAIN q : q[k] \in Batches
  OBVIOUS
<1>1. PICK b \in Batches : b = s[i0][2]
  BY <1>s
<1>2. PICK L \in Nat, n \in Seq(Messages) :
     /\ L = Len(line) /\ n = line \o AsMessages(b)
     /\ DOMAIN line = 1..L /\ DOMAIN n = 1..(L + Len(b))
     /\ \A p \in 1..L : n[p] = line[p]
     /\ \A p \in DOMAIN n : p \notin 1..L => p - L \in DOMAIN b /\ n[p] = HostMessage(b[p - L])
     /\ \A k \in DOMAIN b : L + k \in DOMAIN n /\ n[L + k] = HostMessage(b[k])
  BY LineAndBatch
<1>3. ASSUME NEW x, Told(x, n), ~Told(x, line) PROVE x \in ToSet(b)
  <2>1. PICK p \in DOMAIN n : n[p] = HostMessage(x)
    BY <1>3 DEF Told
  <2>2. p \notin 1..L
    <3>1. p \in 1..L => p \in DOMAIN line /\ line[p] = HostMessage(x)
      BY <1>2, <2>1
    <3> QED
      BY <3>1, <1>3 DEF Told
  <2>3. p - L \in DOMAIN b /\ HostMessage(x) = HostMessage(b[p - L])
    BY <1>2, <2>1, <2>2
  <2>4. x = b[p - L]
    BY <2>3, HostIdentity
  <2> QED
    BY <2>3, <2>4 DEF ToSet
<1>4. Waits(q, n)
  <2> SUFFICES ASSUME NEW k \in DOMAIN q, NEW x \in ToSet(q[k]), Told(x, n) PROVE FALSE
    BY DEF Waits
  <2>1. ~Told(x, line)
    BY DEF QueueOK, Waits
  <2>2. q[k] = b
    BY <1>3, <1>q, <2>1, Disjoint
  <2> QED
    BY <2>2, <1>1
<1>5. ASSUME NEW k \in DOMAIN q, NEW i \in DOMAIN s, NEW j \in DOMAIN s,
             s[i][2] = q[k], s[j][1] = op, Told(s[j][2][1], n)
      PROVE  j < i
  <2>1. CASE Told(s[j][2][1], line)
    BY <1>5, <2>1 DEF QueueOK
  <2>2. CASE ~Told(s[j][2][1], line)
    <3>1. s[j][2][1] \in ToSet(b) /\ s[j][2][1] \in ToSet(s[j][2])
      BY <1>3, <1>5, <2>2, <1>s, BatchFacts
    <3>2. s[j][2] = b
      BY <3>1, <1>s, Disjoint
    <3>3. j = i0
      BY <3>2, <1>1 DEF SentOnce
    <3> QED
      BY <3>3, <1>5
  <2> QED
    BY <2>1, <2>2
<1>6. QueueOK(op, q, n, s)
  BY <1>4, <1>5 DEF QueueOK
<1> QED
  BY <1>1, <1>2, <1>6

\* The first batch of a queue moves to the line (drain, one at a time).
LEMMA HeadMoves ==
  ASSUME DisjointBatches
  PROVE  \A line \in Seq(Messages), s \in SentSeqs, Q, R \in Queues, o \in QueueOps : \A g :
           /\ OrderAt(line, Q, s, g) /\ Q[o] # <<>> /\ With(Q, o, Tail(Q[o]), R)
           => OrderAt(line \o AsMessages(Head(Q[o])), R, s, g)
<1> SUFFICES ASSUME NEW line \in Seq(Messages), NEW s \in SentSeqs, NEW Q \in Queues, NEW R \in Queues,
                    NEW o \in QueueOps, NEW g,
                    OrderAt(line, Q, s, g), Q[o] # <<>>, With(Q, o, Tail(Q[o]), R)
             PROVE  OrderAt(line \o AsMessages(Head(Q[o])), R, s, g)
  OBVIOUS
<1>s. \A i \in DOMAIN s : s[i][2] \in Batches /\ s[i] = <<s[i][1], s[i][2]>>
  BY SentFacts
<1>q. PICK q \in Seq(Batches) : q = Q[o]
  BY DEF Queues
<1>1. /\ Len(q) \in Nat /\ Len(q) >= 1 /\ DOMAIN q = 1..Len(q) /\ Head(q) = q[1] /\ q[1] \in Batches
      /\ Tail(q) \in Seq(Batches) /\ DOMAIN Tail(q) = 1..(Len(q) - 1)
      /\ \A k \in 1..(Len(q) - 1) : Tail(q)[k] = q[k + 1]
  BY <1>q
<1>2. LineOK(line, s, g) /\ SentOnce(s) /\ (\A op \in QueueOps : QueueOK(op, Q[op], line, s))
      /\ QueueOK(o, q, line, s)
  BY <1>q DEF OrderAt
<1>3. PICK i0 \in DOMAIN s : s[i0] = <<o, q[1]>>
  <2>1. 1 \in DOMAIN q
    BY <1>1
  <2> QED
    BY ONLY <1>2, <2>1 DEF QueueOK
<1>4. s[i0][1] = o /\ s[i0][2] = q[1]
  BY <1>3
<1>5. LineOK(line \o AsMessages(q[1]), s, g)
  <2>1. \A x \in ToSet(q[1]) : ~Told(x, line)
    BY <1>1, <1>2 DEF QueueOK, Waits
  <2>2. \A j \in DOMAIN s : s[j][1] = s[i0][1] /\ s[i0][1] \in QueueOps /\ Told(s[j][2][1], line) => j < i0
    BY <1>1, <1>2, <1>4 DEF QueueOK
  <2> QED
    BY <1>2, <1>4, <2>1, <2>2, LineGrows
<1>6. ASSUME NEW op \in QueueOps PROVE QueueOK(op, R[op], line \o AsMessages(q[1]), s)
  <2>1. R[op] \in Seq(Batches)
    BY DEF Queues
  <2>2. QueueOK(op, R[op], line, s)
    <3>1. CASE op = o
      <4>1. R[op] = Tail(q) /\ q # <<>>
        BY <3>1, <1>q DEF With
      <4>2. Sub(Tail(q), q)
        BY <4>1, SubQueues
      <4> QED
        BY ONLY <1>2, <3>1, <4>1, <4>2, SubQueue
    <3>2. CASE op # o
      BY <3>2, <1>2 DEF With
    <3> QED
      BY <3>1, <3>2
  <2>3. ASSUME NEW k \in DOMAIN R[op] PROVE R[op][k] # q[1]
    <3>1. CASE op = o
      <4>0. R[op] = Tail(q)
        BY <3>1, <1>q DEF With
      <4>3. k \in 1..(Len(q) - 1) /\ R[op][k] = q[k + 1]
        BY <4>0, <2>3, <1>1
      <4>1. R[op][k] = q[k + 1] /\ k + 1 \in DOMAIN q /\ 1 \in DOMAIN q /\ 1 < k + 1
        BY <4>3, <1>1
      <4>2. q[k + 1] # q[1]
        <5> SUFFICES ASSUME q[k + 1] = q[1] PROVE FALSE
          OBVIOUS
        <5>1. s[i0][2] = q[1] /\ s[i0][2] = q[k + 1]
          BY <1>4
        <5>2. i0 < i0
          BY ONLY <1>2, <4>1, <5>1, i0 \in DOMAIN s DEF QueueOK
        <5>3. i0 \in Int
          BY SentFacts
        <5> QED
          BY ONLY <5>2, <5>3
      <4> QED
        BY <4>1, <4>2
    <3>2. CASE op # o
      <4>1. PICK i \in DOMAIN s : s[i] = <<op, R[op][k]>>
        BY <2>2, <2>3 DEF QueueOK
      <4>2. R[op][k] = q[1] => i = i0
        BY <1>2, <1>4, <4>1 DEF SentOnce
      <4> QED
        BY <1>3, <3>2, <4>1, <4>2
    <3> QED
      BY <3>1, <3>2
  <2>4. ASSUME op = o, NEW k \in DOMAIN R[op], NEW i \in DOMAIN s, s[i][2] = R[op][k] PROVE i0 < i
    <3>0. R[op] = Tail(q)
      BY <2>4, <1>q DEF With
    <3>2. k \in 1..(Len(q) - 1) /\ R[op][k] = q[k + 1]
      BY <3>0, <2>4, <1>1
    <3>1. R[op][k] = q[k + 1] /\ k + 1 \in DOMAIN q /\ 1 \in DOMAIN q /\ 1 < k + 1
      BY <3>2, <1>1
    <3> QED
      BY <1>2, <1>4, <2>4, <3>1 DEF QueueOK
  <2>5. s[i0][1] = op => \A k \in DOMAIN R[op] : \A i \in DOMAIN s : s[i][2] = R[op][k] => i0 < i
    BY <2>4, <1>4
  <2>6. \A k \in DOMAIN R[op] : R[op][k] # s[i0][2]
    BY <2>3, <1>4
  <2>7. QueueOK(op, R[op], line \o AsMessages(s[i0][2]), s)
    BY <1>2, <2>1, <2>2, <2>5, <2>6, QueueKeeps
  <2> QED
    BY <2>7, <1>4
<1>7. Head(Q[o]) = q[1]
  BY <1>1, <1>q
<1> QED
  BY <1>2, <1>5, <1>6, <1>7 DEF OrderAt

\* Length and elements of a concatenation.
LEMMA JoinFacts ==
  \A S : \A a, b \in Seq(S) :
     /\ a \o b \in Seq(S) /\ Len(a \o b) = Len(a) + Len(b)
     /\ \A i \in 1..(Len(a) + Len(b)) : (a \o b)[i] = IF i <= Len(a) THEN a[i] ELSE b[i - Len(a)]
  OBVIOUS

\* The messages of two batches are those of the first, then of the second.
LEMMA AsMessagesJoin ==
  \A a, b \in Seq(HostIds) : AsMessages(a \o b) = AsMessages(a) \o AsMessages(b)
<1> SUFFICES ASSUME NEW a \in Seq(HostIds), NEW b \in Seq(HostIds)
             PROVE  AsMessages(a \o b) = AsMessages(a) \o AsMessages(b)
  OBVIOUS
<1>0. a \o b \in Seq(HostIds)
  BY JoinFacts
<1>1. PICK c \in Seq(HostIds) : c = a \o b
  BY <1>0
<1>2. PICK x, y : x = AsMessages(a) /\ y = AsMessages(b)
  OBVIOUS
<1>3. /\ x \in Seq(HostMessages) /\ Len(x) = Len(a) /\ \A i \in 1..Len(a) : x[i] = HostMessage(a[i])
      /\ y \in Seq(HostMessages) /\ Len(y) = Len(b) /\ \A i \in 1..Len(b) : y[i] = HostMessage(b[i])
      /\ Len(a) \in Nat /\ Len(b) \in Nat
  BY <1>2, AsMessagesType DEF AsMessages
<1>4. Len(c) = Len(a) + Len(b) /\ \A i \in 1..(Len(a) + Len(b)) : c[i] = IF i <= Len(a) THEN a[i] ELSE b[i - Len(a)]
  BY <1>1, JoinFacts
<1>5. PICK z \in Seq(HostMessages) : z = AsMessages(c)
  BY AsMessagesType
<1>6. Len(z) = Len(c) /\ \A i \in 1..Len(c) : z[i] = HostMessage(c[i])
  BY <1>5, AsMessagesType DEF AsMessages
<1>7. PICK w \in Seq(HostMessages) : w = x \o y
  BY <1>3, JoinFacts
<1>8. Len(w) = Len(a) + Len(b) /\ \A i \in 1..(Len(a) + Len(b)) : w[i] = IF i <= Len(a) THEN x[i] ELSE y[i - Len(a)]
  <2>1. x \in Seq(HostMessages) /\ y \in Seq(HostMessages) /\ Len(x) = Len(a) /\ Len(y) = Len(b)
    BY <1>3
  <2>2. Len(w) = Len(x) + Len(y) /\ \A i \in 1..(Len(x) + Len(y)) : w[i] = IF i <= Len(x) THEN x[i] ELSE y[i - Len(x)]
    <3>1. /\ Len(x \o y) = Len(x) + Len(y)
          /\ \A i \in 1..(Len(x) + Len(y)) : (x \o y)[i] = IF i <= Len(x) THEN x[i] ELSE y[i - Len(x)]
      BY ONLY <2>1, JoinFacts
    <3> QED
      BY ONLY <1>7, <3>1
  <2> QED
    BY ONLY <2>1, <2>2
<1>9. \A i \in 1..(Len(a) + Len(b)) : w[i] = z[i]
  <2> SUFFICES ASSUME NEW i \in 1..(Len(a) + Len(b)) PROVE w[i] = z[i]
    OBVIOUS
  <2>1. CASE i <= Len(a)
    BY <2>1, <1>3, <1>4, <1>6, <1>8
  <2>2. CASE ~(i <= Len(a))
    <3>1. i - Len(a) \in 1..Len(b)
      BY <2>2, <1>3
    <3> QED
      BY <2>2, <3>1, <1>3, <1>4, <1>6, <1>8
  <2> QED
    BY <2>1, <2>2
<1>10. w = z
  BY <1>4, <1>6, <1>8, <1>9
<1> QED
  BY <1>1, <1>2, <1>5, <1>7, <1>10

\* Concatenation is associative.
LEMMA ConcatAssoc ==
  \A S : \A a, b, c \in Seq(S) : (a \o b) \o c = a \o (b \o c)
  OBVIOUS

\* The length of what is left behind the first n.
LEMMA RestLength ==
  \A S : \A q \in Seq(S), n \in Nat : n <= Len(q) => Len(SubSeq(q, n + 1, Len(q))) = Len(q) - n
<1> SUFFICES ASSUME NEW S, NEW q \in Seq(S), NEW n \in Nat, n <= Len(q)
             PROVE  Len(SubSeq(q, n + 1, Len(q))) = Len(q) - n
  OBVIOUS
<1>1. PICK m \in Nat : m = Len(q)
  OBVIOUS
<1>2. Len(SubSeq(q, n + 1, m)) = IF n + 1 <= m THEN m - (n + 1) + 1 ELSE 0
  OBVIOUS
<1> QED
  BY <1>1, <1>2

\* What drain takes moves to the line: the first batch, or all of them one after the
\* other, by induction on their number.
LEMMA DrainMoves ==
  ASSUME DisjointBatches
  PROVE  \A line \in Seq(Messages), s \in SentSeqs, Q, R \in Queues, o \in QueueOps : \A g, m :
           /\ OrderAt(line, Q, s, g) /\ With(Q, o, Rest(Q[o], m), R)
           => OrderAt(line \o AsMessages(Drained(Q[o], m)), R, s, g)
<1> SUFFICES ASSUME NEW line \in Seq(Messages), NEW s \in SentSeqs, NEW Q \in Queues, NEW R \in Queues,
                    NEW o \in QueueOps, NEW g, NEW m,
                    OrderAt(line, Q, s, g), With(Q, o, Rest(Q[o], m), R)
             PROVE  OrderAt(line \o AsMessages(Drained(Q[o], m)), R, s, g)
  OBVIOUS
<1>q. PICK q \in Seq(Batches) : q = Q[o]
  BY DEF Queues
<1>0. Len(q) \in Nat /\ DOMAIN q = 1..Len(q) /\ (\A i \in 1..Len(q) : q[i] \in Batches /\ q[i] \in Seq(HostIds))
      /\ q \in Seq(Seq(HostIds))
  BY SeqOfSubset, BatchesAssumption DEF HostIds
<1>f. R = Q <=> R[o] = Q[o]
  <2>1. \A op \in QueueOps \ {o} : R[op] = Q[op]
    BY DEF With
  <2> QED
    BY <2>1 DEF Queues
<1>1. CASE q = <<>>
  <2>1. Drained(q, m) = <<>> /\ Rest(q, m) = <<>>
    BY <1>1 DEF Drained, Rest
  <2>2. AsMessages(<<>>) = <<>>
    BY DEF AsMessages
  <2>3. line \o <<>> = line
    BY ConcatEmpty
  <2>4. R = Q
    BY <2>1, <1>1, <1>q, <1>f DEF With
  <2> QED
    BY <1>q, <2>1, <2>2, <2>3, <2>4
<1>2. CASE q # <<>> /\ m # "all"
  <2>1. Drained(q, m) = Head(q) /\ Rest(q, m) = Tail(q)
    BY <1>2 DEF Drained, Rest
  <2>2. With(Q, o, Tail(Q[o]), R)
    BY <2>1, <1>q
  <2>3. OrderAt(line \o AsMessages(Head(Q[o])), R, s, g)
    BY <1>2, <1>q, <2>2, HeadMoves
  <2> QED
    BY <2>1, <2>3, <1>q
<1>3. CASE q # <<>> /\ m = "all"
  <2>0. Len(q) >= 1 /\ Len(q) > 0
    BY <1>3, <1>0
  <2>1. PICK f \in [1..Len(q) -> Seq(HostIds)] :
             /\ f[1] = q[1]
             /\ \A i \in 2..Len(q) : f[i] = f[i - 1] \o q[i]
             /\ FlattenSeq(q) = f[Len(q)]
    BY <1>0, <2>0, FlattenBy
  <2> DEFINE After(n) == [op \in QueueOps |-> IF op = o THEN SubSeq(q, n + 1, Len(q)) ELSE Q[op]]
             Moved(n) == OrderAt(line \o AsMessages(f[n]), After(n), s, g)
             N == {n \in Nat : n + 1 <= Len(q) => Moved(n + 1)}
  <2>2. ASSUME NEW n \in Nat, n < Len(q)
        PROVE  /\ SubSeq(q, n + 1, Len(q)) \in Seq(Batches) /\ SubSeq(q, n + 1, Len(q)) # <<>>
               /\ Head(SubSeq(q, n + 1, Len(q))) = q[n + 1]
               /\ Tail(SubSeq(q, n + 1, Len(q))) = SubSeq(q, (n + 1) + 1, Len(q))
    <3>1. PICK r : r = SubSeq(q, n + 1, Len(q))
      OBVIOUS
    <3>2. \A k \in (n + 1)..Len(q) : q[k] \in Batches
      BY <1>0
    <3>3. r \in Seq(Batches)
      BY <3>1, <3>2, <1>0
    <3>4. Len(r) = Len(q) - n /\ Len(r) >= 1 /\ \A k \in 1..(Len(q) - n) : r[k] = q[n + k]
      <4>6. n <= Len(q)
        BY <2>2, <1>0
      <4>1. Len(r) = Len(q) - n
        BY <3>1, <4>6, RestLength
      <4>2. \A k \in 1..(Len(q) - n) : r[k] = q[k + (n + 1) - 1]
        BY <3>1, <2>2, <1>0
      <4>3. \A k \in 1..(Len(q) - n) : k + (n + 1) - 1 = n + k
        BY <1>0
      <4> QED
        BY <4>1, <4>2, <4>3, <2>2, <1>0
    <3>5. PICK t : t = SubSeq(q, (n + 1) + 1, Len(q))
      OBVIOUS
    <3>6. t \in Seq(Batches) /\ Len(t) = Len(q) - (n + 1) /\ \A k \in 1..(Len(q) - (n + 1)) : t[k] = q[(n + 1) + k]
      <4>1. \A k \in ((n + 1) + 1)..Len(q) : q[k] \in Batches
        BY <1>0
      <4>2. t \in Seq(Batches)
        BY <4>1, <3>5, <1>0
      <4>6. n + 1 \in Nat /\ n + 1 <= Len(q)
        BY <2>2, <1>0
      <4>3. Len(t) = Len(q) - (n + 1)
        BY <3>5, <4>6, RestLength
      <4>4. \A k \in 1..(Len(q) - (n + 1)) : t[k] = q[k + ((n + 1) + 1) - 1]
        BY <3>5, <2>2, <1>0
      <4>5. \A k \in 1..(Len(q) - (n + 1)) : k + ((n + 1) + 1) - 1 = (n + 1) + k
        BY <1>0
      <4> QED
        BY <4>2, <4>3, <4>4, <4>5
    <3>7. r # <<>> /\ Head(r) = q[n + 1]
      BY <3>3, <3>4, <1>0, <2>2
    <3>8. Tail(r) \in Seq(Batches) /\ Len(Tail(r)) = Len(q) - (n + 1)
          /\ \A k \in 1..(Len(q) - (n + 1)) : Tail(r)[k] = r[k + 1]
      BY <3>3, <3>4, <3>7, <1>0, <2>2
    <3>9. \A k \in 1..(Len(q) - (n + 1)) : Tail(r)[k] = t[k]
      <4>1. \A k \in 1..(Len(q) - (n + 1)) : k + 1 \in 1..(Len(q) - n) /\ n + (k + 1) = (n + 1) + k
        BY <1>0
      <4> QED
        BY <4>1, <3>4, <3>6, <3>8
    <3>10. Tail(r) = t
      BY <3>6, <3>8, <3>9
    <3> QED
      BY <3>1, <3>3, <3>5, <3>7, <3>10
  <2>3. \A n \in Nat : n <= Len(q) => After(n) \in Queues
    <3> SUFFICES ASSUME NEW n \in Nat, n <= Len(q) PROVE After(n) \in Queues
      OBVIOUS
    <3>1. SubSeq(q, n + 1, Len(q)) \in Seq(Batches)
      BY <1>0
    <3>2. \A op \in QueueOps : Q[op] \in Seq(Batches)
      BY DEF Queues
    <3> QED
      BY <3>1, <3>2 DEF Queues
  <2>4. \A n \in Nat : After(n)[o] = SubSeq(q, n + 1, Len(q))
    OBVIOUS
  <2>5. \A n \in Nat : With(After(n), o, SubSeq(q, (n + 1) + 1, Len(q)), After(n + 1))
    BY DEF With
  <2>6. After(0) = Q
    <3>1. SubSeq(q, 0 + 1, Len(q)) = q
      BY <1>0
    <3> QED
      BY <3>1, <1>q DEF Queues
  <2>7. After(Len(q)) = R
    <3>1. SubSeq(q, Len(q) + 1, Len(q)) = <<>>
      BY <1>0
    <3>2. Rest(q, m) = <<>>
      BY <1>3 DEF Rest
    <3>3. R[o] = <<>> /\ \A op \in QueueOps \ {o} : R[op] = Q[op]
      BY <3>2, <1>q DEF With
    <3>4. \A op \in QueueOps : After(Len(q))[op] = R[op]
      BY <3>1, <3>3
    <3> QED
      BY <3>4 DEF Queues
  <2> HIDE DEF After
  <2>8. ASSUME NEW n \in Nat, n < Len(q), NEW l \in Seq(Messages), OrderAt(l, After(n), s, g)
        PROVE  OrderAt(l \o AsMessages(q[n + 1]), After(n + 1), s, g)
    <3>1. After(n) \in Queues /\ After(n + 1) \in Queues
      BY <2>3, <2>8, <1>0
    <3>2. After(n)[o] # <<>> /\ Head(After(n)[o]) = q[n + 1] /\ With(After(n), o, Tail(After(n)[o]), After(n + 1))
      BY <2>2, <2>4, <2>5, <2>8
    <3>3. OrderAt(l \o AsMessages(Head(After(n)[o])), After(n + 1), s, g)
      BY <3>1, <3>2, <2>8, HeadMoves
    <3> QED
      BY <3>2, <3>3
  <2>9. 0 \in N
    <3>1. OrderAt(line \o AsMessages(q[0 + 1]), After(0 + 1), s, g)
      BY <2>0, <2>6, <2>8
    <3>2. 0 + 1 = 1
      OBVIOUS
    <3> QED
      BY <3>1, <3>2, <2>1
  <2>10. ASSUME NEW n \in Nat, n \in N PROVE n + 1 \in N
    <3> SUFFICES ASSUME (n + 1) + 1 <= Len(q) PROVE Moved((n + 1) + 1)
      OBVIOUS
    <3>1. n + 1 <= Len(q) /\ n + 1 < Len(q) /\ n + 1 \in 1..Len(q) /\ (n + 1) + 1 \in 2..Len(q) /\ ((n + 1) + 1) - 1 = n + 1
          /\ n + 1 \in Nat
      BY <1>0
    <3>8. f[(n + 1) + 1] = f[((n + 1) + 1) - 1] \o q[(n + 1) + 1]
      BY ONLY <2>1, <3>1
    <3>9. f[n + 1] \in Seq(HostIds)
      BY ONLY <3>1, f \in [1..Len(q) -> Seq(HostIds)]
    <3>10. q[(n + 1) + 1] \in Seq(HostIds)
      BY ONLY <3>1, <1>0
    <3>2. f[(n + 1) + 1] = f[n + 1] \o q[(n + 1) + 1] /\ f[n + 1] \in Seq(HostIds) /\ q[(n + 1) + 1] \in Seq(HostIds)
      BY ONLY <3>1, <3>8, <3>9, <3>10
    <3>3. OrderAt(line \o AsMessages(f[n + 1]), After(n + 1), s, g)
      BY <2>10, <3>1
    <3>4. PICK a, b \in Seq(Messages) : a = AsMessages(f[n + 1]) /\ b = AsMessages(q[(n + 1) + 1])
      BY <3>2, AsMessagesType, SeqOfSubset, MessageKinds
    <3>5. line \o a \in Seq(Messages) /\ (line \o a) \o b = line \o (a \o b)
      BY ConcatAssoc
    <3>6. AsMessages(f[(n + 1) + 1]) = a \o b
      BY <3>2, <3>4, AsMessagesJoin
    <3>7. OrderAt((line \o a) \o b, After((n + 1) + 1), s, g)
      BY <2>8, <3>1, <3>3, <3>4, <3>5
    <3> QED
      BY <3>5, <3>6, <3>7
  <2>11. Nat \subseteq N
    <3> HIDE DEF N
    <3> QED
      BY <2>9, <2>10, NatSetInduction
  <2>12. Moved(Len(q))
    <3> HIDE DEF Moved
    <3>1. Len(q) - 1 \in Nat /\ (Len(q) - 1) + 1 = Len(q) /\ (Len(q) - 1) + 1 <= Len(q)
      BY ONLY <1>0, <2>0
    <3>2. Len(q) - 1 \in N
      BY <3>1, <2>11
    <3> QED
      BY <3>1, <3>2
  <2>13. Drained(q, m) = f[Len(q)]
    BY <1>3, <2>1 DEF Drained
  <2> QED
    BY <2>7, <2>12, <2>13, <1>q
<1> QED
  BY <1>1, <1>2, <1>3

\* The history with one more operation.
LEMMA AppendSent ==
  \A s \in SentSeqs, b \in Batches, o \in {"prompt", "steer", "followUp", "continuation"} :
     /\ Append(s, <<o, b>>) \in SentSeqs
     /\ \A i \in DOMAIN s : i \in DOMAIN Append(s, <<o, b>>) /\ Append(s, <<o, b>>)[i] = s[i] /\ i < Len(s) + 1
     /\ Len(s) + 1 \in DOMAIN Append(s, <<o, b>>) /\ Append(s, <<o, b>>)[Len(s) + 1] = <<o, b>>
     /\ \A i \in DOMAIN Append(s, <<o, b>>) : i = Len(s) + 1 \/ i \in DOMAIN s
     /\ Len(s) \in Nat
<1> SUFFICES ASSUME NEW s \in SentSeqs, NEW b \in Batches,
                    NEW o \in {"prompt", "steer", "followUp", "continuation"}
             PROVE  /\ Append(s, <<o, b>>) \in SentSeqs
                    /\ \A i \in DOMAIN s : i \in DOMAIN Append(s, <<o, b>>) /\ Append(s, <<o, b>>)[i] = s[i] /\ i < Len(s) + 1
                    /\ Len(s) + 1 \in DOMAIN Append(s, <<o, b>>) /\ Append(s, <<o, b>>)[Len(s) + 1] = <<o, b>>
                    /\ \A i \in DOMAIN Append(s, <<o, b>>) : i = Len(s) + 1 \/ i \in DOMAIN s
                    /\ Len(s) \in Nat
  OBVIOUS
<1> DEFINE E == {"prompt", "steer", "followUp", "continuation"} \X Batches
<1>1. PICK e \in E : e = <<o, b>>
  OBVIOUS
<1> HIDE DEF E
<1>2. s \in Seq(E)
  BY DEF SentSeqs, E
<1>6. Append(s, e) \in Seq(E)
  BY <1>2
<1>3. PICK t \in Seq(E) : t = Append(s, e)
  BY <1>6
<1>4. /\ Len(s) \in Nat /\ DOMAIN s = 1..Len(s) /\ DOMAIN t = 1..(Len(s) + 1) /\ t[Len(s) + 1] = e
      /\ \A i \in 1..Len(s) : t[i] = s[i]
  BY <1>2, <1>3
<1>5. t \in SentSeqs
  BY DEF SentSeqs, E
<1> QED
  BY <1>1, <1>3, <1>4, <1>5

\* A batch that was not handed over before is not in the line and in no queue.
LEMMA SentGrows ==
  ASSUME DisjointBatches
  PROVE  \A line \in Seq(Messages), s \in SentSeqs, Q \in Queues, b \in Batches,
            o \in {"prompt", "steer", "followUp", "continuation"} : \A g :
           /\ OrderAt(line, Q, s, g) /\ FreshIn(b, s)
           => /\ OrderAt(line, Q, Append(s, <<o, b>>), g)
              /\ \A x \in ToSet(b) : ~Told(x, line)
              /\ \A op \in QueueOps : \A k \in DOMAIN Q[op] : Q[op][k] # b
<1> SUFFICES ASSUME NEW line \in Seq(Messages), NEW s \in SentSeqs, NEW Q \in Queues, NEW b \in Batches,
                    NEW o \in {"prompt", "steer", "followUp", "continuation"}, NEW g,
                    OrderAt(line, Q, s, g), FreshIn(b, s)
             PROVE  /\ OrderAt(line, Q, Append(s, <<o, b>>), g)
                    /\ \A x \in ToSet(b) : ~Told(x, line)
                    /\ \A op \in QueueOps : \A k \in DOMAIN Q[op] : Q[op][k] # b
  OBVIOUS
<1>s. \A i \in DOMAIN s : s[i][2] \in Batches /\ s[i] = <<s[i][1], s[i][2]>>
  BY SentFacts
<1>o. LineOK(line, s, g) /\ SentOnce(s) /\ \A op \in QueueOps : QueueOK(op, Q[op], line, s)
  BY DEF OrderAt
<1>t. PICK t \in SentSeqs, m \in Nat :
        /\ t = Append(s, <<o, b>>)
        /\ \A i \in DOMAIN s : i \in DOMAIN t /\ t[i] = s[i] /\ i < m
        /\ m \in DOMAIN t /\ t[m] = <<o, b>>
        /\ \A i \in DOMAIN t : i = m \/ i \in DOMAIN s
  <2>1. PICK t : t = Append(s, <<o, b>>)
    OBVIOUS
  <2>2. PICK m : m = Len(s) + 1
    OBVIOUS
  <2>3. /\ t \in SentSeqs /\ m \in Nat
        /\ \A i \in DOMAIN s : i \in DOMAIN t /\ t[i] = s[i] /\ i < m
        /\ m \in DOMAIN t /\ t[m] = <<o, b>>
        /\ \A i \in DOMAIN t : i = m \/ i \in DOMAIN s
    <3>1. /\ Append(s, <<o, b>>) \in SentSeqs
          /\ \A i \in DOMAIN s : /\ i \in DOMAIN Append(s, <<o, b>>)
                                /\ Append(s, <<o, b>>)[i] = s[i] /\ i < Len(s) + 1
          /\ Len(s) + 1 \in DOMAIN Append(s, <<o, b>>) /\ Append(s, <<o, b>>)[Len(s) + 1] = <<o, b>>
          /\ \A i \in DOMAIN Append(s, <<o, b>>) : i = Len(s) + 1 \/ i \in DOMAIN s
      BY AppendSent
    <3>2. m \in Nat
      BY <2>2, SentFacts
    <3> QED
      BY ONLY <2>1, <2>2, <3>1, <3>2
  <2> QED
    BY <2>1, <2>3
<1>m. t[m][1] = o /\ t[m][2] = b /\ m \notin DOMAIN s
  <2>1. m \in DOMAIN s => m < m
    BY <1>t
  <2> QED
    BY <1>t, <2>1
<1>1. ASSUME NEW x \in ToSet(b) PROVE ~Told(x, line)
  <2> SUFFICES ASSUME NEW p \in DOMAIN line, line[p] = HostMessage(x) PROVE FALSE
    BY DEF Told
  <2>1. x \in HostIds
    BY BatchFacts
  <2>2. PICK i \in DOMAIN s : x \in ToSet(s[i][2])
    BY <1>o, <2>1 DEF LineOK, EachOnce
  <2>3. s[i][2] = b
    BY <1>s, <2>2, Disjoint
  <2> QED
    BY <2>3 DEF FreshIn
<1>2. ~Told(b[1], line)
  BY <1>1, BatchFacts
<1>3. \A op \in QueueOps : \A k \in DOMAIN Q[op] : Q[op][k] # b
  <2> SUFFICES ASSUME NEW op \in QueueOps, NEW k \in DOMAIN Q[op], Q[op][k] = b PROVE FALSE
    OBVIOUS
  <2>1. PICK i \in DOMAIN s : s[i] = <<op, Q[op][k]>>
    BY <1>o DEF QueueOK
  <2> QED
    BY <2>1 DEF FreshIn
<1>4. SentOnce(t)
  BY <1>t, <1>m, <1>o DEF SentOnce, FreshIn
<1>5. LineOK(line, t, g)
  <2>1. EachOnce(line, t)
    <3> SUFFICES ASSUME NEW p \in DOMAIN line, NEW x \in HostIds, line[p] = HostMessage(x)
                 PROVE  /\ \E i \in DOMAIN t : x \in ToSet(t[i][2])
                        /\ \A q \in DOMAIN line : line[q] = HostMessage(x) => p = q
      BY DEF EachOnce
    <3>1. PICK i \in DOMAIN s : x \in ToSet(s[i][2])
      BY <1>o DEF LineOK, EachOnce
    <3>2. i \in DOMAIN t /\ x \in ToSet(t[i][2])
      BY <3>1, <1>t
    <3> QED
      BY <3>2, <1>o DEF LineOK, EachOnce
  <2>2. InTurn(line, t)
    <3> SUFFICES ASSUME NEW i \in DOMAIN t, NEW j \in DOMAIN t, i < j, t[i][1] = t[j][1], t[i][1] \in QueueOps,
                        NEW p \in DOMAIN line, NEW q \in DOMAIN line,
                        line[p] = HostMessage(t[i][2][1]), line[q] = HostMessage(t[j][2][1])
                 PROVE  p < q
      BY DEF InTurn
    <3>1. i # m /\ j # m
      BY <1>2, <1>m DEF Told
    <3>2. i \in DOMAIN s /\ j \in DOMAIN s /\ t[i] = s[i] /\ t[j] = s[j]
      BY <3>1, <1>t
    <3>3. /\ s[i][1] = s[j][1] /\ s[i][1] \in QueueOps
          /\ line[p] = HostMessage(s[i][2][1]) /\ line[q] = HostMessage(s[j][2][1])
      BY <3>2
    <3> QED
      BY ONLY <1>o, <3>2, <3>3, i < j, p \in DOMAIN line, q \in DOMAIN line DEF LineOK, InTurn
  <2> QED
    BY <2>1, <2>2, <1>o DEF LineOK
<1>6. ASSUME NEW op \in QueueOps PROVE QueueOK(op, Q[op], line, t)
  <2>1. QueueOK(op, Q[op], line, s) /\ \A k \in DOMAIN Q[op] : Q[op][k] # b
    BY <1>o, <1>3
  <2>2. PICK q : q = Q[op]
    OBVIOUS
  <2>3. \A k \in DOMAIN q : \A i \in DOMAIN t : t[i][2] = q[k] => i \in DOMAIN s /\ s[i] = t[i]
    BY <1>t, <1>m, <2>1, <2>2
  <2>4. \A j \in DOMAIN t : Told(t[j][2][1], line) => j \in DOMAIN s /\ s[j] = t[j]
    BY <1>t, <1>m, <1>2
  <2>5. \A k \in DOMAIN q : \E i \in DOMAIN t : t[i] = <<op, q[k]>>
    <3> SUFFICES ASSUME NEW k \in DOMAIN q PROVE \E i \in DOMAIN t : t[i] = <<op, q[k]>>
      OBVIOUS
    <3>1. PICK i \in DOMAIN s : s[i] = <<op, q[k]>>
      BY <2>1, <2>2 DEF QueueOK
    <3> QED
      BY <3>1, <1>t
  <2>6. \A k, l \in DOMAIN q : k < l =>
          \A i, j \in DOMAIN t : t[i][2] = q[k] /\ t[j][2] = q[l] => i < j
    BY <2>1, <2>2, <2>3 DEF QueueOK
  <2>7. \A k \in DOMAIN q : \A i, j \in DOMAIN t :
          t[i][2] = q[k] /\ t[j][1] = op /\ Told(t[j][2][1], line) => j < i
    BY <2>1, <2>2, <2>3, <2>4 DEF QueueOK
  <2>8. Waits(q, line)
    BY <2>1, <2>2 DEF QueueOK
  <2> QED
    BY ONLY <2>2, <2>5, <2>6, <2>7, <2>8 DEF QueueOK
<1> QED
  BY <1>1, <1>3, <1>4, <1>5, <1>6, <1>t DEF OrderAt

\* A new batch joins the line at once (prompt, getContinuationMessages).
LEMMA FreshMoves ==
  ASSUME DisjointBatches
  PROVE  \A line \in Seq(Messages), s \in SentSeqs, Q \in Queues, b \in Batches, o \in {"prompt", "continuation"} :
           \A g : /\ OrderAt(line, Q, s, g) /\ FreshIn(b, s)
                  => OrderAt(line \o AsMessages(b), Q, Append(s, <<o, b>>), g)
<1> SUFFICES ASSUME NEW line \in Seq(Messages), NEW s \in SentSeqs, NEW Q \in Queues, NEW b \in Batches,
                    NEW o \in {"prompt", "continuation"}, NEW g,
                    OrderAt(line, Q, s, g), FreshIn(b, s)
             PROVE  OrderAt(line \o AsMessages(b), Q, Append(s, <<o, b>>), g)
  OBVIOUS
<1>1. o \in {"prompt", "steer", "followUp", "continuation"} /\ o \notin QueueOps
  BY DEF QueueOps
<1>2. PICK t \in SentSeqs : t = Append(s, <<o, b>>)
  BY <1>1, AppendSent
<1>7. PICK m \in DOMAIN t : t[m] = <<o, b>>
  BY <1>1, <1>2, AppendSent
<1>3. /\ OrderAt(line, Q, t, g)
      /\ \A x \in ToSet(b) : ~Told(x, line)
      /\ \A op \in QueueOps : \A k \in DOMAIN Q[op] : Q[op][k] # b
  BY <1>1, <1>2, SentGrows
<1>4. t[m][1] = o /\ t[m][2] = b
  BY <1>7
<1>5. LineOK(line \o AsMessages(t[m][2]), t, g)
  <2>1. LineOK(line, t, g) /\ SentOnce(t)
    BY <1>3 DEF OrderAt
  <2> QED
    BY <1>1, <1>3, <1>4, <2>1, LineGrows
<1>6. ASSUME NEW op \in QueueOps PROVE QueueOK(op, Q[op], line \o AsMessages(t[m][2]), t)
  <2>1. QueueOK(op, Q[op], line, t) /\ SentOnce(t) /\ Q[op] \in Seq(Batches)
    BY <1>3 DEF OrderAt, Queues
  <2>2. t[m][1] # op /\ \A k \in DOMAIN Q[op] : Q[op][k] # t[m][2]
    BY <1>1, <1>3, <1>4
  <2> QED
    BY <2>1, <2>2, QueueKeeps
<1> QED
  BY <1>2, <1>3, <1>4, <1>5, <1>6 DEF OrderAt

\* A new batch joins its queue (steer, followUp).
LEMMA FreshWaits ==
  ASSUME DisjointBatches
  PROVE  \A line \in Seq(Messages), s \in SentSeqs, Q, R \in Queues, b \in Batches, o \in QueueOps :
           \A g : /\ OrderAt(line, Q, s, g) /\ FreshIn(b, s) /\ With(Q, o, Append(Q[o], b), R)
                  => OrderAt(line, R, Append(s, <<o, b>>), g)
<1> SUFFICES ASSUME NEW line \in Seq(Messages), NEW s \in SentSeqs, NEW Q \in Queues, NEW R \in Queues,
                    NEW b \in Batches, NEW o \in QueueOps, NEW g,
                    OrderAt(line, Q, s, g), FreshIn(b, s), With(Q, o, Append(Q[o], b), R)
             PROVE  OrderAt(line, R, Append(s, <<o, b>>), g)
  OBVIOUS
<1>1. o \in {"prompt", "steer", "followUp", "continuation"}
  BY DEF QueueOps
<1>2. PICK t \in SentSeqs, m \in Nat :
        /\ t = Append(s, <<o, b>>)
        /\ \A i \in DOMAIN s : i \in DOMAIN t /\ t[i] = s[i] /\ i < m
        /\ m \in DOMAIN t /\ t[m] = <<o, b>>
        /\ \A i \in DOMAIN t : i = m \/ i \in DOMAIN s
  <2>1. PICK t : t = Append(s, <<o, b>>)
    OBVIOUS
  <2>2. PICK m : m = Len(s) + 1
    OBVIOUS
  <2>3. /\ t \in SentSeqs /\ m \in Nat
        /\ \A i \in DOMAIN s : i \in DOMAIN t /\ t[i] = s[i] /\ i < m
        /\ m \in DOMAIN t /\ t[m] = <<o, b>>
        /\ \A i \in DOMAIN t : i = m \/ i \in DOMAIN s
    <3>1. /\ Append(s, <<o, b>>) \in SentSeqs
          /\ \A i \in DOMAIN s : /\ i \in DOMAIN Append(s, <<o, b>>)
                                /\ Append(s, <<o, b>>)[i] = s[i] /\ i < Len(s) + 1
          /\ Len(s) + 1 \in DOMAIN Append(s, <<o, b>>) /\ Append(s, <<o, b>>)[Len(s) + 1] = <<o, b>>
          /\ \A i \in DOMAIN Append(s, <<o, b>>) : i = Len(s) + 1 \/ i \in DOMAIN s
      BY <1>1, AppendSent
    <3>2. m \in Nat
      BY <2>2, SentFacts
    <3> QED
      BY ONLY <2>1, <2>2, <3>1, <3>2
  <2> QED
    BY <2>1, <2>3
<1>3. /\ OrderAt(line, Q, t, g)
      /\ \A x \in ToSet(b) : ~Told(x, line)
      /\ \A op \in QueueOps : \A k \in DOMAIN Q[op] : Q[op][k] # b
  <2>1. t = Append(s, <<o, b>>)
    BY <1>2
  <2> QED
    BY <1>1, <2>1, SentGrows
<1>4. PICK q \in Seq(Batches) : q = Q[o]
  BY DEF Queues
<1>5. PICK r : r = Append(q, b)
  OBVIOUS
<1>6. /\ Len(q) \in Nat /\ DOMAIN q = 1..Len(q) /\ DOMAIN r = 1..(Len(q) + 1) /\ r[Len(q) + 1] = b
      /\ \A k \in 1..Len(q) : r[k] = q[k]
  BY <1>5
<1>7. /\ \A k \in DOMAIN r : k = Len(q) + 1 \/ (k \in DOMAIN q /\ r[k] = q[k] /\ q[k] # b)
      /\ \A k, l \in DOMAIN r : k < l => k \in DOMAIN q
  BY <1>3, <1>4, <1>6
<1>8. QueueOK(o, q, line, t) /\ SentOnce(t)
  BY <1>3, <1>4 DEF OrderAt
<1>9. t[m][1] = o /\ t[m][2] = b /\ ~Told(b[1], line)
  BY <1>2, <1>3, BatchFacts
<1>10. \A i \in DOMAIN t : t[i][2] = b => i = m
  BY <1>8, <1>9, <1>2 DEF SentOnce
<1>11. \A j \in DOMAIN t : j # m => j < m
  BY <1>2
<1>12. QueueOK(o, r, line, t)
  <2>1. \A k \in DOMAIN r : \E i \in DOMAIN t : t[i] = <<o, r[k]>>
    <3> SUFFICES ASSUME NEW k \in DOMAIN r PROVE \E i \in DOMAIN t : t[i] = <<o, r[k]>>
      OBVIOUS
    <3>1. CASE k = Len(q) + 1
      BY <3>1, <1>2, <1>6
    <3>2. CASE k \in DOMAIN q /\ r[k] = q[k]
      BY <3>2, <1>8 DEF QueueOK
    <3> QED
      BY <3>1, <3>2, <1>7
  <2>2. ASSUME NEW k \in DOMAIN r, NEW l \in DOMAIN r, k < l,
               NEW i \in DOMAIN t, NEW j \in DOMAIN t, t[i][2] = r[k], t[j][2] = r[l]
        PROVE  i < j
    <3>1. k \in DOMAIN q /\ r[k] = q[k] /\ q[k] # b
      BY <2>2, <1>3, <1>4, <1>6, <1>7
    <3>2. CASE l = Len(q) + 1
      <4>1. j = m /\ i # m
        BY <3>1, <3>2, <2>2, <1>6, <1>9, <1>10
      <4> QED
        BY <4>1, <1>11
    <3>3. CASE l \in DOMAIN q /\ r[l] = q[l]
      BY <3>1, <3>3, <2>2, <1>8 DEF QueueOK
    <3> QED
      BY <3>2, <3>3, <1>7
  <2>3. Waits(r, line)
    <3> SUFFICES ASSUME NEW k \in DOMAIN r, NEW x \in ToSet(r[k]) PROVE ~Told(x, line)
      BY DEF Waits
    <3>1. CASE k = Len(q) + 1
      BY <3>1, <1>3, <1>6
    <3>2. CASE k \in DOMAIN q /\ r[k] = q[k]
      BY <3>2, <1>8 DEF QueueOK, Waits
    <3> QED
      BY <3>1, <3>2, <1>7
  <2>4. ASSUME NEW k \in DOMAIN r, NEW i \in DOMAIN t, NEW j \in DOMAIN t,
               t[i][2] = r[k], t[j][1] = o, Told(t[j][2][1], line)
        PROVE  j < i
    <3>1. CASE k = Len(q) + 1
      <4>1. i = m /\ j # m
        BY <3>1, <2>4, <1>6, <1>9, <1>10
      <4> QED
        BY <4>1, <1>11
    <3>2. CASE k \in DOMAIN q /\ r[k] = q[k]
      BY <3>2, <2>4, <1>8 DEF QueueOK
    <3> QED
      BY <3>1, <3>2, <1>7
  <2> QED
    BY ONLY <2>1, <2>2, <2>3, <2>4 DEF QueueOK
<1>13. \A op \in QueueOps : QueueOK(op, R[op], line, t)
  <2> SUFFICES ASSUME NEW op \in QueueOps PROVE QueueOK(op, R[op], line, t)
    OBVIOUS
  <2>1. CASE op = o
    <3>1. R[op] = r
      BY <2>1, <1>4, <1>5 DEF With
    <3> QED
      BY <3>1, <2>1, <1>12
  <2>2. CASE op # o
    <3>1. R[op] = Q[op]
      BY <2>2 DEF With
    <3> QED
      BY <3>1, <1>3 DEF OrderAt
  <2> QED
    BY <2>1, <2>2
<1> QED
  BY <1>2, <1>3, <1>13 DEF OrderAt

\* Dropping the end of the line, or its beginning up to a message that goes to gone, and
\* batches of the queues keeps the rest in order.
LEMMA LineNarrows ==
  \A line, n \in Seq(Messages), s \in SentSeqs, Q, R \in Queues, d \in Nat : \A g, h :
     /\ OrderAt(line, Q, s, g) /\ Window(n, line, d)
     /\ g \subseteq h /\ \A x \in HostIds : d > 0 /\ line[d] = HostMessage(x) => x \in h
     /\ \A op \in QueueOps : Sub(R[op], Q[op])
     => OrderAt(n, R, s, h)
<1> SUFFICES ASSUME NEW line \in Seq(Messages), NEW n \in Seq(Messages), NEW s \in SentSeqs,
                    NEW Q \in Queues, NEW R \in Queues, NEW d \in Nat, NEW g, NEW h,
                    OrderAt(line, Q, s, g), Window(n, line, d),
                    g \subseteq h, \A x \in HostIds : d > 0 /\ line[d] = HostMessage(x) => x \in h,
                    \A op \in QueueOps : Sub(R[op], Q[op])
             PROVE  OrderAt(n, R, s, h)
  OBVIOUS
<1>o. /\ EachOnce(line, s) /\ Together(line, g) /\ InTurn(line, s)
      /\ SentOnce(s) /\ \A op \in QueueOps : QueueOK(op, Q[op], line, s)
  BY DEF OrderAt, LineOK
<1>w. \A p \in DOMAIN n : p + d \in DOMAIN line /\ n[p] = line[p + d]
  BY DEF Window
<1>n. Len(n) \in Nat /\ DOMAIN n = 1..Len(n)
  OBVIOUS
<1>1. \A x : Told(x, n) => Told(x, line)
  BY <1>w DEF Told
<1>2. EachOnce(n, s)
  <2> SUFFICES ASSUME NEW p \in DOMAIN n, NEW x \in HostIds, n[p] = HostMessage(x)
               PROVE  /\ \E i \in DOMAIN s : x \in ToSet(s[i][2])
                      /\ \A q \in DOMAIN n : n[q] = HostMessage(x) => p = q
    BY DEF EachOnce
  <2>1. p + d \in DOMAIN line /\ line[p + d] = HostMessage(x)
    BY <1>w
  <2>2. ASSUME NEW q \in DOMAIN n, n[q] = HostMessage(x) PROVE p = q
    <3>1. q + d \in DOMAIN line /\ line[q + d] = HostMessage(x)
      BY <1>w, <2>2
    <3>2. p + d = q + d
      BY <1>o, <2>1, <3>1 DEF EachOnce
    <3> QED
      BY <3>2, <1>n
  <2> QED
    BY <2>1, <2>2, <1>o DEF EachOnce
<1>3. Together(n, h)
  <2> SUFFICES ASSUME NEW b \in Batches, NEW k \in DOMAIN b \ {1}, NEW p \in DOMAIN n,
                      n[p] = HostMessage(b[k])
               PROVE  b[k - 1] \in h \/ (p > 1 /\ n[p - 1] = HostMessage(b[k - 1]))
    BY DEF Together
  <2>1. p + d \in DOMAIN line /\ line[p + d] = HostMessage(b[k])
    BY <1>w
  <2>2. b[k - 1] \in g \/ (p + d > 1 /\ line[(p + d) - 1] = HostMessage(b[k - 1]))
    BY <1>o, <2>1 DEF Together
  <2>3. CASE b[k - 1] \in g
    BY <2>3
  <2>4. CASE p + d > 1 /\ line[(p + d) - 1] = HostMessage(b[k - 1]) /\ p = 1
    <3>1. d > 0 /\ line[d] = HostMessage(b[k - 1])
      <4>1. (p + d) - 1 = d
        BY <2>4
      <4> QED
        BY <4>1, <2>4
    <3>2. b[k - 1] \in HostIds
      BY BatchFacts
    <3> QED
      BY <3>1, <3>2
  <2>5. CASE line[(p + d) - 1] = HostMessage(b[k - 1]) /\ p # 1
    <3>1. p > 1 /\ p - 1 \in DOMAIN n /\ (p - 1) + d = (p + d) - 1
      BY <2>5, <1>n
    <3> QED
      BY <3>1, <2>5, <1>w
  <2> QED
    BY <2>2, <2>3, <2>4, <2>5
<1>4. InTurn(n, s)
  <2> SUFFICES ASSUME NEW i \in DOMAIN s, NEW j \in DOMAIN s, i < j, s[i][1] = s[j][1], s[i][1] \in QueueOps,
                      NEW p \in DOMAIN n, NEW q \in DOMAIN n,
                      n[p] = HostMessage(s[i][2][1]), n[q] = HostMessage(s[j][2][1])
               PROVE  p < q
    BY DEF InTurn
  <2>1. p + d < q + d
    BY <1>o, <1>w DEF InTurn
  <2> QED
    BY <2>1, <1>n
<1>5. ASSUME NEW op \in QueueOps PROVE QueueOK(op, R[op], n, s)
  <2>1. QueueOK(op, R[op], line, s)
    BY <1>o, SubQueue
  <2> QED
    BY <2>1, <1>1 DEF QueueOK, Waits
<1> QED
  BY <1>2, <1>3, <1>4, <1>5, <1>o DEF OrderAt, LineOK

\* A message that is no message of the host changes nothing in the order.
LEMMA LineExtends ==
  \A line \in Seq(Messages), s \in SentSeqs, Q \in Queues, y \in Messages : \A g :
     /\ OrderAt(line, Q, s, g) /\ \A x \in HostIds : y # HostMessage(x)
     => OrderAt(Append(line, y), Q, s, g)
<1> SUFFICES ASSUME NEW line \in Seq(Messages), NEW s \in SentSeqs, NEW Q \in Queues, NEW y \in Messages, NEW g,
                    OrderAt(line, Q, s, g), \A x \in HostIds : y # HostMessage(x)
             PROVE  OrderAt(Append(line, y), Q, s, g)
  OBVIOUS
<1>o. /\ EachOnce(line, s) /\ Together(line, g) /\ InTurn(line, s)
      /\ SentOnce(s) /\ \A op \in QueueOps : QueueOK(op, Q[op], line, s)
  BY DEF OrderAt, LineOK
<1>s. \A i \in DOMAIN s : s[i][2] \in Batches /\ s[i][2][1] \in HostIds
  BY SentFacts, BatchFacts
<1>1. PICK n : n = Append(line, y)
  OBVIOUS
<1>2. /\ Len(line) \in Nat /\ DOMAIN line = 1..Len(line) /\ DOMAIN n = 1..(Len(line) + 1)
      /\ n[Len(line) + 1] = y /\ \A p \in 1..Len(line) : n[p] = line[p]
  BY <1>1
<1>3. \A p \in DOMAIN line : p \in DOMAIN n /\ n[p] = line[p]
  BY <1>2
<1>4. \A p \in DOMAIN n, x \in HostIds : n[p] = HostMessage(x) => p \in DOMAIN line /\ line[p] = HostMessage(x)
  BY <1>2
<1>5. EachOnce(n, s)
  BY <1>o, <1>4 DEF EachOnce
<1>6. Together(n, g)
  <2> SUFFICES ASSUME NEW b \in Batches, NEW k \in DOMAIN b \ {1}, NEW p \in DOMAIN n,
                      n[p] = HostMessage(b[k])
               PROVE  b[k - 1] \in g \/ (p > 1 /\ n[p - 1] = HostMessage(b[k - 1]))
    BY DEF Together
  <2>1. b[k] \in HostIds
    BY BatchFacts
  <2>2. p \in DOMAIN line /\ line[p] = HostMessage(b[k])
    BY <1>4, <2>1
  <2>3. p > 1 => n[p - 1] = line[p - 1]
    BY <1>2, <2>2
  <2> QED
    BY <1>o, <2>2, <2>3 DEF Together
<1>7. InTurn(n, s)
  BY <1>o, <1>4, <1>s DEF InTurn
<1>8. \A x \in HostIds : Told(x, n) => Told(x, line)
  BY <1>4 DEF Told
<1>9. ASSUME NEW op \in QueueOps PROVE QueueOK(op, Q[op], n, s)
  <2>1. PICK q \in Seq(Batches) : q = Q[op]
    BY DEF Queues
  <2>2. QueueOK(op, q, line, s)
    BY <1>o, <2>1
  <2>3. \A k \in DOMAIN q : \A x \in ToSet(q[k]) : x \in HostIds
    <3>1. \A k \in DOMAIN q : q[k] \in Batches
      OBVIOUS
    <3> QED
      BY <3>1, BatchFacts
  <2>4. QueueOK(op, q, n, s)
    BY <2>2, <2>3, <1>8, <1>s DEF QueueOK, Waits
  <2> QED
    BY <2>1, <2>4
<1> QED
  BY <1>1, <1>5, <1>6, <1>7, <1>9, <1>o DEF OrderAt, LineOK

\* The line when at most one of the lists is not empty.
LEMMA LineForms ==
  /\ \A ms, p, c, l : LineOf(ms, p, c, l, "fail") = ms
  /\ \A ms \in Seq(Messages) : \A label : label # "injected" => LineOf(ms, <<>>, <<>>, <<>>, label) = ms
  /\ \A ms \in Seq(Messages), p \in Seq(HostMessages) : \A label :
        label \notin {"fail", "injected"} =>
           /\ LineOf(ms, p, <<>>, <<>>, label) = ms \o p
           /\ LineOf(ms, <<>>, p, <<>>, label) = ms \o p
           /\ LineOf(ms, <<>>, <<>>, p, label) = ms \o p
  /\ \A ms \in Seq(Messages), p \in Seq(HostMessages) :
        p # <<>> => LineOf(ms, <<>>, p, <<>>, "injected") = ms \o Tail(p)
<1>e. /\ \A S : \A s \in Seq(S) : s \o <<>> = s /\ <<>> \o s = s
      /\ \A S : <<>> \in Seq(S)
  OBVIOUS
<1>j. \A S : \A a, b \in Seq(S) : a \o b \in Seq(S)
  OBVIOUS
<1>s. HostMessages \subseteq Messages /\ \A p \in Seq(HostMessages) : p \in Seq(Messages)
  BY MessageKinds, SeqOfSubset
<1>1. \A ms, p, c, l : LineOf(ms, p, c, l, "fail") = ms
  BY DEF LineOf
<1>2. \A ms \in Seq(Messages) : \A label : label # "injected" => LineOf(ms, <<>>, <<>>, <<>>, label) = ms
  <2>1. <<>> \o (<<>> \o <<>>) = <<>>
    BY <1>e
  <2> QED
    BY <1>e, <2>1 DEF LineOf
<1>3. \A ms \in Seq(Messages), p \in Seq(HostMessages) : \A label :
        label \notin {"fail", "injected"} =>
           /\ LineOf(ms, p, <<>>, <<>>, label) = ms \o p
           /\ LineOf(ms, <<>>, p, <<>>, label) = ms \o p
           /\ LineOf(ms, <<>>, <<>>, p, label) = ms \o p
  <2>1. \A p \in Seq(HostMessages) :
          p \o (<<>> \o <<>>) = p /\ <<>> \o (p \o <<>>) = p /\ <<>> \o (<<>> \o p) = p
    BY <1>e
  <2> QED
    BY <2>1 DEF LineOf
<1>4. \A ms \in Seq(Messages), p \in Seq(HostMessages) :
        p # <<>> => LineOf(ms, <<>>, p, <<>>, "injected") = ms \o Tail(p)
  <2>1. \A p \in Seq(HostMessages) : p # <<>> => Tail(p) \in Seq(HostMessages)
    OBVIOUS
  <2>2. \A p \in Seq(HostMessages) : <<>> \o (p \o <<>>) = p
    BY <1>e
  <2> QED
    BY <2>1, <2>2 DEF LineOf
<1> QED
  BY <1>1, <1>2, <1>3, <1>4

\* All that is in the line comes after the transcript.
LEMMA LineTail ==
  \A ms \in Seq(Messages), p, c, l \in Seq(HostMessages) : \A label :
        (label = "injected" => c # <<>>) =>
           \E t \in Seq(Messages) : /\ LineOf(ms, p, c, l, label) = ms \o t
                                    /\ LineOf(<<>>, p, c, l, label) = t
                                    /\ ms \o t \in Seq(Messages)
<1> SUFFICES ASSUME NEW ms \in Seq(Messages), NEW p \in Seq(HostMessages), NEW c \in Seq(HostMessages),
                    NEW l \in Seq(HostMessages), NEW label, label = "injected" => c # <<>>
             PROVE  \E t \in Seq(Messages) : /\ LineOf(ms, p, c, l, label) = ms \o t
                                             /\ LineOf(<<>>, p, c, l, label) = t
                                             /\ ms \o t \in Seq(Messages)
  OBVIOUS
<1>e. /\ \A S : \A s \in Seq(S) : s \o <<>> = s /\ <<>> \o s = s
      /\ \A S : <<>> \in Seq(S)
  OBVIOUS
<1>j. \A S : \A a, b \in Seq(S) : a \o b \in Seq(S)
  OBVIOUS
<1>s. HostMessages \subseteq Messages /\ \A q \in Seq(HostMessages) : q \in Seq(Messages)
  BY MessageKinds, SeqOfSubset
<1>1. CASE label = "fail"
  <2>1. LineOf(ms, p, c, l, label) = ms /\ LineOf(<<>>, p, c, l, label) = <<>>
    BY <1>1 DEF LineOf
  <2>2. ms \o <<>> = ms /\ <<>> \in Seq(Messages)
    BY <1>e
  <2> QED
    BY <2>1, <2>2
<1>2. CASE label # "fail"
  <2>1. PICK d : d = IF label = "injected" THEN Tail(c) ELSE c
    OBVIOUS
  <2>2. d \in Seq(HostMessages)
    BY <2>1
  <2>3. PICK t : t = p \o (d \o l)
    OBVIOUS
  <2>4. t \in Seq(Messages)
    BY <2>2, <2>3, <1>j, <1>s
  <2>5. LineOf(ms, p, c, l, label) = ms \o t /\ LineOf(<<>>, p, c, l, label) = <<>> \o t
    BY <1>2, <2>1, <2>3 DEF LineOf
  <2>6. ms \o t \in Seq(Messages) /\ <<>> \o t = t
    BY <2>4, <1>j, <1>e
  <2> QED
    BY <2>4, <2>5, <2>6
<1> QED
  BY <1>1, <1>2

\* ListInv gives the types of the lists.
LEMMA TypesOfLists ==
  /\ DataInv => ListTypes
  /\ DataInv' => ListTypes'
BY DEF DataInv, ListsOK, CopiesOK, LabelsOK, ListTypes

\* The types of the line, of the queues and of the history.
LEMMA OrderTypes ==
  /\ ListTypes => Line \in Seq(Messages)
  /\ ListTypes' => Line' \in Seq(Messages)
  /\ BatchesQueued => QueueOf \in Queues /\ sent \in SentSeqs
  /\ BatchesQueued' => QueueOf' \in Queues /\ sent' \in SentSeqs
<1>1. \A ms \in Seq(Messages), p, c, l \in Seq(HostMessages) : \A label :
        (label = "injected" => c # <<>>) => LineOf(ms, p, c, l, label) \in Seq(Messages)
  <2> SUFFICES ASSUME NEW ms \in Seq(Messages), NEW p \in Seq(HostMessages), NEW c \in Seq(HostMessages),
                      NEW l \in Seq(HostMessages), NEW label, label = "injected" => c # <<>>
               PROVE  LineOf(ms, p, c, l, label) \in Seq(Messages)
    OBVIOUS
  <2>1. PICK t \in Seq(Messages) : /\ LineOf(ms, p, c, l, label) = ms \o t
                                   /\ LineOf(<<>>, p, c, l, label) = t
                                   /\ ms \o t \in Seq(Messages)
    BY LineTail
  <2> QED
    BY <2>1
<1>2. ListTypes => Line \in Seq(Messages)
  BY <1>1 DEF ListTypes, Line
<1>3. ListTypes' => Line' \in Seq(Messages)
  BY <1>1 DEF ListTypes, Line
<1>4. BatchesQueued => QueueOf \in Queues /\ sent \in SentSeqs
  BY DEF BatchesQueued, QueueOf, Queues, SentSeqs
<1>5. BatchesQueued' => QueueOf' \in Queues /\ sent' \in SentSeqs
  BY DEF BatchesQueued, QueueOf, Queues, SentSeqs
<1> QED
  BY <1>2, <1>3, <1>4, <1>5

\* What OrderInv reads besides the line.
orderedVars == <<steeringQueue, followUpQueue, sent, gone>>

\* The line is cut or stays as it is.
LEMMA OrderFrame ==
  ASSUME OrderInv, ListTypes, ListTypes', BatchesQueued, BatchesQueued',
         UNCHANGED orderedVars, Line' = Line \/ Line' = messages
  PROVE  OrderInv'
<1>1. QueueOf' = QueueOf /\ sent' = sent /\ gone' = gone
  BY DEF orderedVars, QueueOf
<1>2. CASE Line' = Line
  BY <1>1, <1>2 DEF OrderInv
<1>3. CASE Line' = messages
  <2>1. Line \in Seq(Messages) /\ messages \in Seq(Messages) /\ QueueOf \in Queues /\ sent \in SentSeqs
    BY OrderTypes DEF ListTypes
  <2>2. PICK t \in Seq(Messages) : Line = messages \o t
    <3>1. PICK t \in Seq(Messages) :
             /\ LineOf(messages, prompts, pendingMessages, polled, pc) = messages \o t
             /\ LineOf(<<>>, prompts, pendingMessages, polled, pc) = t
             /\ messages \o t \in Seq(Messages)
      BY LineTail DEF ListTypes
    <3> QED
      BY <3>1 DEF Line
  <2>3. Window(messages, Line, 0)
    <3>1. \A p \in 1..Len(messages) : p + 0 = p /\ p \in DOMAIN (messages \o t) /\ (messages \o t)[p] = messages[p]
      BY <2>1
    <3>2. DOMAIN messages = 1..Len(messages)
      BY <2>1
    <3> QED
      BY <3>1, <3>2, <2>2 DEF Window
  <2>4. \A op \in QueueOps : Sub(QueueOf[op], QueueOf[op])
    BY <2>1, SubQueues DEF Queues
  <2>5. OrderAt(messages, QueueOf, sent, gone)
    <3>1. 0 \in Nat /\ ~(0 > 0) /\ gone \subseteq gone
      OBVIOUS
    <3>2. \A x \in HostIds : 0 > 0 /\ Line[0] = HostMessage(x) => x \in gone
      BY <3>1
    <3> QED
      BY ONLY <2>1, <2>3, <2>4, <3>1, <3>2, OrderInv, LineNarrows DEF OrderInv
  <2> QED
    BY <1>1, <1>3, <2>5 DEF OrderInv
<1> QED
  BY <1>2, <1>3

\* A response or a result joins the transcript, with nothing on the way.
LEMMA OrderJoins ==
  ASSUME OrderInv, ListTypes, ListTypes', BatchesQueued, UNCHANGED orderedVars,
         prompts = <<>>, pendingMessages = <<>>, polled = <<>>,
         UNCHANGED <<prompts, pendingMessages, polled>>, pc # "injected", pc' # "injected",
         \/ messages' = messages
         \/ \E y \in ReplySet \cup ResultMessages : messages' = Append(messages, y)
  PROVE  OrderInv'
<1>1. QueueOf' = QueueOf /\ sent' = sent /\ gone' = gone
  BY DEF orderedVars, QueueOf
<1>2. Line = messages /\ Line' = messages'
  BY LineForms DEF ListTypes, Line
<1>3. CASE messages' = messages
  BY <1>1, <1>2, <1>3 DEF OrderInv
<1>4. ASSUME NEW y \in ReplySet \cup ResultMessages, messages' = Append(messages, y) PROVE OrderInv'
  <2>1. y \in Messages
    BY MessageKinds
  <2>2. \A x \in HostIds : y # HostMessage(x)
    <3>1. y.role \in {"assistant", "toolResult"}
      BY DEF ReplySet, ResultMessages
    <3>2. \A x \in HostIds : HostMessage(x).role \in {"user", "custom"}
      BY BatchesAssumption DEF HostMessage, HostIds
    <3> QED
      BY <3>1, <3>2
  <2>3. OrderAt(Append(messages, y), QueueOf, sent, gone)
    <3>1. messages \in Seq(Messages) /\ QueueOf \in Queues /\ sent \in SentSeqs
      BY OrderTypes DEF ListTypes
    <3>2. OrderAt(messages, QueueOf, sent, gone)
      BY <1>2 DEF OrderInv
    <3> QED
      BY <2>1, <2>2, <3>1, <3>2, LineExtends
  <2> QED
    BY <1>1, <1>2, <1>4, <2>3 DEF OrderInv
<1> QED
  BY <1>3, <1>4

\* The messages the agent takes from its host follow what is in the line.
LEMMA OrderDrains ==
  ASSUME DisjointBatches, OrderInv, ListTypes, BatchesQueued, BatchesQueued',
       UNCHANGED <<sent, gone>>,
         NEW o \in QueueOps, NEW m, Line = messages,
         Line' = messages \o AsMessages(Drained(QueueOf[o], m)),
         With(QueueOf, o, Rest(QueueOf[o], m), QueueOf')
  PROVE  OrderInv'
<1>1. messages \in Seq(Messages) /\ QueueOf \in Queues /\ QueueOf' \in Queues /\ sent \in SentSeqs
  BY OrderTypes DEF ListTypes
<1>2. PICK R \in Queues : R = QueueOf'
  BY <1>1
<1>3. OrderAt(messages, QueueOf, sent, gone)
  BY DEF OrderInv
<1>4. OrderAt(messages \o AsMessages(Drained(QueueOf[o], m)), R, sent, gone)
  BY <1>1, <1>2, <1>3, DrainMoves
<1> QED
  BY <1>2, <1>4 DEF OrderInv

\* A batch that is prompted, or handed over as a continuation, joins the line.
LEMMA OrderSends ==
  ASSUME DisjointBatches, OrderInv, ListTypes, BatchesQueued, BatchesQueued', UNCHANGED gone,
         NEW b \in Unsent, NEW o \in {"prompt", "continuation"}, sent' = Append(sent, <<o, b>>),
         UNCHANGED <<steeringQueue, followUpQueue>>,
         Line = messages, Line' = messages \o AsMessages(b)
  PROVE  OrderInv'
<1>1. messages \in Seq(Messages) /\ QueueOf \in Queues /\ sent \in SentSeqs
  BY OrderTypes DEF ListTypes
<1>2. QueueOf' = QueueOf
  BY DEF QueueOf
<1>3. OrderAt(messages, QueueOf, sent, gone) /\ b \in Batches /\ FreshIn(b, sent)
  BY DEF OrderInv, Unsent, FreshIn
<1>4. OrderAt(messages \o AsMessages(b), QueueOf, Append(sent, <<o, b>>), gone)
  BY <1>1, <1>3, FreshMoves
<1> QED
  BY <1>2, <1>4 DEF OrderInv

\* A batch that is queued.
LEMMA OrderQueues ==
  ASSUME DisjointBatches, OrderInv, ListTypes, BatchesQueued, BatchesQueued', UNCHANGED gone,
         NEW b \in Unsent, NEW o \in QueueOps, sent' = Append(sent, <<o, b>>),
         With(QueueOf, o, Append(QueueOf[o], b), QueueOf'), Line' = Line
  PROVE  OrderInv'
<1>1. Line \in Seq(Messages) /\ QueueOf \in Queues /\ QueueOf' \in Queues /\ sent \in SentSeqs
  BY OrderTypes
<1>2. PICK R \in Queues : R = QueueOf'
  BY <1>1
<1>3. OrderAt(Line, QueueOf, sent, gone) /\ b \in Batches /\ FreshIn(b, sent)
  BY DEF OrderInv, Unsent, FreshIn
<1>4. OrderAt(Line, R, Append(sent, <<o, b>>), gone)
  BY <1>1, <1>2, <1>3, FreshWaits
<1> QED
  BY <1>2, <1>4 DEF OrderInv

\* The host takes batches out of the queues.
LEMMA OrderRemoves ==
  ASSUME OrderInv, ListTypes, BatchesQueued, BatchesQueued', sent' = sent, Line' = Line,
         gone \subseteq gone',
         \A op \in QueueOps : Sub(QueueOf'[op], QueueOf[op])
  PROVE  OrderInv'
<1>1. Line \in Seq(Messages) /\ QueueOf \in Queues /\ QueueOf' \in Queues /\ sent \in SentSeqs
  BY OrderTypes
<1>2. PICK R \in Queues : R = QueueOf'
  BY <1>1
<1>h. PICK h : h = gone'
  OBVIOUS
<1>3. Window(Line, Line, 0)
  <2>1. \A p \in DOMAIN Line : p + 0 = p
    BY <1>1
  <2> QED
    BY <2>1 DEF Window
<1>4. OrderAt(Line, R, sent, h)
  <2>1. 0 \in Nat /\ ~(0 > 0) /\ gone \subseteq h
    BY <1>h
  <2>2. \A x \in HostIds : 0 > 0 /\ Line[0] = HostMessage(x) => x \in h
    BY <2>1
  <2>3. OrderAt(Line, QueueOf, sent, gone) /\ \A op \in QueueOps : Sub(R[op], QueueOf[op])
    BY <1>2 DEF OrderInv
  <2> QED
    BY ONLY <1>1, <1>2, <1>3, <2>1, <2>2, <2>3, LineNarrows
<1> QED
  BY <1>2, <1>h, <1>4 DEF OrderInv

\* What the line is made of.
listVars == <<messages, prompts, pendingMessages, polled>>

\* A label that changes nothing in the line.
LEMMA OrderStays ==
  ASSUME OrderInv, ListTypes, ListTypes', BatchesQueued, BatchesQueued',
         UNCHANGED <<orderedVars, listVars>>,
         \/ pc' \in {pc, "fail"}
         \/ pc \notin {"fail", "injected"} /\ pc' \notin {"fail", "injected"}
  PROVE  OrderInv'
<1>1. UNCHANGED orderedVars
  OBVIOUS
<1>2. UNCHANGED listVars
  OBVIOUS
<1>3. CASE pc' = "fail"
  <2>1. Line' = messages'
    BY <1>3 DEF Line, LineOf
  <2>2. messages' = messages
    BY <1>2 DEF listVars
  <2> QED
    BY <1>1, <2>1, <2>2, OrderFrame
<1>4. CASE pc' = pc
  <2>1. Line' = Line
    BY <1>2, <1>4 DEF Line, listVars
  <2> QED
    BY <1>1, <2>1, OrderFrame
<1>5. CASE pc \notin {"fail", "injected"} /\ pc' \notin {"fail", "injected"}
  <2>1. Line' = Line
    BY <1>2, <1>5 DEF Line, LineOf, listVars
  <2> QED
    BY <1>1, <2>1, OrderFrame
<1> QED
  BY <1>3, <1>4, <1>5

\* The line where the lists are empty, or all but one.
LEMMA LineShapes ==
  /\ ListTypes => /\ pc = "fail" => Line = messages
                  /\ prompts = <<>> /\ pendingMessages = <<>> /\ polled = <<>> /\ pc # "injected" => Line = messages
  /\ ListTypes' => /\ pc' = "fail" => Line' = messages'
                   /\ prompts' = <<>> /\ pendingMessages' = <<>> /\ polled' = <<>> /\ pc' # "injected"
                        => Line' = messages'
                   /\ pendingMessages' = <<>> /\ polled' = <<>> /\ pc' \notin {"fail", "injected"}
                        => Line' = messages' \o prompts'
                   /\ prompts' = <<>> /\ pendingMessages' = <<>> /\ pc' \notin {"fail", "injected"}
                        => Line' = messages' \o polled'
<1>1. ASSUME ListTypes
      PROVE  /\ pc = "fail" => Line = messages
             /\ prompts = <<>> /\ pendingMessages = <<>> /\ polled = <<>> /\ pc # "injected" => Line = messages
  BY <1>1, LineForms DEF ListTypes, Line
<1>2. ListTypes' /\ pc' = "fail" => Line' = messages'
  BY DEF Line, LineOf
<1>3. ListTypes' /\ prompts' = <<>> /\ pendingMessages' = <<>> /\ polled' = <<>> /\ pc' # "injected"
        => Line' = messages'
  BY LineForms DEF ListTypes, Line
<1>4. ListTypes' /\ pendingMessages' = <<>> /\ polled' = <<>> /\ pc' \notin {"fail", "injected"}
        => Line' = messages' \o prompts'
  BY LineForms DEF ListTypes, Line
<1>5. ListTypes' /\ prompts' = <<>> /\ pendingMessages' = <<>> /\ pc' \notin {"fail", "injected"}
        => Line' = messages' \o polled'
  BY LineForms DEF ListTypes, Line
<1> QED
  BY ONLY <1>1, <1>2, <1>3, <1>4, <1>5

\* The first message of a list becomes the last of the transcript.
LEMMA HeadJoins ==
  ASSUME ListTypes, ListTypes', polled = <<>>, UNCHANGED polled,
         \/ /\ pendingMessages = <<>> /\ UNCHANGED pendingMessages
            /\ prompts # <<>> /\ prompts' = Tail(prompts) /\ messages' = Append(messages, Head(prompts))
            /\ pc \notin {"fail", "injected"} /\ pc' \notin {"fail", "injected"}
         \/ /\ prompts = <<>> /\ UNCHANGED <<prompts, pendingMessages>> /\ pendingMessages # <<>>
            /\ messages' = Append(messages, Head(pendingMessages))
            /\ pc \notin {"fail", "injected"} /\ pc' = "injected"
         \/ /\ prompts = <<>> /\ UNCHANGED <<prompts, messages>> /\ pendingMessages # <<>>
            /\ pendingMessages' = Tail(pendingMessages)
            /\ pc = "injected" /\ pc' \notin {"fail", "injected"}
  PROVE  Line' = Line
<1>t. /\ messages \in Seq(Messages) /\ messages' \in Seq(Messages)
      /\ prompts \in Seq(HostMessages) /\ pendingMessages \in Seq(HostMessages)
      /\ prompts' \in Seq(HostMessages) /\ pendingMessages' \in Seq(HostMessages)
  BY DEF ListTypes
<1>s. \A p \in Seq(HostMessages) : p \in Seq(Messages)
  BY MessageKinds, SeqOfSubset
<1>a. \A p \in Seq(HostMessages) : p # <<>> => Append(messages, Head(p)) \o Tail(p) = messages \o p
  BY <1>t, <1>s, AppendHead
<1>1. CASE /\ pendingMessages = <<>> /\ UNCHANGED pendingMessages
           /\ prompts # <<>> /\ prompts' = Tail(prompts) /\ messages' = Append(messages, Head(prompts))
           /\ pc \notin {"fail", "injected"} /\ pc' \notin {"fail", "injected"}
  <2>1. Line = messages \o prompts
    <3>1. Line = LineOf(messages, prompts, <<>>, <<>>, pc)
      BY <1>1 DEF Line
    <3>2. pc \notin {"fail", "injected"}
      BY <1>1
    <3> QED
      BY ONLY <1>t, <3>1, <3>2, LineForms
  <2>2. Line' = messages' \o prompts'
    <3>1. Line' = LineOf(messages', prompts', <<>>, <<>>, pc')
      BY <1>1 DEF Line
    <3>2. pc' \notin {"fail", "injected"}
      BY <1>1
    <3> QED
      BY ONLY <1>t, <3>1, <3>2, LineForms
  <2> QED
    BY <1>a, <1>t, <1>1, <2>1, <2>2
<1>2. CASE /\ prompts = <<>> /\ UNCHANGED <<prompts, pendingMessages>> /\ pendingMessages # <<>>
           /\ messages' = Append(messages, Head(pendingMessages))
           /\ pc \notin {"fail", "injected"} /\ pc' = "injected"
  <2>1. Line = messages \o pendingMessages
    <3>1. Line = LineOf(messages, <<>>, pendingMessages, <<>>, pc)
      BY <1>2 DEF Line
    <3>2. pc \notin {"fail", "injected"}
      BY <1>2
    <3> QED
      BY ONLY <1>t, <3>1, <3>2, LineForms
  <2>2. Line' = messages' \o Tail(pendingMessages)
    <3>1. Line' = LineOf(messages', <<>>, pendingMessages, <<>>, "injected")
      BY <1>2 DEF Line
    <3>2. pendingMessages # <<>>
      BY <1>2
    <3> QED
      BY ONLY <1>t, <3>1, <3>2, LineForms
  <2> QED
    BY <1>a, <1>t, <1>2, <2>1, <2>2
<1>3. CASE /\ prompts = <<>> /\ UNCHANGED <<prompts, messages>> /\ pendingMessages # <<>>
           /\ pendingMessages' = Tail(pendingMessages)
           /\ pc = "injected" /\ pc' \notin {"fail", "injected"}
  <2>1. Line = messages \o Tail(pendingMessages)
    <3>1. Line = LineOf(messages, <<>>, pendingMessages, <<>>, "injected")
      BY <1>3 DEF Line
    <3>2. pendingMessages # <<>>
      BY <1>3
    <3> QED
      BY ONLY <1>t, <3>1, <3>2, LineForms
  <2>2. Line' = messages \o pendingMessages'
    <3>1. Line' = LineOf(messages, <<>>, pendingMessages', <<>>, pc')
      BY <1>3 DEF Line
    <3>2. pc' \notin {"fail", "injected"}
      BY <1>3
    <3> QED
      BY ONLY <1>t, <3>1, <3>2, LineForms
  <2> QED
    BY <1>3, <2>1, <2>2
<1> QED
  BY <1>1, <1>2, <1>3

\* What was polled is injected: it stays in the line, or a failing run drops it.
LEMMA TurnKeepsLine ==
  ASSUME ListTypes, ListTypes', StartTurn(polled), prompts = <<>>, pendingMessages = <<>>,
         pc \notin {"fail", "injected"}, UNCHANGED messages
  PROVE  Line' = Line \/ Line' = messages
<1>1. /\ prompts' = <<>> /\ pendingMessages' = polled /\ polled' = <<>>
      /\ pc' \in {"fail", "inject"}
  BY DEF StartTurn, Goto, Await, Emit
<1>2. CASE pc' = "fail"
  BY <1>2, LineShapes
<1>3. CASE pc' = "inject"
  <2>1. messages \in Seq(Messages) /\ polled \in Seq(HostMessages)
    BY DEF ListTypes
  <2>2. Line = messages \o polled
    BY <2>1, LineForms DEF Line
  <2>3. Line' = messages \o polled
    BY <1>1, <1>3, <2>1, LineForms DEF Line
  <2> QED
    BY <2>2, <2>3
<1> QED
  BY <1>1, <1>2, <1>3

\* Every step keeps the order: drains and new batches extend the line, the emitted and
\* injected messages move within it, failures, aborts and reset cut it.
LEMMA StepOrder ==
  ASSUME DisjointBatches, ListInv, DataInv', BatchesQueued, BatchesQueued', ListsByLabel,
       ListsByLabel',
         OrderInv, [Next]_vars
  PROVE  OrderInv'
<1>t. ListTypes /\ ListTypes'
  BY TypesOfLists DEF ListInv
<1>a. /\ activeRun = 0 <=> pc = "idle"
      /\ turn \in Nat /\ WaitMatchesLabel
      /\ pc \in {"replyEnd", "turn"} => reply \in ReplySet
      /\ pc \in {"resultEnd", "resulted"} => Call \in CallIds
      /\ pc = "failEnd" => reply \in ReplySet
  BY BoundsAssumption, CallInBatch
  DEF ListInv, DataInv, LabelsOK, IInv, RunShape, TypeOK, BatchOK, BatchShape, BatchLabels, ReplySet
<1>l. /\ prompts # <<>> => pc \in {"begin", "prompts", "promptEnd", "fail"}
      /\ pendingMessages # <<>> => pc \in {"inject", "injectEnd", "injected", "fail"}
      /\ polled # <<>> => pc \in {"start", "polledSteering", "polledFollowUp", "continued", "fail"}
      /\ wait = "getContinuationMessages" => polled = <<>>
      /\ pc = "promptEnd" => prompts # <<>>
      /\ pc \in {"injectEnd", "injected"} => pendingMessages # <<>>
  BY <1>t DEF ListsByLabel, Prompting, ListTypes
<1>q. QueueOf["steer"] = steeringQueue /\ QueueOf["followUp"] = followUpQueue
      /\ QueueOf'["steer"] = steeringQueue' /\ QueueOf'["followUp"] = followUpQueue'
      /\ \A op \in QueueOps : op = "steer" \/ op = "followUp"
  BY DEF QueueOf, QueueOps
<1>o. QueueOps = {"steer", "followUp"}
  BY DEF QueueOps
<1> USE DEF agentState, queues, runVars, control, locals, batchVars, history, Emit, Await, Goto, At
<1>1. ASSUME NEW b \in Batches, Prompt(b) PROVE OrderInv'
  <2> USE <1>1 DEF Prompt, StartRun
  <2>1. /\ UNCHANGED <<gone, steeringQueue, followUpQueue>> /\ b \in Unsent
        /\ sent' = Append(sent, <<"prompt", b>>)
    OBVIOUS
  <2>2. /\ prompts = <<>> /\ pendingMessages = <<>> /\ polled = <<>> /\ pc # "injected"
        /\ prompts' = AsMessages(b) /\ pendingMessages' = <<>> /\ polled' = <<>> /\ pc' = "begin"
        /\ messages' = messages
    BY <1>a, <1>l
  <2>3. Line = messages /\ Line' = messages \o AsMessages(b)
    BY ONLY <1>t, <2>2, LineShapes
  <2>4. "prompt" \in {"prompt", "continuation"}
    OBVIOUS
  <2> QED
    BY ONLY <2>1, <2>3, <2>4, BatchesQueued, BatchesQueued', OrderInv, <1>t, DisjointBatches,
         OrderSends
<1>2. ASSUME Continue PROVE OrderInv'
  <2> USE <1>2 DEF Continue
  <2>1. /\ UNCHANGED <<sent, gone, messages>>
        /\ prompts = <<>> /\ pendingMessages = <<>> /\ polled = <<>> /\ pc # "injected"
        /\ pendingMessages' = <<>> /\ polled' = <<>> /\ pc' = "begin"
    BY <1>a, <1>l DEF StartRun
  <2>2. Line = messages /\ Line' = messages \o prompts'
    BY ONLY <1>t, <2>1, LineShapes
  <2>3. \/ /\ prompts' = AsMessages(Drained(steeringQueue, mode.steering))
           /\ steeringQueue' = Rest(steeringQueue, mode.steering) /\ UNCHANGED followUpQueue
        \/ /\ prompts' = AsMessages(Drained(followUpQueue, mode.followUp))
           /\ followUpQueue' = Rest(followUpQueue, mode.followUp) /\ UNCHANGED steeringQueue
        \/ prompts' = <<>> /\ UNCHANGED <<steeringQueue, followUpQueue>>
    BY DEF StartRun
  <2>4. CASE /\ prompts' = AsMessages(Drained(steeringQueue, mode.steering))
             /\ steeringQueue' = Rest(steeringQueue, mode.steering) /\ UNCHANGED followUpQueue
    <3>1. With(QueueOf, "steer", Rest(QueueOf["steer"], mode.steering), QueueOf')
      BY ONLY <2>4, <1>q DEF With
    <3>2. "steer" \in QueueOps /\ Line' = messages \o AsMessages(Drained(QueueOf["steer"], mode.steering))
      BY ONLY <1>o, <1>q, <2>2, <2>4
    <3> QED
      BY ONLY <2>1, <2>2, <3>1, <3>2, BatchesQueued, BatchesQueued', OrderInv, <1>t,
           DisjointBatches, OrderDrains
  <2>5. CASE /\ prompts' = AsMessages(Drained(followUpQueue, mode.followUp))
             /\ followUpQueue' = Rest(followUpQueue, mode.followUp) /\ UNCHANGED steeringQueue
    <3>1. With(QueueOf, "followUp", Rest(QueueOf["followUp"], mode.followUp), QueueOf')
      BY ONLY <2>5, <1>q DEF With
    <3>2. "followUp" \in QueueOps /\ Line' = messages \o AsMessages(Drained(QueueOf["followUp"], mode.followUp))
      BY ONLY <1>o, <1>q, <2>2, <2>5
    <3> QED
      BY ONLY <2>1, <2>2, <3>1, <3>2, BatchesQueued, BatchesQueued', OrderInv, <1>t,
           DisjointBatches, OrderDrains
  <2>6. CASE prompts' = <<>> /\ UNCHANGED <<steeringQueue, followUpQueue>>
    <3>1. UNCHANGED orderedVars
      BY <2>1, <2>6 DEF orderedVars
    <3>2. Line' = messages
      BY ONLY <1>t, <2>1, <2>6, LineShapes
    <3> QED
      BY ONLY <3>1, <3>2, BatchesQueued, BatchesQueued', OrderInv, <1>t, DisjointBatches, OrderFrame
  <2> QED
    BY ONLY <2>3, <2>4, <2>5, <2>6
<1>3. ASSUME NEW b \in Batches, Steer(b) PROVE OrderInv'
  <2> USE <1>3 DEF Steer, Host
  <2>1. /\ UNCHANGED <<gone, followUpQueue>> /\ b \in Unsent /\ sent' = Append(sent, <<"steer", b>>)
        /\ steeringQueue' = Append(steeringQueue, b)
    OBVIOUS
  <2>2. Line' = Line
    <3>1. UNCHANGED <<messages, prompts, pendingMessages, polled, pc>>
      OBVIOUS
    <3> QED
      BY ONLY <3>1 DEF Line
  <2>3. With(QueueOf, "steer", Append(QueueOf["steer"], b), QueueOf') /\ "steer" \in QueueOps
    BY ONLY <2>1, <1>q, <1>o DEF With
  <2> QED
    BY ONLY <2>1, <2>2, <2>3, BatchesQueued, BatchesQueued', OrderInv, <1>t, DisjointBatches,
         OrderQueues
<1>4. ASSUME NEW b \in Batches, FollowUp(b) PROVE OrderInv'
  <2> USE <1>4 DEF FollowUp, Host
  <2>1. /\ UNCHANGED <<gone, steeringQueue>> /\ b \in Unsent /\ sent' = Append(sent, <<"followUp", b>>)
        /\ followUpQueue' = Append(followUpQueue, b)
    OBVIOUS
  <2>2. Line' = Line
    <3>1. UNCHANGED <<messages, prompts, pendingMessages, polled, pc>>
      OBVIOUS
    <3> QED
      BY ONLY <3>1 DEF Line
  <2>3. With(QueueOf, "followUp", Append(QueueOf["followUp"], b), QueueOf') /\ "followUp" \in QueueOps
    BY ONLY <2>1, <1>q, <1>o DEF With
  <2> QED
    BY ONLY <2>1, <2>2, <2>3, BatchesQueued, BatchesQueued', OrderInv, <1>t, DisjointBatches,
         OrderQueues
<1>5. ASSUME ClearQueues PROVE OrderInv'
  <2> USE <1>5 DEF ClearQueues, Host
  <2>1. UNCHANGED sent /\ gone \subseteq gone'
    OBVIOUS
  <2>2. Line' = Line
    <3>1. UNCHANGED <<messages, prompts, pendingMessages, polled, pc>>
      OBVIOUS
    <3> QED
      BY ONLY <3>1 DEF Line
  <2>3. steeringQueue \in Seq(Batches) /\ followUpQueue \in Seq(Batches)
    BY DEF BatchesQueued
  <2>4. \A op \in QueueOps : Sub(QueueOf'[op], QueueOf[op])
    <3>1. Sub(steeringQueue', steeringQueue) /\ Sub(followUpQueue', followUpQueue)
      BY <2>3, SubQueues
    <3> QED
      BY ONLY <3>1, <1>q
  <2> QED
    BY ONLY <2>1, <2>2, <2>4, BatchesQueued, BatchesQueued', OrderInv, <1>t, DisjointBatches,
         OrderRemoves
<1>6. ASSUME NEW m, RemoveQueuedMessages(m) PROVE OrderInv'
  <2> USE <1>6 DEF RemoveQueuedMessages, Host
  <2>1. UNCHANGED sent /\ gone \subseteq gone'
    OBVIOUS
  <2>2. Line' = Line
    <3>1. UNCHANGED <<messages, prompts, pendingMessages, polled, pc>>
      OBVIOUS
    <3> QED
      BY ONLY <3>1 DEF Line
  <2>3. steeringQueue \in Seq(Batches) /\ followUpQueue \in Seq(Batches)
    BY DEF BatchesQueued
  <2>4. \A op \in QueueOps : Sub(QueueOf'[op], QueueOf[op])
    <3>1. Sub(steeringQueue', steeringQueue) /\ Sub(followUpQueue', followUpQueue)
      BY <2>3, WithoutIsSub
    <3> QED
      BY ONLY <3>1, <1>q
  <2> QED
    BY ONLY <2>1, <2>2, <2>4, BatchesQueued, BatchesQueued', OrderInv, <1>t, DisjointBatches,
         OrderRemoves
<1>7. ASSUME NEW q \in {"steering", "followUp"}, NEW m \in QueueModes, SetMode(q, m) PROVE OrderInv'
  <2> USE <1>7 DEF SetMode, Host
  <2>1. UNCHANGED orderedVars /\ UNCHANGED listVars
    BY DEF orderedVars, listVars
  <2>2. \/ pc' \in {pc, "fail"}
        \/ pc \notin {"fail", "injected"} /\ pc' \notin {"fail", "injected"}
    BY <1>a DEF WaitMatchesLabel, EventTypes
  <2> QED
    BY ONLY <1>t, <2>1, <2>2, BatchesQueued, BatchesQueued', OrderInv, OrderStays
<1>8. ASSUME Abort PROVE OrderInv'
  <2> USE <1>8 DEF Abort, Host
  <2>1. UNCHANGED orderedVars /\ UNCHANGED listVars
    BY DEF orderedVars, listVars
  <2>2. \/ pc' \in {pc, "fail"}
        \/ pc \notin {"fail", "injected"} /\ pc' \notin {"fail", "injected"}
    BY <1>a DEF WaitMatchesLabel, EventTypes
  <2> QED
    BY ONLY <1>t, <2>1, <2>2, BatchesQueued, BatchesQueued', OrderInv, OrderStays
<1>9. ASSUME Reset PROVE OrderInv'
  <2> USE <1>9 DEF Reset, Host
  <2>1. /\ UNCHANGED <<sent, prompts, pendingMessages, polled, pc>>
        /\ messages' = <<>> /\ steeringQueue' = <<>> /\ followUpQueue' = <<>>
    OBVIOUS
  <2>2. gone' = gone \cup InQueue(steeringQueue) \cup InQueue(followUpQueue) \cup Said(messages)
    BY DEF Said
  <2>3. PICK h : h = gone'
    OBVIOUS
  <2>4. gone \subseteq h /\ Said(messages) \subseteq h
    BY ONLY <2>2, <2>3
  <2>5. Line \in Seq(Messages) /\ Line' \in Seq(Messages) /\ QueueOf \in Queues /\ QueueOf' \in Queues
        /\ sent \in SentSeqs /\ messages \in Seq(Messages)
    BY <1>t, OrderTypes DEF ListTypes
  <2>6. PICK n \in Seq(Messages), R \in Queues : n = Line' /\ R = QueueOf'
    BY <2>5
  <2>7. Line = messages \o n
    <3>1. PICK t \in Seq(Messages) : /\ LineOf(messages, prompts, pendingMessages, polled, pc) = messages \o t
                                     /\ LineOf(<<>>, prompts, pendingMessages, polled, pc) = t
                                     /\ messages \o t \in Seq(Messages)
      BY ONLY <1>t, LineTail DEF ListTypes
    <3>2. Line' = t
      BY ONLY <2>1, <3>1 DEF Line
    <3> QED
      BY ONLY <2>6, <3>1, <3>2 DEF Line
  <2>8. Len(messages) \in Nat /\ Window(n, messages \o n, Len(messages))
    <3>1. \A p \in 1..Len(n) : p + Len(messages) \in DOMAIN (messages \o n)
                               /\ (messages \o n)[p + Len(messages)] = n[p]
      BY <2>5
    <3>2. DOMAIN n = 1..Len(n) /\ Len(messages) \in Nat
      BY <2>5
    <3> QED
      BY ONLY <3>1, <3>2 DEF Window
  <2>9. ASSUME NEW x \in HostIds, Len(messages) > 0, Line[Len(messages)] = HostMessage(x)
        PROVE  x \in h
    <3>1. Len(messages) \in DOMAIN messages /\ Line[Len(messages)] = messages[Len(messages)]
      BY <2>5, <2>7, <2>9
    <3>2. HostMessage(x).role \in {"user", "custom"} /\ HostMessage(x).id = x
      BY BatchesAssumption DEF HostMessage, HostIds
    <3>3. x \in Said(messages)
      BY ONLY <2>9, <3>1, <3>2 DEF Said
    <3> QED
      BY ONLY <2>4, <3>3
  <2>10. \A op \in QueueOps : Sub(R[op], QueueOf[op])
    <3>1. R["steer"] = <<>> /\ R["followUp"] = <<>>
      BY ONLY <2>1, <2>6, <1>q
    <3>2. \A op \in QueueOps : Sub(<<>>, QueueOf[op])
      BY <2>5, SubQueues DEF Queues
    <3> QED
      BY ONLY <1>q, <3>1, <3>2
  <2>11. OrderAt(n, R, sent, h)
    BY ONLY <2>4, <2>5, <2>7, <2>8, <2>9, <2>10, OrderInv, LineNarrows DEF OrderInv
  <2> QED
    BY ONLY <2>1, <2>3, <2>6, <2>11 DEF OrderInv
<1>10. ASSUME ListenersSettle PROVE OrderInv'
  <2> USE <1>10 DEF ListenersSettle
  <2>1. UNCHANGED orderedVars /\ UNCHANGED listVars
    BY DEF orderedVars, listVars
  <2>2. \/ pc' \in {pc, "fail"}
        \/ pc \notin {"fail", "injected"} /\ pc' \notin {"fail", "injected"}
    BY <1>a DEF WaitMatchesLabel, EventTypes
  <2> QED
    BY ONLY <1>t, <2>1, <2>2, BatchesQueued, BatchesQueued', OrderInv, OrderStays
<1>11. ASSUME FinishRun PROVE OrderInv'
  <2> USE <1>11 DEF FinishRun
  <2>1. UNCHANGED orderedVars /\ UNCHANGED listVars
    BY DEF orderedVars, listVars
  <2>2. \/ pc' \in {pc, "fail"}
        \/ pc \notin {"fail", "injected"} /\ pc' \notin {"fail", "injected"}
    BY <1>a DEF WaitMatchesLabel, EventTypes
  <2> QED
    BY ONLY <1>t, <2>1, <2>2, BatchesQueued, BatchesQueued', OrderInv, OrderStays
<1>12. ASSUME Fail PROVE OrderInv'
  <2> USE <1>12 DEF Fail, Assistant, Aborted
  <2>1. /\ prompts' = <<>> /\ pendingMessages' = <<>> /\ polled' = <<>>
        /\ pc = "fail" /\ pc' = "failEnd" /\ UNCHANGED <<messages, steeringQueue, followUpQueue, sent, gone>>
    OBVIOUS
  <2>2. Line' = messages
    BY ONLY <1>t, <2>1, LineShapes
  <2>3. UNCHANGED orderedVars
    BY ONLY <2>1 DEF orderedVars
  <2> QED
    BY ONLY <2>2, <2>3, BatchesQueued, BatchesQueued', OrderInv, <1>t, DisjointBatches, OrderFrame
<1>13. ASSUME FailEnd PROVE OrderInv'
  <2> USE <1>13 DEF FailEnd, EmitMessageEnd, EmitAgentEnd
  <2>1. UNCHANGED orderedVars /\ UNCHANGED <<prompts, pendingMessages, polled>>
    BY DEF orderedVars
  <2>2. prompts = <<>> /\ pendingMessages = <<>> /\ polled = <<>> /\ pc # "injected" /\ pc' # "injected"
    BY <1>a, <1>l DEF WaitMatchesLabel
  <2>3. \/ messages' = messages
        \/ \E y \in ReplySet \cup ResultMessages : messages' = Append(messages, y)
    BY <1>a
  <2> QED
    BY ONLY <2>1, <2>2, <2>3, BatchesQueued, OrderInv, <1>t, OrderJoins
<1>14. ASSUME Begin PROVE OrderInv'
  <2> USE <1>14 DEF Begin
  <2>1. UNCHANGED orderedVars /\ UNCHANGED listVars
    BY DEF orderedVars, listVars
  <2>2. \/ pc' \in {pc, "fail"}
        \/ pc \notin {"fail", "injected"} /\ pc' \notin {"fail", "injected"}
    BY <1>a DEF WaitMatchesLabel, EventTypes
  <2> QED
    BY ONLY <1>t, <2>1, <2>2, BatchesQueued, BatchesQueued', OrderInv, OrderStays
<1>15. ASSUME EmitPrompts PROVE OrderInv'
  <2> USE <1>15 DEF EmitPrompts, EmitShown, EmitMessageEnd
  <2>1. UNCHANGED orderedVars
    BY DEF orderedVars
  <2>2. CASE At("promptEnd")
    <3>1. /\ pendingMessages = <<>> /\ polled = <<>> /\ UNCHANGED <<pendingMessages, polled>>
          /\ prompts # <<>> /\ prompts' = Tail(prompts) /\ messages' = Append(messages, Head(prompts))
          /\ pc \notin {"fail", "injected"} /\ pc' \notin {"fail", "injected"}
      BY <1>l, <2>2
    <3>2. Line' = Line
      BY ONLY <1>t, <3>1, HeadJoins
    <3> QED
      BY ONLY <2>1, <3>2, BatchesQueued, BatchesQueued', OrderInv, <1>t, DisjointBatches, OrderFrame
  <2>3. CASE ~At("promptEnd")
    <3>1. UNCHANGED listVars /\ pc \notin {"fail", "injected"} /\ pc' \notin {"fail", "injected"}
      BY <2>3 DEF listVars
    <3> QED
      BY ONLY <1>t, <2>1, <3>1, BatchesQueued, BatchesQueued', OrderInv, OrderStays
  <2> QED
    BY <2>2, <2>3
<1>16. ASSUME PollSteering PROVE OrderInv'
  <2> USE <1>16 DEF PollSteering, Polling
  <2>1. /\ UNCHANGED <<sent, gone, messages, prompts, pendingMessages, followUpQueue>>
        /\ prompts = <<>> /\ pendingMessages = <<>> /\ polled = <<>> /\ pc # "injected"
        /\ pc' \in {"start", "polledSteering"}
        /\ \/ polled' = <<>> /\ UNCHANGED steeringQueue
           \/ /\ polled' = AsMessages(Drained(steeringQueue, mode.steering))
              /\ steeringQueue' = Rest(steeringQueue, mode.steering)
    BY <1>a, <1>l
  <2>2. Line = messages /\ Line' = messages \o polled'
    BY ONLY <1>t, <2>1, LineShapes
  <2>3. CASE polled' = <<>> /\ UNCHANGED steeringQueue
    <3>1. UNCHANGED orderedVars
      BY ONLY <2>1, <2>3 DEF orderedVars
    <3>2. Line' = messages
      BY ONLY <1>t, <2>1, <2>3, LineShapes
    <3> QED
      BY ONLY <3>1, <3>2, BatchesQueued, BatchesQueued', OrderInv, <1>t, DisjointBatches, OrderFrame
  <2>4. CASE /\ polled' = AsMessages(Drained(steeringQueue, mode.steering))
             /\ steeringQueue' = Rest(steeringQueue, mode.steering)
    <3>1. With(QueueOf, "steer", Rest(QueueOf["steer"], mode.steering), QueueOf')
      BY ONLY <2>1, <2>4, <1>q DEF With
    <3>2. "steer" \in QueueOps /\ Line' = messages \o AsMessages(Drained(QueueOf["steer"], mode.steering))
      BY ONLY <1>o, <1>q, <2>2, <2>4
    <3> QED
      BY ONLY <2>1, <2>2, <3>1, <3>2, BatchesQueued, BatchesQueued', OrderInv, <1>t,
           DisjointBatches, OrderDrains
  <2> QED
    BY ONLY <2>1, <2>3, <2>4
<1>17. ASSUME PollFollowUp PROVE OrderInv'
  <2> USE <1>17 DEF PollFollowUp, Polling
  <2>1. /\ UNCHANGED <<sent, gone, messages, prompts, pendingMessages, steeringQueue>>
        /\ prompts = <<>> /\ pendingMessages = <<>> /\ polled = <<>> /\ pc # "injected"
        /\ pc' \in {"polledFollowUp"}
        /\ \/ polled' = <<>> /\ UNCHANGED followUpQueue
           \/ /\ polled' = AsMessages(Drained(followUpQueue, mode.followUp))
              /\ followUpQueue' = Rest(followUpQueue, mode.followUp)
    BY <1>a, <1>l
  <2>2. Line = messages /\ Line' = messages \o polled'
    BY ONLY <1>t, <2>1, LineShapes
  <2>3. CASE polled' = <<>> /\ UNCHANGED followUpQueue
    <3>1. UNCHANGED orderedVars
      BY ONLY <2>1, <2>3 DEF orderedVars
    <3>2. Line' = messages
      BY ONLY <1>t, <2>1, <2>3, LineShapes
    <3> QED
      BY ONLY <3>1, <3>2, BatchesQueued, BatchesQueued', OrderInv, <1>t, DisjointBatches, OrderFrame
  <2>4. CASE /\ polled' = AsMessages(Drained(followUpQueue, mode.followUp))
             /\ followUpQueue' = Rest(followUpQueue, mode.followUp)
    <3>1. With(QueueOf, "followUp", Rest(QueueOf["followUp"], mode.followUp), QueueOf')
      BY ONLY <2>1, <2>4, <1>q DEF With
    <3>2. "followUp" \in QueueOps /\ Line' = messages \o AsMessages(Drained(QueueOf["followUp"], mode.followUp))
      BY ONLY <1>o, <1>q, <2>2, <2>4
    <3> QED
      BY ONLY <2>1, <2>2, <3>1, <3>2, BatchesQueued, BatchesQueued', OrderInv, <1>t,
           DisjointBatches, OrderDrains
  <2> QED
    BY ONLY <2>1, <2>3, <2>4
<1>18. ASSUME RaceAborted PROVE OrderInv'
  <2> USE <1>18 DEF RaceAborted, Polling
  <2>1. /\ prompts = <<>> /\ pendingMessages = <<>> /\ polled' = <<>> /\ pc' # "injected"
        /\ UNCHANGED <<messages, prompts, pendingMessages, steeringQueue, followUpQueue, sent, gone>>
    BY <1>a, <1>l DEF WaitMatchesLabel
  <2>2. Line' = messages
    BY ONLY <1>t, <2>1, LineShapes
  <2>3. UNCHANGED orderedVars
    BY ONLY <2>1 DEF orderedVars
  <2> QED
    BY ONLY <2>2, <2>3, BatchesQueued, BatchesQueued', OrderInv, <1>t, DisjointBatches, OrderFrame
<1>19. ASSUME PollSettles PROVE OrderInv'
  <2> USE <1>19 DEF PollSettles
  <2>1. UNCHANGED orderedVars /\ UNCHANGED listVars
    BY DEF orderedVars, listVars
  <2>2. \/ pc' \in {pc, "fail"}
        \/ pc \notin {"fail", "injected"} /\ pc' \notin {"fail", "injected"}
    BY <1>a DEF WaitMatchesLabel, EventTypes
  <2> QED
    BY ONLY <1>t, <2>1, <2>2, BatchesQueued, BatchesQueued', OrderInv, OrderStays
<1>20. ASSUME FirstTurn PROVE OrderInv'
  <2> USE <1>20 DEF FirstTurn
  <2>1. UNCHANGED orderedVars /\ UNCHANGED messages /\ pc \notin {"fail", "injected"}
        /\ prompts = <<>> /\ pendingMessages = <<>>
    BY <1>l DEF orderedVars
  <2>2. CASE StartTurn(polled)
    <3>1. Line' = Line \/ Line' = messages
      BY ONLY <1>t, <2>1, <2>2, TurnKeepsLine
    <3> QED
      BY ONLY <2>1, <3>1, BatchesQueued, BatchesQueued', OrderInv, <1>t, DisjointBatches, OrderFrame
  <2> QED
    BY <2>2
<1>21. ASSUME Inject PROVE OrderInv'
  <2> USE <1>21 DEF Inject, EmitShown, EmitMessageEnd
  <2>1. UNCHANGED orderedVars
    BY DEF orderedVars
  <2>2. CASE pc \in {"injectEnd", "injected"}
    <3>1. /\ polled = <<>> /\ prompts = <<>> /\ UNCHANGED <<prompts, polled>> /\ pendingMessages # <<>>
          /\ \/ /\ UNCHANGED pendingMessages /\ messages' = Append(messages, Head(pendingMessages))
                /\ pc \notin {"fail", "injected"} /\ pc' = "injected"
             \/ /\ UNCHANGED messages /\ pendingMessages' = Tail(pendingMessages)
                /\ pc = "injected" /\ pc' \notin {"fail", "injected"}
      BY <1>l, <2>2
    <3>2. Line' = Line
      BY ONLY <1>t, <3>1, HeadJoins
    <3> QED
      BY ONLY <2>1, <3>2, BatchesQueued, BatchesQueued', OrderInv, <1>t, DisjointBatches, OrderFrame
  <2>3. CASE pc \notin {"injectEnd", "injected"}
    <3>1. UNCHANGED listVars /\ pc \notin {"fail", "injected"} /\ pc' \notin {"fail", "injected"}
      BY <2>3 DEF listVars
    <3> QED
      BY ONLY <1>t, <2>1, <3>1, BatchesQueued, BatchesQueued', OrderInv, OrderStays
  <2> QED
    BY <2>2, <2>3
<1>22. ASSUME Request PROVE OrderInv'
  <2> USE <1>22 DEF Request, Respond, Streaming, Asking, EmitShown, EmitMessageEnd, Assistant
  <2>1. UNCHANGED orderedVars /\ UNCHANGED <<prompts, pendingMessages, polled>>
    BY DEF orderedVars
  <2>2. prompts = <<>> /\ pendingMessages = <<>> /\ polled = <<>> /\ pc # "injected" /\ pc' # "injected"
    BY <1>a, <1>l DEF WaitMatchesLabel
  <2>3. \/ messages' = messages
        \/ \E y \in ReplySet \cup ResultMessages : messages' = Append(messages, y)
    <3>1. \/ messages' = messages
          \/ messages' = Append(messages, [role |-> "assistant", id |-> 0, calls |-> 0, stopReason |-> "aborted"])
      OBVIOUS
    <3>2. [role |-> "assistant", id |-> 0, calls |-> 0, stopReason |-> "aborted"] \in ReplySet
      BY BoundsAssumption DEF ReplySet, ResponseMessages, Assistant
    <3> QED
      BY ONLY <3>1, <3>2
  <2> QED
    BY ONLY <2>1, <2>2, <2>3, BatchesQueued, OrderInv, <1>t, OrderJoins
<1>23. ASSUME NextEvent PROVE OrderInv'
  <2> USE <1>23 DEF NextEvent
  <2>1. UNCHANGED orderedVars /\ UNCHANGED listVars
    BY DEF orderedVars, listVars
  <2>2. \/ pc' \in {pc, "fail"}
        \/ pc \notin {"fail", "injected"} /\ pc' \notin {"fail", "injected"}
    BY <1>a DEF WaitMatchesLabel, EventTypes
  <2> QED
    BY ONLY <1>t, <2>1, <2>2, BatchesQueued, BatchesQueued', OrderInv, OrderStays
<1>24. ASSUME ProviderAborted PROVE OrderInv'
  <2> USE <1>24 DEF ProviderAborted, Respond, Streaming, Asking, EmitShown, EmitMessageEnd, Assistant
  <2>1. UNCHANGED orderedVars /\ UNCHANGED <<prompts, pendingMessages, polled>>
    BY DEF orderedVars
  <2>2. prompts = <<>> /\ pendingMessages = <<>> /\ polled = <<>> /\ pc # "injected" /\ pc' # "injected"
    BY <1>a, <1>l DEF WaitMatchesLabel
  <2>3. \/ messages' = messages
        \/ \E y \in ReplySet \cup ResultMessages : messages' = Append(messages, y)
    <3>1. \/ messages' = messages
          \/ messages' = Append(messages, [role |-> "assistant", id |-> 0, calls |-> 0, stopReason |-> "aborted"])
      OBVIOUS
    <3>2. [role |-> "assistant", id |-> 0, calls |-> 0, stopReason |-> "aborted"] \in ReplySet
      BY BoundsAssumption DEF ReplySet, ResponseMessages, Assistant
    <3> QED
      BY ONLY <3>1, <3>2
  <2> QED
    BY ONLY <2>1, <2>2, <2>3, BatchesQueued, OrderInv, <1>t, OrderJoins
<1>24a. ASSUME ListenersAbort PROVE OrderInv'
  <2> USE <1>24a DEF ListenersAbort, Respond, Streaming, Asking, EmitShown, EmitMessageEnd, Assistant
  <2>1. UNCHANGED orderedVars /\ UNCHANGED <<prompts, pendingMessages, polled>>
    BY DEF orderedVars
  <2>2. prompts = <<>> /\ pendingMessages = <<>> /\ polled = <<>> /\ pc # "injected" /\ pc' # "injected"
    BY <1>a, <1>l DEF WaitMatchesLabel
  <2>3. \/ messages' = messages
        \/ \E y \in ReplySet \cup ResultMessages : messages' = Append(messages, y)
    <3>1. \/ messages' = messages
          \/ messages' = Append(messages, [role |-> "assistant", id |-> 0, calls |-> 0, stopReason |-> "aborted"])
      OBVIOUS
    <3>2. [role |-> "assistant", id |-> 0, calls |-> 0, stopReason |-> "aborted"] \in ReplySet
      BY BoundsAssumption DEF ReplySet, ResponseMessages, Assistant
    <3> QED
      BY ONLY <3>1, <3>2
  <2> QED
    BY ONLY <2>1, <2>2, <2>3, BatchesQueued, OrderInv, <1>t, OrderJoins
<1>25. ASSUME ReplyEnd PROVE OrderInv'
  <2> USE <1>25 DEF ReplyEnd, EmitMessageEnd
  <2>1. UNCHANGED orderedVars /\ UNCHANGED <<prompts, pendingMessages, polled>>
    BY DEF orderedVars
  <2>2. prompts = <<>> /\ pendingMessages = <<>> /\ polled = <<>> /\ pc # "injected" /\ pc' # "injected"
    BY <1>a, <1>l DEF WaitMatchesLabel
  <2>3. \/ messages' = messages
        \/ \E y \in ReplySet \cup ResultMessages : messages' = Append(messages, y)
    BY <1>a
  <2> QED
    BY ONLY <2>1, <2>2, <2>3, BatchesQueued, OrderInv, <1>t, OrderJoins
<1>26. ASSUME Turn PROVE OrderInv'
  <2> USE <1>26 DEF Turn, EmitTurnEnd
  <2>1. UNCHANGED orderedVars /\ UNCHANGED listVars
    BY DEF orderedVars, listVars
  <2>2. \/ pc' \in {pc, "fail"}
        \/ pc \notin {"fail", "injected"} /\ pc' \notin {"fail", "injected"}
    BY <1>a DEF WaitMatchesLabel, EventTypes
  <2> QED
    BY ONLY <1>t, <2>1, <2>2, BatchesQueued, BatchesQueued', OrderInv, OrderStays
<1>27. ASSUME Announce PROVE OrderInv'
  <2> USE <1>27 DEF Announce, Batch, Call
  <2>1. UNCHANGED orderedVars /\ UNCHANGED listVars
    BY DEF orderedVars, listVars
  <2>2. \/ pc' \in {pc, "fail"}
        \/ pc \notin {"fail", "injected"} /\ pc' \notin {"fail", "injected"}
    BY <1>a DEF WaitMatchesLabel, EventTypes
  <2> QED
    BY ONLY <1>t, <2>1, <2>2, BatchesQueued, BatchesQueued', OrderInv, OrderStays
<1>28. ASSUME PrepareToolCall PROVE OrderInv'
  <2> USE <1>28 DEF PrepareToolCall, Batch, Allow, AnswerAtOnce, Call
  <2>1. UNCHANGED orderedVars /\ UNCHANGED listVars
    BY DEF orderedVars, listVars
  <2>2. \/ pc' \in {pc, "fail"}
        \/ pc \notin {"fail", "injected"} /\ pc' \notin {"fail", "injected"}
    BY <1>a DEF WaitMatchesLabel, EventTypes
  <2> QED
    BY ONLY <1>t, <2>1, <2>2, BatchesQueued, BatchesQueued', OrderInv, OrderStays
<1>29. ASSUME BeforeToolCallAborted PROVE OrderInv'
  <2> USE <1>29 DEF BeforeToolCallAborted, Batch, AnswerAtOnce, Call
  <2>1. UNCHANGED orderedVars /\ UNCHANGED listVars
    BY DEF orderedVars, listVars
  <2>2. \/ pc' \in {pc, "fail"}
        \/ pc \notin {"fail", "injected"} /\ pc' \notin {"fail", "injected"}
    BY <1>a DEF WaitMatchesLabel, EventTypes
  <2> QED
    BY ONLY <1>t, <2>1, <2>2, BatchesQueued, BatchesQueued', OrderInv, OrderStays
<1>30. ASSUME Prepared PROVE OrderInv'
  <2> USE <1>30 DEF Prepared, Batch, Launch, Call
  <2>1. UNCHANGED orderedVars /\ UNCHANGED listVars
    BY DEF orderedVars, listVars
  <2>2. \/ pc' \in {pc, "fail"}
        \/ pc \notin {"fail", "injected"} /\ pc' \notin {"fail", "injected"}
    BY <1>a DEF WaitMatchesLabel, EventTypes
  <2> QED
    BY ONLY <1>t, <2>1, <2>2, BatchesQueued, BatchesQueued', OrderInv, OrderStays
<1>31. ASSUME LaunchAll PROVE OrderInv'
  <2> USE <1>31 DEF LaunchAll, Batch, Launch
  <2>1. UNCHANGED orderedVars /\ UNCHANGED listVars
    BY DEF orderedVars, listVars
  <2>2. \/ pc' \in {pc, "fail"}
        \/ pc \notin {"fail", "injected"} /\ pc' \notin {"fail", "injected"}
    BY <1>a DEF WaitMatchesLabel, EventTypes
  <2> QED
    BY ONLY <1>t, <2>1, <2>2, BatchesQueued, BatchesQueued', OrderInv, OrderStays
<1>32. ASSUME ToolsSettle PROVE OrderInv'
  <2> USE <1>32 DEF ToolsSettle, Batch
  <2>1. UNCHANGED orderedVars /\ UNCHANGED listVars
    BY DEF orderedVars, listVars
  <2>2. \/ pc' \in {pc, "fail"}
        \/ pc \notin {"fail", "injected"} /\ pc' \notin {"fail", "injected"}
    BY <1>a DEF WaitMatchesLabel, EventTypes
  <2> QED
    BY ONLY <1>t, <2>1, <2>2, BatchesQueued, BatchesQueued', OrderInv, OrderStays
<1>33. ASSUME EmitResult PROVE OrderInv'
  <2> USE <1>33 DEF EmitResult, Batch, EmitShown, EmitMessageEnd
  <2>1. UNCHANGED orderedVars /\ UNCHANGED <<prompts, pendingMessages, polled>>
    BY DEF orderedVars
  <2>2. prompts = <<>> /\ pendingMessages = <<>> /\ polled = <<>> /\ pc # "injected" /\ pc' # "injected"
    BY <1>a, <1>l DEF WaitMatchesLabel
  <2>3. \/ messages' = messages
        \/ \E y \in ReplySet \cup ResultMessages : messages' = Append(messages, y)
    <3>1. \/ messages' = messages
          \/ pc = "resultEnd" /\ messages' = Append(messages, ToolResult(Call))
      OBVIOUS
    <3>2. pc = "resultEnd" => ToolResult(Call) \in ResultMessages
      BY <1>a, MessageKinds
    <3> QED
      BY ONLY <3>1, <3>2
  <2> QED
    BY ONLY <2>1, <2>2, <2>3, BatchesQueued, OrderInv, <1>t, OrderJoins
<1>34. ASSUME BatchDone PROVE OrderInv'
  <2> USE <1>34 DEF BatchDone, EmitTurnEnd
  <2>1. UNCHANGED orderedVars /\ UNCHANGED listVars
    BY DEF orderedVars, listVars
  <2>2. \/ pc' \in {pc, "fail"}
        \/ pc \notin {"fail", "injected"} /\ pc' \notin {"fail", "injected"}
    BY <1>a DEF WaitMatchesLabel, EventTypes
  <2> QED
    BY ONLY <1>t, <2>1, <2>2, BatchesQueued, BatchesQueued', OrderInv, OrderStays
<1>35. ASSUME AfterTurn PROVE OrderInv'
  <2> USE <1>35 DEF AfterTurn
  <2>1. UNCHANGED orderedVars /\ UNCHANGED listVars
    BY DEF orderedVars, listVars
  <2>2. \/ pc' \in {pc, "fail"}
        \/ pc \notin {"fail", "injected"} /\ pc' \notin {"fail", "injected"}
    BY <1>a DEF WaitMatchesLabel, EventTypes
  <2> QED
    BY ONLY <1>t, <2>1, <2>2, BatchesQueued, BatchesQueued', OrderInv, OrderStays
<1>36. ASSUME PolledSteering PROVE OrderInv'
  <2> USE <1>36 DEF PolledSteering
  <2>1. UNCHANGED orderedVars /\ UNCHANGED messages /\ pc \notin {"fail", "injected"}
        /\ prompts = <<>> /\ pendingMessages = <<>>
    BY <1>l DEF orderedVars
  <2>2. CASE StartTurn(polled)
    <3>1. Line' = Line \/ Line' = messages
      BY ONLY <1>t, <2>1, <2>2, TurnKeepsLine
    <3> QED
      BY ONLY <2>1, <3>1, BatchesQueued, BatchesQueued', OrderInv, <1>t, DisjointBatches, OrderFrame
  <2>3. CASE UNCHANGED locals /\ pc' # "injected"
    <3>1. UNCHANGED listVars /\ (pc' = "fail" \/ pc' \notin {"fail", "injected"})
      BY <2>1, <2>3 DEF listVars
    <3> QED
      BY ONLY <1>t, <2>1, <3>1, BatchesQueued, BatchesQueued', OrderInv, OrderStays
  <2> QED
    BY <2>2, <2>3
<1>37. ASSUME PolledFollowUp PROVE OrderInv'
  <2> USE <1>37 DEF PolledFollowUp
  <2>1. UNCHANGED orderedVars /\ UNCHANGED messages /\ pc \notin {"fail", "injected"}
        /\ prompts = <<>> /\ pendingMessages = <<>>
    BY <1>l DEF orderedVars
  <2>2. CASE StartTurn(polled)
    <3>1. Line' = Line \/ Line' = messages
      BY ONLY <1>t, <2>1, <2>2, TurnKeepsLine
    <3> QED
      BY ONLY <2>1, <3>1, BatchesQueued, BatchesQueued', OrderInv, <1>t, DisjointBatches, OrderFrame
  <2>3. CASE UNCHANGED locals /\ pc' # "injected"
    <3>1. UNCHANGED listVars /\ (pc' = "fail" \/ pc' \notin {"fail", "injected"})
      BY <2>1, <2>3 DEF listVars
    <3> QED
      BY ONLY <1>t, <2>1, <3>1, BatchesQueued, BatchesQueued', OrderInv, OrderStays
  <2> QED
    BY <2>2, <2>3
<1>38. ASSUME Continued PROVE OrderInv'
  <2> USE <1>38 DEF Continued
  <2>1. UNCHANGED orderedVars /\ UNCHANGED messages /\ pc \notin {"fail", "injected"}
        /\ prompts = <<>> /\ pendingMessages = <<>>
    BY <1>l DEF orderedVars
  <2>2. CASE StartTurn(polled)
    <3>1. Line' = Line \/ Line' = messages
      BY ONLY <1>t, <2>1, <2>2, TurnKeepsLine
    <3> QED
      BY ONLY <2>1, <3>1, BatchesQueued, BatchesQueued', OrderInv, <1>t, DisjointBatches, OrderFrame
  <2>3. CASE UNCHANGED locals /\ pc' # "injected"
    <3>1. UNCHANGED listVars /\ (pc' = "fail" \/ pc' \notin {"fail", "injected"})
      BY <2>1, <2>3 DEF listVars
    <3> QED
      BY ONLY <1>t, <2>1, <3>1, BatchesQueued, BatchesQueued', OrderInv, OrderStays
  <2> QED
    BY <2>2, <2>3
<1>39. ASSUME End PROVE OrderInv'
  <2> USE <1>39 DEF End, EmitAgentEnd
  <2>1. UNCHANGED orderedVars /\ UNCHANGED listVars
    BY DEF orderedVars, listVars
  <2>2. \/ pc' \in {pc, "fail"}
        \/ pc \notin {"fail", "injected"} /\ pc' \notin {"fail", "injected"}
    BY <1>a DEF WaitMatchesLabel, EventTypes
  <2> QED
    BY ONLY <1>t, <2>1, <2>2, BatchesQueued, BatchesQueued', OrderInv, OrderStays
<1>40. ASSUME ListenersThrow PROVE OrderInv'
  <2> USE <1>40 DEF ListenersThrow
  <2>1. UNCHANGED orderedVars /\ UNCHANGED listVars
    BY DEF orderedVars, listVars
  <2>2. \/ pc' \in {pc, "fail"}
        \/ pc \notin {"fail", "injected"} /\ pc' \notin {"fail", "injected"}
    BY <1>a DEF WaitMatchesLabel, EventTypes
  <2> QED
    BY ONLY <1>t, <2>1, <2>2, BatchesQueued, BatchesQueued', OrderInv, OrderStays
<1>41. ASSUME ProviderStarts PROVE OrderInv'
  <2> USE <1>41 DEF ProviderStarts, Streaming, Asking, EmitShown
  <2>1. UNCHANGED orderedVars /\ UNCHANGED listVars
    BY DEF orderedVars, listVars
  <2>2. \/ pc' \in {pc, "fail"}
        \/ pc \notin {"fail", "injected"} /\ pc' \notin {"fail", "injected"}
    BY <1>a DEF WaitMatchesLabel, EventTypes
  <2> QED
    BY ONLY <1>t, <2>1, <2>2, BatchesQueued, BatchesQueued', OrderInv, OrderStays
<1>42. ASSUME ProviderUpdates PROVE OrderInv'
  <2> USE <1>42 DEF ProviderUpdates, Streaming, Asking, EmitShown
  <2>1. UNCHANGED orderedVars /\ UNCHANGED listVars
    BY DEF orderedVars, listVars
  <2>2. \/ pc' \in {pc, "fail"}
        \/ pc \notin {"fail", "injected"} /\ pc' \notin {"fail", "injected"}
    BY <1>a DEF WaitMatchesLabel, EventTypes
  <2> QED
    BY ONLY <1>t, <2>1, <2>2, BatchesQueued, BatchesQueued', OrderInv, OrderStays
<1>43. ASSUME ProviderThrows PROVE OrderInv'
  <2> USE <1>43 DEF ProviderThrows
  <2>1. UNCHANGED orderedVars /\ UNCHANGED listVars
    BY DEF orderedVars, listVars
  <2>2. \/ pc' \in {pc, "fail"}
        \/ pc \notin {"fail", "injected"} /\ pc' \notin {"fail", "injected"}
    BY <1>a DEF WaitMatchesLabel, EventTypes
  <2> QED
    BY ONLY <1>t, <2>1, <2>2, BatchesQueued, BatchesQueued', OrderInv, OrderStays
<1>44. ASSUME NEW k \in 0..MaxCalls, NEW stop \in {"stop", "error"}, ProviderDone(k, stop)
     PROVE OrderInv'
  <2> USE <1>44 DEF ProviderDone, Respond, Streaming, Asking, EmitShown, EmitMessageEnd, Assistant
  <2>1. UNCHANGED orderedVars /\ UNCHANGED <<prompts, pendingMessages, polled>>
    BY DEF orderedVars
  <2>2. prompts = <<>> /\ pendingMessages = <<>> /\ polled = <<>> /\ pc # "injected" /\ pc' # "injected"
    BY <1>a, <1>l DEF WaitMatchesLabel
  <2>3. \/ messages' = messages
        \/ \E y \in ReplySet \cup ResultMessages : messages' = Append(messages, y)
    <3>1. \/ messages' = messages
          \/ messages' = Append(messages, [role |-> "assistant", id |-> turn + 1, calls |-> k, stopReason |-> stop])
      OBVIOUS
    <3>2. [role |-> "assistant", id |-> turn + 1, calls |-> k, stopReason |-> stop] \in ReplySet
      BY <1>a, BoundsAssumption DEF ReplySet, ResponseMessages, Assistant
    <3> QED
      BY ONLY <3>1, <3>2
  <2> QED
    BY ONLY <2>1, <2>2, <2>3, BatchesQueued, OrderInv, <1>t, OrderJoins
<1>45. ASSUME BeforeToolCallSettles PROVE OrderInv'
  <2> USE <1>45 DEF BeforeToolCallSettles, Batch, Allow, AnswerAtOnce, Call
  <2>1. UNCHANGED orderedVars /\ UNCHANGED listVars
    BY DEF orderedVars, listVars
  <2>2. \/ pc' \in {pc, "fail"}
        \/ pc \notin {"fail", "injected"} /\ pc' \notin {"fail", "injected"}
    BY <1>a DEF WaitMatchesLabel, EventTypes
  <2> QED
    BY ONLY <1>t, <2>1, <2>2, BatchesQueued, BatchesQueued', OrderInv, OrderStays
<1>46. ASSUME StopHookSettles PROVE OrderInv'
  <2> USE <1>46 DEF StopHookSettles
  <2>1. UNCHANGED orderedVars /\ UNCHANGED listVars
    BY DEF orderedVars, listVars
  <2>2. \/ pc' \in {pc, "fail"}
        \/ pc \notin {"fail", "injected"} /\ pc' \notin {"fail", "injected"}
    BY <1>a DEF WaitMatchesLabel, EventTypes
  <2> QED
    BY ONLY <1>t, <2>1, <2>2, BatchesQueued, BatchesQueued', OrderInv, OrderStays
<1>47. ASSUME ContinuationSettles PROVE OrderInv'
  <2> USE <1>47 DEF ContinuationSettles
  <2>1. /\ UNCHANGED <<gone, steeringQueue, followUpQueue, messages, prompts, pendingMessages>>
        /\ prompts = <<>> /\ pendingMessages = <<>> /\ polled = <<>> /\ pc \notin {"fail", "injected"}
        /\ \/ UNCHANGED <<polled, sent>> /\ pc' \in {"continued", "fail"}
           \/ \E b \in Unsent : /\ polled' = AsMessages(b) /\ sent' = Append(sent, <<"continuation", b>>)
                                /\ pc' = "continued"
    BY <1>a, <1>l DEF WaitMatchesLabel
  <2>2. CASE UNCHANGED <<polled, sent>> /\ pc' \in {"continued", "fail"}
    <3>1. UNCHANGED orderedVars /\ UNCHANGED listVars
      BY <2>1, <2>2 DEF orderedVars, listVars
    <3> QED
      BY ONLY <1>t, <2>1, <2>2, <3>1, BatchesQueued, BatchesQueued', OrderInv, OrderStays
  <2>3. ASSUME NEW b \in Unsent, polled' = AsMessages(b), sent' = Append(sent,
       <<"continuation", b>>),
               pc' = "continued"
        PROVE  OrderInv'
    <3>1. Line = messages /\ Line' = messages \o AsMessages(b)
      BY ONLY <1>t, <2>1, <2>3, LineShapes
    <3>2. "continuation" \in {"prompt", "continuation"}
      OBVIOUS
    <3> QED
      BY ONLY <2>1, <2>3, <3>1, <3>2, BatchesQueued, BatchesQueued', OrderInv, <1>t,
           DisjointBatches, OrderSends
  <2> QED
    BY ONLY <2>1, <2>2, <2>3
<1>48. ASSUME NEW c \in CallIds, ToolEnds(c) PROVE OrderInv'
  <2> USE <1>48 DEF ToolEnds, EndTask, Batch
  <2>1. UNCHANGED orderedVars /\ UNCHANGED listVars
    BY DEF orderedVars, listVars
  <2>2. \/ pc' \in {pc, "fail"}
        \/ pc \notin {"fail", "injected"} /\ pc' \notin {"fail", "injected"}
    BY <1>a DEF WaitMatchesLabel, EventTypes
  <2> QED
    BY ONLY <1>t, <2>1, <2>2, BatchesQueued, BatchesQueued', OrderInv, OrderStays
<1>49. ASSUME NEW c \in CallIds, ToolEndThrows(c) PROVE OrderInv'
  <2> USE <1>49 DEF ToolEndThrows, Batch
  <2>1. UNCHANGED orderedVars /\ UNCHANGED listVars
    BY DEF orderedVars, listVars
  <2>2. \/ pc' \in {pc, "fail"}
        \/ pc \notin {"fail", "injected"} /\ pc' \notin {"fail", "injected"}
    BY <1>a DEF WaitMatchesLabel, EventTypes
  <2> QED
    BY ONLY <1>t, <2>1, <2>2, BatchesQueued, BatchesQueued', OrderInv, OrderStays
<1>50. ASSUME NEW c \in CallIds, ToolAborted(c) PROVE OrderInv'
  <2> USE <1>50 DEF ToolAborted, EndTask, Batch
  <2>1. UNCHANGED orderedVars /\ UNCHANGED listVars
    BY DEF orderedVars, listVars
  <2>2. \/ pc' \in {pc, "fail"}
        \/ pc \notin {"fail", "injected"} /\ pc' \notin {"fail", "injected"}
    BY <1>a DEF WaitMatchesLabel, EventTypes
  <2> QED
    BY ONLY <1>t, <2>1, <2>2, BatchesQueued, BatchesQueued', OrderInv, OrderStays
<1>51. ASSUME NEW c \in CallIds, ToolEndSettles(c) PROVE OrderInv'
  <2> USE <1>51 DEF ToolEndSettles, Batch
  <2>1. UNCHANGED orderedVars /\ UNCHANGED listVars
    BY DEF orderedVars, listVars
  <2>2. \/ pc' \in {pc, "fail"}
        \/ pc \notin {"fail", "injected"} /\ pc' \notin {"fail", "injected"}
    BY <1>a DEF WaitMatchesLabel, EventTypes
  <2> QED
    BY ONLY <1>t, <2>1, <2>2, BatchesQueued, BatchesQueued', OrderInv, OrderStays
<1>52. CASE UNCHANGED vars
  <2>1. UNCHANGED orderedVars /\ UNCHANGED listVars
    BY <1>52 DEF vars, orderedVars, listVars
  <2>2. \/ pc' \in {pc, "fail"}
        \/ pc \notin {"fail", "injected"} /\ pc' \notin {"fail", "injected"}
    BY <1>52 DEF vars
  <2> QED
    BY ONLY <1>t, <2>1, <2>2, BatchesQueued, BatchesQueued', OrderInv, OrderStays
<1> HIDE DEF agentState, queues, runVars, control, locals, batchVars, history, Emit, Await, Goto, At
<1> QED
  BY <1>1, <1>2, <1>3, <1>4, <1>5, <1>6, <1>7, <1>8, <1>9, <1>10, <1>11, <1>12, <1>13, <1>14,
       <1>15, <1>16, <1>17, <1>18, <1>19, <1>20, <1>21, <1>22, <1>23, <1>24, <1>24a, <1>25, <1>26, <1>27,
       <1>28, <1>29, <1>30, <1>31, <1>32, <1>33, <1>34, <1>35, <1>36, <1>37, <1>38, <1>39, <1>40,
       <1>41, <1>42, <1>43, <1>44, <1>45, <1>46, <1>47, <1>48, <1>49, <1>50, <1>51, <1>52,
       BoundsAssumption
  DEF Next, HostCall, LoopStep, External, TaskStep

\* OrderInv holds of a new Agent.
LEMMA InitOrder == Init => OrderInv
<1> SUFFICES ASSUME Init PROVE OrderInv
  OBVIOUS
<1>1. Line = <<>>
  <2>1. <<>> \in Seq(Messages) /\ pc # "injected" /\ messages = <<>> /\ prompts = <<>>
        /\ pendingMessages = <<>> /\ polled = <<>>
    BY DEF Init
  <2> QED
    BY ONLY <2>1, LineForms DEF Line
<1>2. sent = <<>> /\ \A op \in QueueOps : QueueOf[op] = <<>>
  BY DEF Init, QueueOf
<1>3. DOMAIN Line = {} /\ DOMAIN sent = {} /\ \A op \in QueueOps : DOMAIN QueueOf[op] = {}
  BY <1>1, <1>2
<1>4. SentOnce(sent) /\ LineOK(Line, sent, gone)
  BY ONLY <1>3 DEF SentOnce, LineOK, EachOnce, Together, InTurn
<1>5. \A op \in QueueOps : QueueOK(op, QueueOf[op], Line, sent)
  BY ONLY <1>3 DEF QueueOK, Waits
<1> QED
  BY ONLY <1>4, <1>5 DEF OrderInv, OrderAt

\* The transcript is the first part of the line.
LEMMA TranscriptInLine ==
  ASSUME ListTypes
  PROVE  /\ messages \in Seq(Messages) /\ Line \in Seq(Messages)
         /\ \A p \in DOMAIN messages : p \in DOMAIN Line /\ Line[p] = messages[p]
         /\ \A x \in HostIds : \A p \in Positions(x) : /\ p \in DOMAIN messages /\ p \in Nat
                                                       /\ p \in DOMAIN Line /\ Line[p] = HostMessage(x)
<1>1. PICK t \in Seq(Messages) : /\ LineOf(messages, prompts, pendingMessages, polled, pc) = messages \o t
                                 /\ LineOf(<<>>, prompts, pendingMessages, polled, pc) = t
                                 /\ messages \o t \in Seq(Messages)
  BY LineTail DEF ListTypes
<1>2. messages \in Seq(Messages) /\ Line = messages \o t
  BY <1>1 DEF ListTypes, Line
<1>3. \A p \in 1..Len(messages) : p \in DOMAIN (messages \o t) /\ (messages \o t)[p] = messages[p] /\ p \in Nat
  BY <1>2
<1>4. DOMAIN messages = 1..Len(messages) /\ Line \in Seq(Messages)
  BY <1>1, <1>2
<1>5. \A p \in DOMAIN messages : p \in DOMAIN Line /\ Line[p] = messages[p] /\ p \in Nat
  BY <1>2, <1>3, <1>4
<1> QED
  BY <1>2, <1>4, <1>5 DEF Positions

\* The order of the line is that of the transcript.
LEMMA OrderSeen ==
  ASSUME ListTypes, BatchesQueued, OrderInv
  PROVE  QueuesAreFIFO /\ BatchesStayTogether
<1>t. sent \in SentSeqs
  BY OrderTypes
<1>s. \A i \in DOMAIN sent : sent[i][2] \in Batches /\ sent[i][2][1] \in HostIds
  BY <1>t, SentFacts, BatchFacts
<1>o. EachOnce(Line, sent) /\ Together(Line, gone) /\ InTurn(Line, sent)
  BY DEF OrderInv, OrderAt, LineOK
<1>p. \A x \in HostIds : \A p \in Positions(x) : /\ p \in DOMAIN messages /\ p \in Nat
                                                 /\ p \in DOMAIN Line /\ Line[p] = HostMessage(x)
  BY TranscriptInLine
<1>1. QueuesAreFIFO
  <2> SUFFICES ASSUME NEW i \in DOMAIN sent, NEW j \in DOMAIN sent, i < j, sent[i][1] = sent[j][1],
                      sent[i][1] \in {"steer", "followUp"},
                      NEW p \in Positions(sent[i][2][1]), NEW q \in Positions(sent[j][2][1])
               PROVE  p < q
    BY DEF QueuesAreFIFO
  <2>1. p \in DOMAIN Line /\ Line[p] = HostMessage(sent[i][2][1])
        /\ q \in DOMAIN Line /\ Line[q] = HostMessage(sent[j][2][1])
    BY <1>s, <1>p
  <2>2. sent[i][1] \in QueueOps
    BY DEF QueueOps
  <2> QED
    BY <1>o, <2>1, <2>2 DEF InTurn
<1>2. ASSUME NEW b \in Batches, NEW k \in DOMAIN b PROVE Cardinality(Positions(b[k])) <= 1
  <2>1. b[k] \in HostIds
    BY BatchFacts
  <2>2. \A p, q \in Positions(b[k]) : p = q
    BY ONLY <1>o, <1>p, <2>1 DEF EachOnce
  <2>3. CASE Positions(b[k]) = {}
    BY <2>3, FS_EmptySet
  <2>4. CASE Positions(b[k]) # {}
    <3>1. PICK p : p \in Positions(b[k])
      BY <2>4
    <3>2. Positions(b[k]) = {p}
      BY <2>2, <3>1
    <3> QED
      BY <3>2, FS_Singleton
  <2> QED
    BY <2>3, <2>4
<1>3. ASSUME NEW b \in Batches, NEW k \in DOMAIN b \ {1}, NEW i \in Positions(b[k])
      PROVE  b[k - 1] \in gone \/ (i - 1) \in Positions(b[k - 1])
  <2>1. b[k] \in HostIds
    BY BatchFacts
  <2>2. i \in DOMAIN messages /\ i \in Nat /\ i \in DOMAIN Line /\ Line[i] = HostMessage(b[k])
    BY <1>p, <2>1
  <2>3. b[k - 1] \in gone \/ (i > 1 /\ Line[i - 1] = HostMessage(b[k - 1]))
    BY <1>o, <2>2 DEF Together
  <2>4. CASE i > 1 /\ Line[i - 1] = HostMessage(b[k - 1])
    <3>1. i - 1 \in DOMAIN messages
      <4>1. messages \in Seq(Messages)
        BY TranscriptInLine
      <4> QED
        BY <2>2, <2>4, <4>1
    <3>2. messages[i - 1] = HostMessage(b[k - 1])
      BY <2>4, <3>1, TranscriptInLine
    <3> QED
      BY <3>1, <3>2 DEF Positions
  <2> QED
    BY <2>3, <2>4
<1> QED
  BY <1>1, <1>2, <1>3 DEF BatchesStayTogether

\* Both properties, from the invariant OrderInv.
LEMMA OrderHolds == ASSUME DisjointBatches PROVE Spec => [](QueuesAreFIFO /\ BatchesStayTogether)
<1> DEFINE Inv == BatchesQueued /\ ListsByLabel /\ OrderInv
<1>1. Init => Inv
  BY InitLost, InitOrder
<1>2. ListInv /\ Inv /\ [Next]_vars => Inv'
  <2> SUFFICES ASSUME ListInv, Inv, [Next]_vars PROVE Inv'
    OBVIOUS
  <2>1. BatchesQueued' /\ ListsByLabel' /\ DataInv'
    BY StepBatches, StepLists, StepData
  <2> QED
    BY <2>1, StepOrder
<1>3. TalkInv => ListInv
  BY DEF TalkInv
<1>4. ListInv /\ Inv => QueuesAreFIFO /\ BatchesStayTogether
  BY TypesOfLists, OrderSeen DEF ListInv
<1> QED
  BY <1>1, <1>2, <1>3, <1>4, TalkInvHolds, PTL DEF Spec

\* steer and followUp are queues: of two batches handed to the same one, the first joins
\* the transcript first, however polls, drain modes, runs and removals interleave.
THEOREM QueuesKeepOrder == ASSUME DisjointBatches PROVE Spec => []QueuesAreFIFO
BY OrderHolds, PTL

\* No message joins the transcript twice, and those of a batch join it side by side
\* and in order, whichever queue, drain mode and poll they went through.
THEOREM BatchesStay == ASSUME DisjointBatches PROVE Spec => []BatchesStayTogether
BY OrderHolds, PTL
=============================================================================
