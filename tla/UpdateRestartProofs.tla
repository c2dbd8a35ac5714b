------------------------ MODULE UpdateRestartProofs -------------------------
(***************************************************************************)
(* Proofs about UpdateRestart, for every set of workers and commands and   *)
(* every bound.                                                            *)
(*                                                                         *)
(* LatchInv is what makes the fences quiet: the latch counts the commands  *)
(* in flight and the preparation (CountOK), an eviction fence and a        *)
(* preparation past its first drain exclude each other (FenceOK), and who  *)
(* waits at a fence waits once and has not begun (WaitOK).                 *)
(*                                                                         *)
(* CheckpointInv follows a checkpoint through a channel whose answers may  *)
(* be late: what a worker answered with in this preparation it still has,  *)
(* or it has no transaction, and nothing on its way would open another     *)
(* one (Held).  That holds of the answer in the channel, of the answer the *)
(* supervisor noted and of the manifest (AnswerHeld, AckHeld,              *)
(* ManifestHeld), because a worker is asked once per preparation           *)
(* (InboxOrder, AskedOnce) and what is left of earlier ones carries older  *)
(* numbers (IdOK).                                                         *)
(*                                                                         *)
(* Owned says that a transaction belongs to the connection that the worker *)
(* still has, unless it is being published.                                *)
(***************************************************************************)
EXTENDS UpdateRestart, FiniteSetTheorems, TLAPS

Phases == {"none", "draining", "fencing", "prepared"}
Preps == {"idle", "waiting", "draining", "drained", "fencing", "quiet", "asking",
          "cancelling", "committing", "stopping", "done"}
Kinds == {"asked", "cancelling", "committing"}
Asks == [at : {"idle", "asked", "acked", "failed", "cancelling", "unreached", "committing", "settled",
               "closed", "unstopped"},
         via : Nat, saved : Nat]
Requests == [kind : Kinds, via : Nat, id : Nat]
Responses == [kind : Kinds, id : Nat, ok : BOOLEAN, saved : Nat]
Txns == [at : {"none", "preparing", "drained", "fencing", "quiescing", "prepared", "publishing"},
         owner : Nat, aborted : BOOLEAN, timed : BOOLEAN, id : Nat, saved : Nat]
Waiters == Commands \cup {"prepare"}

SupervisorTypes ==
    /\ phase \in Phases /\ prep \in Preps /\ sweep \in {"idle", "draining", "evicting"}
    /\ tries \in Nat /\ sweeps \in Nat /\ active \in Int
    /\ cmd \in [Commands -> {"new", "waiting", "inflight", "done"}]
    /\ waiters \in Seq(Waiters) /\ resuming \in Seq(Waiters)
    /\ ask \in [Workers -> Asks] /\ manifest \in [Workers -> Nat \cup {None}]

WireTypes ==
    /\ conn \in [Workers -> Nat] /\ conns \in [Workers -> Nat] /\ link \in [Workers -> Nat]
    /\ inbox \in [Workers -> Seq(Requests)] /\ outbox \in [Workers -> Seq(Responses)]

WorkerTypes ==
    /\ txn \in [Workers -> Txns] /\ handling \subseteq Commands /\ queued \subseteq Commands
    /\ busy \in [Workers -> BOOLEAN] /\ version \in [Workers -> Nat]
    /\ published \subseteq Workers /\ exited \subseteq Workers

TypeOK == SupervisorTypes /\ WireTypes /\ WorkerTypes

-----------------------------------------------------------------------------
(* The latch and the fences: variables of the supervisor only. *)

InFlight == {c \in Commands : cmd[c] = "inflight"}

PhaseOK ==
    /\ prep \in {"idle", "waiting"} => phase = "none"
    /\ prep \in {"draining", "drained"} => phase = "draining"
    /\ prep \in {"fencing", "quiet", "asking", "cancelling", "committing", "stopping"} =>
          phase = "fencing"
    /\ prep = "done" => phase = "prepared"

\* The preparation itself is a counted command.
Counted == IF prep \in {"idle", "waiting", "done"} THEN 0 ELSE 1

CountOK == IsFiniteSet(InFlight) /\ active = Cardinality(InFlight) + Counted

FenceOK ==
    /\ sweep = "idle" => waiters = <<>>
    /\ sweep # "idle" => resuming = <<>> /\ phase = "none"
    /\ resuming # <<>> => prep \in {"idle", "waiting", "draining", "drained"}

\* Who is held up is held up once, and has not begun.
WaitOK(s) ==
    /\ \A i, j \in 1..Len(s) : s[i] = s[j] => i = j
    /\ \A i \in 1..Len(s) : IF s[i] = "prepare" THEN prep = "waiting" ELSE cmd[s[i]] = "waiting"

LatchInv == PhaseOK /\ CountOK /\ FenceOK /\ WaitOK(waiters) /\ WaitOK(resuming) /\ FencesAreQuiet

-----------------------------------------------------------------------------
(* The requests of a preparation, and the transactions of the workers. *)

AsksIdle == prep \notin {"asking", "cancelling", "committing", "stopping", "done"} =>
                ask = [w \in Workers |-> NoAsk]

StoppedOK == prep = "done" => \A w \in Workers : manifest[w] # None => w \in exited \/ ask[w].at = "unstopped"

\* Nothing of this preparation is on its way yet.
Fresh == prep \in {"waiting", "draining", "drained", "fencing", "quiet"}

IdOK(n) == n <= tries /\ (Fresh => n < tries)

InboxIds(w) == \A i \in 1..Len(inbox[w]) : IdOK(inbox[w][i].id)
OutboxIds(w) == \A i \in 1..Len(outbox[w]) : IdOK(outbox[w][i].id)
TxnId(w) == txn[w].at # "none" => IdOK(txn[w].id)

\* A worker is asked once per preparation.
InboxOrder(w) ==
    \A i, j \in 1..Len(inbox[w]) : i < j =>
        /\ inbox[w][i].id <= inbox[w][j].id
        /\ inbox[w][i].kind = "asked" /\ inbox[w][j].kind = "asked" =>
              inbox[w][i].id # inbox[w][j].id

NotAsked(w) == \A i \in 1..Len(inbox[w]) : inbox[w][i].kind # "asked"

AskedOnce(w) == txn[w].at # "none" /\ txn[w].id = tries => NotAsked(w)

\* The worker still has the checkpoint it answered with, or none, and no
\* request that would make it another.
Held(w, saved) ==
    /\ NotAsked(w)
    /\ txn[w] = NoTxn \/ (txn[w].at \in {"prepared", "publishing"} /\ txn[w].saved = saved)

AnswerHeld(w) ==
    \A i \in 1..Len(outbox[w]) :
        outbox[w][i].kind = "asked" /\ outbox[w][i].ok /\ outbox[w][i].id = tries =>
            Held(w, outbox[w][i].saved)

AckHeld(w) == ask[w].at = "acked" => Held(w, ask[w].saved)

ManifestHeld(w) == manifest[w] # None => Held(w, manifest[w])

\* The manifest is there before a commit is sent; a commit clears the deadline.
CommitAsked(w) ==
    \A i \in 1..Len(inbox[w]) : inbox[w][i].kind = "committing" => manifest[w] # None
PublishSaved(w) == txn[w].at = "publishing" => manifest[w] # None /\ ~txn[w].timed

\* From the pause on nothing is admitted, and the checkpoint is what was.
Frozen(w) ==
    /\ txn[w].at \in {"quiescing", "prepared", "publishing"} => Handled(w) = {}
    /\ txn[w].at \in {"prepared", "publishing"} => ~busy[w] /\ txn[w].saved = version[w]

GoneOK(w) ==
    /\ txn[w].at = "none" => txn[w] = NoTxn
    /\ w \in exited => txn[w] = NoTxn
    /\ w \in published => manifest[w] = version[w] /\ (w \in exited \/ txn[w].at = "publishing")

EndOK(w) == txn[w].at # "none" =>
    txn[w].timed \/ txn[w].at = "publishing" \/ manifest[w] # None

TxnInv(w) == TxnId(w) /\ PublishSaved(w) /\ Frozen(w) /\ GoneOK(w) /\ EndOK(w)
InboxInv(w) == InboxIds(w) /\ InboxOrder(w) /\ CommitAsked(w) /\ AskedOnce(w)
CaptureInv(w) == OutboxIds(w) /\ AnswerHeld(w) /\ AckHeld(w) /\ ManifestHeld(w)

WorkerInv(w) == TxnInv(w) /\ InboxInv(w) /\ CaptureInv(w)

CheckpointInv == AsksIdle /\ ManifestIsFinal /\ StoppedOK /\ \A w \in Workers : WorkerInv(w)


-----------------------------------------------------------------------------
(* Sequences. *)

\* What Head, Tail and Append do.
LEMMA SequenceFacts ==
    ASSUME NEW S, NEW s \in Seq(S), NEW e \in S
    PROVE  /\ Len(s) \in Nat /\ \A i \in 1..Len(s) : s[i] \in S
           /\ Append(s, e) \in Seq(S) /\ Len(Append(s, e)) = Len(s) + 1
           /\ \A i \in 1..Len(s) : Append(s, e)[i] = s[i]
           /\ Append(s, e)[Len(s) + 1] = e
           /\ s # <<>> => /\ Head(s) = s[1] /\ Head(s) \in S /\ Len(s) >= 1
                          /\ Tail(s) \in Seq(S) /\ Len(Tail(s)) = Len(s) - 1
                          /\ \A i \in 1..Len(Tail(s)) : Tail(s)[i] = s[i + 1]
    OBVIOUS

LEMMA EmptySeq == \A S : <<>> \in Seq(S) /\ Len(<<>>) = 0
    OBVIOUS

-----------------------------------------------------------------------------
(* Types. *)

LEMMA SendType ==
    ASSUME WireTypes, tries \in Nat, NEW W, NEW kind \in Kinds,
           NEW via \in [Workers -> Nat], Send(W, kind, via)
    PROVE  inbox' \in [Workers -> Seq(Requests)]
<1>1. ASSUME NEW w \in Workers
      PROVE  Append(inbox[w], [kind |-> kind, via |-> via[w], id |-> tries]) \in Seq(Requests)
      BY SequenceFacts DEF WireTypes, Requests
<1>2. QED
      BY <1>1 DEF Send, WireTypes

LEMMA ReplyType ==
    ASSUME WireTypes, NEW w \in Workers, NEW m, m.kind \in Kinds, m.id \in Nat,
           NEW ok \in BOOLEAN, NEW saved \in Nat, Reply(w, m, ok, saved)
    PROVE  outbox' \in [Workers -> Seq(Responses)]
<1>1. [kind |-> m.kind, id |-> m.id, ok |-> ok, saved |-> saved] \in Responses
      BY DEF Responses
<1>2. Append(outbox[w], [kind |-> m.kind, id |-> m.id, ok |-> ok, saved |-> saved]) \in Seq(Responses)
      BY <1>1, SequenceFacts DEF WireTypes
<1>3. QED
      BY <1>2 DEF Reply, WireTypes

LEMMA UnchangedTypes ==
    /\ SupervisorTypes /\ UNCHANGED supervisor => SupervisorTypes'
    /\ WireTypes /\ UNCHANGED wire => WireTypes'
    /\ WorkerTypes /\ UNCHANGED worker => WorkerTypes'
<1>1. SupervisorTypes /\ UNCHANGED supervisor => SupervisorTypes'
      BY DEF SupervisorTypes, supervisor
<1>2. WireTypes /\ UNCHANGED wire => WireTypes'
      BY DEF WireTypes, wire
<1>3. WorkerTypes /\ UNCHANGED worker => WorkerTypes'
      BY DEF WorkerTypes, worker
<1>4. QED
      BY <1>1, <1>2, <1>3

LEMMA ExitsType ==
    ASSUME WireTypes, WorkerTypes, NEW w \in Workers, Exits(w),
           UNCHANGED <<conns, version, published>>
    PROVE  WireTypes' /\ WorkerTypes'
<1>1. WireTypes'
      BY DEF Exits, Lost, WireTypes
<1>2. NoTxn \in Txns
      BY DEF NoTxn, Txns
<1>3. WorkerTypes'
      BY <1>2 DEF Exits, Lost, WorkerTypes
<1>4. QED
      BY <1>1, <1>3

LEMMA TypeInitially == Init => TypeOK
<1> SUFFICES ASSUME Init PROVE TypeOK
    OBVIOUS
<1>1. NoAsk \in Asks /\ NoTxn \in Txns
      BY DEF NoAsk, Asks, NoTxn, Txns
<1>2. SupervisorTypes
      BY <1>1 DEF Init, SupervisorTypes, NoManifest, Phases, Preps
<1>3. WireTypes
      BY DEF Init, WireTypes
<1>4. WorkerTypes
      BY <1>1 DEF Init, WorkerTypes
<1>5. QED
      BY <1>2, <1>3, <1>4 DEF TypeOK

\* Steps of the supervisor that touch neither a worker nor a connection.
LEMMA TypeSupervisor ==
    ASSUME TypeOK,
           \/ \E c \in Commands : Reject(c) \/ AwaitFence(c) \/ EndCommand(c)
           \/ BeginSweep \/ SweepDrained \/ EndSweep \/ PrepareCommand
           \/ Fencing \/ Quiet \/ DrainTimeout \/ AllCancelled \/ AllCommitted \/ Prepared
           \/ ResumePrepare \/ \E w \in Workers : AskFails(w) \/ StopFails(w)
    PROVE  TypeOK'
<1>1. UNCHANGED <<wire, worker>>
      BY DEF Reject, AwaitFence, EndCommand, BeginSweep, SweepDrained, EndSweep, PrepareCommand,
         Fencing, Quiet, DrainTimeout, AllCancelled, AllCommitted, Prepared, ResumePrepare, AskFails, StopFails
<1>2. SUFFICES SupervisorTypes'
      BY <1>1, UnchangedTypes DEF TypeOK
<1> USE DEF TypeOK, SupervisorTypes
<1>3. ASSUME NEW c \in Commands, Reject(c) \/ EndCommand(c) PROVE SupervisorTypes'
      BY <1>3 DEF Reject, EndCommand
<1>4. ASSUME NEW c \in Commands, AwaitFence(c) PROVE SupervisorTypes'
  <2>1. Append(waiters, c) \in Seq(Waiters)
        BY SequenceFacts DEF Waiters
  <2>2. QED
        BY <1>4, <2>1 DEF AwaitFence
<1>5. CASE BeginSweep \/ SweepDrained \/ EndSweep
  <2>1. CASE BeginSweep \/ SweepDrained
        BY <2>1 DEF BeginSweep, SweepDrained
  <2>2. CASE EndSweep
        BY <2>2, EmptySeq DEF EndSweep
  <2>3. QED
        BY <1>5, <2>1, <2>2
<1>6. CASE PrepareCommand
  <2>1. Append(waiters, "prepare") \in Seq(Waiters)
        BY SequenceFacts DEF Waiters
  <2>2. /\ waiters' \in Seq(Waiters) /\ active' \in Int /\ tries' \in Nat
        /\ phase' \in Phases /\ prep' \in Preps
    <3>1. CASE sweep # "idle"
          BY <1>6, <2>1, <3>1 DEF PrepareCommand, Phases, Preps
    <3>2. CASE sweep = "idle"
          BY <1>6, <3>2 DEF PrepareCommand, StartsPrepare, Phases, Preps
    <3>3. QED
          BY <3>1, <3>2
  <2>3. QED
        BY <1>6, <2>2 DEF PrepareCommand
<1>7. CASE Fencing \/ Quiet \/ DrainTimeout \/ AllCommitted \/ Prepared
      BY <1>7 DEF Fencing, Quiet, DrainTimeout, AllCommitted, Prepared, RolledBack, Phases, Preps
<1>8. CASE AllCancelled
  <2>1. NoAsk \in Asks
        BY DEF NoAsk, Asks
  <2>2. QED
        BY <1>8, <2>1 DEF AllCancelled, RolledBack, Phases, Preps
<1>9. CASE ResumePrepare
  <2>1. Tail(resuming) \in Seq(Waiters)
        BY <1>9, SequenceFacts DEF ResumePrepare
  <2>2. QED
        BY <1>9, <2>1 DEF ResumePrepare, StartsPrepare, Phases, Preps
<1>10. ASSUME NEW w \in Workers, AskFails(w) PROVE SupervisorTypes'
  <2>1. ask' \in [Workers -> Asks]
    <3>1. CASE ask[w].at = "asked"
      <4>1. ask' = [ask EXCEPT ![w].at = "failed"]
            BY <1>10, <3>1, Zenon DEF AskFails, Settle
      <4>2. QED
            BY <4>1 DEF Asks
    <3>2. CASE ask[w].at = "cancelling"
      <4>1. ask' = [ask EXCEPT ![w].at = "unreached"]
            BY <1>10, <3>2, Zenon DEF AskFails, Settle
      <4>2. QED
            BY <4>1 DEF Asks
    <3>3. CASE ask[w].at = "committing"
      <4>1. ask' = [ask EXCEPT ![w].at = "settled"]
            BY <1>10, <3>3, Zenon DEF AskFails, Settle
      <4>2. QED
            BY <4>1 DEF Asks
    <3>4. QED
          BY <1>10, <3>1, <3>2, <3>3 DEF AskFails
  <2>2. QED
        BY <1>10, <2>1 DEF AskFails
<1>11. ASSUME NEW w \in Workers, StopFails(w) PROVE SupervisorTypes'
      BY <1>11 DEF StopFails, Settle, Asks
<1>12. QED
      BY <1>3, <1>4, <1>5, <1>6, <1>7, <1>8, <1>9, <1>10, <1>11

\* Steps of the supervisor that begin a command, write or read.
LEMMA TypeExchange ==
    ASSUME TypeOK,
           \/ \E c \in Commands : Admit(c)
           \/ ResumeCommand \/ AskWorkers \/ AllAsked
           \/ \E w \in Workers : Respond(w) \/ CloseUnreached(w) \/ StopCloses(w)
    PROVE  TypeOK'
<1> USE DEF TypeOK
<1>1. ASSUME NEW c \in Commands, Admit(c) PROVE TypeOK'
      BY <1>1 DEF Admit, Begins, SupervisorTypes, WireTypes, WorkerTypes, wire
<1>2. CASE ResumeCommand
  <2>1. Tail(resuming) \in Seq(Waiters) /\ Head(resuming) \in Commands
        BY <1>2, SequenceFacts DEF ResumeCommand, SupervisorTypes
  <2>2. QED
        BY <1>2, <2>1 DEF ResumeCommand, Begins, SupervisorTypes, WireTypes, WorkerTypes, wire
<1>3. CASE AskWorkers
  <2>1. WorkerTypes'
        BY <1>3, UnchangedTypes DEF AskWorkers
  <2>2. CASE \E w \in Residents : conn[w] = 0
    <3>1. SupervisorTypes'
      <4>1. RolledBack /\ UNCHANGED ask
            BY <1>3, <2>2, Zenon DEF AskWorkers
      <4>2. QED
            BY <1>3, <4>1 DEF AskWorkers, RolledBack, SupervisorTypes, Phases, Preps
    <3>2. WireTypes'
          BY <1>3, <2>2 DEF AskWorkers, WireTypes
    <3>3. QED
          BY <2>1, <3>1, <3>2
  <2>3. CASE ~ \E w \in Residents : conn[w] = 0
    <3>1. inbox' \in [Workers -> Seq(Requests)]
          BY <1>3, <2>3, SendType DEF AskWorkers, Kinds, WireTypes, SupervisorTypes
    <3>2. \A w \in Workers : [NoAsk EXCEPT !.at = "asked", !.via = conn[w]] \in Asks /\ NoAsk \in Asks
          BY DEF NoAsk, Asks, WireTypes
    <3>3. ask' \in [Workers -> Asks]
          BY <1>3, <2>3, <3>2 DEF AskWorkers
    <3>4. SupervisorTypes'
          BY <1>3, <2>3, <3>3 DEF AskWorkers, SupervisorTypes, Preps
    <3>5. WireTypes'
          BY <1>3, <2>3, <3>1 DEF AskWorkers, WireTypes
    <3>6. QED
          BY <2>1, <3>4, <3>5
  <2>4. QED
        BY <2>2, <2>3
<1>4. CASE AllAsked
  <2>1. Vias \in [Workers -> Nat]
        BY DEF Vias, Asks, SupervisorTypes
  <2>2. inbox' \in [Workers -> Seq(Requests)]
        BY <1>4, <2>1, SendType DEF AllAsked, CancelAcknowledged, Kinds, SupervisorTypes
  <2>3. \A w \in Workers : /\ [ask[w] EXCEPT !.at = "cancelling"] \in Asks
                           /\ [ask[w] EXCEPT !.at = "committing"] \in Asks
                           /\ NoAsk \in Asks /\ ask[w].saved \in Nat
        BY DEF NoAsk, Asks, SupervisorTypes
  <2>4. ask' \in [Workers -> Asks]
        BY <1>4, <2>3 DEF AllAsked, CancelAcknowledged
  <2>5. manifest' \in [Workers -> Nat \cup {None}]
        BY <1>4, <2>3 DEF AllAsked, CancelAcknowledged, SupervisorTypes
  <2>6. SupervisorTypes'
        BY <1>4, <2>4, <2>5 DEF AllAsked, CancelAcknowledged, SupervisorTypes, Preps
  <2>7. WireTypes'
        BY <1>4, <2>2 DEF AllAsked, WireTypes
  <2>8. WorkerTypes'
        BY <1>4, UnchangedTypes DEF AllAsked
  <2>9. QED
        BY <2>6, <2>7, <2>8
<1>5. ASSUME NEW w \in Workers, Respond(w) PROVE TypeOK'
  <2>1. Head(outbox[w]) \in Responses /\ Tail(outbox[w]) \in Seq(Responses)
        BY <1>5, SequenceFacts DEF Respond, WireTypes
  <2>2. /\ ask[w] \in Asks /\ Head(outbox[w]).saved \in Nat
        BY <2>1 DEF SupervisorTypes, Responses
  <2>3. \A a \in {"acked", "failed", "settled", "unreached"}, n \in Nat :
            [ask[w] EXCEPT !.at = a, !.saved = n] \in Asks /\ [ask[w] EXCEPT !.at = a] \in Asks
        BY <2>2 DEF Asks
  <2>4. ask' \in [Workers -> Asks]
    <3>1. ask \in [Workers -> Asks]
          BY DEF SupervisorTypes
    <3>2. \/ \E a \in {"acked", "failed"} :
                ask' = [ask EXCEPT ![w].at = a, ![w].saved = Head(outbox[w]).saved]
          \/ \E a \in {"settled", "unreached"} : ask' = [ask EXCEPT ![w].at = a]
          \/ ask' = ask
          BY <1>5 DEF Respond, Settle
    <3>3. ASSUME NEW a \in {"acked", "failed"}
          PROVE  [ask EXCEPT ![w].at = a, ![w].saved = Head(outbox[w]).saved] \in [Workers -> Asks]
          BY <2>2, <2>3, <3>1
    <3>4. ASSUME NEW a \in {"settled", "unreached"}
          PROVE  [ask EXCEPT ![w].at = a] \in [Workers -> Asks]
          BY <2>2, <2>3, <3>1
    <3>5. QED
          BY <3>1, <3>2, <3>3, <3>4
  <2>5. SupervisorTypes'
        BY <1>5, <2>4 DEF Respond, SupervisorTypes
  <2>6. WireTypes'
        BY <1>5, <2>1 DEF Respond, WireTypes
  <2>7. WorkerTypes'
        BY <1>5, UnchangedTypes DEF Respond
  <2>8. QED
        BY <2>5, <2>6, <2>7
<1>6. ASSUME NEW w \in Workers, CloseUnreached(w) \/ StopCloses(w) PROVE TypeOK'
  <2>0. /\ conn' = [conn EXCEPT ![w] = 0] /\ outbox' = [outbox EXCEPT ![w] = <<>>]
        /\ Settle(w, "settled") \/ Settle(w, "closed")
        /\ UNCHANGED <<phase, prep, tries, active, cmd, waiters, resuming, sweep, sweeps, manifest,
                       conns, link, inbox, worker>>
        BY <1>6 DEF CloseUnreached, StopCloses
  <2>1. SupervisorTypes'
        BY <2>0 DEF Settle, Asks, SupervisorTypes
  <2>2. WireTypes'
        BY <2>0 DEF WireTypes
  <2>3. WorkerTypes'
        BY <2>0, UnchangedTypes
  <2>4. QED
        BY <2>1, <2>2, <2>3
<1>7. QED
      BY <1>1, <1>2, <1>3, <1>4, <1>5, <1>6

\* Steps of a worker, its exit, and of its connection.
LEMMA WorkerLeavesSupervisor ==
    ASSUME NEW w \in Workers,
           \/ Evict(w) \/ StopWorker(w) \/ WorkerTransaction(w)
           \/ WorkerPublished(w) \/ PublishFails(w) \/ Deadline(w)
           \/ BeginInput(w) \/ EndInput(w)
           \/ WorkerLoses(w) \/ SupervisorLoses(w) \/ Reconnect(w)
    PROVE  UNCHANGED supervisor
    BY DEF Evict, StopWorker, WorkerTransaction, WorkerPrepare, WorkerDrained, WorkerPauses,
       WorkerCaptures, WorkerCancels, WorkerCommits, WorkerPublished, PublishFails, Deadline,
       BeginInput, EndInput, WorkerLoses, SupervisorLoses, Reconnect

LEMMA TypeWorker ==
    ASSUME TypeOK, NEW w \in Workers,
           \/ Evict(w) \/ StopWorker(w) \/ WorkerTransaction(w)
           \/ WorkerPublished(w) \/ PublishFails(w) \/ Deadline(w)
           \/ BeginInput(w) \/ EndInput(w)
           \/ WorkerLoses(w) \/ SupervisorLoses(w) \/ Reconnect(w)
    PROVE  TypeOK'
<1>1. UNCHANGED supervisor
      BY WorkerLeavesSupervisor
<1>2. SUFFICES WireTypes' /\ WorkerTypes'
      BY <1>1, UnchangedTypes DEF TypeOK
<1> USE DEF TypeOK
<1>3. CASE Evict(w) \/ StopWorker(w)
      BY <1>3, ExitsType DEF Evict, StopWorker
<1>4. ASSUME NEW kind \in Kinds, Message(w, kind)
      PROVE  /\ Tail(inbox[w]) \in Seq(Requests)
             /\ Head(inbox[w]).kind \in Kinds /\ Head(inbox[w]).id \in Nat
  <2>1. Head(inbox[w]) \in Requests
        BY <1>4, SequenceFacts DEF Message, WireTypes
  <2>2. QED
        BY <1>4, <2>1, SequenceFacts DEF Message, WireTypes, Requests
<1>5. /\ "asked" \in Kinds /\ "cancelling" \in Kinds /\ "committing" \in Kinds
      /\ txn[w].id \in Nat /\ txn[w].owner \in Nat /\ version[w] \in Nat /\ link[w] \in Nat
      BY DEF Kinds, WorkerTypes, WireTypes, Txns
\* Whatever a step makes of a transaction has its type.
<1>6. /\ NoTxn \in Txns
      /\ \A o, i \in Nat : [NoTxn EXCEPT !.at = "preparing", !.owner = o, !.id = i] \in Txns
      /\ \A a \in {"drained", "fencing", "quiescing", "prepared"} : [txn[w] EXCEPT !.at = a] \in Txns
      /\ \A n \in Nat : [txn[w] EXCEPT !.at = "prepared", !.saved = n] \in Txns
      /\ [txn[w] EXCEPT !.at = "publishing", !.timed = FALSE] \in Txns
      /\ [txn[w] EXCEPT !.aborted = TRUE] \in Txns
      BY DEF WorkerTypes, Txns, NoTxn
<1>7. CASE WorkerPrepare(w)
  <2>1. outbox' \in [Workers -> Seq(Responses)]
        BY <1>4, <1>5, <1>7, ReplyType DEF WorkerPrepare, WireTypes
  <2>2. WireTypes'
        BY <1>4, <1>5, <1>7, <2>1 DEF WorkerPrepare, Taken, WireTypes
  <2>3. WorkerTypes'
        BY <1>4, <1>5, <1>6, <1>7 DEF WorkerPrepare, WorkerTypes
  <2>4. QED
        BY <2>2, <2>3
<1>8. CASE WorkerDrained(w) \/ WorkerPauses(w) \/ Deadline(w)
  <2>1. WireTypes'
        BY <1>8, UnchangedTypes DEF WorkerDrained, WorkerPauses, Deadline
  <2>2. WorkerTypes'
        BY <1>6, <1>8 DEF WorkerDrained, WorkerPauses, Deadline, Becomes, WorkerTypes
  <2>3. QED
        BY <2>1, <2>2
<1>9. CASE WorkerCaptures(w)
  <2>1. outbox' \in [Workers -> Seq(Responses)]
        BY <1>5, <1>9, ReplyType DEF WorkerCaptures
  <2>2. WireTypes'
        BY <1>9, <2>1 DEF WorkerCaptures, WireTypes
  <2>3. WorkerTypes'
        BY <1>5, <1>6, <1>9 DEF WorkerCaptures, WorkerTypes
  <2>4. QED
        BY <2>2, <2>3
<1>10. CASE WorkerCancels(w)
  <2>1. outbox' \in [Workers -> Seq(Responses)]
        BY <1>4, <1>5, <1>10, ReplyType DEF WorkerCancels
  <2>2. WireTypes'
        BY <1>4, <1>5, <1>10, <2>1 DEF WorkerCancels, Taken, WireTypes
  <2>3. WorkerTypes'
        BY <1>6, <1>10 DEF WorkerCancels, WorkerTypes
  <2>4. QED
        BY <2>2, <2>3
<1>11. CASE WorkerCommits(w)
  <2>1. outbox' \in [Workers -> Seq(Responses)]
        BY <1>4, <1>5, <1>11, ReplyType DEF WorkerCommits, WireTypes
  <2>2. WireTypes'
        BY <1>4, <1>5, <1>11, <2>1 DEF WorkerCommits, Taken, WireTypes
  <2>3. WorkerTypes'
        BY <1>6, <1>11 DEF WorkerCommits, WorkerTypes
  <2>4. QED
        BY <2>2, <2>3
<1>12. CASE WorkerPublished(w)
  <2>1. CASE link[w] = txn[w].owner
    <3>1. outbox' \in [Workers -> Seq(Responses)]
          BY <1>5, <1>12, <2>1, ReplyType DEF WorkerPublished, CommitReply
    <3>2. WireTypes' /\ WorkerTypes'
          BY <1>12, <2>1, <3>1 DEF WorkerPublished, WireTypes, WorkerTypes
    <3>3. QED
          BY <3>2
  <2>2. CASE link[w] # txn[w].owner
    <3>1. Exits(w) /\ UNCHANGED <<conns, version>> /\ published' = published \cup {w}
          BY <1>12, <2>2 DEF WorkerPublished
    <3>2. WireTypes'
          BY <3>1 DEF Exits, Lost, WireTypes
    <3>3. WorkerTypes'
          BY <1>6, <3>1 DEF Exits, Lost, WorkerTypes
    <3>4. QED
          BY <3>2, <3>3
  <2>3. QED
        BY <2>1, <2>2
<1>13. CASE PublishFails(w)
  <2>1. outbox' \in [Workers -> Seq(Responses)]
        BY <1>5, <1>13, ReplyType DEF PublishFails, CommitReply
  <2>2. WireTypes'
        BY <1>13, <2>1 DEF PublishFails, WireTypes
  <2>3. WorkerTypes'
        BY <1>6, <1>13 DEF PublishFails, WorkerTypes
  <2>4. QED
        BY <2>2, <2>3
<1>14. CASE BeginInput(w) \/ EndInput(w)
  <2>1. WireTypes'
        BY <1>14, UnchangedTypes DEF BeginInput, EndInput
  <2>2. WorkerTypes'
    <3>1. CASE BeginInput(w)
          BY <3>1 DEF BeginInput, WorkerTypes
    <3>2. CASE EndInput(w)
          BY <3>2 DEF EndInput, WorkerTypes
    <3>3. QED
          BY <1>14, <3>1, <3>2
  <2>3. QED
        BY <2>1, <2>2
<1>15. CASE WorkerLoses(w) \/ SupervisorLoses(w) \/ Reconnect(w)
  <2>1. WireTypes'
    <3>1. CASE WorkerLoses(w)
          BY <3>1 DEF WorkerLoses, Lost, WireTypes
    <3>2. CASE SupervisorLoses(w)
          BY <3>2 DEF SupervisorLoses, WireTypes
    <3>3. CASE Reconnect(w)
          BY <3>3 DEF Reconnect, Lost, WireTypes
    <3>4. QED
          BY <1>15, <3>1, <3>2, <3>3
  <2>2. Unbound(w) \in [Workers -> Txns]
        BY <1>6 DEF Unbound, Cancelled, WorkerTypes
  <2>3. WorkerTypes'
        BY <1>15, <2>2 DEF WorkerLoses, SupervisorLoses, Reconnect, Lost, WorkerTypes, worker
  <2>4. QED
        BY <2>1, <2>3
<1>16. QED
      BY <1>3, <1>7, <1>8, <1>9, <1>10, <1>11, <1>12, <1>13, <1>14, <1>15 DEF WorkerTransaction

LEMMA TypeCommandAtWorker ==
    ASSUME TypeOK, NEW c \in Commands, WorkerTakes(c) \/ WorkerDoes(c)
    PROVE  TypeOK'
<1>1. UNCHANGED <<supervisor, wire>>
      BY DEF WorkerTakes, WorkerDoes
<1>2. Target[c] \in Workers
      BY RestartAssumption
<1>3. WorkerTypes'
      BY <1>2 DEF TypeOK, WorkerTypes, WorkerTakes, WorkerDoes
<1>4. QED
      BY <1>1, <1>3, UnchangedTypes DEF TypeOK

LEMMA TypePreserved == TypeOK /\ [Next]_vars => TypeOK'
<1>1. TypeOK /\ UNCHANGED vars => TypeOK'
      BY UnchangedTypes DEF TypeOK, vars
<1>2. TypeOK /\ Next => TypeOK'
      BY TypeSupervisor, TypeExchange, TypeWorker, TypeCommandAtWorker DEF Next, Preparation
<1>3. QED
      BY <1>1, <1>2

\* The variables keep their types.
THEOREM TypeCorrect == Spec => []TypeOK
    BY TypeInitially, TypePreserved, PTL DEF Spec

-----------------------------------------------------------------------------
(* The latch counts what is in flight. *)

\* begin()
LEMMA BeginsCount ==
    ASSUME IsFiniteSet(InFlight), cmd \in [Commands -> {"new", "waiting", "inflight", "done"}],
           NEW c \in Commands, cmd[c] # "inflight", cmd' = [cmd EXCEPT ![c] = "inflight"]
    PROVE  IsFiniteSet(InFlight') /\ Cardinality(InFlight') = Cardinality(InFlight) + 1
<1>1. InFlight' = InFlight \cup {c} /\ c \notin InFlight
      BY DEF InFlight
<1>2. QED
      BY <1>1, FS_AddElement

\* end()
LEMMA EndsCount ==
    ASSUME IsFiniteSet(InFlight), cmd \in [Commands -> {"new", "waiting", "inflight", "done"}],
           NEW c \in Commands, cmd[c] = "inflight", cmd' = [cmd EXCEPT ![c] = "done"]
    PROVE  IsFiniteSet(InFlight') /\ Cardinality(InFlight') = Cardinality(InFlight) - 1
<1>1. InFlight' = InFlight \ {c} /\ c \in InFlight
      BY DEF InFlight
<1>2. QED
      BY <1>1, FS_RemoveElement

\* Nothing but the preparation is counted: nothing is in flight.
LEMMA NoneInFlight ==
    ASSUME CountOK, active <= Counted
    PROVE  \A c \in Commands : cmd[c] # "inflight"
<1>1. Cardinality(InFlight) = 0
      BY FS_CardinalityType DEF CountOK, Counted
<1>2. InFlight = {}
      BY <1>1, FS_EmptySet DEF CountOK
<1>3. QED
      BY <1>2 DEF InFlight

LEMMA LatchInitially == Init => LatchInv
<1> SUFFICES ASSUME Init PROVE LatchInv
    OBVIOUS
<1>1. InFlight = {}
      BY DEF Init, InFlight
<1>2. CountOK
      BY <1>1, FS_EmptySet DEF Init, CountOK, Counted
<1>3. QED
      BY <1>2 DEF Init, LatchInv, PhaseOK, FenceOK, WaitOK, FencesAreQuiet

\* The steps of clients' commands.
LEMMA LatchCommand ==
    ASSUME TypeOK, LatchInv, NEW c \in Commands,
           Reject(c) \/ AwaitFence(c) \/ Admit(c) \/ EndCommand(c)
    PROVE  LatchInv'
<1> USE DEF TypeOK, SupervisorTypes
<1>1. CASE Reject(c)
  <2>1. InFlight' = InFlight
        BY <1>1 DEF Reject, InFlight
  <2>2. CountOK'
        BY <1>1, <2>1 DEF Reject, LatchInv, CountOK, Counted
  <2>3. PhaseOK' /\ FenceOK' /\ FencesAreQuiet'
        BY <1>1 DEF Reject, LatchInv, PhaseOK, FenceOK, FencesAreQuiet
  <2>4. WaitOK(waiters)' /\ WaitOK(resuming)'
        BY <1>1 DEF Reject, LatchInv, WaitOK
  <2>5. QED
        BY <2>2, <2>3, <2>4 DEF LatchInv
<1>2. CASE AwaitFence(c)
  <2>1. InFlight' = InFlight
        BY <1>2 DEF AwaitFence, InFlight
  <2>2. CountOK'
        BY <1>2, <2>1 DEF AwaitFence, LatchInv, CountOK, Counted
  <2>3. PhaseOK' /\ FenceOK' /\ FencesAreQuiet'
        BY <1>2 DEF AwaitFence, LatchInv, PhaseOK, FenceOK, FencesAreQuiet
  <2>4. WaitOK(waiters)'
    <3>1. /\ Len(waiters') = Len(waiters) + 1 /\ waiters'[Len(waiters) + 1] = c
          /\ \A i \in 1..Len(waiters) : waiters'[i] = waiters[i]
          /\ Len(waiters) \in Nat /\ c # "prepare"
          BY <1>2, SequenceFacts, RestartAssumption DEF AwaitFence, Waiters
    <3>2. \A i \in 1..Len(waiters) : waiters[i] # c /\ waiters[i] \in Waiters
          BY <1>2, SequenceFacts, RestartAssumption DEF AwaitFence, LatchInv, WaitOK, Waiters
    <3>3. \A i \in 1..Len(waiters) :
              IF waiters[i] = "prepare" THEN prep' = "waiting" ELSE cmd'[waiters[i]] = "waiting"
          BY <1>2, <3>2 DEF AwaitFence, LatchInv, WaitOK, Waiters
    <3>4. cmd'[c] = "waiting"
          BY <1>2 DEF AwaitFence
    <3>5. QED
      <4>1. \A i, j \in 1..Len(waiters) : waiters[i] = waiters[j] => i = j
            BY DEF LatchInv, WaitOK
      <4>2. \A i, j \in 1..Len(waiters') : waiters'[i] = waiters'[j] => i = j
            BY <3>1, <3>2, <4>1
      <4>3. \A i \in 1..Len(waiters') :
                IF waiters'[i] = "prepare" THEN prep' = "waiting" ELSE cmd'[waiters'[i]] = "waiting"
            BY <3>1, <3>3, <3>4
      <4>4. QED
            BY <4>2, <4>3 DEF WaitOK
  <2>5. WaitOK(resuming)'
        BY <1>2 DEF AwaitFence, Idle, WaitOK
  <2>6. QED
        BY <2>2, <2>3, <2>4, <2>5 DEF LatchInv
<1>3. CASE Admit(c)
  <2>1. IsFiniteSet(InFlight') /\ Cardinality(InFlight') = Cardinality(InFlight) + 1
        BY <1>3, BeginsCount DEF Admit, Begins, LatchInv, CountOK
  <2>2. CountOK'
        BY <1>3, <2>1, FS_CardinalityType DEF Admit, Begins, LatchInv, CountOK, Counted
  <2>3. PhaseOK' /\ FenceOK'
        BY <1>3 DEF Admit, LatchInv, PhaseOK, FenceOK
  <2>4. FencesAreQuiet'
        BY <1>3, RestartAssumption DEF Admit, Begins, Rejects, LatchInv, PhaseOK, FencesAreQuiet, Commands
  <2>5. WaitOK(waiters)'
    <3>1. \A i \in 1..Len(waiters) : waiters[i] # c /\ waiters[i] \in Waiters
          BY <1>3, SequenceFacts, RestartAssumption DEF Admit, LatchInv, WaitOK, Waiters
    <3>2. QED
          BY <1>3, <3>1 DEF Admit, Begins, LatchInv, WaitOK, Waiters
  <2>6. WaitOK(resuming)'
        BY <1>3 DEF Admit, Idle, WaitOK
  <2>7. QED
        BY <2>2, <2>3, <2>4, <2>5, <2>6 DEF LatchInv
<1>4. CASE EndCommand(c)
  <2>1. IsFiniteSet(InFlight') /\ Cardinality(InFlight') = Cardinality(InFlight) - 1
        BY <1>4, EndsCount DEF EndCommand, LatchInv, CountOK
  <2>2. CountOK'
        BY <1>4, <2>1, FS_CardinalityType DEF EndCommand, LatchInv, CountOK, Counted
  <2>3. PhaseOK' /\ FenceOK'
        BY <1>4 DEF EndCommand, LatchInv, PhaseOK, FenceOK
  <2>4. FencesAreQuiet'
        BY <1>4 DEF EndCommand, LatchInv, FencesAreQuiet, Commands
  <2>5. WaitOK(waiters)'
    <3>1. \A i \in 1..Len(waiters) : waiters[i] # c /\ waiters[i] \in Waiters
          BY <1>4, SequenceFacts, RestartAssumption DEF EndCommand, LatchInv, WaitOK, Waiters
    <3>2. QED
          BY <1>4, <3>1 DEF EndCommand, LatchInv, WaitOK, Waiters
  <2>6. WaitOK(resuming)'
        BY <1>4 DEF EndCommand, Idle, WaitOK
  <2>7. QED
        BY <2>2, <2>3, <2>4, <2>5, <2>6 DEF LatchInv
<1>5. QED
      BY <1>1, <1>2, <1>3, <1>4

\* The steps of the eviction sweep.
LEMMA LatchSweep ==
    ASSUME TypeOK, LatchInv, BeginSweep \/ SweepDrained \/ EndSweep
    PROVE  LatchInv'
<1> USE DEF TypeOK, SupervisorTypes
<1>1. UNCHANGED <<phase, prep, active, cmd>>
      BY DEF BeginSweep, SweepDrained, EndSweep
<1>2. InFlight' = InFlight
      BY <1>1 DEF InFlight
<1>3. CountOK' /\ PhaseOK'
      BY <1>1, <1>2 DEF LatchInv, CountOK, Counted, PhaseOK
<1>4. CASE BeginSweep
      BY <1>3, <1>4 DEF BeginSweep, Idle, LatchInv, FenceOK, WaitOK, FencesAreQuiet
<1>5. CASE SweepDrained
  <2>1. \A c \in Commands : cmd[c] # "inflight"
        BY <1>5, NoneInFlight DEF SweepDrained, LatchInv, PhaseOK, Counted, Preps
  <2>2. QED
        BY <1>3, <1>5, <2>1 DEF SweepDrained, Idle, LatchInv, FenceOK, WaitOK, FencesAreQuiet, Commands
<1>6. CASE EndSweep
  <2>1. FenceOK' /\ FencesAreQuiet'
        BY <1>6 DEF EndSweep, Idle, LatchInv, FenceOK, FencesAreQuiet, PhaseOK, Preps
  <2>2. WaitOK(resuming)' /\ WaitOK(waiters)'
        BY <1>6 DEF EndSweep, LatchInv, WaitOK
  <2>3. QED
        BY <1>3, <2>1, <2>2 DEF LatchInv
<1>7. QED
      BY <1>4, <1>5, <1>6

\* A command or the preparation resumes when the fence is released.
LEMMA LatchResume ==
    ASSUME TypeOK, LatchInv, ResumeCommand \/ ResumePrepare
    PROVE  LatchInv'
<1> USE DEF TypeOK, SupervisorTypes
<1> DEFINE r == Head(resuming)
<1>1. /\ resuming # <<>> /\ resuming' = Tail(resuming) /\ UNCHANGED <<waiters, sweep>>
      BY DEF ResumeCommand, ResumePrepare
<1>2. /\ Len(resuming) \in Nat /\ Len(resuming) >= 1 /\ r = resuming[1]
      /\ Len(resuming') = Len(resuming) - 1
      /\ \A i \in 1..Len(resuming') : resuming'[i] = resuming[i + 1] /\ resuming[i + 1] \in Waiters
      BY <1>1, SequenceFacts DEF Waiters
\* Who resumes is not among the rest.
<1>3. \A i \in 1..Len(resuming') : resuming'[i] # r
      BY <1>2 DEF LatchInv, WaitOK
<1>4. \A i, j \in 1..Len(resuming') : resuming'[i] = resuming'[j] => i = j
      BY <1>2 DEF LatchInv, WaitOK
<1>5. sweep = "idle" /\ waiters = <<>>
      BY <1>1 DEF LatchInv, FenceOK
<1>6. WaitOK(waiters)'
      BY <1>1, <1>5 DEF WaitOK
<1>7. prep \in {"idle", "waiting", "draining", "drained"}
      BY <1>1 DEF LatchInv, FenceOK
<1>8. CASE ResumeCommand
  <2>1. r \in Commands /\ cmd[r] = "waiting" /\ cmd' = [cmd EXCEPT ![r] = "inflight"]
        /\ active' = active + 1 /\ UNCHANGED <<phase, prep>>
        BY <1>2, <1>8, RestartAssumption DEF ResumeCommand, Begins, LatchInv, WaitOK
  <2>2. IsFiniteSet(InFlight') /\ Cardinality(InFlight') = Cardinality(InFlight) + 1
        BY <2>1, BeginsCount DEF LatchInv, CountOK
  <2>3. CountOK'
        BY <2>1, <2>2, FS_CardinalityType DEF LatchInv, CountOK, Counted
  <2>4. PhaseOK' /\ FenceOK' /\ FencesAreQuiet'
        BY <1>1, <1>5, <1>7, <2>1 DEF LatchInv, PhaseOK, FenceOK, FencesAreQuiet, Commands
  <2>5. \A i \in 1..Len(resuming') :
            IF resuming'[i] = "prepare" THEN prep' = "waiting" ELSE cmd'[resuming'[i]] = "waiting"
        BY <1>2, <1>3, <2>1 DEF LatchInv, WaitOK, Waiters
  <2>6. WaitOK(resuming)'
        BY <1>4, <2>5 DEF WaitOK
  <2>7. QED
        BY <1>6, <2>3, <2>4, <2>6 DEF LatchInv
<1>9. CASE ResumePrepare
  <2>1. /\ r = "prepare" /\ prep = "waiting" /\ UNCHANGED cmd
        /\ prep' \in {"draining", "drained"} /\ phase' = "draining" /\ active' = active + 1
        BY <1>2, <1>9 DEF ResumePrepare, StartsPrepare, LatchInv, WaitOK
  <2>2. InFlight' = InFlight
        BY <2>1 DEF InFlight
  <2>3. CountOK'
        BY <2>1, <2>2, FS_CardinalityType DEF LatchInv, CountOK, Counted
  <2>4. PhaseOK' /\ FenceOK' /\ FencesAreQuiet'
        BY <1>1, <1>5, <2>1 DEF LatchInv, PhaseOK, FenceOK, FencesAreQuiet
  <2>5. \A i \in 1..Len(resuming') :
            IF resuming'[i] = "prepare" THEN prep' = "waiting" ELSE cmd'[resuming'[i]] = "waiting"
        BY <1>2, <1>3, <2>1 DEF LatchInv, WaitOK
  <2>6. WaitOK(resuming)'
        BY <1>4, <2>5 DEF WaitOK
  <2>7. QED
        BY <1>6, <2>3, <2>4, <2>6 DEF LatchInv
<1>10. QED
      BY <1>8, <1>9

\* The preparation goes on: no command begins or ends.
LEMMA LatchPreparation ==
    ASSUME TypeOK, LatchInv,
           \/ PrepareCommand \/ Fencing \/ Quiet \/ DrainTimeout \/ AskWorkers \/ AllAsked
           \/ AllCancelled \/ AllCommitted \/ Prepared
    PROVE  LatchInv'
<1> USE DEF TypeOK, SupervisorTypes
<1>1. UNCHANGED <<cmd, resuming, sweep>> /\ resuming = <<>>
      BY DEF PrepareCommand, Fencing, Quiet, DrainTimeout, AskWorkers, AllAsked, AllCancelled,
         AllCommitted, Prepared, Idle
<1>2. InFlight' = InFlight
      BY <1>1 DEF InFlight
<1>3. IsFiniteSet(InFlight) /\ Cardinality(InFlight) \in Nat
      BY FS_CardinalityType DEF LatchInv, CountOK
<1>4. WaitOK(resuming)'
      BY <1>1 DEF WaitOK
<1>5. CASE PrepareCommand
  <2>1. CASE sweep = "idle"
    <3>1. /\ prep = "idle" /\ prep' \in {"draining", "drained"} /\ phase' = "draining"
          /\ active' = active + 1 /\ UNCHANGED waiters /\ waiters = <<>>
          BY <1>5, <2>1 DEF PrepareCommand, StartsPrepare, LatchInv, FenceOK
    <3>2. QED
          BY <1>1, <1>2, <1>3, <1>4, <2>1, <3>1
          DEF LatchInv, PhaseOK, CountOK, Counted, FenceOK, WaitOK, FencesAreQuiet
  <2>2. CASE sweep # "idle"
    <3>1. /\ prep = "idle" /\ prep' = "waiting" /\ waiters' = Append(waiters, "prepare")
          /\ UNCHANGED <<phase, active>>
          BY <1>5, <2>2 DEF PrepareCommand
    <3>2. PhaseOK' /\ CountOK' /\ FenceOK' /\ FencesAreQuiet'
          BY <1>1, <1>2, <1>3, <2>2, <3>1
          DEF LatchInv, PhaseOK, CountOK, Counted, FenceOK, FencesAreQuiet
    <3>3. /\ Len(waiters') = Len(waiters) + 1 /\ waiters'[Len(waiters) + 1] = "prepare"
          /\ \A i \in 1..Len(waiters) : waiters'[i] = waiters[i]
          /\ Len(waiters) \in Nat
          BY <3>1, SequenceFacts DEF Waiters
    <3>4. \A i \in 1..Len(waiters) : waiters[i] # "prepare" /\ cmd[waiters[i]] = "waiting"
          BY <3>1 DEF LatchInv, WaitOK
    <3>5. WaitOK(waiters)'
          BY <1>1, <3>1, <3>3, <3>4 DEF LatchInv, WaitOK
    <3>6. QED
          BY <1>4, <3>2, <3>5 DEF LatchInv
  <2>3. QED
        BY <2>1, <2>2
\* From here on no sweep has a fence up, and nobody waits.
<1>6. ASSUME \/ Fencing \/ Quiet \/ DrainTimeout \/ AskWorkers \/ AllAsked
             \/ AllCancelled \/ AllCommitted \/ Prepared
      PROVE  LatchInv'
  <2>1. UNCHANGED waiters /\ prep \notin {"idle", "waiting", "done"}
        BY <1>6 DEF Fencing, Quiet, DrainTimeout, AskWorkers, AllAsked, AllCancelled,
           AllCommitted, Prepared
  <2>2. sweep = "idle" /\ waiters = <<>>
        BY <2>1 DEF LatchInv, PhaseOK, FenceOK, Preps
  <2>3. FenceOK' /\ WaitOK(waiters)'
        BY <1>1, <2>1, <2>2 DEF FenceOK, WaitOK
  <2>4. SUFFICES PhaseOK' /\ active' = Cardinality(InFlight) + Counted' /\ FencesAreQuiet'
        BY <1>2, <1>3, <1>4, <2>3 DEF LatchInv, CountOK
  <2>5. CASE Fencing \/ Quiet
    <3>1. /\ prep \in {"draining", "drained", "fencing"} /\ prep' \in {"fencing", "quiet"}
          /\ prep' = "quiet" => active <= 1
          /\ phase' = "fencing" /\ UNCHANGED active
          BY <2>5 DEF Fencing, Quiet, LatchInv, PhaseOK
    <3>2. prep' = "quiet" => \A c \in Commands : cmd[c] # "inflight"
          BY <3>1, NoneInFlight DEF LatchInv, Counted
    <3>3. QED
          BY <1>1, <2>2, <3>1, <3>2 DEF LatchInv, PhaseOK, CountOK, Counted, FencesAreQuiet
  <2>6. CASE DrainTimeout \/ AllCancelled
        BY <1>1, <1>3, <2>1, <2>2, <2>6
        DEF DrainTimeout, AllCancelled, RolledBack, LatchInv, PhaseOK, CountOK, Counted, FencesAreQuiet
  <2>7. CASE AskWorkers
    <3>1. RolledBack \/ (prep' = "asking" /\ UNCHANGED <<phase, active>>)
          BY <2>7, Zenon DEF AskWorkers
    <3>2. prep = "quiet"
          BY <2>7 DEF AskWorkers
    <3>3. QED
          BY <1>1, <1>3, <2>2, <3>1, <3>2
          DEF RolledBack, LatchInv, PhaseOK, CountOK, Counted, FencesAreQuiet
  <2>8. CASE AllAsked \/ AllCommitted
    <3>1. /\ prep \in {"asking", "committing"} /\ prep' \in {"committing", "cancelling", "stopping"}
          /\ UNCHANGED <<phase, active>>
          BY <2>8 DEF AllAsked, CancelAcknowledged, AllCommitted
    <3>2. QED
          BY <1>1, <1>3, <2>2, <3>1 DEF LatchInv, PhaseOK, CountOK, Counted, FencesAreQuiet
  <2>9. CASE Prepared
        BY <1>1, <1>3, <2>2, <2>9 DEF Prepared, LatchInv, PhaseOK, CountOK, Counted, FencesAreQuiet
  <2>10. QED
        BY <1>6, <2>5, <2>6, <2>7, <2>8, <2>9
<1>7. QED
      BY <1>5, <1>6

latch == <<phase, prep, active, cmd, waiters, resuming, sweep>>

\* What workers and connections do is nothing to the latch.
LEMMA LatchElsewhere ==
    ASSUME LatchInv, UNCHANGED latch
    PROVE  LatchInv'
<1>1. InFlight' = InFlight
      BY DEF latch, InFlight
<1>2. QED
      BY <1>1 DEF latch, LatchInv, PhaseOK, CountOK, Counted, FenceOK, WaitOK, FencesAreQuiet

LEMMA LatchPreserved == TypeOK /\ LatchInv /\ [Next]_vars => LatchInv'
<1> SUFFICES ASSUME TypeOK, LatchInv, [Next]_vars PROVE LatchInv'
    OBVIOUS
<1>1. CASE UNCHANGED vars
      BY <1>1, LatchElsewhere DEF vars, supervisor, latch
<1>2. ASSUME NEW c \in Commands, WorkerTakes(c) \/ WorkerDoes(c) PROVE LatchInv'
      BY <1>2, LatchElsewhere DEF WorkerTakes, WorkerDoes, supervisor, latch
<1>3. ASSUME NEW w \in Workers,
             AskFails(w) \/ CloseUnreached(w) \/ Respond(w) \/ StopCloses(w) \/ StopFails(w)
      PROVE  LatchInv'
      BY <1>3, LatchElsewhere DEF AskFails, CloseUnreached, Respond, StopCloses, StopFails, latch
<1>4. ASSUME NEW w \in Workers,
             \/ Evict(w) \/ StopWorker(w) \/ WorkerTransaction(w)
             \/ WorkerPublished(w) \/ PublishFails(w) \/ Deadline(w)
             \/ BeginInput(w) \/ EndInput(w)
             \/ WorkerLoses(w) \/ SupervisorLoses(w) \/ Reconnect(w)
      PROVE  LatchInv'
      BY <1>4, WorkerLeavesSupervisor, LatchElsewhere DEF supervisor, latch
<1>5. QED
      BY <1>1, <1>2, <1>3, <1>4, LatchCommand, LatchSweep, LatchResume, LatchPreparation
      DEF Next, Preparation

-----------------------------------------------------------------------------
(* Checkpoints: what a step of one worker needs. *)

\* A step is nothing to a worker.
Same(v) ==
    /\ UNCHANGED <<inbox[v], outbox[v], txn[v], busy[v], version[v]>>
    /\ Handled(v)' = Handled(v)
    /\ (v \in published' <=> v \in published) /\ (v \in exited' <=> v \in exited)

LEMMA SameKeeps ==
    ASSUME NEW v \in Workers, WorkerInv(v), UNCHANGED supervisor, Same(v)
    PROVE  WorkerInv(v)'
<1> USE DEF Same, supervisor
<1>1. TxnInv(v)'
      BY DEF WorkerInv, TxnInv, TxnId, IdOK, Fresh, PublishSaved, Frozen, GoneOK, EndOK, NoTxn
<1>2. InboxInv(v)'
      BY DEF WorkerInv, InboxInv, InboxIds, IdOK, Fresh, InboxOrder, CommitAsked, AskedOnce, NotAsked
<1>3. CaptureInv(v)'
      BY DEF WorkerInv, CaptureInv, OutboxIds, IdOK, Fresh, AnswerHeld, AckHeld, ManifestHeld, Held,
         NotAsked, NoTxn
<1>4. QED
      BY <1>1, <1>2, <1>3 DEF WorkerInv

\* A worker takes its first request, or its connection is lost.
InboxShrinks(w) ==
    \/ inbox'[w] = inbox[w]
    \/ inbox'[w] = <<>>
    \/ inbox[w] # <<>> /\ inbox'[w] = Tail(inbox[w])

LEMMA InboxKept ==
    ASSUME TypeOK, NEW w \in Workers, InboxShrinks(w), UNCHANGED supervisor
    PROVE  /\ InboxIds(w) => InboxIds(w)'
           /\ InboxOrder(w) => InboxOrder(w)'
           /\ CommitAsked(w) => CommitAsked(w)'
           /\ NotAsked(w) => NotAsked(w)'
<1> USE DEF supervisor, InboxIds, IdOK, Fresh, InboxOrder, CommitAsked, NotAsked
<1>1. CASE inbox'[w] = inbox[w]
      BY <1>1
<1>2. CASE inbox'[w] = <<>>
      BY <1>2
<1>3. CASE inbox[w] # <<>> /\ inbox'[w] = Tail(inbox[w])
  <2>1. /\ Len(inbox[w]) \in Nat /\ Len(inbox'[w]) = Len(inbox[w]) - 1
        /\ \A i \in 1..Len(inbox'[w]) : inbox'[w][i] = inbox[w][i + 1] /\ i + 1 \in 1..Len(inbox[w])
        BY <1>3, SequenceFacts DEF TypeOK, WireTypes
  <2>2. (InboxIds(w) => InboxIds(w)') /\ (CommitAsked(w) => CommitAsked(w)') /\ (NotAsked(w) => NotAsked(w)')
        BY <2>1
  <2>3. ASSUME InboxOrder(w) PROVE InboxOrder(w)'
    <3>1. ASSUME NEW i \in 1..Len(inbox'[w]), NEW j \in 1..Len(inbox'[w]), i < j
          PROVE  /\ inbox'[w][i].id <= inbox'[w][j].id
                 /\ inbox'[w][i].kind = "asked" /\ inbox'[w][j].kind = "asked" =>
                       inbox'[w][i].id # inbox'[w][j].id
      <4>1. i + 1 < j + 1 /\ i + 1 \in 1..Len(inbox[w]) /\ j + 1 \in 1..Len(inbox[w])
            BY <2>1, <3>1
      <4>2. QED
            BY <2>1, <2>3, <4>1
    <3>2. QED
          BY <3>1
  <2>4. QED
        BY <2>2, <2>3
<1>4. QED
      BY <1>1, <1>2, <1>3 DEF InboxShrinks

\* What a step must keep of a checkpoint that the supervisor knows of.
HeldStays(w) == \A s \in Nat : Held(w, s) => Held(w, s)'

\* A worker says no more than it did, or answers, of a checkpoint that it holds.
Answer(w, r) ==
    /\ outbox'[w] = Append(outbox[w], r) /\ IdOK(r.id)
    /\ r.kind = "asked" /\ r.ok /\ r.id = tries => Held(w, r.saved)'
Says(w) == outbox'[w] \in {outbox[w], <<>>} \/ \E r \in Responses : Answer(w, r)

LEMMA CaptureKept ==
    ASSUME TypeOK, NEW w \in Workers, CaptureInv(w), UNCHANGED supervisor, HeldStays(w), Says(w)
    PROVE  CaptureInv(w)'
<1> USE DEF TypeOK, supervisor
<1>1. AckHeld(w)' /\ ManifestHeld(w)'
      BY DEF CaptureInv, AckHeld, ManifestHeld, HeldStays, SupervisorTypes, Asks
<1>2. \A i \in 1..Len(outbox[w]) : outbox[w][i].saved \in Nat
  <2>1. outbox[w] \in Seq(Responses)
        BY DEF WireTypes
  <2>2. \A i \in 1..Len(outbox[w]) : outbox[w][i] \in Responses
        BY <2>1
  <2>3. QED
        BY <2>2 DEF Responses
<1>3. CASE outbox'[w] = outbox[w] \/ outbox'[w] = <<>>
  <2>1. \A i \in 1..Len(outbox'[w]) : i \in 1..Len(outbox[w]) /\ outbox'[w][i] = outbox[w][i]
        BY <1>3, EmptySeq
  <2>2. OutboxIds(w)'
        BY <2>1 DEF CaptureInv, OutboxIds, IdOK, Fresh
  <2>3. AnswerHeld(w)'
        BY <1>2, <2>1 DEF CaptureInv, AnswerHeld, HeldStays
  <2>4. QED
        BY <1>1, <2>2, <2>3 DEF CaptureInv
<1>4. ASSUME NEW r \in Responses, Answer(w, r) PROVE CaptureInv(w)'
  <2>1. /\ Len(outbox'[w]) = Len(outbox[w]) + 1 /\ outbox'[w][Len(outbox[w]) + 1] = r
        /\ \A i \in 1..Len(outbox[w]) : outbox'[w][i] = outbox[w][i]
        /\ Len(outbox[w]) \in Nat
        BY <1>4, SequenceFacts DEF Answer, WireTypes
  <2>2. OutboxIds(w)'
        BY <1>4, <2>1 DEF CaptureInv, OutboxIds, IdOK, Fresh, Answer
  <2>3. AnswerHeld(w)'
        BY <1>4, <1>2, <2>1 DEF CaptureInv, AnswerHeld, HeldStays, Answer
  <2>4. QED
        BY <1>1, <2>2, <2>3 DEF CaptureInv
<1>5. QED
      BY <1>3, <1>4 DEF Says

\* A step of one worker keeps the invariant when it keeps what is the worker's.
LEMMA OneWorker ==
    ASSUME TypeOK, CheckpointInv, NEW w \in Workers, UNCHANGED supervisor,
           \A v \in Workers \ {w} : Same(v), exited \subseteq exited',
           InboxShrinks(w), HeldStays(w), TxnInv(w)', AskedOnce(w)', Says(w)
    PROVE  CheckpointInv'
<1>1. AsksIdle' /\ ManifestIsFinal' /\ StoppedOK'
      BY DEF CheckpointInv, AsksIdle, ManifestIsFinal, StoppedOK, supervisor, NoManifest
<1>2. WorkerInv(w)
      BY DEF CheckpointInv
<1>3. InboxInv(w)'
      BY <1>2, InboxKept DEF WorkerInv, InboxInv
<1>4. CaptureInv(w)'
      BY <1>2, CaptureKept DEF WorkerInv
<1>5. WorkerInv(w)'
      BY <1>3, <1>4 DEF WorkerInv
<1>6. ASSUME NEW v \in Workers, v # w PROVE WorkerInv(v)'
      BY <1>6, SameKeeps DEF CheckpointInv
<1>7. QED
      BY <1>1, <1>5, <1>6 DEF CheckpointInv

LEMMA CheckpointInitially == Init => CheckpointInv
<1> SUFFICES ASSUME Init PROVE CheckpointInv
    OBVIOUS
<1>1. AsksIdle /\ ManifestIsFinal /\ StoppedOK
      BY DEF Init, AsksIdle, ManifestIsFinal, StoppedOK
<1>2. ASSUME NEW w \in Workers PROVE WorkerInv(w)
  <2>1. inbox[w] = <<>> /\ outbox[w] = <<>> /\ txn[w] = NoTxn /\ ask[w] = NoAsk /\ manifest[w] = None
        BY DEF Init, NoManifest
  <2>2. TxnInv(w)
        BY <2>1 DEF Init, TxnInv, TxnId, PublishSaved, Frozen, GoneOK, EndOK, NoTxn
  <2>3. InboxInv(w)
        BY <2>1 DEF InboxInv, InboxIds, InboxOrder, CommitAsked, AskedOnce, NotAsked
  <2>4. CaptureInv(w)
        BY <2>1 DEF CaptureInv, OutboxIds, AnswerHeld, AckHeld, ManifestHeld, NoAsk
  <2>5. QED
        BY <2>2, <2>3, <2>4 DEF WorkerInv
<1>3. QED
      BY <1>1, <1>2 DEF CheckpointInv

LEMMA ReplySays ==
    ASSUME TypeOK, NEW w \in Workers, NEW m, m.kind \in Kinds, m.id \in Nat, IdOK(m.id),
           NEW ok \in BOOLEAN, NEW saved \in Nat, Reply(w, m, ok, saved),
           m.kind = "asked" /\ ok /\ m.id = tries => Held(w, saved)'
    PROVE  Says(w) /\ \A v \in Workers \ {w} : outbox'[v] = outbox[v]
<1> DEFINE r == [kind |-> m.kind, id |-> m.id, ok |-> ok, saved |-> saved]
<1>1. r \in Responses
      BY DEF Responses
<1>2. outbox' = outbox \/ outbox' = [outbox EXCEPT ![w] = Append(@, r)]
      BY DEF Reply
<1>3. CASE outbox' = outbox
      BY <1>3 DEF Says
<1>4. CASE outbox' = [outbox EXCEPT ![w] = Append(@, r)]
  <2>1. outbox'[w] = Append(outbox[w], r) /\ \A v \in Workers \ {w} : outbox'[v] = outbox[v]
        BY <1>4 DEF TypeOK, WireTypes
  <2>2. Answer(w, r)
        BY <2>1 DEF Answer
  <2>3. QED
        BY <1>1, <2>1, <2>2 DEF Says
<1>5. QED
      BY <1>2, <1>3, <1>4

\* The first request of a worker.
LEMMA FirstRequest ==
    ASSUME TypeOK, CheckpointInv, NEW w \in Workers, NEW kind \in Kinds, Message(w, kind), Taken(w)
    PROVE  /\ InboxShrinks(w) /\ \A v \in Workers \ {w} : inbox'[v] = inbox[v]
           /\ Len(inbox[w]) \in Nat /\ Len(inbox[w]) >= 1 /\ Head(inbox[w]) = inbox[w][1]
           /\ Head(inbox[w]).kind = kind /\ Head(inbox[w]).id \in Nat /\ IdOK(Head(inbox[w]).id)
           /\ Len(inbox'[w]) = Len(inbox[w]) - 1
           /\ \A i \in 1..Len(inbox'[w]) : inbox'[w][i] = inbox[w][i + 1] /\ i + 1 \in 1..Len(inbox[w])
<1>1. inbox[w] \in Seq(Requests) /\ inbox[w] # <<>>
      BY DEF TypeOK, WireTypes, Message
<1>2. /\ Len(inbox[w]) \in Nat /\ Len(inbox[w]) >= 1 /\ Head(inbox[w]) = inbox[w][1]
      /\ Head(inbox[w]) \in Requests /\ Len(Tail(inbox[w])) = Len(inbox[w]) - 1
      /\ \A i \in 1..Len(Tail(inbox[w])) : Tail(inbox[w])[i] = inbox[w][i + 1]
      BY <1>1, SequenceFacts
<1>3. inbox'[w] = Tail(inbox[w]) /\ \A v \in Workers \ {w} : inbox'[v] = inbox[v]
      BY DEF Taken, TypeOK, WireTypes
<1>4. IdOK(Head(inbox[w]).id)
      BY <1>2 DEF CheckpointInv, WorkerInv, InboxInv, InboxIds
<1>5. QED
      BY <1>1, <1>2, <1>3, <1>4 DEF InboxShrinks, Message, Requests

\* A worker that exits forgets everything but what it had published.
LEMMA ExitKeeps ==
    ASSUME TypeOK, CheckpointInv, NEW w \in Workers, UNCHANGED <<supervisor, version>>, Exits(w),
           published' \in {published, published \cup {w}},
           w \in published' => manifest[w] = version[w]
    PROVE  CheckpointInv'
<1>1. /\ inbox'[w] = <<>> /\ outbox'[w] = <<>> /\ txn'[w] = NoTxn /\ ~busy'[w] /\ w \in exited'
      /\ Handled(w)' = {}
      BY DEF Exits, Lost, TypeOK, WireTypes, WorkerTypes, Handled, Of
<1>2. ASSUME NEW v \in Workers \ {w} PROVE Same(v)
      BY DEF Same, Exits, Lost, TypeOK, WireTypes, WorkerTypes, Handled, Of
<1>3. InboxShrinks(w) /\ Says(w) /\ exited \subseteq exited'
      BY <1>1 DEF InboxShrinks, Says, Exits
<1>4. HeldStays(w) /\ AskedOnce(w)'
      BY <1>1, EmptySeq DEF HeldStays, Held, NotAsked, AskedOnce
<1>5. TxnInv(w)'
      BY <1>1 DEF TxnInv, TxnId, PublishSaved, Frozen, GoneOK, EndOK, NoTxn, supervisor
<1>6. QED
      BY <1>2, <1>3, <1>4, <1>5, OneWorker

\* Steps of a transaction on its own: the drains, the pause, the deadline.
LEMMA CheckpointAdvances ==
    ASSUME TypeOK, CheckpointInv, NEW w \in Workers, WorkerDrained(w) \/ WorkerPauses(w) \/ Deadline(w)
    PROVE  CheckpointInv'
<1>1. /\ UNCHANGED <<supervisor, wire, handling, queued, busy, version, published, exited>>
      /\ Runs(w)
      BY DEF WorkerDrained, WorkerPauses, Deadline, Phase
<1>2. ASSUME NEW v \in Workers \ {w} PROVE Same(v)
      BY <1>1 DEF Same, WorkerDrained, WorkerPauses, Deadline, Becomes, TypeOK, WorkerTypes, Handled, wire
<1>3. InboxShrinks(w) /\ Says(w) /\ exited \subseteq exited'
      BY <1>1 DEF InboxShrinks, Says, wire
<1>4. UNCHANGED <<inbox, outbox>> /\ Handled(w)' = Handled(w)
      BY <1>1 DEF wire, Handled
<1>5. TxnInv(w) /\ AskedOnce(w)
      BY DEF CheckpointInv, WorkerInv, InboxInv
<1>6. CASE Deadline(w)
  <2>1. txn'[w] = NoTxn /\ txn[w].at # "publishing"
        BY <1>5, <1>6 DEF Deadline, TypeOK, WorkerTypes, TxnInv, PublishSaved
  <2>2. HeldStays(w) /\ AskedOnce(w)'
        BY <1>4, <2>1 DEF HeldStays, Held, NotAsked, AskedOnce, NoTxn
  <2>3. TxnInv(w)'
        BY <1>1, <1>5, <2>1 DEF TxnInv, TxnId, PublishSaved, Frozen, GoneOK, EndOK, NoTxn, Runs, supervisor
  <2>4. QED
        BY <1>1, <1>2, <1>3, <2>2, <2>3, OneWorker
<1>7. CASE WorkerDrained(w) \/ WorkerPauses(w)
  <2>1. PICK a \in {"drained", "fencing", "quiescing"} :
            /\ txn' = [txn EXCEPT ![w].at = a] /\ txn[w].at \in {"preparing", "drained", "fencing"}
            /\ a = "quiescing" => Handled(w) = {}
        BY <1>7 DEF WorkerDrained, WorkerPauses, Becomes, Phase
  <2>2. txn[w] \in Txns
        BY DEF TypeOK, WorkerTypes
  <2>3. /\ txn'[w].at = a /\ txn'[w].id = txn[w].id /\ txn'[w].timed = txn[w].timed
        /\ txn[w] # NoTxn
        BY <2>1, <2>2 DEF TypeOK, WorkerTypes, Txns, NoTxn
  <2>4. HeldStays(w) /\ AskedOnce(w)'
        BY <1>1, <1>4, <1>5, <2>1, <2>3 DEF HeldStays, Held, NotAsked, AskedOnce, supervisor
  <2>5. TxnInv(w)'
        BY <1>1, <1>4, <1>5, <2>1, <2>3
        DEF TxnInv, TxnId, IdOK, Fresh, PublishSaved, Frozen, GoneOK, EndOK, Runs, supervisor
  <2>6. QED
        BY <1>1, <1>2, <1>3, <2>4, <2>5, OneWorker
<1>8. QED
      BY <1>6, <1>7

\* worker_prepare_update: a request of this preparation comes once, so none is
\* left behind the transaction that it opens.
LEMMA CheckpointPrepare ==
    ASSUME TypeOK, CheckpointInv, NEW w \in Workers, WorkerPrepare(w)
    PROVE  CheckpointInv'
<1> DEFINE m == Head(inbox[w])
<1>1. /\ UNCHANGED <<supervisor, handling, queued, busy, version, published, exited>>
      /\ Message(w, "asked") /\ Taken(w) /\ Runs(w) /\ "asked" \in Kinds
      BY DEF WorkerPrepare, Message, Kinds
<1>2. /\ InboxShrinks(w) /\ \A v \in Workers \ {w} : inbox'[v] = inbox[v]
      /\ Len(inbox[w]) \in Nat /\ Len(inbox[w]) >= 1 /\ m = inbox[w][1]
      /\ m.kind = "asked" /\ m.id \in Nat /\ IdOK(m.id)
      /\ Len(inbox'[w]) = Len(inbox[w]) - 1
      /\ \A i \in 1..Len(inbox'[w]) : inbox'[w][i] = inbox[w][i + 1] /\ i + 1 \in 1..Len(inbox[w])
      BY <1>1, FirstRequest
<1>3. ~NotAsked(w) /\ HeldStays(w)
      BY <1>2 DEF NotAsked, HeldStays, Held
<1>4. WorkerInv(w) /\ Handled(w)' = Handled(w)
      BY <1>1 DEF CheckpointInv, Handled
<1>5. CASE txn[w] = NoTxn
  <2>1. /\ UNCHANGED outbox
        /\ txn' = [txn EXCEPT ![w] = [NoTxn EXCEPT !.at = "preparing", !.owner = link[w], !.id = m.id]]
        BY <1>5 DEF WorkerPrepare
  <2>2. txn'[w].at = "preparing" /\ txn'[w].id = m.id /\ txn'[w].timed
        BY <2>1 DEF TypeOK, WorkerTypes, NoTxn
  <2>3. ASSUME NEW v \in Workers \ {w} PROVE Same(v)
        BY <1>1, <1>2, <2>1 DEF Same, TypeOK, WorkerTypes, Handled
  <2>4. AskedOnce(w)'
    <3>1. SUFFICES ASSUME m.id = tries, NEW i \in 1..Len(inbox'[w]) PROVE inbox'[w][i].kind # "asked"
          BY <1>1, <2>2 DEF AskedOnce, NotAsked, supervisor
    <3>2. inbox[w][i + 1].id <= tries /\ 1 < i + 1 /\ inbox[w][1].id = tries
          BY <1>2, <1>4, <3>1 DEF WorkerInv, InboxInv, InboxIds, IdOK
    <3>3. inbox[w][1].id <= inbox[w][i + 1].id
          BY <1>2, <1>4, <3>2 DEF WorkerInv, InboxInv, InboxOrder
    <3>4. inbox[w][i + 1] \in Requests
          BY <1>2 DEF TypeOK, WireTypes
    <3>5. inbox[w][1].id = inbox[w][i + 1].id
          BY <3>2, <3>3, <3>4 DEF TypeOK, SupervisorTypes, Requests
    <3>6. 1 \in 1..Len(inbox[w]) /\ i + 1 \in 1..Len(inbox[w]) /\ 1 < i + 1
          BY <1>2
    <3>7. inbox[w][1].kind = "asked" /\ inbox[w][i + 1].kind = "asked" =>
              inbox[w][1].id # inbox[w][i + 1].id
          BY <1>4, <3>6 DEF WorkerInv, InboxInv, InboxOrder
    <3>8. QED
          BY <1>2, <3>5, <3>7
  <2>5. TxnInv(w)'
        BY <1>1, <1>2, <1>4, <1>5, <2>2
        DEF WorkerInv, TxnInv, TxnId, IdOK, Fresh, PublishSaved, Frozen, GoneOK, EndOK, Runs, NoTxn, supervisor
  <2>6. Says(w)
        BY <2>1 DEF Says
  <2>7. QED
        BY <1>1, <1>2, <1>3, <2>3, <2>4, <2>5, <2>6, OneWorker
<1>6. CASE txn[w] # NoTxn
  <2>1. Reply(w, m, FALSE, 0) /\ UNCHANGED txn
        BY <1>6 DEF WorkerPrepare
  <2>2. Says(w) /\ \A v \in Workers \ {w} : outbox'[v] = outbox[v]
        BY <1>1, <1>2, <2>1, ReplySays
  <2>3. ASSUME NEW v \in Workers \ {w} PROVE Same(v)
        BY <1>1, <1>2, <2>1, <2>2 DEF Same, Handled
  <2>4. TxnInv(w)'
        BY <1>1, <1>4, <2>1
        DEF WorkerInv, TxnInv, TxnId, IdOK, Fresh, PublishSaved, Frozen, GoneOK, EndOK, NoTxn, supervisor
  <2>5. AskedOnce(w)'
        BY <1>1, <1>2, <1>4, <2>1, InboxKept DEF WorkerInv, InboxInv, AskedOnce, supervisor
  <2>6. QED
        BY <1>1, <1>2, <1>3, <2>2, <2>3, <2>4, <2>5, OneWorker
<1>7. QED
      BY <1>5, <1>6

\* The capture: what the worker answers with is what it holds.
LEMMA CheckpointCaptures ==
    ASSUME TypeOK, CheckpointInv, NEW w \in Workers, WorkerCaptures(w)
    PROVE  CheckpointInv'
<1> DEFINE m == [kind |-> "asked", via |-> txn[w].owner, id |-> txn[w].id]
<1>1. /\ UNCHANGED <<supervisor, inbox, handling, queued, busy, version, published, exited>>
      /\ Runs(w) /\ txn[w].at = "quiescing" /\ ~busy[w]
      /\ txn' = [txn EXCEPT ![w].at = "prepared", ![w].saved = version[w]]
      /\ Reply(w, m, TRUE, version[w])
      BY DEF WorkerCaptures, Phase
<1>2. txn[w] \in Txns /\ version[w] \in Nat
      BY DEF TypeOK, WorkerTypes
<1>3. /\ txn'[w].at = "prepared" /\ txn'[w].saved = version[w]
      /\ txn'[w].id = txn[w].id /\ txn'[w].timed = txn[w].timed /\ txn[w] # NoTxn
      BY <1>1, <1>2 DEF TypeOK, WorkerTypes, Txns, NoTxn
<1>4. WorkerInv(w) /\ Handled(w)' = Handled(w)
      BY <1>1 DEF CheckpointInv, Handled
<1>5. HeldStays(w)
      BY <1>1, <1>3 DEF HeldStays, Held
<1>6. AskedOnce(w)'
      BY <1>1, <1>3, <1>4 DEF WorkerInv, InboxInv, AskedOnce, NotAsked, supervisor
<1>7. m.kind \in Kinds /\ m.id \in Nat /\ m.id = txn[w].id
      BY <1>2 DEF Kinds, Txns
<1>8. IdOK(m.id)
      BY <1>1, <1>4, <1>7 DEF WorkerInv, TxnInv, TxnId
<1>9. m.id = tries => Held(w, version[w])'
  <2>1. m.id = tries => NotAsked(w)
        BY <1>1, <1>4, <1>7 DEF WorkerInv, InboxInv, AskedOnce
  <2>2. QED
        BY <1>1, <1>3, <2>1 DEF Held, NotAsked
<1>10. Says(w) /\ \A v \in Workers \ {w} : outbox'[v] = outbox[v]
      BY <1>1, <1>2, <1>7, <1>8, <1>9, ReplySays
<1>11. ASSUME NEW v \in Workers \ {w} PROVE Same(v)
      BY <1>1, <1>10 DEF Same, TypeOK, WorkerTypes, Handled
<1>12. TxnInv(w)'
      BY <1>1, <1>3, <1>4
      DEF WorkerInv, TxnInv, TxnId, IdOK, Fresh, PublishSaved, Frozen, GoneOK, EndOK, Runs, supervisor
<1>13. InboxShrinks(w)
      BY <1>1 DEF InboxShrinks
<1>14. QED
      BY <1>1, <1>5, <1>6, <1>10, <1>11, <1>12, <1>13, OneWorker

\* worker_cancel_update: the transaction is dropped, or the worker refuses.
LEMMA CheckpointCancels ==
    ASSUME TypeOK, CheckpointInv, NEW w \in Workers, WorkerCancels(w)
    PROVE  CheckpointInv'
<1> DEFINE m == Head(inbox[w])
<1>1. /\ UNCHANGED <<supervisor, handling, queued, busy, version, published, exited>>
      /\ Message(w, "cancelling") /\ Taken(w) /\ Runs(w) /\ "cancelling" \in Kinds
      BY DEF WorkerCancels, Message, Kinds
<1>2. /\ InboxShrinks(w) /\ \A v \in Workers \ {w} : inbox'[v] = inbox[v]
      /\ m.kind = "cancelling" /\ m.id \in Nat /\ IdOK(m.id)
      BY <1>1, FirstRequest
<1>3. PICK ok \in BOOLEAN :
          /\ Reply(w, m, ok, 0)
          /\ txn' = txn \/ (txn' = [txn EXCEPT ![w] = NoTxn] /\ txn[w].at # "publishing")
      BY DEF WorkerCancels
<1>4. Says(w) /\ \A v \in Workers \ {w} : outbox'[v] = outbox[v]
      BY <1>1, <1>2, <1>3, ReplySays
<1>5. WorkerInv(w) /\ Handled(w)' = Handled(w)
      BY <1>1 DEF CheckpointInv, Handled
<1>6. /\ \A v \in Workers \ {w} : txn'[v] = txn[v]
      /\ txn'[w] = txn[w] \/ (txn'[w] = NoTxn /\ txn[w].at # "publishing")
      BY <1>3 DEF TypeOK, WorkerTypes
<1>7. NotAsked(w) => NotAsked(w)'
      BY <1>1, <1>2, InboxKept
<1>8. HeldStays(w) /\ AskedOnce(w)'
      BY <1>1, <1>5, <1>6, <1>7 DEF HeldStays, Held, WorkerInv, InboxInv, AskedOnce, NoTxn, supervisor
<1>9. TxnInv(w)'
      BY <1>1, <1>5, <1>6
      DEF WorkerInv, TxnInv, TxnId, IdOK, Fresh, PublishSaved, Frozen, GoneOK, EndOK, Runs, NoTxn, supervisor
<1>10. ASSUME NEW v \in Workers \ {w} PROVE Same(v)
      BY <1>1, <1>2, <1>4, <1>6 DEF Same, Handled
<1>11. QED
      BY <1>1, <1>2, <1>4, <1>8, <1>9, <1>10, OneWorker

\* worker_commit_update: the commit comes after the manifest.
LEMMA CheckpointCommits ==
    ASSUME TypeOK, CheckpointInv, NEW w \in Workers, WorkerCommits(w)
    PROVE  CheckpointInv'
<1> DEFINE m == Head(inbox[w])
<1>1. /\ UNCHANGED <<supervisor, handling, queued, busy, version, published, exited>>
      /\ Message(w, "committing") /\ Taken(w) /\ Runs(w) /\ "committing" \in Kinds
      BY DEF WorkerCommits, Message, Kinds
<1>2. /\ InboxShrinks(w) /\ \A v \in Workers \ {w} : inbox'[v] = inbox[v]
      /\ Len(inbox[w]) \in Nat /\ Len(inbox[w]) >= 1 /\ m = inbox[w][1]
      /\ m.kind = "committing" /\ m.id \in Nat /\ IdOK(m.id)
      BY <1>1, FirstRequest
<1>3. WorkerInv(w) /\ Handled(w)' = Handled(w)
      BY <1>1 DEF CheckpointInv, Handled
<1>4. manifest[w] # None
      BY <1>2, <1>3 DEF WorkerInv, InboxInv, CommitAsked
<1>5. NotAsked(w) => NotAsked(w)'
      BY <1>1, <1>2, InboxKept
<1>6. CASE txn[w].at = "prepared" /\ txn[w].owner = link[w]
  <2>1. UNCHANGED outbox /\ txn' = [txn EXCEPT ![w].at = "publishing", ![w].timed = FALSE]
        BY <1>6 DEF WorkerCommits
  <2>2. txn[w] \in Txns
        BY DEF TypeOK, WorkerTypes
  <2>3. /\ txn'[w].at = "publishing" /\ ~txn'[w].timed
        /\ txn'[w].id = txn[w].id /\ txn'[w].saved = txn[w].saved /\ txn[w] # NoTxn
        BY <1>6, <2>1, <2>2 DEF TypeOK, WorkerTypes, Txns, NoTxn
  <2>4. HeldStays(w) /\ AskedOnce(w)'
        BY <1>1, <1>3, <1>5, <1>6, <2>3 DEF HeldStays, Held, WorkerInv, InboxInv, AskedOnce, supervisor
  <2>5. TxnInv(w)'
        BY <1>1, <1>3, <1>4, <1>6, <2>3
        DEF WorkerInv, TxnInv, TxnId, IdOK, Fresh, PublishSaved, Frozen, GoneOK, EndOK, Runs, supervisor
  <2>6. ASSUME NEW v \in Workers \ {w} PROVE Same(v)
        BY <1>1, <1>2, <2>1 DEF Same, TypeOK, WorkerTypes, Handled
  <2>7. Says(w)
        BY <2>1 DEF Says
  <2>8. QED
        BY <1>1, <1>2, <2>4, <2>5, <2>6, <2>7, OneWorker
<1>7. CASE ~(txn[w].at = "prepared" /\ txn[w].owner = link[w])
  <2>1. Reply(w, m, FALSE, 0) /\ UNCHANGED txn
        BY <1>7 DEF WorkerCommits
  <2>2. Says(w) /\ \A v \in Workers \ {w} : outbox'[v] = outbox[v]
        BY <1>1, <1>2, <2>1, ReplySays
  <2>3. HeldStays(w) /\ AskedOnce(w)'
        BY <1>1, <1>3, <1>5, <2>1 DEF HeldStays, Held, WorkerInv, InboxInv, AskedOnce, supervisor
  <2>4. TxnInv(w)'
        BY <1>1, <1>3, <2>1
        DEF WorkerInv, TxnInv, TxnId, IdOK, Fresh, PublishSaved, Frozen, GoneOK, EndOK, NoTxn, supervisor
  <2>5. ASSUME NEW v \in Workers \ {w} PROVE Same(v)
        BY <1>1, <1>2, <2>1, <2>2 DEF Same, Handled
  <2>6. QED
        BY <1>1, <1>2, <2>2, <2>3, <2>4, <2>5, OneWorker
<1>8. QED
      BY <1>6, <1>7

\* The sessions are closed: what is published is what was captured.
LEMMA CheckpointPublished ==
    ASSUME TypeOK, CheckpointInv, NEW w \in Workers, WorkerPublished(w)
    PROVE  CheckpointInv'
<1> DEFINE m == [kind |-> "committing", via |-> txn[w].owner, id |-> txn[w].id]
<1>1. /\ UNCHANGED <<supervisor, version>> /\ published' = published \cup {w}
      /\ Runs(w) /\ txn[w].at = "publishing"
      BY DEF WorkerPublished, Phase
<1>2. WorkerInv(w)
      BY DEF CheckpointInv
<1>3. manifest[w] = version[w]
  <2>1. manifest[w] # None
        BY <1>1, <1>2 DEF WorkerInv, TxnInv, PublishSaved
  <2>2. Held(w, manifest[w])
        BY <1>2, <2>1 DEF WorkerInv, CaptureInv, ManifestHeld
  <2>3. txn[w].saved = version[w]
        BY <1>1, <1>2 DEF WorkerInv, TxnInv, Frozen
  <2>4. QED
        BY <1>1, <2>2, <2>3 DEF Held, NoTxn
<1>4. CASE link[w] = txn[w].owner
  <2>1. UNCHANGED <<inbox, txn, handling, busy, exited>> /\ Reply(w, m, TRUE, 0)
        BY <1>4 DEF WorkerPublished, CommitReply
  <2>2. m.kind = "committing" /\ m.kind \in Kinds /\ m.id \in Nat /\ m.id = txn[w].id
        BY DEF Kinds, TypeOK, WorkerTypes, Txns
  <2>3. IdOK(m.id)
        BY <1>1, <1>2, <2>2 DEF WorkerInv, TxnInv, TxnId
  <2>4. Says(w) /\ \A v \in Workers \ {w} : outbox'[v] = outbox[v]
        BY <2>1, <2>2, <2>3, ReplySays
  <2>5. HeldStays(w) /\ AskedOnce(w)' /\ InboxShrinks(w)
        BY <1>1, <1>2, <2>1
        DEF HeldStays, Held, NotAsked, WorkerInv, InboxInv, AskedOnce, InboxShrinks, supervisor
  <2>6. TxnInv(w)'
        BY <1>1, <1>2, <1>3, <2>1
        DEF WorkerInv, TxnInv, TxnId, IdOK, Fresh, PublishSaved, Frozen, GoneOK, EndOK, NoTxn, supervisor,
            Handled
  <2>7. ASSUME NEW v \in Workers \ {w} PROVE Same(v)
        BY <1>1, <2>1, <2>4 DEF Same, Handled
  <2>8. QED
        BY <1>1, <2>1, <2>4, <2>5, <2>6, <2>7, OneWorker
<1>5. CASE link[w] # txn[w].owner
  <2>1. Exits(w)
        BY <1>5 DEF WorkerPublished
  <2>2. QED
        BY <1>1, <1>3, <2>1, ExitKeeps DEF supervisor
<1>6. QED
      BY <1>4, <1>5

\* Closing fails: the manifest is there already.
LEMMA CheckpointPublishFails ==
    ASSUME TypeOK, CheckpointInv, NEW w \in Workers, PublishFails(w)
    PROVE  CheckpointInv'
<1> DEFINE m == [kind |-> "committing", via |-> txn[w].owner, id |-> txn[w].id]
<1>1. /\ UNCHANGED <<supervisor, inbox, handling, queued, busy, version, published, exited>>
      /\ Runs(w) /\ txn[w].at = "publishing" /\ w \notin published /\ Reply(w, m, FALSE, 0)
      BY DEF PublishFails, Phase, CommitReply
<1>2. WorkerInv(w) /\ Handled(w)' = Handled(w) /\ txn[w] \in Txns
      BY <1>1 DEF CheckpointInv, Handled, TypeOK, WorkerTypes
<1>3. manifest[w] # None
      BY <1>1, <1>2 DEF WorkerInv, TxnInv, PublishSaved
<1>4. /\ \A v \in Workers \ {w} : txn'[v] = txn[v]
      /\ \/ txn'[w] = NoTxn
         \/ /\ txn'[w].at = "prepared" /\ txn'[w].id = txn[w].id /\ txn'[w].saved = txn[w].saved
            /\ txn[w] # NoTxn
      BY <1>1, <1>2 DEF PublishFails, TypeOK, WorkerTypes, Txns, NoTxn
<1>5. m.kind = "committing" /\ m.kind \in Kinds /\ m.id \in Nat /\ m.id = txn[w].id
      BY <1>2 DEF Kinds, Txns
<1>6. IdOK(m.id)
      BY <1>1, <1>2, <1>5 DEF WorkerInv, TxnInv, TxnId
<1>7. Says(w) /\ \A v \in Workers \ {w} : outbox'[v] = outbox[v]
      BY <1>1, <1>5, <1>6, ReplySays
<1>8. HeldStays(w) /\ AskedOnce(w)' /\ InboxShrinks(w)
      BY <1>1, <1>2, <1>4
      DEF HeldStays, Held, NotAsked, WorkerInv, InboxInv, AskedOnce, InboxShrinks, NoTxn, supervisor
<1>9. TxnInv(w)'
      BY <1>1, <1>2, <1>3, <1>4
      DEF WorkerInv, TxnInv, TxnId, IdOK, Fresh, PublishSaved, Frozen, GoneOK, EndOK, Runs, NoTxn, supervisor
<1>10. ASSUME NEW v \in Workers \ {w} PROVE Same(v)
      BY <1>1, <1>4, <1>7 DEF Same, Handled
<1>11. QED
      BY <1>1, <1>7, <1>8, <1>9, <1>10, OneWorker

\* Inputs of the worker's own queues, which the pause holds up.
LEMMA CheckpointInputs ==
    ASSUME TypeOK, CheckpointInv, NEW w \in Workers, BeginInput(w) \/ EndInput(w)
    PROVE  CheckpointInv'
<1>1. /\ UNCHANGED <<supervisor, wire, txn, handling, published, exited>> /\ Runs(w)
      /\ \A v \in Workers \ {w} : busy'[v] = busy[v] /\ version'[v] = version[v]
      /\ \/ txn[w].at \notin {"quiescing", "prepared", "publishing"} /\ version'[w] = version[w]
         \/ busy[w]
      BY DEF BeginInput, EndInput, TypeOK, WorkerTypes
<1>2. WorkerInv(w) /\ Handled(w)' = Handled(w) /\ UNCHANGED <<inbox, outbox>>
      BY <1>1 DEF CheckpointInv, Handled, wire
<1>3. txn[w].at \notin {"prepared", "publishing"}
      BY <1>1, <1>2 DEF WorkerInv, TxnInv, Frozen
<1>4. HeldStays(w) /\ AskedOnce(w)' /\ InboxShrinks(w) /\ Says(w)
      BY <1>1, <1>2
      DEF HeldStays, Held, NotAsked, WorkerInv, InboxInv, AskedOnce, InboxShrinks, Says, supervisor
<1>5. TxnInv(w)'
      BY <1>1, <1>2, <1>3
      DEF WorkerInv, TxnInv, TxnId, IdOK, Fresh, PublishSaved, Frozen, GoneOK, EndOK, Runs, NoTxn, supervisor
<1>6. ASSUME NEW v \in Workers \ {w} PROVE Same(v)
      BY <1>1, <1>2 DEF Same, Handled
<1>7. QED
      BY <1>1, <1>4, <1>5, <1>6, OneWorker

\* Either end loses the connection, or a new one takes its place.
LEMMA CheckpointConnection ==
    ASSUME TypeOK, CheckpointInv, NEW w \in Workers,
           WorkerLoses(w) \/ SupervisorLoses(w) \/ Reconnect(w)
    PROVE  CheckpointInv'
<1>1. /\ UNCHANGED <<supervisor, handling, busy, version, published, exited>> /\ Runs(w)
      /\ \A v \in Workers \ {w} : inbox'[v] = inbox[v] /\ outbox'[v] = outbox[v]
      /\ inbox'[w] \in {inbox[w], <<>>} /\ outbox'[w] \in {outbox[w], <<>>}
      BY DEF WorkerLoses, SupervisorLoses, Reconnect, Lost, TypeOK, WireTypes, worker
<1>2. WorkerInv(w) /\ Handled(w)' = Handled(w) /\ txn[w] \in Txns
      BY <1>1 DEF CheckpointInv, Handled, TypeOK, WorkerTypes
<1>3. txn' = txn \/ txn' = Unbound(w)
      BY DEF WorkerLoses, SupervisorLoses, Reconnect, worker
<1>4. /\ \A v \in Workers \ {w} : txn'[v] = txn[v]
      /\ \/ txn'[w] = txn[w]
         \/ txn'[w] = NoTxn /\ txn[w].at # "publishing"
         \/ /\ txn'[w].at = "publishing" /\ txn[w].at = "publishing" /\ txn'[w].id = txn[w].id
            /\ txn'[w].saved = txn[w].saved /\ txn'[w].timed = txn[w].timed
  <2>1. \/ Cancelled(w) = NoTxn /\ txn[w].at # "publishing"
        \/ /\ Cancelled(w).at = "publishing" /\ txn[w].at = "publishing"
           /\ Cancelled(w).id = txn[w].id /\ Cancelled(w).saved = txn[w].saved
           /\ Cancelled(w).timed = txn[w].timed
        BY <1>2 DEF Cancelled, Txns
  <2>2. Unbound(w)[w] \in {txn[w], Cancelled(w)} /\ \A v \in Workers \ {w} : Unbound(w)[v] = txn[v]
        BY DEF Unbound, TypeOK, WorkerTypes
  <2>3. QED
        BY <1>3, <2>1, <2>2
<1>5. InboxShrinks(w) /\ Says(w)
      BY <1>1 DEF InboxShrinks, Says
<1>6. NotAsked(w) => NotAsked(w)'
      BY <1>1, <1>5, InboxKept
<1>7. HeldStays(w) /\ AskedOnce(w)'
      BY <1>1, <1>2, <1>4, <1>6 DEF HeldStays, Held, WorkerInv, InboxInv, AskedOnce, NoTxn, supervisor
<1>8. TxnInv(w)'
      BY <1>1, <1>2, <1>4
      DEF WorkerInv, TxnInv, TxnId, IdOK, Fresh, PublishSaved, Frozen, GoneOK, EndOK, Runs, NoTxn, supervisor
<1>9. ASSUME NEW v \in Workers \ {w} PROVE Same(v)
      BY <1>1, <1>4 DEF Same, Handled
<1>10. QED
      BY <1>1, <1>5, <1>7, <1>8, <1>9, OneWorker

\* Commands at a worker: a fenced one takes none and has none left.
LEMMA CheckpointCommand ==
    ASSUME TypeOK, CheckpointInv, NEW c \in Commands, WorkerTakes(c) \/ WorkerDoes(c)
    PROVE  CheckpointInv'
<1> DEFINE w == Target[c]
<1>1. w \in Workers
      BY RestartAssumption
<1>2. /\ UNCHANGED <<supervisor, wire, txn, busy, published, exited>>
      /\ \A v \in Workers \ {w} : version'[v] = version[v]
      BY DEF WorkerTakes, WorkerDoes, TypeOK, WorkerTypes
<1>3. WorkerInv(w) /\ UNCHANGED <<inbox, outbox>>
      BY <1>1, <1>2 DEF CheckpointInv, wire
<1>4. \A v \in Workers \ {w} : Handled(v)' = Handled(v)
      BY DEF WorkerTakes, WorkerDoes, Handled
<1>5. \/ Handled(w)' = Handled(w) /\ version'[w] = version[w]
      \/ txn[w].at \notin {"quiescing", "prepared", "publishing"}
  <2>1. CASE WorkerTakes(c)
        BY <2>1 DEF WorkerTakes, Handled
  <2>2. CASE WorkerDoes(c)
    <3>1. c \in Handled(w)
          BY <2>2 DEF WorkerDoes, Handled
    <3>2. txn[w].at \notin {"quiescing", "prepared", "publishing"}
          BY <1>3, <3>1 DEF WorkerInv, TxnInv, Frozen
    <3>3. QED
          BY <3>1, <3>2
  <2>3. QED
        BY <2>1, <2>2
<1>6. w \in published => version'[w] = version[w]
  <2>1. CASE WorkerTakes(c)
        BY <2>1 DEF WorkerTakes
  <2>2. CASE WorkerDoes(c)
    <3>1. c \in Handled(w) /\ w \notin exited
          BY <2>2 DEF WorkerDoes, Handled, Runs
    <3>2. QED
          BY <1>3, <3>1 DEF WorkerInv, TxnInv, Frozen, GoneOK
  <2>3. QED
        BY <2>1, <2>2
<1>7. HeldStays(w) /\ AskedOnce(w)' /\ InboxShrinks(w) /\ Says(w)
      BY <1>2, <1>3
      DEF HeldStays, Held, NotAsked, WorkerInv, InboxInv, AskedOnce, InboxShrinks, Says, supervisor
<1>8. TxnInv(w)'
      BY <1>2, <1>3, <1>5, <1>6
      DEF WorkerInv, TxnInv, TxnId, IdOK, Fresh, PublishSaved, Frozen, GoneOK, EndOK, NoTxn, supervisor
<1>9. ASSUME NEW v \in Workers \ {w} PROVE Same(v)
      BY <1>2, <1>3, <1>4 DEF Same
<1>10. QED
      BY <1>1, <1>2, <1>7, <1>8, <1>9, OneWorker

-----------------------------------------------------------------------------
(* Checkpoints: what a step of the supervisor needs. *)

checkpoint == <<tries, manifest, inbox, outbox, txn, handling, busy, version, published, exited>>

\* A step of the preparation that sends nothing: a worker keeps what is its own
\* when nothing becomes fresh.
LEMMA Advances ==
    ASSUME TypeOK, NEW w \in Workers, WorkerInv(w), UNCHANGED checkpoint,
           ask'[w] \in {ask[w], NoAsk}, Fresh' => Fresh
    PROVE  WorkerInv(w)'
<1> USE DEF checkpoint
<1>1. TxnInv(w)'
      BY DEF WorkerInv, TxnInv, TxnId, IdOK, PublishSaved, Frozen, GoneOK, EndOK, NoTxn, Handled
<1>2. InboxInv(w)'
      BY DEF WorkerInv, InboxInv, InboxIds, IdOK, InboxOrder, CommitAsked, AskedOnce, NotAsked
<1>3. CaptureInv(w)'
      BY DEF WorkerInv, CaptureInv, OutboxIds, IdOK, AnswerHeld, AckHeld, ManifestHeld, Held,
         NotAsked, NoTxn, NoAsk
<1>4. QED
      BY <1>1, <1>2, <1>3 DEF WorkerInv

\* The commands and the sweeps are nothing to a checkpoint.
LEMMA CheckpointElsewhere ==
    ASSUME TypeOK, CheckpointInv, UNCHANGED <<checkpoint, prep, ask>>
    PROVE  CheckpointInv'
<1>1. ASSUME NEW w \in Workers PROVE WorkerInv(w)'
      BY Advances DEF CheckpointInv, Fresh
<1>2. AsksIdle' /\ ManifestIsFinal' /\ StoppedOK'
      BY DEF CheckpointInv, AsksIdle, ManifestIsFinal, StoppedOK, checkpoint, NoManifest
<1>3. QED
      BY <1>1, <1>2 DEF CheckpointInv

\* The steps up to the requests, and those after the last answer.
LEMMA CheckpointProceeds ==
    ASSUME TypeOK, LatchInv, CheckpointInv,
           \/ ResumePrepare \/ Fencing \/ Quiet \/ DrainTimeout \/ AllCancelled \/ AllCommitted \/ Prepared
           \/ AskWorkers /\ \E w \in Residents : conn[w] = 0
    PROVE  CheckpointInv'
<1>1. /\ UNCHANGED checkpoint
      /\ \/ /\ prep \in {"waiting", "draining", "drained", "fencing", "quiet"} /\ ask' = ask
            /\ prep' \in {"draining", "drained", "fencing", "quiet", "idle"}
         \/ prep = "cancelling" /\ prep' = "idle" /\ ask' = [w \in Workers |-> NoAsk]
         \/ prep = "committing" /\ prep' = "stopping" /\ ask' = ask
         \/ /\ prep = "stopping" /\ prep' = "done" /\ ask' = ask
            /\ \A w \in Workers : manifest[w] # None => w \in exited \/ ask[w].at = "unstopped"
  <2> USE DEF checkpoint, wire, worker
  <2>1. CASE ResumePrepare
    <3>1. 1 \in 1..Len(resuming) /\ resuming[1] = "prepare"
          BY <2>1, SequenceFacts DEF ResumePrepare, TypeOK, SupervisorTypes
    <3>2. prep = "waiting"
          BY <3>1 DEF LatchInv, WaitOK
    <3>3. QED
          BY <2>1, <3>2 DEF ResumePrepare, StartsPrepare
  <2>2. CASE Fencing \/ Quiet
        BY <2>2 DEF Fencing, Quiet
  <2>3. CASE DrainTimeout
        BY <2>3 DEF DrainTimeout, RolledBack
  <2>4. CASE AllCancelled
        BY <2>4 DEF AllCancelled, RolledBack
  <2>5. CASE AllCommitted
        BY <2>5 DEF AllCommitted
  <2>6. CASE Prepared
        BY <2>6 DEF Prepared
  <2>7. CASE AskWorkers /\ \E w \in Residents : conn[w] = 0
    <3>1. RolledBack /\ UNCHANGED <<ask, inbox>>
          BY <2>7, Zenon DEF AskWorkers
    <3>2. QED
          BY <2>7, <3>1 DEF AskWorkers, RolledBack
  <2>8. QED
        BY <2>1, <2>2, <2>3, <2>4, <2>5, <2>6, <2>7
<1>2. UNCHANGED <<manifest, exited>>
      BY <1>1 DEF checkpoint
<1>3. AsksIdle' /\ ManifestIsFinal' /\ StoppedOK'
      BY <1>1, <1>2 DEF CheckpointInv, AsksIdle, ManifestIsFinal, StoppedOK, NoManifest
<1>4. ASSUME NEW w \in Workers PROVE WorkerInv(w)'
  <2>1. ask'[w] \in {ask[w], NoAsk} /\ (Fresh' => Fresh)
        BY <1>1 DEF Fresh
  <2>2. QED
        BY <1>1, <2>1, Advances DEF CheckpointInv
<1>5. QED
      BY <1>3, <1>4 DEF CheckpointInv

\* A new preparation: nothing that is on its way is of this one.
LEMMA CheckpointTry ==
    ASSUME TypeOK, CheckpointInv, PrepareCommand
    PROVE  CheckpointInv'
<1>1. /\ UNCHANGED <<ask, manifest, inbox, outbox, txn, handling, busy, version, published, exited>>
      /\ tries' = tries + 1 /\ tries \in Nat /\ prep = "idle" /\ prep' \in {"waiting", "draining", "drained"}
      /\ manifest = NoManifest /\ ask = [w \in Workers |-> NoAsk]
      BY DEF PrepareCommand, StartsPrepare, wire, worker, TypeOK, SupervisorTypes, CheckpointInv,
         ManifestIsFinal, AsksIdle
<1>2. AsksIdle' /\ ManifestIsFinal' /\ StoppedOK'
      BY <1>1 DEF AsksIdle, ManifestIsFinal, StoppedOK, NoManifest
<1>3. ASSUME NEW w \in Workers PROVE WorkerInv(w)'
  <2>1. WorkerInv(w) /\ manifest[w] = None /\ ask[w] = NoAsk
        BY <1>1 DEF CheckpointInv, NoManifest
  <2>2. /\ \A i \in 1..Len(inbox[w]) : inbox[w][i].id \in Nat
        /\ \A i \in 1..Len(outbox[w]) : outbox[w][i].id \in Nat
        /\ txn[w].id \in Nat
    <3>1. inbox[w] \in Seq(Requests) /\ outbox[w] \in Seq(Responses) /\ txn[w] \in Txns
          BY DEF TypeOK, WireTypes, WorkerTypes
    <3>2. /\ \A i \in 1..Len(inbox[w]) : inbox[w][i] \in Requests
          /\ \A i \in 1..Len(outbox[w]) : outbox[w][i] \in Responses
          BY <3>1
    <3>3. QED
          BY <3>1, <3>2 DEF Requests, Responses, Txns
  <2>3. /\ \A i \in 1..Len(inbox[w]) : inbox[w][i].id < tries'
        /\ \A i \in 1..Len(outbox[w]) : outbox[w][i].id < tries'
        /\ txn[w].at # "none" => txn[w].id < tries'
        BY <1>1, <2>1, <2>2
        DEF WorkerInv, InboxInv, CaptureInv, TxnInv, InboxIds, OutboxIds, TxnId, IdOK
  <2>4. TxnInv(w)'
        BY <1>1, <2>1, <2>2, <2>3
        DEF WorkerInv, TxnInv, TxnId, IdOK, PublishSaved, Frozen, GoneOK, EndOK, NoTxn, Handled
  <2>5. InboxInv(w)'
        BY <1>1, <2>1, <2>2, <2>3 DEF WorkerInv, InboxInv, InboxIds, IdOK, InboxOrder, CommitAsked, AskedOnce
  <2>6. CaptureInv(w)'
        BY <1>1, <2>1, <2>2, <2>3 DEF CaptureInv, OutboxIds, IdOK, AnswerHeld, AckHeld, ManifestHeld, NoAsk
  <2>7. QED
        BY <2>4, <2>5, <2>6 DEF WorkerInv
<1>4. QED
      BY <1>2, <1>3 DEF CheckpointInv

\* The supervisor reads an answer, gives a request up or closes a connection.
LEMMA CheckpointAnswered ==
    ASSUME TypeOK, CheckpointInv, NEW w \in Workers,
           Respond(w) \/ AskFails(w) \/ CloseUnreached(w) \/ StopCloses(w) \/ StopFails(w)
    PROVE  CheckpointInv'
<1>1. /\ UNCHANGED <<prep, tries, manifest, inbox, txn, handling, busy, version, published, exited>>
      /\ \A v \in Workers \ {w} : outbox'[v] = outbox[v] /\ ask'[v] = ask[v]
      /\ ask[w].at \in {"asked", "cancelling", "committing", "unreached", "settled", "closed"} \/ ask' = ask
      BY DEF Respond, AskFails, CloseUnreached, StopCloses, StopFails, Settle, Answers, TypeOK, SupervisorTypes, WireTypes,
         wire, worker
<1>2. WorkerInv(w) /\ outbox[w] \in Seq(Responses)
      BY DEF CheckpointInv, TypeOK, WireTypes
<1>3. \/ outbox'[w] \in {outbox[w], <<>>}
      \/ outbox[w] # <<>> /\ outbox'[w] = Tail(outbox[w])
      BY DEF Respond, AskFails, CloseUnreached, StopCloses, StopFails, TypeOK, WireTypes, wire
<1>4. \A i \in 1..Len(outbox'[w]) : \E j \in 1..Len(outbox[w]) : outbox'[w][i] = outbox[w][j]
  <2>1. CASE outbox'[w] = outbox[w] \/ outbox'[w] = <<>>
        BY <2>1, EmptySeq
  <2>2. CASE outbox[w] # <<>> /\ outbox'[w] = Tail(outbox[w])
    <3>1. \A i \in 1..Len(outbox'[w]) : i + 1 \in 1..Len(outbox[w]) /\ outbox'[w][i] = outbox[w][i + 1]
          BY <1>2, <2>2, SequenceFacts
    <3>2. QED
          BY <3>1
  <2>3. QED
        BY <1>3, <2>1, <2>2
<1>5. AckHeld(w)'
  <2>1. CASE Respond(w)
    <3>1. Head(outbox[w]) = outbox[w][1] /\ 1 \in 1..Len(outbox[w])
          BY <1>2, <2>1, SequenceFacts DEF Respond
    <3>2. ask'[w].at = "acked" =>
              \/ ask' = ask
              \/ /\ outbox[w][1].kind = "asked" /\ outbox[w][1].id = tries /\ outbox[w][1].ok
                 /\ ask'[w].saved = outbox[w][1].saved
          BY <2>1, <3>1 DEF Respond, Answers, Settle, TypeOK, SupervisorTypes, Asks
    <3>3. QED
          BY <1>1, <1>2, <3>1, <3>2
          DEF WorkerInv, CaptureInv, AckHeld, AnswerHeld, Held, NotAsked, NoTxn
  <2>2. CASE AskFails(w)
    <3>1. \E a \in {"failed", "unreached", "settled"} : ask' = [ask EXCEPT ![w].at = a]
      <4>1. CASE ask[w].at = "asked"
        <5>1. ask' = [ask EXCEPT ![w].at = "failed"]
              BY <2>2, <4>1, Zenon DEF AskFails, Settle
        <5>2. QED
              BY <5>1
      <4>2. CASE ask[w].at = "cancelling"
        <5>1. ask' = [ask EXCEPT ![w].at = "unreached"]
              BY <2>2, <4>2, Zenon DEF AskFails, Settle
        <5>2. QED
              BY <5>1
      <4>3. CASE ask[w].at = "committing"
        <5>1. ask' = [ask EXCEPT ![w].at = "settled"]
              BY <2>2, <4>3, Zenon DEF AskFails, Settle
        <5>2. QED
              BY <5>1
      <4>4. QED
            BY <2>2, <4>1, <4>2, <4>3 DEF AskFails
    <3>2. QED
          BY <3>1 DEF AckHeld, TypeOK, SupervisorTypes, Asks
  <2>3. CASE CloseUnreached(w) \/ StopCloses(w) \/ StopFails(w)
        BY <2>3 DEF CloseUnreached, StopCloses, StopFails, Settle, AckHeld, TypeOK, SupervisorTypes, Asks
  <2>4. QED
        BY <2>1, <2>2, <2>3
<1>6. AsksIdle' /\ ManifestIsFinal' /\ StoppedOK'
  <2>1. prep \notin {"asking", "cancelling", "committing", "stopping", "done"} => ask' = ask
        BY <1>1 DEF CheckpointInv, AsksIdle, NoAsk
  <2>2. QED
        BY <1>1, <2>1 DEF CheckpointInv, AsksIdle, ManifestIsFinal, StoppedOK, NoManifest
<1>7. WorkerInv(w)'
  <2>1. TxnInv(w)'
        BY <1>1, <1>2 DEF WorkerInv, TxnInv, TxnId, IdOK, Fresh, PublishSaved, Frozen, GoneOK, EndOK, NoTxn,
           Handled
  <2>2. InboxInv(w)'
        BY <1>1, <1>2 DEF WorkerInv, InboxInv, InboxIds, IdOK, Fresh, InboxOrder, CommitAsked, AskedOnce, NotAsked
  <2>3. OutboxIds(w)'
        BY <1>1, <1>2, <1>4 DEF WorkerInv, CaptureInv, OutboxIds, IdOK, Fresh
  <2>4. AnswerHeld(w)' /\ ManifestHeld(w)'
        BY <1>1, <1>2, <1>4 DEF WorkerInv, CaptureInv, AnswerHeld, ManifestHeld, Held, NotAsked, NoTxn
  <2>5. QED
        BY <1>5, <2>1, <2>2, <2>3, <2>4 DEF WorkerInv, CaptureInv
<1>8. ASSUME NEW v \in Workers \ {w} PROVE WorkerInv(v)'
  <2>1. WorkerInv(v) /\ UNCHANGED <<outbox[v], ask[v]>>
        BY <1>1 DEF CheckpointInv
  <2>2. TxnInv(v)'
        BY <1>1, <2>1 DEF WorkerInv, TxnInv, TxnId, IdOK, Fresh, PublishSaved, Frozen, GoneOK, EndOK, NoTxn,
           Handled
  <2>3. InboxInv(v)'
        BY <1>1, <2>1 DEF WorkerInv, InboxInv, InboxIds, IdOK, Fresh, InboxOrder, CommitAsked, AskedOnce, NotAsked
  <2>4. CaptureInv(v)'
        BY <1>1, <2>1 DEF WorkerInv, CaptureInv, OutboxIds, IdOK, Fresh, AnswerHeld, AckHeld, ManifestHeld, Held,
           NotAsked, NoTxn
  <2>5. QED
        BY <2>2, <2>3, <2>4 DEF WorkerInv
<1>9. QED
      BY <1>6, <1>7, <1>8 DEF CheckpointInv

\* A request goes behind those that are on the way.
LEMMA SendAppends ==
    ASSUME TypeOK, NEW W, NEW kind \in Kinds, NEW via \in [Workers -> Nat], Send(W, kind, via),
           NEW w \in Workers, InboxIds(w), InboxOrder(w), UNCHANGED tries, ~Fresh', kind = "asked" => Fresh
    PROVE  /\ InboxIds(w)' /\ InboxOrder(w)'
           /\ kind # "asked" /\ NotAsked(w) => NotAsked(w)'
           /\ \A i \in 1..Len(inbox'[w]) : inbox'[w][i].kind = "committing" =>
                 \/ w \in W /\ kind = "committing"
                 \/ \E j \in 1..Len(inbox[w]) : inbox[w][j].kind = "committing"
<1> DEFINE m == [kind |-> kind, via |-> via[w], id |-> tries]
<1>1. inbox[w] \in Seq(Requests) /\ m \in Requests /\ m.kind = kind /\ m.id = tries /\ tries \in Nat
      BY DEF TypeOK, SupervisorTypes, WireTypes, Requests
<1>2. \A i \in 1..Len(inbox[w]) : inbox[w][i].id \in Nat
  <2>1. \A i \in 1..Len(inbox[w]) : inbox[w][i] \in Requests
        BY <1>1
  <2>2. QED
        BY <2>1 DEF Requests
<1>3. CASE inbox'[w] = inbox[w]
      BY <1>1, <1>3 DEF InboxIds, IdOK, InboxOrder, NotAsked
<1>4. CASE w \in W /\ inbox'[w] = Append(inbox[w], m)
  <2>1. /\ Len(inbox[w]) \in Nat /\ Len(inbox'[w]) = Len(inbox[w]) + 1
        /\ inbox'[w][Len(inbox[w]) + 1] = m
        /\ \A i \in 1..Len(inbox[w]) : inbox'[w][i] = inbox[w][i]
        BY <1>1, <1>4, SequenceFacts
  <2>2. \A i \in 1..Len(inbox'[w]) : i \in 1..Len(inbox[w]) \/ i = Len(inbox[w]) + 1
        BY <2>1
  <2>3. InboxIds(w)'
        BY <1>1, <2>1, <2>2 DEF InboxIds, IdOK
  <2>4. ASSUME NEW i \in 1..Len(inbox'[w]), NEW j \in 1..Len(inbox'[w]), i < j
        PROVE  /\ inbox'[w][i].id <= inbox'[w][j].id
               /\ inbox'[w][i].kind = "asked" /\ inbox'[w][j].kind = "asked" =>
                     inbox'[w][i].id # inbox'[w][j].id
    <3>1. CASE j \in 1..Len(inbox[w])
      <4>1. i \in 1..Len(inbox[w]) /\ inbox'[w][i] = inbox[w][i] /\ inbox'[w][j] = inbox[w][j]
            BY <2>1, <2>4, <3>1
      <4>2. QED
            BY <2>4, <3>1, <4>1 DEF InboxOrder
    <3>2. CASE j = Len(inbox[w]) + 1
      <4>1. i \in 1..Len(inbox[w]) /\ inbox'[w][i] = inbox[w][i] /\ inbox'[w][j] = m
            BY <2>1, <2>4, <3>2
      <4>2. inbox[w][i].id <= tries /\ (Fresh => inbox[w][i].id < tries) /\ inbox[w][i].id \in Nat
            BY <1>2, <4>1 DEF InboxIds, IdOK
      <4>3. QED
            BY <1>1, <4>1, <4>2
    <3>3. QED
          BY <2>2, <3>1, <3>2
  <2>5. InboxOrder(w)'
        BY <2>4 DEF InboxOrder
  <2>6. \A i \in 1..Len(inbox'[w]) :
            inbox'[w][i].kind = kind \/ \E j \in 1..Len(inbox[w]) : j = i /\ inbox'[w][i] = inbox[w][j]
        BY <1>1, <2>1, <2>2
  <2>7. kind # "asked" /\ NotAsked(w) => NotAsked(w)'
        BY <2>6 DEF NotAsked
  <2>8. \A i \in 1..Len(inbox'[w]) : inbox'[w][i].kind = "committing" =>
            \/ kind = "committing"
            \/ \E j \in 1..Len(inbox[w]) : inbox[w][j].kind = "committing"
        BY <2>6
  <2>9. QED
        BY <1>4, <2>3, <2>5, <2>7, <2>8
<1>5. QED
      BY <1>3, <1>4 DEF Send

\* Every resident worker is asked: what it holds of earlier preparations is not
\* of this one, and there is no manifest.
LEMMA CheckpointAsks ==
    ASSUME TypeOK, CheckpointInv, AskWorkers, ~ \E w \in Residents : conn[w] = 0
    PROVE  CheckpointInv'
<1>1. /\ UNCHANGED <<tries, manifest, outbox, txn, handling, busy, version, published, exited>>
      /\ prep = "quiet" /\ prep' = "asking" /\ Send(Residents, "asked", conn)
      /\ ask' = [w \in Workers |-> IF w \in Residents
                    THEN [NoAsk EXCEPT !.at = "asked", !.via = conn[w]] ELSE NoAsk]
      BY DEF AskWorkers, worker
<1>2. manifest = NoManifest /\ Fresh /\ ~Fresh' /\ "asked" \in Kinds /\ conn \in [Workers -> Nat]
      BY <1>1 DEF CheckpointInv, ManifestIsFinal, Fresh, Kinds, TypeOK, WireTypes
<1>3. AsksIdle' /\ ManifestIsFinal' /\ StoppedOK'
      BY <1>1, <1>2 DEF AsksIdle, ManifestIsFinal, StoppedOK, NoManifest
<1>4. ASSUME NEW w \in Workers PROVE WorkerInv(w)'
  <2>1. WorkerInv(w) /\ manifest[w] = None
        BY <1>2 DEF CheckpointInv, NoManifest
  <2>2. ask'[w].at # "acked"
        BY <1>1 DEF NoAsk
  <2>3. TxnInv(w)'
        BY <1>1, <1>2, <2>1
        DEF WorkerInv, TxnInv, TxnId, IdOK, PublishSaved, Frozen, GoneOK, EndOK, NoTxn, Handled
  <2>4. /\ InboxIds(w)' /\ InboxOrder(w)'
        /\ \A i \in 1..Len(inbox'[w]) : inbox'[w][i].kind = "committing" =>
              \/ w \in Residents /\ "asked" = "committing"
              \/ \E j \in 1..Len(inbox[w]) : inbox[w][j].kind = "committing"
        BY <1>1, <1>2, <2>1, SendAppends DEF WorkerInv, InboxInv
  <2>5. CommitAsked(w)'
        BY <1>1, <2>1, <2>4 DEF WorkerInv, InboxInv, CommitAsked
  <2>6. AskedOnce(w)'
    <3>1. txn[w].at # "none" => txn[w].id < tries
          BY <1>2, <2>1 DEF WorkerInv, TxnInv, TxnId, IdOK
    <3>2. txn[w].id \in Nat /\ tries \in Nat
          BY DEF TypeOK, SupervisorTypes, WorkerTypes, Txns
    <3>3. txn[w].at # "none" => txn[w].id # tries
          BY <3>1, <3>2
    <3>4. QED
          BY <1>1, <3>3 DEF AskedOnce
  <2>7. OutboxIds(w)' /\ AnswerHeld(w)'
    <3>1. outbox[w] \in Seq(Responses) /\ tries \in Nat
          BY DEF TypeOK, SupervisorTypes, WireTypes
    <3>2. \A i \in 1..Len(outbox[w]) : outbox[w][i] \in Responses
          BY <3>1
    <3>3. \A i \in 1..Len(outbox[w]) : outbox[w][i].id < tries /\ outbox[w][i].id \in Nat
          BY <1>2, <2>1, <3>2 DEF WorkerInv, CaptureInv, OutboxIds, IdOK, Responses
    <3>4. \A i \in 1..Len(outbox[w]) : outbox[w][i].id <= tries /\ outbox[w][i].id # tries
          BY <3>1, <3>3
    <3>5. OutboxIds(w)'
          BY <1>1, <1>2, <3>4 DEF OutboxIds, IdOK
    <3>6. AnswerHeld(w)'
          BY <1>1, <3>4 DEF AnswerHeld
    <3>7. QED
          BY <3>5, <3>6
  <2>8. AckHeld(w)' /\ ManifestHeld(w)'
        BY <1>1, <2>1, <2>2 DEF AckHeld, ManifestHeld
  <2>9. QED
        BY <2>3, <2>4, <2>5, <2>6, <2>7, <2>8 DEF WorkerInv, InboxInv, CaptureInv
<1>5. QED
      BY <1>3, <1>4 DEF CheckpointInv

\* The last answer: the manifest is what was acknowledged, and still held.
LEMMA CheckpointAllAsked ==
    ASSUME TypeOK, CheckpointInv, AllAsked
    PROVE  CheckpointInv'
<1>1. PICK kind \in {"committing", "cancelling"} :
          /\ UNCHANGED <<tries, outbox, txn, handling, busy, version, published, exited>>
          /\ prep = "asking" /\ prep' = kind /\ Send(With("acked"), kind, Vias)
          /\ \A w \in Workers : ask'[w].at # "acked"
          /\ manifest' = IF kind = "committing"
                         THEN [w \in Workers |-> IF w \in With("acked") THEN ask[w].saved ELSE None]
                         ELSE manifest
  <2>1. \A w \in Workers : /\ [ask[w] EXCEPT !.at = "cancelling"].at = "cancelling"
                           /\ [ask[w] EXCEPT !.at = "committing"].at = "committing"
                           /\ NoAsk.at = "idle"
        BY DEF TypeOK, SupervisorTypes, Asks, NoAsk
  <2>2. CASE CancelAcknowledged
        BY <2>1, <2>2 DEF AllAsked, CancelAcknowledged, worker
  <2>3. CASE ~CancelAcknowledged
        BY <2>1, <2>3 DEF AllAsked, worker
  <2>4. QED
        BY <2>2, <2>3
<1>2. /\ manifest = NoManifest /\ ~Fresh /\ ~Fresh' /\ kind \in Kinds /\ kind # "asked"
      /\ Vias \in [Workers -> Nat]
      BY <1>1 DEF CheckpointInv, ManifestIsFinal, Fresh, Kinds, Vias, TypeOK, SupervisorTypes, Asks
<1>3. AsksIdle' /\ ManifestIsFinal' /\ StoppedOK'
      BY <1>1, <1>2 DEF AsksIdle, ManifestIsFinal, StoppedOK, NoManifest
<1>4. ASSUME NEW w \in Workers PROVE WorkerInv(w)'
  <2>1. WorkerInv(w) /\ manifest[w] = None
        BY <1>2 DEF CheckpointInv, NoManifest
  <2>2. /\ manifest'[w] # None => ask[w].at = "acked" /\ manifest'[w] = ask[w].saved
        /\ kind = "committing" /\ w \in With("acked") => manifest'[w] # None
        BY <1>1, <2>1, RestartAssumption DEF With, TypeOK, SupervisorTypes, Asks
  <2>3. TxnInv(w)'
    <3>1. w \notin published /\ txn[w].at # "publishing"
          BY <2>1, RestartAssumption DEF WorkerInv, TxnInv, GoneOK, PublishSaved, TypeOK, WorkerTypes
    <3>2. QED
          BY <1>1, <1>2, <2>1, <3>1
          DEF WorkerInv, TxnInv, TxnId, IdOK, PublishSaved, Frozen, GoneOK, EndOK, NoTxn, Handled
  <2>4. /\ InboxIds(w)' /\ InboxOrder(w)' /\ (NotAsked(w) => NotAsked(w)')
        /\ \A i \in 1..Len(inbox'[w]) : inbox'[w][i].kind = "committing" =>
              \/ w \in With("acked") /\ kind = "committing"
              \/ \E j \in 1..Len(inbox[w]) : inbox[w][j].kind = "committing"
        BY <1>1, <1>2, <2>1, SendAppends DEF WorkerInv, InboxInv
  <2>5. CommitAsked(w)'
        BY <2>1, <2>2, <2>4 DEF WorkerInv, InboxInv, CommitAsked
  <2>6. AskedOnce(w)'
        BY <1>1, <2>1, <2>4 DEF WorkerInv, InboxInv, AskedOnce
  <2>7. OutboxIds(w)'
        BY <1>1, <1>2, <2>1 DEF WorkerInv, CaptureInv, OutboxIds, IdOK
  <2>8. \A s \in Nat : Held(w, s) => Held(w, s)'
        BY <1>1, <2>4 DEF Held, NoTxn
  <2>9. AnswerHeld(w)'
    <3>1. outbox[w] \in Seq(Responses)
          BY DEF TypeOK, WireTypes
    <3>2. \A i \in 1..Len(outbox[w]) : outbox[w][i] \in Responses
          BY <3>1
    <3>3. QED
          BY <1>1, <2>1, <2>8, <3>2 DEF WorkerInv, CaptureInv, AnswerHeld, Responses
  <2>10. ManifestHeld(w)'
        BY <2>1, <2>2, <2>8
        DEF WorkerInv, CaptureInv, AckHeld, ManifestHeld, TypeOK, SupervisorTypes, Asks
  <2>11. AckHeld(w)'
        BY <1>1 DEF AckHeld
  <2>12. QED
        BY <2>3, <2>4, <2>5, <2>6, <2>7, <2>9, <2>10, <2>11 DEF WorkerInv, InboxInv, CaptureInv
<1>5. QED
      BY <1>3, <1>4 DEF CheckpointInv

LEMMA CheckpointPreserved == TypeOK /\ LatchInv /\ CheckpointInv /\ [Next]_vars => CheckpointInv'
<1> SUFFICES ASSUME TypeOK, LatchInv, CheckpointInv, [Next]_vars PROVE CheckpointInv'
    OBVIOUS
<1>1. CASE UNCHANGED vars
      BY <1>1, CheckpointElsewhere DEF vars, supervisor, wire, worker, checkpoint
<1>2. ASSUME NEW c \in Commands, Reject(c) \/ AwaitFence(c) \/ Admit(c) \/ EndCommand(c)
      PROVE  CheckpointInv'
      BY <1>2, CheckpointElsewhere DEF Reject, AwaitFence, Admit, EndCommand, wire, worker, checkpoint
<1>3. CASE BeginSweep \/ SweepDrained \/ EndSweep \/ ResumeCommand
      BY <1>3, CheckpointElsewhere
      DEF BeginSweep, SweepDrained, EndSweep, ResumeCommand, wire, worker, checkpoint
<1>4. ASSUME NEW w \in Workers, Evict(w) \/ StopWorker(w) PROVE CheckpointInv'
  <2>1. UNCHANGED <<supervisor, version, published>> /\ Exits(w)
        BY <1>4 DEF Evict, StopWorker
  <2>2. w \in published => manifest[w] = version[w]
        BY DEF CheckpointInv, WorkerInv, TxnInv, GoneOK
  <2>3. QED
        BY <2>1, <2>2, ExitKeeps
<1>5. ASSUME NEW w \in Workers,
             \/ WorkerTransaction(w) \/ WorkerPublished(w) \/ PublishFails(w) \/ Deadline(w)
             \/ BeginInput(w) \/ EndInput(w)
             \/ WorkerLoses(w) \/ SupervisorLoses(w) \/ Reconnect(w)
      PROVE  CheckpointInv'
      BY <1>5, CheckpointAdvances, CheckpointPrepare, CheckpointCaptures, CheckpointCancels, CheckpointCommits,
         CheckpointPublished, CheckpointPublishFails, CheckpointInputs, CheckpointConnection
      DEF WorkerTransaction
<1>6. CASE Preparation \/ PrepareCommand
      BY <1>3, <1>4, <1>6, CheckpointTry, CheckpointProceeds, CheckpointAnswered, CheckpointAsks, CheckpointAllAsked
      DEF Preparation
<1>7. QED
      BY <1>1, <1>2, <1>3, <1>4, <1>5, <1>6, CheckpointAnswered, CheckpointCommand DEF Next

-----------------------------------------------------------------------------
(* The connection a transaction belongs to. *)

OwnerOK(w) ==
    /\ ask[w].at # "idle" => ask[w].via # 0
    /\ inbox[w] # <<>> => link[w] # 0
    /\ txn[w].at = "none" \/ (txn[w].at = "publishing" /\ txn[w].aborted) \/
          (link[w] # 0 /\ txn[w].owner = link[w])

Owned == \A w \in Workers : OwnerOK(w)

LEMMA OwnedInitially == Init => Owned
      BY DEF Init, Owned, OwnerOK, NoAsk, NoTxn

\* Requests go to connected workers only.
LEMMA OwnedAsks ==
    ASSUME TypeOK, Owned, AskWorkers \/ AllAsked \/ AllCancelled
    PROVE  Owned'
<1> USE DEF TypeOK, SupervisorTypes, WireTypes, WorkerTypes
<1>1. UNCHANGED <<link, txn>>
      BY DEF AskWorkers, AllAsked, AllCancelled, wire, worker
<1>2. ASSUME NEW W, NEW kind, NEW via, Send(W, kind, via), \A w \in W : via[w] # 0, NEW v \in Workers
      PROVE  inbox'[v] # <<>> => link'[v] # 0
      BY <1>1, <1>2 DEF Send, Owned, OwnerOK
<1>3. CASE AskWorkers
  <2>1. CASE \E w \in Residents : conn[w] = 0
    <3>1. UNCHANGED <<ask, inbox>>
          BY <1>3, <2>1, Zenon DEF AskWorkers
    <3>2. QED
          BY <1>1, <3>1 DEF Owned, OwnerOK
  <2>2. CASE ~ \E w \in Residents : conn[w] = 0
    <3>1. /\ ask' = [w \in Workers |-> IF w \in Residents
                        THEN [NoAsk EXCEPT !.at = "asked", !.via = conn[w]] ELSE NoAsk]
          /\ Send(Residents, "asked", conn)
          BY <1>3, <2>2, Zenon DEF AskWorkers
    <3>2. \A w \in Residents : conn[w] # 0
          BY <2>2
    <3>3. \A v \in Workers : inbox'[v] # <<>> => link'[v] # 0
          BY <1>2, <3>1, <3>2
    <3>4. \A v \in Workers : ask'[v].at # "idle" => ask'[v].via # 0
          BY <3>1, <3>2 DEF NoAsk
    <3>5. QED
          BY <1>1, <3>3, <3>4 DEF Owned, OwnerOK
  <2>3. QED
        BY <2>1, <2>2
<1>4. CASE AllAsked
  <2>1. \A w \in With("acked") : Vias[w] # 0
        BY DEF With, Vias, Owned, OwnerOK
  <2>2. /\ Send(With("acked"), "committing", Vias) \/ Send(With("acked"), "cancelling", Vias)
        /\ \/ ask' = [w \in Workers |-> IF w \in With("acked") THEN [ask[w] EXCEPT !.at = "committing"] ELSE NoAsk]
           \/ ask' = [w \in Workers |-> IF w \in With("acked") THEN [ask[w] EXCEPT !.at = "cancelling"] ELSE NoAsk]
        BY <1>4, Zenon DEF AllAsked, CancelAcknowledged
  <2>3. \A v \in Workers : inbox'[v] # <<>> => link'[v] # 0
        BY <1>2, <2>1, <2>2
  <2>4. \A v \in Workers : ask'[v].at # "idle" => ask'[v].via # 0
        BY <2>2 DEF NoAsk, Asks, With, Owned, OwnerOK
  <2>5. QED
        BY <1>1, <2>3, <2>4 DEF Owned, OwnerOK
<1>5. CASE AllCancelled
      BY <1>1, <1>5 DEF AllCancelled, wire, Owned, OwnerOK, NoAsk
<1>6. QED
      BY <1>3, <1>4, <1>5

\* Answers, and what the supervisor makes of them.
LEMMA OwnedAnswers ==
    ASSUME TypeOK, Owned, NEW w \in Workers,
           Respond(w) \/ AskFails(w) \/ CloseUnreached(w) \/ StopCloses(w) \/ StopFails(w)
    PROVE  Owned'
<1>1. UNCHANGED <<link, txn, inbox>>
      BY DEF Respond, AskFails, CloseUnreached, StopCloses, StopFails, wire, worker
<1>2. ask \in [Workers -> Asks] /\ \A v \in Workers : ask[v].at # "idle" => ask[v].via # 0
      BY DEF TypeOK, SupervisorTypes, Owned, OwnerOK
<1>3. \/ ask' = ask
      \/ ask[w].at # "idle" /\ \E a, n : ask' = [ask EXCEPT ![w].at = a, ![w].saved = n]
      \/ ask[w].at # "idle" /\ \E a : ask' = [ask EXCEPT ![w].at = a]
      BY DEF Respond, AskFails, CloseUnreached, StopCloses, StopFails, Settle, Answers
<1>4. \A v \in Workers : ask'[v].at # "idle" => ask'[v].via # 0
      BY <1>2, <1>3 DEF Asks
<1>5. QED
      BY <1>1, <1>4 DEF Owned, OwnerOK

\* Steps of a worker: a transaction is begun for the connection that asked.
LEMMA OwnedWorker ==
    ASSUME TypeOK, Owned, NEW w \in Workers,
           \/ WorkerTransaction(w) \/ PublishFails(w) \/ Deadline(w)
           \/ BeginInput(w) \/ EndInput(w)
    PROVE  Owned'
<1>0. ask' = ask
      BY WorkerLeavesSupervisor DEF supervisor
<1>1. link' = link /\ (inbox' = inbox \/ (Taken(w) /\ inbox[w] # <<>>))
  <2>1. CASE WorkerPrepare(w) \/ WorkerCancels(w) \/ WorkerCommits(w)
        BY <2>1, Zenon DEF WorkerPrepare, WorkerCancels, WorkerCommits, Message
  <2>2. CASE WorkerDrained(w) \/ WorkerPauses(w) \/ Deadline(w) \/ BeginInput(w) \/ EndInput(w)
        BY <2>2 DEF WorkerDrained, WorkerPauses, Deadline, BeginInput, EndInput, wire, Taken
  <2>3. CASE WorkerCaptures(w) \/ PublishFails(w)
        BY <2>3 DEF WorkerCaptures, PublishFails, Taken
  <2>4. QED
        BY <2>1, <2>2, <2>3 DEF WorkerTransaction
<1>2. txn \in [Workers -> Txns] /\ inbox \in [Workers -> Seq(Requests)]
      BY DEF TypeOK, WorkerTypes, WireTypes
<1>3. \A v \in Workers : inbox'[v] # <<>> => link'[v] # 0
      BY <1>1, <1>2 DEF Taken, Owned, OwnerOK
<1>4. \/ txn' = txn
      \/ txn' = [txn EXCEPT ![w] = NoTxn]
      \/ inbox[w] # <<>> /\ \E n : txn' = [txn EXCEPT ![w] = [NoTxn EXCEPT !.at = "preparing", !.owner = link[w], !.id = n]]
      \/ /\ txn[w].at \notin {"none", "publishing"}
         /\ \/ \E a : txn' = [txn EXCEPT ![w].at = a]
            \/ \E a, n : txn' = [txn EXCEPT ![w].at = a, ![w].saved = n]
            \/ txn' = [txn EXCEPT ![w].at = "publishing", ![w].timed = FALSE]
      \/ txn[w].at = "publishing" /\ ~txn[w].aborted /\ txn' = [txn EXCEPT ![w] = [@ EXCEPT !.at = "prepared"]]
  <2>1. CASE WorkerPrepare(w)
        BY <2>1, Zenon DEF WorkerPrepare, Message
  <2>2. CASE WorkerDrained(w) \/ WorkerPauses(w) \/ WorkerCaptures(w)
        BY <2>2 DEF WorkerDrained, WorkerPauses, WorkerCaptures, Phase, Becomes
  <2>3. CASE WorkerCancels(w)
        BY <2>3, Zenon DEF WorkerCancels
  <2>4. CASE WorkerCommits(w)
        BY <2>4 DEF WorkerCommits
  <2>5. CASE PublishFails(w)
        BY <1>2, <2>5 DEF PublishFails, Phase, Txns
  <2>6. CASE Deadline(w)
        BY <2>6 DEF Deadline
  <2>7. CASE BeginInput(w) \/ EndInput(w)
        BY <2>7 DEF BeginInput, EndInput
  <2>8. QED
        BY <2>1, <2>2, <2>3, <2>4, <2>5, <2>6, <2>7 DEF WorkerTransaction
<1>5. \A v \in Workers : txn'[v].at = "none" \/ (txn'[v].at = "publishing" /\ txn'[v].aborted) \/
          (link'[v] # 0 /\ txn'[v].owner = link'[v])
  <2>1. OwnerOK(w) /\ txn[w] \in Txns
        BY <1>2 DEF Owned
  <2>2. \A v \in Workers \ {w} : txn'[v] = txn[v]
        BY <1>2, <1>4
  <2>3. \/ txn'[w] = txn[w]
        \/ txn'[w] = NoTxn
        \/ link[w] # 0 /\ txn'[w].owner = link[w]
    <3>1. ASSUME NEW n, inbox[w] # <<>>,
                 txn' = [txn EXCEPT ![w] = [NoTxn EXCEPT !.at = "preparing", !.owner = link[w], !.id = n]]
          PROVE  link[w] # 0 /\ txn'[w].owner = link[w]
          BY <1>2, <2>1, <3>1 DEF NoTxn, OwnerOK
    <3>2. ASSUME NEW a, txn' = [txn EXCEPT ![w].at = a] PROVE txn'[w].owner = txn[w].owner
          BY <1>2, <2>1, <3>2 DEF Txns
    <3>3. ASSUME NEW a, NEW n, txn' = [txn EXCEPT ![w].at = a, ![w].saved = n] PROVE txn'[w].owner = txn[w].owner
          BY <1>2, <2>1, <3>3 DEF Txns
    <3>4. ASSUME txn' = [txn EXCEPT ![w].at = "publishing", ![w].timed = FALSE] PROVE txn'[w].owner = txn[w].owner
          BY <1>2, <2>1, <3>4 DEF Txns
    <3>5. ASSUME txn' = [txn EXCEPT ![w] = [@ EXCEPT !.at = "prepared"]] PROVE txn'[w].owner = txn[w].owner
          BY <1>2, <2>1, <3>5 DEF Txns
    <3>6. CASE txn' = txn \/ txn' = [txn EXCEPT ![w] = NoTxn]
          BY <1>2, <3>6
    <3>7. CASE \/ txn[w].at \notin {"none", "publishing"} /\ txn'[w].owner = txn[w].owner
               \/ txn[w].at = "publishing" /\ ~txn[w].aborted /\ txn'[w].owner = txn[w].owner
          BY <2>1, <3>7 DEF OwnerOK
    <3>8. QED
          BY <1>4, <3>1, <3>2, <3>3, <3>4, <3>5, <3>6, <3>7
  <2>4. QED
        BY <1>1, <2>1, <2>2, <2>3 DEF NoTxn, Owned, OwnerOK
<1>6. QED
      BY <1>0, <1>1, <1>3, <1>5 DEF Owned, OwnerOK

\* A worker that exits or loses its connection: what it had prepared goes too.
LEMMA OwnedConnection ==
    ASSUME TypeOK, Owned, NEW w \in Workers,
           \/ Evict(w) \/ StopWorker(w) \/ WorkerPublished(w)
           \/ WorkerLoses(w) \/ SupervisorLoses(w) \/ Reconnect(w)
    PROVE  Owned'
<1>1. UNCHANGED ask /\ link \in [Workers -> Nat] /\ conns \in [Workers -> Nat] /\ txn \in [Workers -> Txns]
      BY DEF Evict, StopWorker, WorkerPublished, WorkerLoses, SupervisorLoses, Reconnect, supervisor,
         TypeOK, WireTypes, WorkerTypes
<1>2. inbox \in [Workers -> Seq(Requests)]
      BY DEF TypeOK, WireTypes
<1>3. CASE Exits(w)
      BY <1>1, <1>2, <1>3 DEF Exits, Lost, NoTxn, Owned, OwnerOK
<1>4. CASE UNCHANGED <<link, inbox, txn>>
      BY <1>1, <1>4 DEF Owned, OwnerOK
<1>5. ASSUME NEW k \in Nat, Lost(w, k), txn' = Unbound(w) PROVE Owned'
  <2>1. txn'[w].at = "none" \/ (txn'[w].at = "publishing" /\ txn'[w].aborted)
        BY <1>1, <1>5 DEF Unbound, Cancelled, NoTxn, Txns, Owned, OwnerOK
  <2>2. \A v \in Workers \ {w} : UNCHANGED <<txn[v], link[v], inbox[v]>>
        BY <1>1, <1>2, <1>5 DEF Unbound, Lost
  <2>3. inbox'[w] = <<>>
        BY <1>2, <1>5 DEF Lost
  <2>4. QED
        BY <1>1, <2>1, <2>2, <2>3 DEF Owned, OwnerOK
<1>6. Exits(w) \/ UNCHANGED <<link, inbox, txn>> \/ \E k \in Nat : Lost(w, k) /\ txn' = Unbound(w)
  <2>1. CASE Evict(w) \/ StopWorker(w)
        BY <2>1 DEF Evict, StopWorker
  <2>2. CASE WorkerPublished(w)
        BY <2>2, Zenon DEF WorkerPublished
  <2>3. CASE WorkerLoses(w)
        BY <2>3 DEF WorkerLoses
  <2>4. CASE SupervisorLoses(w)
        BY <2>4 DEF SupervisorLoses, worker
  <2>5. CASE Reconnect(w)
    <3>1. conns[w] + 1 \in Nat
          BY <1>1
    <3>2. QED
          BY <2>5, <3>1 DEF Reconnect
  <2>6. QED
        BY <2>1, <2>2, <2>3, <2>4, <2>5
<1>7. QED
      BY <1>3, <1>4, <1>5, <1>6

LEMMA OwnedPreserved == TypeOK /\ Owned /\ [Next]_vars => Owned'
<1> SUFFICES ASSUME TypeOK, Owned, [Next]_vars PROVE Owned'
    OBVIOUS
<1>1. CASE UNCHANGED <<ask, link, txn, inbox>>
      BY <1>1 DEF Owned, OwnerOK
<1>2. CASE UNCHANGED vars
      BY <1>1, <1>2 DEF vars, supervisor, wire, worker
<1>3. ASSUME NEW c \in Commands,
             Reject(c) \/ AwaitFence(c) \/ Admit(c) \/ EndCommand(c) \/ WorkerTakes(c) \/ WorkerDoes(c)
      PROVE  Owned'
      BY <1>1, <1>3 DEF Reject, AwaitFence, Admit, EndCommand, WorkerTakes, WorkerDoes, supervisor, wire, worker
<1>4. CASE \/ BeginSweep \/ SweepDrained \/ EndSweep \/ PrepareCommand \/ Fencing \/ Quiet \/ DrainTimeout
           \/ AllCommitted \/ Prepared \/ ResumeCommand \/ ResumePrepare
      BY <1>1, <1>4 DEF BeginSweep, SweepDrained, EndSweep, PrepareCommand, Fencing, Quiet, DrainTimeout,
         AllCommitted, Prepared, ResumeCommand, ResumePrepare, wire, worker
<1>5. QED
      BY <1>2, <1>3, <1>4, OwnedAsks, OwnedAnswers, OwnedWorker, OwnedConnection DEF Next, Preparation

IInv == TypeOK /\ LatchInv /\ CheckpointInv /\ Owned

LEMMA Inductive == Init /\ [][Next]_vars => []IInv
<1>1. Init => IInv
      BY TypeInitially, LatchInitially, CheckpointInitially, OwnedInitially DEF IInv
<1>2. IInv /\ [Next]_vars => IInv'
      BY TypePreserved, LatchPreserved, CheckpointPreserved, OwnedPreserved DEF IInv
<1>3. QED
      BY <1>1, <1>2, PTL

\* Both fences are quiet: from the second drain on no command is in flight, and a
\* sweep stops workers only while no ordinary command is.
THEOREM FencesStayQuiet == Spec => []FencesAreQuiet
<1>1. IInv => FencesAreQuiet
      BY DEF IInv, LatchInv
<1>2. QED
      BY <1>1, Inductive, PTL DEF Spec

\* What a worker publishes is what the manifest says, and all that it had admitted.
THEOREM PublishedIsSaved == Spec => []CommittedIsSaved
<1>1. IInv => CommittedIsSaved
      BY DEF IInv, TypeOK, WorkerTypes, CheckpointInv, WorkerInv, TxnInv, GoneOK, CommittedIsSaved
<1>2. QED
      BY <1>1, Inductive, PTL DEF Spec

\* A persisted manifest is never rolled back.
THEOREM ManifestStands == Spec => []ManifestIsFinal
<1>1. IInv => ManifestIsFinal
      BY DEF IInv, CheckpointInv
<1>2. QED
      BY <1>1, Inductive, PTL DEF Spec

\* A fenced worker has a deadline, is closing its sessions, or will be stopped; if
\* its stop failed, the end of its connection will release it.
THEOREM FencesEnd == Spec => []FenceHasAnEnd
<1>1. ASSUME IInv, NEW w \in Workers, txn[w].at # "none", ~txn[w].timed, txn[w].at # "publishing"
      PROVE  IF ask[w].at = "unstopped"
             THEN link[w] # 0 /\ txn[w].owner = link[w]
             ELSE prep \in {"committing", "stopping"} /\ manifest[w] # None
  <2>1. WorkerInv(w) /\ OwnerOK(w)
        BY <1>1 DEF IInv, CheckpointInv, Owned
  <2>2. manifest[w] # None
        BY <1>1, <2>1 DEF WorkerInv, TxnInv, EndOK
  <2>3. prep \in {"committing", "stopping", "done"}
        BY <1>1, <2>2 DEF IInv, CheckpointInv, ManifestIsFinal, NoManifest
  <2>4. w \notin exited
        BY <1>1, <2>1 DEF WorkerInv, TxnInv, GoneOK, NoTxn
  <2>5. prep = "done" => ask[w].at = "unstopped"
        BY <1>1, <2>2, <2>4 DEF IInv, CheckpointInv, StoppedOK
  <2>6. link[w] # 0 /\ txn[w].owner = link[w]
        BY <1>1, <2>1 DEF OwnerOK
  <2>7. QED
        BY <2>2, <2>3, <2>5, <2>6
<1>2. IInv => FenceHasAnEnd
      BY <1>1 DEF FenceHasAnEnd
<1>3. QED
      BY <1>2, Inductive, PTL DEF Spec
=============================================================================
