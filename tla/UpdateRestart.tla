---------------------------- MODULE UpdateRestart ---------------------------
(***************************************************************************)
(* How the daemon checkpoints its sessions before an update restart.       *)
(* DaemonSupervisor.prepareUpdateRestart drains the commands in flight     *)
(* (MutationDrainLatch), has every session worker prepare a checkpoint,    *)
(* persists the manifest and commits.  A worker (AgentDaemon) drains its   *)
(* own commands, pauses its queues, captures and stays fenced until it is  *)
(* told to commit or to cancel, its supervisor's connection is lost, or    *)
(* its deadline passes.  Connections are lost and made anew, the two ends  *)
(* notice at different times, and every request may time out.  The idle    *)
(* eviction sweep uses the same latch and holds commands up with a fence.  *)
(***************************************************************************)
EXTENDS Naturals, Sequences, FiniteSets

CONSTANTS
    Workers, None,
    Plain,     \* mutating commands of clients ...
    Aborts,    \* ... and those of UPDATE_RESTART_DRAIN_COMMANDS
    Target,    \* the worker each of them is forwarded to
    MaxTries,  \* bound: prepare_update_restart commands
    MaxSweeps, \* bound: idle eviction sweeps
    MaxConns,  \* bound: connections to each worker
    MaxInputs  \* bound: inputs after which its own queues admit no more

Commands == Plain \cup Aborts

ASSUME RestartAssumption ==
    /\ Plain \cap Aborts = {} /\ Target \in [Commands -> Workers]
    /\ None \notin Workers /\ None \notin Nat /\ "prepare" \notin Commands

VARIABLES
    phase,     \* updateRestartPhase
    prep,      \* how far prepareUpdateRestart() is
    tries,
    active,    \* the supervisor's latch
    cmd,       \* the commands, as the supervisor sees them
    waiters,   \* who awaits the eviction fence, in order
    resuming,  \* the microtasks of a fence that was just released
    sweep, sweeps,
    ask,       \* per worker: the supervisor's request, and its prepareClient
    manifest,  \* what was persisted, per worker
    conn, conns, \* worker.client
    link,      \* the supervisor connection the worker is bound to
    inbox, outbox, \* requests to the worker and its responses
    txn,       \* the worker's updateRestart
    handling,  \* commands the worker handles: its latch
    queued,    \* commands on their way to it
    busy,      \* its queues are admitting an input
    version,   \* inputs it has admitted
    published, \* its sessions were closed for the update
    exited

supervisor == <<phase, prep, tries, active, cmd, waiters, resuming, sweep, sweeps, ask, manifest>>
wire   == <<conn, conns, link, inbox, outbox>>
worker == <<txn, handling, queued, busy, version, published, exited>>
vars == <<supervisor, wire, worker>>

NoTxn == [at |-> "none", owner |-> 0, aborted |-> FALSE, timed |-> TRUE, id |-> 0, saved |-> 0]
NoAsk == [at |-> "idle", via |-> 0, saved |-> 0]
NoManifest == [w \in Workers |-> None]

Init ==
    /\ phase = "none" /\ prep = "idle" /\ tries = 0 /\ active = 0
    /\ cmd = [c \in Commands |-> "new"] /\ waiters = <<>> /\ resuming = <<>>
    /\ sweep = "idle" /\ sweeps = 0
    /\ ask = [w \in Workers |-> NoAsk] /\ manifest = NoManifest
    /\ conn = [w \in Workers |-> 1] /\ conns = conn /\ link = conn
    /\ inbox = [w \in Workers |-> <<>>] /\ outbox = [w \in Workers |-> <<>>]
    /\ txn = [w \in Workers |-> NoTxn] /\ handling = {} /\ queued = {}
    /\ busy = [w \in Workers |-> FALSE] /\ version = [w \in Workers |-> 0]
    /\ published = {} /\ exited = {}

Of(w) == {c \in Commands : Target[c] = w}

\* The connection is lost, and with it what was on the way; a worker that exits.
Lost(w, k) == /\ link' = [link EXCEPT ![w] = k] /\ inbox' = [inbox EXCEPT ![w] = <<>>]
              /\ queued' = queued \ Of(w)
Exits(w) ==
    /\ exited' = exited \cup {w} /\ Lost(w, 0)
    /\ conn' = [conn EXCEPT ![w] = 0] /\ outbox' = [outbox EXCEPT ![w] = <<>>]
    /\ txn' = [txn EXCEPT ![w] = NoTxn] /\ busy' = [busy EXCEPT ![w] = FALSE]
    /\ handling' = handling \ Of(w)

\* Microtasks come before everything else the supervisor does.
Idle == resuming = <<>>

-----------------------------------------------------------------------------
(* DaemonSupervisor.handleLine(): admission of a mutating command. *)

Rejects(c) ==
    IF phase = "draining" THEN c \notin Aborts ELSE phase # "none"

\* mutationDrain.begin(), and handleCommand() forwards it to the worker, if that
\* is connected.
Begins(c) ==
    /\ active' = active + 1 /\ cmd' = [cmd EXCEPT ![c] = "inflight"]
    /\ queued' = IF conn[Target[c]] # 0 /\ conn[Target[c]] = link[Target[c]]
                 THEN queued \cup {c} ELSE queued

Reject(c) ==
    /\ Idle /\ cmd[c] = "new" /\ Rejects(c)
    /\ cmd' = [cmd EXCEPT ![c] = "done"]
    /\ UNCHANGED <<phase, prep, tries, active, waiters, resuming, sweep, sweeps, ask, manifest, wire, worker>>

AwaitFence(c) ==
    /\ Idle /\ cmd[c] = "new" /\ ~Rejects(c) /\ c \notin Aborts /\ sweep # "idle"
    /\ cmd' = [cmd EXCEPT ![c] = "waiting"] /\ waiters' = Append(waiters, c)
    /\ UNCHANGED <<phase, prep, tries, active, resuming, sweep, sweeps, ask, manifest, wire, worker>>

Admit(c) ==
    /\ Idle /\ cmd[c] = "new" /\ ~Rejects(c) /\ (c \in Aborts \/ sweep = "idle")
    /\ Begins(c)
    /\ UNCHANGED <<phase, prep, tries, waiters, resuming, sweep, sweeps, ask, manifest, wire,
                   txn, handling, busy, version, published, exited>>

\* The worker answered, or the request timed out or lost its connection.
EndCommand(c) ==
    /\ Idle /\ cmd[c] = "inflight"
    /\ cmd' = [cmd EXCEPT ![c] = "done"] /\ active' = active - 1
    /\ UNCHANGED <<phase, prep, tries, waiters, resuming, sweep, sweeps, ask, manifest, wire, worker>>

-----------------------------------------------------------------------------
(* runIdleEvictionSweep() *)

BeginSweep ==
    /\ Idle /\ sweep = "idle" /\ sweeps < MaxSweeps /\ phase = "none"
    /\ sweep' = "draining" /\ sweeps' = sweeps + 1
    /\ UNCHANGED <<phase, prep, tries, active, cmd, waiters, resuming, ask, manifest, wire, worker>>

SweepDrained ==
    /\ Idle /\ sweep = "draining" /\ active = 0 /\ phase = "none"
    /\ sweep' = "evicting"
    /\ UNCHANGED <<phase, prep, tries, active, cmd, waiters, resuming, sweeps, ask, manifest, wire, worker>>

\* stopWorker(worker, true)
Evict(w) ==
    /\ Idle /\ sweep = "evicting" /\ w \notin exited /\ phase = "none"
    /\ Exits(w)
    /\ UNCHANGED <<supervisor, conns, version, published>>

\* The evictions are done, or the drain timed out: the fence is released.
EndSweep ==
    /\ Idle /\ sweep # "idle"
    /\ sweep' = "idle" /\ resuming' = waiters /\ waiters' = <<>>
    /\ UNCHANGED <<phase, prep, tries, active, cmd, sweeps, ask, manifest, wire, worker>>

-----------------------------------------------------------------------------
(* prepareUpdateRestart(), itself a counted command. *)

\* begin(), phase "draining" and the first look of waitForDrain(1).
StartsPrepare ==
    /\ phase' = "draining" /\ active' = active + 1
    /\ prep' = IF active' <= 1 THEN "drained" ELSE "draining"

ResumeCommand ==
    /\ resuming # <<>> /\ Head(resuming) \in Commands
    /\ Begins(Head(resuming)) /\ resuming' = Tail(resuming)
    /\ UNCHANGED <<phase, prep, tries, waiters, sweep, sweeps, ask, manifest, wire,
                   txn, handling, busy, version, published, exited>>

ResumePrepare ==
    /\ resuming # <<>> /\ Head(resuming) = "prepare"
    /\ StartsPrepare /\ resuming' = Tail(resuming)
    /\ UNCHANGED <<tries, cmd, waiters, sweep, sweeps, ask, manifest, wire, worker>>

PrepareCommand ==
    /\ Idle /\ prep = "idle" /\ tries < MaxTries /\ tries' = tries + 1
    /\ IF sweep # "idle"
       THEN /\ waiters' = Append(waiters, "prepare") /\ prep' = "waiting"
            /\ UNCHANGED <<phase, active>>
       ELSE StartsPrepare /\ UNCHANGED waiters
    /\ UNCHANGED <<cmd, resuming, sweep, sweeps, ask, manifest, wire, worker>>

\* Mutant: the second waitForDrain() is dropped.
FencingQuiet ==
    /\ Idle /\ \/ prep = "draining" /\ active <= 1
               \/ prep = "drained"
    /\ phase' = "fencing" /\ prep' = "quiet"
    /\ UNCHANGED <<tries, active, cmd, waiters, resuming, sweep, sweeps, ask, manifest, wire, worker>>

\* The first waitForDrain(1) has returned: phase "fencing", and the second one.
Fencing ==
    /\ Idle /\ \/ prep = "draining" /\ active <= 1
               \/ prep = "drained"
    /\ phase' = "fencing" /\ prep' = IF active <= 1 THEN "quiet" ELSE "fencing"
    /\ UNCHANGED <<tries, active, cmd, waiters, resuming, sweep, sweeps, ask, manifest, wire, worker>>

Quiet ==
    /\ Idle /\ prep = "fencing" /\ active <= 1 /\ prep' = "quiet"
    /\ UNCHANGED <<phase, tries, active, cmd, waiters, resuming, sweep, sweeps, ask, manifest, wire, worker>>

\* The command fails: the phase is reset.
RolledBack == prep' = "idle" /\ phase' = "none" /\ active' = active - 1

\* Mutant: only the first drain has a timeout.
DrainTimeoutFirst ==
    /\ Idle /\ prep = "draining" /\ RolledBack
    /\ UNCHANGED <<tries, cmd, waiters, resuming, sweep, sweeps, ask, manifest, wire, worker>>

DrainTimeout ==
    /\ Idle /\ prep \in {"draining", "fencing"} /\ RolledBack
    /\ UNCHANGED <<tries, cmd, waiters, resuming, sweep, sweeps, ask, manifest, wire, worker>>

Residents == Workers \ exited

\* A request to a worker through the connection given, if that still stands.
Send(W, kind, via) ==
    inbox' = [w \in Workers |-> IF w \in W /\ via[w] = link[w]
                 THEN Append(inbox[w], [kind |-> kind, via |-> via[w], id |-> tries]) ELSE inbox[w]]

\* prepareUpdateRestartFenced(): every resident worker must be connected.
AskWorkers ==
    /\ Idle /\ prep = "quiet"
    /\ IF \E w \in Residents : conn[w] = 0
       THEN RolledBack /\ UNCHANGED <<ask, inbox>>
       ELSE /\ prep' = "asking"
            /\ ask' = [w \in Workers |-> IF w \in Residents
                          THEN [NoAsk EXCEPT !.at = "asked", !.via = conn[w]] ELSE NoAsk]
            /\ Send(Residents, "asked", conn)
            /\ UNCHANGED <<phase, active>>
    /\ UNCHANGED <<tries, cmd, waiters, resuming, sweep, sweeps, manifest, conn, conns, link, outbox, worker>>

\* A response to a request that still waits; late ones are dropped.
Answers(w, at) == ask[w].at = at /\ Head(outbox[w]).kind = at /\ Head(outbox[w]).id = tries

Settle(w, at) == ask' = [ask EXCEPT ![w].at = at]

Respond(w) ==
    /\ Idle /\ outbox[w] # <<>>
    /\ outbox' = [outbox EXCEPT ![w] = Tail(@)]
    /\ LET m == Head(outbox[w]) IN
       IF Answers(w, "asked")
       THEN ask' = [ask EXCEPT ![w].at = IF m.ok THEN "acked" ELSE "failed", ![w].saved = m.saved]
       ELSE IF Answers(w, "committing") \/ (Answers(w, "cancelling") /\ m.ok)
            THEN Settle(w, "settled")
            ELSE IF Answers(w, "cancelling") THEN Settle(w, "unreached") ELSE UNCHANGED ask
    /\ UNCHANGED <<phase, prep, tries, active, cmd, waiters, resuming, sweep, sweeps, manifest,
                   conn, conns, link, inbox, worker>>

\* The request times out, or its connection is gone.
AskFails(w) ==
    /\ Idle /\ ask[w].at \in {"asked", "cancelling", "committing"}
    /\ Settle(w, CASE ask[w].at = "asked" -> "failed"
                   [] ask[w].at = "cancelling" -> "unreached"
                   [] ask[w].at = "committing" -> "settled")
    /\ UNCHANGED <<phase, prep, tries, active, cmd, waiters, resuming, sweep, sweeps, manifest, wire, worker>>

\* A worker that could not be told to cancel is disconnected.
CloseUnreached(w) ==
    /\ Idle /\ ask[w].at = "unreached"
    /\ conn' = [conn EXCEPT ![w] = 0] /\ outbox' = [outbox EXCEPT ![w] = <<>>]
    /\ Settle(w, "settled")
    /\ UNCHANGED <<phase, prep, tries, active, cmd, waiters, resuming, sweep, sweeps, manifest,
                   conns, link, inbox, worker>>

Vias == [w \in Workers |-> ask[w].via]
With(at) == {w \in Workers : ask[w].at = at}

\* cancelAcknowledged()
CancelAcknowledged ==
    /\ prep' = "cancelling" /\ UNCHANGED manifest
    /\ ask' = [w \in Workers |-> IF w \in With("acked") THEN [ask[w] EXCEPT !.at = "cancelling"] ELSE NoAsk]
    /\ Send(With("acked"), "cancelling", Vias)

\* Every worker answered.  All are prepared, on the connection they still have:
\* the manifest is persisted (unless that fails) and the commit is sent.
AllAsked ==
    /\ Idle /\ prep = "asking" /\ With("asked") = {}
    /\ \/ /\ With("failed") = {} /\ \A w \in With("acked") : conn[w] = ask[w].via
          /\ prep' = "committing"
          /\ manifest' = [w \in Workers |-> IF w \in With("acked") THEN ask[w].saved ELSE None]
          /\ ask' = [w \in Workers |-> IF w \in With("acked")
                        THEN [ask[w] EXCEPT !.at = "committing"] ELSE NoAsk]
          /\ Send(With("acked"), "committing", Vias)
       \/ CancelAcknowledged
    /\ UNCHANGED <<phase, tries, active, cmd, waiters, resuming, sweep, sweeps, conn, conns, link, outbox, worker>>

AllCancelled ==
    /\ Idle /\ prep = "cancelling" /\ \A w \in Workers : ask[w].at \in {"idle", "settled"}
    /\ RolledBack /\ ask' = [w \in Workers |-> NoAsk]
    /\ UNCHANGED <<tries, cmd, waiters, resuming, sweep, sweeps, manifest, wire, worker>>

\* Mutant: a commit that failed rolls the restart back.
AllCommittedOrNot ==
    /\ Idle /\ prep = "committing" /\ \A w \in Workers : ask[w].at \in {"idle", "settled"}
    /\ IF With("settled") \subseteq published
       THEN prep' = "stopping" /\ UNCHANGED <<phase, active>> ELSE RolledBack
    /\ UNCHANGED <<tries, cmd, waiters, resuming, sweep, sweeps, ask, manifest, wire, worker>>

\* Committed or not, the workers of the manifest are stopped, by force if need be.
\* The two rounds of stops are one here: what counts is how the last one ends.
AllCommitted ==
    /\ Idle /\ prep = "committing" /\ \A w \in Workers : ask[w].at \in {"idle", "settled"}
    /\ prep' = "stopping"
    /\ UNCHANGED <<phase, tries, active, cmd, waiters, resuming, sweep, sweeps, ask, manifest, wire, worker>>

Stopping(w) == Idle /\ prep = "stopping" /\ manifest[w] # None /\ w \notin exited

\* stopWorker() asks for a shutdown, then closes the connection and waits.
StopCloses(w) ==
    /\ Stopping(w) /\ ask[w].at = "settled" /\ Settle(w, "closed")
    /\ conn' = [conn EXCEPT ![w] = 0] /\ outbox' = [outbox EXCEPT ![w] = <<>>]
    /\ UNCHANGED <<phase, prep, tries, active, cmd, waiters, resuming, sweep, sweeps, manifest,
                   conns, link, inbox, worker>>

\* The worker shuts down or is killed.
StopWorker(w) ==
    /\ Stopping(w) /\ Exits(w)
    /\ UNCHANGED <<supervisor, conns, version, published>>

\* The last stop of a worker rejects while it lives: its descriptor could not be
\* written, before anything was sent to it, or it outlived the wait, its process
\* unidentified and so not signalled.
StopFails(w) ==
    /\ Stopping(w) /\ ask[w].at \in {"settled", "closed"} /\ Settle(w, "unstopped")
    /\ UNCHANGED <<phase, prep, tries, active, cmd, waiters, resuming, sweep, sweeps, manifest, wire, worker>>

\* Stops that rejected are ignored.
Prepared ==
    /\ Idle /\ prep = "stopping"
    /\ \A w \in Workers : manifest[w] # None => w \in exited \/ ask[w].at = "unstopped"
    /\ prep' = "done" /\ phase' = "prepared" /\ active' = active - 1
    /\ UNCHANGED <<tries, cmd, waiters, resuming, sweep, sweeps, ask, manifest, wire, worker>>

-----------------------------------------------------------------------------
(* AgentDaemon: the worker. *)

Runs(w) == w \notin exited
Phase(w, at) == Runs(w) /\ txn[w].at = at
Becomes(w, at) == txn' = [txn EXCEPT ![w].at = at]

\* cancelPreparedUpdateRestart(): what is being published only notes it.
Cancelled(w) == IF txn[w].at = "publishing" THEN [txn[w] EXCEPT !.aborted = TRUE] ELSE NoTxn

Handled(w) == {c \in handling : Target[c] = w}

\* A forwarded command: admitted unless the transaction fences it off.
WorkerTakes(c) ==
    /\ c \in queued /\ queued' = queued \ {c}
    /\ handling' = IF \/ txn[Target[c]].at = "none"
                      \/ txn[Target[c]].at \in {"preparing", "drained"} /\ c \in Aborts
                   THEN handling \cup {c} ELSE handling
    /\ UNCHANGED <<supervisor, wire, txn, busy, version, published, exited>>

WorkerDoes(c) ==
    /\ c \in handling /\ Runs(Target[c])
    /\ handling' = handling \ {c} /\ version' = [version EXCEPT ![Target[c]] = @ + 1]
    /\ UNCHANGED <<supervisor, wire, txn, queued, busy, published, exited>>

\* The session queues of the worker admit an input of their own.
BeginInput(w) ==
    /\ Runs(w) /\ ~busy[w] /\ version[w] < MaxInputs[w]
    /\ txn[w].at \notin {"quiescing", "prepared", "publishing"}
    /\ busy' = [busy EXCEPT ![w] = TRUE]
    /\ UNCHANGED <<supervisor, wire, txn, handling, queued, version, published, exited>>

EndInput(w) ==
    /\ Runs(w) /\ busy[w]
    /\ busy' = [busy EXCEPT ![w] = FALSE] /\ version' = [version EXCEPT ![w] = @ + 1]
    /\ UNCHANGED <<supervisor, wire, txn, handling, queued, published, exited>>

Reply(w, m, ok, saved) ==
    outbox' = IF conn[w] # m.via THEN outbox ELSE
        [outbox EXCEPT ![w] = Append(@, [kind |-> m.kind, id |-> m.id, ok |-> ok, saved |-> saved])]

Message(w, kind) == Runs(w) /\ inbox[w] # <<>> /\ Head(inbox[w]).kind = kind
Taken(w) == inbox' = [inbox EXCEPT ![w] = Tail(@)]

\* Mutant: the transaction has no deadline.
WorkerPrepareUntimed(w) ==
    /\ Message(w, "asked") /\ Taken(w)
    /\ LET m == Head(inbox[w]) IN
       IF txn[w] = NoTxn
       THEN /\ txn' = [txn EXCEPT ![w] = [NoTxn EXCEPT !.at = "preparing", !.owner = link[w],
                                                      !.id = m.id, !.timed = FALSE]]
            /\ UNCHANGED outbox
       ELSE Reply(w, m, FALSE, 0) /\ UNCHANGED txn
    /\ UNCHANGED <<supervisor, conn, conns, link, handling, queued, busy, version, published, exited>>

\* worker_prepare_update
WorkerPrepare(w) ==
    /\ Message(w, "asked") /\ Taken(w)
    /\ LET m == Head(inbox[w]) IN
       IF txn[w] = NoTxn
       THEN /\ txn' = [txn EXCEPT ![w] = [NoTxn EXCEPT !.at = "preparing", !.owner = link[w], !.id = m.id]]
            /\ UNCHANGED outbox
       ELSE Reply(w, m, FALSE, 0) /\ UNCHANGED txn
    /\ UNCHANGED <<supervisor, conn, conns, link, handling, queued, busy, version, published, exited>>

\* runUpdateRestartPreparation(): two drains around the change of phase.
WorkerDrained(w) ==
    /\ \/ Phase(w, "preparing") /\ Handled(w) = {} /\ Becomes(w, "drained")
       \/ Phase(w, "drained") /\ Becomes(w, "fencing")
    /\ UNCHANGED <<supervisor, wire, handling, queued, busy, version, published, exited>>

\* prepareUpdateRestartCheckpoint(): the queues are paused, ...
WorkerPauses(w) ==
    /\ Phase(w, "fencing") /\ Handled(w) = {} /\ Becomes(w, "quiescing")
    /\ UNCHANGED <<supervisor, wire, handling, queued, busy, version, published, exited>>

\* Mutant: an input that is being admitted is not waited for.
WorkerCapturesAtOnce(w) ==
    /\ Phase(w, "quiescing")
    /\ txn' = [txn EXCEPT ![w].at = "prepared", ![w].saved = version[w]]
    /\ Reply(w, [kind |-> "asked", via |-> txn[w].owner, id |-> txn[w].id], TRUE, version[w])
    /\ UNCHANGED <<supervisor, conn, conns, link, inbox, handling, queued, busy, version, published, exited>>

\* ... what they were admitting is waited for, and the sessions are captured.
WorkerCaptures(w) ==
    /\ Phase(w, "quiescing") /\ ~busy[w]
    /\ txn' = [txn EXCEPT ![w].at = "prepared", ![w].saved = version[w]]
    /\ Reply(w, [kind |-> "asked", via |-> txn[w].owner, id |-> txn[w].id], TRUE, version[w])
    /\ UNCHANGED <<supervisor, conn, conns, link, inbox, handling, queued, busy, version, published, exited>>

\* worker_cancel_update
WorkerCancels(w) ==
    /\ Message(w, "cancelling") /\ Taken(w)
    /\ IF txn[w].at = "publishing" \/ (txn[w] # NoTxn /\ txn[w].owner # link[w])
       THEN Reply(w, Head(inbox[w]), FALSE, 0) /\ UNCHANGED txn
       ELSE txn' = [txn EXCEPT ![w] = NoTxn] /\ Reply(w, Head(inbox[w]), TRUE, 0)
    /\ UNCHANGED <<supervisor, conn, conns, link, handling, queued, busy, version, published, exited>>

\* worker_commit_update: only the checkpoint that this connection prepared.
WorkerCommits(w) ==
    /\ Message(w, "committing") /\ Taken(w)
    /\ IF txn[w].at = "prepared" /\ txn[w].owner = link[w]
       THEN txn' = [txn EXCEPT ![w].at = "publishing", ![w].timed = FALSE] /\ UNCHANGED outbox
       ELSE Reply(w, Head(inbox[w]), FALSE, 0) /\ UNCHANGED txn
    /\ UNCHANGED <<supervisor, conn, conns, link, handling, queued, busy, version, published, exited>>

CommitReply(w, ok) ==
    Reply(w, [kind |-> "committing", via |-> txn[w].owner, id |-> txn[w].id], ok, 0)

\* The sessions are closed; a worker without its supervisor shuts down.
WorkerPublished(w) ==
    /\ Phase(w, "publishing") /\ w \notin published
    /\ published' = published \cup {w}
    /\ IF link[w] = txn[w].owner
       THEN CommitReply(w, TRUE) /\ UNCHANGED <<conn, link, inbox, txn, handling, queued, busy, exited>>
       ELSE Exits(w)
    /\ UNCHANGED <<supervisor, conns, version>>

\* Closing fails: prepared as before, or cancelled if that was asked meanwhile.
PublishFails(w) ==
    /\ Phase(w, "publishing") /\ w \notin published
    /\ txn' = [txn EXCEPT ![w] = IF @.aborted THEN NoTxn ELSE [@ EXCEPT !.at = "prepared"]]
    /\ CommitReply(w, FALSE)
    /\ UNCHANGED <<supervisor, conn, conns, link, inbox, handling, queued, busy, version, published, exited>>

\* The transaction's own deadline, which a commit clears.
Deadline(w) ==
    /\ Runs(w) /\ txn[w].at # "none" /\ txn[w].timed
    /\ txn' = [txn EXCEPT ![w] = NoTxn]
    /\ UNCHANGED <<supervisor, wire, handling, queued, busy, version, published, exited>>

-----------------------------------------------------------------------------
(* The connection of supervisor and worker. *)

Unbound(w) == [txn EXCEPT ![w] = IF @ # NoTxn /\ @.owner = link[w] THEN Cancelled(w) ELSE @]

\* The worker sees its end close: revokeSupervisorClaim().
WorkerLoses(w) ==
    /\ Runs(w) /\ link[w] # 0 /\ conns[w] < MaxConns[w]
    /\ Lost(w, 0) /\ txn' = Unbound(w)
    /\ UNCHANGED <<supervisor, conn, conns, outbox, handling, busy, version, published, exited>>

\* The supervisor sees its end close: handleWorkerClose().
SupervisorLoses(w) ==
    /\ Idle /\ Runs(w) /\ conn[w] # 0 /\ conns[w] < MaxConns[w]
    /\ conn' = [conn EXCEPT ![w] = 0] /\ outbox' = [outbox EXCEPT ![w] = <<>>]
    /\ UNCHANGED <<supervisor, conns, link, inbox, worker>>

\* connectWorker(): a new connection revokes the previous one.  A worker whose
\* stop was tried is left alone.
Reconnect(w) ==
    /\ Idle /\ Runs(w) /\ conn[w] = 0 /\ conns[w] < MaxConns[w]
    /\ ask[w].at \notin {"closed", "unstopped"}
    /\ conns' = [conns EXCEPT ![w] = @ + 1] /\ conn' = [conn EXCEPT ![w] = conns[w] + 1]
    /\ Lost(w, conns[w] + 1) /\ txn' = Unbound(w)
    /\ UNCHANGED <<supervisor, outbox, handling, busy, version, published, exited>>

-----------------------------------------------------------------------------
Preparation ==
    \/ Fencing \/ Quiet \/ DrainTimeout \/ AskWorkers \/ AllAsked \/ AllCancelled
    \/ AllCommitted \/ Prepared \/ ResumeCommand \/ ResumePrepare
    \/ \E w \in Workers : AskFails(w) \/ CloseUnreached(w) \/ StopCloses(w) \/ StopWorker(w) \/ StopFails(w)

WorkerTransaction(w) ==
    \/ WorkerPrepare(w) \/ WorkerDrained(w) \/ WorkerPauses(w) \/ WorkerCaptures(w)
    \/ WorkerCancels(w) \/ WorkerCommits(w)

Next ==
    \/ \E c \in Commands : Reject(c) \/ AwaitFence(c) \/ Admit(c) \/ EndCommand(c) \/ WorkerTakes(c) \/ WorkerDoes(c)
    \/ BeginSweep \/ SweepDrained \/ EndSweep \/ PrepareCommand \/ Preparation
    \/ \E w \in Workers :
          \/ Evict(w) \/ Respond(w) \/ WorkerTransaction(w)
          \/ WorkerPublished(w) \/ PublishFails(w) \/ Deadline(w)
          \/ BeginInput(w) \/ EndInput(w)
          \/ WorkerLoses(w) \/ SupervisorLoses(w) \/ Reconnect(w)

\* The supervisor's event loop goes on, and its drains, its requests to workers
\* and its stops have timeouts.  Nothing is assumed of workers and commands.
Fairness == WF_vars(Preparation)

Spec == Init /\ [][Next]_vars /\ Fairness

-----------------------------------------------------------------------------
\* Both fences are quiet.  While the workers are asked to prepare, and from then
\* on, no command of a client is in flight: neither one admitted in the first
\* drain nor one that a released eviction fence let go.  And a sweep stops
\* workers only while no ordinary command is in flight.
FencesAreQuiet ==
    /\ prep \in {"quiet", "asking", "cancelling", "committing", "stopping", "done"} =>
          \A c \in Commands : cmd[c] # "inflight"
    /\ sweep = "evicting" => \A c \in Plain : cmd[c] # "inflight"

\* A worker closes its sessions for the update only when the manifest is on
\* disk and says exactly what the worker had admitted by then.
CommittedIsSaved == \A w \in published : manifest[w] = version[w]

\* A restart whose manifest is on disk is never rolled back, whatever its commits
\* and its stops come to: the successor restores from the manifest, and sessions
\* that went on here would be restored a second time.
ManifestIsFinal == manifest # NoManifest => prep \in {"committing", "stopping", "done"}

\* A fenced worker does not stay so: its deadline is armed, or it is closing its
\* sessions, or the supervisor is on its way to stop it.  Only a worker whose
\* commit and whose stop both failed stays fenced, and only as long as the
\* connection that fenced it lasts: the end of the supervisor releases it.
FenceHasAnEnd ==
    \A w \in Workers : txn[w].at # "none" =>
        \/ txn[w].timed \/ txn[w].at = "publishing"
        \/ IF ask[w].at = "unstopped"
           THEN link[w] # 0 /\ txn[w].owner = link[w]
           ELSE prep \in {"committing", "stopping"} /\ manifest[w] # None

\* The daemon does not refuse commands for ever: every preparation is rolled back
\* or finished, whatever its workers do.
PreparationEnds == (phase # "none") ~> (phase \in {"none", "prepared"})
=============================================================================
