-------------------------- MODULE CommandRecovery ---------------------------
(***************************************************************************)
(* A mutating daemon command on its way from DaemonClient (with request    *)
(* recovery) through DaemonSupervisor.handleLine and the                   *)
(* CommandRecoveryJournal to a session worker, and its answer back.        *)
(* Connections are lost, the supervisor stops and is replaced, requests    *)
(* are resent, and an append to the journal may be cut short.              *)
(*                                                                         *)
(* handleLine awaits only what resumes in microtasks (the ready promise,   *)
(* a synchronous read of the owner record) before the journal decides, so  *)
(* the decision is one step.  Lines are handled in the order in which the  *)
(* client wrote them, those of an older connection before those of a newer *)
(* one: both are readable before the client can answer anything.           *)
(*                                                                         *)
(* load() folds over the lines of the journal file and treats the keys     *)
(* independently, and every append adds one line: the file is represented  *)
(* by what load() makes of it so far.                                      *)
(***************************************************************************)
EXTENDS Integers, Sequences, FiniteSets

CONSTANTS
    NumCommands,  \* bound: mutating commands the client sends
    MaxConns,     \* bound: connections the client makes
    MaxCrashes,   \* bound: stops of the supervisor
    CompactAfter, \* COMPACT_AFTER_RECORDS
    TornStops     \* which of the stops may leave the last append truncated

ASSUME BoundsAssumption ==
    NumCommands \in Nat /\ MaxConns \in Nat /\ MaxCrashes \in Nat /\ CompactAfter \in Nat
ASSUME TornAssumption == TornStops \subseteq 1..MaxCrashes

Commands == 1..NumCommands

VARIABLES
    req,        \* the client's requests: pendingRequests, or how they settled
    conn,       \* the client's connection, 0 for none
    conns,      \* connections made so far
    linked,     \* whether the supervisor still has the other end of conn
    closed,     \* the client gave up reconnecting, or was closed
    toSup,      \* lines written by the client and not yet handled
    toCli,      \* responses on the present connection
    up, crashes,\* the supervisor process
    restarting, \* updateRestartPhase refuses mutating commands
    entries,    \* journal: this.entries
    recordCount,\* journal: this.recordCount
    disk,       \* the journal file: what load() makes of each key ...
    stored,     \* ... how many lines it can parse ...
    unended,    \* ... and its last line, when that lacks its newline
    flight,     \* per command under way in handleCommand: the connection to answer
    work,       \* dispatches that a worker has not executed yet
    effect      \* executions by a worker

client  == <<req, conn, conns, closed>>
wire    == <<linked, toSup, toCli>>
process == <<up, crashes, restarting>>
journal == <<entries, recordCount>>
file    == <<disk, stored, unended>>
worker  == <<work, effect>>
vars == <<client, wire, process, journal, file, flight, worker>>

Responses == {"ok", "failed"}
Pending   == {"sent", "awaitingReconnect"}
Absent    == [c \in Commands |-> "absent"]
Ended     == [key |-> 0, was |-> "absent", whole |-> FALSE]

\* A record says what becomes of its key.
Received(c)     == [key |-> c, says |-> "pending"]
Result(c, r)    == [key |-> c, says |-> r]
Acknowledged(c) == [key |-> c, says |-> "absent"]

Init ==
    /\ req = [c \in Commands |-> "unsent"] /\ conn = 0 /\ conns = 0 /\ closed = FALSE
    /\ linked = FALSE /\ toSup = <<>> /\ toCli = <<>>
    /\ up = TRUE /\ crashes = 0 /\ restarting = FALSE
    /\ entries = Absent /\ recordCount = 0
    /\ disk = Absent /\ stored = 0 /\ unended = Ended
    /\ flight = [c \in Commands |-> 0]
    /\ work = [c \in Commands |-> 0] /\ effect = [c \in Commands |-> 0]

-----------------------------------------------------------------------------
(* The journal and its file. *)

\* load(), one line: a receipt makes a fresh entry, an acknowledgement deletes
\* it, a result is kept only for a known entry.
Load(status, r) ==
    IF r.says \in Responses /\ status = "absent" THEN "absent" ELSE r.says

\* The file without its unended line.
Shortened == IF unended = Ended THEN disk ELSE [disk EXCEPT ![unended.key] = unended.was]
ShortenedCount == IF unended.whole THEN stored - 1 ELSE stored

\* append(): the text goes to the end of the file.  After a line that has no
\* newline it makes one line of two records, which JSON.parse refuses.
FileAppend(r) ==
    /\ disk' = IF unended = Ended THEN [disk EXCEPT ![r.key] = Load(disk[r.key], r)]
               ELSE Shortened
    /\ stored' = IF unended = Ended THEN stored + 1 ELSE ShortenedCount
    /\ unended' = Ended

\* append() that the process does not survive: a part of the text, or all of it
\* but the newline.
FileCut(r, whole) ==
    /\ disk' = IF unended = Ended /\ whole
               THEN [disk EXCEPT ![r.key] = Load(disk[r.key], r)] ELSE Shortened
    /\ stored' = IF unended = Ended /\ whole THEN stored + 1 ELSE ShortenedCount
    /\ unended' = IF unended = Ended
                  THEN [key |-> r.key, was |-> disk[r.key], whole |-> whole]
                  ELSE [unended EXCEPT !.whole = FALSE]

\* compact(): a receipt for every entry and a result for every answered one,
\* written to a temporary file that replaces the journal.
Records(es) == Cardinality({c \in Commands : es[c] # "absent"})
             + Cardinality({c \in Commands : es[c] \in Responses})
Compact(es) == /\ disk' = es /\ stored' = Records(es) /\ unended' = Ended
               /\ recordCount' = Records(es)

\* Append a record, change the entry, and compact when it is time to.
Write(r, es, compacts) ==
    /\ entries' = es
    /\ IF compacts \/ (r.says # "pending" /\ recordCount + 1 >= CompactAfter)
       THEN Compact(es)
       ELSE FileAppend(r) /\ recordCount' = recordCount + 1

\* Mutant: the receipt is kept in memory only.
beginInMemory(c) ==
    /\ entries' = [entries EXCEPT ![c] = "pending"]
    /\ UNCHANGED <<recordCount, file>>
begin(c) == Write(Received(c), [entries EXCEPT ![c] = "pending"], FALSE)
recordResult(c, r) == Write(Result(c, r), [entries EXCEPT ![c] = r], FALSE)
acknowledge(c) ==
    IF entries[c] = "absent" THEN UNCHANGED <<journal, file>>
    ELSE LET es == [entries EXCEPT ![c] = "absent"]
         IN Write(Acknowledged(c), es, es = Absent)

-----------------------------------------------------------------------------
(* DaemonClient. *)

Cmd(c) == [type |-> "command", cmd |-> c, conn |-> conn]
Ack(c) == [type |-> "ack_result", cmd |-> c, conn |-> conn]

\* request(): only while connected; ids are handed out in order.
Request(c) ==
    /\ conn # 0 /\ req[c] = "unsent" /\ \A b \in Commands : b < c => req[b] # "unsent"
    /\ req' = [req EXCEPT ![c] = "sent"]
    /\ toSup' = IF linked THEN Append(toSup, Cmd(c)) ELSE toSup
    /\ UNCHANGED <<conn, conns, closed, linked, toCli, process, journal, file, flight, worker>>

\* handleLine(): a response settles its request and is acknowledged; a late one
\* finds no request and is not.
Response ==
    /\ conn # 0 /\ toCli # <<>>
    /\ toCli' = Tail(toCli)
    /\ LET c == Head(toCli).cmd IN
       IF req[c] = "sent"
       THEN /\ req' = [req EXCEPT ![c] = Head(toCli).says]
            /\ toSup' = IF linked THEN Append(toSup, Ack(c)) ELSE toSup
       ELSE UNCHANGED <<req, toSup>>
    /\ UNCHANGED <<conn, conns, closed, linked, process, journal, file, flight, worker>>

\* The timeout of a request that is not waiting for a connection.
RequestTimeout(c) ==
    /\ req[c] = "sent"
    /\ req' = [req EXCEPT ![c] = "abandoned"]
    /\ UNCHANGED <<conn, conns, closed, wire, process, journal, file, flight, worker>>

\* Mutant: pending requests are not marked for the next connection.
DisconnectedForgets ==
    /\ conn # 0
    /\ conn' = 0 /\ linked' = FALSE /\ toCli' = <<>> /\ toSup' = <<>>
    /\ UNCHANGED <<req, conns, closed, process, journal, file, flight, worker>>

\* notifyClosed(): pending requests wait for the next connection.  A part of
\* what was written still arrives, responses on the way do not.
Disconnected ==
    /\ conn # 0
    /\ conn' = 0 /\ linked' = FALSE /\ toCli' = <<>>
    /\ \E n \in 0..Len(toSup) :
          /\ \A i \in 1..Len(toSup) : toSup[i].conn # conn => i <= n
          /\ toSup' = SubSeq(toSup, 1, n)
    /\ req' = [c \in Commands |-> IF req[c] = "sent" THEN "awaitingReconnect" ELSE req[c]]
    /\ UNCHANGED <<conns, closed, process, journal, file, flight, worker>>

\* The requests that a hello resends, in the order of the pendingRequests map.
Resent == {c \in Commands : req[c] = "awaitingReconnect"}
ResendOrders ==
    {s \in [1..Cardinality(Resent) -> Resent] :
        \A i, j \in 1..Cardinality(Resent) : i < j => s[i] < s[j]}

\* autoReconnect(): recoverDaemon() starts a supervisor when there is none; then
\* connect() and the hello, whose handler resends what is waiting.
Reconnect ==
    /\ conn = 0 /\ ~closed /\ up /\ conns < MaxConns
    /\ conns' = conns + 1 /\ conn' = conns + 1 /\ linked' = TRUE
    /\ \E s \in ResendOrders :
          toSup' = toSup \o [i \in 1..Cardinality(Resent) |->
                               [type |-> "command", cmd |-> s[i], conn |-> conns + 1]]
    /\ req' = [c \in Commands |-> IF c \in Resent THEN "sent" ELSE req[c]]
    /\ UNCHANGED <<closed, toCli, process, journal, file, flight, worker>>

\* Reconnection fails for too long: every request is rejected.
GiveUp ==
    /\ conn = 0 /\ ~closed /\ conns > 0
    /\ closed' = TRUE
    /\ req' = [c \in Commands |-> IF c \in Resent THEN "abandoned" ELSE req[c]]
    /\ UNCHANGED <<conn, conns, wire, process, journal, file, flight, worker>>

-----------------------------------------------------------------------------
(* DaemonSupervisor.handleLine. *)

Line(type) == up /\ toSup # <<>> /\ Head(toSup).type = type

\* write(): only to the connection the line came from, if that still exists.
Reply(to, c, says) ==
    toCli' = IF linked /\ to = conn THEN Append(toCli, [cmd |-> c, says |-> says]) ELSE toCli

\* lookup(): a command that is known is answered from the journal.
Known ==
    /\ Line("command") /\ entries[Head(toSup).cmd] # "absent"
    /\ LET c == Head(toSup).cmd IN
       Reply(Head(toSup).conn, c, IF entries[c] = "pending" THEN "uncertain" ELSE entries[c])
    /\ toSup' = Tail(toSup)
    /\ UNCHANGED <<client, linked, process, journal, file, flight, worker>>

\* Mutant: the update restart is looked at before the journal.
RefusedFirst ==
    /\ Line("command") /\ restarting
    /\ Reply(Head(toSup).conn, Head(toSup).cmd, "rejected")
    /\ toSup' = Tail(toSup)
    /\ UNCHANGED <<client, linked, process, journal, file, flight, worker>>

\* A new command while an update restart is being prepared.
Refused ==
    /\ Line("command") /\ entries[Head(toSup).cmd] = "absent" /\ restarting
    /\ Reply(Head(toSup).conn, Head(toSup).cmd, "rejected")
    /\ toSup' = Tail(toSup)
    /\ UNCHANGED <<client, linked, process, journal, file, flight, worker>>

\* A new command: its receipt is durable before handleCommand dispatches it.
Admit ==
    /\ Line("command") /\ entries[Head(toSup).cmd] = "absent" /\ ~restarting
    /\ LET c == Head(toSup).cmd IN
       /\ begin(c)
       /\ flight' = [flight EXCEPT ![c] = Head(toSup).conn]
       /\ work' = [work EXCEPT ![c] = @ + 1]
    /\ toSup' = Tail(toSup)
    /\ UNCHANGED <<client, linked, toCli, process, effect>>

\* handleCommand() returned a response, or threw: a worker's error, its timeout
\* or the loss of its connection.  The result is durable before it is written;
\* recordResult() throws when the entry is gone, and the failure is written.
Finish(c, r) ==
    /\ up /\ flight[c] # 0
    /\ (r = "ok") => (effect[c] > 0 /\ work[c] = 0)
    /\ flight' = [flight EXCEPT ![c] = 0]
    /\ IF entries[c] = "absent"
       THEN Reply(flight[c], c, "failed") /\ UNCHANGED <<journal, file>>
       ELSE recordResult(c, r) /\ Reply(flight[c], c, r)
    /\ UNCHANGED <<client, linked, toSup, process, worker>>

\* ack_result.
Acknowledge ==
    /\ Line("ack_result")
    /\ acknowledge(Head(toSup).cmd)
    /\ toSup' = Tail(toSup)
    /\ UNCHANGED <<client, linked, toCli, process, flight, worker>>

\* prepareUpdateRestart() begins, or is rolled back.
UpdateRestart ==
    /\ up /\ restarting' = ~restarting
    /\ UNCHANGED <<client, wire, up, crashes, journal, file, flight, worker>>

\* A worker, a process of its own, executes what was dispatched to it, or does
\* not: it refuses the command or dies.
WorkerExecutes(c) ==
    /\ work[c] > 0
    /\ work' = [work EXCEPT ![c] = @ - 1] /\ effect' = [effect EXCEPT ![c] = @ + 1]
    /\ UNCHANGED <<client, wire, process, journal, file, flight>>

WorkerDrops(c) ==
    /\ work[c] > 0 /\ work' = [work EXCEPT ![c] = @ - 1]
    /\ UNCHANGED <<client, wire, process, journal, file, flight, effect>>

-----------------------------------------------------------------------------
(* The supervisor process stops, possibly inside an append, and is replaced. *)

\* The records that the supervisor may be appending.
Appending ==
    {Received(c) : c \in {d \in Commands : /\ Line("command") /\ Head(toSup).cmd = d
                                           /\ entries[d] = "absent" /\ ~restarting}}
    \cup {Acknowledged(c) : c \in {d \in Commands : /\ Line("ack_result")
                                                    /\ Head(toSup).cmd = d
                                                    /\ entries[d] # "absent"}}
    \cup {Result(c, "failed") : c \in {d \in Commands : flight[d] # 0 /\ entries[d] # "absent"}}
    \cup {Result(c, "ok") : c \in {d \in Commands : /\ flight[d] # 0 /\ entries[d] # "absent"
                                                    /\ effect[d] > 0 /\ work[d] = 0}}

Stopped ==
    /\ up /\ crashes < MaxCrashes
    /\ up' = FALSE /\ crashes' = crashes + 1 /\ restarting' = FALSE
    /\ linked' = FALSE /\ toSup' = <<>>
    /\ entries' = Absent /\ recordCount' = 0
    /\ flight' = [c \in Commands |-> 0]
    /\ UNCHANGED <<client, toCli, worker>>

Stop == Stopped /\ UNCHANGED file

StopAfterAppend == Stopped /\ \E r \in Appending : FileAppend(r)

StopInAppend ==
    /\ Stopped /\ crashes' \in TornStops
    /\ \E r \in Appending, whole \in BOOLEAN : FileCut(r, whole)

\* A new supervisor: the journal's constructor loads the file.
Restart ==
    /\ ~up /\ up' = TRUE
    /\ entries' = disk /\ recordCount' = stored
    /\ UNCHANGED <<client, wire, crashes, restarting, file, flight, worker>>

-----------------------------------------------------------------------------
Supervisor == Known \/ Refused \/ Admit \/ Acknowledge

Next ==
    \/ \E c \in Commands :
          Request(c) \/ RequestTimeout(c) \/ WorkerExecutes(c) \/ WorkerDrops(c)
    \/ \E c \in Commands, r \in Responses : Finish(c, r)
    \/ Response \/ Disconnected \/ Reconnect \/ GiveUp
    \/ Supervisor \/ UpdateRestart
    \/ Stop \/ StopAfterAppend \/ StopInAppend \/ Restart

\* The supervisor's event loop goes on, every request to a worker ends (it has a
\* timeout), the client reads what arrives, notices that its connection is gone,
\* and, unless it has reconnected, gives up after DEFAULT_RECONNECT_TIMEOUT_MS.
\* That it reconnects or that a supervisor is started again is not assumed.
Fairness ==
    /\ WF_vars(Supervisor)
    /\ \A c \in Commands : WF_vars(\E r \in Responses : Finish(c, r))
    /\ WF_vars(Response)
    /\ WF_vars(~linked /\ Disconnected)
    /\ WF_vars(GiveUp)

Spec == Init /\ [][Next]_vars /\ Fairness

-----------------------------------------------------------------------------
Outcomes == {"ok", "failed", "uncertain", "rejected", "abandoned"}
\* A command has its effect at most once and none is still dispatched when it
\* had it: the journal, not the worker, is what stops a resent command.
AtMostOnce == \A c \in Commands : effect[c] + work[c] <= 1

\* The abstract service: the client's outcome and the executions.
Service == INSTANCE CommandService WITH
    outcome <- [c \in Commands |-> IF req[c] \in Pending THEN "open" ELSE req[c]],
    ran <- effect

\* Client, supervisor, journal and worker together implement the service: a
\* command runs at most once, success is reported only of one that ran and a
\* refusal only of one that never runs.
ServiceSpec == Service!Spec

\* Every request of the client is settled: answered, or rejected when there is
\* no daemon to connect to.  Its own timeout is not needed for it.
EveryRequestSettles ==
    \A c \in Commands : (req[c] \in Pending) ~> (req[c] \in Outcomes)
=============================================================================
