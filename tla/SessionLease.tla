---------------------------- MODULE SessionLease ----------------------------
(***************************************************************************)
(* One writer per session file.  A process that runs a session holds the   *)
(* session's lease, a directory created by rename with the owner's token,  *)
(* pid and process start id (session-lease.ts).  The runtime takes the     *)
(* lease of the next session before it tears the present one down, and     *)
(* gives the previous one back when the next is applied                    *)
(* (AgentSessionRuntime).                                                  *)
(* The calls on the lease are synchronous: a process is in at most one,    *)
(* and does nothing else meanwhile; its system calls interleave with those *)
(* of other processes.  A process may be killed at any step and its pid be *)
(* given to a new one.  A guard left by a dead process goes stale only     *)
(* after a while: until then others time out on it.                        *)
(***************************************************************************)
EXTENDS Naturals, FiniteSets

CONSTANTS
    Procs, Sessions, None,
    Pid,        \* the pid of each process; one pid may serve several in turn
    Identified, \* processes whose start id can be read
    Ops,        \* bound: session replacements under way at once in a runtime
    MaxLeases   \* bound: leases a process asks for

\* A lease: who holds it, its token and the session.
Leases == [proc : Procs, n : Nat, session : Sessions]

ASSUME LeaseAssumption ==
    /\ None \notin Procs /\ None \notin Sessions /\ None \notin Leases
    /\ Identified \subseteq Procs /\ MaxLeases \in Nat

VARIABLES
    started, alive,
    guard,   \* per session: who locked the directory's guard
    dir,     \* per session: the lease directory
    count,   \* per process: the last token made
    held,    \* SessionLease objects that were returned and not released
    call,    \* per process: the synchronous lease call it is in
    op,      \* per process: its replacements under way
    runtime, \* per process: its runtime, ...
    lease,   \* ... _sessionLease ...
    running  \* ... and the session it runs

vars == <<started, alive, guard, dir, count, held, call, op, runtime, lease, running>>
files == <<guard, dir, count>>
host  == <<op, runtime, lease, running>>

NoCall == [at |-> "none"]
NoOp   == [at |-> "idle"]

Init ==
    /\ started = {} /\ alive = {}
    /\ guard = [s \in Sessions |-> None] /\ dir = [s \in Sessions |-> None]
    /\ count = [p \in Procs |-> 0] /\ held = {}
    /\ call = [p \in Procs |-> NoCall]
    /\ op = [p \in Procs |-> [o \in Ops |-> NoOp]]
    /\ runtime = [p \in Procs |-> "none"] /\ lease = [p \in Procs |-> None]
    /\ running = [p \in Procs |-> None]

-----------------------------------------------------------------------------
(* Processes. *)

Start(p) ==
    /\ p \notin started /\ \A q \in alive : Pid[q] # Pid[p]
    /\ started' = started \cup {p} /\ alive' = alive \cup {p}
    /\ UNCHANGED <<files, held, call, host>>

\* What the process had in memory is gone, its files stay.
Kill(p) ==
    /\ p \in alive /\ alive' = alive \ {p}
    /\ held' = {l \in held : l.proc # p} /\ call' = [call EXCEPT ![p] = NoCall]
    /\ op' = [op EXCEPT ![p] = [o \in Ops |-> NoOp]]
    /\ runtime' = [runtime EXCEPT ![p] = "none"]
    /\ lease' = [lease EXCEPT ![p] = None] /\ running' = [running EXCEPT ![p] = None]
    /\ UNCHANGED <<started, files>>

\* Mutant: a start id that cannot be read counts as a different one.
OwnerAliveIfIdentified(l) ==
    \E q \in alive : Pid[q] = Pid[l.proc] /\ q = l.proc /\ q \in Identified

\* isLeaseOwnerAlive(): a process has the pid, and its start id is the recorded
\* one where both are known.
OwnerAlive(l) ==
    \E q \in alive : /\ Pid[q] = Pid[l.proc]
                     /\ q = l.proc \/ l.proc \notin Identified \/ q \notin Identified

-----------------------------------------------------------------------------
(* The calls: acquireSessionLease() and SessionLease.release(). *)

In(p, at) == p \in alive /\ call[p].at = at
Enter(p, c) == call' = [call EXCEPT ![p] = c]

Acquiring(o, s) == [at |-> "lock", for |-> o, session |-> s, old |-> None,
                    tries |-> 0, result |-> "none"]
Releasing(l) == [at |-> "lock", for |-> None, session |-> l.session, old |-> l,
                 tries |-> 0, result |-> "none"]

At(p, at) == Enter(p, [call[p] EXCEPT !.at = at])
Ending(p, result) == Enter(p, [call[p] EXCEPT !.at = "unlock", !.result = result])

\* Mutant: the guard is not waited for.
LockIgnored(p) ==
    /\ In(p, "lock")
    /\ guard' = [guard EXCEPT ![call[p].session] = p]
    /\ At(p, IF call[p].old = None THEN "rename" ELSE "remove")
    /\ UNCHANGED <<started, alive, dir, count, held, host>>

\* withLeaseGuard(): the lock is free, or that of a process gone for long enough.
Lock(p) ==
    /\ In(p, "lock")
    /\ guard[call[p].session] = None \/ guard[call[p].session] \notin alive
    /\ guard' = [guard EXCEPT ![call[p].session] = p]
    /\ At(p, IF call[p].old = None THEN "rename" ELSE "remove")
    /\ UNCHANGED <<started, alive, dir, count, held, host>>

\* The hundredth attempt to lock fails.  An acquisition throws, a release gives
\* up and leaves the directory.
LockTimeout(p) ==
    /\ In(p, "lock") /\ guard[call[p].session] # None
    /\ Enter(p, NoCall)
    /\ op' = IF call[p].old = None THEN [op EXCEPT ![p][call[p].for] = NoOp] ELSE op
    /\ UNCHANGED <<started, alive, files, held, runtime, lease, running>>

\* A candidate with a fresh token is renamed to the directory; nobody sees the
\* token of a candidate that fails.
Rename(p) ==
    /\ In(p, "rename")
    /\ LET s == call[p].session
           l == [proc |-> p, n |-> count[p] + 1, session |-> s] IN
       IF dir[s] = None
       THEN /\ dir' = [dir EXCEPT ![s] = l] /\ held' = held \cup {l}
            /\ count' = [count EXCEPT ![p] = @ + 1] /\ Ending(p, "leased")
            /\ op' = [op EXCEPT ![p][call[p].for] =
                        [at |-> IF runtime[p] = "none" THEN "building" ELSE "tearing",
                         session |-> s, lease |-> l]]
       ELSE At(p, "look") /\ UNCHANGED <<dir, held, count, op>>
    /\ UNCHANGED <<started, alive, guard, runtime, lease, running>>

\* It exists: a live owner means SessionAlreadyActiveError.
Look(p) ==
    /\ In(p, "look")
    /\ LET l == dir[call[p].session] IN
       IF l # None /\ OwnerAlive(l)
       THEN /\ Ending(p, "active")
            /\ op' = [op EXCEPT ![p][call[p].for] = NoOp]
       ELSE At(p, "reclaim") /\ UNCHANGED op
    /\ UNCHANGED <<started, alive, files, held, runtime, lease, running>>

\* Mutant: the stale directory stays.
ReclaimNothing(p) ==
    /\ In(p, "reclaim")
    /\ IF call[p].tries < 2
       THEN /\ Enter(p, [call[p] EXCEPT !.at = "rename", !.tries = @ + 1])
            /\ UNCHANGED op
       ELSE /\ Ending(p, "exhausted")
            /\ op' = [op EXCEPT ![p][call[p].for] = NoOp]
    /\ UNCHANGED <<started, alive, files, held, runtime, lease, running>>

\* reclaimStaleLease(): the directory is moved away; then the next of three tries.
Reclaim(p) ==
    /\ In(p, "reclaim")
    /\ dir' = [dir EXCEPT ![call[p].session] = None]
    /\ IF call[p].tries < 2
       THEN /\ Enter(p, [call[p] EXCEPT !.at = "rename", !.tries = @ + 1])
            /\ UNCHANGED op
       ELSE /\ Ending(p, "exhausted")
            /\ op' = [op EXCEPT ![p][call[p].for] = NoOp]
    /\ UNCHANGED <<started, alive, guard, count, held, runtime, lease, running>>

\* release(): the directory goes if it is still this lease's.
Remove(p) ==
    /\ In(p, "remove")
    /\ dir' = IF dir[call[p].session] = call[p].old
              THEN [dir EXCEPT ![call[p].session] = None] ELSE dir
    /\ Ending(p, "released")
    /\ UNCHANGED <<started, alive, guard, count, held, host>>

Unlock(p) ==
    /\ In(p, "unlock")
    /\ guard' = [guard EXCEPT ![call[p].session] = None]
    /\ Enter(p, NoCall)
    /\ UNCHANGED <<started, alive, dir, count, held, host>>

\* release() marks the object first; a second call returns at once.
Release(p, l) ==
    IF l \in held THEN held' = held \ {l} /\ Enter(p, Releasing(l))
    ELSE UNCHANGED <<held, call>>

-----------------------------------------------------------------------------
(* AgentSessionRuntime. *)

Free(p) == p \in alive /\ call[p].at = "none"

\* createAgentSessionRuntime(), newSession(), switchSession(), fork(),
\* importFromJsonl(): first the lease of the session to run, unless it is held.
Begin(p, o, s) ==
    /\ Free(p) /\ op[p][o].at = "idle" /\ runtime[p] # "disposed"
    /\ count[p] < MaxLeases
    /\ runtime[p] = "none" => \A o2 \in Ops : op[p][o2].at = "idle"
    /\ IF lease[p] # None /\ lease[p].session = s
       THEN /\ op' = [op EXCEPT ![p][o] = [at |-> "tearing", session |-> s, lease |-> lease[p]]]
            /\ UNCHANGED call
       ELSE /\ op' = [op EXCEPT ![p][o] = [at |-> "acquiring"]]
            /\ Enter(p, Acquiring(o, s))
    /\ UNCHANGED <<started, alive, files, held, runtime, lease, running>>

\* teardownCurrent(): the present session is disposed of.
TearDown(p, o) ==
    /\ Free(p) /\ op[p][o].at = "tearing"
    /\ running' = [running EXCEPT ![p] = None]
    /\ op' = [op EXCEPT ![p][o].at = "building"]
    /\ UNCHANGED <<started, alive, files, held, call, runtime, lease>>

\* The session file cannot be opened, the teardown or the build fails:
\* releaseUncommittedLease().
ReplaceFails(p, o) ==
    /\ Free(p) /\ op[p][o].at \in {"tearing", "building"}
    /\ op' = [op EXCEPT ![p][o] = NoOp]
    /\ IF op[p][o].lease # lease[p] THEN Release(p, op[p][o].lease)
       ELSE UNCHANGED <<held, call>>
    /\ UNCHANGED <<started, alive, files, runtime, lease, running>>

\* apply() and commitReplacementLease(), or the constructor: the new session
\* runs under its lease, the previous lease is released.
Apply(p, o) ==
    /\ Free(p) /\ op[p][o].at = "building"
    /\ op' = [op EXCEPT ![p][o] = NoOp]
    /\ runtime' = [runtime EXCEPT ![p] = IF @ = "none" THEN "live" ELSE @]
    /\ running' = [running EXCEPT ![p] = op[p][o].session]
    /\ lease' = [lease EXCEPT ![p] = op[p][o].lease]
    /\ IF lease[p] \notin {None, op[p][o].lease} THEN Release(p, lease[p])
       ELSE UNCHANGED <<held, call>>
    /\ UNCHANGED <<started, alive, files>>

\* disposeOnce(): the session, then releaseSessionLease().
Dispose(p) ==
    /\ Free(p) /\ runtime[p] = "live"
    /\ runtime' = [runtime EXCEPT ![p] = "disposed"]
    /\ running' = [running EXCEPT ![p] = None]
    /\ lease' = [lease EXCEPT ![p] = None]
    /\ IF lease[p] # None THEN Release(p, lease[p]) ELSE UNCHANGED <<held, call>>
    /\ UNCHANGED <<started, alive, files, op>>

-----------------------------------------------------------------------------
Call(p) ==
    \/ Lock(p) \/ LockTimeout(p) \/ Rename(p) \/ Look(p) \/ Reclaim(p)
    \/ Remove(p) \/ Unlock(p)

Next ==
    \E p \in Procs :
        \/ Start(p) \/ Kill(p) \/ Call(p) \/ Dispose(p)
        \/ \E o \in Ops : \/ TearDown(p, o) \/ ReplaceFails(p, o) \/ Apply(p, o)
                          \/ \E s \in Sessions : Begin(p, o, s)

Spec == Init /\ [][Next]_vars

-----------------------------------------------------------------------------
LeaseCalls ==
    [at : {"lock", "rename", "look", "reclaim", "remove", "unlock"},
     for : Ops \cup {None}, session : Sessions, old : Leases \cup {None},
     tries : 0..2, result : {"none", "leased", "active", "exhausted", "released"}]
Calls == {NoCall} \cup LeaseCalls
Replacements == [at : {"tearing", "building"}, session : Sessions, lease : Leases]
Operations == {NoOp, [at |-> "acquiring"]} \cup Replacements

\* Types of the state; the lease calls and replacements have the fields of the
\* step they are at.
TypeOK ==
    /\ started \subseteq Procs /\ alive \subseteq started
    /\ guard \in [Sessions -> Procs \cup {None}]
    /\ dir \in [Sessions -> Leases \cup {None}]
    /\ count \in [Procs -> Nat] /\ held \subseteq Leases
    /\ call \in [Procs -> Calls] /\ op \in [Procs -> [Ops -> Operations]]
    /\ runtime \in [Procs -> {"none", "live", "disposed"}]
    /\ lease \in [Procs -> Leases \cup {None}]
    /\ running \in [Procs -> Sessions \cup {None}]

\* A live process keeps the directory of every lease it was given and did not
\* release: nobody takes it for that of a dead process.
HolderKeepsDirectory == \A l \in held : dir[l.session] = l

\* The sessions a runtime runs or is starting, unless it was disposed of.
Uses(p) ==
    IF runtime[p] = "disposed" THEN {}
    ELSE ({running[p]} \ {None})
         \cup {op[p][o].session : o \in {o2 \in Ops : op[p][o2].at = "building"}}

\* No two live processes run the same session: the file has one writer.
OneWriter == \A p, q \in alive : p # q => Uses(p) \cap Uses(q) = {}

\* Under the guard a stale directory is in the way at most once: an acquisition
\* gets the lease or meets a live owner, and never runs out of its three tries.
AcquisitionDecides == \A p \in alive : call[p].at # "none" => call[p].result # "exhausted"
=============================================================================
