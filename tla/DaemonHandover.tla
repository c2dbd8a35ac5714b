--------------------------- MODULE DaemonHandover ---------------------------
(***************************************************************************)
(* Who may be the daemon supervisor.  A supervisor takes the lease of its  *)
(* socket path, waits for a fenced predecessor to exit, registers itself   *)
(* as owner under the registry's guard, serves, and undoes all of it when  *)
(* it stops (DaemonSupervisor.start and cleanupSupervisorResources,        *)
(* daemon-supervisor-ownership.ts).  A coordinator restarts the daemon     *)
(* after an update: it holds the shutdown admission, fences and stops the  *)
(* predecessor and starts a successor (package-manager-cli.ts).            *)
(* Any process may be killed at any step; a lock whose holder is gone goes *)
(* stale and is taken over, and so does an admission that is not renewed.  *)
(* A lock of a live process is refreshed in time.                          *)
(***************************************************************************)
EXTENDS Naturals, FiniteSets

CONSTANTS
    Supervisors,  \* supervisor processes, each with its generation
    Coordinators, \* update-restart coordinators
    Sockets,
    Socket,       \* the socket path of each supervisor ...
    Descriptors,  \* ... and its descriptor directory
    None,         \* no process
    MaxExpiries   \* bound: admissions that expire under their holder

Processes == Supervisors \cup Coordinators

ASSUME ProcessesAssumption ==
    /\ None \notin Processes /\ Supervisors \cap Coordinators = {}
    /\ Socket \in [Supervisors -> Sockets] /\ MaxExpiries \in Nat

VARIABLES
    alive,     \* processes that run
    pc,        \* how far each supervisor is
    lease,     \* the lock of each socket path
    guard,     \* the registry guard
    registry,  \* supervisors with an owner directory
    fence,     \* the startup fence of each socket path
    seen,      \* the dead fence a process has read and will clear
    admission, \* the shutdown admission: its holder and whether it has not expired
    expiries,
    coord,     \* how far each coordinator is
    target     \* the predecessor it replaces

vars == <<alive, pc, lease, guard, registry, fence, seen, admission, expiries, coord, target>>

NoAdmission == [holder |-> None, live |-> FALSE]

Init ==
    /\ alive = Coordinators /\ pc = [p \in Supervisors |-> "none"]
    /\ lease = [s \in Sockets |-> None] /\ guard = None /\ registry = {}
    /\ fence = [s \in Sockets |-> None] /\ seen = [x \in Processes |-> None]
    /\ admission = NoAdmission /\ expiries = 0
    /\ coord = [a \in Coordinators |-> "idle"]
    /\ target = [a \in Coordinators |-> None]

\* A lock of a process that is gone is stale.
Free(holder) == holder = None \/ holder \notin alive

\* withDaemonSupervisorRegistryGuard(): the actions under it are synchronous;
\* those below that need the guard only once are a single step.
GuardFree == Free(guard)

\* ownerConflicts()
Conflicts(p, q) == Socket[p] = Socket[q] \/ Descriptors[p] = Descriptors[q]

\* readActiveShutdownAdmission(): an admission that is not active is removed.
ActiveAdmission == admission.live /\ admission.holder \in alive
AdmissionRead == IF ActiveAdmission THEN admission ELSE NoAdmission

Goto(p, step) == pc' = [pc EXCEPT ![p] = step]

-----------------------------------------------------------------------------
(* DaemonSupervisor.start() *)

Spawn(p) ==
    /\ pc[p] = "none" /\ Goto(p, "start") /\ alive' = alive \cup {p}
    /\ UNCHANGED <<lease, guard, registry, fence, seen, admission, expiries, coord, target>>

\* acquireDaemonSocketPathLease()
TakeLease(p) ==
    /\ p \in alive /\ pc[p] = "start" /\ Free(lease[Socket[p]])
    /\ lease' = [lease EXCEPT ![Socket[p]] = p] /\ Goto(p, "leased")
    /\ UNCHANGED <<alive, guard, registry, fence, seen, admission, expiries, coord, target>>

\* waitForDaemonStartupFence(): no fence, or one whose process is gone, which is
\* then cleared under the guard if it is still the one that was read.
PassFence(p) ==
    /\ p \in alive /\ pc[p] = "leased" /\ fence[Socket[p]] = None
    /\ Goto(p, "fencePassed")
    /\ UNCHANGED <<alive, lease, guard, registry, fence, seen, admission, expiries, coord, target>>

SeeDeadFence(p) ==
    /\ p \in alive /\ pc[p] = "leased"
    /\ fence[Socket[p]] # None /\ fence[Socket[p]] \notin alive
    /\ seen' = [seen EXCEPT ![p] = fence[Socket[p]]] /\ Goto(p, "clearing")
    /\ UNCHANGED <<alive, lease, guard, registry, fence, admission, expiries, coord, target>>

ClearFence(p) ==
    /\ p \in alive /\ pc[p] = "clearing" /\ GuardFree
    /\ LET s == Socket[p] IN
       IF fence[s] \in {None, seen[p]}
       THEN fence' = [fence EXCEPT ![s] = None] /\ Goto(p, "fencePassed")
       ELSE Goto(p, "leased") /\ UNCHANGED fence
    /\ guard' = None
    /\ UNCHANGED <<alive, lease, registry, seen, admission, expiries, coord, target>>

\* Mutant: the registry is looked at and changed without the guard.
TakeGuardAnyway(p) ==
    /\ p \in alive /\ pc[p] = "fencePassed"
    /\ guard' = p /\ Goto(p, "guarded")
    /\ UNCHANGED <<alive, lease, registry, fence, seen, admission, expiries, coord, target>>

\* acquireDaemonSupervisorOwnership(): under the guard, no admission, no live
\* conflicting owner; dead ones are moved away; then the candidate is renamed.
TakeGuard(p) ==
    /\ p \in alive /\ pc[p] = "fencePassed" /\ GuardFree
    /\ guard' = p /\ Goto(p, "guarded")
    /\ UNCHANGED <<alive, lease, registry, fence, seen, admission, expiries, coord, target>>

Rivals(p) == {q \in registry : Conflicts(p, q)}

\* Mutant: the process of a conflicting owner is not looked at.
ScanTakesOver(p) ==
    /\ p \in alive /\ pc[p] = "guarded" /\ ~ActiveAdmission
    /\ registry' = registry \ Rivals(p)
    /\ admission' = AdmissionRead /\ Goto(p, "scanned")
    /\ UNCHANGED <<alive, lease, guard, fence, seen, expiries, coord, target>>

ScanClear(p) ==
    /\ p \in alive /\ pc[p] = "guarded" /\ ~ActiveAdmission
    /\ Rivals(p) \cap alive = {}
    /\ registry' = registry \ Rivals(p)
    /\ admission' = AdmissionRead /\ Goto(p, "scanned")
    /\ UNCHANGED <<alive, lease, guard, fence, seen, expiries, coord, target>>

\* Refused: the directories before the live owner's may have been moved away.
ScanRefused(p) ==
    /\ p \in alive /\ pc[p] = "guarded"
    /\ \/ ActiveAdmission /\ UNCHANGED registry
       \/ /\ ~ActiveAdmission /\ Rivals(p) \cap alive # {}
          /\ \E D \in SUBSET (Rivals(p) \ alive) : registry' = registry \ D
    /\ admission' = AdmissionRead
    /\ guard' = None /\ Goto(p, "closing")
    /\ UNCHANGED <<alive, lease, fence, seen, expiries, coord, target>>

Publish(p) ==
    /\ p \in alive /\ pc[p] = "scanned"
    /\ registry' = registry \cup {p} /\ guard' = None /\ Goto(p, "owner")
    /\ UNCHANGED <<alive, lease, fence, seen, admission, expiries, coord, target>>

\* prepareDaemonSocketPath(), listen(), adoption of the workers, updatePhase("owner").
Serve(p) ==
    /\ p \in alive /\ pc[p] = "owner" /\ p \in registry
    /\ \A q \in alive \cap Supervisors : ~(pc[q] = "ready" /\ Socket[q] = Socket[p])
    /\ Goto(p, "ready")
    /\ UNCHANGED <<alive, lease, guard, registry, fence, seen, admission, expiries, coord, target>>

\* A start that fails or times out, a signal or the shutdown command.
Close(p) ==
    /\ p \in alive /\ pc[p] \in {"start", "leased", "clearing", "fencePassed", "owner", "ready"}
    /\ Goto(p, "closing")
    /\ UNCHANGED <<alive, lease, guard, registry, fence, seen, admission, expiries, coord, target>>

-----------------------------------------------------------------------------
(* cleanupSupervisorResources() *)

ReleaseLease(p) ==
    /\ p \in alive /\ pc[p] = "closing"
    /\ lease' = IF lease[Socket[p]] = p THEN [lease EXCEPT ![Socket[p]] = None] ELSE lease
    /\ Goto(p, "unleased")
    /\ UNCHANGED <<alive, guard, registry, fence, seen, admission, expiries, coord, target>>

ReleaseOwnership(p) ==
    /\ p \in alive /\ pc[p] = "unleased" /\ GuardFree
    /\ registry' = registry \ {p} /\ guard' = None /\ Goto(p, "released")
    /\ UNCHANGED <<alive, lease, fence, seen, admission, expiries, coord, target>>

Exit(p) ==
    /\ p \in alive /\ pc[p] = "released" /\ alive' = alive \ {p}
    /\ UNCHANGED <<pc, lease, guard, registry, fence, seen, admission, expiries, coord, target>>

-----------------------------------------------------------------------------
(* The update-restart coordinator and its shutdown admission. *)

At(a, step)    == a \in alive /\ coord[a] = step
Advance(a, step) == coord' = [coord EXCEPT ![a] = step]

\* Mutant: without the guard.
AcquireAdmissionUnguarded(a) ==
    /\ At(a, "idle") /\ ~ActiveAdmission
    /\ admission' = [holder |-> a, live |-> TRUE] /\ Advance(a, "admitted")
    /\ UNCHANGED <<alive, pc, lease, guard, registry, fence, seen, expiries, target>>

\* acquireDaemonShutdownAdmission(): waits while another one is active.
AcquireAdmission(a) ==
    /\ At(a, "idle") /\ GuardFree /\ ~ActiveAdmission
    /\ admission' = [holder |-> a, live |-> TRUE]
    /\ guard' = None /\ Advance(a, "admitted")
    /\ UNCHANGED <<alive, pc, lease, registry, fence, seen, expiries, target>>

\* The running daemon answers with its identity and prepares the restart.
Prepare(a, q) ==
    /\ At(a, "admitted") /\ q \in alive /\ pc[q] = "ready"
    /\ target' = [target EXCEPT ![a] = q] /\ Advance(a, "prepared")
    /\ UNCHANGED <<alive, pc, lease, guard, registry, fence, seen, admission, expiries>>

\* persistDaemonStartupFenceFromOwner(): the identity of the hello must be that
\* of the one owner of the socket path, and its process must run.
PersistFence(a) ==
    /\ At(a, "prepared") /\ GuardFree
    /\ LET q == target[a] IN
       /\ {o \in registry : Socket[o] = Socket[q]} = {q} /\ q \in alive
       /\ fence' = [fence EXCEPT ![Socket[q]] = q]
    /\ guard' = None /\ Advance(a, "fenced")
    /\ UNCHANGED <<alive, pc, lease, registry, seen, admission, expiries, target>>

\* assertOrRenew()
Renewable(a) == admission.holder = a /\ admission.live

\* assertOrRenew(), then the shutdown command to the predecessor.
StopPredecessor(a) ==
    /\ At(a, "fenced") /\ GuardFree /\ Renewable(a)
    /\ pc' = [pc EXCEPT ![target[a]] = IF @ = "ready" /\ target[a] \in alive THEN "closing" ELSE @]
    /\ guard' = None /\ Advance(a, "stopping")
    /\ UNCHANGED <<alive, lease, registry, fence, seen, admission, expiries, target>>

\* Mutant: the coordinator trusts the answer to the shutdown command.
AwaitFenceSkipped(a) ==
    /\ At(a, "stopping") /\ Advance(a, "predecessorGone")
    /\ UNCHANGED <<alive, pc, lease, guard, registry, fence, seen, admission, expiries, target>>

\* waitForDaemonStartupFence() again.
AwaitFence(a) ==
    /\ At(a, "stopping") /\ fence[Socket[target[a]]] = None
    /\ Advance(a, "predecessorGone")
    /\ UNCHANGED <<alive, pc, lease, guard, registry, fence, seen, admission, expiries, target>>

CoordSeesDeadFence(a) ==
    /\ At(a, "stopping")
    /\ LET f == fence[Socket[target[a]]] IN
       /\ f # None /\ f \notin alive /\ seen' = [seen EXCEPT ![a] = f]
    /\ Advance(a, "clearing")
    /\ UNCHANGED <<alive, pc, lease, guard, registry, fence, admission, expiries, target>>

CoordClearsFence(a) ==
    /\ At(a, "clearing") /\ GuardFree
    /\ LET s == Socket[target[a]] IN
       IF fence[s] \in {None, seen[a]}
       THEN fence' = [fence EXCEPT ![s] = None] /\ Advance(a, "predecessorGone")
       ELSE Advance(a, "stopping") /\ UNCHANGED fence
    /\ guard' = None
    /\ UNCHANGED <<alive, pc, lease, registry, seen, admission, expiries, target>>

\* assertOrRenew(), release(): supervisors may start again.
EndAdmission(a) ==
    /\ At(a, "predecessorGone") /\ GuardFree /\ Renewable(a)
    /\ admission' = NoAdmission /\ guard' = None /\ Advance(a, "starting")
    /\ UNCHANGED <<alive, pc, lease, registry, fence, seen, expiries, target>>

\* ensureInteractiveDaemonRunning()
StartSuccessor(a, p) ==
    /\ At(a, "starting") /\ pc[p] = "none" /\ Socket[p] = Socket[target[a]]
    /\ Goto(p, "start") /\ alive' = alive \cup {p} /\ Advance(a, "done")
    /\ UNCHANGED <<lease, guard, registry, fence, seen, admission, expiries, target>>

\* Any failure: release() removes the admission if it is still this one's.
Abandon(a) ==
    /\ a \in alive /\ coord[a] \notin {"idle", "starting", "done"} /\ GuardFree
    /\ admission' = IF admission.holder = a THEN NoAdmission ELSE admission
    /\ guard' = None /\ Advance(a, "done")
    /\ UNCHANGED <<alive, pc, lease, registry, fence, seen, expiries, target>>

\* The holder's refresh timer was held up for longer than the admission lasts.
Expire ==
    /\ admission.live /\ expiries < MaxExpiries
    /\ admission' = [admission EXCEPT !.live = FALSE] /\ expiries' = expiries + 1
    /\ UNCHANGED <<alive, pc, lease, guard, registry, fence, seen, coord, target>>

\* A process is killed; its locks, records and files stay.
Kill(x) ==
    /\ x \in alive /\ alive' = alive \ {x}
    /\ UNCHANGED <<pc, lease, guard, registry, fence, seen, admission, expiries, coord, target>>

Supervisor(p) ==
    \/ Spawn(p) \/ TakeLease(p) \/ PassFence(p) \/ SeeDeadFence(p) \/ ClearFence(p)
    \/ TakeGuard(p) \/ ScanClear(p) \/ ScanRefused(p) \/ Publish(p) \/ Serve(p)
    \/ Close(p) \/ ReleaseLease(p) \/ ReleaseOwnership(p) \/ Exit(p)

Coordinator(a) ==
    \/ AcquireAdmission(a) \/ PersistFence(a) \/ StopPredecessor(a) \/ AwaitFence(a)
    \/ CoordSeesDeadFence(a) \/ CoordClearsFence(a) \/ EndAdmission(a) \/ Abandon(a)
    \/ \E p \in Supervisors : Prepare(a, p) \/ StartSuccessor(a, p)

Next ==
    \/ \E p \in Supervisors : Supervisor(p)
    \/ \E a \in Coordinators : Coordinator(a)
    \/ Expire
    \/ \E x \in Processes : Kill(x)

Spec == Init /\ [][Next]_vars

-----------------------------------------------------------------------------
SupervisorSteps == {"none", "start", "leased", "clearing", "fencePassed", "guarded", "scanned",
                    "owner", "ready", "closing", "unleased", "released"}
CoordinatorSteps == {"idle", "admitted", "prepared", "fenced", "stopping", "clearing",
                     "predecessorGone", "starting", "done"}

\* The types of the state; the guard and the fences only ever name supervisors,
\* the admission only a coordinator.
TypeOK ==
    /\ alive \subseteq Processes /\ pc \in [Supervisors -> SupervisorSteps]
    /\ lease \in [Sockets -> Supervisors \cup {None}]
    /\ guard \in Supervisors \cup {None} /\ registry \subseteq Supervisors
    /\ fence \in [Sockets -> Supervisors \cup {None}]
    /\ seen \in [Processes -> Supervisors \cup {None}]
    /\ admission \in [holder : Coordinators \cup {None}, live : BOOLEAN]
    /\ expiries \in 0..MaxExpiries
    /\ coord \in [Coordinators -> CoordinatorSteps]
    /\ target \in [Coordinators -> Supervisors \cup {None}]

Owning == {p \in alive \cap Supervisors : pc[p] \in {"owner", "ready"}}

\* Two supervisors that would share a socket path or a descriptor directory (and
\* with it the command journal and the workers) never own it at the same time.
OneOwner == \A p, q \in Owning : p # q => ~Conflicts(p, q)

\* A supervisor that runs keeps its owner record: nobody takes it for a stale
\* one, so assertCurrent() fails it only after its own release.
OwnerKeepsRecord == \A p \in Owning : p \in registry

\* Nothing becomes the owner under a shutdown that is admitted: between the look
\* at the admission and the rename no admission is given out.
NoStartUnderAdmission ==
    \A p \in alive \cap Supervisors : pc[p] = "scanned" => ~ActiveAdmission

\* While a restart is under way under its admission, and when it starts the
\* successor, no other supervisor owns the socket path of a predecessor that
\* still runs.
RestartReplaces ==
    \A a \in Coordinators \cap alive :
        /\ (coord[a] = "starting") => target[a] \notin alive
        /\ (coord[a] \in {"fenced", "stopping", "clearing"} /\ Renewable(a) /\ target[a] \in alive)
              => \A p \in Owning : Socket[p] = Socket[target[a]] => p = target[a]
=============================================================================
