------------------------ MODULE DaemonHandoverProofs ------------------------
(***************************************************************************)
(* Proofs about DaemonHandover, for any numbers of supervisors, socket     *)
(* paths, descriptor directories and coordinators.                         *)
(*                                                                         *)
(* OneOwner is not inductive: Publish adds an owner and relies on a scan   *)
(* made one step before.  The invariant therefore says what the guard is   *)
(* for: only the process that holds it is between the scan and the rename  *)
(* (GuardIsHeld), and what the scan found still stands (ScanStands).       *)
(*                                                                         *)
(* RestartReplaces rests on the fence: while the coordinator's admission   *)
(* lasts, no record but the predecessor's is there for the socket path,    *)
(* so the fence stays the predecessor's until somebody has seen it dead    *)
(* (RestartStands), and a process that is gone does not come back          *)
(* (NamedHaveStarted, SeenAreGone).                                        *)
(***************************************************************************)
EXTENDS DaemonHandover, TLAPS

\* A process that looks at the registry or is about to change it holds the guard.
GuardIsHeld ==
    \A p \in alive \cap Supervisors : pc[p] \in {"guarded", "scanned"} => guard = p

\* Between the scan and the rename no conflicting record appears, and no
\* shutdown is admitted.
ScanStands ==
    \A p \in alive \cap Supervisors :
        pc[p] = "scanned" => Rivals(p) = {} /\ ~ActiveAdmission

\* A coordinator past Prepare has its predecessor.
TargetChosen ==
    \A a \in Coordinators :
        coord[a] \notin {"idle", "admitted", "done"} => target[a] \in Supervisors

\* A supervisor that a fence or a coordinator names has been started: once it is
\* gone it stays gone.
NamedHaveStarted ==
    /\ \A s \in Sockets : fence[s] # None => pc[fence[s]] # "none"
    /\ \A x \in Processes : seen[x] # None => pc[seen[x]] # "none"
    /\ \A a \in Coordinators : target[a] # None => pc[target[a]] # "none"

\* A fence that somebody is about to clear is that of a process that is gone.
SeenAreGone ==
    \A x \in Processes : seen[x] \notin alive

\* What a restart relies on from the fence on.
RestartStands ==
    \A a \in Coordinators \cap alive :
        /\ coord[a] = "starting" => target[a] \notin alive
        /\ coord[a] \in {"fenced", "stopping", "clearing", "predecessorGone"} /\ Renewable(a) =>
              /\ \A o \in registry : Socket[o] = Socket[target[a]] => o = target[a]
              /\ target[a] \in alive => /\ coord[a] # "predecessorGone"
                                        /\ fence[Socket[target[a]]] = target[a]

\* The inductive invariant.
IInv ==
    /\ TypeOK /\ GuardIsHeld /\ ScanStands /\ OwnerKeepsRecord /\ OneOwner
    /\ TargetChosen /\ NamedHaveStarted /\ SeenAreGone /\ RestartStands

\* ownerConflicts() does not depend on who asks.
LEMMA ConflictsSymmetric ==
    ASSUME NEW p \in Supervisors, NEW q \in Supervisors, Conflicts(p, q)
    PROVE  Conflicts(q, p)
    BY DEF Conflicts

\* Nothing runs but the coordinators, and no file is there.
LEMMA Initially == Init => IInv
<1>1. Init => TypeOK
      BY ProcessesAssumption DEF Init, TypeOK, Processes, NoAdmission, SupervisorSteps,
         CoordinatorSteps
<1>2. Init => GuardIsHeld /\ ScanStands /\ OwnerKeepsRecord /\ OneOwner
      BY DEF Init, GuardIsHeld, ScanStands, OwnerKeepsRecord, OneOwner, Owning
<1>3. Init => TargetChosen /\ NamedHaveStarted /\ SeenAreGone /\ RestartStands
      BY ProcessesAssumption DEF Init, TargetChosen, NamedHaveStarted, SeenAreGone,
         RestartStands, Processes
<1>4. QED
      BY <1>1, <1>2, <1>3 DEF IInv

\* Each step keeps the types; a dead fence is a supervisor because the coordinator
\* that reads it has a predecessor.
LEMMA TypePreserved ==
    ASSUME TypeOK, TargetChosen, [Next]_vars
    PROVE  TypeOK'
<1> USE ProcessesAssumption DEF TypeOK, TargetChosen, Processes, SupervisorSteps,
        CoordinatorSteps
<1>1. ASSUME NEW p \in Supervisors, Supervisor(p)
      PROVE  TypeOK'
  <2>1. CASE Spawn(p)
        BY <2>1 DEF Spawn, Goto
  <2>2. CASE TakeLease(p)
        BY <2>2 DEF TakeLease, Goto
  <2>3. CASE PassFence(p)
        BY <2>3 DEF PassFence, Goto
  <2>4. CASE SeeDeadFence(p)
        BY <2>4 DEF SeeDeadFence, Goto
  <2>5. CASE ClearFence(p)
        BY <2>5 DEF ClearFence, Goto
  <2>6. CASE TakeGuard(p)
        BY <2>6 DEF TakeGuard, Goto
  <2>7. CASE ScanClear(p)
        BY <2>7 DEF ScanClear, Goto, AdmissionRead, NoAdmission, Rivals
  <2>8. CASE ScanRefused(p)
        BY <2>8 DEF ScanRefused, Goto, AdmissionRead, NoAdmission, Rivals
  <2>9. CASE Publish(p)
        BY <2>9 DEF Publish, Goto
  <2>10. CASE Serve(p)
        BY <2>10 DEF Serve, Goto
  <2>11. CASE Close(p)
        BY <2>11 DEF Close, Goto
  <2>12. CASE ReleaseLease(p)
        BY <2>12 DEF ReleaseLease, Goto
  <2>13. CASE ReleaseOwnership(p)
        BY <2>13 DEF ReleaseOwnership, Goto
  <2>14. CASE Exit(p)
        BY <2>14 DEF Exit
  <2>15. QED
        BY <1>1, <2>1, <2>2, <2>3, <2>4, <2>5, <2>6, <2>7, <2>8, <2>9, <2>10, <2>11, <2>12,
            <2>13, <2>14 DEF Supervisor
<1>2. ASSUME NEW a \in Coordinators, Coordinator(a)
      PROVE  TypeOK'
  <2>1. CASE AcquireAdmission(a)
        BY <2>1 DEF AcquireAdmission, Advance, At
  <2>2. CASE PersistFence(a)
        BY <2>2 DEF PersistFence, Advance, At
  <2>3. CASE StopPredecessor(a)
        BY <2>3 DEF StopPredecessor, Advance, At
  <2>4. CASE AwaitFence(a)
        BY <2>4 DEF AwaitFence, Advance, At
  <2>5. CASE CoordSeesDeadFence(a)
        BY <2>5 DEF CoordSeesDeadFence, Advance, At
  <2>6. CASE CoordClearsFence(a)
        BY <2>6 DEF CoordClearsFence, Advance, At
  <2>7. CASE EndAdmission(a)
        BY <2>7 DEF EndAdmission, Advance, At, NoAdmission
  <2>8. CASE Abandon(a)
        BY <2>8 DEF Abandon, Advance, NoAdmission
  <2>9. ASSUME NEW p \in Supervisors, Prepare(a, p)
        PROVE  TypeOK'
        BY <2>9 DEF Prepare, Advance, At
  <2>10. ASSUME NEW p \in Supervisors, StartSuccessor(a, p)
        PROVE  TypeOK'
        BY <2>10 DEF StartSuccessor, Goto, Advance, At
  <2>11. QED
        BY <1>2, <2>1, <2>2, <2>3, <2>4, <2>5, <2>6, <2>7, <2>8, <2>9, <2>10 DEF Coordinator
<1>3. CASE Expire
  <2>1. expiries' \in 0..MaxExpiries
        BY <1>3 DEF Expire
  <2>2. admission' \in [holder : Coordinators \cup {None}, live : BOOLEAN]
        BY <1>3 DEF Expire
  <2>3. QED
        BY <1>3, <2>1, <2>2 DEF Expire
<1>4. ASSUME NEW x \in Processes, Kill(x)
      PROVE  TypeOK'
      BY <1>4 DEF Kill
<1>5. CASE UNCHANGED vars
      BY <1>5 DEF vars
<1>6. QED
      BY <1>1, <1>2, <1>3, <1>4, <1>5 DEF Next

\* A guard changes hands only when it is free or when its holder gives it back.
LEMMA GuardPreserved ==
    ASSUME TypeOK, GuardIsHeld, [Next]_vars
    PROVE  GuardIsHeld'
<1> USE ProcessesAssumption DEF TypeOK, GuardIsHeld, Processes, SupervisorSteps
<1>1. ASSUME NEW p \in Supervisors, Supervisor(p)
      PROVE  GuardIsHeld'
  <2>1. CASE Spawn(p)
        BY <2>1 DEF Spawn, Goto
  <2>2. CASE TakeLease(p)
        BY <2>2 DEF TakeLease, Goto
  <2>3. CASE PassFence(p)
        BY <2>3 DEF PassFence, Goto
  <2>4. CASE SeeDeadFence(p)
        BY <2>4 DEF SeeDeadFence, Goto
  <2>5. CASE ClearFence(p)
        BY <2>5 DEF ClearFence, Goto, GuardFree, Free
  <2>6. CASE TakeGuard(p)
        BY <2>6 DEF TakeGuard, Goto, GuardFree, Free
  <2>7. CASE ScanClear(p)
        BY <2>7 DEF ScanClear, Goto, AdmissionRead, NoAdmission, Rivals
  <2>8. CASE ScanRefused(p)
        BY <2>8 DEF ScanRefused, Goto, AdmissionRead, NoAdmission, Rivals
  <2>9. CASE Publish(p)
        BY <2>9 DEF Publish, Goto
  <2>10. CASE Serve(p)
        BY <2>10 DEF Serve, Goto
  <2>11. CASE Close(p)
        BY <2>11 DEF Close, Goto
  <2>12. CASE ReleaseLease(p)
        BY <2>12 DEF ReleaseLease, Goto
  <2>13. CASE ReleaseOwnership(p)
        BY <2>13 DEF ReleaseOwnership, Goto, GuardFree, Free
  <2>14. CASE Exit(p)
        BY <2>14 DEF Exit
  <2>15. QED
        BY <1>1, <2>1, <2>2, <2>3, <2>4, <2>5, <2>6, <2>7, <2>8, <2>9, <2>10, <2>11, <2>12,
            <2>13, <2>14 DEF Supervisor
<1>2. ASSUME NEW a \in Coordinators, Coordinator(a)
      PROVE  GuardIsHeld'
  <2>1. CASE AcquireAdmission(a)
        BY <2>1 DEF AcquireAdmission, Advance, At, GuardFree, Free
  <2>2. CASE PersistFence(a)
        BY <2>2 DEF PersistFence, Advance, At, GuardFree, Free
  <2>3. CASE StopPredecessor(a)
        BY <2>3 DEF StopPredecessor, Advance, At, GuardFree, Free
  <2>4. CASE AwaitFence(a)
        BY <2>4 DEF AwaitFence, Advance, At
  <2>5. CASE CoordSeesDeadFence(a)
        BY <2>5 DEF CoordSeesDeadFence, Advance, At
  <2>6. CASE CoordClearsFence(a)
        BY <2>6 DEF CoordClearsFence, Advance, At, GuardFree, Free
  <2>7. CASE EndAdmission(a)
        BY <2>7 DEF EndAdmission, Advance, At, NoAdmission, GuardFree, Free
  <2>8. CASE Abandon(a)
        BY <2>8 DEF Abandon, Advance, NoAdmission, GuardFree, Free
  <2>9. ASSUME NEW p \in Supervisors, Prepare(a, p)
        PROVE  GuardIsHeld'
        BY <2>9 DEF Prepare, Advance, At
  <2>10. ASSUME NEW p \in Supervisors, StartSuccessor(a, p)
        PROVE  GuardIsHeld'
        BY <2>10 DEF StartSuccessor, Goto, Advance, At
  <2>11. QED
        BY <1>2, <2>1, <2>2, <2>3, <2>4, <2>5, <2>6, <2>7, <2>8, <2>9, <2>10 DEF Coordinator
<1>3. CASE Expire
      BY <1>3 DEF Expire
<1>4. ASSUME NEW x \in Processes, Kill(x)
      PROVE  GuardIsHeld'
      BY <1>4 DEF Kill
<1>5. CASE UNCHANGED vars
      BY <1>5 DEF vars
<1>6. QED
      BY <1>1, <1>2, <1>3, <1>4, <1>5 DEF Next

\* Owner records and admissions are written under the guard only.
LEMMA ScanPreserved ==
    ASSUME TypeOK, GuardIsHeld, ScanStands, [Next]_vars
    PROVE  ScanStands'
<1> USE ProcessesAssumption DEF TypeOK, GuardIsHeld, ScanStands, Processes, SupervisorSteps
<1>1. ASSUME NEW p \in Supervisors, Supervisor(p)
      PROVE  ScanStands'
  <2>1. CASE Spawn(p)
        BY <2>1 DEF Spawn, Goto, ActiveAdmission, Rivals
  <2>2. CASE TakeLease(p)
        BY <2>2 DEF TakeLease, Goto, ActiveAdmission, Rivals
  <2>3. CASE PassFence(p)
        BY <2>3 DEF PassFence, Goto, ActiveAdmission, Rivals
  <2>4. CASE SeeDeadFence(p)
        BY <2>4 DEF SeeDeadFence, Goto, ActiveAdmission, Rivals
  <2>5. CASE ClearFence(p)
        BY <2>5 DEF ClearFence, Goto, ActiveAdmission, Rivals, GuardFree, Free
  <2>6. CASE TakeGuard(p)
        BY <2>6 DEF TakeGuard, Goto, ActiveAdmission, Rivals, GuardFree, Free
  <2>7. CASE ScanClear(p)
        BY <2>7 DEF ScanClear, Goto, AdmissionRead, NoAdmission, ActiveAdmission, Rivals
  <2>8. CASE ScanRefused(p)
        BY <2>8 DEF ScanRefused, Goto, AdmissionRead, NoAdmission, ActiveAdmission, Rivals
  <2>9. CASE Publish(p)
        BY <2>9 DEF Publish, Goto, ActiveAdmission, Rivals
  <2>10. CASE Serve(p)
        BY <2>10 DEF Serve, Goto, ActiveAdmission, Rivals
  <2>11. CASE Close(p)
        BY <2>11 DEF Close, Goto, ActiveAdmission, Rivals
  <2>12. CASE ReleaseLease(p)
        BY <2>12 DEF ReleaseLease, Goto, ActiveAdmission, Rivals
  <2>13. CASE ReleaseOwnership(p)
        BY <2>13 DEF ReleaseOwnership, Goto, ActiveAdmission, Rivals, GuardFree, Free
  <2>14. CASE Exit(p)
        BY <2>14 DEF Exit, ActiveAdmission, Rivals
  <2>15. QED
        BY <1>1, <2>1, <2>2, <2>3, <2>4, <2>5, <2>6, <2>7, <2>8, <2>9, <2>10, <2>11, <2>12,
            <2>13, <2>14 DEF Supervisor
<1>2. ASSUME NEW a \in Coordinators, Coordinator(a)
      PROVE  ScanStands'
  <2>1. CASE AcquireAdmission(a)
        BY <2>1 DEF AcquireAdmission, Advance, At, ActiveAdmission, Rivals, GuardFree, Free
  <2>2. CASE PersistFence(a)
        BY <2>2 DEF PersistFence, Advance, At, ActiveAdmission, Rivals, GuardFree, Free
  <2>3. CASE StopPredecessor(a)
        BY <2>3 DEF StopPredecessor, Advance, At, ActiveAdmission, Rivals, GuardFree, Free
  <2>4. CASE AwaitFence(a)
        BY <2>4 DEF AwaitFence, Advance, At, ActiveAdmission, Rivals
  <2>5. CASE CoordSeesDeadFence(a)
        BY <2>5 DEF CoordSeesDeadFence, Advance, At, ActiveAdmission, Rivals
  <2>6. CASE CoordClearsFence(a)
        BY <2>6 DEF CoordClearsFence, Advance, At, ActiveAdmission, Rivals, GuardFree, Free
  <2>7. CASE EndAdmission(a)
        BY <2>7 DEF EndAdmission, Advance, At, NoAdmission, ActiveAdmission, Rivals,
           GuardFree,
            Free
  <2>8. CASE Abandon(a)
        BY <2>8 DEF Abandon, Advance, NoAdmission, ActiveAdmission, Rivals, GuardFree, Free
  <2>9. ASSUME NEW p \in Supervisors, Prepare(a, p)
        PROVE  ScanStands'
        BY <2>9 DEF Prepare, Advance, At, ActiveAdmission, Rivals
  <2>10. ASSUME NEW p \in Supervisors, StartSuccessor(a, p)
        PROVE  ScanStands'
        BY <2>10 DEF StartSuccessor, Goto, Advance, At, ActiveAdmission, Rivals
  <2>11. QED
        BY <1>2, <2>1, <2>2, <2>3, <2>4, <2>5, <2>6, <2>7, <2>8, <2>9, <2>10 DEF Coordinator
<1>3. CASE Expire
      BY <1>3 DEF Expire, ActiveAdmission, Rivals
<1>4. ASSUME NEW x \in Processes, Kill(x)
      PROVE  ScanStands'
      BY <1>4 DEF Kill, ActiveAdmission, Rivals
<1>5. CASE UNCHANGED vars
      BY <1>5 DEF vars, ActiveAdmission, Rivals
<1>6. QED
      BY <1>1, <1>2, <1>3, <1>4, <1>5 DEF Next

\* Only the records of processes that are gone, or that release their own, are removed.
LEMMA RecordPreserved ==
    ASSUME TypeOK, OwnerKeepsRecord, [Next]_vars
    PROVE  OwnerKeepsRecord'
<1> USE ProcessesAssumption DEF TypeOK, OwnerKeepsRecord, Owning, Processes, SupervisorSteps
<1>1. ASSUME NEW p \in Supervisors, Supervisor(p)
      PROVE  OwnerKeepsRecord'
  <2>1. CASE Spawn(p)
        BY <2>1 DEF Spawn, Goto
  <2>2. CASE TakeLease(p)
        BY <2>2 DEF TakeLease, Goto
  <2>3. CASE PassFence(p)
        BY <2>3 DEF PassFence, Goto
  <2>4. CASE SeeDeadFence(p)
        BY <2>4 DEF SeeDeadFence, Goto
  <2>5. CASE ClearFence(p)
        BY <2>5 DEF ClearFence, Goto
  <2>6. CASE TakeGuard(p)
        BY <2>6 DEF TakeGuard, Goto
  <2>7. CASE ScanClear(p)
        BY <2>7 DEF ScanClear, Goto, AdmissionRead, NoAdmission, Rivals
  <2>8. CASE ScanRefused(p)
        BY <2>8 DEF ScanRefused, Goto, AdmissionRead, NoAdmission, Rivals
  <2>9. CASE Publish(p)
        BY <2>9 DEF Publish, Goto
  <2>10. CASE Serve(p)
        BY <2>10 DEF Serve, Goto
  <2>11. CASE Close(p)
        BY <2>11 DEF Close, Goto
  <2>12. CASE ReleaseLease(p)
        BY <2>12 DEF ReleaseLease, Goto
  <2>13. CASE ReleaseOwnership(p)
        BY <2>13 DEF ReleaseOwnership, Goto
  <2>14. CASE Exit(p)
        BY <2>14 DEF Exit
  <2>15. QED
        BY <1>1, <2>1, <2>2, <2>3, <2>4, <2>5, <2>6, <2>7, <2>8, <2>9, <2>10, <2>11, <2>12,
            <2>13, <2>14 DEF Supervisor
<1>2. ASSUME NEW a \in Coordinators, Coordinator(a)
      PROVE  OwnerKeepsRecord'
  <2>1. CASE AcquireAdmission(a)
        BY <2>1 DEF AcquireAdmission, Advance, At
  <2>2. CASE PersistFence(a)
        BY <2>2 DEF PersistFence, Advance, At
  <2>3. CASE StopPredecessor(a)
        BY <2>3 DEF StopPredecessor, Advance, At
  <2>4. CASE AwaitFence(a)
        BY <2>4 DEF AwaitFence, Advance, At
  <2>5. CASE CoordSeesDeadFence(a)
        BY <2>5 DEF CoordSeesDeadFence, Advance, At
  <2>6. CASE CoordClearsFence(a)
        BY <2>6 DEF CoordClearsFence, Advance, At
  <2>7. CASE EndAdmission(a)
        BY <2>7 DEF EndAdmission, Advance, At, NoAdmission
  <2>8. CASE Abandon(a)
        BY <2>8 DEF Abandon, Advance, NoAdmission
  <2>9. ASSUME NEW p \in Supervisors, Prepare(a, p)
        PROVE  OwnerKeepsRecord'
        BY <2>9 DEF Prepare, Advance, At
  <2>10. ASSUME NEW p \in Supervisors, StartSuccessor(a, p)
        PROVE  OwnerKeepsRecord'
        BY <2>10 DEF StartSuccessor, Goto, Advance, At
  <2>11. QED
        BY <1>2, <2>1, <2>2, <2>3, <2>4, <2>5, <2>6, <2>7, <2>8, <2>9, <2>10 DEF Coordinator
<1>3. CASE Expire
      BY <1>3 DEF Expire
<1>4. ASSUME NEW x \in Processes, Kill(x)
      PROVE  OwnerKeepsRecord'
      BY <1>4 DEF Kill
<1>5. CASE UNCHANGED vars
      BY <1>5 DEF vars
<1>6. QED
      BY <1>1, <1>2, <1>3, <1>4, <1>5 DEF Next

\* A new owner conflicts with no record, and every other owner has one.
LEMMA OwnerPreserved ==
    ASSUME TypeOK, ScanStands, OwnerKeepsRecord, OneOwner, [Next]_vars
    PROVE  OneOwner'
<1> USE ProcessesAssumption, ConflictsSymmetric DEF TypeOK, OneOwner, Owning, Processes,
        SupervisorSteps
<1>1. ASSUME NEW p \in Supervisors, Supervisor(p)
      PROVE  OneOwner'
  <2>1. CASE Spawn(p)
        BY <2>1 DEF Spawn, Goto
  <2>2. CASE TakeLease(p)
        BY <2>2 DEF TakeLease, Goto
  <2>3. CASE PassFence(p)
        BY <2>3 DEF PassFence, Goto
  <2>4. CASE SeeDeadFence(p)
        BY <2>4 DEF SeeDeadFence, Goto
  <2>5. CASE ClearFence(p)
        BY <2>5 DEF ClearFence, Goto
  <2>6. CASE TakeGuard(p)
        BY <2>6 DEF TakeGuard, Goto
  <2>7. CASE ScanClear(p)
        BY <2>7 DEF ScanClear, Goto, AdmissionRead, NoAdmission, Rivals
  <2>8. CASE ScanRefused(p)
        BY <2>8 DEF ScanRefused, Goto, AdmissionRead, NoAdmission, Rivals
  <2>9. CASE Publish(p)
        BY <2>9 DEF Publish, Goto, Rivals, OwnerKeepsRecord, ScanStands
  <2>10. CASE Serve(p)
        BY <2>10 DEF Serve, Goto
  <2>11. CASE Close(p)
        BY <2>11 DEF Close, Goto
  <2>12. CASE ReleaseLease(p)
        BY <2>12 DEF ReleaseLease, Goto
  <2>13. CASE ReleaseOwnership(p)
        BY <2>13 DEF ReleaseOwnership, Goto
  <2>14. CASE Exit(p)
        BY <2>14 DEF Exit
  <2>15. QED
        BY <1>1, <2>1, <2>2, <2>3, <2>4, <2>5, <2>6, <2>7, <2>8, <2>9, <2>10, <2>11, <2>12,
            <2>13, <2>14 DEF Supervisor
<1>2. ASSUME NEW a \in Coordinators, Coordinator(a)
      PROVE  OneOwner'
  <2>1. CASE AcquireAdmission(a)
        BY <2>1 DEF AcquireAdmission, Advance, At
  <2>2. CASE PersistFence(a)
        BY <2>2 DEF PersistFence, Advance, At
  <2>3. CASE StopPredecessor(a)
        BY <2>3 DEF StopPredecessor, Advance, At
  <2>4. CASE AwaitFence(a)
        BY <2>4 DEF AwaitFence, Advance, At
  <2>5. CASE CoordSeesDeadFence(a)
        BY <2>5 DEF CoordSeesDeadFence, Advance, At
  <2>6. CASE CoordClearsFence(a)
        BY <2>6 DEF CoordClearsFence, Advance, At
  <2>7. CASE EndAdmission(a)
        BY <2>7 DEF EndAdmission, Advance, At, NoAdmission
  <2>8. CASE Abandon(a)
        BY <2>8 DEF Abandon, Advance, NoAdmission
  <2>9. ASSUME NEW p \in Supervisors, Prepare(a, p)
        PROVE  OneOwner'
        BY <2>9 DEF Prepare, Advance, At
  <2>10. ASSUME NEW p \in Supervisors, StartSuccessor(a, p)
        PROVE  OneOwner'
        BY <2>10 DEF StartSuccessor, Goto, Advance, At
  <2>11. QED
        BY <1>2, <2>1, <2>2, <2>3, <2>4, <2>5, <2>6, <2>7, <2>8, <2>9, <2>10 DEF Coordinator
<1>3. CASE Expire
      BY <1>3 DEF Expire
<1>4. ASSUME NEW x \in Processes, Kill(x)
      PROVE  OneOwner'
      BY <1>4 DEF Kill
<1>5. CASE UNCHANGED vars
      BY <1>5 DEF vars
<1>6. QED
      BY <1>1, <1>2, <1>3, <1>4, <1>5 DEF Next

\* The predecessor is chosen in Prepare and kept.
LEMMA TargetPreserved ==
    ASSUME TypeOK, TargetChosen, [Next]_vars
    PROVE  TargetChosen'
<1> USE ProcessesAssumption DEF TypeOK, TargetChosen, CoordinatorSteps
<1>1. ASSUME NEW p \in Supervisors, Supervisor(p)
      PROVE  TargetChosen'
  <2>1. CASE Spawn(p)
        BY <2>1 DEF Spawn, Goto
  <2>2. CASE TakeLease(p)
        BY <2>2 DEF TakeLease, Goto
  <2>3. CASE PassFence(p)
        BY <2>3 DEF PassFence, Goto
  <2>4. CASE SeeDeadFence(p)
        BY <2>4 DEF SeeDeadFence, Goto
  <2>5. CASE ClearFence(p)
        BY <2>5 DEF ClearFence, Goto
  <2>6. CASE TakeGuard(p)
        BY <2>6 DEF TakeGuard, Goto
  <2>7. CASE ScanClear(p)
        BY <2>7 DEF ScanClear, Goto, AdmissionRead, NoAdmission, Rivals
  <2>8. CASE ScanRefused(p)
        BY <2>8 DEF ScanRefused, Goto, AdmissionRead, NoAdmission, Rivals
  <2>9. CASE Publish(p)
        BY <2>9 DEF Publish, Goto
  <2>10. CASE Serve(p)
        BY <2>10 DEF Serve, Goto
  <2>11. CASE Close(p)
        BY <2>11 DEF Close, Goto
  <2>12. CASE ReleaseLease(p)
        BY <2>12 DEF ReleaseLease, Goto
  <2>13. CASE ReleaseOwnership(p)
        BY <2>13 DEF ReleaseOwnership, Goto
  <2>14. CASE Exit(p)
        BY <2>14 DEF Exit
  <2>15. QED
        BY <1>1, <2>1, <2>2, <2>3, <2>4, <2>5, <2>6, <2>7, <2>8, <2>9, <2>10, <2>11, <2>12,
            <2>13, <2>14 DEF Supervisor
<1>2. ASSUME NEW a \in Coordinators, Coordinator(a)
      PROVE  TargetChosen'
  <2>1. CASE AcquireAdmission(a)
        BY <2>1 DEF AcquireAdmission, Advance, At
  <2>2. CASE PersistFence(a)
        BY <2>2 DEF PersistFence, Advance, At
  <2>3. CASE StopPredecessor(a)
        BY <2>3 DEF StopPredecessor, Advance, At
  <2>4. CASE AwaitFence(a)
        BY <2>4 DEF AwaitFence, Advance, At
  <2>5. CASE CoordSeesDeadFence(a)
        BY <2>5 DEF CoordSeesDeadFence, Advance, At
  <2>6. CASE CoordClearsFence(a)
        BY <2>6 DEF CoordClearsFence, Advance, At
  <2>7. CASE EndAdmission(a)
        BY <2>7 DEF EndAdmission, Advance, At, NoAdmission
  <2>8. CASE Abandon(a)
        BY <2>8 DEF Abandon, Advance, NoAdmission
  <2>9. ASSUME NEW p \in Supervisors, Prepare(a, p)
        PROVE  TargetChosen'
        BY <2>9 DEF Prepare, Advance, At
  <2>10. ASSUME NEW p \in Supervisors, StartSuccessor(a, p)
        PROVE  TargetChosen'
        BY <2>10 DEF StartSuccessor, Goto, Advance, At
  <2>11. QED
        BY <1>2, <2>1, <2>2, <2>3, <2>4, <2>5, <2>6, <2>7, <2>8, <2>9, <2>10 DEF Coordinator
<1>3. CASE Expire
      BY <1>3 DEF Expire
<1>4. ASSUME NEW x \in Processes, Kill(x)
      PROVE  TargetChosen'
      BY <1>4 DEF Kill
<1>5. CASE UNCHANGED vars
      BY <1>5 DEF vars
<1>6. QED
      BY <1>1, <1>2, <1>3, <1>4, <1>5 DEF Next

\* No supervisor is ever started twice.
LEMMA NamedPreserved ==
    ASSUME TypeOK, TargetChosen, NamedHaveStarted, [Next]_vars
    PROVE  NamedHaveStarted'
<1> USE ProcessesAssumption DEF TypeOK, TargetChosen, NamedHaveStarted, Processes,
        SupervisorSteps
<1>1. ASSUME NEW p \in Supervisors, Supervisor(p)
      PROVE  NamedHaveStarted'
  <2>1. CASE Spawn(p)
        BY <2>1 DEF Spawn, Goto
  <2>2. CASE TakeLease(p)
        BY <2>2 DEF TakeLease, Goto
  <2>3. CASE PassFence(p)
        BY <2>3 DEF PassFence, Goto
  <2>4. CASE SeeDeadFence(p)
        BY <2>4 DEF SeeDeadFence, Goto
  <2>5. CASE ClearFence(p)
        BY <2>5 DEF ClearFence, Goto
  <2>6. CASE TakeGuard(p)
        BY <2>6 DEF TakeGuard, Goto
  <2>7. CASE ScanClear(p)
        BY <2>7 DEF ScanClear, Goto, AdmissionRead, NoAdmission, Rivals
  <2>8. CASE ScanRefused(p)
        BY <2>8 DEF ScanRefused, Goto, AdmissionRead, NoAdmission, Rivals
  <2>9. CASE Publish(p)
        BY <2>9 DEF Publish, Goto
  <2>10. CASE Serve(p)
        BY <2>10 DEF Serve, Goto
  <2>11. CASE Close(p)
        BY <2>11 DEF Close, Goto
  <2>12. CASE ReleaseLease(p)
        BY <2>12 DEF ReleaseLease, Goto
  <2>13. CASE ReleaseOwnership(p)
        BY <2>13 DEF ReleaseOwnership, Goto
  <2>14. CASE Exit(p)
        BY <2>14 DEF Exit
  <2>15. QED
        BY <1>1, <2>1, <2>2, <2>3, <2>4, <2>5, <2>6, <2>7, <2>8, <2>9, <2>10, <2>11, <2>12,
            <2>13, <2>14 DEF Supervisor
<1>2. ASSUME NEW a \in Coordinators, Coordinator(a)
      PROVE  NamedHaveStarted'
  <2>1. CASE AcquireAdmission(a)
        BY <2>1 DEF AcquireAdmission, Advance, At
  <2>2. CASE PersistFence(a)
        BY <2>2 DEF PersistFence, Advance, At
  <2>3. CASE StopPredecessor(a)
        BY <2>3 DEF StopPredecessor, Advance, At
  <2>4. CASE AwaitFence(a)
        BY <2>4 DEF AwaitFence, Advance, At
  <2>5. CASE CoordSeesDeadFence(a)
        BY <2>5 DEF CoordSeesDeadFence, Advance, At
  <2>6. CASE CoordClearsFence(a)
        BY <2>6 DEF CoordClearsFence, Advance, At
  <2>7. CASE EndAdmission(a)
        BY <2>7 DEF EndAdmission, Advance, At, NoAdmission
  <2>8. CASE Abandon(a)
        BY <2>8 DEF Abandon, Advance, NoAdmission
  <2>9. ASSUME NEW p \in Supervisors, Prepare(a, p)
        PROVE  NamedHaveStarted'
        BY <2>9 DEF Prepare, Advance, At
  <2>10. ASSUME NEW p \in Supervisors, StartSuccessor(a, p)
        PROVE  NamedHaveStarted'
        BY <2>10 DEF StartSuccessor, Goto, Advance, At
  <2>11. QED
        BY <1>2, <2>1, <2>2, <2>3, <2>4, <2>5, <2>6, <2>7, <2>8, <2>9, <2>10 DEF Coordinator
<1>3. CASE Expire
      BY <1>3 DEF Expire
<1>4. ASSUME NEW x \in Processes, Kill(x)
      PROVE  NamedHaveStarted'
      BY <1>4 DEF Kill
<1>5. CASE UNCHANGED vars
      BY <1>5 DEF vars
<1>6. QED
      BY <1>1, <1>2, <1>3, <1>4, <1>5 DEF Next

\* A supervisor that is started was named by nobody before.
LEMMA SeenPreserved ==
    ASSUME TypeOK, NamedHaveStarted, SeenAreGone, [Next]_vars
    PROVE  SeenAreGone'
<1> USE ProcessesAssumption DEF TypeOK, NamedHaveStarted, SeenAreGone, Processes,
        SupervisorSteps
<1>1. ASSUME NEW p \in Supervisors, Supervisor(p)
      PROVE  SeenAreGone'
  <2>1. CASE Spawn(p)
        BY <2>1 DEF Spawn, Goto
  <2>2. CASE TakeLease(p)
        BY <2>2 DEF TakeLease, Goto
  <2>3. CASE PassFence(p)
        BY <2>3 DEF PassFence, Goto
  <2>4. CASE SeeDeadFence(p)
        BY <2>4 DEF SeeDeadFence, Goto
  <2>5. CASE ClearFence(p)
        BY <2>5 DEF ClearFence, Goto
  <2>6. CASE TakeGuard(p)
        BY <2>6 DEF TakeGuard, Goto
  <2>7. CASE ScanClear(p)
        BY <2>7 DEF ScanClear, Goto, AdmissionRead, NoAdmission, Rivals
  <2>8. CASE ScanRefused(p)
        BY <2>8 DEF ScanRefused, Goto, AdmissionRead, NoAdmission, Rivals
  <2>9. CASE Publish(p)
        BY <2>9 DEF Publish, Goto
  <2>10. CASE Serve(p)
        BY <2>10 DEF Serve, Goto
  <2>11. CASE Close(p)
        BY <2>11 DEF Close, Goto
  <2>12. CASE ReleaseLease(p)
        BY <2>12 DEF ReleaseLease, Goto
  <2>13. CASE ReleaseOwnership(p)
        BY <2>13 DEF ReleaseOwnership, Goto
  <2>14. CASE Exit(p)
        BY <2>14 DEF Exit
  <2>15. QED
        BY <1>1, <2>1, <2>2, <2>3, <2>4, <2>5, <2>6, <2>7, <2>8, <2>9, <2>10, <2>11, <2>12,
            <2>13, <2>14 DEF Supervisor
<1>2. ASSUME NEW a \in Coordinators, Coordinator(a)
      PROVE  SeenAreGone'
  <2>1. CASE AcquireAdmission(a)
        BY <2>1 DEF AcquireAdmission, Advance, At
  <2>2. CASE PersistFence(a)
        BY <2>2 DEF PersistFence, Advance, At
  <2>3. CASE StopPredecessor(a)
        BY <2>3 DEF StopPredecessor, Advance, At
  <2>4. CASE AwaitFence(a)
        BY <2>4 DEF AwaitFence, Advance, At
  <2>5. CASE CoordSeesDeadFence(a)
        BY <2>5 DEF CoordSeesDeadFence, Advance, At
  <2>6. CASE CoordClearsFence(a)
        BY <2>6 DEF CoordClearsFence, Advance, At
  <2>7. CASE EndAdmission(a)
        BY <2>7 DEF EndAdmission, Advance, At, NoAdmission
  <2>8. CASE Abandon(a)
        BY <2>8 DEF Abandon, Advance, NoAdmission
  <2>9. ASSUME NEW p \in Supervisors, Prepare(a, p)
        PROVE  SeenAreGone'
        BY <2>9 DEF Prepare, Advance, At
  <2>10. ASSUME NEW p \in Supervisors, StartSuccessor(a, p)
        PROVE  SeenAreGone'
        BY <2>10 DEF StartSuccessor, Goto, Advance, At
  <2>11. QED
        BY <1>2, <2>1, <2>2, <2>3, <2>4, <2>5, <2>6, <2>7, <2>8, <2>9, <2>10 DEF Coordinator
<1>3. CASE Expire
      BY <1>3 DEF Expire
<1>4. ASSUME NEW x \in Processes, Kill(x)
      PROVE  SeenAreGone'
      BY <1>4 DEF Kill
<1>5. CASE UNCHANGED vars
      BY <1>5 DEF vars
<1>6. QED
      BY <1>1, <1>2, <1>3, <1>4, <1>5 DEF Next

\* Under the coordinator's admission the fence outlasts the predecessor.
LEMMA RestartPreserved ==
    ASSUME TypeOK, ScanStands, TargetChosen, NamedHaveStarted, SeenAreGone,
           RestartStands, [Next]_vars
    PROVE  RestartStands'
<1> USE ProcessesAssumption DEF TypeOK, TargetChosen, NamedHaveStarted, SeenAreGone,
        RestartStands, Processes, SupervisorSteps, CoordinatorSteps
<1>1. ASSUME NEW p \in Supervisors, Supervisor(p)
      PROVE  RestartStands'
  <2>1. CASE Spawn(p)
        BY <2>1 DEF Spawn, Goto, Renewable
  <2>2. CASE TakeLease(p)
        BY <2>2 DEF TakeLease, Goto, Renewable
  <2>3. CASE PassFence(p)
        BY <2>3 DEF PassFence, Goto, Renewable
  <2>4. CASE SeeDeadFence(p)
        BY <2>4 DEF SeeDeadFence, Goto, Renewable
  <2>5. CASE ClearFence(p)
        BY <2>5 DEF ClearFence, Goto, Renewable
  <2>6. CASE TakeGuard(p)
        BY <2>6 DEF TakeGuard, Goto, Renewable
  <2>7. CASE ScanClear(p)
        BY <2>7 DEF ScanClear, Goto, Renewable, AdmissionRead, NoAdmission, Rivals
  <2>8. CASE ScanRefused(p)
        BY <2>8 DEF ScanRefused, Goto, Renewable, AdmissionRead, NoAdmission, Rivals
  <2>9. CASE Publish(p)
        BY <2>9 DEF Publish, Goto, Renewable, ScanStands, ActiveAdmission
  <2>10. CASE Serve(p)
        BY <2>10 DEF Serve, Goto, Renewable
  <2>11. CASE Close(p)
        BY <2>11 DEF Close, Goto, Renewable
  <2>12. CASE ReleaseLease(p)
        BY <2>12 DEF ReleaseLease, Goto, Renewable
  <2>13. CASE ReleaseOwnership(p)
        BY <2>13 DEF ReleaseOwnership, Goto, Renewable
  <2>14. CASE Exit(p)
        BY <2>14 DEF Exit, Renewable
  <2>15. QED
        BY <1>1, <2>1, <2>2, <2>3, <2>4, <2>5, <2>6, <2>7, <2>8, <2>9, <2>10, <2>11, <2>12,
            <2>13, <2>14 DEF Supervisor
<1>2. ASSUME NEW a \in Coordinators, Coordinator(a)
      PROVE  RestartStands'
  <2>1. CASE AcquireAdmission(a)
        BY <2>1 DEF AcquireAdmission, Advance, At, Renewable, ActiveAdmission
  <2>2. CASE PersistFence(a)
        BY <2>2 DEF PersistFence, Advance, At, Renewable
  <2>3. CASE StopPredecessor(a)
        BY <2>3 DEF StopPredecessor, Advance, At, Renewable
  <2>4. CASE AwaitFence(a)
        BY <2>4 DEF AwaitFence, Advance, At, Renewable
  <2>5. CASE CoordSeesDeadFence(a)
        BY <2>5 DEF CoordSeesDeadFence, Advance, At, Renewable
  <2>6. CASE CoordClearsFence(a)
        BY <2>6 DEF CoordClearsFence, Advance, At, Renewable
  <2>7. CASE EndAdmission(a)
        BY <2>7 DEF EndAdmission, Advance, At, NoAdmission, Renewable
  <2>8. CASE Abandon(a)
        BY <2>8 DEF Abandon, Advance, NoAdmission, Renewable
  <2>9. ASSUME NEW p \in Supervisors, Prepare(a, p)
        PROVE  RestartStands'
        BY <2>9 DEF Prepare, Advance, At, Renewable
  <2>10. ASSUME NEW p \in Supervisors, StartSuccessor(a, p)
        PROVE  RestartStands'
        BY <2>10 DEF StartSuccessor, Goto, Advance, At, Renewable
  <2>11. QED
        BY <1>2, <2>1, <2>2, <2>3, <2>4, <2>5, <2>6, <2>7, <2>8, <2>9, <2>10 DEF Coordinator
<1>3. CASE Expire
      BY <1>3 DEF Expire, Renewable
<1>4. ASSUME NEW x \in Processes, Kill(x)
      PROVE  RestartStands'
      BY <1>4 DEF Kill, Renewable
<1>5. CASE UNCHANGED vars
      BY <1>5 DEF vars, Renewable
<1>6. QED
      BY <1>1, <1>2, <1>3, <1>4, <1>5 DEF Next

\* One step from the invariant leads to the invariant.
LEMMA Inductive == IInv /\ [Next]_vars => IInv'
<1>1. SUFFICES ASSUME IInv, [Next]_vars
               PROVE  IInv'
      OBVIOUS
<1>2. TypeOK'
      BY <1>1, TypePreserved DEF IInv
<1>3. GuardIsHeld' /\ ScanStands'
      BY <1>1, GuardPreserved, ScanPreserved DEF IInv
<1>4. OwnerKeepsRecord' /\ OneOwner'
      BY <1>1, RecordPreserved, OwnerPreserved DEF IInv
<1>5. TargetChosen' /\ NamedHaveStarted' /\ SeenAreGone'
      BY <1>1, TargetPreserved, NamedPreserved, SeenPreserved DEF IInv
<1>6. RestartStands'
      BY <1>1, RestartPreserved DEF IInv
<1>7. QED
      BY <1>2, <1>3, <1>4, <1>5, <1>6 DEF IInv

\* The invariant holds in every reachable state.
LEMMA Invariance == Spec => []IInv
      BY Initially, Inductive, PTL DEF Spec

\* Every variable keeps its type, whatever is killed: the registry guard and the
\* fences only ever name supervisors, the admission only a coordinator.
THEOREM TypeCorrect == Spec => []TypeOK
<1>1. IInv => TypeOK
      BY DEF IInv
<1>2. QED
      BY <1>1, Invariance, PTL

\* acquireDaemonSupervisorOwnership(): whatever is killed and whatever expires, two
\* supervisors never own the same socket path or the same descriptor directory.
THEOREM OwnershipIsExclusive == Spec => []OneOwner
<1>1. IInv => OneOwner
      BY DEF IInv
<1>2. QED
      BY <1>1, Invariance, PTL

\* No live owner's record is moved away as stale, so assertCurrent() fails a
\* supervisor only after its own release.
THEOREM OwnershipIsKept == Spec => []OwnerKeepsRecord
<1>1. IInv => OwnerKeepsRecord
      BY DEF IInv
<1>2. QED
      BY <1>1, Invariance, PTL

\* readActiveShutdownAdmission() and the rename that publishes an owner are one
\* step with respect to acquireDaemonShutdownAdmission().
THEOREM AdmissionHoldsOffOwners == Spec => []NoStartUnderAdmission
<1>1. IInv => NoStartUnderAdmission
      BY DEF IInv, ScanStands, NoStartUnderAdmission
<1>2. QED
      BY <1>1, Invariance, PTL

\* restartDaemon of package-manager-cli.ts: while its admission lasts nobody else
\* takes the socket path of the predecessor, and the successor is started only when
\* the predecessor is gone.
THEOREM RestartIsOneForOne == Spec => []RestartReplaces
<1>1. IInv => RestartReplaces
      BY DEF IInv, TypeOK, TargetChosen, OwnerKeepsRecord, RestartStands,
         RestartReplaces, Owning
<1>2. QED
      BY <1>1, Invariance, PTL
=============================================================================
