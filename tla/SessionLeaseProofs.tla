------------------------- MODULE SessionLeaseProofs -------------------------
(***************************************************************************)
(* Proofs about SessionLease for every set of processes and sessions, any  *)
(* reuse of pids and any number of leases.                                 *)
(***************************************************************************)
EXTENDS SessionLease, TLAPS

\* The steps of a lease call that are made under the guard.
Guarded == {"rename", "look", "reclaim", "remove", "unlock"}

\* The guard of the session of a live process that is past "lock" is its own.
GuardIsOurs == \A p \in alive : call[p].at \in Guarded => guard[call[p].session] = p

\* A process that does not run has nothing in memory.
DeadIsQuiet ==
    \A p \in Procs \ alive :
        /\ call[p] = NoCall /\ op[p] = [o \in Ops |-> NoOp]
        /\ runtime[p] = "none" /\ lease[p] = None /\ running[p] = None

\* A directory was made by a process that was started, a lease object is in the
\* memory of a live one, and its token is not in the future.
Known ==
    /\ \A s \in Sessions : dir[s] # None => dir[s].proc \in started
    /\ \A l \in held : l.proc \in alive /\ l.n <= count[l.proc]

\* A lease that is being released is no longer held, and its token is spent.
ReleasedIsOld ==
    \A p \in Procs : call[p].at \in {"lock", "remove"} /\ call[p].old # None =>
        call[p].old \notin held /\ call[p].old.n <= count[call[p].old.proc]

\* What an acquisition is about to move away was left by a process that is gone.
StaleIsDead ==
    \A p \in alive : call[p].at = "reclaim" =>
        dir[call[p].session] = None \/ dir[call[p].session].proc \notin alive

\* After the first reclaim the directory is free, and the second rename succeeds.
TriesSuffice ==
    \A p \in alive : call[p].at # "none" =>
        /\ call[p].at \in {"lock", "look", "reclaim"} => call[p].tries = 0
        /\ call[p].at = "rename" => call[p].tries = 0 \/ dir[call[p].session] = None
        /\ call[p].result # "exhausted"

IInv ==
    /\ TypeOK /\ GuardIsOurs /\ DeadIsQuiet /\ Known /\ ReleasedIsOld
    /\ StaleIsDead /\ TriesSuffice /\ HolderKeepsDirectory

\* A runtime's leases are its own process's.
OwnLeases ==
    \A p \in Procs :
        /\ lease[p] # None => lease[p].proc = p
        /\ \A o \in Ops : op[p][o].at \in {"tearing", "building"} =>
              op[p][o].lease.proc = p /\ op[p][o].lease.session = op[p][o].session

\* Unless it was disposed of, a runtime holds the leases it works with, and runs
\* the session of its lease.
RunsUnderLease ==
    \A p \in Procs : runtime[p] # "disposed" =>
        /\ lease[p] # None => lease[p] \in held
        /\ running[p] # None => lease[p] # None /\ lease[p].session = running[p]
        /\ \A o \in Ops : op[p][o].at \in {"tearing", "building"} => op[p][o].lease \in held

-----------------------------------------------------------------------------
(* The records of lease calls and of replacements *)

\* A process that is in a lease call has the record of one.
LEMMA InCall ==
    ASSUME TypeOK, NEW p \in Procs, call[p].at # "none"
    PROVE  call[p] \in LeaseCalls
BY DEF TypeOK, Calls, NoCall

\* A step of one process's lease call leaves the others' alone.
LEMMA OneCall ==
    ASSUME TypeOK, NEW p \in Procs, NEW c \in Calls, call' = [call EXCEPT ![p] = c]
    PROVE  /\ call' \in [Procs -> Calls] /\ call'[p] = c
           /\ \A q \in Procs : q # p => call'[q] = call[q]
BY DEF TypeOK

\* So does a step of a replacement.
LEMMA OneOp ==
    ASSUME TypeOK, NEW p \in Procs, NEW o, NEW v \in Operations,
           op' = [op EXCEPT ![p][o] = v]
    PROVE  /\ op' \in [Procs -> [Ops -> Operations]]
           /\ \A q \in Procs : q # p => op'[q] = op[q]
BY DEF TypeOK

-----------------------------------------------------------------------------
(* One lemma per action *)

\* Nothing is held and nobody is in a call at the start.
LEMMA Begins == Init => IInv
BY LeaseAssumption DEF Init, IInv, TypeOK, GuardIsOurs, DeadIsQuiet, Known, ReleasedIsOld,
   StaleIsDead,
   TriesSuffice, HolderKeepsDirectory, Guarded, NoCall, NoOp, Calls, Operations

\* A process that starts has nothing in memory and is the owner of no directory:
\* it was never started before.
LEMMA StartKeeps == ASSUME IInv, NEW p \in Procs, Start(p) PROVE IInv'
<1> USE LeaseAssumption DEF IInv, NoCall, NoOp
<1>1. TypeOK'
  BY DEF TypeOK, Calls, LeaseCalls, Operations, Replacements, Leases, Start, files, host
<1>2. GuardIsOurs'
  BY <1>1 DEF TypeOK, Calls, LeaseCalls, Operations, Leases, GuardIsOurs, Guarded,
     DeadIsQuiet, Start, files, host
<1>3. DeadIsQuiet'
  BY <1>1 DEF TypeOK, Calls, LeaseCalls, Operations, Leases, DeadIsQuiet, Start, files, host
<1>4. Known'
  BY <1>1 DEF TypeOK, Calls, LeaseCalls, Operations, Leases, Known, Start, files, host
<1>5. ReleasedIsOld'
  BY <1>1 DEF TypeOK, Calls, LeaseCalls, Operations, Leases, ReleasedIsOld, Known, Start,
     files, host
<1>6. StaleIsDead'
  BY <1>1 DEF TypeOK, Calls, LeaseCalls, Operations, Leases, StaleIsDead, GuardIsOurs,
     Guarded, Known, DeadIsQuiet, Start, files, host
<1>7. TriesSuffice'
  BY <1>1 DEF TypeOK, Calls, LeaseCalls, Operations, Leases, TriesSuffice, GuardIsOurs,
     Guarded, DeadIsQuiet, Start, files, host
<1>8. HolderKeepsDirectory'
  BY <1>1 DEF TypeOK, Calls, LeaseCalls, Operations, Leases, HolderKeepsDirectory, Known,
     StaleIsDead, ReleasedIsOld, Start, files, host
<1> QED
  BY <1>1, <1>2, <1>3, <1>4, <1>5, <1>6, <1>7, <1>8

\* What a killed process held is held no more, and its guard is free to take.
LEMMA KillKeeps == ASSUME IInv, NEW p \in Procs, Kill(p) PROVE IInv'
<1> USE LeaseAssumption DEF IInv, NoCall, NoOp
<1>1. TypeOK'
  BY DEF TypeOK, Calls, LeaseCalls, Operations, Replacements, Leases, Kill, files
<1>2. GuardIsOurs'
  BY <1>1 DEF TypeOK, Calls, LeaseCalls, Operations, Leases, GuardIsOurs, Guarded, Kill, files
<1>3. DeadIsQuiet'
  BY <1>1 DEF TypeOK, Calls, LeaseCalls, Operations, Leases, DeadIsQuiet, Kill, files
<1>4. Known'
  BY <1>1 DEF TypeOK, Calls, LeaseCalls, Operations, Leases, Known, Kill, files
<1>5. ReleasedIsOld'
  BY <1>1 DEF TypeOK, Calls, LeaseCalls, Operations, Leases, ReleasedIsOld, Known, Kill, files
<1>6. StaleIsDead'
  BY <1>1 DEF TypeOK, Calls, LeaseCalls, Operations, Leases, StaleIsDead, GuardIsOurs,
     Guarded, Known, Kill, files
<1>7. TriesSuffice'
  BY <1>1 DEF TypeOK, Calls, LeaseCalls, Operations, Leases, TriesSuffice, GuardIsOurs,
     Guarded, Kill, files
<1>8. HolderKeepsDirectory'
  BY <1>1 DEF TypeOK, Calls, LeaseCalls, Operations, Leases, HolderKeepsDirectory, Known,
     StaleIsDead, ReleasedIsOld, Kill, files
<1> QED
  BY <1>1, <1>2, <1>3, <1>4, <1>5, <1>6, <1>7, <1>8

\* A call that cannot lock the guard ends and changes no file.
LEMMA LockTimeoutKeeps == ASSUME IInv, NEW p \in Procs, LockTimeout(p) PROVE IInv'
<1> USE LeaseAssumption DEF IInv, NoCall, NoOp
<1>1. TypeOK'
  BY DEF TypeOK, Calls, LeaseCalls, Operations, Replacements, Leases, LockTimeout, In, Enter,
     files
<1>2. GuardIsOurs'
  BY <1>1 DEF TypeOK, Calls, LeaseCalls, Operations, Leases, GuardIsOurs, Guarded,
     LockTimeout, In, Enter, files
<1>3. DeadIsQuiet'
  BY <1>1 DEF TypeOK, Calls, LeaseCalls, Operations, Leases, DeadIsQuiet, LockTimeout, In,
     Enter, files
<1>4. Known'
  BY <1>1 DEF TypeOK, Calls, LeaseCalls, Operations, Leases, Known, LockTimeout, In, Enter,
     files
<1>5. ReleasedIsOld'
  BY <1>1 DEF TypeOK, Calls, LeaseCalls, Operations, Leases, ReleasedIsOld, Known,
     LockTimeout, In, Enter, files
<1>6. StaleIsDead'
  BY <1>1 DEF TypeOK, Calls, LeaseCalls, Operations, Leases, StaleIsDead, GuardIsOurs,
     Guarded, Known, LockTimeout, In, Enter, files
<1>7. TriesSuffice'
  BY <1>1 DEF TypeOK, Calls, LeaseCalls, Operations, Leases, TriesSuffice, GuardIsOurs,
     Guarded, LockTimeout, In, Enter, files
<1>8. HolderKeepsDirectory'
  BY <1>1 DEF TypeOK, Calls, LeaseCalls, Operations, Leases, HolderKeepsDirectory, Known,
     StaleIsDead, ReleasedIsOld, LockTimeout, In, Enter, files
<1> QED
  BY <1>1, <1>2, <1>3, <1>4, <1>5, <1>6, <1>7, <1>8

\* Only the holder of the guard gives it back.
LEMMA UnlockKeeps == ASSUME IInv, NEW p \in Procs, Unlock(p) PROVE IInv'
<1> USE LeaseAssumption DEF IInv, NoCall, NoOp
<1>1. TypeOK'
  BY DEF TypeOK, Calls, LeaseCalls, Operations, Replacements, Leases, Unlock, In, Enter, host
<1>2. GuardIsOurs'
  BY <1>1 DEF TypeOK, Calls, LeaseCalls, Operations, Leases, GuardIsOurs, Guarded, Unlock,
     In, Enter, host
<1>3. DeadIsQuiet'
  BY <1>1 DEF TypeOK, Calls, LeaseCalls, Operations, Leases, DeadIsQuiet, Unlock, In, Enter,
     host
<1>4. Known'
  BY <1>1 DEF TypeOK, Calls, LeaseCalls, Operations, Leases, Known, Unlock, In, Enter, host
<1>5. ReleasedIsOld'
  BY <1>1 DEF TypeOK, Calls, LeaseCalls, Operations, Leases, ReleasedIsOld, Known, Unlock,
     In, Enter, host
<1>6. StaleIsDead'
  BY <1>1 DEF TypeOK, Calls, LeaseCalls, Operations, Leases, StaleIsDead, GuardIsOurs,
     Guarded, Known, Unlock, In, Enter, host
<1>7. TriesSuffice'
  BY <1>1 DEF TypeOK, Calls, LeaseCalls, Operations, Leases, TriesSuffice, GuardIsOurs,
     Guarded, Unlock, In, Enter, host
<1>8. HolderKeepsDirectory'
  BY <1>1 DEF TypeOK, Calls, LeaseCalls, Operations, Leases, HolderKeepsDirectory, Known,
     StaleIsDead, ReleasedIsOld, Unlock, In, Enter, host
<1> QED
  BY <1>1, <1>2, <1>3, <1>4, <1>5, <1>6, <1>7, <1>8

\* A guard that is free, or a dead process's, is no live process's.
LEMMA LockKeeps == ASSUME IInv, NEW p \in Procs, Lock(p) PROVE IInv'
<1> USE DEF IInv
<1>1. p \in alive /\ call[p].at = "lock" /\ call[p] \in LeaseCalls /\ call[p].session \in Sessions
  BY InCall DEF Lock, In, LeaseCalls
<1>2. /\ UNCHANGED <<started, alive, dir, count, held, op, runtime, lease, running>>
      /\ guard[call[p].session] = None \/ guard[call[p].session] \notin alive
      /\ guard' = [guard EXCEPT ![call[p].session] = p]
  BY DEF Lock, host
<1>3. /\ call' \in [Procs -> Calls] /\ \A q \in Procs : q # p => call'[q] = call[q]
      /\ call'[p].at \in {"rename", "remove"} /\ call'[p].session = call[p].session
      /\ call'[p].old = call[p].old /\ call'[p].tries = call[p].tries
      /\ call'[p].result = call[p].result
  <2> DEFINE d == [call[p] EXCEPT !.at = IF call[p].old = None THEN "rename" ELSE "remove"]
  <2>1. call' = [call EXCEPT ![p] = d]
    BY DEF Lock, At, Ending, Enter
  <2>2. /\ d \in LeaseCalls /\ d.at \in {"rename", "remove"} /\ d.session = call[p].session
        /\ d.old = call[p].old /\ d.tries = call[p].tries
      /\ d.result = call[p].result
    BY <1>1 DEF LeaseCalls
  <2> HIDE DEF d
  <2> QED
    BY <2>1, <2>2, OneCall DEF Calls
<1>4. TypeOK'
  BY <1>1, <1>2, <1>3 DEF TypeOK
<1>5. GuardIsOurs'
  BY <1>1, <1>2, <1>3, LeaseAssumption DEF TypeOK, GuardIsOurs, Guarded
<1>6. DeadIsQuiet'
  BY <1>1, <1>2, <1>3, LeaseAssumption DEF TypeOK, DeadIsQuiet
<1>7. Known'
  BY <1>1, <1>2, <1>3, LeaseAssumption DEF TypeOK, Known
<1>8. ReleasedIsOld'
  BY <1>1, <1>2, <1>3, LeaseAssumption DEF TypeOK, ReleasedIsOld, Known
<1>9. StaleIsDead'
  <2> SUFFICES ASSUME NEW q \in alive', call'[q].at = "reclaim"
                PROVE  dir'[call'[q].session] = None \/ dir'[call'[q].session].proc \notin alive'
    BY DEF StaleIsDead
  <2>1. q \in alive /\ q \in Procs /\ q # p
    BY <1>1, <1>2, <1>3 DEF TypeOK
  <2>2. call'[q] = call[q]
    BY <1>3, <2>1
  <2> QED
    BY <1>2, <2>1, <2>2 DEF StaleIsDead
<1>10. TriesSuffice'
  BY <1>1, <1>2, <1>3, LeaseAssumption DEF TypeOK, TriesSuffice, GuardIsOurs, Guarded
<1>11. HolderKeepsDirectory'
  BY <1>1, <1>2, <1>3, LeaseAssumption DEF TypeOK, HolderKeepsDirectory, Known, StaleIsDead,
     ReleasedIsOld
<1> QED
  BY <1>4, <1>5, <1>6, <1>7, <1>8, <1>9, <1>10, <1>11

\* release() removes the directory only if it is that of the lease released,
\* which is no longer held.
LEMMA RemoveKeeps == ASSUME IInv, NEW p \in Procs, Remove(p) PROVE IInv'
<1> USE DEF IInv
<1>1. p \in alive /\ call[p].at = "remove" /\ call[p] \in LeaseCalls /\ call[p].session \in Sessions
  BY InCall DEF Remove, In, LeaseCalls
<1>2. /\ UNCHANGED <<started, alive, guard, count, held, op, runtime, lease, running>>
      /\ dir' = IF dir[call[p].session] = call[p].old THEN [dir EXCEPT ![call[p].session] = None] ELSE dir
  BY DEF Remove, host
<1>3. /\ call' \in [Procs -> Calls] /\ \A q \in Procs : q # p => call'[q] = call[q]
      /\ call'[p].at = "unlock" /\ call'[p].session = call[p].session
      /\ call'[p].old = call[p].old /\ call'[p].result = "released"
  <2> DEFINE d == [call[p] EXCEPT !.at = "unlock", !.result = "released"]
  <2>1. call' = [call EXCEPT ![p] = d]
    BY DEF Remove, At, Ending, Enter
  <2>2. /\ d \in LeaseCalls /\ d.at = "unlock" /\ d.session = call[p].session
        /\ d.old = call[p].old /\ d.result = "released"
    BY <1>1 DEF LeaseCalls
  <2> HIDE DEF d
  <2> QED
    BY <2>1, <2>2, OneCall DEF Calls
<1>4. TypeOK'
  BY <1>1, <1>2, <1>3 DEF TypeOK
<1>5. GuardIsOurs'
  BY <1>1, <1>2, <1>3, LeaseAssumption DEF TypeOK, GuardIsOurs, Guarded
<1>6. DeadIsQuiet'
  BY <1>1, <1>2, <1>3, LeaseAssumption DEF TypeOK, DeadIsQuiet
<1>7. Known'
  BY <1>1, <1>2, <1>3, LeaseAssumption DEF TypeOK, Known
<1>8. ReleasedIsOld'
  BY <1>1, <1>2, <1>3, LeaseAssumption DEF TypeOK, ReleasedIsOld, Known
<1>9. StaleIsDead'
  <2> SUFFICES ASSUME NEW q \in alive', call'[q].at = "reclaim"
                PROVE  dir'[call'[q].session] = None \/ dir'[call'[q].session].proc \notin alive'
    BY DEF StaleIsDead
  <2>1. q \in alive /\ q \in Procs /\ q # p
    BY <1>1, <1>2, <1>3 DEF TypeOK
  <2>2. call'[q] = call[q]
    BY <1>3, <2>1
  <2>3. call[q].session \in Sessions
    BY <2>1, <2>2, InCall DEF LeaseCalls
  <2>4. dir'[call[q].session] \in {dir[call[q].session], None}
    BY <1>2, <2>3 DEF TypeOK
  <2> QED
    BY <1>2, <2>1, <2>2, <2>4 DEF StaleIsDead
<1>10. TriesSuffice'
  BY <1>1, <1>2, <1>3, LeaseAssumption DEF TypeOK, TriesSuffice, GuardIsOurs, Guarded
<1>11. HolderKeepsDirectory'
  BY <1>1, <1>2, <1>3, LeaseAssumption DEF TypeOK, HolderKeepsDirectory, Known, StaleIsDead,
     ReleasedIsOld
<1> QED
  BY <1>4, <1>5, <1>6, <1>7, <1>8, <1>9, <1>10, <1>11

\* The rename that succeeds found no directory, so no lease of the session is held.
LEMMA RenameLeasesKeeps ==
    ASSUME IInv, NEW p \in Procs, Rename(p), dir[call[p].session] = None
    PROVE  IInv'
<1> USE DEF IInv
<1>1. p \in alive /\ call[p].at = "rename" /\ call[p] \in LeaseCalls /\ call[p].session \in Sessions
  BY InCall DEF Rename, In, LeaseCalls
<1>2. PICK l \in Leases :
         /\ l.proc = p /\ l.n = count[p] + 1 /\ l.session = call[p].session
         /\ dir' = [dir EXCEPT ![call[p].session] = l] /\ held' = held \cup {l}
         /\ count' = [count EXCEPT ![p] = @ + 1]
         /\ op' = [op EXCEPT ![p][call[p].for] =
                     [at |-> IF runtime[p] = "none" THEN "building" ELSE "tearing",
                      session |-> call[p].session, lease |-> l]]
         /\ UNCHANGED <<started, alive, guard, runtime, lease, running>>
  <2> DEFINE k == [proc |-> p, n |-> count[p] + 1, session |-> call[p].session]
  <2>1. k \in Leases /\ k.proc = p /\ k.n = count[p] + 1 /\ k.session = call[p].session
    BY <1>1 DEF Leases, TypeOK
  <2>2. /\ dir' = [dir EXCEPT ![call[p].session] = k] /\ held' = held \cup {k}
        /\ count' = [count EXCEPT ![p] = @ + 1]
        /\ op' = [op EXCEPT ![p][call[p].for] =
                    [at |-> IF runtime[p] = "none" THEN "building" ELSE "tearing",
                     session |-> call[p].session, lease |-> k]]
        /\ UNCHANGED <<started, alive, guard, runtime, lease, running>>
    BY DEF Rename
  <2> HIDE DEF k
  <2> QED
    BY <2>1, <2>2
<1>3. /\ call' \in [Procs -> Calls] /\ \A q \in Procs : q # p => call'[q] = call[q]
      /\ call'[p].at = "unlock" /\ call'[p].session = call[p].session
      /\ call'[p].old = call[p].old /\ call'[p].result = "leased"
  <2> DEFINE d == [call[p] EXCEPT !.at = "unlock", !.result = "leased"]
  <2>1. call' = [call EXCEPT ![p] = d]
    BY DEF Rename, At, Ending, Enter
  <2>2. /\ d \in LeaseCalls /\ d.at = "unlock" /\ d.session = call[p].session
        /\ d.old = call[p].old /\ d.result = "leased"
    BY <1>1 DEF LeaseCalls
  <2> HIDE DEF d
  <2> QED
    BY <2>1, <2>2, OneCall DEF Calls
<1>4. op' \in [Procs -> [Ops -> Operations]] /\ \A q \in Procs : q # p => op'[q] = op[q]
  <2> DEFINE v == [at |-> IF runtime[p] = "none" THEN "building" ELSE "tearing",
                   session |-> call[p].session, lease |-> l]
  <2>1. v \in Operations
    BY <1>1, <1>2 DEF Operations, Replacements
  <2> QED
    BY <2>1, <1>2, OneOp
<1>5. TypeOK'
  BY <1>1, <1>2, <1>3, <1>4 DEF TypeOK
<1>6. GuardIsOurs'
  BY <1>1, <1>2, <1>3, <1>4, LeaseAssumption DEF TypeOK, GuardIsOurs, Guarded
<1>7. DeadIsQuiet'
  BY <1>1, <1>2, <1>3, <1>4, LeaseAssumption DEF TypeOK, DeadIsQuiet
<1>8. Known'
  <2>1. \A k \in held' : k.proc \in alive' /\ k.n <= count'[k.proc]
    <3> SUFFICES ASSUME NEW k \in held'
                  PROVE  k.proc \in alive' /\ k.n <= count'[k.proc]
      OBVIOUS
    <3>1. CASE k = l
      BY <1>1, <1>2, <1>3, <1>4, <3>1 DEF TypeOK
    <3>2. CASE k \in held
      <4>1. k \in Leases /\ k.proc \in Procs /\ k.n \in Nat /\ k.proc \in alive /\ k.n <= count[k.proc]
        BY <3>2 DEF TypeOK, Leases, Known
      <4>2. count'[k.proc] \in {count[k.proc], count[k.proc] + 1} /\ count[k.proc] \in Nat
        BY <1>2, <4>1 DEF TypeOK
      <4> QED
        BY <1>2, <4>1, <4>2
    <3> QED
      BY <1>2, <3>1, <3>2
  <2>2. \A s \in Sessions : dir'[s] # None => dir'[s].proc \in started'
    BY <1>1, <1>2 DEF TypeOK, Known
  <2> QED
    BY <2>1, <2>2 DEF Known
<1>9. ReleasedIsOld'
  <2> SUFFICES ASSUME NEW q \in Procs, call'[q].at \in {"lock", "remove"}, call'[q].old # None
                PROVE  call'[q].old \notin held' /\ call'[q].old.n <= count'[call'[q].old.proc]
    BY DEF ReleasedIsOld
  <2>1. q # p /\ call'[q] = call[q]
    BY <1>3
  <2> DEFINE old == call[q].old
  <2>2. old \notin held /\ old.n <= count[old.proc]
    BY <2>1 DEF ReleasedIsOld
  <2>3. old \in Leases /\ old.proc \in Procs /\ old.n \in Nat
    BY <2>1, InCall DEF LeaseCalls, Leases
  <2> HIDE DEF old
  <2>4. count'[old.proc] \in {count[old.proc], count[old.proc] + 1} /\ count[old.proc] \in Nat
    BY <1>2, <2>3 DEF TypeOK
  <2>5. old # l
    BY <1>2, <2>2, <2>3 DEF TypeOK
  <2>6. old \notin held' /\ old.n <= count'[old.proc]
    BY <1>2, <2>2, <2>3, <2>4, <2>5
  <2> QED
    BY <2>1, <2>6 DEF old
<1>10. StaleIsDead'
  <2> SUFFICES ASSUME NEW q \in alive', call'[q].at = "reclaim"
                PROVE  dir'[call'[q].session] = None \/ dir'[call'[q].session].proc \notin alive'
    BY DEF StaleIsDead
  <2>1. q \in alive /\ q \in Procs /\ q # p
    BY <1>1, <1>2, <1>3, <1>4 DEF TypeOK
  <2>2. call'[q] = call[q]
    BY <1>3, <2>1
  <2>3. call[q].session \in Sessions /\ call[q].session # call[p].session
    BY <1>1, <2>1, <2>2, InCall DEF LeaseCalls, GuardIsOurs, Guarded
  <2>4. dir'[call[q].session] = dir[call[q].session]
    BY <1>2, <2>3 DEF TypeOK
  <2> QED
    BY <1>2, <1>3, <1>4, <2>1, <2>2, <2>4 DEF StaleIsDead
<1>11. TriesSuffice'
  BY <1>1, <1>2, <1>3, <1>4, LeaseAssumption, SMTT(30) DEF TypeOK, TriesSuffice, GuardIsOurs, Guarded
<1>12. HolderKeepsDirectory'
  BY <1>1, <1>2, <1>3, <1>4, LeaseAssumption DEF TypeOK, HolderKeepsDirectory, Known,
     StaleIsDead, ReleasedIsOld
<1> QED
  BY <1>5, <1>6, <1>7, <1>8, <1>9, <1>10, <1>11, <1>12

\* The rename that fails leaves everything as it is.
LEMMA RenameFailsKeeps ==
    ASSUME IInv, NEW p \in Procs, Rename(p), dir[call[p].session] # None
    PROVE  IInv'
<1> USE DEF IInv
<1>1. p \in alive /\ call[p].at = "rename" /\ call[p] \in LeaseCalls /\ call[p].session \in Sessions
  BY InCall DEF Rename, In, LeaseCalls
<1>2. UNCHANGED <<started, alive, guard, dir, count, held, op, runtime, lease, running>>
  BY DEF Rename
<1>3. /\ call' \in [Procs -> Calls] /\ \A q \in Procs : q # p => call'[q] = call[q]
      /\ call'[p].at = "look" /\ call'[p].session = call[p].session
      /\ call'[p].old = call[p].old /\ call'[p].tries = call[p].tries
      /\ call'[p].result = call[p].result
  <2> DEFINE d == [call[p] EXCEPT !.at = "look"]
  <2>1. call' = [call EXCEPT ![p] = d]
    BY DEF Rename, At, Ending, Enter
  <2>2. /\ d \in LeaseCalls /\ d.at = "look" /\ d.session = call[p].session
        /\ d.old = call[p].old /\ d.tries = call[p].tries
      /\ d.result = call[p].result
    BY <1>1 DEF LeaseCalls
  <2> HIDE DEF d
  <2> QED
    BY <2>1, <2>2, OneCall DEF Calls
<1>4. TypeOK'
  BY <1>1, <1>2, <1>3 DEF TypeOK
<1>5. GuardIsOurs'
  BY <1>1, <1>2, <1>3, LeaseAssumption DEF TypeOK, GuardIsOurs, Guarded
<1>6. DeadIsQuiet'
  BY <1>1, <1>2, <1>3, LeaseAssumption DEF TypeOK, DeadIsQuiet
<1>7. Known'
  BY <1>1, <1>2, <1>3, LeaseAssumption DEF TypeOK, Known
<1>8. ReleasedIsOld'
  BY <1>1, <1>2, <1>3, LeaseAssumption DEF TypeOK, ReleasedIsOld, Known
<1>9. StaleIsDead'
  <2> SUFFICES ASSUME NEW q \in alive', call'[q].at = "reclaim"
                PROVE  dir'[call'[q].session] = None \/ dir'[call'[q].session].proc \notin alive'
    BY DEF StaleIsDead
  <2>1. q \in alive /\ q \in Procs /\ q # p
    BY <1>1, <1>2, <1>3 DEF TypeOK
  <2>2. call'[q] = call[q]
    BY <1>3, <2>1
  <2> QED
    BY <1>2, <2>1, <2>2 DEF StaleIsDead
<1>10. TriesSuffice'
  BY <1>1, <1>2, <1>3, LeaseAssumption DEF TypeOK, TriesSuffice, GuardIsOurs, Guarded
<1>11. HolderKeepsDirectory'
  BY <1>1, <1>2, <1>3, LeaseAssumption DEF TypeOK, HolderKeepsDirectory, Known, StaleIsDead,
     ReleasedIsOld
<1> QED
  BY <1>4, <1>5, <1>6, <1>7, <1>8, <1>9, <1>10, <1>11

\* A live owner: the call ends without a lease.
LEMMA LookActiveKeeps ==
    ASSUME IInv, NEW p \in Procs, Look(p), dir[call[p].session] # None,
           OwnerAlive(dir[call[p].session])
    PROVE  IInv'
<1> USE DEF IInv
<1>1. p \in alive /\ call[p].at = "look" /\ call[p] \in LeaseCalls /\ call[p].session \in Sessions
  BY InCall DEF Look, In, LeaseCalls
<1>2. UNCHANGED <<started, alive, guard, dir, count, held, runtime, lease, running>>
  BY DEF Look, files
<1>3. /\ call' \in [Procs -> Calls] /\ \A q \in Procs : q # p => call'[q] = call[q]
      /\ call'[p].at = "unlock" /\ call'[p].session = call[p].session
      /\ call'[p].old = call[p].old /\ call'[p].result = "active"
  <2> DEFINE d == [call[p] EXCEPT !.at = "unlock", !.result = "active"]
  <2>1. call' = [call EXCEPT ![p] = d]
    BY DEF Look, At, Ending, Enter
  <2>2. /\ d \in LeaseCalls /\ d.at = "unlock" /\ d.session = call[p].session
        /\ d.old = call[p].old /\ d.result = "active"
    BY <1>1 DEF LeaseCalls
  <2> HIDE DEF d
  <2> QED
    BY <2>1, <2>2, OneCall DEF Calls
<1>4. op' \in [Procs -> [Ops -> Operations]] /\ \A q \in Procs : q # p => op'[q] = op[q]
  BY OneOp DEF Look, Operations
<1>5. TypeOK'
  BY <1>1, <1>2, <1>3, <1>4 DEF TypeOK
<1>6. GuardIsOurs'
  <2> SUFFICES ASSUME NEW q \in alive', call'[q].at \in Guarded
                PROVE  guard'[call'[q].session] = q
    BY DEF GuardIsOurs
  <2>1. q \in alive /\ q \in Procs
    BY <1>1, <1>2, <1>3, <1>4 DEF TypeOK
  <2>2. CASE q = p
    BY <1>1, <1>2, <1>3, <1>4, <2>2 DEF GuardIsOurs, Guarded
  <2>3. CASE q # p
    BY <1>1, <1>2, <1>3, <1>4, <2>1, <2>3 DEF GuardIsOurs
  <2> QED
    BY <2>2, <2>3
<1>7. DeadIsQuiet'
  BY <1>1, <1>2, <1>3, <1>4, LeaseAssumption DEF TypeOK, DeadIsQuiet
<1>8. Known'
  BY <1>1, <1>2, <1>3, <1>4, LeaseAssumption DEF TypeOK, Known
<1>9. ReleasedIsOld'
  BY <1>1, <1>2, <1>3, <1>4, LeaseAssumption DEF TypeOK, ReleasedIsOld, Known
<1>10. StaleIsDead'
  <2> SUFFICES ASSUME NEW q \in alive', call'[q].at = "reclaim"
                PROVE  dir'[call'[q].session] = None \/ dir'[call'[q].session].proc \notin alive'
    BY DEF StaleIsDead
  <2>1. q \in alive /\ q \in Procs
    BY <1>1, <1>2, <1>3, <1>4 DEF TypeOK
  <2>2. q # p
    BY <1>1, <1>2, <1>3, <1>4
  <2> QED
    BY <1>1, <1>2, <1>3, <1>4, <2>1, <2>2 DEF StaleIsDead
<1>11. TriesSuffice'
  BY <1>1, <1>2, <1>3, <1>4, LeaseAssumption DEF TypeOK, TriesSuffice, GuardIsOurs, Guarded
<1>12. HolderKeepsDirectory'
  BY <1>1, <1>2, <1>3, <1>4, LeaseAssumption DEF TypeOK, HolderKeepsDirectory, Known,
     StaleIsDead, ReleasedIsOld
<1> QED
  BY <1>5, <1>6, <1>7, <1>8, <1>9, <1>10, <1>11, <1>12

\* isLeaseOwnerAlive() is never false of a live owner.
LEMMA LookStaleKeeps ==
    ASSUME IInv, NEW p \in Procs, Look(p),
           ~(dir[call[p].session] # None /\ OwnerAlive(dir[call[p].session]))
    PROVE  IInv'
<1> USE DEF IInv
<1>1. p \in alive /\ call[p].at = "look" /\ call[p] \in LeaseCalls /\ call[p].session \in Sessions
  BY InCall DEF Look, In, LeaseCalls
<1>2. UNCHANGED <<started, alive, guard, dir, count, held, op, runtime, lease, running>>
  BY DEF Look, files
<1>3. /\ call' \in [Procs -> Calls] /\ \A q \in Procs : q # p => call'[q] = call[q]
      /\ call'[p].at = "reclaim" /\ call'[p].session = call[p].session
      /\ call'[p].old = call[p].old /\ call'[p].tries = call[p].tries
      /\ call'[p].result = call[p].result
  <2> DEFINE d == [call[p] EXCEPT !.at = "reclaim"]
  <2>1. call' = [call EXCEPT ![p] = d]
    BY DEF Look, At, Ending, Enter
  <2>2. /\ d \in LeaseCalls /\ d.at = "reclaim" /\ d.session = call[p].session
        /\ d.old = call[p].old /\ d.tries = call[p].tries
      /\ d.result = call[p].result
    BY <1>1 DEF LeaseCalls
  <2> HIDE DEF d
  <2> QED
    BY <2>1, <2>2, OneCall DEF Calls
<1>4. dir[call[p].session] = None \/ dir[call[p].session].proc \notin alive
  BY DEF OwnerAlive
<1>5. TypeOK'
  BY <1>1, <1>2, <1>3, <1>4 DEF TypeOK
<1>6. GuardIsOurs'
  BY <1>1, <1>2, <1>3, <1>4, LeaseAssumption DEF TypeOK, GuardIsOurs, Guarded
<1>7. DeadIsQuiet'
  BY <1>1, <1>2, <1>3, <1>4, LeaseAssumption DEF TypeOK, DeadIsQuiet
<1>8. Known'
  BY <1>1, <1>2, <1>3, <1>4, LeaseAssumption DEF TypeOK, Known
<1>9. ReleasedIsOld'
  BY <1>1, <1>2, <1>3, <1>4, LeaseAssumption DEF TypeOK, ReleasedIsOld, Known
<1>10. StaleIsDead'
  BY <1>1, <1>2, <1>3, <1>4, LeaseAssumption DEF TypeOK, StaleIsDead, GuardIsOurs, Guarded,
     Known
<1>11. TriesSuffice'
  BY <1>1, <1>2, <1>3, <1>4, LeaseAssumption DEF TypeOK, TriesSuffice, GuardIsOurs, Guarded
<1>12. HolderKeepsDirectory'
  BY <1>1, <1>2, <1>3, <1>4, LeaseAssumption DEF TypeOK, HolderKeepsDirectory, Known,
     StaleIsDead, ReleasedIsOld
<1> QED
  BY <1>5, <1>6, <1>7, <1>8, <1>9, <1>10, <1>11, <1>12

\* reclaimStaleLease() moves the directory of a dead process away.
LEMMA ReclaimKeeps == ASSUME IInv, NEW p \in Procs, Reclaim(p) PROVE IInv'
<1> USE DEF IInv
<1>1. p \in alive /\ call[p].at = "reclaim" /\ call[p] \in LeaseCalls /\ call[p].session \in Sessions
  BY InCall DEF Reclaim, In, LeaseCalls
<1>2. /\ UNCHANGED <<started, alive, guard, count, held, op, runtime, lease, running>>
      /\ dir' = [dir EXCEPT ![call[p].session] = None] /\ call[p].tries = 0
  BY <1>1 DEF Reclaim, TriesSuffice
<1>3. /\ call' \in [Procs -> Calls] /\ \A q \in Procs : q # p => call'[q] = call[q]
      /\ call'[p].at = "rename" /\ call'[p].session = call[p].session
      /\ call'[p].old = call[p].old
      /\ call'[p].result = call[p].result
  <2> DEFINE d == [call[p] EXCEPT !.at = "rename", !.tries = 1]
  <2>1. call' = [call EXCEPT ![p] = d]
    BY <1>1, <1>2 DEF Reclaim, Enter, LeaseCalls
  <2>2. /\ d \in LeaseCalls /\ d.at = "rename" /\ d.session = call[p].session
        /\ d.old = call[p].old /\ d.result = call[p].result
    <3>1. 1 \in 0..2
      OBVIOUS
    <3> QED
      BY <1>1, <3>1 DEF LeaseCalls
  <2> HIDE DEF d
  <2> QED
    BY <2>1, <2>2, OneCall DEF Calls
<1>4. TypeOK'
  BY <1>1, <1>2, <1>3 DEF TypeOK
<1>5. GuardIsOurs'
  BY <1>1, <1>2, <1>3, LeaseAssumption, SMTT(30) DEF TypeOK, GuardIsOurs, Guarded
<1>6. DeadIsQuiet'
  BY <1>1, <1>2, <1>3, LeaseAssumption DEF TypeOK, DeadIsQuiet
<1>7. Known'
  BY <1>1, <1>2, <1>3, LeaseAssumption DEF TypeOK, Known
<1>8. ReleasedIsOld'
  BY <1>1, <1>2, <1>3, LeaseAssumption DEF TypeOK, ReleasedIsOld, Known
<1>9. StaleIsDead'
  BY <1>1, <1>2, <1>3, LeaseAssumption DEF TypeOK, StaleIsDead, GuardIsOurs, Guarded, Known
<1>10. TriesSuffice'
  BY <1>1, <1>2, <1>3, LeaseAssumption DEF TypeOK, TriesSuffice, GuardIsOurs, Guarded
<1>11. HolderKeepsDirectory'
  BY <1>1, <1>2, <1>3, LeaseAssumption DEF TypeOK, HolderKeepsDirectory, Known, StaleIsDead,
     ReleasedIsOld
<1> QED
  BY <1>4, <1>5, <1>6, <1>7, <1>8, <1>9, <1>10, <1>11


\* Steps of the host: a process between lease calls changes its own memory and
\* at most enters a lease call; leases it released before are no longer held.
HostStep(p) ==
    /\ p \in alive /\ UNCHANGED <<started, alive, guard, dir, count>>
    /\ held' \subseteq held /\ call' \in [Procs -> Calls]
    /\ \/ call'[p] = call[p]
       \/ /\ call'[p].at = "lock" /\ call'[p].tries = 0 /\ call'[p].result = "none"
          /\ call'[p].old # None => call'[p].old \in held \ held'
    /\ op' \in [Procs -> [Ops -> Operations]]
    /\ runtime' \in [Procs -> {"none", "live", "disposed"}]
    /\ lease' \in [Procs -> Leases \cup {None}] /\ running' \in [Procs -> Sessions \cup {None}]
    /\ \A q \in Procs : q # p => /\ call'[q] = call[q] /\ op'[q] = op[q]
                                 /\ runtime'[q] = runtime[q] /\ lease'[q] = lease[q]
                                 /\ running'[q] = running[q]

\* Such steps keep the invariant.
LEMMA HostKeeps == ASSUME IInv, NEW p \in Procs, HostStep(p) PROVE IInv'
<1> USE DEF IInv
<1>1. TypeOK'
  BY DEF TypeOK, HostStep
<1>2. GuardIsOurs'
  <2> SUFFICES ASSUME NEW q \in alive', call'[q].at \in Guarded
                PROVE  guard'[call'[q].session] = q
    BY DEF GuardIsOurs
  <2>1. q \in alive /\ q \in Procs
    BY DEF HostStep, TypeOK
  <2>2. CASE q = p
    BY <2>2 DEF HostStep, GuardIsOurs, Guarded
  <2>3. CASE q # p
    BY <2>1, <2>3 DEF HostStep, GuardIsOurs
  <2> QED
    BY <2>2, <2>3
<1>3. DeadIsQuiet'
  BY LeaseAssumption DEF TypeOK, HostStep, DeadIsQuiet
<1>4. Known'
  BY LeaseAssumption DEF TypeOK, HostStep, Known
<1>5. ReleasedIsOld'
  <2> SUFFICES ASSUME NEW q \in Procs, call'[q].at \in {"lock", "remove"}, call'[q].old # None
                PROVE  call'[q].old \notin held' /\ call'[q].old.n <= count[call'[q].old.proc]
    BY DEF ReleasedIsOld, HostStep
  <2>1. CASE call'[q] = call[q]
    BY <2>1 DEF ReleasedIsOld, HostStep
  <2>2. CASE call'[q] # call[q]
    BY <2>2 DEF Known, HostStep
  <2> QED
    BY <2>1, <2>2
<1>6. StaleIsDead'
  <2> SUFFICES ASSUME NEW q \in alive', call'[q].at = "reclaim"
                PROVE  dir[call'[q].session] = None \/ dir[call'[q].session].proc \notin alive
    BY DEF StaleIsDead, HostStep
  <2>1. q \in alive /\ q \in Procs /\ call'[q] = call[q]
    BY DEF TypeOK, HostStep
  <2> QED
    BY <2>1 DEF StaleIsDead
<1>7. TriesSuffice'
  BY LeaseAssumption DEF TypeOK, HostStep, TriesSuffice, GuardIsOurs, Guarded
<1>8. HolderKeepsDirectory'
  BY LeaseAssumption DEF TypeOK, HostStep, HolderKeepsDirectory, Known, StaleIsDead,
     ReleasedIsOld
<1> QED
  BY <1>1, <1>2, <1>3, <1>4, <1>5, <1>6, <1>7, <1>8

\* release() of a lease that is still held enters a lease call, of another one
\* does nothing.
LEMMA ReleaseStep ==
    ASSUME TypeOK, NEW p \in Procs, NEW l, Release(p, l) \/ UNCHANGED <<held, call>>
    PROVE  /\ held' \subseteq held /\ held \ held' \subseteq {l} /\ call' \in [Procs -> Calls]
           /\ \A q \in Procs : q # p => call'[q] = call[q]
           /\ \/ call'[p] = call[p]
              \/ /\ call'[p].at = "lock" /\ call'[p].tries = 0 /\ call'[p].result = "none"
                 /\ call'[p].old \in held \ held'
<1>1. CASE UNCHANGED <<held, call>>
  BY <1>1 DEF TypeOK
<1>2. CASE l \in held /\ held' = held \ {l} /\ call' = [call EXCEPT ![p] = Releasing(l)]
  <2>1. l \in Leases
    BY <1>2 DEF TypeOK
  <2>2. /\ Releasing(l) \in LeaseCalls /\ Releasing(l).at = "lock" /\ Releasing(l).tries = 0
        /\ Releasing(l).result = "none" /\ Releasing(l).old = l
    BY <2>1 DEF Releasing, LeaseCalls, Leases
  <2> QED
    BY <1>2, <2>2, OneCall DEF Calls
<1> QED
  BY <1>1, <1>2 DEF Release, Enter

\* teardownCurrent() is such a step.
LEMMA TearDownIsHost ==
    ASSUME IInv, NEW p \in Procs, NEW o \in Ops, TearDown(p, o)
    PROVE  HostStep(p)
<1>1. TypeOK
  BY DEF IInv
<1>2. op' \in [Procs -> [Ops -> Operations]] /\ \A q \in Procs : q # p => op'[q] = op[q]
  <2>1. op[p][o] \in Replacements
    BY <1>1 DEF TearDown, TypeOK, Operations, NoOp
  <2>2. [op[p][o] EXCEPT !.at = "building"] \in Operations
    BY <2>1 DEF Operations, Replacements
  <2>3. op' = [op EXCEPT ![p][o] = [op[p][o] EXCEPT !.at = "building"]]
    BY <1>1 DEF TearDown, TypeOK
  <2> QED
    BY <1>1, <2>2, <2>3, OneOp
<1>3. /\ p \in alive /\ UNCHANGED <<started, alive, guard, dir, count>>
      /\ runtime' \in [Procs -> {"none", "live", "disposed"}]
      /\ lease' \in [Procs -> Leases \cup {None}]
      /\ running' \in [Procs -> Sessions \cup {None}]
      /\ \A q \in Procs : q # p => /\ runtime'[q] = runtime[q] /\ lease'[q] = lease[q]
                                   /\ running'[q] = running[q]
  BY <1>1 DEF TearDown, Free, files, TypeOK
<1>4. UNCHANGED <<held, call>> /\ call \in [Procs -> Calls]
  BY <1>1 DEF TearDown, TypeOK
<1> QED
  BY <1>2, <1>3, <1>4 DEF HostStep

\* disposeOnce() is such a step.
LEMMA DisposeIsHost == ASSUME IInv, NEW p \in Procs, Dispose(p) PROVE HostStep(p)
<1>1. TypeOK
  BY DEF IInv
<1>2. op' \in [Procs -> [Ops -> Operations]] /\ \A q \in Procs : q # p => op'[q] = op[q]
  BY <1>1 DEF Dispose, TypeOK
<1>3. /\ p \in alive /\ UNCHANGED <<started, alive, guard, dir, count>>
      /\ runtime' \in [Procs -> {"none", "live", "disposed"}]
      /\ lease' \in [Procs -> Leases \cup {None}]
      /\ running' \in [Procs -> Sessions \cup {None}]
      /\ \A q \in Procs : q # p => /\ runtime'[q] = runtime[q] /\ lease'[q] = lease[q]
                                   /\ running'[q] = running[q]
  BY <1>1 DEF Dispose, Free, files, TypeOK
<1>4. Release(p, lease[p]) \/ UNCHANGED <<held, call>>
  BY DEF Dispose
<1>5. /\ held' \subseteq held /\ call' \in [Procs -> Calls]
      /\ \A q \in Procs : q # p => call'[q] = call[q]
      /\ \/ call'[p] = call[p]
         \/ /\ call'[p].at = "lock" /\ call'[p].tries = 0 /\ call'[p].result = "none"
            /\ call'[p].old \in held \ held'
  BY <1>1, <1>4, ReleaseStep
<1> QED
  BY <1>2, <1>3, <1>5 DEF HostStep

\* releaseUncommittedLease() is such a step.
LEMMA ReplaceFailsIsHost ==
    ASSUME IInv, NEW p \in Procs, NEW o \in Ops, ReplaceFails(p, o)
    PROVE  HostStep(p)
<1>1. TypeOK
  BY DEF IInv
<1>2. op' \in [Procs -> [Ops -> Operations]] /\ \A q \in Procs : q # p => op'[q] = op[q]
  BY <1>1, OneOp DEF ReplaceFails, Operations
<1>3. /\ p \in alive /\ UNCHANGED <<started, alive, guard, dir, count>>
      /\ runtime' \in [Procs -> {"none", "live", "disposed"}]
      /\ lease' \in [Procs -> Leases \cup {None}]
      /\ running' \in [Procs -> Sessions \cup {None}]
      /\ \A q \in Procs : q # p => /\ runtime'[q] = runtime[q] /\ lease'[q] = lease[q]
                                   /\ running'[q] = running[q]
  BY <1>1 DEF ReplaceFails, Free, files, TypeOK
<1>4. Release(p, op[p][o].lease) \/ UNCHANGED <<held, call>>
  BY DEF ReplaceFails
<1>5. /\ held' \subseteq held /\ call' \in [Procs -> Calls]
      /\ \A q \in Procs : q # p => call'[q] = call[q]
      /\ \/ call'[p] = call[p]
         \/ /\ call'[p].at = "lock" /\ call'[p].tries = 0 /\ call'[p].result = "none"
            /\ call'[p].old \in held \ held'
  BY <1>1, <1>4, ReleaseStep
<1> QED
  BY <1>2, <1>3, <1>5 DEF HostStep

\* apply() and commitReplacementLease() is such a step.
LEMMA ApplyIsHost == ASSUME IInv, NEW p \in Procs, NEW o \in Ops, Apply(p, o) PROVE HostStep(p)
<1>1. TypeOK
  BY DEF IInv
<1>2. op' \in [Procs -> [Ops -> Operations]] /\ \A q \in Procs : q # p => op'[q] = op[q]
  BY <1>1, OneOp DEF Apply, Operations
<1>3. /\ p \in alive /\ UNCHANGED <<started, alive, guard, dir, count>>
      /\ runtime' \in [Procs -> {"none", "live", "disposed"}]
      /\ lease' \in [Procs -> Leases \cup {None}]
      /\ running' \in [Procs -> Sessions \cup {None}]
      /\ \A q \in Procs : q # p => /\ runtime'[q] = runtime[q] /\ lease'[q] = lease[q]
                                   /\ running'[q] = running[q]
  BY <1>1 DEF Apply, Free, files, TypeOK, Operations, Replacements, NoOp
<1>4. Release(p, lease[p]) \/ UNCHANGED <<held, call>>
  BY DEF Apply
<1>5. /\ held' \subseteq held /\ call' \in [Procs -> Calls]
      /\ \A q \in Procs : q # p => call'[q] = call[q]
      /\ \/ call'[p] = call[p]
         \/ /\ call'[p].at = "lock" /\ call'[p].tries = 0 /\ call'[p].result = "none"
            /\ call'[p].old \in held \ held'
  BY <1>1, <1>4, ReleaseStep
<1> QED
  BY <1>2, <1>3, <1>5 DEF HostStep

\* acquireReplacementLease() is such a step.
LEMMA BeginIsHost ==
    ASSUME IInv, NEW p \in Procs, NEW o \in Ops, NEW s \in Sessions, Begin(p, o, s)
    PROVE  HostStep(p)
<1>1. TypeOK
  BY DEF IInv
<1>2. op' \in [Procs -> [Ops -> Operations]] /\ \A q \in Procs : q # p => op'[q] = op[q]
  <2>1. CASE lease[p] # None /\ lease[p].session = s
    <3>1. [at |-> "tearing", session |-> s, lease |-> lease[p]] \in Operations
      BY <1>1, <2>1 DEF TypeOK, Operations, Replacements
    <3> QED
      BY <1>1, <2>1, <3>1, OneOp DEF Begin
  <2>2. CASE ~(lease[p] # None /\ lease[p].session = s)
    BY <1>1, <2>2, OneOp DEF Begin, Operations
  <2> QED
    BY <2>1, <2>2
<1>3. /\ p \in alive /\ UNCHANGED <<started, alive, guard, dir, count>>
      /\ runtime' \in [Procs -> {"none", "live", "disposed"}]
      /\ lease' \in [Procs -> Leases \cup {None}]
      /\ running' \in [Procs -> Sessions \cup {None}]
      /\ \A q \in Procs : q # p => /\ runtime'[q] = runtime[q] /\ lease'[q] = lease[q]
                                   /\ running'[q] = running[q]
  BY <1>1 DEF Begin, Free, files, TypeOK
<1>4. /\ held' \subseteq held /\ call' \in [Procs -> Calls]
      /\ \A q \in Procs : q # p => call'[q] = call[q]
      /\ \/ call'[p] = call[p]
         \/ /\ call'[p].at = "lock" /\ call'[p].tries = 0 /\ call'[p].result = "none"
            /\ call'[p].old = None
  <2>1. /\ Acquiring(o, s) \in LeaseCalls /\ Acquiring(o, s).at = "lock"
        /\ Acquiring(o, s).tries = 0
        /\ Acquiring(o, s).result = "none" /\ Acquiring(o, s).old = None
    BY DEF Acquiring, LeaseCalls
  <2>2. UNCHANGED held /\ (UNCHANGED call \/ call' = [call EXCEPT ![p] = Acquiring(o, s)])
    BY DEF Begin, Enter
  <2> QED
    BY <1>1, <2>1, <2>2, OneCall DEF Calls, TypeOK
<1> QED
  BY <1>2, <1>3, <1>4 DEF HostStep

-----------------------------------------------------------------------------
(* The invariant and what follows from it *)

\* Every step keeps the invariant.
LEMMA StepKeeps == IInv /\ [Next]_vars => IInv'
<1> SUFFICES ASSUME IInv, [Next]_vars PROVE IInv'
  OBVIOUS
<1>1. CASE UNCHANGED vars
  BY <1>1 DEF vars, IInv, TypeOK, GuardIsOurs, DeadIsQuiet, Known, ReleasedIsOld, StaleIsDead,
     TriesSuffice, HolderKeepsDirectory
<1>2. ASSUME NEW p \in Procs, Start(p) \/ Kill(p) PROVE IInv'
  BY <1>2, StartKeeps, KillKeeps
<1>3. ASSUME NEW p \in Procs, Call(p) PROVE IInv'
  BY <1>3, LockKeeps, LockTimeoutKeeps, RenameLeasesKeeps, RenameFailsKeeps, LookActiveKeeps,
     LookStaleKeeps, ReclaimKeeps, RemoveKeeps, UnlockKeeps DEF Call
<1>4. ASSUME NEW p \in Procs, Dispose(p) PROVE IInv'
  BY <1>4, DisposeIsHost, HostKeeps
<1>5. ASSUME NEW p \in Procs, NEW o \in Ops, TearDown(p, o) \/ ReplaceFails(p, o) \/ Apply(p, o)
      PROVE  IInv'
  BY <1>5, TearDownIsHost, ReplaceFailsIsHost, ApplyIsHost, HostKeeps
<1>6. ASSUME NEW p \in Procs, NEW o \in Ops, NEW s \in Sessions, Begin(p, o, s) PROVE IInv'
  BY <1>6, BeginIsHost, HostKeeps
<1> QED
  BY <1>1, <1>2, <1>3, <1>4, <1>5, <1>6 DEF Next

\* The invariant holds in every state.
LEMMA Invariance == Spec => []IInv
<1> QED
  BY Begins, StepKeeps, PTL DEF Spec

\* acquireSessionLease(), release() and withLeaseGuard() keep the state well
\* typed.
THEOREM TypeCorrect == Spec => []TypeOK
<1>1. IInv => TypeOK
  BY DEF IInv
<1> QED
  BY <1>1, Invariance, PTL

\* Whatever processes are killed at whatever step and whichever pids are used
\* again, the directory of a lease that a live process holds is never moved away
\* by reclaimStaleLease() or by the release of another lease.
THEOREM LeaseIsKept == Spec => []HolderKeepsDirectory
<1>1. IInv => HolderKeepsDirectory
  BY DEF IInv
<1> QED
  BY <1>1, Invariance, PTL

\* The three tries of acquireSessionLease() are enough.
THEOREM AcquisitionEnds == Spec => []AcquisitionDecides
<1>1. IInv => AcquisitionDecides
  BY DEF IInv, TriesSuffice, AcquisitionDecides
<1> QED
  BY <1>1, Invariance, PTL

-----------------------------------------------------------------------------
(* One writer, when a runtime makes one replacement at a time *)

\* A runtime makes one replacement at a time.
OneReplacement == \A o1, o2 \in Ops : o1 = o2

WInv == IInv /\ OwnLeases /\ RunsUnderLease

\* At the start no runtime has a session.
LEMMA WBegins == Init => WInv
BY Begins DEF WInv, Init, OwnLeases, RunsUnderLease, NoOp

\* A process that starts has no session.
LEMMA StartLeases ==
    ASSUME OneReplacement, WInv, NEW p \in Procs, Start(p)
    PROVE  (OwnLeases /\ RunsUnderLease)'
<1> USE LeaseAssumption DEF WInv, IInv, NoOp
<1>1. OwnLeases'
  BY DEF OwnLeases, TypeOK, Operations, Replacements, Start, files, host, DeadIsQuiet
<1>2. RunsUnderLease'
  BY DEF OwnLeases, RunsUnderLease, TypeOK, Operations, Replacements, Start, files, host,
     DeadIsQuiet
<1> QED
  BY <1>1, <1>2

\* The leases of other processes are not the killed one's.
LEMMA KillLeases ==
    ASSUME OneReplacement, WInv, NEW p \in Procs, Kill(p)
    PROVE  (OwnLeases /\ RunsUnderLease)'
<1> USE LeaseAssumption DEF WInv, IInv, NoOp
<1>1. OwnLeases'
  BY DEF OwnLeases, TypeOK, Operations, Replacements, Kill, files, Leases
<1>2. RunsUnderLease'
  BY DEF OwnLeases, RunsUnderLease, TypeOK, Operations, Replacements, Kill, files, Leases
<1> QED
  BY <1>1, <1>2

\* Locking the guard changes no lease that is held.
LEMMA LockLeases ==
    ASSUME OneReplacement, WInv, NEW p \in Procs, Lock(p)
    PROVE  (OwnLeases /\ RunsUnderLease)'
<1> USE LeaseAssumption DEF WInv, IInv, NoOp
<1>1. OwnLeases'
  BY DEF OwnLeases, TypeOK, Operations, Replacements, Lock, In, host
<1>2. RunsUnderLease'
  BY DEF OwnLeases, RunsUnderLease, TypeOK, Operations, Replacements, Lock, In, host
<1> QED
  BY <1>1, <1>2

\* A lock that times out changes no lease that is held.
LEMMA LockTimeoutLeases ==
    ASSUME OneReplacement, WInv, NEW p \in Procs, LockTimeout(p)
    PROVE  (OwnLeases /\ RunsUnderLease)'
<1> USE LeaseAssumption DEF WInv, IInv, NoOp
<1>1. OwnLeases'
  BY DEF OwnLeases, TypeOK, Operations, Replacements, LockTimeout, In, files
<1>2. RunsUnderLease'
  BY DEF OwnLeases, RunsUnderLease, TypeOK, Operations, Replacements, LockTimeout, In, files
<1> QED
  BY <1>1, <1>2

\* A rename that fails changes no lease that is held.
LEMMA RenameFailsLeases ==
    ASSUME OneReplacement, WInv, NEW p \in Procs, Rename(p), dir[call[p].session] # None
    PROVE  (OwnLeases /\ RunsUnderLease)'
<1> USE LeaseAssumption DEF WInv, IInv, NoOp
<1>1. OwnLeases'
  BY DEF OwnLeases, TypeOK, Operations, Replacements, Rename, In
<1>2. RunsUnderLease'
  BY DEF OwnLeases, RunsUnderLease, TypeOK, Operations, Replacements, Rename, In
<1> QED
  BY <1>1, <1>2

\* A live owner that is met changes no lease that is held.
LEMMA LookActiveLeases ==
    ASSUME OneReplacement, WInv, NEW p \in Procs, Look(p), dir[call[p].session] # None,
           OwnerAlive(dir[call[p].session])
    PROVE  (OwnLeases /\ RunsUnderLease)'
<1> USE LeaseAssumption DEF WInv, IInv, NoOp
<1>1. \A q \in Procs, k \in Ops : op'[q][k] = op[q][k] \/ op'[q][k] = NoOp
  BY SMTT(30) DEF Look, TypeOK
<1>2. UNCHANGED <<alive, held, runtime, lease, running>>
  BY DEF Look, files
<1>3. OwnLeases'
  BY <1>1, <1>2 DEF OwnLeases
<1>4. RunsUnderLease'
  BY <1>1, <1>2 DEF OwnLeases, RunsUnderLease
<1> QED
  BY <1>3, <1>4

\* A stale owner that is met changes no lease that is held.
LEMMA LookStaleLeases ==
    ASSUME OneReplacement, WInv, NEW p \in Procs, Look(p),
           ~(dir[call[p].session] # None /\ OwnerAlive(dir[call[p].session]))
    PROVE  (OwnLeases /\ RunsUnderLease)'
<1> USE LeaseAssumption DEF WInv, IInv, NoOp
<1>1. OwnLeases'
  BY DEF OwnLeases, TypeOK, Operations, Replacements, Look, In, files
<1>2. RunsUnderLease'
  BY DEF OwnLeases, RunsUnderLease, TypeOK, Operations, Replacements, Look, In, files
<1> QED
  BY <1>1, <1>2

\* Reclaiming changes no lease that is held.
LEMMA ReclaimLeases ==
    ASSUME OneReplacement, WInv, NEW p \in Procs, Reclaim(p)
    PROVE  (OwnLeases /\ RunsUnderLease)'
<1> USE LeaseAssumption DEF WInv, IInv, NoOp
<1>1. \A q \in Procs, k \in Ops : op'[q][k] = op[q][k] \/ op'[q][k] = NoOp
  BY DEF Reclaim, TypeOK
<1>2. UNCHANGED <<alive, held, runtime, lease, running>>
  BY DEF Reclaim
<1>3. OwnLeases'
  BY <1>1, <1>2 DEF OwnLeases
<1>4. RunsUnderLease'
  BY <1>1, <1>2 DEF OwnLeases, RunsUnderLease
<1> QED
  BY <1>3, <1>4

\* Removing the directory changes no lease that is held.
LEMMA RemoveLeases ==
    ASSUME OneReplacement, WInv, NEW p \in Procs, Remove(p)
    PROVE  (OwnLeases /\ RunsUnderLease)'
<1> USE LeaseAssumption DEF WInv, IInv, NoOp
<1>1. OwnLeases'
  BY DEF OwnLeases, TypeOK, Operations, Replacements, Remove, In, host
<1>2. RunsUnderLease'
  BY DEF OwnLeases, RunsUnderLease, TypeOK, Operations, Replacements, Remove, In, host
<1> QED
  BY <1>1, <1>2

\* Unlocking changes no lease that is held.
LEMMA UnlockLeases ==
    ASSUME OneReplacement, WInv, NEW p \in Procs, Unlock(p)
    PROVE  (OwnLeases /\ RunsUnderLease)'
<1> USE LeaseAssumption DEF WInv, IInv, NoOp
<1>1. OwnLeases'
  BY DEF OwnLeases, TypeOK, Operations, Replacements, Unlock, In, host
<1>2. RunsUnderLease'
  BY DEF OwnLeases, RunsUnderLease, TypeOK, Operations, Replacements, Unlock, In, host
<1> QED
  BY <1>1, <1>2

\* The new lease is held by the process that made it, for the session it asked for.
LEMMA RenameLeasesLeases ==
    ASSUME OneReplacement, WInv, NEW p \in Procs, Rename(p), dir[call[p].session] = None
    PROVE  (OwnLeases /\ RunsUnderLease)'
<1> USE LeaseAssumption DEF WInv, IInv, NoOp
<1>1. PICK l : /\ l.proc = p /\ l.session = call[p].session /\ held' = held \cup {l}
               /\ UNCHANGED <<alive, runtime, lease, running>>
               /\ op' = [op EXCEPT ![p][call[p].for] =
                           [at |-> IF runtime[p] = "none" THEN "building" ELSE "tearing",
                            session |-> call[p].session, lease |-> l]]
  BY DEF Rename
<1>2. \A q \in Procs, k \in Ops : \/ op'[q][k] = op[q][k]
                                  \/ /\ q = p /\ op'[q][k].lease = l
                                     /\ op'[q][k].session = call[p].session
  BY <1>1 DEF TypeOK
<1>3. OwnLeases'
  BY <1>1, <1>2 DEF OwnLeases
<1>4. RunsUnderLease'
  BY <1>1, <1>2 DEF OwnLeases, RunsUnderLease
<1> QED
  BY <1>3, <1>4

\* After disposeOnce() the runtime uses no session.
LEMMA DisposeLeases ==
    ASSUME OneReplacement, WInv, NEW p \in Procs, Dispose(p)
    PROVE  (OwnLeases /\ RunsUnderLease)'
<1> USE LeaseAssumption DEF WInv, IInv, NoOp
<1>1. OwnLeases'
  BY DEF OwnLeases, TypeOK, Operations, Replacements, Dispose, Free, Release
<1>2. RunsUnderLease'
  BY DEF OwnLeases, RunsUnderLease, TypeOK, Operations, Replacements, Dispose, Free, Release
<1> QED
  BY <1>1, <1>2

\* Between the sessions the lease of the next is held.
LEMMA TearDownLeases ==
    ASSUME OneReplacement, WInv, NEW p \in Procs, NEW o \in Ops, TearDown(p, o)
    PROVE  (OwnLeases /\ RunsUnderLease)'
<1> USE LeaseAssumption DEF WInv, IInv, NoOp
<1>1. OwnLeases'
  BY DEF OwnLeases, TypeOK, Operations, Replacements, TearDown, Free
<1>2. RunsUnderLease'
  BY DEF OwnLeases, RunsUnderLease, TypeOK, Operations, Replacements, TearDown, Free
<1> QED
  BY <1>1, <1>2

\* The lease given back is not the runtime's own, and no other replacement has it.
LEMMA ReplaceFailsLeases ==
    ASSUME OneReplacement, WInv, NEW p \in Procs, NEW o \in Ops, ReplaceFails(p, o)
    PROVE  (OwnLeases /\ RunsUnderLease)'
<1> USE LeaseAssumption DEF WInv, IInv, NoOp
<1>1. \A q \in Procs, k \in Ops : (op'[q][k] = op[q][k] /\ q # p) \/ op'[q][k] = NoOp
  BY DEF ReplaceFails, TypeOK, OneReplacement
<1>2. /\ UNCHANGED <<alive, runtime, lease, running>> /\ held' \subseteq held
      /\ \A l \in held \ held' : l.proc = p /\ l # lease[p]
  BY DEF ReplaceFails, Release, OwnLeases
<1>3. OwnLeases'
  BY <1>1, <1>2 DEF OwnLeases
<1>4. RunsUnderLease'
  BY <1>1, <1>2 DEF OwnLeases, RunsUnderLease
<1> QED
  BY <1>3, <1>4

\* The lease given back is not that of the session applied, and no other
\* replacement has it.
LEMMA ApplyLeases ==
    ASSUME OneReplacement, WInv, NEW p \in Procs, NEW o \in Ops, Apply(p, o)
    PROVE  (OwnLeases /\ RunsUnderLease)'
<1> USE LeaseAssumption DEF WInv, IInv, NoOp
<1>1. OwnLeases'
  BY DEF OwnLeases, TypeOK, Operations, Replacements, Apply, Free, Release, OneReplacement
<1>2. RunsUnderLease'
  BY SMTT(30) DEF OwnLeases, RunsUnderLease, TypeOK, Operations, Replacements, Apply, Free, Release,
     OneReplacement
<1> QED
  BY <1>1, <1>2

\* The lease of the present session is used again only while it is held.
LEMMA BeginLeases ==
    ASSUME OneReplacement, WInv, NEW p \in Procs, NEW o \in Ops, NEW s \in Sessions, Begin(p, o, s)
    PROVE  (OwnLeases /\ RunsUnderLease)'
<1> USE LeaseAssumption DEF WInv, IInv, NoOp
<1>1. UNCHANGED <<alive, held, runtime, lease, running>> /\ runtime[p] # "disposed"
  BY DEF Begin
<1>2. \A q \in Procs, k \in Ops : \/ op'[q][k] = op[q][k] \/ op'[q][k].at = "acquiring"
                                  \/ /\ q = p /\ lease[p] # None /\ op'[q][k].lease = lease[p]
                                     /\ op'[q][k].session = lease[p].session
  BY DEF Begin, TypeOK
<1>3. OwnLeases'
  BY <1>1, <1>2 DEF OwnLeases
<1>4. RunsUnderLease'
  BY <1>1, <1>2 DEF OwnLeases, RunsUnderLease
<1> QED
  BY <1>3, <1>4

\* Every step keeps a runtime's sessions under its leases.
LEMMA StepKeepsLeases == ASSUME OneReplacement PROVE WInv /\ [Next]_vars => WInv'
<1> SUFFICES ASSUME WInv, [Next]_vars PROVE (OwnLeases /\ RunsUnderLease)'
  BY StepKeeps DEF WInv
<1>1. CASE UNCHANGED vars
  BY <1>1 DEF vars, WInv, OwnLeases, RunsUnderLease
<1>2. ASSUME NEW p \in Procs, Start(p) \/ Kill(p) PROVE (OwnLeases /\ RunsUnderLease)'
  BY <1>2, StartLeases, KillLeases
<1>3. ASSUME NEW p \in Procs, Call(p) PROVE (OwnLeases /\ RunsUnderLease)'
  BY <1>3, LockLeases, LockTimeoutLeases, RenameLeasesLeases, RenameFailsLeases,
     LookActiveLeases,
     LookStaleLeases, ReclaimLeases, RemoveLeases, UnlockLeases DEF Call
<1>4. ASSUME NEW p \in Procs, Dispose(p) PROVE (OwnLeases /\ RunsUnderLease)'
  BY <1>4, DisposeLeases
<1>5. ASSUME NEW p \in Procs, NEW o \in Ops, TearDown(p, o) \/ ReplaceFails(p, o) \/ Apply(p, o)
      PROVE  (OwnLeases /\ RunsUnderLease)'
  BY <1>5, TearDownLeases, ReplaceFailsLeases, ApplyLeases
<1>6. ASSUME NEW p \in Procs, NEW o \in Ops, NEW s \in Sessions, Begin(p, o, s)
      PROVE  (OwnLeases /\ RunsUnderLease)'
  BY <1>6, BeginLeases
<1> QED
  BY <1>1, <1>2, <1>3, <1>4, <1>5, <1>6 DEF Next

\* Two sessions in use under leases that are held are two directories.
LEMMA LeasesSeparate == WInv => OneWriter
<1> SUFFICES ASSUME WInv, NEW p \in alive, NEW q \in alive, p # q,
                    NEW s \in Uses(p), s \in Uses(q)
             PROVE  FALSE
  BY DEF OneWriter
<1>1. ASSUME NEW r \in alive, s \in Uses(r)
      PROVE  s \in Sessions /\ \E l \in held : l.proc = r /\ l.session = s
  <2>1. r \in Procs /\ runtime[r] # "disposed"
    BY <1>1 DEF Uses, WInv, IInv, TypeOK
  <2>2. CASE s = running[r] /\ s # None
    <3>1. running[r] \in Sessions
      BY <2>1, <2>2 DEF WInv, IInv, TypeOK
    <3>2. lease[r] \in held /\ lease[r].session = s
      BY <2>1, <2>2 DEF WInv, RunsUnderLease
    <3>3. lease[r].proc = r
      BY <2>1, <2>2 DEF WInv, OwnLeases, RunsUnderLease
    <3> QED
      BY <2>2, <3>1, <3>2, <3>3
  <2>3. CASE \E o \in Ops : op[r][o].at = "building" /\ s = op[r][o].session
    <3>1. PICK o \in Ops : op[r][o].at = "building" /\ s = op[r][o].session
      BY <2>3
    <3>2. op[r][o] \in Replacements
      BY <2>1, <3>1 DEF WInv, IInv, TypeOK, Operations, NoOp
    <3> QED
      BY <2>1, <3>1, <3>2 DEF WInv, Replacements, OwnLeases, RunsUnderLease
  <2> QED
    BY <1>1, <2>1, <2>2, <2>3 DEF Uses
<1>2. PICK k \in held : k.proc = p /\ k.session = s
  BY <1>1
<1>3. PICK l \in held : l.proc = q /\ l.session = s
  BY <1>1
<1>4. dir[s] = k /\ dir[s] = l
  BY <1>2, <1>3 DEF WInv, IInv, HolderKeepsDirectory
<1> QED
  BY <1>2, <1>3, <1>4

\* While every runtime makes one replacement at a time, no two live processes run
\* or start the same session.  (With overlapping replacements in one runtime they
\* may: run session_switch.)
THEOREM SingleWriter == ASSUME OneReplacement PROVE Spec => []OneWriter
<1>1. WInv /\ [Next]_vars => WInv'
  BY StepKeepsLeases
<1> QED
  BY <1>1, WBegins, LeasesSeparate, PTL DEF Spec
=============================================================================
