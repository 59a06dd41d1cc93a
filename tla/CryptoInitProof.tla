-------------------------- MODULE CryptoInitProof ---------------------------
(***************************************************************************)
(* CryptoInit's safety properties for any set of threads, any number of    *)
(* columns and any number of calls.  The argument has three layers: the    *)
(* types; then the lock (who holds the mutex and what the flag beside it   *)
(* says at each point); then the data, where the lock is what makes each   *)
(* thread's local knowledge of the globals stable.                         *)
(***************************************************************************)
EXTENDS CryptoInit, TLAPS

\* The points from which CRYPTO_crit_enter has set the flag and
\* CRYPTO_crit_leave has not cleared it.
FlaggedPCs == HoldingPCs \ {"locked", "unlock"}

InitPCs == {"zeroed", "vendor", "table", "fill", "rand", "set"}

\* The mutex has the one holder the program counters say it has, and the
\* flag is set exactly between the holder's two updates of it.
LockInv ==
  /\ \A t \in Threads : pc[t] \in HoldingPCs <=> mutex = t
  /\ \A t \in Threads : pc[t] \in FlaggedPCs => locked = 1
  /\ \A t \in Threads : pc[t] \in {"locked", "unlock"} => locked = 0
  /\ mutex = NoThread => locked = 0

\* Each call's steps belong to that call, and no call fails.
CallInv ==
  /\ \A t \in Threads : pc[t] \in {"idle", "use"} => op[t] = "none"
  /\ \A t \in Threads : pc[t] \in InitPCs => op[t] = "init"
  /\ NoCallFails

\* A thread that has been let through by CRYPTO_init, or is about to be.
Served(t) == session[t] \/ (op[t] = "init" /\ pc[t] \in {"leave", "unlock"})

\* What the initialising thread knows at each of its steps, what the flag
\* and the threads let through by it may rely on.
DataInv ==
  /\ \A t \in Threads : pc[t] \in InitPCs => initialized = 0
  /\ \A t \in Threads : pc[t] \in InitPCs \ DetectingPCs => cpu_info = "features"
  /\ \A t \in Threads : pc[t] = "fill" => storage = "allocated" /\ rows < Rows
  /\ \A t \in Threads : pc[t] \in {"rand", "set"} => TableBuilt
  /\ \A t \in Threads : pc[t] = "set" => rand_impl = "sys"
  /\ storage = "null" => rows = 0
  /\ storage = "allocated" => rows = Rows \/ \E t \in Threads : pc[t] = "fill"
  /\ initialized = 1 => TableBuilt /\ rand_impl = "sys" /\ cpu_info = "features"
  /\ \A t \in Threads : Served(t) => TableBuilt /\ rand_impl = "sys"
  /\ \A t \in Threads : Served(t) /\ cpu_info # "features" =>
       \E u \in Threads : pc[u] \in DetectingPCs

IInv == TypeOK /\ LockInv /\ CallInv /\ DataInv

----------------------------------------------------------------------------
\* Every variable keeps its type: in particular the table never has more
\* columns written than it has (secp256k1.c:368).
LEMMA TypeStep ==
  ASSUME TypeOK, DataInv, [Next]_vars
  PROVE  TypeOK'
<1> USE RowsAssumption, MaxCallsAssumption DEF TypeOK, PCs, Ops, Goto, vars, lockVars, libVars, clientVars
<1>1. ASSUME NEW t \in Threads, NEW o \in Ops, Call(t, o) PROVE TypeOK'
  <2>1. calls' \in [Threads -> 0..MaxCalls]
    BY <1>1 DEF Call
  <2>2. QED
    BY <1>1, <2>1 DEF Call
<1>5. ASSUME NEW t \in Threads, BeginUse(t) PROVE TypeOK'
  <2>1. calls' \in [Threads -> 0..MaxCalls]
    BY <1>5 DEF BeginUse
  <2>2. QED
    BY <1>5, <2>1 DEF BeginUse
<1>2. ASSUME NEW t \in Threads, LibStep(t) PROVE TypeOK'
  <2>1. CASE EndUse(t) \/ MutexLock(t) \/ SetLocked(t)
    BY <2>1 DEF EndUse, MutexLock, SetLocked
  <2>2. CASE Leave(t)
    BY <2>2 DEF Leave
  <2>3. CASE MutexUnlock(t)
    <3>1. session' \in [Threads -> BOOLEAN]
      BY <2>3, Zenon DEF MutexUnlock
    <3>2. QED
      BY <2>3, <3>1 DEF MutexUnlock
  <2>4. CASE InitAlready(t) \/ CpuZero(t) \/ CpuVendor(t) \/ CpuFeatures(t)
    BY <2>4 DEF InitAlready, CpuZero, CpuVendor, CpuFeatures
  <2>5. CASE TablePresent(t) \/ TableAlloc(t)
    BY <2>5 DEF TablePresent, TableAlloc
  <2>9. CASE TableAllocFails(t)
    BY <2>9 DEF TableAllocFails
  <2>6. CASE TableFill(t)
    <3>1. rows < Rows
      BY <2>6 DEF TableFill, DataInv
    <3>2. rows' \in 0..Rows
      BY <2>6, <3>1 DEF TableFill
    <3>3. QED
      BY <2>6, <3>2 DEF TableFill
  <2>7. CASE ChooseRand(t) \/ SetInitialized(t) \/ DeinitAlready(t) \/ Deinit(t) \/ Section(t)
    BY <2>7 DEF ChooseRand, SetInitialized, DeinitAlready, Deinit, Section
  <2>8. QED
    BY <1>2, <2>1, <2>2, <2>3, <2>4, <2>5, <2>6, <2>7, <2>9 DEF LibStep
<1>3. CASE UNCHANGED vars
  BY <1>3
<1>4. QED
  BY <1>1, <1>2, <1>3, <1>5 DEF Next, Finished, CallStep

----------------------------------------------------------------------------
\* One thread at a time between the two ends of the critical section, and
\* the flag follows the mutex (init.c:87-110).
LEMMA LockStep ==
  ASSUME TypeOK, LockInv, [Next]_vars
  PROVE  LockInv'
<1> USE NoThreadAssumption
    DEF TypeOK, LockInv, HoldingPCs, FlaggedPCs, PCs, Goto, vars, lockVars, libVars, clientVars
<1>1. ASSUME NEW t \in Threads, NEW o \in Ops, Call(t, o) PROVE LockInv'
  BY <1>1 DEF Call
<1>2. ASSUME NEW t \in Threads, BeginUse(t) PROVE LockInv'
  BY <1>2 DEF BeginUse
<1>3. ASSUME NEW t \in Threads, LibStep(t) PROVE LockInv'
  <2>1. CASE EndUse(t)
    BY <2>1 DEF EndUse
  <2>2. CASE MutexLock(t)
    BY <2>2 DEF MutexLock
  <2>3. CASE SetLocked(t)
    BY <2>3 DEF SetLocked
  <2>4. CASE Leave(t)
    BY <2>4 DEF Leave
  <2>5. CASE MutexUnlock(t)
    BY <2>5 DEF MutexUnlock
  <2>6. CASE InitAlready(t) \/ DeinitAlready(t) \/ Deinit(t) \/ Section(t)
    BY <2>6 DEF InitAlready, DeinitAlready, Deinit, Section
  <2>7. CASE CpuZero(t) \/ CpuVendor(t) \/ CpuFeatures(t)
    BY <2>7 DEF CpuZero, CpuVendor, CpuFeatures
  <2>8. CASE TablePresent(t) \/ TableAlloc(t)
    BY <2>8 DEF TablePresent, TableAlloc
  <2>9. CASE TableAllocFails(t)
    BY <2>9 DEF TableAllocFails
  <2>10. CASE TableFill(t)
    BY <2>10 DEF TableFill
  <2>11. CASE ChooseRand(t) \/ SetInitialized(t)
    BY <2>11 DEF ChooseRand, SetInitialized
  <2>12. QED
    BY <1>3, <2>1, <2>2, <2>3, <2>4, <2>5, <2>6, <2>7, <2>8, <2>9, <2>10, <2>11 DEF LibStep
<1>4. CASE UNCHANGED vars
  BY <1>4
<1>5. QED
  BY <1>1, <1>2, <1>3, <1>4 DEF Next, Finished, CallStep

\* A leave is reached only with the flag set, so the EPERM return is not
\* taken (init.c:101).
LEMMA CallStepInv ==
  ASSUME TypeOK, LockInv, CallInv, [Next]_vars
  PROVE  CallInv'
<1> USE DEF TypeOK, CallInv, NoCallFails, InitPCs, PCs, Ops, Goto, vars, lockVars, libVars, clientVars
<1>1. ASSUME NEW t \in Threads, NEW o \in Ops, Call(t, o) PROVE CallInv'
  BY <1>1 DEF Call
<1>2. ASSUME NEW t \in Threads, BeginUse(t) PROVE CallInv'
  BY <1>2 DEF BeginUse
<1>3. ASSUME NEW t \in Threads, LibStep(t) PROVE CallInv'
  <2>1. CASE EndUse(t) \/ MutexLock(t) \/ SetLocked(t)
    BY <2>1 DEF EndUse, MutexLock, SetLocked
  <2>2. CASE Leave(t)
    <3>1. locked # 0
      BY <2>2 DEF Leave, LockInv, FlaggedPCs, HoldingPCs
    <3>2. QED
      BY <2>2, <3>1 DEF Leave
  <2>3. CASE MutexUnlock(t)
    BY <2>3 DEF MutexUnlock
  <2>4. CASE InitAlready(t) \/ DeinitAlready(t) \/ Deinit(t) \/ Section(t)
    BY <2>4 DEF InitAlready, DeinitAlready, Deinit, Section
  <2>5. CASE CpuZero(t) \/ CpuVendor(t) \/ CpuFeatures(t)
    BY <2>5 DEF CpuZero, CpuVendor, CpuFeatures
  <2>6. CASE TablePresent(t) \/ TableAlloc(t)
    BY <2>6 DEF TablePresent, TableAlloc
  <2>7. CASE TableAllocFails(t)
    BY <2>7 DEF TableAllocFails
  <2>8. CASE TableFill(t)
    BY <2>8 DEF TableFill
  <2>9. CASE ChooseRand(t) \/ SetInitialized(t)
    BY <2>9 DEF ChooseRand, SetInitialized
  <2>10. QED
    BY <1>3, <2>1, <2>2, <2>3, <2>4, <2>5, <2>6, <2>7, <2>8, <2>9 DEF LibStep
<1>4. CASE UNCHANGED vars
  BY <1>4
<1>5. QED
  BY <1>1, <1>2, <1>3, <1>4 DEF Next, Finished, CallStep

----------------------------------------------------------------------------
\* The heart of the argument: of the threads between enter and leave there is
\* one, so what the initialising thread has established stays true until its
\* next step; what a served thread relies on is never undone, because deinit
\* frees nothing and table_gen does nothing over a present table.
LEMMA DataStep ==
  ASSUME TypeOK, LockInv, CallInv, DataInv, [Next]_vars
  PROVE  DataInv'
<1> USE RowsAssumption
    DEF TypeOK, CallInv, DataInv, Served, TableBuilt, HoldingPCs, DetectingPCs, InitPCs, PCs, Ops,
        Goto, vars, lockVars, libVars, clientVars
<1>a. \A t, u \in Threads : pc[t] \in HoldingPCs /\ pc[u] \in HoldingPCs => t = u
  BY DEF LockInv
<1>1. ASSUME NEW t \in Threads, NEW o \in Ops, Call(t, o) PROVE DataInv'
  BY <1>1 DEF Call
<1>2. ASSUME NEW t \in Threads, BeginUse(t) PROVE DataInv'
  BY <1>2 DEF BeginUse
<1>3. ASSUME NEW t \in Threads, LibStep(t) PROVE DataInv'
  <2>1. CASE EndUse(t)
    BY <1>a, <2>1 DEF EndUse
  <2>2. CASE MutexLock(t)
    BY <1>a, <2>2 DEF MutexLock
  <2>3. CASE SetLocked(t)
    BY <1>a, <2>3 DEF SetLocked
  <2>4. CASE Leave(t)
    BY <1>a, <2>4 DEF Leave
  <2>5. CASE MutexUnlock(t)
    BY <1>a, <2>5 DEF MutexUnlock
  <2>6. CASE InitAlready(t)
    BY <1>a, <2>6 DEF InitAlready
  <2>7. CASE CpuZero(t)
    BY <1>a, <2>7 DEF CpuZero
  <2>8. CASE CpuVendor(t)
    BY <1>a, <2>8 DEF CpuVendor
  <2>9. CASE CpuFeatures(t)
    BY <1>a, <2>9 DEF CpuFeatures
  <2>10. CASE TablePresent(t)
    BY <1>a, <2>10 DEF TablePresent
  <2>11. CASE TableAlloc(t)
    BY <1>a, <2>11 DEF TableAlloc
  <2>12. CASE TableAllocFails(t)
    BY <1>a, <2>12 DEF TableAllocFails
  <2>13. CASE TableFill(t)
    BY <1>a, <2>13 DEF TableFill
  <2>14. CASE ChooseRand(t)
    BY <1>a, <2>14 DEF ChooseRand
  <2>15. CASE SetInitialized(t)
    BY <1>a, <2>15 DEF SetInitialized
  <2>16. CASE DeinitAlready(t)
    BY <1>a, <2>16 DEF DeinitAlready
  <2>17. CASE Deinit(t)
    BY <1>a, <2>17 DEF Deinit
  <2>18. CASE Section(t)
    BY <1>a, <2>18 DEF Section
  <2>19. QED
    BY <1>3, <2>1, <2>2, <2>3, <2>4, <2>5, <2>6, <2>7, <2>8, <2>9, <2>10, <2>11, <2>12, <2>13, <2>14, <2>15, <2>16, <2>17, <2>18 DEF LibStep
<1>4. CASE UNCHANGED vars
  BY <1>4
<1>5. QED
  BY <1>1, <1>2, <1>3, <1>4 DEF Next, Finished, CallStep

----------------------------------------------------------------------------
\* A process that has called nothing yet.
LEMMA InitIInv == Init => IInv
<1> SUFFICES ASSUME Init PROVE IInv
  OBVIOUS
<1> USE DEF Init, PCs, Ops
<1>1. TypeOK
  <2>1. calls \in [Threads -> 0..MaxCalls]
    BY MaxCallsAssumption
  <2>2. session \in [Threads -> BOOLEAN] /\ aborted \in BOOLEAN
    BY Zenon
  <2>3. rows \in 0..Rows
    BY RowsAssumption
  <2>4. QED
    BY <2>1, <2>2, <2>3 DEF TypeOK
<1>2. LockInv
  BY NoThreadAssumption DEF LockInv, HoldingPCs, FlaggedPCs
<1>3. CallInv
  BY DEF CallInv, NoCallFails, InitPCs
<1>4. DataInv
  BY DEF DataInv, Served, InitPCs, DetectingPCs
<1>5. QED
  BY <1>1, <1>2, <1>3, <1>4 DEF IInv

\* Every step of every thread.
LEMMA NextIInv == IInv /\ [Next]_vars => IInv'
  BY TypeStep, LockStep, CallStepInv, DataStep DEF IInv

\* The inductive invariant holds of every execution of init.c.
THEOREM Invariance == Spec => []IInv
<1>1. QED
  BY InitIInv, NextIInv, PTL DEF Spec

\* Variables keep their types for any number of threads (init.c:29-30).
THEOREM TypeCorrect == Spec => []TypeOK
<1>1. IInv => TypeOK
  BY DEF IInv
<1>2. QED
  BY <1>1, Invariance, PTL

\* crit_enter and crit_leave give mutual exclusion (init.c:87-110).
THEOREM MutualExclusionHolds == Spec => []MutualExclusion
<1>1. IInv => MutualExclusion
  BY DEF IInv, LockInv, MutualExclusion
<1>2. QED
  BY <1>1, Invariance, PTL

\* The assertion of init.c:93 can not fail.
THEOREM FlagClearHolds == Spec => []FlagClearOnEntry
<1>1. IInv => FlagClearOnEntry
  BY DEF IInv, LockInv, FlagClearOnEntry
<1>2. QED
  BY <1>1, Invariance, PTL

\* No paired leave, so no init or deinit, returns an error (init.c:101).
THEOREM NoCallFailsHolds == Spec => []NoCallFails
<1>1. IInv => NoCallFails
  BY DEF IInv, CallInv
<1>2. QED
  BY <1>1, Invariance, PTL

\* A thread let through by CRYPTO_init has the complete table and a random
\* source for good, with no lock (secp256k1.c:353, init.c:175).
THEOREM ReadyForUseHolds == Spec => []ReadyForUse
<1>1. IInv => ReadyForUse
  BY DEF IInv, DataInv, Served, ReadyForUse
<1>2. QED
  BY <1>1, Invariance, PTL

\* cpu_info is unstable only while the lock holder initialises again
\* (cpuid.c:111-171).
THEOREM CpuInfoWindowHolds == Spec => []CpuInfoWindow
<1>1. IInv => CpuInfoWindow
  <2> SUFFICES ASSUME IInv, NEW t \in Threads, session[t], cpu_info # "features"
               PROVE  /\ initialized = 0
                      /\ \E u \in Threads : mutex = u /\ op[u] = "init" /\ pc[u] \in DetectingPCs
    BY DEF CpuInfoWindow
  <2>1. PICK u \in Threads : pc[u] \in DetectingPCs
    BY DEF IInv, DataInv, Served
  <2>2. pc[u] \in InitPCs /\ pc[u] \in HoldingPCs
    BY <2>1 DEF DetectingPCs, InitPCs, HoldingPCs, PCs
  <2>3. mutex = u /\ op[u] = "init" /\ initialized = 0
    BY <2>2 DEF IInv, LockInv, CallInv, DataInv
  <2>4. QED
    BY <2>1, <2>3
<1>2. QED
  BY <1>1, Invariance, PTL

----------------------------------------------------------------------------
\* The table is allocated once and each column is written once
\* (secp256k1.c:353-382).
THEOREM TableWrittenOnceHolds == Spec => TableWrittenOnce
<1> DEFINE Once == /\ storage = "allocated" => storage' = "allocated" /\ rows <= rows'
                   /\ rows # rows' => storage = "allocated" /\ rows < Rows
<1>1. ASSUME IInv, [Next]_vars PROVE [Once]_<<storage, rows>>
  <2> USE <1>1 DEF IInv, TypeOK, DataInv, Goto, vars, lockVars, libVars, clientVars
  <2>0. rows \in Nat /\ rows <= rows
    BY RowsAssumption
  <2>1. ASSUME NEW t \in Threads, TableAlloc(t) PROVE [Once]_<<storage, rows>>
    <3>1. storage = "null"
      BY <2>1 DEF TableAlloc
    <3>2. rows = 0 /\ rows' = 0
      BY <2>1, <3>1 DEF TableAlloc
    <3>3. QED
      BY <3>1, <3>2
  <2>2. ASSUME NEW t \in Threads, TableFill(t) PROVE Once
    BY <2>2, <2>0 DEF TableFill
  <2>3. ASSUME NEW t \in Threads, CallStep(t) \/ BeginUse(t) PROVE UNCHANGED <<storage, rows>>
    BY <2>3 DEF CallStep, Call, BeginUse
  <2>4. ASSUME NEW t \in Threads, LibStep(t), ~TableAlloc(t), ~TableFill(t)
        PROVE  UNCHANGED <<storage, rows>>
    BY <2>4 DEF LibStep, EndUse, MutexLock, SetLocked, Leave, MutexUnlock, InitAlready, CpuZero,
                CpuVendor, CpuFeatures, TablePresent, TableAllocFails, ChooseRand, SetInitialized,
                DeinitAlready, Deinit, Section
  <2>5. QED
    BY <2>1, <2>2, <2>3, <2>4 DEF Next, Finished
<1>2. QED
  BY <1>1, Invariance, PTL DEF Spec, TableWrittenOnce

----------------------------------------------------------------------------
\* Between its effect and its return a call is done to its caller, before it
\* is pending.
LEMMA PendingMoves ==
  ASSUME NEW t \in Threads, NEW from, NEW to, TypeOK, UNCHANGED op, Goto(t, from, to),
         to \in {"leave", "unlock"}, from \notin {"leave", "unlock"}
  PROVE  /\ Pending(t) = op[t]
         /\ [u \in Threads |-> Pending(u)]' = [[u \in Threads |-> Pending(u)] EXCEPT ![t] = "done"]
  BY DEF Goto, Pending, TypeOK

\* A step that moves a thread within the two halves of a call is not seen.
LEMMA PendingStays ==
  ASSUME NEW t \in Threads, NEW from, NEW to, TypeOK, UNCHANGED op, Goto(t, from, to),
         to \in {"leave", "unlock"} <=> from \in {"leave", "unlock"}
  PROVE  [u \in Threads |-> Pending(u)]' = [u \in Threads |-> Pending(u)]
<1>1. ASSUME NEW u \in Threads PROVE Pending(u)' = Pending(u)
  <2>1. CASE u = t
    BY <2>1 DEF Goto, Pending, TypeOK
  <2>2. CASE u # t
    BY <2>2 DEF Goto, Pending, TypeOK
  <2>3. QED
    BY <2>1, <2>2
<1>2. QED
  BY <1>1

\* The threads' interleaved steps implement atomic init, deinit and section
\* calls over a table that is built once (init.c:180-222).
THEOREM Refinement == Spec => Lifecycle!Spec
<1>1. Init => Lifecycle!Init
  BY RowsAssumption DEF Init, Lifecycle!Init, TableBuilt, Pending
<1>2. ASSUME IInv, [Next]_vars PROVE [Lifecycle!Next]_Lifecycle!vars
  <2> USE <1>2 DEF Lifecycle!vars, Lifecycle!Step, lockVars, libVars, clientVars
  <2> DEFINE Pend == [u \in Threads |-> Pending(u)]
  <2>0. TypeOK
    BY DEF IInv
  <2>1. ASSUME NEW t \in Threads, NEW o \in Ops, Call(t, o) PROVE Lifecycle!Invoke(t)
    <3>1. Pending(t) = "none" /\ ~aborted
      BY <2>1 DEF Call, Goto, IInv, CallInv, Pending
    <3>2. Pend' = [Pend EXCEPT ![t] = o]
      BY <2>0, <2>1 DEF Call, Goto, Pending, TypeOK
    <3>3. UNCHANGED <<initialized, TableBuilt, aborted>>
      BY <2>1 DEF Call, TableBuilt
    <3>4. QED
      BY <3>1, <3>2, <3>3 DEF Lifecycle!Invoke, Ops, Lifecycle!Ops
  <2>2. ASSUME NEW t \in Threads, BeginUse(t) \/ EndUse(t) \/ MutexLock(t) \/ SetLocked(t)
        PROVE  UNCHANGED Lifecycle!vars
    <3>1. UNCHANGED Pend
      BY <2>0, <2>2, PendingStays DEF BeginUse, EndUse, MutexLock, SetLocked
    <3>2. QED
      BY <2>2, <3>1 DEF BeginUse, EndUse, MutexLock, SetLocked, TableBuilt
  <2>3. ASSUME NEW t \in Threads, Leave(t) PROVE UNCHANGED Lifecycle!vars
    <3>1. locked # 0
      BY <2>3 DEF Leave, Goto, IInv, LockInv, FlaggedPCs, HoldingPCs, PCs
    <3>2. UNCHANGED Pend
      BY <2>0, <2>3, <3>1, PendingStays DEF Leave
    <3>3. QED
      BY <2>3, <3>2 DEF Leave, TableBuilt
  <2>4. ASSUME NEW t \in Threads, MutexUnlock(t) PROVE Lifecycle!Return(t)
    <3>1. Pending(t) = "done" /\ ~aborted
      BY <2>4 DEF MutexUnlock, Goto, Pending
    <3>2. Pend' = [Pend EXCEPT ![t] = "none"]
      BY <2>0, <2>4 DEF MutexUnlock, Goto, Pending, TypeOK
    <3>3. QED
      BY <2>4, <3>1, <3>2 DEF MutexUnlock, TableBuilt, Lifecycle!Return
  <2>5. ASSUME NEW t \in Threads, CpuZero(t) \/ CpuVendor(t) \/ CpuFeatures(t) \/ TablePresent(t)
                                  \/ TableAlloc(t) \/ ChooseRand(t)
        PROVE  UNCHANGED Lifecycle!vars
    <3>1. UNCHANGED Pend
      BY <2>0, <2>5, PendingStays
         DEF CpuZero, CpuVendor, CpuFeatures, TablePresent, TableAlloc, ChooseRand
    <3>2. UNCHANGED TableBuilt
      BY <2>5, RowsAssumption
         DEF CpuZero, CpuVendor, CpuFeatures, TablePresent, TableAlloc, ChooseRand, TableBuilt
    <3>3. QED
      BY <2>5, <3>1, <3>2
         DEF CpuZero, CpuVendor, CpuFeatures, TablePresent, TableAlloc, ChooseRand
  <2>6. ASSUME NEW t \in Threads, TableFill(t) PROVE Lifecycle!Build \/ UNCHANGED Lifecycle!vars
    <3>1. UNCHANGED Pend
      BY <2>0, <2>6, PendingStays DEF TableFill
    <3>2. Pending(t) = "init" /\ ~aborted /\ ~TableBuilt
      BY <2>6 DEF TableFill, Goto, IInv, CallInv, DataInv, InitPCs, Pending, TableBuilt,
                  TypeOK
    <3>3. UNCHANGED <<initialized, aborted>>
      BY <2>6 DEF TableFill
    <3>4. CASE TableBuilt'
      <4>1. TableBuilt' = TRUE
        BY <3>4, Zenon DEF TableBuilt
      <4>2. QED
        BY <3>1, <3>2, <3>3, <4>1 DEF Lifecycle!Build
    <3>5. CASE ~TableBuilt'
      <4>1. TableBuilt' = TableBuilt
        BY <3>2, <3>5, Zenon DEF TableBuilt
      <4>2. QED
        BY <3>1, <3>3, <4>1
    <3>6. QED
      BY <3>4, <3>5
  <2>7. ASSUME NEW t \in Threads, TableAllocFails(t) PROVE Lifecycle!Die
    <3>1. Pending(t) = "init" /\ ~TableBuilt
      BY <2>7 DEF TableAllocFails, IInv, CallInv, InitPCs, Pending, TableBuilt
    <3>4. aborted' = TRUE /\ ~aborted
      BY <2>7, Zenon DEF TableAllocFails
    <3>2. UNCHANGED Pend
      BY <2>7 DEF TableAllocFails, Pending
    <3>3. QED
      BY <2>7, <3>1, <3>2, <3>4 DEF TableAllocFails, TableBuilt, Lifecycle!Die
  <2>8. ASSUME NEW t \in Threads, SetInitialized(t) \/ InitAlready(t)
        PROVE  Lifecycle!InitTakesEffect(t)
    <3>1. Pending(t) = "init" /\ Pend' = [Pend EXCEPT ![t] = "done"]
      BY <2>0, <2>8, PendingMoves
         DEF SetInitialized, InitAlready, Goto, IInv, CallInv, InitPCs
    <3>2. TableBuilt /\ TableBuilt' /\ initialized' = 1
      BY <2>8 DEF SetInitialized, InitAlready, Goto, IInv, TypeOK, DataInv, TableBuilt
    <3>3. QED
      BY <2>8, <3>1, <3>2 DEF SetInitialized, InitAlready, Goto, Lifecycle!InitTakesEffect
  <2>9. ASSUME NEW t \in Threads, DeinitAlready(t) \/ Deinit(t)
        PROVE  Lifecycle!DeinitTakesEffect(t)
    <3>1. Pending(t) = "deinit" /\ Pend' = [Pend EXCEPT ![t] = "done"]
      BY <2>0, <2>9, PendingMoves DEF DeinitAlready, Deinit
    <3>2. initialized' # 1 /\ UNCHANGED TableBuilt
      BY <2>9 DEF DeinitAlready, Deinit, TableBuilt
    <3>3. QED
      BY <2>9, <3>1, <3>2 DEF DeinitAlready, Deinit, Goto, Lifecycle!DeinitTakesEffect
  <2>10. ASSUME NEW t \in Threads, Section(t) PROVE Lifecycle!SectionTakesEffect(t)
    <3>1. Pending(t) = "section" /\ Pend' = [Pend EXCEPT ![t] = "done"]
      BY <2>0, <2>10, PendingMoves DEF Section
    <3>2. QED
      BY <2>10, <3>1 DEF Section, Goto, TableBuilt, Lifecycle!SectionTakesEffect
  <2>11. CASE UNCHANGED vars
    BY <2>11 DEF vars, TableBuilt, Pending
  <2>12. QED
    BY <2>1, <2>2, <2>3, <2>4, <2>5, <2>6, <2>7, <2>8, <2>9, <2>10, <2>11
       DEF Next, Finished, CallStep, LibStep, Lifecycle!Next, Lifecycle!Effect
<1>3. QED
  BY <1>1, <1>2, Invariance, PTL DEF Spec, Lifecycle!Spec
=============================================================================
