----------------------------- MODULE CryptoInit -----------------------------
(***************************************************************************)
(* The process-wide lock of init.c (its pthread build), CRYPTO_init and    *)
(* CRYPTO_deinit, with everything they call that changes global state:     *)
(* the CPU feature words, the generator's table and the choice of the      *)
(* random source.  Threads run the calls concurrently; a thread with an    *)
(* initialised library also runs computations, which read those globals    *)
(* without taking the lock.                                                *)
(*                                                                         *)
(* Clients are disciplined as crypto.h asks: a thread computes only after  *)
(* one of its own CRYPTO_init calls returned CRYPTO_OK (and before its own *)
(* CRYPTO_deinit), and it pairs CRYPTO_crit_enter with CRYPTO_crit_leave.  *)
(* Nothing keeps one thread from deinitialising, or initialising again,    *)
(* while others compute: the library counts no references.                 *)
(***************************************************************************)
EXTENDS Naturals

CONSTANTS
  Threads,   \* the threads that call the library
  NoThread,  \* the owner of a free mutex
  Rows,      \* columns k written by table_gen (64 in the code)
  MaxCalls   \* bound: library calls per thread

ASSUME NoThreadAssumption == NoThread \notin Threads
ASSUME RowsAssumption     == Rows \in Nat \ {0}
ASSUME MaxCallsAssumption == MaxCalls \in Nat

VARIABLES
  mutex,        \* owner of _lock, or NoThread
  locked,       \* the volatile flag beside it
  initialized,
  cpu_info,     \* what the four words hold
  storage,      \* secp256k1_precomp_storage
  rows,         \* columns of the table written so far
  rand_impl,
  aborted,      \* abort() ended the process
  pc,           \* where each thread is
  op,           \* the call each thread is in
  ret,          \* what its last init, deinit or leave returned
  session,      \* the thread considers the library initialised
  calls         \* calls left to each thread

lockVars   == <<mutex, locked>>
libVars    == <<initialized, cpu_info, storage, rows, rand_impl>>
clientVars == <<op, ret, session, calls>>
vars       == <<lockVars, libVars, aborted, pc, clientVars>>

Ops == {"init", "deinit", "section"}

PCs == {"idle", "lock", "locked", "body", "zeroed", "vendor", "table", "fill",
        "rand", "set", "leave", "unlock", "use"}

----------------------------------------------------------------------------
Init ==
  /\ mutex = NoThread /\ locked = 0 /\ initialized = 0
  /\ cpu_info = "zero" /\ storage = "null" /\ rows = 0 /\ rand_impl = "null"
  /\ aborted = FALSE
  /\ pc      = [t \in Threads |-> "idle"]
  /\ op      = [t \in Threads |-> "none"]
  /\ ret     = [t \in Threads |-> "none"]
  /\ session = [t \in Threads |-> FALSE]
  /\ calls   = [t \in Threads |-> MaxCalls]

Goto(t, from, to) ==
  /\ ~aborted
  /\ pc[t] = from
  /\ pc' = [pc EXCEPT ![t] = to]

(***************************************************************************)
(* The client's side: begin a call, or a computation.                      *)
(***************************************************************************)
Call(t, o) ==
  /\ Goto(t, "idle", "lock")
  /\ calls[t] > 0
  /\ o = "deinit" => session[t]
  /\ op'    = [op EXCEPT ![t] = o]
  /\ calls' = [calls EXCEPT ![t] = @ - 1]
  \* A thread that calls CRYPTO_deinit is done with the library.
  /\ session' = IF o = "deinit" THEN [session EXCEPT ![t] = FALSE] ELSE session
  /\ UNCHANGED <<lockVars, libVars, aborted, ret>>

\* scalar_mul_gen, RAND_buf or a field operation: reads of the globals all
\* along, between BeginUse and EndUse, with no lock.
BeginUse(t) ==
  /\ Goto(t, "idle", "use")
  /\ session[t] /\ calls[t] > 0
  /\ calls' = [calls EXCEPT ![t] = @ - 1]
  /\ UNCHANGED <<lockVars, libVars, aborted, op, ret, session>>

EndUse(t) ==
  /\ Goto(t, "use", "idle")
  /\ UNCHANGED <<lockVars, libVars, aborted, clientVars>>

(***************************************************************************)
(* CRYPTO_crit_enter: pthread_mutex_lock, then assert(locked == 0) and     *)
(* locked = 1.                                                             *)
(***************************************************************************)
\* Slip: the result of a try-lock is not looked at.
MutexLock_Ignored(t) ==
  /\ Goto(t, "lock", "locked")
  /\ mutex' = IF mutex = NoThread THEN t ELSE mutex
  /\ UNCHANGED <<locked, libVars, aborted, clientVars>>

MutexLock(t) ==
  /\ Goto(t, "lock", "locked")
  /\ mutex = NoThread
  /\ mutex' = t
  /\ UNCHANGED <<locked, libVars, aborted, clientVars>>

\* Slip: the flag is never set, and every leave fails.
SetLocked_Forgotten(t) ==
  /\ Goto(t, "locked", "body")
  /\ UNCHANGED <<lockVars, libVars, aborted, clientVars>>

SetLocked(t) ==
  /\ Goto(t, "locked", "body")
  /\ locked' = 1
  /\ UNCHANGED <<mutex, libVars, aborted, clientVars>>

(***************************************************************************)
(* CRYPTO_crit_leave: EPERM if the flag is clear, else clear it and then   *)
(* release the mutex; init and deinit return what it lets them return.     *)
(***************************************************************************)
\* Slip: the flag is left set for the next thread's assertion.
Leave_KeepsFlag(t) ==
  /\ Goto(t, "leave", "unlock")
  /\ UNCHANGED <<lockVars, libVars, aborted, clientVars>>

Leave(t) ==
  /\ Goto(t, "leave", IF locked = 0 THEN "idle" ELSE "unlock")
  /\ locked' = 0
  /\ IF locked = 0
       THEN /\ ret' = [ret EXCEPT ![t] = "ERR"]
            /\ op'  = [op EXCEPT ![t] = "none"]
       ELSE UNCHANGED <<op, ret>>
  /\ UNCHANGED <<mutex, libVars, aborted, session, calls>>

MutexUnlock(t) ==
  /\ Goto(t, "unlock", "idle")
  /\ mutex'   = NoThread
  /\ ret'     = [ret EXCEPT ![t] = "OK"]
  /\ op'      = [op EXCEPT ![t] = "none"]
  /\ session' = [session EXCEPT ![t] = @ \/ op[t] = "init"]
  /\ UNCHANGED <<locked, libVars, aborted, calls>>

(***************************************************************************)
(* CRYPTO_init between enter and leave.                                    *)
(***************************************************************************)
\* Slip: an initialised library is looked at again and again under the lock.
InitAlready_Retries(t) ==
  /\ Goto(t, "body", "body")
  /\ op[t] = "init" /\ initialized # 0
  /\ UNCHANGED <<lockVars, libVars, aborted, clientVars>>

InitAlready(t) ==
  /\ Goto(t, "body", "leave")
  /\ op[t] = "init" /\ initialized # 0
  /\ UNCHANGED <<lockVars, libVars, aborted, clientVars>>

\* _cpuid clears its output, here the global cpu_info itself, ...
CpuZero(t) ==
  /\ Goto(t, "body", "zeroed")
  /\ op[t] = "init" /\ initialized = 0
  /\ cpu_info' = "zero"
  /\ UNCHANGED <<lockVars, initialized, storage, rows, rand_impl, aborted, clientVars>>

\* ... then stores leaf 0 there: the vendor string, not feature bits ...
CpuVendor(t) ==
  /\ Goto(t, "zeroed", "vendor")
  /\ cpu_info' = "vendor"
  /\ UNCHANGED <<lockVars, initialized, storage, rows, rand_impl, aborted, clientVars>>

\* Slip: the function returns with the vendor string in place.
CpuFeatures_Missing(t) ==
  /\ Goto(t, "vendor", "table")
  /\ UNCHANGED <<lockVars, libVars, aborted, clientVars>>

\* ... and only at the end the words that the assembly tests.
CpuFeatures(t) ==
  /\ Goto(t, "vendor", "table")
  /\ cpu_info' = "features"
  /\ UNCHANGED <<lockVars, initialized, storage, rows, rand_impl, aborted, clientVars>>

\* Slip: the test for a present table is dropped.
TableAlloc_Again(t) ==
  /\ Goto(t, "table", "fill")
  /\ storage' = "allocated" /\ rows' = 0
  /\ UNCHANGED <<lockVars, initialized, cpu_info, rand_impl, aborted, clientVars>>

\* secp256k1_precompute_table_gen: nothing to do, ...
TablePresent(t) ==
  /\ Goto(t, "table", "rand")
  /\ storage # "null"
  /\ UNCHANGED <<lockVars, libVars, aborted, clientVars>>

\* ... or allocate; a failure is CRYPTO_ERR to init_globals, and CRYPTO_init
\* aborts the process on it, ...
TableAlloc(t) ==
  /\ Goto(t, "table", "fill")
  /\ storage = "null"
  /\ storage' = "allocated" /\ rows' = 0
  /\ UNCHANGED <<lockVars, initialized, cpu_info, rand_impl, aborted, clientVars>>

TableAllocFails(t) ==
  /\ ~aborted /\ pc[t] = "table" /\ storage = "null"
  /\ aborted' = TRUE
  /\ UNCHANGED <<lockVars, libVars, pc, clientVars>>

\* Slip: the loop runs once more than there are columns.
TableFill_OneMore(t) ==
  /\ Goto(t, "fill", IF rows = Rows THEN "rand" ELSE "fill")
  /\ rows' = rows + 1
  /\ UNCHANGED <<lockVars, initialized, cpu_info, storage, rand_impl, aborted, clientVars>>

\* ... and write one column after the other.
TableFill(t) ==
  /\ Goto(t, "fill", IF rows + 1 = Rows THEN "rand" ELSE "fill")
  /\ rows' = rows + 1
  /\ UNCHANGED <<lockVars, initialized, cpu_info, storage, rand_impl, aborted, clientVars>>

ChooseRand(t) ==
  /\ Goto(t, "rand", "set")
  /\ rand_impl' = "sys"
  /\ UNCHANGED <<lockVars, initialized, cpu_info, storage, rows, aborted, clientVars>>

SetInitialized(t) ==
  /\ Goto(t, "set", "leave")
  /\ initialized' = 1
  /\ UNCHANGED <<lockVars, cpu_info, storage, rows, rand_impl, aborted, clientVars>>

(***************************************************************************)
(* CRYPTO_deinit between enter and leave: deinit_globals is empty.         *)
(***************************************************************************)
DeinitAlready(t) ==
  /\ Goto(t, "body", "leave")
  /\ op[t] = "deinit" /\ initialized # 1
  /\ UNCHANGED <<lockVars, libVars, aborted, clientVars>>

\* Slip, the one deinit_globals invites: free the table on the first deinit.
Deinit_Frees(t) ==
  /\ Goto(t, "body", "leave")
  /\ op[t] = "deinit" /\ initialized = 1
  /\ initialized' = 0 /\ storage' = "null" /\ rows' = 0
  /\ UNCHANGED <<lockVars, cpu_info, rand_impl, aborted, clientVars>>

Deinit(t) ==
  /\ Goto(t, "body", "leave")
  /\ op[t] = "deinit" /\ initialized = 1
  /\ initialized' = 0
  /\ UNCHANGED <<lockVars, cpu_info, storage, rows, rand_impl, aborted, clientVars>>

\* A client's own critical section, between its enter and its leave.
Section(t) ==
  /\ Goto(t, "body", "leave")
  /\ op[t] = "section"
  /\ UNCHANGED <<lockVars, libVars, aborted, clientVars>>

----------------------------------------------------------------------------
CallStep(t) == \E o \in Ops : Call(t, o)

LibStep(t) ==
  \/ EndUse(t)
  \/ MutexLock(t)      \/ SetLocked(t)
  \/ Leave(t)          \/ MutexUnlock(t)
  \/ InitAlready(t)
  \/ CpuZero(t)        \/ CpuVendor(t)   \/ CpuFeatures(t)
  \/ TablePresent(t)   \/ TableAlloc(t)  \/ TableAllocFails(t) \/ TableFill(t)
  \/ ChooseRand(t)     \/ SetInitialized(t)
  \/ DeinitAlready(t)  \/ Deinit(t)
  \/ Section(t)

\* The process is over: aborted, or every thread has made its calls.
Finished ==
  /\ aborted \/ \A t \in Threads : pc[t] = "idle"
  /\ UNCHANGED vars

Next ==
  \/ \E t \in Threads : CallStep(t) \/ BeginUse(t) \/ LibStep(t)
  \/ Finished

Spec == Init /\ [][Next]_vars

\* A thread inside a call keeps running it; nobody has to make a call.
FairSpec == Spec /\ \A t \in Threads : WF_vars(LibStep(t))

----------------------------------------------------------------------------
(***************************************************************************)
(* Properties.                                                             *)
(***************************************************************************)
TypeOK ==
  /\ mutex \in Threads \cup {NoThread} /\ locked \in {0, 1} /\ initialized \in {0, 1}
  /\ cpu_info \in {"zero", "vendor", "features"}
  /\ storage \in {"null", "allocated"} /\ rows \in 0..Rows
  /\ rand_impl \in {"null", "sys"} /\ aborted \in BOOLEAN
  /\ pc \in [Threads -> PCs]
  /\ op \in [Threads -> Ops \cup {"none"}]
  /\ ret \in [Threads -> {"none", "OK", "ERR"}]
  /\ session \in [Threads -> BOOLEAN]
  /\ calls \in [Threads -> 0..MaxCalls]

HoldingPCs   == PCs \ {"idle", "lock", "use"}
DetectingPCs == {"zeroed", "vendor"}
TableBuilt   == storage = "allocated" /\ rows = Rows

\* Whatever CRYPTO_crit_enter and CRYPTO_crit_leave enclose (init.c:87-110)
\* runs in one thread at a time, the two flag updates included.
MutualExclusion ==
  \A t, u \in Threads : pc[t] \in HoldingPCs /\ pc[u] \in HoldingPCs => t = u

\* The assertion of init.c:93: whoever gets the mutex finds the flag clear,
\* although the leaving thread clears it before it gives the mutex up.
FlagClearOnEntry == \A t \in Threads : pc[t] = "locked" => locked = 0

\* No paired crit_leave meets the EPERM return (init.c:101-106), so no init
\* or deinit ever reports CRYPTO_ERR to its caller.
NoCallFails == \A t \in Threads : ret[t] # "ERR"

\* A thread whose own CRYPTO_init returned finds the complete table and a
\* random source, without a lock and whatever other threads' deinit and
\* init calls do in the meantime (secp256k1.c:433 and :461, rand.c:30).
ReadyForUse ==
  \A t \in Threads : session[t] => TableBuilt /\ rand_impl = "sys"

\* Such a thread may still find something else than the feature words in
\* cpu_info (cpuid.c:111), but only while some thread, holding the lock, is
\* initialising the library again after a deinit.
CpuInfoWindow ==
  \A t \in Threads : session[t] /\ cpu_info # "features" =>
    /\ initialized = 0
    /\ \E u \in Threads : mutex = u /\ op[u] = "init" /\ pc[u] \in DetectingPCs

\* The table is allocated once and its columns are written once, in order:
\* a deinit and a second init neither free nor rewrite what other threads
\* are reading (secp256k1.c:353, init.c:175).  For the deinit that is against
\* crypto.h:29, "free all data initialized in CRYPTO_init": it frees nothing.
TableWrittenOnce ==
  [][ /\ storage = "allocated" => storage' = "allocated" /\ rows <= rows'
      /\ rows # rows' => storage = "allocated" /\ rows < Rows ]_<<storage, rows>>

\* Every call returns, whoever else calls what, unless the process aborts on
\* a failed allocation (init.c:193): nothing keeps the lock.
EveryCallReturns ==
  \A t \in Threads : op[t] # "none" ~> (op[t] = "none" \/ aborted)

\* The calls as their caller sees them: pending, then done.
Pending(t) ==
  IF pc[t] \in {"leave", "unlock"} THEN "done" ELSE op[t]

Lifecycle == INSTANCE LibLifecycle WITH
  up <- initialized = 1, built <- TableBuilt, dead <- aborted,
  pend <- [t \in Threads |-> Pending(t)]

\* The steps of all threads together implement atomic calls.
ImplementsLifecycle == Lifecycle!FairSpec
=============================================================================
