-------------------------------- MODULE Lock --------------------------------
(***************************************************************************)
(* CRYPTO_crit_enter and CRYPTO_crit_leave of init.c in all four builds:   *)
(* the Windows critical section with its lazy initialisation, the pthread  *)
(* mutex, the atomic spin lock and no lock at all.  Unlike CryptoInit's,   *)
(* the clients here may break the rules: enter again before they leave (as *)
(* a CRYPTO_init inside a client's own section does) and leave without     *)
(* having entered.                                                         *)
(***************************************************************************)
EXTENDS Naturals

CONSTANTS
  Threads,
  NoThread,  \* the owner of a free lock
  MaxCalls   \* bound: enters and stray leaves per thread

ASSUME NoThreadAssumption == NoThread \notin Threads
ASSUME MaxCallsAssumption == MaxCalls \in Nat

Builds == {"windows", "pthread", "atomic", "none"}

VARIABLES
  build,             \* which branch of init.c was compiled
  asserts,           \* assertions are compiled in (off in the default build)
  lockInitialized,   \* _lock_initialized of the Windows build
  holder, depth,     \* owner of _lock and, for Windows, how often it entered
  locked,            \* the volatile flag beside it
  aborted,           \* an assertion failed
  pc,
  inside,            \* enters of each thread that returned and were not left
  calls,             \* calls left to each thread
  reentered,         \* threads that entered while inside
  strayed            \* some thread left without being inside

config     == <<build, asserts>>
lockVars   == <<lockInitialized, holder, depth, locked>>
clientVars == <<inside, calls, reentered, strayed>>
vars       == <<config, lockVars, aborted, pc, clientVars>>

PCs == {"idle", "init", "create", "publish", "lock", "mark", "clear", "unlock"}

----------------------------------------------------------------------------
Init ==
  /\ build \in Builds /\ asserts \in BOOLEAN
  /\ lockInitialized = 0 /\ holder = NoThread /\ depth = 0 /\ locked = 0
  /\ aborted = FALSE
  /\ pc     = [t \in Threads |-> "idle"]
  /\ inside = [t \in Threads |-> 0]
  /\ calls  = [t \in Threads |-> MaxCalls]
  /\ reentered = {} /\ strayed = FALSE

Goto(t, from, to) ==
  /\ ~aborted
  /\ pc[t] = from
  /\ pc' = [pc EXCEPT ![t] = to]

Admit(t) == inside' = [inside EXCEPT ![t] = @ + 1]

(***************************************************************************)
(* CRYPTO_crit_enter.                                                      *)
(***************************************************************************)
Entry == IF build = "windows" THEN "init" ELSE IF build = "none" THEN "idle" ELSE "lock"

CallEnter(t) ==
  /\ Goto(t, "idle", Entry)
  /\ calls[t] > 0
  /\ calls' = [calls EXCEPT ![t] = @ - 1]
  /\ reentered' = IF inside[t] > 0 THEN reentered \cup {t} ELSE reentered
  /\ IF build = "none" THEN Admit(t) ELSE UNCHANGED inside
  /\ UNCHANGED <<config, lockVars, aborted, strayed>>

\* Slip: a thread that finds the initialisation begun does not wait for it.
CritInit_NoWait(t) ==
  /\ Goto(t, "init", IF lockInitialized = 0 THEN "create" ELSE "lock")
  /\ lockInitialized' = IF lockInitialized = 0 THEN 1 ELSE lockInitialized
  /\ UNCHANGED <<config, holder, depth, locked, aborted, clientVars>>

\* _crit_init: the exchange of 0 for 1 chooses who creates the critical
\* section; the others spin while it is 1 and go on when it is 2.
CritInit(t) ==
  /\ lockInitialized # 1
  /\ Goto(t, "init", IF lockInitialized = 0 THEN "create" ELSE "lock")
  /\ lockInitialized' = IF lockInitialized = 0 THEN 1 ELSE lockInitialized
  /\ UNCHANGED <<config, holder, depth, locked, aborted, clientVars>>

InitializeCriticalSection(t) ==
  /\ Goto(t, "create", "publish")
  /\ holder' = NoThread /\ depth' = 0
  /\ UNCHANGED <<config, lockInitialized, locked, aborted, clientVars>>

\* Slip: the winner forgets to say that it is done.
PublishCriticalSection_Not(t) ==
  /\ Goto(t, "publish", "lock")
  /\ UNCHANGED <<config, lockVars, aborted, clientVars>>

PublishCriticalSection(t) ==
  /\ Goto(t, "publish", "lock")
  /\ lockInitialized' = 2
  /\ UNCHANGED <<config, holder, depth, locked, aborted, clientVars>>

\* Slip: the mutex is made recursive, the flag beside it is not.
Lock_Recursive(t) ==
  /\ holder \in {NoThread, t}
  /\ Goto(t, "lock", IF build = "atomic" THEN "idle" ELSE "mark")
  /\ holder' = t
  /\ depth'  = IF build = "atomic" THEN 0 ELSE depth + 1
  /\ IF build = "atomic" THEN Admit(t) ELSE UNCHANGED inside
  /\ UNCHANGED <<config, lockInitialized, locked, aborted, calls, reentered, strayed>>

\* EnterCriticalSection admits its owner again; a default pthread mutex and
\* the spin lock make everybody wait.
Lock(t) ==
  /\ holder = NoThread \/ (build = "windows" /\ holder = t)
  /\ Goto(t, "lock", IF build = "atomic" THEN "idle" ELSE "mark")
  /\ holder' = t
  /\ depth'  = IF build = "windows" THEN depth + 1 ELSE 0
  /\ IF build = "atomic" THEN Admit(t) ELSE UNCHANGED inside
  /\ UNCHANGED <<config, lockInitialized, locked, aborted, calls, reentered, strayed>>

\* assert(locked == 0), then locked = 1.
AssertionFails(t) ==
  /\ ~aborted /\ pc[t] = "mark" /\ asserts /\ locked # 0
  /\ aborted' = TRUE
  /\ UNCHANGED <<config, lockVars, pc, clientVars>>

\* Slip: the flag is not set, and the leave that follows is refused.
Mark_NoFlag(t) ==
  /\ Goto(t, "mark", "idle")
  /\ Admit(t)
  /\ UNCHANGED <<config, lockVars, aborted, calls, reentered, strayed>>

Mark(t) ==
  /\ asserts => locked = 0
  /\ Goto(t, "mark", "idle")
  /\ locked' = 1
  /\ Admit(t)
  /\ UNCHANGED <<config, lockInitialized, holder, depth, aborted, calls, reentered, strayed>>

(***************************************************************************)
(* CRYPTO_crit_leave: EPERM if the flag is clear, ...                      *)
(***************************************************************************)
Exit ==
  IF build = "none" THEN "idle"
  ELSE IF build = "atomic" THEN "unlock"
  ELSE IF locked = 0 THEN "idle" ELSE "clear"

CallLeave(t) ==
  /\ Goto(t, "idle", Exit)
  /\ inside[t] > 0
  /\ inside' = [inside EXCEPT ![t] = @ - 1]
  /\ UNCHANGED <<config, lockVars, aborted, calls, reentered, strayed>>

StrayLeave(t) ==
  /\ Goto(t, "idle", Exit)
  /\ inside[t] = 0 /\ calls[t] > 0
  /\ calls'   = [calls EXCEPT ![t] = @ - 1]
  /\ strayed' = TRUE
  /\ UNCHANGED <<config, lockVars, aborted, inside, reentered>>

\* ... else clear it ...
ClearFlag(t) ==
  /\ Goto(t, "clear", "unlock")
  /\ locked' = 0
  /\ UNCHANGED <<config, lockInitialized, holder, depth, aborted, clientVars>>

\* ... and release.  pthread and atomic release do not look at the owner;
\* LeaveCriticalSection by another thread than the owner is undefined, it
\* releases the section or does nothing.
Unlock(t) ==
  /\ Goto(t, "unlock", "idle")
  /\ \/ /\ build # "windows" \/ depth <= 1
        /\ holder' = NoThread /\ depth' = 0
     \/ /\ build = "windows" /\ depth > 1
        /\ depth' = depth - 1 /\ UNCHANGED holder
     \/ /\ build = "windows" /\ holder # t
        /\ UNCHANGED <<holder, depth>>
  /\ UNCHANGED <<config, lockInitialized, locked, aborted, clientVars>>

----------------------------------------------------------------------------
LibStep(t) ==
  \/ CritInit(t) \/ InitializeCriticalSection(t) \/ PublishCriticalSection(t)
  \/ Lock(t)     \/ AssertionFails(t)            \/ Mark(t)
  \/ ClearFlag(t) \/ Unlock(t)

\* No thread changes anything any more: the calls are used up, and those
\* that are left wait or spin.  CallsReturn says when that may happen.
Finished ==
  /\ aborted \/ \A t \in Threads :
       \/ pc[t] = "idle" /\ inside[t] = 0
       \/ pc[t] = "lock" /\ holder # NoThread
       \/ pc[t] = "init" /\ lockInitialized = 1
  /\ UNCHANGED vars

Next ==
  \/ \E t \in Threads : CallEnter(t) \/ CallLeave(t) \/ StrayLeave(t) \/ LibStep(t)
  \/ Finished

\* The scheduler runs every thread, and a client leaves the sections it is in.
FairSpec ==
  /\ Init /\ [][Next]_vars
  /\ \A t \in Threads : WF_vars(LibStep(t)) /\ WF_vars(CallLeave(t))

----------------------------------------------------------------------------
(***************************************************************************)
(* Properties.                                                             *)
(***************************************************************************)
TypeOK ==
  /\ build \in Builds /\ asserts \in BOOLEAN /\ aborted \in BOOLEAN /\ strayed \in BOOLEAN
  /\ lockInitialized \in 0..2 /\ holder \in Threads \cup {NoThread} /\ depth \in 0..MaxCalls
  /\ locked \in {0, 1} /\ pc \in [Threads -> PCs] /\ reentered \subseteq Threads
  /\ inside \in [Threads -> 0..MaxCalls] /\ calls \in [Threads -> 0..MaxCalls]

InLock(t) == pc[t] \in {"mark", "clear", "unlock"}

\* Two threads are inside their sections only if there is no lock at all or
\* some thread left a section it was not in (init.c:101 looks at the flag,
\* not at who set it); entering twice, however the two initialise the
\* critical section, never lets a second thread in.
ExclusiveUnlessStray ==
  /\ TypeOK
  /\ build # "none" /\ ~strayed =>
       \A t, u \in Threads : inside[t] > 0 /\ inside[u] > 0 => t = u

\* Without a stray leave the lock is lost, held by a thread that is neither
\* inside nor on its way in or out, only by a thread that entered twice, and
\* only on Windows, where the inner leave (init.c:77) makes the outer one
\* fail; on the other builds such a thread waits for itself inside its own
\* section, and an assertion fails on none but that first build.
LostOnlyByReentry ==
  ~strayed =>
    /\ \A t \in Threads : holder = t =>
         \/ inside[t] > 0 \/ InLock(t)
         \/ build = "windows" /\ t \in reentered
    /\ \A t \in Threads : build \in {"pthread", "atomic"} => inside[t] <= 1
    /\ aborted => build = "windows" /\ reentered # {}

\* On every build each call returns, unless a thread entered twice, or a
\* thread left a critical section of Windows that it did not own: on pthread
\* and with the spin lock a stray leave may break the exclusion, but never
\* leaves the lock taken for ever.
CallsReturn ==
  \A t \in Threads :
    pc[t] # "idle" ~> \/ pc[t] = "idle" \/ aborted \/ reentered # {}
                      \/ build = "windows" /\ strayed

AbstractLock == INSTANCE Mutex WITH
  wants  <- {t \in Threads : pc[t] \in PCs \ {"idle", "clear", "unlock"}},
  inside <- {t \in Threads : inside[t] > 0},
  broken <- build = "none" \/ strayed \/ reentered # {}

\* Until the rule is broken all three locks implement the abstract one.
ImplementsMutex == AbstractLock!Spec
=============================================================================
