------------------------------ MODULE LockProof ------------------------------
(***************************************************************************)
(* Proofs about Lock, for any number of threads and calls and in all four  *)
(* builds: who may be inside, how the lock can be lost, and that each step *)
(* is a step of the abstract mutex until a client breaks the rules.        *)
(***************************************************************************)
EXTENDS Lock, TLAPS

Entering == {"init", "create", "publish", "lock", "mark"}

Disciplined == build # "none" /\ ~strayed

\* The calls a thread has left bound its enters, also those on their way, and
\* the depth of the section it owns.
Counted ==
  /\ \A t \in Threads : inside[t] + calls[t] + (IF pc[t] \in Entering THEN 1 ELSE 0) <= MaxCalls
  /\ \A t \in Threads : holder = t =>
       depth + calls[t] + (IF pc[t] \in Entering \ {"mark"} THEN 1 ELSE 0) <= MaxCalls
  /\ holder = NoThread \/ build # "windows" => depth = 0
  /\ holder # NoThread /\ build = "windows" => depth > 0

\* Each build uses its own part of the code.
Built ==
  /\ \A t \in Threads : pc[t] \in {"init", "create", "publish"} => build = "windows"
  /\ \A t \in Threads : pc[t] \in {"mark", "clear"} => build \in {"windows", "pthread"}
  /\ locked = 1 => build \in {"windows", "pthread"}
  /\ build = "none" => holder = NoThread /\ ~aborted /\ \A t \in Threads : pc[t] = "idle"

\* A thread on its way in was inside only if it enters twice.
Fresh == \A t \in Threads : inside[t] > 0 /\ pc[t] \in Entering => t \in reentered

\* One thread creates the critical section, and none is further before it has.
Created ==
  /\ \A t \in Threads : pc[t] \in {"create", "publish"} => lockInitialized = 1
  /\ \A t, u \in Threads :
       pc[t] \in {"create", "publish"} /\ pc[u] \in {"create", "publish"} => t = u
  /\ build = "windows" /\ lockInitialized # 2 =>
       /\ holder = NoThread
       /\ \A t \in Threads : pc[t] \in {"idle", "init", "create", "publish"} /\ inside[t] = 0

\* Whoever is inside, or holds the lock on the way in or out, owns it, and the
\* flag is set by such a thread only.
Held ==
  /\ \A t \in Threads : inside[t] > 0 \/ InLock(t) => holder = t
  /\ locked = 1 => \E t \in Threads : inside[t] > 0 \/ pc[t] = "clear"

\* On Windows the owner has entered at least as deep as it is inside, and
\* deeper only after it entered twice.
Deep ==
  /\ \A t \in Threads : holder = t =>
       /\ depth >= inside[t] + (IF InLock(t) THEN 1 ELSE 0)
       /\ t \notin reentered => depth = inside[t] + (IF InLock(t) THEN 1 ELSE 0)
  /\ \A t \in Threads : t \notin reentered =>
       inside[t] <= 1 /\ (inside[t] > 0 => pc[t] = "idle" /\ locked = 1)
  /\ aborted => reentered # {}

\* On the others nobody enters twice: it waits for itself.
Flat ==
  /\ ~aborted
  /\ \A t \in Threads : inside[t] <= 1
  /\ \A t \in Threads : inside[t] > 0 => pc[t] \in {"idle", "lock"}
  /\ \A t \in Threads : inside[t] > 0 /\ build = "pthread" => locked = 1
  /\ \A t \in Threads : holder = t => inside[t] > 0 \/ InLock(t)

IInv ==
  /\ TypeOK /\ Counted /\ Built /\ Fresh
  /\ Disciplined => Created /\ Held
  /\ Disciplined /\ build = "windows" => Deep
  /\ Disciplined /\ build # "windows" => Flat

\* The call itself: a thread that is inside enters again.
LEMMA CallEnterKeeps ==
  ASSUME NEW t \in Threads, IInv, CallEnter(t)
  PROVE  IInv'
<1> USE MaxCallsAssumption, NoThreadAssumption
    DEF IInv, TypeOK, Goto, CallEnter, Entry, Admit, config, lockVars, clientVars,
        Entering, Disciplined, InLock, PCs, Builds
<1>1. TypeOK'
  BY DEF Counted
<1>2. Counted'
  BY DEF Counted
<1>3. Built'
  BY DEF Built
<1>4. Fresh'
  BY DEF Fresh
<1>5. Disciplined' => Created'
  BY DEF Created, Held, Built
<1>6. Disciplined' => Held'
  BY DEF Created, Held, Built
<1>7. Disciplined' /\ build' = "windows" => Deep'
  BY DEF Created, Held, Built, Deep, Fresh, Counted
<1>8. Disciplined' /\ build' # "windows" => Flat'
  BY DEF Created, Held, Built, Flat, Fresh, Counted
<1>9. QED
  BY <1>1, <1>2, <1>3, <1>4, <1>5, <1>6, <1>7, <1>8

\* A leave that has its enter; on Windows the flag may send it back with EPERM.
LEMMA CallLeaveKeeps ==
  ASSUME NEW t \in Threads, IInv, CallLeave(t)
  PROVE  IInv'
<1> USE MaxCallsAssumption, NoThreadAssumption
    DEF IInv, TypeOK, Goto, CallLeave, Exit, Admit, config, lockVars, clientVars,
        Entering, Disciplined, InLock, PCs, Builds
<1>1. TypeOK'
  BY DEF Counted
<1>2. Counted'
  BY DEF Counted
<1>3. Built'
  BY DEF Built
<1>4. Fresh'
  BY DEF Fresh
<1>5. Disciplined' => Created'
  BY DEF Created, Held, Built
<1>6. Disciplined' => Held'
  BY DEF Created, Held, Built
<1>7. Disciplined' /\ build' = "windows" => Deep'
  BY DEF Created, Held, Built, Deep, Fresh, Counted
<1>8. Disciplined' /\ build' # "windows" => Flat'
  BY DEF Created, Held, Built, Flat, Fresh, Counted
<1>9. QED
  BY <1>1, <1>2, <1>3, <1>4, <1>5, <1>6, <1>7, <1>8

\* After a stray leave only types and counts are claimed.
LEMMA StrayLeaveKeeps ==
  ASSUME NEW t \in Threads, IInv, StrayLeave(t)
  PROVE  IInv'
<1> USE MaxCallsAssumption, NoThreadAssumption
    DEF IInv, TypeOK, Goto, StrayLeave, Exit, Admit, config, lockVars, clientVars,
        Entering, Disciplined, InLock, PCs, Builds
<1>1. TypeOK'
  BY DEF Counted
<1>2. Counted'
  BY DEF Counted
<1>3. Built'
  BY DEF Built
<1>4. Fresh'
  BY DEF Fresh
<1>5. Disciplined' => Created'
  BY DEF Created, Held, Built
<1>6. Disciplined' => Held'
  BY DEF Created, Held, Built
<1>7. Disciplined' /\ build' = "windows" => Deep'
  BY DEF Created, Held, Built, Deep, Fresh, Counted
<1>8. Disciplined' /\ build' # "windows" => Flat'
  BY DEF Created, Held, Built, Flat, Fresh, Counted
<1>9. QED
  BY <1>1, <1>2, <1>3, <1>4, <1>5, <1>6, <1>7, <1>8

\* The first thread turns 0 into 1, the others pass at 2.
LEMMA CritInitKeeps ==
  ASSUME NEW t \in Threads, IInv, CritInit(t)
  PROVE  IInv'
<1> USE MaxCallsAssumption, NoThreadAssumption
    DEF IInv, TypeOK, Goto, CritInit, Admit, config, lockVars, clientVars,
        Entering, Disciplined, InLock, PCs, Builds
<1>1. TypeOK'
  BY DEF Counted
<1>2. Counted'
  BY DEF Counted
<1>3. Built'
  BY DEF Built
<1>4. Fresh'
  BY DEF Fresh
<1>5. Disciplined' => Created'
  BY DEF Created, Held, Built
<1>6. Disciplined' => Held'
  BY DEF Created, Held, Built
<1>7. Disciplined' /\ build' = "windows" => Deep'
  BY DEF Created, Held, Built, Deep, Fresh, Counted
<1>8. Disciplined' /\ build' # "windows" => Flat'
  BY DEF Created, Held, Built, Flat, Fresh, Counted
<1>9. QED
  BY <1>1, <1>2, <1>3, <1>4, <1>5, <1>6, <1>7, <1>8

\* Nobody holds the section that is being created.
LEMMA InitializeCriticalSectionKeeps ==
  ASSUME NEW t \in Threads, IInv, InitializeCriticalSection(t)
  PROVE  IInv'
<1> USE MaxCallsAssumption, NoThreadAssumption
    DEF IInv, TypeOK, Goto, InitializeCriticalSection, Admit, config, lockVars, clientVars,
        Entering, Disciplined, InLock, PCs, Builds
<1>1. TypeOK'
  BY DEF Counted
<1>2. Counted'
  BY DEF Counted
<1>3. Built'
  BY DEF Built
<1>4. Fresh'
  BY DEF Fresh
<1>5. Disciplined' => Created'
  BY DEF Created, Held, Built
<1>6. Disciplined' => Held'
  BY DEF Created, Held, Built
<1>7. Disciplined' /\ build' = "windows" => Deep'
  BY DEF Created, Held, Built, Deep, Fresh, Counted
<1>8. Disciplined' /\ build' # "windows" => Flat'
  BY DEF Created, Held, Built, Flat, Fresh, Counted
<1>9. QED
  BY <1>1, <1>2, <1>3, <1>4, <1>5, <1>6, <1>7, <1>8

\* From here on the section may be held.
LEMMA PublishCriticalSectionKeeps ==
  ASSUME NEW t \in Threads, IInv, PublishCriticalSection(t)
  PROVE  IInv'
<1> USE MaxCallsAssumption, NoThreadAssumption
    DEF IInv, TypeOK, Goto, PublishCriticalSection, Admit, config, lockVars, clientVars,
        Entering, Disciplined, InLock, PCs, Builds
<1>1. TypeOK'
  BY DEF Counted
<1>2. Counted'
  BY DEF Counted
<1>3. Built'
  BY DEF Built
<1>4. Fresh'
  BY DEF Fresh
<1>5. Disciplined' => Created'
  BY DEF Created, Held, Built
<1>6. Disciplined' => Held'
  BY DEF Created, Held, Built
<1>7. Disciplined' /\ build' = "windows" => Deep'
  BY DEF Created, Held, Built, Deep, Fresh, Counted
<1>8. Disciplined' /\ build' # "windows" => Flat'
  BY DEF Created, Held, Built, Flat, Fresh, Counted
<1>9. QED
  BY <1>1, <1>2, <1>3, <1>4, <1>5, <1>6, <1>7, <1>8

\* The lock is free, or on Windows its owner's.
LEMMA LockKeeps ==
  ASSUME NEW t \in Threads, IInv, Lock(t)
  PROVE  IInv'
<1> USE MaxCallsAssumption, NoThreadAssumption
    DEF IInv, TypeOK, Goto, Lock, Admit, config, lockVars, clientVars,
        Entering, Disciplined, InLock, PCs, Builds
<1>1. TypeOK'
  BY DEF Counted
<1>2. Counted'
  BY DEF Counted
<1>3. Built'
  BY DEF Built
<1>4. Fresh'
  BY DEF Fresh
<1>5. Disciplined' => Created'
  BY DEF Created, Held, Built
<1>6. Disciplined' => Held'
  BY DEF Created, Held, Built
<1>7. Disciplined' /\ build' = "windows" => Deep'
  BY DEF Created, Held, Built, Deep, Fresh, Counted
<1>8. Disciplined' /\ build' # "windows" => Flat'
  BY DEF Created, Held, Built, Flat, Fresh, Counted
<1>9. QED
  BY <1>1, <1>2, <1>3, <1>4, <1>5, <1>6, <1>7, <1>8

\* The flag is set by a thread that holds the lock: by this one, which is
\* inside already.
LEMMA AssertionFailsKeeps ==
  ASSUME NEW t \in Threads, IInv, AssertionFails(t)
  PROVE  IInv'
<1> USE MaxCallsAssumption, NoThreadAssumption
    DEF IInv, TypeOK, Goto, AssertionFails, Admit, config, lockVars, clientVars,
        Entering, Disciplined, InLock, PCs, Builds
<1>1. TypeOK'
  BY DEF Counted
<1>2. Counted'
  BY DEF Counted
<1>3. Built'
  BY DEF Built
<1>4. Fresh'
  BY DEF Fresh
<1>5. Disciplined' => Created'
  BY DEF Created, Held, Built
<1>6. Disciplined' => Held'
  BY DEF Created, Held, Built
<1>7. Disciplined' /\ build' = "windows" => Deep'
  BY DEF Created, Held, Built, Deep, Fresh, Counted
<1>8. Disciplined' /\ build' # "windows" => Flat'
  BY DEF Created, Held, Built, Flat, Fresh, Counted
<1>9. QED
  BY <1>1, <1>2, <1>3, <1>4, <1>5, <1>6, <1>7, <1>8

\* The thread is inside from here on.
LEMMA MarkKeeps ==
  ASSUME NEW t \in Threads, IInv, Mark(t)
  PROVE  IInv'
<1> USE MaxCallsAssumption, NoThreadAssumption
    DEF IInv, TypeOK, Goto, Mark, Admit, config, lockVars, clientVars,
        Entering, Disciplined, InLock, PCs, Builds
<1>1. TypeOK'
  BY DEF Counted
<1>2. Counted'
  BY DEF Counted
<1>3. Built'
  BY DEF Built
<1>4. Fresh'
  BY DEF Fresh
<1>5. Disciplined' => Created'
  BY DEF Created, Held, Built
<1>6. Disciplined' => Held'
  BY DEF Created, Held, Built
<1>7. Disciplined' /\ build' = "windows" => Deep'
  BY DEF Created, Held, Built, Deep, Fresh, Counted
<1>8. Disciplined' /\ build' # "windows" => Flat'
  BY DEF Created, Held, Built, Flat, Fresh, Counted
<1>9. QED
  BY <1>1, <1>2, <1>3, <1>4, <1>5, <1>6, <1>7, <1>8

\* The flag of the thread that leaves; it is inside still if it entered twice.
LEMMA ClearFlagKeeps ==
  ASSUME NEW t \in Threads, IInv, ClearFlag(t)
  PROVE  IInv'
<1> USE MaxCallsAssumption, NoThreadAssumption
    DEF IInv, TypeOK, Goto, ClearFlag, Admit, config, lockVars, clientVars,
        Entering, Disciplined, InLock, PCs, Builds
<1>1. TypeOK'
  BY DEF Counted
<1>2. Counted'
  BY DEF Counted
<1>3. Built'
  BY DEF Built
<1>4. Fresh'
  BY DEF Fresh
<1>5. Disciplined' => Created'
  BY DEF Created, Held, Built
<1>6. Disciplined' => Held'
  BY DEF Created, Held, Built
<1>7. Disciplined' /\ build' = "windows" => Deep'
  BY DEF Created, Held, Built, Deep, Fresh, Counted
<1>8. Disciplined' /\ build' # "windows" => Flat'
  BY DEF Created, Held, Built, Flat, Fresh, Counted
<1>9. QED
  BY <1>1, <1>2, <1>3, <1>4, <1>5, <1>6, <1>7, <1>8

\* The lock is free again unless its owner has entered deeper.
LEMMA UnlockKeeps ==
  ASSUME NEW t \in Threads, IInv, Unlock(t)
  PROVE  IInv'
<1> USE MaxCallsAssumption, NoThreadAssumption
    DEF IInv, TypeOK, Goto, Unlock, Admit, config, lockVars, clientVars,
        Entering, Disciplined, InLock, PCs, Builds
<1>1. TypeOK'
  BY DEF Counted
<1>2. Counted'
  BY DEF Counted
<1>3. Built'
  BY DEF Built
<1>4. Fresh'
  BY DEF Fresh
<1>5. Disciplined' => Created'
  BY DEF Created, Held, Built
<1>6. Disciplined' => Held'
  BY DEF Created, Held, Built, Deep, Flat
<1>7. Disciplined' /\ build' = "windows" => Deep'
  BY DEF Created, Held, Built, Deep, Fresh, Counted
<1>8. Disciplined' /\ build' # "windows" => Flat'
  BY DEF Created, Held, Built, Flat, Fresh, Counted
<1>9. QED
  BY <1>1, <1>2, <1>3, <1>4, <1>5, <1>6, <1>7, <1>8

\* All threads idle, all calls left.
LEMMA InitHolds == Init => IInv
<1> SUFFICES ASSUME Init PROVE IInv
  OBVIOUS
<1> USE MaxCallsAssumption, NoThreadAssumption DEF Init
<1>1. TypeOK
  <2>1. asserts \in BOOLEAN /\ aborted \in BOOLEAN /\ strayed \in BOOLEAN
    BY Zenon
  <2>2. build \in Builds /\ reentered \subseteq Threads /\ pc \in [Threads -> PCs]
    BY DEF PCs
  <2>3. inside \in [Threads -> 0..MaxCalls] /\ calls \in [Threads -> 0..MaxCalls]
    BY DEF Init
  <2>4. lockInitialized \in 0..2 /\ holder \in Threads \cup {NoThread} /\ depth \in 0..MaxCalls
        /\ locked \in {0, 1}
    BY DEF Init
  <2>5. QED
    BY <2>1, <2>2, <2>3, <2>4 DEF TypeOK
<1>2. Counted /\ Built /\ Fresh
  BY DEF Counted, Built, Fresh, Entering
<1>3. Created /\ Held
  BY DEF Created, Held, InLock
<1>4. Deep /\ Flat
  BY DEF Deep, Flat, InLock
<1>5. QED
  BY <1>1, <1>2, <1>3, <1>4 DEF IInv

\* The invariant is inductive.
LEMMA NextKeeps == IInv /\ [Next]_vars => IInv'
<1> SUFFICES ASSUME IInv, [Next]_vars PROVE IInv'
  OBVIOUS
<1>1. CASE UNCHANGED vars
  BY <1>1 DEF vars, config, lockVars, clientVars, IInv, TypeOK, Counted, Built, Fresh, Created, Held, Deep,
              Flat, Disciplined, InLock
<1>2. ASSUME NEW t \in Threads, LibStep(t) PROVE IInv'
  BY <1>2, CritInitKeeps, InitializeCriticalSectionKeeps, PublishCriticalSectionKeeps, LockKeeps,
     AssertionFailsKeeps, MarkKeeps, ClearFlagKeeps, UnlockKeeps DEF LibStep
<1>3. QED
  BY <1>1, <1>2, CallEnterKeeps, CallLeaveKeeps, StrayLeaveKeeps DEF Next, Finished

\* It holds in every behaviour; fairness is not needed.
LEMMA Invariance == FairSpec => []IInv
  BY InitHolds, NextKeeps, PTL DEF FairSpec

\* Two threads are inside at once only if the build has no lock or some thread
\* left a section it was not in, whatever else the clients do: the flag that
\* init.c:63, 71, 93 and 101 test is not the owner's.
THEOREM ExclusiveHolds == FairSpec => []ExclusiveUnlessStray
<1>1. IInv => ExclusiveUnlessStray
  BY DEF IInv, ExclusiveUnlessStray, Disciplined, Held
<1>2. QED
  BY <1>1, Invariance, PTL

\* Without a stray leave the lock is left taken for ever, and an assertion
\* fails, only on Windows and only after a thread entered twice; elsewhere no
\* thread is inside twice (init.c:57-82).
THEOREM LostOnlyByReentryHolds == FairSpec => []LostOnlyByReentry
<1>1. ASSUME IInv, ~strayed PROVE LostOnlyByReentry
  <2>1. CASE build = "windows"
    BY <1>1, <2>1, NoThreadAssumption DEF IInv, TypeOK, Counted, Disciplined, Deep, LostOnlyByReentry, InLock
  <2>2. CASE build \in {"pthread", "atomic"}
    BY <1>1, <2>2 DEF IInv, Disciplined, Flat, LostOnlyByReentry
  <2>3. CASE build = "none"
    BY <1>1, <2>3, NoThreadAssumption DEF IInv, Built, LostOnlyByReentry
  <2>4. QED
    BY <1>1, <2>1, <2>2, <2>3 DEF IInv, TypeOK, Builds
<1>2. ASSUME strayed PROVE LostOnlyByReentry
  BY <1>2 DEF LostOnlyByReentry
<1>3. QED
  BY <1>1, <1>2, Invariance, PTL

----------------------------------------------------------------------------
Wants == {t \in Threads : pc[t] \in PCs \ {"idle", "clear", "unlock"}}
Insiders == {t \in Threads : inside[t] > 0}
Broken == build = "none" \/ strayed \/ reentered # {}

\* A step that moves no thread into or out of these sets is not seen.
LEMMA Unseen ==
  ASSUME NEW t \in Threads, NEW from, NEW to, TypeOK, Goto(t, from, to), UNCHANGED inside,
         from \in PCs, to \in PCs,
         from \in {"idle", "clear", "unlock"} <=> to \in {"idle", "clear", "unlock"}
  PROVE  UNCHANGED <<Wants, Insiders>>
  BY DEF TypeOK, Goto, Wants, Insiders

\* In an unbroken state the owner is inside once, or on its way in or out.
LEMMA UnbrokenAlone ==
  ASSUME IInv, ~Broken
  PROVE  /\ \A t, u \in Insiders : t = u
         /\ \A t \in Insiders : inside[t] = 1 /\ pc[t] \notin Entering /\ holder = t
  BY DEF IInv, TypeOK, Disciplined, Held, Deep, Flat, Fresh, Broken, Insiders

\* A thread that gets in finds nobody inside.
LEMMA Enters ==
  ASSUME NEW t \in Threads, NEW from \in {"lock", "mark"}, IInv, ~Broken,
         Goto(t, from, "idle"), Admit(t), Insiders = {}
  PROVE  AbstractLock!Enter(t)
<1> USE DEF IInv, TypeOK, Goto, Admit, PCs
<1>1. t \in Wants /\ Wants' = Wants \ {t}
  BY DEF Wants
<1>2. Insiders' = {t}
  BY DEF Insiders
<1>3. QED
  BY <1>1, <1>2 DEF AbstractLock!Enter, Wants, Insiders

\* Safety of the abstract mutex (what crypto.h promises): until a client breaks
\* the rules every step of the three locks is a step of Mutex or is not seen
\* (init.c:32-135).
THEOREM Refinement == FairSpec => AbstractLock!Init /\ [][AbstractLock!Next]_AbstractLock!vars
<1>1. Init => AbstractLock!Init
  BY DEF Init, AbstractLock!Init
<1>2. ASSUME IInv, [Next]_vars PROVE [AbstractLock!Next]_AbstractLock!vars
  <2> USE DEF AbstractLock!vars
  <2>0. CASE Broken'
    BY <2>0 DEF Broken, AbstractLock!Next
  <2>1. CASE UNCHANGED vars
    BY <2>1 DEF vars, config, clientVars
  <2> SUFFICES ASSUME ~Broken', ~UNCHANGED vars PROVE [AbstractLock!Next]_AbstractLock!vars
    BY <2>0, <2>1
  <2>2. ~Broken
    BY <1>2 DEF Broken, Next, Finished, CallEnter, CallLeave, StrayLeave, LibStep, CritInit,
                InitializeCriticalSection, PublishCriticalSection, Lock, AssertionFails, Mark,
                ClearFlag, Unlock, config, clientVars, vars
  <2> USE <1>2, <2>2 DEF IInv
  <2>3. Broken' = FALSE /\ Broken = FALSE
    BY <2>2 DEF Broken
  <2>4. ASSUME NEW t \in Threads, CallEnter(t) PROVE AbstractLock!Ask(t)
    <3>1. t \notin Insiders /\ pc[t] = "idle" /\ pc'[t] \in PCs \ {"idle", "clear", "unlock"}
      BY <2>4 DEF CallEnter, Goto, Entry, TypeOK, Broken, Insiders, PCs
    <3>2. t \notin Wants /\ Wants' = Wants \cup {t}
      BY <2>4, <3>1 DEF CallEnter, Goto, TypeOK, Wants
    <3>3. Insiders' = Insiders
      BY <2>4 DEF CallEnter, Broken, Insiders
    <3>4. QED
      BY <3>1, <3>2, <3>3 DEF AbstractLock!Ask, Wants, Insiders
  <2>5. ASSUME NEW t \in Threads, CallLeave(t) PROVE AbstractLock!Leave(t)
    <3>1. t \in Insiders /\ Insiders' = Insiders \ {t}
      BY <2>5, UnbrokenAlone DEF CallLeave, TypeOK, Insiders
    <3>2. pc[t] = "idle" /\ pc'[t] \in {"idle", "clear", "unlock"}
      BY <2>5 DEF CallLeave, Goto, Exit, TypeOK, Broken
    <3>3. Wants' = Wants
      BY <2>5, <3>2 DEF CallLeave, Goto, TypeOK, Wants
    <3>4. QED
      BY <3>1, <3>3 DEF AbstractLock!Leave, Wants, Insiders
  <2>6. ASSUME NEW t \in Threads, StrayLeave(t) PROVE FALSE
    BY <2>6 DEF StrayLeave, Broken
  <2>7. ASSUME NEW t \in Threads, CritInit(t) \/ InitializeCriticalSection(t)
                                  \/ PublishCriticalSection(t) \/ ClearFlag(t) \/ Unlock(t)
        PROVE  UNCHANGED <<Wants, Insiders>>
    BY <2>7, Unseen DEF CritInit, InitializeCriticalSection, PublishCriticalSection, ClearFlag,
                        Unlock, clientVars, PCs
  <2>8. ASSUME NEW t \in Threads, AssertionFails(t) PROVE UNCHANGED <<Wants, Insiders>>
    BY <2>8 DEF AssertionFails, clientVars, Wants, Insiders
  <2>9. ASSUME NEW t \in Threads, Lock(t), build # "atomic" PROVE UNCHANGED <<Wants, Insiders>>
    BY <2>9, Unseen DEF Lock, PCs
  <2>10. ASSUME NEW t \in Threads, Lock(t), build = "atomic" PROVE AbstractLock!Enter(t)
    <3>1. Insiders = {}
      BY <2>10, UnbrokenAlone, NoThreadAssumption DEF Lock, Insiders
    <3>2. QED
      BY <2>10, <3>1, Enters DEF Lock
  <2>11. ASSUME NEW t \in Threads, Mark(t) PROVE AbstractLock!Enter(t)
    <3>1. holder = t /\ pc[t] \in Entering
      BY <2>11 DEF Mark, Goto, Held, InLock, Disciplined, Broken, Entering
    <3>2. Insiders = {}
      BY <3>1, UnbrokenAlone DEF Insiders
    <3>3. QED
      BY <2>11, <3>2, Enters DEF Mark
  <2>12. QED
    BY <2>3, <2>4, <2>5, <2>6, <2>7, <2>8, <2>9, <2>10, <2>11
       DEF Next, Finished, LibStep, AbstractLock!Next, Wants, Insiders, Broken
<1>3. QED
  BY <1>1, <1>2, Invariance, PTL DEF FairSpec
=============================================================================
