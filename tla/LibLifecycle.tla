---------------------------- MODULE LibLifecycle ----------------------------
(***************************************************************************)
(* What init.c promises its callers: CRYPTO_init, CRYPTO_deinit and client *)
(* critical sections take effect one at a time, each at one instant        *)
(* between its invocation and its return; an initialisation takes effect   *)
(* only over a built table, the table is built once and never again, and   *)
(* the process may die only of a failure to build it.                      *)
(***************************************************************************)
CONSTANT Threads

VARIABLES
  up,      \* the library is initialised
  built,   \* the table of multiples of the generator is complete
  dead,    \* the process has aborted
  pend     \* the call each thread is in: none, not yet effective, or done

vars == <<up, built, dead, pend>>

Ops == {"init", "deinit", "section"}

TypeOK ==
  /\ up \in BOOLEAN /\ built \in BOOLEAN /\ dead \in BOOLEAN
  /\ pend \in [Threads -> Ops \cup {"none", "done"}]

Init ==
  /\ ~up /\ ~built /\ ~dead
  /\ pend = [t \in Threads |-> "none"]

Step(t, from, to) ==
  /\ ~dead
  /\ pend[t] = from
  /\ pend' = [pend EXCEPT ![t] = to]

Invoke(t) ==
  /\ \E o \in Ops : Step(t, "none", o)
  /\ UNCHANGED <<up, built, dead>>

Build ==
  /\ ~dead /\ ~built
  /\ \E t \in Threads : pend[t] = "init"
  /\ built' = TRUE
  /\ UNCHANGED <<up, dead, pend>>

InitTakesEffect(t) ==
  /\ Step(t, "init", "done")
  /\ built /\ up' = TRUE
  /\ UNCHANGED <<built, dead>>

DeinitTakesEffect(t) ==
  /\ Step(t, "deinit", "done")
  /\ up' = FALSE
  /\ UNCHANGED <<built, dead>>

SectionTakesEffect(t) ==
  /\ Step(t, "section", "done")
  /\ UNCHANGED <<up, built, dead>>

Return(t) ==
  /\ Step(t, "done", "none")
  /\ UNCHANGED <<up, built, dead>>

Die ==
  /\ ~dead /\ ~built
  /\ \E t \in Threads : pend[t] = "init"
  /\ dead' = TRUE
  /\ UNCHANGED <<up, built, pend>>

Effect(t) == InitTakesEffect(t) \/ DeinitTakesEffect(t) \/ SectionTakesEffect(t)

Next ==
  \/ \E t \in Threads : Invoke(t) \/ Effect(t) \/ Return(t)
  \/ Build
  \/ Die

Spec == Init /\ [][Next]_vars

\* A call that was made is carried through, unless the process dies.
FairSpec ==
  /\ Spec
  /\ WF_vars(Build \/ Die)
  /\ \A t \in Threads : WF_vars(Effect(t)) /\ WF_vars(Return(t))
=============================================================================
