------------------------------- MODULE Mutex -------------------------------
(***************************************************************************)
(* What CRYPTO_crit_enter and CRYPTO_crit_leave promise (crypto.h): at     *)
(* most one thread is between the two, and whoever asks to enter gets in,  *)
(* provided every enter is followed by one leave of the same thread.  Once *)
(* a client has broken that rule nothing is promised.                      *)
(***************************************************************************)
CONSTANT Threads

VARIABLES
  wants,    \* threads inside a call of enter
  inside,   \* threads between enter and leave
  broken    \* the rule was broken, or there is no lock at all

vars == <<wants, inside, broken>>

Init ==
  /\ wants = {} /\ inside = {}
  /\ broken \in BOOLEAN

Ask(t) ==
  /\ t \notin wants \cup inside
  /\ wants' = wants \cup {t}
  /\ UNCHANGED inside

Enter(t) ==
  /\ t \in wants /\ inside = {}
  /\ wants' = wants \ {t} /\ inside' = {t}

Leave(t) ==
  /\ t \in inside
  /\ inside' = inside \ {t}
  /\ UNCHANGED wants

Next ==
  \/ ~broken' /\ ~broken /\ \E t \in Threads : Ask(t) \/ Enter(t) \/ Leave(t)
  \/ broken'

\* A section that is entered is left, and then some thread gets in.
Spec ==
  /\ Init /\ [][Next]_vars
  /\ \A t \in Threads : WF_vars(~broken /\ Leave(t) /\ UNCHANGED broken)
  /\ WF_vars(~broken /\ (\E t \in Threads : Enter(t)) /\ UNCHANGED broken)
=============================================================================
