---------------------------- MODULE TaskLifecycle ----------------------------
(***************************************************************************)
(* What the durable queue promises for an accepted request: it may be tried *)
(* a bounded number of times, it takes effect at most once and only after  *)
(* it was tried, and it does not stay open for ever.                       *)
(***************************************************************************)
EXTENDS Naturals

CONSTANTS Task, MaxAttempts

VARIABLES
  phase,   \* phase[t]: "absent", "open", "effective" or "void"
  tries    \* tries[t]: how often t was handed to a worker

vars == <<phase, tries>>

Init ==
  /\ phase = [t \in Task |-> "absent"]
  /\ tries = [t \in Task |-> 0]

Submit(t) ==
  /\ phase[t] = "absent"
  /\ phase' = [phase EXCEPT ![t] = "open"]
  /\ UNCHANGED tries

Try(t) ==
  /\ phase[t] = "open"
  /\ tries[t] < MaxAttempts
  /\ tries' = [tries EXCEPT ![t] = @ + 1]
  /\ UNCHANGED phase

TakeEffect(t) ==
  /\ phase[t] = "open"
  /\ tries[t] > 0
  /\ phase' = [phase EXCEPT ![t] = "effective"]
  /\ UNCHANGED tries

\* One event of the system may give up several requests.
GiveUp(S) ==
  /\ \A t \in S : phase[t] = "open"
  /\ phase' = [t \in Task |-> IF t \in S THEN "void" ELSE phase[t]]
  /\ UNCHANGED tries

\* A newer request takes the place of an older one in one step.
Supersede(old, new) ==
  /\ phase[old] = "open"
  /\ phase[new] = "absent"
  /\ phase' = [phase EXCEPT ![old] = "void", ![new] = "open"]
  /\ UNCHANGED tries

Next ==
  \/ \E S \in SUBSET Task : GiveUp(S)
  \/ \E t \in Task : Submit(t) \/ Try(t) \/ TakeEffect(t)
  \/ \E old, new \in Task : Supersede(old, new)

Spec == Init /\ [][Next]_vars

\* Nothing stays open for ever.
Closes == \A t \in Task : phase[t] = "open" ~> phase[t] \in {"effective", "void"}

FairSpec == Spec /\ Closes

=============================================================================
