----------------------------- MODULE ChangeLog -----------------------------
(***************************************************************************)
(* What a log of changes promises, whatever table a broker keeps for it:   *)
(* every function publishes its signals and is then observed once, and an  *)
(* observation logs an event with the current value of all the signals     *)
(* exactly when nothing was logged before or a watched signal differs from *)
(* what the last event showed.                                             *)
(***************************************************************************)
EXTENDS Naturals

CONSTANTS Functions,  \* the functions (GAMs) that publish signals
          Never       \* shown by a function that has logged no event yet

VARIABLES
  turn,       \* what each function does next: "absent", "publish", "observe"
  watched,    \* the signals of each function whose change is an event
  published,  \* the current value of each signal of each function
  shown,      \* the values in the last event of each function, or Never
  number      \* the number of that event

vars == <<turn, watched, published, shown, number>>

Init ==
  /\ turn = [f \in Functions |-> "absent"]
  /\ shown = [f \in Functions |-> Never]
  /\ number = [f \in Functions |-> 0]

(* A function is connected with the signals it will publish.               *)
Connect(f) ==
  /\ turn[f] = "absent"
  /\ turn' = [turn EXCEPT ![f] = "publish"]
  /\ \A g \in Functions \ {f} :
       watched'[g] = watched[g] /\ published'[g] = published[g]
  /\ UNCHANGED <<shown, number>>

Publish(f) ==
  /\ turn[f] = "publish"
  /\ turn' = [turn EXCEPT ![f] = "observe"]
  /\ \A g \in Functions \ {f} : published'[g] = published[g]
  /\ UNCHANGED <<watched, shown, number>>

Changed(f) ==
  shown[f] = Never \/ \E s \in watched[f] : published[f][s] # shown[f][s]

Event(f) ==
  /\ turn[f] = "observe"
  /\ Changed(f)
  /\ turn' = [turn EXCEPT ![f] = "publish"]
  /\ shown' = [shown EXCEPT ![f] = published[f]]
  /\ number' = [number EXCEPT ![f] = @ + 1]
  /\ UNCHANGED <<watched, published>>

Silence(f) ==
  /\ turn[f] = "observe"
  /\ ~Changed(f)
  /\ turn' = [turn EXCEPT ![f] = "publish"]
  /\ UNCHANGED <<watched, published, shown, number>>

Next == \E f \in Functions : Connect(f) \/ Publish(f) \/ Event(f) \/ Silence(f)

Spec == Init /\ [][Next]_vars
=============================================================================
