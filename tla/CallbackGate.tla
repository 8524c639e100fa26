---------------------------- MODULE CallbackGate ----------------------------
(***************************************************************************)
(* What the owner of a winrt.EventHandler may rely on: the callback runs   *)
(* on any number of threads while the gate is open, no run of it starts    *)
(* once closing has begun, and closing is over only when none is left, so  *)
(* that the owner may then tear down what the callback uses.               *)
(***************************************************************************)
CONSTANT Deliveries  \* the event deliveries, each on a thread of its own

VARIABLES active,    \* the deliveries inside the callback
          over,      \* the deliveries that have left it or were turned away
          phase      \* open, closing or closed

vars == <<active, over, phase>>

TypeOK == /\ active \subseteq Deliveries
          /\ over \subseteq Deliveries \ active
          /\ phase \in {"open", "closing", "closed"}

Init == /\ active = {}
        /\ over = {}
        /\ phase = "open"

Enter(d) == /\ phase = "open"
            /\ d \notin active \cup over
            /\ active' = active \cup {d}
            /\ UNCHANGED <<over, phase>>

TurnAway(d) == /\ phase # "open"
               /\ d \notin active \cup over
               /\ over' = over \cup {d}
               /\ UNCHANGED <<active, phase>>

Leave(d) == /\ d \in active
            /\ active' = active \ {d}
            /\ over' = over \cup {d}
            /\ UNCHANGED phase

BeginClose == /\ phase = "open"
              /\ phase' = "closing"
              /\ UNCHANGED <<active, over>>

FinishClose == /\ phase = "closing"
               /\ active = {}
               /\ phase' = "closed"
               /\ UNCHANGED <<active, over>>

Next == \/ \E d \in Deliveries : Enter(d) \/ TurnAway(d) \/ Leave(d)
        \/ BeginClose
        \/ FinishClose

Spec == Init /\ [][Next]_vars
=============================================================================
