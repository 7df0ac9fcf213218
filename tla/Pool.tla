-------------------------------- MODULE Pool --------------------------------
(***************************************************************************)
(* What the server promises to those who send requests: a number of slots, *)
(* each of which serves one request at a time and then listens again.      *)
(*                                                                         *)
(* And what it does not promise: a slot whose accept fails, or gets a      *)
(* datagram that is no request, goes deaf, and a deaf slot stays so.       *)
(* While the server is open there is no other way to lose one.             *)
(***************************************************************************)
CONSTANT Slots

VARIABLES
  slot,  \* "listening", "busy", "failing" or "deaf"
  open   \* the server has not been stopped

vars == <<slot, open>>

Init == slot = [s \in Slots |-> "listening"] /\ open = TRUE

Take(s) ==
  /\ slot[s] = "listening"
  /\ slot' = [slot EXCEPT ![s] = "busy"]
  /\ UNCHANGED open

Release(s) ==
  /\ slot[s] = "busy"
  /\ slot' = [slot EXCEPT ![s] = IF open THEN "listening" ELSE "deaf"]
  /\ UNCHANGED open

\* The accept ends without a request.
Fail(s) ==
  /\ slot[s] = "listening"
  /\ slot' = [slot EXCEPT ![s] = "failing"]
  /\ UNCHANGED open

Deafen(s) ==
  /\ slot[s] = "failing"
  /\ slot' = [slot EXCEPT ![s] = "deaf"]
  /\ UNCHANGED open

\* Every accept in flight is aborted; what is busy goes on.
Stop ==
  /\ open /\ open' = FALSE
  /\ slot' = [s \in Slots |-> IF slot[s] = "listening" THEN "failing" ELSE slot[s]]

Next == Stop \/ \E s \in Slots : Take(s) \/ Release(s) \/ Fail(s) \/ Deafen(s)

Spec == Init /\ [][Next]_vars
=============================================================================
