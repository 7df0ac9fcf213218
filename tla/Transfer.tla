------------------------------ MODULE Transfer ------------------------------
(***************************************************************************)
(* What a file transfer promises, whichever way it goes: what the receiver *)
(* has is at all times the beginning of the file, and the client takes the *)
(* transfer for complete only when the receiver has all of it.             *)
(***************************************************************************)
EXTENDS Naturals, Sequences

CONSTANT Clients  \* one transfer for each

VARIABLES
  size,    \* the length of the file that is transferred
  got,     \* the units of the file that the receiver has, in their order
  outcome  \* what the client thinks of the transfer

vars == <<size, got, outcome>>

\* The first n units of a file: a unit is the number of its place.
FirstUnits(n) == [k \in 1 .. n |-> k]

Init ==
  /\ size \in [Clients -> Nat]
  /\ got = [c \in Clients |-> <<>>]
  /\ outcome = [c \in Clients |-> "open"]

\* The receiver gets more of the file.
Receive(c) ==
  /\ \E n \in Len(got[c]) .. size[c] : got' = [got EXCEPT ![c] = FirstUnits(n)]
  /\ UNCHANGED <<size, outcome>>

\* The client sees the end of the transfer, perhaps with its last part.
Complete(c) ==
  /\ outcome[c] = "open"
  /\ got' = [got EXCEPT ![c] = FirstUnits(size[c])]
  /\ outcome' = [outcome EXCEPT ![c] = "complete"]
  /\ UNCHANGED size

Fail(c) ==
  /\ outcome[c] = "open"
  /\ outcome' = [outcome EXCEPT ![c] = "failed"]
  /\ UNCHANGED <<size, got>>

Next == \E c \in Clients : Receive(c) \/ Complete(c) \/ Fail(c)

Spec == Init /\ [][Next]_vars
=============================================================================
