--------------------------- MODULE TransferProofs ---------------------------
(***************************************************************************)
(* What follows from being a transfer, for every number of clients and     *)
(* every size: proved here once, and so for Download and Upload, which     *)
(* implement Transfer.                                                     *)
(***************************************************************************)
EXTENDS Transfer, TLAPS

\* What the receiver has is a beginning of the file, and all of it once the
\* client takes the transfer for complete.
Promised ==
  \A c \in Clients :
    /\ \E n \in 0 .. size[c] : got[c] = FirstUnits(n)
    /\ outcome[c] = "complete" => got[c] = FirstUnits(size[c])

\* No step takes a unit away, and none changes what a client has concluded.
Lasting ==
  \A c \in Clients :
    /\ Len(got[c]) <= Len(got'[c])
    /\ outcome[c] # "open" => outcome'[c] = outcome[c]

TransferInv ==
  /\ size \in [Clients -> Nat]
  /\ got \in [Clients -> {FirstUnits(n) : n \in Nat}]
  /\ outcome \in [Clients -> {"open", "complete", "failed"}]
  /\ Promised

\* The first n units are n.
LEMMA FirstUnitsLength ==
  ASSUME NEW n \in Nat
  PROVE  Len(FirstUnits(n)) = n
<1>1. FirstUnits(n) \in Seq(Nat) /\ DOMAIN FirstUnits(n) = 1 .. n
  BY DEF FirstUnits
<1> QED BY <1>1

\* Each step keeps the promise and takes nothing back: a client that receives
\* more after the end has all of the file already.
LEMMA TransferStep ==
  ASSUME TransferInv, Next
  PROVE  TransferInv' /\ Lasting
<1>1. PICK c \in Clients : Receive(c) \/ Complete(c) \/ Fail(c)
  BY DEF Next
<1>2. /\ size \in [Clients -> Nat] /\ size[c] \in Nat
      /\ got \in [Clients -> {FirstUnits(n) : n \in Nat}]
      /\ outcome \in [Clients -> {"open", "complete", "failed"}]
  BY DEF TransferInv
<1>3. PICK m \in 0 .. size[c] : got[c] = FirstUnits(m) /\ Len(got[c]) = m
  BY <1>2, FirstUnitsLength DEF TransferInv, Promised
<1>4. /\ size' = size
      /\ \E n \in m .. size[c] : got' = [got EXCEPT ![c] = FirstUnits(n)]
      /\ \E v \in {"open", "complete", "failed"} :
           /\ outcome' = [outcome EXCEPT ![c] = v]
           /\ outcome[c] # "open" => v = outcome[c]
           /\ v = "complete" => got'[c] = FirstUnits(size[c])
  <2>1. CASE Receive(c)
    <3>1. PICK n \in m .. size[c] : got' = [got EXCEPT ![c] = FirstUnits(n)]
      BY <1>3, <2>1 DEF Receive
    <3>2. outcome[c] = "complete" => m = size[c]
      <4>1. outcome[c] = "complete" => Len(FirstUnits(m)) = Len(FirstUnits(size[c]))
        BY <1>3 DEF TransferInv, Promised
      <4> QED BY <1>2, <4>1, FirstUnitsLength
    <3>3. outcome[c] = "complete" => got'[c] = FirstUnits(size[c])
      BY <1>2, <3>1, <3>2
    <3>4. outcome' = [outcome EXCEPT ![c] = outcome[c]]
          /\ outcome[c] \in {"open", "complete", "failed"}
      BY <1>2, <2>1 DEF Receive
    <3> QED BY <2>1, <3>1, <3>3, <3>4 DEF Receive
  <2>2. CASE Complete(c)
    <3>1. size[c] \in m .. size[c]
      BY <1>2
    <3>2. got' = [got EXCEPT ![c] = FirstUnits(size[c])] /\ size' = size
      BY <2>2 DEF Complete
    <3>3. got'[c] = FirstUnits(size[c])
      BY <1>2, <3>2
    <3> QED BY <2>2, <3>1, <3>2, <3>3 DEF Complete
  <2>3. CASE Fail(c)
    <3>1. m \in m .. size[c]
      OBVIOUS
    <3>2. got' = [got EXCEPT ![c] = FirstUnits(m)] /\ size' = size
      BY <1>2, <1>3, <2>3 DEF Fail
    <3> QED BY <2>3, <3>1, <3>2 DEF Fail
  <2> QED BY <1>1, <2>1, <2>2, <2>3
<1>5. PICK n \in m .. size[c] : got' = [got EXCEPT ![c] = FirstUnits(n)]
  BY <1>4
<1>6. n \in 0 .. size[c] /\ n \in Nat /\ got'[c] = FirstUnits(n) /\ Len(got'[c]) = n
  BY <1>2, <1>5, FirstUnitsLength
<1>7. /\ \A b \in Clients \ {c} : got'[b] = got[b] /\ outcome'[b] = outcome[b]
      /\ outcome' \in [Clients -> {"open", "complete", "failed"}]
      /\ outcome[c] # "open" => outcome'[c] = outcome[c]
      /\ outcome'[c] = "complete" => got'[c] = FirstUnits(size[c])
  BY <1>2, <1>4, <1>5
<1>8. got' \in [Clients -> {FirstUnits(k) : k \in Nat}]
  BY <1>2, <1>5, <1>6
<1>9. Promised'
  <2> SUFFICES ASSUME NEW b \in Clients
               PROVE  /\ \E k \in 0 .. size'[b] : got'[b] = FirstUnits(k)
                      /\ outcome'[b] = "complete" => got'[b] = FirstUnits(size'[b])
    BY DEF Promised
  <2>1. CASE b = c
    BY <1>4, <1>6, <1>7, <2>1
  <2>2. CASE b # c
    BY <1>4, <1>7, <2>2 DEF TransferInv, Promised
  <2> QED BY <2>1, <2>2
<1>10. Lasting
  <2> SUFFICES ASSUME NEW b \in Clients
               PROVE  /\ Len(got[b]) <= Len(got'[b])
                      /\ outcome[b] # "open" => outcome'[b] = outcome[b]
    BY DEF Lasting
  <2>1. CASE b = c
    BY <1>3, <1>5, <1>6, <1>7, <2>1
  <2>2. CASE b # c
    <3>1. PICK k \in 0 .. size[b] : got[b] = FirstUnits(k)
      BY DEF TransferInv, Promised
    <3>2. k \in Nat /\ Len(got[b]) = k
      BY <3>1, FirstUnitsLength DEF TransferInv
    <3> QED BY <1>7, <2>2, <3>2
  <2> QED BY <2>1, <2>2
<1> QED BY <1>2, <1>4, <1>7, <1>8, <1>9, <1>10 DEF TransferInv

\* The invariant holds throughout a transfer.
THEOREM TransferInvariance == Spec => []TransferInv
<1>1. Init => TransferInv
  <2> SUFFICES ASSUME Init PROVE TransferInv
    OBVIOUS
  <2>1. <<>> = FirstUnits(0)
    BY DEF FirstUnits
  <2>2. got \in [Clients -> {FirstUnits(n) : n \in Nat}]
    BY <2>1 DEF Init
  <2>3. ASSUME NEW c \in Clients
        PROVE  0 \in 0 .. size[c] /\ got[c] = FirstUnits(0) /\ outcome[c] = "open"
    <3>1. size[c] \in Nat
      BY DEF Init
    <3> QED BY <2>1, <3>1 DEF Init
  <2> QED BY <2>2, <2>3 DEF Init, TransferInv, Promised
<1>2. TransferInv /\ [Next]_vars => TransferInv'
  <2>1. TransferInv /\ UNCHANGED vars => TransferInv'
    BY DEF TransferInv, Promised, vars
  <2> QED BY <2>1, TransferStep
<1> QED BY <1>1, <1>2, PTL DEF Spec

\* The receiver always has a beginning of the file, and all of it when the
\* client takes the transfer for complete.
THEOREM PromiseIsKept == Spec => []Promised
<1>1. TransferInv => Promised
  BY DEF TransferInv
<1> QED BY <1>1, TransferInvariance, PTL

\* What the receiver has only grows, and what a client has concluded is final.
THEOREM NothingIsTakenBack == Spec => [][Lasting]_vars
<1>1. TransferInv /\ [Next]_vars => [Lasting]_vars
  BY TransferStep
<1> QED BY <1>1, TransferInvariance, PTL DEF Spec
=============================================================================
