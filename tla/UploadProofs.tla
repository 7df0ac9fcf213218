---------------------------- MODULE UploadProofs ----------------------------
(***************************************************************************)
(* Uploads keep what Transfer promises and reach the disk, for every value *)
(* of the constants: any number of sessions, clients and files, any block  *)
(* size.                                                                   *)
(***************************************************************************)
EXTENDS Upload, SessionStepProofs, FiniteSetTheorems

-----------------------------------------------------------------------------
(* The inductive invariant.                                                *)

Busy(i) == st[i] # "Accepting"

\* A datagram that a handler brings was sent, to the port of the session.
Delivered(h, n) ==
  h.ok => /\ h.kind = "accept" => h.msg = want[h.from]
          /\ h.kind = "receive" => [from |-> h.from, port |-> n, packet |-> h.msg] \in up
QueueOK(o, n) == \A k \in 1 .. Len(o.ready) : Delivered(o.ready[k], n)

\* What was written at port n is the beginning of the file of e, and at least
\* its first b blocks.
Has(n, e, b) ==
  /\ stream[n] = T!FirstUnits(Len(stream[n])) /\ Len(stream[n]) \in Nat
  /\ Len(stream[n]) <= UploadSize(e)
  /\ Least(b * DefaultBlockSize, UploadSize(e)) <= Len(stream[n])

\* A session in state s, with data d, at port n: it writes what its peer sends,
\* has as many blocks as it has acknowledged, and nobody else has its port.  A
\* client that has chosen another port sends nothing to this one.
Serves(s, d, n) ==
  LET e == d.agreed_remote_endpoint
      b == d.last_saved_block
  IN  s # "Accepting" =>
        /\ e \in Endpoints
        /\ d.file_stream = "write" /\ d.file = want[e].path
        /\ d.send_packet \in Packet
        /\ s = "SendingError" => d.send_packet.op = "ERROR"
        /\ n \in 1 .. ports /\ target[n] = d.file /\ closing[n] = "open"
        /\ Has(n, e, b)
        /\ s # "SendingError" => Len(stream[n]) = Least(b * DefaultBlockSize, UploadSize(e))
        /\ \A m \in down : m.port = n => /\ m.to = e
                                         /\ m.packet.op = "ACK" => m.packet.word <= b
        /\ IF peer[e] = n THEN blocks[e] <= b ELSE Len(stream[n]) = 0 /\ b = 0

ServerInv == \A i \in Sessions : QueueOK(io[i], port[i]) /\ Serves(st[i], fsm[i], port[i])
PortsApart == \A i, j \in Sessions : (i # j /\ Busy(i) /\ Busy(j)) => port[i] # port[j]

\* An ACK is of a block that was written.
DownInv ==
  \A m \in down :
    /\ m.port \in 1 .. ports
    /\ Has(m.port, m.to, IF m.packet.op = "ACK" THEN m.packet.word ELSE 0)
    /\ peer[m.to] # m.port => Len(stream[m.port]) = 0
    /\ target[m.port] = want[m.to].path

\* A DATA goes to the peer, and is a block of the file, the next one at most.
UpInv ==
  \A m \in up :
    m.packet.op = "DATA" =>
      /\ peer[m.from] = m.port
      /\ \E k \in 1 .. WordSize - 1 :
           /\ m.packet = DataBlock(m.from, k)
           /\ k <= blocks[m.from] + 1 /\ Before(k) <= UploadSize(m.from)

\* A client has its peer from a datagram, and is done when all was written.
Chosen(e) ==
  IF peer[e] = NoPort THEN blocks[e] = 0 /\ outcome[e] # "complete"
  ELSE /\ \E m \in down : m.to = e /\ m.port = peer[e]
       /\ outcome[e] = "complete" => Len(stream[peer[e]]) = UploadSize(e)
ClientInv == \A e \in Endpoints : Chosen(e)

\* Ports that have not been given out.
UnusedInv ==
  \A n \in Ports : n > ports =>
    /\ stream[n] = <<>> /\ synced[n] = 0
    /\ target[n] = NoFile /\ closing[n] = "open" /\ n \notin disturbed

\* The requests that the listener has taken and the ports fit in the bound.
Taken(o) == \E k \in 1 .. Len(o.ready) : o.ready[k].kind = "accept" /\ o.ready[k].ok
TakenBy == {i \in Sessions : Taken(io[i])}
BoundInv == ports + Cardinality(TakenBy) <= MaxTransfers

\* The file of an undisturbed port is what its fstream has passed on.
DiskInv ==
  \A n \in 1 .. ports :
    /\ target[n] \in Files
    /\ synced[n] <= Len(stream[n])
    /\ closing[n] = "saved" => synced[n] = Len(stream[n])
    /\ n \notin disturbed => disk[target[n]] = T!FirstUnits(synced[n])
    /\ \A k \in 1 .. ports :
         (k # n /\ target[k] = target[n] /\ closing[k] = "open") => n \in disturbed

NetTypes ==
  /\ want \in [Endpoints -> Requests]
  /\ ports \in 0 .. MaxTransfers /\ port \in [Sessions -> 0 .. MaxTransfers]
  /\ down \subseteq [port : Ports, to : Endpoints, packet : Packet]
  /\ up \subseteq [from : Endpoints, port : Ports, packet : Datagrams]
  /\ peer \in [Endpoints -> Ports \cup {NoPort}]
  /\ blocks \in [Endpoints -> Nat]
  /\ outcome \in [Endpoints -> {"open", "complete", "failed"}]
DiskTypes ==
  /\ target \in [Ports -> Files \cup {NoFile}]
  /\ stream \in [Ports -> Seq(Nat)]
  /\ synced \in [Ports -> Nat]
  /\ disk \in [Files -> Seq(Nat)]
  /\ closing \in [Ports -> {"open", "saved", "lost"}]
  /\ disturbed \subseteq Ports

UploadInv ==
  /\ IInv /\ NetTypes /\ DiskTypes
  /\ ServerInv /\ PortsApart /\ DownInv /\ UpInv /\ ClientInv
  /\ UnusedInv /\ BoundInv /\ DiskInv

-----------------------------------------------------------------------------
(* Clients, sessions and the network make steps of Session.                *)

\* What a client asks for.
LEMMA WantFacts ==
  ASSUME NetTypes, NEW e \in Endpoints
  PROVE  /\ want[e] \in Requests /\ UploadSize(e) \in Nat
         /\ want[e].op = "WRQ" /\ want[e].mode
         /\ want[e].path \in Files \ Unopenable /\ want[e].path # NoFile
<1>1. want[e] \in Requests
  BY DEF NetTypes
<1>2. want[e].tsize \in Nat /\ want[e].op = "WRQ" /\ want[e].mode
      /\ want[e].path \in Files \ Unopenable
  BY <1>1, RequestAssumption
<1> QED BY <1>1, <1>2, FileAssumption DEF UploadSize

\* A step of uploads is one of the sessions, or none.
LEMMA ServerIsSession ==
  ASSUME NetTypes, UploadNext
  PROVE  [Next]_vars
<1>1. ASSUME NEW i \in Sessions, RequestIsDelivered(i) PROVE Next
  <2>1. RequestArrives(i)
    BY <1>1, WantFacts DEF RequestIsDelivered, RequestArrives
  <2> QED BY <2>1 DEF Next, Arrival
<1>2. ASSUME NEW i \in Sessions, DatagramIsDelivered(i) PROVE Next
  <2>1. DatagramArrives(i)
    BY <1>2 DEF DatagramIsDelivered, DatagramArrives, NetTypes
  <2> QED BY <2>1 DEF Next, Arrival
<1>3. ASSUME NEW i \in Sessions, ServerHandles(i) PROVE Next
  <2>1. Handle(i)
    BY <1>3 DEF ServerHandles, Handle
  <2> QED BY <2>1 DEF Next
<1>4. ASSUME NEW i \in Sessions, ServerSends(i) \/ ServerStep(i) PROVE Next
  BY <1>4 DEF ServerSends, ServerStep, Next, Arrival
<1>5. ASSUME NEW e \in Endpoints, ClientTakesAck(e) \/ ClientFails(e) \/ ClientRefuses(e)
      PROVE  UNCHANGED vars
  BY <1>5 DEF ClientTakesAck, ClientFails, ClientRefuses, ClientStep
<1> QED BY <1>1, <1>2, <1>3, <1>4, <1>5 DEF UploadNext, Next

-----------------------------------------------------------------------------
(* The contents of files.                                                  *)

\* What was written before and the next units.
LEMMA JoinUnits ==
  ASSUME NEW m \in Nat, NEW n \in Nat
  PROVE  T!FirstUnits(m) \o [k \in 1 .. n |-> m + k] = T!FirstUnits(m + n)
BY DEF T!FirstUnits

\* The length of a beginning of a file.
LEMMA UnitsLength ==
  ASSUME NEW n \in Nat
  PROVE  Len(T!FirstUnits(n)) = n /\ T!FirstUnits(n) \in Seq(Nat)
BY DEF T!FirstUnits

\* A file that holds the first units, and gets the next ones.
LEMMA OverwriteUnits ==
  ASSUME NEW s \in Nat, NEW k \in Nat, NEW n \in Nat, s <= k, k <= n
  PROVE  Overwrite(T!FirstUnits(s), s + 1, SubSeq(T!FirstUnits(n), s + 1, k))
           = T!FirstUnits(k)
<1> DEFINE file == T!FirstUnits(s)
           units == SubSeq(T!FirstUnits(n), s + 1, k)
<1>1. T!FirstUnits(n) \in Seq(Nat) /\ Len(T!FirstUnits(n)) = n
      /\ \A j \in 1 .. n : T!FirstUnits(n)[j] = j
  BY DEF T!FirstUnits
<1>2. Len(units) = k - s /\ \A j \in 1 .. k - s : units[j] = s + j
  BY <1>1
<1>3. Len(file) = s /\ \A j \in 1 .. s : file[j] = j
  BY DEF T!FirstUnits
<1> HIDE DEF file, units
<1>4. Overwrite(file, s + 1, units)
        = [p \in 1 .. k |-> IF p >= s + 1 THEN units[p - (s + 1) + 1] ELSE file[p]]
  BY <1>2, <1>3 DEF Overwrite
<1>5. \A p \in 1 .. k :
        (IF p >= s + 1 THEN units[p - (s + 1) + 1] ELSE file[p]) = p
  BY <1>2, <1>3
<1>6. Overwrite(file, s + 1, units) = [p \in 1 .. k |-> p]
  BY <1>4, <1>5
<1> QED BY <1>6 DEF T!FirstUnits, file, units

\* Whatever is put into a file leaves a file.
LEMMA OverwriteType ==
  ASSUME NEW file \in Seq(Nat), NEW units \in Seq(Nat), NEW k \in Nat \ {0}
  PROVE  Overwrite(file, k, units) \in Seq(Nat)
<1> DEFINE n == IF Len(file) < k - 1 + Len(units) THEN k - 1 + Len(units) ELSE Len(file)
           g == Overwrite(file, k, units)
<1>1. n \in Nat
  OBVIOUS
<1>2. g = [p \in 1 .. n |->
             IF p >= k /\ p < k + Len(units) THEN units[p - k + 1]
             ELSE IF p <= Len(file) THEN file[p] ELSE Hole]
  BY DEF Overwrite
<1> HIDE DEF n
<1>3. \A p \in 1 .. n :
        (IF p >= k /\ p < k + Len(units) THEN units[p - k + 1]
         ELSE IF p <= Len(file) THEN file[p] ELSE Hole) \in Nat
  BY DEF Hole
<1> HIDE DEF g
<1>4. g \in [1 .. n -> Nat]
  BY <1>2, <1>3
<1> QED BY <1>1, <1>4 DEF g

-----------------------------------------------------------------------------
(* The queues: nothing is queued that was not sent.                        *)

\* A queue of expiries brings no datagram.
LEMMA ExpiriesDelivered ==
  ASSUME NEW o, NEW tid, Expiries(o.ready)
  PROVE  QueueOK(o, tid)
BY DEF QueueOK, Delivered, Expiries

\* The queue of a session that does nothing stays as it was.
LEMMA SameQueue ==
  ASSUME NEW j, QueueOK(io[j], port[j]), io'[j] = io[j], port'[j] = port[j],
         UNCHANGED <<want, up>>
  PROVE  QueueOK(io[j], port[j])'
BY DEF QueueOK, Delivered

\* Taking the front of a queue adds nothing to it.
LEMMA DequeueDelivered ==
  ASSUME NEW o \in Io, NEW tid, o.ready # <<>>, QueueOK(o, tid)
  PROVE  QueueOK(Dequeue(o), tid) /\ Delivered(Head(o.ready), tid)
<1> DEFINE q == Dequeue(o)
           n == Len(o.ready)
<1>1. /\ n \in Nat /\ n >= 1 /\ Head(o.ready) = o.ready[1]
      /\ Len(q.ready) = n - 1
      /\ \A k \in 1 .. n - 1 : q.ready[k] = o.ready[k + 1]
  BY DequeueIo
<1> HIDE DEF q
<1>2. \A k \in 1 .. n - 1 : Delivered(q.ready[k], tid)
  <2> SUFFICES ASSUME NEW k \in 1 .. n - 1 PROVE Delivered(q.ready[k], tid)
    OBVIOUS
  <2>1. k + 1 \in 1 .. n /\ q.ready[k] = o.ready[k + 1]
    BY <1>1
  <2> QED BY <2>1 DEF QueueOK
<1>3. Delivered(Head(o.ready), tid)
  BY <1>1 DEF QueueOK
<1> QED BY <1>1, <1>2, <1>3 DEF QueueOK, q

\* An operation that completes adds its handler.
LEMMA CompleteDelivered ==
  ASSUME NEW o \in Io, NEW tid, NEW h \in Handlers, QueueOK(o, tid), Delivered(h, tid)
  PROVE  QueueOK(Complete(o, h), tid)
<1> DEFINE q == Complete(o, h)
           n == Len(o.ready)
<1>1. /\ n \in Nat /\ Len(q.ready) = n + 1 /\ q.ready[n + 1] = h
      /\ \A k \in 1 .. n : q.ready[k] = o.ready[k]
  BY CompleteIo
<1> HIDE DEF q
<1>2. \A k \in 1 .. n + 1 : k \in 1 .. n \/ k = n + 1
  BY <1>1
<1>3. \A k \in 1 .. n + 1 : Delivered(q.ready[k], tid)
  BY <1>1, <1>2 DEF QueueOK
<1> QED BY <1>1, <1>3 DEF QueueOK, q

\* A failure brings no datagram.
LEMMA FailureDelivered ==
  ASSUME NEW kind, NEW tid
  PROVE  Delivered(Failed(kind), tid)
BY DEF Delivered, Failed

\* A cancel completes operations with an error.
LEMMA CancelDelivered ==
  ASSUME NEW o \in Io, NEW tid, QueueOK(o, tid)
  PROVE  QueueOK(CancelSocket(o), tid)
<1> DEFINE sent == IF "send" \in o.pending THEN Complete(o, Failed("send")) ELSE o
<1>1. Failed("send") \in Handlers /\ Failed("receive") \in Handlers
  BY HandlerTypes
<1>2. sent \in Io /\ QueueOK(sent, tid)
  BY <1>1, CompleteIo, CompleteDelivered, FailureDelivered
<1> HIDE DEF sent
<1>3. QueueOK(Complete(sent, Failed("receive")), tid)
  BY <1>1, <1>2, CompleteDelivered, FailureDelivered
<1> QED BY <1>2, <1>3 DEF CancelSocket, sent

\* An expiry that is queued brings no datagram.
LEMMA ExpiryDelivered ==
  ASSUME NEW o \in Io, NEW tid, QueueOK(o, tid)
  PROVE  QueueOK([o EXCEPT !.timer = FALSE,
                           !.ready = Append(@, Succeeded("timer"))], tid)
<1> DEFINE h == Succeeded("timer")
           c == Complete(o, h)
           q == [o EXCEPT !.timer = FALSE, !.ready = Append(@, h)]
<1>1. h \in Handlers /\ Delivered(h, tid)
  BY HandlerTypes DEF Delivered, Succeeded
<1>2. QueueOK(c, tid)
  BY <1>1, CompleteDelivered
<1>3. q.ready = c.ready
  BY DEF Complete, Io
<1> QED BY <1>2, <1>3 DEF QueueOK

\* The entry actions start operations and queue nothing.
LEMMA EnterQueue ==
  ASSUME NEW s, NEW o \in Io, Expiries(o.ready)
  PROVE  Expiries(Enter(s, o).ready)
<1>1. Enter(s, o).ready = o.ready
  BY DEF Enter, EnterSending, EnterReceive, EnterAccepting, Io
<1> QED BY <1>1

\* Only a request that arrives makes one more that the listener has taken.
LEMMA TakenBefore ==
  ASSUME NEW o \in Io
  PROVE  /\ o.ready # <<>> /\ Taken(Dequeue(o)) => Taken(o)
         /\ \A h \in Handlers :
              (Taken(Complete(o, h)) /\ ~(h.kind = "accept" /\ h.ok)) => Taken(o)
<1>1. ASSUME o.ready # <<>>, Taken(Dequeue(o)) PROVE Taken(o)
  <2> DEFINE q == Dequeue(o)
             n == Len(o.ready)
  <2>1. /\ n \in Nat /\ n >= 1 /\ Len(q.ready) = n - 1
        /\ \A k \in 1 .. n - 1 : q.ready[k] = o.ready[k + 1]
    BY <1>1, DequeueIo
  <2> HIDE DEF q
  <2>2. PICK k \in 1 .. Len(q.ready) : q.ready[k].kind = "accept" /\ q.ready[k].ok
    BY <1>1 DEF Taken, q
  <2>3. k + 1 \in 1 .. n /\ q.ready[k] = o.ready[k + 1]
    BY <2>1, <2>2
  <2> QED BY <2>2, <2>3 DEF Taken
<1>2. ASSUME NEW h \in Handlers, Taken(Complete(o, h)), ~(h.kind = "accept" /\ h.ok)
      PROVE  Taken(o)
  <2> DEFINE q == Complete(o, h)
             n == Len(o.ready)
  <2>1. /\ n \in Nat /\ Len(q.ready) = n + 1 /\ q.ready[n + 1] = h
        /\ \A k \in 1 .. n : q.ready[k] = o.ready[k]
    BY CompleteIo
  <2> HIDE DEF q
  <2>2. PICK k \in 1 .. Len(q.ready) : q.ready[k].kind = "accept" /\ q.ready[k].ok
    BY <1>2 DEF Taken, q
  <2>3. k \in 1 .. n
    BY <1>2, <2>1, <2>2
  <2> QED BY <2>1, <2>2, <2>3 DEF Taken
<1> QED BY <1>1, <1>2

\* A cancel and an expiry take no request.
LEMMA CancelTakesNone ==
  ASSUME NEW o \in Io
  PROVE  /\ Taken(CancelSocket(o)) => Taken(o)
         /\ Taken([o EXCEPT !.timer = FALSE,
                            !.ready = Append(@, Succeeded("timer"))]) => Taken(o)
<1> DEFINE sent == IF "send" \in o.pending THEN Complete(o, Failed("send")) ELSE o
           h == Succeeded("timer")
           q == [o EXCEPT !.timer = FALSE, !.ready = Append(@, h)]
<1>1. /\ Failed("send") \in Handlers /\ ~Failed("send").ok
      /\ Failed("receive") \in Handlers /\ ~Failed("receive").ok
      /\ h \in Handlers /\ h.kind = "timer"
  BY HandlerTypes DEF Failed, Succeeded
<1>2. sent \in Io /\ (Taken(sent) => Taken(o))
  BY <1>1, CompleteIo, TakenBefore
<1> HIDE DEF sent
<1>3. Taken(CancelSocket(o)) => Taken(o)
  BY <1>1, <1>2, TakenBefore DEF CancelSocket, sent
<1>4. q.ready = Complete(o, h).ready
  BY DEF Complete, Io
<1>5. Taken(q) => Taken(o)
  BY <1>1, <1>4, TakenBefore DEF Taken
<1> QED BY <1>3, <1>5

\* No request is left in a queue of expiries.
LEMMA ExpiriesTakeNone == ASSUME NEW o, Expiries(o.ready) PROVE ~Taken(o)
BY DEF Taken, Expiries


-----------------------------------------------------------------------------
(* The ports fit in the bound.                                             *)

\* The sessions that have taken a request are finitely many.
LEMMA TakenCount ==
  ASSUME NEW S \in SUBSET Sessions
  PROVE  IsFiniteSet(S) /\ Cardinality(S) \in Nat
<1>1. IsFiniteSet(Sessions)
  BY NetworkAssumption
<1>2. IsFiniteSet(S)
  BY ONLY <1>1, FS_Subset, S \in SUBSET Sessions
<1> QED BY ONLY <1>2, FS_CardinalityType

\* No port is given out and no request is taken.
LEMMA BoundKept ==
  ASSUME BoundInv, NetTypes, ports' = ports,
         \A j \in Sessions : Taken(io'[j]) => Taken(io[j])
  PROVE  BoundInv'
<1> DEFINE S == {j \in Sessions : Taken(io[j])}
           R == {j \in Sessions : Taken(io'[j])}
<1>1. S \in SUBSET Sessions /\ R \in SUBSET S /\ R \in SUBSET Sessions
  OBVIOUS
<1>2. TakenBy = S /\ TakenBy' = R
  BY DEF TakenBy, Taken
<1> HIDE DEF S, R
<1>3. IsFiniteSet(S) /\ Cardinality(S) \in Nat /\ Cardinality(R) \in Nat
  BY <1>1, TakenCount
<1>4. Cardinality(R) <= Cardinality(S)
  BY ONLY <1>1, <1>3, FS_Subset
<1>5. ports \in Nat /\ MaxTransfers \in Nat /\ ports + Cardinality(S) <= MaxTransfers
  BY <1>2, PortAssumption DEF BoundInv, NetTypes
<1>6. ports' + Cardinality(R) <= MaxTransfers
  BY <1>3, <1>4, <1>5
<1> QED BY <1>2, <1>6 DEF BoundInv

\* A request that arrives still finds a port.
LEMMA BoundArrives ==
  ASSUME NetTypes, NEW i \in Sessions, RequestIsDelivered(i),
         \A j \in Sessions \ {i} : io'[j] = io[j]
  PROVE  BoundInv'
<1> DEFINE S == {j \in Sessions : "accept" \in Queued(j)}
           R == {j \in Sessions : Taken(io'[j])}
<1>1. S \in SUBSET Sessions /\ R \in SUBSET Sessions
  OBVIOUS
<1>2. \A j \in R : j \in S \/ j = i
  BY DEF Taken, Queued
<1>3. ports + Cardinality(S) < MaxTransfers /\ ports' = ports
  BY DEF RequestIsDelivered
<1>4. TakenBy' = R
  BY DEF TakenBy, Taken
<1> HIDE DEF S, R
<1>5. IsFiniteSet(S) /\ Cardinality(S) \in Nat /\ Cardinality(R) \in Nat
  BY <1>1, TakenCount
<1>6. IsFiniteSet(S \cup {i}) /\ Cardinality(S \cup {i}) <= Cardinality(S) + 1
  <2>1. /\ IsFiniteSet(S \cup {i})
        /\ Cardinality(S \cup {i}) = IF i \in S THEN Cardinality(S) ELSE Cardinality(S) + 1
    BY ONLY <1>5, FS_AddElement
  <2> QED BY <1>5, <2>1
<1>7. R \in SUBSET (S \cup {i})
  BY <1>2
<1>8. Cardinality(R) <= Cardinality(S \cup {i})
  BY ONLY <1>6, <1>7, FS_Subset
<1>9. S \cup {i} \in SUBSET Sessions
  BY <1>1
<1>10. Cardinality(S \cup {i}) \in Nat
  BY <1>9, TakenCount
<1>11. ports \in Nat /\ MaxTransfers \in Nat
  BY PortAssumption DEF NetTypes
<1>12. ports + Cardinality(R) <= MaxTransfers
  BY <1>3, <1>5, <1>6, <1>8, <1>10, <1>11
<1> QED BY <1>3, <1>4, <1>12 DEF BoundInv

\* A session that serves the request it has taken has a port for it.
LEMMA BoundServed ==
  ASSUME BoundInv, NetTypes, NEW i \in Sessions, Taken(io[i]), ~Taken(io'[i]),
         \A j \in Sessions \ {i} : io'[j] = io[j], ports' = ports + 1
  PROVE  BoundInv' /\ ports + 1 \in Ports
<1> DEFINE S == {j \in Sessions : Taken(io[j])}
           R == {j \in Sessions : Taken(io'[j])}
<1>1. S \in SUBSET Sessions /\ R \in SUBSET Sessions /\ i \in S /\ R \in SUBSET (S \ {i})
  OBVIOUS
<1>2. TakenBy = S /\ TakenBy' = R
  BY DEF TakenBy, Taken
<1> HIDE DEF S, R
<1>3. IsFiniteSet(S) /\ Cardinality(S) \in Nat /\ Cardinality(R) \in Nat
  BY <1>1, TakenCount
<1>4. IsFiniteSet(S \ {i}) /\ Cardinality(S \ {i}) = Cardinality(S) - 1
  BY ONLY <1>1, <1>3, FS_RemoveElement
<1>5. Cardinality(R) <= Cardinality(S \ {i})
  BY ONLY <1>1, <1>4, FS_Subset
<1>6. ports \in Nat /\ MaxTransfers \in Nat /\ ports + Cardinality(S) <= MaxTransfers
  BY <1>2, PortAssumption DEF BoundInv, NetTypes
<1>7. ports + 1 + Cardinality(R) <= MaxTransfers
  BY <1>3, <1>4, <1>5, <1>6
<1>8. ports + 1 \in Ports
  BY <1>3, <1>6, <1>7 DEF Ports
<1> QED BY <1>2, <1>7, <1>8 DEF BoundInv


-----------------------------------------------------------------------------
(* Steps of the sessions that neither the disk nor the network notices.    *)

\* What is said of the network, the clients and the disk stays true.
LEMMA WorldKept ==
  ASSUME UploadInv, UNCHANGED <<netVars, diskVars, port, ports>>
  PROVE  /\ (NetTypes /\ DiskTypes)' /\ (DownInv /\ UpInv)' /\ ClientInv'
         /\ (UnusedInv /\ DiskInv)'
<1>1. /\ UNCHANGED <<want, down, up, peer, blocks, outcome, port, ports>>
      /\ UNCHANGED <<target, stream, synced, disk, closing, disturbed>>
  BY DEF netVars, diskVars
<1>2. (NetTypes /\ DiskTypes)'
  BY <1>1 DEF UploadInv, NetTypes, DiskTypes
<1>3. DownInv'
  BY <1>1 DEF UploadInv, DownInv, Has, UploadSize
<1>4. UpInv'
  BY <1>1 DEF UploadInv, UpInv, DataBlock, UploadSize
<1>5. ClientInv'
  BY <1>1 DEF UploadInv, ClientInv, Chosen, UploadSize
<1>6. (UnusedInv /\ DiskInv)'
  BY <1>1 DEF UploadInv, UnusedInv, DiskInv
<1> QED BY <1>2, <1>3, <1>4, <1>5, <1>6

\* A step of session i that leaves it in state s with data d and Asio o.
LEMMA QuietStep ==
  ASSUME UploadInv, IInv', NEW i \in Sessions, NEW s, NEW d, NEW o,
         st' = [st EXCEPT ![i] = s], fsm' = [fsm EXCEPT ![i] = d],
         io' = [io EXCEPT ![i] = o],
         QueueOK(o, port[i]), Serves(s, d, port[i]),
         s # "Accepting" => Busy(i), BoundInv',
         UNCHANGED <<netVars, diskVars, port, ports>>
  PROVE  UploadInv'
<1>1. /\ st \in [Sessions -> States] /\ fsm \in [Sessions -> Data]
      /\ io \in [Sessions -> Io]
  BY DEF UploadInv, IInv, TypeOK
<1>2. /\ UNCHANGED <<want, down, up, peer, blocks, outcome, port, ports>>
      /\ UNCHANGED <<target, stream, synced, disk, closing, disturbed>>
  BY DEF netVars, diskVars
<1>3. ASSUME NEW j \in Sessions
      PROVE  /\ QueueOK(io'[j], port[j]) /\ Serves(st'[j], fsm'[j], port[j])
             /\ st'[j] # "Accepting" => st[j] # "Accepting"
  <2>1. CASE j = i
    <3>1. io'[j] = o /\ st'[j] = s /\ fsm'[j] = d
      BY <1>1, <2>1
    <3> QED BY <2>1, <3>1 DEF Busy
  <2>2. CASE j # i
    <3>1. io'[j] = io[j] /\ st'[j] = st[j] /\ fsm'[j] = fsm[j]
      BY <1>1, <2>2
    <3> QED BY <3>1 DEF UploadInv, ServerInv
  <2> QED BY <2>1, <2>2
<1>4. ServerInv'
  BY <1>2, <1>3 DEF ServerInv, QueueOK, Delivered, Serves, Has, UploadSize
<1>5. PortsApart'
  BY <1>2, <1>3 DEF UploadInv, PortsApart, Busy
<1> QED BY <1>4, <1>5, WorldKept DEF UploadInv

\* A step that changes the Asio of one session only, and takes no request.
LEMMA QuietIo ==
  ASSUME UploadInv, IInv', NEW i \in Sessions, NEW o,
         io' = [io EXCEPT ![i] = o], QueueOK(o, port[i]), Taken(o) => Taken(io[i]),
         UNCHANGED <<st, fsm, netVars, diskVars, port, ports>>
  PROVE  UploadInv'
<1>1. /\ st' = [st EXCEPT ![i] = st[i]] /\ fsm' = [fsm EXCEPT ![i] = fsm[i]]
      /\ Serves(st[i], fsm[i], port[i])
  BY DEF UploadInv, IInv, TypeOK, ServerInv
<1>2. BoundInv'
  <2>1. \A j \in Sessions : Taken(io'[j]) => Taken(io[j])
    BY DEF UploadInv, IInv, TypeOK
  <2> QED BY <2>1, BoundKept DEF UploadInv
<1> QED BY <1>1, <1>2, QuietStep DEF Busy

\* A step of a busy session that goes on with the data d.
LEMMA QuietBusy ==
  ASSUME UploadInv, IInv', NEW i \in Sessions, NEW s, NEW d, NEW o \in Io,
         Busy(i), LeftOK(o), Step(i, s, d, o), Serves(s, d, port[i]),
         UNCHANGED <<netVars, diskVars, port, ports>>
  PROVE  UploadInv'
<1>1. Expiries(Enter(s, o).ready)
  BY EnterQueue DEF LeftOK
<1>2. /\ io' = [io EXCEPT ![i] = Enter(s, o)] /\ st' = [st EXCEPT ![i] = s]
      /\ fsm' = [fsm EXCEPT ![i] = d] /\ ~Taken(Enter(s, o))
      /\ QueueOK(Enter(s, o), port[i])
  BY <1>1, ExpiriesTakeNone, ExpiriesDelivered DEF Step
<1>3. BoundInv'
  <2>1. \A j \in Sessions : Taken(io'[j]) => Taken(io[j])
    BY <1>2 DEF UploadInv, IInv, TypeOK
  <2> QED BY <2>1, BoundKept DEF UploadInv
<1> QED BY <1>2, <1>3, QuietStep

\* Nothing changes.
LEMMA Unmoved ==
  ASSUME UploadInv, IInv', UNCHANGED uploadVars
  PROVE  UploadInv'
<1>1. /\ UNCHANGED <<st, fsm, io, want, down, up, peer, blocks, port, ports>>
      /\ UNCHANGED <<target, stream, closing>>
      /\ UNCHANGED <<netVars, diskVars, port, ports>>
  BY DEF uploadVars, vars, netVars, diskVars
<1>2. (ServerInv /\ PortsApart)'
  BY <1>1 DEF UploadInv, ServerInv, PortsApart, Busy, QueueOK, Delivered, Serves,
     Has, UploadSize
<1>3. BoundInv'
  BY <1>1 DEF UploadInv, BoundInv, TakenBy, Taken
<1> QED BY <1>1, <1>2, <1>3, WorldKept DEF UploadInv


\* What arrives was sent, to the port of the session.
LEMMA ArrivalInv ==
  ASSUME UploadInv, IInv', NEW i \in Sessions,
         RequestIsDelivered(i) \/ DatagramIsDelivered(i) \/ ServerStep(i)
  PROVE  UploadInv'
<1>1. /\ io[i] \in Io /\ QueueOK(io[i], port[i]) /\ NetTypes
      /\ io \in [Sessions -> Io] /\ Serves(st[i], fsm[i], port[i])
  BY DEF UploadInv, IInv, TypeOK, ServerInv
<1>2. UNCHANGED <<netVars, diskVars, port, ports>>
  BY DEF RequestIsDelivered, DatagramIsDelivered, ServerStep
<1>3. ASSUME NEW kind, NEW h \in Handlers, Delivered(h, port[i]),
             ~(h.kind = "accept" /\ h.ok), Completes(i, kind, h)
      PROVE  UploadInv'
  <2>1. io' = [io EXCEPT ![i] = Complete(io[i], h)] /\ UNCHANGED <<st, fsm>>
    BY <1>3 DEF Completes
  <2>2. QueueOK(Complete(io[i], h), port[i]) /\ (Taken(Complete(io[i], h)) => Taken(io[i]))
    BY <1>1, <1>3, CompleteDelivered, TakenBefore
  <2> QED BY <1>2, <2>1, <2>2, QuietIo
<1>4. CASE RequestIsDelivered(i)
  <2>1. PICK e \in Endpoints : Completes(i, "accept", Received("accept", want[e], e))
    BY <1>4 DEF RequestIsDelivered
  <2> DEFINE h == Received("accept", want[e], e)
             o == Complete(io[i], h)
  <2>2. h \in Handlers /\ Delivered(h, port[i])
    BY <1>1, WantFacts, HandlerTypes DEF Delivered, Received
  <2>3. QueueOK(o, port[i])
    BY <1>1, <2>2, CompleteDelivered
  <2>4. io' = [io EXCEPT ![i] = o] /\ UNCHANGED <<st, fsm>>
    BY <2>1 DEF Completes
  <2> HIDE DEF o
  <2>5. BoundInv'
    <3>1. \A j \in Sessions \ {i} : io'[j] = io[j]
      BY <1>1, <2>4
    <3> QED BY <1>1, <1>4, <3>1, BoundArrives
  <2>6. st' = [st EXCEPT ![i] = st[i]] /\ fsm' = [fsm EXCEPT ![i] = fsm[i]]
    BY <2>4 DEF UploadInv, IInv, TypeOK
  <2> QED BY <1>1, <1>2, <2>3, <2>4, <2>5, <2>6, QuietStep DEF Busy
<1>5. CASE DatagramIsDelivered(i)
  <2>1. PICK m \in up :
          /\ m.port = port[i]
          /\ Completes(i, "receive", Received("receive", m.packet, m.from))
    BY <1>5 DEF DatagramIsDelivered
  <2> DEFINE h == Received("receive", m.packet, m.from)
  <2>2. /\ m.packet \in Datagrams /\ m.from \in Endpoints
        /\ [from |-> m.from, port |-> m.port, packet |-> m.packet] = m
    BY <1>1 DEF NetTypes
  <2>3. h \in Handlers /\ h.kind = "receive"
    BY <2>2, HandlerTypes
  <2>4. Delivered(h, port[i])
    BY <2>1, <2>2 DEF Delivered, Received
  <2> HIDE DEF h
  <2> QED BY <1>3, <2>1, <2>3, <2>4 DEF h
<1>6. CASE AcceptFails(i) \/ ReceiveFails(i)
  <2>1. /\ Failed("accept") \in Handlers /\ ~Failed("accept").ok
        /\ Failed("receive") \in Handlers /\ ~Failed("receive").ok
    BY HandlerTypes DEF Failed
  <2> QED BY <1>3, <1>6, <2>1, FailureDelivered DEF AcceptFails, ReceiveFails
<1>7. CASE TimerExpires(i)
  <2> DEFINE o == [io[i] EXCEPT !.timer = FALSE,
                                !.ready = Append(@, Succeeded("timer"))]
  <2>1. io' = [io EXCEPT ![i] = o] /\ UNCHANGED <<st, fsm>>
    BY <1>1, <1>7 DEF TimerExpires
  <2>2. QueueOK(o, port[i]) /\ (Taken(o) => Taken(io[i]))
    BY <1>1, ExpiryDelivered, CancelTakesNone
  <2> HIDE DEF o
  <2> QED BY <1>2, <2>1, <2>2, QuietIo
<1> QED BY <1>4, <1>5, <1>6, <1>7 DEF ServerStep

\* The stop of the server aborts accepts, and nothing else.
LEMMA StopKeeps ==
  ASSUME UploadInv, IInv', Stop, UNCHANGED <<netVars, diskVars, port, ports>>
  PROVE  UploadInv'
<1>1. ASSUME NEW j \in Sessions
      PROVE  /\ QueueOK(io'[j], port[j]) /\ Serves(st[j], fsm[j], port[j])
             /\ Taken(io'[j]) => Taken(io[j])
  <2>1. /\ io[j] \in Io /\ QueueOK(io[j], port[j]) /\ Serves(st[j], fsm[j], port[j])
    BY DEF UploadInv, IInv, TypeOK, ServerInv
  <2>2. io'[j] = Complete(io[j], Failed("accept")) \/ io'[j] = io[j]
    BY DEF Stop
  <2>3. Failed("accept") \in Handlers /\ ~Failed("accept").ok
    BY HandlerTypes DEF Failed
  <2>4. /\ QueueOK(Complete(io[j], Failed("accept")), port[j])
        /\ Taken(Complete(io[j], Failed("accept"))) => Taken(io[j])
    BY <2>1, <2>3, CompleteDelivered, FailureDelivered, TakenBefore
  <2> QED BY <2>1, <2>2, <2>4
<1>2. /\ UNCHANGED <<st, fsm, want, down, up, peer, blocks, port, ports>>
      /\ UNCHANGED <<target, stream, closing>>
  BY DEF Stop, netVars, diskVars
<1>3. ServerInv'
  BY <1>1, <1>2 DEF ServerInv, QueueOK, Delivered, Serves, Has, UploadSize
<1>4. PortsApart'
  BY <1>2 DEF UploadInv, PortsApart, Busy
<1>5. BoundInv'
  BY <1>1, <1>2, BoundKept DEF UploadInv
<1> QED BY <1>3, <1>4, <1>5, WorldKept DEF UploadInv

\* A session that changes its state and its packet serves as before.
LEMMA ServesOn ==
  ASSUME NEW s, NEW d, NEW t, NEW e, NEW n, Serves(s, d, n),
         s # "Accepting", s # "SendingError",
         SameRequest(e, d), e.last_saved_block = d.last_saved_block,
         e.send_packet \in Packet \/ e.send_packet = d.send_packet,
         t = "SendingError" => e.send_packet.op = "ERROR"
  PROVE  Serves(t, e, n)
BY DEF Serves, SameRequest

\* The steps of a free session that serve nobody, and the timer.
LEMMA IdleInv ==
  ASSUME UploadInv, IInv', NEW i \in Sessions,
         AcceptingFails(i) \/ IgnoreRequest(i) \/ TimerFires(i),
         UNCHANGED <<netVars, diskVars, port, ports>>
  PROVE  UploadInv'
<1>1. /\ io[i] \in Io /\ QueueOK(io[i], port[i]) /\ IInv
      /\ io \in [Sessions -> Io] /\ st \in [Sessions -> States]
  BY DEF UploadInv, IInv, TypeOK, ServerInv
<1>2. ASSUME io[i].ready # <<>>
      PROVE  LET q == Dequeue(io[i])
             IN  /\ q \in Io /\ QueueOK(q, port[i])
                 /\ Taken(q) => Taken(io[i])
  BY <1>1, <1>2, DequeueIo, DequeueDelivered, TakenBefore
<1>3. CASE AcceptingFails(i)
  <2>1. /\ io[i].ready # <<>> /\ UNCHANGED <<st, fsm>>
        /\ io' = [io EXCEPT ![i] = Dequeue(io[i])]
    BY <1>1, <1>3, FreeFacts DEF AcceptingFails, AcceptingFailed, Runs
  <2> QED BY <1>2, <2>1, QuietIo
<1>4. CASE IgnoreRequest(i)
  <2>1. /\ io[i].ready # <<>> /\ st[i] = "Accepting" /\ UNCHANGED st
        /\ io' = [io EXCEPT ![i] = Dequeue(io[i])]
        /\ fsm' = [fsm EXCEPT ![i] = Requested(i)]
    BY <1>4 DEF IgnoreRequest, RequestReceived, Runs
  <2>2. st' = [st EXCEPT ![i] = "Accepting"] /\ Serves("Accepting", Requested(i), port[i])
    BY <1>1, <2>1 DEF Serves
  <2>3. BoundInv'
    <3>1. \A j \in Sessions : Taken(io'[j]) => Taken(io[j])
      BY <1>1, <1>2, <2>1
    <3> QED BY <3>1, BoundKept DEF UploadInv
  <2>4. QueueOK(Dequeue(io[i]), port[i])
    BY <1>2, <2>1
  <2> QED BY <2>1, <2>2, <2>3, <2>4, QuietStep
<1>5. CASE TimerFires(i)
  <2> DEFINE q == Dequeue(io[i])
             o == IF io[i].open THEN CancelSocket(q) ELSE q
  <2>1. io[i].ready # <<>> /\ io' = [io EXCEPT ![i] = o] /\ UNCHANGED <<st, fsm>>
    BY <1>5 DEF TimerFires, Runs
  <2>2. q \in Io /\ QueueOK(q, port[i]) /\ (Taken(q) => Taken(io[i]))
    BY <1>2, <2>1
  <2> HIDE DEF q
  <2>3. QueueOK(o, port[i]) /\ (Taken(o) => Taken(io[i]))
    BY <2>2, CancelDelivered, CancelTakesNone
  <2> HIDE DEF o
  <2> QED BY <2>1, <2>3, QuietIo
<1> QED BY <1>3, <1>4, <1>5

\* The steps of a busy session that write nothing and do not end it.
LEMMA ProceedInv ==
  ASSUME UploadInv, IInv', NEW i \in Sessions,
         \/ DataSent(i) \/ AckSent(i) \/ ResendData(i) \/ ResendAck(i)
         \/ KeepWaitingForAck(i) \/ IgnoreData(i)
         \/ RefuseAck(i) \/ RefuseData(i),
         UNCHANGED <<netVars, diskVars, port, ports>>
  PROVE  UploadInv'
<1> DEFINE d == fsm[i]
<1>1. d \in Data /\ Serves(st[i], d, port[i]) /\ IInv
  BY DEF UploadInv, IInv, TypeOK, ServerInv
<1>2. ASSUME NEW s, NEW e, Step(i, s, e, Left(i)), Runs(i, "send") \/ Runs(i, "receive"),
             st[i] # "Accepting", st[i] # "SendingError",
             SameRequest(e, d), e.last_saved_block = d.last_saved_block,
             e.send_packet \in Packet \/ e.send_packet = d.send_packet,
             s = "SendingError" => e.send_packet.op = "ERROR"
      PROVE  UploadInv'
  <2>1. LeftOK(Left(i)) /\ Left(i) \in Io
    BY <1>1, <1>2, RunsFacts
  <2>2. Serves(s, e, port[i])
    BY <1>1, <1>2, ServesOn
  <2> HIDE DEF d
  <2> QED BY <1>2, <2>1, <2>2, QuietBusy DEF Busy
<1>3. CASE DataSent(i) \/ AckSent(i)
  BY <1>1, <1>2, <1>3, SameRequestData DEF DataSent, AckSent, PacketSent
<1>4. CASE KeepWaitingForAck(i) \/ IgnoreData(i)
  BY <1>1, <1>2, <1>4, SameRequestData DEF KeepWaitingForAck, IgnoreData, PacketReceived
<1>5. CASE ResendData(i) \/ ResendAck(i)
  <2>1. CanRetry(d)
    BY <1>5 DEF ResendData, ResendAck
  <2>2. /\ SameRequest(TimeOut(d), d) /\ TimeOut(d).send_packet = d.send_packet
        /\ TimeOut(d).last_saved_block = d.last_saved_block
    BY <1>1, <2>1, SameRequestData, TimeOutData DEF SameTransfer
  <2> QED BY <1>2, <1>5, <2>2 DEF ResendData, ResendAck, TimedOut
<1>6. CASE RefuseAck(i) \/ RefuseData(i)
  <2> DEFINE e == FormProtocolErrorPacket(d)
  <2>1. /\ SameRequest(e, d) /\ e.send_packet.op = "ERROR"
        /\ e.last_saved_block = d.last_saved_block /\ e.send_packet \in Packet
    BY <1>1, SameRequestData, FormProtocolErrorPacketData, FormedPackets DEF SameTransfer
  <2>2. /\ Step(i, "SendingError", e, Left(i)) /\ Runs(i, "receive")
        /\ st[i] \in {"WaitingForAck", "WaitingForData"}
    BY <1>6 DEF RefuseAck, RefuseData, PacketReceived
  <2> HIDE DEF e
  <2> QED BY <1>2, <2>1, <2>2
<1> QED BY <1>3, <1>4, <1>5, <1>6


-----------------------------------------------------------------------------
(* The disk.                                                               *)

\* Port n passes on the units up to k: its file has them, unless it is disturbed.
LEMMA SyncFacts ==
  ASSUME UploadInv, NEW n \in 1 .. ports, closing[n] = "open",
         NEW m \in Nat, NEW units, units = T!FirstUnits(m),
         NEW k \in synced[n] .. m, Sync(n, units, k)
  PROVE  /\ synced' = [synced EXCEPT ![n] = k] /\ k \in Nat /\ n \in Ports
         /\ disk' \in [Files -> Seq(Nat)]
         /\ n \notin disturbed => disk'[target[n]] = T!FirstUnits(k)
         /\ \A p \in 1 .. ports :
              (p # n /\ p \notin disturbed) => disk'[target[p]] = disk[target[p]]
<1> DEFINE s == synced[n]
           f == target[n]
           part == SubSeq(units, s + 1, k)
           new == Overwrite(disk[f], s + 1, part)
<1>1. /\ n \in Ports /\ s \in Nat /\ k \in Nat /\ s <= k /\ k <= m
      /\ f \in Files /\ disk \in [Files -> Seq(Nat)]
  <2>1. DiskTypes /\ DiskInv /\ n \in Ports
    BY PortAssumption DEF UploadInv, NetTypes, Ports
  <2> QED BY <2>1 DEF DiskTypes, DiskInv
<1>2. part \in Seq(Nat)
  <2>1. units \in Seq(Nat) /\ Len(units) = m
    BY UnitsLength
  <2> HIDE DEF s
  <2> QED BY <1>1, <2>1
<1>3. new \in Seq(Nat)
  <2>1. disk[f] \in Seq(Nat) /\ s + 1 \in Nat \ {0}
    BY <1>1
  <2> HIDE DEF part, f, s
  <2> QED BY <1>2, <2>1, OverwriteType
<1>4. synced' = [synced EXCEPT ![n] = k]
  BY DEF Sync
<1>5. \/ k = s /\ disk' = disk
      \/ disk' = [disk EXCEPT ![f] = new]
  BY DEF Sync
<1>6. n \notin disturbed => disk[f] = T!FirstUnits(s)
  BY DEF UploadInv, DiskInv
<1>7. disk[f] = T!FirstUnits(s) => new = T!FirstUnits(k)
  <2> HIDE DEF s, f
  <2> QED BY <1>1, OverwriteUnits
<1>8. \A p \in 1 .. ports :
        (p # n /\ p \notin disturbed) => target[p] # f /\ target[p] \in Files
  BY DEF UploadInv, DiskInv
<1> HIDE DEF new, f, s
<1>9. disk' \in [Files -> Seq(Nat)]
  BY <1>1, <1>3, <1>5
<1>10. n \notin disturbed => disk'[f] = T!FirstUnits(k)
  BY <1>1, <1>5, <1>6, <1>7
<1>11. \A p \in 1 .. ports :
         (p # n /\ p \notin disturbed) => disk'[target[p]] = disk[target[p]]
  BY <1>1, <1>5, <1>8
<1> QED BY <1>1, <1>4, <1>9, <1>10, <1>11 DEF f

\* A write or a close at port n keeps what is said of the disk.
LEMMA DiskStep ==
  ASSUME UploadInv, NEW n \in 1 .. ports, closing[n] = "open",
         NEW m \in Nat, NEW units, units = T!FirstUnits(m),
         NEW k \in synced[n] .. m, Sync(n, units, k),
         NEW c \in {"open", "saved", "lost"}, c = "saved" => k = m,
         stream' = [stream EXCEPT ![n] = units],
         closing' = [closing EXCEPT ![n] = c],
         UNCHANGED <<target, disturbed, ports>>
  PROVE  (DiskTypes /\ DiskInv /\ UnusedInv)'
<1>1. /\ synced' = [synced EXCEPT ![n] = k] /\ k \in Nat /\ n \in Ports
      /\ disk' \in [Files -> Seq(Nat)]
      /\ n \notin disturbed => disk'[target[n]] = T!FirstUnits(k)
      /\ \A p \in 1 .. ports :
           (p # n /\ p \notin disturbed) => disk'[target[p]] = disk[target[p]]
  BY SyncFacts
<1>2. units \in Seq(Nat) /\ Len(units) = m
  BY UnitsLength
<1>3. DiskTypes /\ DiskInv /\ UnusedInv /\ ports \in Nat
  BY DEF UploadInv, NetTypes
<1>4. DiskTypes'
  BY <1>1, <1>2, <1>3 DEF DiskTypes
<1>5. /\ stream'[n] = units /\ synced'[n] = k /\ closing'[n] = c /\ k <= m
      /\ \A p \in Ports : p # n => /\ stream'[p] = stream[p] /\ synced'[p] = synced[p]
                                   /\ closing'[p] = closing[p]
      /\ \A p \in Ports : closing'[p] = "open" => closing[p] = "open"
  <2>1. k <= m
    BY <1>3, PortAssumption DEF DiskTypes
  <2> QED BY <1>1, <1>3, <2>1 DEF DiskTypes
<1>6. \A p \in 1 .. ports : p \in Ports
  BY PortAssumption DEF UploadInv, NetTypes, Ports
<1>7. UnusedInv'
  <2> SUFFICES ASSUME NEW p \in Ports, p > ports
               PROVE  /\ stream'[p] = <<>> /\ synced'[p] = 0
                      /\ target[p] = NoFile /\ closing'[p] = "open"
                      /\ p \notin disturbed
    BY DEF UnusedInv
  <2>1. p # n
    BY <1>3
  <2> QED BY <1>3, <1>5, <2>1 DEF UnusedInv
<1>8. DiskInv'
  <2> SUFFICES ASSUME NEW p \in 1 .. ports
               PROVE  /\ target[p] \in Files
                      /\ synced'[p] <= Len(stream'[p])
                      /\ closing'[p] = "saved" => synced'[p] = Len(stream'[p])
                      /\ p \notin disturbed => disk'[target[p]] = T!FirstUnits(synced'[p])
                      /\ \A q \in 1 .. ports :
                           (q # p /\ target[q] = target[p] /\ closing'[q] = "open")
                             => p \in disturbed
    BY DEF DiskInv
  <2>1. target[p] \in Files
    BY <1>3 DEF DiskInv
  <2>2. \A q \in 1 .. ports :
          (q # p /\ target[q] = target[p] /\ closing'[q] = "open") => p \in disturbed
    BY <1>3, <1>5, <1>6 DEF DiskInv
  <2>3. /\ synced'[p] <= Len(stream'[p])
        /\ closing'[p] = "saved" => synced'[p] = Len(stream'[p])
        /\ p \notin disturbed => disk'[target[p]] = T!FirstUnits(synced'[p])
    <3>1. CASE p = n
      BY <1>1, <1>2, <1>5, <3>1
    <3>2. CASE p # n
      BY <1>1, <1>3, <1>5, <1>6, <3>2 DEF DiskInv
    <3> QED BY <3>1, <3>2
  <2> QED BY <2>1, <2>2, <2>3
<1> QED BY <1>4, <1>7, <1>8

\* A session that ends closes its file, and leaves its port for good.
LEMMA CloseInv ==
  ASSUME UploadInv, IInv', NEW i \in Sessions, Closes(i), UNCHANGED netVars,
         ErrorSent(i) \/ GiveUpData(i) \/ GiveUpAck(i) \/ FinishRead(i)
  PROVE  UploadInv'
<1> DEFINE n == port[i]
           o == CloseSocket(Left(i))
<1>1. /\ Busy(i) /\ Restart(i)
      /\ Runs(i, "send") \/ Runs(i, "receive")
  BY DEF Busy, ErrorSent, GiveUpData, GiveUpAck, FinishRead, PacketSent, TimedOut,
     PacketReceived
<1>2. /\ Serves(st[i], fsm[i], n) /\ IInv
      /\ st \in [Sessions -> States] /\ fsm \in [Sessions -> Data]
      /\ io \in [Sessions -> Io]
  BY DEF UploadInv, ServerInv, IInv, TypeOK
<1>3. /\ n \in 1 .. ports /\ closing[n] = "open"
      /\ stream[n] = T!FirstUnits(Len(stream[n])) /\ Len(stream[n]) \in Nat
  BY <1>1, <1>2 DEF Serves, Busy, Has
<1>4. PICK k \in synced[n] .. Len(stream[n]) :
        /\ Sync(n, stream[n], k)
        /\ closing' = [closing EXCEPT ![n] =
                         IF k = Len(stream[n]) THEN "saved" ELSE "lost"]
  BY DEF Closes
<1>5. /\ UNCHANGED <<port, ports, target, disturbed, stream>>
      /\ UNCHANGED <<want, down, up, peer, blocks, outcome>>
  BY DEF Closes, netVars
<1>6. /\ Expiries(Enter("Accepting", o).ready)
      /\ io' = [io EXCEPT ![i] = Enter("Accepting", o)]
      /\ st' = [st EXCEPT ![i] = "Accepting"]
      /\ fsm' = [fsm EXCEPT ![i] = ResetData(fsm[i])]
  <2>1. Left(i) \in Io /\ LeftOK(Left(i))
    BY <1>1, <1>2, RunsFacts
  <2>2. o \in Io /\ Expiries(o.ready)
    BY <2>1, CloseIo DEF LeftOK
  <2> HIDE DEF o
  <2>3. Expiries(Enter("Accepting", o).ready)
    BY <2>2, EnterQueue
  <2> QED BY <1>1, <2>3 DEF Restart, Step, o
<1> DEFINE left == Enter("Accepting", o)
<1> HIDE DEF o, n, left
<1>7. (DiskTypes /\ DiskInv /\ UnusedInv)'
  <2>1. stream' = [stream EXCEPT ![n] = stream[n]]
    BY <1>5 DEF UploadInv, DiskTypes
  <2> DEFINE c == IF k = Len(stream[n]) THEN "saved" ELSE "lost"
             units == stream[n]
             m == Len(stream[n])
  <2>2. c \in {"open", "saved", "lost"} /\ (c = "saved" => k = m)
    OBVIOUS
  <2>3. /\ m \in Nat /\ units = T!FirstUnits(m) /\ k \in synced[n] .. m
        /\ Sync(n, units, k) /\ stream' = [stream EXCEPT ![n] = units]
        /\ closing' = [closing EXCEPT ![n] = c]
    BY <1>3, <1>4, <2>1
  <2> HIDE DEF c, units, m
  <2> QED BY <1>3, <1>5, <2>2, <2>3, DiskStep
<1>8. (NetTypes /\ DownInv /\ UpInv /\ ClientInv)'
  BY <1>5 DEF UploadInv, NetTypes, DownInv, Has, UpInv, DataBlock, ClientInv, Chosen,
     UploadSize
<1>9. BoundInv'
  <2>1. \A j \in Sessions : Taken(io'[j]) => Taken(io[j])
    BY <1>2, <1>6, ExpiriesTakeNone
  <2> QED BY <1>5, <2>1, BoundKept DEF UploadInv
<1>10. PortsApart'
  BY <1>2, <1>5, <1>6 DEF UploadInv, PortsApart, Busy
<1>11. \A j \in Sessions : QueueOK(io'[j], port[j])
  BY <1>2, <1>6, ExpiriesDelivered DEF UploadInv, ServerInv
<1>12. ASSUME NEW j \in Sessions, st'[j] # "Accepting"
       PROVE  /\ Serves(st[j], fsm[j], port[j])
              /\ st'[j] = st[j] /\ fsm'[j] = fsm[j]
              /\ closing'[port[j]] = closing[port[j]]
  <2>1. j # i /\ st'[j] = st[j] /\ fsm'[j] = fsm[j]
    BY <1>2, <1>6, <1>12
  <2>2. Serves(st[j], fsm[j], port[j])
    BY DEF UploadInv, ServerInv
  <2>3. port[j] # n
    BY <1>1, <1>12, <2>1 DEF UploadInv, PortsApart, Busy, n
  <2> QED BY <1>4, <2>1, <2>2, <2>3 DEF UploadInv, DiskTypes
<1>13. ServerInv'
  <2>1. ASSUME NEW j \in Sessions PROVE Serves(st[j], fsm[j], port[j])'
    <3>1. CASE st'[j] = "Accepting"
      BY <3>1 DEF Serves
    <3>2. CASE st'[j] # "Accepting"
      BY <1>5, <1>12, <3>2 DEF Serves, Has, UploadSize
    <3> QED BY <3>1, <3>2
  <2> QED BY <1>5, <1>11, <2>1 DEF ServerInv, QueueOK, Delivered
<1> QED BY <1>7, <1>8, <1>9, <1>10, <1>13 DEF UploadInv


-----------------------------------------------------------------------------
(* What is sent.                                                           *)

\* More blocks are more units.
LEMMA MoreBlocks ==
  ASSUME NEW x \in Nat, NEW y \in Nat, NEW z \in Nat, x <= y
  PROVE  x * z \in Nat /\ y * z \in Nat /\ x * z <= y * z
OBVIOUS

\* Who has b blocks has fewer, too.
LEMMA HasFewer ==
  ASSUME NetTypes, NEW n, NEW e \in Endpoints, NEW b \in Nat, NEW c \in Nat, c <= b,
         Has(n, e, b)
  PROVE  Has(n, e, c)
<1>1. UploadSize(e) \in Nat /\ DefaultBlockSize \in Nat
  BY WantFacts, ProtocolAssumption
<1>2. \A size, x, y, z \in Nat :
        (x <= y /\ Least(y, size) <= z) => Least(x, size) <= z
  BY DEF Least
<1>3. /\ c * DefaultBlockSize \in Nat /\ b * DefaultBlockSize \in Nat
      /\ c * DefaultBlockSize <= b * DefaultBlockSize
  BY <1>1
<1>4. Least(c * DefaultBlockSize, UploadSize(e)) <= Len(stream[n])
  BY <1>1, <1>2, <1>3 DEF Has
<1> QED BY <1>4 DEF Has

\* A session that sends is at its port, and an ACK is of the block saved last.
LEMMA SentIsSaved ==
  ASSUME UploadInv, NEW i \in Sessions, "send" \in io[i].pending
  PROVE  LET d == fsm[i]
         IN  /\ Busy(i) /\ d.last_saved_block \in Nat
             /\ d.send_packet.op = "ACK" => d.send_packet.word = d.last_saved_block
<1> DEFINE d == fsm[i]
<1>1. /\ st[i] \in States /\ d \in Data /\ DataOK(st[i], d) /\ IoOK(st[i], io[i])
      /\ Serves(st[i], d, port[i])
  BY DEF UploadInv, IInv, TypeOK, SessionOK, ServerInv
<1>2. st[i] \in Sending
  BY <1>1, AwaitedType DEF IoOK, InFlight, HandlerQueued, NotListening
<1>3. st[i] # "Accepting"
  BY <1>2 DEF Sending
<1>4. d.send_packet.op = "ACK" => d.send_packet.word = d.last_saved_block
  BY <1>1, <1>2, <1>3 DEF DataOK, PacketOK, AckInFlight, OackInFlight, DataInFlight,
     Sending, Serves
<1> QED BY <1>1, <1>3, <1>4 DEF Busy, Data

\* A datagram that a session sends.
LEMMA ServerSendsInv ==
  ASSUME UploadInv, IInv', NEW i \in Sessions, ServerSends(i)
  PROVE  UploadInv'
<1> DEFINE d == fsm[i]
           n == port[i]
           e == d.agreed_remote_endpoint
           b == d.last_saved_block
           m == [port |-> n, to |-> e, packet |-> d.send_packet]
<1>1. /\ down' = down \cup {m} /\ SendCompletes(i)
      /\ UNCHANGED <<want, up, peer, blocks, outcome, port, ports>>
      /\ UNCHANGED <<target, stream, synced, disk, closing, disturbed>>
  BY DEF ServerSends, diskVars
<1>2. /\ Busy(i) /\ b \in Nat
      /\ d.send_packet.op = "ACK" => d.send_packet.word = b
  BY <1>1, SentIsSaved DEF SendCompletes, Completes
<1>3. Serves(st[i], d, n) /\ NetTypes
  BY DEF UploadInv, ServerInv
<1>4. /\ e \in Endpoints /\ d.send_packet \in Packet /\ n \in 1 .. ports
      /\ target[n] = want[e].path /\ Has(n, e, b)
      /\ peer[e] # n => Len(stream[n]) = 0
  BY <1>2, <1>3 DEF Serves, Busy
<1>5. /\ m.port = n /\ m.to = e /\ m.packet = d.send_packet
      /\ m \in [port : Ports, to : Endpoints, packet : Packet]
  BY <1>3, <1>4, PortAssumption DEF NetTypes, Ports
<1>6. /\ io' = [io EXCEPT ![i] = Complete(io[i], Succeeded("send"))]
      /\ UNCHANGED <<st, fsm>>
  BY <1>1 DEF SendCompletes, Completes
<1> HIDE DEF m
<1>7. NetTypes' /\ (DiskTypes /\ DiskInv /\ UnusedInv)' /\ UpInv'
  BY <1>1, <1>5 DEF UploadInv, NetTypes, DiskTypes, DiskInv, UnusedInv, UpInv,
     DataBlock, UploadSize
<1>8. ClientInv'
  BY <1>1 DEF UploadInv, ClientInv, Chosen, UploadSize
<1>9. DownInv'
  <2>1. ASSUME NEW a \in down'
        PROVE  /\ a.port \in 1 .. ports
               /\ Has(a.port, a.to, IF a.packet.op = "ACK" THEN a.packet.word ELSE 0)
               /\ peer[a.to] # a.port => Len(stream[a.port]) = 0
               /\ target[a.port] = want[a.to].path
    <3>1. CASE a \in down
      BY <3>1 DEF UploadInv, DownInv
    <3>2. CASE a = m
      <4>1. Has(n, e, 0)
        BY <1>2, <1>3, <1>4, HasFewer
      <4> HIDE DEF d, n, e, b
      <4>2. Has(n, e, IF d.send_packet.op = "ACK" THEN d.send_packet.word ELSE 0)
        BY <1>2, <1>4, <4>1
      <4> QED BY <1>4, <1>5, <3>2, <4>2
    <3> QED BY <1>1, <2>1, <3>1, <3>2
  <2> QED BY <1>1, <2>1 DEF DownInv, Has, UploadSize
<1>10. ASSUME NEW j \in Sessions
       PROVE  /\ QueueOK(io'[j], port[j]) /\ (Taken(io'[j]) => Taken(io[j]))
              /\ Serves(st[j], fsm[j], port[j])'
  <2>1. io[j] \in Io /\ QueueOK(io[j], port[j]) /\ Serves(st[j], fsm[j], port[j])
        /\ io \in [Sessions -> Io]
    BY DEF UploadInv, IInv, TypeOK, ServerInv
  <2>2. Succeeded("send") \in Handlers /\ Succeeded("send").kind = "send"
        /\ Delivered(Succeeded("send"), port[j])
    BY HandlerTypes DEF Delivered, Succeeded
  <2>3. io'[j] = Complete(io[j], Succeeded("send")) \/ io'[j] = io[j]
    BY <1>6, <2>1
  <2>4. QueueOK(io'[j], port[j]) /\ (Taken(io'[j]) => Taken(io[j]))
    BY <2>1, <2>2, <2>3, CompleteDelivered, TakenBefore
  <2>5. ASSUME st[j] # "Accepting", m.port = port[j]
        PROVE  /\ m.to = fsm[j].agreed_remote_endpoint
               /\ m.packet.op = "ACK" => m.packet.word <= fsm[j].last_saved_block
    <3>1. j = i
      BY <1>2, <1>5, <2>5 DEF UploadInv, PortsApart, Busy
    <3> QED BY <1>2, <1>5, <3>1
  <2>6. Serves(st[j], fsm[j], port[j])'
    BY <1>1, <1>6, <2>1, <2>5 DEF Serves, Has, UploadSize
  <2> QED BY <2>1, <2>4, <2>6
<1>11. ServerInv' /\ PortsApart'
  <2>1. \A j \in Sessions : QueueOK(io[j], port[j])'
    BY <1>1, <1>10 DEF QueueOK, Delivered
  <2>2. ServerInv'
    BY <1>10, <2>1 DEF ServerInv
  <2>3. PortsApart'
    BY <1>1, <1>6 DEF UploadInv, PortsApart, Busy
  <2> QED BY <2>2, <2>3
<1>12. BoundInv'
  BY <1>1, <1>10, BoundKept DEF UploadInv
<1> QED BY <1>7, <1>8, <1>9, <1>11, <1>12 DEF UploadInv


-----------------------------------------------------------------------------
(* A session takes a request.                                              *)

\* It serves the client that made it, and has written nothing.
LEMMA RequestServed ==
  ASSUME UploadInv, NEW i \in Sessions, ServeWriteRequest(i), Opens(i)
  PROVE  \E c \in Endpoints, s \in {"SendingAck", "SendingError"}, d \in Data :
           /\ ~Busy(i) /\ Taken(io[i])
           /\ Step(i, s, d, OpenSocket(Left(i)))
           /\ d.agreed_remote_endpoint = c /\ d.file = want[c].path
           /\ d.file_stream = "write" /\ d.last_saved_block = 0
           /\ d.send_packet \in Packet
           /\ s = "SendingError" => d.send_packet.op = "ERROR"
<1> DEFINE c == Front(i).from
           g == Requested(i)
           h == OpenStream(g, want[c], "write")
           f == InitServeWriteRequest(g, want[c])
           o == OpenSocket(Left(i))
<1>1. /\ IInv /\ NetTypes /\ io[i] \in Io /\ QueueOK(io[i], port[i])
      /\ fsm \in [Sessions -> Data]
  BY DEF UploadInv, IInv, TypeOK, ServerInv
<1>2. /\ st[i] = "Accepting" /\ Runs(i, "accept") /\ Front(i).ok
  BY DEF ServeWriteRequest, RequestReceived
<1>3. /\ io[i].ready # <<>> /\ Front(i).kind = "accept"
      /\ Delivered(Front(i), port[i])
  BY <1>1, <1>2, DequeueDelivered DEF Runs, Front
<1>4. Taken(io[i])
  <2>1. Front(i) = io[i].ready[1] /\ 1 \in 1 .. Len(io[i].ready)
    BY <1>1, <1>3, DequeueIo DEF Front
  <2> QED BY <1>2, <1>3, <2>1 DEF Taken
<1>5. /\ c \in Endpoints /\ Front(i).msg = want[c] /\ want[c] \in Requests
      /\ Unstarted(g) /\ g.file_stream = "closed" /\ g.last_error_code = NoError
      /\ g \in Data
  BY <1>1, <1>2, <1>3, FreeFacts, WantFacts DEF Delivered, Unstarted
<1>6. AckOrError(i, f, o)
  BY <1>5 DEF ServeWriteRequest
<1>7. Unstarted(f) /\ f \in Data /\ f.file_stream # "read"
  BY <1>5, InitServeWriteRequestData DEF Unstarted
<1>8. /\ f.agreed_remote_endpoint = c /\ f.file = want[c].path
      /\ f.file_stream = "write"
  <2>1. /\ want[c].mode /\ want[c].path # NoFile
        /\ want[c].path \in Files /\ want[c].path \notin Unopenable
    BY <1>1, <1>5, WantFacts
  <2>2. h = [g EXCEPT !.file = want[c].path, !.file_stream = "write"]
    BY <2>1 DEF OpenStream
  <2>3. g.agreed_remote_endpoint = c
    BY <1>1 DEF Requested, Data
  <2> DEFINE path == want[c].path
  <2> HIDE DEF c, g, h, path
  <2>4. /\ h \in Data /\ h.agreed_remote_endpoint = c /\ h.file = path
        /\ h.file_stream = "write"
    <3>1. path \in Files /\ g \in Data
      BY <1>5, <2>1 DEF path
    <3>2. h = [g EXCEPT !.file = path, !.file_stream = "write"]
      BY <2>2 DEF path
    <3> QED BY <2>3, <3>1, <3>2 DEF Data
  <2>5. f = [h EXCEPT !.last_error_code = RequestError(g, want[c])]
    BY DEF InitServeWriteRequest, f, h
  <2> HIDE DEF f
  <2> QED BY <2>4, <2>5 DEF Data, path
<1>9. f.last_saved_block = 0 /\ TransferOK(f)
  BY <1>7, UnstartedOK DEF Unstarted
<1> HIDE DEF f, g, o, c
<1>10. CASE HasError(f)
  <2> DEFINE d == FormErrorPacket(f)
  <2>1. Step(i, "SendingError", d, o)
    BY <1>6, <1>10 DEF AckOrError
  <2>2. /\ d \in Data /\ d.send_packet.op = "ERROR" /\ d.send_packet \in Packet
        /\ SameRequest(d, f) /\ SameTransfer(d, f)
    BY <1>9, <1>10, ReportStep, FormErrorPacketData DEF TransferOK
  <2> HIDE DEF d
  <2>3. /\ d.agreed_remote_endpoint = c /\ d.file = want[c].path
        /\ d.file_stream = "write" /\ d.last_saved_block = 0
    BY <1>8, <1>9, <2>2 DEF SameRequest, SameTransfer
  <2> QED BY <1>2, <1>4, <1>5, <2>1, <2>2, <2>3 DEF Busy, o
<1>11. CASE ~HasError(f)
  <2> DEFINE d == FormAckPacket(f)
  <2>1. Step(i, "SendingAck", d, o)
    BY <1>6, <1>11 DEF AckOrError
  <2>2. /\ d \in Data /\ d.send_packet \in Packet
        /\ SameRequest(d, f) /\ SameTransfer(d, f)
    BY <1>7, FormedPackets, SameRequestData, FormAckPacketData
  <2> HIDE DEF d
  <2>3. /\ d.agreed_remote_endpoint = c /\ d.file = want[c].path
        /\ d.file_stream = "write" /\ d.last_saved_block = 0
    BY <1>8, <1>9, <2>2 DEF SameRequest, SameTransfer
  <2> QED BY <1>2, <1>4, <1>5, <2>1, <2>2, <2>3 DEF Busy, o
<1> QED BY <1>10, <1>11

\* The file is truncated: whoever else writes or has written it is disturbed.
LEMMA OpenDisk ==
  ASSUME UploadInv, NEW q \in Ports, q = ports + 1, NEW f \in Files,
         ports' = q,
         target' = [target EXCEPT ![q] = f], disk' = [disk EXCEPT ![f] = <<>>],
         disturbed' = disturbed \cup {n \in Ports : target[n] = f}
           \cup (IF {n \in Ports : target[n] = f /\ closing[n] = "open"} = {}
                 THEN {} ELSE {q}),
         UNCHANGED <<stream, synced, closing>>
  PROVE  /\ (DiskTypes /\ DiskInv /\ UnusedInv)'
         /\ target'[q] = f /\ stream[q] = <<>> /\ closing[q] = "open"
<1>1. DiskTypes /\ DiskInv /\ UnusedInv /\ ports \in Nat
  BY DEF UploadInv, NetTypes
<1>2. /\ stream[q] = <<>> /\ synced[q] = 0 /\ target[q] = NoFile
      /\ closing[q] = "open" /\ q \notin disturbed
  BY <1>1 DEF UnusedInv
<1>3. /\ target'[q] = f
      /\ \A n \in Ports : n # q => target'[n] = target[n]
  BY <1>1 DEF DiskTypes
<1>4. /\ \A n \in 1 .. ports : n \in Ports /\ n # q
      /\ 1 .. q = (1 .. ports) \cup {q}
  BY <1>1, PortAssumption DEF Ports
<1>5. DiskTypes'
  <2>1. <<>> \in Seq(Nat)
    OBVIOUS
  <2>2. disk' \in [Files -> Seq(Nat)] /\ target' \in [Ports -> Files \cup {NoFile}]
        /\ disturbed' \subseteq Ports
    BY <1>1, <2>1 DEF DiskTypes
  <2> QED BY <1>1, <2>2 DEF DiskTypes
<1>6. UnusedInv'
  <2> SUFFICES ASSUME NEW n \in Ports, n > q
               PROVE  /\ stream[n] = <<>> /\ synced[n] = 0
                      /\ target'[n] = NoFile /\ closing[n] = "open"
                      /\ n \notin disturbed'
    BY DEF UnusedInv
  <2>1. n # q /\ n > ports
    BY <1>1, PortAssumption DEF Ports
  <2>2. target[n] = NoFile /\ n \notin disturbed
    BY <1>1, <2>1 DEF UnusedInv
  <2>3. n \notin disturbed'
    BY <2>1, <2>2, FileAssumption
  <2> QED BY <1>1, <1>3, <2>1, <2>2, <2>3 DEF UnusedInv
<1>7. DiskInv'
  <2> SUFFICES ASSUME NEW n \in 1 .. q
               PROVE  /\ target'[n] \in Files
                      /\ synced[n] <= Len(stream[n])
                      /\ closing[n] = "saved" => synced[n] = Len(stream[n])
                      /\ n \notin disturbed' => disk'[target'[n]] = T!FirstUnits(synced[n])
                      /\ \A k \in 1 .. q :
                           (k # n /\ target'[k] = target'[n] /\ closing[k] = "open")
                             => n \in disturbed'
    BY DEF DiskInv
  <2>1. CASE n = q
    <3>1. synced[n] = 0 /\ Len(stream[n]) = 0 /\ closing[n] = "open"
      BY <1>2, <2>1
    <3>2. disk'[f] = <<>> /\ <<>> = T!FirstUnits(0)
      BY <1>1 DEF DiskTypes, T!FirstUnits
    <3>3. \A k \in 1 .. q :
            (k # n /\ target'[k] = target'[n] /\ closing[k] = "open") => n \in disturbed'
      BY <1>3, <1>4, <2>1
    <3> QED BY <1>3, <2>1, <3>1, <3>2, <3>3
  <2>2. CASE n \in 1 .. ports
    <3>1. /\ target'[n] = target[n] /\ target[n] \in Files /\ n \in Ports
          /\ synced[n] <= Len(stream[n])
          /\ closing[n] = "saved" => synced[n] = Len(stream[n])
      BY <1>1, <1>3, <1>4, <2>2 DEF DiskInv
    <3>2. n \notin disturbed' => n \notin disturbed /\ target[n] # f
      BY <3>1
    <3>3. n \notin disturbed' => disk'[target'[n]] = T!FirstUnits(synced[n])
      BY <1>1, <2>2, <3>1, <3>2 DEF DiskInv, DiskTypes
    <3>4. \A k \in 1 .. q :
            (k # n /\ target'[k] = target'[n] /\ closing[k] = "open") => n \in disturbed'
      BY <1>1, <1>3, <1>4, <2>2, <3>1, <3>2 DEF DiskInv
    <3> QED BY <3>1, <3>3, <3>4
  <2> QED BY <1>4, <2>1, <2>2
<1> QED BY <1>2, <1>3, <1>5, <1>6, <1>7

\* A session begins an upload at a new port.
LEMMA OpenInv ==
  ASSUME UploadInv, IInv', NEW i \in Sessions, ServeWriteRequest(i), Opens(i),
         UNCHANGED netVars
  PROVE  UploadInv'
<1> DEFINE q == ports + 1
           o == OpenSocket(Left(i))
<1>1. PICK c \in Endpoints, s \in {"SendingAck", "SendingError"}, d \in Data :
        /\ ~Busy(i) /\ Taken(io[i])
        /\ Step(i, s, d, OpenSocket(Left(i)))
        /\ d.agreed_remote_endpoint = c /\ d.file = want[c].path
        /\ d.file_stream = "write" /\ d.last_saved_block = 0
        /\ d.send_packet \in Packet
        /\ s = "SendingError" => d.send_packet.op = "ERROR"
  BY RequestServed
<1>2. /\ st \in [Sessions -> States] /\ fsm \in [Sessions -> Data]
      /\ io \in [Sessions -> Io] /\ port \in [Sessions -> 0 .. MaxTransfers]
      /\ IInv /\ NetTypes /\ BoundInv /\ ports \in Nat
  BY DEF UploadInv, IInv, TypeOK, NetTypes
<1>3. /\ st' = [st EXCEPT ![i] = s] /\ fsm' = [fsm EXCEPT ![i] = d]
      /\ io' = [io EXCEPT ![i] = Enter(s, o)]
      /\ Expiries(Enter(s, o).ready)
  <2>1. Left(i) \in Io /\ LeftOK(Left(i))
    BY <1>2, RunsFacts DEF ServeWriteRequest, RequestReceived
  <2>2. o \in Io /\ Expiries(o.ready)
    BY <2>1, OpenIo DEF LeftOK
  <2>3. Expiries(Enter(s, o).ready)
    BY <2>2, EnterQueue
  <2> QED BY <1>1, <2>3 DEF Step
<1> HIDE DEF o
<1>4. /\ ports' = q /\ port' = [port EXCEPT ![i] = q]
      /\ target' = [target EXCEPT ![q] = d.file]
      /\ disk' = [disk EXCEPT ![d.file] = <<>>]
      /\ disturbed' = disturbed \cup {n \in Ports : target[n] = d.file}
           \cup (IF {n \in Ports : target[n] = d.file /\ closing[n] = "open"} = {}
                 THEN {} ELSE {q})
      /\ UNCHANGED <<stream, synced, closing>>
      /\ UNCHANGED <<want, down, up, peer, blocks, outcome>>
  <2>1. fsm'[i] = d
    BY <1>2, <1>3
  <2> QED BY <2>1 DEF Opens, netVars
<1>5. BoundInv' /\ q \in Ports
  <2>1. ~Taken(io'[i]) /\ \A j \in Sessions \ {i} : io'[j] = io[j]
    BY <1>2, <1>3, ExpiriesTakeNone
  <2> QED BY <1>1, <1>2, <1>4, <2>1, BoundServed
<1>6. d.file \in Files
  BY <1>1, <1>2, WantFacts
<1>7. /\ (DiskTypes /\ DiskInv /\ UnusedInv)'
      /\ target'[q] = d.file /\ stream[q] = <<>> /\ closing[q] = "open"
  BY <1>4, <1>5, <1>6, OpenDisk
<1>8. /\ \A m \in down : m.port \in 1 .. ports /\ m.port # q
      /\ peer[c] # q
  <2>1. \A m \in down : m.port \in 1 .. ports /\ m.port # q
    BY <1>2 DEF UploadInv, DownInv
  <2>2. peer[c] = NoPort \/ \E m \in down : m.port = peer[c]
    BY <1>1 DEF UploadInv, ClientInv, Chosen
  <2>3. NoPort # q
    BY <1>5, PortAssumption DEF Ports
  <2> QED BY <2>1, <2>2, <2>3
<1>9. /\ \A n \in 1 .. ports : n \in 1 .. q /\ n # q
      /\ \A n \in 1 .. ports : target'[n] = target[n]
  <2>1. target \in [Ports -> Files \cup {NoFile}]
    BY DEF UploadInv, DiskTypes
  <2>2. \A n \in 1 .. ports : n \in 1 .. q /\ n # q /\ n \in Ports
    BY <1>2, PortAssumption DEF NetTypes, Ports
  <2> QED BY <1>4, <2>1, <2>2
<1>10. NetTypes'
  <2>1. q \in 0 .. MaxTransfers
    BY <1>5, PortAssumption DEF Ports
  <2> QED BY <1>2, <1>4, <2>1 DEF NetTypes
<1>11. (UpInv /\ ClientInv)'
  BY <1>4 DEF UploadInv, UpInv, DataBlock, ClientInv, Chosen, UploadSize
<1>12. DownInv'
  BY <1>4, <1>8, <1>9 DEF UploadInv, DownInv, Has, UploadSize
<1>13. \A j \in Sessions \ {i} :
         /\ st'[j] = st[j] /\ fsm'[j] = fsm[j] /\ io'[j] = io[j] /\ port'[j] = port[j]
         /\ Serves(st[j], fsm[j], port[j]) /\ QueueOK(io[j], port[j])
         /\ Busy(j) => port[j] \in 1 .. ports
  BY <1>2, <1>3, <1>4 DEF UploadInv, ServerInv, Serves, Busy
<1>14. PortsApart'
  <2>1. \A j \in Sessions \ {i} : Busy(j) => port'[j] # q
    BY <1>9, <1>13
  <2>2. port'[i] = q
    BY <1>2, <1>4
  <2> QED BY <1>13, <2>1, <2>2 DEF UploadInv, PortsApart, Busy
<1>15. Has(q, c, 0) /\ Least(0 * DefaultBlockSize, UploadSize(c)) = 0
  <2>1. UploadSize(c) \in Nat
    BY <1>2, WantFacts
  <2>2. <<>> = T!FirstUnits(0) /\ Len(<<>>) = 0
    BY DEF T!FirstUnits
  <2>3. Least(0, UploadSize(c)) = 0 /\ 0 * DefaultBlockSize = 0
    BY <2>1, ProtocolAssumption DEF Least
  <2> QED BY <1>7, <2>1, <2>2, <2>3 DEF Has
<1>16. ASSUME NEW j \in Sessions
       PROVE  QueueOK(io[j], port[j])' /\ Serves(st[j], fsm[j], port[j])'
  <2>1. CASE j = i
    <3>1. st'[j] = s /\ fsm'[j] = d /\ port'[j] = q /\ QueueOK(io'[j], q)
      BY <1>2, <1>3, <1>4, <2>1, ExpiriesDelivered
    <3>2. QueueOK(io[j], port[j])'
      BY <1>4, <3>1 DEF QueueOK, Delivered
    <3>3. q \in 1 .. q /\ Len(stream[q]) = 0
      BY <1>2, <1>7
    <3> HIDE DEF q
    <3>4. Serves(st[j], fsm[j], port[j])'
      BY <1>1, <1>4, <1>7, <1>8, <1>15, <3>1, <3>3 DEF Serves, Has, UploadSize
    <3> QED BY <3>2, <3>4
  <2>2. CASE j # i
    <3>1. /\ st'[j] = st[j] /\ fsm'[j] = fsm[j] /\ io'[j] = io[j] /\ port'[j] = port[j]
          /\ Serves(st[j], fsm[j], port[j]) /\ QueueOK(io[j], port[j])
          /\ Busy(j) => port[j] \in 1 .. ports
      BY <1>13, <2>2
    <3>2. QueueOK(io[j], port[j])'
      BY <1>4, <3>1, SameQueue
    <3>3. Serves(st[j], fsm[j], port[j])'
      BY <1>4, <1>9, <3>1 DEF Serves, Has, UploadSize, Busy
    <3> QED BY <3>2, <3>3
  <2> QED BY <2>1, <2>2
<1>17. ServerInv'
  BY <1>16 DEF ServerInv
<1> QED BY <1>5, <1>7, <1>10, <1>11, <1>12, <1>14, <1>17 DEF UploadInv


-----------------------------------------------------------------------------
(* A session writes.                                                       *)

\* The block that it takes is the one after the block that it saved last, for
\* its peer sends no later one, and the session takes no earlier one.
LEMMA NextData ==
  ASSUME UploadInv, NEW i \in Sessions, SaveData(i)
  PROVE  LET d == fsm[i]
             n == port[i]
             e == d.agreed_remote_endpoint
             b == d.last_saved_block
         IN  /\ Busy(i) /\ Serves(st[i], d, n) /\ st[i] = "WaitingForData"
             /\ e \in Endpoints /\ peer[e] = n /\ b \in Nat
             /\ Front(i).msg = DataBlock(e, b + 1)
             /\ b * DefaultBlockSize <= UploadSize(e)
             /\ Len(stream[n]) = b * DefaultBlockSize
<1> DEFINE d == fsm[i]
           n == port[i]
           e == d.agreed_remote_endpoint
           b == d.last_saved_block
           p == Front(i).msg
<1>1. /\ IInv /\ NetTypes /\ d \in Data /\ Serves(st[i], d, n)
      /\ io[i] \in Io /\ QueueOK(io[i], n)
  BY DEF UploadInv, IInv, TypeOK, ServerInv
<1>2. /\ st[i] = "WaitingForData" /\ Runs(i, "receive") /\ Front(i).ok
      /\ p.op = "DATA" /\ Front(i).from = e /\ ~(p.word <= b)
  BY DEF SaveData, PacketReceived, HasDataReceived, IsOldData
<1>3. e \in Endpoints /\ b \in Nat /\ Len(stream[n]) = Least(b * DefaultBlockSize, UploadSize(e))
      /\ (peer[e] = n => blocks[e] <= b)
  BY <1>1, <1>2 DEF Serves, Data
<1>4. [from |-> e, port |-> n, packet |-> p] \in up
  <2>1. Delivered(Front(i), n) /\ Front(i).kind = "receive"
    BY <1>1, <1>2, DequeueDelivered DEF Runs, Front
  <2> QED BY <1>2, <2>1 DEF Delivered
<1> HIDE DEF d, n, e, b, p
<1>5. PICK k \in 1 .. WordSize - 1 :
        /\ peer[e] = n /\ p = DataBlock(e, k)
        /\ k <= blocks[e] + 1 /\ Before(k) <= UploadSize(e)
  BY <1>2, <1>4 DEF UploadInv, UpInv
<1>6. p.word = k
  BY <1>5 DEF DataBlock, Block, NewPacket
<1>7. k = b + 1
  <2>1. WordSize \in Nat /\ blocks[e] \in Nat
    BY <1>1, <1>3, ProtocolAssumption DEF NetTypes
  <2> QED BY <1>2, <1>3, <1>5, <1>6, <2>1
<1>8. b * DefaultBlockSize <= UploadSize(e)
  <2>1. k - 1 = b
    BY <1>3, <1>7
  <2>2. Before(k) = b * DefaultBlockSize
    BY <2>1 DEF Before
  <2> QED BY <1>5, <2>2
<1>9. Len(stream[n]) = b * DefaultBlockSize
  <2>1. UploadSize(e) \in Nat /\ b * DefaultBlockSize \in Nat
    BY <1>1, <1>3, WantFacts, ProtocolAssumption
  <2> QED BY <1>3, <1>8, <2>1 DEF Least
<1> QED BY <1>1, <1>2, <1>3, <1>5, <1>7, <1>8, <1>9 DEF Busy, d, n, e, b, p

\* So the stream has more of the file of the peer, and all of the block unless
\* the write has failed.
LEMMA WrittenFacts ==
  ASSUME UploadInv, NEW i \in Sessions, SaveData(i), Writes(i)
  PROVE  LET n == port[i]
             e == fsm[i].agreed_remote_endpoint
         IN  \E s \in {"SendingAck", "SendingError"}, d \in Data, l \in Nat :
               /\ Step(i, s, d, Left(i)) /\ SameRequest(d, fsm[i])
               /\ d.send_packet \in Packet
               /\ s = "SendingError" => d.send_packet.op = "ERROR"
               /\ d.last_saved_block \in Nat
               /\ fsm[i].last_saved_block <= d.last_saved_block
               /\ Len(stream[n]) <= l /\ l <= UploadSize(e)
               /\ Least(d.last_saved_block * DefaultBlockSize, UploadSize(e)) <= l
               /\ s # "SendingError" =>
                    l = Least(d.last_saved_block * DefaultBlockSize, UploadSize(e))
               /\ stream' = [stream EXCEPT ![n] = T!FirstUnits(l)]
               /\ \E k \in synced[n] .. l : Sync(n, T!FirstUnits(l), k)
<1> DEFINE c == fsm[i]
           n == port[i]
           e == c.agreed_remote_endpoint
           b == c.last_saved_block
           p == Front(i).msg
           bs == DefaultBlockSize
           size == UploadSize(e)
           x == b * bs
<1>1. /\ IInv /\ NetTypes /\ c \in Data /\ fsm \in [Sessions -> Data]
  BY DEF UploadInv, IInv, TypeOK
<1>2. /\ Serves(st[i], c, n) /\ st[i] = "WaitingForData"
      /\ e \in Endpoints /\ peer[e] = n /\ b \in Nat
      /\ p = DataBlock(e, b + 1) /\ x <= size /\ Len(stream[n]) = x
  BY NextData
<1>3. size \in Nat /\ bs \in Nat \ {0} /\ x \in Nat /\ (b + 1) * bs = x + bs
  <2>1. \A y, z \in Nat : y * z \in Nat /\ (y + 1) * z = y * z + z
    OBVIOUS
  <2>2. size \in Nat /\ bs \in Nat \ {0}
    BY <1>1, <1>2, WantFacts, ProtocolAssumption
  <2> HIDE DEF size, bs, b
  <2> QED BY <1>2, <2>1, <2>2
<1>4. p.word = b + 1 /\ p.pos = x /\ p.len = Least(bs, size - x)
  <2>1. b + 1 - 1 = b
    BY <1>2
  <2> QED BY <1>2, <2>1 DEF DataBlock, Block, Before, NewPacket
<1>5. stream[n] = T!FirstUnits(x)
  BY <1>2 DEF Serves, Has
<1>6. PICK taken \in 0 .. p.len :
        LET units == stream[n] \o [k \in 1 .. taken |-> p.pos + k]
        IN  /\ fsm'[i].last_error_code = NoError => taken = p.len
            /\ stream' = [stream EXCEPT ![n] = units]
            /\ \E k \in synced[n] .. Len(units) : Sync(n, units, k)
  BY DEF Writes
<1> DEFINE l == x + taken
<1>7. p.len \in Nat /\ taken \in Nat /\ taken <= p.len /\ l \in Nat /\ x + p.len <= size
      /\ x + p.len = Least(x + bs, size)
  <2> HIDE DEF size, x, bs, p
  <2>1. p.len \in Nat /\ x + p.len <= size /\ x + p.len = Least(x + bs, size)
    BY <1>2, <1>3, <1>4 DEF Least
  <2> QED BY <1>3, <2>1
<1>8. /\ fsm'[i].last_error_code = NoError => l = Least(x + bs, size)
      /\ stream' = [stream EXCEPT ![n] = T!FirstUnits(l)]
      /\ \E k \in synced[n] .. l : Sync(n, T!FirstUnits(l), k)
  <2>1. stream[n] \o [k \in 1 .. taken |-> p.pos + k] = T!FirstUnits(l)
    <3> HIDE DEF x
    <3> QED BY <1>3, <1>4, <1>5, <1>7, JoinUnits
  <2>2. Len(T!FirstUnits(l)) = l
    BY <1>7, UnitsLength
  <2> HIDE DEF l
  <2>3. fsm'[i].last_error_code = NoError => l = Least(x + bs, size)
    BY <1>6, <1>7 DEF l
  <2> QED BY <1>6, <2>1, <2>2, <2>3
<1>9. /\ PacketReceived(i, "WaitingForData") /\ p \in Datagrams
      /\ DataOK("WaitingForData", c) /\ ~IsOldData(c, p)
  BY <1>1, PacketFacts DEF SaveData
<1>10. PICK fail \in BOOLEAN :
         /\ c.file_stream # "write" => fail
         /\ AckOrError(i, WriteData(c, p, fail), Left(i))
  BY DEF SaveData
<1> DEFINE f == WriteData(c, p, fail)
<1>11. /\ f \in Data /\ TransferOK(f) /\ (HasError(f) <=> fail) /\ SameRequest(f, c)
       /\ fail => f.last_saved_block = b
       /\ ~fail => /\ f.last_saved_block = b + 1
                   /\ f.last_error_code = c.last_error_code
  BY <1>1, <1>4, <1>9, <1>10, SavedOK, WriteDataData, SameRequestData DEF SameTransfer
<1> HIDE DEF f
<1>12. Least(b * bs, size) <= l /\ x <= l /\ l <= size
  <2>1. x <= l /\ l <= size
    BY <1>3, <1>7
  <2>2. Least(x, size) <= l
    <3> HIDE DEF x, l, size
    <3> QED BY <1>2, <1>3, <1>7, <2>1 DEF Least
  <2> QED BY <2>1, <2>2
<1>13. CASE fail
  <2> DEFINE d == FormErrorPacket(f)
  <2>1. Step(i, "SendingError", d, Left(i))
    BY <1>10, <1>11, <1>13 DEF AckOrError, f
  <2>2. /\ d \in Data /\ d.send_packet.op = "ERROR" /\ d.send_packet \in Packet
        /\ SameRequest(d, f) /\ SameTransfer(d, f)
    BY <1>11, <1>13, ReportStep, FormErrorPacketData
  <2> HIDE DEF d
  <2>3. d.last_saved_block = b /\ SameRequest(d, c)
    BY <1>11, <1>13, <2>2, SameRequestTwice DEF SameTransfer
  <2>4. /\ Len(stream[n]) <= l /\ l <= size
        /\ Least(d.last_saved_block * bs, size) <= l /\ l \in Nat
        /\ d.last_saved_block \in Nat /\ b <= d.last_saved_block
    BY <1>2, <1>7, <1>12, <2>3
  <2> HIDE DEF l, x, size, bs, p
  <2>5. "SendingError" \in {"SendingAck", "SendingError"}
    OBVIOUS
  <2> QED BY <1>8, <2>1, <2>2, <2>3, <2>4, <2>5 DEF size, bs
<1>14. CASE ~fail
  <2> DEFINE d == FormAckPacket(f)
  <2>1. Step(i, "SendingAck", d, Left(i))
    BY <1>10, <1>11, <1>14 DEF AckOrError, f
  <2>2. /\ d \in Data /\ d.send_packet \in Packet
        /\ SameRequest(d, f) /\ SameTransfer(d, f)
        /\ d.last_error_code = f.last_error_code
    BY <1>11, FormedPackets, SameRequestData, FormAckPacketData
  <2> HIDE DEF d
  <2>3. d.last_saved_block = b + 1 /\ SameRequest(d, c)
    BY <1>11, <1>14, <2>2, SameRequestTwice DEF SameTransfer
  <2>4. fsm'[i] = d
    BY <1>1, <2>1 DEF Step
  <2>5. d.last_error_code = NoError
    BY <1>9, <1>11, <1>14, <2>2, HasErrorDataFacts DEF DataOK, ErrorOK
  <2>6. l = Least(d.last_saved_block * bs, size) /\ l \in Nat
        /\ Least(d.last_saved_block * bs, size) <= l
    <3>1. l = Least(d.last_saved_block * bs, size)
      BY <1>3, <1>8, <2>3, <2>4, <2>5
    <3> HIDE DEF l
    <3> QED BY <1>7, <3>1
  <2>7. /\ Len(stream[n]) <= l /\ l <= size
        /\ d.last_saved_block \in Nat /\ b <= d.last_saved_block
    BY <1>2, <1>12, <2>3
  <2> HIDE DEF l, x, size, bs, p
  <2>8. "SendingAck" \in {"SendingAck", "SendingError"}
    OBVIOUS
  <2> QED BY <1>8, <2>1, <2>2, <2>3, <2>6, <2>7, <2>8 DEF size, bs
<1> QED BY <1>13, <1>14


\* Only the client that a session serves can have chosen its port.
LEMMA OnlyPeer ==
  ASSUME UploadInv, NEW i \in Sessions, Busy(i), NEW c \in Endpoints, peer[c] = port[i]
  PROVE  c = fsm[i].agreed_remote_endpoint
<1>1. Serves(st[i], fsm[i], port[i]) /\ port[i] # NoPort /\ Chosen(c)
  BY PortAssumption DEF UploadInv, ServerInv, ClientInv, NetTypes
<1>2. PICK m \in down : m.to = c /\ m.port = port[i]
  BY <1>1 DEF Chosen
<1> QED BY <1>1, <1>2 DEF Serves, Busy

\* A session that writes keeps the invariant.
LEMMA WriteInv ==
  ASSUME UploadInv, IInv', NEW i \in Sessions, SaveData(i), Writes(i), UNCHANGED netVars
  PROVE  UploadInv'
<1>0. PICK c \in Data, n \in Ports, e \in Endpoints, b \in Nat :
        /\ c = fsm[i] /\ n = port[i]
        /\ e = c.agreed_remote_endpoint /\ b = c.last_saved_block
  <2>1. fsm[i] \in Data /\ NetTypes
    BY DEF UploadInv, IInv, TypeOK
  <2>2. /\ fsm[i].agreed_remote_endpoint \in Endpoints
        /\ fsm[i].last_saved_block \in Nat /\ port[i] \in 1 .. ports
    BY NextData DEF Serves, Busy
  <2>3. port[i] \in Ports
    BY <2>1, <2>2, PortAssumption DEF NetTypes, Ports
  <2> QED BY <2>1, <2>2, <2>3
<1> DEFINE size == UploadSize(e)
<1>1. PICK s \in {"SendingAck", "SendingError"}, d \in Data, l \in Nat :
        /\ Step(i, s, d, Left(i)) /\ SameRequest(d, c)
        /\ d.send_packet \in Packet
        /\ s = "SendingError" => d.send_packet.op = "ERROR"
        /\ d.last_saved_block \in Nat /\ b <= d.last_saved_block
        /\ Len(stream[n]) <= l /\ l <= size
        /\ Least(d.last_saved_block * DefaultBlockSize, size) <= l
        /\ s # "SendingError" => l = Least(d.last_saved_block * DefaultBlockSize, size)
        /\ stream' = [stream EXCEPT ![n] = T!FirstUnits(l)]
        /\ \E k \in synced[n] .. l : Sync(n, T!FirstUnits(l), k)
  BY <1>0, WrittenFacts
<1>2. /\ Busy(i) /\ Serves(st[i], c, n) /\ peer[e] = n /\ b \in Nat /\ e \in Endpoints
  BY <1>0, NextData
<1>3. /\ st \in [Sessions -> States] /\ fsm \in [Sessions -> Data]
      /\ io \in [Sessions -> Io] /\ IInv /\ NetTypes /\ DiskTypes /\ size \in Nat
  BY <1>0, <1>2, WantFacts DEF UploadInv, IInv, TypeOK
<1>4. /\ n \in 1 .. ports /\ closing[n] = "open" /\ target[n] = c.file
      /\ c.file = want[e].path /\ c.file_stream = "write" /\ n \in Ports
  <2>1. n \in 1 .. ports /\ closing[n] = "open" /\ target[n] = c.file
        /\ c.file = want[e].path /\ c.file_stream = "write"
    BY <1>0, <1>2 DEF Serves, Busy
  <2> QED BY <1>3, <2>1, PortAssumption DEF NetTypes, Ports
<1>5. /\ UNCHANGED <<want, down, up, peer, blocks, outcome>>
      /\ UNCHANGED <<port, ports, target, disturbed, closing>>
  BY DEF Writes, netVars
<1>6. /\ st' = [st EXCEPT ![i] = s] /\ fsm' = [fsm EXCEPT ![i] = d]
      /\ io' = [io EXCEPT ![i] = Enter(s, Left(i))]
      /\ Expiries(Enter(s, Left(i)).ready)
  <2>1. LeftOK(Left(i)) /\ Left(i) \in Io
    BY <1>3, RunsFacts DEF SaveData, PacketReceived
  <2>2. Expiries(Enter(s, Left(i)).ready)
    BY <2>1, EnterQueue DEF LeftOK
  <2> QED BY <1>1, <2>2 DEF Step
<1>7. (DiskTypes /\ DiskInv /\ UnusedInv)'
  <2> DEFINE units == T!FirstUnits(l)
  <2>1. PICK k \in synced[n] .. l : Sync(n, units, k)
    BY <1>1
  <2>2. stream' = [stream EXCEPT ![n] = units] /\ units = T!FirstUnits(l)
        /\ closing' = [closing EXCEPT ![n] = "open"]
    BY <1>1, <1>3, <1>4, <1>5 DEF DiskTypes
  <2> HIDE DEF units
  <2> QED BY <1>4, <1>5, <2>1, <2>2, DiskStep
<1>8. /\ stream'[n] = T!FirstUnits(l) /\ Len(stream'[n]) = l
      /\ Len(stream[n]) \in Nat
      /\ \A p \in Ports : p # n => stream'[p] = stream[p]
  <2>1. Len(T!FirstUnits(l)) = l
    BY UnitsLength
  <2>2. Len(stream[n]) \in Nat
    BY <1>3, <1>4 DEF DiskTypes
  <2> QED BY <1>1, <1>3, <1>4, <2>1, <2>2 DEF DiskTypes
<1>9. ASSUME NEW a \in Nat, a <= d.last_saved_block
      PROVE  Has(n, e, a)'
  <2>1. Has(n, e, d.last_saved_block)'
    <3> QED BY <1>1, <1>5, <1>8 DEF Has, UploadSize, size
  <2>2. Has(n, e, a)' <=>
          /\ stream'[n] = T!FirstUnits(Len(stream'[n])) /\ Len(stream'[n]) \in Nat
          /\ Len(stream'[n]) <= size
          /\ Least(a * DefaultBlockSize, size) <= Len(stream'[n])
    <3> QED BY <1>5 DEF Has, UploadSize, size
  <2>3. Least(a * DefaultBlockSize, size) <= l
    <3>1. \A x, y, z \in Nat :
            (x <= y /\ Least(y, size) <= z) => Least(x, size) <= z
      BY <1>3 DEF Least
    <3>2. /\ a * DefaultBlockSize \in Nat /\ d.last_saved_block * DefaultBlockSize \in Nat
          /\ a * DefaultBlockSize <= d.last_saved_block * DefaultBlockSize
      <4>1. d.last_saved_block \in Nat /\ DefaultBlockSize \in Nat
        BY <1>1, ProtocolAssumption
      <4> QED BY <1>9, <4>1, MoreBlocks
    <3> HIDE DEF size
    <3> QED BY <1>1, <3>1, <3>2
  <2> HIDE DEF size
  <2> QED BY <1>1, <1>8, <2>2, <2>3
<1>10. (NetTypes /\ UpInv)'
  BY <1>3, <1>5 DEF UploadInv, NetTypes, UpInv, DataBlock, UploadSize
<1>11. DownInv'
  <2>1. ASSUME NEW m \in down
        PROVE  /\ m.port \in 1 .. ports
               /\ Has(m.port, m.to, IF m.packet.op = "ACK" THEN m.packet.word ELSE 0)'
               /\ peer[m.to] # m.port => Len(stream'[m.port]) = 0
               /\ target[m.port] = want[m.to].path
    <3>1. /\ m.port \in 1 .. ports /\ m.port \in Ports
          /\ Has(m.port, m.to, IF m.packet.op = "ACK" THEN m.packet.word ELSE 0)
          /\ peer[m.to] # m.port => Len(stream[m.port]) = 0
          /\ target[m.port] = want[m.to].path
          /\ m.packet \in Packet
      BY <1>3 DEF UploadInv, DownInv, NetTypes
    <3>2. CASE m.port # n
      BY <1>5, <1>8, <3>1, <3>2 DEF Has, UploadSize
    <3>3. CASE m.port = n
      <4>1. m.to = e /\ (m.packet.op = "ACK" => m.packet.word <= b)
        BY <1>0, <1>2, <3>3 DEF Serves, Busy
      <4> DEFINE a == IF m.packet.op = "ACK" THEN m.packet.word ELSE 0
      <4>2. a \in Nat /\ a <= d.last_saved_block
        <5>1. m.packet.word \in Nat
          BY <3>1 DEF Packet
        <5> QED BY <1>0, <1>1, <1>2, <4>1, <5>1
      <4> HIDE DEF a
      <4>3. Has(n, e, a)'
        BY <1>9, <4>2
      <4>4. peer[e] = n
        BY <1>0, <1>2
      <4> QED BY <3>1, <3>3, <4>1, <4>3, <4>4, <1>5 DEF a, Has, UploadSize
    <3> QED BY <3>2, <3>3
  <2> QED BY <1>5, <2>1 DEF DownInv, Has, UploadSize
<1>12. ClientInv'
  <2>1. ASSUME NEW a \in Endpoints
        PROVE  IF peer[a] = NoPort THEN blocks[a] = 0 /\ outcome[a] # "complete"
               ELSE /\ \E m \in down : m.to = a /\ m.port = peer[a]
                    /\ outcome[a] = "complete" => Len(stream'[peer[a]]) = UploadSize(a)
    <3>1. Chosen(a) /\ (peer[a] # NoPort => peer[a] \in Ports)
      BY <1>3 DEF UploadInv, ClientInv, NetTypes
    <3>2. CASE peer[a] # n
      BY <1>8, <3>1, <3>2 DEF Chosen
    <3>3. CASE peer[a] = n
      <4>1. a = e
        BY <1>0, <1>2, <3>3, OnlyPeer
      <4>2. outcome[a] = "complete" => l = UploadSize(a)
        <5>1. ASSUME outcome[a] = "complete" PROVE l = size
          <6>1. Len(stream[n]) = size
            BY <1>4, <3>1, <3>3, <4>1, <5>1, PortAssumption DEF Chosen, size, Ports
          <6> HIDE DEF size
          <6> QED BY <1>1, <1>3, <6>1
        <5> QED BY <4>1, <5>1 DEF size
      <4> QED BY <1>8, <3>1, <3>3, <4>2 DEF Chosen
    <3> QED BY <3>2, <3>3
  <2> QED BY <1>5, <2>1 DEF ClientInv, Chosen, UploadSize
<1>13. BoundInv'
  <2>1. \A j \in Sessions : Taken(io'[j]) => Taken(io[j])
    BY <1>3, <1>6, ExpiriesTakeNone
  <2> QED BY <1>3, <1>5, <2>1, BoundKept DEF UploadInv
<1>14. PortsApart'
  BY <1>0, <1>2, <1>3, <1>5, <1>6 DEF UploadInv, PortsApart, Busy
<1>15. \A j \in Sessions : QueueOK(io'[j], port[j])
  BY <1>3, <1>6, ExpiriesDelivered DEF UploadInv, ServerInv
<1>16. ASSUME NEW j \in Sessions PROVE Serves(st[j], fsm[j], port[j])'
  <2>1. CASE j = i
    <3>1. st'[j] = s /\ fsm'[j] = d /\ port'[j] = n
      BY <1>0, <1>3, <1>5, <1>6, <2>1
    <3>2. /\ d.agreed_remote_endpoint = e /\ d.file_stream = "write"
          /\ d.file = want[e].path /\ target[n] = d.file
      BY <1>0, <1>1, <1>4 DEF SameRequest
    <3>3. /\ Has(n, e, d.last_saved_block)'
          /\ s # "SendingError" =>
               Len(stream'[n]) = Least(d.last_saved_block * DefaultBlockSize, UploadSize(e))
      BY <1>1, <1>8, <1>9
    <3>4. \A m \in down : m.port = n =>
            m.to = e /\ (m.packet.op = "ACK" => m.packet.word <= d.last_saved_block)
      <4> SUFFICES ASSUME NEW m \in down, m.port = n
                   PROVE  m.to = e /\ (m.packet.op = "ACK" => m.packet.word <= d.last_saved_block)
        OBVIOUS
      <4>1. m.to = e /\ (m.packet.op = "ACK" => m.packet.word <= b)
        BY <1>0, <1>2 DEF Serves, Busy
      <4>2. m.packet.word \in Nat
        BY <1>3 DEF NetTypes, Packet
      <4> QED BY <1>0, <1>1, <1>2, <4>1, <4>2
    <3>5. blocks[e] <= d.last_saved_block
      <4>1. blocks[e] <= b /\ blocks[e] \in Nat
        BY <1>0, <1>2, <1>3 DEF Serves, Busy, NetTypes
      <4> QED BY <1>0, <1>1, <1>2, <4>1
    <3>6. e \in Endpoints /\ peer[e] = n /\ d.send_packet \in Packet
          /\ (s = "SendingError" => d.send_packet.op = "ERROR")
          /\ n \in 1 .. ports /\ closing[n] = "open"
      BY <1>0, <1>1, <1>2, <1>4
    <3> QED BY <1>5, <3>1, <3>2, <3>3, <3>4, <3>5, <3>6 DEF Serves, UploadSize
  <2>2. CASE j # i
    <3>1. /\ st'[j] = st[j] /\ fsm'[j] = fsm[j] /\ Serves(st[j], fsm[j], port[j])
          /\ st[j] # "Accepting" => port[j] # n /\ port[j] \in Ports
      <4>1. st'[j] = st[j] /\ fsm'[j] = fsm[j] /\ Serves(st[j], fsm[j], port[j])
        BY <1>3, <1>6, <2>2 DEF UploadInv, ServerInv
      <4>2. ASSUME st[j] # "Accepting" PROVE port[j] # n /\ port[j] \in Ports
        BY <1>0, <1>2, <1>3, <2>2, <4>1, <4>2, PortAssumption
           DEF UploadInv, PortsApart, Busy, Serves, NetTypes, Ports
      <4> QED BY <4>1, <4>2
    <3>2. CASE st[j] = "Accepting"
      BY <3>1, <3>2 DEF Serves
    <3>3. CASE st[j] # "Accepting"
      <4>1. stream'[port[j]] = stream[port[j]]
        BY <1>8, <3>1, <3>3
      <4> QED BY <1>5, <3>1, <4>1 DEF Serves, Has, UploadSize
    <3> QED BY <3>2, <3>3
  <2> QED BY <2>1, <2>2
<1>17. ServerInv'
  BY <1>5, <1>15, <1>16 DEF ServerInv, QueueOK, Delivered
<1> QED BY <1>7, <1>10, <1>11, <1>12, <1>13, <1>14, <1>17 DEF UploadInv


-----------------------------------------------------------------------------
(* The clients.                                                            *)

\* A step of a client that chooses no port but one where nothing is written, and
\* counts no block that its session has not saved.
LEMMA ClientKeeps ==
  ASSUME UploadInv, IInv', ClientStep, NetTypes', UpInv', ClientInv', up \subseteq up',
         \A m \in down : peer'[m.to] # m.port => Len(stream[m.port]) = 0,
         \A i \in Sessions : Busy(i) =>
           LET e == fsm[i].agreed_remote_endpoint
               b == fsm[i].last_saved_block
           IN  IF peer'[e] = port[i] THEN blocks'[e] <= b
               ELSE Len(stream[port[i]]) = 0 /\ b = 0
  PROVE  UploadInv'
<1>1. /\ UNCHANGED <<st, fsm, io, want, down, port, ports>>
      /\ UNCHANGED <<target, stream, synced, disk, closing, disturbed>>
  BY DEF ClientStep, vars, diskVars
<1>2. (DiskTypes /\ DiskInv /\ UnusedInv)'
  BY <1>1 DEF UploadInv, DiskTypes, DiskInv, UnusedInv
<1>3. DownInv'
  BY <1>1 DEF UploadInv, DownInv, Has, UploadSize
<1>4. PortsApart'
  BY <1>1 DEF UploadInv, PortsApart, Busy
<1>5. BoundInv'
  BY <1>1 DEF UploadInv, BoundInv, TakenBy, Taken
<1>6. ASSUME NEW i \in Sessions
      PROVE  QueueOK(io[i], port[i])' /\ Serves(st[i], fsm[i], port[i])'
  <2>1. QueueOK(io[i], port[i]) /\ Serves(st[i], fsm[i], port[i])
    BY DEF UploadInv, ServerInv
  <2>2. QueueOK(io[i], port[i])'
    BY <1>1, <2>1 DEF QueueOK, Delivered
  <2>3. Serves(st[i], fsm[i], port[i])'
    BY <1>1, <2>1 DEF Serves, Has, UploadSize, Busy
  <2> QED BY <2>2, <2>3
<1>7. ServerInv'
  BY <1>6 DEF ServerInv
<1> QED BY <1>2, <1>3, <1>4, <1>5, <1>7 DEF UploadInv

\* A client that changes neither its peer nor its count.
LEMMA ClientEndsInv ==
  ASSUME UploadInv, IInv', NEW e \in Endpoints, ClientFails(e) \/ ClientRefuses(e)
  PROVE  UploadInv'
<1>1. NetTypes /\ UpInv /\ ClientInv /\ DownInv /\ ServerInv
  BY DEF UploadInv
<1>2. /\ ClientStep /\ UNCHANGED <<peer, blocks, want, down, stream, port, ports>>
      /\ \/ UNCHANGED up /\ outcome' = [outcome EXCEPT ![e] = "failed"]
         \/ \E m \in down : Transmit(e, m.port, Refusal) /\ UNCHANGED outcome
  BY DEF ClientFails, ClientRefuses, ClientStep, diskVars
<1>3. \A m \in down : m.port \in Ports
  BY <1>1 DEF NetTypes
<1>4. Refusal \in Datagrams /\ Refusal.op = "ERROR"
  BY NetworkAssumption DEF Refusal, NewPacket
<1>5. /\ up \subseteq up'
      /\ up' \subseteq [from : Endpoints, port : Ports, packet : Datagrams]
      /\ \A m \in up' : m.packet.op = "DATA" => m \in up
  BY <1>1, <1>2, <1>3, <1>4 DEF Transmit, NetTypes
<1>6. outcome' \in [Endpoints -> {"open", "complete", "failed"}]
      /\ \A c \in Endpoints : outcome'[c] = "complete" => outcome[c] = "complete"
  BY <1>1, <1>2 DEF NetTypes
<1>7. NetTypes'
  BY <1>1, <1>2, <1>5, <1>6 DEF NetTypes
<1>8. UpInv'
  BY <1>1, <1>2, <1>5 DEF UpInv, DataBlock, UploadSize
<1>9. ClientInv'
  BY <1>1, <1>2, <1>6 DEF ClientInv, Chosen, UploadSize
<1>10. \A m \in down : peer'[m.to] # m.port => Len(stream[m.port]) = 0
  BY <1>1, <1>2 DEF DownInv
<1>11. \A i \in Sessions : Busy(i) =>
         LET c == fsm[i].agreed_remote_endpoint
             b == fsm[i].last_saved_block
         IN  IF peer'[c] = port[i] THEN blocks'[c] <= b
             ELSE Len(stream[port[i]]) = 0 /\ b = 0
  BY <1>1, <1>2 DEF ServerInv, Serves, Busy
<1> QED BY <1>2, <1>5, <1>7, <1>8, <1>9, <1>10, <1>11, ClientKeeps

\* The ACK that a client takes is the first one, from a port where nothing is
\* written, or of the next block, from its peer.
LEMMA TakenAck ==
  ASSUME UploadInv, NEW e \in Endpoints, ClientTakesAck(e)
  PROVE  \E n \in Ports, b \in Nat :
           /\ peer' = [peer EXCEPT ![e] = n] /\ blocks' = [blocks EXCEPT ![e] = b]
           /\ \E m \in down : m.to = e /\ m.port = n
                              /\ m.packet.op = "ACK" /\ m.packet.word = b
           /\ \/ peer[e] = NoPort /\ b = 0 /\ blocks[e] = 0
              \/ peer[e] = n /\ b = blocks[e] + 1
           /\ \/ /\ b > 0 /\ IsLastBlock(e, b) /\ UNCHANGED up
                 /\ outcome' = [outcome EXCEPT ![e] = "complete"]
              \/ /\ b = 0 \/ ~IsLastBlock(e, b)
                 /\ b + 1 < WordSize /\ Transmit(e, n, DataBlock(e, b + 1))
                 /\ UNCHANGED outcome
<1>1. /\ peer \in [Endpoints -> Ports \cup {NoPort}] /\ blocks \in [Endpoints -> Nat]
      /\ down \subseteq [port : Ports, to : Endpoints, packet : Packet]
      /\ Chosen(e)
  BY DEF UploadInv, NetTypes, ClientInv
<1>2. PICK m \in down :
        /\ m.to = e /\ m.packet.op = "ACK"
        /\ \/ peer[e] = NoPort /\ m.packet.word = 0 /\ UNCHANGED blocks
           \/ /\ peer[e] = m.port /\ m.packet.word = blocks[e] + 1
              /\ blocks' = [blocks EXCEPT ![e] = blocks[e] + 1]
        /\ peer' = [peer EXCEPT ![e] = m.port]
  BY DEF ClientTakesAck
<1>3. m.port \in Ports /\ blocks[e] \in Nat
      /\ (peer[e] = NoPort => blocks[e] = 0)
  BY <1>1 DEF Chosen
<1>4. PICK b \in Nat :
        /\ b = m.packet.word /\ blocks' = [blocks EXCEPT ![e] = b]
        /\ \/ peer[e] = NoPort /\ b = 0 /\ blocks[e] = 0
           \/ peer[e] = m.port /\ b = blocks[e] + 1
  <2>1. CASE peer[e] = NoPort /\ m.packet.word = 0 /\ UNCHANGED blocks
    <3>1. blocks' = [blocks EXCEPT ![e] = 0]
      BY <1>1, <1>3, <2>1
    <3> QED BY <1>3, <2>1, <3>1
  <2>2. CASE /\ peer[e] = m.port /\ m.packet.word = blocks[e] + 1
             /\ blocks' = [blocks EXCEPT ![e] = blocks[e] + 1]
    <3>1. m.packet.word \in Nat
      BY <1>3, <2>2
    <3>2. blocks' = [blocks EXCEPT ![e] = m.packet.word]
      BY <2>2
    <3> QED BY <2>2, <3>1, <3>2
  <2> QED BY <1>2, <2>1, <2>2
<1>5. blocks'[e] = b /\ peer'[e] = m.port
  BY <1>1, <1>2, <1>4
<1>6. \/ /\ b > 0 /\ IsLastBlock(e, b) /\ UNCHANGED up
         /\ outcome' = [outcome EXCEPT ![e] = "complete"]
      \/ /\ ~(b > 0 /\ IsLastBlock(e, b))
         /\ b + 1 < WordSize /\ Transmit(e, m.port, DataBlock(e, b + 1))
         /\ UNCHANGED outcome
  BY <1>5 DEF ClientTakesAck
<1>7. b > 0 \/ b = 0
  BY <1>4
<1> QED BY <1>2, <1>3, <1>4, <1>6, <1>7

\* A client that has the ACK of its last block knows that all is written.
LEMMA LastAck ==
  ASSUME UploadInv, NEW e \in Endpoints, NEW m \in down, m.to = e,
         m.packet.op = "ACK", m.packet.word > 0, IsLastBlock(e, m.packet.word)
  PROVE  Len(stream[m.port]) = UploadSize(e)
<1> DEFINE w == m.packet.word
           x == (w - 1) * DefaultBlockSize
           size == UploadSize(e)
<1>1. /\ Len(stream[m.port]) \in Nat /\ Len(stream[m.port]) <= size
      /\ Least(w * DefaultBlockSize, size) <= Len(stream[m.port])
  BY DEF UploadInv, DownInv, Has
<1>2. w \in Nat /\ size \in Nat
  BY WantFacts DEF UploadInv, NetTypes, Packet
<1>3. x + DefaultBlockSize > size /\ x + DefaultBlockSize = w * DefaultBlockSize
      /\ w * DefaultBlockSize \in Nat
  BY <1>2, ProtocolAssumption DEF IsLastBlock, Before
<1> HIDE DEF w, x, size
<1>4. Least(w * DefaultBlockSize, size) = size
  BY <1>2, <1>3 DEF Least
<1> QED BY <1>1, <1>2, <1>4 DEF size

\* A client that goes on.
LEMMA ClientTakesInv ==
  ASSUME UploadInv, IInv', NEW e \in Endpoints, ClientTakesAck(e)
  PROVE  UploadInv'
<1>1. NetTypes /\ UpInv /\ ClientInv /\ DownInv /\ ServerInv
  BY DEF UploadInv
<1>2. PICK n \in Ports, b \in Nat :
        /\ peer' = [peer EXCEPT ![e] = n] /\ blocks' = [blocks EXCEPT ![e] = b]
        /\ \E m \in down : m.to = e /\ m.port = n
                           /\ m.packet.op = "ACK" /\ m.packet.word = b
        /\ \/ peer[e] = NoPort /\ b = 0 /\ blocks[e] = 0
           \/ peer[e] = n /\ b = blocks[e] + 1
        /\ \/ /\ b > 0 /\ IsLastBlock(e, b) /\ UNCHANGED up
              /\ outcome' = [outcome EXCEPT ![e] = "complete"]
           \/ /\ b = 0 \/ ~IsLastBlock(e, b)
              /\ b + 1 < WordSize /\ Transmit(e, n, DataBlock(e, b + 1))
              /\ UNCHANGED outcome
  BY TakenAck
<1>3. /\ ClientStep /\ UNCHANGED <<want, down, stream, port, ports>>
  BY DEF ClientTakesAck, ClientStep, diskVars
<1>4. PICK m \in down : m.to = e /\ m.port = n
                        /\ m.packet.op = "ACK" /\ m.packet.word = b
  BY <1>2
<1>5. /\ want[e] \in Requests /\ UploadSize(e) \in Nat /\ NoPort \notin Ports
      /\ b - 1 \in Int /\ b + 1 - 1 = b /\ WordSize \in Nat
      /\ DefaultBlockSize \in Nat \ {0} /\ b * DefaultBlockSize \in Nat
  BY <1>1, WantFacts, PortAssumption, ProtocolAssumption DEF Ports
<1>6. /\ peer'[e] = n /\ blocks'[e] = b
      /\ \A c \in Endpoints : c # e => peer'[c] = peer[c] /\ blocks'[c] = blocks[c]
      /\ blocks[e] \in Nat /\ blocks[e] <= b
  BY <1>1, <1>2 DEF NetTypes
<1>7. ASSUME b = 0 \/ ~IsLastBlock(e, b), b + 1 < WordSize
      PROVE  /\ Before(b + 1) <= UploadSize(e)
             /\ DataBlock(e, b + 1) \in Datagrams
             /\ b + 1 \in 1 .. WordSize - 1
  <2>1. b + 1 \in 1 .. WordSize - 1
    BY <1>5, <1>7
  <2>2. Before(b + 1) = b * DefaultBlockSize
    BY <1>5 DEF Before
  <2>3. b * DefaultBlockSize <= UploadSize(e)
    <3>1. CASE b = 0
      <4>1. b * DefaultBlockSize = 0
        BY <1>5, <3>1
      <4> QED BY <1>5, <4>1
    <3>2. CASE ~IsLastBlock(e, b)
      <4>1. (b - 1) * DefaultBlockSize + DefaultBlockSize = b * DefaultBlockSize
        BY <1>5
      <4>2. ~(b * DefaultBlockSize > UploadSize(e))
        BY <3>2, <4>1 DEF IsLastBlock, Before
      <4> QED BY <1>5, <4>2
    <3> QED BY <1>7, <3>1, <3>2
  <2>4. Block(want[e].tsize, b + 1) \in Datagrams
    BY <1>5, <2>1, <2>2, <2>3, NetworkAssumption DEF UploadSize
  <2> QED BY <2>1, <2>2, <2>3, <2>4 DEF DataBlock, UploadSize
<1>8. \/ up' = up
      \/ /\ up' = up \cup {[from |-> e, port |-> n, packet |-> DataBlock(e, b + 1)]}
         /\ b = 0 \/ ~IsLastBlock(e, b)
         /\ b + 1 < WordSize
  BY <1>2 DEF Transmit
<1>9. /\ up \subseteq up'
      /\ up' \subseteq [from : Endpoints, port : Ports, packet : Datagrams]
  BY <1>1, <1>7, <1>8 DEF NetTypes
<1>10. NetTypes'
  BY <1>1, <1>2, <1>3, <1>9 DEF NetTypes
<1>11. UpInv'
  <2>1. ASSUME NEW a \in up', a.packet.op = "DATA"
        PROVE  /\ peer'[a.from] = a.port
               /\ \E k \in 1 .. WordSize - 1 :
                    /\ a.packet = DataBlock(a.from, k)
                    /\ k <= blocks'[a.from] + 1 /\ Before(k) <= UploadSize(a.from)
    <3>1. CASE a \in up
      <4>1. /\ peer[a.from] = a.port /\ a.from \in Endpoints /\ a.port \in Ports
            /\ blocks[a.from] \in Nat /\ blocks'[a.from] \in Nat
        <5>1. a.from \in Endpoints /\ a.port \in Ports
          BY <1>1, <3>1 DEF NetTypes
        <5>2. blocks[a.from] \in Nat /\ blocks'[a.from] \in Nat
          BY <1>1, <1>2, <5>1 DEF NetTypes
        <5>3. peer[a.from] = a.port
          BY <1>1, <2>1, <3>1 DEF UpInv
        <5> QED BY <5>1, <5>2, <5>3
      <4>2. peer'[a.from] = a.port /\ blocks[a.from] <= blocks'[a.from]
        <5>1. CASE a.from = e
          <6>1. peer[e] = a.port /\ peer[e] # NoPort
            BY <1>5, <4>1, <5>1
          <6>2. peer[e] = n
            BY <1>2, <6>1
          <6> QED BY <1>2, <1>5, <1>6, <4>1, <5>1, <6>1, <6>2
        <5>2. CASE a.from # e
          BY <1>2, <1>6, <4>1, <5>2
        <5> QED BY <5>1, <5>2
      <4>3. PICK k \in 1 .. WordSize - 1 :
              /\ a.packet = DataBlock(a.from, k)
              /\ k <= blocks[a.from] + 1 /\ Before(k) <= UploadSize(a.from)
        BY <1>1, <2>1, <3>1 DEF UpInv
      <4>4. k <= blocks'[a.from] + 1
        BY <1>5, <4>1, <4>2, <4>3
      <4> QED BY <4>2, <4>3, <4>4
    <3>2. CASE a \notin up
      <4>1. /\ a = [from |-> e, port |-> n, packet |-> DataBlock(e, b + 1)]
            /\ b = 0 \/ ~IsLastBlock(e, b)
            /\ b + 1 < WordSize
        BY <1>8, <2>1, <3>2
      <4>2. /\ Before(b + 1) <= UploadSize(e) /\ b + 1 \in 1 .. WordSize - 1
            /\ b + 1 <= blocks'[e] + 1
        BY <1>6, <1>7, <4>1
      <4> QED BY <1>6, <4>1, <4>2
    <3> QED BY <3>1, <3>2
  <2> QED BY <1>3, <2>1 DEF UpInv, DataBlock, UploadSize
<1>12. ClientInv'
  <2>1. ASSUME NEW c \in Endpoints
        PROVE  IF peer'[c] = NoPort THEN blocks'[c] = 0 /\ outcome'[c] # "complete"
               ELSE /\ \E a \in down : a.to = c /\ a.port = peer'[c]
                    /\ outcome'[c] = "complete" => Len(stream[peer'[c]]) = UploadSize(c)
    <3>1. CASE c = e
      <4>1. outcome[e] = "open"
        BY DEF ClientTakesAck
      <4>2. outcome'[e] = "complete" => b > 0 /\ IsLastBlock(e, b)
        BY <1>2, <4>1
      <4>3. outcome'[e] = "complete" => Len(stream[n]) = UploadSize(e)
        BY <1>4, <4>2, LastAck
      <4> QED BY <1>4, <1>5, <1>6, <3>1, <4>3
    <3>2. CASE c # e
      <4>1. outcome'[c] = outcome[c] /\ peer'[c] = peer[c] /\ blocks'[c] = blocks[c]
        BY <1>1, <1>2, <1>6, <3>2 DEF NetTypes
      <4>2. Chosen(c)
        BY <1>1 DEF ClientInv
      <4> QED BY <4>1, <4>2 DEF Chosen
    <3> QED BY <3>1, <3>2
  <2> QED BY <1>3, <2>1 DEF ClientInv, Chosen, UploadSize
<1>13. \A a \in down : peer'[a.to] # a.port => Len(stream[a.port]) = 0
  <2> SUFFICES ASSUME NEW a \in down, peer'[a.to] # a.port
               PROVE  Len(stream[a.port]) = 0
    OBVIOUS
  <2>1. a.to \in Endpoints /\ a.port \in Ports
    BY <1>1 DEF NetTypes
  <2>2. peer[a.to] # a.port
    BY <1>2, <1>5, <1>6, <2>1
  <2> QED BY <1>1, <2>2 DEF DownInv
<1>14. ASSUME NEW i \in Sessions, Busy(i)
       PROVE  LET c == fsm[i].agreed_remote_endpoint
                  k == fsm[i].last_saved_block
              IN  IF peer'[c] = port[i] THEN blocks'[c] <= k
                  ELSE Len(stream[port[i]]) = 0 /\ k = 0
  <2> DEFINE c == fsm[i].agreed_remote_endpoint
             k == fsm[i].last_saved_block
  <2>1. /\ c \in Endpoints /\ port[i] \in 1 .. ports
        /\ \A a \in down : a.port = port[i] =>
             a.to = c /\ (a.packet.op = "ACK" => a.packet.word <= k)
        /\ IF peer[c] = port[i] THEN blocks[c] <= k
           ELSE Len(stream[port[i]]) = 0 /\ k = 0
    BY <1>1, <1>14 DEF ServerInv, Serves, Busy
  <2>2. CASE c = e /\ n = port[i]
    <3>1. b <= k
      BY <1>4, <2>1, <2>2
    <3> QED BY <1>6, <2>2, <3>1
  <2>3. CASE c = e /\ n # port[i]
    <3>1. port[i] # NoPort
      BY <1>1, PortAssumption DEF NetTypes
    <3>2. peer[c] # port[i]
      BY <1>2, <2>3, <3>1
    <3> QED BY <1>6, <2>1, <2>3, <3>2
  <2>4. CASE c # e
    BY <1>6, <2>1, <2>4
  <2> QED BY <2>2, <2>3, <2>4
<1> QED BY <1>3, <1>9, <1>10, <1>11, <1>12, <1>13, <1>14, ClientKeeps

-----------------------------------------------------------------------------
(* The invariant of uploads.                                               *)

\* A step of uploads, or none, preserves the invariant.
LEMMA UploadStep == UploadInv /\ [UploadNext]_uploadVars => UploadInv'
<1> SUFFICES ASSUME UploadInv, [UploadNext]_uploadVars PROVE UploadInv'
  OBVIOUS
<1>1. IInv'
  <2>1. [Next]_vars
    BY ServerIsSession DEF UploadInv, uploadVars
  <2> QED BY <2>1, NextInv DEF UploadInv
<1>2. ASSUME NEW i \in Sessions,
             RequestIsDelivered(i) \/ DatagramIsDelivered(i) \/ ServerStep(i)
      PROVE  UploadInv'
  BY <1>1, <1>2, ArrivalInv
<1>3. ASSUME NEW i \in Sessions, ServerSends(i) PROVE UploadInv'
  BY <1>1, <1>3, ServerSendsInv
<1>4. ASSUME NEW i \in Sessions, ServerHandles(i) PROVE UploadInv'
  <2>1. UNCHANGED netVars
    BY <1>4 DEF ServerHandles
  <2>2. CASE ServeWriteRequest(i) /\ Opens(i)
    BY <1>1, <2>1, <2>2, OpenInv
  <2>3. CASE SaveData(i) /\ Writes(i)
    BY <1>1, <2>1, <2>3, WriteInv
  <2>4. CASE /\ ErrorSent(i) \/ GiveUpData(i) \/ GiveUpAck(i) \/ FinishRead(i)
             /\ Closes(i)
    BY <1>1, <2>1, <2>4, CloseInv
  <2>5. CASE /\ AcceptingFails(i) \/ IgnoreRequest(i) \/ TimerFires(i)
             /\ Unwritten
    BY <1>1, <2>1, <2>5, IdleInv DEF Unwritten
  <2>6. CASE /\ \/ DataSent(i) \/ AckSent(i) \/ ResendData(i) \/ ResendAck(i)
                \/ KeepWaitingForAck(i) \/ IgnoreData(i)
                \/ RefuseAck(i) \/ RefuseData(i)
             /\ Unwritten
    BY <1>1, <2>1, <2>6, ProceedInv DEF Unwritten
  <2> QED BY <1>4, <2>2, <2>3, <2>4, <2>5, <2>6 DEF ServerHandles
<1>5. ASSUME NEW e \in Endpoints, ClientTakesAck(e) PROVE UploadInv'
  BY <1>1, <1>5, ClientTakesInv
<1>6. ASSUME NEW e \in Endpoints, ClientFails(e) \/ ClientRefuses(e) PROVE UploadInv'
  BY <1>1, <1>6, ClientEndsInv
<1>7. CASE Stop /\ UNCHANGED <<netVars, diskVars, port, ports>>
  BY <1>1, <1>7, StopKeeps
<1>8. CASE UNCHANGED uploadVars
  BY <1>1, <1>8, Unmoved
<1>9. CASE Halted /\ UNCHANGED <<netVars, diskVars, port, ports>>
  BY <1>8, <1>9 DEF Halted, uploadVars
<1> QED BY <1>2, <1>3, <1>4, <1>5, <1>6, <1>7, <1>8, <1>9 DEF UploadNext

\* In the beginning nothing has been sent or written.
LEMMA UploadStart == UploadInit => UploadInv
<1> SUFFICES ASSUME UploadInit PROVE UploadInv
  OBVIOUS
<1>1. IInv
  BY InitInv DEF UploadInit
<1>2. NetTypes
  BY PortAssumption DEF UploadInit, NetTypes
<1>3. DiskTypes
  <2>1. <<>> \in Seq(Nat)
    OBVIOUS
  <2> QED BY <2>1 DEF UploadInit, DiskTypes
<1>4. \A i \in Sessions : io[i].ready = <<>> /\ st[i] = "Accepting"
  BY DEF UploadInit, Init
<1>5. ServerInv /\ PortsApart
  BY <1>4 DEF ServerInv, PortsApart, QueueOK, Serves, Busy
<1>6. DownInv /\ UpInv /\ ClientInv
  BY DEF UploadInit, DownInv, UpInv, ClientInv, Chosen
<1>7. UnusedInv /\ DiskInv
  BY DEF UploadInit, UnusedInv, DiskInv
<1>8. BoundInv
  <2>1. \A i \in Sessions : ~Taken(io[i])
    BY <1>4 DEF Taken
  <2>2. TakenBy = {}
    BY <2>1 DEF TakenBy
  <2>3. Cardinality(TakenBy) = 0
    BY <2>2, FS_EmptySet
  <2> QED BY <2>3, PortAssumption DEF BoundInv, UploadInit
<1> QED BY <1>1, <1>2, <1>3, <1>5, <1>6, <1>7, <1>8 DEF UploadInv

\* The invariant holds throughout.
THEOREM UploadInvariance == UploadSpec => []UploadInv
BY UploadStart, UploadStep, PTL DEF UploadSpec

-----------------------------------------------------------------------------
(* What follows from it.                                                   *)

\* The sessions, the network, the clients and the disk hold values of their
\* types.
THEOREM UploadTypesCorrect == UploadSpec => []UploadTypeOK
<1>1. UploadInv => UploadTypeOK
  BY DEF UploadInv, IInv, NetTypes, DiskTypes, UploadTypeOK
<1> QED BY <1>1, UploadInvariance, PTL

\* Nothing is written at a port that answers a client and is not its peer: in
\* particular nothing was written at its peer before it chose it.
LEMMA ChosenIsEmpty ==
  ASSUME UploadInv, NEW e \in Endpoints, NEW m \in down, m.to = e, peer[e] # m.port
  PROVE  stream[m.port] = <<>>
<1>1. stream[m.port] = T!FirstUnits(Len(stream[m.port])) /\ Len(stream[m.port]) = 0
  BY DEF UploadInv, DownInv, Has
<1> QED BY <1>1 DEF T!FirstUnits

\* What a session writes its peer has sent, and no other client has.
LEMMA WritesReceive ==
  ASSUME UploadInv, NEW i \in Sessions, SaveData(i), Writes(i), UNCHANGED netVars
  PROVE  T!Next
<1>0. PICK e \in Endpoints : e = fsm[i].agreed_remote_endpoint
  BY NextData
<1> DEFINE n == port[i]
           size == [c \in Endpoints |-> UploadSize(c)]
           got == [c \in Endpoints |-> IF peer[c] = NoPort THEN <<>> ELSE stream[peer[c]]]
<1>1. /\ Busy(i) /\ e \in Endpoints /\ peer[e] = n /\ NetTypes /\ DiskTypes
      /\ UploadSize(e) \in Nat /\ NoPort \notin Ports
      /\ n \in 1 .. ports /\ n \in Ports
  <2>1. Busy(i) /\ Serves(st[i], fsm[i], n) /\ e \in Endpoints /\ peer[e] = n
    BY <1>0, NextData
  <2>2. NetTypes /\ DiskTypes
    BY DEF UploadInv
  <2>3. n \in 1 .. ports
    BY <2>1 DEF Serves, Busy
  <2>4. n \in Ports
    BY <2>2, <2>3, PortAssumption DEF NetTypes, Ports
  <2> QED BY <2>1, <2>2, <2>3, <2>4, WantFacts, PortAssumption DEF Ports
<1>2. PICK l \in Nat : /\ Len(stream[n]) <= l /\ l <= UploadSize(e)
                       /\ stream' = [stream EXCEPT ![n] = T!FirstUnits(l)]
  BY <1>0, WrittenFacts
<1>3. size' = size /\ outcome' = outcome
  BY DEF netVars, UploadSize
<1>4. got[e] = stream[n] /\ Len(got[e]) \in Nat
  BY <1>1 DEF DiskTypes
<1>5. l \in Len(got[e]) .. size[e]
  BY <1>1, <1>2, <1>4
<1>6. got' = [got EXCEPT ![e] = T!FirstUnits(l)]
  <2>1. peer' = peer
    BY DEF netVars
  <2>2. ASSUME NEW c \in Endpoints
        PROVE  got'[c] = IF c = e THEN T!FirstUnits(l) ELSE got[c]
    <3>1. CASE c = e
      <4>1. stream'[n] = T!FirstUnits(l)
        BY <1>1, <1>2 DEF DiskTypes
      <4> QED BY <1>1, <2>1, <3>1, <4>1
    <3>2. CASE c # e
      <4>1. peer[c] # n
        BY <1>0, <1>1, <3>2, OnlyPeer
      <4>2. peer[c] # NoPort => stream'[peer[c]] = stream[peer[c]]
        BY <1>1, <1>2, <4>1 DEF NetTypes, DiskTypes
      <4> QED BY <2>1, <3>2, <4>2
    <3> QED BY <3>1, <3>2
  <2> QED BY <2>2
<1> HIDE DEF size, got
<1>7. T!Receive(e)
  BY <1>3, <1>5, <1>6 DEF T!Receive, size, got
<1> QED BY <1>1, <1>7 DEF T!Next

\* The ACK that a client takes ends the transfer or leaves it as it is.
LEMMA TakesAckCompletes ==
  ASSUME UploadInv, NEW e \in Endpoints, ClientTakesAck(e)
  PROVE  [T!Next]_T!vars
<1> DEFINE size == [c \in Endpoints |-> UploadSize(c)]
           got == [c \in Endpoints |-> IF peer[c] = NoPort THEN <<>> ELSE stream[peer[c]]]
<1>1. PICK n \in Ports, b \in Nat :
        /\ peer' = [peer EXCEPT ![e] = n] /\ blocks' = [blocks EXCEPT ![e] = b]
        /\ \E m \in down : m.to = e /\ m.port = n
                           /\ m.packet.op = "ACK" /\ m.packet.word = b
        /\ \/ peer[e] = NoPort /\ b = 0 /\ blocks[e] = 0
           \/ peer[e] = n /\ b = blocks[e] + 1
        /\ \/ /\ b > 0 /\ IsLastBlock(e, b) /\ UNCHANGED up
              /\ outcome' = [outcome EXCEPT ![e] = "complete"]
           \/ /\ b = 0 \/ ~IsLastBlock(e, b)
              /\ b + 1 < WordSize /\ Transmit(e, n, DataBlock(e, b + 1))
              /\ UNCHANGED outcome
  BY TakenAck
<1>2. PICK m \in down : m.to = e /\ m.port = n
                        /\ m.packet.op = "ACK" /\ m.packet.word = b
  BY <1>1
<1>3. UNCHANGED <<want, stream>> /\ outcome[e] = "open"
  BY DEF ClientTakesAck, ClientStep, diskVars
<1>4. NetTypes /\ DiskTypes /\ NoPort \notin Ports
  BY PortAssumption DEF UploadInv, Ports
<1>5. size' = size
  BY <1>3 DEF UploadSize
<1>6. got' = got
  <2>1. ASSUME NEW c \in Endpoints PROVE got'[c] = got[c]
    <3>1. CASE c = e /\ peer[e] = NoPort
      <4>1. stream[n] = <<>>
        BY <1>2, <1>4, <3>1, ChosenIsEmpty
      <4>2. peer'[e] = n /\ n # NoPort
        BY <1>1, <1>4 DEF NetTypes
      <4> QED BY <1>3, <3>1, <4>1, <4>2
    <3>2. CASE c # e \/ peer[e] = n
      <4>1. peer'[c] = peer[c]
        BY <1>1, <1>4, <3>2 DEF NetTypes
      <4> QED BY <1>3, <4>1
    <3> QED BY <1>1, <3>1, <3>2
  <2> QED BY <2>1
<1>7. CASE UNCHANGED outcome
  <2> HIDE DEF size, got
  <2> QED BY <1>5, <1>6, <1>7 DEF T!vars, size, got
<1>8. CASE /\ b > 0 /\ IsLastBlock(e, b)
           /\ outcome' = [outcome EXCEPT ![e] = "complete"]
  <2>1. Len(stream[n]) = UploadSize(e)
    BY <1>2, <1>8, LastAck
  <2>2. stream[n] = T!FirstUnits(Len(stream[n]))
    BY <1>2 DEF UploadInv, DownInv, Has
  <2>3. peer[e] = n
    BY <1>1, <1>8
  <2>4. got[e] = T!FirstUnits(size[e])
    BY <1>4, <2>1, <2>2, <2>3
  <2>5. got' = [got EXCEPT ![e] = T!FirstUnits(size[e])]
    BY <1>6, <2>4
  <2> HIDE DEF size, got
  <2>6. T!Complete(e)
    BY <1>3, <1>5, <1>8, <2>5 DEF T!Complete, size, got
  <2> QED BY <2>6 DEF T!Next
<1> QED BY <1>1, <1>7, <1>8

\* A step of uploads is one of the transfer, or none.
LEMMA TransferStep == UploadInv /\ [UploadNext]_uploadVars => [T!Next]_T!vars
<1> SUFFICES ASSUME UploadInv, [UploadNext]_uploadVars PROVE [T!Next]_T!vars
  OBVIOUS
<1>1. ASSUME UNCHANGED <<want, peer, stream, outcome>> PROVE UNCHANGED T!vars
  BY <1>1 DEF T!vars, UploadSize
<1>2. ASSUME NEW i \in Sessions,
             \/ RequestIsDelivered(i) \/ DatagramIsDelivered(i)
             \/ ServerSends(i) \/ ServerStep(i)
      PROVE  UNCHANGED T!vars
  BY <1>1, <1>2 DEF RequestIsDelivered, DatagramIsDelivered, ServerSends,
     ServerStep, netVars, diskVars
<1>3. ASSUME NEW i \in Sessions, ServerHandles(i) PROVE [T!Next]_T!vars
  <2>1. UNCHANGED netVars
    BY <1>3 DEF ServerHandles
  <2>2. CASE SaveData(i) /\ Writes(i)
    BY <2>1, <2>2, WritesReceive
  <2>3. CASE Opens(i) \/ Closes(i) \/ Unwritten
    <3>1. stream' = stream
      BY <2>3 DEF Opens, Closes, Unwritten, diskVars
    <3> QED BY <1>1, <2>1, <3>1 DEF netVars
  <2> QED BY <1>3, <2>2, <2>3 DEF ServerHandles
<1>4. ASSUME NEW e \in Endpoints, ClientTakesAck(e) PROVE [T!Next]_T!vars
  BY <1>4, TakesAckCompletes
<1>5. ASSUME NEW e \in Endpoints, ClientFails(e) PROVE T!Next
  <2>1. /\ outcome[e] = "open" /\ UNCHANGED <<want, peer, stream>>
        /\ outcome' = [outcome EXCEPT ![e] = "failed"]
    BY <1>5 DEF ClientFails, ClientStep, diskVars
  <2>2. T!Fail(e)
    BY <2>1 DEF T!Fail, UploadSize
  <2> QED BY <2>2 DEF T!Next
<1>6. ASSUME NEW e \in Endpoints, ClientRefuses(e) PROVE UNCHANGED T!vars
  BY <1>1, <1>6 DEF ClientRefuses, ClientStep, diskVars
<1>7. ASSUME (Stop \/ Halted) /\ UNCHANGED <<netVars, diskVars, port, ports>>
      PROVE  UNCHANGED T!vars
  BY <1>1, <1>7 DEF netVars, diskVars
<1>8. ASSUME UNCHANGED uploadVars PROVE UNCHANGED T!vars
  BY <1>1, <1>8 DEF uploadVars, netVars, diskVars
<1> QED BY <1>2, <1>3, <1>4, <1>5, <1>6, <1>7, <1>8 DEF UploadNext

\* An upload implements the transfer: whatever the network loses, repeats and
\* reorders, what a session writes is the beginning of the client's file, and
\* all of it when the client takes the upload for complete.
THEOREM UploadsAreTransfers == UploadSpec => UploadIsTransfer
<1>1. UploadInit => T!Init
  <2> SUFFICES ASSUME UploadInit PROVE T!Init
    OBVIOUS
  <2>1. NetTypes
    BY UploadStart DEF UploadInv
  <2>2. [e \in Endpoints |-> UploadSize(e)] \in [Endpoints -> Nat]
    BY <2>1, WantFacts
  <2> QED BY <2>2 DEF UploadInit, T!Init
<1> QED BY <1>1, TransferStep, UploadInvariance, PTL
        DEF UploadSpec, UploadIsTransfer, T!Spec

\* The file of a completed upload that was closed without a failure, and that no
\* other upload disturbed, is the client's.
THEOREM UploadsAreSaved == UploadSpec => []UndisturbedUploadIsSaved
<1>1. ASSUME UploadInv, NEW e \in Endpoints, outcome[e] = "complete",
             closing[peer[e]] = "saved", peer[e] \notin disturbed
      PROVE  disk[want[e].path] = T!FirstUnits(UploadSize(e))
  <2>1. PICK m \in down : m.to = e /\ m.port = peer[e]
    BY <1>1 DEF UploadInv, ClientInv, Chosen
  <2>2. Len(stream[peer[e]]) = UploadSize(e)
    BY <1>1 DEF UploadInv, ClientInv, Chosen
  <2>3. peer[e] \in 1 .. ports /\ target[peer[e]] = want[e].path
    BY <1>1, <2>1 DEF UploadInv, DownInv
  <2>4. synced[peer[e]] = UploadSize(e)
    BY <1>1, <2>2, <2>3 DEF UploadInv, DiskInv
  <2> QED BY <1>1, <2>3, <2>4 DEF UploadInv, DiskInv
<1>2. UploadInv => UndisturbedUploadIsSaved
  BY <1>1 DEF UndisturbedUploadIsSaved
<1> QED BY <1>2, UploadInvariance, PTL


-----------------------------------------------------------------------------
(* What follows from the two refinements.                                  *)

\* The upload is made of sessions: what is proved of Session holds in it.
THEOREM UploadsRunSessions == UploadSpec => Spec
<1>1. UploadInit => Init
  BY DEF UploadInit
<1>2. UploadInv /\ [UploadNext]_uploadVars => [Next]_vars
  <2>1. UploadInv /\ UploadNext => [Next]_vars
    BY ServerIsSession DEF UploadInv
  <2>2. UNCHANGED uploadVars => UNCHANGED vars
    BY DEF uploadVars
  <2> QED BY <2>1, <2>2
<1> QED BY <1>1, <1>2, UploadInvariance, PTL DEF UploadSpec, Spec

\* What the session that e has chosen has given to its fstream.
Stored(e) == IF peer[e] = NoPort THEN <<>> ELSE stream[peer[e]]

TP == INSTANCE TransferProofs WITH Clients <- Endpoints,
        size <- [e \in Endpoints |-> UploadSize(e)],
        got <- [e \in Endpoints |-> IF peer[e] = NoPort THEN <<>> ELSE stream[peer[e]]]

\* At all times the session that a client has chosen has written the beginning
\* of the client's file, and all of it when the client takes the upload for
\* complete; what is written only grows, and what the client has concluded is
\* final.
THEOREM UploadsKeepThePromise ==
  UploadSpec =>
    /\ [](\A e \in Endpoints :
            /\ \E n \in 0 .. UploadSize(e) : Stored(e) = T!FirstUnits(n)
            /\ outcome[e] = "complete" => Stored(e) = T!FirstUnits(UploadSize(e)))
    /\ [][\A e \in Endpoints :
            /\ Len(Stored(e)) <= Len(Stored(e)')
            /\ outcome[e] # "open" => outcome'[e] = outcome[e]]_uploadVars
<1> DEFINE Kept == \A e \in Endpoints :
             /\ \E n \in 0 .. UploadSize(e) : Stored(e) = T!FirstUnits(n)
             /\ outcome[e] = "complete" => Stored(e) = T!FirstUnits(UploadSize(e))
           Growing == \A e \in Endpoints :
             /\ Len(Stored(e)) <= Len(Stored(e)')
             /\ outcome[e] # "open" => outcome'[e] = outcome[e]
<1>1. T!Init => TP!Init
  BY DEF T!Init, TP!Init
<1>2. [T!Next]_T!vars => [TP!Next]_TP!vars
  BY DEF T!Next, T!Receive, T!Complete, T!Fail, T!FirstUnits, T!vars,
         TP!Next, TP!Receive, TP!Complete, TP!Fail, TP!FirstUnits, TP!vars
<1>3. TP!Promised => Kept
  BY DEF TP!Promised, TP!FirstUnits, T!FirstUnits, Stored
<1>4. UploadInv /\ [TP!Lasting]_TP!vars => [Growing]_uploadVars
  <2>1. TP!Lasting => Growing
    BY DEF TP!Lasting, Stored
  <2>2. ASSUME UploadInv, UNCHANGED TP!vars PROVE Growing
    <3> SUFFICES ASSUME NEW e \in Endpoints
                 PROVE  /\ Len(Stored(e)) <= Len(Stored(e)')
                        /\ outcome'[e] = outcome[e]
      OBVIOUS
    <3>1. Stored(e) \in Seq(Nat)
      BY <2>2 DEF UploadInv, NetTypes, DiskTypes, Stored
    <3>2. Stored(e)' = Stored(e) /\ outcome'[e] = outcome[e]
      BY <2>2 DEF TP!vars, Stored
    <3> QED BY <3>1, <3>2
  <2> QED BY <2>1, <2>2
<1> QED BY <1>1, <1>2, <1>3, <1>4, UploadsAreTransfers, UploadInvariance,
           TP!PromiseIsKept, TP!NothingIsTakenBack, PTL
        DEF UploadIsTransfer, T!Spec, TP!Spec
=============================================================================
