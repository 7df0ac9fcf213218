--------------------------- MODULE DownloadProofs ---------------------------
(* Downloads keep what Transfer promises, for every value of the constants: *)
(* any number of sessions, clients and files, any block sizes.              *)
EXTENDS Download, SessionStepProofs

-----------------------------------------------------------------------------
(* The inductive invariant.  What is queued for a session was sent; a busy  *)
(* session serves what its peer asked for; every DATA in the network is a   *)
(* block of the file of its receiver; an ACK is of a block its sender has;  *)
(* and what a client has is the blocks it has taken.                        *)

\* A datagram that a handler brings, where u is what clients have sent.
Delivered(h, u) ==
  h.ok => /\ h.kind = "accept" => h.msg = want[h.from]
          /\ h.kind = "receive" => [from |-> h.from, packet |-> h.msg] \in u
QueueOK(o, u) == \A k \in 1 .. Len(o.ready) : Delivered(o.ready[k], u)

\* A session in state s, with data d, serves its peer's request.
Serves(s, d) ==
  LET e == d.agreed_remote_endpoint
  IN  s # "Accepting" =>
        /\ e \in Endpoints
        /\ d.file = want[e].path /\ d.file_stream = "read"
        /\ d.agreed_block_size = BlockSize(e)
        /\ d.send_packet \in Packet
        /\ s = "SendingError" => d.send_packet.op = "ERROR"

\* Packet p is a block of the file that e asked for.
IsBlock(e, p) ==
  \E b \in 1 .. WordSize :
    /\ p.word = b % WordSize
    /\ p.pos = (b - 1) * BlockSize(e)
    /\ p.pos + p.len <= FileSize(e)
    /\ \/ p.len = BlockSize(e)
       \/ p.len < BlockSize(e) /\ p.pos + p.len = FileSize(e)

ServerInv == \A i \in Sessions : QueueOK(io[i], up) /\ Serves(st[i], fsm[i])
DownInv == \A m \in down : m.packet.op = "DATA" => IsBlock(m.to, m.packet)
UpInv == \A m \in up : m.packet.op = "ACK" => m.packet.word <= blocks[m.from]
HasBlocks(e) ==
  LET n == Len(content[e])
  IN  /\ content[e] = T!FirstUnits(n) /\ n <= FileSize(e)
      /\ outcome[e] # "complete" => n = blocks[e] * BlockSize(e)
ClientInv == \A e \in Endpoints : HasBlocks(e)
ClientTypes ==
  /\ want \in [Endpoints -> Requests]
  /\ down \subseteq [to : Endpoints, packet : Packet]
  /\ up \subseteq [from : Endpoints, packet : Datagrams]
  /\ blocks \in [Endpoints -> Nat]
  /\ content \in [Endpoints -> Seq(Nat)]
  /\ outcome \in [Endpoints -> {"open", "complete", "failed"}]
DInv == IInv /\ ClientTypes /\ ServerInv /\ DownInv /\ UpInv /\ ClientInv

\* What a client asks for.
LEMMA WantFacts ==
  ASSUME ClientTypes, NEW e \in Endpoints
  PROVE  /\ want[e] \in Requests /\ BlockSize(e) \in Nat \ {0} /\ FileSize(e) \in Nat
         /\ want[e].op = "RRQ" /\ want[e].mode
         /\ want[e].path \in Files \ Unopenable /\ want[e].path # NoFile
<1>1. want[e] \in Requests
  BY DEF ClientTypes
<1>2. BlockSize(e) \in Nat \ {0}
  BY <1>1, RequestFields, ProtocolAssumption DEF BlockSize
<1>3. want[e].op = "RRQ" /\ want[e].mode /\ want[e].path \in Files \ Unopenable
  BY <1>1, RequestAssumption
<1> QED BY <1>1, <1>2, <1>3, FileAssumption DEF FileSize

\* The sessions and the network make a step of Session.
LEMMA ServerIsSession ==
  ASSUME ClientTypes, DownloadNext
  PROVE  [Next]_vars
<1>1. ASSUME NEW i \in Sessions, RequestIsDelivered(i) PROVE Next
  <2>1. RequestArrives(i)
    BY <1>1, WantFacts DEF RequestIsDelivered, RequestArrives
  <2> QED BY <2>1 DEF Next, Arrival
<1>2. ASSUME NEW i \in Sessions, DatagramIsDelivered(i) PROVE Next
  <2>1. DatagramArrives(i)
    BY <1>2 DEF DatagramIsDelivered, DatagramArrives, ClientTypes
  <2> QED BY <2>1 DEF Next, Arrival
<1>3. ASSUME NEW i \in Sessions, ServerSends(i) \/ ServerStep(i) PROVE Next
  BY <1>3 DEF ServerSends, ServerStep, Next, Arrival
<1>4. ASSUME NEW e \in Endpoints,
             \/ ClientAcksOptions(e) \/ ClientTakesBlock(e)
             \/ ClientFails(e) \/ ClientRefuses(e)
      PROVE  UNCHANGED vars
  BY <1>4 DEF ClientAcksOptions, ClientTakesBlock, ClientFails, ClientRefuses
<1> QED BY <1>1, <1>2, <1>3, <1>4 DEF DownloadNext, Next

-----------------------------------------------------------------------------
(* The queues: nothing is queued that was not sent.                        *)

\* A queue of expiries brings no datagram.
LEMMA ExpiriesDelivered ==
  ASSUME NEW o, NEW u, Expiries(o.ready)
  PROVE  QueueOK(o, u)
BY DEF QueueOK, Delivered, Expiries

\* Taking the front of a queue adds nothing to it.
LEMMA DequeueDelivered ==
  ASSUME NEW o \in Io, NEW u, o.ready # <<>>, QueueOK(o, u)
  PROVE  QueueOK(Dequeue(o), u) /\ Delivered(Head(o.ready), u)
<1> DEFINE q == Dequeue(o)
           n == Len(o.ready)
<1>1. /\ n \in Nat /\ n >= 1 /\ Head(o.ready) = o.ready[1]
      /\ Len(q.ready) = n - 1
      /\ \A k \in 1 .. n - 1 : q.ready[k] = o.ready[k + 1]
  BY DequeueIo
<1> HIDE DEF q
<1>2. \A k \in 1 .. n - 1 : Delivered(q.ready[k], u)
  <2> SUFFICES ASSUME NEW k \in 1 .. n - 1 PROVE Delivered(q.ready[k], u)
    OBVIOUS
  <2>1. k + 1 \in 1 .. n /\ q.ready[k] = o.ready[k + 1]
    BY <1>1
  <2> QED BY <2>1 DEF QueueOK
<1>3. Delivered(Head(o.ready), u)
  BY <1>1 DEF QueueOK
<1> QED BY <1>1, <1>2, <1>3 DEF QueueOK, q

\* An operation that completes adds its handler.
LEMMA CompleteDelivered ==
  ASSUME NEW o \in Io, NEW u, NEW h \in Handlers, QueueOK(o, u), Delivered(h, u)
  PROVE  QueueOK(Complete(o, h), u)
<1> DEFINE q == Complete(o, h)
           n == Len(o.ready)
<1>1. /\ n \in Nat /\ Len(q.ready) = n + 1 /\ q.ready[n + 1] = h
      /\ \A k \in 1 .. n : q.ready[k] = o.ready[k]
  BY CompleteIo
<1> HIDE DEF q
<1>2. \A k \in 1 .. n + 1 : k \in 1 .. n \/ k = n + 1
  BY <1>1
<1>3. \A k \in 1 .. n + 1 : Delivered(q.ready[k], u)
  BY <1>1, <1>2 DEF QueueOK
<1> QED BY <1>1, <1>3 DEF QueueOK, q

\* A failure brings no datagram.
LEMMA FailureDelivered ==
  ASSUME NEW kind, NEW u
  PROVE  Delivered(Failed(kind), u)
BY DEF Delivered, Failed

\* A cancel completes operations with an error.
LEMMA CancelDelivered ==
  ASSUME NEW o \in Io, NEW u, QueueOK(o, u)
  PROVE  QueueOK(CancelSocket(o), u)
<1> DEFINE sent == IF "send" \in o.pending THEN Complete(o, Failed("send")) ELSE o
<1>1. Failed("send") \in Handlers /\ Failed("receive") \in Handlers
  BY HandlerTypes
<1>2. sent \in Io /\ QueueOK(sent, u)
  BY <1>1, CompleteIo, CompleteDelivered, FailureDelivered
<1> HIDE DEF sent
<1>3. QueueOK(Complete(sent, Failed("receive")), u)
  BY <1>1, <1>2, CompleteDelivered, FailureDelivered
<1> QED BY <1>2, <1>3 DEF CancelSocket, sent

\* An expiry that is queued brings no datagram.
LEMMA ExpiryDelivered ==
  ASSUME NEW o \in Io, NEW u, QueueOK(o, u)
  PROVE  QueueOK([o EXCEPT !.timer = FALSE,
                           !.ready = Append(@, Succeeded("timer"))], u)
<1> DEFINE h == Succeeded("timer")
           c == Complete(o, h)
           q == [o EXCEPT !.timer = FALSE, !.ready = Append(@, h)]
<1>1. h \in Handlers /\ Delivered(h, u)
  BY HandlerTypes DEF Delivered, Succeeded
<1>2. QueueOK(c, u)
  BY <1>1, CompleteDelivered
<1>3. q.ready = c.ready
  BY DEF Complete, Io
<1> QED BY <1>2, <1>3 DEF QueueOK

\* What clients send later changes nothing.
LEMMA LaterDelivered ==
  ASSUME NEW o, NEW u, NEW v, u \subseteq v, QueueOK(o, u)
  PROVE  QueueOK(o, v)
BY DEF QueueOK, Delivered

\* The entry actions start operations and queue nothing.
LEMMA EnterQueue ==
  ASSUME NEW s, NEW o \in Io, Expiries(o.ready)
  PROVE  Expiries(Enter(s, o).ready)
<1>1. Enter(s, o).ready = o.ready
  BY DEF Enter, EnterSending, EnterReceive, EnterAccepting, Io
<1> QED BY <1>1


-----------------------------------------------------------------------------
(* The sessions keep the invariant.                                        *)

\* A step of one session.
LEMMA LocalServer ==
  ASSUME DInv, NEW i \in Sessions, NEW s, NEW e, NEW o,
         st' = [st EXCEPT ![i] = s], fsm' = [fsm EXCEPT ![i] = e],
         io' = [io EXCEPT ![i] = o], QueueOK(o, up), Serves(s, e),
         UNCHANGED <<want, up>>
  PROVE  ServerInv'
<1>1. /\ st \in [Sessions -> States] /\ fsm \in [Sessions -> Data]
      /\ io \in [Sessions -> Io]
  BY DEF DInv, IInv, TypeOK
<1>2. ASSUME NEW j \in Sessions
      PROVE  QueueOK(io'[j], up) /\ Serves(st'[j], fsm'[j])
  <2>1. CASE j = i
    <3>1. io'[j] = o /\ st'[j] = s /\ fsm'[j] = e
      BY <1>1, <2>1
    <3> QED BY <3>1
  <2>2. CASE j # i
    <3>1. io'[j] = io[j] /\ st'[j] = st[j] /\ fsm'[j] = fsm[j]
      BY <1>1, <2>2
    <3> QED BY <3>1 DEF DInv, ServerInv
  <2> QED BY <2>1, <2>2
<1> QED BY <1>2 DEF ServerInv, QueueOK, Delivered, Serves, BlockSize

\* A step that changes the Asio of one session only.
LEMMA IoServer ==
  ASSUME DInv, NEW i \in Sessions, NEW o,
         io' = [io EXCEPT ![i] = o], QueueOK(o, up),
         UNCHANGED <<st, fsm, want, up>>
  PROVE  ServerInv'
<1>1. st' = [st EXCEPT ![i] = st[i]] /\ fsm' = [fsm EXCEPT ![i] = fsm[i]]
  BY DEF DInv, IInv, TypeOK
<1>2. Serves(st[i], fsm[i])
  BY DEF DInv, ServerInv
<1> QED BY <1>1, <1>2, LocalServer

\* The data of a session that has prepared a request of e.
LEMMA PreparedServes ==
  ASSUME ClientTypes, NEW d \in Data, NEW e \in Endpoints, NEW sized \in BOOLEAN,
         Fresh(d), d.agreed_remote_endpoint = e
  PROVE  LET f == InitServeReadRequest(d, want[e], sized)
         IN  /\ f.agreed_remote_endpoint = e /\ f.file = want[e].path
             /\ f.file_stream = "read" /\ f.agreed_block_size = BlockSize(e)
<1> DEFINE r == want[e]
           g == OpenStream(d, r, "read")
           f == InitServeReadRequest(d, r, sized)
<1>1. r.mode /\ r.path # NoFile /\ r.path \in Files \ Unopenable
  BY WantFacts
<1>2. g = [d EXCEPT !.file = r.path, !.file_stream = "read"]
  BY <1>1 DEF OpenStream
<1>3. d.agreed_block_size = DefaultBlockSize
  BY DEF Fresh, InitialData
<1> HIDE DEF r
<1>4. /\ g \in Data
      /\ g.agreed_remote_endpoint = e /\ g.file = r.path /\ g.file_stream = "read"
      /\ g.agreed_block_size = DefaultBlockSize
  BY <1>1, <1>2, <1>3 DEF Data
<1>5. /\ f.agreed_remote_endpoint = g.agreed_remote_endpoint
      /\ f.file = g.file /\ f.file_stream = g.file_stream
      /\ f.agreed_block_size = IF r.blksize # None THEN r.blksize
                               ELSE g.agreed_block_size
  <2> HIDE DEF g
  <2> QED BY <1>4 DEF InitServeReadRequest, Data, g
<1> QED BY <1>4, <1>5 DEF BlockSize, r

\* Whatever handler runs, queues and sessions stay as they should be.
LEMMA HandleServer ==
  ASSUME DInv, NEW i \in Sessions, Handle(i), UNCHANGED <<want, up>>
  PROVE  ServerInv'
<1>1. /\ st[i] \in States /\ fsm[i] \in Data /\ io[i] \in Io
      /\ QueueOK(io[i], up) /\ Serves(st[i], fsm[i]) /\ IInv /\ ClientTypes
  BY DEF DInv, IInv, TypeOK, ServerInv
<1>2. ASSUME NEW s \in States, NEW e, NEW o \in Io, LeftOK(o), Step(i, s, e, o),
             Serves(s, e)
      PROVE  ServerInv'
  <2>1. QueueOK(Enter(s, o), up)
    BY <1>2, EnterQueue, ExpiriesDelivered DEF LeftOK
  <2> QED BY <1>2, <2>1, LocalServer DEF Step
<1>3. CASE AcceptingFails(i)
  <2>1. /\ Runs(i, "accept") /\ st[i] = "Accepting"
        /\ io' = [io EXCEPT ![i] = Dequeue(io[i])] /\ UNCHANGED <<st, fsm>>
    BY <1>1, <1>3, FreeFacts DEF AcceptingFails, AcceptingFailed
  <2> QED BY <1>1, <2>1, DequeueDelivered, IoServer DEF Runs
<1>4. CASE IgnoreRequest(i)
  <2>1. /\ Runs(i, "accept") /\ st[i] = "Accepting" /\ UNCHANGED st
        /\ io' = [io EXCEPT ![i] = Dequeue(io[i])]
        /\ fsm' = [fsm EXCEPT ![i] = Requested(i)]
    BY <1>4 DEF IgnoreRequest, RequestReceived
  <2>2. st' = [st EXCEPT ![i] = "Accepting"]
    BY <2>1 DEF DInv, IInv, TypeOK
  <2>3. Serves("Accepting", Requested(i))
    BY DEF Serves
  <2>4. QueueOK(Dequeue(io[i]), up)
    BY <1>1, <2>1, DequeueDelivered DEF Runs
  <2> QED BY <2>1, <2>2, <2>3, <2>4, LocalServer
<1>5. CASE TimerFires(i)
  <2> DEFINE q == Dequeue(io[i])
             o == IF io[i].open THEN CancelSocket(q) ELSE q
  <2>1. /\ io[i].ready # <<>> /\ io' = [io EXCEPT ![i] = o]
        /\ UNCHANGED <<st, fsm>>
    BY <1>5 DEF TimerFires, Runs
  <2>2. q \in Io /\ QueueOK(q, up)
    BY <1>1, <2>1, DequeueIo, DequeueDelivered
  <2> HIDE DEF q
  <2>3. QueueOK(o, up)
    BY <2>2, CancelDelivered
  <2> HIDE DEF o
  <2> QED BY <2>1, <2>3, IoServer
<1>6. CASE Begins(i)
  <2> DEFINE d == Requested(i)
             c == Front(i).from
  <2>1. /\ st[i] = "Accepting" /\ Runs(i, "accept") /\ Front(i).ok
    BY <1>6 DEF Begins
  <2>2. Delivered(Front(i), up) /\ Front(i).kind = "accept"
    BY <1>1, <2>1, DequeueDelivered DEF Runs, Front
  <2>3. /\ c \in Endpoints /\ Front(i).msg = want[c] /\ want[c].op = "RRQ"
        /\ DataOK("Accepting", d) /\ d \in Data
        /\ Left(i) \in Io /\ LeftOK(Left(i))
    BY <1>1, <2>1, <2>2, FreeFacts, WantFacts DEF Delivered, Unstarted
  <2>4. PICK s \in Sending, e \in Data, sized \in BOOLEAN :
          /\ Step(i, s, e, OpenSocket(Left(i)))
          /\ e.send_packet \in Packet
          /\ s = "SendingError" => e.send_packet.op = "ERROR"
          /\ SameRequest(e, InitServeReadRequest(d, want[c], sized))
    BY <1>6, <2>3 DEF Begins
  <2>5. Fresh(d) /\ d.agreed_remote_endpoint = c
    BY <1>1, <2>3 DEF DataOK, Requested, Data
  <2> HIDE DEF d, c
  <2>6. Serves(s, e)
    BY <1>1, <2>3, <2>4, <2>5, PreparedServes DEF Serves, SameRequest
  <2>7. OpenSocket(Left(i)) \in Io /\ LeftOK(OpenSocket(Left(i))) /\ s \in States
    BY <2>3, OpenIo DEF LeftOK, Sending, States
  <2> QED BY <1>2, <2>4, <2>6, <2>7
<1>7. CASE Proceeds(i)
  <2>1. PICK s \in States \ {"Accepting"}, e \in Data :
          /\ Step(i, s, e, Left(i)) /\ SameRequest(e, fsm[i])
          /\ e.send_packet \in Packet \/ e.send_packet = fsm[i].send_packet
          /\ s = "SendingError" => e.send_packet.op = "ERROR"
    BY <1>7 DEF Proceeds
  <2>2. Serves(s, e)
    BY <1>1, <1>7, <2>1 DEF Serves, SameRequest, Proceeds
  <2>3. LeftOK(Left(i)) /\ Left(i) \in Io
    BY <1>1, <1>7, RunsFacts DEF Proceeds
  <2> QED BY <1>2, <2>1, <2>2, <2>3
<1>8. CASE Ends(i)
  <2>1. LeftOK(Left(i)) /\ Left(i) \in Io
    BY <1>1, <1>8, RunsFacts DEF Ends
  <2>2. LeftOK(CloseSocket(Left(i))) /\ CloseSocket(Left(i)) \in Io
    BY <2>1, CloseIo DEF LeftOK
  <2>3. Serves("Accepting", ResetData(fsm[i])) /\ "Accepting" \in States
    BY DEF Serves, States
  <2> QED BY <1>2, <1>8, <2>2, <2>3 DEF Ends, Restart
<1> QED BY <1>1, <1>3, <1>4, <1>5, <1>6, <1>7, <1>8, HandleMoves

\* So does the environment: what arrives was sent.
LEMMA EnvironmentServer ==
  ASSUME DInv, NEW i \in Sessions, UNCHANGED <<want, up>>,
         \/ RequestIsDelivered(i) \/ DatagramIsDelivered(i) \/ SendCompletes(i)
         \/ AcceptFails(i) \/ ReceiveFails(i) \/ TimerExpires(i)
  PROVE  ServerInv'
<1>1. io[i] \in Io /\ QueueOK(io[i], up) /\ ClientTypes
  BY DEF DInv, IInv, TypeOK, ServerInv
<1>2. ASSUME NEW kind, NEW h \in Handlers, Delivered(h, up), Completes(i, kind, h)
      PROVE  ServerInv'
  <2>1. /\ io' = [io EXCEPT ![i] = Complete(io[i], h)] /\ UNCHANGED <<st, fsm>>
    BY <1>2 DEF Completes
  <2> QED BY <1>1, <1>2, <2>1, CompleteDelivered, IoServer
<1>3. CASE RequestIsDelivered(i)
  <2>1. PICK e \in Endpoints : Completes(i, "accept", Received("accept", want[e], e))
    BY <1>3 DEF RequestIsDelivered
  <2>2. Received("accept", want[e], e) \in Handlers
    BY <1>1, WantFacts, HandlerTypes
  <2>3. Delivered(Received("accept", want[e], e), up)
    BY DEF Delivered, Received
  <2> QED BY <1>2, <2>1, <2>2, <2>3
<1>4. CASE DatagramIsDelivered(i)
  <2>1. PICK m \in up :
          Completes(i, "receive", Received("receive", m.packet, m.from))
    BY <1>4 DEF DatagramIsDelivered
  <2>2. /\ m.packet \in Datagrams /\ m.from \in Endpoints
        /\ [from |-> m.from, packet |-> m.packet] = m
    BY <1>1 DEF ClientTypes
  <2>3. Received("receive", m.packet, m.from) \in Handlers
    BY <2>2, HandlerTypes
  <2>4. Delivered(Received("receive", m.packet, m.from), up)
    BY <2>2 DEF Delivered, Received
  <2> QED BY <1>2, <2>1, <2>3, <2>4
<1>5. CASE SendCompletes(i)
  <2>1. Delivered(Succeeded("send"), up)
    BY DEF Delivered, Succeeded
  <2> QED BY <1>2, <1>5, <2>1, HandlerTypes DEF SendCompletes
<1>6. CASE AcceptFails(i) \/ ReceiveFails(i)
  BY <1>2, <1>6, HandlerTypes, FailureDelivered DEF AcceptFails, ReceiveFails
<1>7. CASE TimerExpires(i)
  <2> DEFINE o == [io[i] EXCEPT !.timer = FALSE,
                                !.ready = Append(@, Succeeded("timer"))]
  <2>1. io' = [io EXCEPT ![i] = o] /\ UNCHANGED <<st, fsm>>
    BY <1>7 DEF TimerExpires, DInv, IInv, TypeOK
  <2>2. QueueOK(o, up)
    BY <1>1, ExpiryDelivered
  <2> HIDE DEF o
  <2> QED BY <2>1, <2>2, IoServer
<1> QED BY <1>3, <1>4, <1>5, <1>6, <1>7

\* And Stop.
LEMMA StopServer ==
  ASSUME DInv, Stop, UNCHANGED <<want, up>>
  PROVE  ServerInv'
<1>1. ASSUME NEW i \in Sessions
      PROVE  /\ QueueOK(io'[i], up) /\ Serves(st[i], fsm[i])
             /\ st'[i] = st[i] /\ fsm'[i] = fsm[i]
  <2>1. io[i] \in Io /\ QueueOK(io[i], up) /\ Serves(st[i], fsm[i])
    BY DEF DInv, IInv, TypeOK, ServerInv
  <2>2. io'[i] = Complete(io[i], Failed("accept")) \/ io'[i] = io[i]
    BY DEF Stop
  <2>3. QueueOK(Complete(io[i], Failed("accept")), up)
    BY <2>1, HandlerTypes, CompleteDelivered, FailureDelivered
  <2> QED BY <2>1, <2>2, <2>3 DEF Stop
<1>2. \A i \in Sessions : QueueOK(io'[i], up) /\ Serves(st'[i], fsm'[i])
  BY <1>1
<1> QED BY <1>2 DEF ServerInv, QueueOK, Delivered, Serves, BlockSize


-----------------------------------------------------------------------------
(* What is sent.                                                           *)

\* A session that sends has a packet for its peer: a DATA is a block.
LEMMA SentIsBlock ==
  ASSUME DInv, NEW i \in Sessions, "send" \in io[i].pending
  PROVE  LET d == fsm[i]
         IN  /\ d.agreed_remote_endpoint \in Endpoints /\ d.send_packet \in Packet
             /\ d.send_packet.op = "DATA" =>
                  IsBlock(d.agreed_remote_endpoint, d.send_packet)
<1> DEFINE d == fsm[i]
           e == d.agreed_remote_endpoint
           p == d.send_packet
           b == d.last_sent_block
<1>1. /\ st[i] \in States /\ d \in Data /\ DataOK(st[i], d) /\ IoOK(st[i], io[i])
      /\ Serves(st[i], d) /\ ClientTypes
  BY DEF DInv, IInv, TypeOK, SessionOK, ServerInv
<1>2. st[i] \in Sending
  BY <1>1, AwaitedType DEF IoOK, InFlight, HandlerQueued, NotListening
<1>3. /\ e \in Endpoints /\ p \in Packet /\ d.file_stream = "read"
      /\ d.file = want[e].path /\ d.agreed_block_size = BlockSize(e)
      /\ st[i] = "SendingError" => p.op = "ERROR"
  BY <1>1, <1>2 DEF Serves, Sending
<1>4. ASSUME p.op = "DATA" PROVE IsBlock(e, p)
  <2>1. DataInFlight(d)
    BY <1>1, <1>2, <1>3, <1>4 DEF DataOK, PacketOK, AckInFlight, OackInFlight,
       Sending
  <2>2. b \in 1 .. WordSize
    BY <1>1, <2>1, ProtocolAssumption DEF DataInFlight, DataOK, TransferOK, LapOK, Data
  <2>3. d.read_pos <= FileSize(e)
    BY <1>1, <1>3 DEF DataOK, TransferOK, StreamOK, FileSize
  <2>4. /\ p.word = b % WordSize /\ p.pos = (b - 1) * BlockSize(e)
        /\ p.pos + p.len = d.read_pos
        /\ \/ p.len = BlockSize(e)
           \/ p.len < BlockSize(e) /\ d.read_pos = FileSize(e)
    BY <1>3, <2>1 DEF DataInFlight, FileSize
  <2> HIDE DEF d, e, p, b
  <2>5. p.pos + p.len <= FileSize(e)
    BY <2>3, <2>4
  <2> QED BY <2>2, <2>4, <2>5 DEF IsBlock
<1> QED BY <1>3, <1>4

\* The next block of a client that has the first ones.
LEMMA NextBlock ==
  ASSUME ClientTypes, NEW e \in Endpoints, HasBlocks(e), outcome[e] = "open",
         NEW p \in Packet, IsBlock(e, p), p.word = blocks[e] + 1
  PROVE  LET n == Len(content[e])
         IN  /\ n \in Nat /\ n <= p.pos + p.len /\ p.pos + p.len <= FileSize(e)
             /\ p.word < WordSize
             /\ p.pos = blocks[e] * BlockSize(e)
             /\ content[e] \o [k \in 1 .. p.len |-> p.pos + k]
                  = T!FirstUnits(p.pos + p.len)
             /\ \/ p.len = BlockSize(e)
                \/ p.len < BlockSize(e) /\ p.pos + p.len = FileSize(e)
<1> DEFINE n == Len(content[e])
<1>1. PICK b \in 1 .. WordSize :
        /\ p.word = b % WordSize /\ p.pos = (b - 1) * BlockSize(e)
        /\ p.pos + p.len <= FileSize(e)
        /\ \/ p.len = BlockSize(e)
           \/ p.len < BlockSize(e) /\ p.pos + p.len = FileSize(e)
  BY DEF IsBlock
<1>2. WordSize \in Nat /\ WordSize > 0 /\ blocks[e] \in Nat
  BY ProtocolAssumption DEF ResendLimit, ClientTypes
<1>3. b = blocks[e] + 1 /\ p.word < WordSize
  BY <1>1, <1>2
<1>4. BlockSize(e) \in Nat \ {0} /\ p.pos \in Nat /\ p.len \in Nat
  BY WantFacts DEF Packet
<1>5. b - 1 = blocks[e] /\ p.pos = blocks[e] * BlockSize(e)
  <2>1. b - 1 = blocks[e]
    BY <1>2, <1>3
  <2> QED BY <1>1, <2>1
<1>6. n \in Nat /\ content[e] = T!FirstUnits(n) /\ n = p.pos
  BY <1>5 DEF HasBlocks, ClientTypes
<1>7. content[e] \o [k \in 1 .. p.len |-> p.pos + k] = T!FirstUnits(p.pos + p.len)
  <2>1. \A m, l \in Nat :
          [k \in 1 .. m |-> k] \o [k \in 1 .. l |-> m + k] = [k \in 1 .. m + l |-> k]
    OBVIOUS
  <2>2. content[e] = [k \in 1 .. p.pos |-> k]
    BY <1>6 DEF T!FirstUnits
  <2> QED BY <1>4, <2>1, <2>2 DEF T!FirstUnits
<1>8. n \in Nat /\ n <= p.pos + p.len
  BY <1>4, <1>6
<1> HIDE DEF n
<1> QED BY <1>1, <1>3, <1>5, <1>7, <1>8, Zenon DEF n

-----------------------------------------------------------------------------
(* The clients keep the invariant.                                         *)

\* Clients that reply do not change what sessions have and serve.
LEMMA ClientServer ==
  ASSUME DInv, UNCHANGED <<vars, want>>, up \subseteq up'
  PROVE  ServerInv'
<1>1. \A i \in Sessions : QueueOK(io[i], up') /\ Serves(st[i], fsm[i])
  BY LaterDelivered DEF DInv, ServerInv
<1>2. UNCHANGED <<st, fsm, io, want>>
  BY DEF vars
<1> QED BY <1>1, <1>2 DEF ServerInv, QueueOK, Delivered, Serves, BlockSize

\* A reply that is no ACK, or of a block the client has.
LEMMA ReplyUp ==
  ASSUME UpInv, ClientTypes, NEW e \in Endpoints, NEW p \in Datagrams, Reply(e, p),
         p.op = "ACK" => p.word <= blocks'[e],
         blocks' \in [Endpoints -> Nat],
         \A c \in Endpoints : blocks[c] <= blocks'[c]
  PROVE  /\ UpInv' /\ up \subseteq up'
         /\ up' \subseteq [from : Endpoints, packet : Datagrams]
<1>1. up' = up \cup {[from |-> e, packet |-> p]}
  BY DEF Reply
<1>2. up' \subseteq [from : Endpoints, packet : Datagrams]
  BY <1>1 DEF ClientTypes
<1>3. ASSUME NEW m \in up', m.packet.op = "ACK" PROVE m.packet.word <= blocks'[m.from]
  <2>1. CASE m = [from |-> e, packet |-> p]
    BY <1>3, <2>1
  <2>2. CASE m \in up
    <3>1. /\ m.packet.word <= blocks[m.from] /\ m.from \in Endpoints
          /\ m.packet \in Datagrams
      BY <1>3, <2>2 DEF UpInv, ClientTypes
    <3>2. /\ m.packet.word \in Nat /\ blocks[m.from] \in Nat
          /\ blocks'[m.from] \in Nat
      BY <3>1, InputAssumption DEF ClientTypes, Packet
    <3> QED BY <3>1, <3>2
  <2> QED BY <1>1, <2>1, <2>2
<1> QED BY <1>1, <1>2, <1>3 DEF UpInv

\* The replies of clients are among the datagrams.
LEMMA ReplyTypes ==
  /\ \A w \in 0 .. WordSize - 1 :
       LET p == NewPacket("ACK", w, 0, 0, {})
       IN  p \in Datagrams /\ p.op = "ACK" /\ p.word = w
  /\ Refusal \in Datagrams /\ Refusal.op = "ERROR"
<1>1. ASSUME NEW w \in 0 .. WordSize - 1
      PROVE  LET p == NewPacket("ACK", w, 0, 0, {})
             IN  p \in Datagrams /\ p.op = "ACK" /\ p.word = w
  BY ReplyAssumption DEF Acks, NewPacket
<1> QED BY <1>1, ReplyAssumption DEF Refusal, NewPacket

\* A client that replies, without taking a block or an end.
LEMMA ReplyInv ==
  ASSUME DInv, IInv', NEW e \in Endpoints, NEW p \in Datagrams, Reply(e, p),
         p.op = "ACK" => p.word = 0,
         UNCHANGED <<vars, want, down, blocks, content>>,
         outcome' = outcome \/ outcome' = [outcome EXCEPT ![e] = "failed"],
         outcome' # outcome => outcome[e] = "open"
  PROVE  DInv'
<1>1. ClientTypes /\ UpInv /\ DownInv /\ ClientInv
  BY DEF DInv
<1>2. /\ blocks' \in [Endpoints -> Nat]
      /\ \A c \in Endpoints : blocks[c] <= blocks'[c] /\ blocks'[c] >= 0
  BY <1>1 DEF ClientTypes
<1>3. /\ UpInv' /\ up \subseteq up'
      /\ up' \subseteq [from : Endpoints, packet : Datagrams]
  <2>1. p.op = "ACK" => p.word <= blocks'[e]
    BY <1>2
  <2> QED BY <1>1, <1>2, <2>1, ReplyUp
<1>4. ServerInv'
  BY <1>3, ClientServer
<1>5. DownInv'
  BY <1>1 DEF DownInv, IsBlock, BlockSize, FileSize
<1>6. ClientTypes'
  BY <1>1, <1>3 DEF ClientTypes
<1>7. ClientInv'
  <2> SUFFICES ASSUME NEW c \in Endpoints PROVE HasBlocks(c)'
    BY DEF ClientInv
  <2>1. outcome'[c] # "complete" => outcome[c] # "complete"
    BY <1>1 DEF ClientTypes
  <2>2. HasBlocks(c)
    BY <1>1 DEF ClientInv
  <2> QED BY <2>1, <2>2 DEF HasBlocks, BlockSize, FileSize
<1> QED BY <1>3, <1>4, <1>5, <1>6, <1>7 DEF DInv


\* A client that takes its next block has one more of the file.
LEMMA TakenBlock ==
  ASSUME DInv, NEW e \in Endpoints, ClientTakesBlock(e)
  PROVE  \E p \in Packet :
           LET n == Len(content[e])
               size == p.pos + p.len
           IN  /\ p.word = blocks[e] + 1 /\ p.word < WordSize
               /\ n \in Nat /\ size \in Nat /\ n <= size /\ size <= FileSize(e)
               /\ p.len < BlockSize(e) => size = FileSize(e)
               /\ p.len >= BlockSize(e) =>
                    size = blocks'[e] * BlockSize(e)
               /\ content' = [content EXCEPT ![e] = T!FirstUnits(size)]
               /\ outcome' = [outcome EXCEPT ![e] =
                                IF p.len < BlockSize(e) THEN "complete" ELSE @]
               /\ Reply(e, NewPacket("ACK", p.word, 0, 0, {}))
<1>1. PICK m \in down :
        /\ m.to = e /\ m.packet.op = "DATA" /\ m.packet.word = blocks[e] + 1
        /\ content' = [content EXCEPT ![e] =
                         @ \o [k \in 1 .. m.packet.len |-> m.packet.pos + k]]
        /\ outcome' = [outcome EXCEPT ![e] =
                         IF m.packet.len < BlockSize(e) THEN "complete" ELSE @]
        /\ Reply(e, NewPacket("ACK", m.packet.word, 0, 0, {}))
  BY DEF ClientTakesBlock
<1> DEFINE p == m.packet
           n == Len(content[e])
<1>2. ClientTypes /\ HasBlocks(e) /\ p \in Packet /\ IsBlock(e, p)
  BY <1>1 DEF DInv, ClientInv, DownInv, ClientTypes
<1>3. outcome[e] = "open" /\ blocks' = [blocks EXCEPT ![e] = @ + 1]
  BY DEF ClientTakesBlock
<1> HIDE DEF p
<1>4. /\ n \in Nat /\ n <= p.pos + p.len /\ p.pos + p.len <= FileSize(e)
      /\ p.word < WordSize /\ p.pos = blocks[e] * BlockSize(e)
      /\ content[e] \o [k \in 1 .. p.len |-> p.pos + k]
           = T!FirstUnits(p.pos + p.len)
      /\ \/ p.len = BlockSize(e)
         \/ p.len < BlockSize(e) /\ p.pos + p.len = FileSize(e)
  BY <1>1, <1>2, <1>3, NextBlock DEF p
<1>5. content' = [content EXCEPT ![e] = T!FirstUnits(p.pos + p.len)]
  <2>1. content' = [content EXCEPT ![e] =
                      content[e] \o [k \in 1 .. p.len |-> p.pos + k]]
    BY <1>1 DEF p
  <2> QED BY <1>4, <2>1
<1>6. p.pos \in Nat /\ p.len \in Nat /\ BlockSize(e) \in Nat \ {0}
  BY <1>2, WantFacts DEF Packet
<1>7. p.len >= BlockSize(e) => p.pos + p.len = blocks'[e] * BlockSize(e)
  <2>1. blocks'[e] = blocks[e] + 1 /\ blocks[e] \in Nat
    BY <1>2, <1>3 DEF ClientTypes
  <2>2. \A b \in Nat, s \in Nat : b * s + s = (b + 1) * s
    OBVIOUS
  <2> QED BY <1>4, <1>6, <2>1, <2>2
<1>8. /\ p.pos + p.len \in Nat
      /\ p.len < BlockSize(e) => p.pos + p.len = FileSize(e)
  BY <1>4, <1>6
<1> p \in Packet
  BY <1>2
<1> WITNESS p \in Packet
<1> HIDE DEF n
<1>9. /\ p.word = blocks[e] + 1
      /\ outcome' = [outcome EXCEPT ![e] =
                       IF p.len < BlockSize(e) THEN "complete" ELSE @]
      /\ Reply(e, NewPacket("ACK", p.word, 0, 0, {}))
  BY <1>1 DEF p
<1> QED BY <1>4, <1>5, <1>7, <1>8, <1>9, Zenon DEF n

\* A client that takes a block keeps the invariant.
LEMMA TakeInv ==
  ASSUME DInv, IInv', NEW e \in Endpoints, ClientTakesBlock(e)
  PROVE  DInv'
<1>1. /\ ClientTypes /\ UpInv /\ DownInv /\ ClientInv
      /\ UNCHANGED <<vars, want, down>> /\ blocks' = [blocks EXCEPT ![e] = @ + 1]
  BY DEF DInv, ClientTakesBlock
<1>2. PICK p \in Packet :
        LET n == Len(content[e])
            size == p.pos + p.len
        IN  /\ p.word = blocks[e] + 1 /\ p.word < WordSize
            /\ n \in Nat /\ size \in Nat /\ n <= size /\ size <= FileSize(e)
            /\ p.len < BlockSize(e) => size = FileSize(e)
            /\ p.len >= BlockSize(e) => size = blocks'[e] * BlockSize(e)
            /\ content' = [content EXCEPT ![e] = T!FirstUnits(size)]
            /\ outcome' = [outcome EXCEPT ![e] =
                             IF p.len < BlockSize(e) THEN "complete" ELSE @]
            /\ Reply(e, NewPacket("ACK", p.word, 0, 0, {}))
  BY TakenBlock
<1>3. /\ blocks' \in [Endpoints -> Nat] /\ blocks'[e] = p.word
      /\ \A c \in Endpoints : blocks[c] <= blocks'[c]
  BY <1>1, <1>2 DEF ClientTypes
<1> DEFINE a == NewPacket("ACK", p.word, 0, 0, {})
<1>4. a \in Datagrams /\ a.op = "ACK" /\ a.word = p.word
  <2>1. p.word \in 0 .. WordSize - 1
    BY <1>2, ProtocolAssumption DEF Packet
  <2> QED BY <2>1, ReplyTypes
<1> HIDE DEF a
<1>5. /\ UpInv' /\ up \subseteq up'
      /\ up' \subseteq [from : Endpoints, packet : Datagrams]
  <2>1. Reply(e, a) /\ (a.op = "ACK" => a.word <= blocks'[e])
    BY <1>2, <1>3, <1>4 DEF a, Packet
  <2> QED BY <1>1, <1>3, <1>4, <2>1, ReplyUp
<1>6. ServerInv'
  BY <1>1, <1>5, ClientServer
<1>7. DownInv'
  BY <1>1 DEF DownInv, IsBlock, BlockSize, FileSize
<1> DEFINE size == p.pos + p.len
<1>8. /\ T!FirstUnits(size) \in Seq(Nat) /\ Len(T!FirstUnits(size)) = size
  <2>1. size \in Nat
    BY <1>2
  <2> HIDE DEF size
  <2> QED BY <2>1 DEF T!FirstUnits
<1> HIDE DEF size
<1>9. ClientTypes'
  BY <1>1, <1>2, <1>3, <1>5, <1>8 DEF ClientTypes, size
<1>10. ClientInv'
  <2> SUFFICES ASSUME NEW c \in Endpoints PROVE HasBlocks(c)'
    BY DEF ClientInv
  <2>1. CASE c = e
    <3>1. content'[c] = T!FirstUnits(size) /\ size <= FileSize(c)
      BY <1>1, <1>2, <2>1 DEF ClientTypes, size
    <3>2. outcome'[c] # "complete" => ~(p.len < BlockSize(c))
      BY <1>1, <1>2, <2>1 DEF ClientTypes
    <3>3. p.len \in Nat /\ BlockSize(c) \in Nat
      BY <1>1, WantFacts DEF Packet
    <3>4. outcome'[c] # "complete" => size = blocks'[c] * BlockSize(c)
      BY <1>2, <2>1, <3>2, <3>3 DEF size
    <3>5. BlockSize(c)' = BlockSize(c) /\ FileSize(c)' = FileSize(c)
      BY <1>1 DEF BlockSize, FileSize
    <3> QED BY <1>8, <3>1, <3>4, <3>5 DEF HasBlocks
  <2>2. CASE c # e
    <3>1. /\ content'[c] = content[c] /\ outcome'[c] = outcome[c]
          /\ blocks'[c] = blocks[c]
      BY <1>1, <1>2, <2>2 DEF ClientTypes
    <3>2. HasBlocks(c)
      BY <1>1 DEF ClientInv
    <3> QED BY <1>1, <3>1, <3>2 DEF HasBlocks, BlockSize, FileSize
  <2> QED BY <2>1, <2>2
<1> QED BY <1>5, <1>6, <1>7, <1>9, <1>10 DEF DInv

-----------------------------------------------------------------------------
(* The invariant is inductive.                                             *)

\* A step that changes what the sessions have, and nothing of the clients.
LEMMA ServerKeeps ==
  ASSUME DInv, IInv', ServerInv', UNCHANGED clientVars
  PROVE  DInv'
<1>1. UNCHANGED <<want, down, up, blocks, content, outcome>>
  BY DEF clientVars
<1>2. (ClientTypes /\ UpInv /\ DownInv)'
  BY <1>1 DEF DInv, ClientTypes, UpInv, DownInv, IsBlock, BlockSize, FileSize
<1>3. ClientInv'
  BY <1>1 DEF DInv, ClientInv, HasBlocks, BlockSize, FileSize
<1> QED BY <1>2, <1>3 DEF DInv

\* A session's send leaves a packet in the network.
LEMMA SendInv ==
  ASSUME DInv, IInv', NEW i \in Sessions, ServerSends(i)
  PROVE  DInv'
<1> DEFINE d == fsm[i]
           m == [to |-> d.agreed_remote_endpoint, packet |-> d.send_packet]
<1>1. /\ down' = down \cup {m} /\ SendCompletes(i)
      /\ UNCHANGED <<want, up, blocks, content, outcome>>
  BY DEF ServerSends
<1>2. /\ m.to \in Endpoints /\ m.packet \in Packet
      /\ m \in [to : Endpoints, packet : Packet]
      /\ m.packet.op = "DATA" => IsBlock(m.to, m.packet)
  BY <1>1, SentIsBlock DEF SendCompletes, Completes
<1> HIDE DEF m
<1>3. ServerInv'
  BY <1>1, EnvironmentServer
<1>4. (ClientTypes /\ UpInv)'
  BY <1>1, <1>2 DEF DInv, ClientTypes, UpInv
<1>5. DownInv'
  BY <1>1, <1>2 DEF DInv, DownInv, IsBlock, BlockSize, FileSize
<1>6. ClientInv'
  BY <1>1 DEF DInv, ClientInv, HasBlocks, BlockSize, FileSize
<1> QED BY <1>3, <1>4, <1>5, <1>6 DEF DInv

\* A client that fails or refuses keeps the invariant.
LEMMA ClientEndInv ==
  ASSUME DInv, IInv', NEW e \in Endpoints, ClientFails(e) \/ ClientRefuses(e)
  PROVE  DInv'
<1>1. Refusal \in Datagrams /\ Refusal.op # "ACK"
  BY ReplyTypes
<1>2. /\ UNCHANGED <<vars, want, down, blocks, content>>
      /\ outcome' = outcome \/ outcome' = [outcome EXCEPT ![e] = "failed"]
      /\ outcome' # outcome => outcome[e] = "open"
      /\ Reply(e, Refusal) \/ UNCHANGED up
  BY DEF ClientFails, ClientRefuses
<1>3. CASE Reply(e, Refusal)
  BY <1>1, <1>2, <1>3, ReplyInv
<1>4. CASE UNCHANGED up
  <2>1. ClientTypes /\ UpInv /\ DownInv /\ ClientInv
    BY DEF DInv
  <2>2. ServerInv'
    BY <1>2, <1>4, ClientServer
  <2>3. (ClientTypes /\ UpInv)'
    BY <1>2, <1>4, <2>1 DEF ClientTypes, UpInv
  <2>4. DownInv'
    BY <1>2, <2>1 DEF DownInv, IsBlock, BlockSize, FileSize
  <2>5. ClientInv'
    <3> SUFFICES ASSUME NEW c \in Endpoints PROVE HasBlocks(c)'
      BY DEF ClientInv
    <3>1. outcome'[c] # "complete" => outcome[c] # "complete"
      BY <1>2, <2>1 DEF ClientTypes
    <3>2. HasBlocks(c)
      BY <2>1 DEF ClientInv
    <3> QED BY <1>2, <3>1, <3>2 DEF HasBlocks, BlockSize, FileSize
  <2> QED BY <2>2, <2>3, <2>4, <2>5 DEF DInv
<1> QED BY <1>2, <1>3, <1>4

\* Every step of the sessions, the network and the clients keeps it.
LEMMA DownloadStep == DInv /\ [DownloadNext]_downloadVars => DInv'
<1> SUFFICES ASSUME DInv, [DownloadNext]_downloadVars PROVE DInv'
  OBVIOUS
<1>1. IInv'
  <2>1. [Next]_vars
    BY ServerIsSession DEF DInv, downloadVars
  <2> QED BY <2>1, NextInv DEF DInv
<1>2. ASSUME NEW i \in Sessions,
             RequestIsDelivered(i) \/ DatagramIsDelivered(i) \/ ServerStep(i)
      PROVE  DInv'
  <2>1. UNCHANGED clientVars /\ UNCHANGED <<want, up>>
    BY <1>2 DEF RequestIsDelivered, DatagramIsDelivered, ServerStep, clientVars
  <2>2. ServerInv'
    BY <1>2, <2>1, EnvironmentServer, HandleServer DEF ServerStep
  <2> QED BY <1>1, <2>1, <2>2, ServerKeeps
<1>3. ASSUME NEW i \in Sessions, ServerSends(i) PROVE DInv'
  BY <1>1, <1>3, SendInv
<1>4. ASSUME NEW e \in Endpoints, ClientAcksOptions(e) PROVE DInv'
  <2> DEFINE p == NewPacket("ACK", 0, 0, 0, {})
  <2>1. p \in Datagrams /\ p.word = 0
    BY ReplyTypes, ProtocolAssumption DEF ResendLimit
  <2>2. Reply(e, p) /\ UNCHANGED <<vars, want, down, blocks, content, outcome>>
    BY <1>4 DEF ClientAcksOptions
  <2> HIDE DEF p
  <2> QED BY <1>1, <2>1, <2>2, ReplyInv
<1>5. ASSUME NEW e \in Endpoints,
             ClientTakesBlock(e) \/ ClientFails(e) \/ ClientRefuses(e)
      PROVE  DInv'
  BY <1>1, <1>5, TakeInv, ClientEndInv
<1>6. CASE Stop /\ UNCHANGED clientVars
  BY <1>1, <1>6, StopServer, ServerKeeps DEF clientVars
<1>7. CASE UNCHANGED downloadVars
  <2>1. UNCHANGED vars /\ UNCHANGED clientVars
    BY <1>7 DEF downloadVars
  <2>2. UNCHANGED want /\ up \subseteq up'
    BY <2>1 DEF clientVars
  <2> QED BY <1>1, <2>1, <2>2, ClientServer, ServerKeeps
<1>8. CASE Halted /\ UNCHANGED clientVars
  BY <1>7, <1>8 DEF Halted, downloadVars
<1> QED BY <1>2, <1>3, <1>4, <1>5, <1>6, <1>7, <1>8 DEF DownloadNext

\* In the beginning nothing has been sent.
LEMMA DownloadStart == DownloadInit => DInv
<1> SUFFICES ASSUME DownloadInit PROVE DInv
  OBVIOUS
<1>1. IInv
  BY InitInv DEF DownloadInit
<1>2. ClientTypes
  BY DEF DownloadInit, ClientTypes
<1>3. ServerInv
  BY DEF DownloadInit, Init, ServerInv, QueueOK, Serves
<1>4. DownInv /\ UpInv
  BY DEF DownloadInit, DownInv, UpInv
<1>5. ClientInv
  <2> SUFFICES ASSUME NEW e \in Endpoints PROVE HasBlocks(e)
    BY DEF ClientInv
  <2>1. content[e] = <<>> /\ blocks[e] = 0
    BY DEF DownloadInit
  <2>2. BlockSize(e) \in Nat /\ FileSize(e) \in Nat
    BY <1>2, WantFacts
  <2>3. <<>> = T!FirstUnits(0) /\ Len(<<>>) = 0
    BY DEF T!FirstUnits
  <2> QED BY <2>1, <2>2, <2>3 DEF HasBlocks
<1> QED BY <1>1, <1>2, <1>3, <1>4, <1>5 DEF DInv

\* The invariant holds throughout.
THEOREM DownloadInvariance == DownloadSpec => []DInv
BY DownloadStart, DownloadStep, PTL DEF DownloadSpec


-----------------------------------------------------------------------------
(* What follows from it.                                                   *)

\* The sessions, the network and the clients hold values of their types.
THEOREM DownloadTypesCorrect == DownloadSpec => []DownloadTypeOK
<1>1. DInv => DownloadTypeOK
  BY DEF DInv, IInv, ClientTypes, DownloadTypeOK
<1> QED BY <1>1, DownloadInvariance, PTL

\* A step of a download is one of the transfer, or none.
LEMMA TransferStep == DInv /\ [DownloadNext]_downloadVars => [T!Next]_T!vars
<1> SUFFICES ASSUME DInv, [DownloadNext]_downloadVars PROVE [T!Next]_T!vars
  OBVIOUS
<1> DEFINE size == [e \in Endpoints |-> FileSize(e)]
<1>1. ASSUME UNCHANGED <<want, content, outcome>> PROVE UNCHANGED T!vars
  BY <1>1 DEF T!vars, FileSize
<1>2. ASSUME NEW i \in Sessions,
             \/ RequestIsDelivered(i) \/ DatagramIsDelivered(i)
             \/ ServerSends(i) \/ ServerStep(i)
      PROVE  UNCHANGED T!vars
  BY <1>1, <1>2 DEF RequestIsDelivered, DatagramIsDelivered, ServerSends,
     ServerStep, clientVars
<1>3. ASSUME NEW e \in Endpoints, ClientAcksOptions(e) \/ ClientRefuses(e)
      PROVE  UNCHANGED T!vars
  BY <1>1, <1>3 DEF ClientAcksOptions, ClientRefuses
<1>4. ASSUME NEW e \in Endpoints, ClientFails(e) PROVE T!Next
  <2>1. /\ outcome[e] = "open" /\ UNCHANGED <<want, content>>
        /\ outcome' = [outcome EXCEPT ![e] = "failed"]
    BY <1>4 DEF ClientFails
  <2>2. size' = size
    BY <2>1 DEF FileSize
  <2>3. T!Fail(e)
    BY <2>1, <2>2 DEF T!Fail
  <2> QED BY <2>3 DEF T!Next
<1>5. ASSUME NEW e \in Endpoints, ClientTakesBlock(e) PROVE T!Next
  <2>1. PICK p \in Packet :
          LET n == Len(content[e])
              end == p.pos + p.len
          IN  /\ n \in Nat /\ end \in Nat /\ n <= end /\ end <= FileSize(e)
              /\ p.len < BlockSize(e) => end = FileSize(e)
              /\ content' = [content EXCEPT ![e] = T!FirstUnits(end)]
              /\ outcome' = [outcome EXCEPT ![e] =
                               IF p.len < BlockSize(e) THEN "complete" ELSE @]
    BY <1>5, TakenBlock
  <2> DEFINE end == p.pos + p.len
  <2>2. outcome[e] = "open" /\ size' = size /\ size[e] = FileSize(e)
    BY <1>5 DEF ClientTakesBlock, FileSize
  <2> HIDE DEF size
  <2>3. CASE p.len < BlockSize(e)
    <3>1. content' = [content EXCEPT ![e] = T!FirstUnits(size[e])]
          /\ outcome' = [outcome EXCEPT ![e] = "complete"]
      BY <2>1, <2>2, <2>3
    <3>2. T!Complete(e)
      BY <2>2, <3>1 DEF T!Complete, size
    <3> QED BY <3>2 DEF T!Next
  <2>4. CASE ~(p.len < BlockSize(e))
    <3>1. outcome' = outcome
      BY <2>1, <2>4 DEF DInv, ClientTypes
    <3>2. FileSize(e) \in Nat
      BY WantFacts DEF DInv
    <3>3. /\ end \in Len(content[e]) .. size[e]
          /\ content' = [content EXCEPT ![e] = T!FirstUnits(end)]
      BY <2>1, <2>2, <3>2
    <3> HIDE DEF end
    <3>4. T!Receive(e)
      BY <2>2, <3>1, <3>3 DEF T!Receive, size
    <3> QED BY <3>4 DEF T!Next
  <2> QED BY <2>3, <2>4
<1>6. ASSUME (Stop \/ Halted) /\ UNCHANGED clientVars PROVE UNCHANGED T!vars
  BY <1>1, <1>6 DEF clientVars
<1>7. ASSUME UNCHANGED downloadVars PROVE UNCHANGED T!vars
  BY <1>1, <1>7 DEF downloadVars, clientVars
<1> QED BY <1>2, <1>3, <1>4, <1>5, <1>6, <1>7 DEF DownloadNext

\* A download implements the transfer: whatever the network loses, repeats and
\* reorders, a client has the beginning of its file, and all of it when it takes
\* the download for complete.
THEOREM DownloadsAreTransfers == DownloadSpec => DownloadIsTransfer
<1>1. DownloadInit => T!Init
  <2> SUFFICES ASSUME DownloadInit PROVE T!Init
    OBVIOUS
  <2>1. ClientTypes
    BY DownloadStart DEF DInv
  <2>2. [e \in Endpoints |-> FileSize(e)] \in [Endpoints -> Nat]
    BY <2>1, WantFacts
  <2> QED BY <2>2 DEF DownloadInit, T!Init
<1> QED BY <1>1, TransferStep, DownloadInvariance, PTL
        DEF DownloadSpec, DownloadIsTransfer, T!Spec

\* The ACK that ends a session is of the last block, and its sender has it.
LEMMA FinishIsDelivered ==
  ASSUME DInv, Next, NEW i \in Sessions,
         PacketReceived(i, "WaitingForAck"), Front(i).msg.op = "ACK",
         st'[i] = "Accepting"
  PROVE  outcome[fsm[i].agreed_remote_endpoint] = "complete"
<1> DEFINE d == fsm[i]
           e == d.agreed_remote_endpoint
           b == d.last_sent_block
<1>1. IInv /\ ClientTypes /\ UpInv /\ ClientInv
  BY DEF DInv
<1>2. st[i] = "WaitingForAck" /\ DataOK(st[i], d) /\ d \in Data
      /\ Front(i).msg \in Datagrams
  BY <1>1, PacketFacts DEF IInv, TypeOK
<1>3. FinishRead(i)
  BY <1>1, EndStep DEF PacketReceived, GiveUpData, TimedOut
<1>4. /\ FromAgreedEndpoint(d, Front(i).from)
      /\ HasFinalAckReceived(d, Front(i).msg)
  BY <1>3 DEF FinishRead, HasErrReceived
<1>5. Front(i).msg.word = b
  <2>1. Front(i).msg.word \in Nat /\ b \in Nat
    BY <1>2, InputAssumption DEF Packet, Data
  <2> QED BY <1>4, <2>1 DEF HasFinalAckReceived, HasAckReceived, IsOldAck
<1>6. d.last_block_size # d.agreed_block_size /\ b # 0
  BY <1>4 DEF HasFinalAckReceived, HasMoreToSend
<1>7. DataInFlight(d)
  BY <1>2, <1>6 DEF DataOK, PacketOK, AckInFlight, OackInFlight
<1>8. /\ e \in Endpoints /\ d.file_stream = "read" /\ d.file = want[e].path
      /\ d.agreed_block_size = BlockSize(e)
  BY <1>2 DEF DInv, ServerInv, Serves
<1>9. b <= blocks[e]
  <2>1. /\ io[i] \in Io /\ QueueOK(io[i], up) /\ io[i].ready # <<>>
        /\ Front(i).ok /\ Front(i).kind = "receive"
    BY DEF DInv, IInv, TypeOK, ServerInv, PacketReceived, Runs
  <2>2. [from |-> Front(i).from, packet |-> Front(i).msg] \in up
    BY <2>1, DequeueDelivered DEF Delivered, Front
  <2>3. Front(i).msg.word <= blocks[Front(i).from]
    BY <1>1, <2>2 DEF UpInv
  <2> QED BY <1>4, <1>5, <2>3 DEF FromAgreedEndpoint
<1>10. \E l \in Nat : l < BlockSize(e) /\ (b - 1) * BlockSize(e) + l = FileSize(e)
  <2>1. /\ d.last_block_size \in Nat
        /\ d.read_pos = (b - 1) * BlockSize(e) + d.last_block_size
        /\ d.last_block_size < BlockSize(e) /\ d.read_pos = FileSize(e)
    BY <1>2, <1>6, <1>7, <1>8 DEF DataInFlight, FileSize, Data
  <2> HIDE DEF e, b
  <2> QED BY <2>1
<1>11. /\ BlockSize(e) \in Nat \ {0} /\ FileSize(e) \in Nat
       /\ blocks[e] \in Nat /\ b \in Nat \ {0}
       /\ Len(content[e]) <= FileSize(e)
       /\ outcome[e] # "complete" => Len(content[e]) = blocks[e] * BlockSize(e)
  BY <1>1, <1>2, <1>6, <1>8, WantFacts
     DEF ClientTypes, ClientInv, HasBlocks, Data
<1>12. \A bs \in Nat \ {0}, c, k \in Nat, l \in Nat :
         (k \in Nat \ {0} /\ k <= c /\ l < bs) => (k - 1) * bs + l < c * bs
  <2> SUFFICES ASSUME NEW bs \in Nat \ {0}, NEW c \in Nat, NEW k \in Nat \ {0},
                      NEW l \in Nat, k <= c, l < bs
               PROVE  (k - 1) * bs + l < c * bs
    OBVIOUS
  <2>1. (k - 1) * bs + bs = k * bs
    OBVIOUS
  <2>2. k * bs <= c * bs
    OBVIOUS
  <2>3. (k - 1) * bs \in Int /\ k * bs \in Int /\ c * bs \in Int
    OBVIOUS
  <2> QED BY <2>1, <2>2, <2>3
<1> HIDE DEF e, b
<1>13. outcome[e] = "complete"
  <2> SUFFICES ASSUME outcome[e] # "complete" PROVE FALSE
    OBVIOUS
  <2>1. blocks[e] * BlockSize(e) <= FileSize(e)
    BY <1>11
  <2>2. FileSize(e) < blocks[e] * BlockSize(e)
    BY <1>9, <1>10, <1>11, <1>12
  <2>3. blocks[e] * BlockSize(e) \in Int
    BY <1>11
  <2> QED BY <1>11, <2>1, <2>2, <2>3
<1> QED BY <1>13 DEF e

\* The ACK that ends a session comes from a client that has the whole file:
\* none that is old, late or of a repeated request does.
THEOREM FinishesAreDelivered == DownloadSpec => FinishedMeansDelivered
<1> DEFINE Delivers == \A i \in Sessions :
             (/\ PacketReceived(i, "WaitingForAck") /\ Front(i).msg.op = "ACK"
              /\ st'[i] = "Accepting")
               => outcome[fsm[i].agreed_remote_endpoint] = "complete"
<1>1. DInv /\ [DownloadNext]_downloadVars => [Delivers]_downloadVars
  <2> SUFFICES ASSUME DInv, DownloadNext, NEW i \in Sessions,
                      PacketReceived(i, "WaitingForAck"),
                      Front(i).msg.op = "ACK", st'[i] = "Accepting"
               PROVE  outcome[fsm[i].agreed_remote_endpoint] = "complete"
    OBVIOUS
  <2>1. [Next]_vars
    BY ServerIsSession DEF DInv
  <2>2. Next
    BY <2>1 DEF vars, PacketReceived
  <2> QED BY <2>2, FinishIsDelivered
<1> QED BY <1>1, DownloadInvariance, PTL DEF DownloadSpec, FinishedMeansDelivered


-----------------------------------------------------------------------------
(* What follows from the two refinements.                                  *)

\* The download is made of sessions: what is proved of Session holds in it.
THEOREM DownloadsRunSessions == DownloadSpec => Spec
<1>1. DownloadInit => Init
  BY DEF DownloadInit
<1>2. DInv /\ [DownloadNext]_downloadVars => [Next]_vars
  <2>1. DInv /\ DownloadNext => [Next]_vars
    BY ServerIsSession DEF DInv
  <2>2. UNCHANGED downloadVars => UNCHANGED vars
    BY DEF downloadVars
  <2> QED BY <2>1, <2>2
<1> QED BY <1>1, <1>2, DownloadInvariance, PTL DEF DownloadSpec, Spec

TP == INSTANCE TransferProofs WITH Clients <- Endpoints, got <- content,
        size <- [e \in Endpoints |-> FileSize(e)]

\* At all times a client has the beginning of its file, and all of it when it
\* takes the download for complete; what it has only grows, and what it has
\* concluded is final.
THEOREM DownloadsKeepThePromise ==
  DownloadSpec =>
    /\ [](\A e \in Endpoints :
            /\ \E n \in 0 .. FileSize(e) : content[e] = T!FirstUnits(n)
            /\ outcome[e] = "complete" => content[e] = T!FirstUnits(FileSize(e)))
    /\ [][\A e \in Endpoints :
            /\ Len(content[e]) <= Len(content'[e])
            /\ outcome[e] # "open" => outcome'[e] = outcome[e]]_downloadVars
<1> DEFINE Kept == \A e \in Endpoints :
             /\ \E n \in 0 .. FileSize(e) : content[e] = T!FirstUnits(n)
             /\ outcome[e] = "complete" => content[e] = T!FirstUnits(FileSize(e))
           Growing == \A e \in Endpoints :
             /\ Len(content[e]) <= Len(content'[e])
             /\ outcome[e] # "open" => outcome'[e] = outcome[e]
<1>1. T!Init => TP!Init
  BY DEF T!Init, TP!Init
<1>2. [T!Next]_T!vars => [TP!Next]_TP!vars
  BY DEF T!Next, T!Receive, T!Complete, T!Fail, T!FirstUnits, T!vars,
         TP!Next, TP!Receive, TP!Complete, TP!Fail, TP!FirstUnits, TP!vars
<1>3. TP!Promised => Kept
  BY DEF TP!Promised, TP!FirstUnits, T!FirstUnits
<1>4. DInv /\ [TP!Lasting]_TP!vars => [Growing]_downloadVars
  <2>1. TP!Lasting => Growing
    BY DEF TP!Lasting
  <2>2. DInv /\ UNCHANGED TP!vars => Growing
    <3>1. DInv => content \in [Endpoints -> Seq(Nat)]
      BY DEF DInv, ClientTypes
    <3> QED BY <3>1 DEF TP!vars
  <2> QED BY <2>1, <2>2
<1> QED BY <1>1, <1>2, <1>3, <1>4, DownloadsAreTransfers, DownloadInvariance,
           TP!PromiseIsKept, TP!NothingIsTakenBack, PTL
        DEF DownloadIsTransfer, T!Spec, TP!Spec
=============================================================================
