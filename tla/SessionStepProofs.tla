------------------------- MODULE SessionStepProofs -------------------------
(* What one step of a session does, in the few kinds that tell apart what  *)
(* is outside it, and two theorems that follow: the size that an OACK      *)
(* tells, and the sessions as the slots of Pool.                           *)
EXTENDS SessionProofs

-----------------------------------------------------------------------------
(* The kinds of steps.                                                     *)

\* The members that only a request and Reset change.
SameRequest(e, d) ==
  /\ e.agreed_remote_endpoint = d.agreed_remote_endpoint
  /\ e.agreed_block_size = d.agreed_block_size
  /\ e.use_options = d.use_options
  /\ e.file_size = d.file_size
  /\ e.file_stream = d.file_stream /\ e.file = d.file

\* A free session takes a request, and answers it.
Begins(i) ==
  /\ st[i] = "Accepting" /\ Runs(i, "accept") /\ Front(i).ok
  /\ \E s \in Sending, e \in Data :
       /\ Step(i, s, e, OpenSocket(Left(i)))
       /\ e.send_packet \in Packet
       /\ s = "SendingError" => e.send_packet.op = "ERROR"
       /\ \/ /\ Front(i).msg.op = "RRQ" /\ s # "SendingAck"
             /\ \E sized \in BOOLEAN :
                  SameRequest(e, InitServeReadRequest(Requested(i), Front(i).msg, sized))
             /\ s = "SendingData" =>
                  \/ e.send_packet.op = "DATA"
                  \/ /\ e.send_packet.op = "OACK"
                     /\ e.send_packet.options = e.use_options
          \/ /\ Front(i).msg.op = "WRQ" /\ s # "SendingData"
             /\ SameRequest(e, InitServeWriteRequest(Requested(i), Front(i).msg))

\* A busy session goes on with the request it serves: it repeats its datagram
\* or sends a new one.
Proceeds(i) ==
  /\ st[i] # "Accepting" /\ (Runs(i, "send") \/ Runs(i, "receive"))
  /\ \E s \in States \ {"Accepting"}, e \in Data :
       /\ Step(i, s, e, Left(i))
       /\ SameRequest(e, fsm[i])
       /\ e.send_packet \in Packet \/ e.send_packet = fsm[i].send_packet
       /\ s = "SendingError" => e.send_packet.op = "ERROR"
       /\ s \in {"SendingData", "WaitingForAck"} =>
            \/ e.send_packet.op = "DATA"
            \/ st[i] # "SendingError" /\ e.send_packet = fsm[i].send_packet

Ends(i) ==
  /\ st[i] # "Accepting" /\ (Runs(i, "send") \/ Runs(i, "receive"))
  /\ Restart(i)

\* The actions of the rows of a busy session keep the request.
LEMMA SameRequestData ==
  ASSUME NEW d \in Data, NEW bad \in BOOLEAN, NEW p
  PROVE  /\ SameRequest(d, d)
         /\ SameRequest(TimeOut(d), d) /\ SameRequest(ResetTimeOut(d), d)
         /\ SameRequest(FormErrorPacket(d), d)
         /\ SameRequest(FormProtocolErrorPacket(d), d)
         /\ SameRequest(FormAckPacket(d), d)
         /\ SameRequest(FormDataPacket(d, bad), d)
         /\ SameRequest(WriteData(d, p, bad), d)
         /\ SameRequest(FormOackPacket(d), d)
         /\ FormOackPacket(d).send_packet.options = d.use_options
<1>1. SameRequest(d, d)
  BY DEF SameRequest
<1>2. SameRequest(TimeOut(d), d) /\ SameRequest(ResetTimeOut(d), d)
  BY DEF SameRequest, TimeOut, ResetTimeOut, Data
<1>3. /\ SameRequest(FormErrorPacket(d), d) /\ SameRequest(FormProtocolErrorPacket(d), d)
      /\ SameRequest(FormAckPacket(d), d)
  BY DEF SameRequest, FormErrorPacket, FormProtocolErrorPacket, FormAckPacket, Data
<1>4. SameRequest(FormDataPacket(d, bad), d)
  BY DEF SameRequest, FormDataPacket, Data
<1>5. SameRequest(WriteData(d, p, bad), d)
  BY DEF SameRequest, WriteData, Data
<1>6. SameRequest(FormOackPacket(d), d)
  BY DEF SameRequest, FormOackPacket, Data
<1>7. FormOackPacket(d).send_packet.options = d.use_options
  BY DEF FormOackPacket, NewPacket, Data
<1> QED BY <1>1, <1>2, <1>3, <1>4, <1>5, <1>6, <1>7

\* What the actions of the rows form is a packet.
LEMMA FormedPackets ==
  ASSUME NEW d \in Data
  PROVE  /\ FormOackPacket(d).send_packet \in Packet
         /\ FormAckPacket(d).send_packet \in Packet
         /\ FormProtocolErrorPacket(d).send_packet \in Packet
         /\ HasError(d) => FormErrorPacket(d).send_packet \in Packet
         /\ StreamOK(d) => FormDataPacket(d, FALSE).send_packet \in Packet
<1>1. FormOackPacket(d).send_packet \in Packet
  <2>1. d.use_options \in SUBSET OptionNames
    BY DEF Data
  <2> QED BY <2>1, NewPacketType DEF FormOackPacket, Data
<1>2. FormAckPacket(d).send_packet \in Packet
  <2>1. d.last_saved_block \in Nat
    BY DEF Data
  <2> QED BY <2>1, NewPacketType DEF FormAckPacket, Data
<1>3. FormProtocolErrorPacket(d).send_packet \in Packet
  BY NewPacketType DEF FormProtocolErrorPacket, IllegalTftpOperation, Data
<1>4. ASSUME HasError(d) PROVE FormErrorPacket(d).send_packet \in Packet
  <2>1. d.last_error_code \in Nat
    BY <1>4 DEF Data, HasError, NoError, FileNotFound, DiskFull, IllegalTftpOperation
  <2> QED BY <2>1, NewPacketType DEF FormErrorPacket, Data
<1>5. ASSUME StreamOK(d) PROVE FormDataPacket(d, FALSE).send_packet \in Packet
  <2> DEFINE n == BytesToRead(d)
             w == (d.last_sent_block + 1) % WordSize
             p == NewPacket("DATA", w, d.read_pos, n, {})
  <2>1. n \in Nat /\ w \in Nat /\ d.read_pos \in Nat
    BY <1>5, BytesToReadBound, ProtocolAssumption DEF Data, ResendLimit
  <2>2. p \in Packet
    <3> HIDE DEF n, w
    <3> QED BY <2>1, NewPacketType
  <2>3. FormDataPacket(d, FALSE).send_packet = p
    BY DEF FormDataPacket, Data
  <2> QED BY <2>2, <2>3
<1> QED BY <1>1, <1>2, <1>3, <1>4, <1>5

\* To keep a request is transitive.
LEMMA SameRequestTwice ==
  ASSUME NEW c, NEW d, NEW e, SameRequest(c, d), SameRequest(d, e)
  PROVE  SameRequest(c, e)
BY DEF SameRequest

\* The error of a failed operation is formed.
LEMMA ReportStep ==
  ASSUME NEW f, TransferOK(f), HasError(f)
  PROVE  /\ FormErrorPacket(f) \in Data
         /\ FormErrorPacket(f).send_packet.op = "ERROR"
         /\ FormErrorPacket(f).send_packet \in Packet
         /\ SameRequest(FormErrorPacket(f), f)
<1>1. DataOK("SendingError", FormErrorPacket(f))
      /\ FormErrorPacket(f).send_packet.op = "ERROR"
  BY ReportedOK
<1>2. FormErrorPacket(f) \in Data /\ f \in Data
  BY <1>1 DEF DataOK, TransferOK
<1> QED BY <1>1, <1>2, SameRequestData, FormedPackets

\* ServeReadRequest answers with an error, an OACK or the first block.
LEMMA ServeReadRequestBegins ==
  ASSUME IInv, NEW i \in Sessions, ServeReadRequest(i)
  PROVE  Begins(i)
<1>1. st[i] = "Accepting" /\ Runs(i, "accept") /\ Front(i).ok /\ Front(i).msg.op = "RRQ"
  BY DEF ServeReadRequest, RequestReceived
<1>2. PICK sized \in BOOLEAN, bad \in BOOLEAN :
        LET d == InitServeReadRequest(Requested(i), Front(i).msg, sized)
            o == OpenSocket(Left(i))
        IN  IF HasError(d) THEN Step(i, "SendingError", FormErrorPacket(d), o)
            ELSE IF HasOptions(d) THEN DataRead(i, FormOackPacket(d), o)
            ELSE DataRead(i, FormDataPacket(d, bad), o)
  BY DEF ServeReadRequest
<1> DEFINE d == InitServeReadRequest(Requested(i), Front(i).msg, sized)
           o == OpenSocket(Left(i))
<1>3. Unstarted(d) /\ d.file_stream # "write" /\ d \in Data
  <2>1. /\ Front(i).msg \in Requests /\ Unstarted(Requested(i))
        /\ Requested(i).file_stream = "closed"
        /\ Requested(i).last_error_code = NoError
    BY <1>1, FreeFacts
  <2> QED BY <2>1, InitServeReadRequestData DEF Unstarted
<1>4. SUFFICES \E s \in {"SendingData", "SendingError"}, e \in Data :
                 /\ Step(i, s, e, o) /\ SameRequest(e, d)
                 /\ e.send_packet \in Packet
                 /\ s = "SendingError" => e.send_packet.op = "ERROR"
                 /\ s = "SendingData" =>
                      \/ e.send_packet.op = "DATA"
                      \/ /\ e.send_packet.op = "OACK"
                         /\ e.send_packet.options = e.use_options
  BY <1>1 DEF Begins, Sending
<1> HIDE DEF d, o
<1>5. TransferOK(d)
  BY <1>3, UnstartedOK
<1>6. CASE HasError(d)
  <2>1. Step(i, "SendingError", FormErrorPacket(d), o)
    BY <1>2, <1>6 DEF d, o
  <2> QED BY <1>5, <1>6, <2>1, ReportStep
<1>7. CASE ~HasError(d) /\ HasOptions(d)
  <2> DEFINE f == FormOackPacket(d)
             e == ResetTimeOut(f)
  <2>1. DataRead(i, f, o)
    BY <1>2, <1>7 DEF d, o
  <2>2. ~HasError(f) /\ DataOK("SendingData", e)
    BY <1>3, <1>7, FirstOackOK
  <2>3. Step(i, "SendingData", e, o)
    BY <2>1, <2>2 DEF DataRead
  <2>4. /\ f \in Data /\ f.send_packet.op = "OACK"
        /\ f.send_packet.options = d.use_options /\ SameRequest(f, d)
        /\ f.send_packet \in Packet
    BY <1>3, FormOackPacketData, SameRequestData, FormedPackets
  <2> HIDE DEF f
  <2>5. e \in Data /\ e.send_packet = f.send_packet /\ SameRequest(e, f)
    BY <2>4, ResetTimeOutData, SameRequestData
  <2> HIDE DEF e
  <2>6. SameRequest(e, d) /\ e.send_packet.options = e.use_options
    BY <2>4, <2>5 DEF SameRequest
  <2> QED BY <2>3, <2>4, <2>5, <2>6
<1>8. CASE ~HasError(d) /\ ~HasOptions(d)
  <2> DEFINE f == FormDataPacket(d, bad)
  <2>1. DataRead(i, f, o)
    BY <1>2, <1>8 DEF d, o
  <2>2. SameRequest(f, d)
    BY <1>3, SameRequestData
  <2>3. CASE bad
    <3>1. HasError(f) /\ TransferOK(f)
      BY <1>5, <2>3, ReadFailureOK
    <3>2. Step(i, "SendingError", FormErrorPacket(f), o)
      BY <2>1, <3>1 DEF DataRead
    <3> HIDE DEF f
    <3> QED BY <2>2, <3>1, <3>2, ReportStep, SameRequestTwice
  <2>4. CASE ~bad
    <3> DEFINE e == ResetTimeOut(f)
    <3>1. ~HasError(f)
      BY <1>3, <1>8, <2>4, FirstBlockOK
    <3>2. Step(i, "SendingData", e, o)
      BY <2>1, <3>1 DEF DataRead
    <3>3. f \in Data /\ f.send_packet.op = "DATA" /\ f.send_packet \in Packet
      BY <1>3, <2>4, FormDataPacketData, FormedPackets DEF Unstarted
    <3> HIDE DEF f
    <3>4. e \in Data /\ e.send_packet = f.send_packet /\ SameRequest(e, f)
      BY <3>3, ResetTimeOutData, SameRequestData
    <3> HIDE DEF e
    <3> QED BY <2>2, <3>2, <3>3, <3>4, SameRequestTwice
  <2> QED BY <2>3, <2>4
<1> QED BY <1>6, <1>7, <1>8

\* ServeWriteRequest answers with an error or the ACK 0.
LEMMA ServeWriteRequestBegins ==
  ASSUME IInv, NEW i \in Sessions, ServeWriteRequest(i)
  PROVE  Begins(i)
<1>1. st[i] = "Accepting" /\ Runs(i, "accept") /\ Front(i).ok /\ Front(i).msg.op = "WRQ"
  BY DEF ServeWriteRequest, RequestReceived
<1> DEFINE d == InitServeWriteRequest(Requested(i), Front(i).msg)
           o == OpenSocket(Left(i))
<1>2. AckOrError(i, d, o)
  BY DEF ServeWriteRequest
<1>3. Unstarted(d) /\ d.file_stream # "read" /\ d \in Data
  <2>1. /\ Front(i).msg \in Requests /\ Unstarted(Requested(i))
        /\ Requested(i).file_stream = "closed"
        /\ Requested(i).last_error_code = NoError
    BY <1>1, FreeFacts
  <2> QED BY <2>1, InitServeWriteRequestData DEF Unstarted
<1>4. SUFFICES \E s \in {"SendingAck", "SendingError"}, e \in Data :
                 /\ Step(i, s, e, o) /\ SameRequest(e, d)
                 /\ e.send_packet \in Packet
                 /\ s = "SendingError" => e.send_packet.op = "ERROR"
  BY <1>1 DEF Begins, Sending
<1> HIDE DEF d, o
<1>5. CASE HasError(d)
  <2>1. Step(i, "SendingError", FormErrorPacket(d), o)
    BY <1>2, <1>5 DEF AckOrError
  <2> QED BY <1>3, <1>5, <2>1, UnstartedOK, ReportStep
<1>6. CASE ~HasError(d)
  <2>1. Step(i, "SendingAck", FormAckPacket(d), o)
    BY <1>2, <1>6 DEF AckOrError
  <2>2. /\ FormAckPacket(d) \in Data /\ SameRequest(FormAckPacket(d), d)
        /\ FormAckPacket(d).send_packet \in Packet
    BY <1>3, FormAckPacketData, SameRequestData, FormedPackets
  <2> QED BY <2>1, <2>2
<1> QED BY <1>5, <1>6


\* The rows that go on, one kind of operation at a time: first those that
\* repeat what was sent, or wait for its answer.
LEMMA RepeatProceeds ==
  ASSUME IInv, NEW i \in Sessions,
         \/ DataSent(i) \/ AckSent(i) \/ ResendData(i) \/ ResendAck(i)
         \/ KeepWaitingForAck(i) \/ IgnoreData(i)
  PROVE  Proceeds(i)
<1>1. fsm[i] \in Data
  BY DEF IInv, TypeOK
<1>2. CASE DataSent(i) \/ AckSent(i)
  <2>1. PICK s \in {"WaitingForAck", "WaitingForData"} :
          /\ st[i] \in {"SendingData", "SendingAck"}
          /\ Runs(i, "send") /\ Step(i, s, fsm[i], Left(i))
    BY <1>2 DEF DataSent, AckSent, PacketSent
  <2>2. s \in States \ {"Accepting"} /\ s # "SendingError"
    BY <2>1 DEF States
  <2> QED BY <1>1, <2>1, <2>2, SameRequestData DEF Proceeds
<1>3. CASE ResendData(i) \/ ResendAck(i)
  <2> DEFINE e == TimeOut(fsm[i])
  <2>1. PICK s \in {"SendingData", "SendingAck"} :
          /\ st[i] \in Waiting /\ CanRetry(fsm[i])
          /\ Runs(i, "receive") /\ Step(i, s, e, Left(i))
    BY <1>3 DEF ResendData, ResendAck, TimedOut, Waiting
  <2>2. s \in States \ {"Accepting"} /\ s # "SendingError"
    BY <2>1 DEF States
  <2>3. e \in Data /\ e.send_packet = fsm[i].send_packet /\ SameRequest(e, fsm[i])
    BY <1>1, <2>1, TimeOutData, SameRequestData
  <2> HIDE DEF e
  <2> QED BY <2>1, <2>2, <2>3 DEF Proceeds, Waiting
<1>4. CASE KeepWaitingForAck(i) \/ IgnoreData(i)
  <2>1. /\ st[i] \in Waiting /\ Runs(i, "receive")
        /\ Step(i, "WaitingForAck", fsm[i], Left(i))
    BY <1>4 DEF KeepWaitingForAck, IgnoreData, PacketReceived, Waiting
  <2> QED BY <1>1, <2>1, SameRequestData DEF Proceeds, Waiting, States
<1> QED BY <1>2, <1>3, <1>4

\* Then those that send something else.
LEMMA AnswerProceeds ==
  ASSUME IInv, NEW i \in Sessions,
         SendNextData(i) \/ SaveData(i) \/ RefuseAck(i) \/ RefuseData(i)
  PROVE  Proceeds(i)
<1>1. PICK w \in Waiting :
        /\ PacketReceived(i, w) /\ Runs(i, "receive") /\ st[i] = w
        /\ DataOK(w, fsm[i]) /\ Front(i).msg \in Datagrams
  <2>1. PICK w \in Waiting : PacketReceived(i, w)
    BY DEF SendNextData, SaveData, RefuseAck, RefuseData, Waiting
  <2> QED BY <2>1, PacketFacts
<1>2. fsm[i] \in Data /\ st[i] # "Accepting"
  BY <1>1 DEF IInv, TypeOK, Waiting
<1>3. SUFFICES \E s \in Sending, e \in Data :
                 /\ Step(i, s, e, Left(i)) /\ SameRequest(e, fsm[i])
                 /\ e.send_packet \in Packet
                 /\ s = "SendingError" => e.send_packet.op = "ERROR"
                 /\ s = "SendingData" => e.send_packet.op = "DATA"
  BY <1>1, <1>2 DEF Proceeds, States, Sending
<1>4. CASE SendNextData(i)
  <2>1. PICK bad \in BOOLEAN : DataRead(i, FormDataPacket(fsm[i], bad), Left(i))
    BY <1>4 DEF SendNextData
  <2> DEFINE f == FormDataPacket(fsm[i], bad)
  <2>2. SameRequest(f, fsm[i]) /\ st[i] = "WaitingForAck"
    BY <1>2, <1>4, SameRequestData DEF SendNextData, PacketReceived
  <2>3. DataOK("WaitingForAck", fsm[i]) /\ TransferOK(fsm[i])
    BY <1>1, <2>2 DEF DataOK
  <2>4. CASE bad
    <3>1. HasError(f) /\ TransferOK(f)
      BY <2>3, <2>4, ReadFailureOK
    <3>2. Step(i, "SendingError", FormErrorPacket(f), Left(i))
      BY <2>1, <3>1 DEF DataRead
    <3> HIDE DEF f
    <3> QED BY <2>2, <3>1, <3>2, ReportStep, SameRequestTwice DEF Sending
  <2>5. CASE ~bad
    <3> DEFINE e == ResetTimeOut(f)
    <3>1. ~HasError(f)
      BY <1>4, <2>3, <2>5, <1>1, NextBlockOK DEF SendNextData
    <3>2. Step(i, "SendingData", e, Left(i))
      BY <2>1, <3>1 DEF DataRead
    <3>3. f \in Data /\ f.send_packet.op = "DATA" /\ f.send_packet \in Packet
      BY <1>2, <2>3, <2>5, FormDataPacketData, FormedPackets DEF TransferOK
    <3> HIDE DEF f
    <3>4. e \in Data /\ e.send_packet = f.send_packet /\ SameRequest(e, f)
      BY <3>3, ResetTimeOutData, SameRequestData
    <3> HIDE DEF e
    <3> QED BY <2>2, <3>2, <3>3, <3>4, SameRequestTwice DEF Sending
  <2> QED BY <2>4, <2>5
<1>5. CASE SaveData(i)
  <2>1. PICK fail \in BOOLEAN :
          /\ fsm[i].file_stream # "write" => fail
          /\ AckOrError(i, WriteData(fsm[i], Front(i).msg, fail), Left(i))
    BY <1>5 DEF SaveData
  <2> DEFINE f == WriteData(fsm[i], Front(i).msg, fail)
             e == FormAckPacket(f)
  <2>2. /\ DataOK("WaitingForData", fsm[i]) /\ ~IsOldData(fsm[i], Front(i).msg)
        /\ SameRequest(f, fsm[i])
    BY <1>1, <1>2, <1>5, SameRequestData DEF SaveData, PacketReceived
  <2>3. /\ TransferOK(f) /\ (HasError(f) <=> fail)
        /\ ~fail => DataOK("SendingAck", e)
    BY <1>1, <2>1, <2>2, SavedOK
  <2>4. AckOrError(i, f, Left(i))
    BY <2>1
  <2> HIDE DEF f
  <2>5. CASE fail
    <3>1. Step(i, "SendingError", FormErrorPacket(f), Left(i))
      BY <2>3, <2>4, <2>5 DEF AckOrError
    <3> QED BY <2>2, <2>3, <2>5, <3>1, ReportStep, SameRequestTwice DEF Sending
  <2>6. CASE ~fail
    <3>1. Step(i, "SendingAck", e, Left(i))
      BY <2>3, <2>4, <2>6 DEF AckOrError
    <3>2. f \in Data
      BY <2>3 DEF TransferOK
    <3>3. e \in Data /\ SameRequest(e, f) /\ e.send_packet \in Packet
      BY <3>2, FormAckPacketData, SameRequestData, FormedPackets
    <3> HIDE DEF e
    <3> QED BY <2>2, <3>1, <3>3, SameRequestTwice DEF Sending
  <2> QED BY <2>5, <2>6
<1>6. CASE RefuseAck(i) \/ RefuseData(i)
  <2> DEFINE e == FormProtocolErrorPacket(fsm[i])
  <2>1. Step(i, "SendingError", e, Left(i))
    BY <1>6 DEF RefuseAck, RefuseData
  <2>2. /\ e \in Data /\ e.send_packet.op = "ERROR" /\ SameRequest(e, fsm[i])
        /\ e.send_packet \in Packet
    BY <1>2, FormProtocolErrorPacketData, SameRequestData, FormedPackets
  <2> HIDE DEF e
  <2> QED BY <2>1, <2>2 DEF Sending
<1> QED BY <1>4, <1>5, <1>6

\* Every handler does one of six things.
LEMMA HandleMoves ==
  ASSUME IInv, NEW i \in Sessions, Handle(i)
  PROVE  \/ AcceptingFails(i) \/ TimerFires(i) \/ IgnoreRequest(i)
         \/ Begins(i) \/ Proceeds(i) \/ Ends(i)
<1>1. CASE ServeReadRequest(i) \/ ServeWriteRequest(i)
  BY <1>1, ServeReadRequestBegins, ServeWriteRequestBegins
<1>2. CASE ErrorSent(i) \/ GiveUpData(i) \/ FinishRead(i) \/ GiveUpAck(i)
  BY <1>2 DEF Ends, ErrorSent, GiveUpData, FinishRead, GiveUpAck,
              PacketSent, PacketReceived, TimedOut
<1>3. CASE \/ DataSent(i) \/ AckSent(i) \/ ResendData(i) \/ ResendAck(i)
           \/ KeepWaitingForAck(i) \/ IgnoreData(i)
  BY <1>3, RepeatProceeds
<1>4. CASE SendNextData(i) \/ SaveData(i) \/ RefuseAck(i) \/ RefuseData(i)
  BY <1>4, AnswerProceeds
<1> QED BY <1>1, <1>2, <1>3, <1>4 DEF Handle

-----------------------------------------------------------------------------
(* The size that an OACK tells.                                            *)

\* The option tsize is used only with the size of the file that is open, and
\* an OACK names the options that are used.
SizeOK(s, d) ==
  /\ "tsize" \in d.use_options => d.file_size = FileLength[d.file]
  /\ (s \in {"SendingData", "WaitingForAck"} /\ d.send_packet.op = "OACK") =>
        d.send_packet.options = d.use_options
SizeInv == \A i \in Sessions : SizeOK(st[i], fsm[i])

\* A read request that uses tsize has found the size of its file.
LEMMA InitServeReadRequestSize ==
  ASSUME NEW d \in Data, NEW r \in Requests, NEW sized \in BOOLEAN
  PROVE  LET e == InitServeReadRequest(d, r, sized)
         IN  "tsize" \in e.use_options => e.file_size = FileLength[e.file]
<1> DEFINE g == OpenStream(d, r, "read")
           asked == r.mode /\ r.path # NoFile /\ r.tsize # None /\ sized
           used == {o \in OptionNames : \/ o = "tsize" /\ asked /\ r.tsize = 0
                                        \/ o = "timeout" /\ r.timeout # None
                                        \/ o = "blksize" /\ r.blksize # None}
           size == IF asked THEN FileLength[r.path] ELSE g.file_size
           time == IF r.timeout # None THEN r.timeout ELSE g.time_out
           blk == IF r.blksize # None THEN r.blksize ELSE g.agreed_block_size
           code == RequestError(d, r)
           e == InitServeReadRequest(d, r, sized)
<1>1. e = [g EXCEPT !.last_error_code = code, !.use_options = used,
                    !.file_size = size, !.time_out = time,
                    !.agreed_block_size = blk]
  BY Zenon DEF InitServeReadRequest
<1>2. "tsize" \in used => asked
  OBVIOUS
<1>3. asked => g.file = r.path /\ size = FileLength[r.path]
  BY DEF OpenStream, Data
<1>4. \E h : /\ h \in Data
             /\ g = h
  <2>1. CASE ~r.mode \/ r.path = NoFile
    BY <2>1 DEF OpenStream
  <2>2. CASE ~(~r.mode \/ r.path = NoFile)
    <3> DEFINE how == IF r.path \in Unopenable THEN "failed" ELSE "read"
    <3>1. g = [d EXCEPT !.file = r.path, !.file_stream = how]
      BY <2>2 DEF OpenStream
    <3>2. r.path \in Files /\ how \in {"failed", "read"}
      BY <2>2, RequestFields
    <3> HIDE DEF g, how
    <3> QED BY <3>1, <3>2 DEF Data
  <2> QED BY <2>1, <2>2
<1> HIDE DEF g, used, size, code, time, blk, e, asked
<1>5. e.use_options = used /\ e.file_size = size /\ e.file = g.file
  BY <1>1, <1>4 DEF Data
<1> QED BY <1>2, <1>3, <1>5 DEF e

\* SizeInv is inductive beside IInv.
LEMMA SizeStep == IInv /\ SizeInv /\ [Next]_vars => SizeInv'
<1> SUFFICES ASSUME IInv, SizeInv, [Next]_vars PROVE SizeInv'
  OBVIOUS
<1>1. st \in [Sessions -> States] /\ fsm \in [Sessions -> Data]
  BY DEF IInv, TypeOK
<1>2. ASSUME UNCHANGED <<st, fsm>> PROVE SizeInv'
  BY <1>2 DEF SizeInv
<1>3. ASSUME NEW i \in Sessions, NEW s, NEW e, SizeOK(s, e),
             st' = [st EXCEPT ![i] = s], fsm' = [fsm EXCEPT ![i] = e]
      PROVE  SizeInv'
  <2> SUFFICES ASSUME NEW j \in Sessions PROVE SizeOK(st'[j], fsm'[j])
    BY DEF SizeInv
  <2>1. CASE j = i
    <3>1. st'[j] = s /\ fsm'[j] = e
      BY <1>1, <1>3, <2>1
    <3> QED BY <1>3, <3>1
  <2>2. CASE j # i
    <3>1. st'[j] = st[j] /\ fsm'[j] = fsm[j]
      BY <1>1, <1>3, <2>2
    <3> QED BY <3>1 DEF SizeInv
  <2> QED BY <2>1, <2>2
<1>4. ASSUME NEW i \in Sessions, Handle(i) PROVE SizeInv'
  <2>1. CASE AcceptingFails(i) \/ TimerFires(i)
    <3>1. AcceptingFails(i) => ~HasError(fsm[i])
      BY FreeFacts DEF AcceptingFails, AcceptingFailed
    <3> QED BY <1>2, <2>1, <3>1 DEF AcceptingFails, TimerFires
  <2>2. CASE IgnoreRequest(i)
    <3> DEFINE e == Requested(i)
    <3>1. /\ st[i] = "Accepting" /\ UNCHANGED st
          /\ fsm' = [fsm EXCEPT ![i] = e]
      BY <2>2 DEF IgnoreRequest, RequestReceived
    <3>2. /\ e.use_options = fsm[i].use_options /\ e.file_size = fsm[i].file_size
          /\ e.file = fsm[i].file
      BY <1>1 DEF Requested, Data
    <3>3. SizeOK("Accepting", e)
      BY <3>1, <3>2 DEF SizeInv, SizeOK
    <3>4. st' = [st EXCEPT ![i] = "Accepting"]
      BY <1>1, <3>1
    <3> HIDE DEF e
    <3> QED BY <1>3, <3>1, <3>3, <3>4
  <2>3. CASE Begins(i)
    <3> DEFINE d == Requested(i)
               r == Front(i).msg
    <3>1. PICK s \in Sending, e \in Data :
            /\ Step(i, s, e, OpenSocket(Left(i)))
            /\ \/ /\ s # "SendingAck"
                  /\ \E sized \in BOOLEAN :
                       SameRequest(e, InitServeReadRequest(d, r, sized))
                  /\ s = "SendingData" =>
                       \/ e.send_packet.op = "DATA"
                       \/ e.send_packet.options = e.use_options
               \/ /\ s # "SendingData"
                  /\ SameRequest(e, InitServeWriteRequest(d, r))
      BY <2>3 DEF Begins
    <3>2. DataOK("Accepting", d) /\ d \in Data /\ r \in Requests
      BY <2>3, FreeFacts DEF Begins, Unstarted
    <3>3. d.use_options = {}
      BY <3>2 DEF DataOK, Fresh, InitialData
    <3> HIDE DEF d, r
    <3>4. InitServeWriteRequest(d, r).use_options = {}
      BY <3>2, <3>3 DEF InitServeWriteRequest, OpenStream, Data
    <3>5. "tsize" \in e.use_options => e.file_size = FileLength[e.file]
      BY <3>1, <3>2, <3>4, InitServeReadRequestSize DEF SameRequest
    <3>6. SizeOK(s, e)
      BY <3>1, <3>5 DEF SizeOK, Sending
    <3> QED BY <1>3, <3>1, <3>6 DEF Step
  <2>4. CASE Proceeds(i)
    <3>1. PICK s \in States \ {"Accepting"}, e \in Data :
            /\ Step(i, s, e, Left(i)) /\ SameRequest(e, fsm[i])
            /\ s \in {"SendingData", "WaitingForAck"} =>
                 \/ e.send_packet.op = "DATA"
                 \/ st[i] # "SendingError" /\ e.send_packet = fsm[i].send_packet
      BY <2>4 DEF Proceeds
    <3>2. "tsize" \in e.use_options => e.file_size = FileLength[e.file]
      BY <3>1 DEF SameRequest, SizeInv, SizeOK
    <3>3. ASSUME s \in {"SendingData", "WaitingForAck"}, e.send_packet.op = "OACK"
          PROVE  e.send_packet.options = e.use_options
      <4>1. st[i] \notin {"SendingError", "Accepting"}
            /\ e.send_packet = fsm[i].send_packet
        BY <2>4, <3>1, <3>3 DEF Proceeds
      <4>2. st[i] \notin {"SendingAck", "WaitingForData"}
        BY <3>3, <4>1 DEF IInv, SessionOK, DataOK, PacketOK, AckInFlight
      <4>3. st[i] \in {"SendingData", "WaitingForAck"}
        BY <1>1, <4>1, <4>2 DEF States
      <4> QED BY <3>1, <3>3, <4>1, <4>3 DEF SizeInv, SizeOK, SameRequest
    <3>4. SizeOK(s, e)
      BY <3>2, <3>3 DEF SizeOK
    <3> QED BY <1>3, <3>1, <3>4 DEF Step
  <2>5. CASE Ends(i)
    <3> DEFINE e == ResetData(fsm[i])
    <3>1. e.use_options = {}
      BY <1>1 DEF ResetData, Data
    <3>2. SizeOK("Accepting", e)
      BY <3>1 DEF SizeOK
    <3> QED BY <1>3, <2>5, <3>2 DEF Ends, Restart, Step
  <2> QED BY <1>4, <2>1, <2>2, <2>3, <2>4, <2>5, HandleMoves
<1>5. ASSUME NEW i \in Sessions,
             Arrival(i) \/ SendCompletes(i) \/ TimerExpires(i)
      PROVE  SizeInv'
  BY <1>2, <1>5 DEF Arrival, RequestArrives, AcceptFails, DatagramArrives,
     ReceiveFails, SendCompletes, Completes, TimerExpires
<1>6. CASE Stop \/ UNCHANGED vars
  BY <1>2, <1>6 DEF Stop, vars
<1> QED BY <1>4, <1>5, <1>6 DEF Next, Halted

\* The size that TransferState::Reset leaves behind is never told: a client
\* that is told a size is told that of its file.
THEOREM SizesAreTrue == Spec => []OackTellsTheSize
<1>1. Init => SizeInv
  BY DEF Init, SizeInv, SizeOK, InitialData
<1>2. SizeInv => OackTellsTheSize
  BY DEF SizeInv, SizeOK, OackTellsTheSize
<1> QED BY <1>1, <1>2, SizeStep, Invariance, PTL DEF Spec

-----------------------------------------------------------------------------
(* The sessions are the slots of Pool.                                     *)

\* Slot and AcceptQueued, of the state and the Asio of one session.
IsRequest(h) == h.ok /\ h.msg.op # "OTHER"
Accepted(o, isRequest) ==
  \E k \in 1 .. Len(o.ready) :
    o.ready[k].kind = "accept" /\ IsRequest(o.ready[k]) = isRequest
SlotOf(s, o) ==
  IF "accept" \in o.pending THEN "listening"
  ELSE IF s # "Accepting" \/ Accepted(o, TRUE) THEN "busy"
  ELSE IF Accepted(o, FALSE) THEN "failing" ELSE "deaf"

\* A session outside Accepting is busy.
LEMMA BusySlot ==
  ASSUME NEW s \in States \ {"Accepting"}, NEW o, IoOK(s, o)
  PROVE  SlotOf(s, o) = "busy"
<1>1. o.pending \in {{}, {Awaited(s)}} /\ Awaited(s) # "accept"
  BY AwaitedType DEF IoOK, InFlight, HandlerQueued, NotListening
<1> QED BY <1>1 DEF SlotOf

\* A queue of expiries has no accept.
LEMMA NoneAccepted ==
  ASSUME NEW o, Expiries(o.ready)
  PROVE  ~Accepted(o, TRUE) /\ ~Accepted(o, FALSE)
BY DEF Accepted, Expiries

\* When all but one of the handlers are expiries, that one tells the slot.
LEMMA OneAccepted ==
  ASSUME NEW o, NEW p \in 1 .. Len(o.ready), o.ready[p].kind = "accept",
         \A k \in 1 .. Len(o.ready) : k # p => o.ready[k].kind = "timer"
  PROVE  /\ Accepted(o, TRUE) <=> IsRequest(o.ready[p])
         /\ Accepted(o, FALSE) <=> ~IsRequest(o.ready[p])
<1>1. IsRequest(o.ready[p]) \in BOOLEAN
  BY DEF IsRequest
<1>2. ASSUME NEW k \in 1 .. Len(o.ready), o.ready[k].kind = "accept"
      PROVE  k = p
  BY <1>2
<1> QED BY <1>1, <1>2 DEF Accepted

\* A completed accept leaves the slot busy if it has brought a request.
LEMMA AcceptedSlot ==
  ASSUME NEW o \in Io, IoOK("Accepting", o), "accept" \in o.pending,
         NEW h \in Handlers, h.kind = "accept"
  PROVE  /\ SlotOf("Accepting", o) = "listening"
         /\ SlotOf("Accepting", Complete(o, h)) =
              IF IsRequest(h) THEN "busy" ELSE "failing"
<1> DEFINE q == Complete(o, h)
           n == Len(o.ready)
<1>1. Expiries(o.ready) /\ o.pending = {"accept"}
  BY DEF IoOK, InFlight, HandlerQueued, NotListening, Awaited, Sending, Waiting
<1>2. /\ n \in Nat /\ Len(q.ready) = n + 1
      /\ \A k \in 1 .. n : q.ready[k] = o.ready[k]
      /\ q.ready[n + 1] = h /\ q.pending = o.pending \ {h.kind}
  BY CompleteIo
<1> HIDE DEF q, n
<1>3. \A k \in 1 .. n : q.ready[k].kind = "timer"
  BY <1>1, <1>2 DEF Expiries, n
<1>4. /\ Accepted(q, TRUE) <=> IsRequest(h)
      /\ Accepted(q, FALSE) <=> ~IsRequest(h)
  <2>1. n + 1 \in 1 .. Len(q.ready) /\ q.ready[n + 1].kind = "accept"
    BY <1>2
  <2>2. \A k \in 1 .. Len(q.ready) : k # n + 1 => q.ready[k].kind = "timer"
    BY <1>2, <1>3
  <2> QED BY <1>2, <2>1, <2>2, OneAccepted
<1>5. SlotOf("Accepting", q) = IF IsRequest(h) THEN "busy" ELSE "failing"
  BY <1>1, <1>2, <1>4 DEF SlotOf
<1> QED BY <1>5 DEF SlotOf, q

\* A free session whose accept is handled has a slot that the request decides.
LEMMA HandledSlot ==
  ASSUME NEW o \in Io, IoOK("Accepting", o), o.ready # <<>>,
         Head(o.ready).kind = "accept"
  PROVE  SlotOf("Accepting", o) =
           IF IsRequest(Head(o.ready)) THEN "busy" ELSE "failing"
<1> DEFINE n == Len(o.ready)
           h == Head(o.ready)
<1>1. n \in Nat /\ n >= 1 /\ h = o.ready[1]
  BY DequeueIo
<1>2. ~Expiries(o.ready)
  BY <1>1 DEF Expiries
<1>3. /\ o.pending = {}
      /\ \E p \in 1 .. n : \A k \in 1 .. n : k # p => o.ready[k].kind = "timer"
  BY <1>2 DEF IoOK, InFlight, HandlerQueued, NotListening
<1>4. \A k \in 1 .. n : k # 1 => o.ready[k].kind = "timer"
  BY <1>1, <1>3
<1>5. (Accepted(o, TRUE) <=> IsRequest(h)) /\ (Accepted(o, FALSE) <=> ~IsRequest(h))
  <2>1. 1 \in 1 .. Len(o.ready) /\ o.ready[1].kind = "accept"
    BY <1>1
  <2> QED BY <1>1, <1>4, <2>1, OneAccepted DEF n
<1> QED BY <1>3, <1>5 DEF SlotOf

\* An expiry that is handled leaves the slot of a free session alone.
LEMMA ExpirySlot ==
  ASSUME NEW o \in Io, o.ready # <<>>, Head(o.ready).kind = "timer"
  PROVE  SlotOf("Accepting", Dequeue(o)) = SlotOf("Accepting", o)
<1> DEFINE q == Dequeue(o)
           n == Len(o.ready)
<1>1. /\ n \in Nat /\ n >= 1 /\ o.ready[1].kind = "timer"
      /\ Len(q.ready) = n - 1 /\ q.pending = o.pending
      /\ \A k \in 1 .. n - 1 : q.ready[k] = o.ready[k + 1]
  BY DequeueIo
<1> HIDE DEF q
<1>2. ASSUME NEW r PROVE Accepted(q, r) => Accepted(o, r)
  <2>1. ASSUME NEW k \in 1 .. n - 1
        PROVE  k + 1 \in 1 .. n /\ q.ready[k] = o.ready[k + 1]
    BY <1>1
  <2> QED BY <1>1, <2>1 DEF Accepted
<1>3. ASSUME NEW r PROVE Accepted(o, r) => Accepted(q, r)
  <2> SUFFICES ASSUME NEW k \in 1 .. n, o.ready[k].kind = "accept",
                      IsRequest(o.ready[k]) = r
               PROVE  Accepted(q, r)
    BY DEF Accepted
  <2>1. k # 1
    BY <1>1
  <2>2. k - 1 \in 1 .. n - 1
    BY <1>1, <2>1
  <2>3. q.ready[k - 1] = o.ready[(k - 1) + 1] /\ (k - 1) + 1 = k
    BY <1>1, <2>2
  <2>4. q.ready[k - 1] = o.ready[k]
    BY <2>3
  <2> QED BY <1>1, <2>2, <2>4 DEF Accepted
<1>4. /\ Accepted(q, TRUE) <=> Accepted(o, TRUE)
      /\ Accepted(q, FALSE) <=> Accepted(o, FALSE)
  BY <1>2, <1>3
<1> QED BY <1>1, <1>4 DEF SlotOf, q

\* A step of one slot, or of none, is a step of the pool.
OthersKeepSlots(i) == \A j \in Sessions \ {i} : Slot(j)' = Slot(j)
SlotMoves(i) ==
  \/ Slot(i)' = Slot(i)
  \/ Slot(i) = "listening" /\ Slot(i)' \in {"busy", "failing"}
  \/ Slot(i) = "failing" /\ Slot(i)' = "deaf"
  \/ Slot(i) = "busy" /\ Slot(i)' = IF listener = "open" THEN "listening" ELSE "deaf"

\* What a slot may do is Take, Fail, Deafen or Release.
LEMMA SlotStep ==
  ASSUME NEW i \in Sessions, OthersKeepSlots(i), SlotMoves(i), listener' = listener
  PROVE  [P!Next]_P!vars
<1> DEFINE slot == [j \in Sessions |-> Slot(j)]
<1>1. slot' = [slot EXCEPT ![i] = Slot(i)']
  BY DEF OthersKeepSlots
<1>2. slot[i] = Slot(i)
  OBVIOUS
<1>3. CASE Slot(i)' = Slot(i)
  <2>1. slot' = slot
    BY <1>1, <1>2, <1>3
  <2> QED BY <2>1 DEF P!vars
<1>4. CASE Slot(i) = "listening" /\ Slot(i)' = "busy"
  <2>1. P!Take(i)
    BY <1>1, <1>2, <1>4 DEF P!Take
  <2> QED BY <2>1 DEF P!Next
<1>5. CASE Slot(i) = "listening" /\ Slot(i)' = "failing"
  <2>1. P!Fail(i)
    BY <1>1, <1>2, <1>5 DEF P!Fail
  <2> QED BY <2>1 DEF P!Next
<1>6. CASE Slot(i) = "failing" /\ Slot(i)' = "deaf"
  <2>1. P!Deafen(i)
    BY <1>1, <1>2, <1>6 DEF P!Deafen
  <2> QED BY <2>1 DEF P!Next
<1>7. CASE /\ Slot(i) = "busy"
           /\ Slot(i)' = IF listener = "open" THEN "listening" ELSE "deaf"
  <2>1. P!Release(i)
    BY <1>1, <1>2, <1>7 DEF P!Release
  <2> QED BY <2>1 DEF P!Next
<1> QED BY <1>3, <1>4, <1>5, <1>6, <1>7 DEF SlotMoves

\* Slot is SlotOf, before a step and after it.
LEMMA SlotOfSession ==
  ASSUME NEW i \in Sessions
  PROVE  /\ Slot(i) = SlotOf(st[i], io[i])
         /\ Slot(i)' = SlotOf(st'[i], io'[i])
BY DEF Slot, AcceptQueued, SlotOf, Accepted, IsRequest

\* A step of session i leaves the slots of the others alone.
LEMMA OtherSlots ==
  ASSUME IInv, NEW i \in Sessions, NEW s, NEW o,
         st' = [st EXCEPT ![i] = s], io' = [io EXCEPT ![i] = o]
  PROVE  /\ OthersKeepSlots(i)
         /\ st'[i] = s /\ io'[i] = o
         /\ Slot(i)' = SlotOf(s, o)
<1>1. st \in [Sessions -> States] /\ io \in [Sessions -> Io]
  BY DEF IInv, TypeOK
<1>2. \A j \in Sessions \ {i} : st'[j] = st[j] /\ io'[j] = io[j]
  BY <1>1
<1>3. st'[i] = s /\ io'[i] = o
  BY <1>1
<1> QED BY <1>2, <1>3, SlotOfSession DEF OthersKeepSlots

\* The steps of a session that stays busy, or becomes busy, move its slot as
\* the pool may: a free one that is taken had a request in its queue.
LEMMA BusyStepSlots ==
  ASSUME IInv, IInv', NEW i \in Sessions, NEW s \in States \ {"Accepting"}, NEW o,
         Slot(i) = "busy" \/ Slot(i) = "listening",
         st' = [st EXCEPT ![i] = s], io' = [io EXCEPT ![i] = o],
         listener' = listener
  PROVE  [P!Next]_P!vars
<1>1. OthersKeepSlots(i) /\ st'[i] = s /\ Slot(i)' = SlotOf(s, io'[i])
  BY OtherSlots
<1>2. IoOK(st'[i], io'[i])
  BY DEF IInv, SessionOK
<1>3. Slot(i)' = "busy"
  BY <1>1, <1>2, BusySlot
<1> QED BY <1>1, <1>3, SlotStep DEF SlotMoves

\* What one handler does to the slots.
LEMMA HandleSlots ==
  ASSUME IInv, IInv', NEW i \in Sessions, Handle(i)
  PROVE  [P!Next]_P!vars
<1>1. /\ st \in [Sessions -> States] /\ io \in [Sessions -> Io]
      /\ IoOK(st[i], io[i]) /\ io[i] \in Io /\ st[i] \in States
  BY DEF IInv, TypeOK, SessionOK
<1>2. st[i] # "Accepting" => Slot(i) = "busy"
  BY <1>1, BusySlot, SlotOfSession
<1>3. ASSUME UNCHANGED <<st, listener>>, NEW o, io' = [io EXCEPT ![i] = o],
             SlotOf(st[i], o) = Slot(i)
      PROVE  [P!Next]_P!vars
  <2>1. st' = [st EXCEPT ![i] = st[i]]
    BY <1>1, <1>3
  <2>2. OthersKeepSlots(i) /\ Slot(i)' = Slot(i)
    BY <1>3, <2>1, OtherSlots
  <2> QED BY <1>3, <2>2, SlotStep DEF SlotMoves
<1>4. CASE AcceptingFails(i) \/ IgnoreRequest(i)
  <2>1. /\ st[i] = "Accepting" /\ Runs(i, "accept")
        /\ Front(i).ok => Front(i).msg.op = "OTHER"
        /\ UNCHANGED <<st, listener>>
        /\ io' = [io EXCEPT ![i] = Dequeue(io[i])]
    BY <1>4, FreeFacts DEF AcceptingFails, AcceptingFailed, IgnoreRequest,
       RequestReceived
  <2>2. Slot(i) = "failing"
    BY <1>1, <2>1, HandledSlot, SlotOfSession DEF Runs, Front, IsRequest
  <2>3. Dequeue(io[i]).pending = {} /\ Expiries(Dequeue(io[i]).ready)
    BY <2>1, FreeFacts DEF LeftOK
  <2>4. SlotOf(st[i], Dequeue(io[i])) = "deaf"
    BY <2>1, <2>3, NoneAccepted DEF SlotOf
  <2>5. st' = [st EXCEPT ![i] = st[i]]
    BY <1>1, <2>1
  <2>6. OthersKeepSlots(i) /\ Slot(i)' = "deaf"
    BY <2>1, <2>4, <2>5, OtherSlots
  <2> QED BY <2>1, <2>2, <2>6, SlotStep DEF SlotMoves
<1>5. CASE TimerFires(i)
  <2> DEFINE o == IF io[i].open THEN CancelSocket(Dequeue(io[i])) ELSE Dequeue(io[i])
  <2>1. /\ UNCHANGED <<st, listener>> /\ io' = [io EXCEPT ![i] = o]
        /\ io[i].ready # <<>> /\ Head(io[i].ready).kind = "timer"
    BY <1>5 DEF TimerFires, Runs, Front
  <2>2. CASE st[i] = "Accepting"
    <3>1. o = Dequeue(io[i])
      BY <1>1, <2>2 DEF IoOK
    <3>2. SlotOf(st[i], o) = Slot(i)
      BY <1>1, <2>1, <2>2, <3>1, ExpirySlot, SlotOfSession
    <3> QED BY <1>3, <2>1, <3>2
  <2>3. CASE st[i] # "Accepting"
    <3> HIDE DEF o
    <3>1. st' = [st EXCEPT ![i] = st[i]]
      BY <1>1, <2>1
    <3> QED BY <1>1, <1>2, <2>1, <2>3, <3>1, BusyStepSlots
  <2> QED BY <2>2, <2>3
<1>6. CASE Begins(i)
  <2>1. PICK s \in Sending, e \in Data : Step(i, s, e, OpenSocket(Left(i)))
    BY <1>6 DEF Begins
  <2>2. /\ st[i] = "Accepting" /\ io[i].ready # <<>>
        /\ Head(io[i].ready).kind = "accept" /\ Head(io[i].ready).ok
        /\ Head(io[i].ready).msg.op # "OTHER"
    BY <1>6 DEF Begins, Runs, Front
  <2>3. Slot(i) = "busy"
    BY <1>1, <2>2, HandledSlot, SlotOfSession DEF IsRequest
  <2> QED BY <2>1, <2>3, BusyStepSlots DEF Step, Sending, States
<1>7. CASE Proceeds(i)
  <2>1. PICK s \in States \ {"Accepting"}, e \in Data : Step(i, s, e, Left(i))
    BY <1>7 DEF Proceeds
  <2> QED BY <1>2, <1>7, <2>1, BusyStepSlots DEF Step, Proceeds
<1>8. CASE Ends(i)
  <2> DEFINE o == CloseSocket(Left(i))
  <2>1. /\ st[i] # "Accepting" /\ LeftOK(Left(i)) /\ Left(i) \in Io
    BY <1>8, RunsFacts DEF Ends
  <2>2. LeftOK(o)
    BY <2>1, CloseIo
  <2>3. /\ st' = [st EXCEPT ![i] = "Accepting"] /\ listener' = listener
        /\ io' = [io EXCEPT ![i] = EnterAccepting(o)]
    BY <1>8 DEF Ends, Restart, Step, Enter, Sending, Waiting
  <2> HIDE DEF o
  <2>4. OthersKeepSlots(i) /\ Slot(i)' = SlotOf("Accepting", EnterAccepting(o))
    BY <2>3, OtherSlots
  <2>5. SlotOf("Accepting", EnterAccepting(o)) =
          IF listener = "open" THEN "listening" ELSE "deaf"
    <3>1. /\ o.pending = {} /\ o \in Io
          /\ ~Accepted(o, TRUE) /\ ~Accepted(o, FALSE)
      BY <2>2, NoneAccepted DEF LeftOK
    <3>2. CASE listener = "open"
      <4>1. "accept" \in EnterAccepting(o).pending
        BY <3>1, <3>2 DEF EnterAccepting, Io
      <4> QED BY <3>2, <4>1 DEF SlotOf
    <3>3. CASE listener # "open"
      BY <3>1, <3>3 DEF EnterAccepting, SlotOf
    <3> QED BY <3>2, <3>3
  <2> QED BY <1>2, <2>1, <2>3, <2>4, <2>5, SlotStep DEF SlotMoves
<1> QED BY <1>4, <1>5, <1>6, <1>7, <1>8, HandleMoves

\* What the network and the clock do to the slots.
LEMMA EnvironmentSlots ==
  ASSUME IInv, IInv', NEW i \in Sessions,
         Arrival(i) \/ SendCompletes(i) \/ TimerExpires(i)
  PROVE  [P!Next]_P!vars
<1>1. /\ st \in [Sessions -> States] /\ io \in [Sessions -> Io]
      /\ IoOK(st[i], io[i]) /\ io[i] \in Io /\ st[i] \in States
  BY DEF IInv, TypeOK, SessionOK
<1>2. st[i] # "Accepting" => Slot(i) = "busy"
  BY <1>1, BusySlot, SlotOfSession
<1>3. /\ UNCHANGED <<st, listener>>
      /\ \E o : io' = [io EXCEPT ![i] = o]
  BY DEF Arrival, RequestArrives, AcceptFails, DatagramArrives, ReceiveFails,
     SendCompletes, TimerExpires, Completes
<1>4. st' = [st EXCEPT ![i] = st[i]]
  BY <1>1, <1>3
<1>5. CASE st[i] # "Accepting"
  BY <1>1, <1>2, <1>3, <1>4, <1>5, BusyStepSlots
<1>6. CASE st[i] = "Accepting"
  <2>1. "send" \notin io[i].pending /\ "receive" \notin io[i].pending /\ ~io[i].timer
    BY <1>1, <1>6 DEF IoOK, InFlight, HandlerQueued, NotListening, Awaited,
       Sending, Waiting
  <2>2. RequestArrives(i) \/ AcceptFails(i)
    BY <2>1 DEF Arrival, DatagramArrives, ReceiveFails, SendCompletes, Completes,
       TimerExpires
  <2>3. PICK h \in Handlers : h.kind = "accept" /\ Completes(i, "accept", h)
    BY <2>2, HandlerTypes DEF RequestArrives, AcceptFails
  <2>4. /\ "accept" \in io[i].pending
        /\ io' = [io EXCEPT ![i] = Complete(io[i], h)]
    BY <2>3 DEF Completes
  <2>5. OthersKeepSlots(i) /\ Slot(i)' = SlotOf("Accepting", Complete(io[i], h))
    BY <1>4, <1>6, <2>4, OtherSlots
  <2>6. Slot(i) = "listening" /\ Slot(i)' \in {"busy", "failing"}
    BY <1>1, <1>6, <2>3, <2>4, <2>5, AcceptedSlot, SlotOfSession
  <2> QED BY <1>3, <2>5, <2>6, SlotStep DEF SlotMoves
<1> QED BY <1>5, <1>6

\* Stop makes every listening slot fail.
LEMMA StopSlots ==
  ASSUME IInv, Stop
  PROVE  [P!Next]_P!vars
<1> DEFINE slot == [i \in Sessions |-> Slot(i)]
<1>1. ASSUME NEW i \in Sessions
      PROVE  Slot(i)' = IF Slot(i) = "listening" THEN "failing" ELSE Slot(i)
  <2>1. IoOK(st[i], io[i]) /\ io[i] \in Io /\ st[i] \in States
    BY DEF IInv, TypeOK, SessionOK
  <2>2. CASE "accept" \in io[i].pending
    <3>1. st[i] = "Accepting"
      BY <2>1, <2>2, AwaitedType DEF IoOK, InFlight, HandlerQueued, NotListening
    <3>2. /\ Slot(i) = "listening"
          /\ SlotOf("Accepting", Complete(io[i], Failed("accept"))) = "failing"
      <4>1. Failed("accept") \in Handlers /\ Failed("accept").kind = "accept"
            /\ ~Failed("accept").ok
        BY HandlerTypes DEF Failed
      <4> QED BY <2>1, <2>2, <3>1, <4>1, AcceptedSlot, SlotOfSession DEF IsRequest
    <3>3. st'[i] = "Accepting" /\ io'[i] = Complete(io[i], Failed("accept"))
      BY <2>2, <3>1 DEF Stop
    <3> QED BY <3>2, <3>3, SlotOfSession
  <2>3. CASE "accept" \notin io[i].pending
    <3>1. st'[i] = st[i] /\ io'[i] = io[i]
      BY <2>3 DEF Stop
    <3>2. Slot(i) # "listening"
      BY <2>3 DEF Slot
    <3> QED BY <3>1, <3>2, SlotOfSession
  <2> QED BY <2>2, <2>3
<1>2. P!Stop
  BY <1>1 DEF P!Stop, Stop
<1> QED BY <1>2 DEF P!Next

\* Every step of the sessions is a step of the pool, or none.
LEMMA PoolStep == IInv /\ IInv' /\ [Next]_vars => [P!Next]_P!vars
<1> SUFFICES ASSUME IInv, IInv', [Next]_vars PROVE [P!Next]_P!vars
  OBVIOUS
<1>1. CASE UNCHANGED vars
  <2>1. \A i \in Sessions : Slot(i)' = Slot(i)
    BY <1>1, SlotOfSession DEF vars
  <2> QED BY <1>1, <2>1 DEF P!vars, vars
<1> QED BY <1>1, HandleSlots, EnvironmentSlots, StopSlots DEF Next, Halted

\* The sessions implement the pool: whatever arrives, one that has taken a
\* request is busy until its reset, and listens again unless Stop was called.
THEOREM SessionsImplementPool == Spec => SessionsArePool
<1>1. Init => P!Init
  <2> SUFFICES ASSUME Init PROVE P!Init
    OBVIOUS
  <2>1. \A i \in Sessions : Slot(i) = "listening"
    BY DEF Init, Slot
  <2> QED BY <2>1 DEF P!Init, Init
<1> QED BY <1>1, PoolStep, Invariance, PTL DEF Spec, SessionsArePool, P!Spec


-----------------------------------------------------------------------------
(* What the steps of a busy session cost it.                               *)

\* A retry is counted when a receive has failed, and the count starts anew
\* with the next block only.
Costs(i, s, e) ==
  \/ /\ Runs(i, "send") /\ st[i] \in Sending /\ s \in Waiting
     /\ e.resend_count = fsm[i].resend_count
  \/ /\ Runs(i, "receive") /\ ~Front(i).ok /\ s \in Sending
     /\ e.resend_count = fsm[i].resend_count + 1
  \/ /\ Runs(i, "receive") /\ Front(i).ok
     /\ e.resend_count = fsm[i].resend_count \/ (SendNextData(i) /\ e.resend_count = 0)
Spends(i) == \E s \in States \ {"Accepting"}, e \in Data :
               Step(i, s, e, Left(i)) /\ Costs(i, s, e)

\* The actions of the rows that form a datagram leave the count alone.
LEMMA FormedCount ==
  ASSUME NEW d \in Data, NEW bad \in BOOLEAN, NEW p
  PROVE  /\ FormErrorPacket(d).resend_count = d.resend_count
         /\ FormProtocolErrorPacket(d).resend_count = d.resend_count
         /\ FormAckPacket(d).resend_count = d.resend_count
         /\ FormDataPacket(d, bad).resend_count = d.resend_count
         /\ WriteData(d, p, bad).resend_count = d.resend_count
<1>1. FormErrorPacket(d).resend_count = d.resend_count
  BY DEF FormErrorPacket, Data
<1>2. FormProtocolErrorPacket(d).resend_count = d.resend_count
  BY DEF FormProtocolErrorPacket, Data
<1>3. FormAckPacket(d).resend_count = d.resend_count
  BY DEF FormAckPacket, Data
<1>4. FormDataPacket(d, bad).resend_count = d.resend_count
  BY DEF FormDataPacket, Data
<1>5. WriteData(d, p, bad).resend_count = d.resend_count
  BY DEF WriteData, Data
<1> QED BY <1>1, <1>2, <1>3, <1>4, <1>5

\* The rows that repeat what was sent, or wait for its answer.
LEMMA RepeatSpends ==
  ASSUME IInv, NEW i \in Sessions,
         \/ DataSent(i) \/ AckSent(i) \/ ResendData(i) \/ ResendAck(i)
         \/ KeepWaitingForAck(i) \/ IgnoreData(i)
  PROVE  Spends(i)
<1>1. fsm[i] \in Data
  BY DEF IInv, TypeOK
<1>2. CASE DataSent(i) \/ AckSent(i)
  <2>1. PICK s \in Waiting :
          /\ st[i] \in Sending
          /\ Runs(i, "send") /\ Step(i, s, fsm[i], Left(i))
    BY <1>2 DEF DataSent, AckSent, PacketSent, Sending, Waiting
  <2>2. s \in States \ {"Accepting"}
    BY <2>1 DEF States, Waiting
  <2> QED BY <1>1, <2>1, <2>2 DEF Spends, Costs
<1>3. CASE ResendData(i) \/ ResendAck(i)
  <2> DEFINE e == TimeOut(fsm[i])
  <2>1. PICK s \in Sending :
          /\ CanRetry(fsm[i]) /\ Runs(i, "receive") /\ ~Front(i).ok
          /\ Step(i, s, e, Left(i))
    BY <1>3 DEF ResendData, ResendAck, TimedOut, Sending
  <2>2. s \in States \ {"Accepting"}
    BY <2>1 DEF States, Sending
  <2>3. e \in Data /\ e.resend_count = fsm[i].resend_count + 1
    BY <1>1, <2>1, TimeOutData
  <2> HIDE DEF e
  <2> QED BY <2>1, <2>2, <2>3 DEF Spends, Costs
<1>4. CASE KeepWaitingForAck(i) \/ IgnoreData(i)
  <2>1. /\ Runs(i, "receive") /\ Front(i).ok
        /\ Step(i, "WaitingForAck", fsm[i], Left(i))
    BY <1>4 DEF KeepWaitingForAck, IgnoreData, PacketReceived
  <2> QED BY <1>1, <2>1 DEF Spends, Costs, States
<1> QED BY <1>2, <1>3, <1>4

\* The rows that answer with something else.
LEMMA AnswerSpends ==
  ASSUME IInv, NEW i \in Sessions,
         SendNextData(i) \/ SaveData(i) \/ RefuseAck(i) \/ RefuseData(i)
  PROVE  Spends(i)
<1>1. PICK w \in Waiting :
        /\ PacketReceived(i, w) /\ Runs(i, "receive") /\ Front(i).ok
        /\ DataOK(w, fsm[i]) /\ Front(i).msg \in Datagrams
  <2>1. PICK w \in Waiting : PacketReceived(i, w)
    BY DEF SendNextData, SaveData, RefuseAck, RefuseData, Waiting
  <2> QED BY <2>1, PacketFacts DEF PacketReceived
<1>2. fsm[i] \in Data /\ TransferOK(fsm[i])
  BY <1>1 DEF IInv, TypeOK, DataOK
<1>3. SUFFICES \E s \in Sending, e \in Data :
                 /\ Step(i, s, e, Left(i))
                 /\ \/ e.resend_count = fsm[i].resend_count
                    \/ SendNextData(i) /\ e.resend_count = 0
  <2>1. Sending \subseteq States \ {"Accepting"}
    BY DEF Sending, States
  <2> QED BY <1>1, <2>1 DEF Spends, Costs
<1>4. ASSUME NEW f \in Data, TransferOK(f), f.resend_count = fsm[i].resend_count,
             HasError(f), Step(i, "SendingError", FormErrorPacket(f), Left(i))
      PROVE  \E s \in Sending, e \in Data :
               Step(i, s, e, Left(i)) /\ e.resend_count = fsm[i].resend_count
  <2> DEFINE e == FormErrorPacket(f)
  <2>1. e \in Data /\ e.resend_count = f.resend_count
    BY <1>4, FormErrorPacketData
  <2>2. Step(i, "SendingError", e, Left(i))
    BY <1>4
  <2> HIDE DEF e
  <2> QED BY <1>4, <2>1, <2>2 DEF Sending
<1>5. CASE SendNextData(i)
  <2>1. PICK bad \in BOOLEAN : DataRead(i, FormDataPacket(fsm[i], bad), Left(i))
    BY <1>5 DEF SendNextData
  <2> DEFINE f == FormDataPacket(fsm[i], bad)
             e == ResetTimeOut(f)
  <2>2. f \in Data /\ f.resend_count = fsm[i].resend_count
    BY <1>2, FormedCount, FormDataPacketData DEF TransferOK
  <2>3. CASE HasError(f)
    <3>1. TransferOK(f)
      <4>1. PacketReceived(i, "WaitingForAck") /\ DataOK("WaitingForAck", fsm[i])
            /\ HasIntermediateAckReceived(fsm[i], Front(i).msg)
        BY <1>5, PacketFacts DEF SendNextData, Waiting
      <4>2. bad
        BY <1>1, <2>3, <4>1, NextBlockOK
      <4> QED BY <1>2, <4>2, ReadFailureOK
    <3>2. Step(i, "SendingError", FormErrorPacket(f), Left(i))
      BY <2>1, <2>3 DEF DataRead
    <3> HIDE DEF f
    <3> QED BY <1>4, <2>2, <2>3, <3>1, <3>2
  <2>4. CASE ~HasError(f)
    <3>1. Step(i, "SendingData", e, Left(i))
      BY <2>1, <2>4 DEF DataRead
    <3> HIDE DEF f
    <3>2. e \in Data /\ e.resend_count = 0
      BY <2>2, ResetTimeOutData
    <3> HIDE DEF e
    <3> QED BY <1>5, <3>1, <3>2 DEF Sending
  <2> QED BY <2>3, <2>4
<1>6. CASE SaveData(i)
  <2>1. PICK fail \in BOOLEAN :
          /\ fsm[i].file_stream # "write" => fail
          /\ AckOrError(i, WriteData(fsm[i], Front(i).msg, fail), Left(i))
    BY <1>6 DEF SaveData
  <2> DEFINE f == WriteData(fsm[i], Front(i).msg, fail)
             e == FormAckPacket(f)
  <2>2. DataOK("WaitingForData", fsm[i]) /\ ~IsOldData(fsm[i], Front(i).msg)
    BY <1>6, PacketFacts DEF SaveData, Waiting
  <2>3. TransferOK(f) /\ f \in Data /\ f.resend_count = fsm[i].resend_count
    BY <1>1, <1>2, <2>1, <2>2, SavedOK, FormedCount DEF TransferOK
  <2>4. AckOrError(i, f, Left(i))
    BY <2>1
  <2> HIDE DEF f
  <2>5. CASE HasError(f)
    BY <1>4, <2>3, <2>4, <2>5 DEF AckOrError
  <2>6. CASE ~HasError(f)
    <3>1. Step(i, "SendingAck", e, Left(i))
      BY <2>4, <2>6 DEF AckOrError
    <3>2. e \in Data /\ e.resend_count = fsm[i].resend_count
      BY <2>3, FormAckPacketData
    <3> HIDE DEF e
    <3> QED BY <3>1, <3>2 DEF Sending
  <2> QED BY <2>5, <2>6
<1>7. CASE RefuseAck(i) \/ RefuseData(i)
  <2> DEFINE e == FormProtocolErrorPacket(fsm[i])
  <2>1. Step(i, "SendingError", e, Left(i))
    BY <1>7 DEF RefuseAck, RefuseData
  <2>2. e \in Data /\ e.resend_count = fsm[i].resend_count
    BY <1>2, FormProtocolErrorPacketData
  <2> HIDE DEF e
  <2> QED BY <2>1, <2>2 DEF Sending
<1> QED BY <1>5, <1>6, <1>7

\* A handler of a busy session is that of an expiry, or ends the transfer, or
\* spends.
LEMMA BusyMoves ==
  ASSUME IInv, NEW i \in Sessions, st[i] # "Accepting", Handle(i)
  PROVE  TimerFires(i) \/ Ends(i) \/ Spends(i)
<1>1. CASE \/ AcceptingFails(i) \/ IgnoreRequest(i)
           \/ ServeReadRequest(i) \/ ServeWriteRequest(i)
  BY <1>1 DEF AcceptingFails, AcceptingFailed, IgnoreRequest, ServeReadRequest,
     ServeWriteRequest, RequestReceived
<1>2. CASE ErrorSent(i) \/ GiveUpData(i) \/ FinishRead(i) \/ GiveUpAck(i)
  BY <1>2 DEF Ends, ErrorSent, GiveUpData, FinishRead, GiveUpAck,
              PacketSent, PacketReceived, TimedOut
<1>3. CASE \/ DataSent(i) \/ AckSent(i) \/ ResendData(i) \/ ResendAck(i)
           \/ KeepWaitingForAck(i) \/ IgnoreData(i)
  BY <1>3, RepeatSpends
<1>4. CASE SendNextData(i) \/ SaveData(i) \/ RefuseAck(i) \/ RefuseData(i)
  BY <1>4, AnswerSpends
<1> QED BY <1>1, <1>2, <1>3, <1>4 DEF Handle


\* A step of one session leaves the others alone.
Keeps(i) == st'[i] = st[i] /\ fsm'[i] = fsm[i] /\ io'[i] = io[i]
LEMMA OthersKeep ==
  ASSUME IInv, NEW i \in Sessions, NEW j \in Sessions \ {i},
         Handle(j) \/ Arrival(j) \/ SendCompletes(j) \/ TimerExpires(j)
  PROVE  Keeps(i)
<1>1. /\ st \in [Sessions -> States] /\ fsm \in [Sessions -> Data]
      /\ io \in [Sessions -> Io]
  BY DEF IInv, TypeOK
<1>2. ASSUME NEW s, NEW e, NEW o, Step(j, s, e, o) PROVE Keeps(i)
  BY <1>1, <1>2 DEF Step, Keeps
<1>3. ASSUME NEW o, UNCHANGED <<st, fsm>>, io' = [io EXCEPT ![j] = o] PROVE Keeps(i)
  BY <1>1, <1>3 DEF Keeps
<1>4. CASE AcceptingFails(j)
  BY <1>2, <1>3, <1>4 DEF AcceptingFails, Restart
<1>5. CASE IgnoreRequest(j)
  BY <1>1, <1>5 DEF IgnoreRequest, Keeps
<1>6. CASE Begins(j) \/ Proceeds(j) \/ Ends(j)
  BY <1>2, <1>6 DEF Begins, Proceeds, Ends, Restart
<1>7. CASE TimerFires(j)
  BY <1>3, <1>7 DEF TimerFires
<1>8. CASE Arrival(j) \/ SendCompletes(j) \/ TimerExpires(j)
  <2>1. UNCHANGED <<st, fsm>> /\ \E o : io' = [io EXCEPT ![j] = o]
    BY <1>8 DEF Arrival, RequestArrives, AcceptFails, DatagramArrives, ReceiveFails,
       SendCompletes, TimerExpires, Completes
  <2> QED BY <1>3, <2>1
<1> QED BY <1>4, <1>5, <1>6, <1>7, <1>8, HandleMoves

\* What is left of a step of a busy session: its own, or one that it does not
\* notice, for Stop aborts nothing of it.
LEMMA BusySteps ==
  ASSUME IInv, Next, NEW i \in Sessions, st[i] # "Accepting"
  PROVE  \/ Keeps(i)
         \/ TimerFires(i) \/ Ends(i) \/ Spends(i)
         \/ Arrival(i) \/ SendCompletes(i) \/ TimerExpires(i)
<1>1. CASE Halted
  BY <1>1 DEF Halted, vars, Keeps
<1>2. CASE Stop
  <2>1. "accept" \notin io[i].pending
    <3>1. IoOK(st[i], io[i]) /\ st[i] \in States
      BY DEF IInv, TypeOK, SessionOK
    <3> QED BY <3>1, AwaitedType DEF IoOK, InFlight, HandlerQueued, NotListening
  <2> QED BY <1>2, <2>1 DEF Stop, Keeps
<1>3. ASSUME NEW j \in Sessions,
             Handle(j) \/ Arrival(j) \/ SendCompletes(j) \/ TimerExpires(j)
      PROVE  \/ Keeps(i)
             \/ TimerFires(i) \/ Ends(i) \/ Spends(i)
             \/ Arrival(i) \/ SendCompletes(i) \/ TimerExpires(i)
  <2>1. CASE j = i
    BY <1>3, <2>1, BusyMoves
  <2>2. CASE j # i
    BY <1>3, <2>2, OthersKeep
  <2> QED BY <2>1, <2>2
<1> QED BY <1>1, <1>2, <1>3 DEF Next

\* The retries a transfer has used are given back only when its peer has
\* acknowledged the datagram in flight, or when it ends: what a stranger sends,
\* an old ACK, a failed read and a late expiry leave the count alone.
THEOREM RetriesAreAlwaysEarned == Spec => RetriesAreEarned
<1> DEFINE Earned(i) == (/\ st[i] # "Accepting" /\ fsm[i].file_stream # "write"
                         /\ fsm'[i].resend_count < fsm[i].resend_count)
                          => st'[i] = "Accepting" \/ AckedInFlight(i)
<1>1. IInv /\ [Next]_vars => [\A i \in Sessions : Earned(i)]_vars
  <2> SUFFICES ASSUME IInv, Next, NEW i \in Sessions, st[i] # "Accepting",
                      fsm[i].file_stream # "write",
                      fsm'[i].resend_count < fsm[i].resend_count
               PROVE  st'[i] = "Accepting" \/ AckedInFlight(i)
    OBVIOUS
  <2>1. /\ st \in [Sessions -> States] /\ fsm \in [Sessions -> Data]
        /\ fsm[i].resend_count \in Nat
    <3>1. st \in [Sessions -> States] /\ fsm \in [Sessions -> Data]
      BY DEF IInv, TypeOK
    <3>2. fsm[i] \in Data
      BY <3>1
    <3> QED BY <3>1, <3>2 DEF Data, ResendLimit
  <2>2. fsm'[i] # fsm[i]
    BY <2>1
  <2>3. Ends(i) \/ Spends(i)
    BY <2>2, BusySteps DEF Keeps, TimerFires, Arrival, RequestArrives, AcceptFails,
       DatagramArrives, ReceiveFails, SendCompletes, Completes, TimerExpires
  <2>4. CASE Ends(i)
    BY <2>1, <2>4 DEF Ends, Restart, Step
  <2>5. CASE Spends(i)
    <3>1. PICK s \in States \ {"Accepting"}, e \in Data :
            Step(i, s, e, Left(i)) /\ Costs(i, s, e)
      BY <2>5 DEF Spends
    <3>2. fsm'[i] = e
      BY <2>1, <3>1 DEF Step
    <3>3. SendNextData(i)
      BY <2>1, <3>1, <3>2 DEF Costs
    <3> QED BY <3>3, CurrentAckInFlight DEF SendNextData, HasIntermediateAckReceived
  <2> QED BY <2>3, <2>4, <2>5
<1> QED BY <1>1, Invariance, PTL DEF Spec, RetriesAreEarned


-----------------------------------------------------------------------------
(* What a busy session can still do of its own.                            *)

\* The part of Remaining that Asio holds.
Operations(o) == IF o.pending # {} THEN 2 ELSE 0
Wait(o) == IF o.timer THEN 2 ELSE 0
Load(o) == Operations(o) + Wait(o) + Len(o.ready)

\* Remaining, split so that each part can be bounded by itself.
LEMMA RemainingParts ==
  ASSUME NEW s, NEW d \in Data, NEW o \in Io
  PROVE  /\ Load(o) \in Nat
         /\ d.resend_count \in 0 .. 3
         /\ Remaining(s, d, o) =
              (IF Unanswered(o) THEN 24 ELSE 0) + 6 * (3 - d.resend_count)
                + (IF s \in Sending THEN 4 ELSE 0) + Load(o)
<1>1. d.resend_count \in 0 .. 3
  BY DEF Data, ResendLimit
<1>2. Len(o.ready) \in Nat
  BY DEF Io
<1>3. Operations(o) \in Nat /\ Wait(o) \in Nat
  BY DEF Operations, Wait
<1>4. Load(o) \in Nat
  BY <1>2, <1>3 DEF Load
<1> DEFINE answer == IF Unanswered(o) THEN 24 ELSE 0
           retries == 6 * (3 - d.resend_count)
           again == IF s \in Sending THEN 4 ELSE 0
<1>5. Remaining(s, d, o) =
        answer + retries + again + Operations(o) + Wait(o) + Len(o.ready)
  BY DEF Remaining, ResendLimit, Operations, Wait
<1>6. answer \in Nat /\ retries \in Int /\ again \in Nat
  BY <1>1
<1>7. Remaining(s, d, o) = answer + retries + again + Load(o)
  <2> HIDE DEF answer, retries, again
  <2> QED BY <1>2, <1>3, <1>5, <1>6 DEF Load
<1> QED BY <1>1, <1>4, <1>7

\* An operation that completes is replaced by its handler.
LEMMA CompleteLoad ==
  ASSUME NEW o \in Io, NEW h \in Handlers, o.pending = {h.kind}
  PROVE  /\ Complete(o, h) \in Io
         /\ Load(Complete(o, h)) = Load(o) - 1
         /\ Unanswered(Complete(o, h)) =>
              Unanswered(o) \/ (h.kind = "receive" /\ h.ok)
<1> DEFINE c == Complete(o, h)
           n == Len(o.ready)
<1>1. /\ c \in Io /\ n \in Nat /\ Len(c.ready) = n + 1
      /\ \A k \in 1 .. n : c.ready[k] = o.ready[k]
      /\ c.ready[n + 1] = h
      /\ c.pending = o.pending \ {h.kind} /\ c.timer = o.timer
  BY CompleteIo
<1> HIDE DEF c, n
<1>2. /\ Operations(c) = 0 /\ Operations(o) = 2
      /\ Wait(c) = Wait(o) /\ Wait(o) \in Nat
  BY <1>1 DEF Operations, Wait
<1>3. Load(c) = Load(o) - 1
  <2>1. Len(o.ready) \in Nat /\ Len(c.ready) = Len(o.ready) + 1
    BY <1>1 DEF n
  <2> QED BY ONLY <1>2, <2>1 DEF Load
<1>4. ASSUME Unanswered(c) PROVE Unanswered(o) \/ (h.kind = "receive" /\ h.ok)
  <2>1. PICK k \in 1 .. n + 1 : c.ready[k].kind = "receive" /\ c.ready[k].ok
    BY <1>1, <1>4 DEF Unanswered
  <2>2. CASE k = n + 1
    BY <1>1, <2>1, <2>2
  <2>3. CASE k # n + 1
    <3>1. k \in 1 .. n
      BY <1>1, <2>3
    <3> QED BY <1>1, <2>1, <3>1 DEF Unanswered, n
  <2> QED BY <2>2, <2>3
<1> QED BY <1>1, <1>3, <1>4 DEF c

\* The front of the queue is taken.
LEMMA DequeueLoad ==
  ASSUME NEW o \in Io, o.ready # <<>>
  PROVE  /\ Dequeue(o) \in Io /\ Dequeue(o).pending = o.pending
         /\ Load(Dequeue(o)) = Load(o) - 1
         /\ Unanswered(Dequeue(o)) => Unanswered(o)
         /\ Head(o.ready).kind = "receive" /\ Head(o.ready).ok => Unanswered(o)
<1> DEFINE q == Dequeue(o)
           n == Len(o.ready)
<1>1. /\ q \in Io /\ n \in Nat /\ n >= 1 /\ Head(o.ready) = o.ready[1]
      /\ Len(q.ready) = n - 1
      /\ \A k \in 1 .. n - 1 : q.ready[k] = o.ready[k + 1]
      /\ q.pending = o.pending /\ q.timer = o.timer
  BY DequeueIo
<1> HIDE DEF q, n
<1>2. /\ Operations(q) = Operations(o) /\ Wait(q) = Wait(o)
      /\ Operations(o) \in Nat /\ Wait(o) \in Nat
  BY <1>1 DEF Operations, Wait
<1>5. Load(q) = Load(o) - 1
  BY <1>1, <1>2 DEF Load, n
<1>3. ASSUME Unanswered(q) PROVE Unanswered(o)
  <2>1. PICK k \in 1 .. n - 1 : q.ready[k].kind = "receive" /\ q.ready[k].ok
    BY <1>1, <1>3 DEF Unanswered
  <2>2. k + 1 \in 1 .. n /\ q.ready[k] = o.ready[k + 1]
    BY <1>1
  <2> QED BY <2>1, <2>2 DEF Unanswered, n
<1>4. Head(o.ready).kind = "receive" /\ Head(o.ready).ok => Unanswered(o)
  BY <1>1 DEF Unanswered, n
<1> QED BY <1>1, <1>3, <1>4, <1>5 DEF q

\* An armed timer is replaced by its expiry.
LEMMA ExpireLoad ==
  ASSUME NEW o \in Io, o.timer
  PROVE  LET c == [o EXCEPT !.timer = FALSE, !.ready = Append(@, Succeeded("timer"))]
         IN  /\ c \in Io /\ Load(c) = Load(o) - 1
             /\ Unanswered(c) => Unanswered(o)
<1> DEFINE h == Succeeded("timer")
           n == Len(o.ready)
           c == [o EXCEPT !.timer = FALSE, !.ready = Append(@, h)]
<1>1. h \in Handlers /\ h.kind = "timer"
  BY HandlerTypes
<1> HIDE DEF h
<1>2. /\ Append(o.ready, h) \in Seq(Handlers) /\ n \in Nat
      /\ Len(Append(o.ready, h)) = n + 1
      /\ \A k \in 1 .. n : Append(o.ready, h)[k] = o.ready[k]
      /\ Append(o.ready, h)[n + 1] = h
  BY <1>1 DEF Io
<1>3. /\ c \in Io /\ c.ready = Append(o.ready, h)
      /\ c.pending = o.pending /\ ~c.timer
  BY <1>2 DEF Io
<1> HIDE DEF c, n
<1>4. Load(c) = Load(o) - 1
  <2>1. /\ Operations(c) = Operations(o) /\ Operations(o) \in Nat
        /\ Wait(c) = 0 /\ Wait(o) = 2
    BY <1>3 DEF Operations, Wait
  <2>2. Len(o.ready) \in Nat /\ Len(c.ready) = Len(o.ready) + 1
    BY <1>2, <1>3 DEF n
  <2> QED BY ONLY <2>1, <2>2 DEF Load
<1>5. ASSUME Unanswered(c) PROVE Unanswered(o)
  <2>1. PICK k \in 1 .. n + 1 : c.ready[k].kind = "receive" /\ c.ready[k].ok
    BY <1>2, <1>3, <1>5 DEF Unanswered
  <2>2. k \in 1 .. n
    BY <1>1, <1>2, <1>3, <2>1
  <2> QED BY <1>2, <1>3, <2>1, <2>2 DEF Unanswered, n
<1> QED BY <1>3, <1>4, <1>5 DEF c, h

\* A busy state that is left holds its queue without the front, and nothing
\* else; the state that is entered has one operation more, and one of them a
\* timer beside it.
LEMMA MoveLoad ==
  ASSUME NEW s \in States, NEW o \in Io, IoOK(s, o), o.ready # <<>>,
         Head(o.ready).kind # "timer", NEW t \in States \ {"Accepting"}
  PROVE  LET e == Enter(t, Exit(s, Dequeue(o)))
         IN  /\ ~Unanswered(e)
             /\ t \in Sending => Load(e) <= Load(o) + 1
             /\ Load(e) <= Load(o) + 3
<1> DEFINE q == Dequeue(o)
           l == Exit(s, q)
           e == Enter(t, l)
<1>1. /\ q \in Io /\ q.pending = o.pending /\ Load(q) = Load(o) - 1
      /\ Head(o.ready) = o.ready[1] /\ Len(o.ready) \in Nat /\ Len(o.ready) >= 1
  BY DequeueLoad, DequeueIo
<1>2. q.pending = {}
  BY <1>1 DEF IoOK, InFlight, HandlerQueued, NotListening, Expiries
<1>3. LeftOK(l)
  BY LeaveIo
<1> HIDE DEF q
<1>4. l.ready = q.ready
  <2>1. l = q \/ l = [q EXCEPT !.timer = FALSE]
    BY <1>2 DEF Exit, CancelSocket, CancelTimer
  <2> QED BY <1>1, <2>1 DEF Io
<1> HIDE DEF l
<1>5. /\ l \in Io /\ l.pending = {} /\ ~l.timer /\ Expiries(l.ready)
      /\ Len(l.ready) \in Nat
  BY <1>3 DEF LeftOK, Io
<1>6. Load(l) = Len(l.ready) /\ Load(l) <= Load(q)
  <2>1. Len(q.ready) \in Nat /\ Operations(q) \in Nat /\ Wait(q) \in Nat
    BY <1>1 DEF Io, Operations, Wait
  <2>2. Operations(l) = 0 /\ Wait(l) = 0
    BY <1>5 DEF Operations, Wait
  <2> QED BY <1>4, <1>5, <2>1, <2>2 DEF Load
<1>7. CASE t \in Sending
  <2>1. e = [l EXCEPT !.pending = {"send"}]
    BY <1>5, <1>7 DEF Enter, EnterSending
  <2>2. e.ready = l.ready /\ e.pending = {"send"} /\ ~e.timer
    BY <1>5, <2>1 DEF Io
  <2> HIDE DEF e
  <2>3. ~Unanswered(e)
    BY <1>5, <2>2 DEF Unanswered, Expiries
  <2>4. Load(e) = Load(l) + 2
    BY <1>5, <2>2 DEF Load, Operations, Wait
  <2>5. Load(o) \in Int
    BY DEF Load, Operations, Wait, Io
  <2> QED BY <1>1, <1>5, <1>6, <2>3, <2>4, <2>5 DEF e, l, q
<1>8. CASE t \in Waiting
  <2>1. e = [l EXCEPT !.pending = {"receive"}, !.timer = TRUE]
    BY <1>5, <1>8 DEF Enter, EnterReceive, Sending, Waiting
  <2>2. e.ready = l.ready /\ e.pending = {"receive"} /\ e.timer
    BY <1>5, <2>1 DEF Io
  <2> HIDE DEF e
  <2>3. ~Unanswered(e)
    BY <1>5, <2>2 DEF Unanswered, Expiries
  <2>4. Load(e) = Load(l) + 4
    BY <1>5, <2>2 DEF Load, Operations, Wait
  <2>5. t \notin Sending
    BY <1>8 DEF Sending, Waiting
  <2>6. Load(o) \in Int
    BY DEF Load, Operations, Wait, Io
  <2> QED BY <1>1, <1>5, <1>6, <2>3, <2>4, <2>5, <2>6 DEF e, l, q
<1> QED BY <1>7, <1>8 DEF States, Sending, Waiting


\* The state of a busy session is as it was, and its load is less by one.
Descends(i) ==
  Remaining(st'[i], fsm'[i], io'[i]) < Remaining(st[i], fsm[i], io[i])
LEMMA LoadDescends ==
  ASSUME IInv, NEW i \in Sessions, NEW o \in Io,
         st'[i] = st[i], fsm'[i] = fsm[i], io'[i] = o,
         Load(o) < Load(io[i]), Unanswered(o) => Unanswered(io[i])
  PROVE  Descends(i)
<1> DEFINE s == st[i]
           d == fsm[i]
           p == io[i]
           rest == 6 * (3 - d.resend_count) + (IF s \in Sending THEN 4 ELSE 0)
<1>1. d \in Data /\ p \in Io
  BY DEF IInv, TypeOK
<1> HIDE DEF s, d, p
<1>2. /\ Load(p) \in Nat /\ Load(o) \in Nat /\ rest \in Int
      /\ Remaining(s, d, p) = (IF Unanswered(p) THEN 24 ELSE 0) + rest + Load(p)
      /\ Remaining(s, d, o) = (IF Unanswered(o) THEN 24 ELSE 0) + rest + Load(o)
  BY <1>1, RemainingParts
<1> HIDE DEF rest
<1>3. Load(o) < Load(p) /\ (Unanswered(o) => Unanswered(p))
  BY DEF p
<1>4. Remaining(s, d, o) < Remaining(s, d, p)
  BY <1>2, <1>3
<1> QED BY <1>4 DEF Descends, s, d, p

\* An expiry that is handled cancels an operation at most: it is replaced by
\* its handler, of a failure.
LEMMA ExpiryDescends ==
  ASSUME IInv, NEW i \in Sessions, st[i] # "Accepting", TimerFires(i)
  PROVE  Descends(i)
<1> DEFINE o == io[i]
           q == Dequeue(o)
           c == CancelSocket(q)
<1>1. /\ io \in [Sessions -> Io] /\ o \in Io /\ IoOK(st[i], o) /\ st[i] \in States
  BY DEF IInv, TypeOK, SessionOK
<1>2. o.ready # <<>> /\ o.open
  BY <1>1 DEF TimerFires, Runs, IoOK
<1>3. st'[i] = st[i] /\ fsm'[i] = fsm[i] /\ io'[i] = c
  BY <1>1, <1>2 DEF TimerFires
<1>4. /\ q \in Io /\ q.pending = o.pending /\ Load(q) = Load(o) - 1
      /\ Unanswered(q) => Unanswered(o)
  BY <1>1, <1>2, DequeueLoad
<1>5. Load(q) \in Nat /\ Load(o) \in Nat
  BY <1>1, <1>4, RemainingParts, InitialDataOK
<1>6. o.pending \in {{}, {"send"}, {"receive"}}
  BY <1>1, AwaitedType DEF IoOK, InFlight, HandlerQueued, NotListening
<1> HIDE DEF o, q
<1>7. c \in Io /\ Load(c) <= Load(q) /\ (Unanswered(c) => Unanswered(q))
  <2>1. CASE q.pending = {}
    BY <1>4, <1>5, <2>1 DEF CancelSocket
  <2>2. ASSUME NEW k \in {"send", "receive"}, q.pending = {k}
        PROVE  c \in Io /\ Load(c) <= Load(q) /\ (Unanswered(c) => Unanswered(q))
    <3>1. /\ Failed(k) \in Handlers /\ Failed(k).kind = k /\ ~Failed(k).ok
      BY HandlerTypes DEF Failed
    <3>2. c = Complete(q, Failed(k))
      <4>1. CASE k = "send"
        <5>1. "send" \in q.pending /\ "receive" \notin q.pending
          BY <2>2, <4>1
        <5>2. "receive" \notin Complete(q, Failed("send")).pending
          BY <1>4, <3>1, <4>1, <5>1, CompleteIo
        <5> QED BY <4>1, <5>1, <5>2 DEF CancelSocket
      <4>2. CASE k = "receive"
        BY <2>2, <4>2 DEF CancelSocket
      <4> QED BY <4>1, <4>2
    <3>3. /\ Complete(q, Failed(k)) \in Io
          /\ Load(Complete(q, Failed(k))) = Load(q) - 1
          /\ Unanswered(Complete(q, Failed(k))) => Unanswered(q)
      BY <1>4, <2>2, <3>1, CompleteLoad
    <3> QED BY <1>5, <3>2, <3>3
  <2> QED BY <1>4, <1>6, <2>1, <2>2
<1>8. Load(c) < Load(o) /\ (Unanswered(c) => Unanswered(o))
  <2>1. Load(c) \in Nat
    BY <1>7, RemainingParts, InitialDataOK
  <2> HIDE DEF c
  <2> QED BY <1>4, <1>5, <1>7, <2>1
<1> HIDE DEF c
<1> QED BY <1>3, <1>7, <1>8, LoadDescends DEF o

\* So do a send that completes and a wait that ends.
LEMMA ClockDescends ==
  ASSUME IInv, NEW i \in Sessions, st[i] # "Accepting",
         SendCompletes(i) \/ TimerExpires(i)
  PROVE  Descends(i)
<1> DEFINE o == io[i]
<1>1. /\ io \in [Sessions -> Io] /\ o \in Io /\ IoOK(st[i], o) /\ st[i] \in States
      /\ Load(o) \in Nat
  BY RemainingParts, InitialDataOK DEF IInv, TypeOK, SessionOK
<1>2. CASE SendCompletes(i)
  <2> DEFINE h == Succeeded("send")
             c == Complete(o, h)
  <2>1. "send" \in o.pending /\ st'[i] = st[i] /\ fsm'[i] = fsm[i] /\ io'[i] = c
    BY <1>1, <1>2 DEF SendCompletes, Completes
  <2>2. h \in Handlers /\ h.kind = "send"
    BY HandlerTypes
  <2>3. o.pending = {h.kind}
    BY <1>1, <2>1, <2>2 DEF IoOK, InFlight, HandlerQueued, NotListening
  <2> HIDE DEF h, o
  <2>4. c \in Io /\ Load(c) = Load(o) - 1 /\ (Unanswered(c) => Unanswered(o))
    BY <1>1, <2>2, <2>3, CompleteLoad
  <2> HIDE DEF c
  <2>5. Load(c) < Load(o)
    BY <1>1, <2>4
  <2> QED BY <2>1, <2>4, <2>5, LoadDescends DEF o
<1>3. CASE TimerExpires(i)
  <2> DEFINE c == [o EXCEPT !.timer = FALSE, !.ready = Append(@, Succeeded("timer"))]
  <2>1. o.timer /\ st'[i] = st[i] /\ fsm'[i] = fsm[i] /\ io'[i] = c
    BY <1>1, <1>3 DEF TimerExpires
  <2> HIDE DEF o
  <2>2. c \in Io /\ Load(c) = Load(o) - 1 /\ (Unanswered(c) => Unanswered(o))
    BY <1>1, <2>1, ExpireLoad
  <2> HIDE DEF c
  <2>3. Load(c) < Load(o)
    BY <1>1, <2>2
  <2> QED BY <2>1, <2>2, <2>3, LoadDescends DEF o
<1> QED BY <1>2, <1>3

\* And so does what the machine does: a send is over, a retry is used up, or a
\* datagram has been answered, which may give all three retries back.
LEMMA SpendingDescends ==
  ASSUME IInv, NEW i \in Sessions, st[i] # "Accepting", Spends(i)
  PROVE  Descends(i)
<1> DEFINE o == io[i]
           r == fsm[i].resend_count
<1>1. PICK s \in States \ {"Accepting"}, e \in Data :
        Step(i, s, e, Left(i)) /\ Costs(i, s, e)
  BY DEF Spends
<1>2. /\ st \in [Sessions -> States] /\ fsm \in [Sessions -> Data]
      /\ io \in [Sessions -> Io] /\ o \in Io /\ IoOK(st[i], o) /\ st[i] \in States
      /\ fsm[i] \in Data
  BY DEF IInv, TypeOK, SessionOK
<1> DEFINE p == Enter(s, Left(i))
<1>3. st'[i] = s /\ fsm'[i] = e /\ io'[i] = p
  BY <1>1, <1>2 DEF Step
<1>4. o.ready # <<>> /\ Head(o.ready).kind # "timer"
  BY <1>1 DEF Costs, Runs, Front
<1>5. /\ ~Unanswered(p) /\ Load(p) <= Load(o) + 3
      /\ s \in Sending => Load(p) <= Load(o) + 1
  BY <1>2, <1>4, MoveLoad DEF Left
<1>6. Front(i).kind = "receive" /\ Front(i).ok => Unanswered(o)
  BY <1>2, <1>4, DequeueLoad DEF Front
<1>7. p \in Io
  <2>1. PICK kind \in {"send", "receive"} : Runs(i, kind)
    BY <1>1 DEF Costs
  <2>2. Left(i) \in Io /\ LeftOK(Left(i)) /\ Left(i).open
    BY <1>2, <2>1, RunsFacts
  <2> QED BY <2>2, EnterIo DEF IoOK
<1> HIDE DEF o, p
<1>8. /\ Load(o) \in Nat /\ Load(p) \in Nat
      /\ r \in 0 .. 3 /\ e.resend_count \in 0 .. 3
      /\ Remaining(st[i], fsm[i], o) =
           (IF Unanswered(o) THEN 24 ELSE 0) + 6 * (3 - r)
             + (IF st[i] \in Sending THEN 4 ELSE 0) + Load(o)
      /\ Remaining(s, e, p) =
           (IF Unanswered(p) THEN 24 ELSE 0) + 6 * (3 - e.resend_count)
             + (IF s \in Sending THEN 4 ELSE 0) + Load(p)
  BY <1>2, <1>7, RemainingParts
<1> HIDE DEF r
<1>9. Remaining(s, e, p) < Remaining(st[i], fsm[i], o)
  <2>1. CASE /\ Runs(i, "send") /\ st[i] \in Sending /\ s \in Waiting
             /\ e.resend_count = r
    <3>1. s \notin Sending
      BY <2>1 DEF Sending, Waiting
    <3>2. Remaining(s, e, p) = 6 * (3 - r) + Load(p)
      BY <1>5, <1>8, <2>1, <3>1
    <3>3. Remaining(st[i], fsm[i], o) >= 6 * (3 - r) + 4 + Load(o)
      BY <1>8, <2>1
    <3>4. Remaining(st[i], fsm[i], o) \in Int
      BY <1>8
    <3> QED BY <1>5, <1>8, <3>2, <3>3, <3>4
  <2>2. CASE s \in Sending /\ e.resend_count = r + 1
    <3>1. Remaining(s, e, p) = 6 * (3 - (r + 1)) + 4 + Load(p)
      BY <1>5, <1>8, <2>2
    <3>2. Remaining(st[i], fsm[i], o) >= 6 * (3 - r) + Load(o)
      BY <1>8
    <3>3. Remaining(st[i], fsm[i], o) \in Int
      BY <1>8
    <3> QED BY <1>5, <1>8, <2>2, <3>1, <3>2, <3>3
  <2>3. CASE Runs(i, "receive") /\ Front(i).ok /\ e.resend_count \in {0, r}
    <3>1. Unanswered(o)
      BY <1>6, <2>3 DEF Runs
    <3>2. Remaining(st[i], fsm[i], o) >= 24 + 6 * (3 - r) + Load(o)
      BY <1>8, <3>1
    <3>3. Remaining(s, e, p) <= 6 * (3 - e.resend_count) + 5 + Load(o)
      BY <1>5, <1>8
    <3>4. Remaining(st[i], fsm[i], o) \in Int /\ Remaining(s, e, p) \in Int
      BY <1>8
    <3> QED BY <1>8, <2>3, <3>2, <3>3, <3>4
  <2> QED BY <1>1, <2>1, <2>2, <2>3 DEF Costs, r
<1> QED BY <1>3, <1>9 DEF Descends, o

\* Every step of a busy session that is not the arrival of a datagram leaves it
\* less to do, or ends it: this is why a silent peer cannot hold a session, and
\* no interleaving of cancels, stale expiries and retries goes round for ever.
THEOREM SilentStepsAlwaysDescend == Spec => SilentStepsDescend
<1> DEFINE Silent(i) == (st[i] # "Accepting" /\ ~Arrival(i)) =>
                          \/ UNCHANGED <<st[i], fsm[i], io[i]>>
                          \/ st'[i] = "Accepting"
                          \/ Remaining(st'[i], fsm'[i], io'[i])
                               < Remaining(st[i], fsm[i], io[i])
<1>1. IInv /\ [Next]_vars => [\A i \in Sessions : Silent(i)]_vars
  <2> SUFFICES ASSUME IInv, Next, NEW i \in Sessions, st[i] # "Accepting",
                      ~Arrival(i)
               PROVE  \/ UNCHANGED <<st[i], fsm[i], io[i]>>
                      \/ st'[i] = "Accepting"
                      \/ Descends(i)
    BY DEF Descends
  <2>1. CASE Keeps(i)
    BY <2>1 DEF Keeps
  <2>2. CASE Ends(i)
    <3>1. st \in [Sessions -> States]
      BY DEF IInv, TypeOK
    <3> QED BY <2>2, <3>1 DEF Ends, Restart, Step
  <2> QED BY <2>1, <2>2, BusySteps, ExpiryDescends, ClockDescends, SpendingDescends
<1> QED BY <1>1, Invariance, PTL DEF Spec, SilentStepsDescend


\* What is left to do is bounded: a datagram to answer and three retries take at
\* most 46 steps, so this many follow an arrival before the next or the end.
THEOREM SilenceIsShort ==
  Spec => [](\A i \in Sessions : st[i] # "Accepting" =>
               Remaining(st[i], fsm[i], io[i]) \in 0 .. 46)
<1>1. ASSUME NEW s \in States \ {"Accepting"}, NEW d \in Data, NEW o, IoOK(s, o)
      PROVE  Remaining(s, d, o) \in 0 .. 46
  <2> DEFINE answer == IF Unanswered(o) THEN 24 ELSE 0
             again == IF s \in Sending THEN 4 ELSE 0
             n == Len(o.ready)
  <2>1. /\ o \in Io /\ n \in Nat /\ d.resend_count \in 0 .. 3 /\ Load(o) \in Nat
        /\ Remaining(s, d, o) = answer + 6 * (3 - d.resend_count) + again + Load(o)
    BY <1>1, RemainingParts DEF IoOK, Io
  <2>2. /\ Load(o) = Operations(o) + Wait(o) + n
        /\ Wait(o) = 2 * Armed(o) /\ Armed(o) \in {0, 1}
    BY DEF Load, Wait, Armed
  <2>3. CASE InFlight(s, o)
    <3>1. o.pending = {Awaited(s)} /\ Operations(o) = 2 /\ ~Unanswered(o)
      BY <2>3 DEF InFlight, Operations, Unanswered, Expiries
    <3>2. n + Armed(o) <= 2
      BY <2>1, <2>2, <2>3 DEF InFlight
    <3> HIDE DEF n
    <3>3. Load(o) <= 5
      BY <2>1, <2>2, <3>1, <3>2
    <3> QED BY <2>1, <3>1, <3>3
  <2>4. CASE HandlerQueued(s, o)
    <3>1. o.pending = {} /\ Operations(o) = 0
      BY <2>4 DEF HandlerQueued, Operations
    <3>2. n + Armed(o) <= 3
      BY <2>1, <2>2, <2>4 DEF HandlerQueued
    <3>3. Unanswered(o) => s \notin Sending
      <4>1. Unanswered(o) => Awaited(s) = "receive"
        BY <2>4 DEF HandlerQueued, Unanswered
      <4> QED BY <1>1, <4>1, AwaitedType
    <3> HIDE DEF n
    <3>4. Load(o) <= 4
      BY <2>1, <2>2, <3>1, <3>2
    <3>5. answer + again <= 24 /\ answer \in Nat /\ again \in Nat
      BY <3>3
    <3> HIDE DEF answer, again
    <3> QED BY <2>1, <3>4, <3>5
  <2> QED BY <1>1, <2>3, <2>4 DEF IoOK, NotListening
<1>2. IInv => \A i \in Sessions : st[i] # "Accepting" =>
                Remaining(st[i], fsm[i], io[i]) \in 0 .. 46
  BY <1>1 DEF IInv, TypeOK, SessionOK
<1> QED BY <1>2, Invariance, PTL


\* The events that the transition table has rows for, in the states it has
\* them for; an expiry is not given to the machine.
HasRow(i) ==
  \/ AcceptingFailed(i) \/ RequestReceived(i)
  \/ \E s \in Sending : PacketSent(i, s)
  \/ \E s \in Waiting : TimedOut(i, s) \/ PacketReceived(i, s)
  \/ Runs(i, "timer")

\* MSM never calls no_transition, which asserts: whatever handler is next, its
\* event has rows in the state the session is in when it runs.
THEOREM EveryEventHasARow ==
  Spec => [](\A i \in Sessions : (~crashed /\ io[i].ready # <<>>) => HasRow(i))
<1> DEFINE Rows == \A i \in Sessions : (~crashed /\ io[i].ready # <<>>) => HasRow(i)
<1>1. IInv => Rows
  <2> SUFFICES ASSUME IInv, NEW i \in Sessions, ~crashed, io[i].ready # <<>>
               PROVE  HasRow(i)
    OBVIOUS
  <2>1. io[i] \in Io /\ st[i] \in States
    BY DEF IInv, TypeOK
  <2>2. Front(i) \in Handlers
    BY <2>1, DequeueIo DEF Front
  <2>3. PICK kind \in {"accept", "send", "receive", "timer"} : Runs(i, kind)
    BY <2>2 DEF Handlers, Runs
  <2>4. CASE kind = "timer"
    BY <2>3, <2>4 DEF HasRow
  <2>5. CASE kind # "timer"
    <3>1. Awaited(st[i]) = kind
      BY <2>3, <2>5, RunsFacts
    <3>2. CASE kind = "accept"
      BY <2>1, <2>3, <3>1, <3>2, AwaitedType DEF HasRow, AcceptingFailed, RequestReceived
    <3>3. CASE kind = "send"
      BY <2>1, <2>3, <3>1, <3>3, AwaitedType DEF HasRow, PacketSent
    <3>4. CASE kind = "receive"
      BY <2>1, <2>3, <3>1, <3>4, AwaitedType DEF HasRow, TimedOut, PacketReceived
    <3> QED BY <2>5, <3>2, <3>3, <3>4
  <2> QED BY <2>4, <2>5
<1> QED BY <1>1, Invariance, PTL
=============================================================================
