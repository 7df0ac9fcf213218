--------------------------- MODULE SessionProofs ---------------------------
(* Theorems about Session, for every value of its constants.               *)
EXTENDS Session, TLAPS

-----------------------------------------------------------------------------
(* The inductive invariant on the data of a session.  Of a transfer: a     *)
(* stream that is open for reading has a file and stands within it, the    *)
(* block number has not gone round, and what was written is in order.  Of  *)
(* the session in state s: a free one holds the defaults, a recorded error *)
(* is being reported, one that ends with an error sends it, and otherwise  *)
(* send_packet is the datagram that the peer has to answer.                *)

StreamOK(d) ==
  d.file_stream = "read" => d.file \in Files /\ d.read_pos <= FileLength[d.file]
LapOK(d) == d.last_sent_block <= WordSize
WrittenOK(d) ==
  LET w == d.written
  IN  /\ \A k \in 1 .. Len(w) - 1 : w[k].word < w[k + 1].word
      /\ d.last_saved_block = IF Len(w) = 0 THEN 0 ELSE w[Len(w)].word
      /\ d.file_stream # "write" => w = <<>>
TransferOK(d) == d \in Data /\ StreamOK(d) /\ LapOK(d) /\ WrittenOK(d)

Fresh(d) ==
  [InitialData EXCEPT !.time_out = d.time_out, !.file_size = d.file_size,
                      !.agreed_remote_endpoint = d.agreed_remote_endpoint] = d
ErrorOK(s, d) ==
  /\ HasError(d) => s = "SendingError"
  /\ s = "SendingError" =>
       /\ d.send_packet.op = "ERROR"
       /\ d.send_packet.word = IF HasError(d) THEN d.last_error_code
                               ELSE IllegalTftpOperation

AckInFlight(d) == /\ d.send_packet.op = "ACK"
                  /\ d.send_packet.word = d.last_saved_block
                  /\ d.last_sent_block = 0 /\ d.file_stream # "read"
OackInFlight(d) == /\ d.send_packet.op = "OACK" /\ d.send_packet.word = 0
                   /\ d.last_sent_block = 0 /\ d.read_pos = 0
DataInFlight(d) ==
  LET p == d.send_packet
      before == (d.last_sent_block - 1) * d.agreed_block_size
  IN  /\ p.op = "DATA" /\ d.last_sent_block > 0
      /\ p.word = d.last_sent_block % WordSize
      /\ p.len = d.last_block_size
      /\ d.file_stream = "read" =>
           /\ p.pos = before /\ d.read_pos = before + p.len
           /\ \/ p.len = d.agreed_block_size
              \/ p.len < d.agreed_block_size /\ d.read_pos = FileLength[d.file]
PacketOK(s, d) ==
  /\ s \in {"SendingAck", "WaitingForData"} => AckInFlight(d)
  /\ s \in {"SendingData", "WaitingForAck"} =>
       AckInFlight(d) \/ OackInFlight(d) \/ DataInFlight(d)

DataOK(s, d) == /\ TransferOK(d)
                /\ s = "Accepting" => Fresh(d)
                /\ ErrorOK(s, d)
                /\ PacketOK(s, d)

\* What TransferOK depends on.
SameTransfer(e, d) ==
  /\ e.agreed_block_size = d.agreed_block_size
  /\ e.last_block_size = d.last_block_size
  /\ e.last_sent_block = d.last_sent_block
  /\ e.last_saved_block = d.last_saved_block
  /\ e.file_stream = d.file_stream /\ e.file = d.file
  /\ e.read_pos = d.read_pos /\ e.written = d.written

\* A change of other members leaves a transfer as sound as it was.
LEMMA SameTransferOK ==
  ASSUME NEW d, NEW e \in Data, TransferOK(d), SameTransfer(e, d)
  PROVE  TransferOK(e)
BY DEF TransferOK, StreamOK, LapOK, WrittenOK, SameTransfer

-----------------------------------------------------------------------------
(* What the actions of the rows do to the data.                            *)

\* The packets the server forms are packets.
LEMMA NewPacketType ==
  ASSUME NEW op \in {"DATA", "ACK", "ERROR", "OACK", "OTHER"}, NEW w \in Nat,
         NEW pos \in Nat, NEW len \in Nat, NEW options \in SUBSET OptionNames
  PROVE  LET p == NewPacket(op, w, pos, len, options)
         IN  /\ p \in Packet
             /\ p.op = op /\ p.word = w /\ p.pos = pos /\ p.len = len
BY DEF NewPacket, Packet

\* fstream::read stays within the file and within one block.
LEMMA BytesToReadBound ==
  ASSUME NEW d \in Data, StreamOK(d)
  PROVE  LET n == BytesToRead(d)
         IN  /\ n \in Nat
             /\ d.file_stream = "read" =>
                  /\ d.read_pos + n <= FileLength[d.file]
                  /\ \/ n = d.agreed_block_size
                     \/ n < d.agreed_block_size /\ d.read_pos + n = FileLength[d.file]
BY FileAssumption DEF BytesToRead, StreamOK, Data

\* A read that fails records DiskFull and changes nothing else; one that does
\* not counts one block and moves the stream by what was read.
LEMMA FormDataPacketData ==
  ASSUME NEW d \in Data, NEW bad \in BOOLEAN, StreamOK(d)
  PROVE  LET e == FormDataPacket(d, bad)
             n == BytesToRead(d)
         IN  /\ e \in Data
             /\ bad => SameTransfer(e, d) /\ e.last_error_code = DiskFull
             /\ ~bad =>
                  /\ e.last_error_code = d.last_error_code
                  /\ e.last_sent_block = d.last_sent_block + 1
                  /\ e.last_block_size = n /\ e.read_pos = d.read_pos + n
                  /\ e.send_packet.op = "DATA" /\ e.send_packet.len = n
                  /\ e.send_packet.pos = d.read_pos
                  /\ e.send_packet.word = (d.last_sent_block + 1) % WordSize
                  /\ e.agreed_block_size = d.agreed_block_size
                  /\ e.last_saved_block = d.last_saved_block
                  /\ e.file_stream = d.file_stream /\ e.file = d.file
                  /\ e.written = d.written
<1> DEFINE n == BytesToRead(d)
           w == (d.last_sent_block + 1) % WordSize
           p == NewPacket("DATA", w, d.read_pos, n, {})
           e == FormDataPacket(d, bad)
<1>1. n \in Nat
  BY BytesToReadBound
<1>2. p \in Packet /\ p.op = "DATA" /\ p.word = w /\ p.pos = d.read_pos /\ p.len = n
  <2>1. w \in Nat /\ d.read_pos \in Nat
    BY ProtocolAssumption DEF Data, ResendLimit, w
  <2>2. {} \in SUBSET OptionNames
    OBVIOUS
  <2> HIDE DEF n, w
  <2> QED BY <1>1, <2>1, <2>2, NewPacketType
<1> HIDE DEF w
<1>3. CASE bad
  <2>1. e = [d EXCEPT !.last_error_code = DiskFull]
    BY <1>3 DEF FormDataPacket
  <2>2. DiskFull \in {NoError, FileNotFound, DiskFull, IllegalTftpOperation}
    OBVIOUS
  <2> HIDE DEF e
  <2>3. e \in Data
    BY <2>1, <2>2 DEF Data
  <2>4. SameTransfer(e, d) /\ e.last_error_code = DiskFull
    BY <2>1 DEF Data, SameTransfer
  <2> QED BY <1>3, <2>3, <2>4 DEF e
<1>4. CASE ~bad
  <2>1. PICK b \in Nat : b = d.last_sent_block + 1
    BY DEF Data
  <2>2. PICK r \in Nat : r = d.read_pos + n
    BY <1>1 DEF Data
  <2>3. e = [d EXCEPT !.last_block_size = n, !.last_sent_block = b,
                      !.read_pos = r, !.send_packet = p]
    BY <1>4, <2>1, <2>2, Zenon DEF FormDataPacket, w
  <2> HIDE DEF n, p, e
  <2>4. e \in Data
    BY <2>3, <1>1, <1>2 DEF Data
  <2>5. /\ e.file_stream = d.file_stream /\ e.file = d.file
        /\ e.read_pos = r /\ e.last_sent_block = b /\ e.last_block_size = n
        /\ e.send_packet = p /\ e.last_error_code = d.last_error_code
        /\ e.agreed_block_size = d.agreed_block_size /\ e.written = d.written
        /\ e.last_saved_block = d.last_saved_block
    BY <2>3 DEF Data
  <2> QED BY <1>2, <1>4, <2>1, <2>2, <2>4, <2>5 DEF e, n, w
<1> QED BY <1>3, <1>4

\* An OACK starts a transfer: no block has been sent or saved.
LEMMA FormOackPacketData ==
  ASSUME NEW d \in Data
  PROVE  LET e == FormOackPacket(d)
         IN  /\ e \in Data
             /\ e.last_sent_block = 0 /\ e.last_saved_block = 0
             /\ e.last_error_code = d.last_error_code
             /\ e.file_stream = d.file_stream /\ e.file = d.file
             /\ e.read_pos = d.read_pos /\ e.written = d.written
             /\ e.send_packet.op = "OACK" /\ e.send_packet.word = 0
<1> DEFINE p == NewPacket("OACK", 0, 0, 0, d.use_options)
           e == FormOackPacket(d)
<1>1. d.use_options \in SUBSET OptionNames
  BY DEF Data
<1>2. p \in Packet /\ p.op = "OACK" /\ p.word = 0
  BY <1>1, NewPacketType
<1>3. e \in Data
  <2>1. p \in Packet
    BY <1>2
  <2> QED BY <2>1 DEF FormOackPacket, Data
<1>4. /\ e.last_sent_block = 0 /\ e.last_saved_block = 0
      /\ e.last_error_code = d.last_error_code
      /\ e.file_stream = d.file_stream /\ e.file = d.file
      /\ e.read_pos = d.read_pos /\ e.written = d.written
      /\ e.send_packet = p
  BY DEF FormOackPacket, Data
<1> HIDE DEF p, e
<1> QED BY <1>2, <1>3, <1>4 DEF e

\* The other three form a datagram and change nothing else.
LEMMA SendPacketData ==
  ASSUME NEW d \in Data, NEW p \in Packet
  PROVE  LET e == [d EXCEPT !.send_packet = p]
         IN  /\ e \in Data /\ SameTransfer(e, d) /\ e.send_packet = p
             /\ e.last_error_code = d.last_error_code
             /\ e.resend_count = d.resend_count
<1>1. [d EXCEPT !.send_packet = p] \in Data
  BY DEF Data
<1> QED BY <1>1 DEF Data, SameTransfer

\* FormAckPacket changes only the packet, to the ACK of the last saved block.
LEMMA FormAckPacketData ==
  ASSUME NEW d \in Data
  PROVE  LET e == FormAckPacket(d)
         IN  /\ e \in Data /\ SameTransfer(e, d)
             /\ e.last_error_code = d.last_error_code
             /\ e.resend_count = d.resend_count
             /\ e.send_packet.op = "ACK" /\ e.send_packet.word = d.last_saved_block
<1> DEFINE p == NewPacket("ACK", d.last_saved_block, 0, 0, {})
<1>1. p \in Packet /\ p.op = "ACK" /\ p.word = d.last_saved_block
  BY NewPacketType DEF Data
<1>2. FormAckPacket(d) = [d EXCEPT !.send_packet = p]
  BY DEF FormAckPacket
<1> HIDE DEF p
<1> QED BY <1>1, <1>2, SendPacketData

\* FormErrorPacket changes only the packet, to the error that is recorded.
LEMMA FormErrorPacketData ==
  ASSUME NEW d \in Data, HasError(d)
  PROVE  LET e == FormErrorPacket(d)
         IN  /\ e \in Data /\ SameTransfer(e, d)
             /\ e.resend_count = d.resend_count
             /\ e.last_error_code = d.last_error_code
             /\ e.send_packet.op = "ERROR"
             /\ e.send_packet.word = e.last_error_code
<1> DEFINE p == NewPacket("ERROR", d.last_error_code, 0, 0, {})
<1>1. d.last_error_code \in Nat
  BY DEF Data, HasError, NoError, FileNotFound, DiskFull, IllegalTftpOperation
<1>2. p \in Packet /\ p.op = "ERROR" /\ p.word = d.last_error_code
  BY <1>1, NewPacketType
<1>3. FormErrorPacket(d) = [d EXCEPT !.send_packet = p]
  BY DEF FormErrorPacket
<1> HIDE DEF p
<1> QED BY <1>2, <1>3, SendPacketData

\* FormProtocolErrorPacket changes only the packet.
LEMMA FormProtocolErrorPacketData ==
  ASSUME NEW d \in Data
  PROVE  LET e == FormProtocolErrorPacket(d)
         IN  /\ e \in Data /\ SameTransfer(e, d)
             /\ e.last_error_code = d.last_error_code
             /\ e.resend_count = d.resend_count /\ e.send_packet.op = "ERROR"
             /\ e.send_packet.word = IllegalTftpOperation
<1> DEFINE p == NewPacket("ERROR", IllegalTftpOperation, 0, 0, {})
<1>1. p \in Packet /\ p.op = "ERROR" /\ p.word = IllegalTftpOperation
  BY NewPacketType DEF IllegalTftpOperation
<1>2. FormProtocolErrorPacket(d) = [d EXCEPT !.send_packet = p]
  BY DEF FormProtocolErrorPacket
<1> HIDE DEF p
<1> QED BY <1>1, <1>2, SendPacketData

\* A write that succeeds appends p and takes its number.
LEMMA WriteDataData ==
  ASSUME NEW d \in Data, NEW p \in Datagrams, NEW fail \in BOOLEAN
  PROVE  LET e == WriteData(d, p, fail)
         IN  /\ e \in Data
             /\ e.last_sent_block = d.last_sent_block
             /\ e.resend_count = d.resend_count
             /\ e.file_stream = d.file_stream /\ e.file = d.file
             /\ e.read_pos = d.read_pos /\ e.send_packet = d.send_packet
             /\ fail => SameTransfer(e, d) /\ e.last_error_code = DiskFull
             /\ ~fail => /\ e.last_saved_block = p.word
                         /\ e.written = Append(d.written, p)
                         /\ e.last_error_code = d.last_error_code
<1> DEFINE e == WriteData(d, p, fail)
<1>1. CASE fail
  <2>1. e = [d EXCEPT !.last_error_code = DiskFull]
    BY <1>1 DEF WriteData
  <2> HIDE DEF e
  <2> QED BY <1>1, <2>1 DEF Data, SameTransfer, e
<1>2. CASE ~fail
  <2>1. p.len \in Nat /\ p.word \in Nat
    BY InputAssumption DEF Packet
  <2>2. Append(d.written, p) \in Seq(Datagrams)
    BY DEF Data
  <2>3. e = [d EXCEPT !.last_block_size = p.len, !.last_saved_block = p.word,
                      !.written = Append(d.written, p)]
    BY <1>2, Zenon DEF WriteData
  <2> HIDE DEF e
  <2> QED BY <1>2, <2>1, <2>2, <2>3 DEF Data, e
<1> QED BY <1>1, <1>2

\* TimeOut changes only the count of retries.
LEMMA TimeOutData ==
  ASSUME NEW d \in Data, CanRetry(d)
  PROVE  LET e == TimeOut(d)
         IN  /\ e \in Data /\ SameTransfer(e, d)
             /\ e.send_packet = d.send_packet
             /\ e.last_error_code = d.last_error_code
             /\ e.resend_count = d.resend_count + 1
<1>1. PICK c \in 0 .. ResendLimit : c = d.resend_count + 1
  BY DEF CanRetry, Data, ResendLimit
<1>2. TimeOut(d) = [d EXCEPT !.resend_count = c]
  BY <1>1, Zenon DEF TimeOut
<1> QED BY <1>1, <1>2 DEF Data, SameTransfer

\* ResetTimeOut changes only the count of retries.
LEMMA ResetTimeOutData ==
  ASSUME NEW d \in Data
  PROVE  LET e == ResetTimeOut(d)
         IN  /\ e \in Data /\ SameTransfer(e, d)
             /\ e.send_packet = d.send_packet
             /\ e.last_error_code = d.last_error_code
             /\ e.resend_count = 0
<1>1. 0 \in 0 .. ResendLimit
  BY DEF ResendLimit
<1> QED BY <1>1 DEF ResetTimeOut, Data, SameTransfer

\* The members of a new session, and what Reset leaves behind.
LEMMA InitialDataOK == InitialData \in Data /\ DataOK("Accepting", InitialData)
<1>1. 0 \in 0 .. ResendLimit /\ <<>> \in Seq(Datagrams)
  BY DEF ResendLimit
<1>2. DefaultBlockSize \in Nat \ {0} /\ DefaultTimeOut \in Nat
  BY ProtocolAssumption
<1>3. InitialData \in Data
  BY <1>1, <1>2 DEF InitialData, Data
<1>4. LapOK(InitialData)
  BY ProtocolAssumption DEF LapOK, InitialData
<1>5. Fresh(InitialData)
  BY DEF Fresh, InitialData
<1>6. WrittenOK(InitialData)
  BY DEF WrittenOK, InitialData
<1> QED BY <1>3, <1>4, <1>5, <1>6
        DEF DataOK, TransferOK, StreamOK, ErrorOK, PacketOK, HasError, InitialData

\* Two values of Data with the same fields are equal.
LEMMA DataExtensionality ==
  ASSUME NEW d \in Data, NEW e \in Data,
         e.agreed_remote_endpoint = d.agreed_remote_endpoint,
         e.agreed_block_size = d.agreed_block_size,
         e.last_block_size = d.last_block_size,
         e.last_sent_block = d.last_sent_block,
         e.last_saved_block = d.last_saved_block,
         e.resend_count = d.resend_count, e.send_packet = d.send_packet,
         e.last_error_code = d.last_error_code, e.use_options = d.use_options,
         e.time_out = d.time_out, e.file_size = d.file_size,
         e.file_stream = d.file_stream, e.file = d.file,
         e.read_pos = d.read_pos, e.written = d.written
  PROVE  e = d
<1> DEFINE Fields(x) ==
      [agreed_remote_endpoint |-> x.agreed_remote_endpoint,
       agreed_block_size |-> x.agreed_block_size,
       last_block_size |-> x.last_block_size,
       last_sent_block |-> x.last_sent_block,
       last_saved_block |-> x.last_saved_block,
       resend_count |-> x.resend_count, send_packet |-> x.send_packet,
       last_error_code |-> x.last_error_code, use_options |-> x.use_options,
       time_out |-> x.time_out, file_size |-> x.file_size,
       file_stream |-> x.file_stream, file |-> x.file,
       read_pos |-> x.read_pos, written |-> x.written]
<1>1. d = Fields(d) /\ e = Fields(e)
  BY DEF Data
<1> QED BY <1>1, Zenon

\* A session whose members have their first values is fresh.
LEMMA FreshFields ==
  ASSUME NEW d \in Data,
         d.agreed_block_size = DefaultBlockSize, d.last_block_size = 0,
         d.last_sent_block = 0, d.last_saved_block = 0, d.resend_count = 0,
         d.send_packet = None, d.last_error_code = NoError, d.use_options = {},
         d.file_stream = "closed", d.file = NoFile, d.read_pos = 0,
         d.written = <<>>
  PROVE  Fresh(d)
<1> DEFINE f == [InitialData EXCEPT !.time_out = d.time_out,
                   !.file_size = d.file_size,
                   !.agreed_remote_endpoint = d.agreed_remote_endpoint]
<1>1. f \in Data
  BY InitialDataOK DEF Data
<1>2. /\ f.agreed_remote_endpoint = d.agreed_remote_endpoint
      /\ f.time_out = d.time_out /\ f.file_size = d.file_size
      /\ f.agreed_block_size = DefaultBlockSize /\ f.last_block_size = 0
      /\ f.last_sent_block = 0 /\ f.last_saved_block = 0 /\ f.resend_count = 0
      /\ f.send_packet = None /\ f.last_error_code = NoError
      /\ f.use_options = {} /\ f.file_stream = "closed" /\ f.file = NoFile
      /\ f.read_pos = 0 /\ f.written = <<>>
  BY DEF InitialData
<1> HIDE DEF f
<1>3. /\ f.agreed_remote_endpoint = d.agreed_remote_endpoint
      /\ f.agreed_block_size = d.agreed_block_size
      /\ f.last_block_size = d.last_block_size
      /\ f.last_sent_block = d.last_sent_block
      /\ f.last_saved_block = d.last_saved_block
      /\ f.resend_count = d.resend_count /\ f.send_packet = d.send_packet
      /\ f.last_error_code = d.last_error_code /\ f.use_options = d.use_options
      /\ f.time_out = d.time_out /\ f.file_size = d.file_size
      /\ f.file_stream = d.file_stream /\ f.file = d.file
      /\ f.read_pos = d.read_pos /\ f.written = d.written
  BY <1>2, Zenon
<1>4. f = d
  BY <1>1, <1>3, DataExtensionality
<1> QED BY <1>4 DEF Fresh, f

\* Reset makes a session fresh, whatever it was.
LEMMA ResetDataOK ==
  ASSUME NEW d \in Data
  PROVE  DataOK("Accepting", ResetData(d))
<1> DEFINE e == ResetData(d)
<1>1. 0 \in 0 .. ResendLimit /\ <<>> \in Seq(Datagrams)
  BY DEF ResendLimit
<1>2. DefaultBlockSize \in Nat \ {0}
  BY ProtocolAssumption
<1>3. e \in Data
  BY <1>1, <1>2 DEF ResetData, Data
<1>4. Fresh(e)
  <2>1. /\ e.agreed_block_size = DefaultBlockSize /\ e.last_block_size = 0
        /\ e.last_sent_block = 0 /\ e.last_saved_block = 0 /\ e.resend_count = 0
        /\ e.send_packet = None /\ e.last_error_code = NoError
        /\ e.use_options = {} /\ e.file_stream = "closed" /\ e.file = NoFile
        /\ e.read_pos = 0 /\ e.written = <<>>
    BY DEF ResetData, Data
  <2> HIDE DEF e
  <2> QED BY <1>3, <2>1, FreshFields
<1>5. /\ e.file_stream = "closed" /\ e.last_error_code = NoError
      /\ e.last_sent_block = 0 /\ e.last_saved_block = 0 /\ e.written = <<>>
  BY DEF ResetData, Data
<1>6. LapOK(e)
  BY <1>5, ProtocolAssumption DEF LapOK
<1>7. WrittenOK(e)
  BY <1>5 DEF WrittenOK
<1> HIDE DEF e
<1> QED BY <1>3, <1>4, <1>5, <1>6, <1>7
        DEF DataOK, TransferOK, StreamOK, ErrorOK, PacketOK, HasError, e

-----------------------------------------------------------------------------
(* Serving a request, from a session that is free.                         *)

\* The transfer has not begun.
Unstarted(d) == /\ d \in Data /\ StreamOK(d)
                /\ d.last_sent_block = 0 /\ d.last_saved_block = 0
                /\ d.read_pos = 0 /\ d.written = <<>> /\ d.resend_count = 0

\* A transfer that has neither read nor written anything is sound.
LEMMA UnstartedOK == ASSUME NEW d, Unstarted(d) PROVE TransferOK(d)
BY ProtocolAssumption DEF Unstarted, TransferOK, LapOK, WrittenOK

\* A fresh session has not started a transfer.
LEMMA FreshUnstarted ==
  ASSUME NEW d \in Data, Fresh(d)
  PROVE  /\ Unstarted(d) /\ d.file_stream = "closed"
         /\ d.send_packet = None /\ d.last_error_code = NoError
BY DEF Fresh, InitialData, Unstarted, StreamOK

\* The types of a request.
LEMMA RequestFields ==
  ASSUME NEW r \in Requests
  PROVE  /\ r.mode \in BOOLEAN /\ r.path \in Files \cup {NoFile}
         /\ r.blksize # None => r.blksize \in Nat \ {0}
         /\ r.timeout # None => r.timeout \in Nat
BY InputAssumption DEF Request

\* OpenStream changes the stream and its file only, and opens existing files.
LEMMA OpenStreamData ==
  ASSUME NEW d \in Data, NEW r \in Requests, NEW how \in {"read", "write"},
         Unstarted(d), d.file_stream = "closed"
  PROVE  LET e == OpenStream(d, r, how)
         IN  Unstarted(e) /\ e.file_stream \in {"closed", "failed", how}
<1>1. CASE ~r.mode \/ r.path = NoFile
  BY <1>1 DEF OpenStream
<1>2. CASE ~(~r.mode \/ r.path = NoFile)
  <2> DEFINE how2 == IF r.path \in Unopenable THEN "failed" ELSE how
             e == OpenStream(d, r, how)
  <2>1. e = [d EXCEPT !.file = r.path, !.file_stream = how2]
    BY <1>2 DEF OpenStream
  <2>2. r.path \in Files /\ how2 \in {"read", "write", "failed"}
        /\ how2 \in {"failed", how}
    BY <1>2, RequestFields
  <2>3. FileLength[r.path] \in Nat
    BY <2>2, FileAssumption
  <2> HIDE DEF how2, e
  <2>4. e \in Data
    BY <2>1, <2>2 DEF Data
  <2>5. /\ e.file = r.path /\ e.file_stream = how2
        /\ e.read_pos = d.read_pos /\ e.written = d.written
        /\ e.last_sent_block = d.last_sent_block
        /\ e.last_saved_block = d.last_saved_block
        /\ e.resend_count = d.resend_count
    BY <2>1 DEF Data
  <2>6. StreamOK(e)
    BY <2>2, <2>3, <2>5 DEF StreamOK, Unstarted
  <2> QED BY <2>2, <2>4, <2>5, <2>6 DEF Unstarted, e
<1> QED BY <1>1, <1>2

\* What a request agrees on keeps the types of the members.
LEMMA AgreedData ==
  ASSUME NEW d \in Data, NEW used \in SUBSET OptionNames, NEW time \in Nat,
         NEW code \in {NoError, FileNotFound, IllegalTftpOperation},
         NEW size \in Nat \cup {None}, NEW blk \in Nat \ {0}
  PROVE  [d EXCEPT !.last_error_code = code, !.use_options = used,
                   !.file_size = size, !.time_out = time,
                   !.agreed_block_size = blk] \in Data
BY DEF Data

\* A read request is prepared: nothing has been read yet.
LEMMA InitServeReadRequestData ==
  ASSUME NEW d \in Data, NEW r \in Requests, NEW sized \in BOOLEAN,
         Unstarted(d), d.file_stream = "closed", d.last_error_code = NoError
  PROVE  LET e == InitServeReadRequest(d, r, sized)
         IN  Unstarted(e) /\ e.file_stream # "write"
<1> DEFINE g == OpenStream(d, r, "read")
           asked == r.mode /\ r.path # NoFile /\ r.tsize # None /\ sized
           used == {o \in OptionNames : \/ o = "tsize" /\ asked /\ r.tsize = 0
                                        \/ o = "timeout" /\ r.timeout # None
                                        \/ o = "blksize" /\ r.blksize # None}
           code == RequestError(d, r)
           size == IF asked THEN FileLength[r.path] ELSE g.file_size
           time == IF r.timeout # None THEN r.timeout ELSE g.time_out
           blk == IF r.blksize # None THEN r.blksize ELSE g.agreed_block_size
           e == InitServeReadRequest(d, r, sized)
<1>1. e = [g EXCEPT !.last_error_code = code, !.use_options = used,
                    !.file_size = size, !.time_out = time,
                    !.agreed_block_size = blk]
  BY Zenon DEF InitServeReadRequest
<1>2. Unstarted(g) /\ g \in Data /\ g.file_stream # "write"
  BY OpenStreamData DEF Unstarted
<1>3. used \in SUBSET OptionNames
  OBVIOUS
<1>4. code \in {NoError, FileNotFound, IllegalTftpOperation}
  BY DEF RequestError
<1> HIDE DEF g
<1>5. size \in Nat \cup {None}
  <2>1. CASE asked
    <3>1. r.path \in Files
      BY <2>1, RequestFields
    <3> QED BY <3>1, <2>1, FileAssumption
  <2>2. CASE ~asked
    <3>1. g.file_size \in Nat \cup {None}
      BY <1>2 DEF Data
    <3> QED BY <2>2, <3>1
  <2> QED BY <2>1, <2>2
<1>6. time \in Nat /\ blk \in Nat \ {0}
  BY <1>2, RequestFields DEF Data
<1> HIDE DEF used, code, size, time, blk, e
<1>7. e \in Data
  BY <1>1, <1>2, <1>3, <1>4, <1>5, <1>6, AgreedData
<1>8. /\ e.file_stream = g.file_stream /\ e.file = g.file
      /\ e.read_pos = g.read_pos /\ e.written = g.written
      /\ e.last_sent_block = g.last_sent_block
      /\ e.last_saved_block = g.last_saved_block
      /\ e.resend_count = g.resend_count
  BY <1>1, <1>2 DEF Data
<1> QED BY <1>2, <1>7, <1>8 DEF Unstarted, StreamOK, e

\* A write request is prepared: nothing is written yet.
LEMMA InitServeWriteRequestData ==
  ASSUME NEW d \in Data, NEW r \in Requests,
         Unstarted(d), d.file_stream = "closed", d.last_error_code = NoError
  PROVE  LET e == InitServeWriteRequest(d, r)
         IN  Unstarted(e) /\ e.file_stream # "read"
<1> DEFINE g == OpenStream(d, r, "write")
           code == RequestError(d, r)
           e == InitServeWriteRequest(d, r)
<1>1. e = [g EXCEPT !.last_error_code = code]
  BY DEF InitServeWriteRequest
<1>2. Unstarted(g) /\ g \in Data /\ g.file_stream # "read"
  BY OpenStreamData DEF Unstarted
<1>3. code \in {NoError, FileNotFound, IllegalTftpOperation}
  BY DEF RequestError
<1> HIDE DEF g, code, e
<1>4. e \in Data
  BY <1>1, <1>2, <1>3 DEF Data
<1>5. /\ e.file_stream = g.file_stream /\ e.file = g.file
      /\ e.read_pos = g.read_pos /\ e.written = g.written
      /\ e.last_sent_block = g.last_sent_block
      /\ e.last_saved_block = g.last_saved_block
      /\ e.resend_count = g.resend_count
  BY <1>1, <1>2 DEF Data
<1> QED BY <1>2, <1>4, <1>5 DEF Unstarted, StreamOK, e

-----------------------------------------------------------------------------
(* The transitions keep the invariant of the data.                         *)

\* The range of the block numbers is positive.
LEMMA WordFacts ==
  ASSUME NEW b \in Nat, b < WordSize
  PROVE  b % WordSize = b /\ (b + 1) % WordSize # b /\ (b + 1) % WordSize \in Nat
BY ProtocolAssumption DEF ResendLimit

\* HasError reads one member only.
LEMMA HasErrorDataFacts ==
  ASSUME NEW d
  PROVE  /\ d.last_error_code = DiskFull => HasError(d)
         /\ d.last_error_code = NoError <=> ~HasError(d)
BY DEF HasError, NoError, DiskFull

\* A datagram that is sent is then waited for.
LEMMA SentOK ==
  ASSUME NEW d
  PROVE  /\ DataOK("SendingData", d) => DataOK("WaitingForAck", d)
         /\ DataOK("SendingAck", d) => DataOK("WaitingForData", d)
         /\ DataOK("WaitingForData", d) => DataOK("WaitingForAck", d)
BY DEF DataOK, ErrorOK, PacketOK

\* A retransmission: the packet in flight stays the one of the transfer.
LEMMA ResentOK ==
  ASSUME NEW d, CanRetry(d)
  PROVE  /\ DataOK("WaitingForAck", d) => DataOK("SendingData", TimeOut(d))
         /\ DataOK("WaitingForData", d) => DataOK("SendingAck", TimeOut(d))
         /\ d \in Data => TimeOut(d).resend_count = d.resend_count + 1
<1> SUFFICES ASSUME d \in Data
             PROVE  /\ DataOK("WaitingForAck", d) => DataOK("SendingData", TimeOut(d))
                    /\ DataOK("WaitingForData", d) => DataOK("SendingAck", TimeOut(d))
                    /\ TimeOut(d).resend_count = d.resend_count + 1
  BY DEF DataOK, TransferOK
<1> DEFINE e == TimeOut(d)
<1>1. /\ e \in Data /\ SameTransfer(e, d) /\ e.send_packet = d.send_packet
      /\ e.last_error_code = d.last_error_code
      /\ e.resend_count = d.resend_count + 1
  BY TimeOutData
<1> HIDE DEF e
<1>2. TransferOK(d) => TransferOK(e)
  BY <1>1, SameTransferOK
<1>3. (HasError(e) <=> HasError(d)) /\ ((AckInFlight(d)) => AckInFlight(e))
      /\ (OackInFlight(d) => OackInFlight(e)) /\ (DataInFlight(d) => DataInFlight(e))
  BY <1>1 DEF HasError, SameTransfer, AckInFlight, OackInFlight, DataInFlight
<1>4. /\ DataOK("WaitingForAck", d) => DataOK("SendingData", e)
      /\ DataOK("WaitingForData", d) => DataOK("SendingAck", e)
  BY <1>2, <1>3 DEF DataOK, ErrorOK, PacketOK
<1> QED BY <1>1, <1>4 DEF e

\* The peer is told of an error that was recorded, or of one in the protocol.
LEMMA ReportedOK ==
  ASSUME NEW d, TransferOK(d), HasError(d)
  PROVE  LET e == FormErrorPacket(d)
         IN  DataOK("SendingError", e) /\ e.send_packet.op = "ERROR"
<1> DEFINE e == FormErrorPacket(d)
<1>1. /\ e \in Data /\ SameTransfer(e, d) /\ e.send_packet.op = "ERROR"
      /\ e.last_error_code = d.last_error_code
      /\ e.send_packet.word = e.last_error_code
  BY FormErrorPacketData DEF TransferOK
<1> HIDE DEF e
<1>2. TransferOK(e) /\ HasError(e)
  BY <1>1, SameTransferOK DEF HasError
<1> QED BY <1>1, <1>2 DEF DataOK, ErrorOK, PacketOK, e

\* A session that refuses a packet sends an error it has not recorded.
LEMMA RefusedOK ==
  ASSUME NEW s \in Waiting, NEW d, DataOK(s, d)
  PROVE  LET e == FormProtocolErrorPacket(d)
         IN  DataOK("SendingError", e) /\ e.send_packet # d.send_packet
<1> DEFINE e == FormProtocolErrorPacket(d)
<1>1. /\ e \in Data /\ SameTransfer(e, d) /\ e.send_packet.op = "ERROR"
      /\ e.send_packet.word = IllegalTftpOperation
      /\ e.last_error_code = d.last_error_code
  BY FormProtocolErrorPacketData DEF DataOK, TransferOK
<1> HIDE DEF e
<1>2. TransferOK(e)
  BY <1>1, SameTransferOK DEF DataOK
<1>3. ~HasError(e)
  BY <1>1 DEF DataOK, ErrorOK, HasError, Waiting
<1>4. d.send_packet.op # "ERROR"
  BY DEF DataOK, PacketOK, AckInFlight, OackInFlight, DataInFlight, Waiting
<1> QED BY <1>1, <1>2, <1>3, <1>4 DEF DataOK, ErrorOK, PacketOK, e

\* An ACK that is not old is of the block in flight, which the number on the
\* wire tells from every other.
LEMMA CurrentAck ==
  ASSUME NEW d, DataOK("WaitingForAck", d), NEW p \in Datagrams,
         HasAckReceived(d, p), ~IsOldAck(d, p)
  PROVE  /\ d.last_sent_block \in Nat /\ d.last_sent_block < WordSize
         /\ p.word = d.last_sent_block
         /\ DataInFlight(d) \/ OackInFlight(d) => d.send_packet.word = p.word
<1>1. d.last_sent_block \in Nat /\ p.word \in Nat /\ p.word < WordSize
  BY InputAssumption DEF DataOK, TransferOK, Data, Packet
<1>2. p.word = d.last_sent_block
  BY <1>1 DEF HasAckReceived, IsOldAck
<1>3. d.last_sent_block % WordSize = d.last_sent_block
  BY <1>1, <1>2, WordFacts
<1> QED BY <1>1, <1>2, <1>3 DEF DataInFlight, OackInFlight

\* The block that is read is the next one, when the stream stands before it.
LEMMA BlockOK ==
  ASSUME NEW d, TransferOK(d), d.last_sent_block < WordSize, ~HasError(d),
         d.file_stream = "read" =>
           d.read_pos = d.last_sent_block * d.agreed_block_size
  PROVE  LET e == ResetTimeOut(FormDataPacket(d, FALSE))
         IN  /\ DataOK("SendingData", e) /\ ~HasError(FormDataPacket(d, FALSE))
             /\ e.send_packet.op = "DATA" /\ e.resend_count = 0
             /\ e.send_packet.word = (d.last_sent_block + 1) % WordSize
<1> DEFINE f == FormDataPacket(d, FALSE)
           e == ResetTimeOut(f)
           n == BytesToRead(d)
<1>1. d \in Data /\ StreamOK(d) /\ d.last_sent_block \in Nat /\ d.read_pos \in Nat
      /\ d.agreed_block_size \in Nat
  BY DEF TransferOK, Data
<1>2. /\ n \in Nat
      /\ d.file_stream = "read" =>
           /\ d.read_pos + n <= FileLength[d.file]
           /\ \/ n = d.agreed_block_size
              \/ n < d.agreed_block_size /\ d.read_pos + n = FileLength[d.file]
  BY <1>1, BytesToReadBound
<1>3. /\ f \in Data
      /\ f.last_error_code = d.last_error_code
      /\ f.last_sent_block = d.last_sent_block + 1
      /\ f.last_block_size = n /\ f.read_pos = d.read_pos + n
      /\ f.send_packet.op = "DATA" /\ f.send_packet.len = n
      /\ f.send_packet.pos = d.read_pos
      /\ f.send_packet.word = (d.last_sent_block + 1) % WordSize
      /\ f.agreed_block_size = d.agreed_block_size
      /\ f.last_saved_block = d.last_saved_block
      /\ f.file_stream = d.file_stream /\ f.file = d.file
      /\ f.written = d.written
  BY <1>1, FormDataPacketData
<1> HIDE DEF f, n
<1>4. /\ e \in Data /\ SameTransfer(e, f) /\ e.send_packet = f.send_packet
      /\ e.last_error_code = f.last_error_code /\ e.resend_count = 0
  BY <1>3, ResetTimeOutData
<1> HIDE DEF e
<1>5. TransferOK(f)
  <2>1. StreamOK(f)
    BY <1>1, <1>2, <1>3 DEF StreamOK
  <2>2. LapOK(f)
    BY <1>1, <1>3, ProtocolAssumption DEF LapOK
  <2>3. WrittenOK(f)
    BY <1>3 DEF WrittenOK, TransferOK
  <2> QED BY <1>3, <2>1, <2>2, <2>3 DEF TransferOK
<1>6. TransferOK(e)
  BY <1>4, <1>5, SameTransferOK
<1>7. ~HasError(f) /\ ~HasError(e)
  BY <1>3, <1>4 DEF HasError
<1>8. DataInFlight(e)
  <2>1. /\ e.last_sent_block = d.last_sent_block + 1
        /\ e.agreed_block_size = d.agreed_block_size
        /\ e.last_block_size = n /\ e.read_pos = d.read_pos + n
        /\ e.file_stream = d.file_stream /\ e.file = d.file
    BY <1>3, <1>4 DEF SameTransfer
  <2>2. (e.last_sent_block - 1) * e.agreed_block_size
          = d.last_sent_block * d.agreed_block_size
    BY <1>1, <2>1
  <2>3. e.last_sent_block > 0
    BY <1>1, <2>1
  <2>4. /\ e.send_packet.op = "DATA" /\ e.send_packet.len = n
        /\ e.send_packet.pos = d.read_pos
        /\ e.send_packet.word = (d.last_sent_block + 1) % WordSize
    BY <1>3, <1>4
  <2> QED BY <1>2, <2>1, <2>2, <2>3, <2>4 DEF DataInFlight
<1> QED BY <1>3, <1>4, <1>6, <1>7, <1>8 DEF DataOK, ErrorOK, PacketOK, e, f

\* The current ACK of a block that is not the last sends the next one.
LEMMA NextBlockOK ==
  ASSUME NEW d, DataOK("WaitingForAck", d), NEW p \in Datagrams,
         HasIntermediateAckReceived(d, p)
  PROVE  LET f == FormDataPacket(d, FALSE)
             e == ResetTimeOut(f)
         IN  ~HasError(f) /\ DataOK("SendingData", e) /\ e.send_packet # d.send_packet
<1> DEFINE b == d.last_sent_block
           blk == d.agreed_block_size
           e == ResetTimeOut(FormDataPacket(d, FALSE))
<1>1. /\ b \in Nat /\ b < WordSize /\ TransferOK(d) /\ ~HasError(d)
      /\ HasMoreToSend(d) /\ blk \in Nat
  <2>1. b < WordSize /\ HasMoreToSend(d)
    BY CurrentAck DEF HasIntermediateAckReceived
  <2> QED BY <2>1 DEF DataOK, ErrorOK, TransferOK, Data
<1>2. AckInFlight(d) \/ OackInFlight(d) \/ DataInFlight(d)
  BY DEF DataOK, PacketOK
<1>3. d.file_stream = "read" => d.read_pos = b * blk
  <2>1. CASE b = 0
    BY <1>1, <1>2, <2>1 DEF AckInFlight, OackInFlight, DataInFlight
  <2>2. CASE b # 0
    <3>1. DataInFlight(d) /\ d.last_block_size = blk
      BY <1>1, <1>2, <2>2 DEF AckInFlight, OackInFlight, HasMoreToSend
    <3>2. (b - 1) * blk + blk = b * blk
      BY <1>1
    <3> HIDE DEF b, blk
    <3> QED BY <3>1, <3>2 DEF DataInFlight, b, blk
  <2> QED BY <2>1, <2>2
<1>4. /\ DataOK("SendingData", e) /\ ~HasError(FormDataPacket(d, FALSE))
      /\ e.send_packet.op = "DATA" /\ e.send_packet.word = (b + 1) % WordSize
  BY <1>1, <1>3, BlockOK
<1>5. (b + 1) % WordSize # b /\ b % WordSize = b
  BY <1>1, WordFacts
<1>6. e.send_packet # d.send_packet
  BY <1>2, <1>4, <1>5 DEF AckInFlight, OackInFlight, DataInFlight
<1> QED BY <1>4, <1>6

\* A read that fails is reported.
LEMMA ReadFailureOK ==
  ASSUME NEW d, TransferOK(d)
  PROVE  LET f == FormDataPacket(d, TRUE)
         IN  HasError(f) /\ TransferOK(f)
<1>1. /\ FormDataPacket(d, TRUE) \in Data /\ SameTransfer(FormDataPacket(d, TRUE), d)
      /\ FormDataPacket(d, TRUE).last_error_code = DiskFull
  BY FormDataPacketData DEF TransferOK
<1> QED BY <1>1, SameTransferOK, HasErrorDataFacts

\* A block that is not old is written behind the others and acknowledged.
LEMMA SavedOK ==
  ASSUME NEW d, DataOK("WaitingForData", d), NEW p \in Datagrams,
         ~IsOldData(d, p), NEW fail \in BOOLEAN, d.file_stream # "write" => fail
  PROVE  LET f == WriteData(d, p, fail)
             e == FormAckPacket(f)
         IN  /\ TransferOK(f)
             /\ HasError(f) <=> fail
             /\ ~fail => DataOK("SendingAck", e) /\ e.send_packet # d.send_packet
<1> DEFINE f == WriteData(d, p, fail)
           e == FormAckPacket(f)
<1>1. /\ d \in Data /\ TransferOK(d) /\ ~HasError(d) /\ AckInFlight(d)
      /\ d.last_saved_block \in Nat
      /\ p.word \in Nat /\ p.word > d.last_saved_block
  BY InputAssumption DEF DataOK, ErrorOK, PacketOK, TransferOK, IsOldData, Data, Packet
<1>2. /\ f \in Data
      /\ f.last_sent_block = d.last_sent_block
      /\ f.file_stream = d.file_stream /\ f.file = d.file
      /\ f.read_pos = d.read_pos /\ f.send_packet = d.send_packet
      /\ fail => SameTransfer(f, d) /\ f.last_error_code = DiskFull
      /\ ~fail => /\ f.last_saved_block = p.word
                  /\ f.written = Append(d.written, p)
                  /\ f.last_error_code = d.last_error_code
  BY <1>1, WriteDataData
<1> HIDE DEF f
<1>3. HasError(f) <=> fail
  BY <1>1, <1>2, HasErrorDataFacts DEF HasError
<1>4. CASE fail
  BY <1>1, <1>2, <1>3, <1>4, SameTransferOK DEF f
<1>5. CASE ~fail
  <2>1. WrittenOK(f)
    <3> DEFINE w == d.written
               v == Append(w, p)
    <3>1. w \in Seq(Datagrams) /\ Len(w) \in Nat /\ Len(v) = Len(w) + 1
          /\ v[Len(w) + 1] = p /\ \A k \in 1 .. Len(w) : v[k] = w[k]
      BY <1>1 DEF Data
    <3>2. /\ \A k \in 1 .. Len(w) - 1 : w[k].word < w[k + 1].word
          /\ Len(w) # 0 => w[Len(w)].word = d.last_saved_block
      BY <1>1 DEF TransferOK, WrittenOK
    <3> HIDE DEF w, v
    <3>3. ASSUME NEW k \in 1 .. Len(v) - 1
          PROVE  v[k].word < v[k + 1].word
      <4>1. CASE k = Len(w)
        <5>1. v[k] = w[Len(w)] /\ v[k + 1] = p /\ Len(w) # 0
          BY <3>1, <3>3, <4>1
        <5> QED BY <1>1, <3>2, <5>1
      <4>2. CASE k # Len(w)
        <5>1. k \in 1 .. Len(w) - 1 /\ v[k] = w[k] /\ v[k + 1] = w[k + 1]
          BY <3>1, <3>3, <4>2
        <5> QED BY <3>2, <5>1
      <4> QED BY <4>1, <4>2
    <3>4. f.written = v /\ f.last_saved_block = v[Len(v)].word /\ Len(v) # 0
      BY <1>2, <1>5, <3>1 DEF v, w
    <3>5. f.file_stream = "write"
      BY <1>2, <1>5
    <3> QED BY <3>3, <3>4, <3>5 DEF WrittenOK
  <2>2. TransferOK(f)
    BY <1>1, <1>2, <2>1 DEF TransferOK, StreamOK, LapOK
  <2>3. /\ e \in Data /\ SameTransfer(e, f) /\ e.last_error_code = f.last_error_code
        /\ e.send_packet.op = "ACK" /\ e.send_packet.word = f.last_saved_block
    BY <1>2, FormAckPacketData
  <2> HIDE DEF e
  <2>4. TransferOK(e) /\ ~HasError(e)
    BY <1>3, <1>5, <2>2, <2>3, SameTransferOK DEF HasError
  <2>5. AckInFlight(e)
    BY <1>1, <1>2, <2>3 DEF AckInFlight, SameTransfer
  <2>6. e.send_packet # d.send_packet
    BY <1>1, <1>2, <1>5, <2>3 DEF AckInFlight
  <2> QED BY <1>3, <1>5, <2>2, <2>4, <2>5, <2>6 DEF DataOK, ErrorOK, PacketOK, e, f
<1> QED BY <1>4, <1>5

\* The transfers that a request begins: an OACK, a first block, or an ACK.
LEMMA FirstOackOK ==
  ASSUME NEW d, Unstarted(d), d.file_stream # "write", ~HasError(d)
  PROVE  LET f == FormOackPacket(d)
         IN  ~HasError(f) /\ DataOK("SendingData", ResetTimeOut(f))
<1> DEFINE f == FormOackPacket(d)
           e == ResetTimeOut(f)
<1>1. /\ f \in Data /\ f.last_sent_block = 0 /\ f.last_saved_block = 0
      /\ f.last_error_code = d.last_error_code
      /\ f.file_stream = d.file_stream /\ f.file = d.file
      /\ f.read_pos = d.read_pos /\ f.written = d.written
      /\ f.send_packet.op = "OACK" /\ f.send_packet.word = 0
  BY FormOackPacketData DEF Unstarted
<1> HIDE DEF f
<1>2. /\ e \in Data /\ SameTransfer(e, f) /\ e.send_packet = f.send_packet
      /\ e.last_error_code = f.last_error_code
  BY <1>1, ResetTimeOutData
<1> HIDE DEF e
<1>3. TransferOK(f)
  BY <1>1, ProtocolAssumption
     DEF Unstarted, TransferOK, StreamOK, LapOK, WrittenOK
<1>4. TransferOK(e) /\ ~HasError(f) /\ ~HasError(e)
  BY <1>1, <1>2, <1>3, SameTransferOK DEF HasError
<1>5. OackInFlight(e)
  BY <1>1, <1>2 DEF OackInFlight, SameTransfer, Unstarted
<1> QED BY <1>4, <1>5 DEF DataOK, ErrorOK, PacketOK, e, f

\* The first block of a download without options.
LEMMA FirstBlockOK ==
  ASSUME NEW d, Unstarted(d), ~HasError(d)
  PROVE  LET f == FormDataPacket(d, FALSE)
         IN  ~HasError(f) /\ DataOK("SendingData", ResetTimeOut(f))
<1>1. d.read_pos = d.last_sent_block * d.agreed_block_size
  BY DEF Unstarted, Data
<1>2. d.last_sent_block < WordSize
  BY ProtocolAssumption DEF Unstarted, ResendLimit
<1> QED BY <1>1, <1>2, UnstartedOK, BlockOK

\* The ACK that accepts a write request.
LEMMA FirstAckOK ==
  ASSUME NEW d, Unstarted(d), d.file_stream # "read", ~HasError(d)
  PROVE  DataOK("SendingAck", FormAckPacket(d))
<1> DEFINE e == FormAckPacket(d)
<1>1. /\ e \in Data /\ SameTransfer(e, d) /\ e.last_error_code = d.last_error_code
      /\ e.send_packet.op = "ACK" /\ e.send_packet.word = d.last_saved_block
  BY FormAckPacketData DEF Unstarted
<1> HIDE DEF e
<1>2. TransferOK(e) /\ ~HasError(e)
  BY <1>1, UnstartedOK, SameTransferOK DEF HasError
<1>3. AckInFlight(e)
  BY <1>1 DEF AckInFlight, SameTransfer, Unstarted
<1> QED BY <1>2, <1>3 DEF DataOK, ErrorOK, PacketOK, e

\* The free session that receives a request: its data once the endpoint has
\* been stored.
LEMMA RequestedOK ==
  ASSUME NEW d, DataOK("Accepting", d), NEW from \in Endpoints
  PROVE  LET e == [d EXCEPT !.agreed_remote_endpoint = from]
         IN  /\ DataOK("Accepting", e) /\ Unstarted(e)
             /\ e.file_stream = "closed" /\ e.last_error_code = NoError
<1> DEFINE e == [d EXCEPT !.agreed_remote_endpoint = from]
<1>1. d \in Data /\ Fresh(d) /\ ~HasError(d)
  BY DEF DataOK, ErrorOK, TransferOK
<1>2. /\ Unstarted(d) /\ d.file_stream = "closed" /\ d.last_error_code = NoError
      /\ d.agreed_block_size = DefaultBlockSize /\ d.last_block_size = 0
      /\ d.use_options = {} /\ d.file = NoFile /\ d.send_packet = None
  BY <1>1, FreshUnstarted DEF Fresh, InitialData
<1>3. e \in Data
  BY <1>1 DEF Data
<1>4. /\ e.file_stream = "closed" /\ e.last_error_code = NoError
      /\ e.agreed_block_size = DefaultBlockSize /\ e.last_block_size = 0
      /\ e.use_options = {} /\ e.file = NoFile /\ e.send_packet = None
      /\ e.last_sent_block = 0 /\ e.last_saved_block = 0
      /\ e.read_pos = 0 /\ e.written = <<>> /\ e.resend_count = 0
  BY <1>1, <1>2 DEF Unstarted, Data
<1> HIDE DEF e
<1>5. Fresh(e)
  BY <1>3, <1>4, FreshFields
<1>6. Unstarted(e)
  BY <1>3, <1>4 DEF Unstarted, StreamOK
<1>7. TransferOK(e) /\ ~HasError(e)
  BY <1>4, <1>6, UnstartedOK, HasErrorDataFacts
<1> QED BY <1>4, <1>5, <1>6, <1>7 DEF DataOK, ErrorOK, PacketOK, e

-----------------------------------------------------------------------------
(* The inductive invariant on what Asio holds for a session in state s.    *)
(* Three cases: the operation is in flight and only expiries are queued;   *)
(* its handler is queued, among expiries; or a free session does not       *)
(* listen.  Of the expiries at most one may follow the handler, which is   *)
(* what makes the queue harmless to the state that comes next.             *)

Expiries(q) == \A k \in 1 .. Len(q) : q[k].kind = "timer"
Armed(o) == IF o.timer THEN 1 ELSE 0
InFlight(s, o) == /\ o.pending = {Awaited(s)}
                  /\ Expiries(o.ready)
                  /\ Len(o.ready) + Armed(o) <= IF s \in Waiting THEN 2 ELSE 1
HandlerQueued(s, o) ==
  /\ o.pending = {}
  /\ \E p \in 1 .. Len(o.ready) :
       /\ o.ready[p].kind = Awaited(s)
       /\ \A k \in 1 .. Len(o.ready) : k # p => o.ready[k].kind = "timer"
       /\ Len(o.ready) - p + Armed(o) <= IF s \in Waiting THEN 1 ELSE 0
       /\ Len(o.ready) + Armed(o) <= IF s \in Waiting THEN 3 ELSE 2
NotListening(s, o) == /\ s = "Accepting" /\ o.pending = {}
                      /\ Expiries(o.ready) /\ Len(o.ready) <= 1
IoOK(s, o) == /\ o \in Io
              /\ o.open <=> s # "Accepting"
              /\ o.timer => s \in Waiting
              /\ InFlight(s, o) \/ HandlerQueued(s, o) \/ NotListening(s, o)

\* Between the exit of one state and the entry of the next.
LeftOK(o) == /\ o \in Io /\ o.pending = {} /\ ~o.timer
             /\ Expiries(o.ready) /\ Len(o.ready) <= 1

\* Every state waits for one kind of operation.
LEMMA AwaitedType ==
  ASSUME NEW s \in States
  PROVE  /\ Awaited(s) \in {"accept", "send", "receive"}
         /\ Awaited(s) = "accept" <=> s = "Accepting"
         /\ Awaited(s) = "send" <=> s \in Sending
         /\ Awaited(s) = "receive" <=> s \in Waiting
BY DEF Awaited, States, Sending, Waiting

\* What is left in the queue when its front is taken.
LEMMA DequeueIo ==
  ASSUME NEW o \in Io, o.ready # <<>>
  PROVE  /\ Head(o.ready) = o.ready[1] /\ Head(o.ready) \in Handlers
         /\ Dequeue(o) \in Io
         /\ Dequeue(o).ready \in Seq(Handlers)
         /\ Len(o.ready) \in Nat /\ Len(o.ready) >= 1
         /\ Len(Dequeue(o).ready) = Len(o.ready) - 1
         /\ \A k \in 1 .. Len(o.ready) - 1 : Dequeue(o).ready[k] = o.ready[k + 1]
         /\ Dequeue(o).open = o.open /\ Dequeue(o).pending = o.pending
         /\ Dequeue(o).timer = o.timer
<1>1. o.ready \in Seq(Handlers)
  BY DEF Io
<1>2. /\ Tail(o.ready) \in Seq(Handlers) /\ Len(Tail(o.ready)) = Len(o.ready) - 1
      /\ \A k \in 1 .. Len(o.ready) - 1 : Tail(o.ready)[k] = o.ready[k + 1]
      /\ Head(o.ready) = o.ready[1] /\ Head(o.ready) \in Handlers
      /\ Len(o.ready) \in Nat /\ Len(o.ready) >= 1
  BY <1>1
<1>3. /\ Dequeue(o) \in Io /\ Dequeue(o).ready = Tail(o.ready)
      /\ Dequeue(o).open = o.open /\ Dequeue(o).pending = o.pending
      /\ Dequeue(o).timer = o.timer
  BY <1>2 DEF Dequeue, Io
<1> QED BY <1>2, <1>3

\* An operation in flight completes: its handler is the last of the queue.
LEMMA CompleteIo ==
  ASSUME NEW o \in Io, NEW h \in Handlers
  PROVE  /\ Complete(o, h) \in Io
         /\ Len(o.ready) \in Nat
         /\ Len(Complete(o, h).ready) = Len(o.ready) + 1
         /\ \A k \in 1 .. Len(o.ready) : Complete(o, h).ready[k] = o.ready[k]
         /\ Complete(o, h).ready[Len(o.ready) + 1] = h
         /\ Complete(o, h).pending = o.pending \ {h.kind}
         /\ Complete(o, h).open = o.open /\ Complete(o, h).timer = o.timer
<1>1. o.ready \in Seq(Handlers)
  BY DEF Io
<1> DEFINE q == Append(o.ready, h)
<1>2. /\ q \in Seq(Handlers) /\ Len(o.ready) \in Nat /\ Len(q) = Len(o.ready) + 1
      /\ \A k \in 1 .. Len(o.ready) : q[k] = o.ready[k]
      /\ q[Len(o.ready) + 1] = h
  BY <1>1
<1> HIDE DEF q
<1>3. Complete(o, h) = [o EXCEPT !.pending = o.pending \ {h.kind}, !.ready = q]
  BY DEF Complete, q
<1>4. /\ Complete(o, h) \in Io /\ Complete(o, h).ready = q
      /\ Complete(o, h).pending = o.pending \ {h.kind}
      /\ Complete(o, h).open = o.open /\ Complete(o, h).timer = o.timer
  BY <1>2, <1>3 DEF Io
<1> QED BY <1>2, <1>4

\* The handlers that the environment queues are handlers.
LEMMA HandlerTypes ==
  /\ \A k \in {"accept", "receive", "send"} :
        Failed(k) \in Handlers /\ Failed(k).kind = k
  /\ \A k \in {"send", "timer"} : Succeeded(k) \in Handlers /\ Succeeded(k).kind = k
  /\ \A r \in Requests, e \in Endpoints :
        Received("accept", r, e) \in Handlers /\ Received("accept", r, e).kind = "accept"
  /\ \A p \in Datagrams, e \in Endpoints :
        Received("receive", p, e) \in Handlers /\ Received("receive", p, e).kind = "receive"
BY DEF Failed, Succeeded, Received, Handlers

\* The handler of the operation a state waits for is taken and the state left.
LEMMA LeaveIo ==
  ASSUME NEW s \in States, NEW o \in Io, IoOK(s, o),
         o.ready # <<>>, Head(o.ready).kind # "timer"
  PROVE  LET l == Exit(s, Dequeue(o))
         IN  LeftOK(l) /\ l.open = o.open /\ Head(o.ready).kind = Awaited(s)
<1> DEFINE q == Dequeue(o)
<1>1. /\ Head(o.ready) = o.ready[1]
      /\ q \in Io /\ Len(o.ready) \in Nat /\ Len(o.ready) >= 1
      /\ Len(q.ready) = Len(o.ready) - 1
      /\ \A k \in 1 .. Len(o.ready) - 1 : q.ready[k] = o.ready[k + 1]
      /\ q.open = o.open /\ q.pending = o.pending /\ q.timer = o.timer
  BY DequeueIo
<1>2. o.ready[1].kind # "timer" /\ 1 \in 1 .. Len(o.ready)
  BY <1>1
<1>3. HandlerQueued(s, o)
  BY <1>2 DEF IoOK, InFlight, NotListening, Expiries
<1>4. PICK p \in 1 .. Len(o.ready) :
        /\ o.ready[p].kind = Awaited(s)
        /\ \A k \in 1 .. Len(o.ready) : k # p => o.ready[k].kind = "timer"
        /\ Len(o.ready) - p + Armed(o) <= IF s \in Waiting THEN 1 ELSE 0
  BY <1>3 DEF HandlerQueued
<1>5. p = 1
  BY <1>2, <1>4
<1>6. Armed(o) \in {0, 1}
  BY DEF Armed
<1>7. Len(q.ready) <= 1
  BY <1>1, <1>4, <1>5, <1>6
<1>8. Expiries(q.ready)
  BY <1>1, <1>4, <1>5 DEF Expiries
<1>9. q.pending = {} /\ (q.timer => s # "Accepting")
  BY <1>1, <1>3 DEF HandlerQueued, IoOK, Waiting
<1> HIDE DEF q
<1>10. CASE s = "Accepting"
  BY <1>1, <1>4, <1>5, <1>7, <1>8, <1>9, <1>10 DEF Exit, LeftOK, q
<1>11. CASE s # "Accepting"
  <2>1. Exit(s, q) = [q EXCEPT !.timer = FALSE]
    BY <1>9, <1>11 DEF Exit, CancelSocket, CancelTimer
  <2>2. /\ Exit(s, q) \in Io /\ Exit(s, q).pending = {} /\ ~Exit(s, q).timer
        /\ Exit(s, q).ready = q.ready /\ Exit(s, q).open = q.open
    BY <2>1, <1>1, <1>9 DEF Io
  <2> QED BY <2>2, <1>1, <1>4, <1>5, <1>7, <1>8 DEF LeftOK, q
<1> QED BY <1>10, <1>11

\* Opening the socket of a session that has been left.
LEMMA OpenIo ==
  ASSUME NEW o \in Io, LeftOK(o)
  PROVE  LeftOK(OpenSocket(o)) /\ OpenSocket(o).open
BY DEF LeftOK, OpenSocket, Io

\* Closing the socket of a session that has been left.
LEMMA CloseIo ==
  ASSUME NEW o \in Io, LeftOK(o)
  PROVE  LeftOK(CloseSocket(o)) /\ ~CloseSocket(o).open
<1>1. CloseSocket(o) = [[o EXCEPT !.timer = FALSE] EXCEPT !.open = FALSE]
  BY DEF LeftOK, CloseSocket, CancelSocket, CancelTimer
<1> QED BY <1>1 DEF LeftOK, Io

\* The entry action starts the operation the state waits for, and no other.
LEMMA EnterIo ==
  ASSUME NEW s \in States, NEW o \in Io, LeftOK(o), o.open <=> s # "Accepting"
  PROVE  /\ IoOK(s, Enter(s, o))
         /\ listener # "open" => "accept" \notin Enter(s, o).pending
<1>1. o.ready \in Seq(Handlers) /\ Len(o.ready) \in Nat
  BY DEF Io
<1>2. CASE s \in Sending
  <2>1. Enter(s, o) = [o EXCEPT !.pending = {"send"}]
    BY <1>2 DEF Enter, EnterSending, LeftOK
  <2> DEFINE e == Enter(s, o)
  <2>2. /\ e \in Io /\ e.pending = {"send"} /\ e.ready = o.ready
        /\ e.timer = o.timer /\ e.open = o.open
    BY <2>1 DEF Io
  <2>3. s # "Accepting" /\ s \notin Waiting /\ Awaited(s) = "send"
    BY <1>2 DEF Sending, Waiting, Awaited
  <2> HIDE DEF e
  <2>4. InFlight(s, e)
    BY <1>1, <2>2, <2>3 DEF InFlight, LeftOK, Armed
  <2> QED BY <2>2, <2>3, <2>4 DEF IoOK, LeftOK, e
<1>3. CASE s \in Waiting
  <2>1. Enter(s, o) = [o EXCEPT !.pending = {"receive"}, !.timer = TRUE]
    BY <1>3 DEF Enter, EnterReceive, LeftOK, Waiting, Sending
  <2> DEFINE e == Enter(s, o)
  <2>2. /\ e \in Io /\ e.pending = {"receive"} /\ e.ready = o.ready
        /\ e.timer /\ e.open = o.open
    BY <2>1 DEF Io
  <2>3. s # "Accepting" /\ Awaited(s) = "receive"
    BY <1>3 DEF Sending, Waiting, Awaited
  <2> HIDE DEF e
  <2>4. InFlight(s, e)
    BY <1>1, <1>3, <2>2, <2>3 DEF InFlight, LeftOK, Armed
  <2> QED BY <1>3, <2>2, <2>3, <2>4 DEF IoOK, LeftOK, e
<1>4. CASE s = "Accepting"
  <2> DEFINE e == Enter(s, o)
  <2>1. s \notin Sending /\ s \notin Waiting /\ Awaited(s) = "accept"
    BY <1>4 DEF Sending, Waiting, Awaited
  <2>2. CASE listener = "open"
    <3>1. e = [o EXCEPT !.pending = {"accept"}]
      BY <2>1, <2>2 DEF Enter, EnterAccepting, LeftOK
    <3>2. /\ e \in Io /\ e.pending = {"accept"} /\ e.ready = o.ready
          /\ e.timer = o.timer /\ e.open = o.open
      BY <3>1 DEF Io
    <3> HIDE DEF e
    <3>3. InFlight(s, e)
      BY <1>1, <2>1, <3>2 DEF InFlight, LeftOK, Armed
    <3> QED BY <1>4, <2>2, <3>2, <3>3 DEF IoOK, LeftOK, e
  <2>3. CASE listener # "open"
    <3>1. e = o
      BY <2>1, <2>3 DEF Enter, EnterAccepting
    <3>2. NotListening(s, o)
      BY <1>4 DEF NotListening, LeftOK
    <3> QED BY <1>4, <3>1, <3>2 DEF IoOK, LeftOK
  <2> QED BY <2>2, <2>3
<1> QED BY <1>2, <1>3, <1>4 DEF States, Sending, Waiting

\* The operation in flight completes, with any outcome: the network, a
\* cancel from the timer, or Stop.
LEMMA CompleteKeepsIo ==
  ASSUME NEW s \in States, NEW o \in Io, IoOK(s, o), NEW h \in Handlers,
         h.kind \in o.pending
  PROVE  IoOK(s, Complete(o, h)) /\ Complete(o, h).pending = {}
<1> DEFINE c == Complete(o, h)
           n == Len(o.ready)
<1>1. /\ c \in Io /\ n \in Nat /\ Len(c.ready) = n + 1
      /\ \A k \in 1 .. n : c.ready[k] = o.ready[k]
      /\ c.ready[n + 1] = h
      /\ c.pending = o.pending \ {h.kind}
      /\ c.open = o.open /\ c.timer = o.timer
  BY CompleteIo
<1>2. InFlight(s, o)
  BY DEF IoOK, HandlerQueued, NotListening
<1>3. h.kind = Awaited(s) /\ c.pending = {}
  BY <1>1, <1>2 DEF InFlight
<1> HIDE DEF c, n
<1>4. n + 1 \in 1 .. Len(c.ready)
  BY <1>1
<1>5. \A k \in 1 .. Len(c.ready) : k # n + 1 => c.ready[k].kind = "timer"
  BY <1>1, <1>2 DEF InFlight, Expiries, n
<1>6. Armed(c) = Armed(o) /\ Armed(o) \in {0, 1}
  BY <1>1 DEF Armed
<1>7. n + Armed(o) <= IF s \in Waiting THEN 2 ELSE 1
  BY <1>2 DEF InFlight, n
<1>8. s \notin Waiting => Armed(o) = 0
  BY DEF IoOK, Armed
<1>9. HandlerQueued(s, c)
  <2>1. Len(c.ready) - (n + 1) + Armed(c) <= IF s \in Waiting THEN 1 ELSE 0
    BY <1>1, <1>6, <1>8
  <2>2. Len(c.ready) + Armed(c) <= IF s \in Waiting THEN 3 ELSE 2
    BY <1>1, <1>6, <1>7
  <2> QED BY <1>1, <1>3, <1>4, <1>5, <2>1, <2>2 DEF HandlerQueued
<1> QED BY <1>1, <1>3, <1>9 DEF IoOK, c

\* A timer that expires adds the one expiry for which the queue has room.
LEMMA ExpireIo ==
  ASSUME NEW s \in States, NEW o \in Io, IoOK(s, o), o.timer
  PROVE  IoOK(s, [o EXCEPT !.timer = FALSE,
                           !.ready = Append(@, Succeeded("timer"))])
<1> DEFINE h == Succeeded("timer")
           n == Len(o.ready)
           c == [o EXCEPT !.timer = FALSE, !.ready = Append(@, h)]
<1>1. h \in Handlers /\ h.kind = "timer"
  BY HandlerTypes
<1> HIDE DEF h
<1>2. /\ Append(o.ready, h) \in Seq(Handlers) /\ n \in Nat
      /\ Len(Append(o.ready, h)) = n + 1
      /\ \A k \in 1 .. n : Append(o.ready, h)[k] = o.ready[k]
      /\ Append(o.ready, h)[n + 1] = h
  BY <1>1 DEF Io
<1>3. /\ c \in Io /\ c.ready = Append(o.ready, h)
      /\ c.pending = o.pending /\ c.open = o.open /\ ~c.timer
  BY <1>2 DEF Io
<1> HIDE DEF c, n
<1>4. s \in Waiting /\ s # "Accepting" /\ Armed(o) = 1 /\ Armed(c) = 0
  BY <1>3 DEF IoOK, Armed, Waiting
<1>5. CASE InFlight(s, o)
  <2>1. Expiries(c.ready)
    BY <1>1, <1>2, <1>3, <1>5 DEF InFlight, Expiries, n
  <2>2. InFlight(s, c)
    BY <1>2, <1>3, <1>4, <1>5, <2>1 DEF InFlight, n
  <2> QED BY <1>3, <1>4, <2>2 DEF IoOK, c, h
<1>6. CASE HandlerQueued(s, o)
  <2>1. PICK p \in 1 .. n :
          /\ o.ready[p].kind = Awaited(s)
          /\ \A k \in 1 .. n : k # p => o.ready[k].kind = "timer"
          /\ n - p + Armed(o) <= 1
          /\ n + Armed(o) <= 3
    BY <1>4, <1>6 DEF HandlerQueued, n
  <2>2. /\ p \in 1 .. Len(c.ready) /\ c.ready[p].kind = Awaited(s)
        /\ \A k \in 1 .. Len(c.ready) : k # p => c.ready[k].kind = "timer"
    BY <1>1, <1>2, <1>3, <2>1
  <2>3. Len(c.ready) - p + Armed(c) <= 1 /\ Len(c.ready) + Armed(c) <= 3
    BY <1>2, <1>3, <1>4, <2>1
  <2>4. HandlerQueued(s, c)
    BY <1>3, <1>4, <1>6, <2>2, <2>3 DEF HandlerQueued
  <2> QED BY <1>3, <1>4, <2>4 DEF IoOK, c, h
<1> QED BY <1>4, <1>5, <1>6 DEF IoOK, NotListening

\* An expiry at the front of the queue is taken.
LEMMA DropExpiryIo ==
  ASSUME NEW s \in States, NEW o \in Io, IoOK(s, o),
         o.ready # <<>>, Head(o.ready).kind = "timer"
  PROVE  IoOK(s, Dequeue(o)) /\ Dequeue(o).pending = o.pending
<1> DEFINE q == Dequeue(o)
           n == Len(o.ready)
<1>1. /\ Head(o.ready) = o.ready[1]
      /\ q \in Io /\ n \in Nat /\ n >= 1
      /\ Len(q.ready) = n - 1
      /\ \A k \in 1 .. n - 1 : q.ready[k] = o.ready[k + 1]
      /\ q.open = o.open /\ q.pending = o.pending /\ q.timer = o.timer
  BY DequeueIo
<1> HIDE DEF q, n
<1>2. Armed(q) = Armed(o) /\ Armed(o) \in {0, 1}
  BY <1>1 DEF Armed
<1>3. CASE InFlight(s, o)
  <2>1. Expiries(q.ready)
    BY <1>1, <1>3 DEF InFlight, Expiries, n
  <2>2. InFlight(s, q)
    BY <1>1, <1>2, <1>3, <2>1 DEF InFlight, n
  <2> QED BY <1>1, <2>2 DEF IoOK, q
<1>4. CASE HandlerQueued(s, o)
  <2>1. PICK p \in 1 .. n :
          /\ o.ready[p].kind = Awaited(s)
          /\ \A k \in 1 .. n : k # p => o.ready[k].kind = "timer"
          /\ n - p + Armed(o) <= IF s \in Waiting THEN 1 ELSE 0
          /\ n + Armed(o) <= IF s \in Waiting THEN 3 ELSE 2
    BY <1>4 DEF HandlerQueued, n
  <2>2. p # 1
    BY <1>1, <2>1, AwaitedType
  <2>3. /\ p - 1 \in 1 .. Len(q.ready) /\ q.ready[p - 1].kind = Awaited(s)
        /\ \A k \in 1 .. Len(q.ready) : k # p - 1 => q.ready[k].kind = "timer"
    <3>1. p - 1 \in 1 .. n - 1 /\ (p - 1) + 1 = p
      BY <1>1, <2>2
    <3>2. q.ready[p - 1] = o.ready[p]
      BY <1>1, <3>1
    <3>3. ASSUME NEW k \in 1 .. n - 1, k # p - 1
          PROVE  q.ready[k].kind = "timer"
      <4>1. k + 1 \in 1 .. n /\ k + 1 # p /\ q.ready[k] = o.ready[k + 1]
        BY <1>1, <3>3
      <4> QED BY <2>1, <4>1
    <3> QED BY <1>1, <2>1, <3>1, <3>2, <3>3
  <2>4. /\ Len(q.ready) - (p - 1) + Armed(q) <= IF s \in Waiting THEN 1 ELSE 0
        /\ Len(q.ready) + Armed(q) <= IF s \in Waiting THEN 3 ELSE 2
    BY <1>1, <1>2, <2>1
  <2>5. HandlerQueued(s, q)
    BY <1>1, <1>4, <2>3, <2>4 DEF HandlerQueued
  <2> QED BY <1>1, <2>5 DEF IoOK, q
<1>5. CASE NotListening(s, o)
  <2>1. Expiries(q.ready) /\ Len(q.ready) <= 1
    BY <1>1, <1>5 DEF NotListening, Expiries, n
  <2> QED BY <1>1, <1>5, <2>1 DEF IoOK, NotListening, q
<1> QED BY <1>3, <1>4, <1>5 DEF IoOK

\* A stale expiry makes the operation in flight complete with an error.
LEMMA CancelIo ==
  ASSUME NEW s \in States, NEW o \in Io, IoOK(s, o)
  PROVE  IoOK(s, CancelSocket(o)) /\ CancelSocket(o).pending \subseteq o.pending
<1>1. o.pending \in {{}, {Awaited(s)}}
  BY DEF IoOK, InFlight, HandlerQueued, NotListening
<1>2. CASE "send" \in o.pending
  <2>1. "receive" \notin Complete(o, Failed("send")).pending
    BY <1>2, HandlerTypes, CompleteKeepsIo
  <2>2. CancelSocket(o) = Complete(o, Failed("send"))
    BY <1>2, <2>1, <1>1 DEF CancelSocket
  <2> QED BY <1>2, <2>2, HandlerTypes, CompleteKeepsIo
<1>3. CASE "receive" \in o.pending /\ "send" \notin o.pending
  <2>1. CancelSocket(o) = Complete(o, Failed("receive"))
    BY <1>3 DEF CancelSocket
  <2> QED BY <1>3, <2>1, HandlerTypes, CompleteKeepsIo
<1>4. CASE "receive" \notin o.pending /\ "send" \notin o.pending
  BY <1>4 DEF CancelSocket
<1> QED BY <1>2, <1>3, <1>4

-----------------------------------------------------------------------------
(* The inductive invariant: the types, what the data and the Asio of every *)
(* session are worth in its state, how often its datagram may have been    *)
(* sent, and that a stopped server accepts nothing.                        *)

Budget(s, d) == IF s = "Accepting" THEN 0 ELSE d.resend_count + 1
SessionOK(i) == /\ DataOK(st[i], fsm[i]) /\ IoOK(st[i], io[i])
                /\ attempts[i] <= Budget(st[i], fsm[i])
IInv == TypeOK /\ (\A i \in Sessions : SessionOK(i)) /\ StopIsFinal

CrashTyped == crashed' \in BOOLEAN

\* A step that changes the data and the Asio of one session only.
LEMMA LocalInv ==
  ASSUME IInv, NEW i \in Sessions, NEW d, NEW o, CrashTyped,
         DataOK(st[i], d), d.resend_count = fsm[i].resend_count,
         IoOK(st[i], o), o.pending \subseteq io[i].pending,
         fsm' = [fsm EXCEPT ![i] = d], io' = [io EXCEPT ![i] = o],
         UNCHANGED <<st, listener, attempts>>
  PROVE  IInv'
<1>1. d \in Data /\ o \in Io
  BY DEF DataOK, TransferOK, IoOK
<1>2. TypeOK'
  BY <1>1 DEF IInv, TypeOK, CrashTyped
<1>3. ASSUME NEW j \in Sessions
      PROVE  SessionOK(j)' /\ io'[j].pending \subseteq io[j].pending
  <2>1. CASE j = i
    BY <2>1 DEF IInv, TypeOK, SessionOK, Budget
  <2>2. CASE j # i
    BY <2>2 DEF IInv, TypeOK, SessionOK, Budget
  <2> QED BY <2>1, <2>2
<1>4. StopIsFinal'
  BY <1>3 DEF IInv, StopIsFinal
<1> QED BY <1>2, <1>3, <1>4 DEF IInv

\* A step that changes the Asio of one session only.
LEMMA IoInv ==
  ASSUME IInv, NEW i \in Sessions, NEW o, CrashTyped,
         IoOK(st[i], o), o.pending \subseteq io[i].pending,
         io' = [io EXCEPT ![i] = o],
         UNCHANGED <<st, fsm, listener, attempts>>
  PROVE  IInv'
<1> DEFINE d == fsm[i]
<1>1. fsm' = [fsm EXCEPT ![i] = d]
  <2>1. fsm \in [Sessions -> Data] /\ fsm' = fsm
    BY DEF IInv, TypeOK
  <2> QED BY <2>1
<1>2. DataOK(st[i], d) /\ d.resend_count = fsm[i].resend_count
  BY DEF IInv, SessionOK
<1>3. UNCHANGED <<st, listener, attempts>>
  OBVIOUS
<1> HIDE DEF d
<1> QED BY <1>1, <1>2, <1>3, LocalInv

\* The ways in which a transition stays within the budget: it restarts the
\* session or leaves Accepting, sends another datagram, sends none, or has
\* counted a retry.
WithinBudget(i, s, d) ==
  \/ s = "Accepting" \/ st[i] = "Accepting"
  \/ s \notin Waiting /\ d.send_packet # fsm[i].send_packet
  \/ s \in Waiting /\ d = fsm[i]
  \/ d.resend_count = fsm[i].resend_count + 1

\* Such a transition keeps the count of transmissions within the budget.
LEMMA TransmissionsBound ==
  ASSUME IInv, NEW i \in Sessions, NEW s \in States, NEW d \in Data,
         WithinBudget(i, s, d)
  PROVE  Transmissions(i, s, d) \in Nat /\ Transmissions(i, s, d) <= Budget(s, d)
<1>1. attempts[i] \in Nat /\ attempts[i] <= Budget(st[i], fsm[i])
  BY DEF IInv, TypeOK, SessionOK
<1>2. fsm[i] \in Data
  BY DEF IInv, TypeOK
<1>3. d.resend_count \in Nat /\ fsm[i].resend_count \in Nat
  <2>1. \A x \in Data : x.resend_count \in Nat
    BY DEF Data, ResendLimit
  <2> QED BY <1>2, <2>1
<1>4. attempts[i] <= fsm[i].resend_count + 1 /\ (st[i] = "Accepting" => attempts[i] = 0)
  BY <1>1, <1>3 DEF Budget
<1>5. CASE s = "Accepting"
  BY <1>5 DEF Transmissions, Budget
<1>6. CASE s \in Waiting /\ s # "Accepting"
  <2>1. Transmissions(i, s, d) = attempts[i] /\ Budget(s, d) = d.resend_count + 1
    BY <1>6 DEF Transmissions, Budget
  <2> QED BY <1>1, <1>3, <1>4, <1>6, <2>1 DEF WithinBudget
<1>7. CASE s \notin Waiting /\ s # "Accepting"
  <2>1. /\ Transmissions(i, s, d) = IF d.send_packet = fsm[i].send_packet
                                    THEN attempts[i] + 1 ELSE 1
        /\ Budget(s, d) = d.resend_count + 1
    BY <1>7 DEF Transmissions, Budget
  <2> QED BY <1>1, <1>3, <1>4, <1>7, <2>1 DEF WithinBudget
<1> QED BY <1>5, <1>6, <1>7

\* A transition of the state machine of one session.
LEMMA StepInv ==
  ASSUME IInv, NEW i \in Sessions, NEW s \in States, NEW d, NEW o \in Io,
         DataOK(s, d), LeftOK(o), o.open <=> s # "Accepting",
         WithinBudget(i, s, d), Step(i, s, d, o)
  PROVE  IInv'
<1> DEFINE e == Enter(s, o)
           t == Transmissions(i, s, d)
<1>1. IoOK(s, e) /\ (listener # "open" => "accept" \notin e.pending)
  BY EnterIo
<1>2. t \in Nat /\ t <= Budget(s, d)
  BY TransmissionsBound DEF DataOK, TransferOK
<1>3. /\ st' = [st EXCEPT ![i] = s] /\ fsm' = [fsm EXCEPT ![i] = d]
      /\ io' = [io EXCEPT ![i] = e] /\ attempts' = [attempts EXCEPT ![i] = t]
      /\ listener' = listener /\ crashed' = crashed
  BY DEF Step
<1> HIDE DEF e, t
<1>4. d \in Data /\ e \in Io
  BY <1>1 DEF DataOK, TransferOK, IoOK
<1>5. TypeOK'
  BY <1>2, <1>3, <1>4 DEF IInv, TypeOK
<1>6. ASSUME NEW j \in Sessions
      PROVE  /\ SessionOK(j)'
             /\ listener' = "stopped" => "accept" \notin io'[j].pending
  <2>1. CASE j = i
    BY <1>1, <1>2, <1>3, <2>1 DEF IInv, TypeOK, SessionOK, Budget
  <2>2. CASE j # i
    BY <1>3, <2>2 DEF IInv, TypeOK, SessionOK, Budget, StopIsFinal
  <2> QED BY <2>1, <2>2
<1>7. StopIsFinal'
  BY <1>6 DEF StopIsFinal
<1> QED BY <1>5, <1>6, <1>7 DEF IInv

\* What is known of session i when the handler it waits for runs.
LEMMA RunsFacts ==
  ASSUME IInv, NEW i \in Sessions, NEW kind \in {"accept", "send", "receive"},
         Runs(i, kind)
  PROVE  /\ st[i] \in States /\ DataOK(st[i], fsm[i])
         /\ Left(i) \in Io /\ LeftOK(Left(i)) /\ (Left(i).open <=> st[i] # "Accepting")
         /\ Awaited(st[i]) = kind /\ Front(i) \in Handlers /\ Front(i).kind = kind
<1>1. /\ st[i] \in States /\ DataOK(st[i], fsm[i]) /\ IoOK(st[i], io[i])
      /\ io[i] \in Io
  BY DEF IInv, TypeOK, SessionOK
<1>2. io[i].ready # <<>> /\ Head(io[i].ready).kind = kind /\ kind # "timer"
  BY DEF Runs, Front
<1>3. LeftOK(Left(i)) /\ Left(i).open = io[i].open /\ Awaited(st[i]) = kind
  BY <1>1, <1>2, LeaveIo DEF Left
<1>4. Front(i) \in Handlers
  BY <1>1, <1>2, DequeueIo DEF Front
<1> QED BY <1>1, <1>2, <1>3, <1>4 DEF LeftOK, IoOK, Front

\* The message of a handler that succeeded.
LEMMA FrontMessage ==
  ASSUME NEW h \in Handlers, h.ok
  PROVE  /\ h.kind = "accept" => h.msg \in Requests /\ h.from \in Endpoints
         /\ h.kind = "receive" => h.msg \in Datagrams /\ h.from \in Endpoints
BY DEF Handlers

\* Reset, from whatever state.
LEMMA RestartInv ==
  ASSUME IInv, NEW i \in Sessions, NEW kind \in {"accept", "send", "receive"},
         Runs(i, kind), Restart(i)
  PROVE  IInv'
<1>1. Left(i) \in Io /\ LeftOK(Left(i)) /\ fsm[i] \in Data
  BY RunsFacts DEF DataOK, TransferOK
<1>2. LeftOK(CloseSocket(Left(i))) /\ ~CloseSocket(Left(i)).open
  BY <1>1, CloseIo
<1>3. DataOK("Accepting", ResetData(fsm[i]))
  BY <1>1, ResetDataOK
<1>4. "Accepting" \in States /\ CloseSocket(Left(i)) \in Io
  BY <1>2 DEF States, LeftOK
<1> QED BY <1>2, <1>3, <1>4, StepInv DEF Restart, WithinBudget

\* A transition between two busy states.
LEMMA BusyInv ==
  ASSUME IInv, NEW i \in Sessions, NEW kind \in {"send", "receive"},
         Runs(i, kind), NEW s \in States \ {"Accepting"}, NEW d,
         DataOK(s, d), WithinBudget(i, s, d), Step(i, s, d, Left(i))
  PROVE  IInv'
<1>1. Left(i) \in Io /\ LeftOK(Left(i)) /\ Left(i).open
  <2>1. /\ Left(i) \in Io /\ LeftOK(Left(i)) /\ (Left(i).open <=> st[i] # "Accepting")
        /\ Awaited(st[i]) = kind
    BY RunsFacts
  <2> QED BY <2>1 DEF Awaited, Sending, Waiting
<1> QED BY <1>1, StepInv

-----------------------------------------------------------------------------
(* Every action preserves the invariant: first Accepting.                  *)

\* What is known of a free session when its accept completes.
LEMMA FreeFacts ==
  ASSUME IInv, NEW i \in Sessions, st[i] = "Accepting", Runs(i, "accept")
  PROVE  /\ DataOK("Accepting", fsm[i]) /\ ~HasError(fsm[i])
         /\ Left(i) = Dequeue(io[i]) /\ Left(i) \in Io /\ LeftOK(Left(i))
         /\ IoOK(st[i], Dequeue(io[i])) /\ Dequeue(io[i]).pending = {}
         /\ Front(i).ok =>
              /\ Front(i).msg \in Requests /\ Front(i).from \in Endpoints
              /\ DataOK("Accepting", Requested(i)) /\ Unstarted(Requested(i))
              /\ Requested(i).file_stream = "closed"
              /\ Requested(i).last_error_code = NoError
<1>1. /\ DataOK("Accepting", fsm[i]) /\ Left(i) \in Io /\ LeftOK(Left(i))
      /\ (Left(i).open <=> st[i] # "Accepting")
      /\ Front(i) \in Handlers /\ Front(i).kind = "accept"
  BY RunsFacts
<1>2. Left(i) = Dequeue(io[i])
  BY DEF Left, Exit
<1>3. IoOK(st[i], Dequeue(io[i])) /\ Dequeue(io[i]).pending = {}
  BY <1>1, <1>2 DEF IoOK, NotListening, LeftOK
<1>4. ~HasError(fsm[i])
  BY <1>1 DEF DataOK, ErrorOK
<1>5. ASSUME Front(i).ok
      PROVE  /\ Front(i).msg \in Requests /\ Front(i).from \in Endpoints
             /\ DataOK("Accepting", Requested(i)) /\ Unstarted(Requested(i))
             /\ Requested(i).file_stream = "closed"
             /\ Requested(i).last_error_code = NoError
  <2>1. Front(i).msg \in Requests /\ Front(i).from \in Endpoints
    BY <1>1, <1>5, FrontMessage
  <2> QED BY <1>1, <2>1, RequestedOK DEF Requested
<1> QED BY <1>1, <1>2, <1>3, <1>4, <1>5

\* AcceptingFails keeps the invariant.
LEMMA AcceptingFailsInv ==
  ASSUME IInv, NEW i \in Sessions, AcceptingFails(i)
  PROVE  IInv'
<1>1. st[i] = "Accepting" /\ Runs(i, "accept") /\ crashed \in BOOLEAN
  BY DEF AcceptingFails, AcceptingFailed, IInv, TypeOK
<1>2. ~HasError(fsm[i]) /\ IoOK(st[i], Dequeue(io[i])) /\ Dequeue(io[i]).pending = {}
  BY <1>1, FreeFacts
<1>3. /\ io' = [io EXCEPT ![i] = Dequeue(io[i])] /\ CrashTyped
      /\ UNCHANGED <<st, fsm, listener, attempts>>
  <2>1. /\ io' = [io EXCEPT ![i] = Dequeue(@)]
        /\ UNCHANGED <<st, fsm, listener, crashed, attempts>>
    BY <1>2 DEF AcceptingFails
  <2> QED BY <1>1, <2>1 DEF CrashTyped
<1> QED BY <1>2, <1>3, IoInv

\* IgnoreRequest keeps the invariant.
LEMMA IgnoreRequestInv ==
  ASSUME IInv, NEW i \in Sessions, IgnoreRequest(i)
  PROVE  IInv'
<1>1. st[i] = "Accepting" /\ Runs(i, "accept") /\ Front(i).ok /\ crashed \in BOOLEAN
  BY DEF IgnoreRequest, RequestReceived, IInv, TypeOK
<1>2. /\ DataOK(st[i], Requested(i)) /\ fsm[i] \in Data
      /\ IoOK(st[i], Dequeue(io[i])) /\ Dequeue(io[i]).pending = {}
  BY <1>1, FreeFacts DEF DataOK, TransferOK
<1>3. Requested(i).resend_count = fsm[i].resend_count
  BY <1>2 DEF Requested, Data
<1>4. /\ fsm' = [fsm EXCEPT ![i] = Requested(i)]
      /\ io' = [io EXCEPT ![i] = Dequeue(io[i])]
      /\ UNCHANGED <<st, listener, attempts>> /\ CrashTyped
  BY <1>1 DEF IgnoreRequest, CrashTyped
<1> QED BY <1>2, <1>3, <1>4, LocalInv

\* A session that leaves Accepting, with its socket open.
LEMMA ServeInv ==
  ASSUME IInv, NEW i \in Sessions, st[i] = "Accepting", Runs(i, "accept"),
         NEW s \in States \ {"Accepting"}, NEW d, DataOK(s, d),
         Step(i, s, d, OpenSocket(Left(i)))
  PROVE  IInv'
<1> DEFINE o == OpenSocket(Left(i))
<1>1. o \in Io /\ LeftOK(o) /\ o.open
  BY FreeFacts, OpenIo DEF LeftOK
<1> HIDE DEF o
<1>2. Step(i, s, d, o) /\ WithinBudget(i, s, d)
  BY DEF o, WithinBudget
<1> QED BY <1>1, <1>2, StepInv

\* ServeReadRequest keeps the invariant: it ends in an error, OACK or block.
LEMMA ServeReadRequestInv ==
  ASSUME IInv, NEW i \in Sessions, ServeReadRequest(i)
  PROVE  IInv'
<1>1. st[i] = "Accepting" /\ Runs(i, "accept") /\ Front(i).ok
  BY DEF ServeReadRequest, RequestReceived
<1>2. PICK sized \in BOOLEAN, bad \in BOOLEAN :
        LET d == InitServeReadRequest(Requested(i), Front(i).msg, sized)
            o == OpenSocket(Left(i))
        IN  IF HasError(d) THEN Step(i, "SendingError", FormErrorPacket(d), o)
            ELSE IF HasOptions(d) THEN DataRead(i, FormOackPacket(d), o)
            ELSE DataRead(i, FormDataPacket(d, bad), o)
  BY DEF ServeReadRequest
<1> DEFINE d == InitServeReadRequest(Requested(i), Front(i).msg, sized)
           o == OpenSocket(Left(i))
<1>3. Unstarted(d) /\ d.file_stream # "write"
  <2>1. /\ Front(i).msg \in Requests /\ Unstarted(Requested(i))
        /\ Requested(i).file_stream = "closed"
        /\ Requested(i).last_error_code = NoError
    BY <1>1, FreeFacts
  <2> QED BY <2>1, InitServeReadRequestData DEF Unstarted
<1> HIDE DEF d, o
<1>4. TransferOK(d)
  BY <1>3, UnstartedOK
<1>5. {"SendingError", "SendingData"} \subseteq States \ {"Accepting"}
  BY DEF States
<1>6. CASE HasError(d)
  <2>1. Step(i, "SendingError", FormErrorPacket(d), o)
    BY <1>2, <1>6 DEF d, o
  <2>2. DataOK("SendingError", FormErrorPacket(d))
    BY <1>4, <1>6, ReportedOK
  <2> QED BY <1>1, <1>5, <2>1, <2>2, ServeInv DEF o
<1>7. CASE ~HasError(d) /\ HasOptions(d)
  <2>1. DataRead(i, FormOackPacket(d), o)
    BY <1>2, <1>7 DEF d, o
  <2>2. /\ ~HasError(FormOackPacket(d))
        /\ DataOK("SendingData", ResetTimeOut(FormOackPacket(d)))
    BY <1>3, <1>7, FirstOackOK
  <2>3. Step(i, "SendingData", ResetTimeOut(FormOackPacket(d)), o)
    BY <2>1, <2>2 DEF DataRead
  <2> QED BY <1>1, <1>5, <2>2, <2>3, ServeInv DEF o
<1>8. CASE ~HasError(d) /\ ~HasOptions(d)
  <2>1. DataRead(i, FormDataPacket(d, bad), o)
    BY <1>2, <1>8 DEF d, o
  <2>2. CASE bad
    <3>1. HasError(FormDataPacket(d, bad)) /\ TransferOK(FormDataPacket(d, bad))
      BY <1>4, <2>2, ReadFailureOK
    <3>2. DataOK("SendingError", FormErrorPacket(FormDataPacket(d, bad)))
      BY <3>1, ReportedOK
    <3>3. Step(i, "SendingError", FormErrorPacket(FormDataPacket(d, bad)), o)
      BY <2>1, <3>1 DEF DataRead
    <3> QED BY <1>1, <1>5, <3>2, <3>3, ServeInv DEF o
  <2>3. CASE ~bad
    <3>1. /\ ~HasError(FormDataPacket(d, bad))
          /\ DataOK("SendingData", ResetTimeOut(FormDataPacket(d, bad)))
      BY <1>3, <1>8, <2>3, FirstBlockOK
    <3>2. Step(i, "SendingData", ResetTimeOut(FormDataPacket(d, bad)), o)
      BY <2>1, <3>1 DEF DataRead
    <3> QED BY <1>1, <1>5, <3>1, <3>2, ServeInv DEF o
  <2> QED BY <2>2, <2>3
<1> QED BY <1>6, <1>7, <1>8

\* ServeWriteRequest keeps the invariant.
LEMMA ServeWriteRequestInv ==
  ASSUME IInv, NEW i \in Sessions, ServeWriteRequest(i)
  PROVE  IInv'
<1>1. st[i] = "Accepting" /\ Runs(i, "accept") /\ Front(i).ok
  BY DEF ServeWriteRequest, RequestReceived
<1> DEFINE d == InitServeWriteRequest(Requested(i), Front(i).msg)
           o == OpenSocket(Left(i))
<1>2. AckOrError(i, d, o)
  BY DEF ServeWriteRequest
<1>3. Unstarted(d) /\ d.file_stream # "read"
  <2>1. /\ Front(i).msg \in Requests /\ Unstarted(Requested(i))
        /\ Requested(i).file_stream = "closed"
        /\ Requested(i).last_error_code = NoError
    BY <1>1, FreeFacts
  <2> QED BY <2>1, InitServeWriteRequestData DEF Unstarted
<1> HIDE DEF d, o
<1>4. {"SendingError", "SendingAck"} \subseteq States \ {"Accepting"}
  BY DEF States
<1>5. CASE HasError(d)
  <2>1. Step(i, "SendingError", FormErrorPacket(d), o)
    BY <1>2, <1>5 DEF AckOrError
  <2>2. DataOK("SendingError", FormErrorPacket(d))
    BY <1>3, <1>5, UnstartedOK, ReportedOK
  <2> QED BY <1>1, <1>4, <2>1, <2>2, ServeInv DEF o
<1>6. CASE ~HasError(d)
  <2>1. Step(i, "SendingAck", FormAckPacket(d), o)
    BY <1>2, <1>6 DEF AckOrError
  <2>2. DataOK("SendingAck", FormAckPacket(d))
    BY <1>3, <1>6, FirstAckOK
  <2> QED BY <1>1, <1>4, <2>1, <2>2, ServeInv DEF o
<1> QED BY <1>5, <1>6

-----------------------------------------------------------------------------
(* The busy states.                                                        *)

\* The three rows of PacketSent keep the invariant.
LEMMA SentInv ==
  ASSUME IInv, NEW i \in Sessions, DataSent(i) \/ AckSent(i) \/ ErrorSent(i)
  PROVE  IInv'
<1> DEFINE d == fsm[i]
<1>1. CASE DataSent(i)
  <2>1. /\ Runs(i, "send") /\ st[i] = "SendingData"
        /\ Step(i, "WaitingForAck", d, Left(i))
    BY <1>1 DEF DataSent, PacketSent
  <2>2. DataOK("WaitingForAck", d) /\ WithinBudget(i, "WaitingForAck", d)
    BY <2>1, SentOK DEF IInv, SessionOK, WithinBudget, Waiting
  <2> HIDE DEF d
  <2> QED BY <2>1, <2>2, BusyInv DEF States
<1>2. CASE AckSent(i)
  <2>1. /\ Runs(i, "send") /\ st[i] = "SendingAck"
        /\ Step(i, "WaitingForData", d, Left(i))
    BY <1>2 DEF AckSent, PacketSent
  <2>2. DataOK("WaitingForData", d) /\ WithinBudget(i, "WaitingForData", d)
    BY <2>1, SentOK DEF IInv, SessionOK, WithinBudget, Waiting
  <2> HIDE DEF d
  <2> QED BY <2>1, <2>2, BusyInv DEF States
<1>3. CASE ErrorSent(i)
  BY <1>3, RestartInv DEF ErrorSent, PacketSent
<1> QED BY <1>1, <1>2, <1>3

\* The four rows of TimedOut keep the invariant.
LEMMA TimedOutInv ==
  ASSUME IInv, NEW i \in Sessions,
         ResendData(i) \/ ResendAck(i) \/ GiveUpData(i) \/ GiveUpAck(i)
  PROVE  IInv'
<1> DEFINE d == TimeOut(fsm[i])
<1>1. CASE ResendData(i)
  <2>1. /\ Runs(i, "receive") /\ st[i] = "WaitingForAck" /\ CanRetry(fsm[i])
        /\ Step(i, "SendingData", d, Left(i))
    BY <1>1 DEF ResendData, TimedOut
  <2>2. DataOK("WaitingForAck", fsm[i]) /\ fsm[i] \in Data
    BY <2>1 DEF IInv, SessionOK, DataOK, TransferOK
  <2>3. DataOK("SendingData", d) /\ WithinBudget(i, "SendingData", d)
    BY <2>1, <2>2, ResentOK DEF WithinBudget
  <2> HIDE DEF d
  <2> QED BY <2>1, <2>3, BusyInv DEF States
<1>2. CASE ResendAck(i)
  <2>1. /\ Runs(i, "receive") /\ st[i] = "WaitingForData" /\ CanRetry(fsm[i])
        /\ Step(i, "SendingAck", d, Left(i))
    BY <1>2 DEF ResendAck, TimedOut
  <2>2. DataOK("WaitingForData", fsm[i]) /\ fsm[i] \in Data
    BY <2>1 DEF IInv, SessionOK, DataOK, TransferOK
  <2>3. DataOK("SendingAck", d) /\ WithinBudget(i, "SendingAck", d)
    BY <2>1, <2>2, ResentOK DEF WithinBudget
  <2> HIDE DEF d
  <2> QED BY <2>1, <2>3, BusyInv DEF States
<1>3. CASE GiveUpData(i) \/ GiveUpAck(i)
  BY <1>3, RestartInv DEF GiveUpData, GiveUpAck, TimedOut
<1> QED BY <1>1, <1>2, <1>3

\* What is known when a datagram is handled.
LEMMA PacketFacts ==
  ASSUME IInv, NEW i \in Sessions, NEW s, PacketReceived(i, s)
  PROVE  /\ Runs(i, "receive") /\ st[i] = s /\ DataOK(s, fsm[i])
         /\ Front(i).msg \in Datagrams
<1>1. Runs(i, "receive") /\ st[i] = s /\ Front(i).ok
  BY DEF PacketReceived
<1> QED BY <1>1, RunsFacts, FrontMessage

\* FinishRead keeps the invariant.
LEMMA FinishReadInv ==
  ASSUME IInv, NEW i \in Sessions, FinishRead(i)
  PROVE  IInv'
BY RestartInv DEF FinishRead, PacketReceived

\* SendNextData keeps the invariant, also when the read fails.
LEMMA SendNextDataInv ==
  ASSUME IInv, NEW i \in Sessions, SendNextData(i)
  PROVE  IInv'
<1>1. /\ Runs(i, "receive") /\ DataOK("WaitingForAck", fsm[i])
      /\ Front(i).msg \in Datagrams
      /\ HasIntermediateAckReceived(fsm[i], Front(i).msg)
  BY PacketFacts DEF SendNextData
<1>2. PICK bad \in BOOLEAN : DataRead(i, FormDataPacket(fsm[i], bad), Left(i))
  BY DEF SendNextData
<1>3. {"SendingError", "SendingData"} \subseteq States \ {"Accepting"}
  BY DEF States
<1> DEFINE f == FormDataPacket(fsm[i], bad)
<1>4. CASE bad
  <2> DEFINE e == FormErrorPacket(f)
  <2>1. HasError(f) /\ TransferOK(f)
    BY <1>1, <1>4, ReadFailureOK DEF DataOK
  <2> HIDE DEF f
  <2>2. DataOK("SendingError", e) /\ e.send_packet.op = "ERROR"
    BY <2>1, ReportedOK
  <2>3. Step(i, "SendingError", e, Left(i))
    BY <1>2, <2>1 DEF DataRead, f
  <2> HIDE DEF e
  <2>4. fsm[i].send_packet.op # "ERROR"
    BY <1>1 DEF DataOK, PacketOK, AckInFlight, OackInFlight, DataInFlight
  <2>5. WithinBudget(i, "SendingError", e)
    BY <2>2, <2>4 DEF WithinBudget, Waiting
  <2> QED BY <1>1, <1>3, <2>2, <2>3, <2>5, BusyInv
<1>5. CASE ~bad
  <2> DEFINE e == ResetTimeOut(f)
  <2>1. ~HasError(f) /\ DataOK("SendingData", e) /\ e.send_packet # fsm[i].send_packet
    BY <1>1, <1>5, NextBlockOK
  <2>2. Step(i, "SendingData", e, Left(i))
    BY <1>2, <2>1 DEF DataRead
  <2> HIDE DEF e, f
  <2>3. WithinBudget(i, "SendingData", e)
    BY <2>1 DEF WithinBudget, Waiting
  <2> QED BY <1>1, <1>3, <2>1, <2>2, <2>3, BusyInv
<1> QED BY <1>4, <1>5

\* The two rows that only wait on keep the invariant.
LEMMA KeepWaitingInv ==
  ASSUME IInv, NEW i \in Sessions, KeepWaitingForAck(i) \/ IgnoreData(i)
  PROVE  IInv'
<1> DEFINE d == fsm[i]
<1>1. /\ Runs(i, "receive") /\ DataOK("WaitingForAck", d)
      /\ Step(i, "WaitingForAck", d, Left(i))
  BY PacketFacts, SentOK DEF KeepWaitingForAck, IgnoreData
<1>2. WithinBudget(i, "WaitingForAck", d)
  BY DEF WithinBudget, Waiting
<1> HIDE DEF d
<1> QED BY <1>1, <1>2, BusyInv DEF States

\* The two rows that refuse a packet keep the invariant.
LEMMA RefuseInv ==
  ASSUME IInv, NEW i \in Sessions, RefuseAck(i) \/ RefuseData(i)
  PROVE  IInv'
<1> DEFINE d == FormProtocolErrorPacket(fsm[i])
<1>1. PICK s \in Waiting : Runs(i, "receive") /\ DataOK(s, fsm[i])
  BY PacketFacts DEF RefuseAck, RefuseData, Waiting
<1>2. Step(i, "SendingError", d, Left(i))
  BY DEF RefuseAck, RefuseData
<1>3. DataOK("SendingError", d) /\ d.send_packet # fsm[i].send_packet
  BY <1>1, RefusedOK
<1> HIDE DEF d
<1>4. WithinBudget(i, "SendingError", d)
  BY <1>3 DEF WithinBudget, Waiting
<1> QED BY <1>1, <1>2, <1>3, <1>4, BusyInv DEF States

\* SaveData keeps the invariant, also when the write fails.
LEMMA SaveDataInv ==
  ASSUME IInv, NEW i \in Sessions, SaveData(i)
  PROVE  IInv'
<1>1. /\ Runs(i, "receive") /\ DataOK("WaitingForData", fsm[i])
      /\ Front(i).msg \in Datagrams /\ ~IsOldData(fsm[i], Front(i).msg)
  BY PacketFacts DEF SaveData
<1>2. PICK fail \in BOOLEAN :
        /\ fsm[i].file_stream # "write" => fail
        /\ AckOrError(i, WriteData(fsm[i], Front(i).msg, fail), Left(i))
  BY DEF SaveData
<1>3. {"SendingError", "SendingAck"} \subseteq States \ {"Accepting"}
  BY DEF States
<1> DEFINE f == WriteData(fsm[i], Front(i).msg, fail)
           e == FormAckPacket(f)
           r == FormErrorPacket(f)
<1>4. /\ TransferOK(f) /\ (HasError(f) <=> fail)
      /\ ~fail => DataOK("SendingAck", e) /\ e.send_packet # fsm[i].send_packet
  BY <1>1, <1>2, SavedOK
<1>5. AckOrError(i, f, Left(i))
  BY <1>2
<1> HIDE DEF f
<1>6. CASE fail
  <2>1. DataOK("SendingError", r) /\ r.send_packet.op = "ERROR"
    BY <1>4, <1>6, ReportedOK
  <2>2. Step(i, "SendingError", r, Left(i))
    BY <1>4, <1>5, <1>6 DEF AckOrError
  <2>3. fsm[i].send_packet.op # "ERROR"
    BY <1>1 DEF DataOK, PacketOK, AckInFlight
  <2> HIDE DEF r
  <2>4. WithinBudget(i, "SendingError", r)
    BY <2>1, <2>3 DEF WithinBudget, Waiting
  <2> QED BY <1>1, <1>3, <2>1, <2>2, <2>4, BusyInv
<1>7. CASE ~fail
  <2>1. Step(i, "SendingAck", e, Left(i))
    BY <1>4, <1>5, <1>7 DEF AckOrError
  <2> HIDE DEF e
  <2>2. WithinBudget(i, "SendingAck", e)
    BY <1>4, <1>7 DEF WithinBudget, Waiting
  <2> QED BY <1>1, <1>3, <1>4, <1>7, <2>1, <2>2, BusyInv
<1> QED BY <1>6, <1>7

-----------------------------------------------------------------------------
(* The timer, the network and the owner of the server.                     *)

\* The handler of the timer keeps the invariant, stale or not.
LEMMA TimerFiresInv ==
  ASSUME IInv, NEW i \in Sessions, TimerFires(i)
  PROVE  IInv'
<1> DEFINE q == Dequeue(io[i])
           o == IF io[i].open THEN CancelSocket(q) ELSE q
<1>1. /\ st[i] \in States /\ io[i] \in Io /\ IoOK(st[i], io[i])
      /\ io[i].ready # <<>> /\ Head(io[i].ready).kind = "timer"
  BY DEF IInv, TypeOK, SessionOK, TimerFires, Runs, Front
<1>2. IoOK(st[i], q) /\ q.pending = io[i].pending /\ q \in Io
  BY <1>1, DropExpiryIo, DequeueIo
<1>3. io' = [io EXCEPT ![i] = o]
  BY DEF TimerFires
<1>4. CrashTyped /\ UNCHANGED <<st, fsm, listener, attempts>>
  BY DEF TimerFires, CrashTyped
<1> HIDE DEF q
<1>5. IoOK(st[i], o) /\ o.pending \subseteq io[i].pending
  BY <1>1, <1>2, CancelIo
<1> HIDE DEF o
<1> QED BY <1>3, <1>4, <1>5, IoInv

\* A completed operation keeps the invariant.
LEMMA CompletesInv ==
  ASSUME IInv, NEW i \in Sessions, NEW kind, NEW h \in Handlers, h.kind = kind,
         Completes(i, kind, h)
  PROVE  IInv'
<1> DEFINE o == Complete(io[i], h)
<1>1. st[i] \in States /\ io[i] \in Io /\ IoOK(st[i], io[i]) /\ crashed \in BOOLEAN
  BY DEF IInv, TypeOK, SessionOK
<1>2. IoOK(st[i], o) /\ o.pending = {}
  BY <1>1, CompleteKeepsIo DEF Completes
<1>3. /\ io' = [io EXCEPT ![i] = o] /\ CrashTyped
      /\ UNCHANGED <<st, fsm, listener, attempts>>
  BY <1>1 DEF Completes, CrashTyped
<1> HIDE DEF o
<1> QED BY <1>2, <1>3, IoInv

\* The completions that the network causes keep the invariant.
LEMMA EnvironmentInv ==
  ASSUME IInv, NEW i \in Sessions, Arrival(i) \/ SendCompletes(i)
  PROVE  IInv'
<1>1. CASE RequestArrives(i)
  <2>1. PICK r \in Requests, e \in Endpoints :
          Completes(i, "accept", Received("accept", r, e))
    BY <1>1 DEF RequestArrives
  <2> QED BY <2>1, HandlerTypes, CompletesInv
<1>2. CASE DatagramArrives(i)
  <2>1. PICK p \in Datagrams, e \in Endpoints :
          Completes(i, "receive", Received("receive", p, e))
    BY <1>2 DEF DatagramArrives
  <2> QED BY <2>1, HandlerTypes, CompletesInv
<1>3. CASE AcceptFails(i)
  BY <1>3, HandlerTypes, CompletesInv DEF AcceptFails
<1>4. CASE ReceiveFails(i)
  BY <1>4, HandlerTypes, CompletesInv DEF ReceiveFails
<1>5. CASE SendCompletes(i)
  BY <1>5, HandlerTypes, CompletesInv DEF SendCompletes
<1> QED BY <1>1, <1>2, <1>3, <1>4, <1>5 DEF Arrival

\* A timer that expires keeps the invariant.
LEMMA TimerExpiresInv ==
  ASSUME IInv, NEW i \in Sessions, TimerExpires(i)
  PROVE  IInv'
<1> DEFINE o == [io[i] EXCEPT !.timer = FALSE,
                              !.ready = Append(@, Succeeded("timer"))]
<1>1. /\ st[i] \in States /\ io[i] \in Io /\ IoOK(st[i], io[i])
      /\ io[i].timer /\ crashed \in BOOLEAN
  BY DEF IInv, TypeOK, SessionOK, TimerExpires
<1>2. IoOK(st[i], o) /\ o.pending = io[i].pending
  BY <1>1, ExpireIo DEF Io
<1>3. io' = [io EXCEPT ![i] = o]
  BY DEF TimerExpires, IInv, TypeOK
<1>4. CrashTyped /\ UNCHANGED <<st, fsm, listener, attempts>>
  BY <1>1 DEF TimerExpires, CrashTyped
<1> HIDE DEF o
<1> QED BY <1>2, <1>3, <1>4, IoInv

\* Stop keeps the invariant.
LEMMA StopInv ==
  ASSUME IInv, Stop
  PROVE  IInv'
<1> DEFINE o(i) == IF "accept" \in io[i].pending
                   THEN Complete(io[i], Failed("accept")) ELSE io[i]
<1>1. io' = [i \in Sessions |-> o(i)] /\ listener' = "stopped"
      /\ UNCHANGED <<st, fsm, crashed, attempts>>
  BY DEF Stop
<1>2. ASSUME NEW i \in Sessions
      PROVE  IoOK(st[i], o(i)) /\ o(i) \in Io /\ "accept" \notin o(i).pending
  <2>1. st[i] \in States /\ io[i] \in Io /\ IoOK(st[i], io[i])
    BY DEF IInv, TypeOK, SessionOK
  <2>2. Failed("accept") \in Handlers /\ Failed("accept").kind = "accept"
    BY HandlerTypes
  <2>3. CASE "accept" \in io[i].pending
    <3>1. /\ IoOK(st[i], Complete(io[i], Failed("accept")))
          /\ Complete(io[i], Failed("accept")).pending = {}
      BY <2>1, <2>2, <2>3, CompleteKeepsIo
    <3> QED BY <2>3, <3>1 DEF IoOK
  <2>4. CASE "accept" \notin io[i].pending
    BY <2>1, <2>4
  <2> QED BY <2>3, <2>4
<1> HIDE DEF o
<1>3. TypeOK'
  BY <1>1, <1>2 DEF IInv, TypeOK
<1>4. ASSUME NEW i \in Sessions
      PROVE  SessionOK(i)' /\ "accept" \notin io'[i].pending
  BY <1>1, <1>2 DEF IInv, SessionOK, Budget
<1> QED BY <1>3, <1>4 DEF IInv, StopIsFinal

-----------------------------------------------------------------------------
(* IInv is inductive.                                                      *)

\* The state after Start satisfies the invariant.
LEMMA InitInv == Init => IInv
<1> SUFFICES ASSUME Init PROVE IInv
  OBVIOUS
<1> DEFINE o == [open |-> FALSE, pending |-> {"accept"},
                 timer |-> FALSE, ready |-> <<>>]
<1>1. /\ st = [i \in Sessions |-> "Accepting"]
      /\ fsm = [i \in Sessions |-> InitialData] /\ io = [i \in Sessions |-> o]
      /\ listener = "open" /\ crashed = FALSE
      /\ attempts = [i \in Sessions |-> 0]
  BY DEF Init
<1>2. o \in Io
  <2>1. <<>> \in Seq(Handlers)
    OBVIOUS
  <2> QED BY <2>1 DEF Io
<1>3. IoOK("Accepting", o)
  BY <1>2 DEF IoOK, InFlight, Expiries, Armed, Awaited, Sending, Waiting
<1>4. InitialData \in Data /\ DataOK("Accepting", InitialData)
  BY InitialDataOK
<1> HIDE DEF o
<1>5. TypeOK
  BY <1>1, <1>2, <1>4 DEF TypeOK, States
<1>6. \A i \in Sessions : SessionOK(i)
  BY <1>1, <1>3, <1>4 DEF SessionOK, Budget
<1> QED BY <1>1, <1>5, <1>6 DEF IInv, StopIsFinal

\* Every step keeps the invariant.
LEMMA NextInv == IInv /\ [Next]_vars => IInv'
<1> SUFFICES ASSUME IInv, [Next]_vars PROVE IInv'
  OBVIOUS
<1>1. ASSUME NEW i \in Sessions, Handle(i) PROVE IInv'
  BY <1>1, AcceptingFailsInv, IgnoreRequestInv, ServeReadRequestInv,
     ServeWriteRequestInv, SentInv, TimedOutInv, FinishReadInv, SendNextDataInv,
     KeepWaitingInv, RefuseInv, SaveDataInv, TimerFiresInv DEF Handle
<1>2. ASSUME NEW i \in Sessions, Arrival(i) \/ SendCompletes(i) PROVE IInv'
  BY <1>2, EnvironmentInv
<1>3. ASSUME NEW i \in Sessions, TimerExpires(i) PROVE IInv'
  BY <1>3, TimerExpiresInv
<1>4. CASE Stop
  BY <1>4, StopInv
<1>5. CASE UNCHANGED vars
  BY <1>5 DEF vars, IInv, TypeOK, SessionOK, StopIsFinal
<1> QED BY <1>1, <1>2, <1>3, <1>4, <1>5 DEF Next, Halted

\* In every reachable state the data and the operations of every session fit
\* the state its machine is in: IInv is an invariant.
THEOREM Invariance == Spec => []IInv
BY InitInv, NextInv, PTL DEF Spec

-----------------------------------------------------------------------------
(* What follows from it.                                                   *)

\* Every variable holds a value of its type; resend_count stays within the
\* limit of CanRetry.
THEOREM TypeCorrect == Spec => []TypeOK
<1>1. IInv => TypeOK
  BY DEF IInv
<1> QED BY <1>1, Invariance, PTL

\* The invariant on the operations gives the clauses of InFlightMatchesState.
LEMMA IoMatchesState ==
  ASSUME IInv, NEW i \in Sessions
  PROVE  LET o == io[i] IN
    /\ Outstanding(i) \subseteq {Awaited(st[i])}
    /\ st[i] # "Accepting" => Outstanding(i) # {}
    /\ \A j, k \in 1 .. Len(o.ready) :
         (j # k /\ o.ready[j].kind # "timer") => o.ready[j].kind # o.ready[k].kind
    /\ \A k \in 1 .. Len(o.ready) : o.ready[k].kind \notin o.pending
    /\ o.open <=> st[i] # "Accepting"
    /\ o.timer => st[i] \in Waiting
    /\ Len(o.ready) + (IF o.timer THEN 1 ELSE 0) <= 3
<1> DEFINE o == io[i]
           s == st[i]
           a == Awaited(s)
           n == Len(o.ready)
<1>1. s \in States /\ o \in Io /\ IoOK(s, o) /\ a # "timer" /\ n \in Nat
  <2>1. s \in States /\ o \in Io /\ IoOK(s, o)
    BY DEF IInv, TypeOK, SessionOK
  <2>2. a # "timer"
    BY <2>1, AwaitedType
  <2> QED BY <2>1, <2>2 DEF Io
<1>2. o.timer => Armed(o) = 1
  BY DEF Armed
<1>3. ~o.timer => Armed(o) = 0
  BY DEF Armed
<1>4. /\ o.open <=> s # "Accepting"
      /\ o.timer => s \in Waiting
  BY <1>1 DEF IoOK
<1>5. CASE InFlight(s, o) \/ NotListening(s, o)
  <2>1. /\ \A k \in 1 .. n : o.ready[k].kind = "timer"
        /\ o.pending \in {{}, {a}} /\ (s # "Accepting" => o.pending = {a})
    BY <1>5 DEF InFlight, NotListening, Expiries
  <2>2. n + Armed(o) <= 3
    <3>1. CASE InFlight(s, o)
      <4>1. n + Armed(o) <= IF s \in Waiting THEN 2 ELSE 1
        BY <3>1 DEF InFlight
      <4>2. Armed(o) \in {0, 1}
        BY DEF Armed
      <4> QED BY <1>1, <4>1, <4>2
    <3>2. CASE NotListening(s, o)
      <4>1. n <= 1 /\ Armed(o) \in {0, 1}
        BY <3>2 DEF NotListening, Armed
      <4> QED BY <1>1, <4>1
    <3> QED BY <1>5, <3>1, <3>2
  <2>3. Outstanding(i) = o.pending
    BY <2>1 DEF Outstanding, Queued
  <2> QED BY <1>1, <1>2, <1>3, <1>4, <2>1, <2>2, <2>3
<1>6. CASE HandlerQueued(s, o)
  <2>1. PICK p \in 1 .. n :
          /\ o.ready[p].kind = a
          /\ \A k \in 1 .. n : k # p => o.ready[k].kind = "timer"
          /\ n + Armed(o) <= IF s \in Waiting THEN 3 ELSE 2
    BY <1>6 DEF HandlerQueued
  <2>2. o.pending = {}
    BY <1>6 DEF HandlerQueued
  <2>3. Outstanding(i) = {a}
    BY <1>1, <2>1, <2>2 DEF Outstanding, Queued
  <2>4. n + Armed(o) <= 3
    BY <1>1, <1>2, <1>3, <2>1
  <2> QED BY <1>1, <1>2, <1>3, <1>4, <2>1, <2>2, <2>3, <2>4
<1> QED BY <1>1, <1>5, <1>6 DEF IoOK

\* The event that a session's state machine is handed is always one that its
\* state has a row for, and a stale expiry is the only handler beside it.
THEOREM InFlightAlwaysMatches == Spec => []InFlightMatchesState
<1>1. IInv => InFlightMatchesState
  BY IoMatchesState DEF InFlightMatchesState
<1> QED BY <1>1, Invariance, PTL

\* Reset leaves nothing of one transfer for the next.
THEOREM ResetAlwaysRestores == Spec => []ResetRestoresDefaults
<1>1. IInv => ResetRestoresDefaults
  BY DEF IInv, SessionOK, DataOK, Fresh, ResetRestoresDefaults
<1> QED BY <1>1, Invariance, PTL

\* An error that is recorded reaches the peer before anything else does, and a
\* session that refuses a packet sends nothing but an ERROR.
THEOREM ErrorAlwaysReported == Spec => []ErrorIsReported
<1>1. IInv => ErrorIsReported
  BY DEF IInv, SessionOK, DataOK, ErrorOK, ErrorIsReported
<1> QED BY <1>1, Invariance, PTL

\* No datagram is sent more than ResendLimit + 1 times.
THEOREM RetriesBounded == Spec => []RetryBudget
<1>1. ASSUME IInv, NEW i \in Sessions
      PROVE  attempts[i] <= ResendLimit + 1
  <2>1. /\ fsm[i] \in Data /\ attempts[i] \in Nat
        /\ attempts[i] <= Budget(st[i], fsm[i])
    BY <1>1 DEF IInv, TypeOK, SessionOK
  <2>2. fsm[i].resend_count \in Nat /\ fsm[i].resend_count <= ResendLimit
    BY <2>1 DEF Data, ResendLimit
  <2> QED BY <2>1, <2>2 DEF Budget, ResendLimit
<1>2. IInv => RetryBudget
  BY <1>1 DEF RetryBudget
<1> QED BY <1>2, Invariance, PTL

\* The block in flight is the part of the file its number stands for.
THEOREM DownloadsInOrder == Spec => []DownloadInOrder
<1>1. ASSUME IInv, NEW i \in Sessions,
             st[i] \in {"SendingData", "WaitingForAck"}, fsm[i].file_stream = "read"
      PROVE  OackInFlight(fsm[i]) \/ DataInFlight(fsm[i])
  BY <1>1 DEF IInv, SessionOK, DataOK, PacketOK, AckInFlight
<1>2. IInv => DownloadInOrder
  BY <1>1 DEF OackInFlight, DataInFlight, DownloadInOrder
<1> QED BY <1>2, Invariance, PTL

\* The blocks of an upload are written once, in increasing order, and an ACK
\* names the last of them.
THEOREM UploadsInOrder == Spec => []UploadInOrder
<1>1. ASSUME IInv, NEW i \in Sessions
      PROVE  /\ WrittenOK(fsm[i])
             /\ st[i] \in {"SendingAck", "WaitingForData"} => AckInFlight(fsm[i])
  BY <1>1 DEF IInv, SessionOK, DataOK, TransferOK, PacketOK
<1>2. IInv => UploadInOrder
  BY <1>1 DEF WrittenOK, AckInFlight, UploadInOrder
<1> QED BY <1>2, Invariance, PTL

\* The number of a block never goes round.
THEOREM NeverASecondLap == Spec => []NoSecondLap
<1>1. IInv => NoSecondLap
  BY DEF IInv, SessionOK, DataOK, TransferOK, LapOK, NoSecondLap
<1> QED BY <1>1, Invariance, PTL

\* A server that was stopped accepts nothing, whatever its sessions still do.
THEOREM StopAlwaysFinal == Spec => []StopIsFinal
<1>1. IInv => StopIsFinal
  BY DEF IInv
<1> QED BY <1>1, Invariance, PTL

-----------------------------------------------------------------------------
(* What a step may do.                                                     *)

\* The only action that moves a session from WaitingForAck to the next block.
LEMMA AdvanceStep ==
  ASSUME IInv, Next, NEW i \in Sessions, st[i] = "WaitingForAck",
         fsm'[i].last_sent_block > fsm[i].last_sent_block
  PROVE  SendNextData(i)
<1> DEFINE d == fsm[i]
<1>1. fsm[i] \in Data /\ fsm \in [Sessions -> Data]
  BY DEF IInv, TypeOK
<1>2. fsm[i].last_sent_block \in Nat
  BY <1>1 DEF Data
<1>3. fsm'[i].last_sent_block # fsm[i].last_sent_block
  BY <1>2
<1>4. PICK j \in Sessions : Handle(j)
  BY <1>3 DEF Next, Stop, Halted, vars, Arrival, RequestArrives, AcceptFails,
     DatagramArrives, ReceiveFails, SendCompletes, Completes, TimerExpires
<1>5. j = i
  <2>1. \E e : fsm' = [fsm EXCEPT ![j] = e] \/ fsm' = fsm
    BY <1>4 DEF Handle, AcceptingFails, IgnoreRequest, ServeReadRequest,
       ServeWriteRequest, DataSent, AckSent, ErrorSent, ResendData, GiveUpData,
       FinishRead, SendNextData, KeepWaitingForAck, RefuseAck, ResendAck,
       GiveUpAck, SaveData, IgnoreData, RefuseData, TimerFires, AckOrError,
       DataRead, Restart, Step
  <2> QED BY <1>1, <1>3, <2>1
<1>6. ASSUME NEW s, NEW e, NEW o, Step(i, s, e, o)
      PROVE  fsm'[i] = e
  BY <1>1, <1>6 DEF Step
<1>7. ~Restart(i)
  <2>1. ResetData(d).last_sent_block = 0
    BY <1>1 DEF ResetData, Data
  <2> QED BY <1>2, <1>6, <2>1 DEF Restart
<1>8. ~ResendData(i)
  <2>1. CanRetry(d) => TimeOut(d).last_sent_block = d.last_sent_block
    BY <1>1, TimeOutData DEF SameTransfer
  <2> QED BY <1>3, <1>6, <2>1 DEF ResendData
<1>9. ~RefuseAck(i)
  <2>1. FormProtocolErrorPacket(d).last_sent_block = d.last_sent_block
    BY <1>1, FormProtocolErrorPacketData DEF SameTransfer
  <2> QED BY <1>3, <1>6, <2>1 DEF RefuseAck
<1>10. ~KeepWaitingForAck(i) /\ ~TimerFires(i)
  BY <1>3, <1>6 DEF KeepWaitingForAck, TimerFires
<1>11. ~GiveUpData(i) /\ ~FinishRead(i)
  BY <1>7 DEF GiveUpData, FinishRead
<1> QED BY <1>4, <1>5, <1>8, <1>9, <1>10, <1>11
        DEF Handle, AcceptingFails, AcceptingFailed, IgnoreRequest,
            ServeReadRequest, ServeWriteRequest, RequestReceived, DataSent,
            AckSent, ErrorSent, PacketSent, ResendAck, GiveUpAck, TimedOut,
            SaveData, IgnoreData, RefuseData, PacketReceived

\* An ACK that is not old is of the datagram in flight.
LEMMA CurrentAckInFlight ==
  ASSUME IInv, NEW i \in Sessions, PacketReceived(i, "WaitingForAck"),
         FromAgreedEndpoint(fsm[i], Front(i).from),
         HasAckReceived(fsm[i], Front(i).msg), ~IsOldAck(fsm[i], Front(i).msg),
         fsm[i].file_stream # "write"
  PROVE  AckedInFlight(i)
<1> DEFINE d == fsm[i]
           p == Front(i).msg
<1>1. DataOK("WaitingForAck", d) /\ p \in Datagrams
  BY PacketFacts
<1>2. p.word = d.last_sent_block /\ (DataInFlight(d) \/ OackInFlight(d) =>
                                       d.send_packet.word = p.word)
  BY <1>1, CurrentAck
<1>3. AckInFlight(d) => d.send_packet.word = 0 /\ d.last_sent_block = 0
  BY <1>1 DEF AckInFlight, DataOK, TransferOK, WrittenOK
<1>4. d.send_packet.word = p.word
  BY <1>1, <1>2, <1>3 DEF DataOK, PacketOK
<1> QED BY <1>4 DEF AckedInFlight, FromAgreedEndpoint, HasAckReceived

\* The next block is read only when the peer has acknowledged the datagram in
\* flight.
THEOREM AdvancesAreAcknowledged == Spec => AdvancesOnCurrentAck
<1> DEFINE Step1(i) == (/\ st[i] = "WaitingForAck" /\ fsm[i].file_stream # "write"
                        /\ fsm'[i].last_sent_block > fsm[i].last_sent_block)
                         => AckedInFlight(i)
<1>1. IInv /\ [Next]_vars => [\A i \in Sessions : Step1(i)]_vars
  <2> SUFFICES ASSUME IInv, Next, NEW i \in Sessions, st[i] = "WaitingForAck",
                      fsm[i].file_stream # "write",
                      fsm'[i].last_sent_block > fsm[i].last_sent_block
               PROVE  AckedInFlight(i)
    OBVIOUS
  <2>1. SendNextData(i)
    BY AdvanceStep
  <2> QED BY <2>1, CurrentAckInFlight DEF SendNextData, HasIntermediateAckReceived
<1> QED BY <1>1, Invariance, PTL DEF Spec, AdvancesOnCurrentAck

\* The actions after which a session that waited for an ACK is free.
LEMMA EndStep ==
  ASSUME IInv, Next, NEW i \in Sessions, st[i] = "WaitingForAck",
         st'[i] = "Accepting"
  PROVE  FinishRead(i) \/ GiveUpData(i)
<1>1. st \in [Sessions -> States] /\ st'[i] # st[i]
  BY DEF IInv, TypeOK
<1>2. PICK j \in Sessions : Handle(j)
  BY <1>1 DEF Next, Stop, Halted, vars, Arrival, RequestArrives, AcceptFails,
     DatagramArrives, ReceiveFails, SendCompletes, Completes, TimerExpires
<1>3. j = i
  <2>1. \E s : st' = [st EXCEPT ![j] = s] \/ st' = st
    BY <1>2 DEF Handle, AcceptingFails, IgnoreRequest, ServeReadRequest,
       ServeWriteRequest, DataSent, AckSent, ErrorSent, ResendData, GiveUpData,
       FinishRead, SendNextData, KeepWaitingForAck, RefuseAck, ResendAck,
       GiveUpAck, SaveData, IgnoreData, RefuseData, TimerFires, AckOrError,
       DataRead, Restart, Step
  <2> QED BY <1>1, <2>1
<1>4. ASSUME NEW s, NEW e, NEW o, Step(i, s, e, o)
      PROVE  s = "Accepting"
  BY <1>1, <1>4 DEF Step
<1>5. ~ResendData(i) /\ ~RefuseAck(i) /\ ~KeepWaitingForAck(i)
  BY <1>4 DEF ResendData, RefuseAck, KeepWaitingForAck
<1>6. ~SendNextData(i)
  BY <1>4 DEF SendNextData, DataRead
<1>7. ~TimerFires(i)
  BY <1>1 DEF TimerFires
<1> QED BY <1>2, <1>3, <1>5, <1>6, <1>7
        DEF Handle, AcceptingFails, AcceptingFailed, IgnoreRequest,
            ServeReadRequest, ServeWriteRequest, RequestReceived, DataSent,
            AckSent, ErrorSent, PacketSent, ResendAck, GiveUpAck, TimedOut,
            SaveData, IgnoreData, RefuseData, PacketReceived

\* A download that an ACK ends has sent the whole file, and that ACK is of its
\* last block.
THEOREM CompletionsAreComplete == Spec => CompletionMeansAll
<1> DEFINE Step1(i) == (/\ PacketReceived(i, "WaitingForAck") /\ Front(i).msg.op = "ACK"
                        /\ fsm[i].file_stream = "read"
                        /\ st'[i] = "Accepting")
                         => AckedInFlight(i) /\ fsm[i].read_pos = FileLength[fsm[i].file]
<1>1. IInv /\ [Next]_vars => [\A i \in Sessions : Step1(i)]_vars
  <2> SUFFICES ASSUME IInv, Next, NEW i \in Sessions,
                      PacketReceived(i, "WaitingForAck"), Front(i).msg.op = "ACK",
                      fsm[i].file_stream = "read", st'[i] = "Accepting"
               PROVE  /\ AckedInFlight(i)
                      /\ fsm[i].read_pos = FileLength[fsm[i].file]
    OBVIOUS
  <2> DEFINE d == fsm[i]
  <2>1. FinishRead(i)
    BY EndStep DEF PacketReceived, GiveUpData, TimedOut
  <2>2. /\ FromAgreedEndpoint(d, Front(i).from)
        /\ HasFinalAckReceived(d, Front(i).msg)
    BY <2>1 DEF FinishRead, HasErrReceived
  <2>3. AckedInFlight(i)
    BY <2>2, CurrentAckInFlight DEF HasFinalAckReceived
  <2>4. d.last_block_size # d.agreed_block_size /\ d.last_sent_block # 0
    BY <2>2 DEF HasFinalAckReceived, HasMoreToSend
  <2>5. DataInFlight(d)
    BY <2>4, PacketFacts DEF DataOK, PacketOK, AckInFlight, OackInFlight
  <2>6. d.read_pos = FileLength[d.file]
    BY <2>4, <2>5 DEF DataInFlight
  <2> QED BY <2>3, <2>6
<1> QED BY <1>1, Invariance, PTL DEF Spec, CompletionMeansAll
=============================================================================
