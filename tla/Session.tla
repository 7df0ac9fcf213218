------------------------------ MODULE Session ------------------------------
(***************************************************************************)
(* The sessions of the TFTP server: the Boost.MSM state machine every      *)
(* session runs (machine/transition_table.h), its data (data/*.h), the     *)
(* functors of its rows (action/*.h, guard/*.h, state/*_action/*.h) and    *)
(* the part of Boost.Asio they rely on.  The environment is open: any      *)
(* datagram of Datagrams may reach a waiting session at any time, from the *)
(* peer or from a stranger, so loss, duplication, delay and reordering are *)
(* all among the behaviours.                                               *)
(*                                                                         *)
(* process_event runs to completion: the guard, the exit of the source,    *)
(* the action, the entry of the target, then the anonymous rows.  A state  *)
(* that only anonymous rows leave (Resetted, ReadRequestReceived,          *)
(* WriteRequestReceived, DataRead, DataWritten) is passed through within   *)
(* the step.  Of the rows whose guards hold, MSM takes the last one.       *)
(***************************************************************************)
EXTENDS RequestEvent, Sequences, FiniteSets

CONSTANTS
  Sessions,          \* the sessions of the pool, number_of_parallel_requests
  Endpoints,         \* remote UDP endpoints
  NoEndpoint,        \* a default-constructed endpoint
  FileLength,        \* the length of each file, in units of data
  Unopenable,        \* files that fstream::open fails on
  WordSize,          \* 2^16: a block number is a uint16_t on the wire
  DefaultBlockSize,  \* TransferState::kDefaultDataBlockCount
  DefaultTimeOut,    \* the initial value of Timer::time_out_
  Requests,          \* what clients may send to the listener
  Datagrams          \* what anyone may send to the socket of a session

OptionNames == {"blksize", "timeout", "tsize"}

\* error_code.h; NoError is the empty last_error_code_.
FileNotFound == 1
DiskFull == 3
IllegalTftpOperation == 4
NoError == -1

\* can_retry.h
ResendLimit == 3

\* A datagram on the data sockets, in either direction.  "OTHER" is any that
\* no guard recognises: an ACK that is not of 4 bytes, an ERROR of 4 or less,
\* a DATA of less than 4, any other opcode.  pos and len say which part of a
\* file the payload of a DATA is.
Packet == [op : {"DATA", "ACK", "ERROR", "OACK", "OTHER"}, word : Nat,
           pos : Nat, len : Nat, options : SUBSET OptionNames]

ASSUME FileAssumption ==
  /\ FileLength \in [Files -> Nat]
  /\ Unopenable \subseteq Files
  /\ NoFile \notin Files
ASSUME ProtocolAssumption ==
  /\ WordSize \in Nat /\ WordSize > ResendLimit
  /\ DefaultBlockSize \in Nat \ {0}
  /\ DefaultTimeOut \in Nat
ASSUME SentinelAssumption == None \notin Nat /\ None \notin Packet
ASSUME EndpointAssumption == NoEndpoint \notin Endpoints
ASSUME InputAssumption ==
  /\ Requests \subseteq Request
  /\ Datagrams \subseteq {p \in Packet : p.word < WordSize}

States == {"Accepting", "SendingData", "SendingAck", "SendingError",
           "WaitingForAck", "WaitingForData"}
Sending == {"SendingData", "SendingAck", "SendingError"}
Waiting == {"WaitingForAck", "WaitingForData"}

\* Completed asynchronous operations whose handlers wait for io_context.run.
\* msg and from are the buffer and the endpoint the operation filled.
Handlers ==
       [kind : {"accept"}, ok : {TRUE}, msg : Requests, from : Endpoints]
  \cup [kind : {"receive"}, ok : {TRUE}, msg : Datagrams, from : Endpoints]
  \cup [kind : {"send", "timer"}, ok : {TRUE}, msg : {None}, from : {NoEndpoint}]
  \cup [kind : {"accept", "receive", "send"}, ok : {FALSE},
        msg : {None}, from : {NoEndpoint}]

\* The data of one session: TransferState, Option, Timer, File, Connection.
\* file_stream is the fstream: open for reading or for writing, closed, or
\* left with failbit by an open that failed; written is what it was given.
\* Left out are the members that nothing reads before it is set again:
\* received_packet_ (enter_receive.h:40, :47 and enter_accepting.h:38 set it
\* before they raise the event; it is the msg of the handler),
\* last_remote_endpoint_ (its from), the buffers, and local_data_endpoint_,
\* which every request sets before it is bound, and else is only logged.
Data == [agreed_remote_endpoint : Endpoints \cup {NoEndpoint},
         agreed_block_size : Nat \ {0},
         last_block_size : Nat,
         last_sent_block : Nat,
         last_saved_block : Nat,
         resend_count : 0 .. ResendLimit,
         send_packet : Packet \cup {None},
         last_error_code : {NoError, FileNotFound, DiskFull, IllegalTftpOperation},
         use_options : SUBSET OptionNames,
         time_out : Nat,
         file_size : Nat \cup {None},
         file_stream : {"closed", "read", "write", "failed"},
         file : Files \cup {NoFile},
         read_pos : Nat,
         written : Seq(Datagrams)]

\* What Asio holds for one session: whether socket_ is open, the operations
\* started and not completed, whether timer_ has a wait, and the handlers
\* that are ready, first in first out.
Io == [open : BOOLEAN, pending : SUBSET {"accept", "send", "receive"},
       timer : BOOLEAN, ready : Seq(Handlers)]

\* The members of a newly constructed session.
InitialData ==
  [agreed_remote_endpoint |-> NoEndpoint, agreed_block_size |-> DefaultBlockSize,
   last_block_size |-> 0, last_sent_block |-> 0, last_saved_block |-> 0,
   resend_count |-> 0, send_packet |-> None, last_error_code |-> NoError,
   use_options |-> {}, time_out |-> DefaultTimeOut, file_size |-> None,
   file_stream |-> "closed", file |-> NoFile, read_pos |-> 0, written |-> <<>>]

VARIABLES
  st,        \* the MSM state of each session
  fsm,       \* the data of each session
  io,        \* what Asio holds for each session
  listener,  \* "open", or "stopped" once TftpServer::Stop has released it
  crashed,   \* an exception has left io_context.run
  attempts   \* history: times the datagram in send_packet was sent

vars == <<st, fsm, io, listener, crashed, attempts>>

-----------------------------------------------------------------------------
(* The guards.  d is the data of the session, p the received datagram and  *)
(* from the endpoint it came from.                                         *)

FromAgreedEndpoint(d, from) == from = d.agreed_remote_endpoint
HasErrReceived(p) == p.op = "ERROR"
HasAckReceived(d, p) == p.op = "ACK" /\ p.word <= d.last_sent_block
HasDataReceived(d, p, from) == p.op = "DATA" /\ from = d.agreed_remote_endpoint
\* Two mutants: the block before the last one counts as current, and the block
\* in flight is compared as the 16 bits it has on the wire.
IsOldAckLate(d, p) == p.word + 1 < d.last_sent_block
IsOldAckOnWire(d, p) == p.word < d.last_sent_block % WordSize
IsOldAck(d, p) == p.word < d.last_sent_block
\* Mutant: the block saved last is not old.
IsOldDataLate(d, p) == p.word < d.last_saved_block
IsOldData(d, p) == p.word <= d.last_saved_block
\* Mutant: the OACK is not told from a last block.
HasMoreToSendAfterOack(d) == d.last_block_size = d.agreed_block_size
HasMoreToSend(d) ==
  d.last_block_size = d.agreed_block_size \/ d.last_sent_block = 0
\* Mutant: one more.
CanRetryOnceMore(d) == d.resend_count <= ResendLimit
CanRetry(d) == d.resend_count < ResendLimit
HasError(d) == d.last_error_code # NoError
HasOptions(d) == d.use_options # {}
HasFinalAckReceived(d, p) ==
  HasAckReceived(d, p) /\ ~IsOldAck(d, p) /\ ~HasMoreToSend(d)
HasIntermediateAckReceived(d, p) ==
  HasAckReceived(d, p) /\ ~IsOldAck(d, p) /\ HasMoreToSend(d)
HasOldAckReceived(d, p) == HasAckReceived(d, p) /\ IsOldAck(d, p)

-----------------------------------------------------------------------------
(* The actions of the rows, as functions of the session's data.            *)

NewPacket(op, word, pos, len, options) ==
  [op |-> op, word |-> word, pos |-> pos, len |-> len, options |-> options]

\* fstream::read: nothing can be read from a stream that is not open for it.
BytesToRead(d) ==
  LET rest == FileLength[d.file] - d.read_pos
  IN  IF d.file_stream # "read" THEN 0
      ELSE IF rest < d.agreed_block_size THEN rest ELSE d.agreed_block_size

\* Two mutants: the header is written before the block is counted, and the
\* stream is not asked whether the read failed.
FormDataPacketEarlyHeader(d, bad) ==
  LET n == BytesToRead(d)
  IN  IF bad THEN [d EXCEPT !.last_error_code = DiskFull]
      ELSE [d EXCEPT
        !.last_block_size = n,
        !.last_sent_block = @ + 1,
        !.read_pos = @ + n,
        !.send_packet =
          NewPacket("DATA", d.last_sent_block % WordSize, d.read_pos, n, {})]
FormDataPacketUnchecked(d, bad) ==
  LET n == IF bad THEN 0 ELSE BytesToRead(d)
      block == d.last_sent_block + 1
  IN  [d EXCEPT
        !.last_block_size = n,
        !.last_sent_block = block,
        !.read_pos = @ + n,
        !.send_packet = NewPacket("DATA", block % WordSize, d.read_pos, n, {})]

\* bad is badbit: the device failed while reading.
FormDataPacket(d, bad) ==
  LET n == BytesToRead(d)
      block == d.last_sent_block + 1
  IN  IF bad THEN [d EXCEPT !.last_error_code = DiskFull]
      ELSE [d EXCEPT
        !.last_block_size = n,
        !.last_sent_block = block,
        !.read_pos = @ + n,
        !.send_packet = NewPacket("DATA", block % WordSize, d.read_pos, n, {})]

FormOackPacket(d) ==
  [d EXCEPT !.last_sent_block = 0, !.last_saved_block = 0,
            !.send_packet = NewPacket("OACK", 0, 0, 0, d.use_options)]

FormAckPacket(d) ==
  [d EXCEPT !.send_packet = NewPacket("ACK", d.last_saved_block, 0, 0, {})]

FormErrorPacket(d) ==
  [d EXCEPT !.send_packet = NewPacket("ERROR", d.last_error_code, 0, 0, {})]

FormProtocolErrorPacket(d) ==
  [d EXCEPT !.send_packet =
     NewPacket("ERROR", IllegalTftpOperation, 0, 0, {})]

\* fail says that the stream could not take the bytes; one that was never
\* opened never can.
WriteData(d, p, fail) ==
  IF fail THEN [d EXCEPT !.last_error_code = DiskFull]
  ELSE [d EXCEPT !.last_block_size = p.len,
                 !.last_saved_block = p.word,
                 !.written = Append(@, p)]

\* Mutant: the retry is not counted.
TimeOutUncounted(d) == d
TimeOut(d) == [d EXCEPT !.resend_count = @ + 1]
ResetTimeOut(d) == [d EXCEPT !.resend_count = 0]

\* Mutant: the retries of the last transfer count against the next.
ResetDataKeepingCount(d) ==
  [InitialData EXCEPT !.time_out = d.time_out, !.file_size = d.file_size,
                      !.resend_count = d.resend_count]

\* Reset and the Reset of every part, for the members in Data.  Timer::Reset
\* leaves time_out_ alone, and TransferState::Reset assigns a local that
\* shadows file_size_.  agreed_remote_endpoint is where the next accept puts
\* the sender of its datagram.
ResetData(d) ==
  [d EXCEPT !.agreed_remote_endpoint = NoEndpoint,
            !.agreed_block_size = DefaultBlockSize,
            !.last_block_size = 0,
            !.last_sent_block = 0,
            !.last_saved_block = 0,
            !.resend_count = 0,
            !.send_packet = None,
            !.last_error_code = NoError,
            !.use_options = {},
            !.file_stream = "closed",
            !.file = NoFile,
            !.read_pos = 0,
            !.written = <<>>]

\* The error InitServe...Request finds in r: the mode is looked at first.
RequestError(d, r) ==
  IF ~r.mode THEN IllegalTftpOperation
  ELSE IF r.path = NoFile THEN FileNotFound ELSE d.last_error_code

\* file_stream_.open: what was asked for is tested with bad(), which an open
\* that fails does not set, so no error is recorded for it.
OpenStream(d, r, how) ==
  IF ~r.mode \/ r.path = NoFile THEN d
  ELSE [d EXCEPT !.file = r.path,
                 !.file_stream = IF r.path \in Unopenable THEN "failed" ELSE how]

\* Mutant: file_size_ is asked for a value, which may be that of another file.
InitServeReadRequestStale(d, r, sized) ==
  LET asked == r.mode /\ r.path # NoFile /\ r.tsize # None
      known == sized \/ d.file_size # None
      used == {o \in OptionNames : \/ o = "tsize" /\ asked /\ known /\ r.tsize = 0
                                   \/ o = "timeout" /\ r.timeout # None
                                   \/ o = "blksize" /\ r.blksize # None}
  IN  [OpenStream(d, r, "read") EXCEPT
         !.last_error_code = RequestError(d, r),
         !.use_options = used,
         !.file_size = IF asked /\ sized THEN FileLength[r.path] ELSE @,
         !.time_out = IF r.timeout # None THEN r.timeout ELSE @,
         !.agreed_block_size = IF r.blksize # None THEN r.blksize ELSE @]

\* sized says that GetFileSize succeeded.
InitServeReadRequest(d, r, sized) ==
  LET asked == r.mode /\ r.path # NoFile /\ r.tsize # None /\ sized
      used == {o \in OptionNames : \/ o = "tsize" /\ asked /\ r.tsize = 0
                                   \/ o = "timeout" /\ r.timeout # None
                                   \/ o = "blksize" /\ r.blksize # None}
  IN  [OpenStream(d, r, "read") EXCEPT
         !.last_error_code = RequestError(d, r),
         !.use_options = used,
         !.file_size = IF asked THEN FileLength[r.path] ELSE @,
         !.time_out = IF r.timeout # None THEN r.timeout ELSE @,
         !.agreed_block_size = IF r.blksize # None THEN r.blksize ELSE @]

InitServeWriteRequest(d, r) ==
  [OpenStream(d, r, "write") EXCEPT !.last_error_code = RequestError(d, r)]

-----------------------------------------------------------------------------
(* Asio, and the entry and exit actions of the states.                     *)

Failed(kind) == [kind |-> kind, ok |-> FALSE, msg |-> None, from |-> NoEndpoint]
Succeeded(kind) == [kind |-> kind, ok |-> TRUE, msg |-> None, from |-> NoEndpoint]
Received(kind, m, from) == [kind |-> kind, ok |-> TRUE, msg |-> m, from |-> from]

Complete(o, h) ==
  [o EXCEPT !.pending = @ \ {h.kind}, !.ready = Append(@, h)]

Dequeue(o) == [o EXCEPT !.ready = Tail(@)]

\* A wait that is cancelled runs a handler that does nothing; one that has
\* expired is in ready already and is not cancelled.
CancelTimer(o) == [o EXCEPT !.timer = FALSE]

\* Every operation in flight on socket_ completes with operation_aborted.
CancelSocket(o) ==
  LET sent == IF "send" \in o.pending THEN Complete(o, Failed("send")) ELSE o
  IN  IF "receive" \in o.pending THEN Complete(sent, Failed("receive")) ELSE sent

OpenSocket(o) == [o EXCEPT !.open = TRUE]

\* Connection::Reset and Timer::Reset.
CloseSocket(o) == [CancelTimer(CancelSocket(o)) EXCEPT !.open = FALSE]

EnterSending(o) == [o EXCEPT !.pending = @ \cup {"send"}]
\* Mutant: the timer is not armed.
EnterReceiveUntimed(o) == [o EXCEPT !.pending = @ \cup {"receive"}]
EnterReceive(o) == [o EXCEPT !.pending = @ \cup {"receive"}, !.timer = TRUE]
\* Two mutants: a session that is free again does not listen, and it keeps the
\* listener alive.
EnterAcceptingOnce(o) == o
EnterAcceptingAlways(o) == [o EXCEPT !.pending = @ \cup {"accept"}]
\* listener_socket_.lock() fails once the server has been stopped.
EnterAccepting(o) ==
  IF listener = "open" THEN [o EXCEPT !.pending = @ \cup {"accept"}] ELSE o

Enter(s, o) == IF s \in Sending THEN EnterSending(o)
               ELSE IF s \in Waiting THEN EnterReceive(o)
               ELSE EnterAccepting(o)

\* Mutant: the wait is not cancelled.
ExitWithTimer(s, o) == IF s = "Accepting" THEN o ELSE CancelSocket(o)

\* ExitSending and ExitReceive; ExitAccepting does nothing.
Exit(s, o) == IF s = "Accepting" THEN o ELSE CancelTimer(CancelSocket(o))

-----------------------------------------------------------------------------
(* One step of session i: the front handler runs and the machine moves to  *)
(* state s with data d, where o is what is left of the session's Io.       *)

Transmissions(i, s, d) ==
  IF s = "Accepting" THEN 0
  ELSE IF s \in Waiting THEN attempts[i]
  ELSE IF d.send_packet = fsm[i].send_packet THEN attempts[i] + 1 ELSE 1

Step(i, s, d, o) ==
  /\ st' = [st EXCEPT ![i] = s]
  /\ fsm' = [fsm EXCEPT ![i] = d]
  /\ io' = [io EXCEPT ![i] = Enter(s, o)]
  /\ attempts' = [attempts EXCEPT ![i] = Transmissions(i, s, d)]
  /\ UNCHANGED <<listener, crashed>>

\* The handler at the front has been taken and the source state been left.
Left(i) == Exit(st[i], Dequeue(io[i]))

\* The action Reset, and the anonymous row from Resetted to Accepting.
Restart(i) == Step(i, "Accepting", ResetData(fsm[i]), CloseSocket(Left(i)))

Front(i) == Head(io[i].ready)
Runs(i, kind) == ~crashed /\ io[i].ready # <<>> /\ Front(i).kind = kind

RequestReceived(i) == st[i] = "Accepting" /\ Runs(i, "accept") /\ Front(i).ok
AcceptingFailed(i) == st[i] = "Accepting" /\ Runs(i, "accept") /\ ~Front(i).ok
PacketSent(i, s) == st[i] = s /\ Runs(i, "send")
PacketReceived(i, s) == st[i] = s /\ Runs(i, "receive") /\ Front(i).ok
TimedOut(i, s) == st[i] = s /\ Runs(i, "receive") /\ ~Front(i).ok

\* The data once async_receive_from has stored the sender of the request.
Requested(i) == [fsm[i] EXCEPT !.agreed_remote_endpoint = Front(i).from]

\* Mutant: a failed read is not looked at.
DataReadUnchecked(i, d, o) == Step(i, "SendingData", ResetTimeOut(d), o)

\* DataRead: its two anonymous rows.
DataRead(i, d, o) ==
  IF HasError(d) THEN Step(i, "SendingError", FormErrorPacket(d), o)
  ELSE Step(i, "SendingData", ResetTimeOut(d), o)

\* DataWritten and WriteRequestReceived have the same two.
AckOrError(i, d, o) ==
  IF HasError(d) THEN Step(i, "SendingError", FormErrorPacket(d), o)
  ELSE Step(i, "SendingAck", FormAckPacket(d), o)

-----------------------------------------------------------------------------
(* Accepting.                                                              *)

\* The row needs HasError.  When it is refused the machine stays in
\* Accepting without entering it again.
AcceptingFails(i) ==
  /\ AcceptingFailed(i)
  /\ IF HasError(fsm[i]) THEN Restart(i)
     ELSE /\ io' = [io EXCEPT ![i] = Dequeue(@)]
          /\ UNCHANGED <<st, fsm, listener, crashed, attempts>>

\* A datagram that is no read or write request: no row takes the event.
IgnoreRequest(i) ==
  /\ RequestReceived(i)
  /\ HasError(fsm[i]) \/ Front(i).msg.op = "OTHER"
  /\ fsm' = [fsm EXCEPT ![i] = Requested(i)]
  /\ io' = [io EXCEPT ![i] = Dequeue(@)]
  /\ UNCHANGED <<st, listener, crashed, attempts>>

\* A datagram that is not framed sends AcceptingFailed first, which changes
\* nothing, and then RequestReceived all the same: framed is not looked at.
ServeReadRequest(i) ==
  /\ RequestReceived(i)
  /\ ~HasError(fsm[i]) /\ Front(i).msg.op = "RRQ"
  /\ \E sized, bad \in BOOLEAN :
       LET d == InitServeReadRequest(Requested(i), Front(i).msg, sized)
           o == OpenSocket(Left(i))
       IN  /\ bad => d.file_stream = "read"
           /\ IF HasError(d) THEN Step(i, "SendingError", FormErrorPacket(d), o)
              ELSE IF HasOptions(d) THEN DataRead(i, FormOackPacket(d), o)
              ELSE DataRead(i, FormDataPacket(d, bad), o)

ServeWriteRequest(i) ==
  /\ RequestReceived(i)
  /\ ~HasError(fsm[i]) /\ Front(i).msg.op = "WRQ"
  /\ AckOrError(i, InitServeWriteRequest(Requested(i), Front(i).msg),
                OpenSocket(Left(i)))

-----------------------------------------------------------------------------
(* SendingData, SendingAck, SendingError: the outcome of the send is only  *)
(* logged.                                                                 *)

DataSent(i) == /\ PacketSent(i, "SendingData")
               /\ Step(i, "WaitingForAck", fsm[i], Left(i))
AckSent(i) == /\ PacketSent(i, "SendingAck")
              /\ Step(i, "WaitingForData", fsm[i], Left(i))
ErrorSent(i) == PacketSent(i, "SendingError") /\ Restart(i)

-----------------------------------------------------------------------------
(* WaitingForAck.                                                          *)

ResendData(i) ==
  /\ TimedOut(i, "WaitingForAck") /\ CanRetry(fsm[i])
  /\ Step(i, "SendingData", TimeOut(fsm[i]), Left(i))

GiveUpData(i) ==
  TimedOut(i, "WaitingForAck") /\ ~CanRetry(fsm[i]) /\ Restart(i)

\* The last row of the table, and so the first that is tried: an ERROR ends
\* the transfer whoever sent it.
FinishRead(i) ==
  /\ PacketReceived(i, "WaitingForAck")
  /\ \/ HasErrReceived(Front(i).msg)
     \/ /\ FromAgreedEndpoint(fsm[i], Front(i).from)
        /\ HasFinalAckReceived(fsm[i], Front(i).msg)
  /\ Restart(i)

SendNextData(i) ==
  /\ PacketReceived(i, "WaitingForAck")
  /\ FromAgreedEndpoint(fsm[i], Front(i).from)
  /\ HasIntermediateAckReceived(fsm[i], Front(i).msg)
  /\ \E bad \in BOOLEAN :
       /\ bad => fsm[i].file_stream = "read"
       /\ DataRead(i, FormDataPacket(fsm[i], bad), Left(i))

\* Mutant: whatever arrives, the retries start anew.
KeepWaitingForAckAnew(i) ==
  /\ PacketReceived(i, "WaitingForAck")
  /\ ~HasErrReceived(Front(i).msg)
  /\ \/ ~FromAgreedEndpoint(fsm[i], Front(i).from)
     \/ HasOldAckReceived(fsm[i], Front(i).msg)
  /\ Step(i, "WaitingForAck", ResetTimeOut(fsm[i]), Left(i))

\* WaitingForAck is left and entered again: the clock starts anew.
KeepWaitingForAck(i) ==
  /\ PacketReceived(i, "WaitingForAck")
  /\ ~HasErrReceived(Front(i).msg)
  /\ \/ ~FromAgreedEndpoint(fsm[i], Front(i).from)
     \/ HasOldAckReceived(fsm[i], Front(i).msg)
  /\ Step(i, "WaitingForAck", fsm[i], Left(i))

RefuseAck(i) ==
  /\ PacketReceived(i, "WaitingForAck")
  /\ ~HasErrReceived(Front(i).msg)
  /\ FromAgreedEndpoint(fsm[i], Front(i).from)
  /\ ~HasAckReceived(fsm[i], Front(i).msg)
  /\ Step(i, "SendingError", FormProtocolErrorPacket(fsm[i]), Left(i))

-----------------------------------------------------------------------------
(* WaitingForData.                                                         *)

ResendAck(i) ==
  /\ TimedOut(i, "WaitingForData") /\ CanRetry(fsm[i])
  /\ Step(i, "SendingAck", TimeOut(fsm[i]), Left(i))

GiveUpAck(i) ==
  TimedOut(i, "WaitingForData") /\ ~CanRetry(fsm[i]) /\ Restart(i)

SaveData(i) ==
  /\ PacketReceived(i, "WaitingForData")
  /\ HasDataReceived(fsm[i], Front(i).msg, Front(i).from)
  /\ ~IsOldData(fsm[i], Front(i).msg)
  /\ \E fail \in BOOLEAN :
       /\ fsm[i].file_stream # "write" => fail
       /\ AckOrError(i, WriteData(fsm[i], Front(i).msg, fail), Left(i))

\* The target of this row is WaitingForAck, not WaitingForData.
IgnoreData(i) ==
  /\ PacketReceived(i, "WaitingForData")
  /\ \/ ~FromAgreedEndpoint(fsm[i], Front(i).from)
     \/ /\ HasDataReceived(fsm[i], Front(i).msg, Front(i).from)
        /\ IsOldData(fsm[i], Front(i).msg)
  /\ Step(i, "WaitingForAck", fsm[i], Left(i))

RefuseData(i) ==
  /\ PacketReceived(i, "WaitingForData")
  /\ FromAgreedEndpoint(fsm[i], Front(i).from)
  /\ ~HasDataReceived(fsm[i], Front(i).msg, Front(i).from)
  /\ Step(i, "SendingError", FormProtocolErrorPacket(fsm[i]), Left(i))

-----------------------------------------------------------------------------
(* The handler of the timer: it cancels what socket_ is doing, whatever    *)
(* that is.  cancel() throws when the socket is closed, and nothing        *)
(* catches what a handler throws.                                          *)

TimerFires(i) ==
  /\ Runs(i, "timer")
  /\ io' = [io EXCEPT ![i] = IF @.open THEN CancelSocket(Dequeue(@)) ELSE Dequeue(@)]
  /\ crashed' = ~io[i].open
  /\ UNCHANGED <<st, fsm, listener, attempts>>

-----------------------------------------------------------------------------
(* The network, the clock and the owner of the server.                     *)

Completes(i, kind, h) ==
  /\ ~crashed /\ kind \in io[i].pending
  /\ io' = [io EXCEPT ![i] = Complete(@, h)]
  /\ UNCHANGED <<st, fsm, listener, crashed, attempts>>

RequestArrives(i) == \E r \in Requests, e \in Endpoints :
                       Completes(i, "accept", Received("accept", r, e))
AcceptFails(i) == Completes(i, "accept", Failed("accept"))
DatagramArrives(i) == \E p \in Datagrams, e \in Endpoints :
                        Completes(i, "receive", Received("receive", p, e))
ReceiveFails(i) == Completes(i, "receive", Failed("receive"))
SendCompletes(i) == Completes(i, "send", Succeeded("send"))

TimerExpires(i) ==
  /\ ~crashed /\ io[i].timer
  /\ io' = [io EXCEPT ![i].timer = FALSE,
                      ![i].ready = Append(@, Succeeded("timer"))]
  /\ UNCHANGED <<st, fsm, listener, crashed, attempts>>

\* TftpServer::Stop: every accept in flight is aborted, and no session can
\* start another.
Stop ==
  /\ ~crashed /\ listener = "open"
  /\ listener' = "stopped"
  /\ io' = [i \in Sessions |->
              IF "accept" \in io[i].pending
              THEN Complete(io[i], Failed("accept")) ELSE io[i]]
  /\ UNCHANGED <<st, fsm, crashed, attempts>>

\* io_context.run has returned, or thrown.
NothingToDo(i) == io[i].pending = {} /\ ~io[i].timer /\ io[i].ready = <<>>
Halted ==
  /\ crashed \/ (listener = "stopped" /\ \A i \in Sessions : NothingToDo(i))
  /\ UNCHANGED vars

-----------------------------------------------------------------------------

\* TftpServer::Start has started every session.
Init ==
  /\ st = [i \in Sessions |-> "Accepting"]
  /\ fsm = [i \in Sessions |-> InitialData]
  /\ io = [i \in Sessions |-> [open |-> FALSE, pending |-> {"accept"},
                               timer |-> FALSE, ready |-> <<>>]]
  /\ listener = "open"
  /\ crashed = FALSE
  /\ attempts = [i \in Sessions |-> 0]

\* One handler of session i, run by io_context.run.
Handle(i) ==
  \/ AcceptingFails(i) \/ IgnoreRequest(i)
  \/ ServeReadRequest(i) \/ ServeWriteRequest(i)
  \/ DataSent(i) \/ AckSent(i) \/ ErrorSent(i)
  \/ ResendData(i) \/ GiveUpData(i)
  \/ FinishRead(i) \/ SendNextData(i) \/ KeepWaitingForAck(i) \/ RefuseAck(i)
  \/ ResendAck(i) \/ GiveUpAck(i)
  \/ SaveData(i) \/ IgnoreData(i) \/ RefuseData(i)
  \/ TimerFires(i)

\* Traffic that nobody has to send.
Arrival(i) ==
  RequestArrives(i) \/ AcceptFails(i) \/ DatagramArrives(i) \/ ReceiveFails(i)

Next ==
  \/ \E i \in Sessions : Handle(i) \/ Arrival(i) \/ SendCompletes(i) \/ TimerExpires(i)
  \/ Stop
  \/ Halted

Spec == Init /\ [][Next]_vars

\* io_context.run runs what is ready, a send completes, and an armed timer
\* expires unless it is cancelled.
Fairness == \A i \in Sessions : /\ WF_vars(Handle(i))
                                /\ WF_vars(SendCompletes(i))
                                /\ WF_vars(TimerExpires(i))
FairSpec == Spec /\ Fairness
-----------------------------------------------------------------------------
(* The properties.                                                         *)

\* Every variable holds a value of its type.
TypeOK ==
  /\ st \in [Sessions -> States]
  /\ fsm \in [Sessions -> Data]
  /\ io \in [Sessions -> Io]
  /\ listener \in {"open", "stopped"}
  /\ crashed \in BOOLEAN
  /\ attempts \in [Sessions -> Nat]

\* The operation whose completion brings the event a state waits for.
Awaited(s) == IF s \in Sending THEN "send"
              ELSE IF s \in Waiting THEN "receive" ELSE "accept"

\* The operations of a session that are in flight, and the queued handlers.
Queued(i) == {io[i].ready[k].kind : k \in 1 .. Len(io[i].ready)}
Outstanding(i) == io[i].pending \cup (Queued(i) \ {"timer"})

\* A busy session has exactly one operation outstanding, in flight or with its
\* handler queued, and it is the one its state waits for; an accepting session
\* has at most that.  So MSM never sees an event in a state without a row for
\* it (no_transition asserts), no session hangs outside Accepting and no two
\* operations fill a buffer at once.  socket_ is open exactly while the session
\* is busy, the timer runs only beside a receive in a Waiting state, and at
\* most two expiries are queued: one stale and one of the current wait.
InFlightMatchesState ==
  \A i \in Sessions : LET o == io[i] IN
    /\ Outstanding(i) \subseteq {Awaited(st[i])}
    /\ st[i] # "Accepting" => Outstanding(i) # {}
    /\ \A j, k \in 1 .. Len(o.ready) :
         (j # k /\ o.ready[j].kind # "timer") => o.ready[j].kind # o.ready[k].kind
    /\ \A k \in 1 .. Len(o.ready) : o.ready[k].kind \notin o.pending
    /\ o.open <=> st[i] # "Accepting"
    /\ o.timer => st[i] \in Waiting
    /\ Len(o.ready) + (IF o.timer THEN 1 ELSE 0) <= 3

\* A session that is free again has nothing of the last transfer in it: the
\* stream is closed and every member of Data has its first value.  Three are
\* left out: time_out_ and file_size_, which the code leaves, and the
\* endpoint, which the next request overwrites.
ResetRestoresDefaults ==
  \A i \in Sessions : st[i] = "Accepting" =>
    [InitialData EXCEPT !.time_out = fsm[i].time_out,
                        !.file_size = fsm[i].file_size,
                        !.agreed_remote_endpoint = fsm[i].agreed_remote_endpoint]
      = fsm[i]

\* An error that is recorded is the one the peer is told, and nothing else
\* happens before the session ends: no block or ACK follows a failed read,
\* write or request.  A session that refuses a packet sends an ERROR as well,
\* never the block or the ACK that was in send_packet_, and when nothing is
\* recorded it is that of an illegal operation.
ErrorIsReported ==
  \A i \in Sessions :
    /\ HasError(fsm[i]) => st[i] = "SendingError"
    /\ st[i] = "SendingError" =>
         /\ fsm[i].send_packet.op = "ERROR"
         /\ fsm[i].send_packet.word = IF HasError(fsm[i]) THEN fsm[i].last_error_code
                                      ELSE IllegalTftpOperation

\* No datagram is sent more than four times, however timeouts, stale timer
\* handlers, failed receives and late ACKs interleave.
RetryBudget == \A i \in Sessions : attempts[i] <= ResendLimit + 1

\* While a file is sent, send_packet is exactly block last_sent_block of it
\* and the stream stands right after that block: retransmissions, duplicate
\* and old ACKs neither skip nor repeat a byte.
DownloadInOrder ==
  \A i \in Sessions :
    LET d == fsm[i]
        p == d.send_packet
        before == (d.last_sent_block - 1) * d.agreed_block_size
    IN  (st[i] \in {"SendingData", "WaitingForAck"} /\ d.file_stream = "read") =>
          IF d.last_sent_block = 0 THEN p.op = "OACK" /\ d.read_pos = 0
          ELSE /\ p.op = "DATA"
               /\ p.word = d.last_sent_block % WordSize
               /\ p.pos = before
               /\ p.len = d.last_block_size
               /\ d.read_pos = before + p.len
               /\ \/ p.len = d.agreed_block_size
                  \/ p.len < d.agreed_block_size /\ d.read_pos = FileLength[d.file]

\* The blocks of an upload are written in increasing order, each at most
\* once, and an ACK names the last one written, never one that was not.
UploadInOrder ==
  \A i \in Sessions :
    LET w == fsm[i].written
        n == Len(w)
    IN  /\ \A k \in 1 .. n - 1 : w[k].word < w[k + 1].word
        /\ fsm[i].file_stream = "write" =>
              fsm[i].last_saved_block = (IF n = 0 THEN 0 ELSE w[n].word)
        /\ st[i] \in {"SendingAck", "WaitingForData"} =>
              /\ fsm[i].send_packet.op = "ACK"
              /\ fsm[i].send_packet.word = fsm[i].last_saved_block

\* A download stops for good at the block whose number would need a seventeenth
\* bit: it never goes round, so a delayed ACK of an earlier lap, which has the
\* same number on the wire, is never taken for a current one.
NoSecondLap == \A i \in Sessions : fsm[i].last_sent_block <= WordSize

\* The size of the last file stays in file_size_ (TransferState::Reset misses it),
\* but no OACK tells it to the next client: a tsize is told only with the size of
\* the file that is served.
OackTellsTheSize ==
  \A i \in Sessions :
    (st[i] \in {"SendingData", "WaitingForAck"} /\ fsm[i].send_packet.op = "OACK"
     /\ "tsize" \in fsm[i].send_packet.options)
      => fsm[i].file_size = FileLength[fsm[i].file]

\* A transfer that moves on does so because its peer acknowledged the very
\* datagram that is in flight.
AckedInFlight(i) ==
  /\ PacketReceived(i, "WaitingForAck")
  /\ Front(i).from = fsm[i].agreed_remote_endpoint
  /\ Front(i).msg.op = "ACK"
  /\ Front(i).msg.word = fsm[i].send_packet.word

\* The next block is read only then (no sorcerer's apprentice: a duplicate ACK
\* causes no transmission).
AdvancesOnCurrentAck ==
  [][\A i \in Sessions :
       (/\ st[i] = "WaitingForAck" /\ fsm[i].file_stream # "write"
        /\ fsm'[i].last_sent_block > fsm[i].last_sent_block)
         => AckedInFlight(i)]_vars

\* A download that an ACK ends is complete: that ACK is of the last block, and
\* the stream has delivered the whole file.
CompletionMeansAll ==
  [][\A i \in Sessions :
       (/\ PacketReceived(i, "WaitingForAck") /\ Front(i).msg.op = "ACK"
        /\ fsm[i].file_stream = "read"
        /\ st'[i] = "Accepting")
         => AckedInFlight(i) /\ fsm[i].read_pos = FileLength[fsm[i].file]]_vars

\* The retries that a transfer has used are given back only then, too: what a
\* stranger sends, an old ACK and a failed read leave the count alone.
RetriesAreEarned ==
  [][\A i \in Sessions :
       (/\ st[i] # "Accepting" /\ fsm[i].file_stream # "write"
        /\ fsm'[i].resend_count < fsm[i].resend_count)
         => st'[i] = "Accepting" \/ AckedInFlight(i)]_vars

\* What a busy session can still do of its own: answer a datagram that is
\* queued, send again, have a send or a wait end, and run what is ready.
Unanswered(o) ==
  \E k \in 1 .. Len(o.ready) : o.ready[k].kind = "receive" /\ o.ready[k].ok
Remaining(s, d, o) ==
  (IF Unanswered(o) THEN 24 ELSE 0)
    + 6 * (ResendLimit - d.resend_count)
    + (IF s \in Sending THEN 4 ELSE 0)
    + (IF o.pending # {} THEN 2 ELSE 0)
    + (IF o.timer THEN 2 ELSE 0)
    + Len(o.ready)

\* Every step of a busy session that is not the arrival of a datagram leaves it
\* less to do, or ends it.  So between two arrivals a transfer takes a bounded
\* number of steps, whatever stale timers, cancelled sends and retries there
\* are, and one that is left alone cannot go round for ever.
SilentStepsDescend ==
  [][\A i \in Sessions :
       (st[i] # "Accepting" /\ ~Arrival(i)) =>
         \/ UNCHANGED <<st[i], fsm[i], io[i]>>
         \/ st'[i] = "Accepting"
         \/ Remaining(st'[i], fsm'[i], io'[i]) < Remaining(st[i], fsm[i], io[i])]_vars

\* After Stop no session listens, and none ever does again.
StopIsFinal ==
  listener = "stopped" => \A i \in Sessions : "accept" \notin io[i].pending

\* When from some time on nothing arrives, every busy session ends: the
\* timeouts run out, and the session is free again (or the process has died).
Quiet(i) == <>[][~Arrival(i)]_vars
SilentSessionEnds ==
  \A i \in Sessions : Quiet(i) =>
    (st[i] # "Accepting" ~> st[i] = "Accepting" \/ crashed)

\* After Stop, when nothing arrives, io_context.run runs out of work and
\* returns: no operation, wait or handler is left behind.
RunReturns ==
  (\A i \in Sessions : Quiet(i)) =>
    (listener = "stopped" ~> crashed \/ \A i \in Sessions : NothingToDo(i))

\* The sessions are the slots of Pool: a session that has taken a request is
\* busy until its reset, and then it listens again unless the server has been
\* stopped; no session listens that was deaf, and none is taken twice.  A
\* session that is free and has a handler to run that brings no request is the
\* failing slot, the only one that goes deaf while the server is open.
AcceptQueued(i, isRequest) ==
  \E k \in 1 .. Len(io[i].ready) :
    LET h == io[i].ready[k]
    IN  h.kind = "accept" /\ (h.ok /\ h.msg.op # "OTHER") = isRequest
Slot(i) ==
  IF "accept" \in io[i].pending THEN "listening"
  ELSE IF st[i] # "Accepting" \/ AcceptQueued(i, TRUE) THEN "busy"
  ELSE IF AcceptQueued(i, FALSE) THEN "failing" ELSE "deaf"
P == INSTANCE Pool WITH Slots <- Sessions, slot <- [i \in Sessions |-> Slot(i)],
       open <- (listener = "open")
SessionsArePool == P!Spec

-----------------------------------------------------------------------------
(* What the documents, comments and tests say, and the code does not do.   *)

\* doc/tftp-server3.dia: a server that receives data waits for data; of its
\* states only those of the read request wait for an ACK.
WriteWaitsForData ==
  \A i \in Sessions : fsm[i].file_stream = "write" => st[i] # "WaitingForAck"

\* doc/tftp-server3.dia: a packet from another endpoint leaves the session
\* waiting; only one from the agreed endpoint ends it.
StrangersAreIgnored ==
  [][\A i \in Sessions :
       (/\ PacketReceived(i, "WaitingForAck")
        /\ Front(i).from # fsm[i].agreed_remote_endpoint)
         => st'[i] = "WaitingForAck"]_vars

\* doc/tftp-server3.dia: a failed accept resets the session, which then
\* accepts again: while the server is open a free session listens.
FreeSessionListens ==
  \A i \in Sessions :
    (st[i] = "Accepting" /\ listener = "open" /\ ~crashed) => "accept" \in Outstanding(i)

\* state/test/waiting_for_ack_test.cpp: the reception of a packet cancels the
\* timer, which then has no effect.
StaleTimerIsHarmless == ~crashed

\* action/test/init_serve_read_request_test.cpp: a file that cannot be opened
\* is reported as FileNotFound.
OpenFailureIsReported ==
  \A i \in Sessions :
    fsm[i].file_stream = "failed" => fsm[i].last_error_code = FileNotFound

\* enter_accepting.h: the last byte of a request must be null.
OnlyFramedRequestsAreServed ==
  [][\A i \in Sessions :
       (st[i] = "Accepting" /\ st'[i] # "Accepting") => Front(i).msg.framed]_vars
=============================================================================
