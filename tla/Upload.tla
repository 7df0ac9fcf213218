------------------------------- MODULE Upload -------------------------------
(***************************************************************************)
(* Uploads from end to end: the sessions of Session, clients that send a   *)
(* file as RFC 1350 says, a network between them, and the disk.            *)
(*                                                                         *)
(* A datagram that was sent stays in the network for good: it may arrive   *)
(* any number of times, in any order, late, or never.  Unlike a download,  *)
(* an upload depends on the port of the session (its TID): a client takes  *)
(* the port that answers first for its peer and sends its data there, and  *)
(* a session that serves a repetition of the request gets none of it.      *)
(***************************************************************************)
EXTENDS Session

CONSTANTS
  NoPort,       \* the client has no answer yet
  MaxTransfers  \* bound on the requests that the listener takes

ASSUME PortAssumption == NoPort \notin Nat /\ MaxTransfers \in Nat

\* A hole in a file: written by nobody, and read as zero.
Hole == 0

Ports == 1 .. MaxTransfers

\* The requests are write requests for files that can be opened.  The tsize of
\* a request is the length of the client's file; the server does not look at it.
ASSUME RequestAssumption ==
  \A r \in Requests : /\ r.op = "WRQ" /\ r.mode /\ r.tsize \in Nat
                      /\ r.path \in Files \ Unopenable

VARIABLES
  want,     \* the request that a client makes
  port,     \* the port of each session's socket, as the number of the transfer
  ports,    \* the number of ports given out
  down,     \* sent by sessions: [port, to, packet]
  up,       \* sent by clients after the request: [from, port, packet]
  peer,     \* the port that a client sends to
  blocks,   \* the number of blocks that a client knows to be acknowledged
  outcome,  \* what a client thinks of the transfer
  target,   \* the file that the session at a port writes
  stream,   \* what the session at a port has given to its fstream
  synced,   \* how much of that the fstream has given to the file
  disk,     \* the contents of the files
  closing,  \* how the fstream of a port was closed: "open", "saved", "lost"
  disturbed \* the ports whose file another one has opened during or after
            \* the upload

netVars == <<want, down, up, peer, blocks, outcome>>
diskVars == <<target, stream, synced, disk, closing, disturbed>>
uploadVars == <<vars, netVars, diskVars, port, ports>>

\* Block n of a file, counted from 1: the last one is shorter than the others.
Least(m, n) == IF m < n THEN m ELSE n
Before(n) == (n - 1) * DefaultBlockSize
Block(size, n) ==
  NewPacket("DATA", n, Before(n), Least(DefaultBlockSize, size - Before(n)), {})
Refusal == NewPacket("ERROR", 0, 0, 0, {})

\* There are as many sessions as the server was built with, and what the clients
\* send is among the datagrams.
ASSUME NetworkAssumption ==
  /\ IsFiniteSet(Sessions)
  /\ Refusal \in Datagrams
  /\ \A r \in Requests, n \in 1 .. WordSize - 1 :
       Before(n) <= r.tsize => Block(r.tsize, n) \in Datagrams

UploadSize(e) == want[e].tsize
DataBlock(e, n) == Block(UploadSize(e), n)
IsLastBlock(e, n) == Before(n) + DefaultBlockSize > UploadSize(e)

-----------------------------------------------------------------------------
(* The disk, as the fstream of the session at port n uses it.              *)

\* The units from place k on of what was written, put into file.
Overwrite(file, k, units) ==
  [p \in 1 .. (IF Len(file) < k - 1 + Len(units) THEN k - 1 + Len(units) ELSE Len(file)) |->
     IF p >= k /\ p < k + Len(units) THEN units[p - k + 1]
     ELSE IF p <= Len(file) THEN file[p] ELSE Hole]

\* Of the units given to the fstream of port n all up to unit k are now in the
\* file.
Sync(n, units, k) ==
  /\ synced' = [synced EXCEPT ![n] = k]
  /\ disk' = IF k = synced[n] THEN disk
             ELSE [disk EXCEPT ![target[n]] =
                     Overwrite(@, synced[n] + 1, SubSeq(units, synced[n] + 1, k))]

\* std::ios::out truncates the file, whoever is at work on it.
Opens(i) ==
  /\ fsm[i].file_stream = "closed" /\ fsm'[i].file_stream = "write"
  /\ ports' = ports + 1
  /\ port' = [port EXCEPT ![i] = ports']
  /\ target' = [target EXCEPT ![ports'] = fsm'[i].file]
  /\ disk' = [disk EXCEPT ![fsm'[i].file] = <<>>]
  /\ LET others == {n \in Ports : target[n] = fsm'[i].file /\ closing[n] = "open"}
     IN  disturbed' = disturbed \cup {n \in Ports : target[n] = fsm'[i].file}
                               \cup (IF others = {} THEN {} ELSE {ports'})
  /\ UNCHANGED <<stream, synced, closing>>

\* WriteData.  The fstream passes on what it likes; when it fails, it has taken
\* a part of the block, perhaps.
Writes(i) ==
  /\ fsm[i].file_stream = "write"
  /\ LET p == Front(i).msg
         n == port[i]
     IN  \E taken \in 0 .. p.len :
           LET units == stream[n] \o [k \in 1 .. taken |-> p.pos + k]
           IN  /\ fsm'[i].last_error_code = NoError => taken = p.len
               /\ stream' = [stream EXCEPT ![n] = units]
               /\ \E k \in synced[n] .. Len(units) : Sync(n, units, k)
  /\ UNCHANGED <<port, ports, target, disturbed, closing>>

\* Mutant: what is left in the buffer is dropped.
ClosesUnflushed(i) ==
  /\ fsm[i].file_stream = "write" /\ fsm'[i].file_stream = "closed"
  /\ closing' = [closing EXCEPT ![port[i]] = "saved"]
  /\ UNCHANGED <<port, ports, target, disturbed, stream, synced, disk>>

\* Reset: close writes the rest, or as much of it as it can.
Closes(i) ==
  /\ fsm[i].file_stream = "write" /\ fsm'[i].file_stream = "closed"
  /\ LET n == port[i]
     IN  \E k \in synced[n] .. Len(stream[n]) :
           /\ Sync(n, stream[n], k)
           /\ closing' = [closing EXCEPT ![n] = IF k = Len(stream[n]) THEN "saved" ELSE "lost"]
  /\ UNCHANGED <<port, ports, target, disturbed, stream>>

Unwritten == UNCHANGED <<diskVars, port, ports>>

-----------------------------------------------------------------------------
(* The sessions.                                                           *)

RequestIsDelivered(i) ==
  /\ ports + Cardinality({j \in Sessions : "accept" \in Queued(j)}) < MaxTransfers
  /\ \E e \in Endpoints : Completes(i, "accept", Received("accept", want[e], e))
  /\ UNCHANGED <<netVars, diskVars, port, ports>>

DatagramIsDelivered(i) ==
  /\ \E m \in up : /\ m.port = port[i]
                   /\ Completes(i, "receive", Received("receive", m.packet, m.from))
  /\ UNCHANGED <<netVars, diskVars, port, ports>>

ServerSends(i) ==
  /\ SendCompletes(i)
  /\ down' = down \cup {[port |-> port[i], to |-> fsm[i].agreed_remote_endpoint,
                         packet |-> fsm[i].send_packet]}
  /\ UNCHANGED <<want, up, peer, blocks, outcome, diskVars, port, ports>>

ServerHandles(i) ==
  /\ \/ ServeWriteRequest(i) /\ Opens(i)
     \/ SaveData(i) /\ Writes(i)
     \/ /\ ErrorSent(i) \/ GiveUpData(i) \/ GiveUpAck(i) \/ FinishRead(i)
        /\ Closes(i)
     \/ /\ \/ AcceptingFails(i) \/ IgnoreRequest(i) \/ DataSent(i) \/ AckSent(i)
           \/ ResendData(i) \/ KeepWaitingForAck(i) \/ RefuseAck(i)
           \/ ResendAck(i) \/ IgnoreData(i) \/ RefuseData(i) \/ TimerFires(i)
        /\ Unwritten
  /\ UNCHANGED netVars

ServerStep(i) ==
  /\ AcceptFails(i) \/ ReceiveFails(i) \/ TimerExpires(i)
  /\ UNCHANGED <<netVars, diskVars, port, ports>>

-----------------------------------------------------------------------------
(* The clients.                                                            *)

ClientStep == UNCHANGED <<vars, want, down, diskVars, port, ports>>

Transmit(e, n, packet) == up' = up \cup {[from |-> e, port |-> n, packet |-> packet]}

\* The first ACK tells the port; from then on only that port counts.  The ACK
\* of the last block ends the upload, any other one asks for the next block.
ClientTakesAck(e) ==
  /\ outcome[e] = "open"
  /\ \E m \in down :
       /\ m.to = e /\ m.packet.op = "ACK"
       /\ \/ peer[e] = NoPort /\ m.packet.word = 0 /\ UNCHANGED blocks
          \/ /\ peer[e] = m.port /\ m.packet.word = blocks[e] + 1
             /\ blocks' = [blocks EXCEPT ![e] = @ + 1]
       /\ peer' = [peer EXCEPT ![e] = m.port]
  /\ IF blocks'[e] > 0 /\ IsLastBlock(e, blocks'[e])
     THEN /\ outcome' = [outcome EXCEPT ![e] = "complete"]
          /\ UNCHANGED up
     ELSE /\ blocks'[e] + 1 < WordSize
          /\ Transmit(e, peer'[e], DataBlock(e, blocks'[e] + 1))
          /\ UNCHANGED outcome
  /\ ClientStep

\* It is told of an error by its peer, or gives up.
ClientFails(e) ==
  /\ outcome[e] = "open"
  /\ outcome' = [outcome EXCEPT ![e] = "failed"]
  /\ UNCHANGED <<up, peer, blocks>>
  /\ ClientStep

\* A port that is not the peer is told so.
ClientRefuses(e) ==
  /\ peer[e] # NoPort
  /\ \E m \in down : /\ m.to = e /\ m.port # peer[e]
                     /\ Transmit(e, m.port, Refusal)
  /\ UNCHANGED <<peer, blocks, outcome>>
  /\ ClientStep

-----------------------------------------------------------------------------

UploadInit ==
  /\ Init
  /\ want \in [Endpoints -> Requests]
  /\ port = [i \in Sessions |-> 0] /\ ports = 0
  /\ down = {} /\ up = {}
  /\ peer = [e \in Endpoints |-> NoPort]
  /\ blocks = [e \in Endpoints |-> 0]
  /\ outcome = [e \in Endpoints |-> "open"]
  /\ target = [n \in Ports |-> NoFile]
  /\ disturbed = {}
  /\ stream = [n \in Ports |-> <<>>]
  /\ synced = [n \in Ports |-> 0]
  /\ disk = [f \in Files |-> <<>>]
  /\ closing = [n \in Ports |-> "open"]

UploadNext ==
  \/ \E i \in Sessions : \/ RequestIsDelivered(i) \/ DatagramIsDelivered(i)
                         \/ ServerSends(i) \/ ServerHandles(i) \/ ServerStep(i)
  \/ \E e \in Endpoints : ClientTakesAck(e) \/ ClientFails(e) \/ ClientRefuses(e)
  \/ (Stop \/ Halted) /\ UNCHANGED <<netVars, diskVars, port, ports>>

UploadSpec == UploadInit /\ [][UploadNext]_uploadVars

-----------------------------------------------------------------------------
(* The properties.                                                         *)

\* The sessions' variables are as in Session; the network, the clients and the
\* disk hold values of their types.
UploadTypeOK ==
  /\ TypeOK
  /\ want \in [Endpoints -> Requests]
  /\ ports \in 0 .. MaxTransfers /\ port \in [Sessions -> 0 .. MaxTransfers]
  /\ down \subseteq [port : Ports, to : Endpoints, packet : Packet]
  /\ up \subseteq [from : Endpoints, port : Ports, packet : Datagrams]
  /\ peer \in [Endpoints -> Ports \cup {NoPort}]
  /\ blocks \in [Endpoints -> Nat]
  /\ outcome \in [Endpoints -> {"open", "complete", "failed"}]
  /\ target \in [Ports -> Files \cup {NoFile}]
  /\ stream \in [Ports -> Seq(Nat)]
  /\ synced \in [Ports -> Nat]
  /\ disk \in [Files -> Seq(Nat)]
  /\ closing \in [Ports -> {"open", "saved", "lost"}]
  /\ disturbed \subseteq Ports

\* What the session that a client sends to has given to its fstream is at all
\* times a beginning of the client's file, without a gap or a repetition, and
\* a client that has the ACK of its last block knows that all of the file was
\* given to it - although a session would take any block with a number above
\* the last, blocks arrive twice and late, and row 93 leads astray.
T == INSTANCE Transfer WITH Clients <- Endpoints,
       size <- [e \in Endpoints |-> UploadSize(e)],
       got <- [e \in Endpoints |-> IF peer[e] = NoPort THEN <<>> ELSE stream[peer[e]]]
UploadIsTransfer == T!Spec

\* When the session of a completed upload has closed its file, and the close
\* did not fail, and no other upload of that file was under way or came later,
\* the file on disk is the client's.
UndisturbedUploadIsSaved ==
  \A e \in Endpoints :
    (/\ outcome[e] = "complete" /\ closing[peer[e]] = "saved"
     /\ peer[e] \notin disturbed)
      => disk[want[e].path] = T!FirstUnits(UploadSize(e))
=============================================================================
