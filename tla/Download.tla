------------------------------ MODULE Download ------------------------------
(***************************************************************************)
(* Downloads from end to end: the sessions of Session, clients that fetch  *)
(* a file as RFC 1350 says, and a network between them.                    *)
(*                                                                         *)
(* A datagram that was sent stays in the network for good: it may arrive   *)
(* any number of times, in any order, late, or never.  So a client that    *)
(* repeats its request or its last ACK does nothing new.  What clients     *)
(* send may reach any session: a session sees the datagrams of its peer    *)
(* and, as if they were sent to the wrong port, those of the others.       *)
(***************************************************************************)
EXTENDS Session

\* What the clients ask for is served: the files can be opened.
ASSUME RequestAssumption ==
  \A r \in Requests : r.op = "RRQ" /\ r.mode /\ r.path \in Files \ Unopenable

\* What clients send after the request.
Acks == {NewPacket("ACK", w, 0, 0, {}) : w \in 0 .. WordSize - 1}
Refusal == NewPacket("ERROR", 0, 0, 0, {})
ASSUME ReplyAssumption == Acks \cup {Refusal} \subseteq Datagrams

VARIABLES
  want,     \* the request that a client makes
  down,     \* sent by sessions: [to, packet]
  up,       \* sent by clients: [from, packet]
  blocks,   \* the number of blocks a client has
  content,  \* what it has of the file, each unit as its place
  outcome   \* what it thinks of the transfer

clientVars == <<want, down, up, blocks, content, outcome>>
downloadVars == <<vars, clientVars>>

BlockSize(e) == IF want[e].blksize = None THEN DefaultBlockSize ELSE want[e].blksize
FileSize(e) == FileLength[want[e].path]

-----------------------------------------------------------------------------
(* The sessions.                                                           *)

RequestIsDelivered(i) ==
  /\ \E e \in Endpoints : Completes(i, "accept", Received("accept", want[e], e))
  /\ UNCHANGED clientVars

DatagramIsDelivered(i) ==
  /\ \E m \in up : Completes(i, "receive", Received("receive", m.packet, m.from))
  /\ UNCHANGED clientVars

ServerSends(i) ==
  /\ SendCompletes(i)
  /\ down' = down \cup {[to |-> fsm[i].agreed_remote_endpoint,
                         packet |-> fsm[i].send_packet]}
  /\ UNCHANGED <<want, up, blocks, content, outcome>>

ServerStep(i) ==
  /\ Handle(i) \/ AcceptFails(i) \/ ReceiveFails(i) \/ TimerExpires(i)
  /\ UNCHANGED clientVars

-----------------------------------------------------------------------------
(* The clients: lock-step, and without block numbers beyond the word.      *)

Reply(e, packet) == up' = up \cup {[from |-> e, packet |-> packet]}
Arrives(e, packet) == [to |-> e, packet |-> packet] \in down

\* The options are agreed; the ACK asks for the first block.
ClientAcksOptions(e) ==
  /\ outcome[e] = "open" /\ blocks[e] = 0
  /\ \E options \in SUBSET OptionNames : Arrives(e, NewPacket("OACK", 0, 0, 0, options))
  /\ Reply(e, NewPacket("ACK", 0, 0, 0, {}))
  /\ UNCHANGED <<vars, want, down, blocks, content, outcome>>

\* The next block; a short one is the last.
ClientTakesBlock(e) ==
  /\ outcome[e] = "open"
  /\ \E m \in down :
       /\ m.to = e /\ m.packet.op = "DATA" /\ m.packet.word = blocks[e] + 1
       /\ content' = [content EXCEPT ![e] =
                        @ \o [k \in 1 .. m.packet.len |-> m.packet.pos + k]]
       /\ outcome' = [outcome EXCEPT ![e] =
                        IF m.packet.len < BlockSize(e) THEN "complete" ELSE @]
       /\ Reply(e, NewPacket("ACK", m.packet.word, 0, 0, {}))
  /\ blocks' = [blocks EXCEPT ![e] = @ + 1]
  /\ UNCHANGED <<vars, want, down>>

\* It is told of an error, or gives up and says so.
ClientFails(e) ==
  /\ outcome[e] = "open"
  /\ outcome' = [outcome EXCEPT ![e] = "failed"]
  /\ \/ /\ \E m \in down : m.to = e /\ m.packet.op = "ERROR"
        /\ UNCHANGED up
     \/ Reply(e, Refusal)
  /\ UNCHANGED <<vars, want, down, blocks, content>>

\* A session that serves a repeated request is turned away.
ClientRefuses(e) ==
  /\ outcome[e] # "open"
  /\ Reply(e, Refusal)
  /\ UNCHANGED <<vars, want, down, blocks, content, outcome>>

-----------------------------------------------------------------------------

DownloadInit ==
  /\ Init
  /\ want \in [Endpoints -> Requests]
  /\ down = {} /\ up = {}
  /\ blocks = [e \in Endpoints |-> 0]
  /\ content = [e \in Endpoints |-> <<>>]
  /\ outcome = [e \in Endpoints |-> "open"]

DownloadNext ==
  \/ \E i \in Sessions : \/ RequestIsDelivered(i) \/ DatagramIsDelivered(i)
                         \/ ServerSends(i) \/ ServerStep(i)
  \/ \E e \in Endpoints : \/ ClientAcksOptions(e) \/ ClientTakesBlock(e)
                          \/ ClientFails(e) \/ ClientRefuses(e)
  \/ (Stop \/ Halted) /\ UNCHANGED clientVars

DownloadSpec == DownloadInit /\ [][DownloadNext]_downloadVars

-----------------------------------------------------------------------------
(* The properties.                                                         *)

\* The sessions' variables are as in Session; the network and the clients hold
\* values of their types.
DownloadTypeOK ==
  /\ TypeOK
  /\ want \in [Endpoints -> Requests]
  /\ down \subseteq [to : Endpoints, packet : Packet]
  /\ up \subseteq [from : Endpoints, packet : Datagrams]
  /\ blocks \in [Endpoints -> Nat]
  /\ content \in [Endpoints -> Seq(Nat)]
  /\ outcome \in [Endpoints -> {"open", "complete", "failed"}]

\* What a client has is at all times a beginning of its file, and it takes the
\* download for complete only with the whole file, however datagrams are lost,
\* repeated and reordered, requests are served twice and sessions give up.
T == INSTANCE Transfer WITH Clients <- Endpoints, got <- content,
       size <- [e \in Endpoints |-> FileSize(e)]
DownloadIsTransfer == T!Spec

\* A session that an ACK of its peer ends has a peer with the whole file: an
\* ACK that is old, late or of a repeated request never ends a download.
FinishedMeansDelivered ==
  [][\A i \in Sessions :
       (/\ PacketReceived(i, "WaitingForAck") /\ Front(i).msg.op = "ACK"
        /\ st'[i] = "Accepting")
         => outcome[fsm[i].agreed_remote_endpoint] = "complete"]_downloadVars
=============================================================================
