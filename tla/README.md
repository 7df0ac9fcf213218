# A TLA+ model of msm-tftp

msm-tftp is a TFTP server (RFC 1350, with the options of RFC 2347-2349) written
in C++ with Boost.MSM and Boost.Asio. This directory holds a TLA+ model of its
sessions and of its request parser, their composition with clients, a network
and a disk, the TLC configurations that check them on small instances, and
proofs that TLAPS checks for every value of the constants.

    tlc -config MCSession_core.cfg MCSession      model-check one run
    tlapm SessionProofs.tla                       check the proofs of one module

All paths below are relative to `src/src/`. `<part>/x.h` stands for
`<part>/include/zwiibac/tftp/<part>/x.h`.

## 1. The system

| Component | State it keeps | Operations | What makes it correct |
|---|---|---|---|
| Server `tftp_server/.../server.h` | the sessions, a `shared_ptr` to the listener socket | `Start`, `Stop` | after `Stop` nobody listens and `io_context::run` returns |
| Session machine `machine/transition_table.h`, `state_machine.h` | the MSM state | `process_event` for `RequestReceived`, `AcceptingFailed`, `PacketSent`, `PacketReceived`, `TimedOut` | every event finds a row; a transfer ends in a reset session |
| Session data `data/*.h`, `machine/session_data.h` | `TransferState`, `Option`, `Timer`, `File`, `Connection`, `Buffer` | the actions below, `Reset` | `Reset` leaves nothing of one transfer for the next |
| Guards `guard/*.h` | none | predicates on the data and the received packet | an old or foreign packet is not taken for a current one |
| Actions `action/*.h` | change the session data | `InitServe...Request`, `Form...Packet`, `WriteData`, `TimeOut`, `ResetTimeOut`, `Reset` | the packet in flight is the right part of the file; an error is not overwritten |
| Entry and exit actions `state/*_action/*.h` | operations in flight | start the operation a state waits for, cancel what is left | exactly one operation is outstanding for a busy session |
| Protocol `protocol/*.h` | none | headers, opcodes, error codes | 16-bit numbers |
| Request parsing `protocol/request.h`, `options.h`, `mode.h`, `enter_accepting.h:54-124` | none | tokens, option decoders, mode | a malformed request or value is refused |
| File paths `data/src/file_path.cpp` | the root path | `GetReadFilePath`, `GetWriteFilePath`, `GetFileSize` | the file lies below the root |
| TID `protocol/src/tid.cpp` | none | `CreateTid` | a random port |
| Logging, traces | none | | |
| Boost.Asio (external) | operations, timers, queue of handlers | `async_receive_from`, `async_send_to`, `async_wait`, `cancel`, `close`, `run` | |

**How they interact.** The program has one thread. `io_context::run` runs the
handlers of completed operations one after the other; a handler sends one event
to its session's machine, and `process_event` runs to completion: guard, exit
action of the source, action, entry action of the target, then the anonymous
rows. The entry action starts the next asynchronous operation, whose handler
brings the next event. The sessions share the listener socket, on which every
free session has an `async_receive_from`; a session that has taken a request
opens a socket of its own.

**What is hard about it.** The order of handlers: a timer that has expired can
no longer be cancelled, and its handler runs after the session has moved on.
Datagrams get lost, duplicated, delayed and come from strangers. One session
object serves transfer after transfer. Reads and writes fail half-way. Block
numbers are 16 bits wide on the wire and wider in memory. `Stop` may come in any
state. `PROJECT.json` lists every hazard at its line, with the properties
that cover it or the reason why none does.

## 2. The modules

| Module | Content |
|---|---|
| `RequestEvent` | the decoded request: what the parser hands to a session |
| `Session` | the sessions, the part of Asio they use, an open environment, the properties |
| `Pool` | abstract: slots that listen, are busy, fail to take a request, or have gone deaf |
| `Transfer` | abstract: a file that its receiver gets from the front, and its end as the client sees it |
| `Download` | `Session` with clients that fetch files and a network; implements `Transfer` |
| `Upload` | `Session` with clients that send files, a network, ports and a disk; implements `Transfer` |
| `RequestParsing` | the loop of `ProcessEventFromBuffer`, the tokenizer, the decoders |
| `MCSession`, `MCDownload`, `MCUpload`, `MCRequestParsing` | the instances for TLC |
| `SessionProofs` | the inductive invariant of a session, and the theorems that follow from it |
| `SessionStepProofs` | the kinds of steps a session makes; sizes in OACKs; `Session` implements `Pool`; retries, and the measure that every silent step lowers |
| `TransferProofs` | what being a `Transfer` means for the client |
| `DownloadProofs`, `UploadProofs` | the invariants of the compositions; both implement `Transfer` and are made of sessions |
| `RequestParsingProofs` | the parser reads what is written and stops, for datagrams of any length |
| `Induction`, `DecodingProofs` | induction, recursive functions and sums; the decoders compute what the digits denote |

`RequestEvent` is extended by `Session` and by `RequestParsing`: the set
`Request` is the interface between the two, `Decoded` builds a member of it.
`Download` and `Upload` extend `Session`; each of their steps is a step of
`Session` or leaves it alone (`DownloadsRunSessions` and `UploadsRunSessions` in the
proofs), so everything that holds of `Session` in its open environment holds in the
compositions.

### Session: state

| Variable | Code |
|---|---|
| `st[i]` | MSM's current state. `Resetted`, `ReadRequestReceived`, `WriteRequestReceived`, `DataRead` and `DataWritten` are left by anonymous rows only, so no handler ever sees them, and they are not values of `st` |
| `fsm[i]` | the members of the session, under their names. `read_pos` is the position of `file_stream_`, `written` the packets it was given, `file_stream` whether it is open for reading, for writing, closed, or has failbit |
| `io[i]` | what Asio holds: is `socket_` open, the operations in flight, does `timer_` have a wait, the queue of ready handlers with the buffer and endpoint that each operation filled |
| `listener` | does `TftpServer` still hold the listener |
| `crashed` | an exception has left `io_context::run` |
| `attempts[i]` | history: how often the datagram in `send_packet_` was sent |

### Session: actions

`Handle(i)` has one action for each row that a handler can take, with the row's
whole run to completion. The action `Step` enters the target, `Left` is what the
exit action leaves. Rows 87-88, 95-96, 116-120 are anonymous and part of the
action before them (`AckOrError`, `DataRead`, `ServeReadRequest`). MSM tries the
rows of a state from the last to the first; where two guards overlap, the
actions of the later row exclude those of the earlier (`HasErrReceived` before
row 125, `HasError` before `HasOptions`).

| Action | Row of `transition_table.h` | Action | Row |
|---|---|---|---|
| `ErrorSent` | 69, 70 | `AcceptingFails` | 71 |
| `ServeWriteRequest` | 86-88 | `AckSent` | 89 |
| `ResendAck` | 90 | `GiveUpAck` | 91 |
| `RefuseData` | 92 | `IgnoreData` | 93 |
| `SaveData` | 94-96 | `ServeReadRequest` | 115-120 |
| `DataSent` | 121 | `ResendData` | 122 |
| `GiveUpData` | 123 | `RefuseAck` | 124 |
| `KeepWaitingForAck` | 125 | `SendNextData` | 126, 119, 120 |
| `FinishRead` | 127, 70 | `IgnoreRequest` | no row takes the request |

`TimerFires` is the handler of `timer_` (`enter_receive.h:52-59`). The
environment completes operations (`RequestArrives`, `DatagramArrives`,
`SendCompletes`, and the failing ones), lets timers expire, and calls `Stop`.
It is open: any datagram of the constant `Datagrams` from any endpoint may
arrive whenever a receive is in flight. Whatever a network and any client,
correct or not, can do is therefore among the behaviours.

### Pool

`Slot(i)` of `Session` is the refinement mapping: a session is *listening* while
its `async_receive_from` on the listener is in flight, *busy* from the arrival of
a request to the end of its transfer, *failing* while a handler is queued that
brings it an error or a datagram that is no request, and otherwise *deaf*.
`SessionsArePool` says that a slot takes one request at a time and gives itself back
once, that nobody listens after `Stop`, and that while the server is open only a
failing slot goes deaf: `Deafen` is not enabled in a listening slot, and `Release`
makes a slot deaf only after `Stop`. That a deaf slot stays deaf is what the code does
(the finding `wedge`); `Pool` says so instead of hiding it.

### Download and Upload

| Variable | Meaning |
|---|---|
| `want[e]` | the request that client `e` makes, and may make again at any time |
| `down`, `up` | everything that sessions and clients have ever sent |
| `blocks[e]`, `outcome[e]` | how far the client is, and what it thinks of the transfer |
| `content[e]` (download) | what the client has of the file |
| `port[i]`, `ports`, `peer[e]` (upload) | the TID of a session's socket, how many were drawn, the TID a client has chosen |
| `target`, `stream`, `synced`, `closing` (upload) | for each port: the file, what was given to the `fstream`, how much of it the `fstream` has passed on, how it was closed |
| `disk`, `disturbed` (upload) | the files; the ports whose file another session has opened meanwhile |

*The network* is a set that only grows, and taking a datagram from it is not
removing it: a datagram may arrive again, late, in any order or never. The request
is one of them: it may be taken by any session that listens, at any time.
`RequestIsDelivered` and `DatagramIsDelivered` replace the open arrivals of
`Session`, `ServerSends` is `SendCompletes` with the datagram put into the network.

*The clients* are not part of the repository. They are lock-step clients as RFC
1350 describes them: the next block or ACK is the one with the next number, a
short block is the last, an answer from a strange port is refused
(`ClientRefuses`), and they may give up at any time (`ClientFails`).

*Ports.* In a download every session may get what any client sends, which is more
than can happen and needs no ports. An upload depends on them: a client sends its
data to the port that answered first, and a session that serves a repetition of
the request must get none of it. `CreateTid` draws a random number, and `Upload`
gives each transfer one that no earlier transfer had.

*The disk.* `WriteData` gives a block to the `fstream`, which passes on as much as it
likes (`Writes`: any `k` between `synced` and what it was given) and may fail
within the block; `Reset` closes it, and `close` passes on the rest or fails
(`Closes`), which the code only logs. Opening truncates the file, whoever else
has it open (`Opens`).

### RequestParsing

| Variable | Code |
|---|---|
| `buffer` | the datagram behind the opcode |
| `token_iter` | `current_` and `next_` of `RequestTokenizer::Iterator` |
| `event` | `request_received_event` |
| `phase` | the place in `ProcessEventFromBuffer` |
| `sent` | the events passed to `process_event` |

One action for each statement that takes a token: `CheckFraming`, `ReadFileName`,
`ReadMode`, and `ReadOption` for a round of the loop. A text is
its leading decimal digits, the rest, and whether a letter was in upper case:
this is what the decoders, `Equal` and `GetMode` can tell apart. Every sequence in
which no two texts are neighbours is a datagram.

### Abstractions

* A packet is a record of opcode, word, and the part of the file that its
  payload is. Texts, byte order and buffers are left out.
* `Data` leaves out the members that are set again before anything reads them:
  `received_packet_`, which `enter_accepting.h:38` and `enter_receive.h:40` and `47` set
  before they raise the event whose guards read it, and `last_remote_endpoint_` (in the
  model the `msg` and `from` of the handler that runs); the buffers;
  `local_data_endpoint_`, which each `InitServe...Request` sets before it is bound (it is
  otherwise only logged). What
  `Reset` does to them has no effect and is not part of `ResetData`, and
  `ResetRestoresDefaults` says nothing of them.
* In `Session` a request is what `EnterAccepting` makes of it: opcode, whether the
  datagram was framed as required, whether the mode is known, the file or a
  rejection, and the value of each option or `None`. How it is made of a datagram
  is `RequestParsing`.
* An I/O error of the device is a choice in `FormDataPacket` (badbit) and
  `WriteData` (failbit). `FileLength` does not change during a transfer.
* `socket_.open` is assumed to succeed (hazard at `init_serve_read_request.h:29`).
  A failed bind is only logged by the code and changes nothing.
* Timers have no duration: a wait may expire at any time, even at the same
  moment as the receive beside it completes.
* The handlers of one session run in the order in which they became ready; those
  of two sessions in any order.

## 3. The runs

| Run | States | Shows |
|---|---|---|
| `core` | 467,363 | one session, open environment: `TypeOK`, `InFlightMatchesState`, `ResetRestoresDefaults`, `ErrorIsReported`, `RetryBudget`, `DownloadInOrder`, `UploadInOrder`, `NoSecondLap`, `OackTellsTheSize`, `AdvancesOnCurrentAck`, `CompletionMeansAll`, `RetriesAreEarned`, `SilentStepsDescend` |
| `pool` | 34,193 | two sessions and `Stop`: `StopIsFinal`, refinement `SessionsArePool` |
| `silent` | 2,529 | liveness: `SilentSessionEnds`, `RunReturns` |
| `download` | 218,152 | session, client, network: `DownloadTypeOK`, refinement `DownloadIsTransfer`, `FinishedMeansDelivered` |
| `upload` | 246,488 | session, client, network, disk: `UploadTypeOK`, refinement `UploadIsTransfer`, `UndisturbedUploadIsSaved` |
| `parsing` | 5,149 | every short datagram: `TypeOK`, `ParsedAsWritten`, `DecodedAsWritten`, liveness `EveryDatagramIsHandedOn` |
| `row93`, `stranger`, `wedge`, `stale_timer`, `open_failure`, `framing` | | each finds the violation of one statement of the documents, comments or tests (section 5) |

**Why these bounds are enough.** *Session* (`core`, `pool`, `silent`): words of
`WordSize = 5`, files of 3 and 6 units, block sizes of 1 and 2, `ResendLimit = 3`
as in the code. A session has no counter that grows without limit except the
block number, which `NoSecondLap` bounds by `WordSize`; `written` is bounded
because the numbers in it increase below `WordSize`. So every instance is finite
without a state constraint. With a file of three units and blocks of two and of
one the last block is partial in one case and empty in the other, and there are
full blocks before it; the file of six units in blocks of one comes to the end of
the numbers, and the empty file is one empty block. Requests with `tsize` for two files
of different lengths let the size of the one be left in `file_size_` when the other is
served. The ACK numbers of `core` cover the whole word; the DATA numbers are
old ones, the next, one beyond a gap and the largest. Sessions share nothing but
`listener` and `crashed`, so two of them show every interaction; they are
interchangeable, and `pool` checks no liveness, so its symmetry is sound.

*Download*: one session, one client, one of three requests: a file that ends within
its second block, one that ends exactly behind its first (so that an empty block
follows) with two options and hence an OACK, and one in so many blocks that the
numbers of `WordSize = 4` come to their end. Since the request stays in the network
the session serves it again and again, and the datagrams of all these transfers
meet; two sessions and one request have been checked once (1.8 million states)
without a new case, and the theorem is about any number.

*Upload*: files that end within the second block and right behind the first.
`MaxTransfers = 2` bounds how often the request is served: two transfers are the
least for which a repeated request truncates a file, a client sees a strange port
and a port is not the peer's. The counter stands in the guard of
`RequestIsDelivered`. Two sessions (5.6 million states) have been checked once; the
proofs are for any number.

*RequestParsing*: all well-formed sequences of up to five symbols over six texts
and the null byte, and complete requests with one and two options, empty tokens, a
key without a value and an unterminated tail, with values on both sides of every
limit; `SizeMax = 99999` is in reach of an overflow.

**Fairness.** `silent`: weak fairness of `Handle(i)`, since `io_context::run` runs
ready handlers in order; of `SendCompletes(i)`: a UDP send completes, with or
without an error; of `TimerExpires(i)`: a steady clock reaches every wait that is not
cancelled. None for arrivals, and none for `Stop`. The two properties assume
that from some time on nothing arrives at a session: with traffic they are
false, because every foreign or old datagram restarts the clock (row 125). The
alternative `crashed` in both is the finding `stale_timer`. `parsing`: weak
fairness of `Parse`, which is one sequential function that does not block.
`Download`, `Upload` and `Pool` state no fairness: with a network that may lose
everything nothing can be promised but safety.

Every property of a passing run has a mutant: a change of one mapped definition,
as a plausible slip in that code would make it, that the run must find.

## 4. The proofs

Proved are every invariant and action property of the passing runs, and the three
refinements. The theorems on `Session` hold for every set of sessions, endpoints, files,
requests and datagrams, every file length, block size and word size above
`ResendLimit`; those on the parser for every datagram. The theorems on `Download` and
`Upload` rest on the assumptions of these modules besides: the requests are read
requests (in `Upload`, write requests) of a known mode for files that can be opened, the
datagrams include those of an RFC 1350 client (`ReplyAssumption`, `NetworkAssumption`), and
in `Upload` the sessions are finitely many and each transfer has a port that none had
before it.

| Module | Theorems |
|---|---|
| `SessionProofs` | `Invariance` and, from it, types, `InFlightMatchesState`, `ResetRestoresDefaults`, `ErrorIsReported`, `RetryBudget`, `DownloadInOrder`, `UploadInOrder`, `NoSecondLap`, `StopIsFinal`, `AdvancesOnCurrentAck`, `CompletionMeansAll` |
| `SessionStepProofs` | `SizesAreTrue` (`OackTellsTheSize`), `SessionsImplementPool`, `RetriesAreAlwaysEarned` (`RetriesAreEarned`), `SilentStepsAlwaysDescend` (`SilentStepsDescend`), `SilenceIsShort`, `EveryEventHasARow` |
| `TransferProofs` | `TransferInvariance`, `PromiseIsKept`, `NothingIsTakenBack` |
| `DownloadProofs` | `DownloadInvariance`, `DownloadTypesCorrect`, `DownloadsAreTransfers`, `FinishesAreDelivered`, `DownloadsRunSessions`, `DownloadsKeepThePromise` |
| `UploadProofs` | `UploadInvariance`, `UploadTypesCorrect`, `UploadsAreTransfers`, `UploadsAreSaved`, `UploadsRunSessions`, `UploadsKeepThePromise` |
| `RequestParsingProofs` | `ParserInvariance`, `ParserTypesCorrect`, `RequestsAreParsedAsWritten`, `ParsingIsShort` |
| `DecodingProofs` | `OptionsAreDecodedAsWritten` (`DecodedAsWritten`), `ParserMakesRequests` |

### One session

**The inductive invariant.** `IInv` is `TypeOK`, `StopIsFinal` and, for each
session `i`, `SessionOK(i)`:

* `DataOK(st[i], fsm[i])` - what the data must be in a state. `TransferOK` holds
  in all of them: the type, a readable stream stands within its file
  (`StreamOK`), the block number has not gone round (`LapOK`), the numbers
  written increase and the last is `last_saved_block_` (`WrittenOK`). A free
  session has its defaults (`Fresh`), a recorded error is being reported and a
  session in `SendingError` has an ERROR to send (`ErrorOK`), and otherwise
  `send_packet_` is an ACK, OACK or DATA that agrees with the
  counters (`PacketOK`). The last is needed because a datagram is sent again
  from `send_packet_` and answered against `last_sent_block_`, and only their
  agreement makes the two the same block.
* `IoOK(st[i], io[i])` - the three shapes that the operations can have: the
  awaited one is in flight, with at most one stale expiry in the queue; its
  handler is queued, possibly between a stale expiry and one of its own wait;
  or an accepting session does not listen. `InFlightMatchesState` alone is not
  inductive: without the place of the expiries in the queue a stale one could be
  followed by another.
* `attempts[i] <= resend_count + 1`, of which `RetryBudget` is the consequence.

`WrittenOK` is what makes the upload inductive across row 93, where an upload
goes on in the states of a download: `PacketOK` therefore allows an ACK in
flight in `WaitingForAck`, and `DataInFlight` says nothing of the payload while
the stream is open for writing.

**The argument.** One lemma for each operator of the data says what it
changes and what it preserves; one for each operator on `Io` that it leads from
one of the shapes to another. `StepInv` puts them together: a transition whose
target state and data satisfy `DataOK`, and which stays within the budget,
keeps `IInv`. Each action of `Next` then has a lemma that shows these
premises; `NextInv` collects them, `Invariance` is the temporal conclusion, and
the theorems on single properties follow from `IInv`. `NoSecondLap` comes out of
`CurrentAck`: a word is below `WordSize`, so an ACK that is not old and not in
the future is of a block below `WordSize`, and the block after it is at most
`WordSize`. The assumptions used are those of the module: types of the
constants, `WordSize > ResendLimit`, sentinels outside the types.

### The kinds of steps, and the pool

Seen from outside, a handler of a session that takes a row does one of three
things: it begins to serve a request (`Begins`), goes on with it and keeps what the
request determined (`Proceeds`), or ends (`Ends`). `HandleMoves` shows once that each
action of `Handle` is of one of these kinds or an idle one; what follows is then a
few cases and not nineteen. `OackTellsTheSize` needs a second invariant, `SizeInv`, on
the size that is kept while an OACK with `tsize` is in flight: `Reset` leaves
`file_size_`, and the size is told only after it was set anew.
`SessionsImplementPool` maps the kinds, the arrivals and `Stop` to the slots; the shapes
of `IoOK` decide in which of its four states a slot is: the queue of a free session has at
most one handler that is not an expiry (`OneAccepted`), and it tells *busy* from *failing*.

`EveryEventHasARow` follows from the same shapes: a handler that is queued is the one the
state waits for, or an expiry, so MSM never calls `no_transition`, which asserts. A
guard that rejects its event is not that case (the finding `wedge`).

**Retries and silence.** `Costs` and `Spends` sort the handlers once more, by what they do
to `resend_count_`. Only `ResetTimeOut` on the way to the next block, and `Reset`, lower it
outside an upload, and `CurrentAckInFlight` makes that the ACK of the datagram in flight:
`RetriesAreEarned`. `SilentStepsDescend` is the safety half of `SilentSessionEnds`. Its
measure, `Remaining`, adds up what a session can still do when nothing arrives: a
datagram that is queued and not answered, the retries, the send or the wait that is under
way, the handlers that are ready. The weights are those at which every row pays for what
it starts: a retry (6) for a send and the wait behind it with their handlers, an unanswered
datagram (24) for a send and three retries that are given back. Every
step that is not an arrival lowers it or ends the transfer, and `SilenceIsShort` bounds
it by 46. What fairness adds is only that the steps are taken.

### Downloads

`DInv` is `IInv` with: what is queued for a session was sent (`ServerInv`), and the
session serves what its peer wants; every DATA in the network is a block of the file
of its receiver, placed by its number (`DownInv`); every ACK in the network is of a
block that its sender has (`UpInv`); what a client has is exactly its blocks, from the
front (`ClientInv`). It does not matter which of the sessions that serve one client
sent a block, since the block is the same, and this is why repeated requests do no
harm. `DownInv` needs `DataInFlight` of `IInv`: a datagram is sent from
`send_packet_`, and `PacketOK` says where in the file it stands. In the refinement
`ClientTakesBlock` is `Receive` or `Complete` of `Transfer`, `ClientFails` is `Fail`, and all else
stutters.

`TransferProofs` says once what a client has from a transfer: `PromiseIsKept`, at every
moment a beginning of the file and all of it when the transfer is complete, and
`NothingIsTakenBack`. `DownloadsKeepThePromise` and `UploadsKeepThePromise` carry both over
along the refinement, as formulas about the client's and the stream's contents.
`FinishesAreDelivered` is the server's side: the ACK that ends a session
carries `last_sent_block_`, so by `UpInv` its sender has that many blocks, and the last
one was short.

### Uploads

Here the argument of downloads fails: a session takes any block with a number above
the last, so a block that went to the wrong session would leave a gap. `UploadInv`
therefore follows the ports. No two busy sessions have the same one (`PortsApart`);
a port that no client has chosen has an empty stream, gets no DATA and has
acknowledged no block (`Serves`, `DownInv`, `UpInv`); at the chosen one the client's count of
blocks never exceeds the session's, and the next DATA of the client is at most one
beyond its count. Together they make the block that a session takes as new exactly
the one after its last (`NextData`); after row 93 it takes none. `Has(n, e, b)` says what the stream of port `n` holds; a write that fails within a block
leaves it with more than `b` blocks and the session sending an ERROR.
`WritesReceive` and `TakesAckCompletes` are the steps of the refinement. On the disk
side `DiskInv` says that the file of an undisturbed port is the part of the stream that
was passed on, and the case that matters is `Opens`: it truncates a file, and every
other port that writes to it is disturbed from then on. `BoundInv` and `UnusedInv`
are about the model's bound on ports only.

### Parsing

`ParserInv` says for each phase at which token the iterator stands. A token's number
is the number of nulls before it, which orders the tokens without counting
them; `IncrementAt` shows that the iterator goes from one number to the next, or that
there is no further token. In the loop, the event holds the last values of the options
whose key has a number below `2 * j`, the iterator stands at token `2 * j`, and at the
end no key has a larger number. `ParsingIsShort` is the safety half of
`EveryDatagramIsHandedOn`: an iterator that is not at the end moves on
(`IncrementMoves`), so `Left` goes down with every step, and the list of events is the
report, if one is due, and then one `RequestReceived`.

`DecodedAsWritten` compares two recursive definitions: `FromChars`, which builds the number
from the left and gives up when it exceeds the type, and the sum of the digits by place
value. The library's theorems on induction and recursion have an operator as a
parameter, which the provers cannot instantiate; `Induction` therefore states induction
for a *set* of naturals, recursion for a *function* as the step, and from these what a sum
over an interval is. `DecodingProofs` shows that every prefix of the digits has the value that its
places denote, that these values grow, so that a prefix that is too large means a
number that is too large, and that the ranges of the RFC fit in the types. The last
point made an assumption explicit: `SizeMax >= 65535` (a `size_t` has at least 16 bits),
without which a block size of 65464 could overflow. `ParserMakesRequests` closes the gap to the
sessions: what the parser hands on is a `Request`.

### Only model-checked

The liveness properties `SilentSessionEnds`, `RunReturns` and
`EveryDatagramIsHandedOn`, since fairness and ENABLED are out of reach of the prover (that
the steps go down to an end is proved, see `SilentStepsDescend` and `ParsingIsShort`; that
one is always possible and is taken, is not); and the six violations, which are
existence statements.

## 5. What the code does otherwise than its documents say

| Run | Code | Statement |
|---|---|---|
| `row93` | `transition_table.h:93` goes to `WaitingForAck` | `doc/tftp-server3.dia`: a loop of `WaitingForData` |
| `stranger` | `transition_table.h:127` takes an ERROR of any endpoint | the diagram: `FromAgreedEndpoint And (...)` |
| `wedge` | `transition_table.h:71` has the guard `HasError` | the diagram: no guard |
| `stale_timer` | `enter_receive.h:57` may throw on a closed socket | `waiting_for_ack_test.cpp:86-87`: `cancel()` is enough |
| `open_failure` | `init_serve_read_request.h:50` asks `bad()` | `init_serve_read_request_test.cpp:182-197`: FileNotFound |
| `framing` | `enter_accepting.h:57-61` does not return | the comment at line 59: the last byte must be null |

The diagram is gzip-compressed XML; `PROJECT.json` gives lines of the
uncompressed text.

## 6. What is not modelled

* Resolution of file paths (`file_path.cpp`): `canonical` and `relative` of
  `std::filesystem` on a real directory tree. Its result, a file or a
  rejection, is a constant (`Resolve`) or part of the request.
* Datagrams of less than the two bytes of the opcode: `ProcessEventFromBuffer` then
  searches in an inverted range.
* `socket_.open` that fails, and a port that is still in use: the first makes the exit
  action's `cancel()` throw inside `process_event`, where MSM catches the exception and
  calls `exception_caught`, which asserts or else loses the event; the second is logged and leaves the socket
  to be bound by its first send. A port that is drawn again while datagrams of its
  last transfer are on their way is the hazard of every TFTP; RFC 1350 leaves it
  to chance.
* Clients that go round the block numbers after 65535: the server does not serve
  them (`NoSecondLap`).
* Files that change while they are read; two servers; a second `Stop`, and `Stop` called
  from a signal handler, both undefined.
* Logging, traces, the texts of errors, the byte order of headers; the test driver.

## 7. What could come next

1. `Download` with a file that changes while it is sent: what a client then has, and
   what the OACK said.
2. Sessions with timers that have a duration, for the option `timeout` and what
   `Timer::Reset` leaves of it.
3. Liveness of a transfer under a network that is fair: that it completes if every
   datagram that is sent again and again arrives. It is false today for an
   upload whose DATA is duplicated (row 93).
4. Ports that are used again, and how long a datagram would have to live to do harm.
