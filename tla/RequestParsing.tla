--------------------------- MODULE RequestParsing ---------------------------
(***************************************************************************)
(* How a received request is taken apart: ProcessEventFromBuffer of        *)
(* enter_accepting.h, the iterator of protocol/request.h, the decoders of  *)
(* options.h and mode.h.                                                   *)
(*                                                                         *)
(* The datagram after its opcode is a sequence of symbols: Nul, or a text, *)
(* which stands for all the bytes up to the next null.  So no two texts    *)
(* are neighbours.  The iterators are indices, and the end is one past the *)
(* last symbol; the buffer behind it is zero (EnterAccepting clears it).   *)
(***************************************************************************)
EXTENDS RequestEvent, Sequences, FiniteSets, FiniteSetsExt

CONSTANTS
  Payloads,  \* the datagrams that clients send, without the opcode
  Nul,       \* the null byte
  Texts,     \* the texts that occur between two nulls
  Resolve,   \* what FilePath makes of a name
  SizeMax    \* the largest size_t

\* Texts are taken as the decimal digits they begin with and the rest in lower
\* case; upper says whether a letter of it was in upper case.
Text == [digits : Seq(0 .. 9), letters : STRING, upper : BOOLEAN]

\* A default-constructed string_view, and the text between two nulls.
NoText == [digits |-> <<>>, letters |-> "", upper |-> FALSE]

ASSUME TextAssumption == Texts \subseteq Text /\ NoText \in Texts /\ Nul \notin Texts
ASSUME PayloadAssumption ==
  \A b \in Payloads :
       /\ b \in Seq((Texts \ {NoText}) \cup {Nul})
       /\ \A k \in 1 .. Len(b) - 1 : b[k] = Nul \/ b[k + 1] = Nul
ASSUME ResolveAssumption == Resolve \in [Texts -> Files \cup {NoFile}]
ASSUME NoneAssumption == None \notin Nat
\* size_t has at least 16 bits.
ASSUME SizeAssumption == SizeMax \in Nat /\ SizeMax >= 65535

\* The smallest and largest block size (rfc2348), and the largest uint8_t.
kMinDataBlockCount == 8
kMaxDataBlockCount == 65464
MaxByte == 255

VARIABLES
  buffer,      \* what was received
  token_iter,  \* the iterator
  phase,       \* what the next token is taken for
  event,       \* request_received_event
  sent         \* the events that process_event was called with

vars == <<buffer, token_iter, phase, event, sent>>

-----------------------------------------------------------------------------
(* The iterator of RequestTokenizer.                                       *)

End(b) == Len(b) + 1

\* Mutant: the search does not stop at the end.
FindPastEnd(b, k) == IF k <= Len(b) /\ b[k] = Nul THEN k ELSE k + 1

\* std::find for the null byte: a text is all there is before the next one.
Find(b, k) == IF k > Len(b) \/ b[k] = Nul THEN k ELSE k + 1

\* The constructor; operator++ does the same from next_.  The bytes behind
\* the last null are no token.
Iterator(b, k) ==
  LET n == Find(b, k)
  IN  IF n = End(b) THEN [current |-> n, next |-> n]
      ELSE [current |-> k, next |-> n + 1]

\* Mutant: the iterator is not moved.
Stay(b, it) == it
Increment(b, it) == Iterator(b, it.next)

AtEnd(b, it) == it.current = End(b)

\* operator*: a null-terminated string from current_ on.
Deref(b, it) ==
  IF AtEnd(b, it) \/ b[it.current] = Nul THEN NoText ELSE b[it.current]

-----------------------------------------------------------------------------
(* The decoders.                                                           *)

Equal(text, name) == text.digits = <<>> /\ text.letters = name

GetMode(text) ==
  IF \E name \in {"octet", "netascii", "mail"} : Equal(text, name)
  THEN text.letters ELSE None

\* std::from_chars: no digits is an error, and so is a number beyond the type.
FromChars(text, max) ==
  LET value[k \in 0 .. Len(text.digits)] ==
        IF k = 0 THEN 0
        ELSE IF value[k - 1] = None THEN None
        ELSE LET n == 10 * value[k - 1] + text.digits[k]
             IN  IF n > max THEN None ELSE n
  IN  IF text.digits = <<>> THEN None ELSE value[Len(text.digits)]

\* Mutant: what follows the digits is not looked at.
NumberPrefix(text, max) == FromChars(text, max)

\* The whole value must be a number.
Number(text, max) == IF text.letters = "" THEN FromChars(text, max) ELSE None

IsValidBlockSize(n) == n >= kMinDataBlockCount /\ n <= kMaxDataBlockCount

GetBlockSize(text) ==
  LET n == Number(text, SizeMax)
  IN  IF n # None /\ IsValidBlockSize(n) THEN n ELSE None

GetTimeOut(text) ==
  LET n == Number(text, MaxByte) IN IF n = 0 THEN None ELSE n

GetTransferSize(text) == Number(text, SizeMax)

-----------------------------------------------------------------------------
(* ProcessEventFromBuffer.                                                 *)

EmptyEvent == [file_name |-> NoText, mode |-> NoText, blksize |-> NoText,
               timeout |-> NoText, tsize |-> NoText]

\* At least two bytes behind the opcode, the last one null.
Framed(b) == Len(b) >= 2 /\ b[Len(b)] = Nul

\* Mutant: the first value of an option stays.
StoreFirst(e, key, value) ==
  IF Equal(key, "blksize") /\ e.blksize = NoText THEN [e EXCEPT !.blksize = value]
  ELSE IF Equal(key, "timeout") /\ e.timeout = NoText THEN [e EXCEPT !.timeout = value]
  ELSE IF Equal(key, "tsize") /\ e.tsize = NoText THEN [e EXCEPT !.tsize = value]
  ELSE e

\* An option that is not known is passed over with its value.
Store(e, key, value) ==
  IF Equal(key, "blksize") THEN [e EXCEPT !.blksize = value]
  ELSE IF Equal(key, "timeout") THEN [e EXCEPT !.timeout = value]
  ELSE IF Equal(key, "tsize") THEN [e EXCEPT !.tsize = value]
  ELSE e

\* The iterator goes to it: either it is at the end, and the event is sent, or
\* the token there is taken for p.
Proceed(it, p) ==
  /\ token_iter' = it
  /\ phase' = IF AtEnd(buffer, it) THEN "sent" ELSE p
  /\ sent' = IF AtEnd(buffer, it) THEN Append(sent, "RequestReceived") ELSE sent
  /\ UNCHANGED buffer

\* A datagram that is not framed is reported, and parsed all the same.
CheckFraming ==
  /\ phase = "received"
  /\ sent' = IF Framed(buffer) THEN <<>> ELSE <<"AcceptingFailed">>
  /\ token_iter' = Iterator(buffer, 1)
  /\ phase' = "file_name"
  /\ UNCHANGED <<buffer, event>>

\* The file name is read even when there is no token.
ReadFileName ==
  /\ phase = "file_name"
  /\ event' = [event EXCEPT !.file_name = Deref(buffer, token_iter)]
  /\ Proceed(Increment(buffer, token_iter), "mode")

ReadMode ==
  /\ phase = "mode"
  /\ event' = [event EXCEPT !.mode = Deref(buffer, token_iter)]
  /\ Proceed(Increment(buffer, token_iter), "options")

\* One round of the loop.  A key without a value ends it.
ReadOption ==
  /\ phase = "options"
  /\ LET value == Increment(buffer, token_iter)
     IN  IF AtEnd(buffer, value)
         THEN Proceed(value, "options") /\ UNCHANGED event
         ELSE /\ event' = Store(event, Deref(buffer, token_iter), Deref(buffer, value))
              /\ Proceed(Increment(buffer, value), "options")

Sent == phase = "sent" /\ UNCHANGED vars

Init ==
  /\ buffer \in Payloads
  /\ token_iter = [current |-> 1, next |-> 1]
  /\ phase = "received"
  /\ event = EmptyEvent
  /\ sent = <<>>

Parse == CheckFraming \/ ReadFileName \/ ReadMode \/ ReadOption
Next == Parse \/ Sent
Spec == Init /\ [][Next]_vars
FairSpec == Spec /\ WF_vars(Parse)

\* The request a session gets, as InitServeReadRequest and
\* InitServeWriteRequest decode it.
Decoded(op) ==
  [op |-> op, framed |-> Framed(buffer), mode |-> GetMode(event.mode) # None,
   path |-> Resolve[event.file_name], blksize |-> GetBlockSize(event.blksize),
   timeout |-> GetTimeOut(event.timeout), tsize |-> GetTransferSize(event.tsize)]

-----------------------------------------------------------------------------
(* The properties.                                                         *)

TypeOK ==
  /\ buffer \in Payloads
  /\ token_iter \in [current : 1 .. End(buffer), next : 1 .. End(buffer)]
  /\ phase \in {"received", "file_name", "mode", "options", "sent"}
  /\ event \in [file_name : Texts, mode : Texts, blksize : Texts,
                timeout : Texts, tsize : Texts]
  /\ sent \in Seq({"AcceptingFailed", "RequestReceived"})

\* What the datagram says, without an iterator: a token is what begins at the
\* front or after a null and is ended by a null; its number is the number of
\* nulls before it.
NullsBefore(b, p) == Cardinality({q \in 1 .. p - 1 : b[q] = Nul})
IsToken(b, p) ==
  /\ p \in 1 .. Len(b)
  /\ p = 1 \/ b[p - 1] = Nul
  /\ \E q \in p .. Len(b) : b[q] = Nul
TextAt(b, p) == IF b[p] = Nul THEN NoText ELSE b[p]

\* text is the token with number n, and NoText when there is none.
IsTokenNumber(b, n, text) ==
  \/ \E p \in 1 .. Len(b) : IsToken(b, p) /\ NullsBefore(b, p) = n /\ text = TextAt(b, p)
  \/ /\ text = NoText
     /\ \A p \in 1 .. Len(b) : ~(IsToken(b, p) /\ NullsBefore(b, p) = n)

\* The option name is at p with its value at v: a key has an even number, from
\* 2 on, and its value the next one.
IsOption(b, name, p, v) ==
  /\ IsToken(b, p) /\ IsToken(b, v)
  /\ \E j \in 1 .. Len(b) : NullsBefore(b, p) = 2 * j /\ NullsBefore(b, v) = 2 * j + 1
  /\ Equal(TextAt(b, p), name)

\* value is the value of the last option with that name.
IsLastValue(b, name, value) ==
  \/ \E p, v \in 1 .. Len(b) :
       /\ IsOption(b, name, p, v) /\ value = TextAt(b, v)
       /\ \A r, w \in 1 .. Len(b) : IsOption(b, name, r, w) => r <= p
  \/ /\ value = NoText
     /\ \A p, v \in 1 .. Len(b) : ~IsOption(b, name, p, v)

\* The event is what the datagram says, whatever the number of its tokens:
\* empty tokens keep their place, a value is never taken for a key or a key
\* for a value, of an option given twice the last value counts, and the bytes
\* behind the last null count for nothing.
ParsedAsWritten ==
  phase = "sent" =>
    /\ IsTokenNumber(buffer, 0, event.file_name)
    /\ IsTokenNumber(buffer, 1, event.mode)
    /\ IsLastValue(buffer, "blksize", event.blksize)
    /\ IsLastValue(buffer, "timeout", event.timeout)
    /\ IsLastValue(buffer, "tsize", event.tsize)

\* A text that is a number in lo .. hi, by place value.
TenTo[n \in Nat] == IF n = 0 THEN 1 ELSE 10 * TenTo[n - 1]
PlaceValue(digits) ==
  MapThenSumSet(LAMBDA k : digits[k] * TenTo[Len(digits) - k], DOMAIN digits)
Denotes(text, lo, hi, n) ==
  IF /\ text.digits # <<>> /\ text.letters = ""
     /\ PlaceValue(text.digits) >= lo /\ PlaceValue(text.digits) <= hi
  THEN n = PlaceValue(text.digits) ELSE n = None

\* The session gets an option exactly when its value is a number in the range
\* of the RFC, with that number; a leading zero, an overflow on the way and a
\* text behind the digits make no difference to that.
DecodedAsWritten ==
  phase = "sent" =>
    LET r == Decoded("RRQ")
    IN  /\ Denotes(event.blksize, 8, 65464, r.blksize)
        /\ Denotes(event.timeout, 1, 255, r.timeout)
        /\ Denotes(event.tsize, 0, SizeMax, r.tsize)

\* Every datagram leads to exactly one RequestReceived, after which nothing is
\* sent: the parser stops, and a datagram that is not framed is reported and
\* still handed on.
EveryDatagramIsHandedOn ==
  <>[](sent = (IF Framed(buffer) THEN <<>> ELSE <<"AcceptingFailed">>) \o <<"RequestReceived">>)
=============================================================================
