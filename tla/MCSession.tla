----------------------------- MODULE MCSession -----------------------------
(* Small instances of Session for TLC.  Block numbers are taken modulo 5,  *)
(* so that a file of six blocks reaches the end of the numbers.            *)
EXTENDS Session, TLC

CONSTANTS client, stranger, nobody, short, long, empty, locked, nofile, none

Wire(op, word, len) == NewPacket(op, word, 0, len, {})
MCWordSize == 5
MCEndpoints == {client, stranger}
MCFiles == {short, long, empty, locked}
MCFileLength ==
  [f \in MCFiles |-> IF f = long THEN 6 ELSE IF f = empty THEN 0 ELSE 3]

Ask(op, path, blksize, tsize) ==
  [op |-> op, framed |-> TRUE, mode |-> TRUE, path |-> path,
   blksize |-> blksize, timeout |-> none, tsize |-> tsize]

\* Every way a request is accepted or refused, with and without options.  The
\* long file in blocks of one unit comes to the block whose number no longer
\* fits, and asks for a size that is not the one left by the short file.
CoreRequests ==
  {Ask("RRQ", short, none, none),
   Ask("RRQ", short, 1, 0),
   Ask("RRQ", long, 1, 0),
   Ask("RRQ", empty, none, none),
   Ask("RRQ", locked, none, none),
   Ask("RRQ", nofile, 1, none),
   [Ask("WRQ", short, none, none) EXCEPT !.framed = FALSE],
   [Ask("WRQ", short, none, none) EXCEPT !.mode = FALSE],
   [Ask("OTHER", nofile, none, none) EXCEPT !.framed = FALSE]}

CoreDatagrams ==
  {Wire("ACK", w, 0) : w \in 0 .. MCWordSize - 1}
    \cup {Wire("DATA", w, 2) : w \in {0, 1, 2, 4}}
    \cup {Wire("ERROR", 1, 0), Wire("OTHER", 0, 0)}

\* Enough for two sessions to be in different phases of their transfers.
PoolRequests == {Ask("RRQ", short, none, none), Ask("OTHER", nofile, none, none)}
PoolDatagrams == {Wire("ACK", 1, 0)}
SessionSymmetry == Permutations(Sessions)

\* Either kind of transfer, and a peer that may fall silent at any point of it.
SilentRequests == {Ask("RRQ", short, none, none), Ask("WRQ", short, none, none)}
SilentDatagrams == {Wire("ACK", 0, 0), Wire("ACK", 1, 0), Wire("DATA", 1, 2)}
=============================================================================
