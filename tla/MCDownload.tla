----------------------------- MODULE MCDownload -----------------------------
(* Small instances of Download for TLC.                                    *)
EXTENDS Download, TLC

CONSTANTS alice, nobody, even, odd, nofile, none

MCWordSize == 4
MCFileLength == [f \in Files |-> IF f = even THEN 2 ELSE 3]

Ask(path, blksize, tsize) ==
  [op |-> "RRQ", framed |-> TRUE, mode |-> TRUE, path |-> path,
   blksize |-> blksize, timeout |-> none, tsize |-> tsize]

\* A file that ends within its second block, one that ends right behind its
\* first, so that an empty block follows, with an OACK before it, and one in so
\* many blocks that the numbers come to their end.
MCRequests == {Ask(odd, none, none), Ask(even, 2, 0), Ask(odd, 1, none)}
MCDatagrams == Acks \cup {Refusal}
=============================================================================
