------------------------------ MODULE MCUpload ------------------------------
(* Small instances of Upload for TLC.                                      *)
EXTENDS Upload, TLC

CONSTANTS alice, nobody, file, nofile, none, noport

MCWordSize == 4
MCFileLength == [f \in Files |-> 0]

\* Uploads that end within the second block, and right behind the first.
Put(tsize) ==
  [op |-> "WRQ", framed |-> TRUE, mode |-> TRUE, path |-> file,
   blksize |-> none, timeout |-> none, tsize |-> tsize]
MCRequests == {Put(2), Put(3)}

MCDatagrams ==
  {NewPacket("DATA", n, 2 * (n - 1), len, {}) : n \in 1 .. 2, len \in 0 .. 2}
    \cup {NewPacket("ERROR", 0, 0, 0, {})}
=============================================================================
