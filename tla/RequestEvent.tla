---------------------------- MODULE RequestEvent ----------------------------
(***************************************************************************)
(* The event RequestReceived, decoded: what the parser of requests hands   *)
(* to the state machine of a session.                                      *)
(***************************************************************************)
EXTENDS Integers

CONSTANTS
  Files,   \* files below the server root
  NoFile,  \* a path that FilePath rejects
  None     \* an empty std::optional, or no datagram

\* A request as EnterAccepting hands it to the machine: framed says that the
\* datagram is long enough and ends in a null byte, mode that GetMode knows
\* the mode, path what FilePath makes of the name; an option that is absent,
\* or whose decoder rejects the value, is None.
Request == [op : {"RRQ", "WRQ", "OTHER"}, framed : BOOLEAN, mode : BOOLEAN,
            path : Files \cup {NoFile}, blksize : (Nat \ {0}) \cup {None},
            timeout : Nat \cup {None}, tsize : Nat \cup {None}]
=============================================================================
