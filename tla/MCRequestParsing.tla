-------------------------- MODULE MCRequestParsing --------------------------
(* Every datagram of up to five symbols, and longer ones with options.     *)
EXTENDS RequestParsing, TLC

CONSTANTS nul, none, file, nofile

Word(name) == [digits |-> <<>>, letters |-> name, upper |-> FALSE]
Digits(digits) == [digits |-> digits, letters |-> "", upper |-> FALSE]

\* Names of options, one of them in upper case, and a text that is none; the
\* texts that name no option may also be the file or the mode.
Keys == {Word("blksize"), [Word("timeout") EXCEPT !.upper = TRUE], Word("other")}

\* Around every limit of the decoders.
Values == {Digits(<<8>>), Digits(<<2, 5, 6>>), [Digits(<<9>>) EXCEPT !.letters = "size"]}
Limits == {Digits(<<0>>), Digits(<<7>>), Digits(<<0, 8>>), Digits(<<2, 5, 5>>),
           Digits(<<6, 5, 4, 6, 4>>), Digits(<<6, 5, 4, 6, 5>>),
           Digits(<<9, 9, 9, 9, 9>>), Digits(<<1, 0, 0, 0, 0, 0>>),
           Digits(<<1, 0, 0, 0, 0, 9>>), Word("octet")}
MCTexts == Keys \cup Values \cup Limits
             \cup {Word("f"), Word("tsize"), Digits(<<>>)}

\* Any symbols, without two texts side by side.
WellFormed(b) == \A k \in 1 .. Len(b) - 1 : b[k] = nul \/ b[k + 1] = nul
Short(n) == UNION {[1 .. m -> {nul} \cup Keys \cup Values] : m \in 0 .. n}

\* A complete request with one option, and what may follow it: nothing, a key
\* without a value, a second option, one after an empty token, one that ends
\* without a null.
One(key, value) == <<Word("f"), nul, Word("octet"), nul, key, nul, value, nul>>
Tails ==
  {<<>>} \cup {<<k>> : k \in Keys} \cup {<<k, nul>> : k \in Keys}
    \cup {<<k, nul, nul>> : k \in Keys}
    \cup {<<k, nul, v, nul>> : k \in Keys, v \in Values}
    \cup {<<nul, k, nul, v, nul>> : k \in Keys, v \in Values}
    \cup {<<k, nul, v>> : k \in Keys, v \in Values}
MCPayloads ==
  {b \in Short(5) : WellFormed(b)}
    \cup {One(k, v) \o tail : k \in Keys, v \in Values, tail \in Tails}
    \cup {One(k, v) : k \in Keys \cup {Word("tsize")}, v \in Limits}
MCResolve == [t \in MCTexts |-> IF t = Word("f") THEN file ELSE nofile]
=============================================================================
