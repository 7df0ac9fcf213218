------------------------ MODULE RequestParsingProofs ------------------------
(***************************************************************************)
(* Theorems about RequestParsing, for every set of datagrams: whatever the *)
(* number and the lengths of its tokens, the parser takes each of them for *)
(* what its place in the datagram says it is.                              *)
(***************************************************************************)
EXTENDS RequestParsing, FiniteSetTheorems, TLAPS

\* What PayloadAssumption says of a datagram.
IsDatagram(b) ==
  /\ b \in Seq((Texts \ {NoText}) \cup {Nul})
  /\ \A k \in 1 .. Len(b) - 1 : b[k] = Nul \/ b[k + 1] = Nul

\* A place where a token begins, if there is a null behind it.
IsStart(b, p) == p \in 1 .. End(b) /\ (p = 1 \/ b[p - 1] = Nul)

\* The iterator is at token n, or there is none with that number.
IsAt(b, it, n) ==
  IF AtEnd(b, it)
  THEN /\ it.next = End(b)
       /\ \A p \in 1 .. Len(b) : IsToken(b, p) => NullsBefore(b, p) < n
  ELSE /\ IsToken(b, it.current) /\ NullsBefore(b, it.current) = n
       /\ IsStart(b, it.next) /\ NullsBefore(b, it.next) = n + 1

\* value is the value of the last option with that name, of those whose key
\* has a number below n.
IsLastBelow(b, name, value, n) ==
  \/ \E p, v \in 1 .. Len(b) :
       /\ IsOption(b, name, p, v) /\ NullsBefore(b, p) < n /\ value = TextAt(b, v)
       /\ \A r, w \in 1 .. Len(b) :
            IsOption(b, name, r, w) /\ NullsBefore(b, r) < n => r <= p
  \/ /\ value = NoText
     /\ \A p, v \in 1 .. Len(b) : IsOption(b, name, p, v) => NullsBefore(b, p) >= n

OptionsBelow(b, e, n) ==
  /\ IsLastBelow(b, "blksize", e.blksize, n)
  /\ IsLastBelow(b, "timeout", e.timeout, n)
  /\ IsLastBelow(b, "tsize", e.tsize, n)

NoOptions(e) == e.blksize = NoText /\ e.timeout = NoText /\ e.tsize = NoText

\* What the event holds in each phase.
ParserInv ==
  /\ TypeOK
  /\ phase = "received" => event = EmptyEvent
  /\ phase = "file_name" => event = EmptyEvent /\ IsAt(buffer, token_iter, 0)
  /\ phase = "mode" =>
       /\ ~AtEnd(buffer, token_iter) /\ IsAt(buffer, token_iter, 1)
       /\ IsTokenNumber(buffer, 0, event.file_name)
       /\ NoOptions(event)
  /\ phase = "options" =>
       /\ ~AtEnd(buffer, token_iter)
       /\ IsTokenNumber(buffer, 0, event.file_name)
       /\ IsTokenNumber(buffer, 1, event.mode)
       /\ \E j \in Nat \ {0} : /\ IsAt(buffer, token_iter, 2 * j)
                               /\ OptionsBelow(buffer, event, 2 * j)
  /\ ParsedAsWritten

-----------------------------------------------------------------------------
(* The numbers of the tokens.                                              *)

\* The nulls before a place are a finite set, fewer than the place.
LEMMA NullsCounted ==
  ASSUME NEW b, IsDatagram(b), NEW p \in 1 .. End(b)
  PROVE  /\ IsFiniteSet({q \in 1 .. p - 1 : b[q] = Nul})
         /\ NullsBefore(b, p) \in Nat /\ NullsBefore(b, p) <= p - 1
<1> Len(b) \in Nat
  BY DEF IsDatagram
<1>1. IsFiniteSet(1 .. p - 1) /\ Cardinality(1 .. p - 1) = p - 1
  <2>1. 1 \in Int /\ p - 1 \in Int
    BY DEF End
  <2>2. /\ IsFiniteSet(1 .. p - 1)
        /\ Cardinality(1 .. p - 1) = IF 1 > p - 1 THEN 0 ELSE (p - 1) - 1 + 1
    BY ONLY <2>1, FS_Interval
  <2> QED
    BY <2>2 DEF End
<1> DEFINE N == {q \in 1 .. p - 1 : b[q] = Nul}
<1>2. N \in SUBSET (1 .. p - 1) /\ NullsBefore(b, p) = Cardinality(N)
  BY DEF NullsBefore
<1> HIDE DEF N
<1>3. IsFiniteSet(N) /\ Cardinality(N) <= p - 1
  <2>1. IsFiniteSet(N) /\ Cardinality(N) <= Cardinality(1 .. p - 1)
    BY ONLY <1>1, <1>2, FS_Subset
  <2> QED
    BY ONLY <1>1, <2>1
<1>4. Cardinality(N) \in Nat
  BY <1>3, FS_CardinalityType
<1>5. IsFiniteSet(N) /\ NullsBefore(b, p) \in Nat /\ NullsBefore(b, p) <= p - 1
  BY <1>2, <1>3, <1>4
<1> QED
  BY <1>5 DEF N

\* There is no null before the first place.
LEMMA FirstNumber ==
  ASSUME NEW b, IsDatagram(b)
  PROVE  NullsBefore(b, 1) = 0
<1>1. Len(b) \in Nat /\ 1 \in 1 .. End(b)
  BY DEF IsDatagram, End
<1>2. NullsBefore(b, 1) \in Nat /\ NullsBefore(b, 1) <= 1 - 1
  BY <1>1, NullsCounted
<1> QED
  BY <1>2

\* A null raises the number by one, anything else leaves it.
LEMMA NextNumber ==
  ASSUME NEW b, IsDatagram(b), NEW p \in 1 .. Len(b)
  PROVE  NullsBefore(b, p + 1)
           = IF b[p] = Nul THEN NullsBefore(b, p) + 1 ELSE NullsBefore(b, p)
<1> DEFINE N == {q \in 1 .. p - 1 : b[q] = Nul}
<1> Len(b) \in Nat
  BY DEF IsDatagram
<1>1. IsFiniteSet(N) /\ p \notin N
  BY NullsCounted DEF End
<1>2. NullsBefore(b, p + 1) = Cardinality({q \in 1 .. p : b[q] = Nul})
  BY DEF NullsBefore
<1>3. NullsBefore(b, p) = Cardinality(N)
  BY DEF NullsBefore
<1>4. CASE b[p] = Nul
  <2>1. {q \in 1 .. p : b[q] = Nul} = N \cup {p}
    BY <1>4
  <2> QED
    BY <1>1, <1>2, <1>3, <1>4, <2>1, FS_AddElement
<1>5. CASE b[p] # Nul
  <2>1. {q \in 1 .. p : b[q] = Nul} = N
    BY <1>5
  <2> QED
    BY <1>2, <1>3, <1>5, <2>1
<1> QED
  BY <1>4, <1>5

\* Of two tokens the later one has the greater number.
LEMMA NumbersIncrease ==
  ASSUME NEW b, IsDatagram(b), NEW p \in 1 .. End(b), NEW q \in 1 .. End(b),
         p < q, IsStart(b, q)
  PROVE  NullsBefore(b, p) < NullsBefore(b, q)
<1> DEFINE M == {k \in 1 .. p - 1 : b[k] = Nul}
           N == {k \in 1 .. q - 1 : b[k] = Nul}
<1> Len(b) \in Nat
  BY DEF IsDatagram
<1>1. IsFiniteSet(N) /\ M \in SUBSET N
  BY NullsCounted DEF End
<1>2. q - 1 \in N /\ q - 1 \notin M
  BY DEF IsStart, End
<1>3. Cardinality(M) <= Cardinality(N) /\ Cardinality(M) # Cardinality(N)
  BY <1>1, <1>2, FS_Subset
<1>4. NullsBefore(b, p) = Cardinality(M) /\ NullsBefore(b, q) = Cardinality(N)
  BY DEF NullsBefore
<1>5. NullsBefore(b, p) \in Nat /\ NullsBefore(b, q) \in Nat
  BY NullsCounted
<1> HIDE DEF M, N
<1> QED
  BY <1>3, <1>4, <1>5

\* A token begins at a start.
LEMMA TokenStarts ==
  ASSUME NEW b, IsDatagram(b), NEW p, IsToken(b, p)
  PROVE  p \in 1 .. Len(b) /\ IsStart(b, p) /\ p \in 1 .. End(b)
BY DEF IsToken, IsStart, End, IsDatagram

-----------------------------------------------------------------------------
(* The iterator.                                                           *)

\* Set to the start of number n, the iterator is at token n.
LEMMA IteratorAt ==
  ASSUME NEW b, IsDatagram(b), NEW k, IsStart(b, k)
  PROVE  IsAt(b, Iterator(b, k), NullsBefore(b, k))
<1> DEFINE it == Iterator(b, k)
<1> Len(b) \in Nat /\ k \in 1 .. End(b)
  BY DEF IsDatagram, IsStart
<1>1. CASE \A q \in k .. Len(b) : b[q] # Nul
  <2>1. it = [current |-> End(b), next |-> End(b)]
    <3>1. k > Len(b) \/ k = Len(b)
      <4> SUFFICES ASSUME k < Len(b) PROVE FALSE
        BY DEF End
      <4> k \in 1 .. Len(b) - 1
        BY DEF End
      <4> QED
        BY <1>1 DEF IsDatagram
    <3> QED
      BY <1>1, <3>1 DEF Iterator, Find, End
  <2>2. ASSUME NEW p \in 1 .. Len(b), IsToken(b, p)
        PROVE  NullsBefore(b, p) < NullsBefore(b, k)
    <3>1. p < k
      BY <1>1, <2>2 DEF IsToken, End
    <3> QED
      BY <3>1, NumbersIncrease DEF End
  <2> QED
    BY <2>1, <2>2 DEF IsAt, AtEnd
<1>2. CASE ~(\A q \in k .. Len(b) : b[q] # Nul)
  <2> k \in 1 .. Len(b)
    BY <1>2 DEF End
  <2>1. IsToken(b, k)
    BY <1>2 DEF IsToken, IsStart
  <2>2. CASE b[k] = Nul
    <3>1. it = [current |-> k, next |-> k + 1]
      BY <2>2 DEF Iterator, Find, End
    <3>2. IsStart(b, k + 1) /\ NullsBefore(b, k + 1) = NullsBefore(b, k) + 1
      BY <2>2, NextNumber DEF IsStart, End
    <3> QED
      BY <2>1, <3>1, <3>2 DEF IsAt, AtEnd, End
  <2>3. CASE b[k] # Nul
    <3>1. k + 1 \in 1 .. Len(b) /\ b[k + 1] = Nul
      <4>1. k < Len(b)
        BY <1>2, <2>3
      <4>2. k \in 1 .. Len(b) - 1
        BY <4>1
      <4> QED
        BY <2>3, <4>1, <4>2 DEF IsDatagram
    <3>2. it = [current |-> k, next |-> k + 2]
      BY <2>3, <3>1 DEF Iterator, Find, End
    <3>3. IsStart(b, k + 2)
      BY <3>1 DEF IsStart, End
    <3>4. NullsBefore(b, k + 1) = NullsBefore(b, k)
      BY <2>3, NextNumber
    <3>5. NullsBefore(b, k + 1 + 1) = NullsBefore(b, k + 1) + 1
      BY <3>1, NextNumber
    <3> QED
      BY <2>1, <3>2, <3>3, <3>4, <3>5 DEF IsAt, AtEnd, End
  <2> QED
    BY <2>2, <2>3
<1> QED
  BY <1>1, <1>2

\* The constructor puts it at the first token.
LEMMA FirstAt ==
  ASSUME NEW b, IsDatagram(b)
  PROVE  IsAt(b, Iterator(b, 1), 0)
BY FirstNumber, IteratorAt DEF IsStart, End, IsDatagram

\* operator++ moves it to the next one.
LEMMA IncrementAt ==
  ASSUME NEW b, IsDatagram(b), NEW it, NEW n \in Nat, IsAt(b, it, n)
  PROVE  IsAt(b, Increment(b, it), n + 1)
<1> Len(b) \in Nat
  BY DEF IsDatagram
<1>1. CASE AtEnd(b, it)
  <2>1. Increment(b, it) = [current |-> End(b), next |-> End(b)]
    BY <1>1 DEF IsAt, Increment, Iterator, Find, End
  <2>2. ASSUME NEW p \in 1 .. Len(b), IsToken(b, p)
        PROVE  NullsBefore(b, p) < n + 1
    <3>1. NullsBefore(b, p) < n
      BY <1>1, <2>2 DEF IsAt
    <3>2. p \in 1 .. End(b)
      BY DEF End
    <3>3. NullsBefore(b, p) \in Nat
      BY <3>2, NullsCounted
    <3> QED
      BY <3>1, <3>3
  <2> QED
    BY <2>1, <2>2 DEF IsAt, AtEnd
<1>2. CASE ~AtEnd(b, it)
  BY <1>2, IteratorAt DEF IsAt, Increment
<1> QED
  BY <1>1, <1>2

\* operator* gives the token that the iterator is at, and no text at the end.
LEMMA TokenAt ==
  ASSUME NEW b, IsDatagram(b), NEW it, NEW n \in Nat, IsAt(b, it, n)
  PROVE  IsTokenNumber(b, n, Deref(b, it))
<1> Len(b) \in Nat
  BY DEF IsDatagram
<1>1. CASE AtEnd(b, it)
  <2>1. Deref(b, it) = NoText
    BY <1>1 DEF Deref
  <2>2. ASSUME NEW p \in 1 .. Len(b), IsToken(b, p)
        PROVE  NullsBefore(b, p) # n
    <3>1. NullsBefore(b, p) < n
      BY <1>1, <2>2 DEF IsAt
    <3>2. p \in 1 .. End(b)
      BY DEF End
    <3>3. NullsBefore(b, p) \in Nat
      BY <3>2, NullsCounted
    <3> QED
      BY <3>1, <3>3
  <2> QED
    BY <2>1, <2>2 DEF IsTokenNumber
<1>2. CASE ~AtEnd(b, it)
  <2>1. IsToken(b, it.current) /\ NullsBefore(b, it.current) = n
    BY <1>2 DEF IsAt
  <2>2. Deref(b, it) = TextAt(b, it.current)
    BY <1>2 DEF Deref, TextAt
  <2> QED
    BY <2>1, <2>2, TokenStarts DEF IsTokenNumber
<1> QED
  BY <1>1, <1>2

\* The iterator and what it gives have their types.
LEMMA IteratorType ==
  ASSUME NEW b, IsDatagram(b), NEW k \in 1 .. End(b)
  PROVE  Iterator(b, k) \in [current : 1 .. End(b), next : 1 .. End(b)]
<1> Len(b) \in Nat
  BY DEF IsDatagram
<1>1. Find(b, k) \in 1 .. End(b)
  BY DEF Find, End
<1> QED
  BY <1>1 DEF Iterator, End

\* What operator* gives is a text.
LEMMA DerefType ==
  ASSUME NEW b, IsDatagram(b),
         NEW it \in [current : 1 .. End(b), next : 1 .. End(b)]
  PROVE  Deref(b, it) \in Texts
BY TextAssumption DEF Deref, AtEnd, IsDatagram, End

-----------------------------------------------------------------------------
(* The options.                                                            *)

\* The key of an option is a token with an even number from 2 on, the value
\* the token after it.
LEMMA OptionNumbers ==
  ASSUME NEW b, IsDatagram(b), NEW name, NEW p, NEW v, IsOption(b, name, p, v)
  PROVE  /\ p \in 1 .. Len(b) /\ p \in 1 .. End(b) /\ IsStart(b, p) /\ IsToken(b, p)
         /\ v \in 1 .. Len(b) /\ v \in 1 .. End(b) /\ IsStart(b, v) /\ IsToken(b, v)
         /\ \E j \in Nat \ {0} : NullsBefore(b, p) = 2 * j /\ NullsBefore(b, v) = 2 * j + 1
<1>1. IsToken(b, p) /\ IsToken(b, v)
  BY DEF IsOption
<1>2. \E j \in 1 .. Len(b) : NullsBefore(b, p) = 2 * j /\ NullsBefore(b, v) = 2 * j + 1
  BY DEF IsOption
<1>3. \E j \in Nat \ {0} : NullsBefore(b, p) = 2 * j /\ NullsBefore(b, v) = 2 * j + 1
  BY <1>2 DEF IsDatagram
<1> QED
  BY <1>1, <1>3, TokenStarts

\* Before the first option none has been seen.
LEMMA NoneBelow ==
  ASSUME NEW b, IsDatagram(b), NEW name
  PROVE  IsLastBelow(b, name, NoText, 2)
<1> SUFFICES ASSUME NEW p \in 1 .. Len(b), NEW v \in 1 .. Len(b), IsOption(b, name, p, v)
             PROVE  NullsBefore(b, p) >= 2
  BY DEF IsLastBelow
<1>1. PICK j \in Nat \ {0} : NullsBefore(b, p) = 2 * j
  BY OptionNumbers
<1> QED
  BY <1>1

\* When no key has number n or above, the last one below n is the last one.
LEMMA AllBelow ==
  ASSUME NEW b, IsDatagram(b), NEW name, NEW value, NEW n \in Nat,
         IsLastBelow(b, name, value, n),
         \A p, v \in 1 .. Len(b) : IsOption(b, name, p, v) => NullsBefore(b, p) < n
  PROVE  IsLastValue(b, name, value)
<1>1. ASSUME NEW p \in 1 .. Len(b)
      PROVE  NullsBefore(b, p) \in Nat
  <2>1. p \in 1 .. End(b)
    BY DEF End, IsDatagram
  <2> QED
    BY <2>1, NullsCounted
<1>2. CASE \E p, v \in 1 .. Len(b) :
             /\ IsOption(b, name, p, v) /\ NullsBefore(b, p) < n /\ value = TextAt(b, v)
             /\ \A r, w \in 1 .. Len(b) :
                  IsOption(b, name, r, w) /\ NullsBefore(b, r) < n => r <= p
  BY <1>2 DEF IsLastValue
<1>3. CASE /\ value = NoText
           /\ \A p, v \in 1 .. Len(b) : IsOption(b, name, p, v) => NullsBefore(b, p) >= n
  BY <1>1, <1>3 DEF IsLastValue
<1> QED
  BY <1>2, <1>3 DEF IsLastBelow

\* The token with number 2 * j is the only key that the next round adds.
LEMMA OnlyKey ==
  ASSUME NEW b, IsDatagram(b), NEW j \in Nat \ {0},
         NEW p \in 1 .. Len(b), IsToken(b, p), NullsBefore(b, p) = 2 * j,
         NEW name, NEW r, NEW w, IsOption(b, name, r, w)
  PROVE  /\ NullsBefore(b, r) < 2 * j + 2 <=> r <= p
         /\ NullsBefore(b, r) < 2 * j <=> r < p
         /\ NullsBefore(b, r) \in Nat
<1>1. PICK k \in Nat \ {0} : NullsBefore(b, r) = 2 * k
  BY OptionNumbers
<1>2. /\ r \in 1 .. End(b) /\ IsStart(b, r)
      /\ p \in 1 .. End(b) /\ IsStart(b, p)
  BY OptionNumbers, TokenStarts
<1>3. r < p => NullsBefore(b, r) < NullsBefore(b, p)
  BY <1>2, NumbersIncrease
<1>4. p < r => NullsBefore(b, p) < NullsBefore(b, r)
  BY <1>2, NumbersIncrease
<1>5. r \in Nat /\ p \in Nat
  BY <1>2 DEF End, IsDatagram
<1>6. r < p \/ p < r \/ r = p
  BY <1>5
<1> HIDE DEF NullsBefore
<1> QED
  BY <1>1, <1>3, <1>4, <1>5, <1>6

\* An option of that name is the last one now.
LEMMA NewLast ==
  ASSUME NEW b, IsDatagram(b), NEW j \in Nat \ {0}, NEW name,
         NEW p \in 1 .. Len(b), IsToken(b, p), NullsBefore(b, p) = 2 * j,
         NEW v \in 1 .. Len(b), IsToken(b, v), NullsBefore(b, v) = 2 * j + 1,
         Equal(TextAt(b, p), name)
  PROVE  IsLastBelow(b, name, TextAt(b, v), 2 * j + 2)
<1>1. j \in 1 .. Len(b)
  <2>1. v \in 1 .. End(b)
    BY DEF End, IsDatagram
  <2>2. NullsBefore(b, v) <= v - 1
    BY <2>1, NullsCounted
  <2> QED
    BY <2>2 DEF IsDatagram
<1>2. IsOption(b, name, p, v)
  BY <1>1 DEF IsOption
<1>3. NullsBefore(b, p) < 2 * j + 2
  OBVIOUS
<1>4. \A r, w \in 1 .. Len(b) :
        IsOption(b, name, r, w) /\ NullsBefore(b, r) < 2 * j + 2 => r <= p
  BY OnlyKey
<1> QED
  BY <1>2, <1>3, <1>4 DEF IsLastBelow

\* An option of another name changes nothing.
LEMMA SameLast ==
  ASSUME NEW b, IsDatagram(b), NEW j \in Nat \ {0}, NEW name, NEW value,
         NEW p \in 1 .. Len(b), IsToken(b, p), NullsBefore(b, p) = 2 * j,
         ~Equal(TextAt(b, p), name), IsLastBelow(b, name, value, 2 * j)
  PROVE  IsLastBelow(b, name, value, 2 * j + 2)
<1>1. ASSUME NEW r \in 1 .. Len(b), NEW w \in 1 .. Len(b), IsOption(b, name, r, w)
      PROVE  /\ NullsBefore(b, r) < 2 * j + 2 <=> NullsBefore(b, r) < 2 * j
             /\ NullsBefore(b, r) \in Nat
  <2>1. r # p
    BY <1>1 DEF IsOption
  <2>2. /\ NullsBefore(b, r) < 2 * j + 2 <=> r <= p
        /\ NullsBefore(b, r) < 2 * j <=> r < p
        /\ NullsBefore(b, r) \in Nat
    BY <1>1, OnlyKey
  <2>3. r <= p <=> r < p
    BY <2>1 DEF IsDatagram
  <2> QED
    BY <2>2, <2>3
<1>2. CASE \E q, v \in 1 .. Len(b) :
             /\ IsOption(b, name, q, v) /\ NullsBefore(b, q) < 2 * j
             /\ value = TextAt(b, v)
             /\ \A r, w \in 1 .. Len(b) :
                  IsOption(b, name, r, w) /\ NullsBefore(b, r) < 2 * j => r <= q
  BY <1>1, <1>2 DEF IsLastBelow
<1>3. CASE /\ value = NoText
           /\ \A q, v \in 1 .. Len(b) : IsOption(b, name, q, v) => NullsBefore(b, q) >= 2 * j
  <2>1. ASSUME NEW q \in 1 .. Len(b), NEW v \in 1 .. Len(b), IsOption(b, name, q, v)
        PROVE  NullsBefore(b, q) >= 2 * j + 2
    <3>1. NullsBefore(b, q) >= 2 * j
      BY <1>3, <2>1
    <3>2. /\ NullsBefore(b, q) < 2 * j + 2 <=> NullsBefore(b, q) < 2 * j
          /\ NullsBefore(b, q) \in Nat
      BY <1>1, <2>1
    <3> QED
      BY <3>1, <3>2
  <2> QED
    BY <1>3, <2>1 DEF IsLastBelow
<1> QED
  BY <1>2, <1>3 DEF IsLastBelow

\* Store keeps the last value of each option.
LEMMA StoreKeepsLast ==
  ASSUME NEW b, IsDatagram(b), NEW j \in Nat \ {0},
         NEW e \in [file_name : Texts, mode : Texts, blksize : Texts,
                    timeout : Texts, tsize : Texts],
         OptionsBelow(b, e, 2 * j),
         NEW p \in 1 .. Len(b), IsToken(b, p), NullsBefore(b, p) = 2 * j,
         NEW v \in 1 .. Len(b), IsToken(b, v), NullsBefore(b, v) = 2 * j + 1
  PROVE  OptionsBelow(b, Store(e, TextAt(b, p), TextAt(b, v)), 2 * j + 2)
<1> DEFINE key == TextAt(b, p)
           s == Store(e, key, TextAt(b, v))
<1>1. /\ s.blksize = IF Equal(key, "blksize") THEN TextAt(b, v) ELSE e.blksize
      /\ s.timeout = IF Equal(key, "timeout") THEN TextAt(b, v) ELSE e.timeout
      /\ s.tsize = IF Equal(key, "tsize") THEN TextAt(b, v) ELSE e.tsize
  BY DEF Store, Equal
<1>2. IsLastBelow(b, "blksize", s.blksize, 2 * j + 2)
  <2>1. CASE Equal(key, "blksize")
    BY <1>1, <2>1, NewLast
  <2>2. CASE ~Equal(key, "blksize")
    BY <1>1, <2>2, SameLast DEF OptionsBelow
  <2> QED
    BY <2>1, <2>2
<1>3. IsLastBelow(b, "timeout", s.timeout, 2 * j + 2)
  <2>1. CASE Equal(key, "timeout")
    BY <1>1, <2>1, NewLast
  <2>2. CASE ~Equal(key, "timeout")
    BY <1>1, <2>2, SameLast DEF OptionsBelow
  <2> QED
    BY <2>1, <2>2
<1>4. IsLastBelow(b, "tsize", s.tsize, 2 * j + 2)
  <2>1. CASE Equal(key, "tsize")
    BY <1>1, <2>1, NewLast
  <2>2. CASE ~Equal(key, "tsize")
    BY <1>1, <2>2, SameLast DEF OptionsBelow
  <2> QED
    BY <2>1, <2>2
<1> QED
  BY <1>2, <1>3, <1>4 DEF OptionsBelow

\* The loop ends where no key with a value is left, and the event is complete.
LEMMA OptionsComplete ==
  ASSUME NEW b, IsDatagram(b), NEW e, NEW n \in Nat, OptionsBelow(b, e, n),
         \A name : \A p, v \in 1 .. Len(b) : IsOption(b, name, p, v) => NullsBefore(b, p) < n
  PROVE  /\ IsLastValue(b, "blksize", e.blksize)
         /\ IsLastValue(b, "timeout", e.timeout)
         /\ IsLastValue(b, "tsize", e.tsize)
BY AllBelow DEF OptionsBelow

\* At the end there is no key of that number or above, and no key whose value
\* has it.
LEMMA NoKeyLeft ==
  ASSUME NEW b, IsDatagram(b), NEW it, NEW n \in Nat, IsAt(b, it, n), AtEnd(b, it),
         NEW name, NEW p \in 1 .. Len(b), NEW v \in 1 .. Len(b), IsOption(b, name, p, v)
  PROVE  NullsBefore(b, p) < n /\ NullsBefore(b, p) + 1 < n
<1>1. PICK j \in Nat \ {0} : NullsBefore(b, p) = 2 * j /\ NullsBefore(b, v) = 2 * j + 1
  BY OptionNumbers
<1>2. NullsBefore(b, v) < n
  BY OptionNumbers DEF IsAt
<1> QED
  BY <1>1, <1>2

-----------------------------------------------------------------------------
(* The invariant.                                                          *)

\* Every datagram of the instance is one.
LEMMA PayloadsAreDatagrams ==
  ASSUME NEW b \in Payloads
  PROVE  IsDatagram(b)
BY PayloadAssumption DEF IsDatagram

\* A parser starts with an empty event.
LEMMA ParserInvInit == Init => ParserInv
<1> SUFFICES ASSUME Init PROVE ParserInv
  OBVIOUS
<1>1. IsDatagram(buffer)
  BY PayloadsAreDatagrams DEF Init
<1>2. TypeOK
  BY <1>1, TextAssumption DEF Init, TypeOK, End, IsDatagram, EmptyEvent
<1> QED
  BY <1>2 DEF Init, ParserInv, ParsedAsWritten

\* The premises that the steps share.
LEMMA ParserTypes ==
  ASSUME TypeOK
  PROVE  /\ IsDatagram(buffer)
         /\ Deref(buffer, token_iter) \in Texts
         /\ Increment(buffer, token_iter) \in [current : 1 .. End(buffer), next : 1 .. End(buffer)]
<1>1. IsDatagram(buffer)
  BY PayloadsAreDatagrams DEF TypeOK
<1> QED
  BY <1>1, IteratorType, DerefType DEF TypeOK, Increment

\* A move of the iterator keeps the types.
LEMMA ProceedTypes ==
  ASSUME TypeOK, NEW it \in [current : 1 .. End(buffer), next : 1 .. End(buffer)],
         NEW p \in {"mode", "options"}, Proceed(it, p),
         event' \in [file_name : Texts, mode : Texts, blksize : Texts,
                     timeout : Texts, tsize : Texts]
  PROVE  TypeOK'
<1>1. sent' \in Seq({"AcceptingFailed", "RequestReceived"})
  BY DEF Proceed, TypeOK
<1> QED
  BY <1>1 DEF Proceed, TypeOK

\* The parser begins with the first token, whatever the framing says.
LEMMA CheckFramingStep ==
  ASSUME ParserInv, CheckFraming
  PROVE  ParserInv'
<1> USE DEF ParserInv
<1>1. IsDatagram(buffer)
  BY ParserTypes
<1>2. IsAt(buffer, Iterator(buffer, 1), 0)
  BY <1>1, FirstAt
<1>3. Iterator(buffer, 1) \in [current : 1 .. End(buffer), next : 1 .. End(buffer)]
  BY <1>1, IteratorType DEF End, IsDatagram
<1>4. TypeOK'
  <2>1. /\ <<>> \in Seq({"AcceptingFailed", "RequestReceived"})
        /\ <<"AcceptingFailed">> \in Seq({"AcceptingFailed", "RequestReceived"})
    OBVIOUS
  <2>2. sent' = <<>> \/ sent' = <<"AcceptingFailed">>
    BY DEF CheckFraming
  <2>3. sent' \in Seq({"AcceptingFailed", "RequestReceived"})
    BY <2>1, <2>2
  <2> QED
    BY <1>3, <2>3 DEF CheckFraming, TypeOK
<1> HIDE DEF IsAt, TypeOK
<1> QED
  BY <1>2, <1>4 DEF CheckFraming, ParsedAsWritten

\* The file name is token 0; with no token after it there is nothing else.
LEMMA ReadFileNameStep ==
  ASSUME ParserInv, ReadFileName
  PROVE  ParserInv'
<1> DEFINE it == Increment(buffer, token_iter)
<1>1. TypeOK /\ event = EmptyEvent /\ IsAt(buffer, token_iter, 0)
  BY DEF ParserInv, ReadFileName
<1>2. /\ IsDatagram(buffer) /\ Deref(buffer, token_iter) \in Texts
      /\ it \in [current : 1 .. End(buffer), next : 1 .. End(buffer)]
  BY <1>1, ParserTypes
<1>3. /\ event' = [EmptyEvent EXCEPT !.file_name = Deref(buffer, token_iter)]
      /\ Proceed(it, "mode")
  BY <1>1 DEF ReadFileName
<1>4. TypeOK'
  <2>1. event' \in [file_name : Texts, mode : Texts, blksize : Texts,
                    timeout : Texts, tsize : Texts]
    BY <1>2, <1>3, TextAssumption DEF EmptyEvent
  <2> HIDE DEF it
  <2> QED
    BY <1>1, <1>2, <1>3, <2>1, ProceedTypes
<1>5. IsAt(buffer, it, 1)
  <2>1. IsAt(buffer, it, 0 + 1)
    BY <1>1, <1>2, IncrementAt
  <2> QED
    BY <2>1
<1>6. IsTokenNumber(buffer, 0, event'.file_name)
  <2>1. IsTokenNumber(buffer, 0, Deref(buffer, token_iter))
    BY <1>1, <1>2, TokenAt
  <2> QED
    BY <1>3, <2>1 DEF EmptyEvent
<1>7. NoOptions(event') /\ event'.mode = NoText
  BY <1>3 DEF EmptyEvent, NoOptions
<1>8. AtEnd(buffer, it) =>
        /\ IsTokenNumber(buffer, 1, NoText)
        /\ OptionsBelow(buffer, event', 2)
        /\ \A name : \A p, v \in 1 .. Len(buffer) :
             IsOption(buffer, name, p, v) => NullsBefore(buffer, p) < 2
  <2> SUFFICES ASSUME AtEnd(buffer, it)
               PROVE  /\ IsTokenNumber(buffer, 1, NoText)
                      /\ OptionsBelow(buffer, event', 2)
                      /\ \A name : \A p, v \in 1 .. Len(buffer) :
                           IsOption(buffer, name, p, v) => NullsBefore(buffer, p) < 2
    OBVIOUS
  <2>1. Deref(buffer, it) = NoText
    BY DEF Deref
  <2>2. IsTokenNumber(buffer, 1, NoText)
    BY <1>2, <1>5, <2>1, TokenAt
  <2>3. OptionsBelow(buffer, event', 2)
    BY <1>2, <1>7, NoneBelow DEF NoOptions, OptionsBelow
  <2>4. ASSUME NEW name, NEW p \in 1 .. Len(buffer), NEW v \in 1 .. Len(buffer),
               IsOption(buffer, name, p, v)
        PROVE  NullsBefore(buffer, p) < 2
    <3>1. NullsBefore(buffer, p) < 1
      BY <1>2, <1>5, <2>4, NoKeyLeft
    <3>2. PICK j \in Nat \ {0} : NullsBefore(buffer, p) = 2 * j
      BY <1>2, <2>4, OptionNumbers
    <3> QED
      BY <3>1, <3>2
  <2> QED
    BY <2>2, <2>3, <2>4
<1>9. AtEnd(buffer, it) =>
        /\ IsLastValue(buffer, "blksize", event'.blksize)
        /\ IsLastValue(buffer, "timeout", event'.timeout)
        /\ IsLastValue(buffer, "tsize", event'.tsize)
  BY <1>2, <1>8, OptionsComplete
<1>10. /\ buffer' = buffer /\ token_iter' = it
       /\ phase' = IF AtEnd(buffer, it) THEN "sent" ELSE "mode"
  BY <1>3 DEF Proceed
<1> HIDE DEF it
<1> QED
  BY <1>4, <1>5, <1>6, <1>7, <1>8, <1>9, <1>10 DEF ParserInv, ParsedAsWritten

\* The mode is token 1; with no token after it there is no option.
LEMMA ReadModeStep ==
  ASSUME ParserInv, ReadMode
  PROVE  ParserInv'
<1> DEFINE it == Increment(buffer, token_iter)
<1>1. /\ TypeOK /\ IsAt(buffer, token_iter, 1)
      /\ IsTokenNumber(buffer, 0, event.file_name) /\ NoOptions(event)
  BY DEF ParserInv, ReadMode
<1>2. /\ IsDatagram(buffer) /\ Deref(buffer, token_iter) \in Texts
      /\ it \in [current : 1 .. End(buffer), next : 1 .. End(buffer)]
  BY <1>1, ParserTypes
<1>3. /\ event' = [event EXCEPT !.mode = Deref(buffer, token_iter)]
      /\ Proceed(it, "options")
  BY DEF ReadMode
<1>4. TypeOK'
  <2>1. event' \in [file_name : Texts, mode : Texts, blksize : Texts,
                    timeout : Texts, tsize : Texts]
    BY <1>1, <1>2, <1>3 DEF TypeOK
  <2> HIDE DEF it
  <2> QED
    BY <1>1, <1>2, <1>3, <2>1, ProceedTypes
<1>5. IsAt(buffer, it, 2 * 1)
  <2>1. IsAt(buffer, it, 1 + 1)
    BY <1>1, <1>2, IncrementAt
  <2> QED
    BY <2>1
<1>6. /\ IsTokenNumber(buffer, 0, event'.file_name)
      /\ IsTokenNumber(buffer, 1, event'.mode)
      /\ NoOptions(event')
  <2>1. IsTokenNumber(buffer, 1, Deref(buffer, token_iter))
    BY <1>1, <1>2, TokenAt
  <2> QED
    BY <1>1, <1>3, <2>1 DEF TypeOK, NoOptions
<1>7. OptionsBelow(buffer, event', 2 * 1)
  BY <1>2, <1>6, NoneBelow DEF NoOptions, OptionsBelow
<1>8. AtEnd(buffer, it) =>
        /\ IsLastValue(buffer, "blksize", event'.blksize)
        /\ IsLastValue(buffer, "timeout", event'.timeout)
        /\ IsLastValue(buffer, "tsize", event'.tsize)
  <2> SUFFICES ASSUME AtEnd(buffer, it)
               PROVE  \A name : \A p, v \in 1 .. Len(buffer) :
                        IsOption(buffer, name, p, v) => NullsBefore(buffer, p) < 2 * 1
    BY <1>2, <1>7, OptionsComplete
  <2> QED
    BY <1>2, <1>5, NoKeyLeft
<1>9. /\ buffer' = buffer /\ token_iter' = it
      /\ phase' = IF AtEnd(buffer, it) THEN "sent" ELSE "options"
  BY <1>3 DEF Proceed
<1> HIDE DEF it
<1>10. \E j \in Nat \ {0} : /\ IsAt(buffer', token_iter', 2 * j)
                            /\ OptionsBelow(buffer', event', 2 * j)
  BY <1>5, <1>7, <1>9
<1> QED
  BY <1>4, <1>6, <1>8, <1>9, <1>10 DEF ParserInv, ParsedAsWritten

\* A round of the loop takes one key and its value; a key without a value
\* ends the loop and changes nothing.
LEMMA ReadOptionStep ==
  ASSUME ParserInv, ReadOption
  PROVE  ParserInv'
<1> DEFINE value == Increment(buffer, token_iter)
           after == Increment(buffer, value)
<1>1. /\ TypeOK /\ ~AtEnd(buffer, token_iter)
      /\ IsTokenNumber(buffer, 0, event.file_name)
      /\ IsTokenNumber(buffer, 1, event.mode)
  BY DEF ParserInv, ReadOption
<1>2. PICK j \in Nat \ {0} : /\ IsAt(buffer, token_iter, 2 * j)
                             /\ OptionsBelow(buffer, event, 2 * j)
  BY DEF ParserInv, ReadOption
<1>3. /\ IsDatagram(buffer)
      /\ value \in [current : 1 .. End(buffer), next : 1 .. End(buffer)]
  BY <1>1, ParserTypes
<1>4. IsAt(buffer, value, 2 * j + 1)
  BY <1>2, <1>3, IncrementAt
<1>5. CASE AtEnd(buffer, value)
  <2>1. Proceed(value, "options") /\ event' = event
    BY <1>5 DEF ReadOption
  <2> HIDE DEF value
  <2>2. TypeOK'
    BY <1>1, <1>3, <2>1, ProceedTypes DEF TypeOK
  <2>3. \A name : \A p, v \in 1 .. Len(buffer) :
          IsOption(buffer, name, p, v) => NullsBefore(buffer, p) < 2 * j
    <3> SUFFICES ASSUME NEW name, NEW p \in 1 .. Len(buffer), NEW v \in 1 .. Len(buffer),
                        IsOption(buffer, name, p, v)
                 PROVE  NullsBefore(buffer, p) < 2 * j
      OBVIOUS
    <3>1. NullsBefore(buffer, p) + 1 < 2 * j + 1
      BY <1>3, <1>4, <1>5, NoKeyLeft
    <3>2. PICK k \in Nat \ {0} : NullsBefore(buffer, p) = 2 * k
      BY <1>3, OptionNumbers
    <3> QED
      BY <3>1, <3>2
  <2>4. /\ IsLastValue(buffer, "blksize", event.blksize)
        /\ IsLastValue(buffer, "timeout", event.timeout)
        /\ IsLastValue(buffer, "tsize", event.tsize)
    BY <1>2, <1>3, <2>3, OptionsComplete
  <2>5. phase' = "sent" /\ buffer' = buffer
    BY <1>5, <2>1 DEF Proceed
  <2> QED
    BY <1>1, <2>1, <2>2, <2>4, <2>5 DEF ParserInv, ParsedAsWritten
<1>6. CASE ~AtEnd(buffer, value)
  <2> DEFINE key == TextAt(buffer, token_iter.current)
             text == TextAt(buffer, value.current)
  <2>1. /\ event' = Store(event, Deref(buffer, token_iter), Deref(buffer, value))
        /\ Proceed(after, "options")
    BY <1>6 DEF ReadOption
  <2>2. /\ Deref(buffer, token_iter) = key /\ Deref(buffer, value) = text
        /\ key \in Texts /\ text \in Texts
    <3>1. Deref(buffer, token_iter) \in Texts /\ Deref(buffer, value) \in Texts
      BY <1>1, <1>3, ParserTypes, DerefType
    <3> HIDE DEF value
    <3> QED
      BY <1>1, <1>6, <3>1 DEF Deref, TextAt
  <2>3. /\ IsToken(buffer, token_iter.current)
        /\ NullsBefore(buffer, token_iter.current) = 2 * j
        /\ IsToken(buffer, value.current)
        /\ NullsBefore(buffer, value.current) = 2 * j + 1
    <3> HIDE DEF value
    <3> QED
      BY <1>1, <1>2, <1>4, <1>6 DEF IsAt
  <2>4. after \in [current : 1 .. End(buffer), next : 1 .. End(buffer)]
    BY <1>3, IteratorType DEF Increment
  <2>5. IsAt(buffer, after, 2 * (j + 1))
    <3>1. IsAt(buffer, after, 2 * j + 1 + 1)
      BY <1>3, <1>4, IncrementAt
    <3>2. 2 * j + 1 + 1 = 2 * (j + 1)
      OBVIOUS
    <3> QED
      BY <3>1, <3>2
  <2> HIDE DEF value, after
  <2>6. event' \in [file_name : Texts, mode : Texts, blksize : Texts,
                    timeout : Texts, tsize : Texts]
    <3> HIDE DEF key, text
    <3> QED
      BY <1>1, <2>1, <2>2 DEF TypeOK, Store
  <2>7. TypeOK'
    BY <1>1, <2>1, <2>4, <2>6, ProceedTypes
  <2>8. OptionsBelow(buffer, event', 2 * (j + 1))
    <3>1. /\ token_iter.current \in 1 .. Len(buffer)
          /\ value.current \in 1 .. Len(buffer)
      BY <1>3, <2>3, TokenStarts
    <3>2. OptionsBelow(buffer, event', 2 * j + 2)
      BY <1>1, <1>2, <1>3, <2>1, <2>2, <2>3, <3>1, StoreKeepsLast DEF TypeOK
    <3>3. 2 * j + 2 = 2 * (j + 1)
      OBVIOUS
    <3> QED
      BY <3>2, <3>3
  <2>9. /\ IsTokenNumber(buffer, 0, event'.file_name)
        /\ IsTokenNumber(buffer, 1, event'.mode)
    <3>1. event'.file_name = event.file_name /\ event'.mode = event.mode
      <4> HIDE DEF key, text
      <4> QED
        BY <1>1, <2>1, <2>2 DEF TypeOK, Store
    <3> QED
      BY <1>1, <3>1
  <2>10. AtEnd(buffer, after) =>
           /\ IsLastValue(buffer, "blksize", event'.blksize)
           /\ IsLastValue(buffer, "timeout", event'.timeout)
           /\ IsLastValue(buffer, "tsize", event'.tsize)
    <3> SUFFICES ASSUME AtEnd(buffer, after)
                 PROVE  \A name : \A p, v \in 1 .. Len(buffer) :
                          IsOption(buffer, name, p, v)
                            => NullsBefore(buffer, p) < 2 * (j + 1)
      BY <1>3, <2>8, OptionsComplete
    <3> QED
      BY <1>3, <2>5, NoKeyLeft
  <2>11. /\ buffer' = buffer /\ token_iter' = after
         /\ phase' = IF AtEnd(buffer, after) THEN "sent" ELSE "options"
    BY <2>1 DEF Proceed
  <2>12. \E k \in Nat \ {0} : /\ IsAt(buffer', token_iter', 2 * k)
                              /\ OptionsBelow(buffer', event', 2 * k)
    <3>1. j + 1 \in Nat \ {0}
      OBVIOUS
    <3> QED
      BY <2>5, <2>8, <2>11, <3>1
  <2> QED
    BY <2>7, <2>9, <2>10, <2>11, <2>12 DEF ParserInv, ParsedAsWritten
<1> QED
  BY <1>5, <1>6

\* Every step of the parser keeps the invariant.
LEMMA ParserInvNext == ParserInv /\ [Next]_vars => ParserInv'
<1> SUFFICES ASSUME ParserInv, [Next]_vars PROVE ParserInv'
  OBVIOUS
<1>1. CASE CheckFraming
  BY <1>1, CheckFramingStep
<1>2. CASE ReadFileName
  BY <1>2, ReadFileNameStep
<1>3. CASE ReadMode
  BY <1>3, ReadModeStep
<1>4. CASE ReadOption
  BY <1>4, ReadOptionStep
<1>5. CASE UNCHANGED vars
  BY <1>5 DEF vars, ParserInv, TypeOK, ParsedAsWritten
<1> QED
  BY <1>1, <1>2, <1>3, <1>4, <1>5 DEF Next, Parse, Sent

\* The invariant holds of every run of the parser.
THEOREM ParserInvariance == Spec => []ParserInv
<1>1. Init => ParserInv
  BY ParserInvInit
<1>2. ParserInv /\ [Next]_vars => ParserInv'
  BY ParserInvNext
<1> QED
  BY <1>1, <1>2, PTL DEF Spec

\* The iterator never leaves the datagram and the event holds texts: the reads
\* of operator* stay within what was received.
THEOREM ParserTypesCorrect == Spec => []TypeOK
<1>1. ParserInv => TypeOK
  BY DEF ParserInv
<1> QED
  BY <1>1, ParserInvariance, PTL

\* The event is what the datagram says, whatever the number and the lengths of
\* its tokens: ProcessEventFromBuffer (enter_accepting.h) with the tokenizer
\* of request.h.
THEOREM RequestsAreParsedAsWritten == Spec => []ParsedAsWritten
<1>1. ParserInv => ParsedAsWritten
  BY DEF ParserInv
<1> QED
  BY <1>1, ParserInvariance, PTL


-----------------------------------------------------------------------------
(* The end of the parsing.                                                 *)

\* What the parser has called process_event with, in each phase.
Reported == IF Framed(buffer) THEN <<>> ELSE <<"AcceptingFailed">>
SentInv ==
  sent = IF phase = "received" THEN <<>>
         ELSE IF phase = "sent" THEN Append(Reported, "RequestReceived")
         ELSE Reported

\* The steps that are left, at most: each moves the iterator on.
Left ==
  IF phase = "sent" THEN 0
  ELSE IF phase = "received" THEN End(buffer) + 1
  ELSE End(buffer) + 1 - token_iter.current

\* An iterator that is not at the end goes on.
LEMMA IncrementMoves ==
  ASSUME NEW b, IsDatagram(b), NEW it \in [current : 1 .. End(b), next : 1 .. End(b)],
         NEW n \in Nat, IsAt(b, it, n), ~AtEnd(b, it)
  PROVE  it.current < Increment(b, it).current
<1> DEFINE p == it.current
           q == Increment(b, it).current
<1>1. Len(b) \in Nat /\ End(b) = Len(b) + 1
  BY DEF IsDatagram, End
<1>2. p \in 1 .. Len(b) /\ q \in 1 .. End(b)
  <2>1. Iterator(b, it.next) \in [current : 1 .. End(b), next : 1 .. End(b)]
    BY IteratorType
  <2>2. p \in 1 .. Len(b)
    BY <1>1 DEF AtEnd
  <2> QED
    BY <2>1, <2>2 DEF Increment
<1>3. IsAt(b, Increment(b, it), n + 1)
  BY IncrementAt
<1>4. CASE AtEnd(b, Increment(b, it))
  BY <1>1, <1>2, <1>4 DEF AtEnd
<1>5. CASE ~AtEnd(b, Increment(b, it))
  <2>1. NullsBefore(b, p) = n /\ NullsBefore(b, q) = n + 1 /\ IsStart(b, p)
    BY <1>3, <1>5, TokenStarts DEF IsAt
  <2> HIDE DEF p, q
  <2>2. p # q
    BY <2>1
  <2>3. q < p => NullsBefore(b, q) < NullsBefore(b, p)
    <3>1. p \in 1 .. End(b)
      BY <1>1, <1>2
    <3> QED
      BY <1>2, <2>1, <3>1, NumbersIncrease
  <2>4. ~(q < p)
    BY <2>1, <2>3
  <2>5. p \in Int /\ q \in Int
    BY <1>1, <1>2
  <2>6. p < q
    BY <2>2, <2>4, <2>5
  <2> QED
    BY <2>6 DEF p, q
<1> QED
  BY <1>4, <1>5

\* A step that takes the iterator on is one nearer to the end, and the event is
\* sent in the last one.
LEMMA ProceedEnds ==
  ASSUME ParserInv, SentInv, phase \in {"file_name", "mode", "options"},
         NEW it \in [current : 1 .. End(buffer), next : 1 .. End(buffer)],
         NEW p \in {"mode", "options"}, Proceed(it, p),
         ~AtEnd(buffer, it) => token_iter.current < it.current
  PROVE  SentInv' /\ Left' < Left
<1>1. buffer' = buffer /\ Reported' = Reported /\ sent = Reported
  BY DEF Proceed, Reported, SentInv
<1>2. SentInv'
  BY <1>1 DEF Proceed, SentInv
<1>3. Len(buffer) \in Nat /\ token_iter.current \in 1 .. End(buffer)
  BY ParserTypes DEF ParserInv, TypeOK, IsDatagram
<1>4. Left' < Left
  BY <1>1, <1>3 DEF Proceed, Left, End
<1> QED
  BY <1>2, <1>4

\* Every step of the parser is one of finitely many.
LEMMA ParseEnds ==
  ASSUME ParserInv, SentInv, Parse
  PROVE  SentInv' /\ Left' < Left
<1>1. IsDatagram(buffer) /\ TypeOK /\ Len(buffer) \in Nat
  <2>1. TypeOK /\ IsDatagram(buffer)
    BY ParserTypes DEF ParserInv
  <2> QED
    BY <2>1 DEF IsDatagram
<1>2. CASE CheckFraming
  <2>1. buffer' = buffer /\ sent' = Reported /\ Reported' = Reported
        /\ phase = "received" /\ phase' = "file_name"
        /\ token_iter' = Iterator(buffer, 1)
    BY <1>2 DEF CheckFraming, Reported
  <2>2. Iterator(buffer, 1).current \in 1 .. End(buffer)
    BY <1>1, IteratorType DEF End
  <2> QED
    BY <1>1, <2>1, <2>2 DEF SentInv, Left, End
<1> DEFINE value == Increment(buffer, token_iter)
           after == Increment(buffer, value)
<1>3. /\ value \in [current : 1 .. End(buffer), next : 1 .. End(buffer)]
      /\ after \in [current : 1 .. End(buffer), next : 1 .. End(buffer)]
  <2>1. value \in [current : 1 .. End(buffer), next : 1 .. End(buffer)]
    BY <1>1, ParserTypes
  <2> HIDE DEF value
  <2> QED
    BY <1>1, <2>1, IteratorType DEF Increment
<1>4. CASE phase = "file_name" \/ phase = "mode" \/ phase = "options"
  <2>1. PICK n \in Nat : IsAt(buffer, token_iter, n)
    <3>1. \A j \in Nat \ {0} : 2 * j \in Nat
      OBVIOUS
    <3> QED
      BY <1>4, <3>1 DEF ParserInv
  <2>2. ~AtEnd(buffer, value) => token_iter.current < value.current
    <3>1. CASE AtEnd(buffer, token_iter)
      BY <1>1, <2>1, <3>1 DEF IsAt, Increment, Iterator, Find, End, AtEnd
    <3>2. CASE ~AtEnd(buffer, token_iter)
      BY <1>1, <2>1, <3>2, IncrementMoves DEF TypeOK
    <3> QED
      BY <3>1, <3>2
  <2>3. IsAt(buffer, value, n + 1)
    BY <1>1, <2>1, IncrementAt
  <2>4. ~AtEnd(buffer, value) => value.current < after.current
    <3> HIDE DEF value
    <3>1. n + 1 \in Nat
      OBVIOUS
    <3> QED
      BY <1>1, <1>3, <2>3, <3>1, IncrementMoves
  <2>5. Proceed(value, "mode") \/ Proceed(value, "options")
        \/ (~AtEnd(buffer, value) /\ Proceed(after, "options"))
    BY <1>4 DEF Parse, CheckFraming, ReadFileName, ReadMode, ReadOption
  <2>6. token_iter.current \in Int /\ value.current \in Int /\ after.current \in Int
    BY <1>1, <1>3 DEF TypeOK, End
  <2> HIDE DEF value, after
  <2>7. CASE Proceed(value, "mode") \/ Proceed(value, "options")
    BY <1>3, <1>4, <2>2, <2>7, ProceedEnds
  <2>8. CASE ~AtEnd(buffer, value) /\ Proceed(after, "options")
    <3>1. token_iter.current < after.current
      BY <2>2, <2>4, <2>6, <2>8
    <3> QED
      BY <1>3, <1>4, <2>8, <3>1, ProceedEnds
  <2> QED
    BY <2>5, <2>7, <2>8
<1> QED
  BY <1>2, <1>4 DEF Parse, CheckFraming, ReadFileName, ReadMode, ReadOption

\* Whatever the datagram, the parser has made at most one RequestReceived of it,
\* after the report of one that is not framed; it stops after at most as many
\* steps as the datagram has symbols, and two, and has then made exactly one.
THEOREM ParsingIsShort ==
  Spec => /\ []SentInv
          /\ [](Left \in 0 .. Len(buffer) + 2)
          /\ [][Left' < Left]_vars
<1>1. Init => SentInv
  BY DEF Init, SentInv
<1>2. ParserInv /\ SentInv /\ [Next]_vars => SentInv'
  <2>1. ParserInv /\ SentInv /\ Parse => SentInv'
    BY ParseEnds
  <2>2. SentInv /\ UNCHANGED vars => SentInv'
    BY DEF vars, SentInv, Reported, Framed
  <2> QED
    BY <2>1, <2>2 DEF Next, Sent
<1>3. ParserInv => Left \in 0 .. Len(buffer) + 2
  <2>1. ParserInv => Len(buffer) \in Nat /\ token_iter.current \in 1 .. End(buffer)
    BY ParserTypes DEF ParserInv, TypeOK, IsDatagram
  <2> QED
    BY <2>1 DEF Left, End
<1>4. ParserInv /\ SentInv /\ [Next]_vars => [Left' < Left]_vars
  BY ParseEnds DEF Next, Sent
<1> QED
  BY <1>1, <1>2, <1>3, <1>4, ParserInvariance, PTL DEF Spec
=============================================================================
