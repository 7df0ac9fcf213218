--------------------------- MODULE DecodingProofs ---------------------------
(***************************************************************************)
(* Theorems about the decoders of RequestParsing: for digits of any length *)
(* the number they compute from the left, giving up when it grows too      *)
(* large, is the number the digits denote.                                 *)
(***************************************************************************)
EXTENDS RequestParsingProofs, Induction

-----------------------------------------------------------------------------
(* The recursive functions.                                                *)

\* What the definition of TenTo says.
LEMMA TenToValues ==
  /\ TenTo[0] = 1
  /\ \A n \in Nat : TenTo[n + 1] = 10 * TenTo[n]
<1> DEFINE step == [p \in Nat \X Nat |-> 10 * p[2]]
           Equation(g) == g = [n \in Nat |-> IF n = 0 THEN 1 ELSE 10 * g[n - 1]]
<1>1. IsStep(step, Nat)
  BY DEF IsStep
<1>2. \A n, m \in Nat : step[<<n, m>>] = 10 * m
  OBVIOUS
<1>3. 1 \in Nat
  OBVIOUS
<1> HIDE DEF step
<1>4. PICK g : IsRecursive(g, Nat, 1, step)
  BY ONLY <1>1, <1>3, Recursion
<1>5. ASSUME NEW n \in Nat
      PROVE  g[n] = IF n = 0 THEN 1 ELSE 10 * g[n - 1]
  <2>1. CASE n = 0
    BY <1>4, <2>1 DEF IsRecursive
  <2>2. CASE n # 0
    <3>1. PICK m \in Nat : n = m + 1
      BY <2>2
    <3>2. g[m + 1] = step[<<m, g[m]>>] /\ g[m] \in Nat
      BY <1>4 DEF IsRecursive
    <3> QED
      BY <1>2, <3>1, <3>2
  <2> QED
    BY <2>1, <2>2
<1>6. Equation(g)
  BY <1>4, <1>5 DEF IsRecursive
<1>7. TenTo = CHOOSE f : Equation(f)
  BY DEF TenTo
<1> HIDE DEF Equation
<1>8. Equation(TenTo)
  BY <1>6, <1>7
<1> QED
  BY <1>8 DEF Equation

\* A power of ten is a natural.
LEMMA TenToType == \A n \in Nat : TenTo[n] \in Nat
<1> DEFINE T == {n \in Nat : TenTo[n] \in Nat}
<1>1. 0 \in T
  BY TenToValues
<1>2. \A n \in Nat : n \in T => n + 1 \in T
  BY TenToValues
<1> HIDE DEF T
<1>3. Nat \subseteq T
  BY <1>1, <1>2, Induction
<1> QED
  BY <1>3 DEF T

\* h[k] is the number that the first k digits make.
IsPrefixNumber(h, digits) ==
  /\ h \in [Nat -> Nat]
  /\ h[0] = 0
  /\ \A k \in 0 .. Len(digits) - 1 : h[k + 1] = 10 * h[k] + digits[k + 1]

\* There are such numbers.
LEMMA PrefixNumbersExist ==
  ASSUME NEW digits \in Seq(0 .. 9)
  PROVE  \E h : IsPrefixNumber(h, digits)
<1> DEFINE add(k) == IF k \in 0 .. Len(digits) - 1 THEN digits[k + 1] ELSE 0
           step == [p \in Nat \X Nat |-> 10 * p[2] + add(p[1])]
<1>1. \A k \in Nat : add(k) \in Nat
  OBVIOUS
<1>2. \A k \in 0 .. Len(digits) - 1 : k \in Nat /\ add(k) = digits[k + 1]
  OBVIOUS
<1> HIDE DEF add
<1>3. IsStep(step, Nat)
  <2>1. \A n, m \in Nat : 10 * m + add(n) \in Nat
    BY <1>1
  <2>2. \A p \in Nat \X Nat : 10 * p[2] + add(p[1]) \in Nat
    BY <2>1
  <2> QED
    BY <2>2 DEF IsStep
<1>4. \A n, m \in Nat : step[<<n, m>>] = 10 * m + add(n)
  OBVIOUS
<1>5. 0 \in Nat
  OBVIOUS
<1> HIDE DEF step
<1>6. PICK h : IsRecursive(h, Nat, 0, step)
  BY ONLY <1>3, <1>5, Recursion
<1>7. IsPrefixNumber(h, digits)
  BY <1>2, <1>4, <1>6 DEF IsRecursive, IsPrefixNumber
<1> QED
  BY <1>7

\* They never fall: once above a bound, they stay above it.
LEMMA PrefixNumbersGrow ==
  ASSUME NEW digits \in Seq(0 .. 9), NEW h, IsPrefixNumber(h, digits),
         NEW k \in 0 .. Len(digits) - 1
  PROVE  h[k] <= h[k + 1]
<1>1. Len(digits) \in Nat /\ k + 1 \in 1 .. Len(digits) /\ k \in Nat /\ k + 1 \in Nat
  OBVIOUS
<1>2. PICK d \in 0 .. 9 : d = digits[k + 1]
  BY <1>1
<1>3. PICK n \in Nat : n = h[k]
  BY <1>1 DEF IsPrefixNumber
<1>4. h[k + 1] = 10 * n + d
  BY <1>2, <1>3 DEF IsPrefixNumber
<1> QED
  BY <1>2, <1>3, <1>4

-----------------------------------------------------------------------------
(* The number by place value.                                              *)

\* 10 * n + d, moved up by a power of ten.
LEMMA MovedUp ==
  ASSUME NEW n \in Nat, NEW d \in Nat, NEW t \in Nat
  PROVE  (10 * n + d) * t = d * t + n * (10 * t)
  OBVIOUS

\* The sum over the first k places is the number of the first k digits, moved
\* up by the places behind them.
LEMMA PlaceValueIsPrefix ==
  ASSUME NEW digits \in Seq(0 .. 9), NEW h, IsPrefixNumber(h, digits)
  PROVE  PlaceValue(digits) = h[Len(digits)]
<1> DEFINE L == Len(digits)
           f == [k \in 1 .. L |-> digits[k] * TenTo[L - k]]
           it == CHOOSE sum : IsSum(sum, f, 1 .. L)
<1>1. L \in Nat /\ DOMAIN digits = 1 .. L
  OBVIOUS
<1>2. PlaceValue(digits) = it[1 .. L]
  <2>1. PICK D : D = 1 .. L
    OBVIOUS
  <2> DEFINE eq(sum) == sum = [s \in SUBSET D |->
               IF s = {} THEN 0
               ELSE digits[CHOOSE x \in s : TRUE] * TenTo[L - (CHOOSE x \in s : TRUE)]
                      + sum[s \ {CHOOSE x \in s : TRUE}]]
  <2>2. PlaceValue(digits) = (CHOOSE sum : eq(sum))[D]
    BY <1>1, <2>1 DEF PlaceValue, MapThenSumSet, MapThenFoldSet
  <2>3. ASSUME NEW sum
        PROVE  eq(sum) <=> IsSum(sum, f, D)
    <3>1. ASSUME NEW s \in SUBSET D, s # {}
          PROVE  f[CHOOSE x \in s : TRUE]
                   = digits[CHOOSE x \in s : TRUE] * TenTo[L - (CHOOSE x \in s : TRUE)]
      <4>1. PICK x \in s : x = CHOOSE y \in s : TRUE
        BY <3>1
      <4>2. f[x] = digits[x] * TenTo[L - x]
        BY <2>1
      <4> QED
        BY <4>1, <4>2
    <3> HIDE DEF f
    <3> QED
      BY <3>1 DEF IsSum
  <2> HIDE DEF eq
  <2>4. (CHOOSE sum : eq(sum)) = CHOOSE sum : IsSum(sum, f, D)
    BY <2>3
  <2> QED
    BY <2>1, <2>2, <2>4
<1>3. ASSUME NEW k \in 1 .. L
      PROVE  f[k] = digits[k] * TenTo[L - k] /\ f[k] \in Nat
  <2>1. PICK d \in Nat : d = digits[k]
    BY <1>1
  <2>2. PICK t \in Nat : t = TenTo[L - k]
    BY <1>1, TenToType
  <2>3. d * t \in Nat
    OBVIOUS
  <2> QED
    BY <2>1, <2>2, <2>3
<1> HIDE DEF f
<1>4. IsSum(it, f, 1 .. L)
  <2>1. IsFiniteSet(1 .. L)
    BY <1>1, FS_Interval
  <2>2. PICK D : D = 1 .. L
    OBVIOUS
  <2>3. \E sum : IsSum(sum, f, D)
    BY <1>3, <2>1, <2>2, SumExists
  <2> QED
    BY <2>2, <2>3
<1> HIDE DEF it
<1>5. it[{}] = 0 /\ \A k \in 1 .. L : it[1 .. k] = f[k] + it[1 .. k - 1]
  BY <1>1, <1>3, <1>4, SumOfInterval
<1> DEFINE T == {k \in Nat : k <= L => it[1 .. k] = h[k] * TenTo[L - k]}
<1>6. 0 \in T
  <2>1. h[0] = 0 /\ TenTo[L] \in Nat /\ 1 .. 0 = {}
    BY <1>1, TenToType DEF IsPrefixNumber
  <2> QED
    BY <1>5, <2>1
<1>7. ASSUME NEW k \in Nat, k \in T, k + 1 <= L
      PROVE  it[1 .. k + 1] = h[k + 1] * TenTo[L - (k + 1)]
  <2>1. k + 1 \in 1 .. L /\ k \in 0 .. L - 1 /\ L - (k + 1) \in Nat
    BY <1>1, <1>7
  <2>2. PICK d \in Nat : d = digits[k + 1]
    BY <2>1
  <2>3. PICK n \in Nat : n = h[k]
    BY DEF IsPrefixNumber
  <2>4. PICK t \in Nat : t = TenTo[L - (k + 1)]
    BY <2>1, TenToType
  <2>5. TenTo[L - k] = 10 * t
    <3>1. PICK m \in Nat : m = L - (k + 1)
      BY <2>1
    <3>2. L - k = m + 1
      BY <1>1, <3>1
    <3> QED
      BY <2>4, <3>1, <3>2, TenToValues
  <2>6. it[1 .. k] = n * (10 * t)
    BY <1>7, <2>1, <2>3, <2>5
  <2>7. h[k + 1] = 10 * n + d
    BY <2>1, <2>2, <2>3 DEF IsPrefixNumber
  <2>8. f[k + 1] = d * t
    BY <1>3, <2>1, <2>2, <2>4
  <2>9. it[1 .. k + 1] = f[k + 1] + it[1 .. k]
    <3>1. (k + 1) - 1 = k
      OBVIOUS
    <3> QED
      BY <1>5, <2>1, <3>1
  <2>10. it[1 .. k + 1] = d * t + n * (10 * t)
    BY <2>6, <2>8, <2>9
  <2> QED
    BY <2>4, <2>7, <2>10, MovedUp
<1>8. \A k \in Nat : k \in T => k + 1 \in T
  BY <1>7
<1> HIDE DEF T
<1>9. L \in T
  BY <1>1, <1>6, <1>8, Induction
<1>10. it[1 .. L] = h[L] * TenTo[0]
  BY <1>1, <1>9 DEF T
<1>11. h[L] \in Nat /\ TenTo[0] = 1
  BY <1>1, TenToValues DEF IsPrefixNumber
<1> QED
  BY <1>2, <1>10, <1>11

-----------------------------------------------------------------------------
(* The decoders.                                                           *)

\* std::from_chars gives the number of all the digits, or none when it is
\* beyond the type.
LEMMA FromCharsValue ==
  ASSUME NEW text, text.digits \in Seq(0 .. 9), text.digits # <<>>,
         NEW max \in Nat, NEW h, IsPrefixNumber(h, text.digits)
  PROVE  FromChars(text, max)
           = IF h[Len(text.digits)] <= max THEN h[Len(text.digits)] ELSE None
<1> DEFINE L == Len(text.digits)
           bounded(k) == IF h[k] <= max THEN h[k] ELSE None
           eq(g) == g = [k \in 0 .. L |->
                           IF k = 0 THEN 0
                           ELSE IF g[k - 1] = None THEN None
                           ELSE IF 10 * g[k - 1] + text.digits[k] > max THEN None
                           ELSE 10 * g[k - 1] + text.digits[k]]
           value == CHOOSE g : eq(g)
<1>1. L \in Nat
  OBVIOUS
<1>2. FromChars(text, max) = value[L]
  BY DEF FromChars
<1>3. bounded(0) = 0
  BY DEF IsPrefixNumber
<1>4. ASSUME NEW k \in 0 .. L - 1
      PROVE  bounded(k + 1) =
               IF bounded(k) = None THEN None
               ELSE IF 10 * bounded(k) + text.digits[k + 1] > max THEN None
               ELSE 10 * bounded(k) + text.digits[k + 1]
  <2>1. PICK n \in Nat : n = h[k]
    BY <1>1 DEF IsPrefixNumber
  <2>2. PICK m \in Nat : m = h[k + 1]
    BY <1>1 DEF IsPrefixNumber
  <2>3. m = 10 * n + text.digits[k + 1] /\ n <= m
    BY <2>1, <2>2, PrefixNumbersGrow DEF IsPrefixNumber
  <2>4. CASE n <= max
    <3>1. bounded(k) = n /\ bounded(k) # None
      BY <2>1, <2>4, NoneAssumption
    <3>2. bounded(k + 1) = IF m <= max THEN m ELSE None
      BY <2>2
    <3> HIDE DEF bounded
    <3> QED
      BY <2>2, <2>3, <3>1, <3>2
  <2>5. CASE ~(n <= max)
    <3>1. ~(m <= max)
      BY <2>3, <2>5
    <3> QED
      BY <2>1, <2>2, <2>5, <3>1
  <2> QED
    BY <2>4, <2>5
<1> HIDE DEF bounded
<1>5. eq(value)
  <2> DEFINE g == [k \in 0 .. L |-> bounded(k)]
  <2>1. ASSUME NEW k \in 0 .. L
        PROVE  bounded(k) =
                 IF k = 0 THEN 0
                 ELSE IF g[k - 1] = None THEN None
                 ELSE IF 10 * g[k - 1] + text.digits[k] > max THEN None
                 ELSE 10 * g[k - 1] + text.digits[k]
    <3>1. CASE k = 0
      BY <1>3, <3>1
    <3>2. CASE k # 0
      <4>1. PICK j \in 0 .. L - 1 : k = j + 1
        <5>1. k - 1 \in 0 .. L - 1 /\ k = (k - 1) + 1
          BY <1>1, <3>2
        <5> QED
          BY <5>1
      <4>2. j \in 0 .. L /\ k - 1 = j /\ g[k - 1] = bounded(j)
        BY <1>1, <4>1
      <4> HIDE DEF g
      <4> QED
        BY <1>4, <3>2, <4>1, <4>2
    <3> QED
      BY <3>1, <3>2
  <2>2. eq(g)
    BY <2>1
  <2> HIDE DEF eq, g
  <2> QED
    BY <2>2
<1> HIDE DEF value
<1> DEFINE T == {k \in Nat : k <= L => value[k] = bounded(k)}
<1>6. 0 \in T
  BY <1>1, <1>3, <1>5
<1>7. ASSUME NEW k \in Nat, k \in T, k + 1 <= L
      PROVE  value[k + 1] = bounded(k + 1)
  <2>1. k \in 0 .. L - 1 /\ k + 1 \in 0 .. L /\ k + 1 # 0 /\ (k + 1) - 1 = k
    BY <1>1, <1>7
  <2>2. value[k] = bounded(k)
    BY <1>7, <2>1
  <2>3. value[k + 1] =
          IF value[k] = None THEN None
          ELSE IF 10 * value[k] + text.digits[k + 1] > max THEN None
          ELSE 10 * value[k] + text.digits[k + 1]
    BY <1>5, <2>1
  <2> QED
    BY <1>4, <2>1, <2>2, <2>3
<1>8. \A k \in Nat : k \in T => k + 1 \in T
  BY <1>7
<1> HIDE DEF T
<1>9. L \in T
  BY <1>1, <1>6, <1>8, Induction
<1>10. value[L] = bounded(L)
  BY <1>1, <1>9 DEF T
<1> QED
  BY <1>2, <1>10 DEF bounded

\* All of the text is digits, and there are some.
IsNumeral(text) == text.digits # <<>> /\ text.letters = ""

\* What a numeral denotes, with its value named,
LEMMA NumeralDenotes ==
  ASSUME NEW text, IsNumeral(text), NEW v \in Nat, v = PlaceValue(text.digits),
         NEW lo \in Nat, NEW hi \in Nat, NEW n
  PROVE  Denotes(text, lo, hi, n) <=> n = IF v >= lo /\ v <= hi THEN v ELSE None
<1>1. Denotes(text, lo, hi, n) <=> IF v >= lo /\ v <= hi THEN n = v ELSE n = None
  BY Zenon DEF Denotes, IsNumeral
<1> QED
  BY <1>1

\* and that no other text denotes anything.
LEMMA OthersDenoteNothing ==
  ASSUME NEW text, ~IsNumeral(text), NEW lo, NEW hi, NEW n
  PROVE  Denotes(text, lo, hi, n) <=> n = None
BY Zenon DEF Denotes, IsNumeral

\* A text is a number up to max exactly when Number finds it.
LEMMA NumberIsValue ==
  ASSUME NEW text \in Text, NEW max \in Nat
  PROVE  IF IsNumeral(text)
         THEN \E v \in Nat : /\ v = PlaceValue(text.digits)
                             /\ Number(text, max) = IF v <= max THEN v ELSE None
         ELSE Number(text, max) = None
<1>1. text.digits \in Seq(0 .. 9)
  BY DEF Text
<1>2. CASE IsNumeral(text)
  <2>1. text.digits # <<>> /\ text.letters = ""
    BY <1>2, Zenon DEF IsNumeral
  <2>2. PICK h : IsPrefixNumber(h, text.digits)
    BY <1>1, PrefixNumbersExist
  <2>3. PICK n : n = h[Len(text.digits)]
    OBVIOUS
  <2>4. n \in Nat
    BY <1>1, <2>2, <2>3 DEF IsPrefixNumber
  <2>5. PlaceValue(text.digits) = n
    BY <1>1, <2>2, <2>3, PlaceValueIsPrefix
  <2>6. FromChars(text, max) = IF n <= max THEN n ELSE None
    BY <1>1, <2>1, <2>2, <2>3, FromCharsValue
  <2>7. Number(text, max) = FromChars(text, max)
    BY <2>1, Zenon DEF Number
  <2> QED
    BY <1>2, <2>4, <2>5, <2>6, <2>7
<1>3. CASE ~IsNumeral(text)
  <2>1. CASE text.digits = <<>>
    BY <1>3, <2>1, Zenon DEF Number, FromChars
  <2>2. CASE text.digits # <<>>
    BY <1>3, <2>2, Zenon DEF Number, IsNumeral
  <2> QED
    BY <2>1, <2>2
<1> QED
  BY <1>2, <1>3

\* The decoders of the options give a number of the range, and give it exactly
\* to the texts that are that number.
LEMMA OptionsDenote ==
  ASSUME NEW text \in Text
  PROVE  /\ Denotes(text, 8, 65464, GetBlockSize(text))
         /\ Denotes(text, 1, 255, GetTimeOut(text))
         /\ Denotes(text, 0, SizeMax, GetTransferSize(text))
<1>1. SizeMax \in Nat /\ SizeMax >= 65535 /\ None \notin Nat
  BY SizeAssumption, NoneAssumption
<1>2. PICK b : b = Number(text, SizeMax)
  OBVIOUS
<1>3. PICK t : t = Number(text, 255)
  OBVIOUS
<1>4. GetBlockSize(text) = IF b # None /\ b >= 8 /\ b <= 65464 THEN b ELSE None
  BY <1>2 DEF GetBlockSize, IsValidBlockSize, kMinDataBlockCount, kMaxDataBlockCount
<1>5. GetTimeOut(text) = IF t = 0 THEN None ELSE t
  BY <1>3 DEF GetTimeOut, MaxByte
<1>6. GetTransferSize(text) = b
  BY <1>2 DEF GetTransferSize
<1>7. 0 \in Nat /\ 1 \in Nat /\ 8 \in Nat /\ 255 \in Nat /\ 65464 \in Nat
  OBVIOUS
<1>8. CASE IsNumeral(text)
  <2>1. PICK v \in Nat : /\ v = PlaceValue(text.digits)
                         /\ b = IF v <= SizeMax THEN v ELSE None
    BY <1>1, <1>2, <1>8, NumberIsValue
  <2>2. t = IF v <= 255 THEN v ELSE None
    BY <1>3, <1>7, <1>8, <2>1, NumberIsValue
  <2>3. /\ GetBlockSize(text) = IF v >= 8 /\ v <= 65464 THEN v ELSE None
        /\ GetTimeOut(text) = IF v >= 1 /\ v <= 255 THEN v ELSE None
        /\ GetTransferSize(text) = IF v >= 0 /\ v <= SizeMax THEN v ELSE None
    BY <1>1, <1>4, <1>5, <1>6, <2>1, <2>2
  <2> QED
    BY <1>1, <1>7, <1>8, <2>1, <2>3, NumeralDenotes
<1>9. CASE ~IsNumeral(text)
  <2>1. b = None /\ t = None
    BY <1>1, <1>2, <1>3, <1>7, <1>9, NumberIsValue
  <2>2. GetBlockSize(text) = None /\ GetTimeOut(text) = None /\ GetTransferSize(text) = None
    BY <1>1, <1>4, <1>5, <1>6, <2>1
  <2> QED
    BY <1>9, <2>2, OthersDenoteNothing
<1> QED
  BY <1>8, <1>9

\* What is in the range of an option is a number of that range, or None.
LEMMA DenotesRange ==
  ASSUME NEW text \in Text, NEW lo \in Nat, NEW hi \in Nat, NEW n,
         Denotes(text, lo, hi, n)
  PROVE  n = None \/ n \in lo .. hi
<1>1. CASE IsNumeral(text)
  <2>1. PICK v \in Nat : v = PlaceValue(text.digits)
    BY <1>1, NumberIsValue
  <2>2. n = IF v >= lo /\ v <= hi THEN v ELSE None
    BY <1>1, <2>1, NumeralDenotes
  <2> QED
    BY <2>2
<1>2. CASE ~IsNumeral(text)
  BY <1>2, OthersDenoteNothing
<1> QED
  BY <1>1, <1>2

-----------------------------------------------------------------------------
(* The theorems.                                                           *)

\* The block size, the timeout and the transfer size that a session gets are
\* the numbers their values denote, whatever the digits: GetBlockSize,
\* GetTimeOut, GetTransferSize and the from_chars they call.
THEOREM OptionsAreDecodedAsWritten == Spec => []DecodedAsWritten
<1>1. TypeOK => DecodedAsWritten
  <2> SUFFICES ASSUME TypeOK PROVE DecodedAsWritten
    OBVIOUS
  <2>1. event.blksize \in Text /\ event.timeout \in Text /\ event.tsize \in Text
    BY TextAssumption DEF TypeOK
  <2>2. /\ Denotes(event.blksize, 8, 65464, GetBlockSize(event.blksize))
        /\ Denotes(event.timeout, 1, 255, GetTimeOut(event.timeout))
        /\ Denotes(event.tsize, 0, SizeMax, GetTransferSize(event.tsize))
    BY <2>1, OptionsDenote
  <2> QED
    BY <2>2 DEF DecodedAsWritten, Decoded
<1>2. Spec => []TypeOK
  BY ParserTypesCorrect
<1> QED
  BY <1>1, <1>2, PTL

\* What the parser hands on is a request as the sessions take one in: an input
\* of Session, which has Requests for it and assumes no more of them.
THEOREM ParserMakesRequests ==
  Spec => [](\A op \in {"RRQ", "WRQ", "OTHER"} : Decoded(op) \in Request)
<1> DEFINE Made == \A op \in {"RRQ", "WRQ", "OTHER"} : Decoded(op) \in Request
<1>1. TypeOK => Made
  <2> SUFFICES ASSUME TypeOK, NEW op \in {"RRQ", "WRQ", "OTHER"}
               PROVE  Decoded(op) \in Request
    OBVIOUS
  <2>1. event.blksize \in Text /\ event.timeout \in Text /\ event.tsize \in Text
    BY TextAssumption DEF TypeOK
  <2>2. /\ Denotes(event.blksize, 8, 65464, GetBlockSize(event.blksize))
        /\ Denotes(event.timeout, 1, 255, GetTimeOut(event.timeout))
        /\ Denotes(event.tsize, 0, SizeMax, GetTransferSize(event.tsize))
    BY <2>1, OptionsDenote
  <2>3. GetBlockSize(event.blksize) \in (Nat \ {0}) \cup {None}
    <3>1. 8 \in Nat /\ 65464 \in Nat /\ 8 .. 65464 \subseteq Nat \ {0}
      OBVIOUS
    <3> QED
      BY <2>1, <2>2, <3>1, DenotesRange
  <2>4. GetTimeOut(event.timeout) \in Nat \cup {None}
    <3>1. 1 \in Nat /\ 255 \in Nat /\ 1 .. 255 \subseteq Nat
      OBVIOUS
    <3> QED
      BY <2>1, <2>2, <3>1, DenotesRange
  <2>5. GetTransferSize(event.tsize) \in Nat \cup {None}
    <3>1. 0 \in Nat /\ SizeMax \in Nat /\ 0 .. SizeMax \subseteq Nat
      BY SizeAssumption
    <3> QED
      BY <2>1, <2>2, <3>1, DenotesRange
  <2>6. Resolve[event.file_name] \in Files \cup {NoFile}
    BY ResolveAssumption DEF TypeOK
  <2>7. Framed(buffer) \in BOOLEAN /\ (GetMode(event.mode) # None) \in BOOLEAN
    BY DEF Framed
  <2> QED
    BY <2>3, <2>4, <2>5, <2>6, <2>7 DEF Decoded, Request
<1>2. Spec => []TypeOK
  BY ParserTypesCorrect
<1> HIDE DEF Made
<1>3. Spec => []Made
  BY <1>1, <1>2, PTL
<1> QED
  BY <1>3 DEF Made
=============================================================================
