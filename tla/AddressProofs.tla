---------------------------- MODULE AddressProofs ----------------------------
(***************************************************************************)
(* The IPv4 and IPv6 parsers, for every text: what the operators of        *)
(* ParserCommon consume and return, the octets of an IPv4 address and the  *)
(* strict prefixes of both versions, and the loop of the IPv6 parser, which *)
(* keeps to the text and to its 128 bits, consumes text or ends at every   *)
(* iteration, and never lets two groups fall on the same bits.             *)
(***************************************************************************)
EXTENDS IPv6Expected, IPv4, InductionLemmas, TLAPS
-------------------------------------------------------------------------------
(* What the operators of ParserCommon consume and return, for every text,  *)
(* position and character class.                                           *)

\* Span looks at each character of a class in turn, up to a limit.
LEMMA SpanCounts ==
  ASSUME NEW s, NEW i \in Nat, NEW class, NEW limit \in Nat
  PROVE  /\ Span(s, i, class, limit) \in 0..limit
         /\ \A k \in 0..(Span(s, i, class, limit) - 1) : At(s, i + k) \in class
         /\ \/ Span(s, i, class, limit) = limit
            \/ At(s, i + Span(s, i, class, limit)) \notin class
<1> DEFINE T == {n \in 0..limit : n = limit \/ At(s, i + n) \notin class}
           Spans(n) == /\ \A k \in 0..(n - 1) : At(s, i + k) \in class
                       /\ n = limit \/ At(s, i + n) \notin class
<1>1. limit \in T /\ T \in SUBSET Nat
  OBVIOUS
<1>2. PICK n \in T : \A m \in T : n <= m
  <2> HIDE DEF T
  <2> QED
    BY <1>1, LeastElement
<1>3. ASSUME NEW k \in 0..(n - 1) PROVE At(s, i + k) \in class
  <2>1. k \in 0..limit /\ ~(n <= k)
    BY <1>1, <1>2
  <2> QED
    BY <1>2, <2>1
<1>4. \E m \in 0..limit : Spans(m)
  BY <1>2, <1>3
<1>5. Span(s, i, class, limit) = CHOOSE m \in 0..limit : Spans(m)
  BY DEF Span
<1> HIDE DEF Spans
<1>6. Span(s, i, class, limit) \in 0..limit /\ Spans(Span(s, i, class, limit))
  BY <1>4, <1>5
<1> QED
  BY <1>6 DEF Spans

\* A class of characters does not have the end of a text, which is none.
OfCharacters(class) == "" \notin class

LEMMA ClassesOfCharacters == OfCharacters(HexDigit) /\ OfCharacters(Num)
<1>1. /\ HexDigits[1] # "" /\ HexDigits[2] # "" /\ HexDigits[3] # "" /\ HexDigits[4] # ""
     /\ HexDigits[5] # "" /\ HexDigits[6] # "" /\ HexDigits[7] # "" /\ HexDigits[8] # ""
     /\ HexDigits[9] # "" /\ HexDigits[10] # "" /\ HexDigits[11] # "" /\ HexDigits[12] # ""
     /\ HexDigits[13] # "" /\ HexDigits[14] # "" /\ HexDigits[15] # "" /\ HexDigits[16] # ""
  BY DEF HexDigits
<1>2. ASSUME NEW k \in 1..16 PROVE HexDigits[k] # ""
  <2>1. k \in {1, 2, 3, 4, 5, 6, 7, 8, 9, 10, 11, 12, 13, 14, 15, 16}
    OBVIOUS
  <2> QED
    BY <1>1, <2>1
<1>3. \A k \in 1..10 : k \in 1..16
  OBVIOUS
<1> QED
  BY <1>2, <1>3 DEF HexDigit, Num, OfCharacters

\* What an operator that consumes returns: NoMatch, or a position further on in
\* the text or at its end, and only if it began inside the text.
Further(s, i, r) == r = NoMatch \/ (i \in 1..Len(s) /\ r \in (i + 1)..(Len(s) + 1))

LEMMA DomainOf ==
  ASSUME NEW s \in Seq(STRING)
  PROVE  DOMAIN s = 1..Len(s) /\ Len(s) \in Nat
  OBVIOUS

LEMMA InText ==
  ASSUME NEW s \in Seq(STRING), NEW i, NEW class, OfCharacters(class), At(s, i) \in class
  PROVE  i \in 1..Len(s)
<1>1. i \in DOMAIN s
  BY DEF At, OfCharacters
<1> QED
  BY <1>1, DomainOf

LEMMA ConsumeFurther ==
  ASSUME NEW s \in Seq(STRING), NEW i \in Nat, NEW class, OfCharacters(class)
  PROVE  Further(s, i, Consume(s, i, class))
<1>1. At(s, i) \in class => i \in 1..Len(s)
  BY InText
<1>2. i \in 1..Len(s) => i + 1 \in (i + 1)..(Len(s) + 1)
  BY DomainOf
<1> QED
  BY <1>1, <1>2 DEF Further, Consume

\* A span that is not empty lies in the text.
LEMMA SpanFurther ==
  ASSUME NEW s \in Seq(STRING), NEW i \in Nat, NEW class, OfCharacters(class),
         NEW limit \in Nat, Span(s, i, class, limit) # 0
  PROVE  Further(s, i, i + Span(s, i, class, limit))
<1> DEFINE n == Span(s, i, class, limit)
<1>1. n \in 0..limit /\ \A k \in 0..(n - 1) : At(s, i + k) \in class
  BY SpanCounts
<1>2. n # 0
  OBVIOUS
<1> HIDE DEF n
<1>3. n \in Nat /\ n - 1 \in 0..(n - 1) /\ 0 \in 0..(n - 1)
  BY <1>1, <1>2
<1>4. At(s, i + (n - 1)) \in class /\ At(s, i + 0) \in class
  BY <1>1, <1>3
<1>5. i + (n - 1) \in 1..Len(s) /\ i + 0 \in 1..Len(s)
  BY <1>4, InText
<1>6. i \in 1..Len(s) /\ i + n \in (i + 1)..(Len(s) + 1)
  BY <1>2, <1>3, <1>5, DomainOf
<1> QED
  BY <1>6 DEF Further, n

LEMMA HexadecimalFurther ==
  ASSUME NEW s \in Seq(STRING), NEW i \in Nat, NEW maxDigits \in Nat, NEW minDigits
  PROVE  Further(s, i, ParseHexadecimalNumber(s, i, maxDigits, minDigits))
<1> DEFINE n == Span(s, i, HexDigit, maxDigits + 1)
<1>1. n # 0 => Further(s, i, i + n)
  BY SpanFurther, ClassesOfCharacters
<1>2. \/ ParseHexadecimalNumber(s, i, maxDigits, minDigits) = NoMatch
      \/ n # 0 /\ ParseHexadecimalNumber(s, i, maxDigits, minDigits) = i + n
  BY DEF ParseHexadecimalNumber
<1> QED
  BY <1>1, <1>2 DEF Further

LEMMA DecimalFurther ==
  ASSUME NEW s \in Seq(STRING), NEW i \in Nat, NEW max, DecimalDigits(max) \in Nat
  PROVE  Further(s, i, ParseDecimalNumber(s, i, max))
<1> DEFINE n == Span(s, i, Num, DecimalDigits(max) + 1)
<1>1. n # 0 => Further(s, i, i + n)
  BY SpanFurther, ClassesOfCharacters
<1>2. \/ ParseDecimalNumber(s, i, max) = NoMatch
      \/ n # 0 /\ ParseDecimalNumber(s, i, max) = i + n
  BY DEF ParseDecimalNumber
<1> QED
  BY <1>1, <1>2 DEF Further

LEMMA DecimalDigitsOf ==
  DecimalDigits(255) = 3 /\ DecimalDigits(128) = 3 /\ DecimalDigits(32) = 2
<1>1. \A max \in {128, 255}, d \in 1..5 :
        PowersOf10[d] <= max /\ max < PowersOf10[d + 1] <=> d = 3
  BY DEF PowersOf10
<1>2. \A d \in 1..5 : PowersOf10[d] <= 32 /\ 32 < PowersOf10[d + 1] <=> d = 2
  BY DEF PowersOf10
<1> QED
  BY <1>1, <1>2 DEF DecimalDigits
-------------------------------------------------------------------------------
\* To consume twice is to consume: after NoMatch nothing matches any more.
LEMMA FurtherOn ==
  ASSUME NEW s \in Seq(STRING), NEW i \in Nat, NEW r, NEW q,
         Further(s, i, r), Further(s, r, q)
  PROVE  Further(s, i, q)
<1>1. Len(s) \in Nat
  BY DomainOf
<1>2. CASE r = NoMatch
  <2>1. r \notin 1..Len(s)
    BY <1>1, <1>2 DEF NoMatch
  <2> QED
    BY <2>1 DEF Further
<1>3. CASE q # NoMatch /\ r # NoMatch
  BY <1>1, <1>3 DEF Further
<1> QED
  BY <1>2, <1>3 DEF Further

LEMMA FurtherPosition ==
  ASSUME NEW s \in Seq(STRING), NEW i \in Nat, NEW r, Further(s, i, r)
  PROVE  r \in Nat
  BY DomainOf DEF Further, NoMatch

LEMMA OctetStarts ==
  ASSUME NEW s, NEW i
  PROVE  /\ OctetStart(s, i, 1) = i
         /\ \A k \in 2..4 : OctetStart(s, i, k) =
              Consume(s, ParseDecimalOctet(s, OctetStart(s, i, k - 1)), {"."})
<1> DEFINE next(x) == Consume(s, ParseDecimalOctet(s, x), {"."})
           Starts(f) == f = [j \in 1..4 |-> IF j = 1 THEN i ELSE next(f[j - 1])]
           g == [j \in 1..4 |-> CASE j = 1 -> i
                                  [] j = 2 -> next(i)
                                  [] j = 3 -> next(next(i))
                                  [] OTHER -> next(next(next(i)))]
           start == CHOOSE f : Starts(f)
<1>1. \A k : OctetStart(s, i, k) = start[k]
  BY DEF OctetStart
<1> HIDE DEF next
<1>2. Starts(g)
  <2>1. ASSUME NEW j \in 1..4 PROVE g[j] = IF j = 1 THEN i ELSE next(g[j - 1])
    <3>1. j = 1 \/ j = 2 \/ j = 3 \/ j = 4
      OBVIOUS
    <3> QED
      BY <3>1
  <2> QED
    BY <2>1
<1>3. Starts(start)
  <2> HIDE DEF g, Starts
  <2> QED
    BY <1>2
<1> HIDE DEF start
<1>4. start[1] = i /\ \A k \in 2..4 : start[k] = next(start[k - 1])
  BY <1>3
<1> QED
  BY <1>1, <1>4 DEF next

\* A dotted address lies in the text.
LEMMA DottedFurther ==
  ASSUME NEW s \in Seq(STRING), NEW i \in Nat
  PROVE  Further(s, i, DottedEnd(s, i))
<1>1. ASSUME NEW j \in Nat PROVE Further(s, j, ParseDecimalOctet(s, j))
  BY DecimalFurther, DecimalDigitsOf DEF ParseDecimalOctet
<1>2. OfCharacters({"."})
  BY DEF OfCharacters
<1>3. ASSUME NEW j \in Nat PROVE Further(s, j, Consume(s, ParseDecimalOctet(s, j), {"."}))
  <2>1. ParseDecimalOctet(s, j) \in Nat
    BY <1>1, FurtherPosition
  <2>2. Further(s, ParseDecimalOctet(s, j), Consume(s, ParseDecimalOctet(s, j), {"."}))
    BY <1>2, <2>1, ConsumeFurther
  <2> QED
    BY <1>1, <2>2, FurtherOn
<1> DEFINE at(k) == OctetStart(s, i, k)
<1>4. /\ at(1) = i
      /\ at(2) = Consume(s, ParseDecimalOctet(s, at(1)), {"."})
      /\ at(3) = Consume(s, ParseDecimalOctet(s, at(2)), {"."})
      /\ at(4) = Consume(s, ParseDecimalOctet(s, at(3)), {"."})
  BY OctetStarts
<1>5. DottedEnd(s, i) = ParseDecimalOctet(s, at(4))
  BY DEF DottedEnd
<1> HIDE DEF at
<1>6. Further(s, i, at(2)) /\ at(2) \in Nat
  BY <1>3, <1>4, FurtherPosition
<1>7. Further(s, i, at(3)) /\ at(3) \in Nat
  BY <1>3, <1>4, <1>6, FurtherOn, FurtherPosition
<1>8. Further(s, i, at(4)) /\ at(4) \in Nat
  BY <1>3, <1>4, <1>7, FurtherOn, FurtherPosition
<1> QED
  BY <1>1, <1>5, <1>8, FurtherOn
-----------------------------------------------------------------------------
(* The values of numbers.                                                    *)

LEMMA DigitValues == ASSUME NEW c \in HexDigit PROVE DigitValue[c] \in Nat
<1>1. PICK k \in 1..16 : HexDigits[k] = c
  BY DEF HexDigit
<1> DEFINE j == CHOOSE j \in 1..16 : HexDigits[j] = c
<1>2. j \in 1..16
  BY <1>1
<1>3. DigitValue[c] = j - 1
  BY DEF DigitValue
<1> HIDE DEF j
<1> QED
  BY <1>2, <1>3

\* The partial values of a number, from no digit to all of N.
Values(s, i, base, f, N) ==
  f = [k \in 0..N |-> IF k = 0 THEN 0 ELSE f[k - 1] * base + DigitValue[s[i + k - 1]]]

LEMMA ValuesExist ==
  ASSUME NEW s, NEW i, NEW base
  PROVE  \A N \in Nat : \E f : Values(s, i, base, f, N)
<1> DEFINE T == {N \in Nat : \E f : Values(s, i, base, f, N)}
           next(v, k) == v * base + DigitValue[s[i + k - 1]]
<1>0. \A f, N : Values(s, i, base, f, N)
        <=> f = [k \in 0..N |-> IF k = 0 THEN 0 ELSE next(f[k - 1], k)]
  BY DEF Values
<1> HIDE DEF next
<1>1. 0 \in T
  <2> DEFINE f == [k \in 0..0 |-> 0]
  <2>1. f = [k \in 0..0 |-> IF k = 0 THEN 0 ELSE next(f[k - 1], k)]
    OBVIOUS
  <2> HIDE DEF f
  <2>2. Values(s, i, base, f, 0)
    BY <1>0, <2>1
  <2> QED
    BY <2>2
<1>2. ASSUME NEW N \in Nat, N \in T PROVE N + 1 \in T
  <2>1. PICK f : Values(s, i, base, f, N)
    BY <1>2
  <2> DEFINE g == [k \in 0..(N + 1) |-> IF k = N + 1 THEN next(f[N], k) ELSE f[k]]
  <2>2. ASSUME NEW k \in 0..(N + 1)
        PROVE  g[k] = IF k = 0 THEN 0 ELSE next(g[k - 1], k)
    <3>1. CASE k = N + 1
      BY <3>1
    <3>2. CASE k \in 0..N
      <4>1. f = [j \in 0..N |-> IF j = 0 THEN 0 ELSE next(f[j - 1], j)]
        BY <1>0, <2>1
      <4>2. f[k] = IF k = 0 THEN 0 ELSE next(f[k - 1], k)
        BY <3>2, <4>1, Zenon
      <4>3. g[k] = f[k] /\ (k # 0 => g[k - 1] = f[k - 1])
        BY <3>2
      <4> HIDE DEF g
      <4> QED
        BY <4>2, <4>3
    <3> QED
      BY <3>1, <3>2
  <2>3. g = [k \in 0..(N + 1) |-> IF k = 0 THEN 0 ELSE next(g[k - 1], k)]
    <3>1. g = [k \in 0..(N + 1) |-> g[k]]
      OBVIOUS
    <3> HIDE DEF g
    <3> QED
      BY <2>2, <3>1
  <2> HIDE DEF g
  <2>4. Values(s, i, base, g, N + 1)
    BY <1>0, <2>3
  <2> QED
    BY <2>4
<1> HIDE DEF T
<1>3. Nat \subseteq T
  BY <1>1, <1>2, Induction
<1> QED
  BY <1>3 DEF T

LEMMA NumberNatural ==
  ASSUME NEW s \in Seq(STRING), NEW i \in Nat, NEW n \in Nat, NEW base \in Nat,
         \A k \in 0..(n - 1) : At(s, i + k) \in HexDigit
  PROVE  Number(s, i, n, base) \in Nat
<1> DEFINE value == CHOOSE f : Values(s, i, base, f, n)
           T == {k \in Nat : k <= n => value[k] \in Nat}
<1>1. Values(s, i, base, value, n)
  <2> HIDE DEF T
  <2> QED
    BY ValuesExist
<1>2. Number(s, i, n, base) = value[n]
  BY DEF Number, Values
<1> HIDE DEF value
<1>3. /\ value[0] = 0
      /\ \A k \in 1..n : value[k] = value[k - 1] * base + DigitValue[s[i + k - 1]]
  BY <1>1 DEF Values
<1>4. ASSUME NEW k \in 1..n PROVE DigitValue[s[i + k - 1]] \in Nat
  <2>1. k - 1 \in 0..(n - 1) /\ i + (k - 1) = i + k - 1
    OBVIOUS
  <2>2. At(s, i + k - 1) \in HexDigit
    BY <2>1
  <2>3. i + k - 1 \in DOMAIN s
    BY <2>2, InText, ClassesOfCharacters, DomainOf
  <2>4. s[i + k - 1] \in HexDigit
    BY <2>2, <2>3 DEF At
  <2> QED
    BY <2>4, DigitValues
<1>5. 0 \in T
  BY <1>3
<1>6. ASSUME NEW k \in Nat, k \in T PROVE k + 1 \in T
  <2>1. CASE k + 1 <= n
    <3>1. k + 1 \in 1..n /\ (k + 1) - 1 = k
      BY <2>1
    <3>2. value[k + 1] = value[k] * base + DigitValue[s[i + (k + 1) - 1]]
      BY <1>3, <3>1
    <3> DEFINE digit == DigitValue[s[i + (k + 1) - 1]]
    <3>3. value[k] \in Nat /\ digit \in Nat
      <4>1. k <= n
        BY <2>1
      <4> QED
        BY <1>4, <1>6, <3>1, <4>1
    <3>4. value[k + 1] = value[k] * base + digit
      BY <3>1, <3>2
    <3> HIDE DEF digit
    <3>5. value[k + 1] \in Nat
      BY <3>3, <3>4
    <3> QED
      BY <3>5
  <2> QED
    BY <2>1
<1> HIDE DEF T
<1>7. n \in T
  BY <1>5, <1>6, Induction
<1> QED
  BY <1>2, <1>7 DEF T

\* A number that is read has a value within the limit.
ReadWithin(s, i, max) ==
  ParseDecimalNumber(s, i, max) # NoMatch
    => Number(s, i, ParseDecimalNumber(s, i, max) - i, 10) \in 0..max

LEMMA DecimalWithin ==
  ASSUME NEW s \in Seq(STRING), NEW i \in Nat, NEW max \in Nat, DecimalDigits(max) \in Nat
  PROVE  ReadWithin(s, i, max)
<1> SUFFICES ASSUME ParseDecimalNumber(s, i, max) # NoMatch
             PROVE  Number(s, i, ParseDecimalNumber(s, i, max) - i, 10) \in 0..max
  BY DEF ReadWithin
<1> DEFINE n == Span(s, i, Num, DecimalDigits(max) + 1)
<1>1. n \in Nat /\ \A k \in 0..(n - 1) : At(s, i + k) \in Num
  BY SpanCounts
<1>2. ParseDecimalNumber(s, i, max) = i + n /\ ~(Number(s, i, n, 10) > max)
  BY DEF ParseDecimalNumber
<1> HIDE DEF n
<1>3. \A c \in Num : c \in HexDigit
  BY DEF Num, HexDigit
<1>4. Number(s, i, n, 10) \in Nat
  BY <1>1, <1>3, NumberNatural
<1>5. ParseDecimalNumber(s, i, max) - i = n
  BY <1>1, <1>2
<1> QED
  BY <1>2, <1>4, <1>5

\* The limits in use.
LEMMA LimitsWithin ==
  ASSUME NEW s \in Seq(STRING), NEW i \in Nat
  PROVE  ReadWithin(s, i, 32) /\ ReadWithin(s, i, 128) /\ ReadWithin(s, i, 255)
<1>1. ASSUME NEW max \in {32, 128, 255} PROVE ReadWithin(s, i, max)
  <2>1. max \in Nat /\ DecimalDigits(max) \in Nat
    BY DecimalDigitsOf
  <2> QED
    BY <2>1, DecimalWithin
<1> QED
  BY <1>1
-------------------------------------------------------------------------------
(* IPv4: octets, the length of a prefix, and the shifts they are used in.  *)

\* Any text with a dotted address at i has four octets there, each of one byte.
THEOREM OctetsAreBytes ==
  ASSUME NEW s \in Seq(STRING), NEW i \in Nat, DottedEnd(s, i) # NoMatch
  PROVE  \A k \in 1..4 : Octet(s, i, k) \in 0..255
<1> DEFINE at(k) == OctetStart(s, i, k)
           end(k) == ParseDecimalOctet(s, at(k))
<1>1. \A j \in Nat : Further(s, j, ParseDecimalOctet(s, j))
  BY DecimalFurther, DecimalDigitsOf DEF ParseDecimalOctet
<1>2. /\ at(1) = i /\ at(2) = Consume(s, end(1), {"."})
      /\ at(3) = Consume(s, end(2), {"."}) /\ at(4) = Consume(s, end(3), {"."})
  BY OctetStarts
<1>3. end(4) # NoMatch
  BY DEF DottedEnd
<1>4. OfCharacters({"."})
  BY DEF OfCharacters
<1> HIDE DEF at
<1>5. ASSUME NEW x \in Nat, NEW next, next = Consume(s, ParseDecimalOctet(s, x), {"."})
      PROVE  /\ next \in Nat
             /\ next # NoMatch => ParseDecimalOctet(s, x) # NoMatch
  <2>1. Further(s, x, ParseDecimalOctet(s, x)) /\ ParseDecimalOctet(s, x) \in Nat
    BY <1>1, FurtherPosition
  <2>2. Further(s, ParseDecimalOctet(s, x), next) /\ next \in Nat
    BY <1>4, <1>5, <2>1, ConsumeFurther, FurtherPosition
  <2> QED
    BY <2>2, DomainOf DEF Further, NoMatch
<1>6. at(1) \in Nat /\ at(2) \in Nat /\ at(3) \in Nat /\ at(4) \in Nat
  BY <1>2, <1>5
<1>7. \A x \in Nat : ParseDecimalOctet(s, x) # NoMatch => x # NoMatch
  BY <1>1, DomainOf DEF Further, NoMatch
<1>8. end(1) # NoMatch /\ end(2) # NoMatch /\ end(3) # NoMatch
  BY <1>2, <1>3, <1>5, <1>6, <1>7
<1>9. ASSUME NEW k \in 1..4 PROVE Octet(s, i, k) \in 0..255
  <2>1. at(k) \in Nat /\ end(k) # NoMatch
    <3>1. k = 1 \/ k = 2 \/ k = 3 \/ k = 4
      OBVIOUS
    <3> QED
      BY <1>3, <1>6, <1>8, <3>1
  <2>2. Number(s, at(k), ParseDecimalNumber(s, at(k), 255) - at(k), 10) \in 0..255
    <3>1. ReadWithin(s, at(k), 255)
      BY <2>1, LimitsWithin
    <3> QED
      BY <2>1, <3>1 DEF ReadWithin, ParseDecimalOctet
  <2> QED
    BY <2>2 DEF Octet, ParseDecimalOctet, at
<1> QED
  BY <1>9

\* The mask of a length has the upper `length` bits, for length 0 as well.
LEMMA Mask4Bits ==
  ASSUME NEW length \in 0..32
  PROVE  Mask4(length) = (32 - length)..31
<1>1. CASE length = 0
  BY <1>1 DEF Mask4
<1>2. CASE length # 0
  BY <1>2 DEF Mask4, ShiftLeft, IPv4BitsCount
<1> QED
  BY <1>1, <1>2

\* On any text that is a prefix the length is at most 32, the mask is shifted by
\* less than the width of the word, and a strict prefix is one whose bits below
\* the mask are all zero.
THEOREM StrictIsHostPart4 ==
  ASSUME NEW s \in Seq(STRING), ParseIPv4Prefix(s)
  PROVE  /\ PrefixLength4(s) \in 0..32
         /\ PrefixLength4(s) # 0 => IPv4BitsCount - PrefixLength4(s) \in 0..31
         /\ DottedBits(s, 1) \ Mask4(PrefixLength4(s)) = {}
              <=> DottedBits(s, 1) \cap 0..(31 - PrefixLength4(s)) = {}
<1> DEFINE at == PrefixLengthStart4(s)
           length == PrefixLength4(s)
<1>1. OfCharacters({"/"})
  BY DEF OfCharacters
<1>2. DottedEnd(s, 1) \in Nat
  BY DottedFurther, FurtherPosition
<1>3. at \in Nat
  BY <1>1, <1>2, ConsumeFurther, FurtherPosition DEF PrefixLengthStart4
<1>4. ParseDecimalNumber(s, at, 32) # NoMatch
  BY DEF ParseIPv4Prefix, PrefixLengthEnd4, IPv4BitsCount
<1>5. Number(s, at, ParseDecimalNumber(s, at, 32) - at, 10) \in 0..32
  <2> HIDE DEF at
  <2> QED
    BY <1>3, <1>4, LimitsWithin DEF ReadWithin
<1>6. length \in 0..32
  BY <1>5 DEF PrefixLength4, PrefixLengthEnd4, IPv4BitsCount
<1>7. DottedBits(s, 1) \subseteq 0..31
  BY DEF DottedBits, ShiftLeft
<1> HIDE DEF length
<1>8. DottedBits(s, 1) \ Mask4(length) = DottedBits(s, 1) \cap 0..(31 - length)
  <2>1. Mask4(length) = (32 - length)..31
    BY <1>6, Mask4Bits
  <2>2. \A j \in 0..31 : j \notin (32 - length)..31 <=> j \in 0..(31 - length)
    BY <1>6
  <2> QED
    BY <1>7, <2>1, <2>2
<1>9. length # 0 => 32 - length \in 0..31
  BY <1>6
<1>10. DottedBits(s, 1) \ Mask4(length) = {} <=> DottedBits(s, 1) \cap 0..(31 - length) = {}
  BY <1>8
<1> QED
  BY <1>6, <1>9, <1>10 DEF length, IPv4BitsCount
-------------------------------------------------------------------------------
(* The loop of the IPv6 parser, and its strict prefixes.                   *)

\* The states of the loop on a text.
LoopState(s) ==
  [at: 1..(Len(s) + 1), index: 0..9, doubleColonFound: BOOLEAN, b: SUBSET (0..127),
   bits: SUBSET (0..127), looping: BOOLEAN, ok: BOOLEAN]

LEMMA StartState == ASSUME NEW s \in Seq(STRING) PROVE Start \in LoopState(s)
  BY DomainOf DEF Start, LoopState

LEMMA ShiftedBits ==
  ASSUME NEW bits, NEW n \in Nat
  PROVE  /\ ShiftLeft(bits, n, 32) \subseteq n..31 /\ ShiftLeft(bits, n, 32) \subseteq 0..31
         /\ ShiftLeft(bits, n, IPv6BitsCount) \subseteq n..127
         /\ ShiftLeft(bits, n, IPv6BitsCount) \subseteq 0..127
  BY DEF ShiftLeft, IPv6BitsCount

LEMMA DottedLow == ASSUME NEW s, NEW i PROVE DottedBits(s, i) \subseteq 0..31
<1>1. ASSUME NEW k \in 1..4 PROVE ShiftLeft(Bits(Octet(s, i, k), 8), 8 * (4 - k), 32) \subseteq 0..31
  <2>1. 8 * (4 - k) \in Nat
    OBVIOUS
  <2> QED
    BY <2>1, ShiftedBits
<1> QED
  BY <1>1 DEF DottedBits

LEMMA RefuseState ==
  ASSUME NEW s \in Seq(STRING), NEW q \in LoopState(s)
  PROVE  Refuse(q) \in LoopState(s) /\ ~Refuse(q).looping
  BY DEF Refuse, LoopState

LEMMA LeaveState ==
  ASSUME NEW s \in Seq(STRING), NEW q \in LoopState(s)
  PROVE  Leave(q) \in LoopState(s) /\ ~Leave(q).looping
  BY DEF Leave, LoopState

-------------------------------------------------------------------------------
(* One iteration, in each of its ways: the state it leaves, and how far on.   *)

LEMMA DottedState ==
  ASSUME NEW s \in Seq(STRING), NEW q \in LoopState(s), q.index < HexadecatetsCount
  PROVE  TakeDotted(s, q) \in LoopState(s) /\ ~TakeDotted(s, q).looping
<1>1. CASE DottedEnd(s, q.at) = NoMatch
  BY <1>1, RefuseState DEF TakeDotted
<1>2. CASE DottedEnd(s, q.at) # NoMatch
  <2> DEFINE r == [q EXCEPT !.at = DottedEnd(s, q.at), !.index = @ + 2,
                            !.bits = @ \cup DottedBits(s, q.at),
                            !.b = ShiftLeft(@, 32, IPv6BitsCount)]
  <2>1. q.at \in Nat /\ DottedEnd(s, q.at) \in 1..(Len(s) + 1)
    <3>1. q.at \in Nat
      BY DomainOf DEF LoopState
    <3>2. Further(s, q.at, DottedEnd(s, q.at))
      BY <3>1, DottedFurther
    <3> QED
      BY <1>2, <3>1, <3>2, DomainOf DEF Further
  <2>2. DottedBits(s, q.at) \subseteq 0..127
    BY DottedLow
  <2>3. ShiftLeft(q.b, 32, IPv6BitsCount) \subseteq 0..127
    BY ShiftedBits
  <2>4. q.index + 2 \in 0..9
    BY DEF LoopState, HexadecatetsCount
  <2>5. r \in LoopState(s)
    BY <2>1, <2>2, <2>3, <2>4 DEF LoopState
  <2>6. TakeDotted(s, q) = Leave(r)
    BY <1>2 DEF TakeDotted
  <2> HIDE DEF r
  <2> QED
    BY <2>5, <2>6, LeaveState
<1> QED
  BY <1>1, <1>2

LEMMA HexadecatetState ==
  ASSUME NEW s \in Seq(STRING), NEW q \in LoopState(s), q.index < HexadecatetsCount, q.looping,
         NEW end, end # NoMatch, Further(s, q.at, end)
  PROVE  /\ TakeHexadecatet(s, q, end) \in LoopState(s)
         /\ TakeHexadecatet(s, q, end).at > q.at
<1>1. q.at \in Nat /\ end \in 1..(Len(s) + 1) /\ end > q.at
  BY DomainOf DEF LoopState, Further
<1>2. ShiftLeft(q.b, 16, IPv6BitsCount) \subseteq 0..127
  BY ShiftedBits
<1>3. Bits(Number(s, q.at, end - q.at, 16), 16) \subseteq 0..127
  BY DEF Bits
<1>4. ShiftLeft(q.b, 16, IPv6BitsCount) \cup Bits(Number(s, q.at, end - q.at, 16), 16) \subseteq 0..127
  BY <1>2, <1>3
<1>5. q.index + 1 \in 0..9
  BY DEF LoopState, HexadecatetsCount
<1> QED
  BY <1>1, <1>4, <1>5 DEF TakeHexadecatet, LoopState

LEMMA DoubleColonState ==
  ASSUME NEW s \in Seq(STRING), NEW q \in LoopState(s), q.index < HexadecatetsCount, q.looping,
         ConsumeSequence(s, q.at, <<":", ":">>) # NoMatch
  PROVE  /\ TakeDoubleColon(s, q) \in LoopState(s)
         /\ \/ TakeDoubleColon(s, q).at > q.at
            \/ ~TakeDoubleColon(s, q).looping
<1>1. CASE At(s, q.at + 2) = ":" \/ q.index > HexadecatetsCount - 1 \/ q.doubleColonFound
  BY <1>1, RefuseState DEF TakeDoubleColon
<1>2. CASE ~(At(s, q.at + 2) = ":" \/ q.index > HexadecatetsCount - 1 \/ q.doubleColonFound)
  <2>1. q.at \in Nat /\ q.at + 2 \in 1..(Len(s) + 1)
    <3>1. At(s, q.at + 1) \in {":"}
      <4>1. At(s, q.at + 2 - 1) = <<":", ":">>[2]
        BY DEF ConsumeSequence
      <4>2. q.at \in Int
        BY DEF LoopState
      <4> QED
        BY <4>1, <4>2
    <3>2. OfCharacters({":"})
      BY DEF OfCharacters
    <3>3. q.at + 1 \in 1..Len(s)
      BY <3>1, <3>2, InText
    <3> QED
      BY <3>3, DomainOf DEF LoopState
  <2>2. 16 * (HexadecatetsCount - q.index) \in Nat
    BY DEF LoopState, HexadecatetsCount
  <2>3. ShiftLeft(q.b, 16 * (HexadecatetsCount - q.index), IPv6BitsCount) \subseteq 0..127
    BY <2>2, ShiftedBits
  <2>4. q.index + 1 \in 0..9
    BY DEF LoopState, HexadecatetsCount
  <2> DEFINE r == [q EXCEPT !.at = @ + 2, !.index = @ + 1, !.doubleColonFound = TRUE,
                            !.b = {}, !.bits = @ \cup
                              ShiftLeft(q.b, 16 * (HexadecatetsCount - q.index), IPv6BitsCount)]
  <2>5. TakeDoubleColon(s, q) = r
    BY <1>2, Zenon DEF TakeDoubleColon
  <2>6. r \in LoopState(s) /\ r.at = q.at + 2
    BY <2>1, <2>3, <2>4 DEF LoopState
  <2> HIDE DEF r
  <2>7. r.at > q.at
    BY <2>1, <2>6
  <2> QED
    BY <2>5, <2>6, <2>7
<1> QED
  BY <1>1, <1>2

LEMMA ColonState ==
  ASSUME NEW s \in Seq(STRING), NEW q \in LoopState(s), q.looping
  PROVE  /\ TakeColon(s, q) \in LoopState(s)
         /\ TakeColon(s, q).at > q.at \/ ~TakeColon(s, q).looping
<1>1. CASE q.index = 0 \/ Empty(s, q.at + 1)
  BY <1>1, RefuseState DEF TakeColon
<1>2. CASE ~(q.index = 0 \/ Empty(s, q.at + 1))
  <2>1. q.at \in Nat /\ q.at + 1 \in 1..(Len(s) + 1)
    BY <1>2, DomainOf DEF LoopState, Empty
  <2>2. TakeColon(s, q) = [q EXCEPT !.at = @ + 1]
    BY <1>2 DEF TakeColon
  <2>3. [q EXCEPT !.at = @ + 1] \in LoopState(s) /\ [q EXCEPT !.at = @ + 1].at = q.at + 1
    BY <2>1 DEF LoopState
  <2> QED
    BY <2>1, <2>2, <2>3
<1> QED
  BY <1>1, <1>2

LEMMA IterateState ==
  ASSUME NEW s \in Seq(STRING), NEW q \in LoopState(s), q.looping
  PROVE  /\ Iterate(s, q) \in LoopState(s)
         /\ Iterate(s, q).at > q.at \/ ~Iterate(s, q).looping
<1> DEFINE end == ParseHexadecimalHexadecatet(s, q.at)
<1>1. q.at \in Nat /\ q.index \in 0..9
  BY DomainOf DEF LoopState
<1>2. CASE q.index >= HexadecatetsCount
  BY <1>2, LeaveState DEF Iterate
<1>3. CASE q.index < HexadecatetsCount
  <2>1. ~(q.index >= HexadecatetsCount)
    BY <1>1, <1>3 DEF HexadecatetsCount
  <2>2. CASE DottedAhead(s, q)
    BY <1>3, <2>1, <2>2, DottedState DEF Iterate
  <2>3. CASE ~DottedAhead(s, q) /\ end # NoMatch
    <3>1. Further(s, q.at, end)
      BY <1>1, HexadecimalFurther DEF ParseHexadecimalHexadecatet
    <3>2. Iterate(s, q) = TakeHexadecatet(s, q, end)
      BY <2>1, <2>3 DEF Iterate
    <3> QED
      BY <1>3, <2>3, <3>1, <3>2, HexadecatetState
  <2>4. CASE /\ ~DottedAhead(s, q) /\ end = NoMatch
             /\ ConsumeSequence(s, q.at, <<":", ":">>) # NoMatch
    <3>1. Iterate(s, q) = TakeDoubleColon(s, q)
      BY <2>1, <2>4 DEF Iterate
    <3> QED
      BY <1>3, <2>4, <3>1, DoubleColonState
  <2>5. CASE /\ ~DottedAhead(s, q) /\ end = NoMatch
             /\ ConsumeSequence(s, q.at, <<":", ":">>) = NoMatch
    <3>1. Iterate(s, q) \in {TakeColon(s, q), Leave(q)}
      BY <2>1, <2>5 DEF Iterate
    <3> QED
      BY <3>1, ColonState, LeaveState
  <2> QED
    BY <2>2, <2>3, <2>4, <2>5
<1> QED
  BY <1>1, <1>2, <1>3 DEF HexadecatetsCount

-------------------------------------------------------------------------------
\* The inductive invariant: a text of Texts and a state of the loop on it.
OnText == text \in Texts /\ text \in Seq(STRING) /\ p \in LoopState(text)

LEMMA OnTextHolds == LoopSpec => []OnText
<1>1. LoopInit => OnText
  BY TextsAssumption, StartState DEF LoopInit, OnText
<1>2. OnText /\ [LoopNext]_loopVars => OnText'
  <2> SUFFICES ASSUME OnText, [LoopNext]_loopVars PROVE OnText'
    OBVIOUS
  <2>1. CASE Parse
    BY <2>1, IterateState DEF Parse, OnText
  <2>2. CASE UNCHANGED loopVars
    BY <2>2 DEF OnText, loopVars
  <2> QED
    BY <2>1, <2>2 DEF LoopNext
<1> QED
  BY <1>1, <1>2, PTL DEF LoopSpec

\* The loop of parseAddressPart never looks past the end of the text, counts at
\* most nine groups and keeps to 128 bits, whatever the text.
THEOREM LoopTypeCorrect == LoopSpec => []TypeOK
<1>1. OnText => TypeOK
  BY DEF OnText, TypeOK, LoopState
<1> QED
  BY <1>1, OnTextHolds, PTL

\* Every iteration of the loop of parseAddressPart reads on or is the last,
\* whatever the text: the loop cannot hang.
THEOREM LoopConsumes == LoopSpec => []EveryIterationConsumes
<1>1. OnText => EveryIterationConsumes
  BY IterateState DEF OnText, EveryIterationConsumes
<1> QED
  BY <1>1, OnTextHolds, PTL
-------------------------------------------------------------------------------
(* Where the groups lie while the loop runs: before the double colon they are *)
(* all in b, from the bottom; then those before it, `front` of them, are at   *)
(* the top of bits and the others in b.                                       *)
FrontOnly(q) == /\ ~q.doubleColonFound /\ q.bits = {}
                /\ q.b \subseteq 0..(16 * q.index - 1)

FrontAndBack(q) ==
  \E front \in 0..7 :
    /\ q.doubleColonFound /\ front + 1 <= q.index
    /\ q.bits \subseteq (16 * (8 - front))..127
    /\ q.b \subseteq 0..(16 * (q.index - front - 1) - 1)

Layout(q) == q.looping => FrontOnly(q) \/ FrontAndBack(q)

LEMMA GroupAppended ==
  ASSUME NEW b, NEW groups \in Int, b \subseteq 0..(16 * groups - 1), NEW value, groups >= 0
  PROVE  ShiftLeft(b, 16, IPv6BitsCount) \cup Bits(value, 16) \subseteq 0..(16 * (groups + 1) - 1)
<1>1. ASSUME NEW j \in ShiftLeft(b, 16, IPv6BitsCount) PROVE j \in 0..(16 * (groups + 1) - 1)
  BY DEF ShiftLeft, IPv6BitsCount
<1>2. ASSUME NEW j \in Bits(value, 16) PROVE j \in 0..(16 * (groups + 1) - 1)
  BY DEF Bits
<1> QED
  BY <1>1, <1>2

LEMMA HexadecatetLayout ==
  ASSUME NEW s \in Seq(STRING), NEW q \in LoopState(s), q.looping, Layout(q), NEW end
  PROVE  Layout(TakeHexadecatet(s, q, end))
<1> DEFINE r == TakeHexadecatet(s, q, end)
<1>1. /\ r.looping /\ r.index = q.index + 1 /\ r.bits = q.bits
      /\ r.doubleColonFound = q.doubleColonFound
      /\ r.b = ShiftLeft(q.b, 16, IPv6BitsCount) \cup Bits(Number(s, q.at, end - q.at, 16), 16)
  BY DEF TakeHexadecatet, LoopState
<1>2. q.index \in 0..9
  BY DEF LoopState
<1> HIDE DEF r
<1>3. CASE FrontOnly(q)
  <2>1. r.b \subseteq 0..(16 * (q.index + 1) - 1)
    <3>1. q.index \in Int /\ q.index >= 0
      BY <1>2
    <3>2. q.b \subseteq 0..(16 * q.index - 1)
      BY <1>3 DEF FrontOnly
    <3> QED
      BY <1>1, <3>1, <3>2, GroupAppended
  <2> QED
    BY <1>1, <1>3, <2>1 DEF Layout, FrontOnly, r
<1>4. CASE FrontAndBack(q)
  <2>1. PICK front \in 0..7 : /\ q.doubleColonFound /\ front + 1 <= q.index
                              /\ q.bits \subseteq (16 * (8 - front))..127
                              /\ q.b \subseteq 0..(16 * (q.index - front - 1) - 1)
    BY <1>4 DEF FrontAndBack
  <2>2. q.index - front - 1 \in Int /\ q.index - front - 1 >= 0
    BY <1>2, <2>1
  <2>3. r.b \subseteq 0..(16 * ((q.index - front - 1) + 1) - 1)
    BY <1>1, <2>1, <2>2, GroupAppended
  <2>4. (q.index - front - 1) + 1 = r.index - front - 1 /\ front + 1 <= r.index
    BY <1>1, <1>2, <2>1
  <2> QED
    BY <1>1, <2>1, <2>3, <2>4 DEF Layout, FrontAndBack, r
<1> QED
  BY <1>3, <1>4 DEF Layout

LEMMA DoubleColonLayout ==
  ASSUME NEW s \in Seq(STRING), NEW q \in LoopState(s), q.looping, Layout(q)
  PROVE  Layout(TakeDoubleColon(s, q))
<1> DEFINE r == TakeDoubleColon(s, q)
           refused == At(s, q.at + 2) = ":" \/ q.index > HexadecatetsCount - 1 \/ q.doubleColonFound
<1>1. CASE refused
  BY <1>1, RefuseState DEF TakeDoubleColon, Layout
<1>2. CASE ~refused
  <2>1. q.index \in 0..7 /\ ~q.doubleColonFound
    BY <1>2 DEF LoopState, HexadecatetsCount
  <2>2. FrontOnly(q)
    BY <2>1 DEF Layout, FrontAndBack
  <2>3. r = [q EXCEPT !.at = @ + 2, !.index = @ + 1, !.doubleColonFound = TRUE, !.b = {},
                      !.bits = @ \cup ShiftLeft(q.b, 16 * (HexadecatetsCount - q.index),
                                                IPv6BitsCount)]
    BY <1>2, Zenon DEF TakeDoubleColon
  <2> HIDE DEF r
  <2>4. /\ r.index = q.index + 1 /\ r.doubleColonFound /\ r.b = {}
        /\ r.bits = q.bits \cup ShiftLeft(q.b, 16 * (HexadecatetsCount - q.index), IPv6BitsCount)
    BY <2>3 DEF LoopState
  <2>5. 16 * (8 - q.index) \in Nat
    BY <2>1
  <2>6. r.bits \subseteq (16 * (8 - q.index))..127
    BY <2>2, <2>4, <2>5, ShiftedBits DEF FrontOnly, HexadecatetsCount
  <2>7. q.index + 1 <= r.index
    BY <2>1, <2>4
  <2> QED
    BY <2>1, <2>4, <2>6, <2>7 DEF Layout, FrontAndBack, r
<1> QED
  BY <1>1, <1>2

LEMMA IterateLayout ==
  ASSUME NEW s \in Seq(STRING), NEW q \in LoopState(s), q.looping, Layout(q)
  PROVE  Layout(Iterate(s, q))
<1>1. ASSUME NEW r, ~r.looping PROVE Layout(r)
  BY <1>1 DEF Layout
<1>2. Layout(Leave(q))
  BY <1>1, LeaveState
<1>3. q.index < HexadecatetsCount => Layout(TakeDotted(s, q))
  BY <1>1, DottedState
<1>4. \A end : Layout(TakeHexadecatet(s, q, end))
  BY HexadecatetLayout
<1>5. Layout(TakeDoubleColon(s, q))
  BY DoubleColonLayout
<1>6. Layout(TakeColon(s, q))
  <2>1. CASE TakeColon(s, q) = Refuse(q)
    BY <1>1, <2>1, RefuseState
  <2>2. CASE TakeColon(s, q) = [q EXCEPT !.at = @ + 1]
    <3> DEFINE r == [q EXCEPT !.at = @ + 1]
    <3>1. /\ r.index = q.index /\ r.doubleColonFound = q.doubleColonFound /\ r.b = q.b
          /\ r.bits = q.bits /\ r.looping = q.looping
      BY DEF LoopState
    <3> HIDE DEF r
    <3>2. Layout(r)
      BY <3>1 DEF Layout, FrontOnly, FrontAndBack
    <3> QED
      BY <2>2, <3>2 DEF r
  <2> QED
    BY <2>1, <2>2 DEF TakeColon
<1>7. q.index >= HexadecatetsCount \/ q.index < HexadecatetsCount
  BY DEF LoopState, HexadecatetsCount
<1> QED
  BY <1>2, <1>3, <1>4, <1>5, <1>6, <1>7 DEF Iterate

LEMMA LayoutHolds == LoopSpec => []Layout(p)
<1>1. LoopInit => Layout(p)
  BY DEF LoopInit, Start, Layout, FrontOnly
<1>2. OnText /\ Layout(p) /\ [LoopNext]_loopVars => Layout(p)'
  <2> SUFFICES ASSUME OnText, Layout(p), [LoopNext]_loopVars PROVE Layout(p)'
    OBVIOUS
  <2>1. CASE Parse
    BY <2>1, IterateLayout DEF Parse, OnText
  <2>2. CASE UNCHANGED loopVars
    BY <2>2 DEF loopVars, Layout, FrontOnly, FrontAndBack
  <2> QED
    BY <2>1, <2>2 DEF LoopNext
<1> QED
  BY <1>1, <1>2, OnTextHolds, PTL DEF LoopSpec

\* parseAddressPart shifts and ors its groups into place without one ever
\* touching the bits of another, and loses none at the top, whatever the text:
\* with seven groups and more as well.
THEOREM GroupsStayApart == LoopSpec => []GroupsApart
<1>1. OnText /\ Layout(p) => GroupsApart
  <2> SUFFICES ASSUME OnText, Layout(p), p.looping, p.index < HexadecatetsCount
               PROVE  /\ p.b \cap p.bits = {}
                      /\ \A j \in p.b : j + 16 < IPv6BitsCount
                      /\ DottedAhead(text, p) =>
                           \A j \in p.b : j + 32 < IPv6BitsCount /\ j + 32 \notin p.bits
                      /\ DottedAhead(text, p) => p.bits \cap 0..31 = {}
    BY DEF GroupsApart
  <2>1. p.index \in 0..7
    BY DEF OnText, LoopState, HexadecatetsCount
  <2>2. CASE FrontOnly(p)
    <3>1. \A j \in p.b : j + 16 < 128
      BY <2>1, <2>2 DEF FrontOnly
    <3>2. DottedAhead(text, p) => p.index = 6
      BY <2>2 DEF FrontOnly, DottedAhead, HexadecatetsCount
    <3>3. DottedAhead(text, p) => \A j \in p.b : j + 32 < 128
      BY <2>2, <3>2 DEF FrontOnly
    <3> QED
      BY <2>2, <3>1, <3>3 DEF FrontOnly, IPv6BitsCount
  <2>3. CASE FrontAndBack(p)
    <3>1. PICK front \in 0..7 : /\ front + 1 <= p.index
                                /\ p.bits \subseteq (16 * (8 - front))..127
                                /\ p.b \subseteq 0..(16 * (p.index - front - 1) - 1)
      BY <2>3 DEF FrontAndBack
    <3>2. \A j \in p.b : j + 32 < 16 * (8 - front) /\ j + 32 < 128 /\ j \in 0..127
      BY <2>1, <3>1
    <3>3. \A j \in p.bits : j >= 16 * (8 - front) /\ j \in 0..127 /\ j > 31
      BY <2>1, <3>1
    <3>4. \A j \in p.b : j \notin p.bits /\ j + 32 \notin p.bits
      BY <3>2, <3>3
    <3> QED
      BY <3>2, <3>3, <3>4 DEF IPv6BitsCount
  <2> QED
    BY <2>2, <2>3 DEF Layout
<1> QED
  BY <1>1, OnTextHolds, LayoutHolds, PTL
-------------------------------------------------------------------------------
(* ParseAddressPart, which the CEL functions and the URI parser are built on, *)
(* is the loop run to its end: Len(s) + 1 iterations are enough.              *)
Iterates(s, f, N) ==
  f = [n \in 0..N |-> IF n = 0 THEN Start ELSE Iterate(s, f[n - 1])]

LEMMA IteratesExists ==
  ASSUME NEW s
  PROVE  \A N \in Nat : \E f : Iterates(s, f, N)
<1> DEFINE T == {N \in Nat : \E f : Iterates(s, f, N)}
<1>1. 0 \in T
  <2> DEFINE f == [n \in 0..0 |-> Start]
  <2>1. f = [n \in 0..0 |-> IF n = 0 THEN Start ELSE Iterate(s, f[n - 1])]
    OBVIOUS
  <2> QED
    BY <2>1 DEF Iterates
<1>2. ASSUME NEW N \in Nat, N \in T PROVE N + 1 \in T
  <2>1. PICK f : Iterates(s, f, N)
    BY <1>2
  <2> DEFINE g == [n \in 0..(N + 1) |-> IF n = N + 1 THEN Iterate(s, f[N]) ELSE f[n]]
  <2>2. ASSUME NEW n \in 0..(N + 1)
        PROVE  g[n] = IF n = 0 THEN Start ELSE Iterate(s, g[n - 1])
    <3>1. CASE n = N + 1
      BY <3>1
    <3>2. CASE n \in 0..N
      <4>1. f[n] = IF n = 0 THEN Start ELSE Iterate(s, f[n - 1])
        BY <2>1, <3>2, Zenon DEF Iterates
      <4>2. g[n] = f[n] /\ (n # 0 => g[n - 1] = f[n - 1])
        BY <3>2
      <4> HIDE DEF g
      <4> QED
        BY <4>1, <4>2
    <3> QED
      BY <3>1, <3>2
  <2>3. g = [n \in 0..(N + 1) |-> IF n = 0 THEN Start ELSE Iterate(s, g[n - 1])]
    <3>1. g = [n \in 0..(N + 1) |-> g[n]]
      OBVIOUS
    <3> HIDE DEF g
    <3> QED
      BY <2>2, <3>1
  <2> HIDE DEF g
  <2>4. Iterates(s, g, N + 1)
    BY <2>3 DEF Iterates
  <2> QED
    BY <2>4
<1> HIDE DEF T
<1>3. Nat \subseteq T
  BY <1>1, <1>2, Induction
<1> QED
  BY <1>3 DEF T

After(s) == CHOOSE f : Iterates(s, f, Len(s) + 1)

LEMMA AfterIterates ==
  ASSUME NEW s \in Seq(STRING)
  PROVE  /\ After(s)[0] = Start
         /\ \A n \in 0..Len(s) : After(s)[n + 1] = Iterate(s, After(s)[n])
         /\ ParseAddressPart(s) = After(s)[Len(s) + 1]
<1>1. Len(s) \in Nat /\ Len(s) + 1 \in Nat
  BY DomainOf
<1>2. Iterates(s, After(s), Len(s) + 1)
  BY <1>1, IteratesExists DEF After
<1>3. ParseAddressPart(s) = After(s)[Len(s) + 1]
  BY DEF ParseAddressPart, After, Iterates
<1>4. \A n \in 0..(Len(s) + 1) :
        After(s)[n] = IF n = 0 THEN Start ELSE Iterate(s, After(s)[n - 1])
  BY <1>2 DEF Iterates
<1>5. 0 \in 0..(Len(s) + 1)
  BY <1>1
<1>6. ASSUME NEW n \in 0..Len(s) PROVE After(s)[n + 1] = Iterate(s, After(s)[n])
  <2>1. n + 1 \in 0..(Len(s) + 1) /\ n + 1 # 0 /\ (n + 1) - 1 = n
    BY <1>1
  <2> QED
    BY <1>4, <2>1
<1> QED
  BY <1>3, <1>4, <1>5, <1>6

\* Once it has ended, the loop stays as it is.
LEMMA AfterTheEnd ==
  ASSUME NEW s \in Seq(STRING), NEW n \in 0..(Len(s) + 1), ~After(s)[n].looping
  PROVE  ParseAddressPart(s) = After(s)[n]
<1> DEFINE T == {d \in Nat : n + d <= Len(s) + 1 => After(s)[n + d] = After(s)[n]}
<1>1. Len(s) \in Nat
  BY DomainOf
<1>2. 0 \in T
  OBVIOUS
<1>3. ASSUME NEW d \in Nat, d \in T PROVE d + 1 \in T
  <2> SUFFICES ASSUME n + (d + 1) <= Len(s) + 1 PROVE After(s)[n + (d + 1)] = After(s)[n]
    OBVIOUS
  <2>1. n + d \in 0..Len(s) /\ n + d <= Len(s) + 1 /\ (n + d) + 1 = n + (d + 1)
    BY <1>1
  <2>2. After(s)[n + d] = After(s)[n]
    BY <1>3, <2>1
  <2>3. After(s)[(n + d) + 1] = Iterate(s, After(s)[n])
    BY <2>1, <2>2, AfterIterates
  <2>4. Iterate(s, After(s)[n]) = After(s)[n]
    BY DEF Iterate
  <2> QED
    BY <2>1, <2>3, <2>4
<1> HIDE DEF T
<1>4. Nat \subseteq T
  BY <1>2, <1>3, Induction
<1>5. (Len(s) + 1) - n \in Nat /\ n + ((Len(s) + 1) - n) = Len(s) + 1
  BY <1>1
<1>6. After(s)[Len(s) + 1] = After(s)[n]
  BY <1>1, <1>4, <1>5 DEF T
<1> QED
  BY <1>6, AfterIterates

\* The inductive invariant: the state is the one after some number of iterations
\* of the function, and each of them has consumed a character.
OnTrack ==
  \E n \in 0..(Len(text) + 1) : p = After(text)[n] /\ (p.looping => p.at > n)

LEMMA OnTrackHolds == LoopSpec => []OnTrack
<1>1. LoopInit => OnTrack
  <2> SUFFICES ASSUME LoopInit PROVE OnTrack
    OBVIOUS
  <2>1. text \in Seq(STRING) /\ p = Start
    BY TextsAssumption DEF LoopInit
  <2>2. p = After(text)[0] /\ 0 \in 0..(Len(text) + 1)
    BY <2>1, AfterIterates, DomainOf
  <2>3. p.at > 0
    BY <2>1 DEF Start
  <2> QED
    BY <2>2, <2>3 DEF OnTrack
<1>2. OnText /\ OnTrack /\ [LoopNext]_loopVars => OnTrack'
  <2> SUFFICES ASSUME OnText, OnTrack, [LoopNext]_loopVars PROVE OnTrack'
    OBVIOUS
  <2>1. CASE Parse
    <3>1. PICK n \in 0..(Len(text) + 1) : p = After(text)[n] /\ p.at > n
      BY <2>1 DEF OnTrack, Parse
    <3>2. text \in Seq(STRING) /\ Len(text) \in Nat /\ p.looping /\ p \in LoopState(text)
      BY <2>1, DomainOf DEF OnText, Parse
    <3>3. p.at \in 1..(Len(text) + 1)
      BY <3>2 DEF LoopState
    <3>4. n \in 0..Len(text) /\ n + 1 \in 0..(Len(text) + 1)
      BY <3>1, <3>2, <3>3
    <3>5. p' = Iterate(text, p) /\ p' = After(text)[n + 1] /\ text' = text
      BY <2>1, <3>1, <3>2, <3>4, AfterIterates DEF Parse
    <3>6. p' \in LoopState(text) /\ (p'.looping => p'.at > p.at)
      BY <3>2, <3>5, IterateState
    <3>7. p'.at \in Nat
      BY <3>2, <3>6 DEF LoopState
    <3>8. p'.looping => p'.at > n + 1
      BY <3>1, <3>3, <3>4, <3>6, <3>7
    <3> QED
      BY <3>4, <3>5, <3>8 DEF OnTrack
  <2>2. CASE UNCHANGED loopVars
    BY <2>2 DEF loopVars, OnTrack
  <2> QED
    BY <2>1, <2>2 DEF LoopNext
<1> QED
  BY <1>1, <1>2, OnTextHolds, PTL DEF LoopSpec

\* The loop of parseAddressPart ends where the function ParseAddressPart says,
\* so that what is checked of the one holds of the other: ParseIPv6Address and
\* ParseIPv6Prefix, which the CEL functions call, are made from the function.
EndsAsTheFunction == Finished => p = ParseAddressPart(text)

THEOREM LoopIsTheFunction == LoopSpec => []EndsAsTheFunction
<1>1. OnText /\ OnTrack => EndsAsTheFunction
  <2> SUFFICES ASSUME OnText, OnTrack, Finished PROVE p = ParseAddressPart(text)
    BY DEF EndsAsTheFunction
  <2>1. PICK n \in 0..(Len(text) + 1) : p = After(text)[n]
    BY DEF OnTrack
  <2> QED
    BY <2>1, AfterTheEnd DEF OnText, Finished
<1> QED
  BY <1>1, OnTextHolds, OnTrackHolds, PTL
-------------------------------------------------------------------------------
(* The function on its own, and strict prefixes.                              *)

\* The mask of a length has the upper `length` bits.
LEMMA MaskBits ==
  ASSUME NEW length \in 0..128
  PROVE  Mask(length) = (128 - length)..127
  BY DEF Mask, ShiftLeft, IPv6BitsCount

\* What the loop leaves, with the length after it.
LEMMA StrictIsHostPart ==
  ASSUME NEW s \in Seq(STRING), NEW q \in LoopState(s), PrefixEnds(s, q)
  PROVE  /\ PrefixLength(s, q) \in 0..128
         /\ HostPartZero(q, PrefixLength(s, q))
              <=> q.bits \cap 0..(127 - PrefixLength(s, q)) = {}
<1> DEFINE at == Consume(s, q.at, {"/"})
           length == PrefixLength(s, q)
<1>1. q.at \in Nat /\ q.bits \subseteq 0..127
  <2>1. q.at \in 1..(Len(s) + 1) /\ q.bits \in SUBSET (0..127)
    BY DEF LoopState
  <2>2. 1..(Len(s) + 1) \subseteq Nat
    BY DomainOf
  <2> QED
    BY <2>1, <2>2, Zenon
<1>2. OfCharacters({"/"})
  BY DEF OfCharacters
<1>3. at \in Nat
  BY <1>1, <1>2, ConsumeFurther, FurtherPosition
<1>4. PrefixLengthEnd(s, q) = ParseDecimalNumber(s, at, 128) /\ PrefixLengthEnd(s, q) # NoMatch
  BY DEF PrefixEnds, PrefixLengthEnd, IPv6BitsCount
<1>5. Further(s, at, PrefixLengthEnd(s, q))
  BY <1>3, <1>4, DecimalFurther, DecimalDigitsOf
<1>6. at = q.at + 1
  BY <1>4, <1>5, <1>1 DEF Consume, Further, NoMatch
<1>7. PrefixLengthEnd(s, q) - q.at - 1 = PrefixLengthEnd(s, q) - at
  BY <1>1, <1>4, <1>5, <1>6 DEF Further
<1>8. length \in 0..128
  <2>1. Number(s, at, ParseDecimalNumber(s, at, 128) - at, 10) \in 0..128
    <3> HIDE DEF at
    <3>1. ReadWithin(s, at, 128)
      BY <1>3, LimitsWithin
    <3> QED
      BY <1>4, <3>1 DEF ReadWithin
  <2> QED
    BY <1>4, <1>6, <1>7, <2>1 DEF PrefixLength
<1> HIDE DEF length
<1>9. q.bits \ Mask(length) = q.bits \cap 0..(127 - length)
  <2>1. Mask(length) = (128 - length)..127
    BY <1>8, MaskBits
  <2>2. \A j \in 0..127 : j \notin (128 - length)..127 <=> j \in 0..(127 - length)
    BY <1>8
  <2> QED
    BY <1>1, <2>1, <2>2
<1> QED
  BY <1>8, <1>9 DEF HostPartZero, length

\* Len(s) + 1 iterations are enough for every text: the function ends the loop,
\* in a state of it.
THEOREM FunctionEnds ==
  ASSUME NEW s \in Seq(STRING)
  PROVE  ParseAddressPart(s) \in LoopState(s) /\ ~ParseAddressPart(s).looping
<1> DEFINE q(n) == After(s)[n]
           T == {n \in Nat : n <= Len(s) + 1 =>
                   q(n) \in LoopState(s) /\ (q(n).looping => q(n).at > n)}
<1>1. Len(s) \in Nat
  BY DomainOf
<1>2. q(0) = Start /\ \A n \in 0..Len(s) : q(n + 1) = Iterate(s, q(n))
  BY AfterIterates
<1>3. ParseAddressPart(s) = q(Len(s) + 1)
  BY AfterIterates
<1> HIDE DEF q
<1>4. 0 \in T
  <2>1. q(0) \in LoopState(s) /\ q(0).at > 0
    <3>1. Start \in LoopState(s)
      BY StartState
    <3>2. Start.at > 0
      BY DEF Start
    <3> QED
      BY <1>2, <3>1, <3>2
  <2> QED
    BY <2>1
<1>5. ASSUME NEW n \in Nat, n \in T PROVE n + 1 \in T
  <2> SUFFICES ASSUME n + 1 <= Len(s) + 1
               PROVE  q(n + 1) \in LoopState(s) /\ (q(n + 1).looping => q(n + 1).at > n + 1)
    OBVIOUS
  <2>1. n \in 0..Len(s) /\ n <= Len(s) + 1
    BY <1>1
  <2>2. q(n) \in LoopState(s) /\ (q(n).looping => q(n).at > n)
    BY <1>5, <2>1
  <2>3. q(n + 1) = Iterate(s, q(n))
    BY <1>2, <2>1
  <2>4. CASE ~q(n).looping
    <3>1. q(n + 1) = q(n)
      BY <2>3, <2>4 DEF Iterate
    <3> QED
      BY <2>2, <2>4, <3>1
  <2>5. CASE q(n).looping
    <3>1. /\ q(n + 1) \in LoopState(s)
          /\ q(n + 1).at > q(n).at \/ ~q(n + 1).looping
      BY <2>2, <2>3, <2>5, IterateState
    <3>2. q(n).at \in 1..(Len(s) + 1) /\ q(n + 1).at \in 1..(Len(s) + 1)
      BY <2>2, <3>1 DEF LoopState
    <3>3. q(n).at \in Nat /\ q(n + 1).at \in Nat
      BY <1>1, <3>2
    <3> QED
      BY <2>2, <2>5, <3>1, <3>3
  <2> QED
    BY <2>4, <2>5
<1> HIDE DEF T
<1>6. Len(s) + 1 \in T
  BY <1>1, <1>4, <1>5, Induction
<1>7. q(Len(s) + 1) \in LoopState(s) /\ (q(Len(s) + 1).looping => q(Len(s) + 1).at > Len(s) + 1)
  BY <1>1, <1>6 DEF T
<1>8. q(Len(s) + 1).at <= Len(s) + 1
  BY <1>1, <1>7 DEF LoopState
<1> QED
  BY <1>1, <1>3, <1>7, <1>8 DEF LoopState

\* On any text that is a prefix the length is at most 128, the mask is shifted
\* by 0 to 128 bits, and a strict prefix is one whose bits below the mask are
\* all zero.
THEOREM StrictIsHostPart6 ==
  ASSUME NEW s \in Seq(STRING), ParseIPv6Prefix(s)
  PROVE  LET q == ParseAddressPart(s) IN
         /\ PrefixLength(s, q) \in 0..128
         /\ HostPartZero(q, PrefixLength(s, q))
              <=> q.bits \cap 0..(127 - PrefixLength(s, q)) = {}
<1>1. ParseAddressPart(s) \in LoopState(s)
  BY FunctionEnds
<1>2. PrefixEnds(s, ParseAddressPart(s))
  BY DEF ParseIPv6Prefix
<1> QED
  BY <1>1, <1>2, StrictIsHostPart
==============================================================================
