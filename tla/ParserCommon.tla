----------------------------- MODULE ParserCommon -----------------------------
(***************************************************************************)
(* lib/parser_common.h: what the address and URI parsers are built from.   *)
(*                                                                         *)
(* A string is a sequence of one-character strings.  The parsers keep the  *)
(* text still to be read in `str`; here it is a position in the whole      *)
(* text, Len(s) + 1 when nothing is left.  An operator that consumes       *)
(* returns the position after what it read, or NoMatch, on which nothing   *)
(* else matches: the code gives up or goes back to where it started.       *)
(***************************************************************************)
EXTENDS Integers, Sequences, FiniteSets

\* Letters come in lower case only: the code lists both cases side by side.
HexDigits == <<"0","1","2","3","4","5","6","7","8","9","a","b","c","d","e","f">>

Num      == {HexDigits[k] : k \in 1..10}
HexDigit == {HexDigits[k] : k \in 1..16}
Alpha    == {"a","b","c","d","e","f","g","v","x","z"}
AlphaNum == Alpha \cup Num

DigitValue == [c \in HexDigit |-> (CHOOSE k \in 1..16 : HexDigits[k] = c) - 1]

NoMatch == 0

\* The character at a position, "" if there is none.
At(s, i) == IF i \in DOMAIN s THEN s[i] ELSE ""
Empty(s, i) == i > Len(s)

Consume(s, i, class) == IF At(s, i) \in class THEN i + 1 ELSE NoMatch

ConsumeSequence(s, i, t) ==
  IF \A k \in 1..Len(t) : At(s, i + k - 1) = t[k] THEN i + Len(t) ELSE NoMatch

\* How many characters of a class follow, as far as the code looks.
Span(s, i, class, limit) ==
  CHOOSE n \in 0..limit :
    /\ \A k \in 0..(n - 1) : At(s, i + k) \in class
    /\ n = limit \/ At(s, i + n) \notin class

\* The value of the n digits at i.
Number(s, i, n, base) ==
  LET value[k \in 0..n] ==
        IF k = 0 THEN 0 ELSE value[k - 1] * base + DigitValue[s[i + k - 1]]
  IN  value[n]

PowersOf10 == <<1, 10, 100, 1000, 10000, 100000>>
DecimalDigits(max) == CHOOSE d \in 1..5 : PowersOf10[d] <= max /\ max < PowersOf10[d + 1]

\* The loops look at one digit more than the largest number has, and refuse a
\* number that has it.
ParseDecimalNumber(s, i, max) ==
  LET n == Span(s, i, Num, DecimalDigits(max) + 1) IN
  IF \/ n = 0
     \/ n > 1 /\ s[i] = "0"
     \/ n > DecimalDigits(max)
     \/ Number(s, i, n, 10) > max
  THEN NoMatch ELSE i + n

ParseHexadecimalNumber(s, i, maxDigits, minDigits) ==
  LET n == Span(s, i, HexDigit, maxDigits + 1) IN
  IF n = 0 \/ n > maxDigits \/ n < minDigits THEN NoMatch ELSE i + n

ParseDecimalOctet(s, i) == ParseDecimalNumber(s, i, 255)
ParseHexadecimalHexadecatet(s, i) == ParseHexadecimalNumber(s, i, 4, 1)

\* absl::StrSplit: the parts of a text between the occurrences of c.
PartEnds(t, c) == {k \in 1..(Len(t) + 1) : At(t \o <<c>>, k) = c}
Nth(ends, n) == CHOOSE e \in ends \cup {0} : Cardinality({d \in ends : d <= e}) = n

PartsEnding(t, ends) ==
  [n \in 1..Cardinality(ends) |-> SubSeq(t, Nth(ends, n - 1) + 1, Nth(ends, n) - 1)]
Split(t, c) == PartsEnding(t, PartEnds(t, c))

\* The four octets of a dotted address: where each starts, where the last ends,
\* and their values.
OctetStart(s, i, k) ==
  LET start[j \in 1..4] ==
        IF j = 1 THEN i
        ELSE Consume(s, ParseDecimalOctet(s, start[j - 1]), {"."})
  IN  start[k]

DottedEnd(s, i) == ParseDecimalOctet(s, OctetStart(s, i, 4))

Octet(s, i, k) ==
  LET at == OctetStart(s, i, k) IN Number(s, at, ParseDecimalOctet(s, at) - at, 10)

\* How both IPv6 parsers tell a dotted address at the end from a group.
CheckDotted(s, i) ==
  /\ Len(s) - i + 1 >= 7   \* the length of "0.0.0.0"
  /\ s[i] # ":"
  /\ \E k \in 1..3 : s[i + k] = "."

\* An unsigned integer of a given width is the set of its bits.
Bits(value, width) == {j \in 0..(width - 1) : (value \div 2 ^ j) % 2 = 1}
ShiftLeft(bits, n, width) == {j \in n..(width - 1) : j - n \in bits}

\* The four octets or-ed into the low 32 bits.
DottedBits(s, i) == UNION {ShiftLeft(Bits(Octet(s, i, k), 8), 8 * (4 - k), 32) : k \in 1..4}
===============================================================================
