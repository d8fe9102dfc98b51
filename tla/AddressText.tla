----------------------------- MODULE AddressText ------------------------------
(***************************************************************************)
(* The text forms of IP addresses as RFC 4291 defines them, written from   *)
(* the outside in: split the text at its separators and look at the parts. *)
(* The parser reads the same text once, left to right, with counters.      *)
(***************************************************************************)
EXTENDS ParserCommon

Before(t, i) == SubSeq(t, 1, i - 1)
From(t, i) == SubSeq(t, i, Len(t))

IsNumber(t, max) ==
  /\ Len(t) \in 1..3
  /\ \A k \in 1..Len(t) : t[k] \in Num
  /\ Len(t) > 1 => t[1] # "0"
  /\ Number(t, 1, Len(t), 10) <= max

\* Four decimal octets.
IsQuad(t) ==
  /\ Len(Split(t, ".")) = 4
  /\ \A k \in 1..4 : IsNumber(Split(t, ".")[k], 255)

QuadValue(t) ==
  LET octet == [k \in 1..4 |-> Number(Split(t, ".")[k], 1, Len(Split(t, ".")[k]), 10)]
  IN  <<256 * octet[1] + octet[2], 256 * octet[3] + octet[4]>>

IsGroup(t) == Len(t) \in 1..4 /\ \A k \in 1..Len(t) : t[k] \in HexDigit

\* Groups between single colons; a dotted quad may stand for the last two.
Groups(t) == IF t = <<>> THEN <<>> ELSE Split(t, ":")

EndsInQuad(gs) == gs # <<>> /\ IsQuad(gs[Len(gs)])

AllGroups(gs, quad) ==
  \A k \in 1..Len(gs) : IsGroup(gs[k]) \/ (quad /\ k = Len(gs) /\ IsQuad(gs[k]))

Width(gs) == Len(gs) + IF EndsInQuad(gs) THEN 1 ELSE 0

\* The sixteen-bit values of groups.
Words(gs) ==
  LET words[k \in 0..Len(gs)] ==
        IF k = 0 THEN <<>>
        ELSE words[k - 1] \o (IF IsGroup(gs[k]) THEN <<Number(gs[k], 1, Len(gs[k]), 16)>>
                              ELSE QuadValue(gs[k]))
  IN  words[Len(gs)]

\* "::" stands for one or more groups of zeros, and there may be one of it.
DoubleColonAt(t, i) == i < Len(t) /\ t[i] = ":" /\ t[i + 1] = ":"

\* The text with "::" at i has at most this many groups elsewhere.
CompressedUpTo(t, i, max) ==
  /\ DoubleColonAt(t, i)
  /\ AllGroups(Groups(Before(t, i)), FALSE)
  /\ AllGroups(Groups(From(t, i + 2)), TRUE)
  /\ Width(Groups(Before(t, i))) + Width(Groups(From(t, i + 2))) <= max

Compressed(t, i) == CompressedUpTo(t, i, 7)

Full(t) == AllGroups(Groups(t), TRUE) /\ Width(Groups(t)) = 8

IsAddress(t) == Full(t) \/ \E i \in 1..Len(t) : Compressed(t, i)

\* The eight sixteen-bit words of an address.
Address(t) ==
  IF Full(t) THEN Words(Groups(t))
  ELSE LET i == CHOOSE j \in 1..Len(t) : Compressed(t, j)
           front == Words(Groups(Before(t, i)))
           back  == Words(Groups(From(t, i + 2)))
       IN  front \o [k \in 1..(8 - Len(front) - Len(back)) |-> 0] \o back

\* The bits of words of sixteen bits, the first word leftmost: bit k is the one
\* with value 2^k of the whole.
WordBits(words) ==
  {k \in 0..(16 * Len(words) - 1) :
     (words[Len(words) - (k \div 16)] \div 2 ^ (k % 16)) % 2 = 1}

\* An address with an optional zone.
IsZoned(s) ==
  \/ IsAddress(s)
  \/ \E z \in 1..(Len(s) - 1) :
       s[z] = "%" /\ IsAddress(Before(s, z)) /\ \A k \in (z + 1)..Len(s) : s[k] # "NUL"

\* An address (of either family) with a prefix length.
SlashAt(s, z) == s[z] = "/"
IsPrefixOf6(s) ==
  \E z \in 1..Len(s) : SlashAt(s, z) /\ IsAddress(Before(s, z)) /\ IsNumber(From(s, z + 1), 128)
IsPrefixOf4(s) ==
  \E z \in 1..Len(s) : SlashAt(s, z) /\ IsQuad(Before(s, z)) /\ IsNumber(From(s, z + 1), 32)

\* The address and the length of a prefix.
SlashOf(s) == CHOOSE z \in 1..Len(s) : SlashAt(s, z)
LengthOf(s) == Number(s, SlashOf(s) + 1, Len(s) - SlashOf(s), 10)
-------------------------------------------------------------------------------
(* Where the parsers (ipv6.cc and its copy in uri.cc) differ from the forms. *)

\* 1. A compressed address may end on a single colon if a zone or a prefix
\*    length follows: only a colon at the end of the whole text is refused,
\*    against the comment at ipv6.cc:101 (NoSingleColonAtTheEnds).
\*    (With seven groups and "::" the loop has ended and does not read it.)
ClosesOnColon(t) ==
  /\ t # <<>> /\ t[Len(t)] = ":"
  /\ \E i \in 1..(Len(t) - 3) :
       LET b == Groups(SubSeq(t, i + 2, Len(t) - 1)) IN
       CompressedUpTo(Before(t, Len(t)), i, 6) /\ b # <<>> /\ ~EndsInQuad(b)

\* 2. With "::" and a dotted quad there may be eight groups beside the "::":
\*    the quad is counted as one when the limit is checked, against the comment
\*    at ipv6.cc:96-97 (AtMostSevenWithDoubleColon).
OverfullQuad(t) ==
  \E i \in 1..Len(t) :
    CompressedUpTo(t, i, 8) /\ EndsInQuad(Groups(From(t, i + 2))) /\ ~Compressed(t, i)

\* 3. After a double colon the loop looks for a dotted quad by a dot in the next
\*    three characters, wherever a group may start.  A group of one digit before
\*    the quad, or a zone with a dot near its start, is taken for a quad and the
\*    address refused.  (With seven groups and "::" the loop does not get to
\*    the zone, and a quad ends it.)
GroupsBeside(t, i) ==
  Len(Groups(Before(t, i))) + Len(SelectSeq(Groups(From(t, i + 2)), LAMBDA g : g # <<>>))

LooksForQuadAt(s, z, i, q) ==
  IF q < z THEN s[q - 1] = ":" /\ ~IsQuad(SubSeq(s, q, z - 1))
  ELSE GroupsBeside(Before(s, z), i) < 7 /\ ~EndsInQuad(Groups(SubSeq(s, i + 2, z - 1)))

TakenForQuad(s, z) ==
  \E i \in 1..(z - 1) :
    /\ DoubleColonAt(s, i)
    /\ \E q \in (i + 2)..z :
         /\ Len(s) - q >= 6
         /\ \E k \in 1..3 : s[q + k] = "."
         /\ LooksForQuadAt(s, z, i, q)

\* The addresses accepted, up to where a zone or a length may follow.
AcceptedUpTo(s, z) ==
  /\ \/ IsAddress(Before(s, z))
     \/ OverfullQuad(Before(s, z))
     \/ z <= Len(s) /\ ClosesOnColon(Before(s, z))
  /\ ~TakenForQuad(s, z)
===============================================================================
