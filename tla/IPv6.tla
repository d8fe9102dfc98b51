--------------------------------- MODULE IPv6 ---------------------------------
(***************************************************************************)
(* lib/ipv6.cc and ipv6.h.  The state of parseAddressPart's loop is a      *)
(* record: `at` the position of str, index the groups seen so far (the     *)
(* double colon counts as one), b the groups since the double colon, bits  *)
(* those before it and a dotted tail, looping while the loop runs and ok   *)
(* what it returns.                                                        *)
(***************************************************************************)
EXTENDS ParserCommon

IPv6BitsCount == 128
HexadecatetsCount == 8

Start == [at |-> 1, index |-> 0, doubleColonFound |-> FALSE, b |-> {}, bits |-> {},
          looping |-> TRUE, ok |-> FALSE]

Refuse(p) == [p EXCEPT !.looping = FALSE]

\* Leaving the loop: the groups collected last go in at the end.
Leave(p) ==
  [p EXCEPT !.looping = FALSE, !.bits = @ \cup p.b,
            !.ok = p.doubleColonFound \/ p.index = HexadecatetsCount]

DottedAhead(s, p) ==
  (p.doubleColonFound \/ p.index = HexadecatetsCount - 2) /\ CheckDotted(s, p.at)

TakeDotted(s, p) ==
  IF DottedEnd(s, p.at) = NoMatch THEN Refuse(p)
  ELSE Leave([p EXCEPT !.at = DottedEnd(s, p.at), !.index = @ + 2,
                       !.bits = @ \cup DottedBits(s, p.at),
                       !.b = ShiftLeft(@, 32, IPv6BitsCount)])

TakeHexadecatet(s, p, end) ==
  [p EXCEPT !.at = end, !.index = @ + 1,
            !.b = ShiftLeft(@, 16, IPv6BitsCount)
                  \cup Bits(Number(s, p.at, end - p.at, 16), 16)]

\* Mutants of TakeDoubleColon: a second one is taken too, or the groups before it
\* are not cleared.
TakeDoubleColonAgain(s, p) ==
  IF At(s, p.at + 2) = ":" \/ p.index > HexadecatetsCount - 1 THEN Refuse(p)
  ELSE [p EXCEPT !.at = @ + 2, !.index = @ + 1, !.doubleColonFound = TRUE, !.b = {},
                 !.bits = @ \cup ShiftLeft(p.b, 16 * (HexadecatetsCount - p.index),
                                           IPv6BitsCount)]
TakeDoubleColonKeepsGroups(s, p) ==
  IF At(s, p.at + 2) = ":" \/ p.index > HexadecatetsCount - 1 \/ p.doubleColonFound
  THEN Refuse(p)
  ELSE [p EXCEPT !.at = @ + 2, !.index = @ + 1, !.doubleColonFound = TRUE,
                 !.bits = @ \cup ShiftLeft(p.b, 16 * (HexadecatetsCount - p.index),
                                           IPv6BitsCount)]

TakeDoubleColon(s, p) ==
  IF At(s, p.at + 2) = ":" \/ p.index > HexadecatetsCount - 1 \/ p.doubleColonFound
  THEN Refuse(p)
  ELSE [p EXCEPT !.at = @ + 2, !.index = @ + 1, !.doubleColonFound = TRUE, !.b = {},
                 !.bits = @ \cup ShiftLeft(p.b, 16 * (HexadecatetsCount - p.index),
                                           IPv6BitsCount)]

\* Mutant of TakeColon: the colon is only looked at.
TakeColonAhead(s, p) == IF p.index = 0 \/ Empty(s, p.at + 1) THEN Refuse(p) ELSE p

TakeColon(s, p) ==
  IF p.index = 0 \/ Empty(s, p.at + 1) THEN Refuse(p) ELSE [p EXCEPT !.at = @ + 1]

\* Mutant of Iterate: the loop ends one group later.
IterateOnceMore(s, p) ==
  IF ~p.looping THEN p
  ELSE IF p.index > HexadecatetsCount THEN Leave(p)
  ELSE IF DottedAhead(s, p) THEN TakeDotted(s, p)
  ELSE IF ParseHexadecimalHexadecatet(s, p.at) # NoMatch
    THEN TakeHexadecatet(s, p, ParseHexadecimalHexadecatet(s, p.at))
  ELSE IF ConsumeSequence(s, p.at, <<":", ":">>) # NoMatch THEN TakeDoubleColon(s, p)
  ELSE IF At(s, p.at) = ":" THEN TakeColon(s, p)
  ELSE Leave(p)

\* One iteration of the loop.
Iterate(s, p) ==
  IF ~p.looping THEN p
  ELSE IF p.index >= HexadecatetsCount THEN Leave(p)
  ELSE IF DottedAhead(s, p) THEN TakeDotted(s, p)
  ELSE IF ParseHexadecimalHexadecatet(s, p.at) # NoMatch
    THEN TakeHexadecatet(s, p, ParseHexadecimalHexadecatet(s, p.at))
  ELSE IF ConsumeSequence(s, p.at, <<":", ":">>) # NoMatch THEN TakeDoubleColon(s, p)
  ELSE IF At(s, p.at) = ":" THEN TakeColon(s, p)
  ELSE Leave(p)

\* The loop from the start of the text to its end.
ParseAddressPart(s) ==
  LET after[n \in 0..(Len(s) + 1)] == IF n = 0 THEN Start ELSE Iterate(s, after[n - 1])
  IN  after[Len(s) + 1]

\* A zone: anything but a NUL character, up to the end of the text.
ConsumeZoneId(s, i) == i <= Len(s) /\ \A k \in i..Len(s) : s[k] # "NUL"

\* parseAddress and parsePrefix, given what parseAddressPart left.
AddressEnds(s, p) ==
  p.ok /\ IF At(s, p.at) = "%" THEN ConsumeZoneId(s, p.at + 1) ELSE Empty(s, p.at)

PrefixLengthEnd(s, p) ==
  ParseDecimalNumber(s, Consume(s, p.at, {"/"}), IPv6BitsCount)

\* Mutant of PrefixEnds: what follows the length is not looked at.
PrefixEndsEarly(s, p) == p.ok /\ PrefixLengthEnd(s, p) # NoMatch

PrefixEnds(s, p) == p.ok /\ PrefixLengthEnd(s, p) # NoMatch /\ Empty(s, PrefixLengthEnd(s, p))

PrefixLength(s, p) == Number(s, p.at + 1, PrefixLengthEnd(s, p) - p.at - 1, 10)

ParseIPv6Address(s) == AddressEnds(s, ParseAddressPart(s))
ParseIPv6Prefix(s)  == PrefixEnds(s, ParseAddressPart(s))

\* Mutant of Mask: the shift is the length of the prefix.
MaskSwapped(length) == ShiftLeft(0..(IPv6BitsCount - 1), length, IPv6BitsCount)

Mask(length) == ShiftLeft(0..(IPv6BitsCount - 1), IPv6BitsCount - length, IPv6BitsCount)

\* What a strict prefix requires of the address: bits & ~mask is zero.
HostPartZero(p, length) == p.bits \ Mask(length) = {}
===============================================================================
