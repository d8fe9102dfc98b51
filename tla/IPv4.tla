--------------------------------- MODULE IPv4 ---------------------------------
(* lib/ipv4.cc and ipv4.h: dotted addresses and prefixes.  The bits of the   *)
(* object being filled are zero before the address is parsed.                *)
EXTENDS ParserCommon

IPv4BitsCount == 32

ParseIPv4Address(s) == DottedEnd(s, 1) # NoMatch /\ Empty(s, DottedEnd(s, 1))

PrefixLengthStart4(s) == Consume(s, DottedEnd(s, 1), {"/"})
PrefixLengthEnd4(s) == ParseDecimalNumber(s, PrefixLengthStart4(s), IPv4BitsCount)
ParseIPv4Prefix(s) == PrefixLengthEnd4(s) # NoMatch /\ Empty(s, PrefixLengthEnd4(s))

PrefixLength4(s) ==
  LET at == PrefixLengthStart4(s) IN Number(s, at, PrefixLengthEnd4(s) - at, 10)

\* Mutant of Mask4: without it the machine shifts by 0.
Mask4Wrapped(length) == ShiftLeft(0..(IPv4BitsCount - 1), (IPv4BitsCount - length) % 32, IPv4BitsCount)

\* A shift by the full width is undefined, so length 0 has a case of its own.
Mask4(length) ==
  IF length = 0 THEN {}
  ELSE ShiftLeft(0..(IPv4BitsCount - 1), IPv4BitsCount - length, IPv4BitsCount)
===============================================================================
