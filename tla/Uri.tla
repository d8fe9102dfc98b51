---------------------------------- MODULE Uri ----------------------------------
(***************************************************************************)
(* lib/uri.cc: a URI and a URI reference, read by recursive descent.  Each *)
(* operator is the code's function of that name: from a position to the    *)
(* position after what was consumed, or NoMatch, when the code goes back   *)
(* to where it started.                                                    *)
(***************************************************************************)
EXTENDS ParserCommon

Unreserved == AlphaNum \cup {"-", "_", ".", "~"}
SubDelims  == {"!", "$", "&", "'", "(", ")", "*", "+", ",", ";", "="}
PChar      == Unreserved \cup SubDelims \cup {":", "@"}

First(a, b) == IF a # NoMatch THEN a ELSE b

\* Percent-encoded bytes.  As the number is parsed for at most two digits, a
\* byte with a third hexadecimal digit after it does not parse.
ConsumePercentEncoded(s, i) ==
  Consume(s, Consume(s, Consume(s, i, {"%"}), HexDigit), HexDigit)

ParsePercentEncoded(s, i) == ParseHexadecimalNumber(s, Consume(s, i, {"%"}), 2, 2)
Byte(s, i) == Number(s, i + 1, 2, 16)

\* The length of a UTF-8 sequence by its first byte, 0 if it cannot be one.
Utf8Size(b) ==
  CASE b \in 0..127   -> 1
    [] b \in 194..223 -> 2
    [] b \in 224..239 -> 3
    [] b \in 240..244 -> 4
    [] OTHER          -> 0

IsContinuation(s, i) == ParsePercentEncoded(s, i) # NoMatch /\ Byte(s, i) \div 64 = 2

\* Mutant of InvalidPair: overlong sequences of three bytes pass.
InvalidPairOfFour(b0, b1) ==
  \/ b0 = 240 /\ b1 < 144
  \/ b0 = 244 /\ b1 > 144

\* Overlong sequences, and of those beyond the last code point, f4 8f bf bf, all
\* but the ones that start with f4 90.
InvalidPair(b0, b1) ==
  \/ b0 = 224 /\ b1 < 160
  \/ b0 = 240 /\ b1 < 144
  \/ b0 = 244 /\ b1 > 144

ConsumeUTF8(s, i, size) ==
  IF \/ size = 0
     \/ \E k \in 1..(size - 1) : ~IsContinuation(s, i + 3 * k)
     \/ size > 2 /\ InvalidPair(Byte(s, i), Byte(s, i + 3))
  THEN NoMatch ELSE i + 3 * size

ConsumePercentEncodedUTF8CodePoint(s, i) ==
  IF ParsePercentEncoded(s, i) = NoMatch THEN NoMatch
  ELSE ConsumeUTF8(s, i, Utf8Size(Byte(s, i)))

\* What a loop that consumes characters of a class may consume besides: where
\* each percent-encoded byte or code point of the text ends.
Nothing(s) == [k \in 1..(Len(s) + 1) |-> NoMatch]
Encoded(s) == [k \in 1..(Len(s) + 1) |-> ConsumePercentEncoded(s, k)]
EncodedUTF8(s) == [k \in 1..(Len(s) + 1) |-> ConsumePercentEncodedUTF8CodePoint(s, k)]

\* The end of such a loop.
ConsumeWhile(s, i, class, encoded) ==
  LET end[k \in 1..(Len(s) + 1)] ==
        IF At(s, k) \in class THEN end[k + 1]
        ELSE IF encoded[k] # NoMatch THEN end[encoded[k]]
        ELSE k
  IN  IF i = NoMatch THEN NoMatch ELSE end[i]

\* A loop that must consume something, or must end before one of some characters.
NonEmpty(i, end) == IF end = i THEN NoMatch ELSE end
EndingAt(s, end, class) == IF end # NoMatch /\ At(s, end) \in class THEN end ELSE NoMatch

AuthorityEnd == {"", "?", "#", "/"}
PathEnd      == {"", "?", "#"}

ConsumeScheme(s, i) ==
  EndingAt(s, ConsumeWhile(s, Consume(s, i, Alpha), AlphaNum \cup {"+", "-", "."}, Nothing(s)),
           {":"})
-------------------------------------------------------------------------------
(* The authority.                                                          *)

ConsumeUserInfo(s, i) ==
  EndingAt(s, ConsumeWhile(s, i, Unreserved \cup SubDelims \cup {":"}, Encoded(s)), {"@"})

ConsumeZoneId(s, i) == NonEmpty(i, ConsumeWhile(s, i, Unreserved, EncodedUTF8(s)))

\* After the groups of an address: enough of them, and a zone or none.
ConsumeZone(s, i, enough) ==
  IF ~enough THEN NoMatch
  ELSE IF ConsumeSequence(s, i, <<"%", "2", "5">>) = NoMatch THEN i
  ELSE ConsumeZoneId(s, i + 3)

\* The loop of ipv6.cc without the values; a dotted quad ends it at once.
ConsumeIPv6Address(s, i) ==
  LET loop[k \in 1..(Len(s) + 1), index \in 0..9, doubleColonFound \in BOOLEAN] ==
        IF index >= 8 THEN ConsumeZone(s, k, TRUE)
        ELSE IF (doubleColonFound \/ index = 6) /\ CheckDotted(s, k) THEN DottedEnd(s, k)
        ELSE IF ParseHexadecimalHexadecatet(s, k) # NoMatch
          THEN loop[ParseHexadecimalHexadecatet(s, k), index + 1, doubleColonFound]
        ELSE IF ConsumeSequence(s, k, <<":", ":">>) # NoMatch
          THEN IF At(s, k + 2) = ":" \/ index > 7 \/ doubleColonFound THEN NoMatch
               ELSE loop[k + 2, index + 1, TRUE]
        ELSE IF At(s, k) = ":"
          THEN IF index = 0 \/ Empty(s, k + 1) THEN NoMatch
               ELSE loop[k + 1, index, doubleColonFound]
        ELSE ConsumeZone(s, k, doubleColonFound)
  IN  loop[i, 0, FALSE]

ConsumeIPVFuture(s, i) ==
  LET dot == ConsumeWhile(s, Consume(s, Consume(s, i, {"v"}), HexDigit), HexDigit, Nothing(s))
      from == Consume(s, dot, {"."})
  IN  NonEmpty(from, ConsumeWhile(s, from, Unreserved \cup SubDelims \cup {":"}, Nothing(s)))

ConsumeIPLiteral(s, i) ==
  IF At(s, i) # "[" THEN NoMatch
  ELSE First(Consume(s, ConsumeIPv6Address(s, i + 1), {"]"}),
             Consume(s, ConsumeIPVFuture(s, i + 1), {"]"}))

ConsumeRegName(s, i) ==
  EndingAt(s, ConsumeWhile(s, i, Unreserved \cup SubDelims, EncodedUTF8(s)),
           AuthorityEnd \cup {":"})

ConsumeHost(s, i) == First(ConsumeIPLiteral(s, i), ConsumeRegName(s, i))

ConsumePort(s, i) == EndingAt(s, ConsumeWhile(s, i, Num, Nothing(s)), AuthorityEnd)

\* Each part of the authority in turn, an optional one only if it is announced.
AfterUserInfo(s, i, end) == IF end = NoMatch THEN i ELSE Consume(s, end, {"@"})
AfterPort(s, i) == IF At(s, i) = ":" THEN ConsumePort(s, i + 1) ELSE i

ConsumeAuthority(s, i) ==
  EndingAt(s, AfterPort(s, ConsumeHost(s, AfterUserInfo(s, i, ConsumeUserInfo(s, i)))),
           AuthorityEnd)
-------------------------------------------------------------------------------
(* Paths, query and fragment.                                              *)

\* Segments, each after a slash.
ConsumeSegments(s, i) ==
  IF At(s, i) = "/" THEN ConsumeWhile(s, i, PChar \cup {"/"}, Encoded(s)) ELSE i

ConsumeSegmentNz(s, i)   == NonEmpty(i, ConsumeWhile(s, i, PChar, Encoded(s)))
ConsumeSegmentNzNc(s, i) == NonEmpty(i, ConsumeWhile(s, i, PChar \ {":"}, Encoded(s)))

ConsumePathAbempty(s, i)  == EndingAt(s, ConsumeSegments(s, i), PathEnd)
ConsumePathRootless(s, i) == ConsumePathAbempty(s, ConsumeSegmentNz(s, i))
ConsumePathNoscheme(s, i) == ConsumePathAbempty(s, ConsumeSegmentNzNc(s, i))
ConsumePathEmpty(s, i)    == EndingAt(s, i, PathEnd)

\* An absolute path does not start with two slashes.
ConsumePathAbsolute(s, i) ==
  IF At(s, i) # "/" THEN NoMatch
  ELSE IF ConsumeSegmentNz(s, i + 1) # NoMatch
    THEN ConsumePathAbempty(s, ConsumeSegmentNz(s, i + 1))
    ELSE EndingAt(s, i + 1, PathEnd)

WithAuthority(s, i) ==
  IF ConsumeSequence(s, i, <<"/", "/">>) = NoMatch THEN NoMatch
  ELSE ConsumePathAbempty(s, ConsumeAuthority(s, i + 2))

ConsumeHierPart(s, i) ==
  First(WithAuthority(s, i),
        First(ConsumePathAbsolute(s, i), First(ConsumePathRootless(s, i), ConsumePathEmpty(s, i))))

ConsumeRelativePart(s, i) ==
  First(WithAuthority(s, i),
        First(ConsumePathAbsolute(s, i), First(ConsumePathNoscheme(s, i), ConsumePathEmpty(s, i))))

ConsumeQuery(s, i) ==
  EndingAt(s, ConsumeWhile(s, i, PChar \cup {"/", "?"}, Encoded(s)), {"", "#"})
ConsumeFragment(s, i) ==
  EndingAt(s, ConsumeWhile(s, i, PChar \cup {"/", "?"}, Encoded(s)), {""})

AfterQuery(s, i)    == IF At(s, i) = "?" THEN ConsumeQuery(s, i + 1) ELSE i
AfterFragment(s, i) == IF At(s, i) = "#" THEN ConsumeFragment(s, i + 1) ELSE i

ConsumeUri(s) ==
  AfterFragment(s, AfterQuery(s,
    ConsumeHierPart(s, Consume(s, ConsumeScheme(s, 1), {":"}))))

ConsumeRelativeRef(s) ==
  AfterFragment(s, AfterQuery(s, ConsumeRelativePart(s, 1)))

ValidateUri(s) == ConsumeUri(s) = Len(s) + 1
ValidateUriReference(s) == First(ConsumeUri(s), ConsumeRelativeRef(s)) = Len(s) + 1
===============================================================================
