-------------------------------- MODULE UriText --------------------------------
(***************************************************************************)
(* The text forms of URIs as RFC 3986 defines them: split the text at the  *)
(* first #, ?, : and / and look at the parts.  Hosts and zones are what the *)
(* parser makes of them, which differs in the five ways named below.       *)
(***************************************************************************)
EXTENDS AddressText, Uri

\* The first place at or after i with a character of a class, or the end.
Find(s, i, class) ==
  CHOOSE k \in i..(Len(s) + 1) :
    /\ k > Len(s) \/ s[k] \in class
    /\ \A j \in i..(k - 1) : s[j] \notin class

\* Only characters of a class and percent-encoded bytes.
IsHexAt(t, i) == At(t, i) \in HexDigit
WellEncoded(t, class) ==
  \A i \in 1..Len(t) :
    t[i] \in class \/ (t[i] = "%" /\ IsHexAt(t, i + 1) /\ IsHexAt(t, i + 2))

\* The bytes of such a text; an unencoded character is any ASCII byte.
Decoded(t) ==
  LET from[i \in 1..(Len(t) + 3)] ==
        IF i > Len(t) THEN <<>>
        ELSE IF t[i] = "%" THEN <<Number(t, i + 1, 2, 16)>> \o from[i + 3]
        ELSE <<0>> \o from[i + 1]
  IN  from[1]

\* n bytes at i that encode one code point, the largest being max: a lead byte
\* that says n, continuation bytes, and no shorter encoding.
Sequence(bs, i, n) == [k \in 1..n |-> bs[i + k - 1]]
Encodes(seq, low, from, max) ==
  LET n == Len(seq)
      code[k \in 1..n] ==
        IF k = 1 THEN seq[1] - low ELSE code[k - 1] * 64 + seq[k] - 128
  IN  /\ seq[1] >= low /\ \A k \in 2..n : seq[k] \in 128..191
      /\ code[n] \in from..max

\* 1. Surrogates, ed a0 80 to ed bf bf, are no characters (RFC 3629) and accepted.
\* 2. The last code point is U+10FFFF; 4096 more are accepted, which start with
\*    f4 90, against the comment at uri.cc:447 (NothingBeyondLastCodePoint).
LastAccepted == 1114111 + 4096

IsCodePoint(seq) ==
  CASE Len(seq) = 1 -> seq[1] <= 127
    [] Len(seq) = 2 -> seq[1] < 224 /\ Encodes(seq, 192, 128, 2047)
    [] Len(seq) = 3 -> seq[1] < 240 /\ Encodes(seq, 224, 2048, 65535)
    [] Len(seq) = 4 -> seq[1] < 248 /\ Encodes(seq, 240, 65536, LastAccepted)

IsUTF8(bs) ==
  LET from[i \in 1..(Len(bs) + 1)] ==
        i > Len(bs) \/ \E n \in 1..4 : /\ i + n - 1 <= Len(bs)
                                       /\ IsCodePoint(Sequence(bs, i, n))
                                       /\ from[i + n]
  IN  from[1]

\* 3. A percent-encoded byte before a hexadecimal digit is refused.
HexAfterEncoded(t) == \E i \in 1..(Len(t) - 3) : t[i] = "%" /\ t[i + 3] \in HexDigit

WellEncodedUTF8(t, class) ==
  WellEncoded(t, class) /\ IsUTF8(Decoded(t)) /\ ~HexAfterEncoded(t)

\* An address in brackets at i, up to the bracket at j, with an optional zone
\* after %25.
\* 4. The address is one as ipv6.cc accepts them (AddressText), with all the text
\*    after it in view.
\* 5. There may be no zone after a dotted quad.
ZoneAt(s, i, j) ==
  {z \in i..(j - 3) : SubSeq(s, z, z + 2) = <<"%", "2", "5">>}

IsQuadBefore(s, i, z) ==
  \E k \in i..(z - 1) : s[k] \in {":", "["} /\ IsQuad(SubSeq(s, k + 1, z - 1))

IsAddressPart(s, i, z) == AcceptedUpTo(From(s, i), z - i + 1)

IsIPv6Literal(s, i, j) ==
  \/ IsAddressPart(s, i + 1, j)
  \/ \E z \in ZoneAt(s, i, j) :
       /\ IsAddressPart(s, i + 1, z)
       /\ SubSeq(s, z + 3, j - 1) # <<>>
       /\ WellEncodedUTF8(SubSeq(s, z + 3, j - 1), Unreserved)
       /\ ~IsQuadBefore(s, i, z)

IsFutureLiteral(t) ==
  \E d \in 3..(Len(t) - 1) :
    /\ t[1] = "v" /\ \A k \in 2..(d - 1) : t[k] \in HexDigit
    /\ t[d] = "."
    /\ \A k \in (d + 1)..Len(t) : t[k] \in Unreserved \cup SubDelims \cup {":"}

\* The host between i and j.
IsHost(s, i, j) ==
  \/ WellEncodedUTF8(SubSeq(s, i, j - 1), Unreserved \cup SubDelims)
  \/ /\ j - i > 2 /\ s[i] = "[" /\ s[j - 1] = "]"
     /\ IsIPv6Literal(s, i, j - 1) \/ IsFutureLiteral(SubSeq(s, i + 1, j - 2))

\* [ userinfo "@" ] host [ ":" port ]
IsAuthority(s, i, j) ==
  \E a \in {i} \cup {k + 1 : k \in {n \in i..(j - 1) : s[n] = "@"}},
     c \in {j} \cup {n \in i..(j - 1) : s[n] = ":"} :
    /\ a > i => WellEncoded(SubSeq(s, i, a - 2), Unreserved \cup SubDelims \cup {":"})
    /\ a <= c /\ IsHost(s, a, c)
    /\ \A k \in (c + 1)..(j - 1) : s[k] \in Num

\* What is before the query: an authority and a path, or only a path, which then
\* does not start with two slashes and in a relative reference has no colon in
\* its first segment.
IsHierPart(s, i, j, relative) ==
  IF j - i >= 2 /\ s[i] = "/" /\ s[i + 1] = "/"
    THEN LET path == Find(Before(s, j), i + 2, {"/"}) IN
         /\ IsAuthority(s, i + 2, path)
         /\ WellEncoded(SubSeq(s, path, j - 1), PChar \cup {"/"})
    ELSE /\ WellEncoded(SubSeq(s, i, j - 1), PChar \cup {"/"})
         /\ relative => Find(Before(s, j), i, {":"}) >= Find(Before(s, j), i, {"/"})

\* Hierarchical part, [ "?" query ], [ "#" fragment ]
IsReference(s, i, relative) ==
  LET hash     == Find(s, i, {"#"})
      question == Find(Before(s, hash), i, {"?"})
      extra    == PChar \cup {"/", "?"}
  IN  /\ IsHierPart(s, i, question, relative)
      /\ WellEncoded(SubSeq(s, question + 1, hash - 1), extra)
      /\ WellEncoded(SubSeq(s, hash + 1, Len(s)), extra)

IsScheme(t) ==
  /\ t # <<>> /\ t[1] \in Alpha
  /\ \A k \in 1..Len(t) : t[k] \in AlphaNum \cup {"+", "-", "."}

IsUri(s) ==
  LET colon == Find(s, 1, {":"}) IN
  colon <= Len(s) /\ IsScheme(Before(s, colon)) /\ IsReference(s, colon + 1, FALSE)

IsUriReference(s) == IsUri(s) \/ IsReference(s, 1, TRUE)
===============================================================================
