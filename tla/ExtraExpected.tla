----------------------------- MODULE ExtraExpected -----------------------------
(* What the CEL string functions should answer, by the text forms.           *)
EXTENDS ExtraFunc, IPv6Expected

Text == INSTANCE UriText

Answered(fns) == answer # NoAnswer /\ call.fn \in fns

\* The overloads' arguments, with their defaults.
Version == IF call.args = <<>> \/ IsBool(Head(call.args)) THEN Int64(0) ELSE Head(call.args)
Strict  == \E k \in 1..Len(call.args) : call.args[k] = Bool(TRUE)

\* isIp is true of the dotted quads, of IPv6 addresses or of both, as the
\* version says; no text is both, and no other version has addresses.
IpAnswers ==
  Answered({"isIp"}) =>
    (answer.bool <=>
       \/ IsQuad(call.text) /\ Version \in {Int64(0), Int64(4)}
       \/ AcceptedAsAddress(call.text) /\ Version \in {Int64(0), Int64(6)})

\* isIpPrefix is true of an address and a length no longer than the address; a
\* strict one has no bit set after the length, at the lengths 0 and 32 as well.
\* Only the low word of the version counts.  (PrefixExact is about the addresses
\* the parser misjudges; no call here has one.)
IpPrefixAnswers ==
  Answered({"isIpPrefix"}) =>
    (answer.bool <=>
       \/ /\ Ver(Version) \in {0, 4} /\ IsPrefixOf4(call.text)
          /\ Strict => WordBits(QuadValue(Before(call.text, SlashOf(call.text))))
                         \cap 0..(31 - LengthOf(call.text)) = {}
       \/ /\ Ver(Version) \in {0, 6} /\ IsPrefixOf6(call.text)
          /\ Strict => WordBits(Address(Before(call.text, SlashOf(call.text))))
                         \cap 0..(127 - LengthOf(call.text)) = {})

\* Labels between dots, character by character.
IsLabelsText(b) ==
  /\ b # <<>>
  /\ \A k \in 1..Len(b) :
       \/ b[k] \in AlphaNum
       \/ b[k] = "-" /\ {At(b, k - 1), At(b, k + 1)} \subseteq AlphaNum \cup {"-"}
       \/ b[k] = "." /\ {At(b, k - 1), At(b, k + 1)} \subseteq AlphaNum
  /\ \A k \in 0..(Len(b) - 64) : \E j \in 1..64 : b[k + j] = "."

\* A hostname.
IsHostnameText(t) ==
  LET b == IF t # <<>> /\ t[Len(t)] = "." THEN SubSeq(t, 1, Len(t) - 1) ELSE t IN
  /\ Len(t) <= 253 /\ IsLabelsText(b)
  /\ \E k \in 1..Len(b) : b[k] \notin Num /\ \A j \in k..Len(b) : b[j] # "."

\* A port.
IsPortText(t) ==
  /\ t # <<>> /\ AllDigits(t) /\ (t = <<"0">> \/ t[1] # "0")
  /\ Len(t) < 5 \/ (Len(t) = 5 /\ Number(t, 1, 5, 10) < 2 ^ 16)

IsHostText(t) ==
  \/ IsHostnameText(t) \/ IsQuad(t)
  \/ /\ Len(t) > 2 /\ t[1] = "[" /\ t[Len(t)] = "]"
     /\ AcceptedAsAddress(SubSeq(t, 2, Len(t) - 1))

\* isHostAndPort is true if the text can be read in some way as a host and a
\* port, or, unless the port is required, as a host: where the code looks for
\* the last colon and the last bracket, any place will do.
HostAndPortAnswers ==
  Answered({"isHostAndPort"}) =>
    (answer.bool <=>
       \/ call.args = <<Bool(FALSE)>> /\ IsHostText(call.text)
       \/ \E c \in 1..Len(call.text) :
            /\ call.text[c] = ":"
            /\ IsHostText(Before(call.text, c)) /\ IsPortText(From(call.text, c + 1)))

\* isHostname is true of letters, digits, hyphens and dots where no hyphen is
\* next to a dot or an end, labels have up to 63 characters, all have up to 253
\* with a final dot, and the last label is not a number.
HostnameAnswers ==
  Answered({"isHostname"}) => (answer.bool <=> IsHostnameText(call.text))

\* isEmail is true of some atom characters, an @ and labels: what is after the @
\* may be longer than a hostname and end in a number, but not in a dot, and there
\* is no second @.
EmailAnswers ==
  Answered({"isEmail"}) =>
    (answer.bool <=>
       \E at \in 2..Len(call.text) :
         /\ \A k \in 1..Len(call.text) : call.text[k] = "@" <=> k = at
         /\ \A k \in 1..(at - 1) : call.text[k] \notin {" ", "[", "]", ":"}
         /\ IsLabelsText(From(call.text, at + 1)))

\* isUri and isUriRef are true of the texts of RFC 3986, but for what UriText says
\* of hosts and zones; where that contradicts the code's own comments, the
\* properties NothingBeyondLastCodePoint and NoSingleColonAtTheEnds say so.
UriAnswers ==
  Answered({"isUri", "isUriRef"}) =>
    (answer.bool <=> IF call.fn = "isUri" THEN Text!IsUri(call.text)
                     ELSE Text!IsUriReference(call.text))

\* Place i is in the host of a URI: in its authority and after the user info.
InHost(t, i) ==
  \E k \in 1..(i - 2) :
    /\ t[k] = "/" /\ t[k + 1] = "/"
    /\ \A j \in 1..(k - 1) \cup (k + 2)..i : t[j] \notin {"/", "?", "#"}
    /\ \A j \in i..Len(t) : t[j] # "@"

\* "Sequence larger than U+10FFFF" (lib/uri.cc:447), of the check that refuses such
\* sequences: f4 8f bf bf is the last code point, so that no host that is accepted
\* has f4 before a byte from 90 on.
NothingBeyondLastCodePoint ==
  Answered({"isUri", "isUriRef"}) /\ answer.bool =>
    \A i \in 1..(Len(call.text) - 5) :
      InHost(call.text, i) /\ SubSeq(call.text, i, i + 3) = <<"%", "f", "4", "%">> =>
        Uri!Byte(call.text, i + 3) < 144
===============================================================================
