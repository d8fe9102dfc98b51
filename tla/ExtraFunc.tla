------------------------------- MODULE ExtraFunc -------------------------------
(***************************************************************************)
(* The string functions extra_func.cc registers with CEL: one action each, *)
(* answering a call [fn, text, args] with a Boolean.  An argument is a     *)
(* CelValue of the type the expression gives it, [bool |-> b] or           *)
(* [int64 |-> <<high, low>>] with the two 32-bit halves of the number.     *)
(***************************************************************************)
EXTENDS IPv4, IPv6

Uri == INSTANCE Uri

CONSTANT Calls

VARIABLES call, answer
vars == <<call, answer>>

\* A CelValue made by default is null.
NoAnswer == [null |-> TRUE]

Int64(n) == [int64 |-> <<0, n>>]
Bool(b)  == [bool |-> b]
IsBool(value) == "bool" \in DOMAIN value

\* A hostname: labels between dots, the last of which may be empty and may not
\* be all digits.
StripDot(t) == IF t # <<>> /\ t[Len(t)] = "." THEN SubSeq(t, 1, Len(t) - 1) ELSE t

IsLabel(part) ==
  /\ Len(part) \in 1..63
  /\ part[1] # "-" /\ part[Len(part)] # "-"
  /\ \A k \in 1..Len(part) : part[k] \in AlphaNum \cup {"-"}

AllDigits(part) == \A k \in 1..Len(part) : part[k] \in Num

AllLabels(parts) == \A k \in 1..Len(parts) : IsLabel(parts[k])

\* Mutant of Labels: allDigits is not set anew for each label.
LabelsNotNumeric(parts) ==
  AllLabels(parts) /\ \E k \in 1..Len(parts) : ~AllDigits(parts[k])

Labels(parts) == AllLabels(parts) /\ ~AllDigits(parts[Len(parts)])

IsHostname(t) == Len(t) \in 1..253 /\ Labels(Split(StripDot(t), "."))

\* The regular expression of isEmail: atom characters, @, labels of letters,
\* digits and inner hyphens with dots between them.  (A backtick is an atom
\* character too; TLA+ strings have none.)
AtomChar == AlphaNum \cup {".", "!", "#", "$", "%", "&", "'", "*", "+", "/", "=", "?", "^",
                           "_", "{", "|", "}", "~", "-"}

\* Mutant of IsEmail: a hostname after the @.
IsEmailAtHost(t) ==
  \E at \in 2..Len(t) :
    /\ t[at] = "@" /\ \A k \in 1..(at - 1) : t[k] \in AtomChar
    /\ IsHostname(SubSeq(t, at + 1, Len(t)))

IsEmail(t) ==
  \E at \in 2..Len(t) :
    /\ t[at] = "@" /\ \A k \in 1..(at - 1) : t[k] \in AtomChar
    /\ AllLabels(Split(SubSeq(t, at + 1, Len(t)), "."))

\* absl::SimpleAtoi fails on what does not fit 32 bits; either way a number of
\* more than five digits is no port.
IsPort(t) ==
  /\ t # <<>> /\ (Len(t) > 1 => t[1] # "0")
  /\ \A k \in 1..Len(t) : t[k] \in Num
  /\ Len(t) <= 5 /\ Number(t, 1, Len(t), 10) <= 65535

\* Mutant of RFind: the first place.
RFindFirst(t, c) ==
  CHOOSE k \in 0..Len(t) :
    /\ IF k = 0 THEN \A j \in 1..Len(t) : t[j] # c ELSE t[k] = c
    /\ \A j \in 1..(k - 1) : t[j] # c

\* rfind: the last place of a character, 0 if there is none.
RFind(t, c) ==
  CHOOSE k \in 0..Len(t) :
    (k = 0 \/ t[k] = c) /\ \A j \in (k + 1)..Len(t) : t[j] # c

Sub(t, i, j) == SubSeq(t, i, j - 1)   \* from i to before j

BracketHostAndPort(t, portRequired, end, colon) ==
  IF end = Len(t) THEN ~portRequired /\ ParseIPv6Address(Sub(t, 2, end))
  ELSE /\ end > 0 /\ end + 1 = colon
       /\ ParseIPv6Address(Sub(t, 2, end))
       /\ IsPort(Sub(t, colon + 1, Len(t) + 1))

PlainHost(t) == IsHostname(t) \/ ParseIPv4Address(t)

PlainHostAndPort(t, portRequired, colon) ==
  IF colon = 0 THEN ~portRequired /\ PlainHost(t)
  ELSE PlainHost(Sub(t, 1, colon)) /\ IsPort(Sub(t, colon + 1, Len(t) + 1))

IsHostAndPort(t, portRequired) ==
  IF t = <<>> THEN FALSE
  ELSE IF t[1] = "[" THEN BracketHostAndPort(t, portRequired, RFind(t, "]"), RFind(t, ":"))
  ELSE PlainHostAndPort(t, portRequired, RFind(t, ":"))

IsIp(t) == ParseIPv4Address(t) \/ ParseIPv6Address(t)

\* Mutant of IsIPvX: the version is an int.
IsIPvXNarrow(t, version) ==
  CASE version.int64[2] = 0 -> IsIp(t)
    [] version.int64[2] = 4 -> ParseIPv4Address(t)
    [] version.int64[2] = 6 -> ParseIPv6Address(t)
    [] OTHER                -> FALSE

\* switch on the whole int64.
IsIPvX(t, version) ==
  CASE version = Int64(0) -> IsIp(t)
    [] version = Int64(4) -> ParseIPv4Address(t)
    [] version = Int64(6) -> ParseIPv6Address(t)
    [] OTHER              -> FALSE

IsIpv4Prefix(t, strict) ==
  ParseIPv4Prefix(t) /\ (strict => DottedBits(t, 1) \ Mask4(PrefixLength4(t)) = {})

IPv6PrefixOf(t, p, strict) ==
  PrefixEnds(t, p) /\ (strict => HostPartZero(p, PrefixLength(t, p)))
IsIpv6Prefix(t, strict) == IPv6PrefixOf(t, ParseAddressPart(t), strict)

IsIpPrefix(t, strict) == IsIpv4Prefix(t, strict) \/ IsIpv6Prefix(t, strict)

\* `int ver` keeps the low 32 bits.
Ver(version) == version.int64[2]

IsIpPrefixXY(t, version, strict) ==
  CASE Ver(version) = 0 -> IsIpPrefix(t, strict.bool)
    [] Ver(version) = 4 -> IsIpv4Prefix(t, strict.bool)
    [] Ver(version) = 6 -> IsIpv6Prefix(t, strict.bool)
    [] OTHER            -> FALSE

IsIpPrefixX(t, arg) ==
  IF IsBool(arg) THEN IsIpPrefixXY(t, Int64(0), arg) ELSE IsIpPrefixXY(t, arg, Bool(FALSE))
-------------------------------------------------------------------------------
Answer(fn, arity, value) ==
  /\ call.fn = fn /\ Len(call.args) = arity /\ answer = NoAnswer
  /\ answer' = Bool(value)
  /\ UNCHANGED call

isIP         == Answer("isIp", 0, IsIPvX(call.text, Int64(0)))
isIPvX       == Answer("isIp", 1, IsIPvX(call.text, call.args[1]))
isIpPrefix   == Answer("isIpPrefix", 0, IsIpPrefixXY(call.text, Int64(0), Bool(FALSE)))
isIpPrefixX  == Answer("isIpPrefix", 1, IsIpPrefixX(call.text, call.args[1]))
isIpPrefixXY == Answer("isIpPrefix", 2, IsIpPrefixXY(call.text, call.args[1], call.args[2]))
isHostname   == Answer("isHostname", 0, IsHostname(call.text))
isEmail      == Answer("isEmail", 0, IsEmail(call.text))
isHostAndPort == Answer("isHostAndPort", 1, IsHostAndPort(call.text, call.args[1].bool))
isUri        == Answer("isUri", 0, Uri!ValidateUri(call.text))
isUriRef     == Answer("isUriRef", 0, Uri!ValidateUriReference(call.text))

Init == call \in Calls /\ answer = NoAnswer

Next == isIP \/ isIPvX \/ isIpPrefix \/ isIpPrefixX \/ isIpPrefixXY
        \/ isHostname \/ isEmail \/ isHostAndPort \/ isUri \/ isUriRef

Spec == Init /\ [][Next]_vars
===============================================================================
