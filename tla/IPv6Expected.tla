----------------------------- MODULE IPv6Expected -----------------------------
(***************************************************************************)
(* What the IPv6 parser should accept and compute, by the text forms of    *)
(* AddressText and the three ways in which its answer differs from them.   *)
(***************************************************************************)
EXTENDS IPv6Loop, AddressText

AcceptedAsAddress(s) ==
  \/ AcceptedUpTo(s, Len(s) + 1)
  \/ \E z \in 1..(Len(s) - 1) :
       s[z] = "%" /\ AcceptedUpTo(s, z) /\ \A k \in (z + 1)..Len(s) : s[k] # "NUL"

AcceptedAsPrefix(s) ==
  \E z \in 1..Len(s) : SlashAt(s, z) /\ AcceptedUpTo(s, z) /\ IsNumber(From(s, z + 1), 128)
-------------------------------------------------------------------------------
Finished == ~p.looping

\* Type invariant: the loop never looks past the end of the text, counts at
\* most nine groups, and keeps to 128 bits.
TypeOK ==
  /\ p.at \in 1..(Len(text) + 1)
  /\ p.index \in 0..9
  /\ p.doubleColonFound \in BOOLEAN /\ p.looping \in BOOLEAN /\ p.ok \in BOOLEAN
  /\ p.b \subseteq 0..127 /\ p.bits \subseteq 0..127

\* parseAddress accepts the IPv6 addresses with an optional zone and differs from
\* the RFC in nothing but the three cases that AddressText names; two of them also
\* contradict the code's own comments, at the end of this module.
AddressExact ==
  Finished => (AddressEnds(text, p) <=> AcceptedAsAddress(text))

\* parsePrefix likewise, for an address with a prefix length.
PrefixExact ==
  Finished => (PrefixEnds(text, p) <=> AcceptedAsPrefix(text))

\* A valid text gives the 128 bits that its groups stand for, wherever the
\* double colon and the dotted quad are.
AddressValue ==
  Finished /\ AddressEnds(text, p) =>
    \A z \in {k \in 1..(Len(text) + 1) : At(text, k) \in {"", "%"}} :
      IsAddress(Before(text, z)) => p.bits = WordBits(Address(Before(text, z)))

\* A prefix is strict if no bit of its address after the first `length` is set
\* (extra_func.cc:319), from length 0 to length 128.
StrictExact ==
  Finished /\ PrefixEnds(text, p) /\ IsPrefixOf6(text) =>
    (HostPartZero(p, PrefixLength(text, p))
       <=> WordBits(Address(Before(text, SlashOf(text)))) \cap 0..(127 - LengthOf(text)) = {})

\* Every iteration of the loop consumes text or is the last, so that the loop
\* ends on any text.
EveryIterationConsumes ==
  p.looping => \E q \in {Iterate(text, p)} : q.at > p.at \/ ~q.looping

\* A group shifted and or-ed in never falls on bits of another one, and none is
\* shifted out at the top, with eight groups, nine, or a dotted quad.
GroupsApart ==
  p.looping /\ p.index < HexadecatetsCount =>
    /\ p.b \cap p.bits = {}
    /\ \A j \in p.b : j + 16 < IPv6BitsCount
    /\ DottedAhead(text, p) =>
         \A j \in p.b : j + 32 < IPv6BitsCount /\ j + 32 \notin p.bits
    /\ DottedAhead(text, p) => p.bits \cap 0..31 = {}

\* "This ensures that we can't have more than 7 hexadecatets when there's a
\* double-colon" (lib/ipv6.cc:96-97).
AtMostSevenWithDoubleColon ==
  Finished /\ p.ok => p.index <= HexadecatetsCount

\* "Can not start or end on a single colon." (lib/ipv6.cc:101): the address part
\* of an address or prefix that is accepted.
SingleColonAt(t, k) == At(t, k) = ":" /\ At(t, k - 1) # ":" /\ At(t, k + 1) # ":"
NoSingleColonAtTheEnds ==
  Finished /\ (AddressEnds(text, p) \/ PrefixEnds(text, p)) =>
    LET address == Before(text, p.at) IN
    ~SingleColonAt(address, 1) /\ ~SingleColonAt(address, Len(address))
===============================================================================
