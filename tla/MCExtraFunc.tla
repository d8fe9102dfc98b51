------------------------------ MODULE MCExtraFunc ------------------------------
(* Calls for TLC: every short text over a few characters that matter to the   *)
(* function, and longer ones put together from parts; and the calls of isIp  *)
(* with the texts of MCIPv6, for which the parser's loop is taken step by    *)
(* step.                                                                     *)
EXTENDS ExtraExpected, MCIPv6

Strings(chars, max) == UNION {[1..n -> chars] : n \in 0..max}
OnTexts(fn, texts, args) == [fn : {fn}, text : texts, args : args]
Repeat(c, n) == [k \in 1..n |-> c]

Dot   == <<".">>
Colon == <<":">>
Slash == <<"/">>
Five(d) == Repeat(d, 5)

Versions == {Int64(0), Int64(4), Int64(6), Int64(5), [int64 |-> <<1, 4>>]}
Bools == {Bool(TRUE), Bool(FALSE)}
-------------------------------------------------------------------------------
(* Addresses and prefixes.                                                 *)

Octets == {<<"0">>, <<"1">>, <<"2","5","5">>, <<"2","5","6">>, <<"0","1">>, <<>>, <<"a">>}
Quads  == {a \o Dot \o b \o Dot \o c \o Dot \o d : a, b, c, d \in Octets}

\* 1.0.0.0, 128.0.0.0, 0.0.0.1 and 0.1.128.0
SomeQuads ==
  {<<"1",".","0",".","0",".","0">>, <<"1","2","8",".","0",".","0",".","0">>,
   <<"0",".","0",".","0",".","1">>, <<"0",".","1",".","1","2","8",".","0">>}

Addresses6 ==
  {<<":",":">>, <<":",":","1">>, <<"1",":",":">>, <<"8","0","0","0",":",":">>,
   <<":",":","1","0",":","1",".","0",".","0",".","1">>, <<"1",":",":","%","z">>, <<"1",":">>}

Lengths == {<<>>, <<"0">>, <<"1">>, <<"7">>, <<"8">>, <<"1","5">>, <<"1","6">>, <<"1","7">>,
            <<"3","1">>, <<"3","2">>, <<"3","3">>, <<"0","8">>, <<"9","6">>, <<"1","2","7">>,
            <<"1","2","8">>, <<"1","2","9">>, <<"8",".","0">>}

IpCalls ==
  OnTexts("isIp", Quads \cup {q \o x : q \in SomeQuads, x \in {Dot, <<"/","8">>, <<"%","z">>}},
          {<<>>} \cup {<<v>> : v \in Versions})
  \cup OnTexts("isIp", Addresses6, {<<>>} \cup {<<v>> : v \in Versions})
  \cup OnTexts("isIpPrefix", {a \o Slash \o n : a \in SomeQuads \cup Addresses6, n \in Lengths},
               {<<>>} \cup {<<v>> : v \in Versions \cup Bools}
               \cup {<<v, b>> : v \in Versions, b \in Bools})
-------------------------------------------------------------------------------
(* Hostnames and ports.                                                    *)

LongLabels == {Repeat("a", n) : n \in {62, 63, 64}}
LongNames ==
  {a \o Dot \o b : a, b \in LongLabels}
  \* Three labels of 62, and one that makes 252, 253 or 254 in all.
  \cup {Repeat("a", 62) \o Dot \o Repeat("a", 62) \o Dot \o Repeat("a", 62) \o Dot
          \o Repeat("a", n) \o e : n \in {62, 63}, e \in {<<>>, Dot, Dot \o Dot}}
  \cup {Repeat("a", 63) \o Dot \o Repeat("a", 62) \o Dot \o Repeat("a", 62) \o Dot
          \o Repeat("a", 63) \o e : e \in {<<>>, Dot}}

Hosts == {<<"a">>, <<"a","-","z">>, <<"1">>, <<"z",".","1">>, <<>>} \cup SomeQuads
         \cup {<<"[">> \o a \o <<"]">> : a \in Addresses6}
         \cup {<<"[",":",":","1","%","]","]">>, <<"[",":",":","%","]",":","8","]">>, <<"[","a","]">>}
Ports == {<<>>, <<"0">>, <<"0","0">>, <<"0","8">>, <<"8">>, <<"6","5","5","3","5">>,
          <<"6","5","5","3","6">>, <<"9","9","9","9","9">>, <<"4","2","9","4","9","6","7","3","7","6">>,
          <<"8","z">>}

HostCalls ==
  OnTexts("isHostname", Strings({"a", "1", "-", "."}, 6) \cup Strings({"a", "."," ", "_"}, 4)
                        \cup LongNames, {<<>>})
  \cup OnTexts("isEmail", Strings({"a", "1", "-", ".", "@", "+"}, 5)
                          \cup {<<"a">> \o x \o <<"@">> \o h : x \in {<<>>, <<" ">>, <<"[">>}, h \in LongNames},
               {<<>>})
  \cup OnTexts("isHostAndPort", Strings({"a", "1", ":", "[", "]"}, 5)
               \cup {h \o Colon \o n : h \in Hosts, n \in Ports} \cup Hosts,
               {<<b>> : b \in Bools})
-------------------------------------------------------------------------------
(* URIs.                                                                   *)

\* Every text of a few characters, alone, after a scheme, and in an authority.
UriChars == {"a", "1", ":", "/", "?", "#", "[", "]", "@", "%", ".", "^"}
FewChars == {"a", ":", "/", "?", "#", "@"}

UriPrefixes == {<<>>, <<"a",":">>, <<"/","/">>, <<"a",":","/","/">>, <<"a",":","/","/","z">>}

Bytes == {<<"%", a, b>> : <<a, b>> \in
           {<<"0","0">>, <<"2","0">>, <<"7","f">>, <<"8","0">>, <<"8","f">>, <<"9","0">>,
            <<"9","1">>, <<"9","f">>, <<"a","0">>, <<"b","f">>, <<"c","0">>, <<"c","1">>,
            <<"c","2">>, <<"d","f">>, <<"e","0">>, <<"e","d">>, <<"e","f">>, <<"f","0">>,
            <<"f","4">>, <<"f","5">>, <<"f","f">>}}
FewBytes == {<<"%","2","0">>, <<"%","8","0">>, <<"%","9","0">>, <<"%","a","0">>, <<"%","b","f">>,
             <<"%","c","2">>, <<"%","e","0">>, <<"%","f","4">>}

EncodedTexts ==
  {a \o b : a, b \in Bytes \cup {<<"z">>, <<"a">>}}
  \cup {a \o b \o c : a, b, c \in FewBytes \cup {<<"%","e","d">>}}
  \cup {<<"%","f",x>> \o b \o c \o d : x \in {"0", "4"}, b \in Bytes, c, d \in FewBytes}
  \cup {b \o x : b \in FewBytes, x \in {<<"%">>, <<"%","2">>, <<"%","2","z">>, <<"1">>, <<"g">>}}

LiteralTexts ==
  {a \o z \o <<"]">> \o r :
     a \in Addresses6 \cup {<<":",":","1",":">>, <<"v","1",".","z">>, <<"v",".","z">>,
                            <<"v","1","g",".",":">>, <<":",":","1","0",":","1",".","0",".","0",".","1">>,
                            <<":",":","1",":","1",".","0",".","0",".","1">>},
     z \in {<<>>, <<"%","2","5","z">>, <<"%","2","5">>, <<"%","2","5","%","2","0">>,
            <<"%","2","5",".","z">>, <<"%","2","6","z">>},
     r \in {<<>>, Colon \o Colon, Colon \o <<"8">>, <<"/","a",".","z","z","z">>,
            <<"/","z","z",".","z","z">>, <<"z">>, <<"/",".","z","z","z","z">>}}

UriTexts ==
  {u \o t : u \in UriPrefixes, t \in Strings(UriChars, 3) \cup Strings(FewChars, 4)}
  \cup {u \o t : u \in {<<"a",":">>, <<"a",":","/","/">>}, t \in EncodedTexts}
  \cup {<<"a",":","/","/","[">> \o t : t \in LiteralTexts}
  \cup {<<"a",":","/","/","[",":",":","%","2","5">> \o t \o <<"]">> : t \in EncodedTexts}

UriCalls == OnTexts("isUri", UriTexts, {<<>>}) \cup OnTexts("isUriRef", UriTexts, {<<>>})

MCCalls == IpCalls \cup HostCalls \cup UriCalls

\* Hosts alone, for what is accepted that should not be.
MCHostCalls ==
  OnTexts("isUri", {<<"a",":","/","/">> \o t : t \in EncodedTexts}, {<<>>})
-------------------------------------------------------------------------------
\* A function is called that does not use the loop, or does in one step; or isIp
\* is, and answers when the loop has ended.
MCInit ==
  \/ Init /\ text = <<>> /\ p = ParseAddressPart(<<>>)
  \/ /\ LoopInit /\ answer = NoAnswer
     /\ call = [fn |-> "isIp", text |-> text, args |-> <<Int64(6)>>]

MCNext ==
  \/ LoopNext /\ UNCHANGED vars
  \/ Finished /\ Next /\ UNCHANGED loopVars

MCSpec == MCInit /\ [][MCNext]_<<vars, loopVars>>
===============================================================================
