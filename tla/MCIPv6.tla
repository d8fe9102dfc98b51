-------------------------------- MODULE MCIPv6 --------------------------------
(* Texts for TLC: up to nine groups with every place for one separator that   *)
(* is not a colon, every start and end, dotted quads, zones and lengths.      *)
EXTENDS IPv6Expected, TLC

DC == <<":", ":">>
C  == <<":">>
Quad == <<"1",".","0",".","0",".","9">>
BadQuads == {<<"1",".","0",".","0">>, <<"1",".","2","5","6",".","0",".","9">>,
             <<"0","1",".","0",".","0",".","9">>, <<"1",".","0",".","0",".","9",".","9">>,
             <<".","0",".","0",".","0","9">>}

\* Groups 1 to n, each with its own number, and up to two odd separators.
Core(n, odd) ==
  LET upTo[k \in 0..n] ==
        CASE k = 0 -> <<>>
          [] k = 1 -> <<HexDigits[2]>>
          [] OTHER -> upTo[k - 1] \o (IF k \in DOMAIN odd THEN odd[k] ELSE C) \o <<HexDigits[k + 1]>>
  IN  upTo[n]

None == [k \in {} |-> C]
Odd(k, sep) == k :> sep

Cores(n) ==
  {Core(n, None)} \cup {Core(n, Odd(k, sep)) : k \in 2..n, sep \in {DC, <<".">>, C \o DC}}
  \cup {Core(n, Odd(k, DC) @@ Odd(j, DC)) : j, k \in 2..n}

Starts  == {<<>>, C, DC}
Ends    == {<<>>, C, DC, C \o C \o C, C \o Quad, DC \o Quad}
Zone    == <<"%", "z">>
Length64 == <<"/", "6", "4">>

Shapes == {a \o c \o e \o x : a \in Starts, c \in UNION {Cores(n) : n \in 0..9}, e \in Ends,
                              x \in {<<>>, Zone, Length64}}

\* What can go into one group, at either end of a short address.
GroupTexts == {<<"0">>, <<"f","f">>, <<"f","f","f","f">>, <<"0","0","f","f">>, <<"8","0","0","0">>,
               <<"1","2","3","4","5">>, <<"0","0","0","0","1">>, <<"g">>}
ShortAddresses ==
  UNION {{g \o DC, DC \o g, g \o DC \o g, DC \o g \o C \o Quad,
          Core(7, None) \o C \o g, g \o C \o Core(5, Odd(3, DC))} : g \in GroupTexts}
  \cup UNION {{DC \o q, Core(6, None) \o C \o q, Core(3, Odd(3, DC)) \o C \o q}
                : q \in BadQuads \cup {Quad}}

Suffixes ==
  {<<>>, <<"%">>, <<"%","NUL">>, <<"%","z","%","/","1">>, <<"%","a",".","b","c","d","e">>,
   <<"%","a",".","b","c","d">>, <<"%",".","z","z","z","z","z">>, <<"%","a","b","c",".","d","e">>,
   <<"/">>, <<"/","0">>, <<"/","1">>, <<"/","1","6">>, <<"/","1","7">>, <<"/","0","6">>,
   <<"/","9","6">>, <<"/","1","2","7">>, <<"/","1","2","8">>, <<"/","1","2","9">>,
   <<"/","1","0","0","0">>, <<"/","6","4","z">>, <<"/","6","4","%","z">>}

\* Every text of up to six of these characters.
Tiny == UNION {[1..n -> {"1", ":", ".", "%", "/"}] : n \in 0..6}

MCNoTexts == {}
MCTexts == Tiny \cup Shapes \cup {a \o x : a \in ShortAddresses \cup {DC, Core(7, None) \o DC, Core(6, Odd(4, DC))},
                                 x \in Suffixes}
===============================================================================
