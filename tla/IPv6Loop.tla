------------------------------- MODULE IPv6Loop -------------------------------
(* The IPv6 parser at work: one iteration of parseAddressPart's loop a step,  *)
(* on every text of Texts.                                                    *)
EXTENDS IPv6

CONSTANT Texts
ASSUME TextsAssumption == \A s \in Texts : s \in Seq(STRING)

VARIABLES text, p
loopVars == <<text, p>>

LoopInit == text \in Texts /\ p = Start

Parse == p.looping /\ p' = Iterate(text, p) /\ UNCHANGED text

LoopNext == Parse

LoopSpec == LoopInit /\ [][LoopNext]_loopVars
===============================================================================
