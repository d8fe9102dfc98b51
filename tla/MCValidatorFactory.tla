------------------------- MODULE MCValidatorFactory -------------------------
(* Small instances of ValidatorFactory and SealedFactory for TLC.          *)
EXTENDS SealedFactory, TLC

CONSTANTS t1, t2, A, B, C, D

\* A has a field of type B; B has one of type A again (a recursive message) and
\* one of type C.
CyclicFields == (A :> <<B>>) @@ (B :> <<A, C>>) @@ (C :> <<>>)

\* A has a map field with entry type D, the entries have values of type B, and
\* B has a field of type A again.  No type declares a field of type C, but a
\* file extends B with one.
MapFields == (A :> <<D>>) @@ (B :> <<A>>) @@ (C :> <<>>) @@ (D :> <<B>>)
MapListed == (A :> <<B>>) @@ (B :> <<A, C>>) @@ (C :> <<>>) @@ (D :> <<B>>)

\* C has an unknown rule: it compiles only if unknown fields are allowed or a
\* message factory can reparse them.
UnknownRuleInC ==
  [c \in Configs |->
     [d \in Types |-> IF d = C /\ ~c.allowUnknown /\ ~c.reparse
                        THEN "error" ELSE "ok"]]

\* Every type compiles.
AllCompile == [c \in Configs |-> [d \in Types |-> "ok"]]

=============================================================================
