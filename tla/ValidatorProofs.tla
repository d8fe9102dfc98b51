--------------------------- MODULE ValidatorProofs ---------------------------
(***************************************************************************)
(* The walk over messages of any size and depth, with any rule objects:    *)
(* its counters stay in the message being walked, failFast stops it, and   *)
(* what has been found is kept.                                            *)
(***************************************************************************)
EXTENDS Validator, InductionLemmas, SequenceTheorems, TLAPS

Sequence(x) == \E S : x \in Seq(S)

\* What a step may do to the violations found before it: leave them.
Grows(vs, ws) ==
  /\ Sequence(vs) /\ Sequence(ws) /\ Len(vs) <= Len(ws)
  /\ \A i \in 1..Len(vs) : ws[i] = vs[i]

LEMMA SequenceLen ==
  ASSUME NEW vs, Sequence(vs)
  PROVE  Len(vs) \in Nat /\ DOMAIN vs = 1..Len(vs)
  BY DEF Sequence

LEMMA GrowsRefl == ASSUME NEW vs, Sequence(vs) PROVE Grows(vs, vs)
  BY SequenceLen DEF Grows

LEMMA GrowsTrans ==
  ASSUME NEW us, NEW vs, NEW ws, Grows(us, vs), Grows(vs, ws)
  PROVE  Grows(us, ws)
<1>1. Len(us) \in Nat /\ Len(vs) \in Nat /\ Len(ws) \in Nat
  BY SequenceLen DEF Grows
<1> QED
  BY <1>1 DEF Grows

LEMMA AppendGrows ==
  ASSUME NEW vs, NEW v, Sequence(vs)
  PROVE  Grows(vs, Append(vs, v)) /\ Len(Append(vs, v)) = Len(vs) + 1
<1>1. PICK S : vs \in Seq(S)
  BY DEF Sequence
<1>2. vs \in Seq(S \cup {v})
  BY <1>1
<1>3. Append(vs, v) \in Seq(S \cup {v}) /\ Len(Append(vs, v)) = Len(vs) + 1
  BY <1>2
<1>4. \A i \in 1..Len(vs) : Append(vs, v)[i] = vs[i]
  BY <1>2
<1> QED
  BY <1>2, <1>3, <1>4, SequenceLen DEF Grows, Sequence

LEMMA ConcatGrows ==
  ASSUME NEW vs, NEW ws, Sequence(vs), Sequence(ws)
  PROVE  Grows(vs, vs \o ws)
<1>1. PICK S : vs \in Seq(S)
  BY DEF Sequence
<1>2. PICK T : ws \in Seq(T)
  BY DEF Sequence
<1>3. vs \in Seq(S \cup T) /\ ws \in Seq(S \cup T)
  BY <1>1, <1>2
<1>4. /\ vs \o ws \in Seq(S \cup T) /\ Len(vs \o ws) = Len(vs) + Len(ws)
      /\ \A i \in 1..Len(vs) : (vs \o ws)[i] = vs[i]
  BY <1>3, ConcatProperties
<1> QED
  BY <1>3, <1>4, SequenceLen DEF Grows, Sequence

\* An update of the violations after the first `start` ones, `back` having the
\* new ones: what module Rules calls From.
Updated(vs, ws, pos) ==
  Sequence(ws) /\ Len(ws) = Len(vs) /\ \A i \in 1..pos : ws[i] = vs[i]

\* Its new part is `back`.
UpdatedPart(ws, n, pos, back) == \A i \in (pos + 1)..n : ws[i] = back[i - pos]

LEMMA TailUpdated ==
  ASSUME NEW vs, Sequence(vs), NEW start \in 0..Len(vs),
         NEW B, NEW back \in [1..(Len(vs) - start) -> B]
  PROVE  /\ Updated(vs, SubSeq(vs, 1, start) \o back, start)
         /\ UpdatedPart(SubSeq(vs, 1, start) \o back, Len(vs), start, back)
<1>1. PICK S : vs \in Seq(S)
  BY DEF Sequence
<1>2. Len(vs) \in Nat /\ start \in Nat /\ Len(vs) - start \in Nat
  BY SequenceLen
<1> DEFINE front == SubSeq(vs, 1, start)
           T     == S \cup B
           ws    == front \o back
<1>3. front \in Seq(T) /\ Len(front) = start /\ \A i \in 1..start : front[i] = vs[i]
  <2>1. \A i \in 1..start : vs[i] \in T
    BY <1>1, <1>2
  <2> HIDE DEF T
  <2>2. /\ front \in Seq(T)
        /\ Len(front) = IF 1 <= start THEN start - 1 + 1 ELSE 0
        /\ \A i \in 1..(start - 1 + 1) : front[i] = vs[1 + i - 1]
    BY <1>2, <2>1, SubSeqProperties
  <2> QED
    BY <1>2, <2>2
<1>4. back \in Seq(T) /\ Len(back) = Len(vs) - start
  <2> DEFINE k == Len(vs) - start
  <2>1. back \in [1..k -> T] /\ k \in Nat
    BY <1>2
  <2> HIDE DEF T, k
  <2>2. back \in Seq(T) /\ DOMAIN back = 1..k
    BY <2>1, SeqDef
  <2>3. Len(back) = k
    BY <2>1, <2>2, LenProperties
  <2> QED
    BY <2>2, <2>3 DEF k
<1> HIDE DEF T, front
<1>5. /\ ws \in Seq(T) /\ Len(ws) = Len(front) + Len(back)
      /\ \A i \in 1..Len(front) : ws[i] = front[i]
      /\ \A i \in (Len(front) + 1)..(Len(front) + Len(back)) : ws[i] = back[i - Len(front)]
  BY <1>2, <1>3, <1>4, ConcatProperties
<1> HIDE DEF ws
<1>6. Len(front) + Len(back) = Len(vs)
  BY <1>2, <1>3, <1>4
<1>7. Updated(vs, ws, start)
  BY <1>3, <1>5, <1>6 DEF Sequence, Updated
<1>8. UpdatedPart(ws, Len(vs), start, back)
  BY <1>3, <1>5, <1>6 DEF UpdatedPart
<1> QED
  BY <1>7, <1>8 DEF ws, front
-----------------------------------------------------------------------------
(* RuleContext.                                                            *)

LEMMA UpdatedGrows ==
  ASSUME NEW us, NEW vs, NEW ws, NEW pos \in Nat, Grows(us, vs), Len(us) <= pos,
         Updated(vs, ws, pos)
  PROVE  Grows(us, ws)
<1>1. Len(us) \in Nat /\ Len(vs) \in Nat
  BY SequenceLen DEF Grows
<1> QED
  BY <1>1 DEF Grows, Updated

LEMMA RuleContextUpdates ==
  ASSUME NEW vs, Sequence(vs), NEW pos \in 0..Len(vs), NEW x
  PROVE  /\ Updated(vs, AppendFieldPathElement(vs, x, pos), pos)
         /\ Updated(vs, AppendRulePathElement(vs, x, pos), pos)
         /\ Updated(vs, SetFieldValue(vs, x, pos), pos)
         /\ Updated(vs, SetRuleValue(vs, x, pos), pos)
         /\ Updated(vs, SetForKey(vs, pos), pos)
<1>1. Updated(vs, AppendFieldPathElement(vs, x, pos), pos)
  <2> DEFINE u == [i \in 1..(Len(vs) - pos) |-> [vs[pos + i] EXCEPT !.field = Append(@, x)]]
  <2>1. AppendFieldPathElement(vs, x, pos)
          = SubSeq(vs, 1, pos) \o u
    BY DEF AppendFieldPathElement, From
  <2>2. u \in [1..(Len(vs) - pos) -> {u[i] : i \in 1..(Len(vs) - pos)}]
    OBVIOUS
  <2> HIDE DEF u
  <2> QED
    BY <2>1, <2>2, TailUpdated
<1>2. Updated(vs, AppendRulePathElement(vs, x, pos), pos)
  <2> DEFINE u == [i \in 1..(Len(vs) - pos) |-> [vs[pos + i] EXCEPT !.rule = @ \o x]]
  <2>1. AppendRulePathElement(vs, x, pos)
          = SubSeq(vs, 1, pos) \o u
    BY DEF AppendRulePathElement, From
  <2>2. u \in [1..(Len(vs) - pos) -> {u[i] : i \in 1..(Len(vs) - pos)}]
    OBVIOUS
  <2> HIDE DEF u
  <2> QED
    BY <2>1, <2>2, TailUpdated
<1>3. Updated(vs, SetFieldValue(vs, x, pos), pos)
  <2> DEFINE u == [i \in 1..(Len(vs) - pos) |-> [vs[pos + i] EXCEPT !.fieldValue = x]]
  <2>1. SetFieldValue(vs, x, pos)
          = SubSeq(vs, 1, pos) \o u
    BY DEF SetFieldValue, From
  <2>2. u \in [1..(Len(vs) - pos) -> {u[i] : i \in 1..(Len(vs) - pos)}]
    OBVIOUS
  <2> HIDE DEF u
  <2> QED
    BY <2>1, <2>2, TailUpdated
<1>4. Updated(vs, SetRuleValue(vs, x, pos), pos)
  <2> DEFINE u == [i \in 1..(Len(vs) - pos) |-> [vs[pos + i] EXCEPT !.ruleValue = x]]
  <2>1. SetRuleValue(vs, x, pos)
          = SubSeq(vs, 1, pos) \o u
    BY DEF SetRuleValue, From
  <2>2. u \in [1..(Len(vs) - pos) -> {u[i] : i \in 1..(Len(vs) - pos)}]
    OBVIOUS
  <2> HIDE DEF u
  <2> QED
    BY <2>1, <2>2, TailUpdated
<1>5. Updated(vs, SetForKey(vs, pos), pos)
  <2> DEFINE u == [i \in 1..(Len(vs) - pos) |-> [vs[pos + i] EXCEPT !.forKey = TRUE]]
  <2>1. SetForKey(vs, pos) = SubSeq(vs, 1, pos) \o u
    BY DEF SetForKey, From
  <2>2. u \in [1..(Len(vs) - pos) -> {u[i] : i \in 1..(Len(vs) - pos)}]
    OBVIOUS
  <2> HIDE DEF u
  <2> QED
    BY <2>1, <2>2, TailUpdated
<1> QED
  BY <1>1, <1>2, <1>3, <1>4, <1>5

\* What a rule object, or a part of one, may do.
Adds(vs, r) == Grows(vs, r.vs) /\ r.status \in Statuses

LEMMA OkIsStatus == Ok \in Statuses /\ Invalid \in Statuses
  BY DEF Statuses

LEMMA AddsNothing == ASSUME NEW vs, Sequence(vs) PROVE Adds(vs, Result(vs, Ok))
  BY GrowsRefl, OkIsStatus DEF Adds, Result

LEMMA AddsOk == ASSUME NEW vs, NEW ws, Grows(vs, ws) PROVE Adds(vs, Result(ws, Ok))
  BY OkIsStatus DEF Adds, Result

LEMMA AddsOn ==
  ASSUME NEW us, NEW vs, NEW r, Grows(us, vs), Adds(vs, r)
  PROVE  Adds(us, r)
  BY GrowsTrans DEF Adds
-----------------------------------------------------------------------------
(* CelValidationRules.                                                     *)

\* Evaluate may return any status but OK itself.
Outcomes == {"pass", "fail", "error"} \cup (Statuses \ {Ok})

WellFormedExprs(exprs) ==
  Sequence(exprs) /\ \A i \in 1..Len(exprs) : exprs[i].outcome \in Outcomes

LEMMA EvaluateAdds ==
  ASSUME NEW vs, Sequence(vs), NEW expr, expr.outcome \in Outcomes
  PROVE  Adds(vs, Evaluate(vs, expr))
<1>1. Adds(vs, ProcessRule(vs, expr))
  <2> DEFINE v == Violation(expr.id, <<>>, expr.path, NoValue, NoField)
  <2>1. \/ ProcessRule(vs, expr) = Result(vs, Ok)
        \/ ProcessRule(vs, expr) = Result(Append(vs, v), Ok)
        \/ \E s \in Statuses : ProcessRule(vs, expr) = Result(vs, s)
    <3>1. CASE expr.outcome = "pass"
      BY <3>1 DEF ProcessRule
    <3>2. CASE expr.outcome = "fail"
      BY <3>2 DEF ProcessRule
    <3>3. CASE expr.outcome = "error"
      BY <3>3, OkIsStatus DEF ProcessRule
    <3>4. CASE expr.outcome \notin {"pass", "fail", "error"}
      BY <3>4 DEF ProcessRule, Outcomes
    <3> QED
      BY <3>1, <3>2, <3>3, <3>4
  <2> HIDE DEF v
  <2>2. Grows(vs, vs) /\ Grows(vs, Append(vs, v))
    BY GrowsRefl, AppendGrows
  <2>3. /\ Adds(vs, Result(vs, Ok)) /\ Adds(vs, Result(Append(vs, v), Ok))
        /\ \A s \in Statuses : Adds(vs, Result(vs, s))
    BY <2>2, OkIsStatus DEF Adds, Result
  <2> QED
    BY <2>1, <2>3
<1> DEFINE r == ProcessRule(vs, expr)
<1> HIDE DEF r
<1>2. Len(vs) \in Nat /\ Len(r.vs) \in Nat /\ Sequence(r.vs) /\ Len(vs) <= Len(r.vs)
  BY <1>1, SequenceLen DEF Adds, Grows, r
<1>3. Grows(vs, SetRuleValue(r.vs, expr.field, Len(vs)))
  <2>1. Updated(r.vs, SetRuleValue(r.vs, expr.field, Len(vs)), Len(vs))
    BY <1>2, RuleContextUpdates
  <2> QED
    BY <1>1, <1>2, <2>1, UpdatedGrows DEF Adds, r
<1>4. Evaluate(vs, expr) = IF expr.field = NoField THEN r
                           ELSE Result(SetRuleValue(r.vs, expr.field, Len(vs)), r.status)
  BY DEF Evaluate, r
<1> QED
  BY <1>1, <1>3, <1>4 DEF Adds, Result, r
-----------------------------------------------------------------------------
(* Loops.  A loop is a function f of how many elements it has seen.         *)

Started(vs) == [vs |-> vs, status |-> Ok, stop |-> FALSE]

\* What a loop leaves if every element adds.
LEMMA LoopAdds ==
  ASSUME NEW vs, Sequence(vs), NEW f, NEW N \in Nat, f[0] = Started(vs),
         \A n \in 1..N : Sequence(f[n - 1].vs) /\ f[n - 1].status \in Statuses
                           => Grows(f[n - 1].vs, f[n].vs) /\ f[n].status \in Statuses
  PROVE  Adds(vs, Result(f[N].vs, IF f[N].stop THEN f[N].status ELSE Ok))
<1> DEFINE Good(n) == Grows(vs, f[n].vs) /\ f[n].status \in Statuses
           T == {n \in Nat : n <= N => Good(n)}
<1>1. 0 \in T
  <2>1. f[0].vs = vs /\ f[0].status = Ok
    BY DEF Started
  <2> QED
    BY <2>1, GrowsRefl, OkIsStatus
<1>2. ASSUME NEW n \in Nat, n \in T PROVE n + 1 \in T
  <2> SUFFICES ASSUME n + 1 <= N PROVE Good(n + 1)
    OBVIOUS
  <2>1. n + 1 \in 1..N /\ n + 1 - 1 = n /\ n <= N
    OBVIOUS
  <2>2. Good(n)
    BY <1>2, <2>1
  <2>3. Sequence(f[n].vs)
    BY <2>2 DEF Grows
  <2>4. Grows(f[n].vs, f[n + 1].vs) /\ f[n + 1].status \in Statuses
    BY <2>1, <2>2, <2>3
  <2> QED
    BY <2>2, <2>4, GrowsTrans
<1> HIDE DEF T
<1>3. Nat \subseteq T
  BY <1>1, <1>2, Induction
<1>4. Good(N)
  BY <1>3 DEF T
<1> QED
  BY <1>4, OkIsStatus DEF Adds, Result

CelStep(ff, acc, expr) ==
  IF acc.stop \/ FALSE THEN acc
  ELSE LET r == Evaluate(acc.vs, expr)
       IN  [vs |-> r.vs, status |-> r.status, stop |-> ShouldReturn(ff, r.vs, r.status)]

LEMMA CelStepIs ==
  ASSUME NEW ff, NEW acc, NEW expr
  PROVE  \/ CelStep(ff, acc, expr) = acc
         \/ /\ CelStep(ff, acc, expr).vs = Evaluate(acc.vs, expr).vs
            /\ CelStep(ff, acc, expr).status = Evaluate(acc.vs, expr).status
  BY DEF CelStep

CelRuns(ff, vs, exprs, f, N) ==
  f = [n \in 0..N |-> IF n = 0 THEN Started(vs) ELSE CelStep(ff, f[n - 1], exprs[n])]

LEMMA CelRunsExists ==
  ASSUME NEW ff, NEW vs, NEW exprs
  PROVE  \A N \in Nat : \E f : CelRuns(ff, vs, exprs, f, N)
<1> DEFINE T == {N \in Nat : \E f : CelRuns(ff, vs, exprs, f, N)}
<1>1. 0 \in T
  <2> DEFINE f == [n \in 0..0 |-> Started(vs)]
  <2>1. f = [n \in 0..0 |-> IF n = 0 THEN Started(vs) ELSE CelStep(ff, f[n - 1], exprs[n])]
    OBVIOUS
  <2> QED
    BY <2>1 DEF CelRuns
<1>2. ASSUME NEW N \in Nat, N \in T PROVE N + 1 \in T
  <2>1. PICK f : CelRuns(ff, vs, exprs, f, N)
    BY <1>2
  <2> DEFINE g == [n \in 0..(N + 1) |->
                     IF n = N + 1 THEN CelStep(ff, f[N], exprs[N + 1]) ELSE f[n]]
  <2>2. ASSUME NEW n \in 0..(N + 1)
        PROVE  g[n] = IF n = 0 THEN Started(vs) ELSE CelStep(ff, g[n - 1], exprs[n])
    <3>1. CASE n = N + 1
      BY <3>1
    <3>2. CASE n \in 0..N
      <4>1. f[n] = IF n = 0 THEN Started(vs) ELSE CelStep(ff, f[n - 1], exprs[n])
        BY <2>1, <3>2, Zenon DEF CelRuns
      <4>2. g[n] = f[n] /\ (n # 0 => g[n - 1] = f[n - 1])
        BY <3>2
      <4> HIDE DEF g
      <4> QED
        BY <4>1, <4>2
    <3> QED
      BY <3>1, <3>2
  <2>3. g = [n \in 0..(N + 1) |-> g[n]]
    OBVIOUS
  <2> HIDE DEF g
  <2>4. CelRuns(ff, vs, exprs, g, N + 1)
    BY <2>2, <2>3 DEF CelRuns
  <2> QED
    BY <2>4
<1> HIDE DEF T
<1>3. Nat \subseteq T
  BY <1>1, <1>2, Induction
<1> QED
  BY <1>3 DEF T

LEMMA ValidateCelAdds ==
  ASSUME NEW ff, NEW vs, Sequence(vs), NEW exprs, WellFormedExprs(exprs)
  PROVE  Adds(vs, ValidateCel(ff, vs, exprs))
<1> DEFINE f == CHOOSE h : CelRuns(ff, vs, exprs, h, Len(exprs))
<1>1. ValidateCel(ff, vs, exprs)
        = Result(f[Len(exprs)].vs, IF f[Len(exprs)].stop THEN f[Len(exprs)].status ELSE Ok)
  BY DEF ValidateCel, Loop, CelRuns, CelStep, Started
<1>2. Len(exprs) \in Nat
  BY SequenceLen DEF WellFormedExprs
<1>3. CelRuns(ff, vs, exprs, f, Len(exprs))
  BY <1>2, CelRunsExists
<1> HIDE DEF f
<1>4. f[0] = Started(vs) /\ \A n \in 1..Len(exprs) : f[n] = CelStep(ff, f[n - 1], exprs[n])
  BY <1>2, <1>3 DEF CelRuns
<1>5. ASSUME NEW n \in 1..Len(exprs),
             Sequence(f[n - 1].vs), f[n - 1].status \in Statuses
      PROVE  Grows(f[n - 1].vs, f[n].vs) /\ f[n].status \in Statuses
  <2>1. Adds(f[n - 1].vs, Evaluate(f[n - 1].vs, exprs[n]))
    BY <1>5, EvaluateAdds DEF WellFormedExprs
  <2>2. Grows(f[n - 1].vs, f[n - 1].vs)
    BY <1>5, GrowsRefl
  <2>3. \/ f[n] = f[n - 1]
        \/ /\ f[n].vs = Evaluate(f[n - 1].vs, exprs[n]).vs
           /\ f[n].status = Evaluate(f[n - 1].vs, exprs[n]).status
    BY <1>4, CelStepIs
  <2> QED
    BY <1>5, <2>1, <2>2, <2>3 DEF Adds
<1> QED
  BY <1>1, <1>2, <1>4, <1>5, LoopAdds
-----------------------------------------------------------------------------
(* The classes of rule objects.                                            *)

LEMMA AnyAdds ==
  ASSUME NEW vs, Sequence(vs), NEW any, NEW path, NEW value
  PROVE  Grows(vs, ValidateAny(vs, any, path, value))
<1> DEFINE in    == Violation("any.in", path, <<"in", "any">>, value, "in")
           notIn == Violation("any.not_in", path, <<"not_in", "any">>, value, "not_in")
           a == IF any.missing THEN <<in>> ELSE <<>>
           b == IF any.blocked THEN <<notIn>> ELSE <<>>
<1>1. ValidateAny(vs, any, path, value) = vs \o a \o b
  BY DEF ValidateAny
<1>2. Sequence(a) /\ Sequence(b)
  <2> HIDE DEF in, notIn
  <2>1. <<in>> \in Seq({in}) /\ <<notIn>> \in Seq({notIn}) /\ <<>> \in Seq({in})
    OBVIOUS
  <2> QED
    BY <2>1 DEF Sequence
<1> HIDE DEF a, b
<1>3. Grows(vs, vs \o a)
  BY <1>2, ConcatGrows
<1>4. Grows(vs \o a, vs \o a \o b)
  BY <1>2, <1>3, ConcatGrows DEF Grows
<1> QED
  BY <1>1, <1>3, <1>4, GrowsTrans

\* The violations found since `vs` are given a path and a value.
LEMMA LocatedGrows ==
  ASSUME NEW vs, NEW found, Grows(vs, found), NEW x
  PROVE  /\ Grows(vs, AppendFieldPathElement(found, x, Len(vs)))
         /\ Grows(vs, AppendRulePathElement(found, x, Len(vs)))
         /\ Grows(vs, SetFieldValue(found, x, Len(vs)))
         /\ Grows(vs, SetForKey(found, Len(vs)))
<1>1. Sequence(found) /\ Len(vs) \in 0..Len(found) /\ Len(vs) \in Nat /\ Len(vs) <= Len(vs)
  BY SequenceLen DEF Grows
<1> QED
  BY <1>1, RuleContextUpdates, UpdatedGrows

\* Reading the value of a singular field has a status.
Readable(rule) == ~Collection(rule) => rule.read \in Statuses

LEMMA PresentAdds ==
  ASSUME NEW ff, NEW vs, Sequence(vs), NEW rule, WellFormedExprs(rule.exprs), Readable(rule)
  PROVE  Adds(vs, ValidatePresent(ff, vs, rule))
<1> DEFINE value == ProtoField(rule.msg, rule.field, Whole)
           path  == Element(rule.field)
           start == IF Collection(rule) THEN vs ELSE ValidateAny(vs, rule.any, <<path>>, value)
           cel   == ValidateCel(ff, start, rule.exprs)
           found == SetFieldValue(AppendFieldPathElement(cel.vs, path, Len(start)),
                                  value, Len(start))
<1>1. \/ ValidatePresent(ff, vs, rule) \in {cel, Result(found, Ok)}
      \/ ~Collection(rule) /\ ValidatePresent(ff, vs, rule) = Result(start, rule.read)
  BY DEF ValidatePresent, Then, Result
<1>2. Grows(vs, start)
  BY AnyAdds, GrowsRefl
<1> HIDE DEF start
<1>3. Adds(start, cel)
  BY <1>2, ValidateCelAdds DEF Grows
<1> HIDE DEF cel, value, path
<1>4. Grows(start, AppendFieldPathElement(cel.vs, path, Len(start)))
  BY <1>3, LocatedGrows DEF Adds
<1>5. Grows(start, found)
  BY <1>4, LocatedGrows
<1>6. Adds(vs, Result(found, Ok)) /\ Adds(vs, cel)
  BY <1>2, <1>3, <1>5, AddsOk, AddsOn
<1>7. ~Collection(rule) => Adds(vs, Result(start, rule.read))
  BY <1>2 DEF Readable, Adds, Result
<1> QED
  BY <1>1, <1>6, <1>7

LEMMA FieldAdds ==
  ASSUME NEW ff, NEW vs, Sequence(vs), NEW rule, WellFormedExprs(rule.exprs), Readable(rule)
  PROVE  Adds(vs, ValidateField(ff, vs, rule))
<1>1. ValidateField(ff, vs, rule) \in
        {Result(vs, Ok), Result(Append(vs, Required(rule)), Ok), ValidatePresent(ff, vs, rule)}
  BY Zenon DEF ValidateField
<1>2. Adds(vs, Result(Append(vs, Required(rule)), Ok))
  BY AppendGrows, AddsOk
<1> QED
  BY <1>1, <1>2, AddsNothing, PresentAdds

LEMMA EnumAdds ==
  ASSUME NEW ff, NEW vs, Sequence(vs), NEW rule, WellFormedExprs(rule.exprs), Readable(rule)
  PROVE  Adds(vs, ValidateEnum(ff, vs, rule))
<1> DEFINE base == ValidateField(ff, vs, rule)
           undefined == Violation("enum.defined_only", <<Element(rule.field)>>,
                                  <<"defined_only", "enum">>,
                                  ProtoField(rule.msg, rule.field, Whole), "defined_only")
<1>1. ValidateEnum(ff, vs, rule)
        \in {base, Result(base.vs, Ok), Result(Append(base.vs, undefined), Ok)}
  BY DEF ValidateEnum, Then
<1>2. Adds(vs, base)
  BY FieldAdds
<1> HIDE DEF base, undefined
<1>3. Sequence(base.vs)
  BY <1>2 DEF Adds, Grows
<1>4. Adds(vs, Result(base.vs, Ok))
  BY <1>2, <1>3, AddsNothing, AddsOn DEF Adds
<1>5. Grows(vs, Append(base.vs, undefined))
  BY <1>2, <1>3, AppendGrows, GrowsTrans DEF Adds
<1>6. Adds(vs, Result(Append(base.vs, undefined), Ok))
  BY <1>5, AddsOk
<1> QED
  BY <1>1, <1>2, <1>4, <1>6
-----------------------------------------------------------------------------
(* RepeatedValidationRules.                                                *)

LEMMA ItemAdds ==
  ASSUME NEW ff, NEW vs, Sequence(vs), NEW rule, NEW i, WellFormedExprs(rule.items[i].exprs)
  PROVE  Adds(vs, ValidateItem(ff, vs, rule, i))
<1> DEFINE value == ProtoField(rule.msg, rule.field, <<i>>)
           cel == ValidateCel(ff, vs, rule.items[i].exprs)
           withAny == ValidateAny(cel.vs, rule.items[i].any, <<>>, value)
           At1(found) == AppendFieldPathElement(found, ItemElement(rule.field, <<i>>), Len(vs))
           Located(found) ==
             SetFieldValue(AppendRulePathElement(At1(found), <<"items", "repeated">>, Len(vs)),
                           value, Len(vs))
<1>1. ValidateItem(ff, vs, rule, i) \in
        {Result(Located(withAny), Ok), Result(Located(cel.vs), cel.status)}
  BY DEF ValidateItem
<1>2. Adds(vs, cel)
  BY ValidateCelAdds
<1> HIDE DEF cel, value
<1>3. Grows(vs, withAny)
  BY <1>2, AnyAdds, GrowsTrans DEF Adds, Grows
<1> HIDE DEF withAny
<1>4. ASSUME NEW found, Grows(vs, found) PROVE Grows(vs, Located(found))
  <2>1. Grows(vs, At1(found))
    BY <1>4, LocatedGrows
  <2> HIDE DEF At1
  <2>2. Grows(vs, AppendRulePathElement(At1(found), <<"items", "repeated">>, Len(vs)))
    BY <2>1, LocatedGrows
  <2> QED
    BY <2>2, LocatedGrows
<1> HIDE DEF Located
<1>5. Adds(vs, Result(Located(withAny), Ok)) /\ Adds(vs, Result(Located(cel.vs), cel.status))
  BY <1>2, <1>3, <1>4, OkIsStatus DEF Adds, Result
<1> QED
  BY <1>1, <1>5

ItemStep(ff, rule, acc, i) ==
  IF acc.stop \/ (rule.ignoreEmptyItems /\ rule.items[i].empty) THEN acc
  ELSE LET r == ValidateItem(ff, acc.vs, rule, i)
       IN  [vs |-> r.vs, status |-> r.status, stop |-> ShouldReturn(ff, r.vs, r.status)]

LEMMA ItemStepIs ==
  ASSUME NEW ff, NEW rule, NEW acc, NEW i
  PROVE  \/ ItemStep(ff, rule, acc, i) = acc
         \/ /\ ItemStep(ff, rule, acc, i).vs = ValidateItem(ff, acc.vs, rule, i).vs
            /\ ItemStep(ff, rule, acc, i).status = ValidateItem(ff, acc.vs, rule, i).status
  BY DEF ItemStep

ItemRuns(ff, vs, rule, seq, f, N) ==
  f = [n \in 0..N |-> IF n = 0 THEN Started(vs) ELSE ItemStep(ff, rule, f[n - 1], seq[n])]

LEMMA ItemRunsExists ==
  ASSUME NEW ff, NEW vs, NEW rule, NEW seq
  PROVE  \A N \in Nat : \E f : ItemRuns(ff, vs, rule, seq, f, N)
<1> DEFINE T == {N \in Nat : \E f : ItemRuns(ff, vs, rule, seq, f, N)}
<1>1. 0 \in T
  <2> DEFINE f == [n \in 0..0 |-> Started(vs)]
  <2>1. f = [n \in 0..0 |-> IF n = 0 THEN Started(vs) ELSE ItemStep(ff, rule, f[n - 1], seq[n])]
    OBVIOUS
  <2> QED
    BY <2>1 DEF ItemRuns
<1>2. ASSUME NEW N \in Nat, N \in T PROVE N + 1 \in T
  <2>1. PICK f : ItemRuns(ff, vs, rule, seq, f, N)
    BY <1>2
  <2> DEFINE g == [n \in 0..(N + 1) |->
                     IF n = N + 1 THEN ItemStep(ff, rule, f[N], seq[N + 1]) ELSE f[n]]
  <2>2. ASSUME NEW n \in 0..(N + 1)
        PROVE  g[n] = IF n = 0 THEN Started(vs) ELSE ItemStep(ff, rule, g[n - 1], seq[n])
    <3>1. CASE n = N + 1
      BY <3>1
    <3>2. CASE n \in 0..N
      <4>1. f[n] = IF n = 0 THEN Started(vs) ELSE ItemStep(ff, rule, f[n - 1], seq[n])
        BY <2>1, <3>2, Zenon DEF ItemRuns
      <4>2. g[n] = f[n] /\ (n # 0 => g[n - 1] = f[n - 1])
        BY <3>2
      <4> HIDE DEF g
      <4> QED
        BY <4>1, <4>2
    <3> QED
      BY <3>1, <3>2
  <2>3. g = [n \in 0..(N + 1) |-> g[n]]
    OBVIOUS
  <2> HIDE DEF g
  <2>4. ItemRuns(ff, vs, rule, seq, g, N + 1)
    BY <2>2, <2>3 DEF ItemRuns
  <2> QED
    BY <2>4
<1> HIDE DEF T
<1>3. Nat \subseteq T
  BY <1>1, <1>2, Induction
<1> QED
  BY <1>3 DEF T

LEMMA IndicesOf ==
  ASSUME NEW seq, Sequence(seq)
  PROVE  /\ Len(Indices(seq)) = Len(seq) /\ Len(seq) \in Nat
         /\ \A n \in 1..Len(seq) : Indices(seq)[n] = n
  BY SequenceLen DEF Indices

LEMMA RepeatedAdds ==
  ASSUME NEW ff, NEW vs, Sequence(vs), NEW rule, WellFormedExprs(rule.exprs), Readable(rule),
         Sequence(rule.items), \A i \in 1..Len(rule.items) : WellFormedExprs(rule.items[i].exprs)
  PROVE  Adds(vs, ValidateRepeated(ff, vs, rule))
<1> DEFINE base == ValidateField(ff, vs, rule)
           N == Len(Indices(rule.items))
           f == CHOOSE h : ItemRuns(ff, base.vs, rule, Indices(rule.items), h, N)
           loop == Result(f[N].vs, IF f[N].stop THEN f[N].status ELSE Ok)
<1>1. ValidateRepeated(ff, vs, rule) \in {base, Result(base.vs, Ok), loop}
  BY DEF ValidateRepeated, Then, Loop, ItemRuns, ItemStep, Started
<1>2. N \in Nat /\ N = Len(rule.items) /\ \A n \in 1..N : Indices(rule.items)[n] = n
  BY IndicesOf
<1> HIDE DEF N
<1>3. Adds(vs, base) /\ Sequence(base.vs)
  BY FieldAdds DEF Adds, Grows
<1> HIDE DEF base
<1>4. ItemRuns(ff, base.vs, rule, Indices(rule.items), f, N)
  BY <1>2, ItemRunsExists
<1> HIDE DEF f
<1>5. /\ f[0] = Started(base.vs)
      /\ \A n \in 1..N : f[n] = ItemStep(ff, rule, f[n - 1], Indices(rule.items)[n])
  <2>1. ASSUME NEW n \in 0..N
        PROVE  f[n] = IF n = 0 THEN Started(base.vs)
                      ELSE ItemStep(ff, rule, f[n - 1], Indices(rule.items)[n])
    BY <1>4, Zenon DEF ItemRuns
  <2>2. 0 \in 0..N /\ \A n \in 1..N : n \in 0..N /\ n # 0
    BY <1>2
  <2> QED
    BY <2>1, <2>2
<1>6. ASSUME NEW n \in 1..N, Sequence(f[n - 1].vs), f[n - 1].status \in Statuses
      PROVE  Grows(f[n - 1].vs, f[n].vs) /\ f[n].status \in Statuses
  <2>1. Adds(f[n - 1].vs, ValidateItem(ff, f[n - 1].vs, rule, n))
    BY <1>2, <1>6, ItemAdds
  <2>2. Grows(f[n - 1].vs, f[n - 1].vs)
    BY <1>6, GrowsRefl
  <2>3. f[n] = ItemStep(ff, rule, f[n - 1], n)
    BY <1>2, <1>5
  <2> QED
    BY <1>6, <2>1, <2>2, <2>3, ItemStepIs DEF Adds
<1>7. Adds(base.vs, loop)
  BY <1>2, <1>3, <1>5, <1>6, LoopAdds
<1> HIDE DEF loop
<1>8. Adds(vs, loop) /\ Adds(vs, Result(base.vs, Ok))
  BY <1>3, <1>7, AddsNothing, AddsOn DEF Adds
<1> QED
  BY <1>1, <1>3, <1>8
-----------------------------------------------------------------------------
(* MapValidationRules.                                                     *)

LEMMA KeyAdds ==
  ASSUME NEW ff, NEW vs, Sequence(vs), NEW rule, NEW entry, WellFormedExprs(entry.key.exprs)
  PROVE  Adds(vs, ValidateKey(ff, vs, rule, entry))
<1> DEFINE value == EntryField(rule.msg, rule.field, entry.name, "key")
           cel == ValidateCel(ff, vs, entry.key.exprs)
           pathed == AppendRulePathElement(cel.vs, <<"keys", "map">>, Len(vs))
           valued == SetFieldValue(pathed, value, Len(vs))
           keyed  == SetForKey(valued, Len(vs))
<1>1. ValidateKey(ff, vs, rule, entry) \in {Result(vs, Ok), cel, Result(keyed, Ok)}
  BY DEF ValidateKey, Then
<1>2. Adds(vs, cel)
  BY ValidateCelAdds
<1> HIDE DEF cel, value
<1>3. Grows(vs, pathed)
  BY <1>2, LocatedGrows DEF Adds
<1> HIDE DEF pathed
<1>4. Grows(vs, valued)
  BY <1>3, LocatedGrows
<1> HIDE DEF valued
<1>5. Grows(vs, keyed)
  BY <1>4, LocatedGrows
<1>6. Adds(vs, Result(keyed, Ok))
  BY <1>5, AddsOk
<1> QED
  BY <1>1, <1>2, <1>6, AddsNothing

\* The value's rules may also touch the key's violations, from pos on, but none
\* from before the entry.
LEMMA ValueAdds ==
  ASSUME NEW ff, NEW vs, NEW key, Grows(vs, key), NEW rule, NEW entry,
         WellFormedExprs(entry.value.exprs)
  PROVE  Adds(vs, ValidateValue(ff, key, rule, entry, Len(vs)))
<1> DEFINE value == EntryField(rule.msg, rule.field, entry.name, "value")
           cel == ValidateCel(ff, key, entry.value.exprs)
           pathed == AppendRulePathElement(cel.vs, <<"values", "map">>, Len(key))
           valued == SetFieldValue(pathed, value, Len(vs))
<1>1. ValidateValue(ff, key, rule, entry, Len(vs)) \in
        {Result(key, Ok), cel, Result(cel.vs, Ok), Result(valued, Ok)}
  BY DEF ValidateValue, Then
<1>2. Adds(key, cel)
  BY ValidateCelAdds DEF Grows
<1> HIDE DEF cel, value
<1>3. Grows(key, pathed)
  BY <1>2, LocatedGrows DEF Adds
<1> HIDE DEF pathed
<1>4. Grows(vs, pathed)
  BY <1>3, GrowsTrans
<1>5. Grows(vs, valued)
  BY <1>4, LocatedGrows
<1> HIDE DEF valued
<1>6. Grows(vs, cel.vs) /\ Adds(vs, cel)
  BY <1>2, AddsOn DEF Adds
<1>7. Adds(vs, Result(key, Ok)) /\ Adds(vs, Result(cel.vs, Ok)) /\ Adds(vs, Result(valued, Ok))
  BY <1>5, <1>6, AddsOk
<1> QED
  BY <1>1, <1>6, <1>7

LEMMA EntryAdds ==
  ASSUME NEW ff, NEW vs, Sequence(vs), NEW rule, NEW i,
         WellFormedExprs(rule.entries[i].key.exprs), WellFormedExprs(rule.entries[i].value.exprs)
  PROVE  Adds(vs, ValidateEntry(ff, vs, rule, i))
<1> DEFINE entry == rule.entries[i]
           key   == ValidateKey(ff, vs, rule, entry)
           value == ValidateValue(ff, key.vs, rule, entry, Len(vs))
           named == AppendFieldPathElement(value.vs, ItemElement(rule.field, <<entry.name>>), Len(vs))
<1>1. ValidateEntry(ff, vs, rule, i) \in {key, value, Result(named, Ok)}
  BY DEF ValidateEntry, Then
<1>2. Adds(vs, key)
  BY KeyAdds
<1> HIDE DEF key
<1>3. Adds(vs, value)
  BY <1>2, ValueAdds DEF Adds
<1> HIDE DEF value
<1>4. Grows(vs, named)
  BY <1>3, LocatedGrows DEF Adds
<1>5. Adds(vs, Result(named, Ok))
  BY <1>4, AddsOk
<1> QED
  BY <1>1, <1>2, <1>3, <1>5

EntryStep(ff, rule, acc, i) ==
  IF acc.stop \/ FALSE THEN acc
  ELSE LET r == ValidateEntry(ff, acc.vs, rule, i)
       IN  [vs |-> r.vs, status |-> r.status,
            stop |-> r.status # Ok \/ (ff /\ Len(r.vs) > Len(acc.vs))]

LEMMA EntryStepIs ==
  ASSUME NEW ff, NEW rule, NEW acc, NEW i
  PROVE  \/ EntryStep(ff, rule, acc, i) = acc
         \/ /\ EntryStep(ff, rule, acc, i).vs = ValidateEntry(ff, acc.vs, rule, i).vs
            /\ EntryStep(ff, rule, acc, i).status = ValidateEntry(ff, acc.vs, rule, i).status
  BY DEF EntryStep

EntryRuns(ff, vs, rule, seq, f, N) ==
  f = [n \in 0..N |-> IF n = 0 THEN Started(vs) ELSE EntryStep(ff, rule, f[n - 1], seq[n])]

LEMMA EntryRunsExists ==
  ASSUME NEW ff, NEW vs, NEW rule, NEW seq
  PROVE  \A N \in Nat : \E f : EntryRuns(ff, vs, rule, seq, f, N)
<1> DEFINE T == {N \in Nat : \E f : EntryRuns(ff, vs, rule, seq, f, N)}
<1>1. 0 \in T
  <2> DEFINE f == [n \in 0..0 |-> Started(vs)]
  <2>1. f = [n \in 0..0 |-> IF n = 0 THEN Started(vs) ELSE EntryStep(ff, rule, f[n - 1], seq[n])]
    OBVIOUS
  <2> QED
    BY <2>1 DEF EntryRuns
<1>2. ASSUME NEW N \in Nat, N \in T PROVE N + 1 \in T
  <2>1. PICK f : EntryRuns(ff, vs, rule, seq, f, N)
    BY <1>2
  <2> DEFINE g == [n \in 0..(N + 1) |->
                     IF n = N + 1 THEN EntryStep(ff, rule, f[N], seq[N + 1]) ELSE f[n]]
  <2>2. ASSUME NEW n \in 0..(N + 1)
        PROVE  g[n] = IF n = 0 THEN Started(vs) ELSE EntryStep(ff, rule, g[n - 1], seq[n])
    <3>1. CASE n = N + 1
      BY <3>1
    <3>2. CASE n \in 0..N
      <4>1. f[n] = IF n = 0 THEN Started(vs) ELSE EntryStep(ff, rule, f[n - 1], seq[n])
        BY <2>1, <3>2, Zenon DEF EntryRuns
      <4>2. g[n] = f[n] /\ (n # 0 => g[n - 1] = f[n - 1])
        BY <3>2
      <4> HIDE DEF g
      <4> QED
        BY <4>1, <4>2
    <3> QED
      BY <3>1, <3>2
  <2>3. g = [n \in 0..(N + 1) |-> g[n]]
    OBVIOUS
  <2> HIDE DEF g
  <2>4. EntryRuns(ff, vs, rule, seq, g, N + 1)
    BY <2>2, <2>3 DEF EntryRuns
  <2> QED
    BY <2>4
<1> HIDE DEF T
<1>3. Nat \subseteq T
  BY <1>1, <1>2, Induction
<1> QED
  BY <1>3 DEF T

LEMMA MapAdds ==
  ASSUME NEW ff, NEW vs, Sequence(vs), NEW rule, WellFormedExprs(rule.exprs), Readable(rule),
         rule.keys \in Statuses, Sequence(rule.entries),
         \A i \in 1..Len(rule.entries) : /\ WellFormedExprs(rule.entries[i].key.exprs)
                                         /\ WellFormedExprs(rule.entries[i].value.exprs)
  PROVE  Adds(vs, ValidateMap(ff, vs, rule))
<1> DEFINE base == ValidateField(ff, vs, rule)
           N == Len(Indices(rule.entries))
           f == CHOOSE h : EntryRuns(ff, base.vs, rule, Indices(rule.entries), h, N)
           loop == Result(f[N].vs, IF f[N].stop THEN f[N].status ELSE Ok)
<1>1. ValidateMap(ff, vs, rule) \in {base, Result(base.vs, Ok), Result(base.vs, rule.keys), loop}
  BY DEF ValidateMap, ValidateEntries, Then, Result, Loop, EntryRuns, EntryStep, Started
<1>2. N \in Nat /\ N = Len(rule.entries) /\ \A n \in 1..N : Indices(rule.entries)[n] = n
  BY IndicesOf
<1> HIDE DEF N
<1>3. Adds(vs, base) /\ Sequence(base.vs)
  BY FieldAdds DEF Adds, Grows
<1> HIDE DEF base
<1>4. EntryRuns(ff, base.vs, rule, Indices(rule.entries), f, N)
  BY <1>2, EntryRunsExists
<1> HIDE DEF f
<1>5. /\ f[0] = Started(base.vs)
      /\ \A n \in 1..N : f[n] = EntryStep(ff, rule, f[n - 1], Indices(rule.entries)[n])
  <2>1. ASSUME NEW n \in 0..N
        PROVE  f[n] = IF n = 0 THEN Started(base.vs)
                      ELSE EntryStep(ff, rule, f[n - 1], Indices(rule.entries)[n])
    BY <1>4, Zenon DEF EntryRuns
  <2>2. 0 \in 0..N /\ \A n \in 1..N : n \in 0..N /\ n # 0
    BY <1>2
  <2> QED
    BY <2>1, <2>2
<1>6. ASSUME NEW n \in 1..N, Sequence(f[n - 1].vs), f[n - 1].status \in Statuses
      PROVE  Grows(f[n - 1].vs, f[n].vs) /\ f[n].status \in Statuses
  <2>1. Adds(f[n - 1].vs, ValidateEntry(ff, f[n - 1].vs, rule, n))
    BY <1>2, <1>6, EntryAdds
  <2>2. Grows(f[n - 1].vs, f[n - 1].vs)
    BY <1>6, GrowsRefl
  <2>3. f[n] = EntryStep(ff, rule, f[n - 1], n)
    BY <1>2, <1>5
  <2> QED
    BY <1>6, <2>1, <2>2, <2>3, EntryStepIs DEF Adds
<1>7. Adds(base.vs, loop)
  BY <1>2, <1>3, <1>5, <1>6, LoopAdds
<1> HIDE DEF loop
<1>8. Adds(vs, loop) /\ Adds(vs, Result(base.vs, Ok)) /\ Adds(vs, Result(base.vs, rule.keys))
  BY <1>3, <1>7, AddsOk, AddsOn DEF Adds, Result
<1> QED
  BY <1>1, <1>3, <1>8
-----------------------------------------------------------------------------
(* Validate, for any rule object NewMessageRules makes.                    *)

WellFormedRule(rule) ==
  /\ rule.kind \in {"message", "field", "enum", "repeated", "map", "oneof", "message_oneof"}
  /\ rule.kind \notin {"oneof", "message_oneof"} => WellFormedExprs(rule.exprs)
  /\ rule.kind \notin {"message", "oneof", "message_oneof"} => Readable(rule)
  /\ rule.kind = "repeated" =>
       /\ Sequence(rule.items)
       /\ \A i \in 1..Len(rule.items) : WellFormedExprs(rule.items[i].exprs)
  /\ rule.kind = "map" =>
       /\ rule.keys \in Statuses
       /\ Sequence(rule.entries)
       /\ \A i \in 1..Len(rule.entries) : /\ WellFormedExprs(rule.entries[i].key.exprs)
                                          /\ WellFormedExprs(rule.entries[i].value.exprs)

LEMMA ValidateAdds ==
  ASSUME NEW ff, NEW vs, Sequence(vs), NEW rule, WellFormedRule(rule)
  PROVE  Adds(vs, Validate(ff, vs, rule))
<1>1. CASE rule.kind = "message"
  <2>1. Validate(ff, vs, rule) = ValidateCel(ff, vs, rule.exprs)
    BY <1>1 DEF Validate, ValidateMessageCel
  <2> QED
    BY <1>1, <2>1, ValidateCelAdds DEF WellFormedRule
<1>2. CASE rule.kind = "field"
  <2>1. Validate(ff, vs, rule) = ValidateField(ff, vs, rule)
    BY <1>2 DEF Validate
  <2> QED
    BY <1>2, <2>1, FieldAdds DEF WellFormedRule
<1>3. CASE rule.kind = "enum"
  <2>1. Validate(ff, vs, rule) = ValidateEnum(ff, vs, rule)
    BY <1>3 DEF Validate
  <2> QED
    BY <1>3, <2>1, EnumAdds DEF WellFormedRule
<1>4. CASE rule.kind = "repeated"
  <2>1. Validate(ff, vs, rule) = ValidateRepeated(ff, vs, rule)
    BY <1>4 DEF Validate
  <2> QED
    BY <1>4, <2>1, RepeatedAdds DEF WellFormedRule
<1>5. CASE rule.kind = "map"
  <2>1. Validate(ff, vs, rule) = ValidateMap(ff, vs, rule)
    BY <1>5 DEF Validate
  <2> QED
    BY <1>5, <2>1, MapAdds DEF WellFormedRule
<1>6. CASE rule.kind = "oneof"
  <2> DEFINE v == Violation("required", <<Element(rule.field)>>, <<>>, NoValue, NoField)
  <2>1. Validate(ff, vs, rule) = ValidateOneof(vs, rule)
    BY <1>6 DEF Validate
  <2>2. ValidateOneof(vs, rule) \in {Result(vs, Ok), Result(Append(vs, v), Ok)}
    BY DEF ValidateOneof
  <2> HIDE DEF v
  <2>3. Adds(vs, Result(Append(vs, v), Ok))
    BY AppendGrows, AddsOk
  <2> QED
    BY <2>1, <2>2, <2>3, AddsNothing
<1>7. CASE rule.kind = "message_oneof"
  <2> DEFINE v == Violation("message.oneof", <<>>, <<>>, NoValue, NoField)
  <2>1. Validate(ff, vs, rule) = ValidateMessageOneof(vs, rule)
    BY <1>7 DEF Validate
  <2>2. ValidateMessageOneof(vs, rule) \in {Result(vs, Ok), Result(Append(vs, v), Ok)}
    BY DEF ValidateMessageOneof
  <2> HIDE DEF v
  <2>3. Adds(vs, Result(Append(vs, v), Ok))
    BY AppendGrows, AddsOk
  <2> QED
    BY <2>1, <2>2, <2>3, AddsNothing
<1> QED
  BY <1>1, <1>2, <1>3, <1>4, <1>5, <1>6, <1>7 DEF WellFormedRule
-----------------------------------------------------------------------------
(* The walk.  `all` is a set of messages that has those that may be        *)
(* validated and with each message the ones in its fields: messages of any *)
(* depth, whose rules and fields are sequences and whose types compile or  *)
(* fail with one of the statuses there are.                                *)
MessageTrees(all) ==
  /\ Messages \subseteq all
  /\ \A m \in all :
       /\ m.load \in Statuses
       /\ Sequence(m.rules) /\ \A i \in 1..Len(m.rules) : WellFormedRule(m.rules[i])
       /\ Sequence(m.fields)
       /\ \A i \in 1..Len(m.fields) :
            /\ Sequence(m.fields[i].elems)
            /\ \A e \in 1..Len(m.fields[i].elems) : m.fields[i].elems[e].message \in all

Frame(all) == [message: all, rule: Nat, field: Nat, elem: Nat \ {0}, pos: Nat]

\* A stack is well placed among n violations.
Placed(all, stack, n) ==
  /\ stack \in Seq(Frame(all))
  /\ \A i \in 1..Len(stack) :
       /\ stack[i].pos <= n
       /\ stack[i].rule \in 1..(Len(stack[i].message.rules) + 1)
       /\ stack[i].field \in 1..(Len(stack[i].message.fields) + 1)
       /\ i > 1 => stack[i].pos >= stack[i - 1].pos

\* The inductive invariant.  The last part is what makes failFast stop: where
\* the walk may still go on, nothing has been found.
WalkInv(all) ==
  /\ failFast \in BOOLEAN
  /\ pc \in {"enter", "rules", "fields", "return", "done"}
  /\ status \in Statuses
  /\ Sequence(violations)
  /\ Placed(all, frames, Len(violations))
  /\ (frames = <<>>) <=> Done
  /\ failFast /\ violations # <<>> => pc \in {"return", "done"}

LEMMA PlacedGrows ==
  ASSUME NEW all, NEW stack, NEW n \in Nat, NEW m \in Nat, n <= m, Placed(all, stack, n)
  PROVE  Placed(all, stack, m)
<1>1. ASSUME NEW i \in 1..Len(stack) PROVE stack[i].pos \in Nat
  <2>1. stack[i] \in Frame(all)
    BY ElementOfSeq DEF Placed
  <2> QED
    BY <2>1 DEF Frame
<1> QED
  BY <1>1 DEF Placed

\* A step changes the counters of the frame on top only.
LEMMA PlacedTop ==
  ASSUME NEW all, NEW stack, NEW n \in Nat, Placed(all, stack, n), stack # <<>>,
         NEW top \in Frame(all),
         top.pos = stack[Len(stack)].pos,
         top.rule \in 1..(Len(top.message.rules) + 1),
         top.field \in 1..(Len(top.message.fields) + 1)
  PROVE  /\ Placed(all, [stack EXCEPT ![Len(stack)] = top], n)
         /\ [stack EXCEPT ![Len(stack)] = top] # <<>>
<1> DEFINE new == [stack EXCEPT ![Len(stack)] = top]
<1>1. Len(stack) \in Nat /\ Len(stack) \in 1..Len(stack)
  BY DEF Placed
<1>2. /\ new \in Seq(Frame(all)) /\ Len(new) = Len(stack)
      /\ \A i \in 1..Len(stack) : new[i] = IF i = Len(stack) THEN top ELSE stack[i]
  BY <1>1, ExceptSeq DEF Placed
<1> HIDE DEF new
<1>3. \A i \in 1..Len(stack) : new[i].pos = stack[i].pos
  BY <1>2
<1>4. ASSUME NEW i \in 1..Len(stack), i > 1 PROVE new[i].pos >= new[i - 1].pos
  <2>1. i - 1 \in 1..Len(stack)
    BY <1>1, <1>4
  <2> QED
    BY <1>3, <1>4, <2>1 DEF Placed
<1>5. Placed(all, new, n)
  BY <1>2, <1>3, <1>4 DEF Placed
<1> QED
  BY <1>1, <1>2, <1>5 DEF new

\* A call puts a frame on top, where the violations end.
LEMMA PlacedCall ==
  ASSUME NEW all, MessageTrees(all), NEW stack, NEW n \in Nat, Placed(all, stack, n),
         NEW m \in all
  PROVE  /\ Placed(all, Append(stack, Activation(m, n)), n)
         /\ Append(stack, Activation(m, n)) # <<>>
<1> DEFINE top == Activation(m, n)
           new == Append(stack, top)
<1>1. Len(m.rules) \in Nat /\ Len(m.fields) \in Nat
  BY SequenceLen DEF MessageTrees
<1>2. /\ top \in Frame(all)
      /\ top.pos = n /\ top.rule \in 1..(Len(top.message.rules) + 1)
      /\ top.field \in 1..(Len(top.message.fields) + 1)
  BY <1>1 DEF Activation, Frame
<1> HIDE DEF top
<1>3. /\ new \in Seq(Frame(all)) /\ new # <<>> /\ Len(new) = Len(stack) + 1
      /\ \A i \in 1..Len(stack) : new[i] = stack[i]
      /\ new[Len(stack) + 1] = top
  BY <1>2, AppendProperties DEF Placed
<1> HIDE DEF new
<1>4. Len(stack) \in Nat
  BY DEF Placed
<1>5. ASSUME NEW i \in 1..Len(new)
      PROVE  /\ new[i].pos <= n
             /\ new[i].rule \in 1..(Len(new[i].message.rules) + 1)
             /\ new[i].field \in 1..(Len(new[i].message.fields) + 1)
             /\ i > 1 => new[i].pos >= new[i - 1].pos
  <2>1. CASE i <= Len(stack)
    <3>1. i \in 1..Len(stack) /\ (i > 1 => i - 1 \in 1..Len(stack))
      BY <1>4, <2>1
    <3> QED
      BY <1>3, <3>1 DEF Placed
  <2>2. CASE i = Len(stack) + 1
    <3>1. i > 1 => i - 1 \in 1..Len(stack) /\ new[i - 1] = stack[i - 1]
      BY <1>3, <1>4, <2>2
    <3> QED
      BY <1>2, <1>3, <2>2, <3>1 DEF Placed
  <2> QED
    BY <1>3, <1>4, <2>1, <2>2
<1> QED
  BY <1>3, <1>5 DEF Placed, new, top

\* A return takes the frame on top away.
LEMMA PlacedReturn ==
  ASSUME NEW all, NEW stack, NEW n \in Nat, Placed(all, stack, n), Len(stack) > 1
  PROVE  /\ Placed(all, Front(stack), n) /\ Front(stack) # <<>>
         /\ Len(Front(stack)) = Len(stack) - 1
         /\ \A i \in 1..(Len(stack) - 1) : Front(stack)[i] = stack[i]
<1> DEFINE new == SubSeq(stack, 1, Len(stack) - 1)
<1>1. Len(stack) \in Nat
  BY DEF Placed
<1>2. \A i \in 1..(Len(stack) - 1) : stack[i] \in Frame(all)
  <2>1. ASSUME NEW i \in 1..(Len(stack) - 1) PROVE stack[i] \in Frame(all)
    BY <1>1, ElementOfSeq DEF Placed
  <2> QED
    BY <2>1
<1>3. /\ new \in Seq(Frame(all)) /\ Len(new) = Len(stack) - 1
      /\ \A i \in 1..(Len(stack) - 1) : new[i] = stack[i]
  <2>1. /\ new \in Seq(Frame(all))
        /\ Len(new) = IF 1 <= Len(stack) - 1 THEN Len(stack) - 1 - 1 + 1 ELSE 0
        /\ \A i \in 1..(Len(stack) - 1 - 1 + 1) : new[i] = stack[1 + i - 1]
    BY <1>1, <1>2, SubSeqProperties DEF Placed
  <2> HIDE DEF new
  <2> QED
    BY <1>1, <2>1
<1> HIDE DEF new
<1>4. \A i \in 1..Len(new) : i \in 1..Len(stack) /\ (i > 1 => i - 1 \in 1..(Len(stack) - 1))
  BY <1>1, <1>3
<1>5. Placed(all, new, n)
  BY <1>1, <1>3, <1>4 DEF Placed
<1>6. new # <<>>
  BY <1>1, <1>3
<1> QED
  BY <1>3, <1>5, <1>6 DEF new, Front

\* The frame on top and its message.
LEMMA OnTop ==
  ASSUME NEW all, MessageTrees(all), NEW stack, NEW n, Placed(all, stack, n), stack # <<>>
  PROVE  LET top == stack[Len(stack)] IN
         /\ Len(stack) \in Nat /\ Len(stack) \in 1..Len(stack)
         /\ top \in Frame(all) /\ top.message \in all
         /\ top.message.load \in Statuses
         /\ Len(top.message.rules) \in Nat /\ Len(top.message.fields) \in Nat
         /\ \A i \in 1..Len(top.message.rules) : WellFormedRule(top.message.rules[i])
         /\ top.rule \in 1..(Len(top.message.rules) + 1)
         /\ top.field \in 1..(Len(top.message.fields) + 1)
<1>1. Len(stack) \in Nat /\ Len(stack) \in 1..Len(stack)
  BY DEF Placed
<1>2. stack[Len(stack)] \in Frame(all)
  BY <1>1, ElementOfSeq DEF Placed
<1>3. stack[Len(stack)].message \in all
  BY <1>2 DEF Frame
<1>4. /\ Len(stack[Len(stack)].message.rules) \in Nat
      /\ Len(stack[Len(stack)].message.fields) \in Nat
  BY <1>3, SequenceLen DEF MessageTrees
<1> QED
  BY <1>1, <1>2, <1>3, <1>4 DEF Placed, MessageTrees

LEMMA WalkStarts ==
  ASSUME NEW all, MessageTrees(all), Init
  PROVE  WalkInv(all)
<1>1. root \in all
  BY DEF Init, MessageTrees
<1>2. Sequence(violations) /\ Len(violations) = 0
  BY DEF Init, Sequence
<1>3. Placed(all, <<>>, 0)
  BY DEF Placed
<1>4. Append(<<>>, Activation(root, 0)) = <<Activation(root, 0)>>
  OBVIOUS
<1>5. Placed(all, frames, 0) /\ frames # <<>>
  BY <1>1, <1>3, <1>4, PlacedCall DEF Init
<1> QED
  BY <1>2, <1>5 DEF Init, WalkInv, Statuses, Done

\* Each action keeps the invariant.
LEMMA WalkSteps ==
  ASSUME NEW all, MessageTrees(all), WalkInv(all), [Next]_vars
  PROVE  WalkInv(all)'
<1>0. Len(violations) \in Nat
  BY SequenceLen DEF WalkInv
<1>1. CASE EnterMessage
  <2>1. frames # <<>>
    BY <1>1 DEF EnterMessage, WalkInv, Done
  <2>2. Top.message.load \in Statuses
    BY <2>1, OnTop DEF WalkInv, Top
  <2> QED
    BY <1>1, <2>1, <2>2 DEF EnterMessage, Return, WalkInv, Done
<1>2. CASE RunRule
  <2>1. frames # <<>>
    BY <1>2 DEF RunRule, WalkInv, Done
  <2>2. /\ Top \in Frame(all) /\ Top.rule \in 1..Len(Top.message.rules)
        /\ Top.field \in 1..(Len(Top.message.fields) + 1)
        /\ WellFormedRule(Top.message.rules[Top.rule])
        /\ Len(Top.message.rules) \in Nat
    BY <1>2, <2>1, OnTop DEF WalkInv, Top, RunRule
  <2> DEFINE r == Validate(failFast, violations, Top.message.rules[Top.rule])
  <2>3. Adds(violations, r)
    BY <2>2, ValidateAdds DEF WalkInv
  <2>4. /\ violations' = r.vs
        /\ IF ShouldReturn(failFast, r.vs, r.status)
             THEN Return(r.status) /\ UNCHANGED frames
             ELSE frames' = Advance([Top EXCEPT !.rule = @ + 1]) /\ UNCHANGED <<pc, status>>
        /\ UNCHANGED <<root, failFast>>
    BY <1>2 DEF RunRule
  <2> HIDE DEF r
  <2>5. /\ Sequence(violations') /\ Len(violations') \in Nat
        /\ Len(violations) <= Len(violations')
    BY <2>3, <2>4, SequenceLen DEF Adds, Grows
  <2>6. Placed(all, frames, Len(violations'))
    BY <1>0, <2>5, PlacedGrows DEF WalkInv
  <2>7. CASE ShouldReturn(failFast, r.vs, r.status)
    BY <1>2, <2>1, <2>3, <2>4, <2>5, <2>6, <2>7 DEF Return, Adds, WalkInv, Statuses, Done
  <2>8. CASE ~ShouldReturn(failFast, r.vs, r.status)
    <3> DEFINE top == [Top EXCEPT !.rule = @ + 1]
    <3>1. /\ top \in Frame(all) /\ top.pos = Top.pos
          /\ top.rule \in 1..(Len(top.message.rules) + 1)
          /\ top.field \in 1..(Len(top.message.fields) + 1)
      <4>1. /\ top.message = Top.message /\ top.rule = Top.rule + 1
            /\ top.field = Top.field /\ top.elem = Top.elem /\ top.pos = Top.pos
        BY <2>2 DEF Frame
      <4>2. top \in Frame(all)
        BY <2>2 DEF Frame
      <4> HIDE DEF top
      <4>3. Top.rule + 1 \in 1..(Len(Top.message.rules) + 1)
        BY <2>2
      <4>4. top.rule \in 1..(Len(top.message.rules) + 1)
        BY <4>1, <4>3
      <4> QED
        BY <2>2, <4>1, <4>2, <4>4
    <3> HIDE DEF top
    <3>2. Placed(all, [frames EXCEPT ![Len(frames)] = top], Len(violations'))
          /\ [frames EXCEPT ![Len(frames)] = top] # <<>>
      BY <2>1, <2>5, <2>6, <3>1, PlacedTop DEF Top
    <3>3. frames' = [frames EXCEPT ![Len(frames)] = top]
      BY <2>4, <2>8 DEF Advance, top
    <3>4. Placed(all, frames', Len(violations')) /\ frames' # <<>>
      BY <3>2, <3>3
    <3> QED
      BY <1>2, <2>4, <2>5, <2>8, <3>4 DEF ShouldReturn, RunRule, WalkInv, Done
  <2> QED
    BY <2>7, <2>8
<1>3. CASE RulesDone
  BY <1>3 DEF RulesDone, WalkInv, Done
<1>4. CASE NextField
  <2>1. frames # <<>>
    BY <1>4 DEF NextField, WalkInv, Done
  <2>2. /\ Top \in Frame(all) /\ Top.field \in 1..Len(Top.message.fields)
        /\ Top.rule \in 1..(Len(Top.message.rules) + 1)
        /\ Len(Top.message.fields) \in Nat
    BY <1>4, <2>1, OnTop DEF WalkInv, Top, NextField
  <2> DEFINE top == [Top EXCEPT !.field = @ + 1, !.elem = 1]
  <2>3. /\ top \in Frame(all) /\ top.pos = Top.pos
        /\ top.rule \in 1..(Len(top.message.rules) + 1)
        /\ top.field \in 1..(Len(top.message.fields) + 1)
    <3>1. /\ top.message = Top.message /\ top.rule = Top.rule
          /\ top.field = Top.field + 1 /\ top.elem = 1 /\ top.pos = Top.pos
      BY <2>2 DEF Frame
    <3>2. top \in Frame(all)
      <4>1. /\ Top.message \in all /\ Top.rule \in Nat /\ Top.field + 1 \in Nat
            /\ Top.pos \in Nat /\ 1 \in Nat \ {0}
        BY <2>2 DEF Frame
      <4>2. top = [message |-> Top.message, rule |-> Top.rule, field |-> Top.field + 1,
                   elem |-> 1, pos |-> Top.pos]
        <5> DEFINE old == Top
        <5> HIDE DEF old
        <5>1. old \in Frame(all) /\ top = [[old EXCEPT !.field = old.field + 1] EXCEPT !.elem = 1]
          BY <2>2 DEF old
        <5>2. [old EXCEPT !.field = old.field + 1]
                = [message |-> old.message, rule |-> old.rule, field |-> old.field + 1,
                   elem |-> old.elem, pos |-> old.pos]
          BY <5>1 DEF Frame
        <5> HIDE DEF top
        <5>3. top = [message |-> old.message, rule |-> old.rule, field |-> old.field + 1,
                     elem |-> 1, pos |-> old.pos]
          BY <5>1, <5>2
        <5> QED
          BY <5>3 DEF old
      <4> QED
        BY <4>1, <4>2 DEF Frame
    <3> HIDE DEF top
    <3>3. Top.field + 1 \in 1..(Len(Top.message.fields) + 1)
      BY <2>2
    <3>4. top.field \in 1..(Len(top.message.fields) + 1)
      BY <3>1, <3>3
    <3> QED
      BY <2>2, <3>1, <3>2, <3>4
  <2>4. frames' = [frames EXCEPT ![Len(frames)] = top]
    BY <1>4 DEF NextField, Advance
  <2> HIDE DEF top
  <2>5. Placed(all, frames', Len(violations)) /\ frames' # <<>>
    BY <1>0, <2>1, <2>3, <2>4, PlacedTop DEF WalkInv, Top
  <2> QED
    BY <1>4, <2>5 DEF NextField, WalkInv, Done
<1>5. CASE Descend
  <2>1. frames # <<>>
    BY <1>5 DEF Descend, WalkInv, Done
  <2>2. /\ Top \in Frame(all) /\ Top.message \in all
        /\ Top.field \in 1..Len(Top.message.fields)
    BY <1>5, <2>1, OnTop DEF WalkInv, Top, Descend
  <2>3. Field.elems[Top.elem].message \in all
    <3>1. /\ Sequence(Field.elems)
          /\ \A e \in 1..Len(Field.elems) : Field.elems[e].message \in all
      BY <2>2 DEF MessageTrees, Field
    <3>2. Top.elem \in 1..Len(Field.elems)
      BY <1>5, <2>2, <3>1, SequenceLen DEF Descend, Frame
    <3> QED
      BY <3>1, <3>2
  <2>4. Placed(all, frames', Len(violations)) /\ frames' # <<>>
    BY <1>0, <1>5, <2>3, PlacedCall DEF WalkInv, Descend
  <2> QED
    BY <1>5, <2>4 DEF Descend, WalkInv, Done
<1>6. CASE FieldsDone
  BY <1>6 DEF FieldsDone, Return, WalkInv, Statuses, Done
<1>7. CASE Resume
  <2> DEFINE stack == Front(frames)
             n     == Len(violations)
             x     == FrameElement(Len(frames))
             vs    == AppendFieldPathElement(violations, x, Top.pos)
  <2>1. frames # <<>>
    BY <1>7 DEF Resume, WalkInv, Done
  <2>2. Top.pos \in 0..n
    <3>1. Len(frames) \in 1..Len(frames) /\ Top \in Frame(all)
      BY <2>1, OnTop DEF WalkInv, Top
    <3> QED
      BY <1>0, <3>1 DEF WalkInv, Placed, Frame, Top
  <2>3. /\ Placed(all, stack, n) /\ stack # <<>> /\ Len(stack) = Len(frames) - 1
        /\ \A i \in 1..(Len(frames) - 1) : stack[i] = frames[i]
    BY <1>0, <1>7, PlacedReturn DEF WalkInv, Resume
  <2>4. Last(stack) = frames[Len(frames) - 1]
    BY <1>7, <2>1, <2>3, OnTop DEF Last, Resume, WalkInv
  <2>5. /\ violations' = vs
        /\ frames' = [stack EXCEPT ![Len(stack)].elem = @ + 1]
        /\ IF ShouldReturn(failFast, vs, status) THEN Return(status)
           ELSE pc' = "fields" /\ status' = Ok
        /\ UNCHANGED <<root, failFast>>
    BY <1>7, <2>4 DEF Resume, FrameElement
  <2>6. Updated(violations, vs, Top.pos)
    BY <2>2, RuleContextUpdates DEF WalkInv
  <2> HIDE DEF vs, x, stack
  <2>7. Sequence(violations') /\ Len(violations') = n
    BY <2>5, <2>6 DEF Updated
  <2> DEFINE top == [stack[Len(stack)] EXCEPT !.elem = @ + 1]
  <2>8. /\ top \in Frame(all) /\ top.pos = stack[Len(stack)].pos
        /\ top.rule \in 1..(Len(top.message.rules) + 1)
        /\ top.field \in 1..(Len(top.message.fields) + 1)
    <3>1. /\ stack[Len(stack)] \in Frame(all)
          /\ stack[Len(stack)].rule \in 1..(Len(stack[Len(stack)].message.rules) + 1)
          /\ stack[Len(stack)].field \in 1..(Len(stack[Len(stack)].message.fields) + 1)
      BY <2>3, OnTop
    <3> DEFINE old == stack[Len(stack)]
    <3> HIDE DEF old
    <3>2. /\ old \in Frame(all)
          /\ old.rule \in 1..(Len(old.message.rules) + 1)
          /\ old.field \in 1..(Len(old.message.fields) + 1)
          /\ top = [old EXCEPT !.elem = @ + 1]
      BY <3>1 DEF old
    <3> HIDE DEF top
    <3>3. /\ top.message = old.message /\ top.rule = old.rule
          /\ top.field = old.field /\ top.pos = old.pos /\ top \in Frame(all)
      BY <3>2 DEF Frame
    <3> QED
      BY <3>2, <3>3 DEF old
  <2>9. frames' = [stack EXCEPT ![Len(stack)] = top]
    BY <2>5
  <2> HIDE DEF top
  <2>10. Placed(all, frames', n) /\ frames' # <<>>
    BY <1>0, <2>3, <2>8, <2>9, PlacedTop
  <2> QED
    BY <1>7, <2>5, <2>7, <2>10
       DEF Resume, Return, ShouldReturn, WalkInv, Statuses, Done
<1>8. CASE Finish
  <2>1. Sequence(violations')
    <3>1. Sequence(Finalize(violations))
      <4> DEFINE w == Finalize(violations)
                 n == Len(violations)
      <4>1. w \in [1..n -> {w[i] : i \in 1..n}]
        BY DEF Finalize
      <4> HIDE DEF w
      <4>2. w \in Seq({w[i] : i \in 1..n})
        BY <1>0, <4>1, SeqDef
      <4>3. Sequence(w)
        BY <4>2 DEF Sequence
      <4> QED
        BY <4>3 DEF w
    <3> QED
      BY <1>8, <3>1 DEF Finish, Sequence
  <2>2. Placed(all, frames', Len(violations'))
    BY <1>8 DEF Finish, Placed
  <2> QED
    BY <1>8, <2>1, <2>2 DEF Finish, WalkInv, Done
<1>9. CASE UNCHANGED vars
  BY <1>9 DEF vars, WalkInv, Done
<1> QED
  BY <1>1, <1>2, <1>3, <1>4, <1>5, <1>6, <1>7, <1>8, <1>9 DEF Next

LEMMA WalkInvariant ==
  ASSUME NEW all, MessageTrees(all)
  PROVE  Spec => []WalkInv(all)
<1>1. Init => WalkInv(all)
  BY WalkStarts
<1>2. WalkInv(all) /\ [Next]_vars => WalkInv(all)'
  BY WalkSteps
<1> QED
  BY <1>1, <1>2, PTL DEF Spec

LEMMA WalkTyped ==
  ASSUME NEW all, WalkInv(all)
  PROVE  TypeOK
<1>1. ASSUME NEW i \in 1..Len(frames) PROVE frames[i].pos \in Nat
  <2>1. frames[i] \in Frame(all)
    BY ElementOfSeq DEF WalkInv, Placed
  <2> QED
    BY <2>1 DEF Frame
<1>2. Len(violations) \in Nat
  BY SequenceLen DEF WalkInv
<1> QED
  BY <1>1, <1>2 DEF TypeOK, WalkInv, Placed, Statuses

LEMMA TopWithin ==
  ASSUME NEW all, WalkInv(all), frames # <<>>
  PROVE  Top.pos \in 0..Len(violations)
<1>1. Len(frames) \in 1..Len(frames)
  BY DEF WalkInv, Placed
<1> QED
  BY <1>1, WalkTyped DEF TypeOK, Top

\* The counters of every activation of ValidateMessage stay in its message and
\* its violations in those of the validation, whatever the messages.
THEOREM WalkTypeCorrect ==
  ASSUME NEW all, MessageTrees(all)
  PROVE  Spec => []TypeOK
<1>1. WalkInv(all) => TypeOK
  BY WalkTyped
<1> QED
  BY <1>1, WalkInvariant, PTL

\* With failFast a step after the first violation adds none.
LEMMA FailFastStep ==
  ASSUME NEW all, WalkInv(all), Next, failFast, violations # <<>>
  PROVE  Len(violations') <= Len(violations)
<1>1. Len(violations) \in Nat
  BY SequenceLen DEF WalkInv
<1>2. pc \in {"return", "done"}
  BY DEF WalkInv
<1>3. CASE Resume
  <2>1. PICK y : violations' = AppendFieldPathElement(violations, y, Top.pos)
    BY <1>3 DEF Resume
  <2>2. Top.pos \in 0..Len(violations)
    BY <1>3, TopWithin DEF Resume, WalkInv, Done
  <2>3. Updated(violations, AppendFieldPathElement(violations, y, Top.pos), Top.pos)
    BY <2>2, RuleContextUpdates DEF WalkInv
  <2> QED
    BY <1>1, <2>1, <2>3 DEF Updated
<1>4. CASE Finish
  <2>1. violations' = <<>> \/ violations' = Finalize(violations)
    BY <1>4 DEF Finish
  <2>2. Len(Finalize(violations)) = Len(violations)
    <3> DEFINE w == Finalize(violations)
               n == Len(violations)
    <3>1. w \in [1..n -> {w[i] : i \in 1..n}]
      BY DEF Finalize
    <3> HIDE DEF w
    <3>2. w \in Seq({w[i] : i \in 1..n}) /\ DOMAIN w = 1..n
      BY <1>1, <3>1, SeqDef
    <3>3. Len(w) = n
      BY <1>1, <3>2, LenProperties
    <3> QED
      BY <3>3 DEF w
  <2> QED
    BY <1>1, <2>1, <2>2
<1> QED
  BY <1>2, <1>3, <1>4 DEF Next, EnterMessage, RunRule, RulesDone, NextField, Descend, FieldsDone

\* With failFast, once something has been found the walk only unwinds.
THEOREM FailFastStopsCorrect ==
  ASSUME NEW all, MessageTrees(all)
  PROVE  Spec => FailFastStops
<1>1. WalkInv(all) /\ [Next]_vars
        => [failFast /\ violations # <<>> => Len(violations') <= Len(violations)]_vars
  BY FailFastStep DEF vars
<1> QED
  BY <1>1, WalkInvariant, PTL DEF Spec, FailFastStops

\* ws has what is found in vs, with x added to the path after the first `start`.
PathAdded(vs, ws, start, x, i) ==
  /\ i <= Len(ws)
  /\ ws[i] = IF i <= start THEN vs[i] ELSE [vs[i] EXCEPT !.field = Append(@, x)]

\* AppendFieldPathElement adds to the path of the last violations only.
LEMMA PathUpdated ==
  ASSUME NEW vs, Sequence(vs), NEW start \in 0..Len(vs), NEW x, NEW i \in 1..Len(vs)
  PROVE  PathAdded(vs, AppendFieldPathElement(vs, x, start), start, x, i)
<1> DEFINE back == [j \in 1..(Len(vs) - start) |->
                      [vs[start + j] EXCEPT !.field = Append(@, x)]]
           ws   == AppendFieldPathElement(vs, x, start)
<1>1. Len(vs) \in Nat
  BY SequenceLen
<1>2. ws = SubSeq(vs, 1, start) \o back
  BY DEF AppendFieldPathElement, From
<1>3. /\ Updated(vs, SubSeq(vs, 1, start) \o back, start)
      /\ UpdatedPart(SubSeq(vs, 1, start) \o back, Len(vs), start, back)
  <2> DEFINE B == {back[j] : j \in 1..(Len(vs) - start)}
  <2>1. back \in [1..(Len(vs) - start) -> B]
    OBVIOUS
  <2> HIDE DEF back, B, ws
  <2> QED
    BY <2>1, TailUpdated
<1>4. CASE i <= start
  BY <1>1, <1>2, <1>3, <1>4 DEF Updated, PathAdded
<1>5. CASE i > start
  <2>1. i - start \in 1..(Len(vs) - start) /\ i \in (start + 1)..Len(vs)
        /\ start + (i - start) = i
    BY <1>1, <1>5
  <2>2. back[i - start] = [vs[i] EXCEPT !.field = Append(@, x)]
    BY <2>1
  <2> HIDE DEF back, ws
  <2>3. ws[i] = back[i - start] /\ Len(ws) = Len(vs)
    BY <1>2, <1>3, <2>1 DEF Updated, UpdatedPart
  <2> QED
    BY <1>1, <1>5, <2>2, <2>3 DEF ws, PathAdded
<1> QED
  BY <1>1, <1>4, <1>5

\* A step before the end leaves what has been found, but for the path element
\* the caller adds to what its callee has found.
LEMMA KeptStep ==
  ASSUME NEW all, MessageTrees(all), WalkInv(all), Next, ~Done',
         NEW i \in 1..Len(violations)
  PROVE  /\ i <= Len(violations')
         /\ \/ violations'[i] = violations[i]
            \/ /\ pc = "return"
               /\ violations'[i] = [violations[i] EXCEPT
                                      !.field = Append(@, FrameElement(Len(frames)))]
<1>1. Len(violations) \in Nat
  BY SequenceLen DEF WalkInv
<1>2. CASE violations' = violations
  BY <1>1, <1>2
<1>3. CASE RunRule
  <2>1. frames # <<>>
    BY <1>3 DEF RunRule, WalkInv, Done
  <2>2. WellFormedRule(Top.message.rules[Top.rule])
    BY <1>3, <2>1, OnTop DEF WalkInv, Top, RunRule
  <2> DEFINE r == Validate(failFast, violations, Top.message.rules[Top.rule])
  <2>3. Adds(violations, r)
    BY <2>2, ValidateAdds DEF WalkInv
  <2>4. violations' = r.vs
    BY <1>3 DEF RunRule
  <2> HIDE DEF r
  <2> QED
    BY <1>1, <2>3, <2>4, SequenceLen DEF Adds, Grows
<1>4. CASE Resume
  <2> DEFINE x == FrameElement(Len(frames))
  <2>1. Last(Front(frames)) = frames[Len(frames) - 1]
    <3>1. /\ Front(frames) # <<>> /\ Len(Front(frames)) = Len(frames) - 1
          /\ Placed(all, Front(frames), Len(violations))
          /\ \A k \in 1..(Len(frames) - 1) : Front(frames)[k] = frames[k]
      BY <1>1, <1>4, PlacedReturn DEF WalkInv, Resume
    <3>2. Len(Front(frames)) \in 1..Len(Front(frames))
      BY <3>1, OnTop
    <3> QED
      BY <3>1, <3>2 DEF Last
  <2>2. violations' = AppendFieldPathElement(violations, x, Top.pos) /\ pc = "return"
    BY <1>4, <2>1 DEF Resume, FrameElement
  <2>3. Top.pos \in 0..Len(violations)
    BY <1>4, TopWithin DEF Resume, WalkInv, Done
  <2> HIDE DEF x
  <2>4. /\ i <= Len(violations')
        /\ \/ violations'[i] = violations[i]
           \/ violations'[i] = [violations[i] EXCEPT !.field = Append(@, x)]
    <3>1. Sequence(violations)
      BY DEF WalkInv
    <3> DEFINE ws == AppendFieldPathElement(violations, x, Top.pos)
    <3>2. PathAdded(violations, ws, Top.pos, x, i)
      BY <2>3, <3>1, PathUpdated
    <3> HIDE DEF ws
    <3> QED
      BY <2>2, <3>2 DEF ws, PathAdded
  <2> QED
    BY <2>2, <2>4 DEF x
<1> QED
  BY <1>2, <1>3, <1>4
     DEF Next, EnterMessage, RulesDone, NextField, Descend, FieldsDone, Finish, Done

\* Whatever the messages, their depth and their rules: a violation found stays
\* at its place and only the callers of the message it was found in add to its
\* path, each its own element.
THEOREM ViolationsKeptCorrect ==
  ASSUME NEW all, MessageTrees(all)
  PROVE  Spec => ViolationsKept
<1> DEFINE Kept ==
      ~Done /\ ~Done' => \A i \in 1..Len(violations) :
         /\ i <= Len(violations')
         /\ \/ violations'[i] = violations[i]
            \/ /\ pc = "return"
               /\ violations'[i] = [violations[i] EXCEPT
                                      !.field = Append(@, FrameElement(Len(frames)))]
<1>1. WalkInv(all) /\ [Next]_vars => [Kept]_vars
  BY KeptStep DEF vars
<1>2. Spec => [][Kept]_vars
  <2> HIDE DEF Kept
  <2> QED
    BY <1>1, WalkInvariant, PTL DEF Spec
<1> QED
  BY <1>2 DEF ViolationsKept
==============================================================================
