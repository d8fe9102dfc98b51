----------------------------- MODULE WalkProofs -----------------------------
(***************************************************************************)
(* The walk reports what the reference says, for messages of any depth,    *)
(* and the runner answers each case as it deserves.  The invariant says of *)
(* every activation of ValidateMessage on the stack which checks it has    *)
(* made, and that the violations between its position and that of the next *)
(* are what these checks give; the one on top says so of the rest.         *)
(***************************************************************************)
EXTENDS Runner, RuleProofs
-------------------------------------------------------------------------------
(* The first error.                                                        *)

\* The first error, if there is one.
LEMMA FirstErrorIs ==
  ASSUME NEW cs, NEW s, IsFirst(cs, s)
  PROVE  FirstError(cs) = s
<1>1. PICK i \in 1..Len(cs) : /\ Erred(cs[i]) /\ cs[i].outcome = s
                              /\ \A j \in 1..Len(cs) : j < i => ~Erred(cs[j])
  BY DEF IsFirst
<1>2. PICK S : S = Erring(cs)
  OBVIOUS
<1>3. \A j : j \in S <=> j \in 1..Len(cs) /\ Erred(cs[j])
  BY <1>2 DEF Erring, Erred
<1>4. i \in S /\ \A j \in S : i <= j
  BY <1>1, <1>3
<1>5. \A k \in S : (\A j \in S : k <= j) => k = i
  BY <1>3, <1>4
<1>6. Min(S) = i
  BY <1>4, <1>5 DEF Min
<1> QED
  BY <1>1, <1>2, <1>4, <1>6 DEF FirstError

\* OK, if there is none.
LEMMA NoFirstError ==
  ASSUME NEW cs, NoErrors(cs)
  PROVE  FirstError(cs) = Ok
<1>1. Erring(cs) = {}
  BY DEF Erring, Erred, NoErrors
<1> QED
  BY <1>1 DEF FirstError

\* A status reported is that of a check.
LEMMA StatusOfCheck ==
  ASSUME NEW cs, NEW s, Sequence(cs), HasStatus(cs, s)
  PROVE  \E c \in ToSet(cs) : c.outcome \notin {"pass", "fail"} /\ c.outcome = s
<1>1. PICK i \in 1..Len(cs) : Erred(cs[i]) /\ cs[i].outcome = s
  BY DEF HasStatus
<1>2. PICK S : cs \in Seq(S)
  BY DEF Sequence
<1>3. i \in DOMAIN cs
  BY <1>1, <1>2
<1>4. cs[i] \in ToSet(cs)
  BY <1>3 DEF ToSet
<1> QED
  BY <1>1, <1>4 DEF Erred
-------------------------------------------------------------------------------
(* The checks of a message, found at an element of another.                *)

\* The checks under an element are the same checks, moved.
LEMMA UnderIs ==
  ASSUME NEW x, NEW cs, NEW O, AreChecks(cs, O)
  PROVE  AreChecks(Under(x, cs), O) /\ RelocatedAll(cs, Under(x, cs), <<x>>, <<>>, FALSE)
<1>1. PICK n \in Nat : n = Len(cs)
  BY SequenceLen DEF AreChecks
<1>2. PICK ds : ds = Under(x, cs)
  OBVIOUS
<1>3. ds = [i \in 1..n |-> [cs[i] EXCEPT !.field = <<x>> \o @]]
  BY <1>1, <1>2 DEF Under
<1>4. ds \in [1..n -> {ds[i] : i \in 1..n}]
  BY <1>3
<1>5. Sequence(ds) /\ Len(ds) = n
  BY <1>4, SequenceIs
<1>6. PICK F, none : F = <<x>> /\ none = <<>>
  OBVIOUS
<1>7. PICK no \in BOOLEAN : no = FALSE
  OBVIOUS
<1>8. ASSUME NEW i \in 1..n
      PROVE  CheckRecord(ds[i]) /\ ds[i].outcome \in O /\ Relocated(cs[i], ds[i], F, none, no)
  <2>1. PICK c : c = cs[i]
    OBVIOUS
  <2>2. PICK d : d = ds[i]
    OBVIOUS
  <2>3. PICK field : field = F \o c.field
    OBVIOUS
  <2>4. CheckRecord(c) /\ c.outcome \in O
    BY <1>1, <2>1 DEF AreChecks
  <2>5. d = [c EXCEPT !.field = field]
    BY <1>3, <1>6, <2>1, <2>2, <2>3
  <2>6. d = [id |-> c.id, field |-> field, rule |-> c.rule, forKey |-> c.forKey,
             fieldValue |-> c.fieldValue, ruleValue |-> c.ruleValue, outcome |-> c.outcome]
    BY <2>4, <2>5 DEF CheckRecord
  <2>7. /\ d.id = c.id /\ d.field = field /\ d.rule = c.rule /\ d.forKey = c.forKey
        /\ d.ruleValue = c.ruleValue /\ d.outcome = c.outcome
    BY <2>6
  <2>8. CheckRecord(d) /\ Sequence(c.rule)
    BY <2>4, <2>6, <2>7 DEF CheckRecord
  <2>10. d.rule = none \o c.rule
    BY <1>6, <2>7, <2>8, JoinedEmpty
  <2>9. d.forKey = Keyed(no, c.forKey)
    BY <1>7, <2>7 DEF Keyed
  <2> QED
    BY <2>1, <2>2, <2>3, <2>4, <2>7, <2>8, <2>9, <2>10 DEF Relocated
<1> QED
  BY <1>1, <1>2, <1>5, <1>6, <1>7, <1>8 DEF AreChecks, RelocatedAll
-------------------------------------------------------------------------------
(* The violations of a frame are those between two places.                 *)

UpTo(vs, n) == SubSeq(vs, 1, n)

\* From place lo to place hi are the violations of the failing ones of cs.
FindsIn(vs, lo, hi, cs) == Finds(UpTo(vs, lo), UpTo(vs, hi), cs)

\* Or of some of them.
PicksIn(vs, lo, hi, cs) == Picks(UpTo(vs, lo), UpTo(vs, hi), cs)

\* The first n violations.
LEMMA UpToIs ==
  ASSUME NEW vs, Sequence(vs), NEW n \in 0..Len(vs)
  PROVE  /\ Sequence(UpTo(vs, n)) /\ Len(UpTo(vs, n)) = n
         /\ \A i \in 1..n : UpTo(vs, n)[i] = vs[i]
<1>1. PICK S : vs \in Seq(S)
  BY DEF Sequence
<1>2. n \in Nat /\ Len(vs) \in Nat
  BY SequenceLen
<1>3. PICK T : T = {vs[i] : i \in 1..n}
  OBVIOUS
<1>4. \A i \in 1..n : vs[i] \in T
  BY <1>3
<1>5. PICK w : w = UpTo(vs, n)
  OBVIOUS
<1>6. /\ w \in Seq(S)
      /\ Len(w) = IF 1 <= n THEN n - 1 + 1 ELSE 0
      /\ \A i \in 1..(n - 1 + 1) : w[i] = vs[1 + i - 1]
  <2>1. \A i \in 1..n : vs[i] \in S
    BY <1>1, <1>2, ElementOfSeq
  <2> QED
    BY <1>1, <1>2, <1>5, <2>1, SubSeqProperties DEF UpTo
<1>7. Len(w) = n /\ \A i \in 1..n : w[i] = vs[i]
  BY <1>2, <1>6
<1> QED
  BY <1>5, <1>6, <1>7 DEF Sequence

\* All of them.
LEMMA UpToAll ==
  ASSUME NEW vs, Sequence(vs)
  PROVE  UpTo(vs, Len(vs)) = vs
<1>1. PICK n \in Nat : n = Len(vs)
  BY SequenceLen
<1>2. n \in 0..Len(vs)
  BY <1>1
<1>3. PICK w : w = UpTo(vs, n)
  OBVIOUS
<1>4. Sequence(w) /\ Len(w) = n /\ \A i \in 1..n : w[i] = vs[i]
  BY <1>2, <1>3, UpToIs
<1>5. w = vs
  BY <1>1, <1>4, SameSequence
<1> QED
  BY <1>1, <1>3, <1>5

\* The first violations are the same in two sequences.
SameUpTo(vs, ws, n) ==
  /\ Sequence(vs) /\ Sequence(ws) /\ n \in 0..Len(vs) /\ n <= Len(ws)
  /\ \A i \in 1..n : ws[i] = vs[i]

\* Two vectors that agree up to n agree up to less.
LEMMA UpToSame ==
  ASSUME NEW vs, NEW ws, NEW n, SameUpTo(vs, ws, n), NEW k \in 0..n
  PROVE  UpTo(ws, k) = UpTo(vs, k)
<1>1. /\ Sequence(vs) /\ Sequence(ws) /\ n \in 0..Len(vs) /\ n <= Len(ws)
      /\ Len(vs) \in Nat /\ Len(ws) \in Nat
  BY SequenceLen DEF SameUpTo
<1>2. k \in 0..Len(vs) /\ k \in 0..Len(ws) /\ k <= n
  BY <1>1
<1>3. PICK a : a = UpTo(vs, k)
  OBVIOUS
<1>4. PICK b : b = UpTo(ws, k)
  OBVIOUS
<1>5. Sequence(a) /\ Len(a) = k /\ \A i \in 1..k : a[i] = vs[i]
  BY <1>1, <1>2, <1>3, UpToIs
<1>6. Sequence(b) /\ Len(b) = k /\ \A i \in 1..k : b[i] = ws[i]
  BY <1>1, <1>2, <1>4, UpToIs
<1>7. \A i \in 1..k : b[i] = a[i]
  BY <1>1, <1>2, <1>5, <1>6 DEF SameUpTo
<1>8. b = a
  BY <1>5, <1>6, <1>7, SameSequence
<1> QED
  BY <1>3, <1>4, <1>8

\* What was found before a place stays found when nothing before it changes.
LEMMA FindsInKept ==
  ASSUME NEW vs, NEW ws, NEW n, NEW lo, NEW hi, NEW cs, SameUpTo(vs, ws, n), lo \in 0..n, hi \in 0..n,
         FindsIn(vs, lo, hi, cs)
  PROVE  FindsIn(ws, lo, hi, cs)
<1>1. UpTo(ws, lo) = UpTo(vs, lo) /\ UpTo(ws, hi) = UpTo(vs, hi)
  BY UpToSame
<1> QED
  BY <1>1 DEF FindsIn

\* Nothing is found between a place and itself.
LEMMA FindsInNone ==
  ASSUME NEW vs, Sequence(vs), NEW n \in 0..Len(vs)
  PROVE  FindsIn(vs, n, n, <<>>)
<1>1. PICK us : us = UpTo(vs, n)
  OBVIOUS
<1>2. Sequence(us)
  BY <1>1, UpToIs
<1>3. Finds(us, us, <<>>)
  BY <1>2, FindsNone
<1> QED
  BY <1>1, <1>3 DEF FindsIn

\* What is found in two intervals, end to end.
LEMMA FindsInThen ==
  ASSUME NEW vs, NEW lo, NEW mid, NEW hi, NEW a, NEW b, NEW c, Sequence(a), Sequence(b),
         IsJoined(c, a, b), FindsIn(vs, lo, mid, a), FindsIn(vs, mid, hi, b)
  PROVE  FindsIn(vs, lo, hi, c)
<1>1. PICK u, v, w : u = UpTo(vs, lo) /\ v = UpTo(vs, mid) /\ w = UpTo(vs, hi)
  OBVIOUS
<1>2. Finds(u, v, a) /\ Finds(v, w, b)
  BY <1>1 DEF FindsIn
<1>3. Finds(u, w, c)
  BY <1>2, FindsThen
<1> QED
  BY <1>1, <1>3 DEF FindsIn

\* What a rule finds comes after what was found before.
LEMMA FindsAfter ==
  ASSUME NEW vs, NEW ws, NEW p, NEW q, NEW cs, p = Len(vs), q = Len(ws), Finds(vs, ws, cs)
  PROVE  FindsIn(ws, p, q, cs) /\ SameUpTo(vs, ws, p)
<1>1. Grows(vs, ws)
  BY DEF Finds
<1>2. /\ Sequence(vs) /\ Sequence(ws) /\ Len(vs) <= Len(ws) /\ p \in Nat /\ q \in Nat
      /\ \A i \in 1..Len(vs) : ws[i] = vs[i]
  BY <1>1, SequenceLen DEF Grows
<1>3. SameUpTo(vs, ws, p)
  BY <1>2 DEF SameUpTo
<1>4. UpTo(ws, q) = ws /\ UpTo(vs, p) = vs
  BY <1>2, UpToAll
<1>5. UpTo(ws, p) = UpTo(vs, p)
  <2>1. p \in 0..p
    BY <1>2
  <2> QED
    BY <1>3, <2>1, UpToSame
<1> QED
  BY <1>3, <1>4, <1>5 DEF FindsIn

\* All of them are some of them.
LEMMA FindsInPicks ==
  ASSUME NEW vs, NEW lo, NEW hi, NEW cs, Sequence(cs), FindsIn(vs, lo, hi, cs)
  PROVE  PicksIn(vs, lo, hi, cs)
<1>1. PICK u, w : u = UpTo(vs, lo) /\ w = UpTo(vs, hi)
  OBVIOUS
<1>2. Finds(u, w, cs)
  BY <1>1 DEF FindsIn
<1>3. Picks(u, w, cs)
  BY <1>2, FindsPicks
<1> QED
  BY <1>1, <1>3 DEF PicksIn

\* All that is found in one interval, and some in the next: if there is anything, the
\* first is the first of all.
LEMMA PicksInThen ==
  ASSUME NEW vs, NEW lo, NEW mid, NEW hi, NEW a, NEW b, NEW c, Sequence(a), Sequence(b),
         IsJoined(c, a, b), FindsIn(vs, lo, mid, a), PicksIn(vs, mid, hi, b)
  PROVE  PicksIn(vs, lo, hi, c)
<1>1. PICK u, v, w : u = UpTo(vs, lo) /\ v = UpTo(vs, mid) /\ w = UpTo(vs, hi)
  OBVIOUS
<1>2. Finds(u, v, a) /\ Picks(v, w, b)
  BY <1>1 DEF FindsIn, PicksIn
<1>3. Picks(u, v, a)
  BY <1>2, FindsPicks
<1>4. Len(v) = 0 => Len(Fails(a)) = 0
  <2>1. PICK n \in Nat : n = Len(Fails(a))
    BY FailsSequence
  <2>2. PICK k \in Nat : k = Len(u)
    BY <1>2, SequenceLen DEF Finds, Grows
  <2>3. Len(v) = k + n
    BY <1>2, <2>1, <2>2 DEF Finds
  <2> QED
    BY <2>1, <2>2, <2>3
<1>5. Picks(u, w, c)
  BY <1>2, <1>3, <1>4, PicksThen
<1> QED
  BY <1>1, <1>5 DEF PicksIn

\* Some of what a part finds is some of what all finds.
LEMMA PicksInEnough ==
  ASSUME NEW vs, NEW lo, NEW hi, NEW a, NEW b, NEW c, Sequence(a), Sequence(b), PicksIn(vs, lo, hi, a),
         IsJoined(c, a, b)
  PROVE  PicksIn(vs, lo, hi, c)
<1>1. PICK u, w : u = UpTo(vs, lo) /\ w = UpTo(vs, hi)
  OBVIOUS
<1>2. Picks(u, w, a)
  BY <1>1 DEF PicksIn
<1>3. Picks(u, w, c)
  BY <1>2, PicksEnough
<1> QED
  BY <1>1, <1>3 DEF PicksIn

\* What a rule picks comes after what was found before.
LEMMA PicksAfter ==
  ASSUME NEW vs, NEW ws, NEW p, NEW q, NEW cs, p = Len(vs), q = Len(ws), Picks(vs, ws, cs)
  PROVE  PicksIn(ws, p, q, cs)
<1>1. Grows(vs, ws)
  BY DEF Picks, PicksAt
<1>2. /\ Sequence(vs) /\ Sequence(ws) /\ Len(vs) <= Len(ws) /\ p \in Nat /\ q \in Nat
      /\ \A i \in 1..Len(vs) : ws[i] = vs[i]
  BY <1>1, SequenceLen DEF Grows
<1>3. SameUpTo(vs, ws, p)
  BY <1>2 DEF SameUpTo
<1>4. UpTo(ws, q) = ws /\ UpTo(vs, p) = vs
  BY <1>2, UpToAll
<1>5. UpTo(ws, p) = UpTo(vs, p)
  <2>1. p \in 0..p
    BY <1>2
  <2> QED
    BY <1>3, <2>1, UpToSame
<1> QED
  BY <1>4, <1>5 DEF PicksIn

\* Those of a frame are all violations after its place.
LEMMA PickedInViolations ==
  ASSUME NEW vs, NEW lo, NEW n, NEW cs, Sequence(vs), n = Len(vs), lo \in 0..n,
         PicksIn(vs, lo, n, cs)
  PROVE  AllViolations(vs, lo)
<1>1. PICK u : u = UpTo(vs, lo)
  OBVIOUS
<1>2. Sequence(u) /\ lo = Len(u)
  BY <1>1, UpToIs
<1>3. UpTo(vs, n) = vs
  BY UpToAll
<1>4. Picks(u, vs, cs)
  BY <1>1, <1>3 DEF PicksIn
<1> QED
  BY <1>2, <1>4, PickedViolations

\* The caller moves those of the message it called for.
LEMMA FindsInMoved ==
  ASSUME NEW vs, NEW ws, NEW lo, NEW n, NEW cs, NEW ds, NEW F, NEW R, NEW key, Sequence(vs), n = Len(vs),
         lo \in 0..n, Sequence(F), Sequence(R), Sequence(cs), FindsIn(vs, lo, n, cs),
         MovesAll(vs, ws, lo, F, R, key), RelocatedAll(cs, ds, F, R, key)
  PROVE  FindsIn(ws, lo, n, ds) /\ SameUpTo(vs, ws, lo)
<1>1. PICK u : u = UpTo(vs, lo)
  OBVIOUS
<1>2. Sequence(u) /\ lo = Len(u) /\ lo \in Nat /\ n \in Nat
  BY <1>1, UpToIs, SequenceLen
<1>3. UpTo(vs, n) = vs
  BY UpToAll
<1>4. Finds(u, vs, cs)
  BY <1>1, <1>3 DEF FindsIn
<1>5. Finds(u, ws, ds)
  BY <1>2, <1>4, FindsMoves
<1>6. Sequence(ws) /\ Len(ws) = n /\ \A i \in 1..lo : ws[i] = vs[i]
  BY DEF MovesAll, Updated
<1>7. SameUpTo(vs, ws, lo)
  BY <1>2, <1>6 DEF SameUpTo
<1>8. UpTo(ws, n) = ws
  BY <1>6, UpToAll
<1>9. UpTo(ws, lo) = u
  <2>1. lo \in 0..lo
    BY <1>2
  <2> QED
    BY <1>1, <1>7, <2>1, UpToSame
<1> QED
  BY <1>5, <1>7, <1>8, <1>9 DEF FindsIn

\* The same for some of them.
LEMMA PicksInMoved ==
  ASSUME NEW vs, NEW ws, NEW lo, NEW n, NEW cs, NEW ds, NEW F, NEW R, NEW key, Sequence(vs), n = Len(vs),
         lo \in 0..n, Sequence(F), Sequence(R), Sequence(cs), PicksIn(vs, lo, n, cs),
         MovesAll(vs, ws, lo, F, R, key), RelocatedAll(cs, ds, F, R, key)
  PROVE  PicksIn(ws, lo, n, ds)
<1>1. PICK u : u = UpTo(vs, lo)
  OBVIOUS
<1>2. Sequence(u) /\ lo = Len(u) /\ lo \in Nat /\ n \in Nat
  BY <1>1, UpToIs, SequenceLen
<1>3. UpTo(vs, n) = vs
  BY UpToAll
<1>4. Picks(u, vs, cs)
  BY <1>1, <1>3 DEF PicksIn
<1>5. Picks(u, ws, ds)
  BY <1>2, <1>4, PicksMoves
<1>6. Sequence(ws) /\ Len(ws) = n /\ \A i \in 1..lo : ws[i] = vs[i]
  BY DEF MovesAll, Updated
<1>7. SameUpTo(vs, ws, lo)
  BY <1>2, <1>6 DEF SameUpTo
<1>8. UpTo(ws, n) = ws
  BY <1>6, UpToAll
<1>9. UpTo(ws, lo) = u
  <2>1. lo \in 0..lo
    BY <1>2
  <2> QED
    BY <1>1, <1>7, <2>1, UpToSame
<1> QED
  BY <1>5, <1>8, <1>9 DEF PicksIn
-------------------------------------------------------------------------------
(* The reference for messages of any depth.                                *)

\* Messages that hold their messages and, as there is no message in itself, have a
\* height; with the rules that messages compile to.
ShownTrees(height) ==
  /\ MessageTrees(Messages)
  /\ height \in [Messages -> Nat]
  /\ \A m \in Messages :
       /\ \A i \in 1..Len(m.rules) : ShownRule(m.rules[i])
       /\ \A i \in 1..Len(m.fields) :
            /\ m.fields[i].ignore \in {"none", "always", "items", "values"}
            /\ ~m.fields[i].isMessage => m.fields[i].elems = <<>>
            /\ \A e \in 1..Len(m.fields[i].elems) : height[m.fields[i].elems[e].message] < height[m]

\* What the recursion of the reference says of a message, h being the checks of others.
ElementChecks(h, f, e) == Under(ItemElement(f.name, f.elems[e].at), h[f.elems[e].message])

InFieldChecks(h, f) ==
  IF f.ignore # "none" THEN <<>>
  ELSE FlattenSeq([e \in 1..Len(f.elems) |-> ElementChecks(h, f, e)])

LoadCheck(m) == Check("load", <<>>, <<>>, FALSE, NoValue, NoField, m.load)

Body(h, m) ==
  IF m.load # Ok THEN <<LoadCheck(m)>>
  ELSE FlattenSeq([i \in 1..Len(m.rules) |-> RuleChecks(m.rules[i])])
       \o FlattenSeq([i \in 1..Len(m.fields) |-> InFieldChecks(h, m.fields[i])])

\* The definition of Checks, as the language has it: a function that solves its equation.
LEMMA ChecksChosen ==
  Checks = CHOOSE h : h = [m \in Messages |-> Body(h, m)]
BY DEF Checks, Body, InFieldChecks, ElementChecks, LoadCheck

\* Two functions agree on the messages in the fields of m.
AgreeBelow(g, h, m) ==
  \A i \in 1..Len(m.fields) : \A e \in 1..Len(m.fields[i].elems) :
    g[m.fields[i].elems[e].message] = h[m.fields[i].elems[e].message]

\* What the equation says of a message depends on the messages in it only.
LEMMA BodySame ==
  ASSUME NEW g, NEW h, NEW m, AgreeBelow(g, h, m)
  PROVE  Body(g, m) = Body(h, m)
<1>1. ASSUME NEW i \in 1..Len(m.fields)
      PROVE  InFieldChecks(g, m.fields[i]) = InFieldChecks(h, m.fields[i])
  <2>1. PICK f : f = m.fields[i]
    OBVIOUS
  <2>2. \A e \in 1..Len(f.elems) : ElementChecks(g, f, e) = ElementChecks(h, f, e)
    BY <2>1 DEF AgreeBelow, ElementChecks
  <2>3. [e \in 1..Len(f.elems) |-> ElementChecks(g, f, e)]
          = [e \in 1..Len(f.elems) |-> ElementChecks(h, f, e)]
    BY <2>2
  <2> QED
    BY <2>1, <2>3 DEF InFieldChecks
<1>2. [i \in 1..Len(m.fields) |-> InFieldChecks(g, m.fields[i])]
        = [i \in 1..Len(m.fields) |-> InFieldChecks(h, m.fields[i])]
  BY <1>1
<1> QED
  BY <1>2 DEF Body

\* h follows the recursion for the messages below height n.
Solves(height, h, n) == \A m \in Messages : height[m] < n => h[m] = Body(h, m)

\* A message in another is lower.
LEMMA SubHeight ==
  ASSUME NEW height, ShownTrees(height), NEW m \in Messages, NEW i \in 1..Len(m.fields),
         NEW e \in 1..Len(m.fields[i].elems)
  PROVE  /\ m.fields[i].elems[e].message \in Messages
         /\ height[m.fields[i].elems[e].message] \in Nat /\ height[m] \in Nat
         /\ height[m.fields[i].elems[e].message] < height[m]
<1>1. m.fields[i].elems[e].message \in Messages
  BY DEF ShownTrees, MessageTrees
<1> QED
  BY <1>1 DEF ShownTrees

\* A solution up to n is one up to less.
LEMMA SolvesLess ==
  ASSUME NEW height, ShownTrees(height), NEW h, NEW n \in Nat, NEW k \in Nat, k <= n,
         Solves(height, h, n)
  PROVE  Solves(height, h, k)
<1>1. \A m \in Messages : height[m] \in Nat
  BY DEF ShownTrees
<1> QED
  BY <1>1 DEF Solves

\* Two solutions agree, by induction on the height.
LEMMA SolvesAgree ==
  ASSUME NEW height, ShownTrees(height)
  PROVE  \A n \in Nat : \A g, h : Solves(height, g, n) /\ Solves(height, h, n) =>
           \A m \in Messages : height[m] < n => g[m] = h[m]
<1> DEFINE T == {n \in Nat : \A g, h : Solves(height, g, n) /\ Solves(height, h, n) =>
                               \A m \in Messages : height[m] < n => g[m] = h[m]}
<1>0. \A m \in Messages : height[m] \in Nat
  BY DEF ShownTrees
<1>1. 0 \in T
  BY <1>0
<1>2. ASSUME NEW n \in Nat, n \in T PROVE n + 1 \in T
  <2> SUFFICES ASSUME NEW g, NEW h, Solves(height, g, n + 1), Solves(height, h, n + 1),
                      NEW m \in Messages, height[m] < n + 1
               PROVE  g[m] = h[m]
    OBVIOUS
  <2>1. Solves(height, g, n) /\ Solves(height, h, n)
    <3>1. PICK k \in Nat : k = n + 1
      OBVIOUS
    <3>2. n <= k /\ Solves(height, g, k) /\ Solves(height, h, k)
      BY <3>1
    <3> QED
      BY <3>2, SolvesLess
  <2>2. \A s \in Messages : height[s] < n => g[s] = h[s]
    BY <1>2, <2>1
  <2>3. ASSUME NEW i \in 1..Len(m.fields), NEW e \in 1..Len(m.fields[i].elems)
        PROVE  g[m.fields[i].elems[e].message] = h[m.fields[i].elems[e].message]
    <3>1. PICK s : s = m.fields[i].elems[e].message
      OBVIOUS
    <3>2. s \in Messages /\ height[s] \in Nat /\ height[m] \in Nat /\ height[s] < height[m]
      BY <3>1, SubHeight
    <3>3. height[s] < n
      BY <3>2
    <3> QED
      BY <2>2, <3>1, <3>2, <3>3
  <2>4. Body(g, m) = Body(h, m)
    BY <2>3, BodySame DEF AgreeBelow
  <2>5. g[m] = Body(g, m) /\ h[m] = Body(h, m)
    BY DEF Solves
  <2> QED
    BY <2>4, <2>5
<1> HIDE DEF T
<1>3. Nat \subseteq T
  BY <1>1, <1>2, Induction
<1> QED
  BY <1>3 DEF T

\* There is a solution, by the same induction.
LEMMA SolvesExists ==
  ASSUME NEW height, ShownTrees(height)
  PROVE  \A n \in Nat : \E h : Solves(height, h, n)
<1> DEFINE T == {n \in Nat : \E h : Solves(height, h, n)}
<1>0. \A m \in Messages : height[m] \in Nat
  BY DEF ShownTrees
<1>1. 0 \in T
  <2>1. PICK h : h = height
    OBVIOUS
  <2>2. Solves(height, h, 0)
    BY <1>0 DEF Solves
  <2> QED
    BY <2>2
<1>2. ASSUME NEW n \in Nat, n \in T PROVE n + 1 \in T
  <2>1. PICK h : Solves(height, h, n)
    BY <1>2
  <2>2. PICK g : g = [m \in Messages |-> IF height[m] < n THEN h[m] ELSE Body(h, m)]
    OBVIOUS
  <2>3. ASSUME NEW m \in Messages, height[m] < n + 1 PROVE g[m] = Body(g, m)
    <3>1. ASSUME NEW i \in 1..Len(m.fields), NEW e \in 1..Len(m.fields[i].elems)
          PROVE  g[m.fields[i].elems[e].message] = h[m.fields[i].elems[e].message]
      <4>1. PICK s : s = m.fields[i].elems[e].message
        OBVIOUS
      <4>2. s \in Messages /\ height[s] \in Nat /\ height[m] \in Nat /\ height[s] < height[m]
        BY <4>1, SubHeight
      <4>3. height[s] < n
        BY <2>3, <4>2
      <4>4. g[s] = h[s]
        BY <2>2, <4>2, <4>3
      <4> QED
        BY <4>1, <4>4
    <3>2. Body(g, m) = Body(h, m)
      BY <3>1, BodySame DEF AgreeBelow
    <3>3. g[m] = Body(h, m)
      BY <2>1, <2>2 DEF Solves
    <3> QED
      BY <3>2, <3>3
  <2>4. Solves(height, g, n + 1)
    BY <2>3 DEF Solves
  <2> QED
    BY <2>4
<1> HIDE DEF T
<1>3. Nat \subseteq T
  BY <1>1, <1>2, Induction
<1> QED
  BY <1>3 DEF T

\* The recursion has a solution, and Checks is one.
THEOREM ChecksIs ==
  ASSUME NEW height, ShownTrees(height)
  PROVE  \A m \in Messages : Checks[m] = Body(Checks, m)
<1>1. PICK H : H = [m \in Messages |-> (CHOOSE h : Solves(height, h, height[m] + 1))[m]]
  OBVIOUS
<1>2. ASSUME NEW m \in Messages
      PROVE  /\ height[m] + 1 \in Nat
             /\ Solves(height, CHOOSE h : Solves(height, h, height[m] + 1), height[m] + 1)
             /\ H[m] = (CHOOSE h : Solves(height, h, height[m] + 1))[m]
  <2>1. height[m] + 1 \in Nat
    BY DEF ShownTrees
  <2>2. PICK k \in Nat : k = height[m] + 1
    BY <2>1
  <2>3. \E h : Solves(height, h, k)
    BY SolvesExists
  <2>4. Solves(height, CHOOSE h : Solves(height, h, k), k)
    BY <2>3
  <2> QED
    BY <1>1, <2>1, <2>2, <2>4
<1>3. ASSUME NEW m \in Messages PROVE H[m] = Body(H, m)
  <2>1. PICK k \in Nat : k = height[m] + 1
    BY <1>2
  <2>2. PICK g : g = CHOOSE h : Solves(height, h, k)
    OBVIOUS
  <2>3. Solves(height, g, k) /\ H[m] = g[m]
    BY <1>2, <2>1, <2>2
  <2>4. ASSUME NEW i \in 1..Len(m.fields), NEW e \in 1..Len(m.fields[i].elems)
        PROVE  H[m.fields[i].elems[e].message] = g[m.fields[i].elems[e].message]
    <3>1. PICK s : s = m.fields[i].elems[e].message
      OBVIOUS
    <3>2. s \in Messages /\ height[s] \in Nat /\ height[m] \in Nat /\ height[s] < height[m]
      BY <3>1, SubHeight
    <3>3. PICK j \in Nat : j = height[s] + 1
      BY <3>2
    <3>4. PICK f : f = CHOOSE h : Solves(height, h, j)
      OBVIOUS
    <3>5. Solves(height, f, j) /\ H[s] = f[s]
      BY <1>2, <3>2, <3>3, <3>4
    <3>6. j <= k /\ height[s] < j
      BY <2>1, <3>2, <3>3
    <3>7. Solves(height, g, j)
      BY <2>3, <3>6, SolvesLess
    <3>8. f[s] = g[s]
      BY <3>2, <3>5, <3>6, <3>7, SolvesAgree
    <3> QED
      BY <3>1, <3>5, <3>8
  <2>5. Body(H, m) = Body(g, m)
    BY <2>4, BodySame DEF AgreeBelow
  <2>6. g[m] = Body(g, m)
    <3>1. height[m] < k
      BY <2>1 DEF ShownTrees
    <3> QED
      BY <2>3, <3>1 DEF Solves
  <2> QED
    BY <2>3, <2>5, <2>6
<1>4. H = [m \in Messages |-> Body(H, m)]
  <2>1. H = [m \in Messages |-> H[m]]
    BY <1>1
  <2> QED
    BY <1>3, <2>1
<1>5. \E h : h = [m \in Messages |-> Body(h, m)]
  BY <1>4
<1>6. PICK C : C = CHOOSE h : h = [m \in Messages |-> Body(h, m)]
  OBVIOUS
<1>7. C = [m \in Messages |-> Body(C, m)]
  BY <1>5, <1>6
<1>8. Checks = C
  BY <1>6, ChecksChosen
<1> QED
  BY <1>7, <1>8
-------------------------------------------------------------------------------
(* The checks of a message are records too.                                *)

MessageOutcomes == RuleOutcomes \cup Statuses

\* The outcomes of rules are outcomes of messages.
LEMMA ChecksWiden ==
  ASSUME NEW cs, AreChecks(cs, RuleOutcomes)
  PROVE  AreChecks(cs, MessageOutcomes)
BY DEF AreChecks, MessageOutcomes

RuleSeqs(m) == [i \in 1..Len(m.rules) |-> RuleChecks(m.rules[i])]
FieldSeqs(m) == [i \in 1..Len(m.fields) |-> InFieldChecks(Checks, m.fields[i])]
ElemSeqs(f) == [e \in 1..Len(f.elems) |-> ElementChecks(Checks, f, e)]

\* The messages in the fields of m have such checks.
BelowAreChecks(m) ==
  \A i \in 1..Len(m.fields) : \A e \in 1..Len(m.fields[i].elems) :
    AreChecks(Checks[m.fields[i].elems[e].message], MessageOutcomes)

\* The lengths of a message are numbers.
LEMMA MessageLens ==
  ASSUME NEW height, ShownTrees(height), NEW m \in Messages
  PROVE  /\ Len(m.rules) \in Nat /\ Len(m.fields) \in Nat
         /\ \A i \in 1..Len(m.fields) : Len(m.fields[i].elems) \in Nat
<1>1. /\ Sequence(m.rules) /\ Sequence(m.fields)
      /\ \A i \in 1..Len(m.fields) : Sequence(m.fields[i].elems)
  BY DEF ShownTrees, MessageTrees
<1> QED
  BY <1>1, SequenceLen

\* The checks of its rules.
LEMMA RuleSeqsAre ==
  ASSUME NEW height, ShownTrees(height), NEW m \in Messages, NEW i \in 1..Len(m.rules)
  PROVE  AreChecks(RuleSeqs(m)[i], MessageOutcomes) /\ AreChecks(RuleSeqs(m)[i], RuleOutcomes)
<1>1. ShownRule(m.rules[i])
  BY DEF ShownTrees
<1>2. AreChecks(RuleChecks(m.rules[i]), RuleOutcomes)
  BY <1>1, RuleAreChecks
<1>3. RuleSeqs(m)[i] = RuleChecks(m.rules[i])
  BY DEF RuleSeqs
<1> QED
  BY <1>2, <1>3, ChecksWiden

\* The checks of the messages in a field, given those of the messages.
LEMMA ElemSeqsAre ==
  ASSUME NEW m, BelowAreChecks(m), NEW i \in 1..Len(m.fields), NEW e \in 1..Len(m.fields[i].elems)
  PROVE  /\ AreChecks(ElemSeqs(m.fields[i])[e], MessageOutcomes)
         /\ ElemSeqs(m.fields[i])[e] = ElementChecks(Checks, m.fields[i], e)
<1>1. PICK f : f = m.fields[i]
  OBVIOUS
<1>2. PICK x : x = ItemElement(f.name, f.elems[e].at)
  OBVIOUS
<1>3. PICK cs : cs = Checks[f.elems[e].message]
  OBVIOUS
<1>4. AreChecks(cs, MessageOutcomes)
  BY <1>1, <1>3 DEF BelowAreChecks
<1>5. AreChecks(Under(x, cs), MessageOutcomes)
  BY <1>4, UnderIs
<1>6. ElementChecks(Checks, f, e) = Under(x, cs)
  BY <1>2, <1>3 DEF ElementChecks
<1>7. ElemSeqs(f)[e] = ElementChecks(Checks, f, e)
  BY <1>1 DEF ElemSeqs
<1> QED
  BY <1>1, <1>5, <1>6, <1>7

\* The checks of a field that is not passed over.
LEMMA InFieldIs ==
  ASSUME NEW f, f.ignore = "none"
  PROVE  InFieldChecks(Checks, f) = Flat(ElemSeqs(f), Len(f.elems))
<1>1. [e \in 1..Len(f.elems) |-> ElemSeqs(f)[e]]
        = [e \in 1..Len(f.elems) |-> ElementChecks(Checks, f, e)]
  BY DEF ElemSeqs
<1> QED
  BY <1>1 DEF InFieldChecks, Flat

\* They are checks.
LEMMA FieldSeqsAre ==
  ASSUME NEW height, ShownTrees(height), NEW m \in Messages, BelowAreChecks(m),
         NEW i \in 1..Len(m.fields)
  PROVE  AreChecks(FieldSeqs(m)[i], MessageOutcomes)
<1>1. PICK f : f = m.fields[i]
  OBVIOUS
<1>2. PICK n \in Nat : n = Len(f.elems)
  BY <1>1, MessageLens
<1>3. FieldSeqs(m)[i] = InFieldChecks(Checks, f)
  BY <1>1 DEF FieldSeqs
<1>4. CASE f.ignore = "none"
  <2>1. PICK g : g = ElemSeqs(f)
    OBVIOUS
  <2>2. \A e \in 1..n : AreChecks(g[e], MessageOutcomes)
    BY <1>1, <1>2, <2>1, ElemSeqsAre
  <2>3. PICK O : O = MessageOutcomes
    OBVIOUS
  <2>4. AreChecks(Flat(g, n), O)
    BY <2>2, <2>3, ChecksFlat
  <2>5. InFieldChecks(Checks, f) = Flat(g, n)
    BY <1>2, <1>4, <2>1, InFieldIs
  <2> QED
    BY <1>3, <2>3, <2>4, <2>5
<1>5. CASE f.ignore # "none"
  <2>1. InFieldChecks(Checks, f) = <<>>
    BY <1>5 DEF InFieldChecks
  <2> QED
    BY <1>3, <2>1, NoChecks
<1> QED
  BY <1>4, <1>5

\* The parts of a message's checks.
LEMMA ChecksOfParts ==
  ASSUME NEW height, ShownTrees(height), NEW m \in Messages, m.load = Ok
  PROVE  IsJoined(Checks[m], Flat(RuleSeqs(m), Len(m.rules)), Flat(FieldSeqs(m), Len(m.fields)))
<1>1. Checks[m] = Body(Checks, m)
  BY ChecksIs
<1>2. [i \in 1..Len(m.rules) |-> RuleSeqs(m)[i]] = [i \in 1..Len(m.rules) |-> RuleChecks(m.rules[i])]
  BY DEF RuleSeqs
<1>3. [i \in 1..Len(m.fields) |-> FieldSeqs(m)[i]]
        = [i \in 1..Len(m.fields) |-> InFieldChecks(Checks, m.fields[i])]
  BY DEF FieldSeqs
<1>4. Body(Checks, m) = FlattenSeq([i \in 1..Len(m.rules) |-> RuleChecks(m.rules[i])])
        \o FlattenSeq([i \in 1..Len(m.fields) |-> InFieldChecks(Checks, m.fields[i])])
  BY DEF Body
<1> QED
  BY <1>1, <1>2, <1>3, <1>4 DEF IsJoined, Flat

\* A message whose type has no rules has one check, which cannot be made.
LEMMA LoadCheckIs ==
  ASSUME NEW height, ShownTrees(height), NEW m \in Messages, m.load # Ok, NEW ff
  PROVE  AreChecks(Checks[m], MessageOutcomes) /\ Reports(ff, Checks[m], m.load)
<1>1. Checks[m] = <<LoadCheck(m)>>
  <2>1. Checks[m] = Body(Checks, m)
    BY ChecksIs
  <2> QED
    BY <2>1 DEF Body
<1>2. PICK c : c = LoadCheck(m)
  OBVIOUS
<1>3. PICK id, x, o : id = "load" /\ x = NoField /\ o = m.load
  OBVIOUS
<1>4. PICK none, value : none = <<>> /\ value = NoValue
  OBVIOUS
<1>5. c = [id |-> id, field |-> none, rule |-> none, forKey |-> FALSE, fieldValue |-> value,
           ruleValue |-> x, outcome |-> o]
  BY <1>2, <1>3, <1>4 DEF LoadCheck, Check
<1>6. Sequence(none)
  BY <1>4, OneSequence
<1>7. c.outcome = o /\ c.rule = none
  BY <1>5
<1>8. CheckRecord(c)
  BY <1>5, <1>6, <1>7 DEF CheckRecord
<1>9. m.load \in Statuses
  BY DEF ShownTrees, MessageTrees
<1>10. AreChecks(<<c>>, MessageOutcomes)
  <2>1. PICK O : O = MessageOutcomes
    OBVIOUS
  <2>2. c.outcome \in O
    BY <1>3, <1>7, <1>9, <2>1 DEF MessageOutcomes
  <2>3. AreChecks(<<c>>, O)
    BY <1>8, <2>2, OneCheck
  <2> QED
    BY <2>1, <2>3
<1>11. Reports(ff, <<c>>, m.load)
  <2>1. PICK s : s = <<c>>
    OBVIOUS
  <2>2. Len(s) = 1 /\ s[1] = c
    BY <2>1, OneSequence
  <2>3. Erred(c)
    BY <1>3, <1>7, <1>9 DEF Erred, Statuses, Ok, Invalid
  <2> QED
    BY <1>3, <1>7, <2>1, <2>2, <2>3 DEF Reports, HasStatus, IsFirst
<1> QED
  BY <1>1, <1>2, <1>10, <1>11

\* The checks of every message are checks, by induction on the height.
LEMMA ChecksAre ==
  ASSUME NEW height, ShownTrees(height)
  PROVE  \A m \in Messages : AreChecks(Checks[m], MessageOutcomes)
<1>0. \A m \in Messages : height[m] \in Nat
  BY DEF ShownTrees
<1> DEFINE T == {n \in Nat : \A m \in Messages : height[m] < n => AreChecks(Checks[m], MessageOutcomes)}
<1>1. 0 \in T
  BY <1>0
<1>2. ASSUME NEW n \in Nat, n \in T PROVE n + 1 \in T
  <2> SUFFICES ASSUME NEW m \in Messages, height[m] < n + 1
               PROVE  AreChecks(Checks[m], MessageOutcomes)
    OBVIOUS
  <2>1. BelowAreChecks(m)
    <3>1. ASSUME NEW i \in 1..Len(m.fields), NEW e \in 1..Len(m.fields[i].elems)
          PROVE  AreChecks(Checks[m.fields[i].elems[e].message], MessageOutcomes)
      <4>1. PICK s : s = m.fields[i].elems[e].message
        OBVIOUS
      <4>2. s \in Messages /\ height[s] \in Nat /\ height[m] \in Nat /\ height[s] < height[m]
        BY <4>1, SubHeight
      <4>3. height[s] < n
        BY <4>2
      <4> QED
        BY <1>2, <4>1, <4>2, <4>3
    <3> QED
      BY <3>1 DEF BelowAreChecks
  <2>2. CASE m.load # Ok
    BY <2>2, LoadCheckIs
  <2>3. CASE m.load = Ok
    <3>1. PICK c : c = Checks[m]
      OBVIOUS
    <3>2. PICK N \in Nat, M \in Nat : N = Len(m.rules) /\ M = Len(m.fields)
      BY MessageLens
    <3>3. PICK g, h : g = RuleSeqs(m) /\ h = FieldSeqs(m)
      OBVIOUS
    <3>4. PICK a, b : a = Flat(g, N) /\ b = Flat(h, M)
      OBVIOUS
    <3>5. IsJoined(c, a, b)
      BY <2>3, <3>1, <3>2, <3>3, <3>4, ChecksOfParts
    <3>6. PICK O : O = MessageOutcomes
      OBVIOUS
    <3>7. \A i \in 1..N : AreChecks(g[i], O)
      BY <3>2, <3>3, <3>6, RuleSeqsAre
    <3>8. \A i \in 1..M : AreChecks(h[i], O)
      BY <2>1, <3>2, <3>3, <3>6, FieldSeqsAre
    <3>9. AreChecks(a, O)
      BY <3>4, <3>7, ChecksFlat
    <3>10. AreChecks(b, O)
      BY <3>4, <3>8, ChecksFlat
    <3>11. AreChecks(c, O)
      BY <3>5, <3>9, <3>10, ChecksJoined
    <3> QED
      BY <3>1, <3>6, <3>11
  <2> QED
    BY <2>2, <2>3
<1> HIDE DEF T
<1>3. Nat \subseteq T
  BY <1>1, <1>2, Induction
<1>4. ASSUME NEW m \in Messages PROVE AreChecks(Checks[m], MessageOutcomes)
  <2>1. PICK n \in Nat : n = height[m] + 1
    BY <1>0
  <2>2. height[m] < n
    BY <1>0, <2>1
  <2>3. n \in T
    BY <1>3
  <2> QED
    BY <2>2, <2>3 DEF T
<1> QED
  BY <1>4

\* So are those of the messages in it.
LEMMA BelowAre ==
  ASSUME NEW height, ShownTrees(height), NEW m \in Messages
  PROVE  BelowAreChecks(m)
<1>1. ASSUME NEW i \in 1..Len(m.fields), NEW e \in 1..Len(m.fields[i].elems)
      PROVE  AreChecks(Checks[m.fields[i].elems[e].message], MessageOutcomes)
  BY SubHeight, ChecksAre
<1> QED
  BY <1>1 DEF BelowAreChecks
-------------------------------------------------------------------------------
(* How far an activation of ValidateMessage is.                            *)

\* The checks of m made after r of its rules, f of its fields and e of the messages
\* in the next field.
DidElems(m, f, e) == Flat(ElemSeqs(m.fields[f + 1]), e)
DidParts(m, r, f) == Flat(RuleSeqs(m), r) \o Flat(FieldSeqs(m), f)
Did(m, r, f, e) == DidParts(m, r, f) \o DidElems(m, f, e)

\* a is the beginning of c.
Starts(a, c) == Sequence(a) /\ \E rest : Sequence(rest) /\ IsJoined(c, a, rest)

\* What a longer sequence starts with starts with what the shorter one does.
LEMMA StartsTwice ==
  ASSUME NEW a, NEW b, NEW c, Starts(a, b), Starts(b, c)
  PROVE  Starts(a, c)
<1>1. PICK p : Sequence(p) /\ IsJoined(b, a, p)
  BY DEF Starts
<1>2. PICK q : Sequence(q) /\ IsJoined(c, b, q)
  BY DEF Starts
<1>3. Sequence(a)
  BY DEF Starts
<1>4. (a \o p) \o q = a \o (p \o q)
  BY <1>1, <1>2, <1>3, JoinedTwice
<1>5. Sequence(p \o q)
  BY <1>1, <1>2, Joined
<1>6. IsJoined(c, a, p \o q)
  BY <1>1, <1>2, <1>4 DEF IsJoined
<1> QED
  BY <1>3, <1>5, <1>6 DEF Starts

\* Every sequence starts with itself.
LEMMA StartsSelf ==
  ASSUME NEW a, Sequence(a)
  PROVE  Starts(a, a)
<1>1. a \o <<>> = a
  BY JoinedEmpty
<1>2. Sequence(<<>>)
  BY DEF Sequence
<1> QED
  BY <1>1, <1>2 DEF Starts, IsJoined

\* Two sequences in a row start with the first.
LEMMA StartsJoined ==
  ASSUME NEW a, NEW b, NEW c, Sequence(a), Sequence(b), IsJoined(c, a, b)
  PROVE  Starts(a, c)
BY DEF Starts

\* Putting the same sequence before both keeps the start.
LEMMA StartsAfter ==
  ASSUME NEW x, NEW a, NEW b, NEW c, NEW d, Sequence(x), Starts(a, b), IsJoined(c, x, a),
         IsJoined(d, x, b)
  PROVE  Starts(c, d)
<1>1. PICK p : Sequence(p) /\ IsJoined(b, a, p)
  BY DEF Starts
<1>2. Sequence(a)
  BY DEF Starts
<1>3. (x \o a) \o p = x \o (a \o p)
  BY <1>1, <1>2, JoinedTwice
<1>4. Sequence(x \o a)
  BY <1>2, Joined
<1> QED
  BY <1>1, <1>3, <1>4 DEF Starts, IsJoined

\* The first check that cannot be made stays the first in what starts so.
LEMMA ReportsOfStart ==
  ASSUME NEW ff, NEW a, NEW c, NEW s, Starts(a, c), Reports(ff, a, s)
  PROVE  Reports(ff, c, s)
<1>1. PICK p : Sequence(p) /\ IsJoined(c, a, p)
  BY DEF Starts
<1>2. Sequence(a)
  BY DEF Starts
<1> QED
  BY <1>1, <1>2, ReportsBefore

\* One sequence more of those that are flattened.
LEMMA FlatNext ==
  ASSUME NEW g, NEW N \in Nat, AllSequences(g, N), NEW n \in 0..N, NEW k \in 0..N, IsSum(k, n, 1)
  PROVE  IsJoined(Flat(g, k), Flat(g, n), g[k])
<1>1. \A i \in 1..N : Sequence(g[i])
  BY DEF AllSequences
<1>2. \A i \in 0..N : i < N => Flat(g, i + 1) = Flat(g, i) \o g[i + 1]
  BY <1>1, FlatGrows
<1>3. k = n + 1 /\ n < N
  BY DEF IsSum
<1> QED
  BY <1>2, <1>3 DEF IsJoined

\* Flattened sequences are a sequence, those flattened first its start.
LEMMA FlatStarts ==
  ASSUME NEW g, NEW N \in Nat, AllSequences(g, N), NEW n \in 0..N
  PROVE  Sequence(Flat(g, n)) /\ Sequence(Flat(g, N)) /\ Starts(Flat(g, n), Flat(g, N))
<1>1. \A i \in 1..N : Sequence(g[i])
  BY DEF AllSequences
<1>2. \A i \in 0..N : Sequence(Flat(g, i))
  BY <1>1, FlatGrows
<1>3. N \in 0..N
  OBVIOUS
<1>4. \E rest : Sequence(rest) /\ Flat(g, N) = Flat(g, n) \o rest
  BY <1>1, FlatRest
<1> QED
  BY <1>2, <1>3, <1>4 DEF Starts, IsJoined

\* Nothing to flatten.
LEMMA FlatNone ==
  ASSUME NEW g
  PROVE  Flat(g, 0) = <<>>
BY FlatSteps
-------------------------------------------------------------------------------
(* The parts of a message's checks are sequences.                          *)

\* The checks of rules and fields are sequences.
LEMMA SeqsAre ==
  ASSUME NEW height, ShownTrees(height), NEW m \in Messages
  PROVE  /\ AllSequences(RuleSeqs(m), Len(m.rules))
         /\ AllSequences(FieldSeqs(m), Len(m.fields))
<1>1. BelowAreChecks(m)
  BY BelowAre
<1>2. \A i \in 1..Len(m.rules) : Sequence(RuleSeqs(m)[i])
  BY RuleSeqsAre DEF AreChecks
<1>3. \A i \in 1..Len(m.fields) : Sequence(FieldSeqs(m)[i])
  BY <1>1, FieldSeqsAre DEF AreChecks
<1> QED
  BY <1>2, <1>3 DEF AllSequences

\* And those of the messages in a field.
LEMMA ElemsAre ==
  ASSUME NEW height, ShownTrees(height), NEW m \in Messages, NEW i \in 1..Len(m.fields)
  PROVE  AllSequences(ElemSeqs(m.fields[i]), Len(m.fields[i].elems))
<1>1. BelowAreChecks(m)
  BY BelowAre
<1>2. \A e \in 1..Len(m.fields[i].elems) : Sequence(ElemSeqs(m.fields[i])[e])
  BY <1>1, ElemSeqsAre DEF AreChecks
<1> QED
  BY <1>2 DEF AllSequences

\* As far as an activation can be in m.
Reached(m, r, f, e) ==
  /\ r \in 0..Len(m.rules) /\ f \in 0..Len(m.fields) /\ e \in Nat
  /\ e # 0 => /\ f + 1 \in 1..Len(m.fields)
              /\ e \in 0..Len(m.fields[f + 1].elems) /\ m.fields[f + 1].ignore = "none"

\* What has been done is a sequence, and its parts are.
LEMMA DidSequence ==
  ASSUME NEW height, ShownTrees(height), NEW m \in Messages, NEW r, NEW f, NEW e,
         Reached(m, r, f, e)
  PROVE  Sequence(DidParts(m, r, f)) /\ Sequence(DidElems(m, f, e)) /\ Sequence(Did(m, r, f, e))
<1>1. Len(m.rules) \in Nat /\ Len(m.fields) \in Nat
  BY MessageLens
<1>2. Sequence(Flat(RuleSeqs(m), r)) /\ Sequence(Flat(FieldSeqs(m), f))
  <2>1. PICK g : g = RuleSeqs(m)
    OBVIOUS
  <2>2. PICK h : h = FieldSeqs(m)
    OBVIOUS
  <2>3. AllSequences(g, Len(m.rules)) /\ AllSequences(h, Len(m.fields))
    BY <2>1, <2>2, SeqsAre
  <2>4. Sequence(Flat(g, r))
    BY <1>1, <2>3, FlatStarts DEF Reached
  <2>5. Sequence(Flat(h, f))
    BY <1>1, <2>3, FlatStarts DEF Reached
  <2> QED
    BY <2>1, <2>2, <2>4, <2>5
<1>3. Sequence(DidParts(m, r, f))
  BY <1>2, Joined DEF DidParts
<1>4. Sequence(DidElems(m, f, e))
  <2>1. CASE e = 0
    <3>1. DidElems(m, f, e) = <<>>
      BY <2>1, FlatNone DEF DidElems
    <3> QED
      BY <3>1 DEF Sequence
  <2>2. CASE e # 0
    <3>1. PICK i \in 1..Len(m.fields) : i = f + 1
      BY <2>2 DEF Reached
    <3>2. e \in 0..Len(m.fields[i].elems)
      BY <2>2, <3>1 DEF Reached
    <3>3. PICK g : g = ElemSeqs(m.fields[i])
      OBVIOUS
    <3>4. PICK n \in Nat : n = Len(m.fields[i].elems)
      BY MessageLens
    <3>5. AllSequences(g, n) /\ e \in 0..n
      BY <3>2, <3>3, <3>4, ElemsAre
    <3>6. Sequence(Flat(g, e))
      BY <3>5, FlatStarts
    <3> QED
      BY <3>1, <3>3, <3>6 DEF DidElems
  <2> QED
    BY <2>1, <2>2
<1> QED
  BY <1>3, <1>4, Joined DEF Did

\* Nothing has been done at the start.
LEMMA DidNothing ==
  ASSUME NEW m
  PROVE  Did(m, 0, 0, 0) = <<>>
<1>1. \A g : Flat(g, 0) = <<>>
  BY FlatNone
<1>2. <<>> \o <<>> = <<>>
  OBVIOUS
<1> QED
  BY <1>1, <1>2 DEF Did, DidParts, DidElems

\* Before the first field only rules have been evaluated.
LEMMA DidOnlyRules ==
  ASSUME NEW height, ShownTrees(height), NEW m \in Messages, NEW r \in 0..Len(m.rules)
  PROVE  Did(m, r, 0, 0) = Flat(RuleSeqs(m), r)
<1>1. \A g : Flat(g, 0) = <<>>
  BY FlatNone
<1>2. Len(m.rules) \in Nat /\ Len(m.fields) \in Nat
  BY MessageLens
<1>3. Sequence(Flat(RuleSeqs(m), r))
  <2>1. PICK g : g = RuleSeqs(m)
    OBVIOUS
  <2>2. AllSequences(g, Len(m.rules))
    BY <2>1, SeqsAre
  <2>3. Sequence(Flat(g, r))
    BY <1>2, <2>2, FlatStarts
  <2> QED
    BY <2>1, <2>3
<1>4. Flat(RuleSeqs(m), r) \o <<>> = Flat(RuleSeqs(m), r)
  BY <1>3, JoinedEmpty
<1>5. DidElems(m, 0, 0) = <<>>
  BY <1>1 DEF DidElems
<1>6. Flat(FieldSeqs(m), 0) = <<>>
  BY <1>1
<1>7. DidParts(m, r, 0) = Flat(RuleSeqs(m), r)
  BY <1>4, <1>6 DEF DidParts
<1> QED
  BY <1>4, <1>5, <1>7 DEF Did

\* One rule more.
LEMMA DidRule ==
  ASSUME NEW height, ShownTrees(height), NEW m \in Messages, NEW r \in 0..Len(m.rules),
         NEW k \in 1..Len(m.rules), IsSum(k, r, 1)
  PROVE  IsJoined(Did(m, k, 0, 0), Did(m, r, 0, 0), RuleChecks(m.rules[k]))
<1>1. PICK N \in Nat : N = Len(m.rules)
  BY MessageLens
<1>2. PICK g : g = RuleSeqs(m)
  OBVIOUS
<1>3. AllSequences(g, N)
  BY <1>1, <1>2, SeqsAre
<1>4. r \in 0..N /\ k \in 0..N /\ k \in 0..Len(m.rules)
  BY <1>1
<1>5. IsJoined(Flat(g, k), Flat(g, r), g[k])
  BY <1>3, <1>4, FlatNext
<1>6. g[k] = RuleChecks(m.rules[k])
  BY <1>2 DEF RuleSeqs
<1>7. Did(m, k, 0, 0) = Flat(g, k)
  BY <1>2, <1>4, DidOnlyRules
<1>8. Did(m, r, 0, 0) = Flat(g, r)
  BY <1>2, DidOnlyRules
<1> QED
  BY <1>5, <1>6, <1>7, <1>8

\* The message at one element more.
LEMMA DidElem ==
  ASSUME NEW height, ShownTrees(height), NEW m \in Messages, NEW r, NEW f, NEW e, NEW k, NEW i,
         Reached(m, r, f, e), Reached(m, r, f, k), IsSum(k, e, 1), IsSum(i, f, 1)
  PROVE  IsJoined(Did(m, r, f, k), Did(m, r, f, e), ElementChecks(Checks, m.fields[i], k))
<1>1. /\ i \in 1..Len(m.fields) /\ k \in 1..Len(m.fields[i].elems) /\ e \in Nat /\ f + 1 = i
      /\ Len(m.fields[i].elems) \in Nat
  <2>1. k # 0 /\ i = f + 1 /\ e \in Nat /\ k = e + 1
    BY DEF Reached, IsSum
  <2>2. i \in 1..Len(m.fields) /\ k \in 0..Len(m.fields[i].elems)
    BY <2>1 DEF Reached
  <2>3. Len(m.fields[i].elems) \in Nat
    BY <2>2, MessageLens
  <2> QED
    BY <2>1, <2>2, <2>3
<1>2. PICK g : g = ElemSeqs(m.fields[i])
  OBVIOUS
<1>3. PICK N \in Nat : N = Len(m.fields[i].elems)
  BY <1>1
<1>4. AllSequences(g, N)
  BY <1>1, <1>2, <1>3, ElemsAre
<1>5. e \in 0..N /\ k \in 0..N
  BY <1>1, <1>3 DEF IsSum
<1>6. IsJoined(Flat(g, k), Flat(g, e), g[k])
  BY <1>4, <1>5, FlatNext
<1>7. PICK x : x = ElementChecks(Checks, m.fields[i], k)
  OBVIOUS
<1>8. g[k] = x
  BY <1>1, <1>2, <1>7 DEF ElemSeqs
<1>9. DidElems(m, f, k) = Flat(g, k) /\ DidElems(m, f, e) = Flat(g, e)
  BY <1>1, <1>2 DEF DidElems
<1>10. PICK a : a = DidParts(m, r, f)
  OBVIOUS
<1>11. PICK b : b = Flat(g, e)
  OBVIOUS
<1>12. Sequence(a) /\ Sequence(b)
  BY <1>9, <1>10, <1>11, DidSequence
<1>13. Sequence(x)
  BY <1>1, <1>3, <1>4, <1>8 DEF AllSequences
<1>14. (a \o b) \o x = a \o (b \o x)
  BY <1>12, <1>13, JoinedTwice
<1>15. Did(m, r, f, k) = a \o (b \o x)
  BY <1>6, <1>8, <1>9, <1>10, <1>11 DEF Did, IsJoined
<1>16. Did(m, r, f, e) = a \o b
  BY <1>9, <1>10, <1>11 DEF Did
<1> QED
  BY <1>7, <1>14, <1>15, <1>16 DEF IsJoined

\* A field that is passed over, or all of whose messages are done, has no more checks.
FieldOver(m, f, e) ==
  LET i == f + 1
  IN  /\ i \in 1..Len(m.fields)
      /\ \/ Skipped(m.fields[i]) /\ e = 0
         \/ m.fields[i].ignore = "none" /\ e = Len(m.fields[i].elems)

\* The checks of a field are those of the messages in it, if they are not exempt.
LEMMA FieldSeqIs ==
  ASSUME NEW height, ShownTrees(height), NEW m \in Messages, NEW f, NEW e, NEW i,
         FieldOver(m, f, e), IsSum(i, f, 1)
  PROVE  i \in 1..Len(m.fields) /\ FieldSeqs(m)[i] = DidElems(m, f, e)
<1>1. i = f + 1 /\ i \in 1..Len(m.fields)
  BY DEF FieldOver, IsSum
<1>2. PICK x : x = m.fields[i]
  OBVIOUS
<1>3. FieldSeqs(m)[i] = InFieldChecks(Checks, x)
  BY <1>1, <1>2 DEF FieldSeqs
<1>4. DidElems(m, f, e) = Flat(ElemSeqs(x), e)
  BY <1>1, <1>2 DEF DidElems
<1>5. CASE x.ignore = "none" /\ e = Len(x.elems)
  <2>1. InFieldChecks(Checks, x) = Flat(ElemSeqs(x), Len(x.elems))
    BY <1>5, InFieldIs
  <2> QED
    BY <1>1, <1>3, <1>4, <1>5, <2>1
<1>6. CASE Skipped(x) /\ e = 0
  <2>1. Flat(ElemSeqs(x), 0) = <<>>
    BY FlatNone
  <2>2. InFieldChecks(Checks, x) = <<>>
    <3>1. CASE x.ignore = "none"
      <4>1. ~x.isMessage
        BY <1>6, <3>1 DEF Skipped
      <4>2. x.elems = <<>>
        BY <1>1, <1>2, <4>1 DEF ShownTrees
      <4>3. Len(x.elems) = 0
        BY <4>2
      <4> QED
        BY <2>1, <3>1, <4>3, InFieldIs
    <3>2. CASE x.ignore # "none"
      BY <3>2 DEF InFieldChecks
    <3> QED
      BY <3>1, <3>2
  <2> QED
    BY <1>1, <1>3, <1>4, <1>6, <2>1, <2>2
<1>7. (Skipped(x) /\ e = 0) \/ (x.ignore = "none" /\ e = Len(x.elems))
  BY <1>1, <1>2 DEF FieldOver
<1> QED
  BY <1>5, <1>6, <1>7

\* After the last message of a field the next field starts.
LEMMA DidField ==
  ASSUME NEW height, ShownTrees(height), NEW m \in Messages, NEW r, NEW f, NEW e, NEW i,
         Reached(m, r, f, e), FieldOver(m, f, e), IsSum(i, f, 1)
  PROVE  Reached(m, r, i, 0) /\ Did(m, r, i, 0) = Did(m, r, f, e)
<1>1. i \in 1..Len(m.fields) /\ FieldSeqs(m)[i] = DidElems(m, f, e)
  BY FieldSeqIs
<1>2. Reached(m, r, i, 0)
  BY <1>1 DEF Reached
<1>3. PICK N \in Nat : N = Len(m.fields)
  BY MessageLens
<1>4. PICK g : g = FieldSeqs(m)
  OBVIOUS
<1>5. AllSequences(g, N)
  BY <1>3, <1>4, SeqsAre
<1>6. f \in 0..N /\ i \in 0..N
  BY <1>1, <1>3 DEF Reached
<1>7. IsJoined(Flat(g, i), Flat(g, f), g[i])
  BY <1>5, <1>6, FlatNext
<1>8. PICK a : a = Flat(RuleSeqs(m), r)
  OBVIOUS
<1>9. PICK b : b = Flat(g, f)
  OBVIOUS
<1>10. PICK c : c = DidElems(m, f, e)
  OBVIOUS
<1>11. Sequence(a) /\ Sequence(b) /\ Sequence(c)
  <2>1. Sequence(Flat(g, f))
    BY <1>5, <1>6, FlatStarts
  <2>2. PICK M \in Nat : M = Len(m.rules)
    BY MessageLens
  <2>3. PICK h : h = RuleSeqs(m)
    OBVIOUS
  <2>4. AllSequences(h, M) /\ r \in 0..M
    BY <2>2, <2>3, SeqsAre DEF Reached
  <2>5. Sequence(Flat(h, r))
    BY <2>4, FlatStarts
  <2>6. Sequence(DidElems(m, f, e))
    BY DidSequence
  <2> QED
    BY <1>8, <1>9, <1>10, <2>1, <2>3, <2>5, <2>6
<1>12. (a \o b) \o c = a \o (b \o c)
  BY <1>11, JoinedTwice
<1>13. Did(m, r, f, e) = (a \o b) \o c
  BY <1>4, <1>8, <1>9, <1>10 DEF Did, DidParts
<1>14. DidParts(m, r, i) = a \o (b \o c)
  BY <1>1, <1>4, <1>7, <1>8, <1>9, <1>10 DEF DidParts, IsJoined
<1>15. DidElems(m, i, 0) = <<>>
  BY FlatNone DEF DidElems
<1>16. Sequence(DidParts(m, r, i))
  BY <1>2, DidSequence
<1>17. DidParts(m, r, i) \o <<>> = DidParts(m, r, i)
  BY <1>16, JoinedEmpty
<1>18. Did(m, r, i, 0) = a \o (b \o c)
  BY <1>14, <1>15, <1>17 DEF Did
<1> QED
  BY <1>2, <1>12, <1>13, <1>18

\* After the last field all the checks of the message have been made.
LEMMA DidAll ==
  ASSUME NEW height, ShownTrees(height), NEW m \in Messages, m.load = Ok
  PROVE  Did(m, Len(m.rules), Len(m.fields), 0) = Checks[m]
<1>1. PICK r \in Nat : r = Len(m.rules)
  BY MessageLens
<1>2. PICK f \in Nat : f = Len(m.fields)
  BY MessageLens
<1>3. IsJoined(Checks[m], Flat(RuleSeqs(m), r), Flat(FieldSeqs(m), f))
  BY <1>1, <1>2, ChecksOfParts
<1>4. DidParts(m, r, f) = Checks[m]
  BY <1>3 DEF DidParts, IsJoined
<1>5. DidElems(m, f, 0) = <<>>
  BY FlatNone DEF DidElems
<1>6. Reached(m, r, f, 0)
  BY <1>1, <1>2 DEF Reached
<1>7. Sequence(DidParts(m, r, f))
  BY <1>6, DidSequence
<1>8. DidParts(m, r, f) \o <<>> = DidParts(m, r, f)
  BY <1>7, JoinedEmpty
<1>9. Did(m, r, f, 0) = Checks[m]
  BY <1>4, <1>5, <1>8 DEF Did
<1> QED
  BY <1>1, <1>2, <1>9

\* While rules are evaluated the checks made are the first of the message's.
LEMMA RulesStart ==
  ASSUME NEW height, ShownTrees(height), NEW m \in Messages, m.load = Ok, NEW r \in 0..Len(m.rules)
  PROVE  Starts(Did(m, r, 0, 0), Checks[m])
<1>1. PICK M \in Nat : M = Len(m.rules)
  BY MessageLens
<1>2. PICK N \in Nat : N = Len(m.fields)
  BY MessageLens
<1>3. PICK g : g = RuleSeqs(m)
  OBVIOUS
<1>4. PICK h : h = FieldSeqs(m)
  OBVIOUS
<1>5. AllSequences(g, M) /\ AllSequences(h, N) /\ r \in 0..M /\ N \in 0..N
  BY <1>1, <1>2, <1>3, <1>4, SeqsAre
<1>6. Starts(Flat(g, r), Flat(g, M)) /\ Sequence(Flat(g, M))
  BY <1>5, FlatStarts
<1>7. Sequence(Flat(h, N))
  BY <1>5, FlatStarts
<1>8. IsJoined(Checks[m], Flat(g, M), Flat(h, N))
  BY <1>1, <1>2, <1>3, <1>4, ChecksOfParts
<1>9. Starts(Flat(g, M), Checks[m])
  BY <1>6, <1>7, <1>8, StartsJoined
<1>10. Starts(Flat(g, r), Checks[m])
  BY <1>6, <1>9, StartsTwice
<1>11. Did(m, r, 0, 0) = Flat(g, r)
  BY <1>3, DidOnlyRules
<1> QED
  BY <1>10, <1>11

\* Between two fields the checks made are the first of the message's.
LEMMA BetweenFields ==
  ASSUME NEW height, ShownTrees(height), NEW m \in Messages, m.load = Ok, NEW r, r = Len(m.rules),
         NEW f \in 0..Len(m.fields)
  PROVE  Starts(Did(m, r, f, 0), Checks[m])
<1>1. r \in Nat
  BY MessageLens
<1>2. PICK N \in Nat : N = Len(m.fields)
  BY MessageLens
<1>3. PICK g : g = RuleSeqs(m)
  OBVIOUS
<1>4. PICK h : h = FieldSeqs(m)
  OBVIOUS
<1>5. AllSequences(g, r) /\ AllSequences(h, N) /\ r \in 0..r /\ f \in 0..N
  BY <1>1, <1>2, <1>3, <1>4, SeqsAre
<1>6. Starts(Flat(h, f), Flat(h, N))
  BY <1>5, FlatStarts
<1>7. Sequence(Flat(g, r))
  BY <1>1, <1>5, FlatStarts
<1>8. PICK x : x = Flat(g, r)
  OBVIOUS
<1>9. PICK a : a = Flat(h, f)
  OBVIOUS
<1>10. PICK b : b = Flat(h, N)
  OBVIOUS
<1>11. PICK c : c = DidParts(m, r, f)
  OBVIOUS
<1>12. IsJoined(c, x, a)
  BY <1>3, <1>4, <1>8, <1>9, <1>11 DEF DidParts, IsJoined
<1>13. IsJoined(Checks[m], x, b)
  <2>1. IsJoined(Checks[m], Flat(g, r), Flat(h, N))
    BY <1>2, <1>3, <1>4, ChecksOfParts
  <2> QED
    BY <1>8, <1>10, <2>1
<1>14. Sequence(x) /\ Starts(a, b)
  BY <1>6, <1>7, <1>8, <1>9, <1>10
<1>15. Starts(c, Checks[m])
  BY <1>12, <1>13, <1>14, StartsAfter
<1>16. Sequence(c)
  BY <1>15 DEF Starts
<1>17. c \o <<>> = c
  BY <1>16, JoinedEmpty
<1>18. DidElems(m, f, 0) = <<>>
  BY FlatNone DEF DidElems
<1>19. Did(m, r, f, 0) = c
  BY <1>11, <1>17, <1>18 DEF Did
<1> QED
  BY <1>15, <1>19

\* So are those made after any of the messages in a field.
LEMMA FieldsStart ==
  ASSUME NEW height, ShownTrees(height), NEW m \in Messages, m.load = Ok, NEW r, r = Len(m.rules),
         NEW f, NEW e, Reached(m, r, f, e)
  PROVE  Starts(Did(m, r, f, e), Checks[m])
<1>1. CASE e = 0
  <2>1. f \in 0..Len(m.fields)
    BY DEF Reached
  <2> QED
    BY <1>1, <2>1, BetweenFields
<1>2. CASE e # 0
  <2>1. PICK i \in 1..Len(m.fields) : i = f + 1
    BY <1>2 DEF Reached
  <2>2. e \in 0..Len(m.fields[i].elems) /\ m.fields[i].ignore = "none"
    BY <1>2, <2>1 DEF Reached
  <2>3. PICK g : g = ElemSeqs(m.fields[i])
    OBVIOUS
  <2>4. PICK n \in Nat : n = Len(m.fields[i].elems)
    BY MessageLens
  <2>5. AllSequences(g, n) /\ e \in 0..n
    BY <2>2, <2>3, <2>4, ElemsAre
  <2>6. PICK a : a = Flat(g, e)
    OBVIOUS
  <2>7. PICK b : b = Flat(g, n)
    OBVIOUS
  <2>8. Starts(a, b)
    BY <2>5, <2>6, <2>7, FlatStarts
  <2>9. PICK x : x = DidParts(m, r, f)
    OBVIOUS
  <2>10. Sequence(x)
    BY <2>9, DidSequence
  <2>11. PICK c : c = Did(m, r, f, e)
    OBVIOUS
  <2>12. PICK d : d = Did(m, r, f, n)
    OBVIOUS
  <2>13. IsJoined(c, x, a) /\ IsJoined(d, x, b)
    BY <2>1, <2>3, <2>6, <2>7, <2>9, <2>11, <2>12 DEF Did, DidElems, IsJoined
  <2>14. Starts(c, d)
    BY <2>8, <2>10, <2>13, StartsAfter
  <2>15. Reached(m, r, f, n) /\ FieldOver(m, f, n) /\ IsSum(i, f, 1)
    <3>1. n \in 0..Len(m.fields[i].elems)
      BY <2>4
    <3>2. r \in 0..Len(m.rules) /\ f \in 0..Len(m.fields)
      BY DEF Reached
    <3> QED
      BY <2>1, <2>2, <2>4, <3>1, <3>2 DEF Reached, FieldOver, IsSum
  <2>16. Did(m, r, i, 0) = Did(m, r, f, n)
    BY <2>15, DidField
  <2>17. Starts(Did(m, r, i, 0), Checks[m])
    <3>1. i \in 0..Len(m.fields)
      OBVIOUS
    <3> QED
      BY <3>1, BetweenFields
  <2>18. Starts(d, Checks[m])
    BY <2>12, <2>16, <2>17
  <2>19. Starts(c, Checks[m])
    BY <2>14, <2>18, StartsTwice
  <2> QED
    BY <2>11, <2>19
<1> QED
  BY <1>1, <1>2
-------------------------------------------------------------------------------
(* The inductive invariant of the walk.                                    *)

\* The checks that an activation has made.
DidBy(fr) == Did(fr.message, fr.rule - 1, fr.field - 1, fr.elem - 1)

\* They could be made, and what they found is among vs from where the activation
\* started to hi.
Explains(vs, fr, hi) == NoErrors(DidBy(fr)) /\ FindsIn(vs, fr.pos, hi, DidBy(fr))

\* fr is in the loop over messages in fields, and m is the one it has come to.
Calls(fr, m) ==
  /\ fr.message.load = Ok
  /\ fr.rule = Len(fr.message.rules) + 1
  /\ fr.field \in 1..Len(fr.message.fields)
  /\ ~Skipped(fr.message.fields[fr.field])
  /\ fr.elem \in 1..Len(fr.message.fields[fr.field].elems)
  /\ fr.message.fields[fr.field].elems[fr.elem].message = m

\* The part of the invariant about every activation but the one on top.
Callers(stack, vs) ==
  /\ \A i, j \in 1..Len(stack) : i <= j => stack[i].pos <= stack[j].pos
  /\ \A i, j \in 1..Len(stack) : j = i + 1 =>
       Calls(stack[i], stack[j].message) /\ Explains(vs, stack[i], stack[j].pos)

\* Where the activation on top is.
At(fr, p) ==
  CASE p = "enter"  -> fr.rule = 1 /\ fr.field = 1 /\ fr.elem = 1
    [] p = "rules"  -> fr.message.load = Ok /\ fr.field = 1 /\ fr.elem = 1
    [] p = "fields" ->
         /\ fr.message.load = Ok /\ fr.rule = Len(fr.message.rules) + 1
         /\ fr.elem # 1 => /\ fr.field \in 1..Len(fr.message.fields)
                           /\ ~Skipped(fr.message.fields[fr.field])
                           /\ fr.elem \in 1..(Len(fr.message.fields[fr.field].elems) + 1)

Going(p) == p \in {"enter", "rules", "fields"}

\* What it has found, or what it returns.
OnWay(ff, vs, fr, p, s) ==
  Going(p) => /\ s = Ok /\ ~ShouldReturn(ff, vs, Ok) /\ At(fr, p) /\ Explains(vs, fr, Len(vs))

Returns(ff, vs, fr, s) ==
  /\ ~ShouldReturn(ff, vs, s) =>
       NoErrors(Checks[fr.message]) /\ FindsIn(vs, fr.pos, Len(vs), Checks[fr.message])
  /\ s = Ok => PicksIn(vs, fr.pos, Len(vs), Checks[fr.message])
  /\ s # Ok => Reports(ff, Checks[fr.message], s)

RootFrame(stack, m) == stack[1].message = m /\ stack[1].pos = 0

WalkFinds ==
  ~Done => /\ Callers(frames, violations)
           /\ RootFrame(frames, root)
           /\ OnWay(failFast, violations, Top, pc, status)
           /\ pc = "return" => Returns(failFast, violations, Top, status)
-------------------------------------------------------------------------------
(* The stack.                                                              *)

Stack(stack) == stack \in Seq(Frame(Messages)) /\ stack # <<>>

\* The stack of a walk that is not over.
LEMMA StackIs ==
  ASSUME NEW stack, Stack(stack)
  PROVE  /\ Len(stack) \in Nat \ {0} /\ Len(stack) \in 1..Len(stack)
         /\ \A i \in 1..Len(stack) : stack[i] \in Frame(Messages) /\ stack[i].pos \in Nat
<1>1. Len(stack) \in Nat /\ Len(stack) # 0
  BY DEF Stack
<1>2. \A i \in 1..Len(stack) : stack[i] \in Frame(Messages)
  BY ElementOfSeq DEF Stack
<1> QED
  BY <1>1, <1>2 DEF Frame

\* The callers do not see the counters of the activation they called.
LEMMA CallersTop ==
  ASSUME NEW stack, NEW vs, Stack(stack), Callers(stack, vs), NEW top \in Frame(Messages),
         top.message = stack[Len(stack)].message, top.pos = stack[Len(stack)].pos
  PROVE  Callers([stack EXCEPT ![Len(stack)] = top], vs)
<1>1. PICK n \in Nat : n = Len(stack)
  BY StackIs
<1>2. PICK new : new = [stack EXCEPT ![n] = top]
  OBVIOUS
<1>3. n \in 1..n
  BY <1>1, StackIs
<1>4. /\ Len(new) = n
      /\ \A i \in 1..n : new[i] = IF i = n THEN top ELSE stack[i]
  BY <1>1, <1>2, <1>3, ExceptSeq DEF Stack
<1>5. \A i \in 1..n : new[i].pos = stack[i].pos /\ new[i].message = stack[i].message
  BY <1>1, <1>4
<1>6. \A i, j \in 1..n : i <= j => new[i].pos <= new[j].pos
  BY <1>1, <1>5 DEF Callers
<1>7. ASSUME NEW i \in 1..n, NEW j \in 1..n, j = i + 1
      PROVE  Calls(new[i], new[j].message) /\ Explains(vs, new[i], new[j].pos)
  <2>1. new[i] = stack[i] /\ new[j].message = stack[j].message /\ new[j].pos = stack[j].pos
    BY <1>4, <1>5, <1>7
  <2> QED
    BY <1>1, <1>7, <2>1 DEF Callers
<1>8. Callers(new, vs)
  BY <1>4, <1>6, <1>7 DEF Callers
<1> QED
  BY <1>1, <1>2, <1>8

\* What is found later, or told of what the activation on top found, is not theirs.
LEMMA CallersKept ==
  ASSUME NEW height, ShownTrees(height), NEW stack, NEW vs, NEW ws, NEW n, Stack(stack), Callers(stack, vs),
         SameUpTo(vs, ws, n), n >= stack[Len(stack)].pos
  PROVE  Callers(stack, ws)
<1>1. PICK N \in Nat : N = Len(stack)
  BY StackIs
<1>2. N \in 1..N /\ \A i \in 1..N : stack[i].pos \in Nat
  BY <1>1, StackIs
<1>3. n \in Nat
  BY SequenceLen DEF SameUpTo
<1>4. ASSUME NEW i \in 1..N, NEW j \in 1..N, j = i + 1
      PROVE  Calls(stack[i], stack[j].message) /\ Explains(ws, stack[i], stack[j].pos)
  <2>1. Calls(stack[i], stack[j].message) /\ Explains(vs, stack[i], stack[j].pos)
    BY <1>1, <1>4 DEF Callers
  <2>2. PICK lo \in Nat : lo = stack[i].pos
    BY <1>2
  <2>3. PICK hi \in Nat : hi = stack[j].pos
    BY <1>2
  <2>4. stack[i].pos <= stack[N].pos /\ stack[j].pos <= stack[N].pos /\ stack[N].pos \in Nat
    BY <1>1, <1>2 DEF Callers
  <2>5. lo \in 0..n /\ hi \in 0..n
    BY <1>1, <1>3, <2>2, <2>3, <2>4
  <2>6. PICK cs : cs = DidBy(stack[i])
    OBVIOUS
  <2>7. FindsIn(vs, lo, hi, cs) /\ NoErrors(cs)
    BY <2>1, <2>2, <2>3, <2>6 DEF Explains
  <2>8. FindsIn(ws, lo, hi, cs)
    BY <2>5, <2>7, FindsInKept
  <2> QED
    BY <2>1, <2>2, <2>3, <2>6, <2>7, <2>8 DEF Explains
<1> QED
  BY <1>1, <1>4 DEF Callers

\* The activation on top calls ValidateMessage.
LEMMA CallersCall ==
  ASSUME NEW stack, NEW vs, NEW n \in Nat, NEW m \in Messages, Stack(stack), Callers(stack, vs),
         Placed(Messages, stack, n), Calls(stack[Len(stack)], m), Explains(vs, stack[Len(stack)], n)
  PROVE  /\ Callers(Append(stack, Activation(m, n)), vs)
         /\ Append(stack, Activation(m, n))[Len(Append(stack, Activation(m, n)))] = Activation(m, n)
         /\ Append(stack, Activation(m, n))[1] = stack[1]
<1>1. PICK N \in Nat : N = Len(stack)
  BY StackIs
<1>2. PICK top : top = Activation(m, n)
  OBVIOUS
<1>3. PICK new : new = Append(stack, top)
  OBVIOUS
<1>4. top \in Frame(Messages) /\ top.message = m /\ top.pos = n
  BY <1>2 DEF Activation, Frame
<1>5. /\ Len(new) = N + 1 /\ new[N + 1] = top
      /\ \A i \in 1..N : new[i] = stack[i]
  BY <1>1, <1>3, <1>4, AppendProperties DEF Stack
<1>6. N \in 1..N /\ \A i \in 1..N : stack[i].pos \in Nat /\ stack[i].pos <= n
  BY <1>1, StackIs DEF Placed
<1>7. ASSUME NEW i \in 1..(N + 1), NEW j \in 1..(N + 1), i <= j
      PROVE  new[i].pos <= new[j].pos
  <2>1. CASE j = N + 1
    <3>1. CASE i = N + 1
      BY <1>4, <1>5, <2>1, <3>1
    <3>2. CASE i \in 1..N
      BY <1>4, <1>5, <1>6, <2>1, <3>2
    <3> QED
      BY <1>1, <3>1, <3>2
  <2>2. CASE j \in 1..N
    <3>1. i \in 1..N
      BY <1>7, <2>2
    <3>2. stack[i].pos <= stack[j].pos
      BY <1>1, <1>7, <2>2, <3>1 DEF Callers
    <3> QED
      BY <1>5, <2>2, <3>1, <3>2
  <2> QED
    BY <1>1, <2>1, <2>2
<1>8. ASSUME NEW i \in 1..(N + 1), NEW j \in 1..(N + 1), j = i + 1
      PROVE  Calls(new[i], new[j].message) /\ Explains(vs, new[i], new[j].pos)
  <2>1. i \in 1..N
    BY <1>1, <1>8
  <2>2. CASE j = N + 1
    <3>1. i = N /\ new[i] = stack[N] /\ new[j] = top
      BY <1>1, <1>5, <1>6, <1>8, <2>1, <2>2
    <3> QED
      BY <1>1, <1>4, <3>1
  <2>3. CASE j \in 1..N
    <3>1. Calls(stack[i], stack[j].message) /\ Explains(vs, stack[i], stack[j].pos)
      BY <1>1, <1>8, <2>1, <2>3 DEF Callers
    <3>2. new[i] = stack[i] /\ new[j] = stack[j]
      BY <1>5, <2>1, <2>3
    <3> QED
      BY <3>1, <3>2
  <2> QED
    BY <1>1, <2>2, <2>3
<1>9. Callers(new, vs)
  BY <1>5, <1>7, <1>8 DEF Callers
<1>10. new[1] = stack[1] /\ new[Len(new)] = top
  BY <1>5, <1>6
<1> QED
  BY <1>2, <1>3, <1>9, <1>10

\* The activation on top returns to its caller.
LEMMA CallersReturn ==
  ASSUME NEW stack, NEW vs, NEW new, NEW N \in Nat \ {0}, Stack(stack), Callers(stack, vs),
         IsSum(Len(stack), N, 1), Len(new) = N, \A i \in 1..N : new[i] = stack[i]
  PROVE  /\ Callers(new, vs) /\ N \in 1..Len(stack) /\ new[1] = stack[1]
         /\ Calls(stack[N], stack[Len(stack)].message)
         /\ Explains(vs, stack[N], stack[Len(stack)].pos)
<1>1. Len(stack) = N + 1 /\ N \in 1..(N + 1) /\ N + 1 \in 1..(N + 1)
  BY DEF IsSum
<1>2. Calls(stack[N], stack[N + 1].message) /\ Explains(vs, stack[N], stack[N + 1].pos)
  BY <1>1 DEF Callers
<1>3. ASSUME NEW i \in 1..N, NEW j \in 1..N
      PROVE  /\ i <= j => new[i].pos <= new[j].pos
             /\ j = i + 1 => Calls(new[i], new[j].message) /\ Explains(vs, new[i], new[j].pos)
  <2>1. i \in 1..Len(stack) /\ j \in 1..Len(stack)
    BY <1>1
  <2>2. /\ i <= j => stack[i].pos <= stack[j].pos
        /\ j = i + 1 => Calls(stack[i], stack[j].message) /\ Explains(vs, stack[i], stack[j].pos)
    BY <2>1 DEF Callers
  <2>3. new[i] = stack[i] /\ new[j] = stack[j]
    OBVIOUS
  <2> QED
    BY <2>2, <2>3
<1>4. Callers(new, vs)
  BY <1>3 DEF Callers
<1> QED
  BY <1>1, <1>2, <1>4
-------------------------------------------------------------------------------
(* The activation on top.                                                  *)

\* A counter that starts at 1 counts one more than has been done.
LEMMA OneLess ==
  ASSUME NEW n \in Nat, NEW k \in 1..(n + 1), NEW j, j = k - 1
  PROVE  j \in 0..n
OBVIOUS

\* Where an activation can be is as far as one can be in its message.
LEMMA AtReached ==
  ASSUME NEW height, ShownTrees(height), NEW fr \in Frame(Messages), NEW p, Going(p), At(fr, p),
         fr.rule \in 1..(Len(fr.message.rules) + 1), fr.field \in 1..(Len(fr.message.fields) + 1)
  PROVE  Reached(fr.message, fr.rule - 1, fr.field - 1, fr.elem - 1)
<1>1. PICK m \in Messages : m = fr.message
  BY DEF Frame
<1>2. Len(m.rules) \in Nat /\ Len(m.fields) \in Nat /\ fr.elem \in Nat \ {0}
  BY MessageLens DEF Frame
<1>3. PICK r : r = fr.rule - 1
  OBVIOUS
<1>4. PICK f : f = fr.field - 1
  OBVIOUS
<1>5. PICK e : e = fr.elem - 1
  OBVIOUS
<1>6. r \in 0..Len(m.rules) /\ f \in 0..Len(m.fields) /\ e \in Nat
  <2>1. fr.rule \in 1..(Len(m.rules) + 1)
    BY <1>1
  <2>2. fr.field \in 1..(Len(m.fields) + 1)
    BY <1>1
  <2>3. r \in 0..Len(m.rules)
    BY <1>2, <1>3, <2>1, OneLess
  <2>4. f \in 0..Len(m.fields)
    BY <1>2, <1>4, <2>2, OneLess
  <2>5. e \in Nat
    BY <1>2, <1>5
  <2> QED
    BY <2>3, <2>4, <2>5
<1>7. ASSUME e # 0
      PROVE  /\ f + 1 \in 1..Len(m.fields) /\ e \in 0..Len(m.fields[f + 1].elems)
             /\ m.fields[f + 1].ignore = "none"
  <2>1. fr.elem # 1 /\ f + 1 = fr.field
    BY <1>2, <1>4, <1>5, <1>7
  <2>2. p = "fields"
    BY <2>1 DEF At, Going
  <2>3. /\ fr.field \in 1..Len(m.fields) /\ ~Skipped(m.fields[fr.field])
        /\ fr.elem \in 1..(Len(m.fields[fr.field].elems) + 1)
    BY <1>1, <2>1, <2>2 DEF At
  <2>4. Len(m.fields[fr.field].elems) \in Nat
    BY <2>3, MessageLens
  <2>5. e \in 0..Len(m.fields[fr.field].elems)
    BY <1>5, <2>3, <2>4, OneLess
  <2>6. m.fields[fr.field].ignore \in {"none", "always", "items", "values"}
    BY <2>3 DEF ShownTrees
  <2>7. m.fields[fr.field].ignore = "none"
    BY <2>3, <2>6 DEF Skipped
  <2> QED
    BY <2>1, <2>3, <2>5, <2>7
<1>8. Reached(m, r, f, e)
  BY <1>6, <1>7 DEF Reached
<1> QED
  BY <1>1, <1>3, <1>4, <1>5, <1>8

\* An activation that calls has come as far, and one message further when it goes on.
LEMMA CallsReached ==
  ASSUME NEW height, ShownTrees(height), NEW fr \in Frame(Messages), NEW m, Calls(fr, m)
  PROVE  /\ Reached(fr.message, fr.rule - 1, fr.field - 1, fr.elem - 1)
         /\ Reached(fr.message, fr.rule - 1, fr.field - 1, fr.elem)
         /\ fr.rule - 1 = Len(fr.message.rules)
<1>1. PICK c \in Messages : c = fr.message
  BY DEF Frame
<1>2. /\ Len(c.rules) \in Nat /\ Len(c.fields) \in Nat
      /\ \A i \in 1..Len(c.fields) : Len(c.fields[i].elems) \in Nat
  BY MessageLens
<1>3. PICK r : r = fr.rule - 1
  OBVIOUS
<1>4. PICK f : f = fr.field - 1
  OBVIOUS
<1>5. PICK e : e = fr.elem - 1
  OBVIOUS
<1>6. PICK k : k = fr.elem
  OBVIOUS
<1>7. /\ r = Len(c.rules) /\ f + 1 = fr.field /\ fr.field \in 1..Len(c.fields)
      /\ r \in 0..Len(c.rules) /\ f \in 0..Len(c.fields)
  BY <1>1, <1>2, <1>3, <1>4 DEF Calls
<1>8. c.fields[f + 1].ignore = "none"
  <2>1. c.fields[f + 1].ignore \in {"none", "always", "items", "values"}
    BY <1>7 DEF ShownTrees
  <2> QED
    BY <1>1, <1>7, <2>1 DEF Calls, Skipped
<1>9. e \in 0..Len(c.fields[f + 1].elems) /\ k \in 0..Len(c.fields[f + 1].elems) /\ k \in Nat
  <2>1. PICK n \in Nat : n = Len(c.fields[f + 1].elems)
    BY <1>2, <1>7
  <2>2. k \in 1..n
    BY <1>1, <1>6, <1>7, <2>1 DEF Calls
  <2>3. e = k - 1
    BY <1>5, <1>6
  <2>4. e \in 0..n /\ k \in 0..n /\ k \in Nat
    BY <2>2, <2>3
  <2> QED
    BY <2>1, <2>4
<1>10. e \in Nat
  BY <1>2, <1>7, <1>9
<1>11. Reached(c, r, f, e)
  BY <1>7, <1>8, <1>9, <1>10 DEF Reached
<1>12. Reached(c, r, f, k)
  BY <1>7, <1>8, <1>9 DEF Reached
<1> QED
  BY <1>1, <1>3, <1>4, <1>5, <1>6, <1>7, <1>11, <1>12

\* gr is fr, with other counters.
Counts(fr, gr, r, f, e) ==
  /\ gr.message = fr.message /\ gr.pos = fr.pos
  /\ gr.rule = r /\ gr.field = f /\ gr.elem = e

\* What an activation has found, once more checks have been made and found.
LEMMA ExplainsMore ==
  ASSUME NEW vs, NEW ws, NEW fr, NEW gr, NEW cs, NEW n, NEW q,
         Sequence(DidBy(fr)), Sequence(cs), IsJoined(DidBy(gr), DidBy(fr), cs), gr.pos = fr.pos,
         fr.pos \in 0..n, n \in 0..n, SameUpTo(vs, ws, n), Explains(vs, fr, n), NoErrors(cs), FindsIn(ws, n, q, cs)
  PROVE  Explains(ws, gr, q)
<1>1. PICK a : a = DidBy(fr)
  OBVIOUS
<1>2. PICK c : c = DidBy(gr)
  OBVIOUS
<1>3. PICK lo : lo = fr.pos
  OBVIOUS
<1>4. FindsIn(vs, lo, n, a) /\ NoErrors(a) /\ Sequence(a) /\ lo \in 0..n
  BY <1>1, <1>3 DEF Explains
<1>5. FindsIn(ws, lo, n, a)
  BY <1>4, FindsInKept
<1>6. IsJoined(c, a, cs)
  BY <1>1, <1>2
<1>7. FindsIn(ws, lo, q, c)
  BY <1>4, <1>5, <1>6, FindsInThen
<1>8. NoErrors(c)
  BY <1>4, <1>6, ErrorsJoined
<1> QED
  BY <1>2, <1>3, <1>7, <1>8 DEF Explains

\* What it returns if the validation ends there.
LEMMA PicksMore ==
  ASSUME NEW vs, NEW ws, NEW fr, NEW gr, NEW cs, NEW n, NEW q, NEW all,
         Sequence(DidBy(fr)), Sequence(cs), IsJoined(DidBy(gr), DidBy(fr), cs), Starts(DidBy(gr), all),
         fr.pos \in 0..n, n \in 0..n, SameUpTo(vs, ws, n), Explains(vs, fr, n), PicksIn(ws, n, q, cs)
  PROVE  PicksIn(ws, fr.pos, q, all)
<1>1. PICK a : a = DidBy(fr)
  OBVIOUS
<1>2. PICK c : c = DidBy(gr)
  OBVIOUS
<1>3. PICK lo : lo = fr.pos
  OBVIOUS
<1>4. FindsIn(vs, lo, n, a) /\ Sequence(a) /\ lo \in 0..n
  BY <1>1, <1>3 DEF Explains
<1>5. FindsIn(ws, lo, n, a)
  BY <1>4, FindsInKept
<1>6. IsJoined(c, a, cs)
  BY <1>1, <1>2
<1>7. PicksIn(ws, lo, q, c)
  BY <1>4, <1>5, <1>6, PicksInThen
<1>8. PICK rest : Sequence(rest) /\ IsJoined(all, c, rest)
  BY <1>2 DEF Starts
<1>9. Sequence(c)
  BY <1>2 DEF Starts
<1>10. PicksIn(ws, lo, q, all)
  BY <1>7, <1>8, <1>9, PicksInEnough
<1> QED
  BY <1>3, <1>10

\* The checks made when a rule object has been evaluated.
LEMMA NextRule ==
  ASSUME NEW height, ShownTrees(height), NEW fr \in Frame(Messages), NEW gr, At(fr, "rules"),
         fr.rule \in 1..Len(fr.message.rules), Counts(fr, gr, fr.rule + 1, fr.field, fr.elem)
  PROVE  /\ IsJoined(DidBy(gr), DidBy(fr), RuleChecks(fr.message.rules[fr.rule]))
         /\ Sequence(DidBy(fr)) /\ Starts(DidBy(gr), Checks[fr.message]) /\ At(gr, "rules")
<1>1. PICK m \in Messages : m = fr.message
  BY DEF Frame
<1>2. PICK n \in Nat : n = Len(m.rules)
  BY MessageLens
<1>3. fr.field = 1 /\ fr.elem = 1 /\ m.load = Ok
  BY <1>1 DEF At
<1>4. PICK k : k = fr.rule
  OBVIOUS
<1>5. k \in 1..n
  BY <1>1, <1>2, <1>4
<1>6. PICK r : r = k - 1
  OBVIOUS
<1>7. r \in 0..n /\ k \in 0..n /\ IsSum(k, r, 1) /\ k + 1 - 1 = k
  BY <1>5, <1>6 DEF IsSum
<1>8. r \in 0..Len(m.rules) /\ k \in 1..Len(m.rules) /\ k \in 0..Len(m.rules)
  BY <1>2, <1>5, <1>7
<1>9. DidBy(fr) = Did(m, r, 0, 0)
  BY <1>1, <1>3, <1>4, <1>6 DEF DidBy
<1>10. DidBy(gr) = Did(m, k, 0, 0)
  BY <1>1, <1>3, <1>4, <1>7 DEF DidBy, Counts
<1>11. IsJoined(Did(m, k, 0, 0), Did(m, r, 0, 0), RuleChecks(m.rules[k]))
  BY <1>7, <1>8, DidRule
<1>12. Starts(Did(m, k, 0, 0), Checks[m]) /\ Starts(Did(m, r, 0, 0), Checks[m])
  BY <1>3, <1>8, RulesStart
<1>13. Sequence(Did(m, r, 0, 0))
  BY <1>12 DEF Starts
<1>14. At(gr, "rules")
  BY <1>1, <1>3 DEF At, Counts
<1> QED
  BY <1>1, <1>4, <1>9, <1>10, <1>11, <1>12, <1>13, <1>14

\* The checks made when a message in a field has been validated.
LEMMA NextElem ==
  ASSUME NEW height, ShownTrees(height), NEW fr \in Frame(Messages), NEW gr, NEW m, NEW x, Calls(fr, m),
         Counts(fr, gr, fr.rule, fr.field, fr.elem + 1),
         x = ItemElement(fr.message.fields[fr.field].name,
                         fr.message.fields[fr.field].elems[fr.elem].at)
  PROVE  /\ IsJoined(DidBy(gr), DidBy(fr), Under(x, Checks[m])) /\ m \in Messages
         /\ Sequence(DidBy(fr)) /\ Starts(DidBy(gr), Checks[fr.message]) /\ At(gr, "fields")
<1>1. PICK c \in Messages : c = fr.message
  BY DEF Frame
<1>2. PICK r : r = fr.rule - 1
  OBVIOUS
<1>3. PICK i : i = fr.field
  OBVIOUS
<1>4. PICK f : f = i - 1
  OBVIOUS
<1>5. PICK k : k = fr.elem
  OBVIOUS
<1>6. PICK e : e = k - 1
  OBVIOUS
<1>7. Reached(c, r, f, e) /\ Reached(c, r, f, k) /\ r = Len(c.rules)
  BY <1>1, <1>2, <1>3, <1>4, <1>5, <1>6, CallsReached
<1>8. /\ i \in 1..Len(c.fields) /\ k \in 1..Len(c.fields[i].elems) /\ c.load = Ok
      /\ c.fields[i].elems[k].message = m /\ ~Skipped(c.fields[i])
      /\ fr.rule = Len(c.rules) + 1
  BY <1>1, <1>3, <1>5 DEF Calls
<1>9. Len(c.fields) \in Nat /\ Len(c.fields[i].elems) \in Nat /\ Len(c.rules) \in Nat
  BY <1>8, MessageLens
<1>10. IsSum(k, e, 1) /\ IsSum(i, f, 1) /\ k + 1 - 1 = k
  BY <1>4, <1>6, <1>8, <1>9 DEF IsSum
<1>11. IsJoined(Did(c, r, f, k), Did(c, r, f, e), ElementChecks(Checks, c.fields[i], k))
  BY <1>7, <1>10, DidElem
<1>12. ElementChecks(Checks, c.fields[i], k) = Under(x, Checks[m])
  BY <1>1, <1>3, <1>5, <1>8 DEF ElementChecks
<1>13. DidBy(fr) = Did(c, r, f, e)
  BY <1>1, <1>2, <1>3, <1>4, <1>5, <1>6 DEF DidBy
<1>14. DidBy(gr) = Did(c, r, f, k)
  <2>1. gr.message = c /\ gr.rule = fr.rule /\ gr.field = i /\ gr.elem = k + 1
    BY <1>1, <1>3, <1>5 DEF Counts
  <2>2. gr.elem - 1 = k
    BY <1>8, <1>9, <2>1
  <2> QED
    BY <1>2, <1>4, <2>1, <2>2 DEF DidBy
<1>15. Starts(Did(c, r, f, k), Checks[c])
  BY <1>7, <1>8, FieldsStart
<1>16. Sequence(Did(c, r, f, e))
  BY <1>7, DidSequence
<1>17. At(gr, "fields")
  <2>1. k + 1 \in 1..(Len(c.fields[i].elems) + 1)
    BY <1>8, <1>9
  <2>2. gr.message = c /\ gr.rule = fr.rule /\ gr.field = i /\ gr.elem = k + 1
    BY <1>1, <1>3, <1>5 DEF Counts
  <2> QED
    BY <1>8, <2>1, <2>2 DEF At
<1>18. m \in Messages
  BY <1>8, SubHeight
<1> QED
  BY <1>1, <1>11, <1>12, <1>13, <1>14, <1>15, <1>16, <1>17, <1>18
-------------------------------------------------------------------------------
(* The actions.                                                            *)

\* What the invariants say of a walk that is not over.
LEMMA OnTheWalk ==
  ASSUME NEW height, ShownTrees(height), WalkInv(Messages), WalkFinds, ~Done
  PROVE  /\ Stack(frames) /\ Top \in Frame(Messages) /\ Top.message \in Messages
         /\ Sequence(violations) /\ Len(violations) \in Nat /\ Top.pos \in 0..Len(violations)
         /\ Top.rule \in 1..(Len(Top.message.rules) + 1)
         /\ Top.field \in 1..(Len(Top.message.fields) + 1)
         /\ Callers(frames, violations) /\ RootFrame(frames, root)
         /\ OnWay(failFast, violations, Top, pc, status)
         /\ pc = "return" => Returns(failFast, violations, Top, status)
<1>1. frames # <<>> /\ MessageTrees(Messages)
  BY DEF WalkInv, ShownTrees
<1>2. Stack(frames)
  BY <1>1 DEF WalkInv, Placed, Stack
<1>3. /\ Top \in Frame(Messages) /\ Top.message \in Messages
      /\ Top.rule \in 1..(Len(Top.message.rules) + 1)
      /\ Top.field \in 1..(Len(Top.message.fields) + 1)
  BY <1>1, OnTop DEF WalkInv, Top
<1>4. Sequence(violations) /\ Len(violations) \in Nat
  BY SequenceLen DEF WalkInv
<1>5. Top.pos \in 0..Len(violations)
  BY <1>1, TopWithin
<1> QED
  BY <1>2, <1>3, <1>4, <1>5 DEF WalkFinds

\* The frame on top with other counters.
LEMMA NewTop ==
  ASSUME NEW stack, NEW top \in Frame(Messages), NEW m, Stack(stack), RootFrame(stack, m),
         top.message = stack[Len(stack)].message, top.pos = stack[Len(stack)].pos
  PROVE  /\ [stack EXCEPT ![Len(stack)] = top][Len([stack EXCEPT ![Len(stack)] = top])] = top
         /\ RootFrame([stack EXCEPT ![Len(stack)] = top], m)
<1>1. PICK n \in Nat \ {0} : n = Len(stack)
  BY StackIs
<1>2. PICK new : new = [stack EXCEPT ![n] = top]
  OBVIOUS
<1>3. n \in 1..n /\ 1 \in 1..n
  BY <1>1
<1>4. /\ Len(new) = n
      /\ \A i \in 1..n : new[i] = IF i = n THEN top ELSE stack[i]
  BY <1>1, <1>2, <1>3, ExceptSeq DEF Stack
<1>5. new[Len(new)] = top
  BY <1>3, <1>4
<1>6. RootFrame(new, m)
  BY <1>1, <1>3, <1>4 DEF RootFrame
<1> QED
  BY <1>1, <1>2, <1>5, <1>6

\* A type whose rules are missing is the first, and only, check that cannot be made.
LEMMA EnterFinds ==
  ASSUME NEW height, ShownTrees(height), WalkInv(Messages), WalkFinds, EnterMessage
  PROVE  WalkFinds'
<1>1. ~Done /\ pc = "enter"
  BY DEF EnterMessage, Done
<1>2. /\ Top.message \in Messages /\ Callers(frames, violations) /\ RootFrame(frames, root)
      /\ OnWay(failFast, violations, Top, pc, status)
  BY <1>1, OnTheWalk
<1>3. OnWay(failFast, violations, Top, "enter", status)
  BY <1>1, <1>2
<1>4. /\ status = Ok /\ ~ShouldReturn(failFast, violations, Ok) /\ At(Top, "enter")
      /\ Explains(violations, Top, Len(violations))
  BY <1>3 DEF OnWay, Going
<1>5. UNCHANGED <<root, failFast, violations, frames>> /\ Top' = Top
  BY DEF EnterMessage, Top
<1>6. CASE Top.message.load # Ok
  <2>1. pc' = "return" /\ status' = Top.message.load
    BY <1>6 DEF EnterMessage, Return
  <2>2. Reports(failFast, Checks[Top.message], Top.message.load)
    BY <1>2, <1>6, LoadCheckIs
  <2>3. Returns(failFast, violations, Top, Top.message.load)
    BY <1>6, <2>2 DEF Returns, ShouldReturn
  <2>4. OnWay(failFast, violations, Top, "return", Top.message.load)
    BY DEF OnWay, Going
  <2>5. /\ Callers(frames, violations)' /\ RootFrame(frames, root)'
        /\ OnWay(failFast, violations, Top, pc, status)'
        /\ Returns(failFast, violations, Top, status)'
    BY <1>2, <1>5, <2>1, <2>3, <2>4
  <2> QED
    BY <2>5 DEF WalkFinds
<1>7. CASE Top.message.load = Ok
  <2>1. pc' = "rules" /\ status' = status
    BY <1>7 DEF EnterMessage
  <2>2. At(Top, "rules")
    BY <1>4, <1>7 DEF At
  <2>3. OnWay(failFast, violations, Top, "rules", status)
    BY <1>4, <2>2 DEF OnWay
  <2>4. /\ Callers(frames, violations)' /\ RootFrame(frames, root)'
        /\ OnWay(failFast, violations, Top, pc, status)'
    BY <1>2, <1>5, <2>1, <2>3
  <2> QED
    BY <2>1, <2>4 DEF WalkFinds
<1> QED
  BY <1>6, <1>7

\* After the last rule object come the fields.
LEMMA RulesDoneFinds ==
  ASSUME NEW height, ShownTrees(height), WalkInv(Messages), WalkFinds, RulesDone
  PROVE  WalkFinds'
<1>1. ~Done /\ pc = "rules"
  BY DEF RulesDone, Done
<1>2. /\ Top.message \in Messages /\ Callers(frames, violations) /\ RootFrame(frames, root)
      /\ OnWay(failFast, violations, Top, pc, status)
      /\ Top.rule \in 1..(Len(Top.message.rules) + 1)
  BY <1>1, OnTheWalk
<1>3. OnWay(failFast, violations, Top, "rules", status)
  BY <1>1, <1>2
<1>4. /\ status = Ok /\ ~ShouldReturn(failFast, violations, Ok) /\ At(Top, "rules")
      /\ Explains(violations, Top, Len(violations))
  BY <1>3 DEF OnWay, Going
<1>5. Top.rule = Len(Top.message.rules) + 1
  <2>1. Len(Top.message.rules) \in Nat
    BY <1>2, MessageLens
  <2> QED
    BY <1>2, <2>1 DEF RulesDone
<1>6. At(Top, "fields")
  BY <1>4, <1>5 DEF At
<1>7. OnWay(failFast, violations, Top, "fields", status)
  BY <1>4, <1>6 DEF OnWay
<1>8. UNCHANGED <<root, failFast, violations, frames, status>> /\ Top' = Top /\ pc' = "fields"
  BY DEF RulesDone, Top
<1>9. /\ Callers(frames, violations)' /\ RootFrame(frames, root)'
      /\ OnWay(failFast, violations, Top, pc, status)'
  BY <1>2, <1>7, <1>8
<1> QED
  BY <1>8, <1>9 DEF WalkFinds

\* Two counters of a frame changed.
LEMMA FrameAt ==
  ASSUME NEW fr \in Frame(Messages)
  PROVE  /\ \E gr \in Frame(Messages) :
              /\ gr = [fr EXCEPT !.field = @ + 1, !.elem = 1]
              /\ Counts(fr, gr, fr.rule, fr.field + 1, 1)
         /\ \E gr \in Frame(Messages) :
              gr = [fr EXCEPT !.elem = @ + 1] /\ Counts(fr, gr, fr.rule, fr.field, fr.elem + 1)
         /\ \E gr \in Frame(Messages) :
              gr = [fr EXCEPT !.rule = @ + 1] /\ Counts(fr, gr, fr.rule + 1, fr.field, fr.elem)
<1>1. /\ fr.message \in Messages /\ fr.rule \in Nat /\ fr.field \in Nat /\ fr.elem \in Nat \ {0}
      /\ fr.pos \in Nat
      /\ fr = [message |-> fr.message, rule |-> fr.rule, field |-> fr.field, elem |-> fr.elem,
               pos |-> fr.pos]
  BY DEF Frame
<1>2. /\ fr.field + 1 \in Nat /\ fr.elem + 1 \in Nat \ {0} /\ fr.rule + 1 \in Nat
      /\ 1 \in Nat \ {0}
  BY <1>1
<1>3. PICK a : a = [message |-> fr.message, rule |-> fr.rule, field |-> fr.field + 1, elem |-> 1,
                    pos |-> fr.pos]
  OBVIOUS
<1>4. PICK b : b = [message |-> fr.message, rule |-> fr.rule, field |-> fr.field,
                    elem |-> fr.elem + 1, pos |-> fr.pos]
  OBVIOUS
<1>5. PICK c : c = [message |-> fr.message, rule |-> fr.rule + 1, field |-> fr.field,
                    elem |-> fr.elem, pos |-> fr.pos]
  OBVIOUS
<1>6. a \in Frame(Messages) /\ b \in Frame(Messages) /\ c \in Frame(Messages)
  BY <1>1, <1>2, <1>3, <1>4, <1>5 DEF Frame
<1>7. a = [fr EXCEPT !.field = @ + 1, !.elem = 1]
  <2>1. PICK d : d = [message |-> fr.message, rule |-> fr.rule, field |-> fr.field + 1,
                      elem |-> fr.elem, pos |-> fr.pos]
    OBVIOUS
  <2>2. d = [fr EXCEPT !.field = @ + 1]
    BY <1>1, <2>1
  <2>3. a = [d EXCEPT !.elem = 1]
    BY <1>3, <2>1
  <2> QED
    BY <2>2, <2>3
<1>8. b = [fr EXCEPT !.elem = @ + 1]
  BY <1>1, <1>4
<1>9. c = [fr EXCEPT !.rule = @ + 1]
  BY <1>1, <1>5
<1>10. Counts(fr, a, fr.rule, fr.field + 1, 1)
  BY <1>3 DEF Counts
<1>11. Counts(fr, b, fr.rule, fr.field, fr.elem + 1)
  BY <1>4 DEF Counts
<1>12. Counts(fr, c, fr.rule + 1, fr.field, fr.elem)
  BY <1>5 DEF Counts
<1> QED
  BY <1>6, <1>7, <1>8, <1>9, <1>10, <1>11, <1>12

\* The checks made do not change when a field is over.
LEMMA NextFieldAt ==
  ASSUME NEW height, ShownTrees(height), NEW fr \in Frame(Messages), NEW gr, At(fr, "fields"),
         fr.field \in 1..Len(fr.message.fields), fr.rule \in 1..(Len(fr.message.rules) + 1),
         Skipped(fr.message.fields[fr.field]) \/ fr.elem > Len(fr.message.fields[fr.field].elems),
         Counts(fr, gr, fr.rule, fr.field + 1, 1)
  PROVE  DidBy(gr) = DidBy(fr) /\ At(gr, "fields")
<1>1. PICK c \in Messages : c = fr.message
  BY DEF Frame
<1>2. PICK r : r = fr.rule - 1
  OBVIOUS
<1>3. PICK i : i = fr.field
  OBVIOUS
<1>4. PICK f : f = i - 1
  OBVIOUS
<1>5. PICK e : e = fr.elem - 1
  OBVIOUS
<1>6. Len(c.fields) \in Nat /\ i \in 1..Len(c.fields) /\ Len(c.fields[i].elems) \in Nat
  BY <1>1, <1>3, MessageLens
<1>7. f + 1 = i /\ IsSum(i, f, 1) /\ fr.elem \in Nat \ {0}
  BY <1>4, <1>6 DEF IsSum, Frame
<1>8. Reached(c, r, f, e)
  <2>1. fr.field \in 1..(Len(fr.message.fields) + 1)
    BY <1>1, <1>3, <1>6
  <2>2. Going("fields")
    BY DEF Going
  <2> QED
    BY <1>1, <1>2, <1>3, <1>4, <1>5, <2>1, <2>2, AtReached
<1>9. FieldOver(c, f, e)
  <2>1. CASE Skipped(c.fields[i])
    <3>1. fr.elem = 1
      BY <1>1, <1>3, <2>1 DEF At
    <3> QED
      BY <1>5, <1>6, <1>7, <2>1, <3>1 DEF FieldOver
  <2>2. CASE ~Skipped(c.fields[i])
    <3>1. fr.elem > Len(c.fields[i].elems)
      BY <1>1, <1>3, <2>2
    <3>2. e = Len(c.fields[i].elems)
      <4>1. fr.elem # 1 => fr.elem \in 1..(Len(c.fields[i].elems) + 1)
        BY <1>1, <1>3 DEF At
      <4> QED
        BY <1>5, <1>6, <1>7, <3>1, <4>1
    <3>3. c.fields[i].ignore = "none"
      <4>1. c.fields[i].ignore \in {"none", "always", "items", "values"}
        BY <1>6 DEF ShownTrees
      <4> QED
        BY <2>2, <4>1 DEF Skipped
    <3> QED
      BY <1>6, <1>7, <3>2, <3>3 DEF FieldOver
  <2> QED
    BY <2>1, <2>2
<1>10. Did(c, r, i, 0) = Did(c, r, f, e)
  BY <1>7, <1>8, <1>9, DidField
<1>11. DidBy(fr) = Did(c, r, f, e)
  BY <1>1, <1>2, <1>3, <1>4, <1>5 DEF DidBy
<1>12. gr.message = c /\ gr.rule = fr.rule /\ gr.field = i + 1 /\ gr.elem = 1
  BY <1>1, <1>3 DEF Counts
<1>13. DidBy(gr) = Did(c, r, i, 0)
  <2>1. gr.field - 1 = i /\ gr.elem - 1 = 0
    BY <1>6, <1>12
  <2> QED
    BY <1>2, <1>12, <2>1 DEF DidBy
<1>14. At(gr, "fields")
  BY <1>1, <1>12 DEF At
<1> QED
  BY <1>10, <1>11, <1>13, <1>14

\* A field passed over, or done, has no more checks.
LEMMA NextFieldFinds ==
  ASSUME NEW height, ShownTrees(height), WalkInv(Messages), WalkFinds, NextField
  PROVE  WalkFinds'
<1>1. ~Done /\ pc = "fields"
  BY DEF NextField, Done
<1>2. /\ Stack(frames) /\ Top \in Frame(Messages)
      /\ Callers(frames, violations) /\ RootFrame(frames, root)
      /\ OnWay(failFast, violations, Top, pc, status)
      /\ Top.rule \in 1..(Len(Top.message.rules) + 1)
      /\ Top.field \in 1..(Len(Top.message.fields) + 1)
      /\ Top.message \in Messages
  BY <1>1, OnTheWalk
<1>3. OnWay(failFast, violations, Top, "fields", status)
  BY <1>1, <1>2
<1>4. /\ status = Ok /\ ~ShouldReturn(failFast, violations, Ok) /\ At(Top, "fields")
      /\ Explains(violations, Top, Len(violations))
  BY <1>3 DEF OnWay, Going
<1>5. PICK top \in Frame(Messages) : /\ top = [Top EXCEPT !.field = @ + 1, !.elem = 1]
                                     /\ Counts(Top, top, Top.rule, Top.field + 1, 1)
  BY <1>2, FrameAt
<1>6. Top.field \in 1..Len(Top.message.fields)
  <2>1. Len(Top.message.fields) \in Nat /\ Top.field <= Len(Top.message.fields)
    BY <1>2, MessageLens DEF NextField
  <2> QED
    BY <1>2, <2>1
<1>7. DidBy(top) = DidBy(Top) /\ At(top, "fields")
  <2>1. Skipped(Top.message.fields[Top.field])
          \/ Top.elem > Len(Top.message.fields[Top.field].elems)
    BY DEF NextField, Field
  <2> QED
    BY <1>2, <1>4, <1>5, <1>6, <2>1, NextFieldAt
<1>8. Explains(violations, top, Len(violations))
  BY <1>4, <1>5, <1>7 DEF Explains, Counts
<1>9. OnWay(failFast, violations, top, "fields", status)
  BY <1>4, <1>7, <1>8 DEF OnWay
<1>10. top.message = frames[Len(frames)].message /\ top.pos = frames[Len(frames)].pos
  BY <1>5 DEF Counts, Top
<1>11. frames' = [frames EXCEPT ![Len(frames)] = top]
  BY <1>5 DEF NextField, Advance
<1>12. Callers(frames', violations)
  BY <1>2, <1>10, <1>11, CallersTop
<1>13. frames'[Len(frames')] = top /\ RootFrame(frames', root)
  BY <1>2, <1>10, <1>11, NewTop
<1>14. UNCHANGED <<root, failFast, violations, pc, status>> /\ pc' = "fields" /\ Top' = top
  BY <1>1, <1>13 DEF NextField, Top
<1>15. /\ Callers(frames, violations)' /\ RootFrame(frames, root)'
       /\ OnWay(failFast, violations, Top, pc, status)'
  BY <1>9, <1>12, <1>13, <1>14
<1> QED
  BY <1>14, <1>15 DEF WalkFinds

\* A call of ValidateMessage: the caller waits at the message called.
LEMMA DescendFinds ==
  ASSUME NEW height, ShownTrees(height), WalkInv(Messages), WalkFinds, Descend
  PROVE  WalkFinds'
<1>1. ~Done /\ pc = "fields"
  BY DEF Descend, Done
<1>2. /\ Stack(frames) /\ Top \in Frame(Messages)
      /\ Callers(frames, violations) /\ RootFrame(frames, root)
      /\ OnWay(failFast, violations, Top, pc, status)
      /\ Top.rule \in 1..(Len(Top.message.rules) + 1)
      /\ Top.field \in 1..(Len(Top.message.fields) + 1)
      /\ Top.message \in Messages /\ Sequence(violations)
  BY <1>1, OnTheWalk
<1>3. OnWay(failFast, violations, Top, "fields", status)
  BY <1>1, <1>2
<1>4. /\ status = Ok /\ ~ShouldReturn(failFast, violations, Ok) /\ At(Top, "fields")
      /\ Explains(violations, Top, Len(violations))
  BY <1>3 DEF OnWay, Going
<1>5. PICK n \in Nat : n = Len(violations)
  BY <1>2, SequenceLen
<1>6. PICK m : m = Field.elems[Top.elem].message
  OBVIOUS
<1>7. /\ Top.field \in 1..Len(Top.message.fields) /\ ~Skipped(Top.message.fields[Top.field])
      /\ Top.elem <= Len(Top.message.fields[Top.field].elems)
  <2>1. Len(Top.message.fields) \in Nat /\ Top.field <= Len(Top.message.fields)
    BY <1>2, MessageLens DEF Descend
  <2> QED
    BY <1>2, <2>1 DEF Descend, Field
<1>8. Top.elem \in 1..Len(Top.message.fields[Top.field].elems)
  <2>1. Len(Top.message.fields[Top.field].elems) \in Nat
    BY <1>2, <1>7, MessageLens
  <2>2. Top.elem \in Nat \ {0}
    BY <1>2 DEF Frame
  <2> QED
    BY <1>7, <2>1, <2>2
<1>9. m \in Messages
  BY <1>2, <1>6, <1>7, <1>8, SubHeight DEF Field
<1>10. Calls(Top, m)
  BY <1>4, <1>6, <1>7, <1>8 DEF Calls, At, Field
<1>11. frames' = Append(frames, Activation(m, n))
  BY <1>5, <1>6 DEF Descend
<1>12. /\ Callers(frames', violations) /\ frames'[Len(frames')] = Activation(m, n)
       /\ frames'[1] = frames[1]
  <2>1. Placed(Messages, frames, n)
    BY <1>5 DEF WalkInv
  <2>2. Calls(frames[Len(frames)], m) /\ Explains(violations, frames[Len(frames)], n)
    BY <1>4, <1>5, <1>10 DEF Top
  <2> QED
    BY <1>2, <1>9, <1>11, <2>1, <2>2, CallersCall
<1>13. PICK top : top = Activation(m, n)
  OBVIOUS
<1>14. /\ top.message = m /\ top.rule = 1 /\ top.field = 1 /\ top.elem = 1 /\ top.pos = n
  BY <1>13 DEF Activation
<1>15. Explains(violations, top, n)
  <2>1. DidBy(top) = <<>>
    <3>1. DidBy(top) = Did(m, 0, 0, 0)
      BY <1>14 DEF DidBy
    <3> QED
      BY <3>1, DidNothing
  <2>2. n \in 0..Len(violations)
    BY <1>5
  <2>3. FindsIn(violations, n, n, <<>>)
    BY <1>2, <2>2, FindsInNone
  <2>4. NoErrors(<<>>)
    BY DEF NoErrors
  <2> QED
    BY <1>14, <2>1, <2>3, <2>4 DEF Explains
<1>16. OnWay(failFast, violations, top, "enter", status)
  <2>1. At(top, "enter")
    BY <1>14 DEF At
  <2> QED
    BY <1>4, <1>5, <1>15, <2>1 DEF OnWay
<1>17. UNCHANGED <<root, failFast, violations, status>> /\ pc' = "enter" /\ Top' = top
  BY <1>12, <1>13 DEF Descend, Top
<1>18. RootFrame(frames', root)
  BY <1>2, <1>12 DEF RootFrame
<1>19. /\ Callers(frames, violations)' /\ RootFrame(frames, root)'
       /\ OnWay(failFast, violations, Top, pc, status)'
  BY <1>12, <1>16, <1>17, <1>18
<1> QED
  BY <1>17, <1>19 DEF WalkFinds

\* After the last field every check of the message has been made.
LEMMA FieldsDoneFinds ==
  ASSUME NEW height, ShownTrees(height), WalkInv(Messages), WalkFinds, FieldsDone
  PROVE  WalkFinds'
<1>1. ~Done /\ pc = "fields"
  BY DEF FieldsDone, Done
<1>2. /\ Callers(frames, violations) /\ RootFrame(frames, root)
      /\ OnWay(failFast, violations, Top, pc, status)
      /\ Top.field \in 1..(Len(Top.message.fields) + 1)
      /\ Top.message \in Messages
  BY <1>1, OnTheWalk
<1>3. OnWay(failFast, violations, Top, "fields", status)
  BY <1>1, <1>2
<1>4. At(Top, "fields") /\ Explains(violations, Top, Len(violations))
  BY <1>3 DEF OnWay, Going
<1>5. PICK m \in Messages : m = Top.message
  BY <1>2
<1>6. PICK r \in Nat : r = Len(m.rules)
  BY MessageLens
<1>7. PICK f \in Nat : f = Len(m.fields)
  BY MessageLens
<1>8. Top.field = f + 1 /\ Top.rule = r + 1 /\ Top.elem = 1 /\ m.load = Ok
  <2>1. Top.field \in 1..(f + 1) /\ Top.field > f
    BY <1>2, <1>5, <1>7 DEF FieldsDone
  <2>2. Top.field = f + 1
    BY <2>1
  <2>3. Top.field \notin 1..Len(m.fields)
    BY <1>7, <2>2
  <2> QED
    BY <1>4, <1>5, <1>6, <2>2, <2>3 DEF At
<1>9. DidBy(Top) = Checks[m]
  <2>1. Top.field - 1 = f /\ Top.rule - 1 = r /\ Top.elem - 1 = 0
    BY <1>8
  <2>2. DidBy(Top) = Did(m, r, f, 0)
    BY <1>5, <2>1 DEF DidBy
  <2> QED
    BY <1>6, <1>7, <1>8, <2>2, DidAll
<1>10. Returns(failFast, violations, Top, Ok)
  <2>1. PICK cs, lo, n : cs = Checks[m] /\ lo = Top.pos /\ n = Len(violations)
    OBVIOUS
  <2>2. Sequence(cs)
    BY <2>1, ChecksAre DEF AreChecks
  <2>3. FindsIn(violations, lo, n, cs) /\ NoErrors(cs)
    BY <1>4, <1>9, <2>1 DEF Explains
  <2>4. PicksIn(violations, lo, n, cs)
    BY <2>2, <2>3, FindsInPicks
  <2> QED
    BY <1>5, <2>1, <2>3, <2>4 DEF Returns
<1>11. OnWay(failFast, violations, Top, "return", Ok)
  BY DEF OnWay, Going
<1>12. UNCHANGED <<root, failFast, violations, frames>> /\ pc' = "return" /\ status' = Ok /\ Top' = Top
  BY DEF FieldsDone, Return, Top
<1>13. /\ Callers(frames, violations)' /\ RootFrame(frames, root)'
       /\ OnWay(failFast, violations, Top, pc, status)'
       /\ Returns(failFast, violations, Top, status)'
  BY <1>2, <1>10, <1>11, <1>12
<1> QED
  BY <1>13 DEF WalkFinds

\* What a rule object finds comes after what has been found.
LEMMA AddsSame ==
  ASSUME NEW vs, NEW r, NEW n, Adds(vs, r), n = Len(vs)
  PROVE  SameUpTo(vs, r.vs, n) /\ Sequence(r.vs) /\ n \in Nat /\ Len(r.vs) \in Nat /\ n <= Len(r.vs)
<1>1. Grows(vs, r.vs)
  BY DEF Adds
<1>2. Len(vs) \in Nat /\ Len(r.vs) \in Nat
  BY <1>1, SequenceLen DEF Grows
<1> QED
  BY <1>1, <1>2 DEF Grows, SameUpTo

\* A rule object makes its checks; if the walk returns, an error among them is the first.
LEMMA RunRuleFinds ==
  ASSUME NEW height, ShownTrees(height), WalkInv(Messages), WalkFinds, RunRule
  PROVE  WalkFinds'
<1>1. ~Done /\ pc = "rules"
  BY DEF RunRule, Done
<1>2. /\ Stack(frames) /\ Top \in Frame(Messages)
      /\ Callers(frames, violations) /\ RootFrame(frames, root)
      /\ OnWay(failFast, violations, Top, pc, status)
      /\ Top.rule \in 1..(Len(Top.message.rules) + 1)
      /\ Top.message \in Messages /\ Sequence(violations)
      /\ Top.pos \in 0..Len(violations)
  BY <1>1, OnTheWalk
<1>3. OnWay(failFast, violations, Top, "rules", status)
  BY <1>1, <1>2
<1>4. /\ status = Ok /\ ~ShouldReturn(failFast, violations, Ok) /\ At(Top, "rules")
      /\ Explains(violations, Top, Len(violations))
  BY <1>3 DEF OnWay, Going
<1>5. Top.rule \in 1..Len(Top.message.rules)
  <2>1. Len(Top.message.rules) \in Nat /\ Top.rule <= Len(Top.message.rules)
    BY <1>2, MessageLens DEF RunRule
  <2> QED
    BY <1>2, <2>1
<1>6. PICK rule : rule = Top.message.rules[Top.rule]
  OBVIOUS
<1>7. ShownRule(rule)
  BY <1>2, <1>5, <1>6 DEF ShownTrees
<1>8. PICK r : r = Validate(failFast, violations, rule)
  OBVIOUS
<1>9. PICK cs : cs = RuleChecks(rule)
  OBVIOUS
<1>10. Makes(failFast, violations, r, cs)
  BY <1>2, <1>7, <1>8, <1>9, ValidateMakes
<1>11. /\ violations' = r.vs
       /\ IF ShouldReturn(failFast, r.vs, r.status)
            THEN Return(r.status) /\ UNCHANGED frames
            ELSE frames' = Advance([Top EXCEPT !.rule = @ + 1]) /\ UNCHANGED <<pc, status>>
       /\ UNCHANGED <<root, failFast>>
  BY <1>6, <1>8 DEF RunRule
<1>12. PICK n : n = Len(violations)
  OBVIOUS
<1>13. PICK q : q = Len(r.vs)
  OBVIOUS
<1>14. Adds(violations, r) /\ Sequence(cs)
  BY <1>10 DEF Makes
<1>15. /\ SameUpTo(violations, r.vs, n) /\ Sequence(r.vs) /\ n \in Nat /\ q \in Nat
  BY <1>12, <1>13, <1>14, AddsSame
<1>16. Callers(frames, r.vs)
  <2>1. n >= frames[Len(frames)].pos
    BY <1>2, <1>12, <1>15 DEF Top
  <2> QED
    BY <1>2, <1>15, <2>1, CallersKept
<1>17. PICK top \in Frame(Messages) : /\ top = [Top EXCEPT !.rule = @ + 1]
                                      /\ Counts(Top, top, Top.rule + 1, Top.field, Top.elem)
  BY <1>2, FrameAt
<1>18. /\ IsJoined(DidBy(top), DidBy(Top), cs) /\ Sequence(DidBy(Top))
       /\ Starts(DidBy(top), Checks[Top.message]) /\ At(top, "rules")
  BY <1>2, <1>4, <1>5, <1>6, <1>9, <1>17, NextRule
<1>19. CASE ShouldReturn(failFast, r.vs, r.status)
  <2>1. pc' = "return" /\ status' = r.status /\ frames' = frames /\ Top' = Top
    BY <1>11, <1>19 DEF Return, Top
  <2>2. ASSUME r.status # Ok PROVE Reports(failFast, Checks[Top.message], r.status)
    <3>1. PICK s : s = r.status
      OBVIOUS
    <3>2. Reports(failFast, cs, s)
      BY <1>10, <2>2, <3>1 DEF Makes
    <3>3. PICK a : a = DidBy(Top)
      OBVIOUS
    <3>4. PICK c : c = DidBy(top)
      OBVIOUS
    <3>5. NoErrors(a)
      BY <1>4, <3>3 DEF Explains
    <3>6. Reports(failFast, c, s)
      BY <1>14, <1>18, <3>2, <3>3, <3>4, <3>5, ReportsAfter
    <3>7. Reports(failFast, Checks[Top.message], s)
      BY <1>18, <3>4, <3>6, ReportsOfStart
    <3> QED
      BY <3>1, <3>7
  <2>6. ASSUME r.status = Ok PROVE PicksIn(r.vs, Top.pos, q, Checks[Top.message])
    <3>1. PICK ws : ws = r.vs
      OBVIOUS
    <3>2. Picks(violations, ws, cs)
      BY <1>10, <2>6, <3>1 DEF Makes
    <3>3. PicksIn(ws, n, q, cs)
      BY <1>12, <1>13, <3>1, <3>2, PicksAfter
    <3>4. Top.pos \in 0..n /\ n \in 0..n
      BY <1>2, <1>12, <1>15
    <3>5. SameUpTo(violations, ws, n) /\ Explains(violations, Top, n)
      BY <1>4, <1>12, <1>15, <3>1
    <3>6. PICK all : all = Checks[Top.message]
      OBVIOUS
    <3>7. Starts(DidBy(top), all)
      BY <1>18, <3>6
    <3>8. PicksIn(ws, Top.pos, q, all)
      BY <1>14, <1>18, <3>3, <3>4, <3>5, <3>7, PicksMore
    <3> QED
      BY <3>1, <3>6, <3>8
  <2>3. Returns(failFast, r.vs, Top, r.status)
    BY <1>13, <1>19, <2>2, <2>6 DEF Returns
  <2>4. OnWay(failFast, r.vs, Top, "return", r.status)
    BY DEF OnWay, Going
  <2>5. /\ Callers(frames, violations)' /\ RootFrame(frames, root)'
        /\ OnWay(failFast, violations, Top, pc, status)'
        /\ Returns(failFast, violations, Top, status)'
    BY <1>2, <1>11, <1>16, <2>1, <2>3, <2>4
  <2> QED
    BY <2>5 DEF WalkFinds
<1>20. CASE ~ShouldReturn(failFast, r.vs, r.status)
  <2>1. NoErrors(cs) /\ Finds(violations, r.vs, cs)
    BY <1>10, <1>20 DEF Makes
  <2>2. PICK ws : ws = r.vs
    OBVIOUS
  <2>3. FindsIn(ws, n, q, cs)
    BY <1>12, <1>13, <2>1, <2>2, FindsAfter
  <2>4. Explains(ws, top, q)
    <3>1. top.pos = Top.pos
      BY <1>17 DEF Counts
    <3>2. Top.pos \in 0..n /\ n \in 0..n
      BY <1>2, <1>12, <1>15
    <3>3. SameUpTo(violations, ws, n) /\ Explains(violations, Top, n)
      BY <1>4, <1>12, <1>15, <2>2
    <3> QED
      BY <1>14, <1>18, <2>1, <2>3, <3>1, <3>2, <3>3, ExplainsMore
  <2>5. ~ShouldReturn(failFast, ws, Ok)
    BY <1>20, <2>2 DEF ShouldReturn
  <2>6. OnWay(failFast, ws, top, "rules", status)
    BY <1>4, <1>13, <1>18, <2>2, <2>4, <2>5 DEF OnWay
  <2>7. top.message = frames[Len(frames)].message /\ top.pos = frames[Len(frames)].pos
    BY <1>17 DEF Counts, Top
  <2>8. frames' = [frames EXCEPT ![Len(frames)] = top] /\ UNCHANGED <<pc, status>>
    BY <1>11, <1>17, <1>20 DEF Advance
  <2>9. Callers(frames', ws)
    BY <1>2, <1>16, <2>2, <2>7, <2>8, CallersTop
  <2>10. frames'[Len(frames')] = top /\ RootFrame(frames', root)
    BY <1>2, <2>7, <2>8, NewTop
  <2>11. violations' = ws /\ UNCHANGED <<root, failFast, status>> /\ pc' = "rules" /\ Top' = top
    BY <1>1, <1>11, <2>2, <2>8, <2>10 DEF Top
  <2>12. /\ Callers(frames, violations)' /\ RootFrame(frames, root)'
         /\ OnWay(failFast, violations, Top, pc, status)'
    BY <2>6, <2>9, <2>10, <2>11
  <2> QED
    BY <2>11, <2>12 DEF WalkFinds
<1> QED
  BY <1>19, <1>20

\* Adding an element to the paths leaves what was found before.
LEMMA PathsSame ==
  ASSUME NEW vs, Sequence(vs), NEW x, NEW p \in 0..Len(vs)
  PROVE  SameUpTo(vs, AppendFieldPathElement(vs, x, p), p)
         /\ Len(AppendFieldPathElement(vs, x, p)) = Len(vs)
         /\ Sequence(AppendFieldPathElement(vs, x, p))
<1>1. Updated(vs, AppendFieldPathElement(vs, x, p), p)
  BY RuleContextUpdates
<1>2. Len(vs) \in Nat
  BY SequenceLen
<1> QED
  BY <1>1, <1>2 DEF Updated, SameUpTo

\* No violations is a matter of their number.
LEMMA NoneIf ==
  ASSUME NEW vs, NEW ws, Sequence(vs), Sequence(ws), Len(vs) = Len(ws), ws = <<>>
  PROVE  vs = <<>>
<1>1. PICK S : vs \in Seq(S)
  BY DEF Sequence
<1>2. Len(vs) = 0
  OBVIOUS
<1> QED
  BY <1>1, <1>2

\* What was found in a message is what its caller finds at the element.
LEMMA FoundBelow ==
  ASSUME NEW height, ShownTrees(height), NEW m \in Messages, NEW vs, Sequence(vs), NEW x, NEW p, NEW n,
         n = Len(vs), p \in 0..n, PicksIn(vs, p, n, Checks[m])
  PROVE  /\ PicksIn(AppendFieldPathElement(vs, x, p), p, n, Under(x, Checks[m]))
         /\ NoErrors(Checks[m]) /\ FindsIn(vs, p, n, Checks[m]) =>
              /\ FindsIn(AppendFieldPathElement(vs, x, p), p, n, Under(x, Checks[m]))
              /\ NoErrors(Under(x, Checks[m]))
<1>1. PICK ws : ws = AppendFieldPathElement(vs, x, p)
  OBVIOUS
<1>2. PICK cs : cs = Checks[m]
  OBVIOUS
<1>3. PICK ds : ds = Under(x, cs)
  OBVIOUS
<1>4. PICK O : O = MessageOutcomes
  OBVIOUS
<1>5. AreChecks(cs, O)
  BY <1>2, <1>4, ChecksAre
<1>6. RelocatedAll(cs, ds, <<x>>, <<>>, FALSE)
  BY <1>3, <1>5, UnderIs
<1>7. Sequence(cs) /\ PicksIn(vs, p, n, cs)
  BY <1>2, <1>5 DEF AreChecks
<1>8. AllViolations(vs, p)
  BY <1>7, PickedInViolations
<1>9. MovesAll(vs, ws, p, <<x>>, <<>>, FALSE)
  BY <1>1, <1>8, FieldMoves
<1>10. PICK F : F = <<x>>
  OBVIOUS
<1>11. PICK R : R = <<>>
  OBVIOUS
<1>12. PICK no \in BOOLEAN : no = FALSE
  OBVIOUS
<1>13. Sequence(F) /\ Sequence(R)
  <2>1. Sequence(F)
    BY <1>10, OneSequence
  <2>2. Sequence(R)
    BY <1>11 DEF Sequence
  <2> QED
    BY <2>1, <2>2
<1>14. MovesAll(vs, ws, p, F, R, no) /\ RelocatedAll(cs, ds, F, R, no)
  BY <1>6, <1>9, <1>10, <1>11, <1>12
<1>15. PicksIn(ws, p, n, ds)
  BY <1>7, <1>13, <1>14, PicksInMoved
<1>16. ASSUME NoErrors(cs), FindsIn(vs, p, n, cs) PROVE FindsIn(ws, p, n, ds) /\ NoErrors(ds)
  <2>1. FindsIn(ws, p, n, ds)
    BY <1>7, <1>13, <1>14, <1>16, FindsInMoved
  <2>2. NoErrors(ds)
    BY <1>14, <1>16, ErrorsMoved
  <2> QED
    BY <2>1, <2>2
<1> QED
  BY <1>1, <1>2, <1>3, <1>15, <1>16

\* The first check below that cannot be made is the caller's first.
LEMMA ReportsBelow ==
  ASSUME NEW height, ShownTrees(height), NEW m \in Messages, NEW ff, NEW x, NEW s, NEW a, NEW c, NEW all,
         Reports(ff, Checks[m], s), NoErrors(a), Sequence(a), IsJoined(c, a, Under(x, Checks[m])), Starts(c, all)
  PROVE  Reports(ff, all, s)
<1>1. PICK cs : cs = Checks[m]
  OBVIOUS
<1>2. PICK ds : ds = Under(x, cs)
  OBVIOUS
<1>3. PICK O : O = MessageOutcomes
  OBVIOUS
<1>4. AreChecks(cs, O)
  BY <1>1, <1>3, ChecksAre
<1>5. AreChecks(ds, O) /\ RelocatedAll(cs, ds, <<x>>, <<>>, FALSE)
  BY <1>2, <1>4, UnderIs
<1>6. Sequence(ds) /\ Reports(ff, cs, s)
  BY <1>1, <1>5 DEF AreChecks
<1>7. Reports(ff, ds, s)
  BY <1>5, <1>6, ErrorsMoved DEF Reports
<1>8. IsJoined(c, a, ds)
  BY <1>1, <1>2
<1>9. Reports(ff, c, s)
  BY <1>6, <1>7, <1>8, ReportsAfter
<1> QED
  BY <1>9, ReportsOfStart

\* The stack of the caller, when it has counted the message.
LEMMA CallerStack ==
  ASSUME NEW stack, Stack(stack), Placed(Messages, stack, Len(violations)), Len(violations) \in Nat, Len(stack) > 1,
         NEW m, RootFrame(stack, m)
  PROVE  \E N \in Nat \ {0} :
           /\ IsSum(Len(stack), N, 1) /\ Stack(Front(stack)) /\ Len(Front(stack)) = N
           /\ \A i \in 1..N : Front(stack)[i] = stack[i]
           /\ Last(Front(stack)) = stack[N] /\ RootFrame(Front(stack), m)
<1>1. /\ Placed(Messages, Front(stack), Len(violations)) /\ Front(stack) # <<>>
      /\ Len(Front(stack)) = Len(stack) - 1
      /\ \A i \in 1..(Len(stack) - 1) : Front(stack)[i] = stack[i]
  BY PlacedReturn
<1>2. Stack(Front(stack))
  BY <1>1 DEF Stack, Placed
<1>3. PICK n \in Nat : n = Len(stack)
  BY StackIs
<1>4. PICK N \in Nat \ {0} : N = n - 1
  BY <1>3
<1>5. IsSum(Len(stack), N, 1) /\ Len(Front(stack)) = N /\ \A i \in 1..N : Front(stack)[i] = stack[i]
  BY <1>1, <1>3, <1>4 DEF IsSum
<1>6. N \in 1..N /\ 1 \in 1..N
  BY <1>4
<1>7. Last(Front(stack)) = stack[N]
  BY <1>5, <1>6 DEF Last
<1>8. RootFrame(Front(stack), m)
  BY <1>5, <1>6 DEF RootFrame
<1> QED
  BY <1>2, <1>5, <1>7, <1>8

\* A return from ValidateMessage: the caller adds its element to what was found below.
LEMMA ResumeFinds ==
  ASSUME NEW height, ShownTrees(height), WalkInv(Messages), WalkFinds, Resume
  PROVE  WalkFinds'
<1>1. ~Done /\ pc = "return" /\ Len(frames) > 1
  BY DEF Resume, Done
<1>2. /\ Stack(frames) /\ Callers(frames, violations) /\ RootFrame(frames, root)
      /\ Returns(failFast, violations, Top, status)
      /\ Top.message \in Messages /\ Sequence(violations)
      /\ Top.pos \in 0..Len(violations) /\ Len(violations) \in Nat
  BY <1>1, OnTheWalk
<1>3. PICK stack : stack = Front(frames)
  OBVIOUS
<1>4. PICK N \in Nat \ {0} :
        /\ IsSum(Len(frames), N, 1) /\ Stack(stack) /\ Len(stack) = N
        /\ \A i \in 1..N : stack[i] = frames[i]
        /\ Last(stack) = frames[N] /\ RootFrame(stack, root)
  <2>1. Placed(Messages, frames, Len(violations))
    BY DEF WalkInv
  <2> QED
    BY <1>1, <1>2, <1>3, <2>1, CallerStack
<1>5. PICK fr : fr = frames[N]
  OBVIOUS
<1>6. PICK m \in Messages : m = Top.message
  BY <1>2
<1>7. PICK p : p = Top.pos
  OBVIOUS
<1>8. PICK n \in Nat : n = Len(violations)
  BY <1>2
<1>9. /\ Callers(stack, violations) /\ Calls(fr, m) /\ Explains(violations, fr, p)
      /\ N \in 1..Len(frames) /\ fr.pos <= p
  <2>1. /\ Callers(stack, violations) /\ N \in 1..Len(frames)
        /\ Calls(frames[N], frames[Len(frames)].message)
        /\ Explains(violations, frames[N], frames[Len(frames)].pos)
    BY <1>2, <1>4, CallersReturn
  <2>2. frames[N].pos <= frames[Len(frames)].pos
    <3>1. Len(frames) \in 1..Len(frames) /\ N <= Len(frames)
      BY <1>2, <2>1, StackIs
    <3> QED
      BY <1>2, <2>1, <3>1 DEF Callers
  <2> QED
    BY <1>5, <1>6, <1>7, <2>1, <2>2 DEF Top
<1>10. PICK x : x = ItemElement(fr.message.fields[fr.field].name,
                                fr.message.fields[fr.field].elems[fr.elem].at)
  OBVIOUS
<1>11. PICK ws : ws = AppendFieldPathElement(violations, x, p)
  OBVIOUS
<1>12. /\ violations' = ws
       /\ frames' = [stack EXCEPT ![Len(stack)].elem = @ + 1]
       /\ IF ShouldReturn(failFast, ws, status) THEN Return(status)
          ELSE pc' = "fields" /\ status' = Ok
       /\ UNCHANGED <<root, failFast>>
  BY <1>3, <1>4, <1>5, <1>7, <1>10, <1>11 DEF Resume
<1>13. SameUpTo(violations, ws, p) /\ Len(ws) = n /\ Sequence(ws) /\ p \in 0..n
  BY <1>2, <1>7, <1>8, <1>11, PathsSame
<1>14. fr \in Frame(Messages) /\ fr = stack[Len(stack)] /\ fr.pos \in Nat
  <2>1. N \in 1..N
    OBVIOUS
  <2> QED
    BY <1>4, <1>5, <2>1, StackIs
<1>15. PICK top \in Frame(Messages) : /\ top = [fr EXCEPT !.elem = @ + 1]
                                      /\ Counts(fr, top, fr.rule, fr.field, fr.elem + 1)
  BY <1>14, FrameAt
<1>16. /\ IsJoined(DidBy(top), DidBy(fr), Under(x, Checks[m]))
       /\ Sequence(DidBy(fr)) /\ Starts(DidBy(top), Checks[fr.message]) /\ At(top, "fields")
  BY <1>9, <1>10, <1>14, <1>15, NextElem
<1>17. frames' = [stack EXCEPT ![Len(stack)] = top]
  BY <1>12, <1>14, <1>15
<1>18. top.message = fr.message /\ top.pos = fr.pos
  BY <1>15 DEF Counts
<1>19. Callers(stack, ws)
  <2>1. p \in Nat /\ p >= stack[Len(stack)].pos
    BY <1>9, <1>13, <1>14
  <2> QED
    BY <1>4, <1>9, <1>13, <2>1, CallersKept
<1>20. Callers(frames', ws)
  BY <1>4, <1>14, <1>17, <1>18, <1>19, CallersTop
<1>21. frames'[Len(frames')] = top /\ RootFrame(frames', root)
  BY <1>4, <1>14, <1>17, <1>18, NewTop
<1>22. Top' = top
  BY <1>21 DEF Top
<1>25. PICK ds : ds = Under(x, Checks[m])
  OBVIOUS
<1>26. Sequence(ds)
  <2>1. PICK cs : cs = Checks[m]
    OBVIOUS
  <2>2. PICK O : O = MessageOutcomes
    OBVIOUS
  <2>3. AreChecks(cs, O)
    BY <2>1, <2>2, ChecksAre
  <2>4. AreChecks(ds, O)
    BY <1>25, <2>1, <2>3, UnderIs
  <2> QED
    BY <2>4 DEF AreChecks
<1>27. /\ fr.pos \in 0..p /\ p \in 0..p
       /\ IsJoined(DidBy(top), DidBy(fr), ds) /\ Sequence(DidBy(fr)) /\ top.pos = fr.pos
  <2>1. fr.pos \in 0..p /\ p \in 0..p
    BY <1>9, <1>13, <1>14
  <2> QED
    BY <1>16, <1>18, <1>25, <2>1
<1>28. ASSUME status = Ok
       PROVE  /\ PicksIn(ws, p, n, ds)
              /\ NoErrors(Checks[m]) /\ FindsIn(violations, p, n, Checks[m]) =>
                   FindsIn(ws, p, n, ds) /\ NoErrors(ds)
  <2>1. PicksIn(violations, p, n, Checks[m])
    BY <1>2, <1>6, <1>7, <1>8, <1>28 DEF Returns
  <2> QED
    BY <1>2, <1>8, <1>11, <1>13, <1>25, <2>1, FoundBelow
<1>23. CASE ShouldReturn(failFast, ws, status)
  <2>1. pc' = "return" /\ status' = status
    BY <1>12, <1>23 DEF Return
  <2>6. ASSUME status = Ok PROVE PicksIn(ws, top.pos, n, Checks[top.message])
    <3>1. PICK all : all = Checks[fr.message]
      OBVIOUS
    <3>2. Starts(DidBy(top), all)
      BY <1>16, <3>1
    <3>3. PicksIn(ws, p, n, ds)
      BY <1>28, <2>6
    <3>4. PicksIn(ws, fr.pos, n, all)
      BY <1>9, <1>13, <1>26, <1>27, <3>2, <3>3, PicksMore
    <3> QED
      BY <1>18, <3>1, <3>4
  <2>2. ASSUME status # Ok PROVE Reports(failFast, Checks[top.message], status)
    <3>1. Reports(failFast, Checks[m], status)
      BY <1>2, <1>6, <2>2 DEF Returns
    <3>2. PICK a : a = DidBy(fr)
      OBVIOUS
    <3>3. PICK c : c = DidBy(top)
      OBVIOUS
    <3>4. PICK all : all = Checks[fr.message]
      OBVIOUS
    <3>5. NoErrors(a) /\ Sequence(a) /\ IsJoined(c, a, Under(x, Checks[m])) /\ Starts(c, all)
      BY <1>9, <1>16, <3>2, <3>3, <3>4 DEF Explains
    <3>6. Reports(failFast, all, status)
      BY <3>1, <3>5, ReportsBelow
    <3> QED
      BY <1>18, <3>4, <3>6
  <2>3. Returns(failFast, ws, top, status)
    BY <1>13, <1>23, <2>2, <2>6 DEF Returns
  <2>4. OnWay(failFast, ws, top, "return", status)
    BY DEF OnWay, Going
  <2>5. /\ Callers(frames, violations)' /\ RootFrame(frames, root)'
        /\ OnWay(failFast, violations, Top, pc, status)'
        /\ Returns(failFast, violations, Top, status)'
    BY <1>12, <1>20, <1>21, <1>22, <2>1, <2>3, <2>4
  <2> QED
    BY <2>5 DEF WalkFinds
<1>24. CASE ~ShouldReturn(failFast, ws, status)
  <2>1. status = Ok /\ ~(failFast /\ ws # <<>>)
    BY <1>24 DEF ShouldReturn
  <2>2. ~ShouldReturn(failFast, violations, status)
    <3>1. ws = <<>> => violations = <<>>
      BY <1>2, <1>8, <1>13, NoneIf
    <3> QED
      BY <2>1, <3>1 DEF ShouldReturn
  <2>3. NoErrors(Checks[m]) /\ FindsIn(violations, p, n, Checks[m])
    BY <1>2, <1>6, <1>7, <1>8, <2>2 DEF Returns
  <2>5. FindsIn(ws, p, n, ds) /\ NoErrors(ds)
    BY <1>28, <2>1, <2>3
  <2>7. Explains(ws, top, n)
    BY <1>9, <1>13, <1>26, <1>27, <2>5, ExplainsMore
  <2>8. ~ShouldReturn(failFast, ws, Ok)
    BY <2>1 DEF ShouldReturn
  <2>9. OnWay(failFast, ws, top, "fields", Ok)
    BY <1>13, <1>16, <2>7, <2>8 DEF OnWay
  <2>10. pc' = "fields" /\ status' = Ok
    BY <1>12, <1>24
  <2>11. /\ Callers(frames, violations)' /\ RootFrame(frames, root)'
         /\ OnWay(failFast, violations, Top, pc, status)'
    BY <1>12, <1>20, <1>21, <1>22, <2>9, <2>10
  <2> QED
    BY <2>10, <2>11 DEF WalkFinds
<1> QED
  BY <1>23, <1>24
-------------------------------------------------------------------------------
(* The end of Validate.                                                    *)

\* A violation turned around is what the reference reports.
LEMMA TurnedAround ==
  ASSUME NEW v, NEW w, Shown(v, w)
  PROVE  Proto([v EXCEPT !.field = Reverse(@), !.rule = Reverse(@)]) = Proto(w)
<1>1. /\ IsViolation(v) /\ v.id = w.id /\ v.forKey = w.forKey /\ v.ruleValue = w.ruleValue
      /\ v.field = Reverse(w.field) /\ v.rule = Reverse(w.rule)
      /\ Sequence(w.field) /\ Sequence(w.rule)
  BY DEF Shown
<1>2. PICK f : f = w.field
  OBVIOUS
<1>3. PICK r : r = w.rule
  OBVIOUS
<1>4. Sequence(f) /\ Sequence(r) /\ v.field = Reverse(f) /\ v.rule = Reverse(r)
  BY <1>1, <1>2, <1>3
<1>5. Reverse(Reverse(f)) = f
  BY <1>4, ReverseTwice
<1>6. Reverse(Reverse(r)) = r
  BY <1>4, ReverseTwice
<1>7. v = [id |-> v.id, field |-> v.field, rule |-> v.rule, forKey |-> v.forKey,
           fieldValue |-> v.fieldValue, ruleValue |-> v.ruleValue]
  BY <1>1 DEF IsViolation
<1>8. PICK u : u = [id |-> v.id, field |-> f, rule |-> v.rule, forKey |-> v.forKey,
                    fieldValue |-> v.fieldValue, ruleValue |-> v.ruleValue]
  OBVIOUS
<1>9. PICK t : t = [id |-> v.id, field |-> f, rule |-> r, forKey |-> v.forKey,
                    fieldValue |-> v.fieldValue, ruleValue |-> v.ruleValue]
  OBVIOUS
<1>10. [v EXCEPT !.field = Reverse(@)] = [v EXCEPT !.field = f]
  BY <1>4, <1>5
<1>11. u = [v EXCEPT !.field = f]
  BY <1>7, <1>8
<1>12. u.rule = v.rule
  BY <1>8
<1>13. t = [u EXCEPT !.rule = r]
  BY <1>8, <1>9
<1>14. [v EXCEPT !.field = Reverse(@), !.rule = Reverse(@)] = t
  <2>1. [v EXCEPT !.field = Reverse(@), !.rule = Reverse(@)]
          = [[v EXCEPT !.field = Reverse(v.field)] EXCEPT !.rule = Reverse(v.rule)]
    BY <1>7
  <2> QED
    BY <1>4, <1>5, <1>6, <1>11, <1>13, <2>1
<1>15. t.id = w.id /\ t.field = w.field /\ t.rule = w.rule /\ t.forKey = w.forKey /\ t.ruleValue = w.ruleValue
  BY <1>1, <1>2, <1>3, <1>9
<1> QED
  BY <1>14, <1>15 DEF Proto

\* All of them are, in order.
LEMMA AllTurnedAround ==
  ASSUME NEW vs, NEW n, NEW z, NEW cs, Sequence(vs), Sequence(cs),
         n = Len(vs), z = 0, FindsIn(vs, z, n, cs)
  PROVE  Protos(Finalize(vs)) = Protos(Fails(cs))
<1>1. PICK ws : ws = Fails(cs)
  OBVIOUS
<1>2. PICK k : k = Finalize(vs)
  OBVIOUS
<1>3. n \in Nat
  BY SequenceLen
<1>4. UpTo(vs, n) = vs
  BY UpToAll
<1>5. Sequence(UpTo(vs, z)) /\ Len(UpTo(vs, z)) = 0
  <2>1. z \in 0..Len(vs)
    BY <1>3
  <2> QED
    BY <2>1, UpToIs
<1>6. n = 0 + Len(ws) /\ \A i \in 1..Len(ws) : Shown(vs[0 + i], ws[i])
  BY <1>1, <1>4, <1>5 DEF FindsIn, Finds
<1>7. Len(ws) \in Nat
  <2>1. Sequence(ws)
    BY <1>1, FailsSequence
  <2> QED
    BY <2>1, SequenceLen
<1>8. n = Len(ws) /\ \A i \in 1..n : Shown(vs[i], ws[i])
  BY <1>6, <1>7
<1>9. k = [i \in 1..n |-> [vs[i] EXCEPT !.field = Reverse(@), !.rule = Reverse(@)]]
  BY <1>2 DEF Finalize
<1>10. Len(k) = n
  <2>1. k = [i \in 1..n |-> k[i]]
    BY <1>9
  <2>2. k \in [1..n -> {k[i] : i \in 1..n}]
    BY <2>1
  <2> QED
    BY <1>3, <2>2, SequenceIs
<1>11. ASSUME NEW i \in 1..n PROVE Proto(k[i]) = Proto(ws[i])
  <2>1. k[i] = [vs[i] EXCEPT !.field = Reverse(@), !.rule = Reverse(@)]
    BY <1>9
  <2>2. Shown(vs[i], ws[i])
    BY <1>8
  <2> QED
    BY <2>1, <2>2, TurnedAround
<1>12. [i \in 1..n |-> Proto(k[i])] = [i \in 1..n |-> Proto(ws[i])]
  BY <1>11
<1> QED
  BY <1>1, <1>2, <1>8, <1>10, <1>12 DEF Protos

-------------------------------------------------------------------------------
(* The end of Validate, early.                                             *)

Places(at, k) == {at[j] : j \in 1..k}

\* The places up to the k-th are k.
LEMMA PlacesCount ==
  ASSUME NEW at, NEW n \in Nat, NEW m \in Nat, Increasing(at, n, m)
  PROVE  \A k \in 0..n : IsFiniteSet(Places(at, k)) /\ Cardinality(Places(at, k)) = k
<1> DEFINE S(k) == Places(at, k)
           T == {k \in Nat : k <= n => IsFiniteSet(S(k)) /\ Cardinality(S(k)) = k}
<1>1. 0 \in T
  <2>1. S(0) = {}
    BY DEF Places
  <2> QED
    BY <2>1, FS_EmptySet
<1>2. ASSUME NEW k \in Nat, k \in T PROVE k + 1 \in T
  <2> SUFFICES ASSUME k + 1 <= n
               PROVE  IsFiniteSet(S(k + 1)) /\ Cardinality(S(k + 1)) = k + 1
    OBVIOUS
  <2>1. IsFiniteSet(S(k)) /\ Cardinality(S(k)) = k
    BY <1>2
  <2>2. S(k + 1) = S(k) \cup {at[k + 1]}
    <3>1. 1..(k + 1) = 1..k \cup {k + 1}
      OBVIOUS
    <3> QED
      BY <3>1 DEF Places
  <2>3. at[k + 1] \notin S(k)
    <3>1. \A j \in 1..k : j \in 1..n /\ k + 1 \in 1..n /\ j < k + 1
      OBVIOUS
    <3>2. \A j \in 1..k : at[j] < at[k + 1]
      BY <3>1 DEF Increasing
    <3>3. \A j \in 1..k : at[j] \in Nat /\ at[k + 1] \in Nat
      BY <3>1 DEF Increasing
    <3> QED
      BY <3>2, <3>3 DEF Places
  <2> HIDE DEF S
  <2>4. IsFiniteSet(S(k) \cup {at[k + 1]}) /\ Cardinality(S(k) \cup {at[k + 1]}) = Cardinality(S(k)) + 1
    BY <2>1, <2>3, FS_AddElement
  <2> QED
    BY <2>1, <2>2, <2>4
<1> HIDE DEF T
<1>3. Nat \subseteq T
  BY <1>1, <1>2, Induction
<1> USE DEF T
<1>4. ASSUME NEW k \in 0..n PROVE IsFiniteSet(S(k)) /\ Cardinality(S(k)) = k
  <2>1. k \in T /\ k <= n
    BY <1>3
  <2> QED
    BY <2>1
<1> QED
  BY <1>4

\* got are the elements of all at n places.
TakenAt(got, all, at, n) == got = [i \in 1..n |-> all[at[i]]]

\* The elements at places in order are those selected by the set of the places.
LEMMA SelectedAre ==
  ASSUME NEW got, NEW all, NEW at, NEW n \in Nat, NEW m \in Nat, m = Len(all),
         Increasing(at, n, m), TakenAt(got, all, at, n)
  PROVE  \E sel \in SUBSET (1..Len(all)) : Selected(all, sel) = got
<1>1. PICK sel : sel = Places(at, n)
  OBVIOUS
<1>2. \A i \in 1..n : at[i] \in 1..m /\ at[i] \in Nat
  BY DEF Increasing
<1>3. \A i, j \in 1..n : i < j => at[i] < at[j]
  BY DEF Increasing
<1>4. sel \in SUBSET (1..m) /\ \A i \in 1..n : at[i] \in sel
  BY <1>1, <1>2 DEF Places
<1>5. Cardinality(sel) = n
  <2>1. n \in 0..n
    OBVIOUS
  <2> QED
    BY <1>1, <2>1, PlacesCount
<1>6. ASSUME NEW i \in 1..n PROVE Cardinality({j \in sel : j < at[i]}) = i - 1
  <2>1. PICK k \in 0..n : k = i - 1
    OBVIOUS
  <2>2. \A j \in 1..n : at[j] < at[i] <=> j \in 1..k
    <3>1. ASSUME NEW j \in 1..n PROVE at[j] < at[i] <=> j \in 1..k
      <4>1. CASE j < i
        BY <1>3, <2>1, <4>1
      <4>2. CASE i <= j
        <5>1. at[i] <= at[j]
          <6>1. CASE i = j
            BY <1>2, <6>1
          <6>2. CASE i < j
            BY <1>2, <1>3, <6>2
          <6> QED
            BY <4>2, <6>1, <6>2
        <5>2. ~(at[j] < at[i])
          BY <1>2, <5>1
        <5> QED
          BY <2>1, <4>2, <5>2
      <4> QED
        BY <4>1, <4>2
    <3> QED
      BY <3>1
  <2>3. {j \in sel : j < at[i]} = Places(at, k)
    <3>1. \A j \in 1..k : j \in 1..n
      BY <2>1
    <3> QED
      BY <1>1, <2>2, <3>1 DEF Places
  <2>4. k \in 0..n /\ Cardinality(Places(at, k)) = k
    BY <2>1, PlacesCount
  <2> QED
    BY <2>1, <2>3, <2>4
<1>7. ASSUME NEW i \in 1..n
      PROVE  (CHOOSE k \in sel : Cardinality({j \in sel : j < k}) = i - 1) = at[i]
  <2>1. \A k \in sel : Cardinality({j \in sel : j < k}) = i - 1 => k = at[i]
    <3>1. ASSUME NEW k \in sel, Cardinality({j \in sel : j < k}) = i - 1 PROVE k = at[i]
      <4>1. PICK l \in 1..n : k = at[l]
        BY <1>1 DEF Places
      <4>2. l - 1 = i - 1
        BY <1>6, <3>1, <4>1
      <4>3. l = i
        BY <4>2
      <4> QED
        BY <4>1, <4>3
    <3> QED
      BY <3>1
  <2>2. at[i] \in sel /\ Cardinality({j \in sel : j < at[i]}) = i - 1
    BY <1>4, <1>6
  <2> QED
    BY <2>1, <2>2
<1>8. Selected(all, sel) = [i \in 1..n |-> all[at[i]]]
  <2>1. Selected(all, sel) =
          [i \in 1..n |-> all[CHOOSE k \in sel : Cardinality({j \in sel : j < k}) = i - 1]]
    BY <1>5 DEF Selected
  <2> QED
    BY <1>7, <2>1
<1> QED
  BY <1>4, <1>8 DEF TakenAt

\* got is some of all, in order, with the first one if any.
SomeOf(got, all) ==
  /\ got # <<>> => Head(got) = Head(all)
  /\ \E sel \in SUBSET (1..Len(all)) : Selected(all, sel) = got

\* None after turning them around, none before.
LEMMA NoneTurnedAround ==
  ASSUME NEW vs, Sequence(vs), Protos(Finalize(vs)) = <<>>
  PROVE  vs = <<>>
<1>1. PICK n \in Nat : n = Len(vs)
  BY SequenceLen
<1>2. PICK us : us = Finalize(vs)
  OBVIOUS
<1>3. us = [i \in 1..n |-> [vs[i] EXCEPT !.field = Reverse(@), !.rule = Reverse(@)]]
  BY <1>1, <1>2 DEF Finalize
<1>4. Len(us) = n
  <2>1. us = [i \in 1..n |-> us[i]]
    BY <1>3
  <2>2. us \in [1..n -> {us[i] : i \in 1..n}]
    BY <2>1
  <2> QED
    BY <2>2, SequenceIs
<1>5. Protos(us) = [i \in 1..n |-> Proto(us[i])]
  BY <1>4 DEF Protos
<1>6. Len(Protos(us)) = n
  BY <1>5
<1>7. n = 0
  BY <1>2, <1>6
<1> QED
  BY <1>1, <1>7, EmptyIf

\* What is left of the violations turned around.
LEMMA SomeTurnedAround ==
  ASSUME NEW vs, NEW n, NEW z, NEW cs, Sequence(vs), Sequence(cs),
         n = Len(vs), z = 0, PicksIn(vs, z, n, cs)
  PROVE  SomeOf(Protos(Finalize(vs)), Protos(Fails(cs)))
<1>1. PICK ws : ws = Fails(cs)
  OBVIOUS
<1>2. PICK us : us = Finalize(vs)
  OBVIOUS
<1>3. n \in Nat
  BY SequenceLen
<1>4. UpTo(vs, n) = vs
  BY UpToAll
<1>5. Len(UpTo(vs, z)) = 0
  <2>1. z \in 0..Len(vs)
    BY <1>3
  <2> QED
    BY <2>1, UpToIs
<1>6. PICK at, p, k : PicksAt(UpTo(vs, z), vs, ws, at, p, k)
  BY <1>1, <1>4 DEF PicksIn, Picks
<1>7. /\ p = 0 /\ k \in Nat /\ n = p + k /\ Increasing(at, k, Len(ws))
      /\ \A i \in 1..k : Shown(vs[p + i], ws[at[i]])
      /\ p = 0 /\ k # 0 => at[1] = 1
  BY <1>5, <1>6 DEF PicksAt
<1>8. k = n /\ \A i \in 1..n : 0 + i = i
  BY <1>3, <1>7
<1>9. /\ Increasing(at, n, Len(ws)) /\ (n # 0 => at[1] = 1)
      /\ \A i \in 1..n : Shown(vs[i], ws[at[i]])
  BY <1>7, <1>8
<1>10. us = [i \in 1..n |-> [vs[i] EXCEPT !.field = Reverse(@), !.rule = Reverse(@)]]
  BY <1>2 DEF Finalize
<1>11. Len(us) = n
  <2>1. us = [i \in 1..n |-> us[i]]
    BY <1>10
  <2>2. us \in [1..n -> {us[i] : i \in 1..n}]
    BY <2>1
  <2> QED
    BY <1>3, <2>2, SequenceIs
<1>12. PICK m \in Nat : m = Len(ws)
  BY <1>1, FailsSequence
<1>13. PICK got : got = Protos(us)
  OBVIOUS
<1>14. PICK all : all = Protos(ws)
  OBVIOUS
<1>15. all = [i \in 1..m |-> Proto(ws[i])] /\ Len(all) = m
  BY <1>12, <1>14 DEF Protos
<1>16. got = [i \in 1..n |-> Proto(us[i])] /\ Len(got) = n
  BY <1>3, <1>11, <1>13 DEF Protos
<1>17. ASSUME NEW i \in 1..n PROVE Proto(us[i]) = all[at[i]]
  <2>1. us[i] = [vs[i] EXCEPT !.field = Reverse(@), !.rule = Reverse(@)]
    BY <1>10
  <2>2. Shown(vs[i], ws[at[i]])
    BY <1>9
  <2>3. Proto(us[i]) = Proto(ws[at[i]])
    BY <2>1, <2>2, TurnedAround
  <2>4. at[i] \in 1..m
    BY <1>9, <1>12 DEF Increasing
  <2> QED
    BY <1>15, <2>3, <2>4
<1>18. got = [i \in 1..n |-> all[at[i]]]
  BY <1>16, <1>17
<1>19. \E sel \in SUBSET (1..Len(all)) : Selected(all, sel) = got
  <2>1. Increasing(at, n, m) /\ m = Len(all)
    BY <1>9, <1>12, <1>15
  <2>2. TakenAt(got, all, at, n) /\ n \in Nat
    BY <1>3, <1>18 DEF TakenAt
  <2> QED
    BY <2>1, <2>2, SelectedAre
<1>20. ASSUME got # <<>> PROVE Head(got) = Head(all)
  <2>1. n # 0
    <3>1. ASSUME n = 0 PROVE FALSE
      <4>1. got = [i \in 1..0 |-> Proto(us[i])]
        BY <1>16, <3>1
      <4>2. got = <<>>
        BY <4>1
      <4> QED
        BY <1>20, <4>2
    <3> QED
      BY <3>1
  <2>2. 1 \in 1..n /\ at[1] = 1
    BY <1>3, <1>9, <2>1
  <2>3. got[1] = all[1]
    BY <1>18, <2>2
  <2>4. Head(got) = got[1] /\ Head(all) = all[1]
    OBVIOUS
  <2> QED
    BY <2>3, <2>4
<1> QED
  BY <1>1, <1>2, <1>13, <1>14, <1>19, <1>20 DEF SomeOf

\* What a validation that is over has reported.
Reported == ReportsExactly /\ NoSpuriousErrors /\ ErrorsReported /\ FailFastAgrees

\* The result is the violations turned around, or the status of a check that cannot be
\* made, without failFast of the first.
LEMMA FinishReports ==
  ASSUME NEW height, ShownTrees(height), WalkInv(Messages), WalkFinds, Finish
  PROVE  Reported'
<1>1. ~Done /\ pc = "return" /\ Len(frames) = 1
  BY DEF Finish, Done
<1>2. /\ RootFrame(frames, root) /\ Returns(failFast, violations, Top, status)
      /\ Top.message \in Messages /\ Sequence(violations)
  BY <1>1, OnTheWalk
<1>3. Top.message = root /\ Top.pos = 0
  BY <1>1, <1>2 DEF RootFrame, Top
<1>4. PICK cs : cs = Checks[root]
  OBVIOUS
<1>5. PICK n : n = Len(violations)
  OBVIOUS
<1>6. PICK z : z = 0
  OBVIOUS
<1>7. /\ ~ShouldReturn(failFast, violations, status) => NoErrors(cs) /\ FindsIn(violations, z, n, cs)
      /\ status # Ok => Reports(failFast, cs, status)
      /\ status = Ok => PicksIn(violations, z, n, cs)
  BY <1>2, <1>3, <1>4, <1>5, <1>6 DEF Returns
<1>8. Sequence(cs)
  <2>1. AreChecks(Checks[root], MessageOutcomes)
    BY <1>2, <1>3, ChecksAre
  <2> QED
    BY <1>4, <2>1 DEF AreChecks
<1>9. /\ UNCHANGED <<root, failFast, status>> /\ Done'
      /\ violations' = IF status = Ok THEN Finalize(violations) ELSE <<>>
  BY DEF Finish, Done
<1>10. NoSpuriousErrors'
  <2>1. ASSUME status # Ok
        PROVE  /\ violations' = <<>>
               /\ \E c \in ToSet(cs) : c.outcome \notin {"pass", "fail"} /\ c.outcome = status
               /\ ~failFast => status = FirstError(cs)
    <3>1. HasStatus(cs, status) /\ (~failFast => IsFirst(cs, status))
      BY <1>7, <2>1 DEF Reports
    <3>2. ~failFast => FirstError(cs) = status
      BY <3>1, FirstErrorIs
    <3>3. \E c \in ToSet(cs) : c.outcome \notin {"pass", "fail"} /\ c.outcome = status
      BY <1>8, <3>1, StatusOfCheck
    <3> QED
      BY <1>9, <2>1, <3>2, <3>3
  <2>2. /\ status' = status /\ failFast' = failFast /\ root' = root
        /\ Checks[root] = cs
    BY <1>4, <1>9
  <2> QED
    BY <2>1, <2>2 DEF NoSpuriousErrors
<1>11. ASSUME status = Ok, ~failFast
       PROVE  FirstError(cs) = Ok /\ Protos(violations') = Protos(Fails(cs))
  <2>1. ~ShouldReturn(failFast, violations, status)
    BY <1>11 DEF ShouldReturn
  <2>2. NoErrors(cs) /\ FindsIn(violations, z, n, cs)
    BY <1>7, <2>1
  <2>3. FirstError(cs) = Ok
    BY <2>2, NoFirstError
  <2>4. Protos(Finalize(violations)) = Protos(Fails(cs))
    BY <1>2, <1>5, <1>6, <1>8, <2>2, AllTurnedAround
  <2> QED
    BY <1>9, <1>11, <2>3, <2>4
<1>12. ErrorsReported'
  <2>1. status = Ok /\ ~failFast => FirstError(Checks[root]) = Ok
    BY <1>4, <1>11
  <2> QED
    BY <1>9, <2>1 DEF ErrorsReported
<1>13. ReportsExactly'
  <2>1. status = Ok /\ ~failFast => Protos(violations') = Protos(Fails(Checks[root]))
    BY <1>4, <1>11
  <2>2. status = Ok /\ ~failFast => Protos(violations') = Protos(Failing(root))
    BY <2>1 DEF Failing
  <2>3. Protos(violations)' = Protos(violations')
    BY DEF Protos
  <2> QED
    BY <1>9, <2>2, <2>3 DEF ReportsExactly
<1>14. ASSUME status = Ok, failFast
       PROVE  /\ Protos(violations') = <<>> => Protos(Fails(cs)) = <<>> /\ FirstError(cs) = Ok
              /\ SomeOf(Protos(violations'), Protos(Fails(cs)))
  <2>1. SomeOf(Protos(Finalize(violations)), Protos(Fails(cs)))
    BY <1>2, <1>5, <1>6, <1>7, <1>8, <1>14, SomeTurnedAround
  <2>2. violations' = Finalize(violations)
    BY <1>9, <1>14
  <2>3. ASSUME Protos(Finalize(violations)) = <<>>
        PROVE  Protos(Fails(cs)) = <<>> /\ FirstError(cs) = Ok
    <3>1. violations = <<>>
      BY <1>2, <2>3, NoneTurnedAround
    <3>2. ~ShouldReturn(failFast, violations, status)
      BY <1>14, <3>1 DEF ShouldReturn
    <3>3. NoErrors(cs) /\ FindsIn(violations, z, n, cs)
      BY <1>7, <3>2
    <3>4. FirstError(cs) = Ok
      BY <3>3, NoFirstError
    <3>5. Protos(Finalize(violations)) = Protos(Fails(cs))
      BY <1>2, <1>5, <1>6, <1>8, <3>3, AllTurnedAround
    <3> QED
      BY <2>3, <3>4, <3>5
  <2> QED
    BY <2>1, <2>2, <2>3
<1>15. FailFastAgrees'
  <2>1. ASSUME status = Ok, failFast
        PROVE  \E all \in {Protos(Fails(Checks[root]))}, got \in {Protos(violations')} :
                 /\ got = <<>> => all = <<>> /\ FirstError(Checks[root]) = Ok
                 /\ got # <<>> => Head(got) = Head(all)
                 /\ \E sel \in SUBSET (1..Len(all)) : Selected(all, sel) = got
    BY <1>4, <1>14, <2>1 DEF SomeOf
  <2>2. Protos(violations)' = Protos(violations')
    BY DEF Protos
  <2> QED
    BY <1>9, <2>1, <2>2 DEF FailFastAgrees, Failing
<1> QED
  BY <1>10, <1>12, <1>13, <1>15 DEF Reported

\* The inductive invariant.
ReportInv == WalkInv(Messages) /\ WalkFinds /\ (Done => Reported)

\* At the start nothing has been checked and nothing found.
LEMMA ReportStarts ==
  ASSUME NEW height, ShownTrees(height), Init
  PROVE  ReportInv
<1>1. WalkInv(Messages)
  BY WalkStarts DEF ShownTrees
<1>2. PICK top : top = Activation(root, 0)
  OBVIOUS
<1>3. /\ top.message = root /\ top.rule = 1 /\ top.field = 1 /\ top.elem = 1 /\ top.pos = 0
  BY <1>2 DEF Activation
<1>4. frames = <<top>> /\ Len(frames) = 1 /\ frames[1] = top /\ Top = top
  BY <1>2 DEF Init, Top
<1>5. Sequence(violations) /\ Len(violations) = 0 /\ violations = <<>>
  BY DEF Init, Sequence
<1>6. Explains(violations, top, Len(violations))
  <2>1. DidBy(top) = <<>>
    <3>1. DidBy(top) = Did(root, 0, 0, 0)
      BY <1>3 DEF DidBy
    <3> QED
      BY <3>1, DidNothing
  <2>2. PICK n : n = 0
    OBVIOUS
  <2>3. n \in 0..Len(violations)
    BY <1>5, <2>2
  <2>4. FindsIn(violations, n, n, <<>>)
    BY <1>5, <2>3, FindsInNone
  <2>5. NoErrors(<<>>)
    BY DEF NoErrors
  <2> QED
    BY <1>3, <1>5, <2>1, <2>2, <2>4, <2>5 DEF Explains
<1>7. Callers(frames, violations)
  BY <1>3, <1>4 DEF Callers
<1>8. RootFrame(frames, root)
  BY <1>3, <1>4 DEF RootFrame
<1>9. pc = "enter" /\ status = Ok
  BY DEF Init
<1>10. OnWay(failFast, violations, top, "enter", status)
  <2>1. At(top, "enter")
    BY <1>3 DEF At
  <2> QED
    BY <1>5, <1>6, <1>9, <2>1 DEF OnWay, ShouldReturn
<1>11. WalkFinds
  BY <1>4, <1>7, <1>8, <1>9, <1>10 DEF WalkFinds
<1> QED
  BY <1>1, <1>9, <1>11 DEF ReportInv, Done

\* A step that changes nothing.
LEMMA StutterFinds ==
  ASSUME WalkFinds, Done => Reported, UNCHANGED vars
  PROVE  WalkFinds' /\ (Done => Reported)'
<1>1. /\ root' = root /\ failFast' = failFast /\ violations' = violations /\ frames' = frames
      /\ pc' = pc /\ status' = status
  BY DEF vars
<1>2. Top' = Top /\ Done' = Done
  BY <1>1 DEF Top, Done
<1>3. WalkFinds'
  BY <1>1, <1>2 DEF WalkFinds
<1>4. Protos(violations)' = Protos(violations) /\ Protos(Failing(root))' = Protos(Failing(root))
  BY <1>1 DEF Protos, Failing
<1>5. Reported' = Reported
  <2>1. FailFastAgrees' = FailFastAgrees
    BY <1>1, <1>2, <1>4 DEF FailFastAgrees
  <2> QED
    BY <1>1, <1>2, <1>4, <2>1 DEF Reported, ReportsExactly, NoSpuriousErrors, ErrorsReported
<1> QED
  BY <1>2, <1>3, <1>5

\* Each action keeps it.
LEMMA ReportSteps ==
  ASSUME NEW height, ShownTrees(height), ReportInv, [Next]_vars
  PROVE  ReportInv'
<1>1. WalkInv(Messages) /\ WalkFinds /\ (Done => Reported)
  BY DEF ReportInv
<1>2. WalkInv(Messages)'
  BY <1>1, WalkSteps DEF ShownTrees
<1>3. CASE EnterMessage
  <2>1. WalkFinds' /\ ~Done'
    BY <1>1, <1>3, EnterFinds DEF EnterMessage, Return, Done
  <2> QED
    BY <1>2, <2>1 DEF ReportInv
<1>4. CASE RunRule
  <2>1. WalkFinds' /\ ~Done'
    <3>1. WalkFinds'
      BY <1>1, <1>4, RunRuleFinds
    <3>2. pc' = "return" \/ pc' = pc
      BY <1>4 DEF RunRule, Return
    <3> QED
      BY <1>4, <3>1, <3>2 DEF RunRule, Done
  <2> QED
    BY <1>2, <2>1 DEF ReportInv
<1>5. CASE RulesDone
  <2>1. WalkFinds' /\ ~Done'
    BY <1>1, <1>5, RulesDoneFinds DEF RulesDone, Done
  <2> QED
    BY <1>2, <2>1 DEF ReportInv
<1>6. CASE NextField
  <2>1. WalkFinds' /\ ~Done'
    BY <1>1, <1>6, NextFieldFinds DEF NextField, Done
  <2> QED
    BY <1>2, <2>1 DEF ReportInv
<1>7. CASE Descend
  <2>1. WalkFinds' /\ ~Done'
    BY <1>1, <1>7, DescendFinds DEF Descend, Done
  <2> QED
    BY <1>2, <2>1 DEF ReportInv
<1>8. CASE FieldsDone
  <2>1. WalkFinds' /\ ~Done'
    BY <1>1, <1>8, FieldsDoneFinds DEF FieldsDone, Return, Done
  <2> QED
    BY <1>2, <2>1 DEF ReportInv
<1>9. CASE Resume
  <2>1. WalkFinds' /\ ~Done'
    <3>1. WalkFinds'
      BY <1>1, <1>9, ResumeFinds
    <3>2. pc' = "return" \/ pc' = "fields"
      BY <1>9 DEF Resume, Return
    <3> QED
      BY <3>1, <3>2 DEF Done
  <2> QED
    BY <1>2, <2>1 DEF ReportInv
<1>10. CASE Finish
  <2>1. Reported'
    BY <1>1, <1>10, FinishReports
  <2>2. Done'
    BY <1>10 DEF Finish, Done
  <2>3. WalkFinds'
    BY <2>2 DEF WalkFinds
  <2> QED
    BY <1>2, <2>1, <2>3 DEF ReportInv
<1>11. CASE UNCHANGED vars
  <2>1. WalkFinds' /\ (Done => Reported)'
    BY <1>1, <1>11, StutterFinds
  <2> QED
    BY <1>2, <2>1 DEF ReportInv
<1> QED
  BY <1>3, <1>4, <1>5, <1>6, <1>7, <1>8, <1>9, <1>10, <1>11 DEF Next

\* In every state the checks made so far explain what has been found.
LEMMA ReportInvariant ==
  ASSUME NEW height, ShownTrees(height)
  PROVE  Spec => []ReportInv
<1>1. Init => ReportInv
  BY ReportStarts
<1>2. ReportInv /\ [Next]_vars => ReportInv'
  BY ReportSteps
<1> QED
  BY <1>1, <1>2, PTL DEF Spec

\* What the inductive invariant says at the end of a walk.
LEMMA ReportedIs ==
  ASSUME ReportInv
  PROVE  ReportsExactly /\ NoSpuriousErrors /\ ErrorsReported /\ FailFastAgrees
<1>1. CASE Done
  BY <1>1 DEF ReportInv, Reported
<1>2. CASE ~Done
  BY <1>2 DEF ReportsExactly, NoSpuriousErrors, ErrorsReported, FailFastAgrees
<1> QED
  BY <1>1, <1>2

\* Validating a message of any depth reports the failing checks, all of them, once
\* each and in order.
THEOREM ReportsExactlyCorrect ==
  ASSUME NEW height, ShownTrees(height)
  PROVE  Spec => []ReportsExactly
<1>1. ReportInv => ReportsExactly
  BY ReportedIs
<1> QED
  BY <1>1, ReportInvariant, PTL

\* An error is the status of a check of the message that cannot be made, whatever
\* code Evaluate, a reading of a value or a missing type ends with, without failFast
\* of the first such check, and it comes without violations.
THEOREM NoSpuriousErrorsCorrect ==
  ASSUME NEW height, ShownTrees(height)
  PROVE  Spec => []NoSpuriousErrors
<1>1. ReportInv => NoSpuriousErrors
  BY ReportedIs
<1> QED
  BY <1>1, ReportInvariant, PTL

\* A check that cannot be made is never passed over unless failFast ends the validation.
THEOREM ErrorsReportedCorrect ==
  ASSUME NEW height, ShownTrees(height)
  PROVE  Spec => []ErrorsReported
<1>1. ReportInv => ErrorsReported
  BY ReportedIs
<1> QED
  BY <1>1, ReportInvariant, PTL

\* A validation that failFast ends reports the first violation, and with it only
\* genuine ones in order; without violations the message has none.
THEOREM FailFastAgreesCorrect ==
  ASSUME NEW height, ShownTrees(height)
  PROVE  Spec => []FailFastAgrees
<1>1. ReportInv => FailFastAgrees
  BY ReportedIs
<1> QED
  BY <1>1, ReportInvariant, PTL
-------------------------------------------------------------------------------
(* Violations on their way up.                                             *)

Among(w, f) == \E j \in 1..Len(f) : f[j] = w

\* What is among the one or the other is among both, end to end.
LEMMA AmongJoined ==
  ASSUME NEW f, NEW g, NEW h, NEW w, Sequence(f), Sequence(g), IsJoined(h, f, g),
         Among(w, f) \/ Among(w, g)
  PROVE  Among(w, h)
<1>1. PICK m \in Nat : m = Len(f)
  BY SequenceLen
<1>2. PICK n \in Nat : n = Len(g)
  BY SequenceLen
<1>3. Len(f) = m /\ Len(g) = n
  BY <1>1, <1>2
<1>4. /\ Len(h) = m + n
      /\ \A i \in 1..m : h[i] = f[i]
      /\ \A i \in 1..n : h[m + i] = g[i]
  BY <1>3, JoinedParts
<1>5. CASE Among(w, f)
  <2>1. PICK j \in 1..m : f[j] = w
    BY <1>3, <1>5 DEF Among
  <2>2. j \in 1..Len(h) /\ h[j] = w
    BY <1>4, <2>1
  <2> QED
    BY <2>2 DEF Among
<1>6. CASE Among(w, g)
  <2>1. PICK j \in 1..n : g[j] = w
    BY <1>3, <1>6 DEF Among
  <2>2. m + j \in 1..Len(h) /\ h[m + j] = w
    BY <1>4, <2>1
  <2> QED
    BY <2>2 DEF Among
<1> QED
  BY <1>5, <1>6

\* The same of the failing ones among checks.
LEMMA AmongFails ==
  ASSUME NEW a, NEW b, NEW c, NEW w, Sequence(a), Sequence(b), IsJoined(c, a, b),
         Among(w, Fails(a)) \/ Among(w, Fails(b))
  PROVE  Among(w, Fails(c))
<1>1. PICK f, g, h : f = Fails(a) /\ g = Fails(b) /\ h = Fails(c)
  OBVIOUS
<1>2. IsJoined(h, f, g)
  BY <1>1, FailsJoined DEF IsJoined
<1>3. Sequence(f)
  BY <1>1, FailsSequence
<1>4. Sequence(g)
  BY <1>1, FailsSequence
<1>5. Among(w, h)
  BY <1>1, <1>2, <1>3, <1>4, AmongJoined
<1> QED
  BY <1>1, <1>5

\* A violation found between two places shows one of the failing checks made there.
LEMMA PickedAmong ==
  ASSUME NEW vs, Sequence(vs), NEW lo \in Nat, NEW hi \in 0..Len(vs), NEW cs, lo <= hi,
         PicksIn(vs, lo, hi, cs), NEW i \in (lo + 1)..hi
  PROVE  \E w : Among(w, Fails(cs)) /\ Shown(vs[i], w)
<1>1. PICK f : f = Fails(cs)
  OBVIOUS
<1>2. Len(vs) \in Nat
  BY SequenceLen
<1>3. lo \in 0..Len(vs) /\ hi \in Nat /\ i \in 1..hi
  BY <1>2
<1>4. PICK u : u = UpTo(vs, lo)
  OBVIOUS
<1>5. PICK x : x = UpTo(vs, hi)
  OBVIOUS
<1>6. Len(u) = lo
  BY <1>3, <1>4, UpToIs
<1>7. Len(x) = hi /\ x[i] = vs[i]
  BY <1>3, <1>5, UpToIs
<1>8. PICK at, p, n : PicksAt(u, x, f, at, p, n)
  BY <1>1, <1>4, <1>5 DEF PicksIn, Picks
<1>9. /\ p = lo /\ n \in Nat /\ hi = p + n
      /\ \A k \in 1..n : at[k] \in 1..Len(f) /\ Shown(x[p + k], f[at[k]])
  BY <1>6, <1>7, <1>8 DEF PicksAt, Increasing
<1>10. PICK k \in 1..n : i = p + k
  <2>1. i - lo \in 1..n /\ i = p + (i - lo)
    BY <1>3, <1>9
  <2> QED
    BY <2>1
<1>11. Shown(vs[i], f[at[k]]) /\ Among(f[at[k]], f)
  BY <1>7, <1>9, <1>10 DEF Among
<1> QED
  BY <1>1, <1>11

\* u is w with its path longer by P at the front.
Rises(w, u, P) ==
  /\ u.id = w.id /\ u.field = P \o w.field /\ u.rule = w.rule
  /\ u.forKey = w.forKey /\ u.ruleValue = w.ruleValue

\* A failing check of a message is one under an element.
LEMMA AmongUnder ==
  ASSUME NEW x, NEW cs, NEW O, AreChecks(cs, O), NEW w, Among(w, Fails(cs))
  PROVE  \E u : Among(u, Fails(Under(x, cs))) /\ Rises(w, u, <<x>>)
<1>1. PICK ds : ds = Under(x, cs)
  OBVIOUS
<1>2. RelocatedAll(cs, ds, <<x>>, <<>>, FALSE)
  BY <1>1, UnderIs
<1>3. Sequence(cs) /\ \A i \in 1..Len(cs) : Sequence(cs[i].rule)
  BY DEF AreChecks, CheckRecord
<1>4. SameOutcomes(cs, ds) /\ SameOutcomes(cs, cs)
  BY <1>2, <1>3 DEF RelocatedAll, Relocated, SameOutcomes
<1>5. PICK k \in Nat : \E to \in [1..k -> 1..Len(cs)] :
        \A es : SameOutcomes(cs, es) => Fails(es) = Chosen(es, to, k)
  BY <1>3, FailsAt
<1>6. PICK to \in [1..k -> 1..Len(cs)] :
        \A es : SameOutcomes(cs, es) => Fails(es) = Chosen(es, to, k)
  BY <1>5
<1>7. PICK f : f = Fails(cs)
  OBVIOUS
<1>8. PICK g : g = Fails(ds)
  OBVIOUS
<1>9. f = [i \in 1..k |-> AsViolation(cs[to[i]])] /\ g = [i \in 1..k |-> AsViolation(ds[to[i]])]
  BY <1>4, <1>6, <1>7, <1>8 DEF Chosen
<1>10. Len(f) = k /\ Len(g) = k
  BY <1>9
<1>11. PICK j \in 1..k : f[j] = w
  BY <1>7, <1>10 DEF Among
<1>12. PICK i \in 1..Len(cs) : i = to[j]
  BY <1>6
<1>13. PICK c, d : c = cs[i] /\ d = ds[i]
  OBVIOUS
<1>14. w = AsViolation(c) /\ g[j] = AsViolation(d)
  BY <1>9, <1>11, <1>12, <1>13
<1>15. /\ d.id = c.id /\ d.ruleValue = c.ruleValue /\ d.forKey = c.forKey
       /\ d.field = <<x>> \o c.field /\ d.rule = c.rule
  <2>1. Relocated(c, d, <<x>>, <<>>, FALSE)
    BY <1>2, <1>13 DEF RelocatedAll
  <2>2. d.rule = <<>> \o c.rule /\ d.forKey = Keyed(FALSE, c.forKey)
    BY <2>1 DEF Relocated
  <2>3. Sequence(c.rule)
    BY <1>3, <1>13
  <2>4. d.rule = c.rule
    BY <2>2, <2>3, JoinedEmpty
  <2> QED
    BY <2>1, <2>2, <2>4 DEF Relocated, Keyed
<1>16. Rises(w, g[j], <<x>>)
  BY <1>14, <1>15 DEF Rises, AsViolation
<1>17. Among(g[j], g)
  BY <1>10 DEF Among
<1> QED
  BY <1>1, <1>8, <1>16, <1>17

\* And so one of the message that the element is in.
LEMMA OneUp ==
  ASSUME NEW height, ShownTrees(height), NEW fr \in Frame(Messages), NEW m, Calls(fr, m), NEW x,
         x = ItemElement(fr.message.fields[fr.field].name,
                         fr.message.fields[fr.field].elems[fr.elem].at),
         NEW w, Among(w, Fails(Checks[m]))
  PROVE  \E u : Among(u, Fails(Checks[fr.message])) /\ Rises(w, u, <<x>>)
<1>1. PICK gr \in Frame(Messages) : Counts(fr, gr, fr.rule, fr.field, fr.elem + 1)
  BY FrameAt
<1>2. /\ IsJoined(DidBy(gr), DidBy(fr), Under(x, Checks[m])) /\ m \in Messages
      /\ Sequence(DidBy(fr)) /\ Starts(DidBy(gr), Checks[fr.message])
  BY <1>1, NextElem
<1>3. PICK cs : cs = Checks[m]
  OBVIOUS
<1>4. PICK ds : ds = Under(x, cs)
  OBVIOUS
<1>5. PICK a, c, all : a = DidBy(fr) /\ c = DidBy(gr) /\ all = Checks[fr.message]
  OBVIOUS
<1>6. PICK O : O = MessageOutcomes
  OBVIOUS
<1>7. AreChecks(cs, O)
  BY <1>2, <1>3, <1>6, ChecksAre
<1>8. AreChecks(ds, O)
  BY <1>4, <1>7, UnderIs
<1>9. PICK u : Among(u, Fails(ds)) /\ Rises(w, u, <<x>>)
  BY <1>3, <1>4, <1>7, AmongUnder
<1>10. Sequence(a) /\ Sequence(ds) /\ IsJoined(c, a, ds) /\ Starts(c, all)
  BY <1>2, <1>3, <1>4, <1>5, <1>8 DEF AreChecks
<1>11. Among(u, Fails(c))
  BY <1>9, <1>10, AmongFails
<1>12. PICK rest : Sequence(rest) /\ IsJoined(all, c, rest)
  BY <1>10 DEF Starts
<1>13. Sequence(c)
  BY <1>10 DEF Starts
<1>14. Among(u, Fails(all))
  BY <1>11, <1>12, <1>13, AmongFails
<1> QED
  BY <1>5, <1>9, <1>14

\* The path from the root to the message of the k-th activation.
PathTo(k) == [j \in 1..(k - 1) |-> FrameElement(j + 1)]

\* It is longer by one element for the next.
LEMMA PathToNext ==
  ASSUME NEW k \in Nat \ {0}
  PROVE  /\ Sequence(PathTo(k)) /\ Len(PathTo(k)) = k - 1
         /\ PathTo(k + 1) = PathTo(k) \o <<FrameElement(k + 1)>>
<1>1. PICK n \in Nat : n = k - 1
  OBVIOUS
<1>0. PICK one \in Nat : one = 1
  OBVIOUS
<1>2. PICK a : a = PathTo(k)
  OBVIOUS
<1>3. PICK b : b = PathTo(k + 1)
  OBVIOUS
<1>4. PICK x : x = FrameElement(k + 1)
  OBVIOUS
<1>5. PICK y : y = <<x>>
  OBVIOUS
<1>6. a = [j \in 1..n |-> FrameElement(j + 1)]
  BY <1>1, <1>2 DEF PathTo
<1>7. b = [j \in 1..k |-> FrameElement(j + 1)]
  <2>1. k + 1 - 1 = k
    OBVIOUS
  <2> QED
    BY <1>3, <2>1 DEF PathTo
<1>8. Sequence(a) /\ Len(a) = n
  <2>1. a = [j \in 1..n |-> a[j]]
    BY <1>6
  <2>2. a \in [1..n -> {a[j] : j \in 1..n}]
    BY <2>1
  <2> QED
    BY <2>2, SequenceIs
<1>9. Sequence(b) /\ Len(b) = k
  <2>1. b = [j \in 1..k |-> b[j]]
    BY <1>7
  <2>2. b \in [1..k -> {b[j] : j \in 1..k}]
    BY <2>1
  <2> QED
    BY <2>2, SequenceIs
<1>10. PICK c : c = a \o y
  OBVIOUS
<1>11. Sequence(y) /\ Len(y) = 1 /\ y[1] = x
  BY <1>5, OneSequence
<1>12. /\ Sequence(c) /\ Len(c) = n + 1
       /\ \A i \in 1..n : c[i] = a[i]
       /\ \A i \in 1..1 : c[n + i] = y[i]
  <2>1. IsJoined(c, a, y)
    BY <1>10 DEF IsJoined
  <2>3. Sequence(a)
    BY <1>8
  <2>4. Sequence(y)
    BY <1>11
  <2>5. Len(a) = n /\ Len(y) = one
    BY <1>0, <1>8, <1>11
  <2>2. /\ Sequence(c) /\ Len(c) = n + one
        /\ \A i \in 1..n : c[i] = a[i]
        /\ \A i \in 1..one : c[n + i] = y[i]
    BY <2>1, <2>3, <2>4, <2>5, JoinedParts
  <2> QED
    BY <1>0, <2>2
<1>13. Len(c) = k
  BY <1>1, <1>12
<1>14. ASSUME NEW j \in 1..k PROVE c[j] = b[j]
  <2>1. CASE j \in 1..n
    BY <1>6, <1>7, <1>12, <2>1
  <2>2. CASE j \notin 1..n
    <3>1. j = k /\ j = n + 1
      BY <1>1, <2>2
    <3>2. c[n + 1] = x
      BY <1>11, <1>12
    <3>3. b[k] = x
      BY <1>4, <1>7
    <3> QED
      BY <3>1, <3>2, <3>3
  <2> QED
    BY <2>1, <2>2
<1>15. c = b
  BY <1>9, <1>12, <1>13, <1>14, SameSequence
<1> QED
  BY <1>1, <1>2, <1>3, <1>4, <1>5, <1>8, <1>10, <1>15

\* Rising twice.
LEMMA RisesTwice ==
  ASSUME NEW w, NEW u, NEW t, NEW P, NEW Q, Sequence(P), Sequence(Q), Sequence(w.field),
         Rises(w, u, Q), Rises(u, t, P)
  PROVE  Rises(w, t, P \o Q) /\ Sequence(u.field)
<1>1. PICK f : f = w.field
  OBVIOUS
<1>2. (P \o Q) \o f = P \o (Q \o f)
  <2>1. Sequence(f)
    BY <1>1
  <2> QED
    BY <2>1, JoinedTwice
<1>3. u.field = Q \o f /\ t.field = P \o u.field
  BY <1>1 DEF Rises
<1>4. Sequence(Q \o f)
  BY <1>1, Joined
<1> QED
  BY <1>1, <1>2, <1>3, <1>4 DEF Rises

\* A failing check of the message of an activation is one of the root, further down.
LEMMA Up ==
  ASSUME NEW height, ShownTrees(height), Stack(frames), Callers(frames, violations)
  PROVE  \A k \in 1..Len(frames) : \A w :
           Sequence(w.field) /\ Among(w, Fails(Checks[frames[k].message])) =>
             \E u : Among(u, Fails(Checks[frames[1].message])) /\ Rises(w, u, PathTo(k))
<1> DEFINE P(k) == \A w :
             Sequence(w.field) /\ Among(w, Fails(Checks[frames[k].message])) =>
               \E u : Among(u, Fails(Checks[frames[1].message])) /\ Rises(w, u, PathTo(k))
           T == {n \in Nat : n + 1 \in 1..Len(frames) => P(n + 1)}
<1>0. PICK N \in Nat \ {0} : N = Len(frames)
  BY StackIs
<1>1. 0 \in T
  <2>1. ASSUME NEW w, Sequence(w.field), Among(w, Fails(Checks[frames[1].message]))
        PROVE  \E u : Among(u, Fails(Checks[frames[1].message])) /\ Rises(w, u, PathTo(1))
    <3>1. PICK e : e = PathTo(1)
      OBVIOUS
    <3>2. Sequence(e) /\ Len(e) = 0
      <4>1. 1 \in Nat \ {0} /\ 1 - 1 = 0
        OBVIOUS
      <4> QED
        BY <3>1, <4>1, PathToNext
    <3>3. e = <<>>
      BY <3>2, EmptyIf
    <3>4. PICK f : f = w.field
      OBVIOUS
    <3>5. e \o f = f
      BY <2>1, <3>3, <3>4, JoinedEmpty
    <3>6. Rises(w, w, e)
      BY <3>4, <3>5 DEF Rises
    <3> QED
      BY <2>1, <3>1, <3>6
  <2>2. P(1)
    BY <2>1
  <2> QED
    BY <2>2
<1>2. ASSUME NEW n \in Nat, n \in T PROVE n + 1 \in T
  <2>1. PICK k \in Nat \ {0} : k = n + 1
    OBVIOUS
  <2> SUFFICES ASSUME k + 1 \in 1..N PROVE P(k + 1)
    BY <1>0, <2>1
  <2>2. k \in 1..N /\ P(k)
    <3>1. n + 1 \in 1..N
      BY <1>0, <2>1
    <3> QED
      BY <1>0, <1>2, <2>1, <3>1
  <2>3. PICK m : m = frames[k + 1].message
    OBVIOUS
  <2>4. PICK fr : fr = frames[k]
    OBVIOUS
  <2>5. PICK x : x = FrameElement(k + 1)
    OBVIOUS
  <2>6. Calls(fr, m) /\ fr \in Frame(Messages)
    <3>1. Calls(frames[k], frames[k + 1].message)
      BY <1>0, <2>2 DEF Callers
    <3>2. frames[k] \in Frame(Messages)
      BY <1>0, <2>2, StackIs
    <3> QED
      BY <2>3, <2>4, <3>1, <3>2
  <2>7. x = ItemElement(fr.message.fields[fr.field].name,
                        fr.message.fields[fr.field].elems[fr.elem].at)
    <3>1. PICK j : j = k + 1
      OBVIOUS
    <3>2. j - 1 = k
      BY <3>1
    <3>3. frames[j - 1] = fr
      BY <2>4, <3>2
    <3>4. x = FrameElement(j)
      BY <2>5, <3>1
    <3> QED
      BY <3>3, <3>4 DEF FrameElement
  <2>8. PICK Q, R, y : Q = PathTo(k) /\ R = PathTo(k + 1) /\ y = <<x>>
    OBVIOUS
  <2>9. Sequence(Q) /\ R = Q \o y
    BY <2>5, <2>8, PathToNext
  <2>10. Sequence(y)
    BY <2>8, OneSequence
  <2>11. ASSUME NEW w, Sequence(w.field), Among(w, Fails(Checks[m]))
         PROVE  \E u : Among(u, Fails(Checks[frames[1].message])) /\ Rises(w, u, R)
    <3>1. PICK t : Among(t, Fails(Checks[fr.message])) /\ Rises(w, t, y)
      BY <2>6, <2>7, <2>8, <2>11, OneUp
    <3>2. Sequence(t.field)
      <4>1. PICK f : f = w.field
        OBVIOUS
      <4>2. Sequence(y \o f)
        BY <2>10, <2>11, <4>1, Joined
      <4> QED
        BY <3>1, <4>1, <4>2 DEF Rises
    <3>3. PICK u : Among(u, Fails(Checks[frames[1].message])) /\ Rises(t, u, Q)
      BY <2>2, <2>4, <2>8, <3>1, <3>2
    <3>4. Rises(w, u, Q \o y)
      BY <2>9, <2>10, <2>11, <3>1, <3>3, RisesTwice
    <3> QED
      BY <2>9, <3>3, <3>4
  <2> QED
    BY <2>3, <2>8, <2>11
<1> HIDE DEF T
<1>3. Nat \subseteq T
  BY <1>1, <1>2, Induction
<1> USE DEF T
<1> HIDE DEF P
<1>4. ASSUME NEW k \in 1..Len(frames) PROVE P(k)
  <2>1. PICK n \in Nat : k = n + 1
    <3>1. k - 1 \in Nat /\ k = (k - 1) + 1
      BY <1>0
    <3> QED
      BY <3>1
  <2>2. n \in T
    BY <1>3
  <2> QED
    BY <2>1, <2>2
<1> QED
  BY <1>4 DEF P

\* i is after the place of the k-th activation and not after that of the next.
Between(stack, n, k, i) ==
  /\ k \in 1..Len(stack) /\ stack[k].pos < i
  /\ k = Len(stack) => i <= n
  /\ k # Len(stack) => i <= stack[k + 1].pos

\* Every violation is found by one activation or below it.
LEMMA FoundBetween ==
  ASSUME NEW stack, NEW vs, Stack(stack), Callers(stack, vs), stack[1].pos = 0, NEW n \in Nat, NEW i \in 1..n
  PROVE  \E k : /\ Between(stack, n, k, i)
                /\ \A j \in 1..Len(stack) : stack[j].pos < i <=> j <= k
<1>1. PICK N \in Nat \ {0} : N = Len(stack)
  BY StackIs
<1>2. \A j \in 1..N : stack[j].pos \in Nat
  BY <1>1, StackIs
<1>3. PICK T : T = {j \in Nat : j = N + 1 \/ (j \in 1..N /\ i <= stack[j].pos)}
  OBVIOUS
<1>4. T \in SUBSET Nat /\ N + 1 \in T
  BY <1>3
<1>5. PICK l \in T : \A j \in T : l <= j
  BY <1>4, LeastElement
<1>6. l \in Nat /\ l <= N + 1 /\ (l = N + 1 \/ (l \in 1..N /\ i <= stack[l].pos))
  BY <1>3, <1>4, <1>5
<1>7. 1 \notin T
  BY <1>1, <1>3
<1>8. l \in 2..(N + 1)
  BY <1>1, <1>5, <1>6, <1>7
<1>9. PICK k \in 1..N : l = k + 1
  <2>1. l - 1 \in 1..N /\ l = (l - 1) + 1
    BY <1>8
  <2> QED
    BY <2>1
<1>10. ASSUME NEW j \in 1..N, j <= k PROVE stack[j].pos < i
  <2>1. j \notin T
    BY <1>5, <1>9, <1>10
  <2> QED
    BY <1>2, <1>3, <2>1
<1>11. ASSUME NEW j \in 1..N, ~(j <= k) PROVE ~(stack[j].pos < i)
  <2>1. l <= j /\ l \in 1..N
    BY <1>8, <1>9, <1>11
  <2>2. stack[l].pos <= stack[j].pos
    BY <1>1, <2>1 DEF Callers
  <2>3. i <= stack[l].pos
    BY <1>6, <2>1
  <2> QED
    BY <1>2, <2>1, <2>2, <2>3
<1>12. Between(stack, n, k, i)
  <2>1. k # N => i <= stack[k + 1].pos
    BY <1>6, <1>9
  <2> QED
    BY <1>1, <1>9, <1>10, <2>1 DEF Between
<1> QED
  BY <1>1, <1>10, <1>11, <1>12

\* The elements to be added to it are those on the path to that activation's message.
LEMMA PendingIs ==
  ASSUME NEW k \in 1..Len(frames), Len(frames) \in Nat, NEW i,
         \A j \in 1..Len(frames) : frames[j].pos < i <=> j <= k
  PROVE  Pending(i) = PathTo(k)
<1>1. PICK S : S = {j \in 2..Len(frames) : frames[j].pos < i}
  OBVIOUS
<1>2. S = 2..k
  <2>1. \A j : j \in S <=> j \in 2..k
    BY <1>1
  <2> QED
    BY <2>1
<1>3. Cardinality(2..k) = k - 1
  <2>1. PICK two \in Int : two = 2
    OBVIOUS
  <2>2. PICK m \in Int : m = k
    OBVIOUS
  <2>3. Cardinality(two..m) = IF two > m THEN 0 ELSE m - two + 1
    BY FS_Interval
  <2> QED
    BY <2>1, <2>2, <2>3
<1> QED
  BY <1>1, <1>2, <1>3 DEF Pending, PathTo

\* Where an activation is going, the checks it has made are the first of its message.
LEMMA GoingStarts ==
  ASSUME NEW height, ShownTrees(height), NEW fr \in Frame(Messages), NEW p, Going(p), At(fr, p),
         fr.rule \in 1..(Len(fr.message.rules) + 1), fr.field \in 1..(Len(fr.message.fields) + 1)
  PROVE  Starts(DidBy(fr), Checks[fr.message])
<1>1. PICK m \in Messages : m = fr.message
  BY DEF Frame
<1>2. PICK r : r = fr.rule - 1
  OBVIOUS
<1>3. PICK f : f = fr.field - 1
  OBVIOUS
<1>4. PICK e : e = fr.elem - 1
  OBVIOUS
<1>5. Reached(m, r, f, e)
  BY <1>1, <1>2, <1>3, <1>4, AtReached
<1>6. DidBy(fr) = Did(m, r, f, e)
  BY <1>1, <1>2, <1>3, <1>4 DEF DidBy
<1>7. CASE p = "enter"
  <2>1. r = 0 /\ f = 0 /\ e = 0
    BY <1>2, <1>3, <1>4, <1>7 DEF At
  <2>2. DidBy(fr) = <<>>
    BY <1>6, <2>1, DidNothing
  <2>3. PICK cs : cs = Checks[m]
    OBVIOUS
  <2>4. Sequence(cs)
    BY <2>3, ChecksAre DEF AreChecks
  <2>5. <<>> \o cs = cs
    BY <2>4, JoinedEmpty
  <2>6. PICK none : none = <<>>
    OBVIOUS
  <2>7. Sequence(none) /\ IsJoined(cs, none, cs)
    BY <2>5, <2>6 DEF IsJoined, Sequence
  <2>8. Starts(none, cs)
    BY <2>4, <2>7 DEF Starts
  <2> QED
    BY <1>1, <2>2, <2>3, <2>6, <2>8
<1>8. CASE p = "rules"
  <2>1. f = 0 /\ e = 0 /\ m.load = Ok /\ r \in 0..Len(m.rules)
    BY <1>1, <1>3, <1>4, <1>5, <1>8 DEF At, Reached
  <2>2. Starts(Did(m, r, 0, 0), Checks[m])
    BY <2>1, RulesStart
  <2> QED
    BY <1>1, <1>6, <2>1, <2>2
<1>9. CASE p = "fields"
  <2>1. Len(m.rules) \in Nat
    BY MessageLens
  <2>2. m.load = Ok /\ r = Len(m.rules)
    BY <1>1, <1>2, <1>9, <2>1 DEF At
  <2>3. Starts(Did(m, r, f, e), Checks[m])
    BY <1>5, <2>2, FieldsStart
  <2> QED
    BY <1>1, <1>6, <2>3
<1> QED
  BY <1>7, <1>8, <1>9 DEF Going

\* What an activation has found is some of what its message gives.
LEMMA ExplainedPicks ==
  ASSUME NEW vs, NEW fr, NEW hi, NEW all, Starts(DidBy(fr), all), Explains(vs, fr, hi)
  PROVE  PicksIn(vs, fr.pos, hi, all)
<1>1. PICK a, lo : a = DidBy(fr) /\ lo = fr.pos
  OBVIOUS
<1>2. Sequence(a) /\ FindsIn(vs, lo, hi, a)
  BY <1>1 DEF Starts, Explains
<1>3. PicksIn(vs, lo, hi, a)
  BY <1>2, FindsInPicks
<1>4. PICK rest : Sequence(rest) /\ IsJoined(all, a, rest)
  BY <1>1 DEF Starts
<1>5. PicksIn(vs, lo, hi, all)
  BY <1>2, <1>3, <1>4, PicksInEnough
<1> QED
  BY <1>1, <1>5

\* So is what any activation on the stack has found, up to the place of the next.
LEMMA AnyPicks ==
  ASSUME NEW height, ShownTrees(height), WalkInv(Messages), WalkFinds, ~Done, status = Ok,
         NEW k \in 1..Len(frames), NEW hi,
         hi = IF k = Len(frames) THEN Len(violations) ELSE frames[k + 1].pos
  PROVE  PicksIn(violations, frames[k].pos, hi, Checks[frames[k].message])
<1>1. /\ Stack(frames) /\ Top \in Frame(Messages) /\ Top.message \in Messages
      /\ Top.rule \in 1..(Len(Top.message.rules) + 1)
      /\ Top.field \in 1..(Len(Top.message.fields) + 1)
      /\ Callers(frames, violations) /\ OnWay(failFast, violations, Top, pc, status)
      /\ pc = "return" => Returns(failFast, violations, Top, status)
  BY OnTheWalk
<1>2. PICK N \in Nat : N = Len(frames)
  BY <1>1, StackIs
<1>3. CASE k = N
  <2>1. frames[k] = Top /\ hi = Len(violations)
    BY <1>2, <1>3 DEF Top
  <2>2. CASE pc = "return"
    BY <1>1, <2>1, <2>2 DEF Returns
  <2>3. CASE pc # "return"
    <3>1. Going(pc)
      BY <2>3 DEF WalkInv, Done, Going
    <3>2. At(Top, pc) /\ Explains(violations, Top, Len(violations))
      BY <1>1, <3>1 DEF OnWay
    <3>3. Starts(DidBy(Top), Checks[Top.message])
      BY <1>1, <3>1, <3>2, GoingStarts
    <3> QED
      BY <2>1, <3>2, <3>3, ExplainedPicks
  <2> QED
    BY <2>2, <2>3
<1>4. CASE k # N
  <2>1. k \in 1..N /\ k + 1 \in 1..N
    BY <1>2, <1>4
  <2>2. PICK fr : fr = frames[k]
    OBVIOUS
  <2>3. PICK m : m = frames[k + 1].message
    OBVIOUS
  <2>4. Calls(fr, m) /\ Explains(violations, fr, hi)
    BY <1>1, <1>2, <1>4, <2>1, <2>2, <2>3 DEF Callers
  <2>5. fr \in Frame(Messages) /\ fr.message \in Messages
    BY <1>1, <1>2, <2>1, <2>2, StackIs DEF Frame
  <2>6. PICK r : r = fr.rule - 1
    OBVIOUS
  <2>7. PICK f : f = fr.field - 1
    OBVIOUS
  <2>8. PICK e : e = fr.elem - 1
    OBVIOUS
  <2>9. Reached(fr.message, r, f, e) /\ r = Len(fr.message.rules)
    BY <2>4, <2>5, <2>6, <2>7, <2>8, CallsReached
  <2>10. Starts(Did(fr.message, r, f, e), Checks[fr.message])
    BY <2>4, <2>5, <2>9, FieldsStart DEF Calls
  <2>11. Starts(DidBy(fr), Checks[fr.message])
    BY <2>6, <2>7, <2>8, <2>10 DEF DidBy
  <2> QED
    BY <2>2, <2>4, <2>11, ExplainedPicks
<1> QED
  BY <1>3, <1>4

\* A violation on its way with the elements still to come is what the reference reports.
LEMMA OnTheWayUp ==
  ASSUME NEW v, NEW w, NEW u, NEW P, Shown(v, w), Rises(w, u, P)
  PROVE  Proto([v EXCEPT !.field = P \o Reverse(@), !.rule = Reverse(@)]) = Proto(u)
<1>1. /\ IsViolation(v) /\ v.id = w.id /\ v.forKey = w.forKey /\ v.ruleValue = w.ruleValue
      /\ v.field = Reverse(w.field) /\ v.rule = Reverse(w.rule)
      /\ Sequence(w.field) /\ Sequence(w.rule)
  BY DEF Shown
<1>2. PICK f : f = w.field
  OBVIOUS
<1>3. PICK r : r = w.rule
  OBVIOUS
<1>4. Sequence(f) /\ Sequence(r) /\ v.field = Reverse(f) /\ v.rule = Reverse(r)
  BY <1>1, <1>2, <1>3
<1>5. Reverse(Reverse(f)) = f
  BY <1>4, ReverseTwice
<1>6. Reverse(Reverse(r)) = r
  BY <1>4, ReverseTwice
<1>7. v = [id |-> v.id, field |-> v.field, rule |-> v.rule, forKey |-> v.forKey,
           fieldValue |-> v.fieldValue, ruleValue |-> v.ruleValue]
  BY <1>1 DEF IsViolation
<1>8. PICK g : g = P \o f
  OBVIOUS
<1>9. PICK d : d = [id |-> v.id, field |-> g, rule |-> v.rule, forKey |-> v.forKey,
                    fieldValue |-> v.fieldValue, ruleValue |-> v.ruleValue]
  OBVIOUS
<1>10. PICK t : t = [id |-> v.id, field |-> g, rule |-> r, forKey |-> v.forKey,
                     fieldValue |-> v.fieldValue, ruleValue |-> v.ruleValue]
  OBVIOUS
<1>11. P \o Reverse(v.field) = g
  BY <1>4, <1>5, <1>8
<1>12. d = [v EXCEPT !.field = g]
  BY <1>7, <1>9
<1>13. t = [d EXCEPT !.rule = r]
  BY <1>9, <1>10
<1>14. [v EXCEPT !.field = P \o Reverse(@), !.rule = Reverse(@)] = t
  <2>1. [v EXCEPT !.field = P \o Reverse(@), !.rule = Reverse(@)]
          = [[v EXCEPT !.field = P \o Reverse(v.field)] EXCEPT !.rule = Reverse(v.rule)]
    BY <1>7
  <2> QED
    BY <1>4, <1>6, <1>11, <1>12, <1>13, <2>1
<1>15. t.id = u.id /\ t.field = u.field /\ t.rule = u.rule /\ t.forKey = u.forKey /\ t.ruleValue = u.ruleValue
  BY <1>1, <1>2, <1>3, <1>8, <1>10 DEF Rises
<1> QED
  BY <1>14, <1>15 DEF Proto

\* One among the failing checks is one of those reported.
LEMMA ReportedAmong ==
  ASSUME NEW f, NEW u, Sequence(f), Among(u, f)
  PROVE  Proto(u) \in ToSet(Protos(f))
<1>1. PICK n \in Nat : n = Len(f)
  BY SequenceLen
<1>2. PICK j \in 1..n : f[j] = u
  BY <1>1 DEF Among
<1>3. PICK g : g = Protos(f)
  OBVIOUS
<1>4. g = [i \in 1..n |-> Proto(f[i])]
  BY <1>1, <1>3 DEF Protos
<1>5. DOMAIN g = 1..n /\ g[j] = Proto(u)
  BY <1>2, <1>4
<1> QED
  BY <1>3, <1>5 DEF ToSet

\* What the invariants say of the paths of a walk that is not over.
LEMMA PathsRise ==
  ASSUME NEW height, ShownTrees(height), ReportInv
  PROVE  PathsOnTheWayUp
<1> SUFFICES ASSUME ~Done, status = Ok
             PROVE  \E all \in {ToSet(Protos(Failing(root)))} : \A i \in 1..Len(violations) :
                      Proto([violations[i] EXCEPT !.field = Pending(i) \o Reverse(@),
                                                  !.rule = Reverse(@)]) \in all
  BY DEF PathsOnTheWayUp
<1>1. WalkInv(Messages) /\ WalkFinds
  BY DEF ReportInv
<1>2. /\ Stack(frames) /\ Sequence(violations) /\ Callers(frames, violations)
      /\ RootFrame(frames, root) /\ Top.pos \in 0..Len(violations)
  BY <1>1, OnTheWalk
<1>3. PICK N \in Nat \ {0} : N = Len(frames)
  BY <1>2, StackIs
<1>4. PICK n \in Nat : n = Len(violations)
  BY <1>2, SequenceLen
<1>5. \A k \in 1..N : frames[k].pos \in Nat /\ frames[k].pos <= n
  <2>1. \A k \in 1..N : frames[k].pos \in Nat
    BY <1>2, <1>3, StackIs
  <2>2. \A k \in 1..N : frames[k].pos <= n
    BY <1>1, <1>3, <1>4 DEF WalkInv, Placed
  <2> QED
    BY <2>1, <2>2
<1>6. ASSUME NEW i \in 1..n
      PROVE  Proto([violations[i] EXCEPT !.field = Pending(i) \o Reverse(@), !.rule = Reverse(@)])
               \in ToSet(Protos(Failing(root)))
  <2>1. PICK k : /\ Between(frames, n, k, i)
                 /\ \A j \in 1..Len(frames) : frames[j].pos < i <=> j <= k
    BY <1>2, FoundBetween DEF RootFrame
  <2>2. k \in 1..N /\ k \in 1..Len(frames) /\ Len(frames) \in Nat
    BY <1>3, <2>1 DEF Between
  <2>3. PICK lo \in Nat : lo = frames[k].pos
    BY <1>5, <2>2
  <2>4. PICK hi \in Nat : hi = IF k = Len(frames) THEN Len(violations) ELSE frames[k + 1].pos
    <3>1. k # N => k + 1 \in 1..N
      BY <2>2
    <3> QED
      BY <1>3, <1>4, <1>5, <3>1
  <2>5. hi \in 0..Len(violations) /\ lo <= hi /\ i \in (lo + 1)..hi
    <3>1. hi <= n
      <4>1. k # N => k + 1 \in 1..N
        BY <2>2
      <4> QED
        BY <1>3, <1>4, <1>5, <2>4, <4>1
    <3>2. lo < i /\ i <= hi
      BY <1>3, <1>4, <2>1, <2>3, <2>4 DEF Between
    <3> QED
      BY <1>4, <3>1, <3>2
  <2>6. PICK cs : cs = Checks[frames[k].message]
    OBVIOUS
  <2>7. PicksIn(violations, lo, hi, cs)
    BY <1>1, <2>2, <2>3, <2>4, <2>6, AnyPicks
  <2>8. PICK w : Among(w, Fails(cs)) /\ Shown(violations[i], w)
    BY <1>2, <2>5, <2>7, PickedAmong
  <2>9. Sequence(w.field)
    BY <2>8 DEF Shown
  <2>10. PICK u : Among(u, Fails(Checks[frames[1].message])) /\ Rises(w, u, PathTo(k))
    BY <1>2, <2>2, <2>6, <2>8, <2>9, Up
  <2>11. Pending(i) = PathTo(k)
    BY <2>1, <2>2, PendingIs
  <2>12. PICK v, P : v = violations[i] /\ P = PathTo(k)
    OBVIOUS
  <2>18. Shown(v, w) /\ Rises(w, u, P)
    BY <2>8, <2>10, <2>12
  <2>13. Proto([v EXCEPT !.field = P \o Reverse(@), !.rule = Reverse(@)]) = Proto(u)
    BY <2>18, OnTheWayUp
  <2>14. PICK f : f = Fails(Checks[root])
    OBVIOUS
  <2>15. Sequence(f)
    <3>1. PICK all : all = Checks[root]
      OBVIOUS
    <3>2. root \in Messages
      <4>1. 1 \in 1..Len(frames) /\ frames[1] \in Frame(Messages)
        BY <1>2, <1>3, StackIs
      <4> QED
        BY <1>2, <4>1 DEF RootFrame, Frame
    <3>3. Sequence(all)
      BY <3>1, <3>2, ChecksAre DEF AreChecks
    <3> QED
      BY <2>14, <3>1, <3>3, FailsSequence
  <2>16. Among(u, f)
    BY <1>2, <2>10, <2>14 DEF RootFrame
  <2>17. Proto(u) \in ToSet(Protos(f))
    BY <2>15, <2>16, ReportedAmong
  <2> QED
    BY <2>11, <2>12, <2>13, <2>14, <2>17 DEF Failing
<1> QED
  BY <1>4, <1>6

\* At every moment of a walk the elements still to be added to a violation's path are
\* those of the activations between the root and the one that found it.
THEOREM PathsOnTheWayUpCorrect ==
  ASSUME NEW height, ShownTrees(height)
  PROVE  Spec => []PathsOnTheWayUp
<1>1. ReportInv => PathsOnTheWayUp
  BY PathsRise
<1> QED
  BY <1>1, ReportInvariant, PTL

-------------------------------------------------------------------------------
(* The runner.                                                             *)

\* The messages of the cases that are run are among those that may be validated, and
\* no case has the name that stands for none.
RunnableRequests ==
  \A q \in Requests :
    /\ NoCase \notin DOMAIN q
    /\ \A name \in DOMAIN q : CanRun(q[name]) => q[name].message \in Messages

\* The walk under way is that of the case being run, without failFast, and is over
\* when no case is.
RunsCase ==
  /\ running = NoCase => pc = "done"
  /\ running # NoCase => /\ running \in DOMAIN request
                         /\ CanRun(request[running])
                         /\ root = request[running].message
                         /\ ~failFast
                         /\ ReportInv

RunnerInv == request \in Requests /\ RunsCase /\ AnswersDeserved

\* A walk that begins later than in the first state begins the same way.
LEMMA ReportStartsAgain ==
  ASSUME NEW height, ShownTrees(height)
  PROVE  Init' => ReportInv'
<1>1. Init => ReportInv
  BY ReportStarts
<1> QED
  BY <1>1, PTL

\* Violations are empty if what they show is.
LEMMA EmptyAlike ==
  ASSUME NEW vs, NEW ws, Sequence(vs), Sequence(ws), Protos(vs) = Protos(ws)
  PROVE  vs = <<>> <=> ws = <<>>
<1>1. DOMAIN Protos(vs) = 1..Len(vs) /\ DOMAIN Protos(ws) = 1..Len(ws)
  BY DEF Protos
<1>2. Len(vs) \in Nat /\ Len(ws) \in Nat
  BY SequenceLen
<1>3. 1..Len(vs) = 1..Len(ws)
  BY <1>1
<1>4. Len(vs) = Len(ws)
  BY <1>2, <1>3
<1>5. vs = <<>> <=> Len(vs) = 0
  BY DEF Sequence
<1>6. ws = <<>> <=> Len(ws) = 0
  BY DEF Sequence
<1> QED
  BY <1>4, <1>5, <1>6

\* The outcome of a walk that is over is the one its message deserves.
LEMMA ClassifiedRight ==
  ASSUME NEW height, ShownTrees(height), ReportInv, Done, ~failFast,
         NEW case, CanRun(case), root = case.message, root \in Messages
  PROVE  Classify = Deserved(case)
<1>1. ReportsExactly /\ NoSpuriousErrors /\ ErrorsReported
  BY ReportedIs
<1>2. PICK error : error = FirstError(Checks[root])
  OBVIOUS
<1>3. PICK all : all = Failing(root)
  OBVIOUS
<1>4. status = error
  <2>1. CASE status = Ok
    BY <1>1, <1>2, <2>1 DEF ErrorsReported
  <2>2. CASE status # Ok
    BY <1>1, <1>2, <2>2 DEF NoSpuriousErrors
  <2> QED
    BY <2>1, <2>2
<1>5. status = Ok => Protos(violations) = Protos(all)
  BY <1>1, <1>3 DEF ReportsExactly
<1>6. status = Ok => (violations = <<>> <=> all = <<>>)
  <2>1. Sequence(violations)
    BY DEF ReportInv, WalkInv
  <2>2. Sequence(all)
    <3>1. Sequence(Checks[root])
      BY ChecksAre DEF AreChecks
    <3> QED
      BY <1>3, <3>1, FailsSequence DEF Failing
  <2> QED
    BY <1>5, <2>1, <2>2, EmptyAlike
<1>7. Deserved(case) =
        IF error # Ok
          THEN TestResult(IF error = Invalid THEN "runtime_error"
                          ELSE IF error = "FailedPrecondition" THEN "compilation_error"
                          ELSE "unexpected_error")
        ELSE IF all = <<>> THEN TestResult("success")
        ELSE [kind |-> "validation_error", violations |-> Protos(all)]
  BY <1>2, <1>3 DEF Deserved
<1>8. CASE error # Ok
  <2>1. CASE error = Invalid
    BY <1>4, <1>7, <1>8, <2>1 DEF Classify, Invalid, Ok
  <2>2. CASE error = "FailedPrecondition"
    BY <1>4, <1>7, <1>8, <2>2 DEF Classify, Invalid, Ok
  <2>3. CASE error \notin {Invalid, "FailedPrecondition"}
    BY <1>4, <1>7, <1>8, <2>3 DEF Classify
  <2> QED
    BY <2>1, <2>2, <2>3
<1>9. CASE error = Ok
  <2>1. status # Invalid /\ status # "FailedPrecondition"
    BY <1>4, <1>9 DEF Ok, Invalid
  <2>2. CASE all = <<>>
    BY <1>4, <1>6, <1>7, <1>9, <2>1, <2>2 DEF Classify
  <2>3. CASE all # <<>>
    BY <1>4, <1>5, <1>6, <1>7, <1>9, <2>1, <2>3 DEF Classify
  <2> QED
    BY <2>2, <2>3
<1> QED
  BY <1>8, <1>9

\* A new answer that is the right one leaves all answers right.
LEMMA AnswerRight ==
  ASSUME NEW name, NEW result, Answer(name, result), AnswersDeserved, request' = request,
         result = Deserved(request[name])
  PROVE  AnswersDeserved'
<1>1. results' = [n \in DOMAIN results \cup {name} |-> IF n = name THEN result ELSE results[n]]
  BY DEF Answer
<1>2. \A n \in DOMAIN results : results[n] = Deserved(request[n])
  BY DEF AnswersDeserved
<1>3. \A n \in DOMAIN results' : results'[n] = Deserved(request[n])
  BY <1>1, <1>2
<1> QED
  BY <1>3 DEF AnswersDeserved

\* At the start no case has been answered.
LEMMA RunnerStarts ==
  ASSUME RunnerInit
  PROVE  RunnerInv
  BY DEF RunnerInit, RunnerInv, RunsCase, AnswersDeserved

\* Each step of the runner keeps its invariant.
LEMMA RunnerSteps ==
  ASSUME NEW height, ShownTrees(height), RunnableRequests, RunnerInv, [RunnerNext]_runnerVars
  PROVE  RunnerInv'
<1>1. request \in Requests /\ RunsCase /\ AnswersDeserved
  BY DEF RunnerInv
<1>2. /\ NoCase \notin DOMAIN request
      /\ \A name \in DOMAIN request : CanRun(request[name]) => request[name].message \in Messages
  BY <1>1 DEF RunnableRequests
<1>3. ASSUME NEW name \in DOMAIN request, Refuse(name) PROVE RunnerInv'
  <2>1. NextCase(name) /\ ~CanRun(request[name]) /\ UNCHANGED <<request, running, vars>>
        /\ Answer(name, TestResult("unexpected_error"))
    BY <1>3 DEF Refuse
  <2>2. TestResult("unexpected_error") = Deserved(request[name])
    BY <2>1 DEF Deserved
  <2>3. AnswersDeserved'
    BY <1>1, <2>1, <2>2, AnswerRight
  <2>4. RunsCase'
    BY <1>1, <2>1 DEF RunsCase, NextCase, vars
  <2> QED
    BY <1>1, <2>1, <2>3, <2>4 DEF RunnerInv
<1>4. ASSUME NEW name \in DOMAIN request, RunTestCase(name) PROVE RunnerInv'
  <2>1. /\ CanRun(request[name]) /\ running' = name
        /\ root' = request[name].message /\ failFast' = FALSE /\ violations' = <<>>
        /\ frames' = <<Activation(request[name].message, 0)>>
        /\ pc' = "enter" /\ status' = Ok
        /\ request' = request /\ results' = results
    BY <1>4 DEF RunTestCase
  <2>2. Init'
    BY <1>2, <2>1 DEF Init
  <2>3. ReportInv'
    BY <2>2, ReportStartsAgain
  <2>4. RunsCase'
    BY <1>2, <2>1, <2>3 DEF RunsCase
  <2>5. AnswersDeserved'
    BY <1>1, <2>1 DEF AnswersDeserved
  <2> QED
    BY <1>1, <2>1, <2>4, <2>5 DEF RunnerInv
<1>5. CASE Validating
  <2>1. Next /\ request' = request /\ results' = results /\ running' = running
    BY <1>5 DEF Validating
  <2>2. ~Done
    BY <2>1 DEF Next, Done, EnterMessage, RunRule, RulesDone, NextField, Descend, FieldsDone,
                Resume, Finish
  <2>3. running # NoCase /\ ReportInv
    BY <1>1, <2>2 DEF RunsCase, Done
  <2>4. ReportInv'
    BY <2>1, <2>3, ReportSteps
  <2>5. root' = root /\ failFast' = failFast
    BY <2>1 DEF Next, EnterMessage, RunRule, RulesDone, NextField, Descend, FieldsDone,
                Resume, Finish
  <2>6. RunsCase'
    BY <1>1, <2>1, <2>3, <2>4, <2>5 DEF RunsCase
  <2>7. AnswersDeserved'
    BY <1>1, <2>1 DEF AnswersDeserved
  <2> QED
    BY <1>1, <2>1, <2>6, <2>7 DEF RunnerInv
<1>6. CASE TestCaseDone
  <2>1. /\ running # NoCase /\ pc = "done" /\ Answer(running, Classify) /\ running' = NoCase
        /\ UNCHANGED <<request, vars>>
    BY <1>6 DEF TestCaseDone
  <2>2. /\ running \in DOMAIN request /\ CanRun(request[running])
        /\ root = request[running].message /\ ~failFast /\ ReportInv
    BY <1>1, <2>1 DEF RunsCase
  <2>3. root \in Messages /\ Done
    BY <1>2, <2>1, <2>2 DEF Done
  <2>4. Classify = Deserved(request[running])
    BY <2>2, <2>3, ClassifiedRight
  <2>5. AnswersDeserved'
    BY <1>1, <2>1, <2>4, AnswerRight
  <2>6. RunsCase'
    BY <2>1 DEF RunsCase, vars
  <2> QED
    BY <1>1, <2>1, <2>5, <2>6 DEF RunnerInv
<1>7. CASE UNCHANGED runnerVars
  <2>1. request' = request /\ results' = results /\ running' = running /\ UNCHANGED vars
    BY <1>7 DEF runnerVars
  <2>2. [Next]_vars /\ root' = root /\ failFast' = failFast /\ pc' = pc
    BY <2>1 DEF vars
  <2>3. running # NoCase => ReportInv'
    BY <1>1, <2>2, ReportSteps DEF RunsCase
  <2>4. RunsCase'
    BY <1>1, <2>1, <2>2, <2>3 DEF RunsCase
  <2>5. AnswersDeserved'
    BY <1>1, <2>1 DEF AnswersDeserved
  <2> QED
    BY <1>1, <2>1, <2>4, <2>5 DEF RunnerInv
<1> QED
  BY <1>3, <1>4, <1>5, <1>6, <1>7 DEF RunnerNext

\* Every answer of the runner is the one its case deserves, for any number of cases
\* with messages of any depth.
THEOREM AnswersDeservedCorrect ==
  ASSUME NEW height, ShownTrees(height), RunnableRequests
  PROVE  RunnerSpec => []AnswersDeserved
<1>1. RunnerInit => RunnerInv
  BY RunnerStarts
<1>2. RunnerInv /\ [RunnerNext]_runnerVars => RunnerInv'
  BY RunnerSteps
<1>3. RunnerInv => AnswersDeserved
  BY DEF RunnerInv
<1> QED
  BY <1>1, <1>2, <1>3, PTL DEF RunnerSpec
===============================================================================
