----------------------------- MODULE RuleProofs -----------------------------
(***************************************************************************)
(* Each rule object does what the reference says: the violations it adds   *)
(* are the failing ones of its checks, once each and in order, with their  *)
(* paths leaf first, and it returns an error only if one of its checks     *)
(* cannot be made.  Finds, Makes and Moved relate the code's vector of     *)
(* violations to the reference's checks; the lemmas follow the code from   *)
(* the helpers of RuleContext to Validate of each class.                   *)
(***************************************************************************)
EXTENDS Expected, ValidatorProofs
-------------------------------------------------------------------------------
(* Sequences.                                                              *)

\* A function on 1..n is a sequence.
LEMMA SequenceIs ==
  ASSUME NEW a, NEW n \in Nat, NEW S, a \in [1..n -> S]
  PROVE  Sequence(a) /\ Len(a) = n
<1>1. a \in Seq(S)
  BY SeqDef
<1> QED
  BY <1>1 DEF Sequence

\* Two sequences end to end.
LEMMA Joined ==
  ASSUME NEW a, NEW b, Sequence(a), Sequence(b)
  PROVE  /\ Sequence(a \o b) /\ Len(a \o b) = Len(a) + Len(b)
         /\ \A i \in 1..Len(a) : (a \o b)[i] = a[i]
         /\ \A i \in 1..Len(b) : (a \o b)[Len(a) + i] = b[i]
<1>1. PICK S : a \in Seq(S)
  BY DEF Sequence
<1>2. PICK T : b \in Seq(T)
  BY DEF Sequence
<1>3. a \in Seq(S \cup T) /\ b \in Seq(S \cup T)
  BY <1>1, <1>2
<1>4. a \o b \in Seq(S \cup T) /\ Len(a \o b) = Len(a) + Len(b)
  BY <1>3
<1> QED
  BY <1>3, <1>4 DEF Sequence

\* Sequences are equal if they have the same elements.
LEMMA SameSequence ==
  ASSUME NEW a, NEW b, Sequence(a), Sequence(b), Len(a) = Len(b),
         \A i \in 1..Len(a) : a[i] = b[i]
  PROVE  a = b
<1>1. PICK S : a \in Seq(S)
  BY DEF Sequence
<1>2. PICK T : b \in Seq(T)
  BY DEF Sequence
<1>3. a = [i \in 1..Len(a) |-> a[i]] /\ b = [i \in 1..Len(b) |-> b[i]]
  BY <1>1, <1>2
<1> QED
  BY <1>3

\* Joining has a unit and is associative.
LEMMA JoinedEmpty ==
  ASSUME NEW a, Sequence(a)
  PROVE  a \o <<>> = a /\ <<>> \o a = a
<1>1. PICK S : a \in Seq(S)
  BY DEF Sequence
<1> QED
  BY <1>1

\* Putting end to end is associative.
LEMMA JoinedTwice ==
  ASSUME NEW a, NEW b, NEW c, Sequence(a), Sequence(b), Sequence(c)
  PROVE  (a \o b) \o c = a \o (b \o c)
<1>1. PICK S : a \in Seq(S)
  BY DEF Sequence
<1>2. PICK T : b \in Seq(T)
  BY DEF Sequence
<1>3. PICK U : c \in Seq(U)
  BY DEF Sequence
<1> DEFINE V == S \cup T \cup U
<1>4. a \in Seq(V) /\ b \in Seq(V) /\ c \in Seq(V)
  BY <1>1, <1>2, <1>3
<1> HIDE DEF V
<1> QED
  BY <1>4
-------------------------------------------------------------------------------
(* FlattenSeq, one sequence at a time.                                     *)

FlatRuns(seqs, f) ==
  f = [i \in 1..Len(seqs) |-> IF i = 1 THEN seqs[i] ELSE f[i - 1] \o seqs[i]]

\* The first n of the sequences that g gives, end to end.
Flat(g, n) == FlattenSeq([i \in 1..n |-> g[i]])

FlatUpTo(g, f, n) ==
  f = [i \in 1..n |-> IF i = 1 THEN g[i] ELSE f[i - 1] \o g[i]]

\* The partial flattenings of a sequence of sequences exist.
LEMMA FlatExists ==
  ASSUME NEW g
  PROVE  \A n \in Nat : \E f : FlatUpTo(g, f, n)
<1> DEFINE T == {n \in Nat : \E f : FlatUpTo(g, f, n)}
<1>1. 0 \in T
  <2> DEFINE f == [i \in 1..0 |-> g[i]]
  <2>1. f = [i \in 1..0 |-> IF i = 1 THEN g[i] ELSE f[i - 1] \o g[i]]
    OBVIOUS
  <2> QED
    BY <2>1 DEF FlatUpTo
<1>2. ASSUME NEW n \in Nat, n \in T PROVE n + 1 \in T
  <2>1. PICK f : FlatUpTo(g, f, n)
    BY <1>2
  <2> DEFINE h == [i \in 1..(n + 1) |->
                     IF i = n + 1 THEN IF i = 1 THEN g[i] ELSE f[n] \o g[i] ELSE f[i]]
  <2>2. ASSUME NEW i \in 1..(n + 1)
        PROVE  h[i] = IF i = 1 THEN g[i] ELSE h[i - 1] \o g[i]
    <3>1. CASE i = n + 1
      BY <3>1
    <3>2. CASE i \in 1..n
      <4>1. f[i] = IF i = 1 THEN g[i] ELSE f[i - 1] \o g[i]
        BY <2>1, <3>2 DEF FlatUpTo
      <4>2. h[i] = f[i] /\ (i # 1 => h[i - 1] = f[i - 1])
        BY <3>2
      <4> HIDE DEF h
      <4> QED
        BY <4>1, <4>2
    <3> QED
      BY <3>1, <3>2
  <2>3. h = [i \in 1..(n + 1) |-> h[i]]
    OBVIOUS
  <2> HIDE DEF h
  <2>4. FlatUpTo(g, h, n + 1)
    BY <2>2, <2>3 DEF FlatUpTo
  <2> QED
    BY <2>4
<1> HIDE DEF T
<1>3. Nat \subseteq T
  BY <1>1, <1>2, Induction
<1> QED
  BY <1>3 DEF T

\* Each of them adds the next sequence to the one before.
LEMMA FlatAt ==
  ASSUME NEW g, NEW f, NEW n \in Nat, FlatUpTo(g, f, n), NEW i \in 1..n, NEW j, j = i - 1
  PROVE  f[i] = IF i = 1 THEN g[i] ELSE f[j] \o g[i]
BY DEF FlatUpTo

\* The prefixes of two runs over the same sequences agree.
LEMMA FlatAgrees ==
  ASSUME NEW g, NEW n \in Nat, NEW f, FlatUpTo(g, f, n), NEW k \in Nat, k <= n,
         NEW h, FlatUpTo(g, h, k)
  PROVE  \A i \in 1..k : h[i] = f[i]
<1> DEFINE T == {i \in Nat : i \in 1..k => h[i] = f[i]}
<1>1. 0 \in T
  OBVIOUS
<1>2. ASSUME NEW i \in Nat, i \in T PROVE i + 1 \in T
  <2>1. SUFFICES ASSUME i + 1 \in 1..k PROVE h[i + 1] = f[i + 1]
    OBVIOUS
  <2> DEFINE j == i + 1
  <2>0. j \in 1..k /\ j \in 1..n /\ i = j - 1
    BY <2>1
  <2> HIDE DEF j
  <2>2. h[j] = IF j = 1 THEN g[j] ELSE h[i] \o g[j]
    BY <2>0, FlatAt
  <2>3. f[j] = IF j = 1 THEN g[j] ELSE f[i] \o g[j]
    BY <2>0, FlatAt
  <2>4. j # 1 => h[i] = f[i]
    BY <1>2, <2>0
  <2>5. h[j] = f[j]
    BY <2>2, <2>3, <2>4
  <2> QED
    BY <2>5 DEF j
<1> HIDE DEF T
<1>3. Nat \subseteq T
  BY <1>1, <1>2, Induction
<1> QED
  BY <1>3 DEF T

\* The fold of the library is the last of them.
LEMMA FlatIs ==
  ASSUME NEW g, NEW n \in Nat, n # 0
  PROVE  \E f : FlatUpTo(g, f, n) /\ Flat(g, n) = f[n]
<1> DEFINE s == [i \in 1..n |-> g[i]]
           f == CHOOSE f : FlatRuns(s, f)
<1>1. Len(s) = n
  OBVIOUS
<1>2. \A h : FlatRuns(s, h) <=> FlatUpTo(g, h, n)
  <2> SUFFICES ASSUME NEW h PROVE FlatRuns(s, h) <=> FlatUpTo(g, h, n)
    OBVIOUS
  <2>1. [i \in 1..Len(s) |-> IF i = 1 THEN s[i] ELSE h[i - 1] \o s[i]]
          = [i \in 1..n |-> IF i = 1 THEN g[i] ELSE h[i - 1] \o g[i]]
    BY <1>1
  <2> HIDE DEF s
  <2> QED
    BY <2>1, Zenon DEF FlatRuns, FlatUpTo
<1>3. Flat(g, n) = f[Len(s)]
  <2>1. Flat(g, n) = FlattenSeq(s)
    BY DEF Flat
  <2>2. Len(s) # 0
    BY <1>1
  <2> HIDE DEF s
  <2> QED
    BY <2>1, <2>2, Zenon DEF FlattenSeq, FlatRuns
<1>4. FlatUpTo(g, f, n)
  <2>1. \E h : FlatRuns(s, h)
    BY <1>2, FlatExists
  <2> HIDE DEF s
  <2> QED
    BY <1>2, <2>1
<1> HIDE DEF f, s
<1> QED
  BY <1>1, <1>3, <1>4

\* FlattenSeq takes one sequence more.
LEMMA FlatSteps ==
  ASSUME NEW g
  PROVE  /\ Flat(g, 0) = <<>>
         /\ Flat(g, 1) = g[1]
         /\ \A n \in Nat \ {0} : Flat(g, n + 1) = Flat(g, n) \o g[n + 1]
<1>1. Flat(g, 0) = <<>>
  <2>1. [i \in 1..0 |-> g[i]] = <<>>
    OBVIOUS
  <2> QED
    BY <2>1 DEF Flat, FlattenSeq
<1>2. Flat(g, 1) = g[1]
  <2>1. PICK f : FlatUpTo(g, f, 1) /\ Flat(g, 1) = f[1]
    BY FlatIs
  <2> QED
    BY <2>1 DEF FlatUpTo
<1>3. ASSUME NEW n \in Nat \ {0} PROVE Flat(g, n + 1) = Flat(g, n) \o g[n + 1]
  <2>1. PICK f : FlatUpTo(g, f, n) /\ Flat(g, n) = f[n]
    BY FlatIs
  <2>2. PICK h : FlatUpTo(g, h, n + 1) /\ Flat(g, n + 1) = h[n + 1]
    BY FlatIs
  <2>3. f[n] = h[n]
    <3>1. \A i \in 1..n : f[i] = h[i]
      BY <2>1, <2>2, FlatAgrees
    <3> QED
      BY <3>1
  <2>4. h[n + 1] = h[n] \o g[n + 1]
    <3> DEFINE j == n + 1
    <3>1. j \in Nat /\ j \in 1..j /\ n = j - 1 /\ j # 1 /\ FlatUpTo(g, h, j)
      BY <2>2
    <3> HIDE DEF j
    <3>2. h[j] = IF j = 1 THEN g[j] ELSE h[j - 1] \o g[j]
      BY <3>1 DEF FlatUpTo
    <3>3. h[j] = h[n] \o g[j]
      BY <3>1, <3>2
    <3> QED
      BY <3>3 DEF j
  <2> QED
    BY <2>1, <2>2, <2>3, <2>4
<1> QED
  BY <1>1, <1>2, <1>3

\* The same, from none on, if they are sequences.
LEMMA FlatGrows ==
  ASSUME NEW g, NEW N \in Nat, \A i \in 1..N : Sequence(g[i])
  PROVE  /\ Flat(g, 0) = <<>>
         /\ \A n \in 0..N : Sequence(Flat(g, n))
         /\ \A n \in 0..N : n < N => Flat(g, n + 1) = Flat(g, n) \o g[n + 1]
<1>1. ASSUME NEW n \in 0..N, n < N PROVE Flat(g, n + 1) = Flat(g, n) \o g[n + 1]
  <2>1. CASE n = 0
    <3>1. Sequence(g[1]) /\ n + 1 = 1
      BY <1>1, <2>1
    <3>2. <<>> \o g[1] = g[1]
      BY <3>1, JoinedEmpty
    <3>3. Flat(g, 0) = <<>> /\ Flat(g, 1) = g[1]
      BY FlatSteps
    <3>4. Flat(g, n + 1) = g[1] /\ Flat(g, n) \o g[n + 1] = g[1]
      BY <2>1, <3>1, <3>2, <3>3
    <3> QED
      BY <3>4
  <2>2. CASE n # 0
    BY <2>2, FlatSteps
  <2> QED
    BY <2>1, <2>2
<1> DEFINE T == {n \in Nat : n <= N => Sequence(Flat(g, n))}
<1>2. 0 \in T
  <2>1. Sequence(<<>>)
    BY DEF Sequence
  <2> QED
    BY <2>1, FlatSteps
<1>3. ASSUME NEW n \in Nat, n \in T PROVE n + 1 \in T
  <2>1. SUFFICES ASSUME n + 1 <= N PROVE Sequence(Flat(g, n + 1))
    OBVIOUS
  <2>2. Sequence(Flat(g, n)) /\ Sequence(g[n + 1]) /\ Flat(g, n + 1) = Flat(g, n) \o g[n + 1]
    BY <1>1, <1>3, <2>1
  <2>3. Sequence(Flat(g, n) \o g[n + 1])
    BY <2>2, Joined
  <2> QED
    BY <2>2, <2>3
<1> HIDE DEF T
<1>4. Nat \subseteq T
  BY <1>2, <1>3, Induction
<1>5. \A n \in 0..N : Sequence(Flat(g, n))
  BY <1>4 DEF T
<1> QED
  BY <1>1, <1>5, FlatSteps

AllSequences(g, n) == \A i \in 1..n : Sequence(g[i])

IsSum(n, a, b) == n = a + b
IsJoined(s, a, b) == s = a \o b

\* h are the sequences of g after the first p.
Follow(g, h, p, n) == \A i \in 1..n : g[p + i] = h[i]

\* FlattenSeq of two runs of sequences, one after the other.
LEMMA FlatJoined ==
  ASSUME NEW g, NEW h, NEW p \in Nat, NEW N \in Nat, NEW M \in Nat,
         AllSequences(g, p), AllSequences(h, N), Follow(g, h, p, N), IsSum(M, p, N)
  PROVE  IsJoined(Flat(g, M), Flat(g, p), Flat(h, N))
<1> USE DEF Follow, AllSequences, IsSum, IsJoined
<1>0. ASSUME NEW i \in 1..(p + N) PROVE Sequence(g[i])
  <2>1. CASE i \in 1..p
    BY <2>1
  <2>2. CASE i \notin 1..p
    <3> DEFINE j == i - p
    <3>1. j \in 1..N /\ p + j = i
      BY <2>2
    <3> HIDE DEF j
    <3> QED
      BY <3>1
  <2> QED
    BY <2>1, <2>2
<1>1. /\ \A n \in 0..(p + N) : Sequence(Flat(g, n))
      /\ \A n \in 0..(p + N) : n < p + N => Flat(g, n + 1) = Flat(g, n) \o g[n + 1]
  <2>1. M \in Nat /\ \A i \in 1..M : Sequence(g[i])
    BY <1>0
  <2>2. /\ \A n \in 0..M : Sequence(Flat(g, n))
        /\ \A n \in 0..M : n < M => Flat(g, n + 1) = Flat(g, n) \o g[n + 1]
    BY <2>1, FlatGrows
  <2> QED
    BY <2>2
<1>2. /\ Flat(h, 0) = <<>>
      /\ \A n \in 0..N : Sequence(Flat(h, n))
      /\ \A n \in 0..N : n < N => Flat(h, n + 1) = Flat(h, n) \o h[n + 1]
  BY FlatGrows
<1> DEFINE T == {n \in Nat : n <= N => Flat(g, p + n) = Flat(g, p) \o Flat(h, n)}
<1>3. 0 \in T
  <2>1. Sequence(Flat(g, p)) /\ p + 0 = p
    BY <1>1
  <2>2. Flat(g, p) \o <<>> = Flat(g, p)
    BY <2>1, JoinedEmpty
  <2>3. Flat(g, p + 0) = Flat(g, p) \o Flat(h, 0)
    BY <1>2, <2>1, <2>2
  <2> QED
    BY <2>3
<1>4. ASSUME NEW n \in Nat, n \in T PROVE n + 1 \in T
  <2>1. SUFFICES ASSUME n + 1 <= N PROVE Flat(g, p + (n + 1)) = Flat(g, p) \o Flat(h, n + 1)
    OBVIOUS
  <2>2. Flat(g, p + n) = Flat(g, p) \o Flat(h, n)
    BY <1>4, <2>1
  <2>3. Flat(h, n + 1) = Flat(h, n) \o h[n + 1]
    BY <1>2, <2>1
  <2>4. Flat(g, p + (n + 1)) = Flat(g, p + n) \o h[n + 1]
    <3> DEFINE q == p + n
    <3>1. q \in 0..(p + N) /\ q < p + N /\ q + 1 = p + (n + 1) /\ g[p + (n + 1)] = h[n + 1]
      BY <2>1
    <3> HIDE DEF q
    <3>2. Flat(g, q + 1) = Flat(g, q) \o g[q + 1]
      BY <1>1, <3>1
    <3>3. Flat(g, p + (n + 1)) = Flat(g, q) \o h[n + 1]
      BY <3>1, <3>2
    <3> QED
      BY <3>3 DEF q
  <2>5. Sequence(Flat(g, p)) /\ Sequence(Flat(h, n)) /\ Sequence(h[n + 1])
    BY <1>1, <1>2, <2>1
  <2>6. (Flat(g, p) \o Flat(h, n)) \o h[n + 1] = Flat(g, p) \o (Flat(h, n) \o h[n + 1])
    <3> DEFINE a == Flat(g, p)
               b == Flat(h, n)
               c == h[n + 1]
    <3>1. Sequence(a) /\ Sequence(b) /\ Sequence(c)
      BY <2>5
    <3> HIDE DEF a, b, c
    <3>2. (a \o b) \o c = a \o (b \o c)
      BY <3>1, JoinedTwice
    <3> QED
      BY <3>2 DEF a, b, c
  <2> QED
    BY <2>2, <2>3, <2>4, <2>6
<1> HIDE DEF T
<1>5. Nat \subseteq T
  BY <1>3, <1>4, Induction
<1>6. N \in T
  BY <1>5
<1> QED
  BY <1>6 DEF T

\* What is flattened last comes after what is flattened first.
LEMMA FlatRest ==
  ASSUME NEW g, NEW N \in Nat, \A i \in 1..N : Sequence(g[i]), NEW k \in 0..N
  PROVE  \E rest : Sequence(rest) /\ Flat(g, N) = Flat(g, k) \o rest
<1>1. PICK M \in Nat : N = k + M
  <2>1. N - k \in Nat /\ N = k + (N - k)
    OBVIOUS
  <2> QED
    BY <2>1
<1>2. PICK h : AllSequences(h, M) /\ Follow(g, h, k, M)
  <2> DEFINE h == [i \in 1..M |-> g[k + i]]
  <2>1. (\A i \in 1..M : Sequence(h[i])) /\ (\A i \in 1..M : g[k + i] = h[i])
    BY <1>1
  <2> HIDE DEF h
  <2> QED
    BY <2>1 DEF Follow, AllSequences
<1>3. k \in Nat /\ AllSequences(g, k)
  BY DEF AllSequences
<1>4. IsJoined(Flat(g, N), Flat(g, k), Flat(h, M))
  <2>1. IsSum(N, k, M)
    BY <1>1 DEF IsSum
  <2> QED
    BY <1>2, <1>3, <2>1, FlatJoined
<1>5. Sequence(Flat(h, M))
  <2>1. M \in 0..M
    OBVIOUS
  <2> QED
    BY <1>2, <2>1, FlatGrows DEF AllSequences
<1> QED
  BY <1>4, <1>5 DEF IsJoined

\* Only the sequences themselves matter.
LEMMA FlatSame ==
  ASSUME NEW g, NEW h, NEW n \in Nat, \A i \in 1..n : g[i] = h[i]
  PROVE  Flat(g, n) = Flat(h, n)
<1>1. [i \in 1..n |-> g[i]] = [i \in 1..n |-> h[i]]
  OBVIOUS
<1> QED
  BY <1>1 DEF Flat
-------------------------------------------------------------------------------
(* The checks that fail, and those that cannot be made.                    *)

FailOf(c) == IF c.outcome = "fail" THEN <<AsViolation(c)>> ELSE <<>>
FailsUpTo(cs, n) == Flat([i \in 1..Len(cs) |-> FailOf(cs[i])], n)

\* A check gives one violation or none.
LEMMA FailOfSequence ==
  ASSUME NEW c
  PROVE  Sequence(FailOf(c))
<1>1. <<>> \in Seq({AsViolation(c)}) /\ <<AsViolation(c)>> \in Seq({AsViolation(c)})
  OBVIOUS
<1> QED
  BY <1>1 DEF Sequence, FailOf

\* The violations of the first n + 1 checks are those of the first n, then that of the next.
LEMMA FailsSteps ==
  ASSUME NEW cs, Sequence(cs)
  PROVE  /\ Fails(cs) = FailsUpTo(cs, Len(cs)) /\ FailsUpTo(cs, 0) = <<>>
         /\ \A n \in 0..Len(cs) : Sequence(FailsUpTo(cs, n))
         /\ \A n \in 0..Len(cs) : n < Len(cs) =>
              FailsUpTo(cs, n + 1) = FailsUpTo(cs, n) \o FailOf(cs[n + 1])
<1>1. Len(cs) \in Nat
  BY SequenceLen
<1>2. PICK g : g = [i \in 1..Len(cs) |-> FailOf(cs[i])]
  OBVIOUS
<1>3. \A i \in 1..Len(cs) : Sequence(g[i]) /\ g[i] = FailOf(cs[i])
  BY <1>2, FailOfSequence
<1>4. \A n : FailsUpTo(cs, n) = Flat(g, n)
  BY <1>2 DEF FailsUpTo
<1>5. Fails(cs) = Flat(g, Len(cs))
  <2>1. [i \in 1..Len(cs) |-> g[i]]
          = [i \in 1..Len(cs) |-> IF cs[i].outcome = "fail" THEN <<AsViolation(cs[i])>> ELSE <<>>]
    BY <1>3 DEF FailOf
  <2> QED
    BY <2>1 DEF Flat, Fails
<1>6. /\ Flat(g, 0) = <<>>
      /\ \A n \in 0..Len(cs) : Sequence(Flat(g, n))
      /\ \A n \in 0..Len(cs) : n < Len(cs) => Flat(g, n + 1) = Flat(g, n) \o g[n + 1]
  BY <1>1, <1>3, FlatGrows
<1>7. ASSUME NEW n \in 0..Len(cs)
      PROVE  /\ Sequence(FailsUpTo(cs, n))
             /\ n < Len(cs) => FailsUpTo(cs, n + 1) = FailsUpTo(cs, n) \o FailOf(cs[n + 1])
  <2>1. Sequence(FailsUpTo(cs, n))
    BY <1>4, <1>6
  <2>2. n < Len(cs) => Flat(g, n + 1) = Flat(g, n) \o g[n + 1]
    BY <1>6
  <2>3. n < Len(cs) => g[n + 1] = FailOf(cs[n + 1])
    BY <1>1, <1>3
  <2> QED
    BY <1>4, <2>1, <2>2, <2>3
<1> QED
  BY <1>4, <1>5, <1>6, <1>7

\* The violations of some checks are a sequence.
LEMMA FailsSequence ==
  ASSUME NEW cs, Sequence(cs)
  PROVE  Sequence(Fails(cs)) /\ Len(Fails(cs)) \in Nat
<1>1. Len(cs) \in 0..Len(cs)
  BY SequenceLen
<1> QED
  BY <1>1, FailsSteps, SequenceLen

\* The violations of two sequences of checks are those of the one, then those of the other.
LEMMA FailsJoined ==
  ASSUME NEW a, NEW b, Sequence(a), Sequence(b)
  PROVE  Fails(a \o b) = Fails(a) \o Fails(b)
<1>1. PICK g : g = [i \in 1..Len(a) |-> FailOf(a[i])]
  OBVIOUS
<1>2. PICK h : h = [i \in 1..Len(b) |-> FailOf(b[i])]
  OBVIOUS
<1>3. PICK t : t = [i \in 1..Len(a \o b) |-> FailOf((a \o b)[i])]
  OBVIOUS
<1>4. Len(a) \in Nat /\ Len(b) \in Nat /\ Len(a \o b) = Len(a) + Len(b) /\ Sequence(a \o b)
  BY SequenceLen, Joined
<1>5. /\ \A i \in 1..Len(a) : (a \o b)[i] = a[i]
      /\ \A i \in 1..Len(b) : (a \o b)[Len(a) + i] = b[i]
  BY Joined
<1>6. \A i \in 1..Len(a) : Sequence(t[i]) /\ t[i] = g[i]
  BY <1>1, <1>3, <1>4, <1>5, FailOfSequence
<1>7. (\A i \in 1..Len(b) : Sequence(h[i])) /\ Follow(t, h, Len(a), Len(b))
  BY <1>2, <1>3, <1>4, <1>5, FailOfSequence DEF Follow
<1>8. Flat(t, Len(a \o b)) = Flat(t, Len(a)) \o Flat(h, Len(b))
  <2>1. PICK p \in Nat : p = Len(a)
    BY <1>4
  <2>2. PICK q \in Nat : q = Len(b)
    BY <1>4
  <2>3. PICK n \in Nat : n = p + q
    BY <1>4
  <2>4. IsJoined(Flat(t, n), Flat(t, p), Flat(h, q))
    <3>2. IsSum(n, p, q)
      BY <2>3 DEF IsSum
    <3>1. AllSequences(t, p) /\ AllSequences(h, q) /\ Follow(t, h, p, q)
      BY <1>6, <1>7, <2>1, <2>2 DEF AllSequences
    <3> QED
      BY <3>1, <3>2, FlatJoined
  <2> QED
    BY <1>4, <2>1, <2>2, <2>3, <2>4 DEF IsJoined
<1>9. Flat(t, Len(a)) = Flat(g, Len(a))
  BY <1>4, <1>6, FlatSame
<1>10. /\ Fails(a) = Flat(g, Len(a)) /\ Fails(b) = Flat(h, Len(b))
       /\ Fails(a \o b) = Flat(t, Len(a \o b))
  BY <1>1, <1>2, <1>3, <1>4, FailsSteps DEF FailsUpTo
<1> QED
  BY <1>8, <1>9, <1>10

\* The violations of one check, and of none.
LEMMA FailsOfOne ==
  ASSUME NEW c
  PROVE  Fails(<<c>>) = FailOf(c) /\ Fails(<<>>) = <<>>
<1>1. Sequence(<<c>>) /\ Sequence(<<>>) /\ Len(<<c>>) = 1 /\ <<c>>[1] = c /\ Len(<<>>) = 0
  <2>1. <<c>> \in Seq({c}) /\ <<>> \in Seq({c})
    OBVIOUS
  <2> QED
    BY <2>1 DEF Sequence
<1>2. FailsUpTo(<<c>>, 1) = FailsUpTo(<<c>>, 0) \o FailOf(c) /\ FailsUpTo(<<c>>, 0) = <<>>
  <2>1. 0 \in 0..1 /\ 0 < 1 /\ 0 + 1 = 1
    OBVIOUS
  <2> QED
    BY <1>1, <2>1, FailsSteps
<1>3. <<>> \o FailOf(c) = FailOf(c)
  BY FailOfSequence, JoinedEmpty
<1> QED
  BY <1>1, <1>2, <1>3, FailsSteps

\* Which checks fail depends on the outcomes only.
SameOutcomes(cs, ds) ==
  Sequence(ds) /\ Len(ds) = Len(cs) /\ \A i \in 1..Len(cs) : ds[i].outcome = cs[i].outcome

Chosen(ds, at, n) == [k \in 1..n |-> AsViolation(ds[at[k]])]

\* The failing checks are found at places that depend on the outcomes only.
LEMMA FailsAt ==
  ASSUME NEW cs, Sequence(cs)
  PROVE  \E n \in Nat : \E at \in [1..n -> 1..Len(cs)] :
           \A ds : SameOutcomes(cs, ds) => Fails(ds) = Chosen(ds, at, n)
<1> DEFINE P(m) == \E n \in Nat : \E at \in [1..n -> 1..m] :
                     \A ds : SameOutcomes(cs, ds) => FailsUpTo(ds, m) = Chosen(ds, at, n)
           T == {m \in Nat : m <= Len(cs) => P(m)}
<1>0. Len(cs) \in Nat
  BY SequenceLen
<1>1. 0 \in T
  <2>1. PICK at : at \in [1..0 -> 1..0]
    <3>1. [k \in 1..0 |-> k] \in [1..0 -> 1..0]
      OBVIOUS
    <3> QED
      BY <3>1
  <2>2. ASSUME NEW ds, SameOutcomes(cs, ds) PROVE FailsUpTo(ds, 0) = Chosen(ds, at, 0)
    <3>1. Chosen(ds, at, 0) = <<>>
      BY DEF Chosen
    <3> QED
      BY <2>2, <3>1, FailsSteps DEF SameOutcomes
  <2> QED
    BY <2>1, <2>2
<1>2. ASSUME NEW m \in Nat, m \in T PROVE m + 1 \in T
  <2>1. SUFFICES ASSUME m + 1 <= Len(cs) PROVE P(m + 1)
    OBVIOUS
  <2>0. PICK n \in Nat : \E at \in [1..n -> 1..m] :
          \A ds : SameOutcomes(cs, ds) => FailsUpTo(ds, m) = Chosen(ds, at, n)
    BY <1>2, <2>1
  <2>2. PICK at \in [1..n -> 1..m] :
          \A ds : SameOutcomes(cs, ds) => FailsUpTo(ds, m) = Chosen(ds, at, n)
    BY <2>0
  <2>3. ASSUME NEW ds, SameOutcomes(cs, ds)
        PROVE  FailsUpTo(ds, m + 1) = FailsUpTo(ds, m) \o FailOf(ds[m + 1])
    <3>1. Sequence(ds) /\ m \in 0..Len(ds) /\ m < Len(ds)
      BY <1>0, <2>1, <2>3 DEF SameOutcomes
    <3> QED
      BY <3>1, FailsSteps
  <2>4. CASE cs[m + 1].outcome = "fail"
    <3> DEFINE more == [k \in 1..(n + 1) |-> IF k = n + 1 THEN m + 1 ELSE at[k]]
    <3>1. more \in [1..(n + 1) -> 1..(m + 1)]
      OBVIOUS
    <3>2. more[n + 1] = m + 1 /\ \A k \in 1..n : more[k] = at[k]
      OBVIOUS
    <3> HIDE DEF more
    <3>3. ASSUME NEW ds, SameOutcomes(cs, ds)
          PROVE  FailsUpTo(ds, m + 1) = Chosen(ds, more, n + 1)
      <4>1. ds[m + 1].outcome = "fail"
        BY <1>0, <2>1, <2>4, <3>3 DEF SameOutcomes
      <4>2. FailsUpTo(ds, m + 1) = Chosen(ds, at, n) \o <<AsViolation(ds[m + 1])>>
        BY <2>2, <2>3, <3>3, <4>1 DEF FailOf
      <4>3. PICK v : v = AsViolation(ds[m + 1])
        OBVIOUS
      <4>4. PICK s : s = Chosen(ds, at, n)
        OBVIOUS
      <4>5. PICK w : w = Chosen(ds, more, n + 1)
        OBVIOUS
      <4>6. s = [k \in 1..n |-> AsViolation(ds[at[k]])]
        BY <4>4 DEF Chosen
      <4>7. w = [k \in 1..(n + 1) |-> AsViolation(ds[more[k]])]
        BY <4>5 DEF Chosen
      <4>8. \A k \in 1..n : w[k] = s[k]
        BY <3>2, <4>6, <4>7
      <4>9. w[n + 1] = v
        BY <3>2, <4>3, <4>7
      <4>10. s \o <<v>> = w
        <5>1. Sequence(s) /\ Len(s) = n
          <6>1. s \in [1..n -> {s[k] : k \in 1..n}]
            BY <4>6
          <6> QED
            BY <6>1, SequenceIs
        <5>2. Sequence(w) /\ Len(w) = n + 1
          <6>1. w \in [1..(n + 1) -> {w[k] : k \in 1..(n + 1)}] /\ n + 1 \in Nat
            BY <4>7
          <6> QED
            BY <6>1, SequenceIs
        <5>3. Sequence(<<v>>) /\ Len(<<v>>) = 1 /\ <<v>>[1] = v
          <6>1. <<v>> \in Seq({v})
            OBVIOUS
          <6> QED
            BY <6>1 DEF Sequence
        <5>4. /\ Sequence(s \o <<v>>) /\ Len(s \o <<v>>) = n + 1
              /\ \A i \in 1..n : (s \o <<v>>)[i] = s[i]
              /\ (s \o <<v>>)[n + 1] = v
          BY <5>1, <5>3, Joined
        <5>5. PICK u : u = s \o <<v>>
          OBVIOUS
        <5>6. \A i \in 1..(n + 1) : u[i] = w[i]
          BY <4>8, <4>9, <5>4, <5>5
        <5>7. u = w
          BY <5>2, <5>4, <5>5, <5>6, SameSequence
        <5> QED
          BY <5>5, <5>7
      <4> QED
        BY <4>2, <4>3, <4>4, <4>5, <4>10
    <3> QED
      BY <3>1, <3>3
  <2>5. CASE cs[m + 1].outcome # "fail"
    <3>1. at \in [1..n -> 1..(m + 1)]
      OBVIOUS
    <3>2. ASSUME NEW ds, SameOutcomes(cs, ds)
          PROVE  FailsUpTo(ds, m + 1) = Chosen(ds, at, n)
      <4>1. FailOf(ds[m + 1]) = <<>>
        BY <1>0, <2>1, <2>5, <3>2 DEF SameOutcomes, FailOf
      <4>2. FailsUpTo(ds, m) \o <<>> = FailsUpTo(ds, m)
        <5>1. Sequence(FailsUpTo(ds, m))
          BY <1>0, <2>1, <3>2, FailsSteps DEF SameOutcomes
        <5> QED
          BY <5>1, JoinedEmpty
      <4> QED
        BY <2>2, <2>3, <3>2, <4>1, <4>2
    <3> QED
      BY <3>1, <3>2
  <2> QED
    BY <2>4, <2>5
<1> HIDE DEF T
<1>3. Nat \subseteq T
  BY <1>1, <1>2, Induction
<1>4. P(Len(cs))
  <2>1. Len(cs) \in T
    BY <1>0, <1>3
  <2> QED
    <3>1. Len(cs) <= Len(cs)
      BY <1>0
    <3> QED
      BY <2>1, <3>1, Zenon DEF T
<1>5. ASSUME NEW ds, SameOutcomes(cs, ds) PROVE Fails(ds) = FailsUpTo(ds, Len(cs))
  BY <1>5, FailsSteps DEF SameOutcomes
<1> QED
  BY <1>4, <1>5
-------------------------------------------------------------------------------
(* Paths turned around.                                                    *)

\* What Reverse returns.
LEMMA ReverseIs ==
  ASSUME NEW a, Sequence(a)
  PROVE  /\ Sequence(Reverse(a)) /\ Len(Reverse(a)) = Len(a)
         /\ \A i \in 1..Len(a) : Reverse(a)[i] = a[Len(a) - i + 1]
<1>1. PICK n \in Nat : n = Len(a)
  BY SequenceLen
<1>2. PICK r : r = Reverse(a)
  OBVIOUS
<1>3. r = [i \in 1..n |-> a[(n - i) + 1]]
  BY <1>1, <1>2 DEF Reverse
<1>4. r \in [1..n -> {r[i] : i \in 1..n}]
  BY <1>3
<1>5. Sequence(r) /\ Len(r) = n
  BY <1>4, SequenceIs
<1> QED
  BY <1>1, <1>2, <1>3, <1>5

\* The elements of two sequences end to end.
LEMMA JoinedParts ==
  ASSUME NEW a, NEW b, NEW c, Sequence(a), Sequence(b), IsJoined(c, a, b),
         NEW m \in Nat, NEW n \in Nat, Len(a) = m, Len(b) = n
  PROVE  /\ Sequence(c) /\ Len(c) = m + n
         /\ \A i \in 1..m : c[i] = a[i]
         /\ \A i \in 1..n : c[m + i] = b[i]
BY Joined DEF IsJoined

\* Turning around puts the last first.
LEMMA ReverseJoined ==
  ASSUME NEW a, NEW b, Sequence(a), Sequence(b)
  PROVE  IsJoined(Reverse(a \o b), Reverse(b), Reverse(a))
<1>1. PICK m \in Nat : m = Len(a)
  BY SequenceLen
<1>2. PICK n \in Nat : n = Len(b)
  BY SequenceLen
<1>0. PICK l \in Nat : l = m + n
  OBVIOUS
<1>3. PICK c : IsJoined(c, a, b)
  BY DEF IsJoined
<1>4. /\ Sequence(c) /\ Len(c) = l
      /\ \A i \in 1..m : c[i] = a[i]
      /\ \A i \in 1..n : c[m + i] = b[i]
  <2>1. /\ Sequence(c) /\ Len(c) = m + n
        /\ \A i \in 1..m : c[i] = a[i]
        /\ \A i \in 1..n : c[m + i] = b[i]
    BY <1>1, <1>2, <1>3, JoinedParts
  <2> QED
    BY <1>0, <2>1
<1>5. PICK ra : ra = Reverse(a)
  OBVIOUS
<1>6. PICK rb : rb = Reverse(b)
  OBVIOUS
<1>7. PICK rc : rc = Reverse(c)
  OBVIOUS
<1>8. Sequence(ra) /\ Len(ra) = m /\ \A i \in 1..m : ra[i] = a[m - i + 1]
  BY <1>1, <1>5, ReverseIs
<1>9. Sequence(rb) /\ Len(rb) = n /\ \A i \in 1..n : rb[i] = b[n - i + 1]
  BY <1>2, <1>6, ReverseIs
<1>10. Sequence(rc) /\ Len(rc) = l /\ \A i \in 1..l : rc[i] = c[l - i + 1]
  BY <1>4, <1>7, ReverseIs
<1>11. PICK d : IsJoined(d, rb, ra)
  BY DEF IsJoined
<1>12. /\ Sequence(d) /\ Len(d) = l
       /\ \A i \in 1..n : d[i] = rb[i]
       /\ \A i \in 1..m : d[n + i] = ra[i]
  <2>1. /\ Sequence(d) /\ Len(d) = n + m
        /\ \A i \in 1..n : d[i] = rb[i]
        /\ \A i \in 1..m : d[n + i] = ra[i]
    BY <1>8, <1>9, <1>11, JoinedParts
  <2> QED
    BY <1>0, <2>1
<1>13. ASSUME NEW i \in 1..l PROVE rc[i] = d[i]
  <2>1. CASE i \in 1..n
    <3>1. PICK j \in 1..n : j = n - i + 1
      BY <2>1
    <3>2. l - i + 1 = m + j
      BY <1>0, <3>1
    <3>3. rc[i] = c[m + j]
      BY <1>10, <3>2
    <3> QED
      BY <1>4, <1>9, <1>12, <2>1, <3>1, <3>3
  <2>2. CASE i \notin 1..n
    <3>1. PICK k \in 1..m : i = n + k
      <4>1. i - n \in 1..m /\ i = n + (i - n)
        BY <1>0, <2>2
      <4> QED
        BY <4>1
    <3>2. PICK j \in 1..m : j = m - k + 1
      OBVIOUS
    <3>3. l - i + 1 = j
      BY <1>0, <3>1, <3>2
    <3>4. rc[i] = a[j]
      BY <1>4, <1>10, <3>3
    <3>5. d[i] = ra[k]
      BY <1>12, <3>1
    <3> QED
      BY <1>8, <3>2, <3>4, <3>5
  <2> QED
    BY <2>1, <2>2
<1>14. rc = d
  BY <1>10, <1>12, <1>13, SameSequence
<1> QED
  BY <1>3, <1>5, <1>6, <1>7, <1>11, <1>14 DEF IsJoined

\* Turning around twice changes nothing.
LEMMA ReverseTwice ==
  ASSUME NEW a, Sequence(a)
  PROVE  Reverse(Reverse(a)) = a
<1>1. PICK n \in Nat : n = Len(a)
  BY SequenceLen
<1>2. PICK r : r = Reverse(a)
  OBVIOUS
<1>3. PICK q : q = Reverse(r)
  OBVIOUS
<1>4. Sequence(r) /\ Len(r) = n /\ \A i \in 1..n : r[i] = a[n - i + 1]
  BY <1>1, <1>2, ReverseIs
<1>5. Sequence(q) /\ Len(q) = n /\ \A i \in 1..n : q[i] = r[n - i + 1]
  BY <1>3, <1>4, ReverseIs
<1>6. ASSUME NEW i \in 1..n PROVE q[i] = a[i]
  <2>1. PICK j \in 1..n : j = n - i + 1
    OBVIOUS
  <2>2. n - j + 1 = i
    BY <2>1
  <2> QED
    BY <1>4, <1>5, <2>1, <2>2
<1>7. q = a
  BY <1>1, <1>5, <1>6, SameSequence
<1> QED
  BY <1>2, <1>3, <1>7

\* A sequence of one element, and the empty one.
LEMMA OneSequence ==
  ASSUME NEW x
  PROVE  /\ Sequence(<<x>>) /\ Len(<<x>>) = 1 /\ <<x>>[1] = x
         /\ Sequence(<<>>) /\ Len(<<>>) = 0
         /\ Reverse(<<x>>) = <<x>> /\ Reverse(<<>>) = <<>>
<1>1. <<x>> \in Seq({x}) /\ <<>> \in Seq({x})
  OBVIOUS
<1>2. Sequence(<<x>>) /\ Sequence(<<>>)
  BY <1>1 DEF Sequence
<1>3. Reverse(<<>>) = <<>>
  <2>1. Reverse(<<>>) = [i \in 1..0 |-> <<>>[(0 - i) + 1]]
    BY DEF Reverse
  <2> QED
    BY <2>1
<1>4. Reverse(<<x>>) = <<x>>
  <2>1. PICK r : r = Reverse(<<x>>)
    OBVIOUS
  <2>2. PICK s : s = <<x>>
    OBVIOUS
  <2>3. Sequence(s) /\ Len(s) = 1 /\ s[1] = x
    BY <1>2, <2>2
  <2>4. Sequence(r) /\ Len(r) = 1 /\ \A i \in 1..1 : r[i] = s[1 - i + 1]
    BY <2>1, <2>2, <2>3, ReverseIs
  <2>5. \A i \in 1..1 : r[i] = s[i]
    BY <2>4
  <2>6. r = s
    BY <2>3, <2>4, <2>5, SameSequence
  <2> QED
    BY <2>1, <2>2, <2>6
<1> QED
  BY <1>2, <1>3, <1>4

\* Appending is putting a sequence of one at the end.
LEMMA AppendIs ==
  ASSUME NEW a, NEW x, Sequence(a)
  PROVE  IsJoined(Append(a, x), a, <<x>>)
<1>1. PICK S : a \in Seq(S)
  BY DEF Sequence
<1>2. a \in Seq(S \cup {x}) /\ <<x>> \in Seq(S \cup {x})
  BY <1>1
<1>3. Append(a, x) = a \o <<x>>
  BY <1>2
<1> QED
  BY <1>3 DEF IsJoined
-------------------------------------------------------------------------------
(* A violation of the code, and the failing check it shows.                *)

IsViolation(v) ==
  /\ v = [id |-> v.id, field |-> v.field, rule |-> v.rule, forKey |-> v.forKey,
          fieldValue |-> v.fieldValue, ruleValue |-> v.ruleValue]
  /\ Sequence(v.field) /\ Sequence(v.rule)

\* While the walk goes on, the paths are leaf first; the in-memory value may be
\* another one.
Shown(v, w) ==
  /\ IsViolation(v) /\ Sequence(w.field) /\ Sequence(w.rule)
  /\ v.id = w.id /\ v.forKey = w.forKey /\ v.ruleValue = w.ruleValue
  /\ v.field = Reverse(w.field) /\ v.rule = Reverse(w.rule)

\* What a caller does to the violations found below it, and what the reference
\* does to the checks there.
Keyed(key, b) == IF key THEN TRUE ELSE b

Moved(v, w, F, R, key) ==
  /\ IsViolation(w)
  /\ w.id = v.id /\ w.ruleValue = v.ruleValue /\ w.forKey = Keyed(key, v.forKey)
  /\ w.field = v.field \o Reverse(F) /\ w.rule = v.rule \o Reverse(R)

Relocated(c, d, F, R, key) ==
  /\ d.id = c.id /\ d.ruleValue = c.ruleValue /\ d.forKey = Keyed(key, c.forKey)
  /\ d.field = F \o c.field /\ d.rule = R \o c.rule /\ d.outcome = c.outcome

\* The two agree.
LEMMA ShownMoves ==
  ASSUME NEW v, NEW w, NEW c, NEW d, NEW F, NEW R, NEW key, Sequence(F), Sequence(R),
         Shown(v, c), Moved(v, w, F, R, key), Relocated(c, d, F, R, key)
  PROVE  Shown(w, d)
<1>1. Sequence(c.field) /\ Sequence(c.rule)
  BY DEF Shown
<1>2. Sequence(F \o c.field) /\ Sequence(R \o c.rule)
  BY <1>1, Joined
<1>3. IsJoined(Reverse(F \o c.field), Reverse(c.field), Reverse(F))
  BY <1>1, ReverseJoined
<1>4. IsJoined(Reverse(R \o c.rule), Reverse(c.rule), Reverse(R))
  BY <1>1, ReverseJoined
<1>5. w.field = Reverse(d.field) /\ w.rule = Reverse(d.rule)
  BY <1>3, <1>4 DEF IsJoined, Shown, Moved, Relocated
<1>6. w.id = d.id /\ w.forKey = d.forKey /\ w.ruleValue = d.ruleValue
  BY DEF Shown, Moved, Relocated
<1> QED
  BY <1>2, <1>5, <1>6 DEF Shown, Moved, Relocated

\* The violations after the first pos are moved.
MovesAll(vs, ws, pos, F, R, key) ==
  Updated(vs, ws, pos) /\ \A i \in (pos + 1)..Len(vs) : Moved(vs[i], ws[i], F, R, key)

RelocatedAll(cs, ds, F, R, key) ==
  Sequence(ds) /\ Len(ds) = Len(cs) /\ \A i \in 1..Len(cs) : Relocated(cs[i], ds[i], F, R, key)

\* ws are the violations vs and, after them, the failing ones of the checks cs.
Finds(vs, ws, cs) ==
  /\ Grows(vs, ws) /\ Len(ws) = Len(vs) + Len(Fails(cs))
  /\ \A i \in 1..Len(Fails(cs)) : Shown(ws[Len(vs) + i], Fails(cs)[i])

\* A violation shows a check if it shows what the reference makes of it.
LEMMA ShownCheck ==
  ASSUME NEW v, NEW c
  PROVE  Shown(v, AsViolation(c)) <=> Shown(v, c)
BY DEF Shown, AsViolation

\* What was found is still found where caller and reference move it.
LEMMA FindsMoves ==
  ASSUME NEW vs, NEW ws, NEW xs, NEW cs, NEW ds, NEW F, NEW R, NEW key, NEW p \in Nat,
         p = Len(vs), Sequence(F), Sequence(R), Sequence(cs), Finds(vs, ws, cs),
         MovesAll(ws, xs, p, F, R, key), RelocatedAll(cs, ds, F, R, key)
  PROVE  Finds(vs, xs, ds)
<1>1. SameOutcomes(cs, ds) /\ SameOutcomes(cs, cs)
  BY DEF RelocatedAll, Relocated, SameOutcomes
<1>2. PICK n \in Nat : \E at \in [1..n -> 1..Len(cs)] :
        \A es : SameOutcomes(cs, es) => Fails(es) = Chosen(es, at, n)
  BY FailsAt
<1>3. PICK at \in [1..n -> 1..Len(cs)] :
        \A es : SameOutcomes(cs, es) => Fails(es) = Chosen(es, at, n)
  BY <1>2
<1>4. PICK f : f = Fails(cs)
  OBVIOUS
<1>5. PICK g : g = Fails(ds)
  OBVIOUS
<1>6. f = [k \in 1..n |-> AsViolation(cs[at[k]])] /\ g = [k \in 1..n |-> AsViolation(ds[at[k]])]
  BY <1>1, <1>3, <1>4, <1>5 DEF Chosen
<1>7. Len(f) = n /\ Len(g) = n
  BY <1>6
<1>8. /\ Sequence(ws) /\ Len(ws) = p + n /\ Grows(vs, ws)
      /\ \A i \in 1..n : Shown(ws[p + i], f[i])
  BY <1>4, <1>7 DEF Finds, Grows
<1>9. /\ Sequence(xs) /\ Len(xs) = p + n
      /\ \A i \in (p + 1)..(p + n) : Moved(ws[i], xs[i], F, R, key)
  BY <1>8 DEF MovesAll, Updated
<1>10. ASSUME NEW i \in 1..n PROVE Shown(xs[p + i], g[i])
  <2>1. PICK k \in (p + 1)..(p + n) : k = p + i
    OBVIOUS
  <2>2. PICK j \in 1..Len(cs) : j = at[i]
    BY <1>3
  <2>3. Shown(ws[k], cs[j])
    BY <1>6, <1>8, <2>1, <2>2, ShownCheck
  <2>4. Moved(ws[k], xs[k], F, R, key)
    BY <1>9
  <2>5. Relocated(cs[j], ds[j], F, R, key)
    BY DEF RelocatedAll
  <2>6. Shown(xs[k], ds[j])
    BY <2>3, <2>4, <2>5, ShownMoves
  <2> QED
    BY <1>6, <2>1, <2>2, <2>6, ShownCheck
<1>11. Grows(vs, xs)
  <2>1. Updated(ws, xs, p)
    BY DEF MovesAll
  <2> QED
    BY <1>8, <2>1, UpdatedGrows
<1> QED
  BY <1>5, <1>7, <1>9, <1>10, <1>11 DEF Finds

\* Finds, for lengths that have names.
LEMMA FindsIs ==
  ASSUME NEW vs, NEW ws, NEW cs, NEW f, NEW p \in Nat, NEW n \in Nat,
         f = Fails(cs), p = Len(vs), n = Len(f), Grows(vs, ws), Len(ws) = p + n,
         \A i \in 1..n : Shown(ws[p + i], f[i])
  PROVE  Finds(vs, ws, cs)
BY DEF Finds

\* Nothing done finds the failing ones of no checks.
LEMMA FindsNone ==
  ASSUME NEW vs, Sequence(vs)
  PROVE  Finds(vs, vs, <<>>)
<1>1. Fails(<<>>) = <<>> /\ Len(<<>>) = 0
  BY FailsOfOne, OneSequence
<1>2. Len(vs) \in Nat
  BY SequenceLen
<1> QED
  BY <1>1, <1>2, GrowsRefl DEF Finds

\* A check that passes, or cannot be made.
LEMMA FindsNotOne ==
  ASSUME NEW vs, NEW c, Sequence(vs), c.outcome # "fail"
  PROVE  Finds(vs, vs, <<c>>)
<1>1. Fails(<<c>>) = <<>> /\ Len(<<>>) = 0
  BY FailsOfOne, OneSequence DEF FailOf
<1>2. Len(vs) \in Nat
  BY SequenceLen
<1> QED
  BY <1>1, <1>2, GrowsRefl DEF Finds

\* A violation appended is that of its check.
LEMMA FindsOne ==
  ASSUME NEW vs, NEW v, NEW c, Sequence(vs), c.outcome = "fail", Shown(v, c)
  PROVE  Finds(vs, Append(vs, v), <<c>>)
<1>1. PICK w : w = AsViolation(c)
  OBVIOUS
<1>2. Fails(<<c>>) = <<w>> /\ Len(<<w>>) = 1 /\ <<w>>[1] = w
  BY <1>1, FailsOfOne, OneSequence DEF FailOf
<1>3. PICK p \in Nat : p = Len(vs)
  BY SequenceLen
<1>4. PICK ws : ws = Append(vs, v)
  OBVIOUS
<1>5. Grows(vs, ws) /\ Len(ws) = p + 1
  BY <1>3, <1>4, AppendGrows
<1>6. ws[p + 1] = v
  <2>1. PICK S : vs \in Seq(S)
    BY DEF Sequence
  <2>2. vs \in Seq(S \cup {v})
    BY <2>1
  <2> QED
    BY <1>3, <1>4, <2>2
<1>7. Shown(v, w)
  BY <1>1, ShownCheck
<1> QED
  <2>1. PICK f : f = Fails(<<c>>)
    OBVIOUS
  <2>2. Len(f) = 1 /\ f[1] = w
    BY <1>2, <2>1
  <2>3. \A i \in 1..1 : Shown(ws[p + i], f[i])
    BY <1>6, <1>7, <2>2
  <2>4. Finds(vs, ws, <<c>>)
    BY <1>3, <1>5, <2>1, <2>2, <2>3, FindsIs
  <2> QED
    BY <1>4, <2>4

\* What two parts of the code find is what the checks of both, end to end, give.
LEMMA FindsThen ==
  ASSUME NEW us, NEW vs, NEW ws, NEW a, NEW b, NEW c, Sequence(a), Sequence(b),
         Finds(us, vs, a), Finds(vs, ws, b), IsJoined(c, a, b)
  PROVE  Finds(us, ws, c)
<1>1. PICK f : f = Fails(a)
  OBVIOUS
<1>2. PICK g : g = Fails(b)
  OBVIOUS
<1>3. PICK h : h = Fails(c)
  OBVIOUS
<1>4. IsJoined(h, f, g)
  BY <1>1, <1>2, <1>3, FailsJoined DEF IsJoined
<1>5. Sequence(f) /\ Sequence(g)
  BY <1>1, <1>2, FailsSequence
<1>6. PICK m \in Nat : m = Len(f)
  BY <1>5, SequenceLen
<1>7. PICK n \in Nat : n = Len(g)
  BY <1>5, SequenceLen
<1>8. /\ Sequence(h) /\ Len(h) = m + n
      /\ \A i \in 1..m : h[i] = f[i]
      /\ \A i \in 1..n : h[m + i] = g[i]
  <2>1. Sequence(f)
    BY <1>5
  <2>2. Sequence(g)
    BY <1>5
  <2>3. Len(f) = m /\ Len(g) = n
    BY <1>6, <1>7
  <2> QED
    BY <1>4, <2>1, <2>2, <2>3, JoinedParts
<1>9. PICK p \in Nat : p = Len(us)
  BY SequenceLen DEF Finds, Grows
<1>10. Grows(us, vs) /\ Len(vs) = p + m /\ \A i \in 1..m : Shown(vs[p + i], f[i])
  BY <1>1, <1>6, <1>9 DEF Finds
<1>11. /\ Grows(vs, ws) /\ Len(ws) = (p + m) + n
       /\ \A i \in 1..n : Shown(ws[(p + m) + i], g[i])
  BY <1>2, <1>7, <1>10 DEF Finds
<1>12. Grows(us, ws)
  BY <1>10, <1>11, GrowsTrans
<1>13. ASSUME NEW i \in 1..(m + n) PROVE Shown(ws[p + i], h[i])
  <2>1. CASE i \in 1..m
    <3>1. p + i \in 1..Len(vs)
      BY <1>10, <2>1
    <3>2. ws[p + i] = vs[p + i]
      BY <1>11, <3>1 DEF Grows
    <3> QED
      BY <1>8, <1>10, <2>1, <3>2
  <2>2. CASE i \notin 1..m
    <3>1. PICK j \in 1..n : i = m + j
      <4>1. i - m \in 1..n /\ i = m + (i - m)
        BY <2>2
      <4> QED
        BY <4>1
    <3>2. p + i = (p + m) + j
      BY <3>1
    <3>3. h[i] = g[j]
      BY <1>8, <3>1
    <3> QED
      BY <1>11, <3>2, <3>3
  <2> QED
    BY <2>1, <2>2
<1> QED
  <2>1. PICK l \in Nat : l = m + n
    OBVIOUS
  <2>2. Len(h) = l /\ Len(ws) = p + l /\ \A i \in 1..l : Shown(ws[p + i], h[i])
    BY <1>8, <1>10, <1>11, <1>13, <2>1
  <2> QED
    BY <1>3, <1>9, <1>12, <2>2, FindsIs
-------------------------------------------------------------------------------
(* What an early end leaves: some of the violations, in order.             *)

\* Places among 1..m, in order.
Increasing(at, n, m) ==
  at \in [1..n -> 1..m] /\ \A i, j \in 1..n : i < j => at[i] < at[j]

\* The n violations that follow the p of vs show those of f at the places at; the
\* first violation of all is the first of f.
PicksAt(vs, ws, f, at, p, n) ==
  /\ Grows(vs, ws) /\ p = Len(vs) /\ n \in Nat /\ Len(ws) = p + n
  /\ Increasing(at, n, Len(f))
  /\ \A i \in 1..n : Shown(ws[p + i], f[at[i]])
  /\ p = 0 /\ n # 0 => at[1] = 1

\* ws are the violations vs and, after them, some of the failing ones of the checks cs.
Picks(vs, ws, cs) == \E at, p, n : PicksAt(vs, ws, Fails(cs), at, p, n)

\* All of them are some of them.
LEMMA FindsPicks ==
  ASSUME NEW vs, NEW ws, NEW cs, Sequence(cs), Finds(vs, ws, cs)
  PROVE  Picks(vs, ws, cs)
<1>1. PICK f : f = Fails(cs)
  OBVIOUS
<1>2. PICK n \in Nat : n = Len(f)
  BY <1>1, FailsSequence
<1>3. PICK p : p = Len(vs)
  OBVIOUS
<1>4. Grows(vs, ws) /\ Len(ws) = p + n /\ \A i \in 1..n : Shown(ws[p + i], f[i])
  BY <1>1, <1>2, <1>3 DEF Finds
<1>5. PICK at : at = [i \in 1..n |-> i]
  OBVIOUS
<1>6. Increasing(at, n, n)
  BY <1>5 DEF Increasing
<1>7. \A i \in 1..n : at[i] = i
  BY <1>5
<1>8. \A i \in 1..n : Shown(ws[p + i], f[at[i]])
  BY <1>4, <1>7
<1>9. n # 0 => at[1] = 1
  BY <1>7
<1>10. PicksAt(vs, ws, f, at, p, n)
  BY <1>2, <1>3, <1>4, <1>6, <1>8, <1>9 DEF PicksAt
<1> QED
  BY <1>1, <1>10 DEF Picks

\* Where nothing was found no check fails.
LEMMA NoneFound ==
  ASSUME NEW vs, NEW ws, NEW cs, Sequence(cs), Finds(vs, ws, cs), Len(ws) = Len(vs)
  PROVE  Len(Fails(cs)) = 0
<1>1. PICK n \in Nat : n = Len(Fails(cs))
  BY FailsSequence
<1>2. PICK p \in Nat : p = Len(vs)
  BY SequenceLen DEF Finds, Grows
<1>3. p = p + n
  BY <1>1, <1>2 DEF Finds
<1> QED
  BY <1>1, <1>2, <1>3

\* Some of the violations of two parts of the code, one after the other; if there are
\* none before the second, the first has none.
LEMMA PicksThen ==
  ASSUME NEW us, NEW vs, NEW ws, NEW a, NEW b, NEW c, Sequence(a), Sequence(b),
         Picks(us, vs, a), Picks(vs, ws, b), IsJoined(c, a, b), Len(vs) = 0 => Len(Fails(a)) = 0
  PROVE  Picks(us, ws, c)
<1>1. PICK f, g, h : f = Fails(a) /\ g = Fails(b) /\ h = Fails(c)
  OBVIOUS
<1>2. IsJoined(h, f, g)
  BY <1>1, FailsJoined DEF IsJoined
<1>3. Sequence(f) /\ Sequence(g)
  BY <1>1, FailsSequence
<1>4. PICK k \in Nat : k = Len(f)
  BY <1>3, SequenceLen
<1>5. PICK l \in Nat : l = Len(g)
  BY <1>3, SequenceLen
<1>6. /\ Len(h) = k + l
      /\ \A i \in 1..k : h[i] = f[i]
      /\ \A i \in 1..l : h[k + i] = g[i]
  <2>1. Sequence(f)
    BY <1>3
  <2>2. Sequence(g)
    BY <1>3
  <2>3. Len(f) = k /\ Len(g) = l
    BY <1>4, <1>5
  <2> QED
    BY <1>2, <2>1, <2>2, <2>3, JoinedParts
<1>7. PICK r, p, m : PicksAt(us, vs, f, r, p, m)
  BY <1>1 DEF Picks
<1>8. PICK s, q, n : PicksAt(vs, ws, g, s, q, n)
  BY <1>1 DEF Picks
<1>9. /\ Grows(us, vs) /\ p = Len(us) /\ m \in Nat /\ Len(vs) = p + m /\ Increasing(r, m, k)
      /\ \A i \in 1..m : Shown(vs[p + i], f[r[i]])
      /\ p = 0 /\ m # 0 => r[1] = 1
  BY <1>4, <1>7 DEF PicksAt
<1>10. /\ Grows(vs, ws) /\ q = p + m /\ n \in Nat /\ Len(ws) = (p + m) + n /\ Increasing(s, n, l)
       /\ \A i \in 1..n : Shown(ws[(p + m) + i], g[s[i]])
       /\ q = 0 /\ n # 0 => s[1] = 1
  BY <1>5, <1>8, <1>9 DEF PicksAt
<1>11. p \in Nat
  BY <1>9, SequenceLen DEF Grows
<1>12. PICK at : at = [i \in 1..(m + n) |-> IF i <= m THEN r[i] ELSE k + s[i - m]]
  OBVIOUS
<1>13. /\ \A i \in 1..m : r[i] \in 1..k
       /\ \A i, j \in 1..m : i < j => r[i] < r[j]
       /\ \A i \in 1..n : s[i] \in 1..l
       /\ \A i, j \in 1..n : i < j => s[i] < s[j]
  BY <1>9, <1>10 DEF Increasing
<1>14. /\ \A i \in 1..m : at[i] = r[i]
       /\ \A i \in 1..n : at[m + i] = k + s[i]
  <2>1. ASSUME NEW i \in 1..m PROVE at[i] = r[i]
    <3>1. i \in 1..(m + n) /\ i <= m
      BY <1>9, <1>10
    <3> QED
      BY <1>12, <3>1
  <2>2. ASSUME NEW i \in 1..n PROVE at[m + i] = k + s[i]
    <3>1. m + i \in 1..(m + n) /\ ~(m + i <= m) /\ (m + i) - m = i
      BY <1>9, <1>10
    <3> QED
      BY <1>12, <3>1
  <2> QED
    BY <2>1, <2>2
<1>15. \A i \in 1..(m + n) : i \in 1..m \/ \E j \in 1..n : i = m + j
  <2>1. ASSUME NEW i \in 1..(m + n), i \notin 1..m PROVE i - m \in 1..n /\ i = m + (i - m)
    BY <1>9, <1>10, <2>1
  <2> QED
    BY <2>1
<1>16. Increasing(at, m + n, k + l)
  <2>1. ASSUME NEW i \in 1..(m + n) PROVE at[i] \in 1..(k + l)
    <3>1. CASE i \in 1..m
      BY <1>13, <1>14, <3>1
    <3>2. CASE i \notin 1..m
      <4>1. PICK j \in 1..n : i = m + j
        BY <1>15, <3>2
      <4>2. at[i] = k + s[j] /\ s[j] \in 1..l
        BY <1>13, <1>14, <4>1
      <4> QED
        BY <4>2
    <3> QED
      BY <3>1, <3>2
  <2>2. ASSUME NEW i \in 1..(m + n), NEW j \in 1..(m + n), i < j PROVE at[i] < at[j]
    <3>1. CASE j \in 1..m
      <4>1. i \in 1..m
        BY <1>9, <2>2, <3>1
      <4> QED
        BY <1>13, <1>14, <2>2, <3>1, <4>1
    <3>2. CASE j \notin 1..m
      <4>1. PICK y \in 1..n : j = m + y
        BY <1>15, <3>2
      <4>2. at[j] = k + s[y] /\ s[y] \in 1..l
        BY <1>13, <1>14, <4>1
      <4>3. CASE i \in 1..m
        <5>1. at[i] \in 1..k
          BY <1>13, <1>14, <4>3
        <5> QED
          BY <4>2, <5>1
      <4>4. CASE i \notin 1..m
        <5>1. PICK x \in 1..n : i = m + x
          BY <1>15, <4>4
        <5>2. at[i] = k + s[x] /\ s[x] \in 1..l
          BY <1>13, <1>14, <5>1
        <5>3. x < y
          BY <1>9, <2>2, <4>1, <5>1
        <5>4. s[x] < s[y]
          BY <1>13, <5>3
        <5> QED
          BY <4>2, <5>2, <5>4
      <4> QED
        BY <4>3, <4>4
    <3> QED
      BY <3>1, <3>2
  <2>3. at \in [1..(m + n) -> 1..(k + l)]
    BY <1>12, <2>1
  <2> QED
    BY <2>2, <2>3 DEF Increasing
<1>17. ASSUME NEW i \in 1..(m + n) PROVE Shown(ws[p + i], h[at[i]])
  <2>1. CASE i \in 1..m
    <3>1. p + i \in 1..Len(vs)
      BY <1>9, <1>11, <2>1
    <3>2. ws[p + i] = vs[p + i]
      BY <1>10, <3>1 DEF Grows
    <3>3. at[i] = r[i] /\ r[i] \in 1..k
      BY <1>13, <1>14, <2>1
    <3>4. h[at[i]] = f[r[i]]
      BY <1>6, <3>3
    <3> QED
      BY <1>9, <2>1, <3>2, <3>4
  <2>2. CASE i \notin 1..m
    <3>1. PICK j \in 1..n : i = m + j
      BY <1>15, <2>2
    <3>2. at[i] = k + s[j] /\ s[j] \in 1..l
      BY <1>13, <1>14, <3>1
    <3>3. h[at[i]] = g[s[j]]
      BY <1>6, <3>2
    <3>4. p + i = (p + m) + j
      BY <1>9, <1>11, <3>1
    <3> QED
      BY <1>10, <3>3, <3>4
  <2> QED
    BY <2>1, <2>2
<1>18. ASSUME p = 0, m + n # 0 PROVE at[1] = 1
  <2>1. CASE m # 0
    <3>1. 1 \in 1..m
      BY <1>9, <2>1
    <3> QED
      BY <1>9, <1>14, <1>18, <2>1, <3>1
  <2>2. CASE m = 0
    <3>1. n # 0 /\ q = 0 /\ 1 \in 1..n /\ m + 1 = 1 /\ Len(vs) = 0
      BY <1>9, <1>10, <1>18, <2>2
    <3>2. k = 0
      BY <1>1, <1>4, <3>1
    <3>3. at[m + 1] = k + s[1]
      BY <1>14, <3>1
    <3> QED
      BY <1>10, <3>1, <3>2, <3>3
  <2> QED
    BY <2>1, <2>2
<1>19. Grows(us, ws)
  BY <1>9, <1>10, GrowsTrans
<1>20. PICK t \in Nat : t = m + n
  BY <1>9, <1>10
<1>21. Len(ws) = p + t
  BY <1>9, <1>10, <1>11, <1>20
<1>22. PicksAt(us, ws, h, at, p, t)
  BY <1>6, <1>9, <1>16, <1>17, <1>18, <1>19, <1>20, <1>21 DEF PicksAt
<1> QED
  BY <1>1, <1>22 DEF Picks

\* Checks that are not made because the validation has ended add nothing.
LEMMA PicksEnough ==
  ASSUME NEW us, NEW vs, NEW a, NEW b, NEW c, Sequence(a), Sequence(b), Picks(us, vs, a),
         IsJoined(c, a, b)
  PROVE  Picks(us, vs, c)
<1>1. PICK f, g, h : f = Fails(a) /\ g = Fails(b) /\ h = Fails(c)
  OBVIOUS
<1>2. IsJoined(h, f, g)
  BY <1>1, FailsJoined DEF IsJoined
<1>3. Sequence(f) /\ Sequence(g)
  BY <1>1, FailsSequence
<1>4. PICK k \in Nat : k = Len(f)
  BY <1>3, SequenceLen
<1>5. PICK l \in Nat : l = Len(g)
  BY <1>3, SequenceLen
<1>6. Len(h) = k + l /\ \A i \in 1..k : h[i] = f[i]
  <2>1. Sequence(f)
    BY <1>3
  <2>2. Sequence(g)
    BY <1>3
  <2>3. Len(f) = k /\ Len(g) = l
    BY <1>4, <1>5
  <2> QED
    BY <1>2, <2>1, <2>2, <2>3, JoinedParts
<1>7. PICK at, p, n : PicksAt(us, vs, f, at, p, n)
  BY <1>1 DEF Picks
<1>8. \A i \in 1..n : at[i] \in 1..k /\ Shown(vs[p + i], f[at[i]])
  BY <1>4, <1>7 DEF PicksAt, Increasing
<1>9. \A i \in 1..n : at[i] \in 1..(k + l) /\ Shown(vs[p + i], h[at[i]])
  BY <1>6, <1>8
<1>10. Increasing(at, n, k + l)
  BY <1>4, <1>7, <1>9 DEF PicksAt, Increasing
<1>11. PicksAt(us, vs, h, at, p, n)
  BY <1>6, <1>7, <1>9, <1>10 DEF PicksAt
<1> QED
  BY <1>1, <1>11 DEF Picks

\* What was picked is still picked where caller and reference move it.
LEMMA PicksMoves ==
  ASSUME NEW vs, NEW ws, NEW xs, NEW cs, NEW ds, NEW F, NEW R, NEW key, NEW q \in Nat,
         q = Len(vs), Sequence(F), Sequence(R), Sequence(cs), Picks(vs, ws, cs),
         MovesAll(ws, xs, q, F, R, key), RelocatedAll(cs, ds, F, R, key)
  PROVE  Picks(vs, xs, ds)
<1>1. SameOutcomes(cs, ds) /\ SameOutcomes(cs, cs)
  BY DEF RelocatedAll, Relocated, SameOutcomes
<1>2. PICK k \in Nat : \E to \in [1..k -> 1..Len(cs)] :
        \A es : SameOutcomes(cs, es) => Fails(es) = Chosen(es, to, k)
  BY FailsAt
<1>3. PICK to \in [1..k -> 1..Len(cs)] :
        \A es : SameOutcomes(cs, es) => Fails(es) = Chosen(es, to, k)
  BY <1>2
<1>4. PICK f, g : f = Fails(cs) /\ g = Fails(ds)
  OBVIOUS
<1>5. f = [i \in 1..k |-> AsViolation(cs[to[i]])] /\ g = [i \in 1..k |-> AsViolation(ds[to[i]])]
  BY <1>1, <1>3, <1>4 DEF Chosen
<1>6. Len(f) = k /\ Len(g) = k
  BY <1>5
<1>7. PICK at, p, n : PicksAt(vs, ws, f, at, p, n)
  BY <1>4 DEF Picks
<1>8. /\ p = q /\ n \in Nat /\ Grows(vs, ws) /\ Len(ws) = p + n /\ Sequence(ws)
      /\ Increasing(at, n, k) /\ \A i \in 1..n : at[i] \in 1..k /\ Shown(ws[p + i], f[at[i]])
      /\ p = 0 /\ n # 0 => at[1] = 1
  BY <1>6, <1>7 DEF PicksAt, Grows, Increasing
<1>9. Len(xs) = p + n /\ \A i \in (p + 1)..(p + n) : Moved(ws[i], xs[i], F, R, key)
  <2>1. Len(xs) = Len(ws) /\ \A i \in (q + 1)..Len(ws) : Moved(ws[i], xs[i], F, R, key)
    BY DEF MovesAll, Updated
  <2>2. q = p /\ Len(ws) = p + n
    BY <1>8
  <2> QED
    BY <2>1, <2>2
<1>10. ASSUME NEW i \in 1..n PROVE Shown(xs[p + i], g[at[i]])
  <2>0. p \in Nat /\ n \in Nat
    BY <1>8
  <2>1. PICK y \in (p + 1)..(p + n) : y = p + i
    BY <2>0
  <2>2. PICK z \in 1..k : z = at[i]
    BY <1>8
  <2>3. PICK j \in 1..Len(cs) : j = to[z]
    BY <1>3
  <2>4. Shown(ws[y], cs[j])
    <3>1. f[z] = AsViolation(cs[j])
      BY <1>5, <2>3
    <3> QED
      BY <1>8, <2>1, <2>2, <3>1, ShownCheck
  <2>5. Moved(ws[y], xs[y], F, R, key)
    BY <1>9
  <2>6. Relocated(cs[j], ds[j], F, R, key)
    BY DEF RelocatedAll
  <2>7. Shown(xs[y], ds[j])
    BY <2>4, <2>5, <2>6, ShownMoves
  <2>8. g[z] = AsViolation(ds[j])
    BY <1>5, <2>3
  <2> QED
    BY <2>1, <2>2, <2>7, <2>8, ShownCheck
<1>11. Grows(vs, xs)
  <2>1. Updated(ws, xs, q)
    BY DEF MovesAll
  <2> QED
    BY <1>8, <2>1, UpdatedGrows
<1>12. PicksAt(vs, xs, g, at, p, n)
  BY <1>6, <1>8, <1>9, <1>10, <1>11 DEF PicksAt
<1> QED
  BY <1>4, <1>12 DEF Picks
-------------------------------------------------------------------------------
(* What a rule object, or a part of one, makes of its checks.              *)

\* No check, or some check, cannot be made.
Erred(c) == c.outcome \notin {"pass", "fail"}
NoErrors(cs) == \A i \in 1..Len(cs) : ~Erred(cs[i])
HasError(cs) == \E i \in 1..Len(cs) : Erred(cs[i])

\* Some check, or the first one, that cannot be made ends with the status s.
HasStatus(cs, s) == \E i \in 1..Len(cs) : Erred(cs[i]) /\ cs[i].outcome = s
IsFirst(cs, s) ==
  \E i \in 1..Len(cs) : /\ Erred(cs[i]) /\ cs[i].outcome = s
                        /\ \A j \in 1..Len(cs) : j < i => ~Erred(cs[j])

\* The status of a check that cannot be made, without failFast of the first.
Reports(ff, cs, s) == HasStatus(cs, s) /\ (~ff => IsFirst(cs, s))

\* It fails only with the status of a check that cannot be made; if it does not it has found
\* some of the failing ones, and unless the validation ends with it, it has made them
\* all and found all the failing ones.
Makes(ff, vs, r, cs) ==
  /\ Adds(vs, r) /\ Sequence(cs)
  /\ r.status # Ok => Reports(ff, cs, r.status)
  /\ r.status = Ok => Picks(vs, r.vs, cs)
  /\ ~ShouldReturn(ff, r.vs, r.status) => NoErrors(cs) /\ Finds(vs, r.vs, cs)

\* The errors among two sequences of checks.
LEMMA ErrorsJoined ==
  ASSUME NEW a, NEW b, NEW c, Sequence(a), Sequence(b), IsJoined(c, a, b)
  PROVE  /\ Sequence(c)
         /\ NoErrors(c) <=> NoErrors(a) /\ NoErrors(b)
         /\ HasError(c) <=> HasError(a) \/ HasError(b)
<1>1. PICK m \in Nat : m = Len(a)
  BY SequenceLen
<1>2. PICK n \in Nat : n = Len(b)
  BY SequenceLen
<1>3. /\ Sequence(c) /\ Len(c) = m + n
      /\ \A i \in 1..m : c[i] = a[i]
      /\ \A i \in 1..n : c[m + i] = b[i]
  BY <1>1, <1>2, JoinedParts
<1>4. HasError(c) <=> HasError(a) \/ HasError(b)
  <2>1. ASSUME HasError(a) PROVE HasError(c)
    <3>1. PICK i \in 1..m : Erred(a[i])
      BY <1>1, <2>1 DEF HasError
    <3>2. i \in 1..Len(c) /\ c[i] = a[i]
      BY <1>3
    <3> QED
      BY <3>1, <3>2 DEF HasError
  <2>2. ASSUME HasError(b) PROVE HasError(c)
    <3>1. PICK i \in 1..n : Erred(b[i])
      BY <1>2, <2>2 DEF HasError
    <3>2. m + i \in 1..Len(c) /\ c[m + i] = b[i]
      BY <1>3
    <3> QED
      BY <3>1, <3>2 DEF HasError
  <2>3. ASSUME HasError(c) PROVE HasError(a) \/ HasError(b)
    <3>1. PICK i \in 1..(m + n) : Erred(c[i])
      BY <1>3, <2>3 DEF HasError
    <3>2. CASE i \in 1..m
      BY <1>1, <1>3, <3>1, <3>2 DEF HasError
    <3>3. CASE i \notin 1..m
      <4>1. PICK j \in 1..n : i = m + j
        <5>1. i - m \in 1..n /\ i = m + (i - m)
          BY <3>3
        <5> QED
          BY <5>1
      <4> QED
        BY <1>2, <1>3, <3>1, <4>1 DEF HasError
    <3> QED
      BY <3>2, <3>3
  <2> QED
    BY <2>1, <2>2, <2>3
<1>5. \A cs : NoErrors(cs) <=> ~HasError(cs)
  BY DEF NoErrors, HasError
<1> QED
  BY <1>3, <1>4, <1>5

\* The first error is in the second part if there is none in the first.
LEMMA FirstAfter ==
  ASSUME NEW a, NEW b, NEW c, NEW s, Sequence(a), Sequence(b), NoErrors(a), IsFirst(b, s),
         IsJoined(c, a, b)
  PROVE  IsFirst(c, s)
<1>1. PICK m \in Nat : m = Len(a)
  BY SequenceLen
<1>2. PICK n \in Nat : n = Len(b)
  BY SequenceLen
<1>3. Len(a) = m /\ Len(b) = n
  BY <1>1, <1>2
<1>4. /\ Sequence(c) /\ Len(c) = m + n
      /\ \A i \in 1..m : c[i] = a[i]
      /\ \A i \in 1..n : c[m + i] = b[i]
  BY <1>3, JoinedParts
<1>5. PICK k \in 1..n : /\ Erred(b[k]) /\ b[k].outcome = s
                        /\ \A j \in 1..n : j < k => ~Erred(b[j])
  BY <1>3 DEF IsFirst
<1>6. PICK i \in 1..Len(c) : i = m + k
  BY <1>4
<1>7. ASSUME NEW j \in 1..Len(c), j < i PROVE ~Erred(c[j])
  <2>1. CASE j <= m
    BY <1>3, <1>4, <2>1 DEF NoErrors
  <2>2. CASE j > m
    <3>1. PICK h \in 1..n : j = m + h
      <4>1. j - m \in 1..n /\ j = m + (j - m)
        BY <1>4, <2>2
      <4> QED
        BY <4>1
    <3> QED
      BY <1>4, <1>5, <1>6, <1>7, <3>1
  <2> QED
    BY <2>1, <2>2
<1>8. Erred(c[i]) /\ c[i].outcome = s
  BY <1>4, <1>5, <1>6
<1> QED
  BY <1>7, <1>8 DEF IsFirst

\* In the first part if there is one.
LEMMA FirstBefore ==
  ASSUME NEW a, NEW b, NEW c, NEW s, Sequence(a), Sequence(b), IsFirst(a, s), IsJoined(c, a, b)
  PROVE  IsFirst(c, s)
<1>1. PICK m \in Nat : m = Len(a)
  BY SequenceLen
<1>2. PICK n \in Nat : n = Len(b)
  BY SequenceLen
<1>3. Len(a) = m /\ Len(b) = n
  BY <1>1, <1>2
<1>4. /\ Sequence(c) /\ Len(c) = m + n
      /\ \A i \in 1..m : c[i] = a[i]
  BY <1>3, JoinedParts
<1>5. PICK i \in 1..m : /\ Erred(a[i]) /\ a[i].outcome = s
                        /\ \A j \in 1..m : j < i => ~Erred(a[j])
  BY <1>3 DEF IsFirst
<1>6. i \in 1..Len(c) /\ Erred(c[i]) /\ c[i].outcome = s
  BY <1>4, <1>5
<1>7. ASSUME NEW j \in 1..Len(c), j < i PROVE ~Erred(c[j])
  BY <1>4, <1>5, <1>7
<1> QED
  BY <1>6, <1>7 DEF IsFirst

\* Nor is a status lost, in either part.
LEMMA StatusJoined ==
  ASSUME NEW a, NEW b, NEW c, NEW s, Sequence(a), Sequence(b), IsJoined(c, a, b),
         HasStatus(a, s) \/ HasStatus(b, s)
  PROVE  HasStatus(c, s)
<1>1. PICK m \in Nat : m = Len(a)
  BY SequenceLen
<1>2. PICK n \in Nat : n = Len(b)
  BY SequenceLen
<1>3. Len(a) = m /\ Len(b) = n
  BY <1>1, <1>2
<1>4. /\ Sequence(c) /\ Len(c) = m + n
      /\ \A i \in 1..m : c[i] = a[i]
      /\ \A i \in 1..n : c[m + i] = b[i]
  BY <1>3, JoinedParts
<1>5. CASE HasStatus(a, s)
  <2>1. PICK i \in 1..m : Erred(a[i]) /\ a[i].outcome = s
    BY <1>3, <1>5 DEF HasStatus
  <2>2. i \in 1..Len(c) /\ c[i] = a[i]
    BY <1>4
  <2> QED
    BY <2>1, <2>2 DEF HasStatus
<1>6. CASE HasStatus(b, s)
  <2>1. PICK i \in 1..n : Erred(b[i]) /\ b[i].outcome = s
    BY <1>3, <1>6 DEF HasStatus
  <2>2. m + i \in 1..Len(c) /\ c[m + i] = b[i]
    BY <1>4
  <2> QED
    BY <2>1, <2>2 DEF HasStatus
<1> QED
  BY <1>5, <1>6

\* Moving checks to another place keeps their outcomes.
LEMMA ErrorsMoved ==
  ASSUME NEW cs, NEW ds, NEW F, NEW R, NEW key, RelocatedAll(cs, ds, F, R, key)
  PROVE  /\ NoErrors(ds) <=> NoErrors(cs)
         /\ \A s : IsFirst(ds, s) <=> IsFirst(cs, s)
         /\ \A s : HasStatus(ds, s) <=> HasStatus(cs, s)
<1>1. PICK N : N = 1..Len(cs)
  OBVIOUS
<1>2. N = 1..Len(ds) /\ \A i \in N : ds[i].outcome = cs[i].outcome
  BY <1>1 DEF RelocatedAll, Relocated
<1>3. \A i \in N : Erred(ds[i]) <=> Erred(cs[i])
  BY <1>2 DEF Erred
<1>4. NoErrors(ds) <=> NoErrors(cs)
  BY <1>1, <1>2, <1>3 DEF NoErrors
<1>5. ASSUME NEW s PROVE IsFirst(ds, s) <=> IsFirst(cs, s)
  <2>1. IsFirst(ds, s) <=> \E i \in N : /\ Erred(ds[i]) /\ ds[i].outcome = s
                                        /\ \A j \in N : j < i => ~Erred(ds[j])
    BY <1>2 DEF IsFirst
  <2>2. IsFirst(cs, s) <=> \E i \in N : /\ Erred(cs[i]) /\ cs[i].outcome = s
                                        /\ \A j \in N : j < i => ~Erred(cs[j])
    BY <1>1 DEF IsFirst
  <2> QED
    BY <1>2, <1>3, <2>1, <2>2
<1>6. ASSUME NEW s PROVE HasStatus(ds, s) <=> HasStatus(cs, s)
  <2>1. HasStatus(ds, s) <=> \E i \in N : Erred(ds[i]) /\ ds[i].outcome = s
    BY <1>2 DEF HasStatus
  <2>2. HasStatus(cs, s) <=> \E i \in N : Erred(cs[i]) /\ cs[i].outcome = s
    BY <1>1 DEF HasStatus
  <2> QED
    BY <1>2, <1>3, <2>1, <2>2
<1> QED
  BY <1>4, <1>5, <1>6

\* An error reported for the first part is one for the whole.
LEMMA ReportsBefore ==
  ASSUME NEW ff, NEW a, NEW b, NEW c, NEW s, Sequence(a), Sequence(b), Reports(ff, a, s),
         IsJoined(c, a, b)
  PROVE  Reports(ff, c, s)
BY StatusJoined, FirstBefore DEF Reports

\* For the second part too, unless an error in the first was passed over.
LEMMA ReportsAfter ==
  ASSUME NEW ff, NEW a, NEW b, NEW c, NEW s, Sequence(a), Sequence(b), Reports(ff, b, s),
         ~ff => NoErrors(a), IsJoined(c, a, b)
  PROVE  Reports(ff, c, s)
BY StatusJoined, FirstAfter DEF Reports

\* An end of the validation is seen later too.
LEMMA StillSilent ==
  ASSUME NEW ff, NEW vs, NEW ws, NEW s, Grows(vs, ws), ~ShouldReturn(ff, ws, s)
  PROVE  ~ShouldReturn(ff, vs, Ok) /\ s = Ok
<1>1. Len(vs) \in Nat /\ Len(ws) \in Nat /\ Len(vs) <= Len(ws)
  BY SequenceLen DEF Grows
<1>2. ASSUME ws = <<>> PROVE vs = <<>>
  <2>1. Len(vs) = 0
    BY <1>1, <1>2, OneSequence
  <2>2. PICK S : vs \in Seq(S)
    BY DEF Grows, Sequence
  <2> QED
    BY <2>1, <2>2
<1> QED
  BY <1>2 DEF ShouldReturn

\* A sequence of length zero.
LEMMA EmptyIf ==
  ASSUME NEW s, Sequence(s), Len(s) = 0
  PROVE  s = <<>>
<1>1. PICK S : s \in Seq(S)
  BY DEF Sequence
<1> QED
  BY <1>1

\* Two parts, one after the other unless the first one fails.
LEMMA MakesThen ==
  ASSUME NEW ff, NEW vs, NEW r, NEW q, NEW a, NEW b, NEW c, IsJoined(c, a, b),
         Makes(ff, vs, r, a), Makes(ff, r.vs, q, b), r.status = Ok
  PROVE  Makes(ff, vs, q, c)
<1>1. Sequence(a) /\ Sequence(b) /\ Adds(vs, q)
  BY AddsOn DEF Makes, Adds
<1>2. ASSUME q.status # Ok PROVE Reports(ff, c, q.status)
  <2>1. ~ff => NoErrors(a)
    BY DEF Makes, ShouldReturn
  <2> QED
    BY <1>1, <1>2, <2>1, ReportsAfter DEF Makes
<1>3. ASSUME ~ShouldReturn(ff, q.vs, q.status) PROVE NoErrors(c) /\ Finds(vs, q.vs, c)
  <2>1. ~ShouldReturn(ff, r.vs, Ok)
    BY <1>3, StillSilent DEF Makes, Adds
  <2>2. NoErrors(a) /\ Finds(vs, r.vs, a) /\ NoErrors(b) /\ Finds(r.vs, q.vs, b)
    BY <1>3, <2>1 DEF Makes
  <2> QED
    BY <1>1, <2>2, ErrorsJoined, FindsThen
<1>4. ASSUME q.status = Ok PROVE Picks(vs, q.vs, c)
  <2>1. PICK us : us = r.vs
    OBVIOUS
  <2>2. Picks(vs, us, a) /\ Picks(us, q.vs, b)
    BY <1>4, <2>1 DEF Makes
  <2>3. ASSUME Len(us) = 0 PROVE Len(Fails(a)) = 0
    <3>1. Grows(vs, us)
      BY <2>1 DEF Makes, Adds
    <3>2. Len(vs) = 0 /\ us = <<>>
      <4>1. Sequence(us) /\ Len(vs) \in Nat /\ Len(vs) <= Len(us)
        BY <3>1, SequenceLen DEF Grows
      <4>2. Len(vs) = 0
        BY <2>3, <4>1
      <4>3. us = <<>>
        BY <2>3, <4>1, EmptyIf
      <4> QED
        BY <4>2, <4>3
    <3>3. ~ShouldReturn(ff, r.vs, r.status)
      BY <2>1, <3>2 DEF ShouldReturn
    <3>4. Finds(vs, us, a)
      BY <2>1, <3>3 DEF Makes
    <3> QED
      BY <1>1, <2>3, <3>2, <3>4, NoneFound
  <2> QED
    BY <1>1, <2>2, <2>3, PicksThen
<1> QED
  BY <1>1, <1>2, <1>3, <1>4, ErrorsJoined DEF Makes

\* After an error the checks left out do not matter.
LEMMA MakesError ==
  ASSUME NEW ff, NEW vs, NEW r, NEW a, NEW b, NEW c, IsJoined(c, a, b), Sequence(b),
         Makes(ff, vs, r, a), r.status # Ok
  PROVE  Makes(ff, vs, r, c)
<1>1. Sequence(a) /\ Reports(ff, a, r.status)
  BY DEF Makes
<1>2. Sequence(c) /\ Reports(ff, c, r.status)
  BY <1>1, ErrorsJoined, ReportsBefore
<1> QED
  BY <1>2 DEF Makes, ShouldReturn

\* After it the rest does not run because the validation has ended.
LEMMA MakesEnough ==
  ASSUME NEW ff, NEW vs, NEW r, NEW a, NEW b, NEW c, IsJoined(c, a, b), Sequence(b),
         Makes(ff, vs, r, a), ShouldReturn(ff, r.vs, r.status)
  PROVE  Makes(ff, vs, r, c)
<1>1. Sequence(a)
  BY DEF Makes
<1>2. Sequence(c) /\ (Reports(ff, a, r.status) => Reports(ff, c, r.status))
  BY <1>1, ErrorsJoined, ReportsBefore
<1>3. ASSUME r.status = Ok PROVE Picks(vs, r.vs, c)
  <2>1. Picks(vs, r.vs, a)
    BY <1>3 DEF Makes
  <2> QED
    BY <1>1, <2>1, PicksEnough
<1> QED
  BY <1>2, <1>3 DEF Makes

\* No checks.
LEMMA MakesNothing ==
  ASSUME NEW ff, NEW vs, Sequence(vs)
  PROVE  Makes(ff, vs, Result(vs, Ok), <<>>)
<1>1. Sequence(<<>>) /\ Len(<<>>) = 0
  BY OneSequence
<1>2. NoErrors(<<>>)
  BY <1>1 DEF NoErrors
<1>3. Adds(vs, Result(vs, Ok))
  BY AddsNothing
<1>4. Finds(vs, vs, <<>>) /\ Picks(vs, vs, <<>>)
  <2>1. Finds(vs, vs, <<>>)
    BY FindsNone
  <2> QED
    BY <1>1, <2>1, FindsPicks
<1> QED
  BY <1>1, <1>2, <1>3, <1>4 DEF Makes, Result

\* One check, made without a status.
LEMMA MakesOne ==
  ASSUME NEW ff, NEW vs, NEW ws, NEW v, NEW c, Sequence(vs), c.outcome \in {"pass", "fail"},
         c.outcome = "fail" => Shown(v, c) /\ ws = Append(vs, v),
         c.outcome = "pass" => ws = vs
  PROVE  Makes(ff, vs, Result(ws, Ok), <<c>>)
<1>1. Sequence(<<c>>) /\ NoErrors(<<c>>)
  BY OneSequence DEF NoErrors, Erred
<1>2. Finds(vs, ws, <<c>>)
  <2>1. CASE c.outcome = "pass"
    <3>1. c.outcome # "fail"
      BY <2>1
    <3> QED
      BY <2>1, <3>1, FindsNotOne
  <2>2. CASE c.outcome = "fail"
    BY <2>2, FindsOne
  <2> QED
    BY <2>1, <2>2
<1>3. Picks(vs, ws, <<c>>)
  BY <1>1, <1>2, FindsPicks
<1> QED
  BY <1>1, <1>2, <1>3, OkIsStatus DEF Makes, Result, Adds, Finds

\* Its violations are moved, and so are the checks.
LEMMA MakesMoved ==
  ASSUME NEW ff, NEW vs, NEW r, NEW xs, NEW cs, NEW ds, NEW F, NEW R, NEW key, NEW p \in Nat,
         p = Len(vs), Sequence(F), Sequence(R), Makes(ff, vs, r, cs),
         r.status = Ok => MovesAll(r.vs, xs, p, F, R, key),
         Updated(r.vs, xs, p), RelocatedAll(cs, ds, F, R, key)
  PROVE  Makes(ff, vs, Result(xs, r.status), ds)
<1>1. Sequence(ds) /\ Sequence(cs)
  BY DEF RelocatedAll, Makes
<1>2. /\ \A t : Reports(ff, cs, t) => Reports(ff, ds, t)
      /\ NoErrors(cs) <=> NoErrors(ds)
  BY ErrorsMoved DEF Reports
<1>3. Adds(vs, Result(xs, r.status))
  <2>1. Grows(vs, xs)
    BY UpdatedGrows DEF Makes, Adds
  <2> QED
    BY <2>1 DEF Makes, Adds, Result
<1>4. ShouldReturn(ff, xs, r.status) <=> ShouldReturn(ff, r.vs, r.status)
  <2>1. Sequence(xs) /\ Sequence(r.vs) /\ Len(xs) = Len(r.vs)
    BY DEF Updated, Makes, Adds, Grows
  <2>2. \A s : Sequence(s) => (s = <<>> <=> Len(s) = 0)
    <3> SUFFICES ASSUME NEW s, Sequence(s) PROVE s = <<>> <=> Len(s) = 0
      OBVIOUS
    <3>1. PICK S : s \in Seq(S)
      BY DEF Sequence
    <3> QED
      BY <3>1
  <2>3. xs = <<>> <=> r.vs = <<>>
    BY <2>1, <2>2
  <2> QED
    BY <2>3 DEF ShouldReturn
<1>5. ASSUME ~ShouldReturn(ff, xs, r.status) PROVE NoErrors(ds) /\ Finds(vs, xs, ds)
  <2>1. NoErrors(cs) /\ Finds(vs, r.vs, cs) /\ MovesAll(r.vs, xs, p, F, R, key)
    BY <1>4, <1>5 DEF Makes, ShouldReturn
  <2> QED
    BY <1>1, <1>2, <2>1, FindsMoves
<1>6. ASSUME r.status = Ok PROVE Picks(vs, xs, ds)
  <2>1. Picks(vs, r.vs, cs) /\ MovesAll(r.vs, xs, p, F, R, key)
    BY <1>6 DEF Makes
  <2> QED
    BY <1>1, <2>1, PicksMoves
<1> QED
  BY <1>1, <1>2, <1>3, <1>5, <1>6 DEF Makes, Result
-------------------------------------------------------------------------------
(* RuleContext.                                                            *)

AllViolations(vs, pos) == \A i \in (pos + 1)..Len(vs) : IsViolation(vs[i])

\* One violation, with a new field path, rule path, value or for_key.
LEMMA ViolationWith ==
  ASSUME NEW v, NEW x, IsViolation(v)
  PROVE  /\ [v EXCEPT !.field = x] = [id |-> v.id, field |-> x, rule |-> v.rule, forKey |-> v.forKey,
                fieldValue |-> v.fieldValue, ruleValue |-> v.ruleValue]
         /\ [v EXCEPT !.rule = x] = [id |-> v.id, field |-> v.field, rule |-> x, forKey |-> v.forKey,
                fieldValue |-> v.fieldValue, ruleValue |-> v.ruleValue]
         /\ [v EXCEPT !.fieldValue = x] = [id |-> v.id, field |-> v.field, rule |-> v.rule,
                forKey |-> v.forKey, fieldValue |-> x, ruleValue |-> v.ruleValue]
         /\ [v EXCEPT !.forKey = x] = [id |-> v.id, field |-> v.field, rule |-> v.rule,
                forKey |-> x, fieldValue |-> v.fieldValue, ruleValue |-> v.ruleValue]
         /\ [v EXCEPT !.ruleValue = x] = [id |-> v.id, field |-> v.field, rule |-> v.rule,
                forKey |-> v.forKey, fieldValue |-> v.fieldValue, ruleValue |-> x]
<1>1. PICK a, b, c, d, e, f :
        v = [id |-> a, field |-> b, rule |-> c, forKey |-> d, fieldValue |-> e, ruleValue |-> f]
  BY DEF IsViolation
<1> QED
  BY <1>1

\* AppendFieldPathElement, of one violation.
LEMMA MovedField ==
  ASSUME NEW v, NEW x, IsViolation(v)
  PROVE  Moved(v, [v EXCEPT !.field = Append(@, x)], <<x>>, <<>>, FALSE)
<1>1. Sequence(v.field) /\ Sequence(v.rule)
  BY DEF IsViolation
<1>2. IsJoined(Append(v.field, x), v.field, <<x>>)
  BY <1>1, AppendIs
<1>3. Sequence(v.field \o <<x>>)
  BY <1>1, OneSequence, Joined
<1>4. PICK y : y = Append(v.field, x)
  OBVIOUS
<1>5. PICK w : w = [v EXCEPT !.field = y]
  OBVIOUS
<1>6. w = [id |-> v.id, field |-> y, rule |-> v.rule, forKey |-> v.forKey,
           fieldValue |-> v.fieldValue, ruleValue |-> v.ruleValue]
  BY <1>5, ViolationWith
<1>7. /\ w.id = v.id /\ w.field = y /\ w.rule = v.rule /\ w.forKey = v.forKey
      /\ w.ruleValue = v.ruleValue /\ w.fieldValue = v.fieldValue
  BY <1>6
<1>8. IsViolation(w)
  BY <1>1, <1>2, <1>3, <1>4, <1>6, <1>7 DEF IsViolation, IsJoined
<1>9. w.field = v.field \o Reverse(<<x>>) /\ w.rule = v.rule \o Reverse(<<>>)
  BY <1>1, <1>2, <1>4, <1>7, OneSequence, JoinedEmpty DEF IsJoined
<1>10. w.forKey = Keyed(FALSE, v.forKey)
  BY <1>7 DEF Keyed
<1>11. Moved(v, w, <<x>>, <<>>, FALSE)
  BY <1>7, <1>8, <1>9, <1>10 DEF Moved
<1> QED
  BY <1>4, <1>5, <1>11

\* AppendRulePathElement, of one violation.
LEMMA MovedRule ==
  ASSUME NEW v, NEW R, IsViolation(v), Sequence(R)
  PROVE  Moved(v, [v EXCEPT !.rule = @ \o Reverse(R)], <<>>, R, FALSE)
<1>1. Sequence(v.field) /\ Sequence(v.rule) /\ Sequence(Reverse(R))
  BY ReverseIs DEF IsViolation
<1>4. PICK y : y = v.rule \o Reverse(R)
  OBVIOUS
<1>3. Sequence(y)
  BY <1>1, <1>4, Joined
<1>5. PICK w : w = [v EXCEPT !.rule = y]
  OBVIOUS
<1>6. w = [id |-> v.id, field |-> v.field, rule |-> y, forKey |-> v.forKey,
           fieldValue |-> v.fieldValue, ruleValue |-> v.ruleValue]
  BY <1>5, ViolationWith
<1>7. /\ w.id = v.id /\ w.field = v.field /\ w.rule = y /\ w.forKey = v.forKey
      /\ w.ruleValue = v.ruleValue /\ w.fieldValue = v.fieldValue
  BY <1>6
<1>8. IsViolation(w)
  BY <1>1, <1>3, <1>6, <1>7 DEF IsViolation
<1>9. w.field = v.field \o Reverse(<<>>) /\ w.rule = v.rule \o Reverse(R)
  BY <1>1, <1>4, <1>7, OneSequence, JoinedEmpty
<1>10. w.forKey = Keyed(FALSE, v.forKey)
  BY <1>7 DEF Keyed
<1>11. Moved(v, w, <<>>, R, FALSE)
  BY <1>7, <1>8, <1>9, <1>10 DEF Moved
<1> QED
  BY <1>4, <1>5, <1>11

\* SetFieldValue, of one violation.
LEMMA MovedValue ==
  ASSUME NEW v, NEW x, IsViolation(v)
  PROVE  Moved(v, [v EXCEPT !.fieldValue = x], <<>>, <<>>, FALSE)
<1>1. Sequence(v.field) /\ Sequence(v.rule)
  BY DEF IsViolation
<1>5. PICK w : w = [v EXCEPT !.fieldValue = x]
  OBVIOUS
<1>6. w = [id |-> v.id, field |-> v.field, rule |-> v.rule, forKey |-> v.forKey,
           fieldValue |-> x, ruleValue |-> v.ruleValue]
  BY <1>5, ViolationWith
<1>7. /\ w.id = v.id /\ w.field = v.field /\ w.rule = v.rule /\ w.forKey = v.forKey
      /\ w.ruleValue = v.ruleValue /\ w.fieldValue = x
  BY <1>6
<1>8. IsViolation(w)
  BY <1>1, <1>6, <1>7 DEF IsViolation
<1>9. w.field = v.field \o Reverse(<<>>) /\ w.rule = v.rule \o Reverse(<<>>)
  BY <1>1, <1>7, OneSequence, JoinedEmpty
<1>10. w.forKey = Keyed(FALSE, v.forKey)
  BY <1>7 DEF Keyed
<1>11. Moved(v, w, <<>>, <<>>, FALSE)
  BY <1>7, <1>8, <1>9, <1>10 DEF Moved
<1> QED
  BY <1>5, <1>11

\* SetForKey, of one violation.
LEMMA MovedKey ==
  ASSUME NEW v, IsViolation(v)
  PROVE  Moved(v, [v EXCEPT !.forKey = TRUE], <<>>, <<>>, TRUE)
<1>1. Sequence(v.field) /\ Sequence(v.rule)
  BY DEF IsViolation
<1>5. PICK w : w = [v EXCEPT !.forKey = TRUE]
  OBVIOUS
<1>6. w = [id |-> v.id, field |-> v.field, rule |-> v.rule, forKey |-> TRUE,
           fieldValue |-> v.fieldValue, ruleValue |-> v.ruleValue]
  BY <1>5, ViolationWith
<1>7. /\ w.id = v.id /\ w.field = v.field /\ w.rule = v.rule /\ w.forKey = TRUE
      /\ w.ruleValue = v.ruleValue /\ w.fieldValue = v.fieldValue
  BY <1>6
<1>8. IsViolation(w)
  BY <1>1, <1>6, <1>7 DEF IsViolation
<1>9. w.field = v.field \o Reverse(<<>>) /\ w.rule = v.rule \o Reverse(<<>>)
  BY <1>1, <1>7, OneSequence, JoinedEmpty
<1>10. w.forKey = Keyed(TRUE, v.forKey)
  BY <1>7 DEF Keyed
<1>11. Moved(v, w, <<>>, <<>>, TRUE)
  BY <1>7, <1>8, <1>9, <1>10 DEF Moved
<1> QED
  BY <1>5, <1>11

\* A function on 1..k, and what it does to the elements of vs after pos.
OfLength(u, k) == u = [i \in 1..k |-> u[i]]
MovedParts(vs, u, pos, k, F, R, key) ==
  \A i \in 1..k : Moved(vs[pos + i], u[i], F, R, key)

\* The violations after the first pos, as From makes them.
LEMMA TailMoves ==
  ASSUME NEW vs, NEW ws, NEW pos, NEW k, NEW u, NEW F, NEW R, NEW key, Sequence(vs), pos \in 0..Len(vs),
         k = Len(vs) - pos, OfLength(u, k), MovedParts(vs, u, pos, k, F, R, key),
         IsJoined(ws, SubSeq(vs, 1, pos), u)
  PROVE  MovesAll(vs, ws, pos, F, R, key)
<1> USE DEF OfLength, MovedParts, IsJoined
<1>1. u \in [1..(Len(vs) - pos) -> {u[i] : i \in 1..k}]
  OBVIOUS
<1>2. ws = SubSeq(vs, 1, pos) \o u
  OBVIOUS
<1>3. Updated(vs, ws, pos) /\ UpdatedPart(ws, Len(vs), pos, u)
  BY <1>1, <1>2, TailUpdated
<1>4. ASSUME NEW i \in (pos + 1)..Len(vs) PROVE Moved(vs[i], ws[i], F, R, key)
  <2>1. Len(vs) \in Nat
    BY SequenceLen
  <2>2. PICK j \in 1..k : j = i - pos
    BY <2>1
  <2>3. ws[i] = u[j]
    BY <1>3, <2>2 DEF UpdatedPart
  <2>4. pos + j = i
    BY <2>1, <2>2
  <2> QED
    BY <2>3, <2>4
<1> QED
  BY <1>3, <1>4 DEF MovesAll

\* The violations from a place on, counted from there.
LEMMA ViolationAfter ==
  ASSUME NEW vs, NEW pos, NEW k, Sequence(vs), pos \in 0..Len(vs), k = Len(vs) - pos,
         AllViolations(vs, pos)
  PROVE  k \in Nat /\ \A i \in 1..k : IsViolation(vs[pos + i])
<1>1. Len(vs) \in Nat
  BY SequenceLen
<1>2. \A i \in 1..k : pos + i \in (pos + 1)..Len(vs)
  BY <1>1
<1> QED
  BY <1>1, <1>2 DEF AllViolations

\* AppendFieldPathElement moves the violations after pos.
LEMMA FieldMoves ==
  ASSUME NEW vs, NEW pos, NEW x, Sequence(vs), pos \in 0..Len(vs), AllViolations(vs, pos)
  PROVE  MovesAll(vs, AppendFieldPathElement(vs, x, pos), pos, <<x>>, <<>>, FALSE)
<1>1. PICK k : k = Len(vs) - pos
  OBVIOUS
<1>2. \A i \in 1..k : IsViolation(vs[pos + i])
  BY <1>1, ViolationAfter
<1>3. PICK u : u = [i \in 1..k |-> [vs[pos + i] EXCEPT !.field = Append(@, x)]]
  OBVIOUS
<1>4. OfLength(u, k)
  BY <1>3 DEF OfLength
<1>5. MovedParts(vs, u, pos, k, <<x>>, <<>>, FALSE)
  BY <1>2, <1>3, MovedField DEF MovedParts
<1>6. PICK ws : ws = AppendFieldPathElement(vs, x, pos)
  OBVIOUS
<1>7. IsJoined(ws, SubSeq(vs, 1, pos), u)
  BY <1>1, <1>3, <1>6 DEF IsJoined, AppendFieldPathElement, From
<1>8. MovesAll(vs, ws, pos, <<x>>, <<>>, FALSE)
  BY <1>1, <1>4, <1>5, <1>7, TailMoves
<1> QED
  BY <1>6, <1>8

\* AppendRulePathElement does too.
LEMMA RuleMoves ==
  ASSUME NEW vs, NEW pos, NEW R, Sequence(vs), pos \in 0..Len(vs), AllViolations(vs, pos),
         Sequence(R)
  PROVE  MovesAll(vs, AppendRulePathElement(vs, Reverse(R), pos), pos, <<>>, R, FALSE)
<1>1. PICK k : k = Len(vs) - pos
  OBVIOUS
<1>2. \A i \in 1..k : IsViolation(vs[pos + i])
  BY <1>1, ViolationAfter
<1>3. PICK u : u = [i \in 1..k |-> [vs[pos + i] EXCEPT !.rule = @ \o Reverse(R)]]
  OBVIOUS
<1>4. OfLength(u, k)
  BY <1>3 DEF OfLength
<1>5. MovedParts(vs, u, pos, k, <<>>, R, FALSE)
  BY <1>2, <1>3, MovedRule DEF MovedParts
<1>6. PICK ws : ws = AppendRulePathElement(vs, Reverse(R), pos)
  OBVIOUS
<1>7. IsJoined(ws, SubSeq(vs, 1, pos), u)
  BY <1>1, <1>3, <1>6 DEF IsJoined, AppendRulePathElement, From
<1>8. MovesAll(vs, ws, pos, <<>>, R, FALSE)
  BY <1>1, <1>4, <1>5, <1>7, TailMoves
<1> QED
  BY <1>6, <1>8

\* And SetFieldValue.
LEMMA ValueMoves ==
  ASSUME NEW vs, NEW pos, NEW x, Sequence(vs), pos \in 0..Len(vs), AllViolations(vs, pos)
  PROVE  MovesAll(vs, SetFieldValue(vs, x, pos), pos, <<>>, <<>>, FALSE)
<1>1. PICK k : k = Len(vs) - pos
  OBVIOUS
<1>2. \A i \in 1..k : IsViolation(vs[pos + i])
  BY <1>1, ViolationAfter
<1>3. PICK u : u = [i \in 1..k |-> [vs[pos + i] EXCEPT !.fieldValue = x]]
  OBVIOUS
<1>4. OfLength(u, k)
  BY <1>3 DEF OfLength
<1>5. MovedParts(vs, u, pos, k, <<>>, <<>>, FALSE)
  BY <1>2, <1>3, MovedValue DEF MovedParts
<1>6. PICK ws : ws = SetFieldValue(vs, x, pos)
  OBVIOUS
<1>7. IsJoined(ws, SubSeq(vs, 1, pos), u)
  BY <1>1, <1>3, <1>6 DEF IsJoined, SetFieldValue, From
<1>8. MovesAll(vs, ws, pos, <<>>, <<>>, FALSE)
  BY <1>1, <1>4, <1>5, <1>7, TailMoves
<1> QED
  BY <1>6, <1>8

\* And SetForKey.
LEMMA KeyMoves ==
  ASSUME NEW vs, NEW pos, Sequence(vs), pos \in 0..Len(vs), AllViolations(vs, pos)
  PROVE  MovesAll(vs, SetForKey(vs, pos), pos, <<>>, <<>>, TRUE)
<1>1. PICK k : k = Len(vs) - pos
  OBVIOUS
<1>2. \A i \in 1..k : IsViolation(vs[pos + i])
  BY <1>1, ViolationAfter
<1>3. PICK u : u = [i \in 1..k |-> [vs[pos + i] EXCEPT !.forKey = TRUE]]
  OBVIOUS
<1>4. OfLength(u, k)
  BY <1>3 DEF OfLength
<1>5. MovedParts(vs, u, pos, k, <<>>, <<>>, TRUE)
  BY <1>2, <1>3, MovedKey DEF MovedParts
<1>6. PICK ws : ws = SetForKey(vs, pos)
  OBVIOUS
<1>7. IsJoined(ws, SubSeq(vs, 1, pos), u)
  BY <1>1, <1>3, <1>6 DEF IsJoined, SetForKey, From
<1>8. MovesAll(vs, ws, pos, <<>>, <<>>, TRUE)
  BY <1>1, <1>4, <1>5, <1>7, TailMoves
<1> QED
  BY <1>6, <1>8

\* Three sequences end to end, the last two first.
LEMMA JoinedAgain ==
  ASSUME NEW a, NEW b, NEW c, NEW d, NEW e, NEW f, Sequence(a), Sequence(b), Sequence(c),
         IsJoined(d, a, b), IsJoined(e, d, c), IsJoined(f, b, c)
  PROVE  IsJoined(e, a, f)
BY JoinedTwice DEF IsJoined

\* Moving twice.
LEMMA MovesTwice ==
  ASSUME NEW us, NEW vs, NEW ws, NEW pos, NEW F, NEW R, NEW key, NEW F2, NEW R2, NEW key2,
         NEW F3, NEW R3, NEW key3, Sequence(us), AllViolations(us, pos),
         Sequence(F), Sequence(R), Sequence(F2), Sequence(R2),
         MovesAll(us, vs, pos, F, R, key), MovesAll(vs, ws, pos, F2, R2, key2),
         IsJoined(F3, F2, F), IsJoined(R3, R2, R), key3 = (key2 \/ key)
  PROVE  MovesAll(us, ws, pos, F3, R3, key3)
<1>1. Updated(us, ws, pos) /\ Len(vs) = Len(us)
  BY DEF MovesAll, Updated
<1>2. ASSUME NEW i \in (pos + 1)..Len(us) PROVE Moved(us[i], ws[i], F3, R3, key3)
  <2>1. PICK u : u = us[i]
    OBVIOUS
  <2>2. PICK v : v = vs[i]
    OBVIOUS
  <2>3. PICK w : w = ws[i]
    OBVIOUS
  <2>4. IsViolation(u) /\ Moved(u, v, F, R, key) /\ Moved(v, w, F2, R2, key2)
    BY <1>1, <2>1, <2>2, <2>3 DEF MovesAll, AllViolations
  <2>5. Sequence(u.field) /\ Sequence(u.rule) /\ Sequence(Reverse(F)) /\ Sequence(Reverse(R))
        /\ Sequence(Reverse(F2)) /\ Sequence(Reverse(R2))
    BY <2>4, ReverseIs DEF IsViolation
  <2>8. IsJoined(Reverse(F3), Reverse(F), Reverse(F2)) /\ IsJoined(Reverse(R3), Reverse(R), Reverse(R2))
    BY ReverseJoined DEF IsJoined
  <2>6. w.field = u.field \o Reverse(F3)
    <3>1. IsJoined(v.field, u.field, Reverse(F)) /\ IsJoined(w.field, v.field, Reverse(F2))
      BY <2>4 DEF Moved, IsJoined
    <3>2. IsJoined(w.field, u.field, Reverse(F3))
      BY <2>5, <2>8, <3>1, JoinedAgain
    <3> QED
      BY <3>2 DEF IsJoined
  <2>7. w.rule = u.rule \o Reverse(R3)
    <3>1. IsJoined(v.rule, u.rule, Reverse(R)) /\ IsJoined(w.rule, v.rule, Reverse(R2))
      BY <2>4 DEF Moved, IsJoined
    <3>2. IsJoined(w.rule, u.rule, Reverse(R3))
      BY <2>5, <2>8, <3>1, JoinedAgain
    <3> QED
      BY <3>2 DEF IsJoined
  <2>9. w.forKey = Keyed(key3, u.forKey)
    BY <2>4 DEF Moved, Keyed
  <2>10. Moved(u, w, F3, R3, key3)
    BY <2>4, <2>6, <2>7, <2>9 DEF Moved
  <2> QED
    BY <2>1, <2>3, <2>10
<1> QED
  BY <1>1, <1>2 DEF MovesAll

\* What has been moved are still violations.
LEMMA MovedViolations ==
  ASSUME NEW vs, NEW ws, NEW pos, NEW F, NEW R, NEW key, MovesAll(vs, ws, pos, F, R, key)
  PROVE  AllViolations(ws, pos) /\ Sequence(ws) /\ Len(ws) = Len(vs)
BY DEF MovesAll, AllViolations, Moved, Updated

\* So is what has been found.
LEMMA PickedViolations ==
  ASSUME NEW vs, NEW ws, NEW cs, NEW p, p = Len(vs), Picks(vs, ws, cs)
  PROVE  AllViolations(ws, p)
<1>1. PICK f : f = Fails(cs)
  OBVIOUS
<1>2. PICK at, q, n : PicksAt(vs, ws, f, at, q, n)
  BY <1>1 DEF Picks
<1>3. /\ q = p /\ n \in Nat /\ Len(ws) = p + n /\ Grows(vs, ws)
      /\ \A i \in 1..n : IsViolation(ws[p + i])
  BY <1>2 DEF PicksAt, Shown
<1>4. p \in Nat
  BY <1>3, SequenceLen DEF Grows
<1>5. ASSUME NEW i \in (p + 1)..Len(ws) PROVE IsViolation(ws[i])
  <2>1. i - p \in 1..n /\ p + (i - p) = i
    BY <1>3, <1>4
  <2> QED
    BY <1>3, <2>1
<1> QED
  BY <1>5 DEF AllViolations
-------------------------------------------------------------------------------
(* Loops, and the rules of a field.                                        *)

\* A result with the same violations and status.
LEMMA MakesSame ==
  ASSUME NEW ff, NEW vs, NEW r, NEW q, NEW cs, Makes(ff, vs, r, cs),
         q.vs = r.vs, q.status = r.status
  PROVE  Makes(ff, vs, q, cs)
BY DEF Makes, Adds

\* One turn of a loop: it has ended, or passes over an element without checks, or
\* makes the checks of the element and ends only if the validation does.
LoopTurn(ff, before, after, cs) ==
  \/ before.stop /\ after = before
  \/ cs = <<>> /\ after = before
  \/ /\ ~before.stop
     /\ \E r : /\ Makes(ff, before.vs, r, cs) /\ after.vs = r.vs /\ after.status = r.status
               /\ ~after.stop => r.status = Ok
               /\ after.stop => ShouldReturn(ff, r.vs, r.status)

LoopEnd(a) == Result(a.vs, IF a.stop THEN a.status ELSE Ok)

LoopMade(ff, vs, a, cs) ==
  Makes(ff, vs, LoopEnd(a), cs) /\ (a.stop => ShouldReturn(ff, a.vs, a.status))

\* One more turn of a loop makes the checks of that turn.
LEMMA TurnMakes ==
  ASSUME NEW ff, NEW vs, NEW a, NEW b, NEW cs, NEW d, NEW e, Sequence(d), IsJoined(e, cs, d),
         LoopMade(ff, vs, a, cs), LoopTurn(ff, a, b, d)
  PROVE  LoopMade(ff, vs, b, e)
<1>1. Makes(ff, vs, LoopEnd(a), cs) /\ Sequence(cs)
  BY DEF LoopMade, Makes
<1>2. CASE a.stop /\ b = a
  <2>1. ShouldReturn(ff, LoopEnd(a).vs, LoopEnd(a).status)
    BY <1>2 DEF LoopMade, LoopEnd, Result
  <2>2. Makes(ff, vs, LoopEnd(a), e)
    BY <1>1, <2>1, MakesEnough
  <2> QED
    BY <1>2, <2>2 DEF LoopMade
<1>3. CASE d = <<>> /\ b = a
  <2>1. e = cs
    BY <1>1, <1>3, JoinedEmpty DEF IsJoined
  <2> QED
    BY <1>3, <2>1
<1>4. CASE ~(d = <<>> /\ b = a) /\ ~(a.stop /\ b = a)
  <2>1. PICK r : /\ ~a.stop /\ Makes(ff, a.vs, r, d) /\ b.vs = r.vs /\ b.status = r.status
                 /\ ~b.stop => r.status = Ok
                 /\ b.stop => ShouldReturn(ff, r.vs, r.status)
    BY <1>4 DEF LoopTurn
  <2>2. PICK p : p = LoopEnd(a)
    OBVIOUS
  <2>3. p.vs = a.vs /\ p.status = Ok
    BY <2>1, <2>2 DEF LoopEnd, Result
  <2>4. Makes(ff, vs, p, cs) /\ Makes(ff, p.vs, r, d)
    BY <1>1, <2>1, <2>2, <2>3
  <2>5. Makes(ff, vs, r, e)
    BY <2>3, <2>4, MakesThen
  <2>6. LoopEnd(b).vs = r.vs /\ LoopEnd(b).status = r.status
    BY <2>1 DEF LoopEnd, Result
  <2>7. Makes(ff, vs, LoopEnd(b), e)
    BY <2>5, <2>6, MakesSame
  <2> QED
    BY <2>1, <2>7 DEF LoopMade
<1> QED
  BY <1>2, <1>3, <1>4

\* A loop makes the checks of all its turns, up to the one that ends it.
LEMMA LoopMakes ==
  ASSUME NEW ff, NEW vs, NEW f, NEW c, NEW N \in Nat, Sequence(vs), f[0] = Started(vs),
         AllSequences(c, N),
         \A n \in 1..N : Sequence(f[n - 1].vs) => LoopTurn(ff, f[n - 1], f[n], c[n])
  PROVE  Makes(ff, vs, LoopEnd(f[N]), Flat(c, N))
<1> DEFINE T == {n \in Nat : n <= N => LoopMade(ff, vs, f[n], Flat(c, n))}
<1>0. /\ Flat(c, 0) = <<>>
      /\ \A n \in 0..N : n < N => Flat(c, n + 1) = Flat(c, n) \o c[n + 1]
  <2>1. \A i \in 1..N : Sequence(c[i])
    BY DEF AllSequences
  <2> QED
    BY <2>1, FlatGrows
<1>1. 0 \in T
  <2>1. LoopEnd(f[0]) = Result(vs, Ok) /\ ~f[0].stop
    BY DEF Started, LoopEnd
  <2>2. Makes(ff, vs, LoopEnd(f[0]), <<>>)
    BY <2>1, MakesNothing
  <2> QED
    BY <1>0, <2>1, <2>2 DEF LoopMade
<1>2. ASSUME NEW n \in Nat, n \in T PROVE n + 1 \in T
  <2> SUFFICES ASSUME n + 1 <= N PROVE LoopMade(ff, vs, f[n + 1], Flat(c, n + 1))
    OBVIOUS
  <2>1. PICK m \in 1..N : m = n + 1
    OBVIOUS
  <2>2. PICK cs : cs = Flat(c, n)
    OBVIOUS
  <2>3. PICK e : e = Flat(c, m)
    OBVIOUS
  <2>4. IsJoined(e, cs, c[m]) /\ Sequence(c[m])
    <3>1. Flat(c, n + 1) = Flat(c, n) \o c[n + 1]
      BY <1>0
    <3>2. e = cs \o c[m]
      BY <2>1, <2>2, <2>3, <3>1
    <3> QED
      BY <3>2 DEF IsJoined, AllSequences
  <2>5. LoopMade(ff, vs, f[n], cs)
    BY <1>2, <2>2
  <2>6. Sequence(f[n].vs)
    BY <2>5 DEF LoopMade, Makes, Adds, Grows, LoopEnd, Result
  <2>7. LoopTurn(ff, f[n], f[m], c[m])
    <3>1. m - 1 = n
      BY <2>1
    <3> QED
      BY <2>6, <3>1
  <2>8. LoopMade(ff, vs, f[m], e)
    BY <2>4, <2>5, <2>7, TurnMakes
  <2> QED
    BY <2>1, <2>3, <2>8
<1> HIDE DEF T
<1>3. Nat \subseteq T
  BY <1>1, <1>2, Induction
<1>4. N \in T /\ N <= N
  BY <1>3
<1> QED
  BY <1>4 DEF T, LoopMade

\* FlattenSeq of sequences of one element each.
LEMMA FlatOnes ==
  ASSUME NEW c, NEW s, NEW N \in Nat, Sequence(s), Len(s) = N, \A i \in 1..N : c[i] = <<s[i]>>
  PROVE  Flat(c, N) = s
<1> DEFINE T == {n \in Nat : n <= N => /\ Sequence(Flat(c, n)) /\ Len(Flat(c, n)) = n
                                         /\ \A i \in 1..n : Flat(c, n)[i] = s[i]}
<1>0. /\ Flat(c, 0) = <<>>
      /\ \A n \in 0..N : n < N => Flat(c, n + 1) = Flat(c, n) \o c[n + 1]
  <2>1. \A i \in 1..N : Sequence(c[i])
    BY OneSequence
  <2> QED
    BY <2>1, FlatGrows
<1>1. 0 \in T
  <2>1. PICK e : e = <<>>
    OBVIOUS
  <2>2. Sequence(e) /\ Len(e) = 0
    BY <2>1, OneSequence
  <2>3. Flat(c, 0) = e
    BY <1>0, <2>1
  <2> QED
    BY <2>2, <2>3
<1>2. ASSUME NEW n \in Nat, n \in T PROVE n + 1 \in T
  <2> SUFFICES ASSUME n + 1 <= N
               PROVE  /\ Sequence(Flat(c, n + 1)) /\ Len(Flat(c, n + 1)) = n + 1
                      /\ \A i \in 1..(n + 1) : Flat(c, n + 1)[i] = s[i]
    OBVIOUS
  <2>1. PICK a : a = Flat(c, n)
    OBVIOUS
  <2>2. Sequence(a) /\ Len(a) = n /\ \A i \in 1..n : a[i] = s[i]
    BY <1>2, <2>1
  <2>3. PICK m \in 1..N : m = n + 1
    OBVIOUS
  <2>4. PICK b : b = c[m]
    OBVIOUS
  <2>5. Sequence(b) /\ Len(b) = 1 /\ b[1] = s[m]
    BY <2>4, OneSequence
  <2>6. PICK d : d = Flat(c, n + 1)
    OBVIOUS
  <2>7. IsJoined(d, a, b)
    <3>1. d = Flat(c, n) \o c[n + 1]
      BY <1>0, <2>6
    <3> QED
      BY <2>1, <2>3, <2>4, <3>1 DEF IsJoined
  <2>8. /\ Sequence(d) /\ Len(d) = n + 1
        /\ \A i \in 1..n : d[i] = a[i]
        /\ \A i \in 1..1 : d[n + i] = b[i]
    <3>1. PICK k \in Nat : k = 1
      OBVIOUS
    <3>2. Len(b) = k
      BY <2>5, <3>1
    <3>3. /\ Sequence(d) /\ Len(d) = n + k
          /\ \A i \in 1..n : d[i] = a[i]
          /\ \A i \in 1..k : d[n + i] = b[i]
      <4>1. Sequence(a) /\ Sequence(b) /\ Len(a) = n
        BY <2>2, <2>5
      <4> QED
        BY <2>7, <3>2, <4>1, JoinedParts
    <3> QED
      BY <3>1, <3>3
  <2>9. \A i \in 1..(n + 1) : d[i] = s[i]
    BY <2>2, <2>3, <2>5, <2>8
  <2> QED
    BY <2>6, <2>8, <2>9
<1> HIDE DEF T
<1>3. Nat \subseteq T
  BY <1>1, <1>2, Induction
<1>4. PICK a : a = Flat(c, N)
  OBVIOUS
<1>5. N \in T
  BY <1>3
<1>6. Sequence(a) /\ Len(a) = N /\ \A i \in 1..N : a[i] = s[i]
  BY <1>4, <1>5 DEF T
<1>7. a = s
  BY <1>6, SameSequence
<1> QED
  BY <1>4, <1>7
-------------------------------------------------------------------------------
(* CelValidationRules.                                                     *)

\* A single violation found.
LEMMA FindsLast ==
  ASSUME NEW vs, NEW ws, NEW c, NEW p, p = Len(vs), Grows(vs, ws), Len(ws) = p + 1,
         c.outcome = "fail", Shown(ws[p + 1], c)
  PROVE  Finds(vs, ws, <<c>>)
<1>1. PICK w : w = AsViolation(c)
  OBVIOUS
<1>2. Fails(<<c>>) = <<w>> /\ Len(<<w>>) = 1 /\ <<w>>[1] = w
  BY <1>1, FailsOfOne, OneSequence DEF FailOf
<1>3. p \in Nat
  BY SequenceLen DEF Grows
<1>4. Shown(ws[p + 1], w)
  BY <1>1, ShownCheck
<1>5. PICK f : f = Fails(<<c>>)
  OBVIOUS
<1>6. Len(f) = 1 /\ f[1] = w
  BY <1>2, <1>5
<1>7. PICK k \in Nat : k = 1
  OBVIOUS
<1>8. Len(f) = k /\ Len(ws) = p + k /\ \A i \in 1..k : Shown(ws[p + i], f[i])
  BY <1>4, <1>6, <1>7
<1> QED
  BY <1>3, <1>5, <1>8, FindsIs

\* Code that makes one check.
LEMMA MakesCheck ==
  ASSUME NEW ff, NEW vs, NEW r, NEW c, Adds(vs, r), r.status # Ok => Erred(c) /\ c.outcome = r.status,
         r.status = Ok => ~Erred(c) /\ Finds(vs, r.vs, <<c>>)
  PROVE  Makes(ff, vs, r, <<c>>)
<1>1. PICK cs : cs = <<c>>
  OBVIOUS
<1>2. Sequence(cs) /\ Len(cs) = 1 /\ cs[1] = c
  BY <1>1, OneSequence
<1>3. /\ Erred(c) => Reports(ff, cs, c.outcome)
      /\ NoErrors(cs) <=> ~Erred(c)
  BY <1>2 DEF Reports, HasStatus, IsFirst, NoErrors
<1>4. ~ShouldReturn(ff, r.vs, r.status) => r.status = Ok
  BY DEF ShouldReturn
<1>6. r.status = Ok => Picks(vs, r.vs, cs)
  BY <1>1, <1>2, FindsPicks
<1>5. Makes(ff, vs, r, cs)
  BY <1>1, <1>2, <1>3, <1>4, <1>6 DEF Makes
<1> QED
  BY <1>1, <1>5

\* The check that an expression is, where it is evaluated.
CelCheck(expr) ==
  Check(expr.id, <<>>, Reverse(expr.path), FALSE, NoValue, expr.field,
        IF expr.outcome = "error" THEN Invalid ELSE expr.outcome)

\* The parts of the check of an expression.
LEMMA CelCheckIs ==
  ASSUME NEW expr, expr.outcome \in Outcomes
  PROVE  /\ CelCheck(expr).id = expr.id /\ CelCheck(expr).field = <<>>
         /\ CelCheck(expr).rule = Reverse(expr.path) /\ CelCheck(expr).forKey = FALSE
         /\ CelCheck(expr).ruleValue = expr.field
         /\ Erred(CelCheck(expr)) <=> expr.outcome \notin {"pass", "fail"}
         /\ expr.outcome = "error" => CelCheck(expr).outcome = Invalid
         /\ expr.outcome # "error" => CelCheck(expr).outcome = expr.outcome
         /\ CelCheck(expr).outcome = "fail" <=> expr.outcome = "fail"
<1>1. PICK o : o = IF expr.outcome = "error" THEN Invalid ELSE expr.outcome
  OBVIOUS
<1>2. CelCheck(expr) = [id |-> expr.id, field |-> <<>>, rule |-> Reverse(expr.path), forKey |-> FALSE,
                        fieldValue |-> NoValue, ruleValue |-> expr.field, outcome |-> o]
  BY <1>1 DEF CelCheck, Check
<1>3. CelCheck(expr).outcome = o
  BY <1>2
<1>4. /\ o \notin {"pass", "fail"} <=> expr.outcome \notin {"pass", "fail"}
      /\ o = "fail" <=> expr.outcome = "fail"
  <2>1. CASE expr.outcome = "error"
    BY <1>1, <2>1 DEF Invalid
  <2>2. CASE expr.outcome # "error"
    BY <1>1, <2>2
  <2> QED
    BY <2>1, <2>2
<1> QED
  BY <1>1, <1>2, <1>3, <1>4 DEF Erred

\* The last violation, with the rule value of its expression.
LEMMA RuleValueOfLast ==
  ASSUME NEW vs, NEW v, NEW x, NEW p, NEW ws, Sequence(vs), p = Len(vs),
         ws = SetRuleValue(Append(vs, v), x, p)
  PROVE  Grows(vs, ws) /\ Len(ws) = p + 1 /\ ws[p + 1] = [v EXCEPT !.ruleValue = x]
<1>1. p \in Nat
  BY SequenceLen
<1>2. PICK us : us = Append(vs, v)
  OBVIOUS
<1>3. Grows(vs, us) /\ Len(us) = p + 1 /\ Sequence(us)
  BY <1>2, AppendGrows DEF Grows
<1>4. us[p + 1] = v
  <2>1. PICK S : vs \in Seq(S)
    BY DEF Sequence
  <2>2. vs \in Seq(S \cup {v})
    BY <2>1
  <2> QED
    BY <1>2, <2>2
<1>5. PICK u : u = [i \in 1..(Len(us) - p) |-> [us[p + i] EXCEPT !.ruleValue = x]]
  OBVIOUS
<1>6. ws = SubSeq(us, 1, p) \o u
  BY <1>2, <1>5 DEF SetRuleValue, From
<1>7. u \in [1..(Len(us) - p) -> {u[i] : i \in 1..(Len(us) - p)}]
  BY <1>5
<1>8. p \in 0..Len(us)
  BY <1>1, <1>3
<1>9. Updated(us, ws, p) /\ UpdatedPart(ws, Len(us), p, u)
  BY <1>3, <1>6, <1>7, <1>8, TailUpdated
<1>10. Grows(vs, ws)
  BY <1>1, <1>3, <1>9, UpdatedGrows
<1>11. Len(us) - p = 1 /\ p + 1 \in (p + 1)..Len(us) /\ (p + 1) - p = 1
  BY <1>1, <1>3
<1>12. ws[p + 1] = u[1]
  BY <1>9, <1>11 DEF UpdatedPart
<1>13. u[1] = [v EXCEPT !.ruleValue = x]
  BY <1>4, <1>5, <1>11
<1> QED
  BY <1>3, <1>9, <1>10, <1>12, <1>13 DEF Updated

\* SetRuleValue from the end on changes nothing.
LEMMA NoneSet ==
  ASSUME NEW vs, NEW x, Sequence(vs)
  PROVE  SetRuleValue(vs, x, Len(vs)) = vs
<1>1. PICK p \in Nat : p = Len(vs)
  BY SequenceLen
<1>2. PICK ws : ws = SetRuleValue(vs, x, p)
  OBVIOUS
<1>3. p \in 0..Len(vs)
  BY <1>1
<1>4. Updated(vs, ws, p)
  BY <1>2, <1>3, RuleContextUpdates
<1>5. ws = vs
  BY <1>1, <1>4, SameSequence DEF Updated
<1> QED
  BY <1>1, <1>2, <1>5

\* A violation just found.
IsNew(v, id, field, rule, value, x) == v = Violation(id, field, rule, value, x)

Parts(v, id, field, rule, value, x) ==
  /\ v.id = id /\ v.field = field /\ v.rule = rule /\ v.forKey = FALSE
  /\ v.fieldValue = value /\ v.ruleValue = x

\* The parts of a new violation.
LEMMA ViolationIs ==
  ASSUME NEW id, NEW field, NEW rule, NEW value, NEW x, NEW v, Sequence(field), Sequence(rule),
         IsNew(v, id, field, rule, value, x)
  PROVE  IsViolation(v) /\ Parts(v, id, field, rule, value, x)
<1>1. v = [id |-> id, field |-> field, rule |-> rule, forKey |-> FALSE,
           fieldValue |-> value, ruleValue |-> x]
  BY DEF Violation, IsNew
<1>2. /\ v.id = id /\ v.field = field /\ v.rule = rule /\ v.forKey = FALSE
      /\ v.fieldValue = value /\ v.ruleValue = x
  BY <1>1
<1> QED
  BY <1>1, <1>2 DEF IsViolation, Parts

\* Evaluating an expression makes its check.
LEMMA EvaluateMakes ==
  ASSUME NEW ff, NEW vs, NEW expr, Sequence(vs), expr.outcome \in Outcomes, Sequence(expr.path)
  PROVE  Makes(ff, vs, Evaluate(vs, expr), <<CelCheck(expr)>>)
<1>1. PICK r : r = Evaluate(vs, expr)
  OBVIOUS
<1>2. PICK c : c = CelCheck(expr)
  OBVIOUS
<1>3. /\ c.id = expr.id /\ c.field = <<>> /\ c.rule = Reverse(expr.path) /\ c.forKey = FALSE
      /\ c.ruleValue = expr.field
      /\ Erred(c) <=> expr.outcome \notin {"pass", "fail"}
      /\ expr.outcome = "error" => c.outcome = Invalid
      /\ expr.outcome # "error" => c.outcome = expr.outcome
      /\ c.outcome = "fail" <=> expr.outcome = "fail"
  BY <1>2, CelCheckIs
<1>4. Adds(vs, r)
  BY <1>1, EvaluateAdds
<1>5. PICK q : q = ProcessRule(vs, expr)
  OBVIOUS
<1>6. r = IF expr.field = NoField THEN q
          ELSE Result(SetRuleValue(q.vs, expr.field, Len(vs)), q.status)
  BY <1>1, <1>5 DEF Evaluate
<1>7. r.status = q.status
  BY <1>6 DEF Result
<1>8. CASE expr.outcome = "pass"
  <2>1. q = Result(vs, Ok)
    BY <1>5, <1>8 DEF ProcessRule
  <2>2. q.vs = vs /\ q.status = Ok
    BY <2>1 DEF Result
  <2>3. r.vs = vs
    BY <1>6, <2>2, NoneSet DEF Result
  <2>4. c.outcome # "fail" /\ ~Erred(c)
    BY <1>3, <1>8
  <2>5. Finds(vs, r.vs, <<c>>)
    BY <2>3, <2>4, FindsNotOne
  <2> QED
    BY <1>1, <1>2, <1>4, <1>7, <2>2, <2>4, <2>5, MakesCheck
<1>9. CASE expr.outcome = "error"
  <2>1. q = Result(vs, Invalid)
    BY <1>5, <1>9 DEF ProcessRule
  <2>2. r.status = Invalid /\ Invalid # Ok
    BY <1>7, <2>1 DEF Result, Invalid, Ok
  <2> QED
    BY <1>1, <1>2, <1>3, <1>4, <1>9, <2>2, MakesCheck
<1>10. CASE expr.outcome \notin {"pass", "fail", "error"}
  <2>1. q = Result(vs, expr.outcome)
    BY <1>5, <1>10 DEF ProcessRule
  <2>2. r.status = expr.outcome /\ r.status # Ok
    BY <1>7, <1>10, <2>1 DEF Result, Outcomes
  <2> QED
    BY <1>1, <1>2, <1>3, <1>4, <1>10, <2>2, MakesCheck
<1>11. CASE expr.outcome = "fail"
  <2>1. PICK v : v = Violation(expr.id, <<>>, expr.path, NoValue, NoField)
    OBVIOUS
  <2>2. q = Result(Append(vs, v), Ok)
    BY <1>5, <1>11, <2>1 DEF ProcessRule
  <2>3. q.vs = Append(vs, v) /\ q.status = Ok
    BY <2>2 DEF Result
  <2>4. /\ IsViolation(v) /\ v.id = expr.id /\ v.field = <<>> /\ v.rule = expr.path
        /\ v.forKey = FALSE /\ v.ruleValue = NoField
    <3>1. PICK e : e = <<>>
      OBVIOUS
    <3>2. PICK nv, nf, id, path : nv = NoValue /\ nf = NoField /\ id = expr.id /\ path = expr.path
      OBVIOUS
    <3>3. Sequence(e) /\ Sequence(path)
      BY <3>1, <3>2, OneSequence
    <3>4. IsNew(v, id, e, path, nv, nf)
      BY <2>1, <3>1, <3>2 DEF IsNew
    <3>5. IsViolation(v) /\ Parts(v, id, e, path, nv, nf)
      BY <3>3, <3>4, ViolationIs
    <3> QED
      BY <3>1, <3>2, <3>5 DEF Parts
  <2>5. PICK p : p = Len(vs)
    OBVIOUS
  <2>6. PICK ws : ws = r.vs
    OBVIOUS
  <2>7. PICK w : w = ws[p + 1]
    OBVIOUS
  <2>8. Sequence(<<>>) /\ Reverse(<<>>) = <<>> /\ Sequence(Reverse(expr.path))
        /\ Reverse(Reverse(expr.path)) = expr.path
    BY OneSequence, ReverseIs, ReverseTwice
  <2>9. Grows(vs, ws) /\ Len(ws) = p + 1 /\ Shown(w, c)
    <3>1. CASE expr.field = NoField
      <4>1. ws = Append(vs, v)
        BY <1>6, <2>3, <2>6, <3>1
      <4>2. Grows(vs, ws) /\ Len(ws) = p + 1
        BY <2>5, <4>1, AppendGrows
      <4>3. w = v
        <5>1. PICK S : vs \in Seq(S)
          BY DEF Sequence
        <5>2. vs \in Seq(S \cup {v})
          BY <5>1
        <5> QED
          BY <2>5, <2>7, <4>1, <5>2
      <4>4. Shown(w, c)
        BY <1>3, <2>4, <2>8, <3>1, <4>3 DEF Shown
      <4> QED
        BY <4>2, <4>4
    <3>2. CASE expr.field # NoField
      <4>1. ws = SetRuleValue(Append(vs, v), expr.field, p)
        BY <1>6, <2>3, <2>5, <2>6, <3>2 DEF Result
      <4>2. Grows(vs, ws) /\ Len(ws) = p + 1 /\ w = [v EXCEPT !.ruleValue = expr.field]
        BY <2>5, <2>7, <4>1, RuleValueOfLast
      <4>3. w = [id |-> v.id, field |-> v.field, rule |-> v.rule, forKey |-> v.forKey,
                 fieldValue |-> v.fieldValue, ruleValue |-> expr.field]
        BY <2>4, <4>2, ViolationWith
      <4>4. /\ w.id = v.id /\ w.field = v.field /\ w.rule = v.rule /\ w.forKey = v.forKey
            /\ w.fieldValue = v.fieldValue /\ w.ruleValue = expr.field
        BY <4>3
      <4>5. IsViolation(w)
        BY <2>4, <4>3, <4>4 DEF IsViolation
      <4>6. Shown(w, c)
        BY <1>3, <2>4, <2>8, <4>4, <4>5 DEF Shown
      <4> QED
        BY <4>2, <4>6
    <3> QED
      BY <3>1, <3>2
  <2>10. Finds(vs, ws, <<c>>)
    BY <1>3, <1>11, <2>5, <2>7, <2>9, FindsLast
  <2>11. ~Erred(c)
    BY <1>3, <1>11
  <2> QED
    BY <1>1, <1>2, <1>4, <1>7, <2>3, <2>6, <2>10, <2>11, MakesCheck
<1> QED
  BY <1>8, <1>9, <1>11, <1>10

\* Expressions whose rule paths are sequences.
WithPaths(exprs) == \A i \in 1..Len(exprs) : Sequence(exprs[i].path)

\* The checks of some expressions, where they are evaluated.
CelHere(exprs) == CelChecks(exprs, <<>>, <<>>, FALSE, NoValue)

\* The checks of the expressions of a rule object, without their place.
LEMMA CelHereIs ==
  ASSUME NEW exprs, WellFormedExprs(exprs), WithPaths(exprs)
  PROVE  /\ Sequence(CelHere(exprs)) /\ Len(CelHere(exprs)) = Len(exprs)
         /\ \A i \in 1..Len(exprs) : CelHere(exprs)[i] = CelCheck(exprs[i])
<1>1. PICK n \in Nat : n = Len(exprs)
  BY SequenceLen DEF WellFormedExprs
<1>2. PICK s : s = CelHere(exprs)
  OBVIOUS
<1>3. \A i \in 1..n : <<>> \o Reverse(exprs[i].path) = Reverse(exprs[i].path)
  BY <1>1, ReverseIs, JoinedEmpty DEF WithPaths
<1>4. s = [i \in 1..n |->
             Check(exprs[i].id, <<>>, <<>> \o Reverse(exprs[i].path), FALSE, NoValue,
                   exprs[i].field,
                   IF exprs[i].outcome = "error" THEN Invalid ELSE exprs[i].outcome)]
  BY <1>1, <1>2 DEF CelHere, CelChecks
<1>5. \A i \in 1..n : s[i] = CelCheck(exprs[i])
  BY <1>3, <1>4 DEF CelCheck
<1>6. s \in [1..n -> {s[i] : i \in 1..n}]
  BY <1>4
<1>7. Sequence(s) /\ Len(s) = n
  BY <1>6, SequenceIs
<1> QED
  BY <1>1, <1>2, <1>5, <1>7

\* A turn of the loop over expressions.
LEMMA CelTurn ==
  ASSUME NEW ff, NEW acc, NEW expr, Sequence(acc.vs), expr.outcome \in Outcomes,
         Sequence(expr.path)
  PROVE  LoopTurn(ff, acc, CelStep(ff, acc, expr), <<CelCheck(expr)>>)
<1>1. PICK r : r = Evaluate(acc.vs, expr)
  OBVIOUS
<1>2. Makes(ff, acc.vs, r, <<CelCheck(expr)>>)
  BY <1>1, EvaluateMakes
<1>3. PICK next : next = CelStep(ff, acc, expr)
  OBVIOUS
<1>4. CASE acc.stop
  BY <1>4 DEF CelStep, LoopTurn
<1>5. CASE ~acc.stop
  <2>1. next = [vs |-> r.vs, status |-> r.status, stop |-> ShouldReturn(ff, r.vs, r.status)]
    BY <1>1, <1>3, <1>5 DEF CelStep
  <2>2. /\ next.vs = r.vs /\ next.status = r.status
        /\ next.stop <=> ShouldReturn(ff, r.vs, r.status)
    BY <2>1
  <2>3. ~next.stop => r.status = Ok
    BY <2>2 DEF ShouldReturn
  <2> QED
    BY <1>2, <1>3, <1>5, <2>2, <2>3 DEF LoopTurn
<1> QED
  BY <1>4, <1>5

\* ValidateCel makes the checks of the expressions, up to the one that ends it.
LEMMA ValidateCelMakes ==
  ASSUME NEW ff, NEW vs, NEW exprs, Sequence(vs), WellFormedExprs(exprs), WithPaths(exprs)
  PROVE  Makes(ff, vs, ValidateCel(ff, vs, exprs), CelHere(exprs))
<1>1. PICK N \in Nat : N = Len(exprs)
  BY SequenceLen DEF WellFormedExprs
<1>2. PICK f : f = CHOOSE h : CelRuns(ff, vs, exprs, h, Len(exprs))
  OBVIOUS
<1>3. ValidateCel(ff, vs, exprs)
        = Result(f[Len(exprs)].vs, IF f[Len(exprs)].stop THEN f[Len(exprs)].status ELSE Ok)
  BY <1>2 DEF ValidateCel, Loop, CelRuns, CelStep, Started
<1>4. CelRuns(ff, vs, exprs, f, N)
  BY <1>1, <1>2, CelRunsExists
<1>5. f[0] = Started(vs) /\ \A n \in 1..N : f[n] = CelStep(ff, f[n - 1], exprs[n])
  BY <1>4 DEF CelRuns
<1>6. PICK c : \A n \in 1..N : c[n] = <<CelCheck(exprs[n])>>
  <2>1. \A n \in 1..N : [i \in 1..N |-> <<CelCheck(exprs[i])>>][n] = <<CelCheck(exprs[n])>>
    OBVIOUS
  <2> QED
    BY <2>1
<1>7. \A n \in 1..N : Sequence(f[n - 1].vs) => LoopTurn(ff, f[n - 1], f[n], c[n])
  BY <1>1, <1>5, <1>6, CelTurn DEF WellFormedExprs, WithPaths
<1>8. AllSequences(c, N)
  BY <1>6, OneSequence DEF AllSequences
<1>9. Makes(ff, vs, LoopEnd(f[N]), Flat(c, N))
  BY <1>5, <1>7, <1>8, LoopMakes
<1>10. Flat(c, N) = CelHere(exprs)
  <2>1. PICK s : s = CelHere(exprs)
    OBVIOUS
  <2>2. Sequence(s) /\ Len(s) = N /\ \A i \in 1..N : c[i] = <<s[i]>>
    BY <1>1, <1>6, <2>1, CelHereIs
  <2> QED
    BY <2>1, <2>2, FlatOnes
<1> QED
  BY <1>1, <1>3, <1>9, <1>10 DEF LoopEnd
-------------------------------------------------------------------------------
(* FieldValidationRules.                                                   *)

\* A sequence of two is two of one.
LEMMA TwoJoined ==
  ASSUME NEW x, NEW y
  PROVE  <<x, y>> = <<x>> \o <<y>>
<1>1. PICK a : a = <<x>>
  OBVIOUS
<1>2. PICK b : b = <<y>>
  OBVIOUS
<1>3. PICK n \in Nat : n = 1
  OBVIOUS
<1>4. Sequence(a) /\ Len(a) = n /\ a[1] = x
  BY <1>1, <1>3, OneSequence
<1>5. Sequence(b) /\ Len(b) = n /\ b[1] = y
  BY <1>2, <1>3, OneSequence
<1>6. PICK c : c = a \o b
  OBVIOUS
<1>7. IsJoined(c, a, b) /\ Sequence(a) /\ Sequence(b) /\ Len(a) = n /\ Len(b) = n
  BY <1>4, <1>5, <1>6 DEF IsJoined
<1>8. /\ Sequence(c) /\ Len(c) = n + n
      /\ \A i \in 1..n : c[i] = a[i]
      /\ \A i \in 1..n : c[n + i] = b[i]
  BY <1>7, JoinedParts
<1>9. PICK d : d = <<x, y>>
  OBVIOUS
<1>10. Sequence(d) /\ Len(d) = 2 /\ d[1] = x /\ d[2] = y
  <2>1. d \in Seq({x, y})
    BY <1>9
  <2> QED
    BY <1>9, <2>1 DEF Sequence
<1>11. Len(c) = 2 /\ c[1] = x /\ c[2] = y
  BY <1>3, <1>4, <1>5, <1>8
<1>12. \A i \in 1..2 : d[i] = c[i]
  BY <1>10, <1>11
<1>13. d = c
  BY <1>8, <1>10, <1>11, <1>12, SameSequence
<1> QED
  BY <1>1, <1>2, <1>6, <1>9, <1>13

\* A sequence of two.
LEMMA TwoSequence ==
  ASSUME NEW x, NEW y
  PROVE  /\ Sequence(<<x, y>>) /\ Len(<<x, y>>) = 2 /\ <<x, y>>[1] = x /\ <<x, y>>[2] = y
         /\ Reverse(<<x, y>>) = <<y, x>> /\ IsJoined(<<x, y>>, <<x>>, <<y>>)
<1>1. <<x, y>> \in Seq({x, y}) /\ <<x>> \in Seq({x, y}) /\ <<y>> \in Seq({x, y})
      /\ <<y, x>> \in Seq({x, y})
  OBVIOUS
<1>2. Sequence(<<x, y>>) /\ Sequence(<<y, x>>)
  BY <1>1 DEF Sequence
<1>3. <<x, y>> = <<x>> \o <<y>> /\ <<y, x>> = <<y>> \o <<x>>
  BY TwoJoined
<1>4. Reverse(<<x, y>>) = <<y, x>>
  <2>1. IsJoined(Reverse(<<x>> \o <<y>>), Reverse(<<y>>), Reverse(<<x>>))
    BY OneSequence, ReverseJoined
  <2> QED
    BY <1>3, <2>1, OneSequence DEF IsJoined
<1> QED
  BY <1>2, <1>3, <1>4 DEF IsJoined

\* A check of the reference, and the violation for it if it fails.
IsCheck(c, id, field, rule, value, x, o) == c = Check(id, field, rule, FALSE, value, x, o)
IsReverse(f, field) == Sequence(field) /\ f = Reverse(field)

\* A new violation shows the check that is written like it.
LEMMA ShownNew ==
  ASSUME NEW v, NEW c, NEW id, NEW field, NEW rule, NEW f, NEW r, NEW value, NEW other, NEW x,
         NEW o, IsReverse(f, field), IsReverse(r, rule), IsNew(v, id, f, r, value, x),
         IsCheck(c, id, field, rule, other, x, o)
  PROVE  Shown(v, c) /\ c.outcome = o
<1>1. Sequence(f) /\ Sequence(r) /\ Sequence(field) /\ Sequence(rule)
      /\ f = Reverse(field) /\ r = Reverse(rule)
  BY ReverseIs DEF IsReverse
<1>2. IsViolation(v) /\ Parts(v, id, f, r, value, x)
  BY <1>1, ViolationIs
<1>3. c = [id |-> id, field |-> field, rule |-> rule, forKey |-> FALSE,
           fieldValue |-> other, ruleValue |-> x, outcome |-> o]
  BY DEF IsCheck, Check
<1>4. /\ c.id = id /\ c.field = field /\ c.rule = rule /\ c.forKey = FALSE
      /\ c.ruleValue = x /\ c.outcome = o
  BY <1>3
<1> QED
  BY <1>1, <1>2, <1>4 DEF Shown, Parts

\* Code that adds a violation if its check fails.
LEMMA MakesOptional ==
  ASSUME NEW ff, NEW vs, NEW ws, NEW b \in BOOLEAN, NEW v, NEW c, NEW new, Sequence(vs),
         new = (IF b THEN <<v>> ELSE <<>>), IsJoined(ws, vs, new), Shown(v, c),
         c.outcome = Outcome(b)
  PROVE  Makes(ff, vs, Result(ws, Ok), <<c>>)
<1>1. CASE b
  <2>1. ws = Append(vs, v)
    BY <1>1, AppendIs DEF IsJoined
  <2>2. c.outcome = "fail"
    BY <1>1 DEF Outcome
  <2> QED
    BY <2>1, <2>2, MakesOne
<1>2. CASE ~b
  <2>1. ws = vs
    BY <1>2, JoinedEmpty DEF IsJoined
  <2>2. c.outcome = "pass"
    BY <1>2 DEF Outcome
  <2> QED
    BY <2>1, <2>2, MakesOne
<1> QED
  BY <1>1, <1>2

\* One of the two any rules.
LEMMA AnyOne ==
  ASSUME NEW ff, NEW vs, NEW ws, NEW b \in BOOLEAN, NEW id, NEW x, NEW any, NEW path, NEW value,
         NEW c, NEW new, Sequence(vs), IsReverse(path, path),
         new = (IF b THEN <<Violation(id, path, <<x, any>>, value, x)>> ELSE <<>>),
         IsJoined(ws, vs, new), c = Check(id, path, <<>> \o <<any, x>>, FALSE, value, x, Outcome(b))
  PROVE  Makes(ff, vs, Result(ws, Ok), <<c>>)
<1>1. PICK v : v = Violation(id, path, <<x, any>>, value, x)
  OBVIOUS
<1>2. PICK r : r = <<x, any>>
  OBVIOUS
<1>3. PICK rule : rule = <<any, x>>
  OBVIOUS
<1>4. PICK o : o = Outcome(b)
  OBVIOUS
<1>5. IsReverse(r, rule)
  BY <1>2, <1>3, TwoSequence DEF IsReverse
<1>6. IsNew(v, id, path, r, value, x)
  BY <1>1, <1>2 DEF IsNew
<1>7. IsCheck(c, id, path, rule, value, x, o)
  <2>1. <<>> \o rule = rule
    BY <1>5, JoinedEmpty DEF IsReverse
  <2> QED
    BY <1>3, <1>4, <2>1 DEF IsCheck
<1>8. Shown(v, c) /\ c.outcome = o
  BY <1>5, <1>6, <1>7, ShownNew
<1> QED
  BY <1>1, <1>4, <1>8, MakesOptional

WellFormedAny(any) == any.missing \in BOOLEAN /\ any.blocked \in BOOLEAN

\* The rules on the type of an Any, in then not_in.
LEMMA AnyMakes ==
  ASSUME NEW ff, NEW vs, NEW any, NEW path, NEW value, Sequence(vs), IsReverse(path, path),
         WellFormedAny(any)
  PROVE  Makes(ff, vs, Result(ValidateAny(vs, any, path, value), Ok),
               AnyChecks(any, path, <<>>, value))
<1>1. PICK a : a = IF any.missing
                     THEN <<Violation("any.in", path, <<"in", "any">>, value, "in")>> ELSE <<>>
  OBVIOUS
<1>2. PICK b : b = IF any.blocked
                     THEN <<Violation("any.not_in", path, <<"not_in", "any">>, value, "not_in")>>
                     ELSE <<>>
  OBVIOUS
<1>3. PICK us : us = vs \o a
  OBVIOUS
<1>4. PICK ws : ws = us \o b
  OBVIOUS
<1>5. ValidateAny(vs, any, path, value) = ws
  BY <1>1, <1>2, <1>3, <1>4 DEF ValidateAny
<1>6. PICK c : c = Check("any.in", path, <<>> \o <<"any", "in">>, FALSE, value, "in",
                         Outcome(any.missing))
  OBVIOUS
<1>7. PICK d : d = Check("any.not_in", path, <<>> \o <<"any", "not_in">>, FALSE, value, "not_in",
                         Outcome(any.blocked))
  OBVIOUS
<1>8. AnyChecks(any, path, <<>>, value) = <<c, d>>
  BY <1>6, <1>7 DEF AnyChecks
<1>9. Makes(ff, vs, Result(us, Ok), <<c>>)
  <2>1. PICK m \in BOOLEAN : m = any.missing
    BY DEF WellFormedAny
  <2>2. PICK id, x, y : id = "any.in" /\ x = "in" /\ y = "any"
    OBVIOUS
  <2>3. a = IF m THEN <<Violation(id, path, <<x, y>>, value, x)>> ELSE <<>>
    BY <1>1, <2>1, <2>2
  <2>4. c = Check(id, path, <<>> \o <<y, x>>, FALSE, value, x, Outcome(m))
    BY <1>6, <2>1, <2>2
  <2>5. IsJoined(us, vs, a)
    BY <1>3 DEF IsJoined
  <2> QED
    BY <2>3, <2>4, <2>5, AnyOne
<1>10. Sequence(us)
  BY <1>9 DEF Makes, Adds, Grows, Result
<1>11. Makes(ff, us, Result(ws, Ok), <<d>>)
  <2>1. PICK m \in BOOLEAN : m = any.blocked
    BY DEF WellFormedAny
  <2>2. PICK id, x, y : id = "any.not_in" /\ x = "not_in" /\ y = "any"
    OBVIOUS
  <2>3. b = IF m THEN <<Violation(id, path, <<x, y>>, value, x)>> ELSE <<>>
    BY <1>2, <2>1, <2>2
  <2>4. d = Check(id, path, <<>> \o <<y, x>>, FALSE, value, x, Outcome(m))
    BY <1>7, <2>1, <2>2
  <2>5. IsJoined(ws, us, b)
    BY <1>4 DEF IsJoined
  <2> QED
    BY <1>10, <2>3, <2>4, <2>5, AnyOne
<1>12. Makes(ff, vs, Result(ws, Ok), <<c, d>>)
  <2>1. PICK r : r = Result(us, Ok)
    OBVIOUS
  <2>2. r.vs = us /\ r.status = Ok
    BY <2>1 DEF Result
  <2>3. IsJoined(<<c, d>>, <<c>>, <<d>>)
    BY TwoSequence
  <2> QED
    BY <1>9, <1>11, <2>1, <2>2, <2>3, MakesThen
<1> QED
  BY <1>5, <1>8, <1>12

\* The reference gives the checks of expressions their place at once.
LEMMA RelocatedCel ==
  ASSUME NEW exprs, NEW field, NEW rule, NEW key \in BOOLEAN, NEW value, WellFormedExprs(exprs),
         WithPaths(exprs), Sequence(field), Sequence(rule)
  PROVE  RelocatedAll(CelHere(exprs), CelChecks(exprs, field, rule, key, value), field, rule, key)
<1>1. PICK n \in Nat : n = Len(exprs)
  BY SequenceLen DEF WellFormedExprs
<1>2. PICK s : s = CelHere(exprs)
  OBVIOUS
<1>3. PICK t : t = CelChecks(exprs, field, rule, key, value)
  OBVIOUS
<1>4. Sequence(s) /\ Len(s) = n /\ \A i \in 1..n : s[i] = CelCheck(exprs[i])
  BY <1>1, <1>2, CelHereIs
<1>5. t = [i \in 1..n |->
             Check(exprs[i].id, field, rule \o Reverse(exprs[i].path), key, value, exprs[i].field,
                   IF exprs[i].outcome = "error" THEN Invalid ELSE exprs[i].outcome)]
  BY <1>1, <1>3 DEF CelChecks
<1>6. t \in [1..n -> {t[i] : i \in 1..n}]
  BY <1>5
<1>7. Sequence(t) /\ Len(t) = n
  BY <1>6, SequenceIs
<1>8. ASSUME NEW i \in 1..n PROVE Relocated(s[i], t[i], field, rule, key)
  <2>1. PICK c : c = s[i]
    OBVIOUS
  <2>2. PICK d : d = t[i]
    OBVIOUS
  <2>3. PICK e : e = exprs[i]
    OBVIOUS
  <2>4. PICK o : o = IF e.outcome = "error" THEN Invalid ELSE e.outcome
    OBVIOUS
  <2>5. c = [id |-> e.id, field |-> <<>>, rule |-> Reverse(e.path), forKey |-> FALSE,
             fieldValue |-> NoValue, ruleValue |-> e.field, outcome |-> o]
    BY <1>4, <2>1, <2>3, <2>4 DEF CelCheck, Check
  <2>6. d = [id |-> e.id, field |-> field, rule |-> rule \o Reverse(e.path), forKey |-> key,
             fieldValue |-> value, ruleValue |-> e.field, outcome |-> o]
    BY <1>5, <2>2, <2>3, <2>4 DEF Check
  <2>7. /\ c.id = e.id /\ c.field = <<>> /\ c.rule = Reverse(e.path) /\ c.forKey = FALSE
        /\ c.ruleValue = e.field /\ c.outcome = o
    BY <2>5
  <2>8. /\ d.id = e.id /\ d.field = field /\ d.rule = rule \o Reverse(e.path) /\ d.forKey = key
        /\ d.ruleValue = e.field /\ d.outcome = o
    BY <2>6
  <2>9. d.field = field \o c.field
    BY <2>7, <2>8, JoinedEmpty
  <2>10. d.forKey = Keyed(key, c.forKey)
    BY <2>7, <2>8 DEF Keyed
  <2> QED
    BY <2>1, <2>2, <2>7, <2>8, <2>9, <2>10 DEF Relocated
<1> QED
  BY <1>2, <1>3, <1>4, <1>7, <1>8 DEF RelocatedAll

\* An error returns without a place for what has been found; else it is given one.
LEMMA MakesPlaced ==
  ASSUME NEW ff, NEW vs, NEW r, NEW q, NEW found, NEW cs, NEW ds, NEW F, NEW R, NEW key, NEW p,
         p = Len(vs), Sequence(F), Sequence(R), Makes(ff, vs, r, cs), RelocatedAll(cs, ds, F, R, key),
         q = (IF r.status # Ok THEN r ELSE Result(found, Ok)), Updated(r.vs, found, p),
         r.status = Ok => MovesAll(r.vs, found, p, F, R, key)
  PROVE  Makes(ff, vs, q, ds)
<1>1. p \in Nat
  BY SequenceLen DEF Makes, Adds, Grows
<1>2. CASE r.status # Ok
  <2>1. PICK xs : xs = r.vs
    OBVIOUS
  <2>2. Updated(r.vs, xs, p)
    BY <2>1 DEF Makes, Adds, Grows, Updated
  <2>4. Makes(ff, vs, Result(xs, r.status), ds)
    BY <1>1, <1>2, <2>2, MakesMoved
  <2>5. q.vs = Result(xs, r.status).vs /\ q.status = Result(xs, r.status).status
    BY <1>2, <2>1 DEF Result
  <2> QED
    BY <2>4, <2>5, MakesSame
<1>3. CASE r.status = Ok
  <2>1. Makes(ff, vs, Result(found, r.status), ds)
    BY <1>1, MakesMoved
  <2> QED
    BY <1>3, <2>1
<1> QED
  BY <1>2, <1>3

\* Two updates of the violations after pos are one.
LEMMA UpdatedTwice ==
  ASSUME NEW us, NEW vs, NEW ws, NEW pos, Updated(us, vs, pos), Updated(vs, ws, pos)
  PROVE  Updated(us, ws, pos)
BY DEF Updated

\* The empty sequence end to end with another.
LEMMA EmptyUnit ==
  ASSUME NEW x
  PROVE  IsJoined(<<>>, <<>>, <<>>) /\ IsJoined(<<x>>, <<>>, <<x>>) /\ IsJoined(<<x>>, <<x>>, <<>>)
BY OneSequence, JoinedEmpty DEF IsJoined

\* The check that a field's value, or a map's keys, can be had.
LEMMA AccessMakes ==
  ASSUME NEW ff, NEW vs, Sequence(vs), NEW id, NEW r, NEW access \in Statuses
  PROVE  Makes(ff, vs, Result(vs, access), Access(id, r, access))
<1>1. PICK c : c = Check(id, <<Element(r.field)>>, <<>>, FALSE, WholeField(r), NoField,
                         IF access = Ok THEN "pass" ELSE access)
  OBVIOUS
<1>2. Access(id, r, access) = <<c>>
  BY <1>1 DEF Access
<1>3. c.outcome = IF access = Ok THEN "pass" ELSE access
  BY <1>1 DEF Check
<1>4. PICK q : q = Result(vs, access)
  OBVIOUS
<1>5. q.vs = vs /\ q.status = access
  BY <1>4 DEF Result
<1>6. Adds(vs, q)
  BY <1>5, GrowsRefl DEF Adds
<1>7. CASE access = Ok
  <2>1. c.outcome = "pass" /\ c.outcome # "fail" /\ ~Erred(c)
    BY <1>3, <1>7 DEF Erred
  <2>2. Finds(vs, q.vs, <<c>>)
    BY <1>5, <2>1, FindsNotOne
  <2>3. Makes(ff, vs, q, <<c>>)
    BY <1>5, <1>6, <1>7, <2>1, <2>2, MakesCheck
  <2> QED
    BY <1>2, <1>4, <2>3
<1>8. CASE access # Ok
  <2>1. Erred(c) /\ c.outcome = access
    BY <1>3, <1>8 DEF Erred, Statuses, Ok, Invalid
  <2>2. Makes(ff, vs, q, <<c>>)
    BY <1>5, <1>6, <1>8, <2>1, MakesCheck
  <2> QED
    BY <1>2, <1>4, <2>2
<1> QED
  BY <1>7, <1>8

\* The rules of a field that is present and not ignored.
PresentChecks(r) ==
  (IF Collection(r) THEN <<>>
   ELSE AnyChecks(r.any, <<Element(r.field)>>, <<>>, WholeField(r)) \o Access("read", r, r.read))
  \o CelChecks(r.exprs, <<Element(r.field)>>, <<>>, FALSE, WholeField(r))

WellFormedField(r) ==
  /\ WellFormedExprs(r.exprs) /\ WithPaths(r.exprs) /\ Readable(r)
  /\ ~Collection(r) => WellFormedAny(r.any)

\* The rules of a field that is there.
LEMMA PresentMakes ==
  ASSUME NEW ff, NEW vs, NEW rule, Sequence(vs), WellFormedField(rule)
  PROVE  Makes(ff, vs, ValidatePresent(ff, vs, rule), PresentChecks(rule))
<1>1. PICK value : value = WholeField(rule)
  OBVIOUS
<1>2. PICK x : x = Element(rule.field)
  OBVIOUS
<1>3. PICK path : path = <<x>>
  OBVIOUS
<1>4. PICK r : r = IF Collection(rule) THEN Result(vs, Ok)
                    ELSE Result(ValidateAny(vs, rule.any, path, value), rule.read)
  OBVIOUS
<1>5. PICK start : start = r.vs
  OBVIOUS
<1>6. PICK a : a = IF Collection(rule) THEN <<>>
                   ELSE AnyChecks(rule.any, path, <<>>, value) \o Access("read", rule, rule.read)
  OBVIOUS
<1>7. PICK cel : cel = ValidateCel(ff, start, rule.exprs)
  OBVIOUS
<1>8. PICK p : p = Len(start)
  OBVIOUS
<1>9. PICK named : named = AppendFieldPathElement(cel.vs, x, p)
  OBVIOUS
<1>10. PICK found : found = SetFieldValue(named, value, p)
  OBVIOUS
<1>11. PICK q : q = ValidatePresent(ff, vs, rule)
  OBVIOUS
<1>12. q = IF r.status # Ok THEN r
          ELSE IF cel.status # Ok THEN cel ELSE Result(found, Ok)
  BY <1>1, <1>2, <1>3, <1>4, <1>5, <1>7, <1>8, <1>9, <1>10, <1>11
     DEF ValidatePresent, Then, WholeField
<1>13. Makes(ff, vs, r, a)
  <2>1. IsReverse(path, path)
    BY <1>3, OneSequence DEF IsReverse
  <2>2. CASE Collection(rule)
    BY <1>4, <1>6, <2>2, MakesNothing
  <2>3. CASE ~Collection(rule)
    <3>1. WellFormedAny(rule.any) /\ rule.read \in Statuses
      BY <2>3 DEF WellFormedField, Readable
    <3>2. PICK us : us = ValidateAny(vs, rule.any, path, value)
      OBVIOUS
    <3>3. PICK any : any = AnyChecks(rule.any, path, <<>>, value)
      OBVIOUS
    <3>4. Makes(ff, vs, Result(us, Ok), any)
      BY <2>1, <3>1, <3>2, <3>3, AnyMakes
    <3>5. PICK first : first = Result(us, Ok)
      OBVIOUS
    <3>6. first.vs = us /\ first.status = Ok
      BY <3>5 DEF Result
    <3>7. Sequence(us)
      BY <3>4, <3>5, <3>6 DEF Makes, Adds, Grows
    <3>8. PICK read : read = Access("read", rule, rule.read)
      OBVIOUS
    <3>9. r = Result(us, rule.read)
      BY <1>4, <2>3, <3>2
    <3>10. Makes(ff, us, r, read)
      BY <3>1, <3>7, <3>8, <3>9, AccessMakes
    <3>11. IsJoined(a, any, read)
      BY <1>6, <2>3, <3>3, <3>8 DEF IsJoined
    <3>12. Makes(ff, vs, first, any) /\ Makes(ff, first.vs, r, read)
      BY <3>4, <3>5, <3>6, <3>10
    <3> QED
      BY <3>6, <3>11, <3>12, MakesThen
  <2> QED
    BY <2>2, <2>3
<1>14. Sequence(start)
  BY <1>5, <1>13 DEF Makes, Adds, Grows
<1>15. PICK cs : cs = CelHere(rule.exprs)
  OBVIOUS
<1>16. Makes(ff, start, cel, cs) /\ Sequence(cs)
  BY <1>7, <1>14, <1>15, ValidateCelMakes DEF WellFormedField, Makes
<1>17. PICK ds : ds = CelChecks(rule.exprs, path, <<>>, FALSE, value)
  OBVIOUS
<1>18. PICK none : none = <<>>
  OBVIOUS
<1>19. PICK no \in BOOLEAN : no = FALSE
  OBVIOUS
<1>20. Sequence(path) /\ Sequence(none)
  BY <1>3, <1>18, OneSequence
<1>21. RelocatedAll(cs, ds, path, none, no)
  <2>1. ds = CelChecks(rule.exprs, path, none, no, value)
    BY <1>17, <1>18, <1>19
  <2>2. WellFormedExprs(rule.exprs) /\ WithPaths(rule.exprs)
    BY DEF WellFormedField
  <2> QED
    BY <1>15, <1>20, <2>1, <2>2, RelocatedCel
<1>22. Sequence(cel.vs) /\ p \in 0..Len(cel.vs)
  <2>1. Grows(start, cel.vs)
    BY <1>16 DEF Makes, Adds
  <2> QED
    BY <1>8, <2>1, SequenceLen DEF Grows
<1>23. Updated(cel.vs, named, p) /\ Sequence(named) /\ p \in 0..Len(named)
  BY <1>9, <1>22, RuleContextUpdates DEF Updated
<1>24. Updated(cel.vs, found, p)
  <2>1. Updated(named, found, p)
    BY <1>10, <1>23, RuleContextUpdates
  <2> QED
    BY <1>23, <2>1, UpdatedTwice
<1>25. ASSUME cel.status = Ok PROVE MovesAll(cel.vs, found, p, path, none, no)
  <2>1. Picks(start, cel.vs, cs)
    BY <1>16, <1>25 DEF Makes
  <2>2. AllViolations(cel.vs, p)
    BY <1>8, <2>1, PickedViolations
  <2>3. MovesAll(cel.vs, named, p, path, none, no)
    BY <1>3, <1>9, <1>18, <1>19, <1>22, <2>2, FieldMoves
  <2>4. AllViolations(named, p)
    BY <2>3, MovedViolations
  <2>5. MovesAll(named, found, p, none, none, no)
    BY <1>10, <1>18, <1>19, <1>23, <2>4, ValueMoves
  <2>6. IsJoined(path, none, path) /\ IsJoined(none, none, none)
    BY <1>3, <1>18, EmptyUnit
  <2>7. no = (no \/ no)
    BY <1>19
  <2> QED
    BY <1>20, <1>22, <2>2, <2>3, <2>5, <2>6, <2>7, MovesTwice
<1>26. PICK end : end = IF cel.status # Ok THEN cel ELSE Result(found, Ok)
  OBVIOUS
<1>27. Makes(ff, start, end, ds)
  BY <1>8, <1>16, <1>20, <1>21, <1>24, <1>25, <1>26, MakesPlaced
<1>28. PICK e : e = PresentChecks(rule)
  OBVIOUS
<1>29. IsJoined(e, a, ds)
  BY <1>1, <1>2, <1>3, <1>6, <1>17, <1>28 DEF PresentChecks, IsJoined
<1>30. ASSUME r.status # Ok PROVE Makes(ff, vs, q, e)
  <2>1. q = r /\ Sequence(ds)
    BY <1>12, <1>27, <1>30 DEF Makes
  <2> QED
    BY <1>13, <1>30, <1>29, <2>1, MakesError
<1>31. ASSUME r.status = Ok PROVE Makes(ff, vs, q, e)
  <2>1. q = end
    BY <1>12, <1>26, <1>31
  <2>2. Makes(ff, r.vs, end, ds)
    BY <1>5, <1>27
  <2> QED
    BY <1>13, <1>29, <1>31, <2>1, <2>2, MakesThen
<1>32. Makes(ff, vs, q, e)
  BY <1>30, <1>31
<1> QED
  BY <1>11, <1>28, <1>32

\* FieldValidationRules::Validate: ignored, missing or there.
LEMMA FieldMakes ==
  ASSUME NEW ff, NEW vs, NEW rule, Sequence(vs), WellFormedField(rule)
  PROVE  Makes(ff, vs, ValidateField(ff, vs, rule), FieldChecks(rule))
<1>1. CASE Ignored(rule)
  <2>1. ValidateField(ff, vs, rule) = Result(vs, Ok) /\ FieldChecks(rule) = <<>>
    BY <1>1 DEF ValidateField, FieldChecks, Ignored, Missing
  <2> QED
    BY <2>1, MakesNothing
<1>2. CASE Missing(rule)
  <2>1. ~Ignored(rule)
    BY <1>2 DEF Ignored, Missing
  <2>2. PICK c : c = Check("required", <<Element(rule.field)>>, <<"required">>, FALSE,
                           WholeField(rule), "required", "fail")
    OBVIOUS
  <2>3. PICK v : v = Required(rule)
    OBVIOUS
  <2>4. ValidateField(ff, vs, rule) = Result(Append(vs, v), Ok) /\ FieldChecks(rule) = <<c>>
    BY <1>2, <2>1, <2>2, <2>3 DEF ValidateField, FieldChecks
  <2>5. PICK id, x, o : id = "required" /\ x = "required" /\ o = "fail"
    OBVIOUS
  <2>6. PICK field, r, value : /\ field = <<Element(rule.field)>> /\ r = <<"required">>
                               /\ value = WholeField(rule)
    OBVIOUS
  <2>7. IsReverse(field, field) /\ IsReverse(r, r)
    BY <2>6, OneSequence DEF IsReverse
  <2>8. IsNew(v, id, field, r, value, x)
    BY <2>3, <2>5, <2>6 DEF IsNew, Required, WholeField
  <2>9. IsCheck(c, id, field, r, value, x, o)
    BY <2>2, <2>5, <2>6 DEF IsCheck
  <2>10. Shown(v, c) /\ c.outcome = o
    BY <2>7, <2>8, <2>9, ShownNew
  <2>11. PICK ws : ws = Append(vs, v)
    OBVIOUS
  <2>12. Makes(ff, vs, Result(ws, Ok), <<c>>)
    BY <2>5, <2>10, <2>11, MakesOne
  <2> QED
    BY <2>4, <2>11, <2>12
<1>3. CASE ~Ignored(rule) /\ ~Missing(rule)
  <2>1. ValidateField(ff, vs, rule) = ValidatePresent(ff, vs, rule)
    BY <1>3, Zenon DEF ValidateField
  <2>2. FieldChecks(rule) = PresentChecks(rule)
    BY <1>3, Zenon DEF FieldChecks, PresentChecks
  <2> QED
    BY <2>1, <2>2, PresentMakes
<1> QED
  BY <1>1, <1>2, <1>3
-------------------------------------------------------------------------------
(* Rules that run after those of the field.                                *)

\* EnumValidationRules::Validate.
LEMMA EnumMakes ==
  ASSUME NEW ff, NEW vs, NEW rule, Sequence(vs), WellFormedField(rule)
  PROVE  Makes(ff, vs, ValidateEnum(ff, vs, rule), FieldChecks(rule) \o EnumChecks(rule))
<1>1. PICK base : base = ValidateField(ff, vs, rule)
  OBVIOUS
<1>2. PICK a : a = FieldChecks(rule)
  OBVIOUS
<1>3. PICK b \in BOOLEAN : b = (rule.definedOnly /\ ~rule.defined)
  OBVIOUS
<1>4. PICK c : c = Check("enum.defined_only", <<Element(rule.field)>>, <<"enum", "defined_only">>,
                         FALSE, WholeField(rule), "defined_only", Outcome(b))
  OBVIOUS
<1>5. PICK v : v = Violation("enum.defined_only", <<Element(rule.field)>>,
                             <<"defined_only", "enum">>, WholeField(rule), "defined_only")
  OBVIOUS
<1>6. PICK q : q = ValidateEnum(ff, vs, rule)
  OBVIOUS
<1>7. q = IF base.status # Ok THEN base
          ELSE IF ShouldReturn(ff, base.vs, Ok) \/ ~b THEN Result(base.vs, Ok)
          ELSE Result(Append(base.vs, v), Ok)
  BY <1>1, <1>3, <1>5, <1>6 DEF ValidateEnum, Then, WholeField
<1>8. EnumChecks(rule) = <<c>>
  BY <1>3, <1>4 DEF EnumChecks
<1>9. PICK e : e = a \o <<c>>
  OBVIOUS
<1>10. IsJoined(e, a, <<c>>) /\ Sequence(<<c>>)
  BY <1>9, OneSequence DEF IsJoined
<1>11. Makes(ff, vs, base, a) /\ Sequence(base.vs)
  BY <1>1, <1>2, FieldMakes DEF Makes, Adds, Grows
<1>12. Shown(v, c) /\ c.outcome = Outcome(b)
  <2>1. PICK id, x, o : id = "enum.defined_only" /\ x = "defined_only" /\ o = Outcome(b)
    OBVIOUS
  <2>2. PICK field, r, s, value : /\ field = <<Element(rule.field)>> /\ value = WholeField(rule)
                                  /\ r = <<"defined_only", "enum">> /\ s = <<"enum", "defined_only">>
    OBVIOUS
  <2>3. IsReverse(field, field) /\ IsReverse(r, s)
    BY <2>2, OneSequence, TwoSequence DEF IsReverse
  <2>4. IsNew(v, id, field, r, value, x)
    BY <1>5, <2>1, <2>2 DEF IsNew
  <2>5. IsCheck(c, id, field, s, value, x, o)
    BY <1>4, <2>1, <2>2 DEF IsCheck
  <2>6. Shown(v, c) /\ c.outcome = o
    BY <2>3, <2>4, <2>5, ShownNew
  <2> QED
    BY <2>1, <2>6
<1>13. Makes(ff, vs, q, e)
  <2>1. CASE base.status # Ok
    BY <1>7, <1>10, <1>11, <2>1, MakesError
  <2>2. CASE base.status = Ok /\ ShouldReturn(ff, base.vs, Ok)
    <3>1. q.vs = base.vs /\ q.status = base.status
      BY <1>7, <2>2 DEF Result
    <3>2. Makes(ff, vs, base, e)
      BY <1>10, <1>11, <2>2, MakesEnough
    <3> QED
      BY <3>1, <3>2, MakesSame
  <2>3. CASE base.status = Ok /\ ~ShouldReturn(ff, base.vs, Ok)
    <3>1. PICK ws : ws = IF b THEN Append(base.vs, v) ELSE base.vs
      OBVIOUS
    <3>2. q = Result(ws, Ok)
      BY <1>7, <2>3, <3>1
    <3>3. /\ c.outcome \in {"pass", "fail"}
          /\ c.outcome = "fail" => Shown(v, c) /\ ws = Append(base.vs, v)
          /\ c.outcome = "pass" => ws = base.vs
      BY <1>12, <3>1 DEF Outcome
    <3>4. PICK us : us = base.vs
      OBVIOUS
    <3>5. Makes(ff, us, Result(ws, Ok), <<c>>)
      BY <1>11, <3>3, <3>4, MakesOne
    <3>6. Makes(ff, base.vs, q, <<c>>)
      BY <3>2, <3>4, <3>5
    <3> QED
      BY <1>10, <1>11, <2>3, <3>6, MakesThen
  <2> QED
    BY <2>1, <2>2, <2>3
<1> QED
  BY <1>2, <1>6, <1>8, <1>9, <1>13

\* The reference gives the checks of an Any their place at once.
LEMMA RelocatedAny ==
  ASSUME NEW any, NEW field, NEW rule, NEW value, NEW other, WellFormedAny(any), Sequence(field),
         Sequence(rule)
  PROVE  RelocatedAll(AnyChecks(any, <<>>, <<>>, other), AnyChecks(any, field, rule, value),
                      field, rule, FALSE)
<1>1. PICK c1, c2 : /\ c1 = Check("any.in", <<>>, <<>> \o <<"any", "in">>, FALSE, other, "in",
                                  Outcome(any.missing))
                    /\ c2 = Check("any.not_in", <<>>, <<>> \o <<"any", "not_in">>, FALSE, other,
                                  "not_in", Outcome(any.blocked))
  OBVIOUS
<1>2. PICK d1, d2 : /\ d1 = Check("any.in", field, rule \o <<"any", "in">>, FALSE, value, "in",
                                  Outcome(any.missing))
                    /\ d2 = Check("any.not_in", field, rule \o <<"any", "not_in">>, FALSE, value,
                                  "not_in", Outcome(any.blocked))
  OBVIOUS
<1>3. \A s : Sequence(s) => <<>> \o s = s /\ s \o <<>> = s
  BY JoinedEmpty
<1>4. \A y : <<>> \o <<"any", y>> = <<"any", y>>
  BY <1>3, TwoSequence
<1>5. Relocated(c1, d1, field, rule, FALSE)
  <2>1. c1 = [id |-> "any.in", field |-> <<>>, rule |-> <<"any", "in">>, forKey |-> FALSE,
              fieldValue |-> other, ruleValue |-> "in", outcome |-> Outcome(any.missing)]
    BY <1>1, <1>4 DEF Check
  <2>2. d1 = [id |-> "any.in", field |-> field, rule |-> rule \o <<"any", "in">>, forKey |-> FALSE,
              fieldValue |-> value, ruleValue |-> "in", outcome |-> Outcome(any.missing)]
    BY <1>2 DEF Check
  <2>3. /\ c1.id = "any.in" /\ c1.field = <<>> /\ c1.rule = <<"any", "in">> /\ c1.forKey = FALSE
        /\ c1.ruleValue = "in" /\ c1.outcome = Outcome(any.missing)
    BY <2>1
  <2>4. /\ d1.id = "any.in" /\ d1.field = field /\ d1.rule = rule \o <<"any", "in">>
        /\ d1.forKey = FALSE /\ d1.ruleValue = "in" /\ d1.outcome = Outcome(any.missing)
    BY <2>2
  <2>5. d1.field = field \o c1.field
    BY <1>3, <2>3, <2>4
  <2> QED
    BY <2>3, <2>4, <2>5 DEF Relocated, Keyed
<1>6. Relocated(c2, d2, field, rule, FALSE)
  <2>1. c2 = [id |-> "any.not_in", field |-> <<>>, rule |-> <<"any", "not_in">>, forKey |-> FALSE,
              fieldValue |-> other, ruleValue |-> "not_in", outcome |-> Outcome(any.blocked)]
    BY <1>1, <1>4 DEF Check
  <2>2. d2 = [id |-> "any.not_in", field |-> field, rule |-> rule \o <<"any", "not_in">>,
              forKey |-> FALSE, fieldValue |-> value, ruleValue |-> "not_in",
              outcome |-> Outcome(any.blocked)]
    BY <1>2 DEF Check
  <2>3. /\ c2.id = "any.not_in" /\ c2.field = <<>> /\ c2.rule = <<"any", "not_in">>
        /\ c2.forKey = FALSE /\ c2.ruleValue = "not_in" /\ c2.outcome = Outcome(any.blocked)
    BY <2>1
  <2>4. /\ d2.id = "any.not_in" /\ d2.field = field /\ d2.rule = rule \o <<"any", "not_in">>
        /\ d2.forKey = FALSE /\ d2.ruleValue = "not_in" /\ d2.outcome = Outcome(any.blocked)
    BY <2>2
  <2>5. d2.field = field \o c2.field
    BY <1>3, <2>3, <2>4
  <2> QED
    BY <2>3, <2>4, <2>5 DEF Relocated, Keyed
<1>7. AnyChecks(any, <<>>, <<>>, other) = <<c1, c2>> /\ AnyChecks(any, field, rule, value) = <<d1, d2>>
  BY <1>1, <1>2 DEF AnyChecks
<1>8. RelocatedAll(<<c1, c2>>, <<d1, d2>>, field, rule, FALSE)
  <2>1. PICK s, t : s = <<c1, c2>> /\ t = <<d1, d2>>
    OBVIOUS
  <2>2. Sequence(t) /\ Len(s) = 2 /\ Len(t) = 2 /\ s[1] = c1 /\ s[2] = c2 /\ t[1] = d1 /\ t[2] = d2
    BY <2>1, TwoSequence
  <2>3. \A i \in 1..2 : Relocated(s[i], t[i], field, rule, FALSE)
    <3> SUFFICES ASSUME NEW i \in 1..2 PROVE Relocated(s[i], t[i], field, rule, FALSE)
      OBVIOUS
    <3>1. CASE i = 1
      BY <1>5, <2>2, <3>1
    <3>2. CASE i = 2
      BY <1>6, <2>2, <3>2
    <3>3. i = 1 \/ i = 2
      OBVIOUS
    <3> QED
      BY <3>1, <3>2, <3>3, Zenon
  <2> QED
    BY <2>1, <2>2, <2>3 DEF RelocatedAll
<1> QED
  BY <1>7, <1>8

\* Checks end to end are moved one part at a time.
LEMMA RelocatedJoined ==
  ASSUME NEW a, NEW b, NEW c, NEW a2, NEW b2, NEW c2, NEW F, NEW R, NEW key, Sequence(a), Sequence(b),
         IsJoined(c, a, b), IsJoined(c2, a2, b2), RelocatedAll(a, a2, F, R, key),
         RelocatedAll(b, b2, F, R, key)
  PROVE  RelocatedAll(c, c2, F, R, key)
<1>1. PICK m \in Nat : m = Len(a)
  BY SequenceLen
<1>2. PICK n \in Nat : n = Len(b)
  BY SequenceLen
<1>3. Sequence(a2) /\ Sequence(b2) /\ Len(a2) = m /\ Len(b2) = n
  BY <1>1, <1>2 DEF RelocatedAll
<1>4. Len(a) = m /\ Len(b) = n
  BY <1>1, <1>2
<1>5. /\ Sequence(c) /\ Len(c) = m + n
      /\ \A i \in 1..m : c[i] = a[i]
      /\ \A i \in 1..n : c[m + i] = b[i]
  BY <1>4, JoinedParts
<1>6. /\ Sequence(c2) /\ Len(c2) = m + n
      /\ \A i \in 1..m : c2[i] = a2[i]
      /\ \A i \in 1..n : c2[m + i] = b2[i]
  BY <1>3, JoinedParts
<1>7. ASSUME NEW i \in 1..(m + n) PROVE Relocated(c[i], c2[i], F, R, key)
  <2>1. CASE i \in 1..m
    <3>1. Relocated(a[i], a2[i], F, R, key)
      BY <1>4, <2>1 DEF RelocatedAll
    <3> QED
      BY <1>5, <1>6, <2>1, <3>1
  <2>2. CASE i \notin 1..m
    <3>1. PICK j \in 1..n : i = m + j
      <4>1. i - m \in 1..n /\ i = m + (i - m)
        BY <2>2
      <4> QED
        BY <4>1
    <3>2. Relocated(b[j], b2[j], F, R, key)
      BY <1>4 DEF RelocatedAll
    <3> QED
      BY <1>5, <1>6, <3>1, <3>2
  <2> QED
    BY <2>1, <2>2
<1> QED
  BY <1>5, <1>6, <1>7 DEF RelocatedAll
-------------------------------------------------------------------------------
(* RepeatedValidationRules.                                                *)

\* A sequence end to end with the empty one.
LEMMA OneUnit ==
  ASSUME NEW a, Sequence(a)
  PROVE  IsJoined(a, <<>>, a) /\ IsJoined(a, a, <<>>)
BY JoinedEmpty DEF IsJoined

\* What has been found from p on is given a field path element, a rule path and a value.
LEMMA PlacedMoves ==
  ASSUME NEW vs, NEW p, NEW x, NEW R, NEW value, NEW named, NEW ruled, NEW found, Sequence(vs),
         p \in 0..Len(vs), Sequence(R), named = AppendFieldPathElement(vs, x, p),
         ruled = AppendRulePathElement(named, Reverse(R), p), found = SetFieldValue(ruled, value, p)
  PROVE  /\ Updated(vs, found, p)
         /\ AllViolations(vs, p) => MovesAll(vs, found, p, <<x>>, R, FALSE)
<1>1. Updated(vs, named, p) /\ Sequence(named) /\ p \in 0..Len(named)
  BY RuleContextUpdates DEF Updated
<1>2. Updated(named, ruled, p) /\ Sequence(ruled) /\ p \in 0..Len(ruled)
  <2>1. Updated(named, ruled, p)
    BY <1>1, RuleContextUpdates
  <2> QED
    BY <1>1, <2>1 DEF Updated
<1>3. Updated(ruled, found, p)
  BY <1>2, RuleContextUpdates
<1>4. Updated(vs, found, p)
  BY <1>1, <1>2, <1>3, UpdatedTwice
<1>5. ASSUME AllViolations(vs, p) PROVE MovesAll(vs, found, p, <<x>>, R, FALSE)
  <2>1. PICK F, none : F = <<x>> /\ none = <<>>
    OBVIOUS
  <2>2. PICK no \in BOOLEAN : no = FALSE
    OBVIOUS
  <2>3. Sequence(F) /\ Sequence(none)
    BY <2>1, OneSequence
  <2>4. MovesAll(vs, named, p, F, none, no)
    BY <1>5, <2>1, <2>2, FieldMoves
  <2>5. MovesAll(named, ruled, p, none, R, no)
    <3>1. AllViolations(named, p)
      BY <2>4, MovedViolations
    <3> QED
      BY <1>1, <2>1, <2>2, <3>1, RuleMoves
  <2>6. MovesAll(ruled, found, p, none, none, no)
    <3>1. AllViolations(ruled, p)
      BY <2>5, MovedViolations
    <3> QED
      BY <1>2, <2>1, <2>2, <3>1, ValueMoves
  <2>7. IsJoined(F, none, F) /\ IsJoined(R, none, R) /\ IsJoined(R, R, none)
    BY <2>1, <2>3, OneUnit
  <2>8. no = (no \/ no)
    BY <2>2
  <2>9. MovesAll(vs, ruled, p, F, R, no)
    BY <1>5, <2>3, <2>4, <2>5, <2>7, <2>8, MovesTwice
  <2>10. MovesAll(vs, found, p, F, R, no)
    BY <1>5, <2>3, <2>6, <2>7, <2>8, <2>9, MovesTwice
  <2> QED
    BY <2>1, <2>2, <2>10
<1> QED
  BY <1>4, <1>5

\* An item's rules; the status of its expressions is lost if it has any rules, so
\* none may fail then.
WellFormedItem(rule, i) ==
  /\ WellFormedExprs(rule.items[i].exprs) /\ WithPaths(rule.items[i].exprs)
  /\ rule.itemsHaveAny =>
       /\ WellFormedAny(rule.items[i].any)
       /\ \A k \in 1..Len(rule.items[i].exprs) :
            rule.items[i].exprs[k].outcome \in {"pass", "fail"}

\* The checks of an item that is not ignored.
ItemPart(r, i) ==
  LET at    == <<ItemElement(r.field, <<i>>)>>
      value == ProtoField(r.msg, r.field, <<i>>)
  IN  CelChecks(r.items[i].exprs, at, <<"repeated", "items">>, FALSE, value)
      \o (IF r.itemsHaveAny
            THEN AnyChecks(r.items[i].any, at, <<"repeated", "items">>, value) ELSE <<>>)

\* Expressions that can all be evaluated have no error.
LEMMA CelDone ==
  ASSUME NEW exprs, WellFormedExprs(exprs), WithPaths(exprs),
         \A k \in 1..Len(exprs) : exprs[k].outcome \in {"pass", "fail"}
  PROVE  NoErrors(CelHere(exprs))
<1>1. ASSUME NEW k \in 1..Len(exprs) PROVE ~Erred(CelHere(exprs)[k])
  <2>1. exprs[k].outcome \in Outcomes /\ exprs[k].outcome \in {"pass", "fail"}
    BY DEF WellFormedExprs
  <2>2. ~Erred(CelCheck(exprs[k]))
    BY <2>1, CelCheckIs
  <2> QED
    BY <2>2, CelHereIs
<1> QED
  BY <1>1, CelHereIs DEF NoErrors

\* The rules of an item, before the item is added to the paths.
LEMMA ItemMakes ==
  ASSUME NEW ff, NEW vs, NEW rule, NEW i, Sequence(vs), WellFormedItem(rule, i)
  PROVE  Makes(ff, vs, ValidateItem(ff, vs, rule, i), ItemPart(rule, i))
<1>1. PICK value : value = ProtoField(rule.msg, rule.field, <<i>>)
  OBVIOUS
<1>2. PICK x : x = ItemElement(rule.field, <<i>>)
  OBVIOUS
<1>3. PICK path, R, none : path = <<x>> /\ R = <<"repeated", "items">> /\ none = <<>>
  OBVIOUS
<1>4. PICK exprs : exprs = rule.items[i].exprs
  OBVIOUS
<1>5. PICK any : any = rule.items[i].any
  OBVIOUS
<1>6. PICK cel : cel = ValidateCel(ff, vs, exprs)
  OBVIOUS
<1>7. PICK withAny : withAny = IF rule.itemsHaveAny THEN ValidateAny(cel.vs, any, none, value)
                               ELSE cel.vs
  OBVIOUS
<1>8. PICK s : s = IF rule.itemsHaveAny THEN Ok ELSE cel.status
  OBVIOUS
<1>9. PICK p : p = Len(vs)
  OBVIOUS
<1>10. PICK named : named = AppendFieldPathElement(withAny, x, p)
  OBVIOUS
<1>11. PICK ruled : ruled = AppendRulePathElement(named, Reverse(R), p)
  OBVIOUS
<1>12. PICK found : found = SetFieldValue(ruled, value, p)
  OBVIOUS
<1>13. Sequence(path) /\ Sequence(R) /\ Sequence(none) /\ Reverse(R) = <<"items", "repeated">>
  BY <1>3, OneSequence, TwoSequence
<1>14. ValidateItem(ff, vs, rule, i) = Result(found, s)
  <2>1. ruled = AppendRulePathElement(named, <<"items", "repeated">>, p)
    BY <1>11, <1>13
  <2>2. CASE rule.itemsHaveAny
    <3>1. withAny = ValidateAny(cel.vs, any, <<>>, value) /\ s = Ok
      BY <1>3, <1>7, <1>8, <2>2
    <3> QED
      BY <1>1, <1>2, <1>4, <1>5, <1>6, <1>9, <1>10, <1>12, <2>1, <2>2, <3>1 DEF ValidateItem
  <2>3. CASE ~rule.itemsHaveAny
    <3>1. withAny = cel.vs /\ s = cel.status
      BY <1>7, <1>8, <2>3
    <3> QED
      BY <1>1, <1>2, <1>4, <1>5, <1>6, <1>9, <1>10, <1>12, <2>1, <2>3, <3>1 DEF ValidateItem
  <2> QED
    BY <2>2, <2>3
<1>15. PICK a : a = CelHere(exprs)
  OBVIOUS
<1>16. PICK b : b = IF rule.itemsHaveAny THEN AnyChecks(any, none, none, value) ELSE none
  OBVIOUS
<1>17. PICK c : c = a \o b
  OBVIOUS
<1>18. PICK a2 : a2 = CelChecks(exprs, path, R, FALSE, value)
  OBVIOUS
<1>19. PICK b2 : b2 = IF rule.itemsHaveAny THEN AnyChecks(any, path, R, value) ELSE none
  OBVIOUS
<1>20. PICK c2 : c2 = a2 \o b2
  OBVIOUS
<1>21. c2 = ItemPart(rule, i)
  BY <1>1, <1>2, <1>3, <1>4, <1>5, <1>18, <1>19, <1>20 DEF ItemPart
<1>22. WellFormedExprs(exprs) /\ WithPaths(exprs)
  BY <1>4 DEF WellFormedItem
<1>23. Makes(ff, vs, cel, a) /\ Sequence(a) /\ Sequence(cel.vs)
  BY <1>6, <1>15, <1>22, ValidateCelMakes DEF Makes, Adds, Grows
<1>24. PICK r : r = Result(withAny, s)
  OBVIOUS
<1>25. Makes(ff, vs, r, c) /\ Sequence(b)
  <2>1. CASE rule.itemsHaveAny
    <3>1. WellFormedAny(any)
      BY <1>5, <2>1 DEF WellFormedItem
    <3>2. cel.status = Ok
      <4>1. NoErrors(a)
        BY <1>4, <1>15, <1>22, <2>1, CelDone DEF WellFormedItem
      <4> QED
        BY <1>23, <4>1 DEF Makes, Reports, HasStatus, NoErrors
    <3>3. IsReverse(none, none)
      BY <1>3, OneSequence DEF IsReverse
    <3>4. PICK us : us = cel.vs
      OBVIOUS
    <3>5. Makes(ff, us, Result(ValidateAny(us, any, none, value), Ok),
                AnyChecks(any, none, <<>>, value))
      BY <1>23, <3>1, <3>3, <3>4, AnyMakes
    <3>6. r = Result(ValidateAny(us, any, none, value), Ok) /\ b = AnyChecks(any, none, <<>>, value)
      BY <1>3, <1>7, <1>8, <1>16, <1>24, <2>1, <3>4
    <3>7. Makes(ff, cel.vs, r, b)
      BY <3>4, <3>5, <3>6
    <3>8. IsJoined(c, a, b)
      BY <1>17 DEF IsJoined
    <3> QED
      BY <1>23, <3>2, <3>7, <3>8, MakesThen DEF Makes
  <2>2. CASE ~rule.itemsHaveAny
    <3>1. c = a /\ b = none
      BY <1>3, <1>16, <1>17, <1>23, <2>2, JoinedEmpty
    <3>2. r.vs = cel.vs /\ r.status = cel.status
      BY <1>7, <1>8, <1>24, <2>2 DEF Result
    <3> QED
      BY <1>13, <1>23, <3>1, <3>2, MakesSame
  <2> QED
    BY <2>1, <2>2
<1>26. PICK no \in BOOLEAN : no = FALSE
  OBVIOUS
<1>27. RelocatedAll(c, c2, path, R, no)
  <2>1. RelocatedAll(a, a2, path, R, no)
    BY <1>13, <1>15, <1>18, <1>22, <1>26, RelocatedCel
  <2>2. RelocatedAll(b, b2, path, R, no)
    <3>1. CASE rule.itemsHaveAny
      <4>1. WellFormedAny(any)
        BY <1>5, <3>1 DEF WellFormedItem
      <4>2. RelocatedAll(AnyChecks(any, <<>>, <<>>, value), AnyChecks(any, path, R, value),
                         path, R, FALSE)
        BY <1>13, <4>1, RelocatedAny
      <4> QED
        BY <1>3, <1>16, <1>19, <1>26, <3>1, <4>2
    <3>2. CASE ~rule.itemsHaveAny
      <4>1. b = none /\ b2 = none /\ Len(none) = 0
        BY <1>3, <1>16, <1>19, <3>2, OneSequence
      <4> QED
        BY <1>13, <4>1 DEF RelocatedAll
    <3> QED
      BY <3>1, <3>2
  <2>3. IsJoined(c, a, b) /\ IsJoined(c2, a2, b2)
    BY <1>17, <1>20 DEF IsJoined
  <2> QED
    BY <1>23, <1>25, <2>1, <2>2, <2>3, RelocatedJoined
<1>28. r.vs = withAny /\ r.status = s
  BY <1>24 DEF Result
<1>29. Sequence(withAny) /\ p \in 0..Len(withAny) /\ p \in Nat
  <2>1. Grows(vs, withAny)
    BY <1>25, <1>28 DEF Makes, Adds
  <2> QED
    BY <1>9, <2>1, SequenceLen DEF Grows
<1>30. /\ Updated(withAny, found, p)
       /\ AllViolations(withAny, p) => MovesAll(withAny, found, p, path, R, no)
  <2>1. /\ Updated(withAny, found, p)
        /\ AllViolations(withAny, p) => MovesAll(withAny, found, p, <<x>>, R, FALSE)
    BY <1>10, <1>11, <1>12, <1>13, <1>29, PlacedMoves
  <2> QED
    BY <1>3, <1>26, <2>1
<1>31. ASSUME r.status = Ok PROVE MovesAll(r.vs, found, p, path, R, no)
  <2>1. Picks(vs, r.vs, c)
    BY <1>25, <1>31 DEF Makes
  <2>2. AllViolations(r.vs, p)
    BY <1>9, <2>1, PickedViolations
  <2> QED
    BY <1>28, <1>30, <2>2
<1>32. Updated(r.vs, found, p)
  BY <1>28, <1>30
<1>33. Makes(ff, vs, Result(found, r.status), c2)
  BY <1>9, <1>13, <1>25, <1>27, <1>29, <1>31, <1>32, MakesMoved
<1> QED
  BY <1>14, <1>21, <1>28, <1>33

\* Nothing but empty sequences gives the empty one.
LEMMA FlatEmpty ==
  ASSUME NEW c, NEW N \in Nat, \A i \in 1..N : c[i] = <<>>
  PROVE  Flat(c, N) = <<>>
<1>1. /\ Flat(c, 0) = <<>>
      /\ \A n \in 0..N : n < N => Flat(c, n + 1) = Flat(c, n) \o c[n + 1]
  <2>1. \A i \in 1..N : Sequence(c[i])
    BY OneSequence
  <2> QED
    BY <2>1, FlatGrows
<1>2. <<>> \o <<>> = <<>>
  BY OneSequence, JoinedEmpty
<1> DEFINE T == {n \in Nat : n <= N => Flat(c, n) = <<>>}
<1>3. 0 \in T
  BY <1>1
<1>4. ASSUME NEW n \in Nat, n \in T PROVE n + 1 \in T
  <2> SUFFICES ASSUME n + 1 <= N PROVE Flat(c, n + 1) = <<>>
    OBVIOUS
  <2>1. Flat(c, n) = <<>>
    BY <1>4
  <2>2. Flat(c, n + 1) = Flat(c, n) \o c[n + 1] /\ c[n + 1] = <<>>
    BY <1>1
  <2> QED
    BY <1>2, <2>1, <2>2
<1> HIDE DEF T
<1>5. Nat \subseteq T
  BY <1>3, <1>4, Induction
<1>6. N \in T /\ N <= N
  BY <1>5
<1> QED
  BY <1>6 DEF T

\* The checks after those of the field itself, when there is nothing more to do.
LEMMA MakesBase ==
  ASSUME NEW ff, NEW vs, NEW base, NEW q, NEW a, NEW b, NEW e, Makes(ff, vs, base, a), Sequence(b),
         IsJoined(e, a, b),
         \/ base.status # Ok /\ q = base
         \/ base.status = Ok /\ q = Result(base.vs, Ok) /\ (ShouldReturn(ff, base.vs, Ok) \/ b = <<>>)
  PROVE  Makes(ff, vs, q, e)
<1>1. Sequence(a)
  BY DEF Makes
<1>2. CASE base.status # Ok /\ q = base
  BY <1>2, MakesError
<1>3. CASE base.status = Ok /\ q = Result(base.vs, Ok) /\ ShouldReturn(ff, base.vs, Ok)
  <2>1. q.vs = base.vs /\ q.status = base.status
    BY <1>3 DEF Result
  <2>2. Makes(ff, vs, base, e)
    BY <1>3, MakesEnough
  <2> QED
    BY <2>1, <2>2, MakesSame
<1>4. CASE base.status = Ok /\ q = Result(base.vs, Ok) /\ b = <<>>
  <2>1. q.vs = base.vs /\ q.status = base.status
    BY <1>4 DEF Result
  <2>2. e = a
    BY <1>1, <1>4, JoinedEmpty DEF IsJoined
  <2> QED
    BY <2>1, <2>2, MakesSame
<1> QED
  BY <1>2, <1>3, <1>4

\* A turn of the loop over items.
LEMMA ItemTurn ==
  ASSUME NEW ff, NEW rule, NEW acc, NEW i, Sequence(acc.vs), WellFormedItem(rule, i),
         rule.hasItemRules
  PROVE  LoopTurn(ff, acc, ItemStep(ff, rule, acc, i), ItemChecks(rule, i))
<1>1. PICK r : r = ValidateItem(ff, acc.vs, rule, i)
  OBVIOUS
<1>2. Makes(ff, acc.vs, r, ItemPart(rule, i))
  BY <1>1, ItemMakes
<1>3. PICK next : next = ItemStep(ff, rule, acc, i)
  OBVIOUS
<1>4. CASE acc.stop
  <2>1. next = acc
    BY <1>3, <1>4 DEF ItemStep
  <2> QED
    BY <1>3, <1>4, <2>1 DEF LoopTurn
<1>5. CASE ~acc.stop /\ rule.ignoreEmptyItems /\ rule.items[i].empty
  <2>1. next = acc
    BY <1>3, <1>5 DEF ItemStep
  <2>2. ItemChecks(rule, i) = <<>>
    BY <1>5 DEF ItemChecks
  <2> QED
    BY <1>3, <2>1, <2>2 DEF LoopTurn
<1>6. CASE ~acc.stop /\ ~(rule.ignoreEmptyItems /\ rule.items[i].empty)
  <2>1. next = [vs |-> r.vs, status |-> r.status, stop |-> ShouldReturn(ff, r.vs, r.status)]
    BY <1>1, <1>3, <1>6 DEF ItemStep
  <2>2. /\ next.vs = r.vs /\ next.status = r.status
        /\ next.stop <=> ShouldReturn(ff, r.vs, r.status)
    BY <2>1
  <2>3. ~next.stop => r.status = Ok
    BY <2>2 DEF ShouldReturn
  <2>4. ItemChecks(rule, i) = ItemPart(rule, i)
    BY <1>6 DEF ItemChecks, ItemPart
  <2> QED
    BY <1>2, <1>3, <1>6, <2>2, <2>3, <2>4 DEF LoopTurn
<1> QED
  BY <1>4, <1>5, <1>6

\* The checks of an item are a sequence.
LEMMA ItemSequence ==
  ASSUME NEW rule, NEW i, WellFormedItem(rule, i)
  PROVE  Sequence(ItemChecks(rule, i))
<1>1. Sequence(<<>>)
  BY OneSequence
<1>2. Makes(FALSE, <<>>, ValidateItem(FALSE, <<>>, rule, i), ItemPart(rule, i))
  BY <1>1, ItemMakes
<1>3. Sequence(ItemPart(rule, i))
  BY <1>2 DEF Makes
<1>4. ItemChecks(rule, i) \in {<<>>, ItemPart(rule, i)}
  BY DEF ItemChecks, ItemPart
<1> QED
  BY <1>1, <1>3, <1>4

\* RepeatedValidationRules::Validate.
LEMMA RepeatedMakes ==
  ASSUME NEW ff, NEW vs, NEW rule, Sequence(vs), WellFormedField(rule), Sequence(rule.items),
         \A i \in 1..Len(rule.items) : WellFormedItem(rule, i)
  PROVE  Makes(ff, vs, ValidateRepeated(ff, vs, rule),
               FieldChecks(rule)
                 \o FlattenSeq([i \in 1..Len(rule.items) |-> ItemChecks(rule, i)]))
<1>1. PICK base : base = ValidateField(ff, vs, rule)
  OBVIOUS
<1>2. PICK N \in Nat : N = Len(rule.items) /\ N = Len(Indices(rule.items))
  BY IndicesOf
<1>3. \A n \in 1..N : Indices(rule.items)[n] = n
  BY <1>2, IndicesOf
<1>4. PICK f : f = CHOOSE h : ItemRuns(ff, ValidateField(ff, vs, rule).vs, rule,
                                       Indices(rule.items), h, Len(Indices(rule.items)))
  OBVIOUS
<1>5. PICK loop : loop = LoopEnd(f[N])
  OBVIOUS
<1>6. PICK q : q = ValidateRepeated(ff, vs, rule)
  OBVIOUS
<1>7. q = IF base.status # Ok THEN base
          ELSE IF ShouldReturn(ff, base.vs, Ok) \/ ~rule.hasItemRules THEN Result(base.vs, Ok)
          ELSE loop
  <2>1. loop = Result(f[Len(Indices(rule.items))].vs,
                      IF f[Len(Indices(rule.items))].stop
                        THEN f[Len(Indices(rule.items))].status ELSE Ok)
    BY <1>2, <1>5 DEF LoopEnd
  <2> DEFINE bs == ValidateField(ff, vs, rule)
             M == Len(Indices(rule.items))
             g == CHOOSE h : ItemRuns(ff, bs.vs, rule, Indices(rule.items), h, M)
  <2>2. ValidateRepeated(ff, vs, rule)
          = IF bs.status # Ok THEN bs
            ELSE IF ShouldReturn(ff, bs.vs, Ok) \/ ~rule.hasItemRules THEN Result(bs.vs, Ok)
            ELSE Result(g[M].vs, IF g[M].stop THEN g[M].status ELSE Ok)
    BY DEF ValidateRepeated, Then, Loop, ItemRuns, ItemStep, Started
  <2>3. f = g
    BY <1>4
  <2> HIDE DEF g
  <2> QED
    BY <1>1, <1>6, <2>1, <2>2, <2>3
<1>8. PICK a : a = FieldChecks(rule)
  OBVIOUS
<1>9. Makes(ff, vs, base, a) /\ Sequence(base.vs)
  BY <1>1, <1>8, FieldMakes DEF Makes, Adds, Grows
<1>10. PICK c : c = [i \in 1..N |-> ItemChecks(rule, i)]
  OBVIOUS
<1>11. \A i \in 1..N : c[i] = ItemChecks(rule, i)
  BY <1>10
<1>12. \A i \in 1..N : Sequence(c[i])
  BY <1>2, <1>11, ItemSequence
<1>13. PICK b : b = Flat(c, N)
  OBVIOUS
<1>14. Sequence(b)
  <2>1. N \in 0..N
    OBVIOUS
  <2> QED
    BY <1>12, <1>13, <2>1, FlatGrows
<1>15. b = FlattenSeq([i \in 1..Len(rule.items) |-> ItemChecks(rule, i)])
  <2>1. [i \in 1..N |-> c[i]] = [i \in 1..N |-> ItemChecks(rule, i)]
    BY <1>11
  <2> QED
    BY <1>2, <1>13, <2>1 DEF Flat
<1>16. PICK e : e = a \o b
  OBVIOUS
<1>17. IsJoined(e, a, b)
  BY <1>16 DEF IsJoined
<1>18. CASE base.status # Ok \/ ShouldReturn(ff, base.vs, Ok) \/ ~rule.hasItemRules
  <2>1. ~rule.hasItemRules => b = <<>>
    <3>1. ASSUME ~rule.hasItemRules, NEW i \in 1..N PROVE c[i] = <<>>
      BY <1>11, <3>1 DEF ItemChecks
    <3> QED
      BY <1>13, <3>1, FlatEmpty
  <2>2. \/ base.status # Ok /\ q = base
        \/ base.status = Ok /\ q = Result(base.vs, Ok) /\ (ShouldReturn(ff, base.vs, Ok) \/ b = <<>>)
    BY <1>7, <1>18, <2>1
  <2>3. Makes(ff, vs, q, e)
    BY <1>9, <1>14, <1>17, <2>2, MakesBase
  <2> QED
    BY <1>6, <1>8, <1>15, <1>16, <2>3
<1>19. CASE base.status = Ok /\ ~ShouldReturn(ff, base.vs, Ok) /\ rule.hasItemRules
  <2>1. ItemRuns(ff, base.vs, rule, Indices(rule.items), f, N)
    <3>1. ItemRuns(ff, ValidateField(ff, vs, rule).vs, rule, Indices(rule.items), f,
                   Len(Indices(rule.items)))
      BY <1>2, <1>4, ItemRunsExists
    <3> QED
      BY <1>1, <1>2, <3>1
  <2>2. /\ f[0] = Started(base.vs)
        /\ \A n \in 1..N : f[n] = ItemStep(ff, rule, f[n - 1], Indices(rule.items)[n])
    <3>1. ASSUME NEW n \in 0..N
          PROVE  f[n] = IF n = 0 THEN Started(base.vs)
                        ELSE ItemStep(ff, rule, f[n - 1], Indices(rule.items)[n])
      BY <2>1, Zenon DEF ItemRuns
    <3>2. 0 \in 0..N /\ \A n \in 1..N : n \in 0..N /\ n # 0
      OBVIOUS
    <3> QED
      BY <3>1, <3>2
  <2>3. ASSUME NEW n \in 1..N, Sequence(f[n - 1].vs) PROVE LoopTurn(ff, f[n - 1], f[n], c[n])
    <3>1. f[n] = ItemStep(ff, rule, f[n - 1], n)
      BY <1>3, <2>2
    <3>2. WellFormedItem(rule, n)
      BY <1>2
    <3>3. PICK acc : acc = f[n - 1]
      OBVIOUS
    <3>4. LoopTurn(ff, acc, ItemStep(ff, rule, acc, n), ItemChecks(rule, n))
      BY <1>19, <2>3, <3>2, <3>3, ItemTurn
    <3> QED
      BY <1>11, <3>1, <3>3, <3>4
  <2>4. AllSequences(c, N)
    BY <1>12 DEF AllSequences
  <2>5. PICK us : us = base.vs
    OBVIOUS
  <2>6. Makes(ff, us, loop, b)
    BY <1>5, <1>9, <1>13, <2>2, <2>3, <2>4, <2>5, LoopMakes
  <2>7. q = loop
    BY <1>7, <1>19
  <2>8. Makes(ff, vs, q, e)
    BY <1>9, <1>17, <1>19, <2>5, <2>6, <2>7, MakesThen
  <2> QED
    BY <1>6, <1>8, <1>15, <1>16, <2>8
<1> QED
  BY <1>18, <1>19
-------------------------------------------------------------------------------
(* MapValidationRules.                                                     *)

\* Setting the in-memory value changes nothing that is shown.
LEMMA ShownKept ==
  ASSUME NEW v, NEW w, NEW c, Shown(v, c), Moved(v, w, <<>>, <<>>, FALSE)
  PROVE  Shown(w, c)
<1>1. v.field \o Reverse(<<>>) = v.field /\ v.rule \o Reverse(<<>>) = v.rule
  BY OneSequence, JoinedEmpty DEF Shown, IsViolation
<1> QED
  BY <1>1 DEF Shown, Moved, Keyed

\* An update that moves nothing keeps what was found.
LEMMA FindsKept ==
  ASSUME NEW vs, NEW ws, NEW xs, NEW cs, NEW p \in Nat, p = Len(vs), Sequence(cs),
         Finds(vs, ws, cs), MovesAll(ws, xs, p, <<>>, <<>>, FALSE)
  PROVE  Finds(vs, xs, cs)
<1>1. PICK f : f = Fails(cs)
  OBVIOUS
<1>2. PICK n \in Nat : n = Len(f)
  BY <1>1, FailsSequence
<1>3. Grows(vs, ws) /\ Len(ws) = p + n /\ \A i \in 1..n : Shown(ws[p + i], f[i])
  BY <1>1, <1>2 DEF Finds
<1>4. Updated(ws, xs, p) /\ \A i \in (p + 1)..Len(ws) : Moved(ws[i], xs[i], <<>>, <<>>, FALSE)
  BY DEF MovesAll
<1>5. ASSUME NEW i \in 1..n PROVE Shown(xs[p + i], f[i])
  <2>1. PICK k \in (p + 1)..Len(ws) : k = p + i
    BY <1>3
  <2>2. Moved(ws[k], xs[k], <<>>, <<>>, FALSE)
    BY <1>4
  <2>3. Shown(ws[k], f[i])
    BY <1>3, <2>1
  <2> QED
    BY <2>1, <2>2, <2>3, ShownKept
<1>6. Grows(vs, xs) /\ Len(xs) = p + n
  BY <1>3, <1>4, UpdatedGrows DEF Updated
<1> QED
  BY <1>1, <1>2, <1>5, <1>6, FindsIs

\* Or picked.
LEMMA PicksKept ==
  ASSUME NEW vs, NEW ws, NEW xs, NEW cs, NEW q \in Nat, q = Len(vs),
         Picks(vs, ws, cs), MovesAll(ws, xs, q, <<>>, <<>>, FALSE)
  PROVE  Picks(vs, xs, cs)
<1>1. PICK f : f = Fails(cs)
  OBVIOUS
<1>2. PICK at, p, n : PicksAt(vs, ws, f, at, p, n)
  BY <1>1 DEF Picks
<1>3. p = q /\ n \in Nat /\ Grows(vs, ws) /\ Len(ws) = p + n /\ \A i \in 1..n : Shown(ws[p + i], f[at[i]])
  BY <1>2 DEF PicksAt
<1>4. Updated(ws, xs, q) /\ \A i \in (q + 1)..Len(ws) : Moved(ws[i], xs[i], <<>>, <<>>, FALSE)
  BY DEF MovesAll
<1>5. ASSUME NEW i \in 1..n PROVE Shown(xs[p + i], f[at[i]])
  <2>1. p \in Nat /\ n \in Nat /\ q = p /\ Len(ws) = p + n
    BY <1>3
  <2>2. PICK k \in (q + 1)..Len(ws) : k = p + i
    BY <2>1
  <2>3. Moved(ws[k], xs[k], <<>>, <<>>, FALSE)
    BY <1>4
  <2>4. Shown(ws[k], f[at[i]])
    BY <1>3, <2>2
  <2>5. PICK c : c = f[at[i]]
    OBVIOUS
  <2> QED
    BY <2>2, <2>3, <2>4, <2>5, ShownKept
<1>6. Grows(vs, xs) /\ Len(xs) = p + n
  BY <1>3, <1>4, UpdatedGrows DEF Updated
<1>7. PicksAt(vs, xs, f, at, p, n)
  BY <1>2, <1>5, <1>6 DEF PicksAt
<1> QED
  BY <1>1, <1>7 DEF Picks

\* Sequences of one length are both empty or neither is.
LEMMA SameEmpty ==
  ASSUME NEW a, NEW b, Sequence(a), Sequence(b), Len(a) = Len(b)
  PROVE  a = <<>> <=> b = <<>>
<1>1. \A s : Sequence(s) => (s = <<>> <=> Len(s) = 0)
  <2> SUFFICES ASSUME NEW s, Sequence(s) PROVE s = <<>> <=> Len(s) = 0
    OBVIOUS
  <2>1. PICK S : s \in Seq(S)
    BY DEF Sequence
  <2> QED
    BY <2>1
<1> QED
  BY <1>1

\* An update that moves nothing keeps the checks made, an early return included.
LEMMA MakesKept ==
  ASSUME NEW ff, NEW vs, NEW r, NEW xs, NEW cs, NEW p, p = Len(vs), Makes(ff, vs, r, cs),
         Updated(r.vs, xs, p), r.status = Ok,
         MovesAll(r.vs, xs, p, <<>>, <<>>, FALSE)
  PROVE  Makes(ff, vs, Result(xs, Ok), cs)
<1>1. p \in Nat /\ Sequence(cs)
  BY SequenceLen DEF Makes, Adds, Grows
<1>2. Adds(vs, Result(xs, Ok))
  <2>1. Grows(vs, xs)
    BY <1>1, UpdatedGrows DEF Makes, Adds
  <2> QED
    BY <2>1, AddsOk
<1>3. ShouldReturn(ff, xs, Ok) <=> ShouldReturn(ff, r.vs, r.status)
  <2>1. xs = <<>> <=> r.vs = <<>>
    BY SameEmpty DEF Updated, Makes, Adds, Grows
  <2> QED
    BY <2>1 DEF ShouldReturn
<1>4. ASSUME ~ShouldReturn(ff, xs, Ok) PROVE NoErrors(cs) /\ Finds(vs, xs, cs)
  <2>1. NoErrors(cs) /\ Finds(vs, r.vs, cs) /\ MovesAll(r.vs, xs, p, <<>>, <<>>, FALSE)
    BY <1>3, <1>4 DEF Makes
  <2> QED
    BY <1>1, <2>1, FindsKept
<1>5. Picks(vs, xs, cs)
  <2>1. Picks(vs, r.vs, cs)
    BY DEF Makes
  <2> QED
    BY <1>1, <2>1, PicksKept
<1> QED
  BY <1>1, <1>2, <1>4, <1>5 DEF Makes, Result

\* The checks of a key and of a value, without the element they are found at.
KeyHere(r, e) ==
  IF ~r.hasKeyRules \/ (r.ignoreEmptyKeys /\ e.key.empty) THEN <<>>
  ELSE CelChecks(e.key.exprs, <<>>, <<"map", "keys">>, TRUE,
                 EntryField(r.msg, r.field, e.name, "key"))
ValueHere(r, e) ==
  IF ~r.hasValueRules \/ (r.ignoreEmptyValues /\ e.value.empty) THEN <<>>
  ELSE CelChecks(e.value.exprs, <<>>, <<"map", "values">>, FALSE,
                 EntryField(r.msg, r.field, e.name, "value"))

\* The rules of a key, before the entry is added to the paths.
LEMMA KeyMakes ==
  ASSUME NEW ff, NEW vs, NEW rule, NEW entry, Sequence(vs), WellFormedExprs(entry.key.exprs),
         WithPaths(entry.key.exprs)
  PROVE  Makes(ff, vs, ValidateKey(ff, vs, rule, entry), KeyHere(rule, entry))
<1>1. PICK value : value = EntryField(rule.msg, rule.field, entry.name, "key")
  OBVIOUS
<1>2. PICK exprs : exprs = entry.key.exprs
  OBVIOUS
<1>3. PICK R, none : R = <<"map", "keys">> /\ none = <<>>
  OBVIOUS
<1>4. PICK cel : cel = ValidateCel(ff, vs, exprs)
  OBVIOUS
<1>5. PICK p : p = Len(vs)
  OBVIOUS
<1>6. PICK ruled : ruled = AppendRulePathElement(cel.vs, Reverse(R), p)
  OBVIOUS
<1>7. PICK valued : valued = SetFieldValue(ruled, value, p)
  OBVIOUS
<1>8. PICK found : found = SetForKey(valued, p)
  OBVIOUS
<1>9. Sequence(R) /\ Sequence(none) /\ Reverse(R) = <<"keys", "map">>
  BY <1>3, OneSequence, TwoSequence
<1>10. PICK q : q = IF cel.status # Ok THEN cel ELSE Result(found, Ok)
  OBVIOUS
<1>11. CASE ~rule.hasKeyRules \/ (rule.ignoreEmptyKeys /\ entry.key.empty)
  <2>1. ValidateKey(ff, vs, rule, entry) = Result(vs, Ok) /\ KeyHere(rule, entry) = <<>>
    BY <1>11 DEF ValidateKey, KeyHere
  <2> QED
    BY <2>1, MakesNothing
<1>12. CASE ~(~rule.hasKeyRules \/ (rule.ignoreEmptyKeys /\ entry.key.empty))
  <2>1. ValidateKey(ff, vs, rule, entry) = q
    <3>1. ruled = AppendRulePathElement(cel.vs, <<"keys", "map">>, p)
      BY <1>6, <1>9
    <3> QED
      BY <1>1, <1>2, <1>4, <1>5, <1>7, <1>8, <1>10, <1>12, <3>1 DEF ValidateKey, Then
  <2>2. PICK cs : cs = CelHere(exprs)
    OBVIOUS
  <2>3. PICK ds : ds = CelChecks(exprs, none, R, TRUE, value)
    OBVIOUS
  <2>4. KeyHere(rule, entry) = ds
    BY <1>1, <1>2, <1>3, <1>12, <2>3 DEF KeyHere
  <2>5. PICK yes \in BOOLEAN : yes = TRUE
    OBVIOUS
  <2>6. PICK no \in BOOLEAN : no = FALSE
    OBVIOUS
  <2>7. Makes(ff, vs, cel, cs) /\ Sequence(cs)
    BY <1>2, <1>4, <2>2, ValidateCelMakes DEF Makes
  <2>8. RelocatedAll(cs, ds, none, R, yes)
    BY <1>2, <1>9, <2>2, <2>3, <2>5, RelocatedCel
  <2>9. Sequence(cel.vs) /\ p \in 0..Len(cel.vs)
    <3>1. Grows(vs, cel.vs)
      BY <2>7 DEF Makes, Adds
    <3> QED
      BY <1>5, <3>1, SequenceLen DEF Grows
  <2>10. Updated(cel.vs, ruled, p) /\ Sequence(ruled) /\ p \in 0..Len(ruled)
    <3>1. PICK suffix : suffix = Reverse(R)
      OBVIOUS
    <3>2. ruled = AppendRulePathElement(cel.vs, suffix, p)
      BY <1>6, <3>1
    <3>3. Updated(cel.vs, ruled, p)
      BY <2>9, <3>2, RuleContextUpdates
    <3> QED
      BY <2>9, <3>3 DEF Updated
  <2>11. Updated(ruled, valued, p) /\ Sequence(valued) /\ p \in 0..Len(valued)
    <3>1. Updated(ruled, valued, p)
      BY <1>7, <2>10, RuleContextUpdates
    <3> QED
      BY <2>10, <3>1 DEF Updated
  <2>12. Updated(valued, found, p)
    BY <1>8, <2>11, RuleContextUpdates
  <2>13. Updated(cel.vs, found, p)
    BY <2>10, <2>11, <2>12, UpdatedTwice
  <2>14. ASSUME cel.status = Ok PROVE MovesAll(cel.vs, found, p, none, R, yes)
    <3>1. Picks(vs, cel.vs, cs)
      BY <2>7, <2>14 DEF Makes
    <3>2. AllViolations(cel.vs, p)
      BY <1>5, <3>1, PickedViolations
    <3>3. MovesAll(cel.vs, ruled, p, none, R, no)
      BY <1>3, <1>6, <1>9, <2>6, <2>9, <3>2, RuleMoves
    <3>4. AllViolations(ruled, p)
      BY <3>3, MovedViolations
    <3>5. MovesAll(ruled, valued, p, none, none, no)
      BY <1>3, <1>7, <2>6, <2>10, <3>4, ValueMoves
    <3>6. AllViolations(valued, p)
      BY <3>5, MovedViolations
    <3>7. MovesAll(valued, found, p, none, none, yes)
      BY <1>3, <1>8, <2>5, <2>11, <3>6, KeyMoves
    <3>8. IsJoined(none, none, none) /\ IsJoined(R, none, R)
      BY <1>3, <1>9, OneUnit
    <3>9. no = (no \/ no) /\ yes = (yes \/ no)
      BY <2>5, <2>6
    <3>10. MovesAll(cel.vs, valued, p, none, R, no)
      BY <1>9, <2>9, <3>2, <3>3, <3>5, <3>8, <3>9, MovesTwice
    <3> QED
      BY <1>9, <2>9, <3>2, <3>7, <3>8, <3>9, <3>10, MovesTwice
  <2>15. Makes(ff, vs, q, ds)
    BY <1>5, <1>9, <1>10, <2>7, <2>8, <2>13, <2>14, MakesPlaced
  <2> QED
    BY <2>1, <2>4, <2>15
<1> QED
  BY <1>11, <1>12

\* The rules of a value follow those of its key.
LEMMA ValueMakes ==
  ASSUME NEW ff, NEW vs, NEW r, NEW ka, NEW rule, NEW entry, NEW pos, NEW both, pos = Len(vs),
         Makes(ff, vs, r, ka), r.status = Ok, IsJoined(both, ka, ValueHere(rule, entry)),
         WellFormedExprs(entry.value.exprs), WithPaths(entry.value.exprs)
  PROVE  Makes(ff, vs, ValidateValue(ff, r.vs, rule, entry, pos), both)
<1>1. PICK us : us = r.vs
  OBVIOUS
<1>2. PICK value : value = EntryField(rule.msg, rule.field, entry.name, "value")
  OBVIOUS
<1>3. PICK exprs : exprs = entry.value.exprs
  OBVIOUS
<1>4. PICK R, none : R = <<"map", "values">> /\ none = <<>>
  OBVIOUS
<1>5. PICK cel : cel = ValidateCel(ff, us, exprs)
  OBVIOUS
<1>6. PICK p : p = Len(us)
  OBVIOUS
<1>7. PICK suffix : suffix = Reverse(R)
  OBVIOUS
<1>8. PICK ruled : ruled = AppendRulePathElement(cel.vs, suffix, p)
  OBVIOUS
<1>9. PICK found : found = IF Len(cel.vs) = p THEN cel.vs ELSE SetFieldValue(ruled, value, pos)
  OBVIOUS
<1>10. Sequence(R) /\ Sequence(none) /\ suffix = <<"values", "map">>
  BY <1>4, <1>7, OneSequence, TwoSequence
<1>11. PICK q : q = IF cel.status # Ok THEN cel ELSE Result(found, Ok)
  OBVIOUS
<1>12. Sequence(us) /\ p \in Nat /\ pos \in 0..p
  <2>1. Grows(vs, us)
    BY <1>1 DEF Makes, Adds
  <2> QED
    BY <1>6, <2>1, SequenceLen DEF Grows
<1>13. PICK ds : ds = ValueHere(rule, entry)
  OBVIOUS
<1>14. CASE ~rule.hasValueRules \/ (rule.ignoreEmptyValues /\ entry.value.empty)
  <2>1. ValidateValue(ff, us, rule, entry, pos) = Result(us, Ok) /\ ds = <<>>
    BY <1>13, <1>14 DEF ValidateValue, ValueHere
  <2>2. both = ka
    BY <1>13, <2>1, JoinedEmpty DEF IsJoined, Makes
  <2>3. PICK t : t = Result(us, Ok)
    OBVIOUS
  <2>4. t.vs = r.vs /\ t.status = r.status
    BY <1>1, <2>3 DEF Result
  <2> QED
    BY <1>1, <2>1, <2>2, <2>3, <2>4, MakesSame
<1>15. CASE ~(~rule.hasValueRules \/ (rule.ignoreEmptyValues /\ entry.value.empty))
  <2>1. ValidateValue(ff, us, rule, entry, pos) = q
    <3>1. ruled = AppendRulePathElement(cel.vs, <<"values", "map">>, p)
      BY <1>8, <1>10
    <3> QED
      BY <1>2, <1>3, <1>5, <1>6, <1>9, <1>11, <1>15, <3>1 DEF ValidateValue, Then
  <2>2. PICK cs : cs = CelHere(exprs)
    OBVIOUS
  <2>3. PICK no \in BOOLEAN : no = FALSE
    OBVIOUS
  <2>4. ds = CelChecks(exprs, none, R, no, value)
    BY <1>2, <1>3, <1>4, <1>13, <1>15, <2>3 DEF ValueHere
  <2>5. Makes(ff, us, cel, cs) /\ Sequence(cs)
    BY <1>3, <1>5, <1>12, <2>2, ValidateCelMakes DEF Makes
  <2>6. RelocatedAll(cs, ds, none, R, no)
    BY <1>3, <1>10, <2>2, <2>4, RelocatedCel
  <2>7. Sequence(cel.vs) /\ p \in 0..Len(cel.vs)
    <3>1. Grows(us, cel.vs)
      BY <2>5 DEF Makes, Adds
    <3> QED
      BY <1>6, <3>1, SequenceLen DEF Grows
  <2>8. Updated(cel.vs, ruled, p)
    BY <1>8, <2>7, RuleContextUpdates
  <2>9. Sequence(ruled) /\ pos \in 0..Len(ruled) /\ Len(ruled) = Len(cel.vs)
    <3>1. Sequence(ruled) /\ Len(ruled) = Len(cel.vs)
      BY <2>8 DEF Updated
    <3> QED
      BY <1>12, <2>7, <3>1
  <2>10. ASSUME cel.status = Ok PROVE MovesAll(cel.vs, ruled, p, none, R, no)
    <3>1. Picks(us, cel.vs, cs)
      BY <2>5, <2>10 DEF Makes
    <3>2. AllViolations(cel.vs, p)
      BY <1>6, <3>1, PickedViolations
    <3>3. ruled = AppendRulePathElement(cel.vs, Reverse(R), p)
      BY <1>7, <1>8
    <3> QED
      BY <1>4, <1>10, <2>3, <2>7, <3>2, <3>3, RuleMoves
  <2>11. PICK q1 : q1 = IF cel.status # Ok THEN cel ELSE Result(ruled, Ok)
    OBVIOUS
  <2>12. Makes(ff, us, q1, ds)
    BY <1>6, <1>10, <2>5, <2>6, <2>8, <2>10, <2>11, MakesPlaced
  <2>13. Makes(ff, vs, q1, both)
    BY <1>1, <1>13, <2>12, MakesThen
  <2>14. CASE cel.status # Ok
    <3>1. q = q1
      BY <1>11, <2>11, <2>14
    <3> QED
      BY <1>1, <2>1, <2>13, <3>1
  <2>15. CASE cel.status = Ok /\ Len(cel.vs) = p
    <3>1. ruled = cel.vs
      BY <1>12, <2>7, <2>8, <2>15, SameSequence DEF Updated
    <3>2. q = q1
      BY <1>9, <1>11, <2>11, <2>15, <3>1
    <3> QED
      BY <1>1, <2>1, <2>13, <3>2
  <2>16. CASE cel.status = Ok /\ Len(cel.vs) # p
    <3>1. q1.vs = ruled /\ q1.status = Ok
      BY <2>11, <2>16 DEF Result
    <3>2. found = SetFieldValue(ruled, value, pos) /\ q = Result(found, Ok)
      BY <1>9, <1>11, <2>16
    <3>3. Updated(q1.vs, found, pos)
      BY <2>9, <3>1, <3>2, RuleContextUpdates
    <3>4. MovesAll(q1.vs, found, pos, <<>>, <<>>, FALSE)
      <4>1. Picks(vs, ruled, both)
        BY <2>13, <3>1 DEF Makes
      <4>2. AllViolations(ruled, pos)
        BY <4>1, PickedViolations
      <4> QED
        BY <2>9, <3>1, <3>2, <4>2, ValueMoves
    <3>5. Makes(ff, vs, Result(found, Ok), both)
      BY <2>13, <3>1, <3>3, <3>4, MakesKept
    <3> QED
      BY <1>1, <2>1, <3>2, <3>5
  <2> QED
    BY <2>14, <2>15, <2>16
<1> QED
  BY <1>14, <1>15

\* The reference gives the checks of a key or value the place of the entry at once.
LEMMA RelocatedEntry ==
  ASSUME NEW exprs, NEW field, NEW rule, NEW key \in BOOLEAN, NEW value, WellFormedExprs(exprs),
         WithPaths(exprs), Sequence(field), Sequence(rule)
  PROVE  RelocatedAll(CelChecks(exprs, <<>>, rule, key, value), CelChecks(exprs, field, rule, key, value),
                      field, <<>>, FALSE)
<1>1. PICK n \in Nat : n = Len(exprs)
  BY SequenceLen DEF WellFormedExprs
<1>2. PICK s : s = CelChecks(exprs, <<>>, rule, key, value)
  OBVIOUS
<1>3. PICK t : t = CelChecks(exprs, field, rule, key, value)
  OBVIOUS
<1>4. PICK none : none = <<>>
  OBVIOUS
<1>5. PICK no \in BOOLEAN : no = FALSE
  OBVIOUS
<1>6. s = [i \in 1..n |->
             Check(exprs[i].id, none, rule \o Reverse(exprs[i].path), key, value, exprs[i].field,
                   IF exprs[i].outcome = "error" THEN Invalid ELSE exprs[i].outcome)]
  BY <1>1, <1>2, <1>4 DEF CelChecks
<1>7. t = [i \in 1..n |->
             Check(exprs[i].id, field, rule \o Reverse(exprs[i].path), key, value, exprs[i].field,
                   IF exprs[i].outcome = "error" THEN Invalid ELSE exprs[i].outcome)]
  BY <1>1, <1>3 DEF CelChecks
<1>8. s \in [1..n -> {s[i] : i \in 1..n}] /\ t \in [1..n -> {t[i] : i \in 1..n}]
  BY <1>6, <1>7
<1>9. Sequence(t) /\ Len(t) = n /\ Len(s) = n
  BY <1>8, SequenceIs
<1>10. ASSUME NEW i \in 1..n PROVE Relocated(s[i], t[i], field, none, no)
  <2>1. PICK c : c = s[i]
    OBVIOUS
  <2>2. PICK d : d = t[i]
    OBVIOUS
  <2>3. PICK e : e = exprs[i]
    OBVIOUS
  <2>4. PICK o : o = IF e.outcome = "error" THEN Invalid ELSE e.outcome
    OBVIOUS
  <2>5. PICK path : path = Reverse(e.path)
    OBVIOUS
  <2>6. PICK full : full = rule \o path
    OBVIOUS
  <2>7. c = [id |-> e.id, field |-> none, rule |-> full, forKey |-> key,
             fieldValue |-> value, ruleValue |-> e.field, outcome |-> o]
    BY <1>6, <2>1, <2>3, <2>4, <2>5, <2>6 DEF Check
  <2>8. d = [id |-> e.id, field |-> field, rule |-> full, forKey |-> key,
             fieldValue |-> value, ruleValue |-> e.field, outcome |-> o]
    BY <1>7, <2>2, <2>3, <2>4, <2>5, <2>6 DEF Check
  <2>9. /\ c.id = e.id /\ c.field = none /\ c.rule = full /\ c.forKey = key
        /\ c.ruleValue = e.field /\ c.outcome = o
    BY <2>7
  <2>10. /\ d.id = e.id /\ d.field = field /\ d.rule = full /\ d.forKey = key
         /\ d.ruleValue = e.field /\ d.outcome = o
    BY <2>8
  <2>11. d.field = field \o c.field
    BY <1>4, <2>9, <2>10, JoinedEmpty
  <2>12. d.rule = none \o c.rule
    <3>1. Sequence(path)
      <4>1. Sequence(e.path)
        BY <1>1, <2>3 DEF WithPaths
      <4> QED
        BY <2>5, <4>1, ReverseIs
    <3>2. Sequence(full)
      <4>1. IsJoined(full, rule, path)
        BY <2>6 DEF IsJoined
      <4> QED
        BY <3>1, <4>1, ErrorsJoined
    <3> QED
      BY <1>4, <2>9, <2>10, <3>2, JoinedEmpty
  <2>13. d.forKey = Keyed(no, c.forKey)
    BY <1>5, <2>9, <2>10 DEF Keyed
  <2> QED
    BY <2>1, <2>2, <2>9, <2>10, <2>11, <2>12, <2>13 DEF Relocated
<1> QED
  BY <1>2, <1>3, <1>4, <1>5, <1>9, <1>10 DEF RelocatedAll

\* No checks to move.
LEMMA RelocatedNone ==
  ASSUME NEW F, NEW R, NEW key
  PROVE  RelocatedAll(<<>>, <<>>, F, R, key)
<1>1. PICK none : none = <<>>
  OBVIOUS
<1>2. Sequence(none) /\ Len(none) = 0
  BY <1>1, OneSequence
<1> QED
  BY <1>1, <1>2 DEF RelocatedAll

\* The expressions of an entry's key and value.
WellFormedEntry(entry) ==
  /\ WellFormedExprs(entry.key.exprs) /\ WithPaths(entry.key.exprs)
  /\ WellFormedExprs(entry.value.exprs) /\ WithPaths(entry.value.exprs)

\* The rules of an entry: those of its key, then those of its value.
LEMMA EntryMakes ==
  ASSUME NEW ff, NEW vs, NEW rule, NEW i, Sequence(vs), WellFormedEntry(rule.entries[i])
  PROVE  Makes(ff, vs, ValidateEntry(ff, vs, rule, i), EntryChecks(rule, i))
<1>1. PICK entry : entry = rule.entries[i]
  OBVIOUS
<1>2. PICK pos : pos = Len(vs)
  OBVIOUS
<1>3. PICK x : x = ItemElement(rule.field, <<entry.name>>)
  OBVIOUS
<1>4. PICK key : key = ValidateKey(ff, vs, rule, entry)
  OBVIOUS
<1>5. PICK q0 : q0 = IF key.status # Ok THEN key ELSE ValidateValue(ff, key.vs, rule, entry, pos)
  OBVIOUS
<1>6. PICK named : named = AppendFieldPathElement(q0.vs, x, pos)
  OBVIOUS
<1>7. PICK q : q = IF q0.status # Ok THEN q0 ELSE Result(named, Ok)
  OBVIOUS
<1>8. ValidateEntry(ff, vs, rule, i) = q
  <2>1. CASE key.status # Ok
    <3>1. q = key
      BY <1>5, <1>7, <2>1
    <3> QED
      BY <1>1, <1>4, <2>1, <3>1 DEF ValidateEntry, Then
  <2>2. CASE key.status = Ok
    <3>1. q0 = ValidateValue(ff, key.vs, rule, entry, pos)
      BY <1>5, <2>2
    <3> QED
      BY <1>1, <1>2, <1>3, <1>4, <1>6, <1>7, <2>2, <3>1 DEF ValidateEntry, Then
  <2> QED
    BY <2>1, <2>2
<1>9. PICK a : a = KeyHere(rule, entry)
  OBVIOUS
<1>10. PICK b : b = ValueHere(rule, entry)
  OBVIOUS
<1>11. PICK c : c = a \o b
  OBVIOUS
<1>12. IsJoined(c, a, b)
  BY <1>11 DEF IsJoined
<1>13. /\ WellFormedExprs(entry.key.exprs) /\ WithPaths(entry.key.exprs)
       /\ WellFormedExprs(entry.value.exprs) /\ WithPaths(entry.value.exprs)
  BY <1>1 DEF WellFormedEntry
<1>14. Makes(ff, vs, key, a) /\ Sequence(a)
  BY <1>4, <1>9, <1>13, KeyMakes DEF Makes
<1>15. PICK empty : empty = <<>>
  OBVIOUS
<1>16. PICK at : at = <<x>>
  OBVIOUS
<1>17. PICK no \in BOOLEAN : no = FALSE
  OBVIOUS
<1>18. PICK yes \in BOOLEAN : yes = TRUE
  OBVIOUS
<1>19. Sequence(empty) /\ Sequence(at)
  BY <1>15, <1>16, OneSequence
<1>20. PICK a2 : a2 = IF ~rule.hasKeyRules \/ (rule.ignoreEmptyKeys /\ entry.key.empty) THEN <<>>
                      ELSE CelChecks(entry.key.exprs, at, <<"map", "keys">>, TRUE,
                                     EntryField(rule.msg, rule.field, entry.name, "key"))
  OBVIOUS
<1>21. PICK b2 : b2 = IF ~rule.hasValueRules \/ (rule.ignoreEmptyValues /\ entry.value.empty) THEN <<>>
                      ELSE CelChecks(entry.value.exprs, at, <<"map", "values">>, FALSE,
                                     EntryField(rule.msg, rule.field, entry.name, "value"))
  OBVIOUS
<1>22. PICK c2 : c2 = a2 \o b2
  OBVIOUS
<1>23. c2 = EntryChecks(rule, i)
  BY <1>1, <1>3, <1>16, <1>20, <1>21, <1>22 DEF EntryChecks
<1>24. RelocatedAll(a, a2, at, empty, no)
  <2>1. CASE ~rule.hasKeyRules \/ (rule.ignoreEmptyKeys /\ entry.key.empty)
    <3>1. a = empty /\ a2 = empty
      BY <1>9, <1>15, <1>20, <2>1 DEF KeyHere
    <3> QED
      BY <1>15, <3>1, RelocatedNone
  <2>2. CASE ~(~rule.hasKeyRules \/ (rule.ignoreEmptyKeys /\ entry.key.empty))
    <3>1. PICK exprs, R, value : /\ exprs = entry.key.exprs /\ R = <<"map", "keys">>
                                 /\ value = EntryField(rule.msg, rule.field, entry.name, "key")
      OBVIOUS
    <3>2. a = CelChecks(exprs, empty, R, yes, value) /\ a2 = CelChecks(exprs, at, R, yes, value)
      BY <1>9, <1>15, <1>18, <1>20, <2>2, <3>1 DEF KeyHere
    <3>3. Sequence(R) /\ WellFormedExprs(exprs) /\ WithPaths(exprs)
      BY <1>13, <3>1, TwoSequence
    <3>4. RelocatedAll(CelChecks(exprs, <<>>, R, yes, value), CelChecks(exprs, at, R, yes, value),
                       at, <<>>, FALSE)
      BY <1>19, <3>3, RelocatedEntry
    <3> QED
      BY <1>15, <1>17, <3>2, <3>4
  <2> QED
    BY <2>1, <2>2
<1>25. RelocatedAll(b, b2, at, empty, no)
  <2>1. CASE ~rule.hasValueRules \/ (rule.ignoreEmptyValues /\ entry.value.empty)
    <3>1. b = empty /\ b2 = empty
      BY <1>10, <1>15, <1>21, <2>1 DEF ValueHere
    <3> QED
      BY <1>15, <3>1, RelocatedNone
  <2>2. CASE ~(~rule.hasValueRules \/ (rule.ignoreEmptyValues /\ entry.value.empty))
    <3>1. PICK exprs, R, value : /\ exprs = entry.value.exprs /\ R = <<"map", "values">>
                                 /\ value = EntryField(rule.msg, rule.field, entry.name, "value")
      OBVIOUS
    <3>2. b = CelChecks(exprs, empty, R, no, value) /\ b2 = CelChecks(exprs, at, R, no, value)
      BY <1>10, <1>15, <1>17, <1>21, <2>2, <3>1 DEF ValueHere
    <3>3. Sequence(R) /\ WellFormedExprs(exprs) /\ WithPaths(exprs)
      BY <1>13, <3>1, TwoSequence
    <3>4. RelocatedAll(CelChecks(exprs, <<>>, R, no, value), CelChecks(exprs, at, R, no, value),
                       at, <<>>, FALSE)
      BY <1>19, <3>3, RelocatedEntry
    <3> QED
      BY <1>15, <1>17, <3>2, <3>4
  <2> QED
    BY <2>1, <2>2
<1>26. Sequence(b)
  <2>1. CASE b = <<>>
    BY <1>15, <1>19, <2>1
  <2>2. CASE b = CelChecks(entry.value.exprs, <<>>, <<"map", "values">>, FALSE,
                           EntryField(rule.msg, rule.field, entry.name, "value"))
    <3>1. PICK exprs, R, value : /\ exprs = entry.value.exprs /\ R = <<"map", "values">>
                                 /\ value = EntryField(rule.msg, rule.field, entry.name, "value")
      OBVIOUS
    <3>2. b = CelChecks(exprs, empty, R, no, value)
      BY <1>15, <1>17, <2>2, <3>1
    <3>3. Sequence(R) /\ WellFormedExprs(exprs) /\ WithPaths(exprs)
      BY <1>13, <3>1, TwoSequence
    <3>4. RelocatedAll(CelHere(exprs), b, empty, R, no)
      BY <1>19, <3>2, <3>3, RelocatedCel
    <3> QED
      BY <3>4 DEF RelocatedAll
  <2> QED
    BY <1>10, <2>1, <2>2 DEF ValueHere
<1>27. RelocatedAll(c, c2, at, empty, no)
  <2>1. IsJoined(c2, a2, b2)
    BY <1>22 DEF IsJoined
  <2> QED
    BY <1>12, <1>14, <1>24, <1>25, <1>26, <2>1, RelocatedJoined
<1>28. Makes(ff, vs, q0, c) /\ Sequence(c)
  <2>1. CASE key.status # Ok
    <3>1. q0 = key
      BY <1>5, <2>1
    <3> QED
      BY <1>12, <1>14, <1>26, <2>1, <3>1, MakesError DEF Makes
  <2>2. CASE key.status = Ok
    <3>1. q0 = ValidateValue(ff, key.vs, rule, entry, pos)
      BY <1>5, <2>2
    <3>2. IsJoined(c, a, ValueHere(rule, entry))
      BY <1>10, <1>12
    <3>3. Makes(ff, vs, ValidateValue(ff, key.vs, rule, entry, pos), c)
      BY <1>2, <1>13, <1>14, <2>2, <3>2, ValueMakes
    <3> QED
      BY <3>1, <3>3 DEF Makes
  <2> QED
    BY <2>1, <2>2
<1>29. Sequence(q0.vs) /\ pos \in 0..Len(q0.vs)
  <2>1. Grows(vs, q0.vs)
    BY <1>28 DEF Makes, Adds
  <2> QED
    BY <1>2, <2>1, SequenceLen DEF Grows
<1>30. Updated(q0.vs, named, pos)
  BY <1>6, <1>29, RuleContextUpdates
<1>31. ASSUME q0.status = Ok PROVE MovesAll(q0.vs, named, pos, at, empty, no)
  <2>1. Picks(vs, q0.vs, c)
    BY <1>28, <1>31 DEF Makes
  <2>2. AllViolations(q0.vs, pos)
    BY <1>2, <2>1, PickedViolations
  <2> QED
    BY <1>6, <1>15, <1>16, <1>17, <1>29, <2>2, FieldMoves
<1>32. Makes(ff, vs, q, c2)
  BY <1>2, <1>7, <1>19, <1>27, <1>28, <1>30, <1>31, MakesPlaced
<1> QED
  BY <1>8, <1>23, <1>32

\* A turn of the loop over entries.
LEMMA EntryTurn ==
  ASSUME NEW ff, NEW rule, NEW acc, NEW i, Sequence(acc.vs), WellFormedEntry(rule.entries[i])
  PROVE  LoopTurn(ff, acc, EntryStep(ff, rule, acc, i), EntryChecks(rule, i))
<1>1. PICK r : r = ValidateEntry(ff, acc.vs, rule, i)
  OBVIOUS
<1>2. Makes(ff, acc.vs, r, EntryChecks(rule, i))
  BY <1>1, EntryMakes
<1>3. PICK next : next = EntryStep(ff, rule, acc, i)
  OBVIOUS
<1>4. CASE acc.stop
  <2>1. next = acc
    BY <1>3, <1>4 DEF EntryStep
  <2> QED
    BY <1>3, <1>4, <2>1 DEF LoopTurn
<1>5. CASE ~acc.stop
  <2>1. next = [vs |-> r.vs, status |-> r.status,
                stop |-> r.status # Ok \/ (ff /\ Len(r.vs) > Len(acc.vs))]
    BY <1>1, <1>3, <1>5 DEF EntryStep
  <2>2. /\ next.vs = r.vs /\ next.status = r.status
        /\ next.stop <=> r.status # Ok \/ (ff /\ Len(r.vs) > Len(acc.vs))
    BY <2>1
  <2>3. ~next.stop => r.status = Ok
    BY <2>2
  <2>4. Len(r.vs) > Len(acc.vs) => r.vs # <<>>
    <3>1. Sequence(r.vs) /\ Len(acc.vs) \in Nat
      BY <1>2, SequenceLen DEF Makes, Adds, Grows
    <3>2. PICK none : none = <<>>
      OBVIOUS
    <3>3. Sequence(none) /\ Len(none) = 0
      BY <3>2, OneSequence
    <3> QED
      BY <3>1, <3>2, <3>3
  <2>5. next.stop => ShouldReturn(ff, r.vs, r.status)
    BY <2>2, <2>4 DEF ShouldReturn
  <2> QED
    BY <1>2, <1>3, <1>5, <2>2, <2>3, <2>5 DEF LoopTurn
<1> QED
  BY <1>4, <1>5

\* MapValidationRules::Validate.
LEMMA MapMakes ==
  ASSUME NEW ff, NEW vs, NEW rule, Sequence(vs), WellFormedField(rule), Sequence(rule.entries),
         rule.keys \in Statuses,
         \A i \in 1..Len(rule.entries) : WellFormedEntry(rule.entries[i])
  PROVE  Makes(ff, vs, ValidateMap(ff, vs, rule),
               FieldChecks(rule) \o KeysChecks(rule)
                 \o FlattenSeq([i \in 1..Len(rule.entries) |-> EntryChecks(rule, i)]))
<1>1. PICK base : base = ValidateField(ff, vs, rule)
  OBVIOUS
<1>2. PICK N \in Nat : N = Len(rule.entries) /\ N = Len(Indices(rule.entries))
  BY IndicesOf
<1>3. \A n \in 1..N : Indices(rule.entries)[n] = n
  BY <1>2, IndicesOf
<1>4. PICK f : f = CHOOSE h : EntryRuns(ff, ValidateField(ff, vs, rule).vs, rule,
                                        Indices(rule.entries), h, Len(Indices(rule.entries)))
  OBVIOUS
<1>5. PICK loop : loop = LoopEnd(f[N])
  OBVIOUS
<1>6. PICK q : q = ValidateMap(ff, vs, rule)
  OBVIOUS
<1> DEFINE hasRules == rule.hasKeyRules \/ rule.hasValueRules
<1>7. q = IF base.status # Ok THEN base
          ELSE IF ~hasRules THEN Result(base.vs, Ok)
          ELSE IF rule.keys # Ok THEN Result(base.vs, rule.keys)
          ELSE loop
  <2>1. loop = Result(f[Len(Indices(rule.entries))].vs,
                      IF f[Len(Indices(rule.entries))].stop
                        THEN f[Len(Indices(rule.entries))].status ELSE Ok)
    BY <1>2, <1>5 DEF LoopEnd
  <2> DEFINE bs == ValidateField(ff, vs, rule)
             M == Len(Indices(rule.entries))
             g == CHOOSE h : EntryRuns(ff, bs.vs, rule, Indices(rule.entries), h, M)
  <2>2. ValidateMap(ff, vs, rule)
          = IF bs.status # Ok THEN bs
            ELSE IF ~hasRules THEN Result(bs.vs, Ok)
            ELSE IF rule.keys # Ok THEN Result(bs.vs, rule.keys)
            ELSE Result(g[M].vs, IF g[M].stop THEN g[M].status ELSE Ok)
    BY DEF ValidateMap, ValidateEntries, Then, Loop, EntryRuns, EntryStep, Started
  <2>3. f = g
    BY <1>4
  <2> HIDE DEF g, hasRules
  <2> QED
    BY <1>1, <1>6, <2>1, <2>2, <2>3
<1>8. PICK a : a = FieldChecks(rule) \o KeysChecks(rule)
  OBVIOUS
<1>9. PICK keyed : keyed = IF base.status # Ok THEN base
                            ELSE IF ~hasRules THEN Result(base.vs, Ok)
                            ELSE Result(base.vs, rule.keys)
  OBVIOUS
<1>10. q = IF keyed.status # Ok THEN keyed
           ELSE IF ~hasRules THEN Result(keyed.vs, Ok)
           ELSE loop
  <2> HIDE DEF hasRules
  <2>1. CASE base.status # Ok
    BY <1>7, <1>9, <2>1
  <2>2. CASE base.status = Ok /\ ~hasRules
    BY <1>7, <1>9, <2>2 DEF Result
  <2>3. CASE base.status = Ok /\ hasRules
    <3>1. keyed = Result(base.vs, rule.keys) /\ keyed.status = rule.keys
      BY <1>9, <2>3 DEF Result
    <3> QED
      BY <1>7, <2>3, <3>1
  <2> QED
    BY <2>1, <2>2, <2>3
<1>11. Makes(ff, vs, keyed, a) /\ Sequence(keyed.vs)
  <2>1. PICK field, keys : field = FieldChecks(rule) /\ keys = KeysChecks(rule)
    OBVIOUS
  <2>2. Makes(ff, vs, base, field) /\ Sequence(base.vs)
    BY <1>1, <2>1, FieldMakes DEF Makes, Adds, Grows
  <2>3. IsJoined(a, field, keys)
    BY <1>8, <2>1 DEF IsJoined
  <2>4. PICK us : us = base.vs
    OBVIOUS
  <2>5. PICK next : next = IF hasRules THEN Result(us, rule.keys) ELSE Result(us, Ok)
    OBVIOUS
  <2>6. Makes(ff, us, next, keys) /\ Sequence(keys)
    <3>1. CASE hasRules
      <4>1. keys = Access("keys", rule, rule.keys)
        BY <2>1, <3>1 DEF KeysChecks
      <4>2. Makes(ff, us, next, keys)
        BY <2>2, <2>4, <2>5, <3>1, <4>1, AccessMakes
      <4> QED
        BY <4>2 DEF Makes
    <3>2. CASE ~hasRules
      <4>1. keys = <<>>
        BY <2>1, <3>2 DEF KeysChecks
      <4>2. Makes(ff, us, next, keys)
        BY <2>2, <2>4, <2>5, <3>2, <4>1, MakesNothing
      <4> QED
        BY <4>2 DEF Makes
    <3> QED
      BY <3>1, <3>2
  <2>7. CASE base.status # Ok
    <3>1. keyed = base
      BY <1>9, <2>7
    <3>2. Makes(ff, vs, base, a)
      BY <2>2, <2>3, <2>6, <2>7, MakesError
    <3> QED
      BY <2>2, <3>1, <3>2
  <2>8. CASE base.status = Ok
    <3>1. keyed = next
      BY <1>9, <2>4, <2>5, <2>8
    <3>2. Makes(ff, vs, keyed, a)
      BY <2>2, <2>3, <2>4, <2>6, <2>8, <3>1, MakesThen
    <3> QED
      BY <3>2 DEF Makes, Adds, Grows
  <2> QED
    BY <2>7, <2>8
<1> HIDE DEF hasRules
<1>12. PICK c : c = [i \in 1..N |-> EntryChecks(rule, i)]
  OBVIOUS
<1>13. \A i \in 1..N : c[i] = EntryChecks(rule, i)
  BY <1>12
<1>14. ASSUME NEW i \in 1..N PROVE Sequence(c[i])
  <2>1. WellFormedEntry(rule.entries[i])
    BY <1>2
  <2>2. Sequence(<<>>)
    BY OneSequence
  <2>3. Makes(FALSE, <<>>, ValidateEntry(FALSE, <<>>, rule, i), EntryChecks(rule, i))
    BY <2>1, <2>2, EntryMakes
  <2>4. Sequence(EntryChecks(rule, i))
    BY <2>3 DEF Makes
  <2> QED
    BY <1>13, <2>4
<1>15. PICK b : b = Flat(c, N)
  OBVIOUS
<1>16. Sequence(b)
  <2>1. N \in 0..N
    OBVIOUS
  <2> QED
    BY <1>14, <1>15, <2>1, FlatGrows
<1>17. b = FlattenSeq([i \in 1..Len(rule.entries) |-> EntryChecks(rule, i)])
  <2>1. [i \in 1..N |-> c[i]] = [i \in 1..N |-> EntryChecks(rule, i)]
    BY <1>13
  <2> QED
    BY <1>2, <1>15, <2>1 DEF Flat
<1>18. PICK e : e = a \o b
  OBVIOUS
<1>19. IsJoined(e, a, b)
  BY <1>18 DEF IsJoined
<1>20. CASE keyed.status # Ok \/ ~hasRules
  <2>1. ~hasRules => b = <<>>
    <3>1. ASSUME ~hasRules, NEW i \in 1..N PROVE c[i] = <<>>
      <4>1. PICK none : none = <<>>
        OBVIOUS
      <4>2. EntryChecks(rule, i) = none \o none
        BY <3>1, <4>1 DEF EntryChecks, hasRules
      <4>3. none \o none = none
        BY <4>1, OneSequence, JoinedEmpty
      <4> QED
        BY <1>13, <4>1, <4>2, <4>3
    <3> QED
      BY <1>15, <3>1, FlatEmpty
  <2>2. \/ keyed.status # Ok /\ q = keyed
        \/ keyed.status = Ok /\ q = Result(keyed.vs, Ok) /\ (ShouldReturn(ff, keyed.vs, Ok) \/ b = <<>>)
    BY <1>20, <1>10, <2>1
  <2>3. Makes(ff, vs, q, e)
    BY <1>11, <1>16, <1>19, <2>2, MakesBase
  <2> QED
    BY <1>6, <1>8, <1>17, <1>18, <2>3
<1>21. CASE keyed.status = Ok /\ hasRules
  <2>9. base.status = Ok /\ keyed.vs = base.vs
    BY <1>21, <1>9 DEF Result
  <2>1. EntryRuns(ff, base.vs, rule, Indices(rule.entries), f, N)
    <3>1. EntryRuns(ff, ValidateField(ff, vs, rule).vs, rule, Indices(rule.entries), f,
                    Len(Indices(rule.entries)))
      BY <1>2, <1>4, EntryRunsExists
    <3> QED
      BY <1>1, <1>2, <3>1
  <2>2. /\ f[0] = Started(base.vs)
        /\ \A n \in 1..N : f[n] = EntryStep(ff, rule, f[n - 1], Indices(rule.entries)[n])
    <3>1. ASSUME NEW n \in 0..N
          PROVE  f[n] = IF n = 0 THEN Started(base.vs)
                        ELSE EntryStep(ff, rule, f[n - 1], Indices(rule.entries)[n])
      BY <2>1, Zenon DEF EntryRuns
    <3>2. 0 \in 0..N /\ \A n \in 1..N : n \in 0..N /\ n # 0
      OBVIOUS
    <3> QED
      BY <3>1, <3>2
  <2>3. ASSUME NEW n \in 1..N, Sequence(f[n - 1].vs) PROVE LoopTurn(ff, f[n - 1], f[n], c[n])
    <3>1. f[n] = EntryStep(ff, rule, f[n - 1], n)
      BY <1>3, <2>2
    <3>2. WellFormedEntry(rule.entries[n])
      BY <1>2
    <3>3. PICK acc : acc = f[n - 1]
      OBVIOUS
    <3>4. LoopTurn(ff, acc, EntryStep(ff, rule, acc, n), EntryChecks(rule, n))
      BY <2>3, <3>2, <3>3, EntryTurn
    <3> QED
      BY <1>13, <3>1, <3>3, <3>4
  <2>4. AllSequences(c, N)
    BY <1>14 DEF AllSequences
  <2>5. PICK us : us = keyed.vs
    OBVIOUS
  <2>6. Makes(ff, us, loop, b)
    BY <1>5, <1>11, <1>15, <2>2, <2>3, <2>4, <2>5, <2>9, LoopMakes
  <2>7. q = loop
    BY <1>21, <1>10
  <2>8. Makes(ff, vs, q, e)
    BY <1>11, <1>19, <1>21, <2>5, <2>6, <2>7, MakesThen
  <2> QED
    BY <1>6, <1>8, <1>17, <1>18, <2>8
<1> QED
  BY <1>20, <1>21
-------------------------------------------------------------------------------
(* Oneof rules, and all rules.                                             *)

\* A rule object of a oneof makes its one check.
LEMMA OneofMakes ==
  ASSUME NEW ff, NEW vs, NEW id, NEW field, NEW b \in BOOLEAN, NEW v, NEW c, NEW new, Sequence(vs),
         IsReverse(field, field), IsNew(v, id, field, <<>>, NoValue, NoField),
         IsCheck(c, id, field, <<>>, NoValue, NoField, Outcome(b)), new = (IF b THEN Append(vs, v) ELSE vs)
  PROVE  Makes(ff, vs, Result(new, Ok), <<c>>)
<1>1. PICK none, o, x, value : none = <<>> /\ o = Outcome(b) /\ x = NoField /\ value = NoValue
  OBVIOUS
<1>2. IsReverse(none, none)
  BY <1>1, OneSequence DEF IsReverse
<1>3. IsNew(v, id, field, none, value, x) /\ IsCheck(c, id, field, none, value, x, o)
  BY <1>1
<1>4. Shown(v, c) /\ c.outcome = o
  BY <1>2, <1>3, ShownNew
<1>5. /\ c.outcome \in {"pass", "fail"}
      /\ c.outcome = "fail" => Shown(v, c) /\ new = Append(vs, v)
      /\ c.outcome = "pass" => new = vs
  BY <1>1, <1>4 DEF Outcome
<1> QED
  BY <1>5, MakesOne

\* The rule objects that the rules of a message compile to: Any rules apply to
\* values of type Any only, and the status of expressions on such an item is lost.
ShownRule(rule) ==
  /\ WellFormedRule(rule)
  /\ rule.kind = "message" => WithPaths(rule.exprs)
  /\ rule.kind \in {"field", "enum", "repeated", "map"} => WellFormedField(rule)
  /\ rule.kind = "repeated" => \A i \in 1..Len(rule.items) : WellFormedItem(rule, i)
  /\ rule.kind = "map" => \A i \in 1..Len(rule.entries) : WellFormedEntry(rule.entries[i])

\* Every rule object makes the checks that the reference gives it: what Validate adds to
\* the violations, and whether it returns an error.
THEOREM ValidateMakes ==
  ASSUME NEW ff, NEW vs, NEW rule, Sequence(vs), ShownRule(rule)
  PROVE  Makes(ff, vs, Validate(ff, vs, rule), RuleChecks(rule))
<1>1. CASE rule.kind = "message"
  <2>1. Validate(ff, vs, rule) = ValidateCel(ff, vs, rule.exprs)
    BY <1>1 DEF Validate, ValidateMessageCel
  <2>2. RuleChecks(rule) = CelHere(rule.exprs)
    BY <1>1 DEF RuleChecks, CelHere
  <2>3. WellFormedExprs(rule.exprs) /\ WithPaths(rule.exprs)
    BY <1>1 DEF ShownRule, WellFormedRule
  <2> QED
    BY <2>1, <2>2, <2>3, ValidateCelMakes
<1>2. CASE rule.kind = "field"
  <2>1. Validate(ff, vs, rule) = ValidateField(ff, vs, rule) /\ RuleChecks(rule) = FieldChecks(rule)
    BY <1>2 DEF Validate, RuleChecks
  <2>2. WellFormedField(rule)
    BY <1>2 DEF ShownRule
  <2> QED
    BY <2>1, <2>2, FieldMakes
<1>3. CASE rule.kind = "enum"
  <2>1. Validate(ff, vs, rule) = ValidateEnum(ff, vs, rule)
    BY <1>3 DEF Validate
  <2>2. RuleChecks(rule) = FieldChecks(rule) \o EnumChecks(rule)
    BY <1>3 DEF RuleChecks
  <2>3. WellFormedField(rule)
    BY <1>3 DEF ShownRule
  <2>4. Makes(ff, vs, ValidateEnum(ff, vs, rule), FieldChecks(rule) \o EnumChecks(rule))
    BY <2>3, EnumMakes
  <2> QED
    BY <2>1, <2>2, <2>4
<1>4. CASE rule.kind = "repeated"
  <2>1. Validate(ff, vs, rule) = ValidateRepeated(ff, vs, rule)
    BY <1>4 DEF Validate
  <2>2. RuleChecks(rule)
          = FieldChecks(rule) \o FlattenSeq([i \in 1..Len(rule.items) |-> ItemChecks(rule, i)])
    BY <1>4 DEF RuleChecks
  <2>3. /\ WellFormedField(rule) /\ Sequence(rule.items)
        /\ \A i \in 1..Len(rule.items) : WellFormedItem(rule, i)
    BY <1>4 DEF ShownRule, WellFormedRule
  <2>4. Makes(ff, vs, ValidateRepeated(ff, vs, rule),
              FieldChecks(rule)
                \o FlattenSeq([i \in 1..Len(rule.items) |-> ItemChecks(rule, i)]))
    BY <2>3, RepeatedMakes
  <2> QED
    BY <2>1, <2>2, <2>4
<1>5. CASE rule.kind = "map"
  <2>1. Validate(ff, vs, rule) = ValidateMap(ff, vs, rule)
    BY <1>5 DEF Validate
  <2>2. RuleChecks(rule)
          = FieldChecks(rule) \o KeysChecks(rule)
              \o FlattenSeq([i \in 1..Len(rule.entries) |-> EntryChecks(rule, i)])
    BY <1>5 DEF RuleChecks
  <2>3. /\ WellFormedField(rule) /\ Sequence(rule.entries) /\ rule.keys \in Statuses
        /\ \A i \in 1..Len(rule.entries) : WellFormedEntry(rule.entries[i])
    BY <1>5 DEF ShownRule, WellFormedRule
  <2>4. Makes(ff, vs, ValidateMap(ff, vs, rule),
              FieldChecks(rule) \o KeysChecks(rule)
                \o FlattenSeq([i \in 1..Len(rule.entries) |-> EntryChecks(rule, i)]))
    BY <2>3, MapMakes
  <2> QED
    BY <2>1, <2>2, <2>4
<1>6. CASE rule.kind = "oneof"
  <2>1. PICK b \in BOOLEAN : b = (rule.required /\ ~rule.present)
    OBVIOUS
  <2>2. PICK id, field : id = "required" /\ field = <<Element(rule.field)>>
    OBVIOUS
  <2>3. PICK v : v = Violation(id, field, <<>>, NoValue, NoField)
    OBVIOUS
  <2>4. PICK c : c = Check(id, field, <<>>, FALSE, NoValue, NoField, Outcome(b))
    OBVIOUS
  <2>5. PICK new : new = IF b THEN Append(vs, v) ELSE vs
    OBVIOUS
  <2>6. Validate(ff, vs, rule) = Result(new, Ok)
    BY <1>6, <2>1, <2>2, <2>3, <2>5 DEF Validate, ValidateOneof
  <2>7. RuleChecks(rule) = <<c>>
    BY <1>6, <2>1, <2>2, <2>4 DEF RuleChecks
  <2>8. IsReverse(field, field)
    BY <2>2, OneSequence DEF IsReverse
  <2>9. /\ IsNew(v, id, field, <<>>, NoValue, NoField)
        /\ IsCheck(c, id, field, <<>>, NoValue, NoField, Outcome(b))
    BY <2>3, <2>4 DEF IsNew, IsCheck
  <2>10. Makes(ff, vs, Result(new, Ok), <<c>>)
    BY <2>5, <2>8, <2>9, OneofMakes
  <2> QED
    BY <2>6, <2>7, <2>10
<1>7. CASE rule.kind = "message_oneof"
  <2>1. PICK b \in BOOLEAN : b = (rule.hasCount > 1 \/ (rule.required /\ rule.hasCount = 0))
    OBVIOUS
  <2>2. PICK id, field : id = "message.oneof" /\ field = <<>>
    OBVIOUS
  <2>3. PICK v : v = Violation(id, field, <<>>, NoValue, NoField)
    OBVIOUS
  <2>4. PICK c : c = Check(id, field, <<>>, FALSE, NoValue, NoField, Outcome(b))
    OBVIOUS
  <2>5. PICK new : new = IF b THEN Append(vs, v) ELSE vs
    OBVIOUS
  <2>6. Validate(ff, vs, rule) = Result(new, Ok)
    BY <1>7, <2>1, <2>2, <2>3, <2>5 DEF Validate, ValidateMessageOneof
  <2>7. RuleChecks(rule) = <<c>>
    BY <1>7, <2>1, <2>2, <2>4 DEF RuleChecks
  <2>8. IsReverse(field, field)
    BY <2>2, OneSequence DEF IsReverse
  <2>9. /\ IsNew(v, id, field, <<>>, NoValue, NoField)
        /\ IsCheck(c, id, field, <<>>, NoValue, NoField, Outcome(b))
    BY <2>3, <2>4 DEF IsNew, IsCheck
  <2>10. Makes(ff, vs, Result(new, Ok), <<c>>)
    BY <2>5, <2>8, <2>9, OneofMakes
  <2> QED
    BY <2>6, <2>7, <2>10
<1> QED
  BY <1>1, <1>2, <1>3, <1>4, <1>5, <1>6, <1>7 DEF ShownRule, WellFormedRule
-------------------------------------------------------------------------------
(* The checks of a rule object are records; one that cannot be made has a    *)
(* status as its outcome.                                                    *)

CheckRecord(c) ==
  /\ c = [id |-> c.id, field |-> c.field, rule |-> c.rule, forKey |-> c.forKey,
          fieldValue |-> c.fieldValue, ruleValue |-> c.ruleValue, outcome |-> c.outcome]
  /\ Sequence(c.rule)

AreChecks(cs, O) ==
  Sequence(cs) /\ \A i \in 1..Len(cs) : CheckRecord(cs[i]) /\ cs[i].outcome \in O

RuleOutcomes == {"pass", "fail"} \cup (Statuses \ {Ok})

\* No checks are checks.
LEMMA NoChecks ==
  ASSUME NEW O
  PROVE  AreChecks(<<>>, O)
<1>1. PICK none : none = <<>>
  OBVIOUS
<1>2. Sequence(none) /\ Len(none) = 0
  BY <1>1, OneSequence
<1> QED
  BY <1>1, <1>2 DEF AreChecks

\* One check.
LEMMA OneCheck ==
  ASSUME NEW c, NEW O, CheckRecord(c), c.outcome \in O
  PROVE  AreChecks(<<c>>, O)
<1>1. PICK s : s = <<c>>
  OBVIOUS
<1>2. Sequence(s) /\ Len(s) = 1 /\ s[1] = c
  BY <1>1, OneSequence
<1> QED
  BY <1>1, <1>2 DEF AreChecks

\* Checks end to end.
LEMMA ChecksJoined ==
  ASSUME NEW a, NEW b, NEW c, NEW O, AreChecks(a, O), AreChecks(b, O), IsJoined(c, a, b)
  PROVE  AreChecks(c, O)
<1>1. Sequence(a) /\ Sequence(b)
  BY DEF AreChecks
<1>2. PICK m \in Nat : m = Len(a)
  BY <1>1, SequenceLen
<1>3. PICK n \in Nat : n = Len(b)
  BY <1>1, SequenceLen
<1>4. Len(a) = m /\ Len(b) = n
  BY <1>2, <1>3
<1>5. /\ Sequence(c) /\ Len(c) = m + n
      /\ \A i \in 1..m : c[i] = a[i]
      /\ \A i \in 1..n : c[m + i] = b[i]
  BY <1>1, <1>4, JoinedParts
<1>6. ASSUME NEW i \in 1..Len(c) PROVE CheckRecord(c[i]) /\ c[i].outcome \in O
  <2>1. CASE i <= m
    BY <1>2, <1>5, <2>1 DEF AreChecks
  <2>2. CASE i > m
    <3>1. PICK k \in 1..n : i = m + k
      <4>1. i - m \in 1..n /\ i = m + (i - m)
        BY <1>5, <2>2
      <4> QED
        BY <4>1
    <3> QED
      BY <1>3, <1>5, <3>1 DEF AreChecks
  <2> QED
    BY <2>1, <2>2
<1> QED
  BY <1>5, <1>6 DEF AreChecks

\* And any number of sequences of them.
LEMMA ChecksFlat ==
  ASSUME NEW g, NEW N \in Nat, NEW O, \A i \in 1..N : AreChecks(g[i], O)
  PROVE  AreChecks(Flat(g, N), O)
<1>1. /\ Flat(g, 0) = <<>>
      /\ \A n \in 0..N : n < N => Flat(g, n + 1) = Flat(g, n) \o g[n + 1]
  <2>1. \A i \in 1..N : Sequence(g[i])
    BY DEF AreChecks
  <2> QED
    BY <2>1, FlatGrows
<1> DEFINE T == {n \in Nat : n <= N => AreChecks(Flat(g, n), O)}
<1>2. 0 \in T
  BY <1>1, NoChecks
<1>3. ASSUME NEW n \in Nat, n \in T PROVE n + 1 \in T
  <2> SUFFICES ASSUME n + 1 <= N PROVE AreChecks(Flat(g, n + 1), O)
    OBVIOUS
  <2>1. PICK a : a = Flat(g, n)
    OBVIOUS
  <2>2. PICK b : b = g[n + 1]
    OBVIOUS
  <2>3. PICK c : c = Flat(g, n + 1)
    OBVIOUS
  <2>4. AreChecks(a, O) /\ AreChecks(b, O)
    BY <1>3, <2>1, <2>2
  <2>5. IsJoined(c, a, b)
    <3>1. Flat(g, n + 1) = Flat(g, n) \o g[n + 1]
      BY <1>1
    <3> QED
      BY <2>1, <2>2, <2>3, <3>1 DEF IsJoined
  <2>6. AreChecks(c, O)
    BY <2>4, <2>5, ChecksJoined
  <2> QED
    BY <2>3, <2>6
<1> HIDE DEF T
<1>4. Nat \subseteq T
  BY <1>2, <1>3, Induction
<1>5. N \in T /\ N <= N
  BY <1>4
<1> QED
  BY <1>5 DEF T

\* The checks of expressions.
LEMMA CelAreChecks ==
  ASSUME NEW exprs, NEW field, NEW rule, NEW key, NEW value, WellFormedExprs(exprs),
         WithPaths(exprs), Sequence(rule)
  PROVE  AreChecks(CelChecks(exprs, field, rule, key, value), RuleOutcomes)
<1>1. PICK n \in Nat : n = Len(exprs)
  BY SequenceLen DEF WellFormedExprs
<1>2. PICK t : t = CelChecks(exprs, field, rule, key, value)
  OBVIOUS
<1>3. t = [i \in 1..n |->
             Check(exprs[i].id, field, rule \o Reverse(exprs[i].path), key, value, exprs[i].field,
                   IF exprs[i].outcome = "error" THEN Invalid ELSE exprs[i].outcome)]
  BY <1>1, <1>2 DEF CelChecks
<1>4. t \in [1..n -> {t[i] : i \in 1..n}]
  BY <1>3
<1>5. Sequence(t) /\ Len(t) = n
  BY <1>4, SequenceIs
<1>6. ASSUME NEW i \in 1..n PROVE CheckRecord(t[i]) /\ t[i].outcome \in RuleOutcomes
  <2>1. PICK o : o = IF exprs[i].outcome = "error" THEN Invalid ELSE exprs[i].outcome
    OBVIOUS
  <2>2. PICK path : path = rule \o Reverse(exprs[i].path)
    OBVIOUS
  <2>3. PICK id, x : id = exprs[i].id /\ x = exprs[i].field
    OBVIOUS
  <2>4. t[i] = Check(id, field, path, key, value, x, o)
    BY <1>3, <2>1, <2>2, <2>3
  <2>5. PICK c : c = t[i]
    OBVIOUS
  <2>6. c = [id |-> id, field |-> field, rule |-> path, forKey |-> key,
             fieldValue |-> value, ruleValue |-> x, outcome |-> o]
    BY <2>4, <2>5 DEF Check
  <2>7. c.outcome = o /\ CheckRecord(c)
    <3>1. PICK end : end = Reverse(exprs[i].path)
      OBVIOUS
    <3>2. Sequence(end)
      BY <1>1, <3>1, ReverseIs DEF WithPaths
    <3>3. IsJoined(path, rule, end)
      BY <2>2, <3>1 DEF IsJoined
    <3>4. Sequence(path)
      BY <3>2, <3>3, ErrorsJoined
    <3> QED
      BY <2>6, <3>4 DEF CheckRecord
  <2>8. o \in RuleOutcomes
    <3>1. exprs[i].outcome \in Outcomes
      BY <1>1 DEF WellFormedExprs
    <3> QED
      BY <2>1, <3>1 DEF RuleOutcomes, Outcomes, Statuses, Ok, Invalid
  <2> QED
    BY <2>5, <2>7, <2>8
<1> QED
  BY <1>2, <1>5, <1>6 DEF AreChecks

\* The rule paths there are.
LEMMA CelAt ==
  ASSUME NEW exprs, NEW field, NEW key, NEW value, WellFormedExprs(exprs), WithPaths(exprs)
  PROVE  /\ AreChecks(CelChecks(exprs, field, <<>>, key, value), RuleOutcomes)
         /\ AreChecks(CelChecks(exprs, field, <<"repeated", "items">>, key, value), RuleOutcomes)
         /\ AreChecks(CelChecks(exprs, field, <<"map", "keys">>, key, value), RuleOutcomes)
         /\ AreChecks(CelChecks(exprs, field, <<"map", "values">>, key, value), RuleOutcomes)
<1>1. PICK a, b, c, d : /\ a = <<>> /\ b = <<"repeated", "items">>
                        /\ c = <<"map", "keys">> /\ d = <<"map", "values">>
  OBVIOUS
<1>2. Sequence(a) /\ Sequence(b) /\ Sequence(c) /\ Sequence(d)
  BY <1>1, OneSequence, TwoSequence
<1>3. /\ AreChecks(CelChecks(exprs, field, a, key, value), RuleOutcomes)
      /\ AreChecks(CelChecks(exprs, field, b, key, value), RuleOutcomes)
      /\ AreChecks(CelChecks(exprs, field, c, key, value), RuleOutcomes)
      /\ AreChecks(CelChecks(exprs, field, d, key, value), RuleOutcomes)
  BY <1>2, CelAreChecks
<1> QED
  BY <1>1, <1>3

\* A check that is written out.
LEMMA NewCheck ==
  ASSUME NEW id, NEW field, NEW rule, NEW value, NEW x, NEW o, NEW c, o \in RuleOutcomes,
         Sequence(rule), IsCheck(c, id, field, rule, value, x, o)
  PROVE  CheckRecord(c) /\ c.outcome \in RuleOutcomes
<1>1. c = [id |-> id, field |-> field, rule |-> rule, forKey |-> FALSE, fieldValue |-> value,
           ruleValue |-> x, outcome |-> o]
  BY DEF IsCheck, Check
<1>2. c.outcome = o /\ c.rule = rule
  BY <1>1
<1>3. CheckRecord(c)
  BY <1>1, <1>2 DEF CheckRecord
<1> QED
  BY <1>2, <1>3

\* The checks of an Any.
LEMMA AnyAreChecks ==
  ASSUME NEW any, NEW field, NEW rule, NEW value, Sequence(rule)
  PROVE  AreChecks(AnyChecks(any, field, rule, value), RuleOutcomes)
<1>1. PICK a : a = Check("any.in", field, rule \o <<"any", "in">>, FALSE, value, "in",
                         Outcome(any.missing))
  OBVIOUS
<1>2. PICK b : b = Check("any.not_in", field, rule \o <<"any", "not_in">>, FALSE, value, "not_in",
                         Outcome(any.blocked))
  OBVIOUS
<1>3. CheckRecord(a) /\ a.outcome \in RuleOutcomes
  <2>1. PICK id, x, o : id = "any.in" /\ x = "in" /\ o = Outcome(any.missing)
    OBVIOUS
  <2>2. PICK path : path = rule \o <<"any", "in">>
    OBVIOUS
  <2>3. IsCheck(a, id, field, path, value, x, o)
    BY <1>1, <2>1, <2>2 DEF IsCheck
  <2>4. o \in RuleOutcomes
    BY <2>1 DEF Outcome, RuleOutcomes
  <2>5. Sequence(path)
    <3>1. PICK end : end = <<"any", "in">>
      OBVIOUS
    <3>2. Sequence(end) /\ IsJoined(path, rule, end)
      BY <2>2, <3>1, TwoSequence DEF IsJoined
    <3> QED
      BY <3>2, ErrorsJoined
  <2> QED
    BY <2>3, <2>4, <2>5, NewCheck
<1>4. CheckRecord(b) /\ b.outcome \in RuleOutcomes
  <2>1. PICK id, x, o : id = "any.not_in" /\ x = "not_in" /\ o = Outcome(any.blocked)
    OBVIOUS
  <2>2. PICK path : path = rule \o <<"any", "not_in">>
    OBVIOUS
  <2>3. IsCheck(b, id, field, path, value, x, o)
    BY <1>2, <2>1, <2>2 DEF IsCheck
  <2>4. o \in RuleOutcomes
    BY <2>1 DEF Outcome, RuleOutcomes
  <2>5. Sequence(path)
    <3>1. PICK end : end = <<"any", "not_in">>
      OBVIOUS
    <3>2. Sequence(end) /\ IsJoined(path, rule, end)
      BY <2>2, <3>1, TwoSequence DEF IsJoined
    <3> QED
      BY <3>2, ErrorsJoined
  <2> QED
    BY <2>3, <2>4, <2>5, NewCheck
<1>5. PICK s : s = <<a, b>>
  OBVIOUS
<1>6. Sequence(s) /\ Len(s) = 2 /\ s[1] = a /\ s[2] = b
  BY <1>5, TwoSequence
<1>7. AreChecks(s, RuleOutcomes)
  BY <1>3, <1>4, <1>6 DEF AreChecks
<1> QED
  BY <1>1, <1>2, <1>5, <1>7 DEF AnyChecks

\* At the two rule paths there are.
LEMMA AnyAt ==
  ASSUME NEW any, NEW field, NEW value
  PROVE  /\ AreChecks(AnyChecks(any, field, <<>>, value), RuleOutcomes)
         /\ AreChecks(AnyChecks(any, field, <<"repeated", "items">>, value), RuleOutcomes)
<1>1. PICK a, b : a = <<>> /\ b = <<"repeated", "items">>
  OBVIOUS
<1>2. Sequence(a) /\ Sequence(b)
  BY <1>1, OneSequence, TwoSequence
<1>3. /\ AreChecks(AnyChecks(any, field, a, value), RuleOutcomes)
      /\ AreChecks(AnyChecks(any, field, b, value), RuleOutcomes)
  BY <1>2, AnyAreChecks
<1> QED
  BY <1>1, <1>3

\* The check that something can be had.
LEMMA AccessIsCheck ==
  ASSUME NEW id, NEW r, NEW access \in Statuses
  PROVE  AreChecks(Access(id, r, access), RuleOutcomes)
<1>1. PICK field, rule, value, x, o : /\ field = <<Element(r.field)>> /\ rule = <<>>
                                      /\ value = WholeField(r) /\ x = NoField
                                      /\ o = IF access = Ok THEN "pass" ELSE access
  OBVIOUS
<1>2. PICK c : c = Check(id, field, rule, FALSE, value, x, o)
  OBVIOUS
<1>3. Access(id, r, access) = <<c>>
  BY <1>1, <1>2 DEF Access
<1>4. Sequence(rule)
  BY <1>1, OneSequence
<1>5. o \in RuleOutcomes
  BY <1>1 DEF RuleOutcomes
<1>6. IsCheck(c, id, field, rule, value, x, o)
  BY <1>2 DEF IsCheck
<1>7. CheckRecord(c) /\ c.outcome \in RuleOutcomes
  BY <1>4, <1>5, <1>6, NewCheck
<1> QED
  BY <1>3, <1>7, OneCheck

\* The checks of a field.
LEMMA FieldAreChecks ==
  ASSUME NEW rule, WellFormedField(rule)
  PROVE  AreChecks(FieldChecks(rule), RuleOutcomes)
<1>1. CASE Ignored(rule)
  <2>1. FieldChecks(rule) = <<>>
    BY <1>1 DEF FieldChecks, Ignored, Missing
  <2> QED
    BY <2>1, NoChecks
<1>2. CASE Missing(rule)
  <2>1. PICK c : c = Check("required", <<Element(rule.field)>>, <<"required">>, FALSE,
                           WholeField(rule), "required", "fail")
    OBVIOUS
  <2>2. FieldChecks(rule) = <<c>>
    BY <1>2, <2>1 DEF FieldChecks, Ignored, Missing
  <2>3. CheckRecord(c) /\ c.outcome \in RuleOutcomes
    <3>1. PICK id, x, o : id = "required" /\ x = "required" /\ o = "fail"
      OBVIOUS
    <3>2. PICK field, path, value : /\ field = <<Element(rule.field)>> /\ path = <<"required">>
                                      /\ value = WholeField(rule)
      OBVIOUS
    <3>3. IsCheck(c, id, field, path, value, x, o)
      BY <2>1, <3>1, <3>2 DEF IsCheck
    <3>4. o \in RuleOutcomes
      BY <3>1 DEF Outcome, RuleOutcomes
    <3>5. Sequence(path)
      BY <3>2, OneSequence, TwoSequence
    <3> QED
      BY <3>3, <3>4, <3>5, NewCheck
  <2> QED
    BY <2>2, <2>3, OneCheck
<1>3. CASE ~Ignored(rule) /\ ~Missing(rule)
  <2>1. PICK a : a = IF Collection(rule) THEN <<>>
                     ELSE AnyChecks(rule.any, <<Element(rule.field)>>, <<>>, WholeField(rule))
                          \o Access("read", rule, rule.read)
    OBVIOUS
  <2>2. PICK b : b = CelChecks(rule.exprs, <<Element(rule.field)>>, <<>>, FALSE, WholeField(rule))
    OBVIOUS
  <2>3. PICK c : c = FieldChecks(rule)
    OBVIOUS
  <2>4. FieldChecks(rule) = PresentChecks(rule)
    BY <1>3, Zenon DEF FieldChecks, PresentChecks
  <2>5. IsJoined(c, a, b)
    BY <2>1, <2>2, <2>3, <2>4 DEF PresentChecks, IsJoined
  <2>6. AreChecks(a, RuleOutcomes)
    <3>1. CASE Collection(rule)
      BY <2>1, <3>1, NoChecks
    <3>2. CASE ~Collection(rule)
      <4>1. PICK any, read :
              /\ any = AnyChecks(rule.any, <<Element(rule.field)>>, <<>>, WholeField(rule))
              /\ read = Access("read", rule, rule.read)
        OBVIOUS
      <4>2. IsJoined(a, any, read)
        BY <2>1, <3>2, <4>1 DEF IsJoined
      <4>3. AreChecks(any, RuleOutcomes)
        BY <4>1, AnyAt
      <4>4. AreChecks(read, RuleOutcomes)
        BY <3>2, <4>1, AccessIsCheck DEF WellFormedField, Readable
      <4> QED
        BY <4>2, <4>3, <4>4, ChecksJoined
    <3> QED
      BY <3>1, <3>2
  <2>7. AreChecks(b, RuleOutcomes)
    BY <2>2, CelAt DEF WellFormedField
  <2>8. AreChecks(c, RuleOutcomes)
    BY <2>5, <2>6, <2>7, ChecksJoined
  <2> QED
    BY <2>3, <2>8
<1> QED
  BY <1>1, <1>2, <1>3

\* Of an item.
LEMMA ItemAreChecks ==
  ASSUME NEW rule, NEW i, WellFormedItem(rule, i)
  PROVE  AreChecks(ItemChecks(rule, i), RuleOutcomes)
<1>1. CASE ItemChecks(rule, i) = <<>>
  BY <1>1, NoChecks
<1>2. CASE ItemChecks(rule, i) = ItemPart(rule, i)
  <2>1. PICK at : at = <<ItemElement(rule.field, <<i>>)>>
    OBVIOUS
  <2>2. PICK value : value = ProtoField(rule.msg, rule.field, <<i>>)
    OBVIOUS
  <2>3. PICK a : a = CelChecks(rule.items[i].exprs, at, <<"repeated", "items">>, FALSE, value)
    OBVIOUS
  <2>4. PICK b : b = IF rule.itemsHaveAny
                       THEN AnyChecks(rule.items[i].any, at, <<"repeated", "items">>, value)
                       ELSE <<>>
    OBVIOUS
  <2>5. PICK c : c = ItemPart(rule, i)
    OBVIOUS
  <2>6. IsJoined(c, a, b)
    BY <2>1, <2>2, <2>3, <2>4, <2>5 DEF ItemPart, IsJoined
  <2>7. AreChecks(a, RuleOutcomes)
    BY <2>3, CelAt DEF WellFormedItem
  <2>8. AreChecks(b, RuleOutcomes)
    BY <2>4, NoChecks, AnyAt
  <2>9. AreChecks(c, RuleOutcomes)
    BY <2>6, <2>7, <2>8, ChecksJoined
  <2> QED
    BY <1>2, <2>5, <2>9
<1> QED
  BY <1>1, <1>2 DEF ItemChecks, ItemPart

\* Of an entry.
LEMMA EntryAreChecks ==
  ASSUME NEW rule, NEW i, WellFormedEntry(rule.entries[i])
  PROVE  AreChecks(EntryChecks(rule, i), RuleOutcomes)
<1>1. PICK e : e = rule.entries[i]
  OBVIOUS
<1>2. PICK at : at = <<ItemElement(rule.field, <<e.name>>)>>
  OBVIOUS
<1>3. PICK a : a = IF ~rule.hasKeyRules \/ (rule.ignoreEmptyKeys /\ e.key.empty) THEN <<>>
                   ELSE CelChecks(e.key.exprs, at, <<"map", "keys">>, TRUE,
                                  EntryField(rule.msg, rule.field, e.name, "key"))
  OBVIOUS
<1>4. PICK b : b = IF ~rule.hasValueRules \/ (rule.ignoreEmptyValues /\ e.value.empty) THEN <<>>
                   ELSE CelChecks(e.value.exprs, at, <<"map", "values">>, FALSE,
                                  EntryField(rule.msg, rule.field, e.name, "value"))
  OBVIOUS
<1>5. PICK c : c = EntryChecks(rule, i)
  OBVIOUS
<1>6. IsJoined(c, a, b)
  BY <1>1, <1>2, <1>3, <1>4, <1>5 DEF EntryChecks, IsJoined
<1>7. /\ WellFormedExprs(e.key.exprs) /\ WithPaths(e.key.exprs)
      /\ WellFormedExprs(e.value.exprs) /\ WithPaths(e.value.exprs)
  BY <1>1 DEF WellFormedEntry
<1>8. AreChecks(a, RuleOutcomes)
  BY <1>3, <1>7, NoChecks, CelAt
<1>9. AreChecks(b, RuleOutcomes)
  BY <1>4, <1>7, NoChecks, CelAt
<1>10. AreChecks(c, RuleOutcomes)
  BY <1>6, <1>8, <1>9, ChecksJoined
<1> QED
  BY <1>5, <1>10

\* Of any rule object.
LEMMA RuleAreChecks ==
  ASSUME NEW rule, ShownRule(rule)
  PROVE  AreChecks(RuleChecks(rule), RuleOutcomes)
<1>1. CASE rule.kind = "message"
  <2>1. RuleChecks(rule) = CelChecks(rule.exprs, <<>>, <<>>, FALSE, NoValue)
    BY <1>1 DEF RuleChecks
  <2>2. WellFormedExprs(rule.exprs) /\ WithPaths(rule.exprs)
    BY <1>1 DEF ShownRule, WellFormedRule
  <2> QED
    BY <2>1, <2>2, CelAt
<1>2. CASE rule.kind = "field"
  <2>1. RuleChecks(rule) = FieldChecks(rule) /\ WellFormedField(rule)
    BY <1>2 DEF RuleChecks, ShownRule
  <2> QED
    BY <2>1, FieldAreChecks
<1>3. CASE rule.kind = "enum"
  <2>1. PICK c : c = Check("enum.defined_only", <<Element(rule.field)>>, <<"enum", "defined_only">>,
                           FALSE, WholeField(rule), "defined_only",
                           Outcome(rule.definedOnly /\ ~rule.defined))
    OBVIOUS
  <2>2. PICK a, b, e : a = FieldChecks(rule) /\ b = <<c>> /\ e = RuleChecks(rule)
    OBVIOUS
  <2>3. IsJoined(e, a, b)
    BY <1>3, <2>1, <2>2 DEF RuleChecks, EnumChecks, IsJoined
  <2>4. AreChecks(a, RuleOutcomes)
    BY <1>3, <2>2, FieldAreChecks DEF ShownRule
  <2>5. CheckRecord(c) /\ c.outcome \in RuleOutcomes
    <3>1. PICK id, x, o : id = "enum.defined_only" /\ x = "defined_only" /\ o = Outcome(rule.definedOnly /\ ~rule.defined)
      OBVIOUS
    <3>2. PICK field, path, value : /\ field = <<Element(rule.field)>> /\ path = <<"enum", "defined_only">>
                                      /\ value = WholeField(rule)
      OBVIOUS
    <3>3. IsCheck(c, id, field, path, value, x, o)
      BY <2>1, <3>1, <3>2 DEF IsCheck
    <3>4. o \in RuleOutcomes
      BY <3>1 DEF Outcome, RuleOutcomes
    <3>5. Sequence(path)
      BY <3>2, OneSequence, TwoSequence
    <3> QED
      BY <3>3, <3>4, <3>5, NewCheck
  <2>6. AreChecks(b, RuleOutcomes)
    BY <2>2, <2>5, OneCheck
  <2>7. AreChecks(e, RuleOutcomes)
    BY <2>3, <2>4, <2>6, ChecksJoined
  <2> QED
    BY <2>2, <2>7
<1>4. CASE rule.kind = "repeated"
  <2>1. PICK N \in Nat : N = Len(rule.items)
    BY <1>4, SequenceLen DEF ShownRule, WellFormedRule
  <2>2. PICK g : g = [i \in 1..N |-> ItemChecks(rule, i)]
    OBVIOUS
  <2>3. PICK a, b, e : a = FieldChecks(rule) /\ b = Flat(g, N) /\ e = RuleChecks(rule)
    OBVIOUS
  <2>4. IsJoined(e, a, b)
    <3>1. [i \in 1..N |-> g[i]] = [i \in 1..N |-> ItemChecks(rule, i)]
      BY <2>2
    <3>2. b = FlattenSeq([i \in 1..Len(rule.items) |-> ItemChecks(rule, i)])
      BY <2>1, <2>3, <3>1 DEF Flat
    <3>3. e = FieldChecks(rule) \o FlattenSeq([i \in 1..Len(rule.items) |-> ItemChecks(rule, i)])
      BY <1>4, <2>3 DEF RuleChecks
    <3> QED
      BY <2>3, <3>2, <3>3 DEF IsJoined
  <2>5. AreChecks(a, RuleOutcomes)
    BY <1>4, <2>3, FieldAreChecks DEF ShownRule
  <2>6. ASSUME NEW i \in 1..N PROVE AreChecks(g[i], RuleOutcomes)
    <3>1. WellFormedItem(rule, i)
      BY <1>4, <2>1 DEF ShownRule
    <3>2. AreChecks(ItemChecks(rule, i), RuleOutcomes)
      BY <3>1, ItemAreChecks
    <3> QED
      BY <2>2, <3>2
  <2>7. AreChecks(b, RuleOutcomes)
    BY <2>3, <2>6, ChecksFlat
  <2>8. AreChecks(e, RuleOutcomes)
    BY <2>4, <2>5, <2>7, ChecksJoined
  <2> QED
    BY <2>3, <2>8
<1>5. CASE rule.kind = "map"
  <2>1. PICK N \in Nat : N = Len(rule.entries)
    BY <1>5, SequenceLen DEF ShownRule, WellFormedRule
  <2>2. PICK g : g = [i \in 1..N |-> EntryChecks(rule, i)]
    OBVIOUS
  <2>3. PICK a, b, e : /\ a = FieldChecks(rule) \o KeysChecks(rule) /\ b = Flat(g, N)
                       /\ e = RuleChecks(rule)
    OBVIOUS
  <2>4. IsJoined(e, a, b)
    <3>1. [i \in 1..N |-> g[i]] = [i \in 1..N |-> EntryChecks(rule, i)]
      BY <2>2
    <3>2. b = FlattenSeq([i \in 1..Len(rule.entries) |-> EntryChecks(rule, i)])
      BY <2>1, <2>3, <3>1 DEF Flat
    <3>3. e = FieldChecks(rule) \o KeysChecks(rule)
              \o FlattenSeq([i \in 1..Len(rule.entries) |-> EntryChecks(rule, i)])
      BY <1>5, <2>3 DEF RuleChecks
    <3> QED
      BY <2>3, <3>2, <3>3 DEF IsJoined
  <2>5. AreChecks(a, RuleOutcomes)
    <3>1. PICK field, keys : field = FieldChecks(rule) /\ keys = KeysChecks(rule)
      OBVIOUS
    <3>2. IsJoined(a, field, keys)
      BY <2>3, <3>1 DEF IsJoined
    <3>3. AreChecks(field, RuleOutcomes)
      BY <1>5, <3>1, FieldAreChecks DEF ShownRule
    <3>4. rule.keys \in Statuses
      BY <1>5 DEF ShownRule, WellFormedRule
    <3>5. AreChecks(keys, RuleOutcomes)
      BY <3>1, <3>4, NoChecks, AccessIsCheck DEF KeysChecks
    <3> QED
      BY <3>2, <3>3, <3>5, ChecksJoined
  <2>6. ASSUME NEW i \in 1..N PROVE AreChecks(g[i], RuleOutcomes)
    <3>1. WellFormedEntry(rule.entries[i])
      BY <1>5, <2>1 DEF ShownRule
    <3>2. AreChecks(EntryChecks(rule, i), RuleOutcomes)
      BY <3>1, EntryAreChecks
    <3> QED
      BY <2>2, <3>2
  <2>7. AreChecks(b, RuleOutcomes)
    BY <2>3, <2>6, ChecksFlat
  <2>8. AreChecks(e, RuleOutcomes)
    BY <2>4, <2>5, <2>7, ChecksJoined
  <2> QED
    BY <2>3, <2>8
<1>6. CASE rule.kind = "oneof"
  <2>1. PICK c : c = Check("required", <<Element(rule.field)>>, <<>>, FALSE, NoValue, NoField,
                           Outcome(rule.required /\ ~rule.present))
    OBVIOUS
  <2>2. RuleChecks(rule) = <<c>>
    BY <1>6, <2>1 DEF RuleChecks
  <2>3. CheckRecord(c) /\ c.outcome \in RuleOutcomes
    <3>1. PICK id, x, o : id = "required" /\ x = NoField /\ o = Outcome(rule.required /\ ~rule.present)
      OBVIOUS
    <3>2. PICK field, path, value : /\ field = <<Element(rule.field)>> /\ path = <<>>
                                      /\ value = NoValue
      OBVIOUS
    <3>3. IsCheck(c, id, field, path, value, x, o)
      BY <2>1, <3>1, <3>2 DEF IsCheck
    <3>4. o \in RuleOutcomes
      BY <3>1 DEF Outcome, RuleOutcomes
    <3>5. Sequence(path)
      BY <3>2, OneSequence, TwoSequence
    <3> QED
      BY <3>3, <3>4, <3>5, NewCheck
  <2> QED
    BY <2>2, <2>3, OneCheck
<1>7. CASE rule.kind = "message_oneof"
  <2>1. PICK c : c = Check("message.oneof", <<>>, <<>>, FALSE, NoValue, NoField,
                           Outcome(rule.hasCount > 1 \/ (rule.required /\ rule.hasCount = 0)))
    OBVIOUS
  <2>2. RuleChecks(rule) = <<c>>
    BY <1>7, <2>1 DEF RuleChecks
  <2>3. CheckRecord(c) /\ c.outcome \in RuleOutcomes
    <3>1. PICK id, x, o : id = "message.oneof" /\ x = NoField /\ o = Outcome(rule.hasCount > 1 \/ (rule.required /\ rule.hasCount = 0))
      OBVIOUS
    <3>2. PICK field, path, value : /\ field = <<>> /\ path = <<>>
                                      /\ value = NoValue
      OBVIOUS
    <3>3. IsCheck(c, id, field, path, value, x, o)
      BY <2>1, <3>1, <3>2 DEF IsCheck
    <3>4. o \in RuleOutcomes
      BY <3>1 DEF Outcome, RuleOutcomes
    <3>5. Sequence(path)
      BY <3>2, OneSequence, TwoSequence
    <3> QED
      BY <3>3, <3>4, <3>5, NewCheck
  <2> QED
    BY <2>2, <2>3, OneCheck
<1> QED
  BY <1>1, <1>2, <1>3, <1>4, <1>5, <1>6, <1>7 DEF ShownRule, WellFormedRule
===============================================================================
