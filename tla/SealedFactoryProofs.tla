------------------------- MODULE SealedFactoryProofs -------------------------
(* Proofs about the sealed protocol: what the cache holds when the seal is  *)
(* put on, and so what a validation after it can and cannot meet.           *)
EXTENDS RuleCacheProofs

-----------------------------------------------------------------------------
(* The configuration.                                                       *)

LEMMA MatchStep ==
  ASSUME TypeOK, EntriesMatchConfig, SealedNext
  PROVE  EntriesMatchConfig'
<1>1. PICK t \in Threads :
        \/ Step(t)
        \/ \E d \in Types : CallAdd(t, d) \/ CallValidate(t, d)
        \/ DisableLazyLoading(t, TRUE)
        \/ Empty /\ \E c : Configure(t, c)
  BY DEF SealedNext, SetAllowUnknownFields, SetMessageFactory
<1>2. CASE Step(t)
  <2>1. CASE pc[t] \in BuildPCs
    <3>1. Emplace(t) /\ Desc(t) \in Types
      BY <1>2, <2>1, TopType DEF Step, AddStep, GetStep, UseStep, AddLock, AddFind, AddBuild,
         AddNext, GetLockShared, GetFindShared, GetLockExclusive, GetFindExclusive, GetBuild,
         CheckRules, ReadStatus, ReadValue, RunRules, NextField, BuildPCs
    <3>2. config' = config
      BY <3>1 DEF Emplace
    <3>3. \A d \in Types : rules'[d] # rules[d] => rules'[d] = Compile[config][d]
      BY <3>1 DEF Emplace, Built, TypeOK
    <3> QED
      BY <3>2, <3>3 DEF EntriesMatchConfig
  <2>2. CASE pc[t] \notin BuildPCs
    <3>1. rules' = rules
      BY <1>2, <2>2, RulesKept
    <3>2. config' = config
      BY <1>2, <2>2 DEF Step, AddStep, GetStep, UseStep, AddLock, AddFind, AddBuild, AddNext,
         GetLockShared, GetFindShared, GetLockExclusive, GetFindExclusive, GetBuild,
         CheckRules, ReadStatus, ReadValue, RunRules, NextField, BuildPCs, shared
    <3> QED
      BY <3>1, <3>2 DEF EntriesMatchConfig
  <2> QED
    BY <2>1, <2>2
<1>3. CASE \E d \in Types : CallAdd(t, d) \/ CallValidate(t, d)
  BY <1>3 DEF CallAdd, CallValidate, Call, shared, EntriesMatchConfig
<1>4. CASE DisableLazyLoading(t, TRUE)
  BY <1>4 DEF DisableLazyLoading, EntriesMatchConfig
<1>5. CASE Empty /\ \E c : Configure(t, c)
  BY <1>5 DEF Empty, Configure, EntriesMatchConfig
<1> QED
  BY <1>1, <1>2, <1>3, <1>4, <1>5

\* If the factory is configured while it is empty and unused, no verdict of an
\* older configuration is ever served, from any number of threads.
THEOREM ConfigMatched == SealedSpec => []EntriesMatchConfig
<1>1. Init => EntriesMatchConfig
  BY DEF Init, EntriesMatchConfig
<1>2. TypeOK /\ EntriesMatchConfig /\ [SealedNext]_vars => EntriesMatchConfig'
  <2> SUFFICES ASSUME TypeOK, EntriesMatchConfig, [SealedNext]_vars
               PROVE  EntriesMatchConfig'
    OBVIOUS
  <2>1. CASE UNCHANGED vars
    BY <2>1 DEF vars, EntriesMatchConfig
  <2> QED
    BY <2>1, MatchStep
<1> QED
  BY <1>1, <1>2, SealedSpecIsSpec, TypeCorrect, PTL DEF SealedSpec
-----------------------------------------------------------------------------
(* The stacks of Add.  Under each activation lies the one whose loop over   *)
(* the fields called it, one field past that field.                         *)

Follows(s) ==
  \A k \in 1..(Len(s) - 1) :
    /\ s[k].next - 1 \in 1..Len(Fields[s[k].desc])
    /\ s[k + 1].desc = Fields[s[k].desc][s[k].next - 1]

StacksFollowFields == \A t \in Threads : pc[t] \in AddPCs => Follows(frames[t])

LEMMA FrameAt ==
  ASSUME NEW s \in Seq(Frame), NEW k \in 1..Len(s)
  PROVE  s[k].desc \in Types /\ s[k].next \in Nat \ {0}
<1>1. s[k] \in Frame
  OBVIOUS
<1> QED
  BY <1>1 DEF Frame

LEMMA AdvanceFrames ==
  ASSUME NEW s \in Seq(Frame), s # <<>>
  PROVE  /\ \A i \in 1..(Len(s) - 1) : Advance(s)[i] = s[i]
         /\ Advance(s)[Len(s)].next = s[Len(s)].next + 1
         /\ Advance(s)[Len(s)].desc = s[Len(s)].desc
<1>1. Len(s) \in 1..Len(s) /\ \A i \in 1..(Len(s) - 1) : i \in 1..Len(s) /\ i # Len(s)
  OBVIOUS
<1> QED
  BY <1>1 DEF Advance

LEMMA FollowsPop ==
  ASSUME NEW s \in Seq(Frame), s # <<>>, Follows(s) PROVE Follows(Pop(s))
<1>1. /\ Len(Pop(s)) = Len(s) - 1 /\ Len(s) \in Nat \ {0}
      /\ \A i \in 1..(Len(s) - 1) : Pop(s)[i] = s[i]
  BY PopType
<1>2. ASSUME NEW k \in 1..(Len(s) - 1 - 1)
      PROVE  k \in 1..(Len(s) - 1) /\ k + 1 \in 1..(Len(s) - 1)
  BY <1>1
<1> QED
  BY <1>1, <1>2 DEF Follows

LEMMA FollowsAdvance ==
  ASSUME NEW s \in Seq(Frame), s # <<>>, Follows(s) PROVE Follows(Advance(s))
<1> DEFINE u == Advance(s)
<1>1. /\ Len(u) = Len(s)
      /\ \A i \in 1..Len(s) : u[i].desc = s[i].desc
      /\ \A i \in 1..(Len(s) - 1) : u[i] = s[i]
  BY AdvanceType, AdvanceFrames
<1>2. \A k \in 1..(Len(s) - 1) : k + 1 \in 1..Len(s)
  OBVIOUS
<1> HIDE DEF u
<1>3. Follows(u)
  BY <1>1, <1>2 DEF Follows
<1> QED
  BY <1>3 DEF u

\* The call on the field an activation is at.
LEMMA FollowsPush ==
  ASSUME NEW s \in Seq(Frame), s # <<>>, Follows(s),
         NEW d \in Types, NEW n \in Nat \ {0},
         d = s[Len(s)].desc, n = s[Len(s)].next, n \in 1..Len(Fields[d]), Fields[d][n] \in Types
  PROVE  Follows(Append(Advance(s), Activation(Fields[d][n])))
<1> DEFINE u == Advance(s)
           v == Append(u, Activation(Fields[d][n]))
<1>1. /\ u \in Seq(Frame) /\ Len(u) = Len(s) /\ Len(s) \in Nat \ {0} /\ Follows(u)
      /\ u[Len(s)].desc = d /\ u[Len(s)].next = n + 1
  BY AdvanceType, AdvanceFrames, FollowsAdvance
<1> HIDE DEF u
<1>2. /\ Len(v) = Len(s) + 1 /\ v[Len(s) + 1] = Activation(Fields[d][n])
      /\ \A i \in 1..Len(s) : v[i] = u[i]
  BY <1>1, PushType
<1> HIDE DEF v
<1>3. ASSUME NEW k \in 1..Len(s)
      PROVE  /\ v[k].next - 1 \in 1..Len(Fields[v[k].desc])
             /\ v[k + 1].desc = Fields[v[k].desc][v[k].next - 1]
  <2>1. CASE k = Len(s)
    <3>1. v[k].next = n + 1 /\ v[k].desc = d /\ v[k + 1].desc = Fields[d][n] /\ n + 1 - 1 = n
      BY <1>1, <1>2, <2>1 DEF Activation
    <3> QED
      BY <3>1
  <2>2. CASE k # Len(s)
    <3>1. k \in 1..(Len(s) - 1) /\ k + 1 \in 1..Len(s)
      BY <1>1, <2>2
    <3> QED
      BY <1>1, <1>2, <3>1 DEF Follows
  <2> QED
    BY <2>1, <2>2
<1>4. Len(v) - 1 = Len(s)
  BY <1>1, <1>2
<1>5. Follows(v)
  BY <1>3, <1>4 DEF Follows
<1> QED
  BY <1>5 DEF v, u

\* Where a call on the next field's type leaves the stack.
LEMMA DescendsTo ==
  ASSUME TypeOK, NEW t \in Threads, pc[t] # "idle", NEW p, Descend(t, p)
  PROVE  /\ Top(t).next \in Nat \ {0}
         /\ Top(t).next \in 1..Len(Walked(t))
         /\ Desc(t) \in Types
         /\ Walked(t)[Top(t).next] \in Types
         /\ frames'[t] = Append(Advance(frames[t]), Activation(Walked(t)[Top(t).next]))
         /\ pc'[t] = p
<1>1. Desc(t) \in Types /\ Top(t).next \in Nat \ {0}
  BY TopType DEF Frame
<1>2. Walked(t) \in Seq(Types)
  BY <1>1, FactoryAssumption DEF FactoryAssumption, Walked
<1>3. Top(t).next \in 1..Len(Walked(t))
  BY <1>1, <1>2 DEF Descend, FieldsDone
<1> QED
  BY <1>1, <1>2, <1>3 DEF Descend, Goto, TypeOK

\* What a step can do to the stack of the thread that takes it.
LEMMA StackMoves ==
  ASSUME TypeOK, NEW t \in Threads, Step(t) \/ Outside(t)
  PROVE  \/ frames'[t] = frames[t]
         \/ frames'[t] = <<>>
         \/ pc[t] # "idle" /\ frames'[t] = Pop(frames[t])
         \/ pc[t] # "idle" /\ frames'[t] = Advance(frames[t])
         \/ pc[t] # "idle" /\ \E p : Descend(t, p)
         \/ \E d \in Types : frames'[t] = <<Activation(d)>>
<1> USE DEF TypeOK
<1>1. CASE AddStep(t)
  <2>1. CASE AddFind(t)
    <3>1. rules[Desc(t)] \in {"absent", "ok", "error"}
      BY <2>1, TopType DEF AddFind
    <3> QED
      BY <2>1, <3>1 DEF AddFind, ReturnOk, Unwind
  <2> QED
    BY <1>1, <2>1 DEF AddStep, AddLock, AddBuild, AddNext, ReturnOk, Unwind
<1>2. CASE GetStep(t)
  BY <1>2 DEF GetStep, GetLockShared, GetFindShared, GetLockExclusive, GetFindExclusive,
              GetBuild, Unwind
<1>3. CASE UseStep(t)
  BY <1>3 DEF UseStep, CheckRules, ReadStatus, ReadValue, RunRules, NextField, ReturnOk, Unwind
<1>4. CASE Outside(t)
  BY <1>4 DEF Outside, CallAdd, CallValidate, Call, DisableLazyLoading,
              SetAllowUnknownFields, SetMessageFactory, Configure
<1> QED
  BY <1>1, <1>2, <1>3, <1>4 DEF Step

\* A thread comes to be in Add by the call of it, with one activation.
LEMMA AddsBegin ==
  ASSUME TypeOK, NEW t \in Threads, Step(t) \/ Outside(t),
         pc'[t] \in AddPCs, pc[t] \notin AddPCs
  PROVE  frames'[t] = <<>> \/ \E d \in Types : frames'[t] = <<Activation(d)>>
<1>1. CASE Step(t)
  <2>1. GetStep(t) \/ UseStep(t)
    BY <1>1 DEF Step, AddStep, AddLock, AddFind, AddBuild, AddNext, AddPCs
  <2>2. pc[t] \in ValidatePCs
    BY <2>1 DEF GetStep, UseStep, GetLockShared, GetFindShared, GetLockExclusive,
       GetFindExclusive, GetBuild, CheckRules, ReadStatus, ReadValue, RunRules, NextField,
       ValidatePCs, GetPCs, UsePCs
  <2>3. pc'[t] \in ValidatePCs \cup {"idle"}
    BY <1>1, <2>2, StepKeepsPhase
  <2> QED
    BY <2>3 DEF AddPCs, ValidatePCs, GetPCs, UsePCs
<1>2. CASE Outside(t)
  BY <1>2 DEF Outside, CallAdd, CallValidate, Call, DisableLazyLoading,
     SetAllowUnknownFields, SetMessageFactory, Configure, TypeOK, Goto, AddPCs
<1> QED
  BY <1>1, <1>2

LEMMA FollowsStep ==
  ASSUME TypeOK, StacksFollowFields, [Next]_vars
  PROVE  StacksFollowFields'
<1>1. CASE UNCHANGED vars
  BY <1>1 DEF vars, StacksFollowFields
<1>2. ASSUME NEW t \in Threads, Step(t) \/ Outside(t)
      PROVE  \A u \in Threads : pc'[u] \in AddPCs => Follows(frames'[u])
  <2>1. frames[t] \in Seq(Frame) /\ (pc[t] # "idle" <=> frames[t] # <<>>)
    BY DEF TypeOK
  <2>2. ASSUME pc[t] \in AddPCs, Follows(frames[t]), NEW p, Descend(t, p)
        PROVE  Follows(frames'[t])
    <3> DEFINE d == Desc(t)
               n == Top(t).next
    <3>1. /\ d \in Types /\ n \in Nat \ {0} /\ n \in 1..Len(Fields[d]) /\ Fields[d][n] \in Types
          /\ frames'[t] = Append(Advance(frames[t]), Activation(Fields[d][n]))
      BY <2>2, DescendsTo DEF AddPCs, Walked
    <3>2. d = frames[t][Len(frames[t])].desc /\ n = frames[t][Len(frames[t])].next
      BY DEF Top, Desc
    <3>3. pc[t] # "idle"
      BY <2>2 DEF AddPCs
    <3> HIDE DEF d, n
    <3> QED
      BY <2>1, <2>2, <3>1, <3>2, <3>3, FollowsPush
  <2>3. Follows(<<>>) /\ \A d : Follows(<<Activation(d)>>)
    BY DEF Follows
  <2>4. pc[t] # "idle" /\ Follows(frames[t])
          => Follows(Pop(frames[t])) /\ Follows(Advance(frames[t]))
    BY <2>1, FollowsPop, FollowsAdvance
  <2>5. ASSUME pc'[t] \in AddPCs PROVE Follows(frames'[t])
    <3>1. CASE pc[t] \in AddPCs
      <4>1. Follows(frames[t])
        BY <3>1 DEF StacksFollowFields
      <4> QED
        BY <1>2, <2>2, <2>3, <2>4, <3>1, <4>1, StackMoves
    <3>2. CASE pc[t] \notin AddPCs
      BY <1>2, <2>1, <2>3, <2>5, <3>2, AddsBegin
    <3> QED
      BY <3>1, <3>2
  <2> QED
    BY <1>2, <2>5, OthersStay DEF StacksFollowFields
<1>3. (\A u \in Threads : pc'[u] \in AddPCs => Follows(frames'[u])) => StacksFollowFields'
  BY DEF StacksFollowFields, Follows
<1> QED
  BY <1>1, <1>2, <1>3, NextCases

LEMMA StacksFollow == Spec => []StacksFollowFields
<1>1. Init => StacksFollowFields
  BY DEF Init, StacksFollowFields, Follows
<1>2. TypeOK /\ StacksFollowFields /\ [Next]_vars => StacksFollowFields'
  BY FollowsStep
<1> QED
  BY <1>1, <1>2, TypeCorrect, PTL DEF Spec

\* An activation of Add that has not yet done its own type is at its first
\* field, and a call in progress has not replied.
Unstarted ==
  \A t \in Threads :
    /\ pc[t] \in {"add_lock", "add_find", "add_build"} => Top(t).next = 1
    /\ pc[t] # "idle" => reply[t] = "none"

LEMMA ReplyStays ==
  ASSUME TypeOK, NEW t \in Threads, Step(t) \/ Outside(t)
  PROVE  /\ \A u \in Threads \ {t} : reply'[u] = reply[u]
         /\ reply'[t] = reply[t] \/ reply'[t] = "none" \/ pc'[t] = "idle"
<1> USE DEF TypeOK
<1>1. CASE AddStep(t)
  <2>1. CASE AddFind(t)
    <3>1. rules[Desc(t)] \in {"absent", "ok", "error"}
      BY <2>1, TopType DEF AddFind
    <3> QED
      BY <2>1, <3>1 DEF AddFind, ReturnOk, Unwind, Goto
  <2> QED
    BY <1>1, <2>1 DEF AddStep, AddLock, AddBuild, AddNext, ReturnOk, Unwind, Descend, Goto
<1>2. CASE GetStep(t)
  BY <1>2 DEF GetStep, GetLockShared, GetFindShared, GetLockExclusive, GetFindExclusive,
              GetBuild, Unwind, Goto
<1>3. CASE UseStep(t)
  BY <1>3 DEF UseStep, CheckRules, ReadStatus, ReadValue, RunRules, NextField, ReturnOk,
              Unwind, Descend, Goto
<1>4. CASE Outside(t)
  BY <1>4 DEF Outside, CallAdd, CallValidate, Call, DisableLazyLoading,
              SetAllowUnknownFields, SetMessageFactory, Configure
<1> QED
  BY <1>1, <1>2, <1>3, <1>4 DEF Step

LEMMA UnstartedStep ==
  ASSUME TypeOK, Unstarted, [Next]_vars
  PROVE  Unstarted'
<1>1. CASE UNCHANGED vars
  BY <1>1 DEF vars, Unstarted, Top
<1>2. ASSUME NEW t \in Threads, Step(t) \/ Outside(t) PROVE Unstarted'
  <2> USE DEF AddPCs, ValidatePCs, GetPCs, UsePCs
  <2>1. ASSUME NEW u \in Threads, u # t
        PROVE  /\ pc'[u] \in {"add_lock", "add_find", "add_build"} => (Top(u).next)' = 1
               /\ pc'[u] # "idle" => reply'[u] = "none"
    BY <1>2, <2>1, OthersStay, ReplyStays DEF Unstarted, Top
  <2>2. pc'[t] # "idle" => reply'[t] = "none"
    <3>1. CASE pc[t] # "idle"
      BY <1>2, <3>1, ReplyStays DEF Unstarted
    <3>2. CASE pc[t] = "idle"
      BY <1>2, <3>2
         DEF Step, AddStep, GetStep, UseStep, AddLock, AddFind, AddBuild, AddNext,
         GetLockShared, GetFindShared, GetLockExclusive, GetFindExclusive, GetBuild,
         CheckRules, ReadStatus, ReadValue, RunRules, NextField, Outside, CallAdd,
         CallValidate, Call, DisableLazyLoading, SetAllowUnknownFields, SetMessageFactory,
         Configure, TypeOK
    <3> QED
      BY <3>1, <3>2
  <2>3. pc'[t] \in {"add_lock", "add_find", "add_build"} => (Top(t).next)' = 1
    <3>1. CASE AddStep(t)
      <4>1. CASE AddLock(t)
        BY <4>1 DEF AddLock, Unstarted, Top
      <4>2. CASE AddFind(t)
        <5>1. rules[Desc(t)] \in {"absent", "ok", "error"}
          BY <4>2, TopType DEF AddFind, TypeOK
        <5>2. CASE rules[Desc(t)] = "absent"
          BY <4>2, <5>2 DEF AddFind, Unstarted, Top
        <5>3. CASE rules[Desc(t)] # "absent"
          BY <4>2, <5>1, <5>3, ReturnOkGoes DEF AddFind, Unwind, Goto, TypeOK
        <5> QED
          BY <5>2, <5>3
      <4>3. CASE AddBuild(t)
        BY <4>3 DEF AddBuild, Unwind, Goto, TypeOK
      <4>4. CASE AddNext(t) /\ FieldsDone(t)
        BY <4>4, ReturnOkGoes DEF AddNext, Goto, TypeOK
      <4>5. CASE AddNext(t) /\ ~FieldsDone(t)
        <5> DEFINE f == Activation(Walked(t)[Top(t).next])
                   v == Advance(frames[t])
        <5>1. pc[t] # "idle" /\ Descend(t, "add_lock")
          BY <4>5 DEF AddNext
        <5>2. frames'[t] = Append(v, f)
          BY <5>1, DescendsTo
        <5>3. v \in Seq(Frame) /\ f \in Frame /\ f.next = 1
          <6>1. frames[t] \in Seq(Frame) /\ frames[t] # <<>>
            BY <5>1 DEF TypeOK
          <6>2. Walked(t)[Top(t).next] \in Types
            BY <5>1, DescendsTo
          <6> QED
            BY <6>1, <6>2, AdvanceType, ActivationType DEF Activation
        <5> HIDE DEF v, f
        <5>4. Append(v, f)[Len(Append(v, f))] = f
          BY <5>3
        <5> QED
          BY <5>2, <5>3, <5>4 DEF Top
      <4> QED
        BY <3>1, <4>1, <4>2, <4>3, <4>4, <4>5 DEF AddStep
    <3>2. CASE GetStep(t) \/ UseStep(t)
      <4>1. pc[t] \in ValidatePCs
        BY <3>2 DEF GetStep, UseStep, GetLockShared, GetFindShared, GetLockExclusive,
           GetFindExclusive, GetBuild, CheckRules, ReadStatus, ReadValue, RunRules, NextField
      <4>2. pc'[t] \in ValidatePCs \cup {"idle"}
        BY <3>2, <4>1, StepKeepsPhase DEF Step
      <4> QED
        BY <4>2
    <3>3. CASE Outside(t)
      <4>1. CASE \E d \in Types : CallAdd(t, d) \/ CallValidate(t, d)
        <5>1. PICK d \in Types : frames'[t] = <<Activation(d)>>
          BY <4>1 DEF CallAdd, CallValidate, Call, TypeOK
        <5> QED
          BY <5>1 DEF Top, Activation
      <4>2. CASE UNCHANGED <<pc, frames>>
        BY <4>2 DEF Unstarted, Top
      <4> QED
        BY <3>3, <4>1, <4>2 DEF Outside, DisableLazyLoading, SetAllowUnknownFields,
                                SetMessageFactory, Configure
    <3> QED
      BY <1>2, <3>1, <3>2, <3>3 DEF Step
  <2> QED
    BY <2>1, <2>2, <2>3 DEF Unstarted
<1> QED
  BY <1>1, <1>2, NextCases

LEMMA UnstartedHolds == Spec => []Unstarted
<1>1. Init => Unstarted
  BY DEF Init, Unstarted
<1>2. TypeOK /\ Unstarted /\ [Next]_vars => Unstarted'
  BY UnstartedStep
<1> QED
  BY <1>1, <1>2, TypeCorrect, PTL DEF Spec

-----------------------------------------------------------------------------
(* The traversal of the type graph.  Adds that run at the same time leave   *)
(* parts of it to one another: an Add that finds a type loaded returns at   *)
(* once, though the one that loaded it has its fields still to do.          *)

\* The activations that have field i of d ahead of them, or are at it.
AtField(s, p, k, d, i) ==
  /\ s[k].desc = d
  /\ k < Len(s) \/ p = "add_next"
  /\ s[k].next <= i \/ (k < Len(s) /\ s[k].next = i + 1)

Ahead(s, p, d, i) == \E k \in 1..Len(s) : AtField(s, p, k, d, i)

LEMMA StillAddingIs ==
  \A t, d, i : StillAdding(t, d, i) <=> pc[t] \in AddPCs /\ Ahead(frames[t], pc[t], d, i)
  BY DEF StillAdding, Ahead, AtField

\* The Add on top of a stack returns: an activation below it that had field i
\* of d to do still has, unless what returns was the Add of just that field.
LEMMA AheadPop ==
  ASSUME NEW s \in Seq(Frame), Follows(s), NEW p, NEW d \in Types, NEW i \in 1..Len(Fields[d]),
         NEW k \in 1..(Len(s) - 1), AtField(s, p, k, d, i),
         Fields[d][i] # s[Len(s)].desc
  PROVE  Ahead(Pop(s), "add_next", d, i)
<1>1. Len(s) \in Nat \ {0} /\ s # <<>> /\ k \in 1..Len(s)
  OBVIOUS
<1>2. /\ Len(Pop(s)) = Len(s) - 1
      /\ Pop(s)[k] = s[k]
  BY <1>1, PopType
<1>3. s[k].next \in Nat \ {0}
  BY <1>1, FrameAt
<1>4. CASE k < Len(s) - 1
  <2>1. AtField(Pop(s), "add_next", k, d, i)
    BY <1>1, <1>2, <1>4 DEF AtField
  <2> QED
    BY <1>2, <2>1 DEF Ahead
<1>5. CASE k = Len(s) - 1
  <2>1. k + 1 = Len(s)
    BY <1>1, <1>5
  <2>2. s[Len(s)].desc = Fields[d][s[k].next - 1]
    BY <2>1 DEF Follows, AtField
  <2>3. s[k].next # i + 1
    <3>1. i + 1 - 1 = i
      OBVIOUS
    <3> QED
      BY <2>2, <3>1
  <2>4. s[k].next <= i
    BY <2>3 DEF AtField
  <2>5. AtField(Pop(s), "add_next", k, d, i)
    BY <1>2, <2>4 DEF AtField
  <2> QED
    BY <1>2, <2>5 DEF Ahead
<1>6. k < Len(s) - 1 \/ k = Len(s) - 1
  BY <1>1
<1> QED
  BY <1>4, <1>5, <1>6

\* It calls itself on its next field: what was ahead is ahead or being done.
LEMMA AheadPush ==
  ASSUME NEW s \in Seq(Frame), s # <<>>, NEW e \in Types, NEW p, NEW q,
         NEW d \in Types, NEW i \in 1..Len(Fields[d]), Ahead(s, p, d, i)
  PROVE  Ahead(Append(Advance(s), Activation(e)), q, d, i)
<1> DEFINE u == Advance(s)
           v == Append(u, Activation(e))
<1>1. /\ u \in Seq(Frame) /\ Len(u) = Len(s) /\ Len(s) \in Nat \ {0}
      /\ u[Len(s)].desc = s[Len(s)].desc
      /\ u[Len(s)].next = s[Len(s)].next + 1
      /\ \A j \in 1..(Len(s) - 1) : u[j] = s[j]
  BY AdvanceType, AdvanceFrames
<1> HIDE DEF u
<1>2. Len(v) = Len(s) + 1 /\ \A j \in 1..Len(s) : v[j] = u[j]
  BY <1>1, PushType
<1> HIDE DEF v
<1>3. PICK k \in 1..Len(s) : AtField(s, p, k, d, i)
  BY DEF Ahead
<1>4. s[k].next \in Nat \ {0} /\ k < Len(v) /\ k \in 1..Len(v)
  BY <1>1, <1>2, <1>3, FrameAt
<1>5. AtField(v, q, k, d, i)
  <2>1. CASE k = Len(s)
    <3>1. s[k].next <= i
      BY <1>3, <2>1 DEF AtField
    <3>2. v[k].next = s[k].next + 1 /\ v[k].desc = d
      BY <1>1, <1>2, <1>3, <2>1 DEF AtField
    <3>3. v[k].next <= i \/ v[k].next = i + 1
      BY <1>4, <3>1, <3>2
    <3> QED
      BY <1>4, <3>2, <3>3 DEF AtField
  <2>2. CASE k # Len(s)
    <3>1. v[k] = s[k]
      BY <1>1, <1>2, <1>3, <2>2
    <3> QED
      BY <1>3, <1>4, <3>1 DEF AtField
  <2> QED
    BY <2>1, <2>2
<1>6. Ahead(v, q, d, i)
  BY <1>4, <1>5 DEF Ahead
<1> QED
  BY <1>6 DEF v, u

\* An Add in progress keeps what it has ahead, or loads it, while no type fails.
LEMMA AddKeepsAhead ==
  ASSUME TypeOK, OnlyCompiledRulesRun, StacksFollowFields,
         NEW t \in Threads, AddStep(t), \A e \in Types : rules'[e] # "error",
         NEW d \in Types, NEW i \in 1..Len(Fields[d]), StillAdding(t, d, i)
  PROVE  StillAdding(t, d, i)' \/ rules[Fields[d][i]] = "ok"
<1> DEFINE s == frames[t]
<1> USE DEF AddPCs
<1>1. /\ s \in Seq(Frame) /\ s # <<>> /\ Len(s) \in Nat \ {0} /\ Follows(s)
      /\ Desc(t) \in Types /\ rules[Desc(t)] \in {"absent", "ok"}
      /\ Desc(t) = s[Len(s)].desc /\ pc \in [Threads -> PCs] /\ pc[t] # "idle"
      /\ frames \in [Threads -> Seq(Frame)]
  <2>1. pc[t] # "idle" /\ Follows(s)
    BY DEF StillAdding, StacksFollowFields
  <2>2. Desc(t) \in Types
    BY <2>1, TopType
  <2>3. rules[Desc(t)] \in {"absent", "ok", "error"}
    BY <2>2 DEF TypeOK
  <2>4. rules[Desc(t)] # "error"
    BY <2>2, RulesKept DEF Step
  <2> QED
    BY <2>1, <2>2, <2>3, <2>4, TopType DEF TypeOK, Desc, Top, PCs
<1>2. Ahead(s, pc[t], d, i)
  BY StillAddingIs
<1>3. ASSUME frames'[t] = s, pc'[t] \in AddPCs, pc[t] # "add_next"
      PROVE  StillAdding(t, d, i)'
  <2>1. Ahead(s, pc'[t], d, i)
    BY <1>2, <1>3 DEF Ahead, AtField
  <2> QED
    BY <1>3, <2>1 DEF StillAdding, Ahead, AtField
<1>4. ASSUME ReturnOk(t, "add_next"), rules[Desc(t)] = "ok",
             pc[t] = "add_next" => FieldsDone(t)
      PROVE  StillAdding(t, d, i)' \/ rules[Fields[d][i]] = "ok"
  <2>1. PICK k \in 1..Len(s) : AtField(s, pc[t], k, d, i)
    BY <1>2 DEF Ahead
  <2>2. k \in 1..(Len(s) - 1)
    <3>1. SUFFICES ASSUME k = Len(s) PROVE FALSE
      BY <1>1
    <3>2. pc[t] = "add_next" /\ s[k].next <= i /\ s[k].desc = d /\ s[k].next \in Nat \ {0}
      BY <1>1, <2>1, <3>1, FrameAt DEF AtField
    <3>3. Top(t).next > Len(Fields[d]) /\ Top(t) = s[k]
      BY <1>1, <1>4, <3>1, <3>2 DEF FieldsDone, Walked, Desc, Top
    <3>4. Len(Fields[d]) \in Nat
      BY FactoryAssumption DEF FactoryAssumption
    <3> QED
      BY <3>2, <3>3, <3>4
  <2>3. CASE Fields[d][i] = s[Len(s)].desc
    BY <1>1, <1>4, <2>3
  <2>4. CASE Fields[d][i] # s[Len(s)].desc
    <3>1. Ahead(Pop(s), "add_next", d, i)
      BY <1>1, <2>1, <2>2, <2>4, AheadPop
    <3>2. Len(s) > 1
      BY <1>1, <2>2
    <3>3. frames'[t] = Pop(s) /\ pc'[t] = "add_next"
      BY <1>1, <1>4, <3>2 DEF ReturnOk, Goto
    <3> QED
      BY <3>1, <3>3 DEF StillAdding, Ahead, AtField
  <2> QED
    BY <2>3, <2>4
<1>5. ASSUME Descend(t, "add_lock") PROVE StillAdding(t, d, i)'
  <2> DEFINE e == Walked(t)[Top(t).next]
  <2>1. e \in Types /\ frames'[t] = Append(Advance(s), Activation(e)) /\ pc'[t] = "add_lock"
    BY <1>1, <1>5, DescendsTo
  <2> HIDE DEF e
  <2>2. Ahead(frames'[t], pc'[t], d, i)
    BY <1>1, <1>2, <2>1, AheadPush
  <2> QED
    BY <2>1, <2>2 DEF StillAdding, Ahead, AtField
<1>6. CASE AddLock(t)
  BY <1>1, <1>3, <1>6 DEF AddLock, Goto
<1>7. CASE AddFind(t)
  <2>1. CASE rules[Desc(t)] = "ok"
    BY <1>4, <1>7, <2>1 DEF AddFind
  <2>2. CASE rules[Desc(t)] = "absent"
    BY <1>1, <1>3, <1>7, <2>2 DEF AddFind, Goto
  <2> QED
    BY <1>1, <2>1, <2>2
<1>8. CASE AddBuild(t)
  <2>1. rules'[Desc(t)] = "ok"
    <3>1. Built(t) \in {"ok", "error"}
      BY <1>1, FactoryAssumption DEF Built, FactoryAssumption, TypeOK
    <3>2. rules'[Desc(t)] \in {"ok", "error"}
      BY <1>1, <1>8, <3>1 DEF AddBuild, Emplace, TypeOK
    <3> QED
      BY <1>1, <3>2
  <2> QED
    BY <1>1, <1>3, <1>8, <2>1 DEF AddBuild, Goto
<1>9. CASE AddNext(t)
  <2>1. rules[Desc(t)] = "ok"
    BY <1>1, <1>9 DEF OnlyCompiledRulesRun, AddNext
  <2> QED
    BY <1>4, <1>5, <1>9, <2>1 DEF AddNext
<1> QED
  BY <1>6, <1>7, <1>8, <1>9 DEF AddStep

LEMMA LoadedStep ==
  ASSUME TypeOK, Phases, OnlyCompiledRulesRun, StacksFollowFields, Unstarted,
         FieldsLoadedOrPending, SealedNext
  PROVE  FieldsLoadedOrPending'
<1>1. PICK t \in Threads : Step(t) \/ (Outside(t) /\ ProtocolCall(t))
  BY SealedIsNext
<1> SUFFICES ASSUME \A e \in Types : rules'[e] # "error",
                    NEW d \in Types, rules'[d] = "ok", NEW i \in 1..Len(Fields[d])
             PROVE  rules'[Fields[d][i]] = "ok" \/ \E u \in Threads : StillAdding(u, d, i)'
  BY DEF FieldsLoadedOrPending
<1>2. \A e \in Types : rules[e] # "absent" => rules'[e] = rules[e]
  BY <1>1, RulesKept
<1>3. Fields[d][i] \in Types
  BY FactoryAssumption DEF FactoryAssumption
<1>4. \A e \in Types : rules[e] # "error"
  BY <1>2
<1>5. CASE rules[d] = "ok"
  <2>1. CASE rules[Fields[d][i]] = "ok"
    BY <1>2, <1>3, <2>1
  <2>2. CASE rules[Fields[d][i]] # "ok"
    <3>1. PICK u \in Threads : StillAdding(u, d, i)
      BY <1>4, <1>5, <2>2 DEF FieldsLoadedOrPending
    <3>2. CASE u # t
      <4>1. pc'[u] = pc[u] /\ frames'[u] = frames[u]
        BY <1>1, <3>2, OthersStay
      <4> QED
        BY <3>1, <4>1 DEF StillAdding
    <3>3. CASE u = t
      <4>1. pc[t] \in AddPCs
        BY <3>1, <3>3 DEF StillAdding
      <4>2. AddStep(t)
        BY <1>1, <4>1 DEF AddPCs, Step, GetStep, UseStep, GetLockShared, GetFindShared,
           GetLockExclusive, GetFindExclusive, GetBuild, CheckRules, ReadStatus, ReadValue,
           RunRules, NextField, Outside, CallAdd, CallValidate, Call, DisableLazyLoading,
           SetAllowUnknownFields, SetMessageFactory, Configure
      <4> QED
        BY <2>2, <3>1, <3>3, <4>2, AddKeepsAhead
    <3> QED
      BY <3>2, <3>3
  <2> QED
    BY <2>1, <2>2
<1>6. CASE rules[d] # "ok"
  \* d has just been compiled, by an Add.
  <2>1. pc[t] \in BuildPCs
    BY <1>1, <1>6, RulesKept
  <2>2. pc[t] = "add_build"
    BY <2>1 DEF Phases, BuildPCs
  <2>3. AddBuild(t) /\ Desc(t) \in Types
    BY <1>1, <2>2, TopType DEF Step, AddStep, AddLock, AddFind, AddNext, GetStep, UseStep,
       GetLockShared, GetFindShared, GetLockExclusive, GetFindExclusive, GetBuild, CheckRules,
       ReadStatus, ReadValue, RunRules, NextField, Outside, CallAdd, CallValidate, Call,
       DisableLazyLoading, SetAllowUnknownFields, SetMessageFactory, Configure
  <2>4. d = Desc(t)
    BY <1>6, <2>3 DEF AddBuild, Emplace, TypeOK
  <2>5. frames' = frames /\ pc'[t] = "add_next"
    BY <2>3, <2>4 DEF AddBuild, Goto, TypeOK
  <2>6. Len(frames[t]) \in 1..Len(frames[t]) /\ Top(t).next = 1 /\ Top(t).desc = d
    BY <2>2, <2>4, TopType DEF Unstarted, Desc
  <2>7. i \in Nat /\ 1 <= i
    BY FactoryAssumption DEF FactoryAssumption
  <2>8. StillAdding(t, d, i)'
    BY <2>5, <2>6, <2>7 DEF StillAdding, Top, AddPCs
  <2> QED
    BY <2>8
<1> QED
  BY <1>5, <1>6

LEMMA SealedPhases == SealedSpec => []Phases
<1>1. Init => Phases
  BY DEF Init, Phases, AddPCs, ValidatePCs, GetPCs, UsePCs
<1>2. TypeOK /\ Phases /\ [SealedNext]_vars => Phases'
  <2> SUFFICES ASSUME TypeOK, Phases, [SealedNext]_vars PROVE Phases'
    OBVIOUS
  <2>1. CASE UNCHANGED vars
    BY <2>1 DEF vars, Phases
  <2> QED
    BY <2>1, PhasesStep
<1> QED
  BY <1>1, <1>2, SealedSpecIsSpec, TypeCorrect, PTL DEF SealedSpec

\* However the Adds of several threads share a type graph, with cycles or not,
\* no field of a loaded type is forgotten: it is loaded, or on some Add's stack.
THEOREM FieldsNotForgotten == SealedSpec => []FieldsLoadedOrPending
<1>1. Init => FieldsLoadedOrPending
  BY DEF Init, FieldsLoadedOrPending
<1>2. TypeOK /\ Phases /\ OnlyCompiledRulesRun /\ StacksFollowFields /\ Unstarted
        /\ FieldsLoadedOrPending /\ [SealedNext]_vars => FieldsLoadedOrPending'
  <2> SUFFICES ASSUME TypeOK, Phases, OnlyCompiledRulesRun, StacksFollowFields, Unstarted,
                      FieldsLoadedOrPending, [SealedNext]_vars
               PROVE  FieldsLoadedOrPending'
    OBVIOUS
  <2>1. CASE UNCHANGED vars
    BY <2>1 DEF vars, FieldsLoadedOrPending, StillAdding
  <2> QED
    BY <2>1, LoadedStep
<1> QED
  BY <1>1, <1>2, SealedSpecIsSpec, TypeCorrect, SealedPhases, OnlyCompiledSealed,
     StacksFollow, UnstartedHolds, PTL DEF SealedSpec

\* Once no Add is running, the loaded types are closed under "has a field of".
THEOREM LoadedClosedCorrect == SealedSpec => []LoadedClosed
<1>1. FieldsLoadedOrPending => LoadedClosed
  BY DEF FieldsLoadedOrPending, LoadedClosed, StillAdding
<1> QED
  BY <1>1, FieldsNotForgotten, PTL

LEMMA NotFoundStep ==
  ASSUME TypeOK, Phases, OnlyCompiledRulesRun, Unstarted, LoadedClosed, SealedNext,
         NEW t \in Threads, pc[t] = "get_rfind", reply'[t] = "notfound", Len(frames[t]) > 1
  PROVE  \/ ~Declares(frames[t][Len(frames[t]) - 1].desc, Desc(t))
         \/ \E d \in Types : rules[d] = "error"
<1>1. PICK u \in Threads : Step(u) \/ (Outside(u) /\ ProtocolCall(u))
  BY SealedIsNext
<1>2. reply[t] = "none"
  BY DEF Unstarted
<1>3. u = t
  BY <1>1, <1>2, ReplyStays
<1>4. GetFindShared(t)
  BY <1>1, <1>3 DEF Step, AddStep, AddLock, AddFind, AddBuild, AddNext, GetStep, UseStep,
     GetLockShared, GetLockExclusive, GetFindExclusive, GetBuild, CheckRules,
     ReadStatus, ReadValue, RunRules, NextField, Outside, CallAdd, CallValidate, Call,
     DisableLazyLoading, SetAllowUnknownFields, SetMessageFactory, Configure
<1>5. lazyDisabled /\ rules[Desc(t)] = "absent"
  BY <1>2, <1>4 DEF GetFindShared
<1>6. \A v \in Threads : pc[v] \notin AddPCs
  BY <1>5 DEF Phases
<1> SUFFICES ASSUME \A d \in Types : rules[d] # "error",
                    Declares(frames[t][Len(frames[t]) - 1].desc, Desc(t))
             PROVE  FALSE
  OBVIOUS
<1>7. \A d \in Types : rules[d] = "ok" =>
        \A i \in 1..Len(Fields[d]) : Fields[d][i] \in Types /\ rules[Fields[d][i]] = "ok"
  BY <1>6, FactoryAssumption DEF LoadedClosed, FactoryAssumption
<1> DEFINE k == Len(frames[t]) - 1
           d == frames[t][k].desc
<1>8. frames[t] \in Seq(Frame) /\ k \in 1..Len(frames[t]) /\ k < Len(frames[t])
  BY TopType DEF TypeOK
<1>9. d \in Types /\ rules[d] = "ok"
  BY <1>8, FrameAt DEF OnlyCompiledRulesRun
<1>10. Declares(d, Desc(t))
  OBVIOUS
<1> HIDE DEF d, k
<1> QED
  BY <1>5, <1>7, <1>9, <1>10 DEF Declares

\* After the seal, Validate is told "not found" of its message's own type or of
\* an extension's, but never of a type that a loaded type declares a field of,
\* unless a type failed to compile.
THEOREM NotFoundIsUndeclared == SealedSpec => NotFoundOnlyForUndeclared
<1>1. TypeOK /\ Phases /\ OnlyCompiledRulesRun /\ Unstarted /\ LoadedClosed /\ [SealedNext]_vars
        => [\A t \in Threads :
              (pc[t] = "get_rfind" /\ reply'[t] = "notfound" /\ Len(frames[t]) > 1)
                => \/ ~Declares(frames[t][Len(frames[t]) - 1].desc, Desc(t))
                   \/ \E d \in Types : rules[d] = "error"]_vars
  BY NotFoundStep
<1> QED
  BY <1>1, SealedSpecIsSpec, TypeCorrect, SealedPhases, OnlyCompiledSealed,
     UnstartedHolds, LoadedClosedCorrect, PTL
     DEF SealedSpec, NotFoundOnlyForUndeclared
==============================================================================
