----------------------- MODULE ValidatorFactoryProofs -----------------------
(* Proofs about ValidatorFactory and SealedFactory, for any threads, types, *)
(* field graph (cyclic or not), verdicts and bounds.                        *)
EXTENDS SealedFactory, SequenceTheorems, TLAPS

PCs == {"idle"} \cup AddPCs \cup ValidatePCs

\* An activation record of a known type is a frame.
LEMMA ActivationType == ASSUME NEW d \in Types PROVE Activation(d) \in Frame
  BY DEF Activation, Frame

\* A thread that is inside a call has an activation on top of its stack.
LEMMA TopType ==
  ASSUME TypeOK, NEW t \in Threads, pc[t] # "idle"
  PROVE  /\ Len(frames[t]) \in Nat \ {0}
         /\ Top(t) \in Frame
         /\ Desc(t) \in Types
<1>1. frames[t] \in Seq(Frame) /\ frames[t] # <<>>
  BY DEF TypeOK
<1>2. Len(frames[t]) \in Nat \ {0}
  BY <1>1
<1>3. Top(t) \in Frame
  BY <1>1, <1>2 DEF Top
<1> QED
  BY <1>2, <1>3 DEF Desc, Frame

\* What the steps do to a stack: popping it, unwinding it, moving on to the
\* next field and calling on that field's type all leave a stack of frames,
\* and a stack that is empty exactly when the thread is idle.
LEMMA PopType ==
  ASSUME NEW s \in Seq(Frame), s # <<>>
  PROVE  /\ Pop(s) \in Seq(Frame)
         /\ Len(Pop(s)) = Len(s) - 1
         /\ \A i \in 1..(Len(s) - 1) : Pop(s)[i] = s[i]
<1>1. Len(s) \in Nat \ {0}
  OBVIOUS
<1>2. \A i \in 1..(Len(s) - 1) : s[i] \in Frame
  BY <1>1
<1>3. 1 \in Int /\ Len(s) - 1 \in Int
  BY <1>1
<1>4. /\ Pop(s) \in Seq(Frame)
      /\ Len(Pop(s)) = IF 1 <= Len(s) - 1 THEN (Len(s) - 1) - 1 + 1 ELSE 0
      /\ \A i \in 1..((Len(s) - 1) - 1 + 1) : Pop(s)[i] = s[1 + i - 1]
  BY <1>2, <1>3, SubSeqProperties DEF Pop
<1>5. Len(Pop(s)) = Len(s) - 1
  <2>1. CASE Len(s) = 1
    BY <1>4, <2>1
  <2>2. CASE Len(s) > 1
    <3>1. 1 <= Len(s) - 1 /\ (Len(s) - 1) - 1 + 1 = Len(s) - 1
      BY <1>1, <2>2
    <3> QED
      BY <1>4, <3>1
  <2>3. Len(s) = 1 \/ Len(s) > 1
    BY <1>1
  <2> QED
    BY <2>1, <2>2, <2>3
<1>6. ASSUME NEW i \in 1..(Len(s) - 1) PROVE Pop(s)[i] = s[i]
  <2>1. i \in 1..((Len(s) - 1) - 1 + 1) /\ 1 + i - 1 = i
    BY <1>1
  <2> QED
    BY <1>4, <2>1
<1> QED
  BY <1>4, <1>5, <1>6

LEMMA AdvanceType ==
  ASSUME NEW s \in Seq(Frame), s # <<>>
  PROVE  /\ Advance(s) \in Seq(Frame)
         /\ Len(Advance(s)) = Len(s)
         /\ \A i \in 1..Len(s) : Advance(s)[i].desc = s[i].desc
<1>1. Len(s) \in 1..Len(s) /\ s[Len(s)] \in Frame
  OBVIOUS
<1> DEFINE e == [desc |-> s[Len(s)].desc, next |-> s[Len(s)].next + 1]
<1>2. e \in Frame /\ e.desc = s[Len(s)].desc
  BY <1>1 DEF Frame
<1>3. Advance(s) = [s EXCEPT ![Len(s)] = e]
  BY DEF Advance
<1> QED
  BY <1>1, <1>2, <1>3, ExceptSeq

LEMMA PushType ==
  ASSUME NEW s \in Seq(Frame), NEW d \in Types
  PROVE  LET p == Append(s, Activation(d)) IN
         /\ p \in Seq(Frame)
         /\ p # <<>>
         /\ Len(p) = Len(s) + 1
         /\ \A i \in 1..Len(s) : p[i] = s[i]
         /\ p[Len(s) + 1] = Activation(d)
  BY ActivationType, AppendProperties

-----------------------------------------------------------------------------
(* Type correctness.  The control part of TypeOK (program counters, stacks, *)
(* replies) is disturbed by the four moves of a thread below; the data part *)
(* (rules_, the mutex, the setters' members) by the actions that write it.  *)

Replies == {"none", "ok", "error", "notfound", "stopped"}

ControlType ==
  /\ pc \in [Threads -> PCs]
  /\ frames \in [Threads -> Seq(Frame)]
  /\ reply \in [Threads -> Replies]
  /\ \A t \in Threads : frames[t] = <<>> <=> pc[t] = "idle"

DataType ==
  /\ rules \in [Types -> {"absent", "ok", "error"}]
  /\ table \in Nat
  /\ lazyDisabled \in BOOLEAN
  /\ config \in Configs
  /\ writer \in Threads \cup {NoThread}
  /\ readers \in SUBSET Threads
  /\ ptr \in [Threads -> Nat]
  /\ calls \in [Threads -> 0..MaxCalls]

LEMMA TypeParts == TypeOK <=> ControlType /\ DataType
  BY DEF TypeOK, ControlType, DataType, PCs, Replies

\* A thread that stays inside its current activation keeps the control types.
LEMMA GotoControl ==
  ASSUME ControlType, NEW t \in Threads, pc[t] # "idle",
         NEW p \in PCs \ {"idle"}, Goto(t, p), UNCHANGED <<frames, reply>>
  PROVE  ControlType'
  BY DEF ControlType, Goto

\* So does one that abandons its call with a reply.
LEMMA UnwindControl ==
  ASSUME ControlType, NEW t \in Threads, NEW r \in Replies, Unwind(t, r)
  PROVE  ControlType'
<1>1. <<>> \in Seq(Frame)
  OBVIOUS
<1> QED
  BY <1>1 DEF ControlType, Unwind, Goto, PCs

\* One whose innermost activation returns OK to its caller, or to nobody.
LEMMA ReturnOkControl ==
  ASSUME ControlType, NEW t \in Threads, pc[t] # "idle",
         NEW p \in PCs \ {"idle"}, ReturnOk(t, p)
  PROVE  ControlType'
<1>1. frames[t] \in Seq(Frame) /\ frames[t] # <<>>
  BY DEF ControlType
<1>2. /\ Pop(frames[t]) \in Seq(Frame)
      /\ Len(Pop(frames[t])) = Len(frames[t]) - 1
      /\ Len(frames[t]) \in Nat \ {0}
  BY <1>1, PopType
<1>3. Pop(frames[t]) = <<>> <=> ~(Len(frames[t]) > 1)
  BY <1>2
<1>4. frames' = [frames EXCEPT ![t] = Pop(frames[t])]
  BY DEF ReturnOk
<1>5. CASE Len(frames[t]) > 1
  <2>1. pc' = [pc EXCEPT ![t] = p] /\ reply' = reply
    BY <1>5 DEF ReturnOk, Goto
  <2> QED
    BY <1>2, <1>3, <1>4, <1>5, <2>1 DEF ControlType
<1>6. CASE ~(Len(frames[t]) > 1)
  <2>1. pc' = [pc EXCEPT ![t] = "idle"] /\ reply' = [reply EXCEPT ![t] = "ok"]
    BY <1>6 DEF ReturnOk, Goto
  <2> QED
    BY <1>2, <1>3, <1>4, <1>6, <2>1 DEF ControlType, PCs, Replies
<1> QED
  BY <1>5, <1>6

\* One that calls on the type of its next field.
LEMMA DescendControl ==
  ASSUME ControlType, NEW t \in Threads, pc[t] # "idle",
         NEW p \in PCs \ {"idle"}, Descend(t, p)
  PROVE  ControlType'
<1>1. frames[t] \in Seq(Frame) /\ frames[t] # <<>>
  BY DEF ControlType
<1>2. Len(frames[t]) \in Nat \ {0} /\ Top(t) \in Frame
  BY <1>1 DEF Top
<1>3. Desc(t) \in Types /\ Top(t).next \in Nat \ {0}
  BY <1>2 DEF Desc, Frame
<1>4. Walked(t) \in Seq(Types)
  BY <1>3, FactoryAssumption DEF FactoryAssumption, Walked
<1>5. Top(t).next \in 1..Len(Walked(t))
  BY <1>3, <1>4 DEF Descend, FieldsDone
<1>6. Walked(t)[Top(t).next] \in Types
  BY <1>4, <1>5
<1> DEFINE s == Append(Advance(frames[t]), Activation(Walked(t)[Top(t).next]))
<1>7. s \in Seq(Frame) /\ s # <<>>
  BY <1>1, <1>6, AdvanceType, PushType
<1>8. frames' = [frames EXCEPT ![t] = s] /\ pc' = [pc EXCEPT ![t] = p] /\ reply' = reply
  BY DEF Descend, Goto
<1> HIDE DEF s
<1> QED
  BY <1>7, <1>8 DEF ControlType

\* A call that begins.
LEMMA CallType ==
  ASSUME TypeOK, NEW t \in Threads, NEW d \in Types,
         NEW p \in PCs \ {"idle"}, Call(t, d, p)
  PROVE  TypeOK'
<1>1. ControlType /\ DataType
  BY TypeParts
<1>2. <<Activation(d)>> \in Seq(Frame) /\ <<Activation(d)>> # <<>>
  BY ActivationType
<1>3. ControlType'
  BY <1>1, <1>2 DEF ControlType, Call, Goto, Replies
<1>4. calls[t] + 1 \in 0..MaxCalls
  BY <1>1, FactoryAssumption DEF DataType, Call, FactoryAssumption
<1>5. DataType'
  BY <1>1, <1>4 DEF DataType, Call, shared, mutex
<1> QED
  BY <1>3, <1>5, TypeParts, PTL

\* Add's and GetMessageRules' emplace keeps the table a table.
LEMMA EmplaceType ==
  ASSUME TypeOK, NEW t \in Threads, pc[t] # "idle", Emplace(t)
  PROVE  /\ rules' \in [Types -> {"absent", "ok", "error"}]
         /\ table' \in Nat
         /\ UNCHANGED <<lazyDisabled, config>>
<1>1. Desc(t) \in Types
  BY TopType
<1>2. Built(t) \in {"ok", "error"}
  BY <1>1, FactoryAssumption DEF Built, FactoryAssumption, TypeOK
<1>3. rules[Desc(t)] \in {"absent", "ok", "error"}
  BY <1>1 DEF TypeOK
<1>4. rules' = [rules EXCEPT ![Desc(t)] =
                  IF rules[Desc(t)] = "absent" THEN Built(t) ELSE rules[Desc(t)]]
  BY DEF Emplace
<1>5. rules' \in [Types -> {"absent", "ok", "error"}]
  BY <1>1, <1>2, <1>3, <1>4 DEF TypeOK
<1>6. table' \in Nat
  BY DEF Emplace, TypeOK
<1> QED
  BY <1>5, <1>6 DEF Emplace

LEMMA AddStepType ==
  ASSUME TypeOK, NEW t \in Threads, AddStep(t)
  PROVE  TypeOK'
<1> USE DEF PCs, AddPCs, ValidatePCs, GetPCs, UsePCs, Replies
<1>1. ControlType /\ DataType /\ pc[t] # "idle"
  BY TypeParts DEF AddStep, AddLock, AddFind, AddBuild, AddNext
<1>2. ControlType'
  <2>1. CASE AddLock(t)
    BY <1>1, <2>1, GotoControl DEF AddLock
  <2>2. CASE AddFind(t)
    <3>1. rules[Desc(t)] \in {"absent", "ok", "error"}
      BY <1>1, TopType DEF DataType
    <3>2. CASE rules[Desc(t)] = "ok"
      BY <1>1, <2>2, <3>2, ReturnOkControl DEF AddFind
    <3>3. CASE rules[Desc(t)] = "error"
      BY <1>1, <2>2, <3>3, UnwindControl DEF AddFind
    <3>4. CASE rules[Desc(t)] = "absent"
      BY <1>1, <2>2, <3>4, GotoControl DEF AddFind
    <3> QED
      BY <3>1, <3>2, <3>3, <3>4
  <2>3. CASE AddBuild(t)
    <3>1. CASE rules'[Desc(t)] = "ok"
      BY <1>1, <2>3, <3>1, GotoControl DEF AddBuild
    <3>2. CASE rules'[Desc(t)] # "ok"
      BY <1>1, <2>3, <3>2, UnwindControl DEF AddBuild
    <3> QED
      BY <3>1, <3>2
  <2>4. CASE AddNext(t)
    <3>1. CASE FieldsDone(t)
      BY <1>1, <2>4, <3>1, ReturnOkControl DEF AddNext
    <3>2. CASE ~FieldsDone(t)
      BY <1>1, <2>4, <3>2, DescendControl DEF AddNext
    <3> QED
      BY <3>1, <3>2
  <2> QED
    BY <2>1, <2>2, <2>3, <2>4 DEF AddStep
<1>3. DataType'
  <2>1. CASE AddLock(t)
    BY <1>1, <2>1 DEF DataType, AddLock, LockExclusive, shared
  <2>2. CASE AddFind(t)
    <3>1. rules[Desc(t)] \in {"absent", "ok", "error"}
      BY <1>1, TopType DEF DataType
    <3>2. writer' \in {writer, NoThread} /\ readers' = readers
      BY <2>2, <3>1 DEF AddFind, UnlockExclusive, mutex
    <3> QED
      BY <1>1, <2>2, <3>2 DEF DataType, AddFind, shared
  <2>3. CASE AddBuild(t)
    BY <1>1, <2>3, EmplaceType DEF DataType, AddBuild, UnlockExclusive
  <2>4. CASE AddNext(t)
    BY <1>1, <2>4 DEF DataType, AddNext, shared, mutex
  <2> QED
    BY <2>1, <2>2, <2>3, <2>4 DEF AddStep
<1> QED
  BY <1>2, <1>3, TypeParts, PTL

LEMMA GetStepType ==
  ASSUME TypeOK, NEW t \in Threads, GetStep(t)
  PROVE  TypeOK'
<1> USE DEF PCs, AddPCs, ValidatePCs, GetPCs, UsePCs, Replies
<1>1. ControlType /\ DataType /\ pc[t] # "idle"
  BY TypeParts DEF GetStep, GetLockShared, GetFindShared, GetLockExclusive,
                   GetFindExclusive, GetBuild
<1>2. ControlType'
  <2>1. CASE GetLockShared(t)
    BY <1>1, <2>1, GotoControl DEF GetLockShared
  <2>2. CASE GetFindShared(t)
    <3>1. CASE Unwind(t, "notfound")
      BY <1>1, <3>1, UnwindControl
    <3>2. CASE /\ Goto(t, "check") \/ Goto(t, "get_wlock")
               /\ UNCHANGED <<frames, reply>>
      BY <1>1, <3>2, GotoControl
    <3> QED
      BY <2>2, <3>1, <3>2 DEF GetFindShared
  <2>3. CASE GetLockExclusive(t)
    BY <1>1, <2>3, GotoControl DEF GetLockExclusive
  <2>4. CASE GetFindExclusive(t)
    BY <1>1, <2>4, GotoControl DEF GetFindExclusive
  <2>5. CASE GetBuild(t)
    BY <1>1, <2>5, GotoControl DEF GetBuild
  <2> QED
    BY <2>1, <2>2, <2>3, <2>4, <2>5 DEF GetStep
<1>3. DataType'
  <2>1. CASE GetLockShared(t)
    BY <1>1, <2>1 DEF DataType, GetLockShared, LockShared, shared
  <2>2. CASE GetFindShared(t)
    <3>1. ptr' \in [Threads -> Nat]
      BY <1>1, <2>2 DEF DataType, GetFindShared
    <3> QED
      BY <1>1, <2>2, <3>1 DEF DataType, GetFindShared, UnlockShared, shared
  <2>3. CASE GetLockExclusive(t)
    BY <1>1, <2>3 DEF DataType, GetLockExclusive, LockExclusive, shared
  <2>4. CASE GetFindExclusive(t)
    <3>1. ptr' \in [Threads -> Nat] /\ writer' \in {writer, NoThread} /\ readers' = readers
      BY <1>1, <2>4 DEF DataType, GetFindExclusive, UnlockExclusive, mutex
    <3> QED
      BY <1>1, <2>4, <3>1 DEF DataType, GetFindExclusive, shared
  <2>5. CASE GetBuild(t)
    BY <1>1, <2>5, EmplaceType DEF DataType, GetBuild, UnlockExclusive
  <2> QED
    BY <2>1, <2>2, <2>3, <2>4, <2>5 DEF GetStep
<1> QED
  BY <1>2, <1>3, TypeParts, PTL

LEMMA UseStepType ==
  ASSUME TypeOK, NEW t \in Threads, UseStep(t)
  PROVE  TypeOK'
<1> USE DEF PCs, AddPCs, ValidatePCs, GetPCs, UsePCs, Replies
<1>1. ControlType /\ DataType /\ pc[t] # "idle"
  BY TypeParts DEF UseStep, CheckRules, ReadStatus, ReadValue, RunRules, NextField
<1>2. ControlType'
  <2>1. CASE CheckRules(t)
    <3>1. (Goto(t, "value") \/ Goto(t, "status")) /\ UNCHANGED <<frames, reply>>
      BY <2>1 DEF CheckRules
    <3> QED
      BY <1>1, <3>1, GotoControl
  <2>2. CASE ReadStatus(t)
    BY <1>1, <2>2, UnwindControl DEF ReadStatus
  <2>3. CASE ReadValue(t)
    BY <1>1, <2>3, GotoControl DEF ReadValue
  <2>4. CASE RunRules(t)
    BY <1>1, <2>4, GotoControl, UnwindControl DEF RunRules
  <2>5. CASE NextField(t)
    <3>1. CASE ReturnOk(t, "fields")
      BY <1>1, <3>1, ReturnOkControl
    <3>2. CASE Descend(t, "get_rlock")
      BY <1>1, <3>2, DescendControl
    <3>3. CASE frames' = [frames EXCEPT ![t] = Advance(frames[t])] /\ UNCHANGED <<pc, reply>>
      <4>1. frames[t] \in Seq(Frame) /\ frames[t] # <<>>
        BY <1>1 DEF ControlType
      <4>2. Advance(frames[t]) \in Seq(Frame) /\ Advance(frames[t]) # <<>>
        BY <4>1, AdvanceType
      <4> QED
        BY <1>1, <3>3, <4>2 DEF ControlType
    <3> QED
      BY <2>5, <3>1, <3>2, <3>3 DEF NextField
  <2> QED
    BY <2>1, <2>2, <2>3, <2>4, <2>5 DEF UseStep
<1>3. UNCHANGED <<rules, table, lazyDisabled, config, writer, readers, ptr, calls>>
  BY DEF UseStep, CheckRules, ReadStatus, ReadValue, RunRules, NextField, shared, mutex
<1>4. DataType'
  BY <1>1, <1>3 DEF DataType
<1> QED
  BY <1>2, <1>4, TypeParts, PTL

\* Starting a call and the setters.
Outside(t) ==
  \/ \E d \in Types : CallAdd(t, d) \/ CallValidate(t, d)
  \/ \E b \in BOOLEAN : DisableLazyLoading(t, b) \/ SetAllowUnknownFields(t, b)
  \/ SetMessageFactory(t)

LEMMA OutsideType ==
  ASSUME TypeOK, NEW t \in Threads, Outside(t)
  PROVE  TypeOK'
<1>1. CASE \E d \in Types : CallAdd(t, d) \/ CallValidate(t, d)
  BY <1>1, CallType
     DEF CallAdd, CallValidate, PCs, AddPCs, ValidatePCs, GetPCs
<1>2. CASE \E b \in BOOLEAN : DisableLazyLoading(t, b)
  BY <1>2, FactoryAssumption DEF DisableLazyLoading, TypeOK, FactoryAssumption, mutex
<1>3. CASE \E c \in Configs : Configure(t, c)
  BY <1>3, FactoryAssumption DEF Configure, TypeOK, FactoryAssumption, mutex
<1>4. \A b \in BOOLEAN : SetAllowUnknownFields(t, b) => \E c \in Configs : Configure(t, c)
  BY DEF SetAllowUnknownFields, TypeOK, Configs
<1>5. SetMessageFactory(t) => \E c \in Configs : Configure(t, c)
  BY DEF SetMessageFactory, TypeOK, Configs
<1> QED
  BY <1>1, <1>2, <1>3, <1>4, <1>5 DEF Outside

LEMMA NextCases ==
  ASSUME [Next]_vars
  PROVE  (\E t \in Threads : Step(t) \/ Outside(t)) \/ UNCHANGED vars
  BY DEF Next, Outside

\* Type correctness of the factory: TypeOK is inductive as it stands.
THEOREM TypeCorrect == Spec => []TypeOK
<1>1. Init => TypeOK
  <2> SUFFICES ASSUME Init PROVE TypeOK
    OBVIOUS
  <2>1. 0 \in 0..MaxCalls
    BY FactoryAssumption DEF FactoryAssumption
  <2>2. <<>> \in Seq(Frame)
    OBVIOUS
  <2>3. config \in Configs
    BY DEF Init, Configs
  <2> QED
    BY <2>1, <2>2, <2>3 DEF Init, TypeOK
<1>2. TypeOK /\ [Next]_vars => TypeOK'
  <2> SUFFICES ASSUME TypeOK, [Next]_vars PROVE TypeOK'
    OBVIOUS
  <2>1. CASE \E t \in Threads : Step(t)
    BY <2>1, AddStepType, GetStepType, UseStepType DEF Step
  <2>2. CASE \E t \in Threads : Outside(t)
    BY <2>2, OutsideType
  <2>3. CASE UNCHANGED vars
    BY <2>3 DEF vars, TypeOK
  <2> QED
    BY <2>1, <2>2, <2>3, NextCases
<1> QED
  BY <1>1, <1>2, PTL DEF Spec
-----------------------------------------------------------------------------
(* The mutex.                                                               *)

LEMMA ReturnOkGoes ==
  ASSUME NEW t, NEW p, ReturnOk(t, p)
  PROVE  Goto(t, p) \/ Goto(t, "idle")
  BY DEF ReturnOk

\* A thread outside the critical sections moves to another place outside them.
LEMMA MutexOutside ==
  ASSUME TypeOK, MutexProtectsRules, NEW t \in Threads,
         pc[t] \notin WriterPCs \cup {"get_rfind"},
         NEW q \in PCs \ (WriterPCs \cup {"get_rfind"}), Goto(t, q), UNCHANGED mutex
  PROVE  MutexProtectsRules'
  BY DEF TypeOK, MutexProtectsRules, Goto, mutex

\* The writer leaves its critical section.
LEMMA MutexUnlock ==
  ASSUME TypeOK, MutexProtectsRules, NEW t \in Threads, pc[t] \in WriterPCs,
         NEW q \in PCs \ (WriterPCs \cup {"get_rfind"}), Goto(t, q), UnlockExclusive
  PROVE  MutexProtectsRules'
<1>1. writer = t /\ writer' = NoThread /\ readers' = readers
  BY DEF MutexProtectsRules, UnlockExclusive
<1>2. \A u \in Threads : pc[u] \in WriterPCs => u = t
  BY <1>1 DEF MutexProtectsRules
<1>3. \A u \in Threads : pc'[u] \notin WriterPCs
  BY <1>2 DEF TypeOK, Goto
<1>4. "get_rfind" \notin WriterPCs
  BY DEF WriterPCs, BuildPCs
<1> QED
  BY <1>1, <1>3, <1>4, FactoryAssumption DEF TypeOK, MutexProtectsRules, Goto, FactoryAssumption

\* The writer moves on inside its critical section.
LEMMA MutexStay ==
  ASSUME TypeOK, MutexProtectsRules, NEW t \in Threads, pc[t] \in WriterPCs,
         NEW q \in WriterPCs, Goto(t, q), UNCHANGED mutex
  PROVE  MutexProtectsRules'
  BY DEF TypeOK, MutexProtectsRules, Goto, mutex, WriterPCs, BuildPCs

\* A thread enters a critical section.
LEMMA MutexLock ==
  ASSUME TypeOK, MutexProtectsRules, NEW t \in Threads,
         pc[t] \notin WriterPCs \cup {"get_rfind"},
         NEW q \in WriterPCs, Goto(t, q), LockExclusive(t)
  PROVE  MutexProtectsRules'
<1>1. writer = NoThread /\ readers = {} /\ writer' = t /\ readers' = {}
  BY DEF LockExclusive
<1>2. \A u \in Threads : pc[u] \notin WriterPCs /\ pc[u] # "get_rfind"
  BY <1>1, FactoryAssumption DEF MutexProtectsRules, FactoryAssumption
<1> QED
  BY <1>1, <1>2 DEF TypeOK, MutexProtectsRules, Goto, WriterPCs, BuildPCs

LEMMA MutexShare ==
  ASSUME TypeOK, MutexProtectsRules, NEW t \in Threads,
         pc[t] \notin WriterPCs \cup {"get_rfind"}, Goto(t, "get_rfind"), LockShared(t)
  PROVE  MutexProtectsRules'
<1>1. writer = NoThread /\ writer' = writer /\ readers' = readers \cup {t}
  BY DEF LockShared
<1> QED
  BY <1>1 DEF TypeOK, MutexProtectsRules, Goto, WriterPCs, BuildPCs

LEMMA MutexUnshare ==
  ASSUME TypeOK, MutexProtectsRules, NEW t \in Threads, pc[t] = "get_rfind",
         NEW q \in PCs \ (WriterPCs \cup {"get_rfind"}), Goto(t, q), UnlockShared(t)
  PROVE  MutexProtectsRules'
<1>1. writer' = writer /\ readers' = readers \ {t}
  BY DEF UnlockShared
<1> QED
  BY <1>1 DEF TypeOK, MutexProtectsRules, Goto, WriterPCs, BuildPCs

LEMMA MutexStep ==
  ASSUME TypeOK, MutexProtectsRules, NEW t \in Threads, Step(t) \/ Outside(t)
  PROVE  MutexProtectsRules'
<1> USE DEF WriterPCs, BuildPCs, PCs, AddPCs, ValidatePCs, GetPCs, UsePCs
<1>1. CASE AddLock(t)
  BY <1>1, MutexLock DEF AddLock
<1>2. CASE AddFind(t)
  <2>1. rules[Desc(t)] \in {"absent", "ok", "error"}
    BY <1>2, TopType DEF TypeOK, AddFind
  <2>2. CASE rules[Desc(t)] = "absent"
    BY <1>2, <2>2, MutexStay DEF AddFind
  <2>3. CASE rules[Desc(t)] # "absent"
    <3>1. /\ Goto(t, "add_next") \/ Goto(t, "idle")
          /\ UnlockExclusive
      BY <1>2, <2>1, <2>3, ReturnOkGoes DEF AddFind, Unwind
    <3> QED
      BY <1>2, <3>1, MutexUnlock DEF AddFind
  <2> QED
    BY <2>2, <2>3
<1>3. CASE AddBuild(t)
  BY <1>3, MutexUnlock DEF AddBuild, Unwind
<1>4. CASE AddNext(t)
  <2>1. Goto(t, "add_next") \/ Goto(t, "idle") \/ Goto(t, "add_lock")
    BY <1>4, ReturnOkGoes DEF AddNext, Descend
  <2> QED
    BY <1>4, <2>1, MutexOutside DEF AddNext
<1>5. CASE GetLockShared(t)
  BY <1>5, MutexShare DEF GetLockShared
<1>6. CASE GetFindShared(t)
  <2>1. Goto(t, "check") \/ Goto(t, "idle") \/ Goto(t, "get_wlock")
    BY <1>6 DEF GetFindShared, Unwind
  <2> QED
    BY <1>6, <2>1, MutexUnshare DEF GetFindShared
<1>7. CASE GetLockExclusive(t)
  BY <1>7, MutexLock DEF GetLockExclusive
<1>8. CASE GetFindExclusive(t)
  BY <1>8, MutexUnlock, MutexStay DEF GetFindExclusive
<1>9. CASE GetBuild(t)
  BY <1>9, MutexUnlock DEF GetBuild
<1>10. CASE UseStep(t)
  <2>1. \E q \in PCs \ (WriterPCs \cup {"get_rfind"}) : Goto(t, q)
    <3>1. CASE NextField(t)
      BY <3>1, ReturnOkGoes DEF NextField, Descend, TypeOK, Goto
    <3>2. CASE CheckRules(t)
      BY <3>2 DEF CheckRules
    <3> QED
      BY <1>10, <3>1, <3>2 DEF UseStep, ReadStatus, ReadValue, RunRules, Unwind
  <2>2. pc[t] \notin WriterPCs \cup {"get_rfind"} /\ UNCHANGED mutex
    BY <1>10 DEF UseStep, CheckRules, ReadStatus, ReadValue, RunRules, NextField
  <2> QED
    BY <2>1, <2>2, MutexOutside
<1>11. CASE Outside(t)
  <2>1. CASE \E d \in Types : CallAdd(t, d) \/ CallValidate(t, d)
    BY <2>1, MutexOutside DEF CallAdd, CallValidate, Call
  <2>2. CASE UNCHANGED <<pc, writer, readers>>
    BY <2>2 DEF MutexProtectsRules
  <2> QED
    BY <1>11, <2>1, <2>2
       DEF Outside, DisableLazyLoading, SetAllowUnknownFields, SetMessageFactory,
           Configure, mutex
<1> QED
  BY <1>1, <1>2, <1>3, <1>4, <1>5, <1>6, <1>7, <1>8, <1>9, <1>10, <1>11
     DEF Step, AddStep, GetStep

\* The mutex excludes every conflicting access to rules_, for any number of
\* threads and any interleaving of Add, lookups and the setters.
THEOREM MutexCorrect == Spec => []MutexProtectsRules
<1>1. Init => MutexProtectsRules
  BY FactoryAssumption
     DEF Init, MutexProtectsRules, WriterPCs, BuildPCs, FactoryAssumption
<1>2. TypeOK /\ MutexProtectsRules /\ [Next]_vars => MutexProtectsRules'
  <2> SUFFICES ASSUME TypeOK, MutexProtectsRules, [Next]_vars PROVE MutexProtectsRules'
    OBVIOUS
  <2>1. CASE UNCHANGED vars
    BY <2>1 DEF vars, MutexProtectsRules
  <2> QED
    BY <2>1, NextCases, MutexStep
<1> QED
  BY <1>1, <1>2, TypeCorrect, PTL DEF Spec
-----------------------------------------------------------------------------
(* The entries of rules_.                                                   *)

\* Only the two builds write rules_, and they keep the entries that are there.
LEMMA RulesKept ==
  ASSUME TypeOK, NEW t \in Threads, Step(t) \/ Outside(t)
  PROVE  /\ \A d \in Types : rules[d] # "absent" => rules'[d] = rules[d]
         /\ pc[t] \notin BuildPCs => rules' = rules /\ table' = table
<1>1. CASE pc[t] \in BuildPCs
  <2>1. Emplace(t)
    BY <1>1 DEF Step, Outside, AddStep, GetStep, UseStep, AddLock, AddFind, AddBuild, AddNext,
         GetLockShared, GetFindShared, GetLockExclusive, GetFindExclusive, GetBuild,
         CheckRules, ReadStatus, ReadValue, RunRules, NextField, CallAdd, CallValidate,
         Call, DisableLazyLoading, SetAllowUnknownFields, SetMessageFactory, Configure, BuildPCs
  <2> QED
    BY <1>1, <2>1 DEF Emplace, TypeOK
<1>2. CASE pc[t] \notin BuildPCs
  BY <1>2 DEF Step, Outside, AddStep, GetStep, UseStep, AddLock, AddFind, AddBuild, AddNext,
         GetLockShared, GetFindShared, GetLockExclusive, GetFindExclusive, GetBuild,
         CheckRules, ReadStatus, ReadValue, RunRules, NextField, CallAdd, CallValidate,
         Call, DisableLazyLoading, SetAllowUnknownFields, SetMessageFactory, Configure,
         BuildPCs, shared
<1> QED
  BY <1>1, <1>2

\* A step moves one thread only.
LEMMA OthersStay ==
  ASSUME TypeOK, NEW t \in Threads, Step(t) \/ Outside(t), NEW u \in Threads, u # t
  PROVE  pc'[u] = pc[u] /\ frames'[u] = frames[u] /\ ptr'[u] = ptr[u]
<1> USE DEF TypeOK, Goto
<1>1. CASE AddStep(t)
  <2>1. CASE AddFind(t)
    <3>1. rules[Desc(t)] \in {"absent", "ok", "error"}
      BY <2>1, TopType DEF AddFind
    <3> QED
      BY <2>1, <3>1 DEF AddFind, ReturnOk, Unwind
  <2> QED
    BY <1>1, <2>1 DEF AddStep, AddLock, AddBuild, AddNext, ReturnOk, Unwind, Descend
<1>2. CASE GetStep(t)
  BY <1>2 DEF GetStep, GetLockShared, GetFindShared, GetLockExclusive, GetFindExclusive,
              GetBuild, Unwind
<1>3. CASE UseStep(t)
  BY <1>3 DEF UseStep, CheckRules, ReadStatus, ReadValue, RunRules, NextField, ReturnOk,
              Unwind, Descend
<1>4. CASE Outside(t)
  BY <1>4 DEF Outside, CallAdd, CallValidate, Call, DisableLazyLoading,
              SetAllowUnknownFields, SetMessageFactory, Configure
<1> QED
  BY <1>1, <1>2, <1>3, <1>4 DEF Step

\* A verdict, once cached, is never replaced or dropped.
THEOREM EntriesImmutable == Spec => EntriesWrittenOnce
<1>1. TypeOK /\ [Next]_vars => [\A d \in Types : rules[d] # "absent" => rules'[d] = rules[d]]_vars
  BY RulesKept, NextCases
<1> QED
  BY <1>1, TypeCorrect, PTL DEF Spec, EntriesWrittenOnce

\* A thread arrives at a build only from the lookup under the same lock.
LEMMA ArrivesAtBuild ==
  ASSUME TypeOK, NEW t \in Threads, Step(t) \/ Outside(t), pc'[t] \in BuildPCs
  PROVE  /\ rules[Desc(t)] = "absent"
         /\ frames' = frames
         /\ pc[t] \notin BuildPCs
<1> USE DEF BuildPCs
<1>1. CASE AddStep(t)
  <2>1. pc' \in [Threads -> PCs] /\ pc[t] # "idle" /\ rules[Desc(t)] \in {"absent", "ok", "error"}
    BY <1>1, TopType DEF TypeOK, AddStep, AddLock, AddFind, AddBuild, AddNext, Goto, ReturnOk,
       Unwind, Descend, PCs, AddPCs
  <2>2. CASE AddLock(t)
    BY <2>2 DEF AddLock, Goto, TypeOK
  <2>3. CASE AddFind(t)
    BY <2>1, <2>3, ReturnOkGoes DEF AddFind, Unwind, Goto, TypeOK
  <2>4. CASE AddBuild(t)
    BY <2>4 DEF AddBuild, Unwind, Goto, TypeOK
  <2>5. CASE AddNext(t)
    BY <2>5, ReturnOkGoes DEF AddNext, Descend, Goto, TypeOK
  <2> QED
    BY <1>1, <2>2, <2>3, <2>4, <2>5 DEF AddStep
<1>2. CASE GetStep(t)
  BY <1>2 DEF GetStep, GetLockShared, GetFindShared, GetLockExclusive, GetFindExclusive,
              GetBuild, Unwind, Goto, TypeOK
<1>3. CASE UseStep(t)
  BY <1>3, ReturnOkGoes DEF UseStep, CheckRules, ReadStatus, ReadValue, RunRules, NextField,
              Unwind, Descend, Goto, TypeOK
<1>4. CASE Outside(t)
  BY <1>4 DEF Outside, CallAdd, CallValidate, Call, DisableLazyLoading, Goto, TypeOK,
              SetAllowUnknownFields, SetMessageFactory, Configure
<1> QED
  BY <1>1, <1>2, <1>3, <1>4 DEF Step

LEMMA BuildsOnlyMissingStep ==
  ASSUME TypeOK, MutexProtectsRules, BuildsOnlyMissing,
         NEW t \in Threads, Step(t) \/ Outside(t)
  PROVE  BuildsOnlyMissing'
<1> SUFFICES ASSUME NEW u \in Threads, pc'[u] \in BuildPCs
             PROVE  rules'[frames'[u][Len(frames'[u])].desc] = "absent"
  BY DEF BuildsOnlyMissing, Desc, Top
<1>1. CASE u = t
  <2>1. rules[Desc(t)] = "absent" /\ frames' = frames /\ rules' = rules
    BY <1>1, ArrivesAtBuild, RulesKept
  <2> QED
    BY <1>1, <2>1 DEF Desc, Top
<1>2. CASE u # t
  <2>1. pc[u] \in BuildPCs /\ frames'[u] = frames[u]
    BY <1>2, OthersStay
  <2>2. writer = u
    BY <2>1 DEF MutexProtectsRules, WriterPCs
  <2>3. pc[t] \notin BuildPCs
    BY <1>2, <2>2 DEF MutexProtectsRules, WriterPCs
  <2>4. rules' = rules
    BY <2>3, RulesKept
  <2> QED
    BY <2>1, <2>4 DEF BuildsOnlyMissing, Desc, Top
<1> QED
  BY <1>1, <1>2

\* No type is compiled while it has rules: the re-check under the writer lock
\* closes the gap GetMessageRules leaves between its two locks.
THEOREM BuildsOnlyMissingCorrect == Spec => []BuildsOnlyMissing
<1>1. Init => BuildsOnlyMissing
  BY DEF Init, BuildsOnlyMissing, BuildPCs
<1>2. TypeOK /\ MutexProtectsRules /\ BuildsOnlyMissing /\ [Next]_vars => BuildsOnlyMissing'
  <2> SUFFICES ASSUME TypeOK, MutexProtectsRules, BuildsOnlyMissing, [Next]_vars
               PROVE  BuildsOnlyMissing'
    OBVIOUS
  <2>1. CASE UNCHANGED vars
    BY <2>1 DEF vars, BuildsOnlyMissing, Desc, Top
  <2> QED
    BY <2>1, NextCases, BuildsOnlyMissingStep
<1> QED
  BY <1>1, <1>2, TypeCorrect, MutexCorrect, PTL DEF Spec
-----------------------------------------------------------------------------
(* The sealed protocol.  What makes its lookups safe is a phase invariant:  *)
(* before the seal nobody validates, after it nobody adds, and a lookup     *)
(* never gets past the reader lock without an entry.  So rules_ is frozen   *)
(* while a pointer into it is in use.                                       *)

Phases ==
  /\ lazyDisabled => \A t \in Threads : pc[t] \notin AddPCs
  /\ ~lazyDisabled => \A t \in Threads : pc[t] \notin ValidatePCs
  /\ \A t \in Threads : pc[t] \notin {"get_wlock", "get_wfind", "get_build"}

\* What the protocol asks of a call that begins.
ProtocolCall(t) ==
  \/ ~lazyDisabled /\ \E d \in Types : CallAdd(t, d)
  \/ lazyDisabled /\ \E d \in Types : CallValidate(t, d)
  \/ Quiet /\ UNCHANGED <<pc, ptr>>

\* Every step of the protocol is a step of the factory.
LEMMA SealedIsNext ==
  ASSUME SealedNext
  PROVE  \E t \in Threads : Step(t) \/ (Outside(t) /\ ProtocolCall(t))
<1>1. PICK t \in Threads :
        \/ Step(t)
        \/ \E d \in Types : ~lazyDisabled /\ CallAdd(t, d)
        \/ \E d \in Types : lazyDisabled /\ CallValidate(t, d)
        \/ Quiet /\ DisableLazyLoading(t, TRUE)
        \/ Quiet /\ \E b \in BOOLEAN : SetAllowUnknownFields(t, b)
        \/ Quiet /\ SetMessageFactory(t)
  BY DEF SealedNext
<1>2. \A b : DisableLazyLoading(t, b) => UNCHANGED <<pc, ptr>>
  BY DEF DisableLazyLoading
<1>3. \A c : Configure(t, c) => UNCHANGED <<pc, ptr>>
  BY DEF Configure
<1>4. \A b : SetAllowUnknownFields(t, b) => UNCHANGED <<pc, ptr>>
  BY <1>3 DEF SetAllowUnknownFields
<1>5. SetMessageFactory(t) => UNCHANGED <<pc, ptr>>
  BY <1>3 DEF SetMessageFactory
<1> QED
  BY <1>1, <1>2, <1>4, <1>5 DEF Outside, ProtocolCall

LEMMA StepKeepsPhase ==
  ASSUME TypeOK, NEW t \in Threads, Step(t)
  PROVE  /\ lazyDisabled' = lazyDisabled
         /\ pc[t] \in AddPCs => pc'[t] \in AddPCs \cup {"idle"}
         /\ pc[t] \in ValidatePCs => pc'[t] \in ValidatePCs \cup {"idle"}
         /\ pc[t] \in AddPCs \cup ValidatePCs
<1> USE DEF AddPCs, ValidatePCs, GetPCs, UsePCs
<1>1. CASE AddStep(t)
  <2>1. CASE AddFind(t)
    <3>1. rules[Desc(t)] \in {"absent", "ok", "error"}
      BY <2>1, TopType DEF AddFind, TypeOK
    <3>2. Goto(t, "add_next") \/ Goto(t, "idle") \/ Goto(t, "add_build")
      BY <2>1, <3>1, ReturnOkGoes DEF AddFind, Unwind
    <3> QED
      BY <2>1, <3>2 DEF AddFind, Goto, TypeOK, shared
  <2>2. CASE AddNext(t)
    <3>1. Goto(t, "add_next") \/ Goto(t, "idle") \/ Goto(t, "add_lock")
      BY <2>2, ReturnOkGoes DEF AddNext, Descend
    <3> QED
      BY <2>2, <3>1 DEF AddNext, Goto, TypeOK, shared
  <2>3. CASE AddLock(t) \/ AddBuild(t)
    BY <2>3 DEF AddLock, AddBuild, Emplace, Unwind, Goto, TypeOK, shared
  <2> QED
    BY <1>1, <2>1, <2>2, <2>3 DEF AddStep
<1>2. CASE GetStep(t)
  BY <1>2 DEF GetStep, GetLockShared, GetFindShared, GetLockExclusive, GetFindExclusive,
              GetBuild, Emplace, Unwind, Goto, TypeOK, shared
<1>3. CASE UseStep(t)
  <2>1. CASE NextField(t)
    <3>1. Goto(t, "fields") \/ Goto(t, "idle") \/ Goto(t, "get_rlock") \/ pc' = pc
      BY <2>1, ReturnOkGoes DEF NextField, Descend
    <3> QED
      BY <2>1, <3>1 DEF NextField, Goto, TypeOK, shared
  <2>2. CASE CheckRules(t)
    <3>1. Goto(t, "value") \/ Goto(t, "status")
      BY <2>2 DEF CheckRules
    <3> QED
      BY <2>2, <3>1 DEF CheckRules, Goto, TypeOK, shared
  <2> QED
    BY <1>3, <2>1, <2>2
       DEF UseStep, ReadStatus, ReadValue, RunRules, Unwind, Goto, TypeOK, shared
<1> QED
  BY <1>1, <1>2, <1>3 DEF Step

LEMMA PhasesStep ==
  ASSUME TypeOK, Phases, SealedNext
  PROVE  Phases'
<1> USE DEF AddPCs, ValidatePCs, GetPCs, UsePCs
<1>1. PICK t \in Threads :
        Step(t) \/ (Outside(t) /\ ProtocolCall(t))
  BY SealedIsNext
<1>2. CASE Step(t)
  <2>1. \A u \in Threads : u # t => pc'[u] = pc[u]
    BY <1>2, OthersStay
  <2>2. pc'[t] \notin {"get_wlock", "get_wfind", "get_build"}
    <3>1. CASE GetFindShared(t)
      <4>1. lazyDisabled
        BY <3>1 DEF Phases, GetFindShared
      <4>2. Goto(t, "check") \/ Goto(t, "idle")
        BY <3>1, <4>1 DEF GetFindShared, Unwind
      <4> QED
        BY <4>2 DEF Goto, TypeOK
    <3>2. CASE GetLockShared(t) \/ GetLockExclusive(t) \/ GetFindExclusive(t) \/ GetBuild(t)
      BY <3>2 DEF Phases, GetLockShared, GetLockExclusive, GetFindExclusive, GetBuild,
                  Goto, TypeOK
    <3>3. CASE AddStep(t)
      <4>1. pc[t] \in AddPCs
        BY <3>3 DEF AddStep, AddLock, AddFind, AddBuild, AddNext
      <4> QED
        BY <1>2, <4>1, StepKeepsPhase
    <3>4. CASE UseStep(t)
      <4>1. CASE NextField(t)
        <5>1. Goto(t, "fields") \/ Goto(t, "idle") \/ Goto(t, "get_rlock") \/ pc' = pc
          BY <4>1, ReturnOkGoes DEF NextField, Descend
        <5> QED
          BY <4>1, <5>1 DEF NextField, Goto, TypeOK
      <4> QED
        BY <3>4, <4>1 DEF UseStep, CheckRules, ReadStatus, ReadValue, RunRules, Unwind,
                          Goto, TypeOK
    <3> QED
      BY <1>2, <3>1, <3>2, <3>3, <3>4 DEF Step, GetStep
  <2>3. lazyDisabled => pc'[t] \notin AddPCs
    BY <1>2, StepKeepsPhase DEF Phases
  <2>4. ~lazyDisabled => pc'[t] \notin ValidatePCs
    BY <1>2, StepKeepsPhase DEF Phases
  <2> QED
    BY <1>2, <2>1, <2>2, <2>3, <2>4, StepKeepsPhase DEF Phases
<1>3. CASE ~lazyDisabled /\ \E d \in Types : CallAdd(t, d)
  BY <1>3 DEF CallAdd, Call, Goto, TypeOK, Phases, shared
<1>4. CASE lazyDisabled /\ \E d \in Types : CallValidate(t, d)
  BY <1>4 DEF CallValidate, Call, Goto, TypeOK, Phases, shared
<1>5. CASE Quiet /\ UNCHANGED <<pc, ptr>>
  BY <1>5 DEF Quiet, Phases
<1> QED
  BY <1>1, <1>2, <1>3, <1>4, <1>5 DEF ProtocolCall

LEMMA PointersStep ==
  ASSUME TypeOK, Phases, PointersLive, SealedNext
  PROVE  PointersLive'
<1> USE DEF AddPCs, ValidatePCs, GetPCs, UsePCs
<1>1. PICK t \in Threads :
        Step(t) \/ (Outside(t) /\ ProtocolCall(t))
  BY SealedIsNext
<1>2. \A u \in Threads : u # t => pc'[u] = pc[u] /\ ptr'[u] = ptr[u]
  BY <1>1, OthersStay
<1>3. CASE pc[t] \in BuildPCs
  \* Somebody adds: before the seal, when nobody validates.
  <2>1. pc[t] = "add_build" /\ ~lazyDisabled
    BY <1>3 DEF Phases, BuildPCs
  <2>2. Phases' /\ (lazyDisabled' => \A u \in Threads : pc'[u] \notin AddPCs)
    BY PhasesStep DEF Phases
  <2>3. Step(t)
    BY <1>1, <2>1 DEF ProtocolCall, CallAdd, CallValidate, Call, Quiet
  <2>4. lazyDisabled' = lazyDisabled
    BY <2>3, StepKeepsPhase
  <2> QED
    BY <2>1, <2>2, <2>4 DEF Phases, PointersLive
<1>4. CASE pc[t] \notin BuildPCs
  <2>1. table' = table
    BY <1>1, <1>4, RulesKept
  <2>2. pc'[t] \in UsePCs => ptr'[t] = table
    <3>1. CASE GetStep(t)
      BY <1>4, <3>1 DEF GetStep, GetLockShared, GetFindShared, GetLockExclusive,
         GetFindExclusive, GetBuild, Unwind, Goto, TypeOK, BuildPCs, Phases
    <3>2. CASE AddStep(t)
      <4>1. pc[t] \in AddPCs
        BY <3>2 DEF AddStep, AddLock, AddFind, AddBuild, AddNext
      <4>2. pc'[t] \in AddPCs \cup {"idle"}
        BY <3>2, <4>1, StepKeepsPhase DEF Step
      <4> QED
        BY <4>2
    <3>3. CASE UseStep(t)
      <4>1. ptr' = ptr /\ (pc'[t] \in UsePCs => pc[t] \in UsePCs)
        <5>1. CASE NextField(t)
          <6>1. Goto(t, "fields") \/ Goto(t, "idle") \/ Goto(t, "get_rlock") \/ pc' = pc
            BY <5>1, ReturnOkGoes DEF NextField, Descend
          <6> QED
            BY <5>1, <6>1 DEF NextField, Goto, TypeOK
        <5> QED
          BY <3>3, <5>1 DEF UseStep, CheckRules, ReadStatus, ReadValue, RunRules, Unwind,
                            Goto, TypeOK
      <4> QED
        BY <4>1 DEF PointersLive
    <3>4. CASE Outside(t) /\ ~Step(t)
      BY <1>1, <3>4 DEF ProtocolCall, CallAdd, CallValidate, Call, Goto, TypeOK, Quiet, PointersLive
    <3> QED
      BY <1>1, <3>1, <3>2, <3>3, <3>4 DEF Step
  <2> QED
    BY <1>2, <2>1, <2>2 DEF PointersLive
<1> QED
  BY <1>3, <1>4

\* Under the sealed protocol no validation ever reads through a pointer into a
\* table that has moved, whether or not inserting moves the table.
THEOREM SealedPointersLive == SealedSpec => []PointersLive
<1>1. Init => Phases /\ PointersLive
  BY DEF Init, Phases, PointersLive, AddPCs, ValidatePCs, GetPCs, UsePCs
<1>2. [SealedNext]_vars => [Next]_vars
  BY DEF SealedNext, Next
<1>3. TypeOK /\ Phases /\ PointersLive /\ [SealedNext]_vars => (Phases /\ PointersLive)'
  <2> SUFFICES ASSUME TypeOK, Phases, PointersLive, [SealedNext]_vars
               PROVE  (Phases /\ PointersLive)'
    OBVIOUS
  <2>1. CASE UNCHANGED vars
    BY <2>1 DEF vars, Phases, PointersLive
  <2> QED
    BY <2>1, PhasesStep, PointersStep
<1> QED
  BY <1>1, <1>2, <1>3, TypeCorrect, PTL DEF SealedSpec, Spec
=============================================================================
