--------------------------- MODULE RuleCacheProofs ---------------------------
(* Proofs that a ValidatorFactory keeps the promise of RuleCache, and that  *)
(* only rules that compiled are run.  Both need the const Rules* a lookup   *)
(* returned to point into the table when it is read (PointersLive), so they *)
(* are stated for every behaviour in which it does; two theorems then say   *)
(* when it does: if inserting never moves the entries of rules_, and under  *)
(* the sealed protocol, whatever inserting does.                            *)
EXTENDS ValidatorFactoryProofs

RunPCs == {"value", "loop", "fields", "add_next"}

\* Of a stack s whose thread is at p, every activation that has got past its
\* lookup has rules that compiled, by the verdicts r.
Compiled(s, p, r) ==
  \A i \in 1..Len(s) : (i < Len(s) \/ p \in RunPCs) => r[s[i].desc] = "ok"

LEMMA OnlyCompiledIs ==
  OnlyCompiledRulesRun <=> \A t \in Threads : Compiled(frames[t], pc[t], rules)
  BY DEF OnlyCompiledRulesRun, Compiled, RunPCs

\* What the moves of a thread do to the activations that may run rules.
LEMMA CompiledPop ==
  ASSUME NEW s \in Seq(Frame), s # <<>>, NEW p, NEW q, NEW r, Compiled(s, p, r)
  PROVE  Compiled(Pop(s), q, r)
<1>1. /\ Len(Pop(s)) = Len(s) - 1 /\ Len(s) \in Nat \ {0}
      /\ \A i \in 1..(Len(s) - 1) : Pop(s)[i] = s[i]
  BY PopType
<1>2. \A i \in 1..(Len(s) - 1) : i \in 1..Len(s) /\ i < Len(s)
  BY <1>1
<1> QED
  BY <1>1, <1>2 DEF Compiled

LEMMA CompiledEmpty == \A q, r : Compiled(<<>>, q, r)
  BY DEF Compiled

LEMMA CompiledAdvance ==
  ASSUME NEW s \in Seq(Frame), s # <<>>, NEW p, NEW r, Compiled(s, p, r)
  PROVE  Compiled(Advance(s), p, r)
<1>1. /\ Len(Advance(s)) = Len(s)
      /\ \A i \in 1..Len(s) : Advance(s)[i].desc = s[i].desc
  BY AdvanceType
<1> QED
  BY <1>1 DEF Compiled

LEMMA CompiledPush ==
  ASSUME NEW s \in Seq(Frame), s # <<>>, NEW p \in RunPCs, NEW q, q \notin RunPCs,
         NEW d \in Types, NEW r, Compiled(s, p, r)
  PROVE  Compiled(Append(Advance(s), Activation(d)), q, r)
<1> DEFINE u == Advance(s)
           v == Append(u, Activation(d))
<1>1. u \in Seq(Frame) /\ Len(u) = Len(s) /\ Compiled(u, p, r)
  BY AdvanceType, CompiledAdvance
<1>2. \A i \in 1..Len(u) : r[u[i].desc] = "ok"
  BY <1>1 DEF Compiled
<1> HIDE DEF u
<1>3. Len(v) = Len(u) + 1 /\ \A i \in 1..Len(u) : v[i] = u[i]
  BY <1>1, PushType
<1> HIDE DEF v
<1>4. ASSUME NEW i \in 1..Len(v), i < Len(v) PROVE r[v[i].desc] = "ok"
  <2>1. Len(u) \in Nat
    BY <1>1
  <2>2. i \in 1..Len(u)
    BY <1>3, <1>4, <2>1
  <2> QED
    BY <1>2, <1>3, <2>2
<1>5. Compiled(v, q, r)
  BY <1>4 DEF Compiled
<1> QED
  BY <1>5 DEF v, u

LEMMA CompiledTop ==
  ASSUME NEW s \in Seq(Frame), s # <<>>, NEW p, NEW q, NEW r, Compiled(s, p, r),
         q \in RunPCs => r[s[Len(s)].desc] = "ok"
  PROVE  Compiled(s, q, r)
<1>1. Len(s) \in Nat \ {0}
  OBVIOUS
<1>2. \A i \in 1..Len(s) : i < Len(s) \/ i = Len(s)
  BY <1>1
<1> QED
  BY <1>2 DEF Compiled

\* Verdicts are only added.
LEMMA CompiledKept ==
  ASSUME TypeOK, NEW t \in Threads, Step(t) \/ Outside(t),
         NEW s \in Seq(Frame), NEW p, Compiled(s, p, rules)
  PROVE  Compiled(s, p, rules')
<1>1. \A i \in 1..Len(s) : s[i].desc \in Types
  <2>1. \A i \in 1..Len(s) : s[i] \in Frame
    OBVIOUS
  <2> QED
    BY <2>1 DEF Frame
<1>2. \A d \in Types : rules[d] = "ok" => rules'[d] = "ok"
  BY RulesKept
<1> QED
  BY <1>1, <1>2 DEF Compiled

\* Where a thread's own step leaves its stack, the activations that may run
\* rules have rules that compiled.
LEMMA CompiledMover ==
  ASSUME TypeOK, PointersLive, NEW t \in Threads, Step(t) \/ Outside(t),
         Compiled(frames[t], pc[t], rules)
  PROVE  Compiled(frames'[t], pc'[t], rules')
<1> DEFINE s == frames[t]
<1>1. s \in Seq(Frame) /\ frames \in [Threads -> Seq(Frame)] /\ pc \in [Threads -> PCs]
  BY DEF TypeOK, PCs
<1>2. Compiled(s, pc[t], rules')
  BY <1>1, CompiledKept
<1>3. pc[t] # "idle" => s # <<>>
  BY DEF TypeOK
<1>4. ASSUME pc[t] # "idle", NEW p \in PCs, ReturnOk(t, p)
      PROVE  Compiled(frames'[t], pc'[t], rules')
  BY <1>1, <1>2, <1>3, <1>4, CompiledPop DEF ReturnOk
<1>5. ASSUME NEW r, Unwind(t, r) PROVE Compiled(frames'[t], pc'[t], rules')
  BY <1>1, <1>5, CompiledEmpty DEF Unwind
<1>6. ASSUME NEW p \in PCs \ RunPCs, Descend(t, p), pc[t] \in RunPCs
      PROVE  Compiled(frames'[t], pc'[t], rules')
  <2>1. pc[t] # "idle"
    BY <1>6 DEF RunPCs
  <2>2. Walked(t)[Top(t).next] \in Types
    <3>1. Desc(t) \in Types /\ Top(t).next \in Nat \ {0}
      BY <2>1, TopType DEF Frame
    <3>2. Walked(t) \in Seq(Types)
      BY <3>1, FactoryAssumption DEF FactoryAssumption, Walked
    <3> QED
      BY <1>6, <3>1, <3>2 DEF Descend, FieldsDone
  <2>3. frames'[t] = Append(Advance(s), Activation(Walked(t)[Top(t).next])) /\ pc'[t] = p
    BY <1>1, <1>6 DEF Descend, Goto
  <2> QED
    BY <1>1, <1>2, <1>3, <1>6, <2>1, <2>2, <2>3, CompiledPush
<1>7. ASSUME frames'[t] = s, pc'[t] \in RunPCs => rules'[Desc(t)] = "ok", pc[t] # "idle"
      PROVE  Compiled(frames'[t], pc'[t], rules')
  BY <1>1, <1>2, <1>3, <1>7, CompiledTop DEF Desc, Top
<1>8. rules[Desc(t)] = "ok" /\ pc[t] # "idle" => rules'[Desc(t)] = "ok"
  BY RulesKept, TopType
<1>9. pc[t] \in RunPCs => rules'[Desc(t)] = "ok"
  <2>1. ASSUME pc[t] \in RunPCs PROVE Len(s) \in 1..Len(s)
    BY <1>3, <2>1, TopType DEF RunPCs
  <2> QED
    BY <1>2, <2>1 DEF Compiled, Desc, Top
<1> HIDE DEF s
<1> USE DEF PCs, AddPCs, ValidatePCs, GetPCs, UsePCs, RunPCs
<1>10. CASE AddStep(t)
  <2>1. CASE AddLock(t)
    BY <1>1, <1>7, <2>1 DEF AddLock, Goto, s
  <2>2. CASE AddFind(t)
    <3>1. rules[Desc(t)] \in {"absent", "ok", "error"}
      BY <2>2, TopType DEF AddFind, TypeOK
    <3>2. CASE rules[Desc(t)] = "ok"
      BY <1>4, <2>2, <3>2 DEF AddFind
    <3>3. CASE rules[Desc(t)] = "error"
      BY <1>5, <2>2, <3>3 DEF AddFind
    <3>4. CASE rules[Desc(t)] = "absent"
      BY <1>1, <1>7, <2>2, <3>4 DEF AddFind, Goto, s
    <3> QED
      BY <3>1, <3>2, <3>3, <3>4
  <2>3. CASE AddBuild(t)
    BY <1>1, <1>5, <1>7, <2>3 DEF AddBuild, Goto, s
  <2>4. CASE AddNext(t)
    BY <1>4, <1>6, <2>4 DEF AddNext
  <2> QED
    BY <1>10, <2>1, <2>2, <2>3, <2>4 DEF AddStep
<1>11. CASE GetStep(t)
  <2>1. CASE \E r : Unwind(t, r)
    BY <1>5, <2>1
  <2>2. CASE ~\E r : Unwind(t, r)
    BY <1>1, <1>7, <1>11, <2>2
       DEF GetStep, GetLockShared, GetFindShared, GetLockExclusive, GetFindExclusive,
           GetBuild, Goto, s
  <2> QED
    BY <2>1, <2>2
<1>12. CASE UseStep(t)
  <2>1. CASE CheckRules(t)
    <3>1. Deref(t) = {rules[Desc(t)]}
      BY <2>1 DEF CheckRules, Deref, PointersLive
    <3>2. pc'[t] \in RunPCs => rules[Desc(t)] = "ok"
      BY <1>1, <2>1, <3>1 DEF CheckRules, Goto
    <3> QED
      BY <1>7, <1>8, <2>1, <3>2 DEF CheckRules, s
  <2>2. CASE NextField(t)
    <3>1. CASE ReturnOk(t, "fields")
      BY <1>4, <2>2, <3>1 DEF NextField
    <3>2. CASE Descend(t, "get_rlock")
      BY <1>6, <2>2, <3>2 DEF NextField
    <3>3. CASE frames' = [frames EXCEPT ![t] = Advance(frames[t])] /\ UNCHANGED pc
      BY <1>1, <1>2, <1>3, <2>2, <3>3, CompiledAdvance DEF NextField, s
    <3> QED
      BY <2>2, <3>1, <3>2, <3>3 DEF NextField
  <2>3. CASE ReadStatus(t)
    BY <1>5, <2>3 DEF ReadStatus
  <2>4. CASE ReadValue(t) \/ RunRules(t)
    BY <1>1, <1>5, <1>7, <1>9, <2>4 DEF ReadValue, RunRules, Goto, s
  <2> QED
    BY <1>12, <2>1, <2>2, <2>3, <2>4 DEF UseStep
<1>13. CASE Outside(t)
  <2>1. CASE UNCHANGED <<pc, frames>>
    BY <1>2, <2>1 DEF s
  <2>2. CASE \E d \in Types : CallAdd(t, d) \/ CallValidate(t, d)
    <3>1. /\ pc'[t] \notin RunPCs
          /\ \E d \in Types : frames'[t] = <<Activation(d)>>
      BY <1>1, <2>2 DEF CallAdd, CallValidate, Call, Goto
    <3>2. ASSUME NEW d, frames'[t] = <<Activation(d)>>
          PROVE  Len(frames'[t]) = 1
      BY <3>2
    <3> QED
      BY <3>1, <3>2 DEF Compiled
  <2> QED
    BY <1>13, <2>1, <2>2
       DEF Outside, DisableLazyLoading, SetAllowUnknownFields, SetMessageFactory, Configure
<1> QED
  BY <1>10, <1>11, <1>12, <1>13 DEF Step

LEMMA OnlyCompiledStep ==
  ASSUME TypeOK, PointersLive, OnlyCompiledRulesRun, [Next]_vars
  PROVE  OnlyCompiledRulesRun'
<1>1. CASE UNCHANGED vars
  BY <1>1 DEF vars, OnlyCompiledRulesRun
<1>2. ASSUME NEW t \in Threads, Step(t) \/ Outside(t)
      PROVE  \A u \in Threads : Compiled(frames'[u], pc'[u], rules')
  <2>1. ASSUME NEW u \in Threads PROVE Compiled(frames[u], pc[u], rules)
    BY OnlyCompiledIs
  <2>2. ASSUME NEW u \in Threads, u # t PROVE Compiled(frames'[u], pc'[u], rules')
    <3>1. frames[u] \in Seq(Frame)
      BY DEF TypeOK
    <3> QED
      BY <1>2, <2>1, <2>2, <3>1, OthersStay, CompiledKept
  <2> QED
    BY <1>2, <2>1, <2>2, CompiledMover
<1>3. (\A u \in Threads : Compiled(frames'[u], pc'[u], rules')) => OnlyCompiledRulesRun'
  BY DEF OnlyCompiledRulesRun, Compiled, RunPCs
<1> QED
  BY <1>1, <1>2, <1>3, NextCases

\* Only compiled rules are run: whenever the pointers of the lookups are live,
\* the status check of ValidateMessage lets no verdict but "ok" through, and an
\* Add goes on to the fields of a type only if the type compiled.
THEOREM OnlyCompiledWherePointersLive ==
  Spec /\ []PointersLive => []OnlyCompiledRulesRun
<1>1. Init => OnlyCompiledRulesRun
  BY DEF Init, OnlyCompiledRulesRun
<1>2. TypeOK /\ PointersLive /\ OnlyCompiledRulesRun /\ [Next]_vars => OnlyCompiledRulesRun'
  BY OnlyCompiledStep
<1> QED
  BY <1>1, <1>2, TypeCorrect, PTL DEF Spec
-----------------------------------------------------------------------------
(* Where pointers are live.                                                 *)

\* The step of any thread keeps the pointers live if it leaves the table be.
LEMMA PointersStay ==
  ASSUME TypeOK, PointersLive, NEW t \in Threads, Step(t) \/ Outside(t), table' = table
  PROVE  PointersLive'
<1> USE DEF AddPCs, ValidatePCs, GetPCs, UsePCs
<1>1. \A u \in Threads : u # t => pc'[u] = pc[u] /\ ptr'[u] = ptr[u]
  BY OthersStay
<1>2. pc'[t] \in UsePCs => ptr'[t] = table
  <2>1. CASE GetStep(t)
    BY <2>1 DEF GetStep, GetLockShared, GetFindShared, GetLockExclusive,
                GetFindExclusive, GetBuild, Unwind, Goto, TypeOK
  <2>2. CASE AddStep(t)
    <3>1. pc[t] \in AddPCs
      BY <2>2 DEF AddStep, AddLock, AddFind, AddBuild, AddNext
    <3>2. pc'[t] \in AddPCs \cup {"idle"}
      BY <2>2, <3>1, StepKeepsPhase DEF Step
    <3> QED
      BY <3>2
  <2>3. CASE UseStep(t)
    <3>1. ptr' = ptr /\ (pc'[t] \in UsePCs => pc[t] \in UsePCs)
      <4>1. CASE NextField(t)
        <5>1. Goto(t, "fields") \/ Goto(t, "idle") \/ Goto(t, "get_rlock") \/ pc' = pc
          BY <4>1, ReturnOkGoes DEF NextField, Descend
        <5> QED
          BY <4>1, <5>1 DEF NextField, Goto, TypeOK
      <4> QED
        BY <2>3, <4>1 DEF UseStep, CheckRules, ReadStatus, ReadValue, RunRules, Unwind,
                          Goto, TypeOK
    <3> QED
      BY <3>1 DEF PointersLive
  <2>4. CASE Outside(t)
    BY <2>4 DEF Outside, CallAdd, CallValidate, Call, Goto, TypeOK, PointersLive,
                DisableLazyLoading, SetAllowUnknownFields, SetMessageFactory, Configure
  <2> QED
    BY <2>1, <2>2, <2>3, <2>4 DEF Step
<1> QED
  BY <1>1, <1>2 DEF PointersLive

\* A table whose entries never move keeps every pointer live, sealed or not.
THEOREM StableTablePointersLive ==
  ASSUME ~TableMoves PROVE Spec => []PointersLive
<1>1. Init => PointersLive
  BY DEF Init, PointersLive
<1>2. TypeOK /\ PointersLive /\ [Next]_vars => PointersLive'
  <2> SUFFICES ASSUME TypeOK, PointersLive, [Next]_vars PROVE PointersLive'
    OBVIOUS
  <2>1. CASE UNCHANGED vars
    BY <2>1 DEF vars, PointersLive
  <2>2. ASSUME NEW t \in Threads, Step(t) \/ Outside(t) PROVE table' = table
    <3>1. CASE pc[t] \notin BuildPCs
      BY <2>2, <3>1, RulesKept
    <3>2. CASE pc[t] \in BuildPCs
      <4>1. Emplace(t)
        BY <2>2, <3>2 DEF Step, Outside, AddStep, GetStep, UseStep, AddLock, AddFind,
           AddBuild, AddNext, GetLockShared, GetFindShared, GetLockExclusive,
           GetFindExclusive, GetBuild, CheckRules, ReadStatus, ReadValue, RunRules,
           NextField, CallAdd, CallValidate, Call, DisableLazyLoading,
           SetAllowUnknownFields, SetMessageFactory, Configure, BuildPCs
      <4> QED
        BY <4>1 DEF Emplace
    <3> QED
      BY <3>1, <3>2
  <2> QED
    BY <2>1, <2>2, NextCases, PointersStay
<1> QED
  BY <1>1, <1>2, TypeCorrect, PTL DEF Spec

\* With a stable table, only compiled rules are run however the calls mix.
THEOREM OnlyCompiledStable ==
  ASSUME ~TableMoves PROVE Spec => []OnlyCompiledRulesRun
  BY StableTablePointersLive, OnlyCompiledWherePointersLive, PTL

\* The sealed protocol is one way to use the factory.
LEMMA SealedSpecIsSpec == SealedSpec => Spec
<1>1. [SealedNext]_vars => [Next]_vars
  BY DEF SealedNext, Next
<1> QED
  BY <1>1, PTL DEF SealedSpec, Spec

\* Under the sealed protocol only compiled rules are run, though inserting may
\* move the table.
THEOREM OnlyCompiledSealed == SealedSpec => []OnlyCompiledRulesRun
  BY SealedSpecIsSpec, SealedPointersLive, OnlyCompiledWherePointersLive, PTL
-----------------------------------------------------------------------------
(* The refinement of RuleCache.                                             *)

\* The verdict a validation holds: there is one when it is about to be checked,
\* and it is "error" when the check sends the thread to return the status.
VerdictHeld ==
  \A t \in Threads :
    /\ pc[t] = "check" => rules[Desc(t)] # "absent"
    /\ pc[t] = "status" => rules[Desc(t)] = "error"

LEMMA VerdictStep ==
  ASSUME TypeOK, PointersLive, VerdictHeld, [Next]_vars
  PROVE  VerdictHeld'
<1> USE DEF AddPCs, ValidatePCs, GetPCs, UsePCs
<1>1. CASE UNCHANGED vars
  BY <1>1 DEF vars, VerdictHeld, Desc, Top
<1>2. ASSUME NEW t \in Threads, Step(t) \/ Outside(t) PROVE VerdictHeld'
  <2>1. ASSUME NEW u \in Threads, pc[u] \in {"check", "status"} PROVE Desc(u) \in Types
    BY <2>1, TopType
  <2>2. ASSUME NEW u \in Threads, u # t
        PROVE  pc'[u] = pc[u] /\ Desc(u)' = Desc(u)
    BY <1>2, <2>2, OthersStay DEF Desc, Top
  <2>3. \A d \in Types : rules[d] # "absent" => rules'[d] = rules[d]
    BY <1>2, RulesKept
  <2>4. /\ pc'[t] = "check" => Desc(t)' = Desc(t) /\ rules'[Desc(t)] # "absent"
        /\ pc'[t] = "status" => Desc(t)' = Desc(t) /\ rules'[Desc(t)] = "error"
    <3>1. CASE GetStep(t)
      <4>1. CASE GetBuild(t)
        <5>1. Desc(t) \in Types
          BY <4>1, TopType DEF GetBuild
        <5>2. Built(t) \in {"ok", "error"}
          BY <5>1, FactoryAssumption DEF Built, FactoryAssumption, TypeOK
        <5>3. rules'[Desc(t)] # "absent"
          BY <4>1, <5>1, <5>2 DEF GetBuild, Emplace, TypeOK
        <5> QED
          BY <4>1, <5>3 DEF GetBuild, Goto, TypeOK, Desc, Top
      <4> QED
        BY <3>1, <4>1 DEF GetStep, GetLockShared, GetFindShared, GetLockExclusive,
                          GetFindExclusive, Unwind, Goto, TypeOK, Desc, Top, shared
    <3>2. CASE AddStep(t)
      <4>1. pc[t] \in AddPCs
        BY <3>2 DEF AddStep, AddLock, AddFind, AddBuild, AddNext
      <4>2. pc'[t] \in AddPCs \cup {"idle"}
        BY <3>2, <4>1, StepKeepsPhase DEF Step
      <4> QED
        BY <4>2
    <3>3. CASE UseStep(t)
      <4>1. CASE CheckRules(t)
        <5>1. Desc(t) \in Types /\ rules[Desc(t)] # "absent" /\ Deref(t) = {rules[Desc(t)]}
          BY <4>1, TopType DEF CheckRules, VerdictHeld, PointersLive, Deref
        <5>2. pc'[t] = IF rules[Desc(t)] = "ok" THEN "value" ELSE "status"
          BY <4>1, <5>1 DEF CheckRules, Goto, TypeOK
        <5> QED
          BY <4>1, <5>1, <5>2 DEF CheckRules, TypeOK, Desc, Top, shared
      <4>2. CASE NextField(t)
        <5>1. Goto(t, "fields") \/ Goto(t, "idle") \/ Goto(t, "get_rlock") \/ pc' = pc
          BY <4>2, ReturnOkGoes DEF NextField, Descend
        <5> QED
          BY <4>2, <5>1 DEF NextField, Goto, TypeOK
      <4> QED
        BY <3>3, <4>1, <4>2
           DEF UseStep, ReadStatus, ReadValue, RunRules, Unwind, Goto, TypeOK
    <3>4. CASE Outside(t)
      <4>1. CASE UNCHANGED <<pc, frames, rules>>
        BY <4>1 DEF VerdictHeld, Desc, Top
      <4>2. CASE \E d \in Types : CallAdd(t, d) \/ CallValidate(t, d)
        BY <4>2 DEF CallAdd, CallValidate, Call, Goto, TypeOK
      <4> QED
        BY <3>4, <4>1, <4>2
           DEF Outside, DisableLazyLoading, SetAllowUnknownFields, SetMessageFactory, Configure
    <3> QED
      BY <1>2, <3>1, <3>2, <3>3, <3>4 DEF Step
  <2>5. ASSUME NEW u \in Threads
        PROVE  /\ pc'[u] = "check" => rules'[Desc(u)'] # "absent"
               /\ pc'[u] = "status" => rules'[Desc(u)'] = "error"
    BY <2>1, <2>2, <2>3, <2>4 DEF VerdictHeld
  <2> QED
    BY <2>5 DEF VerdictHeld
<1> QED
  BY <1>1, <1>2, NextCases

\* What the call a thread is in looks like to RuleCache.
LEMMA BusyStays ==
  ASSUME TypeOK, NEW t \in Threads, NEW q, Goto(t, q),
         \/ pc[t] \in AddPCs /\ q \in AddPCs
         \/ pc[t] \in ValidatePCs /\ q \in ValidatePCs
  PROVE  Busy' = Busy
  BY DEF TypeOK, Goto, Busy, AddPCs, ValidatePCs, GetPCs, UsePCs

LEMMA BusyTurns ==
  ASSUME TypeOK, NEW t \in Threads, NEW q \in PCs, Goto(t, q)
  PROVE  Busy' = [Busy EXCEPT ![t] =
                    IF q = "idle" THEN "idle" ELSE IF q \in AddPCs THEN "add" ELSE "validate"]
  BY DEF TypeOK, Goto, Busy

LEMMA BusyIs ==
  ASSUME TypeOK, NEW t \in Threads
  PROVE  /\ pc[t] = "idle" => Busy[t] = "idle"
         /\ pc[t] \in AddPCs => Busy[t] = "add"
         /\ pc[t] \in ValidatePCs => Busy[t] = "validate"
  BY DEF TypeOK, Busy, AddPCs, ValidatePCs, GetPCs, UsePCs

\* A step RuleCache does not see.
Unseen == UNCHANGED <<rules, lazyDisabled, config, Busy, reply>>

\* The innermost activation of a call returns OK: RuleCache sees nothing, or,
\* when there is no caller, the end of a call that answers OK.
LEMMA ReturnSeen ==
  ASSUME TypeOK, NEW t \in Threads, NEW p, ReturnOk(t, p), UNCHANGED shared,
         \/ pc[t] \in AddPCs /\ p \in AddPCs
         \/ pc[t] \in ValidatePCs /\ p \in ValidatePCs,
         rules[Desc(t)] = "ok"
  PROVE  Unseen \/ Cache!Finish(t, "ok")
<1>1. CASE Len(frames[t]) > 1
  BY <1>1, BusyStays DEF ReturnOk, Unseen, shared
<1>2. CASE ~(Len(frames[t]) > 1)
  <2>1. Goto(t, "idle") /\ reply' = [reply EXCEPT ![t] = "ok"]
    BY <1>2 DEF ReturnOk
  <2>2. Busy' = [Busy EXCEPT ![t] = "idle"] /\ Busy[t] # "idle"
    BY <2>1, BusyTurns, BusyIs DEF PCs, AddPCs, ValidatePCs, GetPCs, UsePCs
  <2>3. Desc(t) \in Types /\ rules' = rules
    BY TopType DEF AddPCs, ValidatePCs, GetPCs, UsePCs, shared
  <2> QED
    BY <2>1, <2>2, <2>3 DEF Cache!Finish, Cache!Cached, shared
<1> QED
  BY <1>1, <1>2

\* A call ends early, with a reply the cached verdicts justify.
LEMMA UnwindSeen ==
  ASSUME TypeOK, NEW t \in Threads, pc[t] # "idle", UNCHANGED <<lazyDisabled, config>>,
         UNCHANGED rules \/ \E d \in Types : Cache!Store(d),
         NEW r, Unwind(t, r),
         \/ r = "error" /\ rules'[Desc(t)] = "error"
         \/ r = "notfound" /\ pc[t] \in ValidatePCs /\ lazyDisabled /\ rules'[Desc(t)] = "absent"
         \/ r = "stopped" /\ pc[t] \in ValidatePCs /\ rules'[Desc(t)] = "ok"
  PROVE  Cache!Finish(t, r)
<1>1. Desc(t) \in Types
  BY TopType
<1>2. Goto(t, "idle") /\ reply' = [reply EXCEPT ![t] = r]
  BY DEF Unwind
<1>3. Busy' = [Busy EXCEPT ![t] = "idle"]
  BY <1>2, BusyTurns DEF PCs
<1>4. Busy[t] # "idle" /\ (pc[t] \in ValidatePCs => Busy[t] = "validate")
  BY BusyIs DEF TypeOK
<1> QED
  BY <1>1, <1>2, <1>3, <1>4 DEF Cache!Finish, Cache!Cached

\* A compilation under the writer lock is a Store of RuleCache.
LEMMA EmplaceStores ==
  ASSUME TypeOK, BuildsOnlyMissing, NEW t \in Threads, pc[t] \in BuildPCs, Emplace(t)
  PROVE  /\ Cache!Store(Desc(t))
         /\ Desc(t) \in Types
         /\ rules'[Desc(t)] \in {"ok", "error"}
         /\ UNCHANGED <<lazyDisabled, config>>
<1>1. rules[Desc(t)] = "absent"
  BY DEF BuildsOnlyMissing
<1>2. Desc(t) \in Types
  BY TopType DEF BuildPCs
<1>3. Built(t) \in {"ok", "error"}
  BY <1>2, FactoryAssumption DEF Built, FactoryAssumption, TypeOK
<1>4. rules' = [rules EXCEPT ![Desc(t)] = Built(t)]
  BY <1>1 DEF Emplace
<1> QED
  BY <1>1, <1>2, <1>3, <1>4 DEF Emplace, Cache!Store, Built, TypeOK

LEMMA AddStepSeen ==
  ASSUME TypeOK, BuildsOnlyMissing, OnlyCompiledRulesRun, NEW t \in Threads, AddStep(t)
  PROVE  \/ Unseen
         \/ \E d \in Types : Cache!Load(t, d)
         \/ \E r \in {"ok", "error"} : Cache!Finish(t, r)
<1> USE DEF AddPCs
<1>1. pc[t] # "idle" /\ Desc(t) \in Types /\ rules[Desc(t)] \in {"absent", "ok", "error"}
  BY TopType DEF AddStep, AddLock, AddFind, AddBuild, AddNext, TypeOK
<1>2. CASE AddLock(t)
  BY <1>2, BusyStays DEF AddLock, Unseen, shared
<1>3. CASE AddFind(t)
  <2>1. CASE rules[Desc(t)] = "ok"
    <3>1. ReturnOk(t, "add_next") /\ UNCHANGED shared
      BY <1>3, <2>1 DEF AddFind
    <3> QED
      BY <1>3, <2>1, <3>1, ReturnSeen DEF AddFind
  <2>2. CASE rules[Desc(t)] = "error"
    <3>1. Unwind(t, "error") /\ UNCHANGED shared
      BY <1>3, <2>2 DEF AddFind
    <3> QED
      BY <1>1, <2>2, <3>1, UnwindSeen DEF shared
  <2>3. CASE rules[Desc(t)] = "absent"
    BY <1>3, <2>3, BusyStays DEF AddFind, Unseen, shared
  <2> QED
    BY <1>1, <2>1, <2>2, <2>3
<1>4. CASE AddBuild(t)
  <2>1. /\ Cache!Store(Desc(t))
        /\ rules'[Desc(t)] \in {"ok", "error"}
        /\ UNCHANGED <<lazyDisabled, config>>
    BY <1>4, EmplaceStores DEF AddBuild, BuildPCs
  <2>2. CASE rules'[Desc(t)] = "ok"
    <3>1. Goto(t, "add_next") /\ UNCHANGED reply
      BY <1>4, <2>2 DEF AddBuild
    <3>2. Busy' = Busy /\ Busy[t] # "idle"
      BY <1>4, <3>1, BusyStays, BusyIs DEF AddBuild
    <3> QED
      BY <1>1, <2>1, <3>1, <3>2 DEF Cache!Load
  <2>3. CASE rules'[Desc(t)] # "ok"
    <3>1. Unwind(t, "error") /\ rules'[Desc(t)] = "error"
      BY <1>4, <2>1, <2>3 DEF AddBuild
    <3> QED
      BY <1>1, <2>1, <3>1, UnwindSeen
  <2> QED
    BY <2>2, <2>3
<1>5. CASE AddNext(t)
  <2>1. CASE FieldsDone(t)
    <3>1. rules[Desc(t)] = "ok"
      <4>1. Len(frames[t]) \in 1..Len(frames[t])
        BY <1>1, TopType
      <4> QED
        BY <1>5, <4>1 DEF OnlyCompiledRulesRun, AddNext, Desc, Top
    <3> QED
      BY <1>5, <2>1, <3>1, ReturnSeen DEF AddNext
  <2>2. CASE ~FieldsDone(t)
    BY <1>5, <2>2, BusyStays DEF AddNext, Descend, Unseen, shared
  <2> QED
    BY <2>1, <2>2
<1> QED
  BY <1>2, <1>3, <1>4, <1>5 DEF AddStep

LEMMA GetStepSeen ==
  ASSUME TypeOK, BuildsOnlyMissing, NEW t \in Threads, GetStep(t)
  PROVE  \/ Unseen
         \/ \E d \in Types : Cache!Load(t, d)
         \/ Cache!Finish(t, "notfound")
<1> USE DEF ValidatePCs, GetPCs, UsePCs
<1>1. CASE GetBuild(t)
  <2>1. /\ Cache!Store(Desc(t))
        /\ Desc(t) \in Types
        /\ UNCHANGED <<lazyDisabled, config>>
    BY <1>1, EmplaceStores DEF GetBuild, BuildPCs
  <2>2. Busy' = Busy /\ Busy[t] # "idle" /\ UNCHANGED reply
    BY <1>1, BusyStays, BusyIs DEF GetBuild
  <2> QED
    BY <2>1, <2>2 DEF Cache!Load
<1>2. CASE GetFindShared(t) /\ Unwind(t, "notfound")
  <2>1. /\ lazyDisabled /\ rules[Desc(t)] = "absent" /\ UNCHANGED shared /\ pc[t] = "get_rfind"
    BY <1>2 DEF GetFindShared, Unwind, Goto, TypeOK
  <2> QED
    BY <1>2, <2>1, UnwindSeen DEF shared
<1>3. CASE ~GetBuild(t) /\ ~Unwind(t, "notfound")
  <2>1. \E q \in ValidatePCs : Goto(t, q)
    BY <1>3 DEF GetStep, GetLockShared, GetFindShared, GetLockExclusive, GetFindExclusive
  <2>2. pc[t] \in ValidatePCs /\ UNCHANGED <<reply, rules, lazyDisabled, config>>
    BY <1>3 DEF GetStep, GetLockShared, GetFindShared, GetLockExclusive, GetFindExclusive, shared
  <2> QED
    BY <2>1, <2>2, BusyStays DEF Unseen
<1> QED
  BY <1>1, <1>2, <1>3
     DEF GetStep, GetLockShared, GetFindShared, GetLockExclusive, GetFindExclusive,
         Unwind, Goto, TypeOK

LEMMA UseStepSeen ==
  ASSUME TypeOK, OnlyCompiledRulesRun, VerdictHeld, NEW t \in Threads, UseStep(t)
  PROVE  \/ Unseen
         \/ \E r \in {"ok", "error", "stopped"} : Cache!Finish(t, r)
<1> USE DEF ValidatePCs, GetPCs, UsePCs
<1>1. /\ pc[t] \in ValidatePCs /\ pc[t] # "idle"
      /\ UNCHANGED shared /\ UNCHANGED <<rules, lazyDisabled, config>>
  BY DEF UseStep, CheckRules, ReadStatus, ReadValue, RunRules, NextField, shared
<1>2. CASE ReadStatus(t)
  <2>1. Unwind(t, "error") /\ rules'[Desc(t)] = "error"
    BY <1>1, <1>2 DEF ReadStatus, VerdictHeld
  <2> QED
    BY <1>1, <2>1, UnwindSeen
<1>3. pc[t] \in {"loop", "fields"} => rules[Desc(t)] = "ok"
  <2>1. Len(frames[t]) \in 1..Len(frames[t])
    BY <1>1, TopType
  <2> QED
    BY <2>1 DEF OnlyCompiledRulesRun, Desc, Top
<1>4. CASE RunRules(t)
  <2>1. CASE Unwind(t, "stopped")
    BY <1>1, <1>3, <1>4, <2>1, UnwindSeen DEF RunRules
  <2>2. CASE Goto(t, "fields") /\ UNCHANGED <<frames, reply>>
    BY <1>1, <2>2, BusyStays DEF Unseen
  <2> QED
    BY <1>4, <2>1, <2>2 DEF RunRules
<1>5. CASE NextField(t)
  <2>1. CASE ReturnOk(t, "fields")
    BY <1>1, <1>3, <1>5, <2>1, ReturnSeen DEF NextField
  <2>2. CASE Descend(t, "get_rlock")
    BY <1>1, <2>2, BusyStays DEF Descend, Unseen
  <2>3. CASE UNCHANGED <<pc, reply>>
    BY <1>1, <2>3 DEF Unseen, Busy
  <2> QED
    BY <1>5, <2>1, <2>2, <2>3 DEF NextField
<1>6. CASE CheckRules(t) \/ ReadValue(t)
  <2>1. (Goto(t, "value") \/ Goto(t, "status") \/ Goto(t, "loop")) /\ UNCHANGED reply
    BY <1>6 DEF CheckRules, ReadValue
  <2> QED
    BY <1>1, <2>1, BusyStays DEF Unseen
<1> QED
  BY <1>2, <1>4, <1>5, <1>6 DEF UseStep

LEMMA OutsideSeen ==
  ASSUME TypeOK, NEW t \in Threads, Outside(t)
  PROVE  \/ \E call \in {"add", "validate"} : Cache!Start(t, call)
         \/ \E off \in BOOLEAN : Cache!SetLazy(off)
         \/ \E c \in DOMAIN Compile : Cache!Configure(c)
<1> USE DEF AddPCs, ValidatePCs, GetPCs, UsePCs
<1>1. ASSUME NEW d \in Types, CallAdd(t, d) PROVE Cache!Start(t, "add")
  <2>1. Busy' = [Busy EXCEPT ![t] = "add"] /\ Busy[t] = "idle"
    BY <1>1, BusyTurns, BusyIs DEF CallAdd, Call, PCs
  <2> QED
    BY <1>1, <2>1 DEF CallAdd, Call, Cache!Start, shared
<1>2. ASSUME NEW d \in Types, CallValidate(t, d) PROVE Cache!Start(t, "validate")
  <2>1. Busy' = [Busy EXCEPT ![t] = "validate"] /\ Busy[t] = "idle"
    BY <1>2, BusyTurns, BusyIs DEF CallValidate, Call, PCs
  <2> QED
    BY <1>2, <2>1 DEF CallValidate, Call, Cache!Start, shared
<1>3. ASSUME NEW b \in BOOLEAN, DisableLazyLoading(t, b) PROVE Cache!SetLazy(b)
  BY <1>3 DEF DisableLazyLoading, Cache!SetLazy, Busy
<1>4. ASSUME NEW c \in Configs, Configure(t, c) PROVE Cache!Configure(c)
  BY <1>4 DEF Configure, Cache!Configure, Busy
<1>5. DOMAIN Compile = Configs
  BY FactoryAssumption DEF FactoryAssumption
<1>6. /\ \A b \in BOOLEAN : SetAllowUnknownFields(t, b) => \E c \in Configs : Configure(t, c)
      /\ SetMessageFactory(t) => \E c \in Configs : Configure(t, c)
  BY DEF SetAllowUnknownFields, SetMessageFactory, TypeOK, Configs
<1> QED
  BY <1>1, <1>2, <1>3, <1>4, <1>5, <1>6 DEF Outside

\* Every step of the factory is a step of RuleCache, or one it does not see.
LEMMA FactoryStepSeen ==
  ASSUME TypeOK, BuildsOnlyMissing, OnlyCompiledRulesRun, VerdictHeld, [Next]_vars
  PROVE  [Cache!Next]_(Cache!vars)
<1>1. Unseen => UNCHANGED Cache!vars
  BY DEF Unseen, Cache!vars
<1>2. CASE UNCHANGED vars
  BY <1>2 DEF vars, Cache!vars, Busy
<1>3. ASSUME NEW t \in Threads, Step(t) PROVE [Cache!Next]_(Cache!vars)
  <2>1. CASE AddStep(t)
    BY <1>1, <2>1, AddStepSeen DEF Cache!Next
  <2>2. CASE GetStep(t)
    BY <1>1, <2>2, GetStepSeen DEF Cache!Next
  <2>3. CASE UseStep(t)
    BY <1>1, <2>3, UseStepSeen DEF Cache!Next
  <2> QED
    BY <1>3, <2>1, <2>2, <2>3 DEF Step
<1>4. ASSUME NEW t \in Threads, Outside(t) PROVE [Cache!Next]_(Cache!vars)
  BY <1>4, OutsideSeen DEF Cache!Next
<1> QED
  BY <1>2, <1>3, <1>4, NextCases

\* The factory keeps the promise of RuleCache in every behaviour in which the
\* pointers of its lookups are live: one verdict per type, kept for good, and no
\* answer that the cached verdicts do not justify.
THEOREM CacheWherePointersLive == Spec /\ []PointersLive => ImplementsRuleCache
<1>1. Init => Cache!Init /\ VerdictHeld
  <2> SUFFICES ASSUME Init PROVE Cache!Init /\ VerdictHeld
    OBVIOUS
  <2>1. config \in DOMAIN Compile
    BY FactoryAssumption DEF Init, FactoryAssumption, Configs
  <2>2. Busy = [t \in Threads |-> "idle"]
    BY DEF Init, Busy
  <2> QED
    BY <2>1, <2>2 DEF Init, Cache!Init, VerdictHeld
<1>2. TypeOK /\ PointersLive /\ VerdictHeld /\ [Next]_vars => VerdictHeld'
  BY VerdictStep
<1>3. TypeOK /\ BuildsOnlyMissing /\ OnlyCompiledRulesRun /\ VerdictHeld /\ [Next]_vars
        => [Cache!Next]_(Cache!vars)
  BY FactoryStepSeen
<1> QED
  BY <1>1, <1>2, <1>3, TypeCorrect, BuildsOnlyMissingCorrect,
     OnlyCompiledWherePointersLive, PTL
     DEF Spec, ImplementsRuleCache, Cache!Spec

\* With a stable table, the factory implements RuleCache however calls mix.
THEOREM CacheStable == ASSUME ~TableMoves PROVE Spec => ImplementsRuleCache
  BY StableTablePointersLive, CacheWherePointersLive, PTL

\* Under the sealed protocol it does, though inserting may move the table.
THEOREM CacheSealed == SealedSpec => ImplementsRuleCache
  BY SealedSpecIsSpec, SealedPointersLive, CacheWherePointersLive, PTL
==============================================================================
