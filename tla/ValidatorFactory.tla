-------------------------- MODULE ValidatorFactory --------------------------
(***************************************************************************)
(* ValidatorFactory and the calls its Validators make on it                *)
(* (src/buf/validate/validator.h, validator.cc).                           *)
(*                                                                         *)
(* The factory keeps one cache of compiled rules per message type, shared  *)
(* by every thread and guarded by a reader/writer mutex.  Add fills it     *)
(* type by type, releasing the mutex between a type and the types of its   *)
(* fields.  Validator::ValidateMessage looks a type up (filling the cache  *)
(* if lazy loading is on), uses the rules through a pointer into the hash  *)
(* table AFTER the mutex is released, then does the same for the messages  *)
(* in its fields.  A thread is inside at most one call; frames[t] is its   *)
(* C++ stack of Add or ValidateMessage activations.                        *)
(***************************************************************************)
EXTENDS Naturals, Sequences

CONSTANTS
  Threads,      \* threads that share the factory
  Types,        \* message types (descriptors)
  Fields,       \* [Types -> Seq(Types)]: the message types of the fields a type
                \* declares, in order (a map field's is its entry type)
  Listed,       \* [Types -> Seq(Types)]: the message types of the fields
                \* ListFields can give, in order: a map field's is that of its
                \* values, and the extension fields are among them
  Compile,      \* [Configs -> [Types -> {"ok","error"}]]: NewMessageRules
  TableMoves,   \* may an emplace move the entries of the hash table?
  NoThread,     \* the mutex has no writer
  MaxCalls,     \* bound: calls one thread makes
  MaxDepth      \* bound: nesting depth of a validated message

Configs == [allowUnknown : BOOLEAN, reparse : BOOLEAN]

ASSUME FactoryAssumption ==
  /\ NoThread \notin Threads
  /\ Fields \in [Types -> Seq(Types)]
  /\ Listed \in [Types -> Seq(Types)]
  /\ Compile \in [Configs -> [Types -> {"ok", "error"}]]
  /\ TableMoves \in BOOLEAN
  /\ MaxCalls \in Nat
  /\ MaxDepth \in Nat \ {0}

VARIABLES
  rules,         \* rules_: [Types -> {"absent", "ok", "error"}]
  table,         \* which allocation of rules_ the entries live in
  lazyDisabled,  \* disableLazyLoading_
  config,        \* allowUnknownFields_ and messageFactory_ (set or not)
  writer,        \* mutex_: the thread that holds it exclusively
  readers,       \* mutex_: the threads that hold it shared
  pc,            \* where each thread is
  frames,        \* its activations of Add or ValidateMessage, outermost first
  ptr,           \* the table its const Rules* points into
  reply,         \* what its last call returned
  calls          \* how many calls it has made

shared == <<rules, table, lazyDisabled, config>>
mutex  == <<writer, readers>>
local  == <<pc, frames, ptr, reply, calls>>
vars   == <<rules, table, lazyDisabled, config, writer, readers,
            pc, frames, ptr, reply, calls>>

AddPCs      == {"add_lock", "add_find", "add_build", "add_next"}
GetPCs      == {"get_rlock", "get_rfind", "get_wlock", "get_wfind", "get_build"}
UsePCs      == {"check", "status", "value"}     \* dereferences ptr
ValidatePCs == GetPCs \cup UsePCs \cup {"loop", "fields"}
BuildPCs    == {"add_build", "get_build"}
WriterPCs   == BuildPCs \cup {"add_find", "get_wfind"}

Top(t) == frames[t][Len(frames[t])]
Desc(t) == Top(t).desc
Activation(d) == [desc |-> d, next |-> 1]

\* A stack without its top activation, and with that activation one field on.
Pop(s) == SubSeq(s, 1, Len(s) - 1)
Advance(s) == [s EXCEPT ![Len(s)] = [desc |-> @.desc, next |-> @.next + 1]]

Init ==
  /\ rules = [d \in Types |-> "absent"]
  /\ table = 0
  /\ lazyDisabled = FALSE
  /\ config = [allowUnknown |-> FALSE, reparse |-> FALSE]
  /\ writer = NoThread
  /\ readers = {}
  /\ pc = [t \in Threads |-> "idle"]
  /\ frames = [t \in Threads |-> <<>>]
  /\ ptr = [t \in Threads |-> 0]
  /\ reply = [t \in Threads |-> "none"]
  /\ calls = [t \in Threads |-> 0]
-----------------------------------------------------------------------------
(* Control flow within a thread.                                           *)

Goto(t, p) == pc' = [pc EXCEPT ![t] = p]

\* A top-level call of Add or ValidateMessage on d.
Call(t, d, p) ==
  /\ pc[t] = "idle"
  /\ calls[t] < MaxCalls
  /\ calls' = [calls EXCEPT ![t] = @ + 1]
  /\ Goto(t, p)
  /\ frames' = [frames EXCEPT ![t] = <<Activation(d)>>]
  /\ reply' = [reply EXCEPT ![t] = "none"]
  /\ UNCHANGED <<ptr, shared, mutex>>

\* The innermost activation returns an OK status: its caller goes on at p.
ReturnOk(t, p) ==
  /\ frames' = [frames EXCEPT ![t] = Pop(@)]
  /\ IF Len(frames[t]) > 1
       THEN Goto(t, p) /\ UNCHANGED reply
       ELSE Goto(t, "idle") /\ reply' = [reply EXCEPT ![t] = "ok"]

\* Mutant of Unwind: the activations of the callers stay behind.
UnwindKeepsFrames(t, r) ==
  /\ Goto(t, "idle")
  /\ reply' = [reply EXCEPT ![t] = r]
  /\ UNCHANGED frames

\* It returns a status every caller passes on at once ("stopped": a rule
\* failed to run, or failed and failFast is set).
Unwind(t, r) ==
  /\ frames' = [frames EXCEPT ![t] = <<>>]
  /\ Goto(t, "idle")
  /\ reply' = [reply EXCEPT ![t] = r]

\* The fields the innermost activation's loop is over: desc->field(i) in Add,
\* what ListFields gives in ValidateFields.
Walked(t) == IF pc[t] \in AddPCs THEN Fields[Desc(t)] ELSE Listed[Desc(t)]

\* Mutant of FieldsDone: the loop ends one field early.
FieldsDoneEarly(t) == Top(t).next >= Len(Walked(t))

FieldsDone(t) == Top(t).next > Len(Walked(t))

\* The loop over the fields: the activation on top visits its next field,
\* calling the same function on the field's type, which starts at p.
Descend(t, p) ==
  /\ ~FieldsDone(t)
  /\ frames' = [frames EXCEPT ![t] =
                  Append(Advance(@), Activation(Walked(t)[Top(t).next]))]
  /\ Goto(t, p)
  /\ UNCHANGED reply
-----------------------------------------------------------------------------
(* rules_.emplace(desc, NewMessageRules(...)), under the writer lock.      *)

\* Mutant of Built: the setters reach no build.
BuiltWithDefaults(t) == Compile[[allowUnknown |-> FALSE, reparse |-> FALSE]][Desc(t)]

Built(t) == Compile[config][Desc(t)]

\* An entry that is already there is kept.
Emplace(t) ==
  /\ rules' = [rules EXCEPT ![Desc(t)] = IF @ = "absent" THEN Built(t) ELSE @]
  /\ \/ table' = table
     \/ TableMoves /\ table' = table + 1
  /\ UNCHANGED <<lazyDisabled, config>>

LockShared(t) ==
  /\ writer = NoThread
  /\ readers' = readers \cup {t}
  /\ UNCHANGED writer

\* Mutant of LockExclusive: a writer does not wait for the readers.
LockExclusiveAnyway(t) ==
  /\ writer = NoThread
  /\ writer' = t
  /\ UNCHANGED readers

LockExclusive(t) ==
  /\ writer = NoThread
  /\ readers = {}
  /\ writer' = t
  /\ UNCHANGED readers

UnlockShared(t) == readers' = readers \ {t} /\ UNCHANGED writer
UnlockExclusive == writer' = NoThread /\ UNCHANGED readers
-----------------------------------------------------------------------------
(* ValidatorFactory::Add.                                                  *)

CallAdd(t, d) == Call(t, d, "add_lock")

AddLock(t) ==
  /\ pc[t] = "add_lock"
  /\ LockExclusive(t)
  /\ Goto(t, "add_find")
  /\ UNCHANGED <<frames, ptr, reply, calls, shared>>

\* Mutant of AddFind: an entry that failed to compile counts as added.
AddFindIgnoresErrors(t) ==
  /\ pc[t] = "add_find"
  /\ IF rules[Desc(t)] # "absent" THEN ReturnOk(t, "add_next") /\ UnlockExclusive
     ELSE Goto(t, "add_build") /\ UNCHANGED <<frames, reply, mutex>>
  /\ UNCHANGED <<ptr, calls, shared>>

AddFind(t) ==
  /\ pc[t] = "add_find"
  /\ CASE rules[Desc(t)] = "ok"     -> ReturnOk(t, "add_next") /\ UnlockExclusive
       [] rules[Desc(t)] = "error"  -> Unwind(t, "error") /\ UnlockExclusive
       [] rules[Desc(t)] = "absent" -> /\ Goto(t, "add_build")
                                       /\ UNCHANGED <<frames, reply, mutex>>
  /\ UNCHANGED <<ptr, calls, shared>>

\* Mutant of AddBuild: the lock is held while the fields are added.
AddBuildKeepsLock(t) ==
  /\ pc[t] = "add_build"
  /\ Emplace(t)
  /\ IF rules'[Desc(t)] = "ok"
       THEN Goto(t, "add_next") /\ UNCHANGED <<frames, reply, mutex>>
       ELSE Unwind(t, "error") /\ UnlockExclusive
  /\ UNCHANGED <<ptr, calls>>

AddBuild(t) ==
  /\ pc[t] = "add_build"
  /\ Emplace(t)
  /\ UnlockExclusive
  /\ IF rules'[Desc(t)] = "ok"
       THEN Goto(t, "add_next") /\ UNCHANGED <<frames, reply>>
       ELSE Unwind(t, "error")
  /\ UNCHANGED <<ptr, calls>>

\* Mutant of AddNext: only the type given to Add is added.
AddNextFlat(t) ==
  /\ pc[t] = "add_next"
  /\ ReturnOk(t, "add_next")
  /\ UNCHANGED <<ptr, calls, shared, mutex>>

\* "Add all message fields recursively."
AddNext(t) ==
  /\ pc[t] = "add_next"
  /\ IF FieldsDone(t) THEN ReturnOk(t, "add_next") ELSE Descend(t, "add_lock")
  /\ UNCHANGED <<ptr, calls, shared, mutex>>
-----------------------------------------------------------------------------
(* ValidatorFactory::GetMessageRules.                                      *)

CallValidate(t, d) == Call(t, d, "get_rlock")

GetLockShared(t) ==
  /\ pc[t] = "get_rlock"
  /\ LockShared(t)
  /\ Goto(t, "get_rfind")
  /\ UNCHANGED <<frames, ptr, reply, calls, shared>>

\* Mutant of GetFindShared: loads lazily whatever lazyDisabled says.
GetFindSharedStillLazy(t) ==
  /\ pc[t] = "get_rfind"
  /\ UnlockShared(t)
  /\ IF rules[Desc(t)] # "absent"
       THEN ptr' = [ptr EXCEPT ![t] = table] /\ Goto(t, "check")
       ELSE Goto(t, "get_wlock") /\ UNCHANGED ptr
  /\ UNCHANGED <<frames, reply, calls, shared>>

\* The first lookup; both outcomes release the reader lock.
GetFindShared(t) ==
  /\ pc[t] = "get_rfind"
  /\ UnlockShared(t)
  /\ \/ /\ rules[Desc(t)] # "absent"
        /\ ptr' = [ptr EXCEPT ![t] = table]
        /\ Goto(t, "check")
        /\ UNCHANGED <<frames, reply>>
     \/ /\ rules[Desc(t)] = "absent" /\ lazyDisabled
        /\ Unwind(t, "notfound")
        /\ UNCHANGED ptr
     \/ /\ rules[Desc(t)] = "absent" /\ ~lazyDisabled
        /\ Goto(t, "get_wlock")
        /\ UNCHANGED <<frames, reply, ptr>>
  /\ UNCHANGED <<calls, shared>>

GetLockExclusive(t) ==
  /\ pc[t] = "get_wlock"
  /\ LockExclusive(t)
  /\ Goto(t, "get_wfind")
  /\ UNCHANGED <<frames, ptr, reply, calls, shared>>

\* Mutant of GetFindExclusive: the first lookup is trusted.
GetFindExclusiveTrusting(t) ==
  /\ pc[t] = "get_wfind"
  /\ Goto(t, "get_build")
  /\ UNCHANGED <<ptr, mutex, frames, reply, calls, shared>>

\* The second lookup: another thread may have filled the entry meanwhile.
GetFindExclusive(t) ==
  /\ pc[t] = "get_wfind"
  /\ IF rules[Desc(t)] # "absent"
       THEN /\ ptr' = [ptr EXCEPT ![t] = table]
            /\ Goto(t, "check")
            /\ UnlockExclusive
       ELSE Goto(t, "get_build") /\ UNCHANGED <<ptr, mutex>>
  /\ UNCHANGED <<frames, reply, calls, shared>>

GetBuild(t) ==
  /\ pc[t] = "get_build"
  /\ Emplace(t)
  /\ UnlockExclusive
  /\ ptr' = [ptr EXCEPT ![t] = table']
  /\ Goto(t, "check")
  /\ UNCHANGED <<frames, reply, calls>>
-----------------------------------------------------------------------------
(* Validator::ValidateMessage and ValidateFields.                          *)

\* What reading *ptr gives: anything, if the table has moved since.
Deref(t) == IF ptr[t] = table THEN {rules[Desc(t)]} ELSE {"ok", "error"}

\* Mutant of CheckRules: the status of the rules is not looked at.
CheckRulesNever(t) ==
  /\ pc[t] = "check"
  /\ Goto(t, "value")
  /\ UNCHANGED <<frames, ptr, reply, calls, shared, mutex>>

\* if (!rules_or->ok())
CheckRules(t) ==
  /\ pc[t] = "check"
  /\ \E v \in Deref(t) : Goto(t, IF v = "ok" THEN "value" ELSE "status")
  /\ UNCHANGED <<frames, ptr, reply, calls, shared, mutex>>

\* return rules_or->status();
ReadStatus(t) ==
  /\ pc[t] = "status"
  /\ Unwind(t, "error")
  /\ UNCHANGED <<ptr, calls, shared, mutex>>

\* for (const auto& rule : rules_or->value()): the loop's iterators point into
\* the vector's own buffer, which a move of the table does not touch.
ReadValue(t) ==
  /\ pc[t] = "value"
  /\ Goto(t, "loop")
  /\ UNCHANGED <<frames, ptr, reply, calls, shared, mutex>>

RunRules(t) ==
  /\ pc[t] = "loop"
  /\ \/ Goto(t, "fields") /\ UNCHANGED <<frames, reply>>
     \/ Unwind(t, "stopped")
  /\ UNCHANGED <<ptr, calls, shared, mutex>>

\* A field that is unset or ignored is passed over, a set one is validated.
NextField(t) ==
  /\ pc[t] = "fields"
  /\ \/ FieldsDone(t) /\ ReturnOk(t, "fields")
     \/ /\ ~FieldsDone(t)
        /\ frames' = [frames EXCEPT ![t] = Advance(@)]
        /\ UNCHANGED <<pc, reply>>
     \/ Len(frames[t]) < MaxDepth /\ Descend(t, "get_rlock")
  /\ UNCHANGED <<ptr, calls, shared, mutex>>
-----------------------------------------------------------------------------
(* The setters.  DisableLazyLoading is one critical section; the other two *)
(* write members the builds read, without the mutex.                       *)

DisableLazyLoading(t, disable) ==
  /\ pc[t] = "idle" /\ calls[t] < MaxCalls
  /\ calls' = [calls EXCEPT ![t] = @ + 1]
  /\ writer = NoThread /\ readers = {}
  /\ lazyDisabled' = disable
  /\ UNCHANGED <<rules, table, config, mutex, pc, frames, ptr, reply>>

\* Mutant of Configure: a new setting empties the cache.
ConfigureAfresh(t, c) ==
  /\ pc[t] = "idle" /\ calls[t] < MaxCalls
  /\ calls' = [calls EXCEPT ![t] = @ + 1]
  /\ config' = c
  /\ rules' = [d \in Types |-> "absent"]
  /\ UNCHANGED <<table, lazyDisabled, mutex, pc, frames, ptr, reply>>

Configure(t, c) ==
  /\ pc[t] = "idle" /\ calls[t] < MaxCalls
  /\ calls' = [calls EXCEPT ![t] = @ + 1]
  /\ config' = c
  /\ UNCHANGED <<rules, table, lazyDisabled, mutex, pc, frames, ptr, reply>>

SetAllowUnknownFields(t, allow) == Configure(t, [config EXCEPT !.allowUnknown = allow])
SetMessageFactory(t) == Configure(t, [config EXCEPT !.reparse = TRUE])
-----------------------------------------------------------------------------
AddStep(t) == AddLock(t) \/ AddFind(t) \/ AddBuild(t) \/ AddNext(t)

GetStep(t) ==
  \/ GetLockShared(t) \/ GetFindShared(t)
  \/ GetLockExclusive(t) \/ GetFindExclusive(t) \/ GetBuild(t)

UseStep(t) ==
  CheckRules(t) \/ ReadStatus(t) \/ ReadValue(t) \/ RunRules(t) \/ NextField(t)

\* A step of a call that has begun.
Step(t) == AddStep(t) \/ GetStep(t) \/ UseStep(t)

Next ==
  \E t \in Threads :
    \/ Step(t)
    \/ \E d \in Types : CallAdd(t, d) \/ CallValidate(t, d)
    \/ \E b \in BOOLEAN : DisableLazyLoading(t, b) \/ SetAllowUnknownFields(t, b)
    \/ SetMessageFactory(t)

\* A call in progress is scheduled, and the mutex is granted to it, eventually;
\* no call need ever be made.
Fairness == \A t \in Threads : WF_vars(Step(t))

Spec == Init /\ [][Next]_vars
FairSpec == Spec /\ Fairness
-----------------------------------------------------------------------------
(* Properties.                                                             *)

Frame == [desc : Types, next : Nat \ {0}]

\* Type invariant: the shared state, the mutex and every thread's stack keep
\* their types, and a thread has a stack exactly while it is inside a call.
TypeOK ==
  /\ rules \in [Types -> {"absent", "ok", "error"}]
  /\ table \in Nat
  /\ lazyDisabled \in BOOLEAN
  /\ config \in Configs
  /\ writer \in Threads \cup {NoThread}
  /\ readers \in SUBSET Threads
  /\ pc \in [Threads -> {"idle"} \cup AddPCs \cup ValidatePCs]
  /\ frames \in [Threads -> Seq(Frame)]
  /\ ptr \in [Threads -> Nat]
  /\ reply \in [Threads -> {"none", "ok", "error", "notfound", "stopped"}]
  /\ calls \in [Threads -> 0..MaxCalls]
  /\ \A t \in Threads : frames[t] = <<>> <=> pc[t] = "idle"

\* Whoever is inside a critical section of Add or GetMessageRules holds the
\* mutex in the right mode, nobody else does, and a writer is alone: rules_ is
\* never read by one thread while another one changes it.
MutexProtectsRules ==
  /\ \A t \in Threads : t \in readers <=> pc[t] = "get_rfind"
  /\ \A t \in Threads : writer = t <=> pc[t] \in WriterPCs
  /\ writer # NoThread => readers = {}

\* GetMessageRules and Add compile a type only if it still has no entry: the
\* lookup they decided on was made, or made again, under the writer lock.
BuildsOnlyMissing ==
  \A t \in Threads : pc[t] \in BuildPCs => rules[Desc(t)] = "absent"

\* An entry of rules_ is written once: no interleaving of Add, lazy loading and
\* the setters replaces or removes a verdict another thread may be using.
EntriesWrittenOnce ==
  [][\A d \in Types : rules[d] # "absent" => rules'[d] = rules[d]]_vars

\* A validation reaches the fields of a message (or runs its rules) only if the
\* rules of that message type, and of the types it is nested in, compiled.
OnlyCompiledRulesRun ==
  \A t \in Threads : \A i \in 1..Len(frames[t]) :
    (i < Len(frames[t]) \/ pc[t] \in {"value", "loop", "fields", "add_next"})
      => rules[frames[t][i].desc] = "ok"

\* The const Rules* GetMessageRules returned still points to the entry whenever
\* ValidateMessage reads through it, though the mutex is released.
PointersLive ==
  \A t \in Threads : pc[t] \in UsePCs => ptr[t] = table

\* The types a message of type d can contain, d included.
Reachable(d) ==
  LET Closed(S) == \A e \in S : \A i \in 1..Len(Fields[e]) : Fields[e][i] \in S
  IN  {e \in Types : \A S \in SUBSET Types : (d \in S /\ Closed(S)) => e \in S}

\* Add(d) returns OK only once every type a message of type d contains has its
\* rules in the factory (validator.h:119, validator.cc:154).
AddPopulates ==
  [][\A t \in Threads :
       (pc[t] \in AddPCs /\ pc'[t] = "idle" /\ reply'[t] = "ok")
         => \A e \in Reachable(frames[t][1].desc) : rules'[e] # "absent"]_vars

\* Every call returns: recursion over cyclic types ends, no call waits for a
\* lock it holds itself, and no set of calls waits for one another.
CallsReturn ==
  \A t \in Threads : pc[t] # "idle" ~> pc[t] = "idle"

\* The factory keeps the promise of RuleCache: each call is an atomic start, a
\* number of atomic loads and a reply the cache justifies.
Busy == [t \in Threads |-> IF pc[t] = "idle" THEN "idle"
                           ELSE IF pc[t] \in AddPCs THEN "add" ELSE "validate"]

Cache == INSTANCE RuleCache
           WITH cache <- rules, lazyOff <- lazyDisabled, busy <- Busy

ImplementsRuleCache == Cache!Spec
=============================================================================
