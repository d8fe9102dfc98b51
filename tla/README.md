# Verification of protovalidate-cc

TLA+ models of protovalidate-cc, the C++ runtime of protovalidate, with the TLC
runs that check them and TLAPS proofs about the cache threads share, about what
validating a message reports, and about the address parsers. Paths below are relative to `src/buf/validate/`.

## The system

protovalidate-cc validates protobuf messages against rules declared as options
on their fields, oneofs and messages. Rules are CEL expressions, predefined or
custom, and a few checks written in C++.

| Component | State | Operations | Interacts by |
|---|---|---|---|
| **ValidatorFactory** (`validator.{h,cc}`) | `rules_` (hash table from descriptor to compiled rules or an error), `builder_`, `disableLazyLoading_`, all under `mutex_`; `messageFactory_`, `allowUnknownFields_`, under nothing | `New`, `NewValidator`, `Add`, `DisableLazyLoading`, `SetMessageFactory`, `SetAllowUnknownFields`, `GetMessageRules` | shared by all threads; returns pointers into `rules_`; calls the rule compiler |
| **Validator** (`validator.{h,cc}`) | none of its own between calls | `Validate`, `ValidateMessage`, `ValidateFields` | asks the factory for the rules of every message it meets, runs them, recurses |
| **RuleContext** (`internal/validation_rules.h`) | `violations`, `failFast` of one validation | `shouldReturn`, `append...`, `set...`, `finalize` | one vector shared by the whole walk; callers address "what was found since `pos`" |
| **Rule objects** (`internal/rules.{h,cc}`, `cel_validation_rules.{h,cc}`) | immutable once compiled | `Validate` of seven classes, `ValidateAny`, `ValidateCel` | called by the walk; call cel-cpp |
| **Rule compiler** (`internal/{message_rules,field_rules}.cc`, `cel_rules.h`, `message_factory.cc`) | none | `NewMessageRules`, `NewFieldRules`, `BuildCelRules`, `Reparse` | called by the factory under the writer lock |
| **CEL functions** (`internal/extra_func.cc`) and **parsers** (`internal/lib/`) | none | `isIp`, `isIpPrefix`, `isHostAndPort`, `isUri`, `unique`, ... | called by cel-cpp |
| **Conformance runner** (`conformance/`) | a factory, a pool | `runTest` | classifies the status of `Validate` |
| external | | | cel-cpp evaluates, protobuf reflects, `absl::Mutex` locks |

What is hard: threads that fill one cache lazily while others use pointers into
it; a recursion that takes and drops the lock at each level; setters that are
not synchronised; paths that are assembled leaf first, by position, in one
vector; `failFast` and errors tested at many places with different conditions;
errors in the middle of the rules of one item; a compiler that stops at the
first of many possible problems and modifies a copy of some rules; hand-written
parsers with counters, lookahead and positions to go back to. The list,
with lines, is `hazards` in PROJECT.json.

What makes each component correct:

- *factory*: the mutex protocol; one verdict per type, never changed; a verdict
  the configuration gives; pointers that stay valid; `Add` that loads whole
  closures; no loading when it is disabled; calls that return;
- *validator and rules*: exactly the declared checks that fail are reported,
  once, in order, with the right paths and values; errors surface and nothing
  else does; `failFast` changes only how much is reported; the walk ends;
- *compiler*: fails exactly when something declared does not compile, with the
  first problem's code; otherwise every declared expression runs once, also by
  the objects it was compiled into; `ignore` and oneof membership have their
  effect and no other;
- *functions and parsers*: they accept a text exactly if it has the form the
  function is named for, compute the right bits, and end on any text;
- *runner*: every case is answered with what its own message deserves.

## Modules

| Module | Models | Built on |
|---|---|---|
| `RuleCache` | the abstract promise of the factory: start, atomic loads, reply | |
| `ValidatorFactory` | the factory and the calls on it, thread by thread | `RuleCache` (refinement) |
| `SealedFactory` | the same, used in phases: configure, add, disable lazy loading, validate | `ValidatorFactory` |
| `ValidatorFactoryProofs` | proofs: types, mutex, double-checked lookup, live pointers | `SealedFactory` |
| `RuleCacheProofs` | proofs: only compiled rules run, refinement of `RuleCache` | `ValidatorFactoryProofs` |
| `SealedFactoryProofs` | proofs: what a sealed cache holds | `RuleCacheProofs` |
| `Rules` | what one rule object does to the violations found so far | |
| `Validator` | the walk, one step per loop iteration, call and return | `Rules` |
| `ValidatorProofs` | proofs: what a rule object and a step of the walk leave alone | `Validator`, `InductionLemmas` |
| `Expected` | reference: the checks of a message from the root down; properties | `Validator` |
| `RuleProofs` | proofs: each rule object adds the violations of its checks | `Expected`, `ValidatorProofs` |
| `WalkProofs` | proofs: the walk reports what the reference says; the runner answers as deserved | `Runner`, `RuleProofs` |
| `RuleBuilder` | `NewMessageRules`, one step per loop iteration | |
| `Declared` | reference: what a descriptor declares; properties | `RuleBuilder` |
| `CompiledRules` | the compiled objects run by `Rules`; what is declared against what is reported | `Declared`, `Rules` (instance) |
| `Runner` | `TestRunner`: cases unpacked, validated step by step, classified | `Expected` |
| `ParserCommon`, `IPv4`, `IPv6` | `lib/`: number and character parsing, the two address parsers | |
| `IPv6Loop` | the IPv6 parser as a state machine, one loop iteration a step | `IPv6` |
| `AddressText` | reference: the text forms of addresses and prefixes | `ParserCommon` |
| `IPv6Expected` | reference with the parser's deviations; properties | `IPv6Loop`, `AddressText` |
| `InductionLemmas` | induction over numbers, in the form the provers can use | |
| `AddressProofs` | proofs: octets, strict prefixes and the IPv6 loop on every text; what the parsing functions return lies further on | `IPv6Expected`, `IPv4`, `InductionLemmas` |
| `Uri` | `lib/uri.cc`, operator by function | `ParserCommon` |
| `UriText` | reference: RFC 3986 from the outside in | `AddressText` |
| `ExtraFunc` | the string functions CEL calls, an action each | `IPv4`, `IPv6`, `Uri` |
| `ExtraExpected` | properties of each function | `ExtraFunc`, `UriText` |
| `MCValidatorFactory`, `MCValidator`, `MCRuleBuilder`, `MCIPv6`, `MCExtraFunc` | the instances TLC checks | |

An operator that a comment calls a *mutant* is a variant of the definition
after it, with a plausible bug. No specification uses it; put in the place of
that definition it makes a property fail, which shows that the property depends
on it. PROJECT.json pairs them.

### ValidatorFactory

A step is what happens between two points where another thread can be seen:
taking the mutex, a critical section's lookup, its compile-and-insert with the
release, a read through the returned pointer. `frames[t]` is the stack of `Add` or
`ValidateMessage` activations of thread `t`, each with the next field to visit;
`pc[t]` is where the top one is. `mutex_` is `writer` and `readers`.

- `rules` holds "absent", "ok" or "error" per type; what a type compiles to is
  the constant `Compile`, by configuration (`allowUnknown`, `reparse`).
- `table` numbers the allocation the entries live in. An insertion may rehash
  (`TableMoves`), and then every older pointer dangles; reading through one
  gives anything (`Deref`). `ReadValue` is the read of `value()`; the vector's
  own buffer, which the loop then uses, does not move.
- `Add` follows the fields a type declares (`Fields`); a map field's type is its
  entry type. Validation follows what `ListFields` gives (`Listed`): a map's values,
  and extension fields, which no type declares. `Walked` is the one or the other.
- A validated message is an arbitrary one: each field may be unset or ignored
  (`NextField`) or set (`Descend`). A list of messages is a field whose type
  `Listed` names twice. `RunRules` may end the validation ("stopped": a rule
  failed to run, or failed and `failFast` is on).
- The setters take no mutex: they are single steps that may come between any
  two steps of a compilation in another thread.

`ImplementsRuleCache` states that the factory implements `RuleCache`, `rules` being
the cache and `pc` giving whether a thread is idle, adding or validating.

### Rules and Validator

A rule object and what it looks at are one record; a CEL evaluation is its
outcome: "pass", "fail", "error" (a CEL error or a result of another type, for which
`ProcessRule` returns InvalidArgument), or the status that `Evaluate` itself returns, which
keeps its code. So do a field that cannot be read (`read`, `rules.cc:167`), a map
whose keys cannot be listed (`keys`, `rules.cc:267`) and a type that does not
compile. `Rules!Validate` maps the
violations found so far to those found afterwards and a status, with the order
of tests, early returns and positions (`pos`, `valuePos`) of the code. Items
count from 1 where the code counts from 0. Paths are leaf first until `Finalize`.

`Validator` runs one rule object per step, descends one message per step, and
does what follows the recursive call in `ValidateFields` (the path element,
`shouldReturn`) in `Resume`. `frames` is the stack, with each activation's `pos`.

`Expected!Checks` lists the checks of a message with the path from the root,
top down and without any state, and leaves out every message an `ignore` covers.
It takes from the code's definitions only when a field's own rules are not run
(`Ignored`, `Missing`), so it does not judge those.

### RuleBuilder

A descriptor is a record of its options. Whether an expression compiles and
whether re-parsing succeeds are given with it. `NewFieldRules` recurses into
items, keys and values; the loops of `NewMessageRules` are the steps. `Declared`
lists the levels of rules, the expressions and the problems of a descriptor
with no early return.

`CompiledRules` goes on from there: it gives each compiled object a message
that violates all it can (every field set, or none), runs `Rules!Validate` on
it, and compares the violations with what the descriptor declares
(`DeclaredIds`). Either module alone would be right about objects the other
never sees in that form.

### Runner

The walk's variables are those of the `Validate` call in progress, and
`running` names its case; `request` and `results` are maps, visited in any order.
A case that cannot be unpacked is answered at once (`Refuse`).

### Parsers and functions

A text is a sequence of one-character strings, and `str`, the rest the code has
still to read, is a position in it. Functions that consume return the position
after it or `NoMatch`. Unsigned integers are sets of bits, so shifts keep their
width. Letters stand for themselves in lower case and few are needed. A
percent-encoded byte is three characters, as in the code. The loop of
`parseAddressPart` is a state machine (`IPv6Loop`); loops that only skip
characters are `ConsumeWhile`. A CEL integer is its two 32-bit halves, so that
what `int` drops is seen.

## What the runs show

| Run | Shows | Instance |
|---|---|---|
| `shared` | mutex protocol, double-checked lookup, write-once entries, only compiled rules run, refinement of `RuleCache`; every call returns | 2 threads, 3 mutually recursive types, 2 calls each (adds, validations and setters in any mix), messages 3 deep |
| `sealed` | live pointers under a moving table, cache agrees with configuration, loaded types are closed, no NotFound below the root but for types of extension fields | 2 threads, 4 types with a recursive map field and an extension field, 3 calls each |
| `walk` | reports, paths and values exact, errors exact, failFast, paths at every moment, found violations kept; every answer of the runner the one its case deserves, every case answered | one message with one rule object of every class, every combination of options and outcomes, a status from each place that can return one, or two objects; messages 3 deep: two in a list, one in a map, one in a singular field; requests of two cases: unusable in three ways, valid, violated, erroneous or uncompiled with each class of code, at the top or below |
| `rule_build` | first problem reported, every expression compiled and run, oneof members | one field of every shape with rules of every class and nested levels; two fields under up to two oneofs |
| `functions` | IPv6 addresses and prefixes exact, bits exact, the loop ends; each function exact but for named deviations | every text of up to 6 of `1 : . % /`; 0 to 9 groups with every place for one or two odd separators, starts, ends, zones, lengths; boundary texts of each function; URIs with every text of up to 3 characters of each class in each position, percent-encoded sequences, literals |
| `dangling`, `add_populates`, `item_errors`, `map_key_value`, `seven_groups`, `single_colon`, `last_code_point` | each finds a behaviour that contradicts what the documentation or a comment says; see `findings` in PROJECT.json | |

In every run the calls are bounded or the one validation or compilation ends,
so the system really stops and deadlock is not checked; that no call hangs is
`CallsReturn` (`shared`) and `AllAnswered` (`walk`), which needs every walk of
a request to end.

### Bounds

- *Two threads.* Every property of the factory relates one thread to the lock,
  to the table, or to one other thread. The proofs have no bound.
- *Three types* `A -> B, B -> A C, C`: a cycle, a shared type, and a type that
  only compiles under one configuration. In `sealed` `A -> B` is a map, whose entry
  type `D` is the fourth, and `B -> C` an extension. `MaxCalls` and `MaxDepth` bound calls per thread
  and nesting; two calls suffice for add-then-validate and configure-then-add,
  three for configure-add-validate in `sealed`.
- *TableMoves* is FALSE in `shared`: once a pointer can
  dangle there (`dangling`), everything after it is arbitrary.
- *Walk*: two items, two entries, two expressions and two rule objects give
  every pair of neighbours that share the vector of violations. Three levels
  give a path element added twice above a violation.
- *Compiler*: one level of nesting below a field is all the code treats
  specially; deeper levels repeat it. `CompiledRules` needs one message with
  everything set and one with nothing, as each object looks at its own field.
- *Runner*: two cases suffice for one to disturb the other; one of them is a
  message without others in it.
- *Texts*: nine groups are one more than an address holds, so every value of the
  counter is met with and without a double colon; six characters hold every
  neighbourhood of separators the lookahead of four can see at a start. Prefix
  lengths are taken at both ends, inside, and one beyond. Labels have 63 and 64
  characters, hostnames 253 and 254.

### Fairness

`shared` assumes weak fairness of each thread's `Step`: a call in progress
keeps being scheduled. It covers only steps of calls that have begun; no call
need ever be made. For the lock steps this amounts to a mutex that does not
starve a waiter for ever, and since calls are bounded a waiter finds the mutex
continuously free in the end. `walk` assumes that the
single thread of the runner runs; of an application's call to `Validate` it checks safety
only, and assumes no fairness.

## What is proved

Nothing below has a bound: threads, types, field graphs, compile results, call
and nesting limits (`FactoryAssumption`), messages, rule objects and requests, and
texts (`TextsAssumption`) are arbitrary.

### The factory

- `TypeCorrect`: `Spec => []TypeOK`. A step that pops or advances a stack needs
  to know it is not empty, which is why `TypeOK` ties it to `pc`.
- `MutexCorrect`: `Spec => []MutexProtectsRules`. Inductive with `TypeOK`.
- `BuildsOnlyMissingCorrect`: `Spec => []BuildsOnlyMissing`. Needs the mutex:
  only the writer changes `rules`, and only the writer is at a build step, so
  what it found missing stays missing.
- `EntriesImmutable`: `Spec => EntriesWrittenOnce`, because `Emplace` is the only
  change of `rules` and keeps an entry that is there.
- `SealedPointersLive`: `SealedSpec => []PointersLive`. The invariant `Phases` is:
  while lazy loading is on nobody validates, once it is off nobody adds and no
  validation reaches the writer lock, so `table` is constant while any pointer
  is in use.

Where a pointer dangles, what is read through it is arbitrary (run `dangling`),
and then neither `OnlyCompiledRulesRun` nor the refinement can hold. They are
therefore proved for `Spec /\ []PointersLive` (`OnlyCompiledWherePointersLive`,
`CacheWherePointersLive`), and two situations are shown to give `[]PointersLive`: an
insertion that never moves entries (`~TableMoves`, which is what run `shared`
checks), and the phased use of the factory, where the table may move
(`OnlyCompiledSealed`, `CacheSealed`). The second is the one the code is entitled to:
`absl::flat_hash_map` does move its entries.

- `OnlyCompiledRulesRun` is inductive with `TypeOK` and `PointersLive`: an activation
  gets past its lookup only by reading "ok" through a live pointer, and entries
  never change.
- `ImplementsRuleCache`: every step of a thread is a step of `RuleCache` or invisible
  to it. A read of the verdict and the reply made from it are different steps,
  so the invariant `VerdictHeld` says that a validation about to check a verdict
  has one in the cache, and that it is an error where the check has seen one.
- `ConfigMatched`: `SealedSpec => []EntriesMatchConfig`. Setters only run on an
  empty factory.
- `LoadedClosedCorrect`: `SealedSpec => []LoadedClosed`. Not inductive: an `Add` that
  finds an entry returns at once though the fields of that type are not loaded
  yet. `FieldsLoadedOrPending` says what holds instead: each field of a loaded type
  is loaded, or some thread still has an activation of that type that has not
  passed the field. It needs that a stack follows the field graph
  (`StacksFollowFields`) and that an activation about to compile has visited no
  field (`Unstarted`). `FieldsNotForgotten` states it as a theorem.
- `NotFoundIsUndeclared`: `SealedSpec => NotFoundOnlyForUndeclared`, from `LoadedClosed`.
  What validation follows is arbitrary: a type below the root can be missing
  only if the type around it declares no field, plain or map, of it, which is what an
  extension field is.

### What a step of the walk leaves alone

`ValidateAdds`: `Rules!Validate` of a rule object of any class keeps the violations
found before it as they are, puts its own after them, and returns OK or
one of the codes there are, whichever its evaluations and reads give. Each loop over expressions, items or entries is an induction
over its prefixes, and each position an update starts from is shown not to lie
before what the rule was given.

The theorems about the walk assume a set `all` of messages that has those to
be validated and, with each message, those in its fields (`MessageTrees`): rules and
fields are sequences, a rule is of one of the seven classes with outcomes that
are outcomes, a type's status is a code there is (`Statuses`). That is the form of the
records the module describes, with no limit on size or depth; the messages of
the `walk` run have it. The invariant is `WalkInv`: `TypeOK`, frames that
are activations of messages in `all`, and that with `failFast` the walk is on its
way back as soon as there is a violation.

- `WalkTypeCorrect`: positions of nested activations are in order and within the
  violations, and counters stay in their message.
- `FailFastStopsCorrect`: with `failFast` no step adds a violation once there is one.
- `ViolationsKeptCorrect`: what has been found stays at its place, and only `Resume`
  changes it, by the path element of the caller of the message it was found in.

### What validation reports

The main result: for messages of any depth, `Spec => []ReportsExactly`,
`[]NoSpuriousErrors`, `[]ErrorsReported`, `[]FailFastAgrees` and `[]PathsOnTheWayUp`
(`WalkProofs`), and for any request `RunnerSpec => []AnswersDeserved`. What the code assembles leaf first, by position
in one vector, with early returns, is what the reference lists from the root down.

*Rule objects* (`RuleProofs`). `Shown(v, c)` says that violation `v` of the code is
that of check `c`, with the paths turned around. `Makes(ff, vs, r, cs)` says that a
result `r` of a rule run on violations `vs` makes the checks `cs`: an error is the status of one of
`cs` that cannot be made, and without failFast of the first (`Reports`); with failFast it need not be the
first, as a map goes on to its entries after a violation of its own (`rules.cc:260`); if the walk goes on, all can, and behind `vs` come the
violations of the failing ones, in order (`Finds`); if it returns OK but failFast ends the
walk there, behind `vs` come some of these in order, and if `vs` is empty the first
of them is the first there is (`Picks`). When an expression of an entry's key fails the key's
others are left out but the first of the value's is still evaluated, so what an ended rule has
made is no prefix of its checks: `Picks` speaks of places among the failing ones. The update functions of `RuleContext` from
a position on are shown to move violations as the reference moves checks
(`MakesMoved`), and a loop that stops at the first reason to return makes
the checks of all its turns (`LoopMakes`). From these follow `EvaluateMakes`, `ValidateCelMakes`,
`AnyMakes`, `FieldMakes`, ..., up to `ValidateMakes` for a rule object of any class.

*The reference* is a recursive function on `Messages`, which for an arbitrary set
need not exist. `ChecksIs` shows that it does and satisfies its equation,
by induction on the height of messages.

*The walk* (`WalkProofs`). An activation of `ValidateMessage` has made a prefix of the
checks of its message, given by its three counters (`DidBy`). The properties speak only of the
end; the inductive invariant `ReportInv` is `WalkInv` and `WalkFinds`, which says of
every moment:

- each activation but the one on top is at the call of the next one, and the
  violations between its position and that of the next are those of the
  checks it has made, all of which could be made (`Callers`);
- the one on top is where `pc` says and has made the checks up to there, and
  nothing asks to return (`OnWay`); or it returns: without a reason to stop it
  has made all checks of its message, with an error it `Reports` one of them,
  and with OK it has found some of the failing ones, as in `Picks` (`Returns`).

`Resume` is the step that needs it: the violations found below are moved under
the caller's element just as the reference moves the checks of the message there, and
a first error below is the first of the caller because everything before it could be made,
and the first violation below is the first of the caller if there was none before.

`FailFastAgrees` is `Picks` at the root. The set of places it asks for is the range of the
increasing function in `Picks`; that the i-th of them in order is the function's value
at i is a count by induction (`PlacesCount`).

`PathsOnTheWayUp` needs no invariant of its own. A violation lies between the positions of
two activations in a row (`FoundBetween`), shows a failing check of the message of the
first (`AnyPicks`), and each caller on the stack has that check under its element
among its own (`OneUp`), by induction up to the root (`Up`).

*The runner*. `RunnerInv` adds that `ReportInv` holds of the walk in progress and that it
is of the case `running`; each begins in an initial state of `Validator`.

The assumptions are `ShownTrees(height)` and `RunnableRequests`. The first:
`Messages` has with each message those in its fields; each has a height, above
that of the messages in it (a message is a finite tree, so it has one);
rule objects have the form of those that `NewMessageRules` makes; and no item that has
rules of an `Any` has an expression that fails to evaluate. The last excludes
just what run `item_errors` shows to be wrong: there `ErrorsReported` does not hold.
The second: the messages of usable cases are among `Messages`. Both hold of the
instances of the run `walk` (TLC evaluates them there, with `Sequence` read as
having the domain of one), and there `WalkFinds` and `RunnerInv` are invariants.

### The address parsers

- `LoopTypeCorrect`, `LoopConsumes`: on any text the loop of `parseAddressPart` stays in
  the text, counts at most nine groups, keeps to 128 bits, and each iteration
  reads on or is the last. Each parsing function
  returns `NoMatch` or a position further on in the text.
- `GroupsStayApart`: shifting and or-ing the groups into place never puts one on the
  bits of another and shifts none out. The invariant `Layout` says where they lie:
  before a double colon all in `b`, from the bottom; after it those before it,
  at most seven, at the top of `bits` and the others in `b`. It holds also for the nine groups
  of run `seven_groups`, where the double colon stands for nothing.
- `LoopIsTheFunction`: where the loop ends is what the recursive function
  `ParseAddressPart` returns. `IPv6` and so `ExtraFunc` use that function; what is
  checked of the loop holds of it. The invariant `OnTrack` says that the state of the loop is
  one of those the function goes through. `FunctionEnds` shows that the function's
  bound on the iterations, one more than the text has characters, ends every loop.
- `StrictIsHostPart6`, `StrictIsHostPart4`: on any text that is a prefix the length is
  at most 128 or 32, so that the shift of the mask is one C++ defines (for IPv4
  length 0 is excepted, as in `ipv4.h`), and `bits & ~mask` is zero exactly if the
  bits below the mask are. `OctetsAreBytes`: the four numbers of a dotted address
  are bytes. A number that is read is a natural number within its limit
  (`ReadWithin`), by induction over its digits.

### Only model-checked

- Liveness: `CallsReturn`, `AllAnswered`. Fairness and ENABLED are out of the
  prover's reach. That the IPv6 loop ends follows from `LoopConsumes`, which is
  a safety property.
- `FieldValueAtPath`: the in-memory value is left out of `Shown`, as it is wrong for map
  keys (run `map_key_value`).
- All of `Declared` and `CompiledRules`: `Levels` and `NewFieldRules` recurse over
  nested rules, and the provers have no SMT backend for modules with RECURSIVE
  operators.
- Text forms: `AddressExact`, `PrefixExact`, `AddressValue`, `StrictExact` and those of the CEL
  functions relate a parser to a grammar over all texts, which needs induction over
  the text in both.

Induction over numbers is used in the form of `InductionLemmas`: a set of naturals
that contains 0 and the successor of each of its members contains all. Recursive
functions are shown to exist and to have their defining equation by such an
induction (the lemmas ending in `RunsExists`). For that, `Loop` of `Rules` and
`DecimalDigits` are written without operators the provers do not know.

## Where the code differs from its references

`findings` in PROJECT.json lists what contradicts a line of the repository. The
references of the other runs name further deviations, so that the properties
say exactly what the code does:

- IPv6 (`AcceptedAsAddress`): a single colon may stand before a zone or a prefix
  length (run `single_colon`); a double colon may stand for no group before a dotted quad;
  `checkDotted` takes a group for a dotted quad if a dot is within the next four
  characters, so `::1:1.2.3.4` and `fe80::1%e0.100` are refused. In a URI the
  lookahead goes past the bracket, and a dotted quad takes no zone.
- URI hosts: a percent-encoded byte must not be followed by a hexadecimal digit;
  `%f4%90` is taken for a code point (run `last_code_point`); encoded surrogates are; IPvFuture needs a
  lower-case `v`.
- `isIpPrefix` reads the low 32 bits of the version (`extra_func.cc:332`).
- Compiled and never looked at (`PartIds`): any rules of keys and values, any rules
  of a list as a whole, `required` and `enum.defined_only` of items, keys and
  values, and all levels below those. A required list or map with
  IGNORE_IF_ZERO_VALUE may be empty (`AbsentIds`).
- A type that does not match its rule kind fails with InvalidArgument, which the
  runner reports as a runtime error.
- `RegisterExtraFuncs` returns the wrong status if `isUriRef` cannot be registered
  (`extra_func.cc:472`); not modelled, as registration of distinct names does not fail.

## Not modelled, and the plan

Not modelled: the bindings of a CEL activation and the wording of messages
(external or formatting); `fieldPathString` and `ValidationResult` (formatting and
accessors); `New`'s registration of functions; the CEL functions `unique`,
`getField`, `isNan`, `isInf` and those on bytes, each one library call or
comparison by cel-cpp; arguments of other types, on which the functions abort,
as CEL's checker does not let rules pass them; a list with `enum.defined_only`,
which protobuf ends the program for; unknown fields of `FieldRules` itself, which
nothing reads (`cel_rules.h:90` looks only at the rules of a kind); the unlocked
reads and writes of the configuration below the level of a step; build files and
examples. What could be proved next:

1. `FieldValueAtPath`, from what each class of rule object does to the value;
2. the compiler's loops, if `NewFieldRules` is made a recursive function on a set
   of rules, as `Checks` is one on messages;
3. the URI parser: positions only move on, from the lemmas of `AddressProofs`.
