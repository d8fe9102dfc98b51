------------------------------ MODULE Declared ------------------------------
(***************************************************************************)
(* What the options of a message type declare, level by level, and the     *)
(* properties of RuleBuilder stated against it.                            *)
(*                                                                         *)
(* A level is one FieldRules message that counts: that of a field, or of   *)
(* the items, keys or values of one, with no IGNORE_ALWAYS at it or above  *)
(* it.  The reference lists the levels of a type, innermost first as the   *)
(* code meets them, with no early return and no state; the code recurses,  *)
(* returns at the first error, and copies the rules of some fields.        *)
(***************************************************************************)
EXTENDS RuleBuilder

Level(field, lvl) == [field |-> field, rules |-> lvl]

RECURSIVE Levels(_, _)
Levels(field, lvl) ==
  IF lvl.ignore = "always" THEN <<>>
  ELSE FlattenSeq([i \in 1..Len(lvl.parts) |->
                     IF TypeMatch(field, lvl.kind) = Ok
                       THEN Levels(PartField(field, lvl.kind, i), lvl.parts[i]) ELSE <<>>])
       \o <<Level(field, lvl)>>

FieldLevels(d, i) ==
  IF d.fields[i].rules = NoRules THEN <<>> ELSE Levels(d.fields[i], d.fields[i].rules)

AllLevels(d) == FlattenSeq([i \in 1..Len(d.fields) |-> FieldLevels(d, i)])

MessageExprs(d) == IF d.message = NoMessage THEN <<>> ELSE d.message.celExpression \o d.message.cel
MessageOneofs(d) == IF d.message = NoMessage THEN <<>> ELSE d.message.oneof

\* The rule fields of a level that can be understood, and whether some cannot.
Reparsed(cfg, typed) == typed.unknown /\ cfg.factory /\ typed.reparses
RuleFields(cfg, lvl) ==
  IF lvl.kind = "none" THEN <<>>
  ELSE lvl.typed.set \o (IF Reparsed(cfg, lvl.typed) THEN lvl.typed.more ELSE <<>>)
Unintelligible(cfg, lvl) ==
  /\ lvl.kind # "none"
  /\ lvl.typed.unknown
  /\ Reparsed(cfg, lvl.typed) => lvl.typed.stillUnknown

LevelExprs(cfg, lvl) ==
  FlattenSeq([i \in 1..Len(RuleFields(cfg, lvl)) |-> RuleFields(cfg, lvl)[i].cel])
  \o lvl.celExpression \o lvl.cel

\* Every expression that should run, in order, and every problem, in order.
DeclaredExprs(cfg, d) ==
  MessageExprs(d)
  \o FlattenSeq([i \in 1..Len(AllLevels(d)) |-> LevelExprs(cfg, AllLevels(d)[i].rules)])

Bad(exprs) == SelectSeq([i \in 1..Len(exprs) |-> exprs[i].status], LAMBDA s : s # Ok)
If(condition, s) == IF condition THEN <<s>> ELSE <<>>

OneofProblems(d, o) ==
  If(\/ o.fields = <<>>
     \/ \E i, j \in 1..Len(o.fields) : i < j /\ o.fields[i] = o.fields[j]
     \/ \E i \in 1..Len(o.fields) : \A k \in 1..Len(d.fields) : d.fields[k].name # o.fields[i],
     FailedPrecondition)

RECURSIVE LevelProblems(_, _, _)
LevelProblems(cfg, field, lvl) ==
  LET match == TypeMatch(field, lvl.kind)
      parts == FlattenSeq([i \in 1..Len(lvl.parts) |->
                 LevelProblems(cfg, PartField(field, lvl.kind, i), lvl.parts[i])])
  IN  CASE lvl.ignore = "always" -> <<>>
        [] lvl.ignore # "always" /\ match # Ok -> <<match>>
        [] lvl.ignore # "always" /\ match = Ok ->
             parts \o If(~cfg.allowUnknown /\ Unintelligible(cfg, lvl), FailedPrecondition)
                   \o Bad(LevelExprs(cfg, lvl))

Problems(cfg, d) ==
  Bad(MessageExprs(d))
  \o FlattenSeq([i \in 1..Len(MessageOneofs(d)) |-> OneofProblems(d, MessageOneofs(d)[i])])
  \o FlattenSeq([i \in 1..Len(d.fields) |->
       IF d.fields[i].rules = NoRules THEN <<>>
       ELSE LevelProblems(cfg, d.fields[i], d.fields[i].rules)])

\* The rule objects of fields among the result, with those of their parts, and
\* all the expressions compiled.
RECURSIVE Nested(_)
Nested(rule) ==
  IF rule = NoRule THEN <<>>
  ELSE FlattenSeq([i \in 1..Len(rule.parts) |-> Nested(rule.parts[i])]) \o <<rule>>

HasParts(rule) == "parts" \in DOMAIN rule
FieldObjects(rs) ==
  FlattenSeq([i \in 1..Len(rs) |-> IF HasParts(rs[i]) THEN Nested(rs[i]) ELSE <<>>])

CompiledIds(rs) ==
  LET Of(r) == IF HasParts(r)
                 THEN FlattenSeq([i \in 1..Len(Nested(r)) |-> Nested(r)[i].exprs])
               ELSE IF "exprs" \in DOMAIN r THEN r.exprs ELSE <<>>
      all == FlattenSeq([i \in 1..Len(rs) |-> Of(rs[i])])
  IN  [i \in 1..Len(all) |-> all[i].id]

InMessageOneof(d, name) ==
  \E i \in 1..Len(MessageOneofs(d)) : name \in ToSet(MessageOneofs(d)[i].fields)
------------------------------------------------------------------------------
(* Properties.                                                             *)

Done == pc = "done"

\* Type invariant of the builder.
TypeOK ==
  /\ pc \in {"message", "oneof", "fields", "oneofs", "done"}
  /\ next \in Nat \ {0}
  /\ allMsgOneofs \subseteq FieldNames
  /\ status \in {Ok, Invalid, FailedPrecondition}
  /\ status # Ok => Done

\* NewMessageRules fails exactly when something declared does not compile, and
\* with the status of the first such thing in declaration order: nothing under
\* an IGNORE_ALWAYS can fail it, nothing else can hide.
FailsOnFirstProblem ==
  Done => status = IF Problems(config, desc) = <<>> THEN Ok ELSE Head(Problems(config, desc))

\* What compiles runs every declared expression once, in declaration order:
\* none of an ignored level, all of those only the user's pool knows.
RunsEveryExpression ==
  Done /\ status = Ok =>
    CompiledIds(rules) = [i \in 1..Len(DeclaredExprs(config, desc)) |->
                            DeclaredExprs(config, desc)[i].id]

\* The members of a oneof of the message option skip their rules when unset,
\* whichever of the oneofs names them and wherever they are declared, unless
\* they say otherwise; no other field does so by mistake.
OneofMembersIgnoreEmpty ==
  Done /\ status = Ok =>
    LET levels == AllLevels(desc) objects == FieldObjects(rules) IN
    /\ Len(objects) = Len(levels)
    /\ \A i \in 1..Len(levels) :
         LET f == levels[i].field lvl == levels[i].rules
             top == \E k \in 1..Len(desc.fields) : desc.fields[k] = f /\ f.rules = lvl
         IN  objects[i].ignoreEmpty <=>
               \/ lvl.ignore = "if_zero_value"
               \/ f.presence /\ ~f.inMapEntry
               \/ top /\ lvl.ignore = "unset" /\ InMessageOneof(desc, f.name)
==============================================================================
