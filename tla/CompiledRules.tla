---------------------------- MODULE CompiledRules ----------------------------
(***************************************************************************)
(* The rule objects RuleBuilder compiles, run by Rules on a message: what  *)
(* a descriptor declares against what Validate reports, across the two.    *)
(***************************************************************************)
EXTENDS Declared

R == INSTANCE Rules

\* A message that violates all it can.  Either every field is set, each list and
\* map having one item, an enum's value is unknown and an Any's type refused, or
\* nothing is set; on whatever is evaluated, every expression fails.
Violated(exprs) ==
  [i \in 1..Len(exprs) |-> [id |-> exprs[i].id, path |-> exprs[i].path,
                            field |-> exprs[i].field, outcome |-> "fail"]]
AnyOf(o) == IF o.any THEN [missing |-> TRUE, blocked |-> TRUE] ELSE R!NoAny
Base(o, kind, set) ==
  [kind |-> kind, label |-> o.label, msg |-> "m", field |-> o.field, present |-> set,
   ignoreEmpty |-> o.ignoreEmpty, required |-> o.required, any |-> AnyOf(o),
   read |-> R!Ok, exprs |-> Violated(o.exprs)]

\* An item, key or value, and what its rule object, if any, says of it.
ValueOf(part) ==
  IF part = NoRule THEN [empty |-> FALSE, exprs |-> <<>>, any |-> R!NoAny]
  ELSE [empty |-> FALSE, exprs |-> Violated(part.exprs), any |-> AnyOf(part)]

Items(o) == IF o.parts = <<>> THEN NoRule ELSE o.parts[1]
ListParts(o, set) ==
  [hasItemRules     |-> Items(o) # NoRule,
   itemsHaveAny     |-> Items(o) # NoRule /\ Items(o).any,
   ignoreEmptyItems |-> Items(o) # NoRule /\ Items(o).ignoreEmpty,
   items            |-> IF set THEN <<ValueOf(Items(o))>> ELSE <<>>]

Key(o)   == IF o.parts = <<>> THEN NoRule ELSE o.parts[1]
Value(o) == IF o.parts = <<>> THEN NoRule ELSE o.parts[2]
MapParts(o, set) ==
  [keys              |-> R!Ok,
   hasKeyRules       |-> Key(o) # NoRule,
   hasValueRules     |-> Value(o) # NoRule,
   ignoreEmptyKeys   |-> Key(o) # NoRule /\ Key(o).ignoreEmpty,
   ignoreEmptyValues |-> Value(o) # NoRule /\ Value(o).ignoreEmpty,
   entries |-> IF set THEN <<[name |-> 1, key |-> ValueOf(Key(o)), value |-> ValueOf(Value(o))]>>
               ELSE <<>>]

Merge(f, g) == [x \in DOMAIN f \cup DOMAIN g |-> IF x \in DOMAIN f THEN f[x] ELSE g[x]]

Against(o, set) ==
  CASE o.class = "MessageValidationRules" -> [kind |-> "message", exprs |-> Violated(o.exprs)]
    [] o.class = "MessageOneofValidationRules" ->
         [kind |-> "message_oneof", required |-> o.required,
          hasCount |-> IF set THEN Len(o.fields) ELSE 0]
    [] o.class = "OneofValidationRules" ->
         [kind |-> "oneof", field |-> o.oneof, required |-> o.required, present |-> set]
    [] o.class = "FieldValidationRules" -> Base(o, "field", set)
    [] o.class = "EnumValidationRules" ->
         Merge(Base(o, "enum", set), [definedOnly |-> o.definedOnly, defined |-> ~set])
    [] o.class = "RepeatedValidationRules" -> Merge(Base(o, "repeated", set), ListParts(o, set))
    [] o.class = "MapValidationRules" -> Merge(Base(o, "map", set), MapParts(o, set))

\* What validating it reports, object after object.
Reported(set) ==
  LET One(vs, o) == R!Validate(FALSE, vs, Against(o, set)).vs
      all == FoldLeft(One, <<>>, rules)
  IN  [i \in 1..Len(all) |-> all[i].id]
-----------------------------------------------------------------------------
(* What should be reported, by the declarations.                           *)

Ids(exprs) == [i \in 1..Len(exprs) |-> exprs[i].id]
AnyIds(counts) == IF counts THEN <<"any.in", "any.not_in">> ELSE <<>>

IgnoresEmpty(f, lvl) ==
  \/ lvl.ignore = "if_zero_value" \/ (f.presence /\ ~f.inMapEntry)
  \/ lvl.ignore = "unset" /\ InMessageOneof(desc, f.name)

\* Items, keys and values: their expressions, and the any rules of items, but
\* not their enum.defined_only and required, not the any rules of keys and
\* values, and nothing of the levels below them.
PartIds(lvl, i) ==
  IF lvl.parts[i].ignore = "always" THEN <<>>
  ELSE Ids(LevelExprs(config, lvl.parts[i]))
       \o AnyIds(lvl.kind = "repeated" /\ lvl.parts[i].kind = "any")

PresentIds(f, lvl) ==
  AnyIds(lvl.kind = "any" /\ f.label = "one")
  \o Ids(LevelExprs(config, lvl))
  \o If(lvl.kind = "enum" /\ lvl.definedOnly, "enum.defined_only")
  \o FlattenSeq([i \in 1..Len(lvl.parts) |-> PartIds(lvl, i)])

\* A field without a value: a required list or map that ignores its zero value
\* may be empty, any other required field may not.
AbsentIds(f, lvl) ==
  IF lvl.required /\ (f.label = "one" \/ ~IgnoresEmpty(f, lvl)) THEN <<"required">>
  ELSE IF IgnoresEmpty(f, lvl) THEN <<>>
  ELSE AnyIds(lvl.kind = "any" /\ f.label = "one") \o Ids(LevelExprs(config, lvl))

FieldIds(f, set) ==
  IF f.rules = NoRules \/ f.rules.ignore = "always" THEN <<>>
  ELSE IF set THEN PresentIds(f, f.rules) ELSE AbsentIds(f, f.rules)

DeclaredIds(set) ==
  Ids(MessageExprs(desc))
  \o FlattenSeq([i \in 1..Len(MessageOneofs(desc)) |->
                   If(IF set THEN Len(MessageOneofs(desc)[i].fields) > 1
                      ELSE MessageOneofs(desc)[i].required, "message.oneof")])
  \o FlattenSeq([i \in 1..Len(desc.fields) |-> FieldIds(desc.fields[i], set)])
  \o FlattenSeq([i \in 1..Len(desc.oneofs) |->
                   If(desc.oneofs[i] # NoOneof /\ desc.oneofs[i].required /\ ~set, "required")])

\* Reading one value of a list of enums is a fatal error of protobuf.
ReadsListAsEnum == \E i \in 1..Len(rules) :
  rules[i].class = "EnumValidationRules" /\ rules[i].label = "list" /\ rules[i].definedOnly

\* Everything declared is enforced, and in order, once it is compiled: no check
\* of a type that compiles is dropped between the two, except those PartIds and
\* AbsentIds name; a level with IGNORE_ALWAYS has none.
EveryCheckRuns ==
  Done /\ status = Ok /\ ~ReadsListAsEnum =>
    \A set \in BOOLEAN : Reported(set) = DeclaredIds(set)
==============================================================================
