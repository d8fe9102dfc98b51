----------------------------- MODULE RuleBuilder -----------------------------
(***************************************************************************)
(* NewMessageRules: the rule objects a message type compiles to, or the    *)
(* status of the first thing in it that does not compile                   *)
(* (src/buf/validate/internal/{message_rules.cc, field_rules.cc,           *)
(* field_rules.h, cel_rules.h, cel_validation_rules.cc, rules.h}).         *)
(*                                                                         *)
(* The records, as the options of a descriptor give them:                  *)
(*   expression  [id, status]: what cel-cpp says when it is compiled       *)
(*   descriptor  [message, fields, oneofs]: the message option (NoMessage  *)
(*               or [celExpression, cel, oneof], oneof a sequence of       *)
(*               [fields, required]), the fields and, for each oneof of    *)
(*               the type, its option (NoOneof or [name, required])        *)
(*   field       [name, type, label, presence, inMapEntry, entry, rules]:  *)
(*               label is "one", "list" or "map"; entry is the key and     *)
(*               value fields of a map; rules is NoRules or field rules    *)
(*   field rules [ignore, required, kind, typed, definedOnly,              *)
(*               celExpression, cel, parts]: kind is the member of the     *)
(*               `type` oneof that is set ("none" if none is); parts is    *)
(*               <<items>> or <<>> for a list, <<keys, values>> for a map  *)
(*   typed       [set, unknown, reparses, more, stillUnknown]: the rules   *)
(*               of that kind.  set are the rule fields this binary knows, *)
(*               each [name, cel] with its predefined expressions; if      *)
(*               there are unknown fields and re-parsing them with the     *)
(*               user's descriptor pool succeeds (reparses), `more` are    *)
(*               those the pool knows, stillUnknown says that some remain  *)
(***************************************************************************)
EXTENDS Naturals, Sequences, SequencesExt

CONSTANT Descriptors   \* the message types that may be compiled

Ok                 == "OK"
Invalid            == "InvalidArgument"
FailedPrecondition == "FailedPrecondition"

NoMessage == [absent |-> TRUE]
NoOneof   == [absent |-> TRUE]
NoRules   == [absent |-> TRUE]
NoRule    == [class |-> "null"]      \* a null rule object: nothing to check

Built(rule)    == [status |-> Ok, rule |-> rule]
Failed(status) == [status |-> status, rule |-> NoRule]
-----------------------------------------------------------------------------
(* Expressions.  A source is an expression with the path of its rule.      *)

Source(expr, path, field) ==
  [id |-> expr.id, status |-> expr.status, path |-> path, field |-> field]
Compiled(source) == [id |-> source.id, path |-> source.path, field |-> source.field]

\* CelValidationRules::Add of each source in turn, up to the first that fails.
AddAll(exprs, sources) ==
  LET Add(acc, source) ==
        IF acc.status # Ok THEN acc
        ELSE IF source.status # Ok THEN [acc EXCEPT !.status = source.status]
        ELSE [acc EXCEPT !.exprs = Append(@, Compiled(source))]
  IN  FoldLeft(Add, [status |-> Ok, exprs |-> exprs], sources)

\* The custom expressions of `exprs`, which is the field `name` of the rules.
Custom(exprs, name) ==
  [i \in 1..Len(exprs) |-> Source(exprs[i], <<name, i>>, "none")]

\* The predefined expressions of the rule fields that are set, leaf first.
Predefined(fields, kind) ==
  LET Of(f) == [i \in 1..Len(f.cel) |-> Source(f.cel[i], <<f.name, kind>>, f.name)]
  IN  FlattenSeq([i \in 1..Len(fields) |-> Of(fields[i])])

\* Mutant of BuildCelRules: the rules are listed from the original message.
BuildCelRulesAsParsed(cfg, typed, kind) ==
  LET unknown == IF cfg.factory /\ typed.unknown /\ typed.reparses
                   THEN typed.stillUnknown ELSE typed.unknown
  IN  IF ~cfg.allowUnknown /\ unknown
        THEN [status |-> FailedPrecondition, exprs |-> <<>>]
        ELSE AddAll(<<>>, Predefined(typed.set, kind))

\* cfg is [allowUnknown, factory]: allowUnknownFields_, and is there a
\* messageFactory_?
BuildCelRules(cfg, typed, kind) ==
  LET reparsed == cfg.factory /\ typed.unknown /\ typed.reparses
      unknown  == IF reparsed THEN typed.stillUnknown ELSE typed.unknown
      fields   == IF reparsed THEN typed.set \o typed.more ELSE typed.set
  IN  IF ~cfg.allowUnknown /\ unknown
        THEN [status |-> FailedPrecondition, exprs |-> <<>>]
        ELSE AddAll(<<>>, Predefined(fields, kind))
-----------------------------------------------------------------------------
(* Fields.                                                                 *)

Wrapper ==
  [bool |-> "BoolValue", float |-> "FloatValue", double |-> "DoubleValue",
   int32 |-> "Int32Value", int64 |-> "Int64Value", uint32 |-> "UInt32Value",
   uint64 |-> "UInt64Value", string |-> "StringValue", bytes |-> "BytesValue"]

Unwrapped == {"sint32", "sint64", "fixed32", "fixed64", "sfixed32", "sfixed64", "enum"}

WellKnown ==
  [duration |-> "Duration", field_mask |-> "FieldMask", timestamp |-> "Timestamp", any |-> "Any"]

\* The status of rules of this kind on this field.  Scalar kinds look at the
\* type alone, so they also fit a list of that type.
TypeMatch(field, kind) ==
  CASE kind \in DOMAIN Wrapper ->
         IF field.type \in {kind, Wrapper[kind]} THEN Ok ELSE FailedPrecondition
    [] kind \in Unwrapped -> IF field.type = kind THEN Ok ELSE FailedPrecondition
    [] kind \in DOMAIN WellKnown -> IF field.type = WellKnown[kind] THEN Ok ELSE Invalid
    [] kind = "repeated" -> IF field.label = "list" THEN Ok ELSE Invalid
    [] kind = "map"      -> IF field.label = "map" THEN Ok ELSE Invalid
    [] kind = "none"     -> Ok

Class(kind) ==
  CASE kind = "enum"     -> "EnumValidationRules"
    [] kind = "repeated" -> "RepeatedValidationRules"
    [] kind = "map"      -> "MapValidationRules"
    [] OTHER             -> "FieldValidationRules"

\* The constructor of FieldValidationRules.
IgnoreEmpty(field, lvl) ==
  lvl.ignore = "if_zero_value" \/ (field.presence /\ ~field.inMapEntry)

\* Items have the rules of the same (list) field, keys and values those of the
\* two fields of the map's entry type.
PartField(field, kind, i) == IF kind = "map" THEN field.entry[i] ELSE field

RECURSIVE NewFieldRules(_, _, _)
NewFieldRules(cfg, field, lvl) ==
  LET match  == TypeMatch(field, lvl.kind)
      parts  == [i \in 1..Len(lvl.parts) |->
                   NewFieldRules(cfg, PartField(field, lvl.kind, i), lvl.parts[i])]
      failed == SelectSeq(parts, LAMBDA p : p.status # Ok)
      typed  == IF lvl.kind = "none" THEN [status |-> Ok, exprs |-> <<>>]
                ELSE BuildCelRules(cfg, lvl.typed, lvl.kind)
      all    == IF typed.status # Ok THEN typed
                ELSE AddAll(typed.exprs, Custom(lvl.celExpression, "cel_expression")
                                         \o Custom(lvl.cel, "cel"))
  IN  IF lvl.ignore = "always" THEN Built(NoRule)
      ELSE IF match # Ok THEN Failed(match)
      ELSE IF failed # <<>> THEN Failed(failed[1].status)
      ELSE IF all.status # Ok THEN Failed(all.status)
      ELSE Built([class |-> Class(lvl.kind), field |-> field.name, label |-> field.label,
                  exprs |-> all.exprs,
                  ignoreEmpty |-> IgnoreEmpty(field, lvl), required |-> lvl.required,
                  definedOnly |-> lvl.definedOnly, any |-> lvl.kind = "any",
                  parts |-> [i \in 1..Len(parts) |-> parts[i].rule]])
-----------------------------------------------------------------------------
(* NewMessageRules, one step for each iteration of its loops.              *)

VARIABLES
  desc,          \* descriptor
  config,        \* allowUnknownFields and messageFactory
  pc,            \* "message" | "oneof" | "fields" | "oneofs" | "done"
  next,          \* loop index
  rules,         \* result
  allMsgOneofs,  \* the names in the oneofs of the message option
  status         \* of the Rules returned

vars == <<desc, config, pc, next, rules, allMsgOneofs, status>>

Init ==
  /\ desc \in Descriptors
  /\ config \in [allowUnknown : BOOLEAN, factory : BOOLEAN]
  /\ pc = "message" /\ next = 1
  /\ rules = <<>> /\ allMsgOneofs = {} /\ status = Ok

Goto(where) == pc' = where /\ next' = 1
\* Mutant of Return: the loop goes on after an error.
ReturnLater(s) == status' = s /\ next' = next + 1 /\ UNCHANGED pc

Return(s)   == pc' = "done" /\ status' = s /\ UNCHANGED next
Continue    == next' = next + 1 /\ UNCHANGED <<pc, status>>

\* BuildMessageRules
BuildMessage ==
  /\ pc = "message"
  /\ IF desc.message = NoMessage
       THEN Goto("fields") /\ UNCHANGED <<rules, status>>
       ELSE LET sources == [i \in 1..Len(desc.message.celExpression \o desc.message.cel) |->
                              Source((desc.message.celExpression \o desc.message.cel)[i],
                                     <<>>, "none")]
                r == AddAll(<<>>, sources)
            IN  IF r.status # Ok THEN Return(r.status) /\ UNCHANGED rules
                ELSE /\ rules' = <<[class |-> "MessageValidationRules", exprs |-> r.exprs]>>
                     /\ Goto("oneof") /\ UNCHANGED status
  /\ UNCHANGED <<desc, config, allMsgOneofs>>

FieldNames == {desc.fields[i].name : i \in 1..Len(desc.fields)}

\* Mutant of WellFormedOneof: `seen` is not cleared between two oneofs.
WellFormedOneofOverall(names) ==
  /\ names # <<>>
  /\ ToSet(names) \subseteq FieldNames
  /\ IsInjective(names)
  /\ ToSet(names) \cap allMsgOneofs = {}

\* A oneof of the message option: it names fields of the message, none twice.
WellFormedOneof(names) ==
  /\ names # <<>>
  /\ ToSet(names) \subseteq FieldNames
  /\ IsInjective(names)

BuildMessageOneof ==
  /\ pc = "oneof"
  /\ next <= Len(desc.message.oneof)
  /\ LET o == desc.message.oneof[next] IN
     IF WellFormedOneof(o.fields)
       THEN /\ rules' = Append(rules, [class |-> "MessageOneofValidationRules",
                                       fields |-> o.fields, required |-> o.required])
            /\ allMsgOneofs' = allMsgOneofs \cup ToSet(o.fields)
            /\ Continue
       ELSE Return(FailedPrecondition) /\ UNCHANGED <<rules, allMsgOneofs>>
  /\ UNCHANGED <<desc, config>>

\* Mutant of FieldLevel: an explicit ignore is replaced too.
FieldLevelForced(field) ==
  IF field.name \in allMsgOneofs
    THEN [field.rules EXCEPT !.ignore = "if_zero_value"] ELSE field.rules

\* The rules of a field in a oneof of the message option, unless they set
\* ignore themselves, are replaced by a copy that ignores the zero value.
FieldLevel(field) ==
  IF field.rules.ignore = "unset" /\ field.name \in allMsgOneofs
    THEN [field.rules EXCEPT !.ignore = "if_zero_value"] ELSE field.rules

BuildField ==
  /\ pc = "fields"
  /\ next <= Len(desc.fields)
  /\ LET field == desc.fields[next] IN
     IF field.rules = NoRules THEN Continue /\ UNCHANGED rules
     ELSE LET r == NewFieldRules(config, field, FieldLevel(field)) IN
          IF r.status # Ok THEN Return(r.status) /\ UNCHANGED rules
          ELSE rules' = (IF r.rule = NoRule THEN rules ELSE Append(rules, r.rule)) /\ Continue
  /\ UNCHANGED <<desc, config, allMsgOneofs>>

BuildOneof ==
  /\ pc = "oneofs"
  /\ next <= Len(desc.oneofs)
  /\ rules' = IF desc.oneofs[next] = NoOneof THEN rules
              ELSE Append(rules, [class |-> "OneofValidationRules",
                                  oneof |-> desc.oneofs[next].name,
                                  required |-> desc.oneofs[next].required])
  /\ Continue
  /\ UNCHANGED <<desc, config, allMsgOneofs>>

\* The end of a loop.
LoopDone ==
  /\ \/ pc = "oneof" /\ next > Len(desc.message.oneof) /\ Goto("fields") /\ UNCHANGED status
     \/ pc = "fields" /\ next > Len(desc.fields) /\ Goto("oneofs") /\ UNCHANGED status
     \/ pc = "oneofs" /\ next > Len(desc.oneofs) /\ Return(Ok)
  /\ UNCHANGED <<desc, config, rules, allMsgOneofs>>

Next == BuildMessage \/ BuildMessageOneof \/ BuildField \/ BuildOneof \/ LoopDone

Spec == Init /\ [][Next]_vars
==============================================================================
