-------------------------------- MODULE Rules --------------------------------
(***************************************************************************)
(* What one compiled rule does to the RuleContext of a validation:         *)
(* src/buf/validate/internal/{validation_rules.h, cel_validation_rules.cc, *)
(* rules.cc}.                                                              *)
(*                                                                         *)
(* A rule object and the part of the message it looks at are one record:   *)
(* where the code evaluates a CEL expression on a value, the record has    *)
(* the outcome of that evaluation, "pass", "fail" (false, or a non-empty   *)
(* string), "error" (a CEL error, or a result of another type), or the     *)
(* status Evaluate itself returns when it gives no result.  Every operator *)
(* below maps the violations found so far to                               *)
(*     [vs |-> the violations afterwards, status |-> an absl status code]. *)
(*                                                                         *)
(* The records:                                                            *)
(*   expression  [id, path, field, outcome]: path is its rule path, leaf   *)
(*               first (<<>> for message rules); field is the rule field   *)
(*               it comes from, or NoField for a custom expression         *)
(*   value       [empty, exprs, any]: an item, key or map value, with the  *)
(*               expressions of its rules as they come out on it           *)
(*   any         [missing, blocked]: is the type URL missing from `in`, is *)
(*               it in `not_in`?                                           *)
(*   rule        [kind, ...]: see Validate at the end; `read` and `keys`   *)
(*               are the statuses of reading the value of a field and of   *)
(*               listing the keys of a map                                 *)
(***************************************************************************)
EXTENDS Naturals, Sequences, SequencesExt

NoField == "none"
NoAny   == [missing |-> FALSE, blocked |-> FALSE]

Ok      == "OK"
Invalid == "InvalidArgument"
-----------------------------------------------------------------------------
(* RuleContext.                                                            *)

\* Mutants of ShouldReturn: failFast alone ends it, or never does.
ShouldReturnFailFast(failFast, vs, status) == status # Ok \/ failFast
ShouldReturnOnError(failFast, vs, status) == status # Ok

\* A status or, with failFast, any violation ends the validation.
ShouldReturn(failFast, vs, status) ==
  status # Ok \/ (failFast /\ vs # <<>>)

\* An update of the violations after the first `start` ones, as the
\* append.../set... functions of RuleContext make it.
From(vs, start, Update(_)) ==
  SubSeq(vs, 1, start) \o [i \in 1..(Len(vs) - start) |-> Update(vs[start + i])]

AppendFieldPathElement(vs, element, start) ==
  From(vs, start, LAMBDA v : [v EXCEPT !.field = Append(@, element)])

AppendRulePathElement(vs, suffix, start) ==
  From(vs, start, LAMBDA v : [v EXCEPT !.rule = @ \o suffix])

\* Mutant of SetFieldValue: it starts at the first violation of the message.
SetFieldValueOfAll(vs, value, start) ==
  [i \in 1..Len(vs) |-> [vs[i] EXCEPT !.fieldValue = value]]

SetFieldValue(vs, value, start) ==
  From(vs, start, LAMBDA v : [v EXCEPT !.fieldValue = value])

SetRuleValue(vs, rule, start) ==
  From(vs, start, LAMBDA v : [v EXCEPT !.ruleValue = rule])

SetForKey(vs, start) ==
  From(vs, start, LAMBDA v : [v EXCEPT !.forKey = TRUE])

\* Paths are collected leaf first and turned around once, at the end.
Finalize(vs) ==
  [i \in 1..Len(vs) |-> [vs[i] EXCEPT !.field = Reverse(@), !.rule = Reverse(@)]]
-----------------------------------------------------------------------------
(* Paths and values.  A path element is a field name with the index or key *)
(* of an item, if it is one; a ProtoField is a message, a field and the     *)
(* item, key or value of it, if it is one.                                 *)

Whole == <<>>

Element(name) == [name |-> name, at |-> Whole]
ItemElement(name, at) == [name |-> name, at |-> at]

ProtoField(msg, name, at) == [msg |-> msg, name |-> name, at |-> at]
EntryField(msg, name, key, part) == ProtoField(msg, name, <<key, part>>)
NoValue == ProtoField("none", "none", Whole)

Violation(id, field, rule, fieldValue, ruleValue) ==
  [id |-> id, field |-> field, rule |-> rule, forKey |-> FALSE,
   fieldValue |-> fieldValue, ruleValue |-> ruleValue]

Result(vs, status) == [vs |-> vs, status |-> status]

\* An error status returns at once; otherwise Next goes on with the violations.
Then(r, Next(_)) == IF r.status # Ok THEN r ELSE Next(r.vs)

\* A loop: elements to Skip are passed over, Stop(before, r) says whether it
\* returns after an element that had the violations `before` and the result r.
Loop(vs, seq, Skip(_), Body(_, _), Stop(_, _)) ==
  LET after[n \in 0..Len(seq)] ==
        IF n = 0 THEN [vs |-> vs, status |-> Ok, stop |-> FALSE]
        ELSE IF after[n - 1].stop \/ Skip(seq[n]) THEN after[n - 1]
        ELSE LET r == Body(after[n - 1].vs, seq[n])
             IN  [vs |-> r.vs, status |-> r.status, stop |-> Stop(after[n - 1].vs, r)]
      end == after[Len(seq)]
  IN  Result(end.vs, IF end.stop THEN end.status ELSE Ok)
-----------------------------------------------------------------------------
(* CelValidationRules.                                                     *)

\* Mutant of ProcessRule: a string result is refused.
ProcessRuleBoolOnly(vs, expr) ==
  IF expr.outcome = "pass" THEN Result(vs, Ok) ELSE Result(vs, Invalid)

\* A result that is a CEL error makes an InvalidArgument; without a result, the
\* status of Evaluate, which may have any code, is returned as it is.
ProcessRule(vs, expr) ==
  CASE expr.outcome = "pass"  -> Result(vs, Ok)
    [] expr.outcome = "fail"  ->
         Result(Append(vs, Violation(expr.id, <<>>, expr.path, NoValue, NoField)), Ok)
    [] expr.outcome = "error" -> Result(vs, Invalid)
    [] expr.outcome \notin {"pass", "fail", "error"} -> Result(vs, expr.outcome)

Evaluate(vs, expr) ==
  LET r == ProcessRule(vs, expr)
  IN  IF expr.field = NoField THEN r
      ELSE Result(SetRuleValue(r.vs, expr.field, Len(vs)), r.status)

\* The expressions in order; ShouldReturn, which looks at all the violations
\* of the validation and not only at those of this rule, breaks the loop.
ValidateCel(failFast, vs, exprs) ==
  Loop(vs, exprs, LAMBDA e : FALSE, Evaluate,
       LAMBDA before, r : ShouldReturn(failFast, r.vs, r.status))

\* MessageValidationRules::Validate
ValidateMessageCel(failFast, vs, rule) == ValidateCel(failFast, vs, rule.exprs)
-----------------------------------------------------------------------------
(* FieldValidationRules.                                                   *)

\* The violations any.in and any.not_in add; `path` is the field path so far.
\* Its error, "expected Any", is for messages without a type URL: rules.any is
\* compiled only for fields of type Any.
ValidateAny(vs, any, path, value) ==
  LET in    == Violation("any.in", path, <<"in", "any">>, value, "in")
      notIn == Violation("any.not_in", path, <<"not_in", "any">>, value, "not_in")
  IN  vs \o (IF any.missing THEN <<in>> ELSE <<>>)
         \o (IF any.blocked THEN <<notIn>> ELSE <<>>)

Required(rule) ==
  Violation("required", <<Element(rule.field)>>, <<"required">>,
            ProtoField(rule.msg, rule.field, Whole), "required")

\* For a list or map `present` says that it has an item, else that the field
\* has a value.  The two kinds test ignore and required in different orders.  A
\* list may also have the rules of a scalar kind.
Collection(rule) == rule.label \in {"list", "map"}

Ignored(rule) ==
  /\ ~rule.present
  /\ rule.ignoreEmpty
  /\ Collection(rule) \/ ~rule.required

Missing(rule) ==
  /\ ~rule.present
  /\ rule.required
  /\ ~Collection(rule) \/ ~rule.ignoreEmpty

\* A field that is neither ignored nor missing.  The any rules come first; then
\* the value is read, which may fail unless it is a list or map.
ValidatePresent(failFast, vs, rule) ==
  LET value == ProtoField(rule.msg, rule.field, Whole)
      path  == Element(rule.field)
      start == IF Collection(rule) THEN Result(vs, Ok)
               ELSE Result(ValidateAny(vs, rule.any, <<path>>, value), rule.read)
      Located(cel, pos) == SetFieldValue(AppendFieldPathElement(cel, path, pos), value, pos)
      Cel(found) == Then(ValidateCel(failFast, found, rule.exprs),
                         LAMBDA cel : Result(Located(cel, Len(found)), Ok))
  IN  Then(start, Cel)

ValidateField(failFast, vs, rule) ==
  CASE Ignored(rule) -> Result(vs, Ok)
    [] Missing(rule) -> Result(Append(vs, Required(rule)), Ok)
    [] OTHER         -> ValidatePresent(failFast, vs, rule)

\* EnumValidationRules::Validate
ValidateEnum(failFast, vs, rule) ==
  LET undefined == Violation("enum.defined_only", <<Element(rule.field)>>,
                             <<"defined_only", "enum">>,
                             ProtoField(rule.msg, rule.field, Whole), "defined_only")
      Defined(base) ==
        IF ShouldReturn(failFast, base, Ok) \/ ~rule.definedOnly \/ rule.defined
          THEN Result(base, Ok) ELSE Result(Append(base, undefined), Ok)
  IN  Then(ValidateField(failFast, vs, rule), Defined)

\* One item of RepeatedValidationRules::Validate.  The status of an item's
\* expressions is replaced by that of its any rules, when it has any.
ValidateItem(failFast, vs, rule, i) ==
  LET item  == rule.items[i]
      value == ProtoField(rule.msg, rule.field, <<i>>)
      Located(found) ==
        SetFieldValue(
          AppendRulePathElement(
            AppendFieldPathElement(found, ItemElement(rule.field, <<i>>), Len(vs)),
            <<"items", "repeated">>, Len(vs)),
          value, Len(vs))
      ThenAny(cel) ==
        IF rule.itemsHaveAny
          THEN Result(Located(ValidateAny(cel.vs, item.any, <<>>, value)), Ok)
          ELSE Result(Located(cel.vs), cel.status)
  IN  ThenAny(ValidateCel(failFast, vs, item.exprs))

Indices(seq) == [i \in 1..Len(seq) |-> i]

ValidateRepeated(failFast, vs, rule) ==
  LET Items(base) ==
        IF ShouldReturn(failFast, base, Ok) \/ ~rule.hasItemRules THEN Result(base, Ok)
        ELSE Loop(base, Indices(rule.items),
                  LAMBDA i : rule.ignoreEmptyItems /\ rule.items[i].empty,
                  LAMBDA acc, i : ValidateItem(failFast, acc, rule, i),
                  LAMBDA before, r : ShouldReturn(failFast, r.vs, r.status))
  IN  Then(ValidateField(failFast, vs, rule), Items)

ValidateKey(failFast, vs, rule, entry) ==
  LET value == EntryField(rule.msg, rule.field, entry.name, "key")
      Located(cel, pos) ==
        SetForKey(SetFieldValue(
          AppendRulePathElement(cel, <<"keys", "map">>, pos), value, pos), pos)
  IN  IF ~rule.hasKeyRules \/ (rule.ignoreEmptyKeys /\ entry.key.empty) THEN Result(vs, Ok)
      ELSE Then(ValidateCel(failFast, vs, entry.key.exprs),
                LAMBDA cel : Result(Located(cel, Len(vs)), Ok))

\* Mutant of ValidateValue: without rules for the keys it does nothing.
ValidateValueAfterKey(failFast, vs, rule, entry, pos) ==
  LET Located(cel) ==
        SetFieldValue(
          AppendRulePathElement(cel, <<"values", "map">>, Len(vs)),
          EntryField(rule.msg, rule.field, entry.name, "value"), pos)
  IN  IF ~(rule.hasKeyRules /\ rule.hasValueRules) \/ (rule.ignoreEmptyValues /\ entry.value.empty)
        THEN Result(vs, Ok)
        ELSE Then(ValidateCel(failFast, vs, entry.value.exprs),
                  LAMBDA cel : Result(Located(cel), Ok))

\* The value's violations start at valuePos, those after the key's; the field
\* value is set from pos, over the key's violations, if the value has any.
ValidateValue(failFast, vs, rule, entry, pos) ==
  LET valuePos == Len(vs)
      value == EntryField(rule.msg, rule.field, entry.name, "value")
      Located(cel) ==
        IF Len(cel) = valuePos THEN cel
        ELSE SetFieldValue(
               AppendRulePathElement(cel, <<"values", "map">>, valuePos), value, pos)
  IN  IF ~rule.hasValueRules \/ (rule.ignoreEmptyValues /\ entry.value.empty)
        THEN Result(vs, Ok)
        ELSE Then(ValidateCel(failFast, vs, entry.value.exprs),
                  LAMBDA cel : Result(Located(cel), Ok))

\* One entry of MapValidationRules::Validate: the key, then the value.  The error
\* of setPathElementMapKey is for key types that protobuf does not have.
ValidateEntry(failFast, vs, rule, i) ==
  LET entry == rule.entries[i]
      pos   == Len(vs)
      Named(found) == Result(
        AppendFieldPathElement(found, ItemElement(rule.field, <<entry.name>>), pos), Ok)
      ThenValue(key) == Then(ValidateValue(failFast, key, rule, entry, pos), Named)
  IN  Then(ValidateKey(failFast, vs, rule, entry), ThenValue)

\* The entries of a map, once its keys are listed; Stop says when to return
\* between two of them.
ValidateEntries(failFast, vs, rule, Stop(_, _)) ==
  LET Entries(base) ==
        IF ~(rule.hasKeyRules \/ rule.hasValueRules) THEN Result(base, Ok)
        ELSE IF rule.keys # Ok THEN Result(base, rule.keys)
        ELSE Loop(base, Indices(rule.entries), LAMBDA i : FALSE,
                  LAMBDA before, i : ValidateEntry(failFast, before, rule, i), Stop)
  IN  Then(ValidateField(failFast, vs, rule), Entries)

\* Mutant of ValidateMap: an entry with a violation always ends the loop.
ValidateMapFirstEntry(failFast, vs, rule) ==
  ValidateEntries(failFast, vs, rule,
    LAMBDA before, r : r.status # Ok \/ Len(r.vs) > Len(before))

\* After the rules of the map itself only an error returns; between entries
\* failFast returns once the entry itself has a violation.
ValidateMap(failFast, vs, rule) ==
  ValidateEntries(failFast, vs, rule,
    LAMBDA before, r : r.status # Ok \/ (failFast /\ Len(r.vs) > Len(before)))
-----------------------------------------------------------------------------
(* OneofValidationRules and MessageOneofValidationRules.                   *)

ValidateOneof(vs, rule) ==
  Result(IF rule.required /\ ~rule.present
           THEN Append(vs, Violation("required", <<Element(rule.field)>>, <<>>, NoValue, NoField))
           ELSE vs, Ok)

ValidateMessageOneof(vs, rule) ==
  LET v == Violation("message.oneof", <<>>, <<>>, NoValue, NoField)
  IN  Result(IF rule.hasCount > 1 \/ (rule.required /\ rule.hasCount = 0)
               THEN Append(vs, v) ELSE vs, Ok)

\* ValidationRules::Validate, by the class of the rule object.
Validate(failFast, vs, rule) ==
  CASE rule.kind = "message"       -> ValidateMessageCel(failFast, vs, rule)
    [] rule.kind = "field"         -> ValidateField(failFast, vs, rule)
    [] rule.kind = "enum"          -> ValidateEnum(failFast, vs, rule)
    [] rule.kind = "repeated"      -> ValidateRepeated(failFast, vs, rule)
    [] rule.kind = "map"           -> ValidateMap(failFast, vs, rule)
    [] rule.kind = "oneof"         -> ValidateOneof(vs, rule)
    [] rule.kind = "message_oneof" -> ValidateMessageOneof(vs, rule)
==============================================================================
