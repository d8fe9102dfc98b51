------------------------------- MODULE Expected -------------------------------
(***************************************************************************)
(* What validating a message should report, and the properties of Validator *)
(* stated against it.                                                      *)
(*                                                                         *)
(* The reference is written from the root down: each check of a message is *)
(* one record with the path from the root to the value it is about, the    *)
(* path of the rule, the value, and its outcome.  The code has no such     *)
(* list: it finds violations leaf first, adds to their paths on the way up *)
(* by position in a shared vector, and turns them around at the end.       *)
(***************************************************************************)
EXTENDS Validator, FiniteSets

Check(id, field, rule, forKey, fieldValue, ruleValue, outcome) ==
  [id |-> id, field |-> field, rule |-> rule, forKey |-> forKey,
   fieldValue |-> fieldValue, ruleValue |-> ruleValue, outcome |-> outcome]

WholeField(r) == ProtoField(r.msg, r.field, Whole)

\* The expressions of one rule object on one value.  A check that cannot be made
\* has as its outcome the status it ends with.
CelChecks(exprs, field, ruleAt, forKey, value) ==
  [i \in 1..Len(exprs) |->
     Check(exprs[i].id, field, ruleAt \o Reverse(exprs[i].path), forKey, value,
           exprs[i].field,
           IF exprs[i].outcome = "error" THEN Invalid ELSE exprs[i].outcome)]

\* What the checks after it need, the field's value or the map's keys.
Access(id, r, access) ==
  << Check(id, <<Element(r.field)>>, <<>>, FALSE, WholeField(r), NoField,
           IF access = Ok THEN "pass" ELSE access) >>

Outcome(failed) == IF failed THEN "fail" ELSE "pass"

AnyChecks(any, field, ruleAt, value) ==
  << Check("any.in", field, ruleAt \o <<"any", "in">>, FALSE, value, "in",
           Outcome(any.missing)),
     Check("any.not_in", field, ruleAt \o <<"any", "not_in">>, FALSE, value, "not_in",
           Outcome(any.blocked)) >>

\* The checks on the field as a whole: none if it is ignored, only `required`
\* if it is missing.
FieldChecks(r) ==
  CASE Ignored(r) -> <<>>
    [] Missing(r) -> << Check("required", <<Element(r.field)>>, <<"required">>, FALSE,
                              WholeField(r), "required", "fail") >>
    [] OTHER -> (IF Collection(r) THEN <<>>
                 ELSE AnyChecks(r.any, <<Element(r.field)>>, <<>>, WholeField(r))
                      \o Access("read", r, r.read))
                \o CelChecks(r.exprs, <<Element(r.field)>>, <<>>, FALSE, WholeField(r))

EnumChecks(r) ==
  << Check("enum.defined_only", <<Element(r.field)>>, <<"enum", "defined_only">>, FALSE,
           WholeField(r), "defined_only", Outcome(r.definedOnly /\ ~r.defined)) >>

ItemChecks(r, i) ==
  LET at    == <<ItemElement(r.field, <<i>>)>>
      ruleAt == <<"repeated", "items">>
      value == ProtoField(r.msg, r.field, <<i>>)
  IN  IF ~r.hasItemRules \/ (r.ignoreEmptyItems /\ r.items[i].empty) THEN <<>>
      ELSE CelChecks(r.items[i].exprs, at, ruleAt, FALSE, value)
           \o (IF r.itemsHaveAny THEN AnyChecks(r.items[i].any, at, ruleAt, value) ELSE <<>>)

EntryChecks(r, i) ==
  LET e  == r.entries[i]
      at == <<ItemElement(r.field, <<e.name>>)>>
  IN  (IF ~r.hasKeyRules \/ (r.ignoreEmptyKeys /\ e.key.empty) THEN <<>>
       ELSE CelChecks(e.key.exprs, at, <<"map", "keys">>, TRUE,
                      EntryField(r.msg, r.field, e.name, "key")))
      \o
      (IF ~r.hasValueRules \/ (r.ignoreEmptyValues /\ e.value.empty) THEN <<>>
       ELSE CelChecks(e.value.exprs, at, <<"map", "values">>, FALSE,
                      EntryField(r.msg, r.field, e.name, "value")))

KeysChecks(r) ==
  IF r.hasKeyRules \/ r.hasValueRules THEN Access("keys", r, r.keys) ELSE <<>>

RuleChecks(r) ==
  CASE r.kind = "message"  -> CelChecks(r.exprs, <<>>, <<>>, FALSE, NoValue)
    [] r.kind = "field"    -> FieldChecks(r)
    [] r.kind = "enum"     -> FieldChecks(r) \o EnumChecks(r)
    [] r.kind = "repeated" -> FieldChecks(r)
                              \o FlattenSeq([i \in 1..Len(r.items) |-> ItemChecks(r, i)])
    [] r.kind = "map"      -> FieldChecks(r) \o KeysChecks(r)
                              \o FlattenSeq([i \in 1..Len(r.entries) |-> EntryChecks(r, i)])
    [] r.kind = "oneof"    ->
         << Check("required", <<Element(r.field)>>, <<>>, FALSE, NoValue, NoField,
                  Outcome(r.required /\ ~r.present)) >>
    [] r.kind = "message_oneof" ->
         << Check("message.oneof", <<>>, <<>>, FALSE, NoValue, NoField,
                  Outcome(r.hasCount > 1 \/ (r.required /\ r.hasCount = 0))) >>

\* Checks of a message found at `element` of another.
Under(element, cs) == [i \in 1..Len(cs) |-> [cs[i] EXCEPT !.field = <<element>> \o @]]

\* All the checks of a message: its own rules in order, then those of the
\* messages in its fields, unless an ignore rule exempts them.
Checks[m \in Messages] ==
  IF m.load # Ok
    THEN << Check("load", <<>>, <<>>, FALSE, NoValue, NoField, m.load) >>
    ELSE LET Below(f, e) == Under(ItemElement(f.name, f.elems[e].at), Checks[f.elems[e].message])
             InField(f) ==
               IF f.ignore # "none" THEN <<>>
               ELSE FlattenSeq([e \in 1..Len(f.elems) |-> Below(f, e)])
         IN  FlattenSeq([i \in 1..Len(m.rules) |-> RuleChecks(m.rules[i])])
             \o FlattenSeq([i \in 1..Len(m.fields) |-> InField(m.fields[i])])

\* What should be reported, in order.
AsViolation(c) ==
  [id |-> c.id, field |-> c.field, rule |-> c.rule, forKey |-> c.forKey,
   fieldValue |-> c.fieldValue, ruleValue |-> c.ruleValue]

Fails(cs) ==
  FlattenSeq([i \in 1..Len(cs) |->
                IF cs[i].outcome = "fail" THEN <<AsViolation(cs[i])>> ELSE <<>>])
Failing(m) == Fails(Checks[m])

\* The status of the first check that cannot be made, OK if all can.
Erring(cs) == {i \in 1..Len(cs) : cs[i].outcome \notin {"pass", "fail"}}
FirstError(cs) == IF Erring(cs) = {} THEN Ok ELSE cs[Min(Erring(cs))].outcome

\* A violation without the in-memory value, which is wrong for some map keys.
Proto(v) == [id |-> v.id, field |-> v.field, rule |-> v.rule, forKey |-> v.forKey,
             ruleValue |-> v.ruleValue]
Protos(vs) == [i \in 1..Len(vs) |-> Proto(vs[i])]
-------------------------------------------------------------------------------
(* Properties.                                                             *)

\* A validation that runs to the end (no failFast) and returns OK reports
\* exactly the failing checks, once each and in order, each with the field path
\* from the root, the rule path, for_key and the rule value that belong to it.
ReportsExactly ==
  Done /\ status = Ok /\ ~failFast => Protos(violations) = Protos(Failing(root))

\* Validate returns an error only if some check of the message cannot be made,
\* and then the status of the first such check, wherever below the message it
\* is, without the violations found before it.  With failFast it is the status
\* of some such check: a map goes on to its entries after a violation of its own
\* (rules.cc:260), so that it may pass over the first.
NoSpuriousErrors ==
  Done /\ status # Ok =>
    /\ violations = <<>>
    /\ \E c \in ToSet(Checks[root]) : c.outcome \notin {"pass", "fail"} /\ c.outcome = status
    /\ ~failFast => status = FirstError(Checks[root])

\* "If there is an error while validating, a Status with the error is returned"
\* (validator.h:73): unless failFast ended the validation first.
ErrorsReported ==
  Done /\ status = Ok /\ ~failFast => FirstError(Checks[root]) = Ok

\* The elements of a sequence at some places.
Selected(seq, places) ==
  [i \in 1..Cardinality(places) |->
     seq[CHOOSE k \in places : Cardinality({j \in places : j < k}) = i - 1]]

\* With failFast the first violation reported is the first there is, whatever
\* comes with it is genuine and in order, and an OK without violations is given
\* only to a message without violations.
FailFastAgrees ==
  Done /\ failFast /\ status = Ok =>
    \E all \in {Protos(Failing(root))}, got \in {Protos(violations)} :
      /\ got = <<>> => all = <<>> /\ FirstError(Checks[root]) = Ok
      /\ got # <<>> => Head(got) = Head(all)
      /\ \E sel \in SUBSET (1..Len(all)) : Selected(all, sel) = got

\* The elements still to be added to a violation's path.
Pending(i) ==
  LET entered == Cardinality({j \in 2..Len(frames) : frames[j].pos < i})
  IN  [j \in 1..entered |-> FrameElement(j + 1)]

\* At every moment of the walk the elements still to be added to a violation's
\* path are those of the frames entered before it was found: with them its path
\* is the one from the root that the reference gives it.
PathsOnTheWayUp ==
  ~Done /\ status = Ok =>
    \E all \in {ToSet(Protos(Failing(root)))} : \A i \in 1..Len(violations) :
      Proto([violations[i] EXCEPT !.field = Pending(i) \o Reverse(@), !.rule = Reverse(@)])
        \in all

\* The in-memory value of a violation lies where its field path ends: in the
\* message the violated rule belongs to, in the same field, at the same item or
\* map entry.
FieldValueAtPath ==
  Done => \A i \in 1..Len(violations) :
    LET v == violations[i] IN
    v.fieldValue # NoValue =>
      /\ v.fieldValue.name = Last(v.field).name
      /\ LET at == Last(v.field).at
         IN  v.fieldValue.at \in {at, Append(at, "key"), Append(at, "value")}
      /\ \E k \in 1..Len(Failing(root)) :
           /\ Failing(root)[k].field = v.field
           /\ Failing(root)[k].fieldValue.msg = v.fieldValue.msg

\* RuleViolation has "references to the in-memory values for the field and
\* rule" (validation_rules.h:29): the value a violated rule was evaluated on.
FieldValueIsTheOneChecked ==
  Done /\ status = Ok /\ ~failFast => violations = Failing(root)
===============================================================================
