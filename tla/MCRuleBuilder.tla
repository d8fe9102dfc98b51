---------------------------- MODULE MCRuleBuilder ----------------------------
(* Message types for TLC to compile: one field of every shape with rules of *)
(* every kind, nested levels, and two fields with oneofs over them.         *)
EXTENDS CompiledRules

Good(id) == [id |-> id, status |-> Ok]
Wrong(id) == [id |-> id, status |-> Invalid]

RuleField(name, e) == [name |-> name, cel |-> <<e>>]

Plain(e) == [set |-> <<RuleField("rule", e)>>, unknown |-> FALSE, reparses |-> FALSE,
             more |-> <<>>, stillUnknown |-> FALSE]
Extended(reparses, still) ==
  [set |-> <<RuleField("rule", Good("std"))>>, unknown |-> TRUE, reparses |-> reparses,
   more |-> <<RuleField("[ext]", Good("ext"))>>, stillUnknown |-> still]
TypedRules == {Plain(Good("std")), Plain(Wrong("std")), Extended(FALSE, FALSE),
               Extended(TRUE, FALSE), Extended(TRUE, TRUE)}

Lvl(ignore, kind, typed, celExpression, cel, parts) ==
  [ignore |-> ignore, required |-> FALSE, kind |-> kind, typed |-> typed,
   definedOnly |-> kind = "enum", celExpression |-> celExpression, cel |-> cel,
   parts |-> parts]

FieldOf(name, type, label, presence, inMapEntry, entry, lvl) ==
  [name |-> name, type |-> type, label |-> label, presence |-> presence,
   inMapEntry |-> inMapEntry, entry |-> entry, rules |-> lvl]

\* key and value of a map from strings
Entry(type) == << FieldOf("key", "string", "one", FALSE, TRUE, <<>>, NoRules),
                  FieldOf("value", type, "one", type # "enum", TRUE, <<>>, NoRules) >>

FieldsWith(name, lvl) ==
  { FieldOf(name, "string", "one", FALSE, FALSE, <<>>, lvl),
    FieldOf(name, "string", "one", TRUE, FALSE, <<>>, lvl),
    FieldOf(name, "StringValue", "one", TRUE, FALSE, <<>>, lvl),
    FieldOf(name, "enum", "one", FALSE, FALSE, <<>>, lvl),
    FieldOf(name, "Duration", "one", TRUE, FALSE, <<>>, lvl),
    FieldOf(name, "string", "list", FALSE, FALSE, <<>>, lvl),
    FieldOf(name, "enum", "list", FALSE, FALSE, <<>>, lvl),
    FieldOf(name, "Any", "one", TRUE, FALSE, <<>>, lvl),
    FieldOf(name, "Any", "list", FALSE, FALSE, <<>>, lvl),
    FieldOf(name, "entry", "map", FALSE, FALSE, Entry("Duration"), lvl) }

Kinds == {"none", "string", "enum", "duration", "any", "sint32"}
Ignores == {"unset", "if_zero_value", "always"}

Leaf == {Lvl(ig, k, t, e[1], e[2], <<>>) : ig \in Ignores, k \in Kinds, t \in TypedRules,
         e \in {<<<<>>, <<>>>>, <<<<Good("ce")>>, <<Good("c1"), Wrong("c2")>>>>,
                <<<<Good("ce")>>, <<Good("c1")>>>>}}

Inner(kind) ==
  {Lvl(ig, k, t, <<>>, c, <<>>) : ig \in {"unset", "always"}, k \in {"none", kind},
     t \in {Plain(Wrong("in")), Extended(TRUE, FALSE), Extended(FALSE, FALSE)}, c \in {<<>>, <<Good("inner")>>}}

InnerGood(kind) == {Lvl(ig, kind, Plain(Good("in")), <<>>, <<Good("inner")>>, <<>>) : ig \in Ignores}

ListLvl == {Lvl(ig, "repeated", t, <<>>, <<Good("c1")>>, p) : ig \in Ignores,
            t \in TypedRules,
            p \in {<<>>} \cup {<<i>> : i \in Inner("string") \cup InnerGood("any") \cup InnerGood("enum")}}
\* Rules of items within rules of items, of which only the outer ones run.
NestedLvl == {Lvl("unset", "repeated", Plain(Good("std")), <<>>, <<>>,
                  <<Lvl("unset", "repeated", Plain(Good("mid")), <<>>, <<Good("c2")>>, <<i>>)>>)
              : i \in InnerGood("string")}
MapLvl  == {Lvl(ig, "map", t, <<>>, <<Good("c1")>>, <<k, v>>) : ig \in {"unset", "always"},
            t \in {Plain(Good("std")), Extended(TRUE, TRUE)},
            k \in {i \in Inner("string") : i.cel # <<>>}, v \in Inner("duration")}
PartsLvl(kind) == {Lvl("unset", "map", Plain(Good("std")), <<>>, <<>>, <<k, v>>) :
                     k \in InnerGood("string"), v \in InnerGood(kind)}
RequiredLvl == {[Lvl(ig, k, Plain(Good("std")), <<>>, <<Good("c1")>>, <<>>) EXCEPT !.required = TRUE] :
                  ig \in Ignores, k \in {"none", "string", "enum", "any", "repeated"}}

Desc(message, fields, oneofs) == [message |-> message, fields |-> fields, oneofs |-> oneofs]

MapOf(type, lvl) == FieldOf("a", "entry", "map", FALSE, FALSE, Entry(type), lvl)

OneField == UNION {{Desc(NoMessage, <<f>>, <<>>) : f \in FieldsWith("a", lvl)} :
                     lvl \in Leaf \cup RequiredLvl}
            \cup {Desc(NoMessage, <<f>>, <<>>) :
                    f \in UNION {{g \in FieldsWith("a", lvl) : g.label # "one" \/ g.type = "enum"}
                                   : lvl \in ListLvl \cup NestedLvl}}
            \cup {Desc(NoMessage, <<MapOf("Duration", lvl)>>, <<>>) : lvl \in MapLvl}
            \cup UNION {{Desc(NoMessage, <<MapOf(type, lvl)>>, <<>>) :
                            type \in {"Any", "enum"}, lvl \in PartsLvl("any") \cup PartsLvl("enum")}}

\* Two fields and oneofs that name them.
SmallLvl == {Lvl(ig, "string", Plain(Good("std")), <<>>, <<>>, <<>>) : ig \in Ignores}
            \cup {Lvl("unset", "string", Plain(Wrong("std")), <<>>, <<>>, <<>>), NoRules}
Scalar(name, lvl) == FieldOf(name, "string", "one", FALSE, FALSE, <<>>, lvl)
OneofRule(names) == [fields |-> names, required |-> TRUE]
MessageOf(e, c, os) == [celExpression |-> e, cel |-> c, oneof |-> os]

OneofLists == {<<>>, <<"a">>, <<"b">>, <<"a", "b">>, <<"a", "a">>, <<"a", "x">>}
Messages ==
  {NoMessage} \cup
  {MessageOf(e, <<Good("m2")>>, <<OneofRule(x)>>) :
     e \in {<<>>, <<Wrong("m1")>>}, x \in {<<"a">>, <<"x">>}}
  \cup {MessageOf(<<Good("m1")>>, <<Good("m2")>>, <<OneofRule(x), OneofRule(y)>>)
          : x, y \in OneofLists}
TwoFields ==
  {Desc(m, <<Scalar("a", x), Scalar("b", y)>>, <<NoOneof, [name |-> "o", required |-> TRUE]>>)
     : m \in Messages, x, y \in SmallLvl}

MCDescriptors == OneField \cup TwoFields

==============================================================================
