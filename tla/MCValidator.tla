----------------------------- MODULE MCValidator -----------------------------
(* Messages for TLC to validate: every combination of a few rule objects and *)
(* outcomes in one message, and trees of messages three deep; and requests   *)
(* for the runner: any two cases, of messages that are valid, invalid or have *)
(* a check that cannot be made, at the top or below it.                      *)
EXTENDS Runner, TLC

\* Expressions: the i-th of a rule object comes from a rule field if std.
Expr(id, std, outcome) ==
  [id |-> id, outcome |-> outcome,
   path |-> IF std THEN <<id, "string">> ELSE <<id>>,
   field |-> IF std THEN id ELSE NoField]

Exprs(prefix, outcomes) ==
  [i \in 1..Len(outcomes) |->
     Expr(prefix \o ToString(i), i = 1, outcomes[i])]

\* Evaluate itself may fail with a status of its own, here Internal.
One(prefix)  == {Exprs(prefix, <<o>>) : o \in {"pass", "fail", "error"}}
Some(prefix) == One(prefix) \cup
  {Exprs(prefix, os) : os \in {<<"fail", "fail">>, <<"pass", "fail">>, <<"fail", "error">>,
                               <<"fail", "Internal">>}}

Anys == {NoAny, [missing |-> TRUE, blocked |-> FALSE], [missing |-> TRUE, blocked |-> TRUE]}

MessageRules(m) ==
  [kind : {"message"}, exprs : {[i \in DOMAIN e |-> [e[i] EXCEPT !.path = <<>>, !.field = NoField]]
                                  : e \in Some("msg")}]

FieldRules(m) ==
  [kind : {"field"}, label : {"one", "list"}, msg : {m}, field : {"f"},
   present : BOOLEAN, ignoreEmpty : BOOLEAN, required : BOOLEAN, any : Anys,
   read : {Ok}, exprs : Some("f")]
  \cup
  [kind : {"field"}, label : {"one"}, msg : {m}, field : {"f"},
   present : BOOLEAN, ignoreEmpty : BOOLEAN, required : BOOLEAN, any : Anys,
   read : {"Internal"}, exprs : One("f")]

EnumRules(m) ==
  [kind : {"enum"}, label : {"one"},
   msg : {m}, field : {"e"}, present : {TRUE}, ignoreEmpty : BOOLEAN,
   required : {FALSE}, any : {NoAny}, read : {Ok, "Internal"}, exprs : Some("e"),
   definedOnly : BOOLEAN, defined : BOOLEAN]

\* Values of items, keys and map values.
Value(es, empty) == [empty |-> empty, exprs |-> es, any |-> NoAny]
Values(prefix) ==
  {Value(es, FALSE) : es \in Some(prefix)} \cup {Value(Exprs(prefix, <<"fail">>), TRUE)}

RepeatedOf(m, items, haveAny) ==
  UNION {[kind : {"repeated"}, label : {"list"},
          msg : {m}, field : {"r"}, present : {Len(s) > 0},
          ignoreEmpty : BOOLEAN, required : BOOLEAN, any : {NoAny}, exprs : One("r"),
          hasItemRules : {TRUE}, itemsHaveAny : {haveAny}, ignoreEmptyItems : BOOLEAN,
          items : {s}]
         : s \in {<<>>} \cup {<<a, b>> : a, b \in items}}

\* Items of type Any whose expressions come out without an error.
AnyItems ==
  {[v EXCEPT !.any = a] : a \in Anys,
     v \in {Value(Exprs("item", os), FALSE) : os \in {<<"pass">>, <<"fail">>, <<"fail", "fail">>}}}

\* ... and with one.
ErrorItems == {[v EXCEPT !.exprs = Exprs("item", <<"error">>)] : v \in AnyItems}

RepeatedRules(m) ==
  RepeatedOf(m, Values("item"), FALSE) \cup RepeatedOf(m, AnyItems, TRUE)
  \cup {[kind |-> "repeated", label |-> "list",
         msg |-> m, field |-> "r", present |-> TRUE,
         ignoreEmpty |-> FALSE, required |-> FALSE, any |-> NoAny,
         exprs |-> Exprs("r", <<"fail">>), hasItemRules |-> FALSE, itemsHaveAny |-> FALSE,
         ignoreEmptyItems |-> FALSE, items |-> <<Value(<<>>, FALSE)>>]}

Entries(names) ==
  {[i \in 1..Len(names) |-> [name |-> names[i], key |-> k[i], value |-> v[i]]]
     : k \in [1..Len(names) -> {Value(Exprs("key", os), FALSE) :
                 os \in {<<"pass">>, <<"fail">>, <<"error">>}} \cup
                {Value(Exprs("key", <<"fail">>), TRUE)}],
       v \in [1..Len(names) -> {Value(Exprs("val", os), FALSE) :
                 os \in {<<"pass">>, <<"fail">>, <<"fail", "error">>}} \cup
                {Value(Exprs("val", <<"fail">>), TRUE)}]}

MapRules(m) ==
  UNION {[kind : {"map"}, label : {"map"},
          msg : {m}, field : {"p"}, present : {Len(s) > 0},
          ignoreEmpty : {FALSE}, required : BOOLEAN, any : {NoAny},
          exprs : {Exprs("p", <<o>>) : o \in {"pass", "fail"}},
          keys : {Ok}, hasKeyRules : BOOLEAN, hasValueRules : BOOLEAN,
          ignoreEmptyKeys : {TRUE}, ignoreEmptyValues : {TRUE}, entries : {s}]
         : s \in {<<>>} \cup Entries(<<1, 2>>)}

\* Maps whose keys cannot be listed, and maps that go on to an entry after a
\* violation of their own.
BrokenMapRules(m) ==
  UNION {[kind : {"map"}, label : {"map"},
          msg : {m}, field : {"p"}, present : {TRUE},
          ignoreEmpty : {FALSE}, required : {FALSE}, any : {NoAny},
          exprs : {Exprs("p", os) : os \in {<<"pass">>, <<"fail">>, <<"fail", "Internal">>}},
          keys : {Ok, "Internal"}, hasKeyRules : BOOLEAN, hasValueRules : BOOLEAN,
          ignoreEmptyKeys : {FALSE}, ignoreEmptyValues : {FALSE}, entries : {s}]
         : s \in Entries(<<1>>)}

OneofRules(m) ==
  [kind : {"oneof"}, field : {"o"}, required : BOOLEAN, present : BOOLEAN]
MessageOneofRules(m) ==
  [kind : {"message_oneof"}, required : BOOLEAN, hasCount : 0..2]

Message(load, rules, fields) == [load |-> load, rules |-> rules, fields |-> fields]
Flat(rules) == Message(Ok, rules, <<>>)

\* One message with one rule object of any kind and outcome.
SingleRules ==
  {Flat(<<r>>) : r \in MessageRules("m") \cup FieldRules("m") \cup EnumRules("m")
                       \cup RepeatedRules("m") \cup MapRules("m") \cup BrokenMapRules("m")
                       \cup OneofRules("m") \cup MessageOneofRules("m")}

\* One message with two rule objects, one of each kind.
FieldRule(m, o) ==
  [kind |-> "field", label |-> "one",
   msg |-> m, field |-> "f", present |-> TRUE, ignoreEmpty |-> FALSE,
   required |-> FALSE, any |-> NoAny, read |-> Ok, exprs |-> Exprs("f", <<o>>)]
MapRule(m, base, key) ==
  [kind |-> "map", label |-> "map",
   msg |-> m, field |-> "p", present |-> TRUE, ignoreEmpty |-> FALSE,
   required |-> FALSE, any |-> NoAny, exprs |-> Exprs("p", <<base>>),
   keys |-> Ok, hasKeyRules |-> TRUE, hasValueRules |-> TRUE,
   ignoreEmptyKeys |-> FALSE, ignoreEmptyValues |-> FALSE,
   entries |-> <<[name |-> 1, key |-> Value(Exprs("key", <<key, "fail">>), FALSE),
                  value |-> Value(Exprs("val", <<"fail", "fail">>), FALSE)]>>]
ListRule(m, o) ==
  [kind |-> "repeated", label |-> "list",
   msg |-> m, field |-> "r", present |-> TRUE, ignoreEmpty |-> FALSE,
   required |-> FALSE, any |-> NoAny, exprs |-> Exprs("r", <<"pass">>),
   hasItemRules |-> TRUE, itemsHaveAny |-> FALSE, ignoreEmptyItems |-> FALSE,
   items |-> <<Value(Exprs("item", <<"pass">>), FALSE), Value(Exprs("item", <<o, "fail">>), FALSE)>>]
SomeRules(m) ==
  {FieldRule(m, o) : o \in {"pass", "fail", "error"}}
  \cup {MapRule(m, b, k) : b, k \in {"pass", "fail"}}
  \cup {ListRule(m, o) : o \in {"pass", "fail", "error"}}
  \cup {[kind |-> "message_oneof", required |-> FALSE, hasCount |-> 2],
        [kind |-> "oneof", field |-> "o", required |-> TRUE, present |-> FALSE]}
RulePairs == {Flat(<<a, b>>) : a, b \in SomeRules("m")}

\* Trees: a root, two messages in a list and one in a map or a singular field,
\* and messages in those.
Elem(at, m) == [at |-> at, message |-> m]
SetField(name, ignore, elems) ==
  [name |-> name, ignore |-> ignore, isMessage |-> TRUE, elems |-> elems]

Leaves(m) ==
  {Flat(<<>>), Flat(<<FieldRule(m, "fail")>>), Flat(<<FieldRule(m, "error")>>),
   Message("NotFound", <<>>, <<>>)}

Inner(m) ==
  Leaves(m) \cup
  {Message(Ok, rs, <<SetField("s", "none", <<Elem(Whole, l)>>)>>)
     : rs \in {<<>>, <<FieldRule(m, "fail")>>},
       l \in {Flat(<<FieldRule(m \o ".s", "fail")>>), Message("FailedPrecondition", <<>>, <<>>)}}

Trees ==
  {Message(Ok, rs,
     << SetField("list", ig, <<Elem(<<1>>, a), Elem(<<2>>, b)>>),
        [SetField("scalars", "none", <<>>) EXCEPT !.isMessage = FALSE],
        SetField("map", "none", <<Elem(<<7>>, c)>>) >>)
     : rs \in {<<>>, <<FieldRule("root", "fail")>>},
       ig \in {"none", "always", "items", "values"},
       a \in Inner("a"), b \in Inner("b"), c \in Leaves("c")}

Within(S) ==
  UNION {UNION {{m.fields[i].elems[e].message : e \in 1..Len(m.fields[i].elems)}
                  : i \in 1..Len(m.fields)} : m \in S}
DirectMessages ==
  SingleRules \cup RulePairs \cup Trees \cup Within(Trees) \cup Within(Within(Trees))
\* Lists of Any with rules on the items, and an item whose expression errs.
MCAnyItems == {Flat(<<r>>) : r \in RepeatedOf("m", ErrorItems, TRUE)}
MCMaps == {Flat(<<r>>) : r \in MapRules("m")}
-----------------------------------------------------------------------------
\* For the runner: a check that fails with each class of code, when it is made or
\* because the type's rules do not compile.
CaseLeaves(m) ==
  {Flat(<<FieldRule(m, o)>>) : o \in {"pass", "fail", "error", "FailedPrecondition"}}
  \cup {Flat(<<[FieldRule(m, "fail") EXCEPT !.read = "Internal"]>>)}
  \cup {Message(s, <<>>, <<>>) : s \in {Invalid, "FailedPrecondition", "Internal"}}

CaseTrees(m) ==
  {Message(Ok, <<FieldRule(m, o)>>,
           <<SetField("l", "none", <<Elem(<<1>>, a), Elem(<<2>>, b)>>)>>) :
     o \in {"pass", "fail"}, a \in CaseLeaves("a"), b \in CaseLeaves("b")}
  \cup {Message(Ok, <<>>, <<SetField("l", "always", <<Elem(<<1>>, a), Elem(<<2>>, a)>>),
                         SetField("s", "none", <<Elem(Whole, b)>>)>>) :
          a \in CaseLeaves("a"), b \in CaseLeaves("b")}

Case(slash, known, unpacks, message) ==
  [slash |-> slash, known |-> known, unpacks |-> unpacks, message |-> message]
Usable(messages) == {Case(TRUE, TRUE, TRUE, m) : m \in messages}
Unusable ==
  {Case(FALSE, FALSE, FALSE, NoMessage), Case(TRUE, FALSE, FALSE, NoMessage),
   Case(TRUE, TRUE, FALSE, NoMessage)}

\* Of two cases, one is small.
MCRequests ==
  {[one |-> a, two |-> b] :
     a \in Unusable \cup Usable(CaseLeaves("m")),
     b \in Unusable \cup Usable(CaseLeaves("m") \cup CaseTrees("m"))}

MCNoRequests == {}

MCMessages ==
  DirectMessages \cup CaseTrees("m") \cup CaseLeaves("m") \cup CaseLeaves("a") \cup CaseLeaves("b")

NoRequest == [n \in {} |-> NoMessage]

\* An application calls Validate, once, with or without failFast; or the runner
\* answers a request.
ApplicationInit ==
  /\ Init
  /\ request = NoRequest
  /\ results = [n \in {} |-> TestResult("none")]
  /\ running = NoCase

\* The runner is as fair as in RunnerSpec; of an application's call only safety is
\* checked.
MCInit == ApplicationInit \/ RunnerInit
MCSpec ==
  /\ MCInit
  /\ [][RunnerNext]_runnerVars
  /\ WF_runnerVars(request # NoRequest /\ RunnerNext)
==============================================================================
