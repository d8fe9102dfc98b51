------------------------------ MODULE Validator ------------------------------
(***************************************************************************)
(* Validator::Validate (src/buf/validate/validator.cc): the walk over a    *)
(* message and the messages it contains, with the compiled rules of each.  *)
(*                                                                         *)
(* A message is a record                                                   *)
(*   load    the status of its type's rules: OK, NotFound (not loaded and  *)
(*           lazy loading is off), or the error they failed to compile to  *)
(*   rules   its rule objects, in the order NewMessageRules makes them,    *)
(*           each with the part of the message it looks at (module Rules)  *)
(*   fields  the fields that are set, in field order: a record             *)
(*           [name, ignore, isMessage, elems], elems being the messages in *)
(*           it, each with the index or key it is found at (Whole for a    *)
(*           singular field)                                               *)
(* frames is the C++ stack: one activation of ValidateMessage per message  *)
(* being validated, its loop counters and the number of violations there   *)
(* were when its caller called it.                                         *)
(***************************************************************************)
EXTENDS Rules

CONSTANT Messages   \* the messages that may be validated

VARIABLES
  root,       \* the message given to Validate
  failFast,   \* ctx.failFast
  violations, \* ctx.violations
  frames,     \* activations of ValidateMessage, outermost first
  pc,         \* "enter" | "rules" | "fields" | "return" | "done"
  status      \* the status the activation on top returns

vars == <<root, failFast, violations, frames, pc, status>>

Activation(message, pos) ==
  [message |-> message, rule |-> 1, field |-> 1, elem |-> 1, pos |-> pos]

Top == frames[Len(frames)]
Advance(counters) == [frames EXCEPT ![Len(frames)] = counters]

Init ==
  /\ root \in Messages
  /\ failFast \in BOOLEAN
  /\ violations = <<>>
  /\ frames = <<Activation(root, 0)>>
  /\ pc = "enter"
  /\ status = Ok

Return(s) == pc' = "return" /\ status' = s
-----------------------------------------------------------------------------
(* ValidateMessage.                                                        *)

\* Mutant of EnterMessage: a type without rules has nothing to check.
EnterMessageLenient ==
  /\ pc = "enter"
  /\ IF Top.message.load = "NotFound" THEN Return(Ok)
     ELSE IF Top.message.load # Ok THEN Return(Top.message.load)
     ELSE pc' = "rules" /\ UNCHANGED status
  /\ UNCHANGED <<root, failFast, violations, frames>>

EnterMessage ==
  /\ pc = "enter"
  /\ IF Top.message.load # Ok THEN Return(Top.message.load)
     ELSE pc' = "rules" /\ UNCHANGED status
  /\ UNCHANGED <<root, failFast, violations, frames>>

RunRule ==
  /\ pc = "rules"
  /\ Top.rule <= Len(Top.message.rules)
  /\ \E r \in {Validate(failFast, violations, Top.message.rules[Top.rule])} :
     /\ violations' = r.vs
     /\ IF ShouldReturn(failFast, r.vs, r.status)
          THEN Return(r.status) /\ UNCHANGED frames
          ELSE /\ frames' = Advance([Top EXCEPT !.rule = @ + 1])
               /\ UNCHANGED <<pc, status>>
  /\ UNCHANGED <<root, failFast>>

RulesDone ==
  /\ pc = "rules"
  /\ Top.rule > Len(Top.message.rules)
  /\ pc' = "fields"
  /\ UNCHANGED <<root, failFast, violations, frames, status>>
-----------------------------------------------------------------------------
(* ValidateFields.                                                         *)

Field == Top.message.fields[Top.field]

\* Fields that hold no messages, and fields whose own, items' or values' ignore
\* is IGNORE_ALWAYS, are passed over.
Skipped(f) == ~f.isMessage \/ f.ignore \in {"always", "items", "values"}

NextField ==
  /\ pc = "fields"
  /\ Top.field <= Len(Top.message.fields)
  /\ Skipped(Field) \/ Top.elem > Len(Field.elems)
  /\ frames' = Advance([Top EXCEPT !.field = @ + 1, !.elem = 1])
  /\ UNCHANGED <<root, failFast, violations, pc, status>>

\* Mutants of Descend: the element is added to the violations found before too,
\* or starts after the first one found.
DescendFrom(pos) ==
  /\ pc = "fields"
  /\ Top.field <= Len(Top.message.fields)
  /\ ~Skipped(Field)
  /\ Top.elem <= Len(Field.elems)
  /\ frames' = Append(frames, Activation(Field.elems[Top.elem].message, pos))
  /\ pc' = "enter"
  /\ UNCHANGED <<root, failFast, violations, status>>
DescendFromFirst == DescendFrom(0)
DescendPastEnd == DescendFrom(Len(violations) + 1)

Descend ==
  /\ pc = "fields"
  /\ Top.field <= Len(Top.message.fields)
  /\ ~Skipped(Field)
  /\ Top.elem <= Len(Field.elems)
  /\ frames' = Append(frames, Activation(Field.elems[Top.elem].message, Len(violations)))
  /\ pc' = "enter"
  /\ UNCHANGED <<root, failFast, violations, status>>

FieldsDone ==
  /\ pc = "fields"
  /\ Top.field > Len(Top.message.fields)
  /\ Return(Ok)
  /\ UNCHANGED <<root, failFast, violations, frames>>

\* Back in the caller's ValidateFields: it adds the element the message was
\* found at to the path of the violations found in it, then goes on or returns.
Resume ==
  /\ pc = "return"
  /\ Len(frames) > 1
  /\ LET stack  == Front(frames)
         caller == Last(stack)
         f      == caller.message.fields[caller.field]
         vs     == AppendFieldPathElement(
                     violations, ItemElement(f.name, f.elems[caller.elem].at), Top.pos)
     IN  /\ violations' = vs
         /\ frames' = [stack EXCEPT ![Len(stack)].elem = @ + 1]
         /\ IF ShouldReturn(failFast, vs, status) THEN Return(status)
            ELSE pc' = "fields" /\ status' = Ok
  /\ UNCHANGED <<root, failFast>>

\* The end of Validate: the violations are a result only if the status is OK.
Finish ==
  /\ pc = "return"
  /\ Len(frames) = 1
  /\ frames' = <<>>
  /\ pc' = "done"
  /\ violations' = IF status = Ok THEN Finalize(violations) ELSE <<>>
  /\ UNCHANGED <<root, failFast, status>>

Next ==
  \/ EnterMessage \/ RunRule \/ RulesDone
  \/ NextField \/ Descend \/ FieldsDone
  \/ Resume \/ Finish

Spec == Init /\ [][Next]_vars
-----------------------------------------------------------------------------
(* Properties that the walk has whatever its rules find.                   *)

Done == pc = "done"

\* What Validate returns: "Internal" stands for every other code of an error.
Statuses == {Ok, Invalid, "NotFound", "FailedPrecondition", "Internal"}

\* Type invariant: the violations, frames and counters stay within the message
\* being walked, and the result is only there once the walk is over.
TypeOK ==
  /\ failFast \in BOOLEAN
  /\ pc \in {"enter", "rules", "fields", "return", "done"}
  /\ status \in Statuses
  /\ (frames = <<>>) <=> Done
  /\ \A i \in 1..Len(frames) :
       LET f == frames[i] IN
       /\ f.pos \in 0..Len(violations)
       /\ f.rule \in 1..(Len(f.message.rules) + 1)
       /\ f.field \in 1..(Len(f.message.fields) + 1)
       /\ i > 1 => f.pos >= frames[i - 1].pos

\* With failFast nothing more is found once there is a violation: the walk only
\* unwinds (one rule object may still report several at once).
FailFastStops ==
  [][failFast /\ violations # <<>> => Len(violations') <= Len(violations)]_vars

\* The path element that the caller of frame j adds.
FrameElement(j) ==
  LET caller == frames[j - 1] f == caller.message.fields[caller.field]
  IN  ItemElement(f.name, f.elems[caller.elem].at)

\* A violation that has been found is never lost or moved before the walk ends,
\* and nothing of it changes but for the path elements its callers add: a rule
\* touches only those it found itself.
ViolationsKept ==
  [][~Done /\ ~Done' => \A i \in 1..Len(violations) :
       /\ i <= Len(violations')
       /\ \/ violations'[i] = violations[i]
          \/ /\ pc = "return"
             /\ violations'[i] = [violations[i] EXCEPT
                                    !.field = Append(@, FrameElement(Len(frames)))]]_vars
==============================================================================
