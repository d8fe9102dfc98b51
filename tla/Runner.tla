-------------------------------- MODULE Runner --------------------------------
(***************************************************************************)
(* TestRunner (src/buf/validate/conformance/runner.cc): each case of a     *)
(* request is unpacked and validated without failFast, and the outcome is  *)
(* classified by the code of the status.  The walk is module Validator,    *)
(* step by step; its variables are those of the Validate call under way.   *)
(*                                                                         *)
(* A case is a record [slash, known, unpacks, message]: has its type URL a *)
(* slash, does the pool know the type, do the bytes parse, and the message *)
(* they parse to.  Rules are loaded on demand, so a type that does not     *)
(* compile is the only reason for a message not to have rules.             *)
(***************************************************************************)
EXTENDS Expected

CONSTANT Requests   \* each a function from the names of its cases to cases

VARIABLES
  request,  \* request.cases()
  results,  \* response.results(): a function on the names answered so far
  running   \* the name of the case being validated, or NoCase

runnerVars == <<request, results, running, vars>>

NoCase    == "none"
NoMessage == [load |-> Ok, rules |-> <<>>, fields |-> <<>>]

TestResult(kind) == [kind |-> kind, violations |-> <<>>]
Answer(name, result) ==
  results' = [n \in DOMAIN results \cup {name} |-> IF n = name THEN result ELSE results[n]]

\* Until the first Validate there is none under way.
RunnerInit ==
  /\ request \in Requests
  /\ results = [n \in {} |-> TestResult("none")]
  /\ running = NoCase
  /\ root = NoMessage /\ failFast = FALSE /\ violations = <<>> /\ frames = <<>>
  /\ pc = "done" /\ status = Ok

\* The map of cases is visited in no particular order.
NextCase(name) == running = NoCase /\ name \in DOMAIN request \ DOMAIN results

CanRun(case) == case.slash /\ case.known /\ case.unpacks

\* Mutant of Refuse: the first such case ends the request.
RefuseTheRest(name) ==
  /\ NextCase(name) /\ ~CanRun(request[name])
  /\ Answer(name, TestResult("unexpected_error"))
  /\ running' = "left"
  /\ UNCHANGED <<request, vars>>

Refuse(name) ==
  /\ NextCase(name) /\ ~CanRun(request[name])
  /\ Answer(name, TestResult("unexpected_error"))
  /\ UNCHANGED <<request, running, vars>>

\* Mutant of RunTestCase: one RuleContext for all cases.
RunTestCaseSameContext(name) ==
  /\ NextCase(name) /\ CanRun(request[name])
  /\ running' = name
  /\ root' = request[name].message /\ failFast' = FALSE
  /\ frames' = <<Activation(request[name].message, 0)>>
  /\ pc' = "enter" /\ status' = Ok
  /\ UNCHANGED <<request, results, violations>>

\* Validate is called, with a RuleContext of its own.
RunTestCase(name) ==
  /\ NextCase(name) /\ CanRun(request[name])
  /\ running' = name
  /\ root' = request[name].message /\ failFast' = FALSE /\ violations' = <<>>
  /\ frames' = <<Activation(request[name].message, 0)>>
  /\ pc' = "enter" /\ status' = Ok
  /\ UNCHANGED <<request, results>>

\* The code of the status, without its message, or what was found.
Classify ==
  CASE status = Invalid              -> TestResult("runtime_error")
    [] status = "FailedPrecondition" -> TestResult("compilation_error")
    [] status \notin {Ok, Invalid, "FailedPrecondition"} -> TestResult("unexpected_error")
    [] status = Ok /\ violations # <<>> ->
         [kind |-> "validation_error", violations |-> Protos(violations)]
    [] status = Ok /\ violations = <<>> -> TestResult("success")

TestCaseDone ==
  /\ running # NoCase /\ pc = "done"
  /\ Answer(running, Classify)
  /\ running' = NoCase
  /\ UNCHANGED <<request, vars>>

Validating == Next /\ UNCHANGED <<request, results, running>>

RunnerNext ==
  \/ \E name \in DOMAIN request : Refuse(name) \/ RunTestCase(name)
  \/ Validating
  \/ TestCaseDone

\* One thread, which goes on as long as it can.
RunnerSpec == RunnerInit /\ [][RunnerNext]_runnerVars /\ WF_runnerVars(RunnerNext)
-------------------------------------------------------------------------------
(* Properties.                                                             *)

\* What a case deserves, from its message alone: the checks say it.
Deserved(case) ==
  LET error == FirstError(Checks[case.message]) IN
  IF ~CanRun(case) THEN TestResult("unexpected_error")
  ELSE IF error # Ok
    THEN TestResult(IF error = Invalid THEN "runtime_error"
                    ELSE IF error = "FailedPrecondition" THEN "compilation_error"
                    ELSE "unexpected_error")
  ELSE IF Failing(case.message) = <<>> THEN TestResult("success")
  ELSE [kind |-> "validation_error", violations |-> Protos(Failing(case.message))]

\* Every answer is the one its case deserves, whatever cases were run before it
\* and in whatever order: an error decides by the first check that could not be
\* made, and violations found before it are not reported; an unusable case
\* disturbs no other.
AnswersDeserved ==
  \A name \in DOMAIN results : results[name] = Deserved(request[name])

\* Every case is answered, so every walk of a message ends, unusable cases and
\* messages without rules included.
AllAnswered == <>(DOMAIN results = DOMAIN request)
===============================================================================
