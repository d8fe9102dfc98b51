---------------------------- MODULE SealedFactory ----------------------------
(***************************************************************************)
(* ValidatorFactory used in two phases, the way that makes lookups cheap   *)
(* and predictable: configure it, Add every message type (from any number  *)
(* of threads), then DisableLazyLoading, then validate from any number of  *)
(* threads.  Nothing here is code of its own: it restricts WHEN the calls  *)
(* of ValidatorFactory are made, and every step of a call is that of       *)
(* ValidatorFactory.                                                       *)
(***************************************************************************)
EXTENDS ValidatorFactory

Quiet == \A t \in Threads : pc[t] = "idle"
Empty == \A d \in Types : rules[d] = "absent"

SealedNext ==
  \E t \in Threads :
    \/ Step(t)
    \/ \E d \in Types : ~lazyDisabled /\ CallAdd(t, d)
    \/ \E d \in Types : lazyDisabled /\ CallValidate(t, d)
    \/ Quiet /\ DisableLazyLoading(t, TRUE)
    \/ Quiet /\ Empty /\ \E b \in BOOLEAN : SetAllowUnknownFields(t, b)
    \/ Quiet /\ Empty /\ SetMessageFactory(t)

SealedSpec == Init /\ [][SealedNext]_vars
FairSealedSpec == SealedSpec /\ Fairness

\* Every cached verdict is the one the current configuration gives: nothing
\* compiled under an older setting is left behind.
EntriesMatchConfig ==
  \A d \in Types : rules[d] # "absent" => rules[d] = Compile[config][d]

\* A thread is still inside an Add that has the i-th field of d ahead of it, or
\* is adding that field's type right now: the loop over the fields of some
\* activation of d on its stack has not got past field i.
StillAdding(t, d, i) ==
  pc[t] \in AddPCs /\ \E k \in 1..Len(frames[t]) :
    LET f == frames[t][k]
        returns == k < Len(frames[t])   \* it waits for its callee
    IN  /\ f.desc = d
        /\ returns \/ pc[t] = "add_next"
        /\ f.next <= i \/ (returns /\ f.next = i + 1)

\* What an interrupted traversal of a shared or cyclic type graph owes: a type
\* that is already in the cache may have fields that are not, but then some
\* thread is still going to add them, though another one found the type loaded
\* and returned OK for it (unless some type failed to compile).
FieldsLoadedOrPending ==
  (\A d \in Types : rules[d] # "error") =>
    \A d \in Types : rules[d] = "ok" =>
      \A i \in 1..Len(Fields[d]) :
        rules[Fields[d][i]] = "ok" \/ \E t \in Threads : StillAdding(t, d, i)

\* Once the Adds have returned, the loaded types are closed under "has a field
\* of type", whatever the order in which concurrent Adds met shared and cyclic
\* types, unless some type failed to compile.
LoadedClosed ==
  (/\ \A t \in Threads : pc[t] \notin AddPCs
   /\ \A d \in Types : rules[d] # "error")
     => \A d \in Types : rules[d] = "ok" =>
          \A i \in 1..Len(Fields[d]) : rules[Fields[d][i]] = "ok"

\* A message of type e can be in a field that type d declares, as the field's
\* own type or as the value of its map entries.
Declares(d, e) ==
  LET DeclaredIn(m) == {Fields[m][i] : i \in 1..Len(Fields[m])}
  IN  e \in DeclaredIn(d) \/ \E m \in DeclaredIn(d) : e \in DeclaredIn(m)

\* The fields Add follows are not the ones validation follows: a NotFound is
\* for the type of the message given to Validate, or for that of an extension
\* field set in a message of a loaded type, unless some Add failed.  A type
\* that a loaded type declares a field of, or a map of, is never missing.
NotFoundOnlyForUndeclared ==
  [][\A t \in Threads :
       (pc[t] = "get_rfind" /\ reply'[t] = "notfound" /\ Len(frames[t]) > 1)
         => \/ ~Declares(frames[t][Len(frames[t]) - 1].desc, Desc(t))
            \/ \E d \in Types : rules[d] = "error"]_vars

==============================================================================
