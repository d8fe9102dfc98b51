------------------------------ MODULE RuleCache ------------------------------
(***************************************************************************)
(* What a ValidatorFactory promises the calls that share it, without its   *)
(* mutex, its recursion or its hash table.                                 *)
(*                                                                         *)
(* The cache holds at most one verdict per message type: the one its rules *)
(* compiled to, "ok" or "error", under the configuration in force when     *)
(* they were compiled.  A verdict is never changed or dropped.  A call     *)
(* answers "error" only for a verdict that is cached, and "notfound" only  *)
(* while lazy loading is off and a type is missing.                        *)
(***************************************************************************)
CONSTANTS Threads,   \* threads that call the factory and its validators
          Types,     \* message types (descriptors)
          Compile    \* [configuration -> [Types -> {"ok", "error"}]]

VARIABLES cache,     \* [Types -> {"absent", "ok", "error"}]
          lazyOff,   \* is lazy loading disabled?
          config,    \* the configuration rules are compiled under
          busy,      \* [Threads -> {"idle", "add", "validate"}]
          reply      \* [Threads -> what the last call returned]

vars == <<cache, lazyOff, config, busy, reply>>

Init ==
  /\ cache = [d \in Types |-> "absent"]
  /\ lazyOff = FALSE
  /\ config \in DOMAIN Compile
  /\ busy = [t \in Threads |-> "idle"]
  /\ reply = [t \in Threads |-> "none"]

Start(t, call) ==
  /\ busy[t] = "idle"
  /\ busy' = [busy EXCEPT ![t] = call]
  /\ reply' = [reply EXCEPT ![t] = "none"]
  /\ UNCHANGED <<cache, lazyOff, config>>

\* Compile a type that has no verdict yet and keep the verdict.
Store(d) ==
  /\ cache[d] = "absent"
  /\ cache' = [cache EXCEPT ![d] = Compile[config][d]]

Load(t, d) ==
  /\ busy[t] # "idle"
  /\ Store(d)
  /\ UNCHANGED <<lazyOff, config, busy, reply>>

\* Some type has a verdict v, after the step that returns it.
Cached(v) == \E d \in Types : cache'[d] = v

Finish(t, r) ==
  /\ busy[t] # "idle"
  /\ busy' = [busy EXCEPT ![t] = "idle"]
  /\ reply' = [reply EXCEPT ![t] = r]
  /\ UNCHANGED cache \/ \E d \in Types : Store(d)
  /\ \/ r = "ok" /\ Cached("ok")
     \/ r = "error" /\ Cached("error")
     \/ r = "notfound" /\ busy[t] = "validate" /\ lazyOff /\ Cached("absent")
     \/ r = "stopped" /\ busy[t] = "validate" /\ Cached("ok")
  /\ UNCHANGED <<lazyOff, config>>

SetLazy(off) ==
  /\ lazyOff' = off
  /\ UNCHANGED <<cache, config, busy, reply>>

Configure(c) ==
  /\ config' = c
  /\ UNCHANGED <<cache, lazyOff, busy, reply>>

Next ==
  \/ \E t \in Threads :
       \/ \E call \in {"add", "validate"} : Start(t, call)
       \/ \E d \in Types : Load(t, d)
       \/ \E r \in {"ok", "error", "notfound", "stopped"} : Finish(t, r)
  \/ \E off \in BOOLEAN : SetLazy(off)
  \/ \E c \in DOMAIN Compile : Configure(c)

Spec == Init /\ [][Next]_vars
==============================================================================
