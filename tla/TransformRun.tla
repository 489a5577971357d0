---------------------------- MODULE TransformRun ----------------------------
(***************************************************************************)
(* What a call of XSLTProcess may count on from template_task.c, without   *)
(* threads, queue or counter: contexts make contexts and return in any     *)
(* order, and the call returns when none of its contexts is left.          *)
(***************************************************************************)
CONSTANTS Callers, Contexts

VARIABLES
  phase,     \* "idle", "active", "returned" for each call
  pending,   \* the contexts of each call that have not returned
  finished   \* the contexts that have

vars == <<phase, pending, finished>>

Fresh(c) == c \notin finished /\ \A r \in Callers : c \notin pending[r]

Init ==
  /\ phase = [r \in Callers |-> "idle"]
  /\ pending = [r \in Callers |-> {}]
  /\ finished = {}

\* The call starts with its root context.
Begin(r, c) ==
  /\ phase[r] = "idle"
  /\ Fresh(c)
  /\ phase' = [phase EXCEPT ![r] = "active"]
  /\ pending' = [pending EXCEPT ![r] = {c}]
  /\ UNCHANGED finished

\* Only a context that is still pending makes another one for its call.
Fork(r, c, d) ==
  /\ c \in pending[r]
  /\ Fresh(d)
  /\ pending' = [pending EXCEPT ![r] = @ \cup {d}]
  /\ UNCHANGED <<phase, finished>>

Finish(r, c) ==
  /\ c \in pending[r]
  /\ pending' = [pending EXCEPT ![r] = @ \ {c}]
  /\ finished' = finished \cup {c}
  /\ UNCHANGED phase

Return(r) ==
  /\ phase[r] = "active"
  /\ pending[r] = {}
  /\ phase' = [phase EXCEPT ![r] = "returned"]
  /\ UNCHANGED <<pending, finished>>

Next ==
  \E r \in Callers :
    \/ Return(r)
    \/ \E c \in Contexts :
         \/ Begin(r, c)
         \/ Finish(r, c)
         \/ \E d \in Contexts : Fork(r, c, d)

Spec == Init /\ [][Next]_vars
=============================================================================
