---------------------------- MODULE RevisionLog ----------------------------
(***************************************************************************)
(* What runtime_revisions promises, without callers, statements or locks:  *)
(* configurations are appended to a log that is never rewritten, and an    *)
(* apply points at an entry of the log.  It is not promised that applies   *)
(* move the pointer forwards: a slow one may move it back.                 *)
(***************************************************************************)
EXTENDS Naturals

CONSTANTS
  Config,  \* what a revision may hold
  Number   \* what a revision may be numbered

VARIABLES
  log,     \* the revisions, numbered from 1
  applied  \* the revision in force, 0 before the first apply

logVars == <<log, applied>>

Init ==
  /\ log = [v \in {} |-> {}]
  /\ applied = 0

\* Configuration c becomes revision v.
Append(v, c) ==
  /\ DOMAIN log = 1 .. (v - 1)
  /\ log' = [w \in 1..v |-> IF w = v THEN c ELSE log[w]]
  /\ UNCHANGED applied

Apply(v) ==
  /\ v \in DOMAIN log
  /\ applied' = v
  /\ UNCHANGED log

Next == \E v \in Number : Apply(v) \/ \E c \in Config : Append(v, c)

Spec == Init /\ [][Next]_logVars
=============================================================================
