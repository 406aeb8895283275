------------------------------- MODULE WorkList -------------------------------
(***************************************************************************)
(* What the event queue promises to those who enqueue: a row that was      *)
(* handed over is owed until its work is applied, exactly once, or until   *)
(* it is given up for good with nothing applied.  The work of a partial    *)
(* row is applied in parts while the row is owed: it is done only after    *)
(* one, and what was applied stays when it is given up.  Who claims a row, *)
(* how often it is attempted and which worker dies on the way cannot be    *)
(* seen here.  EventQueue implements this specification.                   *)
(***************************************************************************)
EXTENDS Naturals

CONSTANTS Row,        \* the rows of event_queue
          Partial     \* rows whose work commits apart from their outcome

VARIABLES stage,      \* stage[r]: how far the work of r has come
          effects     \* effects[r]: how often the work of r was committed

vars == <<stage, effects>>

Stage == {"absent", "owed", "done", "dead"}

Init == /\ stage = [r \in Row |-> "absent"]
        /\ effects = [r \in Row |-> 0]

(* One transaction may hand over several rows at once.                      *)
Submit(S) == /\ S # {}
             /\ \A r \in S : stage[r] = "absent"
             /\ stage' = [r \in Row |-> IF r \in S THEN "owed" ELSE stage[r]]
             /\ UNCHANGED effects

Part(r) == /\ r \in Partial
           /\ stage[r] = "owed"
           /\ effects' = [effects EXCEPT ![r] = @ + 1]
           /\ UNCHANGED stage

Finish(r) == /\ stage[r] = "owed"
             /\ stage' = [stage EXCEPT ![r] = "done"]
             /\ \/ /\ r \notin Partial
                   /\ effects' = [effects EXCEPT ![r] = @ + 1]
                \/ /\ r \in Partial
                   /\ effects[r] > 0
                   /\ UNCHANGED effects

(* One pass may give up several rows at once. *)
Abandon(S) == /\ S # {}
              /\ \A r \in S : stage[r] = "owed"
              /\ stage' = [r \in Row |-> IF r \in S THEN "dead" ELSE stage[r]]
              /\ UNCHANGED effects

Next == \/ \E r \in Row : Part(r) \/ Finish(r)
        \/ \E S \in SUBSET Row : Submit(S) \/ Abandon(S)

Settle(r) == Finish(r) \/ \E S \in SUBSET Row : r \in S /\ Abandon(S)

Safety == Init /\ [][Next]_vars

Spec == Safety /\ \A r \in Row : WF_vars(Settle(r))
===============================================================================
