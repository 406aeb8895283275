-------------------------------- MODULE MCFacts --------------------------------
(* Small histories for Facts.                                               *)
EXTENDS Facts, TLC

CONSTANTS w1, w2

(* Run 1 fails, is cancelled on its second attempt and passes on its third; *)
(* run 2 has the same workflow and commit and times out; run 3 belongs to   *)
(* another workflow, loses its runner and then passes.                      *)
Runs        == 1 .. 3
Jobs        == 1 .. 6
RunOfJob    == <<1, 1, 1, 2, 3, 3>>
AttemptOfJob == <<1, 2, 3, 1, 1, 2>>
Endings     == <<"failure", "cancelled", "success", "timed_out", "dead_runner", "success">>
Workflows   == <<"ci", "ci", "lint">>
Shas        == <<"a", "a", "a">>

P(kind, r, n, s) == [kind |-> kind, run |-> r, attempt |-> n, status |-> s]

(* Run 1 and run 3 are delivered live, run 2 comes from history.            *)
Deliveries ==
  {P("job", 1, 1, "completed"), P("job", 1, 2, "completed"),
   P("job", 1, 3, "in_progress"), P("job", 1, 3, "completed"),
   P("run", 1, 1, "queued"),
   P("job", 3, 1, "completed"), P("job", 3, 2, "completed"),
   P("run", 3, 2, "in_progress"),
   P("page", 2, 1, "completed"), P("jobs", 2, 1, "completed")}

(* A run of two attempts crawled by two workers.                            *)
Crawl == {P("page", 1, 3, "completed"), P("jobs", 1, 1, "completed"),
          P("jobs", 1, 2, "completed"), P("jobs", 1, 3, "completed")}

Symmetry == Permutations(Worker)
===============================================================================
