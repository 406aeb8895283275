------------------------------- MODULE MCRollup -------------------------------
(* Jobs of one name around a midnight: a failure that may prove a flake     *)
(* later, and a run of the next day.                                        *)
EXTENDS Rollup, TLC

CONSTANTS w1, c1, r1, r2

J(r, run, day, verdict) ==
  [repo |-> r, run |-> run, name |-> "test", day |-> day, workflow |-> "ci",
   verdict |-> verdict]

Jobs == {J(r1, 1, 0, "failure"), J(r1, 1, 1, "skipped")}

(* Larger histories, for runs of several minutes.                           *)
ThreeJobs == {J(r1, 1, 0, "failure"), J(r1, 2, 1, "success"), J(r1, 2, 1, "skipped")}

TwoRepos == {J(r1, 1, 0, "failure"), J(r2, 2, 1, "success")}
===============================================================================
