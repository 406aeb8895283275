------------------------------ MODULE MCBackfill ------------------------------
(* A small history for Backfill.  Today is day 6.                           *)
EXTENDS Backfill, TLC

CONSTANTS w1, w2, o1, o2

(* Day 1 alone is over a cap of three, days 1 and 2 together must be halved, *)
(* and days 4 to 6 are one window of several pages.  Run 9 is created on    *)
(* day 6 and run 10 on day 7.                                               *)
DayOf == [r \in Run |-> CASE r \in 1 .. 4 -> 1
                          [] r \in 5 .. 6 -> 2
                          [] r = 7 -> 4
                          [] r \in 8 .. 9 -> 6
                          [] OTHER -> 7]

(* Workers are interchangeable, and so are operators.                       *)
Interchangeable == Permutations(Worker) \cup Permutations(Operator)
===============================================================================
