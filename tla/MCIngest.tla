------------------------------- MODULE MCIngest -------------------------------
(* Ingest with two deliveries, two concurrent requests and four rows.      *)
EXTENDS Ingest

CONSTANTS d1, d2, q1, q2
===============================================================================
