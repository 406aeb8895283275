-------------------------------- MODULE Ingest --------------------------------
(***************************************************************************)
(* Deliveries on their way to the queue: receive_github_webhook in         *)
(* backend/app/routes/webhooks.py, record_delivery in backend/app/ingest.py *)
(* and enqueue_reevaluation in backend/app/reevaluate.py, above the queue  *)
(* that WorkList promises.                                                 *)
(*                                                                         *)
(* GitHub sends a delivery as often as it likes, also while an earlier     *)
(* request for the same delivery is still being answered.  The two inserts *)
(* of a request stay invisible until it commits; meanwhile the primary key *)
(* of webhook_deliveries makes an insert of the same id wait.              *)
(***************************************************************************)
EXTENDS Naturals, FiniteSets

CONSTANTS Delivery,    \* X-GitHub-Delivery ids
          Request,     \* requests that the API serves at one time
          RowLimit,    \* bound: rows of event_queue there may be
          None

ASSUME ConstantsAssumption ==
  /\ IsFiniteSet(Request)
  /\ None \notin Delivery \cup {"webhook", "reevaluate"}
  /\ RowLimit \in Nat

Row == 1 .. RowLimit   \* event_queue.id

VARIABLES deliveries,  \* webhook_deliveries
          content,     \* content[i]: job_type and delivery of queue row i
          stage,       \* the queue, as WorkList has it
          effects,
          request,     \* request[q]: what q serves and how far it is
          accepted     \* history: how many requests were told "queued" (up to 2)

queue == <<stage, effects>>
vars  == <<deliveries, content, queue, request, accepted>>

(* None of these rows is a discover_band: all are applied with their outcome. *)
Queue == INSTANCE WorkList WITH Partial <- {}

Free == [delivery |-> None, at |-> "free"]

Empty == [job |-> None, delivery |-> None]

Unused == {i \in Row : content[i] = Empty}

(* The id an INSERT draws; which of the unused ones it is is immaterial.    *)
FreshRow == CHOOSE i \in Unused : TRUE

TypeOK ==
  /\ deliveries \subseteq Delivery
  /\ content \in [Row -> {Empty} \cup [job : {"webhook", "reevaluate"},
                                       delivery : Delivery]]
  /\ stage \in [Row -> Queue!Stage]
  /\ \A i \in Row : content[i] = Empty <=> stage[i] = "absent"
  /\ effects = [i \in Row |-> IF stage[i] = "done" THEN 1 ELSE 0]
  /\ request \in [Request -> [delivery : Delivery \cup {None},
                              at : {"free", "inserting", "inserted", "recorded",
                                    "duplicate"}]]
  /\ accepted \in [Delivery -> 0 .. 2]

Init ==
  /\ deliveries = {}
  /\ content = [i \in Row |-> Empty]
  /\ Queue!Init
  /\ request = [q \in Request |-> Free]
  /\ accepted = [d \in Delivery |-> 0]
-------------------------------------------------------------------------------
Move(q, at) ==
  request' = [request EXCEPT ![q] = [delivery |-> @.delivery, at |-> at]]

(* A signed request with a body and the two headers; others change nothing. *)
Arrive(q, d) ==
  /\ request[q] = Free
  /\ request' = [request EXCEPT ![q] = [delivery |-> d, at |-> "inserting"]]
  /\ UNCHANGED <<deliveries, content, queue, accepted>>

Holds(q, d) == request[q] = [delivery |-> d, at |-> "inserted"]

(* Mutant: the delivery is looked up, not inserted under its primary key.    *)
InsertDelivery_LooksUp(q) ==
  LET d == request[q].delivery
  IN /\ request[q].at = "inserting"
     /\ Move(q, IF d \in deliveries THEN "duplicate" ELSE "inserted")
     /\ UNCHANGED <<deliveries, content, queue, accepted>>

(* The insert waits for an open insert of the same id; a committed one is a *)
(* unique violation, which is caught and rolled back.                       *)
InsertDelivery(q) ==
  LET d == request[q].delivery
  IN /\ request[q].at = "inserting"
     /\ \A p \in Request \ {q} : ~Holds(p, d)
     /\ Move(q, IF d \in deliveries THEN "duplicate" ELSE "inserted")
     /\ UNCHANGED <<deliveries, content, queue, accepted>>

(* Mutant: the delivery is committed and its queue row left for later.      *)
Record_DeliveryOnly(q) ==
  /\ request[q].at = "inserted"
  /\ deliveries' = deliveries \cup {request[q].delivery}
  /\ Move(q, "recorded")
  /\ UNCHANGED <<content, queue, accepted>>

(* Mutant: the queue row is not pending when it is inserted.                *)
Record_NotPending(q) ==
  LET d == request[q].delivery
  IN /\ request[q].at = "inserted"
     /\ Unused # {}
     /\ content' = [content EXCEPT ![FreshRow] = [job |-> "webhook", delivery |-> d]]
     /\ deliveries' = deliveries \cup {d}
     /\ Move(q, "recorded")
     /\ UNCHANGED <<queue, accepted>>

(* The queue row is inserted and both rows are committed.                   *)
Record(q) ==
  LET d == request[q].delivery
  IN /\ request[q].at = "inserted"
     /\ Unused # {}
     /\ Queue!Submit({FreshRow})
     /\ content' = [content EXCEPT ![FreshRow] = [job |-> "webhook", delivery |-> d]]
     /\ deliveries' = deliveries \cup {d}
     /\ Move(q, "recorded")
     /\ UNCHANGED accepted

(* 202, and the duplicate counters.                                         *)
Answer(q) ==
  /\ request[q].at \in {"recorded", "duplicate"}
  /\ request' = [request EXCEPT ![q] = Free]
  /\ accepted' = [accepted EXCEPT ![request[q].delivery] =
                    IF request[q].at = "recorded" /\ @ < 2 THEN @ + 1 ELSE @]
  /\ UNCHANGED <<deliveries, content, queue>>

(* The request fails, or the process dies, at any point before the answer;  *)
(* what is not committed is gone.                                           *)
Fail(q) ==
  /\ request[q] # Free
  /\ request' = [request EXCEPT ![q] = Free]
  /\ UNCHANGED <<deliveries, content, queue, accepted>>
-------------------------------------------------------------------------------
Rows(job, d) == {i \in Row : content[i] = [job |-> job, delivery |-> d]}

(* Mutant: every row is copied, the copies of an earlier call included.     *)
Source_AnyRow == Row \ Unused

Source == {i \in Row : content[i].job = "webhook"}

(* The ways to draw an id for the copy of each source row.                  *)
Numbering == {f \in [Source -> Unused] :
                \A i, j \in Source : f[i] = f[j] => i = j}

Copies(f) == {f[i] : i \in Source}

CopiedFrom(f, c) == CHOOSE i \in Source : f[i] = c

CopyRows(f) ==
  /\ Queue!Submit(Copies(f))
  /\ content' = [c \in Row |->
       IF c \in Copies(f)
       THEN [job |-> "reevaluate", delivery |-> content[CopiedFrom(f, c)].delivery]
       ELSE content[c]]
  /\ UNCHANGED <<deliveries, request, accepted>>

(* enqueue_reevaluation copies the stored webhook rows in one statement.    *)
Reevaluate ==
  /\ Source # {}
  /\ Numbering # {}
  /\ CopyRows(CHOOSE f \in Numbering : TRUE)

(* The workers: EventQueue shows that they do no more than this.            *)
Work ==
  /\ \/ \E i \in Row : Queue!Finish(i)
     \/ \E S \in SUBSET Row : Queue!Abandon(S)
  /\ UNCHANGED <<deliveries, content, request, accepted>>

Settle(i) == Queue!Settle(i) /\ UNCHANGED <<deliveries, content, request, accepted>>

Next ==
  \/ \E q \in Request : \/ \E d \in Delivery : Arrive(q, d)
                        \/ InsertDelivery(q) \/ Record(q) \/ Answer(q) \/ Fail(q)
  \/ Reevaluate \/ Work

(* Requests may fail for ever; the queue settles what it was given.         *)
Safety == Init /\ [][Next]_vars

Spec == Safety /\ \A i \in Row : WF_vars(Settle(i))
-------------------------------------------------------------------------------
(* However often and concurrently a delivery arrives, it is recorded with   *)
(* exactly one queue row or not at all: the dedup key and the queue cannot  *)
(* disagree, and its work is applied at most once.                          *)
OneRowPerDelivery ==
  \A d \in Delivery :
    Cardinality(Rows("webhook", d)) = IF d \in deliveries THEN 1 ELSE 0

(* An answer is true: nobody is told "duplicate" of a delivery that was     *)
(* rolled back, and only one request is told that it queued the delivery.   *)
HonestAnswer ==
  /\ \A q \in Request : request[q].at \in {"recorded", "duplicate"}
                          => request[q].delivery \in deliveries
  /\ \A d \in Delivery :
       accepted[d] + Cardinality({q \in Request :
         request[q] = [delivery |-> d, at |-> "recorded"]}) <= 1

(* Reevaluating re-reads the original deliveries and never its own output:  *)
(* no delivery gets more copies than another that was there for every call. *)
NoCompounding ==
  [][\A d \in Delivery :
       Cardinality(Rows("reevaluate", d)') <= Cardinality(Rows("reevaluate", d)) + 1]_vars

(* A recorded delivery is worked off or given up in the end, whatever       *)
(* happened to the request that brought it.                                 *)
RecordedIsSettled ==
  \A d \in Delivery :
    d \in deliveries ~> \E i \in Rows("webhook", d) : stage[i] \in {"done", "dead"}
===============================================================================
