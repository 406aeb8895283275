------------------------------ MODULE IngestProofs ------------------------------
(***************************************************************************)
(* Proofs about Ingest for any deliveries, any finite number of requests   *)
(* and any number of queue rows.                                           *)
(***************************************************************************)
EXTENDS Ingest, FiniteSetTheorems, TLAPS

(* The primary key of webhook_deliveries: one open insert per id, and none  *)
(* of an id that is stored.                                                *)
OneInsert ==
  \A q \in Request : request[q].at = "inserted" =>
    /\ request[q].delivery \notin deliveries
    /\ \A p \in Request \ {q} : ~Holds(p, request[q].delivery)

(* The requests that recorded d and have not answered yet.                  *)
Recorders(d) == {q \in Request : request[q] = [delivery |-> d, at |-> "recorded"]}

(* No request recorded, or answered for, a delivery that is not stored.     *)
NoneUnrecorded ==
  \A d \in Delivery \ deliveries : accepted[d] = 0 /\ Recorders(d) = {}

StoredIsKnown ==
  \A q \in Request : request[q].at \in {"recorded", "duplicate"}
                       => request[q].delivery \in deliveries

ToldOnce == \A d \in Delivery : accepted[d] + Cardinality(Recorders(d)) <= 1

(* A request at work has a delivery.                                        *)
Serving == \A q \in Request : request[q] # Free => request[q].delivery \in Delivery

(* Without the cardinality: what OneRowPerDelivery needs of the table.      *)
RowsMatch ==
  \A d \in Delivery :
    /\ d \notin deliveries => Rows("webhook", d) = {}
    /\ d \in deliveries => \E i \in Row : Rows("webhook", d) = {i}

Inv == /\ TypeOK /\ Serving /\ OneInsert /\ RowsMatch
       /\ NoneUnrecorded /\ StoredIsKnown /\ ToldOnce
-------------------------------------------------------------------------------
LEMMA FreshRowUnused == Unused # {} => FreshRow \in Unused
  BY DEF FreshRow

(* Every source of a re-evaluation is the row of a delivery.                *)
LEMMA WebhookDelivery ==
  ASSUME TypeOK, NEW i \in Source
  PROVE  /\ i \in Row
         /\ content[i] \in [job : {"webhook", "reevaluate"}, delivery : Delivery]
         /\ content[i].delivery \in Delivery
<1>1. i \in Row /\ content[i].job = "webhook"
  BY DEF Source
<1>2. content[i] # Empty
  BY <1>1, ConstantsAssumption DEF Empty
<1> QED
  BY <1>1, <1>2 DEF TypeOK

LEMMA RecordersFinite ==
  ASSUME NEW d
  PROVE  IsFiniteSet(Recorders(d)) /\ Cardinality(Recorders(d)) \in Nat
<1>1. Recorders(d) \subseteq Request
  BY DEF Recorders
<1> QED
  BY <1>1, FS_Subset, FS_CardinalityType, ConstantsAssumption

LEMMA InitInv == Init => Inv
<1> SUFFICES ASSUME Init PROVE Inv
  OBVIOUS
<1> USE DEF Init
<1>1. TypeOK
  BY DEF TypeOK, Free, Empty, Queue!Init, Queue!Stage
<1>2. Serving /\ OneInsert /\ StoredIsKnown
  BY DEF Serving, OneInsert, StoredIsKnown, Free
<1>3. RowsMatch
  BY ConstantsAssumption DEF RowsMatch, Rows, Empty
<1>4. \A d \in Delivery : Recorders(d) = {}
  BY DEF Recorders, Free
<1>5. NoneUnrecorded /\ ToldOnce
  BY <1>4, FS_EmptySet DEF NoneUnrecorded, ToldOnce
<1> QED
  BY <1>1, <1>2, <1>3, <1>5 DEF Inv
-------------------------------------------------------------------------------
(* Steps of a request that neither record a delivery nor answer for one.    *)
LEMMA RequestStep ==
  ASSUME Inv, NEW q \in Request,
         UNCHANGED <<deliveries, content, queue, accepted>>,
         NEW r, request' = [request EXCEPT ![q] = r],
         r \in [delivery : Delivery \cup {None},
                at : {"free", "inserting", "inserted", "duplicate"}],
         r = Free \/ r.delivery \in Delivery,
         r.at = "duplicate" => r.delivery \in deliveries,
         r.at = "inserted" => /\ r.delivery \notin deliveries
                              /\ \A p \in Request \ {q} : ~Holds(p, r.delivery)
  PROVE  Inv'
<1> USE DEF Inv
<1>1. TypeOK'
  BY DEF TypeOK, queue
<1>2. Serving'
  BY DEF Serving, TypeOK
<1>3. OneInsert'
  BY DEF OneInsert, Holds, TypeOK
<1>4. RowsMatch'
  BY DEF RowsMatch, Rows
<1>5. StoredIsKnown'
  BY DEF StoredIsKnown, TypeOK
<1>6. \A d \in Delivery : Recorders(d)' \subseteq Recorders(d)
  BY DEF Recorders, TypeOK
<1>7. NoneUnrecorded'
  BY <1>6 DEF NoneUnrecorded
<1>8. ToldOnce'
  <2> SUFFICES ASSUME NEW d \in Delivery
               PROVE  accepted[d] + Cardinality(Recorders(d)') <= 1
    BY DEF ToldOnce
  <2>1. Cardinality(Recorders(d)') <= Cardinality(Recorders(d))
    BY <1>6, RecordersFinite, FS_Subset
  <2>2. Cardinality(Recorders(d)') \in Nat
    BY <1>6, RecordersFinite, FS_Subset, FS_CardinalityType
  <2> QED
    BY <2>1, <2>2, RecordersFinite DEF ToldOnce, TypeOK
<1> QED
  BY <1>1, <1>2, <1>3, <1>4, <1>5, <1>7, <1>8

LEMMA ArriveInv ==
  ASSUME Inv, NEW q \in Request, NEW d \in Delivery, Arrive(q, d) PROVE Inv'
  BY RequestStep DEF Arrive

LEMMA FailInv == ASSUME Inv, NEW q \in Request, Fail(q) PROVE Inv'
  BY RequestStep DEF Fail, Free

LEMMA InsertDeliveryInv ==
  ASSUME Inv, NEW q \in Request, InsertDelivery(q) PROVE Inv'
<1> DEFINE d  == request[q].delivery
           at == IF d \in deliveries THEN "duplicate" ELSE "inserted"
<1>1. request[q] # Free
  BY DEF InsertDelivery, Free
<1>2. d \in Delivery
  BY <1>1 DEF Inv, Serving
<1>3. request' = [request EXCEPT ![q] = [delivery |-> d, at |-> at]]
  BY DEF InsertDelivery, Move
<1> QED
  BY <1>2, <1>3, RequestStep DEF InsertDelivery
-------------------------------------------------------------------------------
LEMMA RecordInv == ASSUME Inv, NEW q \in Request, Record(q) PROVE Inv'
<1> DEFINE d == request[q].delivery
<1> USE DEF Inv
<1>1. FreshRow \in Row /\ content[FreshRow] = Empty /\ stage[FreshRow] = "absent"
  BY FreshRowUnused DEF Record, Unused, TypeOK
<1>2. d \in Delivery /\ d \notin deliveries /\ request[q].at = "inserted"
  BY DEF Record, Serving, OneInsert, Free
<1>3. /\ content' = [content EXCEPT ![FreshRow] = [job |-> "webhook", delivery |-> d]]
      /\ deliveries' = deliveries \cup {d}
      /\ request' = [request EXCEPT ![q] = [delivery |-> d, at |-> "recorded"]]
      /\ accepted' = accepted
  BY DEF Record, Move
<1>4. /\ stage' = [r \in Row |-> IF r \in {FreshRow} THEN "owed" ELSE stage[r]]
      /\ effects' = effects
  BY DEF Record, Queue!Submit
<1>5. TypeOK'
  <2>1. /\ deliveries' \subseteq Delivery
        /\ content' \in [Row -> {Empty} \cup [job : {"webhook", "reevaluate"},
                                              delivery : Delivery]]
        /\ stage' \in [Row -> Queue!Stage]
        /\ accepted' \in [Delivery -> 0 .. 2]
    BY <1>1, <1>2, <1>3, <1>4 DEF TypeOK, Queue!Stage
  <2>2. request' \in [Request -> [delivery : Delivery \cup {None},
                                  at : {"free", "inserting", "inserted", "recorded",
                                        "duplicate"}]]
    BY <1>2, <1>3 DEF TypeOK
  <2>3. [job |-> "webhook", delivery |-> d] # Empty
    BY <1>2, ConstantsAssumption DEF Empty
  <2>4. /\ \A i \in Row : content'[i] = Empty <=> stage'[i] = "absent"
        /\ effects' = [i \in Row |-> IF stage'[i] = "done" THEN 1 ELSE 0]
    BY <1>1, <1>3, <1>4, <2>3 DEF TypeOK
  <2> QED
    BY <2>1, <2>2, <2>4 DEF TypeOK
<1>6. Serving' /\ StoredIsKnown'
  BY <1>2, <1>3 DEF Serving, StoredIsKnown, TypeOK
<1>7. OneInsert'
  BY <1>2, <1>3 DEF OneInsert, Holds, TypeOK, Serving
<1>8. RowsMatch'
  <2> SUFFICES ASSUME NEW e \in Delivery
               PROVE  /\ e \notin deliveries' => Rows("webhook", e)' = {}
                      /\ e \in deliveries' => \E i \in Row : Rows("webhook", e)' = {i}
    BY DEF RowsMatch
  <2>1. CASE e = d
    <3>1. Rows("webhook", e) = {}
      BY <1>2, <2>1 DEF RowsMatch
    <3>2. Rows("webhook", e)' = {FreshRow}
      BY <1>1, <1>3, <2>1, <3>1 DEF Rows, TypeOK
    <3> QED
      BY <1>1, <1>3, <2>1, <3>2
  <2>2. CASE e # d
    <3>1. Rows("webhook", e)' = Rows("webhook", e)
      BY <1>1, <1>2, <1>3, <2>2, ConstantsAssumption DEF Rows, TypeOK, Empty
    <3> QED
      BY <1>3, <2>2, <3>1 DEF RowsMatch
  <2> QED
    BY <2>1, <2>2
<1>9. \A e \in Delivery : Recorders(e)' = IF e = d THEN Recorders(d) \cup {q}
                                                    ELSE Recorders(e)
  BY <1>2, <1>3 DEF Recorders, TypeOK
<1>10. accepted[d] = 0 /\ Recorders(d) = {}
  BY <1>2 DEF NoneUnrecorded
<1>11. NoneUnrecorded'
  BY <1>3, <1>9 DEF NoneUnrecorded
<1>12. ToldOnce'
  <2> SUFFICES ASSUME NEW e \in Delivery
               PROVE  accepted[e] + Cardinality(Recorders(e)') <= 1
    BY <1>3 DEF ToldOnce
  <2>1. CASE e = d
    <3>1. Recorders(e)' = {q}
      BY <1>9, <1>10, <2>1
    <3> QED
      BY <1>10, <2>1, <3>1, FS_Singleton
  <2>2. CASE e # d
    BY <1>9, <2>2 DEF ToldOnce
  <2> QED
    BY <2>1, <2>2
<1> QED
  BY <1>5, <1>6, <1>7, <1>8, <1>11, <1>12

LEMMA AnswerInv == ASSUME Inv, NEW q \in Request, Answer(q) PROVE Inv'
<1> DEFINE d == request[q].delivery
<1> USE DEF Inv
<1>1. d \in deliveries /\ d \in Delivery
  BY DEF Answer, StoredIsKnown, TypeOK
<1>2. /\ request' = [request EXCEPT ![q] = Free]
      /\ UNCHANGED <<deliveries, content, stage, effects>>
  BY DEF Answer, queue
<1>3. TypeOK'
  <2>1. accepted' \in [Delivery -> 0 .. 2]
    BY <1>1 DEF Answer, TypeOK
  <2>2. request' \in [Request -> [delivery : Delivery \cup {None},
                                  at : {"free", "inserting", "inserted", "recorded",
                                        "duplicate"}]]
    BY <1>2 DEF TypeOK, Free
  <2> QED
    BY <1>2, <2>1, <2>2 DEF TypeOK
<1>4. Serving' /\ StoredIsKnown' /\ OneInsert'
  BY <1>2 DEF Serving, StoredIsKnown, OneInsert, Holds, TypeOK, Free
<1>5. RowsMatch'
  BY <1>2 DEF RowsMatch, Rows
<1>6. \A e \in Delivery : Recorders(e)' = Recorders(e) \ {q}
  BY <1>2 DEF Recorders, TypeOK, Free
<1>7. \A e \in Delivery : e # d => accepted'[e] = accepted[e]
  BY DEF Answer, TypeOK
<1>8. NoneUnrecorded'
  BY <1>1, <1>2, <1>6, <1>7 DEF NoneUnrecorded
<1>9. ToldOnce'
  <2> SUFFICES ASSUME NEW e \in Delivery
               PROVE  accepted'[e] + Cardinality(Recorders(e) \ {q}) <= 1
    BY <1>6 DEF ToldOnce
  <2>1. /\ accepted[e] \in Nat
        /\ accepted[e] + Cardinality(Recorders(e)) <= 1
    BY DEF ToldOnce, TypeOK
  <2>2. CASE q \in Recorders(e)
    <3>1. e = d /\ request[q].at = "recorded"
      BY <2>2 DEF Recorders
    <3>2. accepted'[e] <= accepted[e] + 1
      BY <3>1 DEF Answer, TypeOK
    <3>3. accepted'[e] \in Nat
      BY <1>3 DEF TypeOK
    <3>4. Cardinality(Recorders(e) \ {q}) = Cardinality(Recorders(e)) - 1
      BY <2>2, RecordersFinite, FS_RemoveElement
    <3> QED
      BY <2>1, <3>2, <3>3, <3>4, RecordersFinite
  <2>3. CASE q \notin Recorders(e)
    <3>1. Recorders(e) \ {q} = Recorders(e)
      BY <2>3
    <3>2. CASE e = d
      <4>1. request[q].at # "recorded"
        BY <2>3, <3>2 DEF Recorders, TypeOK
      <4>2. accepted'[e] = accepted[e]
        BY <3>2, <4>1 DEF Answer, TypeOK
      <4> QED
        BY <2>1, <3>1, <4>2
    <3>3. CASE e # d
      BY <1>7, <2>1, <3>1, <3>3
    <3> QED
      BY <3>2, <3>3
  <2> QED
    BY <2>2, <2>3
<1> QED
  BY <1>3, <1>4, <1>5, <1>8, <1>9
-------------------------------------------------------------------------------
(* Steps that move no request and no webhook row.                           *)
LEMMA TableStep ==
  ASSUME Inv, TypeOK', UNCHANGED <<deliveries, request, accepted>>,
         \A d \in Delivery : Rows("webhook", d)' = Rows("webhook", d)
  PROVE  Inv'
<1>1. Serving' /\ OneInsert' /\ StoredIsKnown'
  BY DEF Inv, Serving, OneInsert, StoredIsKnown, Holds
<1>2. \A d \in Delivery : Recorders(d)' = Recorders(d)
  BY DEF Recorders
<1>3. NoneUnrecorded' /\ ToldOnce'
  BY <1>2 DEF Inv, NoneUnrecorded, ToldOnce
<1>4. RowsMatch'
  BY DEF Inv, RowsMatch
<1> QED
  BY <1>1, <1>3, <1>4 DEF Inv

LEMMA WorkInv == ASSUME Inv, Work PROVE Inv'
<1>1. TypeOK'
  <2>1. ASSUME NEW i \in Row, Queue!Finish(i) PROVE TypeOK'
    <3>1. effects[i] = 0
      BY <2>1 DEF Queue!Finish, Inv, TypeOK
    <3>2. /\ stage' \in [Row -> Queue!Stage]
          /\ effects' = [j \in Row |-> IF stage'[j] = "done" THEN 1 ELSE 0]
          /\ \A j \in Row : stage'[j] = "absent" <=> stage[j] = "absent"
      BY <2>1, <3>1 DEF Queue!Finish, Inv, TypeOK, Queue!Stage
    <3> QED
      BY <2>1, <3>2 DEF Work, Queue!Finish, Inv, TypeOK
  <2>2. ASSUME NEW S \in SUBSET Row, Queue!Abandon(S) PROVE TypeOK'
    BY <2>2 DEF Work, Queue!Abandon, Inv, TypeOK, Queue!Stage
  <2> QED
    BY <2>1, <2>2 DEF Work
<1> QED
  BY <1>1, TableStep DEF Work, Rows

(* A re-evaluation: the rows it adds were unused, and it changes no other.  *)
LEMMA ReevaluateEffect ==
  ASSUME Inv, Reevaluate
  PROVE  \E f \in Numbering : CopyRows(f)
  BY DEF Reevaluate

LEMMA CopyTypes ==
  ASSUME Inv, NEW f \in Numbering, CopyRows(f)
  PROVE  /\ TypeOK'
         /\ \A c \in Row : \/ content'[c] = content[c]
                           \/ content[c] = Empty /\ content'[c].job = "reevaluate"
<1>1. f \in [Source -> Unused]
  BY DEF Numbering
<1>2. ASSUME NEW c \in Row, c \in Copies(f)
      PROVE  /\ content[c] = Empty
             /\ content'[c] \in [job : {"reevaluate"}, delivery : Delivery]
  <2>1. CopiedFrom(f, c) \in Source /\ f[CopiedFrom(f, c)] = c
    BY <1>2 DEF CopiedFrom, Copies
  <2>2. content[c] = Empty
    BY <1>1, <2>1 DEF Unused
  <2>3. content[CopiedFrom(f, c)].delivery \in Delivery
    BY <2>1, WebhookDelivery DEF Inv
  <2>4. content'[c] = [job |-> "reevaluate",
                       delivery |-> content[CopiedFrom(f, c)].delivery]
    BY <1>2 DEF CopyRows
  <2> QED
    BY <2>2, <2>3, <2>4
<1>3. ASSUME NEW c \in Row, c \notin Copies(f) PROVE content'[c] = content[c]
  BY <1>3 DEF CopyRows
<1>4. /\ stage' = [c \in Row |-> IF c \in Copies(f) THEN "owed" ELSE stage[c]]
      /\ effects' = effects
      /\ UNCHANGED <<deliveries, request, accepted>>
  BY DEF CopyRows, Queue!Submit
<1>5. content' \in [Row -> {Empty} \cup [job : {"webhook", "reevaluate"},
                                         delivery : Delivery]]
  <2>1. \A c \in Row : content'[c] \in {Empty} \cup [job : {"webhook", "reevaluate"},
                                                    delivery : Delivery]
    BY <1>2, <1>3 DEF Inv, TypeOK
  <2>2. content' = [c \in Row |-> content'[c]]
    BY DEF CopyRows
  <2> QED
    BY <2>1, <2>2
<1>6. ASSUME NEW c \in Row
      PROVE  /\ content'[c] = Empty <=> stage'[c] = "absent"
             /\ stage'[c] = "done" <=> stage[c] = "done"
  <2>1. CASE c \in Copies(f)
    <3>1. content'[c] # Empty
      BY <1>2, <2>1, ConstantsAssumption DEF Empty
    <3>2. stage[c] = "absent"
      BY <1>2, <2>1 DEF Inv, TypeOK
    <3> QED
      BY <1>4, <2>1, <3>1, <3>2 DEF Inv, TypeOK
  <2>2. CASE c \notin Copies(f)
    BY <1>3, <1>4, <2>2 DEF Inv, TypeOK
  <2> QED
    BY <2>1, <2>2
<1>7. stage' \in [Row -> Queue!Stage]
  BY <1>4 DEF Inv, TypeOK, Queue!Stage
<1>8. TypeOK'
  BY <1>4, <1>5, <1>6, <1>7 DEF Inv, TypeOK
<1> QED
  BY <1>2, <1>3, <1>8

LEMMA ReevaluateInv == ASSUME Inv, Reevaluate PROVE Inv'
<1>1. PICK f \in Numbering : CopyRows(f)
  BY ReevaluateEffect
<1>2. ASSUME NEW d \in Delivery PROVE Rows("webhook", d)' = Rows("webhook", d)
  BY <1>1, CopyTypes, ConstantsAssumption DEF Rows, Empty
<1> QED
  BY <1>1, <1>2, CopyTypes, TableStep DEF CopyRows

LEMMA NextInv == Inv /\ [Next]_vars => Inv'
<1> SUFFICES ASSUME Inv, [Next]_vars PROVE Inv'
  OBVIOUS
<1>1. ASSUME NEW q \in Request,
             \/ \E d \in Delivery : Arrive(q, d)
             \/ InsertDelivery(q) \/ Record(q) \/ Answer(q) \/ Fail(q)
      PROVE  Inv'
  BY <1>1, ArriveInv, InsertDeliveryInv, RecordInv, AnswerInv, FailInv
<1>2. CASE Reevaluate \/ Work
  BY <1>2, ReevaluateInv, WorkInv
<1>3. CASE UNCHANGED vars
  <2>1. TypeOK'
    BY <1>3 DEF vars, queue, Inv, TypeOK
  <2> QED
    BY <1>3, <2>1, TableStep DEF vars, Rows
<1> QED
  BY <1>1, <1>2, <1>3 DEF Next

LEMMA Invariance == Safety => []Inv
  BY InitInv, NextInv, PTL DEF Safety

(* The tables and the requests are always well formed.                      *)
THEOREM WellFormed == Safety => []TypeOK
  BY Invariance, PTL DEF Inv

(* However many requests bring a delivery at once, it is stored with exactly *)
(* one queue row or not stored at all (record_delivery).                    *)
THEOREM DeliveryHasOneRow == Safety => []OneRowPerDelivery
<1>1. Inv => OneRowPerDelivery
  <2> SUFFICES ASSUME RowsMatch, NEW d \in Delivery
               PROVE  Cardinality(Rows("webhook", d)) = IF d \in deliveries THEN 1 ELSE 0
    BY DEF Inv, OneRowPerDelivery
  <2> QED
    BY FS_EmptySet, FS_Singleton DEF RowsMatch
<1> QED
  BY <1>1, Invariance, PTL

(* "queued" and "duplicate" are only answered for stored deliveries, and one *)
(* request at most is told "queued" (receive_github_webhook).               *)
THEOREM AnswersAreHonest == Safety => []HonestAnswer
<1>1. Inv => HonestAnswer
  BY DEF Inv, HonestAnswer, StoredIsKnown, ToldOnce, Recorders
<1> QED
  BY <1>1, Invariance, PTL
-------------------------------------------------------------------------------
LEMMA RowsFinite ==
  ASSUME NEW job, NEW d
  PROVE  IsFiniteSet(Rows(job, d)) /\ Cardinality(Rows(job, d)) \in Nat
<1>1. IsFiniteSet(Row)
  BY FS_Interval, ConstantsAssumption DEF Row
<1> QED
  BY <1>1, FS_Subset, FS_CardinalityType DEF Rows

(* The only steps that change the copies of a delivery are re-evaluations,  *)
(* and each adds the copy of the one row of that delivery or nothing.       *)
LEMMA CopiesOfOne ==
  ASSUME Inv, Reevaluate, NEW d \in Delivery
  PROVE  \E c : Rows("reevaluate", d)' \subseteq Rows("reevaluate", d) \cup {c}
<1>1. PICK f \in Numbering : CopyRows(f)
  BY ReevaluateEffect
<1>2. ASSUME NEW c \in Rows("reevaluate", d)', c \notin Rows("reevaluate", d)
      PROVE  /\ CopiedFrom(f, c) \in Rows("webhook", d)
             /\ f[CopiedFrom(f, c)] = c
  <2>1. c \in Row /\ content'[c] = [job |-> "reevaluate", delivery |-> d]
    BY <1>2 DEF Rows
  <2>2. c \in Copies(f)
    BY <1>1, <1>2, <2>1 DEF CopyRows, Rows
  <2>3. content[CopiedFrom(f, c)].delivery = d
    BY <1>1, <2>1, <2>2 DEF CopyRows
  <2>4. CopiedFrom(f, c) \in Source /\ f[CopiedFrom(f, c)] = c
    BY <2>2 DEF CopiedFrom, Copies
  <2>5. content[CopiedFrom(f, c)] = [job |-> "webhook", delivery |-> d]
    BY <2>3, <2>4, WebhookDelivery DEF Inv, Source
  <2> QED
    BY <2>4, <2>5 DEF Rows, Source
<1>3. CASE Rows("webhook", d) = {}
  BY <1>2, <1>3
<1>4. ASSUME NEW i \in Row, Rows("webhook", d) = {i}
      PROVE  Rows("reevaluate", d)' \subseteq Rows("reevaluate", d) \cup {f[i]}
  BY <1>2, <1>4
<1> QED
  BY <1>3, <1>4 DEF Inv, RowsMatch

(* Re-evaluating again re-reads the deliveries and never its own copies.    *)
THEOREM ReevaluationDoesNotCompound == Safety => NoCompounding
<1>1. ASSUME Inv, [Next]_vars
      PROVE  [\A d \in Delivery :
                Cardinality(Rows("reevaluate", d)')
                  <= Cardinality(Rows("reevaluate", d)) + 1]_vars
  <2> SUFFICES ASSUME NEW d \in Delivery
               PROVE  Cardinality(Rows("reevaluate", d)')
                        <= Cardinality(Rows("reevaluate", d)) + 1
    OBVIOUS
  <2> DEFINE R == Rows("reevaluate", d)
  <2>1. IsFiniteSet(R) /\ Cardinality(R) \in Nat
    BY RowsFinite
  <2>2. ASSUME NEW c, R' \subseteq R \cup {c}
        PROVE  Cardinality(R') <= Cardinality(R) + 1
    <3>1. /\ IsFiniteSet(R \cup {c})
          /\ Cardinality(R \cup {c}) \in {Cardinality(R), Cardinality(R) + 1}
      BY <2>1, FS_AddElement
    <3>2. Cardinality(R') <= Cardinality(R \cup {c})
      BY <2>2, <3>1, FS_Subset
    <3>3. Cardinality(R') \in Nat /\ Cardinality(R \cup {c}) \in Nat
      BY <2>2, <3>1, FS_Subset, FS_CardinalityType
    <3> QED
      BY <2>1, <3>1, <3>2, <3>3
  <2>3. CASE Reevaluate
    BY <1>1, <2>2, <2>3, CopiesOfOne
  <2>4. ASSUME NEW q \in Request, Record(q) PROVE R' \subseteq R \cup {FreshRow}
    BY <2>4 DEF Record, Rows
  <2>5. CASE content' = content
    BY <2>1, <2>5 DEF Rows
  <2> QED
    BY <1>1, <2>2, <2>3, <2>4, <2>5
    DEF Next, Arrive, InsertDelivery, Answer, Fail, Work, vars
<1> QED
  BY <1>1, Invariance, PTL DEF Safety, NoCompounding
===============================================================================
