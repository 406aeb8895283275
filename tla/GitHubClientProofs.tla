-------------------------- MODULE GitHubClientProofs --------------------------
(***************************************************************************)
(* Proofs about the calls to GitHub, for any callers, budgets, windows,    *)
(* waits and answers, whichever order the answers come in.                 *)
(***************************************************************************)
EXTENDS GitHubClient, FiniteSetTheorems, TLAPS

BucketSet == [limit : {DefaultLimit, Limit}, tokens : Nat, resets : Nat \cup {None},
              blocked : Nat]

AnswerSet == [forbidden : BOOLEAN, retry : RetryAfter \cup {None}, reset : 0 .. Window,
              remaining : 0 .. Limit]

CallerSet == [at : Place, token : 0 .. TokenLife, left : 0 .. Requests,
              attempt : 0 .. Attempts, sleep : 0 .. MaxWait, late : BOOLEAN,
              answer : AnswerSet \cup {None}]

Typed ==
  /\ bucket \in BucketSet
  /\ line \in Seq(Caller) /\ shop \in Seq(Caller)
  /\ cached \in 0 .. TokenLife
  /\ caller \in [Caller -> CallerSet]
  /\ github \in [remaining : 0 .. Limit, turn : 1 .. Window]
  /\ told \in Nat
  /\ refused \in [Caller -> 0 .. 2]
  /\ held \in [Caller -> 0 .. HeldCap]

(* Who buys a token holds the lock of the purchase.                        *)
Buyer == \A c \in Caller : caller[c].at = "fetch" => Holds(shop, c)

(* The bucket is blocked for as long as GitHub asked anybody to wait.      *)
Blocked == told <= bucket.blocked

(* An answer is of this window of GitHub's, or of one that is over.        *)
Dated == \A c \in Caller : caller[c].at = "answered" =>
           caller[c].answer \in AnswerSet /\ caller[c].answer.reset \in {0, github.turn}

(* Who was told that the budget is spent is blocked until the window turns. *)
Refused == \A c \in Caller : refused[c] # 0 =>
             /\ refused[c] = 1 /\ github.turn <= bucket.blocked
             /\ caller[c].at \notin {"sent", "answered"}

IInv == Typed /\ Buyer /\ Blocked /\ Dated /\ Refused
-------------------------------------------------------------------------------
LEMMA ProductIsNat == ASSUME NEW m \in Nat, NEW n \in Nat PROVE m * n \in Nat
  OBVIOUS

LEMMA RoundsUp ==
  ASSUME NEW a \in Nat \ {0}, NEW b \in Nat \ {0}
  PROVE  (a + b - 1) \div b \in Nat \ {0}
  OBVIOUS

LEMMA GreaterIsNat == ASSUME NEW a \in Nat, NEW b \in Nat
                      PROVE  Greater(a, b) \in Nat /\ a <= Greater(a, b) /\ b <= Greater(a, b)
  BY DEF Greater

LEMMA ConstantsAreTyped ==
  /\ DefaultLimit \in Nat \ {0} /\ Limit \in Nat \ {0} /\ Window \in Nat \ {0}
  /\ MaxWait \in Nat \ {0} /\ Attempts \in Nat \ {0} /\ Requests \in Nat \ {0}
  /\ TokenLife \in Nat /\ RenewBefore \in Nat /\ HeldCap \in Nat
  /\ RetryAfter \subseteq Nat /\ None \notin Int
  BY ConstantsAssumption DEF ConstantsAssumption

LEMMA AnswerIsSome == ASSUME NEW a \in AnswerSet PROVE a # None
<1>1. a = [forbidden |-> a.forbidden, retry |-> a.retry, reset |-> a.reset,
           remaining |-> a.remaining]
      /\ a.forbidden \in BOOLEAN /\ a.retry \in RetryAfter \cup {None}
      /\ a.reset \in 0 .. Window /\ a.remaining \in 0 .. Limit
  BY DEF AnswerSet
<1> QED
  BY <1>1, ConstantsAssumption DEF ConstantsAssumption

LEMMA AdvanceIsTyped ==
  ASSUME NEW b \in BucketSet, NEW n \in Nat
  PROVE  /\ Advance(b, n) \in BucketSet
         /\ Advance(b, n).blocked = IF n <= b.blocked THEN b.blocked - n ELSE 0
<1> DEFINE turned == b.resets # None /\ b.resets <= n
           tokens == IF turned THEN b.limit * Window ELSE b.tokens + n * b.limit
<1>1. /\ b.limit \in Nat /\ b.limit \in {DefaultLimit, Limit} /\ b.tokens \in Nat
      /\ b.resets \in Nat \cup {None} /\ b.blocked \in Nat /\ None \notin Int
  BY ConstantsAreTyped DEF BucketSet
<1>2. b.limit * Window \in Nat /\ n * b.limit \in Nat
  BY <1>1, ConstantsAreTyped, ProductIsNat
<1>3. Lesser(b.limit * Window, tokens) \in Nat
  BY <1>1, <1>2 DEF Lesser
<1>4. (IF b.resets = None \/ turned THEN None ELSE b.resets - n) \in Nat \cup {None}
  BY <1>1
<1>5. Greater(0, b.blocked - n) \in Nat
      /\ Greater(0, b.blocked - n) = IF n <= b.blocked THEN b.blocked - n ELSE 0
  BY <1>1 DEF Greater
<1>6. Advance(b, n) = [limit   |-> b.limit,
                       tokens  |-> Lesser(b.limit * Window, tokens),
                       resets  |-> IF b.resets = None \/ turned THEN None ELSE b.resets - n,
                       blocked |-> Greater(0, b.blocked - n)]
  BY DEF Advance
<1> HIDE DEF tokens, turned
<1> QED
  BY <1>1, <1>3, <1>4, <1>5, <1>6 DEF BucketSet

LEMMA WaitIsTyped ==
  ASSUME NEW b \in BucketSet
  PROVE  /\ WaitForToken(b) \in Nat
         /\ WaitForToken(b) = 0 => b.blocked = 0 /\ Window <= b.tokens
<1> DEFINE refill == (Window - b.tokens + b.limit - 1) \div b.limit
           w == IF b.tokens >= Window THEN 0 ELSE refill
<1>1. b.limit \in Nat \ {0} /\ b.tokens \in Nat /\ b.blocked \in Nat /\ Window \in Nat
  BY ConstantsAreTyped DEF BucketSet
<1>2. ~(b.tokens >= Window) => refill \in Nat \ {0}
  <2> SUFFICES ASSUME ~(b.tokens >= Window) PROVE refill \in Nat \ {0}
    OBVIOUS
  <2>1. Window - b.tokens \in Nat \ {0}
    BY <1>1
  <2> QED
    BY <1>1, <2>1, RoundsUp
<1>3. w \in Nat /\ (w = 0 => Window <= b.tokens)
  BY <1>1, <1>2
<1>4. WaitForToken(b) = Greater(b.blocked, w)
  BY DEF WaitForToken
<1> HIDE DEF w
<1> QED
  BY <1>1, <1>3, <1>4 DEF Greater

LEMMA TakeIsTyped ==
  ASSUME NEW b \in BucketSet, Window <= b.tokens
  PROVE  Take(b) \in BucketSet /\ Take(b).blocked = b.blocked
<1>1. b.tokens - Window \in Nat
  BY ConstantsAreTyped DEF BucketSet
<1> QED
  BY <1>1 DEF Take, BucketSet

LEMMA ObserveIsTyped ==
  ASSUME NEW b \in BucketSet, NEW a \in AnswerSet
  PROVE  /\ Observe(b, a) \in BucketSet /\ Asked(a) \in Nat
         /\ b.blocked <= Observe(b, a).blocked /\ Asked(a) <= Observe(b, a).blocked
         /\ a.remaining = 0 => a.reset <= Asked(a)
<1>1. /\ a.retry \in Nat \cup {None} /\ a.reset \in 0 .. Window /\ a.remaining \in 0 .. Limit
      /\ None \notin Int /\ b.blocked \in Nat /\ Window \in Nat /\ Limit \in Nat
  BY ConstantsAreTyped DEF AnswerSet, BucketSet
<1>2. Asked(a) \in Nat /\ (a.remaining = 0 => a.reset <= Asked(a))
  BY <1>1 DEF Asked, Greater
<1>3. Lesser(Advance(b, 0).tokens, a.remaining * Window) \in Nat
  <2>1. Advance(b, 0).tokens \in Nat
    BY AdvanceIsTyped DEF BucketSet
  <2>2. a.remaining * Window \in Nat
    BY <1>1, ProductIsNat
  <2> QED
    BY <2>1, <2>2 DEF Lesser
<1>4. /\ Greater(b.blocked, Asked(a)) \in Nat
      /\ b.blocked <= Greater(b.blocked, Asked(a)) /\ Asked(a) <= Greater(b.blocked, Asked(a))
  BY <1>1, <1>2, GreaterIsNat
<1>5. Observe(b, a) = [limit   |-> Limit,
                       tokens  |-> Lesser(Advance(b, 0).tokens, a.remaining * Window),
                       resets  |-> a.reset,
                       blocked |-> Greater(b.blocked, Asked(a))]
  BY DEF Observe
<1> QED
  BY <1>1, <1>2, <1>3, <1>4, <1>5 DEF BucketSet
-------------------------------------------------------------------------------
(* Sends and Buys are what HonoursEveryWait and BuysOnce say of a step.    *)
Sends == \A c \in Caller : caller'[c].at = "sent" /\ caller[c].at # "sent" => told = 0

Buys == \A c \in Caller : caller'[c].at = "fetch" /\ caller[c].at # "fetch" => ~Usable(cached)

(* What every step of one caller has in common.                            *)
LEMMA OneMoves ==
  ASSUME IInv, NEW c \in Caller, NEW r \in CallerSet,
         caller' = [caller EXCEPT ![c] = r],
         bucket' \in BucketSet, bucket.blocked <= bucket'.blocked,
         line' \in Seq(Caller), shop' \in Seq(Caller), cached' \in 0 .. TokenLife,
         github' \in [remaining : 0 .. Limit, turn : 1 .. Window],
         github'.turn = github.turn,
         told' = told, refused' = refused, held' \in [Caller -> 0 .. HeldCap],
         r.at = "fetch" => Holds(shop', c),
         \A d \in Caller : d # c /\ Holds(shop, d) => Holds(shop', d),
         r.at \in {"sent", "answered"} => refused[c] = 0,
         r.at = "answered" => r.answer \in AnswerSet /\ r.answer.reset \in {0, github.turn},
         r.at = "sent" /\ caller[c].at # "sent" => told = 0,
         r.at = "fetch" /\ caller[c].at # "fetch" => ~Usable(cached)
  PROVE  IInv' /\ Sends /\ Buys
<1> USE DEF IInv
<1>1. /\ caller \in [Caller -> CallerSet] /\ caller'[c] = r
      /\ \A d \in Caller : d # c => caller'[d] = caller[d]
  BY DEF Typed
<1>2. caller' \in [Caller -> CallerSet]
  BY <1>1
<1>3. Typed'
  BY <1>2 DEF Typed
<1>4. Buyer'
  <2> SUFFICES ASSUME NEW d \in Caller, caller'[d].at = "fetch" PROVE Holds(shop', d)
    BY DEF Buyer, Holds
  <2> QED
    BY <1>1 DEF Buyer
<1>5. Blocked'
  BY ConstantsAreTyped DEF Blocked, Typed, BucketSet
<1>6. Dated'
  <2> SUFFICES ASSUME NEW d \in Caller, caller'[d].at = "answered"
               PROVE  caller'[d].answer \in AnswerSet
                      /\ caller'[d].answer.reset \in {0, github'.turn}
    BY DEF Dated, AnswerSet
  <2> QED
    BY <1>1 DEF Dated
<1>7. Refused'
  <2> SUFFICES ASSUME NEW d \in Caller, refused[d] # 0
               PROVE  /\ refused[d] = 1 /\ github'.turn <= bucket'.blocked
                      /\ caller'[d].at \notin {"sent", "answered"}
    BY DEF Refused
  <2>1. refused[d] = 1 /\ github.turn <= bucket.blocked
        /\ caller[d].at \notin {"sent", "answered"}
    BY DEF Refused
  <2>2. github.turn \in Int /\ bucket.blocked \in Int /\ bucket'.blocked \in Int
    BY ConstantsAreTyped DEF Typed, BucketSet
  <2>3. github'.turn <= bucket'.blocked
    BY <2>1, <2>2
  <2> QED
    BY <1>1, <2>1, <2>3
<1>8. Sends /\ Buys
  BY <1>1 DEF Sends, Buys
<1> QED
  BY <1>3, <1>4, <1>5, <1>6, <1>7, <1>8

LEMMA HeadStays ==
  ASSUME NEW s \in Seq(Caller), NEW c \in Caller
  PROVE  /\ Append(s, c) \in Seq(Caller)
         /\ \A d \in Caller : Holds(s, d) => Holds(Append(s, c), d)
  BY DEF Holds

LEMMA TailIsTyped ==
  ASSUME NEW s \in Seq(Caller), NEW c \in Caller, Holds(s, c)
  PROVE  /\ Tail(s) \in Seq(Caller)
         /\ \A d \in Caller : d # c /\ Holds(s, d) => Holds(Tail(s), d)
  BY DEF Holds

LEMMA IdleIsTyped == Idle \in CallerSet /\ Idle.at = "idle"
  BY ConstantsAreTyped DEF Idle, CallerSet, Place

LEMMA CallerIsTyped ==
  ASSUME IInv, NEW c \in Caller
  PROVE  caller[c] \in CallerSet
  BY DEF IInv, Typed

LEMMA Pieces ==
  ASSUME IInv
  PROVE  /\ bucket \in BucketSet /\ bucket.blocked \in Nat /\ bucket.blocked <= bucket.blocked
         /\ line \in Seq(Caller) /\ shop \in Seq(Caller)
         /\ cached \in 0 .. TokenLife
         /\ github \in [remaining : 0 .. Limit, turn : 1 .. Window]
         /\ told \in Nat /\ refused \in [Caller -> 0 .. 2]
         /\ held \in [Caller -> 0 .. HeldCap]
         /\ caller \in [Caller -> CallerSet]
  BY DEF IInv, Typed, BucketSet
-------------------------------------------------------------------------------
LEMMA StartKeeps ==
  ASSUME IInv, NEW c \in Caller, NEW n \in 1 .. Requests, Start(c, n)
  PROVE  IInv' /\ Sends /\ Buys
<1> DEFINE r == [Idle EXCEPT !.at = "token", !.left = n, !.attempt = 1]
<1>0. n \in 0 .. Requests /\ 1 \in 0 .. Attempts /\ "token" \in Place
  BY ConstantsAreTyped DEF Place
<1>1. r \in CallerSet /\ r.at = "token"
  BY <1>0, IdleIsTyped DEF CallerSet
<1>2. caller' = [caller EXCEPT ![c] = r]
  BY DEF Start
<1>3. held' \in [Caller -> 0 .. HeldCap]
  BY Pieces, ConstantsAreTyped DEF Start
<1> HIDE DEF r
<1> QED
  BY <1>1, <1>2, <1>3, OneMoves, Pieces DEF Start

LEMMA GetInLineKeeps ==
  ASSUME IInv, NEW c \in Caller, NEW t \in 0 .. TokenLife, GetInLine(c, t),
         caller[c].at \in {"token", "buy"},
         shop' \in Seq(Caller),
         \A d \in Caller : d # c /\ Holds(shop, d) => Holds(shop', d),
         UNCHANGED <<bucket, cached, github, told, refused, held>>
  PROVE  IInv' /\ Sends /\ Buys
<1> DEFINE r == [caller[c] EXCEPT !.at = "acquire", !.token = t]
<1>1. r \in CallerSet /\ r.at = "acquire"
  BY CallerIsTyped DEF CallerSet, Place
<1>2. caller' = [caller EXCEPT ![c] = r]
  BY Pieces DEF GetInLine, CallerSet
<1>3. line' \in Seq(Caller)
  BY Pieces, HeadStays DEF GetInLine
<1> HIDE DEF r
<1> QED
  BY <1>1, <1>2, <1>3, OneMoves, Pieces

LEMMA ReadTokenKeeps ==
  ASSUME IInv, NEW c \in Caller, ReadToken(c)
  PROVE  IInv' /\ Sends /\ Buys
<1>1. CASE Usable(cached)
  <2>1. GetInLine(c, cached) /\ shop' = shop /\ caller[c].at = "token"
    BY <1>1 DEF ReadToken
  <2> QED
    BY <2>1, GetInLineKeeps, Pieces DEF ReadToken
<1>2. CASE ~Usable(cached)
  <2> DEFINE r == [caller[c] EXCEPT !.at = "buy"]
  <2>1. r \in CallerSet /\ r.at = "buy"
    BY CallerIsTyped DEF CallerSet, Place
  <2>2. caller' = [caller EXCEPT ![c] = r]
    BY <1>2, Pieces DEF ReadToken, CallerSet
  <2>3. shop' \in Seq(Caller) /\ \A d \in Caller : Holds(shop, d) => Holds(shop', d)
    BY <1>2, Pieces, HeadStays DEF ReadToken
  <2>4. line' = line
    BY <1>2 DEF ReadToken
  <2> HIDE DEF r
  <2> QED
    BY <2>1, <2>2, <2>3, <2>4, OneMoves, Pieces DEF ReadToken
<1> QED
  BY <1>1, <1>2

LEMMA BuyTokenKeeps ==
  ASSUME IInv, NEW c \in Caller, BuyToken(c)
  PROVE  IInv' /\ Sends /\ Buys
<1>1. CASE Usable(cached)
  <2>1. GetInLine(c, cached) /\ shop' = Tail(shop) /\ caller[c].at = "buy" /\ Holds(shop, c)
    BY <1>1 DEF BuyToken
  <2> QED
    BY <2>1, GetInLineKeeps, Pieces, TailIsTyped DEF BuyToken
<1>2. CASE ~Usable(cached)
  <2> DEFINE r == [caller[c] EXCEPT !.at = "fetch"]
  <2>1. r \in CallerSet /\ r.at = "fetch"
    BY CallerIsTyped DEF CallerSet, Place
  <2>2. caller' = [caller EXCEPT ![c] = r]
    BY <1>2, Pieces DEF BuyToken, CallerSet
  <2>3. line' = line /\ shop' = shop /\ Holds(shop, c)
    BY <1>2 DEF BuyToken
  <2> HIDE DEF r
  <2> QED
    BY <1>2, <2>1, <2>2, <2>3, OneMoves, Pieces DEF BuyToken
<1> QED
  BY <1>1, <1>2

LEMMA FetchedKeeps ==
  ASSUME IInv, NEW c \in Caller, Fetched(c)
  PROVE  IInv' /\ Sends /\ Buys
<1> DEFINE r == [caller[c] EXCEPT !.at = "acquire", !.token = TokenLife, !.late = FALSE]
<1>0. TokenLife \in 0 .. TokenLife /\ FALSE \in BOOLEAN /\ "acquire" \in Place
  BY ConstantsAreTyped DEF Place
<1>1. r \in CallerSet /\ r.at = "acquire"
  BY <1>0, CallerIsTyped DEF CallerSet
<1>2. caller' = [caller EXCEPT ![c] = r]
  BY Pieces DEF Fetched, CallerSet
<1>3. line' \in Seq(Caller) /\ cached' \in 0 .. TokenLife
  BY <1>0, Pieces, HeadStays DEF Fetched
<1>4. Holds(shop, c)
  BY DEF Fetched, IInv, Buyer
<1>5. shop' \in Seq(Caller) /\ \A d \in Caller : d # c /\ Holds(shop, d) => Holds(shop', d)
  BY <1>4, Pieces, TailIsTyped DEF Fetched
<1>6. UNCHANGED <<bucket, github, told, refused, held>>
  BY DEF Fetched
<1> HIDE DEF r
<1> QED
  BY <1>1, <1>2, <1>3, <1>5, <1>6, OneMoves, Pieces

LEMMA FetchFailsKeeps ==
  ASSUME IInv, NEW c \in Caller, FetchFails(c)
  PROVE  IInv' /\ Sends /\ Buys
<1>1. caller' = [caller EXCEPT ![c] = Idle]
  BY DEF FetchFails, End
<1>2. Holds(shop, c) /\ shop' = Tail(shop)
  BY DEF FetchFails, IInv, Buyer
<1> QED
  BY <1>1, <1>2, OneMoves, IdleIsTyped, Pieces, TailIsTyped DEF FetchFails

LEMMA LoseKeeps ==
  ASSUME IInv, NEW c \in Caller, Lose(c)
  PROVE  IInv' /\ Sends /\ Buys
<1>1. caller' = [caller EXCEPT ![c] = Idle]
  BY DEF Lose, End
<1> QED
  BY <1>1, OneMoves, IdleIsTyped, Pieces DEF Lose

LEMMA WakeKeeps ==
  ASSUME IInv, NEW c \in Caller, Wake(c)
  PROVE  IInv' /\ Sends /\ Buys
<1> DEFINE r == [caller[c] EXCEPT !.at = "acquire"]
<1>1. r \in CallerSet /\ r.at = "acquire"
  BY CallerIsTyped DEF CallerSet, Place
<1>2. caller' = [caller EXCEPT ![c] = r]
  BY Pieces DEF Wake, CallerSet
<1> HIDE DEF r
<1> QED
  BY <1>1, <1>2, OneMoves, Pieces DEF Wake
-------------------------------------------------------------------------------
LEMMA AcquireKeeps ==
  ASSUME IInv, NEW c \in Caller, Acquire(c)
  PROVE  IInv' /\ Sends /\ Buys
<1> DEFINE b == Advance(bucket, 0)
           w == WaitForToken(b)
           sent == [caller[c] EXCEPT !.at = "sent"]
           asleep == [caller[c] EXCEPT !.at = "asleep", !.sleep = w]
<1>1. /\ b \in BucketSet /\ b.blocked = bucket.blocked
      /\ w \in Nat /\ (w = 0 => b.blocked = 0 /\ Window <= b.tokens)
  <2>1. b \in BucketSet /\ b.blocked = bucket.blocked
    <3>1. 0 <= bucket.blocked /\ bucket.blocked - 0 = bucket.blocked
      BY Pieces
    <3>2. b.blocked = IF 0 <= bucket.blocked THEN bucket.blocked - 0 ELSE 0
      BY Pieces, AdvanceIsTyped
    <3>3. b \in BucketSet
      BY Pieces, AdvanceIsTyped
    <3> HIDE DEF b
    <3> QED
      BY <3>1, <3>2, <3>3
  <2> HIDE DEF b
  <2> QED
    BY <2>1, WaitIsTyped
<1>2. /\ caller[c].at = "acquire" /\ Holds(line, c)
      /\ UNCHANGED <<cached, shop, github, told, refused, held>>
  BY DEF Acquire
<1>3. \/ w = 0 /\ bucket' = Take(b) /\ caller' = [caller EXCEPT ![c].at = "sent"]
         /\ line' = Tail(line)
      \/ w > MaxWait /\ bucket' = b /\ End(c) /\ line' = Tail(line)
      \/ /\ ~(w > MaxWait) /\ bucket' = b /\ line' = line
         /\ caller' = [caller EXCEPT ![c].at = "asleep", ![c].sleep = w]
  BY DEF Acquire
<1> HIDE DEF b, w
<1>4. CASE w = 0 /\ bucket' = Take(b) /\ caller' = [caller EXCEPT ![c].at = "sent"]
           /\ line' = Tail(line)
  <2>1. sent \in CallerSet /\ sent.at = "sent" /\ caller' = [caller EXCEPT ![c] = sent]
    BY <1>4, CallerIsTyped, Pieces DEF CallerSet, Place
  <2>2. bucket' \in BucketSet /\ bucket'.blocked = bucket.blocked /\ bucket.blocked = 0
    BY <1>1, <1>4, TakeIsTyped
  <2>3. told = 0
    BY <2>2, Pieces DEF IInv, Blocked
  <2>4. refused[c] = 0
    BY <2>2, Pieces DEF IInv, Refused
  <2> HIDE DEF sent
  <2> QED
    BY <1>2, <1>4, <2>1, <2>2, <2>3, <2>4, OneMoves, Pieces, TailIsTyped
<1>5. CASE w > MaxWait /\ bucket' = b /\ End(c) /\ line' = Tail(line)
  BY <1>1, <1>2, <1>5, OneMoves, IdleIsTyped, Pieces, TailIsTyped DEF End
<1>6. CASE /\ ~(w > MaxWait) /\ bucket' = b /\ line' = line
           /\ caller' = [caller EXCEPT ![c].at = "asleep", ![c].sleep = w]
  <2>1. w \in 0 .. MaxWait
    BY <1>1, <1>6, ConstantsAreTyped
  <2>2. asleep \in CallerSet /\ asleep.at = "asleep"
        /\ caller' = [caller EXCEPT ![c] = asleep]
    BY <1>6, <2>1, CallerIsTyped, Pieces DEF CallerSet, Place
  <2> HIDE DEF asleep
  <2> QED
    BY <1>1, <1>2, <1>6, <2>2, OneMoves, Pieces
<1> QED
  BY <1>3, <1>4, <1>5, <1>6

LEMMA AnswerKeeps ==
  ASSUME IInv, NEW c \in Caller, NEW f \in BOOLEAN, NEW t \in RetryAfter \cup {None},
         github' \in [remaining : 0 .. Limit, turn : 1 .. Window],
         github'.turn = github.turn, Answer(c, f, t)
  PROVE  IInv' /\ Sends /\ Buys
<1> DEFINE a == [forbidden |-> f, retry |-> t, reset |-> github.turn,
                 remaining |-> github'.remaining]
           r == [caller[c] EXCEPT !.at = "answered", !.answer = a]
<1>1. a \in AnswerSet /\ a.reset = github.turn
  BY Pieces, ConstantsAreTyped DEF AnswerSet
<1>2. caller' = [caller EXCEPT ![c].at = "answered", ![c].answer = a]
  BY DEF Answer
<1> HIDE DEF a
<1>3. r \in CallerSet /\ r.at = "answered" /\ r.answer = a
      /\ caller' = [caller EXCEPT ![c] = r]
  <2>1. a \in AnswerSet \cup {None} /\ "answered" \in Place
    BY <1>1 DEF Place
  <2>2. r \in CallerSet /\ r.at = "answered" /\ r.answer = a
    BY <2>1, CallerIsTyped DEF CallerSet
  <2>3. caller' = [caller EXCEPT ![c] = r]
    BY <1>2, Pieces DEF CallerSet
  <2> QED
    BY <2>2, <2>3
<1>4. refused[c] = 0
  BY DEF Answer, IInv, Refused
<1> HIDE DEF r
<1> QED
  BY <1>1, <1>3, <1>4, OneMoves, Pieces DEF Answer

LEMMA GitHubAnswersKeeps ==
  ASSUME IInv, NEW c \in Caller, Serve(c) \/ RefusePrimary(c) \/ RefuseSecondary(c)
  PROVE  IInv' /\ Sends /\ Buys
<1>1. CASE Serve(c)
  <2>1. github' \in [remaining : 0 .. Limit, turn : 1 .. Window] /\ github'.turn = github.turn
    <3>1. github.remaining \in 0 .. Limit /\ github.remaining > 0
      BY <1>1, Pieces DEF Serve
    <3>2. github.remaining - 1 \in 0 .. Limit
      BY <3>1, ConstantsAreTyped
    <3> QED
      BY <1>1, <3>2, Pieces DEF Serve
  <2> QED
    BY <1>1, <2>1, AnswerKeeps DEF Serve
<1>2. CASE RefusePrimary(c)
  BY <1>2, AnswerKeeps, Pieces DEF RefusePrimary
<1>3. CASE RefuseSecondary(c)
  BY <1>3, AnswerKeeps, Pieces DEF RefuseSecondary
<1> QED
  BY <1>1, <1>2, <1>3
LEMMA AnswersMove ==
  ASSUME IInv, NEW c \in Caller, Receive(c)
  PROVE  \E r \in CallerSet : /\ caller' = [caller EXCEPT ![c] = r]
                              /\ r.at \in {"token", "idle"}
<1> DEFINE a == caller[c].answer
           limited == RateLimited(a) /\ caller[c].attempt < Attempts
           more == ~a.forbidden /\ caller[c].left > 1
           again == [caller[c] EXCEPT !.at = "token", !.late = FALSE, !.answer = None]
           retried == [again EXCEPT !.attempt = @ + 1]
           next == [again EXCEPT !.attempt = 1, !.left = @ - 1]
<1>1. \/ limited /\ caller' = [caller EXCEPT ![c] = retried]
      \/ more /\ caller' = [caller EXCEPT ![c] = next]
      \/ caller' = [caller EXCEPT ![c] = Idle]
  BY DEF Receive, End
<1>2. again \in CallerSet /\ again.at = "token"
      /\ again.attempt = caller[c].attempt /\ again.left = caller[c].left
  <2>1. FALSE \in BOOLEAN /\ None \in AnswerSet \cup {None} /\ "token" \in Place
    BY DEF Place
  <2> QED
    BY <2>1, CallerIsTyped DEF CallerSet
<1>3. caller[c].attempt \in 0 .. Attempts /\ caller[c].left \in 0 .. Requests
  BY CallerIsTyped DEF CallerSet
<1>4. limited => caller[c].attempt + 1 \in 0 .. Attempts
  BY <1>3, ConstantsAreTyped
<1>5. more => caller[c].left - 1 \in 0 .. Requests /\ 1 \in 0 .. Attempts
  BY <1>3, ConstantsAreTyped
<1> HIDE DEF again, limited, more
<1>6. limited => retried \in CallerSet /\ retried.at = "token"
  BY <1>2, <1>4 DEF CallerSet
<1>7. more => next \in CallerSet /\ next.at = "token"
  BY <1>2, <1>5 DEF CallerSet
<1> HIDE DEF retried, next
<1> QED
  BY <1>1, <1>6, <1>7, IdleIsTyped

LEMMA ReceiveKeeps ==
  ASSUME IInv, NEW c \in Caller, Receive(c)
  PROVE  IInv' /\ Sends /\ Buys
<1> DEFINE a == caller[c].answer
           new == RateLimited(a) /\ a.retry = None /\ a.reset > 0
<1> USE DEF IInv
<1>1. PICK r \in CallerSet : /\ caller' = [caller EXCEPT ![c] = r]
                             /\ r.at \in {"token", "idle"}
  BY AnswersMove
<1>2. /\ caller[c].at = "answered" /\ bucket' = Observe(bucket, a)
      /\ told' = Greater(told, Asked(a))
      /\ refused' = IF new THEN [refused EXCEPT ![c] = Lesser(2, @ + 1)] ELSE refused
      /\ UNCHANGED <<line, cached, shop, github, held>>
  BY DEF Receive
<1>3. a \in AnswerSet /\ a.reset \in {0, github.turn}
  BY <1>2 DEF Dated
<1>4. new => a.remaining = 0 /\ a.reset = github.turn
  BY <1>3 DEF RateLimited, AnswerSet
<1> HIDE DEF a, new
<1>5. /\ bucket' \in BucketSet /\ Asked(a) \in Nat
      /\ bucket.blocked <= bucket'.blocked /\ Asked(a) <= bucket'.blocked
      /\ a.remaining = 0 => a.reset <= Asked(a)
  BY <1>2, <1>3, Pieces, ObserveIsTyped
<1>6. bucket'.blocked \in Nat /\ github.turn \in Nat
  BY <1>5, Pieces, ConstantsAreTyped DEF BucketSet
<1>7. refused[c] = 0
  BY <1>2 DEF Refused
<1>8. /\ refused' \in [Caller -> 0 .. 2]
      /\ \A d \in Caller : refused'[d] # 0 => refused'[d] = 1 /\ (d # c => refused[d] # 0)
                            /\ (d = c => new)
  <2>1. CASE new
    <3>1. refused' = [refused EXCEPT ![c] = 1]
      BY <1>2, <1>7, <2>1 DEF Lesser
    <3> QED
      BY <2>1, <3>1, Pieces DEF Refused
  <2>2. CASE ~new
    BY <1>2, <1>7, <2>2, Pieces DEF Refused
  <2> QED
    BY <2>1, <2>2
<1>9. /\ caller \in [Caller -> CallerSet] /\ caller'[c] = r
      /\ \A d \in Caller : d # c => caller'[d] = caller[d]
  BY <1>1, Pieces
<1>10. told' \in Nat /\ told' <= bucket'.blocked
  BY <1>2, <1>5, <1>6, Pieces DEF Greater, Blocked
<1>11. Typed'
  BY <1>1, <1>2, <1>5, <1>8, <1>10 DEF Typed
<1>12. Buyer'
  <2> SUFFICES ASSUME NEW d \in Caller, caller'[d].at = "fetch" PROVE Holds(shop', d)
    BY DEF Buyer, Holds
  <2> QED
    BY <1>1, <1>2, <1>9 DEF Buyer
<1>13. Blocked'
  BY <1>10 DEF Blocked
<1>14. Dated'
  <2> SUFFICES ASSUME NEW d \in Caller, caller'[d].at = "answered"
               PROVE  caller'[d].answer \in AnswerSet
                      /\ caller'[d].answer.reset \in {0, github'.turn}
    BY DEF Dated, AnswerSet
  <2> QED
    BY <1>1, <1>2, <1>9 DEF Dated
<1>15. Refused'
  <2> SUFFICES ASSUME NEW d \in Caller, refused'[d] # 0
               PROVE  /\ refused'[d] = 1 /\ github'.turn <= bucket'.blocked
                      /\ caller'[d].at \notin {"sent", "answered"}
    BY DEF Refused
  <2>1. github' = github /\ bucket.blocked \in Nat
    BY <1>2, Pieces
  <2>2. CASE d = c
    BY <1>1, <1>4, <1>5, <1>6, <1>8, <1>9, <2>1, <2>2
  <2>3. CASE d # c
    <3>1. refused[d] # 0 /\ github.turn <= bucket.blocked
          /\ caller[d].at \notin {"sent", "answered"}
      BY <1>8, <2>3 DEF Refused
    <3> QED
      BY <1>5, <1>6, <1>8, <1>9, <2>1, <2>3, <3>1
  <2> QED
    BY <2>2, <2>3
<1>16. Sends /\ Buys
  BY <1>1, <1>9 DEF Sends, Buys
<1> QED
  BY <1>11, <1>12, <1>13, <1>14, <1>15, <1>16

LEMMA ElsewhereKeeps ==
  ASSUME IInv, Elsewhere
  PROVE  IInv' /\ Sends /\ Buys
<1> USE DEF IInv
<1>1. github.remaining \in 0 .. Limit /\ github.remaining > 0
  BY Pieces DEF Elsewhere
<1>2. github.remaining - 1 \in 0 .. Limit
  BY <1>1, ConstantsAreTyped
<1>3. github' \in [remaining : 0 .. Limit, turn : 1 .. Window] /\ github'.turn = github.turn
  BY <1>2, Pieces DEF Elsewhere
<1>4. UNCHANGED <<bucket, line, cached, shop, caller, told, refused, held>>
  BY DEF Elsewhere
<1>5. Typed'
  BY <1>3, <1>4 DEF Typed
<1>6. Buyer' /\ Blocked'
  BY <1>4 DEF Buyer, Blocked, Holds
<1>7. Dated' /\ Refused'
  BY <1>3, <1>4 DEF Dated, Refused, AnswerSet
<1>8. Sends /\ Buys
  BY <1>4 DEF Sends, Buys
<1> QED
  BY <1>5, <1>6, <1>7, <1>8
-------------------------------------------------------------------------------
LEMMA LessIsTyped ==
  ASSUME NEW m \in Nat, NEW n \in 0 .. m
  PROVE  Less(n) \in 0 .. m /\ Less(n) = IF n = 0 THEN 0 ELSE n - 1
  BY DEF Less, Greater

LEMMA OlderIsTyped ==
  ASSUME NEW s \in CallerSet
  PROVE  /\ Older(s) \in CallerSet /\ Older(s).at = s.at
         /\ s.answer \in AnswerSet =>
              Older(s).answer \in AnswerSet /\ Older(s).answer.reset = Less(s.answer.reset)
<1> DEFINE late == s.at \in {"fetch", "sent", "answered"}
           a == Aged(s.answer)
<1>1. /\ s.token \in 0 .. TokenLife /\ s.sleep \in 0 .. MaxWait
      /\ s.answer \in AnswerSet \cup {None}
  BY DEF CallerSet
<1>2. Less(s.token) \in 0 .. TokenLife /\ Less(s.sleep) \in 0 .. MaxWait
  BY <1>1, ConstantsAreTyped, LessIsTyped
<1>3. ASSUME s.answer \in AnswerSet
      PROVE  /\ s.answer # None /\ a \in AnswerSet /\ a.reset = Less(s.answer.reset)
  <2>1. s.answer # None
    BY <1>3, AnswerIsSome
  <2>2. s.answer.reset \in 0 .. Window
    BY <1>3 DEF AnswerSet
  <2>3. Less(s.answer.reset) \in 0 .. Window
    BY <2>2, ConstantsAreTyped, LessIsTyped
  <2> QED
    BY <1>3, <2>1, <2>3 DEF AnswerSet, Aged
<1>4. a \in AnswerSet \cup {None}
  BY <1>1, <1>3 DEF Aged
<1>5. late \in BOOLEAN
  OBVIOUS
<1>6. Older(s) = [s EXCEPT !.token = Less(s.token), !.sleep = Less(s.sleep),
                           !.late = late, !.answer = a]
  BY DEF Older
<1> HIDE DEF a, late
<1>7. Older(s) \in CallerSet /\ Older(s).at = s.at /\ Older(s).answer = a
  BY <1>2, <1>4, <1>5, <1>6 DEF CallerSet
<1> QED
  BY <1>3, <1>7

LEMMA TickKeeps ==
  ASSUME IInv, Tick
  PROVE  IInv' /\ Sends /\ Buys
<1> USE DEF IInv
<1>1. /\ bucket' \in BucketSet /\ bucket'.blocked \in Nat /\ bucket.blocked \in Nat
      /\ bucket'.blocked = IF 1 <= bucket.blocked THEN bucket.blocked - 1 ELSE 0
  BY Pieces, AdvanceIsTyped DEF Tick, BucketSet
<1>2. cached' \in 0 .. TokenLife
  BY Pieces, ConstantsAreTyped, LessIsTyped DEF Tick
<1>3. /\ caller' \in [Caller -> CallerSet]
      /\ \A d \in Caller : caller[d] \in CallerSet /\ caller'[d] = Older(caller[d])
                            /\ caller'[d].at = caller[d].at
  BY Pieces, OlderIsTyped DEF Tick
<1>4. github.turn \in 1 .. Window /\ github.remaining \in 0 .. Limit
  BY Pieces
<1>5. /\ github' \in [remaining : 0 .. Limit, turn : 1 .. Window]
      /\ github.turn > 1 => github'.turn = github.turn - 1
  <2>1. CASE github.turn > 1
    <3>1. github.turn - 1 \in 1 .. Window
      BY <1>4, <2>1, ConstantsAreTyped
    <3> QED
      BY <2>1, <3>1, Pieces DEF Tick
  <2>2. CASE ~(github.turn > 1)
    <3>1. Limit \in 0 .. Limit /\ Window \in 1 .. Window
      BY ConstantsAreTyped
    <3> QED
      BY <2>2, <3>1 DEF Tick
  <2> QED
    BY <2>1, <2>2
<1>6. /\ refused' \in [Caller -> 0 .. 2]
      /\ \A d \in Caller : refused'[d] # 0 => github.turn > 1 /\ refused'[d] = refused[d]
  BY Pieces DEF Tick
<1>7. told' \in Nat /\ told' = IF told = 0 THEN 0 ELSE told - 1
  BY Pieces, LessIsTyped DEF Tick
<1>8. held' \in [Caller -> 0 .. HeldCap]
  <2>1. \A d \in Caller : 0 \in 0 .. HeldCap /\ Lesser(HeldCap, held[d] + 1) \in 0 .. HeldCap
    BY Pieces, ConstantsAreTyped DEF Lesser
  <2> QED
    BY <2>1 DEF Tick
<1>9. line' = line /\ shop' = shop
  BY DEF Tick
<1>10. Typed'
  BY <1>1, <1>2, <1>3, <1>5, <1>6, <1>7, <1>8, <1>9 DEF Typed
<1>11. Buyer'
  BY <1>3, <1>9 DEF Buyer, Holds
<1>12. Blocked'
  BY <1>1, <1>7, Pieces DEF Blocked
<1>13. Dated'
  <2> SUFFICES ASSUME NEW d \in Caller, caller'[d].at = "answered"
               PROVE  caller'[d].answer \in AnswerSet
                      /\ caller'[d].answer.reset \in {0, github'.turn}
    BY DEF Dated, AnswerSet
  <2>1. caller[d].answer \in AnswerSet /\ caller[d].answer.reset \in {0, github.turn}
    BY <1>3 DEF Dated
  <2>2. caller'[d].answer \in AnswerSet /\ caller'[d].answer.reset = Less(caller[d].answer.reset)
    BY <1>3, <2>1, OlderIsTyped
  <2>3. caller[d].answer.reset \in 0 .. Window
    BY <2>1 DEF AnswerSet
  <2>4. caller'[d].answer.reset = IF caller[d].answer.reset = 0 THEN 0
                                  ELSE caller[d].answer.reset - 1
    BY <2>2, <2>3, ConstantsAreTyped, LessIsTyped
  <2>5. caller'[d].answer.reset \in {0, github'.turn}
    BY <1>4, <1>5, <2>1, <2>4
  <2> QED
    BY <2>2, <2>5
<1>14. Refused'
  <2> SUFFICES ASSUME NEW d \in Caller, refused'[d] # 0
               PROVE  /\ refused'[d] = 1 /\ github'.turn <= bucket'.blocked
                      /\ caller'[d].at \notin {"sent", "answered"}
    BY DEF Refused
  <2>1. /\ github.turn > 1 /\ refused'[d] = 1 /\ github.turn <= bucket.blocked
        /\ caller[d].at \notin {"sent", "answered"}
    BY <1>6 DEF Refused
  <2>2. github'.turn <= bucket'.blocked
    BY <1>1, <1>4, <1>5, <2>1
  <2> QED
    BY <1>3, <2>1, <2>2
<1>15. Sends /\ Buys
  BY <1>3 DEF Sends, Buys
<1> QED
  BY <1>10, <1>11, <1>12, <1>13, <1>14, <1>15
-------------------------------------------------------------------------------
LEMMA InitIInv == ASSUME Init PROVE IInv
<1>1. DefaultLimit * Window \in Nat
  BY ConstantsAreTyped, ProductIsNat
<1>2. bucket \in BucketSet /\ bucket.blocked = 0
  BY <1>1 DEF Init, BucketSet
<1>3. caller \in [Caller -> CallerSet] /\ \A c \in Caller : caller[c].at = "idle"
  BY IdleIsTyped DEF Init
<1>4. Limit \in 0 .. Limit /\ Window \in 1 .. Window /\ 0 \in 0 .. TokenLife /\ 0 \in 0 .. HeldCap
      /\ 0 \in 0 .. 2
  BY ConstantsAreTyped
<1>5. Typed
  BY <1>2, <1>3, <1>4 DEF Init, Typed
<1>6. Buyer /\ Dated
  BY <1>3 DEF Buyer, Dated
<1>7. Blocked /\ Refused
  BY <1>2 DEF Init, Blocked, Refused
<1> QED
  BY <1>5, <1>6, <1>7 DEF IInv

LEMMA StepKeeps ==
  ASSUME IInv, [Next]_vars
  PROVE  IInv' /\ Sends /\ Buys
<1>1. CASE Elsewhere
  BY <1>1, ElsewhereKeeps
<1>2. CASE Tick
  BY <1>2, TickKeeps
<1>3. ASSUME NEW c \in Caller, Step(c) PROVE IInv' /\ Sends /\ Buys
  BY <1>3, ReadTokenKeeps, BuyTokenKeeps, FetchedKeeps, FetchFailsKeeps, AcquireKeeps,
     WakeKeeps, GitHubAnswersKeeps, ReceiveKeeps, LoseKeeps DEF Step
<1>4. ASSUME NEW c \in Caller, NEW n \in 1 .. Requests, Start(c, n)
      PROVE  IInv' /\ Sends /\ Buys
  BY <1>4, StartKeeps
<1>5. CASE UNCHANGED vars
  <2>1. UNCHANGED <<bucket, line, cached, shop, caller, github, told, refused, held>>
    BY <1>5 DEF vars
  <2>2. IInv'
    BY <2>1 DEF IInv, Typed, Buyer, Blocked, Dated, Refused, Holds, BucketSet, AnswerSet, CallerSet
  <2> QED
    BY <2>1, <2>2 DEF Sends, Buys
<1> QED
  BY <1>1, <1>2, <1>3, <1>4, <1>5 DEF Next

LEMMA Inductive == Safety => []IInv
<1>1. IInv /\ [Next]_vars => IInv'
  BY StepKeeps
<1> QED
  BY <1>1, InitIInv, PTL DEF Safety

(* The bucket, both locks, GitHub's counters and every caller are what      *)
(* TypeOK says, whatever is answered when.                                  *)
THEOREM TypeCorrectness == Spec => []TypeOK
<1>1. ASSUME IInv PROVE TypeOK
  <2>1. /\ bucket.limit \in {DefaultLimit, Limit} /\ bucket.tokens \in Int
        /\ bucket.resets \in Nat \cup {None} /\ bucket.blocked \in Nat
    BY <1>1, Pieces DEF BucketSet
  <2>2. ASSUME NEW c \in Caller
        PROVE  /\ caller[c].at \in Place /\ caller[c].token \in 0 .. TokenLife
               /\ caller[c].left \in 0 .. Requests
               /\ caller[c].attempt \in 0 .. Attempts
               /\ caller[c].sleep \in 0 .. MaxWait
    BY <1>1, Pieces DEF CallerSet
  <2>3. github.remaining \in 0 .. Limit /\ github.turn \in 1 .. Window
    BY <1>1, Pieces
  <2> QED
    BY <1>1, <2>1, <2>2, <2>3, Pieces DEF TypeOK
<1> QED
  BY <1>1, Inductive, PTL DEF Spec

(* RateLimiter.acquire never takes a token that is not there.               *)
THEOREM NeverOverdrawnHolds == Spec => []NeverOverdrawn
<1>1. IInv => NeverOverdrawn
  BY DEF IInv, Typed, NeverOverdrawn, BucketSet
<1> QED
  BY <1>1, Inductive, PTL DEF Spec

(* A caller that was told the budget is spent is refused once in GitHub's   *)
(* window, whatever else is answered, late or early, and however many       *)
(* callers and processes share the budget.                                  *)
THEOREM RefusedOnceHolds == Spec => []RefusedOnce
<1>1. IInv => RefusedOnce
  BY Pieces DEF IInv, Refused, RefusedOnce
<1> QED
  BY <1>1, Inductive, PTL DEF Spec

(* No request leaves while a wait GitHub asked for is not over.             *)
THEOREM WaitsAreHonoured == Spec => HonoursEveryWait
<1>1. IInv /\ [Next]_vars =>
        [\A c \in Caller : caller'[c].at = "sent" /\ caller[c].at # "sent" => told = 0]_vars
  BY StepKeeps DEF Sends
<1> QED
  BY <1>1, Inductive, PTL DEF Spec, Safety, HonoursEveryWait

(* No installation token is bought while the cached one is usable.          *)
THEOREM TokensAreBoughtOnce == Spec => BuysOnce
<1>1. IInv /\ [Next]_vars =>
        [\A c \in Caller : caller'[c].at = "fetch" /\ caller[c].at # "fetch"
           => ~Usable(cached)]_vars
  BY StepKeeps DEF Buys
<1> QED
  BY <1>1, Inductive, PTL DEF Spec, Safety, BuysOnce
-------------------------------------------------------------------------------
LEMMA QuotientGrows ==
  ASSUME NEW l \in Nat \ {0}, NEW x \in Nat, NEW y \in Nat, y + l <= x
  PROVE  y \div l + 1 <= x \div l
<1>1. (y + l) \div l = y \div l + 1
  OBVIOUS
<1>2. (y + l) \div l <= x \div l
  OBVIOUS
<1> QED
  BY <1>1, <1>2

(* What is left of a wait, one unit of time later.                          *)
Refill(b) == IF b.tokens >= Window THEN 0
             ELSE (Window - b.tokens + b.limit - 1) \div b.limit

LEMMA RefillFalls ==
  ASSUME NEW b \in BucketSet, NEW d \in BucketSet, d.limit = b.limit,
         d.tokens >= Window \/ d.tokens >= b.tokens + b.limit
  PROVE  /\ Refill(b) \in Nat /\ Refill(d) \in Nat
         /\ Refill(d) = 0 \/ Refill(d) + 1 <= Refill(b)
<1>1. /\ b.limit \in Nat \ {0} /\ b.tokens \in Nat /\ d.tokens \in Nat /\ Window \in Nat \ {0}
  BY ConstantsAreTyped DEF BucketSet
<1>2. Refill(b) \in Nat /\ Refill(d) \in Nat
  <2>1. ASSUME NEW e \in BucketSet PROVE Refill(e) \in Nat
    <3>1. e.limit \in Nat \ {0} /\ e.tokens \in Nat
      BY ConstantsAreTyped DEF BucketSet
    <3>2. CASE e.tokens >= Window
      BY <3>2 DEF Refill
    <3>3. CASE ~(e.tokens >= Window)
      <4>1. Window - e.tokens \in Nat \ {0}
        BY <1>1, <3>1, <3>3
      <4>2. (Window - e.tokens + e.limit - 1) \div e.limit \in Nat
        BY <3>1, <4>1, RoundsUp
      <4> QED
        BY <3>3, <4>2 DEF Refill
    <3> QED
      BY <3>2, <3>3
  <2> QED
    BY <2>1
<1>3. CASE d.tokens >= Window
  BY <1>3, <1>2 DEF Refill
<1>4. CASE ~(d.tokens >= Window)
  <2> DEFINE x == Window - b.tokens + b.limit - 1
             y == Window - d.tokens + b.limit - 1
  <2>1. x \in Nat /\ y \in Nat /\ y + b.limit <= x /\ ~(b.tokens >= Window)
    BY <1>1, <1>4
  <2>2. Refill(b) = x \div b.limit /\ Refill(d) = y \div b.limit
    BY <1>4, <2>1 DEF Refill
  <2> HIDE DEF x, y
  <2> QED
    BY <1>1, <1>2, <2>1, <2>2, QuotientGrows
<1> QED
  BY <1>3, <1>4


LEMMA AdvanceTwice ==
  ASSUME NEW b \in BucketSet
  PROVE  /\ Advance(Advance(b, 0), 0) = Advance(b, 0)
         /\ Advance(Advance(b, 1), 0) = Advance(b, 1)
         /\ Advance(b, 1).limit = b.limit /\ Advance(b, 0).limit = b.limit
         /\ \/ Advance(b, 1).tokens >= Window
            \/ Advance(b, 1).tokens >= Advance(b, 0).tokens + b.limit
<1> DEFINE cap == b.limit * Window
<1>1. /\ b.limit \in Nat \ {0} /\ b.tokens \in Nat /\ b.blocked \in Nat
      /\ b.resets \in Nat \cup {None} /\ None \notin Int /\ Window \in Nat \ {0}
  BY ConstantsAreTyped DEF BucketSet
<1>2. cap \in Nat /\ Window <= cap
  BY <1>1
<1> HIDE DEF cap
<1>3. ASSUME NEW d \in BucketSet, d.limit = b.limit, NEW n \in {0, 1}
      PROVE  Advance(d, n) =
               [limit   |-> b.limit,
                tokens  |-> IF d.resets # None /\ d.resets <= n THEN cap
                            ELSE IF d.tokens + n * b.limit < cap THEN d.tokens + n * b.limit
                            ELSE cap,
                resets  |-> IF d.resets = None \/ d.resets <= n THEN None ELSE d.resets - n,
                blocked |-> IF d.blocked <= n THEN 0 ELSE d.blocked - n]
  <2>1. d.tokens \in Nat /\ d.blocked \in Nat /\ d.resets \in Nat \cup {None}
    BY <1>3, ConstantsAreTyped DEF BucketSet
  <2>2. n * b.limit \in Nat
    BY <1>1, <1>3
  <2>3. Lesser(cap, cap) = cap /\ Lesser(cap, d.tokens + n * b.limit) =
          IF d.tokens + n * b.limit < cap THEN d.tokens + n * b.limit ELSE cap
    BY <1>2, <2>1, <2>2 DEF Lesser
  <2>4. Greater(0, d.blocked - n) = IF d.blocked <= n THEN 0 ELSE d.blocked - n
    BY <2>1 DEF Greater
  <2> QED
    BY <1>1, <1>3, <2>1, <2>3, <2>4 DEF Advance, cap
<1>4. ASSUME NEW n \in {0, 1}
      PROVE  /\ Advance(b, n) \in BucketSet /\ Advance(b, n).limit = b.limit
             /\ Advance(b, n).tokens <= cap
             /\ Advance(b, n).resets = None \/ Advance(b, n).resets > 0
  <2>1. Advance(b, n) \in BucketSet
    BY AdvanceIsTyped
  <2>2. n * b.limit \in Nat
    BY <1>1
  <2> QED
    BY <1>1, <1>2, <1>3, <2>1, <2>2
<1>5. ASSUME NEW n \in {0, 1}
      PROVE  Advance(Advance(b, n), 0) = Advance(b, n)
  <2> DEFINE d == Advance(b, n)
  <2>0. /\ d \in BucketSet /\ d.limit = b.limit /\ d.tokens <= cap
        /\ d.resets = None \/ d.resets > 0
    BY <1>4
  <2> HIDE DEF d
  <2>1. /\ d.tokens \in Nat /\ d.blocked \in Nat /\ d.resets \in Nat \cup {None}
        /\ d = [limit |-> d.limit, tokens |-> d.tokens, resets |-> d.resets,
                blocked |-> d.blocked]
    BY <2>0 DEF BucketSet
  <2>2. /\ 0 * b.limit = 0
        /\ (IF d.resets # None /\ d.resets <= 0 THEN cap
            ELSE IF d.tokens + 0 < cap THEN d.tokens + 0 ELSE cap) = d.tokens
        /\ (IF d.resets = None \/ d.resets <= 0 THEN None ELSE d.resets - 0) = d.resets
        /\ (IF d.blocked <= 0 THEN 0 ELSE d.blocked - 0) = d.blocked
    BY <1>1, <1>2, <2>0, <2>1
  <2>3. Advance(d, 0) = d
    BY <1>3, <2>0, <2>1, <2>2
  <2> QED
    BY <2>3 DEF d
<1>6. \/ Advance(b, 1).tokens >= Window
      \/ Advance(b, 1).tokens >= Advance(b, 0).tokens + b.limit
  <2>1. /\ Advance(b, 1).tokens = IF b.resets # None /\ b.resets <= 1 THEN cap
                                  ELSE IF b.tokens + 1 * b.limit < cap
                                  THEN b.tokens + 1 * b.limit ELSE cap
        /\ Advance(b, 0).tokens = IF b.resets # None /\ b.resets <= 0 THEN cap
                                  ELSE IF b.tokens + 0 * b.limit < cap
                                  THEN b.tokens + 0 * b.limit ELSE cap
    BY <1>3
  <2> QED
    BY <1>1, <1>2, <2>1
<1> QED
  BY <1>4, <1>5, <1>6

LEMMA WaitFalls ==
  ASSUME NEW b \in BucketSet
  PROVE  /\ WaitForToken(Advance(b, 0)) \in Nat
         /\ WaitForToken(Advance(b, 1)) \in Nat
         /\ \/ WaitForToken(Advance(b, 1)) = 0
            \/ WaitForToken(Advance(b, 1)) + 1 <= WaitForToken(Advance(b, 0))
<1> DEFINE c == Advance(b, 0)
           d == Advance(b, 1)
<1>1. /\ c \in BucketSet /\ d \in BucketSet /\ d.limit = c.limit
      /\ d.tokens >= Window \/ d.tokens >= c.tokens + c.limit
  BY AdvanceIsTyped, AdvanceTwice
<1>2. /\ b.blocked \in Nat /\ c.blocked = b.blocked
      /\ d.blocked = IF 1 <= b.blocked THEN b.blocked - 1 ELSE 0
  <2>1. b.blocked \in Nat
    BY DEF BucketSet
  <2>2. c.blocked = IF 0 <= b.blocked THEN b.blocked - 0 ELSE 0
    BY AdvanceIsTyped
  <2>3. d.blocked = IF 1 <= b.blocked THEN b.blocked - 1 ELSE 0
    BY AdvanceIsTyped
  <2> HIDE DEF c, d
  <2> QED
    BY <2>1, <2>2, <2>3
<1> HIDE DEF c, d
<1>3. /\ Refill(c) \in Nat /\ Refill(d) \in Nat
      /\ Refill(d) = 0 \/ Refill(d) + 1 <= Refill(c)
  BY <1>1, RefillFalls
<1>4. /\ WaitForToken(c) = Greater(c.blocked, Refill(c))
      /\ WaitForToken(d) = Greater(d.blocked, Refill(d))
  BY DEF WaitForToken, Refill
<1>5. /\ WaitForToken(c) \in Nat /\ WaitForToken(d) \in Nat
      /\ WaitForToken(d) = 0 \/ WaitForToken(d) + 1 <= WaitForToken(c)
  BY <1>2, <1>3, <1>4 DEF Greater
<1> QED
  BY <1>5 DEF c, d
-------------------------------------------------------------------------------
(* A caller in line outlives the wait: every caller before it sleeps out    *)
(* its own wait and then, in flight, may bring an answer that makes the     *)
(* next wait anew.                                                          *)
InFlight == {c \in Caller : caller[c].at \in {"sent", "answered"}}

(* How long the head h of the line waits, unless an answer comes.           *)
Service(h, b) ==
  LET w == WaitForToken(Advance(b, 0))
  IN IF h.at = "asleep" THEN h.sleep + (IF w <= h.sleep THEN 0 ELSE MaxWait)
     ELSE IF w = 0 THEN 0 ELSE MaxWait

Debt == MaxWait * Cardinality(InFlight) + Service(caller[Head(line)], bucket)

Behind(i) == (i - 1) * (2 * MaxWait)

Lined ==
  /\ \A i, j \in 1 .. Len(line) : line[i] = line[j] => i = j
  /\ \A c \in Caller : caller[c].at \in {"acquire", "asleep"}
                         <=> \E i \in 1 .. Len(line) : line[i] = c
  /\ \A c \in Caller : caller[c].at = "asleep" => Holds(line, c)

Outlives == \A i \in 1 .. Len(line) : Behind(i) + Debt < caller[line[i]].token

(* What the theorem assumes of the constants: the last of n callers can be  *)
(* kept 2n waits.  A wait is 60 seconds at most, a token is renewed 300     *)
(* before its end, and one caller at a time is what the worker has.         *)
RenewedInTime ==
  /\ IsFiniteSet(Caller)
  /\ 2 * Cardinality(Caller) * MaxWait <= RenewBefore

TInv == IInv /\ Lined /\ Outlives /\ TokenAlive

LEMMA ProductGrows ==
  ASSUME NEW k \in Nat, NEW m \in Nat, NEW n \in Nat, m <= n
  PROVE  k * m <= k * n
<1>1. k * n = k * m + k * (n - m)
  OBVIOUS
<1>2. k * (n - m) \in Nat /\ k * m \in Nat
  BY ProductIsNat
<1> QED
  BY <1>1, <1>2

LEMMA BehindIsTyped ==
  ASSUME NEW i \in Nat \ {0}
  PROVE  Behind(i) \in Nat /\ Behind(1) = 0 /\ Behind(i + 1) = Behind(i) + 2 * MaxWait
<1>1. 2 * MaxWait \in Nat /\ i - 1 \in Nat
  BY ConstantsAreTyped
<1> DEFINE m == 2 * MaxWait
<1>2. (i - 1) * m \in Nat /\ ((i + 1) - 1) * m = (i - 1) * m + m /\ (1 - 1) * m = 0
  <2> HIDE DEF m
  <2> QED
    BY <1>1, ProductIsNat DEF m
<1> QED
  BY <1>2 DEF Behind

LEMMA ServiceIsTyped ==
  ASSUME NEW h \in CallerSet, NEW b \in BucketSet
  PROVE  Service(h, b) \in 0 .. 2 * MaxWait
<1>1. h.sleep \in 0 .. MaxWait /\ MaxWait \in Nat /\ WaitForToken(Advance(b, 0)) \in Nat
  BY ConstantsAreTyped, WaitFalls DEF CallerSet
<1> QED
  BY <1>1 DEF Service

LEMMA FlightIsTyped ==
  ASSUME IsFiniteSet(Caller)
  PROVE  /\ IsFiniteSet(InFlight) /\ InFlight \subseteq Caller
         /\ Cardinality(InFlight) \in Nat /\ MaxWait * Cardinality(InFlight) \in Nat
<1>1. InFlight \in SUBSET Caller
  BY DEF InFlight
<1>2. IsFiniteSet(InFlight) /\ Cardinality(InFlight) \in Nat
  BY <1>1, FS_Subset, FS_CardinalityType
<1> QED
  BY <1>1, <1>2, ConstantsAreTyped, ProductIsNat

LEMMA HeadIsFirst ==
  ASSUME IInv, line # <<>>
  PROVE  /\ Head(line) = line[1] /\ 1 \in 1 .. Len(line) /\ line[1] \in Caller
         /\ caller[line[1]] \in CallerSet
  BY Pieces

LEMMA DebtIsTyped ==
  ASSUME IInv, IsFiniteSet(Caller), line # <<>>
  PROVE  Debt \in Nat
<1>1. Service(caller[Head(line)], bucket) \in Nat
  <2>1. caller[Head(line)] \in CallerSet /\ bucket \in BucketSet
    BY HeadIsFirst, Pieces
  <2>2. Service(caller[Head(line)], bucket) \in 0 .. 2 * MaxWait
    BY <2>1, ServiceIsTyped
  <2> QED
    BY <2>2, ConstantsAreTyped
<1>2. MaxWait * Cardinality(InFlight) \in Nat
  BY FlightIsTyped
<1> QED
  BY <1>1, <1>2 DEF Debt

(* There is room for a caller that is neither in line nor in flight.        *)
LEMMA Room ==
  ASSUME IInv, Lined, IsFiniteSet(Caller), NEW c \in Caller,
         caller[c].at \notin {"acquire", "asleep", "sent", "answered"}
  PROVE  Len(line) + Cardinality(InFlight) + 1 <= Cardinality(Caller)
<1> DEFINE busy == InFlight \cup {c}
           rest == Caller \ busy
           n == Len(line)
<1>1. /\ line \in Seq(Caller) /\ n \in Nat /\ line \in [1 .. n -> Caller]
  BY Pieces
<1>2. /\ IsFiniteSet(busy) /\ Cardinality(busy) = Cardinality(InFlight) + 1
      /\ Cardinality(InFlight) \in Nat /\ busy \subseteq Caller
  BY FlightIsTyped, FS_AddElement DEF InFlight
<1>3. /\ IsFiniteSet(rest)
      /\ Cardinality(rest) = Cardinality(Caller) - Cardinality(busy)
      /\ Cardinality(Caller) \in Nat
  <2>1. Caller \cap busy = busy
    BY <1>2
  <2>2. /\ IsFiniteSet(Caller \ busy)
        /\ Cardinality(Caller \ busy) = Cardinality(Caller) - Cardinality(Caller \cap busy)
    BY FS_Difference
  <2>3. Cardinality(Caller) \in Nat
    BY FS_CardinalityType
  <2> HIDE DEF busy
  <2> QED
    BY <2>1, <2>2, <2>3
<1>4. \A i \in 1 .. n : line[i] \in rest
  BY <1>1 DEF Lined, InFlight
<1>5. line \in Injection(1 .. n, rest)
  BY <1>1, <1>4 DEF Lined, Injection, IsInjective
<1>6. Cardinality(1 .. n) <= Cardinality(rest)
  BY <1>3, <1>5, FS_Injection
<1>7. Cardinality(1 .. n) = n
  BY <1>1, FS_Interval
<1> HIDE DEF rest, busy, n
<1>8. n + Cardinality(InFlight) + 1 <= Cardinality(Caller)
  BY <1>1, <1>2, <1>3, <1>6, <1>7
<1> QED
  BY <1>8 DEF n
-------------------------------------------------------------------------------
LEMMA FlightChanges ==
  ASSUME IInv, IsFiniteSet(Caller), NEW c \in Caller, NEW r \in CallerSet,
         caller' = [caller EXCEPT ![c] = r]
  PROVE  LET f == MaxWait * Cardinality(InFlight)
             was == caller[c].at \in {"sent", "answered"}
             is == r.at \in {"sent", "answered"}
         IN /\ f \in Nat
            /\ (was <=> is) => MaxWait * Cardinality(InFlight') = f
            /\ ~was /\ is => MaxWait * Cardinality(InFlight') = f + MaxWait
            /\ was /\ ~is => MaxWait * Cardinality(InFlight') + MaxWait = f
<1> DEFINE n == Cardinality(InFlight)
<1>1. /\ caller \in [Caller -> CallerSet] /\ caller'[c] = r
      /\ \A d \in Caller : d # c => caller'[d] = caller[d]
  BY Pieces
<1>2. /\ IsFiniteSet(InFlight) /\ n \in Nat /\ MaxWait * n \in Nat /\ MaxWait \in Nat
  BY FlightIsTyped, ConstantsAreTyped
<1>3. CASE caller[c].at \in {"sent", "answered"} <=> r.at \in {"sent", "answered"}
  <2>1. InFlight' = InFlight
    BY <1>1, <1>3 DEF InFlight
  <2> QED
    BY <1>2, <1>3, <2>1
<1>4. CASE caller[c].at \notin {"sent", "answered"} /\ r.at \in {"sent", "answered"}
  <2>1. InFlight' = InFlight \cup {c} /\ c \notin InFlight
    BY <1>1, <1>4 DEF InFlight
  <2>2. Cardinality(InFlight') = n + 1
    BY <1>2, <2>1, FS_AddElement
  <2>3. MaxWait * (n + 1) = MaxWait * n + MaxWait
    BY <1>2
  <2> QED
    BY <1>2, <1>4, <2>2, <2>3
<1>5. CASE caller[c].at \in {"sent", "answered"} /\ r.at \notin {"sent", "answered"}
  <2>1. InFlight' = InFlight \ {c} /\ c \in InFlight
    BY <1>1, <1>5 DEF InFlight
  <2>2. Cardinality(InFlight') = n - 1
    BY <1>2, <2>1, FS_RemoveElement
  <2>3. MaxWait * (n - 1) + MaxWait = MaxWait * n
    BY <1>2
  <2> QED
    BY <1>2, <1>5, <2>2, <2>3
<1> QED
  BY <1>3, <1>4, <1>5

LEMMA SameLine ==
  ASSUME TInv, IsFiniteSet(Caller), NEW c \in Caller, NEW r \in CallerSet,
         caller' = [caller EXCEPT ![c] = r], line' = line, IInv',
         r.at \in {"acquire", "asleep"} <=> caller[c].at \in {"acquire", "asleep"},
         r.at = "asleep" => Holds(line, c),
         r.at \in {"acquire", "asleep"} => r.token = caller[c].token,
         r.at # "sent",
         line # <<>> => Debt' <= Debt
  PROVE  TInv'
<1> USE DEF TInv
<1>1. /\ caller \in [Caller -> CallerSet] /\ caller'[c] = r
      /\ \A d \in Caller : d # c => caller'[d] = caller[d]
  BY Pieces
<1>2. line \in Seq(Caller) /\ \A i \in 1 .. Len(line) : line[i] \in Caller
  BY Pieces
<1>3. Lined'
  BY <1>1 DEF Lined, Holds
<1>4. Outlives'
  <2> SUFFICES ASSUME NEW i \in 1 .. Len(line)
               PROVE  Behind(i) + Debt' < caller'[line[i]].token
    BY DEF Outlives, Behind
  <2>1. line # <<>> /\ i \in Nat \ {0}
    BY <1>2
  <2>2. Debt \in Nat /\ Debt' \in Nat
    <3>1. Debt \in Nat
      BY <2>1, DebtIsTyped
    <3>2. (IInv /\ IsFiniteSet(Caller) /\ line # <<>> => Debt \in Nat)'
      BY DebtIsTyped, PTL
    <3> QED
      BY <2>1, <3>1, <3>2
  <2>3. caller[line[i]].at \in {"acquire", "asleep"}
    BY <1>2 DEF Lined
  <2>4. caller'[line[i]].token = caller[line[i]].token
    BY <1>1, <1>2, <2>3
  <2>5. Behind(i) + Debt < caller[line[i]].token
    BY DEF Outlives
  <2>6. caller[line[i]].token \in 0 .. TokenLife /\ TokenLife \in Nat
    BY <1>1, <1>2, ConstantsAreTyped DEF CallerSet
  <2>7. Behind(i) \in Nat
    BY <2>1, BehindIsTyped
  <2> HIDE DEF TInv
  <2> QED
    BY <2>1, <2>2, <2>4, <2>5, <2>6, <2>7
<1>5. TokenAlive'
  BY <1>1 DEF TokenAlive
<1> QED
  BY <1>3, <1>4, <1>5
-------------------------------------------------------------------------------
LEMMA ShortService ==
  ASSUME NEW h \in CallerSet, NEW b \in BucketSet, h.at = "acquire"
  PROVE  Service(h, b) \in 0 .. MaxWait
  BY ConstantsAreTyped DEF Service

LEMMA JoinsLine ==
  ASSUME TInv, RenewedInTime, NEW c \in Caller, NEW r \in CallerSet,
         caller' = [caller EXCEPT ![c] = r], line' = Append(line, c), bucket' = bucket, IInv',
         caller[c].at \notin {"acquire", "asleep", "sent", "answered"},
         r.at = "acquire", RenewBefore < r.token
  PROVE  TInv'
<1> DEFINE n == Len(line)
           f == Cardinality(InFlight)
           m == 2 * MaxWait
<1>1. /\ caller \in [Caller -> CallerSet] /\ caller'[c] = r
      /\ \A d \in Caller : d # c => caller'[d] = caller[d]
  BY Pieces DEF TInv
<1>2. /\ line \in Seq(Caller) /\ n \in Nat /\ Len(line') = n + 1 /\ line'[n + 1] = c
      /\ \A i \in 1 .. n : line[i] \in Caller /\ line'[i] = line[i] /\ i \in 1 .. n + 1
      /\ \A i \in 1 .. n + 1 : i \in 1 .. n \/ i = n + 1
  <2>1. line \in Seq(Caller) /\ n \in Nat
    BY Pieces DEF TInv
  <2>2. Len(line') = n + 1 /\ line'[n + 1] = c
    BY <2>1
  <2>3. \A i \in 1 .. n : line[i] \in Caller /\ line'[i] = line[i]
    BY <2>1
  <2>4. /\ \A i \in 1 .. n : i \in 1 .. n + 1
        /\ \A i \in 1 .. n + 1 : i \in 1 .. n \/ i = n + 1
    BY <2>1
  <2> QED
    BY <2>1, <2>2, <2>3, <2>4
<1>3. IsFiniteSet(Caller) /\ 2 * Cardinality(Caller) * MaxWait <= RenewBefore
  BY DEF RenewedInTime
<1>4. \A i \in 1 .. n : line[i] # c
  BY <1>2 DEF TInv, Lined
<1>5. Lined'
  <2>1. \A i, j \in 1 .. n + 1 : line'[i] = line'[j] => i = j
    BY <1>2, <1>4 DEF TInv, Lined
  <2>2. ASSUME NEW d \in Caller
        PROVE  caller'[d].at \in {"acquire", "asleep"} <=> \E i \in 1 .. n + 1 : line'[i] = d
    <3>1. CASE d = c
      <4>1. n + 1 \in 1 .. n + 1
        BY <1>2
      <4> QED
        BY <1>1, <1>2, <3>1, <4>1
    <3>2. CASE d # c
      <4>1. caller[d].at \in {"acquire", "asleep"} <=> \E i \in 1 .. n : line[i] = d
        BY DEF TInv, Lined
      <4> QED
        BY <1>1, <1>2, <3>2, <4>1
    <3> QED
      BY <3>1, <3>2
  <2>3. ASSUME NEW d \in Caller, caller'[d].at = "asleep" PROVE Holds(line', d)
    <3>1. Holds(line, d)
      BY <1>1, <2>3 DEF TInv, Lined
    <3> QED
      BY <1>2, <3>1, HeadStays
  <2> HIDE DEF n
  <2> QED
    BY <1>2, <2>1, <2>2, <2>3 DEF Lined
<1>6. InFlight' = InFlight
  BY <1>1 DEF InFlight
<1>7. f \in Nat /\ MaxWait * f \in Nat /\ MaxWait \in Nat
  BY <1>3, FlightIsTyped, ConstantsAreTyped DEF TInv
<1>8. /\ Debt' \in Nat /\ Debt' <= MaxWait * f + m
      /\ n # 0 => Debt' = Debt /\ Debt \in Nat
  <2>1. CASE n # 0
    <3>1. line # <<>> /\ Head(line') = Head(line) /\ Head(line) = line[1] /\ 1 \in 1 .. n
      BY <1>2, <2>1
    <3>2. caller'[Head(line')] = caller[Head(line)] /\ caller[Head(line)] \in CallerSet
      BY <1>1, <1>2, <1>4, <3>1
    <3>3. Debt' = Debt
      BY <1>6, <3>2 DEF Debt
    <3>4. Service(caller[Head(line)], bucket) \in 0 .. m
      BY <3>2, ServiceIsTyped, Pieces DEF TInv
    <3>5. Debt \in Nat /\ Debt <= MaxWait * f + m
      BY <1>7, <3>4 DEF Debt
    <3> QED
      BY <3>3, <3>5
  <2>2. CASE n = 0
    <3>1. Head(line') = c
      BY <1>2, <2>2
    <3>2. Debt' = MaxWait * f + Service(r, bucket)
      BY <1>1, <1>6, <3>1 DEF Debt
    <3>3. Service(r, bucket) \in 0 .. m
      BY ServiceIsTyped, Pieces DEF TInv
    <3> QED
      BY <1>7, <2>2, <3>2, <3>3
  <2> QED
    BY <2>1, <2>2
<1>9. Behind(n + 1) + Debt' < r.token
  <2>1. n + f + 1 <= Cardinality(Caller) /\ Cardinality(Caller) \in Nat
    BY <1>3, Room, FS_CardinalityType DEF TInv
  <2> DEFINE k == Cardinality(Caller)
  <2>2. m \in Nat /\ n \in Nat /\ f \in Nat /\ k \in Nat /\ MaxWait \in Nat /\ m = MaxWait + MaxWait
        /\ n + f + 1 <= k
    BY <1>2, <1>7, <2>1
  <2>3. 2 * k * MaxWait <= RenewBefore
    BY <1>3
  <2>4. Behind(n + 1) = ((n + 1) - 1) * m
    BY DEF Behind
  <2>5. r.token \in Nat /\ RenewBefore \in Nat
    BY ConstantsAreTyped DEF CallerSet
  <2>6. Debt' \in Nat /\ Debt' <= MaxWait * f + m
    BY <1>8
  <2> HIDE DEF m, n, f, k
  <2>7. m * (n + f + 1) <= m * k
    BY <2>2, ProductGrows
  <2>8. m * k = 2 * k * MaxWait
    BY <2>2
  <2>9. m * (n + f + 1) = n * m + MaxWait * f + MaxWait * f + m
    BY <2>2
  <2>10. ((n + 1) - 1) * m = n * m /\ n * m \in Nat /\ MaxWait * f \in Nat
    BY <2>2, ProductIsNat
  <2> DEFINE mf == MaxWait * f
             nm == n * m
             all == 2 * k * MaxWait
  <2>11. nm + mf + mf + m <= all /\ all \in Int
    BY <2>2, <2>7, <2>8, <2>9
  <2>12. Behind(n + 1) = nm /\ nm \in Nat /\ mf \in Nat /\ Debt' <= mf + m /\ all <= RenewBefore
    BY <2>3, <2>4, <2>6, <2>10
  <2> HIDE DEF mf, nm, all
  <2> QED
    BY <2>2, <2>5, <2>6, <2>11, <2>12
<1>10. Outlives'
  <2> SUFFICES ASSUME NEW i \in 1 .. n + 1
               PROVE  Behind(i) + Debt' < caller'[line'[i]].token
    BY <1>2 DEF Outlives, Behind
  <2>1. CASE i = n + 1
    BY <1>1, <1>2, <1>9, <2>1
  <2>2. CASE i \in 1 .. n
    <3>1. Behind(i) + Debt < caller[line[i]].token
      BY <2>2 DEF TInv, Outlives
    <3>2. n # 0
      BY <1>2, <2>2
    <3> QED
      BY <1>1, <1>2, <1>4, <1>8, <2>2, <3>1, <3>2
  <2> QED
    BY <1>2, <2>1, <2>2
<1>11. TokenAlive'
  BY <1>1 DEF TInv, TokenAlive
<1> QED
  BY <1>5, <1>10, <1>11 DEF TInv

LEMMA LeavesLine ==
  ASSUME TInv, IsFiniteSet(Caller), NEW c \in Caller, NEW r \in CallerSet, Holds(line, c),
         caller' = [caller EXCEPT ![c] = r], line' = Tail(line), IInv',
         caller[c].at = "acquire", r.at \in {"sent", "idle"}, r.at = "sent" => r.token = caller[c].token
  PROVE  TInv'
<1> DEFINE n == Len(line)
           f == MaxWait * Cardinality(InFlight)
<1>1. /\ caller \in [Caller -> CallerSet] /\ caller'[c] = r
      /\ \A d \in Caller : d # c => caller'[d] = caller[d]
  BY Pieces DEF TInv
<1>2. /\ line \in Seq(Caller) /\ n \in Nat \ {0} /\ line # <<>> /\ line[1] = c /\ 1 \in 1 .. n
      /\ Len(line') = n - 1
      /\ \A i \in 1 .. n - 1 : line'[i] = line[i + 1] /\ i + 1 \in 1 .. n /\ i \in Nat \ {0}
      /\ \A i \in 1 .. n : line[i] \in Caller /\ (i = 1 \/ i - 1 \in 1 .. n - 1)
  BY Pieces DEF TInv, Holds
<1>3. \A i \in 1 .. n - 1 : line'[i] # c
  <2>1. \A i \in 1 .. n - 1 : i + 1 # 1
    BY <1>2
  <2> QED
    BY <1>2, <2>1 DEF TInv, Lined
<1>4. Lined'
  <2>1. ASSUME NEW i \in 1 .. n - 1, NEW j \in 1 .. n - 1, line'[i] = line'[j] PROVE i = j
    <3>1. i + 1 = j + 1
      BY <1>2, <2>1 DEF TInv, Lined
    <3> QED
      BY <1>2, <3>1
  <2>2. ASSUME NEW d \in Caller
        PROVE  caller'[d].at \in {"acquire", "asleep"} <=> \E i \in 1 .. n - 1 : line'[i] = d
    <3>1. CASE d = c
      BY <1>1, <1>3, <3>1
    <3>2. CASE d # c
      <4>1. caller[d].at \in {"acquire", "asleep"} <=> \E i \in 1 .. n : line[i] = d
        BY DEF TInv, Lined
      <4>2. ASSUME NEW i \in 1 .. n, line[i] = d PROVE \E j \in 1 .. n - 1 : line'[j] = d
        <5>1. i - 1 \in 1 .. n - 1 /\ (i - 1) + 1 = i
          BY <1>2, <3>2, <4>2
        <5> QED
          BY <1>2, <4>2, <5>1
      <4> QED
        BY <1>1, <1>2, <3>2, <4>1, <4>2
    <3> QED
      BY <3>1, <3>2
  <2>3. ASSUME NEW d \in Caller, caller'[d].at = "asleep" PROVE FALSE
    <3>1. d # c /\ caller[d].at = "asleep"
      BY <1>1, <2>3
    <3>2. Holds(line, d)
      BY <3>1 DEF TInv, Lined
    <3> QED
      BY <3>1, <3>2 DEF Holds
  <2> HIDE DEF n
  <2> QED
    BY <1>2, <2>1, <2>2, <2>3 DEF Lined
<1>5. Debt \in Nat /\ f \in Nat /\ MaxWait \in Nat /\ f <= Debt
  <2>1. Service(caller[Head(line)], bucket) \in 0 .. 2 * MaxWait
    BY <1>2, HeadIsFirst, Pieces, ServiceIsTyped DEF TInv
  <2>2. f \in Nat /\ MaxWait \in Nat
    BY FlightIsTyped, ConstantsAreTyped DEF TInv
  <2> HIDE DEF f
  <2> QED
    BY <2>1, <2>2 DEF Debt, f
<1>6. Tail(line) # <<>> => Debt' \in Nat /\ Debt' <= Debt + 2 * MaxWait
  <2> SUFFICES ASSUME Tail(line) # <<>>
               PROVE  Debt' \in Nat /\ Debt' <= Debt + 2 * MaxWait
    OBVIOUS
  <2> DEFINE h == Head(line')
  <2>1. 1 \in 1 .. n - 1 /\ h = line'[1]
    BY <1>2
  <2>2. h \in Caller /\ h # c /\ caller'[h] = caller[h] /\ caller[h] \in CallerSet
    BY <1>1, <1>2, <1>3, <2>1
  <2>3. caller[h].at = "acquire"
    <3>1. caller[h].at \in {"acquire", "asleep"}
      BY <1>2, <2>1, <2>2 DEF TInv, Lined
    <3>2. caller[h].at # "asleep"
      BY <1>2, <2>2 DEF TInv, Lined, Holds
    <3> QED
      BY <3>1, <3>2
  <2>4. bucket' \in BucketSet
    BY DEF IInv, Typed, BucketSet
  <2>5. Service(caller'[h], bucket') \in 0 .. MaxWait
    BY <2>2, <2>3, <2>4, ShortService
  <2>6. /\ MaxWait * Cardinality(InFlight') \in Nat
        /\ MaxWait * Cardinality(InFlight') <= f + MaxWait
    <3>1. f \in Nat /\ MaxWait \in Nat
      BY <1>5
    <3>2. \/ MaxWait * Cardinality(InFlight') = f
          \/ MaxWait * Cardinality(InFlight') = f + MaxWait
      BY FlightChanges DEF TInv
    <3> HIDE DEF f
    <3> QED
      BY <3>1, <3>2
  <2>7. Debt' = MaxWait * Cardinality(InFlight') + Service(caller'[h], bucket')
    BY DEF Debt
  <2> HIDE DEF h, f
  <2> QED
    BY <1>5, <2>5, <2>6, <2>7
<1>7. Outlives'
  <2> SUFFICES ASSUME NEW i \in 1 .. n - 1
               PROVE  Behind(i) + Debt' < caller'[line'[i]].token
    BY <1>2 DEF Outlives, Behind
  <2>1. Behind(i + 1) + Debt < caller[line[i + 1]].token
    BY <1>2 DEF TInv, Outlives
  <2>2. caller'[line'[i]] = caller[line[i + 1]] /\ caller[line[i + 1]] \in CallerSet
    BY <1>1, <1>2, <1>3
  <2>3. caller[line[i + 1]].token \in Nat
    BY <2>2, ConstantsAreTyped DEF CallerSet
  <2>4. Tail(line) # <<>>
    BY <1>2
  <2>5. Behind(i) \in Nat /\ Behind(i + 1) = Behind(i) + 2 * MaxWait
    BY <1>2, BehindIsTyped
  <2>6. caller'[line'[i]].token = caller[line[i + 1]].token
    BY <2>2
  <2>7. Debt' \in Nat /\ Debt' <= Debt + 2 * MaxWait /\ Debt \in Nat /\ MaxWait \in Nat
    BY <1>5, <1>6, <2>4
  <2> DEFINE was == caller[line[i + 1]].token
             is  == caller'[line'[i]].token
             less == Behind(i)
             more == Behind(i + 1)
             debt == Debt'
  <2>8. /\ more + Debt < was /\ was \in Nat /\ less \in Nat /\ more = less + 2 * MaxWait /\ is = was
        /\ debt \in Nat /\ debt <= Debt + 2 * MaxWait /\ Debt \in Nat /\ MaxWait \in Nat
    BY <2>1, <2>3, <2>5, <2>6, <2>7
  <2> HIDE DEF was, is, less, more, debt
  <2>9. less + debt < is
    BY <2>8
  <2> QED
    BY <2>9 DEF less, debt, is
<1>8. TokenAlive'
  <2>1. r.at = "sent" => r.token > 0
    <3>1. Behind(1) + Debt < caller[c].token
      BY <1>2 DEF TInv, Outlives
    <3>2. Behind(1) = 0
      BY BehindIsTyped
    <3>3. caller[c].token \in Nat
      BY <1>1, ConstantsAreTyped DEF CallerSet
    <3> HIDE DEF n, f
    <3> QED
      BY <1>5, <3>1, <3>2, <3>3
  <2> QED
    BY <1>1, <2>1 DEF TInv, TokenAlive
<1> QED
  BY <1>4, <1>7, <1>8 DEF TInv
-------------------------------------------------------------------------------
(* A caller that is not in line, and whose step leaves the line, the bucket *)
(* and what is in flight alone, or ends its flight without an answer.       *)
LEMMA QuietKeeps ==
  ASSUME TInv, IsFiniteSet(Caller), NEW c \in Caller, NEW r \in CallerSet,
         caller' = [caller EXCEPT ![c] = r], line' = line, bucket' = bucket, IInv',
         caller[c].at \notin {"acquire", "asleep"}, r.at \notin {"acquire", "asleep", "sent"},
         r.at = "answered" => caller[c].at = "sent"
  PROVE  TInv'
<1>1. line # <<>> => Debt' <= Debt
  <2> SUFFICES ASSUME line # <<>> PROVE Debt' <= Debt
    OBVIOUS
  <2>1. Head(line) \in Caller /\ Head(line) # c
    BY HeadIsFirst DEF TInv, Lined
  <2>2. caller'[Head(line')] = caller[Head(line)]
    BY <2>1, Pieces DEF TInv
  <2> DEFINE s == Service(caller[Head(line)], bucket)
             f == MaxWait * Cardinality(InFlight)
             g == MaxWait * Cardinality(InFlight')
  <2>3. s \in 0 .. 2 * MaxWait /\ MaxWait \in Nat
    BY HeadIsFirst, ServiceIsTyped, Pieces, ConstantsAreTyped DEF TInv
  <2>4. Debt = f + s /\ Debt' = g + s
    BY <2>2 DEF Debt
  <2>5. f \in Nat /\ (g = f \/ g + MaxWait = f)
    BY FlightChanges DEF TInv
  <2>6. g \in Int
    <3>1. (IInv /\ IsFiniteSet(Caller) => MaxWait * Cardinality(InFlight) \in Nat)'
      BY FlightIsTyped, PTL
    <3> QED
      BY <3>1
  <2> HIDE DEF s, f, g
  <2> QED
    BY <2>3, <2>4, <2>5, <2>6
<1> QED
  BY <1>1, SameLine DEF TInv

LEMMA StartWaits ==
  ASSUME TInv, IsFiniteSet(Caller), NEW c \in Caller, NEW n \in 1 .. Requests, Start(c, n)
  PROVE  TInv'
<1> DEFINE r == [Idle EXCEPT !.at = "token", !.left = n, !.attempt = 1]
<1>1. n \in 0 .. Requests /\ 1 \in 0 .. Attempts /\ "token" \in Place
  BY ConstantsAreTyped DEF Place
<1>2. r \in CallerSet /\ r.at = "token"
  BY <1>1, IdleIsTyped DEF CallerSet
<1>3. caller' = [caller EXCEPT ![c] = r] /\ IInv'
  BY StartKeeps DEF Start, TInv
<1> HIDE DEF r
<1> QED
  BY <1>2, <1>3, QuietKeeps DEF Start

LEMMA InLineWaits ==
  ASSUME TInv, RenewedInTime, NEW c \in Caller, NEW t \in 0 .. TokenLife, GetInLine(c, t),
         caller[c].at \in {"token", "buy"}, RenewBefore < t, bucket' = bucket, IInv'
  PROVE  TInv'
<1> DEFINE r == [caller[c] EXCEPT !.at = "acquire", !.token = t]
<1>1. r \in CallerSet /\ r.at = "acquire" /\ r.token = t
  BY CallerIsTyped DEF CallerSet, Place, TInv
<1>2. caller' = [caller EXCEPT ![c] = r] /\ line' = Append(line, c)
  BY Pieces DEF GetInLine, CallerSet, TInv
<1> HIDE DEF r
<1> QED
  BY <1>1, <1>2, JoinsLine

LEMMA ReadTokenWaits ==
  ASSUME TInv, RenewedInTime, NEW c \in Caller, ReadToken(c) \/ BuyToken(c)
  PROVE  TInv'
<1>1. IInv' /\ bucket' = bucket /\ caller[c].at \in {"token", "buy"}
  BY ReadTokenKeeps, BuyTokenKeeps DEF TInv, ReadToken, BuyToken
<1>2. CASE Usable(cached)
  <2>1. GetInLine(c, cached) /\ RenewBefore < cached /\ cached \in 0 .. TokenLife
    BY <1>2, Pieces, ConstantsAreTyped DEF ReadToken, BuyToken, Usable, TInv
  <2> QED
    BY <1>1, <2>1, InLineWaits
<1>3. CASE ~Usable(cached)
  <2>1. PICK p \in {"buy", "fetch"} : caller' = [caller EXCEPT ![c].at = p] /\ line' = line
    BY <1>3 DEF ReadToken, BuyToken
  <2> DEFINE r == [caller[c] EXCEPT !.at = p]
  <2>2. r \in CallerSet /\ r.at = p
    BY CallerIsTyped DEF CallerSet, Place, TInv
  <2>3. caller' = [caller EXCEPT ![c] = r]
    BY <2>1, Pieces DEF CallerSet, TInv
  <2> HIDE DEF r
  <2> QED
    BY <1>1, <2>1, <2>2, <2>3, QuietKeeps DEF RenewedInTime
<1> QED
  BY <1>2, <1>3

LEMMA FetchedWaits ==
  ASSUME TInv, RenewedInTime, NEW c \in Caller, Fetched(c)
  PROVE  TInv'
<1> DEFINE r == [caller[c] EXCEPT !.at = "acquire", !.token = TokenLife, !.late = FALSE]
<1>1. TokenLife \in 0 .. TokenLife /\ "acquire" \in Place /\ RenewBefore < TokenLife
  BY ConstantsAreTyped, ConstantsAssumption DEF Place, ConstantsAssumption
<1>2. r \in CallerSet /\ r.at = "acquire" /\ r.token = TokenLife
  BY <1>1, CallerIsTyped DEF CallerSet, TInv
<1>3. caller' = [caller EXCEPT ![c] = r] /\ line' = Append(line, c) /\ bucket' = bucket
  BY Pieces DEF Fetched, CallerSet, TInv
<1>4. IInv' /\ caller[c].at = "fetch"
  BY FetchedKeeps DEF Fetched, TInv
<1> HIDE DEF r
<1> QED
  BY <1>1, <1>2, <1>3, <1>4, JoinsLine

LEMMA LoseWaits ==
  ASSUME TInv, IsFiniteSet(Caller), NEW c \in Caller, Lose(c) \/ FetchFails(c)
  PROVE  TInv'
<1>1. IInv' /\ caller' = [caller EXCEPT ![c] = Idle]
  BY LoseKeeps, FetchFailsKeeps DEF Lose, FetchFails, End, TInv
<1>2. line' = line /\ bucket' = bucket /\ caller[c].at \in {"sent", "answered", "fetch"}
  BY DEF Lose, FetchFails
<1> QED
  BY <1>1, <1>2, IdleIsTyped, QuietKeeps

LEMMA AnswerWaits ==
  ASSUME TInv, IsFiniteSet(Caller), NEW c \in Caller,
         Serve(c) \/ RefusePrimary(c) \/ RefuseSecondary(c)
  PROVE  TInv'
<1>1. PICK a : caller' = [caller EXCEPT ![c].at = "answered", ![c].answer = a]
  BY DEF Serve, RefusePrimary, RefuseSecondary, Answer
<1>2. IInv' /\ line' = line /\ bucket' = bucket /\ caller[c].at = "sent"
  BY GitHubAnswersKeeps DEF Serve, RefusePrimary, RefuseSecondary, Answer, TInv
<1> DEFINE r == [caller[c] EXCEPT !.at = "answered", !.answer = a]
<1>3. r.at = "answered" /\ caller' = [caller EXCEPT ![c] = r] /\ caller'[c] = r
  BY <1>1, Pieces DEF CallerSet, TInv
<1>4. r \in CallerSet
  BY <1>2, <1>3 DEF IInv, Typed, CallerSet, AnswerSet
<1> HIDE DEF r
<1> QED
  BY <1>2, <1>3, <1>4, QuietKeeps

LEMMA ReceiveWaits ==
  ASSUME TInv, IsFiniteSet(Caller), NEW c \in Caller, Receive(c)
  PROVE  TInv'
<1>1. PICK r \in CallerSet : /\ caller' = [caller EXCEPT ![c] = r]
                             /\ r.at \in {"token", "idle"}
  BY AnswersMove DEF TInv
<1>2. IInv' /\ line' = line /\ caller[c].at = "answered"
  BY ReceiveKeeps DEF Receive, TInv
<1>3. line # <<>> => Debt' <= Debt
  <2> SUFFICES ASSUME line # <<>> PROVE Debt' <= Debt
    OBVIOUS
  <2> DEFINE h == caller[Head(line)]
             s == Service(h, bucket)
             t == Service(h, bucket')
             f == MaxWait * Cardinality(InFlight)
             g == MaxWait * Cardinality(InFlight')
  <2>1. Head(line) \in Caller /\ Head(line) # c /\ h \in CallerSet
    BY <1>2, HeadIsFirst DEF TInv, Lined
  <2>2. caller'[Head(line')] = h
    BY <1>1, <1>2, <2>1, Pieces DEF TInv
  <2>3. f \in Nat /\ g + MaxWait = f /\ MaxWait \in Nat
    BY <1>1, <1>2, FlightChanges, ConstantsAreTyped DEF TInv
  <2>4. Debt = f + s /\ Debt' = g + t
    BY <2>2 DEF Debt
  <2>5. bucket \in BucketSet /\ bucket' \in BucketSet
    BY <1>2, Pieces DEF TInv, IInv, Typed, BucketSet
  <2>6. t <= s + MaxWait
    <3>1. h.sleep \in 0 .. MaxWait /\ MaxWait \in Nat
      BY <2>1, ConstantsAreTyped DEF CallerSet
    <3> HIDE DEF h
    <3> QED
      BY <3>1 DEF Service
  <2>7. s \in 0 .. 2 * MaxWait /\ t \in 0 .. 2 * MaxWait
    BY <2>1, <2>5, ServiceIsTyped
  <2>8. g \in Int
    <3>1. (IInv /\ IsFiniteSet(Caller) => MaxWait * Cardinality(InFlight) \in Nat)'
      BY FlightIsTyped, PTL
    <3> QED
      BY <1>2, <3>1
  <2> HIDE DEF h, s, t, f, g
  <2> QED
    BY <2>3, <2>4, <2>6, <2>7, <2>8
<1> QED
  BY <1>1, <1>2, <1>3, SameLine
-------------------------------------------------------------------------------
LEMMA WakeWaits ==
  ASSUME TInv, IsFiniteSet(Caller), NEW c \in Caller, Wake(c)
  PROVE  TInv'
<1> DEFINE r == [caller[c] EXCEPT !.at = "acquire"]
<1>1. /\ caller[c] \in CallerSet /\ caller[c].at = "asleep" /\ caller[c].sleep = 0
      /\ r \in CallerSet /\ r.at = "acquire" /\ r.token = caller[c].token
  BY CallerIsTyped DEF Wake, CallerSet, Place, TInv
<1>2. caller' = [caller EXCEPT ![c] = r] /\ caller'[c] = r
  BY Pieces DEF Wake, CallerSet, TInv
<1>3. IInv' /\ line' = line /\ bucket' = bucket
  BY WakeKeeps DEF Wake, TInv
<1>4. Holds(line, c)
  BY <1>1 DEF TInv, Lined
<1> HIDE DEF r
<1>5. Debt' <= Debt
  <2> DEFINE s == Service(caller[c], bucket)
             f == MaxWait * Cardinality(InFlight)
  <2>1. Debt = f + s
    BY <1>4 DEF Debt, Holds
  <2>2. Debt' = MaxWait * Cardinality(InFlight') + Service(r, bucket)
    BY <1>2, <1>3, <1>4 DEF Debt, Holds
  <2>3. f \in Nat /\ MaxWait * Cardinality(InFlight') = f
    BY <1>1, <1>2, FlightChanges DEF TInv
  <2>4. Service(r, bucket) = s
    BY <1>1, WaitFalls, Pieces, ConstantsAreTyped DEF Service, TInv
  <2>5. s \in 0 .. 2 * MaxWait /\ MaxWait \in Nat
    BY <1>1, ServiceIsTyped, Pieces, ConstantsAreTyped DEF TInv
  <2> HIDE DEF s, f
  <2> QED
    BY <2>1, <2>2, <2>3, <2>4, <2>5
<1> QED
  BY <1>1, <1>2, <1>3, <1>5, SameLine

LEMMA AcquireWaits ==
  ASSUME TInv, IsFiniteSet(Caller), NEW c \in Caller, Acquire(c)
  PROVE  TInv'
<1> DEFINE b == Advance(bucket, 0)
           w == WaitForToken(b)
           sent == [caller[c] EXCEPT !.at = "sent"]
           asleep == [caller[c] EXCEPT !.at = "asleep", !.sleep = w]
<1>1. /\ caller[c].at = "acquire" /\ Holds(line, c) /\ IInv' /\ IInv
      /\ caller[c] \in CallerSet /\ w \in Nat /\ bucket \in BucketSet
  BY AcquireKeeps, CallerIsTyped, Pieces, WaitFalls DEF Acquire, TInv
<1>2. Advance(b, 0) = b /\ b \in BucketSet
  BY <1>1, AdvanceTwice, AdvanceIsTyped
<1>3. \/ caller' = [caller EXCEPT ![c].at = "sent"] /\ line' = Tail(line)
      \/ End(c) /\ line' = Tail(line)
      \/ /\ w # 0 /\ ~(w > MaxWait) /\ bucket' = b /\ line' = line
         /\ caller' = [caller EXCEPT ![c].at = "asleep", ![c].sleep = w]
  BY DEF Acquire
<1>4. CASE caller' = [caller EXCEPT ![c].at = "sent"] /\ line' = Tail(line)
  <2>1. sent \in CallerSet /\ sent.at = "sent" /\ sent.token = caller[c].token
        /\ caller' = [caller EXCEPT ![c] = sent]
    BY <1>1, <1>4, Pieces DEF CallerSet, Place
  <2> HIDE DEF sent
  <2> QED
    BY <1>1, <1>4, <2>1, LeavesLine
<1>5. CASE End(c) /\ line' = Tail(line)
  BY <1>1, <1>5, LeavesLine, IdleIsTyped DEF End
<1>6. CASE /\ w # 0 /\ ~(w > MaxWait) /\ bucket' = b /\ line' = line
           /\ caller' = [caller EXCEPT ![c].at = "asleep", ![c].sleep = w]
  <2>1. w \in 0 .. MaxWait
    BY <1>1, <1>6, ConstantsAreTyped
  <2> HIDE DEF b, w
  <2>2. asleep \in CallerSet /\ asleep.at = "asleep" /\ asleep.sleep = w
        /\ asleep.token = caller[c].token /\ caller' = [caller EXCEPT ![c] = asleep]
    BY <1>1, <1>6, <2>1, Pieces DEF CallerSet, Place
  <2> HIDE DEF asleep
  <2>3. caller'[c] = asleep
    BY <1>1, <2>2, Pieces
  <2>4. Service(caller[c], bucket) = MaxWait
    BY <1>1, <1>6 DEF Service, b, w
  <2>5. Service(asleep, bucket') = w
    <3>1. WaitForToken(Advance(bucket', 0)) = w
      BY <1>2, <1>6 DEF w
    <3> QED
      BY <2>1, <2>2, <3>1, ConstantsAreTyped DEF Service
  <2>6. Debt' <= Debt
    <3> DEFINE f == MaxWait * Cardinality(InFlight)
    <3>1. Debt = f + MaxWait /\ Debt' = MaxWait * Cardinality(InFlight') + w
      BY <1>1, <1>6, <2>3, <2>4, <2>5 DEF Debt, Holds
    <3>2. f \in Nat /\ MaxWait * Cardinality(InFlight') = f
      BY <1>1, <2>2, FlightChanges
    <3> HIDE DEF f
    <3> QED
      BY <2>1, <3>1, <3>2, ConstantsAreTyped
  <2> QED
    BY <1>1, <1>6, <2>2, <2>6, SameLine
<1> QED
  BY <1>3, <1>4, <1>5, <1>6

LEMMA TickWaits ==
  ASSUME TInv, IsFiniteSet(Caller), Tick
  PROVE  TInv'
<1>1. /\ IInv' /\ IInv /\ line' = line /\ line \in Seq(Caller)
      /\ bucket \in BucketSet /\ bucket' = Advance(bucket, 1)
  BY TickKeeps, Pieces DEF Tick, TInv
<1>2. ASSUME NEW c \in Caller
      PROVE  /\ caller[c] \in CallerSet /\ caller'[c] = Older(caller[c])
             /\ caller'[c].at = caller[c].at
             /\ caller[c].token \in Nat /\ caller[c].sleep \in Nat
             /\ caller'[c].token = Less(caller[c].token)
             /\ caller'[c].sleep = Less(caller[c].sleep)
             /\ caller[c].at = "sent" => caller'[c].late
  <2>1. caller[c] \in CallerSet /\ caller'[c] = Older(caller[c])
    BY <1>1, Pieces DEF Tick
  <2> DEFINE s == caller[c]
             late == s.at \in {"fetch", "sent", "answered"}
  <2>2. Older(s) = [s EXCEPT !.token = Less(s.token), !.sleep = Less(s.sleep),
                             !.late = late, !.answer = Aged(s.answer)]
    BY DEF Older
  <2>3. s.token \in 0 .. TokenLife /\ s.sleep \in 0 .. MaxWait
    BY <2>1 DEF CallerSet
  <2>4. s.token \in Nat /\ s.sleep \in Nat
    BY <2>3, ConstantsAreTyped
  <2>5. /\ Older(s).at = s.at /\ Older(s).token = Less(s.token)
        /\ Older(s).sleep = Less(s.sleep) /\ Older(s).late = late
    BY <2>1, <2>2 DEF CallerSet
  <2> QED
    BY <2>1, <2>4, <2>5
<1>3. Lined'
  BY <1>1, <1>2 DEF TInv, Lined, Holds
<1>4. InFlight' = InFlight
  BY <1>2 DEF InFlight
<1>5. line # <<>> => Debt' \in Nat /\ Debt \in Nat /\ Debt' + 1 <= Debt
  <2> SUFFICES ASSUME line # <<>> PROVE Debt' \in Nat /\ Debt \in Nat /\ Debt' + 1 <= Debt
    OBVIOUS
  <2> DEFINE c == Head(line)
             s == Service(caller[c], bucket)
             t == Service(caller'[c], bucket')
             f == MaxWait * Cardinality(InFlight)
             w == WaitForToken(Advance(bucket, 0))
             v == WaitForToken(Advance(bucket', 0))
  <2>1. c \in Caller /\ Holds(line, c) /\ caller[c].at \in {"acquire", "asleep"}
    BY <1>1, HeadIsFirst DEF TInv, Lined, Holds
  <2>2. caller[c].at = "asleep" /\ caller[c].sleep > 0
    BY <2>1 DEF Tick, Waits
  <2>3. /\ caller[c].sleep \in Nat /\ caller'[c].at = "asleep"
        /\ caller'[c].sleep = caller[c].sleep - 1
    BY <1>2, <2>1, <2>2 DEF Less, Greater
  <2>4. w \in Nat /\ v \in Nat /\ (v = 0 \/ v + 1 <= w)
    BY <1>1, AdvanceTwice, WaitFalls
  <2>5. /\ s = caller[c].sleep + (IF w <= caller[c].sleep THEN 0 ELSE MaxWait)
        /\ t = caller'[c].sleep + (IF v <= caller'[c].sleep THEN 0 ELSE MaxWait)
    BY <2>2, <2>3 DEF Service
  <2>6. Debt = f + s /\ Debt' = f + t
    BY <1>1, <1>4 DEF Debt
  <2>7. f \in Nat /\ MaxWait \in Nat
    BY <1>1, FlightIsTyped, ConstantsAreTyped
  <2> DEFINE n == caller[c].sleep
             m == caller'[c].sleep
  <2>8. n \in Nat /\ n > 0 /\ m = n - 1
    BY <2>2, <2>3
  <2> HIDE DEF s, t, f, w, v, n, m, c
  <2>9. /\ s = n + (IF w <= n THEN 0 ELSE MaxWait)
        /\ t = m + (IF v <= m THEN 0 ELSE MaxWait)
    BY <2>5 DEF n, m
  <2>10. s \in Nat /\ t \in Nat /\ t + 1 <= s
    BY <2>4, <2>7, <2>8, <2>9
  <2> QED
    BY <2>6, <2>7, <2>10
<1>6. Outlives'
  <2> SUFFICES ASSUME NEW i \in 1 .. Len(line)
               PROVE  Behind(i) + Debt' < caller'[line[i]].token
    BY <1>1 DEF Outlives, Behind
  <2>1. line # <<>> /\ i \in Nat \ {0} /\ line[i] \in Caller
    BY <1>1
  <2>2. Behind(i) + Debt < caller[line[i]].token
    BY DEF TInv, Outlives
  <2> DEFINE was == caller[line[i]].token
             is  == caller'[line[i]].token
             owed == Debt'
             back == Behind(i)
  <2>3. was \in Nat /\ is = Less(was)
    BY <1>2, <2>1
  <2>4. back \in Nat /\ owed \in Nat /\ Debt \in Nat /\ owed + 1 <= Debt /\ back + Debt < was
    BY <1>5, <2>1, <2>2, BehindIsTyped
  <2> HIDE DEF was, is, owed, back
  <2>5. back + owed < is
    BY <2>3, <2>4 DEF Less, Greater
  <2> QED
    BY <2>5 DEF was, is, owed, back
<1>7. TokenAlive'
  BY <1>2 DEF TokenAlive
<1> QED
  BY <1>1, <1>3, <1>6, <1>7 DEF TInv

LEMMA StepWaits ==
  ASSUME TInv, RenewedInTime, [Next]_vars
  PROVE  TInv'
<1>0. IsFiniteSet(Caller)
  BY DEF RenewedInTime
<1>1. CASE Tick
  BY <1>0, <1>1, TickWaits
<1>2. CASE Elsewhere \/ UNCHANGED vars
  <2>1. IInv'
    BY StepKeeps DEF TInv
  <2>2. UNCHANGED <<bucket, line, caller>>
    BY <1>2 DEF Elsewhere, vars
  <2> QED
    BY <2>1, <2>2
    DEF TInv, Lined, Holds, Outlives, Behind, Debt, InFlight, Service, TokenAlive
<1>3. ASSUME NEW c \in Caller, Step(c) PROVE TInv'
  BY <1>0, <1>3, ReadTokenWaits, FetchedWaits, LoseWaits, AcquireWaits, WakeWaits,
     AnswerWaits, ReceiveWaits DEF Step
<1>4. ASSUME NEW c \in Caller, NEW n \in 1 .. Requests, Start(c, n) PROVE TInv'
  BY <1>0, <1>4, StartWaits
<1> QED
  BY <1>1, <1>2, <1>3, <1>4 DEF Next

LEMMA InitWaits == ASSUME Init PROVE TInv
<1>1. IInv
  BY InitIInv
<1>2. line = <<>> /\ Len(line) = 0 /\ \A c \in Caller : caller[c].at = "idle"
  BY IdleIsTyped DEF Init
<1> QED
  BY <1>1, <1>2 DEF TInv, Lined, Outlives, TokenAlive

(* A token that was usable when it was read is still good when the request  *)
(* leaves, after every wait RateLimiter.acquire may impose meanwhile on the *)
(* caller and on those before it in line.                                   *)
THEOREM TokensOutliveTheWait ==
  ASSUME RenewedInTime
  PROVE  Spec => []TokenAlive
<1>1. TInv /\ [Next]_vars => TInv'
  BY StepWaits
<1>2. TInv => TokenAlive
  BY DEF TInv
<1> QED
  BY <1>1, <1>2, InitWaits, PTL DEF Spec, Safety
-------------------------------------------------------------------------------
(* How long a row is held, by a caller that is alone.  An attempt waits for *)
(* the limiter once and for the network twice, for a token and an answer.  *)
AttemptTime == MaxWait + 2 * Latency

LongestRow == Requests * (Attempts * AttemptTime)

(* What the attempts after the present one may take.                       *)
Later(k) == (k.left - 1) * (Attempts * AttemptTime) + (Attempts - k.attempt) * AttemptTime

(* What the present one may still take, if the bucket asks for a wait of w. *)
Present(k, w) ==
  CASE k.at \in {"token", "buy"}      -> AttemptTime
    [] k.at = "fetch"                 -> MaxWait + Latency + (IF k.late THEN 0 ELSE Latency)
    [] k.at = "acquire"               -> Lesser(w, MaxWait) + Latency
    [] k.at = "asleep"                -> k.sleep + Latency
    [] k.at \in {"sent", "answered"}  -> IF k.late THEN 0 ELSE Latency
    [] OTHER                          -> 0

NextWait == WaitForToken(Advance(bucket, 0))

(* A lone caller waits for no lock, and sleeps for as long as the bucket     *)
(* makes it: it finds a token when it wakes.                               *)
AloneInLine(c) ==
  /\ line = IF caller[c].at \in {"acquire", "asleep"} THEN <<c>> ELSE <<>>
  /\ shop = IF caller[c].at \in {"buy", "fetch"} THEN <<c>> ELSE <<>>
  /\ caller[c].at = "asleep" => NextWait <= caller[c].sleep

(* The time held so far and the time that may be to come are a row's.       *)
InTime(c) ==
  IF caller[c].at = "idle" THEN held[c] <= LongestRow
  ELSE /\ caller[c].left \in 1 .. Requests /\ caller[c].attempt \in 1 .. Attempts
       /\ held[c] + Later(caller[c]) + Present(caller[c], NextWait) <= LongestRow

HInv(c) == IInv /\ AloneInLine(c) /\ InTime(c)

LEMMA TimesAreTyped ==
  /\ AttemptTime \in Nat /\ Attempts * AttemptTime \in Nat /\ LongestRow \in Nat
  /\ Latency \in Nat /\ AttemptTime = MaxWait + Latency + Latency
<1>1. Latency \in {0, 1}
  BY ConstantsAssumption DEF ConstantsAssumption
<1>2. AttemptTime \in Nat /\ AttemptTime = MaxWait + Latency + Latency
  BY <1>1, ConstantsAreTyped DEF AttemptTime
<1>3. Attempts * AttemptTime \in Nat
  BY <1>2, ConstantsAreTyped, ProductIsNat
<1> QED
  BY <1>1, <1>2, <1>3, ConstantsAreTyped, ProductIsNat DEF LongestRow

LEMMA OneMore ==
  ASSUME NEW m \in Nat, NEW n \in Nat
  PROVE  m * n \in Nat /\ (m + 1) * n \in Nat /\ (m + 1) * n = m * n + n
  OBVIOUS

(* The first attempt of n requests, the next of one, and the next of them. *)
LEMMA LaterCases ==
  ASSUME NEW k, k.left \in 1 .. Requests, k.attempt \in 1 .. Attempts
  PROVE  /\ Later(k) \in Nat
         /\ k.attempt = 1 => Later(k) + AttemptTime = k.left * (Attempts * AttemptTime)
         /\ \A r : r.left = k.left /\ r.attempt = k.attempt + 1 /\ k.attempt < Attempts
              => Later(r) + AttemptTime = Later(k)
         /\ \A r : r.left = k.left - 1 /\ r.attempt = 1 /\ k.left > 1
              => Later(r) + AttemptTime <= Later(k)
<1> DEFINE t == AttemptTime
           p == Attempts * t
           n == k.left - 1
           m == Attempts - k.attempt
<1>1. t \in Nat /\ p \in Nat /\ n \in Nat /\ m \in Nat /\ Attempts \in Nat
  BY TimesAreTyped, ConstantsAreTyped
<1>2. Later(k) = n * p + m * t
  BY DEF Later
<1>3. n * p \in Nat /\ m * t \in Nat
  BY <1>1, ProductIsNat
<1>4. k.left * p = n * p + p
  <2>1. k.left = n + 1
    BY ConstantsAreTyped
  <2> HIDE DEF n, p
  <2> QED
    BY <1>1, <2>1, OneMore
<1>5. (Attempts - 1) * t \in Nat /\ p = (Attempts - 1) * t + t
  <2>1. Attempts - 1 \in Nat /\ Attempts = (Attempts - 1) + 1
    BY ConstantsAreTyped
  <2> QED
    BY <1>1, <2>1, OneMore
<1>6. k.attempt = 1 => Later(k) + t = k.left * p
  <2>1. k.attempt = 1 => m * t = (Attempts - 1) * t
    OBVIOUS
  <2> HIDE DEF m, n, p, t
  <2> QED
    BY <1>1, <1>2, <1>3, <1>4, <1>5, <2>1
<1>7. ASSUME NEW r, r.left = k.left, r.attempt = k.attempt + 1, k.attempt < Attempts
      PROVE  Later(r) + t = Later(k)
  <2> DEFINE q == m - 1
  <2>1. q \in Nat /\ m = q + 1 /\ Attempts - r.attempt = q
    BY <1>7, ConstantsAreTyped
  <2>2. Later(r) = n * p + q * t
    BY <1>7, <2>1 DEF Later
  <2> HIDE DEF m, n, p, t, q
  <2>3. m * t = q * t + t /\ q * t \in Nat
    BY <1>1, <2>1, OneMore
  <2> QED
    BY <1>1, <1>2, <1>3, <2>2, <2>3
<1>8. ASSUME NEW r, r.left = k.left - 1, r.attempt = 1, k.left > 1
      PROVE  Later(r) + t <= Later(k)
  <2> DEFINE q == n - 1
  <2>1. q \in Nat /\ n = q + 1 /\ r.left - 1 = q
    BY <1>8, ConstantsAreTyped
  <2>2. Later(r) = q * p + (Attempts - 1) * t
    BY <1>8, <2>1 DEF Later
  <2> HIDE DEF m, n, p, t, q
  <2>3. n * p = q * p + p /\ q * p \in Nat
    BY <1>1, <2>1, OneMore
  <2> QED
    BY <1>1, <1>2, <1>3, <1>5, <2>2, <2>3
<1>9. Later(k) \in Nat
  BY <1>2, <1>3
<1> QED
  BY <1>6, <1>7, <1>8, <1>9

LEMMA PresentIsTyped ==
  ASSUME NEW k \in CallerSet, NEW w \in Nat
  PROVE  /\ Present(k, w) \in Nat
         /\ k.at \in {"token", "buy"} => Present(k, w) = AttemptTime
         /\ k.at = "fetch" => Present(k, w) = MaxWait + Latency + (IF k.late THEN 0 ELSE Latency)
         /\ k.at = "acquire" => Present(k, w) = Lesser(w, MaxWait) + Latency
         /\ k.at = "asleep" => Present(k, w) = k.sleep + Latency
         /\ k.at \in {"sent", "answered"} => Present(k, w) = IF k.late THEN 0 ELSE Latency
<1>1. k.sleep \in Nat /\ MaxWait \in Nat /\ k.at \in Place
  BY ConstantsAreTyped DEF CallerSet
<1>2. Lesser(w, MaxWait) \in Nat
  BY <1>1 DEF Lesser
<1> QED
  BY <1>1, <1>2, TimesAreTyped DEF Present, Place

(* A step of the caller that stays at the same attempt and holds the row    *)
(* for no longer than it might.                                            *)
LEMMA Continues ==
  ASSUME NEW c, Caller = {c}, HInv(c), IInv', NEW r \in CallerSet,
         caller' = [caller EXCEPT ![c] = r], held' = held,
         caller[c].at # "idle", r.at # "idle",
         r.left = caller[c].left, r.attempt = caller[c].attempt,
         NEW w \in Nat, w = NextWait',
         Present(r, w) <= Present(caller[c], NextWait)
  PROVE  InTime(c)'
<1>1. caller \in [Caller -> CallerSet] /\ held \in [Caller -> 0 .. HeldCap]
      /\ bucket \in BucketSet
  BY Pieces DEF HInv
<1>2. PICK k \in CallerSet : k = caller[c]
  BY <1>1
<1>3. caller'[c] = r
  BY <1>1
<1>4. PICK v \in Nat : v = NextWait
  BY <1>1, WaitFalls DEF NextWait
<1>5. k.left \in 1 .. Requests /\ k.attempt \in 1 .. Attempts
      /\ held[c] + Later(k) + Present(k, v) <= LongestRow
  BY <1>2, <1>4 DEF HInv, InTime
<1>6. Later(r) = Later(k)
  BY <1>2 DEF Later
<1>7. Later(k) \in Nat /\ Present(k, v) \in Nat /\ Present(r, w) \in Nat /\ held[c] \in Nat
  BY <1>1, <1>5, LaterCases, PresentIsTyped, ConstantsAreTyped
<1>8. held[c] + Later(r) + Present(r, w) <= LongestRow
  BY <1>2, <1>4, <1>5, <1>6, <1>7, TimesAreTyped
<1>9. held'[c] + Later(caller'[c]) + Present(caller'[c], w) <= LongestRow
  BY <1>3, <1>8
<1> QED
  BY <1>2, <1>3, <1>5, <1>9 DEF InTime, Later, Present

(* The row ends, and is held no longer.                                    *)
LEMMA Ended ==
  ASSUME NEW c, Caller = {c}, HInv(c), End(c), held' = held
  PROVE  InTime(c)' /\ caller'[c].at = "idle"
<1>1. caller \in [Caller -> CallerSet] /\ held \in [Caller -> 0 .. HeldCap]
      /\ bucket \in BucketSet
  BY Pieces DEF HInv
<1>2. PICK k \in CallerSet : k = caller[c]
  BY <1>1
<1>3. PICK v \in Nat : v = NextWait
  BY <1>1, WaitFalls DEF NextWait
<1>4. held[c] <= LongestRow
  <2>1. CASE k.at = "idle"
    BY <1>2, <2>1 DEF HInv, InTime
  <2>2. CASE k.at # "idle"
    <3>1. k.left \in 1 .. Requests /\ k.attempt \in 1 .. Attempts
          /\ held[c] + Later(k) + Present(k, v) <= LongestRow
      BY <1>2, <1>3, <2>2 DEF HInv, InTime
    <3>2. Later(k) \in Nat /\ Present(k, v) \in Nat /\ held[c] \in Nat
      BY <1>1, <3>1, LaterCases, PresentIsTyped, ConstantsAreTyped
    <3> QED
      BY <3>1, <3>2, TimesAreTyped
  <2> QED
    BY <2>1, <2>2
<1>5. caller'[c].at = "idle"
  BY <1>1, IdleIsTyped DEF End
<1> QED
  BY <1>4, <1>5 DEF InTime
-------------------------------------------------------------------------------
LEMMA AloneFacts ==
  ASSUME NEW c, Caller = {c}, HInv(c)
  PROVE  /\ caller[c] \in CallerSet /\ caller \in [Caller -> CallerSet]
         /\ bucket \in BucketSet /\ NextWait \in Nat
         /\ Append(<<>>, c) = <<c>> /\ Tail(<<c>>) = <<>> /\ Head(<<c>>) = c /\ <<c>> # <<>>
<1>1. bucket \in BucketSet /\ caller \in [Caller -> CallerSet] /\ caller[c] \in CallerSet
  BY Pieces, CallerIsTyped DEF HInv
<1>2. NextWait \in Nat
  BY <1>1, WaitFalls DEF NextWait
<1> QED
  BY <1>1, <1>2

LEMMA StartHeld ==
  ASSUME NEW c, Caller = {c}, HInv(c), NEW n \in 1 .. Requests, Start(c, n), IInv'
  PROVE  HInv(c)'
<1> DEFINE r == [Idle EXCEPT !.at = "token", !.left = n, !.attempt = 1]
<1>1. r \in CallerSet /\ r.at = "token" /\ r.left = n /\ r.attempt = 1
  <2>1. n \in 0 .. Requests /\ 1 \in 0 .. Attempts /\ "token" \in Place
    BY ConstantsAreTyped DEF Place
  <2>2. Idle \in CallerSet
    BY IdleIsTyped
  <2> QED
    BY <2>1, <2>2 DEF CallerSet
<1>2. caller' = [caller EXCEPT ![c] = r] /\ held' = [held EXCEPT ![c] = 0]
      /\ UNCHANGED <<bucket, line, shop>>
  BY DEF Start
<1> HIDE DEF r
<1>3. caller'[c] = r /\ held'[c] = 0
  BY <1>2, AloneFacts, Pieces DEF HInv
<1>4. AloneInLine(c)'
  BY <1>1, <1>2, <1>3 DEF HInv, AloneInLine, Start
<1>5. PICK w \in Nat : w = NextWait'
  BY <1>2, AloneFacts DEF NextWait
<1>6. Later(r) + AttemptTime = n * (Attempts * AttemptTime) /\ Present(r, w) = AttemptTime
      /\ Later(r) \in Nat
  BY <1>1, LaterCases, PresentIsTyped, ConstantsAreTyped
<1>7. n * (Attempts * AttemptTime) <= LongestRow
  <2> DEFINE p == Attempts * AttemptTime
  <2>1. p \in Nat /\ LongestRow = Requests * p /\ n \in Nat /\ Requests \in Nat /\ n <= Requests
    BY TimesAreTyped, ConstantsAreTyped DEF LongestRow
  <2> HIDE DEF p
  <2>2. p * n <= p * Requests
    BY <2>1, ProductGrows
  <2>3. p * n = n * p /\ p * Requests = Requests * p
    BY <2>1
  <2> QED
    BY <2>1, <2>2, <2>3 DEF p
<1>8. 0 + Later(r) + Present(r, w) <= LongestRow
  BY <1>6, <1>7, TimesAreTyped
<1>9. held'[c] + Later(caller'[c]) + Present(caller'[c], w) <= LongestRow
  BY <1>3, <1>8
<1>10. InTime(c)'
  BY <1>1, <1>3, <1>5, <1>9, ConstantsAreTyped DEF InTime, Later, Present
<1> QED
  BY <1>4, <1>10 DEF HInv

(* A token in hand, whether read, bought by another or fetched.            *)
LEMMA JoinsHeld ==
  ASSUME NEW c, Caller = {c}, HInv(c), IInv', NEW r \in CallerSet,
         caller' = [caller EXCEPT ![c] = r], held' = held, bucket' = bucket,
         caller[c].at \in {"token", "buy", "fetch"}, r.at = "acquire",
         r.left = caller[c].left, r.attempt = caller[c].attempt,
         line' = Append(line, c), shop' = <<>>
  PROVE  HInv(c)'
<1>1. caller'[c] = r /\ line' = <<c>>
  BY AloneFacts DEF HInv, AloneInLine
<1>2. AloneInLine(c)'
  BY <1>1 DEF AloneInLine
<1>3. PICK w \in Nat : w = NextWait /\ w = NextWait'
  BY AloneFacts DEF NextWait
<1>4. Present(r, w) <= Present(caller[c], w)
  <2>1. PICK k \in CallerSet : k = caller[c]
    BY AloneFacts
  <2>2. Lesser(w, MaxWait) \in Nat /\ Lesser(w, MaxWait) <= MaxWait
    BY ConstantsAreTyped DEF Lesser
  <2>3. Present(r, w) = Lesser(w, MaxWait) + Latency /\ MaxWait \in Nat
    BY PresentIsTyped, ConstantsAreTyped
  <2>4. CASE k.at \in {"token", "buy"}
    <3>1. Present(k, w) = AttemptTime
      BY <2>1, <2>4, PresentIsTyped
    <3> QED
      BY <2>1, <2>2, <2>3, <3>1, TimesAreTyped
  <2>5. CASE k.at = "fetch"
    <3>1. Present(k, w) = MaxWait + Latency + (IF k.late THEN 0 ELSE Latency)
      BY <2>1, <2>5, PresentIsTyped
    <3> QED
      BY <2>1, <2>2, <2>3, <3>1, TimesAreTyped
  <2> QED
    BY <2>1, <2>4, <2>5
<1>5. InTime(c)'
  BY <1>3, <1>4, Continues
<1> QED
  BY <1>2, <1>5 DEF HInv

LEMMA TokenHeld ==
  ASSUME NEW c, Caller = {c}, HInv(c), IInv',
         ReadToken(c) \/ BuyToken(c) \/ Fetched(c) \/ FetchFails(c)
  PROVE  HInv(c)'
<1>1. PICK k \in CallerSet : k = caller[c]
  BY AloneFacts
<1> USE DEF HInv
<1>2. ASSUME NEW token \in 0 .. TokenLife, GetInLine(c, token), held' = held, bucket' = bucket,
             k.at \in {"token", "buy"}, shop' = <<>>
      PROVE  HInv(c)'
  <2> DEFINE r == [k EXCEPT !.at = "acquire", !.token = token]
  <2>1. r \in CallerSet /\ r.at = "acquire" /\ r.left = k.left /\ r.attempt = k.attempt
        /\ caller' = [caller EXCEPT ![c] = r] /\ line' = Append(line, c)
    BY <1>1, <1>2, AloneFacts DEF CallerSet, Place, GetInLine
  <2> HIDE DEF r
  <2> QED
    BY <1>1, <1>2, <2>1, JoinsHeld
<1>3. ASSUME NEW r \in CallerSet, caller' = [caller EXCEPT ![c] = r], held' = held,
             bucket' = bucket, line' = line, shop' = <<c>>,
             \/ k.at = "token" /\ r.at = "buy"
             \/ k.at = "buy" /\ r.at = "fetch",
             r.left = k.left, r.attempt = k.attempt
      PROVE  HInv(c)'
  <2>1. caller'[c] = r
    BY <1>3, AloneFacts
  <2>2. AloneInLine(c)'
    BY <1>1, <1>3, <2>1 DEF AloneInLine
  <2>3. PICK w \in Nat : w = NextWait /\ w = NextWait'
    BY <1>3, AloneFacts DEF NextWait
  <2>4. Present(r, w) <= Present(k, w)
    BY <1>3, PresentIsTyped, TimesAreTyped, ConstantsAreTyped
  <2>5. InTime(c)'
    BY <1>1, <1>3, <2>3, <2>4, Continues
  <2> QED
    BY <2>2, <2>5
<1>4. cached \in 0 .. TokenLife
  BY Pieces
<1>5. CASE ReadToken(c)
  <2>1. k.at = "token" /\ shop = <<>> /\ held' = held /\ bucket' = bucket
    BY <1>1, <1>5 DEF ReadToken, AloneInLine
  <2>2. CASE Usable(cached)
    BY <1>2, <1>4, <1>5, <2>1, <2>2 DEF ReadToken
  <2>3. CASE ~Usable(cached)
    <3> DEFINE r == [k EXCEPT !.at = "buy"]
    <3>1. r \in CallerSet /\ r.at = "buy" /\ r.left = k.left /\ r.attempt = k.attempt
          /\ caller' = [caller EXCEPT ![c] = r] /\ line' = line /\ shop' = <<c>>
      BY <1>1, <1>5, <2>1, <2>3, AloneFacts DEF CallerSet, Place, ReadToken
    <3> HIDE DEF r
    <3> QED
      BY <1>3, <2>1, <3>1
  <2> QED
    BY <2>2, <2>3
<1>6. CASE BuyToken(c)
  <2>1. k.at = "buy" /\ shop = <<c>> /\ held' = held /\ bucket' = bucket
    BY <1>1, <1>6 DEF BuyToken, AloneInLine
  <2>2. CASE Usable(cached)
    BY <1>2, <1>4, <1>6, <2>1, <2>2, AloneFacts DEF BuyToken
  <2>3. CASE ~Usable(cached)
    <3> DEFINE r == [k EXCEPT !.at = "fetch"]
    <3>1. r \in CallerSet /\ r.at = "fetch" /\ r.left = k.left /\ r.attempt = k.attempt
          /\ caller' = [caller EXCEPT ![c] = r] /\ line' = line /\ shop' = <<c>>
      BY <1>1, <1>6, <2>1, <2>3, AloneFacts DEF CallerSet, Place, BuyToken
    <3> HIDE DEF r
    <3> QED
      BY <1>3, <2>1, <3>1
  <2> QED
    BY <2>2, <2>3
<1>7. CASE Fetched(c)
  <2> DEFINE r == [k EXCEPT !.at = "acquire", !.token = TokenLife, !.late = FALSE]
  <2>1. k.at = "fetch" /\ shop = <<c>> /\ held' = held /\ bucket' = bucket
    BY <1>1, <1>7 DEF Fetched, AloneInLine
  <2>2. TokenLife \in 0 .. TokenLife
    BY ConstantsAreTyped
  <2>3. r \in CallerSet /\ r.at = "acquire" /\ r.left = k.left /\ r.attempt = k.attempt
    BY <2>2 DEF CallerSet, Place
  <2>4. caller' = [caller EXCEPT ![c] = r] /\ line' = Append(line, c) /\ shop' = <<>>
    BY <1>1, <1>7, <2>1, AloneFacts DEF Fetched
  <2> HIDE DEF r
  <2> QED
    BY <1>1, <2>1, <2>3, <2>4, JoinsHeld
<1>8. CASE FetchFails(c)
  <2>1. InTime(c)' /\ caller'[c].at = "idle"
    BY <1>8, Ended DEF FetchFails
  <2>2. line' = <<>> /\ shop' = <<>>
    BY <1>8, AloneFacts DEF FetchFails, AloneInLine
  <2> QED
    BY <2>1, <2>2 DEF AloneInLine
<1> QED
  BY <1>5, <1>6, <1>7, <1>8

LEMMA LimiterHeld ==
  ASSUME NEW c, Caller = {c}, HInv(c), IInv', Acquire(c) \/ Wake(c)
  PROVE  HInv(c)'
<1>1. PICK k \in CallerSet : k = caller[c]
  BY AloneFacts
<1>2. PICK w \in Nat : w = NextWait
  BY AloneFacts
<1>3. held' = held /\ shop' = shop /\ line = <<c>> /\ shop = <<>>
  BY DEF Acquire, Wake, HInv, AloneInLine
<1>4. NextWait' \in Nat
  <2>1. bucket' \in BucketSet
    BY Pieces DEF IInv, Typed
  <2> QED
    BY <2>1, WaitFalls DEF NextWait
<1>5. PICK v \in Nat : v = NextWait'
  BY <1>4
<1>6. CASE Acquire(c)
  <2> DEFINE b == Advance(bucket, 0)
  <2>1. k.at = "acquire" /\ w = WaitForToken(b)
    BY <1>1, <1>2, <1>6 DEF Acquire, NextWait
  <2>2. \/ /\ caller' = [caller EXCEPT ![c].at = "sent"] /\ line' = Tail(line)
        \/ End(c) /\ line' = Tail(line)
        \/ /\ w # 0 /\ ~(w > MaxWait) /\ bucket' = b /\ line' = line
           /\ caller' = [caller EXCEPT ![c].at = "asleep", ![c].sleep = w]
    BY <1>6, <2>1 DEF Acquire
  <2>3. CASE caller' = [caller EXCEPT ![c].at = "sent"] /\ line' = Tail(line)
    <3> DEFINE r == [k EXCEPT !.at = "sent"]
    <3>1. r \in CallerSet /\ r.at = "sent" /\ r.left = k.left /\ r.attempt = k.attempt
          /\ caller' = [caller EXCEPT ![c] = r]
      BY <1>1, <2>3, AloneFacts DEF CallerSet, Place
    <3> HIDE DEF r
    <3>2. caller'[c] = r /\ line' = <<>>
      BY <1>3, <2>3, <3>1, AloneFacts
    <3>3. AloneInLine(c)'
      BY <1>3, <3>1, <3>2 DEF AloneInLine
    <3>4. Present(r, v) <= Present(k, w)
      <4>1. Lesser(w, MaxWait) \in Nat
        BY ConstantsAreTyped DEF Lesser
      <4> QED
        BY <2>1, <3>1, <4>1, PresentIsTyped, TimesAreTyped
    <3>5. InTime(c)'
      BY <1>1, <1>2, <1>3, <1>5, <2>1, <3>1, <3>4, Continues
    <3> QED
      BY <3>3, <3>5 DEF HInv
  <2>4. CASE End(c) /\ line' = Tail(line)
    <3>1. InTime(c)' /\ caller'[c].at = "idle"
      BY <1>3, <2>4, Ended
    <3>2. line' = <<>>
      BY <1>3, <2>4, AloneFacts
    <3> QED
      BY <1>3, <3>1, <3>2 DEF HInv, AloneInLine
  <2>5. CASE /\ w # 0 /\ ~(w > MaxWait) /\ bucket' = b /\ line' = line
             /\ caller' = [caller EXCEPT ![c].at = "asleep", ![c].sleep = w]
    <3> DEFINE r == [k EXCEPT !.at = "asleep", !.sleep = w]
    <3>1. w \in 0 .. MaxWait
      BY <2>5, ConstantsAreTyped
    <3>2. r \in CallerSet /\ r.at = "asleep" /\ r.left = k.left /\ r.attempt = k.attempt
          /\ r.sleep = w /\ caller' = [caller EXCEPT ![c] = r]
      BY <1>1, <2>5, <3>1, AloneFacts DEF CallerSet, Place
    <3> HIDE DEF r
    <3>3. v = w
      <4>1. Advance(b, 0) = b
        BY AloneFacts, AdvanceTwice
      <4> QED
        BY <1>5, <2>1, <2>5, <4>1 DEF NextWait
    <3>4. caller'[c] = r
      BY <3>2, AloneFacts
    <3>5. AloneInLine(c)'
      BY <1>3, <1>5, <2>5, <3>2, <3>3, <3>4 DEF AloneInLine
    <3>6. Present(r, v) <= Present(k, w)
      <4>1. Lesser(w, MaxWait) = w
        BY <2>5, ConstantsAreTyped DEF Lesser
      <4> QED
        BY <2>1, <3>2, <4>1, PresentIsTyped, TimesAreTyped
    <3>7. InTime(c)'
      BY <1>1, <1>2, <1>3, <1>5, <2>1, <3>2, <3>6, Continues
    <3> QED
      BY <3>5, <3>7 DEF HInv
  <2> QED
    BY <2>2, <2>3, <2>4, <2>5
<1>7. CASE Wake(c)
  <2> DEFINE r == [k EXCEPT !.at = "acquire"]
  <2>1. k.at = "asleep" /\ k.sleep = 0 /\ bucket' = bucket /\ line' = line
    BY <1>1, <1>7 DEF Wake
  <2>2. r \in CallerSet /\ r.at = "acquire" /\ r.left = k.left /\ r.attempt = k.attempt
        /\ caller' = [caller EXCEPT ![c] = r]
    BY <1>1, <1>7, AloneFacts DEF CallerSet, Place, Wake
  <2> HIDE DEF r
  <2>3. caller'[c] = r
    BY <2>2, AloneFacts
  <2>4. AloneInLine(c)'
    BY <1>3, <2>1, <2>2, <2>3 DEF AloneInLine
  <2>5. v = w
    BY <1>2, <1>5, <2>1 DEF NextWait
  <2>6. w = 0
    BY <1>1, <1>2, <2>1 DEF HInv, AloneInLine
  <2>7. Lesser(w, MaxWait) = 0
    BY <2>6, ConstantsAreTyped DEF Lesser
  <2>8. Present(r, v) <= Present(k, w)
    BY <2>1, <2>2, <2>5, <2>7, PresentIsTyped, TimesAreTyped
  <2>9. InTime(c)'
    BY <1>1, <1>2, <1>3, <1>5, <2>1, <2>2, <2>8, Continues
  <2> QED
    BY <2>4, <2>9 DEF HInv
<1> QED
  BY <1>6, <1>7
LEMMA AnswerHeld ==
  ASSUME NEW c, Caller = {c}, HInv(c), IInv', Serve(c) \/ RefusePrimary(c) \/ RefuseSecondary(c)
  PROVE  HInv(c)'
<1>1. PICK k \in CallerSet : k = caller[c]
  BY AloneFacts
<1>2. PICK f, t : Answer(c, f, t)
  BY DEF Serve, RefusePrimary, RefuseSecondary
<1> DEFINE r == [k EXCEPT !.at = "answered", !.answer =
                   [forbidden |-> f, retry |-> t, reset |-> github.turn,
                    remaining |-> github'.remaining]]
<1>3. /\ k.at = "sent" /\ caller' = [caller EXCEPT ![c] = r]
      /\ UNCHANGED <<bucket, line, shop, held>>
  BY <1>1, <1>2, AloneFacts DEF Answer
<1>4. caller'[c] = r /\ caller'[c] \in CallerSet
  BY <1>3, AloneFacts, Pieces DEF HInv, IInv, Typed
<1>5. r.at = "answered" /\ r.left = k.left /\ r.attempt = k.attempt /\ r.late = k.late
  BY DEF CallerSet
<1> HIDE DEF r
<1>6. AloneInLine(c)'
  BY <1>1, <1>3, <1>4, <1>5 DEF HInv, AloneInLine
<1>7. PICK w \in Nat : w = NextWait /\ w = NextWait'
  BY <1>3, AloneFacts DEF NextWait
<1>8. Present(r, w) <= Present(k, w)
  BY <1>3, <1>4, <1>5, PresentIsTyped, TimesAreTyped
<1>9. InTime(c)'
  BY <1>1, <1>3, <1>4, <1>5, <1>7, <1>8, Continues
<1> QED
  BY <1>6, <1>9 DEF HInv

(* What an answer leaves to do is a later attempt, or the end of the row.   *)
LEMMA ReceiveHeld ==
  ASSUME NEW c, Caller = {c}, HInv(c), IInv', Receive(c)
  PROVE  HInv(c)'
<1>1. PICK k \in CallerSet : k = caller[c]
  BY AloneFacts
<1> DEFINE again == [k EXCEPT !.at = "token", !.late = FALSE, !.answer = None]
<1>2. k.at = "answered" /\ UNCHANGED <<line, shop, held>>
  BY <1>1 DEF Receive
<1>3. again \in CallerSet /\ again.at = "token"
      /\ again.attempt = k.attempt /\ again.left = k.left
  <2>1. FALSE \in BOOLEAN /\ None \in AnswerSet \cup {None} /\ "token" \in Place
    BY DEF Place
  <2> QED
    BY <2>1 DEF CallerSet
<1>4. PICK v \in Nat : v = NextWait
  BY AloneFacts
<1>5. PICK w \in Nat : w = NextWait'
  <2>1. bucket' \in BucketSet
    BY DEF IInv, Typed
  <2> QED
    BY <2>1, WaitFalls DEF NextWait
<1>6. /\ k.left \in 1 .. Requests /\ k.attempt \in 1 .. Attempts
      /\ held[c] + Later(k) + Present(k, v) <= LongestRow
  BY <1>1, <1>2, <1>4 DEF HInv, InTime
<1>7. /\ held[c] \in Nat /\ Later(k) \in Nat /\ Present(k, v) \in Nat
  <2>1. held[c] \in 0 .. HeldCap
    BY Pieces DEF HInv
  <2> QED
    BY <1>6, <2>1, LaterCases, PresentIsTyped, ConstantsAreTyped
<1>8. ASSUME NEW r \in CallerSet, caller' = [caller EXCEPT ![c] = r], r.at = "token",
             r.left \in 1 .. Requests, r.attempt \in 1 .. Attempts,
             Later(r) + AttemptTime <= Later(k)
      PROVE  HInv(c)'
  <2>1. caller'[c] = r
    BY <1>8, AloneFacts
  <2>2. AloneInLine(c)'
    BY <1>1, <1>2, <1>8, <2>1 DEF HInv, AloneInLine
  <2>3. Present(r, w) = AttemptTime /\ Later(r) \in Nat
    BY <1>8, PresentIsTyped, LaterCases
  <2>4. held[c] + Later(r) + Present(r, w) <= LongestRow
    BY <1>6, <1>7, <1>8, <2>3, TimesAreTyped
  <2>5. held'[c] + Later(caller'[c]) + Present(caller'[c], w) <= LongestRow
    BY <1>2, <2>1, <2>4
  <2>6. InTime(c)'
    BY <1>5, <1>8, <2>1, <2>5 DEF InTime, Later, Present
  <2> QED
    BY <2>2, <2>6 DEF HInv
<1>9. \/ /\ k.attempt < Attempts
         /\ caller' = [caller EXCEPT ![c] = [again EXCEPT !.attempt = k.attempt + 1]]
      \/ /\ k.left > 1
         /\ caller' = [caller EXCEPT ![c] = [again EXCEPT !.attempt = 1, !.left = k.left - 1]]
      \/ End(c)
  BY <1>1, <1>3 DEF Receive
<1> HIDE DEF again
<1>10. CASE /\ k.attempt < Attempts
            /\ caller' = [caller EXCEPT ![c] = [again EXCEPT !.attempt = k.attempt + 1]]
  <2> DEFINE r == [again EXCEPT !.attempt = k.attempt + 1]
  <2>1. k.attempt + 1 \in 0 .. Attempts /\ k.attempt + 1 \in 1 .. Attempts
    BY <1>6, <1>10, ConstantsAreTyped
  <2>2. r \in CallerSet /\ r.at = "token" /\ r.left = k.left /\ r.attempt = k.attempt + 1
    BY <1>3, <2>1 DEF CallerSet
  <2>3. caller' = [caller EXCEPT ![c] = r]
    BY <1>10
  <2> HIDE DEF r
  <2>4. Later(r) + AttemptTime = Later(k)
    BY <1>6, <1>10, <2>2, LaterCases
  <2>5. Later(r) + AttemptTime <= Later(k)
    BY <1>7, <2>4
  <2> QED
    BY <1>6, <1>8, <2>1, <2>2, <2>3, <2>5
<1>11. CASE /\ k.left > 1
            /\ caller' = [caller EXCEPT ![c] = [again EXCEPT !.attempt = 1, !.left = k.left - 1]]
  <2> DEFINE r == [again EXCEPT !.attempt = 1, !.left = k.left - 1]
  <2>1. k.left - 1 \in 0 .. Requests /\ k.left - 1 \in 1 .. Requests
        /\ 1 \in 0 .. Attempts /\ 1 \in 1 .. Attempts
    BY <1>6, <1>11, ConstantsAreTyped
  <2>2. r \in CallerSet /\ r.at = "token" /\ r.left = k.left - 1 /\ r.attempt = 1
    BY <1>3, <2>1 DEF CallerSet
  <2>3. caller' = [caller EXCEPT ![c] = r]
    BY <1>11
  <2> HIDE DEF r
  <2>4. Later(r) + AttemptTime <= Later(k)
    BY <1>6, <1>11, <2>2, LaterCases
  <2> QED
    BY <1>8, <2>1, <2>2, <2>3, <2>4
<1>12. CASE End(c)
  <2>1. InTime(c)' /\ caller'[c].at = "idle"
    BY <1>2, <1>12, Ended
  <2> QED
    BY <1>1, <1>2, <2>1 DEF HInv, AloneInLine
<1> QED
  BY <1>9, <1>10, <1>11, <1>12

LEMMA LoseHeld ==
  ASSUME NEW c, Caller = {c}, HInv(c), IInv', Lose(c)
  PROVE  HInv(c)'
<1>1. /\ caller[c].at \in {"sent", "answered"} /\ End(c)
      /\ UNCHANGED <<line, shop, held>>
  BY DEF Lose
<1>2. InTime(c)' /\ caller'[c].at = "idle"
  BY <1>1, Ended
<1> QED
  BY <1>1, <1>2 DEF HInv, AloneInLine

(* Time is taken from what the present attempt may still take.             *)
LEMMA TickHeld ==
  ASSUME NEW c, Caller = {c}, HInv(c), IInv', Tick
  PROVE  HInv(c)'
<1>1. PICK k \in CallerSet : k = caller[c]
  BY AloneFacts
<1>2. /\ line' = line /\ shop' = shop /\ bucket' = Advance(bucket, 1) /\ Waits(c)
      /\ caller'[c] = Older(k)
      /\ held'[c] = IF k.at = "idle" THEN 0 ELSE Lesser(HeldCap, held[c] + 1)
  BY <1>1 DEF Tick
<1>3. PICK r \in CallerSet : r = Older(k)
  BY OlderIsTyped
<1>4. /\ r.at = k.at /\ r.left = k.left /\ r.attempt = k.attempt /\ r.sleep = Less(k.sleep)
      /\ k.at \in {"fetch", "sent", "answered"} => r.late
  <2> DEFINE late == k.at \in {"fetch", "sent", "answered"}
  <2>1. Older(k) = [k EXCEPT !.token = Less(k.token), !.sleep = Less(k.sleep),
                             !.late = late, !.answer = Aged(k.answer)]
    BY DEF Older
  <2>2. late \in BOOLEAN
    OBVIOUS
  <2>3. r.late = late /\ r.at = k.at /\ r.left = k.left /\ r.attempt = k.attempt
        /\ r.sleep = Less(k.sleep)
    BY <1>3, <2>1 DEF CallerSet
  <2> QED
    BY <2>3
<1>5. PICK v \in Nat : v = NextWait
  BY AloneFacts
<1>6. PICK w \in Nat : w = NextWait' /\ (w = 0 \/ w + 1 <= v)
  BY <1>2, <1>5, AloneFacts, AdvanceTwice, WaitFalls DEF NextWait
<1>7. k.sleep \in 0 .. MaxWait /\ k.sleep \in Nat
  BY ConstantsAreTyped DEF CallerSet
<1>8. /\ k.at \in {"idle", "asleep", "fetch", "sent", "answered"}
      /\ k.at = "asleep" => k.sleep > 0
      /\ k.at \in {"fetch", "sent", "answered"} => Latency = 1 /\ ~k.late
  BY <1>1, <1>2, AloneFacts DEF HInv, AloneInLine, Waits, Holds
<1>9. AloneInLine(c)'
  <2>1. k.at = "asleep" => w <= r.sleep
    <3> SUFFICES ASSUME k.at = "asleep" PROVE w <= r.sleep
      OBVIOUS
    <3>1. PICK n \in Nat : n = k.sleep
      BY <1>7
    <3>2. v <= n /\ n > 0
      BY <1>1, <1>5, <1>8, <3>1 DEF HInv, AloneInLine
    <3>3. r.sleep = n - 1
      BY <1>4, <3>1, <3>2 DEF Less, Greater
    <3>4. w = 0 \/ w + 1 <= v
      BY <1>6
    <3>5. w <= n - 1
      BY <3>2, <3>4
    <3> QED
      BY <3>3, <3>5
  <2>2. /\ line = IF k.at \in {"acquire", "asleep"} THEN <<c>> ELSE <<>>
        /\ shop = IF k.at \in {"buy", "fetch"} THEN <<c>> ELSE <<>>
    BY <1>1 DEF HInv, AloneInLine
  <2>3. caller'[c] = r /\ caller'[c].at = k.at
    BY <1>2, <1>3, <1>4
  <2>4. caller'[c].at = "asleep" => NextWait' <= caller'[c].sleep
    BY <1>6, <2>1, <2>3
  <2> QED
    BY <1>2, <2>2, <2>3, <2>4 DEF AloneInLine
<1>10. CASE k.at = "idle"
  BY <1>2, <1>3, <1>4, <1>9, <1>10, TimesAreTyped DEF HInv, InTime
<1>11. CASE k.at # "idle"
  <2>1. /\ k.left \in 1 .. Requests /\ k.attempt \in 1 .. Attempts
        /\ held[c] + Later(k) + Present(k, v) <= LongestRow
    BY <1>1, <1>5, <1>11 DEF HInv, InTime
  <2>2. PICK h \in Nat : h = held[c]
    <3>1. held[c] \in 0 .. HeldCap
      BY Pieces DEF HInv
    <3> QED
      BY <3>1, ConstantsAreTyped
  <2>3. Later(k) \in Nat /\ Later(r) = Later(k)
    BY <1>4, <2>1, LaterCases DEF Later
  <2>4. Present(k, v) \in Nat /\ Present(r, w) \in Nat
    BY PresentIsTyped
  <2>5. Present(r, w) + 1 <= Present(k, v)
    <3>1. CASE k.at = "asleep"
      <4>1. r.sleep = k.sleep - 1 /\ r.at = "asleep"
        BY <1>4, <1>7, <1>8, <3>1 DEF Less, Greater
      <4>2. Present(k, v) = k.sleep + Latency
        BY <3>1, PresentIsTyped
      <4>3. Present(r, w) = r.sleep + Latency
        BY <4>1, PresentIsTyped
      <4> QED
        BY <1>7, <4>1, <4>2, <4>3, TimesAreTyped
    <3>2. CASE k.at = "fetch"
      <4>1. Present(k, v) = MaxWait + Latency + Latency /\ Latency = 1
        BY <1>8, <3>2, PresentIsTyped
      <4>2. Present(r, w) = MaxWait + Latency + 0
        BY <1>4, <3>2, PresentIsTyped
      <4> QED
        BY <4>1, <4>2, ConstantsAreTyped
    <3>3. CASE k.at \in {"sent", "answered"}
      <4>1. Present(k, v) = 1
        BY <1>8, <3>3, PresentIsTyped
      <4>2. Present(r, w) = 0
        BY <1>4, <3>3, PresentIsTyped
      <4> QED
        BY <4>1, <4>2
    <3> QED
      BY <1>8, <1>11, <3>1, <3>2, <3>3
  <2>6. held'[c] \in Nat /\ held'[c] <= h + 1
    BY <1>2, <1>11, <2>2, ConstantsAreTyped DEF Lesser
  <2>7. held'[c] + Later(r) + Present(r, w) <= LongestRow
    BY <2>1, <2>2, <2>3, <2>4, <2>5, <2>6, TimesAreTyped
  <2>8. held'[c] + Later(caller'[c]) + Present(caller'[c], w) <= LongestRow
    BY <1>2, <1>3, <2>7
  <2>9. InTime(c)'
    BY <1>2, <1>3, <1>4, <1>6, <1>11, <2>1, <2>8 DEF InTime, Later, Present
  <2> QED
    BY <1>9, <2>9 DEF HInv
<1> QED
  BY <1>10, <1>11

LEMMA StepHeld ==
  ASSUME NEW c, Caller = {c}, HInv(c), [Next]_vars
  PROVE  HInv(c)'
<1>1. IInv'
  BY StepKeeps DEF HInv
<1>2. CASE Elsewhere \/ UNCHANGED vars
  <2>1. UNCHANGED <<bucket, line, shop, caller, held>>
    BY <1>2 DEF Elsewhere, vars
  <2> QED
    BY <1>1, <2>1 DEF HInv, AloneInLine, InTime, Later, Present, NextWait
<1>3. CASE Tick
  BY <1>1, <1>3, TickHeld
<1>4. CASE Step(c)
  BY <1>1, <1>4, TokenHeld, LimiterHeld, AnswerHeld, ReceiveHeld, LoseHeld DEF Step
<1>5. ASSUME NEW n \in 1 .. Requests, Start(c, n) PROVE HInv(c)'
  BY <1>1, <1>5, StartHeld
<1> QED
  BY <1>2, <1>3, <1>4, <1>5 DEF Next

(* A caller that has the limiter to itself holds its row for no longer than *)
(* its attempts can take, each with one wait of RateLimiter.acquire, one    *)
(* purchase of a token and one request.  Where that is within               *)
(* reaper_timeout_seconds, no row is reaped while its worker sleeps out a   *)
(* limit, as config.py has it.                                             *)
THEOREM LoneRowsAreHeldInTime ==
  ASSUME NEW c, Caller = {c}, LongestRow <= Reaper
  PROVE  Spec => []HeldWithinReaper
<1>1. Init => HInv(c)
  <2> SUFFICES ASSUME Init PROVE HInv(c)
    OBVIOUS
  <2>1. line = <<>> /\ shop = <<>> /\ caller[c].at = "idle" /\ held[c] = 0
    BY IdleIsTyped DEF Init
  <2> QED
    BY <2>1, InitIInv, TimesAreTyped DEF HInv, AloneInLine, InTime
<1>2. HInv(c) /\ [Next]_vars => HInv(c)'
  BY StepHeld
<1>3. HInv(c) => HeldWithinReaper
  <2> SUFFICES ASSUME HInv(c) PROVE held[c] <= Reaper
    BY DEF HeldWithinReaper
  <2>1. PICK k \in CallerSet : k = caller[c]
    BY AloneFacts
  <2>2. PICK v \in Nat : v = NextWait
    BY AloneFacts
  <2>3. held[c] \in Nat
    <3>1. held[c] \in 0 .. HeldCap
      BY Pieces DEF HInv
    <3> QED
      BY <3>1, ConstantsAreTyped
  <2>4. Reaper \in Nat
    BY ConstantsAssumption DEF ConstantsAssumption
  <2>5. CASE k.at = "idle"
    BY <2>1, <2>3, <2>4, <2>5, TimesAreTyped DEF HInv, InTime
  <2>6. CASE k.at # "idle"
    <3>1. /\ k.left \in 1 .. Requests /\ k.attempt \in 1 .. Attempts
          /\ held[c] + Later(k) + Present(k, v) <= LongestRow
      BY <2>1, <2>2, <2>6 DEF HInv, InTime
    <3>2. Later(k) \in Nat /\ Present(k, v) \in Nat
      BY <3>1, LaterCases, PresentIsTyped
    <3> QED
      BY <2>3, <2>4, <3>1, <3>2, TimesAreTyped
  <2> QED
    BY <2>5, <2>6
<1> QED
  BY <1>1, <1>2, <1>3, PTL DEF Spec, Safety
===============================================================================
