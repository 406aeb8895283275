----------------------------- MODULE GitHubClient -----------------------------
(***************************************************************************)
(* Calls to the GitHub API: api_request and installation_token in          *)
(* backend/app/github.py, above the Bucket and the RateLimiter of          *)
(* backend/app/ratelimit.py, for one installation.                         *)
(*                                                                         *)
(* A caller is a coroutine that handles a queue row and makes its requests *)
(* one after the other.  A step runs from one await to the next at most.   *)
(* Every instant is kept as its distance from now.  Time passes in whole   *)
(* units, and only when every coroutine is waiting for it: for the end of  *)
(* a sleep, for a lock, or for the network.  Tokens are counted in         *)
(* 1/Window of a request, so that a unit of time refills a whole number.   *)
(***************************************************************************)
EXTENDS Integers, Sequences, FiniteSets

CONSTANTS Caller,        \* coroutines that call GitHub
          DefaultLimit,  \* DEFAULT_LIMIT
          Limit,         \* requests GitHub grants in a window
          Window,        \* WINDOW_SECONDS
          MaxWait,       \* github_rate_limit_max_wait_seconds
          Attempts,      \* RATE_LIMIT_ATTEMPTS
          TokenLife,     \* how long an installation token is good for
          RenewBefore,   \* RENEW_BEFORE_EXPIRY
          RetryAfter,    \* values of retry-after
          Requests,      \* bound: requests the handling of a row makes
          Reaper,        \* reaper_timeout_seconds
          Latency,       \* bound: units of time a request takes at most, 0 or 1
          HeldCap,       \* bound: up to here the time a row is held is counted
          None

ASSUME ConstantsAssumption ==
  /\ {DefaultLimit, Limit, Window, MaxWait, Attempts, Requests} \subseteq Nat \ {0}
  /\ {TokenLife, RenewBefore, Reaper, HeldCap} \subseteq Nat
  /\ Latency \in {0, 1}
  /\ RenewBefore < TokenLife
  /\ RetryAfter \subseteq Nat
  /\ None \notin Int
  /\ \A f \in BOOLEAN, t \in RetryAfter \cup {None}, s \in 0 .. Window, m \in 0 .. Limit :
       None # [forbidden |-> f, retry |-> t, reset |-> s, remaining |-> m]

VARIABLES bucket,   \* RateLimiter._buckets[installation]
          line,     \* its asyncio.Lock: the holder, then the waiters in order
          cached,   \* _tokens[installation]: how long it lives on, 0 if none
          shop,     \* github._lock: the holder, then the waiters
          caller,   \* caller[c]: how far c is
          github,   \* what GitHub counts
          told,     \* history: the longest of the waits GitHub asked for
          refused,  \* history: primary refusals c was told of in GitHub's window
          held      \* history: how long c has held its row

vars == <<bucket, line, cached, shop, caller, github, told, refused, held>>

Lesser(a, b)  == IF a <= b THEN a ELSE b
Greater(a, b) == IF a >= b THEN a ELSE b

Idle == [at |-> "idle", token |-> 0, left |-> 0, attempt |-> 0, sleep |-> 0,
         late |-> FALSE, answer |-> None]

Init ==
  /\ bucket = [limit |-> DefaultLimit, tokens |-> DefaultLimit * Window,
               resets |-> None, blocked |-> 0]
  /\ line = <<>> /\ shop = <<>>
  /\ cached = 0
  /\ caller = [c \in Caller |-> Idle]
  /\ github = [remaining |-> Limit, turn |-> Window]
  /\ told = 0
  /\ refused = [c \in Caller |-> 0]
  /\ held = [c \in Caller |-> 0]
-------------------------------------------------------------------------------
(* The bucket, advanced by the time that has passed since it last was.     *)
Advance(b, elapsed) ==
  LET turned == b.resets # None /\ b.resets <= elapsed
      tokens == IF turned THEN b.limit * Window ELSE b.tokens + elapsed * b.limit
  IN [limit   |-> b.limit,
      tokens  |-> Lesser(b.limit * Window, tokens),
      resets  |-> IF b.resets = None \/ turned THEN None ELSE b.resets - elapsed,
      blocked |-> Greater(0, b.blocked - elapsed)]

(* Units of time, rounded up.                                              *)
WaitForToken(b) ==
  Greater(b.blocked,
          IF b.tokens >= Window THEN 0
          ELSE (Window - b.tokens + b.limit - 1) \div b.limit)

Take(b) == [b EXCEPT !.tokens = @ - Window]

(* What the headers of an answer ask us to wait.                           *)
Asked(a) == Greater(IF a.remaining = 0 THEN a.reset ELSE 0,
                    IF a.retry = None THEN 0 ELSE a.retry)

(* Mutant: the last answer decides, also one older than the block.         *)
Observe_LastWins(b, a) ==
  [limit   |-> Limit,
   tokens  |-> Lesser(Advance(b, 0).tokens, a.remaining * Window),
   resets  |-> a.reset,
   blocked |-> Asked(a)]

(* Mutant: only retry-after is honoured, not a spent budget.               *)
Observe_IgnoresReset(b, a) ==
  [limit   |-> Limit,
   tokens  |-> Lesser(Advance(b, 0).tokens, a.remaining * Window),
   resets  |-> a.reset,
   blocked |-> Greater(b.blocked, IF a.retry = None THEN 0 ELSE a.retry)]

(* The headers are there on every answer; reset is never negative.         *)
Observe(b, a) ==
  [limit   |-> Limit,
   tokens  |-> Lesser(Advance(b, 0).tokens, a.remaining * Window),
   resets  |-> a.reset,
   blocked |-> Greater(b.blocked, Asked(a))]

(* Mutant: a token is used up to its last moment.                          *)
Usable_NoMargin(life) == life > 0

(* InstallationToken.usable_at                                             *)
Usable(life) == life > RenewBefore
-------------------------------------------------------------------------------
Leave(queue, c) == SelectSeq(queue, LAMBDA d : d # c)

Holds(queue, c) == queue # <<>> /\ Head(queue) = c

(* With a token in hand the caller asks the limiter for its turn.          *)
GetInLine(c, token) ==
  /\ caller' = [caller EXCEPT ![c].at = "acquire", ![c].token = token]
  /\ line' = Append(line, c)

(* The row is done, failed or handed back to the queue.                    *)
End(c) == caller' = [caller EXCEPT ![c] = Idle]

(* A row of n requests.                                                    *)
Start(c, n) ==
  /\ caller[c].at = "idle"
  /\ caller' = [caller EXCEPT ![c] = [Idle EXCEPT !.at = "token", !.left = n,
                                                  !.attempt = 1]]
  /\ held' = [held EXCEPT ![c] = 0]
  /\ UNCHANGED <<bucket, line, cached, shop, github, told, refused>>

(* installation_token, outside its lock.                                   *)
ReadToken(c) ==
  /\ caller[c].at = "token"
  /\ IF Usable(cached)
     THEN GetInLine(c, cached) /\ UNCHANGED shop
     ELSE /\ caller' = [caller EXCEPT ![c].at = "buy"]
          /\ shop' = Append(shop, c)
          /\ UNCHANGED line
  /\ UNCHANGED <<bucket, cached, github, told, refused, held>>

(* Mutant: what was read before the lock is not read again.                *)
BuyToken_NoSecondLook(c) ==
  /\ caller[c].at = "buy" /\ Holds(shop, c)
  /\ caller' = [caller EXCEPT ![c].at = "fetch"]
  /\ UNCHANGED <<bucket, line, cached, shop, github, told, refused, held>>

(* installation_token, inside it.                                          *)
BuyToken(c) ==
  /\ caller[c].at = "buy" /\ Holds(shop, c)
  /\ IF Usable(cached)
     THEN GetInLine(c, cached) /\ shop' = Tail(shop)
     ELSE /\ caller' = [caller EXCEPT ![c].at = "fetch"]
          /\ UNCHANGED <<line, shop>>
  /\ UNCHANGED <<bucket, cached, github, told, refused, held>>

Fetched(c) ==
  /\ caller[c].at = "fetch"
  /\ cached' = TokenLife
  /\ caller' = [caller EXCEPT ![c].at = "acquire", ![c].token = TokenLife,
                              ![c].late = FALSE]
  /\ line' = Append(line, c)
  /\ shop' = Tail(shop)
  /\ UNCHANGED <<bucket, github, told, refused, held>>

(* GitHubAuthError, a status of 500 or no answer.                          *)
FetchFails(c) ==
  /\ caller[c].at = "fetch"
  /\ shop' = Tail(shop)
  /\ End(c)
  /\ UNCHANGED <<bucket, line, cached, github, told, refused, held>>
-------------------------------------------------------------------------------
(* Mutant: every wait is slept through.                                    *)
Acquire_SleepsOut(c) ==
  LET b == Advance(bucket, 0)
      w == WaitForToken(b)
  IN /\ caller[c].at = "acquire" /\ Holds(line, c)
     /\ bucket' = IF w = 0 THEN Take(b) ELSE b
     /\ caller' = [caller EXCEPT ![c].at = IF w = 0 THEN "sent" ELSE "asleep",
                                 ![c].sleep = w]
     /\ line' = IF w = 0 THEN Tail(line) ELSE line
     /\ UNCHANGED <<cached, shop, github, told, refused, held>>

(* One turn of the loop in RateLimiter.acquire, which the request follows  *)
(* without an await.                                                       *)
Acquire(c) ==
  LET b == Advance(bucket, 0)
      w == WaitForToken(b)
  IN /\ caller[c].at = "acquire" /\ Holds(line, c)
     /\ CASE w = 0       -> /\ bucket' = Take(b)
                            /\ caller' = [caller EXCEPT ![c].at = "sent"]
                            /\ line' = Tail(line)
          [] w > MaxWait -> bucket' = b /\ End(c) /\ line' = Tail(line)
          [] OTHER       -> /\ bucket' = b
                            /\ caller' = [caller EXCEPT ![c].at = "asleep",
                                                        ![c].sleep = w]
                            /\ UNCHANGED line
     /\ UNCHANGED <<cached, shop, github, told, refused, held>>

(* Mutant: the token is taken after the sleep without another look.        *)
Wake_Takes(c) ==
  /\ caller[c].at = "asleep" /\ caller[c].sleep = 0
  /\ bucket' = Take(Advance(bucket, 0))
  /\ caller' = [caller EXCEPT ![c].at = "sent"]
  /\ line' = Tail(line)
  /\ UNCHANGED <<cached, shop, github, told, refused, held>>

(* The sleep is over; the lock was never let go.                           *)
Wake(c) ==
  /\ caller[c].at = "asleep" /\ caller[c].sleep = 0
  /\ caller' = [caller EXCEPT ![c].at = "acquire"]
  /\ UNCHANGED <<bucket, line, cached, shop, github, told, refused, held>>
-------------------------------------------------------------------------------
Answer(c, forbidden, retry) ==
  /\ caller[c].at = "sent"
  /\ caller' = [caller EXCEPT ![c].at = "answered", ![c].answer =
       [forbidden |-> forbidden, retry |-> retry, reset |-> github.turn,
        remaining |-> github'.remaining]]
  /\ UNCHANGED <<bucket, line, cached, shop, told, refused, held>>

(* External: GitHub counts a request while the window has some left, and   *)
(* serves it or refuses it for want of a permission.                       *)
Serve(c) ==
  /\ github.remaining > 0
  /\ github' = [github EXCEPT !.remaining = @ - 1]
  /\ \E forbidden \in BOOLEAN : Answer(c, forbidden, None)

(* External: the budget of the window is spent.                            *)
RefusePrimary(c) ==
  /\ github.remaining = 0
  /\ UNCHANGED github
  /\ Answer(c, TRUE, None)

(* External: the secondary limit, whatever is left.                        *)
RefuseSecondary(c) ==
  /\ UNCHANGED github
  /\ \E r \in RetryAfter : Answer(c, TRUE, r)

(* A 403 or 429 is a rate limit if its headers say so.                     *)
RateLimited(a) == a.forbidden /\ (a.retry # None \/ a.remaining = 0)

(* Mutant: a rate-limited request is tried again as often as it takes.     *)
Receive_NoLimit(c) ==
  LET a == caller[c].answer
      again == [caller[c] EXCEPT !.at = "token", !.late = FALSE, !.answer = None]
  IN /\ caller[c].at = "answered"
     /\ bucket' = Observe(bucket, a)
     /\ told' = Greater(told, Asked(a))
     /\ refused' = IF RateLimited(a) /\ a.retry = None /\ a.reset > 0
                   THEN [refused EXCEPT ![c] = Lesser(2, @ + 1)] ELSE refused
     /\ IF RateLimited(a) THEN caller' = [caller EXCEPT ![c] = again] ELSE End(c)
     /\ UNCHANGED <<line, cached, shop, github, held>>

(* The answer is observed; a rate-limited request is tried again, as often *)
(* as RATE_LIMIT_ATTEMPTS says.  Another 403 fails the row.                *)
Receive(c) ==
  LET a == caller[c].answer
      again == [caller[c] EXCEPT !.at = "token", !.late = FALSE, !.answer = None]
  IN /\ caller[c].at = "answered"
     /\ bucket' = Observe(bucket, a)
     /\ told' = Greater(told, Asked(a))
     /\ refused' = IF RateLimited(a) /\ a.retry = None /\ a.reset > 0
                   THEN [refused EXCEPT ![c] = Lesser(2, @ + 1)] ELSE refused
     /\ CASE RateLimited(a) /\ caller[c].attempt < Attempts ->
               caller' = [caller EXCEPT ![c] = [again EXCEPT !.attempt = @ + 1]]
          [] ~a.forbidden /\ caller[c].left > 1 ->
               caller' = [caller EXCEPT ![c] = [again EXCEPT !.attempt = 1,
                                                             !.left = @ - 1]]
          [] OTHER -> End(c)
     /\ UNCHANGED <<line, cached, shop, github, held>>

(* No answer, or none in time: the exception fails the row.                *)
Lose(c) ==
  /\ caller[c].at \in {"sent", "answered"}
  /\ End(c)
  /\ UNCHANGED <<bucket, line, cached, shop, github, told, refused, held>>

(* External: another process spends from the same budget.                  *)
Elsewhere ==
  /\ github.remaining > 0
  /\ github' = [github EXCEPT !.remaining = @ - 1]
  /\ UNCHANGED <<bucket, line, cached, shop, caller, told, refused, held>>

(* A coroutine that has something to do now does it before time passes.    *)
(* What is under way on the network takes Latency units at most.           *)
Waits(c) ==
  \/ caller[c].at = "idle"
  \/ caller[c].at = "asleep" /\ caller[c].sleep > 0
  \/ caller[c].at = "acquire" /\ ~Holds(line, c)
  \/ caller[c].at = "buy" /\ ~Holds(shop, c)
  \/ caller[c].at \in {"fetch", "sent", "answered"}
     /\ Latency = 1 /\ ~caller[c].late

Less(n) == Greater(0, n - 1)

Aged(a) == IF a = None THEN None ELSE [a EXCEPT !.reset = Less(@)]

Older(s) ==
  [s EXCEPT !.token = Less(@), !.sleep = Less(@),
            !.late = s.at \in {"fetch", "sent", "answered"},
            !.answer = Aged(@)]

Tick ==
  /\ \A c \in Caller : Waits(c)
  /\ bucket' = Advance(bucket, 1)
  /\ cached' = Less(cached)
  /\ caller' = [c \in Caller |-> Older(caller[c])]
  /\ github' = IF github.turn > 1 THEN [github EXCEPT !.turn = @ - 1]
               ELSE [remaining |-> Limit, turn |-> Window]
  /\ refused' = IF github.turn > 1 THEN refused ELSE [c \in Caller |-> 0]
  /\ told' = Less(told)
  /\ held' = [c \in Caller |-> IF caller[c].at = "idle" THEN 0
                               ELSE Lesser(HeldCap, held[c] + 1)]
  /\ UNCHANGED <<line, shop>>

Step(c) ==
  \/ ReadToken(c) \/ BuyToken(c) \/ Fetched(c) \/ FetchFails(c)
  \/ Acquire(c) \/ Wake(c)
  \/ Serve(c) \/ RefusePrimary(c) \/ RefuseSecondary(c)
  \/ Receive(c) \/ Lose(c)

Next ==
  \/ \E c \in Caller : Step(c) \/ \E n \in 1 .. Requests : Start(c, n)
  \/ Elsewhere \/ Tick

Safety == Init /\ [][Next]_vars

(* The event loop runs what can run, GitHub or the client's timeout ends   *)
(* every request, and time does not stop, also when rows come and fail all *)
(* the while.  No row need ever come.                                      *)
Spec == Safety /\ SF_vars(Tick) /\ \A c \in Caller : WF_vars(Step(c))
-------------------------------------------------------------------------------
Place == {"idle", "token", "buy", "fetch", "acquire", "asleep", "sent", "answered"}

TypeOK ==
  /\ bucket.limit \in {DefaultLimit, Limit}
  /\ bucket.tokens \in Int
  /\ bucket.resets \in Nat \cup {None}
  /\ bucket.blocked \in Nat
  /\ line \in Seq(Caller) /\ shop \in Seq(Caller)
  /\ cached \in 0 .. TokenLife
  /\ \A c \in Caller :
       /\ caller[c].at \in Place
       /\ caller[c].token \in 0 .. TokenLife
       /\ caller[c].left \in 0 .. Requests
       /\ caller[c].attempt \in 0 .. Attempts
       /\ caller[c].sleep \in 0 .. MaxWait
  /\ github.remaining \in 0 .. Limit /\ github.turn \in 1 .. Window
  /\ told \in Nat
  /\ refused \in [Caller -> 0 .. 2]
  /\ held \in [Caller -> 0 .. HeldCap]

(* However callers interleave and answers are delayed, the bucket is never *)
(* overdrawn: one token left lets one caller go.                           *)
NeverOverdrawn == bucket.tokens >= 0

(* Nothing is sent while a wait that GitHub asked for, of whichever caller *)
(* and by whichever header, is not over; what is observed while a caller   *)
(* sleeps holds for that caller too.                                       *)
HonoursEveryWait ==
  [][\A c \in Caller : caller'[c].at = "sent" /\ caller[c].at # "sent" => told = 0]_vars

(* A spent budget costs a caller one refused request in GitHub's window:   *)
(* once it was told, it does not ask again before the window turns,        *)
(* although others spend from it and late answers still bring older        *)
(* figures.                                                                *)
RefusedOnce == \A c \in Caller : refused[c] <= 1

(* The token read before the wait for a turn is still good when the        *)
(* request leaves: RENEW_BEFORE_EXPIRY is more than the wait can take.     *)
TokenAlive == \A c \in Caller : caller[c].at = "sent" /\ ~caller[c].late
                                  => caller[c].token > 0

(* Nobody buys a token while there is a usable one, also after having      *)
(* waited for another caller's purchase.                                   *)
BuysOnce ==
  [][\A c \in Caller : caller'[c].at = "fetch" /\ caller[c].at # "fetch"
       => ~Usable(cached)]_vars

(* Every row comes to an end: no caller sleeps, waits for a lock or tries  *)
(* again for ever.                                                         *)
Ends == \A c \in Caller : caller[c].at # "idle" ~> caller[c].at = "idle"

(* As config.py has it: the longest wait is so far below the reaper's      *)
(* timeout that no row is given away while its worker sleeps out a limit.  *)
HeldWithinReaper == \A c \in Caller : held[c] <= Reaper
===============================================================================
