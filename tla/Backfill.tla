------------------------------- MODULE Backfill -------------------------------
(***************************************************************************)
(* The walk of one repository's Actions history, backend/app/backfill.py:  *)
(* start_backfill, handle_backfill_runs and the cursor they keep on the    *)
(* repository row.                                                         *)
(*                                                                         *)
(* A backfill_runs queue row is only a wake-up call.  Its handler loads    *)
(* the cursor, fetches one page of one window of days from GitHub, and in  *)
(* one transaction stores the runs, moves the cursor, marks its row done   *)
(* and enqueues the next one.  Days are numbered; run ids grow with time   *)
(* and GitHub lists a window newest first, never more than ResultCap runs. *)
(***************************************************************************)
EXTENDS Integers, FiniteSets

CONSTANTS Run,         \* run ids
          Day,         \* Day[r]: the UTC day run r was created on
          Late,        \* runs that are created while the walk is under way
          FirstDay,    \* today, when the model starts
          LastDay,     \* bound: midnight passes no later day
          Days,        \* backfill_days
          DaysArg,     \* values an operator gives to --days
          WindowDays,  \* backfill_window_days
          PageSize,    \* backfill_page_size
          ResultCap,   \* backfill_result_cap
          Row,         \* bound: ids for the backfill_runs rows there are at once
          Worker,      \* worker processes
          Operator,    \* people who run python -m app.backfill
          StartLimit,  \* bound: none begins a start after that many
          Fault        \* "race": a walk may be started beside another one;
                       \* "overlap": the reaper may return a row in handling;
                       \* "dead": a row may be dead-lettered

ASSUME ConstantsAssumption ==
  /\ Run \subseteq Nat /\ IsFiniteSet(Run)
  /\ Day \in [Run -> Int]
  /\ \A r, q \in Run : r < q => Day[r] <= Day[q]
  /\ Late \subseteq Run /\ \A r \in Late : Day[r] >= FirstDay
  /\ \A r \in Run \ Late : Day[r] <= FirstDay
  /\ FirstDay \in Int /\ LastDay \in Int
  /\ Days \in Nat \ {0} /\ WindowDays \in Nat \ {0}
  /\ DaysArg \subseteq Nat \ {0}
  /\ \A d \in DaysArg \cup {Days} : d <= FirstDay  \* no walk passes day 1
  /\ PageSize \in Nat \ {0} /\ ResultCap \in Nat \ {0}
  /\ Row \subseteq Nat \ {0} /\ IsFiniteSet(Row)
  /\ StartLimit \in Nat
  /\ Fault \subseteq {"race", "overlap", "dead"}

VARIABLES today,       \* the UTC date
          listed,      \* external: the runs GitHub knows of
          cursor,      \* backfill_status, _window_start, _window_end, _page
          pending,     \* backfill_runs rows waiting in the queue
          processing,  \* backfill_runs rows claimed by a worker
          task,        \* task[w]: the row w handles, the cursor and floor it read
          starter,     \* starter[o]: where o is, what it loaded and will write
          recorded,    \* history: runs stored since the walk began
          owed,        \* history: runs GitHub had for the walk when it began
          lost,        \* history: a wake-up of the walk was dead-lettered
          starts       \* history: starts committed

github == <<today, listed>>
queue  == <<pending, processing>>
ghosts == <<recorded, owed, lost, starts>>
vars   == <<github, cursor, queue, task, starter, ghosts>>

Null == -1             \* NULL in a cursor column (no day, no page), nothing in a hand

Cursor == [status : {"pending", "running", "done", "failed"},
           start : Int, end : Int, page : Int]

Running(start, end, page) ==
  [status |-> "running", start |-> start, end |-> end, page |-> page]

Stopped(status) ==
  [status |-> status, start |-> Null, end |-> Null, page |-> Null]

Idle == [row |-> Null, loaded |-> Stopped("pending"), floor |-> Null]

Away == [at |-> "away", loaded |-> Stopped("pending"), new |-> Stopped("pending")]

TypeOK ==
  /\ today \in Int
  /\ listed \subseteq Run /\ recorded \subseteq Run /\ owed \subseteq Run
  /\ cursor \in Cursor
  /\ cursor.status = "running" => /\ cursor.start <= cursor.end
                                  /\ cursor.page > 0
  /\ pending \subseteq Row /\ processing \subseteq Row
  /\ task \in [Worker -> [row : Row \cup {Null}, loaded : Cursor, floor : Int]]
  /\ starter \in [Operator -> [at : {"away", "looking", "writing"},
                              loaded : Cursor, new : Cursor]]
  /\ lost \in BOOLEAN
  /\ starts \in Nat

Init ==
  /\ today = FirstDay
  /\ listed = Run \ Late
  /\ cursor = Stopped("pending")
  /\ pending = {} /\ processing = {}
  /\ task = [w \in Worker |-> Idle]
  /\ starter = [o \in Operator |-> Away]
  /\ recorded = {} /\ owed = {} /\ lost = FALSE /\ starts = 0
-------------------------------------------------------------------------------
(***************************************************************************)
(* Windows of days.                                                        *)
(***************************************************************************)
Larger(a, b)  == IF a > b THEN a ELSE b
Smaller(a, b) == IF a < b THEN a ELSE b

FirstWindow(day, days) ==
  [start |-> Larger(day - days + 1, day - WindowDays + 1), end |-> day]

(* Halving keeps the newest half: the end stays, the start moves forward.   *)
Halved(w) == [start |-> w.end - (w.end - w.start) \div 2, end |-> w.end]

Floor == today - Days + 1

(* Mutant: the end of the window stays where it was.                        *)
NextWindow_SameEnd(w, floor) ==
  [start |-> Larger(floor, w.start - WindowDays), end |-> w.end]

(* Mutant: the next window begins with the day this one ended on.           *)
NextWindow_SkipsDay(w, floor) ==
  [start |-> Larger(floor, w.start - 1 - WindowDays), end |-> w.start - 2]

NextWindow(w, floor) ==
  [start |-> Larger(floor, w.start - WindowDays), end |-> w.start - 1]

(* External: what GitHub returns for a window.                              *)
Listing(w) == {r \in listed : w.start <= Day[r] /\ Day[r] <= w.end}

Position(r, w) == Cardinality({q \in Listing(w) : q >= r})

PageOf(w, page) ==
  {r \in Listing(w) : /\ (page - 1) * PageSize < Position(r, w)
                      /\ Position(r, w) <= Smaller(page * PageSize, ResultCap)}
-------------------------------------------------------------------------------
InFlight == pending \cup processing

InHand == {task[w].row : w \in Worker}

Unused == Row \ (InFlight \cup InHand)

(* The row an INSERT creates; which of the unused ids it gets is immaterial. *)
FreshRow == CHOOSE i \in Unused : TRUE

(* The ORM writes only the columns whose value differs from the loaded one. *)
Flush(loaded, new) ==
  [c \in DOMAIN cursor |-> IF new[c] # loaded[c] THEN new[c] ELSE cursor[c]]

(* start_backfill: load the cursor ...                                       *)
StartLoad(o) ==
  /\ starter[o].at = "away"
  /\ starts < StartLimit
  /\ \/ "race" \in Fault
     \/ InFlight = {} /\ \A p \in Operator : starter[p].at = "away"
  /\ starter' = [starter EXCEPT ![o].at = "looking", ![o].loaded = cursor]
  /\ UNCHANGED <<github, cursor, queue, task, ghosts>>

(* ... look for a wake-up in flight, and choose the newest window ...        *)
StartCheck(o) ==
  /\ starter[o].at = "looking"
  /\ IF InFlight # {}
     THEN starter' = [starter EXCEPT ![o] = Away]
     ELSE \E days \in DaysArg :
            LET w == FirstWindow(today, days)
            IN starter' = [starter EXCEPT ![o].at = "writing",
                                          ![o].new = Running(w.start, w.end, 1)]
  /\ UNCHANGED <<github, cursor, queue, task, ghosts>>

(* ... and commit it with a first wake-up; nothing is locked on the way.    *)
StartCommit(o) ==
  /\ starter[o].at = "writing"
  /\ Unused # {}
  /\ cursor' = Flush(starter[o].loaded, starter[o].new)
  /\ pending' = pending \cup {FreshRow}
  /\ starter' = [starter EXCEPT ![o] = Away]
  /\ IF cursor.status = "running" THEN UNCHANGED <<recorded, owed>>
     ELSE /\ recorded' = {}
          /\ owed' = {r \in listed : Day[r] <= starter[o].new.end}
  /\ lost' = FALSE
  /\ starts' = starts + 1
  /\ UNCHANGED <<github, processing, task>>

(* A worker takes a row and its handler loads the repository row.  Starts   *)
(* that race leave columns of several of them behind, so a walk that is     *)
(* said to be running need not have a window.                               *)
Wake(w) ==
  /\ task[w].row = Null
  /\ \E i \in pending :
       /\ pending' = pending \ {i}
       /\ IF cursor.status = "running" /\ cursor.end # Null
          THEN /\ processing' = processing \cup {i}
               /\ task' = [task EXCEPT ![w] =
                             [row |-> i, loaded |-> cursor, floor |-> Floor]]
          ELSE UNCHANGED <<processing, task>>   \* nothing to do: marked done
  /\ UNCHANGED <<github, cursor, starter, ghosts>>

(* Mutant: a wake-up is enqueued even when the walk has ended.               *)
Commit_AlwaysEnqueues(w, new) ==
  /\ Unused # {}
  /\ cursor' = Flush(task[w].loaded, new)
  /\ processing' = processing \ {task[w].row}
  /\ pending' = (pending \ {task[w].row}) \cup {FreshRow}
  /\ task' = [task EXCEPT ![w] = Idle]
  /\ UNCHANGED <<github, starter, owed, lost, starts>>

(* The transaction of w commits: mark_done for its row, whoever holds it now, *)
(* the changed cursor columns and, while the walk goes on, the next row.    *)
Commit(w, new) ==
  /\ Unused # {}
  /\ cursor' = Flush(task[w].loaded, new)
  /\ processing' = processing \ {task[w].row}
  /\ pending' = (pending \ {task[w].row})
                   \cup (IF new.status = "running" THEN {FreshRow} ELSE {})
  /\ task' = [task EXCEPT ![w] = Idle]
  /\ UNCHANGED <<github, starter, owed, lost, starts>>

WindowOf(w) == [start |-> task[w].loaded.start, end |-> task[w].loaded.end]

Page(w) == IF task[w].loaded.page = Null THEN 1 ELSE task[w].loaded.page

(* A window without a start cannot be asked for: the handler raises.        *)
Asks(w) == task[w].row # Null /\ task[w].loaded.start # Null

OverCap(w) == /\ Page(w) = 1
              /\ Cardinality(Listing(WindowOf(w))) > ResultCap
              /\ WindowOf(w).end > WindowOf(w).start

(* Mutant: the narrowed window is saved and nobody is woken for it.          *)
Narrow_NoWakeUp(w) ==
  LET half == Halved(WindowOf(w))
  IN /\ Asks(w)
     /\ OverCap(w)
     /\ cursor' = Flush(task[w].loaded, Running(half.start, half.end, 1))
     /\ processing' = processing \ {task[w].row}
     /\ pending' = pending \ {task[w].row}
     /\ task' = [task EXCEPT ![w] = Idle]
     /\ UNCHANGED <<github, starter, ghosts>>

(* More results than the listing will give: walk the newest half first.     *)
Narrow(w) ==
  LET half == Halved(WindowOf(w))
  IN /\ Asks(w)
     /\ OverCap(w)
     /\ Commit(w, Running(half.start, half.end, 1))
     /\ UNCHANGED recorded

MorePages(w) ==
  /\ Page(w) * PageSize < Smaller(Cardinality(Listing(WindowOf(w))), ResultCap)
  /\ PageOf(WindowOf(w), Page(w)) # {}

(* Mutant: no check against the floor.                                      *)
AfterPage_NoFloor(w) ==
  LET l == task[w].loaded
      n == NextWindow(WindowOf(w), task[w].floor)
  IN IF MorePages(w) THEN Running(l.start, l.end, Page(w) + 1)
     ELSE Running(n.start, n.end, 1)

(* Where the cursor goes once a page is stored.                             *)
AfterPage(w) ==
  LET l == task[w].loaded
      n == NextWindow(WindowOf(w), task[w].floor)
  IN IF MorePages(w) THEN Running(l.start, l.end, Page(w) + 1)
     ELSE IF n.end < task[w].floor THEN Stopped("done")
     ELSE Running(n.start, n.end, 1)

StorePage(w) ==
  /\ Asks(w)
  /\ ~OverCap(w)
  /\ Commit(w, AfterPage(w))
  /\ recorded' = recorded \cup PageOf(WindowOf(w), Page(w))

(* 404: the repository is gone or no longer readable.                       *)
Unreadable(w) ==
  /\ Asks(w)
  /\ Commit(w, Stopped("failed"))
  /\ UNCHANGED recorded

(* The handler raises, the request fails or is deferred, or the worker dies  *)
(* and the claim is reaped: nothing was written and the row waits again.    *)
Retry(w) ==
  /\ task[w].row # Null
  /\ pending' = pending \cup {task[w].row}
  /\ processing' = processing \ {task[w].row}
  /\ task' = [task EXCEPT ![w] = Idle]
  /\ UNCHANGED <<github, cursor, starter, ghosts>>

(* The same on the last attempt: the row is dead-lettered.                  *)
DeadLetter(w) ==
  /\ "dead" \in Fault
  /\ task[w].row # Null
  /\ pending' = pending \ {task[w].row}
  /\ processing' = processing \ {task[w].row}
  /\ task' = [task EXCEPT ![w] = Idle]
  /\ lost' = TRUE
  /\ UNCHANGED <<github, cursor, starter, recorded, owed, starts>>

(* The reaper returns a row although its worker is still at it.             *)
ReapEarly(w) ==
  /\ "overlap" \in Fault
  /\ task[w].row \in processing
  /\ processing' = processing \ {task[w].row}
  /\ pending' = pending \cup {task[w].row}
  /\ UNCHANGED <<github, cursor, task, starter, ghosts>>

(* External: a run is created; a day passes.                                *)
NewRun(r) ==
  /\ r \in Run \ listed
  /\ Day[r] = today
  /\ \A q \in listed : q < r
  /\ listed' = listed \cup {r}
  /\ UNCHANGED <<today, cursor, queue, task, starter, ghosts>>

Midnight ==
  /\ today < LastDay
  /\ today' = today + 1
  /\ UNCHANGED <<listed, cursor, queue, task, starter, ghosts>>

(* Nothing in flight: the workers poll.                                     *)
Rest == InFlight = {} /\ UNCHANGED vars

Handle(w) == Narrow(w) \/ StorePage(w) \/ Unreadable(w)

Next ==
  \/ \E o \in Operator : StartLoad(o) \/ StartCheck(o) \/ StartCommit(o)
  \/ \E w \in Worker : Wake(w) \/ Handle(w) \/ Retry(w) \/ DeadLetter(w)
                       \/ ReapEarly(w)
  \/ \E r \in Run : NewRun(r)
  \/ Midnight \/ Rest

(* The queue hands a waiting row to a worker again and again, and some       *)
(* attempt gets an answer before the ceiling is reached.                    *)
Fairness ==
  /\ \A o \in Operator : WF_vars(StartCheck(o) \/ StartCommit(o))
  /\ \A w \in Worker : WF_vars(Wake(w)) /\ SF_vars(Handle(w))

Safety == Init /\ [][Next]_vars

Spec == Safety /\ Fairness
-------------------------------------------------------------------------------
(* While the walk is running exactly one wake-up is in flight, and none     *)
(* when it is not: it neither stalls nor splits into two walks.             *)
OneWakeUp ==
  /\ Cardinality(InFlight) <= 1
  /\ cursor.status = "running" <=> InFlight # {}

(* Whatever starts race or claims overlap, a walk that is running and has a *)
(* window keeps a wake-up in flight, unless one was dead-lettered.           *)
NeverStalls ==
  cursor.status = "running" /\ InFlight = {} => lost \/ cursor.end = Null

(* backfill.py:179, a second wake-up for one cursor is harmless: it does    *)
(* not leave the walk standing (false of the code, Backfill_stall.cfg).      *)
StandsOnlyIfLost == cursor.status = "running" /\ InFlight = {} => lost

(* A walk that is done has stored each run that GitHub had when it started, *)
(* down to the floor, whatever was created meanwhile, however often a page  *)
(* was retried and wherever the windows were halved (backfill.py:18, no     *)
(* gaps).  Of a day over the cap it has the runs GitHub will list.          *)
Fetchable(r) == Cardinality({q \in Run : Day[q] = Day[r] /\ q >= r}) <= ResultCap

NoGap ==
  cursor.status = "done" =>
    \A r \in owed : Day[r] >= Floor /\ Fetchable(r) => r \in recorded

(* A walk under way never turns back to newer days (backfill.py:9, an       *)
(* interrupted backfill resumes wherever it was).                           *)
Ahead(a, b) == \/ b.end < a.end
               \/ b.end = a.end /\ b.start > a.start
               \/ b.end = a.end /\ b.start = a.start /\ b.page >= a.page

NeverTurnsBack ==
  [][cursor.status = "running" /\ cursor'.status = "running"
       => Ahead(cursor, cursor')]_vars

(* A walk that was started comes to an end.                                 *)
Finishes == cursor.status = "running" ~> cursor.status \in {"done", "failed"}
===============================================================================
