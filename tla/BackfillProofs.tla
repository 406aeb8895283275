----------------------------- MODULE BackfillProofs -----------------------------
(***************************************************************************)
(* Proofs about the wake-ups of a walk and about what it has read, for any *)
(* history, windows, pages, cap, workers and operators.                    *)
(***************************************************************************)
EXTENDS Backfill, FiniteSetTheorems, WellFoundedInduction, TLAPS

(* A handler that has not committed read a walk under way.                  *)
HandlersAreWoken ==
  /\ DOMAIN task = Worker
  /\ \A w \in Worker : task[w].row # Null => task[w].loaded.status = "running"

HasStatus == "status" \in DOMAIN cursor

(* Inductive under every fault.                                             *)
Awake == HasStatus /\ HandlersAreWoken /\ NeverStalls
-------------------------------------------------------------------------------
LEMMA FreshRowUnused == Unused # {} => FreshRow \in Unused
  BY DEF FreshRow

(* A column is written if its value is not the one that was loaded.         *)
LEMMA FlushStatus ==
  ASSUME HasStatus, NEW l, NEW n
  PROVE  /\ DOMAIN Flush(l, n) = DOMAIN cursor
         /\ Flush(l, n).status = IF n.status # l.status THEN n.status
                                                        ELSE cursor.status
  BY DEF HasStatus, Flush

LEMMA AfterPageStatus ==
  ASSUME NEW w \in Worker PROVE AfterPage(w).status \in {"running", "done"}
<1> DEFINE n == NextWindow(WindowOf(w), task[w].floor)
<1>1. CASE MorePages(w)
  BY <1>1 DEF AfterPage, Running
<1>2. CASE ~MorePages(w) /\ n.end < task[w].floor
  BY <1>2 DEF AfterPage, Stopped
<1>3. CASE ~MorePages(w) /\ ~(n.end < task[w].floor)
  BY <1>3 DEF AfterPage, Running
<1> QED
  BY <1>1, <1>2, <1>3

(* Every handler ends in one commit, with a walk that goes on or has ended.  *)
LEMMA HandleCommits ==
  ASSUME NEW w \in Worker, Handle(w)
  PROVE  /\ task[w].row # Null
         /\ \E new : /\ new.status \in {"running", "done", "failed"}
                     /\ Commit(w, new)
<1>1. CASE Narrow(w)
  BY <1>1 DEF Narrow, Asks, Running
<1>2. CASE StorePage(w)
  BY <1>2, AfterPageStatus DEF StorePage, Asks
<1>3. CASE Unreadable(w)
  BY <1>3 DEF Unreadable, Asks, Stopped
<1> QED
  BY <1>1, <1>2, <1>3 DEF Handle
-------------------------------------------------------------------------------
LEMMA InitAwake == Init => Awake
  BY DEF Init, Awake, HasStatus, HandlersAreWoken, NeverStalls, Idle, Stopped

(* A step that lets go of the task of w, or of none.                        *)
LEMMA TaskDropped ==
  ASSUME HandlersAreWoken, NEW w \in Worker, task' = [task EXCEPT ![w] = Idle]
  PROVE  HandlersAreWoken'
  BY DEF HandlersAreWoken, Idle

LEMMA CommitAwake ==
  ASSUME Awake, NEW w \in Worker, task[w].row # Null,
         NEW new, new.status \in {"running", "done", "failed"}, Commit(w, new)
  PROVE  Awake'
<1> USE DEF Awake
<1>1. HandlersAreWoken'
  BY TaskDropped DEF Commit
<1>2. HasStatus'
  BY FlushStatus DEF Commit, HasStatus
<1>3. NeverStalls'
  <2>1. CASE new.status = "running"
    <3>1. pending' # {}
      BY <2>1 DEF Commit
    <3> QED
      BY <3>1 DEF NeverStalls, InFlight
  <2>2. CASE new.status # "running"
    <3>1. task[w].loaded.status = "running"
      BY DEF HandlersAreWoken
    <3>2. cursor'.status # "running"
      BY <2>2, <3>1, FlushStatus DEF Commit
    <3> QED
      BY <3>2 DEF NeverStalls
  <2> QED
    BY <2>1, <2>2
<1> QED
  BY <1>1, <1>2, <1>3

LEMMA WakeAwake == ASSUME Awake, NEW w \in Worker, Wake(w) PROVE Awake'
<1> USE DEF Awake
<1>1. PICK i \in pending :
        /\ pending' = pending \ {i}
        /\ IF cursor.status = "running" /\ cursor.end # Null
           THEN /\ processing' = processing \cup {i}
                /\ task' = [task EXCEPT ![w] =
                              [row |-> i, loaded |-> cursor, floor |-> Floor]]
           ELSE UNCHANGED <<processing, task>>
  BY DEF Wake
<1>2. UNCHANGED <<cursor, lost>>
  BY DEF Wake, ghosts
<1>3. HandlersAreWoken'
  BY <1>1 DEF HandlersAreWoken
<1>4. NeverStalls'
  BY <1>1, <1>2 DEF NeverStalls, InFlight
<1> QED
  BY <1>2, <1>3, <1>4 DEF HasStatus

LEMMA StartCommitAwake ==
  ASSUME Awake, NEW o \in Operator, StartCommit(o) PROVE Awake'
<1>1. pending' # {}
  BY DEF StartCommit
<1>2. HasStatus'
  BY FlushStatus DEF Awake, StartCommit, HasStatus
<1> QED
  BY <1>1, <1>2 DEF Awake, StartCommit, NeverStalls, InFlight, HandlersAreWoken

(* The row goes back to the queue, or its loss is noted.                    *)
LEMMA GiveUpAwake ==
  ASSUME Awake, NEW w \in Worker, Retry(w) \/ DeadLetter(w) \/ ReapEarly(w)
  PROVE  Awake'
<1> USE DEF Awake, Retry, DeadLetter, ReapEarly
<1>1. HandlersAreWoken'
  BY TaskDropped DEF HandlersAreWoken
<1>2. NeverStalls'
  BY DEF NeverStalls, InFlight
<1> QED
  BY <1>1, <1>2 DEF HasStatus

(* The steps that touch neither the walk nor its wake-ups.                  *)
Aside == \/ \E o \in Operator : StartLoad(o) \/ StartCheck(o)
         \/ \E r \in Run : NewRun(r)
         \/ Midnight \/ Rest \/ UNCHANGED vars

LEMMA AsideSteps ==
  ASSUME Aside PROVE UNCHANGED <<cursor, pending, processing, task, lost>>
  BY DEF Aside, StartLoad, StartCheck, NewRun, Midnight, Rest, vars, queue, ghosts

LEMMA NextAwake == Awake /\ [Next]_vars => Awake'
<1> SUFFICES ASSUME Awake, [Next]_vars PROVE Awake'
  OBVIOUS
<1>1. ASSUME NEW w \in Worker, Handle(w) PROVE Awake'
  BY <1>1, HandleCommits, CommitAwake
<1>2. CASE Aside
  BY <1>2, AsideSteps DEF Awake, HasStatus, HandlersAreWoken, NeverStalls, InFlight
<1> QED
  BY <1>1, <1>2, WakeAwake, StartCommitAwake, GiveUpAwake DEF Next, Aside

(* Whatever starts race, claims overlap or runs appear: a running walk      *)
(* without a wake-up in flight has had a row dead-lettered, or has no       *)
(* window, which is what racing starts can leave behind.                    *)
THEOREM WalkNeverStalls == Safety => []NeverStalls
  BY InitAwake, NextAwake, PTL DEF Safety, Awake
-------------------------------------------------------------------------------
(***************************************************************************)
(* One walk at a time: Fault = {}.                                         *)
(***************************************************************************)
OneRow == \A i, j \in InFlight : i = j

RunningIsAwake == cursor.status = "running" <=> InFlight # {}

(* A row in a handler's hands is claimed, and by nobody else.               *)
Held ==
  \A w \in Worker : task[w].row # Null =>
    /\ task[w].row \in processing
    /\ task[w].row \notin pending
    /\ \A v \in Worker \ {w} : task[v].row # task[w].row

(* An operator at work is alone, before a walk that is not running.         *)
Starting ==
  /\ DOMAIN starter = Operator
  /\ \A o \in Operator : {"at", "loaded", "new"} \subseteq DOMAIN starter[o]
  /\ \A o \in Operator : starter[o].at # "away" =>
       /\ InFlight = {}
       /\ starter[o].loaded.status # "running"
       /\ starter[o].at = "writing" => starter[o].new.status = "running"
       /\ \A p \in Operator \ {o} : starter[p].at = "away"

Single == Awake /\ OneRow /\ RunningIsAwake /\ Held /\ Starting

(* With one walk at a time nobody holds a cursor that is not the present    *)
(* one, and a walk under way has a window of days from 1 on.                *)
Dates ==
  /\ today \in Int /\ today >= FirstDay
  /\ cursor \in Cursor
  /\ cursor.status = "running" => cursor.end # Null
  /\ \A w \in Worker : task[w].row # Null =>
       task[w].loaded = cursor /\ task[w].floor \in Nat \ {0}
  /\ \A o \in Operator : starter[o].at # "away" =>
       /\ starter[o].loaded = cursor
       /\ starter[o].at = "writing" =>
            starter[o].new \in Cursor /\ starter[o].new.end # Null

LEMMA InitSingle == Init => Single
<1> SUFFICES ASSUME Init PROVE Single
  OBVIOUS
<1>1. OneRow /\ RunningIsAwake
  BY DEF Init, OneRow, RunningIsAwake, InFlight, Stopped
<1>2. Held /\ Starting
  BY DEF Init, Held, Starting, Idle, Away
<1> QED
  BY <1>1, <1>2, InitAwake DEF Single

LEMMA CommitSingle ==
  ASSUME Single, Awake', NEW w \in Worker, task[w].row # Null,
         NEW new, new.status \in {"running", "done", "failed"}, Commit(w, new)
  PROVE  Single'
<1> USE DEF Single
<1>1. InFlight = {task[w].row}
  BY DEF Held, OneRow, InFlight
<1>2. InFlight' = IF new.status = "running" THEN {FreshRow} ELSE {}
  BY <1>1 DEF Commit, InFlight
<1>3. OneRow'
  BY <1>2 DEF OneRow
<1>4. RunningIsAwake'
  <2>1. task[w].loaded.status = "running" /\ cursor.status = "running"
    BY <1>1 DEF Awake, HandlersAreWoken, RunningIsAwake
  <2>2. cursor'.status = new.status
    BY <2>1, FlushStatus DEF Commit, Awake
  <2> QED
    BY <1>2, <2>2 DEF RunningIsAwake
<1>5. \A v \in Worker : task'[v].row = Null
  BY <1>1 DEF Commit, Held, InFlight, Awake, HandlersAreWoken, Idle
<1>6. Held'
  BY <1>5 DEF Held
<1>7. Starting'
  <2>1. \A o \in Operator : starter[o].at = "away"
    BY <1>1 DEF Starting
  <2> QED
    BY <2>1 DEF Commit, Starting
<1> QED
  BY <1>3, <1>4, <1>6, <1>7

LEMMA WakeSingle ==
  ASSUME Single, Dates, Awake', NEW w \in Worker, Wake(w) PROVE Single'
<1> USE DEF Single
<1>1. PICK i \in pending :
        /\ pending' = pending \ {i}
        /\ IF cursor.status = "running" /\ cursor.end # Null
           THEN /\ processing' = processing \cup {i}
                /\ task' = [task EXCEPT ![w] =
                              [row |-> i, loaded |-> cursor, floor |-> Floor]]
           ELSE UNCHANGED <<processing, task>>
  BY DEF Wake
<1>2. cursor.status = "running" /\ cursor.end # Null /\ InFlight = {i}
  BY <1>1 DEF RunningIsAwake, OneRow, InFlight, Dates
<1>3. pending' = {} /\ processing' = {i}
  BY <1>1, <1>2 DEF InFlight
<1>4. UNCHANGED <<cursor, starter>>
  BY DEF Wake
<1>5. OneRow' /\ RunningIsAwake' /\ Starting'
  BY <1>2, <1>3, <1>4 DEF OneRow, RunningIsAwake, Starting, InFlight
<1>6. \A v \in Worker : task[v].row # Null => FALSE
  BY <1>1, <1>2 DEF Held, InFlight
<1>7. Held'
  BY <1>1, <1>2, <1>3, <1>6 DEF Held, Awake, HandlersAreWoken
<1> QED
  BY <1>5, <1>7

LEMMA RetrySingle ==
  ASSUME Single, Awake', NEW w \in Worker, Retry(w) PROVE Single'
<1> USE DEF Single
<1>1. InFlight' = InFlight
  BY DEF Retry, Held, InFlight
<1>2. UNCHANGED <<cursor, starter>>
  BY DEF Retry
<1>3. OneRow' /\ RunningIsAwake' /\ Starting'
  BY <1>1, <1>2 DEF OneRow, RunningIsAwake, Starting
<1>4. Held'
  BY DEF Retry, Held, Awake, HandlersAreWoken, Idle
<1> QED
  BY <1>3, <1>4

LEMMA StartSingle ==
  ASSUME Fault = {}, Single, Awake', NEW o \in Operator,
         StartLoad(o) \/ StartCheck(o) \/ StartCommit(o)
  PROVE  Single'
<1> USE DEF Single
<1>1. CASE StartLoad(o)
  <2>1. /\ InFlight = {} /\ \A p \in Operator : starter[p].at = "away"
        /\ UNCHANGED <<cursor, pending, processing, task>>
    BY <1>1 DEF StartLoad, queue
  <2>2. Starting'
    BY <1>1, <2>1 DEF StartLoad, Starting, RunningIsAwake, InFlight
  <2> QED
    BY <2>1, <2>2 DEF OneRow, RunningIsAwake, Held, InFlight
<1>2. CASE StartCheck(o)
  <2>1. /\ starter[o].at = "looking"
        /\ UNCHANGED <<cursor, pending, processing, task>>
    BY <1>2 DEF StartCheck, queue
  <2>2. PICK days \in DaysArg :
          LET w == FirstWindow(today, days)
          IN starter' = [starter EXCEPT ![o].at = "writing",
                                        ![o].new = Running(w.start, w.end, 1)]
    BY <1>2, <2>1 DEF StartCheck, Starting
  <2>3. Starting'
    BY <2>1, <2>2 DEF Starting, Running, InFlight
  <2> QED
    BY <2>1, <2>3 DEF OneRow, RunningIsAwake, Held, InFlight
<1>3. CASE StartCommit(o)
  <2>1. /\ starter[o].at = "writing"
        /\ pending' = pending \cup {FreshRow}
        /\ starter' = [starter EXCEPT ![o] = Away]
        /\ cursor' = Flush(starter[o].loaded, starter[o].new)
        /\ UNCHANGED <<processing, task>>
    BY <1>3 DEF StartCommit
  <2>2. InFlight = {} /\ InFlight' = {FreshRow}
    BY <2>1 DEF Starting, InFlight
  <2>3. cursor'.status = "running"
    BY <2>1, FlushStatus DEF Starting, Awake
  <2>4. OneRow' /\ RunningIsAwake'
    BY <2>2, <2>3 DEF OneRow, RunningIsAwake
  <2>5. Held'
    BY <2>1, <2>2 DEF Held, InFlight
  <2>6. Starting'
    BY <2>1 DEF Starting, Away
  <2> QED
    BY <2>4, <2>5, <2>6
<1> QED
  BY <1>1, <1>2, <1>3

LEMMA NextSingle == ASSUME Fault = {}, Single, Dates, [Next]_vars PROVE Single'
<1>1. Awake'
  BY NextAwake DEF Single
<1>2. ASSUME NEW w \in Worker, Handle(w) PROVE Single'
  BY <1>1, <1>2, HandleCommits, CommitSingle
<1>3. ASSUME NEW w \in Worker PROVE ~DeadLetter(w) /\ ~ReapEarly(w)
  BY DEF DeadLetter, ReapEarly
<1>4. CASE (\E r \in Run : NewRun(r)) \/ Midnight \/ Rest \/ UNCHANGED vars
  <2>1. UNCHANGED <<cursor, pending, processing, task, starter>>
    BY <1>4 DEF NewRun, Midnight, Rest, vars, queue
  <2> QED
    BY <1>1, <2>1
    DEF Single, OneRow, RunningIsAwake, Held, Starting, InFlight
<1> QED
  BY <1>1, <1>2, <1>3, <1>4, WakeSingle, RetrySingle, StartSingle DEF Next

-------------------------------------------------------------------------------
LEMMA ConstantsAreTyped ==
  /\ IsFiniteSet(Run) /\ \A r \in Run : r \in Nat /\ Day[r] \in Int
  /\ \A r \in Run \ Late : Day[r] <= FirstDay
  /\ \A r \in Late : Day[r] >= FirstDay
  /\ FirstDay \in Int /\ LastDay \in Int
  /\ Days \in Nat \ {0} /\ WindowDays \in Nat \ {0}
  /\ \A n \in DaysArg : n \in Nat \ {0} /\ n <= FirstDay
  /\ Days <= FirstDay
  /\ PageSize \in Nat \ {0} /\ ResultCap \in Nat \ {0}
  /\ Null \notin Row
  BY ConstantsAssumption DEF ConstantsAssumption, Null

LEMMA CursorIsTyped ==
  ASSUME NEW c \in Cursor
  PROVE  c.start \in Int /\ c.end \in Int /\ c.page \in Int
  BY DEF Cursor

LEMMA StoppedIsTyped ==
  ASSUME NEW t \in {"pending", "running", "done", "failed"}
  PROVE  Stopped(t) \in Cursor /\ Stopped(t).status = t
  BY DEF Stopped, Cursor, Null

LEMMA RunningIsTyped ==
  ASSUME NEW a \in Int, NEW b \in Int, NEW n \in Int
  PROVE  /\ Running(a, b, n) \in Cursor /\ Running(a, b, n).status = "running"
         /\ Running(a, b, n).start = a /\ Running(a, b, n).end = b
         /\ Running(a, b, n).page = n
  BY DEF Running, Cursor

LEMMA IdleIsTyped ==
  /\ Idle \in [row : Row \cup {Null}, loaded : Cursor, floor : Int] /\ Idle.row = Null
  /\ Away \in [at : {"away", "looking", "writing"}, loaded : Cursor, new : Cursor]
  /\ Away.at = "away"
  BY StoppedIsTyped DEF Idle, Away, Null

(* Nothing is written over: the cursor is still the one that was loaded.    *)
LEMMA FlushIs ==
  ASSUME NEW c \in Cursor, NEW n \in Cursor, cursor = c PROVE Flush(c, n) = n
  BY DEF Flush, Cursor

LEMMA FloorIsInt == ASSUME today \in Int PROVE Floor \in Int
  BY ConstantsAreTyped DEF Floor

LEMMA FloorIsDay ==
  ASSUME today \in Int, today >= FirstDay PROVE Floor \in Nat \ {0}
  BY ConstantsAreTyped DEF Floor

(* What a handler writes: a walk that goes on has a window again.           *)
LEMMA HandleWrites ==
  ASSUME NEW w \in Worker, Handle(w), task[w].loaded \in Cursor,
         task[w].loaded.end # Null, task[w].floor \in Nat \ {0}
  PROVE  \E new \in Cursor : /\ Commit(w, new)
                             /\ new.status = "running" => new.end # Null
<1> DEFINE l == task[w].loaded
<1>1. /\ l.start \in Int /\ l.end \in Int /\ l.page \in Int /\ Page(w) \in Int
      /\ WindowOf(w).start = l.start /\ WindowOf(w).end = l.end
  BY CursorIsTyped DEF Page, WindowOf
<1>2. CASE Narrow(w)
  <2> DEFINE half == Halved(WindowOf(w))
  <2>1. half.end = l.end /\ half.start \in Int
    BY <1>1 DEF Halved
  <2>2. half.end \in Int /\ half.end # Null
    BY <1>1, <2>1
  <2>3. Commit(w, Running(half.start, half.end, 1))
    BY <1>2 DEF Narrow
  <2> HIDE DEF half
  <2> QED
    BY <2>1, <2>2, <2>3, RunningIsTyped
<1>3. CASE StorePage(w)
  <2> DEFINE n == NextWindow(WindowOf(w), task[w].floor)
  <2>1. Commit(w, AfterPage(w))
    BY <1>3 DEF StorePage
  <2>2. CASE MorePages(w)
    <3>1. AfterPage(w) = Running(l.start, l.end, Page(w) + 1)
      BY <2>2 DEF AfterPage
    <3> DEFINE p == Page(w) + 1
    <3>2. l.start \in Int /\ l.end \in Int /\ l.end # Null /\ p \in Int
      BY <1>1
    <3>3. Commit(w, Running(l.start, l.end, p))
      BY <2>1, <3>1
    <3> HIDE DEF l, p
    <3> QED
      BY <3>2, <3>3, RunningIsTyped
  <2>3. CASE ~MorePages(w) /\ n.end < task[w].floor
    <3>1. AfterPage(w) = Stopped("done")
      BY <2>3 DEF AfterPage
    <3> QED
      BY <2>1, <3>1, StoppedIsTyped
  <2>4. CASE ~MorePages(w) /\ ~(n.end < task[w].floor)
    <3>1. AfterPage(w) = Running(n.start, n.end, 1)
      BY <2>4 DEF AfterPage
    <3>2. n.end = l.start - 1 /\ n.start = Larger(task[w].floor, l.start - WindowDays)
      BY <1>1 DEF NextWindow
    <3>3. n.end \in Int /\ n.start \in Int /\ n.end # Null
      BY <1>1, <2>4, <3>2, ConstantsAreTyped DEF Larger, Null
    <3> HIDE DEF n
    <3> QED
      BY <2>1, <3>1, <3>3, RunningIsTyped
  <2> QED
    BY <2>2, <2>3, <2>4
<1>4. CASE Unreadable(w)
  BY <1>4, StoppedIsTyped DEF Unreadable
<1> QED
  BY <1>2, <1>3, <1>4 DEF Handle

LEMMA HandleDates ==
  ASSUME Single, Dates, NEW w \in Worker, Handle(w) PROVE Dates'
<1>1. task[w].row # Null
  BY HandleCommits
<1>2. task[w].loaded = cursor /\ cursor \in Cursor /\ task[w].floor \in Nat \ {0}
      /\ cursor.status = "running" /\ cursor.end # Null
  BY <1>1 DEF Dates, Single, Awake, HandlersAreWoken
<1>3. PICK new \in Cursor : /\ Commit(w, new)
                            /\ new.status = "running" => new.end # Null
  <2>1. task[w].loaded \in Cursor /\ task[w].loaded.end # Null
    BY <1>2
  <2>2. task[w].floor \in Nat \ {0}
    BY <1>2
  <2> QED
    BY <2>1, <2>2, HandleWrites
<1>4. cursor' = new
  <2>1. PICK c : c = cursor
    OBVIOUS
  <2>2. cursor' = Flush(c, new)
    BY <1>2, <1>3, <2>1 DEF Commit
  <2>3. Flush(c, new) = new
    BY <1>2, <2>1, FlushIs
  <2> QED
    BY <2>2, <2>3
<1>5. \A v \in Worker : task'[v].row = Null
  <2>1. InFlight = {task[w].row}
    BY <1>1 DEF Single, Held, OneRow, InFlight
  <2> QED
    BY <1>3, <2>1, IdleIsTyped DEF Commit, Single, Awake, HandlersAreWoken, Held, InFlight
<1>6. \A o \in Operator : starter'[o].at = "away"
  BY <1>1, <1>3 DEF Commit, Single, Held, Starting, InFlight
<1>7. today' = today
  BY <1>3 DEF Commit, github
<1> QED
  BY <1>3, <1>4, <1>5, <1>6, <1>7 DEF Dates

LEMMA WakeDates == ASSUME Single, Dates, NEW w \in Worker, Wake(w) PROVE Dates'
<1>1. PICK i \in pending :
        /\ pending' = pending \ {i}
        /\ IF cursor.status = "running" /\ cursor.end # Null
           THEN /\ processing' = processing \cup {i}
                /\ task' = [task EXCEPT ![w] =
                              [row |-> i, loaded |-> cursor, floor |-> Floor]]
           ELSE UNCHANGED <<processing, task>>
  BY DEF Wake
<1>2. UNCHANGED <<today, cursor, starter>>
  BY DEF Wake, github
<1>3. Floor \in Nat \ {0}
  BY FloorIsDay DEF Dates
<1>4. \A v \in Worker : task'[v].row # Null =>
        task'[v].loaded = cursor /\ task'[v].floor \in Nat \ {0}
  BY <1>1, <1>3 DEF Dates, Single, Awake, HandlersAreWoken
<1> QED
  BY <1>2, <1>4 DEF Dates

LEMMA RetryDates == ASSUME Single, Dates, NEW w \in Worker, Retry(w) PROVE Dates'
<1>1. /\ task' = [task EXCEPT ![w] = Idle]
      /\ UNCHANGED <<today, cursor, starter>>
  BY DEF Retry, github
<1>2. \A v \in Worker : task'[v].row # Null => task'[v] = task[v]
  BY <1>1, IdleIsTyped DEF Single, Awake, HandlersAreWoken
<1> QED
  BY <1>1, <1>2 DEF Dates

LEMMA StartDates ==
  ASSUME Fault = {}, Single, Dates, NEW o \in Operator,
         StartLoad(o) \/ StartCheck(o) \/ StartCommit(o)
  PROVE  Dates'
<1>1. DOMAIN starter = Operator
      /\ \A p \in Operator : {"at", "loaded", "new"} \subseteq DOMAIN starter[p]
  BY DEF Single, Starting
<1>2. CASE StartLoad(o)
  <2>1. /\ starter' = [starter EXCEPT ![o].at = "looking", ![o].loaded = cursor]
        /\ UNCHANGED <<today, cursor, task>>
    BY <1>2 DEF StartLoad, github
  <2>2. \A p \in Operator : starter'[p].at # "away" =>
          IF p = o THEN starter'[p].loaded = cursor /\ starter'[p].at = "looking"
                   ELSE starter'[p] = starter[p]
    BY <1>1, <2>1
  <2> QED
    BY <2>1, <2>2 DEF Dates
<1>3. CASE StartCheck(o)
  <2>1. /\ starter[o].at = "looking" /\ UNCHANGED <<today, cursor, task>>
    BY <1>3 DEF StartCheck, github
  <2>2. InFlight = {}
    BY <2>1 DEF Single, Starting
  <2>3. PICK days \in DaysArg :
          LET w == FirstWindow(today, days)
          IN starter' = [starter EXCEPT ![o].at = "writing",
                                        ![o].new = Running(w.start, w.end, 1)]
    BY <1>3, <2>2 DEF StartCheck
  <2> DEFINE w == FirstWindow(today, days)
             new == Running(w.start, w.end, 1)
  <2>4. w.end = today /\ w.start \in Int /\ today \in Int /\ today # Null
    BY ConstantsAreTyped DEF FirstWindow, Larger, Dates, Null
  <2> HIDE DEF w
  <2>5. new \in Cursor /\ new.end # Null
    BY <2>4, RunningIsTyped
  <2>6. starter' = [starter EXCEPT ![o].at = "writing", ![o].new = new]
    BY <2>3 DEF w
  <2> HIDE DEF new
  <2>7. \A p \in Operator : starter'[p].at # "away" =>
          IF p = o THEN starter'[p].loaded = starter[p].loaded /\ starter'[p].new = new
                   ELSE starter'[p] = starter[p]
    BY <1>1, <2>6
  <2> QED
    BY <2>1, <2>5, <2>7 DEF Dates
<1>4. CASE StartCommit(o)
  <2>1. /\ starter[o].at = "writing" /\ cursor' = Flush(starter[o].loaded, starter[o].new)
        /\ starter' = [starter EXCEPT ![o] = Away] /\ UNCHANGED <<today, task>>
    BY <1>4 DEF StartCommit, github
  <2>2. cursor' = starter[o].new /\ cursor' \in Cursor /\ cursor'.end # Null
    BY <2>1, FlushIs DEF Dates
  <2>3. \A v \in Worker : task[v].row = Null
    BY <2>1 DEF Single, Starting, Held, InFlight
  <2>4. \A p \in Operator : starter'[p].at = "away"
    BY <1>1, <2>1, IdleIsTyped DEF Single, Starting
  <2> QED
    BY <2>1, <2>2, <2>3, <2>4 DEF Dates
<1> QED
  BY <1>2, <1>3, <1>4

LEMMA InitDates == Init => Dates
  BY ConstantsAreTyped, StoppedIsTyped, IdleIsTyped DEF Init, Dates

LEMMA NextDates == ASSUME Fault = {}, Single, Dates, [Next]_vars PROVE Dates'
<1>1. ASSUME NEW w \in Worker PROVE ~DeadLetter(w) /\ ~ReapEarly(w)
  BY DEF DeadLetter, ReapEarly
<1>2. CASE (\E r \in Run : NewRun(r)) \/ Rest \/ UNCHANGED vars
  <2>1. UNCHANGED <<today, cursor, task, starter>>
    BY <1>2 DEF NewRun, Rest, vars, github
  <2> QED
    BY <2>1 DEF Dates
<1>3. CASE Midnight
  <2>1. today' = today + 1 /\ UNCHANGED <<cursor, task, starter>>
    BY <1>3 DEF Midnight
  <2>2. today' \in Int /\ today' >= FirstDay
    BY <2>1, ConstantsAreTyped DEF Dates
  <2> QED
    BY <2>1, <2>2 DEF Dates
<1> QED
  BY <1>1, <1>2, <1>3, HandleDates, WakeDates, RetryDates, StartDates DEF Next
-------------------------------------------------------------------------------
(* One start at a time, no overlapping claim and no dead letter: a walk     *)
(* that is running has one wake-up in flight, and any other has none.       *)
THEOREM WalkHasOneWakeUp == ASSUME Fault = {} PROVE Safety => []OneWakeUp
<1>1. Single => OneWakeUp
  <2> SUFFICES ASSUME Single PROVE OneWakeUp
    OBVIOUS
  <2>1. CASE InFlight = {}
    BY <2>1, FS_EmptySet DEF Single, OneWakeUp, RunningIsAwake
  <2>2. CASE InFlight # {}
    <3>1. PICK i : InFlight = {i}
      BY <2>2 DEF Single, OneRow
    <3> QED
      BY <2>2, <3>1, FS_Singleton DEF Single, OneWakeUp, RunningIsAwake
  <2> QED
    BY <2>1, <2>2
<1>2. Single /\ Dates /\ [Next]_vars => Single' /\ Dates'
  BY NextSingle, NextDates
<1> QED
  BY <1>1, <1>2, InitSingle, InitDates, PTL DEF Safety
-------------------------------------------------------------------------------
(***************************************************************************)
(* What a walk has read: one walk at a time, as for its one wake-up.       *)
(***************************************************************************)
(* Whatever today comes to be, the newest window holds no more runs than    *)
(* GitHub lists, those created while it is walked among them.               *)
Roomy ==
  \A day \in Int : day >= FirstDay =>
    Cardinality({q \in Run : day - WindowDays < Day[q] /\ Day[q] <= day}) <= ResultCap

(* Every run that there will ever be in a window.                          *)
Everything(w) == {q \in Run : w.start <= Day[q] /\ Day[q] <= w.end}

Fits(w) == w.start = w.end \/ Cardinality(Everything(w)) <= ResultCap

(* What a cursor is while a walk is under way.                             *)
Formed(c) ==
  /\ c \in Cursor /\ c.status = "running"
  /\ c.start <= c.end /\ c.end - c.start < WindowDays
  /\ c.page > 0
  /\ c.page > 1 => Fits(c)

Clean ==
  /\ today \in Int /\ cursor \in Cursor
  /\ listed \subseteq Run /\ Run \ Late \subseteq listed
  /\ recorded \subseteq Run /\ owed \subseteq listed
  /\ pending \subseteq Row /\ processing \subseteq Row
  /\ task \in [Worker -> [row : Row \cup {Null}, loaded : Cursor, floor : Int]]
  /\ starter \in [Operator -> [at : {"away", "looking", "writing"},
                              loaded : Cursor, new : Cursor]]
  /\ lost \in BOOLEAN /\ starts \in Nat

(* Nobody holds a cursor or a floor that time has overtaken.               *)
Fresh ==
  /\ cursor.status = "running" => Formed(cursor)
  /\ \A w \in Worker : task[w].row # Null =>
       task[w].loaded = cursor /\ task[w].floor <= Floor
  /\ \A o \in Operator : starter[o].at # "away" =>
       /\ starter[o].loaded = cursor
       /\ starter[o].at = "writing" => Formed(starter[o].new) /\ starter[o].new.page = 1

(* The walk has passed r: it lies after the window, or on a page read.     *)
Passed(r, c) ==
  \/ Day[r] > c.end
  \/ c.page > 1 /\ Day[r] >= c.start /\ Position(r, c) <= (c.page - 1) * PageSize

Stored ==
  /\ NoGap
  /\ cursor.status = "running" =>
       \A r \in owed : Day[r] >= Floor /\ Fetchable(r) /\ Passed(r, cursor) => r \in recorded

Walk == Single /\ Dates /\ Clean /\ Fresh /\ Stored
-------------------------------------------------------------------------------
(***************************************************************************)
(* Counting runs.                                                          *)
(***************************************************************************)
Within(L, w) == {q \in L : w.start <= Day[q] /\ Day[q] <= w.end}

Newer(L, r, w) == {q \in Within(L, w) : q >= r}

LEMMA SmallestOf ==
  ASSUME NEW D \in SUBSET Nat, D # {}
  PROVE  \E n \in D : \A m \in D : n <= m
<1> DEFINE Below == OpToRel(<, Nat)
<1>1. \A m, n \in Nat : <<m, n>> \in Below <=> m < n
  BY DEF OpToRel
<1>2. IsWellFoundedOn(Below, Nat)
  BY NatLessThanWellFounded
<1> HIDE DEF Below
<1>3. PICK n \in D : \A m \in D : ~(<<m, n>> \in Below)
  BY <1>2, WFMin
<1>4. \A m \in D : ~(m < n)
  BY <1>1, <1>3
<1> QED
  BY <1>4

(* Subsets of the runs are finite, and larger ones count more.              *)
LEMMA Counted ==
  ASSUME NEW S \in SUBSET Run, NEW T \in SUBSET S
  PROVE  /\ IsFiniteSet(S) /\ Cardinality(S) \in Nat
         /\ IsFiniteSet(T) /\ Cardinality(T) \in Nat
         /\ Cardinality(T) <= Cardinality(S)
<1>1. IsFiniteSet(S)
  BY ConstantsAreTyped, FS_Subset
<1>2. IsFiniteSet(T) /\ Cardinality(T) <= Cardinality(S)
  BY <1>1, FS_Subset
<1> QED
  BY <1>1, <1>2, FS_CardinalityType

LEMMA PositionIs ==
  ASSUME NEW r, NEW w
  PROVE  Position(r, w) = Cardinality(Newer(listed, r, w)) /\ Listing(w) = Within(listed, w)
  BY DEF Position, Listing, Newer, Within

(* A run that GitHub will list has a place within the cap.                 *)
LEMMA Listable ==
  ASSUME NEW L \in SUBSET Run, NEW w, Fits(w), NEW r \in Within(L, w), Fetchable(r),
         w.start \in Int, w.end \in Int
  PROVE  /\ Cardinality(Newer(L, r, w)) \in Nat
         /\ Cardinality(Newer(L, r, w)) <= ResultCap
         /\ Cardinality(Newer(L, r, w)) <= Cardinality(Within(L, w))
<1> DEFINE N == Newer(L, r, w)
           D == {q \in Run : Day[q] = Day[r] /\ q >= r}
<1>1. Within(L, w) \in SUBSET Run /\ N \in SUBSET Within(L, w)
  BY DEF Within, Newer
<1>2. Cardinality(N) \in Nat /\ Cardinality(N) <= Cardinality(Within(L, w))
  BY <1>1, Counted
<1>3. CASE w.start = w.end
  <2>1. N \in SUBSET D /\ D \in SUBSET Run
    BY <1>3, ConstantsAreTyped DEF Newer, Within
  <2>2. Cardinality(D) <= ResultCap
    BY DEF Fetchable
  <2>3. Cardinality(N) <= Cardinality(D) /\ Cardinality(D) \in Nat
    BY <2>1, Counted
  <2> QED
    BY <1>2, <2>2, <2>3, ConstantsAreTyped
<1>4. CASE Cardinality(Everything(w)) <= ResultCap
  <2>1. N \in SUBSET Everything(w) /\ Everything(w) \in SUBSET Run
    BY DEF Newer, Within, Everything
  <2>2. Cardinality(N) <= Cardinality(Everything(w)) /\ Cardinality(Everything(w)) \in Nat
    BY <2>1, Counted
  <2> QED
    BY <1>2, <1>4, <2>2, ConstantsAreTyped
<1> QED
  BY <1>3, <1>4 DEF Fits

(* Places are numbered without a hole: where somebody stands beyond lo,     *)
(* somebody not newer stands at lo + 1.                                     *)
LEMMA NextInLine ==
  ASSUME NEW L \in SUBSET Run, NEW w, NEW r \in Within(L, w), NEW lo \in Nat,
         lo < Cardinality(Newer(L, r, w))
  PROVE  \E q \in Within(L, w) : /\ Cardinality(Newer(L, q, w)) = lo + 1
                                 /\ Cardinality(Newer(L, q, w)) <= Cardinality(Newer(L, r, w))
<1> DEFINE W == Within(L, w)
           P(q) == Cardinality(Newer(L, q, w))
           T == {q \in W : lo < P(q)}
           D == {P(q) : q \in T}
<1>1. /\ W \in SUBSET Run /\ \A q \in W : q \in Nat
      /\ \A q : Newer(L, q, w) = {x \in W : x >= q}
  BY ConstantsAreTyped DEF Within, Newer
<1>2. \A q : P(q) \in Nat
  <2> TAKE q
  <2>1. Newer(L, q, w) \in SUBSET Run
    BY <1>1
  <2> QED
    BY <2>1, Counted
<1>3. D \in SUBSET Nat /\ P(r) \in D
  BY <1>2
<1>4. PICK n \in D : \A m \in D : n <= m
  <2> HIDE DEF D
  <2> QED
    BY <1>3, SmallestOf
<1>5. PICK q \in T : \A x \in T : P(q) <= P(x)
  BY <1>4
<1>6. q \in W /\ lo < P(q) /\ P(q) <= P(r) /\ q \in Nat
  <2>1. r \in T
    OBVIOUS
  <2> QED
    BY <1>1, <1>5, <2>1
<1> HIDE DEF W, P
<1> DEFINE A == {x \in W : x > q}
<1>7. CASE A = {}
  <2>1. Newer(L, q, w) = {q}
    <3>1. \A x \in W : x >= q <=> x = q
      <4> SUFFICES ASSUME NEW x \in W PROVE x >= q <=> x = q
        OBVIOUS
      <4>1. ~(x > q) /\ x \in Nat
        BY <1>1, <1>7
      <4> QED
        BY <1>6, <4>1
    <3> QED
      BY <1>1, <1>6, <3>1
  <2>2. P(q) = 1
    BY <2>1, FS_Singleton DEF P
  <2> QED
    BY <1>2, <1>6, <2>2 DEF P, W
<1>8. CASE A # {}
  <2>1. A \in SUBSET Nat
    BY <1>1
  <2>2. PICK s \in A : \A x \in A : s <= x
    <3> HIDE DEF A
    <3> QED
      BY <1>8, <2>1, SmallestOf
  <2>3. s \in W /\ s > q /\ s \in Nat
    BY <1>1, <2>2
  <2>4. Newer(L, q, w) = Newer(L, s, w) \cup {q} /\ q \notin Newer(L, s, w)
    <3>1. \A x \in W : x >= q <=> x >= s \/ x = q
      <4> SUFFICES ASSUME NEW x \in W PROVE x >= q <=> x >= s \/ x = q
        OBVIOUS
      <4>1. x \in Nat /\ (x > q => s <= x)
        BY <1>1, <2>2
      <4> QED
        BY <1>6, <2>3, <4>1
    <3>2. /\ Newer(L, q, w) = {x \in W : x >= q}
          /\ Newer(L, s, w) = {x \in W : x >= s}
      BY <1>1
    <3>3. ~(q >= s)
      BY <1>6, <2>3
    <3> QED
      BY <1>6, <3>1, <3>2, <3>3
  <2>5. IsFiniteSet(Newer(L, s, w))
    <3>1. Newer(L, s, w) \in SUBSET Run
      BY <1>1
    <3> QED
      BY <3>1, Counted
  <2>6. P(q) = P(s) + 1
    BY <2>4, <2>5, FS_AddElement DEF P
  <2>7. ~(lo < P(s))
    <3> SUFFICES ASSUME lo < P(s) PROVE FALSE
      OBVIOUS
    <3>1. P(q) <= P(s)
      BY <1>5, <2>3
    <3> QED
      BY <1>2, <2>6, <3>1
  <2> QED
    BY <1>2, <1>6, <2>6, <2>7 DEF P, W
<1> QED
  BY <1>7, <1>8
-------------------------------------------------------------------------------
(***************************************************************************)
(* The page a handler stores.  It has read the cursor as it still is.      *)
(***************************************************************************)
Reading(v) ==
  /\ v \in Worker /\ task[v].row # Null
  /\ task[v].loaded = cursor /\ Formed(cursor)
  /\ task[v].floor \in Int /\ task[v].floor <= Floor

LEMMA WalkReads ==
  ASSUME Walk, NEW v \in Worker, task[v].row # Null PROVE Reading(v)
<1>1. cursor.status = "running" /\ task[v].loaded = cursor
  BY DEF Walk, Single, Held, RunningIsAwake, InFlight, Fresh
<1>2. task[v].floor \in Int
  BY DEF Walk, Clean
<1> QED
  BY <1>1, <1>2 DEF Walk, Fresh, Reading

LEMMA WindowIs ==
  ASSUME NEW v, Reading(v)
  PROVE  /\ WindowOf(v).start = cursor.start /\ WindowOf(v).end = cursor.end
         /\ Listing(WindowOf(v)) = Within(listed, cursor)
         /\ \A r : Position(r, WindowOf(v)) = Cardinality(Newer(listed, r, cursor))
         /\ Fits(WindowOf(v)) <=> Fits(cursor)
         /\ Page(v) = cursor.page
<1>1. WindowOf(v).start = cursor.start /\ WindowOf(v).end = cursor.end
  BY DEF Reading, WindowOf
<1>2. Page(v) = cursor.page
  BY DEF Reading, Formed, Page, Null
<1> QED
  BY <1>1, <1>2 DEF Listing, Position, Within, Newer, Fits, Everything

(* Pages are read from a window that GitHub lists in full.                 *)
LEMMA StillFits ==
  ASSUME Roomy, Clean, NEW v, Reading(v), ~OverCap(v) PROVE Fits(cursor)
<1>1. Formed(cursor) /\ cursor.start \in Int /\ cursor.end \in Int /\ cursor.page \in Int
  BY CursorIsTyped DEF Reading, Formed
<1>2. CASE cursor.page > 1
  BY <1>1, <1>2 DEF Formed
<1>3. CASE ~(cursor.page > 1)
  <2>1. cursor.page = 1 /\ cursor.start <= cursor.end
    BY <1>1, <1>3 DEF Formed
  <2>2. CASE ~(cursor.end > cursor.start)
    BY <1>1, <2>1, <2>2 DEF Fits
  <2>3. CASE ~(Cardinality(Within(listed, cursor)) > ResultCap)
    <3> DEFINE E == Everything(cursor)
               B == {q \in Run : cursor.end - WindowDays < Day[q] /\ Day[q] <= cursor.end}
    <3>1. E \in SUBSET Run /\ B \in SUBSET Run /\ Within(listed, cursor) \in SUBSET Run
      BY DEF Everything, Within, Clean
    <3>2. CASE cursor.end < FirstDay
      <4>1. E \in SUBSET Within(listed, cursor)
        BY <1>1, <3>2, ConstantsAreTyped DEF Clean, Everything, Within
      <4>2. Cardinality(E) <= Cardinality(Within(listed, cursor))
            /\ Cardinality(E) \in Nat /\ Cardinality(Within(listed, cursor)) \in Nat
        BY <3>1, <4>1, Counted
      <4> QED
        BY <2>3, <4>2, ConstantsAreTyped DEF Fits
    <3>3. CASE ~(cursor.end < FirstDay)
      <4>1. E \in SUBSET B
        BY <1>1, ConstantsAreTyped DEF Everything, Formed
      <4>2. Cardinality(E) <= Cardinality(B) /\ Cardinality(E) \in Nat /\ Cardinality(B) \in Nat
        BY <3>1, <4>1, Counted
      <4>3. Cardinality(B) <= ResultCap
        BY <1>1, <3>3, ConstantsAreTyped DEF Roomy
      <4> QED
        BY <4>2, <4>3, ConstantsAreTyped DEF Fits
    <3> QED
      BY <3>2, <3>3
  <2>4. Page(v) = 1
    BY <2>1, WindowIs
  <2> QED
    BY <2>2, <2>3, <2>4, WindowIs DEF OverCap
<1> QED
  BY <1>2, <1>3

(* Once a page is stored, whoever stands on it or before it has been read,  *)
(* and everybody who can be when there is no further page.                 *)
LEMMA PageCovers ==
  ASSUME Clean, NEW v, Reading(v), Fits(cursor),
         NEW r \in listed, cursor.start <= Day[r], Day[r] <= cursor.end, Fetchable(r),
         ~MorePages(v) \/ Position(r, cursor) <= cursor.page * PageSize
  PROVE  \/ cursor.page > 1 /\ Position(r, cursor) <= (cursor.page - 1) * PageSize
         \/ r \in PageOf(WindowOf(v), Page(v))
<1> DEFINE P(q) == Cardinality(Newer(listed, q, cursor))
           page == cursor.page
           lo == (page - 1) * PageSize
           hi == page * PageSize
           all == Cardinality(Within(listed, cursor))
<1>1. /\ cursor \in Cursor /\ cursor.start \in Int /\ cursor.end \in Int
      /\ page \in Nat \ {0} /\ listed \in SUBSET Run
  BY CursorIsTyped DEF Reading, Formed, Clean
<1>2. r \in Within(listed, cursor)
  BY DEF Within
<1>3. P(r) \in Nat /\ P(r) <= ResultCap /\ P(r) <= all
  BY <1>1, <1>2, Listable
<1>4. 0 < P(r)
  <2>1. r \in Newer(listed, r, cursor) /\ Newer(listed, r, cursor) \in SUBSET Run
    BY <1>1, <1>2, ConstantsAreTyped DEF Newer, Within
  <2>2. IsFiniteSet(Newer(listed, r, cursor))
    BY <2>1, Counted
  <2>3. P(r) # 0
    BY <2>1, <2>2, FS_EmptySet
  <2> QED
    BY <1>3, <2>3
<1>5. /\ lo \in Nat /\ hi \in Nat /\ hi = lo + PageSize /\ PageSize \in Nat \ {0}
      /\ (page = 1 => lo = 0)
  <2>1. PageSize \in Nat \ {0}
    BY ConstantsAreTyped
  <2>2. page - 1 \in Nat
    BY <1>1
  <2> QED
    BY <1>1, <2>1, <2>2
<1>6. all \in Nat /\ ResultCap \in Nat
  <2>1. Within(listed, cursor) \in SUBSET Run
    BY <1>1 DEF Within
  <2> QED
    BY <2>1, Counted, ConstantsAreTyped
<1>7. /\ PageOf(WindowOf(v), page) = {q \in Within(listed, cursor) :
            lo < P(q) /\ P(q) <= Smaller(hi, ResultCap)}
      /\ Page(v) = page
      /\ MorePages(v) <=> /\ hi < Smaller(all, ResultCap)
                          /\ PageOf(WindowOf(v), page) # {}
      /\ Position(r, cursor) = P(r)
  BY WindowIs, PositionIs DEF PageOf, MorePages, Reading
<1> HIDE DEF P, lo, hi, all
<1>8. CASE P(r) <= lo
  <2>1. page # 1
    BY <1>3, <1>4, <1>5, <1>8
  <2> QED
    BY <1>1, <1>7, <1>8, <2>1 DEF lo
<1>9. CASE lo < P(r) /\ P(r) <= hi
  BY <1>2, <1>3, <1>6, <1>7, <1>9 DEF Smaller
<1>10. CASE hi < P(r)
  <2>1. ~MorePages(v)
    BY <1>3, <1>5, <1>7, <1>10 DEF hi
  <2>2. hi < Smaller(all, ResultCap)
    BY <1>3, <1>5, <1>6, <1>10 DEF Smaller
  <2>3. lo < P(r)
    BY <1>3, <1>5, <1>10
  <2>4. PICK q \in Within(listed, cursor) : P(q) = lo + 1 /\ P(q) <= P(r)
    <3>1. lo < Cardinality(Newer(listed, r, cursor))
      BY <2>3 DEF P
    <3> QED
      BY <1>1, <1>2, <1>5, <3>1, NextInLine DEF P
  <2>5. q \in PageOf(WindowOf(v), page)
    BY <1>3, <1>5, <1>6, <1>7, <2>4 DEF Smaller
  <2> QED
    BY <1>7, <2>1, <2>2, <2>5
<1> QED
  BY <1>3, <1>5, <1>8, <1>9, <1>10
-------------------------------------------------------------------------------
(***************************************************************************)
(* The steps.                                                              *)
(***************************************************************************)
LEMMA CommitWalk ==
  ASSUME Walk, NEW v, Reading(v), NEW new \in Cursor, Commit(v, new),
         new.status = "running" => Formed(new),
         recorded' \subseteq Run, recorded \subseteq recorded',
         new.status \in {"running", "done"} =>
           \A r \in owed : Day[r] >= Floor /\ Fetchable(r)
                             /\ (new.status = "running" => Passed(r, new)) => r \in recorded'
  PROVE  Clean' /\ Fresh' /\ Stored' /\ cursor' = new
<1>1. /\ v \in Worker /\ task[v].row # Null /\ task[v].loaded = cursor
      /\ cursor \in Cursor
  BY DEF Walk, Clean, Reading
<1>2. cursor' = new
  BY <1>1, FlushIs DEF Commit
<1>3. /\ task' = [task EXCEPT ![v] = Idle] /\ Unused # {}
      /\ UNCHANGED <<today, listed, starter, owed, lost, starts>>
  BY DEF Commit, github
<1>4. \A u \in Worker : task'[u].row = Null
  <2>1. InFlight = {task[v].row}
    BY <1>1 DEF Walk, Single, Held, OneRow, InFlight
  <2> QED
    BY <1>1, <1>3, <2>1, IdleIsTyped DEF Walk, Single, Held, InFlight, Clean
<1>5. \A o \in Operator : starter'[o].at = "away"
  BY <1>1, <1>3 DEF Walk, Single, Held, Starting, InFlight
<1>6. Clean'
  <2>1. FreshRow \in Row
    BY <1>3, FreshRowUnused DEF Unused
  <2>2. pending' \subseteq Row /\ processing' \subseteq Row
    BY <2>1 DEF Walk, Clean, Commit
  <2>3. task' \in [Worker -> [row : Row \cup {Null}, loaded : Cursor, floor : Int]]
    BY <1>3, IdleIsTyped DEF Walk, Clean
  <2> QED
    BY <1>2, <1>3, <2>2, <2>3 DEF Walk, Clean
<1>7. Fresh'
  <2>1. new.status = "running" => Formed(new)'
    BY DEF Formed, Fits, Everything
  <2> QED
    BY <1>2, <1>4, <1>5, <2>1 DEF Fresh
<1>8. Floor' = Floor /\ (\A r : Passed(r, new)' <=> Passed(r, new))
  BY <1>3 DEF Floor, Passed, Position, Listing
<1>9. Stored'
  <2>1. ASSUME new.status = "done" PROVE NoGap'
    BY <1>2, <1>3, <1>8, <2>1 DEF NoGap, Fetchable
  <2>2. ASSUME new.status # "done" PROVE NoGap'
    BY <1>2, <2>2 DEF NoGap
  <2>3. ASSUME new.status = "running", NEW r \in owed, Day[r] >= Floor, Fetchable(r),
               Passed(r, cursor)'
        PROVE  r \in recorded'
    <3>1. Passed(r, new)
      BY <1>2, <1>8, <2>3 DEF Passed, Position, Listing
    <3> QED
      BY <2>3, <3>1
  <2> QED
    BY <1>2, <1>3, <1>8, <2>1, <2>2, <2>3 DEF Stored, Fetchable
<1> QED
  BY <1>2, <1>6, <1>7, <1>9

LEMMA NarrowWalk ==
  ASSUME Walk, NEW v \in Worker, Narrow(v)
  PROVE  Clean' /\ Fresh' /\ Stored' /\ Formed(cursor) /\ Ahead(cursor, cursor')
<1> DEFINE half == Halved(WindowOf(v))
           new == Running(half.start, half.end, 1)
<1>1. /\ task[v].row # Null /\ OverCap(v) /\ Commit(v, new) /\ recorded' = recorded
  BY DEF Narrow, Asks
<1>2. Reading(v) /\ Formed(cursor)
  BY <1>1, WalkReads DEF Reading
<1>3. /\ cursor.start \in Int /\ cursor.end \in Int /\ cursor.end > cursor.start
      /\ cursor.end - cursor.start < WindowDays /\ WindowDays \in Int
      /\ WindowOf(v).start = cursor.start /\ WindowOf(v).end = cursor.end
  BY <1>1, <1>2, WindowIs, CursorIsTyped, ConstantsAreTyped DEF OverCap, Formed
<1>4. /\ half.end = cursor.end /\ half.start \in Int /\ cursor.start < half.start
      /\ half.start <= half.end
  BY <1>3 DEF Halved
<1> HIDE DEF half
<1>5. /\ new \in Cursor /\ new.status = "running" /\ new.page = 1
      /\ new.start = half.start /\ new.end = half.end
  BY <1>3, <1>4, RunningIsTyped
<1>6. Formed(new)
  BY <1>3, <1>4, <1>5 DEF Formed
<1>7. recorded' \subseteq Run /\ recorded \subseteq recorded'
  BY <1>1 DEF Walk, Clean
<1>8. ASSUME NEW r \in owed, Day[r] >= Floor, Fetchable(r), Passed(r, new)
      PROVE  r \in recorded'
  <2>1. Passed(r, cursor)
    BY <1>3, <1>4, <1>5, <1>8 DEF Passed
  <2> QED
    BY <1>1, <1>2, <1>8, <2>1 DEF Walk, Stored, Formed
<1>9. Ahead(cursor, new)
  BY <1>3, <1>4, <1>5 DEF Ahead
<1> HIDE DEF new
<1> QED
  BY <1>1, <1>2, <1>5, <1>6, <1>7, <1>8, <1>9, CommitWalk

LEMMA StorePageWalk ==
  ASSUME Roomy, Walk, NEW v \in Worker, StorePage(v)
  PROVE  /\ Clean' /\ Fresh' /\ Stored' /\ Formed(cursor)
         /\ cursor'.status = "running" => Ahead(cursor, cursor')
<1> DEFINE read == PageOf(WindowOf(v), Page(v))
           n == NextWindow(WindowOf(v), task[v].floor)
           new == AfterPage(v)
<1>1. /\ task[v].row # Null /\ ~OverCap(v) /\ Commit(v, new)
      /\ recorded' = recorded \cup read
  BY DEF StorePage, Asks
<1>2. Reading(v) /\ Formed(cursor) /\ Clean /\ task[v].loaded = cursor
  BY <1>1, WalkReads DEF Reading, Walk
<1>3. Fits(cursor)
  BY <1>1, <1>2, StillFits
<1>4. /\ cursor \in Cursor /\ cursor.status = "running"
      /\ cursor.start \in Int /\ cursor.end \in Int /\ cursor.page \in Int
      /\ cursor.start <= cursor.end /\ cursor.end - cursor.start < WindowDays
      /\ cursor.page > 0 /\ WindowDays \in Int /\ PageSize \in Int
      /\ task[v].floor \in Int /\ task[v].floor <= Floor /\ Floor \in Int
  BY <1>2, CursorIsTyped, ConstantsAreTyped, FloorIsInt DEF Reading, Formed, Clean
<1>5. \A r \in owed : r \in listed /\ Day[r] \in Int
  BY <1>2, ConstantsAreTyped DEF Clean
<1>6. recorded' \subseteq Run /\ recorded \subseteq recorded'
  BY <1>1, <1>2 DEF Clean, PageOf, Listing
<1>7. ASSUME NEW r \in owed, Day[r] >= Floor, Fetchable(r), Day[r] >= cursor.start,
             \/ Day[r] > cursor.end
             \/ ~MorePages(v) \/ Position(r, cursor) <= cursor.page * PageSize
      PROVE  r \in recorded'
  <2>1. CASE Passed(r, cursor)
    BY <1>4, <1>6, <1>7, <2>1 DEF Walk, Stored
  <2>2. CASE ~Passed(r, cursor)
    <3>1. Day[r] <= cursor.end /\ r \in listed /\ cursor.start <= Day[r]
      BY <1>4, <1>5, <1>7, <2>2 DEF Passed
    <3>2. ~(cursor.page > 1 /\ Position(r, cursor) <= (cursor.page - 1) * PageSize)
      BY <1>7, <2>2 DEF Passed
    <3>3. ~MorePages(v) \/ Position(r, cursor) <= cursor.page * PageSize
      BY <1>4, <1>5, <1>7, <3>1
    <3>4. r \in read
      BY <1>2, <1>3, <1>7, <3>1, <3>2, <3>3, PageCovers
    <3> QED
      BY <1>1, <3>4
  <2> QED
    BY <2>1, <2>2
<1>8. CASE MorePages(v)
  <2>1. new = Running(cursor.start, cursor.end, cursor.page + 1)
    BY <1>2, <1>8, WindowIs DEF AfterPage
  <2>2. /\ new \in Cursor /\ new.status = "running" /\ new.page = cursor.page + 1
        /\ new.start = cursor.start /\ new.end = cursor.end
    <3>1. cursor.page + 1 \in Int
      BY <1>4
    <3> DEFINE up == Running(cursor.start, cursor.end, cursor.page + 1)
    <3>2. /\ up \in Cursor /\ up.status = "running" /\ up.page = cursor.page + 1
          /\ up.start = cursor.start /\ up.end = cursor.end
      BY <1>4, <3>1 DEF Running, Cursor
    <3>3. new = up
      BY <2>1
    <3> HIDE DEF up, new
    <3> QED
      BY <3>2, <3>3
  <2> HIDE DEF new
  <2>3. Formed(new)
    BY <1>3, <1>4, <2>2 DEF Formed, Fits, Everything
  <2>4. Ahead(cursor, new)
    BY <1>4, <2>2 DEF Ahead
  <2>5. ASSUME NEW r \in owed, Day[r] >= Floor, Fetchable(r), Passed(r, new)
        PROVE  r \in recorded'
    <3>1. (new.page - 1) * PageSize = cursor.page * PageSize
      BY <1>4, <2>2
    <3>2. Position(r, new) = Position(r, cursor)
      BY <2>2 DEF Position, Listing
    <3> QED
      BY <1>4, <1>5, <1>7, <2>2, <2>5, <3>1, <3>2 DEF Passed
  <2> QED
    BY <1>1, <1>2, <1>6, <2>2, <2>3, <2>4, <2>5, CommitWalk DEF Formed
<1>9. CASE ~MorePages(v)
  <2>1. /\ n.end = cursor.start - 1
        /\ n.start = Larger(task[v].floor, cursor.start - WindowDays)
    BY <1>2, WindowIs DEF NextWindow
  <2>2. ASSUME NEW r \in owed, Day[r] >= Floor, Fetchable(r), Day[r] >= cursor.start
        PROVE  r \in recorded'
    BY <1>7, <1>9, <2>2
  <2>3. CASE n.end < task[v].floor
    <3>1. new = Stopped("done") /\ new \in Cursor /\ new.status = "done"
      BY <1>9, <2>3, StoppedIsTyped DEF AfterPage
    <3> HIDE DEF new, n
    <3>2. ASSUME NEW r \in owed, Day[r] >= Floor, Fetchable(r) PROVE r \in recorded'
      <4>1. Day[r] >= cursor.start
        BY <1>4, <1>5, <2>1, <2>3, <3>2
      <4> QED
        BY <2>2, <3>2, <4>1
    <3> QED
      BY <1>1, <1>2, <1>6, <3>1, <3>2, CommitWalk
  <2>4. CASE ~(n.end < task[v].floor)
    <3>1. new = Running(n.start, n.end, 1)
      BY <1>9, <2>4 DEF AfterPage
    <3>2. /\ n.start \in Int /\ n.end \in Int /\ n.start <= n.end
          /\ n.end - n.start < WindowDays /\ n.end < cursor.end
      BY <1>4, <2>1, <2>4, ConstantsAreTyped DEF Larger
    <3> HIDE DEF n
    <3>3. /\ new \in Cursor /\ new.status = "running" /\ new.page = 1
          /\ new.start = n.start /\ new.end = n.end
      BY <3>1, <3>2, RunningIsTyped
    <3> HIDE DEF new
    <3>4. Formed(new) /\ Ahead(cursor, new)
      BY <1>4, <3>2, <3>3 DEF Formed, Ahead
    <3>5. ASSUME NEW r \in owed, Day[r] >= Floor, Fetchable(r), Passed(r, new)
          PROVE  r \in recorded'
      <4>1. Day[r] > cursor.start - 1
        BY <2>1, <3>3, <3>5 DEF Passed
      <4> QED
        BY <1>4, <1>5, <2>2, <3>5, <4>1
    <3> QED
      BY <1>1, <1>2, <1>6, <3>3, <3>4, <3>5, CommitWalk
  <2> QED
    BY <2>3, <2>4
<1> QED
  BY <1>8, <1>9

LEMMA UnreadableWalk ==
  ASSUME Walk, NEW v \in Worker, Unreadable(v)
  PROVE  Clean' /\ Fresh' /\ Stored' /\ cursor'.status = "failed"
<1> DEFINE new == Stopped("failed")
<1>1. task[v].row # Null /\ Commit(v, new) /\ recorded' = recorded
  BY DEF Unreadable, Asks
<1>2. Reading(v)
  BY <1>1, WalkReads
<1>3. new \in Cursor /\ new.status = "failed"
  BY StoppedIsTyped
<1> HIDE DEF new
<1> QED
  BY <1>1, <1>2, <1>3, CommitWalk DEF Walk, Clean
-------------------------------------------------------------------------------
LEMMA StartWalk ==
  ASSUME Fault = {}, Walk, NEW o \in Operator, StartLoad(o) \/ StartCheck(o)
  PROVE  Clean' /\ Fresh' /\ Stored' /\ cursor' = cursor
<1>1. UNCHANGED <<today, listed, cursor, pending, processing, task, recorded, owed, lost, starts>>
  BY DEF StartLoad, StartCheck, github, queue, ghosts
<1>2. /\ starter \in [Operator -> [at : {"away", "looking", "writing"},
                                   loaded : Cursor, new : Cursor]]
      /\ cursor \in Cursor /\ today \in Int
  BY DEF Walk, Clean
<1>3. CASE StartLoad(o)
  <2>1. starter' = [starter EXCEPT ![o].at = "looking", ![o].loaded = cursor]
    BY <1>3 DEF StartLoad
  <2>2. starter' \in [Operator -> [at : {"away", "looking", "writing"},
                                  loaded : Cursor, new : Cursor]]
    BY <1>2, <2>1
  <2>3. \A p \in Operator : starter'[p].at # "away" =>
          starter'[p].loaded = cursor /\ starter'[p].at # "writing"
    <3>1. \A p \in Operator : starter[p].at = "away"
      BY <1>3 DEF StartLoad, Walk, Single, Starting
    <3> QED
      BY <1>2, <2>1, <3>1
  <2> QED
    BY <1>1, <2>2, <2>3
    DEF Walk, Clean, Fresh, Stored, Formed, Fits, Everything, NoGap, Floor, Fetchable,
        Passed, Position, Listing
<1>4. CASE StartCheck(o)
  <2>1. starter[o].at = "looking" /\ starter[o].loaded = cursor
    BY <1>4 DEF StartCheck, Walk, Fresh
  <2>2. InFlight = {} /\ \A p \in Operator \ {o} : starter[p].at = "away"
    BY <2>1 DEF Walk, Single, Starting
  <2>3. PICK days \in DaysArg :
          LET w == FirstWindow(today, days)
          IN starter' = [starter EXCEPT ![o].at = "writing",
                                        ![o].new = Running(w.start, w.end, 1)]
    BY <1>4, <2>2 DEF StartCheck
  <2> DEFINE w == FirstWindow(today, days)
             new == Running(w.start, w.end, 1)
  <2>4. /\ w.end = today /\ w.start \in Int /\ w.start <= w.end
        /\ w.end - w.start < WindowDays
    BY <1>2, ConstantsAreTyped DEF FirstWindow, Larger
  <2> HIDE DEF w
  <2>5. new \in Cursor /\ new.status = "running" /\ new.page = 1
        /\ new.start = w.start /\ new.end = w.end
    BY <1>2, <2>4, RunningIsTyped
  <2>6. starter' = [starter EXCEPT ![o].at = "writing", ![o].new = new]
    BY <2>3 DEF w
  <2> HIDE DEF new
  <2>7. Formed(new)
    BY <2>4, <2>5 DEF Formed
  <2>8. starter' \in [Operator -> [at : {"away", "looking", "writing"},
                                  loaded : Cursor, new : Cursor]]
    BY <1>2, <2>5, <2>6
  <2>9. \A p \in Operator : starter'[p].at # "away" =>
          starter'[p].loaded = cursor /\ starter'[p].new = new
    BY <1>2, <2>1, <2>2, <2>6
  <2> QED
    BY <1>1, <2>5, <2>7, <2>8, <2>9
    DEF Walk, Clean, Fresh, Stored, Formed, Fits, Everything, NoGap, Floor, Fetchable,
        Passed, Position, Listing
<1> QED
  BY <1>1, <1>3, <1>4

LEMMA StartCommitWalk ==
  ASSUME Walk, NEW o \in Operator, StartCommit(o)
  PROVE  Clean' /\ Fresh' /\ Stored' /\ cursor.status # "running"
<1> DEFINE new == starter[o].new
<1>1. /\ starter[o].at = "writing" /\ Unused # {}
      /\ cursor' = Flush(starter[o].loaded, new) /\ pending' = pending \cup {FreshRow}
      /\ starter' = [starter EXCEPT ![o] = Away] /\ lost' = FALSE /\ starts' = starts + 1
      /\ UNCHANGED <<today, listed, processing, task>>
  BY DEF StartCommit, github
<1>2. /\ starter[o].loaded = cursor /\ Formed(new) /\ new.page = 1
      /\ cursor.status # "running" /\ InFlight = {}
      /\ \A p \in Operator \ {o} : starter[p].at = "away"
  BY <1>1 DEF Walk, Fresh, Single, Starting
<1>3. recorded' = {} /\ owed' = {r \in listed : Day[r] <= new.end}
  BY <1>2 DEF StartCommit
<1>4. new \in Cursor /\ cursor \in Cursor /\ new.status = "running" /\ new.end \in Int
  BY <1>2, CursorIsTyped DEF Formed, Walk, Clean
<1>5. cursor' = new
  BY <1>1, <1>2, <1>4, FlushIs
<1>6. Clean'
  <2>1. FreshRow \in Row
    BY <1>1, FreshRowUnused DEF Unused
  <2>2. starter' \in [Operator -> [at : {"away", "looking", "writing"},
                                  loaded : Cursor, new : Cursor]]
    BY <1>1, IdleIsTyped DEF Walk, Clean
  <2>3. recorded' \subseteq Run /\ owed' \subseteq listed' /\ lost' \in BOOLEAN
    BY <1>1, <1>3
  <2>4. starts' \in Nat /\ pending' \subseteq Row /\ processing' \subseteq Row
    BY <1>1, <2>1 DEF Walk, Clean
  <2>5. cursor' \in Cursor
    BY <1>4, <1>5
  <2> HIDE DEF new
  <2> QED
    BY <1>1, <2>2, <2>3, <2>4, <2>5 DEF Walk, Clean
<1>7. Fresh'
  <2>1. \A v \in Worker : task[v].row = Null
    BY <1>2 DEF Walk, Single, Held, InFlight
  <2>2. \A p \in Operator : starter'[p].at = "away"
    BY <1>1, <1>2, IdleIsTyped DEF Walk, Clean
  <2> HIDE DEF new
  <2> QED
    BY <1>1, <1>2, <1>5, <2>1, <2>2 DEF Fresh, Formed, Fits, Everything
<1>8. Stored'
  <2> HIDE DEF new
  <2>1. NoGap'
    BY <1>4, <1>5 DEF NoGap
  <2>2. ASSUME NEW r \in owed', Passed(r, cursor)' PROVE FALSE
    <3>1. Day[r] <= new.end /\ Day[r] \in Int
      BY <1>3, <2>2, ConstantsAreTyped DEF Walk, Clean
    <3> QED
      BY <1>2, <1>4, <1>5, <2>2, <3>1 DEF Passed
  <2> QED
    BY <2>1, <2>2 DEF Stored
<1> QED
  BY <1>2, <1>6, <1>7, <1>8

LEMMA WakeWalk ==
  ASSUME Walk, NEW v \in Worker, Wake(v)
  PROVE  Clean' /\ Fresh' /\ Stored' /\ cursor' = cursor
<1>1. PICK i \in pending :
        /\ pending' = pending \ {i}
        /\ IF cursor.status = "running" /\ cursor.end # Null
           THEN /\ processing' = processing \cup {i}
                /\ task' = [task EXCEPT ![v] =
                              [row |-> i, loaded |-> cursor, floor |-> Floor]]
           ELSE UNCHANGED <<processing, task>>
  BY DEF Wake
<1>2. UNCHANGED <<today, listed, cursor, starter, recorded, owed, lost, starts>>
  BY DEF Wake, github, ghosts
<1>3. cursor \in Cursor /\ Floor \in Int /\ i \in Row
  BY FloorIsInt DEF Walk, Clean
<1>4. task' \in [Worker -> [row : Row \cup {Null}, loaded : Cursor, floor : Int]]
      /\ \A u \in Worker : task'[u].row # Null =>
           task'[u].loaded = cursor /\ task'[u].floor <= Floor
  <2>1. /\ task \in [Worker -> [row : Row \cup {Null}, loaded : Cursor, floor : Int]]
        /\ \A u \in Worker : task[u].row # Null =>
             task[u].loaded = cursor /\ task[u].floor <= Floor
    BY DEF Walk, Clean, Fresh
  <2>2. CASE cursor.status = "running" /\ cursor.end # Null
    BY <1>1, <1>3, <2>1, <2>2
  <2>3. CASE ~(cursor.status = "running" /\ cursor.end # Null)
    BY <1>1, <2>1, <2>3
  <2> QED
    BY <2>2, <2>3
<1>5. pending' \subseteq Row /\ processing' \subseteq Row
  BY <1>1, <1>3 DEF Walk, Clean
<1> QED
  BY <1>2, <1>4, <1>5
  DEF Walk, Clean, Fresh, Stored, Formed, Fits, Everything, NoGap, Floor, Fetchable,
      Passed, Position, Listing

LEMMA RetryWalk ==
  ASSUME Walk, NEW v \in Worker, Retry(v)
  PROVE  Clean' /\ Fresh' /\ Stored' /\ cursor' = cursor
<1>1. /\ task[v].row # Null /\ pending' = pending \cup {task[v].row}
      /\ processing' = processing \ {task[v].row} /\ task' = [task EXCEPT ![v] = Idle]
      /\ UNCHANGED <<today, listed, cursor, starter, recorded, owed, lost, starts>>
  BY DEF Retry, github, ghosts
<1>2. /\ task' \in [Worker -> [row : Row \cup {Null}, loaded : Cursor, floor : Int]]
      /\ \A u \in Worker : task'[u].row # Null => task'[u] = task[u]
  BY <1>1, IdleIsTyped DEF Walk, Clean
<1>3. pending' \subseteq Row /\ processing' \subseteq Row
  BY <1>1 DEF Walk, Clean
<1> QED
  BY <1>1, <1>2, <1>3
  DEF Walk, Clean, Fresh, Stored, Formed, Fits, Everything, NoGap, Floor, Fetchable,
      Passed, Position, Listing

(* A new run stands in front of the others: nobody's place gets smaller.    *)
LEMMA NewRunWalk ==
  ASSUME Walk, NEW q \in Run, NewRun(q)
  PROVE  Clean' /\ Fresh' /\ Stored' /\ cursor' = cursor
<1>1. /\ listed' = listed \cup {q}
      /\ UNCHANGED <<today, cursor, pending, processing, task, starter,
                     recorded, owed, lost, starts>>
  BY DEF NewRun, queue, ghosts
<1>2. Clean'
  BY <1>1 DEF Walk, Clean
<1>3. Fresh'
  BY <1>1 DEF Walk, Fresh, Formed, Fits, Everything, Floor
<1>4. ASSUME NEW r \in owed, cursor.status = "running", Passed(r, cursor)'
      PROVE  Passed(r, cursor)
  <2> DEFINE old == Newer(listed, r, cursor)
             new == Newer(listed', r, cursor)
  <2>1. old \in SUBSET new /\ new \in SUBSET Run
    BY <1>1 DEF Newer, Within, Walk, Clean
  <2>2. Cardinality(old) \in Nat /\ Cardinality(new) \in Nat
        /\ Cardinality(old) <= Cardinality(new)
    BY <2>1, Counted
  <2>3. Position(r, cursor) = Cardinality(old) /\ Position(r, cursor)' = Cardinality(new)
    BY <1>1 DEF Position, Listing, Newer, Within
  <2>4. (cursor.page - 1) * PageSize \in Int
    <3>1. cursor.page \in Int /\ PageSize \in Int
      BY CursorIsTyped, ConstantsAreTyped DEF Walk, Clean
    <3> QED
      BY <3>1
  <2> HIDE DEF old, new
  <2> QED
    BY <1>1, <1>4, <2>2, <2>3, <2>4 DEF Passed
<1>5. Stored'
  BY <1>1, <1>4 DEF Walk, Stored, NoGap, Floor, Fetchable
<1> QED
  BY <1>1, <1>2, <1>3, <1>5

(* The floor only rises.                                                   *)
LEMMA MidnightWalk ==
  ASSUME Walk, Midnight
  PROVE  Clean' /\ Fresh' /\ Stored' /\ cursor' = cursor
<1>1. /\ today' = today + 1 /\ today \in Int
      /\ UNCHANGED <<listed, cursor, pending, processing, task, starter,
                     recorded, owed, lost, starts>>
  BY DEF Midnight, queue, ghosts, Walk, Clean
<1>2. Floor \in Int /\ Floor' = Floor + 1
  BY <1>1, ConstantsAreTyped DEF Floor
<1>3. Clean'
  BY <1>1 DEF Walk, Clean
<1>4. Fresh'
  <2>1. \A v \in Worker : task[v].floor \in Int
    BY DEF Walk, Clean
  <2>2. \A v \in Worker : task[v].row # Null => task[v].loaded = cursor /\ task[v].floor <= Floor'
    BY <1>2, <2>1 DEF Walk, Fresh
  <2> QED
    BY <1>1, <2>2 DEF Walk, Fresh, Formed, Fits, Everything
<1>5. \A r \in owed : Day[r] >= Floor' => Day[r] >= Floor
  BY <1>2, ConstantsAreTyped DEF Walk, Clean
<1>6. Stored'
  BY <1>1, <1>5 DEF Walk, Stored, NoGap, Fetchable, Passed, Position, Listing
<1> QED
  BY <1>1, <1>3, <1>4, <1>6
-------------------------------------------------------------------------------
(* What NeverTurnsBack says of a step.                                     *)
GoesOn == cursor.status = "running" /\ cursor'.status = "running" => Ahead(cursor, cursor')

LEMMA StaysAhead == ASSUME Walk, cursor' = cursor PROVE GoesOn
<1>1. cursor.page \in Int
  BY CursorIsTyped DEF Walk, Clean
<1> QED
  BY <1>1 DEF GoesOn, Ahead

LEMMA InitWalk == ASSUME Init PROVE Walk
<1>1. Clean
  BY ConstantsAreTyped, StoppedIsTyped, IdleIsTyped DEF Init, Clean
<1>2. Fresh
  BY StoppedIsTyped, IdleIsTyped DEF Init, Fresh
<1>3. Stored
  BY StoppedIsTyped DEF Init, Stored, NoGap
<1> QED
  BY <1>1, <1>2, <1>3, InitSingle, InitDates DEF Walk

LEMMA NextWalk == ASSUME Fault = {}, Roomy, Walk, [Next]_vars PROVE Walk' /\ GoesOn
<1>1. Single' /\ Dates'
  BY NextSingle, NextDates DEF Walk
<1>2. ASSUME NEW v \in Worker, Handle(v) PROVE Clean' /\ Fresh' /\ Stored' /\ GoesOn
  BY <1>2, NarrowWalk, StorePageWalk, UnreadableWalk DEF Handle, GoesOn
<1>3. ASSUME NEW v \in Worker PROVE ~DeadLetter(v) /\ ~ReapEarly(v)
  BY DEF DeadLetter, ReapEarly
<1>4. ASSUME NEW v \in Worker, Wake(v) \/ Retry(v) PROVE Clean' /\ Fresh' /\ Stored' /\ GoesOn
  BY <1>4, WakeWalk, RetryWalk, StaysAhead
<1>5. ASSUME NEW o \in Operator, StartLoad(o) \/ StartCheck(o) \/ StartCommit(o)
      PROVE  Clean' /\ Fresh' /\ Stored' /\ GoesOn
  BY <1>5, StartWalk, StartCommitWalk, StaysAhead DEF GoesOn
<1>6. ASSUME NEW q \in Run, NewRun(q) PROVE Clean' /\ Fresh' /\ Stored' /\ GoesOn
  BY <1>6, NewRunWalk, StaysAhead
<1>7. CASE Midnight
  BY <1>1, <1>7, MidnightWalk, StaysAhead DEF Walk
<1>8. CASE Rest \/ UNCHANGED vars
  <2>1. UNCHANGED <<today, listed, cursor, pending, processing, task, starter,
                    recorded, owed, lost, starts>>
    BY <1>8 DEF Rest, vars, github, queue, ghosts
  <2>2. Clean' /\ Fresh' /\ Stored'
    BY <2>1
    DEF Walk, Clean, Fresh, Stored, Formed, Fits, Everything, NoGap, Floor, Fetchable,
        Passed, Position, Listing
  <2> QED
    BY <1>1, <2>1, <2>2, StaysAhead DEF Walk
<1> QED
  BY <1>1, <1>2, <1>3, <1>4, <1>5, <1>6, <1>7, <1>8 DEF Next, Walk

LEMMA WalkIsInvariant == ASSUME Fault = {}, Roomy PROVE Safety => []Walk
<1>1. Init => Walk
  BY InitWalk
<1>2. Walk /\ [Next]_vars => Walk'
  BY NextWalk
<1> QED
  BY <1>1, <1>2, PTL DEF Safety

(* With one walk at a time the cursor, the tasks and the starters are what  *)
(* TypeOK says: a window never ends before it begins.                       *)
THEOREM TypeCorrectness == ASSUME Fault = {}, Roomy PROVE Safety => []TypeOK
<1>1. Walk => TypeOK
  BY DEF Walk, Clean, Fresh, Formed, TypeOK
<1> QED
  BY <1>1, WalkIsInvariant, PTL

(* Whatever the history, the size of windows and pages and the cap, however *)
(* often a page is retried and whatever is created meanwhile: a walk that   *)
(* is done has every run it could have, as backfill.py promises, unless the *)
(* newest window outgrew the cap while it was walked.                       *)
THEOREM NothingIsSkipped == ASSUME Fault = {}, Roomy PROVE Safety => []NoGap
<1>1. Walk => NoGap
  BY DEF Walk, Stored
<1> QED
  BY <1>1, WalkIsInvariant, PTL

(* A walk under way goes from newer days to older ones, whatever fails.     *)
THEOREM WalkGoesOn == ASSUME Fault = {}, Roomy PROVE Safety => NeverTurnsBack
<1>1. Walk /\ [Next]_vars =>
        [cursor.status = "running" /\ cursor'.status = "running" => Ahead(cursor, cursor')]_vars
  BY NextWalk DEF GoesOn
<1>2. Safety => [][Next]_vars
  BY DEF Safety
<1> QED
  BY <1>1, <1>2, WalkIsInvariant, PTL DEF NeverTurnsBack
===============================================================================
