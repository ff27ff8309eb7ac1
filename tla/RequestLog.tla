------------------------------ MODULE RequestLog ------------------------------
(***************************************************************************)
(* The request log as its readers see it: the pages of GET /admin/requests *)
(* and the figures of GET /admin/stats (internal/httpapi/admin.go), over    *)
(* the table requests (internal/store/sqlite.go, stats.go), while chat      *)
(* requests go on writing rows.                                             *)
(*                                                                          *)
(* A row carries the millisecond in which its request started, and is       *)
(* written when the request ends: rows arrive out of order, and several may *)
(* share a millisecond.  The pages are cut by time alone.                   *)
(*                                                                          *)
(* One client makes one use of the log, a walk over its pages or a call for *)
(* the figures; readers do not affect each other.                           *)
(***************************************************************************)
EXTENDS Integers, FiniteSets, FiniteSetsExt

CONSTANTS
    Chats,          \* the chat requests
    Usage,          \* Usage[c]: the model and the tokens of c's row
    Price,          \* Price[m]: what a token of a priced model costs, in and out
    Limits,         \* values of ?limit=; an integer out of range for those that are none
    NoParam,        \* a query parameter that is absent
    DefaultLimit,   \* 50
    MaxLimit,       \* 500
    Windows,        \* values of ?days=
    DefaultWindow,  \* 30
    MaxWindow,      \* 365
    DayLength,      \* milliseconds of a day
    MaxTime         \* bound of the clock

ASSUME LogAssumption ==
    /\ IsFiniteSet(Chats)
    /\ Limits \subseteq Int \cup {NoParam}
    /\ NoParam \notin Int
    /\ DefaultLimit \in Nat \ {0}
    /\ MaxLimit \in Nat \ {0}
    /\ DayLength \in Nat \ {0}
    /\ MaxTime \in Nat

\* Token counts are an upstream's, which counts from zero; prices are a table of
\* the program (internal/pricing), none below zero, in a unit that makes them whole.
ASSUME UsageAssumption ==
    /\ \A c \in Chats : Usage[c].prompt \in Nat /\ Usage[c].completion \in Nat
    /\ \A m \in DOMAIN Price : Price[m].input \in Nat /\ Price[m].output \in Nat
    /\ DefaultWindow \in Nat \ {0}
    /\ MaxWindow \in Nat

VARIABLES
    now,        \* the clock of the gateway, in milliseconds
    state,      \* state[c]: "new", "running", or what became of its row: "logged", "lost"
    started,    \* started[c]: when the handler of c began
    status,     \* status[c]: of its row, "ok" (2xx) or "failed"
    client,     \* where the reader's use of the log stands
    limit,      \* of its pages, as the handler understood it
    before,     \* the cursor the next page is asked with
    page,       \* the last page
    met,        \* the rows of all its pages
    owed,       \* the rows it has to meet: of the past when it began, or
                \*     logged before the cursor had passed them
    cursors,    \* the values of next_before it was given
    begin,      \* the clock and the rows when the handler of the figures began
    dayStart,   \* its startOfToday
    total,      \* its total_usd
    today,      \* its today_usd
    byDay       \* the requests of its by_day
                \*     (owed, cursors and begin are history: no guard reads them)

chatVars  == <<state, started, status>>
walkVars  == <<limit, before, page, met, owed, cursors>>
statsVars == <<begin, dayStart, total, today, byDay>>
vars      == <<now, chatVars, client, walkVars, statsVars>>

Rows == {c \in Chats : state[c] = "logged"}

NoDay == [d \in {} |-> 0]

Init == /\ now      = 0
        /\ state    = [c \in Chats |-> "new"]
        /\ started  = [c \in Chats |-> 0]
        /\ status   = [c \in Chats |-> "ok"]
        /\ client   = "idle"
        /\ limit    = DefaultLimit
        /\ before   = 0
        /\ page     = {}
        /\ met      = {}
        /\ owed     = {}
        /\ cursors  = {}
        /\ begin    = [at |-> 0, rows |-> {}]
        /\ dayStart = 0
        /\ total    = 0
        /\ today    = 0
        /\ byDay    = NoDay

Tick == /\ now < MaxTime
        /\ now' = now + 1
        /\ UNCHANGED <<chatVars, client, walkVars, statsVars>>
-----------------------------------------------------------------------------
\* The chat handler: started is read first, the row written last.
Arrive(c) == /\ state[c] = "new"
             /\ state'   = [state EXCEPT ![c] = "running"]
             /\ started' = [started EXCEPT ![c] = now]
             /\ UNCHANGED <<now, status, client, walkVars, statsVars>>

Log(c) == /\ state[c] = "running"
          /\ state' = [state EXCEPT ![c] = "logged"]
          /\ \E s \in {"ok", "failed"} : status' = [status EXCEPT ![c] = s]
          /\ owed' = IF client = "walking" /\ started[c] < before
                     THEN owed \cup {c} ELSE owed
          /\ UNCHANGED <<now, started, client, limit, before, page, met, cursors, statsVars>>

\* The insert fails, which is only printed.
LogFails(c) == /\ state[c] = "running"
               /\ state' = [state EXCEPT ![c] = "lost"]
               /\ UNCHANGED <<now, started, status, client, walkVars, statsVars>>
-----------------------------------------------------------------------------
\* GET /admin/requests
Least(a, b) == IF a < b THEN a ELSE b

\* Mutation: a limit of zero is accepted.
RefusedBelowZero(v) == v # NoParam /\ v < 0

Refused(v) == v # NoParam /\ v <= 0
LimitOf(v) == IF v = NoParam THEN DefaultLimit ELSE Least(v, MaxLimit)

\* Mutation: the cursor is inclusive.
OlderOrSame(b) == {c \in Rows : started[c] <= b}

Older(b) == {c \in Rows : started[c] < b}

\* Mutation: the rows come back in no order.
UnorderedPages(n, b) == {p \in SUBSET Older(b) :
                            Cardinality(p) = Least(n, Cardinality(Older(b)))}

\* The n newest of the rows older than b; which ones of a millisecond is open.
List(n, b) == {p \in SUBSET Older(b) :
                  /\ Cardinality(p) = Least(n, Cardinality(Older(b)))
                  /\ \A r \in p, s \in Older(b) \ p : started[r] >= started[s]}

\* A client begins with no cursor: the handler reads the clock.
StartWalk == /\ client = "idle"
             /\ \E v \in Limits :
                    IF Refused(v)
                    THEN client' = "refused" /\ UNCHANGED <<limit, before, owed>>
                    ELSE /\ client' = "walking"
                         /\ limit'  = LimitOf(v)
                         /\ before' = now
                         /\ owed'   = Older(now)
             /\ UNCHANGED <<now, chatVars, page, met, cursors, statsVars>>

\* The time of the last entry of a page.
Oldest(p) == {t \in {started[r] : r \in p} : \A r \in p : t <= started[r]}

\* The handler's query and its answer.  A full page comes with the time of its
\* oldest row, which the client passes on as the cursor of the next.
NextPage == /\ client = "walking"
            /\ \E p \in List(limit, before) :
                   /\ page' = p
                   /\ met'  = met \cup p
                   /\ IF Cardinality(p) = limit /\ p # {}
                      THEN \E t \in Oldest(p) : /\ before'  = t
                                                /\ cursors' = cursors \cup {t}
                                                /\ UNCHANGED client
                      ELSE /\ client' = "finished"
                           /\ UNCHANGED <<before, cursors>>
            /\ UNCHANGED <<now, chatVars, limit, owed, statsVars>>

\* The query fails (500), or the client does not ask for the next page.
WalkBreaksOff == /\ client = "walking"
                 /\ client' = "refused"
                 /\ UNCHANGED <<now, chatVars, walkVars, statsVars>>
-----------------------------------------------------------------------------
\* GET /admin/stats
Day(t) == t \div DayLength

Prompt(S)     == SumFunctionOnSet([c \in Chats |-> Usage[c].prompt], S)
Completion(S) == SumFunctionOnSet([c \in Chats |-> Usage[c].completion], S)

\* internal/pricing
USD(m, prompt, completion) ==
    IF m \in DOMAIN Price
    THEN prompt * Price[m].input + completion * Price[m].output ELSE 0

\* The rows each group of the query sums up.
StatsByModel(since) ==
    LET rows == {c \in Rows : Usage[c].model # "" /\ status[c] = "ok" /\ started[c] >= since}
    IN  [m \in {Usage[c].model : c \in rows} |-> {c \in rows : Usage[c].model = m}]

\* What the handler adds up: a group's tokens at the price of its model.
SumUSD(groups) ==
    SumFunction([m \in DOMAIN groups |-> USD(m, Prompt(groups[m]), Completion(groups[m]))])

\* All rows, failed ones included.
StatsByDay(days) ==
    LET rows == {c \in Rows : started[c] >= now - days * DayLength}
    IN  [d \in {Day(started[c]) : c \in rows} |-> Cardinality({c \in rows : Day(started[c]) = d})]

WindowOf(v) == IF v # NoParam /\ v \in 1..MaxWindow THEN v ELSE DefaultWindow

\* Each query is a step; the clock is read between the first and the second.
AskStats == /\ client = "idle"
            /\ client' = "totals"
            /\ begin' = [at |-> now, rows |-> Rows]
            /\ UNCHANGED <<now, chatVars, walkVars, dayStart, total, today, byDay>>

Totals == /\ client = "totals"
          /\ total' = SumUSD(StatsByModel(-1))
          /\ client' = "clock"
          /\ UNCHANGED <<now, chatVars, walkVars, begin, dayStart, today, byDay>>

\* Mutation: a day back instead of the start of the day.
DayBack == /\ client = "clock"
           /\ dayStart' = now - DayLength
           /\ client' = "today"
           /\ UNCHANGED <<now, chatVars, walkVars, begin, total, today, byDay>>

StartOfToday == /\ client = "clock"
                /\ dayStart' = Day(now) * DayLength
                /\ client' = "today"
                /\ UNCHANGED <<now, chatVars, walkVars, begin, total, today, byDay>>

Today == /\ client = "today"
         /\ today' = SumUSD(StatsByModel(dayStart))
         /\ client' = "days"
         /\ UNCHANGED <<now, chatVars, walkVars, begin, dayStart, total, byDay>>

Days == /\ client = "days"
        /\ \E v \in Windows : byDay' = StatsByDay(WindowOf(v))
        /\ client' = "answered"
        /\ UNCHANGED <<now, chatVars, walkVars, begin, dayStart, total, today>>

StatsFail == /\ client \in {"totals", "today", "days"}
             /\ client' = "refused"
             /\ UNCHANGED <<now, chatVars, walkVars, statsVars>>
-----------------------------------------------------------------------------
Chat(c)    == Arrive(c) \/ Log(c) \/ LogFails(c)
Pages      == StartWalk \/ NextPage \/ WalkBreaksOff
Statistics == AskStats \/ Totals \/ StartOfToday \/ Today \/ Days \/ StatsFail

Next == Tick \/ (\E c \in Chats : Chat(c)) \/ Pages \/ Statistics

Spec == Init /\ [][Next]_vars

\* A query that was asked is answered, and the client asks for the next page.
Fairness == WF_vars(NextPage \/ WalkBreaksOff)

FairSpec == Spec /\ Fairness
-----------------------------------------------------------------------------
Clients == {"idle", "walking", "finished", "refused",
            "totals", "clock", "today", "days", "answered"}

TypeOK == /\ now      \in Nat
          /\ state    \in [Chats -> {"new", "running", "logged", "lost"}]
          /\ started  \in [Chats -> Nat]
          /\ status   \in [Chats -> {"ok", "failed"}]
          /\ client   \in Clients
          /\ limit    \in Nat \ {0}
          /\ before   \in Nat
          /\ page     \subseteq Chats
          /\ met      \subseteq Chats
          /\ owed     \subseteq Chats
          /\ cursors  \subseteq Nat
          /\ begin    \in [at : Nat, rows : SUBSET Chats]
          /\ dayStart \in Int
          /\ total    \in Nat
          /\ today    \in Nat
          /\ \A d \in DOMAIN byDay : byDay[d] \in Nat

\* A client that follows next_before to the end has met every row that was there
\* when it began, and every row that was logged before the walk was past its
\* time; the only rows it may lack share their millisecond with the end of a
\* page, since the next page begins strictly before that millisecond.
NothingMissed ==
    client = "finished" => \A r \in owed \ met : started[r] \in cursors

\* The pages go back in time: a page has no row of an earlier one, and none that
\* is as new, however many rows were logged in between and whenever they started.
PagesDescend ==
    [][client = "walking" /\ page' # page =>
           \A r \in met, s \in page' : started[s] < started[r]]_vars

\* A client that follows next_before gets to the end, or to an error.
WalksEnd == (client = "walking") ~> (client # "walking")

\* What requests cost, each by itself.
Cost(S) ==
    LET usd == [c \in Chats |-> USD(Usage[c].model, Usage[c].prompt, Usage[c].completion)]
    IN  SumFunctionOnSet(usd, S)

Good(S) == {c \in S : status[c] = "ok" /\ Usage[c].model # ""}

OfDay(S, d) == {c \in S : Day(started[c]) = d}

\* The figures come from queries of different moments, but each is what the log
\* came to at some moment of the handler: total_usd has what successful requests
\* had cost when it began, and at most what they have cost by the end.  today_usd
\* has the requests of the day at the end that were logged when the handler began,
\* and none of before the day of its beginning, midnight in between or not.  And
\* by_day has no more of any day than there are, and of the day at the end no
\* fewer than were logged when the handler began.
FiguresAreOfTheirTime ==
    client = "answered" =>
        /\ Cost(Good(begin.rows)) <= total
        /\ total <= Cost(Good(Rows))
        /\ Cost(OfDay(Good(begin.rows), Day(now))) <= today
        /\ today <= Cost({c \in Good(Rows) : Day(started[c]) >= Day(begin.at)})
        /\ \A d \in DOMAIN byDay : byDay[d] <= Cardinality(OfDay(Rows, d))
        /\ OfDay(begin.rows, Day(now)) # {} =>
               /\ Day(now) \in DOMAIN byDay
               /\ Cardinality(OfDay(begin.rows, Day(now))) <= byDay[Day(now)]
==============================================================================
