--------------------------- MODULE RequestLogProofs ---------------------------
(***************************************************************************)
(* The walk over the pages of the request log, and the figures of its      *)
(* statistics, for any chats, limits, prices and times.                    *)
(*                                                                         *)
(* NothingMissed is not inductive: half way, the rows owed and not met are *)
(* still below the cursor, or tie with one.  Walk says that, and that the  *)
(* rows met are not below the cursor.                                      *)
(*                                                                         *)
(* FiguresAreOfTheirTime compares figures with costs, and costs alone do   *)
(* not carry over from step to step.  Figures names the rows: each figure  *)
(* is the cost of some set between the rows of the beginning and those of  *)
(* now.                                                                    *)
(***************************************************************************)
EXTENDS RequestLog, SumTheorems

Walk == /\ met  \subseteq Rows
        /\ owed \subseteq Rows
        /\ client = "idle" => met = {} /\ owed = {}
        /\ client = "walking" =>
               /\ \A r \in met : before <= started[r]
               /\ \A r \in owed \ met : started[r] < before \/ started[r] \in cursors
        /\ NothingMissed

\* What one step of the walk needs of the page it gets.
LEMMA PageFacts ==
  ASSUME TypeOK, NEW p \in List(limit, before)
  PROVE  /\ p \subseteq Rows
         /\ \A r \in p : started[r] < before
         /\ \/ p = Older(before)
            \/ Cardinality(p) = limit /\ p # {}
         /\ \A r \in p, s \in Older(before) \ p : started[s] <= started[r]
<1>1. /\ p \subseteq Older(before)
      /\ Cardinality(p) = Least(limit, Cardinality(Older(before)))
      /\ \A r \in p, s \in Older(before) \ p : started[r] >= started[s]
  BY DEF List
<1>2. Older(before) \subseteq Rows /\ Rows \subseteq Chats
  BY DEF Older, Rows
<1>3. IsFiniteSet(Older(before))
  BY <1>2, LogAssumption, FS_Subset
<1>4. Cardinality(p) = Cardinality(Older(before)) \/ Cardinality(p) = limit
  BY <1>1 DEF Least
<1>5. Cardinality(p) = Cardinality(Older(before)) => p = Older(before)
  BY <1>1, <1>3, FS_Subset
<1>6. Cardinality(p) = limit => p # {}
  BY FS_EmptySet DEF TypeOK
<1>7. \A r \in Older(before) : started[r] < before
  BY DEF Older
<1>8. \A r \in p, s \in Older(before) \ p : started[s] <= started[r]
  BY <1>1, <1>2 DEF TypeOK
<1> QED
  BY <1>1, <1>2, <1>4, <1>5, <1>6, <1>7, <1>8

-----------------------------------------------------------------------------
(***************************************************************************)
(* Sums of tokens and of costs.                                            *)
(***************************************************************************)
\* A set of requests costs something, none of them less than nothing.
LEMMA CostOfSome ==
  ASSUME NEW S \in SUBSET Chats
  PROVE  /\ IsFiniteSet(S)
         /\ Cost(S) \in Nat
         /\ Prompt(S) \in Nat
         /\ Completion(S) \in Nat
         /\ \A A \in SUBSET S : Cost(A) <= Cost(S)
<1> DEFINE prompt == [c \in Chats |-> Usage[c].prompt]
           completion == [c \in Chats |-> Usage[c].completion]
           usd == [c \in Chats |-> USD(Usage[c].model, Usage[c].prompt, Usage[c].completion)]
<1>1. /\ \A c \in Chats : prompt[c] \in Nat /\ completion[c] \in Nat
      /\ \A c \in Chats : usd[c] \in Nat
  <2>1. \A p, q \in Nat : p * q \in Nat
    OBVIOUS
  <2> QED
    BY UsageAssumption, <2>1 DEF USD
<1>2. /\ Prompt(S) = SumFunctionOnSet(prompt, S)
      /\ Completion(S) = SumFunctionOnSet(completion, S)
      /\ \A A \in SUBSET S : Cost(A) = SumFunctionOnSet(usd, A)
  BY DEF Prompt, Completion, Cost
<1>3. IsFiniteSet(S)
  BY LogAssumption, FS_Subset
<1> HIDE DEF prompt, completion, usd
<1>4. ASSUME NEW f, \A c \in Chats : f[c] \in Nat
      PROVE  /\ SumFunctionOnSet(f, S) \in Nat
             /\ \A A \in SUBSET S : SumFunctionOnSet(f, A) <= SumFunctionOnSet(f, S)
  <2>1. \A c \in S : f[c] \in Int /\ f[c] \in Nat
    BY <1>4
  <2>2. SumFunctionOnSet(f, S) \in Int
    BY <1>3, <2>1, SumPicked
  <2>3. SumFunctionOnSet(f, {}) = 0
    BY SumPicked, FS_EmptySet
  <2>4. \A A \in SUBSET S : SumFunctionOnSet(f, A) <= SumFunctionOnSet(f, S)
    BY <1>3, <2>1, SumGrows
  <2>5. SumFunctionOnSet(f, {}) <= SumFunctionOnSet(f, S)
    BY <2>4
  <2> QED
    BY <2>2, <2>3, <2>4, <2>5
<1>5. SumFunctionOnSet(prompt, S) \in Nat /\ SumFunctionOnSet(completion, S) \in Nat
  BY <1>1, <1>4
<1>6. /\ SumFunctionOnSet(usd, S) \in Nat
      /\ \A A \in SUBSET S : SumFunctionOnSet(usd, A) <= SumFunctionOnSet(usd, S)
  BY <1>1, <1>4
<1> QED
  BY <1>2, <1>3, <1>5, <1>6

\* A model's tokens at the price of the model are what its requests cost.
LEMMA CostOfModel ==
  ASSUME NEW m, NEW S \in SUBSET Chats, \A c \in S : Usage[c].model = m
  PROVE  USD(m, Prompt(S), Completion(S)) = Cost(S)
<1> DEFINE prompt == [c \in Chats |-> Usage[c].prompt]
           completion == [c \in Chats |-> Usage[c].completion]
           usd == [c \in Chats |-> USD(Usage[c].model, Usage[c].prompt, Usage[c].completion)]
           a == IF m \in DOMAIN Price THEN Price[m].input ELSE 0
           b == IF m \in DOMAIN Price THEN Price[m].output ELSE 0
<1>1. a \in Int /\ b \in Int
  BY UsageAssumption
<1>2. \A p, q \in Int : USD(m, p, q) = p * a + q * b
  BY DEF USD
<1>3. \A c \in S : /\ prompt[c] \in Int /\ completion[c] \in Int
                   /\ usd[c] = USD(m, prompt[c], completion[c])
  BY UsageAssumption
<1>4. /\ Prompt(S) = SumFunctionOnSet(prompt, S)
      /\ Completion(S) = SumFunctionOnSet(completion, S)
      /\ Cost(S) = SumFunctionOnSet(usd, S)
  BY DEF Prompt, Completion, Cost
<1> HIDE DEF prompt, completion, usd, a, b
<1>5. \A c \in S : /\ prompt[c] \in Int /\ completion[c] \in Int
                   /\ usd[c] = prompt[c] * a + completion[c] * b
  BY <1>2, <1>3
<1>6. IsFiniteSet(S) /\ Prompt(S) \in Nat /\ Completion(S) \in Nat
  BY CostOfSome
<1>7. SumFunctionOnSet(usd, S) =
          SumFunctionOnSet(prompt, S) * a + SumFunctionOnSet(completion, S) * b
  BY <1>1, <1>5, <1>6, SumOfMultiples
<1>8. USD(m, Prompt(S), Completion(S)) = Prompt(S) * a + Completion(S) * b
  BY <1>2, <1>6
<1> QED
  BY <1>4, <1>7, <1>8, Zenon

\* The figure that the handler adds up model by model, from the sums of tokens
\* that the query returns, is what the requests of the query cost one by one.
LEMMA FigureIsCost ==
  ASSUME NEW since
  PROVE  SumUSD(StatsByModel(since)) = Cost({c \in Good(Rows) : started[c] >= since})
<1> DEFINE S == {c \in Rows : Usage[c].model # "" /\ status[c] = "ok" /\ started[c] >= since}
           K == {Usage[c].model : c \in S}
           key == [c \in Chats |-> Usage[c].model]
           Of(m) == {c \in S : key[c] = m}
           usd == [c \in Chats |-> USD(Usage[c].model, Usage[c].prompt, Usage[c].completion)]
           h == [m \in K |-> USD(m, Prompt(Of(m)), Completion(Of(m)))]
<1>1. S = {c \in Good(Rows) : started[c] >= since} /\ S \in SUBSET Chats
  BY DEF Good, Rows
<1>2. \A m \in K : Of(m) = {c \in S : Usage[c].model = m}
  BY <1>1
<1>3. StatsByModel(since) = [m \in K |-> {c \in S : Usage[c].model = m}]
  BY DEF StatsByModel
<1>4. SumUSD(StatsByModel(since)) = SumFunctionOnSet(h, K)
  <2> DEFINE groups == StatsByModel(since)
  <2>1. DOMAIN groups = K /\ \A m \in K : groups[m] = Of(m)
    BY <1>2, <1>3
  <2> HIDE DEF groups, K, Of
  <2>2. h = [m \in DOMAIN groups |-> USD(m, Prompt(groups[m]), Completion(groups[m]))]
    BY <2>1
  <2>3. DOMAIN h = K
    OBVIOUS
  <2> HIDE DEF h
  <2>4. SumUSD(groups) = SumFunctionOnSet(h, DOMAIN h)
    BY <2>2 DEF SumUSD, SumFunction
  <2> QED
    BY <2>3, <2>4 DEF groups
<1>5. IsFiniteSet(S)
  BY <1>1, CostOfSome
<1>6. IsFiniteSet(K)
  <2> DEFINE f == [c \in S |-> Usage[c].model]
  <2>1. f \in Surjection(S, K)
    BY DEF Surjection
  <2> HIDE DEF f, S, K
  <2> QED
    BY <1>5, <2>1, FS_Surjection
<1>7. \A c \in S : usd[c] \in Int /\ key[c] \in K
  <2>1. \A p, q \in Nat : p * q \in Nat
    OBVIOUS
  <2>2. \A c \in Chats : usd[c] \in Int
    BY UsageAssumption, <2>1 DEF USD
  <2> QED
    BY <1>1, <2>2
<1>8. \A T \in SUBSET Chats : Cost(T) = SumFunctionOnSet(usd, T)
  BY DEF Cost
<1>9. ASSUME NEW m \in K PROVE h[m] = SumFunctionOnSet(usd, Of(m))
  <2>1. Of(m) \in SUBSET Chats /\ \A c \in Of(m) : Usage[c].model = m
    BY <1>1
  <2>2. h[m] = USD(m, Prompt(Of(m)), Completion(Of(m)))
    OBVIOUS
  <2> HIDE DEF h, Of, usd, K
  <2>3. USD(m, Prompt(Of(m)), Completion(Of(m))) = Cost(Of(m))
    BY <2>1, CostOfModel
  <2> QED
    BY <1>8, <2>1, <2>2, <2>3
<1>10. \A m \in K : h[m] = SumFunctionOnSet(usd, {c \in S : key[c] = m})
  BY <1>9
<1> HIDE DEF h, usd, K, S, key
<1>11. SumFunctionOnSet(h, K) = SumFunctionOnSet(usd, S)
  BY <1>5, <1>6, <1>7, <1>10, SumOfGroups
<1> QED
  BY <1>1, <1>4, <1>8, <1>11
-----------------------------------------------------------------------------
(***************************************************************************)
(* Types.                                                                  *)
(***************************************************************************)
\* Every variable the log and its readers keep has the values its comment
\* names, for any number of chats.
THEOREM TypeCorrect == Spec => []TypeOK
<1>1. Init => TypeOK
  BY LogAssumption DEF Init, TypeOK, Clients, NoDay
<1>2. ASSUME TypeOK, [Next]_vars PROVE TypeOK'
  <2>1. CASE Tick
    BY <1>2, <2>1 DEF TypeOK, Tick, chatVars, walkVars, statsVars
  <2>2. ASSUME NEW c \in Chats, Chat(c) PROVE TypeOK'
    <3>1. CASE Arrive(c)
      BY <1>2, <3>1 DEF TypeOK, Arrive, walkVars, statsVars
    <3>2. CASE Log(c)
      <4>1. PICK s \in {"ok", "failed"} : status' = [status EXCEPT ![c] = s]
        BY <3>2 DEF Log
      <4>2. state' \in [Chats -> {"new", "running", "logged", "lost"}]
        BY <1>2, <3>2 DEF TypeOK, Log
      <4>3. status' \in [Chats -> {"ok", "failed"}]
        BY <1>2, <4>1 DEF TypeOK
      <4> QED
        BY <1>2, <3>2, <4>2, <4>3 DEF TypeOK, Log, statsVars
    <3>3. CASE LogFails(c)
      BY <1>2, <3>3 DEF TypeOK, LogFails, walkVars, statsVars
    <3> QED
      BY <2>2, <3>1, <3>2, <3>3 DEF Chat
  <2>3. CASE StartWalk
    <3>1. PICK v \in Limits :
              IF Refused(v)
              THEN client' = "refused" /\ UNCHANGED <<limit, before, owed>>
              ELSE /\ client' = "walking"
                   /\ limit'  = LimitOf(v)
                   /\ before' = now
                   /\ owed'   = Older(now)
      BY <2>3 DEF StartWalk
    <3>2. UNCHANGED <<now, chatVars, page, met, cursors, statsVars>>
      BY <2>3 DEF StartWalk
    <3>3. CASE Refused(v)
      BY <1>2, <3>1, <3>2, <3>3 DEF TypeOK, chatVars, statsVars, Clients
    <3>4. CASE ~Refused(v)
      <4>1. LimitOf(v) \in Nat \ {0}
        BY <3>4, LogAssumption DEF Refused, LimitOf, Least
      <4>2. Older(now) \subseteq Chats
        BY DEF Older, Rows
      <4> QED
        BY <1>2, <3>1, <3>2, <3>4, <4>1, <4>2 DEF TypeOK, chatVars, statsVars, Clients
    <3> QED
      BY <3>3, <3>4
  <2>4. CASE NextPage
    <3>1. PICK p \in List(limit, before) :
              /\ page' = p
              /\ met'  = met \cup p
              /\ IF Cardinality(p) = limit /\ p # {}
                 THEN \E t \in Oldest(p) : /\ before'  = t
                                           /\ cursors' = cursors \cup {t}
                                           /\ UNCHANGED client
                 ELSE /\ client' = "finished"
                      /\ UNCHANGED <<before, cursors>>
      BY <2>4 DEF NextPage
    <3>2. p \subseteq Chats
      BY <1>2, PageFacts DEF Rows
    <3>3. \A t \in Oldest(p) : t \in Nat
      BY <1>2, <3>2 DEF Oldest, TypeOK
    <3>4. before' \in Nat /\ cursors' \subseteq Nat /\ client' \in Clients
      BY <1>2, <3>1, <3>3 DEF TypeOK, Clients
    <3> QED
      BY <1>2, <2>4, <3>1, <3>2, <3>4 DEF TypeOK, NextPage, chatVars, statsVars
  <2>5. CASE WalkBreaksOff
    BY <1>2, <2>5 DEF TypeOK, WalkBreaksOff, chatVars, walkVars, statsVars, Clients
  <2>6. CASE AskStats
    <3>1. Rows \subseteq Chats
      BY DEF Rows
    <3> QED
      BY <1>2, <2>6, <3>1 DEF TypeOK, AskStats, chatVars, walkVars, Clients
  <2>7. CASE Totals \/ Today
    <3>1. \A t : Cost({c \in Good(Rows) : started[c] >= t}) \in Nat
      <4>1. \A t : {c \in Good(Rows) : started[c] >= t} \in SUBSET Chats
        BY DEF Good, Rows
      <4> QED
        BY <4>1, CostOfSome
    <3>2. \A t : SumUSD(StatsByModel(t)) \in Nat
      BY <3>1, FigureIsCost
    <3> QED
      BY <1>2, <2>7, <3>2 DEF TypeOK, Totals, Today, chatVars, walkVars, Clients
  <2>10. CASE Days
    <3>1. PICK v \in Windows : byDay' = StatsByDay(WindowOf(v))
      BY <2>10 DEF Days
    <3>2. \A S \in SUBSET Chats : Cardinality(S) \in Nat
      BY CostOfSome, FS_CardinalityType
    <3>3. \A d \in DOMAIN byDay' : byDay'[d] \in Nat
      BY <3>1, <3>2 DEF StatsByDay, Rows
    <3> QED
      BY <1>2, <2>10, <3>3 DEF TypeOK, Days, chatVars, walkVars, Clients
  <2>11. CASE StatsFail
    BY <1>2, <2>11 DEF TypeOK, StatsFail, chatVars, walkVars, statsVars, Clients
  <2>8. CASE StartOfToday
    <3>1. Day(now) * DayLength \in Int
      BY <1>2, LogAssumption DEF TypeOK, Day
    <3> QED
      BY <1>2, <2>8, <3>1 DEF TypeOK, StartOfToday, chatVars, walkVars, Clients
  <2>9. CASE UNCHANGED vars
    BY <1>2, <2>9 DEF TypeOK, vars, chatVars, walkVars, statsVars
  <2> QED
    BY <1>2, <2>1, <2>2, <2>3, <2>4, <2>5, <2>6, <2>7, <2>8, <2>9, <2>10, <2>11
       DEF Next, Pages, Statistics
<1> QED
  BY <1>1, <1>2, PTL DEF Spec

-----------------------------------------------------------------------------
(***************************************************************************)
(* The walk.                                                               *)
(***************************************************************************)
LEMMA WalkStep ==
  ASSUME TypeOK, TypeOK', Walk, [Next]_vars
  PROVE  Walk'
<1>1. ASSUME NEW c \in Chats, Arrive(c) PROVE Walk'
  <2>1. c \notin Rows /\ Rows' = Rows
    BY <1>1 DEF Arrive, Rows, TypeOK
  <2>2. \A r \in Rows : started'[r] = started[r]
    BY <1>1, <2>1 DEF Arrive, TypeOK, Rows
  <2> QED
    BY <1>1, <2>1, <2>2 DEF Walk, Arrive, NothingMissed, walkVars
<1>2. ASSUME NEW c \in Chats, Log(c) PROVE Walk'
  <2>1. c \notin Rows /\ Rows' = Rows \cup {c}
    BY <1>2 DEF Log, Rows, TypeOK
  <2>2. CASE client = "walking" /\ started[c] < before
    BY <1>2, <2>1, <2>2 DEF Walk, Log, NothingMissed
  <2>3. CASE ~(client = "walking" /\ started[c] < before)
    BY <1>2, <2>1, <2>3 DEF Walk, Log, NothingMissed
  <2> QED
    BY <2>2, <2>3
<1>3. ASSUME NEW c \in Chats, LogFails(c) PROVE Walk'
  <2>1. Rows' = Rows
    BY <1>3 DEF LogFails, Rows, TypeOK
  <2> QED
    BY <1>3, <2>1 DEF Walk, LogFails, NothingMissed, walkVars
<1>4. CASE StartWalk
  <2>1. PICK v \in Limits :
            IF Refused(v)
            THEN client' = "refused" /\ UNCHANGED <<limit, before, owed>>
            ELSE /\ client' = "walking"
                 /\ limit'  = LimitOf(v)
                 /\ before' = now
                 /\ owed'   = Older(now)
    BY <1>4 DEF StartWalk
  <2>2. /\ UNCHANGED <<state, started, met, cursors>>
        /\ Rows' = Rows
        /\ met = {}
    BY <1>4 DEF StartWalk, chatVars, Rows, Walk
  <2>3. Older(now) \subseteq Rows /\ \A r \in Older(now) : started[r] < now
    BY DEF Older
  <2> QED
    BY <2>1, <2>2, <2>3 DEF Walk, NothingMissed
<1>5. CASE NextPage
  <2>1. PICK p \in List(limit, before) :
            /\ page' = p
            /\ met'  = met \cup p
            /\ IF Cardinality(p) = limit /\ p # {}
               THEN \E t \in Oldest(p) : /\ before'  = t
                                         /\ cursors' = cursors \cup {t}
                                         /\ UNCHANGED client
               ELSE /\ client' = "finished"
                    /\ UNCHANGED <<before, cursors>>
    BY <1>5 DEF NextPage
  <2>2. /\ client = "walking"
        /\ UNCHANGED <<state, started, owed>>
        /\ Rows' = Rows
    BY <1>5 DEF NextPage, chatVars, Rows
  <2>3. /\ p \subseteq Rows
        /\ \A r \in p : started[r] < before
        /\ \/ p = Older(before)
           \/ Cardinality(p) = limit /\ p # {}
        /\ \A r \in p, s \in Older(before) \ p : started[s] <= started[r]
    BY PageFacts
  <2>4. \A r \in owed \ met' : r \in Older(before) \ p \/ started[r] \in cursors
    BY <2>1, <2>2 DEF Walk, Older
  <2>5. CASE Cardinality(p) = limit /\ p # {}
    <3>1. PICK t \in Oldest(p) : before' = t /\ cursors' = cursors \cup {t} /\ client' = client
      BY <2>1, <2>5
    <3>2. PICK o \in p : t = started[o]
      BY <3>1 DEF Oldest
    <3>3. \A r \in p : t <= started[r]
      BY <3>1 DEF Oldest
    <3>4. \A r \in Rows : started[r] \in Nat /\ before \in Nat
      BY DEF TypeOK, Rows
    <3>5. t < before /\ t \in Nat
      BY <2>3, <3>2, <3>4
    <3>6. \A r \in met' : t <= started[r]
      BY <2>1, <3>3, <3>4, <3>5, <2>2 DEF Walk
    <3>7. \A s \in Older(before) \ p : started[s] < t \/ started[s] = t
      BY <2>3, <3>2, <3>4, <3>5 DEF Older
    <3>8. \A r \in owed' \ met' : started[r] < before' \/ started[r] \in cursors'
      BY <2>2, <2>4, <3>1, <3>7
    <3> QED
      BY <2>1, <2>2, <2>3, <3>1, <3>6, <3>8 DEF Walk, NothingMissed
  <2>6. CASE ~(Cardinality(p) = limit /\ p # {})
    <3>1. p = Older(before) /\ client' = "finished" /\ cursors' = cursors
      BY <2>1, <2>3, <2>6
    <3>2. \A r \in owed' \ met' : started'[r] \in cursors'
      BY <2>2, <2>4, <3>1
    <3> QED
      BY <2>1, <2>2, <2>3, <3>1, <3>2 DEF Walk, NothingMissed
  <2> QED
    BY <2>5, <2>6
<1>6. CASE WalkBreaksOff
  BY <1>6 DEF WalkBreaksOff, chatVars, walkVars, Walk, NothingMissed, Rows
<1>7. CASE Statistics
  BY <1>7 DEF Statistics, AskStats, Totals, StartOfToday, Today, Days, StatsFail,
              chatVars, walkVars, statsVars, Walk, NothingMissed, Rows
<1>8. CASE Tick \/ UNCHANGED vars
  BY <1>8 DEF Tick, vars, chatVars, walkVars, Walk, NothingMissed, Rows
<1> QED
  BY <1>1, <1>2, <1>3, <1>4, <1>5, <1>6, <1>7, <1>8 DEF Next, Chat, Pages

THEOREM WalkHolds == Spec => []Walk
<1>1. Init => Walk
  BY DEF Init, Walk, NothingMissed, Rows
<1> QED
  BY <1>1, WalkStep, TypeCorrect, PTL DEF Spec

\* A finished walk over the pages of GET /admin/requests has met every row it
\* was owed, except rows of a millisecond that ends a page.
THEOREM WalkIsComplete == Spec => []NothingMissed
<1>1. Walk => NothingMissed
  BY DEF Walk
<1> QED
  BY <1>1, WalkHolds, PTL

\* No page of a walk has a row of an earlier page, nor one as new.
THEOREM WalkDescends == Spec => PagesDescend
<1>1. ASSUME TypeOK, Walk, [Next]_vars
      PROVE  [client = "walking" /\ page' # page =>
                  \A r \in met, s \in page' : started[s] < started[r]]_vars
  <2>1. SUFFICES ASSUME client = "walking", page' # page
                 PROVE  \A r \in met, s \in page' : started[s] < started[r]
    OBVIOUS
  <2>2. CASE NextPage
    <3>1. page' \in List(limit, before)
      BY <2>2 DEF NextPage
    <3>2. page' \subseteq Rows /\ \A s \in page' : started[s] < before
      BY <1>1, <3>1, PageFacts
    <3>3. \A r \in met : before <= started[r]
      BY <1>1, <2>1 DEF Walk
    <3>4. before \in Nat /\ \A r \in Rows : started[r] \in Nat
      BY <1>1 DEF TypeOK, Rows
    <3>5. met \subseteq Rows
      BY <1>1 DEF Walk
    <3> QED
      BY <3>2, <3>3, <3>4, <3>5
  <2>3. CASE ~NextPage
    BY <1>1, <2>1, <2>3 DEF Next, Tick, Chat, Arrive, Log, LogFails, Pages, StartWalk, WalkBreaksOff,
        Statistics, AskStats, Totals, StartOfToday, Today, Days, StatsFail, walkVars, vars
  <2> QED
    BY <2>2, <2>3
<1> QED
  BY <1>1, TypeCorrect, WalkHolds, PTL DEF Spec, PagesDescend

\* What makes a walk end: each of its pages is the last or lowers the cursor, a
\* natural number, however many rows are logged between the pages, and whenever
\* their requests started.
THEOREM WalkGoesBack ==
    Spec => [][NextPage => \/ client' = "finished" /\ before' = before
                           \/ before' \in Nat /\ before' < before]_vars
<1>1. ASSUME TypeOK, [Next]_vars
      PROVE  NextPage => \/ client' = "finished" /\ before' = before
                         \/ before' \in Nat /\ before' < before
  <2>1. SUFFICES ASSUME NextPage
                 PROVE  \/ client' = "finished" /\ before' = before
                        \/ before' \in Nat /\ before' < before
    OBVIOUS
  <2>2. PICK p \in List(limit, before) :
            IF Cardinality(p) = limit /\ p # {}
            THEN \E t \in Oldest(p) : before' = t
            ELSE client' = "finished" /\ before' = before
    BY <2>1 DEF NextPage
  <2>3. p \subseteq Rows /\ \A r \in p : started[r] < before
    BY <1>1, PageFacts
  <2>4. \A t \in Oldest(p) : t \in Nat /\ t < before
    BY <1>1, <2>3 DEF Oldest, TypeOK, Rows
  <2> QED
    BY <2>2, <2>4
<1> QED
  BY <1>1, TypeCorrect, PTL DEF Spec

-----------------------------------------------------------------------------
(***************************************************************************)
(* The figures.                                                            *)
(***************************************************************************)
Asked == {"totals", "clock", "today", "days", "answered"}

\* What a query that ran since the handler began may have seen.
Seen == {R \in SUBSET Rows : begin.rows \subseteq R}

Since(t, S) == {c \in S : started[c] >= t}

\* What each figure is the sum of, from the query it came from to the answer.
Figures ==
    /\ \A c \in Chats : started[c] <= now
    /\ client \in Asked =>
           /\ begin.rows \in Seen
           /\ begin.at <= now
           /\ \A c \in begin.rows : started[c] <= begin.at
    /\ client \in Asked \ {"totals"} => \E R \in Seen : total = Cost(Good(R))
    /\ client \in {"today", "days", "answered"} =>
           \E d \in 0..Day(now) : Day(begin.at) <= d /\ dayStart = d * DayLength
    /\ client \in {"days", "answered"} =>
           \E R \in Seen : today = Cost(Since(dayStart, Good(R)))
    /\ client = "answered" =>
           /\ \A d \in DOMAIN byDay : byDay[d] <= Cardinality(OfDay(Rows, d))
           /\ OfDay(begin.rows, Day(now)) # {} =>
                  /\ Day(now) \in DOMAIN byDay
                  /\ Cardinality(OfDay(begin.rows, Day(now))) <= byDay[Day(now)]

\* The day of a time.
LEMMA DayOf ==
  ASSUME NEW t \in Nat
  PROVE  /\ Day(t) \in Nat
         /\ Day(t) * DayLength <= t
         /\ t < Day(t) * DayLength + DayLength
         /\ Day(t) * DayLength \in Nat
<1>1. DayLength \in Nat /\ DayLength > 0
  BY LogAssumption
<1>2. Day(t) \in Nat
  BY <1>1 DEF Day
<1>3. t = Day(t) * DayLength + (t % DayLength) /\ t % DayLength \in 0..(DayLength - 1)
  BY <1>1 DEF Day
<1>4. Day(t) * DayLength \in Nat
  <2>1. \A p, q \in Nat : p * q \in Nat
    OBVIOUS
  <2> QED
    BY <1>1, <1>2, <2>1
<1> QED
  BY <1>1, <1>2, <1>3, <1>4

\* Days follow each other.
LEMMA DaysInOrder ==
  ASSUME NEW d \in Nat, NEW t \in Nat
  PROVE  d <= Day(t) <=> d * DayLength <= t
<1>1. DayLength \in Nat /\ DayLength >= 1 /\ DayLength > 0
  BY LogAssumption
<1> DEFINE e == Day(t)
<1>2. e \in Nat /\ e * DayLength <= t /\ t < e * DayLength + DayLength /\ e * DayLength \in Nat
  BY DayOf
<1> HIDE DEF e
<1>3. \A p, q, r \in Nat : p <= q => p * r <= q * r
  OBVIOUS
<1>4. d * DayLength \in Nat
  <2>1. \A p, q \in Nat : p * q \in Nat
    OBVIOUS
  <2> QED
    BY <1>1, <2>1
<1>5. CASE d <= e
  BY <1>1, <1>2, <1>3, <1>4, <1>5 DEF e
<1>6. CASE d > e
  <2>1. e + 1 \in Nat /\ e + 1 <= d
    BY <1>2, <1>6
  <2>2. (e + 1) * DayLength <= d * DayLength
    BY <1>1, <1>3, <2>1
  <2>3. (e + 1) * DayLength = e * DayLength + DayLength
    BY <1>1, <1>2
  <2> QED
    BY <1>1, <1>2, <1>4, <1>6, <2>2, <2>3 DEF e
<1> QED
  BY <1>2, <1>5, <1>6

\* A later time is of a later day or the same.
LEMMA LaterDays ==
  ASSUME NEW s \in Nat, NEW t \in Nat, s <= t
  PROVE  Day(s) <= Day(t)
<1>1. Day(s) \in Nat /\ Day(s) * DayLength <= s /\ Day(s) * DayLength \in Nat
  BY DayOf
<1>2. Day(s) * DayLength <= t
  BY <1>1
<1> QED
  BY <1>1, <1>2, DaysInOrder

\* What rows that stay as they are come to, stays.
LEMMA SameRows ==
  ASSUME NEW R, \A c \in R : started'[c] = started[c] /\ status'[c] = status[c]
  PROVE  /\ Good(R)' = Good(R)
         /\ \A t : Since(t, Good(R))' = Since(t, Good(R))
         /\ \A d : OfDay(R, d)' = OfDay(R, d)
  BY DEF Good, Since, OfDay, Day

\* The figures a handler has got are not touched by chats, by the clock and by
\* other readers.
LEMMA FiguresStay ==
  ASSUME TypeOK, TypeOK', Figures, Rows \subseteq Rows',
         \A c \in Rows : started'[c] = started[c] /\ status'[c] = status[c],
         now <= now', \A c \in Chats : started'[c] <= now',
         UNCHANGED statsVars, client' = client \/ client' \notin Asked
  PROVE  Figures'
<1> USE DEF statsVars
<1>1. CASE client' \notin Asked
  BY <1>1 DEF Figures, Asked
<1>2. CASE client' = client /\ client \in Asked
  <2>1. \A R \in Seen : R \in Seen'
    BY DEF Seen
  <2>2. \A R \in SUBSET Rows : Cost(R)' = Cost(R)
    BY DEF Cost
  <2>3. begin.rows \in Seen /\ begin.at <= now /\ \A c \in begin.rows : started[c] <= begin.at
    BY <1>2 DEF Figures
  <2>4. begin.rows' \in Seen' /\ begin'.at <= now' /\ \A c \in begin'.rows : started'[c] <= begin'.at
    BY <2>1, <2>3 DEF Seen, TypeOK
  <2>5. client \in Asked \ {"totals"} => \E R \in Seen' : total' = Cost(Good(R))'
    <3>1. SUFFICES ASSUME NEW R \in Seen, total = Cost(Good(R))
                   PROVE  R \in Seen' /\ total' = Cost(Good(R))'
      BY <1>2 DEF Figures
    <3>2. Good(R)' = Good(R)
      BY SameRows DEF Seen
    <3> QED
      BY <2>1, <3>1, <3>2 DEF Cost
  <2>6. client \in {"days", "answered"} => \E R \in Seen' : today' = Cost(Since(dayStart, Good(R)))'
    <3>1. SUFFICES ASSUME NEW R \in Seen, today = Cost(Since(dayStart, Good(R)))
                   PROVE  R \in Seen' /\ today' = Cost(Since(dayStart, Good(R)))'
      BY <1>2 DEF Figures
    <3>2. Since(dayStart, Good(R))' = Since(dayStart, Good(R))
      BY SameRows DEF Seen, Since
    <3> QED
      BY <2>1, <3>1, <3>2 DEF Cost
  <2>7. Day(now) <= Day(now)' /\ Day(now) \in Nat /\ Day(now)' \in Nat /\ Day(begin.at)' = Day(begin.at)
    <3>1. now \in Nat /\ now' \in Nat
      BY DEF TypeOK
    <3> QED
      BY <3>1, LaterDays, DayOf DEF Day
  <2>8. client \in {"today", "days", "answered"} =>
            \E d \in 0..Day(now)' : Day(begin.at)' <= d /\ dayStart' = d * DayLength
    BY <1>2, <2>7 DEF Figures
  <2>9. ASSUME client = "answered"
        PROVE  /\ \A d \in DOMAIN byDay : byDay[d] <= Cardinality(OfDay(Rows, d))'
               /\ OfDay(begin.rows, Day(now))' # {} =>
                      /\ Day(now)' \in DOMAIN byDay
                      /\ Cardinality(OfDay(begin.rows, Day(now)))' <= byDay[Day(now)']
    <3>1. ASSUME NEW d \in DOMAIN byDay PROVE byDay[d] <= Cardinality(OfDay(Rows, d))'
      <4>1. byDay[d] <= Cardinality(OfDay(Rows, d)) /\ byDay[d] \in Nat
        BY <2>9 DEF Figures, TypeOK
      <4>2. OfDay(Rows, d) \subseteq OfDay(Rows, d)' /\ OfDay(Rows, d)' \in SUBSET Chats
        BY DEF OfDay, Day, Rows
      <4>3. IsFiniteSet(OfDay(Rows, d)')
        BY <4>2, LogAssumption, FS_Subset
      <4>4. /\ Cardinality(OfDay(Rows, d)) <= Cardinality(OfDay(Rows, d)')
            /\ Cardinality(OfDay(Rows, d)) \in Nat /\ Cardinality(OfDay(Rows, d)') \in Nat
        BY <4>2, <4>3, FS_Subset, FS_CardinalityType
      <4> QED
        BY <4>1, <4>4
    <3>2. ASSUME OfDay(begin.rows, Day(now))' # {} PROVE Day(now)' = Day(now)
      <4>1. PICK c \in begin.rows : Day(started[c]) = Day(now)'
        BY <2>3, <3>2 DEF OfDay, Seen, Day
      <4>2. started[c] <= now /\ started[c] \in Nat /\ now \in Nat
        BY <2>3, <4>1 DEF TypeOK, Seen, Rows
      <4>3. Day(started[c]) <= Day(now)
        BY <4>2, LaterDays
      <4> QED
        BY <2>7, <4>1, <4>3
    <3>3. OfDay(begin.rows, Day(now))' = OfDay(begin.rows, Day(now)')
      BY <2>3 DEF OfDay, Day, Seen
    <3> QED
      BY <2>9, <3>1, <3>2, <3>3 DEF Figures
  <2> QED
    BY <1>2, <2>4, <2>5, <2>6, <2>8, <2>9 DEF Figures, Asked
<1>3. CASE client' = client /\ client \notin Asked
  BY <1>3, <1>1
<1> QED
  BY <1>1, <1>2, <1>3

\* Every step keeps the figures: those of the handler by what they read, the
\* others by FiguresStay.
LEMMA FiguresStep == ASSUME TypeOK, TypeOK', Figures, [Next]_vars PROVE Figures'
<1>1. CASE Tick
  <2>1. Rows' = Rows
    BY <1>1 DEF Tick, chatVars, Rows
  <2> QED
    BY <1>1, <2>1, FiguresStay DEF Tick, chatVars, Figures, TypeOK
<1>2. ASSUME NEW c \in Chats, Chat(c) PROVE Figures'
  <2>1. /\ Rows \subseteq Rows' /\ c \notin Rows
        /\ started' \in [Chats -> Nat] /\ now' = now
        /\ \A d \in Chats \ {c} : started'[d] = started[d] /\ status'[d] = status[d]
        /\ started'[c] = started[c] \/ started'[c] = now
        /\ UNCHANGED statsVars /\ client' = client
    <3>1. CASE Arrive(c)
      BY <3>1 DEF Arrive, Rows, TypeOK
    <3>2. CASE Log(c)
      BY <3>2 DEF Log, Rows, TypeOK
    <3>3. CASE LogFails(c)
      BY <3>3 DEF LogFails, Rows, TypeOK
    <3> QED
      BY <1>2, <3>1, <3>2, <3>3 DEF Chat
  <2>2. \A d \in Chats : started'[d] <= now'
    BY <2>1 DEF Figures, TypeOK
  <2>3. \A d \in Rows : started'[d] = started[d] /\ status'[d] = status[d]
    BY <2>1 DEF Rows
  <2>4. now <= now'
    BY <2>1 DEF TypeOK
  <2> QED
    BY <2>1, <2>2, <2>3, <2>4, FiguresStay
<1>3. CASE Pages \/ UNCHANGED vars
  <2>1. /\ Rows' = Rows /\ UNCHANGED <<now, started, status, statsVars>>
        /\ client' = client \/ client' \notin Asked
    BY <1>3 DEF Pages, StartWalk, NextPage, WalkBreaksOff, vars, chatVars, Rows, Asked
  <2>2. now <= now' /\ \A c \in Chats : started'[c] <= now'
    BY <2>1 DEF Figures, TypeOK
  <2> QED
    BY <2>1, <2>2, FiguresStay
<1>4. CASE StatsFail
  BY <1>4 DEF StatsFail, Figures, Asked, chatVars
<1>5. CASE AskStats
  <2>1. /\ begin'.at = now /\ begin'.rows = Rows /\ Rows' = Rows /\ client' = "totals"
        /\ UNCHANGED <<now, started>>
    BY <1>5 DEF AskStats, chatVars, Rows
  <2>2. begin'.rows \in Seen'
    BY <2>1 DEF Seen
  <2>3. \A c \in Rows : started[c] <= now
    BY DEF Figures, Rows
  <2> QED
    BY <2>1, <2>2, <2>3 DEF Figures, Asked, TypeOK
<1>6. ASSUME Totals \/ StartOfToday \/ Today \/ Days
      PROVE  /\ client \in Asked /\ client' \in Asked \ {"totals"}
             /\ UNCHANGED <<now, begin, chatVars>>
             /\ Rows' = Rows /\ Seen' = Seen /\ Rows \in Seen
             /\ \A R \in Seen : /\ Cost(Good(R))' = Cost(Good(R))
                                /\ \A t : Cost(Since(t, Good(R)))' = Cost(Since(t, Good(R)))
             /\ Day(now)' = Day(now) /\ Day(begin.at)' = Day(begin.at)
             /\ \A c \in Chats : started'[c] <= now'
             /\ begin'.rows \in Seen' /\ begin'.at <= now'
             /\ \A c \in begin'.rows : started'[c] <= begin'.at
  <2>1. client \in Asked /\ client' \in Asked \ {"totals"} /\ UNCHANGED <<now, begin, chatVars>>
    BY <1>6 DEF Totals, StartOfToday, Today, Days, Asked
  <2>2. Rows' = Rows /\ Seen' = Seen
    BY <2>1 DEF Rows, Seen, chatVars
  <2>3. /\ Rows \in Seen
        /\ \A c \in Chats : started[c] <= now
        /\ begin.rows \in Seen /\ begin.at <= now
        /\ \A c \in begin.rows : started[c] <= begin.at
    BY <2>1 DEF Figures, Seen
  <2> QED
    BY <2>1, <2>2, <2>3 DEF Good, Cost, Since, OfDay, Day, chatVars
<1>7. CASE Totals
  <2>1. total' = Cost(Since(-1, Good(Rows))) /\ client' = "clock"
    BY <1>7, FigureIsCost DEF Totals, Since
  <2>2. Since(-1, Good(Rows)) = Good(Rows)
    <3>1. \A c \in Good(Rows) : started[c] \in Nat
      BY DEF Good, Rows, TypeOK
    <3>2. \A t \in Nat : t >= -1
      OBVIOUS
    <3>3. \A c \in Good(Rows) : started[c] >= -1
      BY <3>1, <3>2
    <3> QED
      BY <3>3 DEF Since
  <2>3. Good(Rows) \in SUBSET Chats
    BY DEF Good, Rows
  <2>4. total' = Cost(Good(Rows))' /\ Rows \in Seen'
    BY <1>6, <1>7, <2>1, <2>2, <2>3 DEF Rows, Cost, Good, chatVars
  <2> QED
    BY <1>6, <1>7, <2>1, <2>4 DEF Figures, Asked
<1>8. CASE StartOfToday
  <2>1. dayStart' = Day(now) * DayLength /\ client' = "today" /\ total' = total /\ client = "clock"
    BY <1>8 DEF StartOfToday
  <2>2. Day(now) \in Nat /\ Day(begin.at) <= Day(now)
    <3>1. now \in Nat /\ begin.at \in Nat /\ begin.at <= now
      BY <1>6, <1>8 DEF TypeOK
    <3> QED
      BY <3>1, DayOf, LaterDays
  <2>3. \E d \in 0..Day(now)' : Day(begin.at)' <= d /\ dayStart' = d * DayLength
    <3>1. Day(now) \in 0..Day(now)'
      BY <1>6, <1>8, <2>2
    <3> QED
      BY <1>6, <1>8, <2>1, <2>2, <3>1
  <2>4. \E R \in Seen' : total' = Cost(Good(R))'
    BY <1>6, <1>8, <2>1 DEF Figures, Asked
  <2> QED
    BY <1>6, <1>8, <2>1, <2>3, <2>4 DEF Figures, Asked
<1>9. CASE Today
  <2>1. /\ today' = Cost(Since(dayStart, Good(Rows)))
        /\ client' = "days" /\ client = "today" /\ UNCHANGED <<total, dayStart>>
    BY <1>9, FigureIsCost DEF Today, Since
  <2>2. today' = Cost(Since(dayStart, Good(Rows)))' /\ Rows \in Seen'
    BY <1>6, <1>9, <2>1 DEF Cost, Since, Good, chatVars
  <2>3. \E R \in Seen' : total' = Cost(Good(R))'
    BY <1>6, <1>9, <2>1 DEF Figures, Asked
  <2>4. \E d \in 0..Day(now)' : Day(begin.at)' <= d /\ dayStart' = d * DayLength
    BY <1>6, <1>9, <2>1 DEF Figures
  <2> QED
    BY <1>6, <1>9, <2>1, <2>2, <2>3, <2>4 DEF Figures, Asked
<1>10. CASE Days
  <2>1. PICK v \in Windows : byDay' = StatsByDay(WindowOf(v))
    BY <1>10 DEF Days
  <2> DEFINE n == WindowOf(v)
             D == {c \in Rows : started[c] >= now - n * DayLength}
  <2>2. client' = "answered" /\ client = "days" /\ UNCHANGED <<total, dayStart, today>>
    BY <1>10 DEF Days
  <2>3. n \in Nat /\ n >= 1
    BY UsageAssumption DEF WindowOf
  <2>4. /\ DOMAIN byDay' = {Day(started[c]) : c \in D}
        /\ \A d \in DOMAIN byDay' : byDay'[d] = Cardinality(OfDay(D, d))
    BY <2>1 DEF StatsByDay, OfDay
  <2>5. /\ D \in SUBSET Rows /\ IsFiniteSet(Rows)
        /\ \A d : OfDay(D, d) \in SUBSET OfDay(Rows, d) /\ OfDay(Rows, d) \in SUBSET Rows
    BY LogAssumption, FS_Subset DEF Rows, OfDay
  <2>6. \A d \in DOMAIN byDay' : byDay'[d] <= Cardinality(OfDay(Rows, d))
    <3>1. \A d : IsFiniteSet(OfDay(Rows, d))
      BY <2>5, FS_Subset
    <3>2. \A d : Cardinality(OfDay(D, d)) <= Cardinality(OfDay(Rows, d))
      <4> HIDE DEF D
      <4> QED
        BY <2>5, <3>1, FS_Subset
    <3> QED
      BY <2>4, <3>2
  <2>7. ASSUME OfDay(begin.rows, Day(now)) # {}
        PROVE  /\ Day(now) \in DOMAIN byDay'
               /\ Cardinality(OfDay(begin.rows, Day(now))) <= byDay'[Day(now)]
    <3> DEFINE B == OfDay(begin.rows, Day(now))
    <3>1. now \in Nat /\ DayLength \in Nat /\ DayLength >= 1
          /\ begin.rows \subseteq Rows /\ begin.rows \subseteq Chats
      BY <1>6, <1>10, LogAssumption DEF TypeOK, Seen, Rows
    <3>2. now - n * DayLength <= Day(now) * DayLength
      <4>1. \A p, q, r \in Nat : p <= q => p * r <= q * r
        OBVIOUS
      <4>2. 1 * DayLength <= n * DayLength /\ n * DayLength \in Nat /\ 1 * DayLength = DayLength
        <5>1. \A p, q \in Nat : p * q \in Nat
          OBVIOUS
        <5> HIDE DEF n
        <5> QED
          BY <2>3, <3>1, <4>1, <5>1
      <4>3. now < Day(now) * DayLength + DayLength /\ Day(now) * DayLength \in Nat
        BY <3>1, DayOf
      <4> HIDE DEF n
      <4> DEFINE k == n * DayLength
                 m == Day(now) * DayLength
      <4>4. DayLength <= k /\ k \in Nat /\ m \in Nat /\ now < m + DayLength
        BY <4>2, <4>3
      <4> HIDE DEF k, m
      <4>5. now - k <= m
        BY <3>1, <4>4
      <4> QED
        BY <4>5 DEF k, m
    <3>3. ASSUME NEW c \in B PROVE c \in D /\ Day(started[c]) = Day(now)
      <4>1. c \in Rows /\ Day(started[c]) = Day(now) /\ started[c] \in Nat
        BY <3>1 DEF OfDay, TypeOK
      <4>2. Day(now) * DayLength <= started[c] /\ Day(now) * DayLength \in Nat
        BY <4>1, DayOf
      <4>3. n * DayLength \in Nat
        <5>1. \A p, q \in Nat : p * q \in Nat
          OBVIOUS
        <5> HIDE DEF n
        <5> QED
          BY <2>3, <3>1, <5>1
      <4> DEFINE k == n * DayLength
                 m == Day(now) * DayLength
      <4>4. now - k <= m /\ m <= started[c] /\ k \in Nat /\ m \in Nat
        BY <3>2, <4>2, <4>3
      <4> HIDE DEF k, m
      <4>5. started[c] >= now - k
        BY <3>1, <4>1, <4>4
      <4> QED
        BY <4>1, <4>5 DEF k
    <3>4. Day(now) \in DOMAIN byDay'
      BY <2>4, <2>7, <3>3
    <3>5. B \in SUBSET OfDay(D, Day(now)) /\ IsFiniteSet(OfDay(D, Day(now)))
      BY <2>5, <3>3, FS_Subset DEF OfDay
    <3>6. Cardinality(B) <= Cardinality(OfDay(D, Day(now)))
      BY <3>5, FS_Subset
    <3> QED
      BY <2>4, <3>4, <3>6
  <2>8. \E R \in Seen' : total' = Cost(Good(R))'
    BY <1>6, <1>10, <2>2 DEF Figures, Asked
  <2>9. \E R \in Seen' : today' = Cost(Since(dayStart, Good(R)))'
    BY <1>6, <1>10, <2>2 DEF Figures, Asked
  <2>10. \E d \in 0..Day(now)' : Day(begin.at)' <= d /\ dayStart' = d * DayLength
    BY <1>6, <1>10, <2>2 DEF Figures
  <2>11. /\ \A d \in DOMAIN byDay' : byDay'[d] <= Cardinality(OfDay(Rows, d))'
         /\ OfDay(begin.rows, Day(now))' # {} =>
                /\ Day(now)' \in DOMAIN byDay'
                /\ Cardinality(OfDay(begin.rows, Day(now)))' <= byDay'[Day(now)']
    <3>1. /\ OfDay(begin.rows, Day(now))' = OfDay(begin.rows, Day(now)) /\ Day(now)' = Day(now)
          /\ \A d : OfDay(Rows, d)' = OfDay(Rows, d)
      BY <1>6, <1>10 DEF OfDay, Day, chatVars
    <3> QED
      BY <2>6, <2>7, <3>1
  <2> QED
    BY <1>6, <1>10, <2>2, <2>8, <2>9, <2>10, <2>11 DEF Figures, Asked
<1> QED
  BY <1>1, <1>2, <1>3, <1>4, <1>5, <1>7, <1>8, <1>9, <1>10 DEF Next, Statistics

LEMMA FiguresHold == Spec => []Figures
<1>1. Init => Figures
  BY DEF Init, Figures, Asked
<1> QED
  BY <1>1, FiguresStep, TypeCorrect, PTL DEF Spec

\* The sets whose costs the figures are.
LEMMA FiguresAsCosts ==
  ASSUME TypeOK, Figures, client = "answered"
  PROVE  \E R \in Seen, T \in Seen :
             /\ total = Cost(Good(R))
             /\ today = Cost(Since(dayStart, Good(T)))
             /\ \A c \in Rows : /\ Day(started[c]) = Day(now) => started[c] >= dayStart
                                /\ started[c] >= dayStart => Day(started[c]) >= Day(begin.at)
<1>1. PICK R \in Seen : total = Cost(Good(R))
  BY DEF Figures, Asked
<1>2. PICK T \in Seen : today = Cost(Since(dayStart, Good(T)))
  BY DEF Figures, Asked
<1>3. PICK d \in 0..Day(now) : Day(begin.at) <= d /\ dayStart = d * DayLength
  BY DEF Figures, Asked
<1>4. Day(now) \in Nat /\ Day(begin.at) \in Nat /\ d \in Nat /\ d <= Day(now)
  BY DayOf, <1>3 DEF TypeOK
<1>5. ASSUME NEW c \in Rows
      PROVE  /\ Day(started[c]) = Day(now) => started[c] >= dayStart
             /\ started[c] >= dayStart => Day(started[c]) >= Day(begin.at)
  <2>1. started[c] \in Nat /\ Day(started[c]) \in Nat /\ dayStart \in Int
    BY DayOf DEF TypeOK, Rows
  <2>2. d <= Day(started[c]) <=> dayStart <= started[c]
    BY <1>3, <1>4, <2>1, DaysInOrder
  <2> QED
    BY <1>3, <1>4, <2>1, <2>2
<1> QED
  BY <1>1, <1>2, <1>5

\* Each figure of GET /admin/stats is of a moment of its handler, for any number
\* of chats, any prices, and midnight at any point: the totals model by model are
\* the cost of a set of requests between those logged at the beginning and those
\* logged at the end, and no day of the list has too many.
THEOREM FiguresOfTheirTime == Spec => []FiguresAreOfTheirTime
<1>1. ASSUME TypeOK, Figures PROVE FiguresAreOfTheirTime
  <2>1. SUFFICES ASSUME client = "answered"
                 PROVE  /\ Cost(Good(begin.rows)) <= total
                        /\ total <= Cost(Good(Rows))
                        /\ Cost(OfDay(Good(begin.rows), Day(now))) <= today
                        /\ today <= Cost({c \in Good(Rows) : Day(started[c]) >= Day(begin.at)})
    BY <1>1 DEF FiguresAreOfTheirTime, Figures
  <2>2. PICK R \in Seen, T \in Seen :
            /\ total = Cost(Good(R))
            /\ today = Cost(Since(dayStart, Good(T)))
            /\ \A c \in Rows : /\ Day(started[c]) = Day(now) => started[c] >= dayStart
                               /\ started[c] >= dayStart => Day(started[c]) >= Day(begin.at)
    BY <1>1, <2>1, FiguresAsCosts
  <2> DEFINE L == {c \in Good(Rows) : Day(started[c]) >= Day(begin.at)}
  <2>3. begin.rows \in SUBSET R /\ R \in SUBSET Rows /\ begin.rows \in SUBSET T /\ T \in SUBSET Rows
    BY DEF Seen
  <2>4. Rows \in SUBSET Chats
    BY DEF Rows
  <2>5. /\ Good(begin.rows) \in SUBSET Good(R) /\ Good(R) \in SUBSET Good(Rows)
        /\ Good(R) \in SUBSET Chats /\ Good(Rows) \in SUBSET Chats
    BY <2>3, <2>4 DEF Good
  <2>6. OfDay(Good(begin.rows), Day(now)) \in SUBSET Since(dayStart, Good(T))
    <3>1. SUFFICES ASSUME NEW c \in OfDay(Good(begin.rows), Day(now))
                   PROVE  c \in Since(dayStart, Good(T))
      OBVIOUS
    <3>2. c \in begin.rows /\ c \in Good(T) /\ Day(started[c]) = Day(now)
      BY <2>3 DEF Good, OfDay
    <3>3. c \in Rows
      BY <2>3, <3>2
    <3> QED
      BY <2>2, <3>2, <3>3 DEF Since
  <2>7. Since(dayStart, Good(T)) \in SUBSET L
    <3>1. SUFFICES ASSUME NEW c \in Since(dayStart, Good(T)) PROVE c \in L
      OBVIOUS
    <3>2. c \in T /\ c \in Good(Rows) /\ started[c] >= dayStart
      BY <2>3 DEF Good, Since
    <3> QED
      BY <2>2, <2>3, <3>2
  <2>8. Since(dayStart, Good(T)) \in SUBSET Chats /\ L \in SUBSET Chats
    BY <2>3, <2>4 DEF Good, Since
  <2> HIDE DEF L
  <2>9. /\ Cost(Good(begin.rows)) <= Cost(Good(R)) /\ Cost(Good(R)) <= Cost(Good(Rows))
        /\ Cost(OfDay(Good(begin.rows), Day(now))) <= Cost(Since(dayStart, Good(T)))
        /\ Cost(Since(dayStart, Good(T))) <= Cost(L)
    BY <2>5, <2>6, <2>7, <2>8, CostOfSome
  <2> QED
    BY <2>2, <2>9 DEF L
<1> QED
  BY <1>1, TypeCorrect, FiguresHold, PTL
==============================================================================
