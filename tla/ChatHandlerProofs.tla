-------------------------- MODULE ChatHandlerProofs ---------------------------
(***************************************************************************)
(* Theorems about ChatHandler, for every number of requests, every set of  *)
(* request shapes, providers and models, and every fault.                  *)
(***************************************************************************)
EXTENDS ChatHandler, TLAPS

(***************************************************************************)
(* Typing.                                                                 *)
(***************************************************************************)
\* What a client asked for resolves to a provider name and a model.
LEMMA RequestTypes ==
    ASSUME NEW q \in Shapes
    PROVE  /\ ProviderOf(q) \in Kinds \cup {"", "unknown"}
           /\ ModelOf(q) \in Models
BY ChatAssumption DEF Shape, ProviderOf, ModelOf

\* Records written as a whole have the types of entries and answers.
LEMMA RecordTypes ==
    /\ NoEntry \in Entry
    /\ NoWire \in Answer
    /\ NoStream \in Summary
    /\ \A s \in Nat : Error(s) \in Answer
    /\ \A w \in Answer : Headers(w) \in Answer
    /\ \A w \in Answer, n \in Nat : Delta(w, n) \in Answer
    /\ \A why : FailureStatus(why) \in {502, 504}
<1>1. NoEntry \in Entry
  <2>1. 0 \in 0..MaxChars
    BY ChatAssumption
  <2> QED BY <2>1 DEF NoEntry, Entry
<1>2. NoWire \in Answer
  BY ChatAssumption DEF NoWire, Answer
<1>3. NoStream \in Summary
  BY ChatAssumption DEF NoStream, Summary
<1>4. \A s \in Nat : Error(s) \in Answer
  BY ChatAssumption DEF Answer, Error
<1>5. \A w \in Answer : Headers(w) \in Answer
  BY DEF Answer, Headers
<1>6. ASSUME NEW w \in Answer, NEW n \in Nat
      PROVE  Delta(w, n) \in Answer
  <2>1. /\ Headers(w).chars = w.chars
        /\ w.chars + n \in Nat
    BY DEF Answer, Headers
  <2> QED BY <2>1, <1>5 DEF Answer, Delta
<1>7. \A why : FailureStatus(why) \in {502, 504}
  BY DEF FailureStatus
<1> QED BY <1>1, <1>2, <1>3, <1>4, <1>5, <1>6, <1>7

\* An entry that fails stays an entry.
LEMMA FailedType ==
    ASSUME NEW e \in Entry, NEW s \in Nat
    PROVE  [e EXCEPT !.status = s, !.error = "failed"] \in Entry
BY DEF Entry

LEMMA AbortedType ==
    ASSUME NEW e \in Entry, NEW s \in Summary
    PROVE  Aborted(e, s) \in Entry
<1> DEFINE e1 == [e EXCEPT !.status = 200]
           e2 == [e1 EXCEPT !.error = "failed"]
           e3 == [e2 EXCEPT !.chars = s.sent]
<1>1. e1 \in Entry
  <2>1. \A v \in Nat : [e EXCEPT !.status = v] \in Entry
    BY DEF Entry
  <2> QED BY <2>1
<1>2. Aborted(e, s) = e3
  BY Zenon DEF Aborted
<1> HIDE DEF e1
<1>3. e2 \in Entry
  BY <1>1 DEF Entry
<1> HIDE DEF e2
<1>4. s.sent \in 0..MaxChars
  BY DEF Summary
<1>5. e3 \in Entry
  BY <1>3, <1>4 DEF Entry
<1> HIDE DEF e3
<1> QED BY <1>2, <1>5

LEMMA RoutedType ==
    ASSUME NEW r \in Requests, entry[r] \in Entry, req[r] \in Shapes
    PROVE  /\ Named(r) \in Entry /\ Routed(r) \in Entry
           /\ Named(r).chars = entry[r].chars /\ Named(r).tokens = entry[r].tokens
           /\ Routed(r).chars = entry[r].chars /\ Routed(r).tokens = entry[r].tokens
           /\ Routed(r).error = entry[r].error /\ Routed(r).status = entry[r].status
<1>1. /\ Named(r) \in Entry
      /\ Named(r).chars = entry[r].chars /\ Named(r).tokens = entry[r].tokens
      /\ Named(r).error = entry[r].error /\ Named(r).status = entry[r].status
  BY RequestTypes DEF Named, Entry
<1>2. Routed(r) = [Named(r) EXCEPT !.model = ModelOf(req[r])]
  BY DEF Named, Routed
<1> QED
  BY <1>1, <1>2, RequestTypes DEF Entry

LEMMA AnsweredType ==
    ASSUME NEW e \in Entry, NEW n \in 0..MaxChars, NEW m \in Models \cup {NoModel},
           NEW t \in {0, 1}
    PROVE  Answered(e, n, m, t) \in Entry
<1> DEFINE e1 == [e EXCEPT !.status = 200]
           e2 == [e1 EXCEPT !.chars = n]
           e3 == [e2 EXCEPT !.model = m]
           e4 == [e3 EXCEPT !.tokens = t]
<1>1. e1 \in Entry
  <2>1. \A v \in Nat : [e EXCEPT !.status = v] \in Entry
    BY DEF Entry
  <2> QED BY <2>1
<1>2. Answered(e, n, m, t) = e4
  BY Zenon DEF Answered
<1> HIDE DEF e1
<1>3. e2 \in Entry
  BY <1>1 DEF Entry
<1> HIDE DEF e2
<1>4. e3 \in Entry
  BY <1>3 DEF Entry
<1> HIDE DEF e3
<1>5. e4 \in Entry
  BY <1>4 DEF Entry
<1> HIDE DEF e4
<1> QED BY <1>2, <1>5

LEMMA EndedType ==
    ASSUME NEW w \in Answer, NEW m \in Models \cup {NoModel}
    PROVE  [w EXCEPT !.model = m, !.tail = "done"] \in Answer
BY DEF Answer

LEMMA RetrievedType ==
    ASSUME NEW e \in Entry, NEW f \in {"", "chunks"}
    PROVE  [e EXCEPT !.rag = f] \in Entry
BY DEF Entry

\* What a provider may answer.
LEMMA ResponseTypes ==
    ASSUME NEW r \in Requests, entry[r] \in Entry, NEW resp \in Response(r)
    PROVE  /\ resp.model \in Models \cup {NoModel}
           /\ resp.chars \in 0..MaxChars
           /\ resp.tokens \in {0, 1}
<1>1. entry[r].model \in Models \cup {NoModel}
  BY DEF Entry
<1>2. CASE entry[r].provider \in {"fake", "plain"}
  BY <1>1, <1>2, ChatAssumption DEF Response
<1>3. CASE entry[r].provider \notin {"fake", "plain"}
  BY <1>3 DEF Response
<1> QED BY <1>2, <1>3

LEMMA HeardType ==
    ASSUME NEW s \in Summary, NEW m \in Models \cup {NoModel}
    PROVE  /\ Heard(s, m) \in Summary
           /\ Heard(s, m).sent = s.sent
           /\ \A t \in {0, 1} : /\ [Heard(s, m) EXCEPT !.tokens = t] \in Summary
                                /\ [Heard(s, m) EXCEPT !.tokens = t].sent = s.sent
BY DEF Summary, Heard

THEOREM TypeInit == Init => TypeOK
<1> SUFFICES ASSUME Init PROVE TypeOK
  OBVIOUS
<1> QED
  BY RecordTypes DEF Init, TypeOK

\* The effect of Fail and Goto on the types.
LEMMA FailTypes ==
    ASSUME TypeOK, NEW r \in Requests, NEW e \in Entry, NEW s \in Nat, Fail(r, e, s)
    PROVE  /\ pc'    \in [Requests -> {"idle"} \cup Active \cup Over]
           /\ wire'  \in [Requests -> Answer]
           /\ entry' \in [Requests -> Entry]
<1>1. wire' \in [Requests -> Answer]
  BY RecordTypes DEF TypeOK, Fail
<1>2. entry' \in [Requests -> Entry]
  BY FailedType DEF TypeOK, Fail
<1>3. pc' \in [Requests -> {"idle"} \cup Active \cup Over]
  BY DEF TypeOK, Fail, Goto, Active
<1> QED BY <1>1, <1>2, <1>3

LEMMA RelayTypes ==
    ASSUME TypeOK, NEW r \in Requests, NEW n \in Nat, NEW got \in Summary,
           got.sent = stream[r].sent, NEW last, Relay(r, n, got, last)
    PROVE  /\ pc'     \in [Requests -> {"idle"} \cup Active \cup Over]
           /\ wire'   \in [Requests -> Answer]
           /\ stream' \in [Requests -> Summary]
<1>1. CASE /\ stream' = [stream EXCEPT ![r] = [got EXCEPT !.sent = @ + n]]
           /\ wire'   = [wire EXCEPT ![r] = IF n > 0 THEN Delta(@, n) ELSE @]
           /\ Goto(r, IF last THEN "finishing" ELSE "reading")
  <2>1. got.sent + n \in 0..MaxChars
    BY ChatAssumption DEF Relay, Summary
  <2>2. [got EXCEPT !.sent = @ + n] \in Summary
    BY <2>1 DEF Summary
  <2> QED
    BY <1>1, <2>2, RecordTypes DEF TypeOK, Goto, Active
<1>2. ASSUME NEW k \in 0..(n - 1),
             stream' = [stream EXCEPT ![r].sent = @ + k],
             wire'   = [wire EXCEPT ![r] = Delta(@, k)],
             Goto(r, "aborting")
      PROVE  /\ pc'     \in [Requests -> {"idle"} \cup Active \cup Over]
             /\ wire'   \in [Requests -> Answer]
             /\ stream' \in [Requests -> Summary]
  <2>1. stream[r].sent + k \in 0..MaxChars
    BY ChatAssumption DEF Relay, Summary, TypeOK
  <2>2. [stream[r] EXCEPT !.sent = @ + k] \in Summary
    BY <2>1 DEF Summary, TypeOK
  <2> QED
    BY <1>2, <2>2, RecordTypes DEF TypeOK, Goto, Active
<1> QED
  BY <1>1, <1>2 DEF Relay

\* Every step keeps every variable in its type.
THEOREM TypeStep == TypeOK /\ [Next]_vars => TypeOK'
<1> SUFFICES ASSUME TypeOK, [Next]_vars PROVE TypeOK'
  OBVIOUS
<1> USE DEF TypeOK
<1>1. CASE UNCHANGED vars
  BY <1>1 DEF vars
<1>2. CASE Process
  BY <1>2 DEF Process, Signal, Drained, GraceExpires, Crash
<1>3. ASSUME NEW r \in Requests, Client(r) PROVE TypeOK'
  BY <1>3 DEF Client, Stall, Resume, Leave, Cancel, Deadline
<1>4. ASSUME NEW r \in Requests, Handler(r) PROVE TypeOK'
  <2>1. CASE Arrive(r)
    BY <2>1 DEF Arrive, Goto, Active
  <2>2. CASE Refuse(r)
    BY <2>2, RecordTypes DEF Refuse, Goto, Over
  <2>3. CASE RejectBody(r)
    BY <2>3, FailTypes DEF RejectBody
  <2>4. CASE RejectProvider(r)
    BY <2>4, FailTypes, RoutedType DEF RejectProvider, BodyRead
  <2>5. CASE RejectRag(r)
    BY <2>5, FailTypes, RoutedType DEF RejectRag, BodyRead
  <2>6. CASE Route(r)
    BY <2>6, RoutedType DEF Route, BodyRead, Goto, Active
  <2>7. CASE Retrieve(r)
    <3> PICK found \in {"", "chunks"} : entry' = [entry EXCEPT ![r].rag = found]
      BY <2>7 DEF Retrieve
    <3>1. [entry[r] EXCEPT !.rag = found] \in Entry
      BY RetrievedType
    <3>2. entry' \in [Requests -> Entry]
      BY <3>1
    <3> QED
      BY <2>7, <3>2 DEF Retrieve, Goto, Active
  <2>8. CASE ChatReturns(r)
    <3> PICK resp \in Response(r) :
             /\ entry' = [entry EXCEPT ![r] = Answered(@, resp.chars, resp.model, resp.tokens)]
             /\ wire'  = [wire EXCEPT ![r] = [status |-> 200, model |-> resp.model,
                                              chars |-> resp.chars, tail |-> "done"]]
      BY <2>8 DEF ChatReturns
    <3>1. /\ resp.model \in Models \cup {NoModel}
          /\ resp.chars \in 0..MaxChars
          /\ resp.tokens \in {0, 1}
      BY ResponseTypes
    <3>2. entry' \in [Requests -> Entry]
      BY <3>1, AnsweredType
    <3>3. wire' \in [Requests -> Answer]
      BY <3>1, ChatAssumption DEF Answer
    <3> QED
      BY <2>8, <3>2, <3>3 DEF ChatReturns, Goto, Active
  <2>9. CASE ChatFails(r)
    BY <2>9, FailTypes, RecordTypes DEF ChatFails
  <2>10. CASE RejectStream(r)
    BY <2>10, FailTypes DEF RejectStream
  <2>11. CASE Open(r)
    BY <2>11 DEF Open, Goto, Active
  <2>12. CASE OpenFails(r)
    BY <2>12, FailTypes, RecordTypes DEF OpenFails
  <2>13. CASE OllamaLine(r)
    <3> PICK m \in Models \cup {NoModel}, n \in 0..1, last \in BOOLEAN, u \in {0, 1} :
             /\ ~last => u = 0
             /\ LET got == Heard(stream[r], m)
                IN  Relay(r, n, IF last THEN [got EXCEPT !.tokens = u] ELSE got, last)
             /\ ended' = [ended EXCEPT ![r] = last]
      BY <2>13, Zenon DEF OllamaLine
    <3> DEFINE got == IF last THEN [Heard(stream[r], m) EXCEPT !.tokens = u]
                      ELSE Heard(stream[r], m)
    <3>1. got \in Summary /\ got.sent = stream[r].sent
      BY HeardType
    <3>2. n \in Nat
      OBVIOUS
    <3>3. Relay(r, n, got, last)
      BY Zenon
    <3> HIDE DEF got
    <3> QED
      BY <2>13, <3>1, <3>2, <3>3, RelayTypes DEF OllamaLine
  <2>14. CASE OpenAILine(r)
    <3> PICK m \in Models \cup {NoModel}, n \in 0..2, u \in {0, 1} :
             Relay(r, n, [Heard(stream[r], m) EXCEPT !.tokens = IF u = 0 THEN @ ELSE u], FALSE)
      BY <2>14 DEF OpenAILine
    <3> DEFINE t   == IF u = 0 THEN Heard(stream[r], m).tokens ELSE u
               got == [Heard(stream[r], m) EXCEPT !.tokens = t]
    <3>1. t \in {0, 1}
      BY HeardType DEF Summary
    <3>2. got \in Summary /\ got.sent = stream[r].sent
      BY HeardType, <3>1
    <3>3. n \in Nat
      OBVIOUS
    <3>4. Relay(r, n, got, FALSE)
      BY Zenon
    <3> HIDE DEF got
    <3> QED
      BY <2>14, <3>2, <3>3, <3>4, RelayTypes DEF OpenAILine
  <2>15. CASE OpenAIDone(r)
    BY <2>15 DEF OpenAIDone, Goto, Active
  <2>16. CASE FakeWord(r)
    <3>1. Relay(r, 1, stream[r], FALSE)
      BY <2>16 DEF FakeWord
    <3>2. stream[r] \in Summary /\ 1 \in Nat
      OBVIOUS
    <3> QED
      BY <2>16, <3>1, <3>2, RelayTypes DEF FakeWord
  <2>17. CASE FakeEnd(r)
    <3>1. \A m \in Models \cup {NoModel} :
             [stream[r] EXCEPT !.model = m, !.tokens = 1] \in Summary
      BY DEF Summary
    <3>2. entry[r].model \in Models \cup {NoModel}
      BY DEF Entry
    <3>3. stream' = [stream EXCEPT ![r] = [@ EXCEPT !.model = entry[r].model, !.tokens = 1]]
      BY <2>17 DEF FakeEnd
    <3>4. stream' \in [Requests -> Summary]
      BY <3>1, <3>2, <3>3
    <3> QED
      BY <2>17, <3>4 DEF FakeEnd, Goto, Active
  <2>18. CASE StreamEOF(r)
    BY <2>18 DEF StreamEOF, Goto, Active
  <2>19. CASE FailEarly(r)
    <3>1. PICK why : Fail(r, entry[r], FailureStatus(why))
      BY <2>19, Zenon DEF FailEarly
    <3>2. entry[r] \in Entry /\ FailureStatus(why) \in Nat
      BY RecordTypes
    <3> QED
      BY <2>19, <3>1, <3>2, FailTypes DEF FailEarly
  <2>20. CASE FailLate(r)
    BY <2>20 DEF FailLate, Goto, Active
  <2>21. CASE Abort(r)
    <3>1. entry' \in [Requests -> Entry]
      BY <2>21, AbortedType DEF Abort
    <3>2. wire' \in [Requests -> Answer]
      BY <2>21 DEF Abort, Answer
    <3> QED
      BY <2>21, <3>1, <3>2 DEF Abort, Goto, Active
  <2>22. CASE Finish(r)
    <3> DEFINE m == IF stream[r].model # NoModel THEN stream[r].model ELSE entry[r].model
    <3>1. /\ m \in Models \cup {NoModel}
          /\ stream[r].sent \in 0..MaxChars
          /\ stream[r].tokens \in {0, 1}
      BY DEF Summary, Entry
    <3>2. /\ entry' = [entry EXCEPT ![r] = Answered(@, stream[r].sent, m, stream[r].tokens)]
          /\ wire'  = [wire EXCEPT ![r] = [Headers(@) EXCEPT !.model = m, !.tail = "done"]]
      BY <2>22 DEF Finish
    <3>3. entry' \in [Requests -> Entry]
      BY <3>1, <3>2, AnsweredType
    <3> HIDE DEF m
    <3>4. [Headers(wire[r]) EXCEPT !.model = m, !.tail = "done"] \in Answer
      <4>1. Headers(wire[r]) \in Answer
        BY RecordTypes
      <4> QED BY <3>1, <4>1, EndedType
    <3>5. wire' \in [Requests -> Answer]
      BY <3>2, <3>4
    <3> QED
      BY <2>22, <3>3, <3>5 DEF Finish, Goto, Active
  <2>23. CASE Log(r)
    BY <2>23 DEF Log, Goto, Over
  <2>24. CASE LogFails(r)
    BY <2>24 DEF LogFails, Goto, Over
  <2> QED
    BY <1>4, <2>1, <2>2, <2>3, <2>4, <2>5, <2>6, <2>7, <2>8, <2>9, <2>10, <2>11, <2>12,
       <2>13, <2>14, <2>15, <2>16, <2>17, <2>18, <2>19, <2>20, <2>21, <2>22, <2>23, <2>24
       DEF Handler, Validate, Streaming
<1> QED
  BY <1>1, <1>2, <1>3, <1>4 DEF Next

\* Every reachable state is well typed.
THEOREM Typing == Spec => []TypeOK
BY TypeInit, TypeStep, PTL DEF Spec
-----------------------------------------------------------------------------
(***************************************************************************)
(* Consistent is inductive.  A handler, its client and its timers touch    *)
(* nothing of another request, so one request at a time is enough.         *)
(***************************************************************************)
LEMMA Frame ==
    ASSUME TypeOK, NEW r \in Requests, NEW q \in Requests, q # r, Handler(r) \/ Client(r)
    PROVE  /\ pc'[q] = pc[q] /\ entry'[q] = entry[q] /\ stream'[q] = stream[q]
           /\ wire'[q] = wire[q] /\ rows'[q] = rows[q]
<1> USE DEF TypeOK, Goto
<1>1. CASE Client(r)
  BY <1>1 DEF Client, Stall, Resume, Leave, Cancel, Deadline
<1>2. CASE \/ RejectBody(r) \/ RejectProvider(r) \/ RejectRag(r) \/ ChatFails(r)
           \/ RejectStream(r) \/ OpenFails(r) \/ FailEarly(r)
  <2>1. \E e, s : Fail(r, e, s)
    <3>1. CASE RejectBody(r) \/ RejectProvider(r) \/ RejectRag(r) \/ RejectStream(r)
      BY <3>1, Zenon DEF RejectBody, RejectProvider, RejectRag, BodyRead, RejectStream
    <3>2. CASE ChatFails(r) \/ OpenFails(r) \/ FailEarly(r)
      <4>1. CASE ChatFails(r)
        BY <4>1, Zenon DEF ChatFails
      <4>2. CASE OpenFails(r)
        BY <4>2, Zenon DEF OpenFails
      <4>3. CASE FailEarly(r)
        BY <4>3, Zenon DEF FailEarly
      <4> QED BY <3>2, <4>1, <4>2, <4>3, Zenon
    <3> QED BY <1>2, <3>1, <3>2, Zenon
  <2>2. stream' = stream /\ rows' = rows
    BY <1>2 DEF RejectBody, RejectProvider, RejectRag, ChatFails, RejectStream,
                OpenFails, FailEarly
  <2> QED
    BY <2>1, <2>2 DEF Fail
<1>3. CASE Arrive(r) \/ Refuse(r) \/ Route(r) \/ Retrieve(r) \/ ChatReturns(r) \/ Open(r)
  <2>1. CASE Arrive(r) \/ Refuse(r) \/ Route(r)
    BY <2>1 DEF Arrive, Refuse, BodyRead, Route
  <2>2. CASE Retrieve(r)
    BY <2>2 DEF Retrieve
  <2>3. CASE ChatReturns(r)
    BY <2>3 DEF ChatReturns
  <2>4. CASE Open(r)
    BY <2>4 DEF Open
  <2> QED BY <1>3, <2>1, <2>2, <2>3, <2>4
<1>4. CASE OllamaLine(r) \/ OpenAILine(r) \/ FakeWord(r)
  <2>1. \E n, got, last : Relay(r, n, got, last)
    <3>1. CASE OllamaLine(r)
      BY <3>1, Zenon DEF OllamaLine
    <3>2. CASE OpenAILine(r)
      BY <3>2, Zenon DEF OpenAILine
    <3>3. CASE FakeWord(r)
      BY <3>3, Zenon DEF FakeWord
    <3> QED BY <1>4, <3>1, <3>2, <3>3
  <2>2. entry' = entry /\ rows' = rows
    BY <1>4 DEF OllamaLine, OpenAILine, FakeWord
  <2> QED
    BY <2>1, <2>2 DEF Relay
<1>5. CASE \/ OpenAIDone(r) \/ FakeEnd(r) \/ StreamEOF(r) \/ FailLate(r) \/ Abort(r)
           \/ Finish(r) \/ Log(r) \/ LogFails(r)
  BY <1>5 DEF OpenAIDone, FakeEnd, StreamEOF, FailLate, Abort, Finish, Log, LogFails
<1> QED
  BY <1>1, <1>2, <1>3, <1>4, <1>5 DEF Handler, Validate, Streaming

\* A request that does not move stays as far as it was.
LEMMA ProgressKept ==
    ASSUME NEW q \in Requests, Progress(q),
           pc'[q] = pc[q], entry'[q] = entry[q], stream'[q] = stream[q],
           wire'[q] = wire[q], rows'[q] = rows[q]
    PROVE  Progress(q)'
BY DEF Progress, BeforeAnswer, DuringAnswer, AfterAnswer


\* Fail settles an entry that was unsettled, in step with the answer.
LEMMA FailProgress ==
    ASSUME TypeOK, NEW r \in Requests, NEW e \in Entry, e.chars = 0, e.tokens = 0,
           NEW s \in {400, 502, 504}, Fail(r, e, s), rows[r] = NoRow, rows' = rows
    PROVE  Progress(r)'
<1> DEFINE f == [e EXCEPT !.status = s, !.error = "failed"]
<1>1. /\ pc'[r] = "logging"
      /\ wire'[r] = Error(s)
      /\ entry'[r] = f
      /\ rows'[r] = NoRow
  BY DEF TypeOK, Fail, Goto
<1>2. f.status = s /\ f.error = "failed" /\ f.chars = 0 /\ f.tokens = 0
  BY DEF Entry
<1>3. /\ Error(s).status = s /\ Error(s).chars = 0
      /\ Error(s).tail = "error"
  BY DEF Error
<1> HIDE DEF f
<1>4. Tells(f, Error(s))
  BY <1>2, <1>3 DEF Tells
<1>5. AfterAnswer(r)'
  BY <1>1, <1>2, <1>3, <1>4 DEF AfterAnswer
<1> QED
  BY <1>1, <1>5 DEF Progress

\* A line of a stream adds as much to the answer as to the length counted.
LEMMA RelayProgress ==
    ASSUME TypeOK, NEW r \in Requests, Progress(r), pc[r] = "reading", entry' = entry,
           rows' = rows, NEW n \in Nat, NEW got \in Summary, got.sent = stream[r].sent,
           NEW last, Relay(r, n, got, last)
    PROVE  Progress(r)'
<1>1. /\ wire[r] \in Answer /\ stream[r] \in Summary
      /\ rows[r] = NoRow
      /\ DuringAnswer(r)
  BY DEF TypeOK, Progress
<1>2. \A k \in Nat : /\ Delta(wire[r], k).chars = wire[r].chars + k
                     /\ Delta(wire[r], k).status = 200
                     /\ Delta(wire[r], k).tail = wire[r].tail
  BY <1>1 DEF Delta, Headers, Answer
<1>3. /\ \A k \in Nat : [stream[r] EXCEPT !.sent = @ + k].sent = stream[r].sent + k
      /\ [got EXCEPT !.sent = @ + n].sent = stream[r].sent + n
  BY <1>1 DEF Summary
<1>4. CASE /\ stream' = [stream EXCEPT ![r] = [got EXCEPT !.sent = @ + n]]
           /\ wire'   = [wire EXCEPT ![r] = IF n > 0 THEN Delta(@, n) ELSE @]
           /\ Goto(r, IF last THEN "finishing" ELSE "reading")
  <2>1. /\ stream'[r].sent = stream[r].sent + n
        /\ wire'[r] = IF n > 0 THEN Delta(wire[r], n) ELSE wire[r]
        /\ pc'[r] \in {"finishing", "reading"}
    BY <1>3, <1>4 DEF TypeOK, Goto
  <2>2. /\ wire'[r].chars = wire[r].chars + n
        /\ wire'[r].tail = "open"
        /\ wire'[r].status \in {0, 200}
        /\ wire'[r].status = 0 => wire'[r].chars = 0
    <3>1. CASE n > 0
      BY <3>1, <2>1, <1>1, <1>2 DEF DuringAnswer
    <3>2. CASE n = 0
      <4>1. wire[r].chars \in Nat
        BY <1>1 DEF Answer
      <4> QED BY <3>2, <4>1, <2>1, <1>1 DEF DuringAnswer
    <3> QED BY <3>1, <3>2
  <2>3. DuringAnswer(r)'
    BY <1>1, <2>1, <2>2 DEF DuringAnswer
  <2> QED
    BY <1>1, <2>1, <2>3 DEF Progress
<1>5. ASSUME NEW k \in 0..(n - 1),
             stream' = [stream EXCEPT ![r].sent = @ + k],
             wire'   = [wire EXCEPT ![r] = Delta(@, k)],
             Goto(r, "aborting")
      PROVE  Progress(r)'
  <2>1. /\ stream'[r].sent = stream[r].sent + k
        /\ wire'[r] = Delta(wire[r], k)
        /\ pc'[r] = "aborting"
        /\ k \in Nat
    BY <1>3, <1>5 DEF TypeOK, Goto
  <2>2. wire'[r].status = 200 /\ wire'[r].tail = "open" /\ wire'[r].chars = stream'[r].sent
    BY <1>1, <1>2, <2>1 DEF DuringAnswer
  <2>3. DuringAnswer(r)'
    BY <1>1, <1>5, <2>2 DEF DuringAnswer
  <2> QED
    BY <1>1, <2>1, <2>2, <2>3 DEF Progress
<1> QED
  BY <1>4, <1>5 DEF Relay

\* Before the answer, a step that sends nothing and settles nothing keeps the
\* request there, or opens the stream.
LEMMA SilentProgress ==
    ASSUME TypeOK, NEW r \in Requests, BeforeAnswer(r), rows[r] = NoRow, rows' = rows,
           wire' = wire, stream' = stream, Unsettled(entry'[r]),
           pc'[r] \in {"received", "retrieving", "calling", "reading"}
    PROVE  Progress(r)'
<1>1. wire'[r] = NoWire /\ stream'[r] = NoStream
  BY DEF BeforeAnswer
<1>2. BeforeAnswer(r)'
  BY <1>1 DEF BeforeAnswer, NoWire, NoStream
<1>3. DuringAnswer(r)'
  BY <1>1 DEF DuringAnswer, NoWire, NoStream
<1> QED
  BY <1>2, <1>3 DEF Progress

\* The provider's loop ends: nothing is written, and the length stays.
LEMMA EndProgress ==
    ASSUME TypeOK, NEW r \in Requests, DuringAnswer(r), rows[r] = NoRow, rows' = rows,
           wire' = wire, entry' = entry, stream'[r].sent = stream[r].sent,
           \/ pc'[r] = "finishing"
           \/ pc'[r] = "aborting" /\ wire[r].status = 200
    PROVE  Progress(r)'
<1>1. DuringAnswer(r)'
  BY DEF DuringAnswer
<1> QED
  BY <1>1 DEF Progress

\* Entry f is entry e after an answer of length n in the name of m.
Completes(e, f, n, m) ==
    f.status = 200 /\ f.error = e.error /\ f.chars = n /\ f.model = m

LEMMA AnsweredCompletes ==
    ASSUME NEW e \in Entry, NEW n, NEW m, NEW t
    PROVE  Completes(e, Answered(e, n, m, t), n, m)
BY DEF Entry, Answered, Completes

\* An answer that is given to the end leaves an entry that tells of it.
LEMMA DoneProgress ==
    ASSUME NEW r \in Requests, entry'[r].status = 200, entry'[r].error = "",
           entry'[r].chars = wire'[r].chars, entry'[r].model = wire'[r].model,
           wire'[r].status = 200, wire'[r].tail = "done",
           pc'[r] = "logging", rows[r] = NoRow, rows' = rows
    PROVE  Progress(r)'
<1>1. AfterAnswer(r)'
  BY DEF AfterAnswer, Tells
<1> QED
  BY <1>1 DEF Progress

\* The handler of r moves r from one stage of Consistent to the next.
LEMMA HandlerProgress ==
    ASSUME TypeOK, TypeOK', NEW r \in Requests, Progress(r), Handler(r)
    PROVE  Progress(r)'
<1>1. entry[r] \in Entry /\ wire[r] \in Answer /\ stream[r] \in Summary /\ req[r] \in Shapes
  BY DEF TypeOK
<1>2. ASSUME pc[r] \in {"idle", "received", "retrieving", "calling"}
      PROVE  /\ BeforeAnswer(r) /\ rows[r] = NoRow
             /\ entry[r].chars = 0 /\ entry[r].tokens = 0
             /\ entry[r].error = "" /\ entry[r].status = 0
  BY <1>2 DEF Progress, BeforeAnswer, Unsettled
<1>3. ASSUME pc[r] \in {"reading", "aborting", "finishing"}
      PROVE  /\ DuringAnswer(r) /\ rows[r] = NoRow
             /\ entry[r].chars = 0 /\ entry[r].tokens = 0
             /\ entry[r].error = "" /\ entry[r].status = 0
  BY <1>3 DEF Progress, DuringAnswer, Unsettled
<1>4. /\ Named(r).chars = entry[r].chars /\ Named(r).tokens = entry[r].tokens
      /\ Routed(r).chars = entry[r].chars /\ Routed(r).tokens = entry[r].tokens
      /\ Routed(r).error = entry[r].error /\ Routed(r).status = entry[r].status
      /\ Named(r) \in Entry /\ Routed(r) \in Entry
  BY <1>1, RoutedType
<1>5. CASE Arrive(r)
  BY <1>2, <1>5, SilentProgress DEF Arrive, At, Goto, TypeOK, Unsettled
<1>6. CASE Refuse(r)
  <2>1. pc'[r] = "refused" /\ wire'[r] = Error(401) /\ rows'[r] = NoRow
    <3>1. pc[r] = "idle" /\ rows' = rows
      BY <1>6 DEF Refuse, At
    <3>2. pc'[r] = "refused" /\ wire'[r] = Error(401)
      BY <1>6 DEF Refuse, Goto, TypeOK
    <3> QED BY <1>2, <3>1, <3>2
  <2> QED BY <2>1 DEF Progress
<1>7. CASE RejectBody(r)
  <2>1. Fail(r, entry[r], 400) /\ rows' = rows /\ pc[r] = "received"
    BY <1>7 DEF RejectBody, At
  <2>2. entry[r].chars = 0 /\ entry[r].tokens = 0 /\ rows[r] = NoRow
    BY <1>2, <2>1
  <2> QED BY <1>1, <2>1, <2>2, FailProgress
<1>8. CASE RejectProvider(r)
  <2>1. Fail(r, Named(r), 400) /\ rows' = rows /\ pc[r] = "received"
    BY <1>8 DEF RejectProvider, BodyRead, At
  <2>2. Named(r) \in Entry /\ Named(r).chars = 0 /\ Named(r).tokens = 0 /\ rows[r] = NoRow
    BY <1>2, <1>4, <2>1
  <2> QED BY <2>1, <2>2, FailProgress
<1>9. CASE RejectRag(r)
  <2>1. Fail(r, Routed(r), 400) /\ rows' = rows /\ pc[r] = "received"
    BY <1>9 DEF RejectRag, BodyRead, At
  <2>2. Routed(r) \in Entry /\ Routed(r).chars = 0 /\ Routed(r).tokens = 0 /\ rows[r] = NoRow
    BY <1>2, <1>4, <2>1
  <2> QED BY <2>1, <2>2, FailProgress
<1>10. CASE Route(r)
  BY <1>2, <1>4, <1>10, SilentProgress DEF Route, BodyRead, At, Goto, TypeOK, Unsettled
<1>11. CASE Retrieve(r)
  <2> PICK found \in {"", "chunks"} : entry' = [entry EXCEPT ![r].rag = found]
    BY <1>11 DEF Retrieve
  <2>1. Unsettled(entry'[r])
    <3>1. /\ entry'[r] = [entry[r] EXCEPT !.rag = found]
          /\ pc[r] = "retrieving"
      BY <1>11 DEF Retrieve, At, TypeOK
    <3> DEFINE e == [entry[r] EXCEPT !.rag = found]
    <3>2. /\ e.status = entry[r].status /\ e.error = entry[r].error
          /\ e.chars = entry[r].chars /\ e.tokens = entry[r].tokens
      BY <1>1 DEF Entry
    <3>3. Unsettled(e)
      BY <1>2, <3>1, <3>2 DEF Unsettled
    <3> QED BY <3>1, <3>3
  <2> QED
    BY <1>2, <1>11, <2>1, SilentProgress DEF Retrieve, At, Goto, TypeOK
<1>12. CASE ChatReturns(r)
  <2>0. PICK resp \in Response(r) :
           /\ entry' = [entry EXCEPT ![r] = Answered(@, resp.chars, resp.model, resp.tokens)]
           /\ wire'  = [wire EXCEPT ![r] = [status |-> 200, model |-> resp.model,
                                            chars |-> resp.chars, tail |-> "done"]]
    BY <1>12 DEF ChatReturns
  <2>1. /\ wire'[r].status = 200 /\ wire'[r].model = resp.model
        /\ wire'[r].chars = resp.chars /\ wire'[r].tail = "done"
        /\ pc'[r] = "logging" /\ rows' = rows /\ wire'[r] \in Answer
    BY <1>12, <2>0 DEF ChatReturns, TypeOK, Goto
  <2>2. pc[r] = "calling"
    BY <1>12 DEF ChatReturns, At
  <2>3. rows[r] = NoRow /\ entry[r].error = ""
    BY <1>2, <2>2
  <2>5. entry \in [Requests -> Entry]
    BY DEF TypeOK
  <2>6. entry'[r] = Answered(entry[r], resp.chars, resp.model, resp.tokens)
    BY <2>0, <2>5, Zenon
  <2>7. Completes(entry[r], entry'[r], resp.chars, resp.model)
    BY <1>1, <2>6, AnsweredCompletes
  <2>8. entry'[r].status = 200 /\ entry'[r].error = ""
    BY <2>3, <2>7 DEF Completes
  <2>9. entry'[r].chars = wire'[r].chars /\ entry'[r].model = wire'[r].model
    BY <2>1, <2>7, Zenon DEF Completes
  <2> QED
    BY <2>1, <2>3, <2>8, <2>9, DoneProgress, Zenon
<1>13. CASE ChatFails(r)
  <2>1. PICK why : Fail(r, entry[r], FailureStatus(why))
    BY <1>13 DEF ChatFails
  <2>2. pc[r] = "calling" /\ rows' = rows /\ FailureStatus(why) \in {400, 502, 504}
    BY <1>13, RecordTypes DEF ChatFails, At
  <2>3. /\ entry[r] \in Entry /\ entry[r].chars = 0 /\ entry[r].tokens = 0
        /\ rows[r] = NoRow
    BY <1>1, <1>2, <2>2
  <2> QED
    BY <2>1, <2>2, <2>3, FailProgress
<1>14. CASE RejectStream(r)
  <2>1. Fail(r, entry[r], 400) /\ rows' = rows /\ pc[r] = "calling"
    BY <1>14 DEF RejectStream, At
  <2>2. entry[r].chars = 0 /\ entry[r].tokens = 0 /\ rows[r] = NoRow
    BY <1>2, <2>1
  <2> QED BY <1>1, <2>1, <2>2, FailProgress
<1>15. CASE Open(r)
  BY <1>2, <1>15, SilentProgress DEF Open, At, Goto, TypeOK, Unsettled
<1>16. CASE OpenFails(r)
  <2>1. PICK why : Fail(r, entry[r], FailureStatus(why))
    BY <1>16 DEF OpenFails
  <2>2. pc[r] = "calling" /\ rows' = rows /\ FailureStatus(why) \in {400, 502, 504}
    BY <1>16, RecordTypes DEF OpenFails, At
  <2>3. /\ entry[r] \in Entry /\ entry[r].chars = 0 /\ entry[r].tokens = 0
        /\ rows[r] = NoRow
    BY <1>1, <1>2, <2>2
  <2> QED
    BY <2>1, <2>2, <2>3, FailProgress
<1>17. CASE OllamaLine(r)
  <2> PICK m \in Models \cup {NoModel}, n \in 0..1, last \in BOOLEAN, u \in {0, 1} :
           /\ LET got == Heard(stream[r], m)
              IN  Relay(r, n, IF last THEN [got EXCEPT !.tokens = u] ELSE got, last)
           /\ ended' = [ended EXCEPT ![r] = last]
    BY <1>17 DEF OllamaLine
  <2> DEFINE got == IF last THEN [Heard(stream[r], m) EXCEPT !.tokens = u]
                    ELSE Heard(stream[r], m)
  <2>1. got \in Summary /\ got.sent = stream[r].sent
    BY <1>1, HeardType
  <2>2. n \in Nat
    OBVIOUS
  <2>3. Relay(r, n, got, last)
    BY Zenon
  <2> HIDE DEF got
  <2> QED
    BY <1>17, <2>1, <2>2, <2>3, RelayProgress DEF OllamaLine, At
<1>18. CASE OpenAILine(r)
  <2> PICK m \in Models \cup {NoModel}, n \in 0..2, u \in {0, 1} :
           Relay(r, n, [Heard(stream[r], m) EXCEPT !.tokens = IF u = 0 THEN @ ELSE u], FALSE)
    BY <1>18 DEF OpenAILine
  <2> DEFINE t   == IF u = 0 THEN Heard(stream[r], m).tokens ELSE u
             got == [Heard(stream[r], m) EXCEPT !.tokens = t]
  <2>1. t \in {0, 1}
    BY <1>1, HeardType DEF Summary
  <2>2. got \in Summary /\ got.sent = stream[r].sent
    BY <1>1, HeardType, <2>1
  <2>3. n \in Nat
    OBVIOUS
  <2>4. Relay(r, n, got, FALSE)
    BY Zenon
  <2> HIDE DEF got
  <2> QED
    BY <1>18, <2>2, <2>3, <2>4, RelayProgress DEF OpenAILine, At
<1>19. CASE FakeWord(r)
  BY <1>1, <1>19, RelayProgress DEF FakeWord, At
<1>20. CASE OpenAIDone(r) \/ StreamEOF(r)
  BY <1>3, <1>20, EndProgress DEF OpenAIDone, StreamEOF, At, Goto, TypeOK
<1>21. CASE FakeEnd(r)
  <2>1. stream'[r].sent = stream[r].sent
    BY <1>1, <1>21 DEF FakeEnd, TypeOK, Summary
  <2> QED
    BY <1>3, <1>21, <2>1, EndProgress DEF FakeEnd, At, Goto, TypeOK
<1>22. CASE FailEarly(r)
  <2>1. PICK why : Fail(r, entry[r], FailureStatus(why))
    BY <1>22 DEF FailEarly
  <2>2. pc[r] = "reading" /\ rows' = rows /\ FailureStatus(why) \in {400, 502, 504}
    BY <1>22, RecordTypes DEF FailEarly, At
  <2>3. /\ entry[r] \in Entry /\ entry[r].chars = 0 /\ entry[r].tokens = 0
        /\ rows[r] = NoRow
    BY <1>1, <1>3, <2>2
  <2> QED
    BY <2>1, <2>2, <2>3, FailProgress
<1>23. CASE FailLate(r)
  <2>1. wire[r].status = 200
    BY <1>3, <1>23 DEF FailLate, HeadersWritten, At, DuringAnswer
  <2>2. /\ DuringAnswer(r) /\ rows[r] = NoRow /\ rows' = rows
        /\ wire' = wire /\ entry' = entry /\ stream'[r].sent = stream[r].sent
        /\ pc'[r] = "aborting"
    BY <1>3, <1>23 DEF FailLate, At, Goto, TypeOK
  <2> QED
    BY <2>1, <2>2, EndProgress
<1>24. CASE Abort(r)
  <2> DEFINE f == Aborted(entry[r], stream[r])
             w == [wire[r] EXCEPT !.tail = "error"]
  <2>1. /\ f.status = 200 /\ f.error = "failed" /\ f.chars = stream[r].sent
        /\ f.tokens = entry[r].tokens
        /\ w.tail = "error" /\ w.status = wire[r].status /\ w.chars = wire[r].chars
    BY <1>1 DEF Aborted, Entry, Answer
  <2>2. /\ entry'[r] = f /\ wire'[r] = w /\ pc'[r] = "logging" /\ rows' = rows
    BY <1>24 DEF Abort, TypeOK, Goto
  <2>3. /\ wire[r].status = 200 /\ DuringAnswer(r) /\ entry[r].tokens = 0
    BY <1>3, <1>24 DEF Abort, At, Progress
  <2> HIDE DEF f, w
  <2>4. Tells(f, w)
    BY <2>1, <2>3 DEF Tells, DuringAnswer
  <2>5. f.tokens = 0 /\ w.status = 200
    BY <2>1, <2>3
  <2>6. AfterAnswer(r)'
    BY <2>2, <2>4, <2>5 DEF AfterAnswer
  <2> QED
    BY <1>3, <1>24, <2>2, <2>6 DEF Progress, Abort, At
<1>25. CASE Finish(r)
  <2> DEFINE m == IF stream[r].model # NoModel THEN stream[r].model ELSE entry[r].model
  <2>1. /\ m \in Models \cup {NoModel}
        /\ stream[r].sent \in 0..MaxChars
        /\ stream[r].tokens \in {0, 1}
    BY <1>1 DEF Summary, Entry
  <2>2. /\ entry' = [entry EXCEPT ![r] = Answered(@, stream[r].sent, m, stream[r].tokens)]
        /\ wire'  = [wire EXCEPT ![r] = [Headers(@) EXCEPT !.model = m, !.tail = "done"]]
    BY <1>25 DEF Finish
  <2>3. wire'[r] = [Headers(wire[r]) EXCEPT !.model = m, !.tail = "done"]
    BY <2>2 DEF TypeOK
  <2> HIDE DEF m
  <2>4. /\ wire'[r].status = 200 /\ wire'[r].chars = wire[r].chars
        /\ wire'[r].model = m /\ wire'[r].tail = "done"
    BY <1>1, <2>3 DEF Headers, Answer
  <2>5. /\ pc'[r] = "logging" /\ rows' = rows /\ wire'[r] \in Answer
    BY <1>25 DEF Finish, Goto, TypeOK
  <2>6. /\ wire[r].chars = stream[r].sent /\ rows[r] = NoRow /\ entry[r].error = ""
    BY <1>3, <1>25 DEF Finish, At, DuringAnswer
  <2>7. wire'[r].chars = stream[r].sent
    BY <2>4, <2>6
  <2>8. entry \in [Requests -> Entry]
    BY DEF TypeOK
  <2>9. entry'[r] = Answered(entry[r], stream[r].sent, m, stream[r].tokens)
    BY <2>2, <2>8, Zenon
  <2>10. Completes(entry[r], entry'[r], stream[r].sent, m)
    BY <1>1, <2>9, AnsweredCompletes
  <2>11. entry'[r].status = 200 /\ entry'[r].error = ""
    BY <2>6, <2>10 DEF Completes
  <2>12. entry'[r].chars = wire'[r].chars /\ entry'[r].model = wire'[r].model
    BY <2>4, <2>7, <2>10, Zenon DEF Completes
  <2> QED
    BY <2>4, <2>5, <2>6, <2>11, <2>12, DoneProgress, Zenon
<1>26. CASE Log(r) \/ LogFails(r)
  BY <1>26 DEF Log, LogFails, At, Goto, TypeOK, Progress, AfterAnswer
<1> QED
  BY <1>5, <1>6, <1>7, <1>8, <1>9, <1>10, <1>11, <1>12, <1>13, <1>14, <1>15, <1>16, <1>17,
     <1>18, <1>19, <1>20, <1>21, <1>22, <1>23, <1>24, <1>25, <1>26
     DEF Handler, Validate, Streaming

\* The client and the timers of r do not move its handler.
LEMMA ClientKeeps ==
    ASSUME NEW r \in Requests, Client(r)
    PROVE  /\ pc' = pc /\ entry' = entry /\ stream' = stream /\ wire' = wire
           /\ rows' = rows /\ server' = server
BY DEF Client, Stall, Resume, Leave, Cancel, Deadline

LEMMA HandlerKeeps ==
    ASSUME NEW r \in Requests, Handler(r)
    PROVE  server' = server /\ Running
<1>1. CASE \/ Arrive(r) \/ Refuse(r) \/ Validate(r) \/ Retrieve(r) \/ ChatReturns(r)
           \/ ChatFails(r) \/ RejectStream(r) \/ Open(r) \/ OpenFails(r) \/ Log(r)
           \/ LogFails(r)
  BY <1>1 DEF Arrive, Refuse, Validate, RejectBody, RejectProvider, RejectRag, BodyRead, Route,
              Retrieve, ChatReturns, ChatFails, RejectStream, Open, OpenFails, Log,
              LogFails, At
<1>2. CASE Streaming(r)
  BY <1>2 DEF Streaming, OllamaLine, OpenAILine, OpenAIDone, FakeWord, FakeEnd, StreamEOF,
              FailEarly, FailLate, Abort, Finish, At
<1> QED
  BY <1>1, <1>2 DEF Handler

LEMMA ProcessKeeps ==
    ASSUME Process
    PROVE  /\ pc' = pc /\ entry' = entry /\ stream' = stream /\ wire' = wire
           /\ rows' = rows /\ Running /\ (server' = "drained" => Quiet)
BY DEF Process, Signal, Drained, GraceExpires, Crash, Running

THEOREM ConsistentInit == Init => Consistent
<1> SUFFICES ASSUME Init, NEW r \in Requests PROVE Progress(r)
  BY DEF Init, Consistent
<1>1. /\ pc[r] = "idle" /\ wire[r] = NoWire /\ stream[r] = NoStream
      /\ entry[r] = NoEntry /\ rows[r] = NoRow
  BY DEF Init
<1>2. Unsettled(NoEntry)
  BY DEF NoEntry, Unsettled
<1> QED
  BY <1>1, <1>2 DEF Progress, BeforeAnswer

THEOREM ConsistentStep == TypeOK /\ TypeOK' /\ Consistent /\ [Next]_vars => Consistent'
<1> SUFFICES ASSUME TypeOK, TypeOK', Consistent, [Next]_vars PROVE Consistent'
  OBVIOUS
<1>1. \A r \in Requests : Progress(r)
  BY DEF Consistent
<1>2. CASE UNCHANGED vars
  <2>1. \A q \in Requests : Progress(q)'
    BY <1>1, <1>2, ProgressKept DEF vars
  <2> QED
    BY <1>2, <2>1 DEF Consistent, Quiet, vars
<1>3. CASE Process
  <2>1. \A q \in Requests : Progress(q)'
    BY <1>1, <1>3, ProcessKeeps, ProgressKept
  <2>2. server' = "drained" => Quiet'
    BY <1>3, ProcessKeeps DEF Quiet
  <2> QED
    BY <2>1, <2>2 DEF Consistent
<1>4. ASSUME NEW r \in Requests, Handler(r) PROVE Consistent'
  <2>1. ASSUME NEW q \in Requests PROVE Progress(q)'
    <3>1. CASE q = r
      BY <1>1, <1>4, <3>1, HandlerProgress
    <3>2. CASE q # r
      BY <1>1, <1>4, <3>2, Frame, ProgressKept
    <3> QED BY <3>1, <3>2
  <2>2. server' # "drained"
    BY <1>4, HandlerKeeps DEF Running
  <2> QED
    BY <2>1, <2>2 DEF Consistent
<1>5. ASSUME NEW r \in Requests, Client(r) PROVE Consistent'
  <2>1. \A q \in Requests : Progress(q)'
    BY <1>1, <1>5, ClientKeeps, ProgressKept
  <2>2. server' = server /\ pc' = pc
    BY <1>5, ClientKeeps
  <2> QED
    BY <2>1, <2>2 DEF Consistent, Quiet
<1> QED
  BY <1>2, <1>3, <1>4, <1>5 DEF Next

THEOREM Consistency == Spec => []Consistent
BY Typing, TypeInit, TypeStep, ConsistentInit, ConsistentStep, PTL DEF Spec
-----------------------------------------------------------------------------
(***************************************************************************)
(* What follows from it.                                                   *)
(***************************************************************************)

\* Every row of the request log tells of the answer its client was given.
THEOREM RowsTellTheAnswer == Spec => []RowTellsTheAnswer
<1>1. TypeOK /\ Consistent => RowTellsTheAnswer
  BY DEF Consistent, Progress, AfterAnswer, RowTellsTheAnswer
<1> QED
  BY <1>1, Typing, Consistency, PTL

\* No row of a failed request carries token usage.
THEOREM FailuresHaveNoTokens == Spec => []NoTokensForFailures
<1>1. TypeOK /\ Consistent => NoTokensForFailures
  BY DEF Consistent, Progress, AfterAnswer, NoTokensForFailures
<1> QED
  BY <1>1, Typing, Consistency, PTL

\* A shutdown that drains loses no row but those whose own write failed.
THEOREM DrainingKeepsTheLog == Spec => []DrainedLogIsComplete
<1>1. TypeOK /\ Consistent => DrainedLogIsComplete
  <2> SUFFICES ASSUME TypeOK, Consistent, server = "drained", NEW r \in Requests,
                      pc[r] \notin {"idle", "refused"}
               PROVE  wire[r].tail # "open" /\ (rows[r] # NoRow \/ pc[r] = "dropped")
    BY DEF DrainedLogIsComplete
  <2>1. pc[r] \in {"done", "dropped"}
    BY DEF Consistent, Quiet, TypeOK, Active, Over
  <2>2. Tells(entry[r], wire[r])
    BY <2>1 DEF Consistent, Progress, AfterAnswer
  <2>3. entry[r] # NoRow
    BY ChatAssumption DEF TypeOK
  <2>4. rows[r] = IF pc[r] = "done" THEN entry[r] ELSE NoRow
    BY DEF Consistent, Progress
  <2> QED
    BY <2>1, <2>2, <2>3, <2>4 DEF Tells
<1> QED
  BY <1>1, Typing, Consistency, PTL
-----------------------------------------------------------------------------
(***************************************************************************)
(* How a step of its handler can change the answer of a request, with the  *)
(* row it leaves alone; only Log changes rows.                             *)
(***************************************************************************)
Begins(r)   == wire[r].status = 0 /\ wire'[r].status = 200 /\ wire'[r].tail = "open"
Grows(r)    == wire'[r].status = wire[r].status /\ wire'[r].tail = "open"
Succeeds(r) == wire'[r].status = 200 /\ wire'[r].tail = "done"
Errs(r)     == /\ \/ wire[r].status # 0 /\ wire'[r].status = wire[r].status
                  \/ wire[r].status = 0 /\ wire'[r].status \in {400, 401, 502, 504}
               /\ wire'[r].tail = "error"

AnswerMoves(r) == /\ wire[r].tail = "open"
                  /\ wire[r].status \in {0, 200}
                  /\ wire'[r].chars >= wire[r].chars
                  /\ rows' = rows
                  /\ Begins(r) \/ Grows(r) \/ Succeeds(r) \/ Errs(r)

\* An answer that fails from the start.
LEMMA FailMoves ==
    ASSUME TypeOK, NEW r \in Requests, wire[r].tail = "open", wire[r].status = 0,
           wire[r].chars = 0, rows' = rows, NEW s, s \in {400, 401, 502, 504},
           wire'[r] = Error(s)
    PROVE  AnswerMoves(r)
<1>1. /\ wire'[r].status = s /\ wire'[r].tail = "error" /\ wire'[r].chars = 0
  BY DEF TypeOK, Error
<1> QED
  BY <1>1 DEF AnswerMoves, Errs

LEMMA RelayMoves ==
    ASSUME TypeOK, NEW r \in Requests, DuringAnswer(r), rows' = rows,
           NEW n \in Nat, NEW got, NEW last, Relay(r, n, got, last)
    PROVE  wire'[r] = wire[r] \/ AnswerMoves(r)
<1>1. wire[r] \in Answer
  BY DEF TypeOK
<1>2. ASSUME NEW k \in Nat, wire' = [wire EXCEPT ![r] = Delta(@, k)]
      PROVE  AnswerMoves(r)
  <2>1. wire'[r] = Delta(wire[r], k)
    BY <1>2 DEF TypeOK
  <2>2. /\ Delta(wire[r], k).chars = wire[r].chars + k
        /\ Delta(wire[r], k).status = 200
        /\ Delta(wire[r], k).tail = wire[r].tail
    BY <1>1 DEF Delta, Headers, Answer
  <2>3. wire[r].chars \in Nat
    BY <1>1 DEF Answer
  <2> QED
    BY <2>1, <2>2, <2>3 DEF AnswerMoves, DuringAnswer, Begins, Grows
<1>3. CASE wire' = [wire EXCEPT ![r] = IF n > 0 THEN Delta(@, n) ELSE @]
  <2>1. CASE n > 0
    BY <1>2, <1>3, <2>1
  <2>2. CASE ~(n > 0)
    BY <1>3, <2>2 DEF TypeOK
  <2> QED BY <2>1, <2>2
<1>4. ASSUME NEW k \in 0..(n - 1), wire' = [wire EXCEPT ![r] = Delta(@, k)]
      PROVE  AnswerMoves(r)
  <2>1. k \in Nat
    OBVIOUS
  <2> QED BY <1>2, <1>4, <2>1
<1> QED
  BY <1>3, <1>4 DEF Relay

LEMMA HandlerMoves ==
    ASSUME TypeOK, Consistent, NEW r \in Requests, Handler(r), ~Log(r)
    PROVE  /\ wire'[r] = wire[r] \/ AnswerMoves(r)
           /\ rows' = rows
<1>1. /\ wire[r] \in Answer
      /\ pc[r] \in {"idle", "received", "retrieving", "calling"} => BeforeAnswer(r)
      /\ pc[r] \in {"reading", "aborting", "finishing"} => DuringAnswer(r)
      /\ pc[r] = "aborting" => wire[r].status = 200
  BY DEF TypeOK, Consistent, Progress
<1>2. BeforeAnswer(r) => wire[r].tail = "open" /\ wire[r].status = 0 /\ wire[r].chars = 0
  BY DEF BeforeAnswer, NoWire
<1>3. CASE \/ Arrive(r) \/ Route(r) \/ Retrieve(r) \/ Open(r) \/ OpenAIDone(r)
           \/ FakeEnd(r) \/ StreamEOF(r) \/ FailLate(r) \/ LogFails(r)
  BY <1>3 DEF Arrive, BodyRead, Route, Retrieve, Open, OpenAIDone, FakeEnd, StreamEOF, FailLate,
              LogFails
<1>4. CASE Refuse(r)
  BY <1>1, <1>2, <1>4, FailMoves DEF Refuse, At, TypeOK
<1>5. CASE RejectBody(r) \/ RejectProvider(r) \/ RejectRag(r) \/ RejectStream(r)
  <2>1. \E e : Fail(r, e, 400)
    BY <1>5, Zenon DEF RejectBody, RejectProvider, RejectRag, BodyRead, RejectStream
  <2>2. rows' = rows /\ pc[r] \in {"received", "calling"}
    BY <1>5 DEF RejectBody, RejectProvider, RejectRag, BodyRead, RejectStream, At
  <2> QED
    BY <1>1, <1>2, <2>1, <2>2, FailMoves DEF Fail, TypeOK
<1>6. CASE ChatFails(r) \/ OpenFails(r)
  <2>1. PICK e, why : Fail(r, e, FailureStatus(why))
    BY <1>6, Zenon DEF ChatFails, OpenFails
  <2>2. rows' = rows /\ pc[r] = "calling" /\ FailureStatus(why) \in {400, 401, 502, 504}
    BY <1>6, RecordTypes DEF ChatFails, OpenFails, At
  <2>3. wire' = [wire EXCEPT ![r] = Error(FailureStatus(why))]
    BY <2>1 DEF Fail
  <2>4. wire[r].status = 0 /\ wire[r].tail = "open" /\ wire[r].chars = 0
    BY <1>1, <1>2, <2>2
  <2>5. wire'[r] = Error(FailureStatus(why))
    BY <2>3 DEF TypeOK
  <2> QED
    BY <2>2, <2>4, <2>5, FailMoves
<1>7. CASE FailEarly(r)
  <2>1. PICK why : Fail(r, entry[r], FailureStatus(why))
    BY <1>7 DEF FailEarly
  <2>2. rows' = rows /\ pc[r] = "reading" /\ FailureStatus(why) \in {400, 401, 502, 504}
    BY <1>7, RecordTypes DEF FailEarly, At
  <2>3. wire' = [wire EXCEPT ![r] = Error(FailureStatus(why))]
    BY <2>1 DEF Fail
  <2>4. wire[r].status = 0 /\ wire[r].tail = "open" /\ wire[r].chars = 0
    BY <1>1, <1>7, <2>2 DEF FailEarly, HeadersWritten, DuringAnswer
  <2>5. wire'[r] = Error(FailureStatus(why))
    BY <2>3 DEF TypeOK
  <2> QED
    BY <2>2, <2>4, <2>5, FailMoves
<1>8. CASE ChatReturns(r)
  <2> PICK resp \in Response(r) :
           wire' = [wire EXCEPT ![r] = [status |-> 200, model |-> resp.model,
                                        chars |-> resp.chars, tail |-> "done"]]
    BY <1>8 DEF ChatReturns
  <2>1. resp.chars \in Nat
    BY ResponseTypes, ChatAssumption DEF TypeOK
  <2>2. wire'[r].status = 200 /\ wire'[r].chars = resp.chars /\ wire'[r].tail = "done"
    BY DEF TypeOK
  <2> QED
    BY <1>1, <1>2, <1>8, <2>1, <2>2 DEF ChatReturns, At, AnswerMoves, Succeeds
<1>9. CASE OllamaLine(r) \/ OpenAILine(r) \/ FakeWord(r)
  <2>1. \E n, got, last : Relay(r, n, got, last) /\ n \in 0..2
    <3>1. CASE OllamaLine(r)
      <4>1. \E got, last : \E n \in 0..1 : Relay(r, n, got, last)
        BY <3>1, Zenon DEF OllamaLine
      <4> QED BY <4>1
    <3>2. CASE OpenAILine(r)
      BY <3>2, Zenon DEF OpenAILine
    <3>3. CASE FakeWord(r)
      <4>1. Relay(r, 1, stream[r], FALSE)
        BY <3>3 DEF FakeWord
      <4>2. 1 \in 0..2
        OBVIOUS
      <4> QED BY <4>1, <4>2, Zenon
    <3> QED BY <1>9, <3>1, <3>2, <3>3
  <2>2. rows' = rows /\ pc[r] = "reading"
    BY <1>9 DEF OllamaLine, OpenAILine, FakeWord, At
  <2> QED
    BY <1>1, <2>1, <2>2, RelayMoves
<1>10. CASE Abort(r)
  <2>1. wire'[r] = [wire[r] EXCEPT !.tail = "error"] /\ rows' = rows /\ pc[r] = "aborting"
    BY <1>10 DEF Abort, At, TypeOK
  <2>2. /\ wire'[r].status = wire[r].status /\ wire'[r].chars = wire[r].chars
        /\ wire'[r].tail = "error" /\ wire[r].chars \in Nat
    BY <1>1, <2>1 DEF Answer
  <2> QED
    BY <1>1, <2>1, <2>2 DEF AnswerMoves, Errs, DuringAnswer
<1>11. CASE Finish(r)
  <2>1. PICK m : wire'[r] = [Headers(wire[r]) EXCEPT !.model = m, !.tail = "done"]
    BY <1>11 DEF Finish, TypeOK
  <2>2. /\ wire'[r].status = 200 /\ wire'[r].chars = wire[r].chars
        /\ wire'[r].tail = "done" /\ wire[r].chars \in Nat
    BY <1>1, <2>1 DEF Headers, Answer
  <2>3. rows' = rows /\ pc[r] = "finishing"
    BY <1>11 DEF Finish, At
  <2> QED
    BY <1>1, <2>2, <2>3 DEF AnswerMoves, Succeeds, DuringAnswer
<1> QED
  BY <1>3, <1>4, <1>5, <1>6, <1>7, <1>8, <1>9, <1>10, <1>11
     DEF Handler, Validate, Streaming

\* The answers of the other requests, and everything outside the handlers.
LEMMA OthersKeep ==
    ASSUME TypeOK, NEW q \in Requests, [Next]_vars, ~Handler(q)
    PROVE  wire'[q] = wire[q] /\ rows'[q] = rows[q]
<1>1. CASE UNCHANGED vars
  BY <1>1 DEF vars
<1>2. CASE Process
  BY <1>2, ProcessKeeps
<1>3. ASSUME NEW r \in Requests, Handler(r) PROVE wire'[q] = wire[q] /\ rows'[q] = rows[q]
  BY <1>3, Frame
<1>4. ASSUME NEW r \in Requests, Client(r) PROVE wire'[q] = wire[q] /\ rows'[q] = rows[q]
  BY <1>4, ClientKeeps
<1> QED
  BY <1>1, <1>2, <1>3, <1>4 DEF Next

\* An answer is never taken back: its status stays, nothing follows its end.
THEOREM AnswersGrow == Spec => AnswersOnlyGrow
<1> DEFINE Grown(r) == /\ wire[r].status # 0 => wire'[r].status = wire[r].status
                       /\ wire[r].tail # "open" => wire'[r] = wire[r]
                       /\ wire'[r].chars >= wire[r].chars
<1>1. ASSUME TypeOK, Consistent, [Next]_vars, NEW r \in Requests PROVE Grown(r)
  <2>1. wire[r].chars \in Nat
    BY <1>1 DEF TypeOK, Answer
  <2>2. CASE wire'[r] = wire[r]
    BY <2>1, <2>2
  <2>3. CASE AnswerMoves(r)
    BY <2>3 DEF AnswerMoves, Begins, Grows, Succeeds, Errs
  <2>4. CASE Log(r)
    BY <2>2, <2>4 DEF Log
  <2> QED
    BY <1>1, <2>2, <2>3, <2>4, OthersKeep, HandlerMoves
<1>2. TypeOK /\ Consistent /\ [Next]_vars => [\A r \in Requests : Grown(r)]_vars
  BY <1>1
<1> QED
  BY <1>2, Typing, Consistency, PTL DEF Spec, AnswersOnlyGrow
-----------------------------------------------------------------------------
(***************************************************************************)
(* The handler implements the ledger.                                      *)
(***************************************************************************)
told(r)   == [status |-> wire[r].status, outcome |-> wire[r].tail]
booked(r) == IF rows[r] = NoRow THEN [status |-> 0, outcome |-> "none"]
             ELSE [status  |-> rows[r].status,
                   outcome |-> IF rows[r].error = "" THEN "done" ELSE "error"]
answers   == [r \in Requests |-> told(r)]
books     == [r \in Requests |-> booked(r)]

LEMMA LedgerInit == Init => Ledger!Init
<1> SUFFICES ASSUME Init PROVE Ledger!Init
  OBVIOUS
<1>1. \A r \in Requests : wire[r] = NoWire /\ rows[r] = NoRow
  BY DEF Init
<1>2. NoWire.status = 0 /\ NoWire.tail = "open"
  BY DEF NoWire
<1>3. Running
  BY DEF Init, Running
<1> QED
  BY <1>1, <1>2, <1>3 DEF Ledger!Init, Ledger!NoAnswer, Ledger!NoRecord

\* One request's answer moves, the books do not.
LEMMA LedgerAnswer ==
    ASSUME TypeOK, NEW r \in Requests, AnswerMoves(r), Running, server' = server,
           \A q \in Requests : q # r => wire'[q] = wire[q]
    PROVE  [Ledger!Next]_(Ledger!ledgerVars)
<1>1. Running' <=> Running
  BY DEF Running
<1>2. books' = books
  BY DEF AnswerMoves, books, booked
<1>3. answers' = [answers EXCEPT ![r] = told(r)']
  BY DEF answers, told
<1>4. answers[r] = told(r)
  BY DEF answers
<1>5. CASE Grows(r)
  BY <1>1, <1>2, <1>3, <1>4, <1>5
     DEF Grows, AnswerMoves, told, answers, books, booked, Ledger!ledgerVars
<1>6. CASE Begins(r)
  <2>1. Ledger!Begin(r)
    <3>1. told(r) = [status |-> 0, outcome |-> "open"]
      BY <1>6 DEF Begins, AnswerMoves, told
    <3>2. told(r)' = [status |-> 200, outcome |-> "open"]
      BY <1>6 DEF Begins, told
    <3>3. [answers[r] EXCEPT !.status = 200] = told(r)'
      BY <1>4, <3>1, <3>2
    <3>4. answers' = [answers EXCEPT ![r] = [answers[r] EXCEPT !.status = 200]]
      BY <1>3, <3>3
    <3>5. answers[r] = [status |-> 0, outcome |-> "open"]
      BY <1>4, <3>1
    <3> QED
      BY <1>1, <1>2, <3>4, <3>5
         DEF answers, told, books, booked, Ledger!Begin, Ledger!NoAnswer
  <2> QED BY <2>1 DEF Ledger!Next
<1>7. CASE Succeeds(r)
  <2>1. Ledger!Succeed(r)
    BY <1>1, <1>2, <1>3, <1>4, <1>7
       DEF Succeeds, AnswerMoves, told, answers, books, booked, Ledger!Succeed
  <2> QED BY <2>1 DEF Ledger!Next
<1>8. CASE Errs(r)
  <2>1. PICK s \in {400, 401, 502, 504} \cup {200} : s = wire'[r].status
    BY <1>8 DEF Errs, AnswerMoves
  <2>2. Ledger!FailWith(r, s)
    BY <1>1, <1>2, <1>3, <1>4, <1>8, <2>1
       DEF Errs, AnswerMoves, told, answers, books, booked, Ledger!FailWith
  <2> QED BY <2>2 DEF Ledger!Next
<1> QED
  BY <1>5, <1>6, <1>7, <1>8 DEF AnswerMoves

LEMMA LedgerRecord ==
    ASSUME TypeOK, Consistent, NEW r \in Requests, Log(r)
    PROVE  [Ledger!Next]_(Ledger!ledgerVars)
<1>1. /\ Running /\ Running' /\ wire' = wire
      /\ rows' = [rows EXCEPT ![r] = entry[r]]
      /\ pc[r] = "logging"
  BY DEF Log, At, Running
<1>2. /\ rows[r] = NoRow /\ Tells(entry[r], wire[r])
      /\ wire[r].status \in {200, 400, 502, 504}
  BY <1>1 DEF Consistent, Progress, AfterAnswer
<1>3. entry[r] # NoRow /\ rows'[r] = entry[r]
  BY <1>1, ChatAssumption DEF TypeOK
<1>4. answers' = answers
  BY <1>1 DEF answers, told
<1>5. /\ entry[r].status = wire[r].status
      /\ wire[r].tail = IF entry[r].error = "" THEN "done" ELSE "error"
  <2>1. wire[r].tail \in {"open", "done", "error"}
    BY DEF TypeOK, Answer
  <2> QED BY <1>2, <2>1 DEF Tells
<1>6. booked(r)' = told(r)
  BY <1>3, <1>5 DEF booked, told
<1>7. books' = [books EXCEPT ![r] = told(r)]
  <2>1. \A q \in Requests : q # r => rows'[q] = rows[q]
    BY <1>1 DEF TypeOK
  <2> QED BY <1>6, <2>1 DEF books, booked
<1>8. answers[r] = told(r) /\ books[r] = [status |-> 0, outcome |-> "none"]
  BY <1>2 DEF answers, books, booked
<1>9. told(r).outcome # "open" /\ told(r).status # 401
  <2>1. wire[r].tail # "open"
    BY <1>5
  <2>2. wire[r].status # 401
    BY <1>2
  <2> QED BY <2>1, <2>2 DEF told
<1>10. Ledger!Record(r)
  BY <1>1, <1>4, <1>7, <1>8, <1>9
     DEF answers, books, told, booked, Ledger!Record, Ledger!Unlogged, Ledger!NoRecord
<1> QED
  BY <1>10 DEF Ledger!Next

LEMMA LedgerStep ==
    TypeOK /\ TypeOK' /\ Consistent /\ [Next]_vars => [Ledger!Next]_(Ledger!ledgerVars)
<1> SUFFICES ASSUME TypeOK, TypeOK', Consistent, [Next]_vars
             PROVE  [Ledger!Next]_(Ledger!ledgerVars)
  OBVIOUS
<1>1. ASSUME wire' = wire, rows' = rows, Running' <=> Running
      PROVE  UNCHANGED Ledger!ledgerVars
  BY <1>1 DEF Ledger!ledgerVars
<1>2. CASE UNCHANGED vars
  BY <1>1, <1>2 DEF vars, Running
<1>3. CASE Process
  <2>1. wire' = wire /\ rows' = rows /\ Running
    BY <1>3, ProcessKeeps
  <2>2. CASE Running'
    BY <1>1, <2>1, <2>2
  <2>3. CASE ~Running'
    <3>1. Ledger!Stop
      BY <2>1, <2>3 DEF Ledger!Stop
    <3> QED BY <3>1 DEF Ledger!Next
  <2> QED BY <2>2, <2>3
<1>4. ASSUME NEW r \in Requests, Client(r) PROVE [Ledger!Next]_(Ledger!ledgerVars)
  BY <1>1, <1>4, ClientKeeps DEF Running
<1>5. ASSUME NEW r \in Requests, Handler(r) PROVE [Ledger!Next]_(Ledger!ledgerVars)
  <2>1. /\ server' = server /\ Running
        /\ \A q \in Requests : q # r => wire'[q] = wire[q]
    BY <1>5, HandlerKeeps, Frame
  <2>2. CASE Log(r)
    BY <2>2, LedgerRecord
  <2>3. CASE AnswerMoves(r)
    BY <2>1, <2>3, LedgerAnswer
  <2>4. CASE wire'[r] = wire[r] /\ ~Log(r)
    <3>1. wire' \in [Requests -> Answer]
      BY DEF TypeOK
    <3>2. wire' = wire
      BY <2>1, <2>4, <3>1 DEF TypeOK
    <3>3. rows' = rows
      BY <1>5, <2>4, HandlerMoves
    <3> QED BY <1>1, <2>1, <3>2, <3>3 DEF Running
  <2> QED
    BY <1>5, <2>2, <2>3, <2>4, HandlerMoves
<1> QED
  BY <1>2, <1>3, <1>4, <1>5 DEF Next

\* Every behaviour of the handler is one the ledger allows.
THEOREM HandlerImplementsLedger == Spec => ImplementsLedger
BY LedgerInit, LedgerStep, Typing, Consistency, PTL
   DEF Spec, ImplementsLedger, Ledger!LedgerSpec
==============================================================================
