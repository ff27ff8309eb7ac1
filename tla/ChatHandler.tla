----------------------------- MODULE ChatHandler -----------------------------
(***************************************************************************)
(* The life of POST /v1/chat/completions: the bearer check, the handler    *)
(* with its validation, retrieval and provider call, the streaming branch, *)
(* the deferred write of the request log, and the shutdown that may cut    *)
(* any of these short (internal/auth, internal/httpapi/server.go and       *)
(* stream.go, internal/provider, cmd/server/main.go).                      *)
(*                                                                         *)
(* Each request is a goroutine of its own: pc[r] says where its handler    *)
(* stands.  Around it move the client (which stalls, or leaves),           *)
(* the timers (the request's deadline, the shutdown's grace period) and    *)
(* the upstream provider (which answers, breaks off, or hangs).            *)
(*                                                                         *)
(* Text is abstracted to its amount: a delta of a stream counts one, and   *)
(* the content of a JSON answer counts 0..MaxChars.  Token usage is 0 when *)
(* nothing was reported, 1 otherwise.                                      *)
(***************************************************************************)
EXTENDS Naturals

CONSTANTS
    Requests,          \* the requests that may arrive
    Shapes,            \* the kinds of request clients send (see Shape)
    Models,            \* model names
    NoModel,           \* the empty model name
    Registry,          \* the configured providers
    Streamers,         \* those of them that implement Streamer
    DefaultProvider,   \* GATEWAY_DEFAULT_PROVIDER
    DefaultModel,      \* GATEWAY_DEFAULT_MODEL
    AuthRequired,      \* TRUE iff GATEWAY_AUTH_TOKEN is set
    MaxChars,          \* bound: the length of an answer
    NoRow,             \* stands for "not in the requests table"
    Faults             \* what the environment may do wrong (see FaultKinds)

Kinds        == {"fake", "ollama", "openai", "plain"}
Bodies       == {"ok", "malformed", "empty"}
FaultKinds   == {"leave", "stall", "log", "crash"}

\* What a client can ask for.  "" leaves the provider to the default, NoModel
\* the model; user tells whether some message has the role "user".
Shape == [token : BOOLEAN, body : Bodies, provider : Kinds \cup {"", "unknown"},
          model : Models \cup {NoModel}, rag : BOOLEAN, user : BOOLEAN,
          stream : BOOLEAN]

\* store.Entry, in what the properties tell apart.
Entry == [provider : Kinds \cup {"", "unknown"}, model : Models \cup {NoModel},
          status : Nat, error : {"", "failed"}, chars : 0..MaxChars, tokens : {0, 1},
          rag : {"", "chunks"}]

\* What streamChat collects while a stream runs, and what has been written to a
\* ResponseWriter: the status line (0 before it), the model an answer names at
\* its end, the amount of content, and how it ended.
Summary == [model : Models \cup {NoModel}, tokens : {0, 1}, sent : 0..MaxChars]
Answer  == [status : Nat, model : Models \cup {NoModel}, chars : Nat,
            tail : {"open", "done", "error"}]

ASSUME ChatAssumption == /\ Shapes \subseteq Shape
                         /\ NoModel \notin Models
                         /\ DefaultModel \in Models
                         /\ Registry \subseteq Kinds
                         /\ DefaultProvider \in Registry
                         /\ Streamers \subseteq Registry
                         /\ AuthRequired \in BOOLEAN
                         /\ MaxChars \in Nat \ {0}
                         /\ NoRow \notin Entry
                         /\ Faults \subseteq FaultKinds

VARIABLES
    rag,       \* whether GATEWAY_EMBEDDER is set, fixed when the process starts
    server,    \* the process: serving, draining, then one of the three ends
    pc,        \* pc[r]: where the handler of r stands
    req,       \* req[r]: what r asks for
    conn,      \* conn[r]: whether the client of r sends its body and reads
    ctx,       \* ctx[r]: the context of r, live or the reason it is done
    entry,     \* entry[r]: the log entry being filled in
    stream,    \* stream[r]: the locals of a running stream
    ended,     \* ended[r]: the upstream said that its answer was complete
    wire,      \* wire[r]: what was given to the ResponseWriter of r
    rows       \* rows[r]: the row of r in the requests table

vars == <<rag, server, pc, req, conn, ctx, entry, stream, ended, wire, rows>>

NoEntry  == [provider |-> "", model |-> NoModel, status |-> 0, error |-> "",
             chars |-> 0, tokens |-> 0, rag |-> ""]
NoStream == [model |-> NoModel, tokens |-> 0, sent |-> 0]
NoWire   == [status |-> 0, model |-> NoModel, chars |-> 0, tail |-> "open"]

Over   == {"refused", "done", "dropped"}
Active == {"received", "retrieving", "calling", "reading", "aborting", "finishing",
           "logging"}

Init == /\ rag    \in BOOLEAN
        /\ server = "serving"
        /\ pc     = [r \in Requests |-> "idle"]
        /\ req    \in [Requests -> Shapes]
        /\ conn   = [r \in Requests |-> "open"]
        /\ ctx    = [r \in Requests |-> "live"]
        /\ entry  = [r \in Requests |-> NoEntry]
        /\ stream = [r \in Requests |-> NoStream]
        /\ ended  = [r \in Requests |-> FALSE]
        /\ wire   = [r \in Requests |-> NoWire]
        /\ rows   = [r \in Requests |-> NoRow]
-----------------------------------------------------------------------------
(***************************************************************************)
(* What a request means to this gateway.                                   *)
(***************************************************************************)
ProviderOf(q) == IF q.provider = "" THEN DefaultProvider ELSE q.provider
ModelOf(q)    == IF q.model = NoModel THEN DefaultModel ELSE q.model
Admitted(q)   == AuthRequired => q.token
Routable(q)   == ProviderOf(q) \in Registry

\* The entry once the provider, and then the model, is known.
Named(r)  == [entry[r] EXCEPT !.provider = ProviderOf(req[r])]
Routed(r) == [entry[r] EXCEPT !.provider = ProviderOf(req[r]),
                              !.model    = ModelOf(req[r])]

Running      == server \in {"serving", "draining"}
At(r, label) == Running /\ pc[r] = label
Goto(r, label) == pc' = [pc EXCEPT ![r] = label]

(***************************************************************************)
(* Writing to the client.  A write blocks while the client's buffers are   *)
(* full.  On a connection the client has left it may fail, or still fall   *)
(* into a buffer.  Only sendChunk looks at the error.                      *)
(***************************************************************************)
Writable(r)    == conn[r] # "stalled"
WriteErrors(r) == IF conn[r] = "gone" THEN BOOLEAN ELSE {FALSE}

\* A JSON answer: status and body in one go.
Error(s)      == [status |-> s, model |-> NoModel, chars |-> 0, tail |-> "error"]
Headers(w)    == [w EXCEPT !.status = 200]
Delta(w, n)   == [Headers(w) EXCEPT !.chars = @ + n]

\* fail: the JSON error answer and the entry that goes with it; the handler
\* then returns, and the deferred write of the log is next.
Fail(r, e, s) == /\ Writable(r)
                 /\ wire'  = [wire EXCEPT ![r] = Error(s)]
                 /\ entry' = [entry EXCEPT ![r] = [e EXCEPT !.status = s, !.error = "failed"]]
                 /\ Goto(r, "logging")

\* Mutation: the error goes out under status 200.
FailureUnder200(why) == 200
FailureStatus(why)   == IF why = "deadline" THEN 504 ELSE 502

\* Mutation: the call is not given the context.
NoExpiry(r) == {}

\* How a call to the provider can fail: the fake one only notices that its
\* context is done.  A connection attempt may time out before the request's
\* own deadline does, with an error that also counts as a missed deadline.
Expiry(r)     == {ctx[r]} \ {"live"}
CallErrors(r) == IF entry[r].provider = "fake" THEN Expiry(r)
                 ELSE Expiry(r) \cup {"network", "deadline"}
ReadErrors(r) == IF entry[r].provider = "fake" THEN Expiry(r)
                 ELSE Expiry(r) \cup {"network"}
-----------------------------------------------------------------------------
(***************************************************************************)
(* Arrival, and the checks that need no provider.                          *)
(***************************************************************************)

\* A connection accepted before the signal may still carry a request.
Arrive(r) == /\ At(r, "idle")
             /\ Admitted(req[r])
             /\ Goto(r, "received")
             /\ UNCHANGED <<rag, server, req, conn, ctx, entry, stream, ended, wire, rows>>

\* RequireBearer answers by itself: the handler, and its log, never run.
Refuse(r) == /\ At(r, "idle")
             /\ ~Admitted(req[r])
             /\ wire' = [wire EXCEPT ![r] = Error(401)]
             /\ Goto(r, "refused")
             /\ UNCHANGED <<rag, server, req, conn, ctx, entry, stream, ended, rows>>

\* A body that does not parse, has no messages, or was cut off by a client that
\* left.
RejectBody(r) == /\ At(r, "received")
                 /\ req[r].body # "ok" \/ conn[r] = "gone"
                 /\ Fail(r, entry[r], 400)
                 /\ UNCHANGED <<rag, server, req, conn, ctx, stream, ended, rows>>

\* The body is there: Decode waits for it as long as the client stalls, with no
\* deadline yet.  (A client that is gone may have sent all of it before.)
BodyRead(r) == At(r, "received") /\ conn[r] # "stalled" /\ req[r].body = "ok"

RejectProvider(r) == /\ BodyRead(r)
                     /\ ~Routable(req[r])
                     /\ Fail(r, Named(r), 400)
                     /\ UNCHANGED <<rag, server, req, conn, ctx, stream, ended, rows>>

RejectRag(r) == /\ BodyRead(r)
                /\ Routable(req[r])
                /\ req[r].rag /\ ~rag
                /\ Fail(r, Routed(r), 400)
                /\ UNCHANGED <<rag, server, req, conn, ctx, stream, ended, rows>>

\* The context with the request timeout is made here, which is when the
\* deadline starts to run.
Route(r) == /\ BodyRead(r)
            /\ Routable(req[r])
            /\ req[r].rag => rag
            /\ entry' = [entry EXCEPT ![r] = Routed(r)]
            /\ Goto(r, IF req[r].rag /\ req[r].user THEN "retrieving" ELSE "calling")
            /\ UNCHANGED <<rag, server, req, conn, ctx, stream, ended, wire, rows>>

\* Retrieval that fails, or finds nothing, leaves the request as it was.
Retrieve(r) == /\ At(r, "retrieving")
               /\ \E found \in {"", "chunks"} : entry' = [entry EXCEPT ![r].rag = found]
               /\ Goto(r, "calling")
               /\ UNCHANGED <<rag, server, req, conn, ctx, stream, ended, wire, rows>>
-----------------------------------------------------------------------------
(***************************************************************************)
(* The JSON answer.                                                        *)
(***************************************************************************)

\* The entry of an answer that was given to the end: n of content, model m,
\* usage t.
Answered(e, n, m, t) == [e EXCEPT !.status = 200, !.chars = n, !.model = m, !.tokens = t]

\* A complete answer of the provider: the fake one repeats the model it was
\* asked for and counts words; the others pass on what the upstream said,
\* which may leave the model or the usage out.
Response(r) ==
    IF entry[r].provider \in {"fake", "plain"}
    THEN [model : {entry[r].model}, chars : 1..MaxChars, tokens : {1}]
    ELSE [model : Models \cup {NoModel}, chars : 0..MaxChars, tokens : {0, 1}]

ChatReturns(r) ==
    /\ At(r, "calling")
    /\ ~req[r].stream
    /\ entry[r].provider \in {"fake", "plain"} => ctx[r] = "live"
    /\ Writable(r)
    /\ \E resp \in Response(r) :
          /\ entry' = [entry EXCEPT ![r] = Answered(@, resp.chars, resp.model, resp.tokens)]
          /\ wire'  = [wire EXCEPT ![r] = [status |-> 200, model |-> resp.model,
                                           chars |-> resp.chars, tail |-> "done"]]
    /\ ended' = [ended EXCEPT ![r] = TRUE]
    /\ Goto(r, "logging")
    /\ UNCHANGED <<rag, server, req, conn, ctx, stream, rows>>

ChatFails(r) == /\ At(r, "calling")
                /\ ~req[r].stream
                /\ \E why \in CallErrors(r) : Fail(r, entry[r], FailureStatus(why))
                /\ UNCHANGED <<rag, server, req, conn, ctx, stream, ended, rows>>
-----------------------------------------------------------------------------
(***************************************************************************)
(* The streamed answer.                                                    *)
(***************************************************************************)

\* The 500 for a ResponseWriter that is no Flusher does not occur: net/http's is
\* one, and nothing in cmd/server wraps it.
RejectStream(r) == /\ At(r, "calling")
                   /\ req[r].stream
                   /\ entry[r].provider \notin Streamers
                   /\ Fail(r, entry[r], 400)
                   /\ UNCHANGED <<rag, server, req, conn, ctx, stream, ended, rows>>

\* The upstream accepts the call and its answer starts to come in.
Open(r) == /\ At(r, "calling")
           /\ req[r].stream
           /\ entry[r].provider \in Streamers
           /\ Goto(r, "reading")
           /\ UNCHANGED <<rag, server, req, conn, ctx, entry, stream, ended, wire, rows>>

OpenFails(r) == /\ At(r, "calling")
                /\ req[r].stream
                /\ entry[r].provider \in Streamers
                /\ \E why \in CallErrors(r) : Fail(r, entry[r], FailureStatus(why))
                /\ UNCHANGED <<rag, server, req, conn, ctx, stream, ended, rows>>

\* onChunk for n deltas of one line: all are written, or one fails to be and
\* the provider's loop ends with that error.  got is what the line adds to
\* the summary, last whether the loop ends behind it.
Relay(r, n, got, last) ==
    /\ n > 0 => Writable(r)
    /\ stream[r].sent + n <= MaxChars
    /\ \/ /\ stream' = [stream EXCEPT ![r] = [got EXCEPT !.sent = @ + n]]
          /\ wire'   = [wire EXCEPT ![r] = IF n > 0 THEN Delta(@, n) ELSE @]
          /\ Goto(r, IF last THEN "finishing" ELSE "reading")
       \/ /\ n > 0
          /\ TRUE \in WriteErrors(r)
          /\ \E k \in 0..(n - 1) : /\ stream' = [stream EXCEPT ![r].sent = @ + k]
                                   /\ wire'   = [wire EXCEPT ![r] = Delta(@, k)]
          /\ Goto(r, "aborting")

\* What is known of the model after a line that names m, or none.
Heard(s, m) == IF m = NoModel THEN s ELSE [s EXCEPT !.model = m]

\* One NDJSON line.  A line with done=true brings the usage and ends the loop
\* whatever else it holds; a line without content, such as an error object,
\* is read over.
OllamaLine(r) ==
    /\ At(r, "reading")
    /\ entry[r].provider = "ollama"
    /\ \E m \in Models \cup {NoModel}, n \in 0..1, last \in BOOLEAN, u \in {0, 1} :
          /\ ~last => u = 0
          /\ LET got == Heard(stream[r], m)
             IN  Relay(r, n, IF last THEN [got EXCEPT !.tokens = u] ELSE got, last)
          /\ ended' = [ended EXCEPT ![r] = last]
    /\ UNCHANGED <<rag, server, req, conn, ctx, entry, rows>>

\* One SSE payload of up to two choices.  Usage may come with any of them;
\* the last one counts.
OpenAILine(r) ==
    /\ At(r, "reading")
    /\ entry[r].provider = "openai"
    /\ \E m \in Models \cup {NoModel}, n \in 0..2, u \in {0, 1} :
          Relay(r, n, [Heard(stream[r], m) EXCEPT !.tokens = IF u = 0 THEN @ ELSE u], FALSE)
    /\ UNCHANGED <<rag, server, req, conn, ctx, entry, ended, rows>>

\* data: [DONE]
OpenAIDone(r) ==
    /\ At(r, "reading")
    /\ entry[r].provider = "openai"
    /\ ended' = [ended EXCEPT ![r] = TRUE]
    /\ Goto(r, "finishing")
    /\ UNCHANGED <<rag, server, req, conn, ctx, entry, stream, wire, rows>>

\* The fake provider looks at its context before every word.
FakeWord(r) ==
    /\ At(r, "reading")
    /\ entry[r].provider = "fake"
    /\ ctx[r] = "live"
    /\ Relay(r, 1, stream[r], FALSE)
    /\ UNCHANGED <<rag, server, req, conn, ctx, entry, ended, rows>>

FakeEnd(r) ==
    /\ At(r, "reading")
    /\ entry[r].provider = "fake"
    /\ stream[r].sent > 0
    /\ stream' = [stream EXCEPT ![r].model = entry[r].model, ![r].tokens = 1]
    /\ ended'  = [ended EXCEPT ![r] = TRUE]
    /\ Goto(r, "finishing")
    /\ UNCHANGED <<rag, server, req, conn, ctx, entry, wire, rows>>

\* The upstream's body ends cleanly: the scanner reports no error, whether or
\* not a terminator was seen, and the stream counts as complete.
StreamEOF(r) ==
    /\ At(r, "reading")
    /\ entry[r].provider \in {"ollama", "openai"}
    /\ Goto(r, "finishing")
    /\ UNCHANGED <<rag, server, req, conn, ctx, entry, stream, ended, wire, rows>>

\* Mutation: headersWritten is not looked at.
HeadersIgnored(r) == FALSE
HeadersWritten(r) == wire[r].status # 0

\* The body breaks off or does not parse, or the context is done.  Before the
\* headers are written this is still a JSON error answer.
FailEarly(r) ==
    /\ At(r, "reading")
    /\ ~HeadersWritten(r)
    /\ \E why \in ReadErrors(r) : Fail(r, entry[r], FailureStatus(why))
    /\ UNCHANGED <<rag, server, req, conn, ctx, stream, ended, rows>>

FailLate(r) ==
    /\ At(r, "reading")
    /\ HeadersWritten(r)
    /\ ReadErrors(r) # {}
    /\ Goto(r, "aborting")
    /\ UNCHANGED <<rag, server, req, conn, ctx, entry, stream, ended, wire, rows>>

\* The entry of a broken stream: of the summary, nothing but the length.
\* Mutations: the usage is kept; the error event counts as content; the length
\* is forgotten.
AbortedWithUsage(e, s)  == [e EXCEPT !.status = 200, !.error = "failed", !.chars = s.sent,
                                     !.tokens = s.tokens]
AbortedPlusEvent(e, s)  == [e EXCEPT !.status = 200, !.error = "failed", !.chars = s.sent + 1]
AbortedSansLength(e, s) == [e EXCEPT !.status = 200, !.error = "failed"]
Aborted(e, s)           == [e EXCEPT !.status = 200, !.error = "failed", !.chars = s.sent]

\* The headers are out: the status stays 200, and an error event ends the
\* stream.
Abort(r) ==
    /\ At(r, "aborting")
    /\ Writable(r)
    /\ wire'  = [wire EXCEPT ![r].tail = "error"]
    /\ entry' = [entry EXCEPT ![r] = Aborted(@, stream[r])]
    /\ Goto(r, "logging")
    /\ UNCHANGED <<rag, server, req, conn, ctx, stream, ended, rows>>

\* The final chunk with finish_reason "stop", then [DONE].
Finish(r) ==
    /\ At(r, "finishing")
    /\ Writable(r)
    /\ LET s == stream[r]
           m == IF s.model # NoModel THEN s.model ELSE entry[r].model
       IN  /\ wire'  = [wire EXCEPT ![r] = [Headers(@) EXCEPT !.model = m, !.tail = "done"]]
           /\ entry' = [entry EXCEPT ![r] = Answered(@, s.sent, m, s.tokens)]
    /\ Goto(r, "logging")
    /\ UNCHANGED <<rag, server, req, conn, ctx, stream, ended, rows>>
-----------------------------------------------------------------------------
(***************************************************************************)
(* The deferred write of the log.  It has a context of its own, so neither *)
(* the client nor the deadline touches it; when it fails, the row is lost  *)
(* and nobody hears of it but the process's own output.                    *)
(***************************************************************************)
Log(r) == /\ At(r, "logging")
          /\ rows' = [rows EXCEPT ![r] = entry[r]]
          /\ Goto(r, "done")
          /\ UNCHANGED <<rag, server, req, conn, ctx, entry, stream, ended, wire>>

LogFails(r) == /\ "log" \in Faults
               /\ At(r, "logging")
               /\ Goto(r, "dropped")
               /\ UNCHANGED <<rag, server, req, conn, ctx, entry, stream, ended, wire, rows>>
-----------------------------------------------------------------------------
(***************************************************************************)
(* The client, and the timers of a request.                                *)
(***************************************************************************)
Stall(r) == /\ "stall" \in Faults
            /\ Running
            /\ pc[r] \in Active
            /\ conn[r] = "open"
            /\ conn' = [conn EXCEPT ![r] = "stalled"]
            /\ UNCHANGED <<rag, server, pc, req, ctx, entry, stream, ended, wire, rows>>

Resume(r) == /\ Running
             /\ conn[r] = "stalled"
             /\ conn' = [conn EXCEPT ![r] = "open"]
             /\ UNCHANGED <<rag, server, pc, req, ctx, entry, stream, ended, wire, rows>>

Leave(r) == /\ "leave" \in Faults
            /\ Running
            /\ pc[r] \in Active
            /\ conn[r] # "gone"
            /\ conn' = [conn EXCEPT ![r] = "gone"]
            /\ UNCHANGED <<rag, server, pc, req, ctx, entry, stream, ended, wire, rows>>

\* net/http notices, some time later, that the client has left.
Cancel(r) == /\ Running
             /\ pc[r] \in Active
             /\ conn[r] = "gone"
             /\ ctx[r] = "live"
             /\ ctx' = [ctx EXCEPT ![r] = "canceled"]
             /\ UNCHANGED <<rag, server, pc, req, conn, entry, stream, ended, wire, rows>>

Deadline(r) == /\ Running
               /\ pc[r] \in {"retrieving", "calling", "reading"}
               /\ ctx[r] = "live"
               /\ ctx' = [ctx EXCEPT ![r] = "deadline"]
               /\ UNCHANGED <<rag, server, pc, req, conn, entry, stream, ended, wire, rows>>
-----------------------------------------------------------------------------
(***************************************************************************)
(* The process.  Shutdown waits for the handlers, the deferred log write   *)
(* included, but for ten seconds at most; main then closes the database    *)
(* and returns, whoever is still running.                                  *)
(***************************************************************************)
\* Mutation: the log is written behind the handler's back.
QuietWhenAnswered == \A r \in Requests : pc[r] \notin Active \ {"logging"}

Quiet == \A r \in Requests : pc[r] \notin Active

Signal == /\ server = "serving"
          /\ server' = "draining"
          /\ UNCHANGED <<rag, pc, req, conn, ctx, entry, stream, ended, wire, rows>>

Drained == /\ server = "draining"
           /\ Quiet
           /\ server' = "drained"
           /\ UNCHANGED <<rag, pc, req, conn, ctx, entry, stream, ended, wire, rows>>

GraceExpires == /\ server = "draining"
                /\ ~Quiet
                /\ server' = "forced"
                /\ UNCHANGED <<rag, pc, req, conn, ctx, entry, stream, ended, wire, rows>>

Crash == /\ "crash" \in Faults
         /\ Running
         /\ server' = "crashed"
         /\ UNCHANGED <<rag, pc, req, conn, ctx, entry, stream, ended, wire, rows>>
-----------------------------------------------------------------------------
Validate(r)  == \/ RejectBody(r) \/ RejectProvider(r) \/ RejectRag(r) \/ Route(r)
Streaming(r) == \/ OllamaLine(r) \/ OpenAILine(r) \/ OpenAIDone(r)
                \/ FakeWord(r) \/ FakeEnd(r) \/ StreamEOF(r) \/ FailEarly(r)
                \/ FailLate(r) \/ Abort(r) \/ Finish(r)

Handler(r) == \/ Arrive(r) \/ Refuse(r) \/ Validate(r) \/ Retrieve(r)
              \/ ChatReturns(r) \/ ChatFails(r)
              \/ RejectStream(r) \/ Open(r) \/ OpenFails(r) \/ Streaming(r)
              \/ Log(r) \/ LogFails(r)

Client(r) == Stall(r) \/ Resume(r) \/ Leave(r) \/ Cancel(r) \/ Deadline(r)

Process == Signal \/ Drained \/ GraceExpires \/ Crash

Next == Process \/ \E r \in Requests : Handler(r) \/ Client(r)

\* The steps of a handler that nothing outside it holds up for ever unless its
\* client stalls: its own code, and a call whose context is done.  An upstream
\* need never answer, so its answers are not among them.
Local(r) == \/ Validate(r) \/ RejectStream(r) \/ FakeWord(r) \/ FakeEnd(r)
            \/ Abort(r) \/ Finish(r) \/ Log(r)
Expire(r) == /\ Expiry(r) # {}
             /\ Retrieve(r) \/ ChatFails(r) \/ OpenFails(r) \/ FailEarly(r) \/ FailLate(r)

\* The Go scheduler runs a handler that can run, and the timer of a request
\* fires.  The fairness of the handler is strong because the client may stall
\* again and again.  Nothing is owed by the client: it may stall for ever.
Fairness == \A r \in Requests : /\ SF_vars(Local(r) \/ Expire(r))
                                /\ WF_vars(Deadline(r))

Spec     == Init /\ [][Next]_vars
FairSpec == Spec /\ Fairness
-----------------------------------------------------------------------------
TypeOK ==
    /\ rag    \in BOOLEAN
    /\ server \in {"serving", "draining", "drained", "forced", "crashed"}
    /\ pc     \in [Requests -> {"idle"} \cup Active \cup Over]
    /\ req    \in [Requests -> Shapes]
    /\ conn   \in [Requests -> {"open", "stalled", "gone"}]
    /\ ctx    \in [Requests -> {"live", "deadline", "canceled"}]
    /\ entry  \in [Requests -> Entry]
    /\ stream \in [Requests -> Summary]
    /\ ended  \in [Requests -> BOOLEAN]
    /\ wire   \in [Requests -> Answer]
    /\ rows   \in [Requests -> Entry \cup {NoRow}]

\* What it means that entry e tells what answer w was.
Tells(e, w) == /\ e.status = w.status
               /\ e.chars = w.chars
               /\ e.error # "" <=> w.tail = "error"
               /\ w.tail = "done" => e.model = w.model
               /\ w.tail # "open"

\* The log tells the truth: a row has the status the client was sent, the
\* amount of content it was sent, the model the answer named, and an error
\* exactly if the answer ended in one.  handleChatCompletions and streamChat
\* fill the entry and the ResponseWriter separately, on eight paths.
RowTellsTheAnswer ==
    \A r \in Requests : rows[r] # NoRow => Tells(rows[r], wire[r])

\* Usage is recorded for answers the client got to the end, and for no other:
\* an answer that ends in an error leaves its entry without tokens, whatever
\* the upstream had reported by then.
NoTokensForFailures ==
    \A r \in Requests : rows[r] # NoRow /\ rows[r].tokens > 0 => wire[r].tail = "done"

\* Once the first byte is out the status is fixed, and once an answer has
\* ended nothing is added to it: no second WriteHeader after a stream began,
\* no event behind [DONE] or behind the error.
AnswersOnlyGrow ==
    [][\A r \in Requests :
          /\ wire[r].status # 0 => wire'[r].status = wire[r].status
          /\ wire[r].tail # "open" => wire'[r] = wire[r]
          /\ wire'[r].chars >= wire[r].chars]_vars

\* A graceful shutdown loses no row: when Shutdown has returned without an
\* error, every request that reached the handler has its answer to the end and
\* is in the log, unless the write of the log itself failed.
DrainedLogIsComplete ==
    server = "drained" =>
       \A r \in Requests : pc[r] \notin {"idle", "refused"} =>
          wire[r].tail # "open" /\ (rows[r] # NoRow \/ pc[r] = "dropped")

\* README.md:110, "A `defer` writes the request log to SQLite -- happy path and
\* every error path": when main returns, every request that reached the handler
\* has its row.  main waits ten seconds and no more (cmd/server/main.go:79), a
\* request may take the sixty or more of its own timeout.
EveryRequestIsLogged ==
    server \in {"drained", "forced"} =>
       \A r \in Requests : pc[r] \notin {"idle", "refused"} => rows[r] # NoRow

\* internal/provider/ollama.go:79, the stream is "terminated by an object with
\* done=true", and README.md:158, a stream that "fails mid-stream" gets an error
\* event and is logged with its error: a client that reads [DONE] has the whole
\* answer.  Stream returns no error for a body that just ends.
DoneMeansComplete ==
    \A r \in Requests : wire[r].tail = "done" => ended[r]

\* A request whose client does not stall for ever is answered and leaves the
\* handler, whatever the upstream does, unless the process ends first.  A client
\* that sends no more of its body (read before there is a deadline), or that
\* reads no more of its answer, holds its handler as long as it likes: the server
\* has a ReadHeaderTimeout and no other.
RequestsReturn ==
    \A r \in Requests :
        []<>(conn[r] # "stalled") => (pc[r] = "received" ~> (pc[r] \in Over \/ ~Running))

(***************************************************************************)
(* Why the properties hold: where the handler stands tells how far the     *)
(* answer and the entry have come.  This is the inductive invariant that   *)
(* ChatHandlerProofs proves.                                               *)
(***************************************************************************)
\* Nothing of the outcome is in the entry.
Unsettled(e) == e.status = 0 /\ e.error = "" /\ e.chars = 0 /\ e.tokens = 0

BeforeAnswer(r) == wire[r] = NoWire /\ stream[r] = NoStream /\ Unsettled(entry[r])

DuringAnswer(r) == /\ wire[r].tail = "open"
                   /\ wire[r].status \in {0, 200}
                   /\ wire[r].status = 0 => wire[r].chars = 0
                   /\ wire[r].chars = stream[r].sent
                   /\ Unsettled(entry[r])

AfterAnswer(r) == /\ Tells(entry[r], wire[r])
                  /\ entry[r].tokens > 0 => wire[r].tail = "done"
                  /\ wire[r].status \in {200, 400, 502, 504}

Progress(r) ==
    /\ pc[r] \in {"idle", "received", "retrieving", "calling"} => BeforeAnswer(r)
    /\ pc[r] \in {"reading", "aborting", "finishing"} => DuringAnswer(r)
    /\ pc[r] = "aborting" => wire[r].status = 200
    /\ pc[r] \in {"logging", "done", "dropped"} => AfterAnswer(r)
    /\ pc[r] = "refused" => wire[r] = Error(401)
    /\ rows[r] = IF pc[r] = "done" THEN entry[r] ELSE NoRow

Consistent == /\ \A r \in Requests : Progress(r)
              /\ server = "drained" => Quiet

\* The handler implements the abstract ledger.
Ledger == INSTANCE RequestLedger WITH
    ErrorStatuses <- {400, 401, 502, 504},
    answer  <- [r \in Requests |-> [status |-> wire[r].status, outcome |-> wire[r].tail]],
    ledger  <- [r \in Requests |->
                  IF rows[r] = NoRow THEN [status |-> 0, outcome |-> "none"]
                  ELSE [status  |-> rows[r].status,
                        outcome |-> IF rows[r].error = "" THEN "done" ELSE "error"]],
    stopped <- ~Running

ImplementsLedger == Ledger!LedgerSpec
==============================================================================
