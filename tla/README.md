# mini-llm-gateway in TLA+

Specifications of mini-llm-gateway (Go, `src/`): an HTTP gateway that answers
`POST /v1/chat/completions` from one of several providers, as JSON or as a
stream, logs every request in SQLite, and keeps a small document store for
retrieval. The modules are written from the code; where a comment, a test or a
document says something that the code does not do, a run shows it.

## The system

| component | state | operations | who touches it | what is hard | what makes it correct |
|---|---|---|---|---|---|
| chat handler (`internal/httpapi/server.go`, `stream.go`, `internal/auth`) | per request: the log entry, whether the headers are out, what was sent | check the token, validate, route, retrieve, call, relay the stream, fail early or late, log in a `defer` | one goroutine per request; the client; the request's deadline | the entry and the answer are filled in separately on eight paths; a client that leaves, or stops sending or reading; deadline against answer | the row tells the answer; an answer has one status and one end; nothing but its client holds a request for good |
| providers (`internal/provider`) | the locals of a running stream | `Chat`, `Stream` | called by the handler, call back `onChunk` | bodies that break off, or end without a terminator | a stream that ended early is an error |
| process (`cmd/server/main.go`) | starting, serving, draining, gone | open the database, probe the embedder, ensure the collection; signal, `Shutdown` with ten seconds of grace, close the database | all handlers; other gateways on the same file and Qdrant | a start that fails half way; two starts at once; grace shorter than a request's timeout | what serves has its schema, and a collection of its dimension; a drained shutdown loses nothing |
| document service (`internal/rag/service.go`, `internal/store/documents.go`, document handlers of `admin.go`) | `documents` table and vector store, no common transaction | upload, list, delete | concurrent admin requests; chat requests search the vectors | one of two stores failing; timeouts that are not failures; stops in between; delete against upload | both stores agree, or can be brought to agree by deleting again |
| vector stores (`inmemory.go`, `qdrant.go`) | points by id | `Upsert`, `Search`, `DeleteByDocumentID`, `EnsureCollection` | document service, chat handler | Qdrant applies a request its caller gave up on; memory is lost on restart | an acknowledged write is there |
| chunker (`chunker.go`) | none | `Chunk` | upload | overlaps as large as the size, the last window | nothing is lost at a boundary; the loop ends |
| schema (`sqlite.go`, `migrations/`) | tables, `schema_migrations` | `OpenSQLite`, `applyMigrations` | processes opening the file | stops between statements; two processes at once | what opens is complete, and opens again |
| request log queries (`List`, `stats.go`, `admin.go`) | `requests` table | pages by a time cursor, statistics | admin requests, log writes | rows of one millisecond; queries of different moments | a walk over the pages misses nothing but ties; each figure is of a moment of its handler |
| embedders (`internal/embed`) | none | `Embed`, `Probe` | upload, retrieval, startup | reordering by an index the upstream sends | a chunk is stored with its own vector |
| web UI (`web/app.js`) | conversation, lists | send, clear, load, upload, delete | event handlers interleaving at `await` | clear during a send; parts of answers on the screen only; chats that overlap; loads out of order or cut to the newest rows; a row written after the load it was due in | the conversation sent is the one shown; a quiet page is current |
| configuration, pricing | none after startup | `FromEnv`, price lookup | everything | zero and negative settings | — |

The handlers share the database and the vector store and nothing else in
memory. Retrieval is a call of the chat handler into the document service; its
failure is logged and the request goes on. `main` waits for handlers only
through `Shutdown`.

## Modules

| module | models | kind |
|---|---|---|
| `RequestLedger` | what the chat endpoint promises: one answer, at most one row, which repeats it | abstract specification |
| `ChatHandler` | the life of a chat request, with client, timers, providers, log and shutdown | component, refines `RequestLedger` |
| `ChatHandlerProofs` | | theorems on `ChatHandler` |
| `RagService` | uploads and deletes over two stores, with messages to Qdrant, stops and restarts | component |
| `RagServiceProofs` | | theorems on `RagService` |
| `Chunker` | `Chunk`, one action per turn of its loop | algorithm |
| `Indexing`, `IndexingProofs` | a text's way through chunking, embedding, storing and search | composes `Chunker`, refines it; theorems on both |
| `Migrations`, `MigrationsProofs` | `OpenSQLite` by several processes, one action per SQL statement | component, theorems |
| `Startup`, `StartupProofs` | gateways from their start until they serve, sharing a file and a Qdrant | composes `Migrations`, refines it; theorems |
| `RequestLog`, `RequestLogProofs` | pages and figures of the log, while chats write rows | component, theorems |
| `SumTheorems` | | lemmas on sums over finite sets |
| `WebPage`, `WebPageProofs` | one tab of the web UI | component, theorems |
| `MCChat`, `MCRag`, `MCIndexing`, `MCMigrations`, `MCStartup`, `MCRequestLog` | constant values | model checking |

### ChatHandler

`rag` is whether the gateway has retrieval (`s.rag` is not nil), chosen at the
start. `pc[r]` is where the handler of request `r` stands, `ctx[r]` its context,
`conn[r]` its client (sending and reading, stalled, gone), `entry[r]` the `store.Entry`,
`stream[r]` the locals of `streamChat` and of the provider's loop, `wire[r]`
what was given to the `ResponseWriter`, `rows[r]` the row. `ended[r]` records
that the upstream said its answer was complete; no guard reads it.

An action is a stretch of the handler between two points at which others can
interfere: the arrival, each early return of `handleChatCompletions` (`Reject…`),
the routing once the body is there (`BodyRead`: a client that stalls before keeps the
handler waiting, for which the server has no deadline; one that leaves makes it
fail), retrieval, the provider's answer, each line of an upstream stream with
the writes it causes, the end of the stream, the deferred write of the log.
Text is an amount (a delta counts one), usage is none or some. The providers
differ in what they send: `ollama` lines end in one with `done`, `openai`
payloads hold up to two choices and end in `[DONE]`, `fake` asks its context
before each word, `plain` is a provider that cannot stream (none is configured;
the tests have one). A write blocks while the client is stalled; to a client
that is gone it may fail or vanish into a buffer. A call may fail with a missed
deadline before the request's own has passed (a dial timeout), and after the
deadline the answer and the error race.

Retrieval is one step with two outcomes: chunks, or none (an error counts as
none). Prompt characters, latency and ids are left out.

### RagService

`rows` is the documents table, `vectors` the documents with chunks in the vector
store, `pc[o]` where upload or delete `o` stands, `call[o]` its message to
Qdrant. `Upsert` stores the chunks of a document all at once: in memory under
the lock, in Qdrant by one request. A message is applied or lost at any time
after it was sent, whether or not its caller still waits; `Unacknowledged` is
every way the call can return an error. SQL statements fail without effect, by
themselves (fault `sql`) or because their context is done. `Crash` is any end of
the process, the end of the ten seconds included. `known` are the ids some
client has seen: from a 201, and from the list if `Listing`. `began` and `sql`
are history variables that the properties need and no guard reads.

### Chunker

The text is its number of runes; a chunk is the interval it covers. Multi-byte
characters do not show, as the code cuts runes. Size and overlap are integers of
any sign, as `getenvInt` passes them on.

### Migrations

`schema` holds the statements in effect, `recorded` the rows of
`schema_migrations`. Each statement of a file commits by itself, and so does the
record. `ReadPart` is the read of the records that breaks off unnoticed
(`rows.Err` is not asked). A second statement `ALTER TABLE … ADD COLUMN` fails;
so does a second record of one file, by its primary key.

### Startup

`stage[g]` is where `main` of gateway `g` stands once its database is open: the
steps up to there are those of `Migrations`, each with what it means for `main`.
`collection` is the dimension of the collection in Qdrant (0: none), `dim[g]`
what the probe of `g` learned. `EnsureCollection` is two actions, the question
(`Check`) and the request to make one (`Create`, `CreateRefused`), between which
other gateways move. A gateway that gives up on its request, or ends, may leave
it on its way: `late`, carried out by `LateCreate` if there is no collection
then. The settings (embedder, vector store) are chosen anew at every start.
`fresh[g]`, that `g` had found no collection, is history.

### RequestLog

A row has the millisecond its request `started` in, and is inserted when the
request ends. One reader either walks the pages, passing on `next_before` as
long as it is given one, or asks for the figures. A page is one query, hence one
step (`List` leaves open which rows of a tie make it onto the page); the figures
are three queries and a look at the clock between the first two, hence four.
Limits and days are inputs, zero and absent ones included; tokens and prices are
small numbers, a day has `DayLength` milliseconds. `FiguresAreOfTheirTime` is
about all three figures: the dollars of all time, those of today, the counts per
day. `owed` (what a walk has to meet), `cursors` and `begin` are history. The
clock does not go back.

### Indexing

`Chunker`'s loop first, then `Embed`, `Upsert` and `Retrieve`. A vector is the
number of the chunk it was made of. What the upstream sends is any sequence of
`Replies`: in any order, numbered in any way. `ByIndex` is the reordering of
`openai.go:91-97`, `InOrder` is Ollama's, which has no numbers; both refuse a
wrong count. `Nearest` is any choice of the k best points, since the sort is not
stable. What is near is the embedder's business: here, a chunk that holds the
phrase. Qdrant's refusal of a point without a vector is `UpsertFails`.

### WebPage

The state of one tab, cut at the `await`s of `app.js`: `kind`, `gateway`,
`reply` and `heard` follow a call of the user from its making to what the page
learns of it; `messages` is the history that is sent, `onScreen` and `content`
the chats that stand on the page; `loads[t]` are the loads of a table on their
way, which may be answered and shown in any order. A table is the set of calls
whose effect it shows. A load brings the newest rows by the time their requests
began, `LogLimit` or `DocumentLimit` of them (`Listed`); `Shared` are the tables
to which other clients add rows, of which any number may then be among those.
Which of two rows is newer is known if one call was made `after` the other had
been answered; for the rest the order is open. `Delta` puts a part of a stream on
the screen, which the conversation does not have: only the whole answer, in
`Answered`, goes there too. A stream that fails half way is answered with its
error as a part of its text, hence as an answer. `Clear` does not stop what is on its way. `Enter` sends
even while Send is disabled. The row of a chat is written when its handler
returns: before the end of a JSON answer, but after the `[DONE]` at which the
page stops reading a stream (`WritesRow`). `alone[t]`, that the last load of `t`
to end went well and overlapped with no other, `after`, and `overlapped`, that
two chats of this conversation were on their way at once, are history.

## What is checked

| run | instance | states | shows |
|---|---|---|---|
| `chat_single` | one request of 20 shapes, four provider kinds, with retrieval and without, all faults, shutdown | 106 344 | `RowTellsTheAnswer`, `NoTokensForFailures`, `AnswersOnlyGrow`, `DrainedLogIsComplete`, `RequestsReturn`, `ImplementsLedger` |
| `chat_shutdown` | one stream, no faults | — | **violated**: `EveryRequestIsLogged` |
| `chat_truncated` | one stream, no faults | — | **violated**: `DoneMeansComplete` |
| `rag_memory` | two documents, two deletes, in memory, all faults | 4 787 | `VectorsHaveRows`, `AcknowledgedIsStored` |
| `rag_qdrant` | one document, two deletes, Qdrant, list, all faults | 66 266 | `AcknowledgedIsStored`, `AnsweredDeleteIsFinal`, `FailedUploadIsNotListed` |
| `rag_delete` | one document, one delete, in memory, list, no faults | — | **violated**: `DeletedMeansGone` |
| `chunker` | texts up to 9 runes, sizes −1..5, overlaps −2..6, replies in three orders under four numberings, limits −1, 1, 2 | 66 300 | `NothingStraddles`, `ChunksSlide`, `LoopAdvances`, `OwnVectors`, `PhraseFound` |
| `migrations` | the three files, two gateways, two dimensions, stops and errors anywhere from start to serving | 179 663 | `RecordedIsThere`, `OpenIsComplete`, `ReopeningWorks`, `FreshFits`, `ComesBack` |
| `migrations_rerun` | the three files, one process, stops | — | **violated**: `NeverRunTwice` |
| `startup_stale` | one gateway, two dimensions, no faults | — | **violated**: `CollectionIsOfDim` |
| `request_log` | three chats, one walk or one call for the figures, limits absent, 0, 1, 3 (of at most 2), days of two milliseconds | 1 188 176 | `NothingMissed`, `PagesDescend`, `WalksEnd`, `FiguresAreOfTheirTime` |
| `web_page` | two calls of the user and one more action, one row of each table listed, documents shared | 820 918 | `HistoryIsShown`, `QuietPageIsCurrent`, `DisabledWaits`, `Settles` |

The type invariant of a module is checked in one of its runs. Deadlock is not
checked: requests, uploads, deletes, chats and calls are used up, a process that
has ended stays so in `ChatHandler`, `Chunk` returns, and gateways that all serve
have nothing to do.

**Bounds.** One request reaches every line of the handler, since handlers share
nothing in memory and each writes a row of its own; that a shutdown waits for
every one of them, however many, is proved (`DrainingKeepsTheLog`).
`MaxChars = 3` lets a stream break off before, between and after deltas, and in
the middle of a payload with two of them. Documents do not interact (ids are
fresh), so one with two deletes is enough for `rag_qdrant`; two of each were
tried once as well (6.5 million states). Nine runes give up to nine windows,
each size and overlap its exact, one-short and one-over text. Two gateways
are what a replacement has; a third adds only another copy. Three chats and a
largest page of two rows give pages that a tie divides, full pages followed by
an empty one, and rows that arrive behind and ahead of the cursor; four
milliseconds are two days, so that midnight can fall between any two queries.
Two calls overlap in every way two do, and a third action of the user puts a
Clear or a Refresh anywhere among them; with one row listed, two chats, or two
documents, are more than a table shows.

**Symmetry** is used in the two passing `RagService` runs, which have no liveness
property.

**Fairness** (`FairSpec` of `ChatHandler`). A handler that can take a step of its
own code takes it: the Go scheduler. Strongly, because its writes are disabled
whenever the client stalls, which can happen again and again. The timer of a
request fires (weak), and once a context is done a call that depends on it
returns. Nothing is assumed of the client: it may stall for good, before its body
is read (`ReadHeaderTimeout` is for the headers, and the request's deadline begins
after the body) or in a write (there is no `WriteTimeout`), and the handler then
waits for good. `RequestsReturn` says that this is all that holds it: a request
returns if, time and again, its client is not stalled. Nothing is assumed of the upstream. `Signal`, `GraceExpires`, `Crash` and
the clients' moves are never forced.

`WalksEnd` (`RequestLog`) assumes that a query is answered and that the client
follows `next_before`. `ComesBack` (`Startup`) assumes that a gateway that can go
on does, a new start included: `docker-compose.yml` says `restart:
unless-stopped`. That the trouble ends is the premise of the property, not of
the specification; so is that the database has been open once, since before that
a half-run migration may lock it out (see the findings). `Settles` (`WebPage`)
assumes that every call ends, by an answer or by a timeout, and that the page
handles what has arrived; nothing is assumed of the user.

## Findings

- **Shutdown drops rows** (`chat_shutdown`, `cmd/server/main.go:79`): a request
  that is still running after ten seconds is cut and not logged.
- **A truncated upstream stream counts as complete** (`chat_truncated`,
  `ollama.go:147`, `openai.go:185`): a body that ends without its terminator is
  passed on as `finish_reason: stop` and `[DONE]`.
- **Delete during upload leaves chunks** (`rag_delete`, `service.go:55-69` and
  `95-101`): both requests succeed, the document is in no list, retrieval finds it.
- **A migration can lock the database out** (`migrations_rerun`,
  `sqlite.go:82-90`): a stop between `ALTER TABLE` and its record makes every
  later start fail on the duplicate column.
- **A collection of another dimension is served** (`startup_stale`,
  `qdrant.go:48`): `main.go:86-88` says that the collection exists at the
  embedder's dimension; a gateway that finds one compares nothing, and every
  upsert and search of it fails.

Not a run of its own, since the comment says best-effort: with Qdrant, an
`Upsert` that times out and is applied later leaves chunks of a document whose
row was rolled back and whose id no client was ever told.
`AnsweredDeleteIsFinal` is stated around it (`began`).

## What is proved

For every value of the constants, under the named assumptions of each module
(`ChatAssumption`, `RagAssumption`, `ChunkerAssumption`, `IndexingAssumption`,
`MigrationsAssumption`, `DimsAssumption`, `LogAssumption`, `UsageAssumption`,
`PageAssumption`: the constants have the types their comments give, the sets of
names are apart, every migration has a statement). `UsageAssumption` says that no
price and no token count is negative: the prices are a table in `pricing.go`; the
counts come from the upstream, or are counted here, and the gateway stores them
as they come.

**ChatHandler.** `TypeOK`, `RowTellsTheAnswer`, `NoTokensForFailures` and
`DrainedLogIsComplete` are invariants, `AnswersOnlyGrow` holds of every step, and
every behaviour is one of `RequestLedger` (`ImplementsLedger`). None of the
invariants is inductive: a row is written from an entry that several earlier
steps filled in. `Consistent` says, for each place the handler can stand at, how
far the answer and the entry have come: nothing is out and nothing is settled
before the call; during a stream the status is 0 or 200, what was sent equals
`stream[r].sent`, and the entry is unsettled; from then on the entry tells the
answer; the row is the entry exactly if the handler is done. Each action is one
step of the proof of `ConsistentStep`. The refinement maps status and outcome of
`wire` to the ledger's answer, and each step to one of its actions or none.

**RagService.** `AnsweredDeleteIsFinal`, `AcknowledgedIsStored`,
`FailedUploadIsNotListed` and `VectorsHaveRows`, for any number of documents and
deletes. The invariant `Consistent` has a part per upload (`UploadState`: before
the row is written nothing of the document is anywhere; a row nobody deletes
stays; an applied message is in the store) and one per delete (`DeleteState`: if
it began after the upload was over, the upload cannot write again, so what the
delete has removed stays away). The proof takes an action's own operation, then
the others (`IngestFrame`, `RemovalFrame`), then the messages and the process.

**Chunker** (first part of `IndexingProofs`). `NothingStraddles`, `ChunksSlide`
and `LoopAdvances` for every text and configuration. The invariant `Cut` has the
next window starting `overlap` runes before the end of the last: a phrase of
`overlap + 1` runes that ends behind it cannot begin before the next.

**Indexing.** Every behaviour is one of `Chunker` (`IndexingImplementsChunker`),
so the facts about chunks carry over. `OwnVectors` rests on a lemma about the
reordering (`PutInPlace`): if every item is numbered as it is and every chunk has
one, `ByIndex` is the identity. `PhraseFound` puts the two together: a phrase
of `overlap + 1` runes is in a chunk as a whole (`NothingStraddles`), that chunk
was stored with its own vector, so if it is not among the hits all the hits are
as near, and hold the phrase too.

**Migrations.** The invariant `Progress` says how far a process has come: what
is recorded is in the schema; the files before the one it is at are
recorded; of its own file the statements before its line are
there; and if the database had been open when it started, everything is
recorded, so that it only skips. `RecordedIsThere`, `OpenIsComplete` and
`ReopeningWorks` follow.

**Startup.** Every behaviour is one of `Migrations` (`StartupImplementsMigrations`),
whose theorems therefore hold of it. `Ready` says of each stage that the database
is open from "probing" on, that a probed gateway has its dimension, and that a
serving one that had found no collection has one of its own dimension.
No step changes a collection that is there.

**RequestLog.** `NothingMissed` and `PagesDescend`, for any number of chats, limits
and times. The invariant `Walk`: every row met is at or above the cursor, and
every row owed and not met is below it or shares its time with an earlier one.
Every page but the last lowers the cursor, a natural number (`WalkGoesBack`), which
is why a walk ends although rows keep coming.

`FiguresAreOfTheirTime` compares sums, and sums do not carry
over from one step to the next, since rows are added in between. The invariant
`Figures` names the rows instead: each figure is the cost of some set that has all
rows of the beginning and none but those of now, and such a set stays one when
more is logged (`FiguresStay`); `dayStart` begins a day that is neither before the
handler's beginning nor after now. From that the bounds follow, since a sum grows
with its set (`CostOfSome`). That what the handler computes is a cost at all, i.e.
that summing tokens model by model and multiplying by the model's price gives what
the requests cost one by one, is `FigureIsCost`. It rests on `SumTheorems`:
the sum over a set is the same in whatever order its elements are taken
(`SumPicked`), groups may be summed apart (`SumOfGroups`) and factors taken out
(`SumOfMultiples`). The induction this needs is done over a set, the numbers or the
finite sets for which the statement holds, and closed by the well-foundedness of
`<` (`NatInSteps`, `FiniteInSteps`), because the library's induction theorems take
an operator.

**WebPage.** `HistoryIsShown`, for any number of calls. The invariant `Talk` adds
to it what keeps an answer from entering the conversation twice: the answer of a
chat is in it only if it was heard, also for chats that Clear has taken off the
screen. What keeps it in the order of the screen is `Orderly`: unless chats have
overlapped, the one on its way is the last of the conversation. `QuietPageIsCurrent`
rests on `Current`: a load that is alone has all the page was told of but what the
limits excuse (`Covering`, `ListedCovers`), because a call that is told of begins
another load in the same step, after which neither is alone; and what excuses a row
goes on doing so, since rows are only added (`CoveringGrows`). `TypeOK` and `DisabledWaits` need more
(`Genuine`): effects only grow (`EffectsStay`), so that what a load has seen is
still there when it is shown; and a load keeps its place until it is shown itself,
whatever begins or ends around it (`BegunBehind`, `AnsweredInPlace`,
`ShownLeaves`), so that a disabled Upload is never left without the load that
enables it. `DisabledWaits` is the safety part of `Settles`.

**Only model-checked**: liveness (`RequestsReturn`, `WalksEnd`, `ComesBack`,
`Settles`), which needs fairness and `ENABLED`, out of the prover's reach. Every
invariant and action property of the runs that pass is proved.

## Not modelled

Configuration parsing (pure, read once; the settings are constants here, or
chosen at the start, with the zero and negative values `getenvInt` lets through);
the cost chart, the list of providers and the display of a gateway without
retrieval in the web UI;
the hashing of the fake embedder and the arithmetic of similarity; formatting,
ids, latency, prompt text; by-day dollars (the code has none). An SQL statement
that reports an error is taken to have had no effect, a SELECT to see the table
at one moment. The 500 for a `ResponseWriter` that is no `Flusher`
(`stream.go:52-56`): that of `net/http` is one. On the page, a load of the log
asks for the rows begun before its own millisecond, and a chat that has been
answered is taken to be one; so are two chats, the second sent when the first had
been answered, taken to begin in different ones.
The figures of `loadCost` are not shown in the model.

The document service has no abstract specification of an atomic store: uploads
and deletes show their halves to retrieval and to the list by design, so the
promise is what the four invariants of `RagService` say, not atomicity.

## Plan

1. A second tab, or the gateway's list behind it: what a page shows that another
   one has changed.
2. `Startup` composed with `RagService`: uploads to a collection of another
   dimension, which Qdrant refuses one by one.
