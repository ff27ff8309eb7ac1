------------------------------ MODULE RagService ------------------------------
(***************************************************************************)
(* The document side of retrieval: uploads and deletes of documents by     *)
(* concurrent admin requests (internal/httpapi/admin.go), over two stores  *)
(* that share no transaction (internal/rag/service.go): the documents      *)
(* table of SQLite, and the vector store, which is either a map in this    *)
(* process or a Qdrant server.                                             *)
(*                                                                         *)
(* A document is one value, and so are its chunks: Upsert stores all of    *)
(* them or none (one locked loop in memory, one request to Qdrant).  Every *)
(* upload makes a new random id, so a document is uploaded once.           *)
(*                                                                         *)
(* A call to Qdrant is a message.  The caller may give up on it, and the   *)
(* message may still take effect later, after the caller has gone on.      *)
(***************************************************************************)
EXTENDS Naturals

CONSTANTS
    Docs,       \* the documents that may be uploaded
    Deletes,    \* the delete requests that may arrive
    NoDoc,      \* a delete request that has not named its document yet
    Qdrant,     \* TRUE iff RAG_VECTOR_STORE is qdrant, FALSE for inmemory
    Listing,    \* TRUE iff some client lists the documents
    Faults      \* what may go wrong: "sql", "leave", "crash"

ASSUME RagAssumption == /\ NoDoc \notin Docs
                        /\ Docs \cap Deletes = {}
                        /\ Qdrant \in BOOLEAN
                        /\ Listing \in BOOLEAN
                        /\ Faults \subseteq {"sql", "leave", "crash"}

VARIABLES
    life,       \* the gateway process: the first, none, or one after a restart
    rows,       \* the documents table
    vectors,    \* the documents whose chunks are in the vector store
    known,      \* the ids some client has seen
    pc,         \* pc[o]: where upload or delete o stands
    ctx,        \* ctx[o]: whether its context is live
    target,     \* target[x]: the document delete x is about
    call,       \* call[o]: the message of o to Qdrant
    began,      \* began[x]: whether x began during or after the upload of its
                \*           document
    sql         \* sound as long as no SQL statement has failed by itself
                \*           (began and sql are history: no action reads them)

vars == <<life, rows, vectors, known, pc, ctx, target, call, began, sql>>

Operations == Docs \cup Deletes

\* ok, gone and missing are the answers 201, 204 and 404; failed is 500.
Over == {"ok", "gone", "missing", "failed", "crashed"}
Busy == {"embedding", "saving", "upserting", "rolling back", "deleting vectors",
         "deleting row"}

Init == /\ life    = "first"
        /\ rows    = {}
        /\ vectors = {}
        /\ known   = {}
        /\ pc      = [o \in Operations |-> "idle"]
        /\ ctx     = [o \in Operations |-> "live"]
        /\ target  = [x \in Deletes |-> NoDoc]
        /\ call    = [o \in Operations |-> "none"]
        /\ began   = [x \in Deletes |-> "during"]
        /\ sql     = "sound"

Running        == life # "none"
At(o, label)   == Running /\ pc[o] = label
Goto(o, label) == pc' = [pc EXCEPT ![o] = label]

\* An SQL statement runs if the context it is given is live; it may fail
\* anyhow, and then has no effect.
SqlRuns(context)  == context = "live" /\ UNCHANGED sql
SqlFails(context) == \/ context = "done" /\ UNCHANGED sql
                     \/ "sql" \in Faults /\ sql' = "failed"
-----------------------------------------------------------------------------
(***************************************************************************)
(* The vector store.  In memory it acts at once, whatever the context, and *)
(* cannot fail.  To Qdrant a message is sent; it is applied or lost, at a  *)
(* time of its own, and the caller may have given up on it by then.        *)
(***************************************************************************)
\* Mutation: a delete is sent to the endpoint that stores points.
StoresAlways(o, vs) == vs \cup {o}

Effect(o, vs) == IF o \in Docs THEN vs \cup {o} ELSE vs \ {target[o]}

InMemory(o, next) == /\ ~Qdrant
                     /\ vectors' = Effect(o, vectors)
                     /\ Goto(o, next)
                     /\ UNCHANGED call

Send(o) == /\ Running
           /\ pc[o] \in {"upserting", "deleting vectors"}
           /\ Qdrant
           /\ ctx[o] = "live"
           /\ call[o] = "none"
           /\ call' = [call EXCEPT ![o] = "sent"]
           /\ UNCHANGED <<life, rows, vectors, known, pc, ctx, target, began, sql>>

Apply(o) == /\ call[o] = "sent"
            /\ vectors' = Effect(o, vectors)
            /\ call' = [call EXCEPT ![o] = "applied"]
            /\ UNCHANGED <<life, rows, known, pc, ctx, target, began, sql>>

Lose(o) == /\ call[o] = "sent"
           /\ call' = [call EXCEPT ![o] = "lost"]
           /\ UNCHANGED <<life, rows, vectors, known, pc, ctx, target, began, sql>>

\* Qdrant's answer, given after the write (wait=true).
Acknowledged(o, next) == /\ Qdrant
                         /\ call[o] = "applied"
                         /\ Goto(o, next)
                         /\ UNCHANGED <<vectors, call>>

\* The call returns an error: it was refused, broke off, ran into the client's
\* own timeout, or its context is done.  It may have been applied, or may yet be.
Unacknowledged(o) == /\ Qdrant
                     /\ call[o] # "none" \/ ctx[o] = "done"
-----------------------------------------------------------------------------
(***************************************************************************)
(* POST /admin/documents: Ingest.                                          *)
(***************************************************************************)
Upload(d) == /\ At(d, "idle")
             /\ Goto(d, "embedding")
             /\ UNCHANGED <<life, rows, vectors, known, ctx, target, call, began, sql>>

Embed(d) == /\ At(d, "embedding")
            /\ ctx[d] = "live"
            /\ Goto(d, "saving")
            /\ UNCHANGED <<life, rows, vectors, known, ctx, target, call, began, sql>>

EmbedFails(d) == /\ At(d, "embedding")
                 /\ Goto(d, "failed")
                 /\ UNCHANGED <<life, rows, vectors, known, ctx, target, call, began, sql>>

Save(d) == /\ At(d, "saving")
           /\ SqlRuns(ctx[d])
           /\ rows' = rows \cup {d}
           /\ Goto(d, "upserting")
           /\ UNCHANGED <<life, vectors, known, ctx, target, call, began>>

\* Mutation: the error of SaveDocument is overlooked.
SaveErrorOverlooked(d) == /\ At(d, "saving")
                          /\ SqlFails(ctx[d])
                          /\ Goto(d, "upserting")
                          /\ UNCHANGED <<life, rows, vectors, known, ctx, target, call, began>>

SaveFails(d) == /\ At(d, "saving")
                /\ SqlFails(ctx[d])
                /\ Goto(d, "failed")
                /\ UNCHANGED <<life, rows, vectors, known, ctx, target, call, began>>

\* The client learns the id from the answer 201.
Upsert(d) == /\ At(d, "upserting")
             /\ InMemory(d, "ok") \/ Acknowledged(d, "ok")
             /\ known' = known \cup {d}
             /\ UNCHANGED <<life, rows, ctx, target, began, sql>>

\* Mutation: the error of Upsert is overlooked.
UpsertErrorOverlooked(d) == /\ At(d, "upserting")
                            /\ Unacknowledged(d)
                            /\ Goto(d, "ok")
                            /\ UNCHANGED <<life, rows, vectors, known, ctx, target,
                                           call, began, sql>>

UpsertFails(d) == /\ At(d, "upserting")
                  /\ Unacknowledged(d)
                  /\ Goto(d, "rolling back")
                  /\ UNCHANGED <<life, rows, vectors, known, ctx, target, call, began, sql>>

\* Mutation: the rollback is given the context of the request.
RequestContext(d) == ctx[d]

\* The rollback has a context of its own.
RollbackContext(d) == "live"

\* Whether the row is still there makes no difference to the rollback.
Rollback(d) == /\ At(d, "rolling back")
               /\ SqlRuns(RollbackContext(d))
               /\ rows' = rows \ {d}
               /\ Goto(d, "failed")
               /\ UNCHANGED <<life, vectors, known, ctx, target, call, began>>

RollbackFails(d) == /\ At(d, "rolling back")
                    /\ SqlFails(RollbackContext(d))
                    /\ Goto(d, "failed")
                    /\ UNCHANGED <<life, rows, vectors, known, ctx, target, call, began>>
-----------------------------------------------------------------------------
(***************************************************************************)
(* GET /admin/documents, and DELETE /admin/documents/{id}.                 *)
(***************************************************************************)

\* The table holds the row of an upload before the upload is over.
List == /\ Listing
        /\ Running
        /\ known' = known \cup rows
        /\ UNCHANGED <<life, rows, vectors, pc, ctx, target, call, began, sql>>

UploadOver(d) == pc[d] \in Over /\ call[d] # "sent"

Delete(x) == /\ At(x, "idle")
             /\ \E d \in known : /\ target' = [target EXCEPT ![x] = d]
                                 /\ began'  = [began EXCEPT ![x] =
                                                 IF UploadOver(d) THEN "after" ELSE "during"]
             /\ Goto(x, "deleting vectors")
             /\ UNCHANGED <<life, rows, vectors, known, ctx, call, sql>>

DeleteVectors(x) == /\ At(x, "deleting vectors")
                    /\ InMemory(x, "deleting row") \/ Acknowledged(x, "deleting row")
                    /\ UNCHANGED <<life, rows, known, ctx, target, began, sql>>

\* Mutation: the row is deleted whether or not the vectors were.
DeleteGoesOn(x) == /\ At(x, "deleting vectors")
                   /\ Unacknowledged(x)
                   /\ Goto(x, "deleting row")
                   /\ UNCHANGED <<life, rows, vectors, known, ctx, target, call, began, sql>>

DeleteVectorsFails(x) == /\ At(x, "deleting vectors")
                         /\ Unacknowledged(x)
                         /\ Goto(x, "failed")
                         /\ UNCHANGED <<life, rows, vectors, known, ctx, target, call, began, sql>>

DeleteRow(x) == /\ At(x, "deleting row")
                /\ SqlRuns(ctx[x])
                /\ rows' = rows \ {target[x]}
                /\ Goto(x, IF target[x] \in rows THEN "gone" ELSE "missing")
                /\ UNCHANGED <<life, vectors, known, ctx, target, call, began>>

DeleteRowFails(x) == /\ At(x, "deleting row")
                     /\ SqlFails(ctx[x])
                     /\ Goto(x, "failed")
                     /\ UNCHANGED <<life, rows, vectors, known, ctx, target, call, began>>
-----------------------------------------------------------------------------
(***************************************************************************)
(* The surroundings.  An upload has the request timeout on its context; a  *)
(* delete is ended by its client only.  Stopping, for whatever reason,     *)
(* abandons the operations under way: main waits ten seconds for them.     *)
(* The rows stay; the map of the in-memory store goes with the process.    *)
(***************************************************************************)
Expire(o) == /\ Running
             /\ pc[o] \in Busy
             /\ ctx[o] = "live"
             /\ o \in Docs \/ "leave" \in Faults
             /\ ctx' = [ctx EXCEPT ![o] = "done"]
             /\ UNCHANGED <<life, rows, vectors, known, pc, target, call, began, sql>>

Crash == /\ "crash" \in Faults
         /\ Running
         /\ life' = "none"
         /\ pc' = [o \in Operations |-> IF pc[o] \in Busy THEN "crashed" ELSE pc[o]]
         /\ vectors' = IF Qdrant THEN vectors ELSE {}
         /\ UNCHANGED <<rows, known, ctx, target, call, began, sql>>

Restart == /\ ~Running
           /\ life' = "later"
           /\ UNCHANGED <<rows, vectors, known, pc, ctx, target, call, began, sql>>
-----------------------------------------------------------------------------
Ingest(d) == \/ Upload(d) \/ Embed(d) \/ EmbedFails(d) \/ Save(d) \/ SaveFails(d)
             \/ Upsert(d) \/ UpsertFails(d) \/ Rollback(d) \/ RollbackFails(d)

Removal(x) == \/ Delete(x) \/ DeleteVectors(x) \/ DeleteVectorsFails(x)
              \/ DeleteRow(x) \/ DeleteRowFails(x)

Message(o) == Send(o) \/ Apply(o) \/ Lose(o)

Next == \/ List \/ Crash \/ Restart
        \/ \E d \in Docs : Ingest(d)
        \/ \E x \in Deletes : Removal(x)
        \/ \E o \in Operations : Message(o) \/ Expire(o)

Spec == Init /\ [][Next]_vars
-----------------------------------------------------------------------------
TypeOK == /\ life \in {"first", "none", "later"}
          /\ rows    \subseteq Docs
          /\ vectors \subseteq Docs
          /\ known   \subseteq Docs
          /\ pc      \in [Operations -> {"idle"} \cup Busy \cup Over]
          /\ ctx     \in [Operations -> {"live", "done"}]
          /\ target  \in [Deletes -> Docs \cup {NoDoc}]
          /\ call    \in [Operations -> {"none", "sent", "applied", "lost"}]
          /\ began   \in [Deletes -> {"during", "after"}]
          /\ sql     \in {"sound", "failed"}

\* Retrieval finds no chunk of a document that is not in the table.  Ingest
\* writes the row first and Delete removes it last, so that this holds between
\* any two steps of theirs, and after a stop at any of them.  It is so for the
\* in-memory store, and as long as nobody deletes what is still being uploaded
\* (which takes the list of documents to know of).
VectorsHaveRows == ~Qdrant /\ ~Listing => vectors \subseteq rows

\* A document that was answered with 201, and that nobody has asked to delete,
\* is in both stores: whatever timed out, failed or stopped around it.  Its
\* chunks do not outlive the process in the in-memory store.
AcknowledgedIsStored ==
    \A d \in Docs : pc[d] = "ok" /\ (\A x \in Deletes : target[x] # d) =>
        d \in rows /\ (Qdrant \/ life = "first" => d \in vectors)

\* A delete can be repeated until it works: one that began after the upload of
\* its document was over, and was answered with 204 or 404, has left nothing
\* of the document in either store, for good, whatever the deletes before it
\* left behind.  Delete keeps the row until the vectors are gone.
AnsweredDeleteIsFinal ==
    \A x \in Deletes : pc[x] \in {"gone", "missing"} /\ began[x] = "after" =>
        target[x] \notin rows \cup vectors

\* An upload that was answered with an error is not in the list of documents,
\* even if it failed because its client left or its time ran out, so long as
\* SQL statements do not fail by themselves.
FailedUploadIsNotListed ==
    sql = "sound" => \A d \in Docs : pc[d] = "failed" => d \notin rows

\* internal/rag/service.go:93, "Delete removes a document's chunks from the
\* vector store and its metadata from the document store": behind a 204 there
\* is nothing left.  The upload may store the chunks after Delete has looked.
DeletedMeansGone ==
    \A x \in Deletes : pc[x] = "gone" => target[x] \notin rows \cup vectors

(***************************************************************************)
(* Why: what is known of a document from where its upload and its deletes  *)
(* stand.  Consistent is the inductive invariant that RagServiceProofs     *)
(* proves; the properties above are among its consequences.                *)
(***************************************************************************)
Unwritten == {"idle", "embedding", "saving"}

\* Nobody has asked to delete d.
Untouched(d) == \A x \in Deletes : target[x] # d

UploadState(d) ==
    /\ pc[d] \in Unwritten \cup {"upserting", "rolling back", "ok", "failed", "crashed"}
    /\ pc[d] \in Unwritten => d \notin rows \cup vectors \cup known /\ call[d] = "none"
    /\ pc[d] \in {"upserting", "ok"} /\ Untouched(d) => d \in rows
    /\ pc[d] = "ok" /\ Qdrant => call[d] = "applied"
    /\ call[d] = "applied" /\ Untouched(d) => d \in vectors
    /\ pc[d] = "ok" /\ Untouched(d) /\ ~Qdrant /\ life = "first" => d \in vectors
    /\ ~Qdrant => call[d] = "none" /\ pc[d] # "rolling back"
    /\ pc[d] = "failed" /\ sql = "sound" => d \notin rows

DeleteState(x) ==
    /\ pc[x] \in {"idle", "deleting vectors", "deleting row", "gone", "missing", "failed",
                  "crashed"}
    /\ pc[x] # "idle" => target[x] \in Docs
    /\ pc[x] = "idle" => target[x] = NoDoc /\ call[x] = "none"
    /\ ~Qdrant => call[x] = "none"
    /\ began[x] = "after" =>
          /\ target[x] \in Docs
          /\ UploadOver(target[x])
          /\ call[x] = "applied" => target[x] \notin vectors
          /\ pc[x] \in {"deleting row", "gone", "missing"} => target[x] \notin vectors
          /\ pc[x] \in {"gone", "missing"} => target[x] \notin rows

\* As long as nobody lists the documents, an id is known from the answer 201.
IdsFromAnswers ==
    ~Listing => /\ \A d \in known : pc[d] = "ok"
                /\ \A x \in Deletes : target[x] \in Docs => pc[target[x]] = "ok"
                /\ ~Qdrant => \A x \in Deletes : pc[x] # "idle" => began[x] = "after"

Consistent == /\ \A d \in Docs : UploadState(d)
              /\ \A x \in Deletes : DeleteState(x)
              /\ IdsFromAnswers
              /\ VectorsHaveRows
==============================================================================
