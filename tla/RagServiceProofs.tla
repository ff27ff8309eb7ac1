--------------------------- MODULE RagServiceProofs ---------------------------
(***************************************************************************)
(* RagService for any number of documents and deletes, either vector store *)
(* and any faults.                                                         *)
(*                                                                         *)
(* The invariant is Consistent: one part per upload, one per delete.  Each *)
(* action belongs to one operation; what it leaves of the state of the     *)
(* others is the same for all actions, and stated first.                   *)
(***************************************************************************)
EXTENDS RagService, TLAPS

Sound == TypeOK /\ Consistent

\* No operation is both an upload and a delete.
LEMMA Apart == /\ Docs \subseteq Operations
               /\ Deletes \subseteq Operations
               /\ \A d \in Docs, x \in Deletes : d # x
               /\ \A o \in Operations : o \in Docs \/ o \in Deletes
BY RagAssumption DEF Operations

-----------------------------------------------------------------------------
(***************************************************************************)
(* Types.                                                                  *)
(***************************************************************************)
LEMMA TypeInit == Init => TypeOK
BY RagAssumption DEF Init, TypeOK, Operations

\* The steps of an upload.
LEMMA TypeIngest ==
  ASSUME TypeOK, NEW d \in Docs, Ingest(d)
  PROVE  TypeOK'
<1>1. d \in Operations
  BY Apart
<1>2. CASE Upload(d)
  BY <1>1, <1>2 DEF TypeOK, Upload, At, Goto, Busy
<1>3. CASE Embed(d)
  BY <1>1, <1>3 DEF TypeOK, Embed, At, Goto, Busy
<1>4. CASE EmbedFails(d)
  BY <1>1, <1>4 DEF TypeOK, EmbedFails, At, Goto, Over
<1>5. CASE Save(d)
  BY <1>1, <1>5 DEF TypeOK, Save, At, Goto, Busy, SqlRuns
<1>6. CASE SaveFails(d)
  BY <1>1, <1>6 DEF TypeOK, SaveFails, At, Goto, Over, SqlFails
<1>7. CASE Upsert(d)
  BY <1>1, <1>7 DEF TypeOK, Upsert, At, Goto, Over, InMemory, Acknowledged, Effect
<1>8. CASE UpsertFails(d)
  BY <1>1, <1>8 DEF TypeOK, UpsertFails, At, Goto, Busy
<1>9. CASE Rollback(d)
  BY <1>1, <1>9 DEF TypeOK, Rollback, At, Goto, Over, SqlRuns
<1>10. CASE RollbackFails(d)
  BY <1>1, <1>10 DEF TypeOK, RollbackFails, At, Goto, Over, SqlFails
<1> QED
  BY <1>2, <1>3, <1>4, <1>5, <1>6, <1>7, <1>8, <1>9, <1>10 DEF Ingest

\* The steps of a delete.
LEMMA TypeRemoval ==
  ASSUME TypeOK, NEW x \in Deletes, Removal(x)
  PROVE  TypeOK'
<1>1. x \in Operations /\ x \notin Docs
  BY Apart
<1>2. CASE Delete(x)
  BY <1>1, <1>2 DEF TypeOK, Delete, At, Goto, Busy
<1>3. CASE DeleteVectors(x)
  BY <1>1, <1>3 DEF TypeOK, DeleteVectors, At, Goto, Busy, InMemory, Acknowledged, Effect
<1>4. CASE DeleteVectorsFails(x)
  BY <1>1, <1>4 DEF TypeOK, DeleteVectorsFails, At, Goto, Over
<1>5. CASE DeleteRow(x)
  BY <1>1, <1>5 DEF TypeOK, DeleteRow, At, Goto, Over, SqlRuns
<1>6. CASE DeleteRowFails(x)
  BY <1>1, <1>6 DEF TypeOK, DeleteRowFails, At, Goto, Over, SqlFails
<1> QED
  BY <1>2, <1>3, <1>4, <1>5, <1>6 DEF Removal

\* The messages, the contexts and the process.
LEMMA TypeRest ==
  ASSUME TypeOK,
         \/ List \/ Crash \/ Restart \/ UNCHANGED vars
         \/ \E o \in Operations : Message(o) \/ Expire(o)
  PROVE  TypeOK'
<1>1. CASE List
  BY <1>1 DEF TypeOK, List
<1>2. CASE Crash
  BY <1>2 DEF TypeOK, Crash, Over
<1>3. CASE Restart
  BY <1>3 DEF TypeOK, Restart
<1>4. CASE UNCHANGED vars
  BY <1>4 DEF TypeOK, vars
<1>5. ASSUME NEW o \in Operations, Message(o)
      PROVE  TypeOK'
  <2>1. CASE Send(o)
    BY <2>1 DEF TypeOK, Send
  <2>2. CASE Apply(o)
    BY <2>2 DEF TypeOK, Apply, Effect
  <2>3. CASE Lose(o)
    BY <2>3 DEF TypeOK, Lose
  <2> QED
    BY <1>5, <2>1, <2>2, <2>3 DEF Message
<1>6. ASSUME NEW o \in Operations, Expire(o)
      PROVE  TypeOK'
  BY <1>6 DEF TypeOK, Expire
<1> QED
  BY <1>1, <1>2, <1>3, <1>4, <1>5, <1>6

LEMMA TypeStep == TypeOK /\ [Next]_vars => TypeOK'
BY TypeIngest, TypeRemoval, TypeRest DEF Next

\* Every variable has its type, for all constants.
THEOREM Typing == Spec => []TypeOK
BY TypeInit, TypeStep, PTL DEF Spec
-----------------------------------------------------------------------------
(***************************************************************************)
(* A step of upload d.                                                     *)
(***************************************************************************)
\* What it leaves alone.
LEMMA IngestFrame ==
  ASSUME TypeOK, NEW d \in Docs, Ingest(d)
  PROVE  /\ \A o \in Operations : o # d => pc'[o] = pc[o]
         /\ \A e \in Docs : e # d => (e \in rows' <=> e \in rows)
         /\ \A e \in Docs : e # d => (e \in vectors' <=> e \in vectors)
         /\ \A e \in Docs : e # d => (e \in known' <=> e \in known)
         /\ call' = call /\ target' = target /\ began' = began /\ life' = life
         /\ sql' = "sound" => sql = "sound"
         /\ pc[d] \in {"idle", "embedding", "saving", "upserting", "rolling back"}
<1>1. d \in Operations
  BY Apart
<1>2. CASE Upload(d) \/ Embed(d) \/ EmbedFails(d) \/ UpsertFails(d)
  BY <1>1, <1>2 DEF TypeOK, Upload, Embed, EmbedFails, UpsertFails, At, Goto
<1>3. CASE Save(d) \/ Rollback(d)
  BY <1>1, <1>3 DEF TypeOK, Save, Rollback, At, Goto, SqlRuns
<1>4. CASE SaveFails(d) \/ RollbackFails(d)
  BY <1>1, <1>4 DEF TypeOK, SaveFails, RollbackFails, At, Goto, SqlFails
<1>5. CASE Upsert(d)
  BY <1>1, <1>5 DEF TypeOK, Upsert, At, Goto, InMemory, Acknowledged, Effect
<1> QED
  BY <1>2, <1>3, <1>4, <1>5 DEF Ingest

\* Its own state.
LEMMA IngestState ==
  ASSUME TypeOK, NEW d \in Docs, UploadState(d), Ingest(d)
  PROVE  UploadState(d)'
<1>1. d \in Operations
  BY Apart
<1> USE DEF UploadState, Untouched, Unwritten, At, Goto
<1>2. CASE Upload(d)
  BY <1>1, <1>2 DEF TypeOK, Upload
<1>3. CASE Embed(d)
  BY <1>1, <1>3 DEF TypeOK, Embed
<1>4. CASE EmbedFails(d)
  BY <1>1, <1>4 DEF TypeOK, EmbedFails
<1>5. CASE Save(d)
  BY <1>1, <1>5 DEF TypeOK, Save, SqlRuns
<1>6. CASE SaveFails(d)
  BY <1>1, <1>6 DEF TypeOK, SaveFails, SqlFails
<1>7. CASE Upsert(d)
  BY <1>1, <1>7 DEF TypeOK, Upsert, InMemory, Acknowledged, Effect
<1>8. CASE UpsertFails(d)
  BY <1>1, <1>8 DEF TypeOK, UpsertFails, Unacknowledged
<1>9. CASE Rollback(d)
  BY <1>1, <1>9 DEF TypeOK, Rollback, SqlRuns
<1>10. CASE RollbackFails(d)
  BY <1>1, <1>10 DEF TypeOK, RollbackFails, SqlFails, RollbackContext
<1> QED
  BY <1>2, <1>3, <1>4, <1>5, <1>6, <1>7, <1>8, <1>9, <1>10 DEF Ingest

\* An upload that is not over is the target of no delete that began after it.
LEMMA IngestOthers ==
  ASSUME Sound, NEW d \in Docs, Ingest(d)
  PROVE  /\ \A e \in Docs : UploadState(e)'
         /\ \A x \in Deletes : DeleteState(x)'
<1>1. ASSUME NEW e \in Docs, e # d
      PROVE  UploadState(e)'
  <2>1. UploadState(e) /\ e \in Operations
    BY Apart DEF Sound, Consistent
  <2> QED
    BY <1>1, <2>1, IngestFrame DEF Sound, UploadState, Untouched
<1>2. UploadState(d)'
  BY IngestState DEF Sound, Consistent
<1>3. ASSUME NEW x \in Deletes
      PROVE  DeleteState(x)'
  <2>1. DeleteState(x) /\ x \in Operations /\ x # d
    BY Apart DEF Sound, Consistent
  <2>2. began[x] = "after" => target[x] \in Docs /\ target[x] # d
    BY <2>1, IngestFrame DEF Sound, DeleteState, UploadOver, Over
  <2>3. began[x] = "after" => UploadOver(target[x])'
    BY <2>1, <2>2, IngestFrame, Apart DEF Sound, DeleteState, UploadOver
  <2> QED
    BY <2>1, <2>2, <2>3, IngestFrame DEF Sound, DeleteState
<1> QED
  BY <1>1, <1>2, <1>3

\* With nobody listing, an upload under way is known to nobody.
LEMMA IngestUntouched ==
  ASSUME Sound, NEW d \in Docs, Ingest(d), ~Listing
  PROVE  d \notin known /\ Untouched(d)
<1>1. /\ \A e \in known : pc[e] = "ok"
      /\ \A x \in Deletes : target[x] \in Docs => pc[target[x]] = "ok"
  BY DEF Sound, Consistent, IdsFromAnswers
<1>2. pc[d] # "ok"
  BY IngestFrame DEF Sound
<1> QED
  BY <1>1, <1>2 DEF Untouched

\* The id of a document becomes known by the answer, and its chunks come after
\* its row.
LEMMA IngestRest ==
  ASSUME Sound, NEW d \in Docs, Ingest(d)
  PROVE  IdsFromAnswers' /\ VectorsHaveRows'
<1>1. d \in Operations
  BY Apart
<1>2. ASSUME ~Listing
      PROVE  /\ \A e \in known' : pc'[e] = "ok"
             /\ \A x \in Deletes : target[x] \in Docs => pc'[target[x]] = "ok"
  <2>1. /\ \A e \in known : pc[e] = "ok"
        /\ \A x \in Deletes : target[x] \in Docs => pc[target[x]] = "ok"
    BY <1>2 DEF Sound, Consistent, IdsFromAnswers
  <2>2. d \in known' => pc'[d] = "ok"
    <3>1. CASE Upsert(d)
      BY <1>1, <3>1 DEF Sound, TypeOK, Upsert, InMemory, Acknowledged, Goto
    <3>2. CASE ~Upsert(d)
      <4>1. known' = known
        BY <3>2 DEF Ingest, Upload, Embed, EmbedFails, Save, SaveFails, UpsertFails,
                    Rollback, RollbackFails
      <4> QED
        BY <4>1, <2>1, IngestFrame DEF Sound
    <3> QED
      BY <3>1, <3>2
  <2>3. ASSUME NEW e \in known'
        PROVE  pc'[e] = "ok"
    <3>1. e \in Docs /\ e \in Operations
      BY TypeStep, Apart DEF Sound, TypeOK, Next
    <3> QED
      BY <3>1, <2>1, <2>2, IngestFrame DEF Sound
  <2>4. ASSUME NEW x \in Deletes, target[x] \in Docs
        PROVE  pc'[target[x]] = "ok"
    <3>1. target[x] # d /\ target[x] \in Operations
      BY <1>2, <2>4, IngestUntouched, Apart DEF Untouched
    <3> QED
      BY <3>1, <2>1, <2>4, IngestFrame DEF Sound
  <2> QED
    BY <2>3, <2>4
<1>3. IdsFromAnswers'
  <2>1. target' = target /\ began' = began /\ \A x \in Deletes : pc'[x] = pc[x]
    BY IngestFrame, Apart DEF Sound
  <2> QED
    BY <1>2, <2>1 DEF Sound, Consistent, IdsFromAnswers
<1>4. VectorsHaveRows'
  <2> SUFFICES ASSUME ~Qdrant, ~Listing PROVE vectors' \subseteq rows'
    BY DEF VectorsHaveRows
  <2>1. vectors \subseteq rows /\ UploadState(d)
    BY DEF Sound, Consistent, VectorsHaveRows
  <2>2. Untouched(d)
    BY IngestUntouched
  <2>3. d \in vectors' => d \in rows'
    <3>1. CASE Upsert(d)
      BY <3>1, <2>1, <2>2 DEF Upsert, UploadState, At
    <3>2. CASE ~Upsert(d)
      BY <3>2, <2>1 DEF Ingest, Upload, Embed, EmbedFails, Save, SaveFails, UpsertFails,
                  Rollback, RollbackFails, UploadState, At
    <3> QED
      BY <3>1, <3>2
  <2> QED
    BY <2>1, <2>3, IngestFrame, TypeStep DEF Sound, TypeOK, Next
<1> QED
  BY <1>3, <1>4
-----------------------------------------------------------------------------
(***************************************************************************)
(* A step of delete x.                                                     *)
(***************************************************************************)
\* What it leaves alone.  It takes a document out of the stores only if that
\* document is its target.
LEMMA RemovalFrame ==
  ASSUME TypeOK, NEW x \in Deletes, Removal(x)
  PROVE  /\ \A o \in Operations : o # x => pc'[o] = pc[o]
         /\ \A y \in Deletes : y # x => target'[y] = target[y] /\ began'[y] = began[y]
         /\ rows' \subseteq rows /\ vectors' \subseteq vectors
         /\ \A d \in Docs : d # target'[x] => (d \in rows => d \in rows')
         /\ \A d \in Docs : d # target'[x] => (d \in vectors => d \in vectors')
         /\ pc[x] # "idle" => target'[x] = target[x] /\ began'[x] = began[x]
         /\ known' = known /\ call' = call /\ life' = life
         /\ sql' = "sound" => sql = "sound"
         /\ pc[x] \in {"idle", "deleting vectors", "deleting row"}
         /\ pc'[x] # "idle"
<1>1. x \in Operations /\ x \notin Docs
  BY Apart
<1>2. CASE Delete(x)
  BY <1>1, <1>2 DEF TypeOK, Delete, At, Goto
<1>3. CASE DeleteVectors(x)
  BY <1>1, <1>3 DEF TypeOK, DeleteVectors, At, Goto, InMemory, Acknowledged, Effect
<1>4. CASE DeleteVectorsFails(x)
  BY <1>1, <1>4 DEF TypeOK, DeleteVectorsFails, At, Goto
<1>5. CASE DeleteRow(x)
  BY <1>1, <1>5 DEF TypeOK, DeleteRow, At, Goto, SqlRuns
<1>6. CASE DeleteRowFails(x)
  BY <1>1, <1>6 DEF TypeOK, DeleteRowFails, At, Goto, SqlFails
<1> QED
  BY <1>2, <1>3, <1>4, <1>5, <1>6 DEF Removal

\* Its own state.
LEMMA RemovalState ==
  ASSUME TypeOK, NEW x \in Deletes, DeleteState(x), Removal(x)
  PROVE  DeleteState(x)'
<1>1. x \in Operations /\ x \notin Docs
  BY Apart
<1>2. CASE Delete(x)
  <2>1. PICK d \in known : /\ target' = [target EXCEPT ![x] = d]
                           /\ began'  = [began EXCEPT ![x] =
                                            IF UploadOver(d) THEN "after" ELSE "during"]
    BY <1>2 DEF Delete
  <2>2. /\ d \in Docs /\ target'[x] = d /\ d \in Operations /\ d # x
        /\ pc' = [pc EXCEPT ![x] = "deleting vectors"] /\ call' = call
        /\ pc[x] = "idle"
    BY <1>2, <2>1, Apart DEF TypeOK, Delete, Goto, At
  <2>3. began'[x] = "after" => UploadOver(d)'
    BY <1>1, <2>1, <2>2 DEF TypeOK, UploadOver
  <2>4. pc'[x] = "deleting vectors" /\ call'[x] = "none"
    BY <1>1, <2>2 DEF TypeOK, DeleteState
  <2> QED
    BY <2>2, <2>3, <2>4 DEF DeleteState
<1>3. CASE ~Delete(x)
  <2>1. /\ target' = target /\ began' = began /\ call' = call
        /\ \A d \in Docs : pc'[d] = pc[d]
        /\ rows' \subseteq rows /\ vectors' \subseteq vectors
    BY <1>3, RemovalFrame, Apart
    DEF Removal, DeleteVectors, DeleteVectorsFails, DeleteRow, DeleteRowFails
  <2>2. began[x] = "after" => UploadOver(target[x])'
    BY <2>1 DEF DeleteState, UploadOver
  <2>3. CASE DeleteVectors(x)
    BY <1>1, <2>1, <2>2, <2>3
    DEF TypeOK, DeleteState, DeleteVectors, At, Goto, InMemory, Acknowledged, Effect
  <2>4. CASE DeleteVectorsFails(x)
    BY <1>1, <2>1, <2>2, <2>4 DEF TypeOK, DeleteState, DeleteVectorsFails, At, Goto
  <2>5. CASE DeleteRow(x)
    BY <1>1, <2>1, <2>2, <2>5 DEF TypeOK, DeleteState, DeleteRow, At, Goto
  <2>6. CASE DeleteRowFails(x)
    BY <1>1, <2>1, <2>2, <2>6 DEF TypeOK, DeleteState, DeleteRowFails, At, Goto
  <2> QED
    BY <1>3, <2>3, <2>4, <2>5, <2>6 DEF Removal
<1> QED
  BY <1>2, <1>3

\* A document that x takes something from is no longer untouched.
LEMMA RemovalOthers ==
  ASSUME Sound, NEW x \in Deletes, Removal(x)
  PROVE  /\ \A d \in Docs : UploadState(d)'
         /\ \A y \in Deletes : DeleteState(y)'
<1>1. ASSUME NEW d \in Docs
      PROVE  UploadState(d)'
  <2>1. UploadState(d) /\ d \in Operations /\ d # x
    BY Apart DEF Sound, Consistent
  <2>2. pc'[d] = pc[d] /\ call'[d] = call[d]
    BY <2>1, RemovalFrame DEF Sound
  <2>3. Untouched(d)' => /\ d # target'[x]
                         /\ pc[x] = "idle" \/ target[x] # d
    BY RemovalFrame DEF Sound, Untouched
  <2>4. Untouched(d)' => Untouched(d)
    <3> SUFFICES ASSUME Untouched(d)', NEW y \in Deletes, target[y] = d PROVE FALSE
      BY DEF Untouched
    <3>1. y = x
      BY RemovalFrame DEF Sound, Untouched
    <3>2. pc[x] = "idle"
      BY <3>1, <2>3
    <3> QED
      BY <3>1, <3>2, RagAssumption DEF Sound, Consistent, DeleteState
  <2> QED
    BY <2>1, <2>2, <2>3, <2>4, RemovalFrame DEF Sound, UploadState
<1>2. ASSUME NEW y \in Deletes, y # x
      PROVE  DeleteState(y)'
  <2>1. DeleteState(y) /\ y \in Operations
    BY Apart DEF Sound, Consistent
  <2>2. began[y] = "after" => UploadOver(target[y])'
    BY <1>2, <2>1, RemovalFrame, Apart DEF Sound, DeleteState, UploadOver
  <2>3. /\ pc'[y] = pc[y] /\ call'[y] = call[y] /\ target'[y] = target[y]
        /\ began'[y] = began[y] /\ rows' \subseteq rows /\ vectors' \subseteq vectors
    BY <1>2, <2>1, RemovalFrame DEF Sound
  <2> QED
    BY <2>1, <2>2, <2>3 DEF DeleteState, UploadOver
<1>3. DeleteState(x)'
  BY RemovalState DEF Sound, Consistent
<1> QED
  BY <1>1, <1>2, <1>3

\* As long as ids come from answers, a delete meets an upload that is over, and
\* removes the row when the chunks are gone.
LEMMA RemovalRest ==
  ASSUME Sound, NEW x \in Deletes, Removal(x)
  PROVE  IdsFromAnswers' /\ VectorsHaveRows'
<1>1. /\ x \in Operations /\ x \notin Docs
      /\ \A d \in Docs : pc'[d] = pc[d]
      /\ known' = known /\ known \subseteq Docs
  <2>1. x \in Operations /\ \A d \in Docs : d \in Operations /\ d # x
    BY Apart
  <2>2. known \subseteq Docs
    BY DEF Sound, TypeOK
  <2> QED
    BY <2>1, <2>2, RemovalFrame DEF Sound
<1>2. ASSUME ~Listing
      PROVE  /\ \A d \in known' : pc'[d] = "ok"
             /\ \A y \in Deletes : target'[y] \in Docs => pc'[target'[y]] = "ok"
             /\ ~Qdrant => \A y \in Deletes : pc'[y] # "idle" => began'[y] = "after"
  <2>1. /\ \A d \in known : pc[d] = "ok"
        /\ \A y \in Deletes : target[y] \in Docs => pc[target[y]] = "ok"
        /\ ~Qdrant => \A y \in Deletes : pc[y] # "idle" => began[y] = "after"
    BY <1>2 DEF Sound, Consistent, IdsFromAnswers
  <2>2. ASSUME NEW y \in Deletes, y # x
        PROVE  /\ target'[y] \in Docs => pc'[target'[y]] = "ok"
               /\ ~Qdrant /\ pc'[y] # "idle" => began'[y] = "after"
    <3>1. target'[y] = target[y] /\ began'[y] = began[y]
      BY <2>2, RemovalFrame DEF Sound
    <3>2. pc'[y] = pc[y]
      BY <2>2, RemovalFrame, Apart DEF Sound
    <3> QED
      BY <1>1, <2>1, <3>1, <3>2
  <2>3. CASE pc[x] # "idle"
    <3>1. target'[x] = target[x] /\ began'[x] = began[x]
      BY <2>3, RemovalFrame DEF Sound
    <3> QED
      BY <1>1, <2>1, <2>2, <2>3, <3>1
  <2>4. CASE pc[x] = "idle"
    <3>1. Delete(x)
      BY <2>4 DEF Removal, DeleteVectors, DeleteVectorsFails, DeleteRow, DeleteRowFails, At
    <3>2. PICK d \in known : /\ target' = [target EXCEPT ![x] = d]
                             /\ began'  = [began EXCEPT ![x] =
                                              IF UploadOver(d) THEN "after" ELSE "during"]
      BY <3>1 DEF Delete
    <3>3. pc[d] = "ok" /\ target'[x] = d /\ d \in Docs
      BY <1>1, <2>1, <3>2 DEF Sound, TypeOK
    <3>4. ~Qdrant => call[d] = "none"
      BY <3>3 DEF Sound, Consistent, UploadState
    <3>5. ~Qdrant => began'[x] = "after"
      BY <3>2, <3>3, <3>4 DEF Sound, TypeOK, UploadOver, Over
    <3> QED
      BY <1>1, <2>1, <2>2, <3>3, <3>5
  <2> QED
    BY <1>1, <2>1, <2>2, <2>3, <2>4
<1>3. IdsFromAnswers'
  BY <1>2 DEF IdsFromAnswers
<1>4. VectorsHaveRows'
  <2> SUFFICES ASSUME ~Qdrant, ~Listing PROVE vectors' \subseteq rows'
    BY DEF VectorsHaveRows
  <2>1. vectors \subseteq rows
    BY DEF Sound, Consistent, VectorsHaveRows
  <2>2. CASE DeleteRow(x)
    <3>1. began[x] = "after" /\ pc[x] = "deleting row"
      BY <2>2 DEF DeleteRow, At, Sound, Consistent, IdsFromAnswers
    <3>2. target[x] \notin vectors
      BY <3>1 DEF Sound, Consistent, DeleteState
    <3> QED
      BY <2>1, <2>2, <3>2 DEF DeleteRow
  <2>3. CASE ~DeleteRow(x)
    <3>1. rows' = rows
      BY <2>3 DEF Removal, Delete, DeleteVectors, DeleteVectorsFails, DeleteRowFails
    <3> QED
      BY <2>1, <3>1, RemovalFrame DEF Sound
  <2> QED
    BY <2>2, <2>3
<1> QED
  BY <1>3, <1>4
-----------------------------------------------------------------------------
(***************************************************************************)
(* The steps around the operations.                                        *)
(***************************************************************************)
\* Only Qdrant is sent messages.
LEMMA MessagesToQdrant ==
  ASSUME Sound, NEW o \in Operations, call[o] # "none"
  PROVE  Qdrant
<1>1. CASE o \in Docs
  BY <1>1 DEF Sound, Consistent, UploadState
<1>2. CASE o \in Deletes
  BY <1>2 DEF Sound, Consistent, DeleteState
<1> QED
  BY <1>1, <1>2 DEF Operations

\* A message that is applied changes the store for the document it is about: an
\* upload that is under way, or the target of a delete.
LEMMA ApplyStep ==
  ASSUME Sound, NEW o \in Operations, Apply(o)
  PROVE  Consistent'
<1>1. /\ call[o] = "sent" /\ call' = [call EXCEPT ![o] = "applied"]
      /\ vectors' = Effect(o, vectors)
      /\ life' = life /\ rows' = rows /\ known' = known /\ pc' = pc /\ target' = target
      /\ began' = began /\ sql' = sql
  BY DEF Apply
<1>2. call'[o] = "applied" /\ \A p \in Operations : p # o => call'[p] = call[p]
  BY <1>1 DEF Sound, TypeOK
<1>3. Qdrant
  BY <1>1, MessagesToQdrant
<1>4. IdsFromAnswers' /\ VectorsHaveRows'
  BY <1>1, <1>3 DEF Sound, Consistent, IdsFromAnswers, VectorsHaveRows
<1>5. CASE o \in Docs
  <2>1. vectors' = vectors \cup {o}
    BY <1>1, <1>5 DEF Effect
  <2>2. ASSUME NEW d \in Docs
        PROVE  UploadState(d)'
    <3>1. UploadState(d) /\ d \in Operations
      BY Apart DEF Sound, Consistent
    <3>2. CASE d = o
      BY <1>1, <1>2, <1>3, <2>1, <3>1, <3>2 DEF UploadState, Untouched
    <3>3. CASE d # o
      BY <1>1, <1>2, <2>1, <3>1, <3>3 DEF UploadState, Untouched
    <3> QED
      BY <3>2, <3>3
  <2>3. ASSUME NEW x \in Deletes
        PROVE  DeleteState(x)'
    <3>1. DeleteState(x) /\ call'[x] = call[x]
      BY <1>2, <1>5, Apart DEF Sound, Consistent
    <3>2. began[x] = "after" => target[x] # o /\ UploadOver(target[x])'
      BY <1>1, <1>2, <3>1, Apart DEF DeleteState, UploadOver
    <3> QED
      BY <1>1, <2>1, <3>1, <3>2 DEF DeleteState, UploadOver
  <2> QED
    BY <1>4, <2>2, <2>3 DEF Consistent
<1>6. CASE o \in Deletes
  <2>1. vectors' = vectors \ {target[o]}
    BY <1>1, <1>6, Apart DEF Effect
  <2>2. ASSUME NEW d \in Docs
        PROVE  UploadState(d)'
    <3>1. UploadState(d) /\ call'[d] = call[d]
      BY <1>2, <1>6, Apart DEF Sound, Consistent
    <3>2. Untouched(d) => target[o] # d
      BY <1>6 DEF Untouched
    <3> QED
      BY <1>1, <1>3, <2>1, <3>1, <3>2 DEF UploadState, Untouched
  <2>3. ASSUME NEW x \in Deletes
        PROVE  DeleteState(x)'
    <3>1. DeleteState(x)
      BY DEF Sound, Consistent
    <3>2. began[x] = "after" => UploadOver(target[x])'
      BY <1>1, <1>2, <1>6, <3>1, Apart DEF DeleteState, UploadOver
    <3>3. x # o => call'[x] = call[x]
      BY <1>2, Apart
    <3>4. CASE x = o
      <4>1. pc[x] # "idle" /\ target[x] \notin vectors'
        BY <1>1, <2>1, <3>1, <3>4 DEF DeleteState
      <4> QED
        BY <1>1, <1>2, <1>3, <2>1, <3>1, <3>2, <3>4, <4>1 DEF DeleteState
    <3>5. CASE x # o
      BY <1>1, <2>1, <3>1, <3>2, <3>3, <3>5 DEF DeleteState
    <3> QED
      BY <3>4, <3>5
  <2> QED
    BY <1>4, <2>2, <2>3 DEF Consistent
<1> QED
  BY <1>5, <1>6 DEF Operations

\* Sending a message, and losing one, are not seen in the stores.
LEMMA CallStep ==
  ASSUME Sound, NEW o \in Operations, Send(o) \/ Lose(o)
  PROVE  Consistent'
<1>1. /\ \/ pc[o] \in {"upserting", "deleting vectors"} /\ call' = [call EXCEPT ![o] = "sent"]
         \/ call[o] = "sent" /\ call' = [call EXCEPT ![o] = "lost"]
      /\ vectors' = vectors
      /\ life' = life /\ rows' = rows /\ known' = known /\ pc' = pc /\ target' = target
      /\ began' = began /\ sql' = sql
      /\ call[o] \in {"none", "sent"}
  BY DEF Send, Lose
<1>2. /\ call'[o] \in {"sent", "lost"}
      /\ pc[o] \in {"upserting", "deleting vectors"} \/ call'[o] = "lost"
      /\ \A p \in Operations : p # o => call'[p] = call[p]
  BY <1>1 DEF Sound, TypeOK
<1>3. Qdrant
  BY MessagesToQdrant DEF Send, Lose
<1>4. IdsFromAnswers' /\ VectorsHaveRows'
  BY <1>1 DEF Sound, Consistent, IdsFromAnswers, VectorsHaveRows
<1>5. ASSUME NEW d \in Docs
      PROVE  UploadState(d)'
  <2>1. UploadState(d) /\ d \in Operations
    BY Apart DEF Sound, Consistent
  <2> QED
    BY <1>1, <1>2, <1>3, <2>1 DEF UploadState, Untouched, Unwritten
<1>6. ASSUME NEW x \in Deletes
      PROVE  DeleteState(x)'
  <2>1. DeleteState(x) /\ x \in Operations
    BY Apart DEF Sound, Consistent
  <2>2. began[x] = "after" => UploadOver(target[x])'
    BY <1>1, <1>2, <2>1, Apart DEF DeleteState, UploadOver, Over
  <2> QED
    BY <1>1, <1>2, <1>3, <2>1, <2>2 DEF DeleteState
<1> QED
  BY <1>4, <1>5, <1>6 DEF Consistent

\* A stop abandons what is under way, and empties the store in memory.
LEMMA CrashStep ==
  ASSUME Sound, Crash
  PROVE  Consistent'
<1>1. /\ life' = "none" /\ vectors' = IF Qdrant THEN vectors ELSE {}
      /\ rows' = rows /\ known' = known /\ target' = target /\ call' = call
      /\ began' = began /\ sql' = sql
      /\ \A o \in Operations : pc'[o] = IF pc[o] \in Busy THEN "crashed" ELSE pc[o]
  BY DEF Crash
<1>2. ASSUME NEW d \in Docs
      PROVE  UploadState(d)'
  <2>1. UploadState(d) /\ d \in Operations
    BY Apart DEF Sound, Consistent
  <2> QED
    BY <1>1, <2>1 DEF UploadState, Untouched, Unwritten, Busy
<1>3. ASSUME NEW x \in Deletes
      PROVE  DeleteState(x)'
  <2>1. DeleteState(x) /\ x \in Operations
    BY Apart DEF Sound, Consistent
  <2>2. began[x] = "after" => UploadOver(target[x])'
    BY <1>1, <2>1, Apart DEF DeleteState, UploadOver, Over
  <2> QED
    BY <1>1, <2>1, <2>2 DEF DeleteState, Busy
<1>4. IdsFromAnswers'
  <2>1. /\ \A d \in Docs : pc[d] = "ok" => pc'[d] = "ok"
        /\ \A x \in Deletes : pc'[x] # "idle" => pc[x] # "idle"
        /\ known \subseteq Docs
    BY <1>1, Apart DEF Sound, TypeOK, Busy
  <2> QED
    BY <1>1, <2>1 DEF Sound, Consistent, IdsFromAnswers
<1>5. VectorsHaveRows'
  BY <1>1 DEF Sound, Consistent, VectorsHaveRows
<1> QED
  BY <1>2, <1>3, <1>4, <1>5 DEF Consistent

\* The other steps around the operations touch nothing but the ids that are
\* known, the contexts and the life of the process.
LEMMA QuietStep ==
  ASSUME Sound,
         List \/ Restart \/ UNCHANGED vars \/ \E o \in Operations : Expire(o)
  PROVE  Consistent'
<1>1. /\ rows' = rows /\ vectors' = vectors /\ pc' = pc /\ target' = target
      /\ call' = call /\ began' = began /\ sql' = sql
      /\ life' = "first" => life = "first"
      /\ known' = known \/ (Listing /\ known' = known \cup rows)
  BY DEF List, Restart, Expire, vars
<1>2. ASSUME NEW d \in Docs
      PROVE  UploadState(d)'
  <2>1. UploadState(d)
    BY DEF Sound, Consistent
  <2> QED
    BY <1>1, <2>1 DEF UploadState, Untouched
<1>3. \A x \in Deletes : DeleteState(x)'
  BY <1>1 DEF Sound, Consistent, DeleteState, UploadOver
<1>4. IdsFromAnswers'
  BY <1>1 DEF Sound, Consistent, IdsFromAnswers
<1>5. VectorsHaveRows'
  BY <1>1 DEF Sound, Consistent, VectorsHaveRows
<1> QED
  BY <1>2, <1>3, <1>4, <1>5 DEF Consistent
-----------------------------------------------------------------------------
LEMMA ConsistentInit == Init => Sound
<1> SUFFICES ASSUME Init PROVE Sound
  OBVIOUS
<1>1. \A d \in Docs : UploadState(d)
  BY Apart DEF Init, UploadState, Unwritten
<1>2. \A x \in Deletes : DeleteState(x)
  BY Apart DEF Init, DeleteState
<1>3. IdsFromAnswers /\ VectorsHaveRows
  BY Apart, RagAssumption DEF Init, IdsFromAnswers, VectorsHaveRows
<1> QED
  BY <1>1, <1>2, <1>3, TypeInit DEF Sound, Consistent

LEMMA ConsistentStep == Sound /\ [Next]_vars => Sound'
<1> SUFFICES ASSUME Sound, [Next]_vars PROVE Consistent'
  BY TypeStep DEF Sound
<1>1. ASSUME NEW d \in Docs, Ingest(d)
      PROVE  Consistent'
  BY <1>1, IngestOthers, IngestRest DEF Consistent
<1>2. ASSUME NEW x \in Deletes, Removal(x)
      PROVE  Consistent'
  BY <1>2, RemovalOthers, RemovalRest DEF Consistent
<1>3. ASSUME NEW o \in Operations, Message(o)
      PROVE  Consistent'
  BY <1>3, ApplyStep, CallStep DEF Message
<1>4. CASE Crash
  BY <1>4, CrashStep
<1>5. CASE List \/ Restart \/ UNCHANGED vars \/ \E o \in Operations : Expire(o)
  BY <1>5, QuietStep
<1> QED
  BY <1>1, <1>2, <1>3, <1>4, <1>5 DEF Next

\* The inductive invariant holds, whatever fails, stops or comes late.
THEOREM Consistency == Spec => []Sound
BY ConsistentInit, ConsistentStep, PTL DEF Spec

\* A delete that began after the upload and was answered 204 or 404 has left
\* nothing of its document, and nothing of it comes back: Delete keeps the row
\* until the chunks are gone, and no message of the upload is on its way.
THEOREM DeletesAreFinal == Spec => []AnsweredDeleteIsFinal
<1>1. Sound => AnsweredDeleteIsFinal
  BY DEF Sound, Consistent, DeleteState, AnsweredDeleteIsFinal
<1> QED
  BY <1>1, Consistency, PTL

\* What was answered 201, and is not being deleted, is in both stores.
THEOREM AcknowledgedStays == Spec => []AcknowledgedIsStored
<1>1. Sound => AcknowledgedIsStored
  <2> SUFFICES ASSUME Sound, NEW d \in Docs, pc[d] = "ok", Untouched(d)
               PROVE  d \in rows /\ (Qdrant \/ life = "first" => d \in vectors)
    BY DEF AcknowledgedIsStored, Untouched
  <2>1. UploadState(d)
    BY DEF Sound, Consistent
  <2> QED
    BY <2>1 DEF UploadState
<1> QED
  BY <1>1, Consistency, PTL

\* An upload answered with an error is not listed, so long as SQL statements do
\* not fail by themselves.
THEOREM FailuresAreRolledBack == Spec => []FailedUploadIsNotListed
<1>1. Sound => FailedUploadIsNotListed
  BY DEF Sound, Consistent, UploadState, FailedUploadIsNotListed
<1> QED
  BY <1>1, Consistency, PTL

\* In memory, and with ids known from answers only, every chunk has its document.
THEOREM NoOrphans == Spec => []VectorsHaveRows
<1>1. Sound => VectorsHaveRows
  BY DEF Sound, Consistent
<1> QED
  BY <1>1, Consistency, PTL
==============================================================================
