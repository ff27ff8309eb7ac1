-------------------------------- MODULE Startup --------------------------------
(***************************************************************************)
(* A gateway from its start until it serves (cmd/server/main.go): the       *)
(* database is opened (Migrations), the embedder probed for the length of   *)
(* its vectors, the collection of that dimension ensured in the vector      *)
(* store (EnsureCollection of internal/rag/qdrant.go and inmemory.go).  Any *)
(* error on the way ends the process; docker-compose.yml starts it again.   *)
(*                                                                          *)
(* Gateways share the database file and the Qdrant server.  A gateway's     *)
(* settings are chosen when they are first used.                            *)
(***************************************************************************)
EXTENDS Migrations

CONSTANT Dims      \* lengths of the vectors of the embedders there are

ASSUME DimsAssumption == Dims \subseteq Nat \ {0}

VARIABLES
    stage,      \* stage[g]: where main is, once the database is open
    store,      \* store[g]: its vector store, "none" without an embedder
    dim,        \* dim[g]: what its probe learned, 0 if nothing yet
    collection, \* the dimension of the collection in Qdrant, 0 if there is none
    late,       \* requests to make it that Qdrant may still carry out after the
                \*     process that sent them has given up, by their dimension
    fresh       \* fresh[g]: g asked for the collection and found none
                \*     (history: no guard reads it)

ragVars     == <<stage, store, dim, collection, late, fresh>>
startupVars == <<vars, ragVars>>

StartupInit == /\ Init
               /\ stage      = [g \in Gateways |-> "closed"]
               /\ store      = [g \in Gateways |-> "none"]
               /\ dim        = [g \in Gateways |-> 0]
               /\ collection = 0
               /\ late       = {}
               /\ fresh      = [g \in Gateways |-> FALSE]
-----------------------------------------------------------------------------
\* The settings are read and the providers built; nothing is touched by then.
Boot(g) == Start(g) /\ UNCHANGED ragVars

Clashing(g) == \/ ExecuteFails(g) /\ Clashes(g)
               \/ RecordFails(g) /\ file[g] \in recorded

\* main goes on when OpenSQLite has returned.
Returned(g) == /\ stage' = [stage EXCEPT ![g] = IF pc'[g] = "open" THEN "probing" ELSE @]
               /\ UNCHANGED <<store, dim, collection, late, fresh>>

OpenDatabase(g) == /\ Read(g) \/ Skip(g) \/ Execute(g) \/ Record(g) \/ Clashing(g)
                   /\ Returned(g)

DatabaseFails(g) == /\ \/ ReadPart(g) /\ applied'[g] # recorded
                       \/ ReadFails(g)
                       \/ ExecuteFails(g) /\ ~Clashes(g)
                       \/ RecordFails(g) /\ file[g] \notin recorded
                    /\ Returned(g)
-----------------------------------------------------------------------------
Reach(g, s) == stage' = [stage EXCEPT ![g] = s]

\* GATEWAY_EMBEDDER is not set: there is no document service.
NoEmbedder(g) == /\ stage[g] = "probing"
                 /\ Reach(g, "serving")
                 /\ UNCHANGED <<vars, store, dim, collection, late, fresh>>

\* A vector came back.  The store in memory takes any dimension.
Probe(g) == /\ stage[g] = "probing"
            /\ \E d \in Dims : dim' = [dim EXCEPT ![g] = d]
            /\ \E s \in {"inmemory", "qdrant"} :
                   /\ store' = [store EXCEPT ![g] = s]
                   /\ Reach(g, IF s = "qdrant" THEN "checking" ELSE "serving")
            /\ UNCHANGED <<vars, collection, late, fresh>>

\* GET /collections/{name}: any collection of that name will do.
Check(g) == /\ stage[g] = "checking"
            /\ fresh' = [fresh EXCEPT ![g] = collection = 0]
            /\ Reach(g, IF collection = 0 THEN "creating" ELSE "serving")
            /\ UNCHANGED <<vars, store, dim, collection, late>>

\* PUT /collections/{name}
Create(g) == /\ stage[g] = "creating"
             /\ collection = 0
             /\ collection' = dim[g]
             /\ Reach(g, "serving")
             /\ UNCHANGED <<vars, store, dim, late, fresh>>

\* The process ends: the operating system closes the database.
End(g) == /\ Stop(g)
          /\ Reach(g, "closed")
          /\ store' = [store EXCEPT ![g] = "none"]
          /\ dim'   = [dim EXCEPT ![g] = 0]
          /\ fresh' = [fresh EXCEPT ![g] = FALSE]

\* Mutation: that somebody else has made the collection is as good as making it.
MadeByOthers(g) == /\ stage[g] = "creating"
                   /\ collection # 0
                   /\ Reach(g, "serving")
                   /\ UNCHANGED <<vars, store, dim, collection, late, fresh>>

\* Qdrant makes no second collection of a name: another gateway has been faster.
CreateRefused(g) == /\ stage[g] = "creating"
                    /\ collection # 0
                    /\ End(g)
                    /\ UNCHANGED <<collection, late>>

\* Mutation: the collection is asked for before the probe has told its dimension.
AbandonUnprobed(g) == /\ End(g)
                      /\ late' = late \cup {dim[g]}
                      /\ UNCHANGED collection

\* A request on the way is lost, or carried out later.
Abandon(g) == /\ End(g)
              /\ \/ UNCHANGED late
                 \/ stage[g] = "creating" /\ late' = late \cup {dim[g]}
              /\ UNCHANGED collection

\* The embedder or Qdrant cannot be used, or does not answer in thirty seconds.
UpstreamFails(g) == stage[g] \in {"probing", "checking", "creating"} /\ Abandon(g)

\* A signal, a crash, a port that is taken.
Halt(g) == Abandon(g)

\* Qdrant carries out a request that nobody waits for, if it is not too late.
LateCreate == \E d \in late : /\ late' = late \ {d}
                              /\ collection' = IF collection = 0 THEN d ELSE collection
                              /\ UNCHANGED <<vars, stage, store, dim, fresh>>

Own(g) == \/ Boot(g) \/ OpenDatabase(g)
          \/ NoEmbedder(g) \/ Probe(g) \/ Check(g) \/ Create(g) \/ CreateRefused(g)

Trouble(g) == DatabaseFails(g) \/ UpstreamFails(g) \/ Halt(g)

StartupNext == (\E g \in Gateways : Own(g) \/ Trouble(g)) \/ LateCreate

StartupSpec == StartupInit /\ [][StartupNext]_startupVars

\* The restart policy of docker-compose.yml, and a process that can go on does.
StartupFairSpec == StartupSpec /\ \A g \in Gateways : WF_startupVars(Own(g))
-----------------------------------------------------------------------------
StartupTypeOK ==
    /\ stage \in [Gateways -> {"closed", "probing", "checking", "creating", "serving"}]
    /\ store \in [Gateways -> {"none", "inmemory", "qdrant"}]
    /\ dim   \in [Gateways -> Dims \cup {0}]
    /\ collection \in Dims \cup {0}
    /\ late \subseteq Dims
    /\ fresh \in [Gateways -> BOOLEAN]

\* A gateway that found no collection serves one of its own dimension, however
\* many others found none at the same time.  (One that found a collection may
\* serve one of another dimension: nobody compares.)
FreshFits ==
    \A g \in Gateways : stage[g] = "serving" /\ fresh[g] => collection = dim[g]

\* cmd/server/main.go:86-88, "It probes the embedder so we know its dim, then
\* ensures the vector store collection exists at that dim before serving
\* requests."  EnsureCollection asks only whether there is one of that name.
CollectionIsOfDim ==
    \A g \in Gateways : stage[g] = "serving" /\ store[g] = "qdrant" => collection = dim[g]

\* Whatever had gone wrong before: once the trouble is over, and if the database
\* has ever been open, every gateway comes to serve, and goes on serving.
ComesBack ==
    <>[][\A g \in Gateways : ~Trouble(g)]_startupVars =>
        <>[](opened => \A g \in Gateways : stage[g] = "serving")
==============================================================================
