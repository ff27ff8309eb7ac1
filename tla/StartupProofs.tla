----------------------------- MODULE StartupProofs -----------------------------
(***************************************************************************)
(* Startup for any files, any number of gateways, any faults and any        *)
(* dimensions.  Migrations is the part of it that opens the database, so    *)
(* that what MigrationsProofs shows of an open database holds of a gateway  *)
(* that serves.                                                             *)
(***************************************************************************)
EXTENDS Startup, MigrationsProofs

\* What a gateway knows at each stage.
Ready(g) ==
    /\ stage[g] # "closed" => pc[g] = "open"
    /\ stage[g] \in {"closed", "probing"} => store[g] = "none"
    /\ stage[g] \in {"closed", "probing", "checking"} => ~fresh[g]
    /\ stage[g] \in {"checking", "creating"} => dim[g] \in Dims
    /\ stage[g] = "serving" /\ fresh[g] => collection = dim[g] /\ dim[g] \in Dims

AllReady == StartupTypeOK /\ \A g \in Gateways : Ready(g)

\* A step of gateway g only; a collection that exists stays as it is.
Lone(g) == /\ \A h \in Gateways \ {g} :
                  /\ pc'[h] = pc[h] /\ stage'[h] = stage[h] /\ store'[h] = store[h]
                  /\ dim'[h] = dim[h] /\ fresh'[h] = fresh[h]
           /\ collection # 0 => collection' = collection

Stages == {"closed", "probing", "checking", "creating", "serving"}
-----------------------------------------------------------------------------
(***************************************************************************)
(* Every step on the way to serving is a step of Migrations, or none.      *)
(***************************************************************************)
LEMMA StepIsMigrations == ASSUME [StartupNext]_startupVars PROVE [Next]_vars
<1>1. ASSUME NEW g \in Gateways, Own(g) PROVE [Next]_vars
  <2>1. CASE Boot(g) \/ OpenDatabase(g)
    BY <2>1 DEF Boot, OpenDatabase, Clashing, Next, Open
  <2>2. CASE CreateRefused(g)
    BY <2>2 DEF CreateRefused, End, Next
  <2>3. CASE NoEmbedder(g) \/ Probe(g) \/ Check(g) \/ Create(g)
    BY <2>3 DEF NoEmbedder, Probe, Check, Create
  <2> QED
    BY <1>1, <2>1, <2>2, <2>3 DEF Own
<1>2. ASSUME NEW g \in Gateways, Trouble(g) PROVE [Next]_vars
  BY <1>2 DEF Trouble, DatabaseFails, UpstreamFails, Halt, Abandon, End, Next, Open
<1>3. CASE LateCreate
  BY <1>3 DEF LateCreate
<1>4. CASE UNCHANGED startupVars
  BY <1>4 DEF startupVars
<1> QED
  BY <1>1, <1>2, <1>3, <1>4 DEF StartupNext

\* A gateway on its way to serving opens its database as Migrations says, so that
\* everything shown of the migrations holds of it.
THEOREM StartupImplementsMigrations == StartupSpec => Spec
<1>1. StartupInit => Init
  BY DEF StartupInit
<1> QED
  BY <1>1, StepIsMigrations, PTL DEF StartupSpec, Spec
-----------------------------------------------------------------------------
LEMMA OthersReady ==
  ASSUME AllReady, NEW g \in Gateways, Lone(g), collection' \in Dims \cup {0}
  PROVE  \A h \in Gateways \ {g} : Ready(h)'
<1> SUFFICES ASSUME NEW h \in Gateways \ {g} PROVE Ready(h)'
  OBVIOUS
<1>1. \A d \in Dims : d # 0
  BY DimsAssumption
<1>2. /\ Ready(h)
      /\ pc'[h] = pc[h] /\ stage'[h] = stage[h] /\ store'[h] = store[h]
      /\ dim'[h] = dim[h] /\ fresh'[h] = fresh[h]
  BY DEF AllReady, Lone
<1>3. collection # 0 => collection' = collection
  BY DEF Lone
<1> QED
  BY <1>1, <1>2, <1>3 DEF Ready

\* The end of a gateway, whatever it was at.
LEMMA ReadyAtEnd ==
  ASSUME TypeOK, AllReady, NEW g \in Gateways, End(g), collection' = collection,
         late' \subseteq Dims
  PROVE  AllReady'
<1>1. /\ pc' = [pc EXCEPT ![g] = "down"]
      /\ stage' = [stage EXCEPT ![g] = "closed"]
      /\ store' = [store EXCEPT ![g] = "none"]
      /\ dim' = [dim EXCEPT ![g] = 0]
      /\ fresh' = [fresh EXCEPT ![g] = FALSE]
  BY DEF End, Stop, Goto, Reach
<1>2. StartupTypeOK'
  BY <1>1 DEF AllReady, StartupTypeOK
<1>3. stage'[g] = "closed" /\ store'[g] = "none" /\ ~fresh'[g]
  BY <1>1 DEF AllReady, StartupTypeOK
<1>4. Ready(g)'
  BY <1>3 DEF Ready
<1>5. Lone(g)
  BY <1>1 DEF Lone, TypeOK, AllReady, StartupTypeOK
<1>6. \A h \in Gateways \ {g} : Ready(h)'
  BY <1>5, OthersReady DEF AllReady, StartupTypeOK
<1> QED
  BY <1>2, <1>4, <1>6 DEF AllReady

\* The database is still being opened, or has just been.
LEMMA ReadyWhileOpening ==
  ASSUME TypeOK, AllReady, NEW g \in Gateways, NEW label,
         pc[g] # "open", pc' = [pc EXCEPT ![g] = label], Returned(g)
  PROVE  AllReady'
<1>1. stage[g] = "closed" /\ store[g] = "none" /\ ~fresh[g]
  BY DEF AllReady, Ready
<1>2. pc'[g] = label
  BY DEF TypeOK
<1>3. /\ stage' = [stage EXCEPT ![g] = IF label = "open" THEN "probing" ELSE "closed"]
      /\ UNCHANGED <<store, dim, collection, late, fresh>>
  BY <1>1, <1>2 DEF Returned
<1>4. /\ stage'[g] = IF label = "open" THEN "probing" ELSE "closed"
      /\ StartupTypeOK'
  BY <1>3 DEF AllReady, StartupTypeOK
<1>5. Ready(g)'
  BY <1>1, <1>2, <1>3, <1>4 DEF Ready
<1>6. Lone(g)
  BY <1>3 DEF Lone, TypeOK, AllReady, StartupTypeOK
<1>7. \A h \in Gateways \ {g} : Ready(h)'
  BY <1>3, <1>6, OthersReady DEF AllReady, StartupTypeOK
<1> QED
  BY <1>4, <1>5, <1>7 DEF AllReady

\* One step of a gateway that has its database open.
LEMMA ReadyAfter ==
  ASSUME TypeOK, AllReady, NEW g \in Gateways, NEW s \in Stages,
         UNCHANGED <<vars, late>>, stage' = [stage EXCEPT ![g] = s],
         Ready(g)', Lone(g),
         store' \in [Gateways -> {"none", "inmemory", "qdrant"}],
         dim' \in [Gateways -> Dims \cup {0}],
         collection' \in Dims \cup {0},
         fresh' \in [Gateways -> BOOLEAN]
  PROVE  AllReady'
<1>1. stage' \in [Gateways -> Stages] /\ late' \subseteq Dims
  BY DEF AllReady, StartupTypeOK, Stages
<1>2. StartupTypeOK'
  BY <1>1 DEF StartupTypeOK, Stages
<1>3. \A h \in Gateways \ {g} : Ready(h)'
  BY OthersReady
<1> QED
  BY <1>2, <1>3 DEF AllReady

LEMMA ReadyStep ==
  ASSUME TypeOK, AllReady, [StartupNext]_startupVars
  PROVE  AllReady'
<1>1. ASSUME NEW g \in Gateways, Boot(g) PROVE AllReady'
  <2>1. /\ pc[g] \in {"down", "refused"} /\ pc' = [pc EXCEPT ![g] = "reading"]
        /\ UNCHANGED ragVars
    BY <1>1 DEF Boot, Start, Goto
  <2>2. stage[g] = "closed"
    BY <2>1 DEF AllReady, Ready
  <2>3. Returned(g)
    BY <2>1, <2>2 DEF Returned, ragVars, TypeOK, AllReady, StartupTypeOK
  <2> QED
    BY <2>1, <2>3, ReadyWhileOpening
<1>2. ASSUME NEW g \in Gateways, OpenDatabase(g) \/ DatabaseFails(g) PROVE AllReady'
  <2>1. Returned(g)
    BY <1>2 DEF OpenDatabase, DatabaseFails
  <2>2. \/ Read(g) \/ ReadPart(g) \/ ReadFails(g) \/ Skip(g) \/ Execute(g)
        \/ ExecuteFails(g) \/ Record(g) \/ RecordFails(g)
    BY <1>2 DEF OpenDatabase, DatabaseFails, Clashing
  <2>3. /\ pc[g] \in {"reading", "applying", "recording"}
        /\ \E label \in {"applying", "recording", "open", "refused"} :
               pc' = [pc EXCEPT ![g] = label]
    <3>1. CASE Read(g) \/ ReadPart(g) \/ ReadFails(g)
      BY <3>1 DEF Read, ReadPart, ReadFails, At, Goto
    <3>2. CASE Skip(g) \/ Record(g)
      BY <3>2 DEF Skip, Record, MoveOn, At, Goto
    <3>3. CASE Execute(g)
      <4>1. pc[g] = "applying" /\ (pc' = [pc EXCEPT ![g] = "recording"] \/ pc' = pc)
        BY <3>3 DEF Execute, At, Goto
      <4>2. pc = [pc EXCEPT ![g] = "applying"]
        BY <4>1 DEF TypeOK
      <4> QED
        BY <4>1, <4>2
    <3>4. CASE ExecuteFails(g) \/ RecordFails(g)
      BY <3>4 DEF ExecuteFails, RecordFails, At, Goto
    <3> QED
      BY <2>2, <3>1, <3>2, <3>3, <3>4
  <2> QED
    BY <2>1, <2>3, ReadyWhileOpening
<1>3. ASSUME NEW g \in Gateways, NoEmbedder(g) PROVE AllReady'
  <2>1. /\ stage[g] = "probing" /\ stage' = [stage EXCEPT ![g] = "serving"]
        /\ UNCHANGED <<vars, store, dim, collection, late, fresh>>
    BY <1>3 DEF NoEmbedder, Reach
  <2>2. stage'[g] = "serving" /\ pc' = pc
    BY <2>1 DEF AllReady, StartupTypeOK, vars
  <2>3. Ready(g)'
    BY <2>1, <2>2 DEF AllReady, Ready
  <2>4. Lone(g)
    BY <2>1, <2>2 DEF Lone, AllReady, StartupTypeOK
  <2> QED
    BY <2>1, <2>3, <2>4, ReadyAfter DEF AllReady, StartupTypeOK, Stages
<1>4. ASSUME NEW g \in Gateways, Probe(g) PROVE AllReady'
  <2>1. PICK d \in Dims : dim' = [dim EXCEPT ![g] = d]
    BY <1>4 DEF Probe
  <2>2. PICK s \in {"inmemory", "qdrant"} :
            /\ store' = [store EXCEPT ![g] = s]
            /\ stage' = [stage EXCEPT ![g] = IF s = "qdrant" THEN "checking" ELSE "serving"]
    BY <1>4 DEF Probe, Reach
  <2>3. stage[g] = "probing" /\ UNCHANGED <<vars, collection, late, fresh>>
    BY <1>4 DEF Probe
  <2>4. /\ dim'[g] = d /\ store'[g] = s /\ pc' = pc
        /\ stage'[g] = IF s = "qdrant" THEN "checking" ELSE "serving"
    BY <2>1, <2>2, <2>3 DEF AllReady, StartupTypeOK, vars
  <2>5. Ready(g)'
    BY <2>3, <2>4 DEF AllReady, Ready
  <2>6. Lone(g)
    BY <2>1, <2>2, <2>3, <2>4 DEF Lone, AllReady, StartupTypeOK
  <2>7. dim' \in [Gateways -> Dims \cup {0}]
    BY <2>1 DEF AllReady, StartupTypeOK
  <2>8. store' \in [Gateways -> {"none", "inmemory", "qdrant"}]
    BY <2>2 DEF AllReady, StartupTypeOK
  <2>9. (IF s = "qdrant" THEN "checking" ELSE "serving") \in Stages
    BY DEF Stages
  <2>10. collection' \in Dims \cup {0} /\ fresh' \in [Gateways -> BOOLEAN]
    BY <2>3 DEF AllReady, StartupTypeOK
  <2> QED
    BY <2>2, <2>3, <2>5, <2>6, <2>7, <2>8, <2>9, <2>10, ReadyAfter
<1>5. ASSUME NEW g \in Gateways, Check(g) PROVE AllReady'
  <2>1. /\ stage[g] = "checking" /\ fresh' = [fresh EXCEPT ![g] = collection = 0]
        /\ stage' = [stage EXCEPT ![g] = IF collection = 0 THEN "creating" ELSE "serving"]
        /\ UNCHANGED <<vars, store, dim, collection, late>>
    BY <1>5 DEF Check, Reach
  <2>2. /\ stage'[g] = IF collection = 0 THEN "creating" ELSE "serving"
        /\ fresh'[g] = (collection = 0) /\ pc' = pc
    BY <2>1 DEF AllReady, StartupTypeOK, vars
  <2>3. Ready(g)'
    <3>1. CASE collection = 0
      <4>1. stage'[g] = "creating"
        BY <2>2, <3>1
      <4> QED
        BY <2>1, <2>2, <3>1, <4>1 DEF AllReady, Ready
    <3>2. CASE collection # 0
      <4>1. ~fresh'[g] /\ stage'[g] = "serving"
        BY <2>2, <3>2
      <4> QED
        BY <2>1, <2>2, <3>2, <4>1 DEF AllReady, Ready
    <3> QED
      BY <3>1, <3>2
  <2>4. Lone(g)
    BY <2>1, <2>2 DEF Lone, AllReady, StartupTypeOK
  <2>5. fresh' \in [Gateways -> BOOLEAN]
    BY <2>1 DEF AllReady, StartupTypeOK
  <2>6. (IF collection = 0 THEN "creating" ELSE "serving") \in Stages
    BY DEF Stages
  <2>7. /\ store' \in [Gateways -> {"none", "inmemory", "qdrant"}]
        /\ dim' \in [Gateways -> Dims \cup {0}] /\ collection' \in Dims \cup {0}
    BY <2>1 DEF AllReady, StartupTypeOK
  <2> QED
    BY <2>1, <2>3, <2>4, <2>5, <2>6, <2>7, ReadyAfter
<1>6. ASSUME NEW g \in Gateways, Create(g) PROVE AllReady'
  <2>1. /\ stage[g] = "creating" /\ collection = 0 /\ collection' = dim[g]
        /\ stage' = [stage EXCEPT ![g] = "serving"]
        /\ UNCHANGED <<vars, store, dim, late, fresh>>
    BY <1>6 DEF Create, Reach
  <2>2. stage'[g] = "serving" /\ pc' = pc /\ dim[g] \in Dims /\ dim[g] # 0
    BY <2>1, DimsAssumption DEF AllReady, StartupTypeOK, Ready, vars
  <2>3. Ready(g)'
    BY <2>1, <2>2 DEF AllReady, Ready
  <2>4. Lone(g)
    BY <2>1, <2>2 DEF Lone, AllReady, StartupTypeOK
  <2>5. "serving" \in Stages /\ collection' \in Dims \cup {0}
    BY <2>1, <2>2 DEF Stages
  <2>6. /\ store' \in [Gateways -> {"none", "inmemory", "qdrant"}]
        /\ dim' \in [Gateways -> Dims \cup {0}] /\ fresh' \in [Gateways -> BOOLEAN]
    BY <2>1 DEF AllReady, StartupTypeOK
  <2> QED
    BY <2>1, <2>3, <2>4, <2>5, <2>6, ReadyAfter
<1>7. ASSUME NEW g \in Gateways, CreateRefused(g) PROVE AllReady'
  BY <1>7, ReadyAtEnd DEF CreateRefused, AllReady, StartupTypeOK
<1>8. ASSUME NEW g \in Gateways, Abandon(g) PROVE AllReady'
  <2>1. late' \subseteq Dims
    BY <1>8 DEF Abandon, AllReady, StartupTypeOK, Ready
  <2> QED
    BY <1>8, <2>1, ReadyAtEnd DEF Abandon
<1>9. CASE LateCreate
  <2>1. PICK d \in late : /\ late' = late \ {d}
                          /\ collection' = IF collection = 0 THEN d ELSE collection
                          /\ UNCHANGED <<vars, stage, store, dim, fresh>>
    BY <1>9 DEF LateCreate
  <2>2. d \in Dims /\ StartupTypeOK' /\ pc' = pc
    BY <2>1 DEF AllReady, StartupTypeOK, vars
  <2>3. \A e \in Dims : e # 0
    BY DimsAssumption
  <2>4. collection # 0 => collection' = collection
    BY <2>1
  <2>5. ASSUME NEW g \in Gateways PROVE Ready(g)'
    <3>1. Ready(g)
      BY DEF AllReady
    <3> QED
      BY <2>1, <2>2, <2>3, <2>4, <3>1 DEF Ready
  <2> QED
    BY <2>2, <2>5 DEF AllReady
<1>10. CASE UNCHANGED startupVars
  BY <1>10 DEF startupVars, vars, ragVars, AllReady, StartupTypeOK, Ready
<1> QED
  BY <1>1, <1>2, <1>3, <1>4, <1>5, <1>6, <1>7, <1>8, <1>9, <1>10
     DEF StartupNext, Own, Trouble, UpstreamFails, Halt

LEMMA StaysReady == StartupSpec => [](TypeOK /\ AllReady)
<1>1. StartupInit => AllReady
  <2> SUFFICES ASSUME StartupInit PROVE AllReady
    OBVIOUS
  <2>1. StartupTypeOK
    BY DEF StartupInit, StartupTypeOK
  <2>2. \A g \in Gateways : Ready(g)
    BY DEF StartupInit, Ready
  <2> QED
    BY <2>1, <2>2 DEF AllReady
<1>2. TypeOK /\ AllReady /\ [StartupNext]_startupVars => AllReady'
  BY ReadyStep
<1>3. StartupSpec => []TypeOK
  BY StartupImplementsMigrations, Typing, PTL
<1> QED
  BY <1>1, <1>2, <1>3, PTL DEF StartupSpec

\* Every variable of the way to serving has the values its comment names.
THEOREM StartupTyping == StartupSpec => []StartupTypeOK
<1>1. AllReady => StartupTypeOK
  BY DEF AllReady
<1> QED
  BY <1>1, StaysReady, PTL

\* A gateway that found no collection never serves one of another dimension, even
\* if requests to make one arrive late.
THEOREM FreshServesItsOwn == StartupSpec => []FreshFits
<1>1. AllReady => FreshFits
  BY DEF AllReady, Ready, FreshFits
<1> QED
  BY <1>1, StaysReady, PTL
==============================================================================
