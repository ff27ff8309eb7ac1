--------------------------- MODULE MigrationsProofs ---------------------------
(***************************************************************************)
(* Migrations for any files of statements, any number of gateways and any   *)
(* faults.                                                                  *)
(*                                                                          *)
(* The invariant is Progress: what a gateway has behind it is in the        *)
(* database, and, once the database has been open, every file is recorded,  *)
(* so that whoever reads the records skips them all.                        *)
(***************************************************************************)
EXTENDS Migrations, TLAPS

Running(g)  == pc[g] \in {"applying", "recording"}
Underway(g) == pc[g] = "reading" \/ Running(g)

\* What holds of one gateway: the files and lines behind it.
Behind(g) ==
    /\ applied[g] \subseteq recorded
    /\ Underway(g) => \A f \in DOMAIN Files : f < file[g] => f \in recorded
    /\ pc[g] \in {"reading", "applying"} =>
           \A k \in DOMAIN Files[file[g]] : k < line[g] => Files[file[g]][k] \in schema
    /\ pc[g] = "recording" => Effects(file[g]) \subseteq schema /\ file[g] \notin applied[g]
    /\ pc[g] = "open" => opened

\* What a gateway that started behind an open database knows.
Settled(g) ==
    settled[g] => /\ opened
                  /\ Running(g) => applied[g] = DOMAIN Files
                  /\ pc[g] # "refused"

Progress == /\ RecordedIsThere
            /\ opened => recorded = DOMAIN Files
            /\ \A g \in Gateways : Behind(g) /\ Settled(g)

-----------------------------------------------------------------------------
(***************************************************************************)
(* Types.                                                                  *)
(***************************************************************************)
\* Where MoveOn leaves the gateway that calls it.
LEMMA TypeMoveOn ==
  ASSUME TypeOK, NEW g \in Gateways, Running(g), MoveOn(g),
         UNCHANGED <<schema, applied, settled>>, recorded' \subseteq DOMAIN Files
  PROVE  TypeOK'
<1>1. file[g] \in 1..Len(Files) /\ Len(Files) \in Nat /\ DOMAIN Files = 1..Len(Files)
  BY MigrationsAssumption DEF TypeOK, Running
<1>2. \A f \in DOMAIN Files : 1 \in DOMAIN Files[f]
  BY MigrationsAssumption
<1>3. /\ file' = [file EXCEPT ![g] = file[g] + 1]
      /\ line' = [line EXCEPT ![g] = 1]
      /\ pc' = [pc EXCEPT ![g] = IF file[g] = Len(Files) THEN "open" ELSE "applying"]
      /\ opened' = (opened \/ file[g] = Len(Files))
  BY DEF MoveOn, NextFile, Goto
<1>4. file' \in [Gateways -> 1..(Len(Files) + 1)] /\ line' \in [Gateways -> Nat \ {0}]
  BY <1>1, <1>3 DEF TypeOK
<1>5. opened' \in BOOLEAN
  BY <1>3 DEF TypeOK
<1>6. ASSUME NEW h \in Gateways, pc'[h] \in {"reading", "applying", "recording"}
      PROVE  file'[h] \in DOMAIN Files /\ line'[h] \in DOMAIN Files[file'[h]]
  <2>1. CASE h = g
    BY <1>1, <1>2, <1>3, <1>6, <2>1 DEF TypeOK
  <2>2. CASE h # g
    BY <1>3, <1>6, <2>2 DEF TypeOK
  <2> QED
    BY <2>1, <2>2
<1>7. pc' \in [Gateways -> {"down", "reading", "applying", "recording", "open", "refused"}]
  BY <1>3 DEF TypeOK
<1> QED
  BY <1>4, <1>5, <1>6, <1>7 DEF TypeOK

LEMMA TypeStep == ASSUME TypeOK, [Next]_vars PROVE TypeOK'
<1>1. ASSUME NEW g \in Gateways, Start(g) PROVE TypeOK'
  <2>1. 1 \in DOMAIN Files /\ 1 \in DOMAIN Files[1] /\ 1 \in 1..(Len(Files) + 1)
    BY MigrationsAssumption
  <2> QED
    BY <1>1, <2>1 DEF TypeOK, Start, Goto
<1>2. ASSUME NEW g \in Gateways, Read(g) \/ ReadPart(g) PROVE TypeOK'
  <2>1. /\ pc[g] = "reading"
        /\ pc' = [pc EXCEPT ![g] = "applying"]
        /\ UNCHANGED <<schema, recorded, file, line, opened>>
    BY <1>2 DEF Read, ReadPart, At, Goto
  <2>2. \E part \in SUBSET recorded : applied' = [applied EXCEPT ![g] = part]
    BY <1>2 DEF Read, ReadPart
  <2>3. applied' \in [Gateways -> SUBSET (DOMAIN Files)]
    BY <2>2 DEF TypeOK
  <2>4. settled' \in [Gateways -> BOOLEAN]
    BY <1>2 DEF TypeOK, Read, ReadPart, SqlError
  <2> QED
    BY <2>1, <2>3, <2>4 DEF TypeOK
<1>3. ASSUME NEW g \in Gateways, ReadFails(g) PROVE TypeOK'
  BY <1>3 DEF TypeOK, ReadFails, At, Goto, SqlError
<1>4. ASSUME NEW g \in Gateways, Skip(g) PROVE TypeOK'
  BY <1>4, TypeMoveOn DEF Skip, At, Running, TypeOK
<1>5. ASSUME NEW g \in Gateways, Execute(g) PROVE TypeOK'
  <2>1. /\ pc[g] = "applying"
        /\ file[g] \in DOMAIN Files /\ line[g] \in DOMAIN Files[file[g]]
    BY <1>5 DEF Execute, At, TypeOK
  <2>2. Statement(g) \in Statements
    BY <2>1 DEF Statement, Statements
  <2>3. CASE line[g] = Len(Files[file[g]])
    <3>1. /\ schema' = schema \cup {Statement(g)}
          /\ pc' = [pc EXCEPT ![g] = "recording"]
          /\ UNCHANGED <<recorded, applied, file, line, opened, settled>>
      BY <1>5, <2>3 DEF Execute, Goto
    <3> QED
      BY <2>1, <2>2, <3>1 DEF TypeOK
  <2>4. CASE line[g] # Len(Files[file[g]])
    <3>1. /\ schema' = schema \cup {Statement(g)}
          /\ line' = [line EXCEPT ![g] = line[g] + 1]
          /\ UNCHANGED <<recorded, applied, file, pc, opened, settled>>
      BY <1>5, <2>4 DEF Execute
    <3>2. line[g] + 1 \in DOMAIN Files[file[g]] /\ line[g] + 1 \in Nat \ {0}
      BY <2>1, <2>4, MigrationsAssumption
    <3>3. ASSUME NEW h \in Gateways, pc'[h] \in {"reading", "applying", "recording"}
          PROVE  file'[h] \in DOMAIN Files /\ line'[h] \in DOMAIN Files[file'[h]]
      BY <3>1, <3>2, <3>3 DEF TypeOK
    <3>4. line' \in [Gateways -> Nat \ {0}]
      BY <3>1, <3>2 DEF TypeOK
    <3> QED
      BY <2>2, <3>1, <3>3, <3>4 DEF TypeOK
  <2> QED
    BY <2>3, <2>4
<1>6. ASSUME NEW g \in Gateways, ExecuteFails(g) PROVE TypeOK'
  BY <1>6 DEF TypeOK, ExecuteFails, At, Goto, SqlError
<1>7. ASSUME NEW g \in Gateways, Record(g) PROVE TypeOK'
  <2>1. file[g] \in DOMAIN Files /\ Running(g)
    BY <1>7 DEF Record, At, TypeOK, Running
  <2>2. recorded' \subseteq DOMAIN Files
    BY <1>7, <2>1 DEF Record, TypeOK
  <2> QED
    BY <1>7, <2>1, <2>2, TypeMoveOn DEF Record
<1>8. ASSUME NEW g \in Gateways, RecordFails(g) PROVE TypeOK'
  BY <1>8 DEF TypeOK, RecordFails, At, Goto, SqlError
<1>9. ASSUME NEW g \in Gateways, Stop(g) PROVE TypeOK'
  BY <1>9 DEF TypeOK, Stop, Goto
<1>10. CASE UNCHANGED vars
  BY <1>10 DEF TypeOK, vars
<1> QED
  BY <1>1, <1>2, <1>3, <1>4, <1>5, <1>6, <1>7, <1>8, <1>9, <1>10 DEF Next, Open

\* Whatever the files and the gateways: every variable has the values its
\* comment names, and a gateway that applies files is at a statement of one.
THEOREM Typing == Spec => []TypeOK
<1>1. Init => TypeOK
  <2> SUFFICES ASSUME Init PROVE TypeOK
    OBVIOUS
  <2>1. 1 \in 1..(Len(Files) + 1)
    BY MigrationsAssumption
  <2>2. file \in [Gateways -> 1..(Len(Files) + 1)]
    BY <2>1 DEF Init
  <2>3. /\ pc = [g \in Gateways |-> "down"]
        /\ applied = [g \in Gateways |-> {}]
        /\ line = [g \in Gateways |-> 1]
        /\ settled = [g \in Gateways |-> FALSE]
    BY DEF Init
  <2>4. schema = {} /\ recorded = {} /\ opened = FALSE
    BY DEF Init
  <2>5. applied \in [Gateways -> SUBSET (DOMAIN Files)]
    BY <2>3
  <2>6. line \in [Gateways -> Nat \ {0}] /\ settled \in [Gateways -> BOOLEAN]
    BY <2>3
  <2>7. pc \in [Gateways -> {"down", "reading", "applying", "recording", "open", "refused"}]
    BY <2>3
  <2>8. \A g \in Gateways : pc[g] \notin {"reading", "applying", "recording"}
    BY <2>3
  <2> QED
    BY <2>2, <2>4, <2>5, <2>6, <2>7, <2>8 DEF TypeOK
<1> QED
  BY <1>1, TypeStep, PTL DEF Spec
-----------------------------------------------------------------------------
(***************************************************************************)
(* Progress.                                                               *)
(***************************************************************************)
\* A step of gateway g only.
Alone(g) == \A h \in Gateways \ {g} :
                /\ pc'[h] = pc[h] /\ applied'[h] = applied[h]
                /\ file'[h] = file[h] /\ line'[h] = line[h] /\ settled'[h] = settled[h]

\* What a step that records nothing new, opens nothing and leaves the other
\* gateways alone has to show: that its own gateway is as it should be.
LEMMA OthersAsBefore ==
  ASSUME TypeOK, Progress, NEW g \in Gateways,
         schema \subseteq schema', recorded \subseteq recorded', recorded' \subseteq DOMAIN Files,
         opened => opened',
         Alone(g)
  PROVE  \A h \in Gateways \ {g} : Behind(h)' /\ Settled(h)'
<1> SUFFICES ASSUME NEW h \in Gateways \ {g} PROVE Behind(h)' /\ Settled(h)'
  OBVIOUS
<1>1. Behind(h)'
  BY DEF Alone, Progress, Behind, Underway, Running, Effects
<1>2. Settled(h)'
  BY DEF Alone, Progress, Settled, Running
<1> QED
  BY <1>1, <1>2

\* A gateway that has a file behind it goes on to the next, or has them all.
LEMMA ProgressMoveOn ==
  ASSUME TypeOK, Progress, NEW g \in Gateways, Running(g), MoveOn(g),
         UNCHANGED <<schema, applied, settled>>,
         recorded' = recorded \cup {file[g]}, Effects(file[g]) \subseteq schema,
         settled[g] => applied[g] = DOMAIN Files
  PROVE  Progress'
<1>1. file[g] \in 1..Len(Files) /\ Len(Files) \in Nat /\ DOMAIN Files = 1..Len(Files)
  BY MigrationsAssumption DEF TypeOK, Running
<1>2. /\ file' = [file EXCEPT ![g] = file[g] + 1]
      /\ line' = [line EXCEPT ![g] = 1]
      /\ pc' = [pc EXCEPT ![g] = IF file[g] = Len(Files) THEN "open" ELSE "applying"]
      /\ opened' = (opened \/ file[g] = Len(Files))
  BY DEF MoveOn, NextFile, Goto
<1>3. /\ file'[g] = file[g] + 1 /\ line'[g] = 1
      /\ pc'[g] = IF file[g] = Len(Files) THEN "open" ELSE "applying"
  BY <1>2 DEF TypeOK
<1>4. recorded' \subseteq DOMAIN Files
  BY <1>1 DEF TypeOK
<1>5. RecordedIsThere'
  BY DEF Progress, RecordedIsThere, Effects
<1>6. \A f \in DOMAIN Files : f < file[g] + 1 => f \in recorded'
  <2>1. \A f \in DOMAIN Files : f < file[g] => f \in recorded
    BY DEF Progress, Behind, Underway
  <2> QED
    BY <1>1, <2>1
<1>7. file[g] = Len(Files) => recorded' = DOMAIN Files
  BY <1>1, <1>4, <1>6
<1>8. opened' => recorded' = DOMAIN Files
  BY <1>2, <1>4, <1>7 DEF Progress
<1>9. applied'[g] \subseteq recorded'
  BY DEF Progress, Behind
<1>10. Behind(g)'
  <2>1. \A k \in DOMAIN Files[file[g] + 1] : file[g] # Len(Files) => ~(k < 1)
    BY <1>1, MigrationsAssumption
  <2>2. pc'[g] = "applying" =>
            \A k \in DOMAIN Files[file'[g]] : k < line'[g] => Files[file'[g]][k] \in schema'
    <3> SUFFICES ASSUME pc'[g] = "applying", NEW k \in DOMAIN Files[file'[g]], k < line'[g]
                 PROVE  FALSE
      OBVIOUS
    <3>1. file[g] # Len(Files) /\ k \in DOMAIN Files[file[g] + 1] /\ k < 1
      BY <1>3
    <3> QED
      BY <2>1, <3>1
  <2>3. pc'[g] \notin {"reading", "recording"} /\ (pc'[g] = "open" => opened')
    <3>1. file[g] = Len(Files) => opened'
      BY <1>2
    <3>2. IF file[g] = Len(Files) THEN pc'[g] = "open" ELSE pc'[g] = "applying"
      BY <1>3
    <3> QED
      BY <3>1, <3>2
  <2>4. \A f \in DOMAIN Files : f < file'[g] => f \in recorded'
    BY <1>3, <1>6
  <2>5. pc'[g] \in {"reading", "applying"} => pc'[g] = "applying"
    BY <2>3
  <2> QED
    BY <1>9, <2>2, <2>3, <2>4, <2>5 DEF Behind
<1>11. Settled(g)'
  <2>1. settled[g] => opened
    BY DEF Progress, Settled
  <2>2. opened => opened'
    BY <1>2
  <2>3. pc'[g] # "refused"
    BY <1>3
  <2>4. settled'[g] = settled[g] /\ applied'[g] = applied[g]
    OBVIOUS
  <2> QED
    BY <2>1, <2>2, <2>3, <2>4 DEF Settled
<1>12. \A h \in Gateways \ {g} : Behind(h)' /\ Settled(h)'
  <2>1. Alone(g)
    BY <1>2 DEF TypeOK, Alone
  <2>2. opened => opened'
    BY <1>2
  <2> QED
    BY <1>4, <2>1, <2>2, OthersAsBefore
<1> QED
  BY <1>5, <1>8, <1>10, <1>11, <1>12 DEF Progress

\* A step that changes nothing but where one gateway stands.
LEMMA ProgressAlone ==
  ASSUME TypeOK, Progress, NEW g \in Gateways,
         UNCHANGED <<schema, recorded, opened>>,
         Alone(g),
         Behind(g)', Settled(g)'
  PROVE  Progress'
<1>1. \A h \in Gateways \ {g} : Behind(h)' /\ Settled(h)'
  BY OthersAsBefore DEF TypeOK
<1>2. RecordedIsThere' /\ (opened' => recorded' = DOMAIN Files)
  BY DEF Progress, RecordedIsThere
<1> QED
  BY <1>1, <1>2 DEF Progress

LEMMA ProgressStep == ASSUME TypeOK, Progress, [Next]_vars PROVE Progress'
<1>1. ASSUME NEW g \in Gateways, Start(g) PROVE Progress'
  <2>1. /\ pc' = [pc EXCEPT ![g] = "reading"]
        /\ applied' = [applied EXCEPT ![g] = {}]
        /\ file' = [file EXCEPT ![g] = 1]
        /\ line' = [line EXCEPT ![g] = 1]
        /\ settled' = [settled EXCEPT ![g] = opened]
        /\ UNCHANGED <<schema, recorded, opened>>
    BY <1>1 DEF Start, Goto
  <2>2. /\ pc'[g] = "reading" /\ applied'[g] = {} /\ file'[g] = 1 /\ line'[g] = 1
        /\ settled'[g] = opened
    BY <2>1 DEF TypeOK
  <2>3. /\ \A f \in DOMAIN Files : ~(f < 1)
        /\ \A k \in DOMAIN Files[1] : ~(k < 1)
    BY MigrationsAssumption
  <2>4. Behind(g)'
    BY <2>2, <2>3 DEF Behind
  <2>5. Settled(g)'
    BY <2>1, <2>2 DEF Settled, Running
  <2>6. Alone(g)
    BY <2>1 DEF TypeOK, Alone
  <2> QED
    BY <2>1, <2>4, <2>5, <2>6, ProgressAlone
<1>2. ASSUME NEW g \in Gateways, Read(g) PROVE Progress'
  <2>1. /\ pc[g] = "reading"
        /\ pc' = [pc EXCEPT ![g] = "applying"]
        /\ applied' = [applied EXCEPT ![g] = recorded]
        /\ UNCHANGED <<schema, recorded, file, line, opened, settled>>
    BY <1>2 DEF Read, At, Goto
  <2>2. pc'[g] = "applying" /\ applied'[g] = recorded
    BY <2>1 DEF TypeOK
  <2>3. Behind(g)'
    BY <2>1, <2>2 DEF Progress, Behind, Underway, Running
  <2>4. Settled(g)'
    BY <2>1, <2>2 DEF Progress, Settled, Running
  <2>5. Alone(g)
    BY <2>1 DEF TypeOK, Alone
  <2> QED
    BY <2>1, <2>3, <2>4, <2>5, ProgressAlone
<1>3. ASSUME NEW g \in Gateways, ReadPart(g) PROVE Progress'
  <2>1. PICK part \in SUBSET recorded : applied' = [applied EXCEPT ![g] = part]
    BY <1>3 DEF ReadPart
  <2>2. /\ pc[g] = "reading"
        /\ pc' = [pc EXCEPT ![g] = "applying"]
        /\ settled' = [settled EXCEPT ![g] = FALSE]
        /\ UNCHANGED <<schema, recorded, file, line, opened>>
    BY <1>3 DEF ReadPart, At, Goto, SqlError
  <2>3. pc'[g] = "applying" /\ applied'[g] \subseteq recorded /\ ~settled'[g]
    BY <2>1, <2>2 DEF TypeOK
  <2>4. Behind(g)'
    BY <2>2, <2>3 DEF Progress, Behind, Underway, Running
  <2>5. Settled(g)'
    BY <2>3 DEF Settled
  <2>6. Alone(g)
    BY <2>1, <2>2 DEF TypeOK, Alone
  <2> QED
    BY <2>2, <2>4, <2>5, <2>6, ProgressAlone
<1>4. ASSUME NEW g \in Gateways, ReadFails(g) PROVE Progress'
  <2>1. /\ pc' = [pc EXCEPT ![g] = "refused"]
        /\ settled' = [settled EXCEPT ![g] = FALSE]
        /\ UNCHANGED <<schema, recorded, applied, file, line, opened>>
    BY <1>4 DEF ReadFails, Goto, SqlError
  <2>2. pc'[g] = "refused" /\ ~settled'[g]
    BY <2>1 DEF TypeOK
  <2>3. Behind(g)' /\ Settled(g)'
    BY <2>1, <2>2 DEF Progress, Behind, Settled, Underway, Running
  <2>4. Alone(g)
    BY <2>1 DEF TypeOK, Alone
  <2> QED
    BY <2>1, <2>3, <2>4, ProgressAlone
<1>5. ASSUME NEW g \in Gateways, Skip(g) PROVE Progress'
  <2>1. /\ Running(g) /\ file[g] \in applied[g] /\ MoveOn(g)
        /\ UNCHANGED <<schema, recorded, applied, settled>>
    BY <1>5 DEF Skip, At, Running
  <2>2. file[g] \in recorded
    BY <2>1 DEF Progress, Behind
  <2>3. recorded' = recorded \cup {file[g]} /\ Effects(file[g]) \subseteq schema
    BY <2>1, <2>2 DEF Progress, RecordedIsThere
  <2>4. settled[g] => applied[g] = DOMAIN Files
    BY <2>1 DEF Progress, Settled
  <2> QED
    BY <2>1, <2>3, <2>4, ProgressMoveOn
<1>6. ASSUME NEW g \in Gateways, Execute(g) PROVE Progress'
  <2>1. /\ pc[g] = "applying" /\ file[g] \notin applied[g]
        /\ schema' = schema \cup {Statement(g)}
        /\ UNCHANGED <<recorded, applied, file, opened, settled>>
    BY <1>6 DEF Execute, At
  <2>2. file[g] \in DOMAIN Files /\ line[g] \in DOMAIN Files[file[g]]
    BY <2>1 DEF TypeOK
  <2>3. ~settled[g]
    BY <2>1, <2>2 DEF Progress, Settled, Running
  <2>4. \A k \in DOMAIN Files[file[g]] : k <= line[g] => Files[file[g]][k] \in schema'
    <3>1. \A k \in DOMAIN Files[file[g]] : k < line[g] => Files[file[g]][k] \in schema
      BY <2>1 DEF Progress, Behind
    <3>2. Files[file[g]][line[g]] \in schema'
      BY <2>1 DEF Statement
    <3>3. \A k \in DOMAIN Files[file[g]] : k <= line[g] => k < line[g] \/ k = line[g]
      BY <2>2, MigrationsAssumption
    <3> QED
      BY <2>1, <3>1, <3>2, <3>3
  <2>5. RecordedIsThere' /\ (opened' => recorded' = DOMAIN Files)
    BY <2>1 DEF Progress, RecordedIsThere
  <2>6. CASE line[g] = Len(Files[file[g]])
    <3>1. pc' = [pc EXCEPT ![g] = "recording"] /\ line' = line
      BY <1>6, <2>6 DEF Execute, Goto
    <3>2. pc'[g] = "recording"
      BY <3>1 DEF TypeOK
    <3>3. Effects(file[g]) \subseteq schema'
      BY <2>2, <2>4, <2>6, MigrationsAssumption DEF Effects
    <3>4. Effects(file'[g]) \subseteq schema'
      BY <2>1, <3>3
    <3>5. Behind(g)'
      BY <2>1, <3>2, <3>4 DEF Progress, Behind, Underway, Running
    <3>6. Settled(g)' /\ Alone(g)
      BY <2>1, <2>3, <3>1 DEF Settled, Alone
    <3>7. \A h \in Gateways \ {g} : Behind(h)' /\ Settled(h)'
      BY <2>1, <3>6, OthersAsBefore DEF TypeOK
    <3> QED
      BY <2>5, <3>5, <3>6, <3>7 DEF Progress
  <2>7. CASE line[g] # Len(Files[file[g]])
    <3>1. line' = [line EXCEPT ![g] = line[g] + 1] /\ pc' = pc
      BY <1>6, <2>7 DEF Execute
    <3>2. line'[g] = line[g] + 1
      BY <3>1 DEF TypeOK
    <3>3. \A k \in DOMAIN Files[file[g]] : k < line[g] + 1 => k <= line[g]
      BY <2>2, MigrationsAssumption
    <3>4. \A k \in DOMAIN Files[file'[g]] : k < line'[g] => Files[file'[g]][k] \in schema'
      BY <2>1, <2>4, <3>2, <3>3
    <3>5. Behind(g)'
      BY <2>1, <3>1, <3>4 DEF Progress, Behind, Underway, Running
    <3>6. Settled(g)' /\ Alone(g)
      BY <2>1, <2>3, <3>1 DEF Settled, Alone, TypeOK
    <3>7. \A h \in Gateways \ {g} : Behind(h)' /\ Settled(h)'
      BY <2>1, <3>6, OthersAsBefore DEF TypeOK
    <3> QED
      BY <2>5, <3>5, <3>6, <3>7 DEF Progress
  <2> QED
    BY <2>6, <2>7
<1>7. ASSUME NEW g \in Gateways, ExecuteFails(g) PROVE Progress'
  <2>1. /\ pc[g] = "applying" /\ file[g] \notin applied[g]
        /\ pc' = [pc EXCEPT ![g] = "refused"]
        /\ settled' = [settled EXCEPT ![g] = FALSE] \/ settled' = settled
        /\ UNCHANGED <<schema, recorded, applied, file, line, opened>>
    BY <1>7 DEF ExecuteFails, At, Goto, SqlError
  <2>2. ~settled[g]
    BY <2>1 DEF Progress, Settled, Running, TypeOK
  <2>3. pc'[g] = "refused" /\ ~settled'[g]
    BY <2>1, <2>2 DEF TypeOK
  <2>4. Behind(g)' /\ Settled(g)'
    BY <2>1, <2>3 DEF Progress, Behind, Settled, Underway, Running
  <2>5. Alone(g)
    BY <2>1 DEF TypeOK, Alone
  <2> QED
    BY <2>1, <2>4, <2>5, ProgressAlone
<1>8. ASSUME NEW g \in Gateways, Record(g) PROVE Progress'
  <2>1. /\ pc[g] = "recording" /\ Running(g) /\ MoveOn(g)
        /\ recorded' = recorded \cup {file[g]}
        /\ UNCHANGED <<schema, applied, settled>>
    BY <1>8 DEF Record, At, Running
  <2>2. Effects(file[g]) \subseteq schema
    BY <2>1 DEF Progress, Behind
  <2>3. settled[g] => applied[g] = DOMAIN Files
    BY <2>1 DEF Progress, Settled
  <2> QED
    BY <2>1, <2>2, <2>3, ProgressMoveOn
<1>9. ASSUME NEW g \in Gateways, RecordFails(g) PROVE Progress'
  <2>1. /\ pc[g] = "recording"
        /\ pc' = [pc EXCEPT ![g] = "refused"]
        /\ settled' = [settled EXCEPT ![g] = FALSE] \/ settled' = settled
        /\ UNCHANGED <<schema, recorded, applied, file, line, opened>>
    BY <1>9 DEF RecordFails, At, Goto, SqlError
  <2>2. ~settled[g]
    <3>1. file[g] \in DOMAIN Files /\ file[g] \notin applied[g]
      BY <2>1 DEF Progress, Behind, TypeOK
    <3> QED
      BY <2>1, <3>1 DEF Progress, Settled, Running
  <2>3. pc'[g] = "refused" /\ ~settled'[g]
    BY <2>1, <2>2 DEF TypeOK
  <2>4. Behind(g)' /\ Settled(g)'
    BY <2>1, <2>3 DEF Progress, Behind, Settled, Underway, Running
  <2>5. Alone(g)
    BY <2>1 DEF TypeOK, Alone
  <2> QED
    BY <2>1, <2>4, <2>5, ProgressAlone
<1>10. ASSUME NEW g \in Gateways, Stop(g) PROVE Progress'
  <2>1. /\ pc' = [pc EXCEPT ![g] = "down"]
        /\ UNCHANGED <<schema, recorded, applied, file, line, opened, settled>>
    BY <1>10 DEF Stop, Goto
  <2>2. pc'[g] = "down"
    BY <2>1 DEF TypeOK
  <2>3. Behind(g)' /\ Settled(g)'
    BY <2>1, <2>2 DEF Progress, Behind, Settled, Underway, Running
  <2>4. Alone(g)
    BY <2>1 DEF TypeOK, Alone
  <2> QED
    BY <2>1, <2>3, <2>4, ProgressAlone
<1>11. CASE UNCHANGED vars
  BY <1>11 DEF vars, Progress, RecordedIsThere, Behind, Settled, Underway, Running, Effects
<1> QED
  BY <1>1, <1>2, <1>3, <1>4, <1>5, <1>6, <1>7, <1>8, <1>9, <1>10, <1>11 DEF Next, Open

LEMMA Progresses == Spec => [](TypeOK /\ Progress)
<1>1. Init => Progress
  BY DEF Init, Progress, RecordedIsThere, Behind, Settled, Underway, Running
<1>2. (TypeOK /\ Progress) /\ [Next]_vars => (TypeOK /\ Progress)'
  BY TypeStep, ProgressStep
<1> QED
  BY <1>1, <1>2, Typing, PTL DEF Spec

\* However often gateways stop half way through a file, and however many are at
\* it at once: what is recorded as applied is in the database.
THEOREM RecordsHold == Spec => []RecordedIsThere
<1>1. Progress => RecordedIsThere
  BY DEF Progress
<1> QED
  BY <1>1, Progresses, PTL

LEMMA CompleteWhenOpen == ASSUME TypeOK, Progress PROVE OpenIsComplete
<1> SUFFICES ASSUME NEW g \in Gateways, pc[g] = "open"
             PROVE  schema = Statements
  BY DEF OpenIsComplete
<1>1. recorded = DOMAIN Files
  BY DEF Progress, Behind
<1>2. \A f \in DOMAIN Files : {Files[f][k] : k \in DOMAIN Files[f]} \subseteq schema
  BY <1>1 DEF Progress, RecordedIsThere, Effects
<1>3. Statements \subseteq schema
  BY <1>2 DEF Statements
<1> QED
  BY <1>3 DEF TypeOK

\* A gateway that has the database open has every statement of every file in it.
THEOREM OpenComplete == Spec => []OpenIsComplete
<1> QED
  BY CompleteWhenOpen, Progresses, PTL

\* Once a gateway has had the database open, no gateway that starts from then on
\* is refused by what another has left behind.
THEOREM Reopening == Spec => []ReopeningWorks
<1>1. Progress => ReopeningWorks
  BY DEF Progress, Settled, ReopeningWorks
<1> QED
  BY <1>1, Progresses, PTL
==============================================================================
