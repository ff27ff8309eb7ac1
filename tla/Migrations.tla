------------------------------ MODULE Migrations ------------------------------
(***************************************************************************)
(* OpenSQLite and the migrations it applies (internal/store/sqlite.go), by *)
(* gateway processes that may stop at any point and be started again, and  *)
(* of which two may be on the same file for a while, as when one is being  *)
(* replaced.                                                               *)
(*                                                                         *)
(* A migration is a file of statements.  Each takes effect by itself:      *)
(* there is no transaction around a file, nor around a file and the record *)
(* that it was applied.  The first two files say IF NOT EXISTS; the third  *)
(* adds a column, which fails if the column is there.                      *)
(***************************************************************************)
EXTENDS Naturals, Sequences

CONSTANTS
    Gateways,      \* the processes
    Files,         \* the sequence of migrations, each a sequence of statements
    OnlyOnce,      \* the statements that fail if their effect is there
    Faults         \* what may go wrong: "crash", "sql"

Statements == UNION {{Files[f][k] : k \in DOMAIN Files[f]} : f \in DOMAIN Files}

ASSUME MigrationsAssumption ==
    /\ Len(Files) \in Nat \ {0} /\ DOMAIN Files = 1..Len(Files)
    /\ \A f \in DOMAIN Files :
           Len(Files[f]) \in Nat \ {0} /\ DOMAIN Files[f] = 1..Len(Files[f])
    /\ OnlyOnce \subseteq Statements
    /\ Faults \subseteq {"crash", "sql"}

VARIABLES
    schema,     \* the statements whose effect is in the database
    recorded,   \* the files named in schema_migrations
    pc,         \* pc[g]: where gateway g stands
    applied,    \* applied[g]: the files g read as recorded
    file,       \* file[g]: the file g is at
    line,       \* line[g]: its statement g is at
    opened,     \* some gateway has had the database open
    settled     \* settled[g]: that was so when g last started, and no SQL
                \*             statement of g has failed by itself since
                \*             (opened and settled are history: no guard reads them)

vars == <<schema, recorded, pc, applied, file, line, opened, settled>>

Init == /\ schema   = {}
        /\ recorded = {}
        /\ pc       = [g \in Gateways |-> "down"]
        /\ applied  = [g \in Gateways |-> {}]
        /\ file     = [g \in Gateways |-> 1]
        /\ line     = [g \in Gateways |-> 1]
        /\ opened   = FALSE
        /\ settled  = [g \in Gateways |-> FALSE]

At(g, label)   == pc[g] = label
Goto(g, label) == pc' = [pc EXCEPT ![g] = label]

\* A fresh process; schema_migrations is made if it is missing.
Start(g) == /\ pc[g] \in {"down", "refused"}
            /\ Goto(g, "reading")
            /\ applied' = [applied EXCEPT ![g] = {}]
            /\ file'    = [file EXCEPT ![g] = 1]
            /\ line'    = [line EXCEPT ![g] = 1]
            /\ settled' = [settled EXCEPT ![g] = opened]
            /\ UNCHANGED <<schema, recorded, opened>>

\* A statement fails by itself.
SqlError(g) == /\ "sql" \in Faults
               /\ settled' = [settled EXCEPT ![g] = FALSE]

\* Read once, before the first file, and not again.
Read(g) == /\ At(g, "reading")
           /\ applied' = [applied EXCEPT ![g] = recorded]
           /\ Goto(g, "applying")
           /\ UNCHANGED <<schema, recorded, file, line, opened, settled>>

\* The rows break off: rows.Next is FALSE then, too, and rows.Err is not asked.
ReadPart(g) == /\ At(g, "reading")
               /\ SqlError(g)
               /\ \E part \in SUBSET recorded : applied' = [applied EXCEPT ![g] = part]
               /\ Goto(g, "applying")
               /\ UNCHANGED <<schema, recorded, file, line, opened>>

\* schema_migrations can be neither made nor read.
ReadFails(g) == /\ At(g, "reading")
                /\ SqlError(g)
                /\ Goto(g, "refused")
                /\ UNCHANGED <<schema, recorded, applied, file, line, opened>>

NextFile(g) == /\ file' = [file EXCEPT ![g] = @ + 1]
               /\ line' = [line EXCEPT ![g] = 1]

\* Mutation: the last file is forgotten.
OpensEarly(g) == /\ NextFile(g)
                 /\ Goto(g, IF file[g] + 1 = Len(Files) THEN "open" ELSE "applying")
                 /\ opened' = (opened \/ file[g] + 1 = Len(Files))

\* Mutation: the loop goes on behind the last file.
OpensLate(g) == /\ NextFile(g)
                /\ Goto(g, IF file[g] > Len(Files) THEN "open" ELSE "applying")
                /\ opened' = (opened \/ file[g] > Len(Files))

\* Behind the last file, the database is open.
MoveOn(g) == /\ NextFile(g)
             /\ Goto(g, IF file[g] = Len(Files) THEN "open" ELSE "applying")
             /\ opened' = (opened \/ file[g] = Len(Files))

Skip(g) == /\ At(g, "applying")
           /\ file[g] \in applied[g]
           /\ MoveOn(g)
           /\ UNCHANGED <<schema, recorded, applied, settled>>

Statement(g) == Files[file[g]][line[g]]
Clashes(g)   == Statement(g) \in OnlyOnce /\ Statement(g) \in schema

\* Mutation: the driver runs the first statement of a file and drops the rest.
ExecuteFirst(g) == /\ At(g, "applying")
                   /\ file[g] \notin applied[g]
                   /\ ~Clashes(g)
                   /\ schema' = schema \cup {Statement(g)}
                   /\ Goto(g, "recording")
                   /\ UNCHANGED <<recorded, applied, file, line, opened, settled>>

Execute(g) == /\ At(g, "applying")
              /\ file[g] \notin applied[g]
              /\ ~Clashes(g)
              /\ schema' = schema \cup {Statement(g)}
              /\ IF line[g] = Len(Files[file[g]])
                 THEN Goto(g, "recording") /\ UNCHANGED line
                 ELSE line' = [line EXCEPT ![g] = @ + 1] /\ UNCHANGED pc
              /\ UNCHANGED <<recorded, applied, file, opened, settled>>

\* An error of any kind: the database is closed again and main ends.
ExecuteFails(g) == /\ At(g, "applying")
                   /\ file[g] \notin applied[g]
                   /\ SqlError(g) \/ (Clashes(g) /\ UNCHANGED settled)
                   /\ Goto(g, "refused")
                   /\ UNCHANGED <<schema, recorded, applied, file, line, opened>>

\* Mutation: the record is not written.
Unrecorded(g) == /\ At(g, "recording")
                 /\ MoveOn(g)
                 /\ UNCHANGED <<schema, recorded, applied, settled>>

\* The name is the primary key, and may be there by now.
Record(g) == /\ At(g, "recording")
             /\ file[g] \notin recorded
             /\ recorded' = recorded \cup {file[g]}
             /\ MoveOn(g)
             /\ UNCHANGED <<schema, applied, settled>>

RecordFails(g) == /\ At(g, "recording")
                  /\ SqlError(g) \/ (file[g] \in recorded /\ UNCHANGED settled)
                  /\ Goto(g, "refused")
                  /\ UNCHANGED <<schema, recorded, applied, file, line, opened>>

\* The process ends, with the database open or on the way there.
Stop(g) == /\ pc[g] = "open" \/ ("crash" \in Faults /\ pc[g] \notin {"down", "refused"})
           /\ Goto(g, "down")
           /\ UNCHANGED <<schema, recorded, applied, file, line, opened, settled>>

Open(g) == \/ Start(g) \/ Read(g) \/ ReadPart(g) \/ ReadFails(g)
           \/ Skip(g) \/ Execute(g) \/ ExecuteFails(g) \/ Record(g) \/ RecordFails(g)

Next == \E g \in Gateways : Open(g) \/ Stop(g)

Spec == Init /\ [][Next]_vars
-----------------------------------------------------------------------------
TypeOK == /\ schema   \subseteq Statements
          /\ recorded \subseteq DOMAIN Files
          /\ pc       \in [Gateways -> {"down", "reading", "applying", "recording",
                                        "open", "refused"}]
          /\ applied  \in [Gateways -> SUBSET (DOMAIN Files)]
          /\ file     \in [Gateways -> 1..(Len(Files) + 1)]
          /\ line     \in [Gateways -> Nat \ {0}]
          /\ \A g \in Gateways : pc[g] \in {"reading", "applying", "recording"} =>
                 file[g] \in DOMAIN Files /\ line[g] \in DOMAIN Files[file[g]]
          /\ opened   \in BOOLEAN
          /\ settled  \in [Gateways -> BOOLEAN]

Effects(f) == {Files[f][k] : k \in DOMAIN Files[f]}

\* What is recorded is there: a gateway that skips a file on the strength of
\* its record misses nothing, even if the process that ran it stopped half way
\* or another one was at it at the same time.
RecordedIsThere == \A f \in recorded : Effects(f) \subseteq schema

\* A gateway that has the database open has the whole schema: no query of it
\* meets a missing table or column.
OpenIsComplete == \A g \in Gateways : pc[g] = "open" => schema = Statements

\* Once a gateway has had the database open, opening it works, for every gateway
\* that starts from then on: what stops one is an SQL error of the surroundings,
\* never what an earlier or a concurrent gateway left behind.
ReopeningWorks ==
    \A g \in Gateways : settled[g] => pc[g] # "refused"

\* internal/store/sqlite.go:43, the record is kept "so non-idempotent migrations
\* (e.g. ALTER TABLE) don't get re-run on subsequent opens".  A process that
\* stops between the statement and its record leaves them to be run again.
NeverRunTwice ==
    \A g \in Gateways : At(g, "applying") /\ file[g] \notin applied[g] => ~Clashes(g)
==============================================================================
