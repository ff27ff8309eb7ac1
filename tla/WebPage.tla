-------------------------------- MODULE WebPage --------------------------------
(***************************************************************************)
(* The page of the gateway (web/app.js): what one browser tab knows, while *)
(* the calls it has made are on their way.  JavaScript runs one callback   *)
(* at a time; everything interleaves at the awaits.                        *)
(*                                                                         *)
(* A call of the user is a chat (one answer or a stream) or a change of    *)
(* the documents.  When it ends, the page loads the table it has changed:  *)
(* the request log after a chat, the list of documents after an upload or  *)
(* a deletion.  A table is modelled by the calls whose effect is in it; a  *)
(* load brings so many of its rows and no more, the newest.                *)
(* A call that is refused for want of a token, and made again with the one *)
(* the user gives, has only taken longer: the first had no effect.         *)
(***************************************************************************)
EXTENDS Naturals, Sequences, FiniteSets, SequencesExt

CONSTANTS
    MaxCalls,     \* bound: calls of the user
    MaxActs,      \* bound: what the user does, Refresh and Clear included
    LogLimit,     \* the rows of the log that the page asks for (20)
    DocumentLimit,\* the documents that the gateway lists (100)
    Shared        \* the tables to which others than this page add rows

Calls  == 1..MaxCalls
Chats  == {"json", "stream"}
Edits  == {"upload", "delete"}
Tables == {"log", "documents"}

ASSUME PageAssumption == /\ MaxCalls \in Nat /\ MaxActs \in Nat
                         /\ LogLimit \in Nat \ {0} /\ DocumentLimit \in Nat \ {0}
                         /\ Shared \subseteq Tables

VARIABLES
    stage,       \* the first loads, one after the other, and what came of them
    kind,        \* kind[i]: of call i, "none" before it is made
    gateway,     \* gateway[i]: "idle", "working"; "answered", a stream that has
                 \*     ended and whose row is not written; "done", with its effect
                 \*     in a table, or "void", without one
    reply,       \* reply[i]: "none", "ok" or "error"
    heard,       \* heard[i]: "none", or how call i ended for the page: "ok",
                 \*     "error", or "cut" by the network
    after,       \* after[i]: the calls that had been answered when call i was made
                 \*     (history)
    messages,    \* the conversation that is sent with every chat
    onScreen,    \* the chats on the screen
    content,     \* content[i]: what stands there as the answer to chat i: "empty",
                 \*     "partial", "ok", or that it came to an "error" or was "cut"
    sendOff,     \* Send is disabled
    overlapped,  \* since the conversation began, a chat was sent, or Clear pressed,
                 \*     before the last had been answered (history)
    uploading,   \* the call whose upload keeps Upload disabled, 0 if none
    loads,       \* loads[t]: the loads of table t on their way, in the order begun
    shown,       \* shown[t]: the calls whose effect is in the table shown
    alone,       \* alone[t]: the load of t that ended last went well, and no other
                 \*     was on its way at the same time (history)
    acts         \* what the user has done

calls  == <<kind, gateway, reply, heard, after>>
chat   == <<messages, onScreen, content, sendOff, overlapped>>
tables == <<uploading, loads, shown, alone>>
vars   == <<stage, calls, chat, tables, acts>>

Init == /\ stage     = "providers"
        /\ kind      = [i \in Calls |-> "none"]
        /\ gateway   = [i \in Calls |-> "idle"]
        /\ reply     = [i \in Calls |-> "none"]
        /\ heard     = [i \in Calls |-> "none"]
        /\ after     = [i \in Calls |-> {}]
        /\ messages  = <<>>
        /\ onScreen  = {}
        /\ content   = [i \in Calls |-> "empty"]
        /\ sendOff   = FALSE
        /\ overlapped = FALSE
        /\ uploading = 0
        /\ loads     = [t \in Tables |-> <<>>]
        /\ shown     = [t \in Tables |-> {}]
        /\ alone     = [t \in Tables |-> FALSE]
        /\ acts      = 0

Table(k) == IF k \in Chats THEN "log" ELSE "documents"

Effects(t) == {i \in Calls : gateway[i] = "done" /\ Table(kind[i]) = t}

\* Those of them that are rows, or were.
Placed(t) == {i \in Effects(t) : kind[i] # "delete"}

Limit(t) == IF t = "log" THEN LogLimit ELSE DocumentLimit
-----------------------------------------------------------------------------
\* DOMContentLoaded: four loads, each awaited; the buttons work after the last.
AfterStage == [providers |-> "documents", documents |-> "log", log |-> "cost", cost |-> "ready"]

Loaded == /\ stage \in DOMAIN AfterStage
          /\ stage' = AfterStage[stage]
          /\ UNCHANGED <<calls, chat, tables, acts>>

\* One throws, for the network or for a body that is not as expected: the rest
\* is not done, and no button ever works.
LoadThrows == /\ stage \in DOMAIN AfterStage
              /\ stage' = "dead"
              /\ UNCHANGED <<calls, chat, tables, acts>>
-----------------------------------------------------------------------------
Act == stage = "ready" /\ acts < MaxActs /\ acts' = acts + 1

Message(role, i) == [role |-> role, call |-> i]

\* The next call of the user.
Make(i, k) == /\ Act
              /\ kind[i] = "none" /\ \A j \in 1..(i - 1) : kind[j] # "none"
              /\ kind'    = [kind EXCEPT ![i] = k]
              /\ gateway' = [gateway EXCEPT ![i] = "working"]
              /\ after'   = [after EXCEPT ![i] = {j \in Calls : heard[j] \in {"ok", "error"}}]
              /\ UNCHANGED <<stage, reply, heard>>

\* A chat has been sent and has not ended.
UnderWay == \E i \in Calls : kind[i] \in Chats /\ heard[i] = "none"

\* Send or Enter.  A disabled Send does not stop Enter.
sendMessage(i) == /\ \E k \in Chats : Make(i, k)
                  /\ messages' = Append(messages, Message("user", i))
                  /\ onScreen' = onScreen \cup {i}
                  /\ sendOff'  = TRUE
                  /\ overlapped' = (overlapped \/ UnderWay)
                  /\ UNCHANGED <<content, tables>>

uploadDocument(i) == /\ uploading = 0
                     /\ Make(i, "upload")
                     /\ uploading' = i
                     /\ UNCHANGED <<chat, loads, shown, alone>>

\* Mutation: the row is taken off the page before the gateway has answered.
DeletesAtOnce(i) == /\ Make(i, "delete")
                    /\ shown' = [shown EXCEPT !["documents"] = @ \cup {i}]
                    /\ UNCHANGED <<chat, uploading, loads, alone>>

deleteDocument(i) == Make(i, "delete") /\ UNCHANGED <<chat, tables>>

\* Mutation: the conversation is kept.
ClearScreen == /\ Act
               /\ onScreen' = {}
               /\ overlapped' = UnderWay
               /\ UNCHANGED <<stage, calls, messages, content, sendOff, tables>>

\* Clear begins another conversation; what is on its way is not stopped.
Clear == /\ Act
         /\ messages' = <<>>
         /\ onScreen' = {}
         /\ overlapped' = UnderWay
         /\ UNCHANGED <<stage, calls, content, sendOff, tables>>
-----------------------------------------------------------------------------
\* The gateway.  The row of a chat is written when its handler returns: before
\* the end of an answer that is not streamed, but after the end of a stream.
Answers(i, r, g) == /\ reply'   = [reply EXCEPT ![i] = r]
                    /\ gateway' = [gateway EXCEPT ![i] = g]
                    /\ UNCHANGED <<stage, kind, heard, after, chat, tables, acts>>

\* Mutation: no answer waits for its row.
AnswersFirst(i) ==
    /\ gateway[i] = "working"
    /\ IF kind[i] \in Chats THEN Answers(i, "ok", "answered") ELSE Answers(i, "ok", "done")

\* A stream of which something has arrived cannot be answered with an error any
\* more: one that breaks off then says so in its text, and ends.  An upload that is
\* refused may have left a document behind; a document that is to be deleted may
\* have gone before.
GatewayAnswers(i) ==
    /\ gateway[i] = "working"
    /\ \/ kind[i] = "stream" /\ Answers(i, "ok", "answered")
       \/ /\ kind[i] = "stream" /\ content[i] = "empty"
          /\ \E g \in {"done", "void"} : Answers(i, "error", g)
       \/ kind[i] \in {"json", "delete"} /\ \E r \in {"ok", "error"}, g \in {"done", "void"} :
              Answers(i, r, g)
       \/ kind[i] = "upload" /\ Answers(i, "ok", "done")
       \/ kind[i] = "upload" /\ \E g \in {"done", "void"} : Answers(i, "error", g)

WritesRow(i) == /\ gateway[i] = "answered"
                /\ \E g \in {"done", "void"} : gateway' = [gateway EXCEPT ![i] = g]
                /\ UNCHANGED <<stage, kind, reply, heard, after, chat, tables, acts>>
-----------------------------------------------------------------------------
\* Loads of a table: begun, answered, shown.
Load(alone_, i) == [state |-> "waiting", seen |-> {}, single |-> alone_, for |-> i]

Begin(t, i) ==
    loads' = [loads EXCEPT ![t] =
                 Append([n \in DOMAIN @ |-> [@[n] EXCEPT !.single = FALSE]],
                        Load(@ = <<>>, i))]

\* How call i ends for the page.
Outcome(i) == heard' = [heard EXCEPT ![i] = IF reply[i] = "none" THEN "cut" ELSE reply[i]]

\* The network may cut a call off before its answer is there.
Ends(i) == /\ kind[i] # "none" /\ heard[i] = "none"
           /\ Outcome(i) \/ heard' = [heard EXCEPT ![i] = "cut"]
           /\ UNCHANGED <<stage, kind, gateway, reply, after, acts>>

\* onDelta: a part of a stream is shown as it arrives.
Delta(i) == /\ kind[i] = "stream" /\ heard[i] = "none" /\ reply[i] # "error"
            /\ content[i] = "empty"
            /\ content' = [content EXCEPT ![i] = "partial"]
            /\ UNCHANGED <<stage, calls, messages, onScreen, sendOff, overlapped, tables, acts>>

\* Mutation: Send is enabled by an answer only.
EnabledByAnswer(i) == /\ kind[i] \in Chats
                      /\ Ends(i)
                      /\ content'  = [content EXCEPT ![i] = heard'[i]]
                      /\ messages' = IF heard'[i] = "ok"
                                     THEN Append(messages, Message("assistant", i)) ELSE messages
                      /\ sendOff'  = (sendOff /\ heard'[i] # "ok")
                      /\ Begin("log", i)
                      /\ UNCHANGED <<onScreen, overlapped, uploading, shown, alone>>

\* The answer, or what went wrong, stands where the chat stood on the screen, in
\* place of a part of it; only an answer becomes part of the conversation,
\* whichever that is by now.
Answered(i) == /\ kind[i] \in Chats
               /\ Ends(i)
               /\ content'  = [content EXCEPT ![i] = heard'[i]]
               /\ messages' = IF heard'[i] = "ok"
                              THEN Append(messages, Message("assistant", i)) ELSE messages
               /\ sendOff'  = FALSE
               /\ Begin("log", i)
               /\ UNCHANGED <<onScreen, overlapped, uploading, shown, alone>>

\* Mutation: Upload is enabled by an upload that went well, only.
StaysDisabled(i) == /\ kind[i] \in Edits
                    /\ Ends(i)
                    /\ IF heard'[i] = "ok"
                       THEN Begin("documents", i)
                       ELSE UNCHANGED loads
                    /\ UNCHANGED <<chat, uploading, shown, alone>>

\* The list is loaded again only if the change went well.
Edited(i) == /\ kind[i] \in Edits
             /\ Ends(i)
             /\ IF heard'[i] = "ok"
                THEN Begin("documents", i) /\ UNCHANGED uploading
                ELSE /\ uploading' = IF uploading = i THEN 0 ELSE uploading
                     /\ UNCHANGED loads
             /\ UNCHANGED <<chat, shown, alone>>

\* The button Refresh
Refresh == /\ Act
           /\ Begin("log", 0)
           /\ UNCHANGED <<stage, calls, chat, uploading, shown, alone>>

\* What a load of t may bring: all that was deleted is gone; of the rows, the newest
\* by the time their requests began, which one that was made after another had been
\* answered is (the rest of the order is open); as many as were asked for, of which
\* others' rows may be any number.  A row that was deleted again takes no place.
Listed(t) ==
    {S \in SUBSET Effects(t) :
        LET kept    == S \cap Placed(t)
            deleted == Effects(t) \ Placed(t)
        IN  /\ deleted \subseteq S
            /\ \A r \in Placed(t) \ S : after[r] \cap kept = {}
            /\ Cardinality(kept) <= Limit(t) + Cardinality(deleted)
            /\ \/ t \in Shared
               \/ Cardinality(kept) >= Limit(t) \/ kept = Placed(t)}

\* The gateway, or the network, answers a load.
LoadAnswered(t, n) ==
    /\ loads[t][n].state = "waiting"
    /\ UNCHANGED <<stage, calls, chat, uploading, shown, alone, acts>>
    /\ \/ loads' = [loads EXCEPT ![t][n].state = "failed"]
       \/ \E S \in Listed(t) :
              loads' = [loads EXCEPT ![t][n].state = "ok", ![t][n].seen = S]

\* The page shows it.  One that failed leaves the table as it was, or empty.
Show(t, n) ==
    LET load == loads[t][n] IN
    /\ load.state # "waiting"
    /\ IF load.state = "ok"
       THEN shown' = [shown EXCEPT ![t] = load.seen]
       ELSE \E s \in {shown[t], {}} : shown' = [shown EXCEPT ![t] = s]
    /\ alone' = [alone EXCEPT ![t] = load.single /\ load.state = "ok"]
    /\ loads' = [loads EXCEPT ![t] = RemoveAt(@, n)]
    /\ uploading' = IF load.for = uploading THEN 0 ELSE uploading
    /\ UNCHANGED <<stage, calls, chat, acts>>

Arrives == \E t \in Tables : \E n \in DOMAIN loads[t] : LoadAnswered(t, n) \/ Show(t, n)

User(i) == sendMessage(i) \/ uploadDocument(i) \/ deleteDocument(i)

Progress(i) == GatewayAnswers(i) \/ WritesRow(i) \/ Delta(i) \/ Answered(i) \/ Edited(i)

Next == \/ Loaded \/ LoadThrows \/ Clear \/ Refresh \/ Arrives
        \/ \E i \in Calls : User(i) \/ Progress(i)

Spec == Init /\ [][Next]_vars

\* Every call ends, if only by a timeout of the gateway or the browser, and what
\* has arrived is handled.  The user need not do anything.
FairSpec == /\ Spec
            /\ WF_vars(Loaded \/ LoadThrows) /\ WF_vars(Arrives)
            /\ \A i \in Calls : WF_vars(Progress(i))
-----------------------------------------------------------------------------
TypeOK ==
    /\ stage \in DOMAIN AfterStage \cup {"ready", "dead"}
    /\ kind \in [Calls -> Chats \cup Edits \cup {"none"}]
    /\ gateway \in [Calls -> {"idle", "working", "answered", "done", "void"}]
    /\ reply \in [Calls -> {"none", "ok", "error"}]
    /\ heard \in [Calls -> {"none", "ok", "error", "cut"}]
    /\ after \in [Calls -> SUBSET Calls]
    /\ \A m \in Range(messages) : m.role \in {"user", "assistant"} /\ kind[m.call] \in Chats
    /\ \A i \in onScreen : kind[i] \in Chats
    /\ content \in [Calls -> {"empty", "partial", "ok", "error", "cut"}]
    /\ sendOff \in BOOLEAN /\ overlapped \in BOOLEAN
    /\ uploading = 0 \/ kind[uploading] = "upload"
    /\ \A t \in Tables : \A n \in DOMAIN loads[t] :
           /\ loads[t][n].state \in {"waiting", "ok", "failed"}
           /\ loads[t][n].seen \subseteq Effects(t)
           /\ loads[t][n].single => Len(loads[t]) = 1
    /\ \A t \in Tables : shown[t] \subseteq Effects(t)
    /\ alone \in [Tables -> BOOLEAN]
    /\ acts \in 0..MaxActs

\* That turn a stands above turn b on the screen, where the chats stand in the
\* order they were sent.
Above(a, b) == \/ a.call < b.call
               \/ a.call = b.call /\ a.role = "user" /\ b.role = "assistant"

\* However sends, parts of answers, answers and Clear interleave: a chat on the
\* screen is in the conversation that is sent, with its answer exactly if it stands
\* there in full; what of an older conversation slips into this one is an answer
\* that was on its way, never a question; nothing is in it twice.  And as long as
\* the user has let every chat end before the next, the model is told what stands
\* on the screen in the order it stands there.
HistoryIsShown ==
    /\ \A i \in onScreen :
           /\ Message("user", i) \in Range(messages)
           /\ content[i] = "ok" <=> Message("assistant", i) \in Range(messages)
    /\ \A m \in Range(messages) : m.call \notin onScreen => m.role = "assistant"
    /\ IsInjective(messages)
    /\ ~overlapped =>
           /\ \A m \in Range(messages) : m.call \in onScreen
           /\ \A j, k \in DOMAIN messages : j < k => Above(messages[j], messages[k])

\* What the page has been told is done, and will be in the table it shows.  Of a
\* stream it is told before the row is there.
Told(t) == {i \in Effects(t) :
               \/ heard[i] = "ok" /\ kind[i] # "stream"
               \/ heard[i] = "error" /\ kind[i] \in Chats}

\* A page that waits for nothing shows every change it has been told of, if the
\* load that ended last went well and did not overlap with another: a deletion in
\* any case; a row unless there are more than are listed, and then no older one in
\* its place.  (Of two loads that overlap, the older may be shown last; a streamed
\* chat may be missing.)
QuietPageIsCurrent ==
    \A t \in Tables : loads[t] = <<>> /\ alone[t] =>
        \A i \in Told(t) \ shown[t] :
            /\ kind[i] # "delete"
            /\ t \in Shared \/ Cardinality(Placed(t)) > Limit(t)
            /\ after[i] \cap shown[t] \cap Placed(t) = {}

\* A button that is disabled waits for something that will enable it: Send for a
\* chat that has not ended, Upload for its upload, or for the load of the list
\* that follows it, whatever else was sent, cleared or loaded meanwhile.
DisabledWaits ==
    /\ sendOff => \E i \in Calls : kind[i] \in Chats /\ heard[i] = "none"
    /\ uploading # 0 => \/ heard[uploading] = "none"
                        \/ \E n \in DOMAIN loads["documents"] :
                               loads["documents"][n].for = uploading

\* Whatever fails: the page comes to have its buttons, unless one of its first
\* loads threw, and in the end Send and Upload can be pressed again.
Settles == <>[](stage = "dead" \/ (stage = "ready" /\ ~sendOff /\ uploading = 0))
==============================================================================
