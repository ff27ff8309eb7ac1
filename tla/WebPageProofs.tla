----------------------------- MODULE WebPageProofs -----------------------------
(***************************************************************************)
(* The conversation and the tables on the page, for any number of calls:   *)
(* HistoryIsShown and, in the second part, QuietPageIsCurrent; in the      *)
(* third the types, and DisabledWaits.                                     *)
(*                                                                         *)
(* HistoryIsShown is not inductive: that a chat's answer is not in the     *)
(* conversation yet when it arrives follows from what the page has heard.  *)
(* Talk says that, for every chat, also for those no longer on the screen; *)
(* and that a chat on its way is the last turn, unless chats overlapped.   *)
(***************************************************************************)
EXTENDS WebPage, SequenceTheorems, FiniteSetTheorems, TLAPS

Turns == [role : {"user", "assistant"}, call : Calls]

\* What has been heard of call i, and stands on the page.
Answer(i) == /\ kind[i] = "none" => heard[i] = "none"
             /\ heard[i] = "none" => content[i] \in {"empty", "partial"}

\* The calls are made in their order.
Numbered == \A i, j \in Calls : i < j /\ kind[j] # "none" => kind[i] # "none"

\* While every chat has ended before the next was sent, the one on its way is the
\* last of the conversation.
Orderly == ~overlapped => \A i \in Calls : kind[i] \in Chats /\ heard[i] = "none" =>
               i \in onScreen /\ \A m \in Range(messages) : m.call <= i

Talk == /\ kind    \in [Calls -> Chats \cup Edits \cup {"none"}]
        /\ heard   \in [Calls -> {"none", "ok", "error", "cut"}]
        /\ reply   \in [Calls -> {"none", "ok", "error"}]
        /\ content \in [Calls -> {"empty", "partial", "ok", "error", "cut"}]
        /\ overlapped \in BOOLEAN
        /\ messages \in Seq(Turns)
        /\ onScreen \subseteq Calls
        /\ \A i \in Calls : Answer(i)
        /\ \A i \in onScreen : kind[i] # "none"
        /\ \A m \in Range(messages) : m.role = "assistant" => content[m.call] = "ok"
        /\ Numbered
        /\ Orderly
        /\ HistoryIsShown

-----------------------------------------------------------------------------
\* What Append does to the turns of a conversation.
LEMMA AppendTurn ==
  ASSUME NEW s \in Seq(Turns), NEW e \in Turns
  PROVE  /\ Append(s, e) \in Seq(Turns)
         /\ Range(Append(s, e)) = Range(s) \cup {e}
         /\ IsInjective(s) /\ e \notin Range(s) => IsInjective(Append(s, e))
         /\ (/\ \A j, k \in DOMAIN s : j < k => Above(s[j], s[k])
             /\ \A m \in Range(s) : Above(m, e)) =>
                \A j, k \in DOMAIN Append(s, e) : j < k => Above(Append(s, e)[j], Append(s, e)[k])
<1>1. /\ Append(s, e) \in Seq(Turns)
      /\ Len(s) \in Nat
      /\ DOMAIN s = 1..Len(s)
      /\ DOMAIN Append(s, e) = 1..(Len(s) + 1)
      /\ Append(s, e)[Len(s) + 1] = e
      /\ \A k \in 1..Len(s) : Append(s, e)[k] = s[k]
  OBVIOUS
<1>2. Range(Append(s, e)) = Range(s) \cup {e}
  <2>1. \A x \in Range(Append(s, e)) : x \in Range(s) \cup {e}
    BY <1>1 DEF Range
  <2>2. e \in Range(Append(s, e))
    BY <1>1 DEF Range
  <2>3. \A x \in Range(s) : x \in Range(Append(s, e))
    BY <1>1 DEF Range
  <2> QED
    BY <2>1, <2>2, <2>3
<1>3. ASSUME IsInjective(s), e \notin Range(s) PROVE IsInjective(Append(s, e))
  <2>1. \A k \in 1..Len(s) : s[k] # e
    BY <1>1, <1>3 DEF Range
  <2>2. \A j, k \in 1..Len(s) : s[j] = s[k] => j = k
    BY <1>1, <1>3 DEF IsInjective
  <2>3. ASSUME NEW j \in 1..(Len(s) + 1), NEW k \in 1..(Len(s) + 1),
               Append(s, e)[j] = Append(s, e)[k]
        PROVE  j = k
    <3>1. CASE j \in 1..Len(s) /\ k \in 1..Len(s)
      BY <1>1, <2>2, <2>3, <3>1
    <3>2. CASE j = Len(s) + 1 \/ k = Len(s) + 1
      BY <1>1, <2>1, <2>3, <3>2
    <3> QED
      BY <1>1, <3>1, <3>2
  <2> QED
    BY <1>1, <2>3 DEF IsInjective
<1>4. ASSUME \A j, k \in DOMAIN s : j < k => Above(s[j], s[k]),
             \A m \in Range(s) : Above(m, e),
             NEW j \in DOMAIN Append(s, e), NEW k \in DOMAIN Append(s, e), j < k
      PROVE  Above(Append(s, e)[j], Append(s, e)[k])
  <2>1. j \in 1..Len(s) /\ Append(s, e)[j] = s[j] /\ s[j] \in Range(s)
    BY <1>1, <1>4 DEF Range
  <2>2. CASE k \in 1..Len(s)
    <3>1. Append(s, e)[k] = s[k] /\ Above(s[j], s[k])
      BY <1>1, <1>4, <2>1, <2>2
    <3> QED
      BY <2>1, <3>1
  <2>3. CASE k = Len(s) + 1
    <3>1. Append(s, e)[k] = e /\ Above(s[j], e)
      BY <1>1, <1>4, <2>1, <2>3
    <3> QED
      BY <2>1, <3>1
  <2> QED
    BY <1>1, <2>2, <2>3
<1> QED
  BY <1>1, <1>2, <1>3, <1>4

\* A message is what it is made of.
LEMMA Turn ==
  ASSUME NEW i \in Calls, NEW r \in {"user", "assistant"}
  PROVE  /\ Message(r, i) \in Turns
         /\ Message(r, i).role = r /\ Message(r, i).call = i
         /\ \A m \in Turns : m.role = r /\ m.call = i => m = Message(r, i)
<1>1. Message(r, i) = [role |-> r, call |-> i]
  BY DEF Message
<1>2. \A m \in Turns : m = [role |-> m.role, call |-> m.call]
  BY DEF Turns
<1> QED
  BY <1>1, <1>2 DEF Turns

LEMMA TurnsOf ==
  ASSUME NEW s \in Seq(Turns)
  PROVE  Range(s) \subseteq Turns
BY DEF Range

-----------------------------------------------------------------------------
\* A step that leaves the conversation and the screen alone.
LEMMA TalkElsewhere ==
  ASSUME Talk, UNCHANGED chat,
         kind'  \in [Calls -> Chats \cup Edits \cup {"none"}],
         heard' \in [Calls -> {"none", "ok", "error", "cut"}],
         reply' \in [Calls -> {"none", "ok", "error"}],
         \A i \in Calls : /\ kind[i] # "none" => kind'[i] = kind[i]
                          /\ heard[i] # "none" => heard'[i] # "none"
                          /\ kind'[i] = "none" => heard'[i] = "none"
                          /\ kind'[i] \in Chats => kind[i] = kind'[i],
         Numbered'
  PROVE  Talk'
<1>1. /\ messages' = messages /\ onScreen' = onScreen /\ content' = content
      /\ overlapped' = overlapped
  BY DEF chat
<1>2. \A i \in Calls : Answer(i)'
  BY <1>1 DEF Talk, Answer
<1>3. HistoryIsShown'
  BY <1>1 DEF Talk, HistoryIsShown
<1>4. \A i \in onScreen' : kind'[i] # "none"
  BY <1>1 DEF Talk
<1>5. /\ content' \in [Calls -> {"empty", "partial", "ok", "error", "cut"}]
      /\ messages' \in Seq(Turns) /\ onScreen' \subseteq Calls
      /\ \A m \in Range(messages') : m.role = "assistant" => content'[m.call] = "ok"
  BY <1>1 DEF Talk
<1>6. Orderly'
  <2>1. ASSUME NEW i \in Calls, kind'[i] \in Chats, heard'[i] = "none"
        PROVE  kind[i] \in Chats /\ heard[i] = "none"
    BY <2>1
  <2> QED
    BY <1>1, <2>1 DEF Talk, Orderly
<1>7. overlapped' \in BOOLEAN
  BY <1>1 DEF Talk
<1> QED
  BY <1>2, <1>3, <1>4, <1>5, <1>6, <1>7 DEF Talk

\* A call that is made is new.
LEMMA NewCall ==
  ASSUME Talk, NEW i \in Calls, NEW k \in Chats \cup Edits, Make(i, k)
  PROVE  /\ kind[i] = "none" /\ heard' = heard /\ reply' = reply
         /\ kind' \in [Calls -> Chats \cup Edits \cup {"none"}]
         /\ kind'[i] = k /\ \A j \in Calls \ {i} : kind'[j] = kind[j]
         /\ \A j \in Calls : kind[j] # "none" => j < i
         /\ Numbered'
<1>1. /\ kind[i] = "none" /\ heard' = heard /\ reply' = reply
      /\ kind' \in [Calls -> Chats \cup Edits \cup {"none"}]
      /\ kind'[i] = k /\ \A j \in Calls \ {i} : kind'[j] = kind[j]
      /\ \A j \in 1..(i - 1) : kind[j] # "none"
  BY DEF Make, Talk
<1>2. /\ \A j \in Calls : j \in Nat /\ j >= 1
      /\ k # "none"
      /\ \A j, n \in Calls : j < n /\ kind[n] # "none" => kind[j] # "none"
  BY PageAssumption DEF Calls, Chats, Edits, Talk, Numbered
<1>3. \A j \in Calls : kind[j] # "none" => j < i
  BY <1>1, <1>2
<1>4. ASSUME NEW j \in Calls, NEW n \in Calls, j < n, kind'[n] # "none"
      PROVE  kind'[j] # "none"
  <2>1. CASE n = i
    <3>1. j \in 1..(i - 1)
      BY <1>2, <1>4, <2>1
    <3> QED
      BY <1>1, <1>2, <1>4, <2>1, <3>1
  <2>2. CASE n # i
    <3>1. kind[n] # "none" /\ kind[j] # "none"
      BY <1>1, <1>2, <1>4, <2>2
    <3> QED
      BY <1>1, <1>2, <3>1
  <2> QED
    BY <2>1, <2>2
<1> QED
  BY <1>1, <1>3, <1>4 DEF Numbered

\* A call that is made leaves the conversation as it is.
LEMMA TalkMade ==
  ASSUME Talk, NEW i \in Calls, NEW k \in Edits, Make(i, k), UNCHANGED chat
  PROVE  Talk'
<1>1. /\ kind[i] = "none" /\ heard' = heard /\ reply' = reply
      /\ kind' \in [Calls -> Chats \cup Edits \cup {"none"}]
      /\ kind'[i] = k /\ \A j \in Calls \ {i} : kind'[j] = kind[j]
      /\ Numbered'
  BY NewCall
<1>2. k # "none" /\ k \notin Chats
  BY DEF Chats, Edits
<1>3. /\ heard \in [Calls -> {"none", "ok", "error", "cut"}]
      /\ reply \in [Calls -> {"none", "ok", "error"}]
      /\ \A j \in Calls : kind[j] = "none" => heard[j] = "none"
  BY DEF Talk, Answer
<1>4. \A j \in Calls : /\ kind[j] # "none" => kind'[j] = kind[j]
                       /\ heard[j] # "none" => heard'[j] # "none"
                       /\ kind'[j] = "none" => heard'[j] = "none"
                       /\ kind'[j] \in Chats => kind[j] = kind'[j]
  BY <1>1, <1>2, <1>3
<1> QED
  BY <1>1, <1>3, <1>4, TalkElsewhere

\* The question is new to the conversation, since its call is.
LEMMA TalkSent ==
  ASSUME Talk, NEW i \in Calls, sendMessage(i)
  PROVE  Talk'
<1> DEFINE q == Message("user", i)
<1>1. PICK k \in Chats : Make(i, k)
  BY DEF sendMessage
<1>2. /\ kind[i] = "none" /\ heard' = heard /\ reply' = reply
      /\ kind' \in [Calls -> Chats \cup Edits \cup {"none"}]
      /\ kind'[i] = k /\ \A j \in Calls \ {i} : kind'[j] = kind[j]
      /\ \A j \in Calls : kind[j] # "none" => j < i
      /\ Numbered'
  BY <1>1, NewCall
<1>3. k # "none"
  BY DEF Chats
<1>4. /\ messages' = Append(messages, q)
      /\ onScreen' = onScreen \cup {i}
      /\ content' = content
      /\ overlapped' = (overlapped \/ UnderWay)
  BY DEF sendMessage
<1>5. i \notin onScreen
  BY <1>2 DEF Talk
<1>6. /\ q \in Turns /\ q.role = "user" /\ q.call = i
  BY Turn
<1>7. q \notin Range(messages)
  <2>1. \A m \in Range(messages) : m.call \notin onScreen => m.role = "assistant"
    BY DEF Talk, HistoryIsShown
  <2> QED
    BY <1>5, <1>6, <2>1
<1>8. /\ messages' \in Seq(Turns)
      /\ Range(messages') = Range(messages) \cup {q}
      /\ IsInjective(messages')
  BY <1>4, <1>6, <1>7, AppendTurn DEF Talk, HistoryIsShown
<1>9. /\ content[i] # "ok"
      /\ \A j \in Calls : Answer(j)'
  BY <1>2, <1>3, <1>4 DEF Talk, Answer
<1>10. \A j \in Calls : Message("assistant", j) # q
  BY <1>6, Turn
<1>11. \A j \in onScreen' : Message("user", j) \in Range(messages')
  BY <1>4, <1>8 DEF Talk, HistoryIsShown
<1>12. \A j \in onScreen' : content'[j] = "ok" <=> Message("assistant", j) \in Range(messages')
  <2>1. ASSUME NEW j \in onScreen
        PROVE  content'[j] = "ok" <=> Message("assistant", j) \in Range(messages')
    BY <1>4, <1>8, <1>10 DEF Talk, HistoryIsShown
  <2>2. Message("assistant", i) \notin Range(messages)
    <3>1. Message("assistant", i).role = "assistant" /\ Message("assistant", i).call = i
      BY Turn
    <3> QED
      BY <1>9, <3>1 DEF Talk
  <2>3. content'[i] # "ok" /\ Message("assistant", i) \notin Range(messages')
    BY <1>4, <1>8, <1>9, <1>10, <2>2
  <2> QED
    BY <1>4, <2>1, <2>3
<1>13. \A m \in Range(messages') : m.call \notin onScreen' => m.role = "assistant"
  BY <1>4, <1>6, <1>8 DEF Talk, HistoryIsShown
<1>14. ASSUME ~overlapped'
       PROVE  /\ ~overlapped /\ ~UnderWay
              /\ \A m \in Range(messages) : m.call \in onScreen /\ m.call < i
  <2>1. ~overlapped /\ ~UnderWay
    BY <1>4, <1>14 DEF Talk
  <2>2. \A m \in Range(messages) : m.call \in onScreen
    BY <2>1 DEF Talk, HistoryIsShown
  <2>3. \A j \in onScreen : j \in Calls /\ kind[j] # "none"
    BY DEF Talk
  <2> QED
    BY <1>2, <2>1, <2>2, <2>3
<1>17. ASSUME ~overlapped'
       PROVE  /\ \A m \in Range(messages') : m.call \in onScreen'
              /\ \A j, n \in DOMAIN messages' : j < n => Above(messages'[j], messages'[n])
  <2>1. \A m \in Range(messages') : m.call \in onScreen'
    BY <1>4, <1>6, <1>8, <1>14, <1>17
  <2>2. \A m \in Range(messages) : Above(m, q)
    BY <1>6, <1>14, <1>17 DEF Above
  <2>3. \A j, n \in DOMAIN messages : j < n => Above(messages[j], messages[n])
    BY <1>14, <1>17 DEF Talk, HistoryIsShown
  <2>4. messages \in Seq(Turns) /\ q \in Turns
    BY <1>6 DEF Talk
  <2> HIDE DEF q
  <2>5. \A j, n \in DOMAIN Append(messages, q) :
            j < n => Above(Append(messages, q)[j], Append(messages, q)[n])
    BY <2>2, <2>3, <2>4, AppendTurn
  <2> QED
    BY <1>4, <2>1, <2>5
<1>18. HistoryIsShown'
  BY <1>8, <1>11, <1>12, <1>13, <1>17 DEF HistoryIsShown
<1>19. Orderly'
  <2> SUFFICES ASSUME ~overlapped', NEW j \in Calls, kind'[j] \in Chats, heard'[j] = "none"
               PROVE  j \in onScreen' /\ \A m \in Range(messages') : m.call <= j
    BY DEF Orderly
  <2>1. j = i
    BY <1>2, <1>14 DEF UnderWay
  <2>2. \A m \in Range(messages) : m.call < i /\ m.call \in Nat
    <3>1. \A m \in Range(messages) : m.call \in Calls
      BY TurnsOf DEF Talk, Turns
    <3> QED
      BY <1>14, <3>1, PageAssumption DEF Calls
  <2>3. i \in Nat
    BY PageAssumption DEF Calls
  <2> QED
    BY <1>4, <1>6, <1>8, <2>1, <2>2, <2>3
<1>20. overlapped' \in BOOLEAN
  BY <1>4 DEF Talk, UnderWay
<1>15. \A m \in Range(messages') : m.role = "assistant" => content'[m.call] = "ok"
  BY <1>4, <1>6, <1>8 DEF Talk
<1>16. /\ onScreen' \subseteq Calls
       /\ \A j \in onScreen' : kind'[j] # "none"
  BY <1>2, <1>3, <1>4 DEF Talk
<1> QED
  BY <1>2, <1>4, <1>8, <1>9, <1>15, <1>16, <1>18, <1>19, <1>20 DEF Talk

\* How a call ends for the page.
LEMMA CallEnds ==
  ASSUME Talk, NEW i \in Calls, Ends(i)
  PROVE  /\ kind[i] # "none" /\ heard[i] = "none" /\ kind' = kind /\ reply' = reply
         /\ heard' \in [Calls -> {"none", "ok", "error", "cut"}]
         /\ heard'[i] \in {"ok", "error", "cut"}
         /\ \A j \in Calls \ {i} : heard'[j] = heard[j]
         /\ heard'[i] \in {"ok", "error"} => heard'[i] = reply[i]
<1>1. /\ kind[i] # "none" /\ heard[i] = "none" /\ kind' = kind /\ reply' = reply
  BY DEF Ends
<1>2. reply[i] \in {"none", "ok", "error"}
  BY DEF Talk
<1>3. PICK h \in {"ok", "error", "cut"} :
          /\ heard' = [heard EXCEPT ![i] = h]
          /\ h \in {"ok", "error"} => h = reply[i]
  <2>1. CASE Outcome(i)
    BY <1>2, <2>1 DEF Outcome
  <2>2. CASE heard' = [heard EXCEPT ![i] = "cut"]
    BY <2>2
  <2> QED
    BY <2>1, <2>2 DEF Ends
<1> QED
  BY <1>1, <1>3 DEF Talk

\* The answer is new to the conversation, since nothing has been heard of it.
LEMMA TalkAnswered ==
  ASSUME Talk, NEW i \in Calls, Answered(i)
  PROVE  Talk'
<1> DEFINE a == Message("assistant", i)
<1>1. /\ kind[i] # "none" /\ heard[i] = "none" /\ kind' = kind /\ reply' = reply
      /\ heard' \in [Calls -> {"none", "ok", "error", "cut"}]
      /\ heard'[i] \in {"ok", "error", "cut"}
      /\ \A j \in Calls \ {i} : heard'[j] = heard[j]
  BY CallEnds DEF Answered
<1>2. /\ content' = [content EXCEPT ![i] = heard'[i]]
      /\ messages' = IF heard'[i] = "ok" THEN Append(messages, a) ELSE messages
      /\ onScreen' = onScreen /\ overlapped' = overlapped /\ kind[i] \in Chats
  BY DEF Answered
<1>3. /\ content[i] # "ok"
      /\ content' \in [Calls -> {"empty", "partial", "ok", "error", "cut"}]
      /\ content'[i] = heard'[i]
      /\ \A j \in Calls \ {i} : content'[j] = content[j]
  BY <1>1, <1>2 DEF Talk, Answer
<1>4. a \in Turns /\ a.role = "assistant" /\ a.call = i
  BY Turn
<1>5. a \notin Range(messages)
  BY <1>3, <1>4 DEF Talk
<1>6. Range(messages) \subseteq Turns
  BY TurnsOf DEF Talk
<1>7. /\ messages' \in Seq(Turns)
      /\ IsInjective(messages')
      /\ heard'[i] = "ok" => Range(messages') = Range(messages) \cup {a}
      /\ heard'[i] # "ok" => Range(messages') = Range(messages)
  BY <1>2, <1>4, <1>5, AppendTurn DEF Talk, HistoryIsShown
<1>8. \A j \in Calls : Answer(j)'
  BY <1>1, <1>3 DEF Talk, Answer
<1>9. \A m \in Range(messages') : m.role = "assistant" => content'[m.call] = "ok"
  <2>1. ASSUME NEW m \in Range(messages), m.role = "assistant"
        PROVE  content'[m.call] = "ok"
    <3>1. content[m.call] = "ok" /\ m.call \in Calls
      BY <1>6, <2>1 DEF Talk, Turns
    <3> QED
      BY <1>3, <3>1
  <2> QED
    BY <1>3, <1>4, <1>7, <2>1
<1>10. \A j \in Calls : Message("user", j) # a
  BY <1>4, Turn
<1>11. \A j \in Calls \ {i} : Message("assistant", j) # a
  BY <1>4, Turn
<1>12. \A j \in onScreen' : Message("user", j) \in Range(messages')
  BY <1>2, <1>7 DEF Talk, HistoryIsShown
<1>13. \A j \in onScreen' : content'[j] = "ok" <=> Message("assistant", j) \in Range(messages')
  <2>1. ASSUME NEW j \in onScreen, j # i
        PROVE  content'[j] = "ok" <=> Message("assistant", j) \in Range(messages')
    <3>1. j \in Calls /\ (content[j] = "ok" <=> Message("assistant", j) \in Range(messages))
      BY DEF Talk, HistoryIsShown
    <3>2. content'[j] = content[j] /\ Message("assistant", j) # a
      BY <1>3, <1>11, <2>1, <3>1
    <3> QED
      BY <1>7, <3>1, <3>2
  <2>2. content'[i] = "ok" <=> a \in Range(messages')
    BY <1>3, <1>5, <1>7
  <2> QED
    BY <1>2, <2>1, <2>2
<1>14. \A m \in Range(messages') : m.call \notin onScreen' => m.role = "assistant"
  BY <1>2, <1>4, <1>7 DEF Talk, HistoryIsShown
<1>15. ASSUME ~overlapped
       PROVE  /\ i \in onScreen /\ \A m \in Range(messages) : m.call <= i
              /\ \A m \in Range(messages) : m.call \in onScreen
  BY <1>1, <1>2, <1>15 DEF Talk, Orderly, HistoryIsShown
<1>17. ASSUME ~overlapped'
       PROVE  /\ \A m \in Range(messages') : m.call \in onScreen'
              /\ \A j, n \in DOMAIN messages' : j < n => Above(messages'[j], messages'[n])
  <2>1. \A m \in Range(messages') : m.call \in onScreen'
    BY <1>2, <1>4, <1>7, <1>15, <1>17
  <2>2. ASSUME NEW m \in Range(messages) PROVE Above(m, a)
    <3>1. m \in Turns /\ m # a /\ m.call <= i
      BY <1>2, <1>5, <1>6, <1>15, <1>17
    <3>2. m.call \in Nat /\ i \in Nat /\ m.role \in {"user", "assistant"}
      BY <3>1, PageAssumption DEF Turns, Calls
    <3>3. m.call = i => m.role = "user"
      BY <3>1, <3>2, Turn
    <3> QED
      BY <1>4, <3>1, <3>2, <3>3 DEF Above
  <2>3. \A j, n \in DOMAIN messages : j < n => Above(messages[j], messages[n])
    BY <1>2, <1>17 DEF Talk, HistoryIsShown
  <2>4. messages \in Seq(Turns) /\ a \in Turns
    BY <1>4 DEF Talk
  <2> HIDE DEF a
  <2>5. \A j, n \in DOMAIN Append(messages, a) :
            j < n => Above(Append(messages, a)[j], Append(messages, a)[n])
    BY <2>2, <2>3, <2>4, AppendTurn
  <2> QED
    BY <1>2, <2>1, <2>3, <2>5
<1>18. HistoryIsShown'
  BY <1>7, <1>12, <1>13, <1>14, <1>17 DEF HistoryIsShown
<1>19. Orderly'
  <2> SUFFICES ASSUME ~overlapped', NEW j \in Calls, kind'[j] \in Chats, heard'[j] = "none"
               PROVE  j \in onScreen' /\ \A m \in Range(messages') : m.call <= j
    BY DEF Orderly
  <2>1. ~overlapped /\ j # i /\ kind[j] \in Chats /\ heard[j] = "none"
    BY <1>1, <1>2
  <2>2. j \in onScreen /\ \A m \in Range(messages) : m.call <= j
    BY <2>1 DEF Talk, Orderly
  <2>3. Message("user", i) \in Range(messages) /\ Message("user", i).call = i
    BY <1>15, <2>1, Turn DEF Talk, HistoryIsShown
  <2> QED
    BY <1>2, <1>4, <1>7, <2>2, <2>3
<1>20. overlapped' \in BOOLEAN /\ Numbered'
  BY <1>1, <1>2 DEF Talk, Numbered
<1>16. /\ kind' \in [Calls -> Chats \cup Edits \cup {"none"}]
       /\ onScreen' \subseteq Calls
       /\ \A j \in onScreen' : kind'[j] # "none"
  BY <1>1, <1>2 DEF Talk
<1> QED
  BY <1>1, <1>3, <1>7, <1>8, <1>9, <1>16, <1>18, <1>19, <1>20 DEF Talk

\* A part of an answer stands on the screen; the conversation has no answer yet.
LEMMA TalkDelta ==
  ASSUME Talk, NEW i \in Calls, Delta(i)
  PROVE  Talk'
<1>1. /\ UNCHANGED <<kind, heard, reply, messages, onScreen, overlapped>>
      /\ kind[i] = "stream" /\ heard[i] = "none" /\ content[i] = "empty"
      /\ content' = [content EXCEPT ![i] = "partial"]
  BY DEF Delta, calls
<1>2. /\ content' \in [Calls -> {"empty", "partial", "ok", "error", "cut"}]
      /\ content'[i] = "partial" /\ \A j \in Calls \ {i} : content'[j] = content[j]
  BY <1>1 DEF Talk
<1>3. \A j \in Calls : content'[j] = "ok" <=> content[j] = "ok"
  BY <1>1, <1>2
<1>4. \A j \in Calls : Answer(j)'
  BY <1>1, <1>2 DEF Talk, Answer
<1>5. \A m \in Range(messages') : m.role = "assistant" => content'[m.call] = "ok"
  <2>1. \A m \in Range(messages) : m.call \in Calls
    BY TurnsOf DEF Talk, Turns
  <2> QED
    BY <1>1, <1>3, <2>1 DEF Talk
<1>6. HistoryIsShown'
  <2>1. \A j \in onScreen : j \in Calls
    BY DEF Talk
  <2> QED
    BY <1>1, <1>3, <2>1 DEF Talk, HistoryIsShown
<1>7. Orderly' /\ Numbered'
  BY <1>1 DEF Talk, Orderly, Numbered
<1> QED
  BY <1>1, <1>2, <1>4, <1>5, <1>6, <1>7 DEF Talk

\* Uploads and deletes are no part of the conversation.
LEMMA TalkEdited ==
  ASSUME Talk, NEW i \in Calls, Edited(i)
  PROVE  Talk'
<1>1. /\ kind[i] # "none" /\ heard[i] = "none" /\ kind' = kind /\ reply' = reply
      /\ heard' \in [Calls -> {"none", "ok", "error", "cut"}]
      /\ heard'[i] \in {"ok", "error", "cut"}
      /\ \A j \in Calls \ {i} : heard'[j] = heard[j]
  BY CallEnds DEF Edited
<1>2. UNCHANGED chat
  BY DEF Edited
<1>3. /\ kind' \in [Calls -> Chats \cup Edits \cup {"none"}]
      /\ reply' \in [Calls -> {"none", "ok", "error"}]
      /\ \A j \in Calls : kind[j] = "none" => heard[j] = "none"
      /\ Numbered'
  BY <1>1 DEF Talk, Answer, Numbered
<1>4. \A j \in Calls : /\ kind[j] # "none" => kind'[j] = kind[j]
                       /\ heard[j] # "none" => heard'[j] # "none"
                       /\ kind'[j] = "none" => heard'[j] = "none"
                       /\ kind'[j] \in Chats => kind[j] = kind'[j]
  BY <1>1, <1>3
<1> QED
  BY <1>1, <1>2, <1>3, <1>4, TalkElsewhere

\* Clear leaves neither questions nor chats on the screen.
LEMMA TalkCleared == ASSUME Talk, Clear PROVE Talk'
<1>1. /\ messages' = <<>> /\ onScreen' = {} /\ content' = content
      /\ kind' = kind /\ heard' = heard /\ reply' = reply
      /\ overlapped' = UnderWay
  BY DEF Clear, calls
<1>2. messages' \in Seq(Turns) /\ Range(messages') = {} /\ IsInjective(messages')
  BY <1>1 DEF Range, IsInjective
<1>3. HistoryIsShown'
  <2>1. DOMAIN messages' = {}
    BY <1>1
  <2> QED
    BY <1>1, <1>2, <2>1 DEF HistoryIsShown
<1>4. \A i \in Calls : Answer(i)'
  BY <1>1 DEF Talk, Answer
<1>5. overlapped' \in BOOLEAN /\ Numbered'
  BY <1>1 DEF Talk, Numbered, UnderWay
<1>6. Orderly'
  <2>1. ~overlapped' => \A i \in Calls : ~(kind'[i] \in Chats /\ heard'[i] = "none")
    BY <1>1 DEF UnderWay
  <2> QED
    BY <2>1 DEF Orderly
<1> QED
  BY <1>1, <1>2, <1>3, <1>4, <1>5, <1>6 DEF Talk

-----------------------------------------------------------------------------
\* The page begins with an empty conversation.
LEMMA TalkBegins == Init => Talk
<1> SUFFICES ASSUME Init PROVE Talk
  OBVIOUS
<1>1. /\ messages = <<>> /\ onScreen = {} /\ Range(messages) = {}
  BY DEF Init, Range
<1>2. IsInjective(messages) /\ messages \in Seq(Turns)
  BY <1>1 DEF IsInjective
<1>3. HistoryIsShown
  <2>1. DOMAIN messages = {}
    BY <1>1
  <2> QED
    BY <1>1, <1>2, <2>1 DEF HistoryIsShown
<1>4. \A i \in Calls : Answer(i)
  BY DEF Init, Answer
<1>5. Orderly /\ Numbered
  BY DEF Init, Orderly, Numbered, Chats
<1> QED
  BY <1>1, <1>2, <1>3, <1>4, <1>5 DEF Init, Talk

\* The gateway, the network and the loads do not touch the conversation.
LEMMA TalkUntouched ==
  ASSUME Talk, UNCHANGED <<kind, heard, chat>>, reply' \in [Calls -> {"none", "ok", "error"}]
  PROVE  Talk'
<1>1. /\ kind \in [Calls -> Chats \cup Edits \cup {"none"}]
      /\ heard \in [Calls -> {"none", "ok", "error", "cut"}]
      /\ \A i \in Calls : kind[i] = "none" => heard[i] = "none"
      /\ Numbered'
  BY DEF Talk, Answer, Numbered
<1> QED
  BY <1>1, TalkElsewhere

LEMMA TalkGateway ==
  ASSUME Talk, NEW i \in Calls, GatewayAnswers(i) \/ WritesRow(i)
  PROVE  Talk'
<1>1. UNCHANGED <<kind, heard, chat>>
  BY DEF GatewayAnswers, WritesRow, Answers
<1>2. reply' = reply \/ \E r \in {"ok", "error"} : reply' = [reply EXCEPT ![i] = r]
  BY DEF GatewayAnswers, WritesRow, Answers
<1>3. reply' \in [Calls -> {"none", "ok", "error"}]
  BY <1>2 DEF Talk
<1> QED
  BY <1>1, <1>3, TalkUntouched

\* Every step of the page keeps the conversation and the screen in step.
LEMMA TalkStep == ASSUME Talk, [Next]_vars PROVE Talk'
<1>1. CASE Loaded \/ LoadThrows \/ Refresh \/ Arrives \/ UNCHANGED vars
  <2>1. UNCHANGED <<kind, heard, chat, reply>>
    BY <1>1 DEF Loaded, LoadThrows, Refresh, Arrives, LoadAnswered, Show, vars, calls
  <2>2. reply' \in [Calls -> {"none", "ok", "error"}]
    BY <2>1 DEF Talk
  <2> QED
    BY <2>1, <2>2, TalkUntouched
<1>2. CASE Clear
  BY <1>2, TalkCleared
<1>3. ASSUME NEW i \in Calls, User(i) PROVE Talk'
  <2>1. CASE sendMessage(i)
    BY <2>1, TalkSent
  <2>2. CASE uploadDocument(i)
    <3>1. Make(i, "upload") /\ UNCHANGED chat /\ "upload" \in Edits
      BY <2>2 DEF uploadDocument, Edits
    <3> QED
      BY <3>1, TalkMade
  <2>3. CASE deleteDocument(i)
    <3>1. Make(i, "delete") /\ UNCHANGED chat /\ "delete" \in Edits
      BY <2>3 DEF deleteDocument, Edits
    <3> QED
      BY <3>1, TalkMade
  <2> QED
    BY <1>3, <2>1, <2>2, <2>3 DEF User
<1>4. ASSUME NEW i \in Calls, Progress(i) PROVE Talk'
  BY <1>4, TalkGateway, TalkDelta, TalkAnswered, TalkEdited DEF Progress
<1> QED
  BY <1>1, <1>2, <1>3, <1>4 DEF Next

\* Talk is an invariant.
LEMMA StaysTalk == Spec => []Talk
<1> QED
  BY TalkBegins, TalkStep, PTL DEF Spec

\* The conversation that is sent is the one shown, however the answers of any
\* number of chats, the parts of them, and any number of Clears interleave; in its
\* order, as long as no chat was sent before the last had ended.
THEOREM HistoryHolds == Spec => []HistoryIsShown
<1>1. Talk => HistoryIsShown
  BY DEF Talk
<1> QED
  BY <1>1, StaysTalk, PTL
-----------------------------------------------------------------------------
(***************************************************************************)
(* The tables.  QuietPageIsCurrent is not inductive: a load shows what the *)
(* gateway had when it answered.  Fresh says that a load that is alone has *)
(* what it may not lack (Covering), since a call that is told of begins    *)
(* another, and that it goes on having it: more rows only excuse more.     *)
(***************************************************************************)
\* What is told of call i agrees with the gateway.
Agreed(i) == /\ kind[i] = "none" => gateway[i] = "idle"
             /\ gateway[i] \in {"idle", "working"} => reply[i] = "none"
             /\ gateway[i] = "answered" => kind[i] = "stream" /\ reply[i] = "ok"
             /\ heard[i] \in {"ok", "error"} => heard[i] = reply[i]

Loading == [state : {"waiting", "ok", "failed"}, seen : SUBSET Calls,
            single : BOOLEAN, for : Calls \cup {0}]

\* What table t may bring and lack none of what was told, but for its limits.
Covering(t) ==
    {S \in SUBSET Effects(t) :
        \A i \in Told(t) \ S : /\ kind[i] # "delete"
                               /\ t \in Shared \/ Cardinality(Placed(t)) > Limit(t)
                               /\ after[i] \cap S \cap Placed(t) = {}}

Fresh(t) == /\ \A n \in DOMAIN loads[t] : loads[t][n].single =>
                   /\ Len(loads[t]) = 1
                   /\ loads[t][n].state = "ok" => loads[t][n].seen \in Covering(t)
            /\ loads[t] = <<>> /\ alone[t] => shown[t] \in Covering(t)

Current == /\ Talk
           /\ gateway \in [Calls -> {"idle", "working", "answered", "done", "void"}]
           /\ after \in [Calls -> SUBSET Calls]
           /\ loads \in [Tables -> Seq(Loading)]
           /\ shown \in [Tables -> SUBSET Calls]
           /\ alone \in [Tables -> BOOLEAN]
           /\ \A i \in Calls : Agreed(i)
           /\ \A t \in Tables : Fresh(t)

\* A table has finitely many rows, the more the more has been placed.
LEMMA RowsCount ==
  ASSUME NEW S \in SUBSET Calls, NEW T \in SUBSET S
  PROVE  /\ Cardinality(S) \in Nat /\ Cardinality(T) \in Nat
         /\ Cardinality(T) <= Cardinality(S)
         /\ T # S => Cardinality(T) < Cardinality(S)
<1>1. IsFiniteSet(Calls)
  BY PageAssumption, FS_Interval DEF Calls
<1>2. IsFiniteSet(S)
  BY <1>1, FS_Subset
<1>3. /\ IsFiniteSet(T) /\ Cardinality(T) <= Cardinality(S)
      /\ Cardinality(S) = Cardinality(T) => S = T
  BY <1>2, FS_Subset
<1>4. Cardinality(S) \in Nat /\ Cardinality(T) \in Nat
  BY <1>2, <1>3, FS_CardinalityType
<1> QED
  BY <1>3, <1>4

LEMMA LimitType == ASSUME NEW t \in Tables PROVE Limit(t) \in Nat
BY PageAssumption DEF Limit

\* What a load may lack, it may lack when more has been done.
LEMMA CoveringGrows ==
  ASSUME Current, NEW t \in Tables, Told(t)' \subseteq Told(t),
         \A i \in Calls : /\ kind[i] # "none" => kind'[i] = kind[i] /\ after'[i] = after[i]
                          /\ gateway[i] = "done" => gateway'[i] = "done"
  PROVE  Covering(t) \subseteq Covering(t)'
<1> SUFFICES ASSUME NEW S \in Covering(t) PROVE S \in Covering(t)'
  OBVIOUS
<1>1. /\ S \subseteq Effects(t)
      /\ \A i \in Told(t) \ S : /\ kind[i] # "delete"
                                /\ t \in Shared \/ Cardinality(Placed(t)) > Limit(t)
                                /\ after[i] \cap S \cap Placed(t) = {}
  BY DEF Covering
<1>2. \A i \in Effects(t) : /\ i \in Calls /\ kind[i] # "none" /\ i \in Effects(t)'
                            /\ kind'[i] = kind[i] /\ after'[i] = after[i]
  <2> SUFFICES ASSUME NEW i \in Calls, gateway[i] = "done", Table(kind[i]) = t
               PROVE  /\ kind[i] # "none" /\ gateway'[i] = "done" /\ Table(kind'[i]) = t
                      /\ kind'[i] = kind[i] /\ after'[i] = after[i]
    BY DEF Effects, Table
  <2>1. kind[i] # "none"
    BY DEF Current, Agreed
  <2> QED
    BY <2>1
<1>3. /\ Effects(t) \subseteq Effects(t)'
      /\ Placed(t) \subseteq Placed(t)' /\ Placed(t)' \subseteq Calls
      /\ Effects(t) \cap Placed(t)' \subseteq Placed(t)
  BY <1>2 DEF Placed, Effects
<1>4. Cardinality(Placed(t)) > Limit(t) => Cardinality(Placed(t)') > Limit(t)
  <2> DEFINE P == Placed(t)
             Q == Placed(t)'
  <2>1. Q \in SUBSET Calls /\ P \in SUBSET Q
    BY <1>3
  <2> HIDE DEF P, Q
  <2>2. Cardinality(Q) \in Nat /\ Cardinality(P) \in Nat /\ Cardinality(P) <= Cardinality(Q)
    BY <2>1, RowsCount
  <2>3. Cardinality(P) > Limit(t) => Cardinality(Q) > Limit(t)
    BY <2>2, LimitType
  <2> QED
    BY <2>3 DEF P, Q
<1>5. ASSUME NEW i \in Told(t)' \ S
      PROVE  /\ kind'[i] # "delete"
             /\ t \in Shared \/ Cardinality(Placed(t)') > Limit(t)
             /\ after'[i] \cap S \cap Placed(t)' = {}
  <2>1. i \in Told(t) \ S /\ i \in Effects(t)
    BY DEF Told
  <2>2. kind'[i] = kind[i] /\ after'[i] = after[i]
    BY <1>2, <2>1
  <2>3. after[i] \cap S \cap Placed(t)' = {}
    BY <1>1, <1>3, <2>1
  <2>4. kind[i] # "delete" /\ (t \in Shared \/ Cardinality(Placed(t)) > Limit(t))
    BY <1>1, <2>1
  <2>5. t \in Shared \/ Cardinality(Placed(t)') > Limit(t)
    BY <1>4, <2>4, Zenon
  <2> QED
    BY <2>2, <2>3, <2>4, <2>5, Zenon
<1>6. S \subseteq Effects(t)'
  BY <1>1, <1>3
<1>7. Limit(t)' = Limit(t)
  BY DEF Limit
<1> QED
  BY <1>5, <1>6, <1>7 DEF Covering

\* Whatever a load brings, it lacks nothing but what it may.
LEMMA ListedCovers ==
  ASSUME NEW t \in Tables
  PROVE  Listed(t) \subseteq Covering(t)
<1> SUFFICES ASSUME NEW S \in Listed(t) PROVE S \in Covering(t)
  OBVIOUS
<1> DEFINE kept == S \cap Placed(t)
<1>1. /\ S \subseteq Effects(t)
      /\ Effects(t) \ Placed(t) \subseteq S
      /\ \A r \in Placed(t) \ S : after[r] \cap kept = {}
      /\ t \in Shared \/ Cardinality(kept) >= Limit(t) \/ kept = Placed(t)
  BY DEF Listed
<1>2. ASSUME NEW i \in Told(t) \ S
      PROVE  /\ kind[i] # "delete"
             /\ t \in Shared \/ Cardinality(Placed(t)) > Limit(t)
             /\ after[i] \cap S \cap Placed(t) = {}
  <2>1. i \in Placed(t) \ S
    BY <1>1 DEF Told
  <2>2. kind[i] # "delete"
    BY <2>1 DEF Placed
  <2>3. after[i] \cap S \cap Placed(t) = {}
    BY <1>1, <2>1
  <2>4. ASSUME Cardinality(kept) >= Limit(t)
        PROVE  Cardinality(Placed(t)) > Limit(t)
    <3> DEFINE P == Placed(t)
    <3>1. P \in SUBSET Calls /\ kept \in SUBSET P /\ kept # P
      BY <2>1 DEF Placed, Effects
    <3>2. Cardinality(kept) >= Limit(t)
      BY <2>4
    <3> HIDE DEF P, kept
    <3>3. /\ Cardinality(P) \in Nat /\ Cardinality(kept) \in Nat
          /\ Cardinality(kept) < Cardinality(P)
      BY <3>1, RowsCount
    <3>4. Cardinality(P) > Limit(t)
      BY <3>2, <3>3, LimitType
    <3> QED
      BY <3>4 DEF P
  <2>5. kept # Placed(t)
    BY <2>1
  <2> QED
    BY <1>1, <2>2, <2>3, <2>4, <2>5
<1> QED
  BY <1>1, <1>2 DEF Covering

\* A step in which the page hears nothing tells it nothing.
LEMMA NothingNewTold ==
  ASSUME Current, NEW t \in Tables, heard' = heard,
         \A i \in Calls : /\ kind[i] # "none" => kind'[i] = kind[i]
                          /\ \/ gateway'[i] = gateway[i]
                             \/ gateway[i] \in {"idle", "working", "answered"}
  PROVE  Told(t)' \subseteq Told(t)
<1> SUFFICES ASSUME NEW i \in Calls, i \in Told(t)' PROVE i \in Told(t)
  BY DEF Told, Effects
<1>1. /\ gateway'[i] = "done" /\ Table(kind'[i]) = t
      /\ \/ heard[i] = "ok" /\ kind'[i] # "stream"
         \/ heard[i] = "error" /\ kind'[i] \in Chats
  BY DEF Told, Effects, Table
<1>2. kind[i] # "none" /\ kind'[i] = kind[i]
  BY <1>1 DEF Current, Talk, Answer
<1>3. heard[i] = reply[i] /\ Agreed(i)
  BY <1>1 DEF Current, Agreed
<1>4. gateway[i] \notin {"idle", "working"}
  BY <1>1, <1>3 DEF Agreed
<1>5. gateway[i] # "answered"
  BY <1>1, <1>2, <1>3 DEF Agreed
<1>6. gateway[i] = "done"
  BY <1>1, <1>4, <1>5
<1> QED
  BY <1>1, <1>2, <1>6 DEF Told, Effects, Table

\* What the page hears of a call concerns one table, and of a change that was
\* refused none.
LEMMA OthersNotTold ==
  ASSUME Current, NEW i \in Calls, Ends(i), NEW t \in Tables,
         t # Table(kind[i]) \/ (kind[i] \in Edits /\ heard'[i] # "ok")
  PROVE  Told(t)' \subseteq Told(t)
<1>1. /\ kind' = kind /\ gateway' = gateway
      /\ \A j \in Calls \ {i} : heard'[j] = heard[j]
  <2>1. Talk
    BY DEF Current
  <2> QED
    BY <2>1, CallEnds DEF Ends
<1> SUFFICES ASSUME NEW j \in Calls, j \in Told(t)' PROVE j \in Told(t)
  BY DEF Told, Effects
<1>2. /\ gateway[j] = "done" /\ Table(kind[j]) = t
      /\ \/ heard'[j] = "ok" /\ kind[j] # "stream"
         \/ heard'[j] = "error" /\ kind[j] \in Chats
  BY <1>1 DEF Told, Effects, Table
<1>3. j # i
  BY <1>2 DEF Chats, Edits
<1> QED
  BY <1>1, <1>2, <1>3 DEF Told, Effects, Table

\* A table that is left alone.
LEMMA FreshAsBefore ==
  ASSUME NEW t \in Tables, Fresh(t), Covering(t) \subseteq Covering(t)',
         loads'[t] = loads[t], shown'[t] = shown[t], alone'[t] = alone[t]
  PROVE  Fresh(t)'
<1> DEFINE L == loads[t]
           C == Covering(t)
<1>1. \A n \in DOMAIN L : L[n].single => Len(L) = 1 /\ (L[n].state = "ok" => L[n].seen \in C)
  BY DEF Fresh
<1>2. L = <<>> /\ alone[t] => shown[t] \in C
  BY DEF Fresh
<1>3. \A n \in DOMAIN L : L[n].single => Len(L) = 1 /\ (L[n].state = "ok" => L[n].seen \in C')
  BY <1>1
<1>4. L = <<>> /\ alone'[t] => shown'[t] \in C'
  BY <1>2
<1> QED
  BY <1>3, <1>4 DEF Fresh

LEMMA LoadChanged ==
  ASSUME NEW e \in Loading
  PROVE  [e EXCEPT !.single = FALSE] \in Loading /\ [e EXCEPT !.single = FALSE].single = FALSE
BY DEF Loading

\* After Begin, no load has been answered alone.
LEMMA Begun ==
  ASSUME Current, NEW t \in Tables, NEW i \in Calls \cup {0}, Begin(t, i)
  PROVE  /\ loads' \in [Tables -> Seq(Loading)]
         /\ \A s \in Tables \ {t} : loads'[s] = loads[s]
         /\ Fresh(t)'
<1> DEFINE L == loads[t]
           O == [n \in DOMAIN L |-> [L[n] EXCEPT !.single = FALSE]]
           N == Load(L = <<>>, i)
<1>1. loads' = [loads EXCEPT ![t] = Append(O, N)]
  BY DEF Begin
<1>2. L \in Seq(Loading) /\ Len(L) \in Nat /\ DOMAIN L = 1..Len(L)
  BY DEF Current
<1>3. O \in Seq(Loading) /\ Len(O) = Len(L) /\ \A n \in 1..Len(L) : O[n].single = FALSE
  <2>1. \A n \in 1..Len(L) : L[n] \in Loading
    BY <1>2
  <2>2. \A n \in 1..Len(L) : /\ [L[n] EXCEPT !.single = FALSE] \in Loading
                             /\ [L[n] EXCEPT !.single = FALSE].single = FALSE
    BY <2>1, LoadChanged
  <2> QED
    BY <1>2, <2>2
<1>4. /\ N \in Loading
      /\ N.state = "waiting" /\ N.single = (L = <<>>)
  BY DEF Load, Loading
<1>5. /\ Append(O, N) \in Seq(Loading) /\ Len(Append(O, N)) = Len(L) + 1
      /\ DOMAIN Append(O, N) = 1..(Len(L) + 1)
      /\ Append(O, N)[Len(L) + 1] = N
      /\ \A n \in 1..Len(L) : Append(O, N)[n] = O[n]
  BY <1>2, <1>3, <1>4
<1>6. /\ loads' \in [Tables -> Seq(Loading)]
      /\ loads'[t] = Append(O, N)
      /\ \A s \in Tables \ {t} : loads'[s] = loads[s]
  BY <1>1, <1>5 DEF Current
<1>7. loads'[t] # <<>>
  BY <1>2, <1>5, <1>6
<1>8. ASSUME NEW n \in DOMAIN loads'[t], loads'[t][n].single
      PROVE  Len(loads'[t]) = 1 /\ loads'[t][n].state = "waiting"
  <2>1. n = Len(L) + 1
    BY <1>2, <1>3, <1>5, <1>6, <1>8
  <2>2. loads'[t][n] = N
    BY <1>5, <1>6, <2>1
  <2>3. L = <<>>
    BY <1>4, <1>8, <2>2
  <2> QED
    BY <1>4, <1>5, <1>6, <2>2, <2>3
<1>9. Fresh(t)'
  BY <1>7, <1>8 DEF Fresh
<1> QED
  BY <1>6, <1>9

\* The answer to a load lacks nothing but what it may.
LEMMA FreshAnswered ==
  ASSUME Current, NEW t \in Tables, NEW n \in DOMAIN loads[t], LoadAnswered(t, n)
  PROVE  /\ loads' \in [Tables -> Seq(Loading)]
         /\ \A s \in Tables : Fresh(s)'
<1> DEFINE L == loads[t]
           M == loads'[t]
<1>1. L \in Seq(Loading) /\ Len(L) \in Nat /\ DOMAIN L = 1..Len(L)
  BY DEF Current
<1>2. Listed(t) \subseteq Covering(t) /\ Listed(t) \subseteq SUBSET Calls
  BY ListedCovers DEF Listed, Effects
<1>3. PICK e \in Loading :
          /\ loads' = [loads EXCEPT ![t] = [L EXCEPT ![n] = e]]
          /\ e.single = L[n].single
          /\ e.state = "ok" => e.seen \in Covering(t)
  <2>0. L[n] \in Loading
    BY <1>1
  <2>1. ASSUME NEW S \in Listed(t),
               loads' = [loads EXCEPT ![t][n].state = "ok", ![t][n].seen = S]
        PROVE  \E e \in Loading :
                   /\ loads' = [loads EXCEPT ![t] = [L EXCEPT ![n] = e]]
                   /\ e.single = L[n].single
                   /\ e.state = "ok" => e.seen \in Covering(t)
    <3> DEFINE e == [L[n] EXCEPT !.state = "ok", !.seen = S]
    <3>0. S \in SUBSET Calls /\ S \in Covering(t)
      BY <1>2
    <3>1. /\ e.single = L[n].single /\ e.seen = S
          /\ e \in Loading
      BY <2>0, <3>0 DEF Loading
    <3>2. loads' = [loads EXCEPT ![t] = [L EXCEPT ![n] = e]]
      BY <2>1, <1>1 DEF Current
    <3> QED
      BY <3>0, <3>1, <3>2
  <2>2. CASE loads' = [loads EXCEPT ![t][n].state = "failed"]
    <3> DEFINE e == [L[n] EXCEPT !.state = "failed"]
    <3>1. /\ e.single = L[n].single /\ e.state = "failed"
          /\ e \in Loading
      BY <2>0 DEF Loading
    <3>2. loads' = [loads EXCEPT ![t] = [L EXCEPT ![n] = e]]
      BY <2>2
    <3> QED
      BY <3>1, <3>2
  <2> QED
    BY <2>1, <2>2 DEF LoadAnswered
<1>4. /\ M = [L EXCEPT ![n] = e] /\ M \in Seq(Loading) /\ Len(M) = Len(L)
      /\ DOMAIN M = DOMAIN L /\ M[n] = e /\ \A k \in DOMAIN L \ {n} : M[k] = L[k]
      /\ loads' \in [Tables -> Seq(Loading)]
      /\ \A s \in Tables \ {t} : loads'[s] = loads[s]
  BY <1>1, <1>3 DEF Current
<1>5. /\ kind' = kind /\ gateway' = gateway /\ heard' = heard
      /\ shown' = shown /\ alone' = alone /\ after' = after
  BY DEF LoadAnswered, calls
<1>6. \A s \in Tables : Covering(s)' = Covering(s)
  BY <1>5 DEF Covering, Told, Placed, Effects, Table, Limit
<1>7. \A k \in DOMAIN M : M[k].single =>
          Len(M) = 1 /\ (M[k].state = "ok" => M[k].seen \in Covering(t))
  <2>1. \A k \in DOMAIN L : L[k].single =>
            Len(L) = 1 /\ (L[k].state = "ok" => L[k].seen \in Covering(t))
    BY DEF Current, Fresh
  <2> QED
    BY <1>3, <1>4, <2>1
<1>8. M # <<>>
  BY <1>1, <1>4
<1>9. Fresh(t)'
  BY <1>6, <1>7, <1>8 DEF Fresh
<1>10. ASSUME NEW s \in Tables \ {t} PROVE Fresh(s)'
  BY <1>4, <1>5, <1>6, FreshAsBefore DEF Current
<1> QED
  BY <1>4, <1>9, <1>10

\* Without the element at n.
LEMMA Removed ==
  ASSUME NEW S, NEW s \in Seq(S), NEW n \in 1..Len(s)
  PROVE  /\ RemoveAt(s, n) \in Seq(S)
         /\ Len(RemoveAt(s, n)) = Len(s) - 1
         /\ \A k \in 1..(Len(s) - 1) : \E j \in 1..Len(s) : RemoveAt(s, n)[k] = s[j]
<1> DEFINE a == SubSeq(s, 1, n - 1)
           b == SubSeq(s, n + 1, Len(s))
<1>1. Len(s) \in Nat /\ n \in Nat /\ 1 <= n /\ n <= Len(s)
  OBVIOUS
<1>2. \A k \in 1..Len(s) : s[k] \in S
  OBVIOUS
<1>3. /\ a \in Seq(S) /\ Len(a) = n - 1
      /\ \A k \in 1..(n - 1) : a[k] = s[k]
  <2>1. \A k \in 1..(n - 1) : s[k] \in S
    BY <1>1, <1>2
  <2>2. /\ SubSeq(s, 1, n - 1) \in Seq(S)
        /\ Len(SubSeq(s, 1, n - 1)) = IF 1 <= n - 1 THEN (n - 1) - 1 + 1 ELSE 0
        /\ \A k \in 1..((n - 1) - 1 + 1) : SubSeq(s, 1, n - 1)[k] = s[1 + k - 1]
    BY <1>1, <2>1, SubSeqProperties
  <2> QED
    BY <1>1, <2>2
<1>4. /\ b \in Seq(S) /\ Len(b) = Len(s) - n
      /\ \A k \in 1..(Len(s) - n) : b[k] = s[n + k]
  <2>1. \A k \in (n + 1)..Len(s) : s[k] \in S
    BY <1>1, <1>2
  <2>2. /\ SubSeq(s, n + 1, Len(s)) \in Seq(S)
        /\ Len(SubSeq(s, n + 1, Len(s))) = IF n + 1 <= Len(s) THEN Len(s) - (n + 1) + 1 ELSE 0
        /\ \A k \in 1..(Len(s) - (n + 1) + 1) : SubSeq(s, n + 1, Len(s))[k] = s[(n + 1) + k - 1]
    BY <1>1, <2>1, SubSeqProperties
  <2> QED
    BY <1>1, <2>2
<1>5. /\ a \o b \in Seq(S)
      /\ Len(a \o b) = Len(a) + Len(b)
      /\ \A k \in 1..(Len(a) + Len(b)) :
             (a \o b)[k] = IF k <= Len(a) THEN a[k] ELSE b[k - Len(a)]
  BY <1>3, <1>4, ConcatProperties
<1>6. RemoveAt(s, n) = a \o b
  BY DEF RemoveAt
<1> HIDE DEF a, b
<1>7. ASSUME NEW k \in 1..(Len(s) - 1)
      PROVE  \E j \in 1..Len(s) : (a \o b)[k] = s[j]
  <2>1. CASE k <= n - 1
    <3>1. k \in 1..Len(s) /\ k \in 1..(n - 1) /\ k \in 1..(Len(a) + Len(b)) /\ k <= Len(a)
      BY <1>1, <1>3, <1>4, <2>1
    <3>2. (a \o b)[k] = a[k]
      BY <1>5, <3>1
    <3>3. a[k] = s[k]
      BY <1>3, <3>1
    <3> QED
      BY <3>1, <3>2, <3>3, Zenon
  <2>2. CASE k > n - 1
    <3>1. (a \o b)[k] = b[k - (n - 1)] /\ k - (n - 1) \in 1..(Len(s) - n)
      BY <1>1, <1>3, <1>4, <1>5, <2>2
    <3>2. b[k - (n - 1)] = s[k + 1] /\ k + 1 \in 1..Len(s)
      BY <1>1, <1>4, <3>1
    <3> QED
      BY <3>1, <3>2
  <2>3. k <= n - 1 \/ k > n - 1
    BY <1>1
  <2> QED
    BY <2>1, <2>2, <2>3, Zenon
<1>8. Len(a \o b) = Len(s) - 1
  BY <1>1, <1>3, <1>4, <1>5
<1> QED
  BY <1>5, <1>6, <1>7, <1>8, Zenon

\* A load that is shown alone shows what may not be lacking.
LEMMA FreshShown ==
  ASSUME Current, NEW t \in Tables, NEW n \in DOMAIN loads[t], Show(t, n)
  PROVE  /\ loads' \in [Tables -> Seq(Loading)]
         /\ shown' \in [Tables -> SUBSET Calls]
         /\ alone' \in [Tables -> BOOLEAN]
         /\ \A s \in Tables : Fresh(s)'
<1> DEFINE L == loads[t]
           M == loads'[t]
<1>1. L \in Seq(Loading) /\ Len(L) \in Nat /\ DOMAIN L = 1..Len(L)
      /\ \A k \in DOMAIN L : L[k] \in Loading
  BY DEF Current
<1>2. /\ loads' = [loads EXCEPT ![t] = RemoveAt(L, n)]
      /\ alone' = [alone EXCEPT ![t] = L[n].single /\ L[n].state = "ok"]
      /\ kind' = kind /\ gateway' = gateway /\ heard' = heard /\ after' = after
  BY DEF Show, calls
<1>3. /\ RemoveAt(L, n) \in Seq(Loading)
      /\ Len(RemoveAt(L, n)) = Len(L) - 1
      /\ \A k \in 1..(Len(L) - 1) : \E j \in 1..Len(L) : RemoveAt(L, n)[k] = L[j]
  <2>1. ASSUME NEW s \in Seq(Loading), NEW m \in 1..Len(s)
        PROVE  /\ RemoveAt(s, m) \in Seq(Loading)
               /\ Len(RemoveAt(s, m)) = Len(s) - 1
               /\ \A k \in 1..(Len(s) - 1) : \E j \in 1..Len(s) : RemoveAt(s, m)[k] = s[j]
    BY Removed
  <2>2. L \in Seq(Loading) /\ n \in 1..Len(L)
    BY <1>1
  <2> HIDE DEF L
  <2> QED
    BY <2>1, <2>2
<1>4. /\ loads' \in [Tables -> Seq(Loading)] /\ M = RemoveAt(L, n)
      /\ \A s \in Tables \ {t} : loads'[s] = loads[s]
  BY <1>2, <1>3 DEF Current
<1>5. /\ alone' \in [Tables -> BOOLEAN]
      /\ \A s \in Tables \ {t} : alone'[s] = alone[s]
  <2>1. (L[n].single /\ L[n].state = "ok") \in BOOLEAN
    OBVIOUS
  <2> QED
    BY <1>2, <2>1 DEF Current
<1>6. alone'[t] => L[n].single /\ L[n].state = "ok"
  BY <1>2 DEF Current
<1>7. /\ shown' \in [Tables -> SUBSET Calls]
      /\ \A s \in Tables \ {t} : shown'[s] = shown[s]
      /\ L[n].state = "ok" => shown'[t] = L[n].seen
  <2>1. L[n].seen \in SUBSET Calls /\ shown[t] \in SUBSET Calls
    BY <1>1 DEF Current, Loading
  <2>2. \E s \in SUBSET Calls : /\ shown' = [shown EXCEPT ![t] = s]
                                /\ L[n].state = "ok" => s = L[n].seen
    BY <2>1 DEF Show
  <2> QED
    BY <2>2 DEF Current
<1>8. \A s \in Tables : Covering(s)' = Covering(s)
  BY <1>2 DEF Covering, Told, Placed, Effects, Table, Limit
<1>9. \A k \in DOMAIN L : L[k].single =>
          Len(L) = 1 /\ (L[k].state = "ok" => L[k].seen \in Covering(t))
  BY DEF Current, Fresh
<1>10. \A k \in DOMAIN M : ~M[k].single
  <2>1. DOMAIN M = 1..(Len(L) - 1)
    BY <1>3, <1>4
  <2>2. ASSUME NEW k \in 1..(Len(L) - 1) PROVE ~M[k].single
    <3>1. PICK j \in 1..Len(L) : M[k] = L[j]
      BY <1>3, <1>4
    <3>2. Len(L) # 1
      BY <1>1
    <3> QED
      BY <1>1, <1>9, <3>1, <3>2
  <2> QED
    BY <2>1, <2>2
<1>11. alone'[t] => shown'[t] \in Covering(t)
  BY <1>6, <1>7, <1>9
<1>12. Fresh(t)'
  BY <1>8, <1>10, <1>11 DEF Fresh
<1>13. ASSUME NEW s \in Tables \ {t} PROVE Fresh(s)'
  BY <1>4, <1>5, <1>7, <1>8, FreshAsBefore DEF Current
<1> QED
  BY <1>4, <1>5, <1>7, <1>12, <1>13

-----------------------------------------------------------------------------
\* The page begins with empty tables and nothing told.
LEMMA CurrentBegins == Init => Current
<1> SUFFICES ASSUME Init PROVE Current
  OBVIOUS
<1>1. \A t \in Tables : Fresh(t)
  BY DEF Init, Fresh
<1>2. \A i \in Calls : Agreed(i)
  BY DEF Init, Agreed
<1>3. <<>> \in Seq(Loading)
  OBVIOUS
<1>4. Talk
  BY TalkBegins
<1> QED
  BY <1>1, <1>2, <1>3, <1>4 DEF Init, Current

\* A step that touches no table, and tells the page nothing.
LEMMA CurrentElsewhere ==
  ASSUME Current, Talk', UNCHANGED <<loads, shown, alone>>, heard' = heard,
         gateway' \in [Calls -> {"idle", "working", "answered", "done", "void"}],
         after' \in [Calls -> SUBSET Calls],
         \A i \in Calls : /\ kind[i] # "none" => kind'[i] = kind[i] /\ after'[i] = after[i]
                          /\ \/ gateway'[i] = gateway[i]
                             \/ gateway[i] \in {"idle", "working", "answered"}
                          /\ Agreed(i)'
  PROVE  Current'
<1>1. \A t \in Tables : Told(t)' \subseteq Told(t)
  BY NothingNewTold
<1>2. \A i \in Calls : gateway[i] = "done" => gateway'[i] = "done"
  OBVIOUS
<1>3. \A t \in Tables : Covering(t) \subseteq Covering(t)'
  BY <1>1, <1>2, CoveringGrows
<1>4. \A t \in Tables : Fresh(t)'
  BY <1>3, FreshAsBefore DEF Current
<1> QED
  BY <1>4 DEF Current

\* A call that is made is not told of yet.
LEMMA CurrentMade ==
  ASSUME Current, Talk', NEW i \in Calls, NEW k \in Chats \cup Edits, Make(i, k),
         UNCHANGED <<loads, shown, alone>>
  PROVE  Current'
<1>1. /\ kind[i] = "none" /\ heard' = heard /\ reply' = reply
      /\ \A j \in Calls \ {i} : kind'[j] = kind[j]
  <2>1. Talk
    BY DEF Current
  <2> QED
    BY <2>1, NewCall
<1>2. gateway' = [gateway EXCEPT ![i] = "working"]
  BY DEF Make
<1>3. k # "none"
  BY DEF Chats, Edits
<1>4. Agreed(i)'
  <2>1. heard[i] = "none" /\ gateway'[i] = "working"
    BY <1>1, <1>2 DEF Current, Talk, Answer
  <2>2. reply[i] = "none"
    BY <1>1 DEF Current, Agreed
  <2>3. kind'[i] = k
    <3>1. Talk
      BY DEF Current
    <3> QED
      BY <3>1, NewCall
  <2> QED
    BY <1>1, <1>3, <2>1, <2>2, <2>3 DEF Agreed
<1>5. \A j \in Calls \ {i} : gateway'[j] = gateway[j] /\ Agreed(j)'
  BY <1>1, <1>2 DEF Current, Agreed
<1>6. gateway[i] = "idle"
  BY <1>1 DEF Current, Agreed
<1>7. gateway' \in [Calls -> {"idle", "working", "answered", "done", "void"}]
  BY <1>2 DEF Current
<1>8. /\ after' \in [Calls -> SUBSET Calls]
      /\ \A j \in Calls \ {i} : after'[j] = after[j]
  BY DEF Make, Current
<1> QED
  BY <1>1, <1>4, <1>5, <1>6, <1>7, <1>8, CurrentElsewhere

LEMMA CurrentGateway ==
  ASSUME Current, Talk', NEW i \in Calls, GatewayAnswers(i) \/ WritesRow(i)
  PROVE  Current'
<1>1. UNCHANGED <<kind, heard, after, loads, shown, alone>>
  BY DEF GatewayAnswers, WritesRow, Answers, tables
<1>7. after' \in [Calls -> SUBSET Calls]
  BY <1>1 DEF Current
<1>2. gateway[i] \in {"working", "answered"} /\ kind[i] # "none"
  BY DEF GatewayAnswers, WritesRow, Current, Agreed
<1>3. PICK g \in {"answered", "done", "void"}, r \in {"ok", "error"} :
          /\ gateway' = [gateway EXCEPT ![i] = g]
          /\ reply' = [reply EXCEPT ![i] = r]
          /\ g = "answered" => kind[i] = "stream" /\ r = "ok"
          /\ heard[i] \in {"ok", "error"} => heard[i] = r
  <2>1. CASE GatewayAnswers(i)
    <3>1. \E g \in {"answered", "done", "void"}, r \in {"ok", "error"} :
              Answers(i, r, g) /\ (g = "answered" => kind[i] = "stream" /\ r = "ok")
      BY <2>1 DEF GatewayAnswers
    <3>2. heard[i] \notin {"ok", "error"}
      BY <2>1 DEF GatewayAnswers, Current, Agreed
    <3> QED
      BY <3>1, <3>2 DEF Answers
  <2>2. CASE WritesRow(i)
    <3>1. reply[i] = "ok" /\ (heard[i] \in {"ok", "error"} => heard[i] = "ok")
      BY <2>2 DEF WritesRow, Current, Agreed
    <3>2. reply' = reply /\ reply = [reply EXCEPT ![i] = "ok"]
      BY <2>2, <3>1 DEF WritesRow, Current, Talk
    <3> QED
      BY <2>2, <3>1, <3>2 DEF WritesRow
  <2> QED
    BY <2>1, <2>2
<1>4. /\ gateway' \in [Calls -> {"idle", "working", "answered", "done", "void"}]
      /\ gateway'[i] = g /\ reply'[i] = r
      /\ \A j \in Calls \ {i} : gateway'[j] = gateway[j] /\ reply'[j] = reply[j]
  BY <1>3 DEF Current, Talk
<1>5. Agreed(i)'
  BY <1>1, <1>2, <1>3, <1>4 DEF Agreed
<1>6. \A j \in Calls \ {i} : Agreed(j)'
  BY <1>1, <1>4 DEF Current, Agreed
<1> QED
  BY <1>1, <1>2, <1>4, <1>5, <1>6, <1>7, CurrentElsewhere

\* What the page hears of a call is what the gateway said.
LEMMA AgreedAtEnd ==
  ASSUME Current, NEW i \in Calls, Ends(i)
  PROVE  /\ gateway' = gateway /\ kind' = kind /\ after' = after
         /\ \A j \in Calls : Agreed(j)'
<1>1. /\ kind' = kind /\ reply' = reply /\ gateway' = gateway /\ after' = after
      /\ \A j \in Calls \ {i} : heard'[j] = heard[j]
      /\ heard'[i] \in {"ok", "error"} => heard'[i] = reply[i]
  <2>1. Talk
    BY DEF Current
  <2> QED
    BY <2>1, CallEnds DEF Ends
<1>2. \A j \in Calls : Agreed(j)'
  BY <1>1 DEF Current, Agreed
<1> QED
  BY <1>1, <1>2

\* The page hears of a call, and loads its table again.
LEMMA CurrentReloads ==
  ASSUME Current, Talk', NEW i \in Calls, Ends(i), Begin(Table(kind[i]), i),
         UNCHANGED <<shown, alone>>
  PROVE  Current'
<1>1. PICK t \in Tables : t = Table(kind[i])
  BY DEF Table, Tables
<1>2. /\ loads' \in [Tables -> Seq(Loading)]
      /\ \A s \in Tables \ {t} : loads'[s] = loads[s]
      /\ Fresh(t)'
  BY <1>1, Begun
<1>3. ASSUME NEW s \in Tables \ {t} PROVE Fresh(s)'
  <2>1. Told(s)' \subseteq Told(s)
    BY <1>1, OthersNotTold
  <2>2. Covering(s) \subseteq Covering(s)'
    BY <2>1, AgreedAtEnd, CoveringGrows
  <2> QED
    BY <1>2, <2>2, FreshAsBefore DEF Current
<1> QED
  BY <1>2, <1>3, AgreedAtEnd DEF Current

LEMMA CurrentAnswered ==
  ASSUME Current, Talk', NEW i \in Calls, Answered(i)
  PROVE  Current'
<1>1. Table(kind[i]) = "log" /\ Begin("log", i) /\ Ends(i) /\ UNCHANGED <<shown, alone>>
  BY DEF Answered, Table
<1> QED
  BY <1>1, CurrentReloads

\* An upload or delete that ended is told of and loads the documents again.
LEMMA CurrentEdited ==
  ASSUME Current, Talk', NEW i \in Calls, Edited(i)
  PROVE  Current'
<1>1. /\ Table(kind[i]) = "documents" /\ kind[i] \in Edits
      /\ Ends(i) /\ UNCHANGED <<shown, alone>>
  BY DEF Edited, Table, Chats, Edits
<1>2. CASE heard'[i] = "ok"
  <2>1. Begin("documents", i)
    BY <1>2 DEF Edited
  <2> QED
    BY <1>1, <2>1, CurrentReloads
<1>3. CASE heard'[i] # "ok"
  <2>1. loads' = loads
    BY <1>3 DEF Edited
  <2>2. \A t \in Tables : Told(t)' \subseteq Told(t)
    BY <1>1, <1>3, OthersNotTold
  <2>4. \A t \in Tables : Covering(t) \subseteq Covering(t)'
    BY <1>1, <2>2, AgreedAtEnd, CoveringGrows
  <2>3. \A t \in Tables : Fresh(t)'
    BY <1>1, <2>1, <2>4, FreshAsBefore DEF Current
  <2> QED
    BY <1>1, <2>1, <2>3, AgreedAtEnd DEF Current
<1> QED
  BY <1>2, <1>3

\* A step of the loads alone.
LEMMA CurrentLoads ==
  ASSUME Current, Talk', UNCHANGED calls,
         loads' \in [Tables -> Seq(Loading)],
         shown' \in [Tables -> SUBSET Calls], alone' \in [Tables -> BOOLEAN],
         \A t \in Tables : Fresh(t)'
  PROVE  Current'
<1>1. /\ gateway' = gateway /\ kind' = kind /\ heard' = heard /\ reply' = reply
      /\ after' = after
  BY DEF calls
<1>2. \A i \in Calls : Agreed(i)'
  BY <1>1 DEF Current, Agreed
<1> QED
  BY <1>1, <1>2 DEF Current

\* Refresh begins another load of the log.
LEMMA CurrentRefreshed == ASSUME Current, Talk', Refresh PROVE Current'
<1>1. /\ Begin("log", 0) /\ UNCHANGED calls /\ UNCHANGED <<shown, alone>>
      /\ "log" \in Tables /\ 0 \in Calls \cup {0}
  BY DEF Refresh, Tables
<1>2. /\ loads' \in [Tables -> Seq(Loading)]
      /\ \A s \in Tables \ {"log"} : loads'[s] = loads[s]
      /\ Fresh("log")'
  BY <1>1, Begun
<1>3. \A s \in Tables : Covering(s)' = Covering(s)
  BY <1>1 DEF calls, Covering, Told, Placed, Effects, Table, Limit
<1>4. ASSUME NEW s \in Tables \ {"log"} PROVE Fresh(s)'
  BY <1>1, <1>2, <1>3, FreshAsBefore DEF Current
<1>5. shown' \in [Tables -> SUBSET Calls] /\ alone' \in [Tables -> BOOLEAN]
  BY <1>1 DEF Current
<1> QED
  BY <1>1, <1>2, <1>4, <1>5, CurrentLoads

\* A load that is answered or shown.
LEMMA CurrentArrived == ASSUME Current, Talk', Arrives PROVE Current'
<1>1. PICK t \in Tables : \E n \in DOMAIN loads[t] : LoadAnswered(t, n) \/ Show(t, n)
  BY DEF Arrives
<1>2. PICK n \in DOMAIN loads[t] : LoadAnswered(t, n) \/ Show(t, n)
  BY <1>1
<1>3. CASE LoadAnswered(t, n)
  <2>1. UNCHANGED calls /\ UNCHANGED <<shown, alone>>
    BY <1>3 DEF LoadAnswered
  <2>2. shown' \in [Tables -> SUBSET Calls] /\ alone' \in [Tables -> BOOLEAN]
    BY <2>1 DEF Current
  <2> QED
    BY <1>3, <2>1, <2>2, FreshAnswered, CurrentLoads
<1>4. CASE Show(t, n)
  <2>1. UNCHANGED calls
    BY <1>4 DEF Show
  <2> QED
    BY <1>4, <2>1, FreshShown, CurrentLoads
<1> QED
  BY <1>2, <1>3, <1>4

\* Every step keeps the tables current.
LEMMA CurrentStep == ASSUME Current, [Next]_vars PROVE Current'
<1> USE DEF tables
<1>0. Talk /\ Talk'
  BY TalkStep DEF Current
<1>1. CASE Loaded \/ LoadThrows \/ Clear \/ (\E i \in Calls : Delta(i)) \/ UNCHANGED vars
  <2>1. UNCHANGED calls /\ UNCHANGED <<loads, shown, alone>>
    BY <1>1 DEF Loaded, LoadThrows, Clear, Delta, vars
  <2>2. /\ heard' = heard /\ gateway' = gateway /\ kind' = kind /\ reply' = reply
        /\ after' = after
    BY <2>1 DEF calls
  <2>3. \A i \in Calls : Agreed(i)'
    BY <2>2 DEF Current, Agreed
  <2>4. /\ gateway' \in [Calls -> {"idle", "working", "answered", "done", "void"}]
        /\ after' \in [Calls -> SUBSET Calls]
    BY <2>2 DEF Current
  <2> QED
    BY <1>0, <2>1, <2>2, <2>3, <2>4, CurrentElsewhere
<1>2. CASE Refresh
  BY <1>0, <1>2, CurrentRefreshed
<1>3. CASE Arrives
  BY <1>0, <1>3, CurrentArrived
<1>4. ASSUME NEW i \in Calls, User(i) PROVE Current'
  <2>1. /\ \E k \in Chats \cup Edits : Make(i, k)
        /\ UNCHANGED <<loads, shown, alone>>
    BY <1>4 DEF User, sendMessage, uploadDocument, deleteDocument, Edits
  <2> QED
    BY <1>0, <2>1, CurrentMade
<1>5. ASSUME NEW i \in Calls, Progress(i) PROVE Current'
  BY <1>0, <1>1, <1>5, CurrentGateway, CurrentAnswered, CurrentEdited DEF Progress
<1> QED
  BY <1>1, <1>2, <1>3, <1>4, <1>5 DEF Next

\* Current is an invariant.
LEMMA StaysCurrent == Spec => []Current
<1> QED
  BY CurrentBegins, CurrentStep, PTL DEF Spec

\* A page that waits for nothing shows what it has been told of, if its last load
\* went well and was alone, but for rows that are too many, the older first: for
\* any number of calls and loads in any order, and any limits.
THEOREM QuietPagesAreCurrent == Spec => []QuietPageIsCurrent
<1>1. ASSUME Current PROVE QuietPageIsCurrent
  <2>1. ASSUME NEW t \in Tables, loads[t] = <<>>, alone[t]
        PROVE  shown[t] \in Covering(t)
    BY <1>1, <2>1 DEF Current, Fresh
  <2>2. ASSUME NEW t \in Tables, shown[t] \in Covering(t), NEW i \in Told(t) \ shown[t]
        PROVE  /\ kind[i] # "delete"
               /\ t \in Shared \/ Cardinality(Placed(t)) > Limit(t)
               /\ after[i] \cap shown[t] \cap Placed(t) = {}
    BY <2>2, Zenon DEF Covering
  <2> QED
    BY <2>1, <2>2, Zenon DEF QuietPageIsCurrent
<1> QED
  BY <1>1, StaysCurrent, PTL
-----------------------------------------------------------------------------
(***************************************************************************)
(* The types, and the buttons.  That a table shows no effect that is not   *)
(* there holds because what a load has seen stays: Effects only grow.      *)
(* DisabledWaits needs the types, and that a load keeps its place in the   *)
(* queue of its table until it is shown.                                   *)
(***************************************************************************)
Real(t) == /\ shown[t] \subseteq Effects(t)
           /\ \A n \in DOMAIN loads[t] : loads[t][n].seen \subseteq Effects(t)

Spoken == /\ \A m \in Range(messages) : kind[m.call] \in Chats
          /\ \A i \in onScreen : kind[i] \in Chats

Controls == /\ stage \in DOMAIN AfterStage \cup {"ready", "dead"}
            /\ acts \in 0..MaxActs
            /\ sendOff \in BOOLEAN
            /\ uploading \in Calls \cup {0}
            /\ uploading # 0 => kind[uploading] = "upload"

Genuine == /\ Current
           /\ Controls
           /\ Spoken
           /\ \A t \in Tables : Real(t)
           /\ DisabledWaits

\* What was done stays done, and what was heard stays heard.
LEMMA DoneStays ==
  ASSUME Current, [Next]_vars, NEW i \in Calls
  PROVE  /\ kind[i] # "none" => kind'[i] = kind[i]
         /\ gateway[i] = "done" => gateway'[i] = "done"
<1>1. CASE UNCHANGED calls
  BY <1>1 DEF calls
<1>2. ASSUME NEW j \in Calls, NEW k \in Chats \cup Edits, Make(j, k)
      PROVE  /\ kind[i] # "none" => kind'[i] = kind[i]
             /\ gateway[i] = "done" => gateway'[i] = "done"
  <2>1. kind[j] = "none" /\ gateway[j] = "idle"
    BY <1>2 DEF Make, Current, Agreed
  <2>2. /\ \A n \in Calls \ {j} : kind'[n] = kind[n] /\ gateway'[n] = gateway[n]
    BY <1>2 DEF Make, Current, Talk
  <2> QED
    BY <2>1, <2>2
<1>3. ASSUME NEW j \in Calls, Ends(j)
      PROVE  kind' = kind /\ gateway' = gateway
  BY <1>3 DEF Ends
<1>4. ASSUME NEW j \in Calls, GatewayAnswers(j) \/ WritesRow(j)
      PROVE  /\ kind' = kind
             /\ gateway[i] = "done" => gateway'[i] = "done"
  <2>1. kind' = kind /\ gateway[j] \in {"working", "answered"}
    BY <1>4 DEF GatewayAnswers, WritesRow, Answers
  <2>2. \A n \in Calls \ {j} : gateway'[n] = gateway[n]
    <3>1. \E g \in {"answered", "done", "void"} : gateway' = [gateway EXCEPT ![j] = g]
      BY <1>4 DEF GatewayAnswers, WritesRow, Answers
    <3> QED
      BY <3>1 DEF Current
  <2> QED
    BY <2>1, <2>2
<1>5. CASE Loaded \/ LoadThrows \/ Clear \/ Refresh \/ Arrives \/ UNCHANGED vars
  <2>1. UNCHANGED calls
    BY <1>5 DEF Loaded, LoadThrows, Clear, Refresh, Arrives, LoadAnswered, Show, vars
  <2> QED
    BY <1>1, <2>1
<1>6. ASSUME NEW j \in Calls, User(j)
      PROVE  \E k \in Chats \cup Edits : Make(j, k)
  BY <1>6 DEF User, sendMessage, uploadDocument, deleteDocument, Edits
<1>7. ASSUME NEW j \in Calls, Progress(j)
      PROVE  GatewayAnswers(j) \/ WritesRow(j) \/ Ends(j) \/ UNCHANGED calls
  BY <1>7 DEF Progress, Delta, Answered, Edited
<1> QED
  BY <1>1, <1>2, <1>3, <1>4, <1>5, <1>6, <1>7 DEF Next

\* No effect is lost.
LEMMA EffectsStay ==
  ASSUME Current, [Next]_vars, NEW t \in Tables
  PROVE  Effects(t) \subseteq Effects(t)'
<1> SUFFICES ASSUME NEW i \in Calls, gateway[i] = "done", Table(kind[i]) = t
             PROVE  gateway'[i] = "done" /\ Table(kind'[i]) = t
  BY DEF Effects, Table
<1>1. kind[i] # "none"
  BY DEF Current, Agreed
<1> QED
  BY <1>1, DoneStays

-----------------------------------------------------------------------------
\* What the user does is counted.
LEMMA Counted ==
  ASSUME acts \in 0..MaxActs, Act
  PROVE  acts' \in 0..MaxActs
BY PageAssumption DEF Act

\* The stage, the count and the buttons.
LEMMA ControlsStep ==
  ASSUME Genuine, [Next]_vars
  PROVE  Controls'
<1>0. /\ Controls /\ Current
      /\ \A i \in Calls : kind[i] # "none" => kind'[i] = kind[i]
  BY DoneStays DEF Genuine
<1>1. ASSUME uploading' \in {uploading, 0}
      PROVE  /\ uploading' \in Calls \cup {0}
             /\ uploading' # 0 => kind'[uploading'] = "upload"
  BY <1>0, <1>1 DEF Controls
<1>2. CASE Loaded \/ LoadThrows
  <2>1. UNCHANGED <<acts, sendOff, uploading>>
    BY <1>2 DEF Loaded, LoadThrows, chat, tables
  <2>2. stage' \in DOMAIN AfterStage \cup {"ready", "dead"}
    BY <1>2 DEF Loaded, LoadThrows, AfterStage
  <2> QED
    BY <1>0, <1>1, <2>1, <2>2 DEF Controls
<1>3. CASE Clear \/ Refresh
  <2>1. Act /\ UNCHANGED <<stage, sendOff, uploading>>
    BY <1>3 DEF Clear, Refresh, chat, tables
  <2>2. acts' \in 0..MaxActs
    BY <1>0, <2>1, Counted DEF Controls
  <2> QED
    BY <1>0, <1>1, <2>1, <2>2 DEF Controls
<1>4. CASE Arrives
  <2>1. UNCHANGED <<stage, acts, sendOff>> /\ uploading' \in {uploading, 0}
    BY <1>4 DEF Arrives, LoadAnswered, Show, chat
  <2> QED
    BY <1>0, <1>1, <2>1 DEF Controls
<1>5. ASSUME NEW i \in Calls, User(i) PROVE Controls'
  <2>1. Act /\ UNCHANGED stage
    BY <1>5 DEF User, sendMessage, uploadDocument, deleteDocument, Make
  <2>2. acts' \in 0..MaxActs
    BY <1>0, <2>1, Counted DEF Controls
  <2>3. sendOff' \in BOOLEAN
    BY <1>0, <1>5 DEF User, sendMessage, uploadDocument, deleteDocument, chat, Controls
  <2>4. CASE uploadDocument(i)
    <3>1. uploading' = i /\ kind' = [kind EXCEPT ![i] = "upload"]
      BY <2>4 DEF uploadDocument, Make
    <3>2. kind'[i] = "upload"
      BY <1>0, <3>1 DEF Current, Talk
    <3> QED
      BY <1>0, <2>1, <2>2, <2>3, <3>1, <3>2 DEF Controls
  <2>5. CASE sendMessage(i) \/ deleteDocument(i)
    <3>1. uploading' = uploading
      BY <2>5 DEF sendMessage, deleteDocument, tables
    <3> QED
      BY <1>0, <1>1, <2>1, <2>2, <2>3, <3>1 DEF Controls
  <2> QED
    BY <1>5, <2>4, <2>5 DEF User
<1>6. ASSUME NEW i \in Calls, Progress(i) PROVE Controls'
  <2>1. UNCHANGED <<stage, acts>> /\ uploading' \in {uploading, 0}
    BY <1>6 DEF Progress, GatewayAnswers, WritesRow, Answers, Delta, Answered, Edited, Ends, tables
  <2>2. sendOff' \in BOOLEAN
    BY <1>0, <1>6 DEF Progress, GatewayAnswers, WritesRow, Answers, Delta, Answered, Edited, chat,
                      Controls
  <2> QED
    BY <1>0, <1>1, <2>1, <2>2 DEF Controls
<1>7. CASE UNCHANGED vars
  BY <1>0, <1>1, <1>7 DEF vars, chat, tables, Controls
<1> QED
  BY <1>2, <1>3, <1>4, <1>5, <1>6, <1>7 DEF Next

\* Only chats are spoken of.
LEMMA SpokenStep ==
  ASSUME Genuine, [Next]_vars
  PROVE  Spoken'
<1>0. /\ Spoken /\ messages \in Seq(Turns) /\ onScreen \subseteq Calls
      /\ \A i \in Calls : kind[i] # "none" => kind'[i] = kind[i]
      /\ Range(messages) \subseteq Turns
  BY DoneStays, TurnsOf DEF Genuine, Current, Talk
<1>1. /\ \A m \in Range(messages) : m.call \in Calls /\ kind'[m.call] \in Chats
      /\ \A i \in onScreen : kind'[i] \in Chats
  BY <1>0 DEF Spoken, Turns, Chats
<1>2. ASSUME NEW i \in Calls, NEW r \in {"user", "assistant"}, kind'[i] \in Chats,
             messages' = Append(messages, Message(r, i))
      PROVE  \A m \in Range(messages') : kind'[m.call] \in Chats
  <2>1. Message(r, i) \in Turns /\ Message(r, i).call = i
    BY Turn
  <2>2. Range(messages') = Range(messages) \cup {Message(r, i)}
    BY <1>0, <1>2, <2>1, AppendTurn
  <2> QED
    BY <1>1, <1>2, <2>1, <2>2
<1>3. CASE UNCHANGED <<messages, onScreen>>
  BY <1>1, <1>3 DEF Spoken
<1>4. CASE Loaded \/ LoadThrows \/ Refresh \/ Arrives \/ UNCHANGED vars
  <2>1. UNCHANGED <<messages, onScreen>>
    BY <1>4 DEF Loaded, LoadThrows, Refresh, Arrives, LoadAnswered, Show, vars, chat
  <2> QED
    BY <1>3, <2>1
<1>5. CASE Clear
  <2>1. messages' = <<>> /\ onScreen' = {}
    BY <1>5 DEF Clear
  <2>2. Range(messages') = {}
    BY <2>1 DEF Range
  <2> QED
    BY <2>1, <2>2 DEF Spoken
<1>6. ASSUME NEW i \in Calls, User(i) PROVE Spoken'
  <2>1. CASE sendMessage(i)
    <3>1. kind'[i] \in Chats
      BY <2>1 DEF sendMessage, Make, Genuine, Current, Talk
    <3>2. messages' = Append(messages, Message("user", i)) /\ onScreen' = onScreen \cup {i}
      BY <2>1 DEF sendMessage
    <3> QED
      BY <1>1, <1>2, <3>1, <3>2 DEF Spoken
  <2>2. CASE uploadDocument(i) \/ deleteDocument(i)
    <3>1. UNCHANGED <<messages, onScreen>>
      BY <2>2 DEF uploadDocument, deleteDocument, chat
    <3> QED
      BY <1>3, <3>1
  <2> QED
    BY <1>6, <2>1, <2>2 DEF User
<1>7. ASSUME NEW i \in Calls, Progress(i) PROVE Spoken'
  <2>1. CASE Answered(i)
    <3>1. kind[i] \in Chats /\ kind' = kind /\ onScreen' = onScreen
      BY <2>1 DEF Answered, Ends
    <3>2. \/ messages' = messages
          \/ messages' = Append(messages, Message("assistant", i))
      BY <2>1 DEF Answered
    <3> QED
      BY <1>1, <1>2, <3>1, <3>2 DEF Spoken
  <2>2. CASE GatewayAnswers(i) \/ WritesRow(i) \/ Delta(i) \/ Edited(i)
    <3>1. UNCHANGED <<messages, onScreen>>
      BY <2>2 DEF GatewayAnswers, WritesRow, Answers, Delta, Edited, chat
    <3> QED
      BY <1>3, <3>1
  <2> QED
    BY <1>7, <2>1, <2>2 DEF Progress
<1> QED
  BY <1>4, <1>5, <1>6, <1>7 DEF Next

-----------------------------------------------------------------------------
\* A load that begins has seen nothing, and goes behind the others.
LEMMA BegunBehind ==
  ASSUME Current, NEW t \in Tables, NEW i \in Calls \cup {0}, Begin(t, i)
  PROVE  /\ \A n \in DOMAIN loads'[t] :
                \/ loads'[t][n].seen = {}
                \/ \E m \in DOMAIN loads[t] : loads'[t][n].seen = loads[t][m].seen
         /\ \A m \in DOMAIN loads[t] :
                \E n \in DOMAIN loads'[t] : loads'[t][n].for = loads[t][m].for
         /\ \E n \in DOMAIN loads'[t] : loads'[t][n].for = i
<1> DEFINE L == loads[t]
           O == [n \in DOMAIN L |-> [L[n] EXCEPT !.single = FALSE]]
           N == Load(L = <<>>, i)
<1>1. loads' = [loads EXCEPT ![t] = Append(O, N)]
  BY DEF Begin
<1>2. /\ Len(L) \in Nat /\ DOMAIN L = 1..Len(L)
      /\ \A n \in 1..Len(L) : L[n] \in Loading
  BY DEF Current
<1>3. O \in Seq(Loading) /\ Len(O) = Len(L)
  <2>1. \A n \in 1..Len(L) : [L[n] EXCEPT !.single = FALSE] \in Loading
    BY <1>2, LoadChanged
  <2> QED
    BY <1>2, <2>1
<1>4. \A n \in 1..Len(L) : O[n].seen = L[n].seen /\ O[n].for = L[n].for
  BY <1>2 DEF Loading
<1>5. N \in Loading /\ N.seen = {} /\ N.for = i
  BY DEF Load, Loading
<1>6. loads'[t] = Append(O, N)
  BY <1>1 DEF Current
<1> HIDE DEF O, N, L
<1>7. /\ DOMAIN Append(O, N) = 1..(Len(L) + 1)
      /\ Append(O, N)[Len(L) + 1] = N
      /\ \A n \in 1..Len(L) : Append(O, N)[n] = O[n]
  BY <1>2, <1>3, <1>5
<1>8. ASSUME NEW n \in 1..(Len(L) + 1)
      PROVE  \/ Append(O, N)[n].seen = {}
             \/ \E m \in 1..Len(L) : Append(O, N)[n].seen = L[m].seen
  <2>1. n = Len(L) + 1 \/ n \in 1..Len(L)
    BY <1>2
  <2> QED
    BY <1>4, <1>5, <1>7, <2>1
<1>9. ASSUME NEW m \in 1..Len(L)
      PROVE  \E n \in 1..(Len(L) + 1) : Append(O, N)[n].for = L[m].for
  <2>1. m \in 1..(Len(L) + 1)
    BY <1>2
  <2> QED
    BY <1>4, <1>7, <2>1
<1>10. Len(L) + 1 \in 1..(Len(L) + 1)
  BY <1>2
<1> DEFINE A == Append(O, N)
<1>11. /\ loads'[t] = A /\ DOMAIN A = 1..(Len(L) + 1) /\ loads[t] = L
       /\ \A n \in 1..(Len(L) + 1) : \/ A[n].seen = {}
                                     \/ \E m \in 1..Len(L) : A[n].seen = L[m].seen
       /\ \A m \in 1..Len(L) : \E n \in 1..(Len(L) + 1) : A[n].for = L[m].for
       /\ A[Len(L) + 1].for = i
  BY <1>5, <1>6, <1>7, <1>8, <1>9 DEF L
<1> HIDE DEF A
<1>12. DOMAIN loads[t] = 1..Len(L) /\ DOMAIN loads'[t] = 1..(Len(L) + 1)
  BY <1>2, <1>11
<1> QED
  BY <1>10, <1>11, <1>12

\* The answer to a load has what is done, and the load keeps its place.
LEMMA AnsweredInPlace ==
  ASSUME Current, NEW t \in Tables, NEW n \in DOMAIN loads[t], LoadAnswered(t, n)
  PROVE  /\ DOMAIN loads'[t] = DOMAIN loads[t]
         /\ \A s \in Tables \ {t} : loads'[s] = loads[s]
         /\ \A k \in DOMAIN loads[t] :
                /\ \/ loads'[t][k].seen = loads[t][k].seen
                   \/ loads'[t][k].seen \subseteq Effects(t)
                /\ loads'[t][k].for = loads[t][k].for
<1> DEFINE L == loads[t]
<1>0. L[n] \in Loading
  BY DEF Current
<1>1. PICK e : /\ loads' = [loads EXCEPT ![t] = [L EXCEPT ![n] = e]]
               /\ e.seen = L[n].seen \/ e.seen \subseteq Effects(t)
               /\ e.for = L[n].for
  <2>1. ASSUME NEW S \in SUBSET Effects(t),
               loads' = [loads EXCEPT ![t][n].state = "ok", ![t][n].seen = S]
        PROVE  \E e : /\ loads' = [loads EXCEPT ![t] = [L EXCEPT ![n] = e]]
                      /\ e.seen = L[n].seen \/ e.seen \subseteq Effects(t)
                      /\ e.for = L[n].for
    <3> DEFINE e == [L[n] EXCEPT !.state = "ok", !.seen = S]
    <3>1. e.seen = S /\ e.for = L[n].for
      BY <1>0 DEF Loading
    <3>2. loads' = [loads EXCEPT ![t] = [L EXCEPT ![n] = e]]
      BY <2>1 DEF Current
    <3> QED
      BY <3>1, <3>2
  <2>2. CASE loads' = [loads EXCEPT ![t][n].state = "failed"]
    <3> DEFINE e == [L[n] EXCEPT !.state = "failed"]
    <3>1. e.seen = L[n].seen /\ e.for = L[n].for
      BY <1>0 DEF Loading
    <3>2. loads' = [loads EXCEPT ![t] = [L EXCEPT ![n] = e]]
      BY <2>2
    <3> QED
      BY <3>1, <3>2
  <2>3. Listed(t) \subseteq SUBSET Effects(t)
    BY DEF Listed
  <2> QED
    BY <2>1, <2>2, <2>3 DEF LoadAnswered
<1>2. /\ loads'[t] = [L EXCEPT ![n] = e]
      /\ \A s \in Tables \ {t} : loads'[s] = loads[s]
  BY <1>1 DEF Current
<1>3. /\ DOMAIN loads'[t] = DOMAIN L
      /\ \A k \in DOMAIN L : loads'[t][k] = IF k = n THEN e ELSE L[k]
  BY <1>2
<1>4. ASSUME NEW k \in DOMAIN L
      PROVE  /\ loads'[t][k].seen = L[k].seen \/ loads'[t][k].seen \subseteq Effects(t)
             /\ loads'[t][k].for = L[k].for
  <2>1. CASE k = n
    BY <1>1, <1>3, <2>1
  <2>2. CASE k # n
    BY <1>3, <2>2
  <2> QED
    BY <2>1, <2>2
<1> QED
  BY <1>2, <1>3, <1>4

\* RemoveAt takes no other element away.
LEMMA OthersRemain ==
  ASSUME NEW S, NEW s \in Seq(S), NEW n \in 1..Len(s), NEW j \in 1..Len(s), j # n
  PROVE  \E k \in 1..(Len(s) - 1) : RemoveAt(s, n)[k] = s[j]
<1> DEFINE a == SubSeq(s, 1, n - 1)
           b == SubSeq(s, n + 1, Len(s))
<1>1. Len(s) \in Nat /\ n \in Nat /\ 1 <= n /\ n <= Len(s) /\ j \in Nat /\ 1 <= j /\ j <= Len(s)
  OBVIOUS
<1>2. \A k \in 1..Len(s) : s[k] \in S
  OBVIOUS
<1>3. /\ a \in Seq(S) /\ Len(a) = n - 1
      /\ \A k \in 1..(n - 1) : a[k] = s[k]
  <2>1. \A k \in 1..(n - 1) : s[k] \in S
    BY <1>1, <1>2
  <2>2. /\ SubSeq(s, 1, n - 1) \in Seq(S)
        /\ Len(SubSeq(s, 1, n - 1)) = IF 1 <= n - 1 THEN (n - 1) - 1 + 1 ELSE 0
        /\ \A k \in 1..((n - 1) - 1 + 1) : SubSeq(s, 1, n - 1)[k] = s[1 + k - 1]
    BY <1>1, <2>1, SubSeqProperties
  <2> QED
    BY <1>1, <2>2
<1>4. /\ b \in Seq(S) /\ Len(b) = Len(s) - n
      /\ \A k \in 1..(Len(s) - n) : b[k] = s[n + k]
  <2>1. \A k \in (n + 1)..Len(s) : s[k] \in S
    BY <1>1, <1>2
  <2>2. /\ SubSeq(s, n + 1, Len(s)) \in Seq(S)
        /\ Len(SubSeq(s, n + 1, Len(s))) = IF n + 1 <= Len(s) THEN Len(s) - (n + 1) + 1 ELSE 0
        /\ \A k \in 1..(Len(s) - (n + 1) + 1) : SubSeq(s, n + 1, Len(s))[k] = s[(n + 1) + k - 1]
    BY <1>1, <2>1, SubSeqProperties
  <2> QED
    BY <1>1, <2>2
<1>5. \A k \in 1..(Len(a) + Len(b)) :
          (a \o b)[k] = IF k <= Len(a) THEN a[k] ELSE b[k - Len(a)]
  BY <1>3, <1>4, ConcatProperties
<1>6. RemoveAt(s, n) = a \o b
  BY DEF RemoveAt
<1> HIDE DEF a, b
<1>7. CASE j < n
  <2>1. j \in 1..(Len(s) - 1) /\ j \in 1..(n - 1) /\ j \in 1..(Len(a) + Len(b)) /\ j <= Len(a)
    BY <1>1, <1>3, <1>4, <1>7
  <2>2. (a \o b)[j] = a[j]
    BY <1>5, <2>1
  <2>3. a[j] = s[j]
    BY <1>3, <2>1
  <2> QED
    BY <1>6, <2>1, <2>2, <2>3, Zenon
<1>8. CASE j > n
  <2>1. /\ j - 1 \in 1..(Len(s) - 1) /\ j - 1 \in 1..(Len(a) + Len(b)) /\ ~(j - 1 <= Len(a))
        /\ (j - 1) - Len(a) = j - n /\ j - n \in 1..(Len(s) - n) /\ n + (j - n) = j
    BY <1>1, <1>3, <1>4, <1>8
  <2>2. (a \o b)[j - 1] = b[(j - 1) - Len(a)]
    BY <1>5, <2>1
  <2>3. b[j - n] = s[n + (j - n)]
    BY <1>4, <2>1
  <2>4. (a \o b)[j - 1] = s[j]
    BY <2>1, <2>2, <2>3
  <2> QED
    BY <1>6, <2>1, <2>4, Zenon
<1> QED
  BY <1>1, <1>7, <1>8

\* The load that is shown leaves, the others stay.
LEMMA ShownLeaves ==
  ASSUME Current, NEW t \in Tables, NEW n \in DOMAIN loads[t], Show(t, n)
  PROVE  /\ \A s \in Tables \ {t} : loads'[s] = loads[s]
         /\ \A k \in DOMAIN loads'[t] : \E j \in DOMAIN loads[t] : loads'[t][k] = loads[t][j]
         /\ \A j \in DOMAIN loads[t] \ {n} :
                \E k \in DOMAIN loads'[t] : loads'[t][k] = loads[t][j]
<1> DEFINE L == loads[t]
<1>1. L \in Seq(Loading) /\ DOMAIN L = 1..Len(L) /\ Len(L) \in Nat
  BY DEF Current
<1>2. /\ loads'[t] = RemoveAt(L, n)
      /\ \A s \in Tables \ {t} : loads'[s] = loads[s]
  BY DEF Show, Current
<1>0. n \in 1..Len(L)
  BY <1>1
<1> HIDE DEF L
<1>3. /\ RemoveAt(L, n) \in Seq(Loading)
      /\ Len(RemoveAt(L, n)) = Len(L) - 1
      /\ \A k \in 1..(Len(L) - 1) : \E j \in 1..Len(L) : RemoveAt(L, n)[k] = L[j]
  <2>1. ASSUME NEW s \in Seq(Loading), NEW m \in 1..Len(s)
        PROVE  /\ RemoveAt(s, m) \in Seq(Loading)
               /\ Len(RemoveAt(s, m)) = Len(s) - 1
               /\ \A k \in 1..(Len(s) - 1) : \E j \in 1..Len(s) : RemoveAt(s, m)[k] = s[j]
    BY Removed
  <2> QED
    BY <1>0, <1>1, <2>1
<1>4. \A j \in 1..Len(L) \ {n} : \E k \in 1..(Len(L) - 1) : RemoveAt(L, n)[k] = L[j]
  <2>1. ASSUME NEW s \in Seq(Loading), NEW m \in 1..Len(s), NEW j \in 1..Len(s), j # m
        PROVE  \E k \in 1..(Len(s) - 1) : RemoveAt(s, m)[k] = s[j]
    BY <2>1, OthersRemain
  <2> QED
    BY <1>0, <1>1, <2>1
<1>5. DOMAIN RemoveAt(L, n) = 1..(Len(L) - 1)
  BY <1>3
<1> QED
  BY <1>1, <1>2, <1>3, <1>4, <1>5 DEF L

\* A table that is left alone stays real.
LEMMA RealAsBefore ==
  ASSUME NEW t \in Tables, Real(t), Effects(t) \subseteq Effects(t)',
         loads'[t] = loads[t], shown'[t] = shown[t]
  PROVE  Real(t)'
<1> DEFINE E == Effects(t)
           L == loads[t]
<1>1. shown[t] \subseteq E /\ \A n \in DOMAIN L : L[n].seen \subseteq E
  BY DEF Real
<1>2. shown[t] \subseteq E' /\ \A n \in DOMAIN L : L[n].seen \subseteq E'
  BY <1>1
<1> QED
  BY <1>2 DEF Real

\* A load that begins has nothing that is not there.
LEMMA RealBegun ==
  ASSUME Current, NEW t \in Tables, NEW i \in Calls \cup {0}, Begin(t, i), shown' = shown,
         \A s \in Tables : Real(s) /\ Effects(s) \subseteq Effects(s)'
  PROVE  \A s \in Tables : Real(s)'
<1>1. \A s \in Tables \ {t} : Real(s)'
  BY Begun, RealAsBefore
<1> DEFINE E == Effects(t)
<1>2. shown[t] \subseteq E /\ \A n \in DOMAIN loads[t] : loads[t][n].seen \subseteq E
  BY DEF Real
<1>3. E \subseteq E'
  OBVIOUS
<1>4. \A n \in DOMAIN loads'[t] : loads'[t][n].seen \subseteq E'
  BY <1>2, <1>3, BegunBehind
<1>5. Real(t)'
  BY <1>2, <1>3, <1>4 DEF Real
<1> QED
  BY <1>1, <1>5

\* A table shows no effect that is not there, and no load has seen one.
LEMMA RealStep ==
  ASSUME Genuine, [Next]_vars
  PROVE  \A t \in Tables : Real(t)'
<1>0. /\ Current
      /\ \A t \in Tables : Real(t) /\ Effects(t) \subseteq Effects(t)'
  BY EffectsStay DEF Genuine
<1>1. CASE UNCHANGED <<loads, shown>>
  BY <1>0, <1>1, RealAsBefore
<1>2. ASSUME NEW t \in Tables, NEW i \in Calls \cup {0}, Begin(t, i), shown' = shown
      PROVE  \A s \in Tables : Real(s)'
  BY <1>0, <1>2, RealBegun
<1>3. CASE Loaded \/ LoadThrows \/ Clear \/ UNCHANGED vars
  BY <1>1, <1>3 DEF Loaded, LoadThrows, Clear, vars, tables
<1>4. CASE Refresh
  BY <1>2, <1>4 DEF Refresh, Tables
<1>5. ASSUME NEW t \in Tables, NEW n \in DOMAIN loads[t], LoadAnswered(t, n)
      PROVE  \A s \in Tables : Real(s)'
  <2>1. shown' = shown
    BY <1>5 DEF LoadAnswered
  <2>2. \A s \in Tables \ {t} : Real(s)'
    BY <1>0, <1>5, <2>1, AnsweredInPlace, RealAsBefore
  <2> DEFINE E == Effects(t)
  <2>3. E \subseteq E' /\ shown[t] \subseteq E /\ \A k \in DOMAIN loads[t] : loads[t][k].seen \subseteq E
    BY <1>0 DEF Real
  <2>4. \A k \in DOMAIN loads'[t] : loads'[t][k].seen \subseteq E'
    BY <1>0, <1>5, <2>3, AnsweredInPlace
  <2>5. Real(t)'
    BY <2>1, <2>3, <2>4 DEF Real
  <2> QED
    BY <2>2, <2>5
<1>6. ASSUME NEW t \in Tables, NEW n \in DOMAIN loads[t], Show(t, n)
      PROVE  \A s \in Tables : Real(s)'
  <2> DEFINE E == Effects(t)
  <2>1. E \subseteq E' /\ shown[t] \subseteq E /\ \A k \in DOMAIN loads[t] : loads[t][k].seen \subseteq E
    BY <1>0 DEF Real
  <2>2. /\ \A s \in Tables \ {t} : shown'[s] = shown[s]
        /\ shown'[t] \subseteq E
    <3>1. \E s \in SUBSET E : shown' = [shown EXCEPT ![t] = s]
      BY <1>6, <2>1 DEF Show
    <3> QED
      BY <1>0, <3>1 DEF Current
  <2>3. \A s \in Tables \ {t} : Real(s)'
    BY <1>0, <1>6, <2>2, ShownLeaves, RealAsBefore
  <2>4. \A k \in DOMAIN loads'[t] : loads'[t][k].seen \subseteq E'
    BY <1>0, <1>6, <2>1, ShownLeaves
  <2>5. Real(t)'
    BY <2>1, <2>2, <2>4 DEF Real
  <2> QED
    BY <2>3, <2>5
<1>7. ASSUME NEW i \in Calls, User(i) PROVE \A t \in Tables : Real(t)'
  BY <1>1, <1>7 DEF User, sendMessage, uploadDocument, deleteDocument, tables
<1>8. ASSUME NEW i \in Calls, Progress(i) PROVE \A t \in Tables : Real(t)'
  <2>1. CASE GatewayAnswers(i) \/ WritesRow(i) \/ Delta(i)
    BY <1>1, <2>1 DEF GatewayAnswers, WritesRow, Answers, Delta, tables
  <2>2. CASE Answered(i)
    BY <1>2, <2>2 DEF Answered, Tables
  <2>3. CASE Edited(i)
    BY <1>1, <1>2, <2>3 DEF Edited, Tables
  <2> QED
    BY <1>8, <2>1, <2>2, <2>3 DEF Progress
<1> QED
  BY <1>3, <1>4, <1>5, <1>6, <1>7, <1>8 DEF Next, Arrives

-----------------------------------------------------------------------------
SendWaits == sendOff => \E i \in Calls : kind[i] \in Chats /\ heard[i] = "none"

UploadWaits ==
    uploading # 0 => \/ heard[uploading] = "none"
                     \/ \E n \in DOMAIN loads["documents"] :
                            loads["documents"][n].for = uploading

\* Send is disabled by a chat, which has not been heard of, and enabled by any.
LEMMA SendStep ==
  ASSUME Genuine, [Next]_vars
  PROVE  SendWaits'
<1>0. SendWaits /\ Current /\ Talk
  BY DEF Genuine, DisabledWaits, SendWaits, Current
<1>1. CASE UNCHANGED <<sendOff, kind, heard>>
  BY <1>0, <1>1 DEF SendWaits
<1>2. CASE Loaded \/ LoadThrows \/ Clear \/ Refresh \/ Arrives \/ UNCHANGED vars
  <2>1. UNCHANGED <<sendOff, kind, heard>>
    BY <1>2 DEF Loaded, LoadThrows, Clear, Refresh, Arrives, LoadAnswered, Show, vars, chat, calls
  <2> QED
    BY <1>1, <2>1
<1>3. ASSUME NEW i \in Calls, User(i) PROVE SendWaits'
  <2>1. PICK k \in Chats \cup Edits : Make(i, k) /\ (sendMessage(i) => k \in Chats)
    BY <1>3 DEF User, sendMessage, uploadDocument, deleteDocument, Edits
  <2>2. /\ kind[i] = "none" /\ heard' = heard /\ kind'[i] = k
        /\ \A j \in Calls \ {i} : kind'[j] = kind[j]
    BY <1>0, <2>1, NewCall
  <2>3. CASE sendMessage(i)
    <3>1. heard'[i] = "none"
      BY <1>0, <2>2 DEF Talk, Answer
    <3> QED
      BY <2>1, <2>2, <2>3, <3>1 DEF SendWaits
  <2>4. CASE ~sendMessage(i)
    <3>1. sendOff' = sendOff
      BY <1>3, <2>4 DEF User, uploadDocument, deleteDocument, chat
    <3>2. ASSUME sendOff
          PROVE  \E j \in Calls : kind'[j] \in Chats /\ heard'[j] = "none"
      <4>1. PICK j \in Calls : kind[j] \in Chats /\ heard[j] = "none"
        BY <1>0, <3>2 DEF SendWaits
      <4>2. j # i
        BY <2>2, <4>1 DEF Chats
      <4> QED
        BY <2>2, <4>1, <4>2
    <3> QED
      BY <3>1, <3>2 DEF SendWaits
  <2> QED
    BY <2>3, <2>4
<1>4. ASSUME NEW i \in Calls, Progress(i) PROVE SendWaits'
  <2>1. CASE GatewayAnswers(i) \/ WritesRow(i) \/ Delta(i)
    BY <1>1, <2>1 DEF GatewayAnswers, WritesRow, Answers, Delta, chat, calls
  <2>2. CASE Answered(i)
    BY <2>2 DEF Answered, SendWaits
  <2>3. CASE Edited(i)
    <3>1. /\ sendOff' = sendOff /\ kind' = kind /\ kind[i] \notin Chats
          /\ \A j \in Calls \ {i} : heard'[j] = heard[j]
      BY <1>0, <2>3, CallEnds DEF Edited, chat, Chats, Edits
    <3> QED
      BY <1>0, <3>1 DEF SendWaits
  <2> QED
    BY <1>4, <2>1, <2>2, <2>3 DEF Progress
<1> QED
  BY <1>2, <1>3, <1>4 DEF Next

\* Upload is disabled by an upload, and enabled by its end or by its load.
LEMMA UploadStep ==
  ASSUME Genuine, [Next]_vars
  PROVE  UploadWaits'
<1> DEFINE D == loads["documents"]
<1>0. UploadWaits /\ Current /\ Talk /\ Controls /\ "documents" \in Tables
  BY DEF Genuine, DisabledWaits, UploadWaits, Current, Tables
<1>1. CASE uploading' = 0
  BY <1>1 DEF UploadWaits
<1>2. CASE /\ uploading' = uploading
           /\ uploading # 0 => heard'[uploading] = heard[uploading]
           /\ \A n \in DOMAIN D : D[n].for = uploading =>
                  \E m \in DOMAIN D' : D'[m].for = D[n].for
  BY <1>0, <1>2 DEF UploadWaits
<1>3. CASE Loaded \/ LoadThrows \/ Clear \/ UNCHANGED vars
  <2>1. UNCHANGED <<uploading, loads, heard>>
    BY <1>3 DEF Loaded, LoadThrows, Clear, vars, tables, calls
  <2> QED
    BY <1>2, <2>1
<1>4. CASE Refresh
  <2>1. /\ UNCHANGED <<uploading, heard>> /\ Begin("log", 0)
        /\ "log" \in Tables /\ 0 \in Calls \cup {0} /\ "log" # "documents"
    BY <1>4 DEF Refresh, calls, Tables
  <2>2. D' = D
    BY <1>0, <2>1, Begun
  <2> QED
    BY <1>2, <2>1, <2>2
<1>5. ASSUME NEW t \in Tables, NEW n \in DOMAIN loads[t], LoadAnswered(t, n)
      PROVE  UploadWaits'
  <2>1. UNCHANGED <<uploading, heard>>
    BY <1>5 DEF LoadAnswered, calls
  <2>2. \A k \in DOMAIN D : k \in DOMAIN D' /\ D'[k].for = D[k].for
    BY <1>0, <1>5, AnsweredInPlace
  <2> QED
    BY <1>2, <2>1, <2>2
<1>6. ASSUME NEW t \in Tables, NEW n \in DOMAIN loads[t], Show(t, n)
      PROVE  UploadWaits'
  <2>1. CASE loads[t][n].for = uploading
    BY <1>1, <1>6, <2>1 DEF Show
  <2>2. CASE loads[t][n].for # uploading
    <3>1. uploading' = uploading /\ heard' = heard
      BY <1>6, <2>2 DEF Show, calls
    <3>2. ASSUME NEW j \in DOMAIN D, D[j].for = uploading
          PROVE  \E m \in DOMAIN D' : D'[m].for = D[j].for
      <4>1. CASE t = "documents"
        <5>1. j # n
          BY <2>2, <3>2, <4>1
        <5>2. \E m \in DOMAIN D' : D'[m] = D[j]
          BY <1>0, <1>6, <4>1, <5>1, ShownLeaves
        <5> QED
          BY <5>2
      <4>2. CASE t # "documents"
        BY <1>0, <1>6, <4>2, ShownLeaves
      <4> QED
        BY <4>1, <4>2
    <3> QED
      BY <1>2, <3>1, <3>2
  <2> QED
    BY <2>1, <2>2
<1>7. ASSUME NEW i \in Calls, User(i) PROVE UploadWaits'
  <2>1. PICK k \in Chats \cup Edits : Make(i, k)
    BY <1>7 DEF User, sendMessage, uploadDocument, deleteDocument, Edits
  <2>2. kind[i] = "none" /\ heard' = heard
    BY <1>0, <2>1, NewCall
  <2>3. loads' = loads
    BY <1>7 DEF User, sendMessage, uploadDocument, deleteDocument, tables
  <2>4. CASE uploadDocument(i)
    <3>1. uploading' = i /\ heard'[i] = "none"
      BY <1>0, <2>2, <2>4 DEF uploadDocument, Talk, Answer
    <3> QED
      BY <3>1 DEF UploadWaits
  <2>5. CASE sendMessage(i) \/ deleteDocument(i)
    <3>1. uploading' = uploading
      BY <2>5 DEF sendMessage, deleteDocument, tables
    <3> QED
      BY <1>2, <2>2, <2>3, <3>1
  <2> QED
    BY <1>7, <2>4, <2>5 DEF User
<1>8. ASSUME NEW i \in Calls, Progress(i) PROVE UploadWaits'
  <2>1. CASE GatewayAnswers(i) \/ WritesRow(i) \/ Delta(i)
    BY <1>2, <2>1 DEF GatewayAnswers, WritesRow, Answers, Delta, tables, calls
  <2>2. CASE Answered(i)
    <3>1. /\ uploading' = uploading /\ kind[i] \in Chats /\ Begin("log", i)
          /\ "log" \in Tables /\ "log" # "documents" /\ i \in Calls \cup {0}
          /\ \A j \in Calls \ {i} : heard'[j] = heard[j]
      BY <1>0, <2>2, CallEnds DEF Answered, Tables
    <3>2. uploading # 0 => uploading \in Calls \ {i}
      BY <1>0, <3>1 DEF Controls, Chats
    <3>3. D' = D
      BY <1>0, <3>1, Begun
    <3> QED
      BY <1>2, <3>1, <3>2, <3>3
  <2>3. CASE Edited(i)
    <3>1. \A j \in Calls \ {i} : heard'[j] = heard[j]
      BY <1>0, <2>3, CallEnds DEF Edited
    <3>2. CASE heard'[i] = "ok"
      <4>1. uploading' = uploading /\ Begin("documents", i) /\ i \in Calls \cup {0}
        BY <2>3, <3>2 DEF Edited
      <4>2. /\ \A n \in DOMAIN D : \E m \in DOMAIN D' : D'[m].for = D[n].for
            /\ \E m \in DOMAIN D' : D'[m].for = i
        BY <1>0, <4>1, BegunBehind
      <4>3. CASE uploading = i
        BY <4>1, <4>2, <4>3 DEF UploadWaits
      <4>4. CASE uploading # i
        <5>1. uploading # 0 => heard'[uploading] = heard[uploading]
          BY <1>0, <3>1, <4>4 DEF Controls
        <5> QED
          BY <1>2, <4>1, <4>2, <5>1
      <4> QED
        BY <4>3, <4>4
    <3>3. CASE heard'[i] # "ok"
      <4>1. loads' = loads /\ uploading' = IF uploading = i THEN 0 ELSE uploading
        BY <2>3, <3>3 DEF Edited
      <4>2. CASE uploading = i
        BY <1>1, <4>1, <4>2
      <4>3. CASE uploading # i
        <5>1. uploading # 0 => heard'[uploading] = heard[uploading]
          BY <1>0, <3>1, <4>3 DEF Controls
        <5> QED
          BY <1>2, <4>1, <4>3, <5>1
      <4> QED
        BY <4>2, <4>3
    <3> QED
      BY <3>2, <3>3
  <2> QED
    BY <1>8, <2>1, <2>2, <2>3 DEF Progress
<1> QED
  BY <1>3, <1>4, <1>5, <1>6, <1>7, <1>8 DEF Next, Arrives

-----------------------------------------------------------------------------
\* Genuine is an invariant.
LEMMA StaysGenuine == Spec => []Genuine
<1>1. Init => Genuine
  <2> SUFFICES ASSUME Init PROVE Genuine
    OBVIOUS
  <2>1. Current
    BY CurrentBegins
  <2>2. Controls
    <3>1. stage \in DOMAIN AfterStage
      BY DEF Init, AfterStage
    <3>2. MaxActs \in Nat /\ acts = 0 /\ sendOff = FALSE /\ uploading = 0
      BY PageAssumption DEF Init
    <3>3. acts \in 0..MaxActs
      BY <3>2
    <3> QED
      BY <3>1, <3>2, <3>3 DEF Controls
  <2>3. Spoken
    BY DEF Init, Spoken, Range
  <2>4. \A t \in Tables : Real(t)
    BY DEF Init, Real
  <2>5. DisabledWaits
    BY DEF Init, DisabledWaits
  <2> QED
    BY <2>1, <2>2, <2>3, <2>4, <2>5 DEF Genuine
<1>2. ASSUME Genuine, [Next]_vars PROVE Genuine'
  <2>1. Current'
    BY <1>2, CurrentStep DEF Genuine
  <2>2. SendWaits' /\ UploadWaits'
    BY <1>2, SendStep, UploadStep
  <2>3. DisabledWaits'
    BY <2>2, Zenon DEF DisabledWaits, SendWaits, UploadWaits
  <2> QED
    BY <1>2, <2>1, <2>3, ControlsStep, SpokenStep, RealStep DEF Genuine
<1> QED
  BY <1>1, <1>2, PTL DEF Spec

\* The state of the page has its type, for any number of calls: among it, that
\* only chats are in the conversation, and that no table shows what is not there.
THEOREM TypeCorrect == Spec => []TypeOK
<1>1. ASSUME Genuine PROVE TypeOK
  <2>1. /\ Current /\ Talk /\ Controls /\ Spoken
        /\ \A t \in Tables : Real(t)
    BY <1>1 DEF Genuine, Current
  <2>2. \A m \in Range(messages) : m.role \in {"user", "assistant"}
    BY <2>1, TurnsOf DEF Talk, Turns
  <2>3. ASSUME NEW t \in Tables, NEW n \in DOMAIN loads[t]
        PROVE  /\ loads[t][n].state \in {"waiting", "ok", "failed"}
               /\ loads[t][n].single => Len(loads[t]) = 1
    <3>1. loads[t][n] \in Loading
      BY <2>1 DEF Current
    <3> QED
      BY <2>1, <3>1 DEF Loading, Current, Fresh
  <2> QED
    BY <2>1, <2>2, <2>3 DEF TypeOK, Talk, Current, Controls, Spoken, Real
<1> QED
  BY <1>1, StaysGenuine, PTL

\* No button is disabled for good: while one is, something is on its way that
\* will enable it, for any number of calls in any order.
THEOREM ButtonsWait == Spec => []DisabledWaits
<1>1. Genuine => DisabledWaits
  BY DEF Genuine
<1> QED
  BY <1>1, StaysGenuine, PTL
==============================================================================
