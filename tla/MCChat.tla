------------------------------- MODULE MCChat --------------------------------
(***************************************************************************)
(* Constant values for checking ChatHandler.                               *)
(***************************************************************************)
EXTENDS ChatHandler

\* A sound request to provider p; the others are variations of it.
Ask(p, s) == [token |-> TRUE, body |-> "ok", provider |-> p, model |-> NoModel,
              rag |-> FALSE, user |-> TRUE, stream |-> s]

\* Every way through the handler, each for the providers it depends on.
AllShapes ==
    {Ask(p, s) : p \in Kinds \cup {"", "unknown"}, s \in BOOLEAN}
    \cup {[Ask("ollama", s) EXCEPT !.rag = TRUE, !.user = u] : s, u \in BOOLEAN}
    \cup {[Ask("fake", FALSE) EXCEPT !.body = b] : b \in {"malformed", "empty"}}
    \cup {[Ask("fake", TRUE) EXCEPT !.token = FALSE], [Ask("openai", TRUE) EXCEPT !.model = "m2"]}

\* One streamed request of a real provider.
StreamShape == {Ask("ollama", TRUE)}
==============================================================================
