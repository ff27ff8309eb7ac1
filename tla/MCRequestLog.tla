----------------------------- MODULE MCRequestLog -----------------------------
(***************************************************************************)
(* Checking RequestLog: three chats, two of them of the same model, days of *)
(* two milliseconds, limits scaled down from 50 and 500.                    *)
(***************************************************************************)
EXTENDS RequestLog

CONSTANTS c1, c2, c3

TheUsage == [c \in Chats |->
    IF c = c3 THEN [model |-> "unpriced", prompt |-> 5, completion |-> 5]
    ELSE IF c = c2 THEN [model |-> "gpt", prompt |-> 1, completion |-> 2]
    ELSE [model |-> "gpt", prompt |-> 3, completion |-> 0]]

ThePrice == [m \in {"gpt", "local"} |->
    IF m = "gpt" THEN [input |-> 1, output |-> 4] ELSE [input |-> 0, output |-> 0]]

TheLimits == {NoParam, 0, 1, 3}
==============================================================================
