----------------------------- MODULE RequestReply -----------------------------
(* What the plugin may rely on of a call to the helper: the helper serves it at *)
(* most once, and an answer the caller gets is the answer to its own request.   *)
(* A caller that gives up, or whose connection ends, learns nothing: its        *)
(* request may be served before or after that, or never.  IpcSession            *)
(* implements this specification.                                               *)

CONSTANT Calls

VARIABLES call,         \* where a call stands for its caller
          served        \* what the helper did with it

Answers == {"ok", "error"}

CallInit ==
    /\ call = [c \in Calls |-> "idle"]
    /\ served = [c \in Calls |-> "no"]

Ask(c) ==
    /\ call[c] = "idle"
    /\ call' = [call EXCEPT ![c] = "open"]
    /\ UNCHANGED served

Serve(c, r) ==
    /\ call[c] # "idle"
    /\ served[c] = "no"
    /\ served' = [served EXCEPT ![c] = r]
    /\ UNCHANGED call

GetAnswer(c) ==
    /\ call[c] = "open"
    /\ served[c] \in Answers
    /\ call' = [call EXCEPT ![c] = served[c]]
    /\ UNCHANGED served

\* Several calls lose their connection at once.
Lose(C) ==
    /\ \A c \in C : call[c] = "open"
    /\ call' = [c \in Calls |-> IF c \in C THEN "lost" ELSE call[c]]
    /\ UNCHANGED served

CallNext ==
    \/ \E c \in Calls : Ask(c) \/ GetAnswer(c)
    \/ \E c \in Calls, r \in Answers : Serve(c, r)
    \/ \E C \in SUBSET Calls : Lose(C)

CallSpec == CallInit /\ [][CallNext]_<<call, served>>
===============================================================================
