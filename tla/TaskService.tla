---------------------------- MODULE TaskService -----------------------------
(***************************************************************************)
(* What the task ring and the result slots promise to a client of the      *)
(* vector index worker: a synchronous call.  A client asks, is answered    *)
(* once and as a whole, and returns with the answer to this request.       *)
(***************************************************************************)
EXTENDS Naturals

CONSTANTS
    Client,   \* processes that ask
    Answer    \* what an answer may say

VARIABLES
    busy,     \* whether a client is in the middle of a call
    asked,    \* the number of requests of a client that were accepted
    answer    \* the answer at hand: {} or {[req, says]}

vars == <<busy, asked, answer>>

Init ==
    /\ busy = [c \in Client |-> FALSE]
    /\ asked = [c \in Client |-> 0]
    /\ answer = [c \in Client |-> {}]

Ask(c) ==
    /\ ~busy[c]
    /\ busy' = [busy EXCEPT ![c] = TRUE]
    /\ asked' = [asked EXCEPT ![c] = @ + 1]
    /\ UNCHANGED answer

Reply(c) ==
    /\ busy[c] /\ answer[c] = {}
    /\ \E a \in Answer :
         answer' = [answer EXCEPT ![c] = {[req |-> asked[c], says |-> a]}]
    /\ UNCHANGED <<busy, asked>>

Return(c) ==
    /\ busy[c] /\ answer[c] # {}
    /\ busy' = [busy EXCEPT ![c] = FALSE]
    /\ answer' = [answer EXCEPT ![c] = {}]
    /\ UNCHANGED asked

Next == \E c \in Client : Ask(c) \/ Reply(c) \/ Return(c)

Spec == Init /\ [][Next]_vars

=============================================================================
