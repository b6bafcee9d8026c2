---------------------------- MODULE RequestReply ----------------------------
(***************************************************************************)
(* What a connection promises to the one thread that uses it: commands are *)
(* answered in the order they were written, each by its own reply and only *)
(* once, until the connection is closed or its stream position is lost.    *)
(* From then on no reply is handed out before it was opened anew.          *)
(***************************************************************************)
EXTENDS Naturals

VARIABLES
    asked,     \* how many commands were written since the connection opened
    answered,  \* how many replies were handed out since then
    last,      \* which command the last reply handed out was the answer to
    broken     \* closed, or of unknown stream position

channel == <<asked, answered, last, broken>>

Init ==
    /\ asked = 0
    /\ answered = 0
    /\ last = 0
    /\ broken = TRUE

\* One command or one batch; nothing is written while replies are due.
Ask ==
    /\ ~broken
    /\ answered = asked
    /\ asked' \in Nat
    /\ asked' > asked
    /\ UNCHANGED <<answered, last, broken>>

\* The next command in line gets its own reply, which may be one to close on.
Answer ==
    /\ ~broken
    /\ answered < asked
    /\ answered' = answered + 1
    /\ last' = answered + 1
    /\ broken' \in BOOLEAN
    /\ UNCHANGED asked

Break ==
    /\ broken' = TRUE
    /\ UNCHANGED <<asked, answered, last>>

Reopen ==
    /\ broken
    /\ broken' = FALSE
    /\ asked' = 0
    /\ answered' = 0
    /\ last' = 0

Next == Ask \/ Answer \/ Break \/ Reopen

Spec == Init /\ [][Next]_channel
=============================================================================
