--------------------------- MODULE MessageOutcome ---------------------------
(***************************************************************************)
(* What message_task::future promises a sender: it is decided once, and it *)
(* says true only of a message that has been written to the connection.    *)
(***************************************************************************)
CONSTANT Messages

VARIABLES future,    \* future[m]: "none" before the send, "pending", "true", "false"
          written    \* the messages that have been written to the connection

vars == <<future, written>>

Init == future = [m \in Messages |-> "none"] /\ written = {}

Send(m) == /\ future[m] = "none"
           /\ future' = [future EXCEPT ![m] = "pending"]
           /\ UNCHANGED written

Write(m) == written' = written \cup {m} /\ UNCHANGED future

Succeed(m) == /\ future[m] = "pending" /\ m \in written
              /\ future' = [future EXCEPT ![m] = "true"]
              /\ UNCHANGED written

\* Failures of any number of messages are decided together when a queue goes.
Fail(ms) == /\ \A m \in ms : future[m] = "pending"
            /\ future' = [m \in Messages |-> IF m \in ms THEN "false" ELSE future[m]]
            /\ UNCHANGED written

Next == \/ \E m \in Messages : Send(m) \/ Write(m) \/ Succeed(m)
        \/ \E ms \in SUBSET Messages : Fail(ms)

Spec == Init /\ [][Next]_vars
=============================================================================
