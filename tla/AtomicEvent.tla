---------------------------- MODULE AtomicEvent ----------------------------
(***************************************************************************)
(* What Threading::reset_event promises its callers: one flag that set()   *)
(* raises, reset() lowers and a wait either observes raised (consuming it  *)
(* when the event resets itself) or gives up on when its time is over.     *)
(* Mutex and condition variable are not visible here; ResetEvent.tla shows *)
(* that the code implements this specification, and the modules that use   *)
(* an event take it as this flag.                                          *)
(***************************************************************************)
CONSTANT Threads      \* the threads that share the event

VARIABLES autoReset,  \* TRUE for auto_reset_event, FALSE for manual_reset_event
          signal,     \* reset_event::_signal
          outcome     \* what the last wait of a thread returned

vars == <<autoReset, signal, outcome>>

Init == /\ autoReset \in BOOLEAN
        /\ signal \in BOOLEAN
        /\ outcome = [t \in Threads |-> "none"]

Set   == signal' = TRUE /\ UNCHANGED <<autoReset, outcome>>
Reset == signal' = FALSE /\ UNCHANGED <<autoReset, outcome>>

\* A thread starts to wait and has no result yet.
Await(t) == /\ outcome' = [outcome EXCEPT ![t] = "none"]
            /\ UNCHANGED <<autoReset, signal>>

\* The wait ends because the event is signalled.
Pass(t) == /\ signal
           /\ signal' = ~autoReset
           /\ outcome' = [outcome EXCEPT ![t] = "signalled"]
           /\ UNCHANGED autoReset

\* The wait ends because its time is over; the event is then not signalled.
GiveUp(t) == /\ ~signal
             /\ outcome' = [outcome EXCEPT ![t] = "timeout"]
             /\ UNCHANGED <<autoReset, signal>>

Next == \/ Set
        \/ Reset
        \/ \E t \in Threads : Await(t) \/ Pass(t) \/ GiveUp(t)

Spec == Init /\ [][Next]_vars
=============================================================================
