----------------------------- MODULE ResetEvent -----------------------------
(***************************************************************************)
(* Threading::reset_event (Threading/Events.cpp): a flag guarded by a      *)
(* mutex, with a condition variable that is notified AFTER the mutex has   *)
(* been released.  A critical section is one action; a thread between      *)
(* wait()'s predicate check and its wake-up is "asleep" on the condition   *)
(* variable; the moment between set()'s unlock and its notify_all() is a   *)
(* program counter of its own.                                             *)
(***************************************************************************)
CONSTANTS Threads,    \* the threads that share the event
          Timed       \* those whose wait() passes a non-zero timeout

ASSUME EventAssumption == Timed \subseteq Threads

VARIABLES autoReset,  \* _auto_reset: which of the two kinds of event this is
          signal,     \* _signal
          pc,         \* where each thread is in a call of the event
          outcome     \* what its last wait() returned

vars == <<autoReset, signal, pc, outcome>>

Init == /\ autoReset \in BOOLEAN
        /\ signal \in BOOLEAN
        /\ pc = [t \in Threads |-> "idle"]
        /\ outcome = [t \in Threads |-> "none"]

At(t, from, to) == pc[t] = from /\ pc' = [pc EXCEPT ![t] = to]

-----------------------------------------------------------------------------
(* Mutants: plausible slips in the actions below, which a run must notice.  *)

\* notify_all() is forgotten.
NotifyNobody(t) == At(t, "notify", "idle") /\ UNCHANGED <<autoReset, signal, outcome>>

\* notify_one() instead of notify_all().
NotifyOne(t) ==
  /\ pc[t] = "notify"
  /\ \E u \in Threads :
       /\ pc[u] = "asleep" \/ u = t
       /\ pc' = [pc EXCEPT ![t] = "idle", ![u] = IF u = t THEN "idle" ELSE "check"]
  /\ UNCHANGED <<autoReset, signal, outcome>>

\* The wait reports success without looking at the flag again after it woke.
PassBlindly(t) == /\ At(t, "check", "idle")
                  /\ signal' = (signal /\ ~autoReset)
                  /\ outcome' = [outcome EXCEPT ![t] = "signalled"]
                  /\ UNCHANGED autoReset

-----------------------------------------------------------------------------
\* set(): the flag changes under the mutex ...
SetSignal(t) == /\ At(t, "idle", "notify")
                /\ signal' = TRUE
                /\ UNCHANGED <<autoReset, outcome>>

\* ... and every sleeper is notified after the mutex is released.
Notify(t) == /\ pc[t] = "notify"
             /\ pc' = [u \in Threads |-> IF u = t THEN "idle"
                                         ELSE IF pc[u] = "asleep" THEN "check"
                                         ELSE pc[u]]
             /\ UNCHANGED <<autoReset, signal, outcome>>

\* reset()
Reset(t) == /\ pc[t] = "idle"
            /\ signal' = FALSE
            /\ UNCHANGED <<autoReset, pc, outcome>>

\* wait(): the call, before the mutex is acquired.
Wait(t) == /\ At(t, "idle", "check")
           /\ outcome' = [outcome EXCEPT ![t] = "none"]
           /\ UNCHANGED <<autoReset, signal>>

\* The predicate holds: the wait returns true; an auto event is lowered.
Pass(t) == /\ At(t, "check", "idle")
           /\ signal
           /\ signal' = ~autoReset
           /\ outcome' = [outcome EXCEPT ![t] = "signalled"]
           /\ UNCHANGED autoReset

\* The predicate does not hold: mutex released, thread asleep, in one step.
Sleep(t) == /\ At(t, "check", "asleep")
            /\ ~signal
            /\ UNCHANGED <<autoReset, signal, outcome>>

\* A condition variable may wake a thread for no reason.
SpuriousWake(t) == /\ At(t, "asleep", "check")
                   /\ UNCHANGED <<autoReset, signal, outcome>>

\* wait_for(): the time is over; the predicate decides once more, and an auto
\* event is lowered whatever it says.
TimeOut(t) == /\ t \in Timed
              /\ At(t, "asleep", "idle")
              /\ outcome' = [outcome EXCEPT ![t] = IF signal THEN "signalled" ELSE "timeout"]
              /\ signal' = (signal /\ ~autoReset)
              /\ UNCHANGED autoReset

Next == \E t \in Threads :
          \/ SetSignal(t) \/ Notify(t) \/ Reset(t)
          \/ Wait(t) \/ Pass(t) \/ Sleep(t) \/ SpuriousWake(t) \/ TimeOut(t)

Spec == Init /\ [][Next]_vars

\* A thread in the middle of a call runs on; nothing obliges a thread to make
\* a call, and nothing obliges a clock to run out.
Fairness == \A t \in Threads : WF_vars(Notify(t)) /\ WF_vars(Pass(t) \/ Sleep(t))

FairSpec == Spec /\ Fairness

-----------------------------------------------------------------------------
TypeOK == /\ autoReset \in BOOLEAN
          /\ signal \in BOOLEAN
          /\ pc \in [Threads -> {"idle", "notify", "check", "asleep"}]
          /\ outcome \in [Threads -> {"none", "signalled", "timeout"}]

(* No lost wake-up: although set() notifies outside the mutex, a thread that  *)
(* sleeps on a raised event still has a notification coming to it.            *)
NoLostWakeup == signal => \/ \A t \in Threads : pc[t] # "asleep"
                          \/ \E t \in Threads : pc[t] = "notify"

(* Every state has its types and loses no wake-up: what the proofs are about. *)
IInv == TypeOK /\ NoLostWakeup

(* An event that stays raised lets every waiter through: no thread is inside  *)
(* wait() for ever once nobody lowers the flag any more.                      *)
WaitersReleased == <>[]signal => \A t \in Threads : []<>(pc[t] \notin {"check", "asleep"})

\* The flag and the outcomes are already the state of the abstract event.
Abstract == INSTANCE AtomicEvent

(* Mutex, condition variable and late notification implement the atomic event.*)
ImplementsAtomicEvent == Abstract!Spec

=============================================================================
