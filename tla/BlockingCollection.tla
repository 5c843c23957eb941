------------------------- MODULE BlockingCollection -------------------------
(***************************************************************************)
(* Threading::blocking_collection (Threading/BlockingCollection.h): a      *)
(* queue with a mutex of its own and a manual_reset_event that is raised   *)
(* while the queue holds items.  The event is the atomic flag of           *)
(* AtomicEvent; a critical section of _mutex touches it at most once and   *)
(* is one action.  complete() takes no mutex: its two writes are two       *)
(* actions, and add() looks at _is_complete before it locks.               *)
(*                                                                         *)
(* Producers add numbered items, consumers call try_get in a loop, and an  *)
(* owner completes the collection and may clear it afterwards.             *)
(***************************************************************************)
EXTENDS Naturals, Sequences

CONSTANTS Producers, Consumers,
          Timed,      \* the consumers that pass a timeout; the others wait for ever
          MaxAdds,    \* bound: items per producer
          Clears      \* whether the owner calls clear() after complete()

ASSUME QueueAssumption == /\ Timed \subseteq Consumers
                          /\ Producers \cap Consumers = {}
                          /\ MaxAdds \in Nat
                          /\ Clears \in BOOLEAN

VARIABLES collection,   \* _collection
          signal,       \* _event
          isComplete,   \* _is_complete
          added,        \* added[p]: the number of items p has added or is adding
          pc,           \* where each producer and consumer is in its call
          owner,        \* how far the owner is: "open", "completing", "complete", "cleared"
          taken         \* the items the consumers were given, in order

vars == <<collection, signal, isComplete, added, pc, owner, taken>>

Items == Producers \X (1 .. MaxAdds)

Init == /\ collection = <<>>
        /\ signal = FALSE
        /\ isComplete = FALSE
        /\ added = [p \in Producers |-> 0]
        /\ pc = [t \in Producers \cup Consumers |-> "idle"]
        /\ owner = "open"
        /\ taken = <<>>

At(t, from, to) == pc[t] = from /\ pc' = [pc EXCEPT ![t] = to]

-----------------------------------------------------------------------------
(* Mutants of the definitions below. *)

\* The event is lowered on every take, whatever is left.
TakeAlwaysResets(c) ==
  /\ pc[c] \in {"first", "second"}
  /\ collection # <<>>
  /\ signal' = FALSE
  /\ taken' = Append(taken, Head(collection))
  /\ collection' = Tail(collection)
  /\ pc' = [pc EXCEPT ![c] = "idle"]
  /\ UNCHANGED <<isComplete, added, owner>>

\* The front is read but not popped when it is the only item.
TakeNoPop(c) ==
  /\ pc[c] \in {"first", "second"}
  /\ collection # <<>>
  /\ signal' = (Len(collection) # 1 /\ signal)
  /\ taken' = Append(taken, Head(collection))
  /\ collection' = IF Len(collection) = 1 THEN collection ELSE Tail(collection)
  /\ pc' = [pc EXCEPT ![c] = "idle"]
  /\ UNCHANGED <<isComplete, added, owner>>

\* Without the second look at the queue after the wait.
AwakeToNothing(c) ==
  /\ At(c, "waiting", IF c \in Timed THEN "idle" ELSE "stopped")
  /\ signal
  /\ UNCHANGED <<collection, signal, isComplete, added, owner, taken>>

\* The first look waits even when the collection is complete.
WaitThoughComplete(c) ==
  /\ pc[c] \in {"first", "second"}
  /\ collection = <<>>
  /\ pc' = [pc EXCEPT ![c] = IF pc[c] = "first" THEN "waiting"
                             ELSE IF c \in Timed THEN "idle" ELSE "stopped"]
  /\ UNCHANGED <<collection, signal, isComplete, added, owner, taken>>

-----------------------------------------------------------------------------
\* add(), before the mutex: a complete collection refuses the item (the call
\* throws), and the producer gives up.
AddCheck(p) ==
  /\ added[p] < MaxAdds
  /\ ~isComplete
  /\ At(p, "idle", "adding")
  /\ added' = [added EXCEPT ![p] = @ + 1]
  /\ UNCHANGED <<collection, signal, isComplete, owner, taken>>

AddRefused(p) ==
  /\ added[p] < MaxAdds
  /\ isComplete
  /\ At(p, "idle", "refused")
  /\ UNCHANGED <<collection, signal, isComplete, added, owner, taken>>

\* add() under the mutex.
AddPush(p) ==
  /\ At(p, "adding", "idle")
  /\ collection' = Append(collection, <<p, added[p]>>)
  /\ signal' = TRUE
  /\ UNCHANGED <<isComplete, added, owner, taken>>

\* try_get(): the call, before the first of its two looks at the queue.
GetStart(c) ==
  /\ At(c, "idle", "first")
  /\ UNCHANGED <<collection, signal, isComplete, added, owner, taken>>

\* A look that finds an item: the event is lowered with the last one.
Take(c) ==
  /\ pc[c] \in {"first", "second"}
  /\ collection # <<>>
  /\ signal' = (Len(collection) # 1 /\ signal)
  /\ taken' = Append(taken, Head(collection))
  /\ collection' = Tail(collection)
  /\ pc' = [pc EXCEPT ![c] = "idle"]
  /\ UNCHANGED <<isComplete, added, owner>>

\* A look that finds nothing: the call returns false after the second look or
\* once the collection is complete, and waits otherwise.  A consumer without
\* a timeout takes false for the end, one with a timeout asks again.
FindNothing(c) ==
  /\ pc[c] \in {"first", "second"}
  /\ collection = <<>>
  /\ pc' = [pc EXCEPT ![c] = IF pc[c] = "second" \/ isComplete
                             THEN IF c \in Timed THEN "idle" ELSE "stopped"
                             ELSE "waiting"]
  /\ UNCHANGED <<collection, signal, isComplete, added, owner, taken>>

\* The wait between the looks ends because the event is raised ...
Awake(c) ==
  /\ At(c, "waiting", "second")
  /\ signal
  /\ UNCHANGED <<collection, signal, isComplete, added, owner, taken>>

\* ... or because the time is over; the second look follows in either case.
TimeOut(c) ==
  /\ c \in Timed
  /\ At(c, "waiting", "second")
  /\ ~signal
  /\ UNCHANGED <<collection, signal, isComplete, added, owner, taken>>

\* complete(): two writes, no mutex.
CompleteFlag ==
  /\ owner = "open"
  /\ owner' = "completing"
  /\ isComplete' = TRUE
  /\ UNCHANGED <<collection, signal, added, pc, taken>>

CompleteSet ==
  /\ owner = "completing"
  /\ owner' = "complete"
  /\ signal' = TRUE
  /\ UNCHANGED <<collection, isComplete, added, pc, taken>>

\* clear(): the event stays as it is.
Clear ==
  /\ Clears
  /\ owner = "complete"
  /\ owner' = "cleared"
  /\ collection' = <<>>
  /\ UNCHANGED <<signal, isComplete, added, pc, taken>>

Next == \/ \E p \in Producers : AddCheck(p) \/ AddRefused(p) \/ AddPush(p)
        \/ \E c \in Consumers : \/ GetStart(c) \/ Take(c) \/ FindNothing(c)
                                \/ Awake(c) \/ TimeOut(c)
        \/ CompleteFlag \/ CompleteSet \/ Clear

Spec == Init /\ [][Next]_vars

\* Calls run on, consumers loop and clocks run out; nobody has to add an item
\* or to complete the collection.
Fairness ==
  /\ \A p \in Producers : WF_vars(AddPush(p))
  /\ \A c \in Consumers : /\ WF_vars(GetStart(c))
                          /\ WF_vars(Take(c) \/ FindNothing(c) \/ Awake(c) \/ TimeOut(c))
  /\ WF_vars(CompleteSet)

FairSpec == Spec /\ Fairness

-----------------------------------------------------------------------------
TypeOK == /\ collection \in Seq(Items)
          /\ signal \in BOOLEAN
          /\ isComplete \in BOOLEAN
          /\ added \in [Producers -> 0 .. MaxAdds]
          /\ pc \in [Producers \cup Consumers ->
                      {"idle", "adding", "refused", "first", "waiting", "second", "stopped"}]
          /\ owner \in {"open", "completing", "complete", "cleared"}
          /\ taken \in Seq(Items)

InQueue(x) == \E i \in 1 .. Len(collection) : collection[i] = x
Given(x) == \E i \in 1 .. Len(taken) : taken[i] = x

(* A consumer may sleep on the event only while the queue is empty: with an   *)
(* item in it the event is raised, however adds, takes, complete() and        *)
(* clear() interleave.                                                        *)
ItemsSignalled == collection # <<>> => signal

(* The converse, once again for every interleaving: an event that is raised   *)
(* while nothing is in the queue means that complete() has been called.       *)
SignalMeansWork == signal => collection # <<>> \/ isComplete

(* What the proofs add: an item in somebody's hands has a number, and the     *)
(* flag is the first thing complete() writes.                                 *)
CallsOK == /\ \A p \in Producers : pc[p] = "adding" => added[p] > 0
           /\ isComplete <=> owner # "open"

(* The event is raised while an item is in the queue, and raised without one  *)
(* only after complete(), whatever calls are half way through.                *)
IInv == TypeOK /\ CallsOK /\ ItemsSignalled /\ SignalMeansWork

(* A reader that waits for ever comes back once the collection is complete.   *)
CompleteReleases ==
  \A c \in Consumers : owner \in {"complete", "cleared"} ~> pc[c] # "waiting"

(* Whatever was in the queue before complete() has been called is given to    *)
(* somebody, unless the owner throws it away.                                 *)
NothingLost == \A x \in Items :
  (InQueue(x) /\ ~isComplete) ~> Given(x) \/ owner = "cleared"

(* With one reader nobody takes the item between its wait and its second look.*)
SecondLookFinds ==
  \A c \in Consumers \ Timed : pc[c] = "second" => collection # <<>> \/ isComplete

Queue == INSTANCE ClosableQueue
           WITH queue <- collection,
                closed <- isComplete,
                admitted <- {x \in Items : pc[x[1]] = "adding" /\ x[2] = added[x[1]]},
                ended <- {c \in Consumers : pc[c] = "stopped"},
                Unbounded <- Consumers \ Timed

(* With one reader the collection is a closable FIFO queue.                   *)
ImplementsQueue == Queue!Spec
=============================================================================
