-------------------------- MODULE ManualDispatcher --------------------------
(***************************************************************************)
(* manual_dispatcher: a queue of callbacks under a mutex, taken out and    *)
(* run by whoever calls process_pending_invocations() until it is empty.   *)
(* Callbacks run outside the mutex: they may submit others and may process *)
(* the queue themselves. Each has a future, which gets its result, its     *)
(* exception, or a broken promise when the dispatcher dies first.          *)
(***************************************************************************)
EXTENDS Naturals, FiniteSets, SequencesExt

CONSTANTS Threads,
          Callbacks,   \* every callback is submitted at most once
          MaxDepth     \* bound on the frames of a thread

VARIABLES workItems,   \* _workItems
          frames,      \* frames[h]: calls of the thread, innermost first: a callback, or Pump
          outcome,     \* outcome[c]: of the future
          submitted, started,    \* in which order
          alive

dispatcherVars == <<workItems, frames, outcome, submitted, started, alive>>

Pump == "process_pending_invocations"
Pumps(h) == frames[h] # <<>> /\ Head(frames[h]) = Pump
Runs(h) == frames[h] # <<>> /\ Head(frames[h]) # Pump

Init == /\ workItems = <<>> /\ submitted = <<>> /\ started = <<>> /\ alive = TRUE
        /\ frames = [h \in Threads |-> <<>>]
        /\ outcome = [c \in Callbacks |-> "none"]

InvokeAsync(h, c) ==
  /\ alive /\ ~Pumps(h) /\ outcome[c] = "none"
  /\ workItems' = Append(workItems, c)
  /\ submitted' = Append(submitted, c)
  /\ outcome' = [outcome EXCEPT ![c] = "pending"]
  /\ UNCHANGED <<frames, started, alive>>

\* process_pending_invocations(), from outside or from a callback.
Process(h) ==
  /\ alive /\ ~Pumps(h) /\ Len(frames[h]) < MaxDepth
  /\ frames' = [frames EXCEPT ![h] = <<Pump>> \o @]
  /\ UNCHANGED <<workItems, outcome, submitted, started, alive>>

\* Mutant of the next: the item stays in the queue until it has run.
RunFirst(h) ==
  /\ Pumps(h) /\ workItems # <<>>
  /\ frames' = [frames EXCEPT ![h] = <<Head(workItems)>> \o @]
  /\ started' = Append(started, Head(workItems))
  /\ workItems' = IF Len(started) % 2 = 0 THEN workItems ELSE Tail(workItems)
  /\ UNCHANGED <<outcome, submitted, alive>>

\* The first item is moved out under the mutex and called outside it.
Take(h) ==
  /\ Pumps(h) /\ workItems # <<>>
  /\ frames' = [frames EXCEPT ![h] = <<Head(workItems)>> \o @]
  /\ started' = Append(started, Head(workItems))
  /\ workItems' = Tail(workItems)
  /\ UNCHANGED <<outcome, submitted, alive>>

\* The packaged task keeps what the callback throws for the future.
Finish(h) ==
  /\ Runs(h)
  /\ \E o \in {"ready", "thrown"} : outcome' = [outcome EXCEPT ![Head(frames[h])] = o]
  /\ frames' = [frames EXCEPT ![h] = Tail(@)]
  /\ UNCHANGED <<workItems, submitted, started, alive>>

EndProcess(h) ==
  /\ Pumps(h) /\ workItems = <<>>
  /\ frames' = [frames EXCEPT ![h] = Tail(@)]
  /\ UNCHANGED <<workItems, outcome, submitted, started, alive>>

\* Tasks that die with the dispatcher break their promises.
Destroy ==
  /\ alive /\ \A h \in Threads : frames[h] = <<>>
  /\ alive' = FALSE /\ workItems' = <<>>
  /\ outcome' = [c \in Callbacks |-> IF outcome[c] = "pending" THEN "broken" ELSE outcome[c]]
  /\ UNCHANGED <<frames, submitted, started>>

Next == \/ \E h \in Threads : \/ \E c \in Callbacks : InvokeAsync(h, c)
                              \/ Process(h) \/ Take(h) \/ Finish(h) \/ EndProcess(h)
        \/ Destroy

-----------------------------------------------------------------------------
TypeOK == /\ workItems \in Seq(Callbacks) /\ submitted \in Seq(Callbacks) /\ started \in Seq(Callbacks)
          /\ frames \in [Threads -> Seq(Callbacks \cup {Pump})]
          /\ \A h \in Threads : Len(frames[h]) <= MaxDepth + 1
          /\ outcome \in [Callbacks -> {"none", "pending", "ready", "thrown", "broken"}]
          /\ alive \in BOOLEAN

\* What was submitted has been started or is in the queue.
InOrder == IF alive THEN submitted = started \o workItems ELSE IsPrefix(started, submitted)

(* Callbacks are started in the order they were submitted, each once, by       *)
(* whichever threads pump; a future without an answer has its callback in the  *)
(* queue or on one stack.                                                      *)
InOrderOnce ==
  /\ InOrder
  /\ \A c \in Callbacks : outcome[c] = "pending" <=>
       Cardinality({i \in DOMAIN workItems : workItems[i] = c})
         + Cardinality({h \in Threads : c \in Range(frames[h])}) = 1

(* When a call has returned to a thread, nothing is in the queue that was      *)
(* submitted before the call: nested calls and callbacks drain it, too.        *)
Drained == [][\A h \in Threads : Pumps(h) /\ frames'[h] = Tail(frames[h]) => workItems = <<>>]_dispatcherVars

-----------------------------------------------------------------------------
\* What the proofs rest on: a callback is at one place, in the queue or on one stack, exactly as long as its future is
\* without an answer, and who pumps has room for what it takes.
Once(s) == \A i, j \in DOMAIN s : s[i] = s[j] /\ s[i] # Pump => i = j
OnceOK == /\ Once(workItems)
          /\ \A h \in Threads : Once(frames[h]) /\ Range(frames[h]) \cap Range(workItems) = {}
          /\ \A h, k \in Threads : h # k => Range(frames[h]) \cap Range(frames[k]) \subseteq {Pump}
AwaitedOK == \A c \in Callbacks :
               outcome[c] = "pending" <=> c \in Range(workItems) \/ \E h \in Threads : c \in Range(frames[h])
DepthOK == \A h \in Threads : (Pumps(h) => Len(frames[h]) <= MaxDepth) /\ (~alive => frames[h] = <<>>)
IInv == TypeOK /\ InOrder /\ OnceOK /\ AwaitedOK /\ DepthOK
=============================================================================
