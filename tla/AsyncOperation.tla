--------------------------- MODULE AsyncOperation ---------------------------
(***************************************************************************)
(* async_operation_source and async_operation: a worker function makes a   *)
(* source, binds it to its caller's operation and reports to it, from one  *)
(* thread or several; others ask the operation for the state or cancel it. *)
(* The state is written and the events are raised under the source's       *)
(* mutex; the cancelled flag and the pointer to the source are outside it. *)
(***************************************************************************)
EXTENDS Naturals, Sequences, SequencesExt

CONSTANTS Workers,    \* threads of the worker function
          Callers,    \* threads with the operation
          Noone,
          MaxUpdates  \* bound on the progress reports of a worker; the last state comes in addition

VARIABLES source,     \* the source: unborn, alive or gone
          bound,      \* async_operation::_source is set
          subscribed, \* _stateChangedSubscription is
          lock,       \* who holds _mutex
          info,       \* _state: its state and its progress
          cancelled,  \* _state.is_cancelled
          updates,    \* what was assigned to info by update_state(), in order
          heard,      \* what the operation has passed on, in order
          missed,     \* how many updates were raised before the operation listened
          wpc, count, \* of the workers
          cpc, seen   \* of the callers, and the state they saw last

operationVars == <<source, bound, subscribed, lock, info, cancelled, updates, heard, missed, wpc, count, cpc, seen>>

Blank == [state |-> "idle", progress |-> 0]     \* async_operation_info{}

Init == /\ source = "unborn" /\ bound = FALSE /\ subscribed = FALSE /\ lock = Noone
        /\ info = Blank /\ cancelled = FALSE /\ updates = <<>> /\ heard = <<>> /\ missed = 0
        /\ wpc = [w \in Workers |-> "working"] /\ count = [w \in Workers |-> 0]
        /\ cpc = [c \in Callers |-> "idle"] /\ seen = [c \in Callers |-> Blank]

Undefined == \E c \in Callers : cpc[c] = "undefined"
WorkerGoes(w, step) == wpc' = [wpc EXCEPT ![w] = step]
CallerGoes(c, step) == cpc' = [cpc EXCEPT ![c] = step]

-----------------------------------------------------------------------------
\* The worker function: its local source, set_source() ...
Construct == /\ source = "unborn" /\ source' = "alive"
             /\ UNCHANGED <<bound, subscribed, lock, info, cancelled, updates, heard, missed, wpc, count, cpc, seen>>

SetSource == /\ source = "alive" /\ ~bound /\ bound' = TRUE
             /\ UNCHANGED <<source, subscribed, lock, info, cancelled, updates, heard, missed, wpc, count, cpc, seen>>

Subscribe == /\ source = "alive" /\ bound /\ ~subscribed /\ subscribed' = TRUE
             /\ UNCHANGED <<source, bound, lock, info, cancelled, updates, heard, missed, wpc, count, cpc, seen>>

\* ... and throw_if_cancelled(), whose exception is reported as a failure.
Check(w) ==
  /\ wpc[w] = "working" /\ source = "alive" /\ bound
  /\ WorkerGoes(w, IF cancelled THEN "failing" ELSE IF count[w] < MaxUpdates THEN "reporting" ELSE "succeeding")
  /\ UNCHANGED <<source, bound, subscribed, lock, info, cancelled, updates, heard, missed, count, cpc, seen>>

\* update_state(): the mutex and the first member ...
BeginUpdate(w) ==
  /\ wpc[w] \in {"reporting", "succeeding", "failing"} /\ lock = Noone
  /\ lock' = w
  /\ info' = [info EXCEPT !.state = CASE wpc[w] = "reporting" -> "working"
                                      [] wpc[w] = "succeeding" -> "succeeded"
                                      [] OTHER -> "failed"]
  /\ WorkerGoes(w, IF wpc[w] = "reporting" THEN "writing" ELSE "writing_last")
  /\ UNCHANGED <<source, bound, subscribed, cancelled, updates, heard, missed, count, cpc, seen>>

\* ... the second, unless it is not given ...
Write(w) ==
  /\ wpc[w] \in {"writing", "writing_last"}
  /\ info' = IF info.state = "failed" THEN info ELSE [info EXCEPT !.progress = @ + 1]
  /\ updates' = Append(updates, info')
  /\ WorkerGoes(w, IF wpc[w] = "writing" THEN "raising" ELSE "raising_last")
  /\ UNCHANGED <<source, bound, subscribed, lock, cancelled, heard, missed, count, cpc, seen>>

\* Mutant of the next: the mutex is released before the event is raised.
RaiseUnlocked(w) ==
  /\ wpc[w] \in {"raising", "raising_last"}
  /\ IF subscribed THEN heard' = Append(heard, info) /\ UNCHANGED missed
                   ELSE missed' = missed + 1 /\ UNCHANGED heard
  /\ \E asked \in BOOLEAN : cancelled' = (cancelled \/ (asked /\ subscribed))
  /\ lock' = Noone
  /\ WorkerGoes(w, IF wpc[w] = "raising" THEN "raised" ELSE "raised_last")
  /\ UNCHANGED <<source, bound, subscribed, info, updates, count, cpc, seen>>

\* ... and the event, which the operation passes on. A handler may cancel the operation; one that asks for the
\* state would wait for its own thread.
Raise(w) ==
  /\ wpc[w] \in {"raising", "raising_last"}
  /\ IF subscribed THEN heard' = Append(heard, info) /\ UNCHANGED missed
                   ELSE missed' = missed + 1 /\ UNCHANGED heard
  /\ \E asked \in BOOLEAN : cancelled' = (cancelled \/ (asked /\ subscribed))
  /\ WorkerGoes(w, IF wpc[w] = "raising" THEN "raised" ELSE "raised_last")
  /\ UNCHANGED <<source, bound, subscribed, lock, info, updates, count, cpc, seen>>

EndUpdate(w) ==
  /\ wpc[w] \in {"raised", "raised_last"}
  /\ lock' = Noone
  /\ count' = [count EXCEPT ![w] = @ + 1]
  /\ WorkerGoes(w, IF wpc[w] = "raised" THEN "working" ELSE "done")
  /\ UNCHANGED <<source, bound, subscribed, info, cancelled, updates, heard, missed, cpc, seen>>

\* The worker function returns: the source is destroyed, and the operation keeps its address.
Return == /\ source = "alive" /\ \A w \in Workers : wpc[w] = "done"
          /\ source' = "gone"
          /\ UNCHANGED <<bound, subscribed, lock, info, cancelled, updates, heard, missed, wpc, count, cpc, seen>>

-----------------------------------------------------------------------------
\* async_operation::state(), cancel(): the pointer is looked at ...
Call(c, step) ==
  /\ cpc[c] = "idle"
  /\ IF bound THEN CallerGoes(c, step) /\ UNCHANGED seen
     ELSE UNCHANGED cpc /\ seen' = IF step = "asking" THEN [seen EXCEPT ![c] = Blank] ELSE seen
  /\ UNCHANGED <<source, bound, subscribed, lock, info, cancelled, updates, heard, missed, wpc, count>>

\* ... and used, even when the source is gone.
Dangle(c) ==
  /\ cpc[c] # "idle" /\ source = "gone" /\ CallerGoes(c, "undefined")
  /\ UNCHANGED <<source, bound, subscribed, lock, info, cancelled, updates, heard, missed, wpc, count, seen>>

Cancel(c) ==
  /\ cpc[c] = "cancelling" /\ source = "alive"
  /\ cancelled' = TRUE /\ CallerGoes(c, "idle")
  /\ UNCHANGED <<source, bound, subscribed, lock, info, updates, heard, missed, wpc, count, seen>>

State(c) ==
  /\ cpc[c] = "asking" /\ source = "alive" /\ lock = Noone
  /\ seen' = [seen EXCEPT ![c] = info] /\ CallerGoes(c, "idle")
  /\ UNCHANGED <<source, bound, subscribed, lock, info, cancelled, updates, heard, missed, wpc, count>>

Next == /\ ~Undefined
        /\ \/ Construct \/ SetSource \/ Subscribe \/ Return
           \/ \E w \in Workers : Check(w) \/ BeginUpdate(w) \/ Write(w) \/ Raise(w) \/ EndUpdate(w)
           \/ \E c \in Callers : \/ \E step \in {"asking", "cancelling"} : Call(c, step)
                                 \/ Cancel(c) \/ State(c) \/ Dangle(c)

-----------------------------------------------------------------------------
Infos == [state : {"idle", "working", "succeeded", "failed"}, progress : Nat]
TypeOK == /\ source \in {"unborn", "alive", "gone"} /\ lock \in Workers \cup {Noone}
          /\ bound \in BOOLEAN /\ subscribed \in BOOLEAN /\ cancelled \in BOOLEAN
          /\ count \in [Workers -> 0..MaxUpdates + 1] /\ missed \in 0..Len(updates)
          /\ info \in Infos /\ updates \in Seq(Infos) /\ heard \in Seq(Infos)
          /\ wpc \in [Workers -> {"working", "reporting", "succeeding", "failing", "writing", "writing_last",
                                 "raising", "raising_last", "raised", "raised_last", "done"}]
          /\ cpc \in [Callers -> {"idle", "asking", "cancelling", "undefined"}] /\ seen \in [Callers -> Infos]

\* The update that is about to be raised.
Unheard == IF lock # Noone /\ wpc[lock] \in {"raising", "raising_last"} THEN 1 ELSE 0

(* Whoever listens to the operation hears every update since it was bound, in  *)
(* the order the source went through them, whichever thread reported it: what  *)
(* was heard last is the last state there is.                                  *)
HeardInOrder == /\ Len(heard) + missed + Unheard = Len(updates)
                /\ heard = SubSeq(updates, missed + 1, Len(updates) - Unheard)

(* state() returns one of the states the source went through, not half of one  *)
(* and half of the next.                                                       *)
SeenWhole == \A c \in Callers : seen[c] \in {Blank} \cup Range(updates)

(* "Cancellation can happen at any time from any thread" (Threading.md), after *)
(* the worker function has returned, too: a call does not use a source that is *)
(* gone.                                                                       *)
CancelAnyTime == ~Undefined

-----------------------------------------------------------------------------
\* What the proofs rest on: who writes and raises has the mutex, and without a writer the state is that of the last
\* update; what was heard is, one by one, what was assigned.
LockOK == \A w \in Workers :
            wpc[w] \in {"writing", "writing_last", "raising", "raising_last", "raised", "raised_last"} <=> lock = w
LastOK == lock = Noone \/ wpc[lock] \notin {"writing", "writing_last"}
            => info = IF updates = <<>> THEN Blank ELSE updates[Len(updates)]
HeardOK == /\ Len(heard) + missed + Unheard = Len(updates)
           /\ \A i \in 1..Len(heard) : heard[i] = updates[missed + i]
           /\ ~subscribed => heard = <<>>
CountOK == \A w \in Workers : /\ wpc[w] # "done" => count[w] <= MaxUpdates
                              /\ wpc[w] \in {"reporting", "writing", "raising", "raised"} => count[w] < MaxUpdates
IInv == TypeOK /\ LockOK /\ LastOK /\ HeardOK /\ CountOK /\ SeenWhole
=============================================================================
