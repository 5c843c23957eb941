------------------------------ MODULE Registry ------------------------------
(***************************************************************************)
(* registry: a set of items under a shared mutex, two events that tell of  *)
(* its changes, tokens that remove an item again, and snapshots that read  *)
(* it under a shared lock. The set changes under the mutex, the event is   *)
(* raised after it, under the publisher's own mutex (one per event); a     *)
(* handler of either event may read the registry. The events do not catch  *)
(* what handlers throw: the call ends with it, and the item has failed.    *)
(*                                                                         *)
(* A lifetime_token is a slot: it runs its callback, and forgets it after. *)
(***************************************************************************)
EXTENDS Naturals, FiniteSets, Sequences

CONSTANTS Users,      \* threads
          Nobody,
          Items,
          Tokens,     \* lifetime_token objects
          Once        \* a program adds an item only while it is neither there nor being removed

VARIABLES items,      \* _items
          readers,    \* who has a shared lock of _mutex
          upc,        \* upc[u]: what the thread does, and to which item
          raising,    \* raising[event]: who holds the publisher's mutex
          callback,   \* callback[k]: the item the token's callback removes, or <<>>
          heard,      \* what a listener of both events believes to be there
          failed      \* the items a handler has thrown for

registryVars == <<items, readers, upc, raising, callback, heard, failed>>

Events == {"item_added", "item_removed"}
At(u, step) == upc[u].step = step
Idle == [step |-> "idle"]
Goes(u, state) == upc' = [upc EXCEPT ![u] = state]

Init == /\ items = {} /\ readers = {}
        /\ upc = [u \in Users |-> Idle]
        /\ raising = [e \in Events |-> Nobody]
        /\ callback = [k \in Tokens |-> <<>>]
        /\ heard = {} /\ failed = {}

\* Items somebody is about to announce, or to take back.
Announced == {upc[u].item : u \in {v \in Users : upc[v].step \in {"add", "added", "erase", "removed", "heard"}}}
Awaited(k) == \E u \in Users : upc[u].step \in {"add", "added", "handling"} /\ k \in upc[u].tokens
Resetting(k) == \E u \in Users : upc[u].step \in {"erase", "removed", "heard"} /\ upc[u].token = k
Fresh(item) == Once => item \notin items \cup Announced

-----------------------------------------------------------------------------
\* add() with a token for the result, or add_permanent() without: the call ...
Add(u, item, tokens) ==
  /\ At(u, "idle") /\ Fresh(item) /\ \A k \in tokens : callback[k] = <<>> /\ ~Awaited(k)
  /\ Goes(u, [step |-> "add", item |-> item, tokens |-> tokens])
  /\ UNCHANGED <<items, readers, raising, callback, heard, failed>>

\* Mutant of the next: a snapshot does not keep the writers out.
EmplaceUnlocked(u) ==
  /\ At(u, "add")
  /\ items' = items \cup {upc[u].item}
  /\ Goes(u, [upc[u] EXCEPT !.step = "added"])
  /\ UNCHANGED <<readers, raising, callback, heard, failed>>

\* ... its critical section ...
Emplace(u) ==
  /\ At(u, "add") /\ readers = {}
  /\ items' = items \cup {upc[u].item}
  /\ Goes(u, [upc[u] EXCEPT !.step = "added"])
  /\ UNCHANGED <<readers, raising, callback, heard, failed>>

\* ... and item_added, raised under the publisher's mutex. A handler may read the registry, before the listener
\* hears of the item or after it.
RaiseAdded(u) ==
  /\ At(u, "added") /\ raising["item_added"] = Nobody
  /\ raising' = [raising EXCEPT !["item_added"] = u]
  /\ heard' \in {heard, heard \cup {upc[u].item}}
  /\ Goes(u, [upc[u] EXCEPT !.step = "handling"])
  /\ UNCHANGED <<items, readers, callback, failed>>

\* The token is made when the handlers have returned.
EndAdded(u) ==
  /\ At(u, "handling") /\ u \notin readers
  /\ raising' = [raising EXCEPT !["item_added"] = Nobody]
  /\ callback' = [k \in Tokens |-> IF k \in upc[u].tokens THEN <<upc[u].item>> ELSE callback[k]]
  /\ heard' = heard \cup {upc[u].item}
  /\ Goes(u, Idle)
  /\ UNCHANGED <<items, readers, failed>>

\* A handler has thrown: the item stays, and no token is made for it.
AddedThrows(u) ==
  /\ At(u, "handling") /\ u \notin readers
  /\ raising' = [raising EXCEPT !["item_added"] = Nobody]
  /\ failed' = failed \cup {upc[u].item}
  /\ Goes(u, Idle)
  /\ UNCHANGED <<items, readers, callback, heard>>

-----------------------------------------------------------------------------
\* lifetime_token::reset(), by the owner of the token or from its destructor.
TokenReset(u, k) ==
  /\ At(u, "idle") /\ callback[k] # <<>>
  /\ ~Resetting(k)
  /\ Goes(u, [step |-> "erase", item |-> callback[k][1], token |-> k])
  /\ UNCHANGED <<items, readers, raising, callback, heard, failed>>

Erase(u) ==
  /\ At(u, "erase") /\ readers = {}
  /\ items' = items \ {upc[u].item}
  /\ Goes(u, [upc[u] EXCEPT !.step = "removed"])
  /\ UNCHANGED <<readers, raising, callback, heard, failed>>

RaiseRemoved(u) ==
  /\ At(u, "removed") /\ raising["item_removed"] = Nobody
  /\ raising' = [raising EXCEPT !["item_removed"] = u]
  /\ heard' \in {heard, heard \ {upc[u].item}}
  /\ Goes(u, [upc[u] EXCEPT !.step = "heard"])
  /\ UNCHANGED <<items, readers, callback, failed>>

\* The callback has returned: the token forgets it.
EndRemoved(u) ==
  /\ At(u, "heard") /\ u \notin readers
  /\ raising' = [raising EXCEPT !["item_removed"] = Nobody]
  /\ callback' = [callback EXCEPT ![upc[u].token] = <<>>]
  /\ heard' = heard \ {upc[u].item}
  /\ Goes(u, Idle)
  /\ UNCHANGED <<items, readers, failed>>

\* A handler has thrown: the item is gone and the token keeps its callback, which the next reset runs again. This is
\* reset() called by the owner; out of the destructor or operator= the exception ends the program.
RemovedThrows(u) ==
  /\ At(u, "heard") /\ u \notin readers
  /\ raising' = [raising EXCEPT !["item_removed"] = Nobody]
  /\ failed' = failed \cup {upc[u].item}
  /\ Goes(u, Idle)
  /\ UNCHANGED <<items, readers, callback, heard>>

\* lifetime_token::operator=: what the target still holds is reset before (TokenReset).
MoveToken(k, l) ==
  /\ callback[k] = <<>> /\ callback[l] # <<>>
  /\ ~Resetting(k) /\ ~Resetting(l) /\ ~Awaited(k)
  /\ callback' = [callback EXCEPT ![k] = callback[l], ![l] = <<>>]
  /\ UNCHANGED <<items, readers, upc, raising, heard, failed>>

-----------------------------------------------------------------------------
\* operator* of an idle user or of a handler: the snapshot has a shared lock until it is destroyed.
Snapshot(u) ==
  /\ upc[u].step \in {"idle", "handling", "heard"} /\ u \notin readers
  /\ readers' = readers \cup {u}
  /\ Goes(u, [upc[u] EXCEPT !.step = IF @ = "idle" THEN "reading" ELSE @])
  /\ UNCHANGED <<items, raising, callback, heard, failed>>

EndSnapshot(u) ==
  /\ u \in readers
  /\ readers' = readers \ {u}
  /\ Goes(u, [upc[u] EXCEPT !.step = IF @ = "reading" THEN "idle" ELSE @])
  /\ UNCHANGED <<items, raising, callback, heard, failed>>

Next ==
  \/ \E u \in Users : \/ \E item \in Items, tokens \in {{}} \cup {{k} : k \in Tokens} : Add(u, item, tokens)
                      \/ Emplace(u) \/ RaiseAdded(u) \/ EndAdded(u) \/ AddedThrows(u)
                      \/ \E k \in Tokens : TokenReset(u, k)
                      \/ Erase(u) \/ RaiseRemoved(u) \/ EndRemoved(u) \/ RemovedThrows(u)
                      \/ Snapshot(u) \/ EndSnapshot(u)
  \/ \E k, l \in Tokens : MoveToken(k, l)

-----------------------------------------------------------------------------
\* What a thread is at.
Rests == [step : {"idle", "reading"}]
Adds == [step : {"add", "added", "handling"}, item : Items, tokens : {{}} \cup {{k} : k \in Tokens}]
Removes == [step : {"erase", "removed", "heard"}, item : Items, token : Tokens]

TypeOK ==
  /\ items \subseteq Items /\ heard \subseteq Items /\ failed \subseteq Items /\ readers \subseteq Users
  /\ upc \in [Users -> Rests \cup Adds \cup Removes]
  /\ raising \in [Events -> Users \cup {Nobody}]
  /\ callback \in [Tokens -> {<<>>} \cup {<<item>> : item \in Items}]

(* Nothing a snapshot is read from changes while it is there.                 *)
SnapshotsAreStable == [][readers \cap readers' # {} => items' = items]_registryVars

(* Whoever listens to both events knows the items, up to those whose event is *)
(* still to come or going on: in programs that add no item twice, an item     *)
(* announced and taken back by different threads is not announced after it    *)
(* was taken back. An item a handler has thrown for is not told of reliably.  *)
Telling == {upc[u].item : u \in {v \in Users : upc[v].step \in {"added", "handling", "removed", "heard"}}}
ListenersKnow == \A item \in Items \ (Telling \cup failed) : item \in items <=> item \in heard

(* A token stands for an item that is there: it is spent by the reset that    *)
(* removed it, however often it was moved, and no two remove the same one,    *)
(* unless a handler has thrown for the item.                                  *)
TokensRemove ==
  \A k \in Tokens : callback[k] # <<>> /\ callback[k][1] \notin failed =>
    \/ callback[k][1] \in items /\ \A l \in Tokens \ {k} : callback[l] # callback[k]
    \/ \E u \in Users : upc[u].step \in {"removed", "heard"} /\ upc[u].token = k

-----------------------------------------------------------------------------
\* What the proofs rest on, of items no handler has thrown for.
\* A thread has the item it adds or removes for itself, which is there in between; and the token it is for.
IsAdding(u) == upc[u].step \in {"add", "added", "handling"}
IsRemoving(u) == upc[u].step \in {"erase", "removed", "heard"}
Works(u) == IsAdding(u) \/ IsRemoving(u)
Sound(u) == upc[u].item \notin failed
AloneOK == \A u, v \in Users : Works(u) /\ Works(v) /\ Sound(u) /\ u # v => upc[u].item # upc[v].item
PlaceOK == \A u \in Users :
  /\ upc[u].step \in {"added", "handling", "erase"} /\ Sound(u) => upc[u].item \in items
  /\ upc[u].step \in {"add", "removed", "heard"} /\ Sound(u) => upc[u].item \notin items
AwaitedOK == \A u \in Users : IsAdding(u) => \A k \in upc[u].tokens :
  callback[k] = <<>> /\ \A v \in Users : IsAdding(v) /\ u # v => k \notin upc[v].tokens

\* A reset has its token for itself, thrown for or not. A token that is set is the only one for its item; who
\* removes the item does so for it, and nobody adds it.
TokenOK ==
  /\ \A u \in Users : IsRemoving(u) => callback[upc[u].token] = <<upc[u].item>>
  /\ \A u, v \in Users : IsRemoving(u) /\ IsRemoving(v) /\ u # v => upc[u].token # upc[v].token
  /\ \A k, l \in Tokens : callback[k] # <<>> /\ callback[k][1] \notin failed /\ k # l => callback[l] # callback[k]
  /\ \A k \in Tokens : \A u \in Users :
       Works(u) /\ Sound(u) /\ callback[k] = <<upc[u].item>> => IsRemoving(u) /\ upc[u].token = k

\* It stands for an item that is there, until somebody has removed it.
Spends(u, k) == upc[u].step \in {"removed", "heard"} /\ upc[u].token = k
StandsOK == \A k \in Tokens : callback[k] # <<>> /\ callback[k][1] \notin failed =>
  callback[k][1] \in items \/ \E u \in Users : Spends(u, k)

IInv == TypeOK /\ AloneOK /\ PlaceOK /\ AwaitedOK /\ TokenOK /\ StandsOK /\ ListenersKnow
=============================================================================
