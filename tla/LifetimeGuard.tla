--------------------------- MODULE LifetimeGuard ---------------------------
(***************************************************************************)
(* Threading::lifetime_source and lifetime_guard (Threading/LifetimeGuard).*)
(* A source is a member of an object whose methods start detached work;    *)
(* the work carries a guard, and ~lifetime_source waits on a condition     *)
(* variable until the last guard has been released.                        *)
(*                                                                         *)
(* Guards are slots, each used by one thread at a time; calls on different *)
(* slots interleave freely.  A critical section of _mutex is one action,   *)
(* and what a call does outside the mutex is an action of its own:         *)
(* reset() lowers the count under the mutex and forgets _owner later.      *)
(***************************************************************************)
EXTENDS Naturals, FiniteSets

CONSTANTS Sources,   \* lifetime_source objects
          Guards,    \* lifetime_guard objects
          NoSource   \* a null _owner

ASSUME GuardAssumption == IsFiniteSet(Guards) /\ NoSource \notin Sources

VARIABLES guardCount,   \* guardCount[s]: _guardCount
          isDraining,   \* isDraining[s]: _isDraining
          life,         \* life[s]: "alive", "asleep" / "awake" in the destructor's wait, "gone"
          owner,        \* owner[g]: _owner
          pc,           \* pc[g]: "idle", or "forget" between reset()'s unlock and _owner = nullptr
          source        \* source[g]: the guard being move-assigned to g, or g itself

vars == <<guardCount, isDraining, life, owner, pc, source>>

Init == /\ guardCount = [s \in Sources |-> 0]
        /\ isDraining = [s \in Sources |-> FALSE]
        /\ life = [s \in Sources |-> "alive"]
        /\ owner = [g \in Guards |-> NoSource]
        /\ pc = [g \in Guards |-> "idle"]
        /\ source = [g \in Guards |-> g]

\* A slot can be the subject of a call when no call is using it, neither as the
\* target of an assignment nor as the guard that is being moved from.
Taken(g) == \E h \in Guards \ {g} : source[h] = g
Free(g) == pc[g] = "idle" /\ source[g] = g /\ ~Taken(g)

Holds(g, s) == owner[g] = s /\ pc[g] = "idle"
Holders(s) == {g \in Guards : Holds(g, s)}

-----------------------------------------------------------------------------
(* Mutants of the definitions below. *)

\* try_guard() looks at nothing but the count.
TryGuardUnchecked(s, g) ==
  /\ Free(g) /\ owner[g] = NoSource /\ life[s] # "gone"
  /\ guardCount' = [guardCount EXCEPT ![s] = @ + 1]
  /\ owner' = [owner EXCEPT ![g] = s]
  /\ UNCHANGED <<isDraining, life, pc, source>>

\* operator= takes the other guard's _owner and leaves it there as well.
MoveOwnerKept(g) ==
  /\ source[g] # g /\ pc[g] = "idle" /\ owner[g] = NoSource
  /\ owner' = [owner EXCEPT ![g] = owner[source[g]]]
  /\ source' = [source EXCEPT ![g] = g]
  /\ UNCHANGED <<guardCount, isDraining, life, pc>>

\* The notification is sent when the count was already zero before.
ReleaseLateNotify(g) ==
  LET s == owner[g] IN
  /\ pc[g] = "idle" /\ s # NoSource /\ ~Taken(g)
  /\ guardCount' = [guardCount EXCEPT ![s] = @ - 1]
  /\ life' = [life EXCEPT ![s] = IF guardCount[s] = 0 /\ isDraining[s] /\ @ = "asleep"
                                 THEN "awake" ELSE @]
  /\ pc' = [pc EXCEPT ![g] = "forget"]
  /\ UNCHANGED <<isDraining, owner, source>>

\* A wake-up of the destructor is taken for the last release.
DrainWakeTrusting(s) ==
  /\ life[s] \in {"asleep", "awake"}
  /\ life' = [life EXCEPT ![s] = "gone"]
  /\ UNCHANGED <<guardCount, isDraining, owner, pc, source>>

-----------------------------------------------------------------------------
\* lifetime_source::try_guard(), its result constructed in the empty slot g.
\* It is called while the object exists, its destructor included.
TryGuard(s, g) ==
  /\ Free(g) /\ owner[g] = NoSource /\ life[s] # "gone"
  /\ ~isDraining[s]
  /\ guardCount' = [guardCount EXCEPT ![s] = @ + 1]
  /\ owner' = [owner EXCEPT ![g] = s]
  /\ UNCHANGED <<isDraining, life, pc, source>>

\* lifetime_guard(lifetime_guard&&), constructing g from h.
MoveConstruct(g, h) ==
  /\ g # h /\ Free(g) /\ Free(h) /\ owner[g] = NoSource /\ owner[h] # NoSource
  /\ owner' = [owner EXCEPT ![g] = owner[h], ![h] = NoSource]
  /\ UNCHANGED <<guardCount, isDraining, life, pc, source>>

\* operator=(lifetime_guard&&): this != &other, so g is reset first (Release and
\* Forget, when it holds something) and takes h's _owner after that (MoveOwner).
MoveAssign(g, h) ==
  /\ g # h /\ Free(g) /\ Free(h)
  /\ source' = [source EXCEPT ![g] = h]
  /\ UNCHANGED <<guardCount, isDraining, life, owner, pc>>

MoveOwner(g) ==
  /\ source[g] # g /\ pc[g] = "idle" /\ owner[g] = NoSource
  /\ owner' = [owner EXCEPT ![g] = owner[source[g]], ![source[g]] = NoSource]
  /\ source' = [source EXCEPT ![g] = g]
  /\ UNCHANGED <<guardCount, isDraining, life, pc>>

\* reset() under the owner's mutex, from the destructor or from operator=.
\* The notification is sent before the mutex is released.
Release(g) ==
  LET s == owner[g] IN
  /\ pc[g] = "idle" /\ s # NoSource
  /\ ~Taken(g)
  /\ guardCount' = [guardCount EXCEPT ![s] = @ - 1]
  /\ life' = [life EXCEPT ![s] = IF guardCount[s] = 1 /\ isDraining[s] /\ @ = "asleep"
                                 THEN "awake" ELSE @]
  /\ pc' = [pc EXCEPT ![g] = "forget"]
  /\ UNCHANGED <<isDraining, owner, source>>

\* reset() after the mutex: the source may be gone by now.
Forget(g) ==
  /\ pc[g] = "forget"
  /\ owner' = [owner EXCEPT ![g] = NoSource]
  /\ pc' = [pc EXCEPT ![g] = "idle"]
  /\ UNCHANGED <<guardCount, isDraining, life, source>>

\* ~lifetime_source(): closes the source and goes to sleep unless nobody holds it.
Destroy(s) ==
  /\ life[s] = "alive"
  /\ isDraining' = [isDraining EXCEPT ![s] = TRUE]
  /\ life' = [life EXCEPT ![s] = IF guardCount[s] = 0 THEN "gone" ELSE "asleep"]
  /\ UNCHANGED <<guardCount, owner, pc, source>>

\* The wait of the destructor wakes up, notified or not, and looks at the count.
DrainWake(s) ==
  /\ life[s] \in {"asleep", "awake"}
  /\ life' = [life EXCEPT ![s] = IF guardCount[s] = 0 THEN "gone" ELSE "asleep"]
  /\ UNCHANGED <<guardCount, isDraining, owner, pc, source>>

Next == \/ \E s \in Sources : Destroy(s) \/ DrainWake(s) \/ \E g \in Guards : TryGuard(s, g)
        \/ \E g \in Guards : Release(g) \/ Forget(g) \/ MoveOwner(g)
        \/ \E g, h \in Guards : MoveConstruct(g, h) \/ MoveAssign(g, h)

Spec == Init /\ [][Next]_vars

\* The destructor runs on once it has been NOTIFIED (spurious wake-ups are not
\* promised), and the detached work ends: whatever guards it is moved through,
\* it releases the source it keeps alive.  An assignment runs on.
Fairness == /\ \A s \in Sources : /\ WF_vars(life[s] = "awake" /\ DrainWake(s))
                                  /\ SF_vars(\E g \in Guards : owner[g] = s /\ Release(g))
            /\ \A g \in Guards : /\ WF_vars(source[g] # g /\ (Release(g) \/ MoveOwner(g)))
                                 /\ WF_vars(Forget(g))

FairSpec == Spec /\ Fairness

-----------------------------------------------------------------------------
TypeOK == /\ guardCount \in [Sources -> Nat]
          /\ isDraining \in [Sources -> BOOLEAN]
          /\ life \in [Sources -> {"alive", "asleep", "awake", "gone"}]
          /\ owner \in [Guards -> Sources \cup {NoSource}]
          /\ pc \in [Guards -> {"idle", "forget"}]
          /\ source \in [Guards -> Guards]

(* _guardCount is the number of guards that hold the source, whatever moves,  *)
(* assignments and releases are half way through.                             *)
CountIsHolders == \A s \in Sources : guardCount[s] = Cardinality(Holders(s))

(* A guard that still has to lock its owner's mutex never points at a source  *)
(* whose destructor has returned (the header's promise that the object stays  *)
(* alive while the work runs).                                                *)
NoDanglingOwner == \A g \in Guards, s \in Sources : Holds(g, s) => life[s] # "gone"

(* A destructor that has begun ends, as the outstanding work ends.            *)
DrainEnds == \A s \in Sources : isDraining[s] ~> life[s] = "gone"

(* The strengthening the proofs need: the two flags of a source agree with    *)
(* where its destructor is, and a guard being moved from is at rest.          *)
LifeOK == \A s \in Sources : /\ life[s] = "alive" <=> ~isDraining[s]
                             /\ life[s] = "gone" => guardCount[s] = 0
                             /\ life[s] = "asleep" => guardCount[s] # 0

SourceOK == \A g \in Guards :
              source[g] # g => /\ pc[source[g]] = "idle"
                               /\ source[source[g]] = source[g]

(* The count is exact, whatever moves, assignments and releases are half way  *)
(* through, and a destructor sleeps only while somebody is left to wake it.   *)
IInv == TypeOK /\ CountIsHolders /\ LifeOK /\ SourceOK

phase == [s \in Sources |-> IF life[s] = "gone" THEN "gone"
                            ELSE IF life[s] = "alive" THEN "open" ELSE "closed"]
held == [g \in Guards |-> IF pc[g] = "idle" THEN owner[g] ELSE NoSource]

Barrier == INSTANCE DrainBarrier

(* Count, flag and condition variable implement the drain barrier.            *)
ImplementsBarrier == Barrier!Spec
=============================================================================
