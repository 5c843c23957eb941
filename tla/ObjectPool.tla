----------------------------- MODULE ObjectPool -----------------------------
(***************************************************************************)
(* object_pool and object_pool_handle: a queue of objects nobody uses, and *)
(* handles that give theirs back. borrow() looks at the queue under the    *)
(* mutex and takes from it without; reset() gives the object back and      *)
(* forgets nothing, so that the destructor gives back what is left of it.  *)
(***************************************************************************)
EXTENDS Naturals, FiniteSets, SequencesExt

CONSTANTS Handles,
          MaxObjects    \* bound on the objects made, and on the length of the queue

VARIABLES objects,      \* _objects
          owned,        \* owned[h]: whether _owner is set
          object,       \* object[h]: _object, or Hollow once it was moved from
          looking,      \* borrow() calls past the mutex, which saw an object in the queue
          borrowing,    \* those that have moved an object out, with the object
          created,      \* how many the factory has made
          use           \* of the pool so far: careful, careless, or undefined

poolVars == <<objects, owned, object, looking, borrowing, created, use>>

Hollow == 0
Borrowers == DOMAIN borrowing
Pool == Range(objects)
InHands == {object[h] : h \in {g \in Handles : owned[g]}} \cup {borrowing[h] : h \in Borrowers}

Init == /\ objects = <<>> /\ created = 0
        /\ owned = [h \in Handles |-> FALSE]
        /\ object = [h \in Handles |-> Hollow]
        /\ looking = {} /\ borrowing = [h \in {} |-> Hollow] /\ use = "careful"

Free(h) == ~owned[h] /\ h \notin Borrowers \cup looking /\ use # "undefined"

\* A program is careful as long as nothing else happens to the pool while a borrow() is past the mutex.
Alone == use' = IF Borrowers \cup looking = {} THEN use ELSE "careless"

-----------------------------------------------------------------------------
\* borrow() of an empty pool: the factory is called under the mutex.
BorrowNew(h) ==
  /\ Free(h) /\ objects = <<>> /\ created < MaxObjects /\ Alone
  /\ created' = created + 1
  /\ owned' = [owned EXCEPT ![h] = TRUE]
  /\ object' = [object EXCEPT ![h] = created + 1]
  /\ UNCHANGED <<objects, looking, borrowing>>

\* A borrow() that sees an object gives up the mutex ...
BorrowLook(h) ==
  /\ Free(h) /\ objects # <<>> /\ Alone
  /\ looking' = looking \cup {h}
  /\ UNCHANGED <<objects, owned, object, borrowing, created>>

\* ... moves the first one out, which stays in the queue as a moved-from one ...
BorrowFront(h) ==
  /\ h \in looking /\ use # "undefined" /\ objects # <<>>
  /\ looking' = looking \ {h}
  /\ borrowing' = [g \in Borrowers \cup {h} |-> IF g = h THEN Head(objects) ELSE borrowing[g]]
  /\ objects' = [objects EXCEPT ![1] = Hollow]
  /\ UNCHANGED <<owned, object, created, use>>

\* ... until pop() takes the first one away, whichever it is by then.
BorrowPop(h) ==
  /\ h \in Borrowers /\ use # "undefined" /\ objects # <<>>
  /\ objects' = Tail(objects)
  /\ owned' = [owned EXCEPT ![h] = TRUE]
  /\ object' = [object EXCEPT ![h] = borrowing[h]]
  /\ borrowing' = [g \in Borrowers \ {h} |-> borrowing[g]]
  /\ UNCHANGED <<looking, created, use>>

\* Another one has emptied the queue since: front() or pop() of nothing.
BorrowNothing(h) ==
  /\ h \in looking \cup Borrowers /\ objects = <<>>
  /\ use # "undefined" /\ use' = "undefined"
  /\ UNCHANGED <<objects, owned, object, looking, borrowing, created>>

\* reset(), reclaim(): _owner stays.
Reclaim(h) ==
  /\ owned[h] /\ use # "undefined" /\ Len(objects) < MaxObjects
  /\ objects' = Append(objects, object[h])
  /\ object' = [object EXCEPT ![h] = Hollow]

Reset(h) == /\ Reclaim(h) /\ use' = "careless"
            /\ UNCHANGED <<owned, looking, borrowing, created>>

Destroy(h) == /\ Reclaim(h) /\ Alone
              /\ owned' = [owned EXCEPT ![h] = FALSE]
              /\ UNCHANGED <<looking, borrowing, created>>

\* operator=(object_pool_handle&&): reset(), then owner and object are swapped.
Assign(g, h) ==
  /\ g # h /\ {g, h} \cap (Borrowers \cup looking) = {} /\ use # "undefined"
  /\ IF owned[g]
     THEN /\ Len(objects) < MaxObjects /\ use' = "careless"
          /\ objects' = Append(objects, object[g])
     ELSE UNCHANGED <<objects, use>>
  /\ owned' = [owned EXCEPT ![g] = owned[h], ![h] = owned[g]]
  /\ object' = [object EXCEPT ![g] = object[h], ![h] = IF owned[g] THEN Hollow ELSE object[g]]
  /\ UNCHANGED <<looking, borrowing, created>>

\* The move constructor assigns to a handle whose _owner it has not initialised: reset() looks at what is there,
\* and calls it. What the memory holds is a null pointer (then it is Assign) or anything else.
MoveConstruct(g, h) ==
  /\ Free(g) /\ h \notin Borrowers \cup looking
  /\ g # h /\ use # "undefined" /\ use' = "undefined"
  /\ UNCHANGED <<objects, owned, object, looking, borrowing, created>>

Next == \/ \E h \in Handles : \/ BorrowNew(h) \/ BorrowLook(h) \/ BorrowFront(h) \/ BorrowPop(h) \/ BorrowNothing(h)
                            \/ Reset(h) \/ Destroy(h)
        \/ \E g, h \in Handles : Assign(g, h) \/ MoveConstruct(g, h)

-----------------------------------------------------------------------------
TypeOK == /\ created \in 0..MaxObjects /\ objects \in Seq(Hollow..created)
          /\ owned \in [Handles -> BOOLEAN] /\ object \in [Handles -> Hollow..created]
          /\ looking \subseteq Handles /\ Borrowers \subseteq Handles /\ borrowing \in [Borrowers -> Hollow..created]
          /\ use \in {"careful", "careless", "undefined"}

(* Every object the factory made has one place, the queue or one handle, and   *)
(* no handle has an object that was moved away: as long as one thread at a     *)
(* time borrows, and handles are destroyed or assigned to when they are empty. *)
OnePlace == use = "careful" =>
  /\ Borrowers = {} => Hollow \notin Pool /\ Pool \cup InHands = 1..created
  /\ Hollow \notin InHands /\ Pool \cap InHands = {}
  /\ Len(objects) = Cardinality(Pool)
  /\ Cardinality(InHands) = Cardinality({h \in Handles : owned[h]}) + Cardinality(Borrowers)

(* Whatever the program does to it, no object is in two places: what is lost   *)
(* is lost, and what is handed out twice is empty the second time.             *)
NeverTwice == \A n \in 1..created :
  Cardinality({i \in DOMAIN objects : objects[i] = n}) + Cardinality({h \in Borrowers : borrowing[h] = n})
    + Cardinality({h \in Handles : owned[h] /\ object[h] = n}) <= 1

-----------------------------------------------------------------------------
\* What the proofs rest on.
\* Two places have nothing in common but what was moved out of them.
Differ(n, m) == n = m => n = Hollow
ApartOK ==
  /\ \A i, j \in DOMAIN objects : i # j => Differ(objects[i], objects[j])
  /\ \A g, h \in Borrowers : g # h => Differ(borrowing[g], borrowing[h])
  /\ \A g, h \in Handles : g # h => Differ(object[g], object[h])
  /\ \A i \in DOMAIN objects : /\ \A h \in Borrowers : Differ(objects[i], borrowing[h])
                               /\ \A h \in Handles : Differ(objects[i], object[h])
  /\ \A g \in Borrowers, h \in Handles : Differ(borrowing[g], object[h])

\* A handle that is not owned has nothing, and who borrows is not owned yet.
OwnedOK == \A h \in Handles : /\ ~owned[h] => object[h] = Hollow
                              /\ h \in Borrowers => ~owned[h]

\* Who looks is not owned either, nor further; with care it is the only one, and what it saw is still there.
LookOK == /\ \A h \in looking : ~owned[h] /\ h \notin Borrowers
          /\ use = "careful" => /\ \A g, h \in looking : g = h
                                /\ looking # {} => Borrowers = {} /\ objects # <<>>

\* With care, only the borrower there is leaves a moved-from object, in front of the queue, and none is lost.
Kept(n) == \/ \E i \in DOMAIN objects : objects[i] = n
           \/ \E h \in Borrowers : borrowing[h] = n
           \/ \E h \in Handles : object[h] = n
CarefulOK == use = "careful" =>
  /\ \A h \in Handles : owned[h] => object[h] # Hollow
  /\ \A h \in Borrowers : borrowing[h] # Hollow
  /\ \A g, h \in Borrowers : g = h
  /\ \A i \in DOMAIN objects : objects[i] = Hollow <=> i = 1 /\ Borrowers # {}
  /\ Borrowers # {} => objects # <<>>
  /\ \A n \in 1..created : Kept(n)

IInv == TypeOK /\ ApartOK /\ OwnedOK /\ LookOK /\ CarefulOK
=============================================================================
