------------------------- MODULE ObservableCollection -------------------------
(***************************************************************************)
(* Collections/ObservableExtensions.h: a sorted collection that is shown   *)
(* to a user is brought up to date item by item, so that what has not      *)
(* changed is left alone. Whoever observes the collection sees it after    *)
(* every change of it, and each one is a step.                             *)
(*                                                                         *)
(* An item is [id, rank, text]; compare() orders items by rank, and map()  *)
(* copies them.                                                            *)
(***************************************************************************)
EXTENDS Integers, SequencesExt, FiniteSetsExt

VARIABLES
  source,               \* what is to be shown
  before,               \* what was shown when the call began
  target,               \* what is shown
  itemsToDelete,        \* ids
  upserted,             \* how many items of the source have been
  moved,                \* whether the next one has left its old place
  place                 \* where the search for old items is

Ids(items) == {item.id : item \in Range(items)}

Begin(from, to) ==
  /\ source = from /\ before = to /\ target = to /\ itemsToDelete = Ids(to)
  /\ upserted = 0 /\ moved = FALSE /\ place = 1

-----------------------------------------------------------------------------
Item == source[upserted + 1]

\* Mutant of OldPlaces: an item leaves its place whether its rank has changed or not.
OldPlacesOfAnyRank == {i \in DOMAIN target : target[i].id = Item.id}

\* Where the item is with another rank, and where the items begin that do not come before it.
OldPlaces == {i \in DOMAIN target : target[i].id = Item.id /\ target[i].rank # Item.rank}
NextPlaces == {i \in DOMAIN target : target[i].rank >= Item.rank}

LeaveOldPlace ==
  /\ upserted < Len(source) /\ ~moved
  /\ itemsToDelete' = itemsToDelete \ {Item.id}
  /\ target' = IF OldPlaces = {} THEN target ELSE RemoveAt(target, Min(OldPlaces))
  /\ moved' = TRUE
  /\ UNCHANGED <<source, before, upserted, place>>

Put(next) ==
  IF target[next].id = Item.id THEN [target EXCEPT ![next] = Item] ELSE InsertAt(target, next, Item)

AddOrUpdate ==
  /\ moved
  /\ target' = IF NextPlaces = {} THEN Append(target, Item) ELSE Put(Min(NextPlaces))
  /\ moved' = FALSE
  /\ upserted' = upserted + 1
  /\ UNCHANGED <<source, before, itemsToDelete, place>>

RemoveOld ==
  /\ upserted = Len(source) /\ place <= Len(target)
  /\ IF target[place].id \in itemsToDelete THEN target' = RemoveAt(target, place) /\ UNCHANGED place
     ELSE place' = place + 1 /\ UNCHANGED target
  /\ UNCHANGED <<source, before, itemsToDelete, upserted, moved>>

Next == LeaveOldPlace \/ AddOrUpdate \/ RemoveOld

-----------------------------------------------------------------------------
\* No two items of one source have one rank: with ties, the code finds another item where the old one is, and shows
\* it twice.
Distinct(items) == \A i, j \in DOMAIN items : i # j => items[i].id # items[j].id /\ items[i].rank # items[j].rank
Ordered(items) == \A i, j \in DOMAIN items : i < j => items[i].rank < items[j].rank

(* Whoever looks in between never sees an item twice or behind a later one.   *)
ShownInOrder ==
  \A i, j \in DOMAIN target : i < j => target[i].id # target[j].id /\ target[i].rank <= target[j].rank

(* What was shown and is to be shown in the same order is never taken away,   *)
(* whatever else moves.                                                       *)
LeftAlone ==
  \A old \in Range(before), new \in Range(source) :
    old.id = new.id /\ old.rank = new.rank => \E item \in Range(target) : item.id = new.id /\ item.rank = new.rank

(* In the end the target shows the items of the source, each once and in      *)
(* order of rank, whatever it showed before, whatever has moved, and whatever *)
(* the order of the source is.                                                *)
ShowsSource ==
  upserted = Len(source) /\ place > Len(target) => Ordered(target) /\ Range(target) = Range(source)
=============================================================================
