--------------------------- MODULE OwningPointers ---------------------------
(***************************************************************************)
(* The move-only and copyable owners of the library: value_ptr (a value    *)
(* and a function that copies it), any_ptr (a value, its type and its      *)
(* deleter), void_ptr (bytes and a function that copies them), locked_ptr  *)
(* (a shared lock and the value under it), recursion_lock (one count of a  *)
(* recursion_counter) and background_thread (a running worker). Each owns  *)
(* at most one cell and must end it once: delete, free, unlock, count      *)
(* down, or signal and join. A behaviour has objects of one kind.          *)
(*                                                                         *)
(* A constructor is an assignment to an empty object, a destructor a       *)
(* reset() of an object that is empty after it.                            *)
(***************************************************************************)
EXTENDS Naturals, FiniteSets, Sequences

CONSTANTS Slots,      \* the pointer objects
          MaxCells    \* bound on the cells made

VARIABLES kind,       \* of the pointers
          held,       \* held[s]: the cell, or None
          tag,        \* tag[s]: what is kept beside it: _copyConstructor, _deleter and _type, _copy
          actual,     \* actual[c]: the type the cell was made with
          ended,      \* ended[c]: how often the cell was ended
          given,      \* cells the program got as a std pointer
          usage       \* so far: careful, self_assigned, or gone (terminated, or undefined)

pointerVars == <<kind, held, tag, actual, ended, given, usage>>

Kinds == {"value", "any", "void", "locked", "recursion", "thread"}
Types == {"copied", "unique"}     \* unique has no copy constructor
None == 0
NoTag == "none"
Made == 1..Len(actual)

Init == /\ kind \in Kinds
        /\ held = [s \in Slots |-> None] /\ tag = [s \in Slots |-> NoTag]
        /\ actual = <<>> /\ ended = <<>> /\ given = {} /\ usage = "careful"

Ended(cell, counts) == IF cell = None THEN counts ELSE [counts EXCEPT ![cell] = @ + 1]
Uses(s, r) == usage' = IF s = r THEN "self_assigned" ELSE usage
Gone == usage' = "gone" /\ UNCHANGED <<held, tag, actual, ended, given>>

-----------------------------------------------------------------------------
\* value_ptr(new T), any_ptr::create(), void_ptr(value), locked_ptr(mutex, value), recursion_counter::lock() and
\* background_thread(action), into an object whose old cell is ended.
Create(s, t) ==
  /\ Len(actual) < MaxCells
  /\ kind = "void" => t = "copied"
  /\ actual' = Append(actual, t) /\ ended' = Append(Ended(held[s], ended), 0)
  /\ held' = [held EXCEPT ![s] = Len(actual')] /\ tag' = [tag EXCEPT ![s] = t]
  /\ UNCHANGED <<given, usage>>

\* Mutant of the next: the source keeps what it had.
MoveKept(s, r) ==
  /\ s # r
  /\ ended' = Ended(held[s], ended)
  /\ held' = [held EXCEPT ![s] = held[r]] /\ tag' = [tag EXCEPT ![s] = tag[r]]
  /\ UNCHANGED <<actual, given, usage>>

\* operator=(T&&) of all but two: reset(), then the other's members are taken and cleared.
MoveAssign(s, r) ==
  /\ kind \notin {"locked", "recursion"} /\ Uses(s, r)
  /\ ended' = Ended(held[s], ended)
  /\ held' = [held EXCEPT ![s] = held[r], ![r] = None]
  /\ tag' = [tag EXCEPT ![s] = tag[r], ![r] = NoTag]
  /\ UNCHANGED <<actual, given>>

\* locked_ptr unlocks first and exchanges then: a pointer moved to itself still holds what it has unlocked.
MoveLocked(s, r) ==
  /\ kind = "locked" /\ usage' = IF s = r THEN "gone" ELSE usage
  /\ ended' = Ended(held[s], ended)
  /\ held' = [held EXCEPT ![r] = None, ![s] = held[r]]
  /\ tag' = [tag EXCEPT ![r] = NoTag, ![s] = tag[r]]
  /\ UNCHANGED <<actual, given>>

\* recursion_lock swaps: the other one counts down later.
Swap(s, r) ==
  /\ kind \in {"recursion", "value"} /\ s # r
  /\ held' = [held EXCEPT ![s] = held[r], ![r] = held[s]]
  /\ tag' = [tag EXCEPT ![s] = tag[r], ![r] = tag[s]]
  /\ UNCHANGED <<actual, ended, given, usage>>

\* The move constructors of these two look at a member they have not initialised: null by chance, or not.
MoveConstruct(s, r) ==
  /\ kind \in {"locked", "recursion"} /\ s # r /\ held[s] = None /\ Gone

-----------------------------------------------------------------------------
\* The copier makes a cell of the type it was made for; value_ptr's may not throw, void_ptr's is called at any rate.
CopyAssign(s, r) ==
  LET reset == Ended(held[s], ended)
      source == IF s = r THEN None ELSE held[r]
  IN /\ kind \in {"value", "void"} /\ Len(actual) < MaxCells
     /\ \/ /\ source # None /\ tag[r] = "copied" /\ Uses(s, r)
           /\ actual' = Append(actual, tag[r]) /\ ended' = Append(reset, 0)
           /\ held' = [held EXCEPT ![s] = Len(actual')] /\ tag' = [tag EXCEPT ![s] = tag[r]]
           /\ UNCHANGED given
        \/ /\ source = None /\ kind = "value" /\ Uses(s, r)
           /\ ended' = reset
           /\ held' = [held EXCEPT ![s] = None] /\ tag' = [tag EXCEPT ![s] = NoTag]
           /\ UNCHANGED <<actual, given>>
        \/ /\ IF source = None THEN kind = "void" ELSE tag[r] = "unique"
           /\ Gone

\* operator unique_ptr, operator shared_ptr: a copy for the program.
Convert(s) ==
  /\ kind = "value" /\ held[s] # None /\ Len(actual) < MaxCells
  /\ IF tag[s] = "unique" THEN Gone
     ELSE /\ actual' = Append(actual, tag[s]) /\ ended' = Append(ended, 0)
          /\ given' = given \cup {Len(actual')}
          /\ UNCHANGED <<held, tag, usage>>

\* release(): the cell itself for the program.
Release(s) ==
  /\ kind = "value" /\ held[s] # None
  /\ given' = given \cup {held[s]}
  /\ held' = [held EXCEPT ![s] = None] /\ tag' = [tag EXCEPT ![s] = NoTag]
  /\ UNCHANGED <<actual, ended, usage>>

\* reset(), or the destructor.
Reset(s) ==
  /\ held[s] # None
  /\ ended' = Ended(held[s], ended)
  /\ held' = [held EXCEPT ![s] = None] /\ tag' = [tag EXCEPT ![s] = NoTag]
  /\ UNCHANGED <<actual, given, usage>>

\* A worker that ends its own background_thread: reset() throws out of a destructor or assignment that may not.
ResetByWorker(s) == kind = "thread" /\ held[s] # None /\ Gone

Next == /\ usage # "gone" /\ kind' = kind
        /\ \/ \E s \in Slots : \/ \E t \in Types : Create(s, t)
                               \/ Convert(s) \/ Release(s) \/ Reset(s) \/ ResetByWorker(s)
           \/ \E s, r \in Slots : \/ MoveAssign(s, r) \/ MoveLocked(s, r) \/ Swap(s, r)
                                  \/ MoveConstruct(s, r) \/ CopyAssign(s, r)

-----------------------------------------------------------------------------
TypeOK == /\ kind \in Kinds /\ usage \in {"careful", "self_assigned", "gone"}
          /\ held \in [Slots -> Made \cup {None}] /\ tag \in [Slots -> Types \cup {NoTag}]
          /\ actual \in Seq(Types) /\ ended \in Seq(Nat)
          /\ Len(ended) = Len(actual) /\ given \subseteq Made

(* A cell is ended once, and not while somebody has it: whatever is assigned   *)
(* to what, except that a locked_ptr moved to itself unlocks twice.            *)
EndedOnce == (kind = "locked" => usage # "gone") =>
  \A c \in Made : /\ ended[c] <= 1
                  /\ Cardinality({s \in Slots : held[s] = c}) + Cardinality(given \cap {c}) + ended[c] = 1

(* What a pointer keeps beside the cell belongs to it: it is copied, deleted   *)
(* and compared as what it was made, after any number of moves and swaps.      *)
TagFits == \A s \in Slots : IF held[s] = None THEN tag[s] = NoTag ELSE tag[s] = actual[held[s]]

-----------------------------------------------------------------------------
\* What the proofs rest on: a cell is in one slot, with the program, or ended.
Held(c) == \E s \in Slots : held[s] = c
CellsFit == \A c \in Made :
  /\ ended[c] = IF Held(c) \/ c \in given THEN 0 ELSE 1
  /\ Held(c) => c \notin given
  /\ \A s, r \in Slots : held[s] = c /\ held[r] = c => s = r

IInv == TypeOK /\ TagFits /\ ((kind = "locked" => usage # "gone") => CellsFit)
=============================================================================
