--------------------------- MODULE MCQueueServer ---------------------------
(***************************************************************************)
(* Things that many threads share, each by itself: a behaviour picks one   *)
(* part at the start and runs it.                                          *)
(*                                                                         *)
(* "queue": two producers of two items each, and a crew of consumers chosen*)
(* at the start; the others never make a call. "server": up to two         *)
(* connections in the life of one messaging server.                        *)
(*                                                                         *)
(* The theorems at the end hold for every set of producers, consumers and  *)
(* channels: event and contents of a collection agree; with a single       *)
(* consumer it implements the closable queue: false is returned at the end *)
(* only; and what is proved of the server holds beside it.                 *)
(***************************************************************************)
EXTENDS BlockingCollection, SequenceTheorems, TLAPS

CONSTANTS Parts,      \* the parts to run
          Crews,      \* the sets of consumers that may be the readers
          Channels, None

VARIABLES part, readers,
          lpc, cur, thread, handler, keeper, news, left, casting, spc, closing, locked, shutting

Server == INSTANCE MessagingServer WITH owner <- keeper

serverVars == <<lpc, cur, thread, handler, keeper, news, left, casting, spc, closing, locked, shutting>>

PartsInit == /\ part \in Parts
             /\ Init /\ readers \in Crews /\ (part = "queue" <=> readers # {})
             /\ Server!Init

PartsNext ==
  /\ UNCHANGED <<part, readers>>
  /\ \/ /\ part = "queue" /\ Next /\ UNCHANGED serverVars
        /\ \A c \in Consumers \ readers : pc'[c] = pc[c]
     \/ part = "server" /\ Server!Next /\ UNCHANGED vars

\* Who has begun a call of the collection runs on, and a reader calls again. A
\* part at rest, as the other finds it, owes nothing.
ReadersFairness ==
  /\ \A p \in Producers : WF_vars(AddPush(p))
  /\ \A c \in Consumers :
       /\ WF_vars(c \in readers /\ GetStart(c))
       /\ WF_vars(c \in readers /\ (Take(c) \/ FindNothing(c) \/ Awake(c) \/ TimeOut(c)))
  /\ WF_vars(CompleteSet)

PartsSpec == /\ PartsInit /\ [][PartsNext]_<<part, vars, readers, serverVars>>
             /\ ReadersFairness /\ Server!Fairness

-----------------------------------------------------------------------------
(* A reader of the documented loop, without a timeout, stops after complete().*)
ReaderStops ==
  \A c \in Consumers \ Timed : (isComplete /\ c \in readers) ~> pc[c] = "stopped"

(* The properties of the server, stated and explained in its module: a        *)
(* broadcast meets no freed channel, and a freed channel reports nothing;     *)
(* list and threads agree; and what is lost, or destroyed, comes to its end.  *)
ServerSafe ==
  Server!TypeOK /\ Server!BroadcastSafe /\ Server!FreedQuiet /\ Server!ListMatchesConnections
ServerEnds == Server!LossHandled /\ Server!FlaggedShutdownEnds
ShutdownEnds == Server!ShutdownEnds

-----------------------------------------------------------------------------
(* A queue is empty after the removal of its only item, and only then.        *)
LEMMA TailEmpty ==
  ASSUME NEW T, NEW q \in Seq(T), q # <<>>
  PROVE  Tail(q) = <<>> <=> Len(q) = 1
  <1>1. Tail(q) \in Seq(T) /\ Len(Tail(q)) = Len(q) - 1 /\ Len(q) \in Nat \ {0}
    BY HeadTailProperties, EmptySeq
  <1>2. Tail(q) = <<>> <=> Len(Tail(q)) = 0
    BY <1>1, EmptySeq
  <1> QED BY <1>1, <1>2

-----------------------------------------------------------------------------
(* The initial states satisfy the inductive invariant.                        *)
LEMMA InitInv == Init => IInv
  <1> SUFFICES ASSUME Init PROVE IInv
    OBVIOUS
  <1>1. <<>> \in Seq(Items)
    BY EmptySeq
  <1>2. added \in [Producers -> 0 .. MaxAdds]
    BY QueueAssumption DEF Init
  <1>3. pc \in [Producers \cup Consumers -> {"idle"}]
    BY DEF Init
  <1>4. TypeOK
    BY <1>1, <1>2, <1>3 DEF Init, TypeOK
  <1>5. CallsOK
    BY <1>3 DEF Init, CallsOK
  <1> QED BY <1>4, <1>5 DEF Init, IInv, ItemsSignalled, SignalMeansWork

(* No step leaves it.                                                         *)
LEMMA NextInv == IInv /\ [Next]_vars => IInv'
  <1> SUFFICES ASSUME IInv, [Next]_vars PROVE IInv'
    OBVIOUS
  <1> USE QueueAssumption
      DEF IInv, TypeOK, CallsOK, ItemsSignalled, SignalMeansWork, At
  <1>1. ASSUME NEW p \in Producers, AddCheck(p) PROVE IInv'
    <2>1. added[p] + 1 \in 0 .. MaxAdds /\ added[p] + 1 > 0
      BY <1>1 DEF AddCheck
    <2>2. TypeOK'
      BY <1>1, <2>1 DEF AddCheck
    <2>3. CallsOK'
      BY <1>1, <2>1 DEF AddCheck
    <2> QED BY <1>1, <2>2, <2>3 DEF AddCheck
  <1>2. ASSUME NEW p \in Producers, AddRefused(p) PROVE IInv'
    BY <1>2 DEF AddRefused
  <1>3. ASSUME NEW p \in Producers, AddPush(p) PROVE IInv'
    <2>1. <<p, added[p]>> \in Items
      BY <1>3 DEF AddPush, Items
    <2>2. collection' \in Seq(Items) /\ collection' # <<>>
      BY <1>3, <2>1, AppendProperties DEF AddPush
    <2>3. TypeOK' /\ CallsOK'
      BY <1>3, <2>2 DEF AddPush
    <2> QED BY <1>3, <2>2, <2>3 DEF AddPush
  <1>4. ASSUME NEW c \in Consumers, GetStart(c) PROVE IInv'
    BY <1>4 DEF GetStart
  <1>5. ASSUME NEW c \in Consumers, Take(c) PROVE IInv'
    <2>1. /\ Head(collection) \in Items /\ collection' \in Seq(Items)
          /\ collection' = <<>> <=> Len(collection) = 1
      BY <1>5, HeadTailProperties, TailEmpty DEF Take
    <2>2. taken' \in Seq(Items)
      BY <1>5, <2>1, AppendProperties DEF Take
    <2>3. TypeOK' /\ CallsOK'
      BY <1>5, <2>1, <2>2 DEF Take
    <2> QED BY <1>5, <2>1, <2>3 DEF Take
  <1>6. ASSUME NEW c \in Consumers, FindNothing(c) PROVE IInv'
    BY <1>6 DEF FindNothing
  <1>7. ASSUME NEW c \in Consumers, Awake(c) \/ TimeOut(c) PROVE IInv'
    BY <1>7 DEF Awake, TimeOut
  <1>8. CASE CompleteFlag \/ CompleteSet
    BY <1>8 DEF CompleteFlag, CompleteSet
  <1>9. CASE Clear
    BY <1>9, EmptySeq DEF Clear
  <1>10. CASE UNCHANGED vars
    BY <1>10 DEF vars
  <1> QED
    BY <1>1, <1>2, <1>3, <1>4, <1>5, <1>6, <1>7, <1>8, <1>9, <1>10 DEF Next

(* The event is raised while an item is in the queue, and raised without one  *)
(* only after complete(), for any number of producers and consumers.          *)
THEOREM EventMatchesQueue == Spec => []IInv
  BY InitInv, NextInv, PTL DEF Spec

-----------------------------------------------------------------------------
(* A single reader's second look finds what the event announced.              *)
LEMMA OneReader ==
  ASSUME NEW r, Consumers = {r}
  PROVE  Spec => []SecondLookFinds
  <1>1. Init => SecondLookFinds
    BY DEF Init, SecondLookFinds
  <1>2. IInv /\ SecondLookFinds /\ [Next]_vars => SecondLookFinds'
    <2> SUFFICES ASSUME IInv, SecondLookFinds, [Next]_vars PROVE SecondLookFinds'
      OBVIOUS
    <2> USE QueueAssumption DEF IInv, TypeOK, SecondLookFinds, At
    <2>1. ASSUME NEW p \in Producers, AddCheck(p) \/ AddRefused(p) PROVE SecondLookFinds'
      BY <2>1 DEF AddCheck, AddRefused
    <2>2. ASSUME NEW p \in Producers, AddPush(p) PROVE SecondLookFinds'
      <3>1. <<p, added[p]>> \in Items
        BY <2>2 DEF AddPush, CallsOK, Items
      <3>2. collection' # <<>>
        BY <2>2, <3>1, AppendProperties DEF AddPush
      <3> QED BY <3>2
    <2>3. CASE GetStart(r) \/ FindNothing(r) \/ TimeOut(r)
      BY <2>3 DEF GetStart, FindNothing, TimeOut
    <2>4. CASE Take(r)
      BY <2>4 DEF Take
    <2>5. CASE Awake(r)
      BY <2>5 DEF Awake, SignalMeansWork
    <2>6. CASE CompleteFlag \/ CompleteSet \/ Clear
      BY <2>6 DEF CompleteFlag, CompleteSet, Clear, CallsOK
    <2>7. CASE UNCHANGED vars
      BY <2>7 DEF vars
    <2> QED BY <2>1, <2>2, <2>3, <2>4, <2>5, <2>6, <2>7 DEF Next
  <1> QED BY <1>1, <1>2, EventMatchesQueue, PTL DEF Spec

(* The states of the collection map to states of the closable queue.          *)
LEMMA QueueInit == Init => Queue!Init
  <1> SUFFICES ASSUME Init PROVE Queue!Init
    OBVIOUS
  <1>1. \A x \in Items : pc[x[1]] = "idle"
    BY DEF Init, Items
  <1>2. \A c \in Consumers : pc[c] = "idle"
    BY DEF Init
  <1> QED BY <1>1, <1>2 DEF Init, Queue!Init

LEMMA QueueNext == IInv /\ SecondLookFinds /\ [Next]_vars => [Queue!Next]_(Queue!vars)
  <1> SUFFICES ASSUME IInv, SecondLookFinds, [Next]_vars
               PROVE  [Queue!Next]_(Queue!vars)
    OBVIOUS
  <1> DEFINE Admitted == {x \in Items : pc[x[1]] = "adding" /\ x[2] = added[x[1]]}
             Ended == {c \in Consumers : pc[c] = "stopped"}
  <1> USE QueueAssumption DEF IInv, TypeOK, At
  <1>1. ASSUME NEW p \in Producers, AddCheck(p) PROVE Queue!Next
    <2> DEFINE x == <<p, added[p] + 1>>
    <2>1. x \in Items
      BY <1>1 DEF AddCheck, Items
    <2>2. Admitted' = Admitted \cup {x}
      BY <1>1 DEF AddCheck, Items
    <2>3. Ended' = Ended
      BY <1>1 DEF AddCheck
    <2> QED BY <1>1, <2>1, <2>2, <2>3 DEF AddCheck, Queue!Next, Queue!Admit
  <1>2. ASSUME NEW p \in Producers, AddRefused(p) PROVE UNCHANGED Queue!vars
    <2>1. Admitted' = Admitted
      BY <1>2 DEF AddRefused, Items
    <2>2. Ended' = Ended
      BY <1>2 DEF AddRefused
    <2> QED BY <1>2, <2>1, <2>2 DEF AddRefused, Queue!vars
  <1>3. ASSUME NEW p \in Producers, AddPush(p) PROVE Queue!Next
    <2> DEFINE x == <<p, added[p]>>
    <2>1. x \in Admitted
      BY <1>3 DEF AddPush, CallsOK, Items
    <2>2. Admitted' = Admitted \ {x}
      BY <1>3 DEF AddPush, Items
    <2>3. Ended' = Ended
      BY <1>3 DEF AddPush
    <2> QED BY <1>3, <2>1, <2>2, <2>3 DEF AddPush, Queue!Next, Queue!Put
  <1>4. ASSUME NEW c \in Consumers PROVE \A p \in Producers : c # p
    OBVIOUS
  <1>5. ASSUME NEW c \in Consumers, GetStart(c) \/ Awake(c) \/ TimeOut(c)
        PROVE  UNCHANGED Queue!vars
    <2>1. Admitted' = Admitted
      BY <1>5, <1>4 DEF GetStart, Awake, TimeOut, Items
    <2>2. Ended' = Ended
      BY <1>5 DEF GetStart, Awake, TimeOut
    <2> QED BY <1>5, <2>1, <2>2 DEF GetStart, Awake, TimeOut, Queue!vars
  <1>6. ASSUME NEW c \in Consumers, Take(c) PROVE Queue!Next
    <2>1. Admitted' = Admitted
      BY <1>6, <1>4 DEF Take, Items
    <2>2. Ended' = Ended
      BY <1>6 DEF Take
    <2> QED BY <1>6, <2>1, <2>2 DEF Take, Queue!Next, Queue!Take
  <1>7. ASSUME NEW c \in Consumers, FindNothing(c) PROVE [Queue!Next]_(Queue!vars)
    <2>1. Admitted' = Admitted
      BY <1>7, <1>4 DEF FindNothing, Items
    <2>2. CASE c \notin Timed /\ (pc[c] = "second" \/ isComplete)
      <3>1. isComplete
        BY <1>7, <2>2 DEF FindNothing, SecondLookFinds
      <3>2. Ended' = Ended \cup {c}
        BY <1>7, <2>2 DEF FindNothing
      <3> QED BY <1>7, <2>1, <2>2, <3>1, <3>2 DEF FindNothing, Queue!Next, Queue!End
    <2>3. CASE ~(c \notin Timed /\ (pc[c] = "second" \/ isComplete))
      <3>1. Ended' = Ended
        BY <1>7, <2>3 DEF FindNothing
      <3> QED BY <1>7, <2>1, <3>1 DEF FindNothing, Queue!vars
    <2> QED BY <2>2, <2>3
  <1>8. CASE CompleteFlag
    BY <1>8 DEF CompleteFlag, Queue!Next, Queue!Close
  <1>9. CASE CompleteSet
    BY <1>9 DEF CompleteSet, Queue!vars
  <1>10. CASE Clear
    BY <1>10 DEF Clear, CallsOK, Queue!Next, Queue!Drop
  <1>11. CASE UNCHANGED vars
    BY <1>11 DEF vars, Queue!vars
  <1> QED
    BY <1>1, <1>2, <1>3, <1>5, <1>6, <1>7, <1>8, <1>9, <1>10, <1>11 DEF Next

(* A collection with one consumer implements the closable queue: first in,    *)
(* first out, nothing lost or repeated, and false only at the end.            *)
THEOREM QueueRefinement ==
  ASSUME NEW r, Consumers = {r}
  PROVE  Spec => ImplementsQueue
  <1>1. Spec => []SecondLookFinds
    BY OneReader
  <1> QED BY <1>1, QueueInit, QueueNext, EventMatchesQueue, PTL
          DEF Spec, ImplementsQueue, Queue!Spec

-----------------------------------------------------------------------------
(* A behaviour of the parts is one of the collection,                         *)
LEMMA QueuePart == PartsSpec => Spec
  <1>1. PartsInit => Init
    BY DEF PartsInit
  <1>2. [PartsNext]_<<part, vars, readers, serverVars>> => [Next]_vars
    BY DEF PartsNext
  <1> QED BY <1>1, <1>2, PTL DEF PartsSpec, Spec

(* and one of the server.                                                     *)
LEMMA ServerPart == PartsSpec => Server!Spec
  <1>1. PartsInit => Server!Init
    BY DEF PartsInit
  <1>2. [PartsNext]_<<part, vars, readers, serverVars>> => [Server!Next]_(Server!vars)
    BY DEF PartsNext, serverVars, Server!vars
  <1> QED BY <1>1, <1>2, PTL DEF PartsSpec, Server!Spec

(* Whatever connections, broadcasts and the destructor do, a broadcast meets  *)
(* no channel that has left the list, list and connections agree, and nobody  *)
(* frees a channel under its own handler.                                     *)
THEOREM ServerKept == PartsSpec => []ServerSafe
  <1>1. Server!Spec => [](Server!TypeOK /\ Server!BroadcastSafe /\ Server!ListMatchesConnections /\ Server!FreedQuiet)
    BY Server!ChannelsKept
  <1> QED BY <1>1, ServerPart, PTL DEF ServerSafe
=============================================================================
