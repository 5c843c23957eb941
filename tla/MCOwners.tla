------------------------------ MODULE MCOwners ------------------------------
(***************************************************************************)
(* Things that own others, each by itself: a behaviour picks one part at   *)
(* the start and runs it.                                                  *)
(*                                                                         *)
(* Checked with two sources and three guard slots, enough for a guard of   *)
(* one source to be move-assigned over a guard of the other while both     *)
(* drain; one messaging client with one channel at a time, the number of   *)
(* reconnections unbounded; two threads at a container and its child, with *)
(* a service, a view that is nothing unless it is made an alias of the     *)
(* service, and a store that needs both; two threads, items and tokens at  *)
(* a registry; a pool with more handles than objects; and two pointers of  *)
(* a kind, with three cells.                                               *)
(***************************************************************************)
EXTENDS LifetimeGuard

CONSTANTS Parts,       \* the parts to run
          Users, Nobody,    \* the threads at the container and the registry
          Default, Aliases, Creatable, MaxCalls,    \* of the container,
          Items, Tokens, Once,    \* the registry,
          Handles, MaxObjects,    \* the pool,
          Slots, MaxCells    \* and the pointers

ASSUME OwnersAssumption == /\ Nobody \notin Users
                           /\ IsFiniteSet(Handles) /\ MaxObjects \in Nat
                           /\ IsFiniteSet(Slots) /\ MaxCells \in Nat

VARIABLES part, cpc, mpc, tpc, channel, shutting, signal, mutex,
          regs, stack, made, calls, given,
          items, readers, upc, raising, callback, heard, failed,
          objects, owned, object, looking, borrowing, created, use,
          kind, cell, tag, actual, ended, released, usage

\* The program at the container.
Factory(method, needs) == [kind |-> method, container |-> "root", needs |-> needs, object |-> <<>>]
StoreTypes == [service |-> Factory("make", <<>>), store |-> Factory("make", <<"service", "view">>),
               view |-> Factory("nothing", <<>>)]
StoreAliases == {<<"view", "service">>}

Client == INSTANCE MessagingClient
Container == INSTANCE DependencyContainer WITH Threads <- Users, NoThread <- Nobody
ASSUME ProgramAssumption == MaxCalls \in Nat /\ Container!ProgramOK /\ Container!Acyclic

Registry == INSTANCE Registry
Pool == INSTANCE ObjectPool
Pointers == INSTANCE OwningPointers WITH held <- cell, given <- released

clientVars == <<cpc, mpc, tpc, channel, shutting, signal, mutex>>
containerVars == <<regs, stack, made, calls, given>>
registryVars == <<items, readers, upc, raising, callback, heard, failed>>
poolVars == <<objects, owned, object, looking, borrowing, created, use>>
pointerVars == <<kind, cell, tag, actual, ended, released, usage>>

\* What is chosen in the initial state of one part is of no concern to another.
OwnersInit == /\ part \in Parts
              /\ Init /\ Client!Init /\ Container!Init /\ Registry!Init /\ Pool!Init
              /\ Pointers!Init /\ (part # "pointers" => kind = "any")

OwnersNext ==
  /\ UNCHANGED part
  /\ \/ part = "lifetime" /\ Next /\ UNCHANGED <<clientVars, containerVars, registryVars, poolVars, pointerVars>>
     \/ part = "client" /\ Client!Next /\ UNCHANGED <<vars, containerVars, registryVars, poolVars, pointerVars>>
     \/ part = "container" /\ Container!Next /\ UNCHANGED <<vars, clientVars, registryVars, poolVars, pointerVars>>
     \/ part = "registry" /\ Registry!Next /\ UNCHANGED <<vars, clientVars, containerVars, poolVars, pointerVars>>
     \/ part = "pool" /\ Pool!Next /\ UNCHANGED <<vars, clientVars, containerVars, registryVars, pointerVars>>
     \/ part = "pointers" /\ Pointers!Next /\ UNCHANGED <<vars, clientVars, containerVars, registryVars, poolVars>>

\* A part at rest, as the others find it, owes nothing.
OwnersSpec == /\ OwnersInit
              /\ [][OwnersNext]_<<part, vars, clientVars, containerVars, registryVars, poolVars, pointerVars>>
              /\ Fairness /\ Client!Fairness

-----------------------------------------------------------------------------
(* The properties of messaging_client, stated and explained in its module:    *)
(* what its states never show, what follows a lost channel and how its        *)
(* destructor ends;                                                           *)
ClientSafe == Client!TypeOK /\ Client!LossNotMissed /\ Client!PublishesIntoNone
ClientEnds == Client!Reconnects /\ Client!DropEnds /\ Client!ConnectedShutdownEnds
ShutdownEnds == Client!ShutdownEnds

(* those of dependency_container,                                             *)
ContainerSafe == Container!TypeOK /\ Container!OneInstance /\ Container!PartsShared
ContainerRuns == Container!HeldForFrames /\ Container!NobodyStuck

(* and those of registry, object_pool and the owning pointers.                *)
OwnershipSafe == /\ Registry!TypeOK /\ Registry!ListenersKnow /\ Registry!TokensRemove
                 /\ Pool!TypeOK /\ Pool!OnePlace /\ Pool!NeverTwice
                 /\ Pointers!TypeOK /\ Pointers!EndedOnce /\ Pointers!TagFits
SnapshotsAreStable == Registry!SnapshotsAreStable
=============================================================================
