-------------------------- MODULE MCInfrastructure --------------------------
(***************************************************************************)
(* The parts of Threading, Infrastructure and Networking that share no     *)
(* state, each by itself: a behaviour picks one part at the start and runs *)
(* it.                                                                     *)
(*                                                                         *)
(* Three threads at an event, two of which wait with a time limit.         *)
(* Four handlers and two tokens: the counter comes round while a handler   *)
(* is registered and another put off; two raises inside each other.        *)
(* A buffer of eight bytes: three segments between free slots.             *)
(* Two workers of an operation, with a progress report each; two threads   *)
(* and three callbacks at a dispatcher; two threads and three log entries, *)
(* one of which may fall below the severity. Three datagrams, empty or     *)
(* full; one provider and one locator, two ids and two addresses.         *)
(***************************************************************************)
EXTENDS ResetEvent, Naturals, Sequences

CONSTANTS Parts,    \* the parts to run
          Handlers, NoHandler, TokenCount, MaxDepth,    \* of the events,
          Size, Alignments,    \* the buffer,
          Workers, Callers, Noone, MaxUpdates,    \* the operation,
          Users, Callbacks, MaxFrames,    \* the dispatcher, whose threads are those
          Entries, Levels,    \* of the log,
          MaxDatagrams,    \* the UDP client,
          Providers, Locators, Ids, Service, Announced    \* and the discovery

ASSUME PartsAssumption ==
  /\ TokenCount \in Nat \ {0} /\ NoHandler \notin Handlers
  /\ Size \in Nat \ {0} /\ Alignments \subseteq Nat
  /\ Noone \notin Workers /\ MaxUpdates \in Nat
  /\ "process_pending_invocations" \notin Callbacks /\ MaxFrames \in Nat
  /\ MaxDatagrams \in Nat
  /\ "any" \notin Providers /\ Len(Announced) \in Nat

VARIABLES part,
          local, opc, hpc, registered, stored, copied, waiting, fired, shuttingDown,
          result, freed, dying, stray,
          handlers, toAdd, toRemove, nextToken, raises, token, revoked, thrown,
          freeSpace, given, undefined,
          source, bound, subscribed, lock, info, cancelled, updates, heard, missed, wpc, count, cpc, seen,
          workItems, frames, promised, submitted, started, alive,
          severity, logging, logged, refused, worker, written, shutdown, intime, queue, closed, admitted, taken, ended,
          udpOwner, socket, receiver, exiting, rpc, arrived, next, buffer, raised, listening,
          services, apc, answering, wire, sent, found

\* What is logged, by severities, and announced.
ThreeEntries == <<1, 2, 2>>
TwoAddresses == <<[host |-> "any", port |-> 1], [host |-> "other", port |-> 2]>>

Awaiter == INSTANCE EventAwaiter
Events == INSTANCE EventHandlers WITH Width <- TokenCount
Buffer == INSTANCE BufferAllocator WITH Width <- 4 * Size
Operation == INSTANCE AsyncOperation
Dispatcher == INSTANCE ManualDispatcher WITH Threads <- Users, MaxDepth <- MaxFrames, outcome <- promised
Log == INSTANCE Logger WITH Threads <- Users
Udp == INSTANCE UdpClient WITH opc <- udpOwner, subscribed <- listening
Discovery == INSTANCE ServiceDiscovery WITH hpc <- answering

awaiterVars == <<local, opc, hpc, registered, stored, copied, waiting, fired, shuttingDown,
                 result, freed, dying, stray>>
eventVars == <<handlers, toAdd, toRemove, nextToken, raises, token, revoked, thrown>>
bufferVars == <<freeSpace, given, undefined>>
operationVars == <<source, bound, subscribed, lock, info, cancelled, updates, heard, missed, wpc, count, cpc, seen>>
dispatcherVars == <<workItems, frames, promised, submitted, started, alive>>
logVars == <<severity, logging, logged, refused, worker, written, shutdown, intime, queue, closed, admitted, taken, ended>>
udpVars == <<udpOwner, socket, receiver, exiting, rpc, arrived, next, buffer, raised, listening>>
discoveryVars == <<services, apc, answering, wire, sent, found>>

\* What is chosen in the initial state of one part is of no concern to another.
PartsInit ==
  /\ part \in Parts
  /\ Init /\ (part # "reset" => autoReset /\ signal)
  /\ Awaiter!Init /\ (part # "awaiter" => local)
  /\ Log!Init /\ (part # "log" => severity = 1)
  /\ Events!Init /\ Buffer!Init /\ Operation!Init /\ Dispatcher!Init /\ Udp!Init /\ Discovery!Init

EventsRun ==
  /\ \/ part = "reset" /\ Next /\ UNCHANGED <<awaiterVars, eventVars, bufferVars>>
     \/ part = "awaiter" /\ Awaiter!Next /\ UNCHANGED <<vars, eventVars, bufferVars>>
     \/ part = "events" /\ Events!Next /\ UNCHANGED <<vars, awaiterVars, bufferVars>>
     \/ part = "buffer" /\ Buffer!Next /\ UNCHANGED <<vars, awaiterVars, eventVars>>
  /\ UNCHANGED <<part, operationVars, dispatcherVars, logVars, udpVars, discoveryVars>>

WorkRuns ==
  /\ \/ part = "operation" /\ Operation!Next /\ UNCHANGED <<dispatcherVars, logVars, udpVars, discoveryVars>>
     \/ part = "dispatcher" /\ Dispatcher!Next /\ UNCHANGED <<operationVars, logVars, udpVars, discoveryVars>>
     \/ part = "log" /\ Log!Next /\ UNCHANGED <<operationVars, dispatcherVars, udpVars, discoveryVars>>
     \/ part = "udp" /\ Udp!Next /\ UNCHANGED <<operationVars, dispatcherVars, logVars, discoveryVars>>
     \/ part = "discovery" /\ Discovery!Next /\ UNCHANGED <<operationVars, dispatcherVars, logVars, udpVars>>
  /\ UNCHANGED <<part, vars, awaiterVars, eventVars, bufferVars>>

partsVars == <<part, vars, awaiterVars, eventVars, bufferVars,
               operationVars, dispatcherVars, logVars, udpVars, discoveryVars>>

PartsSpec == PartsInit /\ [][EventsRun \/ WorkRuns]_partsVars

\* A part at rest, as the others find it, owes nothing.
FairPartsSpec == PartsSpec /\ Fairness /\ Log!Fairness /\ (\A l \in Locators, p \in Providers : Discovery!Fairness(l, p))

-----------------------------------------------------------------------------
(* The properties of the parts, stated and explained in their modules: those  *)
(* of ResetEvent by their own names, then of event_awaiter,                   *)
AwaiterSafe == Awaiter!TypeOK /\ Awaiter!HeldOff /\ Awaiter!NobodyForgotten
WaitReturns == Awaiter!WaitReturns

(* of event_handler_collection,                                               *)
EventsSafe == Events!TypeOK /\ Events!KeepsToken /\ Events!PutOffUntilEnd
RevokedRemoved == Events!RevokedRemoved

(* of buffer_allocator,                                                       *)
BufferSafe == Buffer!TypeOK /\ Buffer!TiledUnlessMoved /\ Buffer!Coalesced
AlwaysTiled == Buffer!AlwaysTiled

(* of async_operation,                                                        *)
OperationSafe == Operation!TypeOK /\ Operation!HeardInOrder /\ Operation!SeenWhole
CancelAnyTime == Operation!CancelAnyTime

(* of manual_dispatcher and logger, what events and dispatcher never do,       *)
StepsAreSafe == Events!StableWhileRaised /\ Dispatcher!Drained
WorkInOrder == Dispatcher!TypeOK /\ Dispatcher!InOrderOnce /\ Log!TypeOK /\ Log!LogKept

(* and of udp_client and service discovery.                                   *)
NetworkSafe == Udp!TypeOK /\ Udp!PassedOn /\ Udp!QuietAtEnd /\ Discovery!TypeOK /\ Discovery!FoundReachable /\ Discovery!SentInOrder
ArrivesInTheEnd == Log!LogWritten /\ Discovery!LocatorFinds
=============================================================================
