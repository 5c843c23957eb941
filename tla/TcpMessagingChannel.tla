------------------------ MODULE TcpMessagingChannel ------------------------
(***************************************************************************)
(* One messaging_channel over TCP: a sender thread that drains the queue   *)
(* of message promises and sends heartbeats, a receiver thread, users that *)
(* send and cancel messages, and the owner that opens and destroys the     *)
(* channel.  (Networking/Messaging: MessageTask, MessagingChannel,         *)
(* TCP/TcpMessagingChannel.)                                               *)
(*                                                                         *)
(* _messagesToSend is a closable queue (BlockingCollection.tla); its order *)
(* plays no part here, so it is the set of messages at stage "queued".     *)
(* The network is external: the peer may vanish; what is written after     *)
(* that goes nowhere, and provokes a reset of the connection.              *)
(***************************************************************************)
EXTENDS Naturals

CONSTANT Messages   \* the messages users send, each one once

VARIABLES stage,       \* stage[m]: where the message_promise of m is
          future,      \* future[m]: "none", "pending", "true" or "false"
          written,     \* messages written to the socket stream
          isComplete,  \* _messagesToSend.complete() was called
          sock,        \* the socket: "open", "peerGone", "poked" (written to since), "reset", "closed"
          connected,   \* messaging_channel::_isConnected
          holder,      \* who holds messaging_channel::_mutex, or "none"
          raised,      \* how often the disconnected event was raised
          spc,         \* sender thread
          rpc,         \* receiver thread
          opc          \* owner

vars == <<stage, future, written, isComplete, sock, connected, holder, raised, spc, rpc, opc>>

queueVars == <<stage, future, written, isComplete>>
linkVars  == <<connected, holder, raised>>

Stages == {"new", "admitted", "queued", "taken", "gone", "refused"}

Init == /\ stage = [m \in Messages |-> "new"]
        /\ future = [m \in Messages |-> "none"]
        /\ written = {}
        /\ isComplete = FALSE
        /\ sock \in {"open", "peerGone"}
        /\ connected = TRUE
        /\ holder = "none"
        /\ raised = 0
        /\ spc = "off"
        /\ rpc = "off"
        /\ opc = "made"

Queued == {m \in Messages : stage[m] = "queued"}

-----------------------------------------------------------------------------
(* Mutants of the two definitions below. *)

\* ~message_promise leaves an undecided future as it is.
DropSilently(ms, s) ==
  /\ stage' = [m \in Messages |-> IF m \in ms THEN s ELSE stage[m]]
  /\ UNCHANGED future

\* The future is left to std::promise, which breaks it.
DropBroken(ms, s) ==
  /\ stage' = [m \in Messages |-> IF m \in ms THEN s ELSE stage[m]]
  /\ future' = [m \in Messages |-> IF m \in ms /\ future[m] = "pending" THEN "broken" ELSE future[m]]

-----------------------------------------------------------------------------
\* The promises of these messages are destroyed: undecided futures say false.
\* The messages leave for the stage s.
Drop(ms, s) ==
  /\ stage' = [m \in Messages |-> IF m \in ms THEN s ELSE stage[m]]
  /\ future' = [m \in Messages |-> IF m \in ms /\ future[m] = "pending" THEN "false" ELSE future[m]]

\* One message is decided, unless it was decided before.
Decide(m, outcome) ==
  future' = [future EXCEPT ![m] = IF @ = "pending" THEN outcome ELSE @]

-----------------------------------------------------------------------------
(* Mutants of the definitions below. *)

\* on_disconnected() without the second look under the mutex.
DiscEnterUnchecked(me) ==
  /\ holder = "none"
  /\ connected' = FALSE
  /\ holder' = me
  /\ UNCHANGED raised

\* An idle sender waits on without a heartbeat.
BeatLeftOut ==
  /\ spc = "beat"
  /\ spc' = "loop"
  /\ UNCHANGED <<queueVars, sock, linkVars, rpc, opc>>

\* The message is reported although the socket threw.
WriteFailedUnnoticed ==
  /\ spc = "write"
  /\ sock \in {"reset", "closed"}
  /\ \E m \in Messages :
       /\ stage[m] = "taken"
       /\ stage' = [stage EXCEPT ![m] = "gone"]
       /\ Decide(m, "true")
  /\ spc' = "complete"
  /\ UNCHANGED <<written, isComplete, sock, linkVars, rpc, opc>>

\* The destructor does not wait for the sender.
JoinSenderNot ==
  /\ opc = "joinSender"
  /\ opc' = "drop"
  /\ UNCHANGED <<queueVars, sock, linkVars, spc, rpc>>

-----------------------------------------------------------------------------
(* Users.  The owners of a channel keep it alive during a send, so a send     *)
(* starts before destruction does and destruction waits for it.               *)

\* send_message(): promise and task are made, add() admits the item ...
SendStart(m) ==
  /\ opc \in {"made", "opening", "open"}
  /\ stage[m] = "new" /\ ~isComplete
  /\ stage' = [stage EXCEPT ![m] = "admitted"]
  /\ future' = [future EXCEPT ![m] = "pending"]
  /\ UNCHANGED <<written, isComplete, sock, linkVars, spc, rpc, opc>>

\* ... or throws: the promise dies with the call and no task is returned.
SendRefused(m) ==
  /\ opc \in {"made", "opening", "open"}
  /\ stage[m] = "new" /\ isComplete
  /\ stage' = [stage EXCEPT ![m] = "refused"]
  /\ UNCHANGED <<future, written, isComplete, sock, linkVars, spc, rpc, opc>>

\* ... and pushes it, complete or not by now.
SendPush(m) ==
  /\ stage[m] = "admitted"
  /\ stage' = [stage EXCEPT ![m] = "queued"]
  /\ UNCHANGED <<future, written, isComplete, sock, linkVars, spc, rpc, opc>>

\* message_task::cancel(), while somebody still owns the promise.
Cancel(m) ==
  /\ stage[m] \in {"queued", "taken"}
  /\ Decide(m, "false")
  /\ UNCHANGED <<stage, written, isComplete, sock, linkVars, spc, rpc, opc>>

-----------------------------------------------------------------------------
(* The network. *)

PeerVanish == /\ sock = "open"
              /\ sock' = "peerGone"
              /\ UNCHANGED <<queueVars, linkVars, spc, rpc, opc>>

\* Only what is written to a vanished peer is answered by a reset.
NetReset == /\ sock = "poked"
            /\ sock' = "reset"
            /\ UNCHANGED <<queueVars, linkVars, spc, rpc, opc>>

Writable == sock \in {"open", "peerGone", "poked"}
Poke == sock' = IF sock = "peerGone" THEN "poked" ELSE sock

-----------------------------------------------------------------------------
(* messaging_channel::on_disconnected(), called by sender, receiver and the   *)
(* destructor: a look without the mutex, a look with it, the handlers run     *)
(* while it is held.                                                          *)

DiscEnter(me) ==
  /\ holder = "none"
  /\ connected' = FALSE
  /\ holder' = IF connected THEN me ELSE "none"
  /\ UNCHANGED raised

DiscRaise(me) ==
  /\ holder = me
  /\ raised' = raised + 1
  /\ holder' = "none"
  /\ UNCHANGED connected

-----------------------------------------------------------------------------
(* The sender thread: send_messages(). *)

SenderStart ==
  /\ spc = "start"
  /\ spc' = IF sock = "closed" THEN "complete" ELSE "loop"
  /\ UNCHANGED <<queueVars, sock, linkVars, rpc, opc>>

SenderLoop ==
  /\ spc = "loop"
  /\ spc' = IF connected THEN "get" ELSE "complete"
  /\ UNCHANGED <<queueVars, sock, linkVars, rpc, opc>>

\* try_get() with 200 ms: a message, or a heartbeat when the time is over.
SenderGet ==
  /\ spc = "get"
  /\ \/ /\ Queued = {}
        /\ spc' = "beat"
        /\ UNCHANGED stage
     \/ \E m \in Queued : /\ stage' = [stage EXCEPT ![m] = "taken"]
                          /\ spc' = "write"
  /\ UNCHANGED <<future, written, isComplete, sock, linkVars, rpc, opc>>

\* The socket accepts the message.
SenderWrite ==
  /\ spc = "write"
  /\ Writable
  /\ written' = written \cup {m \in Messages : stage[m] = "taken"}
  /\ Poke
  /\ spc' = "finish"
  /\ UNCHANGED <<stage, future, isComplete, linkVars, rpc, opc>>

\* The socket throws: the message in hand is dropped, the loop is left.
WriteFailed ==
  /\ spc = "write"
  /\ sock \in {"reset", "closed"}
  /\ Drop({m \in Messages : stage[m] = "taken"}, "gone")
  /\ spc' = "complete"
  /\ UNCHANGED <<written, isComplete, sock, linkVars, rpc, opc>>

\* task->finish(true); the sender lets go of the promise.
SenderFinish ==
  /\ spc = "finish"
  /\ \E m \in Messages : /\ stage[m] = "taken"
                         /\ stage' = [stage EXCEPT ![m] = "gone"]
                         /\ Decide(m, "true")
  /\ spc' = "loop"
  /\ UNCHANGED <<written, isComplete, sock, linkVars, rpc, opc>>

SenderBeat ==
  /\ spc = "beat"
  /\ spc' = IF Writable THEN "loop" ELSE "complete"
  /\ Poke
  /\ UNCHANGED <<queueVars, linkVars, rpc, opc>>

SenderComplete ==
  /\ spc = "complete"
  /\ isComplete' = TRUE
  /\ spc' = "clear"
  /\ UNCHANGED <<stage, future, written, sock, linkVars, rpc, opc>>

SenderClear ==
  /\ spc = "clear"
  /\ Drop(Queued, "gone")
  /\ spc' = "disc"
  /\ UNCHANGED <<written, isComplete, sock, linkVars, rpc, opc>>

SenderLook ==
  /\ spc = "disc"
  /\ spc' = IF connected THEN "lock" ELSE "done"
  /\ UNCHANGED <<queueVars, sock, linkVars, rpc, opc>>

SenderLock ==
  /\ spc = "lock"
  /\ DiscEnter("sender")
  /\ spc' = IF holder' = "sender" THEN "raise" ELSE "done"
  /\ UNCHANGED <<queueVars, sock, rpc, opc>>

SenderRaise ==
  /\ spc = "raise"
  /\ DiscRaise("sender")
  /\ spc' = "done"
  /\ UNCHANGED <<queueVars, sock, rpc, opc>>

Sender == \/ SenderStart \/ SenderLoop \/ SenderGet \/ SenderWrite \/ WriteFailed
          \/ SenderFinish \/ SenderBeat \/ SenderComplete \/ SenderClear
          \/ SenderLook \/ SenderLock \/ SenderRaise

-----------------------------------------------------------------------------
(* The receiver thread: receive_messages(). *)

ReceiverStart ==
  /\ rpc = "start"
  /\ rpc' = IF sock = "closed" THEN "disc" ELSE "loop"
  /\ UNCHANGED <<queueVars, sock, linkVars, spc, opc>>

ReceiverLoop ==
  /\ rpc = "loop"
  /\ rpc' = IF connected THEN "read" ELSE "disc"
  /\ UNCHANGED <<queueVars, sock, linkVars, spc, opc>>

\* A message or heartbeat arrives; on_received() runs the user's handlers.
ReceiverGet ==
  /\ rpc = "read" /\ sock = "open"
  /\ rpc' = "loop"
  /\ UNCHANGED <<queueVars, sock, linkVars, spc, opc>>

\* The socket throws, or what arrives has the wrong magic.  (When the peer has
\* closed its side, recv() returns 0 and socket_stream::read() asks again and
\* again: nothing happens until the socket is reset or closed.)
ReceiverFail ==
  /\ rpc = "read" /\ sock \notin {"peerGone", "poked"}
  /\ rpc' = "disc"
  /\ UNCHANGED <<queueVars, sock, linkVars, spc, opc>>

ReceiverLook ==
  /\ rpc = "disc"
  /\ rpc' = IF connected THEN "lock" ELSE "done"
  /\ UNCHANGED <<queueVars, sock, linkVars, spc, opc>>

ReceiverLock ==
  /\ rpc = "lock"
  /\ DiscEnter("receiver")
  /\ rpc' = IF holder' = "receiver" THEN "raise" ELSE "done"
  /\ UNCHANGED <<queueVars, sock, spc, opc>>

ReceiverRaise ==
  /\ rpc = "raise"
  /\ DiscRaise("receiver")
  /\ rpc' = "done"
  /\ UNCHANGED <<queueVars, sock, spc, opc>>

Receiver == \/ ReceiverStart \/ ReceiverLoop \/ ReceiverGet \/ ReceiverFail
            \/ ReceiverLook \/ ReceiverLock \/ ReceiverRaise

-----------------------------------------------------------------------------
(* The owner. *)

\* open(): on_opening() starts the sender, then the receiver.
OpenSender ==
  /\ opc = "made"
  /\ opc' = "opening"
  /\ spc' = "start"
  /\ UNCHANGED <<queueVars, sock, linkVars, rpc>>

OpenReceiver ==
  /\ opc = "opening"
  /\ opc' = "open"
  /\ rpc' = "start"
  /\ UNCHANGED <<queueVars, sock, linkVars, spc>>

\* ~tcp_messaging_channel(), at any time outside open() and the users' sends.
CloseSocket ==
  /\ opc \in {"made", "open"}
  /\ \A m \in Messages : stage[m] # "admitted"
  /\ sock' = "closed"
  /\ opc' = "joinReceiver"
  /\ UNCHANGED <<queueVars, linkVars, spc, rpc>>

JoinReceiver ==
  /\ opc = "joinReceiver"
  /\ rpc \in {"off", "done"}
  /\ opc' = "joinSender"
  /\ UNCHANGED <<queueVars, sock, linkVars, spc, rpc>>

JoinSender ==
  /\ opc = "joinSender"
  /\ spc \in {"off", "done"}
  /\ opc' = "drop"
  /\ UNCHANGED <<queueVars, sock, linkVars, spc, rpc>>

\* The members go: ~blocking_collection completes the queue and drops its items.
DropQueue ==
  /\ opc = "drop"
  /\ isComplete' = TRUE
  /\ Drop(Queued, "gone")
  /\ opc' = "disc"
  /\ UNCHANGED <<written, sock, linkVars, spc, rpc>>

\* ~messaging_channel(): on_disconnected() once more.
OwnerLook ==
  /\ opc = "disc"
  /\ opc' = IF connected THEN "lock" ELSE "gone"
  /\ UNCHANGED <<queueVars, sock, linkVars, spc, rpc>>

OwnerLock ==
  /\ opc = "lock"
  /\ DiscEnter("owner")
  /\ opc' = IF holder' = "owner" THEN "raise" ELSE "gone"
  /\ UNCHANGED <<queueVars, sock, spc, rpc>>

OwnerRaise ==
  /\ opc = "raise"
  /\ DiscRaise("owner")
  /\ opc' = "gone"
  /\ UNCHANGED <<queueVars, sock, spc, rpc>>

Owner == \/ OpenSender \/ OpenReceiver \/ CloseSocket \/ JoinReceiver \/ JoinSender
         \/ DropQueue \/ OwnerLook \/ OwnerLock \/ OwnerRaise

Next == \/ \E m \in Messages : SendStart(m) \/ SendRefused(m) \/ SendPush(m) \/ Cancel(m)
        \/ PeerVanish \/ NetReset
        \/ Sender \/ Receiver \/ Owner

Spec == Init /\ [][Next]_vars

\* Threads and calls run on; what is written to a vanished peer is answered by
\* a reset in the end; the owner opens the channel it has made, and destroys one that
\* has reported its disconnection (as messaging_client and messaging_server
\* do).  Nobody has to send, nothing has to arrive, nobody has to close an
\* intact channel.
Fairness ==
  /\ WF_vars(Sender)
  /\ WF_vars(ReceiverStart \/ ReceiverLoop \/ ReceiverLook \/ ReceiverLock \/ ReceiverRaise)
  /\ WF_vars(sock \in {"reset", "closed"} /\ ReceiverFail)
  /\ WF_vars(NetReset)
  /\ \A m \in Messages : WF_vars(SendPush(m))
  /\ WF_vars(Owner /\ (opc = "open" => raised > 0))

FairSpec == Spec /\ Fairness

-----------------------------------------------------------------------------
DiscPcs == {"disc", "lock", "raise"}

TypeOK ==
  /\ stage \in [Messages -> Stages]
  /\ future \in [Messages -> {"none", "pending", "true", "false"}]
  /\ written \subseteq Messages
  /\ isComplete \in BOOLEAN
  /\ sock \in {"open", "peerGone", "poked", "reset", "closed"}
  /\ connected \in BOOLEAN
  /\ holder \in {"none", "sender", "receiver", "owner"}
  /\ raised \in Nat
  /\ spc \in {"off", "start", "loop", "get", "write", "finish", "beat", "complete", "clear",
              "done"} \cup DiscPcs
  /\ rpc \in {"off", "start", "loop", "read", "done"} \cup DiscPcs
  /\ opc \in {"made", "opening", "open", "joinReceiver", "joinSender", "drop", "gone"} \cup DiscPcs

(* Three parties may find the channel disconnected, in any order; whoever is  *)
(* the first reports it, and nobody reports it a second time.                 *)
DisconnectedOnce == raised <= 1 /\ (raised = 1 => ~connected)

(* A destroyed channel leaves nothing behind: no thread of its own that could *)
(* touch it once its members go, and, when it is gone, no sender that waits   *)
(* for a future still undecided.                                              *)
ThreadsJoined == opc \in {"drop", "gone"} \cup DiscPcs =>
                   spc \in {"off", "done"} /\ rpc \in {"off", "done"}
NoOrphanFuture == opc = "gone" => \A m \in Messages : future[m] # "pending"
NothingLeft == ThreadsJoined /\ NoOrphanFuture

(* Every accepted message gets its answer: sent, cancelled, dropped by a      *)
(* broken connection, or pushed after the sender thread had cleared the queue.*)
FuturesDecided == \A m \in Messages : future[m] = "pending" ~> future[m] \in {"true", "false"}

(* A vanished peer is noticed by an opened channel, although recv() does not  *)
(* report it: the sender's heartbeat provokes a reset and runs into it.        *)
PeerLossNoticed == (sock # "open" /\ opc = "open") ~> raised = 1

-----------------------------------------------------------------------------
(* What the proofs add. *)

\* The first to find the channel connected holds the mutex until it has reported.
LinkOK == /\ connected => holder = "none" /\ raised = 0
          /\ ~connected => IF holder = "none" THEN raised = 1 ELSE raised = 0

Closing == opc \in {"joinReceiver", "joinSender", "drop", "gone"} \cup DiscPcs
Joined == opc \in {"drop", "gone"} \cup DiscPcs

\* The sender starts with open(); destruction waits for the users' sends, then
\* for the threads.
JoinOK == /\ opc = "made" => spc = "off"
          /\ Closing => \A m \in Messages : stage[m] # "admitted"
          /\ opc = "joinSender" \/ Joined => rpc \in {"off", "done"}
          /\ Joined => spc \in {"off", "done"}

\* Where a promise is tells whether it is decided; the sender holds at most
\* one, and finishes it after it has been written.
PromiseOK == /\ \A m \in Messages : /\ future[m] = "none" <=> stage[m] \in {"new", "refused"}
                                    /\ stage[m] = "gone" => future[m] # "pending"
                                    /\ stage[m] = "taken" => spc \in {"write", "finish"}
                                    /\ stage[m] = "taken" /\ spc = "finish" => m \in written
             /\ \A m, n \in Messages : stage[m] = "taken" /\ stage[n] = "taken" => m = n
             /\ opc \in {"gone"} \cup DiscPcs => \A m \in Messages : stage[m] # "queued"

(* Who reports the disconnection, who is joined and who answers a promise is  *)
(* settled in every state: one reporter, no thread left when the queue goes,  *)
(* one message in the sender's hands.                                         *)
IInv == TypeOK /\ LinkOK /\ JoinOK /\ PromiseOK

Outcome == INSTANCE MessageOutcome

(* Promise, queue and threads implement the outcome of a message: decided     *)
(* once, and true only when the message was written.                          *)
ImplementsOutcome == Outcome!Spec
=============================================================================
