------------------------------ MODULE UdpClient ------------------------------
(***************************************************************************)
(* udp_client: a bound socket, and a thread that receives datagrams from   *)
(* it and raises message_received for each. The constructor starts the     *)
(* thread before it has stored it, the destructor forgets the thread       *)
(* before it has ended it; the thread looks at itself through that pointer. *)
(* The other sockets of the library are opened and closed the same way.    *)
(***************************************************************************)
EXTENDS Naturals, Sequences, SequencesExt

CONSTANTS MaxDatagrams    \* bound on what arrives

VARIABLES opc,        \* of the constructor and destructor
          socket,     \* _socket: none, open or closed
          receiver,   \* whether _receiver is set
          exiting,    \* is_exiting() of the thread
          rpc,        \* of receive()
          arrived,    \* the datagrams that reached the socket: their lengths, and the next to receive
          next, buffer, raised, subscribed

udpVars == <<opc, socket, receiver, exiting, rpc, arrived, next, buffer, raised, subscribed>>

Empty == 0
Full == 1

Init == /\ opc = "socket" /\ socket = "none" /\ receiver = FALSE /\ exiting = FALSE /\ rpc = "unborn"
        /\ arrived = <<>> /\ next = 1 /\ buffer = <<>> /\ raised = <<>> /\ subscribed = FALSE

\* A datagram comes to a bound socket.
Arrive(length) ==
  /\ socket = "open" /\ opc # "bind" /\ Len(arrived) < MaxDatagrams
  /\ arrived' = Append(arrived, length)
  /\ UNCHANGED <<opc, socket, receiver, exiting, rpc, next, buffer, raised, subscribed>>

-----------------------------------------------------------------------------
\* socket(): ensure_socket() and the options throw when there is none.
Open == /\ opc = "socket"
        /\ \/ socket' = "open" /\ opc' = "bind"
           \/ socket' = "none" /\ opc' = "thrown"
        /\ UNCHANGED <<receiver, exiting, rpc, arrived, next, buffer, raised, subscribed>>

\* bind() and the multicast group; a member that is complete is closed when the constructor throws.
Bind == /\ opc = "bind"
        /\ \/ opc' = "start" /\ UNCHANGED socket
           \/ opc' = "thrown" /\ socket' = "closed"
        /\ UNCHANGED <<receiver, exiting, rpc, arrived, next, buffer, raised, subscribed>>

\* make_unique<background_thread>() ...
Start == /\ opc = "start" /\ opc' = "started" /\ rpc' = "check"
         /\ UNCHANGED <<socket, receiver, exiting, arrived, next, buffer, raised, subscribed>>

\* ... and the assignment of its result.
Assign == /\ opc = "started" /\ opc' = "ready" /\ receiver' = TRUE
          /\ UNCHANGED <<socket, exiting, rpc, arrived, next, buffer, raised, subscribed>>

Subscribe == /\ opc = "ready" /\ ~subscribed /\ subscribed' = TRUE
             /\ UNCHANGED <<opc, socket, receiver, exiting, rpc, arrived, next, buffer, raised>>

\* ~udp_client(): _socket.reset() ...
Close == /\ opc = "ready" /\ opc' = "closed" /\ socket' = "closed"
         /\ UNCHANGED <<receiver, exiting, rpc, arrived, next, buffer, raised, subscribed>>

\* ... _receiver.reset(), which forgets the pointer first ...
Forget == /\ opc = "closed" /\ opc' = "forgotten" /\ receiver' = FALSE
          /\ UNCHANGED <<socket, exiting, rpc, arrived, next, buffer, raised, subscribed>>

\* ... and deletes the thread, which is told to exit and joined.
Signal == /\ opc = "forgotten" /\ opc' = "joining" /\ exiting' = TRUE
          /\ UNCHANGED <<socket, receiver, rpc, arrived, next, buffer, raised, subscribed>>

\* Mutant of the next: the thread is told to exit and not joined.
JoinNot == /\ opc = "joining" /\ opc' = "gone"
           /\ UNCHANGED <<socket, receiver, exiting, rpc, arrived, next, buffer, raised, subscribed>>

Join == /\ opc = "joining" /\ rpc = "ended" /\ opc' = "gone"
        /\ UNCHANGED <<socket, receiver, exiting, rpc, arrived, next, buffer, raised, subscribed>>

-----------------------------------------------------------------------------
\* receive(): while (!_receiver->is_exiting())
Check == /\ rpc = "check"
         /\ rpc' = IF ~receiver THEN "undefined" ELSE IF exiting THEN "ended" ELSE "receive"
         /\ UNCHANGED <<opc, socket, receiver, exiting, arrived, next, buffer, raised, subscribed>>

\* recvfrom(): an empty datagram ends the loop ...
Receive == /\ rpc = "receive" /\ socket = "open" /\ next <= Len(arrived)
           /\ buffer' = <<arrived[next]>> /\ next' = next + 1
           /\ rpc' = IF arrived[next] = Empty THEN "ended" ELSE "raise"
           /\ UNCHANGED <<opc, socket, receiver, exiting, arrived, raised, subscribed>>

\* ... and so does an error: a socket that was closed, or whatever the system reports of an earlier datagram.
Fail == /\ rpc = "receive" /\ rpc' = "ended"
        /\ UNCHANGED <<opc, socket, receiver, exiting, arrived, next, buffer, raised, subscribed>>

\* The handlers may throw; with none subscribed the datagram is gone.
Raise == /\ rpc = "raise" /\ rpc' = "check"
         /\ raised' = Append(raised, <<next - 1, subscribed>>) /\ buffer' = <<>>
         /\ UNCHANGED <<opc, socket, receiver, exiting, arrived, next, subscribed>>

Next == \/ \E length \in {Empty, Full} : Arrive(length)
        \/ Open \/ Bind \/ Start \/ Assign \/ Subscribe \/ Close \/ Forget \/ Signal \/ Join
        \/ Check \/ Receive \/ Fail \/ Raise

-----------------------------------------------------------------------------
TypeOK == /\ socket \in {"none", "open", "closed"} /\ rpc \in {"unborn", "check", "receive", "raise", "ended", "undefined"}
          /\ next \in 1..Len(arrived) + 1
          /\ opc \in {"socket", "bind", "start", "started", "ready", "closed", "forgotten", "joining", "gone", "thrown"}
          /\ arrived \in Seq({Empty, Full}) /\ buffer \in Seq({Empty, Full}) /\ raised \in Seq(Nat \X BOOLEAN)
          /\ receiver \in BOOLEAN /\ exiting \in BOOLEAN /\ subscribed \in BOOLEAN

(* Datagrams are passed on in the order they came, each once; the one that is  *)
(* missing is in the thread's hands, or has ended it.                          *)
PassedOn == /\ [i \in DOMAIN raised |-> raised[i][1]] = [i \in 1..Len(raised) |-> i]
            /\ next - 1 - Len(raised) = Len(buffer)

(* When the destructor has returned, nothing is received or raised any more,   *)
(* and a constructor that throws leaves no thread and no socket behind.        *)
QuietAtEnd == /\ opc = "gone" => rpc = "ended" /\ socket = "closed"
              /\ opc = "thrown" => rpc = "unborn" /\ socket # "open"
              /\ rpc = "raise" => opc \notin {"gone", "thrown"}

(* The thread finds itself whenever it looks.                                  *)
FindsItself == rpc # "undefined"

-----------------------------------------------------------------------------
\* What the proofs rest on: the thread has a datagram in its hands while it raises the event for it and at its end, and
\* the constructor and the destructor know where socket and thread are.
HandsOK == /\ rpc \in {"unborn", "check", "receive"} => buffer = <<>>
           /\ rpc = "raise" => Len(buffer) = 1
LifeOK == /\ opc \in {"socket", "bind", "start", "thrown"} => rpc = "unborn"
          /\ opc = "gone" => rpc = "ended"
          /\ opc \in {"closed", "forgotten", "joining", "gone"} => socket = "closed"
          /\ opc \in {"socket", "thrown"} => socket # "open"
IInv == TypeOK /\ PassedOn /\ HandsOK /\ LifeOK
=============================================================================
