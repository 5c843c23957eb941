-------------------------- MODULE MessagingServer --------------------------
(***************************************************************************)
(* tcp_messaging_server: a listener thread that registers, announces and   *)
(* opens the channel of every connection it accepts; the channels' own     *)
(* threads, which take a lost channel off the list and hand it to a        *)
(* detached thread to be destroyed; users that broadcast; and the          *)
(* destructor, which stops the listener and destroys the channels left.    *)
(*                                                                         *)
(* A channel is that of TcpMessagingChannel.tla, reduced to the thread     *)
(* that reports its disconnection, which it does exactly once, and to the  *)
(* handlers of its messages; the channel's events exclude the two.  _mutex *)
(* is a shared_mutex: broadcasts share it, everybody else excludes them.   *)
(* A handler of any event may return, broadcast, or throw.                 *)
(***************************************************************************)
EXTENDS TLAPS

CONSTANTS Channels, None

VARIABLES lpc,       \* listener thread: worker() and on_client_connected()
          cur,       \* the channel it works on
          thread,    \* per channel, the thread that reports its disconnection
          handler,   \* per channel, a handler on its threads that broadcasts:
                     \* "none", "call" when it waits for _mutex, or "cast"
          owner,     \* per channel, who holds its unique_ptr; "clients" is the list
          news,      \* per channel, the last event raised about it
          left,      \* the channels a broadcast has still to send to
          casting,   \* whose broadcast holds _mutex, shared
          spc,       \* destructor
          closing,   \* the channel it destroys
          locked,    \* whether it holds _mutex
          shutting   \* _isShuttingDown

vars == <<lpc, cur, thread, handler, owner, news, left, casting, spc, closing, locked, shutting>>

listener == <<lpc, cur>>
channel == <<thread, handler, owner, news>>
broadcast == <<left, casting>>
server == <<spc, closing, locked, shutting>>

Init == /\ lpc = "accept" /\ cur = None
        /\ thread = [c \in Channels |-> "none"]
        /\ handler = [c \in Channels |-> "none"]
        /\ owner = [c \in Channels |-> "none"]
        /\ news = [c \in Channels |-> "none"]
        /\ left = {} /\ casting = "nobody"
        /\ spc = "run" /\ closing = None /\ locked = FALSE
        /\ shutting = FALSE

Clients == {c \in Channels : owner[c] = "clients"}

CanExclude == ~locked /\ casting = "nobody"

\* The exception of a handler below a destructor has not ended the process.
Running == \A c \in Channels : thread[c] # "terminated"

Listen(from, to) == Running /\ lpc = from /\ lpc' = to
Serve(from, to) == Running /\ spc = from /\ spc' = to

\* The reporting thread of c goes on when no handler of c broadcasts.
Report(c, from, to) == /\ Running /\ thread[c] = from /\ handler[c] = "none"
                       /\ thread' = [thread EXCEPT ![c] = to]

-----------------------------------------------------------------------------
(* Mutants of the definitions below. *)

\* A lost channel is taken off the list while a broadcast walks it.
RemoveUnlocked(c) ==
  /\ Report(c, "lock", "raise")
  /\ ~locked
  /\ owner' = [owner EXCEPT ![c] = "handler"]
  /\ UNCHANGED <<listener, handler, news, broadcast, server>>

\* A lost channel is taken off the list and leaked.
DeleteForgotten(c) ==
  /\ Report(c, "async", "done")
  /\ UNCHANGED <<listener, handler, owner, news, broadcast, server>>

-----------------------------------------------------------------------------
(* The listener thread. *)

Accept(c) == /\ Listen("accept", "register")
             /\ spc = "run" /\ owner[c] = "none"
             /\ cur' = c
             /\ owner' = [owner EXCEPT ![c] = "listener"]
             /\ UNCHANGED <<thread, handler, news, broadcast, server>>

Register == /\ Listen("register", "raise")
            /\ CanExclude
            /\ owner' = [owner EXCEPT ![cur] = "clients"]
            /\ UNCHANGED <<cur, thread, handler, news, broadcast, server>>

\* A handler that throws ends the listener thread.
RaiseConnected == /\ Listen("raise", "sender") \/ Listen("raise", "over")
                  /\ casting # "listener"
                  /\ news' = [news EXCEPT ![cur] = "connected"]
                  /\ UNCHANGED <<cur, thread, handler, owner, broadcast, server>>

\* client->open(): a channel may be lost as soon as its sender runs.
OpenSender == /\ Listen("sender", "receiver")
              /\ thread' = [thread EXCEPT ![cur] = "run"]
              /\ UNCHANGED <<cur, handler, owner, news, broadcast, server>>

OpenReceiver == /\ Listen("receiver", "accept")
                /\ cur' = None
                /\ UNCHANGED <<channel, broadcast, server>>

ListenerEnd == /\ Listen("accept", "over")
               /\ spc # "run"
               /\ UNCHANGED <<cur, channel, broadcast, server>>

Listener == \/ \E c \in Channels : Accept(c)
            \/ Register \/ RaiseConnected \/ OpenSender \/ OpenReceiver \/ ListenerEnd

-----------------------------------------------------------------------------
(* The thread of channel c: on_client_disconnected(), and the thread that     *)
(* destroys it.                                                               *)

Lose(c) == /\ Report(c, "run", "check")
           /\ UNCHANGED <<listener, handler, owner, news, broadcast, server>>

CheckFlag(c) == /\ Report(c, "check", IF shutting THEN "raise" ELSE "lock")
                /\ UNCHANGED <<listener, handler, owner, news, broadcast, server>>

Remove(c) == /\ Report(c, "lock", "raise")
             /\ CanExclude
             /\ owner' = [owner EXCEPT ![c] = IF @ = "clients" THEN "handler" ELSE @]
             /\ UNCHANGED <<listener, handler, news, broadcast, server>>

RaiseDisconnected(c) == /\ Report(c, "raise", "async")
                        /\ news' = [news EXCEPT ![c] = "disconnected"]
                        /\ UNCHANGED <<listener, handler, owner, broadcast, server>>

\* A handler throws.  A channel that was taken off the list is destroyed by the
\* local pointer, on a thread of its own: the join of the other thread does not
\* return when that one waits for the channel's events, and the join of itself
\* throws out of a destructor.  Of any other channel the thread just ends.
RaiseThrows(c) ==
  /\ \/ /\ owner[c] = "handler"
        /\ Report(c, "raise", "stuck") \/ Report(c, "raise", "terminated")
     \/ owner[c] # "handler" /\ Report(c, "raise", "done")
  /\ news' = [news EXCEPT ![c] = "disconnected"]
  /\ UNCHANGED <<listener, handler, owner, broadcast, server>>

\* The report is over; the receiver may come to the handlers of one more message.
DeleteAsync(c) == /\ Report(c, "async", "done")
                  /\ owner' = [owner EXCEPT ![c] = IF @ = "handler" THEN "deleter" ELSE @]
                  /\ \E h \in {"none", "call"} : handler' = [handler EXCEPT ![c] = h]
                  /\ UNCHANGED <<listener, news, broadcast, server>>

\* The detached thread joins the channel's threads.
Delete(c) == /\ Running
             /\ owner[c] = "deleter" /\ thread[c] = "done" /\ handler[c] = "none"
             /\ owner' = [owner EXCEPT ![c] = "freed"]
             /\ UNCHANGED <<listener, thread, handler, news, broadcast, server>>

Handle(c) == CheckFlag(c) \/ Remove(c) \/ RaiseDisconnected(c) \/ RaiseThrows(c) \/ DeleteAsync(c)

-----------------------------------------------------------------------------
(* broadcast_message(), called by users, and by handlers on any thread.       *)

\* A message's handler, or one of the disconnection, calls it.
Call(c) == /\ Running
           /\ thread[c] \in {"run", "raise"} /\ handler[c] = "none"
           /\ handler' = [handler EXCEPT ![c] = "call"]
           /\ UNCHANGED <<listener, thread, owner, news, broadcast, server>>

BroadcastStart(who) == /\ Running /\ CanExclude
                       /\ casting' = who
                       /\ left' = Clients

UserStart == /\ \/ spc = "run" /\ BroadcastStart("user")
                \/ lpc = "raise" /\ BroadcastStart("listener")
             /\ UNCHANGED <<listener, channel, server>>

HandlerStart(c) == /\ handler[c] = "call" /\ BroadcastStart("handler")
                   /\ handler' = [handler EXCEPT ![c] = "cast"]
                   /\ UNCHANGED <<listener, thread, owner, news, server>>

BroadcastSend(c) == /\ Running /\ c \in left
                    /\ left' = left \ {c}
                    /\ UNCHANGED <<listener, channel, casting, server>>

\* The list is at its end, or send_message() throws: the client's queue is
\* complete, as that of a running channel may be, and the rest gets nothing.
BroadcastEnd == /\ Running /\ casting # "nobody"
                /\ left = {} \/ \E c \in left : thread[c] # "none"
                /\ casting' = "nobody" /\ left' = {}
                /\ handler' = [c \in Channels |-> IF handler[c] = "cast" THEN "none" ELSE handler[c]]
                /\ UNCHANGED <<listener, thread, owner, news, server>>

Broadcast == \/ UserStart \/ BroadcastEnd
             \/ \E c \in Channels : Call(c) \/ HandlerStart(c) \/ BroadcastSend(c)

-----------------------------------------------------------------------------
(* ~tcp_messaging_server(): the listener first, then ~messaging_server().     *)

StopListener == /\ Serve("run", "stop") /\ casting # "user"
                /\ UNCHANGED <<listener, channel, broadcast, closing, locked, shutting>>

JoinListener == /\ Serve("stop", "lock") /\ lpc = "over"
                /\ UNCHANGED <<listener, channel, broadcast, closing, locked, shutting>>

DestroyLock == /\ Serve("lock", "flag") /\ CanExclude
               /\ locked' = TRUE
               /\ UNCHANGED <<listener, channel, broadcast, closing, shutting>>

DestroyFlag == /\ Serve("flag", "clear")
               /\ shutting' = TRUE
               /\ UNCHANGED <<listener, channel, broadcast, closing, locked>>

\* _clients.clear(): one channel at a time, closed ...
ClearClose(c) == /\ Running
                 /\ spc = "clear" /\ closing = None /\ c \in Clients
                 /\ closing' = c
                 /\ UNCHANGED <<listener, channel, broadcast, spc, locked, shutting>>

\* ... and joined.  One that was never opened reports from its destructor ...
ClearJoin == /\ Running
             /\ spc = "clear" /\ closing # None
             /\ thread[closing] \in {"none", "done"} /\ handler[closing] = "none"
             /\ news' = [news EXCEPT ![closing] = "disconnected"]
             /\ owner' = [owner EXCEPT ![closing] = "freed"]
             /\ closing' = None
             /\ UNCHANGED <<listener, thread, handler, broadcast, spc, locked, shutting>>

\* ... on the thread that holds _mutex: a handler that broadcasts waits for
\* ever, and one that throws ends the process.
ClearFails == /\ spc = "clear" /\ closing # None
              /\ Report(closing, "none", "stuck") \/ Report(closing, "none", "terminated")
              /\ UNCHANGED <<listener, handler, owner, news, broadcast, server>>

DestroyEnd == /\ Serve("clear", "gone") /\ closing = None /\ Clients = {}
              /\ locked' = FALSE
              /\ UNCHANGED <<listener, channel, broadcast, closing, shutting>>

Destroy == \/ JoinListener \/ DestroyLock \/ DestroyFlag \/ ClearJoin \/ ClearFails \/ DestroyEnd
           \/ \E c \in Channels : ClearClose(c)

Next == \/ Listener \/ Broadcast \/ StopListener \/ Destroy
        \/ \E c \in Channels : Lose(c) \/ Handle(c) \/ Delete(c)

Spec == Init /\ [][Next]_vars

\* Threads run on, handlers return, the shared mutex is not withheld for ever
\* from anybody who asks for it, and a channel whose destructor runs is lost.
\* Nobody has to connect, broadcast, break a connection or destroy the server.
Fairness ==
  /\ SF_vars(Register \/ RaiseConnected \/ OpenSender \/ OpenReceiver \/ ListenerEnd)
  /\ WF_vars(BroadcastEnd \/ \E c \in Channels : BroadcastSend(c))
  /\ SF_vars(Destroy)
  /\ \A c \in Channels : /\ SF_vars(Handle(c)) /\ SF_vars(HandlerStart(c))
                         /\ WF_vars(Delete(c))
                         /\ WF_vars(closing = c /\ Lose(c))

FairSpec == Spec /\ Fairness

-----------------------------------------------------------------------------
TypeOK ==
  /\ lpc \in {"accept", "register", "raise", "sender", "receiver", "over"}
  /\ cur \in Channels \cup {None}
  /\ thread \in [Channels -> {"none", "run", "check", "lock", "raise", "async", "done", "stuck", "terminated"}]
  /\ handler \in [Channels -> {"none", "call", "cast"}]
  /\ owner \in [Channels -> {"none", "listener", "clients", "handler", "deleter", "freed"}]
  /\ news \in [Channels -> {"none", "connected", "disconnected"}]
  /\ left \subseteq Channels /\ casting \in {"nobody", "user", "listener", "handler"}
  /\ spc \in {"run", "stop", "lock", "flag", "clear", "gone"}
  /\ closing \in Channels \cup {None}
  /\ locked \in BOOLEAN /\ shutting \in BOOLEAN

(* A broadcast never sends to a channel that has left the list: its iterators *)
(* and the channels behind them stay valid while it walks (lines 38-46).      *)
BroadcastSafe == \A c \in left : owner[c] = "clients"

(* The list is the open connections: a running channel is on it, and one that *)
(* has reported its loss is not, unless the server itself is going            *)
(* (client_count() of the tests).                                             *)
ListMatchesConnections ==
  \A c \in Channels : /\ thread[c] = "run" => owner[c] = "clients"
                      /\ thread[c] \in {"raise", "async", "done"} /\ owner[c] = "clients" => shutting

(* A channel is freed when its threads have ended and its loss was announced, *)
(* whoever frees it: never under its own handler (line 88).  A handler that   *)
(* throws gets the destruction begun there, which nobody sees the end of.     *)
FreedQuiet ==
  \A c \in Channels : owner[c] = "freed" => /\ thread[c] \in {"none", "done"} /\ handler[c] = "none"
                                           /\ news[c] = "disconnected"

(* A lost channel is destroyed in the end, or the server is going, or its     *)
(* handler threw: then its thread or the process never gets on.               *)
LossHandled ==
  \A c \in Channels : thread[c] = "check" ~> owner[c] = "freed" \/ shutting \/ thread[c] = "stuck" \/ ~Running

(* A handler waits in broadcast_message() for the destructor, which holds     *)
(* _mutex and joins the handler's thread, or one that waits for the server's  *)
(* events, or runs the handler itself.                                        *)
Entangled == locked /\ \E c \in Channels : handler[c] = "call" \/ (closing = c /\ thread[c] = "stuck")

(* The flag keeps the threads that lose their channel to the destructor off   *)
(* the mutex it holds: it ends, if none of them got past the flag before, and *)
(* no handler broadcasts or throws meanwhile.                                 *)
FlaggedShutdownEnds ==
  (spc = "clear" /\ \A c \in Channels : thread[c] # "lock") ~> spc = "gone" \/ Entangled \/ ~Running

(* The destructor comes to its end (line 79: "also we do not want to          *)
(* deadlock"), with the same exceptions.                                      *)
ShutdownEnds == shutting ~> spc = "gone" \/ Entangled \/ ~Running

-----------------------------------------------------------------------------
\* The listener works on a channel that has no thread yet, and is over before the destructor locks.
ListenerOK ==
  /\ lpc \notin {"accept", "over"} => cur \in Channels
  /\ lpc = "register" => owner[cur] = "listener" /\ thread[cur] = "none"
  /\ lpc \in {"raise", "sender"} => owner[cur] = "clients" /\ thread[cur] = "none"
  /\ \A c \in Channels : owner[c] = "listener" => lpc = "register" /\ cur = c
  /\ spc \notin {"run", "stop"} => lpc = "over"

\* Where a channel's thread is tells who owns the channel, unless the flag was raised before it looked.
ChannelOK(c) ==
  /\ thread[c] \in {"run", "check", "lock"} => owner[c] = "clients"
  /\ thread[c] \in {"raise", "async"} => owner[c] = "handler" \/ (owner[c] = "clients" /\ shutting)
  /\ thread[c] = "done" => owner[c] \in {"deleter", "freed"} \/ (owner[c] = "clients" /\ shutting)
  /\ thread[c] \in {"async", "done"} => news[c] = "disconnected"
  /\ owner[c] \in {"none", "listener"} => thread[c] = "none"
  /\ thread[c] \in {"stuck", "terminated"} => owner[c] \in {"handler", "clients"}
  /\ owner[c] = "handler" => thread[c] \in {"raise", "async", "stuck", "terminated"}
  /\ owner[c] = "deleter" => thread[c] = "done"
  /\ owner[c] = "freed" => thread[c] \in {"none", "done"} /\ handler[c] = "none" /\ news[c] = "disconnected"

ChannelsOK == \A c \in Channels : ChannelOK(c)

\* Who broadcasts and who destroys keep each other out, and everybody who changes the list.
LockOK ==
  /\ locked <=> spc \in {"flag", "clear"}
  /\ shutting <=> spc \in {"clear", "gone"}
  /\ locked => casting = "nobody"
  /\ casting = "listener" => lpc = "raise"
  /\ casting = "nobody" => left = {}
  /\ \A c \in left : owner[c] = "clients"
  /\ closing # None => spc = "clear" /\ owner[closing] = "clients"

IInv == TypeOK /\ ListenerOK /\ ChannelsOK /\ LockOK

(* Every step of the listener keeps the invariant,                            *)
LEMMA ListenerStep == IInv /\ Listener => IInv'
  <1> SUFFICES ASSUME IInv, Listener PROVE IInv'
    OBVIOUS
  <1> USE DEF IInv, TypeOK, ListenerOK, ChannelsOK, ChannelOK, LockOK, Listen, listener, channel, broadcast, server
  <1>1. ASSUME NEW c \in Channels, Accept(c) PROVE IInv'
    BY <1>1 DEF Accept
  <1>2. CASE Register
    BY <1>2 DEF Register, CanExclude
  <1>3. CASE RaiseConnected
    BY <1>3 DEF RaiseConnected
  <1>4. CASE OpenSender
    BY <1>4 DEF OpenSender
  <1>5. CASE OpenReceiver \/ ListenerEnd
    BY <1>5 DEF OpenReceiver, ListenerEnd
  <1> QED BY <1>1, <1>2, <1>3, <1>4, <1>5 DEF Listener

(* and every step of a channel's thread and of the one that destroys it,       *)
LEMMA ChannelStep == ASSUME NEW c \in Channels PROVE IInv /\ (Lose(c) \/ Handle(c) \/ Delete(c)) => IInv'
  <1> SUFFICES ASSUME IInv, Lose(c) \/ Handle(c) \/ Delete(c) PROVE IInv'
    OBVIOUS
  <1> USE DEF IInv, TypeOK, ListenerOK, ChannelsOK, ChannelOK, LockOK, Report, listener, channel, broadcast, server
  <1>1. CASE Lose(c)
    BY <1>1 DEF Lose
  <1>2. CASE CheckFlag(c)
    BY <1>2 DEF CheckFlag
  <1>3. CASE Remove(c)
    BY <1>3 DEF Remove, CanExclude
  <1>4. CASE RaiseDisconnected(c)
    BY <1>4 DEF RaiseDisconnected
  <1>7. CASE RaiseThrows(c)
    BY <1>7 DEF RaiseThrows
  <1>5. CASE DeleteAsync(c)
    BY <1>5 DEF DeleteAsync
  <1>6. CASE Delete(c)
    BY <1>6 DEF Delete
  <1> QED BY <1>1, <1>2, <1>3, <1>4, <1>5, <1>6, <1>7 DEF Handle

(* and of a broadcast,                                                        *)
LEMMA BroadcastStep == IInv /\ Broadcast => IInv'
  <1> SUFFICES ASSUME IInv, Broadcast PROVE IInv'
    OBVIOUS
  <1> USE DEF IInv, TypeOK, ListenerOK, ChannelsOK, ChannelOK, LockOK, listener, channel, broadcast, server
  <1>1. CASE UserStart
    BY <1>1 DEF UserStart, BroadcastStart, Clients, CanExclude
  <1>2. ASSUME NEW c \in Channels, BroadcastSend(c) PROVE IInv'
    BY <1>2 DEF BroadcastSend
  <1>3. CASE BroadcastEnd
    BY <1>3 DEF BroadcastEnd
  <1>4. ASSUME NEW c \in Channels, Call(c) PROVE IInv'
    BY <1>4 DEF Call
  <1>5. ASSUME NEW c \in Channels, HandlerStart(c) PROVE IInv'
    BY <1>5 DEF HandlerStart, BroadcastStart, Clients, CanExclude
  <1> QED BY <1>1, <1>2, <1>3, <1>4, <1>5 DEF Broadcast

(* and of the destructor.                                                     *)
LEMMA DestroyStep == IInv /\ (StopListener \/ Destroy) => IInv'
  <1> SUFFICES ASSUME IInv, StopListener \/ Destroy PROVE IInv'
    OBVIOUS
  <1> USE DEF IInv, TypeOK, ListenerOK, ChannelsOK, ChannelOK, LockOK, Serve, listener, channel, broadcast, server
  <1>1. CASE StopListener \/ JoinListener
    BY <1>1 DEF StopListener, JoinListener
  <1>2. CASE DestroyLock
    BY <1>2 DEF DestroyLock, CanExclude
  <1>3. CASE DestroyFlag
    BY <1>3 DEF DestroyFlag
  <1>4. ASSUME NEW c \in Channels, ClearClose(c) PROVE IInv'
    BY <1>4 DEF ClearClose, Clients
  <1>5. CASE ClearJoin
    BY <1>5 DEF ClearJoin
  <1>6. CASE DestroyEnd
    BY <1>6 DEF DestroyEnd
  <1>7. CASE ClearFails
    BY <1>7 DEF ClearFails, Report
  <1> QED BY <1>1, <1>2, <1>3, <1>4, <1>5, <1>6, <1>7 DEF Destroy

(* However many connections come and go while users broadcast and the server  *)
(* is destroyed: no broadcast sends to a channel that has left the list, the   *)
(* list matches the connections, and no channel is freed under its handler,    *)
(* whether the handlers of its events return, broadcast or throw.              *)
THEOREM ChannelsKept == Spec => [](TypeOK /\ BroadcastSafe /\ ListMatchesConnections /\ FreedQuiet)
  <1>1. Init => IInv
    BY DEF Init, IInv, TypeOK, ListenerOK, ChannelsOK, ChannelOK, LockOK
  <1>2. IInv /\ [Next]_vars => IInv'
    <2> SUFFICES ASSUME IInv, [Next]_vars PROVE IInv'
      OBVIOUS
    <2>1. CASE UNCHANGED vars
      BY <2>1 DEF IInv, TypeOK, ListenerOK, ChannelsOK, ChannelOK, LockOK, vars
    <2> QED BY <2>1, ListenerStep, ChannelStep, BroadcastStep, DestroyStep DEF Next
  <1>3. IInv => TypeOK /\ BroadcastSafe /\ ListMatchesConnections /\ FreedQuiet
    BY DEF IInv, ChannelsOK, ChannelOK, LockOK, BroadcastSafe, ListMatchesConnections, FreedQuiet
  <1> QED BY <1>1, <1>2, <1>3, PTL DEF Spec
=============================================================================
