-------------------------- MODULE MessagingClient --------------------------
(***************************************************************************)
(* messaging_client: a connection thread that connects, publishes the      *)
(* channel, waits until it is lost and starts again; users that send       *)
(* messages under _mutex; and the destructor, which raises a flag and the  *)
(* manual wake-up event and joins the thread.                              *)
(*                                                                         *)
(* The channel is that of TcpMessagingChannel.tla, reduced to what the     *)
(* client sees: a thread that runs message handlers, and reports the       *)
(* disconnection exactly once.  get_channel() is external: it returns a    *)
(* channel or throws.  A handler of any event may return, call the client, *)
(* or throw; what the code does then depends on the thread it runs on.     *)
(***************************************************************************)
VARIABLES cpc,       \* connection thread: connect()
          mpc,       \* the thread that opens and destroys the client
          tpc,       \* the channel's thread, as far as it calls into the client
          channel,   \* _channel: "none", "published", "subscribed", "open"
          shutting,  \* _isShuttingDown
          signal,    \* _wakeupEvent
          mutex      \* who holds _mutex: "none", "conn" or "user"

vars == <<cpc, mpc, tpc, channel, shutting, signal, mutex>>

Init == /\ cpc = "off"
        /\ mpc = "made"
        /\ tpc = "off"
        /\ channel = "none"
        /\ shutting = FALSE
        /\ signal = FALSE
        /\ mutex = "none"

Conn(from, to) == cpc = from /\ cpc' = to
Chan(from, to) == tpc = from /\ tpc' = to

-----------------------------------------------------------------------------
(* Mutants of the definitions below. *)

\* The destructor joins the thread without waking it.
DestroyAsleep == /\ mpc = "flag"
                 /\ mpc' = "join"
                 /\ UNCHANGED <<cpc, tpc, channel, shutting, signal, mutex>>

\* The old channel is not dropped when the loop starts again.
DropForgotten ==
  /\ Conn("drop", "pauseCheck")
  /\ mutex = "none"
  /\ UNCHANGED <<mpc, tpc, channel, shutting, signal, mutex>>

-----------------------------------------------------------------------------
(* The connection thread: connect(). *)

Check == /\ cpc = "check"
         /\ cpc' = IF shutting THEN "done" ELSE "get"
         /\ UNCHANGED <<mpc, tpc, channel, shutting, signal, mutex>>

GetChannel == /\ Conn("get", "reset")
              /\ UNCHANGED <<mpc, tpc, channel, shutting, signal, mutex>>

GetFails == /\ Conn("get", "drop")
            /\ UNCHANGED <<mpc, tpc, channel, shutting, signal, mutex>>

ResetWakeup == /\ Conn("reset", "publish")
               /\ signal' = FALSE
               /\ UNCHANGED <<mpc, tpc, channel, shutting, mutex>>

Publish == /\ Conn("publish", "connected")
           /\ mutex = "none"
           /\ channel' = "published"
           /\ UNCHANGED <<mpc, tpc, shutting, signal, mutex>>

\* The connected event is raised; a handler that throws ends the attempt.
RaiseConnected == /\ cpc = "connected"
                  /\ cpc' \in {"subscribe", "drop"}
                  /\ UNCHANGED <<mpc, tpc, channel, shutting, signal, mutex>>

Subscribe == /\ Conn("subscribe", "open")
             /\ channel' = "subscribed"
             /\ UNCHANGED <<mpc, tpc, shutting, signal, mutex>>

OpenChannel == /\ Conn("open", "wait")
               /\ channel' = "open"
               /\ tpc' = "run"
               /\ UNCHANGED <<mpc, shutting, signal, mutex>>

OpenFails == /\ Conn("open", "drop")
             /\ UNCHANGED <<mpc, tpc, channel, shutting, signal, mutex>>

Wait == /\ Conn("wait", "drop")
        /\ signal
        /\ UNCHANGED <<mpc, tpc, channel, shutting, signal, mutex>>

\* _channel.reset() under _mutex: the channel's threads are joined.
DropLock == /\ Conn("drop", "join")
            /\ mutex = "none"
            /\ mutex' = "conn"
            /\ UNCHANGED <<mpc, tpc, channel, shutting, signal>>

DropChannel == /\ Conn("join", "pauseCheck")
               /\ channel \in {"none", "open"} /\ tpc \in {"off", "done", "threw"}
               /\ channel' = "none"
               /\ tpc' = "off"
               /\ mutex' = "none"
               /\ UNCHANGED <<mpc, shutting, signal>>

\* A channel that never ran reports its disconnection from its destructor, on
\* this thread and with _mutex held, to the handlers it has: those that users
\* gave it when it was published, and the client's own.
DropReports == /\ Conn("join", "report")
               /\ channel \in {"published", "subscribed"}
               /\ UNCHANGED <<mpc, tpc, channel, shutting, signal, mutex>>

ReportReturns == /\ Conn("report", "pauseCheck")
                 /\ signal' = (signal \/ channel = "subscribed")
                 /\ channel' = "none"
                 /\ mutex' = "none"
                 /\ UNCHANGED <<mpc, tpc, shutting>>

\* A handler calls send_message() or is_connected(): the thread waits for the
\* mutex that it holds itself.
ReportCalls == /\ Conn("report", "stuck")
               /\ UNCHANGED <<mpc, tpc, channel, shutting, signal, mutex>>

\* A handler throws out of the destructor, which ends the process.
ReportThrows == /\ Conn("report", "terminated")
                /\ mpc' = "terminated"
                /\ UNCHANGED <<tpc, channel, shutting, signal, mutex>>

Report == ReportReturns \/ ReportCalls \/ ReportThrows

PauseCheck == /\ cpc = "pauseCheck"
              /\ cpc' = IF shutting THEN "check" ELSE "pause"
              /\ UNCHANGED <<mpc, tpc, channel, shutting, signal, mutex>>

\* wait(1s): signalled or not, the loop goes on.
Pause == /\ Conn("pause", "check")
         /\ UNCHANGED <<mpc, tpc, channel, shutting, signal, mutex>>

Connect == \/ Check \/ GetChannel \/ GetFails \/ ResetWakeup \/ Publish \/ RaiseConnected
           \/ Subscribe \/ OpenChannel \/ OpenFails \/ Wait \/ DropLock \/ DropChannel
           \/ DropReports \/ Report \/ PauseCheck \/ Pause

-----------------------------------------------------------------------------
(* The channel's thread. *)

\* A message arrives; its handlers may call the client, which takes _mutex.
Message == /\ Chan("run", "calling")
           /\ UNCHANGED <<cpc, mpc, channel, shutting, signal, mutex>>

\* The connection is lost, or closed by the destructor of the channel.
Lose == /\ Chan("run", "raise")
        /\ UNCHANGED <<cpc, mpc, channel, shutting, signal, mutex>>

\* The client's handler raises its own disconnected event, whose handlers may
\* call the client as well.  An exception of theirs takes the rest of the
\* client's handler along, the wake-up with it, and ends the channel's thread.
RaiseDisconnected == /\ tpc = "raise"
                     /\ tpc' \in {"set", "reporting", "threw"}
                     /\ UNCHANGED <<cpc, mpc, channel, shutting, signal, mutex>>

\* send_message() or is_connected(), called by a handler.
HandlerCalled == /\ \/ Chan("calling", "run")
                    \/ tpc = "reporting" /\ tpc' \in {"set", "threw"}
                 /\ mutex = "none"
                 /\ UNCHANGED <<cpc, mpc, channel, shutting, signal, mutex>>

\* They returned: the connection thread is woken.
SetWakeup == /\ Chan("set", "done")
             /\ signal' = TRUE
             /\ UNCHANGED <<cpc, mpc, channel, shutting, mutex>>

Channel == Message \/ HandlerCalled \/ Lose \/ RaiseDisconnected \/ SetWakeup

-----------------------------------------------------------------------------
(* Users, and the owner of the client. *)

UserLock == /\ mutex = "none" /\ mpc = "run"
            /\ mutex' = "user"
            /\ UNCHANGED <<cpc, mpc, tpc, channel, shutting, signal>>

UserUnlock == /\ mutex = "user"
              /\ mutex' = "none"
              /\ UNCHANGED <<cpc, mpc, tpc, channel, shutting, signal>>

Open == /\ mpc = "made"
        /\ mpc' = "run"
        /\ cpc' = "check"
        /\ UNCHANGED <<tpc, channel, shutting, signal, mutex>>

\* ~messaging_client()
DestroyFlag == /\ mpc = "run" /\ mutex # "user"
               /\ mpc' = "flag"
               /\ shutting' = TRUE
               /\ UNCHANGED <<cpc, tpc, channel, signal, mutex>>

DestroySet == /\ mpc = "flag"
              /\ mpc' = "join"
              /\ signal' = TRUE
              /\ UNCHANGED <<cpc, tpc, channel, shutting, mutex>>

DestroyJoin == /\ mpc = "join" /\ cpc = "done"
               /\ mpc' = "gone"
               /\ UNCHANGED <<cpc, tpc, channel, shutting, signal, mutex>>

Next == \/ Connect \/ Channel
        \/ UserLock \/ UserUnlock \/ Open \/ DestroyFlag \/ DestroySet \/ DestroyJoin

Spec == Init /\ [][Next]_vars

\* Threads and calls run on, a lock that comes free again and again is got in
\* the end, and a channel whose destructor runs is lost.  No attempt to connect
\* need succeed, no connection need break, nobody has to destroy the client.
Fairness ==
  /\ WF_vars(Check \/ GetFails \/ ResetWakeup \/ RaiseConnected \/ Subscribe \/ OpenChannel
             \/ Wait \/ DropChannel \/ DropReports \/ Report \/ PauseCheck \/ Pause)
  /\ SF_vars(Publish) /\ SF_vars(DropLock)
  /\ SF_vars(HandlerCalled) /\ WF_vars(RaiseDisconnected \/ SetWakeup)
  /\ SF_vars(cpc = "join" /\ Lose)
  /\ WF_vars(UserUnlock) /\ WF_vars(DestroySet) /\ WF_vars(DestroyJoin)

FairSpec == Spec /\ Fairness

-----------------------------------------------------------------------------
TypeOK ==
  /\ cpc \in {"off", "check", "get", "reset", "publish", "connected", "subscribe", "open", "wait",
              "drop", "join", "report", "stuck", "terminated", "pauseCheck", "pause", "done"}
  /\ mpc \in {"made", "run", "flag", "join", "gone", "terminated"}
  /\ tpc \in {"off", "run", "calling", "raise", "reporting", "set", "done", "threw"}
  /\ channel \in {"none", "published", "subscribed", "open"}
  /\ shutting \in BOOLEAN
  /\ signal \in BOOLEAN
  /\ mutex \in {"none", "conn", "user"}

(* The wake-up event is lowered before a channel is published, never between  *)
(* its loss and the wait: a channel whose loss was reported always finds the  *)
(* thread awake.  A loss whose handler threw does not: then nothing but the   *)
(* destructor of the client wakes the thread.                                 *)
LossNotMissed == cpc \in {"open", "wait"} => /\ tpc = "done" => signal
                                             /\ tpc = "threw" /\ signal => mpc = "join"

(* The member is empty when a new channel is published: the assignment under  *)
(* _mutex never has to destroy, and join, an old one.                         *)
PublishesIntoNone == cpc \in {"get", "reset", "publish"} => channel = "none" /\ tpc = "off"

(* A client that loses its channel goes back to connecting, unless a handler  *)
(* of the loss throws or somebody destroys the client.                        *)
Reconnects == tpc = "raise" ~> cpc = "get" \/ tpc = "threw" \/ shutting

(* A handler waits for the mutex of a client that joins the handler's thread, *)
(* or for the one that its own thread holds.                                  *)
Entangled == (cpc = "join" /\ tpc \in {"calling", "reporting"}) \/ cpc = "stuck"

(* The channel is gone some time after the connection thread has begun to     *)
(* drop it: nothing but a handler that calls the client can keep it.  An      *)
(* exception of a handler that runs below the destructor ends the process.    *)
DropEnds == cpc = "join" ~> cpc \in {"pauseCheck", "terminated"} \/ Entangled

(* A destructor that finds the client connected and waiting comes to its end, *)
(* even if the handler of the loss threw; the exception is a handler that     *)
(* calls the client.                                                          *)
ConnectedShutdownEnds == (mpc = "flag" /\ cpc = "wait") ~> mpc = "gone" \/ Entangled

(* Every destructor comes to its end, with the same exception, or the process *)
(* does.                                                                      *)
ShutdownEnds == shutting ~> mpc \in {"gone", "terminated"} \/ Entangled
=============================================================================
