---------------------------- MODULE EventAwaiter ----------------------------
(***************************************************************************)
(* event_awaiter (Infrastructure/Events.h): a thread, the owner, waits for *)
(* the next event, and the thread that raises it, inside the awaiter's     *)
(* handler, waits until the arguments that the owner took are given back.  *)
(* _waitingEvent and _firedEvent are flags, as AtomicEvent has them; where *)
(* an event may be destroyed by the thread it lets through, the            *)
(* notification that set() makes after its unlock is a step of its own.    *)
(*                                                                         *)
(* The raises of all threads follow one another under the mutex of the     *)
(* event.  Members that both threads use without a lock (_firedSubscription*)
(* and _result) are read and written in either order.  An object that is   *)
(* used after its end makes the state stray, and nothing follows.          *)
(***************************************************************************)
VARIABLES local,       \* the awaiter lives inside event_publisher::wait()
          opc,         \* where the owner is
          hpc,         \* where the raising thread is: "idle" is outside every raise
          registered,  \* whether the event has the handler
          stored,      \* _firedSubscription is not null
          copied,      \* nor is the handler's copy of it
          waiting,     \* _waitingEvent
          fired,       \* _firedEvent
          shuttingDown,\* _isShuttingDown
          result,      \* who has the arguments: awaiter, return value, caller
          freed,       \* resultFreedEvent of the handler that runs, or of the last
          dying,       \* where the awaiter's owner and its caller are in the
                       \* destruction of arguments: "no", "notify" when set()
                       \* has not notified yet, or "delete"
          stray        \* an object was used after its end

raiserVars == <<hpc, registered, copied>>
ownerVars == <<local, opc, stored, shuttingDown>>
resultVars == <<result, freed, dying>>
vars == <<raiserVars, ownerVars, resultVars, waiting, fired, stray>>

Holders == {"owner", "caller"}

Init == /\ local \in BOOLEAN
        /\ opc = "constructing" /\ hpc = "idle"
        /\ registered = TRUE
        /\ stored = FALSE /\ copied = FALSE
        /\ waiting = FALSE /\ fired = FALSE /\ shuttingDown = FALSE
        /\ result = "nobody"
        /\ freed = FALSE /\ dying = [h \in Holders |-> "no"]
        /\ stray = FALSE

Owner(from, to) == ~stray /\ dying["owner"] = "no" /\ opc = from /\ opc' = to
Handler(from, to) == ~stray /\ opc # "gone" /\ hpc = from /\ hpc' = to

-----------------------------------------------------------------------------
(* Mutants of the definitions below. *)

\* The event that tells of the arguments' end is not a new one in each call.
AssignStale == /\ Handler("assign", "fire")
               /\ result' = "awaiter"
               /\ UNCHANGED <<registered, copied, ownerVars, freed, dying, waiting, fired, stray>>

-----------------------------------------------------------------------------
\* awaitable_deleter: the event is set, it notifies, and only then are the
\* arguments destroyed by those who had them.
GiveBack(h) == result' = "nobody" /\ freed' = TRUE /\ dying' = [dying EXCEPT ![h] = "notify"]

NotifyFreed(h) == /\ ~stray /\ dying[h] = "notify"
                  /\ dying' = [dying EXCEPT ![h] = "delete"]
                  /\ UNCHANGED <<raiserVars, ownerVars, result, freed, waiting, fired, stray>>

Delete(h) == /\ ~stray /\ dying[h] = "delete"
             /\ dying' = [dying EXCEPT ![h] = "no"]
             /\ UNCHANGED <<raiserVars, ownerVars, result, freed, waiting, fired, stray>>

(* The owner. *)

\* The handler is registered before the constructor has stored its subscription.
Store == /\ Owner("constructing", "idle")
         /\ stored' = TRUE
         /\ UNCHANGED <<raiserVars, local, shuttingDown, resultVars, waiting, fired, stray>>

\* wait()
Ask == /\ Owner("idle", "asked")
       /\ waiting' = TRUE
       /\ UNCHANGED <<raiserVars, local, stored, shuttingDown, resultVars, fired, stray>>

Fired == /\ Owner("asked", "take")
         /\ fired /\ fired' = FALSE
         /\ UNCHANGED <<raiserVars, local, stored, shuttingDown, resultVars, waiting, stray>>

TimeOut == /\ Owner("asked", "take")
           /\ ~fired
           /\ UNCHANGED <<raiserVars, local, stored, shuttingDown, resultVars, waiting, fired, stray>>

\* What wait() returns reaches the caller, of event_publisher::wait() only when
\* the awaiter is gone.
Take == /\ Owner("take", IF local THEN "flag" ELSE "idle")
        /\ result' = IF result # "awaiter" THEN result ELSE IF local THEN "returned" ELSE "caller"
        /\ UNCHANGED <<raiserVars, local, stored, shuttingDown, freed, dying, waiting, fired, stray>>

\* reset(), by itself or in the destructor
BeginReset == /\ Owner("idle", "flag") \/ Owner("done", "flag")
              /\ UNCHANGED <<raiserVars, local, stored, shuttingDown, resultVars, waiting, fired, stray>>

ShutDown == /\ Owner("flag", "release")
            /\ shuttingDown' = TRUE
            /\ UNCHANGED <<raiserVars, local, stored, resultVars, waiting, fired, stray>>

ReleaseHandler == /\ Owner("release", "unsubscribe")
                  /\ waiting' = TRUE
                  /\ UNCHANGED <<raiserVars, local, stored, shuttingDown, resultVars, fired, stray>>

\* Whoever drops the last reference to the subscription removes the handler.
Unsubscribe == /\ Owner("unsubscribe", IF stored /\ ~copied THEN "remove" ELSE "drop")
               /\ stored' = FALSE
               /\ UNCHANGED <<raiserVars, local, shuttingDown, resultVars, waiting, fired, stray>>

\* remove() waits for the mutex of the event.
Remove == /\ Owner("remove", "drop")
          /\ hpc = "idle"
          /\ registered' = FALSE
          /\ UNCHANGED <<hpc, copied, local, stored, shuttingDown, resultVars, waiting, fired, stray>>

Drop == /\ Owner("drop", "done")
        /\ IF result = "awaiter" THEN GiveBack("owner") ELSE UNCHANGED resultVars
        /\ UNCHANGED <<raiserVars, local, stored, shuttingDown, waiting, fired, stray>>

\* The members are destroyed, _result among them; wait() returns.
Destroy == /\ Owner("done", "gone")
           /\ IF result = "awaiter" THEN GiveBack("owner")
              ELSE /\ result' = IF result = "returned" THEN "caller" ELSE result
                   /\ UNCHANGED <<freed, dying>>
           /\ UNCHANGED <<raiserVars, local, stored, shuttingDown, waiting, fired, stray>>

\* The caller is done with the arguments.
Free == /\ ~stray /\ result = "caller" /\ dying["caller"] = "no" /\ GiveBack("caller")
        /\ UNCHANGED <<raiserVars, ownerVars, waiting, fired, stray>>

-----------------------------------------------------------------------------
(* The thread that raises the event. *)

Raise == /\ ~stray /\ registered
         /\ hpc = "idle" /\ hpc' = "enter"
         /\ UNCHANGED <<registered, copied, ownerVars, resultVars, waiting, fired, stray>>

Refuse == /\ Handler("enter", "idle")
          /\ UNCHANGED <<registered, copied, ownerVars, resultVars, waiting, fired, stray>>

Copy == /\ Handler("enter", "wait")
        /\ copied' = stored
        /\ UNCHANGED <<registered, ownerVars, resultVars, waiting, fired, stray>>

Pass == /\ Handler("wait", "look")
        /\ waiting /\ waiting' = FALSE
        /\ UNCHANGED <<registered, copied, ownerVars, resultVars, fired, stray>>

\* The handler returns, the raise ends: its copy may have been the last one.
Return == /\ hpc' = "idle"
          /\ registered' = (registered /\ (copied => stored))
          /\ copied' = FALSE
          /\ stray' = (\E h \in Holders : dying[h] = "notify")
          /\ UNCHANGED <<ownerVars, resultVars, waiting, fired>>

ReturnShutDown == ~stray /\ opc # "gone" /\ hpc = "look" /\ shuttingDown /\ Return

Look == /\ Handler("look", "assign")
        /\ ~shuttingDown
        /\ UNCHANGED <<registered, copied, ownerVars, resultVars, waiting, fired, stray>>

Assign == /\ Handler("assign", "fire")
          /\ result' = "awaiter" /\ freed' = FALSE
          /\ UNCHANGED <<registered, copied, ownerVars, dying, waiting, fired, stray>>

Fire == /\ Handler("fire", "notify")
        /\ fired' = TRUE
        /\ UNCHANGED <<registered, copied, ownerVars, resultVars, waiting, stray>>

Notify == /\ Handler("notify", "hold")
          /\ UNCHANGED <<registered, copied, ownerVars, resultVars, waiting, fired, stray>>

ReturnFreed == ~stray /\ hpc = "hold" /\ freed /\ Return

\* The handler goes on in an awaiter that is gone.
Stray == /\ ~stray /\ opc = "gone" /\ hpc \notin {"idle", "hold"}
         /\ stray' = TRUE
         /\ UNCHANGED <<raiserVars, ownerVars, resultVars, waiting, fired>>

Next == \/ Store \/ Ask \/ Fired \/ TimeOut \/ Take
        \/ BeginReset \/ ShutDown \/ ReleaseHandler \/ Unsubscribe \/ Remove \/ Drop \/ Destroy
        \/ Free \/ \E h \in Holders : NotifyFreed(h) \/ Delete(h)
        \/ Raise \/ Refuse \/ Copy \/ Pass \/ ReturnShutDown \/ Look \/ Assign \/ Fire \/ Notify
        \/ ReturnFreed \/ Stray

Spec == Init /\ [][Next]_vars

-----------------------------------------------------------------------------
TypeOK ==
  /\ opc \in {"constructing", "idle", "asked", "take", "flag", "release", "unsubscribe",
              "remove", "drop", "done", "gone"}
  /\ hpc \in {"idle", "enter", "wait", "look", "assign", "fire", "notify", "hold"}
  /\ result \in {"nobody", "awaiter", "returned", "caller"}
  /\ local \in BOOLEAN /\ registered \in BOOLEAN /\ stored \in BOOLEAN /\ copied \in BOOLEAN /\ waiting \in BOOLEAN
  /\ fired \in BOOLEAN /\ shuttingDown \in BOOLEAN /\ freed \in BOOLEAN /\ stray \in BOOLEAN
  /\ dying \in [Holders -> {"no", "notify", "delete"}]

(* The publisher is held off until those who have the arguments begin to give *)
(* them back, even if the awaiter has been reset or destroyed in the meantime *)
(* (Events.h:323).  It is not held off while they are destroyed: the event is *)
(* set before that (AwaitablePtr.h:14-15), so that the arguments of one event *)
(* may be dying when those of the next are taken.                             *)
HeldOff == result \in {"returned", "caller"} => hpc \in {"fire", "notify", "hold"} /\ ~freed

(* An awaiter that is gone leaves no publisher behind: one that waits on does *)
(* so for arguments that a caller still has to give back.                     *)
NobodyForgotten == opc = "gone" /\ hpc = "hold" => result = "caller" \/ freed

(* event_publisher::wait() "blocks the caller until the next firing of the    *)
(* event and returns the arguments" (Events.md): it is not stuck in the       *)
(* awaiter's destructor while the publisher waits for what it has to return.  *)
WaitReturns == ~(opc = "remove" /\ result = "returned" /\ hpc = "hold")

-----------------------------------------------------------------------------
\* What the proofs rest on: the arguments are somebody's from the handler's assignment to the moment it is told that they
\* are free, and those of an awaiter that is gone are its caller's.
Handed == hpc \in {"fire", "notify", "hold"}
IInv == /\ TypeOK
        /\ result # "nobody" => Handed /\ ~freed
        /\ result = "nobody" /\ Handed => freed
        /\ opc = "gone" => result \in {"nobody", "caller"}
=============================================================================
