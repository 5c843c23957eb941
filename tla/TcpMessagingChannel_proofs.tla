--------------------- MODULE TcpMessagingChannel_proofs ---------------------
(***************************************************************************)
(* For every set of messages: a channel reports its disconnection at most  *)
(* once, no thread and no undecided future outlives it, and the future of  *)
(* a message is decided once and tells the truth.                          *)
(***************************************************************************)
EXTENDS TcpMessagingChannel, TLAPS


(* Every step keeps the types.                                                *)
LEMMA TypeNext == IInv /\ [Next]_vars => TypeOK'
  <1> SUFFICES ASSUME IInv, [Next]_vars PROVE TypeOK'
    OBVIOUS
  <1> USE DEF IInv, TypeOK, LinkOK, Stages, DiscPcs, queueVars, linkVars
  <1>1. ASSUME NEW m \in Messages, SendStart(m) PROVE TypeOK'
    BY <1>1 DEF SendStart
  <1>2. ASSUME NEW m \in Messages, SendRefused(m) PROVE TypeOK'
    BY <1>2 DEF SendRefused
  <1>3. ASSUME NEW m \in Messages, SendPush(m) PROVE TypeOK'
    BY <1>3 DEF SendPush
  <1>4. ASSUME NEW m \in Messages, Cancel(m) PROVE TypeOK'
    BY <1>4 DEF Cancel, Decide
  <1>5. CASE PeerVanish
    BY <1>5 DEF PeerVanish
  <1>6. CASE NetReset
    BY <1>6 DEF NetReset
  <1>7. CASE SenderStart
    BY <1>7 DEF SenderStart
  <1>8. CASE SenderLoop
    BY <1>8 DEF SenderLoop
  <1>9. CASE SenderGet
    BY <1>9 DEF SenderGet, Queued
  <1>10. CASE SenderWrite
    BY <1>10 DEF SenderWrite, Poke
  <1>11. CASE WriteFailed
    BY <1>11 DEF WriteFailed, Drop
  <1>12. CASE SenderFinish
    BY <1>12 DEF SenderFinish, Decide
  <1>13. CASE SenderBeat
    BY <1>13 DEF SenderBeat, Poke
  <1>14. CASE SenderComplete
    BY <1>14 DEF SenderComplete
  <1>15. CASE SenderClear
    BY <1>15 DEF SenderClear, Drop, Queued
  <1>16. CASE SenderLook
    BY <1>16 DEF SenderLook
  <1>17. CASE SenderLock
    <2>1. connected' \in BOOLEAN /\ holder' \in {"none", "sender", "receiver", "owner"}
      BY <1>17 DEF SenderLock, DiscEnter
    <2>2. spc' \in {"off", "start", "loop", "get", "write", "finish", "beat", "complete", "clear",
                      "done"} \cup DiscPcs
      BY <1>17 DEF SenderLock
    <2>3. UNCHANGED <<stage, future, written, isComplete, sock, raised, rpc, opc>>
      BY <1>17 DEF SenderLock, DiscEnter
    <2> QED BY <2>1, <2>2, <2>3
  <1>18. CASE SenderRaise
    BY <1>18 DEF SenderRaise, DiscRaise
  <1>19. CASE ReceiverStart
    BY <1>19 DEF ReceiverStart
  <1>20. CASE ReceiverLoop
    BY <1>20 DEF ReceiverLoop
  <1>21. CASE ReceiverGet
    BY <1>21 DEF ReceiverGet
  <1>22. CASE ReceiverFail
    BY <1>22 DEF ReceiverFail
  <1>23. CASE ReceiverLook
    BY <1>23 DEF ReceiverLook
  <1>24. CASE ReceiverLock
    <2>1. connected' \in BOOLEAN /\ holder' \in {"none", "sender", "receiver", "owner"}
      BY <1>24 DEF ReceiverLock, DiscEnter
    <2>2. rpc' \in {"off", "start", "loop", "read", "done"} \cup DiscPcs
      BY <1>24 DEF ReceiverLock
    <2>3. UNCHANGED <<stage, future, written, isComplete, sock, raised, spc, opc>>
      BY <1>24 DEF ReceiverLock, DiscEnter
    <2> QED BY <2>1, <2>2, <2>3
  <1>25. CASE ReceiverRaise
    BY <1>25 DEF ReceiverRaise, DiscRaise
  <1>26. CASE OpenSender
    BY <1>26 DEF OpenSender
  <1>27. CASE OpenReceiver
    BY <1>27 DEF OpenReceiver
  <1>28. CASE CloseSocket
    BY <1>28 DEF CloseSocket
  <1>29. CASE JoinReceiver
    BY <1>29 DEF JoinReceiver
  <1>30. CASE JoinSender
    BY <1>30 DEF JoinSender
  <1>31. CASE DropQueue
    BY <1>31 DEF DropQueue, Drop, Queued
  <1>32. CASE OwnerLook
    BY <1>32 DEF OwnerLook
  <1>33. CASE OwnerLock
    <2>1. connected' \in BOOLEAN /\ holder' \in {"none", "sender", "receiver", "owner"}
      BY <1>33 DEF OwnerLock, DiscEnter
    <2>2. opc' \in {"made", "opening", "open", "joinReceiver", "joinSender", "drop", "gone"} \cup DiscPcs
      BY <1>33 DEF OwnerLock
    <2>3. UNCHANGED <<stage, future, written, isComplete, sock, raised, spc, rpc>>
      BY <1>33 DEF OwnerLock, DiscEnter
    <2> QED BY <2>1, <2>2, <2>3
  <1>34. CASE OwnerRaise
    BY <1>34 DEF OwnerRaise, DiscRaise
  <1>35. CASE UNCHANGED vars
    BY <1>35 DEF vars
  <1> QED
    BY <1>1, <1>2, <1>3, <1>4, <1>5, <1>6, <1>7, <1>8, <1>9, <1>10, <1>11,
        <1>12, <1>13, <1>14, <1>15, <1>16, <1>17, <1>18, <1>19, <1>20,
        <1>21, <1>22, <1>23, <1>24, <1>25, <1>26, <1>27, <1>28, <1>29,
        <1>30, <1>31, <1>32, <1>33, <1>34, <1>35
       DEF Next, Sender, Receiver, Owner

(* Every step keeps flag, mutex and reports in line.                          *)
LEMMA LinkNext == IInv /\ [Next]_vars => LinkOK'
  <1> SUFFICES ASSUME IInv, [Next]_vars PROVE LinkOK'
    OBVIOUS
  <1> USE DEF IInv, LinkOK, TypeOK, queueVars, linkVars
  <1>1. ASSUME NEW m \in Messages, SendStart(m) PROVE LinkOK'
    BY <1>1 DEF SendStart
  <1>2. ASSUME NEW m \in Messages, SendRefused(m) PROVE LinkOK'
    BY <1>2 DEF SendRefused
  <1>3. ASSUME NEW m \in Messages, SendPush(m) PROVE LinkOK'
    BY <1>3 DEF SendPush
  <1>4. ASSUME NEW m \in Messages, Cancel(m) PROVE LinkOK'
    BY <1>4 DEF Cancel, Decide
  <1>5. CASE PeerVanish
    BY <1>5 DEF PeerVanish
  <1>6. CASE NetReset
    BY <1>6 DEF NetReset
  <1>7. CASE SenderStart
    BY <1>7 DEF SenderStart
  <1>8. CASE SenderLoop
    BY <1>8 DEF SenderLoop
  <1>9. CASE SenderGet
    BY <1>9 DEF SenderGet, Queued
  <1>10. CASE SenderWrite
    BY <1>10 DEF SenderWrite, Poke
  <1>11. CASE WriteFailed
    BY <1>11 DEF WriteFailed, Drop
  <1>12. CASE SenderFinish
    BY <1>12 DEF SenderFinish, Decide
  <1>13. CASE SenderBeat
    BY <1>13 DEF SenderBeat, Poke
  <1>14. CASE SenderComplete
    BY <1>14 DEF SenderComplete
  <1>15. CASE SenderClear
    BY <1>15 DEF SenderClear, Drop, Queued
  <1>16. CASE SenderLook
    BY <1>16 DEF SenderLook
  <1>17. CASE SenderLock
    BY <1>17 DEF SenderLock, DiscEnter
  <1>18. CASE SenderRaise
    BY <1>18 DEF SenderRaise, DiscRaise
  <1>19. CASE ReceiverStart
    BY <1>19 DEF ReceiverStart
  <1>20. CASE ReceiverLoop
    BY <1>20 DEF ReceiverLoop
  <1>21. CASE ReceiverGet
    BY <1>21 DEF ReceiverGet
  <1>22. CASE ReceiverFail
    BY <1>22 DEF ReceiverFail
  <1>23. CASE ReceiverLook
    BY <1>23 DEF ReceiverLook
  <1>24. CASE ReceiverLock
    BY <1>24 DEF ReceiverLock, DiscEnter
  <1>25. CASE ReceiverRaise
    BY <1>25 DEF ReceiverRaise, DiscRaise
  <1>26. CASE OpenSender
    BY <1>26 DEF OpenSender
  <1>27. CASE OpenReceiver
    BY <1>27 DEF OpenReceiver
  <1>28. CASE CloseSocket
    BY <1>28 DEF CloseSocket
  <1>29. CASE JoinReceiver
    BY <1>29 DEF JoinReceiver
  <1>30. CASE JoinSender
    BY <1>30 DEF JoinSender
  <1>31. CASE DropQueue
    BY <1>31 DEF DropQueue, Drop, Queued
  <1>32. CASE OwnerLook
    BY <1>32 DEF OwnerLook
  <1>33. CASE OwnerLock
    BY <1>33 DEF OwnerLock, DiscEnter
  <1>34. CASE OwnerRaise
    BY <1>34 DEF OwnerRaise, DiscRaise
  <1>35. CASE UNCHANGED vars
    BY <1>35 DEF vars
  <1> QED
    BY <1>1, <1>2, <1>3, <1>4, <1>5, <1>6, <1>7, <1>8, <1>9, <1>10, <1>11,
        <1>12, <1>13, <1>14, <1>15, <1>16, <1>17, <1>18, <1>19, <1>20,
        <1>21, <1>22, <1>23, <1>24, <1>25, <1>26, <1>27, <1>28, <1>29,
        <1>30, <1>31, <1>32, <1>33, <1>34, <1>35
       DEF Next, Sender, Receiver, Owner

(* Every step keeps the order of destruction.                                 *)
LEMMA JoinNext == IInv /\ [Next]_vars => JoinOK'
  <1> SUFFICES ASSUME IInv, [Next]_vars PROVE JoinOK'
    OBVIOUS
  <1> USE DEF IInv, JoinOK, TypeOK, DiscPcs, Closing, Joined, queueVars, linkVars
  <1>1. ASSUME NEW m \in Messages, SendStart(m) PROVE JoinOK'
    BY <1>1 DEF SendStart
  <1>2. ASSUME NEW m \in Messages, SendRefused(m) PROVE JoinOK'
    BY <1>2 DEF SendRefused
  <1>3. ASSUME NEW m \in Messages, SendPush(m) PROVE JoinOK'
    BY <1>3 DEF SendPush
  <1>4. ASSUME NEW m \in Messages, Cancel(m) PROVE JoinOK'
    BY <1>4 DEF Cancel, Decide
  <1>5. CASE PeerVanish
    BY <1>5 DEF PeerVanish
  <1>6. CASE NetReset
    BY <1>6 DEF NetReset
  <1>7. CASE SenderStart
    BY <1>7 DEF SenderStart
  <1>8. CASE SenderLoop
    BY <1>8 DEF SenderLoop
  <1>9. CASE SenderGet
    BY <1>9 DEF SenderGet, Queued
  <1>10. CASE SenderWrite
    BY <1>10 DEF SenderWrite, Poke
  <1>11. CASE WriteFailed
    BY <1>11 DEF WriteFailed, Drop
  <1>12. CASE SenderFinish
    BY <1>12 DEF SenderFinish, Decide
  <1>13. CASE SenderBeat
    BY <1>13 DEF SenderBeat, Poke
  <1>14. CASE SenderComplete
    BY <1>14 DEF SenderComplete
  <1>15. CASE SenderClear
    BY <1>15 DEF SenderClear, Drop, Queued
  <1>16. CASE SenderLook
    BY <1>16 DEF SenderLook
  <1>17. CASE SenderLock
    BY <1>17 DEF SenderLock, DiscEnter
  <1>18. CASE SenderRaise
    BY <1>18 DEF SenderRaise, DiscRaise
  <1>19. CASE ReceiverStart
    BY <1>19 DEF ReceiverStart
  <1>20. CASE ReceiverLoop
    BY <1>20 DEF ReceiverLoop
  <1>21. CASE ReceiverGet
    BY <1>21 DEF ReceiverGet
  <1>22. CASE ReceiverFail
    BY <1>22 DEF ReceiverFail
  <1>23. CASE ReceiverLook
    BY <1>23 DEF ReceiverLook
  <1>24. CASE ReceiverLock
    BY <1>24 DEF ReceiverLock, DiscEnter
  <1>25. CASE ReceiverRaise
    BY <1>25 DEF ReceiverRaise, DiscRaise
  <1>26. CASE OpenSender
    BY <1>26 DEF OpenSender
  <1>27. CASE OpenReceiver
    BY <1>27 DEF OpenReceiver
  <1>28. CASE CloseSocket
    BY <1>28 DEF CloseSocket
  <1>29. CASE JoinReceiver
    BY <1>29 DEF JoinReceiver
  <1>30. CASE JoinSender
    BY <1>30 DEF JoinSender
  <1>31. CASE DropQueue
    BY <1>31 DEF DropQueue, Drop, Queued
  <1>32. CASE OwnerLook
    BY <1>32 DEF OwnerLook
  <1>33. CASE OwnerLock
    BY <1>33 DEF OwnerLock, DiscEnter
  <1>34. CASE OwnerRaise
    BY <1>34 DEF OwnerRaise, DiscRaise
  <1>35. CASE UNCHANGED vars
    BY <1>35 DEF vars
  <1> QED
    BY <1>1, <1>2, <1>3, <1>4, <1>5, <1>6, <1>7, <1>8, <1>9, <1>10, <1>11,
        <1>12, <1>13, <1>14, <1>15, <1>16, <1>17, <1>18, <1>19, <1>20,
        <1>21, <1>22, <1>23, <1>24, <1>25, <1>26, <1>27, <1>28, <1>29,
        <1>30, <1>31, <1>32, <1>33, <1>34, <1>35
       DEF Next, Sender, Receiver, Owner

(* Every step keeps promises and futures in line.                             *)
LEMMA PromiseNext == IInv /\ [Next]_vars => PromiseOK'
  <1> SUFFICES ASSUME IInv, [Next]_vars PROVE PromiseOK'
    OBVIOUS
  <1> USE DEF IInv, PromiseOK, JoinOK, TypeOK, Stages, DiscPcs, Closing, Joined, queueVars, linkVars
  <1>1. ASSUME NEW m \in Messages, SendStart(m) PROVE PromiseOK'
    BY <1>1 DEF SendStart
  <1>2. ASSUME NEW m \in Messages, SendRefused(m) PROVE PromiseOK'
    BY <1>2 DEF SendRefused
  <1>3. ASSUME NEW m \in Messages, SendPush(m) PROVE PromiseOK'
    BY <1>3 DEF SendPush
  <1>4. ASSUME NEW m \in Messages, Cancel(m) PROVE PromiseOK'
    BY <1>4 DEF Cancel, Decide
  <1>5. CASE PeerVanish
    BY <1>5 DEF PeerVanish
  <1>6. CASE NetReset
    BY <1>6 DEF NetReset
  <1>7. CASE SenderStart
    BY <1>7 DEF SenderStart
  <1>8. CASE SenderLoop
    BY <1>8 DEF SenderLoop
  <1>9. CASE SenderGet
    BY <1>9 DEF SenderGet, Queued
  <1>10. CASE SenderWrite
    BY <1>10 DEF SenderWrite, Poke
  <1>11. CASE WriteFailed
    BY <1>11 DEF WriteFailed, Drop
  <1>12. CASE SenderFinish
    BY <1>12 DEF SenderFinish, Decide
  <1>13. CASE SenderBeat
    BY <1>13 DEF SenderBeat, Poke
  <1>14. CASE SenderComplete
    BY <1>14 DEF SenderComplete
  <1>15. CASE SenderClear
    BY <1>15 DEF SenderClear, Drop, Queued
  <1>16. CASE SenderLook
    BY <1>16 DEF SenderLook
  <1>17. CASE SenderLock
    BY <1>17 DEF SenderLock, DiscEnter
  <1>18. CASE SenderRaise
    BY <1>18 DEF SenderRaise, DiscRaise
  <1>19. CASE ReceiverStart
    BY <1>19 DEF ReceiverStart
  <1>20. CASE ReceiverLoop
    BY <1>20 DEF ReceiverLoop
  <1>21. CASE ReceiverGet
    BY <1>21 DEF ReceiverGet
  <1>22. CASE ReceiverFail
    BY <1>22 DEF ReceiverFail
  <1>23. CASE ReceiverLook
    BY <1>23 DEF ReceiverLook
  <1>24. CASE ReceiverLock
    BY <1>24 DEF ReceiverLock, DiscEnter
  <1>25. CASE ReceiverRaise
    BY <1>25 DEF ReceiverRaise, DiscRaise
  <1>26. CASE OpenSender
    BY <1>26 DEF OpenSender
  <1>27. CASE OpenReceiver
    BY <1>27 DEF OpenReceiver
  <1>28. CASE CloseSocket
    BY <1>28 DEF CloseSocket
  <1>29. CASE JoinReceiver
    BY <1>29 DEF JoinReceiver
  <1>30. CASE JoinSender
    BY <1>30 DEF JoinSender
  <1>31. CASE DropQueue
    BY <1>31 DEF DropQueue, Drop, Queued
  <1>32. CASE OwnerLook
    BY <1>32 DEF OwnerLook
  <1>33. CASE OwnerLock
    BY <1>33 DEF OwnerLock, DiscEnter
  <1>34. CASE OwnerRaise
    BY <1>34 DEF OwnerRaise, DiscRaise
  <1>35. CASE UNCHANGED vars
    BY <1>35 DEF vars
  <1> QED
    BY <1>1, <1>2, <1>3, <1>4, <1>5, <1>6, <1>7, <1>8, <1>9, <1>10, <1>11,
        <1>12, <1>13, <1>14, <1>15, <1>16, <1>17, <1>18, <1>19, <1>20,
        <1>21, <1>22, <1>23, <1>24, <1>25, <1>26, <1>27, <1>28, <1>29,
        <1>30, <1>31, <1>32, <1>33, <1>34, <1>35
       DEF Next, Sender, Receiver, Owner

-----------------------------------------------------------------------------
(* The inductive invariant holds in every reachable state.                    *)
THEOREM Invariance == Spec => []IInv
  <1>1. Init => IInv
    <2> SUFFICES ASSUME Init PROVE IInv
      OBVIOUS
    <2>1. TypeOK
      BY DEF Init, TypeOK, Stages, DiscPcs
    <2>2. LinkOK /\ JoinOK
      BY DEF Init, LinkOK, JoinOK, Closing, Joined, DiscPcs
    <2>3. PromiseOK
      BY DEF Init, PromiseOK, DiscPcs
    <2> QED BY <2>1, <2>2, <2>3 DEF IInv
  <1>2. IInv /\ [Next]_vars => IInv'
    BY TypeNext, LinkNext, JoinNext, PromiseNext DEF IInv
  <1> QED BY <1>1, <1>2, PTL DEF Spec

(* Sender, receiver and destructor report one disconnection between them.     *)
THEOREM ReportedOnce == Spec => []DisconnectedOnce
  <1>1. IInv => DisconnectedOnce
    BY DEF IInv, LinkOK, TypeOK, DisconnectedOnce
  <1> QED BY <1>1, Invariance, PTL

(* Destruction leaves neither a thread nor an undecided future behind.        *)
THEOREM CleanDestruction == Spec => []NothingLeft
  <1>1. IInv => ThreadsJoined
    BY DEF IInv, JoinOK, Joined, ThreadsJoined, DiscPcs
  <1>2. IInv => NoOrphanFuture
    <2> SUFFICES ASSUME IInv, opc = "gone", NEW m \in Messages
                 PROVE  future[m] # "pending"
      BY DEF NoOrphanFuture
    <2>1. spc \in {"off", "done"} /\ stage[m] # "admitted"
      BY DEF IInv, JoinOK, Joined, Closing
    <2>2. stage[m] # "taken" /\ stage[m] # "queued"
      BY <2>1 DEF IInv, PromiseOK
    <2>3. stage[m] \in {"new", "gone", "refused"}
      BY <2>1, <2>2 DEF IInv, TypeOK, Stages
    <2> QED BY <2>3 DEF IInv, PromiseOK
  <1>3. IInv => NothingLeft
    BY <1>1, <1>2 DEF NothingLeft
  <1> QED BY <1>3, Invariance, PTL

(* A message in the hands of the channel stutters or takes a step of its      *)
(* outcome.                                                                   *)
LEMMA OutcomeDrop ==
  ASSUME TypeOK, NEW ms \in SUBSET Messages, NEW s, Drop(ms, s), UNCHANGED written
  PROVE  [Outcome!Next]_(Outcome!vars)
  <1> DEFINE failed == {m \in ms : future[m] = "pending"}
  <1>1. future' = [m \in Messages |-> IF m \in failed THEN "false" ELSE future[m]]
    BY DEF Drop
  <1>2. failed \in SUBSET Messages /\ \A m \in failed : future[m] = "pending"
    OBVIOUS
  <1>3. Outcome!Fail(failed)
    BY <1>1, <1>2 DEF Outcome!Fail
  <1> QED BY <1>2, <1>3 DEF Outcome!Next

LEMMA OutcomeCancel ==
  ASSUME TypeOK, NEW m \in Messages, Decide(m, "false"), UNCHANGED written
  PROVE  [Outcome!Next]_(Outcome!vars)
  <1>1. CASE future[m] = "pending"
    <2>1. future' = [n \in Messages |-> IF n \in {m} THEN "false" ELSE future[n]]
      BY <1>1 DEF Decide, TypeOK
    <2>2. Outcome!Fail({m})
      BY <1>1, <2>1 DEF Outcome!Fail
    <2> QED BY <2>2 DEF Outcome!Next
  <1>2. CASE future[m] # "pending"
    BY <1>2 DEF Decide, TypeOK, Outcome!vars
  <1> QED BY <1>1, <1>2

LEMMA OutcomeNext == IInv /\ [Next]_vars => [Outcome!Next]_(Outcome!vars)
  <1> SUFFICES ASSUME IInv, [Next]_vars PROVE [Outcome!Next]_(Outcome!vars)
    OBVIOUS
  <1> USE DEF IInv, queueVars
  <1>1. ASSUME NEW m \in Messages, SendStart(m) PROVE Outcome!Next
    BY <1>1 DEF SendStart, PromiseOK, Outcome!Next, Outcome!Send
  <1>2. ASSUME NEW m \in Messages, SendRefused(m) \/ SendPush(m)
        PROVE  UNCHANGED Outcome!vars
    BY <1>2 DEF SendRefused, SendPush, Outcome!vars
  <1>3. ASSUME NEW m \in Messages, Cancel(m) PROVE [Outcome!Next]_(Outcome!vars)
    BY <1>3, OutcomeCancel DEF Cancel
  <1>4. CASE SenderWrite
    <2>1. CASE \E m \in Messages : stage[m] = "taken"
      <3> PICK m \in Messages : stage[m] = "taken"
        BY <2>1
      <3>1. {n \in Messages : stage[n] = "taken"} = {m}
        BY DEF PromiseOK
      <3>2. written' = written \cup {m} /\ future' = future
        BY <1>4, <3>1 DEF SenderWrite
      <3> QED BY <3>2 DEF Outcome!Next, Outcome!Write
    <2>2. CASE ~ \E m \in Messages : stage[m] = "taken"
      BY <1>4, <2>2 DEF SenderWrite, Outcome!vars
    <2> QED BY <2>1, <2>2
  <1>5. CASE SenderFinish
    <2> PICK m \in Messages : stage[m] = "taken" /\ Decide(m, "true")
      BY <1>5 DEF SenderFinish
    <2>1. m \in written /\ written' = written
      BY <1>5 DEF SenderFinish, PromiseOK
    <2>2. CASE future[m] = "pending"
      BY <2>1, <2>2 DEF Decide, Outcome!Next, Outcome!Succeed
    <2>3. CASE future[m] # "pending"
      BY <2>1, <2>3 DEF Decide, TypeOK, Outcome!vars
    <2> QED BY <2>2, <2>3
  <1>6. CASE WriteFailed \/ SenderClear \/ DropQueue
    <2>1. CASE WriteFailed
      BY <2>1, OutcomeDrop DEF WriteFailed
    <2>2. CASE SenderClear
      BY <2>2, OutcomeDrop DEF SenderClear, Queued
    <2>3. CASE DropQueue
      BY <2>3, OutcomeDrop DEF DropQueue, Queued
    <2> QED BY <1>6, <2>1, <2>2, <2>3
  <1>7. ASSUME UNCHANGED <<future, written>> PROVE UNCHANGED Outcome!vars
    BY <1>7 DEF Outcome!vars
  <1>8. CASE PeerVanish \/ NetReset \/ Receiver
    BY <1>7, <1>8 DEF PeerVanish, NetReset, Receiver, ReceiverStart, ReceiverLoop, ReceiverGet,
                      ReceiverFail, ReceiverLook, ReceiverLock, ReceiverRaise
  <1>9. CASE \/ SenderStart \/ SenderLoop \/ SenderGet \/ SenderBeat \/ SenderComplete
             \/ SenderLook \/ SenderLock \/ SenderRaise
    BY <1>7, <1>9 DEF SenderStart, SenderLoop, SenderGet, SenderBeat, SenderComplete,
                      SenderLook, SenderLock, SenderRaise
  <1>10. CASE \/ OpenSender \/ OpenReceiver \/ CloseSocket \/ JoinReceiver \/ JoinSender
              \/ OwnerLook \/ OwnerLock \/ OwnerRaise
    BY <1>7, <1>10 DEF OpenSender, OpenReceiver, CloseSocket, JoinReceiver, JoinSender,
                       OwnerLook, OwnerLock, OwnerRaise
  <1>11. CASE UNCHANGED vars
    BY <1>7, <1>11 DEF vars
  <1> QED
    BY <1>1, <1>2, <1>3, <1>4, <1>5, <1>6, <1>8, <1>9, <1>10, <1>11
       DEF Next, Sender, Owner

(* The future of a message is decided once, and says true only of a message   *)
(* that has been written to the connection.                                   *)
THEOREM OutcomeRefinement == Spec => ImplementsOutcome
  <1>1. Init => Outcome!Init
    BY DEF Init, Outcome!Init
  <1> QED BY <1>1, OutcomeNext, Invariance, PTL DEF Spec, ImplementsOutcome, Outcome!Spec

=============================================================================
