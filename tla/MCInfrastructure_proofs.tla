------------------------ MODULE MCInfrastructure_proofs ------------------------
(***************************************************************************)
(* For every set of threads and both kinds of event: no wake-up is lost    *)
(* although set() notifies outside the mutex, and reset_event implements   *)
(* the atomic flag that the modules of its users are written with.         *)
(*                                                                         *)
(* And for the other parts of MCInfrastructure, for all values of the      *)
(* constants: the safety properties of event_handler_collection,           *)
(* event_awaiter, manual_dispatcher, logger, udp_client, service discovery,*)
(* async_operation and buffer_allocator. A behaviour of the run is one of  *)
(* each part (the lemmas ...Part); each part's invariant IInv holds at its *)
(* start and is kept by every step, one lemma per action.                  *)
(***************************************************************************)
EXTENDS MCInfrastructure, FiniteSetTheorems, SequenceTheorems, TLAPS

(* NoLostWakeup is inductive together with the types, and so holds always.    *)
THEOREM EventInv == Spec => []IInv
  <1>1. Init => IInv
    BY DEF Init, IInv, TypeOK, NoLostWakeup
  <1>2. IInv /\ [Next]_vars => IInv'
    <2> SUFFICES ASSUME IInv, [Next]_vars PROVE IInv'
      OBVIOUS
    <2> USE EventAssumption DEF IInv, TypeOK, NoLostWakeup, At
    <2>1. ASSUME NEW t \in Threads, SetSignal(t) PROVE IInv'
      BY <2>1 DEF SetSignal
    <2>2. ASSUME NEW t \in Threads, Notify(t) PROVE IInv'
      <3>1. TypeOK'
        BY <2>2 DEF Notify
      <3>2. \A u \in Threads : pc'[u] # "asleep"
        BY <2>2 DEF Notify
      <3> QED BY <3>1, <3>2
    <2>3. ASSUME NEW t \in Threads, Reset(t) PROVE IInv'
      BY <2>3 DEF Reset
    <2>9. ASSUME NEW t \in Threads, Wait(t) PROVE IInv'
      BY <2>9 DEF Wait
    <2>4. ASSUME NEW t \in Threads, Pass(t) PROVE IInv'
      BY <2>4 DEF Pass
    <2>5. ASSUME NEW t \in Threads, Sleep(t) PROVE IInv'
      BY <2>5 DEF Sleep
    <2>6. ASSUME NEW t \in Threads, SpuriousWake(t) PROVE IInv'
      BY <2>6 DEF SpuriousWake
    <2>7. ASSUME NEW t \in Threads, TimeOut(t) PROVE IInv'
      BY <2>7 DEF TimeOut
    <2>8. CASE UNCHANGED vars
      BY <2>8 DEF vars
    <2> QED BY <2>1, <2>2, <2>3, <2>4, <2>5, <2>6, <2>7, <2>8, <2>9 DEF Next
  <1> QED BY <1>1, <1>2, PTL DEF Spec

(* reset_event implements the atomic event.                                   *)
THEOREM EventRefinement == Spec => ImplementsAtomicEvent
  <1>1. Init => Abstract!Init
    BY DEF Init, Abstract!Init
  <1>2. IInv /\ [Next]_vars => [Abstract!Next]_(Abstract!vars)
    <2> SUFFICES ASSUME IInv, [Next]_vars PROVE [Abstract!Next]_(Abstract!vars)
      OBVIOUS
    <2> USE EventAssumption DEF IInv, TypeOK, At, Abstract!Next, Abstract!vars
    <2>1. ASSUME NEW t \in Threads, SetSignal(t) PROVE Abstract!Next
      BY <2>1 DEF SetSignal, Abstract!Set
    <2>2. ASSUME NEW t \in Threads, Reset(t) PROVE Abstract!Next
      BY <2>2 DEF Reset, Abstract!Reset
    <2>3. ASSUME NEW t \in Threads, Wait(t) PROVE Abstract!Next
      BY <2>3 DEF Wait, Abstract!Await
    <2>4. ASSUME NEW t \in Threads, Pass(t) PROVE Abstract!Next
      BY <2>4 DEF Pass, Abstract!Pass
    <2>5. ASSUME NEW t \in Threads, TimeOut(t) PROVE Abstract!Next
      <3>1. CASE signal
        BY <2>5, <3>1 DEF TimeOut, Abstract!Pass
      <3>2. CASE ~signal
        BY <2>5, <3>2 DEF TimeOut, Abstract!GiveUp
      <3> QED BY <3>1, <3>2
    <2>6. ASSUME NEW t \in Threads, Notify(t) \/ Sleep(t) \/ SpuriousWake(t)
          PROVE  UNCHANGED Abstract!vars
      BY <2>6 DEF Notify, Sleep, SpuriousWake
    <2>7. CASE UNCHANGED vars
      BY <2>7 DEF vars
    <2> QED BY <2>1, <2>2, <2>3, <2>4, <2>5, <2>6, <2>7 DEF Next
  <1> QED BY <1>1, <1>2, EventInv, PTL DEF Spec, ImplementsAtomicEvent, Abstract!Spec

-----------------------------------------------------------------------------
(* A behaviour of the parts is one of each of them.                           *)
LEMMA EventsPart == PartsSpec => Events!Spec
  <1>1. PartsInit => Events!Init
    BY DEF PartsInit
  <1>2. [EventsRun \/ WorkRuns]_partsVars => [Events!Next]_(Events!vars)
    BY DEF EventsRun, WorkRuns, partsVars, eventVars, Events!vars
  <1> QED BY <1>1, <1>2, PTL DEF PartsSpec, Events!Spec

(* Whatever handlers do, each keeps its token while it is subscribed, and     *)
(* what is put off is not put off for ever.                                   *)
THEOREM EventsKept == PartsSpec => []EventsSafe
  <1>1. Events!ConstantsOK
    BY PartsAssumption DEF Events!ConstantsOK
  <1>2. Events!Spec => [](Events!TypeOK /\ Events!KeepsToken /\ Events!PutOffUntilEnd)
    BY <1>1, Events!TokensKept
  <1> QED BY <1>2, EventsPart, PTL DEF EventsSafe

LEMMA DispatcherPart == PartsSpec => Dispatcher!Init /\ [][Dispatcher!Next]_dispatcherVars
  <1>1. PartsInit => Dispatcher!Init
    BY DEF PartsInit
  <1>2. [EventsRun \/ WorkRuns]_partsVars => [Dispatcher!Next]_dispatcherVars
    BY DEF EventsRun, WorkRuns, partsVars, dispatcherVars
  <1> QED BY <1>1, <1>2, PTL DEF PartsSpec

LEMMA DiscoveryPart == PartsSpec => Discovery!Spec
  <1>1. PartsInit => Discovery!Init
    BY DEF PartsInit
  <1>2. [EventsRun \/ WorkRuns]_partsVars => [Discovery!Next]_(Discovery!discoveryVars)
    BY DEF EventsRun, WorkRuns, partsVars, discoveryVars, Discovery!discoveryVars
  <1> QED BY <1>1, <1>2, PTL DEF PartsSpec, Discovery!Spec

LEMMA UdpPart == PartsSpec => Udp!Init /\ [][Udp!Next]_udpVars
  <1>1. PartsInit => Udp!Init
    BY DEF PartsInit
  <1>2. [EventsRun \/ WorkRuns]_partsVars => [Udp!Next]_udpVars
    BY DEF EventsRun, WorkRuns, partsVars, udpVars
  <1> QED BY <1>1, <1>2, PTL DEF PartsSpec

LEMMA LogPart == PartsSpec => Log!Init /\ [][Log!Next]_logVars
  <1>1. PartsInit => Log!Init
    BY DEF PartsInit
  <1>2. [EventsRun \/ WorkRuns]_partsVars => [Log!Next]_logVars
    BY DEF EventsRun, WorkRuns, partsVars, logVars
  <1> QED BY <1>1, <1>2, PTL DEF PartsSpec

LEMMA OperationPart == PartsSpec => Operation!Init /\ [][Operation!Next]_operationVars
  <1>1. PartsInit => Operation!Init
    BY DEF PartsInit
  <1>2. [EventsRun \/ WorkRuns]_partsVars => [Operation!Next]_operationVars
    BY DEF EventsRun, WorkRuns, partsVars, operationVars
  <1> QED BY <1>1, <1>2, PTL DEF PartsSpec

LEMMA AwaiterPart == PartsSpec => Awaiter!Spec
  <1>1. PartsInit => Awaiter!Init
    BY DEF PartsInit
  <1>2. [EventsRun \/ WorkRuns]_partsVars => [Awaiter!Next]_(Awaiter!vars)
    BY DEF EventsRun, WorkRuns, partsVars, awaiterVars, Awaiter!vars, Awaiter!raiserVars, Awaiter!ownerVars, Awaiter!resultVars
  <1> QED BY <1>1, <1>2, PTL DEF PartsSpec, Awaiter!Spec

LEMMA BufferPart == PartsSpec => Buffer!Init /\ [][Buffer!Next]_bufferVars
  <1>1. PartsInit => Buffer!Init
    BY DEF PartsInit
  <1>2. [EventsRun \/ WorkRuns]_partsVars => [Buffer!Next]_bufferVars
    BY DEF EventsRun, WorkRuns, partsVars, bufferVars
  <1> QED BY <1>1, <1>2, PTL DEF PartsSpec

-----------------------------------------------------------------------------
(* The arguments of an event are somebody's until the handler may return.     *)
LEMMA AwaiterInit == Awaiter!Init => Awaiter!IInv
  BY DEF Awaiter!Init, Awaiter!IInv, Awaiter!TypeOK, Awaiter!Handed, Awaiter!Holders

LEMMA AwaiterOwner ==
  ASSUME Awaiter!IInv,
         \/ Awaiter!Store \/ Awaiter!Ask \/ Awaiter!Fired \/ Awaiter!TimeOut \/ Awaiter!Take \/ Awaiter!BeginReset
         \/ Awaiter!ShutDown \/ Awaiter!ReleaseHandler \/ Awaiter!Unsubscribe \/ Awaiter!Remove \/ Awaiter!Drop \/ Awaiter!Destroy
         \/ Awaiter!Free \/ \E h \in Awaiter!Holders : Awaiter!NotifyFreed(h) \/ Awaiter!Delete(h)
  PROVE  Awaiter!IInv'
  <1> USE DEF Awaiter!IInv, Awaiter!TypeOK, Awaiter!Handed, Awaiter!Owner, Awaiter!GiveBack, Awaiter!Holders,
              Awaiter!raiserVars, Awaiter!ownerVars, Awaiter!resultVars
  <1>1. CASE Awaiter!Store
    BY <1>1 DEF Awaiter!Store
  <1>2. CASE Awaiter!Ask
    <2>1. /\ opc = "idle" /\ opc' = "asked" /\ waiting' = TRUE
          /\ UNCHANGED <<hpc, local, registered, stored, copied, fired, shuttingDown, result, freed, dying, stray>>
      BY <1>2 DEF Awaiter!Ask
    <2> QED BY <2>1
  <1>3. CASE Awaiter!Fired
    <2>1. /\ opc = "asked" /\ opc' = "take" /\ fired' \in BOOLEAN
          /\ UNCHANGED <<local, hpc, registered, stored, copied, waiting, shuttingDown, result, freed, dying, stray>>
      BY <1>3 DEF Awaiter!Fired
    <2>2. Awaiter!TypeOK'
      BY <2>1
    <2>3. /\ result' # "nobody" => Awaiter!Handed' /\ ~freed'
          /\ result' = "nobody" /\ Awaiter!Handed' => freed'
          /\ opc' = "gone" => result' \in {"nobody", "caller"}
      BY <2>1
    <2> QED BY <2>2, <2>3
  <1>4. CASE Awaiter!TimeOut
    BY <1>4 DEF Awaiter!TimeOut
  <1>5. CASE Awaiter!Take
    BY <1>5 DEF Awaiter!Take
  <1>6. CASE Awaiter!BeginReset
    BY <1>6 DEF Awaiter!BeginReset
  <1>7. CASE Awaiter!ShutDown
    BY <1>7 DEF Awaiter!ShutDown
  <1>8. CASE Awaiter!ReleaseHandler
    BY <1>8 DEF Awaiter!ReleaseHandler
  <1>9. CASE Awaiter!Unsubscribe
    <2>3. /\ opc' \in {"remove", "drop"} /\ stored' \in BOOLEAN
          /\ UNCHANGED <<local, hpc, registered, copied, waiting, fired, shuttingDown, result, freed, dying, stray>>
      BY <1>9 DEF Awaiter!Unsubscribe
    <2>1. Awaiter!TypeOK'
      BY <2>3
    <2>2. /\ result' # "nobody" => Awaiter!Handed' /\ ~freed'
          /\ result' = "nobody" /\ Awaiter!Handed' => freed'
          /\ opc' = "gone" => result' \in {"nobody", "caller"}
      BY <1>9 DEF Awaiter!Unsubscribe
    <2> QED BY <2>1, <2>2
  <1>10. CASE Awaiter!Remove
    BY <1>10 DEF Awaiter!Remove
  <1>11. CASE Awaiter!Drop
    <2>3. result' \in {"nobody", "awaiter", "returned", "caller"} /\ freed' \in BOOLEAN /\ dying' \in [Awaiter!Holders -> {"no", "notify", "delete"}]
      <3>1. CASE result = "awaiter"
        BY <1>11, <3>1 DEF Awaiter!Drop
      <3>2. CASE result # "awaiter"
        BY <1>11, <3>2 DEF Awaiter!Drop
      <3> QED BY <3>1, <3>2
    <2>4. /\ opc' = "done"
          /\ UNCHANGED <<local, hpc, registered, stored, copied, waiting, fired, shuttingDown, stray>>
      BY <1>11 DEF Awaiter!Drop
    <2>1. Awaiter!TypeOK'
      BY <2>3, <2>4
    <2>2. /\ result' # "nobody" => Awaiter!Handed' /\ ~freed'
          /\ result' = "nobody" /\ Awaiter!Handed' => freed'
          /\ opc' = "gone" => result' \in {"nobody", "caller"}
      BY <1>11 DEF Awaiter!Drop
    <2> QED BY <2>1, <2>2
  <1>12. CASE Awaiter!Destroy
    <2>3. result' \in {"nobody", "awaiter", "returned", "caller"} /\ freed' \in BOOLEAN /\ dying' \in [Awaiter!Holders -> {"no", "notify", "delete"}]
      <3>1. CASE result = "awaiter"
        BY <1>12, <3>1 DEF Awaiter!Destroy
      <3>2. CASE result # "awaiter"
        BY <1>12, <3>2 DEF Awaiter!Destroy
      <3> QED BY <3>1, <3>2
    <2>4. /\ opc' = "gone"
          /\ UNCHANGED <<local, hpc, registered, stored, copied, waiting, fired, shuttingDown, stray>>
      BY <1>12 DEF Awaiter!Destroy
    <2>1. Awaiter!TypeOK'
      BY <2>3, <2>4
    <2>2. /\ result' # "nobody" => Awaiter!Handed' /\ ~freed'
          /\ result' = "nobody" /\ Awaiter!Handed' => freed'
          /\ opc' = "gone" => result' \in {"nobody", "caller"}
      BY <1>12 DEF Awaiter!Destroy
    <2> QED BY <2>1, <2>2
  <1>13. CASE Awaiter!Free
    BY <1>13 DEF Awaiter!Free
  <1>14. CASE \E h \in Awaiter!Holders : Awaiter!NotifyFreed(h) \/ Awaiter!Delete(h)
    <2>3. dying' \in [Awaiter!Holders -> {"no", "notify", "delete"}]
      BY <1>14 DEF Awaiter!NotifyFreed, Awaiter!Delete
    <2>4. UNCHANGED <<local, opc, hpc, registered, stored, copied, waiting, fired, shuttingDown, result, freed, stray>>
      BY <1>14 DEF Awaiter!NotifyFreed, Awaiter!Delete
    <2>1. Awaiter!TypeOK'
      BY <2>3, <2>4
    <2>2. /\ result' # "nobody" => Awaiter!Handed' /\ ~freed'
          /\ result' = "nobody" /\ Awaiter!Handed' => freed'
          /\ opc' = "gone" => result' \in {"nobody", "caller"}
      BY <1>14 DEF Awaiter!NotifyFreed, Awaiter!Delete
    <2> QED BY <2>1, <2>2
  <1> QED BY <1>1, <1>2, <1>3, <1>4, <1>5, <1>6, <1>7, <1>8, <1>9, <1>10, <1>11, <1>12, <1>13, <1>14

LEMMA AwaiterRaiser ==
  ASSUME Awaiter!IInv,
         \/ Awaiter!Raise \/ Awaiter!Refuse \/ Awaiter!Copy \/ Awaiter!Pass \/ Awaiter!ReturnShutDown \/ Awaiter!Look
         \/ Awaiter!Assign \/ Awaiter!Fire \/ Awaiter!Notify \/ Awaiter!ReturnFreed \/ Awaiter!Stray
  PROVE  Awaiter!IInv'
  <1> USE DEF Awaiter!IInv, Awaiter!TypeOK, Awaiter!Handed, Awaiter!Handler, Awaiter!Return,
              Awaiter!raiserVars, Awaiter!ownerVars, Awaiter!resultVars
  <1>1. CASE Awaiter!Raise
    BY <1>1 DEF Awaiter!Raise
  <1>2. CASE Awaiter!Refuse
    BY <1>2 DEF Awaiter!Refuse
  <1>3. CASE Awaiter!Copy
    BY <1>3 DEF Awaiter!Copy
  <1>4. CASE Awaiter!Pass
    <2>1. /\ hpc = "wait" /\ hpc' = "look" /\ waiting' = FALSE
          /\ UNCHANGED <<local, opc, registered, stored, copied, fired, shuttingDown, result, freed, dying, stray>>
      BY <1>4 DEF Awaiter!Pass
    <2>2. hpc' \in {"look"} /\ waiting' \in BOOLEAN
      BY <2>1
    <2>3. UNCHANGED <<local, opc, registered, stored, copied, fired, shuttingDown, result, freed, dying, stray>>
      BY <2>1
    <2>4. Awaiter!TypeOK'
      BY <2>2, <2>3
    <2>5. /\ result' # "nobody" => Awaiter!Handed' /\ ~freed'
          /\ result' = "nobody" /\ Awaiter!Handed' => freed'
          /\ opc' = "gone" => result' \in {"nobody", "caller"}
      BY <2>1
    <2> QED BY <2>4, <2>5
  <1>5. CASE Awaiter!ReturnShutDown
    BY <1>5 DEF Awaiter!ReturnShutDown
  <1>6. CASE Awaiter!Look
    BY <1>6 DEF Awaiter!Look
  <1>7. CASE Awaiter!Assign
    <2>1. /\ hpc = "assign" /\ hpc' = "fire" /\ result' = "awaiter" /\ freed' = FALSE /\ opc # "gone"
          /\ UNCHANGED <<local, opc, registered, stored, copied, waiting, fired, shuttingDown, dying, stray>>
      BY <1>7 DEF Awaiter!Assign
    <2>2. hpc' \in {"fire"} /\ result' \in {"awaiter"} /\ freed' \in BOOLEAN
      BY <2>1
    <2>3. UNCHANGED <<local, opc, registered, stored, copied, waiting, fired, shuttingDown, dying, stray>>
      BY <2>1
    <2>4. Awaiter!TypeOK'
      BY <2>2, <2>3
    <2>5. /\ result' # "nobody" => Awaiter!Handed' /\ ~freed'
          /\ result' = "nobody" /\ Awaiter!Handed' => freed'
          /\ opc' = "gone" => result' \in {"nobody", "caller"}
      BY <2>1
    <2> QED BY <2>4, <2>5
  <1>8. CASE Awaiter!Fire
    BY <1>8 DEF Awaiter!Fire
  <1>9. CASE Awaiter!Notify
    BY <1>9 DEF Awaiter!Notify
  <1>10. CASE Awaiter!ReturnFreed
    BY <1>10 DEF Awaiter!ReturnFreed
  <1>11. CASE Awaiter!Stray
    BY <1>11 DEF Awaiter!Stray
  <1> QED BY <1>1, <1>2, <1>3, <1>4, <1>5, <1>6, <1>7, <1>8, <1>9, <1>10, <1>11

(* The publisher is held off until the arguments begin to be given back, and  *)
(* nobody is left waiting for arguments that an awaiter has taken with it.    *)
THEOREM AwaiterKept == PartsSpec => []AwaiterSafe
  <1>1. Awaiter!IInv /\ [Awaiter!Next]_(Awaiter!vars) => Awaiter!IInv'
    <2> SUFFICES ASSUME Awaiter!IInv, [Awaiter!Next]_(Awaiter!vars) PROVE Awaiter!IInv'
      OBVIOUS
    <2>1. CASE UNCHANGED Awaiter!vars
      BY <2>1 DEF Awaiter!vars, Awaiter!raiserVars, Awaiter!ownerVars, Awaiter!resultVars,
                  Awaiter!IInv, Awaiter!TypeOK, Awaiter!Handed
    <2>2. CASE Awaiter!Next
      BY <2>2, AwaiterOwner, AwaiterRaiser DEF Awaiter!Next
    <2> QED BY <2>1, <2>2
  <1>2. Awaiter!IInv => AwaiterSafe
    BY DEF Awaiter!IInv, AwaiterSafe, Awaiter!HeldOff, Awaiter!NobodyForgotten, Awaiter!Handed
  <1> QED BY <1>1, <1>2, AwaiterInit, AwaiterPart, PTL DEF Awaiter!Spec

-----------------------------------------------------------------------------
(* What sequences hold after something was put before or behind them or taken *)
(* from their front.                                                          *)
LEMMA Behind ==
  ASSUME NEW S, NEW s \in Seq(S), NEW x \in S
  PROVE  /\ Append(s, x) \in Seq(S)
         /\ Dispatcher!Range(Append(s, x)) = Dispatcher!Range(s) \cup {x}
         /\ Dispatcher!Once(s) /\ x \notin Dispatcher!Range(s) => Dispatcher!Once(Append(s, x))
  <1> DEFINE t == Append(s, x)
             n == Len(s) + 1
  <1>1. t \in Seq(S) /\ DOMAIN t = 1..n /\ n \in Nat /\ DOMAIN s = 1..(n - 1) /\ t[n] = x /\ \A i \in 1..(n - 1) : t[i] = s[i]
    OBVIOUS
  <1>2. \A i \in 1..n : i = n \/ i \in 1..(n - 1)
    BY <1>1
  <1>3. n \in 1..n /\ \A i \in 1..(n - 1) : i \in 1..n
    BY <1>1
  <1> HIDE DEF t, n
  <1>4. Dispatcher!Range(t) = Dispatcher!Range(s) \cup {x}
    BY <1>1, <1>2, <1>3 DEF Dispatcher!Range
  <1>5. Dispatcher!Once(s) /\ x \notin Dispatcher!Range(s) => Dispatcher!Once(t)
    BY <1>1, <1>2, <1>3 DEF Dispatcher!Range, Dispatcher!Once
  <1> QED BY <1>1, <1>4, <1>5 DEF t

LEMMA Before ==
  ASSUME NEW S, NEW s \in Seq(S), NEW x \in S
  PROVE  /\ <<x>> \o s \in Seq(S) /\ Len(<<x>> \o s) = Len(s) + 1
         /\ <<x>> \o s # <<>> /\ Head(<<x>> \o s) = x
         /\ Dispatcher!Range(<<x>> \o s) = Dispatcher!Range(s) \cup {x}
         /\ Dispatcher!Once(s) /\ (x = Dispatcher!Pump \/ x \notin Dispatcher!Range(s)) => Dispatcher!Once(<<x>> \o s)
  <1> DEFINE t == <<x>> \o s
             n == Len(s) + 1
  <1>1. /\ t \in Seq(S) /\ Len(t) = n /\ DOMAIN t = 1..n /\ n \in Nat /\ DOMAIN s = 1..(n - 1)
        /\ t[1] = x /\ \A i \in 1..(n - 1) : t[i + 1] = s[i]
    OBVIOUS
  <1>2. \A i \in 1..n : i = 1 \/ (i - 1 \in 1..(n - 1) /\ (i - 1) + 1 = i)
    BY <1>1
  <1>3. 1 \in 1..n /\ \A i \in 1..(n - 1) : i + 1 \in 1..n
    BY <1>1
  <1>4. t # <<>> /\ Head(t) = x
    BY <1>1
  <1> HIDE DEF t, n
  <1>5. Dispatcher!Range(t) = Dispatcher!Range(s) \cup {x}
    <2>1. ASSUME NEW i \in 1..n PROVE t[i] \in Dispatcher!Range(s) \cup {x}
      <3>1. CASE i = 1
        BY <3>1, <1>1
      <3>2. CASE i - 1 \in 1..(n - 1) /\ (i - 1) + 1 = i
        <4> DEFINE k == i - 1
        <4>1. k \in DOMAIN s /\ t[k + 1] = s[k] /\ k + 1 = i
          BY <3>2, <1>1
        <4> HIDE DEF k
        <4> QED BY <4>1 DEF Dispatcher!Range
      <3> QED BY <3>1, <3>2, <1>2
    <2>2. ASSUME NEW i \in 1..(n - 1) PROVE s[i] \in Dispatcher!Range(t)
      BY <1>1, <1>3 DEF Dispatcher!Range
    <2>3. x \in Dispatcher!Range(t)
      BY <1>1, <1>3 DEF Dispatcher!Range
    <2> QED BY <1>1, <2>1, <2>2, <2>3 DEF Dispatcher!Range
  <1>6. ASSUME Dispatcher!Once(s), x = Dispatcher!Pump \/ x \notin Dispatcher!Range(s) PROVE Dispatcher!Once(t)
    <2> SUFFICES ASSUME NEW i \in 1..n, NEW j \in 1..n, t[i] = t[j], t[i] # Dispatcher!Pump PROVE i = j
      BY <1>1 DEF Dispatcher!Once
    <2>1. ASSUME NEW k \in 1..n, k # 1 PROVE k - 1 \in DOMAIN s /\ t[k] = s[k - 1] /\ t[k] \in Dispatcher!Range(s)
      <3>1. k - 1 \in 1..(n - 1) /\ (k - 1) + 1 = k
        BY <1>2, <2>1
      <3> QED BY <3>1, <1>1 DEF Dispatcher!Range
    <2>2. i = 1 <=> j = 1
      BY <2>1, <1>1, <1>6
    <2>3. CASE i # 1
      <3>1. i - 1 = j - 1
        BY <2>1, <2>2, <2>3, <1>6 DEF Dispatcher!Once
      <3> QED BY <3>1
    <2> QED BY <2>2, <2>3
  <1> QED BY <1>1, <1>4, <1>5, <1>6 DEF t, n

LEMMA FromFront ==
  ASSUME NEW S, NEW s \in Seq(S), s # <<>>
  PROVE  /\ Tail(s) \in Seq(S) /\ Len(Tail(s)) = Len(s) - 1 /\ Len(s) \in Nat \ {0} /\ Head(s) \in S
         /\ Tail(s) # s
         /\ Dispatcher!Range(s) = Dispatcher!Range(Tail(s)) \cup {Head(s)}
         /\ Dispatcher!Once(s) => Dispatcher!Once(Tail(s))
         /\ Dispatcher!Once(s) /\ Head(s) # Dispatcher!Pump => Head(s) \notin Dispatcher!Range(Tail(s))
  <1> DEFINE t == Tail(s)
             n == Len(s)
  <1>1. /\ t \in Seq(S) /\ Len(t) = n - 1 /\ n \in Nat \ {0} /\ DOMAIN s = 1..n /\ DOMAIN t = 1..(n - 1)
        /\ Head(s) = s[1] /\ s[1] \in S /\ \A i \in 1..(n - 1) : t[i] = s[i + 1]
    OBVIOUS
  <1>2. \A i \in 1..n : i = 1 \/ (i - 1 \in 1..(n - 1) /\ (i - 1) + 1 = i)
    BY <1>1
  <1>3. 1 \in 1..n /\ \A i \in 1..(n - 1) : i + 1 \in 1..n /\ i + 1 # 1
    BY <1>1
  <1> HIDE DEF t, n
  <1>4. t # s
    BY <1>1 DEF n
  <1>5. Dispatcher!Range(s) = Dispatcher!Range(t) \cup {s[1]}
    <2>1. ASSUME NEW i \in 1..n PROVE s[i] \in Dispatcher!Range(t) \cup {s[1]}
      <3>1. CASE i = 1
        BY <3>1
      <3>2. CASE i - 1 \in 1..(n - 1) /\ (i - 1) + 1 = i
        <4> DEFINE k == i - 1
        <4>1. k \in DOMAIN t /\ t[k] = s[k + 1] /\ k + 1 = i
          BY <3>2, <1>1
        <4> HIDE DEF k
        <4> QED BY <4>1 DEF Dispatcher!Range
      <3> QED BY <3>1, <3>2, <1>2
    <2>2. ASSUME NEW i \in 1..(n - 1) PROVE t[i] \in Dispatcher!Range(s)
      BY <1>1, <1>3 DEF Dispatcher!Range
    <2>3. s[1] \in Dispatcher!Range(s)
      BY <1>1, <1>3 DEF Dispatcher!Range
    <2> QED BY <1>1, <2>1, <2>2, <2>3 DEF Dispatcher!Range
  <1>6. ASSUME Dispatcher!Once(s) PROVE Dispatcher!Once(t)
    <2> SUFFICES ASSUME NEW i \in 1..(n - 1), NEW j \in 1..(n - 1), t[i] = t[j], t[i] # Dispatcher!Pump PROVE i = j
      BY <1>1 DEF Dispatcher!Once
    <2>1. i + 1 = j + 1
      BY <1>1, <1>3, <1>6 DEF Dispatcher!Once
    <2> QED BY <2>1
  <1>7. ASSUME Dispatcher!Once(s), s[1] # Dispatcher!Pump PROVE s[1] \notin Dispatcher!Range(t)
    BY <1>1, <1>3, <1>7 DEF Dispatcher!Once, Dispatcher!Range
  <1> QED BY <1>1, <1>4, <1>5, <1>6, <1>7 DEF t, n

LEMMA Shifted ==
  ASSUME NEW S, NEW s \in Seq(S), NEW q \in Seq(S)
  PROVE  /\ \A x \in S : Append(s \o q, x) = s \o Append(q, x)
         /\ q # <<>> => Append(s, Head(q)) \o Tail(q) = s \o q
  <1>1. ASSUME NEW x \in S PROVE Append(s \o q, x) = s \o Append(q, x)
    OBVIOUS
  <1>2. ASSUME q # <<>> PROVE Append(s, Head(q)) \o Tail(q) = s \o q
    BY <1>2
  <1> QED BY <1>1, <1>2

(* Prefixes, by their elements.                                               *)
LEMMA Prefix ==
  ASSUME NEW S, NEW s \in Seq(S), NEW t \in Seq(S)
  PROVE  Dispatcher!IsPrefix(s, t) <=> Len(s) <= Len(t) /\ \A i \in 1..Len(s) : s[i] = t[i]
  <1>1. ASSUME Len(s) <= Len(t) PROVE SubSeq(s, 1, Len(s)) = SubSeq(t, 1, Len(s)) <=> \A i \in 1..Len(s) : s[i] = t[i]
    BY <1>1
  <1> QED BY <1>1 DEF Dispatcher!IsPrefix

-----------------------------------------------------------------------------
(* A callback is at one place, in the queue or on one stack.                  *)
LEMMA DispatcherInit == Dispatcher!Init => Dispatcher!IInv
  <1> SUFFICES ASSUME Dispatcher!Init PROVE Dispatcher!IInv
    OBVIOUS
  <1>1. \A h \in Users : frames[h] = <<>>
    BY DEF Dispatcher!Init
  <1>2. Dispatcher!Range(<<>>) = {} /\ Dispatcher!Once(<<>>)
    BY DEF Dispatcher!Range, Dispatcher!Once
  <1>3. Dispatcher!TypeOK
    <2>1. frames \in [Users -> Seq(Callbacks \cup {Dispatcher!Pump})]
      BY DEF Dispatcher!Init
    <2>2. \A h \in Users : Len(frames[h]) <= MaxFrames + 1
      BY <1>1, PartsAssumption
    <2> QED BY <2>1, <2>2 DEF Dispatcher!Init, Dispatcher!TypeOK
  <1>4. Dispatcher!InOrder
    BY DEF Dispatcher!Init, Dispatcher!InOrder
  <1>5. Dispatcher!OnceOK /\ Dispatcher!AwaitedOK /\ Dispatcher!DepthOK
    BY <1>1, <1>2 DEF Dispatcher!Init, Dispatcher!OnceOK, Dispatcher!AwaitedOK, Dispatcher!DepthOK, Dispatcher!Pumps
  <1> QED BY <1>3, <1>4, <1>5 DEF Dispatcher!IInv

LEMMA InvokeStep ==
  ASSUME NEW h \in Users, NEW c \in Callbacks PROVE Dispatcher!IInv /\ Dispatcher!InvokeAsync(h, c) => Dispatcher!IInv'
  <1> SUFFICES ASSUME Dispatcher!IInv, Dispatcher!InvokeAsync(h, c) PROVE Dispatcher!IInv'
    OBVIOUS
  <1>1. /\ alive /\ promised[c] = "none" /\ workItems' = Append(workItems, c) /\ submitted' = Append(submitted, c)
        /\ promised' = [promised EXCEPT ![c] = "pending"]
        /\ UNCHANGED <<frames, started, alive>>
    BY DEF Dispatcher!InvokeAsync
  <1>2. c \notin Dispatcher!Range(workItems) /\ \A k \in Users : c \notin Dispatcher!Range(frames[k])
    BY <1>1 DEF Dispatcher!IInv, Dispatcher!AwaitedOK
  <1>3. /\ workItems' \in Seq(Callbacks) /\ Dispatcher!Range(workItems') = Dispatcher!Range(workItems) \cup {c}
        /\ Dispatcher!Once(workItems')
    BY <1>1, <1>2, Behind DEF Dispatcher!IInv, Dispatcher!TypeOK, Dispatcher!OnceOK
  <1>4. Dispatcher!TypeOK'
    BY <1>1, <1>3 DEF Dispatcher!IInv, Dispatcher!TypeOK
  <1>5. Dispatcher!InOrder'
    BY <1>1, Shifted DEF Dispatcher!IInv, Dispatcher!TypeOK, Dispatcher!InOrder
  <1>6. Dispatcher!OnceOK'
    BY <1>1, <1>2, <1>3 DEF Dispatcher!IInv, Dispatcher!OnceOK
  <1>7. Dispatcher!AwaitedOK'
    BY <1>1, <1>3 DEF Dispatcher!IInv, Dispatcher!TypeOK, Dispatcher!AwaitedOK
  <1>8. Dispatcher!DepthOK'
    BY <1>1 DEF Dispatcher!IInv, Dispatcher!DepthOK, Dispatcher!Pumps
  <1> QED BY <1>4, <1>5, <1>6, <1>7, <1>8 DEF Dispatcher!IInv

LEMMA ProcessStep == ASSUME NEW h \in Users PROVE Dispatcher!IInv /\ Dispatcher!Process(h) => Dispatcher!IInv'
  <1> SUFFICES ASSUME Dispatcher!IInv, Dispatcher!Process(h) PROVE Dispatcher!IInv'
    OBVIOUS
  <1>1. /\ alive /\ Len(frames[h]) < MaxFrames /\ frames' = [frames EXCEPT ![h] = <<Dispatcher!Pump>> \o frames[h]]
        /\ UNCHANGED <<workItems, promised, submitted, started, alive>>
    BY DEF Dispatcher!Process
  <1>2. /\ frames[h] \in Seq(Callbacks \cup {Dispatcher!Pump}) /\ frames'[h] = <<Dispatcher!Pump>> \o frames[h]
        /\ \A k \in Users \ {h} : frames'[k] = frames[k]
    BY <1>1 DEF Dispatcher!IInv, Dispatcher!TypeOK
  <1>3. /\ frames'[h] \in Seq(Callbacks \cup {Dispatcher!Pump}) /\ Len(frames'[h]) = Len(frames[h]) + 1
        /\ Dispatcher!Range(frames'[h]) = Dispatcher!Range(frames[h]) \cup {Dispatcher!Pump}
        /\ Dispatcher!Once(frames[h]) => Dispatcher!Once(frames'[h])
    BY <1>2, Before
  <1>4. Len(frames'[h]) <= MaxFrames
    BY <1>1, <1>2, <1>3, PartsAssumption
  <1>5. Dispatcher!TypeOK'
    <2>1. frames' \in [Users -> Seq(Callbacks \cup {Dispatcher!Pump})]
      BY <1>1, <1>3 DEF Dispatcher!IInv, Dispatcher!TypeOK
    <2>2. \A k \in Users : Len(frames'[k]) <= MaxFrames + 1
      <3>1. MaxFrames \in Nat
        BY PartsAssumption
      <3>2. Len(frames'[h]) <= MaxFrames + 1
        BY <1>2, <1>3, <1>4, <3>1
      <3> QED BY <1>2, <3>2 DEF Dispatcher!IInv, Dispatcher!TypeOK
    <2> QED BY <1>1, <2>1, <2>2 DEF Dispatcher!IInv, Dispatcher!TypeOK
  <1>6. Dispatcher!InOrder'
    BY <1>1 DEF Dispatcher!IInv, Dispatcher!InOrder
  <1>7. Dispatcher!Pump \notin Dispatcher!Range(workItems) /\ Dispatcher!Pump \notin Callbacks
    BY PartsAssumption DEF Dispatcher!IInv, Dispatcher!TypeOK, Dispatcher!Range, Dispatcher!Pump
  <1>8. Dispatcher!OnceOK'
    BY <1>1, <1>2, <1>3, <1>7 DEF Dispatcher!IInv, Dispatcher!OnceOK
  <1>9. Dispatcher!AwaitedOK'
    BY <1>1, <1>2, <1>3, <1>7 DEF Dispatcher!IInv, Dispatcher!AwaitedOK
  <1>10. Dispatcher!DepthOK'
    BY <1>1, <1>2, <1>4 DEF Dispatcher!IInv, Dispatcher!DepthOK, Dispatcher!Pumps
  <1> QED BY <1>5, <1>6, <1>8, <1>9, <1>10 DEF Dispatcher!IInv

LEMMA TakeStep == ASSUME NEW h \in Users PROVE Dispatcher!IInv /\ Dispatcher!Take(h) => Dispatcher!IInv'
  <1> SUFFICES ASSUME Dispatcher!IInv, Dispatcher!Take(h) PROVE Dispatcher!IInv'
    OBVIOUS
  <1> DEFINE c == Head(workItems)
  <1>1. /\ frames[h] # <<>> /\ Head(frames[h]) = Dispatcher!Pump /\ workItems # <<>>
        /\ frames' = [frames EXCEPT ![h] = <<c>> \o frames[h]] /\ started' = Append(started, c) /\ workItems' = Tail(workItems)
        /\ UNCHANGED <<promised, submitted, alive>>
    BY DEF Dispatcher!Take, Dispatcher!Pumps
  <1>2. /\ workItems' \in Seq(Callbacks) /\ c \in Callbacks
        /\ Dispatcher!Range(workItems) = Dispatcher!Range(workItems') \cup {c}
        /\ Dispatcher!Once(workItems') /\ c \notin Dispatcher!Range(workItems')
    <2>1. c # Dispatcher!Pump
      BY <1>1, FromFront, PartsAssumption DEF Dispatcher!IInv, Dispatcher!TypeOK, Dispatcher!Pump
    <2> QED BY <1>1, <2>1, FromFront DEF Dispatcher!IInv, Dispatcher!TypeOK, Dispatcher!OnceOK
  <1> HIDE DEF c
  <1>3. /\ frames[h] \in Seq(Callbacks \cup {Dispatcher!Pump}) /\ frames'[h] = <<c>> \o frames[h]
        /\ \A k \in Users \ {h} : frames'[k] = frames[k]
    BY <1>1 DEF Dispatcher!IInv, Dispatcher!TypeOK
  <1>4. \A k \in Users : c \notin Dispatcher!Range(frames[k])
    BY <1>2 DEF Dispatcher!IInv, Dispatcher!OnceOK
  <1>5. /\ frames'[h] \in Seq(Callbacks \cup {Dispatcher!Pump}) /\ Len(frames'[h]) = Len(frames[h]) + 1
        /\ Dispatcher!Range(frames'[h]) = Dispatcher!Range(frames[h]) \cup {c}
        /\ Dispatcher!Once(frames[h]) => Dispatcher!Once(frames'[h])
        /\ Head(frames'[h]) = c
    BY <1>2, <1>3, <1>4, Before
  <1>6. Len(frames[h]) <= MaxFrames /\ alive
    BY <1>1 DEF Dispatcher!IInv, Dispatcher!DepthOK, Dispatcher!Pumps
  <1>7. Dispatcher!TypeOK'
    <2>1. frames' \in [Users -> Seq(Callbacks \cup {Dispatcher!Pump})]
      BY <1>1, <1>5 DEF Dispatcher!IInv, Dispatcher!TypeOK
    <2>2. \A k \in Users : Len(frames'[k]) <= MaxFrames + 1
      <3>1. MaxFrames \in Nat
        BY PartsAssumption
      <3>2. Len(frames'[h]) <= MaxFrames + 1
        BY <1>3, <1>5, <1>6, <3>1
      <3> QED BY <1>3, <3>2 DEF Dispatcher!IInv, Dispatcher!TypeOK
    <2>3. started' \in Seq(Callbacks)
      BY <1>1, <1>2 DEF Dispatcher!IInv, Dispatcher!TypeOK
    <2> QED BY <1>1, <1>2, <2>1, <2>2, <2>3 DEF Dispatcher!IInv, Dispatcher!TypeOK
  <1>8. Dispatcher!InOrder'
    <2>1. Append(started, c) \o Tail(workItems) = started \o workItems
      <3>1. started \in Seq(Callbacks) /\ workItems \in Seq(Callbacks) /\ workItems # <<>>
        BY <1>1 DEF Dispatcher!IInv, Dispatcher!TypeOK
      <3> QED BY <3>1, Shifted DEF c
    <2> QED BY <1>1, <1>6, <2>1 DEF Dispatcher!IInv, Dispatcher!InOrder
  <1>9. Dispatcher!OnceOK'
    <2>1. \A k \in Users : Dispatcher!Once(frames'[k])
      BY <1>3, <1>5 DEF Dispatcher!IInv, Dispatcher!OnceOK
    <2>2. ASSUME NEW k \in Users PROVE Dispatcher!Range(frames'[k]) \cap Dispatcher!Range(workItems') = {}
      <3>1. Dispatcher!Range(frames[k]) \cap Dispatcher!Range(workItems) = {}
        BY DEF Dispatcher!IInv, Dispatcher!OnceOK
      <3>2. Dispatcher!Range(frames[k]) \cap Dispatcher!Range(workItems') = {}
        BY <1>2, <3>1
      <3>3. CASE k = h
        BY <1>2, <1>5, <3>2, <3>3
      <3>4. CASE k # h
        BY <1>3, <3>2, <3>4
      <3> QED BY <3>3, <3>4
    <2>3. ASSUME NEW j \in Users, NEW k \in Users, j # k
          PROVE  Dispatcher!Range(frames'[j]) \cap Dispatcher!Range(frames'[k]) \subseteq {Dispatcher!Pump}
      <3>1. Dispatcher!Range(frames[j]) \cap Dispatcher!Range(frames[k]) \subseteq {Dispatcher!Pump}
        BY <2>3 DEF Dispatcher!IInv, Dispatcher!OnceOK
      <3>2. CASE j = h
        BY <1>3, <1>4, <1>5, <2>3, <3>1, <3>2
      <3>3. CASE j # h
        BY <1>3, <1>4, <1>5, <2>3, <3>1, <3>3
      <3> QED BY <3>2, <3>3
    <2> QED BY <1>2, <2>1, <2>2, <2>3 DEF Dispatcher!OnceOK
  <1>10. Dispatcher!AwaitedOK'
    BY <1>1, <1>2, <1>3, <1>5 DEF Dispatcher!IInv, Dispatcher!AwaitedOK
  <1>11. Dispatcher!DepthOK'
    <2>1. c # Dispatcher!Pump
      BY <1>2, PartsAssumption DEF Dispatcher!Pump
    <2> QED BY <1>1, <1>3, <1>5, <1>6, <2>1 DEF Dispatcher!IInv, Dispatcher!DepthOK, Dispatcher!Pumps
  <1> QED BY <1>7, <1>8, <1>9, <1>10, <1>11 DEF Dispatcher!IInv

(* What a thread returns from goes off its stack.                             *)
LEMMA ReturnStep ==
  ASSUME NEW h \in Users, Dispatcher!IInv, frames[h] # <<>>, frames' = [frames EXCEPT ![h] = Tail(frames[h])],
         UNCHANGED <<workItems, submitted, started, alive>>,
         promised' \in [Callbacks -> {"none", "pending", "ready", "thrown", "broken"}],
         \A c \in Callbacks : promised'[c] = IF c = Head(frames[h]) THEN promised'[c] ELSE promised[c],
         Head(frames[h]) \in Callbacks => promised'[Head(frames[h])] # "pending"
  PROVE  Dispatcher!IInv'
  <1> DEFINE c == Head(frames[h])
  <1>1. /\ frames[h] \in Seq(Callbacks \cup {Dispatcher!Pump}) /\ frames'[h] = Tail(frames[h])
        /\ \A k \in Users \ {h} : frames'[k] = frames[k]
    BY DEF Dispatcher!IInv, Dispatcher!TypeOK
  <1>2. /\ frames'[h] \in Seq(Callbacks \cup {Dispatcher!Pump}) /\ Len(frames'[h]) = Len(frames[h]) - 1
        /\ Len(frames[h]) \in Nat
        /\ c \in Callbacks \cup {Dispatcher!Pump}
        /\ Dispatcher!Range(frames[h]) = Dispatcher!Range(frames'[h]) \cup {c}
        /\ Dispatcher!Once(frames'[h])
        /\ c # Dispatcher!Pump => c \notin Dispatcher!Range(frames'[h])
    <2>1. Dispatcher!Once(frames[h])
      BY DEF Dispatcher!IInv, Dispatcher!OnceOK
    <2>2. Len(frames[h]) \in Nat /\ c \in Callbacks \cup {Dispatcher!Pump}
      BY <1>1, FromFront
    <2>3. /\ Tail(frames[h]) \in Seq(Callbacks \cup {Dispatcher!Pump}) /\ Len(Tail(frames[h])) = Len(frames[h]) - 1
          /\ Dispatcher!Range(frames[h]) = Dispatcher!Range(Tail(frames[h])) \cup {c}
      BY <1>1, FromFront
    <2>4. Dispatcher!Once(Tail(frames[h])) /\ (c # Dispatcher!Pump => c \notin Dispatcher!Range(Tail(frames[h])))
      BY <1>1, <2>1, FromFront
    <2> HIDE DEF c
    <2> QED BY <1>1, <2>2, <2>3, <2>4
  <1>3. Len(frames'[h]) <= MaxFrames
    BY <1>2, PartsAssumption DEF Dispatcher!IInv, Dispatcher!TypeOK
  <1>4. \A k \in Callbacks : k # c => promised'[k] = promised[k]
    OBVIOUS
  <1>5. c \in Callbacks => promised'[c] # "pending"
    OBVIOUS
  <1> HIDE DEF c
  <1>6. Dispatcher!Pump \notin Callbacks /\ Dispatcher!Range(frames'[h]) \subseteq Dispatcher!Range(frames[h])
    BY <1>2, PartsAssumption DEF Dispatcher!Pump
  <1>7. Dispatcher!TypeOK'
    <2>1. frames' \in [Users -> Seq(Callbacks \cup {Dispatcher!Pump})]
      BY <1>1, <1>2 DEF Dispatcher!IInv, Dispatcher!TypeOK
    <2>2. \A k \in Users : Len(frames'[k]) <= MaxFrames + 1
      BY <1>1, <1>2, <1>3, PartsAssumption DEF Dispatcher!IInv, Dispatcher!TypeOK
    <2> QED BY <2>1, <2>2 DEF Dispatcher!IInv, Dispatcher!TypeOK
  <1>8. Dispatcher!InOrder'
    BY DEF Dispatcher!IInv, Dispatcher!InOrder
  <1>9. Dispatcher!OnceOK'
    BY <1>1, <1>2, <1>6 DEF Dispatcher!IInv, Dispatcher!OnceOK
  <1>10. Dispatcher!AwaitedOK'
    <2> SUFFICES ASSUME NEW d \in Callbacks
                 PROVE  promised'[d] = "pending" <=>
                          d \in Dispatcher!Range(workItems) \/ \E k \in Users : d \in Dispatcher!Range(frames'[k])
      BY DEF Dispatcher!AwaitedOK
    <2>1. CASE d = c
      <3>1. d \notin Dispatcher!Range(workItems) /\ \A k \in Users : d \notin Dispatcher!Range(frames'[k])
        <4>1. d # Dispatcher!Pump /\ d \notin Dispatcher!Range(frames'[h]) /\ d \in Dispatcher!Range(frames[h])
          BY <1>2, <1>6, <2>1
        <4>2. d \notin Dispatcher!Range(workItems)
          BY <4>1 DEF Dispatcher!IInv, Dispatcher!OnceOK
        <4>3. ASSUME NEW k \in Users \ {h} PROVE d \notin Dispatcher!Range(frames'[k])
          <5>1. Dispatcher!Range(frames[h]) \cap Dispatcher!Range(frames[k]) \subseteq {Dispatcher!Pump}
            BY DEF Dispatcher!IInv, Dispatcher!OnceOK
          <5> QED BY <1>1, <4>1, <5>1
        <4> QED BY <4>1, <4>2, <4>3
      <3> QED BY <1>5, <2>1, <3>1
    <2>2. CASE d # c
      <3>1. \A k \in Users : d \in Dispatcher!Range(frames'[k]) <=> d \in Dispatcher!Range(frames[k])
        BY <1>1, <1>2, <2>2
      <3> QED BY <1>4, <2>2, <3>1 DEF Dispatcher!IInv, Dispatcher!AwaitedOK
    <2> QED BY <2>1, <2>2
  <1>11. Dispatcher!DepthOK'
    BY <1>1, <1>3 DEF Dispatcher!IInv, Dispatcher!DepthOK, Dispatcher!Pumps
  <1> QED BY <1>7, <1>8, <1>9, <1>10, <1>11 DEF Dispatcher!IInv

LEMMA DestroyStep == Dispatcher!IInv /\ Dispatcher!Destroy => Dispatcher!IInv'
  <1> SUFFICES ASSUME Dispatcher!IInv, Dispatcher!Destroy PROVE Dispatcher!IInv'
    OBVIOUS
  <1>1. /\ alive /\ alive' = FALSE /\ workItems' = <<>> /\ \A k \in Users : frames[k] = <<>>
        /\ promised' = [c \in Callbacks |-> IF promised[c] = "pending" THEN "broken" ELSE promised[c]]
        /\ UNCHANGED <<frames, submitted, started>>
    BY DEF Dispatcher!Destroy
  <1>2. Dispatcher!Range(<<>>) = {} /\ Dispatcher!Once(<<>>)
    BY DEF Dispatcher!Range, Dispatcher!Once
  <1>3. Dispatcher!TypeOK'
    <2>1. \A c \in Callbacks : promised'[c] \in {"none", "pending", "ready", "thrown", "broken"}
      BY <1>1 DEF Dispatcher!IInv, Dispatcher!TypeOK
    <2>2. promised' \in [Callbacks -> {"none", "pending", "ready", "thrown", "broken"}]
      BY <1>1, <2>1
    <2>3. workItems' \in Seq(Callbacks)
      BY <1>1
    <2> QED BY <1>1, <2>2, <2>3 DEF Dispatcher!IInv, Dispatcher!TypeOK
  <1>4. Dispatcher!InOrder'
    <2>1. submitted = started \o workItems /\ started \in Seq(Callbacks) /\ workItems \in Seq(Callbacks) /\ submitted \in Seq(Callbacks)
      BY <1>1 DEF Dispatcher!IInv, Dispatcher!TypeOK, Dispatcher!InOrder
    <2>2. Len(started) <= Len(submitted) /\ \A i \in 1..Len(started) : started[i] = submitted[i]
      BY <2>1
    <2> QED BY <1>1, <2>1, <2>2, Prefix DEF Dispatcher!InOrder
  <1>5. Dispatcher!OnceOK' /\ Dispatcher!DepthOK'
    BY <1>1, <1>2 DEF Dispatcher!OnceOK, Dispatcher!DepthOK, Dispatcher!Pumps
  <1>6. Dispatcher!AwaitedOK'
    BY <1>1, <1>2 DEF Dispatcher!AwaitedOK
  <1> QED BY <1>3, <1>4, <1>5, <1>6 DEF Dispatcher!IInv

LEMMA DispatcherNext == Dispatcher!IInv /\ [Dispatcher!Next]_dispatcherVars => Dispatcher!IInv'
  <1> SUFFICES ASSUME Dispatcher!IInv, [Dispatcher!Next]_dispatcherVars PROVE Dispatcher!IInv'
    OBVIOUS
  <1>1. ASSUME NEW h \in Users, Dispatcher!Finish(h) PROVE Dispatcher!IInv'
    <2>1. PICK o \in {"ready", "thrown"} : promised' = [promised EXCEPT ![Head(frames[h])] = o]
      BY <1>1 DEF Dispatcher!Finish
    <2>2. frames[h] # <<>> /\ frames' = [frames EXCEPT ![h] = Tail(frames[h])] /\ UNCHANGED <<workItems, submitted, started, alive>>
      BY <1>1 DEF Dispatcher!Finish, Dispatcher!Runs
    <2>3. /\ promised' \in [Callbacks -> {"none", "pending", "ready", "thrown", "broken"}]
          /\ \A c \in Callbacks : c # Head(frames[h]) => promised'[c] = promised[c]
          /\ Head(frames[h]) \in Callbacks => promised'[Head(frames[h])] # "pending"
      BY <2>1 DEF Dispatcher!IInv, Dispatcher!TypeOK
    <2> QED BY <2>2, <2>3, ReturnStep
  <1>2. ASSUME NEW h \in Users, Dispatcher!EndProcess(h) PROVE Dispatcher!IInv'
    <2>1. /\ frames[h] # <<>> /\ frames' = [frames EXCEPT ![h] = Tail(frames[h])]
          /\ UNCHANGED <<workItems, submitted, started, alive, promised>> /\ Head(frames[h]) \notin Callbacks
      BY <1>2, PartsAssumption DEF Dispatcher!EndProcess, Dispatcher!Pumps, Dispatcher!Pump
    <2>2. promised' \in [Callbacks -> {"none", "pending", "ready", "thrown", "broken"}]
      BY <2>1 DEF Dispatcher!IInv, Dispatcher!TypeOK
    <2> QED BY <2>1, <2>2, ReturnStep
  <1>3. CASE UNCHANGED dispatcherVars
    BY <1>3 DEF dispatcherVars, Dispatcher!IInv, Dispatcher!TypeOK, Dispatcher!InOrder, Dispatcher!OnceOK,
                Dispatcher!AwaitedOK, Dispatcher!DepthOK, Dispatcher!Pumps
  <1> QED BY <1>1, <1>2, <1>3, InvokeStep, ProcessStep, TakeStep, DestroyStep DEF Dispatcher!Next

-----------------------------------------------------------------------------
(* The map of handlers is not touched while a raise walks it, and who returns *)
(* from process_pending_invocations() leaves nothing in the queue.            *)
THEOREM StepsKept == PartsSpec => StepsAreSafe
  <1>1. Events!ConstantsOK
    BY PartsAssumption DEF Events!ConstantsOK
  <1>2. Events!Spec => Events!StableWhileRaised
    BY <1>1, Events!MapStable
  <1>3. ASSUME Dispatcher!IInv, Dispatcher!Next
        PROVE  \A h \in Users : Dispatcher!Pumps(h) /\ frames'[h] = Tail(frames[h]) => workItems = <<>>
    <2> SUFFICES ASSUME NEW h \in Users, Dispatcher!Pumps(h), frames'[h] = Tail(frames[h]), workItems # <<>> PROVE FALSE
      OBVIOUS
    <2>1. frames[h] \in Seq(Callbacks \cup {Dispatcher!Pump}) /\ frames[h] # <<>> /\ frames \in [Users -> Seq(Callbacks \cup {Dispatcher!Pump})]
      BY <1>3 DEF Dispatcher!IInv, Dispatcher!TypeOK, Dispatcher!Pumps
    <2>2. frames'[h] # frames[h] /\ Len(frames'[h]) = Len(frames[h]) - 1 /\ Len(frames[h]) \in Nat
      BY <2>1, FromFront
    <2>3. ASSUME NEW k \in Users, Dispatcher!Process(k) \/ Dispatcher!Take(k) PROVE FALSE
      <3>1. PICK x \in Callbacks \cup {Dispatcher!Pump} : frames' = [frames EXCEPT ![k] = <<x>> \o frames[k]]
        BY <1>3, <2>3, FromFront DEF Dispatcher!Process, Dispatcher!Take, Dispatcher!IInv, Dispatcher!TypeOK
      <3>2. frames'[h] = frames[h] \/ Len(frames'[h]) = Len(frames[h]) + 1
        BY <2>1, <3>1, Before
      <3> QED BY <2>2, <3>2
    <2>4. ASSUME NEW k \in Users, Dispatcher!Finish(k) \/ Dispatcher!EndProcess(k) PROVE FALSE
      <3>1. h # k
        BY <2>4 DEF Dispatcher!Finish, Dispatcher!EndProcess, Dispatcher!Runs, Dispatcher!Pumps
      <3> QED BY <2>1, <2>2, <2>4, <3>1 DEF Dispatcher!Finish, Dispatcher!EndProcess
    <2>5. CASE Dispatcher!Destroy \/ \E k \in Users, c \in Callbacks : Dispatcher!InvokeAsync(k, c)
      BY <2>2, <2>5 DEF Dispatcher!Destroy, Dispatcher!InvokeAsync
    <2> QED BY <1>3, <2>3, <2>4, <2>5 DEF Dispatcher!Next
  <1>4. Dispatcher!IInv /\ [Dispatcher!Next]_dispatcherVars
          => [\A h \in Users : Dispatcher!Pumps(h) /\ frames'[h] = Tail(frames[h]) => workItems = <<>>]_(Dispatcher!dispatcherVars)
    BY <1>3 DEF dispatcherVars, Dispatcher!dispatcherVars
  <1>5. PartsSpec => Dispatcher!Drained
    BY <1>4, DispatcherInit, DispatcherNext, DispatcherPart, PTL DEF Dispatcher!Drained
  <1> QED BY <1>2, <1>5, EventsPart, PTL DEF StepsAreSafe

-----------------------------------------------------------------------------
(* One place counts once.                                                     *)
LEMMA OneOrNone ==
  ASSUME NEW S, \A x, y \in S : x = y
  PROVE  Cardinality(S) \in {0, 1} /\ (Cardinality(S) = 1 <=> S # {})
  <1>1. CASE S = {}
    BY <1>1, FS_EmptySet
  <1>2. CASE S # {}
    <2>1. PICK x : S = {x}
      BY <1>2
    <2> QED BY <2>1, FS_Singleton
  <1> QED BY <1>1, <1>2

LEMMA DispatcherCount == \A S : Dispatcher!Cardinality(S) = Cardinality(S)
  BY DEF Dispatcher!Cardinality, Cardinality

LEMMA InOrderOnceHolds == Dispatcher!IInv => Dispatcher!InOrderOnce
  <1> SUFFICES ASSUME Dispatcher!IInv, NEW c \in Callbacks
               PROVE  promised[c] = "pending" <=>
                        Dispatcher!Cardinality({i \in DOMAIN workItems : workItems[i] = c})
                          + Dispatcher!Cardinality({h \in Users : c \in Dispatcher!Range(frames[h])}) = 1
    BY DEF Dispatcher!IInv, Dispatcher!InOrderOnce
  <1> DEFINE Q == {i \in DOMAIN workItems : workItems[i] = c}
             F == {h \in Users : c \in Dispatcher!Range(frames[h])}
  <1>1. c # Dispatcher!Pump
    BY PartsAssumption DEF Dispatcher!Pump
  <1>2. \A i, j \in Q : i = j
    BY <1>1 DEF Dispatcher!IInv, Dispatcher!OnceOK, Dispatcher!Once
  <1>3. \A h, k \in F : h = k
    BY <1>1 DEF Dispatcher!IInv, Dispatcher!OnceOK
  <1>4. Q # {} <=> c \in Dispatcher!Range(workItems)
    BY DEF Dispatcher!Range
  <1>5. ~(Q # {} /\ F # {})
    BY <1>4 DEF Dispatcher!IInv, Dispatcher!OnceOK
  <1>6. promised[c] = "pending" <=> Q # {} \/ F # {}
    BY <1>4 DEF Dispatcher!IInv, Dispatcher!AwaitedOK
  <1>7. /\ Cardinality(Q) \in {0, 1} /\ (Cardinality(Q) = 1 <=> Q # {})
        /\ Cardinality(F) \in {0, 1} /\ (Cardinality(F) = 1 <=> F # {})
    BY <1>2, <1>3, OneOrNone
  <1> HIDE DEF Q, F
  <1>8. promised[c] = "pending" <=> Cardinality(Q) + Cardinality(F) = 1
    BY <1>5, <1>6, <1>7
  <1>9. promised[c] = "pending" <=> Dispatcher!Cardinality(Q) + Dispatcher!Cardinality(F) = 1
    BY <1>8, DispatcherCount
  <1> QED BY <1>9 DEF Q, F

-----------------------------------------------------------------------------
(* Entries go through the queue to the worker, who may be behind by one.      *)
LEMMA LastApart ==
  ASSUME NEW S, NEW s \in Seq(S)
  PROVE  /\ \A x \in S : Append(s, x) \in Seq(S) /\ Append(s, x) # <<>> /\ Log!Front(Append(s, x)) = s
         /\ s # <<>> => /\ Log!Front(s) \in Seq(S) /\ Log!Last(s) \in S /\ Append(Log!Front(s), Log!Last(s)) = s
                        /\ Len(Log!Front(s)) = Len(s) - 1 /\ \A i \in 1..(Len(s) - 1) : Log!Front(s)[i] = s[i]
  <1>1. ASSUME NEW x \in S PROVE Append(s, x) \in Seq(S) /\ Append(s, x) # <<>> /\ Log!Front(Append(s, x)) = s
    <2>1. Append(s, x) \in Seq(S) /\ Len(Append(s, x)) = Len(s) + 1 /\ \A i \in 1..Len(s) : Append(s, x)[i] = s[i]
      OBVIOUS
    <2>2. Append(s, x) # <<>>
      <3>1. Len(s) + 1 # 0
        OBVIOUS
      <3> QED BY <2>1, <3>1
    <2>3. SubSeq(Append(s, x), 1, Len(s)) = s
      BY <2>1
    <2>4. (Len(s) + 1) - 1 = Len(s)
      OBVIOUS
    <2> QED BY <2>1, <2>2, <2>3, <2>4 DEF Log!Front
  <1>2. ASSUME s # <<>>
        PROVE  /\ Log!Front(s) \in Seq(S) /\ Log!Last(s) \in S /\ Append(Log!Front(s), Log!Last(s)) = s
               /\ Len(Log!Front(s)) = Len(s) - 1 /\ \A i \in 1..(Len(s) - 1) : Log!Front(s)[i] = s[i]
    <2> DEFINE f == SubSeq(s, 1, Len(s) - 1)
    <2>1. Len(s) \in Nat \ {0}
      BY <1>2
    <2>2. f \in Seq(S) /\ Len(f) = Len(s) - 1 /\ \A i \in 1..(Len(s) - 1) : f[i] = s[i]
      <3>1. Len(s) - 1 \in Nat /\ 1..(Len(s) - 1) \subseteq 1..Len(s)
        BY <2>1
      <3>2. \A i \in 1..(Len(s) - 1) : s[i] \in S
        BY <3>1
      <3>3. f \in Seq(S)
        BY <2>1, <3>1, <3>2
      <3>4. Len(f) = Len(s) - 1
        BY <2>1, <1>2, Events!Shorter
      <3>5. \A i \in 1..(Len(s) - 1) : f[i] = s[i]
        BY <2>1, <3>1
      <3> QED BY <3>3, <3>4, <3>5
    <2>3. s[Len(s)] \in S
      BY <2>1
    <2> HIDE DEF f
    <2>4. Append(f, s[Len(s)]) = s
      BY <2>1, <2>2, <2>3
    <2> QED BY <2>2, <2>3, <2>4 DEF f, Log!Front, Log!Last
  <1> QED BY <1>1, <1>2

LEMMA LogInit == Log!Init => Log!IInv
  <1> SUFFICES ASSUME Log!Init PROVE Log!IInv
    OBVIOUS
  <1>1. Log!TypeOK
    <2>1. /\ logging = [h \in Users |-> <<>>] /\ logged = <<>> /\ refused = {} /\ worker = "unstarted" /\ written = <<>>
          /\ shutdown = "running" /\ intime = 0 /\ severity \in Levels /\ queue = <<>> /\ taken = <<>> /\ closed = FALSE
      BY DEF Log!Init, Log!Queue!Init
    <2>2. \A h \in Users : logging[h] \in Seq(DOMAIN Entries) /\ Len(logging[h]) <= 1
      BY <2>1
    <2>3. logging \in [Users -> Seq(DOMAIN Entries)]
      BY <2>1, <2>2
    <2>4. intime \in 0..Len(logged) /\ refused \subseteq DOMAIN Entries /\ closed \in BOOLEAN
      <3>1. Len(logged) = 0 /\ 0 \in 0..0
        BY <2>1
      <3> QED BY <2>1, <3>1
    <2>5. /\ logged \in Seq(DOMAIN Entries) /\ written \in Seq(DOMAIN Entries)
          /\ queue \in Seq(DOMAIN Entries) /\ taken \in Seq(DOMAIN Entries)
      BY <2>1
    <2>6. severity \in Levels /\ worker = "unstarted" /\ shutdown = "running"
      BY <2>1
    <2> QED BY <2>2, <2>3, <2>4, <2>5, <2>6 DEF Log!TypeOK
  <1>2. Log!PassedOn /\ Log!EndsLast
    BY DEF Log!Init, Log!Queue!Init, Log!PassedOn, Log!EndsLast
  <1> QED BY <1>1, <1>2 DEF Log!IInv

(* Entering log(), by check, refusal and admission, leaves what is queued.    *)
LEMMA EnterLog ==
  ASSUME Log!IInv,
         \/ Log!InitializeLogger
         \/ \E s \in Levels : Log!SetSeverity(s)
         \/ \E h \in Users : Log!Admit(h) \/ \E e \in DOMAIN Entries : Log!Log(h, e)
  PROVE  Log!IInv'
  <1>1. UNCHANGED <<logged, written, shutdown, intime, queue, closed, taken>>
    BY DEF Log!InitializeLogger, Log!SetSeverity, Log!Admit, Log!Log, Log!queueVars, Log!Queue!Admit
  <1>2. worker' = worker \/ (worker = "unstarted" /\ worker' = "idle")
    BY DEF Log!InitializeLogger, Log!SetSeverity, Log!Admit, Log!Log
  <1>3. severity' \in Levels
    BY DEF Log!InitializeLogger, Log!SetSeverity, Log!Admit, Log!Log, Log!IInv, Log!TypeOK
  <1>4. /\ refused' \subseteq DOMAIN Entries
        /\ logging' \in [Users -> Seq(DOMAIN Entries)] /\ \A h \in Users : Len(logging'[h]) <= 1
    <2>1. CASE Log!InitializeLogger \/ \E s \in Levels : Log!SetSeverity(s)
      BY <2>1 DEF Log!InitializeLogger, Log!SetSeverity, Log!IInv, Log!TypeOK
    <2>2. ASSUME NEW h \in Users, NEW e \in DOMAIN Entries, Log!Log(h, e)
          PROVE  /\ refused' \subseteq DOMAIN Entries
                 /\ logging' \in [Users -> Seq(DOMAIN Entries)] /\ \A k \in Users : Len(logging'[k]) <= 1
      <3>1. <<e>> \in Seq(DOMAIN Entries) /\ Len(<<e>>) = 1
        OBVIOUS
      <3> QED BY <2>2, <3>1 DEF Log!Log, Log!IInv, Log!TypeOK
    <2>3. ASSUME NEW h \in Users, Log!Admit(h)
          PROVE  /\ refused' \subseteq DOMAIN Entries
                 /\ logging' \in [Users -> Seq(DOMAIN Entries)] /\ \A k \in Users : Len(logging'[k]) <= 1
      <3>1. \A x \in Log!Range(logging[h]) : x \in DOMAIN Entries
        BY DEF Log!Range, Log!IInv, Log!TypeOK
      <3>2. <<>> \in Seq(DOMAIN Entries) /\ Len(<<>>) = 0
        OBVIOUS
      <3>3. CASE closed
        <4>1. refused' = refused \cup Log!Range(logging[h]) /\ logging' = [logging EXCEPT ![h] = <<>>]
          BY <2>3, <3>3 DEF Log!Admit
        <4>2. refused' \subseteq DOMAIN Entries
          BY <3>1, <4>1 DEF Log!IInv, Log!TypeOK
        <4>3. logging' \in [Users -> Seq(DOMAIN Entries)] /\ \A k \in Users : Len(logging'[k]) <= 1
          BY <3>2, <4>1 DEF Log!IInv, Log!TypeOK
        <4> QED BY <4>2, <4>3
      <3>4. CASE ~closed
        BY <2>3, <3>4 DEF Log!Admit, Log!IInv, Log!TypeOK
      <3> QED BY <3>3, <3>4
    <2> QED BY <2>1, <2>2, <2>3
  <1>5. Log!TypeOK'
    BY <1>1, <1>2, <1>3, <1>4 DEF Log!IInv, Log!TypeOK
  <1>6. Log!PassedOn' /\ Log!EndsLast'
    BY <1>1, <1>2 DEF Log!IInv, Log!PassedOn, Log!EndsLast
  <1> QED BY <1>5, <1>6 DEF Log!IInv

LEMMA PutLog == ASSUME NEW h \in Users PROVE Log!IInv /\ Log!Put(h) => Log!IInv'
  <1> SUFFICES ASSUME Log!IInv, Log!Put(h) PROVE Log!IInv'
    OBVIOUS
  <1> DEFINE e == logging[h][1]
  <1>1. /\ logging[h] # <<>> /\ logged' = Append(logged, e) /\ logging' = [logging EXCEPT ![h] = <<>>]
        /\ queue' = Append(queue, e)
        /\ UNCHANGED <<severity, refused, worker, written, shutdown, intime, closed, taken>>
    BY DEF Log!Put, Log!Queue!Put
  <1>2. e \in DOMAIN Entries
    <2>1. logging[h] \in Seq(DOMAIN Entries) /\ logging[h] # <<>>
      BY <1>1 DEF Log!IInv, Log!TypeOK
    <2> QED BY <2>1
  <1> HIDE DEF e
  <1>3. /\ logged' \in Seq(DOMAIN Entries) /\ queue' \in Seq(DOMAIN Entries) /\ Len(logged') = Len(logged) + 1
        /\ Len(logged) \in Nat
    BY <1>1, <1>2 DEF Log!IInv, Log!TypeOK
  <1>4. logging' \in [Users -> Seq(DOMAIN Entries)] /\ \A k \in Users : Len(logging'[k]) <= 1
    BY <1>1 DEF Log!IInv, Log!TypeOK
  <1>5. intime' \in 0..Len(logged')
    BY <1>1, <1>3 DEF Log!IInv, Log!TypeOK
  <1>6. Log!TypeOK'
    BY <1>1, <1>3, <1>4, <1>5 DEF Log!IInv, Log!TypeOK
  <1>7. Log!PassedOn'
    <2>1. Append(taken \o queue, e) = taken \o Append(queue, e)
      <3>1. taken \in Seq(DOMAIN Entries) /\ queue \in Seq(DOMAIN Entries)
        BY DEF Log!IInv, Log!TypeOK
      <3> QED BY <1>2, <3>1, Shifted
    <2> QED BY <1>1, <2>1 DEF Log!IInv, Log!PassedOn
  <1>8. Log!EndsLast'
    BY <1>1 DEF Log!IInv, Log!EndsLast
  <1> QED BY <1>6, <1>7, <1>8 DEF Log!IInv

LEMMA WorkLog ==
  ASSUME Log!IInv, Log!WorkerTakes \/ Log!WorkerWrites \/ Log!WorkerEnds
  PROVE  Log!IInv'
  <1>1. CASE Log!WorkerTakes
    <2> DEFINE e == Head(queue)
    <2>1. /\ worker = "idle" /\ worker' = "printing" /\ queue # <<>> /\ taken' = Append(taken, e) /\ queue' = Tail(queue)
          /\ UNCHANGED <<severity, logging, logged, refused, written, shutdown, intime, closed>>
      BY <1>1 DEF Log!WorkerTakes, Log!Queue!Take
    <2>2. e \in DOMAIN Entries /\ queue' \in Seq(DOMAIN Entries) /\ taken \in Seq(DOMAIN Entries)
      BY <2>1 DEF Log!IInv, Log!TypeOK
    <2>4. taken' \o queue' = taken \o queue
      <3>1. taken \in Seq(DOMAIN Entries) /\ queue \in Seq(DOMAIN Entries) /\ queue # <<>>
        BY <2>1 DEF Log!IInv, Log!TypeOK
      <3>2. Append(taken, Head(queue)) \o Tail(queue) = taken \o queue
        BY <3>1, Shifted
      <3>3. taken' = Append(taken, Head(queue)) /\ queue' = Tail(queue)
        BY <2>1
      <3> QED BY <3>2, <3>3
    <2> HIDE DEF e
    <2>3. taken' \in Seq(DOMAIN Entries) /\ taken' # <<>> /\ Log!Front(taken') = taken
      <3>1. Append(taken, e) \in Seq(DOMAIN Entries) /\ Append(taken, e) # <<>> /\ Log!Front(Append(taken, e)) = taken
        BY <2>2, LastApart
      <3> QED BY <2>1, <3>1
    <2>5. Log!TypeOK'
      BY <2>1, <2>2, <2>3 DEF Log!IInv, Log!TypeOK
    <2>6. Log!PassedOn' /\ Log!EndsLast'
      BY <2>1, <2>3, <2>4 DEF Log!IInv, Log!PassedOn, Log!EndsLast
    <2> QED BY <2>5, <2>6 DEF Log!IInv
  <1>2. CASE Log!WorkerWrites
    <2>1. /\ worker = "printing" /\ worker' = "idle" /\ written' = Append(written, Log!Last(taken))
          /\ UNCHANGED <<severity, logging, logged, refused, shutdown, intime, queue, closed, taken>>
      BY <1>2 DEF Log!WorkerWrites, Log!queueVars
    <2>2. written' = taken
      BY <2>1, LastApart DEF Log!IInv, Log!TypeOK, Log!PassedOn
    <2>3. Log!TypeOK'
      BY <2>1, <2>2 DEF Log!IInv, Log!TypeOK
    <2>4. Log!PassedOn' /\ Log!EndsLast'
      BY <2>1, <2>2 DEF Log!IInv, Log!PassedOn, Log!EndsLast
    <2> QED BY <2>3, <2>4 DEF Log!IInv
  <1>3. CASE Log!WorkerEnds
    <2>1. /\ worker = "idle" /\ worker' = "ended" /\ closed /\ queue = <<>>
          /\ UNCHANGED <<severity, logging, logged, refused, written, shutdown, intime, queue, closed, taken>>
      BY <1>3 DEF Log!WorkerEnds, Log!Queue!End
    <2>2. written = logged
      BY <2>1 DEF Log!IInv, Log!TypeOK, Log!PassedOn
    <2>3. Log!TypeOK'
      BY <2>1 DEF Log!IInv, Log!TypeOK
    <2>4. Log!PassedOn'
      BY <2>1 DEF Log!IInv, Log!PassedOn
    <2>5. Len(written) >= intime
      BY <2>2 DEF Log!IInv, Log!TypeOK
    <2>6. Log!EndsLast'
      BY <2>1, <2>5 DEF Log!IInv, Log!EndsLast
    <2> QED BY <2>3, <2>4, <2>6 DEF Log!IInv
  <1> QED BY <1>1, <1>2, <1>3

LEMMA LogNext == Log!IInv /\ [Log!Next]_logVars => Log!IInv'
  <1> SUFFICES ASSUME Log!IInv, [Log!Next]_logVars PROVE Log!IInv'
    OBVIOUS
  <1>1. CASE Log!Complete
    <2>1. /\ shutdown = "running" /\ shutdown' = "completed" /\ closed' = TRUE /\ intime' = Len(logged)
          /\ UNCHANGED <<severity, logging, logged, refused, worker, written, queue, taken>>
      BY <1>1 DEF Log!Complete, Log!Queue!Close
    <2>2. intime' \in 0..Len(logged')
      BY <2>1 DEF Log!IInv, Log!TypeOK
    <2>3. Log!TypeOK'
      BY <2>1, <2>2 DEF Log!IInv, Log!TypeOK
    <2>4. Log!PassedOn'
      BY <2>1 DEF Log!IInv, Log!PassedOn
    <2>5. Log!EndsLast'
      BY <2>1 DEF Log!IInv, Log!EndsLast
    <2> QED BY <2>3, <2>4, <2>5 DEF Log!IInv
  <1>2. CASE Log!Join
    BY <1>2 DEF Log!Join, Log!queueVars, Log!IInv, Log!TypeOK, Log!PassedOn, Log!EndsLast
  <1>3. CASE UNCHANGED logVars
    BY <1>3 DEF logVars, Log!IInv, Log!TypeOK, Log!PassedOn, Log!EndsLast
  <1> QED BY <1>1, <1>2, <1>3, EnterLog, PutLog, WorkLog DEF Log!Next

LEMMA LogKeptHolds == Log!IInv => Log!LogKept
  <1> SUFFICES ASSUME Log!IInv PROVE Log!LogKept
    OBVIOUS
  <1>1. /\ logged \in Seq(DOMAIN Entries) /\ written \in Seq(DOMAIN Entries)
        /\ queue \in Seq(DOMAIN Entries) /\ taken \in Seq(DOMAIN Entries)
        /\ logged = taken \o queue
    BY DEF Log!IInv, Log!TypeOK, Log!PassedOn
  <1>2. Len(written) <= Len(taken) /\ \A i \in 1..Len(written) : written[i] = taken[i]
    <2>1. CASE worker = "printing"
      <3>1. taken # <<>> /\ written = Log!Front(taken)
        BY <2>1 DEF Log!IInv, Log!PassedOn
      <3>2. Len(written) = Len(taken) - 1 /\ \A i \in 1..(Len(taken) - 1) : written[i] = taken[i]
        BY <1>1, <3>1, LastApart
      <3> QED BY <1>1, <3>2
    <2>2. CASE worker # "printing"
      BY <1>1, <2>2 DEF Log!IInv, Log!PassedOn
    <2> QED BY <2>1, <2>2
  <1>3. Len(written) <= Len(logged) /\ \A i \in 1..Len(written) : written[i] = logged[i]
    <2>1. Len(taken) \in Nat /\ Len(queue) \in Nat /\ Len(written) \in Nat /\ Len(logged) = Len(taken) + Len(queue)
      BY <1>1
    <2>2. \A i \in 1..Len(taken) : logged[i] = taken[i]
      BY <1>1
    <2>3. \A i \in 1..Len(written) : i \in 1..Len(taken)
      BY <1>2, <2>1
    <2> QED BY <1>2, <2>1, <2>2, <2>3
  <1>4. SubSeq(written, 1, Len(written)) = SubSeq(logged, 1, Len(written))
    BY <1>1, <1>3
  <1>5. shutdown = "joined" => Len(written) >= intime
    BY DEF Log!IInv, Log!EndsLast
  <1> QED BY <1>3, <1>4, <1>5 DEF Log!LogKept, Log!IsPrefix

-----------------------------------------------------------------------------
(* Callbacks start in the order they were submitted, each once, and a future  *)
(* without an answer has its callback somewhere. Entries are written in the   *)
(* order they were added, all that were there before the process ends.        *)
THEOREM WorkKept == PartsSpec => []WorkInOrder
  <1>1. Dispatcher!IInv => Dispatcher!TypeOK /\ Dispatcher!InOrderOnce
    BY InOrderOnceHolds DEF Dispatcher!IInv
  <1>2. PartsSpec => [](Dispatcher!TypeOK /\ Dispatcher!InOrderOnce)
    BY <1>1, DispatcherInit, DispatcherNext, DispatcherPart, PTL
  <1>3. Log!IInv => Log!TypeOK /\ Log!LogKept
    BY LogKeptHolds DEF Log!IInv
  <1>4. PartsSpec => [](Log!TypeOK /\ Log!LogKept)
    BY <1>3, LogInit, LogNext, LogPart, PTL
  <1>5. Dispatcher!TypeOK /\ Dispatcher!InOrderOnce /\ Log!TypeOK /\ Log!LogKept => WorkInOrder
    BY DEF WorkInOrder
  <1> QED BY <1>2, <1>4, <1>5, PTL

-----------------------------------------------------------------------------
(* The client opens, receives and closes.                                     *)
LEMMA UdpInit == Udp!Init => Udp!IInv
  <1> SUFFICES ASSUME Udp!Init PROVE Udp!IInv
    OBVIOUS
  <1>1. Udp!TypeOK
    <2>1. next \in 1..Len(arrived) + 1
      BY DEF Udp!Init
    <2>2. /\ arrived \in Seq({Udp!Empty, Udp!Full}) /\ buffer \in Seq({Udp!Empty, Udp!Full})
          /\ raised \in Seq(Nat \X BOOLEAN)
      BY DEF Udp!Init
    <2>3. receiver \in BOOLEAN /\ exiting \in BOOLEAN /\ listening \in BOOLEAN
      BY DEF Udp!Init
    <2>4. socket = "none" /\ rpc = "unborn" /\ udpOwner = "socket"
      BY DEF Udp!Init
    <2> QED BY <2>1, <2>2, <2>3, <2>4 DEF Udp!TypeOK
  <1>2. Udp!PassedOn
    <2>1. raised = <<>> /\ Len(raised) = 0 /\ DOMAIN raised = {} /\ 1..0 = {} /\ Len(buffer) = 0 /\ next = 1
      BY DEF Udp!Init
    <2>2. [i \in DOMAIN raised |-> raised[i][1]] = [i \in 1..Len(raised) |-> i]
      BY <2>1
    <2>3. next - 1 - Len(raised) = Len(buffer)
      <3>1. next = 1 /\ Len(raised) = 0 /\ Len(buffer) = 0
        BY <2>1
      <3>2. 1 - 1 - 0 = 0
        OBVIOUS
      <3> QED BY <3>1, <3>2
    <2> QED BY <2>2, <2>3 DEF Udp!PassedOn
  <1> QED BY <1>1, <1>2 DEF Udp!Init, Udp!IInv, Udp!HandsOK, Udp!LifeOK

(* Constructor, destructor and the conditions of the loop leave the datagrams *)
(* where they are.                                                            *)
LEMMA UdpControl ==
  ASSUME Udp!IInv,
         \/ Udp!Open \/ Udp!Bind \/ Udp!Start \/ Udp!Assign \/ Udp!Subscribe
         \/ Udp!Close \/ Udp!Forget \/ Udp!Signal \/ Udp!Join
         \/ Udp!Check \/ Udp!Fail
  PROVE  Udp!IInv'
  <1>1. UNCHANGED <<arrived, next, buffer, raised>>
    BY DEF Udp!Open, Udp!Bind, Udp!Start, Udp!Assign, Udp!Subscribe, Udp!Close, Udp!Forget, Udp!Signal, Udp!Join,
           Udp!Check, Udp!Fail
  <1>2. receiver' \in BOOLEAN /\ exiting' \in BOOLEAN /\ listening' \in BOOLEAN
    BY DEF Udp!Open, Udp!Bind, Udp!Start, Udp!Assign, Udp!Subscribe, Udp!Close, Udp!Forget, Udp!Signal, Udp!Join,
           Udp!Check, Udp!Fail, Udp!IInv, Udp!TypeOK
  <1> DEFINE Owners == {"socket", "bind", "start", "started", "ready", "closed", "forgotten", "joining", "gone", "thrown"}
             Receivers == {"unborn", "check", "receive", "raise", "ended", "undefined"}
             Kept == /\ udpOwner' \in Owners /\ rpc' \in Receivers /\ socket' \in {"none", "open", "closed"}
                     /\ rpc' \in {"unborn", "check", "receive", "raise"} => rpc \in {"unborn", "check", "receive", "raise"}
                     /\ rpc' = "raise" <=> rpc = "raise"
                     /\ Udp!LifeOK'
  <1>3. Kept
    <2> USE DEF Udp!IInv, Udp!TypeOK, Udp!LifeOK
    <2>1. CASE Udp!Open
      BY <2>1 DEF Udp!Open
    <2>2. CASE Udp!Bind
      BY <2>2 DEF Udp!Bind
    <2>3. CASE Udp!Start
      BY <2>3 DEF Udp!Start
    <2>4. CASE Udp!Assign
      BY <2>4 DEF Udp!Assign
    <2>5. CASE Udp!Subscribe
      BY <2>5 DEF Udp!Subscribe
    <2>6. CASE Udp!Close
      BY <2>6 DEF Udp!Close
    <2>7. CASE Udp!Forget
      BY <2>7 DEF Udp!Forget
    <2>8. CASE Udp!Signal
      BY <2>8 DEF Udp!Signal
    <2>9. CASE Udp!Join
      BY <2>9 DEF Udp!Join
    <2>10. CASE Udp!Check
      BY <2>10 DEF Udp!Check
    <2>11. CASE Udp!Fail
      BY <2>11 DEF Udp!Fail
    <2> QED BY <2>1, <2>2, <2>3, <2>4, <2>5, <2>6, <2>7, <2>8, <2>9, <2>10, <2>11
  <1>4. Udp!HandsOK'
    BY <1>1, <1>3 DEF Udp!IInv, Udp!HandsOK
  <1>5. Udp!PassedOn'
    BY <1>1 DEF Udp!IInv, Udp!PassedOn
  <1>6. Udp!TypeOK'
    BY <1>1, <1>2, <1>3 DEF Udp!IInv, Udp!TypeOK
  <1> QED BY <1>3, <1>4, <1>5, <1>6 DEF Udp!IInv

LEMMA UdpArrive == ASSUME NEW length \in {Udp!Empty, Udp!Full} PROVE Udp!IInv /\ Udp!Arrive(length) => Udp!IInv'
  <1> SUFFICES ASSUME Udp!IInv, Udp!Arrive(length) PROVE Udp!IInv'
    OBVIOUS
  <1>1. /\ arrived' = Append(arrived, length)
        /\ UNCHANGED <<udpOwner, socket, receiver, exiting, rpc, next, buffer, raised, listening>>
    BY DEF Udp!Arrive
  <1>2. arrived' \in Seq({Udp!Empty, Udp!Full}) /\ Len(arrived') = Len(arrived) + 1 /\ Len(arrived) \in Nat
    BY <1>1 DEF Udp!IInv, Udp!TypeOK
  <1>3. next' \in 1..Len(arrived') + 1
    BY <1>1, <1>2 DEF Udp!IInv, Udp!TypeOK
  <1>4. Udp!TypeOK'
    BY <1>1, <1>2, <1>3 DEF Udp!IInv, Udp!TypeOK
  <1>5. Udp!PassedOn' /\ Udp!HandsOK' /\ Udp!LifeOK'
    BY <1>1 DEF Udp!IInv, Udp!PassedOn, Udp!HandsOK, Udp!LifeOK
  <1> QED BY <1>4, <1>5 DEF Udp!IInv

LEMMA UdpReceive == Udp!IInv /\ Udp!Receive => Udp!IInv'
  <1> SUFFICES ASSUME Udp!IInv, Udp!Receive PROVE Udp!IInv'
    OBVIOUS
  <1>1. /\ rpc = "receive" /\ next <= Len(arrived) /\ buffer' = <<arrived[next]>> /\ next' = next + 1
        /\ rpc' \in {"ended", "raise"}
        /\ UNCHANGED <<udpOwner, socket, receiver, exiting, arrived, raised, listening>>
    BY DEF Udp!Receive
  <1>2. arrived \in Seq({Udp!Empty, Udp!Full}) /\ next \in 1..Len(arrived) /\ Len(arrived) \in Nat
    BY <1>1 DEF Udp!IInv, Udp!TypeOK
  <1>3. buffer' \in Seq({Udp!Empty, Udp!Full}) /\ Len(buffer') = 1 /\ next' \in 1..Len(arrived') + 1
    BY <1>1, <1>2
  <1>4. Udp!TypeOK'
    BY <1>1, <1>3 DEF Udp!IInv, Udp!TypeOK
  <1>5. Udp!PassedOn'
    <2>1. buffer = <<>> /\ Len(raised) \in Nat /\ next \in Nat
      BY <1>1, <1>2 DEF Udp!IInv, Udp!TypeOK, Udp!HandsOK
    <2>2. next - 1 - Len(raised) = 0
      BY <2>1 DEF Udp!IInv, Udp!PassedOn
    <2>3. next' - 1 - Len(raised') = Len(buffer')
      BY <1>1, <1>3, <2>1, <2>2
    <2> QED BY <1>1, <2>3 DEF Udp!IInv, Udp!PassedOn
  <1>6. Udp!HandsOK' /\ Udp!LifeOK'
    BY <1>1, <1>3 DEF Udp!IInv, Udp!HandsOK, Udp!LifeOK
  <1> QED BY <1>4, <1>5, <1>6 DEF Udp!IInv

LEMMA UdpRaise == Udp!IInv /\ Udp!Raise => Udp!IInv'
  <1> SUFFICES ASSUME Udp!IInv, Udp!Raise PROVE Udp!IInv'
    OBVIOUS
  <1> DEFINE r == <<next - 1, listening>>
  <1>1. /\ rpc = "raise" /\ rpc' = "check" /\ raised' = Append(raised, r) /\ buffer' = <<>>
        /\ UNCHANGED <<udpOwner, socket, receiver, exiting, arrived, next, listening>>
    BY DEF Udp!Raise
  <1>2. /\ raised \in Seq(Nat \X BOOLEAN) /\ Len(raised) \in Nat /\ next - 1 = Len(raised) + 1
        /\ \A i \in 1..Len(raised) : raised[i][1] = i
    <2>1. raised \in Seq(Nat \X BOOLEAN) /\ next \in Nat /\ Len(arrived) \in Nat
      BY DEF Udp!IInv, Udp!TypeOK
    <2>2. next - 1 - Len(raised) = 1
      BY <1>1 DEF Udp!IInv, Udp!PassedOn, Udp!HandsOK
    <2>3. \A i \in 1..Len(raised) : [j \in DOMAIN raised |-> raised[j][1]][i] = i
      BY DEF Udp!IInv, Udp!PassedOn
    <2>4. Len(raised) \in Nat /\ DOMAIN raised = 1..Len(raised)
      BY <2>1
    <2>5. \A i \in 1..Len(raised) : raised[i][1] = i
      BY <2>3, <2>4
    <2>6. next - 1 = Len(raised) + 1
      BY <2>1, <2>2, <2>4
    <2> QED BY <2>1, <2>4, <2>5, <2>6
  <1>3. r \in Nat \X BOOLEAN /\ r[1] = Len(raised) + 1
    BY <1>2 DEF Udp!IInv, Udp!TypeOK
  <1> HIDE DEF r
  <1>4. /\ raised' \in Seq(Nat \X BOOLEAN) /\ Len(raised') = Len(raised) + 1 /\ DOMAIN raised' = 1..Len(raised')
        /\ \A i \in 1..Len(raised') : raised'[i][1] = i
    <2>1. /\ raised' \in Seq(Nat \X BOOLEAN) /\ Len(raised') = Len(raised) + 1 /\ raised'[Len(raised) + 1] = r
          /\ \A i \in 1..Len(raised) : raised'[i] = raised[i]
      BY <1>1, <1>2, <1>3
    <2>2. DOMAIN raised' = 1..Len(raised')
      BY <2>1
    <2>3. \A i \in 1..Len(raised') : i \in 1..Len(raised) \/ i = Len(raised) + 1
      BY <1>2, <2>1
    <2>4. \A i \in 1..Len(raised') : raised'[i][1] = i
      BY <1>2, <1>3, <2>1, <2>3
    <2> QED BY <2>1, <2>2, <2>4
  <1>5. Udp!TypeOK'
    BY <1>1, <1>4 DEF Udp!IInv, Udp!TypeOK
  <1>6. Udp!PassedOn'
    <2>1. [i \in DOMAIN raised' |-> raised'[i][1]] = [i \in 1..Len(raised') |-> i]
      BY <1>4
    <2>2. next' - 1 - Len(raised') = Len(buffer')
      BY <1>1, <1>2, <1>4
    <2> QED BY <2>1, <2>2 DEF Udp!PassedOn
  <1>7. Udp!HandsOK' /\ Udp!LifeOK'
    BY <1>1 DEF Udp!IInv, Udp!HandsOK, Udp!LifeOK
  <1> QED BY <1>5, <1>6, <1>7 DEF Udp!IInv

LEMMA UdpNext == Udp!IInv /\ [Udp!Next]_udpVars => Udp!IInv'
  <1> SUFFICES ASSUME Udp!IInv, [Udp!Next]_udpVars PROVE Udp!IInv'
    OBVIOUS
  <1>1. CASE UNCHANGED udpVars
    BY <1>1 DEF udpVars, Udp!IInv, Udp!TypeOK, Udp!PassedOn, Udp!HandsOK, Udp!LifeOK
  <1> QED BY <1>1, UdpControl, UdpArrive, UdpReceive, UdpRaise DEF Udp!Next

-----------------------------------------------------------------------------
(* A provider has no more addresses than it was told to announce.             *)
LEMMA DiscoveryTypes == Discovery!TypeOK /\ [Discovery!Next]_(Discovery!discoveryVars) => Discovery!TypeOK'
  <1> SUFFICES ASSUME Discovery!TypeOK, [Discovery!Next]_(Discovery!discoveryVars) PROVE Discovery!TypeOK'
    OBVIOUS
  <1>0. Len(Announced) \in Nat
    BY PartsAssumption
  <1> USE DEF Discovery!TypeOK, Discovery!Free
  <1>1. ASSUME NEW p \in Providers, Discovery!Announce(p) PROVE Discovery!TypeOK'
    BY <1>0, <1>1 DEF Discovery!Announce
  <1>2. ASSUME NEW p \in Providers, Discovery!SendAnnouncement(p) PROVE Discovery!TypeOK'
    BY <1>0, <1>2 DEF Discovery!SendAnnouncement, Discovery!Sends
  <1>3. ASSUME NEW p \in Providers, Discovery!Answer(p) PROVE Discovery!TypeOK'
    BY <1>0, <1>3 DEF Discovery!Answer, Discovery!Sends
  <1>4. ASSUME NEW p \in Providers, NEW d \in wire, Discovery!LookUp(p, d) PROVE Discovery!TypeOK'
    BY <1>0, <1>4 DEF Discovery!LookUp, Discovery!Delivered
  <1>5. ASSUME NEW l \in Locators, NEW id \in Ids, Discovery!LocateService(l, id) PROVE Discovery!TypeOK'
    BY <1>5 DEF Discovery!LocateService, Discovery!Sends
  <1>6. CASE UNCHANGED <<services, apc, answering>> /\ wire' \subseteq wire
    BY <1>6
  <1> QED BY <1>1, <1>2, <1>3, <1>4, <1>5, <1>6
       DEF Discovery!Next, Discovery!ProviderIgnores, Discovery!Find, Discovery!Lose, Discovery!Delivered, Discovery!discoveryVars

(* A sequence in order stays in order when something no smaller is added.      *)
LEMMA AppendInOrder ==
  ASSUME NEW s \in Seq(Nat), NEW n \in Nat, NEW q, q = Append(s, n),
         \A i \in 1..Len(s) - 1 : s[i] <= s[i + 1], \A i \in 1..Len(s) : s[i] <= n
  PROVE  /\ q \in Seq(Nat) /\ \A i \in 1..Len(q) - 1 : q[i] <= q[i + 1]
         /\ \A i \in 1..Len(q) : q[i] <= n
  <1>1. /\ q \in Seq(Nat) /\ Len(q) = Len(s) + 1 /\ q[Len(s) + 1] = n /\ Len(s) \in Nat
        /\ \A i \in 1..Len(s) : q[i] = s[i] /\ q[i] \in Nat
    OBVIOUS
  <1>2. ASSUME NEW i \in 1..Len(q) - 1 PROVE q[i] <= q[i + 1]
    <2>1. CASE i = Len(s)
      BY <1>1, <2>1
    <2>2. CASE i # Len(s)
      BY <1>1, <2>2
    <2> QED BY <2>1, <2>2
  <1>3. ASSUME NEW i \in 1..Len(q) PROVE q[i] <= n
    BY <1>1
  <1> QED BY <1>1, <1>2, <1>3

(* Calls and answers of a provider keep out of each other's way.               *)
LEMMA DiscoveryCalls == Discovery!CallsOK /\ [Discovery!Next]_(Discovery!discoveryVars) => Discovery!CallsOK'
  <1> SUFFICES ASSUME Discovery!CallsOK, [Discovery!Next]_(Discovery!discoveryVars) PROVE Discovery!CallsOK'
    OBVIOUS
  <1> USE DEF Discovery!CallsOK, Discovery!Free
  <1>1. ASSUME NEW p \in Providers, Discovery!Announce(p) PROVE Discovery!CallsOK'
    BY <1>1 DEF Discovery!Announce
  <1>2. ASSUME NEW p \in Providers, Discovery!SendAnnouncement(p) \/ Discovery!Answer(p) PROVE Discovery!CallsOK'
    <2>1. CASE Discovery!SendAnnouncement(p)
      <3>1. services' = services /\ answering' = answering /\ apc' = [apc EXCEPT ![p] = "idle"]
        BY <2>1 DEF Discovery!SendAnnouncement
      <3> QED BY <3>1
    <2>2. CASE Discovery!Answer(p)
      <3>1. services' = services /\ apc' = apc /\ answering' = [answering EXCEPT ![p] = 0]
        BY <2>2 DEF Discovery!Answer
      <3> QED BY <3>1
    <2> QED BY <1>2, <2>1, <2>2
  <1>3. ASSUME NEW p \in Providers, NEW d \in wire, Discovery!LookUp(p, d) PROVE Discovery!CallsOK'
    BY <1>3 DEF Discovery!LookUp
  <1>4. CASE UNCHANGED <<services, apc, answering>>
    BY <1>4
  <1> QED BY <1>1, <1>2, <1>3, <1>4
      DEF Discovery!Next, Discovery!ProviderIgnores, Discovery!LocateService, Discovery!Find, Discovery!Lose,
          Discovery!discoveryVars

(* What is sent is in order.                                                   *)
LEMMA DiscoverySent ==
  Discovery!CallsOK /\ Discovery!SentOK /\ [Discovery!Next]_(Discovery!discoveryVars) => Discovery!SentOK'
  <1> SUFFICES ASSUME Discovery!CallsOK, Discovery!SentOK, [Discovery!Next]_(Discovery!discoveryVars)
      PROVE  Discovery!SentOK'
    OBVIOUS
  <1>1. ASSUME NEW p \in Providers, Discovery!Announce(p) PROVE Discovery!SentOK'
    <2>1. sent' = sent /\ \A q \in Providers : services[q] <= services'[q] /\ services'[q] \in Nat /\ services[q] \in Nat
      BY <1>1 DEF Discovery!Announce, Discovery!CallsOK
    <2>2. ASSUME NEW q \in Providers, NEW i \in 1..Len(sent[q]) PROVE sent[q][i] <= services'[q]
      <3>1. sent[q] \in Seq(Nat) /\ sent[q][i] <= services[q]
        BY DEF Discovery!SentOK
      <3>2. sent[q][i] \in Nat
        BY <3>1
      <3> QED BY <2>1, <3>1, <3>2
    <2> QED BY <2>1, <2>2 DEF Discovery!SentOK, Discovery!SentInOrder
  <1>2. ASSUME NEW p \in Providers, services' = services, sent' = [sent EXCEPT ![p] = Append(@, services[p])]
        PROVE  Discovery!SentOK'
    <2>1. services[p] \in Nat /\ sent[p] \in Seq(Nat) /\ sent'[p] = Append(sent[p], services[p])
      BY <1>2 DEF Discovery!CallsOK, Discovery!SentOK
    <2>2. /\ sent'[p] \in Seq(Nat) /\ \A i \in 1..Len(sent'[p]) - 1 : sent'[p][i] <= sent'[p][i + 1]
          /\ \A i \in 1..Len(sent'[p]) : sent'[p][i] <= services[p]
      BY <2>1, AppendInOrder DEF Discovery!SentOK, Discovery!SentInOrder
    <2>3. \A q \in Providers \ {p} : sent'[q] = sent[q]
      BY <1>2 DEF Discovery!SentOK
    <2>4. sent' \in [Providers -> Seq(Nat)]
      BY <1>2, <2>1, <2>2 DEF Discovery!SentOK
    <2> QED BY <1>2, <2>2, <2>3, <2>4 DEF Discovery!SentOK, Discovery!SentInOrder
  <1>3. CASE UNCHANGED <<services, sent>>
    BY <1>3 DEF Discovery!SentOK, Discovery!SentInOrder
  <1>4. ASSUME NEW p \in Providers, Discovery!Answer(p) PROVE Discovery!SentOK'
    <2>1. answering[p] = services[p] /\ services' = services
      BY <1>4 DEF Discovery!Answer, Discovery!CallsOK
    <2>2. sent' = sent \/ sent' = [sent EXCEPT ![p] = Append(@, services[p])]
      BY <1>4, <2>1 DEF Discovery!Answer, Discovery!SentOK
    <2> QED BY <1>2, <1>3, <2>1, <2>2
  <1> QED BY <1>1, <1>2, <1>3, <1>4
      
           DEF Discovery!Next, Discovery!SendAnnouncement, Discovery!ProviderIgnores, Discovery!LookUp,
               Discovery!LocateService, Discovery!Find, Discovery!Lose, Discovery!discoveryVars

(* What is on the wire was announced.                                          *)
LEMMA DiscoveryWire ==
  Discovery!CallsOK /\ Discovery!WireOK /\ [Discovery!Next]_(Discovery!discoveryVars) => Discovery!WireOK'
  <1> SUFFICES ASSUME Discovery!CallsOK, Discovery!WireOK, [Discovery!Next]_(Discovery!discoveryVars)
      PROVE  Discovery!WireOK'
    OBVIOUS
  <1>1. \A p \in Providers : services'[p] \in Nat /\ services[p] \in Nat /\ services[p] <= services'[p]
    BY DEF Discovery!Next, Discovery!CallsOK, Discovery!Announce, Discovery!SendAnnouncement, Discovery!Answer,
            Discovery!ProviderIgnores, Discovery!LookUp, Discovery!LocateService, Discovery!Find, Discovery!Lose,
            Discovery!discoveryVars
  <1>2. ASSUME NEW m, Discovery!WasAnnounced(m) PROVE Discovery!WasAnnounced(m)'
    BY <1>1, <1>2 DEF Discovery!WasAnnounced, Discovery!Response
  <1>3. CASE wire' \subseteq wire
    BY <1>2, <1>3 DEF Discovery!WireOK
  <1>4. ASSUME NEW p \in Providers, NEW n \in 1..services[p], Discovery!Sends(Discovery!Response(p, n))
        PROVE  Discovery!WireOK'
    <2>1. Discovery!WasAnnounced(Discovery!Response(p, n))
      BY DEF Discovery!WasAnnounced
    <2> QED BY <1>2, <1>4, <2>1 DEF Discovery!WireOK, Discovery!Sends
  <1>5. ASSUME NEW id, Discovery!Sends(Discovery!Request(id)) PROVE Discovery!WireOK'
    BY <1>2, <1>5 DEF Discovery!WireOK, Discovery!Sends, Discovery!Request
  <1>6. ASSUME NEW p \in Providers, Discovery!SendAnnouncement(p) \/ Discovery!Answer(p) PROVE Discovery!WireOK'
    <2>1. services[p] \in 1..services[p] /\ Discovery!Sends(Discovery!Response(p, services[p]))
      BY <1>6 DEF Discovery!CallsOK, Discovery!SendAnnouncement, Discovery!Answer, Discovery!Free
    <2> QED BY <1>4, <2>1
  <1>7. ASSUME NEW l \in Locators, NEW id \in Ids, Discovery!LocateService(l, id) PROVE Discovery!WireOK'
    BY <1>5, <1>7 DEF Discovery!LocateService
  <1> QED BY <1>3, <1>6, <1>7
      
           DEF Discovery!Next, Discovery!Announce, Discovery!ProviderIgnores, Discovery!LookUp, Discovery!Find,
               Discovery!Lose, Discovery!Delivered, Discovery!discoveryVars

(* What a locator raises is an announced address with a host of its own.       *)
LEMMA DiscoveryFound ==
  ASSUME Discovery!AnyHost \notin Providers
 
  PROVE  Discovery!CallsOK /\ Discovery!WireOK /\ Discovery!FoundOK /\ [Discovery!Next]_(Discovery!discoveryVars)
         => Discovery!FoundOK'
  <1> SUFFICES ASSUME Discovery!CallsOK, Discovery!WireOK, Discovery!FoundOK, [Discovery!Next]_(Discovery!discoveryVars)
      PROVE  Discovery!FoundOK'
    OBVIOUS
  <1> DEFINE Reaches(f, p, n) ==
               /\ f.address.port = Announced[n].port
               /\ f.address.host = IF Announced[n].host = Discovery!AnyHost THEN p ELSE Announced[n].host
             Reachable(f) == /\ f.address.host # Discovery!AnyHost
                             /\ \E p \in Providers : \E n \in 1..services[p] : Reaches(f, p, n)
  <1>1. \A p \in Providers : services'[p] \in Nat /\ services[p] \in Nat /\ services[p] <= services'[p]
    BY DEF Discovery!Next, Discovery!CallsOK, Discovery!Announce, Discovery!SendAnnouncement, Discovery!Answer,
            Discovery!ProviderIgnores, Discovery!LookUp, Discovery!LocateService, Discovery!Find, Discovery!Lose,
            Discovery!discoveryVars
  <1>2. ASSUME NEW f, Reachable(f) PROVE Reachable(f)'
    BY <1>1, <1>2
  <1>3. Discovery!FoundOK <=> DOMAIN found = Locators /\ \A l \in Locators : \A f \in found[l] : Reachable(f)
    BY DEF Discovery!FoundOK, Discovery!FoundReachable
  <1>4. Discovery!FoundOK' <=> DOMAIN found' = Locators /\ \A l \in Locators : \A f \in found'[l] : Reachable(f)'
    BY DEF Discovery!FoundOK, Discovery!FoundReachable
  <1>5. CASE found' = found
    BY <1>2, <1>3, <1>4, <1>5
  <1>6. ASSUME NEW l \in Locators, NEW d \in wire, Discovery!Find(l, d) PROVE Discovery!FoundOK'
    <2> DEFINE new == [id |-> d[2].id, address |-> Discovery!Resolved(d[2])]
    <2>1. CASE d[2].kind # "discovery_response"
      BY <1>5, <1>6, <2>1 DEF Discovery!Find
    <2>2. CASE d[2].kind = "discovery_response"
      <3>1. PICK p \in Providers : \E n \in 1..services[p] : d[2] = Discovery!Response(p, n)
        BY <2>2 DEF Discovery!WireOK, Discovery!WasAnnounced
      <3>2. PICK n \in 1..services[p] : d[2] = Discovery!Response(p, n)
        BY <3>1
      <3>3. new.address = IF Announced[n].host = Discovery!AnyHost THEN [host |-> p,
          port |-> Announced[n].port] ELSE Announced[n]
        BY <3>2 DEF Discovery!Resolved, Discovery!Response
      <3>4. Reachable(new)
        <4>1. Reaches(new, p, n) /\ new.address.host # Discovery!AnyHost
          <5> HIDE DEF new
          <5> QED BY <3>3
        <4> HIDE DEF new
        <4> QED BY <4>1
      <3>5. found' = [found EXCEPT ![l] = @ \cup {new}]
        BY <1>6, <2>2 DEF Discovery!Find
      <3> HIDE DEF new, Reachable
      <3> QED BY <1>2, <1>3, <1>4, <3>4, <3>5
    <2> QED BY <2>1, <2>2
  <1> QED BY <1>5, <1>6
      
           DEF Discovery!Next, Discovery!Announce, Discovery!SendAnnouncement, Discovery!Answer,
               Discovery!ProviderIgnores, Discovery!LookUp, Discovery!LocateService, Discovery!Lose,
               Discovery!discoveryVars

(* Whatever the network does with the datagrams, providers send their          *)
(* addresses in order, and what a locator raises can be connected to.          *)
THEOREM FoundAndSent ==
  ASSUME Discovery!AnyHost \notin Providers
  PROVE  Discovery!Spec => [](Discovery!SentInOrder /\ Discovery!FoundReachable)
  <1>1. Discovery!Init => Discovery!CallsOK /\ Discovery!SentOK /\ Discovery!WireOK /\ Discovery!FoundOK
    BY DEF Discovery!Init, Discovery!CallsOK, Discovery!SentOK, Discovery!WireOK, Discovery!FoundOK,
            Discovery!SentInOrder, Discovery!FoundReachable, Discovery!Free
  <1> DEFINE Kept == Discovery!CallsOK /\ Discovery!SentOK /\ Discovery!WireOK /\ Discovery!FoundOK
  <1>2. Kept /\ [Discovery!Next]_(Discovery!discoveryVars) => Kept'
    BY DiscoveryCalls, DiscoverySent, DiscoveryWire, DiscoveryFound
  <1>3. Discovery!SentOK /\ Discovery!FoundOK => Discovery!SentInOrder /\ Discovery!FoundReachable
    BY DEF Discovery!SentOK, Discovery!FoundOK
  <1> QED BY <1>1, <1>2, <1>3, PTL DEF Discovery!Spec

(* Datagrams are passed on in order, each once, and nothing goes on after the *)
(* destructor; an announced service is found where it is, and announced in    *)
(* order.                                                                     *)
THEOREM NetworkKept == PartsSpec => []NetworkSafe
  <1>1. Udp!IInv => Udp!TypeOK /\ Udp!PassedOn /\ Udp!QuietAtEnd
    BY DEF Udp!IInv, Udp!LifeOK, Udp!QuietAtEnd
  <1>2. PartsSpec => [](Udp!TypeOK /\ Udp!PassedOn /\ Udp!QuietAtEnd)
    BY <1>1, UdpInit, UdpNext, UdpPart, PTL
  <1>3. Discovery!Init => Discovery!TypeOK
    BY PartsAssumption DEF Discovery!Init, Discovery!TypeOK, Discovery!Free
  <1>4. Discovery!Spec => []Discovery!TypeOK
    BY <1>3, DiscoveryTypes, PTL DEF Discovery!Spec
  <1>5. Discovery!Spec => [](Discovery!SentInOrder /\ Discovery!FoundReachable)
    BY PartsAssumption, FoundAndSent DEF Discovery!AnyHost
  <1>6. Udp!TypeOK /\ Udp!PassedOn /\ Udp!QuietAtEnd /\ Discovery!TypeOK /\ Discovery!SentInOrder /\ Discovery!FoundReachable
          => NetworkSafe
    BY DEF NetworkSafe
  <1> QED BY <1>2, <1>4, <1>5, <1>6, DiscoveryPart, PTL

-----------------------------------------------------------------------------
(* What was heard, one by one or as a part of what was assigned.              *)
LEMMA PartOf ==
  ASSUME NEW S, NEW s \in Seq(S), NEW t \in Seq(S), NEW m \in Nat, NEW n \in Nat, m + Len(s) = n, n <= Len(t),
         \A i \in 1..Len(s) : s[i] = t[m + i]
  PROVE  s = SubSeq(t, m + 1, n)
  <1> DEFINE u == SubSeq(t, m + 1, n)
  <1>1. Len(s) \in Nat /\ Len(t) \in Nat /\ n - m = Len(s)
    OBVIOUS
  <1>2. \A i \in 1..Len(s) : m + i \in 1..Len(t) /\ (m + 1) + i - 1 = m + i
    BY <1>1
  <1>3. CASE Len(s) = 0
    <2>1. s = <<>>
      BY <1>3
    <2>2. m + 1 > n
      BY <1>1, <1>3
    <2>3. u = <<>>
      BY <2>2
    <2> QED BY <2>1, <2>3
  <1>4. CASE Len(s) # 0
    <2>1. m + 1 \in 1..Len(t) /\ n \in m + 1..Len(t)
      BY <1>1, <1>4
    <2>2. m + 1 \in Int /\ n \in Int /\ m + 1 <= n /\ n - (m + 1) + 1 = Len(s) /\ \A i \in m + 1..n : t[i] \in S
      BY <1>1, <2>1
    <2>3. u \in Seq(S) /\ Len(u) = Len(s) /\ \A i \in 1..Len(s) : u[i] = t[m + 1 + i - 1]
      BY <2>2, SubSeqProperties
    <2>4. \A i \in 1..Len(s) : u[i] = t[m + i]
      BY <1>2, <2>3
    <2> HIDE DEF u
    <2>5. s = u
      BY <2>3, <2>4
    <2> QED BY <2>5 DEF u
  <1> QED BY <1>3, <1>4, <1>1

LEMMA HeardInOrderHolds == Operation!IInv => Operation!HeardInOrder
  <1> SUFFICES ASSUME Operation!IInv PROVE Operation!HeardInOrder
    OBVIOUS
  <1>1. /\ heard \in Seq(Operation!Infos) /\ updates \in Seq(Operation!Infos) /\ missed \in Nat /\ Len(heard) \in Nat
        /\ Len(updates) \in Nat
    BY DEF Operation!IInv, Operation!TypeOK
  <1>2. /\ Len(heard) + missed + Operation!Unheard = Len(updates) /\ Operation!Unheard \in {0, 1}
        /\ \A i \in 1..Len(heard) : heard[i] = updates[missed + i]
    BY DEF Operation!IInv, Operation!HeardOK, Operation!Unheard
  <1>3. /\ Len(updates) - Operation!Unheard \in Nat /\ Len(updates) - Operation!Unheard <= Len(updates)
        /\ missed + Len(heard) = Len(updates) - Operation!Unheard
    BY <1>1, <1>2
  <1>4. heard = SubSeq(updates, missed + 1, Len(updates) - Operation!Unheard)
    BY <1>1, <1>2, <1>3, PartOf
  <1> QED BY <1>2, <1>4 DEF Operation!HeardInOrder

LEMMA OperationInit == Operation!Init => Operation!IInv
  <1> SUFFICES ASSUME Operation!Init PROVE Operation!IInv
    OBVIOUS
  <1>1. /\ updates = <<>> /\ heard = <<>> /\ missed = 0 /\ lock = Noone /\ info = Operation!Blank /\ MaxUpdates \in Nat
        /\ Noone \notin Workers
    BY PartsAssumption DEF Operation!Init
  <1>2. Operation!Blank \in Operation!Infos
    BY DEF Operation!Blank, Operation!Infos
  <1>3. Operation!TypeOK
    <2>1. /\ source = "unborn" /\ bound \in BOOLEAN /\ subscribed \in BOOLEAN /\ cancelled \in BOOLEAN
          /\ count = [w \in Workers |-> 0] /\ wpc = [w \in Workers |-> "working"]
          /\ cpc = [c \in Callers |-> "idle"] /\ seen = [c \in Callers |-> Operation!Blank]
      BY DEF Operation!Init
    <2>2. missed \in 0..Len(updates) /\ updates \in Seq(Operation!Infos) /\ heard \in Seq(Operation!Infos)
      <3>1. Len(updates) = 0 /\ 0 \in 0..0
        BY <1>1
      <3> QED BY <1>1, <3>1
    <2>3. 0 \in 0..MaxUpdates + 1
      BY <1>1
    <2> QED BY <1>1, <1>2, <2>1, <2>2, <2>3 DEF Operation!TypeOK
  <1>4. Operation!LockOK /\ Operation!LastOK /\ Operation!CountOK
    BY <1>1 DEF Operation!Init, Operation!LockOK, Operation!LastOK, Operation!CountOK
  <1>5. Operation!HeardOK
    <2>1. Operation!Unheard = 0 /\ Len(heard) = 0 /\ Len(updates) = 0
      BY <1>1 DEF Operation!Unheard
    <2>2. 0 + 0 + 0 = 0
      OBVIOUS
    <2> QED BY <1>1, <2>1, <2>2 DEF Operation!HeardOK
  <1>6. Operation!SeenWhole
    BY DEF Operation!Init, Operation!SeenWhole
  <1> QED BY <1>3, <1>4, <1>5, <1>6 DEF Operation!IInv

(* Making, binding, listening and returning leave the updates alone.          *)
LEMMA OperationLife ==
  ASSUME Operation!IInv, Operation!Construct \/ Operation!SetSource \/ Operation!Subscribe \/ Operation!Return
  PROVE  Operation!IInv'
  <1>1. UNCHANGED <<lock, info, cancelled, updates, heard, missed, wpc, count, cpc, seen>>
    BY DEF Operation!Construct, Operation!SetSource, Operation!Subscribe, Operation!Return
  <1>2. source' \in {"unborn", "alive", "gone"} /\ bound' \in BOOLEAN /\ subscribed' \in BOOLEAN /\ (subscribed => subscribed')
    BY DEF Operation!Construct, Operation!SetSource, Operation!Subscribe, Operation!Return, Operation!IInv, Operation!TypeOK
  <1>3. Operation!TypeOK'
    BY <1>1, <1>2 DEF Operation!IInv, Operation!TypeOK
  <1>4. Operation!LockOK' /\ Operation!LastOK' /\ Operation!CountOK' /\ Operation!SeenWhole'
    BY <1>1 DEF Operation!IInv, Operation!LockOK, Operation!LastOK, Operation!CountOK, Operation!SeenWhole
  <1>5. Operation!HeardOK'
    BY <1>1, <1>2 DEF Operation!IInv, Operation!HeardOK, Operation!Unheard
  <1> QED BY <1>3, <1>4, <1>5 DEF Operation!IInv

LEMMA OperationCheck == ASSUME NEW w \in Workers PROVE Operation!IInv /\ Operation!Check(w) => Operation!IInv'
  <1> SUFFICES ASSUME Operation!IInv, Operation!Check(w) PROVE Operation!IInv'
    OBVIOUS
  <1> DEFINE step == IF cancelled THEN "failing" ELSE IF count[w] < MaxUpdates THEN "reporting" ELSE "succeeding"
  <1>1. /\ wpc[w] = "working" /\ wpc' = [wpc EXCEPT ![w] = step]
        /\ UNCHANGED <<source, bound, subscribed, lock, info, cancelled, updates, heard, missed, count, cpc, seen>>
    BY DEF Operation!Check, Operation!WorkerGoes
  <1>2. step \in {"failing", "reporting", "succeeding"} /\ (step = "reporting" => count[w] < MaxUpdates)
    OBVIOUS
  <1> HIDE DEF step
  <1>3. lock # w
    BY <1>1 DEF Operation!IInv, Operation!LockOK
  <1>4. Operation!TypeOK'
    BY <1>1, <1>2 DEF Operation!IInv, Operation!TypeOK
  <1>5. wpc'[w] = step /\ \A v \in Workers \ {w} : wpc'[v] = wpc[v]
    BY <1>1 DEF Operation!IInv, Operation!TypeOK
  <1>6. Operation!LockOK'
    BY <1>1, <1>2, <1>3, <1>5 DEF Operation!IInv, Operation!LockOK
  <1>7. lock = Noone \/ wpc'[lock] = wpc[lock]
    BY <1>3, <1>5 DEF Operation!IInv, Operation!TypeOK
  <1>8. Operation!LastOK'
    BY <1>1, <1>7 DEF Operation!IInv, Operation!LastOK
  <1>9. Operation!HeardOK'
    BY <1>1, <1>7 DEF Operation!IInv, Operation!HeardOK, Operation!Unheard
  <1>10. Operation!CountOK'
    BY <1>1, <1>2, <1>5 DEF Operation!IInv, Operation!CountOK
  <1>11. Operation!SeenWhole'
    BY <1>1 DEF Operation!IInv, Operation!SeenWhole
  <1> QED BY <1>4, <1>6, <1>8, <1>9, <1>10, <1>11 DEF Operation!IInv

LEMMA OperationBegins == ASSUME NEW w \in Workers PROVE Operation!IInv /\ Operation!BeginUpdate(w) => Operation!IInv'
  <1> SUFFICES ASSUME Operation!IInv, Operation!BeginUpdate(w) PROVE Operation!IInv'
    OBVIOUS
  <1> DEFINE step == IF wpc[w] = "reporting" THEN "writing" ELSE "writing_last"
  <1>1. /\ wpc[w] \in {"reporting", "succeeding", "failing"} /\ lock = Noone /\ lock' = w
        /\ wpc' = [wpc EXCEPT ![w] = step]
        /\ UNCHANGED <<source, bound, subscribed, cancelled, updates, heard, missed, count, cpc, seen>>
    BY DEF Operation!BeginUpdate, Operation!WorkerGoes
  <1>2. step \in {"writing", "writing_last"} /\ (step = "writing" => wpc[w] = "reporting")
    OBVIOUS
  <1>3. info' \in Operation!Infos
    <2>1. info \in Operation!Infos
      BY DEF Operation!IInv, Operation!TypeOK
    <2>2. CASE wpc[w] = "reporting"
      BY <2>1, <2>2 DEF Operation!BeginUpdate, Operation!Infos
    <2>3. CASE wpc[w] = "succeeding"
      BY <2>1, <2>3 DEF Operation!BeginUpdate, Operation!Infos
    <2>4. CASE wpc[w] = "failing"
      BY <2>1, <2>4 DEF Operation!BeginUpdate, Operation!Infos
    <2> QED BY <1>1, <2>2, <2>3, <2>4
  <1> HIDE DEF step
  <1>4. Operation!TypeOK'
    BY <1>1, <1>2, <1>3 DEF Operation!IInv, Operation!TypeOK
  <1>5. wpc'[w] = step /\ \A v \in Workers \ {w} : wpc'[v] = wpc[v]
    BY <1>1 DEF Operation!IInv, Operation!TypeOK
  <1>6. Operation!LockOK'
    BY <1>1, <1>2, <1>5, PartsAssumption DEF Operation!IInv, Operation!LockOK
  <1>7. Operation!LastOK'
    BY <1>1, <1>2, <1>5, PartsAssumption DEF Operation!LastOK
  <1>8. Operation!HeardOK'
    <2>1. Operation!Unheard = 0 /\ Operation!Unheard' = 0
      BY <1>1, <1>2, <1>5 DEF Operation!Unheard
    <2> QED BY <1>1, <2>1 DEF Operation!IInv, Operation!HeardOK
  <1>9. Operation!CountOK'
    BY <1>1, <1>2, <1>5 DEF Operation!IInv, Operation!CountOK
  <1>10. Operation!SeenWhole'
    BY <1>1 DEF Operation!IInv, Operation!SeenWhole
  <1> QED BY <1>4, <1>6, <1>7, <1>8, <1>9, <1>10 DEF Operation!IInv

LEMMA OperationWrites == ASSUME NEW w \in Workers PROVE Operation!IInv /\ Operation!Write(w) => Operation!IInv'
  <1> SUFFICES ASSUME Operation!IInv, Operation!Write(w) PROVE Operation!IInv'
    OBVIOUS
  <1> DEFINE step == IF wpc[w] = "writing" THEN "raising" ELSE "raising_last"
             i == IF info.state = "failed" THEN info ELSE [info EXCEPT !.progress = @ + 1]
  <1>1. /\ wpc[w] \in {"writing", "writing_last"} /\ wpc' = [wpc EXCEPT ![w] = step]
        /\ info' = i /\ updates' = Append(updates, i)
        /\ UNCHANGED <<source, bound, subscribed, lock, cancelled, heard, missed, count, cpc, seen>>
    BY DEF Operation!Write, Operation!WorkerGoes
  <1>2. step \in {"raising", "raising_last"} /\ (step = "raising" => wpc[w] = "writing")
    BY <1>1
  <1>3. i \in Operation!Infos
    <2>1. info \in Operation!Infos
      BY DEF Operation!IInv, Operation!TypeOK
    <2> HIDE DEF step
    <2> QED BY <2>1 DEF Operation!Infos
  <1> HIDE DEF step, i
  <1>4. lock = w /\ w # Noone
    BY <1>1, PartsAssumption DEF Operation!IInv, Operation!LockOK
  <1>5. /\ updates \in Seq(Operation!Infos) /\ updates' \in Seq(Operation!Infos) /\ Len(updates') = Len(updates) + 1
        /\ Len(updates) \in Nat /\ updates'[Len(updates) + 1] = i
        /\ \A k \in 1..Len(updates) : updates'[k] = updates[k]
    BY <1>1, <1>3 DEF Operation!IInv, Operation!TypeOK
  <1>6. missed' \in 0..Len(updates') /\ updates' # <<>>
    BY <1>1, <1>5 DEF Operation!IInv, Operation!TypeOK
  <1>7. Operation!TypeOK'
    BY <1>1, <1>2, <1>3, <1>5, <1>6 DEF Operation!IInv, Operation!TypeOK
  <1>8. wpc'[w] = step /\ \A v \in Workers \ {w} : wpc'[v] = wpc[v]
    BY <1>1 DEF Operation!IInv, Operation!TypeOK
  <1>9. Operation!LockOK'
    BY <1>1, <1>2, <1>4, <1>8 DEF Operation!IInv, Operation!LockOK
  <1>10. Operation!LastOK'
    BY <1>1, <1>5, <1>6 DEF Operation!LastOK
  <1>11. Operation!HeardOK'
    <2>1. Operation!Unheard = 0 /\ Operation!Unheard' = 1
      BY <1>1, <1>2, <1>4, <1>8 DEF Operation!Unheard
    <2>2. Len(heard) \in Nat /\ missed \in Nat /\ Len(heard) + missed = Len(updates)
      BY <2>1 DEF Operation!IInv, Operation!TypeOK, Operation!HeardOK
    <2>3. ASSUME NEW k \in 1..Len(heard) PROVE heard[k] = updates'[missed + k]
      <3>1. missed + k \in 1..Len(updates)
        BY <2>2
      <3> QED BY <1>5, <3>1 DEF Operation!IInv, Operation!HeardOK
    <2>4. Len(heard') + missed' + Operation!Unheard' = Len(updates')
      BY <1>1, <1>5, <2>1, <2>2
    <2> QED BY <1>1, <2>3, <2>4 DEF Operation!IInv, Operation!HeardOK
  <1>12. Operation!CountOK'
    BY <1>1, <1>2, <1>8 DEF Operation!IInv, Operation!CountOK
  <1>13. Operation!SeenWhole'
    <2>1. \A x \in Operation!Range(updates) : x \in Operation!Range(updates')
      BY <1>5 DEF Operation!Range
    <2> QED BY <1>1, <2>1 DEF Operation!IInv, Operation!SeenWhole
  <1> QED BY <1>7, <1>9, <1>10, <1>11, <1>12, <1>13 DEF Operation!IInv

LEMMA OperationRaises == ASSUME NEW w \in Workers PROVE Operation!IInv /\ Operation!Raise(w) => Operation!IInv'
  <1> SUFFICES ASSUME Operation!IInv, Operation!Raise(w) PROVE Operation!IInv'
    OBVIOUS
  <1> DEFINE step == IF wpc[w] = "raising" THEN "raised" ELSE "raised_last"
  <1>1. /\ wpc[w] \in {"raising", "raising_last"} /\ wpc' = [wpc EXCEPT ![w] = step]
        /\ UNCHANGED <<source, bound, subscribed, lock, info, updates, count, cpc, seen>>
    BY DEF Operation!Raise, Operation!WorkerGoes
  <1>2. step \in {"raised", "raised_last"} /\ (step = "raised" => wpc[w] = "raising")
    BY <1>1
  <1> HIDE DEF step
  <1>3. lock = w /\ w # Noone
    BY <1>1, PartsAssumption DEF Operation!IInv, Operation!LockOK
  <1>4. wpc'[w] = step /\ \A v \in Workers \ {w} : wpc'[v] = wpc[v]
    BY <1>1 DEF Operation!IInv, Operation!TypeOK
  <1>5. Operation!Unheard = 1 /\ Operation!Unheard' = 0
    BY <1>1, <1>2, <1>3, <1>4 DEF Operation!Unheard
  <1>6. /\ updates \in Seq(Operation!Infos) /\ heard \in Seq(Operation!Infos) /\ info \in Operation!Infos
        /\ Len(updates) \in Nat /\ Len(heard) \in Nat /\ missed \in Nat
        /\ Len(heard) + missed + 1 = Len(updates)
    BY <1>5 DEF Operation!IInv, Operation!TypeOK, Operation!HeardOK
  <1>7. info = updates[Len(updates)]
    <2>1. wpc[lock] \notin {"writing", "writing_last"} /\ updates # <<>>
      BY <1>1, <1>3, <1>6
    <2> QED BY <2>1 DEF Operation!IInv, Operation!LastOK
  <1>8. /\ heard' \in Seq(Operation!Infos) /\ missed' \in 0..Len(updates)
        /\ Len(heard') + missed' = Len(updates)
        /\ \A k \in 1..Len(heard') : heard'[k] = updates[missed' + k]
        /\ ~subscribed => heard' = <<>>
    <2>1. CASE subscribed
      <3>1. heard' = Append(heard, info) /\ missed' = missed
        BY <2>1 DEF Operation!Raise
      <3>2. /\ heard' \in Seq(Operation!Infos) /\ Len(heard') = Len(heard) + 1 /\ heard'[Len(heard) + 1] = info
            /\ \A k \in 1..Len(heard) : heard'[k] = heard[k]
        BY <1>6, <3>1
      <3>3. ASSUME NEW k \in 1..Len(heard') PROVE heard'[k] = updates[missed + k]
        <4>1. CASE k \in 1..Len(heard)
          BY <3>2, <4>1 DEF Operation!IInv, Operation!HeardOK
        <4>2. CASE k = Len(heard) + 1
          <5>1. missed + k = Len(updates)
            BY <1>6, <4>2
          <5> QED BY <1>7, <3>2, <4>2, <5>1
        <4> QED BY <1>6, <3>2, <4>1, <4>2
      <3>4. missed \in 0..Len(updates) /\ Len(heard') + missed = Len(updates)
        BY <1>6, <3>2
      <3> QED BY <2>1, <3>1, <3>2, <3>3, <3>4
    <2>2. CASE ~subscribed
      <3>1. heard' = heard /\ missed' = missed + 1 /\ heard = <<>>
        BY <2>2 DEF Operation!Raise, Operation!IInv, Operation!HeardOK
      <3>2. Len(heard) = 0
        BY <3>1
      <3>3. missed' \in 0..Len(updates) /\ Len(heard') + missed' = Len(updates)
        BY <1>6, <3>1, <3>2
      <3> QED BY <1>6, <3>1, <3>2, <3>3
    <2> QED BY <2>1, <2>2
  <1>9. cancelled' \in BOOLEAN
    BY DEF Operation!Raise, Operation!IInv, Operation!TypeOK
  <1>10. Operation!TypeOK'
    BY <1>1, <1>2, <1>8, <1>9 DEF Operation!IInv, Operation!TypeOK
  <1>11. Operation!LockOK'
    BY <1>1, <1>2, <1>3, <1>4 DEF Operation!IInv, Operation!LockOK
  <1>12. Operation!LastOK'
    BY <1>1, <1>6, <1>7 DEF Operation!LastOK
  <1>13. Operation!HeardOK'
    <2>1. Len(heard') + missed' + Operation!Unheard' = Len(updates')
      BY <1>1, <1>5, <1>6, <1>8
    <2> QED BY <1>1, <1>8, <2>1 DEF Operation!HeardOK
  <1>14. Operation!CountOK'
    BY <1>1, <1>2, <1>4 DEF Operation!IInv, Operation!CountOK
  <1>15. Operation!SeenWhole'
    BY <1>1 DEF Operation!IInv, Operation!SeenWhole
  <1> QED BY <1>10, <1>11, <1>12, <1>13, <1>14, <1>15 DEF Operation!IInv

LEMMA OperationEnds == ASSUME NEW w \in Workers PROVE Operation!IInv /\ Operation!EndUpdate(w) => Operation!IInv'
  <1> SUFFICES ASSUME Operation!IInv, Operation!EndUpdate(w) PROVE Operation!IInv'
    OBVIOUS
  <1> DEFINE step == IF wpc[w] = "raised" THEN "working" ELSE "done"
  <1>1. /\ wpc[w] \in {"raised", "raised_last"} /\ wpc' = [wpc EXCEPT ![w] = step]
        /\ lock' = Noone /\ count' = [count EXCEPT ![w] = count[w] + 1]
        /\ UNCHANGED <<source, bound, subscribed, info, cancelled, updates, heard, missed, cpc, seen>>
    BY DEF Operation!EndUpdate, Operation!WorkerGoes
  <1>2. step \in {"working", "done"} /\ (step = "working" => wpc[w] = "raised")
    BY <1>1
  <1> HIDE DEF step
  <1>3. lock = w /\ Noone \notin Workers /\ MaxUpdates \in Nat
    BY <1>1, PartsAssumption DEF Operation!IInv, Operation!LockOK
  <1>4. /\ wpc'[w] = step /\ \A v \in Workers \ {w} : wpc'[v] = wpc[v]
        /\ count'[w] = count[w] + 1 /\ \A v \in Workers \ {w} : count'[v] = count[v]
    BY <1>1 DEF Operation!IInv, Operation!TypeOK
  <1>5. /\ count[w] \in Nat /\ count[w] <= MaxUpdates /\ (step = "working" => count[w] < MaxUpdates)
        /\ wpc' \in [Workers -> {"working", "reporting", "succeeding", "failing", "writing", "writing_last",
                                 "raising", "raising_last", "raised", "raised_last", "done"}]
    BY <1>1, <1>2 DEF Operation!IInv, Operation!TypeOK, Operation!CountOK
  <1>6. count[w] + 1 \in 0..MaxUpdates + 1 /\ (step = "working" => count[w] + 1 <= MaxUpdates)
    BY <1>3, <1>5
  <1>7. Operation!TypeOK'
    BY <1>1, <1>5, <1>6 DEF Operation!IInv, Operation!TypeOK
  <1>8. Operation!LockOK'
    BY <1>1, <1>2, <1>3, <1>4 DEF Operation!IInv, Operation!LockOK
  <1>9. Operation!LastOK'
    BY <1>1, <1>3 DEF Operation!IInv, Operation!LastOK
  <1>10. Operation!HeardOK'
    <2>1. Operation!Unheard = 0 /\ Operation!Unheard' = 0
      BY <1>1, <1>3 DEF Operation!Unheard
    <2> QED BY <1>1, <2>1 DEF Operation!IInv, Operation!HeardOK
  <1>11. Operation!CountOK'
    BY <1>1, <1>2, <1>4, <1>6 DEF Operation!IInv, Operation!CountOK
  <1>12. Operation!SeenWhole'
    BY <1>1 DEF Operation!IInv, Operation!SeenWhole
  <1> QED BY <1>7, <1>8, <1>9, <1>10, <1>11, <1>12 DEF Operation!IInv

(* A caller sees the state only while nobody is about to change it.           *)
LEMMA OperationCallers ==
  ASSUME Operation!IInv, NEW c \in Callers,
         \/ \E step \in {"asking", "cancelling"} : Operation!Call(c, step)
         \/ Operation!Cancel(c) \/ Operation!State(c) \/ Operation!Dangle(c)
  PROVE  Operation!IInv'
  <1>1. UNCHANGED <<source, bound, subscribed, lock, info, updates, heard, missed, wpc, count>>
    BY DEF Operation!Call, Operation!Cancel, Operation!State, Operation!Dangle
  <1>2. cancelled' \in BOOLEAN
    BY DEF Operation!Call, Operation!Cancel, Operation!State, Operation!Dangle, Operation!IInv, Operation!TypeOK
  <1>3. cpc' \in [Callers -> {"idle", "asking", "cancelling", "undefined"}]
    BY DEF Operation!Call, Operation!Cancel, Operation!State, Operation!Dangle, Operation!CallerGoes,
           Operation!IInv, Operation!TypeOK
  <1>4. seen' = seen \/ \E i \in {Operation!Blank} \cup Operation!Range(updates) : seen' = [seen EXCEPT ![c] = i]
    <2>1. CASE \E step \in {"asking", "cancelling"} : Operation!Call(c, step)
      BY <2>1 DEF Operation!Call
    <2>2. CASE Operation!Cancel(c) \/ Operation!Dangle(c)
      BY <2>2 DEF Operation!Cancel, Operation!Dangle
    <2>3. CASE Operation!State(c)
      <3>1. seen' = [seen EXCEPT ![c] = info] /\ lock = Noone
        BY <2>3 DEF Operation!State
      <3>2. info = IF updates = <<>> THEN Operation!Blank ELSE updates[Len(updates)]
        BY <3>1 DEF Operation!IInv, Operation!LastOK
      <3>3. CASE updates # <<>>
        <4>1. updates \in Seq(Operation!Infos)
          BY DEF Operation!IInv, Operation!TypeOK
        <4>2. Len(updates) \in DOMAIN updates
          BY <3>3, <4>1
        <4> QED BY <3>1, <3>2, <3>3, <4>2 DEF Operation!Range
      <3> QED BY <3>1, <3>2, <3>3
    <2> QED BY <2>1, <2>2, <2>3
  <1>5. {Operation!Blank} \cup Operation!Range(updates) \subseteq Operation!Infos
    <2>1. Operation!Blank \in Operation!Infos
      BY DEF Operation!Blank, Operation!Infos
    <2>2. \A i \in DOMAIN updates : updates[i] \in Operation!Infos
      BY DEF Operation!IInv, Operation!TypeOK
    <2> QED BY <2>1, <2>2 DEF Operation!Range
  <1>6. Operation!SeenWhole' /\ seen' \in [Callers -> Operation!Infos]
    BY <1>1, <1>4, <1>5 DEF Operation!IInv, Operation!TypeOK, Operation!SeenWhole
  <1>7. Operation!TypeOK'
    BY <1>1, <1>2, <1>3, <1>6 DEF Operation!IInv, Operation!TypeOK
  <1>8. Operation!LockOK' /\ Operation!LastOK' /\ Operation!CountOK' /\ Operation!HeardOK'
    BY <1>1 DEF Operation!IInv, Operation!LockOK, Operation!LastOK, Operation!CountOK, Operation!HeardOK, Operation!Unheard
  <1> QED BY <1>6, <1>7, <1>8 DEF Operation!IInv

LEMMA OperationNext == Operation!IInv /\ [Operation!Next]_operationVars => Operation!IInv'
  <1> SUFFICES ASSUME Operation!IInv, [Operation!Next]_operationVars PROVE Operation!IInv'
    OBVIOUS
  <1>1. CASE UNCHANGED operationVars
    BY <1>1 DEF operationVars, Operation!IInv, Operation!TypeOK, Operation!LockOK, Operation!LastOK, Operation!CountOK,
                Operation!HeardOK, Operation!Unheard, Operation!SeenWhole
  <1> QED BY <1>1, OperationLife, OperationCheck, OperationBegins, OperationWrites, OperationRaises, OperationEnds,
             OperationCallers
          DEF Operation!Next

(* Who listens hears every update in order, whichever thread reports it, and  *)
(* who asks is told a state that there was.                                   *)
THEOREM OperationKept == PartsSpec => []OperationSafe
  <1>1. Operation!IInv => OperationSafe
    BY HeardInOrderHolds DEF Operation!IInv, OperationSafe
  <1> QED BY <1>1, OperationInit, OperationNext, OperationPart, PTL

-----------------------------------------------------------------------------
(* What sequences of slots hold as sets.                                      *)
LEMMA SlotAppended ==
  ASSUME NEW S, NEW q \in Seq(S), NEW x \in S, Buffer!Distinct(q), x \notin Buffer!SlotSet(q)
  PROVE  /\ Append(q, x) \in Seq(S) /\ Buffer!Distinct(Append(q, x))
         /\ Buffer!SlotSet(Append(q, x)) = Buffer!SlotSet(q) \cup {x}
  <1> DEFINE t == Append(q, x)
             n == Len(q) + 1
  <1>1. t \in Seq(S) /\ Len(t) = n /\ n \in Nat /\ Len(q) = n - 1 /\ t[n] = x /\ \A i \in 1..(n - 1) : t[i] = q[i]
    OBVIOUS
  <1>2. n \in 1..n /\ \A i \in 1..n : i = n \/ i \in 1..(n - 1)
    BY <1>1
  <1>3. \A i \in 1..(n - 1) : i \in 1..n
    BY <1>1
  <1> HIDE DEF t, n
  <1>4. Buffer!SlotSet(t) = Buffer!SlotSet(q) \cup {x}
    BY <1>1, <1>2, <1>3 DEF Buffer!SlotSet
  <1>5. Buffer!Distinct(t)
    BY <1>1, <1>2, <1>3 DEF Buffer!SlotSet, Buffer!Distinct
  <1> QED BY <1>1, <1>4, <1>5 DEF t

LEMMA SlotReplaced ==
  ASSUME NEW S, NEW q \in Seq(S), NEW t \in Seq(S), NEW i \in 1..Len(q), Buffer!Distinct(q), Len(t) = Len(q),
         \A k \in 1..Len(q) : k # i => t[k] = q[k], t[i] \notin Buffer!SlotSet(q) \ {q[i]}
  PROVE  Buffer!Distinct(t) /\ Buffer!SlotSet(t) = (Buffer!SlotSet(q) \ {q[i]}) \cup {t[i]}
  <1>1. \A k \in 1..Len(q) : k # i => q[k] # q[i] /\ q[k] # t[i]
    BY DEF Buffer!Distinct, Buffer!SlotSet
  <1>2. Buffer!SlotSet(t) = (Buffer!SlotSet(q) \ {q[i]}) \cup {t[i]}
    <2>1. ASSUME NEW k \in 1..Len(q) PROVE t[k] \in (Buffer!SlotSet(q) \ {q[i]}) \cup {t[i]}
      BY <1>1 DEF Buffer!SlotSet
    <2>2. ASSUME NEW k \in 1..Len(q), q[k] # q[i] PROVE q[k] \in Buffer!SlotSet(t)
      BY <2>2 DEF Buffer!SlotSet
    <2>3. t[i] \in Buffer!SlotSet(t)
      BY DEF Buffer!SlotSet
    <2> QED BY <2>1, <2>2, <2>3 DEF Buffer!SlotSet
  <1>3. Buffer!Distinct(t)
    BY <1>1 DEF Buffer!Distinct
  <1> QED BY <1>2, <1>3

(* Taking an element out by swapping it with the last takes it alone out.     *)
LEMMA SlotRemoved ==
  ASSUME NEW S, NEW q \in Seq(S), NEW i \in 1..Len(q), Buffer!Distinct(q)
  PROVE  /\ Buffer!Without(q, i) \in Seq(S) /\ Buffer!Distinct(Buffer!Without(q, i))
         /\ Buffer!SlotSet(Buffer!Without(q, i)) = Buffer!SlotSet(q) \ {q[i]}
         /\ Len(Buffer!Without(q, i)) = Len(q) - 1
  <1> DEFINE n == Len(q)
             e == [q EXCEPT ![i] = q[Len(q)]]
             t == SubSeq(e, 1, n - 1)
  <1>1. n \in Nat \ {0} /\ n \in 1..n /\ n - 1 \in Nat /\ \A k \in 1..(n - 1) : k \in 1..n /\ k # n
    OBVIOUS
  <1>2. e \in Seq(S) /\ Len(e) = n /\ e[i] = q[n] /\ \A k \in 1..n : k # i => e[k] = q[k]
    OBVIOUS
  <1>3. t \in Seq(S) /\ Len(t) = n - 1 /\ \A k \in 1..(n - 1) : t[k] = e[k]
    <2> HIDE DEF e
    <2>1. n # 0 /\ Len(e) # 0
      BY <1>1, <1>2
    <2>2. t \in Seq(S) /\ Len(t) = n - 1
      BY <1>2, <2>1, Events!Shorter
    <2>3. \A k \in 1..(n - 1) : t[k] = e[k]
      BY <1>1, <1>2
    <2> QED BY <2>2, <2>3
  <1>4. t = Buffer!Without(q, i)
    BY DEF Buffer!Without
  <1> HIDE DEF t, e, n
  <1>5. i \in 1..n /\ \A k \in 1..n : k = n \/ k \in 1..(n - 1)
    BY <1>1 DEF n
  <1>6. \A k \in 1..n, l \in 1..n : q[k] = q[l] => k = l
    BY DEF Buffer!Distinct, n
  <1>7. Buffer!SlotSet(q) = {q[k] : k \in 1..n}
    BY DEF Buffer!SlotSet, n
  <1>8. Buffer!SlotSet(t) = Buffer!SlotSet(q) \ {q[i]}
    <2>1. ASSUME NEW k \in 1..(n - 1) PROVE t[k] \in Buffer!SlotSet(q) \ {q[i]}
      <3>1. CASE k = i
        <4>1. t[k] = q[n] /\ n # i
          BY <1>1, <1>2, <1>3, <3>1
        <4> QED BY <1>1, <1>5, <1>6, <1>7, <4>1
      <3>2. CASE k # i
        <4>1. t[k] = q[k] /\ k \in 1..n
          BY <1>1, <1>2, <1>3, <3>2
        <4> QED BY <1>5, <1>6, <1>7, <3>2, <4>1
      <3> QED BY <3>1, <3>2
    <2>2. ASSUME NEW k \in 1..n, k # i PROVE \E l \in 1..(n - 1) : t[l] = q[k]
      <3>1. CASE k = n
        <4>1. i \in 1..(n - 1)
          BY <1>5, <2>2, <3>1
        <4> QED BY <1>2, <1>3, <3>1, <4>1
      <3>2. CASE k # n
        BY <1>2, <1>3, <1>5, <2>2, <3>2
      <3> QED BY <3>1, <3>2
    <2>3. Buffer!SlotSet(t) = {t[l] : l \in 1..(n - 1)}
      BY <1>3 DEF Buffer!SlotSet
    <2> QED BY <1>7, <2>1, <2>2, <2>3
  <1>9. Buffer!Distinct(t)
    <2> SUFFICES ASSUME NEW k \in 1..(n - 1), NEW l \in 1..(n - 1), t[k] = t[l] PROVE k = l
      BY <1>3 DEF Buffer!Distinct
    <2>1. t[k] = (IF k = i THEN q[n] ELSE q[k]) /\ t[l] = (IF l = i THEN q[n] ELSE q[l])
      BY <1>1, <1>2, <1>3
    <2> QED BY <1>1, <1>6, <2>1
  <1> QED BY <1>3, <1>4, <1>8, <1>9 DEF n

-----------------------------------------------------------------------------
(* What places hold when a segment is cut out of a slot or joined with its    *)
(* neighbours.                                                                *)
Gap(f, start) == IF start > f.start THEN {Buffer!Segment(f.start, start - f.start)} ELSE {}
Rest(f, start, size) ==
  IF start + size < Buffer!End(f) THEN {Buffer!Segment(start + size, Buffer!End(f) - (start + size))} ELSE {}

LEMMA CutOut ==
  ASSUME NEW F, NEW G, Buffer!Placed(F, G), NEW f \in F, NEW start \in Nat, NEW size \in Nat \ {0},
         f.start <= start, start + size <= Buffer!End(f)
  PROVE  /\ Buffer!Placed((F \ {f}) \cup Gap(f, start) \cup Rest(f, start, size), G \cup {Buffer!Segment(start, size)})
         /\ Gap(f, start) \cap Rest(f, start, size) = {}
         /\ (Gap(f, start) \cup Rest(f, start, size)) \cap (F \ {f}) = {}
  <1> DEFINE gap == Gap(f, start)
             rest == Rest(f, start, size)
             new == Buffer!Segment(start, size)
  <1>a. gap = IF start > f.start THEN {Buffer!Segment(f.start, start - f.start)} ELSE {}
    BY DEF Gap
  <1>b. rest = IF start + size < Buffer!End(f) THEN {Buffer!Segment(start + size, Buffer!End(f) - (start + size))} ELSE {}
    BY DEF Rest
  <1>c. new = Buffer!Segment(start, size)
    OBVIOUS
  <1> HIDE DEF gap, rest, new
  <1> USE <1>a, <1>b, <1>c
  <1> DEFINE H == (F \ {f}) \cup gap \cup rest
  <1>1. \A x \in F \cup G : /\ x.start \in Nat /\ x.size \in Nat \ {0} /\ x.start + x.size <= Size
                            /\ x \in Buffer!Segments
    BY PartsAssumption DEF Buffer!Placed, Buffer!Segments, Buffer!End
  <1>2. f.start \in Nat /\ f.size \in Nat \ {0} /\ f.start + f.size <= Size /\ Size \in Nat /\ start + size <= f.start + f.size
    BY <1>1, PartsAssumption DEF Buffer!End
  <1>3. new \in Buffer!Segments /\ new.start = start /\ new.size = size
    BY <1>2 DEF Buffer!Segment, Buffer!Segments
  <1>4. ASSUME NEW x \in gap
        PROVE  x \in Buffer!Segments /\ x.start = f.start /\ x.start + x.size = start /\ start > f.start /\ x.size \in Nat \ {0}
    <2>1. x = Buffer!Segment(f.start, start - f.start) /\ start > f.start
      BY <1>4
    <2>2. x.start = f.start /\ x.size = start - f.start /\ start - f.start \in 1..Size
      BY <1>2, <2>1 DEF Buffer!Segment
    <2>3. x \in Buffer!Segments
      BY <1>2, <2>1, <2>2 DEF Buffer!Segment, Buffer!Segments
    <2> QED BY <1>2, <2>1, <2>2, <2>3
  <1>5. ASSUME NEW x \in rest
        PROVE  /\ x \in Buffer!Segments /\ x.start = start + size /\ x.start + x.size = f.start + f.size
               /\ start + size < f.start + f.size /\ x.size \in Nat \ {0}
    <2>1. x = Buffer!Segment(start + size, Buffer!End(f) - (start + size)) /\ start + size < f.start + f.size
      BY <1>5 DEF Buffer!End
    <2>2. x.start = start + size /\ x.size = f.start + f.size - (start + size) /\ x.size \in 1..Size /\ x.start \in 0..Size
      BY <1>2, <2>1 DEF Buffer!Segment, Buffer!End
    <2>3. x \in Buffer!Segments
      BY <1>2, <2>1, <2>2 DEF Buffer!Segment, Buffer!Segments
    <2> QED BY <1>2, <2>1, <2>2, <2>3
  <1>6. gap \cap rest = {}
    BY <1>2, <1>4, <1>5
  <1>7. \A x, y \in gap : x = y
    OBVIOUS
  <1>8. \A x, y \in rest : x = y
    OBVIOUS
  <1>9. \A x \in F \ {f} : x.start + x.size < f.start \/ f.start + f.size < x.start
    BY DEF Buffer!Placed, Buffer!Separate, Buffer!End
  <1>10. \A x \in G : x.start + x.size <= f.start \/ f.start + f.size <= x.start
    BY DEF Buffer!Placed, Buffer!Apart, Buffer!End
  <1>11. (gap \cup rest) \cap (F \ {f}) = {}
    BY <1>1, <1>2, <1>4, <1>5, <1>9
  <1>12. \A x \in H \cup G \cup {new} : x \in Buffer!Segments /\ Buffer!End(x) <= Size
    BY <1>1, <1>2, <1>3, <1>4, <1>5 DEF Buffer!End
  <1>13. ASSUME NEW x \in H, NEW y \in H, x # y PROVE Buffer!Separate(x, y)
    <2>1. CASE x \in F \ {f} /\ y \in F \ {f}
      BY <1>13, <2>1 DEF Buffer!Placed
    <2>2. CASE x \in F \ {f} /\ y \in gap \cup rest
      BY <1>1, <1>2, <1>4, <1>5, <1>9, <2>2 DEF Buffer!Separate, Buffer!End
    <2>3. CASE y \in F \ {f} /\ x \in gap \cup rest
      BY <1>1, <1>2, <1>4, <1>5, <1>9, <2>3 DEF Buffer!Separate, Buffer!End
    <2>4. CASE x \in gap /\ y \in rest
      BY <1>2, <1>4, <1>5, <2>4 DEF Buffer!Separate, Buffer!End
    <2>5. CASE y \in gap /\ x \in rest
      BY <1>2, <1>4, <1>5, <2>5 DEF Buffer!Separate, Buffer!End
    <2> QED BY <1>7, <1>8, <1>13, <2>1, <2>2, <2>3, <2>4, <2>5
  <1>14. ASSUME NEW x \in G \cup {new}, NEW y \in G \cup {new}, x # y PROVE Buffer!Apart(x, y)
    <2>1. CASE x \in G /\ y \in G
      BY <1>14, <2>1 DEF Buffer!Placed
    <2>2. CASE x \in G /\ y = new
      BY <1>1, <1>2, <1>3, <1>10, <2>2 DEF Buffer!Apart, Buffer!End
    <2>3. CASE y \in G /\ x = new
      BY <1>1, <1>2, <1>3, <1>10, <2>3 DEF Buffer!Apart, Buffer!End
    <2> QED BY <1>14, <2>1, <2>2, <2>3
  <1>15. ASSUME NEW x \in H, NEW y \in G \cup {new} PROVE Buffer!Apart(x, y)
    <2>1. CASE x \in F \ {f} /\ y \in G
      BY <2>1 DEF Buffer!Placed
    <2>2. CASE x \in F \ {f} /\ y = new
      BY <1>1, <1>2, <1>3, <1>9, <2>2 DEF Buffer!Apart, Buffer!End
    <2>3. CASE x \in gap \cup rest /\ y \in G
      BY <1>1, <1>2, <1>4, <1>5, <1>10, <2>3 DEF Buffer!Apart, Buffer!End
    <2>4. CASE x \in gap \cup rest /\ y = new
      BY <1>2, <1>3, <1>4, <1>5, <2>4 DEF Buffer!Apart, Buffer!End
    <2> QED BY <2>1, <2>2, <2>3, <2>4
  <1>16. ASSUME NEW o \in 0..(Size - 1) PROVE \E x \in H \cup G \cup {new} : o \in Buffer!Offsets(x)
    <2>1. PICK z \in F \cup G : o \in Buffer!Offsets(z)
      BY DEF Buffer!Placed
    <2>2. CASE z # f
      BY <2>1, <2>2
    <2>3. CASE z = f
      <3>1. o >= f.start /\ o < f.start + f.size /\ o \in Nat
        BY <1>2, <2>1, <2>3 DEF Buffer!Offsets, Buffer!End
      <3>2. CASE o < start
        <4>1. start > f.start
          BY <1>2, <3>1, <3>2
        <4>2. PICK x \in gap : TRUE
          BY <4>1
        <4>3. o \in x.start..(x.start + x.size) - 1
          BY <1>2, <1>4, <3>1, <3>2
        <4>4. o \in Buffer!Offsets(x)
          BY <4>3 DEF Buffer!Offsets, Buffer!End
        <4> QED BY <4>4
      <3>3. CASE start <= o /\ o < start + size
        BY <1>2, <1>3, <3>1, <3>3 DEF Buffer!Offsets, Buffer!End
      <3>4. CASE start + size <= o
        <4>1. start + size < Buffer!End(f)
          BY <1>2, <3>1, <3>4 DEF Buffer!End
        <4>2. PICK x \in rest : TRUE
          BY <4>1
        <4>3. o \in x.start..(x.start + x.size) - 1
          BY <1>2, <1>5, <3>1, <3>4
        <4>4. o \in Buffer!Offsets(x)
          BY <4>3 DEF Buffer!Offsets, Buffer!End
        <4> QED BY <4>4
      <3> QED BY <1>2, <3>1, <3>2, <3>3, <3>4
    <2> QED BY <2>2, <2>3
  <1> HIDE DEF H
  <1>17. Buffer!Placed(H, G \cup {new})
    BY <1>12, <1>13, <1>14, <1>15, <1>16 DEF Buffer!Placed
  <1> QED BY <1>6, <1>11, <1>17 DEF H, gap, rest, new

EndAt(F, o) == {x \in F : Buffer!End(x) = o}
StartAt(F, o) == {x \in F : x.start = o}
Beside(F, s) == EndAt(F, s.start) \cup StartAt(F, Buffer!End(s))

LEMMA Joined ==
  ASSUME NEW F, NEW G, Buffer!Placed(F, G), NEW s \in G, NEW start, NEW end,
         EndAt(F, s.start) = {} => start = s.start, \A x \in EndAt(F, s.start) : start = x.start,
         StartAt(F, Buffer!End(s)) = {} => end = Buffer!End(s), \A x \in StartAt(F, Buffer!End(s)) : end = Buffer!End(x)
  PROVE  /\ Buffer!Placed((F \ Beside(F, s)) \cup {Buffer!Segment(start, end - start)}, G \ {s})
         /\ Buffer!Segment(start, end - start) \notin F \ Beside(F, s)
         /\ Buffer!Segment(start, end - start) \in Buffer!Segments
         /\ EndAt(F, s.start) \cap StartAt(F, Buffer!End(s)) = {}
  <1> DEFINE P == EndAt(F, s.start)
             N == StartAt(F, Buffer!End(s))
             new == Buffer!Segment(start, end - start)
  <1>a. P = {x \in F : Buffer!End(x) = s.start} /\ N = {x \in F : x.start = Buffer!End(s)}
    BY DEF EndAt, StartAt
  <1>b. new = Buffer!Segment(start, end - start)
    OBVIOUS
  <1>c. (P = {} => start = s.start) /\ \A x \in P : start = x.start
    OBVIOUS
  <1>d. (N = {} => end = Buffer!End(s)) /\ \A x \in N : end = Buffer!End(x)
    OBVIOUS
  <1> HIDE DEF P, N, new
  <1> USE <1>a, <1>b, <1>c, <1>d
  <1> DEFINE K == F \ (P \cup N)
  <1>1. \A x \in F \cup G : /\ x.start \in Nat /\ x.size \in Nat \ {0} /\ x.start + x.size <= Size
                            /\ x \in Buffer!Segments
    BY PartsAssumption DEF Buffer!Placed, Buffer!Segments, Buffer!End
  <1>2. s.start \in Nat /\ s.size \in Nat \ {0} /\ s.start + s.size <= Size /\ Size \in Nat
    BY <1>1, PartsAssumption
  <1>3. \A x, y \in F : x # y => x.start + x.size < y.start \/ y.start + y.size < x.start
    BY DEF Buffer!Placed, Buffer!Separate, Buffer!End
  <1>4. \A x \in P : x \in F /\ x.start + x.size = s.start
    BY DEF Buffer!End
  <1>5. \A x \in N : x \in F /\ x.start = s.start + s.size
    BY DEF Buffer!End
  <1>6. P \cap N = {}
    BY <1>1, <1>2, <1>4, <1>5
  <1>7. \A x, y \in P : x = y
    BY <1>1, <1>2, <1>3, <1>4
  <1>8. \A x, y \in N : x = y
    BY <1>1, <1>2, <1>3, <1>5
  <1>9. start \in Nat /\ start <= s.start
    BY <1>1, <1>2, <1>4
  <1>10. end \in Nat /\ s.start + s.size <= end /\ end <= Size
    BY <1>1, <1>2, <1>5 DEF Buffer!End
  <1>11. new.start = start /\ new.size = end - start /\ new.size \in Nat \ {0} /\ new.start + new.size = end /\ new \in Buffer!Segments
    <2>1. end - start \in 1..Size /\ start \in 0..Size
      BY <1>2, <1>9, <1>10
    <2>2. end - start \in 1..2 * Size /\ end - start \in Nat \ {0} /\ start + (end - start) = end
      BY <1>2, <1>9, <1>10, <2>1
    <2>3. new.start = start /\ new.size = end - start
      BY DEF Buffer!Segment
    <2>4. new \in Buffer!Segments
      BY <2>1, <2>2 DEF Buffer!Segment, Buffer!Segments
    <2> QED BY <2>2, <2>3, <2>4
  <1>12. ASSUME NEW y \in G, y # s PROVE y.start + y.size <= start \/ end <= y.start
    <2>1. y.start + y.size <= s.start \/ s.start + s.size <= y.start
      BY <1>12 DEF Buffer!Placed, Buffer!Apart, Buffer!End
    <2>2. \A x \in F : y.start + y.size <= x.start \/ x.start + x.size <= y.start
      BY <1>12 DEF Buffer!Placed, Buffer!Apart, Buffer!End
    <2>3. y.start + y.size <= s.start => y.start + y.size <= start
      <3>1. CASE P = {}
        BY <3>1
      <3>2. ASSUME NEW x \in P PROVE y.start + y.size <= s.start => y.start + y.size <= start
        BY <1>1, <1>2, <1>4, <2>2, <3>2
      <3> QED BY <3>1, <3>2
    <2>4. s.start + s.size <= y.start => end <= y.start
      <3>1. CASE N = {}
        BY <3>1 DEF Buffer!End
      <3>2. ASSUME NEW x \in N PROVE s.start + s.size <= y.start => end <= y.start
        BY <1>1, <1>2, <1>5, <2>2, <3>2 DEF Buffer!End
      <3> QED BY <3>1, <3>2
    <2> QED BY <2>1, <2>3, <2>4
  <1>13. ASSUME NEW y \in K PROVE y.start + y.size < start \/ end < y.start
    <2>1. y \in F /\ y.start + y.size # s.start /\ y.start # s.start + s.size
      BY <1>13 DEF Buffer!End
    <2>2. y.start + y.size < s.start \/ s.start + s.size < y.start
      <3>1. y.start + y.size <= s.start \/ s.start + s.size <= y.start
        BY <2>1 DEF Buffer!Placed, Buffer!Apart, Buffer!End
      <3> QED BY <1>1, <1>2, <2>1, <3>1
    <2>3. y.start + y.size < s.start => y.start + y.size < start
      <3>1. CASE P = {}
        BY <3>1
      <3>2. ASSUME NEW x \in P PROVE y.start + y.size < s.start => y.start + y.size < start
        <4>1. x \in F /\ x # y /\ x.start + x.size = s.start /\ start = x.start
          BY <1>4, <1>13, <3>2
        <4>2. x.start + x.size < y.start \/ y.start + y.size < x.start
          BY <1>3, <2>1, <4>1
        <4> QED BY <1>1, <1>2, <2>1, <4>1, <4>2
      <3> QED BY <3>1, <3>2
    <2>4. s.start + s.size < y.start => end < y.start
      <3>1. CASE N = {}
        BY <3>1 DEF Buffer!End
      <3>2. ASSUME NEW x \in N PROVE s.start + s.size < y.start => end < y.start
        <4>1. x \in F /\ x # y /\ x.start = s.start + s.size /\ end = x.start + x.size
          BY <1>5, <1>13, <3>2 DEF Buffer!End
        <4>2. x.start + x.size < y.start \/ y.start + y.size < x.start
          BY <1>3, <2>1, <4>1
        <4> QED BY <1>1, <1>2, <2>1, <4>1, <4>2
      <3> QED BY <3>1, <3>2
    <2> QED BY <2>2, <2>3, <2>4
  <1>14. new \notin K
    <2> SUFFICES ASSUME new \in K PROVE FALSE
      OBVIOUS
    <2>1. new.start + new.size < start \/ end < new.start
      BY <1>13
    <2> QED BY <1>2, <1>9, <1>10, <1>11, <2>1
  <1>15. \A x \in (K \cup {new}) \cup (G \ {s}) : x \in Buffer!Segments /\ Buffer!End(x) <= Size
    BY <1>1, <1>10, <1>11 DEF Buffer!End
  <1>16. ASSUME NEW x \in K \cup {new}, NEW y \in K \cup {new}, x # y PROVE Buffer!Separate(x, y)
    <2>1. CASE x \in K /\ y \in K
      BY <1>16, <2>1 DEF Buffer!Placed
    <2>2. CASE x \in K /\ y = new
      BY <1>11, <1>13, <2>2 DEF Buffer!Separate, Buffer!End
    <2>3. CASE y \in K /\ x = new
      BY <1>11, <1>13, <2>3 DEF Buffer!Separate, Buffer!End
    <2> QED BY <1>16, <2>1, <2>2, <2>3
  <1>17. \A x, y \in G \ {s} : x # y => Buffer!Apart(x, y)
    BY DEF Buffer!Placed
  <1>18. ASSUME NEW x \in K \cup {new}, NEW y \in G \ {s} PROVE Buffer!Apart(x, y)
    <2>1. CASE x \in K
      BY <2>1 DEF Buffer!Placed
    <2>2. CASE x = new
      BY <1>11, <1>12, <2>2 DEF Buffer!Apart, Buffer!End
    <2> QED BY <2>1, <2>2
  <1>19. ASSUME NEW o \in 0..(Size - 1) PROVE \E x \in (K \cup {new}) \cup (G \ {s}) : o \in Buffer!Offsets(x)
    <2>1. PICK z \in F \cup G : o \in Buffer!Offsets(z)
      BY DEF Buffer!Placed
    <2>2. CASE z \in K \cup (G \ {s})
      BY <2>1, <2>2
    <2>3. CASE z \in P \cup N \cup {s}
      <3>1. o >= z.start /\ o < z.start + z.size /\ o \in Nat /\ z.start \in Nat /\ z.size \in Nat
        BY <1>1, <2>1 DEF Buffer!Offsets, Buffer!End
      <3>2. start <= z.start /\ z.start + z.size <= end
        <4>1. CASE z \in P
          BY <1>1, <1>2, <1>4, <1>10, <4>1
        <4>2. CASE z \in N
          BY <1>1, <1>2, <1>5, <1>9, <4>2 DEF Buffer!End
        <4>3. CASE z = s
          BY <1>9, <1>10, <4>3
        <4> QED BY <2>3, <4>1, <4>2, <4>3
      <3>3. o \in new.start..(new.start + new.size) - 1
        BY <1>9, <1>10, <1>11, <3>1, <3>2
      <3>4. o \in Buffer!Offsets(new)
        BY <3>3 DEF Buffer!Offsets, Buffer!End
      <3> QED BY <3>4
    <2> QED BY <2>1, <2>2, <2>3
  <1> HIDE DEF K
  <1>20. Buffer!Placed(K \cup {new}, G \ {s})
    BY <1>15, <1>16, <1>17, <1>18, <1>19 DEF Buffer!Placed
  <1> QED BY <1>6, <1>11, <1>14, <1>20 DEF K, P, N, new, Beside

-----------------------------------------------------------------------------
(* The start that a slot offers is inside it.                                 *)
LEMMA Aligned ==
  ASSUME NEW o \in Nat, NEW a \in Nat \ {0}
  PROVE  Buffer!Align(o, a) \in Nat /\ o <= Buffer!Align(o, a) /\ Buffer!Align(o, a) < o + a
  <1>1. o % a \in 0..(a - 1)
    OBVIOUS
  <1> QED BY <1>1 DEF Buffer!Align

LEMMA FitsInside ==
  ASSUME NEW x \in Buffer!Segments, Buffer!End(x) <= Size, NEW size \in 1..Size, NEW a \in Nat \ {0}, Buffer!Fits(x, size, a),
         NEW start, start = Buffer!Align(x.start, a)
  PROVE  start \in Nat /\ x.start <= start /\ start + size <= Buffer!End(x)
  <1>1. Size \in Nat \ {0} /\ size \in Nat /\ x.start \in Nat /\ x.size \in Nat /\ x.start + x.size <= Size
    BY PartsAssumption DEF Buffer!Segments, Buffer!End
  <1>2. start \in Nat /\ x.start <= start /\ start < x.start + a
    BY <1>1, Aligned
  <1>3. x.size >= a /\ (x.start + x.size + 4 * Size - start) % (4 * Size) >= size
    BY DEF Buffer!Fits, Buffer!End
  <1> DEFINE d == x.start + x.size - start
             w == 4 * Size
  <1>4. d \in Nat /\ w \in Nat \ {0} /\ d < w /\ start + d = x.start + x.size /\ x.start + x.size + 4 * Size - start = w + d
    BY <1>1, <1>2, <1>3
  <1>5. (w + d) % w >= size
    BY <1>3, <1>4
  <1> HIDE DEF d, w
  <1>6. (w + d) % w = d
    BY <1>4
  <1>7. start + size <= start + d
    BY <1>1, <1>2, <1>4, <1>5, <1>6
  <1> QED BY <1>2, <1>4, <1>7 DEF Buffer!End

LEMMA BufferInit == Buffer!Init => Buffer!IInv
  <1> SUFFICES ASSUME Buffer!Init PROVE Buffer!IInv
    OBVIOUS
  <1> DEFINE x == Buffer!Segment(0, Size)
  <1>1. Size \in Nat \ {0}
    BY PartsAssumption
  <1>2. x \in Buffer!Segments /\ x.start = 0 /\ x.size = Size
    BY <1>1 DEF Buffer!Segment, Buffer!Segments
  <1> HIDE DEF x
  <1>3. freeSpace = <<x>> /\ given = {} /\ undefined = "none"
    BY DEF Buffer!Init, x
  <1>4. Len(freeSpace) = 1 /\ freeSpace[1] = x /\ freeSpace \in Seq(Buffer!Segments)
    BY <1>2, <1>3
  <1>5. Buffer!TypeOK
    BY <1>3, <1>4 DEF Buffer!TypeOK
  <1>6. Buffer!SlotSet(freeSpace) = {x} /\ Buffer!Distinct(freeSpace)
    BY <1>4 DEF Buffer!SlotSet, Buffer!Distinct
  <1>7. \A o \in 0..(Size - 1) : o \in Buffer!Offsets(x)
    BY <1>1, <1>2 DEF Buffer!Offsets, Buffer!End
  <1>8. Buffer!End(x) <= Size
    BY <1>1, <1>2 DEF Buffer!End
  <1>9. Buffer!Placed({x}, {})
    BY <1>2, <1>7, <1>8 DEF Buffer!Placed
  <1> QED BY <1>3, <1>5, <1>6, <1>9 DEF Buffer!IInv

(* What the free list is after a segment has been taken from slot i.          *)
LEMMA Taken ==
  ASSUME Buffer!TypeOK, Buffer!Distinct(freeSpace), Buffer!Placed(Buffer!SlotSet(freeSpace), given),
         NEW i \in 1..Len(freeSpace), NEW start \in Nat, NEW size \in 1..Size,
         freeSpace[i].start <= start, start + size <= Buffer!End(freeSpace[i])
  PROVE  /\ Buffer!Take(i, start, size) \in Seq(Buffer!Segments) /\ Buffer!Distinct(Buffer!Take(i, start, size))
         /\ Buffer!Placed(Buffer!SlotSet(Buffer!Take(i, start, size)), given \cup {Buffer!Segment(start, size)})
         /\ Buffer!Segment(start, size) \in Buffer!Segments
  <1> DEFINE F == Buffer!SlotSet(freeSpace)
             f == freeSpace[i]
             before == Buffer!Segment(f.start, start - f.start)
             behind == Buffer!Segment(start + size, Buffer!End(f) - (start + size))
             gap == IF start > f.start THEN {before} ELSE {}
             rest == IF start + size < Buffer!End(f) THEN {behind} ELSE {}
             new == Buffer!Segment(start, size)
             cut == IF start + size < Buffer!End(f) THEN [freeSpace EXCEPT ![i] = behind] ELSE Buffer!Without(freeSpace, i)
             took == IF start > f.start THEN Append(cut, before) ELSE cut
  <1>1. freeSpace \in Seq(Buffer!Segments) /\ f \in F /\ f \in Buffer!Segments /\ size \in Nat \ {0}
    <2>1. freeSpace \in Seq(Buffer!Segments)
      BY DEF Buffer!TypeOK
    <2>2. freeSpace[i] \in Buffer!Segments
      BY <2>1
    <2>3. f \in F
      BY DEF Buffer!SlotSet
    <2>4. size \in Nat \ {0}
      BY PartsAssumption
    <2> QED BY <2>1, <2>2, <2>3, <2>4
  <1>2. f.start \in Nat /\ f.size \in Nat /\ Buffer!End(f) = f.start + f.size
    BY <1>1, PartsAssumption DEF Buffer!Segments, Buffer!End
  <1>3. /\ Buffer!Placed((F \ {f}) \cup gap \cup rest, given \cup {new})
        /\ gap \cap rest = {} /\ (gap \cup rest) \cap (F \ {f}) = {}
    <2>1. Buffer!Placed(F, given) /\ f \in F /\ f.start <= start /\ start + size <= Buffer!End(f) /\ size \in Nat \ {0}
      BY <1>1
    <2>2. gap = Gap(f, start) /\ rest = Rest(f, start, size) /\ new = Buffer!Segment(start, size)
      BY DEF Gap, Rest
    <2> HIDE DEF F, f, new, gap, rest
    <2> QED BY <2>1, <2>2, CutOut
  <1>4. \A x \in (F \ {f}) \cup gap \cup rest \cup {new} : x \in Buffer!Segments
    BY <1>3 DEF Buffer!Placed
  <1>5. f = freeSpace[i] /\ F = Buffer!SlotSet(freeSpace)
    OBVIOUS
  <1> HIDE DEF F, f, before, behind
  <1>6. cut \in Seq(Buffer!Segments) /\ Buffer!Distinct(cut) /\ Buffer!SlotSet(cut) = (F \ {f}) \cup rest
    <2>1. CASE start + size < Buffer!End(f)
      <3>1. behind \in Buffer!Segments /\ behind \notin F \ {f} /\ rest = {behind} /\ cut = [freeSpace EXCEPT ![i] = behind]
        BY <1>3, <1>4, <2>1
      <3> HIDE DEF cut, rest
      <3>2. behind \notin Buffer!SlotSet(freeSpace) \ {freeSpace[i]}
        BY <1>5, <3>1
      <3>3. cut \in Seq(Buffer!Segments) /\ Len(cut) = Len(freeSpace)
            /\ cut[i] = behind /\ \A k \in 1..Len(freeSpace) : k # i => cut[k] = freeSpace[k]
        BY <1>1, <3>1
      <3>4. Buffer!Distinct(cut) /\ Buffer!SlotSet(cut) = (Buffer!SlotSet(freeSpace) \ {freeSpace[i]}) \cup {behind}
        <4>1. cut[i] \notin Buffer!SlotSet(freeSpace) \ {freeSpace[i]}
          BY <3>2, <3>3
        <4>2. Buffer!Distinct(cut) /\ Buffer!SlotSet(cut) = (Buffer!SlotSet(freeSpace) \ {freeSpace[i]}) \cup {cut[i]}
          BY <1>1, <3>3, <4>1, SlotReplaced
        <4> QED BY <3>3, <4>2
      <3> QED BY <1>5, <3>1, <3>3, <3>4
    <2>2. CASE ~(start + size < Buffer!End(f))
      <3>1. rest = {} /\ cut = Buffer!Without(freeSpace, i)
        BY <2>2
      <3> HIDE DEF cut, rest
      <3> QED BY <1>1, <1>5, <3>1, SlotRemoved
    <2> QED BY <2>1, <2>2
  <1>7. took \in Seq(Buffer!Segments) /\ Buffer!Distinct(took) /\ Buffer!SlotSet(took) = (F \ {f}) \cup gap \cup rest
    <2>1. CASE start > f.start
      <3>1. before \in Buffer!Segments /\ before \notin (F \ {f}) \cup rest /\ gap = {before} /\ took = Append(cut, before)
        BY <1>3, <1>4, <2>1
      <3> HIDE DEF cut, rest, took, gap
      <3> QED BY <1>6, <3>1, SlotAppended
    <2>2. CASE ~(start > f.start)
      <3>1. gap = {} /\ took = cut
        BY <2>2
      <3> HIDE DEF cut, rest, took, gap
      <3> QED BY <1>6, <3>1
    <2> QED BY <2>1, <2>2
  <1>8. took = Buffer!Take(i, start, size)
    <2> DEFINE left == f.size - size - (start - f.start)
               some == Buffer!Segment(start + size, left)
               most == IF some.size = 0 THEN Buffer!Without(freeSpace, i) ELSE [freeSpace EXCEPT ![i] = some]
    <2>1. left = Buffer!End(f) - (start + size) /\ (left = 0 <=> ~(start + size < Buffer!End(f)))
      BY <1>1, <1>2, <1>5
    <2> HIDE DEF left
    <2>2. some = behind /\ some.size = left
      BY <2>1 DEF behind, Buffer!Segment
    <2> HIDE DEF some
    <2>3. most = cut
      BY <2>1, <2>2
    <2>4. Buffer!Take(i, start, size) = most \o (IF start - f.start > 0 THEN <<before>> ELSE <<>>)
      BY <1>5 DEF Buffer!Take, left, some, before
    <2> HIDE DEF most, cut
    <2>5. start - f.start > 0 <=> start > f.start
      BY <1>2
    <2>6. cut \o <<before>> = Append(cut, before) /\ cut \o <<>> = cut
      BY <1>6
    <2> QED BY <2>3, <2>4, <2>5, <2>6
  <1>9. Buffer!Segment(start, size) \in Buffer!Segments
    BY <1>4
  <1> HIDE DEF gap, rest, cut, took, new
  <1>10. new = Buffer!Segment(start, size)
    BY DEF new
  <1> QED BY <1>3, <1>7, <1>8, <1>9, <1>10

-----------------------------------------------------------------------------
(* The free list after segment s has been joined with the slots beside it.    *)
LEMMA Merged ==
  ASSUME Buffer!TypeOK, Buffer!Distinct(freeSpace), Buffer!Placed(Buffer!SlotSet(freeSpace), given), NEW s \in given
  PROVE  /\ Buffer!Merge(s) \in Seq(Buffer!Segments) /\ Buffer!Distinct(Buffer!Merge(s))
         /\ Buffer!Placed(Buffer!SlotSet(Buffer!Merge(s)), given \ {s})
  <1> DEFINE F == Buffer!SlotSet(freeSpace)
             P == EndAt(F, s.start)
             N == StartAt(F, Buffer!End(s))
             previous == {i \in Buffer!Slots : Buffer!End(freeSpace[i]) = s.start}
             next_ == {i \in Buffer!Slots : freeSpace[i].start = Buffer!End(s)}
             p == CHOOSE i \in previous : TRUE
             n == CHOOSE i \in next_ : TRUE
             start == IF previous = {} THEN s.start ELSE freeSpace[p].start
             end == IF next_ = {} THEN Buffer!End(s) ELSE Buffer!End(freeSpace[n])
             new == Buffer!Segment(start, end - start)
             lone == IF previous = {} THEN freeSpace ELSE Buffer!Without(freeSpace, p)
             k == CHOOSE i \in 1..Len(lone) : lone[i].start = Buffer!End(s)
             left == IF next_ = {} THEN lone ELSE Buffer!Without(lone, k)
  <1>1. Buffer!Merge(s) = Append(left, new)
    BY DEF Buffer!Merge
  <1>2. freeSpace \in Seq(Buffer!Segments) /\ F = {freeSpace[i] : i \in 1..Len(freeSpace)} /\ Buffer!Slots = 1..Len(freeSpace)
    BY DEF Buffer!TypeOK, Buffer!SlotSet, Buffer!Slots
  <1>3. \A x \in F \cup {s} : x.start \in Nat /\ x.size \in Nat \ {0} /\ Buffer!End(x) = x.start + x.size
    BY PartsAssumption DEF Buffer!Placed, Buffer!Segments, Buffer!End
  <1>4. \A x, y \in F : x # y => Buffer!End(x) < y.start \/ Buffer!End(y) < x.start
    BY DEF Buffer!Placed, Buffer!Separate
  <1>7. P = {x \in F : Buffer!End(x) = s.start} /\ N = {x \in F : x.start = Buffer!End(s)} /\ Beside(F, s) = P \cup N
    BY DEF EndAt, StartAt, Beside
  <1>5. \A x, y \in P : x = y
    <2>1. SUFFICES ASSUME NEW x \in P, NEW y \in P, x # y PROVE FALSE
      OBVIOUS
    <2> QED BY <1>3, <1>4, <1>7, <2>1
  <1>6. \A x, y \in N : x = y
    <2>1. SUFFICES ASSUME NEW x \in N, NEW y \in N, x # y PROVE FALSE
      OBVIOUS
    <2> QED BY <1>3, <1>4, <1>7, <2>1
  <1>8. IF previous = {} THEN P = {} ELSE p \in 1..Len(freeSpace) /\ freeSpace[p] \in P
    <2>1. CASE previous = {}
      BY <1>2, <1>7, <2>1
    <2>2. CASE previous # {}
      <3>1. p \in previous
        BY <2>2
      <3> QED BY <1>2, <1>7, <2>2, <3>1
    <2> QED BY <2>1, <2>2
  <1>9. IF next_ = {} THEN N = {} ELSE freeSpace[n] \in N
    <2>1. CASE next_ = {}
      BY <1>2, <1>7, <2>1
    <2>2. CASE next_ # {}
      <3>1. n \in next_
        BY <2>2
      <3> QED BY <1>2, <1>7, <2>2, <3>1
    <2> QED BY <2>1, <2>2
  <1>10. \A x \in P \cup N : x \in F
    BY <1>7
  <1>11. \A x \in N : x.start = Buffer!End(s)
    BY <1>7
  <1>12. \A i \in 1..Len(lone) : lone[i] \in F /\ lone[i].start = Buffer!End(s) => lone[i] \in N
    BY <1>7
  <1> HIDE DEF F, P, N, previous, next_, p, n
  <1>13. (P = {} => start = s.start) /\ \A x \in P : start = x.start
    BY <1>5, <1>8
  <1>14. (N = {} => end = Buffer!End(s)) /\ \A x \in N : end = Buffer!End(x)
    BY <1>6, <1>9
  <1>15. new = Buffer!Segment(start, end - start)
    OBVIOUS
  <1> HIDE DEF start, end, new
  <1>16. /\ Buffer!Placed((F \ (P \cup N)) \cup {new}, given \ {s}) /\ new \notin F \ (P \cup N) /\ new \in Buffer!Segments
         /\ P \cap N = {}
    <2>1. Buffer!Placed(F, given) /\ s \in given
      BY DEF F
    <2>2. EndAt(F, s.start) = P /\ StartAt(F, Buffer!End(s)) = N
      BY DEF P, N
    <2>3. EndAt(F, s.start) = {} => start = s.start
      BY <1>13, <2>2
    <2>4. \A x \in EndAt(F, s.start) : start = x.start
      BY <1>13, <2>2
    <2>5. StartAt(F, Buffer!End(s)) = {} => end = Buffer!End(s)
      BY <1>14, <2>2
    <2>6. \A x \in StartAt(F, Buffer!End(s)) : end = Buffer!End(x)
      BY <1>14, <2>2
    <2>7. /\ Buffer!Placed((F \ Beside(F, s)) \cup {Buffer!Segment(start, end - start)}, given \ {s})
          /\ Buffer!Segment(start, end - start) \notin F \ Beside(F, s)
          /\ Buffer!Segment(start, end - start) \in Buffer!Segments
          /\ EndAt(F, s.start) \cap StartAt(F, Buffer!End(s)) = {}
      BY <2>1, <2>3, <2>4, <2>5, <2>6, Joined
    <2> QED BY <1>7, <1>15, <2>2, <2>7
  <1>17. lone \in Seq(Buffer!Segments) /\ Buffer!Distinct(lone) /\ Buffer!SlotSet(lone) = F \ P
    <2>1. CASE previous = {}
      BY <1>2, <1>8, <2>1 DEF F
    <2>2. CASE previous # {}
      <3>1. p \in 1..Len(freeSpace) /\ P = {freeSpace[p]} /\ lone = Buffer!Without(freeSpace, p)
        BY <1>5, <1>8, <2>2
      <3> HIDE DEF lone
      <3> QED BY <1>2, <3>1, SlotRemoved DEF F
    <2> QED BY <2>1, <2>2
  <1> HIDE DEF lone
  <1>18. left \in Seq(Buffer!Segments) /\ Buffer!Distinct(left) /\ Buffer!SlotSet(left) = F \ (P \cup N)
    <2>1. CASE next_ = {}
      BY <1>9, <1>17, <2>1
    <2>2. CASE next_ # {}
      <3>1. PICK x \in N : TRUE
        BY <1>9, <2>2
      <3>2. x \in Buffer!SlotSet(lone) /\ x.start = Buffer!End(s)
        BY <1>10, <1>11, <1>16, <1>17
      <3>3. \E i \in 1..Len(lone) : lone[i].start = Buffer!End(s)
        BY <3>2 DEF Buffer!SlotSet
      <3>4. k \in 1..Len(lone) /\ lone[k].start = Buffer!End(s)
        BY <3>3
      <3>5. left = Buffer!Without(lone, k)
        BY <2>2
      <3> HIDE DEF k, left
      <3>6. lone[k] \in F
        BY <1>17, <3>4 DEF Buffer!SlotSet
      <3>7. N = {lone[k]}
        BY <1>6, <1>12, <3>4, <3>6
      <3>8. /\ left \in Seq(Buffer!Segments) /\ Buffer!Distinct(left)
            /\ Buffer!SlotSet(left) = Buffer!SlotSet(lone) \ {lone[k]}
        BY <1>17, <3>4, <3>5, SlotRemoved
      <3>9. Buffer!SlotSet(left) = F \ (P \cup N)
        BY <1>17, <3>7, <3>8
      <3> QED BY <3>8, <3>9
    <2> QED BY <2>1, <2>2
  <1> HIDE DEF left
  <1>19. /\ Append(left, new) \in Seq(Buffer!Segments) /\ Buffer!Distinct(Append(left, new))
         /\ Buffer!SlotSet(Append(left, new)) = (F \ (P \cup N)) \cup {new}
    BY <1>16, <1>18, SlotAppended
  <1> QED BY <1>1, <1>16, <1>19

(* What the stale pointer leaves are slots still, of a size without sense.    *)
LEMMA StaleMerged ==
  ASSUME Buffer!TypeOK, Buffer!Distinct(freeSpace), Buffer!Placed(Buffer!SlotSet(freeSpace), given), NEW s \in given,
         Buffer!Moved(s)
  PROVE  Buffer!MergeMoved(s) \in Seq(Buffer!Segments)
  <1> DEFINE i == CHOOSE j \in Buffer!Slots : Buffer!End(freeSpace[j]) = s.start
             f == freeSpace[i]
             n == Len(freeSpace)
             lone == Buffer!Without(freeSpace, i)
             new == Buffer!Segment(f.start, s.size + 2 * f.size)
  <1>1. Buffer!MergeMoved(s) = Append(SubSeq(lone, 1, Len(lone) - 1), new)
    BY DEF Buffer!MergeMoved
  <1>2. freeSpace \in Seq(Buffer!Segments) /\ n \in Nat \ {0} /\ freeSpace[n].start = Buffer!End(s) /\ n \in 1..n
    <2>1. freeSpace \in Seq(Buffer!Segments)
      BY DEF Buffer!TypeOK
    <2>2. freeSpace # <<>> /\ freeSpace[n].start = Buffer!End(s)
      BY DEF Buffer!Moved
    <2>3. n \in Nat /\ n # 0
      BY <2>1, <2>2
    <2> QED BY <2>1, <2>2, <2>3
  <1>3. i \in 1..n /\ Buffer!End(f) = s.start
    <2>1. \E j \in Buffer!Slots : Buffer!End(freeSpace[j]) = s.start
      BY DEF Buffer!Moved
    <2>2. i \in Buffer!Slots /\ Buffer!End(freeSpace[i]) = s.start
      BY <2>1
    <2> QED BY <2>2 DEF Buffer!Slots
  <1> HIDE DEF i, n
  <1>4. f \in Buffer!SlotSet(freeSpace) /\ freeSpace[n] \in Buffer!SlotSet(freeSpace)
    BY <1>2, <1>3 DEF Buffer!SlotSet, n
  <1>5. \A x \in {f, s} : x.start \in Nat /\ x.size \in Nat \ {0} /\ Buffer!End(x) = x.start + x.size /\ Buffer!End(x) <= Size
    BY <1>4, PartsAssumption DEF Buffer!Placed, Buffer!Segments, Buffer!End
  <1> HIDE DEF f
  <1>6. new \in Buffer!Segments
    <2>1. f.start \in 0..Size /\ s.size + 2 * f.size \in 1..2 * Size
      <3>1. Size \in Nat
        BY PartsAssumption
      <3>2. f.start \in Nat /\ f.size \in Nat \ {0} /\ f.start + f.size = s.start
        BY <1>3, <1>5
      <3>3. s.start \in Nat /\ s.size \in Nat \ {0} /\ s.start + s.size <= Size
        BY <1>5
      <3> QED BY <3>1, <3>2, <3>3
    <2> QED BY <2>1 DEF Buffer!Segment, Buffer!Segments
  <1>7. i # n
    BY <1>2, <1>3, <1>5 DEF f
  <1>8. n # 1
    BY <1>3, <1>7
  <1>9. lone \in Seq(Buffer!Segments) /\ Len(lone) = n - 1
    BY <1>2, <1>3, SlotRemoved DEF n
  <1> HIDE DEF lone, new
  <1>10. Len(lone) # 0
    BY <1>2, <1>8, <1>9
  <1>11. SubSeq(lone, 1, Len(lone) - 1) \in Seq(Buffer!Segments)
    BY <1>9, <1>10, Events!Shorter
  <1> QED BY <1>1, <1>6, <1>11

LEMMA BufferNext == Buffer!IInv /\ [Buffer!Next]_bufferVars => Buffer!IInv'
  <1> SUFFICES ASSUME Buffer!IInv, [Buffer!Next]_bufferVars PROVE Buffer!IInv'
    OBVIOUS
  <1>1. Buffer!TypeOK /\ (undefined # "moved slot" => Buffer!Distinct(freeSpace) /\ Buffer!Placed(Buffer!SlotSet(freeSpace), given))
    BY DEF Buffer!IInv
  <1>2. freeSpace \in Seq(Buffer!Segments) /\ given \subseteq Buffer!Segments
    BY <1>1 DEF Buffer!TypeOK
  <1>3. ASSUME NEW size \in 1..Size, NEW a \in Alignments, Buffer!TryAllocate(size, a) PROVE Buffer!IInv'
    <2>1. undefined = "none" /\ undefined' = "none" /\ a \in Nat \ {0}
      BY <1>3, PartsAssumption DEF Buffer!TryAllocate
    <2>2. PICK i \in 1..Len(freeSpace) :
             /\ Buffer!Fits(freeSpace[i], size, a)
             /\ freeSpace' = Buffer!Take(i, Buffer!Align(freeSpace[i].start, a), size)
             /\ given' = given \cup {Buffer!Segment(Buffer!Align(freeSpace[i].start, a), size)}
      BY <1>3 DEF Buffer!TryAllocate, Buffer!Slots
    <2> DEFINE start == Buffer!Align(freeSpace[i].start, a)
    <2>3. freeSpace[i] \in Buffer!Segments /\ Buffer!End(freeSpace[i]) <= Size
      BY <1>1, <2>1 DEF Buffer!Placed, Buffer!SlotSet
    <2>4. start \in Nat /\ freeSpace[i].start <= start /\ start + size <= Buffer!End(freeSpace[i])
      BY <2>1, <2>2, <2>3, FitsInside
    <2>5. freeSpace' = Buffer!Take(i, start, size) /\ given' = given \cup {Buffer!Segment(start, size)}
      BY <2>2
    <2> HIDE DEF start
    <2>6. freeSpace' \in Seq(Buffer!Segments) /\ Buffer!Distinct(freeSpace') /\ given' \subseteq Buffer!Segments
          /\ Buffer!Placed(Buffer!SlotSet(freeSpace'), given')
      BY <1>1, <1>2, <2>1, <2>4, <2>5, Taken
    <2> QED BY <2>1, <2>6 DEF Buffer!IInv, Buffer!TypeOK, Buffer!Segments
  <1>4. CASE Buffer!DivideByZero
    <2>1. undefined = "none" /\ undefined' = "division" /\ freeSpace' = freeSpace /\ given' = given
      BY <1>4 DEF Buffer!DivideByZero
    <2>2. Buffer!Distinct(freeSpace') /\ Buffer!Placed(Buffer!SlotSet(freeSpace'), given')
      BY <1>1, <2>1
    <2> QED BY <1>2, <2>1, <2>2 DEF Buffer!IInv, Buffer!TypeOK, Buffer!Segments
  <1>5. ASSUME NEW s \in given, Buffer!Deallocate(s) PROVE Buffer!IInv'
    <2>1. /\ undefined = "none" /\ given' = given \ {s}
          /\ freeSpace' = IF Buffer!Moved(s) THEN Buffer!MergeMoved(s) ELSE Buffer!Merge(s)
          /\ undefined' = IF Buffer!Moved(s) THEN "moved slot" ELSE "none"
      BY <1>5 DEF Buffer!Deallocate
    <2>2. Buffer!Distinct(freeSpace) /\ Buffer!Placed(Buffer!SlotSet(freeSpace), given) /\ given' \subseteq Buffer!Segments
      BY <1>1, <1>2, <2>1
    <2>3. CASE Buffer!Moved(s)
      <3>1. freeSpace' \in Seq(Buffer!Segments)
        BY <1>1, <2>1, <2>2, <2>3, StaleMerged
      <3> QED BY <2>1, <2>2, <2>3, <3>1 DEF Buffer!IInv, Buffer!TypeOK, Buffer!Segments
    <2>4. CASE ~Buffer!Moved(s)
      <3>1. freeSpace' \in Seq(Buffer!Segments) /\ Buffer!Distinct(freeSpace') /\ Buffer!Placed(Buffer!SlotSet(freeSpace'), given')
        BY <1>1, <2>1, <2>2, <2>4, Merged
      <3> QED BY <2>1, <2>2, <2>4, <3>1 DEF Buffer!IInv, Buffer!TypeOK, Buffer!Segments
    <2> QED BY <2>3, <2>4
  <1>6. CASE UNCHANGED bufferVars
    <2>1. freeSpace' = freeSpace /\ given' = given /\ undefined' = undefined
      BY <1>6 DEF bufferVars
    <2>2. Buffer!TypeOK'
      BY <1>1, <2>1 DEF Buffer!TypeOK, Buffer!Segments
    <2>3. undefined' # "moved slot" => Buffer!Distinct(freeSpace') /\ Buffer!Placed(Buffer!SlotSet(freeSpace'), given')
      BY <1>1, <2>1
    <2> QED BY <2>2, <2>3 DEF Buffer!IInv
  <1> QED BY <1>3, <1>4, <1>5, <1>6 DEF Buffer!Next

-----------------------------------------------------------------------------
(* What lies side by side covers every offset once.                           *)
LEMMA BufferCount == \A S : Buffer!Cardinality(S) = Cardinality(S)
  BY DEF Buffer!Cardinality, Cardinality

LEMMA OwnedOnce ==
  ASSUME Buffer!TypeOK, Buffer!Distinct(freeSpace), Buffer!Placed(Buffer!SlotSet(freeSpace), given)
  PROVE  Buffer!Tiled /\ \A i, j \in Buffer!Slots : Buffer!End(freeSpace[i]) # freeSpace[j].start
  <1> DEFINE F == Buffer!SlotSet(freeSpace)
  <1>1. Buffer!Slots = 1..Len(freeSpace) /\ \A i \in 1..Len(freeSpace) : freeSpace[i] \in F
    BY DEF Buffer!Slots, Buffer!SlotSet
  <1>2. \A x \in F \cup given : /\ x.start \in Nat /\ x.size \in Nat \ {0} /\ Buffer!End(x) = x.start + x.size
                                /\ Buffer!End(x) <= Size
    BY PartsAssumption DEF Buffer!Placed, Buffer!Segments, Buffer!End
  <1>3. \A x, y \in F : x # y => Buffer!End(x) < y.start \/ Buffer!End(y) < x.start
    BY DEF Buffer!Placed, Buffer!Separate
  <1>4. \A x, y \in given : x # y => Buffer!End(x) <= y.start \/ Buffer!End(y) <= x.start
    BY DEF Buffer!Placed, Buffer!Apart
  <1>5. \A x \in F, y \in given : Buffer!End(x) <= y.start \/ Buffer!End(y) <= x.start
    BY DEF Buffer!Placed, Buffer!Apart
  <1>6. \A o \in 0..(Size - 1) : \E x \in F \cup given : o \in Buffer!Offsets(x)
    BY DEF Buffer!Placed
  <1>7. \A x \in F : \E i \in 1..Len(freeSpace) : x = freeSpace[i]
    BY DEF Buffer!SlotSet
  <1> HIDE DEF F
  <1>8. ASSUME NEW i \in Buffer!Slots, NEW j \in Buffer!Slots PROVE Buffer!End(freeSpace[i]) # freeSpace[j].start
    <2>1. freeSpace[i] \in F /\ freeSpace[j] \in F
      BY <1>1
    <2> QED BY <1>2, <1>3, <2>1
  <1>9. ASSUME NEW o \in 0..(Size - 1) PROVE Buffer!Owners(o) = 1
    <2> DEFINE A == {s \in given : o \in Buffer!Offsets(s)}
               B == {i \in Buffer!Slots : o \in Buffer!Offsets(freeSpace[i])}
    <2>1. o \in Nat
      BY PartsAssumption
    <2>2. \A x \in F \cup given : o \in Buffer!Offsets(x) <=> x.start <= o /\ o < Buffer!End(x)
      BY <1>2, <2>1 DEF Buffer!Offsets
    <2>3. \A x, y \in A : x = y
      <3>1. SUFFICES ASSUME NEW x \in A, NEW y \in A, x # y PROVE FALSE
        OBVIOUS
      <3>2. x.start <= o /\ o < Buffer!End(x) /\ y.start <= o /\ o < Buffer!End(y)
        BY <2>2
      <3> QED BY <1>2, <1>4, <2>1, <3>1, <3>2
    <2>4. \A i, j \in B : i = j
      <3>1. SUFFICES ASSUME NEW i \in B, NEW j \in B, freeSpace[i] # freeSpace[j] PROVE FALSE
        BY <1>1 DEF Buffer!Distinct
      <3>2. freeSpace[i] \in F /\ freeSpace[j] \in F
        BY <1>1
      <3>3. /\ freeSpace[i].start <= o /\ o < Buffer!End(freeSpace[i])
            /\ freeSpace[j].start <= o /\ o < Buffer!End(freeSpace[j])
        BY <2>2, <3>2
      <3> QED BY <1>2, <1>3, <2>1, <3>1, <3>2, <3>3
    <2>5. A = {} \/ B = {}
      <3>1. SUFFICES ASSUME NEW x \in A, NEW i \in B PROVE FALSE
        OBVIOUS
      <3>2. freeSpace[i] \in F /\ x \in given
        BY <1>1
      <3>3. x.start <= o /\ o < Buffer!End(x) /\ freeSpace[i].start <= o /\ o < Buffer!End(freeSpace[i])
        BY <2>2, <3>2
      <3> QED BY <1>2, <1>5, <2>1, <3>2, <3>3
    <2>6. A # {} \/ B # {}
      <3>1. PICK x \in F \cup given : o \in Buffer!Offsets(x)
        BY <1>6
      <3>2. CASE x \in given
        BY <3>1, <3>2
      <3>3. CASE x \in F
        <4>1. PICK i \in 1..Len(freeSpace) : x = freeSpace[i]
          BY <1>7, <3>3
        <4>2. i \in B
          BY <1>1, <3>1, <4>1
        <4> QED BY <4>2
      <3> QED BY <3>1, <3>2, <3>3
    <2>7. Buffer!Owners(o) = Buffer!Cardinality(A) + Buffer!Cardinality(B)
      BY DEF Buffer!Owners
    <2> HIDE DEF A, B
    <2>8. Buffer!Cardinality(A) = Cardinality(A) /\ Buffer!Cardinality(B) = Cardinality(B)
      BY BufferCount
    <2>9. Cardinality(A) \in {0, 1} /\ (Cardinality(A) = 1 <=> A # {})
      BY <2>3, OneOrNone
    <2>10. Cardinality(B) \in {0, 1} /\ (Cardinality(B) = 1 <=> B # {})
      BY <2>4, OneOrNone
    <2> QED BY <2>5, <2>6, <2>7, <2>8, <2>9, <2>10
  <1>10. (\A s \in given : Buffer!End(s) <= Size) /\ \A i \in Buffer!Slots : Buffer!End(freeSpace[i]) <= Size
    BY <1>1, <1>2
  <1> QED BY <1>8, <1>9, <1>10 DEF Buffer!Tiled

(* For every size of the buffer and every alignment asked for, whatever is    *)
(* allocated, aligned and freed in whatever order: until a moved slot is used *)
(* every offset belongs to one caller or one free slot and free slots never   *)
(* touch.  The division by zero and the moved slot themselves stay reachable, *)
(* as in the code.                                                            *)
THEOREM BufferKept == PartsSpec => []BufferSafe
  <1>1. Buffer!IInv => BufferSafe
    BY OwnedOnce DEF Buffer!IInv, BufferSafe, Buffer!TiledUnlessMoved, Buffer!Coalesced
  <1> QED BY <1>1, BufferInit, BufferNext, BufferPart, PTL
=============================================================================
