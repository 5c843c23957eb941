-------------------------- MODULE MCOwners_proofs --------------------------
(***************************************************************************)
(* lifetime_source and lifetime_guard: for every set of sources and every  *)
(* finite set of guards, the count of a source is the number of guards that*)
(* hold it, no guard outlives its source, the destructor's wake-up is never*)
(* missed, and the code implements the drain barrier.                      *)
(*                                                                         *)
(* The other owners: what every behaviour of each of them keeps to.        *)
(***************************************************************************)
EXTENDS MCOwners, FiniteSetTheorems, SequenceTheorems, WellFoundedInduction, TLAPS

(* The holders of a source form a finite set, whatever the state.             *)
LEMMA HoldersFinite ==
  ASSUME NEW s \in Sources
  PROVE  IsFiniteSet(Holders(s)) /\ Cardinality(Holders(s)) \in Nat
  BY GuardAssumption, FS_Subset, FS_CardinalityType DEF Holders

(* Adding to, removing from or exchanging a member of a finite set changes    *)
(* its cardinality by the obvious amount.                                     *)
LEMMA CountPlus ==
  ASSUME NEW S, IsFiniteSet(S), NEW g, g \notin S
  PROVE  Cardinality(S \cup {g}) = Cardinality(S) + 1
  BY FS_AddElement

LEMMA CountMinus ==
  ASSUME NEW S, IsFiniteSet(S), NEW g \in S
  PROVE  Cardinality(S \ {g}) = Cardinality(S) - 1
  BY FS_RemoveElement

LEMMA CountSwap ==
  ASSUME NEW S, IsFiniteSet(S), NEW h \in S, NEW g, g \notin S
  PROVE  Cardinality((S \ {h}) \cup {g}) = Cardinality(S)
  <1>1. IsFiniteSet(S \ {h}) /\ Cardinality(S \ {h}) = Cardinality(S) - 1
    BY FS_RemoveElement
  <1>2. Cardinality((S \ {h}) \cup {g}) = Cardinality(S \ {h}) + 1
    BY <1>1, FS_AddElement
  <1>3. Cardinality(S) \in Nat
    BY FS_CardinalityType
  <1> QED BY <1>1, <1>2, <1>3

-----------------------------------------------------------------------------
(* The initial states satisfy the inductive invariant.                        *)
LEMMA InitInv == Init => IInv
  <1> SUFFICES ASSUME Init PROVE IInv
    OBVIOUS
  <1>1. \A s \in Sources : Holders(s) = {}
    BY GuardAssumption DEF Init, Holders, Holds
  <1>2. CountIsHolders
    BY <1>1, FS_EmptySet DEF CountIsHolders, Init
  <1> QED BY <1>2 DEF Init, IInv, TypeOK, LifeOK, SourceOK

(* No step of the sources or the guards leaves the inductive invariant.       *)
LEMMA NextInv == IInv /\ [Next]_vars => IInv'
  <1> SUFFICES ASSUME IInv, [Next]_vars PROVE IInv'
    OBVIOUS
  <1> USE GuardAssumption DEF IInv, TypeOK, LifeOK, SourceOK, CountIsHolders
  <1>1. ASSUME NEW s \in Sources, NEW g \in Guards, TryGuard(s, g)
        PROVE  IInv'
    <2>1. (TypeOK /\ LifeOK /\ SourceOK)'
      BY <1>1 DEF TryGuard, Free
    <2>2. g \notin Holders(s) /\ Holders(s)' = Holders(s) \cup {g}
      BY <1>1 DEF TryGuard, Free, Holders, Holds
    <2>3. \A t \in Sources \ {s} : Holders(t)' = Holders(t)
      BY <1>1 DEF TryGuard, Holders, Holds
    <2>4. Cardinality(Holders(s))' = Cardinality(Holders(s)) + 1
      BY <2>2, HoldersFinite, CountPlus
    <2> QED BY <1>1, <2>1, <2>3, <2>4 DEF TryGuard
  <1>2. ASSUME NEW g \in Guards, NEW h \in Guards, MoveConstruct(g, h)
        PROVE  IInv'
    <2>1. (TypeOK /\ LifeOK /\ SourceOK)'
      BY <1>2 DEF MoveConstruct, Free
    <2>2. ASSUME NEW s \in Sources
          PROVE  Cardinality(Holders(s))' = Cardinality(Holders(s))
      <3>1. CASE owner[h] = s
        <4>1. h \in Holders(s) /\ g \notin Holders(s)
          BY <1>2, <3>1 DEF MoveConstruct, Free, Holders, Holds
        <4>2. Holders(s)' = (Holders(s) \ {h}) \cup {g}
          BY <1>2, <3>1 DEF MoveConstruct, Free, Holders, Holds
        <4> QED BY <4>1, <4>2, HoldersFinite, CountSwap
      <3>2. CASE owner[h] # s
        BY <1>2, <3>2 DEF MoveConstruct, Holders, Holds
      <3> QED BY <3>1, <3>2
    <2> QED BY <1>2, <2>1, <2>2 DEF MoveConstruct
  <1>3. ASSUME NEW g \in Guards, NEW h \in Guards, MoveAssign(g, h)
        PROVE  IInv'
    <2>1. (TypeOK /\ LifeOK)'
      BY <1>3 DEF MoveAssign
    <2>2. SourceOK'
      BY <1>3 DEF MoveAssign, Free, Taken
    <2>3. \A s \in Sources : Holders(s)' = Holders(s)
      BY <1>3 DEF MoveAssign, Holders, Holds
    <2> QED BY <1>3, <2>1, <2>2, <2>3 DEF MoveAssign
  <1>4. ASSUME NEW g \in Guards, MoveOwner(g)
        PROVE  IInv'
    <2> DEFINE h == source[g]
    <2>0. h \in Guards /\ h # g /\ pc[h] = "idle" /\ pc[g] = "idle" /\ owner[g] = NoSource
      BY <1>4 DEF MoveOwner
    <2>1. (TypeOK /\ LifeOK /\ SourceOK)'
      BY <1>4 DEF MoveOwner
    <2>2. ASSUME NEW s \in Sources
          PROVE  Cardinality(Holders(s))' = Cardinality(Holders(s))
      <3>1. CASE owner[h] = s
        <4>1. h \in Holders(s) /\ g \notin Holders(s)
          BY <2>0, <3>1 DEF Holders, Holds
        <4>2. Holders(s)' = (Holders(s) \ {h}) \cup {g}
          BY <1>4, <2>0, <3>1 DEF MoveOwner, Holders, Holds
        <4> QED BY <4>1, <4>2, HoldersFinite, CountSwap
      <3>2. CASE owner[h] # s
        <4>1. Holders(s)' = Holders(s)
          BY <1>4, <2>0, <3>2 DEF MoveOwner, Holders, Holds
        <4> QED BY <4>1
      <3> QED BY <3>1, <3>2
    <2> QED BY <1>4, <2>1, <2>2 DEF MoveOwner
  <1>5. ASSUME NEW g \in Guards, Release(g)
        PROVE  IInv'
    <2> PICK s \in Sources : s = owner[g]
      BY <1>5 DEF Release
    <2>0. s \in Sources /\ owner[g] = s /\ pc[g] = "idle" /\ g \in Holders(s)
      BY <1>5 DEF Release, Holders, Holds
    <2>1. Holders(s)' = Holders(s) \ {g}
      BY <1>5, <2>0 DEF Release, Holders, Holds
    <2>2. \A t \in Sources \ {s} : Holders(t)' = Holders(t)
      BY <1>5, <2>0 DEF Release, Holders, Holds
    <2>3. Cardinality(Holders(s))' = Cardinality(Holders(s)) - 1
      BY <2>0, <2>1, HoldersFinite, CountMinus
    <2>4. Cardinality(Holders(s)) \in Nat /\ Cardinality(Holders(s)) # 0
      BY <2>0, HoldersFinite, FS_EmptySet
    <2>5. guardCount[s] \in Nat \ {0} /\ guardCount' = [guardCount EXCEPT ![s] = @ - 1]
      BY <1>5, <2>0, <2>4 DEF Release
    <2>6. CountIsHolders'
      <3>1. guardCount[s]' = Cardinality(Holders(s))'
        BY <2>0, <2>3, <2>5
      <3>2. \A t \in Sources \ {s} : guardCount[t]' = Cardinality(Holders(t))'
        BY <2>2, <2>5
      <3> QED BY <3>1, <3>2
    <2>7. TypeOK'
      BY <1>5, <2>0, <2>5 DEF Release
    <2>8. LifeOK'
      BY <1>5, <2>0, <2>5 DEF Release
    <2>9. SourceOK'
      BY <1>5 DEF Release, Taken
    <2> QED BY <2>6, <2>7, <2>8, <2>9
  <1>6. ASSUME NEW g \in Guards, Forget(g)
        PROVE  IInv'
    <2>1. (TypeOK /\ LifeOK /\ SourceOK)'
      BY <1>6 DEF Forget
    <2>2. \A s \in Sources : Holders(s)' = Holders(s)
      BY <1>6 DEF Forget, Holders, Holds
    <2> QED BY <1>6, <2>1, <2>2 DEF Forget
  <1>7. ASSUME NEW s \in Sources, Destroy(s)
        PROVE  IInv'
    <2>1. TypeOK' /\ SourceOK'
      BY <1>7 DEF Destroy
    <2>2. LifeOK'
      BY <1>7 DEF Destroy
    <2>3. \A t \in Sources : Holders(t)' = Holders(t)
      BY <1>7 DEF Destroy, Holders, Holds
    <2> QED BY <1>7, <2>1, <2>2, <2>3 DEF Destroy
  <1>8. ASSUME NEW s \in Sources, DrainWake(s)
        PROVE  IInv'
    <2>1. TypeOK' /\ SourceOK'
      BY <1>8 DEF DrainWake
    <2>2. LifeOK'
      BY <1>8 DEF DrainWake
    <2>3. \A t \in Sources : Holders(t)' = Holders(t)
      BY <1>8 DEF DrainWake, Holders, Holds
    <2> QED BY <1>8, <2>1, <2>2, <2>3 DEF DrainWake
  <1>9. CASE UNCHANGED vars
    <2>1. \A s \in Sources : Holders(s)' = Holders(s)
      BY <1>9 DEF vars, Holders, Holds
    <2> QED BY <1>9, <2>1 DEF vars
  <1> QED BY <1>1, <1>2, <1>3, <1>4, <1>5, <1>6, <1>7, <1>8, <1>9 DEF Next

(* _guardCount is the number of guards that hold the source, in every state.  *)
THEOREM CountCorrect == Spec => []IInv
  BY InitInv, NextInv, PTL DEF Spec

(* A sleeping destructor always has a guard left that will wake it.          *)
DrainNotMissed == \A s \in Sources : life[s] = "asleep" => Holders(s) # {}

(* No guard that will still lock its owner's mutex points at a source whose   *)
(* destructor has returned, and no sleeping destructor lacks a waker.         *)
THEOREM NoUseAfterFree == Spec => [](NoDanglingOwner /\ DrainNotMissed)
  <1>1. IInv => NoDanglingOwner /\ DrainNotMissed
    <2> SUFFICES ASSUME IInv PROVE NoDanglingOwner /\ DrainNotMissed
      OBVIOUS
    <2>1. ASSUME NEW g \in Guards, NEW s \in Sources, Holds(g, s)
          PROVE  life[s] # "gone"
      <3>1. Holders(s) # {}
        BY <2>1 DEF Holders
      <3>2. guardCount[s] # 0
        BY <3>1, HoldersFinite, FS_EmptySet DEF IInv, CountIsHolders
      <3> QED BY <3>2 DEF IInv, LifeOK
    <2>2. ASSUME NEW s \in Sources, life[s] = "asleep"
          PROVE  Holders(s) # {}
      BY <2>2, FS_EmptySet DEF IInv, LifeOK, CountIsHolders
    <2> QED BY <2>1, <2>2 DEF NoDanglingOwner, DrainNotMissed
  <1> QED BY <1>1, CountCorrect, PTL

-----------------------------------------------------------------------------
(* The initial states of the code are initial states of the drain barrier.    *)
LEMMA BarrierInit == Init => Barrier!Init
  <1> SUFFICES ASSUME Init PROVE Barrier!Init
    OBVIOUS
  <1>1. phase = [s \in Sources |-> "open"]
    BY DEF Init, phase
  <1>2. held = [g \in Guards |-> NoSource]
    BY DEF Init, held
  <1> QED BY <1>1, <1>2 DEF Barrier!Init

(* Every step of the code is a step of the barrier or leaves it unchanged.    *)
LEMMA BarrierNext == IInv /\ [Next]_vars => [Barrier!Next]_(Barrier!vars)
  <1> SUFFICES ASSUME IInv, [Next]_vars PROVE [Barrier!Next]_(Barrier!vars)
    OBVIOUS
  <1> USE GuardAssumption DEF IInv, TypeOK
  <1>1. ASSUME NEW s \in Sources, NEW g \in Guards, TryGuard(s, g)
        PROVE  Barrier!Next
    <2>1. phase' = phase /\ phase[s] = "open"
      BY <1>1 DEF TryGuard, phase, LifeOK
    <2>2. held[g] = NoSource /\ held' = [held EXCEPT ![g] = s]
      BY <1>1 DEF TryGuard, Free, held
    <2> QED BY <2>1, <2>2 DEF Barrier!Next, Barrier!Acquire
  <1>2. ASSUME NEW g \in Guards, NEW h \in Guards, MoveConstruct(g, h)
        PROVE  Barrier!Next
    <2>1. phase' = phase
      BY <1>2 DEF MoveConstruct, phase
    <2>2. /\ held[g] = NoSource /\ held[h] # NoSource
          /\ held' = [held EXCEPT ![g] = held[h], ![h] = NoSource]
      BY <1>2 DEF MoveConstruct, Free, held
    <2> QED BY <2>1, <2>2 DEF Barrier!Next, Barrier!Transfer
  <1>3. ASSUME NEW g \in Guards, NEW h \in Guards, MoveAssign(g, h)
        PROVE  UNCHANGED Barrier!vars
    BY <1>3 DEF MoveAssign, Barrier!vars, phase, held
  <1>4. ASSUME NEW g \in Guards, MoveOwner(g)
        PROVE  [Barrier!Next]_(Barrier!vars)
    <2> PICK h \in Guards : h = source[g]
      OBVIOUS
    <2>1. h # g /\ pc[g] = "idle" /\ pc[h] = "idle" /\ owner[g] = NoSource /\ pc' = pc
      BY <1>4 DEF MoveOwner, SourceOK
    <2>2. owner' = [owner EXCEPT ![g] = owner[h], ![h] = NoSource]
      BY <1>4 DEF MoveOwner
    <2>3. phase' = phase
      BY <1>4 DEF MoveOwner, phase
    <2>4. held' = [held EXCEPT ![g] = held[h], ![h] = NoSource] /\ held[g] = NoSource
      BY <2>1, <2>2 DEF held
    <2>5. CASE held[h] = NoSource
      <3>1. held' = held
        BY <2>4, <2>5 DEF held
      <3> QED BY <2>3, <3>1 DEF Barrier!vars
    <2>6. CASE held[h] # NoSource
      BY <2>3, <2>4, <2>6 DEF Barrier!Next, Barrier!Transfer
    <2> QED BY <2>5, <2>6
  <1>5. ASSUME NEW g \in Guards, Release(g)
        PROVE  Barrier!Next
    <2>1. phase' = phase
      BY <1>5 DEF Release, phase
    <2>2. held[g] # NoSource /\ held' = [held EXCEPT ![g] = NoSource]
      BY <1>5 DEF Release, held
    <2> QED BY <2>1, <2>2 DEF Barrier!Next, Barrier!Release
  <1>6. ASSUME NEW g \in Guards, Forget(g)
        PROVE  UNCHANGED Barrier!vars
    BY <1>6 DEF Forget, Barrier!vars, phase, held
  <1>7. ASSUME NEW s \in Sources, Destroy(s) \/ DrainWake(s), guardCount[s] = 0
        PROVE  Barrier!Next
    <2>1. \A g \in Guards : held[g] # s
      <3>1. Holders(s) = {}
        BY <1>7, HoldersFinite, FS_EmptySet DEF CountIsHolders
      <3> QED BY <3>1 DEF Holders, Holds, held
    <2>2. phase[s] # "gone" /\ phase' = [phase EXCEPT ![s] = "gone"]
      BY <1>7 DEF Destroy, DrainWake, phase
    <2>3. held' = held
      BY <1>7 DEF Destroy, DrainWake, held
    <2> QED BY <2>1, <2>2, <2>3 DEF Barrier!Next, Barrier!Vanish
  <1>8. ASSUME NEW s \in Sources, Destroy(s), guardCount[s] # 0
        PROVE  Barrier!Next
    <2>1. phase[s] = "open" /\ phase' = [phase EXCEPT ![s] = "closed"]
      BY <1>8 DEF Destroy, phase
    <2>2. held' = held
      BY <1>8 DEF Destroy, held
    <2> QED BY <2>1, <2>2 DEF Barrier!Next, Barrier!Close
  <1>9. ASSUME NEW s \in Sources, DrainWake(s), guardCount[s] # 0
        PROVE  UNCHANGED Barrier!vars
    BY <1>9 DEF DrainWake, Barrier!vars, phase, held
  <1>10. CASE UNCHANGED vars
    BY <1>10 DEF vars, Barrier!vars, phase, held
  <1> QED
    BY <1>1, <1>2, <1>3, <1>4, <1>5, <1>6, <1>7, <1>8, <1>9, <1>10 DEF Next

(* lifetime_source and lifetime_guard implement the drain barrier.            *)
THEOREM BarrierRefinement == Spec => ImplementsBarrier
  BY BarrierInit, BarrierNext, CountCorrect, PTL DEF Spec, ImplementsBarrier, Barrier!Spec

-----------------------------------------------------------------------------
\* Where the connection thread is tells what the member holds; a channel whose thread has ended has raised the event,
\* and nobody lowers it before the channel is gone.
StagesOK ==
  /\ cpc \in {"off", "check", "get", "reset", "publish", "pauseCheck", "pause", "done"} => channel = "none" /\ tpc = "off"
  /\ cpc \in {"connected", "subscribe"} => channel = "published" /\ tpc = "off"
  /\ cpc = "open" => channel = "subscribed" /\ tpc = "off"
  /\ cpc = "report" => channel \in {"published", "subscribed"}
  /\ channel \in {"published", "subscribed"} => tpc = "off"
  /\ tpc = "done" => signal
  /\ cpc \in {"publish", "connected", "subscribe", "open", "wait"} /\ signal => tpc = "done" \/ mpc = "join"
  /\ mpc = "made" => cpc = "off"

(* Every step of the connection thread keeps the stages,                      *)
LEMMA ClientConnects == Client!TypeOK /\ StagesOK /\ Client!Connect => Client!TypeOK' /\ StagesOK'
  <1> SUFFICES ASSUME Client!TypeOK, StagesOK, Client!Connect PROVE Client!TypeOK' /\ StagesOK'
    OBVIOUS
  <1> USE DEF Client!TypeOK, StagesOK, Client!Conn
  <1>1. CASE Client!Check
    BY <1>1 DEF Client!Check
  <1>7. CASE Client!PauseCheck \/ Client!Pause
    BY <1>7 DEF Client!PauseCheck, Client!Pause
  <1>2. CASE Client!GetChannel \/ Client!GetFails
    BY <1>2 DEF Client!GetChannel, Client!GetFails
  <1>8. CASE Client!ResetWakeup
    BY <1>8 DEF Client!ResetWakeup
  <1>9. CASE Client!Publish
    BY <1>9 DEF Client!Publish
  <1>3. CASE Client!RaiseConnected \/ Client!Subscribe
    BY <1>3 DEF Client!RaiseConnected, Client!Subscribe
  <1>4. CASE Client!OpenChannel \/ Client!OpenFails \/ Client!Wait
    BY <1>4 DEF Client!OpenChannel, Client!OpenFails, Client!Wait
  <1>5. CASE Client!DropLock \/ Client!DropChannel \/ Client!DropReports
    BY <1>5 DEF Client!DropLock, Client!DropChannel, Client!DropReports
  <1>6. CASE Client!Report
    BY <1>6 DEF Client!Report, Client!ReportReturns, Client!ReportCalls, Client!ReportThrows
  <1> QED BY <1>1, <1>2, <1>3, <1>4, <1>5, <1>6, <1>7, <1>8, <1>9 DEF Client!Connect

(* and so does every other.                                                   *)
LEMMA ClientGoesOn == Client!TypeOK /\ StagesOK /\ [Client!Next]_(Client!vars) => Client!TypeOK' /\ StagesOK'
  <1> SUFFICES ASSUME Client!TypeOK, StagesOK, [Client!Next]_(Client!vars) PROVE Client!TypeOK' /\ StagesOK'
    OBVIOUS
  <1>1. CASE Client!Connect
    BY <1>1, ClientConnects
  <1> USE DEF Client!TypeOK, StagesOK
  <1>2. CASE Client!Channel
    <2> USE DEF Client!Chan
    <2>1. CASE Client!Message \/ Client!Lose
      BY <2>1 DEF Client!Message, Client!Lose
    <2>2. CASE Client!HandlerCalled
      BY <2>2 DEF Client!HandlerCalled
    <2>3. CASE Client!RaiseDisconnected
      BY <2>3 DEF Client!RaiseDisconnected
    <2>4. CASE Client!SetWakeup
      BY <2>4 DEF Client!SetWakeup
    <2> QED BY <1>2, <2>1, <2>2, <2>3, <2>4 DEF Client!Channel
  <1>3. CASE Client!UserLock \/ Client!UserUnlock \/ Client!Open
    BY <1>3 DEF Client!UserLock, Client!UserUnlock, Client!Open
  <1>4. CASE Client!DestroyFlag \/ Client!DestroySet \/ Client!DestroyJoin
    <2>1. CASE Client!DestroyFlag
      BY <2>1 DEF Client!DestroyFlag
    <2>2. CASE Client!DestroySet
      BY <2>2 DEF Client!DestroySet
    <2>3. CASE Client!DestroyJoin
      BY <2>3 DEF Client!DestroyJoin
    <2> QED BY <1>4, <2>1, <2>2, <2>3
  <1>5. CASE UNCHANGED Client!vars
    BY <1>5 DEF Client!vars
  <1> QED BY <1>1, <1>2, <1>3, <1>4, <1>5 DEF Client!Next

(* Whatever users and the network do, and whether handlers return, call or     *)
(* throw: a channel whose loss was reported finds the connection thread awake, *)
(* one whose handler threw leaves it asleep until the client is destroyed, and *)
(* a new one finds the member empty.                                           *)
THEOREM LossNoticed == Client!Spec => [](Client!TypeOK /\ Client!LossNotMissed /\ Client!PublishesIntoNone)
  <1>1. Client!Init => Client!TypeOK /\ StagesOK
    BY DEF Client!Init, Client!TypeOK, StagesOK
  <1>2. Client!TypeOK /\ StagesOK => Client!LossNotMissed /\ Client!PublishesIntoNone
    BY DEF StagesOK, Client!LossNotMissed, Client!PublishesIntoNone
  <1> QED BY <1>1, <1>2, ClientGoesOn, PTL DEF Client!Spec

(* A behaviour of the owners is one of the messaging client.                  *)
LEMMA ClientPart == OwnersSpec => Client!Spec
  <1>1. OwnersInit => Client!Init
    BY DEF OwnersInit
  <1>2. [OwnersNext]_<<part, vars, clientVars, containerVars, registryVars, poolVars, pointerVars>>
          => [Client!Next]_(Client!vars)
    BY DEF OwnersNext, clientVars, Client!vars
  <1> QED BY <1>1, <1>2, PTL DEF OwnersSpec, Client!Spec

(* The same of the specification that is checked.                             *)
THEOREM ClientKept == OwnersSpec => []ClientSafe
  <1>1. Client!Spec => [](Client!TypeOK /\ Client!LossNotMissed /\ Client!PublishesIntoNone)
    BY LossNoticed
  <1> QED BY <1>1, ClientPart, PTL DEF ClientSafe

-----------------------------------------------------------------------------
(* A step changes what a thread is at, and nothing else of it.                *)
LEMMA AddGoes ==
  ASSUME NEW r \in Registry!Adds, NEW s \in {"add", "added", "handling"}, NEW q, q = [r EXCEPT !.step = s]
  PROVE  q \in Registry!Adds /\ q.step = s /\ q.item = r.item /\ q.tokens = r.tokens
  BY DEF Registry!Adds

LEMMA RemoveGoes ==
  ASSUME NEW r \in Registry!Removes, NEW s \in {"erase", "removed", "heard"}, NEW q, q = [r EXCEPT !.step = s]
  PROVE  q \in Registry!Removes /\ q.step = s /\ q.item = r.item /\ q.token = r.token
  BY DEF Registry!Removes

LEMMA RestGoes ==
  ASSUME NEW r \in Registry!Rests, NEW s \in {"idle", "reading"}, NEW q, q = [r EXCEPT !.step = s]
  PROVE  q \in Registry!Rests /\ q.step = s
  BY DEF Registry!Rests

(* What a thread is at tells what there is to know of it.                     *)
LEMMA WhatItIsAt ==
  ASSUME Registry!TypeOK, NEW u \in Users
  PROVE  /\ upc[u].step \in {"idle", "reading"} => upc[u] \in Registry!Rests
         /\ Registry!IsAdding(u) => upc[u] \in Registry!Adds
         /\ Registry!IsRemoving(u) => upc[u] \in Registry!Removes
         /\ upc[u] \in Registry!Rests \cup Registry!Adds \cup Registry!Removes
  BY DEF Registry!TypeOK, Registry!IsAdding, Registry!IsRemoving, Registry!Rests, Registry!Adds, Registry!Removes

(* Steps that leave the tokens alone, and what threads work on and for whom.   *)
LEMMA TokensUntouched ==
  ASSUME Registry!TokenOK, callback' = callback, failed \subseteq failed',
         \A v \in Users : Registry!Works(v)' =>
           /\ Registry!Works(v) /\ upc'[v].item = upc[v].item
           /\ Registry!IsRemoving(v)' <=> Registry!IsRemoving(v)
           /\ Registry!IsRemoving(v) => upc'[v].token = upc[v].token
  PROVE  Registry!TokenOK'
  <1>1. ASSUME NEW v \in Users, Registry!IsRemoving(v)'
        PROVE  Registry!IsRemoving(v) /\ upc'[v].token = upc[v].token /\ upc'[v].item = upc[v].item
    <2>1. Registry!Works(v)'
      BY <1>1 DEF Registry!Works
    <2> QED BY <1>1, <2>1
  <1>2. ASSUME NEW v \in Users, Registry!IsRemoving(v)' PROVE callback'[upc'[v].token] = <<upc'[v].item>>
    <2>1. callback[upc[v].token] = <<upc[v].item>>
      BY <1>1, <1>2 DEF Registry!TokenOK
    <2> QED BY <1>1, <1>2, <2>1
  <1>3. ASSUME NEW v \in Users, NEW w \in Users, Registry!IsRemoving(v)', Registry!IsRemoving(w)', v # w
        PROVE  upc'[v].token # upc'[w].token
    <2>1. upc[v].token # upc[w].token
      BY <1>1, <1>3 DEF Registry!TokenOK
    <2> QED BY <1>1, <1>3, <2>1
  <1>4. ASSUME NEW k \in Tokens, NEW l \in Tokens, callback'[k] # <<>>, callback'[k][1] \notin failed', k # l
        PROVE  callback'[l] # callback'[k]
    BY <1>4 DEF Registry!TokenOK
  <1>5. ASSUME NEW k \in Tokens, NEW v \in Users, Registry!Works(v)', Registry!Sound(v)', callback'[k] = <<upc'[v].item>>
        PROVE  Registry!IsRemoving(v)' /\ upc'[v].token = k
    <2>1. Registry!Works(v) /\ Registry!Sound(v) /\ callback[k] = <<upc[v].item>>
      BY <1>5 DEF Registry!Sound
    <2>2. Registry!IsRemoving(v) /\ upc[v].token = k
      BY <2>1 DEF Registry!TokenOK
    <2> QED BY <1>5, <2>2
  <1> QED BY <1>2, <1>3, <1>4, <1>5 DEF Registry!TokenOK

LEMMA RegistryInit == Registry!Init => Registry!IInv
  <1> SUFFICES ASSUME Registry!Init PROVE Registry!IInv
    OBVIOUS
  <1>1. \A u \in Users : upc[u].step = "idle" /\ upc[u] \in Registry!Rests
    BY DEF Registry!Init, Registry!Idle, Registry!Rests
  <1>2. \A k \in Tokens : callback[k] = <<>>
    BY DEF Registry!Init
  <1>3. Registry!TypeOK
    BY <1>1 DEF Registry!Init, Registry!TypeOK
  <1>4. Registry!AloneOK /\ Registry!PlaceOK /\ Registry!AwaitedOK
    BY <1>1 DEF Registry!AloneOK, Registry!PlaceOK, Registry!AwaitedOK, Registry!Works, Registry!IsAdding, Registry!IsRemoving
  <1>5. Registry!TokenOK /\ Registry!StandsOK
    BY <1>1, <1>2 DEF Registry!TokenOK, Registry!StandsOK, Registry!Works, Registry!IsAdding, Registry!IsRemoving
  <1>6. Registry!ListenersKnow
    BY DEF Registry!Init, Registry!ListenersKnow, Registry!Telling
  <1> QED BY <1>3, <1>4, <1>5, <1>6 DEF Registry!IInv

(* The critical section of add(): the item is there, as nobody else works on  *)
(* it.                                                                        *)
LEMMA EmplaceStep == ASSUME NEW u \in Users PROVE Registry!IInv /\ Registry!Emplace(u) => Registry!IInv'
  <1> SUFFICES ASSUME Registry!IInv, Registry!Emplace(u) PROVE Registry!IInv'
    OBVIOUS
  <1> USE DEF Registry!Sound, Registry!Telling
  <1> DEFINE q == [upc[u] EXCEPT !.step = "added"]
             i == upc[u].item
  <1>1. /\ upc' = [upc EXCEPT ![u] = q] /\ items' = items \cup {i} /\ upc[u].step = "add"
        /\ UNCHANGED <<readers, raising, callback, heard, failed>>
    BY DEF Registry!Emplace, Registry!Goes, Registry!At
  <1>2. upc[u] \in Registry!Adds
    BY <1>1, WhatItIsAt DEF Registry!IInv, Registry!IsAdding
  <1>3. q \in Registry!Adds /\ q.step = "added" /\ q.item = i /\ q.tokens = upc[u].tokens /\ i \in Items
    BY <1>2, AddGoes DEF Registry!Adds
  <1> HIDE DEF q
  <1>4. /\ upc'[u] = q /\ \A v \in Users \ {u} : upc'[v] = upc[v]
        /\ upc' \in [Users -> Registry!Rests \cup Registry!Adds \cup Registry!Removes]
    BY <1>1, <1>3 DEF Registry!IInv, Registry!TypeOK
  <1>5. Registry!TypeOK'
    BY <1>1, <1>3, <1>4 DEF Registry!IInv, Registry!TypeOK
  <1>6. Registry!AloneOK'
    BY <1>1, <1>3, <1>4 DEF Registry!IInv, Registry!AloneOK, Registry!Works, Registry!IsAdding, Registry!IsRemoving
  <1>7. Registry!PlaceOK'
    BY <1>1, <1>3, <1>4 DEF Registry!IInv, Registry!AloneOK, Registry!PlaceOK, Registry!Works, Registry!IsAdding, Registry!IsRemoving
  <1>8. Registry!AwaitedOK'
    BY <1>1, <1>3, <1>4 DEF Registry!IInv, Registry!AwaitedOK, Registry!IsAdding
  <1>9. Registry!TokenOK'
    <2>1. ASSUME NEW v \in Users
          PROVE  Registry!Works(v)' => /\ Registry!Works(v) /\ upc'[v].item = upc[v].item
                                       /\ Registry!IsRemoving(v)' <=> Registry!IsRemoving(v)
                                       /\ Registry!IsRemoving(v) => upc'[v].token = upc[v].token
      BY <1>1, <1>3, <1>4 DEF Registry!Works, Registry!IsAdding, Registry!IsRemoving
    <2> QED BY <1>1, <2>1, TokensUntouched DEF Registry!IInv
  <1>10. Registry!StandsOK'
    BY <1>1, <1>3, <1>4 DEF Registry!IInv, Registry!StandsOK, Registry!Spends
  <1>11. Registry!ListenersKnow'
    BY <1>1, <1>3, <1>4 DEF Registry!IInv, Registry!ListenersKnow
  <1> QED BY <1>5, <1>6, <1>7, <1>8, <1>9, <1>10, <1>11 DEF Registry!IInv

(* A program that adds no item twice: nobody works on the item, and no token  *)
(* is set for it.                                                             *)
LEMMA AddStep == ASSUME Once, NEW u \in Users, NEW i \in Items, NEW ts \in {{}} \cup {{k} : k \in Tokens} PROVE Registry!IInv /\ Registry!Add(u, i, ts) => Registry!IInv'
  <1> SUFFICES ASSUME Registry!IInv, Registry!Add(u, i, ts) PROVE Registry!IInv'
    OBVIOUS
  <1> USE DEF Registry!Sound, Registry!Telling
  <1> DEFINE q == [step |-> "add", item |-> i, tokens |-> ts]
  <1>1. /\ upc' = [upc EXCEPT ![u] = q] /\ upc[u].step = "idle"
        /\ UNCHANGED <<items, readers, raising, callback, heard, failed>>
        /\ \A k \in ts : callback[k] = <<>> /\ ~Registry!Awaited(k)
    BY DEF Registry!Add, Registry!Goes, Registry!At
  <1>2. i \notin items /\ i \notin Registry!Announced
    BY DEF Registry!Add, Registry!Fresh
  <1>3. q \in Registry!Adds /\ q.step = "add" /\ q.item = i /\ q.tokens = ts /\ ts \subseteq Tokens
    BY DEF Registry!Adds
  <1> HIDE DEF q
  <1>4. /\ upc'[u] = q /\ \A v \in Users \ {u} : upc'[v] = upc[v]
        /\ upc' \in [Users -> Registry!Rests \cup Registry!Adds \cup Registry!Removes]
    BY <1>1, <1>3 DEF Registry!IInv, Registry!TypeOK
  <1>5. \A v \in Users : Registry!Works(v) /\ Registry!Sound(v) => upc[v].item # i
    BY <1>2 DEF Registry!IInv, Registry!PlaceOK, Registry!Announced, Registry!Works, Registry!IsAdding, Registry!IsRemoving
  <1>6. i \notin failed => \A k \in Tokens : callback[k] # <<i>>
    <2> SUFFICES ASSUME i \notin failed, NEW k \in Tokens, callback[k] = <<i>> PROVE FALSE
      OBVIOUS
    <2>1. callback[k] # <<>> /\ callback[k][1] = i
      OBVIOUS
    <2>2. PICK v \in Users : Registry!Spends(v, k)
      BY <1>2, <2>1 DEF Registry!IInv, Registry!StandsOK
    <2>3. Registry!Works(v) /\ callback[k] = <<upc[v].item>>
      BY <2>2 DEF Registry!IInv, Registry!TokenOK, Registry!Spends, Registry!Works, Registry!IsRemoving
    <2> QED BY <1>5, <2>1, <2>3
  <1>7. Registry!TypeOK'
    BY <1>1, <1>4 DEF Registry!IInv, Registry!TypeOK
  <1>8. Registry!AloneOK'
    BY <1>1, <1>3, <1>4, <1>5, <1>6 DEF Registry!IInv, Registry!AloneOK, Registry!Works, Registry!IsAdding, Registry!IsRemoving
  <1>9. Registry!PlaceOK'
    BY <1>1, <1>2, <1>3, <1>4 DEF Registry!IInv, Registry!PlaceOK, Registry!Works, Registry!IsAdding, Registry!IsRemoving
  <1>10. Registry!AwaitedOK'
    <2>1. ASSUME NEW v \in Users \ {u}, Registry!IsAdding(v), NEW k \in ts PROVE k \notin upc[v].tokens
      BY <1>1, <2>1 DEF Registry!Awaited, Registry!IsAdding, Registry!IInv, Registry!PlaceOK
    <2> QED BY <1>1, <1>3, <1>4, <2>1 DEF Registry!IInv, Registry!AwaitedOK, Registry!IsAdding
  <1>11. Registry!TokenOK'
    <2>1. /\ ~Registry!IsRemoving(u)'
          /\ \A v \in Users \ {u} : (Registry!IsRemoving(v)' <=> Registry!IsRemoving(v)) /\ (Registry!Works(v)' <=> Registry!Works(v))
      BY <1>3, <1>4 DEF Registry!Works, Registry!IsAdding, Registry!IsRemoving
    <2>2. \A v \in Users : Registry!IsRemoving(v)' => callback'[upc'[v].token] = <<upc'[v].item>>
      BY <1>1, <1>4, <2>1 DEF Registry!IInv, Registry!TokenOK
    <2>3. \A v, w \in Users : Registry!IsRemoving(v)' /\ Registry!IsRemoving(w)' /\ v # w => upc'[v].token # upc'[w].token
      BY <1>4, <2>1 DEF Registry!IInv, Registry!TokenOK
    <2>4. \A k, l \in Tokens : callback'[k] # <<>> /\ callback'[k][1] \notin failed' /\ k # l => callback'[l] # callback'[k]
      BY <1>1 DEF Registry!IInv, Registry!TokenOK
    <2>5. ASSUME NEW k \in Tokens, NEW v \in Users, Registry!Works(v)', Registry!Sound(v)', callback'[k] = <<upc'[v].item>>
          PROVE  Registry!IsRemoving(v)' /\ upc'[v].token = k
      <3>1. v # u
        BY <1>1, <1>3, <1>4, <1>6, <2>5
      <3>2. Registry!Works(v) /\ Registry!Sound(v) /\ callback[k] = <<upc[v].item>>
        BY <1>1, <1>4, <2>1, <2>5, <3>1
      <3>3. Registry!IsRemoving(v) /\ upc[v].token = k
        BY <3>2 DEF Registry!IInv, Registry!TokenOK
      <3> QED BY <1>4, <2>1, <3>1, <3>3
    <2> QED BY <2>2, <2>3, <2>4, <2>5 DEF Registry!TokenOK
  <1>12. Registry!StandsOK'
    BY <1>1, <1>3, <1>4, <1>5, <1>6 DEF Registry!IInv, Registry!StandsOK, Registry!Spends
  <1>13. Registry!ListenersKnow'
    BY <1>1, <1>3, <1>4 DEF Registry!IInv, Registry!ListenersKnow
  <1> QED BY <1>7, <1>8, <1>9, <1>10, <1>11, <1>12, <1>13 DEF Registry!IInv

(* Who listens hears of an item that is there,                                *)
LEMMA RaiseAddedStep == ASSUME NEW u \in Users PROVE Registry!IInv /\ Registry!RaiseAdded(u) => Registry!IInv'
  <1> SUFFICES ASSUME Registry!IInv, Registry!RaiseAdded(u) PROVE Registry!IInv'
    OBVIOUS
  <1> USE DEF Registry!Sound, Registry!Telling
  <1> DEFINE q == [upc[u] EXCEPT !.step = "handling"]
             i == upc[u].item
  <1>1. /\ upc' = [upc EXCEPT ![u] = q] /\ heard' \in {heard, heard \cup {i}} /\ upc[u].step = "added"
        /\ UNCHANGED <<items, readers, callback, failed>> /\ raising' = [raising EXCEPT !["item_added"] = u]
    BY DEF Registry!RaiseAdded, Registry!Goes, Registry!At
  <1>2. upc[u] \in Registry!Adds
    BY <1>1, WhatItIsAt DEF Registry!IInv, Registry!IsAdding
  <1>3. q \in Registry!Adds /\ q.step = "handling" /\ q.item = i /\ q.tokens = upc[u].tokens /\ i \in Items
    BY <1>2, AddGoes DEF Registry!Adds
  <1> HIDE DEF q
  <1>4. /\ upc'[u] = q /\ \A v \in Users \ {u} : upc'[v] = upc[v]
        /\ upc' \in [Users -> Registry!Rests \cup Registry!Adds \cup Registry!Removes]
    BY <1>1, <1>3 DEF Registry!IInv, Registry!TypeOK
  <1>5. Registry!TypeOK'
    BY <1>1, <1>3, <1>4 DEF Registry!IInv, Registry!TypeOK
  <1>6. Registry!AloneOK'
    BY <1>1, <1>3, <1>4 DEF Registry!IInv, Registry!AloneOK, Registry!Works, Registry!IsAdding, Registry!IsRemoving
  <1>7. Registry!PlaceOK'
    BY <1>1, <1>3, <1>4 DEF Registry!IInv, Registry!PlaceOK, Registry!Works, Registry!IsAdding, Registry!IsRemoving
  <1>8. Registry!AwaitedOK'
    BY <1>1, <1>3, <1>4 DEF Registry!IInv, Registry!AwaitedOK, Registry!IsAdding
  <1>9. Registry!TokenOK'
    <2>1. ASSUME NEW v \in Users
          PROVE  Registry!Works(v)' => /\ Registry!Works(v) /\ upc'[v].item = upc[v].item
                                       /\ Registry!IsRemoving(v)' <=> Registry!IsRemoving(v)
                                       /\ Registry!IsRemoving(v) => upc'[v].token = upc[v].token
      BY <1>1, <1>3, <1>4 DEF Registry!Works, Registry!IsAdding, Registry!IsRemoving
    <2> QED BY <1>1, <2>1, TokensUntouched DEF Registry!IInv
  <1>10. Registry!StandsOK'
    BY <1>1, <1>3, <1>4 DEF Registry!IInv, Registry!StandsOK, Registry!Spends
  <1>11. Registry!ListenersKnow'
    BY <1>1, <1>3, <1>4 DEF Registry!IInv, Registry!ListenersKnow, Registry!PlaceOK
  <1> QED BY <1>5, <1>6, <1>7, <1>8, <1>9, <1>10, <1>11 DEF Registry!IInv

(* and its token is set when nobody else works on it.                         *)
LEMMA EndAddedStep == ASSUME NEW u \in Users PROVE Registry!IInv /\ Registry!EndAdded(u) => Registry!IInv'
  <1> SUFFICES ASSUME Registry!IInv, Registry!EndAdded(u) PROVE Registry!IInv'
    OBVIOUS
  <1> USE DEF Registry!Sound, Registry!Telling
  <1> DEFINE q == [step |-> "idle"]
             i == upc[u].item
             ts == upc[u].tokens
  <1>1. /\ upc' = [upc EXCEPT ![u] = q] /\ upc[u].step = "handling"
        /\ UNCHANGED <<items, readers, failed>> /\ heard' = heard \cup {i} /\ raising' = [raising EXCEPT !["item_added"] = Nobody]
        /\ callback' = [k \in Tokens |-> IF k \in ts THEN <<i>> ELSE callback[k]]
    BY DEF Registry!EndAdded, Registry!Goes, Registry!At, Registry!Idle
  <1>2. upc[u] \in Registry!Adds
    BY <1>1, WhatItIsAt DEF Registry!IInv, Registry!IsAdding
  <1>3. q \in Registry!Rests /\ q.step = "idle" /\ i \in Items /\ ts \in {{}} \cup {{k} : k \in Tokens}
    BY <1>2 DEF Registry!Adds, Registry!Rests
  <1> HIDE DEF q
  <1>4. /\ upc'[u] = q /\ \A v \in Users \ {u} : upc'[v] = upc[v]
        /\ upc' \in [Users -> Registry!Rests \cup Registry!Adds \cup Registry!Removes]
    BY <1>1, <1>3 DEF Registry!IInv, Registry!TypeOK
  <1>5. \A k \in ts : callback[k] = <<>> /\ \A v \in Users \ {u} : Registry!IsAdding(v) => k \notin upc[v].tokens
    BY <1>1 DEF Registry!IInv, Registry!AwaitedOK, Registry!IsAdding
  <1>6. i \notin failed => \A k \in Tokens : callback[k] # <<i>>
    BY <1>1 DEF Registry!IInv, Registry!TokenOK, Registry!Works, Registry!IsAdding, Registry!IsRemoving
  <1>7. i \notin failed => i \in items /\ \A v \in Users \ {u} : Registry!Works(v) => upc[v].item # i
    BY <1>1 DEF Registry!IInv, Registry!PlaceOK, Registry!AloneOK, Registry!Works, Registry!IsAdding
  <1>8. \A k \in Tokens : callback'[k] = <<>> \/ (k \in ts /\ callback'[k] = <<i>>) \/ (k \notin ts /\ callback'[k] = callback[k])
    BY <1>1
  <1>9. Registry!TypeOK'
    BY <1>1, <1>3, <1>4 DEF Registry!IInv, Registry!TypeOK
  <1>10. Registry!AloneOK'
    BY <1>1, <1>3, <1>4 DEF Registry!IInv, Registry!AloneOK, Registry!Works, Registry!IsAdding, Registry!IsRemoving
  <1>11. Registry!PlaceOK'
    BY <1>1, <1>3, <1>4 DEF Registry!IInv, Registry!PlaceOK, Registry!Works, Registry!IsAdding, Registry!IsRemoving
  <1>12. Registry!AwaitedOK'
    <2> SUFFICES ASSUME NEW v \in Users \ {u}, Registry!IsAdding(v), NEW k \in upc[v].tokens
                 PROVE  callback'[k] = <<>>
      BY <1>3, <1>4 DEF Registry!IInv, Registry!AwaitedOK, Registry!IsAdding
    <2>1. callback[k] = <<>> /\ k \notin ts
      BY <1>5 DEF Registry!IInv, Registry!AwaitedOK, Registry!IsAdding
    <2>2. k \in Tokens
      BY WhatItIsAt DEF Registry!IInv, Registry!Adds
    <2> QED BY <1>1, <2>1, <2>2
  <1>13. Registry!TokenOK'
    <2>1. ASSUME NEW v \in Users, Registry!IsRemoving(v)' PROVE callback'[upc'[v].token] = <<upc'[v].item>>
      <3>1. v # u /\ upc'[v] = upc[v] /\ Registry!IsRemoving(v)
        BY <1>3, <1>4, <2>1 DEF Registry!IsRemoving
      <3>2. upc[v].token \in Tokens /\ callback[upc[v].token] = <<upc[v].item>>
        BY <3>1, WhatItIsAt DEF Registry!IInv, Registry!TokenOK, Registry!Removes
      <3>3. upc[v].token \notin ts
        BY <1>5, <3>2
      <3> QED BY <1>1, <3>1, <3>2, <3>3
    <2>2. ASSUME NEW k \in Tokens, NEW l \in Tokens, callback'[k] # <<>>, callback'[k][1] \notin failed, k # l
          PROVE  callback'[l] # callback'[k]
      <3>1. k \in ts => l \notin ts
        BY <1>3, <2>2
      <3> QED BY <1>1, <1>6, <2>2, <3>1 DEF Registry!IInv, Registry!TokenOK
    <2>3. ASSUME NEW k \in Tokens, NEW v \in Users, Registry!Works(v)', Registry!Sound(v)', callback'[k] = <<upc'[v].item>>
          PROVE  Registry!IsRemoving(v)' /\ upc'[v].token = k
      <3>1. v # u /\ upc'[v] = upc[v] /\ Registry!Works(v)
        BY <1>3, <1>4, <2>3 DEF Registry!Works, Registry!IsAdding, Registry!IsRemoving
      <3>2. callback[k] = <<upc[v].item>>
        <4>1. callback'[k] = <<upc[v].item>> /\ upc[v].item # i
          BY <1>1, <1>7, <2>3, <3>1
        <4>2. callback'[k] # <<>> /\ callback'[k] # <<i>>
          BY <4>1
        <4> QED BY <1>8, <4>1, <4>2
      <3>3. Registry!IsRemoving(v) /\ upc[v].token = k
        <4>1. Registry!Sound(v)
          BY <1>1, <2>3, <3>1
        <4> QED BY <3>1, <3>2, <4>1 DEF Registry!IInv, Registry!TokenOK
      <3> QED BY <3>1, <3>3 DEF Registry!IsRemoving
    <2>4. ASSUME NEW v \in Users, NEW w \in Users, Registry!IsRemoving(v)', Registry!IsRemoving(w)', v # w
          PROVE  upc'[v].token # upc'[w].token
      BY <1>3, <1>4, <2>4 DEF Registry!IInv, Registry!TokenOK, Registry!IsRemoving
    <2> QED BY <1>1, <2>1, <2>2, <2>3, <2>4 DEF Registry!TokenOK
  <1>14. Registry!StandsOK'
    <2> SUFFICES ASSUME NEW k \in Tokens, callback'[k] # <<>>, callback'[k][1] \notin failed
                 PROVE  callback'[k][1] \in items' \/ \E v \in Users : Registry!Spends(v, k)'
      BY <1>1 DEF Registry!StandsOK
    <2>1. CASE k \in ts
      BY <1>1, <1>7, <2>1
    <2>2. CASE k \notin ts
      <3>1. callback'[k] = callback[k]
        BY <1>1, <2>2
      <3>2. ASSUME NEW v \in Users, Registry!Spends(v, k) PROVE Registry!Spends(v, k)'
        BY <1>1, <1>4, <3>2 DEF Registry!Spends
      <3> QED BY <1>1, <3>1, <3>2 DEF Registry!IInv, Registry!StandsOK
    <2> QED BY <2>1, <2>2
  <1>15. Registry!ListenersKnow'
    BY <1>1, <1>3, <1>4, <1>7 DEF Registry!IInv, Registry!ListenersKnow
  <1> QED BY <1>9, <1>10, <1>11, <1>12, <1>13, <1>14, <1>15 DEF Registry!IInv

(* A token that is reset stands for an item nobody else works on,             *)
LEMMA TokenResetStep == ASSUME NEW u \in Users, NEW k \in Tokens PROVE Registry!IInv /\ Registry!TokenReset(u, k) => Registry!IInv'
  <1> SUFFICES ASSUME Registry!IInv, Registry!TokenReset(u, k) PROVE Registry!IInv'
    OBVIOUS
  <1> USE DEF Registry!Sound, Registry!Telling
  <1> DEFINE i == callback[k][1]
             q == [step |-> "erase", item |-> i, token |-> k]
  <1>1. /\ upc' = [upc EXCEPT ![u] = q] /\ upc[u].step = "idle" /\ callback[k] # <<>> /\ ~Registry!Resetting(k)
        /\ UNCHANGED <<items, readers, raising, callback, heard, failed>>
    BY DEF Registry!TokenReset, Registry!Goes, Registry!At
  <1>2. callback[k] = <<i>> /\ i \in Items
    BY <1>1 DEF Registry!IInv, Registry!TypeOK
  <1>3. q \in Registry!Removes /\ q.step = "erase" /\ q.item = i /\ q.token = k
    BY <1>2 DEF Registry!Removes
  <1> HIDE DEF q
  <1>4. /\ upc'[u] = q /\ \A v \in Users \ {u} : upc'[v] = upc[v]
        /\ upc' \in [Users -> Registry!Rests \cup Registry!Adds \cup Registry!Removes]
    BY <1>1, <1>3 DEF Registry!IInv, Registry!TypeOK
  <1>5. \A v \in Users : Registry!IsRemoving(v) => upc[v].token # k
    BY <1>1 DEF Registry!Resetting, Registry!IsRemoving
  <1>6. i \notin failed => \A v \in Users : Registry!Works(v) => upc[v].item # i
    BY <1>2, <1>5 DEF Registry!IInv, Registry!TokenOK
  <1>7. i \notin failed => i \in items
    BY <1>1, <1>5 DEF Registry!IInv, Registry!StandsOK, Registry!Spends, Registry!IsRemoving
  <1> HIDE DEF i
  <1>8. Registry!TypeOK'
    BY <1>1, <1>3, <1>4 DEF Registry!IInv, Registry!TypeOK
  <1>9. Registry!AloneOK'
    BY <1>1, <1>3, <1>4, <1>6 DEF Registry!IInv, Registry!AloneOK, Registry!Works, Registry!IsAdding, Registry!IsRemoving
  <1>10. Registry!PlaceOK'
    BY <1>1, <1>3, <1>4, <1>7 DEF Registry!IInv, Registry!PlaceOK, Registry!Works, Registry!IsAdding, Registry!IsRemoving
  <1>11. Registry!AwaitedOK'
    BY <1>1, <1>3, <1>4 DEF Registry!IInv, Registry!AwaitedOK, Registry!IsAdding
  <1>12. Registry!TokenOK'
    <2>1. ASSUME NEW v \in Users \ {u}
          PROVE  /\ Registry!Works(v)' <=> Registry!Works(v)
                 /\ Registry!IsRemoving(v)' <=> Registry!IsRemoving(v)
      BY <1>4 DEF Registry!Works, Registry!IsAdding, Registry!IsRemoving
    <2>2. Registry!IsRemoving(u)'
      BY <1>3, <1>4 DEF Registry!IsRemoving
    <2>3. ASSUME NEW v \in Users, Registry!IsRemoving(v)' PROVE callback'[upc'[v].token] = <<upc'[v].item>>
      <3>1. CASE v = u
        BY <1>1, <1>2, <1>3, <1>4, <3>1
      <3>2. CASE v # u
        BY <1>1, <1>4, <2>1, <2>3, <3>2 DEF Registry!IInv, Registry!TokenOK
      <3> QED BY <3>1, <3>2
    <2>4. ASSUME NEW l \in Tokens, NEW m \in Tokens, callback'[l] # <<>>, callback'[l][1] \notin failed, l # m
          PROVE  callback'[m] # callback'[l]
      BY <1>1, <2>4 DEF Registry!IInv, Registry!TokenOK
    <2>5. ASSUME NEW l \in Tokens, NEW v \in Users, Registry!Works(v)', Registry!Sound(v)', callback'[l] = <<upc'[v].item>>
          PROVE  Registry!IsRemoving(v)' /\ upc'[v].token = l
      <3>1. CASE v = u
        <4>1. callback[l] = callback[k]
          BY <1>1, <1>2, <1>3, <1>4, <2>5, <3>1
        <4>2. callback[k][1] \notin failed
          BY <1>1, <1>2, <1>3, <1>4, <2>5, <3>1
        <4>3. l = k
          BY <1>1, <4>1, <4>2 DEF Registry!IInv, Registry!TokenOK
        <4> QED BY <1>3, <1>4, <2>2, <3>1, <4>3
      <3>2. CASE v # u
        <4>1. Registry!Works(v) /\ Registry!Sound(v) /\ callback[l] = <<upc[v].item>>
          BY <1>1, <1>4, <2>1, <2>5, <3>2
        <4>2. Registry!IsRemoving(v) /\ upc[v].token = l
          BY <4>1 DEF Registry!IInv, Registry!TokenOK
        <4> QED BY <1>4, <2>1, <3>2, <4>2
      <3> QED BY <3>1, <3>2
    <2>6. ASSUME NEW v \in Users, NEW w \in Users, Registry!IsRemoving(v)', Registry!IsRemoving(w)', v # w
          PROVE  upc'[v].token # upc'[w].token
      BY <1>3, <1>4, <1>5, <2>1, <2>6 DEF Registry!IInv, Registry!TokenOK
    <2> QED BY <1>1, <2>3, <2>4, <2>5, <2>6 DEF Registry!TokenOK
  <1>13. Registry!StandsOK'
    BY <1>1, <1>3, <1>4 DEF Registry!IInv, Registry!StandsOK, Registry!Spends
  <1>14. Registry!ListenersKnow'
    BY <1>1, <1>3, <1>4 DEF Registry!IInv, Registry!ListenersKnow
  <1> QED BY <1>8, <1>9, <1>10, <1>11, <1>12, <1>13, <1>14 DEF Registry!IInv

(* which it erases,                                                           *)
LEMMA EraseStep == ASSUME NEW u \in Users PROVE Registry!IInv /\ Registry!Erase(u) => Registry!IInv'
  <1> SUFFICES ASSUME Registry!IInv, Registry!Erase(u) PROVE Registry!IInv'
    OBVIOUS
  <1> USE DEF Registry!Sound, Registry!Telling
  <1> DEFINE q == [upc[u] EXCEPT !.step = "removed"]
             i == upc[u].item
  <1>1. /\ upc' = [upc EXCEPT ![u] = q] /\ items' = items \ {i} /\ upc[u].step = "erase"
        /\ UNCHANGED <<readers, raising, callback, heard, failed>>
    BY DEF Registry!Erase, Registry!Goes, Registry!At
  <1>2. upc[u] \in Registry!Removes
    BY <1>1, WhatItIsAt DEF Registry!IInv, Registry!IsRemoving
  <1>3. q \in Registry!Removes /\ q.step = "removed" /\ q.item = i /\ q.token = upc[u].token /\ i \in Items
    BY <1>2, RemoveGoes DEF Registry!Removes
  <1> HIDE DEF q
  <1>4. /\ upc'[u] = q /\ \A v \in Users \ {u} : upc'[v] = upc[v]
        /\ upc' \in [Users -> Registry!Rests \cup Registry!Adds \cup Registry!Removes]
    BY <1>1, <1>3 DEF Registry!IInv, Registry!TypeOK
  <1>5. Registry!TypeOK'
    BY <1>1, <1>3, <1>4 DEF Registry!IInv, Registry!TypeOK
  <1>6. Registry!AloneOK'
    BY <1>1, <1>3, <1>4 DEF Registry!IInv, Registry!AloneOK, Registry!Works, Registry!IsAdding, Registry!IsRemoving
  <1>7. Registry!PlaceOK'
    BY <1>1, <1>3, <1>4 DEF Registry!IInv, Registry!PlaceOK, Registry!Works, Registry!IsAdding, Registry!IsRemoving, Registry!AloneOK
  <1>8. Registry!AwaitedOK'
    BY <1>1, <1>3, <1>4 DEF Registry!IInv, Registry!AwaitedOK, Registry!IsAdding
  <1>9. Registry!TokenOK'
    <2>1. ASSUME NEW v \in Users
          PROVE  Registry!Works(v)' => /\ Registry!Works(v) /\ upc'[v].item = upc[v].item
                                       /\ Registry!IsRemoving(v)' <=> Registry!IsRemoving(v)
                                       /\ Registry!IsRemoving(v) => upc'[v].token = upc[v].token
      BY <1>1, <1>3, <1>4 DEF Registry!Works, Registry!IsAdding, Registry!IsRemoving
    <2> QED BY <1>1, <2>1, TokensUntouched DEF Registry!IInv
  <1>10. Registry!StandsOK'
    <2> SUFFICES ASSUME NEW k \in Tokens, callback[k] # <<>>, callback[k][1] \notin failed
                 PROVE  callback[k][1] \in items' \/ \E v \in Users : Registry!Spends(v, k)'
      BY <1>1 DEF Registry!StandsOK
    <2>1. CASE callback[k] = <<i>>
      <3>1. upc[u].token = k
        BY <1>1, <2>1 DEF Registry!IInv, Registry!TokenOK, Registry!Works, Registry!IsRemoving
      <3> QED BY <1>3, <1>4, <3>1 DEF Registry!Spends
    <2>2. CASE callback[k] # <<i>>
      <3>1. callback[k][1] # i
        BY <2>2 DEF Registry!IInv, Registry!TypeOK
      <3>2. ASSUME NEW v \in Users, Registry!Spends(v, k) PROVE Registry!Spends(v, k)'
        BY <1>1, <1>4, <3>2 DEF Registry!Spends
      <3> QED BY <1>1, <3>1, <3>2 DEF Registry!IInv, Registry!StandsOK
    <2> QED BY <2>1, <2>2
  <1>11. Registry!ListenersKnow'
    BY <1>1, <1>3, <1>4 DEF Registry!IInv, Registry!ListenersKnow
  <1> QED BY <1>5, <1>6, <1>7, <1>8, <1>9, <1>10, <1>11 DEF Registry!IInv

(* and who listens hears of it when it is gone.                               *)
LEMMA RaiseRemovedStep == ASSUME NEW u \in Users PROVE Registry!IInv /\ Registry!RaiseRemoved(u) => Registry!IInv'
  <1> SUFFICES ASSUME Registry!IInv, Registry!RaiseRemoved(u) PROVE Registry!IInv'
    OBVIOUS
  <1> USE DEF Registry!Sound, Registry!Telling
  <1> DEFINE q == [upc[u] EXCEPT !.step = "heard"]
             i == upc[u].item
  <1>1. /\ upc' = [upc EXCEPT ![u] = q] /\ heard' \in {heard, heard \ {i}} /\ upc[u].step = "removed"
        /\ UNCHANGED <<items, readers, callback, failed>> /\ raising' = [raising EXCEPT !["item_removed"] = u]
    BY DEF Registry!RaiseRemoved, Registry!Goes, Registry!At
  <1>2. upc[u] \in Registry!Removes
    BY <1>1, WhatItIsAt DEF Registry!IInv, Registry!IsRemoving
  <1>3. q \in Registry!Removes /\ q.step = "heard" /\ q.item = i /\ q.token = upc[u].token /\ i \in Items
    BY <1>2, RemoveGoes DEF Registry!Removes
  <1> HIDE DEF q
  <1>4. /\ upc'[u] = q /\ \A v \in Users \ {u} : upc'[v] = upc[v]
        /\ upc' \in [Users -> Registry!Rests \cup Registry!Adds \cup Registry!Removes]
    BY <1>1, <1>3 DEF Registry!IInv, Registry!TypeOK
  <1>5. Registry!TypeOK'
    BY <1>1, <1>3, <1>4 DEF Registry!IInv, Registry!TypeOK
  <1>6. Registry!AloneOK'
    BY <1>1, <1>3, <1>4 DEF Registry!IInv, Registry!AloneOK, Registry!Works, Registry!IsAdding, Registry!IsRemoving
  <1>7. Registry!PlaceOK'
    BY <1>1, <1>3, <1>4 DEF Registry!IInv, Registry!PlaceOK, Registry!Works, Registry!IsAdding, Registry!IsRemoving
  <1>8. Registry!AwaitedOK'
    BY <1>1, <1>3, <1>4 DEF Registry!IInv, Registry!AwaitedOK, Registry!IsAdding
  <1>9. Registry!TokenOK'
    <2>1. ASSUME NEW v \in Users
          PROVE  Registry!Works(v)' => /\ Registry!Works(v) /\ upc'[v].item = upc[v].item
                                       /\ Registry!IsRemoving(v)' <=> Registry!IsRemoving(v)
                                       /\ Registry!IsRemoving(v) => upc'[v].token = upc[v].token
      BY <1>1, <1>3, <1>4 DEF Registry!Works, Registry!IsAdding, Registry!IsRemoving
    <2> QED BY <1>1, <2>1, TokensUntouched DEF Registry!IInv
  <1>10. Registry!StandsOK'
    <2>1. ASSUME NEW v \in Users, NEW k \in Tokens, Registry!Spends(v, k) PROVE Registry!Spends(v, k)'
      BY <1>3, <1>4, <2>1 DEF Registry!Spends
    <2> QED BY <1>1, <2>1 DEF Registry!IInv, Registry!StandsOK
  <1>11. Registry!ListenersKnow'
    BY <1>1, <1>3, <1>4 DEF Registry!IInv, Registry!ListenersKnow, Registry!PlaceOK
  <1> QED BY <1>5, <1>6, <1>7, <1>8, <1>9, <1>10, <1>11 DEF Registry!IInv

(* The token is spent.                                                        *)
LEMMA EndRemovedStep == ASSUME NEW u \in Users PROVE Registry!IInv /\ Registry!EndRemoved(u) => Registry!IInv'
  <1> SUFFICES ASSUME Registry!IInv, Registry!EndRemoved(u) PROVE Registry!IInv'
    OBVIOUS
  <1> USE DEF Registry!Sound, Registry!Telling
  <1> DEFINE q == [step |-> "idle"]
             k == upc[u].token
  <1>1. /\ upc' = [upc EXCEPT ![u] = q] /\ upc[u].step = "heard" /\ callback' = [callback EXCEPT ![k] = <<>>]
        /\ UNCHANGED <<items, readers, failed>> /\ heard' = heard \ {upc[u].item} /\ raising' = [raising EXCEPT !["item_removed"] = Nobody]
    BY DEF Registry!EndRemoved, Registry!Goes, Registry!At, Registry!Idle
  <1>2. upc[u] \in Registry!Removes
    BY <1>1, WhatItIsAt DEF Registry!IInv, Registry!IsRemoving
  <1>3. q \in Registry!Rests /\ q.step = "idle" /\ k \in Tokens
    BY <1>2 DEF Registry!Removes, Registry!Rests
  <1> HIDE DEF q
  <1>4. /\ upc'[u] = q /\ \A v \in Users \ {u} : upc'[v] = upc[v]
        /\ upc' \in [Users -> Registry!Rests \cup Registry!Adds \cup Registry!Removes]
    BY <1>1, <1>3 DEF Registry!IInv, Registry!TypeOK
  <1>5. callback'[k] = <<>> /\ \A l \in Tokens \ {k} : callback'[l] = callback[l]
    BY <1>1, <1>3 DEF Registry!IInv, Registry!TypeOK
  <1>6. \A v \in Users \ {u} : Registry!IsRemoving(v) => upc[v].token # k /\ upc[v].token \in Tokens
    <2> SUFFICES ASSUME NEW v \in Users \ {u}, Registry!IsRemoving(v) PROVE upc[v].token # k /\ upc[v].token \in Tokens
      OBVIOUS
    <2>1. upc[v].token # k
      BY <1>1 DEF Registry!IInv, Registry!TokenOK, Registry!IsRemoving
    <2>2. upc[v].token \in Tokens
      BY WhatItIsAt DEF Registry!IInv, Registry!Removes
    <2> QED BY <2>1, <2>2
  <1> HIDE DEF k
  <1>7. Registry!TypeOK'
    BY <1>1, <1>3, <1>4 DEF Registry!IInv, Registry!TypeOK
  <1>8. Registry!AloneOK'
    BY <1>1, <1>3, <1>4 DEF Registry!IInv, Registry!AloneOK, Registry!Works, Registry!IsAdding, Registry!IsRemoving
  <1>9. Registry!PlaceOK'
    BY <1>1, <1>3, <1>4 DEF Registry!IInv, Registry!PlaceOK, Registry!Works, Registry!IsAdding, Registry!IsRemoving
  <1>10. Registry!AwaitedOK'
    <2> SUFFICES ASSUME NEW v \in Users \ {u}, Registry!IsAdding(v), NEW l \in upc[v].tokens PROVE callback'[l] = <<>>
      BY <1>3, <1>4 DEF Registry!IInv, Registry!AwaitedOK, Registry!IsAdding
    <2>1. callback[l] = <<>> /\ l \in Tokens
      BY WhatItIsAt DEF Registry!IInv, Registry!AwaitedOK, Registry!IsAdding, Registry!Adds
    <2> QED BY <1>5, <2>1
  <1>11. Registry!TokenOK'
    <2>1. ASSUME NEW v \in Users, Registry!IsRemoving(v)' PROVE callback'[upc'[v].token] = <<upc'[v].item>>
      <3>1. v # u /\ upc'[v] = upc[v] /\ Registry!IsRemoving(v)
        BY <1>3, <1>4, <2>1 DEF Registry!IsRemoving
      <3> QED BY <1>5, <1>6, <3>1 DEF Registry!IInv, Registry!TokenOK
    <2>2. ASSUME NEW l \in Tokens, NEW m \in Tokens, callback'[l] # <<>>, callback'[l][1] \notin failed, l # m
          PROVE  callback'[m] # callback'[l]
      BY <1>5, <2>2 DEF Registry!IInv, Registry!TokenOK
    <2>3. ASSUME NEW l \in Tokens, NEW v \in Users, Registry!Works(v)', Registry!Sound(v)', callback'[l] = <<upc'[v].item>>
          PROVE  Registry!IsRemoving(v)' /\ upc'[v].token = l
      <3>1. v # u /\ upc'[v] = upc[v] /\ Registry!Works(v)
        BY <1>3, <1>4, <2>3 DEF Registry!Works, Registry!IsAdding, Registry!IsRemoving
      <3>2. callback[l] = <<upc[v].item>>
        <4>1. callback'[l] = <<upc[v].item>> /\ callback'[l] # <<>>
          BY <2>3, <3>1
        <4> QED BY <1>5, <4>1
      <3>3. Registry!IsRemoving(v) /\ upc[v].token = l
        <4>1. Registry!Sound(v)
          BY <1>1, <2>3, <3>1
        <4> QED BY <3>1, <3>2, <4>1 DEF Registry!IInv, Registry!TokenOK
      <3> QED BY <3>1, <3>3 DEF Registry!IsRemoving
    <2>4. ASSUME NEW v \in Users, NEW w \in Users, Registry!IsRemoving(v)', Registry!IsRemoving(w)', v # w
          PROVE  upc'[v].token # upc'[w].token
      BY <1>3, <1>4, <2>4 DEF Registry!IInv, Registry!TokenOK, Registry!IsRemoving
    <2> QED BY <1>1, <2>1, <2>2, <2>3, <2>4 DEF Registry!TokenOK
  <1>12. Registry!StandsOK'
    <2> SUFFICES ASSUME NEW l \in Tokens \ {k}, callback[l] # <<>>, callback[l][1] \notin failed
                 PROVE  callback[l][1] \in items \/ \E v \in Users : Registry!Spends(v, l)'
      BY <1>1, <1>5 DEF Registry!StandsOK
    <2>1. ASSUME NEW v \in Users, Registry!Spends(v, l) PROVE Registry!Spends(v, l)'
      <3>1. v # u
        BY <2>1 DEF Registry!Spends, k
      <3> QED BY <1>4, <2>1, <3>1 DEF Registry!Spends
    <2> QED BY <2>1 DEF Registry!IInv, Registry!StandsOK
  <1>13. Registry!ListenersKnow'
    BY <1>1, <1>3, <1>4 DEF Registry!IInv, Registry!ListenersKnow, Registry!PlaceOK
  <1> QED BY <1>7, <1>8, <1>9, <1>10, <1>11, <1>12, <1>13 DEF Registry!IInv

(* A handler that throws ends the call: the thread works on nothing, and its  *)
(* item is no longer vouched for.                                             *)
LEMMA ThrowStep ==
  ASSUME NEW u \in Users, Registry!IInv, Registry!Works(u), upc[u].item \in Items,
         upc' = [upc EXCEPT ![u] = Registry!Idle], failed' = failed \cup {upc[u].item},
         UNCHANGED <<items, readers, callback, heard>>, raising' \in [Registry!Events -> Users \cup {Nobody}]
  PROVE  Registry!IInv'
  <1> USE DEF Registry!Sound, Registry!Telling
  <1>1. /\ upc'[u].step = "idle" /\ \A v \in Users \ {u} : upc'[v] = upc[v]
        /\ upc' \in [Users -> Registry!Rests \cup Registry!Adds \cup Registry!Removes]
    BY DEF Registry!IInv, Registry!TypeOK, Registry!Idle, Registry!Rests
  <1>2. Registry!TypeOK'
    BY <1>1 DEF Registry!IInv, Registry!TypeOK
  <1>3. Registry!AloneOK'
    BY <1>1 DEF Registry!IInv, Registry!AloneOK, Registry!Works, Registry!IsAdding, Registry!IsRemoving
  <1>4. Registry!PlaceOK'
    BY <1>1 DEF Registry!IInv, Registry!PlaceOK
  <1>5. Registry!AwaitedOK'
    BY <1>1 DEF Registry!IInv, Registry!AwaitedOK, Registry!IsAdding
  <1>6. Registry!TokenOK'
    <2>1. ASSUME NEW v \in Users
          PROVE  Registry!Works(v)' => /\ Registry!Works(v) /\ upc'[v].item = upc[v].item
                                       /\ Registry!IsRemoving(v)' <=> Registry!IsRemoving(v)
                                       /\ Registry!IsRemoving(v) => upc'[v].token = upc[v].token
      BY <1>1 DEF Registry!Works, Registry!IsAdding, Registry!IsRemoving
    <2> QED BY <2>1, TokensUntouched DEF Registry!IInv
  <1>7. Registry!StandsOK'
    <2> SUFFICES ASSUME NEW k \in Tokens, callback[k] # <<>>, callback[k][1] \notin failed, callback[k][1] # upc[u].item
                 PROVE  callback[k][1] \in items \/ \E v \in Users : Registry!Spends(v, k)'
      BY DEF Registry!StandsOK
    <2>1. ASSUME NEW v \in Users, Registry!Spends(v, k) PROVE Registry!Spends(v, k)'
      <3>1. callback[k] = <<upc[v].item>>
        BY <2>1 DEF Registry!Spends, Registry!IInv, Registry!TokenOK, Registry!IsRemoving
      <3>2. v # u
        BY <3>1
      <3> QED BY <1>1, <2>1, <3>2 DEF Registry!Spends
    <2> QED BY <2>1 DEF Registry!IInv, Registry!StandsOK
  <1>8. Registry!ListenersKnow'
    BY <1>1 DEF Registry!IInv, Registry!ListenersKnow
  <1> QED BY <1>2, <1>3, <1>4, <1>5, <1>6, <1>7, <1>8 DEF Registry!IInv

LEMMA AddedThrowsStep == ASSUME NEW u \in Users PROVE Registry!IInv /\ Registry!AddedThrows(u) => Registry!IInv'
  <1> SUFFICES ASSUME Registry!IInv, Registry!AddedThrows(u) PROVE Registry!IInv'
    OBVIOUS
  <1>1. Registry!Works(u) /\ upc[u].item \in Items
    BY WhatItIsAt DEF Registry!AddedThrows, Registry!At, Registry!Works, Registry!IsAdding, Registry!IInv, Registry!Adds
  <1>2. /\ upc' = [upc EXCEPT ![u] = Registry!Idle] /\ failed' = failed \cup {upc[u].item}
        /\ UNCHANGED <<items, readers, callback, heard>> /\ raising' \in [Registry!Events -> Users \cup {Nobody}]
    BY DEF Registry!AddedThrows, Registry!Goes, Registry!IInv, Registry!TypeOK, Registry!Events
  <1> QED BY <1>1, <1>2, ThrowStep

LEMMA RemovedThrowsStep == ASSUME NEW u \in Users PROVE Registry!IInv /\ Registry!RemovedThrows(u) => Registry!IInv'
  <1> SUFFICES ASSUME Registry!IInv, Registry!RemovedThrows(u) PROVE Registry!IInv'
    OBVIOUS
  <1>1. Registry!Works(u) /\ upc[u].item \in Items
    BY WhatItIsAt DEF Registry!RemovedThrows, Registry!At, Registry!Works, Registry!IsRemoving, Registry!IInv, Registry!Removes
  <1>2. /\ upc' = [upc EXCEPT ![u] = Registry!Idle] /\ failed' = failed \cup {upc[u].item}
        /\ UNCHANGED <<items, readers, callback, heard>> /\ raising' \in [Registry!Events -> Users \cup {Nobody}]
    BY DEF Registry!RemovedThrows, Registry!Goes, Registry!IInv, Registry!TypeOK, Registry!Events
  <1> QED BY <1>1, <1>2, ThrowStep

(* A token that is moved stands for the same item.                            *)
LEMMA MoveTokenStep == ASSUME NEW k \in Tokens, NEW l \in Tokens PROVE Registry!IInv /\ Registry!MoveToken(k, l) => Registry!IInv'
  <1> SUFFICES ASSUME Registry!IInv, Registry!MoveToken(k, l) PROVE Registry!IInv'
    OBVIOUS
  <1> USE DEF Registry!Sound, Registry!Telling
  <1>1. /\ callback' = [callback EXCEPT ![k] = callback[l], ![l] = <<>>]
        /\ callback[k] = <<>> /\ callback[l] # <<>> /\ ~Registry!Resetting(k) /\ ~Registry!Resetting(l) /\ ~Registry!Awaited(k)
        /\ UNCHANGED <<items, readers, upc, raising, heard, failed>>
    BY DEF Registry!MoveToken
  <1>2. k # l /\ callback'[k] = callback[l] /\ callback'[l] = <<>> /\ \A m \in Tokens \ {k, l} : callback'[m] = callback[m]
    BY <1>1 DEF Registry!IInv, Registry!TypeOK
  <1>3. \A v \in Users : Registry!IsRemoving(v) => upc[v].token \in Tokens \ {k, l}
    BY <1>1, WhatItIsAt DEF Registry!Resetting, Registry!IsRemoving, Registry!IInv, Registry!Removes
  <1>4. \A v \in Users : Registry!Works(v) /\ Registry!Sound(v) => callback[l] # <<upc[v].item>>
    BY <1>3 DEF Registry!IInv, Registry!TokenOK
  <1>5. Registry!TypeOK'
    BY <1>1, <1>2, <1>3 DEF Registry!IInv, Registry!TypeOK
  <1>6. Registry!AloneOK'
    BY <1>1, <1>2, <1>3 DEF Registry!IInv, Registry!AloneOK, Registry!Works, Registry!IsAdding, Registry!IsRemoving
  <1>7. Registry!PlaceOK'
    BY <1>1, <1>2, <1>3 DEF Registry!IInv, Registry!PlaceOK, Registry!Works, Registry!IsAdding, Registry!IsRemoving
  <1>8. Registry!AwaitedOK'
    <2> SUFFICES ASSUME NEW v \in Users, Registry!IsAdding(v), NEW m \in upc[v].tokens PROVE callback'[m] = <<>>
      BY <1>1 DEF Registry!IInv, Registry!AwaitedOK, Registry!IsAdding
    <2>1. callback[m] = <<>> /\ m \in Tokens
      BY WhatItIsAt DEF Registry!IInv, Registry!AwaitedOK, Registry!IsAdding, Registry!Adds
    <2>2. m # k
      BY <1>1 DEF Registry!Awaited, Registry!IsAdding
    <2> QED BY <1>2, <2>1, <2>2
  <1>9. Registry!TokenOK'
    <2>1. ASSUME NEW v \in Users, Registry!IsRemoving(v) PROVE callback'[upc[v].token] = <<upc[v].item>>
      BY <1>2, <1>3, <2>1 DEF Registry!IInv, Registry!TokenOK
    <2>2. ASSUME NEW m \in Tokens, NEW n \in Tokens, callback'[m] # <<>>, callback'[m][1] \notin failed, m # n
          PROVE  callback'[n] # callback'[m]
      <3>1. CASE m = k
        <4>1. CASE n = l
          BY <1>2, <2>2, <4>1
        <4>2. CASE n # l
          <5>1. callback'[m] = callback[l] /\ callback'[n] = callback[n]
            BY <1>2, <2>2, <3>1, <4>2
          <5>2. callback[n] # callback[l]
            BY <1>1, <2>2, <4>2, <5>1 DEF Registry!IInv, Registry!TokenOK
          <5> QED BY <5>1, <5>2
        <4> QED BY <4>1, <4>2
      <3>2. CASE n = k
        <4>1. m \notin {k, l} /\ callback'[n] = callback[l] /\ callback'[m] = callback[m] /\ callback[l] # <<>>
          BY <1>1, <1>2, <2>2, <3>2
        <4>2. callback[m] # callback[l]
          BY <2>2, <4>1 DEF Registry!IInv, Registry!TokenOK
        <4> QED BY <4>1, <4>2
      <3>3. CASE m # k /\ n # k
        BY <1>2, <2>2, <3>3 DEF Registry!IInv, Registry!TokenOK
      <3> QED BY <3>1, <3>2, <3>3
    <2>3. ASSUME NEW m \in Tokens, NEW v \in Users, Registry!Works(v), Registry!Sound(v), callback'[m] = <<upc[v].item>>
          PROVE  Registry!IsRemoving(v) /\ upc[v].token = m
      <3>1. m \notin {k, l}
        <4>1. <<upc[v].item>> # <<>>
          OBVIOUS
        <4> QED BY <1>2, <1>4, <2>3, <4>1
      <3> QED BY <1>2, <2>3, <3>1 DEF Registry!IInv, Registry!TokenOK
    <2>4. upc' = upc
      BY <1>1
    <2>5. \A v \in Users : Registry!IsRemoving(v)' => callback'[upc'[v].token] = <<upc'[v].item>>
      BY <2>1, <2>4 DEF Registry!IsRemoving
    <2>6. ASSUME NEW m \in Tokens, NEW v \in Users, Registry!Works(v)', Registry!Sound(v)', callback'[m] = <<upc'[v].item>>
          PROVE  Registry!IsRemoving(v)' /\ upc'[v].token = m
      <3>1. Registry!Works(v) /\ Registry!Sound(v) /\ callback'[m] = <<upc[v].item>>
        BY <1>1, <2>4, <2>6 DEF Registry!Works, Registry!IsAdding, Registry!IsRemoving
      <3>2. Registry!IsRemoving(v) /\ upc[v].token = m
        BY <2>3, <3>1
      <3> QED BY <2>4, <3>2 DEF Registry!IsRemoving
    <2>7. \A v, w \in Users : Registry!IsRemoving(v)' /\ Registry!IsRemoving(w)' /\ v # w => upc'[v].token # upc'[w].token
      BY <2>4 DEF Registry!IInv, Registry!TokenOK, Registry!IsRemoving
    <2> QED BY <1>1, <2>2, <2>5, <2>6, <2>7 DEF Registry!TokenOK
  <1>10. Registry!StandsOK'
    <2> SUFFICES ASSUME NEW m \in Tokens, callback'[m] # <<>>, callback'[m][1] \notin failed
                 PROVE  callback'[m][1] \in items \/ \E v \in Users : Registry!Spends(v, m)
      BY <1>1 DEF Registry!StandsOK, Registry!Spends
    <2>1. CASE m = k
      BY <1>1, <1>2, <1>3, <2>1 DEF Registry!IInv, Registry!StandsOK, Registry!Spends, Registry!IsRemoving
    <2>2. CASE m # k
      BY <1>2, <2>2 DEF Registry!IInv, Registry!StandsOK, Registry!Spends
    <2> QED BY <2>1, <2>2
  <1>11. Registry!ListenersKnow'
    BY <1>1, <1>2, <1>3 DEF Registry!IInv, Registry!ListenersKnow
  <1> QED BY <1>5, <1>6, <1>7, <1>8, <1>9, <1>10, <1>11 DEF Registry!IInv

(* Who neither works on an item before nor after is of no concern.            *)
LEMMA RestChange ==
  ASSUME Registry!IInv, UNCHANGED <<items, raising, callback, heard, failed>>, readers' \subseteq Users,
         upc' \in [Users -> Registry!Rests \cup Registry!Adds \cup Registry!Removes],
         \A v \in Users : upc'[v] = upc[v] \/ (~Registry!Works(v) /\ ~Registry!Works(v)' /\ upc[v].step \in {"idle", "reading"} /\ upc'[v].step \in {"idle", "reading"})
  PROVE  Registry!IInv'
  <1> USE DEF Registry!Sound, Registry!Telling
  <1>1. Registry!TypeOK'
    BY DEF Registry!IInv, Registry!TypeOK
  <1>2. Registry!AloneOK'
    BY DEF Registry!IInv, Registry!AloneOK, Registry!Works, Registry!IsAdding, Registry!IsRemoving
  <1>3. Registry!PlaceOK'
    BY DEF Registry!IInv, Registry!PlaceOK, Registry!Works, Registry!IsAdding, Registry!IsRemoving
  <1>4. Registry!AwaitedOK'
    BY DEF Registry!IInv, Registry!AwaitedOK, Registry!IsAdding
  <1>5. Registry!TokenOK'
    <2>1. ASSUME NEW v \in Users
          PROVE  Registry!Works(v)' => /\ Registry!Works(v) /\ upc'[v].item = upc[v].item
                                       /\ Registry!IsRemoving(v)' <=> Registry!IsRemoving(v)
                                       /\ Registry!IsRemoving(v) => upc'[v].token = upc[v].token
      BY DEF Registry!Works, Registry!IsAdding, Registry!IsRemoving
    <2> QED BY <2>1, TokensUntouched DEF Registry!IInv
  <1>6. Registry!StandsOK'
    BY DEF Registry!IInv, Registry!StandsOK, Registry!Spends
  <1>7. Registry!ListenersKnow'
    BY DEF Registry!IInv, Registry!ListenersKnow
  <1> QED BY <1>1, <1>2, <1>3, <1>4, <1>5, <1>6, <1>7 DEF Registry!IInv

(* Snapshots change nothing but who reads.                                    *)
LEMMA SnapshotStep == ASSUME NEW u \in Users PROVE Registry!IInv /\ Registry!Snapshot(u) => Registry!IInv'
  <1> SUFFICES ASSUME Registry!IInv, Registry!Snapshot(u) PROVE Registry!IInv'
    OBVIOUS
  <1> USE DEF Registry!Sound, Registry!Telling
  <1> DEFINE q == [upc[u] EXCEPT !.step = IF @ = "idle" THEN "reading" ELSE @]
  <1>1. upc' = [upc EXCEPT ![u] = q] /\ UNCHANGED <<items, raising, callback, heard, failed>> /\ readers' \subseteq Users
    BY DEF Registry!Snapshot, Registry!Goes, Registry!IInv, Registry!TypeOK
  <1>2. CASE upc[u].step = "idle"
    <2>1. upc[u] \in Registry!Rests /\ q = [upc[u] EXCEPT !.step = "reading"]
      BY <1>2, WhatItIsAt DEF Registry!IInv
    <2>2. q \in Registry!Rests /\ q.step = "reading"
      BY <2>1, RestGoes
    <2> HIDE DEF q
    <2>3. /\ upc'[u] = q /\ \A v \in Users \ {u} : upc'[v] = upc[v]
          /\ upc' \in [Users -> Registry!Rests \cup Registry!Adds \cup Registry!Removes]
      BY <1>1, <2>2 DEF Registry!IInv, Registry!TypeOK
    <2>4. \A v \in Users : upc'[v] = upc[v] \/ (~Registry!Works(v) /\ ~Registry!Works(v)' /\ upc[v].step \in {"idle", "reading"} /\ upc'[v].step \in {"idle", "reading"})
      BY <1>2, <2>2, <2>3 DEF Registry!Works, Registry!IsAdding, Registry!IsRemoving
    <2> QED BY <1>1, <2>3, <2>4, RestChange
  <1>3. CASE upc[u].step # "idle"
    <2>1. upc' = upc
      <3>1. q = upc[u]
        BY <1>3, WhatItIsAt DEF Registry!IInv, Registry!Rests, Registry!Adds, Registry!Removes
      <3> HIDE DEF q
      <3> QED BY <1>1, <3>1 DEF Registry!IInv, Registry!TypeOK
    <2> QED BY <1>1, <2>1, RestChange DEF Registry!IInv, Registry!TypeOK
  <1> QED BY <1>2, <1>3

LEMMA EndSnapshotStep == ASSUME NEW u \in Users PROVE Registry!IInv /\ Registry!EndSnapshot(u) => Registry!IInv'
  <1> SUFFICES ASSUME Registry!IInv, Registry!EndSnapshot(u) PROVE Registry!IInv'
    OBVIOUS
  <1> USE DEF Registry!Sound, Registry!Telling
  <1> DEFINE q == [upc[u] EXCEPT !.step = IF @ = "reading" THEN "idle" ELSE @]
  <1>1. upc' = [upc EXCEPT ![u] = q] /\ UNCHANGED <<items, raising, callback, heard, failed>> /\ readers' \subseteq Users
    BY DEF Registry!EndSnapshot, Registry!Goes, Registry!IInv, Registry!TypeOK
  <1>2. CASE upc[u].step = "reading"
    <2>1. upc[u] \in Registry!Rests /\ q = [upc[u] EXCEPT !.step = "idle"]
      BY <1>2, WhatItIsAt DEF Registry!IInv
    <2>2. q \in Registry!Rests /\ q.step = "idle"
      BY <2>1, RestGoes
    <2> HIDE DEF q
    <2>3. /\ upc'[u] = q /\ \A v \in Users \ {u} : upc'[v] = upc[v]
          /\ upc' \in [Users -> Registry!Rests \cup Registry!Adds \cup Registry!Removes]
      BY <1>1, <2>2 DEF Registry!IInv, Registry!TypeOK
    <2>4. \A v \in Users : upc'[v] = upc[v] \/ (~Registry!Works(v) /\ ~Registry!Works(v)' /\ upc[v].step \in {"idle", "reading"} /\ upc'[v].step \in {"idle", "reading"})
      BY <1>2, <2>2, <2>3 DEF Registry!Works, Registry!IsAdding, Registry!IsRemoving
    <2> QED BY <1>1, <2>3, <2>4, RestChange
  <1>3. CASE upc[u].step # "reading"
    <2>1. upc' = upc
      <3>1. q = upc[u]
        BY <1>3, WhatItIsAt DEF Registry!IInv, Registry!Rests, Registry!Adds, Registry!Removes
      <3> HIDE DEF q
      <3> QED BY <1>1, <3>1 DEF Registry!IInv, Registry!TypeOK
    <2> QED BY <1>1, <2>1, RestChange DEF Registry!IInv, Registry!TypeOK
  <1> QED BY <1>2, <1>3

LEMMA RegistryNext == ASSUME Once PROVE Registry!IInv /\ [Registry!Next]_registryVars => Registry!IInv'
  <1> SUFFICES ASSUME Registry!IInv, [Registry!Next]_registryVars PROVE Registry!IInv'
    OBVIOUS
  <1>1. CASE UNCHANGED registryVars
    BY <1>1, RestChange DEF registryVars, Registry!IInv, Registry!TypeOK
  <1> QED
    BY <1>1, AddStep, EmplaceStep, RaiseAddedStep, EndAddedStep, TokenResetStep, EraseStep, RaiseRemovedStep,
       EndRemovedStep, AddedThrowsStep, RemovedThrowsStep, MoveTokenStep, SnapshotStep, EndSnapshotStep DEF Registry!Next

LEMMA RegistryPart == OwnersSpec => Registry!Init /\ [][Registry!Next]_registryVars
  <1>1. OwnersInit => Registry!Init
    BY DEF OwnersInit
  <1>2. [OwnersNext]_<<part, vars, clientVars, containerVars, registryVars, poolVars, pointerVars>>
          => [Registry!Next]_registryVars
    BY DEF OwnersNext, registryVars
  <1> QED BY <1>1, <1>2, PTL DEF OwnersSpec

LEMMA RegistryInvariant == ASSUME Once PROVE OwnersSpec => []Registry!IInv
  BY RegistryInit, RegistryNext, RegistryPart, PTL

(* What the tokens promise follows from what everybody at the registry is at. *)
LEMMA TokensStand == Registry!IInv => Registry!TokensRemove
  <1> SUFFICES ASSUME Registry!IInv, NEW k \in Tokens, callback[k] # <<>>, callback[k][1] \notin failed
               PROVE  \/ callback[k][1] \in items /\ \A l \in Tokens \ {k} : callback[l] # callback[k]
                      \/ \E u \in Users : upc[u].step \in {"removed", "heard"} /\ upc[u].token = k
    BY DEF Registry!TokensRemove
  <1>1. \A l \in Tokens \ {k} : callback[l] # callback[k]
    BY DEF Registry!IInv, Registry!TokenOK
  <1>2. callback[k][1] \in items \/ \E u \in Users : Registry!Spends(u, k)
    BY DEF Registry!IInv, Registry!StandsOK
  <1> QED BY <1>1, <1>2 DEF Registry!Spends

(* An item comes and goes only when nobody has a snapshot.                    *)
LEMMA StableStep ==
  [Registry!Next]_registryVars => [readers \cap readers' # {} => items' = items]_registryVars
  <1> SUFFICES ASSUME [Registry!Next]_registryVars, readers \cap readers' # {} PROVE items' = items
    OBVIOUS
  <1> USE DEF Registry!Next, registryVars, Registry!Add, Registry!Emplace, Registry!RaiseAdded, Registry!EndAdded,
              Registry!TokenReset, Registry!Erase, Registry!RaiseRemoved, Registry!EndRemoved, Registry!MoveToken,
              Registry!Snapshot, Registry!EndSnapshot, Registry!AddedThrows, Registry!RemovedThrows
  <1> QED OBVIOUS

(* A snapshot never changes under its reader: for every set of users, items   *)
(* and tokens, and whether or not a program adds an item twice.               *)
THEOREM SnapshotsKept == OwnersSpec => SnapshotsAreStable
  BY RegistryPart, StableStep, PTL DEF SnapshotsAreStable, Registry!SnapshotsAreStable, registryVars, Registry!registryVars

-----------------------------------------------------------------------------
(* What the operations on a queue leave of it.                                *)
LEMMA QueueAppend ==
  ASSUME NEW S, NEW s \in Seq(S), NEW x \in S, NEW t, t = Append(s, x)
  PROVE  /\ t \in Seq(S) /\ DOMAIN s = 1..Len(s) /\ DOMAIN t = 1..(Len(s) + 1) /\ Len(s) \in Nat
         /\ \A i \in 1..Len(s) : t[i] = s[i]
         /\ t[Len(s) + 1] = x
  BY AppendProperties, LenProperties

LEMMA QueueTail ==
  ASSUME NEW S, NEW s \in Seq(S), s # <<>>, NEW t, t = Tail(s)
  PROVE  /\ t \in Seq(S) /\ DOMAIN s = 1..Len(s) /\ DOMAIN t = 1..(Len(s) - 1) /\ Len(s) \in Nat \ {0}
         /\ \A i \in 1..(Len(s) - 1) : t[i] = s[i + 1]
  BY HeadTailProperties, LenProperties, EmptySeq

LEMMA QueueHead ==
  ASSUME NEW S, NEW s \in Seq(S), s # <<>>, NEW x \in S, NEW t, t = [s EXCEPT ![1] = x]
  PROVE  /\ t \in Seq(S) /\ DOMAIN s = 1..Len(s) /\ DOMAIN t = DOMAIN s /\ Len(s) \in Nat \ {0}
         /\ Head(s) = s[1] /\ s[1] \in S /\ t # <<>> /\ t[1] = x
         /\ \A i \in DOMAIN s \ {1} : t[i] = s[i]
  <1>1. Len(s) \in Nat \ {0} /\ DOMAIN s = 1..Len(s) /\ Head(s) = s[1] /\ s[1] \in S
    BY LenProperties, EmptySeq
  <1>2. t \in Seq(S) /\ Len(t) = Len(s)
    BY <1>1, ExceptSeq
  <1> QED BY <1>1, <1>2, LenProperties, EmptySeq

LEMMA QueueOf == ASSUME NEW s \in Seq(0..created), created \in Nat
                 PROVE  s \in Seq(0..(created + 1)) /\ DOMAIN s = 1..Len(s) /\ \A i \in DOMAIN s : s[i] \in 0..created
  OBVIOUS

(* Nobody has anything at first.                                              *)
LEMMA PoolInit == Pool!Init => Pool!IInv
  <1> SUFFICES ASSUME Pool!Init PROVE Pool!IInv
    OBVIOUS
  <1> USE DEF Pool!Init, Pool!Hollow
  <1>1. Pool!Borrowers = {} /\ objects = <<>> /\ DOMAIN objects = {}
    BY DEF Pool!Borrowers
  <1>2. Pool!TypeOK
    <2>1. objects \in Seq(0..created) /\ created \in 0..MaxObjects
      BY OwnersAssumption
    <2>2. borrowing \in [Pool!Borrowers -> 0..created]
      BY <1>1
    <2> QED BY <1>1, <2>1, <2>2 DEF Pool!TypeOK
  <1>3. Pool!ApartOK
    BY <1>1 DEF Pool!ApartOK, Pool!Differ
  <1>4. Pool!OwnedOK /\ Pool!LookOK /\ Pool!CarefulOK
    BY <1>1 DEF Pool!OwnedOK, Pool!LookOK, Pool!CarefulOK, Pool!Kept
  <1> QED BY <1>2, <1>3, <1>4 DEF Pool!IInv

LEMMA NotOwned == ASSUME Pool!IInv, NEW h \in Handles, ~owned[h] PROVE object[h] = 0
  BY DEF Pool!IInv, Pool!OwnedOK, Pool!Hollow

(* An object the factory makes is new.                                        *)
LEMMA BorrowNewStep == ASSUME NEW h \in Handles PROVE Pool!IInv /\ Pool!BorrowNew(h) => Pool!IInv'
  <1> SUFFICES ASSUME Pool!IInv, Pool!BorrowNew(h) PROVE Pool!IInv'
    OBVIOUS
  <1> DEFINE n == created + 1
  <1>1. /\ created \in Nat /\ n \in 1..MaxObjects /\ created' = n
        /\ objects = <<>> /\ DOMAIN objects = {} /\ UNCHANGED <<objects, looking, borrowing>> /\ UNCHANGED Pool!Borrowers
        /\ h \notin Pool!Borrowers /\ h \notin looking /\ ~owned[h]
        /\ owned' = [owned EXCEPT ![h] = TRUE] /\ object' = [object EXCEPT ![h] = n]
    BY OwnersAssumption DEF Pool!BorrowNew, Pool!IInv, Pool!TypeOK, Pool!Free, Pool!Borrowers
  <1>2. /\ owned'[h] /\ object'[h] = n
        /\ \A g \in Handles \ {h} : owned'[g] = owned[g] /\ object'[g] = object[g]
        /\ \A g \in Handles : object[g] \in 0..created
        /\ \A g \in Pool!Borrowers : borrowing[g] \in 0..created
    BY <1>1 DEF Pool!IInv, Pool!TypeOK, Pool!Hollow
  <1>3. Pool!TypeOK'
    <2>1. objects' \in Seq(0..created') /\ created' \in 0..MaxObjects
      BY <1>1, OwnersAssumption
    <2>2. object' \in [Handles -> 0..created']
      BY <1>1 DEF Pool!IInv, Pool!TypeOK, Pool!Hollow
    <2>3. borrowing \in [Pool!Borrowers -> 0..created']
      BY <1>1 DEF Pool!IInv, Pool!TypeOK, Pool!Hollow
    <2>4. owned' \in [Handles -> BOOLEAN] /\ Pool!Borrowers' \subseteq Handles /\ looking' \subseteq Handles
      BY <1>1 DEF Pool!IInv, Pool!TypeOK
    <2>5. use' \in {"careful", "careless", "undefined"}
      BY DEF Pool!BorrowNew, Pool!Alone, Pool!IInv, Pool!TypeOK
    <2> QED BY <1>1, <2>1, <2>2, <2>3, <2>4, <2>5 DEF Pool!TypeOK, Pool!Hollow
  <1>4. Pool!ApartOK'
    BY <1>1, <1>2 DEF Pool!IInv, Pool!ApartOK, Pool!Differ, Pool!Hollow
  <1>5. Pool!OwnedOK'
    BY <1>1, <1>2 DEF Pool!IInv, Pool!OwnedOK
  <1>6. Pool!CarefulOK'
    <2> SUFFICES ASSUME use' = "careful" PROVE Pool!CarefulOK'
      BY DEF Pool!CarefulOK
    <2>1. use = "careful" /\ Pool!Borrowers = {} /\ looking = {}
      BY DEF Pool!BorrowNew, Pool!Alone
    <2>2. \A g \in Handles : owned'[g] => object'[g] # 0
      BY <1>1, <1>2, <2>1 DEF Pool!IInv, Pool!CarefulOK, Pool!Hollow
    <2>3. ASSUME NEW m \in 1..created' PROVE Pool!Kept(m)'
      <3>1. CASE m = n
        BY <1>2, <3>1 DEF Pool!Kept
      <3>2. CASE m \in 1..created
        <4>1. PICK g \in Handles : object[g] = m
          BY <1>1, <2>1, <3>2 DEF Pool!IInv, Pool!CarefulOK, Pool!Kept
        <4>2. object[h] = 0 /\ m # 0
          <5>1. object[h] = 0
            BY <1>1, NotOwned
          <5> QED BY <3>2, <5>1
        <4> QED BY <1>2, <4>1, <4>2 DEF Pool!Kept
      <3> QED BY <1>1, <3>1, <3>2
    <2> QED BY <1>1, <2>1, <2>2, <2>3 DEF Pool!CarefulOK, Pool!Hollow
  <1>7. Pool!LookOK'
    <2>1. use' = "careful" => looking' = {}
      BY <1>1 DEF Pool!BorrowNew, Pool!Alone
    <2> QED BY <1>1, <1>2, <2>1 DEF Pool!IInv, Pool!LookOK, Pool!TypeOK
  <1> QED BY <1>3, <1>4, <1>5, <1>6, <1>7 DEF Pool!IInv

(* The first object goes to the borrower, and leaves a moved-from one.        *)
LEMMA BorrowFrontStep == ASSUME NEW h \in Handles PROVE Pool!IInv /\ Pool!BorrowFront(h) => Pool!IInv'
  <1> SUFFICES ASSUME Pool!IInv, Pool!BorrowFront(h) PROVE Pool!IInv'
    OBVIOUS
  <1> DEFINE n == objects[1]
  <1>1. /\ created \in Nat /\ UNCHANGED <<owned, object, created, use>> /\ h \notin Pool!Borrowers /\ ~owned[h]
        /\ Pool!Borrowers \subseteq Handles /\ object \in [Handles -> 0..created]
        /\ borrowing \in [Pool!Borrowers -> 0..created]
        /\ h \in Handles /\ h \in looking /\ looking' = looking \ {h} /\ looking \subseteq Handles
    BY OwnersAssumption DEF Pool!BorrowFront, Pool!IInv, Pool!TypeOK, Pool!LookOK, Pool!Hollow
  <1>2. /\ objects' \in Seq(0..created) /\ objects # <<>> /\ objects' # <<>> /\ Head(objects) = n /\ n \in 0..created
        /\ DOMAIN objects = 1..Len(objects) /\ Len(objects) \in Nat \ {0} /\ DOMAIN objects' = DOMAIN objects
        /\ objects'[1] = 0 /\ \A i \in DOMAIN objects \ {1} : objects'[i] = objects[i]
        /\ \A i \in DOMAIN objects : objects[i] \in 0..created
    <2>1. objects \in Seq(0..created) /\ objects # <<>> /\ objects' = [objects EXCEPT ![1] = 0] /\ 0 \in 0..created
      BY <1>1 DEF Pool!BorrowFront, Pool!IInv, Pool!TypeOK, Pool!Hollow
    <2> QED BY <1>1, <2>1, QueueHead, QueueOf
  <1>3. /\ Pool!Borrowers' = Pool!Borrowers \cup {h} /\ borrowing' \in [Pool!Borrowers' -> 0..created]
        /\ borrowing'[h] = n /\ \A g \in Pool!Borrowers : borrowing'[g] = borrowing[g]
    BY <1>1, <1>2 DEF Pool!BorrowFront, Pool!Borrowers
  <1> HIDE DEF n
  <1>4. Pool!TypeOK'
    <2>1. use' \in {"careful", "careless", "undefined"}
      BY DEF Pool!BorrowFront, Pool!IInv, Pool!TypeOK
    <2>2. owned' \in [Handles -> BOOLEAN]
      BY <1>1 DEF Pool!IInv, Pool!TypeOK
    <2>3. created' \in 0..MaxObjects
      BY <1>1 DEF Pool!IInv, Pool!TypeOK
    <2> QED BY <1>1, <1>2, <1>3, <2>1, <2>2, <2>3 DEF Pool!TypeOK, Pool!Hollow
  <1>5. Pool!ApartOK'
    <2>1. \A g \in Pool!Borrowers : Pool!Differ(n, borrowing[g])
      BY <1>2 DEF Pool!IInv, Pool!ApartOK, n
    <2>2. \A g \in Handles : Pool!Differ(n, object[g])
      BY <1>2 DEF Pool!IInv, Pool!ApartOK, n
    <2>3. \A i \in DOMAIN objects \ {1} : Pool!Differ(n, objects[i]) /\ Pool!Differ(objects[i], n)
      BY <1>2 DEF Pool!IInv, Pool!ApartOK, n, Pool!Differ
    <2>4. \A i, j \in DOMAIN objects : i # j => Pool!Differ(objects'[i], objects'[j])
      BY <1>2 DEF Pool!IInv, Pool!ApartOK, Pool!Differ, Pool!Hollow
    <2>5. \A f, g \in Pool!Borrowers' : f # g => Pool!Differ(borrowing'[f], borrowing'[g])
      BY <1>3, <2>1 DEF Pool!IInv, Pool!ApartOK, Pool!Differ
    <2>6. \A i \in DOMAIN objects : /\ \A g \in Pool!Borrowers' : Pool!Differ(objects'[i], borrowing'[g])
                                    /\ \A g \in Handles : Pool!Differ(objects'[i], object[g])
      BY <1>2, <1>3, <2>3 DEF Pool!IInv, Pool!ApartOK, Pool!Differ, Pool!Hollow
    <2>7. \A f \in Pool!Borrowers', g \in Handles : Pool!Differ(borrowing'[f], object[g])
      BY <1>3, <2>2 DEF Pool!IInv, Pool!ApartOK
    <2> QED BY <1>1, <1>2, <2>4, <2>5, <2>6, <2>7 DEF Pool!IInv, Pool!ApartOK, Pool!Differ, Pool!Hollow
  <1>6. Pool!OwnedOK'
    BY <1>1, <1>3 DEF Pool!IInv, Pool!OwnedOK
  <1>7. Pool!CarefulOK'
    <2> SUFFICES ASSUME use' = "careful" PROVE Pool!CarefulOK'
      BY DEF Pool!CarefulOK
    <2>1. use = "careful" /\ Pool!Borrowers = {}
      BY <1>1 DEF Pool!IInv, Pool!LookOK
    <2>2. n # 0 /\ \A i \in DOMAIN objects : objects[i] # 0
      BY <1>2, <2>1 DEF Pool!IInv, Pool!CarefulOK, Pool!Hollow, n
    <2>3. \A g \in Handles : owned'[g] => object'[g] # 0
      BY <1>1, <2>1 DEF Pool!IInv, Pool!CarefulOK, Pool!Hollow
    <2>4. ASSUME NEW m \in 1..created PROVE Pool!Kept(m)'
      <3>1. (\E i \in DOMAIN objects : objects[i] = m) \/ (\E g \in Handles : object[g] = m)
        BY <2>1, <2>4 DEF Pool!IInv, Pool!CarefulOK, Pool!Kept
      <3>2. CASE n = m
        BY <1>3, <3>2 DEF Pool!Kept
      <3>3. CASE n # m
        BY <1>1, <1>2, <3>1, <3>3 DEF Pool!Kept, n
      <3> QED BY <3>2, <3>3
    <2> QED BY <1>1, <1>2, <1>3, <2>1, <2>2, <2>3, <2>4 DEF Pool!CarefulOK, Pool!Hollow
  <1>8. Pool!LookOK'
    BY <1>1, <1>2, <1>3 DEF Pool!IInv, Pool!LookOK
  <1> QED BY <1>4, <1>5, <1>6, <1>7, <1>8 DEF Pool!IInv

(* pop() takes the first one away, which is the moved-from one with care.     *)
LEMMA BorrowPopStep == ASSUME NEW h \in Handles PROVE Pool!IInv /\ Pool!BorrowPop(h) => Pool!IInv'
  <1> SUFFICES ASSUME Pool!IInv, Pool!BorrowPop(h) PROVE Pool!IInv'
    OBVIOUS
  <1> DEFINE n == borrowing[h]
  <1>1. /\ created \in Nat /\ UNCHANGED <<looking, created, use>> /\ h \in Pool!Borrowers /\ ~owned[h]
        /\ Pool!Borrowers \subseteq Handles /\ object \in [Handles -> 0..created]
        /\ borrowing \in [Pool!Borrowers -> 0..created] /\ n \in 0..created
        /\ object' = [object EXCEPT ![h] = n] /\ owned' = [owned EXCEPT ![h] = TRUE]
    BY OwnersAssumption DEF Pool!BorrowPop, Pool!IInv, Pool!TypeOK, Pool!OwnedOK, Pool!Hollow
  <1>2. /\ objects' \in Seq(0..created) /\ DOMAIN objects = 1..Len(objects) /\ Len(objects) \in Nat \ {0}
        /\ DOMAIN objects' = 1..(Len(objects) - 1)
        /\ \A i \in DOMAIN objects' : objects'[i] = objects[i + 1] /\ i + 1 \in DOMAIN objects \ {1}
        /\ \A i \in DOMAIN objects \ {1} : \E j \in DOMAIN objects' : i = j + 1
        /\ \A i \in DOMAIN objects : objects[i] \in 0..created
    <2>1. objects \in Seq(0..created) /\ objects # <<>> /\ objects' = Tail(objects)
      BY <1>1 DEF Pool!BorrowPop, Pool!IInv, Pool!TypeOK, Pool!Hollow
    <2>2. /\ objects' \in Seq(0..created) /\ DOMAIN objects = 1..Len(objects) /\ Len(objects) \in Nat \ {0}
          /\ DOMAIN objects' = 1..(Len(objects) - 1)
          /\ \A i \in 1..(Len(objects) - 1) : objects'[i] = objects[i + 1]
      BY <2>1, QueueTail
    <2>3. ASSUME NEW i \in DOMAIN objects \ {1} PROVE \E j \in DOMAIN objects' : i = j + 1
      <3> DEFINE k == i - 1
      <3>1. k \in DOMAIN objects' /\ i = k + 1
        BY <2>2
      <3> HIDE DEF k
      <3> QED BY <3>1
    <2>4. \A i \in DOMAIN objects : objects[i] \in 0..created
      BY <1>1, <2>1, QueueOf
    <2>5. ASSUME NEW i \in DOMAIN objects' PROVE objects'[i] = objects[i + 1] /\ i + 1 \in DOMAIN objects \ {1}
      BY <2>2
    <2> QED BY <2>2, <2>3, <2>4, <2>5
  <1>3. /\ Pool!Borrowers' = Pool!Borrowers \ {h} /\ borrowing' \in [Pool!Borrowers' -> 0..created]
        /\ \A g \in Pool!Borrowers' : borrowing'[g] = borrowing[g]
    BY <1>1 DEF Pool!BorrowPop, Pool!Borrowers
  <1>4. /\ object'[h] = n /\ owned'[h] /\ object' \in [Handles -> 0..created] /\ owned' \in [Handles -> BOOLEAN]
        /\ \A g \in Handles \ {h} : owned'[g] = owned[g] /\ object'[g] = object[g]
    BY <1>1 DEF Pool!IInv, Pool!TypeOK
  <1> HIDE DEF n
  <1>5. Pool!TypeOK'
    <2>1. use' \in {"careful", "careless", "undefined"} /\ created' \in 0..MaxObjects /\ looking' \subseteq Handles
      BY <1>1 DEF Pool!IInv, Pool!TypeOK
    <2> QED BY <1>1, <1>2, <1>3, <1>4, <2>1 DEF Pool!TypeOK, Pool!Hollow
  <1>6. Pool!ApartOK'
    <2>1. \A i, j \in DOMAIN objects' : i # j => Pool!Differ(objects'[i], objects'[j])
      <3> SUFFICES ASSUME NEW i \in DOMAIN objects', NEW j \in DOMAIN objects', i # j
                   PROVE  Pool!Differ(objects'[i], objects'[j])
        OBVIOUS
      <3>1. i + 1 # j + 1 /\ i + 1 \in DOMAIN objects /\ j + 1 \in DOMAIN objects
        BY <1>2
      <3> QED BY <1>2, <3>1 DEF Pool!IInv, Pool!ApartOK
    <2>2. /\ \A g \in Pool!Borrowers' : Pool!Differ(borrowing[g], n)
          /\ \A g \in Handles : Pool!Differ(n, object[g]) /\ Pool!Differ(object[g], n)
          /\ \A i \in DOMAIN objects : Pool!Differ(objects[i], n)
      BY <1>1, <1>3 DEF Pool!IInv, Pool!ApartOK, Pool!Differ, n
    <2>3. \A i \in DOMAIN objects' : /\ \A g \in Pool!Borrowers' : Pool!Differ(objects'[i], borrowing'[g])
                                     /\ \A g \in Handles : Pool!Differ(objects'[i], object'[g])
      BY <1>1, <1>2, <1>3, <1>4, <2>2 DEF Pool!IInv, Pool!ApartOK
    <2>4. \A g, k \in Handles : g # k => Pool!Differ(object'[g], object'[k])
      BY <1>4, <2>2 DEF Pool!IInv, Pool!ApartOK
    <2>5. \A g \in Pool!Borrowers', k \in Handles : Pool!Differ(borrowing'[g], object'[k])
      BY <1>3, <1>4, <2>2 DEF Pool!IInv, Pool!ApartOK
    <2>6. \A g, k \in Pool!Borrowers' : g # k => Pool!Differ(borrowing'[g], borrowing'[k])
      BY <1>3 DEF Pool!IInv, Pool!ApartOK
    <2> QED BY <2>1, <2>3, <2>4, <2>5, <2>6 DEF Pool!ApartOK
  <1>7. Pool!OwnedOK'
    BY <1>1, <1>3, <1>4 DEF Pool!IInv, Pool!OwnedOK
  <1>8. Pool!CarefulOK'
    <2> SUFFICES ASSUME use' = "careful" PROVE Pool!CarefulOK'
      BY DEF Pool!CarefulOK
    <2>1. use = "careful" /\ n # 0 /\ Pool!Borrowers' = {} /\ objects[1] = 0
      <3>1. use = "careful" /\ 1 \in DOMAIN objects
        BY <1>1, <1>2
      <3>2. n # 0 /\ \A g \in Pool!Borrowers : g = h
        BY <1>1, <3>1 DEF Pool!IInv, Pool!CarefulOK, Pool!Hollow, n
      <3>3. objects[1] = 0
        BY <1>1, <3>1 DEF Pool!IInv, Pool!CarefulOK, Pool!Hollow
      <3> QED BY <1>3, <3>1, <3>2, <3>3
    <2>2. \A g \in Handles : owned'[g] => object'[g] # 0
      BY <1>1, <1>4, <2>1 DEF Pool!IInv, Pool!CarefulOK, Pool!Hollow
    <2>3. \A i \in DOMAIN objects' : objects'[i] # 0
      BY <1>2, <2>1 DEF Pool!IInv, Pool!CarefulOK, Pool!Hollow
    <2>4. ASSUME NEW m \in 1..created PROVE Pool!Kept(m)'
      <3>1. \/ \E i \in DOMAIN objects : objects[i] = m
            \/ \E g \in Pool!Borrowers : borrowing[g] = m
            \/ \E g \in Handles : object[g] = m
        BY <2>1, <2>4 DEF Pool!IInv, Pool!CarefulOK, Pool!Kept
      <3>2. CASE \E i \in DOMAIN objects : objects[i] = m
        <4>1. PICK i \in DOMAIN objects \ {1} : objects[i] = m
          BY <2>1, <2>4, <3>2
        <4>2. PICK j \in DOMAIN objects' : i = j + 1
          BY <1>2, <4>1
        <4> QED BY <1>2, <4>1, <4>2 DEF Pool!Kept
      <3>3. CASE \E g \in Pool!Borrowers : borrowing[g] = m
        BY <1>1, <1>3, <1>4, <2>1, <3>3 DEF Pool!Kept, n
      <3>4. CASE \E g \in Handles : object[g] = m
        <4>1. PICK g \in Handles : object[g] = m
          BY <3>4
        <4>2. object[h] = 0
          BY <1>1, NotOwned
        <4>3. g # h
          BY <2>4, <4>1, <4>2
        <4> QED BY <1>4, <4>1, <4>3 DEF Pool!Kept
      <3> QED BY <3>1, <3>2, <3>3, <3>4
    <2> QED BY <1>1, <1>2, <1>3, <2>1, <2>2, <2>3, <2>4 DEF Pool!CarefulOK, Pool!Hollow
  <1>9. Pool!LookOK'
    <2>1. h \notin looking /\ (use = "careful" => looking = {})
      BY <1>1 DEF Pool!IInv, Pool!LookOK
    <2> QED BY <1>1, <1>3, <1>4, <2>1 DEF Pool!IInv, Pool!LookOK, Pool!TypeOK
  <1> QED BY <1>5, <1>6, <1>7, <1>8, <1>9 DEF Pool!IInv

(* Who takes from a queue that others have emptied ends what can be said.      *)
LEMMA BorrowNothingStep == ASSUME NEW h \in Handles PROVE Pool!IInv /\ Pool!BorrowNothing(h) => Pool!IInv'
  BY DEF Pool!BorrowNothing, Pool!IInv, Pool!TypeOK, Pool!ApartOK, Pool!OwnedOK, Pool!LookOK, Pool!CarefulOK,
         Pool!Borrowers, Pool!Differ

(* Who looks is the first to, with care, and sees what is there.              *)
LEMMA BorrowLookStep == ASSUME NEW h \in Handles PROVE Pool!IInv /\ Pool!BorrowLook(h) => Pool!IInv'
  <1> SUFFICES ASSUME Pool!IInv, Pool!BorrowLook(h) PROVE Pool!IInv'
    OBVIOUS
  <1>1. /\ UNCHANGED <<objects, owned, object, borrowing, created>> /\ UNCHANGED Pool!Borrowers
        /\ looking' = looking \cup {h} /\ ~owned[h] /\ h \notin Pool!Borrowers /\ objects # <<>>
    BY DEF Pool!BorrowLook, Pool!Free, Pool!Borrowers
  <1>2. use' \in {use, "careless"} /\ (use' = "careful" => use = "careful" /\ Pool!Borrowers = {} /\ looking = {})
    BY DEF Pool!BorrowLook, Pool!Alone
  <1>3. Pool!TypeOK'
    BY <1>1, <1>2 DEF Pool!IInv, Pool!TypeOK
  <1>4. Pool!ApartOK' /\ Pool!OwnedOK'
    BY <1>1 DEF Pool!IInv, Pool!ApartOK, Pool!OwnedOK, Pool!Differ
  <1>5. Pool!LookOK'
    BY <1>1, <1>2 DEF Pool!IInv, Pool!LookOK
  <1>6. Pool!CarefulOK'
    BY <1>1, <1>2 DEF Pool!IInv, Pool!CarefulOK, Pool!Kept
  <1> QED BY <1>3, <1>4, <1>5, <1>6 DEF Pool!IInv

(* An object that is given back goes to the end of the queue.                 *)
LEMMA ReclaimLeaves ==
  ASSUME NEW h \in Handles, Pool!IInv, Pool!Reclaim(h)
  PROVE  LET n == object[h] IN
         /\ owned[h] /\ n \in 0..created /\ object' \in [Handles -> 0..created] /\ object'[h] = 0
         /\ \A g \in Handles \ {h} : object'[g] = object[g]
         /\ objects' \in Seq(0..created) /\ DOMAIN objects = 1..Len(objects) /\ Len(objects) \in Nat
         /\ DOMAIN objects' = 1..(Len(objects) + 1) /\ objects'[Len(objects) + 1] = n
         /\ \A i \in DOMAIN objects : objects'[i] = objects[i] /\ objects[i] \in 0..created
  <1> DEFINE n == object[h]
  <1>1. /\ objects \in Seq(0..created) /\ object \in [Handles -> 0..created] /\ created \in Nat
        /\ objects' = Append(objects, n) /\ object' = [object EXCEPT ![h] = 0] /\ owned[h]
    BY OwnersAssumption DEF Pool!IInv, Pool!TypeOK, Pool!Reclaim, Pool!Hollow
  <1>2. n \in 0..created /\ 0 \in 0..created
    BY <1>1
  <1>3. object' \in [Handles -> 0..created] /\ object'[h] = 0 /\ \A g \in Handles \ {h} : object'[g] = object[g]
    BY <1>1, <1>2
  <1> HIDE DEF n
  <1>4. /\ objects' \in Seq(0..created) /\ DOMAIN objects = 1..Len(objects) /\ DOMAIN objects' = 1..(Len(objects) + 1)
        /\ Len(objects) \in Nat /\ (\A i \in 1..Len(objects) : objects'[i] = objects[i]) /\ objects'[Len(objects) + 1] = n
    BY <1>1, <1>2, QueueAppend
  <1> QED BY <1>1, <1>2, <1>3, <1>4, QueueOf DEF n

LEMMA ReclaimApart ==
  ASSUME NEW h \in Handles, Pool!IInv, Pool!Reclaim(h), UNCHANGED <<borrowing, created>>
  PROVE  Pool!ApartOK'
  <1> DEFINE n == object[h]
             e == Len(objects) + 1
  <1>1. /\ object'[h] = 0 /\ \A g \in Handles \ {h} : object'[g] = object[g]
        /\ DOMAIN objects = 1..Len(objects) /\ Len(objects) \in Nat /\ DOMAIN objects' = 1..e /\ objects'[e] = n
        /\ \A i \in DOMAIN objects : objects'[i] = objects[i]
    BY ReclaimLeaves
  <1>2. DOMAIN objects' = DOMAIN objects \cup {e} /\ e \notin DOMAIN objects
    BY <1>1
  <1>3. Pool!Borrowers' = Pool!Borrowers
    BY DEF Pool!Borrowers
  <1> HIDE DEF e
  <1>4. /\ \A g \in Pool!Borrowers : Pool!Differ(borrowing[g], n) /\ Pool!Differ(n, borrowing[g])
        /\ \A g \in Handles \ {h} : Pool!Differ(n, object[g])
        /\ \A i \in DOMAIN objects : Pool!Differ(objects[i], n) /\ Pool!Differ(n, objects[i])
    BY DEF Pool!IInv, Pool!ApartOK, Pool!Differ
  <1> HIDE DEF n
  <1>5. \A i, j \in DOMAIN objects' : i # j => Pool!Differ(objects'[i], objects'[j])
    BY <1>1, <1>2, <1>4 DEF Pool!IInv, Pool!ApartOK
  <1>6. \A f, g \in Handles : f # g => Pool!Differ(object'[f], object'[g])
    BY <1>1 DEF Pool!IInv, Pool!ApartOK, Pool!Differ, Pool!Hollow
  <1>7. \A i \in DOMAIN objects' : /\ \A g \in Pool!Borrowers : Pool!Differ(objects'[i], borrowing[g])
                                   /\ \A g \in Handles : Pool!Differ(objects'[i], object'[g])
    <2>1. ASSUME NEW i \in DOMAIN objects', NEW g \in Pool!Borrowers PROVE Pool!Differ(objects'[i], borrowing[g])
      <3>1. CASE i = e
        BY <1>1, <1>4, <3>1
      <3>2. CASE i \in DOMAIN objects
        BY <1>1, <3>2 DEF Pool!IInv, Pool!ApartOK
      <3> QED BY <1>2, <3>1, <3>2
    <2>2. ASSUME NEW i \in DOMAIN objects', NEW g \in Handles PROVE Pool!Differ(objects'[i], object'[g])
      <3>1. CASE g = h
        BY <1>1, <3>1 DEF Pool!Differ, Pool!Hollow
      <3>2. CASE g # h /\ i = e
        BY <1>1, <1>4, <3>2
      <3>3. CASE g # h /\ i \in DOMAIN objects
        BY <1>1, <3>3 DEF Pool!IInv, Pool!ApartOK
      <3> QED BY <1>2, <3>1, <3>2, <3>3
    <2> QED BY <2>1, <2>2
  <1>8. \A f \in Pool!Borrowers, g \in Handles : Pool!Differ(borrowing[f], object'[g])
    BY <1>1 DEF Pool!IInv, Pool!ApartOK, Pool!Differ, Pool!Hollow
  <1> QED BY <1>3, <1>5, <1>6, <1>7, <1>8 DEF Pool!IInv, Pool!ApartOK, Pool!Differ, Pool!Hollow

LEMMA ResetStep == ASSUME NEW h \in Handles PROVE Pool!IInv /\ Pool!Reset(h) => Pool!IInv'
  <1> SUFFICES ASSUME Pool!IInv, Pool!Reset(h) PROVE Pool!IInv'
    OBVIOUS
  <1>1. Pool!Reclaim(h) /\ use' = "careless" /\ UNCHANGED <<owned, looking, borrowing, created>> /\ UNCHANGED Pool!Borrowers
    BY DEF Pool!Reset, Pool!Borrowers
  <1>2. /\ object' \in [Handles -> 0..created] /\ object'[h] = 0 /\ objects' \in Seq(0..created)
        /\ \A g \in Handles \ {h} : object'[g] = object[g]
    BY <1>1, ReclaimLeaves
  <1>3. Pool!TypeOK'
    BY <1>1, <1>2 DEF Pool!IInv, Pool!TypeOK, Pool!Hollow
  <1>4. Pool!ApartOK'
    BY <1>1, ReclaimApart
  <1>5. Pool!OwnedOK'
    BY <1>1, <1>2 DEF Pool!IInv, Pool!OwnedOK, Pool!Hollow
  <1>6. Pool!CarefulOK'
    BY <1>1 DEF Pool!CarefulOK
  <1>7. Pool!LookOK'
    BY <1>1 DEF Pool!IInv, Pool!LookOK
  <1> QED BY <1>3, <1>4, <1>5, <1>6, <1>7 DEF Pool!IInv

LEMMA DestroyStep == ASSUME NEW h \in Handles PROVE Pool!IInv /\ Pool!Destroy(h) => Pool!IInv'
  <1> SUFFICES ASSUME Pool!IInv, Pool!Destroy(h) PROVE Pool!IInv'
    OBVIOUS
  <1>1. /\ Pool!Reclaim(h) /\ UNCHANGED <<looking, borrowing, created>> /\ UNCHANGED Pool!Borrowers
        /\ owned' = [owned EXCEPT ![h] = FALSE]
    BY DEF Pool!Destroy, Pool!Borrowers
  <1>2. /\ object' \in [Handles -> 0..created] /\ object'[h] = 0 /\ objects' \in Seq(0..created)
        /\ \A g \in Handles \ {h} : object'[g] = object[g]
        /\ DOMAIN objects = 1..Len(objects) /\ Len(objects) \in Nat /\ owned[h]
        /\ DOMAIN objects' = 1..(Len(objects) + 1) /\ objects'[Len(objects) + 1] = object[h]
        /\ \A i \in DOMAIN objects : objects'[i] = objects[i]
    BY <1>1, ReclaimLeaves
  <1>3. owned' \in [Handles -> BOOLEAN] /\ ~owned'[h] /\ \A g \in Handles \ {h} : owned'[g] = owned[g]
    BY <1>1 DEF Pool!IInv, Pool!TypeOK
  <1>4. Pool!TypeOK'
    <2>1. use' \in {"careful", "careless", "undefined"}
      BY DEF Pool!Destroy, Pool!Alone, Pool!IInv, Pool!TypeOK
    <2> QED BY <1>1, <1>2, <1>3, <2>1 DEF Pool!IInv, Pool!TypeOK, Pool!Hollow
  <1>5. Pool!ApartOK'
    BY <1>1, ReclaimApart
  <1>6. Pool!OwnedOK'
    BY <1>1, <1>2, <1>3 DEF Pool!IInv, Pool!OwnedOK, Pool!Hollow
  <1>7. Pool!CarefulOK'
    <2> SUFFICES ASSUME use' = "careful" PROVE Pool!CarefulOK'
      BY DEF Pool!CarefulOK
    <2>1. use = "careful" /\ Pool!Borrowers = {}
      BY DEF Pool!Destroy, Pool!Alone
    <2>2. object[h] # 0 /\ \A g \in Handles \ {h} : owned'[g] => object'[g] # 0
      BY <1>2, <1>3, <2>1 DEF Pool!IInv, Pool!CarefulOK, Pool!Hollow
    <2>3. \A i \in DOMAIN objects : objects[i] # 0
      BY <2>1 DEF Pool!IInv, Pool!CarefulOK, Pool!Hollow
    <2>4. DOMAIN objects' = DOMAIN objects \cup {Len(objects) + 1}
      BY <1>2
    <2>5. \A i \in DOMAIN objects' : objects'[i] # 0
      BY <1>2, <2>2, <2>3, <2>4
    <2>6. ASSUME NEW m \in 1..created PROVE Pool!Kept(m)'
      <3>1. (\E i \in DOMAIN objects : objects[i] = m) \/ (\E g \in Handles : object[g] = m)
        BY <2>1, <2>6 DEF Pool!IInv, Pool!CarefulOK, Pool!Kept
      <3>2. CASE object[h] = m
        BY <1>2, <2>4, <3>2 DEF Pool!Kept
      <3>3. CASE object[h] # m
        BY <1>2, <2>4, <3>1, <3>3 DEF Pool!Kept
      <3> QED BY <3>2, <3>3
    <2>7. \A g \in Handles : owned'[g] => object'[g] # 0
      BY <1>3, <2>2
    <2> QED BY <1>1, <2>1, <2>5, <2>6, <2>7 DEF Pool!CarefulOK, Pool!Hollow
  <1>8. Pool!LookOK'
    <2>1. use' = "careful" => looking = {}
      BY DEF Pool!Destroy, Pool!Alone
    <2>2. looking \subseteq Handles
      BY DEF Pool!IInv, Pool!TypeOK
    <2> QED BY <1>1, <1>2, <1>3, <2>1, <2>2 DEF Pool!IInv, Pool!LookOK
  <1> QED BY <1>4, <1>5, <1>6, <1>7, <1>8 DEF Pool!IInv

(* An assigned handle gives back what it has, and they exchange the rest.     *)
LEMMA AssignStep == ASSUME NEW g \in Handles, NEW h \in Handles PROVE Pool!IInv /\ Pool!Assign(g, h) => Pool!IInv'
  <1> SUFFICES ASSUME Pool!IInv, Pool!Assign(g, h) PROVE Pool!IInv'
    OBVIOUS
  <1>1. /\ g # h /\ UNCHANGED <<looking, borrowing, created>> /\ UNCHANGED Pool!Borrowers /\ created \in Nat
        /\ g \notin Pool!Borrowers /\ h \notin Pool!Borrowers /\ g \notin looking /\ h \notin looking /\ object \in [Handles -> 0..created]
        /\ owned' = [owned EXCEPT ![g] = owned[h], ![h] = owned[g]]
    BY OwnersAssumption DEF Pool!Assign, Pool!IInv, Pool!TypeOK, Pool!Borrowers, Pool!Hollow
  <1>2. /\ owned' \in [Handles -> BOOLEAN] /\ owned'[g] = owned[h] /\ owned'[h] = owned[g]
        /\ \A f \in Handles \ {g, h} : owned'[f] = owned[f]
    BY <1>1 DEF Pool!IInv, Pool!TypeOK
  <1>3. CASE owned[g]
    <2> DEFINE n == object[g]
               e == Len(objects) + 1
    <2>1. /\ objects \in Seq(0..created) /\ objects' = Append(objects, n) /\ n \in 0..created
          /\ object' = [object EXCEPT ![g] = object[h], ![h] = 0] /\ use' = "careless"
      BY <1>1, <1>3 DEF Pool!Assign, Pool!IInv, Pool!TypeOK, Pool!Hollow
    <2>2. /\ objects' \in Seq(0..created) /\ DOMAIN objects = 1..Len(objects) /\ Len(objects) \in Nat /\ objects'[e] = n
          /\ DOMAIN objects' = 1..e /\ \A i \in DOMAIN objects : objects'[i] = objects[i]
      BY <2>1, QueueAppend
    <2>3. /\ object' \in [Handles -> 0..created] /\ object'[g] = object[h] /\ object'[h] = 0
          /\ \A f \in Handles \ {g, h} : object'[f] = object[f]
      BY <1>1, <2>1
    <2>4. DOMAIN objects' = DOMAIN objects \cup {e} /\ e \notin DOMAIN objects
      BY <2>2
    <2> HIDE DEF e
    <2>5. Pool!TypeOK'
      BY <1>1, <1>2, <2>1, <2>2, <2>3 DEF Pool!IInv, Pool!TypeOK, Pool!Hollow
    <2>6. Pool!ApartOK'
      <3>1. /\ \A f \in Pool!Borrowers : Pool!Differ(n, borrowing[f])
            /\ \A f \in Handles \ {g} : Pool!Differ(n, object[f])
            /\ \A i \in DOMAIN objects : Pool!Differ(objects[i], n) /\ Pool!Differ(n, objects[i])
        BY DEF Pool!IInv, Pool!ApartOK, Pool!Differ
      <3> HIDE DEF n
      <3>2. \A i, j \in DOMAIN objects' : i # j => Pool!Differ(objects'[i], objects'[j])
        BY <2>2, <2>4, <3>1 DEF Pool!IInv, Pool!ApartOK
      <3>3. \A f \in Handles : object'[f] = 0 \/ (f = g /\ object'[f] = object[h]) \/ (f \notin {g, h} /\ object'[f] = object[f])
        BY <2>3
      <3>4. \A f, k \in Handles : f # k => Pool!Differ(object'[f], object'[k])
        BY <1>1, <3>3 DEF Pool!IInv, Pool!ApartOK, Pool!Differ, Pool!Hollow
      <3>5. \A i \in DOMAIN objects', f \in Pool!Borrowers : Pool!Differ(objects'[i], borrowing[f])
        BY <2>2, <2>4, <3>1 DEF Pool!IInv, Pool!ApartOK
      <3>6. \A i \in DOMAIN objects', f \in Handles : Pool!Differ(objects'[i], object'[f])
        <4> SUFFICES ASSUME NEW i \in DOMAIN objects', NEW f \in Handles, object'[f] # 0
                     PROVE  Pool!Differ(objects'[i], object'[f])
          BY DEF Pool!Differ, Pool!Hollow
        <4>1. PICK k \in Handles \ {g} : object'[f] = object[k]
          BY <1>1, <3>3
        <4>2. Pool!Differ(n, object[k]) /\ \A j \in DOMAIN objects : Pool!Differ(objects[j], object[k])
          BY <3>1 DEF Pool!IInv, Pool!ApartOK
        <4> QED BY <2>2, <2>4, <4>1, <4>2
      <3>7. \A f \in Pool!Borrowers, k \in Handles : Pool!Differ(borrowing[f], object'[k])
        BY <3>3 DEF Pool!IInv, Pool!ApartOK, Pool!Differ, Pool!Hollow
      <3> QED BY <1>1, <3>2, <3>4, <3>5, <3>6, <3>7 DEF Pool!IInv, Pool!ApartOK, Pool!Differ, Pool!Hollow
    <2>7. Pool!OwnedOK'
      BY <1>1, <1>2, <2>3 DEF Pool!IInv, Pool!OwnedOK, Pool!Hollow
    <2>8. Pool!CarefulOK'
      BY <2>1 DEF Pool!CarefulOK
    <2>9. Pool!LookOK'
      BY <1>1, <1>2, <2>1 DEF Pool!IInv, Pool!LookOK, Pool!TypeOK
    <2> QED BY <2>5, <2>6, <2>7, <2>8, <2>9 DEF Pool!IInv
  <1>4. CASE ~owned[g]
    <2>1. UNCHANGED <<objects, use>> /\ object' = [object EXCEPT ![g] = object[h], ![h] = object[g]]
      BY <1>4 DEF Pool!Assign
    <2>2. /\ object' \in [Handles -> 0..created] /\ object'[g] = object[h] /\ object'[h] = object[g]
          /\ \A f \in Handles \ {g, h} : object'[f] = object[f]
      BY <1>1, <2>1
    <2>3. Pool!TypeOK'
      BY <1>1, <1>2, <2>1, <2>2 DEF Pool!IInv, Pool!TypeOK, Pool!Hollow
    <2>4. Pool!ApartOK'
      BY <1>1, <2>1, <2>2 DEF Pool!IInv, Pool!ApartOK, Pool!Differ, Pool!Hollow
    <2>5. Pool!OwnedOK'
      BY <1>1, <1>2, <2>2 DEF Pool!IInv, Pool!OwnedOK, Pool!Hollow
    <2>6. Pool!CarefulOK'
      <3> SUFFICES ASSUME use = "careful" PROVE Pool!CarefulOK'
        BY <2>1 DEF Pool!CarefulOK
      <3>1. \A f \in Handles : owned'[f] => object'[f] # 0
        BY <1>2, <2>2 DEF Pool!IInv, Pool!CarefulOK, Pool!Hollow
      <3>2. \A m \in 1..created : Pool!Kept(m)'
        <4> SUFFICES ASSUME NEW m \in 1..created PROVE Pool!Kept(m)'
          OBVIOUS
        <4>1. Pool!Kept(m)
          BY DEF Pool!IInv, Pool!CarefulOK
        <4> QED BY <1>1, <2>1, <2>2, <4>1 DEF Pool!Kept
      <3> QED BY <1>1, <2>1, <3>1, <3>2 DEF Pool!IInv, Pool!CarefulOK, Pool!Hollow
    <2>7. Pool!LookOK'
      BY <1>1, <1>2, <2>1 DEF Pool!IInv, Pool!LookOK, Pool!TypeOK
    <2> QED BY <2>3, <2>4, <2>5, <2>6, <2>7 DEF Pool!IInv
  <1> QED BY <1>3, <1>4

LEMMA PoolNext == Pool!IInv /\ [Pool!Next]_poolVars => Pool!IInv'
  <1> SUFFICES ASSUME Pool!IInv, [Pool!Next]_poolVars PROVE Pool!IInv'
    OBVIOUS
  <1>1. CASE UNCHANGED poolVars
    BY <1>1 DEF poolVars, Pool!IInv, Pool!TypeOK, Pool!ApartOK, Pool!OwnedOK, Pool!LookOK, Pool!CarefulOK, Pool!Kept, Pool!Borrowers, Pool!Differ
  <1>2. ASSUME NEW g \in Handles, NEW h \in Handles, Pool!MoveConstruct(g, h) PROVE Pool!IInv'
    BY <1>2 DEF Pool!MoveConstruct, Pool!IInv, Pool!TypeOK, Pool!ApartOK, Pool!OwnedOK, Pool!LookOK, Pool!CarefulOK, Pool!Borrowers, Pool!Differ
  <1> QED
    BY <1>1, <1>2, BorrowNewStep, BorrowLookStep, BorrowFrontStep, BorrowPopStep, BorrowNothingStep, ResetStep, DestroyStep, AssignStep DEF Pool!Next

-----------------------------------------------------------------------------
(* The pool counts as everybody does.                                         *)
LEMMA SameCount == \A S : Pool!Cardinality(S) = Cardinality(S)
  BY DEF Pool!Cardinality, Cardinality

(* A function that takes no value twice has as many values as arguments, and  *)
(* a value that is taken at most once at most one argument.                   *)
LEMMA CountImage ==
  ASSUME NEW S, IsFiniteSet(S), NEW f, DOMAIN f = S, \A x, y \in S : x # y => f[x] # f[y]
  PROVE  LET T == {f[x] : x \in S} IN IsFiniteSet(T) /\ Cardinality(T) = Cardinality(S)
  <1> DEFINE T == {f[x] : x \in S}
             g == [x \in S |-> f[x]]
  <1>1. g \in Surjection(S, T)
    BY DEF Surjection
  <1>2. g \in Injection(S, T)
    BY DEF Injection, IsInjective
  <1> QED BY <1>1, <1>2, FS_Surjection

LEMMA AtMostOne ==
  ASSUME NEW S, \A x, y \in S : x = y
  PROVE  IsFiniteSet(S) /\ Cardinality(S) \in {0, 1} /\ (Cardinality(S) = 1 <=> S # {})
  <1>1. CASE S = {}
    BY <1>1, FS_EmptySet
  <1>2. CASE S # {}
    <2>1. PICK x : S = {x}
      BY <1>2
    <2> QED BY <2>1, FS_Singleton
  <1> QED BY <1>1, <1>2

(* What is in the hands of handles and borrowers, as many as there are.       *)
LEMMA HandsOf ==
  ASSUME Pool!IInv, use = "careful"
  PROVE  LET O == {g \in Handles : owned[g]} IN
         /\ 0 \notin Pool!InHands
         /\ Cardinality(Pool!InHands) = Cardinality(O) + Cardinality(Pool!Borrowers)
  <1> DEFINE O == {g \in Handles : owned[g]}
             B == Pool!Borrowers
             f == [g \in O \cup B |-> IF g \in O THEN object[g] ELSE borrowing[g]]
  <1>1. O \cap B = {} /\ O \subseteq Handles /\ B \subseteq Handles
    BY DEF Pool!IInv, Pool!OwnedOK, Pool!TypeOK
  <1>2. /\ IsFiniteSet(O) /\ IsFiniteSet(B) /\ IsFiniteSet(O \cup B)
        /\ Cardinality(O \cup B) = Cardinality(O) + Cardinality(B)
    <2>1. IsFiniteSet(O) /\ IsFiniteSet(B)
      BY <1>1, OwnersAssumption, FS_Subset
    <2> HIDE DEF O, B
    <2>2. Cardinality(O) \in Nat /\ Cardinality(B) \in Nat /\ Cardinality(O \cap B) = 0
      BY <1>1, <2>1, FS_CardinalityType, FS_EmptySet
    <2>3. IsFiniteSet(O \cup B) /\ Cardinality(O \cup B) = Cardinality(O) + Cardinality(B) - Cardinality(O \cap B)
      BY <2>1, FS_Union, Zenon
    <2> QED BY <2>1, <2>2, <2>3
  <1>3. \A g \in O : f[g] = object[g] /\ f[g] # 0
    BY DEF Pool!IInv, Pool!CarefulOK, Pool!Hollow
  <1>4. \A g \in B : f[g] = borrowing[g] /\ f[g] # 0
    BY <1>1 DEF Pool!IInv, Pool!CarefulOK, Pool!Hollow
  <1>5. Pool!InHands = {f[g] : g \in O \cup B}
    BY <1>3, <1>4 DEF Pool!InHands
  <1>6. \A g, h \in O \cup B : g # h => f[g] # f[h]
    <2> SUFFICES ASSUME NEW g \in O \cup B, NEW h \in O \cup B, g # h PROVE f[g] # f[h]
      OBVIOUS
    <2>1. CASE g \in O /\ h \in O
      BY <1>1, <1>3, <2>1 DEF Pool!IInv, Pool!ApartOK, Pool!Differ, Pool!Hollow
    <2>2. CASE g \in O /\ h \in B
      BY <1>1, <1>3, <1>4, <2>2 DEF Pool!IInv, Pool!ApartOK, Pool!Differ, Pool!Hollow
    <2>3. CASE g \in B /\ h \in O
      BY <1>1, <1>3, <1>4, <2>3 DEF Pool!IInv, Pool!ApartOK, Pool!Differ, Pool!Hollow
    <2>4. CASE g \in B /\ h \in B
      BY <1>4, <2>4 DEF Pool!IInv, Pool!ApartOK, Pool!Differ, Pool!Hollow
    <2> QED BY <2>1, <2>2, <2>3, <2>4
  <1>7. 0 \notin Pool!InHands
    BY <1>3, <1>4, <1>5
  <1>8. DOMAIN f = O \cup B
    OBVIOUS
  <1> HIDE DEF f
  <1>9. Cardinality(Pool!InHands) = Cardinality(O \cup B)
    BY <1>2, <1>5, <1>6, <1>8, CountImage
  <1> QED BY <1>2, <1>7, <1>9

LEMMA EveryPlace == Pool!IInv => Pool!OnePlace
  <1> SUFFICES ASSUME Pool!IInv, use = "careful"
               PROVE  /\ Pool!Borrowers = {} => 0 \notin Pool!Pool /\ Pool!Pool \cup Pool!InHands = 1..created
                      /\ 0 \notin Pool!InHands /\ Pool!Pool \cap Pool!InHands = {}
                      /\ Len(objects) = Cardinality(Pool!Pool)
                      /\ Cardinality(Pool!InHands) = Cardinality({h \in Handles : owned[h]}) + Cardinality(Pool!Borrowers)
    BY SameCount DEF Pool!OnePlace, Pool!Hollow
  <1>1. objects \in Seq(0..created) /\ created \in Nat /\ object \in [Handles -> 0..created] /\ borrowing \in [Pool!Borrowers -> 0..created]
    BY OwnersAssumption DEF Pool!IInv, Pool!TypeOK, Pool!Hollow
  <1>2. DOMAIN objects = 1..Len(objects) /\ Len(objects) \in Nat /\ \A i \in DOMAIN objects : objects[i] \in 0..created
    BY <1>1, QueueOf, LenProperties
  <1>3. Pool!Pool = {objects[i] : i \in DOMAIN objects}
    BY DEF Pool!Pool, Pool!Range, Range
  <1>4. \A i, j \in DOMAIN objects : i # j => objects[i] # objects[j]
    BY DEF Pool!IInv, Pool!ApartOK, Pool!CarefulOK, Pool!Differ, Pool!Hollow
  <1>5. Len(objects) = Cardinality(Pool!Pool)
    <2>1. IsFiniteSet(1..Len(objects)) /\ Cardinality(1..Len(objects)) = Len(objects)
      BY <1>2, FS_Interval
    <2> QED BY <1>2, <1>3, <1>4, <2>1, CountImage
  <1>6. /\ 0 \notin Pool!InHands
        /\ Cardinality(Pool!InHands) = Cardinality({h \in Handles : owned[h]}) + Cardinality(Pool!Borrowers)
    BY HandsOf
  <1>7. Pool!Pool \cap Pool!InHands = {}
    <2> SUFFICES ASSUME NEW i \in DOMAIN objects, objects[i] \in Pool!InHands PROVE FALSE
      BY <1>3
    <2>1. objects[i] = 0
      BY DEF Pool!IInv, Pool!ApartOK, Pool!Differ, Pool!Hollow, Pool!InHands
    <2> QED BY <1>6, <2>1
  <1>8. ASSUME Pool!Borrowers = {} PROVE 0 \notin Pool!Pool /\ Pool!Pool \cup Pool!InHands = 1..created
    <2>1. 0 \notin Pool!Pool
      BY <1>3, <1>8 DEF Pool!IInv, Pool!CarefulOK, Pool!Hollow
    <2>2. Pool!InHands = {object[h] : h \in {g \in Handles : owned[g]}}
      BY <1>8 DEF Pool!InHands
    <2>3. Pool!Pool \cup Pool!InHands \subseteq 0..created
      BY <1>1, <1>2, <1>3, <2>2
    <2>4. Pool!Pool \cup Pool!InHands \subseteq 1..created
      BY <1>1, <1>6, <2>1, <2>3
    <2>5. ASSUME NEW n \in 1..created PROVE n \in Pool!Pool \cup Pool!InHands
      <3>1. (\E i \in DOMAIN objects : objects[i] = n) \/ (\E h \in Handles : object[h] = n)
        BY <1>8 DEF Pool!IInv, Pool!CarefulOK, Pool!Kept
      <3>2. \A h \in Handles : object[h] = n => owned[h]
        <4> SUFFICES ASSUME NEW h \in Handles, object[h] = n, ~owned[h] PROVE FALSE
          OBVIOUS
        <4>1. object[h] = 0
          BY NotOwned
        <4> QED BY <4>1
      <3> QED BY <1>3, <2>2, <3>1, <3>2
    <2> QED BY <2>1, <2>4, <2>5
  <1> QED BY <1>5, <1>6, <1>7, <1>8

LEMMA NeverInTwo == Pool!IInv => Pool!NeverTwice
  <1> SUFFICES ASSUME Pool!IInv, NEW n \in 1..created
               PROVE  Cardinality({i \in DOMAIN objects : objects[i] = n})
                      + Cardinality({h \in Pool!Borrowers : borrowing[h] = n})
                      + Cardinality({h \in Handles : owned[h] /\ object[h] = n}) <= 1
    BY SameCount DEF Pool!NeverTwice
  <1> DEFINE Q == {i \in DOMAIN objects : objects[i] = n}
             B == {h \in Pool!Borrowers : borrowing[h] = n}
             O == {h \in Handles : owned[h] /\ object[h] = n}
  <1>1. n # 0
    OBVIOUS
  <1>2. (\A x, y \in Q : x = y) /\ (\A x, y \in B : x = y) /\ (\A x, y \in O : x = y)
    BY <1>1 DEF Pool!IInv, Pool!ApartOK, Pool!Differ, Pool!Hollow
  <1>3. (Q = {} /\ B = {}) \/ (Q = {} /\ O = {}) \/ (B = {} /\ O = {})
    <2>1. ASSUME NEW i \in Q, NEW h \in B PROVE FALSE
      BY <1>1, <2>1 DEF Pool!IInv, Pool!ApartOK, Pool!Differ, Pool!Hollow
    <2>2. ASSUME NEW i \in Q, NEW h \in O PROVE FALSE
      BY <1>1, <2>2 DEF Pool!IInv, Pool!ApartOK, Pool!Differ, Pool!Hollow
    <2>3. ASSUME NEW g \in B, NEW h \in O PROVE FALSE
      BY <1>1, <2>3 DEF Pool!IInv, Pool!ApartOK, Pool!Differ, Pool!Hollow
    <2> QED BY <2>1, <2>2, <2>3
  <1> HIDE DEF Q, B, O
  <1>4. /\ Cardinality(Q) \in {0, 1} /\ (Cardinality(Q) = 1 <=> Q # {})
        /\ Cardinality(B) \in {0, 1} /\ (Cardinality(B) = 1 <=> B # {})
        /\ Cardinality(O) \in {0, 1} /\ (Cardinality(O) = 1 <=> O # {})
    BY <1>2, AtMostOne
  <1>5. Cardinality(Q) + Cardinality(B) + Cardinality(O) <= 1
    BY <1>3, <1>4
  <1> QED BY <1>5 DEF Q, B, O

-----------------------------------------------------------------------------
(* Ending a cell counts for it and for no other.                              *)
LEMMA EndCounts ==
  ASSUME NEW e \in Seq(Nat), NEW x \in 0..Len(e)
  PROVE  LET n == Pointers!Ended(x, e) IN
         /\ n \in Seq(Nat) /\ Len(n) = Len(e) /\ Len(e) \in Nat
         /\ \A c \in 1..Len(e) : n[c] = IF c = x THEN e[c] + 1 ELSE e[c]
  <1>1. Len(e) \in Nat /\ DOMAIN e = 1..Len(e) /\ \A c \in 1..Len(e) : e[c] \in Nat
    BY LenProperties
  <1>2. CASE x = 0
    BY <1>1, <1>2 DEF Pointers!Ended, Pointers!None
  <1>3. CASE x # 0
    <2> DEFINE n == [e EXCEPT ![x] = e[x] + 1]
    <2>1. x \in 1..Len(e) /\ e[x] + 1 \in Nat
      BY <1>1, <1>3
    <2>2. Pointers!Ended(x, e) = n
      BY <1>3 DEF Pointers!Ended, Pointers!None
    <2>3. n \in Seq(Nat) /\ Len(n) = Len(e)
      BY <2>1, ExceptSeq
    <2>4. \A c \in 1..Len(e) : n[c] = IF c = x THEN e[c] + 1 ELSE e[c]
      BY <1>1
    <2> QED BY <1>1, <2>2, <2>3, <2>4
  <1> QED BY <1>2, <1>3

LEMMA CellAppend ==
  ASSUME NEW S, NEW e \in Seq(S), NEW x \in S, NEW n, n = Append(e, x)
  PROVE  /\ n \in Seq(S) /\ Len(n) = Len(e) + 1 /\ Len(e) \in Nat /\ n[Len(e) + 1] = x
         /\ \A c \in 1..Len(e) : n[c] = e[c]
  BY AppendProperties, LenProperties

(* What the types say of a state, as far as the cells go.                     *)
LEMMA PointerTypes ==
  ASSUME Pointers!TypeOK
  PROVE  /\ actual \in Seq({"copied", "unique"}) /\ ended \in Seq(Nat) /\ Len(ended) = Len(actual) /\ Len(actual) \in Nat
         /\ cell \in [Slots -> 0..Len(actual)] /\ released \subseteq 1..Len(actual)
         /\ tag \in [Slots -> {"copied", "unique", "none"}]
  BY LenProperties DEF Pointers!TypeOK, Pointers!Made, Pointers!None, Pointers!Types, Pointers!NoTag

LEMMA PointersInit == Pointers!Init => Pointers!IInv
  <1> SUFFICES ASSUME Pointers!Init PROVE Pointers!IInv
    OBVIOUS
  <1> USE DEF Pointers!Init, Pointers!None
  <1>1. Pointers!Made = {} /\ Len(actual) = 0 /\ Len(ended) = 0
    BY DEF Pointers!Made
  <1>2. Pointers!TypeOK
    BY <1>1 DEF Pointers!TypeOK, Pointers!Types
  <1>3. Pointers!TagFits /\ Pointers!CellsFit
    BY <1>1 DEF Pointers!TagFits, Pointers!CellsFit
  <1> QED BY <1>2, <1>3 DEF Pointers!IInv

(* A new cell in a slot, whose old one is ended.                              *)
LEMMA CellMade ==
  ASSUME Pointers!TypeOK, Pointers!TagFits, Pointers!CellsFit, NEW s \in Slots, NEW t \in Pointers!Types,
         actual' = Append(actual, t), ended' = Append(Pointers!Ended(cell[s], ended), 0),
         cell' = [cell EXCEPT ![s] = Len(actual')], tag' = [tag EXCEPT ![s] = t],
         UNCHANGED <<kind, released>>, usage' \in {"careful", "self_assigned", "gone"}
  PROVE  Pointers!IInv'
  <1> DEFINE n == Len(actual)
             e == Pointers!Ended(cell[s], ended)
  <1>1. /\ actual \in Seq(Pointers!Types) /\ ended \in Seq(Nat) /\ Len(ended) = n /\ n \in Nat
        /\ cell \in [Slots -> 0..n] /\ released \subseteq 1..n /\ tag \in [Slots -> Pointers!Types \cup {"none"}]
        /\ Pointers!Made = 1..n
    BY PointerTypes DEF Pointers!Types, Pointers!Made
  <1>2. /\ e \in Seq(Nat) /\ Len(e) = n /\ \A c \in 1..n : e[c] = IF c = cell[s] THEN ended[c] + 1 ELSE ended[c]
    <2>1. ended \in Seq(Nat) /\ cell[s] \in 0..Len(ended)
      BY <1>1
    <2>2. /\ e \in Seq(Nat) /\ Len(e) = Len(ended)
          /\ \A c \in 1..Len(ended) : e[c] = IF c = cell[s] THEN ended[c] + 1 ELSE ended[c]
      BY <2>1, EndCounts
    <2> QED BY <1>1, <2>2
  <1> HIDE DEF e
  <1>3. /\ ended' \in Seq(Nat) /\ Len(ended') = n + 1 /\ ended'[n + 1] = 0
        /\ \A c \in 1..n : ended'[c] = e[c]
    <2>1. ended' = Append(e, 0)
      BY DEF e
    <2>2. e \in Seq(Nat) /\ 0 \in Nat
      BY <1>2
    <2>3. PICK longer : longer = Append(e, 0)
      OBVIOUS
    <2>4. /\ longer \in Seq(Nat) /\ Len(longer) = Len(e) + 1 /\ longer[Len(e) + 1] = 0
          /\ \A c \in 1..Len(e) : longer[c] = e[c]
      BY <2>2, <2>3, CellAppend
    <2> QED BY <1>2, <2>1, <2>3, <2>4
  <1>4. /\ actual' \in Seq(Pointers!Types) /\ Len(actual') = n + 1 /\ actual'[n + 1] = t
        /\ \A c \in 1..n : actual'[c] = actual[c]
    BY <1>1, CellAppend
  <1> HIDE DEF n
  <1>5. /\ cell' \in [Slots -> 0..(n + 1)] /\ cell'[s] = n + 1 /\ \A r \in Slots \ {s} : cell'[r] = cell[r] /\ cell[r] \in 0..n
        /\ tag' \in [Slots -> Pointers!Types \cup {"none"}] /\ tag'[s] = t /\ \A r \in Slots \ {s} : tag'[r] = tag[r]
    BY <1>1, <1>4
  <1>6. Pointers!Made' = 1..(n + 1) /\ 1..(n + 1) = 1..n \cup {n + 1} /\ n + 1 \notin 1..n
    BY <1>1, <1>4 DEF Pointers!Made
  <1>7. Pointers!TypeOK'
    BY <1>1, <1>3, <1>4, <1>5, <1>6 DEF Pointers!TypeOK, Pointers!None, Pointers!NoTag
  <1>8. Pointers!TagFits'
    <2> SUFFICES ASSUME NEW r \in Slots PROVE IF cell'[r] = 0 THEN tag'[r] = "none" ELSE tag'[r] = actual'[cell'[r]]
      BY DEF Pointers!TagFits, Pointers!None, Pointers!NoTag
    <2>1. CASE r = s
      BY <1>1, <1>4, <1>5, <2>1
    <2>2. CASE r # s
      BY <1>1, <1>4, <1>5, <2>2 DEF Pointers!TagFits, Pointers!None, Pointers!NoTag
    <2> QED BY <2>1, <2>2
  <1>9. Pointers!CellsFit'
    <2>1. ASSUME NEW c \in 1..n
          PROVE  /\ ended'[c] = IF Pointers!Held(c)' \/ c \in released THEN 0 ELSE 1
                 /\ Pointers!Held(c)' => c \notin released
                 /\ \A q, r \in Slots : cell'[q] = c /\ cell'[r] = c => q = r
      <3>1. /\ ended[c] = IF Pointers!Held(c) \/ c \in released THEN 0 ELSE 1
            /\ Pointers!Held(c) => c \notin released
            /\ \A q, r \in Slots : cell[q] = c /\ cell[r] = c => q = r
        BY <1>1 DEF Pointers!CellsFit
      <3>2. n + 1 # c
        BY <1>6
      <3>3. CASE c = cell[s]
        <4>1. Pointers!Held(c) /\ ~Pointers!Held(c)'
          BY <1>5, <3>1, <3>2, <3>3 DEF Pointers!Held
        <4>2. ended'[c] = 1
          BY <1>2, <1>3, <3>1, <3>3, <4>1
        <4> QED BY <1>5, <3>1, <3>2, <4>1, <4>2
      <3>4. CASE c # cell[s]
        <4>1. Pointers!Held(c)' <=> Pointers!Held(c)
          BY <1>5, <3>2, <3>4 DEF Pointers!Held
        <4>2. ended'[c] = ended[c]
          BY <1>2, <1>3, <3>4
        <4> QED BY <1>5, <3>1, <3>2, <4>1, <4>2
      <3> QED BY <3>3, <3>4
    <2>2. ASSUME NEW c, c = n + 1
          PROVE  /\ ended'[c] = IF Pointers!Held(c)' \/ c \in released THEN 0 ELSE 1
                 /\ Pointers!Held(c)' => c \notin released
                 /\ \A q, r \in Slots : cell'[q] = c /\ cell'[r] = c => q = r
      <3>1. \A q \in Slots \ {s} : cell'[q] # c
        BY <1>1, <1>5, <2>2
      <3>2. c \notin released /\ Pointers!Held(c)'
        BY <1>1, <1>5, <1>6, <2>2 DEF Pointers!Held
      <3> QED BY <1>3, <2>2, <3>1, <3>2
    <2>3. \A c \in Pointers!Made' : c \in 1..n \/ c = n + 1
      BY <1>6
    <2> QED BY <1>1, <2>1, <2>2, <2>3 DEF Pointers!CellsFit
  <1> QED BY <1>7, <1>8, <1>9 DEF Pointers!IInv

(* A slot that is cleared, whose cell is ended.                               *)
LEMMA CellCleared ==
  ASSUME Pointers!TypeOK, Pointers!TagFits, Pointers!CellsFit, NEW s \in Slots,
         ended' = Pointers!Ended(cell[s], ended), cell' = [cell EXCEPT ![s] = 0], tag' = [tag EXCEPT ![s] = "none"],
         UNCHANGED <<kind, actual, released>>, usage' \in {"careful", "self_assigned", "gone"}
  PROVE  Pointers!IInv'
  <1> DEFINE n == Len(actual)
  <1>1. /\ actual \in Seq(Pointers!Types) /\ ended \in Seq(Nat) /\ Len(ended) = n /\ n \in Nat
        /\ cell \in [Slots -> 0..n] /\ released \subseteq 1..n /\ tag \in [Slots -> Pointers!Types \cup {"none"}]
        /\ Pointers!Made = 1..n /\ Pointers!Made' = 1..n
    BY PointerTypes DEF Pointers!Types, Pointers!Made
  <1>2. /\ ended' \in Seq(Nat) /\ Len(ended') = n
        /\ \A c \in 1..n : ended'[c] = IF c = cell[s] THEN ended[c] + 1 ELSE ended[c]
    BY <1>1, EndCounts
  <1> HIDE DEF n
  <1>3. /\ cell' \in [Slots -> 0..n] /\ cell'[s] = 0 /\ \A r \in Slots \ {s} : cell'[r] = cell[r]
        /\ tag' \in [Slots -> Pointers!Types \cup {"none"}] /\ tag'[s] = "none" /\ \A r \in Slots \ {s} : tag'[r] = tag[r]
    BY <1>1
  <1>4. Pointers!TypeOK'
    BY <1>1, <1>2, <1>3 DEF Pointers!TypeOK, Pointers!None, Pointers!NoTag, n
  <1>5. Pointers!TagFits'
    BY <1>3 DEF Pointers!TagFits, Pointers!None, Pointers!NoTag
  <1>6. Pointers!CellsFit'
    <2> SUFFICES ASSUME NEW c \in 1..n
                 PROVE  /\ ended'[c] = IF Pointers!Held(c)' \/ c \in released THEN 0 ELSE 1
                        /\ Pointers!Held(c)' => c \notin released
                        /\ \A q, r \in Slots : cell'[q] = c /\ cell'[r] = c => q = r
      BY <1>1 DEF Pointers!CellsFit
    <2>1. /\ ended[c] = IF Pointers!Held(c) \/ c \in released THEN 0 ELSE 1
          /\ Pointers!Held(c) => c \notin released
          /\ \A q, r \in Slots : cell[q] = c /\ cell[r] = c => q = r
      BY <1>1 DEF Pointers!CellsFit
    <2>2. CASE c = cell[s]
      <3>1. Pointers!Held(c) /\ ~Pointers!Held(c)'
        BY <1>3, <2>1, <2>2 DEF Pointers!Held
      <3>2. ended'[c] = 1
        BY <1>2, <2>1, <2>2, <3>1
      <3> QED BY <1>3, <2>1, <3>1, <3>2
    <2>3. CASE c # cell[s]
      <3>1. Pointers!Held(c)' <=> Pointers!Held(c)
        BY <1>3, <2>3 DEF Pointers!Held
      <3>2. ended'[c] = ended[c]
        BY <1>2, <2>3
      <3> QED BY <1>3, <2>1, <3>1, <3>2
    <2> QED BY <2>2, <2>3
  <1> QED BY <1>4, <1>5, <1>6 DEF Pointers!IInv

(* Slots that exchange what they have.                                        *)
LEMMA CellsSwapped ==
  ASSUME Pointers!TypeOK, Pointers!TagFits, Pointers!CellsFit, NEW s \in Slots, NEW r \in Slots, s # r,
         cell' = [cell EXCEPT ![s] = cell[r], ![r] = cell[s]], tag' = [tag EXCEPT ![s] = tag[r], ![r] = tag[s]],
         UNCHANGED <<kind, actual, ended, released>>, usage' \in {"careful", "self_assigned", "gone"}
  PROVE  Pointers!TypeOK' /\ Pointers!TagFits' /\ Pointers!CellsFit'
  <1> DEFINE n == Len(actual)
  <1>1. /\ n \in Nat /\ cell \in [Slots -> 0..n] /\ tag \in [Slots -> Pointers!Types \cup {"none"}]
        /\ Pointers!Made = 1..n /\ Pointers!Made' = 1..n
    BY PointerTypes DEF Pointers!Types, Pointers!Made
  <1> HIDE DEF n
  <1>2. /\ cell' \in [Slots -> 0..n] /\ cell'[s] = cell[r] /\ cell'[r] = cell[s]
        /\ tag' \in [Slots -> Pointers!Types \cup {"none"}] /\ tag'[s] = tag[r] /\ tag'[r] = tag[s]
        /\ \A q \in Slots \ {s, r} : cell'[q] = cell[q] /\ tag'[q] = tag[q]
    BY <1>1
  <1>3. Pointers!TypeOK'
    BY <1>1, <1>2 DEF Pointers!TypeOK, Pointers!None, Pointers!NoTag
  <1>4. Pointers!TagFits'
    BY <1>2 DEF Pointers!TagFits, Pointers!None, Pointers!NoTag
  <1>5. \A c \in 1..n : Pointers!Held(c)' <=> Pointers!Held(c)
    BY <1>2 DEF Pointers!Held
  <1>6. \A c \in 1..n : (\A p, q \in Slots : cell[p] = c /\ cell[q] = c => p = q)
                          => (\A p, q \in Slots : cell'[p] = c /\ cell'[q] = c => p = q)
    BY <1>2
  <1>7. Pointers!CellsFit'
    BY <1>1, <1>5, <1>6 DEF Pointers!CellsFit
  <1> QED BY <1>3, <1>4, <1>7

(* A slot that takes over another's, and ends its own.                        *)
LEMMA CellMoved ==
  ASSUME Pointers!TypeOK, Pointers!TagFits, Pointers!CellsFit, NEW s \in Slots, NEW r \in Slots, s # r,
         ended' = Pointers!Ended(cell[s], ended),
         cell' = [cell EXCEPT ![s] = cell[r], ![r] = 0], tag' = [tag EXCEPT ![s] = tag[r], ![r] = "none"],
         UNCHANGED <<kind, actual, released>>, usage' \in {"careful", "self_assigned", "gone"}
  PROVE  Pointers!IInv'
  <1> DEFINE n == Len(actual)
  <1>1. /\ actual \in Seq(Pointers!Types) /\ ended \in Seq(Nat) /\ Len(ended) = n /\ n \in Nat
        /\ cell \in [Slots -> 0..n] /\ released \subseteq 1..n /\ tag \in [Slots -> Pointers!Types \cup {"none"}]
        /\ Pointers!Made = 1..n /\ Pointers!Made' = 1..n
    BY PointerTypes DEF Pointers!Types, Pointers!Made
  <1>2. /\ ended' \in Seq(Nat) /\ Len(ended') = n
        /\ \A c \in 1..n : ended'[c] = IF c = cell[s] THEN ended[c] + 1 ELSE ended[c]
    BY <1>1, EndCounts
  <1> HIDE DEF n
  <1>3. /\ cell' \in [Slots -> 0..n] /\ cell'[s] = cell[r] /\ cell'[r] = 0
        /\ tag' \in [Slots -> Pointers!Types \cup {"none"}] /\ tag'[s] = tag[r] /\ tag'[r] = "none"
        /\ \A q \in Slots \ {s, r} : cell'[q] = cell[q] /\ tag'[q] = tag[q]
    <2>1. cell' \in [Slots -> 0..n] /\ cell'[s] = cell[r] /\ cell'[r] = 0 /\ \A q \in Slots \ {s, r} : cell'[q] = cell[q]
      BY <1>1
    <2>2. /\ tag' \in [Slots -> Pointers!Types \cup {"none"}] /\ tag'[s] = tag[r] /\ tag'[r] = "none"
          /\ \A q \in Slots \ {s, r} : tag'[q] = tag[q]
      BY <1>1
    <2> QED BY <2>1, <2>2
  <1>4. Pointers!TypeOK'
    BY <1>1, <1>2, <1>3 DEF Pointers!TypeOK, Pointers!None, Pointers!NoTag, n
  <1>5. Pointers!TagFits'
    BY <1>3 DEF Pointers!TagFits, Pointers!None, Pointers!NoTag
  <1>6. Pointers!CellsFit'
    <2> SUFFICES ASSUME NEW c \in 1..n
                 PROVE  /\ ended'[c] = IF Pointers!Held(c)' \/ c \in released THEN 0 ELSE 1
                        /\ Pointers!Held(c)' => c \notin released
                        /\ \A p, q \in Slots : cell'[p] = c /\ cell'[q] = c => p = q
      BY <1>1 DEF Pointers!CellsFit
    <2>1. /\ ended[c] = IF Pointers!Held(c) \/ c \in released THEN 0 ELSE 1
          /\ Pointers!Held(c) => c \notin released
          /\ \A p, q \in Slots : cell[p] = c /\ cell[q] = c => p = q
      BY <1>1 DEF Pointers!CellsFit
    <2>2. \A p, q \in Slots : cell'[p] = c /\ cell'[q] = c => p = q
      BY <1>3, <2>1
    <2>3. CASE c = cell[s]
      <3>1. Pointers!Held(c) /\ cell[r] # c
        BY <2>1, <2>3 DEF Pointers!Held
      <3>2. ~Pointers!Held(c)'
        BY <1>3, <2>1, <2>3, <3>1 DEF Pointers!Held
      <3>3. ended'[c] = 1
        BY <1>2, <2>1, <2>3, <3>1
      <3> QED BY <2>1, <2>2, <3>1, <3>2, <3>3
    <2>4. CASE c # cell[s]
      <3>1. Pointers!Held(c)' <=> Pointers!Held(c)
        BY <1>3, <2>4 DEF Pointers!Held
      <3>2. ended'[c] = ended[c]
        BY <1>2, <2>4
      <3> QED BY <2>1, <2>2, <3>1, <3>2
    <2> QED BY <2>3, <2>4
  <1> QED BY <1>4, <1>5, <1>6 DEF Pointers!IInv

(* A cell made for the program, and one handed over to it.                    *)
LEMMA CellGiven ==
  ASSUME Pointers!TypeOK, Pointers!TagFits, Pointers!CellsFit, NEW t \in Pointers!Types,
         actual' = Append(actual, t), ended' = Append(ended, 0), released' = released \cup {Len(actual')},
         UNCHANGED <<kind, cell, tag, usage>>
  PROVE  Pointers!IInv'
  <1> DEFINE n == Len(actual)
  <1>1. /\ actual \in Seq(Pointers!Types) /\ ended \in Seq(Nat) /\ Len(ended) = n /\ n \in Nat
        /\ cell \in [Slots -> 0..n] /\ released \subseteq 1..n /\ tag \in [Slots -> Pointers!Types \cup {"none"}]
        /\ Pointers!Made = 1..n
    BY PointerTypes DEF Pointers!Types, Pointers!Made
  <1>2. /\ ended' \in Seq(Nat) /\ Len(ended') = n + 1 /\ ended'[n + 1] = 0
        /\ \A c \in 1..n : ended'[c] = ended[c]
    BY <1>1, CellAppend
  <1>3. /\ actual' \in Seq(Pointers!Types) /\ Len(actual') = n + 1
        /\ \A c \in 1..n : actual'[c] = actual[c]
    BY <1>1, CellAppend
  <1> HIDE DEF n
  <1>4. Pointers!Made' = 1..(n + 1) /\ 1..(n + 1) = 1..n \cup {n + 1} /\ n + 1 \notin 1..n /\ n + 1 # 0
    BY <1>1, <1>3 DEF Pointers!Made
  <1>5. released' = released \cup {n + 1} /\ cell \in [Slots -> 0..(n + 1)] /\ \A s \in Slots : cell[s] # n + 1
    BY <1>1, <1>3
  <1>6. Pointers!TypeOK'
    BY <1>1, <1>2, <1>3, <1>4, <1>5 DEF Pointers!TypeOK, Pointers!None, Pointers!NoTag
  <1>7. Pointers!TagFits'
    <2> SUFFICES ASSUME NEW r \in Slots PROVE IF cell[r] = 0 THEN tag[r] = "none" ELSE tag[r] = actual'[cell[r]]
      BY DEF Pointers!TagFits, Pointers!None, Pointers!NoTag
    <2>1. cell[r] = 0 \/ cell[r] \in 1..n
      BY <1>1
    <2> QED BY <1>3, <2>1 DEF Pointers!TagFits, Pointers!None, Pointers!NoTag
  <1>8. \A c \in 1..n : (Pointers!Held(c)' <=> Pointers!Held(c)) /\ (c \in released' <=> c \in released)
    BY <1>4, <1>5 DEF Pointers!Held
  <1>9. ASSUME NEW c, c = n + 1
        PROVE  ended'[c] = 0 /\ c \in released' /\ ~Pointers!Held(c)' /\ \A s \in Slots : cell[s] # c
    BY <1>2, <1>5, <1>9 DEF Pointers!Held
  <1>10. Pointers!CellsFit'
    <2> SUFFICES ASSUME NEW c \in Pointers!Made'
                 PROVE  /\ ended'[c] = IF Pointers!Held(c)' \/ c \in released' THEN 0 ELSE 1
                        /\ Pointers!Held(c)' => c \notin released'
                        /\ \A q, r \in Slots : cell[q] = c /\ cell[r] = c => q = r
      BY <1>1 DEF Pointers!CellsFit
    <2>1. CASE c = n + 1
      BY <1>9, <2>1
    <2>2. CASE c \in 1..n
      BY <1>1, <1>2, <1>8, <2>2 DEF Pointers!CellsFit
    <2> QED BY <1>4, <2>1, <2>2
  <1> QED BY <1>6, <1>7, <1>10 DEF Pointers!IInv

LEMMA CellReleased ==
  ASSUME Pointers!TypeOK, Pointers!TagFits, Pointers!CellsFit, NEW s \in Slots, Pointers!Release(s), kind' = kind
  PROVE  Pointers!IInv'
  <1> DEFINE n == Len(actual)
             x == cell[s]
  <1>1. /\ actual \in Seq(Pointers!Types) /\ ended \in Seq(Nat) /\ Len(ended) = n /\ n \in Nat
        /\ cell \in [Slots -> 0..n] /\ released \subseteq 1..n /\ tag \in [Slots -> Pointers!Types \cup {"none"}]
        /\ Pointers!Made = 1..n /\ Pointers!Made' = 1..n
    BY PointerTypes DEF Pointers!Types, Pointers!Made, Pointers!Release
  <1> HIDE DEF n
  <1>2. /\ cell' \in [Slots -> 0..n] /\ cell'[s] = 0 /\ \A r \in Slots \ {s} : cell'[r] = cell[r]
        /\ tag' \in [Slots -> Pointers!Types \cup {"none"}] /\ tag'[s] = "none" /\ \A r \in Slots \ {s} : tag'[r] = tag[r]
        /\ x \in 1..n /\ released' = released \cup {x} /\ UNCHANGED <<actual, ended, usage>>
    BY <1>1 DEF Pointers!Release, Pointers!None, Pointers!NoTag
  <1>3. Pointers!TypeOK'
    BY <1>1, <1>2 DEF Pointers!TypeOK, Pointers!None, Pointers!NoTag
  <1>4. Pointers!TagFits'
    BY <1>2 DEF Pointers!TagFits, Pointers!None, Pointers!NoTag
  <1>5. Pointers!CellsFit'
    <2> SUFFICES ASSUME NEW c \in 1..n
                 PROVE  /\ ended[c] = IF Pointers!Held(c)' \/ c \in released' THEN 0 ELSE 1
                        /\ Pointers!Held(c)' => c \notin released'
                        /\ \A q, r \in Slots : cell'[q] = c /\ cell'[r] = c => q = r
      BY <1>1, <1>2 DEF Pointers!CellsFit
    <2>1. /\ ended[c] = IF Pointers!Held(c) \/ c \in released THEN 0 ELSE 1
          /\ Pointers!Held(c) => c \notin released
          /\ \A q, r \in Slots : cell[q] = c /\ cell[r] = c => q = r
      BY <1>1 DEF Pointers!CellsFit
    <2>2. CASE c = x
      <3>1. Pointers!Held(c) /\ ~Pointers!Held(c)' /\ c \in released'
        BY <1>2, <2>1, <2>2 DEF Pointers!Held
      <3> QED BY <1>2, <2>1, <3>1
    <2>3. CASE c # x
      <3>1. (Pointers!Held(c)' <=> Pointers!Held(c)) /\ (c \in released' <=> c \in released)
        BY <1>2, <2>3 DEF Pointers!Held
      <3> QED BY <1>2, <2>1, <3>1
    <2> QED BY <2>2, <2>3
  <1> QED BY <1>3, <1>4, <1>5 DEF Pointers!IInv

LEMMA EitherOrder ==
  ASSUME NEW S, NEW T, NEW f \in [S -> T], NEW a \in S, NEW b \in S, a # b, NEW x, NEW y
  PROVE  [f EXCEPT ![a] = x, ![b] = y] = [f EXCEPT ![b] = y, ![a] = x]
  OBVIOUS

(* Every operation is one of these, or ends what the program may count on.    *)
LEMMA PointersNext == Pointers!IInv /\ [Pointers!Next]_pointerVars => Pointers!IInv'
  <1> SUFFICES ASSUME Pointers!IInv, [Pointers!Next]_pointerVars PROVE Pointers!IInv'
    OBVIOUS
  <1>1. CASE UNCHANGED pointerVars
    BY <1>1 DEF pointerVars, Pointers!IInv, Pointers!TypeOK, Pointers!TagFits, Pointers!CellsFit, Pointers!Held, Pointers!Made
  <1>2. CASE Pointers!Next
    <2>1. Pointers!TypeOK /\ Pointers!TagFits /\ Pointers!CellsFit /\ kind' = kind /\ usage \in {"careful", "self_assigned"}
      BY <1>2 DEF Pointers!Next, Pointers!IInv, Pointers!TypeOK
    <2> USE DEF Pointers!None, Pointers!NoTag
    <2>2. ASSUME Pointers!Gone PROVE Pointers!IInv'
      BY <2>1, <2>2 DEF Pointers!Gone, Pointers!IInv, Pointers!TypeOK, Pointers!TagFits, Pointers!CellsFit, Pointers!Held, Pointers!Made
    <2>3. ASSUME NEW s \in Slots, NEW t \in Pointers!Types, Pointers!Create(s, t) PROVE Pointers!IInv'
      BY <2>1, <2>3, CellMade DEF Pointers!Create
    <2>4. ASSUME NEW s \in Slots, Pointers!Convert(s) PROVE Pointers!IInv'
      <3>1. cell[s] # 0 /\ tag[s] \in Pointers!Types
        BY <2>1, <2>4, PointerTypes DEF Pointers!Convert, Pointers!TagFits, Pointers!TypeOK, Pointers!Made, Pointers!Types
      <3>2. CASE tag[s] = "unique"
        BY <2>2, <2>4, <3>2 DEF Pointers!Convert
      <3>3. CASE tag[s] # "unique"
        BY <2>1, <2>4, <3>1, <3>3, CellGiven DEF Pointers!Convert
      <3> QED BY <3>2, <3>3
    <2>5. ASSUME NEW s \in Slots, Pointers!Release(s) PROVE Pointers!IInv'
      BY <2>1, <2>5, CellReleased
    <2>6. ASSUME NEW s \in Slots, Pointers!Reset(s) PROVE Pointers!IInv'
      BY <2>1, <2>6, CellCleared DEF Pointers!Reset
    <2>7. ASSUME NEW s \in Slots, Pointers!ResetByWorker(s) PROVE Pointers!IInv'
      BY <2>2, <2>7 DEF Pointers!ResetByWorker
    <2>8. ASSUME NEW s \in Slots, NEW r \in Slots, Pointers!MoveAssign(s, r) PROVE Pointers!IInv'
      <3>1. usage' \in {"careful", "self_assigned", "gone"}
        BY <2>1, <2>8 DEF Pointers!MoveAssign, Pointers!Uses
      <3>2. CASE s = r
        <4>1. cell' = [cell EXCEPT ![s] = 0] /\ tag' = [tag EXCEPT ![s] = "none"]
          BY <2>1, <2>8, <3>2, PointerTypes DEF Pointers!MoveAssign
        <4> QED BY <2>1, <2>8, <3>1, <4>1, CellCleared DEF Pointers!MoveAssign
      <3>3. CASE s # r
        BY <2>1, <2>8, <3>1, <3>3, CellMoved DEF Pointers!MoveAssign
      <3> QED BY <3>2, <3>3
    <2>9. ASSUME NEW s \in Slots, NEW r \in Slots, Pointers!MoveLocked(s, r) PROVE Pointers!IInv'
      <3>1. CASE s = r
        <4>1. cell' = cell /\ tag' = tag /\ kind' = "locked" /\ usage' = "gone"
          BY <2>1, <2>9, <3>1, PointerTypes DEF Pointers!MoveLocked
        <4>2. ended' \in Seq(Nat) /\ Len(ended') = Len(actual) /\ UNCHANGED <<actual, released>>
          BY <2>1, <2>9, PointerTypes, EndCounts DEF Pointers!MoveLocked
        <4> QED BY <2>1, <4>1, <4>2 DEF Pointers!IInv, Pointers!TypeOK, Pointers!TagFits, Pointers!Made
      <3>2. CASE s # r
        <4>1. cell' = [cell EXCEPT ![s] = cell[r], ![r] = 0] /\ tag' = [tag EXCEPT ![s] = tag[r], ![r] = "none"]
          <5>1. /\ cell' = [cell EXCEPT ![r] = 0, ![s] = cell[r]] /\ tag' = [tag EXCEPT ![r] = "none", ![s] = tag[r]]
                /\ cell \in [Slots -> 0..Len(actual)] /\ tag \in [Slots -> {"copied", "unique", "none"}]
            BY <2>1, <2>9, PointerTypes DEF Pointers!MoveLocked
          <5>2. [cell EXCEPT ![r] = 0, ![s] = cell[r]] = [cell EXCEPT ![s] = cell[r], ![r] = 0]
            BY <3>2, <5>1, EitherOrder
          <5>3. [tag EXCEPT ![r] = "none", ![s] = tag[r]] = [tag EXCEPT ![s] = tag[r], ![r] = "none"]
            BY <3>2, <5>1, EitherOrder
          <5> QED BY <5>1, <5>2, <5>3
        <4>2. usage' = usage
          BY <2>9, <3>2 DEF Pointers!MoveLocked
        <4> QED BY <2>1, <2>9, <3>2, <4>1, <4>2, CellMoved DEF Pointers!MoveLocked
      <3> QED BY <3>1, <3>2
    <2>10. ASSUME NEW s \in Slots, NEW r \in Slots, Pointers!Swap(s, r) PROVE Pointers!IInv'
      BY <2>1, <2>10, CellsSwapped DEF Pointers!Swap, Pointers!IInv
    <2>11. ASSUME NEW s \in Slots, NEW r \in Slots, Pointers!MoveConstruct(s, r) PROVE Pointers!IInv'
      BY <2>2, <2>11 DEF Pointers!MoveConstruct
    <2>12. ASSUME NEW s \in Slots, NEW r \in Slots, Pointers!CopyAssign(s, r) PROVE Pointers!IInv'
      <3> DEFINE cellOf == IF s = r THEN 0 ELSE cell[r]
      <3>1. CASE /\ cellOf # 0 /\ tag[r] = "copied" /\ Pointers!Uses(s, r)
                 /\ actual' = Append(actual, tag[r]) /\ ended' = Append(Pointers!Ended(cell[s], ended), 0)
                 /\ cell' = [cell EXCEPT ![s] = Len(actual')] /\ tag' = [tag EXCEPT ![s] = tag[r]]
                 /\ UNCHANGED released
        <4>1. tag[r] \in Pointers!Types /\ usage' \in {"careful", "self_assigned", "gone"}
          BY <2>1, <3>1 DEF Pointers!Types, Pointers!Uses
        <4> QED BY <2>1, <3>1, <4>1, CellMade
      <3>2. CASE /\ cellOf = 0 /\ kind = "value" /\ Pointers!Uses(s, r)
                 /\ ended' = Pointers!Ended(cell[s], ended)
                 /\ cell' = [cell EXCEPT ![s] = 0] /\ tag' = [tag EXCEPT ![s] = "none"]
                 /\ UNCHANGED <<actual, released>>
        <4>1. usage' \in {"careful", "self_assigned", "gone"}
          BY <2>1, <3>2 DEF Pointers!Uses
        <4> QED BY <2>1, <3>2, <4>1, CellCleared
      <3>3. CASE Pointers!Gone
        BY <2>2, <3>3
      <3> QED BY <2>12, <3>1, <3>2, <3>3 DEF Pointers!CopyAssign
    <2> QED BY <1>2, <2>3, <2>4, <2>5, <2>6, <2>7, <2>8, <2>9, <2>10, <2>11, <2>12 DEF Pointers!Next
  <1> QED BY <1>1, <1>2

LEMMA PointersCount == \A S : Pointers!Cardinality(S) = Cardinality(S)
  BY DEF Pointers!Cardinality, Cardinality

LEMMA EveryCell == Pointers!IInv => Pointers!EndedOnce
  <1> SUFFICES ASSUME Pointers!IInv, kind = "locked" => usage # "gone", NEW c \in Pointers!Made
               PROVE  /\ ended[c] <= 1
                      /\ Cardinality({s \in Slots : cell[s] = c}) + Cardinality(released \cap {c}) + ended[c] = 1
    BY PointersCount DEF Pointers!EndedOnce
  <1> DEFINE H == {s \in Slots : cell[s] = c}
             G == released \cap {c}
  <1>1. /\ ended[c] = IF Pointers!Held(c) \/ c \in released THEN 0 ELSE 1
        /\ Pointers!Held(c) => c \notin released
        /\ \A s, r \in Slots : cell[s] = c /\ cell[r] = c => s = r
    BY DEF Pointers!IInv, Pointers!CellsFit
  <1>2. (Pointers!Held(c) <=> H # {}) /\ (c \in released <=> G # {})
    BY DEF Pointers!Held
  <1>3. (\A x, y \in H : x = y) /\ (\A x, y \in G : x = y)
    BY <1>1
  <1> HIDE DEF H, G
  <1>4. /\ Cardinality(H) \in {0, 1} /\ (Cardinality(H) = 1 <=> H # {})
        /\ Cardinality(G) \in {0, 1} /\ (Cardinality(G) = 1 <=> G # {})
    BY <1>3, AtMostOne
  <1>5. ended[c] <= 1 /\ Cardinality(H) + Cardinality(G) + ended[c] = 1
    BY <1>1, <1>2, <1>4
  <1> QED BY <1>5 DEF H, G

-----------------------------------------------------------------------------
LEMMA PoolPart == OwnersSpec => Pool!Init /\ [][Pool!Next]_poolVars
  <1>1. OwnersInit => Pool!Init
    BY DEF OwnersInit
  <1>2. [OwnersNext]_<<part, vars, clientVars, containerVars, registryVars, poolVars, pointerVars>>
          => [Pool!Next]_poolVars
    BY DEF OwnersNext, poolVars
  <1> QED BY <1>1, <1>2, PTL DEF OwnersSpec

LEMMA PointersPart == OwnersSpec => Pointers!Init /\ [][Pointers!Next]_pointerVars
  <1>1. OwnersInit => Pointers!Init
    BY DEF OwnersInit
  <1>2. [OwnersNext]_<<part, vars, clientVars, containerVars, registryVars, poolVars, pointerVars>>
          => [Pointers!Next]_pointerVars
    BY DEF OwnersNext, pointerVars
  <1> QED BY <1>1, <1>2, PTL DEF OwnersSpec

(* In programs that add no item twice, listeners and tokens keep up with the  *)
(* registry; whatever is done to the pool, no object is in two places, and    *)
(* with care each is in one; and a cell is ended once, as what it was made.   *)
THEOREM OwnershipKept == ASSUME Once PROVE OwnersSpec => []OwnershipSafe
  <1>1. Registry!IInv => Registry!TypeOK /\ Registry!ListenersKnow /\ Registry!TokensRemove
    BY TokensStand DEF Registry!IInv
  <1>2. Pool!IInv => Pool!TypeOK /\ Pool!OnePlace /\ Pool!NeverTwice
    BY EveryPlace, NeverInTwo DEF Pool!IInv
  <1>3. Pointers!IInv => Pointers!TypeOK /\ Pointers!EndedOnce /\ Pointers!TagFits
    BY EveryCell DEF Pointers!IInv
  <1>4. OwnersSpec => []Pool!IInv
    BY PoolInit, PoolNext, PoolPart, PTL
  <1>5. OwnersSpec => []Pointers!IInv
    BY PointersInit, PointersNext, PointersPart, PTL
  <1>6. Registry!IInv /\ Pool!IInv /\ Pointers!IInv => OwnershipSafe
    BY <1>1, <1>2, <1>3 DEF OwnershipSafe
  <1> QED BY <1>4, <1>5, <1>6, RegistryInvariant, PTL

-----------------------------------------------------------------------------
(* dependency_container. What is a sequence, of whatever elements, stays one. *)
LEMMA SeqOfAny ==
  ASSUME NEW S, NEW s \in Seq(S)
  PROVE  Container!IsSeq(s)
  <1> DEFINE T == {s[i] : i \in DOMAIN s}
  <1>1. DOMAIN s = 1..Len(s) /\ Len(s) \in Nat /\ s = [i \in 1..Len(s) |-> s[i]]
    BY LenProperties
  <1>2. \A i \in 1..Len(s) : s[i] \in T
    BY <1>1
  <1>3. s \in Seq(T)
    BY <1>1, <1>2, SeqDef
  <1> QED BY <1>3 DEF Container!IsSeq

LEMMA SeqLonger ==
  ASSUME NEW s, NEW x, Container!IsSeq(s)
  PROVE  /\ s \in Seq({s[i] : i \in DOMAIN s} \cup {x}) /\ x \in {s[i] : i \in DOMAIN s} \cup {x}
         /\ Len(s) \in Nat /\ DOMAIN s = 1..Len(s)
  <1> DEFINE T == {s[i] : i \in DOMAIN s}
             U == T \cup {x}
  <1>1. s \in Seq(T)
    BY DEF Container!IsSeq
  <1>2. DOMAIN s = 1..Len(s) /\ Len(s) \in Nat /\ s = [i \in 1..Len(s) |-> s[i]] /\ \A i \in 1..Len(s) : s[i] \in T
    BY <1>1, LenProperties, ElementOfSeq
  <1>3. \A i \in 1..Len(s) : s[i] \in U
    BY <1>2
  <1> HIDE DEF T, U
  <1>4. s \in Seq(U)
    BY <1>2, <1>3, SeqDef
  <1> QED BY <1>2, <1>4 DEF T, U

Appended(s, x) == Append(s, x)

LEMMA SeqAppended ==
  ASSUME NEW s, NEW x, Container!IsSeq(s)
  PROVE  /\ Container!IsSeq(Appended(s, x)) /\ Len(s) \in Nat /\ Len(Appended(s, x)) = Len(s) + 1
         /\ Appended(s, x)[Len(s) + 1] = x /\ \A i \in 1..Len(s) : Appended(s, x)[i] = s[i]
  <1> DEFINE U == {s[i] : i \in DOMAIN s} \cup {x}
             t == Append(s, x)
  <1>1. s \in Seq(U) /\ x \in U /\ Len(s) \in Nat
    BY SeqLonger
  <1> HIDE DEF U
  <1>2. t \in Seq(U) /\ Len(t) = Len(s) + 1 /\ t[Len(s) + 1] = x /\ \A i \in 1..Len(s) : t[i] = s[i]
    BY <1>1, AppendProperties
  <1>3. t = Appended(s, x)
    BY DEF Appended
  <1> HIDE DEF t
  <1>4. Container!IsSeq(t)
    BY <1>2, SeqOfAny
  <1> QED BY <1>1, <1>2, <1>3, <1>4

Pushed(x, s) == <<x>> \o s

LEMMA SeqPushed ==
  ASSUME NEW s, NEW x, Container!IsSeq(s)
  PROVE  /\ Container!IsSeq(Pushed(x, s)) /\ Pushed(x, s) # <<>> /\ Len(s) \in Nat /\ Len(Pushed(x, s)) = Len(s) + 1
         /\ Pushed(x, s)[1] = x /\ 1 \in 1..Len(Pushed(x, s))
         /\ \A i \in 1..Len(s) : Pushed(x, s)[i + 1] = s[i]
         /\ \A i \in 2..Len(Pushed(x, s)) : i - 1 \in 1..Len(s) /\ Pushed(x, s)[i] = s[i - 1]
  <1> DEFINE U == {s[i] : i \in DOMAIN s} \cup {x}
             t == <<x>> \o s
  <1>1. s \in Seq(U) /\ x \in U /\ Len(s) \in Nat
    BY SeqLonger
  <1> HIDE DEF U
  <1>2. <<x>> \in Seq(U) /\ Len(<<x>>) = 1 /\ <<x>>[1] = x
    BY <1>1
  <1>3. t \in Seq(U) /\ Len(t) = 1 + Len(s) /\ \A i \in 1..(1 + Len(s)) : t[i] = IF i <= 1 THEN <<x>>[i] ELSE s[i - 1]
    BY <1>1, <1>2, ConcatProperties
  <1>4. \A i \in 1..Len(s) : i + 1 \in 1..(1 + Len(s)) /\ ~(i + 1 <= 1) /\ (i + 1) - 1 = i
    BY <1>1
  <1>5. \A i \in 2..Len(t) : i \in 1..(1 + Len(s)) /\ ~(i <= 1) /\ i - 1 \in 1..Len(s)
    BY <1>1, <1>3
  <1>6. t[1] = x /\ Len(t) = Len(s) + 1 /\ t # <<>>
    BY <1>1, <1>2, <1>3
  <1>7. Container!IsSeq(t)
    BY <1>3, SeqOfAny
  <1>8. t = Pushed(x, s)
    BY DEF Pushed
  <1> HIDE DEF t
  <1> QED BY <1>1, <1>3, <1>4, <1>5, <1>6, <1>7, <1>8

Popped(s) == Tail(s)

LEMMA SeqRest ==
  ASSUME NEW s, Container!IsSeq(s), s # <<>>
  PROVE  /\ Container!IsSeq(Popped(s)) /\ Len(s) \in Nat \ {0} /\ Len(Popped(s)) = Len(s) - 1 /\ Head(s) = s[1]
         /\ 1 \in 1..Len(s)
         /\ \A i \in 1..Len(Popped(s)) : Popped(s)[i] = s[i + 1] /\ i + 1 \in 1..Len(s)
         /\ \A i \in 2..Len(s) : i - 1 \in 1..Len(Popped(s)) /\ Popped(s)[i - 1] = s[i]
  <1> DEFINE T == {s[i] : i \in DOMAIN s}
             t == Tail(s)
  <1>1. s \in Seq(T)
    BY DEF Container!IsSeq
  <1> HIDE DEF T
  <1>2. /\ t \in Seq(T) /\ Len(t) = Len(s) - 1 /\ Len(s) \in Nat \ {0} /\ Head(s) = s[1]
        /\ \A i \in 1..(Len(s) - 1) : t[i] = s[i + 1]
    BY <1>1, HeadTailProperties, LenProperties, EmptySeq
  <1>3. Container!IsSeq(t)
    BY <1>2, SeqOfAny
  <1>4. \A i \in 2..Len(s) : i - 1 \in 1..Len(t) /\ (i - 1) + 1 = i
    BY <1>2
  <1>5. \A i \in 1..Len(t) : i + 1 \in 1..Len(s)
    BY <1>2
  <1>6. 1 \in 1..Len(s)
    BY <1>2
  <1>7. t = Popped(s)
    BY DEF Popped
  <1> HIDE DEF t
  <1> QED BY <1>2, <1>3, <1>4, <1>5, <1>6, <1>7

LEMMA SeqPopped ==
  ASSUME NEW s, Container!IsSeq(s), s # <<>>, NEW t, t = Tail(s)
  PROVE  /\ Container!IsSeq(t) /\ Len(s) \in Nat \ {0} /\ Len(t) = Len(s) - 1 /\ Head(s) = s[1] /\ 1 \in 1..Len(s)
         /\ \A i \in 1..Len(t) : t[i] = s[i + 1] /\ i + 1 \in 1..Len(s)
         /\ \A i \in 2..Len(s) : i - 1 \in 1..Len(t) /\ t[i - 1] = s[i]
  <1>1. t = Popped(s)
    BY DEF Popped
  <1>2. /\ Container!IsSeq(Popped(s)) /\ Len(s) \in Nat \ {0} /\ Len(Popped(s)) = Len(s) - 1 /\ Head(s) = s[1]
        /\ 1 \in 1..Len(s)
        /\ \A i \in 1..Len(Popped(s)) : Popped(s)[i] = s[i + 1] /\ i + 1 \in 1..Len(s)
        /\ \A i \in 2..Len(s) : i - 1 \in 1..Len(Popped(s)) /\ Popped(s)[i - 1] = s[i]
    BY SeqRest
  <1> QED BY <1>1, <1>2

LEMMA SeqNone == Container!IsSeq(<<>>) /\ Len(<<>>) = 0 /\ \A x : Container!IsSeq(<<x>>) /\ Len(<<x>>) = 1 /\ <<x>>[1] = x
  <1>1. <<>> \in Seq({})
    OBVIOUS
  <1>2. Container!IsSeq(<<>>)
    BY <1>1, SeqOfAny
  <1>3. ASSUME NEW x PROVE Container!IsSeq(<<x>>)
    <2>1. <<x>> \in Seq({x})
      OBVIOUS
    <2> QED BY <2>1, SeqOfAny
  <1> QED BY <1>2, <1>3

(* The frame on top is replaced.                                              *)
LEMMA SeqTop ==
  ASSUME NEW s, NEW x, Container!IsSeq(s), s # <<>>
  PROVE  /\ Container!IsSeq(Pushed(x, Tail(s))) /\ Len(s) \in Nat \ {0} /\ Len(Pushed(x, Tail(s))) = Len(s)
         /\ Pushed(x, Tail(s))[1] = x /\ 1 \in 1..Len(s) /\ Pushed(x, Tail(s)) # <<>>
         /\ \A i \in 2..Len(s) : Pushed(x, Tail(s))[i] = s[i]
  <1> DEFINE r == Popped(s)
  <1>1. r = Tail(s)
    BY DEF Popped
  <1>2. /\ Container!IsSeq(r) /\ Len(s) \in Nat \ {0} /\ Len(r) = Len(s) - 1 /\ 1 \in 1..Len(s)
        /\ \A i \in 2..Len(s) : r[i - 1] = s[i]
    BY SeqRest
  <1> HIDE DEF r
  <1>3. /\ Container!IsSeq(Pushed(x, r)) /\ Len(Pushed(x, r)) = Len(r) + 1 /\ Pushed(x, r)[1] = x /\ Pushed(x, r) # <<>>
        /\ \A i \in 2..Len(Pushed(x, r)) : Pushed(x, r)[i] = r[i - 1]
    BY <1>2, SeqPushed
  <1>4. /\ Container!IsSeq(Pushed(x, r)) /\ Len(Pushed(x, r)) = Len(s) /\ Pushed(x, r)[1] = x /\ Pushed(x, r) # <<>>
        /\ \A i \in 2..Len(s) : Pushed(x, r)[i] = s[i]
    BY <1>2, <1>3
  <1> QED BY <1>1, <1>2, <1>4

-----------------------------------------------------------------------------
(* What is registered stays, and so does what it resolves to.                 *)
Grows(R, R2) ==
  \A c \in Container!Containers : \A t \in DOMAIN R[c] :
    /\ t \in DOMAIN R2[c] /\ R2[c][t].lifetime = R[c][t].lifetime /\ R2[c][t].factory = R[c][t].factory
    /\ R[c][t].value # Container!Null => R2[c][t].value = R[c][t].value

\* A thread holds what it held.
SameHeld(R, R2, h) ==
  \A c \in Container!Containers :
    /\ \A t \in DOMAIN R2[c] : R2[c][t].holder = h => t \in DOMAIN R[c] /\ R[c][t].holder = h
    /\ \A t \in DOMAIN R[c] : R[c][t].holder = h => R2[c][t].holder = h

LEMMA GrowsParts ==
  ASSUME NEW R, NEW R2, Grows(R, R2), NEW c \in Container!Containers, NEW needs, NEW parts,
         Container!GoodParts(R, c, needs, parts)
  PROVE  Container!GoodParts(R2, c, needs, parts)
  <1>1. \A t, x : Container!Good(R, c, t, x) => Container!Good(R2, c, t, x)
    BY DEF Grows, Container!Good
  <1> QED BY <1>1 DEF Container!GoodParts

LEMMA RegistrationParts ==
  ASSUME NEW R, Container!RegistrationsOK(R), NEW c \in Container!Containers, NEW t \in DOMAIN R[c]
  PROVE  /\ t \in Container!Types /\ Container!RegistrationOK(c, t, R[c][t])
         /\ R[c][t].lifetime \in {"singleton", "transient"} /\ R[c][t].holder \in Users \cup {Nobody}
         /\ R[c][t].factory.container \in Container!Containers /\ R[c][t].factory.needs \in Seq(Container!Types)
         /\ R[c][t].factory.kind \in {"make", "alias", "instance", "nothing"}
         /\ R[c][t].holder # Nobody => R[c][t].lifetime = "singleton" /\ R[c][t].value = Container!Null
  <1>1. t \in Container!Types /\ Container!RegistrationOK(c, t, R[c][t])
    BY DEF Container!RegistrationsOK
  <1>2. PICK r : r = R[c][t]
    OBVIOUS
  <1>3. Container!RegistrationOK(c, t, r)
    BY <1>1, <1>2
  <1>4. /\ r.lifetime \in {"singleton", "transient"} /\ r.holder \in Users \cup {Nobody}
        /\ r.holder # Nobody => r.lifetime = "singleton" /\ r.value = Container!Null
    BY <1>3 DEF Container!RegistrationOK
  <1>5. Container!FactoryOK(c, t, r.factory)
    BY <1>3 DEF Container!RegistrationOK
  <1>6. PICK f : f = r.factory
    OBVIOUS
  <1>7. f.container \in Container!Containers /\ f.needs \in Seq(Container!Types)
        /\ f.kind \in {"make", "alias", "instance", "nothing"}
    BY <1>5, <1>6 DEF Container!FactoryOK
  <1> QED BY <1>1, <1>2, <1>4, <1>6, <1>7

LEMMA FrameParts ==
  ASSUME NEW R, Container!RegistrationsOK(R), NEW f, Container!FrameOK(R, f)
  PROVE  /\ f.container \in Container!Containers /\ f.type \in Container!Types /\ f.throws \in BOOLEAN
         /\ f.step \in {"look", "enter", "build"}
         /\ f.step # "look" => f.type \in DOMAIN R[f.container]
         /\ f.step # "look" => Container!At(R, f).factory.container \in Container!Containers
  <1>1. /\ f.container \in Container!Containers /\ f.type \in Container!Types /\ f.throws \in BOOLEAN
        /\ f.step \in {"look", "enter", "build"}
        /\ f.step # "look" => f.type \in DOMAIN R[f.container]
    BY DEF Container!FrameOK
  <1>2. ASSUME f.step # "look" PROVE Container!At(R, f).factory.container \in Container!Containers
    <2>1. R[f.container][f.type].factory.container \in Container!Containers
      BY <1>1, <1>2, RegistrationParts
    <2> QED BY <2>1 DEF Container!At
  <1> QED BY <1>1, <1>2

LEMMA GrowsFrame ==
  ASSUME NEW R, NEW R2, Container!RegistrationsOK(R), Grows(R, R2), NEW f, Container!FrameOK(R, f)
  PROVE  /\ Container!FrameOK(R2, f)
         /\ f.step # "look" => /\ Container!At(R2, f).factory = Container!At(R, f).factory
                               /\ Container!At(R2, f).lifetime = Container!At(R, f).lifetime
         /\ \A g : Container!Awaits(R, f, g) => Container!Awaits(R2, f, g)
  <1>1. /\ f.container \in Container!Containers
        /\ f.step # "look" => f.type \in DOMAIN R[f.container]
        /\ f.step # "look" => Container!At(R, f).factory.container \in Container!Containers
    BY FrameParts
  <1>2. ASSUME f.step # "look"
        PROVE  /\ f.type \in DOMAIN R2[f.container] /\ Container!At(R2, f).factory = Container!At(R, f).factory
               /\ Container!At(R2, f).lifetime = Container!At(R, f).lifetime
    BY <1>1, <1>2 DEF Grows, Container!At
  <1>3. ASSUME f.step = "build"
        PROVE  Container!GoodParts(R2, Container!At(R2, f).factory.container, Container!At(R2, f).factory.needs, f.parts)
    <2>1. Container!GoodParts(R, Container!At(R, f).factory.container, Container!At(R, f).factory.needs, f.parts)
      BY <1>3 DEF Container!FrameOK
    <2> QED BY <1>1, <1>2, <1>3, <2>1, GrowsParts
  <1>4. Container!FrameOK(R2, f)
    BY <1>2, <1>3 DEF Container!FrameOK
  <1>5. \A g : Container!Awaits(R, f, g) => Container!Awaits(R2, f, g)
    BY <1>2 DEF Container!Awaits
  <1> QED BY <1>2, <1>4, <1>5

LEMMA GrowsFrames ==
  ASSUME NEW R, NEW R2, Container!RegistrationsOK(R), Grows(R, R2), NEW s, Container!FramesOK(R, s)
  PROVE  Container!FramesOK(R2, s)
  <1>1. Container!IsSeq(s) /\ Len(s) \in Nat
    BY SeqLonger DEF Container!FramesOK
  <1>2. \A i \in 1..Len(s) : Container!FrameOK(R, s[i])
    BY DEF Container!FramesOK
  <1>3. \A i \in 1..Len(s) : Container!FrameOK(R2, s[i])
    BY <1>2, GrowsFrame
  <1>4. ASSUME NEW i \in 2..Len(s) PROVE Container!Awaits(R2, s[i], s[i - 1])
    <2>1. Container!Awaits(R, s[i], s[i - 1]) /\ i \in 1..Len(s)
      BY <1>1 DEF Container!FramesOK
    <2> QED BY <1>2, <2>1, GrowsFrame
  <1> QED BY <1>1, <1>3, <1>4 DEF Container!FramesOK

LEMMA GrowsHeld ==
  ASSUME NEW R, NEW R2, Container!RegistrationsOK(R), Grows(R, R2), NEW h, SameHeld(R, R2, h),
         NEW s, Container!FramesOK(R, s), Container!HeldOK(R, h, s)
  PROVE  Container!HeldOK(R2, h, s)
  <1>1. \A i \in 1..Len(s) : Container!FrameOK(R, s[i])
    BY DEF Container!FramesOK
  <1>2. ASSUME NEW i \in 1..Len(s)
        PROVE  /\ s[i].container \in Container!Containers
               /\ Container!Builds(R2, s[i]) => Container!Builds(R, s[i]) /\ s[i].type \in DOMAIN R[s[i].container]
    BY <1>1, FrameParts, GrowsFrame DEF Container!Builds
  <1>3. ASSUME NEW c \in Container!Containers, NEW t \in DOMAIN R2[c], R2[c][t].holder = h
        PROVE  \E i \in 1..Len(s) : Container!IsFor(s[i], c, t)
    BY <1>3 DEF SameHeld, Container!HeldOK
  <1>4. ASSUME NEW i \in 1..Len(s), Container!Builds(R2, s[i]) PROVE Container!At(R2, s[i]).holder = h
    <2>1. Container!At(R, s[i]).holder = h
      BY <1>2, <1>4 DEF Container!HeldOK
    <2> QED BY <1>2, <1>4, <2>1 DEF SameHeld, Container!At
  <1>5. ASSUME NEW i \in 1..Len(s), NEW j \in 1..Len(s), Container!Builds(R2, s[i]),
               Container!IsFor(s[j], s[i].container, s[i].type)
        PROVE  i = j
    BY <1>2, <1>5 DEF Container!HeldOK
  <1> QED BY <1>3, <1>4, <1>5 DEF Container!HeldOK

-----------------------------------------------------------------------------
(* The program's types can be put in an order in which none needs itself.     *)
LEMMA RankBelow == Container!Rank \in [Container!Types -> Nat] /\ Container!Below(Container!Rank)
  <1>1. PICK rank \in Container!Ranks : Container!Below(rank)
    BY ProgramAssumption DEF Container!Acyclic
  <1>2. Container!Rank \in Container!Ranks /\ Container!Below(Container!Rank)
    BY <1>1 DEF Container!Rank
  <1> QED BY <1>2 DEF Container!Ranks

LEMMA NeedsBelow ==
  ASSUME NEW c, NEW t \in Container!Types, NEW factory, Container!FactoryOK(c, t, factory), NEW i \in DOMAIN factory.needs
  PROVE  Container!Rank[factory.needs[i]] < Container!Rank[t]
  <1>1. CASE factory.kind \in {"make", "nothing"}
    <2>1. factory.needs = Default[t].needs
      BY <1>1 DEF Container!FactoryOK
    <2> QED BY <2>1, RankBelow DEF Container!Below
  <1>2. CASE factory.kind = "alias"
    <2>1. PICK pair \in Aliases : t = pair[1] /\ factory.needs = <<pair[2]>>
      BY <1>2 DEF Container!FactoryOK
    <2>2. factory.needs[i] = pair[2]
      BY <2>1
    <2> QED BY <2>1, <2>2, RankBelow DEF Container!Below
  <1>3. CASE factory.kind = "instance"
    <2>1. factory.needs = <<>>
      BY <1>3 DEF Container!FactoryOK
    <2> QED BY <2>1
  <1>4. factory.kind \in {"make", "alias", "instance", "nothing"}
    BY DEF Container!FactoryOK
  <1> QED BY <1>1, <1>2, <1>3, <1>4

LEMMA AwaitsBelow ==
  ASSUME NEW R, Container!RegistrationsOK(R), NEW f, Container!FrameOK(R, f), NEW g, Container!FrameOK(R, g),
         Container!Awaits(R, f, g)
  PROVE  Container!Rank[g.type] < Container!Rank[f.type]
  <1>1. f.step = "build" /\ f.container \in Container!Containers /\ f.type \in DOMAIN R[f.container]
    BY FrameParts DEF Container!Awaits
  <1>2. PICK r : r = R[f.container][f.type]
    OBVIOUS
  <1>3. f.type \in Container!Types /\ Container!FactoryOK(f.container, f.type, r.factory) /\ r.factory.needs \in Seq(Container!Types)
    BY <1>1, <1>2, RegistrationParts DEF Container!RegistrationOK
  <1>4. Container!IsSeq(f.parts)
    BY <1>1 DEF Container!FrameOK, Container!GoodParts
  <1>5. Len(f.parts) \in Nat
    BY <1>4, SeqLonger
  <1>6. g.type = r.factory.needs[Len(f.parts) + 1] /\ Len(f.parts) < Len(r.factory.needs)
    BY <1>2 DEF Container!Awaits, Container!At
  <1>7. Len(f.parts) + 1 \in DOMAIN r.factory.needs
    BY <1>3, <1>5, <1>6
  <1> QED BY <1>3, <1>6, <1>7, NeedsBelow

-----------------------------------------------------------------------------
LEMMA FramesPushed ==
  ASSUME NEW R, NEW s, NEW f, Container!FramesOK(R, s), Container!FrameOK(R, f), s # <<>> => Container!Awaits(R, s[1], f)
  PROVE  Container!FramesOK(R, Pushed(f, s))
  <1> DEFINE t == Pushed(f, s)
  <1>1. Container!IsSeq(s)
    BY DEF Container!FramesOK
  <1>2. /\ Container!IsSeq(t) /\ Len(s) \in Nat /\ Len(t) = Len(s) + 1 /\ t[1] = f
        /\ \A i \in 2..Len(t) : i - 1 \in 1..Len(s) /\ t[i] = s[i - 1]
    BY <1>1, SeqPushed
  <1> HIDE DEF t
  <1>3. ASSUME NEW i \in 1..Len(t) PROVE Container!FrameOK(R, t[i])
    <2>1. CASE i = 1
      BY <1>2, <2>1
    <2>2. CASE i \in 2..Len(t)
      BY <1>2, <2>2 DEF Container!FramesOK
    <2> QED BY <1>2, <2>1, <2>2
  <1>4. ASSUME NEW i \in 2..Len(t) PROVE Container!Awaits(R, t[i], t[i - 1])
    <2>1. CASE i = 2
      <3>1. t[i] = s[1] /\ t[i - 1] = f /\ 1 \in 1..Len(s)
        BY <1>2, <2>1
      <3>2. s # <<>>
        BY <3>1
      <3> QED BY <3>1, <3>2
    <2>2. CASE i \in 3..Len(t)
      <3>1. i - 1 \in 2..Len(t) /\ i - 1 \in 2..Len(s)
        BY <1>2, <2>2
      <3>2. t[i] = s[i - 1] /\ t[i - 1] = s[(i - 1) - 1]
        BY <1>2, <3>1
      <3> QED BY <3>1, <3>2 DEF Container!FramesOK
    <2> QED BY <1>2, <2>1, <2>2
  <1> QED BY <1>2, <1>3, <1>4 DEF Container!FramesOK, t

LEMMA FramesPopped ==
  ASSUME NEW R, NEW s, Container!FramesOK(R, s), s # <<>>
  PROVE  /\ Container!FramesOK(R, Tail(s)) /\ Container!FrameOK(R, s[1])
         /\ Container!Descends(s) => Container!Descends(Tail(s))
         /\ Tail(s) # <<>> => Tail(s)[1] = s[2] /\ Container!Awaits(R, s[2], s[1]) /\ 2 \in 1..Len(s)
  <1> DEFINE t == Tail(s)
  <1>1. Container!IsSeq(s)
    BY DEF Container!FramesOK
  <1>2. /\ Container!IsSeq(t) /\ Len(s) \in Nat \ {0} /\ Len(t) = Len(s) - 1 /\ 1 \in 1..Len(s)
        /\ \A i \in 1..Len(t) : t[i] = s[i + 1] /\ i + 1 \in 1..Len(s)
    BY <1>1, SeqPopped
  <1> HIDE DEF t
  <1>3. Container!FrameOK(R, s[1])
    BY <1>2 DEF Container!FramesOK
  <1>4. \A i \in 1..Len(t) : Container!FrameOK(R, t[i])
    BY <1>2 DEF Container!FramesOK
  <1>5. ASSUME NEW i \in 2..Len(t) PROVE Container!Awaits(R, t[i], t[i - 1])
    <2>1. i \in 1..Len(t) /\ i - 1 \in 1..Len(t) /\ i + 1 \in 2..Len(s) /\ (i - 1) + 1 = (i + 1) - 1
      BY <1>2
    <2>2. t[i] = s[i + 1] /\ t[i - 1] = s[(i + 1) - 1]
      BY <1>2, <2>1
    <2> QED BY <2>1, <2>2 DEF Container!FramesOK
  <1>6. ASSUME Container!Descends(s) PROVE Container!Descends(t)
    <2>1. ASSUME NEW i \in 1..Len(t), NEW j \in 1..Len(t), i < j PROVE Container!Rank[t[i].type] < Container!Rank[t[j].type]
      <3>1. i + 1 \in 1..Len(s) /\ j + 1 \in 1..Len(s) /\ i + 1 < j + 1 /\ t[i] = s[i + 1] /\ t[j] = s[j + 1]
        BY <1>2, <2>1
      <3> QED BY <1>6, <3>1 DEF Container!Descends
    <2> QED BY <2>1 DEF Container!Descends
  <1>7. ASSUME t # <<>> PROVE t[1] = s[2] /\ Container!Awaits(R, s[2], s[1]) /\ 2 \in 1..Len(s)
    <2>1. Len(t) # 0
      BY <1>2, <1>7, EmptySeq DEF Container!IsSeq
    <2>2. 1 \in 1..Len(t) /\ 2 \in 2..Len(s) /\ 2 - 1 = 1 /\ 2 \in 1..Len(s)
      BY <1>2, <2>1
    <2>3. t[1] = s[2]
      BY <1>2, <2>2
    <2> QED BY <2>2, <2>3 DEF Container!FramesOK
  <1> QED BY <1>2, <1>3, <1>4, <1>5, <1>6, <1>7 DEF Container!FramesOK, t

LEMMA DescendsPushed ==
  ASSUME NEW R, NEW s, NEW f, Container!RegistrationsOK(R), Container!FramesOK(R, s), Container!Descends(s),
         Container!FrameOK(R, f), s # <<>> => Container!Awaits(R, s[1], f)
  PROVE  Container!Descends(Pushed(f, s))
  <1> DEFINE t == Pushed(f, s)
  <1>1. Container!IsSeq(s) /\ \A i \in 1..Len(s) : Container!FrameOK(R, s[i])
    BY DEF Container!FramesOK
  <1>2. /\ Container!IsSeq(t) /\ Len(s) \in Nat /\ Len(t) = Len(s) + 1 /\ t[1] = f
        /\ \A i \in 2..Len(t) : i - 1 \in 1..Len(s) /\ t[i] = s[i - 1]
    BY <1>1, SeqPushed
  <1> HIDE DEF t
  <1>3. \A i \in 1..Len(s) : s[i].type \in Container!Types
    BY <1>1, FrameParts
  <1>4. \A i \in 1..Len(s) : Container!Rank[s[i].type] \in Nat
    BY <1>3, RankBelow
  <1>5. Container!Rank[f.type] \in Nat
    BY FrameParts, RankBelow
  <1>6. ASSUME NEW i \in 1..Len(t), NEW j \in 1..Len(t), i < j PROVE Container!Rank[t[i].type] < Container!Rank[t[j].type]
    <2>1. j \in 2..Len(t) /\ j - 1 \in 1..Len(s) /\ t[j] = s[j - 1] /\ 1 \in 1..Len(s) /\ s # <<>>
      BY <1>2, <1>6
    <2>2. Container!Rank[f.type] < Container!Rank[s[1].type]
      BY <1>1, <2>1, AwaitsBelow
    <2>3. CASE i = 1 /\ j = 2
      BY <1>2, <2>1, <2>2, <2>3
    <2>4. CASE i = 1 /\ j # 2
      <3>1. 1 < j - 1
        BY <1>2, <2>1, <2>4
      <3>2. Container!Rank[s[1].type] < Container!Rank[s[j - 1].type]
        BY <2>1, <3>1 DEF Container!Descends
      <3> QED BY <1>2, <1>4, <1>5, <2>1, <2>2, <2>4, <3>2
    <2>5. CASE i # 1
      <3>1. i \in 2..Len(t) /\ i - 1 < j - 1
        BY <1>2, <1>6, <2>1, <2>5
      <3>2. i - 1 \in 1..Len(s) /\ t[i] = s[i - 1]
        BY <1>2, <3>1
      <3> QED BY <2>1, <3>1, <3>2 DEF Container!Descends
    <2> QED BY <2>3, <2>4, <2>5
  <1>7. Container!Descends(t)
    BY <1>6 DEF Container!Descends
  <1> QED BY <1>7 DEF t

-----------------------------------------------------------------------------
\* What a thread holds after it has left the frame f: no longer what f was building.
LeavesHeld(R, R2, h, f) ==
  \A c \in Container!Containers :
    /\ \A t \in DOMAIN R2[c] : R2[c][t].holder = h =>
         t \in DOMAIN R[c] /\ R[c][t].holder = h /\ ~(Container!Builds(R, f) /\ c = f.container /\ t = f.type)
    /\ \A t \in DOMAIN R[c] : R[c][t].holder = h /\ ~(c = f.container /\ t = f.type) => R2[c][t].holder = h

LEMMA ThreadLeaves ==
  ASSUME NEW R, NEW R2, Container!RegistrationsOK(R), Grows(R, R2), NEW h \in Users, NEW s, Container!ThreadOK(R, h, s),
         s # <<>>, LeavesHeld(R, R2, h, s[1])
  PROVE  Container!ThreadOK(R2, h, Tail(s))
  <1> DEFINE u == Tail(s)
  <1>1. Container!FramesOK(R, s) /\ Container!HeldOK(R, h, s) /\ Container!Descends(s) /\ Container!IsSeq(s)
    BY DEF Container!ThreadOK, Container!FramesOK
  <1>2. Container!FramesOK(R, u) /\ Container!Descends(u)
    BY <1>1, FramesPopped
  <1>3. /\ Len(s) \in Nat \ {0} /\ Len(u) = Len(s) - 1 /\ 1 \in 1..Len(s)
        /\ \A i \in 1..Len(u) : u[i] = s[i + 1] /\ i + 1 \in 1..Len(s)
        /\ \A i \in 2..Len(s) : i - 1 \in 1..Len(u) /\ u[i - 1] = s[i]
    BY <1>1, SeqPopped
  <1> HIDE DEF u
  <1>4. Container!FramesOK(R2, u)
    BY <1>2, GrowsFrames
  <1>5. ASSUME NEW c \in Container!Containers, NEW t \in DOMAIN R2[c], R2[c][t].holder = h
        PROVE  \E i \in 1..Len(u) : Container!IsFor(u[i], c, t)
    <2>1. t \in DOMAIN R[c] /\ R[c][t].holder = h /\ ~(Container!Builds(R, s[1]) /\ c = s[1].container /\ t = s[1].type)
      BY <1>5 DEF LeavesHeld
    <2>2. PICK i \in 1..Len(s) : Container!IsFor(s[i], c, t)
      BY <1>1, <2>1 DEF Container!HeldOK
    <2>3. R[c][t].lifetime = "singleton"
      BY <2>1, RegistrationParts, OwnersAssumption
    <2>4. i # 1
      BY <2>1, <2>2, <2>3 DEF Container!IsFor, Container!Builds, Container!At
    <2>5. i - 1 \in 1..Len(u) /\ u[i - 1] = s[i]
      BY <1>3, <2>4
    <2> QED BY <2>2, <2>5
  <1>6. ASSUME NEW i \in 1..Len(u)
        PROVE  /\ u[i] = s[i + 1] /\ i + 1 \in 1..Len(s) /\ u[i].container \in Container!Containers
               /\ Container!Builds(R2, u[i]) => Container!Builds(R, u[i]) /\ u[i].type \in DOMAIN R[u[i].container]
    <2>1. Container!FrameOK(R, u[i])
      BY <1>2 DEF Container!FramesOK
    <2> QED BY <1>3, <2>1, FrameParts, GrowsFrame DEF Container!Builds
  <1>7. ASSUME NEW i \in 1..Len(u), Container!Builds(R2, u[i]) PROVE Container!At(R2, u[i]).holder = h
    <2>1. Container!Builds(R, s[i + 1]) /\ u[i] = s[i + 1] /\ i + 1 \in 1..Len(s) /\ i + 1 # 1
      <3>1. Container!Builds(R, u[i]) /\ u[i] = s[i + 1] /\ i + 1 \in 1..Len(s)
        BY <1>6, <1>7
      <3>2. i + 1 # 1
        BY <1>3
      <3> QED BY <3>1, <3>2
    <2>2. Container!At(R, u[i]).holder = h
      BY <1>1, <2>1 DEF Container!HeldOK
    <2>3. ~(u[i].container = s[1].container /\ u[i].type = s[1].type)
      <3>1. 1 < i + 1 /\ 1 \in 1..Len(s)
        BY <1>3
      <3>2. Container!Rank[s[1].type] < Container!Rank[s[i + 1].type]
        BY <1>1, <2>1, <3>1 DEF Container!Descends
      <3>3. Container!FrameOK(R, s[1])
        BY <1>1, <3>1 DEF Container!FramesOK
      <3>4. Container!Rank[s[1].type] \in Nat
        BY <3>3, FrameParts, RankBelow
      <3> QED BY <2>1, <3>2, <3>4
    <2> QED BY <1>6, <1>7, <2>2, <2>3 DEF LeavesHeld, Container!At
  <1>8. ASSUME NEW i \in 1..Len(u), NEW j \in 1..Len(u), Container!Builds(R2, u[i]),
               Container!IsFor(u[j], u[i].container, u[i].type)
        PROVE  i = j
    <2>1. Container!Builds(R, s[i + 1]) /\ i + 1 \in 1..Len(s) /\ j + 1 \in 1..Len(s)
          /\ Container!IsFor(s[j + 1], s[i + 1].container, s[i + 1].type)
      BY <1>6, <1>8
    <2>2. i + 1 = j + 1
      BY <1>1, <2>1 DEF Container!HeldOK
    <2> QED BY <2>2
  <1>9. Container!HeldOK(R2, h, u)
    BY <1>5, <1>7, <1>8 DEF Container!HeldOK
  <1> QED BY <1>2, <1>4, <1>9 DEF Container!ThreadOK, u

LEMMA ThreadStays ==
  ASSUME NEW R, NEW R2, Container!RegistrationsOK(R), Grows(R, R2), NEW h, SameHeld(R, R2, h),
         NEW s, Container!ThreadOK(R, h, s)
  PROVE  Container!ThreadOK(R2, h, s)
  BY GrowsFrames, GrowsHeld DEF Container!ThreadOK

(* A frame that does not build a singleton goes on top.                       *)
LEMMA ThreadPushed ==
  ASSUME NEW R, Container!RegistrationsOK(R), NEW h \in Users, NEW s, Container!ThreadOK(R, h, s), NEW f,
         Container!FrameOK(R, f), ~Container!Builds(R, f), s # <<>> => Container!Awaits(R, s[1], f)
  PROVE  Container!ThreadOK(R, h, Pushed(f, s))
  <1> DEFINE u == Pushed(f, s)
  <1>1. Container!FramesOK(R, s) /\ Container!HeldOK(R, h, s) /\ Container!Descends(s) /\ Container!IsSeq(s)
    BY DEF Container!ThreadOK, Container!FramesOK
  <1>2. Container!FramesOK(R, u) /\ Container!Descends(u)
    BY <1>1, FramesPushed, DescendsPushed
  <1>3. /\ Len(s) \in Nat /\ Len(u) = Len(s) + 1 /\ u[1] = f
        /\ \A i \in 1..Len(s) : u[i + 1] = s[i]
        /\ \A i \in 2..Len(u) : i - 1 \in 1..Len(s) /\ u[i] = s[i - 1]
    BY <1>1, SeqPushed
  <1> HIDE DEF u
  <1>4. ASSUME NEW c \in Container!Containers, NEW t \in DOMAIN R[c], R[c][t].holder = h
        PROVE  \E i \in 1..Len(u) : Container!IsFor(u[i], c, t)
    <2>1. PICK i \in 1..Len(s) : Container!IsFor(s[i], c, t)
      BY <1>1, <1>4 DEF Container!HeldOK
    <2>2. i + 1 \in 1..Len(u) /\ u[i + 1] = s[i]
      BY <1>3
    <2> QED BY <2>1, <2>2
  <1>5. ASSUME NEW i \in 1..Len(u), Container!Builds(R, u[i])
        PROVE  i - 1 \in 1..Len(s) /\ u[i] = s[i - 1] /\ i \in 2..Len(u)
    BY <1>3, <1>5
  <1>6. ASSUME NEW i \in 1..Len(u), Container!Builds(R, u[i]) PROVE Container!At(R, u[i]).holder = h
    BY <1>1, <1>5, <1>6 DEF Container!HeldOK
  <1>7. ASSUME NEW i \in 1..Len(u), NEW j \in 1..Len(u), Container!Builds(R, u[i]),
               Container!IsFor(u[j], u[i].container, u[i].type)
        PROVE  i = j
    <2>1. Container!Builds(R, u[j])
      BY <1>7 DEF Container!Builds, Container!IsFor, Container!At
    <2>2. i - 1 = j - 1
      BY <1>1, <1>5, <1>7, <2>1 DEF Container!HeldOK
    <2> QED BY <2>2
  <1>8. Container!HeldOK(R, h, u)
    BY <1>4, <1>6, <1>7 DEF Container!HeldOK
  <1> QED BY <1>2, <1>8 DEF Container!ThreadOK, u

(* The frame on top changes, and builds no singleton before or after.         *)
LEMMA ThreadTop ==
  ASSUME NEW R, Container!RegistrationsOK(R), NEW h \in Users, NEW s, Container!ThreadOK(R, h, s), s # <<>>, NEW f,
         Container!FrameOK(R, f), ~Container!Builds(R, f), ~Container!Builds(R, s[1]),
         f.container = s[1].container, f.type = s[1].type
  PROVE  Container!ThreadOK(R, h, Pushed(f, Tail(s)))
  <1>1. Grows(R, R) /\ LeavesHeld(R, R, h, s[1])
    BY DEF Grows, LeavesHeld
  <1>2. Container!ThreadOK(R, h, Tail(s))
    BY <1>1, ThreadLeaves
  <1>3. Tail(s) # <<>> => Tail(s)[1] = s[2] /\ Container!Awaits(R, s[2], s[1])
    BY FramesPopped DEF Container!ThreadOK
  <1>4. Tail(s) # <<>> => Container!Awaits(R, Tail(s)[1], f)
    BY <1>3 DEF Container!Awaits
  <1> QED BY <1>2, <1>4, ThreadPushed

(* The frame that builds a singleton takes its mutex.                         *)
LEMMA ThreadBuilds ==
  ASSUME NEW R, NEW R2, Container!RegistrationsOK(R), Container!RegistrationsOK(R2), Grows(R, R2), NEW h \in Users, NEW u,
         Container!ThreadOK(R, h, u), NEW f, Container!FrameOK(R2, f), f.step = "build",
         u # <<>> => Container!Awaits(R, u[1], f), f.type \in DOMAIN R[f.container],
         Container!At(R, f).holder # h, Container!At(R2, f).holder = h,
         \A c \in Container!Containers :
           /\ \A t \in DOMAIN R2[c] : R2[c][t].holder = h =>
                (c = f.container /\ t = f.type) \/ (t \in DOMAIN R[c] /\ R[c][t].holder = h)
           /\ \A t \in DOMAIN R[c] : R[c][t].holder = h => R2[c][t].holder = h
  PROVE  Container!ThreadOK(R2, h, Pushed(f, u))
  <1> DEFINE s == Pushed(f, u)
  <1>1. Container!FramesOK(R, u) /\ Container!HeldOK(R, h, u) /\ Container!Descends(u) /\ Container!IsSeq(u)
        /\ \A i \in 1..Len(u) : Container!FrameOK(R, u[i])
    BY DEF Container!ThreadOK, Container!FramesOK
  <1>2. Container!FramesOK(R2, u)
    BY <1>1, GrowsFrames
  <1>3. /\ Len(u) \in Nat /\ Len(s) = Len(u) + 1 /\ s[1] = f /\ 1 \in 1..Len(s)
        /\ \A i \in 1..Len(u) : s[i + 1] = u[i]
        /\ \A i \in 2..Len(s) : i - 1 \in 1..Len(u) /\ s[i] = u[i - 1]
    BY <1>1, SeqPushed
  <1>4. u # <<>> => 1 \in 1..Len(u)
    <2>1. u # <<>> => Len(u) # 0
      BY <1>1, EmptySeq DEF Container!IsSeq
    <2> QED BY <1>3, <2>1
  <1>5. u # <<>> => Container!Awaits(R2, u[1], f)
    BY <1>1, <1>4, GrowsFrame
  <1>6. Container!FramesOK(R2, s) /\ Container!Descends(s)
    BY <1>1, <1>2, <1>5, FramesPushed, DescendsPushed
  <1> HIDE DEF s
  <1>7. f.container \in Container!Containers
    BY FrameParts
  <1>8. ASSUME NEW c \in Container!Containers, NEW t \in DOMAIN R2[c], R2[c][t].holder = h
        PROVE  \E i \in 1..Len(s) : Container!IsFor(s[i], c, t)
    <2>1. CASE c = f.container /\ t = f.type
      BY <1>3, <2>1 DEF Container!IsFor
    <2>2. CASE t \in DOMAIN R[c] /\ R[c][t].holder = h
      <3>1. PICK i \in 1..Len(u) : Container!IsFor(u[i], c, t)
        BY <1>1, <2>2 DEF Container!HeldOK
      <3>2. i + 1 \in 1..Len(s) /\ s[i + 1] = u[i]
        BY <1>3
      <3> QED BY <3>1, <3>2
    <2> QED BY <1>8, <2>1, <2>2
  <1>9. ASSUME NEW i \in 1..Len(u), Container!Builds(R2, u[i])
        PROVE  /\ Container!Builds(R, u[i]) /\ u[i].type \in DOMAIN R[u[i].container] /\ Container!At(R, u[i]).holder = h
               /\ Container!At(R2, u[i]).holder = h /\ ~Container!IsFor(f, u[i].container, u[i].type)
    <2>1. Container!FrameOK(R, u[i])
      BY <1>1
    <2>2. u[i].container \in Container!Containers /\ u[i].type \in DOMAIN R[u[i].container] /\ Container!Builds(R, u[i])
      BY <1>9, <2>1, FrameParts, GrowsFrame DEF Container!Builds
    <2>3. Container!At(R, u[i]).holder = h
      BY <1>1, <2>2 DEF Container!HeldOK
    <2>4. Container!At(R2, u[i]).holder = h
      BY <2>2, <2>3 DEF Container!At
    <2>5. ~Container!IsFor(f, u[i].container, u[i].type)
      BY <2>3 DEF Container!IsFor, Container!At
    <2> QED BY <2>2, <2>3, <2>4, <2>5
  <1>10. ASSUME NEW i \in 1..Len(s), Container!Builds(R2, s[i]) PROVE Container!At(R2, s[i]).holder = h
    <2>1. CASE i = 1
      BY <1>3, <2>1
    <2>2. CASE i \in 2..Len(s)
      BY <1>3, <1>9, <1>10, <2>2
    <2> QED BY <1>3, <2>1, <2>2
  <1>11. ASSUME NEW i \in 1..Len(s), NEW j \in 1..Len(s), Container!Builds(R2, s[i]),
                Container!IsFor(s[j], s[i].container, s[i].type)
         PROVE  i = j
    <2>1. Container!Builds(R2, s[j]) /\ Container!IsFor(s[i], s[j].container, s[j].type)
      BY <1>11 DEF Container!Builds, Container!IsFor, Container!At
    <2>2. CASE i = 1
      <3>1. CASE j \in 2..Len(s)
        <4>1. s[j] = u[j - 1] /\ j - 1 \in 1..Len(u) /\ s[i] = f
          BY <1>3, <2>2, <3>1
        <4>2. ~Container!IsFor(f, u[j - 1].container, u[j - 1].type)
          BY <1>9, <2>1, <4>1
        <4> QED BY <2>1, <4>1, <4>2
      <3> QED BY <1>3, <2>2, <3>1
    <2>3. CASE j = 1
      <3>1. CASE i \in 2..Len(s)
        <4>1. s[i] = u[i - 1] /\ i - 1 \in 1..Len(u) /\ s[j] = f
          BY <1>3, <2>3, <3>1
        <4>2. ~Container!IsFor(f, u[i - 1].container, u[i - 1].type)
          BY <1>9, <1>11, <4>1
        <4> QED BY <1>11, <4>1, <4>2
      <3> QED BY <1>3, <2>3, <3>1
    <2>4. CASE i # 1 /\ j # 1
      <3>1. i \in 2..Len(s) /\ j \in 2..Len(s)
        BY <1>3, <2>4
      <3>2. s[i] = u[i - 1] /\ i - 1 \in 1..Len(u) /\ s[j] = u[j - 1] /\ j - 1 \in 1..Len(u)
        BY <1>3, <3>1
      <3>3. Container!Builds(R, u[i - 1]) /\ Container!IsFor(u[j - 1], u[i - 1].container, u[i - 1].type)
        BY <1>9, <1>11, <3>2
      <3>4. i - 1 = j - 1
        BY <1>1, <3>2, <3>3 DEF Container!HeldOK
      <3> QED BY <3>4
    <2> QED BY <2>2, <2>3, <2>4
  <1>12. Container!HeldOK(R2, h, s)
    BY <1>8, <1>10, <1>11 DEF Container!HeldOK
  <1> QED BY <1>6, <1>12 DEF Container!ThreadOK, s

(* A thing that the top frame needs arrives.                                  *)
Extended(f, x) == [f EXCEPT !.parts = Append(@, x)]

LEMMA ThreadGets ==
  ASSUME NEW R, Container!RegistrationsOK(R), NEW h \in Users, NEW s, Container!ThreadOK(R, h, s), s # <<>>, NEW g, NEW x,
         Container!Awaits(R, s[1], g), Container!Good(R, g.container, g.type, x)
  PROVE  Container!ThreadOK(R, h, Pushed(Extended(s[1], x), Tail(s)))
  <1> DEFINE f == Extended(s[1], x)
             u == Pushed(f, Tail(s))
  <1>1. Container!FramesOK(R, s) /\ Container!HeldOK(R, h, s) /\ Container!Descends(s) /\ Container!IsSeq(s)
    BY DEF Container!ThreadOK, Container!FramesOK
  <1>2. /\ Container!FramesOK(R, Tail(s)) /\ Container!FrameOK(R, s[1])
        /\ Tail(s) # <<>> => Tail(s)[1] = s[2] /\ Container!Awaits(R, s[2], s[1])
    BY <1>1, FramesPopped
  <1>3. /\ Len(u) = Len(s) /\ u[1] = f /\ 1 \in 1..Len(s) /\ Len(s) \in Nat
        /\ \A i \in 2..Len(s) : u[i] = s[i]
    BY <1>1, SeqTop
  <1> HIDE DEF u
  <1>4. /\ f.container = s[1].container /\ f.type = s[1].type /\ f.step = s[1].step
        /\ f.parts = Appended(s[1].parts, x)
        /\ f \in [container : Container!Containers, type : Container!Types, throws : BOOLEAN, step : {"look", "enter", "build"},
                  parts : {f.parts}]
    BY <1>2 DEF Container!FrameOK, Extended, Appended
  <1> HIDE DEF f
  <1>5. Container!FrameOK(R, f)
    <2>1. PICK r : r = Container!At(R, s[1])
      OBVIOUS
    <2>2. s[1].step = "build" /\ Len(s[1].parts) < Len(r.factory.needs)
          /\ g.type = r.factory.needs[Len(s[1].parts) + 1] /\ g.container = r.factory.container
      BY <2>1 DEF Container!Awaits
    <2>3. Container!GoodParts(R, r.factory.container, r.factory.needs, s[1].parts)
      BY <1>2, <2>1, <2>2 DEF Container!FrameOK
    <2>4. PICK p : p = s[1].parts
      OBVIOUS
    <2>5. /\ Container!IsSeq(f.parts) /\ Len(p) \in Nat /\ Len(f.parts) = Len(p) + 1 /\ f.parts[Len(p) + 1] = x
          /\ \A i \in 1..Len(p) : f.parts[i] = p[i]
      <3>1. Container!IsSeq(p)
        BY <2>3, <2>4 DEF Container!GoodParts
      <3>2. f.parts = Appended(p, x)
        BY <1>4, <2>4
      <3> QED BY <3>1, <3>2, SeqAppended
    <2>6. ASSUME NEW i \in 1..Len(f.parts) PROVE Container!Good(R, r.factory.container, r.factory.needs[i], f.parts[i])
      <3>1. CASE i = Len(p) + 1
        BY <2>2, <2>4, <2>5, <3>1
      <3>2. CASE i \in 1..Len(p)
        BY <2>3, <2>4, <2>5, <3>2 DEF Container!GoodParts
      <3> QED BY <2>5, <3>1, <3>2
    <2>7. Len(f.parts) <= Len(r.factory.needs)
      <3>1. r.factory.needs \in Seq(Container!Types)
        <4>1. s[1].container \in Container!Containers /\ s[1].type \in DOMAIN R[s[1].container]
          BY <1>2, <2>2, FrameParts
        <4> QED BY <2>1, <4>1, RegistrationParts DEF Container!At
      <3> QED BY <2>2, <2>4, <2>5, <3>1
    <2>8. Container!GoodParts(R, r.factory.container, r.factory.needs, f.parts)
      BY <2>5, <2>6, <2>7 DEF Container!GoodParts
    <2>9. Container!At(R, f) = r
      BY <1>4, <2>1 DEF Container!At
    <2>10. f.type \in DOMAIN R[f.container]
      BY <1>2, <1>4, <2>2 DEF Container!FrameOK
    <2> QED BY <1>4, <2>2, <2>8, <2>9, <2>10 DEF Container!FrameOK
  <1>6. Tail(s) # <<>> => Container!Awaits(R, Tail(s)[1], f)
    BY <1>2, <1>4 DEF Container!Awaits
  <1>7. Container!FramesOK(R, u)
    BY <1>2, <1>5, <1>6, FramesPushed DEF u
  <1>8. \A i \in 1..Len(s) : u[i].container = s[i].container /\ u[i].type = s[i].type /\ u[i].step = s[i].step
    <2>1. \A i \in 1..Len(s) : i = 1 \/ i \in 2..Len(s)
      BY <1>3
    <2> QED BY <1>3, <1>4, <2>1
  <1>9. Container!Descends(u)
    BY <1>1, <1>3, <1>8 DEF Container!Descends
  <1>10. Container!HeldOK(R, h, u)
    <2>1. \A i \in 1..Len(s) : /\ Container!Builds(R, u[i]) <=> Container!Builds(R, s[i])
                               /\ Container!At(R, u[i]) = Container!At(R, s[i])
                               /\ \A c, t : Container!IsFor(u[i], c, t) <=> Container!IsFor(s[i], c, t)
      BY <1>8 DEF Container!Builds, Container!At, Container!IsFor
    <2>2. \A c \in Container!Containers : \A t \in DOMAIN R[c] :
            R[c][t].holder = h => \E i \in 1..Len(s) : Container!IsFor(u[i], c, t)
      BY <1>1, <2>1 DEF Container!HeldOK
    <2>3. \A i \in 1..Len(s) : Container!Builds(R, u[i]) => Container!At(R, u[i]).holder = h
      BY <1>1, <2>1 DEF Container!HeldOK
    <2>4. ASSUME NEW i \in 1..Len(s), NEW j \in 1..Len(s),
                 Container!Builds(R, u[i]), Container!IsFor(u[j], u[i].container, u[i].type)
          PROVE  i = j
      <3>1. Container!Builds(R, s[i])
        BY <2>1, <2>4
      <3>2. Container!IsFor(s[j], s[i].container, s[i].type)
        BY <1>8, <2>1, <2>4
      <3> QED BY <1>1, <3>1, <3>2 DEF Container!HeldOK
    <2> QED BY <1>3, <2>2, <2>3, <2>4 DEF Container!HeldOK
  <1> QED BY <1>7, <1>9, <1>10 DEF Container!ThreadOK, u, f

-----------------------------------------------------------------------------
LEMMA RegistrationMade ==
  ASSUME NEW c \in Container!Containers, NEW t \in Container!Types, NEW lifetime \in {"singleton", "transient"},
         NEW factory, Container!FactoryOK(c, t, factory)
  PROVE  LET r == Container!Registration(lifetime, factory)
         IN /\ Container!RegistrationOK(c, t, r) /\ r.value = Container!Null /\ r.holder = Nobody
            /\ r.lifetime = lifetime /\ r.factory = factory
  BY OwnersAssumption DEF Container!Registration, Container!RegistrationOK, Container!Null

LEMMA DefaultMade ==
  ASSUME NEW c \in Container!Containers, NEW t \in Container!Types
  PROVE  Container!FactoryOK(c, t, Container!get_factory(c, t))
  <1>1. Default[t] \in [kind : {"make", "nothing"}, container : Container!Containers, needs : Seq(Container!Types),
                        object : {Container!Null}]
    BY ProgramAssumption DEF Container!ProgramOK
  <1>2. PICK d : d = Default[t]
    OBVIOUS
  <1>3. PICK f : f = [d EXCEPT !.container = c]
    OBVIOUS
  <1>4. /\ f \in [kind : {"make", "nothing"}, container : Container!Containers, needs : Seq(Container!Types),
                  object : {Container!Null}]
        /\ f.container = c /\ f.needs = d.needs /\ f.kind = d.kind /\ f.object = Container!Null
    BY <1>1, <1>2, <1>3
  <1>5. Container!FactoryOK(c, t, f)
    BY <1>2, <1>4 DEF Container!FactoryOK
  <1> QED BY <1>2, <1>3, <1>5 DEF Container!get_factory

LEMMA AliasMade ==
  ASSUME NEW c \in Container!Containers, NEW pair \in Aliases
  PROVE  pair[1] \in Container!Types /\ Container!FactoryOK(c, pair[1], Container!Alias(c, pair[2]))
  <1>1. pair[1] \in Container!Types /\ pair[2] \in Container!Types /\ Default[pair[1]].kind = "nothing"
    BY ProgramAssumption DEF Container!ProgramOK
  <1>2. <<pair[2]>> \in Seq(Container!Types)
    BY <1>1
  <1> QED BY <1>1, <1>2 DEF Container!FactoryOK, Container!Alias

LEMMA InstanceMade ==
  ASSUME NEW c \in Container!Containers, NEW t \in Container!Types, NEW x, x.parts = <<>>
  PROVE  Container!FactoryOK(c, t, Container!Instance(x)) /\ Container!Instance(x).kind = "instance"
         /\ Container!Instance(x).object[1] = x
  <1>1. PICK f : f = Container!Instance(x)
    OBVIOUS
  <1>2. f.kind = "instance" /\ f.container = "root" /\ f.needs = <<>> /\ f.object = <<x>> /\ f.object[1] = x /\ f.object # <<>>
        /\ f \in [kind : {"instance"}, container : {"root"}, needs : {<<>>}, object : {f.object}]
    BY <1>1 DEF Container!Instance
  <1>3. <<>> \in Seq(Container!Types) /\ "root" \in Container!Containers
    BY DEF Container!Containers
  <1>4. f \in [kind : {"make", "alias", "instance", "nothing"}, container : Container!Containers, needs : Seq(Container!Types),
               object : {f.object}]
    BY <1>2, <1>3
  <1>5. Container!FactoryOK(c, t, f)
    BY <1>2, <1>4 DEF Container!FactoryOK, Container!Null
  <1> QED BY <1>1, <1>2, <1>5

\* At most t is new in c, with r.
OnlyNew(R, R2, c, t, r) ==
  /\ t \in DOMAIN R2[c]
  /\ t \notin DOMAIN R[c] => R2[c][t] = r
  /\ \A b \in Container!Containers : \A u \in DOMAIN R2[b] :
       (u \in DOMAIN R[b] /\ R2[b][u] = R[b][u]) \/ (b = c /\ u = t /\ R2[b][u] = r)

(* emplace() changes nothing that is there.                                   *)
LEMMA EmplacedGrows ==
  ASSUME Container!RegistrationsOK(regs), NEW c \in Container!Containers, NEW t \in Container!Types, NEW r,
         Container!RegistrationOK(c, t, r), r.value = Container!Null, r.holder = Nobody,
         regs' = Container!Emplaced(c, t, r)
  PROVE  /\ Container!RegistrationsOK(regs') /\ Grows(regs, regs') /\ \A h \in Users : SameHeld(regs, regs', h)
         /\ OnlyNew(regs, regs', c, t, r)
  <1>1. regs = [b \in Container!Containers |-> regs[b]] /\ \A b \in Container!Containers : DOMAIN regs[b] \subseteq Container!Types
    BY DEF Container!RegistrationsOK
  <1>2. CASE t \in DOMAIN regs[c]
    <2>1. regs' = regs
      BY <1>2 DEF Container!Emplaced
    <2> QED BY <1>2, <2>1 DEF Grows, SameHeld, OnlyNew
  <1>3. CASE t \notin DOMAIN regs[c]
    <2>1. regs' = [regs EXCEPT ![c] = [u \in DOMAIN regs[c] \cup {t} |-> IF u = t THEN r ELSE regs[c][u]]]
      BY <1>3 DEF Container!Emplaced
    <2>2. /\ regs' = [b \in Container!Containers |-> regs'[b]] /\ \A b \in Container!Containers \ {c} : regs'[b] = regs[b]
          /\ regs'[c] = [u \in DOMAIN regs[c] \cup {t} |-> IF u = t THEN r ELSE regs[c][u]]
      BY <1>1, <2>1
    <2>3. /\ DOMAIN regs'[c] = DOMAIN regs[c] \cup {t} /\ regs'[c][t] = r
          /\ \A u \in DOMAIN regs[c] : regs'[c][u] = regs[c][u]
      BY <1>3, <2>2
    <2>4. \A b \in Container!Containers : /\ DOMAIN regs[b] \subseteq DOMAIN regs'[b]
                                          /\ \A u \in DOMAIN regs[b] : regs'[b][u] = regs[b][u]
                                          /\ \A u \in DOMAIN regs'[b] : u \in DOMAIN regs[b] \/ (b = c /\ u = t)
      BY <2>2, <2>3
    <2>5. Grows(regs, regs')
      BY <2>4 DEF Grows
    <2>6. \A h \in Users : SameHeld(regs, regs', h)
      BY <2>3, <2>4, OwnersAssumption DEF SameHeld
    <2>7. \A b \in Container!Containers : \A u \in DOMAIN regs'[b] : u \in Container!Types /\ Container!RegistrationOK(b, u, regs'[b][u])
      BY <1>1, <2>3, <2>4 DEF Container!RegistrationsOK
    <2>8. Container!RegistrationsOK(regs')
      BY <2>2, <2>7 DEF Container!RegistrationsOK
    <2>9. OnlyNew(regs, regs', c, t, r)
      BY <1>3, <2>3, <2>4 DEF OnlyNew
    <2> QED BY <2>5, <2>6, <2>8, <2>9
  <1> QED BY <1>2, <1>3

-----------------------------------------------------------------------------
\* A step of thread h changes no other thread's stack.
OnlyOf(S, S2, h) == S2 = [g \in Users |-> S2[g]] /\ \A g \in Users \ {h} : S2[g] = S[g]

LEMMA ThreadsStep ==
  ASSUME NEW R, NEW R2, NEW S, NEW S2, Container!RegistrationsOK(R), Grows(R, R2), Container!ThreadsOK(R, S), NEW h \in Users,
         \A g \in Users \ {h} : SameHeld(R, R2, g), OnlyOf(S, S2, h), Container!ThreadOK(R2, h, S2[h])
  PROVE  Container!ThreadsOK(R2, S2)
  <1>1. ASSUME NEW g \in Users \ {h} PROVE Container!ThreadOK(R2, g, S2[g])
    <2>1. Container!ThreadOK(R, g, S[g]) /\ S2[g] = S[g]
      BY DEF Container!ThreadsOK, OnlyOf
    <2> QED BY <2>1, ThreadStays
  <1> QED BY <1>1 DEF Container!ThreadsOK, OnlyOf

LEMMA GivenStays ==
  ASSUME NEW R, NEW R2, Container!RegistrationsOK(R2), Grows(R, R2), NEW c \in Container!Containers, NEW x,
         Container!GivenOK(R, c, x)
  PROVE  Container!GivenOK(R2, c, x)
  <1>1. x[1] \in DOMAIN R[c]
    BY DEF Container!GivenOK
  <1> DEFINE r == R[c][x[1]]
             q == R2[c][x[1]]
  <1>2. /\ x[1] \in DOMAIN R2[c] /\ q.lifetime = r.lifetime /\ q.factory = r.factory
        /\ r.value # Container!Null => q.value = r.value
    BY <1>1 DEF Grows
  <1>3. Container!RegistrationOK(c, x[1], q)
    BY <1>2 DEF Container!RegistrationsOK
  <1>4. r.lifetime = "singleton" /\ IF r.value # Container!Null THEN r.value[1] = x[2]
                                    ELSE r.factory.kind = "instance" /\ r.factory.object[1] = x[2]
    BY DEF Container!GivenOK
  <1> HIDE DEF r
  <1>5. q.factory.kind = "instance" /\ q.value # Container!Null => q.value = q.factory.object
    BY <1>3 DEF Container!RegistrationOK
  <1>6. IF q.value # Container!Null THEN q.value[1] = x[2] ELSE q.factory.kind = "instance" /\ q.factory.object[1] = x[2]
    BY <1>2, <1>4, <1>5
  <1> QED BY <1>2, <1>4, <1>6 DEF Container!GivenOK

LEMMA BuiltStays ==
  ASSUME NEW R, NEW R2, Grows(R, R2), NEW t, NEW value, Container!BuiltOK(R, t, value)
  PROVE  Container!BuiltOK(R2, t, value)
  <1>1. "root" \in Container!Containers
    BY DEF Container!Containers
  <1> QED BY <1>1, GrowsParts DEF Container!BuiltOK

LEMMA ValuesStep ==
  ASSUME NEW R, NEW R2, NEW G, NEW G2, Container!RegistrationsOK(R2), Grows(R, R2), Container!ValuesOK(R, G),
         \A t \in DOMAIN R2["root"] : Container!BuiltOK(R, t, R2["root"][t].value),
         G2 = [c \in Container!Containers |-> G2[c]],
         \A c \in Container!Containers : \A x \in G2[c] : x \in G[c] \/ Container!GivenOK(R2, c, x)
  PROVE  Container!ValuesOK(R2, G2)
  <1>1. \A t \in DOMAIN R2["root"] : Container!BuiltOK(R2, t, R2["root"][t].value)
    BY BuiltStays
  <1>2. ASSUME NEW c \in Container!Containers, NEW x \in G2[c] PROVE Container!GivenOK(R2, c, x)
    <2>1. CASE x \in G[c]
      <3>1. Container!GivenOK(R, c, x)
        BY <2>1 DEF Container!ValuesOK
      <3> QED BY <3>1, GivenStays
    <2> QED BY <2>1
  <1> QED BY <1>1, <1>2 DEF Container!ValuesOK

(* What is registered keeps its value, or has none yet.                       *)
LEMMA ValuesSame ==
  ASSUME NEW R, NEW R2, NEW G, Container!RegistrationsOK(R2), Grows(R, R2), Container!ValuesOK(R, G),
         \A t \in DOMAIN R2["root"] : \/ R2["root"][t].value = Container!Null
                                      \/ t \in DOMAIN R["root"] /\ R2["root"][t].value = R["root"][t].value
  PROVE  Container!ValuesOK(R2, G)
  <1>1. ASSUME NEW t \in DOMAIN R2["root"] PROVE Container!BuiltOK(R, t, R2["root"][t].value)
    <2>1. CASE R2["root"][t].value = Container!Null
      BY <2>1 DEF Container!BuiltOK
    <2>2. CASE t \in DOMAIN R["root"] /\ R2["root"][t].value = R["root"][t].value
      BY <2>2 DEF Container!ValuesOK
    <2> QED BY <2>1, <2>2
  <1>2. G = [c \in Container!Containers |-> G[c]]
    BY DEF Container!ValuesOK
  <1> QED BY <1>1, <1>2, ValuesStep

LEMMA Assembled ==
  ASSUME Container!RegistrationsOK(regs'), Container!ThreadsOK(regs', stack'), Container!ValuesOK(regs', given'),
         made' \in Nat, calls' \in 0..MaxCalls
  PROVE  Container!IInv'
  <1>1. \A c \in Container!Containers : /\ DOMAIN regs'[c] \subseteq Container!Types
                                        /\ \A t \in DOMAIN regs'[c] : regs'[c][t].holder \in Users \cup {Nobody}
    BY RegistrationParts DEF Container!RegistrationsOK
  <1>2. ASSUME NEW h \in Users, NEW i \in DOMAIN stack'[h] PROVE stack'[h][i].step \in {"look", "enter", "build"}
    <2>1. Container!FramesOK(regs', stack'[h])
      BY DEF Container!ThreadsOK, Container!ThreadOK
    <2>2. Container!IsSeq(stack'[h])
      BY <2>1 DEF Container!FramesOK
    <2>3. i \in 1..Len(stack'[h])
      BY <2>2, SeqLonger
    <2>4. Container!FrameOK(regs', stack'[h][i])
      BY <2>1, <2>3 DEF Container!FramesOK
    <2> QED BY <2>4, FrameParts
  <1>3. Container!TypeOK'
    BY <1>1, <1>2 DEF Container!TypeOK
  <1> QED BY <1>3 DEF Container!IInv

-----------------------------------------------------------------------------
LEMMA NothingChanges == \A R : Grows(R, R) /\ \A h \in Users : SameHeld(R, R, h)
  BY DEF Grows, SameHeld

LEMMA CalledParts ==
  ASSUME NEW h \in Users, NEW c, Container!IInv, Container!Called(h, c)
  PROVE  stack[h] = <<>> /\ calls' \in 0..MaxCalls
  <1>1. calls \in 0..MaxCalls /\ calls < MaxCalls /\ calls' = calls + 1 /\ stack[h] = <<>>
    BY DEF Container!IInv, Container!TypeOK, Container!Called
  <1> QED BY <1>1, ProgramAssumption

LEMMA FrameMade ==
  ASSUME NEW R, NEW c \in Container!Containers, NEW t \in Container!Types, NEW throws \in BOOLEAN
  PROVE  LET f == Container!Frame(c, t, throws)
         IN Container!FrameOK(R, f) /\ f.container = c /\ f.type = t /\ f.step = "look"
  BY DEF Container!Frame, Container!FrameOK

(* A thread that was idle starts with the frame of its call.                  *)
LEMMA ThreadStarts ==
  ASSUME NEW R, Container!RegistrationsOK(R), NEW h \in Users, Container!ThreadOK(R, h, <<>>),
         NEW c \in Container!Containers, NEW t \in Container!Types, NEW throws \in BOOLEAN
  PROVE  Container!ThreadOK(R, h, <<Container!Frame(c, t, throws)>>)
  <1> DEFINE f == Container!Frame(c, t, throws)
  <1>1. Container!FrameOK(R, f) /\ f.step = "look"
    BY FrameMade
  <1> HIDE DEF f
  <1>2. ~Container!Builds(R, f)
    BY <1>1 DEF Container!Builds
  <1>3. Container!ThreadOK(R, h, Pushed(f, <<>>))
    BY <1>1, <1>2, ThreadPushed
  <1>4. Pushed(f, <<>>) = <<f>>
    <2>1. <<f>> \in Seq({f})
      OBVIOUS
    <2> QED BY <2>1, ConcatEmptySeq DEF Pushed
  <1>5. Container!ThreadOK(R, h, <<f>>)
    BY <1>3, <1>4
  <1> QED BY <1>5 DEF f

LEMMA StackStep ==
  ASSUME Container!IInv, NEW h \in Users, NEW s, stack' = [stack EXCEPT ![h] = s]
  PROVE  OnlyOf(stack, stack', h) /\ stack'[h] = s
  <1>1. stack = [g \in Users |-> stack[g]]
    BY DEF Container!IInv, Container!ThreadsOK
  <1> QED BY <1>1 DEF OnlyOf

LEMMA InvParts ==
  ASSUME Container!IInv
  PROVE  /\ Container!RegistrationsOK(regs) /\ Container!ThreadsOK(regs, stack) /\ Container!ValuesOK(regs, given)
         /\ \A h \in Users : Container!ThreadOK(regs, h, stack[h])
         /\ made \in Nat /\ calls \in 0..MaxCalls
  BY DEF Container!IInv, Container!ThreadsOK, Container!TypeOK

LEMMA TopParts ==
  ASSUME Container!IInv, NEW h \in Users, ~Container!Idle(h)
  PROVE  /\ stack[h] # <<>> /\ Container!ThreadOK(regs, h, stack[h]) /\ Container!IsSeq(stack[h])
         /\ Container!Top(h) = stack[h][1] /\ 1 \in 1..Len(stack[h])
         /\ Container!FrameOK(regs, stack[h][1])
  <1>1. Container!ThreadOK(regs, h, stack[h])
    BY InvParts
  <1>2. Container!FramesOK(regs, stack[h]) /\ Container!IsSeq(stack[h]) /\ stack[h] # <<>>
    BY <1>1 DEF Container!ThreadOK, Container!FramesOK, Container!Idle
  <1>3. Container!Top(h) = stack[h][1] /\ 1 \in 1..Len(stack[h])
    BY <1>2, SeqPopped DEF Container!Top
  <1> QED BY <1>1, <1>2, <1>3 DEF Container!FramesOK

LEMMA ResolveKeeps ==
  ASSUME NEW h \in Users, NEW c \in Container!Containers, NEW t \in Container!Types, NEW throws \in BOOLEAN,
         Container!IInv, Container!Resolve(h, c, t, throws)
  PROVE  Container!IInv'
  <1>1. /\ stack' = [stack EXCEPT ![h] = <<Container!Frame(c, t, throws)>>] /\ regs' = regs /\ made' = made /\ given' = given
        /\ Container!Called(h, c)
    BY DEF Container!Resolve
  <1>2. stack[h] = <<>> /\ calls' \in 0..MaxCalls
    BY <1>1, CalledParts
  <1>3. Container!RegistrationsOK(regs) /\ Container!ThreadOK(regs, h, <<>>) /\ Container!ThreadsOK(regs, stack)
    BY <1>2, InvParts
  <1>4. OnlyOf(stack, stack', h) /\ stack'[h] = <<Container!Frame(c, t, throws)>>
    BY <1>1, StackStep
  <1>5. Container!ThreadOK(regs, h, stack'[h])
    BY <1>3, <1>4, ThreadStarts
  <1>6. Container!ThreadsOK(regs, stack')
    BY <1>3, <1>4, <1>5, NothingChanges, ThreadsStep
  <1> QED BY <1>1, <1>2, <1>6, InvParts, Assembled

LEMMA GetRegistrationKeeps ==
  ASSUME NEW h \in Users, Container!IInv, Container!GetRegistration(h)
  PROVE  Container!IInv'
  <1> DEFINE s == stack[h]
             f == s[1]
             g == [f EXCEPT !.step = "enter"]
             r == Container!Registration("singleton", Container!get_factory(f.container, f.type))
  <1>1. ~Container!Idle(h) /\ UNCHANGED <<made, calls, given>>
    BY DEF Container!GetRegistration
  <1>2. /\ s # <<>> /\ Container!ThreadOK(regs, h, s) /\ Container!Top(h) = f /\ Container!FrameOK(regs, f)
    BY <1>1, TopParts
  <1>3. /\ f.step = "look" /\ regs' = Container!Emplaced(f.container, f.type, r)
        /\ stack' = [stack EXCEPT ![h] = Pushed(g, Tail(s))]
    BY <1>2 DEF Container!GetRegistration, Container!Goes, Pushed
  <1>4. f.container \in Container!Containers /\ f.type \in Container!Types
    BY <1>2, InvParts, FrameParts
  <1>5. Container!RegistrationOK(f.container, f.type, r) /\ r.value = Container!Null /\ r.holder = Nobody
    BY <1>4, DefaultMade, RegistrationMade
  <1>6. g.container = f.container /\ g.type = f.type /\ g.step = "enter"
        /\ g \in [container : Container!Containers, type : Container!Types, throws : BOOLEAN, step : {"look", "enter", "build"},
                  parts : {g.parts}] /\ g.parts = <<>>
    BY <1>2, <1>3 DEF Container!FrameOK
  <1> HIDE DEF r, g
  <1>7. /\ Container!RegistrationsOK(regs') /\ Grows(regs, regs') /\ \A u \in Users : SameHeld(regs, regs', u)
        /\ f.type \in DOMAIN regs'[f.container]
        /\ \A b \in Container!Containers : \A u \in DOMAIN regs'[b] :
              (u \in DOMAIN regs[b] /\ regs'[b][u] = regs[b][u]) \/ regs'[b][u].value = Container!Null
    <2>1. Container!RegistrationsOK(regs)
      BY InvParts
    <2>2. /\ Container!RegistrationsOK(regs') /\ Grows(regs, regs') /\ \A u \in Users : SameHeld(regs, regs', u)
          /\ OnlyNew(regs, regs', f.container, f.type, r)
      BY <1>3, <1>4, <1>5, <2>1, EmplacedGrows
    <2> QED BY <1>5, <2>2 DEF OnlyNew
  <1>8. Container!ThreadOK(regs', h, s)
    <2>1. Container!RegistrationsOK(regs)
      BY InvParts
    <2>2. Grows(regs, regs') /\ SameHeld(regs, regs', h)
      BY <1>7
    <2>3. Container!ThreadOK(regs, h, s)
      BY <1>2
    <2> HIDE DEF s
    <2> QED BY <2>1, <2>2, <2>3, ThreadStays
  <1>9. Container!FrameOK(regs', g) /\ ~Container!Builds(regs', g) /\ ~Container!Builds(regs', f)
    BY <1>3, <1>6, <1>7 DEF Container!FrameOK, Container!Builds
  <1>10. Container!ThreadOK(regs', h, Pushed(g, Tail(s)))
    BY <1>2, <1>6, <1>7, <1>8, <1>9, ThreadTop
  <1>11. OnlyOf(stack, stack', h) /\ stack'[h] = Pushed(g, Tail(s))
    BY <1>3, StackStep
  <1>12. Container!ThreadsOK(regs', stack')
    BY <1>7, <1>10, <1>11, InvParts, ThreadsStep
  <1>13. Container!ValuesOK(regs', given)
    <2>1. "root" \in Container!Containers
      BY DEF Container!Containers
    <2> QED BY <1>7, <2>1, InvParts, ValuesSame
  <1> QED BY <1>1, <1>7, <1>12, <1>13, InvParts, Assembled

LEMMA EnterTransientKeeps ==
  ASSUME NEW h \in Users, Container!IInv, Container!EnterTransient(h)
  PROVE  Container!IInv'
  <1> DEFINE s == stack[h]
             f == s[1]
             g == [f EXCEPT !.step = "build"]
  <1>1. ~Container!Idle(h) /\ UNCHANGED <<regs, made, calls, given>>
    BY DEF Container!EnterTransient
  <1>2. /\ s # <<>> /\ Container!ThreadOK(regs, h, s) /\ Container!Top(h) = f /\ Container!FrameOK(regs, f)
    BY <1>1, TopParts
  <1>3. /\ f.step = "enter" /\ Container!At(regs, f).lifetime = "transient"
        /\ stack' = [stack EXCEPT ![h] = Pushed(g, Tail(s))]
    BY <1>2 DEF Container!EnterTransient, Container!Goes, Container!Registered, Container!At, Pushed
  <1>4. f.container \in Container!Containers /\ f.type \in DOMAIN regs[f.container]
    BY <1>2, <1>3, InvParts, FrameParts
  <1>5. /\ g.container = f.container /\ g.type = f.type /\ g.step = "build" /\ g.parts = <<>>
        /\ g \in [container : Container!Containers, type : Container!Types, throws : BOOLEAN, step : {"look", "enter", "build"},
                  parts : {g.parts}]
    BY <1>2, <1>3 DEF Container!FrameOK
  <1> HIDE DEF g
  <1>6. Container!At(regs, g) = Container!At(regs, f)
    BY <1>5 DEF Container!At
  <1>7. Container!GoodParts(regs, Container!At(regs, g).factory.container, Container!At(regs, g).factory.needs, g.parts)
    <2>1. PICK needs : needs = Container!At(regs, g).factory.needs
      OBVIOUS
    <2>2. needs \in Seq(Container!Types)
      BY <1>4, <1>6, <2>1, InvParts, RegistrationParts DEF Container!At
    <2>3. Len(needs) \in Nat
      BY <2>2, LenProperties
    <2> QED BY <1>5, <2>1, <2>3, SeqNone DEF Container!GoodParts
  <1>8. Container!FrameOK(regs, g)
    BY <1>4, <1>5, <1>7 DEF Container!FrameOK
  <1>9. ~Container!Builds(regs, g) /\ ~Container!Builds(regs, f)
    BY <1>3, <1>6 DEF Container!Builds
  <1>10. Container!ThreadOK(regs, h, Pushed(g, Tail(s)))
    BY <1>2, <1>5, <1>8, <1>9, InvParts, ThreadTop
  <1>11. OnlyOf(stack, stack', h) /\ stack'[h] = Pushed(g, Tail(s))
    BY <1>3, StackStep
  <1>12. Container!ThreadsOK(regs, stack')
    BY <1>10, <1>11, InvParts, NothingChanges, ThreadsStep
  <1> QED BY <1>1, <1>12, InvParts, Assembled

LEMMA NeedKeeps ==
  ASSUME NEW h \in Users, Container!IInv, Container!Need(h)
  PROVE  Container!IInv'
  <1> DEFINE s == stack[h]
             f == s[1]
             factory == Container!At(regs, f).factory
             g == Container!Frame(factory.container, factory.needs[Len(f.parts) + 1], TRUE)
  <1>1. ~Container!Idle(h) /\ UNCHANGED <<regs, made, calls, given>>
    BY DEF Container!Need
  <1>2. /\ s # <<>> /\ Container!ThreadOK(regs, h, s) /\ Container!Top(h) = f /\ Container!FrameOK(regs, f)
    BY <1>1, TopParts
  <1>3. /\ f.step = "build" /\ Len(f.parts) < Len(factory.needs) /\ stack' = [stack EXCEPT ![h] = Pushed(g, s)]
    BY <1>2 DEF Container!Need, Container!Registered, Container!At, Pushed
  <1>4. f.container \in Container!Containers /\ f.type \in DOMAIN regs[f.container]
    BY <1>2, <1>3, InvParts, FrameParts
  <1>5. factory.container \in Container!Containers /\ factory.needs \in Seq(Container!Types)
    BY <1>4, InvParts, RegistrationParts DEF Container!At
  <1>6. Len(f.parts) \in Nat
    <2>1. Container!IsSeq(f.parts)
      BY <1>2, <1>3 DEF Container!FrameOK, Container!GoodParts
    <2> QED BY <2>1, SeqLonger
  <1>7. factory.needs[Len(f.parts) + 1] \in Container!Types
    BY <1>3, <1>5, <1>6
  <1>8. /\ Container!FrameOK(regs, g) /\ g.container = factory.container /\ g.type = factory.needs[Len(f.parts) + 1]
        /\ g.step = "look"
    BY <1>5, <1>7, FrameMade
  <1> HIDE DEF g
  <1>9. ~Container!Builds(regs, g) /\ Container!Awaits(regs, f, g)
    BY <1>3, <1>8 DEF Container!Builds, Container!Awaits
  <1>10. Container!ThreadOK(regs, h, Pushed(g, s))
    BY <1>2, <1>8, <1>9, InvParts, ThreadPushed
  <1>11. OnlyOf(stack, stack', h) /\ stack'[h] = Pushed(g, s)
    BY <1>3, StackStep
  <1>12. Container!ThreadsOK(regs, stack')
    BY <1>10, <1>11, InvParts, NothingChanges, ThreadsStep
  <1> QED BY <1>1, <1>12, InvParts, Assembled

-----------------------------------------------------------------------------
LEMMA EmplacedKeeps ==
  ASSUME Container!IInv, NEW c \in Container!Containers, NEW t \in Container!Types,
         NEW lifetime \in {"singleton", "transient"}, NEW factory, Container!FactoryOK(c, t, factory),
         regs' = Container!Emplaced(c, t, Container!Registration(lifetime, factory))
  PROVE  /\ Container!RegistrationsOK(regs') /\ Grows(regs, regs') /\ \A u \in Users : SameHeld(regs, regs', u)
         /\ Container!ThreadsOK(regs', stack) /\ Container!ValuesOK(regs', given)
         /\ t \in DOMAIN regs'[c]
         /\ t \notin DOMAIN regs[c] =>
              regs'[c][t].value = Container!Null /\ regs'[c][t].lifetime = lifetime /\ regs'[c][t].factory = factory
  <1> DEFINE r == Container!Registration(lifetime, factory)
  <1>1. /\ Container!RegistrationOK(c, t, r) /\ r.value = Container!Null /\ r.holder = Nobody
        /\ r.lifetime = lifetime /\ r.factory = factory
    BY RegistrationMade
  <1>2. regs' = Container!Emplaced(c, t, r)
    OBVIOUS
  <1> HIDE DEF r
  <1>3. /\ Container!RegistrationsOK(regs') /\ Grows(regs, regs') /\ \A u \in Users : SameHeld(regs, regs', u)
        /\ t \in DOMAIN regs'[c]
        /\ t \notin DOMAIN regs[c] => regs'[c][t] = r
        /\ \A b \in Container!Containers : \A u \in DOMAIN regs'[b] :
              (u \in DOMAIN regs[b] /\ regs'[b][u] = regs[b][u]) \/ regs'[b][u] = r
    <2>1. /\ Container!RegistrationsOK(regs') /\ Grows(regs, regs') /\ \A u \in Users : SameHeld(regs, regs', u)
          /\ OnlyNew(regs, regs', c, t, r)
      BY <1>1, <1>2, InvParts, EmplacedGrows
    <2> QED BY <2>1 DEF OnlyNew
  <1>4. "root" \in Container!Containers
    BY DEF Container!Containers
  <1>5. \A b \in Container!Containers : \A u \in DOMAIN regs'[b] :
              regs'[b][u].value = Container!Null \/ (u \in DOMAIN regs[b] /\ regs'[b][u].value = regs[b][u].value)
    BY <1>1, <1>3
  <1>6. Container!ValuesOK(regs', given)
    BY <1>3, <1>4, <1>5, InvParts, ValuesSame
  <1>7. ASSUME NEW u \in Users PROVE Container!ThreadOK(regs', u, stack[u])
    BY <1>3, InvParts, ThreadStays
  <1>8. Container!ThreadsOK(regs', stack)
    BY <1>7, InvParts DEF Container!ThreadsOK
  <1> QED BY <1>1, <1>3, <1>6, <1>8

LEMMA AddKeeps ==
  ASSUME NEW h \in Users, NEW c \in Container!Containers, NEW t \in Container!Types,
         NEW lifetime \in {"singleton", "transient"}, Container!IInv, Container!Add(h, c, t, lifetime)
  PROVE  Container!IInv'
  <1> DEFINE factory == Container!get_factory(c, t)
  <1>1. /\ Container!Called(h, c) /\ regs' = Container!Emplaced(c, t, Container!Registration(lifetime, factory))
        /\ UNCHANGED <<stack, made, given>>
    BY DEF Container!Add
  <1>2. Container!FactoryOK(c, t, factory)
    BY DefaultMade
  <1> HIDE DEF factory
  <1>3. Container!RegistrationsOK(regs') /\ Container!ThreadsOK(regs', stack) /\ Container!ValuesOK(regs', given)
    BY <1>1, <1>2, EmplacedKeeps
  <1>4. calls' \in 0..MaxCalls
    BY <1>1, CalledParts
  <1> QED BY <1>1, <1>3, <1>4, InvParts, Assembled

(* The call of an idle thread starts where the registrations have grown.      *)
LEMMA StartKeeps ==
  ASSUME Container!IInv, NEW h \in Users, stack[h] = <<>>, Container!RegistrationsOK(regs'), Grows(regs, regs'),
         \A u \in Users : SameHeld(regs, regs', u), Container!ThreadsOK(regs', stack),
         NEW c \in Container!Containers, NEW t \in Container!Types,
         stack' = [stack EXCEPT ![h] = <<Container!Frame(c, t, TRUE)>>]
  PROVE  Container!ThreadsOK(regs', stack')
  <1>1. OnlyOf(stack, stack', h) /\ stack'[h] = <<Container!Frame(c, t, TRUE)>>
    BY StackStep
  <1>2. Container!ThreadOK(regs', h, <<>>)
    BY DEF Container!ThreadsOK
  <1>3. Container!ThreadOK(regs', h, stack'[h])
    BY <1>1, <1>2, ThreadStarts
  <1> QED BY <1>1, <1>3, InvParts, ThreadsStep

LEMMA ResolveAsKeeps ==
  ASSUME NEW h \in Users, NEW c \in Container!Containers, NEW pair \in Aliases, Container!IInv,
         Container!ResolveAs(h, c, pair[1], pair[2])
  PROVE  Container!IInv'
  <1> DEFINE t == pair[1]
             factory == Container!Alias(c, pair[2])
  <1>1. /\ Container!Called(h, c) /\ regs' = Container!Emplaced(c, t, Container!Registration("singleton", factory))
        /\ stack' = [stack EXCEPT ![h] = <<Container!Frame(c, t, TRUE)>>] /\ UNCHANGED <<made, given>>
    BY DEF Container!ResolveAs
  <1>2. t \in Container!Types /\ Container!FactoryOK(c, t, factory)
    BY AliasMade
  <1> HIDE DEF factory, t
  <1>3. /\ Container!RegistrationsOK(regs') /\ Grows(regs, regs') /\ \A u \in Users : SameHeld(regs, regs', u)
        /\ Container!ThreadsOK(regs', stack) /\ Container!ValuesOK(regs', given)
    BY <1>1, <1>2, EmplacedKeeps
  <1>4. stack[h] = <<>> /\ calls' \in 0..MaxCalls
    BY <1>1, CalledParts
  <1>5. Container!ThreadsOK(regs', stack')
    BY <1>1, <1>2, <1>3, <1>4, StartKeeps
  <1> QED BY <1>1, <1>3, <1>4, <1>5, InvParts, Assembled

LEMMA CreateKeeps ==
  ASSUME NEW h \in Users, NEW c \in Container!Containers, NEW t \in Container!Types, Container!IInv, Container!Create(h, c, t)
  PROVE  Container!IInv'
  <1> DEFINE x == Container!Object(<<>>)
             factory == Container!Instance(x)
  <1>1. /\ Container!Called(h, c) /\ made' = made + 1
        /\ regs' = Container!Emplaced(c, t, Container!Registration("singleton", factory))
        /\ t \in DOMAIN regs[c] => stack' = [stack EXCEPT ![h] = <<Container!Frame(c, t, TRUE)>>] /\ given' = given
        /\ t \notin DOMAIN regs[c] => given' = [given EXCEPT ![c] = @ \cup {<<t, x>>}] /\ stack' = stack
    BY DEF Container!Create
  <1>2. x.parts = <<>>
    BY DEF Container!Object
  <1> HIDE DEF x
  <1>3. Container!FactoryOK(c, t, factory) /\ factory.kind = "instance" /\ factory.object[1] = x
    BY <1>2, InstanceMade
  <1> HIDE DEF factory
  <1>4. /\ Container!RegistrationsOK(regs') /\ Grows(regs, regs') /\ \A u \in Users : SameHeld(regs, regs', u)
        /\ Container!ThreadsOK(regs', stack) /\ Container!ValuesOK(regs', given)
        /\ t \in DOMAIN regs'[c]
        /\ t \notin DOMAIN regs[c] =>
              regs'[c][t].value = Container!Null /\ regs'[c][t].lifetime = "singleton" /\ regs'[c][t].factory = factory
    BY <1>1, <1>3, EmplacedKeeps
  <1>5. stack[h] = <<>> /\ calls' \in 0..MaxCalls /\ made' \in Nat
    BY <1>1, CalledParts, InvParts
  <1>6. CASE t \in DOMAIN regs[c]
    <2>1. Container!ThreadsOK(regs', stack')
      BY <1>1, <1>4, <1>5, <1>6, StartKeeps
    <2> QED BY <1>1, <1>4, <1>5, <1>6, <2>1, Assembled
  <1>7. CASE t \notin DOMAIN regs[c]
    <2> DEFINE new == <<t, x>>
    <2>1. given = [b \in Container!Containers |-> given[b]]
      BY InvParts DEF Container!ValuesOK
    <2>2. given' = [given EXCEPT ![c] = given[c] \cup {new}]
      BY <1>1, <1>7
    <2>3. new[1] = t /\ new[2] = x
      OBVIOUS
    <2> HIDE DEF new
    <2>4. /\ given' = [b \in Container!Containers |-> given'[b]]
          /\ \A b \in Container!Containers : \A y \in given'[b] : y \in given[b] \/ (b = c /\ y = new)
      BY <2>1, <2>2
    <2>5. Container!GivenOK(regs', c, new)
      BY <1>3, <1>4, <1>7, <2>3 DEF Container!GivenOK
    <2>6. \A u \in DOMAIN regs'["root"] : Container!BuiltOK(regs', u, regs'["root"][u].value)
      BY <1>4 DEF Container!ValuesOK
    <2>7. Container!ValuesOK(regs', given')
      BY <1>4, <2>4, <2>5, <2>6, NothingChanges, ValuesStep
    <2> QED BY <1>1, <1>4, <1>5, <1>7, <2>7, Assembled
  <1> QED BY <1>6, <1>7

LEMMA CreateChildKeeps ==
  ASSUME NEW h \in Users, Container!IInv, Container!CreateChild(h)
  PROVE  Container!IInv'
  <1>1. /\ Container!Called(h, "root") /\ regs["child"] = <<>> /\ UNCHANGED <<stack, made, given>>
        /\ regs' = [regs EXCEPT !["child"] = [t \in DOMAIN regs["root"] |-> Container!Cloned(regs["root"][t])]]
    BY DEF Container!CreateChild, Container!NoChild
  <1>2. regs = [c \in Container!Containers |-> regs[c]] /\ Container!Containers = {"root", "child"}
    BY InvParts DEF Container!RegistrationsOK, Container!Containers
  <1>3. /\ regs' = [c \in Container!Containers |-> regs'[c]] /\ regs'["root"] = regs["root"]
        /\ regs'["child"] = [t \in DOMAIN regs["root"] |-> Container!Cloned(regs["root"][t])]
    BY <1>1, <1>2
  <1>4. DOMAIN regs["child"] = {}
    BY <1>1
  <1>5. DOMAIN regs'["child"] = DOMAIN regs["root"] /\ \A t \in DOMAIN regs["root"] : regs'["child"][t] = Container!Cloned(regs["root"][t])
    BY <1>3
  <1>6. ASSUME NEW t \in DOMAIN regs["root"]
        PROVE  regs'["child"][t].holder = Nobody /\ Container!RegistrationOK("child", t, regs'["child"][t]) /\ t \in Container!Types
    <2>1. PICK r : r = regs["root"][t]
      OBVIOUS
    <2>2. Container!RegistrationOK("root", t, r) /\ t \in Container!Types
      BY <1>2, <2>1, InvParts, RegistrationParts
    <2>3. PICK q : q = Container!Cloned(r)
      OBVIOUS
    <2>4. /\ q.lifetime = r.lifetime /\ q.factory = r.factory /\ q.value = r.value /\ q.holder = Nobody
          /\ q \in [lifetime : {"singleton", "transient"}, factory : {q.factory}, value : {q.value}, holder : Users \cup {Nobody}]
      BY <2>2, <2>3 DEF Container!RegistrationOK, Container!Cloned
    <2>5. PICK factory : factory = r.factory
      OBVIOUS
    <2>6. Container!FactoryOK("root", t, factory)
      BY <2>2, <2>5 DEF Container!RegistrationOK
    <2>7. Container!FactoryOK("child", t, factory)
      BY <2>6 DEF Container!FactoryOK
    <2>8. Container!RegistrationOK("child", t, q)
      BY <2>2, <2>4, <2>5, <2>7 DEF Container!RegistrationOK
    <2> QED BY <1>5, <2>1, <2>2, <2>3, <2>4, <2>8
  <1>7. Container!RegistrationsOK(regs')
    BY <1>2, <1>3, <1>5, <1>6, InvParts DEF Container!RegistrationsOK
  <1>8. Grows(regs, regs')
    BY <1>2, <1>3, <1>4 DEF Grows
  <1>9. \A u \in Users : SameHeld(regs, regs', u)
    BY <1>2, <1>3, <1>4, <1>5, <1>6, OwnersAssumption DEF SameHeld
  <1>10. \A u \in Users : Container!ThreadOK(regs', u, stack[u])
    BY <1>8, <1>9, InvParts, ThreadStays
  <1>11. Container!ThreadsOK(regs', stack)
    BY <1>10, InvParts DEF Container!ThreadsOK
  <1>12. Container!ValuesOK(regs', given)
    BY <1>3, <1>7, <1>8, InvParts, ValuesSame
  <1>13. calls' \in 0..MaxCalls
    BY <1>1, CalledParts
  <1> QED BY <1>1, <1>7, <1>11, <1>12, <1>13, InvParts, Assembled

-----------------------------------------------------------------------------
Throws(h, value) == value = Container!Null /\ (stack[h][1].throws \/ Len(stack[h]) > 1)

(* What get() leaves of the registrations when it returns or throws.          *)
Left(h, f, value, c, t) ==
  IF ~Container!Holding(h, c, t) THEN regs[c][t]
  ELSE IF c = f.container /\ t = f.type THEN [regs[c][t] EXCEPT !.value = value, !.holder = Nobody]
  ELSE IF Throws(h, value) THEN [regs[c][t] EXCEPT !.holder = Nobody]
  ELSE regs[c][t]

LEMMA ReturnedRegs ==
  ASSUME Container!IInv, NEW h \in Users, ~Container!Idle(h), NEW value, Container!Returns(h, value, value)
  PROVE  LET f == stack[h][1]
         IN /\ regs' = [c \in Container!Containers |-> regs'[c]]
            /\ \A c \in Container!Containers : DOMAIN regs'[c] = DOMAIN regs[c] /\ \A t \in DOMAIN regs[c] :
                 /\ regs'[c][t].lifetime = regs[c][t].lifetime /\ regs'[c][t].factory = regs[c][t].factory
                 /\ regs[c][t].holder # h => regs'[c][t] = regs[c][t]
                 /\ regs[c][t].holder = h /\ c = f.container /\ t = f.type =>
                      regs'[c][t].value = value /\ regs'[c][t].holder = Nobody
                 /\ regs[c][t].holder = h /\ ~(c = f.container /\ t = f.type) =>
                      /\ regs'[c][t].value = regs[c][t].value
                      /\ regs'[c][t].holder = IF Throws(h, value) THEN Nobody ELSE h
                 /\ regs'[c][t] \in [lifetime : {"singleton", "transient"}, factory : {regs'[c][t].factory},
                                     value : {regs'[c][t].value}, holder : Users \cup {Nobody}]
  <1> DEFINE f == stack[h][1]
  <1>1. Container!Top(h) = f
    BY TopParts
  <1>2. regs' = [c \in Container!Containers |-> [t \in DOMAIN regs[c] |-> Left(h, f, value, c, t)]]
    BY <1>1 DEF Container!Returns, Throws, Left
  <1> HIDE DEF f
  <1>3. \A c \in Container!Containers : regs'[c] = [t \in DOMAIN regs[c] |-> Left(h, f, value, c, t)]
    BY <1>2
  <1>4. regs' = [c \in Container!Containers |-> regs'[c]]
    BY <1>2, <1>3
  <1>5. ASSUME NEW c \in Container!Containers
        PROVE  DOMAIN regs'[c] = DOMAIN regs[c]
    BY <1>3
  <1>6. ASSUME NEW c \in Container!Containers, NEW t \in DOMAIN regs[c]
        PROVE  /\ regs'[c][t].lifetime = regs[c][t].lifetime /\ regs'[c][t].factory = regs[c][t].factory
               /\ regs[c][t].holder # h => regs'[c][t] = regs[c][t]
               /\ regs[c][t].holder = h /\ c = f.container /\ t = f.type =>
                    regs'[c][t].value = value /\ regs'[c][t].holder = Nobody
               /\ regs[c][t].holder = h /\ ~(c = f.container /\ t = f.type) =>
                    /\ regs'[c][t].value = regs[c][t].value
                    /\ regs'[c][t].holder = IF Throws(h, value) THEN Nobody ELSE h
               /\ regs'[c][t] \in [lifetime : {"singleton", "transient"}, factory : {regs'[c][t].factory},
                                   value : {regs'[c][t].value}, holder : Users \cup {Nobody}]
    <2>1. PICK r : r = regs[c][t]
      OBVIOUS
    <2>2. r \in [lifetime : {"singleton", "transient"}, factory : {r.factory}, value : {r.value}, holder : Users \cup {Nobody}]
      <3>1. Container!RegistrationOK(c, t, r)
        BY <2>1, InvParts, RegistrationParts
      <3> QED BY <3>1 DEF Container!RegistrationOK
    <2>3. regs'[c][t] = IF r.holder # h THEN r
                        ELSE IF c = f.container /\ t = f.type THEN [r EXCEPT !.value = value, !.holder = Nobody]
                        ELSE IF Throws(h, value) THEN [r EXCEPT !.holder = Nobody]
                        ELSE r
      <3>1. regs'[c][t] = Left(h, f, value, c, t)
        BY <1>3
      <3> QED BY <2>1, <3>1 DEF Container!Holding, Left
    <2>4. CASE r.holder # h
      BY <2>1, <2>2, <2>3, <2>4
    <2>5. CASE r.holder = h /\ c = f.container /\ t = f.type
      <3>1. regs'[c][t] = [r EXCEPT !.value = value, !.holder = Nobody]
        BY <2>3, <2>5
      <3> QED BY <2>1, <2>2, <2>5, <3>1
    <2>6. CASE r.holder = h /\ ~(c = f.container /\ t = f.type) /\ Throws(h, value)
      <3>1. regs'[c][t] = [r EXCEPT !.holder = Nobody]
        BY <2>3, <2>6
      <3> QED BY <2>1, <2>2, <2>6, <3>1
    <2>7. CASE r.holder = h /\ ~(c = f.container /\ t = f.type) /\ ~Throws(h, value)
      BY <2>1, <2>2, <2>3, <2>7
    <2> QED BY <2>4, <2>5, <2>6, <2>7
  <1> QED BY <1>4, <1>5, <1>6 DEF f

\* What a frame returns: what it has just built, or the value that is there.
Returnable(f, value) ==
  /\ f.step # "look"
  /\ f.container = "root" => Container!BuiltOK(regs, f.type, value)
  /\ Container!At(regs, f).factory.kind = "instance" /\ value # Container!Null => value = Container!At(regs, f).factory.object
  /\ f.step = "build" \/ (value # Container!Null /\ Container!At(regs, f).value = value)

LEMMA ReturnsRegistrations ==
  ASSUME Container!IInv, NEW h \in Users, ~Container!Idle(h), NEW value, Container!Returns(h, value, value),
         Returnable(stack[h][1], value)
  PROVE  LET f == stack[h][1]
         IN /\ Container!RegistrationsOK(regs') /\ Grows(regs, regs') /\ \A g \in Users \ {h} : SameHeld(regs, regs', g)
            /\ ~Throws(h, value) => LeavesHeld(regs, regs', h, f)
            /\ Throws(h, value) => \A c \in Container!Containers : \A t \in DOMAIN regs'[c] : regs'[c][t].holder # h
            /\ f.container \in Container!Containers /\ f.type \in DOMAIN regs[f.container]
            /\ Container!At(regs, f).lifetime = "singleton" => Container!At(regs', f).value = value
            /\ \A t \in DOMAIN regs'["root"] : Container!BuiltOK(regs, t, regs'["root"][t].value)
  <1> DEFINE f == stack[h][1]
  <1>1. /\ Container!ThreadOK(regs, h, stack[h]) /\ 1 \in 1..Len(stack[h]) /\ Container!FrameOK(regs, f)
        /\ Returnable(f, value)
    BY TopParts
  <1>2. /\ regs' = [c \in Container!Containers |-> regs'[c]]
        /\ \A c \in Container!Containers : DOMAIN regs'[c] = DOMAIN regs[c] /\ \A t \in DOMAIN regs[c] :
                 /\ regs'[c][t].lifetime = regs[c][t].lifetime /\ regs'[c][t].factory = regs[c][t].factory
                 /\ regs[c][t].holder # h => regs'[c][t] = regs[c][t]
                 /\ regs[c][t].holder = h /\ c = f.container /\ t = f.type =>
                      regs'[c][t].value = value /\ regs'[c][t].holder = Nobody
                 /\ regs[c][t].holder = h /\ ~(c = f.container /\ t = f.type) =>
                      /\ regs'[c][t].value = regs[c][t].value
                      /\ regs'[c][t].holder = IF Throws(h, value) THEN Nobody ELSE h
                 /\ regs'[c][t] \in [lifetime : {"singleton", "transient"}, factory : {regs'[c][t].factory},
                                     value : {regs'[c][t].value}, holder : Users \cup {Nobody}]
    BY ReturnedRegs
  <1>3. Container!Builds(regs, f) => Container!At(regs, f).holder = h
    BY <1>1 DEF Container!ThreadOK, Container!HeldOK
  <1> HIDE DEF f
  <1>4. f.container \in Container!Containers /\ f.type \in DOMAIN regs[f.container]
    BY <1>1, InvParts, FrameParts DEF Returnable
  <1>5. \A c \in Container!Containers : \A t \in DOMAIN regs[c] :
          /\ regs[c][t].holder \in Users \cup {Nobody}
          /\ regs[c][t].holder # Nobody => regs[c][t].value = Container!Null
    BY InvParts, RegistrationParts
  <1>6. h # Nobody
    BY OwnersAssumption
  <1>7. Grows(regs, regs')
    BY <1>2, <1>5, <1>6 DEF Grows
  <1>8. ASSUME NEW g \in Users \ {h} PROVE SameHeld(regs, regs', g)
    <2>1. g # Nobody /\ g # h
      BY OwnersAssumption
    <2> QED BY <1>2, <2>1 DEF SameHeld
  <1>9. ASSUME ~Throws(h, value) PROVE LeavesHeld(regs, regs', h, f)
    BY <1>2, <1>6, <1>9 DEF LeavesHeld
  <1>10. ASSUME Throws(h, value), NEW c \in Container!Containers, NEW t \in DOMAIN regs'[c] PROVE regs'[c][t].holder # h
    BY <1>2, <1>6, <1>10
  <1>11. ASSUME NEW c \in Container!Containers, NEW t \in DOMAIN regs'[c]
         PROVE  t \in Container!Types /\ Container!RegistrationOK(c, t, regs'[c][t])
    <2>1. t \in DOMAIN regs[c] /\ t \in Container!Types /\ Container!RegistrationOK(c, t, regs[c][t])
      BY <1>2, InvParts, RegistrationParts
    <2>2. CASE regs[c][t].holder # h
      BY <1>2, <2>1, <2>2
    <2>3. PICK r, q : r = regs[c][t] /\ q = regs'[c][t]
      OBVIOUS
    <2>4. PICK factory : factory = r.factory
      OBVIOUS
    <2>5. q.factory = factory /\ Container!FactoryOK(c, t, factory)
      BY <1>2, <2>1, <2>3, <2>4 DEF Container!RegistrationOK
    <2>6. CASE r.holder = h /\ c = f.container /\ t = f.type
      <3>1. q.value = value /\ q.holder = Nobody
        BY <1>2, <2>1, <2>3, <2>6
      <3>2. factory.kind = "instance" /\ value # Container!Null => value = factory.object
        BY <1>1, <2>3, <2>4, <2>6 DEF Returnable, Container!At
      <3>3. q \in [lifetime : {"singleton", "transient"}, factory : {q.factory}, value : {q.value}, holder : Users \cup {Nobody}]
        BY <1>2, <2>1, <2>3
      <3>4. Container!RegistrationOK(c, t, q)
        BY <2>5, <3>1, <3>2, <3>3 DEF Container!RegistrationOK
      <3> QED BY <2>1, <2>3, <3>4
    <2>7. CASE r.holder = h /\ ~(c = f.container /\ t = f.type)
      <3>1. q.value = r.value /\ q.lifetime = r.lifetime
        BY <1>2, <2>1, <2>3, <2>7
      <3>2. r.lifetime = "singleton" /\ r.value = Container!Null
        BY <1>6, <2>1, <2>3, <2>7 DEF Container!RegistrationOK
      <3>3. q \in [lifetime : {"singleton", "transient"}, factory : {q.factory}, value : {q.value}, holder : Users \cup {Nobody}]
        BY <1>2, <2>1, <2>3
      <3>4. Container!RegistrationOK(c, t, q)
        BY <2>5, <3>1, <3>2, <3>3 DEF Container!RegistrationOK
      <3> QED BY <2>1, <2>3, <3>4
    <2> QED BY <2>2, <2>3, <2>6, <2>7
  <1>12. Container!RegistrationsOK(regs')
    BY <1>2, <1>11 DEF Container!RegistrationsOK
  <1>13. ASSUME Container!At(regs, f).lifetime = "singleton" PROVE Container!At(regs', f).value = value
    <2>1. CASE f.step = "build"
      <3>1. Container!At(regs, f).holder = h
        BY <1>3, <1>13, <2>1 DEF Container!Builds
      <3> QED BY <1>2, <1>4, <3>1 DEF Container!At
    <2>2. CASE value # Container!Null /\ Container!At(regs, f).value = value
      BY <1>4, <1>7, <2>2 DEF Container!At, Grows
    <2> QED BY <1>1, <2>1, <2>2 DEF Returnable
  <1>14. ASSUME NEW t \in DOMAIN regs'["root"] PROVE Container!BuiltOK(regs, t, regs'["root"][t].value)
    <2>1. "root" \in Container!Containers /\ t \in DOMAIN regs["root"]
      BY <1>2 DEF Container!Containers
    <2>2. Container!BuiltOK(regs, t, regs["root"][t].value)
      BY <2>1, InvParts DEF Container!ValuesOK
    <2>3. CASE regs["root"][t].holder = h /\ "root" = f.container /\ t = f.type
      <3>1. regs'["root"][t].value = value
        BY <1>2, <2>1, <2>3
      <3>2. Container!BuiltOK(regs, t, value)
        BY <1>1, <2>3 DEF Returnable
      <3> QED BY <3>1, <3>2
    <2>4. CASE ~(regs["root"][t].holder = h /\ "root" = f.container /\ t = f.type)
      <3>1. regs'["root"][t].value = regs["root"][t].value
        BY <1>2, <2>1, <2>4
      <3> QED BY <2>2, <3>1
    <2> QED BY <2>3, <2>4
  <1> QED BY <1>4, <1>7, <1>8, <1>9, <1>10, <1>12, <1>13, <1>14 DEF f

LEMMA ReturnsThread ==
  ASSUME Container!IInv, NEW h \in Users, ~Container!Idle(h), NEW value, Container!Returns(h, value, value),
         Returnable(stack[h][1], value)
  PROVE  OnlyOf(stack, stack', h) /\ Container!ThreadOK(regs', h, stack'[h])
  <1> DEFINE s == stack[h]
             f == s[1]
             u == Tail(s)
  <1>1. /\ s # <<>> /\ Container!ThreadOK(regs, h, s) /\ Container!IsSeq(s) /\ Container!FrameOK(regs, f)
        /\ Container!Top(h) = f
    BY TopParts
  <1>2. /\ Container!RegistrationsOK(regs') /\ Grows(regs, regs')
        /\ ~Throws(h, value) => LeavesHeld(regs, regs', h, f)
        /\ Throws(h, value) => \A c \in Container!Containers : \A t \in DOMAIN regs'[c] : regs'[c][t].holder # h
        /\ f.container \in Container!Containers /\ f.type \in DOMAIN regs[f.container]
        /\ Container!At(regs, f).lifetime = "singleton" => Container!At(regs', f).value = value
    BY ReturnsRegistrations
  <1>3. stack' = [stack EXCEPT ![h] = IF Throws(h, value) THEN <<>> ELSE Container!Passed(h, value)]
    BY <1>1 DEF Container!Returns, Throws
  <1>4. OnlyOf(stack, stack', h) /\ stack'[h] = IF Throws(h, value) THEN <<>> ELSE Container!Passed(h, value)
    BY <1>3, StackStep
  <1>5. CASE Throws(h, value)
    <2>1. Container!FramesOK(regs', <<>>) /\ Container!Descends(<<>>)
      BY SeqNone DEF Container!FramesOK, Container!Descends
    <2>2. Container!HeldOK(regs', h, <<>>)
      BY <1>2, <1>5, SeqNone DEF Container!HeldOK
    <2> QED BY <1>4, <1>5, <2>1, <2>2 DEF Container!ThreadOK
  <1>6. CASE ~Throws(h, value)
    <2>1. Container!ThreadOK(regs', h, u)
      BY <1>1, <1>2, <1>6, InvParts, ThreadLeaves
    <2>2. CASE u = <<>>
      <3>1. Container!Passed(h, value) = u
        BY <2>2 DEF Container!Passed
      <3> QED BY <1>4, <1>6, <2>1, <3>1
    <2>3. CASE u # <<>>
      <3>1. /\ u[1] = s[2] /\ Container!Awaits(regs, s[2], f) /\ 2 \in 1..Len(s)
        BY <1>1, <2>3, FramesPopped DEF Container!ThreadOK
      <3>2. Container!FrameOK(regs, s[2])
        BY <1>1, <3>1 DEF Container!ThreadOK, Container!FramesOK
      <3>3. Container!Awaits(regs', u[1], f)
        BY <1>2, <3>1, <3>2, InvParts, GrowsFrame
      <3>4. value # Container!Null
        <4>1. Len(s) \in Nat
          BY <1>1, SeqLonger
        <4>2. Len(s) > 1
          BY <3>1, <4>1
        <4> QED BY <1>6, <4>2 DEF Throws
      <3>5. Container!Good(regs', f.container, f.type, value[1])
        <4>1. /\ f.type \in DOMAIN regs'[f.container]
              /\ Container!At(regs', f).lifetime = Container!At(regs, f).lifetime
              /\ Container!At(regs, f).lifetime \in {"singleton", "transient"}
          BY <1>2, InvParts, RegistrationParts DEF Grows, Container!At
        <4> QED BY <1>2, <3>4, <4>1 DEF Container!Good, Container!At
      <3>6. Container!Passed(h, value) = Pushed(Extended(u[1], value[1]), Tail(u))
        BY <2>3 DEF Container!Passed, Pushed, Extended
      <3> HIDE DEF u, f
      <3>7. Container!ThreadOK(regs', h, Pushed(Extended(u[1], value[1]), Tail(u)))
        BY <1>2, <2>1, <2>3, <3>3, <3>5, ThreadGets
      <3> QED BY <1>4, <1>6, <3>6, <3>7
    <2> QED BY <2>2, <2>3
  <1> QED BY <1>4, <1>5, <1>6

LEMMA ReturnsKeeps ==
  ASSUME Container!IInv, NEW h \in Users, ~Container!Idle(h), NEW value, Container!Returns(h, value, value),
         Returnable(stack[h][1], value), made' \in Nat, UNCHANGED calls
  PROVE  Container!IInv'
  <1> DEFINE f == stack[h][1]
  <1>1. Container!Top(h) = f
    BY TopParts
  <1>2. /\ Container!RegistrationsOK(regs') /\ Grows(regs, regs') /\ \A g \in Users \ {h} : SameHeld(regs, regs', g)
        /\ f.container \in Container!Containers /\ f.type \in DOMAIN regs[f.container]
        /\ Container!At(regs, f).lifetime = "singleton" => Container!At(regs', f).value = value
        /\ \A t \in DOMAIN regs'["root"] : Container!BuiltOK(regs, t, regs'["root"][t].value)
    BY ReturnsRegistrations
  <1>3. OnlyOf(stack, stack', h) /\ Container!ThreadOK(regs', h, stack'[h])
    BY ReturnsThread
  <1>4. Container!ThreadsOK(regs', stack')
    BY <1>2, <1>3, InvParts, ThreadsStep
  <1>5. given' = [given EXCEPT ![f.container] = @ \cup
                   IF value = Container!Null \/ Container!At(regs, f).lifetime = "transient" THEN {} ELSE {<<f.type, value[1]>>}]
    BY <1>1 DEF Container!Returns, Container!Registered, Container!At
  <1> DEFINE new == <<f.type, value[1]>>
  <1>6. new[1] = f.type /\ new[2] = value[1]
    OBVIOUS
  <1> HIDE DEF f, new
  <1>7. given = [c \in Container!Containers |-> given[c]]
    BY InvParts DEF Container!ValuesOK
  <1>8. /\ given' = [c \in Container!Containers |-> given'[c]]
        /\ \A c \in Container!Containers : \A x \in given'[c] :
             x \in given[c] \/ (c = f.container /\ x = new /\ value # Container!Null /\ Container!At(regs, f).lifetime # "transient")
    BY <1>2, <1>5, <1>7 DEF new
  <1>9. ASSUME value # Container!Null, Container!At(regs, f).lifetime # "transient"
        PROVE  Container!GivenOK(regs', f.container, new)
    <2>1. Container!At(regs, f).lifetime = "singleton"
      BY <1>2, <1>9, InvParts, RegistrationParts DEF Container!At
    <2>2. /\ f.type \in DOMAIN regs'[f.container] /\ Container!At(regs', f).lifetime = "singleton"
          /\ Container!At(regs', f).value = value
      BY <1>2, <2>1 DEF Grows, Container!At
    <2> QED BY <1>6, <1>9, <2>2 DEF Container!GivenOK, Container!At
  <1>10. \A c \in Container!Containers : \A x \in given'[c] : x \in given[c] \/ Container!GivenOK(regs', c, x)
    BY <1>8, <1>9
  <1>11. Container!ValuesOK(regs', given')
    BY <1>2, <1>8, <1>10, InvParts, ValuesStep
  <1>12. calls' \in 0..MaxCalls
    BY InvParts
  <1> QED BY <1>2, <1>4, <1>11, <1>12, Assembled

LEMMA EnterSingletonKeeps ==
  ASSUME NEW h \in Users, Container!IInv, Container!EnterSingleton(h)
  PROVE  Container!IInv'
  <1> DEFINE s == stack[h]
             f == s[1]
             g == [f EXCEPT !.step = "build"]
             r == Container!At(regs, f)
             c0 == f.container
             t0 == f.type
  <1>1. ~Container!Idle(h) /\ UNCHANGED <<made, calls>>
    BY DEF Container!EnterSingleton
  <1>2. /\ s # <<>> /\ Container!ThreadOK(regs, h, s) /\ Container!Top(h) = f /\ Container!FrameOK(regs, f)
        /\ Container!IsSeq(s)
    BY <1>1, TopParts
  <1>3. /\ f.step = "enter" /\ r.lifetime = "singleton" /\ r.holder = Nobody
        /\ r.value # Container!Null => Container!Returns(h, r.value, r.value)
        /\ r.value = Container!Null => /\ regs' = [regs EXCEPT ![c0][t0].holder = h]
                                       /\ stack' = [stack EXCEPT ![h] = Pushed(g, Tail(s))] /\ given' = given
    BY <1>2 DEF Container!EnterSingleton, Container!Registered, Container!At, Container!Goes, Pushed
  <1>4. c0 \in Container!Containers /\ t0 \in DOMAIN regs[c0]
    BY <1>2, <1>3, InvParts, FrameParts
  <1>5. Container!RegistrationOK(c0, t0, r) /\ r = regs[c0][t0]
    BY <1>4, InvParts, RegistrationParts DEF Container!At
  <1>6. CASE r.value # Container!Null
    <2>1. c0 = "root" => Container!BuiltOK(regs, t0, r.value)
      BY <1>4, <1>5, InvParts DEF Container!ValuesOK
    <2> DEFINE value == r.value
    <2>2. r.factory.kind = "instance" => value = r.factory.object
      BY <1>5, <1>6 DEF Container!RegistrationOK
    <2>3. Returnable(f, value) /\ Container!Returns(h, value, value)
      BY <1>3, <1>6, <2>1, <2>2 DEF Returnable
    <2> HIDE DEF value
    <2> QED BY <1>1, <2>3, InvParts, ReturnsKeeps
  <1>7. CASE r.value = Container!Null
    <2> HIDE DEF r, g
    <2>1. /\ regs' = [regs EXCEPT ![c0][t0].holder = h] /\ stack' = [stack EXCEPT ![h] = Pushed(g, Tail(s))]
          /\ given' = given
      BY <1>3, <1>7
    <2>2. regs = [c \in Container!Containers |-> regs[c]]
      BY InvParts DEF Container!RegistrationsOK
    <2>3. /\ regs' = [c \in Container!Containers |-> regs'[c]] /\ \A c \in Container!Containers \ {c0} : regs'[c] = regs[c]
          /\ regs'[c0] = [regs[c0] EXCEPT ![t0].holder = h]
      BY <1>4, <2>1, <2>2
    <2>4. /\ DOMAIN regs'[c0] = DOMAIN regs[c0] /\ regs'[c0][t0] = [r EXCEPT !.holder = h]
          /\ \A t \in DOMAIN regs[c0] : t # t0 => regs'[c0][t] = regs[c0][t]
      BY <1>4, <1>5, <2>3
    <2>5. PICK q : q = regs'[c0][t0]
      OBVIOUS
    <2>6. /\ q.lifetime = r.lifetime /\ q.factory = r.factory /\ q.value = r.value /\ q.holder = h
          /\ q \in [lifetime : {"singleton", "transient"}, factory : {q.factory}, value : {q.value}, holder : Users \cup {Nobody}]
      BY <1>5, <2>4, <2>5 DEF Container!RegistrationOK
    <2>7. Container!RegistrationOK(c0, t0, q)
      <3>1. PICK factory : factory = r.factory
        OBVIOUS
      <3>2. Container!FactoryOK(c0, t0, factory)
        BY <1>5, <3>1 DEF Container!RegistrationOK
      <3> QED BY <1>3, <1>7, <2>6, <3>1, <3>2 DEF Container!RegistrationOK
    <2>8. \A c \in Container!Containers : /\ DOMAIN regs'[c] = DOMAIN regs[c]
                                          /\ \A t \in DOMAIN regs[c] : ~(c = c0 /\ t = t0) => regs'[c][t] = regs[c][t]
      BY <2>3, <2>4
    <2>9. Container!RegistrationsOK(regs')
      <3>1. ASSUME NEW c \in Container!Containers, NEW t \in DOMAIN regs'[c]
            PROVE  t \in Container!Types /\ Container!RegistrationOK(c, t, regs'[c][t])
        <4>1. t \in Container!Types /\ Container!RegistrationOK(c, t, regs[c][t]) /\ t \in DOMAIN regs[c]
          BY <2>8, InvParts, RegistrationParts
        <4>2. CASE c = c0 /\ t = t0
          BY <2>5, <2>7, <4>1, <4>2
        <4>3. CASE ~(c = c0 /\ t = t0)
          BY <2>8, <4>1, <4>3
        <4> QED BY <4>2, <4>3
      <3> QED BY <2>3, <3>1 DEF Container!RegistrationsOK
    <2>10. Grows(regs, regs')
      BY <1>5, <2>5, <2>6, <2>8 DEF Grows
    <2>11. ASSUME NEW u \in Users \ {h} PROVE SameHeld(regs, regs', u)
      <3>1. u # Nobody /\ u # h
        BY OwnersAssumption
      <3>2. ASSUME NEW c \in Container!Containers, NEW t
            PROVE  /\ t \in DOMAIN regs'[c] <=> t \in DOMAIN regs[c]
                   /\ t \in DOMAIN regs[c] => (regs'[c][t].holder = u <=> regs[c][t].holder = u)
        <4>1. t \in DOMAIN regs'[c] <=> t \in DOMAIN regs[c]
          BY <2>8
        <4>2. CASE c = c0 /\ t = t0
          <5>1. regs'[c][t].holder = h /\ regs[c][t].holder = Nobody
            BY <1>3, <1>5, <2>5, <2>6, <4>2
          <5> QED BY <3>1, <4>1, <5>1
        <4>3. CASE ~(c = c0 /\ t = t0)
          BY <2>8, <4>1, <4>3
        <4> QED BY <4>2, <4>3
      <3> QED BY <3>2 DEF SameHeld
    <2>12. Container!ValuesOK(regs', given)
      <3>1. \A t \in DOMAIN regs'["root"] : t \in DOMAIN regs["root"] /\ regs'["root"][t].value = regs["root"][t].value
        <4>1. "root" \in Container!Containers
          BY DEF Container!Containers
        <4> QED BY <1>5, <2>5, <2>6, <2>8, <4>1
      <3> QED BY <2>9, <2>10, <3>1, InvParts, ValuesSame
    <2>13. /\ g.container = c0 /\ g.type = t0 /\ g.step = "build" /\ g.parts = <<>>
           /\ g \in [container : Container!Containers, type : Container!Types, throws : BOOLEAN, step : {"look", "enter", "build"},
                     parts : {g.parts}]
      BY <1>2, <1>3 DEF Container!FrameOK, g
    <2>14. Container!At(regs, g) = r /\ Container!At(regs', g) = q
      BY <2>5, <2>13, <1>5 DEF Container!At
    <2>15. Container!FrameOK(regs', g)
      <3>1. PICK needs : needs = q.factory.needs
        OBVIOUS
      <3>2. needs \in Seq(Container!Types)
        <4>1. regs[c0][t0].factory.needs \in Seq(Container!Types)
          BY <1>4, InvParts, RegistrationParts
        <4> QED BY <1>5, <2>6, <3>1, <4>1
      <3>3. Len(needs) \in Nat
        BY <3>2
      <3>4. Container!GoodParts(regs', q.factory.container, needs, g.parts)
        BY <2>13, <3>3, SeqNone DEF Container!GoodParts
      <3>5. t0 \in DOMAIN regs'[c0]
        BY <1>4, <2>4
      <3> QED BY <2>13, <2>14, <3>1, <3>4, <3>5 DEF Container!FrameOK
    <2>16. Container!ThreadOK(regs, h, Tail(s))
      <3>1. LeavesHeld(regs, regs, h, f)
        BY <1>3 DEF LeavesHeld, Container!Builds
      <3> QED BY <1>2, <3>1, InvParts, NothingChanges, ThreadLeaves
    <2>17. Tail(s) # <<>> => Container!Awaits(regs, Tail(s)[1], g)
      <3>1. Tail(s) # <<>> => Tail(s)[1] = s[2] /\ Container!Awaits(regs, s[2], f)
        BY <1>2, FramesPopped DEF Container!ThreadOK
      <3> QED BY <2>13, <3>1 DEF Container!Awaits
    <2>18. h # Nobody
      BY OwnersAssumption
    <2>19. \A c \in Container!Containers :
             /\ \A t \in DOMAIN regs'[c] : regs'[c][t].holder = h =>
                  (c = c0 /\ t = t0) \/ (t \in DOMAIN regs[c] /\ regs[c][t].holder = h)
             /\ \A t \in DOMAIN regs[c] : regs[c][t].holder = h => regs'[c][t].holder = h
      BY <2>5, <2>6, <2>8
    <2>20. Container!ThreadOK(regs', h, Pushed(g, Tail(s)))
      <3> DEFINE u == Tail(s)
      <3>1. Container!ThreadOK(regs, h, u) /\ u # <<>> => Container!Awaits(regs, u[1], g)
        BY <2>16, <2>17
      <3>2. Container!ThreadOK(regs, h, u)
        BY <2>16
      <3>3. /\ Container!At(regs, g).holder # h /\ Container!At(regs', g).holder = h /\ g.type \in DOMAIN regs[g.container]
            /\ g.step = "build"
        BY <1>3, <1>4, <2>6, <2>13, <2>14, <2>18
      <3>4. \A c \in Container!Containers :
             /\ \A t \in DOMAIN regs'[c] : regs'[c][t].holder = h =>
                  (c = g.container /\ t = g.type) \/ (t \in DOMAIN regs[c] /\ regs[c][t].holder = h)
             /\ \A t \in DOMAIN regs[c] : regs[c][t].holder = h => regs'[c][t].holder = h
        BY <2>13, <2>19
      <3> HIDE DEF u
      <3>5. Container!ThreadOK(regs', h, Pushed(g, u))
        BY <2>9, <2>10, <2>15, <3>1, <3>2, <3>3, <3>4, InvParts, ThreadBuilds
      <3> QED BY <3>5 DEF u
    <2>21. OnlyOf(stack, stack', h) /\ stack'[h] = Pushed(g, Tail(s))
      BY <2>1, StackStep
    <2>22. Container!ThreadsOK(regs', stack')
      BY <2>10, <2>11, <2>20, <2>21, InvParts, ThreadsStep
    <2> QED BY <1>1, <2>1, <2>9, <2>12, <2>22, InvParts, Assembled
  <1> QED BY <1>6, <1>7

LEMMA FinishKeeps ==
  ASSUME NEW h \in Users, Container!IInv, Container!Finish(h)
  PROVE  Container!IInv'
  <1> DEFINE f == stack[h][1]
             r == Container!At(regs, f)
             factory == r.factory
             value == CASE factory.kind = "make" -> <<Container!Object(f.parts)>>
                        [] factory.kind = "alias" -> <<f.parts[1]>>
                        [] OTHER -> factory.object
  <1>1. ~Container!Idle(h) /\ UNCHANGED calls
    BY DEF Container!Finish
  <1>2. Container!Top(h) = f /\ Container!FrameOK(regs, f)
    BY <1>1, TopParts
  <1>3. f.step = "build" /\ Len(f.parts) = Len(factory.needs) /\ Container!Returns(h, value, value)
    BY <1>2 DEF Container!Finish, Container!Registered, Container!At
  <1>4. made' \in Nat
    <2>1. made' = made + 1 \/ made' = made
      BY DEF Container!Finish
    <2> QED BY <2>1, InvParts
  <1>5. f.container \in Container!Containers /\ f.type \in DOMAIN regs[f.container]
    BY <1>2, <1>3, InvParts, FrameParts
  <1>6. Container!FactoryOK(f.container, f.type, factory)
    <2>1. Container!RegistrationOK(f.container, f.type, r)
      BY <1>5, InvParts, RegistrationParts DEF Container!At
    <2> QED BY <2>1 DEF Container!RegistrationOK
  <1>7. Container!GoodParts(regs, factory.container, factory.needs, f.parts)
    BY <1>2, <1>3 DEF Container!FrameOK
  <1>8. factory.kind = "make" => value[1].parts = f.parts
    BY DEF Container!Object
  <1>9. factory.kind = "instance" => value = factory.object
    OBVIOUS
  <1> HIDE DEF value, factory
  <1>10. ASSUME f.container = "root" PROVE Container!BuiltOK(regs, f.type, value)
    <2>1. SUFFICES ASSUME Default[f.type].kind = "make", value # Container!Null
                   PROVE  Container!GoodParts(regs, "root", Default[f.type].needs, value[1].parts)
      BY DEF Container!BuiltOK
    <2>2. factory.kind \in {"make", "instance"}
      BY <1>6, <2>1 DEF Container!FactoryOK
    <2>3. CASE factory.kind = "make"
      <3>1. factory.container = "root" /\ factory.needs = Default[f.type].needs
        BY <1>6, <1>10, <2>3 DEF Container!FactoryOK
      <3> QED BY <1>7, <1>8, <2>3, <3>1
    <2>4. CASE factory.kind = "instance"
      <3>1. value[1].parts = <<>>
        BY <1>6, <1>9, <2>4 DEF Container!FactoryOK
      <3>2. Default[f.type].needs \in Seq(Container!Types)
        <4>1. f.type \in Container!Types
          BY <1>2, InvParts, FrameParts
        <4> QED BY <4>1, ProgramAssumption DEF Container!ProgramOK
      <3>3. Len(Default[f.type].needs) \in Nat
        BY <3>2, LenProperties
      <3> QED BY <3>1, <3>3, SeqNone DEF Container!GoodParts
    <2> QED BY <2>2, <2>3, <2>4
  <1>11. Returnable(f, value)
    BY <1>3, <1>9, <1>10 DEF Returnable, factory
  <1> QED BY <1>1, <1>3, <1>4, <1>11, ReturnsKeeps

-----------------------------------------------------------------------------
LEMMA ContainerInit == Container!Init => Container!IInv
  <1> SUFFICES ASSUME Container!Init PROVE Container!IInv
    OBVIOUS
  <1>1. /\ regs = [c \in Container!Containers |-> <<>>] /\ stack = [h \in Users |-> <<>>] /\ made = 0 /\ calls = 0
        /\ given = [c \in Container!Containers |-> {}]
    BY DEF Container!Init
  <1>2. \A c \in Container!Containers : DOMAIN regs[c] = {} /\ given[c] = {}
    BY <1>1
  <1>3. "root" \in Container!Containers
    BY DEF Container!Containers
  <1>4. Container!TypeOK
    <2>1. \A h \in Users : DOMAIN stack[h] = {}
      BY <1>1
    <2> QED BY <1>1, <1>2, <2>1, ProgramAssumption DEF Container!TypeOK
  <1>5. Container!RegistrationsOK(regs)
    BY <1>1, <1>2 DEF Container!RegistrationsOK
  <1>6. Container!ValuesOK(regs, given)
    BY <1>1, <1>2, <1>3 DEF Container!ValuesOK
  <1>7. ASSUME NEW h \in Users PROVE Container!ThreadOK(regs, h, stack[h])
    <2>1. stack[h] = <<>>
      BY <1>1
    <2>2. Container!FramesOK(regs, <<>>) /\ Container!Descends(<<>>)
      BY SeqNone DEF Container!FramesOK, Container!Descends
    <2>3. Container!HeldOK(regs, h, <<>>)
      BY <1>2, SeqNone DEF Container!HeldOK
    <2> QED BY <2>1, <2>2, <2>3 DEF Container!ThreadOK
  <1>8. Container!ThreadsOK(regs, stack)
    BY <1>1, <1>7 DEF Container!ThreadsOK
  <1> QED BY <1>4, <1>5, <1>6, <1>8 DEF Container!IInv

LEMMA ContainerNext == Container!IInv /\ [Container!Next]_containerVars => Container!IInv'
  <1> SUFFICES ASSUME Container!IInv, [Container!Next]_containerVars PROVE Container!IInv'
    OBVIOUS
  <1>1. CASE UNCHANGED containerVars
    <2>1. regs' = regs /\ stack' = stack /\ made' = made /\ calls' = calls /\ given' = given
      BY <1>1 DEF containerVars
    <2> QED BY <2>1, InvParts, Assembled
  <1>2. ASSUME NEW h \in Users, NEW c \in Container!Containers, NEW t \in Container!Types,
               \/ \E throws \in BOOLEAN : Container!Resolve(h, c, t, throws)
               \/ \E lifetime \in {"singleton", "transient"} : Container!Add(h, c, t, lifetime)
               \/ t \in Creatable /\ Container!Create(h, c, t)
        PROVE  Container!IInv'
    BY <1>2, ResolveKeeps, AddKeeps, CreateKeeps
  <1>3. ASSUME NEW h \in Users, NEW c \in Container!Containers, NEW pair \in Aliases,
               Container!ResolveAs(h, c, pair[1], pair[2])
        PROVE  Container!IInv'
    BY <1>3, ResolveAsKeeps
  <1>4. ASSUME NEW h \in Users,
               \/ Container!GetRegistration(h) \/ Container!EnterSingleton(h) \/ Container!EnterTransient(h)
               \/ Container!Need(h) \/ Container!Finish(h) \/ Container!CreateChild(h)
        PROVE  Container!IInv'
    BY <1>4, GetRegistrationKeeps, EnterSingletonKeeps, EnterTransientKeeps, NeedKeeps, FinishKeeps, CreateChildKeeps
  <1> QED BY <1>1, <1>2, <1>3, <1>4 DEF Container!Next

-----------------------------------------------------------------------------
LEMMA OneOfEach == Container!IInv => Container!OneInstance /\ Container!PartsShared
  <1> SUFFICES ASSUME Container!IInv PROVE Container!OneInstance /\ Container!PartsShared
    OBVIOUS
  <1>1. \A c \in Container!Containers : \A x \in given[c] : Container!GivenOK(regs, c, x)
    BY InvParts DEF Container!ValuesOK
  <1>2. Container!OneInstance
    <2>1. SUFFICES ASSUME NEW c \in Container!Containers, NEW x \in given[c], NEW y \in given[c], x[1] = y[1] PROVE x[2] = y[2]
      BY DEF Container!OneInstance
    <2>2. Container!GivenOK(regs, c, x) /\ Container!GivenOK(regs, c, y)
      BY <1>1
    <2> QED BY <2>1, <2>2 DEF Container!GivenOK
  <1>3. Container!PartsShared
    <2>1. "root" \in Container!Containers
      BY DEF Container!Containers
    <2>2. SUFFICES ASSUME NEW x \in given["root"], NEW y \in given["root"], Default[x[1]].kind = "make",
                          NEW i \in DOMAIN x[2].parts, y[1] = Default[x[1]].needs[i]
                   PROVE  x[2].parts[i] = y[2]
      BY DEF Container!PartsShared, Container!HasPart
    <2>3. Container!GivenOK(regs, "root", x) /\ Container!GivenOK(regs, "root", y)
      BY <1>1, <2>1
    <2> DEFINE r == regs["root"][x[1]]
               parts == x[2].parts
    <2>4. x[1] \in DOMAIN regs["root"]
      BY <2>3 DEF Container!GivenOK
    <2>5. CASE r.value # Container!Null
      <3>1. r.value[1] = x[2]
        BY <2>3, <2>5 DEF Container!GivenOK
      <3>2. Container!BuiltOK(regs, x[1], r.value)
        BY <2>4, InvParts DEF Container!ValuesOK
      <3>3. Container!GoodParts(regs, "root", Default[x[1]].needs, parts)
        BY <2>2, <2>5, <3>1, <3>2 DEF Container!BuiltOK
      <3>4. Container!IsSeq(parts)
        BY <3>3 DEF Container!GoodParts
      <3> HIDE DEF parts
      <3>5. DOMAIN parts = 1..Len(parts)
        BY <3>4, SeqLonger
      <3>6. Container!Good(regs, "root", y[1], parts[i])
        BY <2>2, <3>3, <3>5 DEF Container!GoodParts, parts
      <3>7. parts[i] = y[2]
        BY <2>3, <3>6 DEF Container!Good, Container!GivenOK
      <3> QED BY <3>7 DEF parts
    <2>6. CASE r.value = Container!Null
      <3>1. r.factory.kind = "instance" /\ r.factory.object[1] = x[2]
        BY <2>3, <2>6 DEF Container!GivenOK
      <3>2. Container!RegistrationOK("root", x[1], r)
        BY <2>1, <2>4, InvParts, RegistrationParts
      <3>3. parts = <<>>
        BY <3>1, <3>2 DEF Container!RegistrationOK, Container!FactoryOK
      <3> QED BY <3>3
    <2> QED BY <2>5, <2>6
  <1> QED BY <1>2, <1>3

(* Every mutex that is held is held for a frame of its holder.                *)
LEMMA HeldByFrame ==
  ASSUME Container!IInv, NEW c \in Container!Containers, NEW t \in DOMAIN regs[c], regs[c][t].holder # Nobody
  PROVE  /\ regs[c][t].holder \in Users
         /\ \E i \in 1..Len(stack[regs[c][t].holder]) : Container!IsFor(stack[regs[c][t].holder][i], c, t)
  <1> DEFINE h == regs[c][t].holder
  <1>1. h \in Users
    BY InvParts, RegistrationParts
  <1>2. Container!HeldOK(regs, h, stack[h])
    BY <1>1, InvParts DEF Container!ThreadOK
  <1> QED BY <1>1, <1>2 DEF Container!HeldOK

LEMMA HeldForItsFrames == Container!IInv => Container!HeldForFrames
  <1> SUFFICES ASSUME Container!IInv, NEW c \in Container!Containers, NEW t \in DOMAIN regs[c], regs[c][t].holder # Nobody
               PROVE  \E i \in DOMAIN stack[regs[c][t].holder] :
                        LET f == stack[regs[c][t].holder][i] IN f.container = c /\ f.type = t /\ f.step = "build"
    BY DEF Container!HeldForFrames
  <1> DEFINE h == regs[c][t].holder
             s == stack[h]
  <1>1. h \in Users /\ \E i \in 1..Len(s) : Container!IsFor(s[i], c, t)
    BY HeldByFrame
  <1>2. Container!IsSeq(s)
    BY <1>1, InvParts DEF Container!ThreadOK, Container!FramesOK
  <1> HIDE DEF s
  <1>3. DOMAIN s = 1..Len(s)
    BY <1>2, SeqLonger
  <1> QED BY <1>1, <1>3 DEF Container!IsFor, s

(* Of threads that all wait, the one that waits for the lowest type would be  *)
(* waiting for one that waits for a lower one still.                          *)
LEMMA NobodyIsStuck == Container!IInv => Container!NobodyStuck
  <1> SUFFICES ASSUME Container!IInv, NEW g \in Users, ~Container!Idle(g),
                      \A h \in Users : ~Container!Idle(h) => Container!Waits(h)
               PROVE  FALSE
    BY DEF Container!NobodyStuck
  <1> DEFINE Low(h) == Container!Rank[stack[h][1].type]
             T == {Low(h) : h \in {u \in Users : ~Container!Idle(u)}}
  <1>1. ASSUME NEW h \in Users, ~Container!Idle(h)
        PROVE  /\ Low(h) \in Nat
               /\ \E u \in Users : ~Container!Idle(u) /\ Low(u) < Low(h)
    <2> DEFINE f == stack[h][1]
    <2>1. Container!Top(h) = f /\ Container!FrameOK(regs, f)
      BY <1>1, TopParts
    <2>2. /\ f.container \in Container!Containers /\ f.type \in Container!Types
          /\ f.step # "look" => f.type \in DOMAIN regs[f.container]
      BY <2>1, InvParts, FrameParts
    <2>3. f.step = "enter" /\ regs[f.container][f.type].holder # Nobody
      BY <1>1, <2>1 DEF Container!Waits, Container!Registered
    <2> DEFINE u == regs[f.container][f.type].holder
               s == stack[u]
    <2>4. u \in Users /\ \E i \in 1..Len(s) : Container!IsFor(s[i], f.container, f.type)
      BY <2>2, <2>3, HeldByFrame
    <2>5. PICK i \in 1..Len(s) : Container!IsFor(s[i], f.container, f.type)
      BY <2>4
    <2>6. Container!ThreadOK(regs, u, s)
      BY <2>4, InvParts
    <2>7. Container!IsSeq(s) /\ Container!Descends(s)
      BY <2>6 DEF Container!ThreadOK, Container!FramesOK
    <2>8. Len(s) \in Nat
      BY <2>7, SeqLonger
    <2> HIDE DEF s
    <2>9. ~Container!Idle(u)
      <3>1. Len(s) # 0
        BY <2>5, <2>8
      <3>2. s # <<>>
        BY <3>1, SeqNone
      <3> QED BY <3>2 DEF Container!Idle, s
    <2>10. Container!Top(u) = s[1] /\ Container!FrameOK(regs, s[1])
      BY <2>4, <2>9, TopParts DEF s
    <2>11. s[1].step = "enter"
      BY <2>4, <2>9, <2>10 DEF Container!Waits
    <2>12. 1 \in 1..Len(s) /\ 1 < i
      <3>1. i # 1
        BY <2>5, <2>11 DEF Container!IsFor
      <3> QED BY <2>5, <2>8, <3>1
    <2>13. Container!Rank[s[1].type] < Container!Rank[s[i].type] /\ s[i].type = f.type
      BY <2>5, <2>7, <2>12 DEF Container!Descends, Container!IsFor
    <2>14. Low(h) \in Nat
      BY <2>2, RankBelow
    <2> QED BY <2>4, <2>9, <2>13, <2>14 DEF s
  <1>2. T \subseteq Nat /\ T # {}
    BY <1>1
  <1>3. PICK x \in T : \A y \in T : ~(<<y, x>> \in OpToRel(<, Nat))
    BY <1>2, WFMin, NatLessThanWellFounded
  <1>4. PICK h \in Users : ~Container!Idle(h) /\ x = Low(h)
    BY <1>3
  <1>5. PICK u \in Users : ~Container!Idle(u) /\ Low(u) < Low(h)
    BY <1>1, <1>4
  <1>6. Low(u) \in T /\ Low(u) \in Nat /\ Low(h) \in Nat
    BY <1>1, <1>4, <1>5
  <1> HIDE DEF T
  <1>7. <<Low(u), Low(h)>> \in OpToRel(<, Nat)
    BY <1>5, <1>6 DEF OpToRel
  <1> QED BY <1>3, <1>4, <1>6, <1>7

-----------------------------------------------------------------------------
LEMMA ContainerPart == OwnersSpec => Container!Init /\ [][Container!Next]_containerVars
  <1>1. OwnersInit => Container!Init
    BY DEF OwnersInit
  <1>2. [OwnersNext]_<<part, vars, clientVars, containerVars, registryVars, poolVars, pointerVars>>
          => [Container!Next]_containerVars
    BY DEF OwnersNext, containerVars
  <1> QED BY <1>1, <1>2, PTL DEF OwnersSpec

LEMMA ContainerInvariant == OwnersSpec => []Container!IInv
  BY ContainerInit, ContainerNext, ContainerPart, PTL

(* Whatever program of acyclic needs threads run at a container, a container  *)
(* has one object of a singleton type, and what needs it shares it.           *)
THEOREM SingletonsKept == OwnersSpec => []ContainerSafe
  <1>1. Container!IInv => ContainerSafe
    BY OneOfEach DEF ContainerSafe, Container!IInv
  <1> QED BY <1>1, ContainerInvariant, PTL

(* In such a program a mutex is held for a frame of the thread that holds it, *)
(* and among the threads that are inside calls there is always one that can   *)
(* go on.                                                                     *)
THEOREM ResolutionGoesOn == OwnersSpec => []ContainerRuns
  <1>1. Container!IInv => ContainerRuns
    BY HeldForItsFrames, NobodyIsStuck DEF ContainerRuns
  <1> QED BY <1>1, ContainerInvariant, PTL
=============================================================================
