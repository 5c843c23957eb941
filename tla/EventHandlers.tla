--------------------------- MODULE EventHandlers ---------------------------
(***************************************************************************)
(* event_handler_collection (Infrastructure/Events.h): the handlers of one *)
(* event, by token.  The recursive mutex counts its locks: what a handler  *)
(* adds or removes while the event is raised is put off to the end of the  *)
(* outermost raise.  Calls of other threads wait for that moment, so that  *)
(* all of them are calls made at depth 0.  Tokens are unsigned integers    *)
(* that wrap: here modulo Width.                                           *)
(***************************************************************************)
EXTENDS Naturals, Sequences, TLAPS

CONSTANTS Handlers,   \* every handler is subscribed once
          NoHandler,
          Width,      \* bound: the number of tokens, 2^32 in the code
          MaxDepth    \* bound: raises inside each other

VARIABLES handlers,   \* _handlers, a function on all tokens
          toAdd,      \* _handlersToAdd, likewise
          toRemove,   \* _handlersToRemove
          nextToken,  \* _nextToken
          raises,     \* the raises under way, the innermost last
          token,      \* the token in the subscription of each handler
          revoked,    \* the handlers whose subscription is gone
          thrown      \* whether an exception left the last outermost raise

vars == <<handlers, toAdd, toRemove, nextToken, raises, token, revoked, thrown>>

Tokens == 0 .. Width - 1
NoToken == Width
NoHandlers == [t \in Tokens |-> NoHandler]

Registered == {t \in Tokens : handlers[t] # NoHandler}
Used == Registered \cup {t \in Tokens : toAdd[t] # NoHandler}

Init == /\ handlers = NoHandlers /\ toAdd = NoHandlers /\ toRemove = {}
        /\ nextToken = 1 % Width
        /\ raises = <<>>
        /\ token = [h \in Handlers |-> NoToken]
        /\ revoked = {}
        /\ thrown = FALSE

Depth == Len(raises)
Top == raises[Depth]

\* User code runs outside every raise, and inside a handler.
UserRuns == \A d \in {Depth} \ {0} : raises[d].running # NoToken

\* The first token from nextToken on that is not in use.
IsFree(t, used) ==
  /\ t \notin used
  /\ \A u \in Tokens \ used : (t + Width - nextToken) % Width <= (u + Width - nextToken) % Width

-----------------------------------------------------------------------------
(* Mutants of the definitions below. *)

\* remove() erases at any depth.
RevokeAtOnce(h) ==
  /\ UserRuns /\ token[h] # NoToken /\ h \notin revoked
  /\ revoked' = revoked \cup {h}
  /\ handlers' = [handlers EXCEPT ![token[h]] = NoHandler]
  /\ UNCHANGED <<toAdd, toRemove, nextToken, raises, token, thrown>>

\* The removals that were put off are forgotten at the end.
FlushNoRemoval ==
  /\ handlers' = [t \in Tokens |-> IF toAdd[t] # NoHandler THEN toAdd[t] ELSE handlers[t]]
  /\ toAdd' = NoHandlers
  /\ UNCHANGED toRemove

-----------------------------------------------------------------------------
\* add()
Subscribe(h) ==
  /\ UserRuns /\ token[h] = NoToken
  /\ \E t \in Tokens :
     /\ IsFree(t, Used)
     /\ token' = [token EXCEPT ![h] = t]
     /\ nextToken' = (t + 1) % Width
     /\ IF Depth = 0 THEN /\ handlers' = [handlers EXCEPT ![t] = h]
                          /\ UNCHANGED toAdd
                     ELSE /\ toAdd' = [toAdd EXCEPT ![t] = h]
                          /\ UNCHANGED handlers
  /\ UNCHANGED <<toRemove, raises, revoked, thrown>>

\* event_subscription::reset() and remove(): a token that is not in the map is
\* ignored.
Revoke(h) ==
  /\ UserRuns /\ token[h] # NoToken /\ h \notin revoked
  /\ revoked' = revoked \cup {h}
  /\ LET known == {token[h]} \cap Registered IN
     IF Depth = 0 THEN /\ handlers' = [t \in Tokens |-> IF t \in known THEN NoHandler ELSE handlers[t]]
                       /\ UNCHANGED toRemove
                  ELSE /\ toRemove' = toRemove \cup known
                       /\ UNCHANGED handlers
  /\ UNCHANGED <<toAdd, nextToken, raises, token, thrown>>

\* invoke(): the map does not change while it is walked, in any order.
Raise ==
  /\ UserRuns /\ Depth < MaxDepth
  /\ raises' = Append(raises, [left |-> Registered, running |-> NoToken])
  /\ thrown' = (thrown /\ Depth # 0)
  /\ UNCHANGED <<handlers, toAdd, toRemove, nextToken, token, revoked>>

Call(t) ==
  /\ Depth # 0 /\ ~UserRuns /\ t \in Top.left
  /\ raises' = [raises EXCEPT ![Depth] = [left |-> @.left \ {t}, running |-> t]]
  /\ UNCHANGED <<handlers, toAdd, toRemove, nextToken, token, revoked, thrown>>

Return ==
  /\ Depth # 0 /\ UserRuns
  /\ raises' = [raises EXCEPT ![Depth].running = NoToken]
  /\ UNCHANGED <<handlers, toAdd, toRemove, nextToken, token, revoked, thrown>>

\* The end of the outermost raise: additions first, then removals.
Flush ==
  /\ handlers' = [t \in Tokens |-> IF t \in toRemove THEN NoHandler
                                   ELSE IF toAdd[t] # NoHandler THEN toAdd[t] ELSE handlers[t]]
  /\ toAdd' = NoHandlers
  /\ toRemove' = {}

EndRaise ==
  /\ Depth # 0 /\ ~UserRuns /\ Top.left = {}
  /\ raises' = SubSeq(raises, 1, Depth - 1)
  /\ IF Depth = 1 THEN Flush ELSE UNCHANGED <<handlers, toAdd, toRemove>>
  /\ UNCHANGED <<nextToken, token, revoked, thrown>>

\* A handler throws: the raise is over, what was put off stays put off.  The
\* handler that raised it, if any, may catch.
Throw ==
  /\ Depth # 0 /\ UserRuns
  /\ raises' = SubSeq(raises, 1, Depth - 1)
  /\ thrown' = (Depth = 1)
  /\ UNCHANGED <<handlers, toAdd, toRemove, nextToken, token, revoked>>

Next == \/ \E h \in Handlers : Subscribe(h) \/ Revoke(h)
        \/ Raise \/ Return \/ EndRaise \/ Throw
        \/ \E t \in Tokens : Call(t)

Spec == Init /\ [][Next]_vars

-----------------------------------------------------------------------------
TypeOK ==
  /\ handlers \in [Tokens -> Handlers \cup {NoHandler}]
  /\ toAdd \in [Tokens -> Handlers \cup {NoHandler}]
  /\ toRemove \subseteq Tokens
  /\ nextToken \in Tokens
  /\ raises \in Seq([left : SUBSET Tokens, running : Tokens \cup {NoToken}])
  /\ token \in [Handlers -> Tokens \cup {NoToken}]
  /\ revoked \subseteq Handlers
  /\ thrown \in BOOLEAN

(* A subscribed handler keeps its own token until it is revoked: no other     *)
(* handler gets it, replaces it or is removed in its place, though tokens     *)
(* wrap and changes are put off.                                              *)
KeepsToken ==
  \A h \in Handlers : token[h] # NoToken /\ h \notin revoked =>
    /\ handlers[token[h]] = h \/ toAdd[token[h]] = h
    /\ token[h] \notin toRemove

(* The map is not touched while a raise walks it.                             *)
StableWhileRaised == [][Depth # 0 /\ raises' # <<>> => handlers' = handlers]_vars

(* Nothing is put off beyond the end of a raise, unless a handler threw.      *)
PutOffUntilEnd == Depth = 0 /\ ~thrown => toAdd = NoHandlers /\ toRemove = {}

(* Outside every raise a handler whose subscription is gone is gone as well   *)
(* (Events.md: "When that token is destroyed ... the handler is removed").    *)
RevokedRemoved == Depth = 0 /\ ~thrown => \A t \in Registered : handlers[t] \notin revoked

-----------------------------------------------------------------------------
\* What the proofs assume: there are tokens, and no handler is the absence of one.
ConstantsOK == Width \in Nat \ {0} /\ NoHandler \notin Handlers

\* A token is not given out twice, and what waits for removal is a revoked handler in the map.
TokensOK ==
  /\ \A t \in Tokens : toAdd[t] # NoHandler => handlers[t] = NoHandler
  /\ \A t \in toRemove : handlers[t] \in revoked

IInv == TypeOK /\ KeepsToken /\ TokensOK /\ PutOffUntilEnd

(* A handler gets a token that is neither in the map nor put off,             *)
LEMMA SubscribeStep == ASSUME ConstantsOK, NEW h \in Handlers PROVE IInv /\ Subscribe(h) => IInv'
  <1> SUFFICES ASSUME IInv, Subscribe(h) PROVE IInv'
    OBVIOUS
  <1>1. PICK t \in Tokens : /\ IsFree(t, Used) /\ token' = [token EXCEPT ![h] = t]
                            /\ nextToken' = (t + 1) % Width
                            /\ IF Depth = 0 THEN handlers' = [handlers EXCEPT ![t] = h] /\ UNCHANGED toAdd
                                            ELSE toAdd' = [toAdd EXCEPT ![t] = h] /\ UNCHANGED handlers
    BY DEF Subscribe
  <1>2. UNCHANGED <<toRemove, raises, revoked, thrown>> /\ token[h] = NoToken
    BY DEF Subscribe
  <1>3. handlers[t] = NoHandler /\ toAdd[t] = NoHandler
    BY <1>1 DEF IsFree, Used, Registered
  <1>4. TypeOK'
    <2>1. nextToken' \in Tokens
      BY <1>1 DEF ConstantsOK, Tokens
    <2> QED BY <1>1, <1>2, <2>1 DEF IInv, TypeOK
  <1>5. t \notin toRemove /\ h # NoHandler
    BY <1>3 DEF IInv, TypeOK, TokensOK, ConstantsOK
  <1>6. KeepsToken'
    BY <1>1, <1>2, <1>3, <1>5 DEF IInv, TypeOK, KeepsToken, ConstantsOK
  <1>7. TokensOK'
    BY <1>1, <1>2, <1>3, <1>5 DEF IInv, TypeOK, TokensOK
  <1>8. PutOffUntilEnd'
    BY <1>1, <1>2 DEF IInv, PutOffUntilEnd, Depth
  <1> QED BY <1>4, <1>6, <1>7, <1>8 DEF IInv

(* and gives it back by itself: what is erased or marked is its own.          *)
LEMMA RevokeStep == ASSUME ConstantsOK, NEW h \in Handlers PROVE IInv /\ Revoke(h) => IInv'
  <1> SUFFICES ASSUME IInv, Revoke(h) PROVE IInv'
    OBVIOUS
  <1> DEFINE known == {token[h]} \cap Registered
  <1>1. /\ revoked' = revoked \cup {h} /\ h \notin revoked /\ token[h] # NoToken
        /\ IF Depth = 0
           THEN handlers' = [t \in Tokens |-> IF t \in known THEN NoHandler ELSE handlers[t]] /\ UNCHANGED toRemove
           ELSE toRemove' = toRemove \cup known /\ UNCHANGED handlers
        /\ UNCHANGED <<toAdd, nextToken, raises, token, thrown>>
    BY DEF Revoke
  <1>2. known \subseteq Tokens /\ \A t \in known : t = token[h] /\ handlers[t] = h /\ t \notin toRemove
    <2>1. /\ handlers[token[h]] = h \/ toAdd[token[h]] = h
          /\ token[h] \notin toRemove /\ h # NoHandler
      BY <1>1 DEF IInv, KeepsToken, ConstantsOK
    <2> QED BY <2>1 DEF IInv, TokensOK, Registered
  <1> HIDE DEF known
  <1>3. TypeOK'
    BY <1>1, <1>2 DEF IInv, TypeOK
  <1>4. KeepsToken'
    <2> SUFFICES ASSUME NEW g \in Handlers, token[g] # NoToken, g # h, g \notin revoked
                 PROVE  (handlers'[token[g]] = g \/ toAdd[token[g]] = g) /\ token[g] \notin toRemove'
      BY <1>1 DEF KeepsToken
    <2>1. /\ handlers[token[g]] = g \/ toAdd[token[g]] = g
          /\ token[g] \notin toRemove /\ token[g] \in Tokens
      BY DEF IInv, KeepsToken, TypeOK
    <2>2. token[g] \notin known
      BY <1>2, <2>1 DEF IInv, TokensOK, ConstantsOK
    <2> QED BY <1>1, <2>1, <2>2
  <1>5. TokensOK'
    BY <1>1, <1>2 DEF IInv, TypeOK, TokensOK
  <1>6. PutOffUntilEnd'
    BY <1>1 DEF IInv, PutOffUntilEnd, Depth
  <1> QED BY <1>3, <1>4, <1>5, <1>6 DEF IInv

(* What is left when the innermost raise ends.                                *)
LEMMA Shorter ==
  ASSUME NEW R, NEW s \in Seq(R), Len(s) # 0
  PROVE  /\ SubSeq(s, 1, Len(s) - 1) \in Seq(R) /\ Len(SubSeq(s, 1, Len(s) - 1)) = Len(s) - 1
         /\ Len(s) \in Nat \ {0} /\ s[Len(s)] \in R
  <1>1. Len(s) \in Nat
    OBVIOUS
  <1>2. Len(s) - 1 \in Nat /\ Len(s) \in 1 .. Len(s) /\ 1 .. Len(s) - 1 \subseteq 1 .. Len(s)
    BY <1>1
  <1>3. s[Len(s)] \in R
    BY <1>2
  <1>4. \A i \in 1 .. Len(s) - 1 : s[i] \in R
    BY <1>2
  <1>5. SubSeq(s, 1, Len(s) - 1) \in Seq(R)
    BY <1>1, <1>2, <1>4
  <1>6. Len(SubSeq(s, 1, Len(s) - 1)) = Len(s) - 1
    BY <1>1, <1>2
  <1> QED BY <1>1, <1>3, <1>5, <1>6

LEMMA LastReplaced ==
  ASSUME NEW R, NEW s \in Seq(R), Len(s) # 0, NEW r \in R
  PROVE  [s EXCEPT ![Len(s)] = r] \in Seq(R) /\ Len([s EXCEPT ![Len(s)] = r]) = Len(s)
  OBVIOUS

(* The end of the outermost raise changes the map as it was asked to.         *)
LEMMA EndStep == ASSUME ConstantsOK PROVE IInv /\ EndRaise => IInv'
  <1> SUFFICES ASSUME IInv, EndRaise PROVE IInv'
    OBVIOUS
  <1>1. /\ Len(raises) \in Nat \ {0} /\ raises' = SubSeq(raises, 1, Len(raises) - 1)
        /\ UNCHANGED <<nextToken, token, revoked, thrown>>
    BY DEF EndRaise, Depth, IInv, TypeOK
  <1>2. raises' \in Seq([left : SUBSET Tokens, running : Tokens \cup {NoToken}]) /\ Len(raises') = Len(raises) - 1
    BY <1>1, Shorter DEF IInv, TypeOK
  <1>3. CASE Len(raises) = 1
    <2>1. Flush
      BY <1>3 DEF EndRaise, Depth
    <2>2. TypeOK' /\ TokensOK' /\ PutOffUntilEnd'
      BY <1>1, <1>2, <2>1 DEF Flush, NoHandlers, IInv, TypeOK, TokensOK, PutOffUntilEnd
    <2>3. KeepsToken'
      BY <1>1, <2>1 DEF Flush, NoHandlers, IInv, TypeOK, KeepsToken, TokensOK, ConstantsOK
    <2> QED BY <2>2, <2>3 DEF IInv
  <1>4. CASE Len(raises) # 1
    <2>1. UNCHANGED <<handlers, toAdd, toRemove>> /\ Len(raises') # 0
      BY <1>1, <1>2, <1>4 DEF EndRaise, Depth
    <2> QED BY <1>1, <1>2, <2>1 DEF IInv, TypeOK, KeepsToken, TokensOK, PutOffUntilEnd, Depth
  <1> QED BY <1>3, <1>4

(* Raising, calling, returning and throwing leave the map and both lists alone. *)
LEMMA RaiseStep == ASSUME ConstantsOK PROVE IInv /\ (Raise \/ Return \/ Throw \/ \E t \in Tokens : Call(t)) => IInv'
  <1> SUFFICES ASSUME IInv, Raise \/ Return \/ Throw \/ \E t \in Tokens : Call(t) PROVE IInv'
    OBVIOUS
  <1> DEFINE R == [left : SUBSET Tokens, running : Tokens \cup {NoToken}]
  <1>0. raises \in Seq(R) /\ Len(raises) \in Nat /\ Registered \subseteq Tokens
    BY DEF IInv, TypeOK, Registered
  <1>1. UNCHANGED <<handlers, toAdd, toRemove, nextToken, token, revoked>>
    BY DEF Raise, Return, Throw, Call
  <1>2. raises' \in Seq(R) /\ thrown' \in BOOLEAN /\ (Len(raises') = 0 /\ ~thrown' => Len(raises) = 0 /\ ~thrown)
    <2>1. CASE Raise
      <3>1. [left |-> Registered, running |-> NoToken] \in R
        BY <1>0
      <3> HIDE DEF R
      <3> QED BY <2>1, <3>1, <1>0 DEF Raise, Depth, IInv, TypeOK
    <2>2. CASE Return
      <3> DEFINE r == [raises[Len(raises)] EXCEPT !.running = NoToken]
      <3>1. raises' = [raises EXCEPT ![Len(raises)] = r] /\ Len(raises) # 0
        BY <2>2 DEF Return, Depth
      <3>2. r \in R
        <4> HIDE DEF R
        <4>1. raises[Len(raises)] \in R
          BY <1>0, <3>1, Shorter
        <4> USE DEF R
        <4> QED BY <4>1
      <3> HIDE DEF R, r
      <3>3. raises' \in Seq(R) /\ Len(raises') = Len(raises)
        BY <1>0, <3>1, <3>2, LastReplaced
      <3> QED BY <2>2, <3>1, <3>3 DEF Return, IInv, TypeOK
    <2>3. CASE Throw
      <3> HIDE DEF R
      <3>1. raises' \in Seq(R) /\ Len(raises') = Len(raises) - 1
        BY <2>3, <1>0, Shorter DEF Throw, Depth
      <3>2. thrown' \in BOOLEAN /\ (Len(raises) = 1 => thrown')
        BY <2>3 DEF Throw, Depth
      <3> QED BY <3>1, <3>2, <1>0
    <2>4. ASSUME NEW t \in Tokens, Call(t)
          PROVE  raises' \in Seq(R) /\ thrown' \in BOOLEAN /\ (Len(raises') = 0 /\ ~thrown' => Len(raises) = 0 /\ ~thrown)
      <3> DEFINE r == [left |-> raises[Len(raises)].left \ {t}, running |-> t]
      <3>1. raises' = [raises EXCEPT ![Len(raises)] = r] /\ Len(raises) # 0
        BY <2>4 DEF Call, Depth
      <3>2. r \in R
        <4> HIDE DEF R
        <4>1. raises[Len(raises)] \in R
          BY <1>0, <3>1, Shorter
        <4> USE DEF R
        <4> QED BY <4>1
      <3> HIDE DEF R, r
      <3>3. raises' \in Seq(R) /\ Len(raises') = Len(raises)
        BY <1>0, <3>1, <3>2, LastReplaced
      <3> QED BY <2>4, <3>1, <3>3 DEF Call, IInv, TypeOK
    <2> QED BY <2>1, <2>2, <2>3, <2>4
  <1> QED BY <1>1, <1>2 DEF IInv, TypeOK, KeepsToken, TokensOK, PutOffUntilEnd, Depth

LEMMA EventNext == ASSUME ConstantsOK PROVE IInv /\ [Next]_vars => IInv'
  <1> SUFFICES ASSUME IInv, [Next]_vars PROVE IInv'
    OBVIOUS
  <1>1. CASE UNCHANGED vars
    BY <1>1 DEF vars, IInv, TypeOK, KeepsToken, TokensOK, PutOffUntilEnd, Depth
  <1> QED BY <1>1, SubscribeStep, RevokeStep, EndStep, RaiseStep DEF Next

LEMMA EventInit == ASSUME ConstantsOK PROVE Init => IInv
  <1> SUFFICES ASSUME Init PROVE IInv
    OBVIOUS
  <1>1. 1 % Width \in Tokens
    BY DEF ConstantsOK, Tokens
  <1>2. TypeOK
    <2>1. raises = <<>> /\ nextToken \in Tokens /\ toRemove = {} /\ revoked = {} /\ thrown \in BOOLEAN
      BY <1>1 DEF Init
    <2>2. /\ handlers = [t \in Tokens |-> NoHandler] /\ toAdd = [t \in Tokens |-> NoHandler]
          /\ token = [h \in Handlers |-> NoToken]
      BY DEF Init, NoHandlers
    <2> QED BY <2>1, <2>2 DEF TypeOK
  <1>3. KeepsToken /\ TokensOK /\ PutOffUntilEnd
    BY DEF Init, NoHandlers, KeepsToken, TokensOK, PutOffUntilEnd
  <1> QED BY <1>2, <1>3 DEF IInv

(* However many handlers subscribe, revoke, raise again and throw, and however *)
(* often the tokens come round: who is subscribed keeps its own token, and     *)
(* nothing is put off beyond a raise that no handler has thrown out of.        *)
THEOREM TokensKept == ASSUME ConstantsOK PROVE Spec => [](TypeOK /\ KeepsToken /\ PutOffUntilEnd)
  <1>1. IInv => TypeOK /\ KeepsToken /\ PutOffUntilEnd
    BY DEF IInv
  <1> QED BY <1>1, EventInit, EventNext, PTL DEF Spec

(* The map is not touched while a raise walks it, whatever the handlers do.    *)
THEOREM MapStable == ASSUME ConstantsOK PROVE Spec => StableWhileRaised
  <1>1. IInv /\ [Next]_vars => [Depth # 0 /\ raises' # <<>> => handlers' = handlers]_vars
    <2> SUFFICES ASSUME IInv, Next, Depth # 0, raises' # <<>> PROVE handlers' = handlers
      OBVIOUS
    <2>1. CASE EndRaise
      <3>1. Len(raises) \in Nat /\ (Len(raises) = 1 => raises' = <<>>)
        BY <2>1 DEF EndRaise, Depth, IInv, TypeOK
      <3> QED BY <2>1, <3>1 DEF EndRaise, Depth
    <2>2. CASE ~EndRaise
      BY <2>2 DEF Next, Subscribe, Revoke, Raise, Call, Return, Throw
    <2> QED BY <2>1, <2>2
  <1> QED BY <1>1, EventInit, EventNext, PTL DEF Spec, StableWhileRaised
=============================================================================
