------------------------ MODULE DependencyContainer ------------------------
(***************************************************************************)
(* dependency_container: a table of registrations under one mutex, each    *)
(* with a factory and, for a singleton, a value under a mutex of its own,  *)
(* which is held while the factory resolves what the new object needs.     *)
(* Two containers: one, and a child with a copy of its registrations. A    *)
(* thread's calls nest as factories resolve: it has a stack of frames.     *)
(***************************************************************************)
EXTENDS Naturals, FiniteSets, SequencesExt

CONSTANTS Threads, NoThread,
          Default,     \* Default[t]: the factory chosen by get_factory() for the type
          Aliases,     \* pairs <<T, U>> a program passes to add<T, U>()
          Creatable,   \* types a program passes to create<T>()
          MaxCalls     \* calls of users in one behaviour

VARIABLES regs,        \* regs[c]: registrations
          stack,       \* stack[h]: unfinished try_get() calls, innermost first
          made,        \* how many objects there are; their numbers tell them apart
          calls,       \* how many calls there were
          given        \* given[c]: <<type, object>> that callers have of c's singletons

containerVars == <<regs, stack, made, calls, given>>

Types == DOMAIN Default
Containers == {"root", "child"}
NoChild == <<>>
Null == <<>>

\* A factory makes an object of what it resolves, returns what another type resolves to, or an object it was given.
Make(container, needs) == [kind |-> "make", container |-> container, needs |-> needs, object |-> Null]
Alias(container, type) == [kind |-> "alias", container |-> container, needs |-> <<type>>, object |-> Null]
Instance(object) == [kind |-> "instance", container |-> "root", needs |-> <<>>, object |-> <<object>>]
Nothing == [kind |-> "nothing", container |-> "root", needs |-> <<>>, object |-> Null]

Registration(lifetime, factory) == [lifetime |-> lifetime, factory |-> factory, value |-> Null, holder |-> NoThread]
Object(parts) == [number |-> made + 1, parts |-> parts]

get_factory(container, type) == [Default[type] EXCEPT !.container = container]

Init == /\ regs = [c \in Containers |-> <<>>]
        /\ stack = [h \in Threads |-> <<>>]
        /\ made = 0 /\ calls = 0
        /\ given = [c \in Containers |-> {}]

Top(h) == Head(stack[h])
Registered(f) == regs[f.container][f.type]
Idle(h) == stack[h] = <<>>

\* A user calls a container that is there.
Called(h, c) == /\ stack[h] = <<>> /\ calls < MaxCalls /\ calls' = calls + 1
                /\ c = "root" \/ regs["child"] # NoChild

\* resolve() throws when there is no object, try_resolve() does not.
Frame(c, t, throws) == [container |-> c, type |-> t, throws |-> throws, step |-> "look", parts |-> <<>>]
Goes(h, step) == stack' = [stack EXCEPT ![h] = <<[Top(h) EXCEPT !.step = step]>> \o Tail(@)]

-----------------------------------------------------------------------------
Emplaced(c, t, registration) ==
  IF t \in DOMAIN regs[c] THEN regs
  ELSE [regs EXCEPT ![c] = [u \in DOMAIN @ \cup {t} |-> IF u = t THEN registration ELSE @[u]]]

\* resolve(), try_resolve()
Resolve(h, c, t, throws) ==
  /\ Called(h, c)
  /\ stack' = [stack EXCEPT ![h] = <<Frame(c, t, throws)>>]
  /\ UNCHANGED <<regs, made, given>>

\* get_registration()
GetRegistration(h) ==
  /\ ~Idle(h) /\ Top(h).step = "look"
  /\ LET f == Top(h) IN regs' = Emplaced(f.container, f.type, Registration("singleton", get_factory(f.container, f.type)))
  /\ Goes(h, "enter")
  /\ UNCHANGED <<made, calls, given>>

-----------------------------------------------------------------------------
\* The objects a frame's caller gets: the frame below, whose factory it is one part of, or the user.
Passed(h, value) ==
  LET below == Tail(stack[h])
  IN IF below = <<>> THEN <<>> ELSE <<[below[1] EXCEPT !.parts = Append(@, value[1])]>> \o Tail(below)

Holding(h, c, t) == t \in DOMAIN regs[c] /\ regs[c][t].holder = h

\* Mutant of the next: what throws releases only its own mutex.
ReturnsHolding(h, value, stored) ==
  LET f == Top(h)
      throws == value = Null /\ (f.throws \/ Len(stack[h]) > 1)
  IN /\ stack' = [stack EXCEPT ![h] = IF throws THEN <<>> ELSE Passed(h, value)]
     /\ regs' = IF ~Holding(h, f.container, f.type) THEN regs
                ELSE [regs EXCEPT ![f.container][f.type].value = stored, ![f.container][f.type].holder = NoThread]
     /\ given' = [given EXCEPT ![f.container] = @ \cup
                   IF value = Null \/ Registered(f).lifetime = "transient" THEN {} ELSE {<<f.type, value[1]>>}]

\* get() throws through every frame and releases what the thread holds; otherwise the value is returned, and the
\* thread's mutex of this registration is released.
Returns(h, value, stored) ==
  LET f == Top(h)
      throws == value = Null /\ (f.throws \/ Len(stack[h]) > 1)
  IN /\ stack' = [stack EXCEPT ![h] = IF throws THEN <<>> ELSE Passed(h, value)]
     /\ regs' = [c \in Containers |-> [t \in DOMAIN regs[c] |->
                  IF ~Holding(h, c, t) THEN regs[c][t]
                  ELSE IF c = f.container /\ t = f.type THEN [regs[c][t] EXCEPT !.value = stored, !.holder = NoThread]
                  ELSE IF throws THEN [regs[c][t] EXCEPT !.holder = NoThread]
                  ELSE regs[c][t]]]
     /\ given' = [given EXCEPT ![f.container] = @ \cup
                   IF value = Null \/ Registered(f).lifetime = "transient" THEN {} ELSE {<<f.type, value[1]>>}]

\* Mutant of the next: the mutex is not acquired.
EnterUnlocked(h) ==
  /\ ~Idle(h) /\ Top(h).step = "enter" /\ Registered(Top(h)).lifetime = "singleton"
  /\ IF Registered(Top(h)).value # Null
     THEN Returns(h, Registered(Top(h)).value, Registered(Top(h)).value)
     ELSE Goes(h, "build") /\ UNCHANGED <<regs, given>>
  /\ UNCHANGED <<made, calls>>

\* try_get() of a singleton: the mutex is acquired, and kept while the factory runs.
EnterSingleton(h) ==
  /\ ~Idle(h) /\ Top(h).step = "enter" /\ Registered(Top(h)).lifetime = "singleton"
  /\ Registered(Top(h)).holder = NoThread
  /\ IF Registered(Top(h)).value # Null
     THEN Returns(h, Registered(Top(h)).value, Registered(Top(h)).value)
     ELSE /\ regs' = [regs EXCEPT ![Top(h).container][Top(h).type].holder = h]
          /\ Goes(h, "build") /\ UNCHANGED given
  /\ UNCHANGED <<made, calls>>

EnterTransient(h) ==
  /\ ~Idle(h) /\ Top(h).step = "enter" /\ Registered(Top(h)).lifetime = "transient"
  /\ Goes(h, "build")
  /\ UNCHANGED <<regs, made, calls, given>>

\* The factory resolves the next thing it needs, from the container it was made for.
Need(h) ==
  LET f == Top(h) factory == Registered(f).factory
  IN /\ ~Idle(h) /\ f.step = "build" /\ Len(f.parts) < Len(factory.needs)
     /\ stack' = [stack EXCEPT ![h] = <<Frame(factory.container, factory.needs[Len(f.parts) + 1], TRUE)>> \o @]
     /\ UNCHANGED <<regs, made, calls, given>>

\* The factory returns; a singleton keeps the value.
Finish(h) ==
  LET f == Top(h) factory == Registered(f).factory
  IN /\ ~Idle(h) /\ f.step = "build" /\ Len(f.parts) = Len(factory.needs)
     /\ UNCHANGED calls
     /\ made' = IF factory.kind = "make" THEN made + 1 ELSE made
     /\ LET value == CASE factory.kind = "make" -> <<Object(f.parts)>>
                       [] factory.kind = "alias" -> <<f.parts[1]>>
                       [] OTHER -> factory.object
        IN Returns(h, value, value)

-----------------------------------------------------------------------------
\* add<T>(lifetime): the registration that is there already stays.
Add(h, c, t, lifetime) ==
  /\ Called(h, c)
  /\ regs' = Emplaced(c, t, Registration(lifetime, get_factory(c, t)))
  /\ UNCHANGED <<stack, made, given>>

\* resolve_as<T, U>(): add<T, U>() and resolve T.
ResolveAs(h, c, t, u) ==
  /\ Called(h, c)
  /\ regs' = Emplaced(c, t, Registration("singleton", Alias(c, u)))
  /\ stack' = [stack EXCEPT ![h] = <<Frame(c, t, TRUE)>>]
  /\ UNCHANGED <<made, given>>

\* create(): the new object is registered and returned, or thrown away for the one there is.
Create(h, c, t) ==
  /\ Called(h, c)
  /\ made' = made + 1
  /\ regs' = Emplaced(c, t, Registration("singleton", Instance(Object(<<>>))))
  /\ IF t \in DOMAIN regs[c]
     THEN /\ stack' = [stack EXCEPT ![h] = <<Frame(c, t, TRUE)>>]
          /\ UNCHANGED given
     ELSE /\ given' = [given EXCEPT ![c] = @ \cup {<<t, Object(<<>>)>>}]
          /\ UNCHANGED stack

\* clone_into(): value and factory are copied, the mutex is new.
Cloned(registration) == [registration EXCEPT !.holder = NoThread]

\* create_child()
CreateChild(h) ==
  /\ Called(h, "root") /\ regs["child"] = NoChild /\ regs["root"] # <<>>
  /\ regs' = [regs EXCEPT !["child"] = [t \in DOMAIN regs["root"] |-> Cloned(regs["root"][t])]]
  /\ UNCHANGED <<stack, made, given>>

Next == \E h \in Threads :
          \/ \E c \in Containers, t \in Types :
               \/ \E throws \in BOOLEAN : Resolve(h, c, t, throws)
               \/ \E lifetime \in {"singleton", "transient"} : Add(h, c, t, lifetime)
               \/ t \in Creatable /\ Create(h, c, t)
          \/ \E c \in Containers, pair \in Aliases : ResolveAs(h, c, pair[1], pair[2])
          \/ GetRegistration(h) \/ EnterSingleton(h) \/ EnterTransient(h) \/ Need(h) \/ Finish(h)
          \/ CreateChild(h)

-----------------------------------------------------------------------------
TypeOK ==
  /\ \A c \in Containers : DOMAIN regs[c] \subseteq Types
  /\ \A c \in Containers : \A t \in DOMAIN regs[c] : regs[c][t].holder \in Threads \cup {NoThread}
  /\ \A h \in Threads : \A i \in DOMAIN stack[h] : stack[h][i].step \in {"look", "enter", "build"}
  /\ made \in Nat /\ calls \in 0..MaxCalls

(* "Builds the singleton on first resolve() and returns the same instance     *)
(* forever after": whichever threads resolve it, through its own type or an   *)
(* alias, whether it is built, created or passed on, a container has one      *)
(* object of a singleton type.                                                *)
OneInstance ==
  \A c \in Containers : \A x, y \in given[c] : x[1] = y[1] => x[2] = y[2]

\* An object x that was built by a factory of its own has the object y among its parts, if it needs y's type.
HasPart(x, y) ==
  Default[x[1]].kind = "make" => \A i \in DOMAIN x[2].parts : y[1] = Default[x[1]].needs[i] => x[2].parts[i] = y[2]

(* Objects that need the same type share the one object of it, whoever built  *)
(* them and on whichever thread.                                              *)
PartsShared == \A x, y \in given["root"] : HasPart(x, y)

(* A mutex is held by a thread for a frame of its own, and by no other.       *)
HeldForFrames ==
  \A c \in Containers : \A t \in DOMAIN regs[c] : regs[c][t].holder # NoThread =>
    \E i \in DOMAIN stack[regs[c][t].holder] :
      LET f == stack[regs[c][t].holder][i] IN f.container = c /\ f.type = t /\ f.step = "build"

(* As long as no type needs itself, a thread that waits for a mutex waits for  *)
(* one that can go on: calls are bounded, so that every call ends.            *)
Waits(h) == /\ ~Idle(h) /\ Top(h).step = "enter"
            /\ Registered(Top(h)).lifetime = "singleton" /\ Registered(Top(h)).holder # NoThread
NobodyStuck == (\E h \in Threads : ~Idle(h)) => \E h \in Threads : ~Idle(h) /\ ~Waits(h)

(* "The child can swap a service for a test double ... child->resolve() sees  *)
(* the test double" (DependencyContainer.md): what the child resolves later is *)
(* built of what it was given, if it does not have it from its parent.         *)
ChildSeesDouble ==
  \A x, y \in given["child"] : x \notin given["root"] /\ y[2].number < x[2].number => HasPart(x, y)

-----------------------------------------------------------------------------
\* What the proofs rest on. A type has a factory of its own or is an interface, which may be an alias, and no type needs
\* itself.
ProgramOK ==
  /\ \A t \in Types : Default[t] \in [kind : {"make", "nothing"}, container : Containers, needs : Seq(Types), object : {Null}]
  /\ Aliases \subseteq Types \X Types /\ \A pair \in Aliases : Default[pair[1]].kind = "nothing"
Below(rank) ==
  /\ \A t \in Types : \A i \in DOMAIN Default[t].needs : rank[Default[t].needs[i]] < rank[t]
  /\ \A pair \in Aliases : rank[pair[2]] < rank[pair[1]]
Ranks == [Types -> 0..Cardinality(Types)]
Acyclic == \E rank \in Ranks : Below(rank)
Rank == CHOOSE rank \in Ranks : Below(rank)

IsSeq(s) == s \in Seq({s[i] : i \in DOMAIN s})

\* A registration keeps its factory, and an instance is what it was made of.
FactoryOK(c, t, factory) ==
  /\ factory \in [kind : {"make", "alias", "instance", "nothing"}, container : Containers, needs : Seq(Types),
                  object : {factory.object}]
  /\ c = "root" => factory.container = "root"
  /\ factory.kind \in {"make", "nothing"} => factory.needs = Default[t].needs /\ factory.object = Null
  /\ factory.kind = "alias" => \E pair \in Aliases : t = pair[1] /\ factory.needs = <<pair[2]>>
  /\ factory.kind = "instance" => factory.needs = <<>> /\ factory.object # Null /\ factory.object[1].parts = <<>>
  /\ Default[t].kind = "make" => factory.kind \in {"make", "instance"}
RegistrationOK(c, t, r) ==
  /\ r \in [lifetime : {"singleton", "transient"}, factory : {r.factory}, value : {r.value}, holder : Threads \cup {NoThread}]
  /\ FactoryOK(c, t, r.factory)
  /\ r.factory.kind = "instance" /\ r.value # Null => r.value = r.factory.object
  /\ r.holder # NoThread => r.lifetime = "singleton" /\ r.value = Null
RegistrationsOK(R) ==
  /\ R = [c \in Containers |-> R[c]]
  /\ \A c \in Containers : DOMAIN R[c] \subseteq Types /\ \A t \in DOMAIN R[c] : RegistrationOK(c, t, R[c][t])

\* What type t resolves to in container c, again and again.
Good(R, c, t, x) == /\ t \in DOMAIN R[c]
                    /\ R[c][t].lifetime = "transient" \/ (R[c][t].value # Null /\ R[c][t].value[1] = x)
GoodParts(R, c, needs, parts) ==
  IsSeq(parts) /\ Len(parts) <= Len(needs) /\ \A i \in 1..Len(parts) : Good(R, c, needs[i], parts[i])

\* A frame below the top builds, and waits for the next thing that its factory needs.
At(R, f) == R[f.container][f.type]
FrameOK(R, f) ==
  /\ f \in [container : Containers, type : Types, throws : BOOLEAN, step : {"look", "enter", "build"}, parts : {f.parts}]
  /\ f.step # "look" => f.type \in DOMAIN R[f.container]
  /\ IF f.step = "build" THEN GoodParts(R, At(R, f).factory.container, At(R, f).factory.needs, f.parts) ELSE f.parts = <<>>
Awaits(R, f, g) == /\ f.step = "build" /\ Len(f.parts) < Len(At(R, f).factory.needs)
                   /\ g.type = At(R, f).factory.needs[Len(f.parts) + 1] /\ g.container = At(R, f).factory.container
FramesOK(R, s) == /\ IsSeq(s)
                  /\ \A i \in 1..Len(s) : FrameOK(R, s[i])
                  /\ \A i \in 2..Len(s) : Awaits(R, s[i], s[i - 1])

\* The mutex of a singleton is held for the one frame that builds it.
IsFor(f, c, t) == f.container = c /\ f.type = t /\ f.step = "build"
Builds(R, f) == f.step = "build" /\ At(R, f).lifetime = "singleton"
HeldOK(R, h, s) ==
  /\ \A c \in Containers : \A t \in DOMAIN R[c] : R[c][t].holder = h => \E i \in 1..Len(s) : IsFor(s[i], c, t)
  /\ \A i \in 1..Len(s) : Builds(R, s[i]) => At(R, s[i]).holder = h
  /\ \A i, j \in 1..Len(s) : Builds(R, s[i]) /\ IsFor(s[j], s[i].container, s[i].type) => i = j

\* What a thread waits for is lower than all it builds.
Descends(s) == \A i, j \in 1..Len(s) : i < j => Rank[s[i].type] < Rank[s[j].type]

ThreadOK(R, h, s) == FramesOK(R, s) /\ HeldOK(R, h, s) /\ Descends(s)
ThreadsOK(R, S) == S = [h \in Threads |-> S[h]] /\ \A h \in Threads : ThreadOK(R, h, S[h])

\* What callers have of a singleton is its value, or the instance that will be.
BuiltOK(R, t, value) == Default[t].kind = "make" /\ value # Null => GoodParts(R, "root", Default[t].needs, value[1].parts)
GivenOK(R, c, x) == /\ x[1] \in DOMAIN R[c] /\ R[c][x[1]].lifetime = "singleton"
                    /\ IF R[c][x[1]].value # Null THEN R[c][x[1]].value[1] = x[2]
                       ELSE R[c][x[1]].factory.kind = "instance" /\ R[c][x[1]].factory.object[1] = x[2]
ValuesOK(R, G) ==
  /\ \A t \in DOMAIN R["root"] : BuiltOK(R, t, R["root"][t].value)
  /\ G = [c \in Containers |-> G[c]]
  /\ \A c \in Containers : \A x \in G[c] : GivenOK(R, c, x)

IInv == TypeOK /\ RegistrationsOK(regs) /\ ThreadsOK(regs, stack) /\ ValuesOK(regs, given)
=============================================================================
