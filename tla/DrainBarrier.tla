---------------------------- MODULE DrainBarrier ----------------------------
(***************************************************************************)
(* What lifetime_source promises: an object stays alive while somebody     *)
(* holds it, it is closed to new holders once its destruction has begun,   *)
(* and it is destroyed only when it is closed and nobody holds it.         *)
(***************************************************************************)
CONSTANTS Sources, Guards, NoSource

VARIABLES phase,   \* phase[s]: "open", "closed" or "gone"
          held     \* held[g]: the source guard g keeps alive, or NoSource

vars == <<phase, held>>

Init == /\ phase = [s \in Sources |-> "open"]
        /\ held = [g \in Guards |-> NoSource]

Acquire(s, g) == /\ phase[s] = "open"
                 /\ held[g] = NoSource
                 /\ held' = [held EXCEPT ![g] = s]
                 /\ UNCHANGED phase

Release(g) == /\ held[g] # NoSource
              /\ held' = [held EXCEPT ![g] = NoSource]
              /\ UNCHANGED phase

\* Ownership moves from h to g; g held nothing.
Transfer(g, h) == /\ held[g] = NoSource
                  /\ held[h] # NoSource
                  /\ held' = [held EXCEPT ![g] = held[h], ![h] = NoSource]
                  /\ UNCHANGED phase

Close(s) == /\ phase[s] = "open"
            /\ phase' = [phase EXCEPT ![s] = "closed"]
            /\ UNCHANGED held

Vanish(s) == /\ phase[s] # "gone"
             /\ \A g \in Guards : held[g] # s
             /\ phase' = [phase EXCEPT ![s] = "gone"]
             /\ UNCHANGED held

Next == \/ \E s \in Sources : Close(s) \/ Vanish(s) \/ \E g \in Guards : Acquire(s, g)
        \/ \E g \in Guards : Release(g) \/ \E h \in Guards : Transfer(g, h)

Spec == Init /\ [][Next]_vars
=============================================================================
