--------------------------- MODULE ClosableQueue ---------------------------
(***************************************************************************)
(* What blocking_collection promises a single reader: items come out in    *)
(* the order they went in, none is lost or repeated, and the reader is     *)
(* told that there is nothing left only when the queue is closed and       *)
(* empty.  A writer is admitted before the queue is closed, and may finish *)
(* its add after that.                                                     *)
(***************************************************************************)
EXTENDS Sequences

CONSTANTS Items,      \* what is added, every item at most once
          Unbounded   \* the readers that wait without a timeout

VARIABLES queue,      \* the items in the queue
          closed,     \* complete() has been called
          admitted,   \* items whose add has been accepted and is not finished
          taken,      \* the items the reader got, in order
          ended       \* the readers that were told that there is nothing left

vars == <<queue, closed, admitted, taken, ended>>

Init == /\ queue = <<>>
        /\ closed = FALSE
        /\ admitted = {}
        /\ taken = <<>>
        /\ ended = {}

Admit(x) == /\ ~closed
            /\ admitted' = admitted \cup {x}
            /\ UNCHANGED <<queue, closed, taken, ended>>

Put(x) == /\ x \in admitted
          /\ queue' = Append(queue, x)
          /\ admitted' = admitted \ {x}
          /\ UNCHANGED <<closed, taken, ended>>

Take == /\ queue # <<>>
        /\ taken' = Append(taken, Head(queue))
        /\ queue' = Tail(queue)
        /\ UNCHANGED <<closed, admitted, ended>>

Close == /\ closed' = TRUE
         /\ UNCHANGED <<queue, admitted, taken, ended>>

Drop == /\ closed
        /\ queue' = <<>>
        /\ UNCHANGED <<closed, admitted, taken, ended>>

End(r) == /\ closed /\ queue = <<>>
          /\ ended' = ended \cup {r}
          /\ UNCHANGED <<queue, closed, admitted, taken>>

Next == \/ \E x \in Items : Admit(x) \/ Put(x)
        \/ Take \/ Close \/ Drop
        \/ \E r \in Unbounded : End(r)

Spec == Init /\ [][Next]_vars
=============================================================================
