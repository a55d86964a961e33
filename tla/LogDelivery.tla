---------------------------- MODULE LogDelivery ----------------------------
(***************************************************************************)
(* What an asynchronous log promises: what is accepted is delivered once,  *)
(* in order, and the log closes only when nothing waits.                   *)
(***************************************************************************)
EXTENDS Sequences, Naturals
VARIABLES waiting, last, open

vars == <<waiting, last, open>>

Init == waiting = <<>> /\ last = 0 /\ open = TRUE

Accept ==
    /\ open
    /\ Len(waiting') = Len(waiting) + 1
    /\ SubSeq(waiting', 1, Len(waiting)) = waiting
    /\ UNCHANGED <<last, open>>

Deliver ==
    /\ waiting # <<>>
    /\ last' = Head(waiting)
    /\ waiting' = Tail(waiting)
    /\ UNCHANGED open

Close == open /\ waiting = <<>> /\ open' = FALSE /\ UNCHANGED <<waiting, last>>

Next == Accept \/ Deliver \/ Close

SafeSpec == Init /\ [][Next]_vars
Spec == SafeSpec /\ WF_vars(Deliver)
============================================================================
