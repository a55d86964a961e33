--------------------------- MODULE LogtRefinement ---------------------------
(***************************************************************************)
(* Logt implements LogDelivery: what waits is the message that the worker  *)
(* writes with those in the queue, and the log is open until the worker    *)
(* has ended.                                                              *)
(***************************************************************************)
EXTENDS Logt

Serving == worker \notin {"exited", "joined"}

Waiting ==
    IF ~Serving THEN <<>>
    ELSE (IF worker = "writing" THEN <<message.n>> ELSE <<>>)
            \o [i \in DOMAIN queue |-> queue[i].n]

Delivery == INSTANCE LogDelivery WITH
    waiting <- Waiting,
    last <- Taken - (IF worker = "writing" THEN 1 ELSE 0),
    open <- Serving

\* The queue, the condition variable and the worker together deliver what was
\* pushed before the worker ended, in order, all of it and each message once.
ImplementsDelivery == Delivery!Spec
=============================================================================
