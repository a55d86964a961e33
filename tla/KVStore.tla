------------------------------ MODULE KVStore ------------------------------
(***************************************************************************)
(* What a key-value database promises to one program that opens it, uses   *)
(* it and closes it again: a map, changed only by Put and Remove, that     *)
(* outlives the sessions.                                                  *)
(***************************************************************************)
CONSTANTS Key, Value
VARIABLES open, kv

Init == open = FALSE /\ kv = <<>>

Start == ~open /\ open' = TRUE /\ UNCHANGED kv
Stop == open /\ open' = FALSE /\ UNCHANGED kv

Put(k, v) ==
    /\ open /\ UNCHANGED open
    /\ kv' = [x \in DOMAIN kv \cup {k} |-> IF x = k THEN v ELSE kv[x]]

Remove(k) ==
    /\ open /\ UNCHANGED open
    /\ kv' = [x \in DOMAIN kv \ {k} |-> kv[x]]

Next == Start \/ Stop \/ \E k \in Key : Remove(k) \/ \E v \in Value : Put(k, v)

Spec == Init /\ [][Next]_<<open, kv>>
============================================================================
