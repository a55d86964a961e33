------------------------------- MODULE MCHttp -------------------------------
(* Instances of HttpExchange for TLC. *)
EXTENDS HttpExchange

Kind(len, reply, result) == [len |-> len, reply |-> reply, result |-> result]

\* A POST and its answer, a POST whose route returns the empty string, and a GET
\* without a route.
PostPostMissing == {Kind(1, 1, "OK"), Kind(1, 0, "OK"), Kind(0, 1, "NOT_FOUND")}
JustPost == {Kind(1, 1, "OK")}
Symmetry == Permutations(Clients)
=============================================================================
