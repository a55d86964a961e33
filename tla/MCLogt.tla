------------------------------- MODULE MCLogt -------------------------------
(* Instances of Logt for TLC. *)
EXTENDS LogtRefinement, TLC

JustInfo == {Info}
NoFilters == {}
JustFatal == {Fatal}
AnyFilter == {Quiet, Fatal}
DeliveryCalls == {"add", "sig", "log", "shutdown"}
ConfigCalls == {"add", "stdcout", "channels", "filter", "log"}
=============================================================================
