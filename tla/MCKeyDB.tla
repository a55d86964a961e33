------------------------------ MODULE MCKeyDB ------------------------------
(* Instances of KeyDB for TLC: two keys besides the one of zero bytes. *)
EXTENDS KeyDB, TLC

MCKeyOrder == <<NulKey, "a", "b">>
OneKey     == <<NulKey, "a">>
ProgramsAlike == Permutations(Procs)

Fast     == {{"AutoSave", "FastSave"}}
Sessions == {{}, {"AutoSave"}, {"AutoSave", "FastSave"}, {"ReadOnly"}}

CrashCalls   == {"add", "copy", "delete", "close", "crash"}
SessionCalls == {"add", "copy", "delete", "save", "locked", "lock", "release", "close"}
LockCalls    == {"add", "save", "load", "lock", "release"}
============================================================================
