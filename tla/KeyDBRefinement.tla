-------------------------- MODULE KeyDBRefinement --------------------------
(***************************************************************************)
(* One program using KeyDB without crashes implements KVStore: the map is  *)
(* the object's m_data while there is an object, and what load() would     *)
(* read from the file while there is none.                                 *)
(***************************************************************************)
EXTENDS KeyDB

CONSTANT P     \* the program

\* The promise is to one program that is not killed.  load() is not a step of a
\* store: called on a live object, it brings an earlier map back.
OneProgram == Procs = {P} /\ Calls \cap {"load", "crash"} = {}

OnDisk ==
    IF ~exists THEN <<>>
    ELSE LET o == CHOOSE o \in LoadOutcomes(file, {}, TRUE) : TRUE
         IN  IF o.rc = "Success" THEN Plain(o.data) ELSE <<o.rc>>

InSession == up[P] = "up"
Shown == IF InSession THEN Plain(m_data[P]) ELSE OnDisk

Store == INSTANCE KVStore WITH
            Key <- Keys, Value <- Vals, open <- InSession, kv <- Shown

\* Every sequence of sessions shows the map that the sessions before it left:
\* neither FastSave, nor the marks and appends it leaves, nor a stream that
\* locked() has broken, nor ReadOnly sessions in between, change what the next
\* session reads.
ImplementsKVStore == Store!Spec
============================================================================
