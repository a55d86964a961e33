------------------------------- MODULE KeyDB -------------------------------
(***************************************************************************)
(* scl2::keydb::database (src/include/keydb.hpp, src/src/keydb.cpp): a     *)
(* single-file key-value database.  Every element of Procs is a program    *)
(* that may hold one `database` object on the same file; the file is       *)
(* shared, everything else belongs to one object.                          *)
(*                                                                         *)
(* The file is a sequence of chunks: the header, then one chunk per        *)
(* record.  A position in it is a chunk index, so records have equal       *)
(* sizes here; HdrPos is the `file_offset` 0 of the code.  A write that    *)
(* lands behind the end of the file, or leaves a hole, is a Junk chunk.    *)
(* The std::fstream is modelled by its open mode, its error state and the  *)
(* output that it still buffers: that state decides which of the code's    *)
(* unchecked reads and writes take effect.                                 *)
(***************************************************************************)
EXTENDS Integers, Sequences, FiniteSets

CONSTANTS Procs,        \* programs sharing the file
          KeyOrder,     \* the keys in the order of std::map, NulKey among them
          NulKey,       \* the key of zero bytes that a read past EOF builds
          Vals,         \* values a caller stores
          NulVal,       \* the value that a read past EOF builds
          Policies,     \* what a caller may pass as `policy` to the constructor
          Calls,        \* the calls programs make, see CallNames
          MaxChunks,    \* bound: length of the file
          MaxOpens      \* bound: constructor calls

CallNames == {"add", "copy", "delete", "save", "load", "locked", "lock",
              "release", "close", "crash"}

BusyCalls == {"no", "instant_save", "lock", "destructor"}

LibFlags == {"AllowParrallelRead", "WriteLock"}
Flags == LibFlags \cup {"ReadOnly", "AutoSave", "FastSave"}

Keys == {KeyOrder[i] : i \in DOMAIN KeyOrder}

ASSUME ConstantsAssumption ==
    /\ KeyOrder \in Seq(Keys)
    /\ \A i, j \in DOMAIN KeyOrder : KeyOrder[i] = KeyOrder[j] => i = j
    /\ NulKey \in Keys
    /\ Policies \subseteq SUBSET Flags
    /\ Calls \subseteq CallNames
    /\ MaxChunks \in Nat
    /\ MaxOpens \in Nat

VARIABLES exists,    \* the file exists
          file,      \* its chunks on disk
          up,        \* p -> "down", "up" (an object is alive) or "hung"
          m_policy,  \* p -> the flags of the object
          m_data,    \* p -> key -> [val, off]
          m_data_diff, \* p -> key -> [val, off, del], changed since the last save
          m_file,    \* p -> the stream
          m_ownlock, \* p -> BOOLEAN
          busy,      \* p -> the call that p is inside of, between two of its accesses
                     \* to the file, or "no"
          acked,     \* history: the map that the last successful save acknowledged
          opens      \* history: constructor calls so far

vars == <<exists, file, up, m_policy, m_data, m_data_diff, m_file, m_ownlock, busy,
          acked, opens>>

-----------------------------------------------------------------------------
(* The file. *)

HdrPos == 1
Junk == [kind |-> "junk"]
\* Mutant: the count leaves one key out.
Header_CountOff(pol, n) ==
    [kind |-> "hdr", pol |-> pol \cap LibFlags, count |-> n - 1]
Header(pol, n) == [kind |-> "hdr", pol |-> pol \cap LibFlags, count |-> n]
Record(k, v) == [kind |-> "rec", key |-> k, val |-> v, del |-> FALSE]
DeletedRecord(k, v) == [kind |-> "rec", key |-> k, val |-> v, del |-> TRUE]

Values == Vals \cup {NulVal}
Headers == [kind : {"hdr"}, pol : SUBSET LibFlags, count : Nat]
Records == [kind : {"rec"}, key : Keys, val : Values, del : BOOLEAN]
Chunks == Headers \cup Records \cup {Junk}

HasHeader(f) == f # <<>> /\ f[HdrPos].kind = "hdr"

\* Bytes s written at position pos of f; what lies between is a hole.
Overlay(f, pos, s) ==
    LET last == pos - 1 + Len(s)
    IN  [i \in 1..(IF last > Len(f) THEN last ELSE Len(f)) |->
            IF i \in pos..last THEN s[i - pos + 1]
            ELSE IF i <= Len(f) THEN f[i] ELSE Junk]

\* The deleted mark written over the type byte at each position of offs.  At
\* HdrPos it destroys the magic number, until the header is written again.
Marked(f, offs) ==
    LET g == [i \in DOMAIN f |-> IF i \notin offs THEN f[i]
                                 ELSE IF f[i].kind = "rec"
                                 THEN DeletedRecord(f[i].key, f[i].val) ELSE Junk]
    IN  IF \A o \in offs : o <= Len(f) THEN g ELSE Append(g, Junk)

\* The records of the function m (key -> an entry with a value) in key order.
Present(m) == {i \in DOMAIN KeyOrder : KeyOrder[i] \in DOMAIN m}
NthKey(m, n) ==
    KeyOrder[CHOOSE i \in Present(m) : Cardinality({j \in Present(m) : j <= i}) = n]
RecordsOf(m) ==
    [n \in 1..Cardinality(Present(m)) |-> Record(NthKey(m, n), m[NthKey(m, n)].val)]

\* Mutant: save() iterates before the last key.
Image_MissesLast(pol, m) ==
    <<Header(pol, Cardinality(Present(m)))>>
        \o SubSeq(RecordsOf(m), 1, Len(RecordsOf(m)) - 1)

\* makeHeader() and the loop of save().
Image(pol, m) ==
    <<Header(pol, Cardinality(Present(m)))>> \o RecordsOf(m)

-----------------------------------------------------------------------------
(* The stream. *)

Closed == [mode |-> "closed", st |-> "good", pos |-> HdrPos, buf |-> <<>>]
OpenIn(st) == [mode |-> "in", st |-> st, pos |-> HdrPos, buf |-> <<>>]
OpenOut(pos, buf) == [mode |-> "out", st |-> "good", pos |-> pos, buf |-> buf]

Writable(s) == s.mode = "out" /\ s.st = "good"

\* What a flush, a seek or a close leaves on disk, and in the stream.
FlushedFile(f, s) == IF s.buf = <<>> THEN f ELSE Overlay(f, s.pos, s.buf)
FlushedStream(s) == [s EXCEPT !.buf = <<>>]

\* readPolicy(): whether it reads the header, and the stream afterwards.
\* tellg() of a stream at EOF, and any read of a stream opened for output,
\* leave failbit behind.
ReadsPolicy(f, s) == s.mode = "in" /\ s.st = "good" /\ HasHeader(f)
\* Mutant: the stream is opened in | out and cleared after the read.
AfterReadPolicy_Clears(f, s) == [s EXCEPT !.st = "good", !.buf = <<>>]
AfterReadPolicy(f, s) ==
    IF s.mode = "closed" \/ ReadsPolicy(f, s) THEN s
    ELSE [s EXCEPT !.st = "fail", !.buf = <<>>]

\* locked(): the values it may return.  When the read fails, `lp` stays
\* uninitialized and the answer is arbitrary.
LockedResults(f, s) ==
    IF s.mode = "closed" THEN {TRUE}
    ELSE IF ReadsPolicy(f, s) THEN {"WriteLock" \in f[HdrPos].pol}
    ELSE BOOLEAN

\* writePolicy(pol): the file and the stream afterwards.
WrittenPolicy(f, s, pol) ==
    LET g == FlushedFile(f, s)
    IN  IF Writable(s) /\ HasHeader(g)
        THEN [g EXCEPT ![HdrPos].pol = pol \cap LibFlags]
        ELSE g
AfterWritePolicy(s) ==
    IF Writable(s) THEN FlushedStream(s)
    ELSE IF s.mode = "in" /\ s.st = "good" THEN [s EXCEPT !.st = "fail"]
    ELSE s

-----------------------------------------------------------------------------
(* The loop of load().  LoopState[n] is the loop's state when n records     *)
(* have been read; `i` is -1 where the size_t of the code wraps.            *)

Continues(s) == 0 <= s.i /\ s.i < s.count

\* Mutant: m_data.emplace() in place of the assignment, so the first
\* duplicate wins.
ReadRecord_Emplaces(s, r, at) ==
    LET dup == IF r.key \in DOMAIN s.data THEN 1 ELSE 0
        entry == [val |-> r.val, off |-> at]
    IN  IF r.del
        THEN [s EXCEPT !.i = @ - dup, !.count = @ - 1, !.pos = at]
        ELSE [s EXCEPT !.i = @ - dup + 1, !.pos = at,
                       !.data = [k \in DOMAIN @ \cup {r.key} |->
                                    IF k \in DOMAIN @ THEN @[k] ELSE entry]]

\* One iteration on the record r at position at.
ReadRecord(s, r, at) ==
    LET dup == IF r.key \in DOMAIN s.data THEN 1 ELSE 0
        entry == [val |-> r.val, off |-> at]
    IN  IF r.del
        THEN [s EXCEPT !.i = @ - dup, !.count = @ - 1, !.pos = at]
        ELSE [s EXCEPT !.i = @ - dup + 1, !.pos = at,
                       !.data = [k \in DOMAIN @ \cup {r.key} |->
                                    IF k = r.key THEN entry ELSE @[k]]]

LoopState(f) ==
    LET st[n \in 0..(Len(f) - 1)] ==
        IF n = 0
        THEN [i |-> 0, count |-> f[HdrPos].count, pos |-> HdrPos, data |-> <<>>]
        ELSE IF Continues(st[n-1]) /\ f[n+1].kind = "rec"
                /\ st[n-1].pos = n
        THEN ReadRecord(st[n-1], f[n+1], n+1)
        ELSE st[n-1]
    IN  st[Len(f) - 1]

\* What reading past EOF, or through junk, may do to the map: add the key of
\* zero bytes with a garbage offset, or add nothing.
Garbled(data) ==
    {data, [k \in DOMAIN data \cup {NulKey} |->
               IF k = NulKey THEN [val |-> NulVal, off |-> HdrPos] ELSE data[k]]}

\* load(): the outcomes [rc, data, st] for an object with flags pol.
LoadOutcomes(f, pol, own) ==
    IF ~HasHeader(f) THEN {[rc |-> "NotDBFile", data |-> <<>>, st |-> "good"]}
    ELSE IF /\ "WriteLock" \in f[HdrPos].pol
            /\ ~own
            /\ ~({"AllowParrallelRead"} \subseteq f[HdrPos].pol /\ "ReadOnly" \in pol)
    THEN {[rc |-> "Locked", data |-> <<>>, st |-> "good"]}
    ELSE LET s == LoopState(f)
         IN  IF ~Continues(s)
             THEN {IF s.pos = Len(f)
                   THEN [rc |-> "Success", data |-> s.data, st |-> "eof"]
                   ELSE [rc |-> "Corrupted", data |-> s.data, st |-> "good"]}
             ELSE {[rc |-> "Hang", data |-> <<>>, st |-> "fail"]}
                  \cup {[rc |-> "Success", data |-> d, st |-> "fail"] :
                            d \in Garbled(s.data)}
                  \cup (IF s.pos = Len(f) THEN {}
                        ELSE {[rc |-> "Corrupted", data |-> s.data, st |-> "good"]})

\* A map without the offsets.
Plain(m) == [k \in DOMAIN m |-> m[k].val]

-----------------------------------------------------------------------------
TypeOK ==
    /\ exists \in BOOLEAN
    /\ file \in Seq(Chunks)
    /\ up \in [Procs -> {"down", "up", "hung"}]
    /\ m_policy \in [Procs -> SUBSET Flags]
    /\ \A p \in Procs :
        /\ DOMAIN m_data[p] \subseteq Keys
        /\ \A k \in DOMAIN m_data[p] :
              m_data[p][k] \in [val : Values, off : Nat]
        /\ DOMAIN m_data_diff[p] \subseteq Keys
        /\ \A k \in DOMAIN m_data_diff[p] :
              m_data_diff[p][k] \in [val : Values, off : Nat, del : BOOLEAN]
        /\ m_file[p] \in [mode : {"closed", "in", "out"},
                          st : {"good", "eof", "fail"},
                          pos : Nat, buf : Seq(Chunks)]
    /\ m_ownlock \in [Procs -> BOOLEAN]
    /\ busy \in [Procs -> BusyCalls]
    /\ DOMAIN acked \subseteq Keys
    /\ opens \in 0..MaxOpens

Init ==
    /\ exists = FALSE
    /\ file = <<>>
    /\ up = [p \in Procs |-> "down"]
    /\ m_policy = [p \in Procs |-> {}]
    /\ m_data = [p \in Procs |-> <<>>]
    /\ m_data_diff = [p \in Procs |-> <<>>]
    /\ m_file = [p \in Procs |-> Closed]
    /\ m_ownlock = [p \in Procs |-> FALSE]
    /\ busy = [p \in Procs |-> "no"]
    /\ acked = <<>>
    /\ opens = 0

\* The object of p is gone (or its constructor threw).
Gone(p) ==
    /\ up' = [up EXCEPT ![p] = "down"]
    /\ m_policy' = [m_policy EXCEPT ![p] = {}]
    /\ m_data' = [m_data EXCEPT ![p] = <<>>]
    /\ m_data_diff' = [m_data_diff EXCEPT ![p] = <<>>]
    /\ m_file' = [m_file EXCEPT ![p] = Closed]
    /\ m_ownlock' = [m_ownlock EXCEPT ![p] = FALSE]
    /\ busy' = [busy EXCEPT ![p] = "no"]

\* database(path, policy) when the file does not exist: init_db().
Create(p, pol) ==
    /\ up[p] = "down" /\ ~exists /\ opens < MaxOpens
    /\ exists' = TRUE
    /\ file' = <<Header(pol, 0)>>
    /\ up' = [up EXCEPT ![p] = "up"]
    /\ m_policy' = [m_policy EXCEPT ![p] = pol]
    /\ m_file' = [m_file EXCEPT ![p] = OpenOut(HdrPos + 1, <<>>)]
    /\ acked' = <<>>
    /\ opens' = opens + 1
    /\ UNCHANGED <<m_data, m_data_diff, m_ownlock, busy>>

\* database(path, policy) on an existing file: load(), and a throw unless it
\* succeeds.
Open(p, pol) ==
    /\ up[p] = "down" /\ exists /\ opens < MaxOpens
    /\ opens' = opens + 1
    /\ \E o \in LoadOutcomes(file, pol, FALSE) :
        \/ /\ o.rc = "Success"
           /\ up' = [up EXCEPT ![p] = "up"]
           /\ m_policy' = [m_policy EXCEPT ![p] = pol \cup file[HdrPos].pol]
           /\ m_data' = [m_data EXCEPT ![p] = o.data]
           /\ m_file' = [m_file EXCEPT ![p] = OpenIn(o.st)]
           /\ UNCHANGED <<m_data_diff, m_ownlock, busy>>
        \/ /\ o.rc = "Hang"
           /\ up' = [up EXCEPT ![p] = "hung"]
           /\ UNCHANGED <<m_policy, m_data, m_data_diff, m_file, m_ownlock, busy>>
        \/ o.rc \in {"NotDBFile", "Locked", "Corrupted"} /\ Gone(p)
    /\ UNCHANGED <<exists, file, acked>>

Ready(p, call) == up[p] = "up" /\ busy[p] = "no" /\ call \in Calls

\* save(): the file is truncated and rewritten.  libstdc++ has written some
\* prefix out when save() returns, the rest stays buffered: nothing flushes it.
SaveData(p, data) ==
    \E n \in 0..Len(Image(m_policy[p], data)) :
        LET img == Image(m_policy[p], data)
        IN  /\ file' = SubSeq(img, 1, n)
            /\ m_file' = [m_file EXCEPT ![p] = OpenOut(n + 1, SubSeq(img, n + 1, Len(img)))]
            /\ acked' = Plain(data)

\* instant_save() with FastSave, up to the header: seek to the end, then a
\* mark or an append per entry of m_data_diff.  Errors are not looked at.
FastSaveRecords(p, diff) ==
    LET s == m_file[p]
        deleted == {k \in DOMAIN diff : diff[k].del}
        added == [k \in DOMAIN diff \ deleted |-> diff[k]]
        f == FlushedFile(file, s)
    IN  /\ IF Writable(s)
           THEN /\ Len(f) + Cardinality(DOMAIN diff) <= MaxChunks
                /\ file' = Marked(f, {diff[k].off : k \in deleted}) \o RecordsOf(added)
                /\ m_file' = [m_file EXCEPT ![p] = FlushedStream(s)]
           ELSE /\ file' = file
                /\ m_file' = [m_file EXCEPT ![p] = AfterWritePolicy(s)]
        /\ busy' = [busy EXCEPT ![p] = "instant_save"]
        /\ UNCHANGED acked

\* The end of addKey() and deleteKey().
AutoSave(p, data, diff) ==
    /\ m_data' = [m_data EXCEPT ![p] = data]
    /\ m_data_diff' = [m_data_diff EXCEPT ![p] = diff]
    /\ IF "AutoSave" \notin m_policy[p]
       THEN UNCHANGED <<file, m_file, busy, acked>>
       ELSE IF "FastSave" \in m_policy[p]
       THEN FastSaveRecords(p, diff)
       ELSE SaveData(p, data) /\ UNCHANGED busy
    /\ UNCHANGED <<exists, up, m_policy, m_ownlock, opens>>

With(m, k, e) == [x \in DOMAIN m \cup {k} |-> IF x = k THEN e ELSE m[x]]
Without(m, k) == [x \in DOMAIN m \ {k} |-> m[x]]

\* addKey(k, v), where the value_t carries the offset off.
StoreKey(p, k, v, off) ==
    /\ "ReadOnly" \notin m_policy[p]
    /\ AutoSave(p, With(m_data[p], k, [val |-> v, off |-> off]),
                With(m_data_diff[p], k, [val |-> v, off |-> off, del |-> FALSE]))

AddKey(p, k, v) == Ready(p, "add") /\ StoreKey(p, k, v, HdrPos)

\* addKey(k, getValue(src)): the value_t that getValue() returned still
\* carries the file_offset of src.
CopyKey(p, k, src) ==
    /\ Ready(p, "copy")
    /\ src \in DOMAIN m_data[p]
    /\ StoreKey(p, k, m_data[p][src].val, m_data[p][src].off)

DeleteKey(p, k) ==
    /\ Ready(p, "delete")
    /\ "ReadOnly" \notin m_policy[p]
    /\ LET off == IF k \in DOMAIN m_data[p] THEN m_data[p][k].off ELSE HdrPos
           val == IF k \in DOMAIN m_data_diff[p] THEN m_data_diff[p][k].val ELSE NulVal
       IN  AutoSave(p, Without(m_data[p], k),
                    With(m_data_diff[p], k, [val |-> val, off |-> off, del |-> TRUE]))

\* The rest of instant_save(): write the header, flush, clear the diff.
FastSaveHeader(p) ==
    /\ up[p] = "up" /\ busy[p] = "instant_save"
    /\ file' = IF Writable(m_file[p])
               THEN Overlay(file, HdrPos,
                            <<Header(m_policy[p], Cardinality(Present(m_data[p])))>>)
               ELSE file
    /\ m_data_diff' = [m_data_diff EXCEPT ![p] = <<>>]
    /\ busy' = [busy EXCEPT ![p] = "no"]
    /\ acked' = Plain(m_data[p])
    /\ UNCHANGED <<exists, up, m_policy, m_data, m_file, m_ownlock, opens>>

Save(p) ==
    /\ Ready(p, "save")
    /\ SaveData(p, m_data[p])
    /\ UNCHANGED <<exists, up, m_policy, m_data, m_data_diff, m_ownlock, busy, opens>>

\* load() called on a live object: what it held is replaced by the file.
Load(p) ==
    /\ Ready(p, "load")
    /\ LET f == FlushedFile(file, m_file[p])
       IN  /\ file' = f
           /\ \E o \in LoadOutcomes(f, m_policy[p], m_ownlock[p]) :
               \/ /\ o.rc \in {"Success", "Corrupted"}
                  /\ m_policy' = [m_policy EXCEPT ![p] = @ \cup f[HdrPos].pol]
                  /\ m_data' = [m_data EXCEPT ![p] = o.data]
                  /\ m_file' = [m_file EXCEPT ![p] = OpenIn(o.st)]
                  /\ UNCHANGED up
               \/ /\ o.rc = "Hang"
                  /\ up' = [up EXCEPT ![p] = "hung"]
                  /\ UNCHANGED <<m_policy, m_data, m_file>>
               \/ /\ o.rc \in {"NotDBFile", "Locked"}
                  /\ m_file' = [m_file EXCEPT ![p] = Closed]
                  /\ UNCHANGED <<up, m_policy, m_data>>
    /\ UNCHANGED <<exists, m_data_diff, m_ownlock, busy, acked, opens>>

\* locked(): a query, but it moves the stream and flushes what is buffered.
Locked(p) ==
    /\ Ready(p, "locked")
    /\ file' = FlushedFile(file, m_file[p])
    /\ m_file' = [m_file EXCEPT ![p] = AfterReadPolicy(file, @)]
    /\ UNCHANGED <<exists, up, m_policy, m_data, m_data_diff, m_ownlock, busy, acked, opens>>

\* lock() and try_lock(), which are the same code: first locked() ...
Lock(p) ==
    /\ Ready(p, "lock")
    /\ ~m_ownlock[p]
    /\ file' = FlushedFile(file, m_file[p])
    /\ m_file' = [m_file EXCEPT ![p] = AfterReadPolicy(file, @)]
    /\ \E isLocked \in LockedResults(file, m_file[p]) :
          busy' = [busy EXCEPT ![p] = IF isLocked THEN "no" ELSE "lock"]
    /\ UNCHANGED <<exists, up, m_policy, m_data, m_data_diff, m_ownlock, acked, opens>>

\* ... and, when that said no, the write of the bit.  Its failure is only the
\* returned value: the object owns the lock all the same.
LockWrite(p) ==
    /\ up[p] = "up" /\ busy[p] = "lock"
    /\ m_ownlock' = [m_ownlock EXCEPT ![p] = TRUE]
    /\ file' = WrittenPolicy(file, m_file[p], m_policy[p] \cup {"WriteLock"})
    /\ m_file' = [m_file EXCEPT ![p] = AfterWritePolicy(@)]
    /\ busy' = [busy EXCEPT ![p] = "no"]
    /\ UNCHANGED <<exists, up, m_policy, m_data, m_data_diff, acked, opens>>

Release(p) ==
    /\ Ready(p, "release")
    /\ m_ownlock[p]
    /\ m_ownlock' = [m_ownlock EXCEPT ![p] = FALSE]
    /\ file' = WrittenPolicy(file, m_file[p], m_policy[p] \cap {"WriteLock"})
    /\ m_file' = [m_file EXCEPT ![p] = AfterWritePolicy(@)]
    /\ UNCHANGED <<exists, up, m_policy, m_data, m_data_diff, busy, acked, opens>>

\* Mutant: the destructor trusts AutoSave to have saved everything.
Close_TrustsAutoSave(p) ==
    /\ Ready(p, "close")
    /\ IF m_policy[p] \cap {"ReadOnly", "AutoSave"} # {}
       THEN UNCHANGED <<file, m_file, acked>>
       ELSE SaveData(p, m_data[p])
    /\ busy' = [busy EXCEPT ![p] = "destructor"]
    /\ UNCHANGED <<exists, up, m_policy, m_data, m_data_diff, m_ownlock, opens>>

\* The destructor: save() unless ReadOnly, which truncates the file and leaves
\* what it has not written out in the buffer of the stream ...
Close(p) ==
    /\ Ready(p, "close")
    /\ IF "ReadOnly" \in m_policy[p]
       THEN UNCHANGED <<file, m_file, acked>>
       ELSE SaveData(p, m_data[p])
    /\ busy' = [busy EXCEPT ![p] = "destructor"]
    /\ UNCHANGED <<exists, up, m_policy, m_data, m_data_diff, m_ownlock, opens>>

\* ... then release() if the lock is owned, and the end of the stream, which
\* flushes it.
CloseEnd(p) ==
    /\ up[p] = "up" /\ busy[p] = "destructor"
    /\ file' = IF m_ownlock[p]
               THEN WrittenPolicy(file, m_file[p], m_policy[p] \cap {"WriteLock"})
               ELSE FlushedFile(file, m_file[p])
    /\ Gone(p)
    /\ UNCHANGED <<exists, acked, opens>>

\* The program dies; what the stream buffers is lost.
Crash(p) ==
    /\ up[p] # "down" /\ "crash" \in Calls
    /\ Gone(p)
    /\ UNCHANGED <<exists, file, acked, opens>>

-----------------------------------------------------------------------------

Done == opens = MaxOpens /\ (\A p \in Procs : up[p] # "up") /\ UNCHANGED vars

Next ==
    \/ \E p \in Procs, pol \in Policies : Create(p, pol) \/ Open(p, pol)
    \/ \E p \in Procs, k \in Keys \ {NulKey}, v \in Vals : AddKey(p, k, v)
    \/ \E p \in Procs, k, src \in Keys \ {NulKey} : CopyKey(p, k, src)
    \/ \E p \in Procs, k \in Keys \ {NulKey} : DeleteKey(p, k)
    \/ \E p \in Procs :
         \/ FastSaveHeader(p) \/ Save(p) \/ Load(p)
         \/ Locked(p) \/ Lock(p) \/ LockWrite(p) \/ Release(p)
         \/ Close(p) \/ CloseEnd(p) \/ Crash(p)
    \/ Done

Spec == Init /\ [][Next]_vars

-----------------------------------------------------------------------------
(* Properties. *)

AllDown == \A p \in Procs : up[p] = "down"

\* A save() that was cut off: the header counts records that are not there.
Short(f) == HasHeader(f) /\ f[HdrPos].count > Len(f) - 1

\* When the database is opened again, whatever way it was left, and the file
\* has the records that its header counts: a load() that reports Success
\* returns exactly the map that the last save acknowledged.  Duplicates left by
\* FastSave, marks, headers out of date with their records, destroyed headers
\* and files truncated by the destructor end in an error or in that map, and
\* never in another one.
NoSilentLoss ==
    AllDown /\ exists /\ ~Short(file) =>
        \A o \in LoadOutcomes(file, {}, FALSE) :
            o.rc = "Success" => Plain(o.data) = acked

\* keydb.hpp on Corrupted: "Database file is corrupted, or data is corrupted."
\* A file that a kill inside save() has cut off is not loaded with Success.
CutIsNoticed ==
    AllDown /\ exists /\ Short(file) =>
        \A o \in LoadOutcomes(file, {}, FALSE) : o.rc # "Success"

\* The destructor of an object that is not ReadOnly, once it has ended, leaves
\* a file from which load() rebuilds exactly the object's map, whatever marks,
\* appends, stale offsets and failed writes came before, and however much of
\* the file its save() still held in the buffer.
CleanClose ==
    [][\A p \in Procs : CloseEnd(p) /\ "ReadOnly" \notin m_policy[p] =>
          \A o \in LoadOutcomes(file', {}, TRUE) :
              o.rc = "Success" /\ Plain(o.data) = Plain(m_data[p])]_vars

\* keydb.hpp on lock(): "Lock the database for exclusive access."  No two
\* programs own the lock of one file.
LockIsExclusive ==
    \A p, q \in Procs : m_ownlock[p] /\ m_ownlock[q] => p = q

\* Why LockIsExclusive fails, whatever the interleaving: no lock() or
\* try_lock() ever reaches the file.  Unless a caller puts the WriteLock flag
\* into the constructor's policy, no header, on disk or buffered, carries it,
\* since locked() leaves the stream failed before lock() writes.  This is not
\* what lock() promises; it says how the code misses the promise.
HeadersUnlocked(f) ==
    \A i \in DOMAIN f : f[i].kind = "hdr" => "WriteLock" \notin f[i].pol
LockNeverPublished ==
    (\A pol \in Policies : "WriteLock" \notin pol) =>
        /\ HeadersUnlocked(file)
        /\ \A p \in Procs : HeadersUnlocked(m_file[p].buf)

\* keydb.cpp, instant_save(): the next load "will automatically handle those
\* duplicated keys and only keep the latest value".  A file that FastSave has
\* completely written, without any mark in it, is not Corrupted.
DuplicatesHandled ==
    [][\A p \in Procs :
          FastSaveHeader(p) /\ (\A i \in DOMAIN file : i > HdrPos => ~file[i].del)
              => \A o \in LoadOutcomes(file', {}, FALSE) : o.rc # "Corrupted"]_vars

\* keydb.cpp, the constructor: with FastSave "we should make sure m_file is
\* opened in read-write mode, because we need to update the header when saving".
\* A FastSave that reports success can write to the file.
FastSaveIsWritten ==
    [][\A p \in Procs : FastSaveHeader(p) => Writable(m_file[p])]_vars

=============================================================================
