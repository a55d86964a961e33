-------------------------------- MODULE Logt --------------------------------
(***************************************************************************)
(* logt (src/include/logt.hpp, src/src/logt.cpp): asynchronous logging.    *)
(* Application threads push messages on the queue of logt_eventbus, one    *)
(* worker thread pops them and writes each to the channels it is routed    *)
(* to.  Channel 0 is stdout, addfile() and addostream() add the others.    *)
(*                                                                         *)
(* A step is what the code does under one mutex.  What it does under none  *)
(* is split where another thread can come in between: last_channel_id and  *)
(* the bitsets channelinfo_ and default_channels_ are read in one step and *)
(* written in a later one.                                                 *)
(***************************************************************************)
EXTENDS Integers, Sequences, FiniteSets

CONSTANTS Threads,            \* the application's threads
          LOGT_MAX_CHANNEL,
          Levels,             \* the levels that are logged
          Filters,            \* the arguments of setFilterLevel/setChannelFilter
          Calls,              \* the calls threads make, see CallNames
          OpenFails,          \* BOOLEAN: a log file may fail to open
          MaxMessages         \* bound: messages pushed

Quiet == -1
Debug == 0
Info == 1
Fatal == 4
Inherit == 16

CallNames == {"add", "stdcout", "sig", "channels", "filter", "log", "shutdown"}
Ids == 0..(LOGT_MAX_CHANNEL - 1)

ASSUME ConstantsAssumption ==
    /\ LOGT_MAX_CHANNEL \in Nat \ {0}
    /\ Levels \subseteq Debug..Fatal
    /\ Filters \subseteq Quiet..Fatal
    /\ Calls \subseteq CallNames
    /\ OpenFails \in BOOLEAN
    /\ MaxMessages \in Nat

VARIABLES queue,      \* logt_eventbus::queue_
          stopped,    \* logt_eventbus::stopped_
          worker,     \* where the worker thread is
          message,    \* what it writes
          next,       \* the next channel to write it to
          channels,   \* id -> [valid, filter]; the kind of stream is left out
          channelinfo, default_channels, \* sets of ids
          last_channel_id,
          filter_level,
          pc,         \* thread -> where it is between two steps
          newid,      \* thread -> the id it read, or closes next
          seen,       \* thread or worker -> the bitsets it read
          sig,        \* thread -> the channels of its logt_sig
          held,       \* thread -> the message its logt_sso holds
          pushed,     \* history: messages pushed
          promised,   \* history: those pushed before stop()
          out         \* history: id -> numbers of the messages written to it

threadVars == <<pc, newid, seen, sig, held>>
channelVars == <<channels, channelinfo, default_channels, last_channel_id>>
workerVars == <<message, next, out>>
vars == <<queue, stopped, worker, workerVars, channelVars, filter_level,
          threadVars, pushed, promised>>

-----------------------------------------------------------------------------

NoMessage == [n |-> 0, level |-> Info, ch |-> {}]
Messages == [n : Nat, level : Levels \cup {Info}, ch : SUBSET Ids]
Channels == [valid : BOOLEAN, filter : (Quiet..Fatal) \cup {Inherit}]
Bits == [info : SUBSET Ids, default : SUBSET Ids]
NoBits == [info |-> {}, default |-> {}]

TypeOK ==
    /\ queue \in Seq(Messages)
    /\ stopped \in BOOLEAN
    /\ worker \in {"none", "started", "registering", "popping", "writing",
                   "exited", "joined"}
    /\ message \in Messages
    /\ next \in 0..LOGT_MAX_CHANNEL
    /\ channels \in [Ids -> Channels]
    /\ channelinfo \in SUBSET Ids
    /\ default_channels \in SUBSET Ids
    /\ last_channel_id \in 1..LOGT_MAX_CHANNEL + 1
    /\ filter_level \in Quiet..Fatal
    /\ pc \in [Threads -> {"idle", "counting", "adding", "registering",
                           "stdcout", "logging", "joining", "closing"}]
    /\ newid \in [Threads -> 0..LOGT_MAX_CHANNEL]
    /\ seen \in [Threads \cup {"worker"} -> Bits]
    /\ sig \in [Threads -> SUBSET Ids]
    /\ held \in [Threads -> Messages]
    /\ pushed \in Nat
    /\ promised \in Nat
    /\ out \in [Ids -> Seq(Nat)]

Init ==
    /\ queue = <<>>
    /\ stopped = FALSE
    /\ worker = "none"
    /\ message = NoMessage
    /\ next = 0
    /\ channels = [c \in Ids |-> [valid |-> FALSE, filter |-> Inherit]]
    /\ channelinfo = {}
    /\ default_channels = {}
    /\ last_channel_id = 1
    /\ filter_level = Info
    /\ pc = [t \in Threads |-> "idle"]
    /\ newid = [t \in Threads |-> 0]
    /\ seen = [t \in Threads \cup {"worker"} |-> NoBits]
    /\ sig = [t \in Threads |-> {}]
    /\ held = [t \in Threads |-> NoMessage]
    /\ pushed = 0
    /\ promised = 0
    /\ out = [c \in Ids |-> <<>>]

-----------------------------------------------------------------------------
(* Helpers. *)

Ready(t, call) == pc[t] = "idle" /\ call \in Calls

Goto(t, l) == pc' = [pc EXCEPT ![t] = l]

\* ensure_worker_started(): std::call_once.
\* Mutant: a flag that shutdown() resets.
EnsureWorkerStarted_Again ==
    worker' = IF worker \in {"none", "joined"} THEN "started" ELSE worker
EnsureWorkerStarted == worker' = IF worker = "none" THEN "started" ELSE worker

\* The mutex of channel c is free.
Unlocked(c) ==
    /\ \A t \in Threads : /\ pc[t] = "registering" => newid[t] # c
                          /\ pc[t] = "stdcout" => c # 0
    /\ worker = "registering" => c # 0

ReadBits == [info |-> channelinfo, default |-> default_channels]

\* bitset::set() of both bitsets by w, on the words it read before.
WriteBits(w, c, dflt) ==
    /\ channelinfo' = seen[w].info \cup {c}
    /\ default_channels' = IF dflt THEN seen[w].default \cup {c}
                                   ELSE seen[w].default \ {c}

-----------------------------------------------------------------------------
(* Application threads. *)

\* addfile() and addostream(): `newid = last_channel_id++` ...
ReadChannelId(t) ==
    /\ Ready(t, "add")
    /\ EnsureWorkerStarted
    /\ newid' = [newid EXCEPT ![t] = last_channel_id]
    /\ Goto(t, "counting")
    /\ last_channel_id <= LOGT_MAX_CHANNEL \* bound: one addfile() too many
    /\ UNCHANGED <<queue, stopped, workerVars, channelVars, filter_level, seen, sig,
                   held, pushed, promised>>

\* Mutant: the id LOGT_MAX_CHANNEL is taken for a channel's.
WriteChannelId_OffByOne(t) ==
    /\ pc[t] = "counting"
    /\ last_channel_id' = newid[t] + 1
    /\ IF newid[t] <= LOGT_MAX_CHANNEL
       THEN Goto(t, "adding") /\ UNCHANGED newid
       ELSE Goto(t, "idle") /\ newid' = [newid EXCEPT ![t] = 0]
    /\ UNCHANGED <<queue, stopped, worker, workerVars, channels, channelinfo,
                   default_channels, filter_level, seen, sig, held, pushed,
                   promised>>

WriteChannelId(t) ==
    /\ pc[t] = "counting"
    /\ last_channel_id' = newid[t] + 1
    /\ IF newid[t] < LOGT_MAX_CHANNEL
       THEN Goto(t, "adding") /\ UNCHANGED newid
       ELSE Goto(t, "idle") /\ newid' = [newid EXCEPT ![t] = 0]
    /\ UNCHANGED <<queue, stopped, worker, workerVars, channels, channelinfo,
                   default_channels, filter_level, seen, sig, held, pushed,
                   promised>>

\* ... if there is such a channel it is filled in under its mutex ...
FillChannel(t) ==
    /\ pc[t] = "adding" /\ Unlocked(newid[t])
    /\ \E opened \in BOOLEAN :
          /\ ~opened => OpenFails
          /\ channels' = [channels EXCEPT ![newid[t]].valid = opened]
    /\ seen' = [seen EXCEPT ![t] = ReadBits]
    /\ Goto(t, "registering")
    /\ UNCHANGED <<queue, stopped, worker, workerVars, channelinfo,
                   default_channels, last_channel_id, filter_level, newid, sig,
                   held, pushed, promised>>

\* ... and registered.
RegisterChannel(t) ==
    /\ pc[t] = "registering"
    /\ \E default_enable \in BOOLEAN : WriteBits(t, newid[t], default_enable)
    /\ seen' = [seen EXCEPT ![t] = NoBits]
    /\ newid' = [newid EXCEPT ![t] = 0]
    /\ Goto(t, "idle")
    /\ UNCHANGED <<queue, stopped, worker, workerVars, channels, last_channel_id,
                   filter_level, sig, held, pushed, promised>>

\* stdcout(enable, default_enable): what `enable` sets is read nowhere.
StdcoutRead(t) ==
    /\ Ready(t, "stdcout") /\ Unlocked(0)
    /\ EnsureWorkerStarted
    /\ seen' = [seen EXCEPT ![t] = ReadBits]
    /\ Goto(t, "stdcout")
    /\ UNCHANGED <<queue, stopped, workerVars, channelVars, filter_level, newid,
                   sig, held, pushed, promised>>

StdcoutWrite(t) ==
    /\ pc[t] = "stdcout"
    /\ \E default_enable \in BOOLEAN : WriteBits(t, 0, default_enable)
    /\ seen' = [seen EXCEPT ![t] = NoBits]
    /\ Goto(t, "idle")
    /\ UNCHANGED <<queue, stopped, worker, workerVars, channels, last_channel_id,
                   filter_level, newid, sig, held, pushed, promised>>

\* The constructor of logt_sig takes the default channels of that moment.
NewSig(t) ==
    /\ Ready(t, "sig")
    /\ sig' = [sig EXCEPT ![t] = default_channels]
    /\ UNCHANGED <<queue, stopped, worker, workerVars, channelVars, filter_level,
                   pc, newid, seen, held, pushed, promised>>

\* setChannels(): all the ids are registered, or nothing changes.
SetChannels(t) ==
    /\ Ready(t, "channels")
    /\ \E ids \in SUBSET channelinfo : sig' = [sig EXCEPT ![t] = ids]
    /\ UNCHANGED <<queue, stopped, worker, workerVars, channelVars, filter_level,
                   pc, newid, seen, held, pushed, promised>>

\* setChannel()
SetChannel(t) ==
    /\ Ready(t, "channels")
    /\ \E c \in channelinfo, enable \in BOOLEAN :
          sig' = [sig EXCEPT ![t] = IF enable THEN @ \cup {c} ELSE @ \ {c}]
    /\ UNCHANGED <<queue, stopped, worker, workerVars, channelVars, filter_level,
                   pc, newid, seen, held, pushed, promised>>

SetFilterLevel(t) ==
    /\ Ready(t, "filter")
    /\ \E l \in Filters : filter_level' = l
    /\ UNCHANGED <<queue, stopped, worker, workerVars, channelVars, threadVars,
                   pushed, promised>>

SetChannelFilter(t) ==
    /\ Ready(t, "filter")
    /\ \E l \in Filters \cup {Inherit}, c \in Ids \ {0} :
          channels' = [channels EXCEPT ![c].filter = l]
    /\ UNCHANGED <<queue, stopped, worker, workerVars, channelinfo,
                   default_channels, last_channel_id, filter_level, threadVars,
                   pushed, promised>>

\* logt_sig::info() and the like: a logt_sso is constructed ...
BeginLog(t) ==
    /\ Ready(t, "log")
    /\ pushed + Cardinality({u \in Threads : pc[u] = "logging"}) < MaxMessages
    /\ EnsureWorkerStarted
    /\ \E l \in Levels :
          held' = [held EXCEPT ![t] = [n |-> 0, level |-> l, ch |-> sig[t]]]
    /\ Goto(t, "logging")
    /\ UNCHANGED <<queue, stopped, workerVars, channelVars, filter_level, newid,
                   seen, sig, pushed, promised>>

\* ... and pushes its message when it is destroyed.
Push(t) ==
    /\ pc[t] = "logging"
    /\ pushed' = pushed + 1
    /\ queue' = Append(queue, [held[t] EXCEPT !.n = pushed + 1])
    /\ held' = [held EXCEPT ![t] = NoMessage]
    /\ Goto(t, "idle")
    /\ UNCHANGED <<stopped, worker, workerVars, channelVars, filter_level, newid,
                   seen, sig, promised>>

\* shutdown(), from one thread at a time: stop() ...
Stop(t) ==
    /\ Ready(t, "shutdown")
    /\ \A u \in Threads : pc[u] \notin {"joining", "closing"}
    /\ stopped' = TRUE
    /\ promised' = IF stopped THEN promised ELSE pushed
    /\ Goto(t, "joining")
    /\ UNCHANGED <<queue, worker, workerVars, channelVars, filter_level, newid,
                   seen, sig, held, pushed>>

\* ... join the worker if there is one ...
Join(t) ==
    /\ pc[t] = "joining"
    /\ worker \in {"none", "exited", "joined"}
    /\ worker' = IF worker = "exited" THEN "joined" ELSE worker
    /\ Goto(t, "closing")
    /\ UNCHANGED <<queue, stopped, workerVars, channelVars, filter_level, newid,
                   seen, sig, held, pushed, promised>>

\* ... and close() one channel after the other, each under its mutex.
CloseChannel(t) ==
    /\ pc[t] = "closing" /\ Unlocked(newid[t])
    /\ channels' = [channels EXCEPT ![newid[t]].valid = FALSE]
    /\ LET last == newid[t] = LOGT_MAX_CHANNEL - 1 IN
          /\ newid' = [newid EXCEPT ![t] = IF last THEN 0 ELSE @ + 1]
          /\ Goto(t, IF last THEN "idle" ELSE "closing")
    /\ UNCHANGED <<queue, stopped, worker, workerVars, channelinfo,
                   default_channels, last_channel_id, filter_level, seen, sig,
                   held, pushed, promised>>

-----------------------------------------------------------------------------
(* The worker thread. *)

\* worker_thread(): channel 0 is made stdout and registered.
WorkerSetup ==
    /\ worker = "started" /\ Unlocked(0)
    /\ worker' = "registering"
    /\ channels' = [channels EXCEPT ![0].valid = TRUE]
    /\ seen' = [seen EXCEPT !["worker"] = ReadBits]
    /\ UNCHANGED <<queue, stopped, workerVars, channelinfo, default_channels,
                   last_channel_id, filter_level, pc, newid, sig, held, pushed,
                   promised>>

WorkerRegister ==
    /\ worker = "registering"
    /\ worker' = "popping"
    /\ channelinfo' = seen["worker"].info \cup {0}
    /\ seen' = [seen EXCEPT !["worker"] = NoBits]
    /\ UNCHANGED <<queue, stopped, workerVars, channels, default_channels,
                   last_channel_id, filter_level, pc, newid, sig, held, pushed,
                   promised>>

\* Mutant: the last message of the queue is popped.
Pop_Last ==
    /\ worker = "popping" /\ queue # <<>>
    /\ worker' = "writing"
    /\ message' = queue[Len(queue)]
    /\ queue' = SubSeq(queue, 1, Len(queue) - 1)
    /\ next' = 0
    /\ UNCHANGED <<stopped, channelVars, filter_level, threadVars, pushed,
                   promised, out>>

\* logt_eventbus::pop() returns a message ...
Pop ==
    /\ worker = "popping" /\ queue # <<>>
    /\ worker' = "writing"
    /\ message' = Head(queue)
    /\ queue' = Tail(queue)
    /\ next' = 0
    /\ UNCHANGED <<stopped, channelVars, filter_level, threadVars, pushed,
                   promised, out>>

\* Mutant: stopped_ is looked at first.
PopFails_AtOnce ==
    /\ worker = "popping" /\ stopped
    /\ worker' = "exited"
    /\ UNCHANGED <<queue, stopped, workerVars, channelVars, filter_level,
                   threadVars, pushed, promised>>

\* Mutant: the wait of pop() does not look at stopped_.
PopFails_Never == FALSE /\ UNCHANGED vars

\* ... or false, and the thread ends.
PopFails ==
    /\ worker = "popping" /\ queue = <<>> /\ stopped
    /\ worker' = "exited"
    /\ UNCHANGED <<queue, stopped, workerVars, channelVars, filter_level,
                   threadVars, pushed, promised>>

\* write_message(): the next channel.
Filter(c) ==
    IF channels[c].filter = Inherit THEN filter_level ELSE channels[c].filter

Writes(c) ==
    /\ c \in message.ch
    /\ \/ c = 0
       \/ /\ message.level >= Filter(c)
          /\ channels[c].valid

\* Mutant: the loop is left at a channel that is not open.
WriteMessage_Breaks ==
    /\ worker = "writing" /\ next < LOGT_MAX_CHANNEL
    /\ next > 0 /\ next \in message.ch => Unlocked(next)
    /\ out' = IF Writes(next) THEN [out EXCEPT ![next] = Append(@, message.n)] ELSE out
    /\ next' = IF next > 0 /\ next \in message.ch /\ ~channels[next].valid
               THEN LOGT_MAX_CHANNEL ELSE next + 1
    /\ UNCHANGED <<queue, stopped, worker, message, channelVars, filter_level,
                   threadVars, pushed, promised>>

WriteMessage ==
    /\ worker = "writing" /\ next < LOGT_MAX_CHANNEL
    /\ next > 0 /\ next \in message.ch => Unlocked(next)
    /\ out' = IF Writes(next) THEN [out EXCEPT ![next] = Append(@, message.n)] ELSE out
    /\ next' = next + 1
    /\ UNCHANGED <<queue, stopped, worker, message, channelVars, filter_level,
                   threadVars, pushed, promised>>

WriteMessageReturns ==
    /\ worker = "writing" /\ next = LOGT_MAX_CHANNEL
    /\ worker' = "popping"
    /\ message' = NoMessage
    /\ next' = 0
    /\ UNCHANGED <<queue, stopped, channelVars, filter_level, threadVars, pushed,
                   promised, out>>

-----------------------------------------------------------------------------

Worker == \/ WorkerSetup \/ WorkerRegister \/ Pop \/ PopFails
          \/ WriteMessage \/ WriteMessageReturns

\* The steps by which a thread finishes a call that it has begun.
Continue(t) ==
    \/ WriteChannelId(t) \/ FillChannel(t) \/ RegisterChannel(t)
    \/ StdcoutWrite(t) \/ Push(t) \/ Join(t) \/ CloseChannel(t)

Thread(t) ==
    \/ ReadChannelId(t) \/ StdcoutRead(t) \/ NewSig(t) \/ SetChannels(t)
    \/ SetChannel(t) \/ SetFilterLevel(t) \/ SetChannelFilter(t)
    \/ BeginLog(t) \/ Stop(t) \/ Continue(t)

Next == Worker \/ \E t \in Threads : Thread(t)

Spec == Init /\ [][Next]_vars

\* The worker and the threads inside a call are scheduled by the operating
\* system.  Nothing obliges a thread to make a call.
Fairness == WF_vars(Worker) /\ \A t \in Threads : WF_vars(Continue(t))

FairSpec == Spec /\ Fairness

-----------------------------------------------------------------------------
(* Properties. *)

\* Every channel shows messages in the order in which they were pushed, each at
\* most once, whichever threads pushed them.
FifoPerChannel ==
    \A c \in Ids : \A i, j \in DOMAIN out[c] : i < j => out[c][i] < out[c][j]

\* The messages that pop() has taken off the queue.
Taken == pushed - Len(queue)

\* logt.hpp, shutdown(): when the worker has ended, every message pushed before
\* stop() has been taken and written; only messages pushed later may be lost.
ShutdownDrains == worker \in {"exited", "joined"} => Taken >= promised

\* A Fatal message passes every filter: when write_message() returns, each open
\* channel it is routed to has it as its last message, whatever other channels
\* failed to open and whatever the filters were set to meanwhile.
FatalReachesAll ==
    [][WriteMessageReturns /\ message.level = Fatal =>
          \A c \in message.ch : c = 0 \/ channels[c].valid =>
              out[c] # <<>> /\ out[c][Len(out[c])] = message.n]_vars

\* A channel that shutdown() has closed is not written to, so the destroyed
\* ofstream is never touched, unless shutdown() overtook the worker's start.
ClosingIsFinal ==
    [][worker = "joined" => worker' = "joined" /\ out' = out]_vars

\* shutdown() returns, whatever the worker is doing, if the other threads stop
\* logging.  pop() gives up on an empty queue only, so threads that push for ever
\* keep the worker and join() alive for ever; logt.md asks for the call "from the
\* last exiting thread".  MaxMessages is this condition, not a bound of the code.
ShutdownReturns ==
    \A t \in Threads : pc[t] = "joining" ~> pc[t] = "idle"

=============================================================================
