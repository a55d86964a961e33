---------------------------- MODULE Logt_proofs ----------------------------
(***************************************************************************)
(* Proofs about Logt for every set of threads, number of channels and      *)
(* number of messages: types, order per channel, that shutdown() drains    *)
(* and is final, and that Logt implements LogDelivery.                     *)
(***************************************************************************)
EXTENDS LogtRefinement, SequenceTheorems, TLAPS

\* newid is a channel's id while a channel is filled or closed, 0 between calls.
NewIds ==
    \A t \in Threads :
        /\ pc[t] \in {"adding", "registering", "closing"} => newid[t] \in Ids
        /\ pc[t] \in {"idle", "stdcout", "logging", "joining"} => newid[t] = 0

TypeInv == TypeOK /\ NewIds

LEMMA TypeInit == Init => TypeInv
<1>. SUFFICES ASSUME Init PROVE TypeInv
  OBVIOUS
<1>1. NoMessage \in Messages /\ NoBits \in Bits
  BY DEF NoMessage, Messages, NoBits, Bits, Info
<1>2. [valid |-> FALSE, filter |-> Inherit] \in Channels
  BY DEF Channels
<1>3. channels \in [Ids -> Channels]
  BY <1>2 DEF Init
<1>4. seen \in [Threads \cup {"worker"} -> Bits] /\ held \in [Threads -> Messages]
      /\ message \in Messages
  BY <1>1 DEF Init
<1>5. out \in [Ids -> Seq(Nat)] /\ queue \in Seq(Messages)
  BY DEF Init
<1>6. filter_level \in Quiet..Fatal
  BY DEF Init, Quiet, Fatal, Info
<1>7. /\ queue = <<>> /\ stopped = FALSE /\ worker = "none" /\ next = 0
      /\ channelinfo = {} /\ default_channels = {} /\ last_channel_id = 1
      /\ pc = [t \in Threads |-> "idle"] /\ newid = [t \in Threads |-> 0]
      /\ sig = [t \in Threads |-> {}] /\ pushed = 0 /\ promised = 0
  BY DEF Init
<1>8. /\ next \in 0..LOGT_MAX_CHANNEL /\ last_channel_id \in 1..LOGT_MAX_CHANNEL + 1
      /\ 0 \in 0..LOGT_MAX_CHANNEL
  BY <1>7, ConstantsAssumption
<1>9. newid \in [Threads -> 0..LOGT_MAX_CHANNEL] /\ sig \in [Threads -> SUBSET Ids]
  BY <1>7, <1>8
<1>10. TypeOK
  BY <1>3, <1>4, <1>5, <1>6, <1>7, <1>8, <1>9 DEF TypeOK
<1>11. NewIds
  BY <1>7 DEF NewIds
<1>. QED  BY <1>10, <1>11 DEF TypeInv

LEMMA ChannelFields ==
    ASSUME NEW c \in Channels, NEW b \in BOOLEAN,
           NEW f \in (Quiet..Fatal) \cup {Inherit}
    PROVE  /\ [c EXCEPT !.valid = b] \in Channels
           /\ [c EXCEPT !.filter = f] \in Channels
BY DEF Channels

LEMMA TypeReadChannelId ==
    ASSUME TypeInv, NEW t \in Threads, ReadChannelId(t) PROVE TypeInv'
BY ConstantsAssumption
   DEF ReadChannelId, Ready, Goto, EnsureWorkerStarted, TypeInv, TypeOK,
       NewIds, Ids, workerVars, channelVars, threadVars

LEMMA TypeWriteChannelId ==
    ASSUME TypeInv, NEW t \in Threads, WriteChannelId(t) PROVE TypeInv'
<1>1. newid[t] \in 0..LOGT_MAX_CHANNEL /\ pc[t] = "counting"
      /\ last_channel_id' = newid[t] + 1
      /\ UNCHANGED <<queue, stopped, worker, workerVars, channels, channelinfo,
                     default_channels, filter_level, seen, sig, held, pushed,
                     promised>>
  BY DEF WriteChannelId, TypeInv, TypeOK
<1>2. last_channel_id' \in 1..LOGT_MAX_CHANNEL + 1
  BY <1>1, ConstantsAssumption
<1>3. CASE newid[t] < LOGT_MAX_CHANNEL
  <2>1. Goto(t, "adding") /\ UNCHANGED newid /\ newid[t] \in Ids
    BY <1>1, <1>3, ConstantsAssumption DEF WriteChannelId, Ids
  <2>. QED  BY <1>1, <1>2, <2>1 DEF Goto, TypeInv, TypeOK, NewIds, workerVars
<1>4. CASE ~(newid[t] < LOGT_MAX_CHANNEL)
  <2>1. Goto(t, "idle") /\ newid' = [newid EXCEPT ![t] = 0]
    BY <1>4 DEF WriteChannelId
  <2>2. newid' \in [Threads -> 0..LOGT_MAX_CHANNEL]
    BY <2>1, ConstantsAssumption DEF TypeInv, TypeOK
  <2>. QED  BY <1>1, <1>2, <2>1, <2>2
            DEF Goto, TypeInv, TypeOK, NewIds, workerVars
<1>. QED  BY <1>3, <1>4

LEMMA TypeFillChannel ==
    ASSUME TypeInv, NEW t \in Threads, FillChannel(t) PROVE TypeInv'
<1>1. PICK opened \in BOOLEAN :
        channels' = [channels EXCEPT ![newid[t]].valid = opened]
  BY DEF FillChannel
<1>2. newid[t] \in Ids /\ channels \in [Ids -> Channels]
  BY DEF FillChannel, TypeInv, TypeOK, NewIds
<1>3. channels' = [channels EXCEPT ![newid[t]] =
                      [channels[newid[t]] EXCEPT !.valid = opened]]
  BY <1>1, <1>2
<1>4. channels' \in [Ids -> Channels]
  BY <1>2, <1>3, ChannelFields
<1>5. UNCHANGED <<queue, stopped, worker, workerVars, channelinfo, default_channels,
                 last_channel_id, filter_level, newid, sig, held, pushed, promised>>
      /\ pc[t] = "adding" /\ seen' = [seen EXCEPT ![t] = ReadBits]
      /\ Goto(t, "registering")
  BY DEF FillChannel
<1>. QED  BY <1>2, <1>4, <1>5, ConstantsAssumption
          DEF Goto, ReadBits, Bits, TypeInv, TypeOK, NewIds, Ids, workerVars

LEMMA TypeRegisterChannel ==
    ASSUME TypeInv, NEW t \in Threads, RegisterChannel(t) PROVE TypeInv'
BY ConstantsAssumption
   DEF RegisterChannel, Goto, WriteBits, Bits, NoBits, TypeInv, TypeOK,
       NewIds, Ids, workerVars, channelVars, threadVars

LEMMA TypeStdcoutRead ==
    ASSUME TypeInv, NEW t \in Threads, StdcoutRead(t) PROVE TypeInv'
BY ConstantsAssumption
   DEF StdcoutRead, Ready, Goto, EnsureWorkerStarted, ReadBits, Bits,
       TypeInv, TypeOK, NewIds, Ids, workerVars, channelVars, threadVars

LEMMA TypeStdcoutWrite ==
    ASSUME TypeInv, NEW t \in Threads, StdcoutWrite(t) PROVE TypeInv'
BY ConstantsAssumption
   DEF StdcoutWrite, Goto, WriteBits, Bits, NoBits, TypeInv, TypeOK, NewIds,
       Ids, workerVars, channelVars, threadVars

LEMMA TypeNewSig ==
    ASSUME TypeInv, NEW t \in Threads, NewSig(t) PROVE TypeInv'
BY ConstantsAssumption
   DEF NewSig, Ready, TypeInv, TypeOK, NewIds, Ids, workerVars, channelVars,
       threadVars

LEMMA TypeSetChannels ==
    ASSUME TypeInv, NEW t \in Threads, SetChannels(t) PROVE TypeInv'
BY ConstantsAssumption, SMTT(30)
   DEF SetChannels, Ready, TypeInv, TypeOK, NewIds, Ids, workerVars,
       channelVars, threadVars

LEMMA TypeSetChannel ==
    ASSUME TypeInv, NEW t \in Threads, SetChannel(t) PROVE TypeInv'
<1>1. PICK c \in channelinfo, enable \in BOOLEAN :
        sig' = [sig EXCEPT ![t] = IF enable THEN @ \cup {c} ELSE @ \ {c}]
  BY DEF SetChannel
<1>2. sig' \in [Threads -> SUBSET Ids]
  BY <1>1 DEF TypeInv, TypeOK
<1>. QED  BY <1>2, ConstantsAssumption
          DEF SetChannel, Ready, TypeInv, TypeOK, NewIds, Ids, workerVars, channelVars, threadVars

LEMMA TypeSetFilterLevel ==
    ASSUME TypeInv, NEW t \in Threads, SetFilterLevel(t) PROVE TypeInv'
BY ConstantsAssumption
   DEF SetFilterLevel, Ready, Quiet, Fatal, TypeInv, TypeOK, NewIds, Ids,
       workerVars, channelVars, threadVars

LEMMA TypeSetChannelFilter ==
    ASSUME TypeInv, NEW t \in Threads, SetChannelFilter(t) PROVE TypeInv'
<1>1. PICK l \in Filters \cup {Inherit}, c \in Ids \ {0} :
        channels' = [channels EXCEPT ![c].filter = l]
  BY DEF SetChannelFilter
<1>2. channels' = [channels EXCEPT ![c] = [channels[c] EXCEPT !.filter = l]]
  BY <1>1
<1>3. channels' \in [Ids -> Channels]
  BY <1>2, ChannelFields, ConstantsAssumption DEF TypeInv, TypeOK, Quiet, Fatal
<1>4. UNCHANGED <<queue, stopped, worker, workerVars, channelinfo, default_channels,
                  last_channel_id, filter_level, threadVars, pushed, promised>>
  BY DEF SetChannelFilter
<1>. QED  BY <1>3, <1>4 DEF TypeInv, TypeOK, NewIds, workerVars, threadVars

LEMMA TypeBeginLog ==
    ASSUME TypeInv, NEW t \in Threads, BeginLog(t) PROVE TypeInv'
<1>1. PICK l \in Levels :
        held' = [held EXCEPT ![t] = [n |-> 0, level |-> l, ch |-> sig[t]]]
  BY DEF BeginLog
<1>2. [n |-> 0, level |-> l, ch |-> sig[t]] \in Messages
  BY DEF Messages, TypeInv, TypeOK
<1>3. held' \in [Threads -> Messages]
  BY <1>1, <1>2 DEF TypeInv, TypeOK
<1>4. worker' \in {worker, "started"} /\ pc[t] = "idle" /\ Goto(t, "logging")
      /\ UNCHANGED <<queue, stopped, workerVars, channelVars, filter_level, newid,
                     seen, sig, pushed, promised>>
  BY DEF BeginLog, Ready, EnsureWorkerStarted
<1>. QED  BY <1>3, <1>4 DEF Goto, TypeInv, TypeOK, NewIds, workerVars, channelVars

LEMMA TypePush ==
    ASSUME TypeInv, NEW t \in Threads, Push(t) PROVE TypeInv'
<1>1. held[t] \in Messages /\ pushed + 1 \in Nat /\ queue \in Seq(Messages)
  BY DEF TypeInv, TypeOK
<1>2. [held[t] EXCEPT !.n = pushed + 1] \in Messages /\ NoMessage \in Messages
  BY <1>1 DEF Messages, NoMessage, Info
<1>3. queue' \in Seq(Messages)
  BY <1>1, <1>2 DEF Push
<1>4. pc[t] = "logging" /\ pushed' = pushed + 1 /\ Goto(t, "idle")
      /\ held' = [held EXCEPT ![t] = NoMessage]
      /\ UNCHANGED <<stopped, worker, workerVars, channelVars, filter_level, newid,
                     seen, sig, promised>>
  BY DEF Push
<1>. QED  BY <1>1, <1>2, <1>3, <1>4
          DEF Goto, TypeInv, TypeOK, NewIds, workerVars, channelVars

LEMMA TypeStop ==
    ASSUME TypeInv, NEW t \in Threads, Stop(t) PROVE TypeInv'
BY ConstantsAssumption
   DEF Stop, Ready, Goto, TypeInv, TypeOK, NewIds, Ids, workerVars,
       channelVars, threadVars

LEMMA TypeJoin ==
    ASSUME TypeInv, NEW t \in Threads, Join(t) PROVE TypeInv'
BY ConstantsAssumption
   DEF Join, Goto, TypeInv, TypeOK, NewIds, Ids, workerVars, channelVars,
       threadVars

LEMMA TypeCloseChannel ==
    ASSUME TypeInv, NEW t \in Threads, CloseChannel(t) PROVE TypeInv'
<1>1. newid[t] \in Ids /\ channels \in [Ids -> Channels]
  BY DEF CloseChannel, TypeInv, TypeOK, NewIds
<1>2. channels' = [channels EXCEPT ![newid[t]] =
                      [channels[newid[t]] EXCEPT !.valid = FALSE]]
  BY <1>1 DEF CloseChannel
<1>3. channels' \in [Ids -> Channels]
  BY <1>1, <1>2, ChannelFields
<1>4. \/ newid' = [newid EXCEPT ![t] = 0] /\ Goto(t, "idle")
      \/ /\ newid[t] # LOGT_MAX_CHANNEL - 1
         /\ newid' = [newid EXCEPT ![t] = newid[t] + 1] /\ Goto(t, "closing")
  BY DEF CloseChannel
<1>5. UNCHANGED <<queue, stopped, worker, workerVars, channelinfo, default_channels,
                 last_channel_id, filter_level, seen, sig, held, pushed, promised>>
  BY DEF CloseChannel
<1>6. CASE newid' = [newid EXCEPT ![t] = 0] /\ Goto(t, "idle")
  <2>1. newid' \in [Threads -> 0..LOGT_MAX_CHANNEL]
    BY <1>6, ConstantsAssumption DEF TypeInv, TypeOK
  <2>. QED  BY <1>3, <1>5, <1>6, <2>1 DEF Goto, TypeInv, TypeOK, NewIds, workerVars
<1>7. CASE /\ newid[t] # LOGT_MAX_CHANNEL - 1
           /\ newid' = [newid EXCEPT ![t] = newid[t] + 1] /\ Goto(t, "closing")
  <2>1. newid[t] + 1 \in Ids /\ newid[t] + 1 \in 0..LOGT_MAX_CHANNEL
    BY <1>1, <1>7, ConstantsAssumption DEF Ids
  <2>2. newid' \in [Threads -> 0..LOGT_MAX_CHANNEL]
    BY <1>7, <2>1 DEF TypeInv, TypeOK
  <2>. QED  BY <1>3, <1>5, <1>7, <2>1, <2>2
            DEF Goto, TypeInv, TypeOK, NewIds, workerVars
<1>. QED  BY <1>4, <1>6, <1>7

LEMMA TypeWorkerSetup ==
    ASSUME TypeInv, WorkerSetup PROVE TypeInv'
<1>1. 0 \in Ids /\ channels \in [Ids -> Channels]
  BY ConstantsAssumption DEF Ids, TypeInv, TypeOK
<1>2. channels' = [channels EXCEPT ![0] =
                      [channels[0] EXCEPT !.valid = TRUE]]
  BY <1>1 DEF WorkerSetup
<1>3. channels' \in [Ids -> Channels]
  BY <1>1, <1>2, ChannelFields
<1>4. worker' = "registering" /\ seen' = [seen EXCEPT !["worker"] = ReadBits]
      /\ UNCHANGED <<queue, stopped, workerVars, channelinfo, default_channels,
                     last_channel_id, filter_level, pc, newid, sig, held, pushed,
                     promised>>
  BY DEF WorkerSetup
<1>. QED  BY <1>3, <1>4 DEF ReadBits, Bits, TypeInv, TypeOK, NewIds, workerVars

LEMMA TypeWorkerRegister ==
    ASSUME TypeInv, WorkerRegister PROVE TypeInv'
BY ConstantsAssumption
   DEF WorkerRegister, Bits, NoBits, TypeInv, TypeOK, NewIds, Ids,
       workerVars, channelVars, threadVars

LEMMA TypePop ==
    ASSUME TypeInv, Pop PROVE TypeInv'
BY ConstantsAssumption
   DEF Pop, TypeInv, TypeOK, NewIds, Ids, workerVars, channelVars,
       threadVars

LEMMA TypePopFails ==
    ASSUME TypeInv, PopFails PROVE TypeInv'
BY ConstantsAssumption
   DEF PopFails, TypeInv, TypeOK, NewIds, Ids, workerVars, channelVars,
       threadVars

LEMMA TypeWriteMessage ==
    ASSUME TypeInv, WriteMessage PROVE TypeInv'
<1>1. next \in Ids /\ message.n \in Nat /\ out \in [Ids -> Seq(Nat)]
  BY ConstantsAssumption DEF WriteMessage, Ids, Messages, TypeInv, TypeOK
<1>2. Append(out[next], message.n) \in Seq(Nat)
  BY <1>1
<1>3. out' \in [Ids -> Seq(Nat)]
  BY <1>1, <1>2 DEF WriteMessage
<1>4. next' = next + 1
      /\ UNCHANGED <<queue, stopped, worker, message, channelVars, filter_level,
                     threadVars, pushed, promised>>
  BY DEF WriteMessage
<1>. QED  BY <1>1, <1>3, <1>4, ConstantsAssumption, SMTT(30)
          DEF Ids, TypeInv, TypeOK, NewIds, channelVars, threadVars

LEMMA TypeWriteMessageReturns ==
    ASSUME TypeInv, WriteMessageReturns PROVE TypeInv'
BY ConstantsAssumption
   DEF WriteMessageReturns, Messages, NoMessage, Info, TypeInv, TypeOK,
       NewIds, Ids, workerVars, channelVars, threadVars

LEMMA TypeStep == TypeInv /\ [Next]_vars => TypeInv'
<1>. SUFFICES ASSUME TypeInv, [Next]_vars PROVE TypeInv'
  OBVIOUS
<1>1. CASE Worker
  BY <1>1, TypeWorkerSetup, TypeWorkerRegister, TypePop, TypePopFails,
     TypeWriteMessage, TypeWriteMessageReturns DEF Worker
<1>2. ASSUME NEW t \in Threads, Thread(t) PROVE TypeInv'
  BY <1>2, TypeReadChannelId, TypeWriteChannelId, TypeFillChannel,
     TypeRegisterChannel, TypeStdcoutRead, TypeStdcoutWrite, TypeNewSig,
     TypeSetChannels, TypeSetChannel, TypeSetFilterLevel, TypeSetChannelFilter,
     TypeBeginLog, TypePush, TypeStop, TypeJoin, TypeCloseChannel
     DEF Thread, Continue
<1>3. CASE UNCHANGED vars
  BY <1>3 DEF vars, threadVars, channelVars, workerVars, TypeInv, TypeOK, NewIds
<1>. QED  BY <1>1, <1>2, <1>3 DEF Next

\* In every reachable state all variables have their types; in particular no
\* addfile() or addostream(), however they race, registers a channel beyond the
\* array channels_ (`newid >= LOGT_MAX_CHANNEL`).
THEOREM TypesHold == Spec => []TypeOK
<1>1. TypeInv => TypeOK
  BY DEF TypeInv
<1>. QED  BY <1>1, TypeInit, TypeStep, PTL DEF Spec

-----------------------------------------------------------------------------
(* The queue holds the numbers that follow Taken, the worker the number     *)
(* Taken, and what a channel shows lies below what it can still be given.   *)

Numbered == \A i \in 1..Len(queue) : queue[i].n = Taken + i

Shown(c) == IF worker = "writing" /\ next <= c THEN Taken - 1 ELSE Taken

Increasing(s) == \A i, j \in 1..Len(s) : i < j => s[i] < s[j]

Bounded(s, b) == \A i \in 1..Len(s) : s[i] <= b

DeliveryInv ==
    /\ Taken \in Nat
    /\ promised <= pushed
    /\ Numbered
    /\ worker = "writing" => message.n = Taken
    /\ worker \in {"exited", "joined"} => stopped
    /\ ShutdownDrains
    /\ \A c \in Ids : Increasing(out[c]) /\ Bounded(out[c], Shown(c))

IInv == TypeInv /\ DeliveryInv

LEMMA TypesOfDelivery ==
    ASSUME TypeInv
    PROVE  /\ queue \in Seq(Messages) /\ Len(queue) \in Nat
           /\ pushed \in Nat /\ promised \in Nat /\ Taken \in Int
           /\ message.n \in Nat /\ next \in 0..LOGT_MAX_CHANNEL
           /\ out \in [Ids -> Seq(Nat)] /\ Ids \subseteq Nat
           /\ \A c \in Ids : Len(out[c]) \in Nat /\ DOMAIN out[c] = 1..Len(out[c])
           /\ \A c \in Ids : \A i \in 1..Len(out[c]) : out[c][i] \in Nat
BY ConstantsAssumption, SMTT(30) DEF TypeInv, TypeOK, Messages, Ids, Taken

LEMMA DeliveryInit == Init => DeliveryInv
<1>. SUFFICES ASSUME Init PROVE DeliveryInv
  OBVIOUS
<1>1. queue = <<>> /\ pushed = 0 /\ promised = 0 /\ worker = "none" /\ Len(queue) = 0
  BY DEF Init
<1>2. \A c \in Ids : out[c] = <<>> /\ Len(out[c]) = 0
  BY DEF Init
<1>. QED  BY <1>1, <1>2 DEF DeliveryInv, Taken, Numbered, ShutdownDrains, Increasing,
          Bounded

\* The steps that neither queue, take nor write a message, nor end the worker.
Aside ==
    /\ UNCHANGED <<queue, message, next, pushed, out>>
    /\ worker' # worker => worker # "writing" /\ worker' # "writing"
    /\ \/ /\ worker' \in {"exited", "joined"} => worker \in {"exited", "joined"}
          /\ UNCHANGED <<stopped, promised>>
       \/ /\ UNCHANGED worker
          /\ stopped' = TRUE
          /\ promised' = IF stopped THEN promised ELSE pushed

LEMMA AsideKeeps == ASSUME IInv, Aside PROVE DeliveryInv'
<1>1. Taken' = Taken /\ (\A c : Shown(c)' = Shown(c))
  BY DEF Aside, Taken, Shown
<1>2. (promised <= pushed)' /\ (worker \in {"exited", "joined"} => stopped)'
  BY TypesOfDelivery DEF Aside, IInv, DeliveryInv
<1>3. ShutdownDrains'
  BY <1>1, TypesOfDelivery DEF Aside, IInv, DeliveryInv, ShutdownDrains
<1>4. (worker = "writing" => message.n = Taken)' /\ Numbered'
  BY <1>1 DEF Aside, IInv, DeliveryInv, Numbered
<1>. QED  BY <1>1, <1>2, <1>3, <1>4 DEF Aside, IInv, DeliveryInv

LEMMA PushKeeps == ASSUME IInv, NEW t \in Threads, Push(t) PROVE DeliveryInv'
<1>1. /\ pushed' = pushed + 1
      /\ queue' = Append(queue, [held[t] EXCEPT !.n = pushed + 1])
      /\ UNCHANGED <<worker, stopped, message, next, out, promised>>
  BY DEF Push, workerVars
<1>a. held[t] \in Messages /\ pushed + 1 \in Nat
  BY DEF IInv, TypeInv, TypeOK
<1>2. [held[t] EXCEPT !.n = pushed + 1] \in Messages
      /\ [held[t] EXCEPT !.n = pushed + 1].n = pushed + 1
  BY <1>a DEF Messages
<1>. DEFINE m == [held[t] EXCEPT !.n = pushed + 1]
<1>. HIDE DEF m
<1>3. Len(queue') = Len(queue) + 1 /\ queue'[Len(queue) + 1] = m
      /\ \A i \in 1..Len(queue) : queue'[i] = queue[i]
  BY <1>1, <1>2, TypesOfDelivery DEF IInv, m
<1>4. Taken' = Taken /\ (\A c : Shown(c)' = Shown(c))
  BY <1>1, <1>3, TypesOfDelivery DEF IInv, Taken, Shown
<1>5. m.n = Taken + (Len(queue) + 1)
  BY <1>2, TypesOfDelivery DEF IInv, Taken, m
<1>6. Numbered'
  <2>1. SUFFICES ASSUME NEW i \in 1..(Len(queue) + 1)
                 PROVE  (queue')[i].n = Taken + i
    BY <1>3, <1>4 DEF Numbered
  <2>2. CASE i = Len(queue) + 1
    BY <1>3, <1>5, <2>2
  <2>3. CASE i \in 1..Len(queue)
    BY <1>3, <2>3 DEF IInv, DeliveryInv, Numbered
  <2>. QED  BY <2>1, <2>2, <2>3, TypesOfDelivery DEF IInv
<1>7. (promised <= pushed)'
  BY <1>1, TypesOfDelivery DEF IInv, DeliveryInv
<1>. QED  BY <1>1, <1>4, <1>6, <1>7 DEF IInv, DeliveryInv, ShutdownDrains

LEMMA PopKeeps == ASSUME IInv, Pop PROVE DeliveryInv'
<1>1. /\ worker = "popping" /\ worker' = "writing" /\ next' = 0 /\ queue # <<>>
      /\ message' = Head(queue) /\ queue' = Tail(queue)
      /\ UNCHANGED <<stopped, pushed, promised, out>>
  BY DEF Pop
<1>2. Len(queue) > 0 /\ Len(queue') = Len(queue) - 1 /\ message' = queue[1]
      /\ \A i \in 1..Len(queue') : queue'[i] = queue[i + 1]
  BY <1>1, TypesOfDelivery DEF IInv
<1>3. Taken' = Taken + 1
  BY <1>1, <1>2, TypesOfDelivery DEF IInv, Taken
<1>4. message'.n = Taken'
  BY <1>2, <1>3, TypesOfDelivery DEF IInv, DeliveryInv, Numbered
<1>5. Numbered'
  <2>1. SUFFICES ASSUME NEW i \in 1..Len(queue')
                 PROVE  (queue')[i].n = Taken' + i
    BY DEF Numbered
  <2>2. i + 1 \in 1..Len(queue) /\ Taken + (i + 1) = Taken' + i
    BY <1>2, <1>3, TypesOfDelivery DEF IInv
  <2>3. queue[i + 1].n = Taken + (i + 1)
    BY <2>2 DEF IInv, DeliveryInv, Numbered
  <2>. QED  BY <1>2, <2>2, <2>3
<1>6. \A c \in Ids : Shown(c)' = Taken /\ Shown(c) = Taken
  BY <1>1, <1>3, TypesOfDelivery DEF IInv, Shown
<1>. QED  BY <1>1, <1>3, <1>4, <1>5, <1>6 DEF IInv, DeliveryInv, ShutdownDrains

LEMMA PopFailsKeeps == ASSUME IInv, PopFails PROVE DeliveryInv'
<1>1. /\ worker = "popping" /\ worker' = "exited" /\ queue = <<>> /\ stopped
      /\ UNCHANGED <<queue, stopped, message, next, pushed, promised, out>>
  BY DEF PopFails, workerVars
<1>2. Taken' = Taken /\ Taken = pushed /\ (\A c : Shown(c)' = Shown(c))
  BY <1>1, TypesOfDelivery DEF IInv, Taken, Shown
<1>. QED  BY <1>1, <1>2 DEF IInv, DeliveryInv, Numbered, ShutdownDrains

LEMMA WriteMessageKeeps == ASSUME IInv, WriteMessage PROVE DeliveryInv'
<1>1. /\ worker = "writing" /\ next < LOGT_MAX_CHANNEL /\ next' = next + 1
      /\ out' \in {out, [out EXCEPT ![next] = Append(@, message.n)]}
      /\ UNCHANGED <<worker, stopped, message, queue, pushed, promised>>
  BY DEF WriteMessage
<1>2. next \in Ids /\ message.n = Taken /\ Taken' = Taken /\ Taken \in Nat
  BY <1>1, TypesOfDelivery, ConstantsAssumption DEF IInv, DeliveryInv, Ids, Taken
<1>3. ASSUME NEW c \in Ids PROVE (Increasing(out[c]) /\ Bounded(out[c], Shown(c)))'
  <2>1. CASE out'[c] = out[c]
    <3>1. Shown(c) <= Shown(c)' /\ Shown(c) \in Int /\ Shown(c)' \in Int
      BY <1>1, <1>2, TypesOfDelivery DEF IInv, Shown
    <3>2. /\ Increasing(out[c]) /\ Bounded(out[c], Shown(c)) /\ Len(out[c]) \in Nat
          /\ \A i \in 1..Len(out[c]) : out[c][i] \in Nat
      BY TypesOfDelivery DEF IInv, DeliveryInv
    <3>3. Bounded(out[c], Shown(c)')
      BY <3>1, <3>2 DEF Bounded
    <3>. QED  BY <2>1, <3>2, <3>3 DEF Increasing, Bounded
  <2>2. CASE c = next /\ out'[c] = Append(out[c], message.n)
    <3>1. Shown(c) = Taken - 1 /\ Shown(c)' = Taken
      BY <1>1, <1>2, <2>2, TypesOfDelivery DEF IInv, Shown
    <3>2. Len(out'[c]) = Len(out[c]) + 1 /\ out'[c][Len(out[c]) + 1] = Taken
          /\ \A i \in 1..Len(out[c]) : out'[c][i] = out[c][i]
      BY <1>2, <2>2, TypesOfDelivery DEF IInv
    <3>3. \A i \in 1..Len(out[c]) : out[c][i] \in Nat /\ out[c][i] <= Taken - 1
      BY <3>1, TypesOfDelivery DEF IInv, DeliveryInv, Bounded
    <3>. DEFINE n == Len(out[c])
    <3>a. n \in Nat /\ Increasing(out[c])
      BY TypesOfDelivery DEF IInv, DeliveryInv
    <3>4. Bounded(out[c], Shown(c))'
      <4>1. SUFFICES ASSUME NEW i \in 1..(n + 1) PROVE out'[c][i] <= Taken
        BY <3>1, <3>2 DEF Bounded
      <4>2. CASE i = n + 1
        BY <1>2, <3>2, <4>2
      <4>3. CASE i \in 1..n
        BY <1>2, <3>2, <3>3, <4>3
      <4>. QED  BY <3>a, <4>2, <4>3
    <3>5. Increasing(out[c])'
      <4>1. SUFFICES ASSUME NEW i \in 1..(n + 1), NEW j \in 1..(n + 1), i < j
                     PROVE  out'[c][i] < out'[c][j]
        BY <3>2 DEF Increasing
      <4>2. i \in 1..n
        BY <3>a, <4>1
      <4>3. CASE j = n + 1
        BY <1>2, <3>2, <3>3, <4>2, <4>3
      <4>4. CASE j \in 1..n
        BY <3>2, <3>a, <4>1, <4>2, <4>4 DEF Increasing
      <4>. QED  BY <3>a, <4>3, <4>4
    <3>. QED  BY <3>4, <3>5
  <2>. QED  BY <1>1, <1>2, <2>1, <2>2, TypesOfDelivery DEF IInv
<1>. QED  BY <1>1, <1>2, <1>3 DEF IInv, DeliveryInv, Numbered, ShutdownDrains

LEMMA WriteMessageReturnsKeeps == ASSUME IInv, WriteMessageReturns PROVE DeliveryInv'
<1>1. /\ worker = "writing" /\ next = LOGT_MAX_CHANNEL /\ worker' = "popping"
      /\ UNCHANGED <<stopped, queue, pushed, promised, out>>
  BY DEF WriteMessageReturns
<1>2. Taken' = Taken /\ \A c \in Ids : Shown(c)' = Taken /\ Shown(c) = Taken
  BY <1>1, TypesOfDelivery, ConstantsAssumption DEF IInv, Taken, Shown, Ids
<1>. QED  BY <1>1, <1>2 DEF IInv, DeliveryInv, Numbered, ShutdownDrains

LEMMA DeliveryStep == IInv /\ [Next]_vars => IInv'
<1>. SUFFICES ASSUME IInv, [Next]_vars PROVE DeliveryInv'
  BY TypeStep DEF IInv
<1>1. CASE Worker
  <2>1. CASE WorkerSetup \/ WorkerRegister
    BY <2>1, AsideKeeps DEF Aside, WorkerSetup, WorkerRegister, workerVars
  <2>. QED  BY <1>1, <2>1, PopKeeps, PopFailsKeeps, WriteMessageKeeps,
            WriteMessageReturnsKeeps DEF Worker
<1>2. ASSUME NEW t \in Threads, Thread(t) PROVE DeliveryInv'
  <2>1. CASE ReadChannelId(t) \/ StdcoutRead(t) \/ BeginLog(t)
    BY <2>1, AsideKeeps DEF Aside, ReadChannelId, StdcoutRead, BeginLog,
       EnsureWorkerStarted, workerVars
  <2>2. CASE \/ WriteChannelId(t) \/ FillChannel(t) \/ RegisterChannel(t)
             \/ StdcoutWrite(t) \/ CloseChannel(t)
    BY <2>2, AsideKeeps DEF Aside, WriteChannelId, FillChannel, RegisterChannel,
       StdcoutWrite, CloseChannel, workerVars
  <2>3. CASE \/ NewSig(t) \/ SetChannels(t) \/ SetChannel(t) \/ SetFilterLevel(t)
             \/ SetChannelFilter(t)
    BY <2>3, AsideKeeps DEF Aside, NewSig, SetChannels, SetChannel,
       SetFilterLevel, SetChannelFilter, workerVars
  <2>4. CASE Stop(t)
    BY <2>4, AsideKeeps DEF Aside, Stop, workerVars
  <2>5. CASE Join(t)
    BY <2>5, AsideKeeps DEF Aside, Join, workerVars
  <2>. QED  BY <1>2, <2>1, <2>2, <2>3, <2>4, <2>5, PushKeeps DEF Thread, Continue
<1>3. CASE UNCHANGED vars
  BY <1>3, AsideKeeps DEF Aside, vars, workerVars
<1>. QED  BY <1>1, <1>2, <1>3 DEF Next

LEMMA IInvHolds == Spec => []IInv
<1>1. Init => IInv
  BY TypeInit, DeliveryInit DEF IInv
<1>. QED  BY <1>1, DeliveryStep, PTL DEF Spec

\* shutdown() drains: once the worker has ended, every message that was pushed
\* before stop() has been popped and written.
THEOREM Drains == Spec => []ShutdownDrains
<1>1. IInv => ShutdownDrains
  BY DEF IInv, DeliveryInv
<1>. QED  BY <1>1, IInvHolds, PTL

\* Every channel shows messages in the order of their push(), none of them twice.
THEOREM InOrder == Spec => []FifoPerChannel
<1>1. IInv => FifoPerChannel
  BY TypesOfDelivery DEF IInv, DeliveryInv, FifoPerChannel, Increasing
<1>. QED  BY <1>1, IInvHolds, PTL

-----------------------------------------------------------------------------
(* The end. *)

LEMMA EndStep ==
    ASSUME [Next]_vars, worker = "joined"
    PROVE  worker' = "joined" /\ out' = out
<1>1. CASE Worker
  BY <1>1 DEF Worker, WorkerSetup, WorkerRegister, Pop, PopFails, WriteMessage, WriteMessageReturns
<1>2. ASSUME NEW t \in Threads, Thread(t)
      PROVE  worker' = "joined" /\ out' = out
  <2>1. CASE ReadChannelId(t) \/ StdcoutRead(t) \/ BeginLog(t)
    BY <2>1 DEF ReadChannelId, StdcoutRead, BeginLog, EnsureWorkerStarted, workerVars
  <2>2. CASE NewSig(t) \/ SetChannels(t) \/ SetChannel(t) \/ SetFilterLevel(t) \/ SetChannelFilter(t)
    BY <2>2 DEF NewSig, SetChannels, SetChannel, SetFilterLevel, SetChannelFilter, workerVars
  <2>3. CASE Stop(t) \/ Join(t)
    BY <2>3 DEF Stop, Join, workerVars
  <2>4. CASE \/ WriteChannelId(t) \/ FillChannel(t) \/ RegisterChannel(t)
             \/ StdcoutWrite(t) \/ Push(t) \/ CloseChannel(t)
    BY <2>4 DEF WriteChannelId, FillChannel, RegisterChannel, StdcoutWrite, Push, CloseChannel, workerVars
  <2>. QED  BY <1>2, <2>1, <2>2, <2>3, <2>4 DEF Thread, Continue
<1>3. CASE UNCHANGED vars
  BY <1>3 DEF vars, workerVars
<1>. QED  BY <1>1, <1>2, <1>3 DEF Next

\* Once shutdown() has joined the worker no call starts another one, and no
\* channel is written to again.
THEOREM TheEndIsFinal == Spec => ClosingIsFinal
BY EndStep, PTL DEF Spec, ClosingIsFinal

-----------------------------------------------------------------------------
(* The abstract log. *)

Numbers == [i \in DOMAIN queue |-> queue[i].n]
Last == Taken - (IF worker = "writing" THEN 1 ELSE 0)

LEMMA MessageFields ==
    ASSUME NEW m \in Messages, NEW n \in Nat
    PROVE  m.n \in Nat /\ [m EXCEPT !.n = n] \in Messages /\ [m EXCEPT !.n = n].n = n
BY DEF Messages

LEMMA NumbersAre ==
    ASSUME IInv
    PROVE  /\ Numbers \in Seq(Nat) /\ Len(Numbers) = Len(queue) /\ Len(queue) \in Nat
           /\ \A i \in 1..Len(queue) : Numbers[i] = queue[i].n /\ queue[i].n \in Nat
<1>1. queue \in Seq(Messages) /\ Len(queue) \in Nat /\ DOMAIN queue = 1..Len(queue)
  BY TypesOfDelivery, LenProperties DEF IInv
<1>2. \A i \in 1..Len(queue) : queue[i].n \in Nat
  BY <1>1, MessageFields, ElementOfSeq
<1>3. Numbers \in [1..Len(queue) -> Nat]
  BY <1>1, <1>2 DEF Numbers
<1>4. \A n \in Nat : \A f \in [1..n -> Nat] : f \in Seq(Nat) /\ Len(f) = n
  OBVIOUS
<1>. QED  BY <1>1, <1>2, <1>3, <1>4 DEF Numbers

LEMMA ConsIs ==
    ASSUME NEW S, NEW n \in Nat, NEW x \in S, NEW rest \in Seq(S), Len(rest) = n,
           NEW s \in Seq(S), Len(s) = n + 1, s[1] = x, \A i \in 1..n : rest[i] = s[i + 1]
    PROVE  <<x>> \o rest = s
<1>1. <<x>> \o rest \in Seq(S) /\ Len(<<x>> \o rest) = n + 1
  OBVIOUS
<1>2. (<<x>> \o rest)[1] = x /\ \A i \in 2..(n + 1) : (<<x>> \o rest)[i] = rest[i - 1]
  OBVIOUS
<1>3. \A i \in 1..(n + 1) : (<<x>> \o rest)[i] = s[i]
  <2>1. \A i \in 2..(n + 1) : i - 1 \in 1..n /\ (i - 1) + 1 = i
    OBVIOUS
  <2>. QED  BY <1>2, <2>1
<1>. QED  BY <1>1, <1>3, SeqEqual

LEMMA WaitingIs ==
    /\ worker = "writing" => Waiting = <<message.n>> \o Numbers
    /\ Serving /\ worker # "writing" => Waiting = <<>> \o Numbers
    /\ ~Serving => Waiting = <<>>
  BY DEF Waiting, Serving, Numbers

\* Steps that the abstract log does not see.
LEMMA UnseenSteps ==
    ASSUME UNCHANGED <<queue, message, pushed>>,
           worker' # worker => /\ worker # "writing" /\ worker' # "writing"
                               /\ Serving' = Serving
    PROVE  UNCHANGED <<Waiting, Last, Serving>>
  BY DEF Waiting, Last, Serving, Taken

LEMMA PushIsAccept ==
    ASSUME IInv, NEW t \in Threads, Push(t)
    PROVE  Delivery!Accept \/ UNCHANGED <<Waiting, Last, Serving>>
<1>1. /\ queue' = Append(queue, [held[t] EXCEPT !.n = pushed + 1])
      /\ pushed' = pushed + 1 /\ worker' = worker /\ message' = message
  BY DEF Push, workerVars
<1>a. queue \in Seq(Messages) /\ pushed \in Nat /\ held[t] \in Messages
  BY TypesOfDelivery DEF IInv, TypeInv, TypeOK
<1>2. /\ queue \in Seq(Messages) /\ pushed \in Nat
      /\ [held[t] EXCEPT !.n = pushed + 1] \in Messages /\ [held[t] EXCEPT !.n = pushed + 1].n = pushed + 1
  <2>1. pushed + 1 \in Nat
    BY <1>a
  <2>. QED  BY <1>a, <2>1, MessageFields
<1>3. Len(queue') = Len(queue) + 1 /\ Len(queue) \in Nat
  BY <1>1, <1>2, AppendProperties, LenProperties
<1>4. Taken' = Taken /\ Last' = Last /\ Serving' = Serving
  BY <1>1, <1>2, <1>3 DEF Taken, Last, Serving
<1>5. CASE ~Serving
  BY <1>4, <1>5 DEF Waiting
<1>6. CASE Serving
  <2>1. Waiting \in Seq(Nat) /\ Waiting' = Append(Waiting, pushed + 1)
    <3>1. Numbers \in Seq(Nat) /\ message.n \in Nat
      BY NumbersAre, TypesOfDelivery DEF IInv
    <3>2. Numbers' = Append(Numbers, pushed + 1)
      <4>1. DOMAIN queue = 1..Len(queue) /\ DOMAIN queue' = 1..(Len(queue) + 1)
        BY <1>1, <1>2, <1>3, LenProperties, AppendProperties
      <4>2. /\ \A i \in 1..Len(queue) : queue'[i] = queue[i]
            /\ queue'[Len(queue) + 1] = [held[t] EXCEPT !.n = pushed + 1]
        BY <1>1, <1>2, AppendProperties
      <4>3. queue'[Len(queue) + 1].n = pushed + 1
        BY <1>2, <4>2
      <4>4. Numbers' = [i \in 1..(Len(queue) + 1) |-> queue'[i].n]
        BY <4>1 DEF Numbers
      <4>5. Append(Numbers, pushed + 1) = [i \in 1..(Len(queue) + 1) |-> IF i = Len(queue) + 1 THEN pushed + 1 ELSE Numbers[i]]
        BY <3>1, <1>2, <1>3, NumbersAre
      <4>6. ASSUME NEW i \in 1..(Len(queue) + 1)
            PROVE  queue'[i].n = IF i = Len(queue) + 1 THEN pushed + 1 ELSE Numbers[i]
        <5>1. CASE i = Len(queue) + 1
          BY <4>3, <5>1
        <5>2. CASE i # Len(queue) + 1
          <6>1. i \in 1..Len(queue)
            BY <1>3, <5>2
          <6>. QED  BY <4>2, <5>2, <6>1, NumbersAre
        <5>. QED  BY <5>1, <5>2
      <4>. QED  BY <4>4, <4>5, <4>6
    <3>3. CASE worker = "writing"
      <4>1. Waiting = <<message.n>> \o Numbers
        BY <3>3, WaitingIs
      <4>2. Waiting' = <<message.n>> \o Append(Numbers, pushed + 1)
        BY <1>1, <3>2, <3>3 DEF Waiting, Serving, Numbers
      <4>. QED  BY <1>2, <3>1, <4>1, <4>2, SMTT(30)
    <3>4. CASE worker # "writing"
      <4>1. Waiting = <<>> \o Numbers
        BY <1>6, <3>4, WaitingIs
      <4>2. Waiting' = <<>> \o Append(Numbers, pushed + 1)
        BY <1>1, <1>4, <1>6, <3>2, <3>4 DEF Waiting, Numbers
      <4>. QED  BY <1>2, <3>1, <4>1, <4>2
    <3>. QED  BY <3>3, <3>4
  <2>2. Len(Waiting') = Len(Waiting) + 1 /\ SubSeq(Waiting', 1, Len(Waiting)) = Waiting
    <3>. HIDE DEF Waiting
    <3>. QED  BY <1>2, <2>1
  <2>. QED  BY <1>4, <1>6, <2>2 DEF Delivery!Accept, Last
<1>. QED  BY <1>5, <1>6

LEMMA PopIsUnseen ==
    ASSUME IInv, Pop
    PROVE  UNCHANGED <<Waiting, Last, Serving>>
<1>1. /\ worker = "popping" /\ worker' = "writing" /\ queue # <<>>
      /\ message' = Head(queue) /\ queue' = Tail(queue) /\ pushed' = pushed
  BY DEF Pop
<1>2. queue \in Seq(Messages) /\ pushed \in Nat
  BY TypesOfDelivery DEF IInv
<1>3. /\ Len(queue) \in Nat \ {0} /\ Len(queue') = Len(queue) - 1
      /\ \A i \in 1..Len(queue') : queue'[i] = queue[i + 1]
      /\ DOMAIN queue = 1..Len(queue) /\ DOMAIN queue' = 1..Len(queue')
      /\ message' = queue[1]
  BY <1>1, <1>2, HeadTailProperties, EmptySeq, LenProperties
<1>4. Last' = Last /\ Serving' = Serving
  BY <1>1, <1>2, <1>3 DEF Last, Serving, Taken
<1>5. Waiting = Numbers
  BY <1>1, WaitingIs, NumbersAre DEF Serving
<1>6. Waiting' = <<queue[1].n>> \o [i \in 1..(Len(queue) - 1) |-> queue[i + 1].n]
  BY <1>1, <1>3 DEF Waiting, Serving
<1>7. <<queue[1].n>> \o [i \in 1..(Len(queue) - 1) |-> queue[i + 1].n] = Numbers
  <2>. DEFINE m == Len(queue) - 1
              rest == [i \in 1..m |-> queue[i + 1].n]
  <2>1. \A i \in 1..m : queue[i + 1].n \in Nat
    BY <1>3, NumbersAre
  <2>2. rest \in Seq(Nat) /\ Len(rest) = m /\ m \in Nat
    BY <1>3, <2>1
  <2>3. queue[1].n \in Nat
    BY <1>3, NumbersAre
  <2>4. Numbers \in Seq(Nat) /\ Len(Numbers) = m + 1 /\ \A i \in 1..(m + 1) : Numbers[i] = queue[i].n
    BY <1>3, NumbersAre
  <2>5. \A i \in 1..m : rest[i] = Numbers[i + 1]
    BY <2>2, <2>4
  <2>6. Numbers[1] = queue[1].n
    BY <1>3, NumbersAre
  <2>. HIDE DEF rest, m
  <2>. QED  BY <2>2, <2>3, <2>4, <2>5, <2>6, ConsIs DEF rest, m
<1>. QED  BY <1>4, <1>5, <1>6, <1>7

LEMMA PopFailsIsClose ==
    ASSUME IInv, PopFails
    PROVE  Delivery!Close
<1>1. /\ worker = "popping" /\ worker' = "exited" /\ queue = <<>>
      /\ UNCHANGED <<queue, message, pushed>>
  BY DEF PopFails, workerVars
<1>2. Waiting = <<>> /\ Waiting' = <<>>
  BY <1>1, WaitingIs DEF Waiting, Serving, Numbers
<1>3. Last' = Last /\ Serving /\ ~Serving'
  BY <1>1 DEF Last, Serving, Taken
<1>. QED  BY <1>2, <1>3 DEF Delivery!Close, Last

LEMMA WrittenIsDelivered ==
    ASSUME IInv, WriteMessageReturns
    PROVE  Delivery!Deliver
<1>1. worker = "writing" /\ worker' = "popping" /\ UNCHANGED <<queue, pushed>>
  BY DEF WriteMessageReturns
<1>2. Waiting = <<message.n>> \o Numbers
  BY <1>1, WaitingIs
<1>3. Waiting' = <<>> \o Numbers
  BY <1>1 DEF Waiting, Serving, Numbers
<1>4. Numbers \in Seq(Nat) /\ message.n = Taken /\ Taken \in Nat
  BY <1>1, NumbersAre DEF IInv, DeliveryInv
<1>5. Waiting # <<>> /\ Head(Waiting) = Taken /\ Tail(Waiting) = Waiting'
  <2>. HIDE DEF Waiting
  <2>. QED  BY <1>2, <1>3, <1>4
<1>6. Last' = Taken /\ Serving' = Serving
  BY <1>1, <1>4 DEF Last, Serving, Taken
<1>. QED  BY <1>5, <1>6 DEF Delivery!Deliver, Last

LEMMA LogInit == Init => Delivery!Init
<1> SUFFICES ASSUME Init
             PROVE  Delivery!Init
  OBVIOUS
<1>1. worker = "none" /\ queue = <<>> /\ pushed = 0
  BY DEF Init
<1>2. Numbers = <<>> /\ <<>> \o Numbers = <<>> /\ Taken = 0
  <2>1. Numbers \in Seq(Nat) /\ Len(Numbers) = 0
    BY <1>1, NumbersAre, TypeInit, DeliveryInit DEF IInv
  <2>2. Numbers = <<>>
    BY <2>1, EmptySeq
  <2>3. <<>> \o <<>> = <<>>
    OBVIOUS
  <2>4. Len(queue) = 0
    BY <1>1
  <2>5. pushed = 0 /\ pushed - Len(queue) = 0
    <3>1. pushed = 0
      BY <1>1
    <3>2. pushed - Len(queue) = 0 - 0
      BY <2>4, <3>1
    <3>3. 0 - 0 = 0
      OBVIOUS
    <3>. QED  BY <3>1, <3>2, <3>3
  <2>6. Taken = 0
    BY <2>5 DEF Taken
  <2>. HIDE DEF Numbers
  <2>. QED  BY <2>2, <2>3, <2>6
<1>3. Waiting = <<>> /\ Last = 0 /\ Serving
  BY <1>1, <1>2, WaitingIs DEF Serving, Last
<1>. QED  BY <1>3 DEF Delivery!Init, Last

LEMMA LogStep == IInv /\ [Next]_vars => [Delivery!Next]_<<Waiting, Last, Serving>>
<1> SUFFICES ASSUME IInv, [Next]_vars
             PROVE  Delivery!Next \/ UNCHANGED <<Waiting, Last, Serving>>
  OBVIOUS
<1>1. CASE Worker
  <2>1. CASE WorkerSetup \/ WorkerRegister
    BY <2>1, UnseenSteps DEF WorkerSetup, WorkerRegister, workerVars, Serving
  <2>2. CASE WriteMessage
    BY <2>2, UnseenSteps DEF WriteMessage
  <2>. QED  BY <1>1, <2>1, <2>2, PopIsUnseen, PopFailsIsClose, WrittenIsDelivered DEF Worker, Delivery!Next
<1>2. ASSUME NEW t \in Threads, Thread(t)
      PROVE  Delivery!Next \/ UNCHANGED <<Waiting, Last, Serving>>
  <2>1. CASE ReadChannelId(t) \/ StdcoutRead(t) \/ BeginLog(t)
    BY <2>1, UnseenSteps DEF ReadChannelId, StdcoutRead, BeginLog, EnsureWorkerStarted, workerVars, Serving
  <2>2. CASE NewSig(t) \/ SetChannels(t) \/ SetChannel(t) \/ SetFilterLevel(t) \/ SetChannelFilter(t)
    BY <2>2, UnseenSteps DEF NewSig, SetChannels, SetChannel, SetFilterLevel, SetChannelFilter, workerVars
  <2>3. CASE Stop(t) \/ Join(t)
    BY <2>3, UnseenSteps DEF Stop, Join, workerVars, Serving
  <2>4. CASE \/ WriteChannelId(t) \/ FillChannel(t) \/ RegisterChannel(t)
             \/ StdcoutWrite(t) \/ CloseChannel(t)
    BY <2>4, UnseenSteps DEF WriteChannelId, FillChannel, RegisterChannel, StdcoutWrite, CloseChannel, workerVars
  <2>. QED  BY <1>2, <2>1, <2>2, <2>3, <2>4, PushIsAccept DEF Thread, Continue, Delivery!Next
<1>3. CASE UNCHANGED vars
  BY <1>3, UnseenSteps DEF vars, workerVars
<1>. QED  BY <1>1, <1>2, <1>3 DEF Next

\* Whatever number of threads log, add channels and shut down: the queue and the
\* worker are an abstract log, to which each push() before the end is an Accept
\* and each message that is written a Deliver, in order, and which closes when
\* nothing waits.
THEOREM LogIsDelivery == Spec => Delivery!SafeSpec
<1>1. Init => Delivery!Init
  BY LogInit
<1>2. IInv /\ [Next]_vars => [Delivery!Next]_(Delivery!vars)
  BY LogStep DEF Delivery!vars, Last
<1>. QED  BY <1>1, <1>2, IInvHolds, PTL DEF Spec, Delivery!SafeSpec

-----------------------------------------------------------------------------
(* One thread that configures and logs.  With two, both can read the same   *)
(* last_channel_id, and the one opens a channel while a message is written  *)
(* that the other's has been chosen for.                                    *)

OneThread == \A t, u \in Threads : t = u

\* The channels that have been filled in.
Filled == {c \in Ids : c < last_channel_id /\ \A t \in Threads : pc[t] = "adding" => newid[t] # c}

Within(F) ==
    /\ \A w \in Threads \cup {"worker"} : seen[w].info \subseteq F /\ seen[w].default \subseteq F
    /\ channelinfo \subseteq F /\ default_channels \subseteq F
    /\ \A t \in Threads : sig[t] \subseteq F /\ held[t].ch \subseteq F
    /\ \A i \in 1..Len(queue) : queue[i].ch \subseteq F
    /\ message.ch \subseteq F

OwnIds == \A t \in Threads : /\ pc[t] = "counting" => newid[t] = last_channel_id
                             /\ pc[t] = "adding" => 0 < newid[t] /\ newid[t] < last_channel_id
                             /\ pc[t] = "registering" => newid[t] \in Filled

RoutesAreFilled == OwnIds /\ Within(Filled)

\* Where write_message() has been, a Fatal message is shown.
FatalIsShown ==
    worker = "writing" /\ message.level = Fatal =>
        \A c \in message.ch : c < next /\ (c = 0 \/ channels[c].valid) =>
            out[c] # <<>> /\ out[c][Len(out[c])] = message.n

LEMMA RoutesInit == Init => RoutesAreFilled /\ FatalIsShown
BY DEF Init, RoutesAreFilled, OwnIds, Within, FatalIsShown, NoBits, NoMessage

\* What is filled stays so.
LEMMA FilledGrows ==
    ASSUME TypeInv, OneThread, RoutesAreFilled, [Next]_vars
    PROVE  Filled \subseteq Filled'
<1>1. CASE UNCHANGED <<last_channel_id, pc, newid>>
  BY <1>1 DEF Filled
<1>2. ASSUME NEW t \in Threads, WriteChannelId(t)
      PROVE  Filled \subseteq Filled'
  <2>1. pc[t] = "counting" /\ newid[t] = last_channel_id /\ last_channel_id' = newid[t] + 1
    BY <1>2 DEF WriteChannelId, RoutesAreFilled, OwnIds
  <2>2. newid'[t] = newid[t] \/ pc'[t] # "adding"
    BY <1>2 DEF WriteChannelId, Goto, TypeInv, TypeOK
  <2>3. last_channel_id \in Nat /\ Ids \subseteq Nat
    BY DEF TypeInv, TypeOK, Ids
  <2>4. ASSUME NEW c \in Filled, NEW u \in Threads, pc'[u] = "adding"
        PROVE  newid'[u] # c
    <3>1. u = t /\ newid'[t] = last_channel_id
      BY <2>1, <2>2, <2>4 DEF OneThread
    <3>2. c \in Nat /\ c < last_channel_id
      BY <2>3 DEF Filled
    <3>. QED  BY <2>3, <3>1, <3>2
  <2>5. \A c \in Filled : c \in Ids /\ c < last_channel_id'
    BY <2>1, <2>3 DEF Filled
  <2>. QED  BY <2>4, <2>5 DEF Filled
<1>3. ASSUME NEW t \in Threads, UNCHANGED last_channel_id,
             \A u \in Threads \ {t} : pc'[u] = pc[u] /\ newid'[u] = newid[u],
             pc'[t] # "adding"
      PROVE  Filled \subseteq Filled'
  BY <1>3 DEF Filled
<1>4. CASE Worker
  BY <1>1, <1>4 DEF Worker, WorkerSetup, WorkerRegister, Pop, PopFails, WriteMessage, WriteMessageReturns,
                    channelVars, threadVars
<1>5. ASSUME NEW t \in Threads, Thread(t)
      PROVE  Filled \subseteq Filled'
  <2>. pc \in [Threads -> {"idle", "counting", "adding", "registering", "stdcout", "logging", "joining", "closing"}]
       /\ newid \in [Threads -> 0..LOGT_MAX_CHANNEL]
    BY DEF TypeInv, TypeOK
  <2>1. CASE NewSig(t) \/ SetChannels(t) \/ SetChannel(t) \/ SetFilterLevel(t) \/ SetChannelFilter(t)
    BY <1>1, <2>1 DEF NewSig, SetChannels, SetChannel, SetFilterLevel, SetChannelFilter, channelVars, threadVars
  <2>2. CASE ReadChannelId(t) \/ StdcoutRead(t) \/ StdcoutWrite(t) \/ BeginLog(t) \/ Push(t)
    BY <1>3, <2>2 DEF ReadChannelId, StdcoutRead, StdcoutWrite, BeginLog, Push, Goto, channelVars
  <2>3. CASE FillChannel(t) \/ RegisterChannel(t)
    BY <1>3, <2>3 DEF FillChannel, RegisterChannel, Goto
  <2>4. CASE Stop(t) \/ Join(t) \/ CloseChannel(t)
    BY <1>3, <2>4 DEF Stop, Join, CloseChannel, Goto, channelVars
  <2>. QED  BY <1>2, <1>5, <2>1, <2>2, <2>3, <2>4 DEF Thread, Continue
<1>6. CASE UNCHANGED vars
  BY <1>1, <1>6 DEF vars, channelVars, threadVars
<1>. QED  BY <1>4, <1>5, <1>6 DEF Next

\* A thread's own id, when it is about to be registered.
LEMMA OwnIdsKept ==
    ASSUME TypeInv, OneThread, RoutesAreFilled, [Next]_vars
    PROVE  OwnIds'
<1>1. /\ pc \in [Threads -> {"idle", "counting", "adding", "registering", "stdcout", "logging", "joining", "closing"}]
      /\ newid \in [Threads -> 0..LOGT_MAX_CHANNEL]
  BY DEF TypeInv, TypeOK
<1>2. OwnIds /\ Filled \subseteq Filled'
  BY FilledGrows DEF RoutesAreFilled
<1>3. CASE UNCHANGED <<pc, newid, last_channel_id>>
  BY <1>2, <1>3 DEF OwnIds
<1>4. CASE Worker
  BY <1>3, <1>4 DEF Worker, WorkerSetup, WorkerRegister, Pop, PopFails, WriteMessage, WriteMessageReturns,
                    channelVars, threadVars
<1>5. ASSUME NEW t \in Threads, Thread(t)
      PROVE  OwnIds'
  <2>0. \A u \in Threads : u = t
    BY DEF OneThread
  <2>1. CASE NewSig(t) \/ SetChannels(t) \/ SetChannel(t) \/ SetFilterLevel(t) \/ SetChannelFilter(t)
    BY <1>3, <2>1 DEF NewSig, SetChannels, SetChannel, SetFilterLevel, SetChannelFilter, channelVars, threadVars
  <2>2. CASE \/ StdcoutRead(t) \/ StdcoutWrite(t) \/ BeginLog(t) \/ Push(t) \/ RegisterChannel(t)
             \/ Stop(t) \/ Join(t) \/ CloseChannel(t)
    <3>1. pc'[t] \notin {"counting", "adding", "registering"}
      BY <1>1, <2>2 DEF StdcoutRead, StdcoutWrite, BeginLog, Push, RegisterChannel, Stop, Join, CloseChannel, Goto
    <3>. QED  BY <2>0, <3>1 DEF OwnIds
  <2>3. CASE ReadChannelId(t)
    <3>1. pc'[t] = "counting" /\ newid'[t] = last_channel_id /\ last_channel_id' = last_channel_id
      BY <1>1, <2>3 DEF ReadChannelId, Goto, channelVars
    <3>. QED  BY <2>0, <3>1 DEF OwnIds
  <2>4. CASE FillChannel(t)
    <3>1. /\ pc[t] = "adding" /\ pc'[t] = "registering" /\ newid' = newid /\ last_channel_id' = last_channel_id
      BY <1>1, <2>4 DEF FillChannel, Goto
    <3>2. newid[t] \in Ids /\ newid[t] < last_channel_id
      BY <1>2, <3>1 DEF OwnIds, TypeInv, NewIds
    <3>3. newid'[t] \in Filled'
      BY <2>0, <3>1, <3>2 DEF Filled
    <3>. QED  BY <2>0, <3>1, <3>3 DEF OwnIds
  <2>5. CASE WriteChannelId(t)
    <3>1. /\ last_channel_id' = newid[t] + 1 /\ pc'[t] \in {"adding", "idle"}
          /\ pc'[t] = "adding" => newid'[t] = newid[t]
      BY <1>1, <2>5 DEF WriteChannelId, Goto
    <3>2. newid[t] \in Int /\ newid[t] < newid[t] + 1 /\ 0 < newid[t]
      BY <1>1, <1>2, <2>5, ConstantsAssumption DEF WriteChannelId, OwnIds, TypeInv, TypeOK
    <3>3. pc'[t] = "adding" => 0 < newid'[t] /\ newid'[t] < last_channel_id'
      BY <3>1, <3>2
    <3>. QED  BY <2>0, <3>1, <3>3 DEF OwnIds
  <2>. QED  BY <1>5, <2>1, <2>2, <2>3, <2>4, <2>5 DEF Thread, Continue
<1>6. CASE UNCHANGED vars
  BY <1>3, <1>6 DEF vars, channelVars, threadVars
<1>. QED  BY <1>4, <1>5, <1>6 DEF Next

LEMMA WorkerWithin ==
    ASSUME TypeInv, NEW F, Within(F), 0 \in F, Worker
    PROVE  Within(F)'
<1>1. queue \in Seq(Messages) /\ seen \in [Threads \cup {"worker"} -> Bits]
  BY DEF TypeInv, TypeOK
<1>2. /\ ReadBits.info \subseteq F /\ ReadBits.default \subseteq F
      /\ NoBits.info = {} /\ NoBits.default = {} /\ NoMessage.ch = {}
  BY DEF Within, ReadBits, NoBits, NoMessage
<1>3. CASE WorkerSetup
  BY <1>1, <1>2, <1>3 DEF Within, WorkerSetup, workerVars
<1>4. CASE WorkerRegister
  BY <1>1, <1>2, <1>4 DEF Within, WorkerRegister, workerVars
<1>5. CASE Pop
  <2>1. queue # <<>> /\ message' = Head(queue) /\ queue' = Tail(queue)
    BY <1>5 DEF Pop
  <2>2. /\ Len(queue) \in Nat \ {0} /\ Len(queue') = Len(queue) - 1 /\ message' = queue[1]
        /\ \A i \in 1..Len(queue') : queue'[i] = queue[i + 1]
    BY <1>1, <2>1, HeadTailProperties, EmptySeq, LenProperties
  <2>3. 1 \in 1..Len(queue) /\ \A i \in 1..Len(queue') : i + 1 \in 1..Len(queue)
    BY <2>2
  <2>4. message'.ch \subseteq F /\ \A i \in 1..Len(queue') : queue'[i].ch \subseteq F
    BY <2>2, <2>3 DEF Within
  <2>. QED  BY <1>5, <2>4 DEF Within, Pop, channelVars, threadVars
<1>6. CASE PopFails \/ WriteMessage
  BY <1>6 DEF Within, PopFails, WriteMessage, channelVars, threadVars, workerVars
<1>7. CASE WriteMessageReturns
  BY <1>2, <1>7 DEF Within, WriteMessageReturns, channelVars, threadVars
<1>. QED  BY <1>3, <1>4, <1>5, <1>6, <1>7 DEF Worker

LEMMA PushWithin ==
    ASSUME TypeInv, NEW F, Within(F), NEW t \in Threads, Push(t)
    PROVE  Within(F)'
<1>1. /\ queue' = Append(queue, [held[t] EXCEPT !.n = pushed + 1])
      /\ held' = [held EXCEPT ![t] = NoMessage]
      /\ UNCHANGED <<message, channelinfo, default_channels, seen, sig>>
  BY DEF Push, channelVars, workerVars
<1>2. /\ queue \in Seq(Messages) /\ held \in [Threads -> Messages] /\ held[t] \in Messages
      /\ pushed + 1 \in Nat
  BY DEF TypeInv, TypeOK
<1>3. [held[t] EXCEPT !.n = pushed + 1].ch = held[t].ch /\ [held[t] EXCEPT !.n = pushed + 1] \in Messages
  BY <1>2 DEF Messages
<1>4. /\ Len(queue') = Len(queue) + 1 /\ Len(queue) \in Nat
      /\ \A i \in 1..Len(queue) : queue'[i] = queue[i]
      /\ queue'[Len(queue) + 1] = [held[t] EXCEPT !.n = pushed + 1]
  BY <1>1, <1>2, <1>3, AppendProperties, LenProperties
<1>5. ASSUME NEW i \in 1..Len(queue')
      PROVE  queue'[i].ch \subseteq F
  <2>1. CASE i = Len(queue) + 1
    BY <1>3, <1>4, <2>1 DEF Within
  <2>2. CASE i # Len(queue) + 1
    <3>1. i \in 1..Len(queue)
      BY <1>4, <2>2
    <3>. QED  BY <1>4, <3>1 DEF Within
  <2>. QED  BY <2>1, <2>2
<1>6. \A u \in Threads : held'[u].ch \subseteq F
  BY <1>1, <1>2 DEF Within, NoMessage
<1>. QED  BY <1>1, <1>5, <1>6 DEF Within

LEMMA ThreadWithin ==
    ASSUME TypeInv, NEW F, Within(F), 0 \in F, NEW t \in Threads, Thread(t),
           pc[t] = "registering" => newid[t] \in F
    PROVE  Within(F)'
<1>1. /\ seen \in [Threads \cup {"worker"} -> Bits]
      /\ sig \in [Threads -> SUBSET Ids] /\ held \in [Threads -> Messages]
  BY DEF TypeInv, TypeOK
<1>2. /\ ReadBits.info \subseteq F /\ ReadBits.default \subseteq F
      /\ NoBits.info = {} /\ NoBits.default = {}
  BY DEF Within, ReadBits, NoBits
<1>3. CASE ReadChannelId(t) \/ SetFilterLevel(t) \/ SetChannelFilter(t) \/ Stop(t)
  BY <1>3 DEF Within, ReadChannelId, SetFilterLevel, SetChannelFilter, Stop, channelVars, workerVars, threadVars
<1>4. CASE WriteChannelId(t) \/ Join(t) \/ CloseChannel(t)
  BY <1>4 DEF Within, WriteChannelId, Join, CloseChannel, channelVars, workerVars
<1>5. CASE StdcoutRead(t) \/ FillChannel(t)
  BY <1>1, <1>2, <1>5 DEF Within, StdcoutRead, FillChannel, channelVars, workerVars
<1>6. CASE RegisterChannel(t) \/ StdcoutWrite(t)
  <2>1. /\ channelinfo' \subseteq F /\ default_channels' \subseteq F
        /\ seen' = [seen EXCEPT ![t] = NoBits] /\ UNCHANGED <<queue, message, sig, held>>
    BY <1>6 DEF Within, RegisterChannel, StdcoutWrite, WriteBits, workerVars
  <2>. QED  BY <1>1, <1>2, <2>1 DEF Within
<1>7. CASE NewSig(t) \/ SetChannels(t) \/ SetChannel(t)
  <2>1. UNCHANGED <<queue, message, channelinfo, default_channels, seen, held>>
    BY <1>7 DEF NewSig, SetChannels, SetChannel, channelVars, workerVars
  <2>2. \E ids : ids \subseteq F /\ sig' = [sig EXCEPT ![t] = ids]
    <3>1. CASE NewSig(t) \/ SetChannels(t)
      BY <3>1 DEF NewSig, SetChannels, Within
    <3>2. CASE SetChannel(t)
      <4>1. PICK c \in channelinfo, enable \in BOOLEAN :
               sig' = [sig EXCEPT ![t] = IF enable THEN sig[t] \cup {c} ELSE sig[t] \ {c}]
        BY <3>2 DEF SetChannel
      <4>. QED  BY <4>1 DEF Within
    <3>. QED  BY <1>7, <3>1, <3>2
  <2>. QED  BY <1>1, <2>1, <2>2 DEF Within
<1>8. CASE BeginLog(t)
  <2>1. PICK l \in Levels : held' = [held EXCEPT ![t] = [n |-> 0, level |-> l, ch |-> sig[t]]]
    BY <1>8 DEF BeginLog
  <2>2. UNCHANGED <<queue, message, channelinfo, default_channels, seen, sig>>
    BY <1>8 DEF BeginLog, channelVars, workerVars
  <2>. QED  BY <1>1, <2>1, <2>2 DEF Within
<1>. QED  BY <1>3, <1>4, <1>5, <1>6, <1>7, <1>8, PushWithin DEF Thread, Continue

LEMMA RoutesKept ==
    ASSUME TypeInv, OneThread, RoutesAreFilled, [Next]_vars
    PROVE  RoutesAreFilled'
<1>1. PICK F : F = Filled
  OBVIOUS
<1>2. Within(F) /\ F \subseteq Filled'
  BY <1>1, FilledGrows DEF RoutesAreFilled
<1>3. 0 \in F
  <2>1. 0 \in Ids /\ 0 < last_channel_id
    BY ConstantsAssumption DEF Ids, TypeInv, TypeOK
  <2>2. \A t \in Threads : pc[t] = "adding" => newid[t] # 0
    BY DEF RoutesAreFilled, OwnIds
  <2>. QED  BY <1>1, <2>1, <2>2 DEF Filled
<1>4. \A t \in Threads : pc[t] = "registering" => newid[t] \in F
  BY <1>1 DEF RoutesAreFilled, OwnIds
<1>5. Within(F)'
  <2>1. CASE UNCHANGED vars
    BY <1>2, <2>1 DEF Within, vars, channelVars, workerVars, threadVars
  <2>. QED  BY <1>2, <1>3, <1>4, <2>1, WorkerWithin, ThreadWithin DEF Next
<1>6. Within(Filled)'
  BY <1>2, <1>5 DEF Within
<1>. QED  BY <1>6, OwnIdsKept DEF RoutesAreFilled

\* No filter keeps a Fatal message from a channel.
LEMMA FatalIsWritten ==
    ASSUME TypeInv, NEW c \in message.ch, message.level = Fatal, c = 0 \/ channels[c].valid
    PROVE  Writes(c)
<1>1. message.ch \subseteq Ids
  BY DEF TypeInv, TypeOK, Messages
<1>2. channels[c] \in Channels /\ filter_level \in Quiet..Fatal
  BY <1>1 DEF TypeInv, TypeOK
<1>3. channels[c].filter \in (Quiet..Fatal) \cup {Inherit}
  BY <1>2 DEF Channels
<1>4. Filter(c) \in Quiet..Fatal
  BY <1>2, <1>3 DEF Filter
<1>. QED  BY <1>4 DEF Writes, Quiet, Fatal

\* Steps that write no message, and open only channels that no message has.
LEMMA ShownStays ==
    ASSUME FatalIsShown, UNCHANGED <<message, next, out>>, worker' = "writing" => worker = "writing",
           \A c \in message.ch : channels'[c].valid => channels[c].valid
    PROVE  FatalIsShown'
BY DEF FatalIsShown

LEMMA FilterKeepsValid ==
    ASSUME TypeInv, NEW c \in Ids, NEW l, channels' = [channels EXCEPT ![c].filter = l]
    PROVE  \A d \in Ids : channels'[d].valid = channels[d].valid
BY DEF TypeInv, TypeOK, Channels

LEMMA ShownByThread ==
    ASSUME TypeInv, RoutesAreFilled, FatalIsShown, NEW t \in Threads, Thread(t)
    PROVE  FatalIsShown'
<1>1. message.ch \subseteq Ids /\ message.ch \subseteq Filled
  BY DEF TypeInv, TypeOK, Messages, RoutesAreFilled, Within
<1>2. channels \in [Ids -> Channels]
  BY DEF TypeInv, TypeOK
<1>3. CASE ReadChannelId(t) \/ StdcoutRead(t) \/ BeginLog(t)
  BY <1>3, ShownStays DEF ReadChannelId, StdcoutRead, BeginLog, EnsureWorkerStarted, channelVars, workerVars
<1>4. CASE NewSig(t) \/ SetChannels(t) \/ SetChannel(t) \/ SetFilterLevel(t) \/ Stop(t) \/ Push(t)
  BY <1>4, ShownStays DEF NewSig, SetChannels, SetChannel, SetFilterLevel, Stop, Push, channelVars, workerVars
<1>5. CASE WriteChannelId(t) \/ RegisterChannel(t) \/ StdcoutWrite(t) \/ Join(t)
  BY <1>5, ShownStays DEF WriteChannelId, RegisterChannel, StdcoutWrite, Join, channelVars, workerVars
<1>6. CASE SetChannelFilter(t)
  <2>1. PICK l \in Filters \cup {Inherit}, c \in Ids \ {0} : channels' = [channels EXCEPT ![c].filter = l]
    BY <1>6 DEF SetChannelFilter
  <2>2. \A d \in Ids : channels'[d].valid = channels[d].valid
    BY <2>1, FilterKeepsValid
  <2>. QED  BY <1>1, <1>6, <2>2, ShownStays DEF SetChannelFilter, workerVars
<1>7. CASE FillChannel(t)
  <2>1. PICK opened \in BOOLEAN : channels' = [channels EXCEPT ![newid[t]].valid = opened]
    BY <1>7 DEF FillChannel
  <2>2. newid[t] \notin message.ch
    BY <1>1, <1>7 DEF FillChannel, Filled
  <2>3. \A c \in message.ch : channels'[c] = channels[c]
    BY <1>1, <1>2, <2>1, <2>2
  <2>. QED  BY <1>7, <2>3, ShownStays DEF FillChannel, workerVars
<1>8. CASE CloseChannel(t)
  <2>1. channels' = [channels EXCEPT ![newid[t]].valid = FALSE]
    BY <1>8 DEF CloseChannel
  <2>2. \A c \in message.ch : channels'[c].valid => channels[c].valid
    BY <1>1, <1>2, <2>1 DEF Channels
  <2>. QED  BY <1>8, <2>2, ShownStays DEF CloseChannel, workerVars
<1>. QED  BY <1>3, <1>4, <1>5, <1>6, <1>7, <1>8 DEF Thread, Continue

LEMMA ShownByWorker ==
    ASSUME TypeInv, FatalIsShown, Worker
    PROVE  FatalIsShown'
<1>1. /\ message.ch \subseteq Ids /\ Ids \subseteq Nat /\ next \in Nat
      /\ out \in [Ids -> Seq(Nat)] /\ message.n \in Nat
  BY ConstantsAssumption DEF TypeInv, TypeOK, Messages, Ids
<1>2. CASE WorkerSetup \/ WorkerRegister \/ PopFails \/ WriteMessageReturns
  BY <1>2 DEF FatalIsShown, WorkerSetup, WorkerRegister, PopFails, WriteMessageReturns
<1>3. CASE Pop
  <2>1. next' = 0 /\ message'.ch \subseteq Nat
    <3>1. queue \in Seq(Messages) /\ queue # <<>> /\ message' = Head(queue)
      BY <1>3 DEF Pop, TypeInv, TypeOK
    <3>2. message' \in Messages
      BY <3>1, HeadTailProperties
    <3>. QED  BY <1>1, <1>3, <3>2 DEF Pop, Messages
  <2>. QED  BY <2>1 DEF FatalIsShown
<1>4. CASE WriteMessage
  <2>1. /\ worker = "writing" /\ next' = next + 1 /\ UNCHANGED <<message, channels>>
        /\ out' = IF Writes(next) THEN [out EXCEPT ![next] = Append(out[next], message.n)] ELSE out
    BY <1>4 DEF WriteMessage, channelVars
  <2>2. ASSUME message.level = Fatal, NEW c \in message.ch, c < next', c = 0 \/ channels[c].valid
        PROVE  out'[c] # <<>> /\ out'[c][Len(out'[c])] = message.n
    <3>1. CASE c = next
      <4>1. out'[c] = Append(out[c], message.n)
        BY <1>1, <2>1, <2>2, <3>1, FatalIsWritten
      <4>. QED  BY <1>1, <4>1, AppendProperties
    <3>2. CASE c # next
      <4>1. c < next /\ out'[c] = out[c]
        BY <1>1, <2>1, <2>2, <3>2
      <4>. QED  BY <2>1, <2>2, <4>1 DEF FatalIsShown
    <3>. QED  BY <3>1, <3>2
  <2>. QED  BY <2>1, <2>2 DEF FatalIsShown
<1>. QED  BY <1>2, <1>3, <1>4 DEF Worker

\* One thread configures the log and logs, with any number of channels that may
\* fail to open, any levels and filters and any number of messages: write_message()
\* returns from a Fatal message only when every channel that is open and that it
\* is routed to has it as its last.
THEOREM FatalIsNeverFiltered ==
    ASSUME OneThread
    PROVE  Spec => FatalReachesAll
<1>. DEFINE Inv == TypeInv /\ RoutesAreFilled /\ FatalIsShown
            Shows == WriteMessageReturns /\ message.level = Fatal =>
                        \A c \in message.ch : c = 0 \/ channels[c].valid =>
                            out[c] # <<>> /\ out[c][Len(out[c])] = message.n
<1>1. Init => Inv
  BY TypeInit, RoutesInit
<1>2. Inv /\ [Next]_vars => Inv'
  <2> SUFFICES ASSUME Inv, [Next]_vars
               PROVE  FatalIsShown'
    BY TypeStep, RoutesKept
  <2>1. CASE UNCHANGED vars
    BY <2>1 DEF FatalIsShown, vars, workerVars, channelVars
  <2>. QED  BY <2>1, ShownByThread, ShownByWorker DEF Next
<1>3. Inv => Shows
  <2> SUFFICES ASSUME Inv, worker = "writing", next = LOGT_MAX_CHANNEL, message.level = Fatal,
                      NEW c \in message.ch, c = 0 \/ channels[c].valid
               PROVE  out[c] # <<>> /\ out[c][Len(out[c])] = message.n
    BY DEF WriteMessageReturns
  <2>1. message.ch \subseteq Ids
    BY DEF TypeInv, TypeOK, Messages
  <2>2. c < next
    BY <2>1, ConstantsAssumption DEF Ids
  <2>. QED  BY <2>2 DEF FatalIsShown
<1>4. Inv /\ [Next]_vars => [Shows]_vars
  BY <1>3
<1>5. Spec => [][Shows]_vars
  BY <1>1, <1>2, <1>4, PTL DEF Spec
<1>. QED  BY <1>5 DEF FatalReachesAll
=============================================================================
