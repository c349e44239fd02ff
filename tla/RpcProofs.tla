------------------------------ MODULE RpcProofs ------------------------------
(***************************************************************************)
(* Safety of RpcConnection for any finite number of calls, any number of   *)
(* events and any buffers: a caller that gets an answer gets the daemon's  *)
(* decision on its own call, made once (RpcConnection implements           *)
(* RpcService), and the newest event is never the one that is lost.        *)
(***************************************************************************)
EXTENDS RpcConnection, SequenceTheorems, FiniteSetTheorems, TLAPS

Registered == {c \in Calls : caller[c].id # 0}

\* Ids are counted on, so no two calls share one.
IdsExact ==
  /\ Cardinality(Registered) = nextID
  /\ \A c \in Calls : caller[c].id <= nextID
  /\ \A c, d \in Registered : caller[c].id = caller[d].id => c = d
  /\ \A c \in Calls : /\ caller[c].pc = "idle" => caller[c].id = 0
                      /\ caller[c].pc \in {"write", "waiting"} => caller[c].id # 0

PendingExact == \A p \in pending : caller[p[2]].id = p[1]

\* A request is in one place at a time: about to be written, under way, with a
\* handler, or behind it.
RequestOnce ==
  /\ \A j, k \in 1..Len(up) : up[j] = up[k] => j = k
  /\ \A k \in 1..Len(up) : handler[up[k]] = "none"
  /\ \A c \in Calls : caller[c].pc = "write" =>
       handler[caller[c].id] = "none" /\ \A k \in 1..Len(up) : up[k] # caller[c].id

Decided(i, what) == \E c \in Registered : caller[c].id = i /\ effect[c] = what

\* Until its handler has decided, a call has no effect; then it has that one.
EffectExact ==
  /\ \A c \in Calls : caller[c].pc \in {"idle", "write"} => effect[c] = "none"
  /\ \A k \in 1..Len(up) : Decided(up[k], "none")
  /\ \A i \in Ids : /\ handler[i] = "running" => Decided(i, "none")
                    /\ handler[i] \in Decisions => Decided(i, handler[i])

\* A reply carries the effect of the call it is for, wherever it is.
RepliesTrue ==
  /\ \A k \in 1..Len(down) : ~IsEvent(down[k]) => Decided(down[k].id, down[k].what)
  /\ \A c \in reader.to : reader.reply # NoReply /\ effect[c] = reader.reply.what
  /\ \A c \in Calls : caller[c].box # NoReply => effect[c] = caller[c].box.what

CallInv == TypeOK /\ IdsExact /\ PendingExact /\ RequestOnce /\ EffectExact /\ RepliesTrue

-----------------------------------------------------------------------------
NoEventIn(q) == \A k \in 1..Len(q) : ~IsEvent(q[k])

\* The last event frame of q, where there is one, carries n.
LastEventIs(q, n) ==
  \A k \in 1..Len(q) :
    IsEvent(q[k]) /\ (\A j \in 1..Len(q) : k < j => ~IsEvent(q[j])) => q[k].what = n

\* While nothing was dropped, the newest event is the last of the first queue, from
\* the engine's end, that holds any.
NewestIsLast ==
  /\ stream # <<>> => stream[Len(stream)] = count
  /\ count > 0 /\ ~overrun /\ ~stopped /\ ~cancelled /\ stream = <<>> =>
       /\ LastEventIs(down, count)
       /\ NoEventIn(down) => IF events # <<>> THEN events[Len(events)] = count ELSE seen = count

EventInv == TypeOK /\ NewestIsLast

-----------------------------------------------------------------------------
(* Sequences and counting. *)

LEMMA TailStep ==
  ASSUME NEW S, NEW q \in Seq(S), q # <<>>
  PROVE  /\ Head(q) \in S /\ Head(q) = q[1]
         /\ Tail(q) \in Seq(S)
         /\ Len(q) \in Nat /\ Len(q) > 0 /\ Len(Tail(q)) = Len(q) - 1
         /\ \A k \in 1..Len(Tail(q)) : Tail(q)[k] = q[k + 1]
BY HeadTailProperties, LenProperties, EmptySeq

LEMMA AppendStep ==
  ASSUME NEW S, NEW q \in Seq(S), NEW x \in S
  PROVE  /\ Append(q, x) \in Seq(S)
         /\ Len(q) \in Nat /\ Len(Append(q, x)) = Len(q) + 1
         /\ \A k \in 1..Len(q) : Append(q, x)[k] = q[k]
         /\ Append(q, x)[Len(q) + 1] = x
BY AppendProperties, LenProperties

LEMMA LastKept ==
  ASSUME NEW S, NEW q \in Seq(S), q # <<>>
  PROVE  /\ Tail(q) # <<>> => Tail(q)[Len(Tail(q))] = q[Len(q)]
         /\ Tail(q) = <<>> => Head(q) = q[Len(q)]
<1> DEFINE r == Tail(q)
<1>1. r \in Seq(S) /\ Len(q) \in Nat /\ Len(r) = Len(q) - 1 /\ Head(q) = q[1]
      /\ \A k \in 1..Len(r) : r[k] = q[k + 1]
  BY TailStep
<1> HIDE DEF r
<1>2. ASSUME r # <<>> PROVE r[Len(r)] = q[Len(q)]
  <2>1. Len(r) \in Nat /\ Len(r) # 0 BY <1>1, <1>2, LenProperties, EmptySeq
  <2>2. Len(r) \in 1..Len(r) BY <2>1
  <2> QED BY <1>1, <2>2
<1>3. ASSUME r = <<>> PROVE Head(q) = q[Len(q)]
  <2>1. Len(r) = 0 BY <1>3
  <2>2. Len(q) = 1 BY <1>1, <2>1
  <2> QED BY <1>1, <2>2
<1> QED BY <1>2, <1>3 DEF r

LEMMA CallsCounted == Cardinality(Calls) \in Nat
BY RpcAssumption, FS_CardinalityType

LEMMA CallIdsAreNumbers == ASSUME TypeOK PROVE \A c \in Calls : caller[c].id \in Nat
BY CallsCounted DEF TypeOK, Callers, Ids

\* There is an id for every call that has none yet.
LEMMA RoomForAnId ==
  ASSUME TypeOK, IdsExact, NEW c \in Calls, caller[c].id = 0
  PROVE  nextID + 1 \in Ids
<1>1. Registered \subseteq Calls /\ IsFiniteSet(Calls) BY RpcAssumption DEF Registered
<1>2. Registered \subseteq Calls \ {c} BY DEF Registered
<1>3. IsFiniteSet(Calls \ {c}) /\ Cardinality(Calls \ {c}) = Cardinality(Calls) - 1
  BY <1>1, FS_RemoveElement
<1>4. Cardinality(Registered) <= Cardinality(Calls \ {c}) BY <1>2, <1>3, FS_Subset
<1>5. nextID \in Nat BY CallsCounted DEF TypeOK, Ids
<1> QED BY <1>3, <1>4, <1>5, CallsCounted DEF IdsExact, Ids

-----------------------------------------------------------------------------
(* Types. *)

LEMMA GotoTypes ==
  ASSUME TypeOK, NEW c \in Calls, NEW pc \in {"idle", "write", "waiting"} \union Returned, Goto(c, pc)
  PROVE  caller' \in Callers
<1> DEFINE Fields == [pc : {"idle", "write", "waiting"} \union Returned, id : Ids \union {0},
                      box : Replies \union {NoReply}]
<1>1. caller \in [Calls -> Fields] BY DEF TypeOK, Callers
<1>2. [caller[c] EXCEPT !.pc = pc] \in Fields BY <1>1
<1>3. caller' = [caller EXCEPT ![c] = [caller[c] EXCEPT !.pc = pc]] BY DEF Goto
<1> HIDE DEF Fields
<1>4. caller' \in [Calls -> Fields] BY <1>1, <1>2, <1>3
<1> QED BY <1>4 DEF Callers, Fields

LEMMA CallTypes ==
  ASSUME TypeOK, IdsExact, NEW c \in Calls, CallStopped(c) \/ Register(c) \/ CallStep(c)
  PROVE  TypeOK'
<1> USE DEF TypeOK
<1>1. CASE CallStopped(c)
  <2>1. caller' \in Callers BY <1>1, GotoTypes DEF CallStopped, Returned
  <2> QED BY <1>1, <2>1 DEF CallStopped, serverVars
<1>2. CASE Register(c)
  <2>1. caller[c].id = 0 BY <1>2 DEF Register, IdsExact
  <2>2. nextID' \in Ids BY <1>2, <2>1, RoomForAnId DEF Register
  <2>3. pending' \subseteq Ids \X Calls BY <1>2, <2>2 DEF Register
  <2>4. caller' = [caller EXCEPT ![c] = [pc |-> "write", id |-> nextID', box |-> NoReply]]
    BY <1>2 DEF Register
  <2>5. caller' \in Callers BY <2>2, <2>4 DEF Callers
  <2> QED BY <1>2, <2>2, <2>3, <2>5 DEF Register, serverVars
<1>3. CASE WriteRequest(c)
  <2>1. caller[c].id \in Ids BY <1>3 DEF WriteRequest, IdsExact, Callers
  <2>2. Append(up, caller[c].id) \in Seq(Ids) BY <2>1, AppendStep
  <2>3. up' \in Seq(Ids) /\ pending' \subseteq Ids \X Calls
    BY <1>3, <2>2 DEF WriteRequest, Cleanup
  <2>4. caller' \in Callers BY <1>3, GotoTypes DEF WriteRequest, Returned
  <2> QED BY <1>3, <2>3, <2>4 DEF WriteRequest, serverVars
<1>4. CASE ContextEnds(c)
  <2>1. pending' \subseteq pending BY <1>4 DEF ContextEnds, Cleanup
  <2>2. caller' \in Callers BY <1>4, GotoTypes DEF ContextEnds, Returned
  <2> QED BY <1>4, <2>1, <2>2 DEF ContextEnds, serverVars
<1>5. CASE ConnectionDropped(c)
  <2>1. caller' \in Callers BY <1>5, GotoTypes DEF ConnectionDropped, Returned
  <2> QED BY <1>5, <2>1 DEF ConnectionDropped, serverVars
<1>6. CASE ReplyArrives(c)
  <2>1. Goto(c, "ok") \/ Goto(c, "refused") BY <1>6 DEF ReplyArrives
  <2>2. caller' \in Callers BY <2>1, GotoTypes DEF Returned
  <2> QED BY <1>6, <2>2 DEF ReplyArrives, serverVars
<1> QED BY <1>1, <1>2, <1>3, <1>4, <1>5, <1>6 DEF CallStep

LEMMA ClientTypes ==
  ASSUME TypeOK, Close \/ Wake \/ ReaderStep \/ Consume
  PROVE  TypeOK'
<1> USE DEF TypeOK, serverVars
<1>1. CASE Close BY <1>1 DEF Close
<1>2. CASE Wake BY <1>2 DEF Wake
<1>3. CASE ReadEvent
  <2>1. Head(down) \in Frames /\ Tail(down) \in Seq(Frames) BY <1>3, TailStep DEF ReadEvent
  <2>2. Head(down).what \in Nat BY <1>3, <2>1, CallsCounted DEF ReadEvent, IsEvent, Frames, Replies, Ids
  <2>3. Len(events) < EventBuffer =>
          Append(events, Head(down).what) \in Seq(Nat) /\ Len(Append(events, Head(down).what)) <= EventBuffer
    BY <2>2, AppendStep, RpcAssumption
  <2> QED BY <1>3, <2>1, <2>3 DEF ReadEvent
<1>4. CASE ReadReply
  <2>1. Head(down) \in Frames /\ Tail(down) \in Seq(Frames) BY <1>4, TailStep DEF ReadReply
  <2>2. Head(down) \in Replies BY <1>4, <2>1 DEF ReadReply, IsEvent, Frames
  <2> QED BY <1>4, <2>1, <2>2 DEF ReadReply
<1>5. CASE Deliver
  <2> DEFINE Fields == [pc : {"idle", "write", "waiting"} \union Returned, id : Ids \union {0},
                        box : Replies \union {NoReply}]
             Given(c) == IF c \in reader.to THEN [caller[c] EXCEPT !.box = reader.reply] ELSE caller[c]
  <2>1. \A c \in Calls : Given(c) \in Fields BY DEF Callers
  <2>2. caller' = [c \in Calls |-> Given(c)] BY <1>5 DEF Deliver
  <2> HIDE DEF Fields, Given
  <2>3. caller' \in [Calls -> Fields] BY <2>1, <2>2
  <2>4. caller' \in Callers BY <2>3 DEF Callers, Fields
  <2> QED BY <1>5, <2>4 DEF Deliver
<1>6. CASE ReadFails BY <1>6 DEF ReadFails
<1>7. CASE Consume
  <2>1. Head(events) \in Nat /\ Tail(events) \in Seq(Nat) /\ Len(Tail(events)) <= EventBuffer
    BY <1>7, TailStep, RpcAssumption DEF Consume
  <2> QED BY <1>7, <2>1 DEF Consume
<1> QED BY <1>1, <1>2, <1>3, <1>4, <1>5, <1>6, <1>7 DEF ReaderStep

LEMMA ServerTypes ==
  ASSUME TypeOK, \/ ServerStep \/ \E i \in Ids : Handle(i) \/ Reply(i)
                 \/ Publish \/ Forward \/ ForwarderEnds \/ DaemonStops \/ DaemonExits
  PROVE  TypeOK'
<1> USE DEF TypeOK, clientVars
<1>1. CASE ReadRequest
  <2>1. Head(up) \in Ids /\ Tail(up) \in Seq(Ids) BY <1>1, TailStep DEF ReadRequest
  <2> QED BY <1>1, <2>1 DEF ReadRequest
<1>2. CASE ServerSeesClose BY <1>2 DEF ServerSeesClose
<1>3. ASSUME NEW i \in Ids, Handle(i) PROVE TypeOK'
  BY <1>3 DEF Handle, Decisions
<1>4. ASSUME NEW i \in Ids, Reply(i) PROVE TypeOK'
  <2>1. [id |-> i, what |-> handler[i]] \in Frames BY <1>4 DEF Reply, Frames, Replies, Decisions
  <2>2. Append(down, [id |-> i, what |-> handler[i]]) \in Seq(Frames) BY <2>1, AppendStep
  <2> QED BY <1>4, <2>2 DEF Reply
<1>5. CASE Publish
  <2>1. count' \in Nat BY <1>5 DEF Publish
  <2> DEFINE kept == IF Len(stream) < SubBuffer THEN stream ELSE Tail(stream)
  <2>2. kept \in Seq(Nat) /\ Len(kept) < SubBuffer
    BY TailStep, RpcAssumption, LenProperties, EmptySeq
  <2>3. Append(kept, count') \in Seq(Nat) /\ Len(Append(kept, count')) <= SubBuffer
    BY <2>1, <2>2, AppendStep, RpcAssumption
  <2> QED BY <1>5, <2>1, <2>3 DEF Publish
<1>6. CASE Forward
  <2>1. Head(stream) \in Nat /\ Tail(stream) \in Seq(Nat) /\ Len(Tail(stream)) <= SubBuffer
    BY <1>6, TailStep, RpcAssumption DEF Forward
  <2>2. [id |-> 0, what |-> Head(stream)] \in Frames BY <2>1 DEF Frames
  <2>3. Append(down, [id |-> 0, what |-> Head(stream)]) \in Seq(Frames) BY <2>2, AppendStep
  <2> QED BY <1>6, <2>1, <2>3 DEF Forward
<1>7. CASE ForwarderEnds BY <1>7 DEF ForwarderEnds
<1>8. CASE DaemonStops BY <1>8 DEF DaemonStops
<1>9. CASE DaemonExits BY <1>9 DEF DaemonExits
<1> QED BY <1>1, <1>2, <1>3, <1>4, <1>5, <1>6, <1>7, <1>8, <1>9 DEF ServerStep

-----------------------------------------------------------------------------
(* The newest event. *)

\* A reply put behind them leaves the events of a queue as they are.
LEMMA ReplyBehind ==
  ASSUME NEW q \in Seq(Frames), NEW f \in Frames, ~IsEvent(f), NEW n
  PROVE  /\ NoEventIn(Append(q, f)) <=> NoEventIn(q)
         /\ LastEventIs(q, n) => LastEventIs(Append(q, f), n)
<1> DEFINE r == Append(q, f)
<1>1. /\ Len(q) \in Nat /\ Len(r) = Len(q) + 1 /\ r[Len(q) + 1] = f
      /\ \A k \in 1..Len(q) : r[k] = q[k]
  BY AppendStep
<1> HIDE DEF r
<1>2. \A k \in 1..Len(r) : k \in 1..Len(q) \/ k = Len(q) + 1 BY <1>1
<1>3. 1..Len(q) \subseteq 1..Len(r) BY <1>1
<1>4. NoEventIn(r) <=> NoEventIn(q) BY <1>1, <1>2, <1>3 DEF NoEventIn
<1>5. LastEventIs(q, n) => LastEventIs(r, n) BY <1>1, <1>2, <1>3 DEF LastEventIs
<1> QED BY <1>4, <1>5 DEF r

\* An event put behind them is the last.
LEMMA EventBehind ==
  ASSUME NEW q \in Seq(Frames), NEW f \in Frames, IsEvent(f)
  PROVE  ~NoEventIn(Append(q, f)) /\ LastEventIs(Append(q, f), f.what)
<1> DEFINE r == Append(q, f)
<1>1. Len(q) \in Nat /\ Len(r) = Len(q) + 1 /\ r[Len(q) + 1] = f
  BY AppendStep
<1> HIDE DEF r
<1>2. Len(q) + 1 \in 1..Len(r) BY <1>1
<1>3. ~NoEventIn(r) BY <1>1, <1>2 DEF NoEventIn
<1>4. \A k \in 1..Len(r) : k < Len(q) + 1 \/ k = Len(q) + 1 BY <1>1
<1>5. LastEventIs(r, f.what) BY <1>1, <1>2, <1>4 DEF LastEventIs
<1> QED BY <1>3, <1>5 DEF r

\* Taking the head leaves the last event, unless the head was the only one.
LEMMA HeadTaken ==
  ASSUME NEW q \in Seq(Frames), q # <<>>, NEW n, LastEventIs(q, n)
  PROVE  /\ LastEventIs(Tail(q), n)
         /\ NoEventIn(Tail(q)) => IF IsEvent(Head(q)) THEN Head(q).what = n ELSE NoEventIn(q)
<1> DEFINE r == Tail(q)
<1>1. /\ Len(q) \in Nat /\ Len(q) > 0 /\ Len(r) = Len(q) - 1 /\ Head(q) = q[1]
      /\ \A k \in 1..Len(r) : r[k] = q[k + 1]
  BY TailStep
<1> HIDE DEF r
<1>2. \A k \in 1..Len(q) : k = 1 \/ (k - 1 \in 1..Len(r) /\ q[k] = r[k - 1])
  BY <1>1
<1>3. LastEventIs(r, n)
  <2> SUFFICES ASSUME NEW k \in 1..Len(r), IsEvent(r[k]), \A j \in 1..Len(r) : k < j => ~IsEvent(r[j])
               PROVE  r[k].what = n
    BY DEF LastEventIs
  <2>1. k + 1 \in 1..Len(q) /\ q[k + 1] = r[k] BY <1>1
  <2>2. \A j \in 1..Len(q) : k + 1 < j => ~IsEvent(q[j]) BY <1>1, <1>2
  <2> QED BY <2>1, <2>2 DEF LastEventIs
<1>4. ASSUME NoEventIn(r) PROVE \A j \in 1..Len(q) : 1 < j => ~IsEvent(q[j])
  BY <1>1, <1>2, <1>4 DEF NoEventIn
<1>5. ASSUME NoEventIn(r), IsEvent(Head(q)) PROVE Head(q).what = n
  BY <1>1, <1>4, <1>5 DEF LastEventIs
<1>6. ASSUME NoEventIn(r), ~IsEvent(Head(q)) PROVE NoEventIn(q)
  BY <1>1, <1>4, <1>6 DEF NoEventIn
<1> QED BY <1>3, <1>5, <1>6 DEF r

\* Steps that touch no queue of events.
eventVars == <<events, seen, down, stream, count>>

LEMMA QuietEvents ==
  ASSUME NewestIsLast, UNCHANGED eventVars, overrun => overrun', stopped => stopped', cancelled => cancelled'
  PROVE  NewestIsLast'
BY DEF NewestIsLast, eventVars, LastEventIs, NoEventIn, IsEvent

LEMMA EventsKeep ==
  ASSUME TypeOK, NewestIsLast, Next
  PROVE  NewestIsLast'
<1> USE DEF serverVars, clientVars
<1>1. ASSUME NEW c \in Calls, CallStopped(c) \/ Register(c) \/ CallStep(c) PROVE NewestIsLast'
  BY <1>1, QuietEvents DEF CallStopped, Register, CallStep, WriteRequest, ContextEnds,
     ConnectionDropped, ReplyArrives, eventVars
<1>2. CASE Close \/ Wake \/ Deliver \/ ReadFails
  BY <1>2, QuietEvents DEF Close, Wake, Deliver, ReadFails, eventVars
<1>3. CASE ReadRequest \/ ServerSeesClose \/ ForwarderEnds \/ DaemonStops \/ DaemonExits
  BY <1>3, QuietEvents DEF ReadRequest, ServerSeesClose, ForwarderEnds, DaemonStops, DaemonExits, eventVars
<1>4. ASSUME NEW i \in Ids, Handle(i) PROVE NewestIsLast'
  BY <1>4, QuietEvents DEF Handle, eventVars
<1>5. ASSUME NEW i \in Ids, Reply(i) PROVE NewestIsLast'
  <2> DEFINE f == [id |-> i, what |-> handler[i]]
  <2>1. f \in Frames BY <1>5 DEF Reply, Frames, Replies, Decisions
  <2>2. ~IsEvent(f) BY CallsCounted DEF IsEvent, Ids
  <2>3. down' = down \/ down' = Append(down, f) BY <1>5 DEF Reply
  <2> HIDE DEF f
  <2>4. /\ NoEventIn(down') => NoEventIn(down)
        /\ LastEventIs(down, count) => LastEventIs(down', count)
    BY <2>1, <2>2, <2>3, ReplyBehind DEF TypeOK
  <2> QED BY <1>5, <2>4 DEF Reply, NewestIsLast
<1>6. CASE ReadReply
  <2>1. down \in Seq(Frames) /\ down # <<>> /\ down' = Tail(down) /\ ~IsEvent(Head(down))
    BY <1>6 DEF ReadReply, TypeOK
  <2>2. LastEventIs(down, count) => LastEventIs(down', count) /\ (NoEventIn(down') => NoEventIn(down))
    BY <2>1, HeadTaken
  <2> QED BY <1>6, <2>2 DEF ReadReply, NewestIsLast
<1>7. CASE ReadEvent
  <2>1. down \in Seq(Frames) /\ down # <<>> /\ down' = Tail(down) /\ IsEvent(Head(down))
    BY <1>7 DEF ReadEvent, TypeOK
  <2>2. LastEventIs(down, count) =>
          LastEventIs(down', count) /\ (NoEventIn(down') => Head(down).what = count)
    BY <2>1, HeadTaken
  <2>3. \/ overrun'
        \/ events' # <<>> /\ events'[Len(events')] = Head(down).what /\ overrun' = overrun
    <3>1. Head(down) \in Frames BY <2>1, TailStep
    <3>2. Head(down).what \in Nat BY <2>1, <3>1, CallsCounted DEF IsEvent, Frames, Replies, Ids
    <3> QED BY <1>7, <3>2, AppendProperties DEF ReadEvent, TypeOK
  <2>4. UNCHANGED <<stopped, cancelled, stream, count>> BY <1>7 DEF ReadEvent
  <2>5. CASE overrun'
    BY <2>4, <2>5 DEF NewestIsLast
  <2>6. CASE events' # <<>> /\ events'[Len(events')] = Head(down).what /\ overrun' = overrun
    BY <2>2, <2>4, <2>6 DEF NewestIsLast
  <2> QED BY <2>3, <2>5, <2>6
<1>8. CASE Consume
  <2>1. /\ events # <<>> /\ seen' = Head(events) /\ events' = Tail(events)
        /\ UNCHANGED <<overrun, stopped, cancelled, stream, down, count>>
    BY <1>8 DEF Consume
  <2>2. /\ events' # <<>> => events'[Len(events')] = events[Len(events)]
        /\ events' = <<>> => seen' = events[Len(events)]
    BY <2>1, LastKept DEF TypeOK
  <2> QED BY <2>1, <2>2 DEF NewestIsLast, LastEventIs, NoEventIn
<1>9. CASE Publish
  <2> DEFINE kept == IF Len(stream) < SubBuffer THEN stream ELSE Tail(stream)
  <2>1. kept \in Seq(Nat)
    <3>1. stream \in Seq(Nat) BY DEF TypeOK
    <3>2. CASE Len(stream) < SubBuffer BY <3>1, <3>2
    <3>3. CASE ~(Len(stream) < SubBuffer)
      <4>1. stream # <<>> BY <3>3, RpcAssumption, EmptySeq
      <4> QED BY <3>1, <3>3, <4>1, TailStep
    <3> QED BY <3>2, <3>3
  <2>2. stream' = Append(kept, count') /\ count' \in Nat BY <1>9 DEF Publish, TypeOK
  <2> HIDE DEF kept
  <2>3. stream' # <<>> /\ stream'[Len(stream')] = count' BY <2>1, <2>2, AppendProperties
  <2> QED BY <2>3 DEF NewestIsLast
<1>10. CASE Forward
  <2>1. stream \in Seq(Nat) /\ stream # <<>> /\ stream' = Tail(stream) /\ count' = count
    BY <1>10 DEF Forward, TypeOK
  <2>2. stream' # <<>> => stream'[Len(stream')] = count
    BY <2>1, LastKept DEF NewestIsLast
  <2>3. stream' = <<>> => Head(stream) = count
    BY <2>1, LastKept DEF NewestIsLast
  <2>4. CASE cancelled' = TRUE
    BY <2>1, <2>2, <2>4 DEF NewestIsLast
  <2>5. CASE down' = Append(down, [id |-> 0, what |-> Head(stream)])
    <3>1. [id |-> 0, what |-> Head(stream)] \in Frames BY <2>1, TailStep DEF Frames
    <3>2. ~NoEventIn(down') /\ LastEventIs(down', Head(stream))
      BY <2>5, <3>1, EventBehind DEF TypeOK, IsEvent
    <3> QED BY <2>1, <2>2, <2>3, <3>2 DEF NewestIsLast
  <2> QED BY <1>10, <2>4, <2>5 DEF Forward
<1> QED
  BY <1>1, <1>2, <1>3, <1>4, <1>5, <1>6, <1>7, <1>8, <1>9, <1>10 DEF Next, ReaderStep, ServerStep

-----------------------------------------------------------------------------
(* Calls. *)

\* What the client's steps leave of a call: its id, and where it is or a step ahead.
MovesOn(c) ==
  /\ caller'[c].id = caller[c].id
  /\ \/ caller'[c].pc = caller[c].pc
     \/ caller'[c].pc \in Returned
     \/ caller[c].pc = "write" /\ caller'[c].pc = "waiting"

LEMMA SameIds ==
  ASSUME IdsExact, nextID' = nextID, \A c \in Calls : MovesOn(c)
  PROVE  IdsExact' /\ Registered' = Registered
<1>1. Registered' = Registered BY DEF Registered, MovesOn
<1>2. \A c \in Calls : caller'[c].id <= nextID' BY DEF IdsExact, MovesOn
<1>3. \A c, d \in Registered' : caller'[c].id = caller'[d].id => c = d
  BY <1>1 DEF IdsExact, MovesOn, Registered
<1>4. \A c \in Calls : /\ caller'[c].pc = "idle" => caller'[c].id = 0
                       /\ caller'[c].pc \in {"write", "waiting"} => caller'[c].id # 0
  BY DEF IdsExact, MovesOn, Returned
<1> QED BY <1>1, <1>2, <1>3, <1>4 DEF IdsExact

\* A call has at most one id, and an id at most one call.
LEMMA OneCall ==
  ASSUME IdsExact, NEW c \in Calls, NEW d \in Calls, caller[c].id = caller[d].id, caller[c].id # 0
  PROVE  c = d
BY DEF IdsExact, Registered

\* Steps of the client: no request is taken up or decided.
LEMMA SameEffects ==
  ASSUME EffectExact, \A c \in Calls : MovesOn(c), UNCHANGED <<up, handler, effect>>
  PROVE  /\ EffectExact'
         /\ \A i, what : Decided(i, what) => \E c \in Registered' : caller'[c].id = i /\ effect'[c] = what
<1>1. Registered' = Registered BY DEF Registered, MovesOn
<1>2. \A i, what : Decided(i, what) => \E c \in Registered' : caller'[c].id = i /\ effect'[c] = what
  BY <1>1 DEF Decided, Registered, MovesOn
<1>3. \A c \in Calls : caller'[c].pc \in {"idle", "write"} => effect'[c] = "none"
  BY DEF EffectExact, MovesOn, Returned
<1>4. \A k \in 1..Len(up) : \E c \in Registered' : caller'[c].id = up[k] /\ effect'[c] = "none"
  BY <1>2 DEF EffectExact
<1>5. \A i \in Ids :
        /\ handler[i] = "running" => \E c \in Registered' : caller'[c].id = i /\ effect'[c] = "none"
        /\ handler[i] \in Decisions => \E c \in Registered' : caller'[c].id = i /\ effect'[c] = handler[i]
  BY <1>2 DEF EffectExact
<1> QED BY <1>2, <1>3, <1>4, <1>5 DEF EffectExact, Decided

LEMMA CallMoves ==
  ASSUME TypeOK, NEW c \in Calls, CallStopped(c) \/ CallStep(c)
  PROVE  /\ \A d \in Calls : MovesOn(d) /\ caller'[d].box = caller[d].box
         /\ pending' \subseteq pending
         /\ UNCHANGED <<nextID, reader, down, handler, effect>>
<1>1. \/ \E pc \in Returned : Goto(c, pc)
      \/ caller[c].pc = "write" /\ Goto(c, "waiting")
  <2>1. \/ Goto(c, "failed") \/ Goto(c, "ok") \/ Goto(c, "refused")
        \/ caller[c].pc = "write" /\ Goto(c, "waiting")
    BY DEF CallStopped, CallStep, WriteRequest, ContextEnds, ConnectionDropped, ReplyArrives
  <2>2. "failed" \in Returned /\ "ok" \in Returned /\ "refused" \in Returned BY DEF Returned
  <2> QED BY <2>1, <2>2, Zenon
<1>2. \A d \in Calls : MovesOn(d) /\ caller'[d].box = caller[d].box
  <2>1. ASSUME NEW pc, Goto(c, pc)
        PROVE  /\ caller'[c].pc = pc /\ caller'[c].id = caller[c].id /\ caller'[c].box = caller[c].box
               /\ \A d \in Calls \ {c} : caller'[d] = caller[d]
    BY <2>1 DEF Goto, TypeOK, Callers
  <2> QED BY <1>1, <2>1 DEF MovesOn
<1>3. pending' \subseteq pending /\ UNCHANGED <<nextID, reader, down, handler, effect>>
  BY DEF CallStopped, CallStep, WriteRequest, ContextEnds, ConnectionDropped, ReplyArrives, Cleanup, serverVars
<1> QED BY <1>2, <1>3

LEMMA CallKeeps ==
  ASSUME CallInv, NEW c \in Calls, CallStopped(c) \/ CallStep(c)
  PROVE  CallInv'
<1> USE DEF CallInv
<1>1. TypeOK' BY CallTypes
<1>2. /\ \A d \in Calls : MovesOn(d) /\ caller'[d].box = caller[d].box
      /\ pending' \subseteq pending
      /\ UNCHANGED <<nextID, reader, down, handler, effect>>
  BY CallMoves
<1>3. IdsExact' /\ Registered' = Registered BY <1>2, SameIds
<1>4. PendingExact' BY <1>2 DEF PendingExact, MovesOn, TypeOK
<1>5. \A i, what : Decided(i, what) => \E d \in Registered' : caller'[d].id = i /\ effect'[d] = what
  BY <1>2, <1>3 DEF Decided, Registered, MovesOn
<1>6. RepliesTrue'
  <2>1. \A k \in 1..Len(down) : ~IsEvent(down[k]) =>
          \E d \in Registered' : caller'[d].id = down[k].id /\ effect'[d] = down[k].what
    BY <1>5 DEF RepliesTrue
  <2>2. \A d \in Calls : caller'[d].box # NoReply => effect'[d] = caller'[d].box.what
    BY <1>2 DEF RepliesTrue
  <2> QED BY <1>2, <2>1, <2>2 DEF RepliesTrue, Decided, IsEvent
<1>7. \/ up' = up
      \/ caller[c].pc = "write" /\ up' = Append(up, caller[c].id) /\ caller'[c].pc = "waiting"
  BY DEF CallStopped, CallStep, WriteRequest, ContextEnds, ConnectionDropped, ReplyArrives, Goto, TypeOK, Callers
<1>8. CASE up' = up
  <2>1. RequestOnce' BY <1>2, <1>8 DEF RequestOnce, MovesOn, Returned
  <2>2. EffectExact' BY <1>2, <1>8, SameEffects
  <2> QED BY <1>1, <1>3, <1>4, <1>6, <2>1, <2>2
<1>9. CASE caller[c].pc = "write" /\ up' = Append(up, caller[c].id) /\ caller'[c].pc = "waiting"
  <2> DEFINE i == caller[c].id
  <2>1. i \in Ids /\ c \in Registered BY <1>9 DEF IdsExact, TypeOK, Callers, Registered
  <2>2. /\ Len(up) \in Nat /\ Len(up') = Len(up) + 1 /\ up'[Len(up) + 1] = i
        /\ \A k \in 1..Len(up) : up'[k] = up[k]
    BY <1>9, <2>1, AppendStep DEF TypeOK
  <2>3. \A k \in 1..Len(up') : k \in 1..Len(up) \/ k = Len(up) + 1 BY <2>2
  <2>4. handler[i] = "none" /\ \A k \in 1..Len(up) : up[k] # i BY <1>9 DEF RequestOnce
  <2>5. effect[c] = "none" BY <1>9 DEF EffectExact
  <2>6. Decided(i, "none") BY <2>1, <2>5 DEF Decided
  <2>7. \A d \in Calls : caller'[d].pc = "write" => d # c /\ caller[d].pc = "write" /\ caller'[d].id = caller[d].id
    BY <1>2, <1>9 DEF MovesOn, Returned
  <2>8. \A d \in Calls : caller'[d].pc = "write" => caller'[d].id # i
    BY <2>1, <2>7, OneCall DEF Registered
  <2> HIDE DEF i
  <2>9. RequestOnce'
    <3>1. \A j, k \in 1..Len(up') : up'[j] = up'[k] => j = k BY <2>2, <2>3, <2>4 DEF RequestOnce
    <3>2. \A k \in 1..Len(up') : handler'[up'[k]] = "none" BY <1>2, <2>2, <2>3, <2>4 DEF RequestOnce
    <3>3. \A d \in Calls : caller'[d].pc = "write" =>
            handler'[caller'[d].id] = "none" /\ \A k \in 1..Len(up') : up'[k] # caller'[d].id
      BY <1>2, <2>2, <2>3, <2>7, <2>8 DEF RequestOnce
    <3> QED BY <3>1, <3>2, <3>3 DEF RequestOnce
  <2>10. EffectExact'
    <3>1. \A d \in Calls : caller'[d].pc \in {"idle", "write"} => effect'[d] = "none"
      BY <1>2 DEF EffectExact, MovesOn, Returned
    <3>2. \A k \in 1..Len(up') : Decided(up'[k], "none") BY <2>2, <2>3, <2>6 DEF EffectExact
    <3>3. \A k \in 1..Len(up') : \E d \in Registered' : caller'[d].id = up'[k] /\ effect'[d] = "none"
      BY <1>5, <3>2
    <3>4. \A j \in Ids :
            /\ handler[j] = "running" => \E d \in Registered' : caller'[d].id = j /\ effect'[d] = "none"
            /\ handler[j] \in Decisions => \E d \in Registered' : caller'[d].id = j /\ effect'[d] = handler[j]
      BY <1>5 DEF EffectExact
    <3> QED BY <1>2, <3>1, <3>3, <3>4 DEF EffectExact, Decided
  <2> QED BY <1>1, <1>3, <1>4, <1>6, <2>9, <2>10
<1> QED BY <1>7, <1>8, <1>9

\* The new call takes an id that no request, handler or reply has.
LEMMA RegisterKeeps ==
  ASSUME CallInv, NEW c \in Calls, Register(c)
  PROVE  CallInv'
<1> USE DEF CallInv
<1>1. TypeOK' BY CallTypes
<1> DEFINE n == nextID + 1
<1>2. caller[c].id = 0 /\ caller[c].pc = "idle" BY DEF Register, IdsExact
<1>3. n \in Ids /\ nextID \in Nat /\ n # 0 BY <1>2, RoomForAnId, CallsCounted DEF TypeOK, Ids
<1>4. /\ caller' = [caller EXCEPT ![c] = [pc |-> "write", id |-> n, box |-> NoReply]]
      /\ pending' = pending \union {<<n, c>>} /\ nextID' = n
      /\ UNCHANGED <<reader, down, up, handler, effect>>
  BY DEF Register, serverVars
<1> HIDE DEF n
<1>5. /\ caller'[c] = [pc |-> "write", id |-> n, box |-> NoReply]
      /\ \A d \in Calls \ {c} : caller'[d] = caller[d]
  BY <1>4 DEF TypeOK, Callers
<1>6. \A d \in Calls : caller[d].id < n /\ caller[d].id # n
  <2>1. nextID < n BY <1>3 DEF n
  <2>2. \A d \in Calls : caller[d].id \in Nat BY CallIdsAreNumbers
  <2>3. n \in Nat BY <1>3 DEF n
  <2> QED BY <1>3, <2>1, <2>2, <2>3 DEF IdsExact
<1>7. Registered' = Registered \union {c} /\ c \notin Registered
  BY <1>2, <1>3, <1>5 DEF Registered
<1>8. IdsExact'
  <2>1. Cardinality(Registered') = n
    <3>1. IsFiniteSet(Registered)
      BY RpcAssumption, FS_Subset DEF Registered
    <3> QED BY <1>3, <1>7, <3>1, FS_AddElement DEF IdsExact, n
  <2>2. \A d \in Calls : caller'[d].id <= n
    <3>1. n \in Nat BY <1>3 DEF n
    <3> QED BY <1>5, <1>6, <3>1, CallIdsAreNumbers
  <2>3. \A d, e \in Registered' : caller'[d].id = caller'[e].id => d = e
    <3>1. \A d \in Registered : d \in Calls /\ d # c /\ caller'[d].id = caller[d].id /\ caller[d].id # n
      BY <1>5, <1>6, <1>7 DEF Registered
    <3>2. caller'[c].id = n BY <1>5
    <3> QED BY <1>7, <3>1, <3>2 DEF IdsExact
  <2>4. \A d \in Calls : /\ caller'[d].pc = "idle" => caller'[d].id = 0
                         /\ caller'[d].pc \in {"write", "waiting"} => caller'[d].id # 0
    BY <1>3, <1>5 DEF IdsExact
  <2> QED BY <1>4, <2>1, <2>2, <2>3, <2>4 DEF IdsExact
<1>9. \A i, what : Decided(i, what) =>
        /\ i # n
        /\ \E d \in Registered' : caller'[d].id = i /\ effect'[d] = what
  <2>1. \A d \in Registered : /\ d \in Registered' /\ d \in Calls
                              /\ caller'[d].id = caller[d].id /\ caller[d].id # n /\ effect'[d] = effect[d]
    BY <1>4, <1>5, <1>6, <1>7 DEF Registered
  <2> QED BY <2>1 DEF Decided
<1>10. PendingExact'
  <2>1. \A p \in pending : p[2] # c
    BY <1>2, CallsCounted DEF PendingExact, TypeOK, Ids
  <2> QED BY <1>4, <1>5, <2>1 DEF PendingExact, TypeOK
<1>11. \A k \in 1..Len(up) : up[k] # n BY <1>9 DEF EffectExact
<1>12. handler[n] = "none" BY <1>3, <1>9 DEF EffectExact, TypeOK, Decisions
<1>13. RequestOnce'
  <2>1. \A d \in Calls : caller'[d].pc = "write" =>
          handler[caller'[d].id] = "none" /\ \A k \in 1..Len(up) : up[k] # caller'[d].id
    BY <1>5, <1>11, <1>12 DEF RequestOnce
  <2> QED BY <1>4, <2>1 DEF RequestOnce
<1>14. EffectExact'
  <2>1. \A d \in Calls : caller'[d].pc \in {"idle", "write"} => effect[d] = "none"
    BY <1>2, <1>5 DEF EffectExact
  <2>2. \A k \in 1..Len(up) : \E d \in Registered' : caller'[d].id = up[k] /\ effect'[d] = "none"
    BY <1>9 DEF EffectExact
  <2>3. \A i \in Ids :
          /\ handler[i] = "running" => \E d \in Registered' : caller'[d].id = i /\ effect'[d] = "none"
          /\ handler[i] \in Decisions => \E d \in Registered' : caller'[d].id = i /\ effect'[d] = handler[i]
    BY <1>9 DEF EffectExact
  <2> QED BY <1>4, <2>1, <2>2, <2>3 DEF EffectExact, Decided
<1>15. RepliesTrue'
  <2>1. \A k \in 1..Len(down) : ~IsEvent(down[k]) =>
          \E d \in Registered' : caller'[d].id = down[k].id /\ effect'[d] = down[k].what
    BY <1>9 DEF RepliesTrue
  <2>2. \A d \in Calls : caller'[d].box # NoReply => effect[d] = caller'[d].box.what
    BY <1>5 DEF RepliesTrue
  <2> QED BY <1>4, <2>1, <2>2 DEF RepliesTrue, Decided, IsEvent
<1> QED BY <1>1, <1>8, <1>10, <1>13, <1>14, <1>15

\* Steps that leave the calls, their requests and their replies alone.
LEMMA QuietCalls ==
  ASSUME CallInv, TypeOK',
         UNCHANGED <<caller, pending, nextID, reader, up, down, handler, effect>>
  PROVE  CallInv'
BY DEF CallInv, IdsExact, Registered, PendingExact, RequestOnce, EffectExact, RepliesTrue, Decided, IsEvent

LEMMA FrontendKeeps ==
  ASSUME CallInv, Close \/ Wake \/ Consume
  PROVE  CallInv'
<1>1. TypeOK' BY ClientTypes DEF CallInv
<1>2. UNCHANGED <<caller, pending, nextID, reader, up, down, handler, effect>>
  BY DEF Close, Wake, Consume, serverVars
<1> QED BY <1>1, <1>2, QuietCalls

\* The daemon's decisions and the callers stay as they are.
LEMMA SameDecisions ==
  ASSUME UNCHANGED <<caller, effect, nextID, pending>>
  PROVE  /\ \A i, what : Decided(i, what) => \E c \in Registered' : caller'[c].id = i /\ effect'[c] = what
         /\ IdsExact => IdsExact'
         /\ PendingExact => PendingExact'
BY DEF Decided, Registered, IdsExact, PendingExact

LEMMA SameRequests ==
  ASSUME RequestOnce, EffectExact, UNCHANGED <<caller, effect, up, handler>>
  PROVE  RequestOnce' /\ EffectExact'
BY DEF RequestOnce, EffectExact, Decided, Registered

\* Replies are taken from the head of the socket, and put behind.
LEMMA RepliesTaken ==
  ASSUME TypeOK, RepliesTrue, UNCHANGED <<caller, effect, reader>>, down # <<>>, down' = Tail(down)
  PROVE  RepliesTrue'
<1>1. /\ Len(down) \in Nat /\ Len(down') = Len(down) - 1
      /\ \A k \in 1..Len(down') : down'[k] = down[k + 1]
  BY TailStep DEF TypeOK
<1>2. \A k \in 1..Len(down') : ~IsEvent(down'[k]) => Decided(down'[k].id, down'[k].what)
  <2>1. \A k \in 1..Len(down') : k + 1 \in 1..Len(down) BY <1>1
  <2> QED BY <1>1, <2>1 DEF RepliesTrue
<1> QED BY <1>2 DEF RepliesTrue, Decided, Registered, IsEvent

LEMMA ReplyAdded ==
  ASSUME TypeOK, RepliesTrue, UNCHANGED <<caller, effect, reader>>,
         NEW f \in Frames, ~IsEvent(f) => Decided(f.id, f.what), down' = Append(down, f)
  PROVE  RepliesTrue'
<1>1. /\ Len(down) \in Nat /\ Len(down') = Len(down) + 1 /\ down'[Len(down) + 1] = f
      /\ \A k \in 1..Len(down) : down'[k] = down[k]
  BY AppendStep DEF TypeOK
<1>2. \A k \in 1..Len(down') : k \in 1..Len(down) \/ k = Len(down) + 1 BY <1>1
<1>3. \A k \in 1..Len(down') : ~IsEvent(down'[k]) => Decided(down'[k].id, down'[k].what)
  BY <1>1, <1>2 DEF RepliesTrue
<1> QED BY <1>3 DEF RepliesTrue, Decided, Registered, IsEvent

LEMMA ReaderKeeps ==
  ASSUME CallInv, ReaderStep
  PROVE  CallInv'
<1> USE DEF CallInv
<1>1. TypeOK' BY ClientTypes
<1>2. CASE ReadEvent
  <2>1. /\ UNCHANGED <<caller, effect, nextID, pending, reader, up, handler>>
        /\ down # <<>> /\ down' = Tail(down)
    BY <1>2 DEF ReadEvent, serverVars
  <2> QED BY <1>1, <2>1, SameDecisions, SameRequests, RepliesTaken
<1>3. CASE ReadFails
  <2>1. UNCHANGED <<caller, effect, nextID, pending, up, down, handler>> /\ reader'.to = {}
    BY <1>3 DEF ReadFails, serverVars
  <2>2. RepliesTrue' BY <2>1 DEF RepliesTrue, Decided, Registered, IsEvent
  <2> QED BY <1>1, <2>1, <2>2, SameDecisions, SameRequests
<1>4. CASE Deliver
  <2>1. /\ UNCHANGED <<effect, nextID, pending, up, down, handler>> /\ reader'.to = {}
        /\ \A c \in Calls : IF c \in reader.to THEN caller'[c] = [caller[c] EXCEPT !.box = reader.reply]
                             ELSE caller'[c] = caller[c]
    BY <1>4 DEF Deliver, serverVars
  <2>2. \A c \in Calls : /\ caller'[c].id = caller[c].id /\ caller'[c].pc = caller[c].pc
                         /\ c \in reader.to => caller'[c].box = reader.reply
                         /\ c \notin reader.to => caller'[c].box = caller[c].box
    <3> SUFFICES ASSUME NEW c \in Calls
                 PROVE  /\ caller'[c].id = caller[c].id /\ caller'[c].pc = caller[c].pc
                        /\ c \in reader.to => caller'[c].box = reader.reply
                        /\ c \notin reader.to => caller'[c].box = caller[c].box
      OBVIOUS
    <3>1. CASE c \notin reader.to BY <2>1, <3>1
    <3>2. CASE c \in reader.to
      <4>1. caller'[c] = [caller[c] EXCEPT !.box = reader.reply] BY <2>1, <3>2
      <4>2. caller[c] \in [pc : {"idle", "write", "waiting"} \union Returned, id : Ids \union {0},
                           box : Replies \union {NoReply}]
        BY DEF TypeOK, Callers
      <4> QED BY <3>2, <4>1, <4>2
    <3> QED BY <3>1, <3>2
  <2>3. \A c \in Calls : MovesOn(c) BY <2>2 DEF MovesOn
  <2>4. IdsExact' BY <2>1, <2>3, SameIds
  <2>5. PendingExact' BY <2>1, <2>2 DEF PendingExact, TypeOK
  <2>6. RequestOnce' BY <2>1, <2>2 DEF RequestOnce
  <2>7. EffectExact' /\ \A i, what : Decided(i, what) =>
                           \E c \in Registered' : caller'[c].id = i /\ effect'[c] = what
    BY <2>1, <2>3, SameEffects
  <2>8. RepliesTrue'
    <3>1. \A k \in 1..Len(down) : ~IsEvent(down[k]) =>
            \E d \in Registered' : caller'[d].id = down[k].id /\ effect'[d] = down[k].what
      BY <2>7 DEF RepliesTrue
    <3>2. \A d \in Calls : caller'[d].box # NoReply => effect[d] = caller'[d].box.what
      BY <2>2 DEF RepliesTrue
    <3> QED BY <2>1, <3>1, <3>2 DEF RepliesTrue, Decided, IsEvent
  <2> QED BY <1>1, <2>4, <2>5, <2>6, <2>7, <2>8
<1>5. CASE ReadReply
  <2> DEFINE f == Head(down)
             found == {p \in pending : p[1] = f.id}
  <2>1. /\ UNCHANGED <<caller, effect, nextID, up, handler>>
        /\ pending' \subseteq pending /\ down # <<>> /\ down' = Tail(down) /\ ~IsEvent(f)
        /\ reader' = IF found = {} THEN reader
                     ELSE [pc |-> "sending", reply |-> f, to |-> {p[2] : p \in found}]
    BY <1>5 DEF ReadReply, serverVars
  <2>2. /\ f \in Frames /\ f = down[1] /\ 1 \in 1..Len(down)
        /\ Len(down) \in Nat /\ Len(down') = Len(down) - 1
        /\ \A k \in 1..Len(down') : down'[k] = down[k + 1]
    BY <2>1, TailStep DEF TypeOK
  <2>3. f.id # 0 BY <2>1 DEF IsEvent
  <2>4. Decided(f.id, f.what) BY <2>1, <2>2 DEF RepliesTrue
  <2>5. \A p \in found : p[2] \in Calls /\ effect[p[2]] = f.what
    BY <2>3, <2>4, OneCall DEF PendingExact, TypeOK, Decided, Registered
  <2> HIDE DEF f
  <2>6. \A c \in reader'.to : reader'.reply # NoReply /\ effect[c] = reader'.reply.what
    BY <2>1, <2>3, <2>5 DEF RepliesTrue, NoReply
  <2>7. \A k \in 1..Len(down') : ~IsEvent(down'[k]) => Decided(down'[k].id, down'[k].what)
    <3>1. \A k \in 1..Len(down') : k + 1 \in 1..Len(down) BY <2>2
    <3> QED BY <2>2, <3>1 DEF RepliesTrue
  <2>8. RepliesTrue'
    BY <2>1, <2>6, <2>7 DEF RepliesTrue, Decided, Registered, IsEvent
  <2>9. IdsExact' BY <2>1 DEF IdsExact, Registered
  <2>10. PendingExact' BY <2>1 DEF PendingExact
  <2> QED BY <1>1, <2>1, <2>8, <2>9, <2>10, SameRequests
<1> QED BY <1>2, <1>3, <1>4, <1>5 DEF ReaderStep

\* The call a handler works for: the one with its id, undecided until then.
LEMMA HandledCall ==
  ASSUME IdsExact, EffectExact, NEW i \in Ids, handler[i] = "running"
  PROVE  /\ CallWith(i) \in Registered /\ caller[CallWith(i)].id = i /\ effect[CallWith(i)] = "none"
         /\ \A c \in Calls : caller[c].id = i => c = CallWith(i)
<1>1. PICK d \in Registered : caller[d].id = i /\ effect[d] = "none"
  BY DEF EffectExact, Decided
<1>2. d \in Calls /\ d \in Registered BY <1>1 DEF Registered
<1>3. \A c \in Calls : caller[c].id = i => c = d
  BY <1>1, <1>2, OneCall DEF Registered
<1>4. CallWith(i) = d BY <1>1, <1>2, <1>3 DEF CallWith
<1> QED BY <1>1, <1>2, <1>3, <1>4

LEMMA HandleKeeps ==
  ASSUME CallInv, NEW i \in Ids, Handle(i)
  PROVE  CallInv'
<1> USE DEF CallInv
<1>1. TypeOK' BY ServerTypes
<1> DEFINE c == CallWith(i)
<1>2. /\ c \in Registered /\ c \in Calls /\ caller[c].id = i /\ effect[c] = "none"
      /\ \A d \in Calls : caller[d].id = i => d = c
  BY HandledCall DEF Handle, Registered
<1>3. PICK what \in Decisions :
        /\ handler' = [handler EXCEPT ![i] = what]
        /\ effect' = [effect EXCEPT ![c] = what]
  BY DEF Handle, Decisions
<1> HIDE DEF c
<1>4. handler[i] = "running" /\ UNCHANGED <<caller, pending, nextID, reader, up, down>>
  BY DEF Handle, clientVars
<1>5. /\ handler'[i] = what /\ \A j \in Ids \ {i} : handler'[j] = handler[j]
      /\ effect'[c] = what /\ \A d \in Calls \ {c} : effect'[d] = effect[d]
  BY <1>2, <1>3 DEF TypeOK
<1>6. "none" \notin Decisions /\ "running" \notin Decisions BY DEF Decisions
<1>7. IdsExact' /\ PendingExact' /\ Registered' = Registered
  BY <1>4 DEF IdsExact, Registered, PendingExact
<1>8. \A k \in 1..Len(up) : up[k] \in Ids /\ up[k] # i
  <2>1. \A k \in 1..Len(up) : up[k] \in Ids BY ElementOfSeq DEF TypeOK
  <2> QED BY <1>4, <2>1 DEF RequestOnce
<1>9. \A d \in Calls : caller[d].pc = "write" => caller[d].id \in Ids /\ caller[d].id # i
  BY <1>4 DEF RequestOnce, IdsExact, TypeOK, Callers
<1>10. RequestOnce'
  <2>1. \A k \in 1..Len(up) : handler'[up[k]] = "none" BY <1>5, <1>8 DEF RequestOnce
  <2>2. \A d \in Calls : caller[d].pc = "write" => handler'[caller[d].id] = "none"
    BY <1>5, <1>9 DEF RequestOnce
  <2> QED BY <1>4, <2>1, <2>2 DEF RequestOnce
\* What is decided of another id stays, and so does every decision.
<1>11. \A j, w : Decided(j, w) /\ (j # i \/ w \in Decisions) =>
         \E d \in Registered' : caller'[d].id = j /\ effect'[d] = w
  <2> SUFFICES ASSUME NEW j, NEW w, Decided(j, w), j # i \/ w \in Decisions
               PROVE  \E d \in Registered' : caller'[d].id = j /\ effect'[d] = w
    OBVIOUS
  <2>1. PICK d \in Registered : caller[d].id = j /\ effect[d] = w BY DEF Decided
  <2>2. d \in Calls /\ d # c BY <1>2, <1>6, <2>1 DEF Registered
  <2> QED BY <1>4, <1>5, <1>7, <2>1, <2>2
<1>12. EffectExact'
  <2>1. \A d \in Calls : caller[d].pc \in {"idle", "write"} => effect'[d] = "none"
    BY <1>2, <1>5, <1>9 DEF EffectExact, IdsExact, Registered
  <2>2. \A k \in 1..Len(up) : \E d \in Registered' : caller'[d].id = up[k] /\ effect'[d] = "none"
    BY <1>8, <1>11 DEF EffectExact
  <2>3. \E d \in Registered' : caller'[d].id = i /\ effect'[d] = what
    BY <1>2, <1>4, <1>5, <1>7
  <2>4. \A j \in Ids :
          /\ handler'[j] = "running" => \E d \in Registered' : caller'[d].id = j /\ effect'[d] = "none"
          /\ handler'[j] \in Decisions => \E d \in Registered' : caller'[d].id = j /\ effect'[d] = handler'[j]
    BY <1>5, <1>6, <1>11, <2>3 DEF EffectExact
  <2> QED BY <1>4, <2>1, <2>2, <2>4 DEF EffectExact, Decided
<1>13. RepliesTrue'
  <2>1. \A k \in 1..Len(down) : ~IsEvent(down[k]) =>
          \E d \in Registered' : caller'[d].id = down[k].id /\ effect'[d] = down[k].what
    <3>1. \A k \in 1..Len(down) : down[k] \in Frames BY ElementOfSeq DEF TypeOK
    <3>2. \A k \in 1..Len(down) : ~IsEvent(down[k]) => down[k].what \in Decisions
      BY <3>1 DEF Frames, Replies, IsEvent
    <3> QED BY <1>11, <3>2 DEF RepliesTrue
  <2>2. \A d \in reader.to : reader.reply # NoReply /\ effect'[d] = reader.reply.what
    <3>1. \A d \in reader.to : reader.reply \in Replies /\ d \in Calls BY DEF RepliesTrue, TypeOK
    <3>2. \A d \in reader.to : reader.reply.what \in Decisions /\ d # c
      BY <1>2, <1>6, <3>1 DEF RepliesTrue, Replies
    <3> QED BY <1>5, <3>1, <3>2 DEF RepliesTrue
  <2>3. \A d \in Calls : caller[d].box # NoReply => effect'[d] = caller[d].box.what
    <3>1. \A d \in Calls : caller[d].box # NoReply => caller[d].box.what \in Decisions
      BY DEF TypeOK, Callers, Replies
    <3> QED BY <1>2, <1>5, <1>6, <3>1 DEF RepliesTrue
  <2> QED BY <1>4, <2>1, <2>2, <2>3 DEF RepliesTrue, Decided, IsEvent
<1> QED BY <1>1, <1>7, <1>10, <1>12, <1>13

LEMMA ReadRequestKeeps ==
  ASSUME CallInv, ReadRequest
  PROVE  CallInv'
<1> USE DEF CallInv
<1>1. TypeOK' BY ServerTypes DEF ServerStep
<1> DEFINE i == Head(up)
<1>2. /\ UNCHANGED <<caller, effect, nextID, pending, reader, down>>
      /\ up # <<>> /\ up' = Tail(up) /\ handler' = [handler EXCEPT ![i] = "running"]
  BY DEF ReadRequest, clientVars
<1>3. /\ i \in Ids /\ i = up[1] /\ 1 \in 1..Len(up)
      /\ Len(up) \in Nat /\ Len(up') = Len(up) - 1
      /\ \A k \in 1..Len(up') : up'[k] = up[k + 1]
  BY <1>2, TailStep DEF TypeOK
<1>4. \A k \in 1..Len(up') : k + 1 \in 1..Len(up) /\ k + 1 # 1 BY <1>3
<1> HIDE DEF i
<1>5. handler'[i] = "running" /\ \A j \in Ids \ {i} : handler'[j] = handler[j]
  BY <1>2, <1>3 DEF TypeOK
<1>6. \A k \in 1..Len(up') : up'[k] \in Ids /\ up'[k] # i
  <2>1. \A k \in 1..Len(up) : up[k] \in Ids BY ElementOfSeq DEF TypeOK
  <2> QED BY <1>3, <1>4, <2>1 DEF RequestOnce
<1>7. IdsExact' /\ PendingExact' /\ RepliesTrue'
  BY <1>2 DEF IdsExact, PendingExact, RepliesTrue, Registered, Decided, IsEvent
<1>8. RequestOnce'
  <2>1. \A j, k \in 1..Len(up') : up'[j] = up'[k] => j = k
    <3> SUFFICES ASSUME NEW j \in 1..Len(up'), NEW k \in 1..Len(up'), up'[j] = up'[k]
                 PROVE  j = k
      OBVIOUS
    <3>1. up[j + 1] = up[k + 1] BY <1>3
    <3>2. j + 1 \in 1..Len(up) /\ k + 1 \in 1..Len(up) BY <1>4
    <3>3. j + 1 = k + 1 BY <3>1, <3>2 DEF RequestOnce
    <3> QED BY <3>3
  <2>2. \A k \in 1..Len(up') : handler'[up'[k]] = "none"
    BY <1>3, <1>4, <1>5, <1>6 DEF RequestOnce
  <2>3. \A d \in Calls : caller[d].pc = "write" =>
          handler'[caller[d].id] = "none" /\ \A k \in 1..Len(up') : up'[k] # caller[d].id
    <3>1. \A d \in Calls : caller[d].pc = "write" => caller[d].id \in Ids /\ caller[d].id # i
      BY <1>3 DEF RequestOnce, IdsExact, TypeOK, Callers
    <3> QED BY <1>3, <1>4, <1>5, <3>1 DEF RequestOnce
  <2> QED BY <1>2, <2>1, <2>2, <2>3 DEF RequestOnce
<1>9. EffectExact'
  <2>1. \A k \in 1..Len(up') : Decided(up'[k], "none") BY <1>3, <1>4 DEF EffectExact
  <2>2. Decided(i, "none") BY <1>3 DEF EffectExact
  <2>3. "running" \notin Decisions BY DEF Decisions
  <2>4. \A j \in Ids : /\ handler'[j] = "running" => Decided(j, "none")
                       /\ handler'[j] \in Decisions => Decided(j, handler'[j])
    BY <1>5, <2>2, <2>3 DEF EffectExact
  <2> QED BY <1>2, <2>1, <2>4 DEF EffectExact, Decided, Registered
<1> QED BY <1>1, <1>7, <1>8, <1>9

LEMMA ReplyKeeps ==
  ASSUME CallInv, NEW i \in Ids, Reply(i)
  PROVE  CallInv'
<1> USE DEF CallInv
<1>1. TypeOK' BY ServerTypes
<1> DEFINE f == [id |-> i, what |-> handler[i]]
<1>2. /\ UNCHANGED <<caller, effect, nextID, pending, reader, up>>
      /\ handler[i] \in Decisions /\ handler' = [handler EXCEPT ![i] = "none"]
      /\ down' = Append(down, f) \/ down' = down
  BY DEF Reply, clientVars, Decisions
<1>3. handler'[i] = "none" /\ \A j \in Ids \ {i} : handler'[j] = handler[j]
  BY <1>2 DEF TypeOK
<1>4. f \in Frames /\ f.id = i /\ f.what = handler[i] BY <1>2 DEF Frames, Replies
<1>5. Decided(f.id, f.what) BY <1>2, <1>4 DEF EffectExact
<1> HIDE DEF f
<1>6. RepliesTrue'
  <2>1. CASE down' = down BY <1>2, <2>1 DEF RepliesTrue, Decided, Registered, IsEvent
  <2>2. CASE down' = Append(down, f) BY <1>2, <1>4, <1>5, <2>2, ReplyAdded
  <2> QED BY <1>2, <2>1, <2>2
<1>7. RequestOnce'
  <2>1. \A k \in 1..Len(up) : up[k] \in Ids BY ElementOfSeq DEF TypeOK
  <2>2. \A d \in Calls : caller[d].pc = "write" => caller[d].id \in Ids
    BY DEF IdsExact, TypeOK, Callers
  <2>3. \A j \in Ids : handler[j] = "none" => handler'[j] = "none" BY <1>3
  <2> QED BY <1>2, <2>1, <2>2, <2>3 DEF RequestOnce
<1>8. EffectExact'
  <2>1. \A j \in Ids : /\ handler'[j] = "running" => Decided(j, "none")
                       /\ handler'[j] \in Decisions => Decided(j, handler'[j])
    BY <1>3 DEF EffectExact, Decisions
  <2> QED BY <1>2, <2>1 DEF EffectExact, Decided, Registered
<1> QED BY <1>1, <1>2, <1>6, <1>7, <1>8, SameDecisions

LEMMA ForwardKeeps ==
  ASSUME CallInv, Forward
  PROVE  CallInv'
<1> USE DEF CallInv
<1>1. TypeOK' BY ServerTypes
<1> DEFINE f == [id |-> 0, what |-> Head(stream)]
<1>2. /\ UNCHANGED <<caller, effect, nextID, pending, reader, up, handler>>
      /\ down' = Append(down, f) \/ down' = down
  BY DEF Forward, clientVars
<1>3. Head(stream) \in Nat BY TailStep DEF Forward, TypeOK
<1>4. f \in Frames /\ IsEvent(f) BY <1>3 DEF Frames, IsEvent
<1> HIDE DEF f
<1>5. RepliesTrue'
  <2>1. CASE down' = down BY <1>2, <2>1 DEF RepliesTrue, Decided, Registered, IsEvent
  <2>2. CASE down' = Append(down, f) BY <1>2, <1>4, <2>2, ReplyAdded
  <2> QED BY <1>2, <2>1, <2>2
<1> QED BY <1>1, <1>2, <1>5, SameDecisions, SameRequests

LEMMA DaemonKeeps ==
  ASSUME CallInv, ServerSeesClose \/ Publish \/ ForwarderEnds \/ DaemonStops \/ DaemonExits
  PROVE  CallInv'
<1>1. TypeOK' BY ServerTypes DEF CallInv, ServerStep
<1>2. UNCHANGED <<caller, pending, nextID, reader, up, down, effect>>
  BY DEF ServerSeesClose, Publish, ForwarderEnds, DaemonStops, DaemonExits, clientVars
<1>3. CASE handler' = handler BY <1>1, <1>2, <1>3, QuietCalls
<1>4. CASE handler' = [i \in Ids |-> "none"]
  <2>1. \A i \in Ids : handler'[i] = "none" BY <1>4
  <2>2. RequestOnce'
    <3>1. \A k \in 1..Len(up) : up[k] \in Ids BY ElementOfSeq DEF CallInv, TypeOK
    <3>2. \A d \in Calls : caller[d].pc = "write" => caller[d].id \in Ids
      BY DEF CallInv, IdsExact, TypeOK, Callers
    <3> QED BY <1>2, <2>1, <3>1, <3>2 DEF CallInv, RequestOnce
  <2>3. EffectExact'
    BY <1>2, <2>1 DEF CallInv, EffectExact, Decided, Registered, Decisions
  <2>4. RepliesTrue' BY <1>2 DEF CallInv, RepliesTrue, Decided, Registered, IsEvent
  <2> QED BY <1>1, <1>2, <2>2, <2>3, <2>4, SameDecisions DEF CallInv
<1> QED BY <1>3, <1>4 DEF ServerSeesClose, Publish, ForwarderEnds, DaemonStops, DaemonExits

LEMMA CallInvKept ==
  ASSUME CallInv, [Next]_vars
  PROVE  CallInv'
<1>1. CASE Next
  <2>1. ASSUME NEW c \in Calls, CallStopped(c) \/ Register(c) \/ CallStep(c) PROVE CallInv'
    BY <2>1, CallKeeps, RegisterKeeps
  <2>2. ASSUME NEW i \in Ids, Handle(i) \/ Reply(i) PROVE CallInv'
    BY <2>2, HandleKeeps, ReplyKeeps
  <2>3. CASE Close \/ Wake \/ Consume BY <2>3, FrontendKeeps
  <2>4. CASE ReaderStep BY <2>4, ReaderKeeps
  <2>5. CASE ReadRequest BY <2>5, ReadRequestKeeps
  <2>6. CASE Forward BY <2>6, ForwardKeeps
  <2>7. CASE ServerSeesClose \/ Publish \/ ForwarderEnds \/ DaemonStops \/ DaemonExits
    BY <2>7, DaemonKeeps
  <2> QED BY <1>1, <2>1, <2>2, <2>3, <2>4, <2>5, <2>6, <2>7 DEF Next, ServerStep
<1>2. CASE UNCHANGED vars
  <2>1. TypeOK' BY <1>2 DEF CallInv, TypeOK, vars, clientVars, serverVars
  <2> QED BY <1>2, <2>1, QuietCalls DEF vars, clientVars, serverVars
<1> QED BY <1>1, <1>2

LEMMA InitHolds ==
  ASSUME Init
  PROVE  CallInv /\ NewestIsLast
<1> USE DEF Init
<1>1. TypeOK
  <2>1. caller \in Callers BY DEF Callers
  <2>2. Len(<<>>) = 0 /\ events \in Seq(Nat) /\ stream \in Seq(Nat) /\ up \in Seq(Ids) /\ down \in Seq(Frames)
    BY EmptySeq
  <2>3. Len(events) <= EventBuffer /\ Len(stream) <= SubBuffer BY <2>2, RpcAssumption
  <2>4. reader \in [pc : {"reading", "sending", "done"}, reply : Replies \union {NoReply}, to : SUBSET Calls]
    OBVIOUS
  <2>5. /\ handler \in [Ids -> {"none", "running"} \union Decisions]
        /\ effect \in [Calls -> {"none"} \union Decisions]
    OBVIOUS
  <2>6. pending \subseteq Ids \X Calls /\ nextID \in Ids \union {0} /\ seen \in Nat /\ count \in Nat
    OBVIOUS
  <2>7. {stopped, closed, overrun, serving, cancelled} \subseteq BOOLEAN /\ forwarder \in {"running", "done"}
    OBVIOUS
  <2> HIDE DEF Init
  <2> QED BY <2>1, <2>2, <2>3, <2>4, <2>5, <2>6, <2>7 DEF TypeOK
<1>2. Registered = {} BY DEF Registered
<1>3. IdsExact BY <1>2, FS_EmptySet DEF IdsExact
<1>4. PendingExact /\ RequestOnce BY DEF PendingExact, RequestOnce
<1>5. EffectExact BY DEF EffectExact, Decisions
<1>6. RepliesTrue BY DEF RepliesTrue
<1>7. NewestIsLast BY DEF NewestIsLast
<1> QED BY <1>1, <1>3, <1>4, <1>5, <1>6, <1>7 DEF CallInv

LEMMA EventsKept ==
  ASSUME CallInv, NewestIsLast, [Next]_vars
  PROVE  NewestIsLast'
<1>1. CASE Next BY <1>1, EventsKeep DEF CallInv
<1>2. CASE UNCHANGED vars
  BY <1>2, QuietEvents DEF vars, clientVars, serverVars, eventVars
<1> QED BY <1>1, <1>2

-----------------------------------------------------------------------------
(* The theorems. *)

\* Ids, requests, effects and replies stay matched (client.go:57-104, server.go:162-228).
THEOREM RpcInductive == Spec => [](CallInv /\ NewestIsLast)
<1>1. Init => CallInv /\ NewestIsLast BY InitHolds
<1>2. CallInv /\ NewestIsLast /\ [Next]_vars => (CallInv /\ NewestIsLast)'
  BY CallInvKept, EventsKept
<1> QED BY <1>1, <1>2, PTL DEF Spec

\* Every variable keeps its type; no call runs out of ids, and neither event queue
\* grows past its buffer.
THEOREM RpcTypes == Spec => []TypeOK
<1>1. CallInv => TypeOK BY DEF CallInv
<1> QED BY <1>1, RpcInductive, PTL

\* Once everything is delivered, a frontend that was never a whole queue behind has
\* seen the newest event (client.go:142).
THEOREM NewestEventArrives == Spec => []LatestEventArrives
<1>1. ASSUME CallInv, NewestIsLast PROVE LatestEventArrives
  <2> SUFFICES ASSUME count > 0, ~overrun, ~stopped, ~cancelled, stream = <<>>, down = <<>>, events = <<>>
               PROVE  seen = count
    BY DEF LatestEventArrives
  <2>1. NoEventIn(down) BY DEF NoEventIn
  <2> QED BY <1>1, <2>1 DEF NewestIsLast
<1> QED BY <1>1, RpcInductive, PTL

-----------------------------------------------------------------------------
(* The refinement of RpcService, step by step. *)

Outcomes == [c \in Calls |-> Outcome(c)]

\* A step of one call's caller changes one outcome.
LEMMA OneOutcome ==
  ASSUME NEW c \in Calls, \A d \in Calls \ {c} : caller'[d].pc = caller[d].pc
  PROVE  Outcomes' = [Outcomes EXCEPT ![c] = Outcome(c)']
BY DEF Outcomes, Outcome

LEMMA OutcomesStay ==
  ASSUME \A c \in Calls : Outcome(c)' = Outcome(c), UNCHANGED effect
  PROVE  UNCHANGED Service!vars
BY DEF Service!vars

LEMMA FailMaps ==
  ASSUME TypeOK, NEW c \in Calls, caller[c].pc \in {"idle", "write", "waiting"},
         Goto(c, "failed"), UNCHANGED effect
  PROVE  Service!Fail(c)
<1>1. caller'[c].pc = "failed" /\ \A d \in Calls \ {c} : caller'[d].pc = caller[d].pc
  BY DEF Goto, TypeOK, Callers
<1>2. Outcome(c)' = "failed" /\ Outcome(c) \in {"idle", "open"} BY <1>1 DEF Outcome
<1> QED BY <1>1, <1>2, OneOutcome DEF Service!Fail, Outcomes

LEMMA BeginMaps ==
  ASSUME TypeOK, NEW c \in Calls, Register(c)
  PROVE  Service!Begin(c)
<1>1. caller'[c].pc = "write" /\ \A d \in Calls \ {c} : caller'[d].pc = caller[d].pc
  BY DEF Register, TypeOK, Callers
<1>2. Outcome(c)' = "open" /\ Outcome(c) = "idle" BY <1>1 DEF Outcome, Register
<1>3. effect' = effect BY DEF Register, serverVars
<1> QED BY <1>1, <1>2, <1>3, OneOutcome DEF Service!Begin, Outcomes

\* The reply in the caller's channel is the effect of its own call.
LEMMA AnswerMaps ==
  ASSUME CallInv, NEW c \in Calls, ReplyArrives(c)
  PROVE  Service!Answer(c)
<1> DEFINE pc == IF effect[c] = "applied" THEN "ok" ELSE "refused"
<1>1. effect[c] = caller[c].box.what /\ effect[c] # "none"
  BY DEF CallInv, RepliesTrue, ReplyArrives, TypeOK, Callers, Replies, Decisions
<1>2. caller'[c].pc = pc /\ \A d \in Calls \ {c} : caller'[d].pc = caller[d].pc
  BY <1>1 DEF CallInv, ReplyArrives, Goto, TypeOK, Callers
<1>3. Outcome(c)' = pc /\ Outcome(c) = "open" BY <1>2 DEF Outcome, ReplyArrives
<1>4. effect' = effect BY DEF ReplyArrives, serverVars
<1> QED BY <1>1, <1>2, <1>3, <1>4, OneOutcome DEF Service!Answer, Outcomes

\* The handler decides the one call with its id, which is begun and undecided.
LEMMA DecideMaps ==
  ASSUME CallInv, NEW i \in Ids, Handle(i)
  PROVE  \E c \in Calls : \E what \in {"applied", "rejected"} : Service!Decide(c, what)
<1> DEFINE c == CallWith(i)
<1>1. c \in Calls /\ caller[c].id # 0 /\ effect[c] = "none"
  BY HandledCall DEF CallInv, Handle, Registered
<1>2. PICK what \in {"applied", "rejected"} : effect' = [effect EXCEPT ![c] = what]
  BY DEF Handle
<1>3. caller' = caller BY DEF Handle, clientVars
<1> HIDE DEF c
<1>4. Outcome(c) # "idle" BY <1>1 DEF CallInv, IdsExact, Outcome
<1>5. Service!Decide(c, what) BY <1>1, <1>2, <1>3, <1>4 DEF Service!Decide, Outcome
<1> QED BY <1>1, <1>5

LEMMA NextMaps ==
  ASSUME CallInv, [Next]_vars
  PROVE  [Service!Next]_Service!vars
<1> USE DEF Service!Next
<1>1. ASSUME NEW c \in Calls, Register(c) PROVE [Service!Next]_Service!vars
  BY <1>1, BeginMaps DEF CallInv
<1>2. ASSUME NEW c \in Calls, ReplyArrives(c) PROVE [Service!Next]_Service!vars
  BY <1>2, AnswerMaps
<1>3. ASSUME NEW c \in Calls, CallStopped(c) \/ WriteRequest(c) \/ ContextEnds(c) \/ ConnectionDropped(c)
      PROVE  [Service!Next]_Service!vars
  <2>1. effect' = effect
    BY <1>3 DEF CallStopped, WriteRequest, ContextEnds, ConnectionDropped, serverVars
  <2>2. /\ caller[c].pc \in {"idle", "write", "waiting"}
        /\ Goto(c, "failed") \/ (caller[c].pc = "write" /\ Goto(c, "waiting"))
    BY <1>3 DEF CallStopped, WriteRequest, ContextEnds, ConnectionDropped
  <2>3. CASE Goto(c, "failed") BY <2>1, <2>2, <2>3, FailMaps DEF CallInv
  <2>4. CASE caller[c].pc = "write" /\ Goto(c, "waiting")
    <3>1. caller'[c].pc = "waiting" /\ \A d \in Calls \ {c} : caller'[d].pc = caller[d].pc
      BY <2>4 DEF CallInv, Goto, TypeOK, Callers
    <3>2. \A d \in Calls : Outcome(d)' = Outcome(d) BY <2>4, <3>1 DEF Outcome
    <3> QED BY <2>1, <3>2, OutcomesStay
  <2> QED BY <2>2, <2>3, <2>4
<1>4. ASSUME NEW i \in Ids, Handle(i) PROVE [Service!Next]_Service!vars
  BY <1>4, DecideMaps
<1>5. CASE Deliver
  <2>1. \A d \in Calls : caller'[d].pc = caller[d].pc BY <1>5 DEF CallInv, Deliver, TypeOK, Callers
  <2>2. \A d \in Calls : Outcome(d)' = Outcome(d) BY <2>1 DEF Outcome
  <2> QED BY <1>5, <2>2, OutcomesStay DEF Deliver, serverVars
<1>6. ASSUME UNCHANGED <<caller, effect>> PROVE [Service!Next]_Service!vars
  <2>1. \A d \in Calls : Outcome(d)' = Outcome(d) BY <1>6 DEF Outcome
  <2> QED BY <1>6, <2>1, OutcomesStay
<1>7. CASE Close \/ Wake \/ Consume \/ ReadEvent \/ ReadReply \/ ReadFails
  BY <1>6, <1>7 DEF Close, Wake, Consume, ReadEvent, ReadReply, ReadFails, serverVars
<1>8. CASE ServerStep \/ Publish \/ Forward \/ ForwarderEnds \/ DaemonStops \/ DaemonExits
  BY <1>6, <1>8 DEF ServerStep, ReadRequest, ServerSeesClose, Publish, Forward, ForwarderEnds,
     DaemonStops, DaemonExits, clientVars
<1>9. ASSUME NEW i \in Ids, Reply(i) PROVE [Service!Next]_Service!vars
  BY <1>6, <1>9 DEF Reply, clientVars
<1>10. CASE UNCHANGED vars
  BY <1>6, <1>10 DEF vars, clientVars, serverVars
<1> QED
  BY <1>1, <1>2, <1>3, <1>4, <1>5, <1>7, <1>8, <1>9, <1>10 DEF Next, CallStep, ReaderStep

\* A caller's answer is the daemon's decision on its own call, which is made once
\* (client.go:57-104, server.go:162-228): seen through what callers are told and what
\* the daemon did, the connection is an RpcService.
THEOREM CallsAreAnsweredTruly == Spec => ImplementsRpcService
<1>1. Init => Service!Init BY DEF Init, Service!Init, Outcome
<1>2. CallInv /\ NewestIsLast /\ [Next]_vars => [Service!Next]_Service!vars BY NextMaps
<1> QED BY <1>1, <1>2, RpcInductive, PTL DEF Spec, ImplementsRpcService, Service!Spec
=============================================================================
