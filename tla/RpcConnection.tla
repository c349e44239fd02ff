---------------------------- MODULE RpcConnection ----------------------------
(***************************************************************************)
(* One connection between a frontend and the daemon: the client            *)
(* (internal/rpc/client.go) with its callers, its read loop and its event  *)
(* queue; the socket; and the server's side of the connection              *)
(* (internal/rpc/server.go), a read loop that starts a goroutine per       *)
(* request and a goroutine that forwards the events of a bus subscription. *)
(*                                                                         *)
(* Every hold of c.mu is one step; so is every operation on a channel or   *)
(* on the socket.  Frames are whole: proto.Conn writes one under a lock.   *)
(***************************************************************************)
EXTENDS Naturals, Sequences, FiniteSets

CONSTANTS
  Calls,        \* invocations of Client.Call
  Deadlines,    \* those whose context ends
  Large,        \* those whose reply is longer than maxMessageBytes
  Work,         \* a bound: calls begun and events published
  EventBuffer,  \* eventBuffer, the client's event queue
  SubBuffer     \* the buffer of a bus subscription

ASSUME RpcAssumption ==
  /\ IsFiniteSet(Calls)
  /\ Work \in Nat /\ EventBuffer \in Nat \ {0} /\ SubBuffer \in Nat \ {0}
  /\ Deadlines \subseteq Calls /\ Large \subseteq Calls

VARIABLES
  caller,     \* each call: where it is, its id, and its reply channel
  pending,    \* c.pending: pairs of an id and a call
  nextID,     \* c.nextID
  stopped,    \* c.stopped
  closed,     \* c.closed is closed, and with it the client's end of the socket
  reader,     \* readLoop: reading, a reply about to be sent, or done
  events,     \* c.events
  seen,       \* the event the frontend received last, 0 before the first
  up, down,   \* the socket in either direction
  handler,    \* by id: none, running, or what it decided
  serving,    \* the server reads this connection and has not closed it
  cancelled,  \* connCtx is done
  stream,     \* the buffer of the bus subscription
  count,      \* events published so far
  forwarder,  \* the goroutine that forwards events
  effect,     \* history: what became of each call at the daemon
  overrun     \* history: the client's event queue was full once

clientVars == <<caller, pending, nextID, stopped, closed, reader, events, seen, overrun>>
serverVars == <<handler, serving, cancelled, stream, count, forwarder, effect>>
vars == <<clientVars, up, down, serverVars>>

Ids == 1..Cardinality(Calls)
NoReply == [id |-> 0, what |-> "none"]
Returned == {"ok", "refused", "failed"}

Init ==
  /\ caller = [c \in Calls |-> [pc |-> "idle", id |-> 0, box |-> NoReply]]
  /\ pending = {} /\ nextID = 0
  /\ stopped = FALSE /\ closed = FALSE
  /\ reader = [pc |-> "reading", reply |-> NoReply, to |-> {}]
  /\ events = <<>> /\ seen = 0 /\ overrun = FALSE
  /\ up = <<>> /\ down = <<>>
  /\ handler = [i \in Ids |-> "none"]
  /\ serving = TRUE /\ cancelled = FALSE
  /\ stream = <<>> /\ count = 0 /\ forwarder = "running"
  /\ effect = [c \in Calls |-> "none"]

(***************************************************************************)
(* Client.Call.                                                            *)
(***************************************************************************)
Goto(c, pc) == caller' = [caller EXCEPT ![c].pc = pc]

CallStopped(c) ==
  /\ caller[c].pc = "idle" /\ stopped
  /\ Goto(c, "failed")
  /\ UNCHANGED <<pending, nextID, stopped, closed, reader, events, seen, overrun, up, down, serverVars>>

\* A slip: the id is taken without counting on.
RegisterSameID(c) ==
  /\ caller[c].pc = "idle" /\ ~stopped /\ count + nextID < Work
  /\ nextID' = 1
  /\ pending' = {p \in pending : p[1] # nextID'} \union {<<nextID', c>>}
  /\ caller' = [caller EXCEPT ![c] = [pc |-> "write", id |-> nextID', box |-> NoReply]]
  /\ UNCHANGED <<stopped, closed, reader, events, seen, overrun, up, down, serverVars>>

Register(c) ==
  /\ caller[c].pc = "idle" /\ ~stopped /\ count + nextID < Work
  /\ nextID' = nextID + 1
  /\ pending' = pending \union {<<nextID', c>>}
  /\ caller' = [caller EXCEPT ![c] = [pc |-> "write", id |-> nextID', box |-> NoReply]]
  /\ UNCHANGED <<stopped, closed, reader, events, seen, overrun, up, down, serverVars>>

Cleanup(c) == pending' = {p \in pending : p[1] # caller[c].id}

\* Writing fails once either end has closed the socket.
WriteRequest(c) ==
  /\ caller[c].pc = "write"
  /\ IF closed \/ ~serving
     THEN Cleanup(c) /\ Goto(c, "failed") /\ UNCHANGED up
     ELSE up' = Append(up, caller[c].id) /\ Goto(c, "waiting") /\ UNCHANGED pending
  /\ UNCHANGED <<nextID, stopped, closed, reader, events, seen, overrun, down, serverVars>>

\* The three branches of the select: whichever is ready may be taken.
ContextEnds(c) ==
  /\ caller[c].pc = "waiting" /\ c \in Deadlines
  /\ Cleanup(c) /\ Goto(c, "failed")
  /\ UNCHANGED <<nextID, stopped, closed, reader, events, seen, overrun, up, down, serverVars>>

ConnectionDropped(c) ==
  /\ caller[c].pc = "waiting" /\ closed
  /\ Goto(c, "failed")
  /\ UNCHANGED <<pending, nextID, stopped, closed, reader, events, seen, overrun, up, down, serverVars>>

ReplyArrives(c) ==
  /\ caller[c].pc = "waiting" /\ caller[c].box # NoReply
  /\ Goto(c, IF caller[c].box.what = "applied" THEN "ok" ELSE "refused")
  /\ UNCHANGED <<pending, nextID, stopped, closed, reader, events, seen, overrun, up, down, serverVars>>

(***************************************************************************)
(* Client.shutdown, by Close or by the read loop: mark, then wake.         *)
(***************************************************************************)
Close ==
  /\ ~stopped
  /\ stopped' = TRUE
  /\ UNCHANGED <<caller, pending, nextID, closed, reader, events, seen, overrun, up, down, serverVars>>

Wake ==
  /\ stopped /\ ~closed
  /\ closed' = TRUE
  /\ UNCHANGED <<caller, pending, nextID, stopped, reader, events, seen, overrun, up, down, serverVars>>

(***************************************************************************)
(* Client.readLoop and deliver.                                            *)
(***************************************************************************)
IsEvent(frame) == frame.id = 0
TooLong(frame) == \E c \in Large : caller[c].id = frame.id /\ caller[c].id # 0

\* A slip: the read loop waits for room in the event queue.
ReadEventBlocking ==
  /\ reader.pc = "reading" /\ ~closed /\ down # <<>> /\ IsEvent(Head(down))
  /\ Len(events) < EventBuffer
  /\ down' = Tail(down)
  /\ events' = Append(events, Head(down).what)
  /\ UNCHANGED <<caller, pending, nextID, stopped, closed, reader, seen, overrun, up, serverVars>>

\* The newest event is dropped where the frontend is behind.
ReadEvent ==
  /\ reader.pc = "reading" /\ ~closed /\ down # <<>> /\ IsEvent(Head(down))
  /\ down' = Tail(down)
  /\ IF Len(events) < EventBuffer
     THEN events' = Append(events, Head(down).what) /\ UNCHANGED overrun
     ELSE overrun' = TRUE /\ UNCHANGED events
  /\ UNCHANGED <<caller, pending, nextID, stopped, closed, reader, seen, up, serverVars>>

\* deliver takes the reply's channel out of pending; a reply nobody waits for is lost.
ReadReply ==
  /\ reader.pc = "reading" /\ ~closed /\ down # <<>>
  /\ ~IsEvent(Head(down)) /\ ~TooLong(Head(down))
  /\ LET found == {p \in pending : p[1] = Head(down).id}
     IN  /\ pending' = pending \ found
         /\ reader' = IF found = {} THEN reader
                      ELSE [pc |-> "sending", reply |-> Head(down), to |-> {p[2] : p \in found}]
  /\ down' = Tail(down)
  /\ UNCHANGED <<caller, nextID, stopped, closed, events, seen, overrun, up, serverVars>>

\* ... and sends outside the lock; the channel has room for one, so this never waits.
Deliver ==
  /\ reader.pc = "sending"
  /\ caller' = [c \in Calls |-> IF c \in reader.to THEN [caller[c] EXCEPT !.box = reader.reply]
                                ELSE caller[c]]
  /\ reader' = [pc |-> "reading", reply |-> NoReply, to |-> {}]
  /\ UNCHANGED <<pending, nextID, stopped, closed, events, seen, overrun, up, down, serverVars>>

\* The socket is closed at this end, or at the other and empty, or the frame is too
\* long for the scanner: shutdown, and close(c.events).
ReadFails ==
  /\ reader.pc = "reading"
  /\ \/ closed
     \/ ~serving /\ down = <<>>
     \/ down # <<>> /\ ~IsEvent(Head(down)) /\ TooLong(Head(down))
  /\ stopped' = TRUE
  /\ reader' = [pc |-> "done", reply |-> NoReply, to |-> {}]
  /\ UNCHANGED <<caller, pending, nextID, closed, events, seen, overrun, up, down, serverVars>>

\* The frontend takes the next event; one that never does harms nobody else.
Consume ==
  /\ events # <<>>
  /\ seen' = Head(events) /\ events' = Tail(events)
  /\ UNCHANGED <<caller, pending, nextID, stopped, closed, reader, overrun, up, down, serverVars>>

(***************************************************************************)
(* Server.serveConn and handle.                                            *)
(***************************************************************************)
ReadRequest ==
  /\ serving /\ up # <<>>
  /\ handler' = [handler EXCEPT ![Head(up)] = "running"]
  /\ up' = Tail(up)
  /\ UNCHANGED <<clientVars, down, serving, cancelled, stream, count, forwarder, effect>>

\* Cancel the context, unsubscribe, close: handlers that run keep running.
ServerSeesClose ==
  /\ serving /\ up = <<>> /\ closed
  /\ serving' = FALSE /\ cancelled' = TRUE
  /\ UNCHANGED <<clientVars, up, down, handler, stream, count, forwarder, effect>>

CallWith(i) == CHOOSE c \in Calls : caller[c].id = i

\* The handler does its work or refuses; a request nobody waits for is carried out too.
Handle(i) ==
  /\ handler[i] = "running"
  /\ \E what \in {"applied", "rejected"} :
       /\ handler' = [handler EXCEPT ![i] = what]
       /\ effect' = [effect EXCEPT ![CallWith(i)] = what]
  /\ UNCHANGED <<clientVars, up, down, serving, cancelled, stream, count, forwarder>>

Reply(i) ==
  /\ handler[i] \in {"applied", "rejected"}
  /\ handler' = [handler EXCEPT ![i] = "none"]
  /\ down' = IF serving /\ ~closed THEN Append(down, [id |-> i, what |-> handler[i]]) ELSE down
  /\ UNCHANGED <<clientVars, up, serving, cancelled, stream, count, forwarder, effect>>

\* A slip: a full subscription loses the newest event.
PublishDropsNewest ==
  /\ count + nextID < Work /\ serving
  /\ count' = count + 1
  /\ stream' = IF Len(stream) < SubBuffer THEN Append(stream, count') ELSE stream
  /\ UNCHANGED <<clientVars, up, down, handler, serving, cancelled, forwarder, effect>>

\* Bus: a full subscription loses its oldest event.
Publish ==
  /\ count + nextID < Work /\ serving
  /\ count' = count + 1
  /\ stream' = Append(IF Len(stream) < SubBuffer THEN stream ELSE Tail(stream), count')
  /\ UNCHANGED <<clientVars, up, down, handler, serving, cancelled, forwarder, effect>>

Forward ==
  /\ forwarder = "running" /\ stream # <<>>
  /\ stream' = Tail(stream)
  /\ IF serving /\ ~closed
     THEN /\ down' = Append(down, [id |-> 0, what |-> Head(stream)])
          /\ UNCHANGED <<cancelled, forwarder>>
     ELSE cancelled' = TRUE /\ forwarder' = "done" /\ UNCHANGED down
  /\ UNCHANGED <<clientVars, up, handler, serving, count, effect>>

ForwarderEnds ==
  /\ forwarder = "running" /\ cancelled
  /\ forwarder' = "done"
  /\ UNCHANGED <<clientVars, up, down, handler, serving, cancelled, stream, count, effect>>

\* The daemon's context ends: the connection is neither closed nor read less.
DaemonStops ==
  /\ ~cancelled
  /\ cancelled' = TRUE
  /\ UNCHANGED <<clientVars, up, down, handler, serving, stream, count, forwarder, effect>>

\* The process ends, with whatever still runs in it.
DaemonExits ==
  /\ cancelled /\ serving
  /\ serving' = FALSE
  /\ handler' = [i \in Ids |-> "none"]
  /\ forwarder' = "done"
  /\ UNCHANGED <<clientVars, up, down, cancelled, stream, count, effect>>

-----------------------------------------------------------------------------
CallStep(c) == WriteRequest(c) \/ ContextEnds(c) \/ ConnectionDropped(c) \/ ReplyArrives(c)
ReaderStep  == ReadEvent \/ ReadReply \/ Deliver \/ ReadFails
ServerStep  == ReadRequest \/ ServerSeesClose

Next ==
  \/ \E c \in Calls : CallStopped(c) \/ Register(c) \/ CallStep(c)
  \/ Close \/ Wake \/ ReaderStep \/ Consume
  \/ ServerStep \/ \E i \in Ids : Handle(i) \/ Reply(i)
  \/ Publish \/ Forward \/ ForwarderEnds \/ DaemonStops \/ DaemonExits

Spec == Init /\ [][Next]_vars

\* Goroutines that can run do, and handlers return.  Nothing is assumed of the
\* frontend that consumes events, nor of contexts: most end long after the answer.
FairSpec ==
  /\ Spec
  /\ \A c \in Calls : WF_vars(WriteRequest(c) \/ ConnectionDropped(c) \/ ReplyArrives(c))
  /\ WF_vars(Wake) /\ WF_vars(ReaderStep) /\ WF_vars(ServerStep)
  /\ \A i \in Ids : WF_vars(Handle(i)) /\ WF_vars(Reply(i))

-----------------------------------------------------------------------------
Decisions == {"applied", "rejected"}
Replies == [id : Ids, what : Decisions]
Frames == Replies \union [id : {0}, what : Nat]   \* an event's frame has no id

Callers == [Calls -> [pc : {"idle", "write", "waiting"} \union Returned, id : Ids \union {0},
                      box : Replies \union {NoReply}]]

TypeOK ==
  /\ caller \in Callers
  /\ pending \subseteq Ids \X Calls /\ nextID \in Ids \union {0}
  /\ {stopped, closed, overrun, serving, cancelled} \subseteq BOOLEAN
  /\ reader \in [pc : {"reading", "sending", "done"}, reply : Replies \union {NoReply}, to : SUBSET Calls]
  /\ events \in Seq(Nat) /\ Len(events) <= EventBuffer /\ seen \in Nat
  /\ up \in Seq(Ids) /\ down \in Seq(Frames)
  /\ handler \in [Ids -> {"none", "running"} \union Decisions]
  /\ stream \in Seq(Nat) /\ Len(stream) <= SubBuffer /\ count \in Nat
  /\ forwarder \in {"running", "done"}
  /\ effect \in [Calls -> {"none"} \union Decisions]

\* No call outlives its entry in c.pending by leaving it there: a frontend that makes
\* calls with timeouts for days does not grow (client.go:81-85).
PendingIsWaitedFor ==
  ~stopped => \A p \in pending : caller[p[2]].pc \in {"write", "waiting"}

\* A frontend that never was EventBuffer behind has, when all is delivered, seen the
\* newest event, however far the connection was behind the engine: the one queue that
\* drops its newest is the client's (client.go:142), the bus drops its oldest.
LatestEventArrives ==
  (count > 0 /\ ~overrun /\ ~stopped /\ ~cancelled /\ stream = <<>> /\ down = <<>> /\ events = <<>>)
    => seen = count

\* Every call returns, even if the frontend never reads its events: an answer, or an
\* error once the connection has dropped (client.go:57-58).  When it drops, from either
\* end, the event queue is closed (client.go:51-52), and the server gives it up.
NobodyIsLeftWaiting ==
  /\ \A c \in Calls : caller[c].pc = "write" ~> caller[c].pc \in Returned
  /\ stopped ~> reader.pc = "done"
  /\ closed ~> ~serving
  /\ ~serving ~> stopped

Outcome(c) == IF caller[c].pc \in {"write", "waiting"} THEN "open" ELSE caller[c].pc

Service == INSTANCE RpcService WITH outcome <- [c \in Calls |-> Outcome(c)]

\* A caller's answer is the daemon's decision on its own call, which is made once.
ImplementsRpcService == Service!Spec
=============================================================================
