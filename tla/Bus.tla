--------------------------------- MODULE Bus ---------------------------------
(***************************************************************************)
(* The daemon's event bus, internal/engine/bus.go: Subscribe, unsubscribe, *)
(* Publish and Close.  Publish copies the list of channels under b.mu and  *)
(* sends with the lock released, so every channel operation of a Publish   *)
(* is a step of its own, between which other publishers, consumers and an  *)
(* unsubscribe take theirs.  An event is named by the Publish call that    *)
(* carries it, a channel by the Subscribe call that made it.               *)
(***************************************************************************)
EXTENDS Naturals, Sequences, FiniteSets

CONSTANTS
  Events,       \* calls of Publish
  Subscribers,  \* calls of Subscribe
  SubBuffer,    \* capacity of a subscriber's channel
  NoSub         \* a publisher that is between two channels

ASSUME BusAssumption ==
  /\ SubBuffer \in Nat \ {0}
  /\ NoSub \notin Subscribers

VARIABLES
  busDown,  \* b.closed
  subs,       \* the channels in b.subs
  opened,     \* the Subscribe calls that have returned
  closes,     \* how often each channel was closed
  chan,       \* the buffer of each channel
  got,        \* what the consumer of each channel has received
  released,   \* the consumers that have seen their channel closed
  progress,      \* how far each Publish call has come
  todo,       \* the copied channels a Publish call has still to serve
  at,         \* the channel a Publish call found full
  snapshot,   \* the channels a Publish call copied
  prior,      \* the Publish calls that had returned when this one began
  discarded   \* the events each channel lost for lack of room

busVars == <<busDown, subs, opened, closes, chan, got, released, progress, todo, at,
          snapshot, prior, discarded>>

BusInit ==
  /\ busDown = FALSE
  /\ subs = {}
  /\ opened = {}
  /\ closes = [s \in Subscribers |-> 0]
  /\ chan = [s \in Subscribers |-> <<>>]
  /\ got = [s \in Subscribers |-> <<>>]
  /\ released = {}
  /\ progress = [e \in Events |-> "new"]
  /\ todo = [e \in Events |-> {}]
  /\ at = [e \in Events |-> NoSub]
  /\ snapshot = [e \in Events |-> {}]
  /\ prior = [e \in Events |-> {}]
  /\ discarded = [s \in Subscribers |-> {}]

IsClosed(s) == closes[s] > 0

publishVars == <<progress, todo, at, snapshot, prior, discarded>>

-----------------------------------------------------------------------------
Subscribe(s) ==
  /\ s \notin opened
  /\ opened' = opened \union {s}
  /\ IF busDown
       THEN closes' = [closes EXCEPT ![s] = @ + 1] /\ UNCHANGED subs
       ELSE subs' = subs \union {s} /\ UNCHANGED closes
  /\ UNCHANGED <<busDown, chan, got, released, publishVars>>

(***************************************************************************)
(* The cancel function Subscribe returned; calling it again, or after      *)
(* Close, finds no channel and does nothing.                               *)
(***************************************************************************)
Unsubscribe(s) ==
  /\ s \in subs
  /\ subs' = subs \ {s}
  /\ closes' = [closes EXCEPT ![s] = @ + 1]
  /\ UNCHANGED <<busDown, opened, chan, got, released, publishVars>>

Close ==
  /\ ~busDown
  /\ busDown' = TRUE
  /\ subs' = {}
  /\ closes' = [s \in Subscribers |->
                  IF s \in subs THEN closes[s] + 1 ELSE closes[s]]
  /\ UNCHANGED <<opened, chan, got, released, publishVars>>

-----------------------------------------------------------------------------
ReturnedCalls == {e \in Events : progress[e] = "done"}

Publish(e) ==
  /\ progress[e] = "new"
  /\ progress' = [progress EXCEPT ![e] = IF busDown THEN "done" ELSE "sending"]
  /\ todo' = [todo EXCEPT ![e] = subs]
  /\ snapshot' = [snapshot EXCEPT ![e] = subs]
  /\ prior' = [prior EXCEPT ![e] = ReturnedCalls]
  /\ UNCHANGED <<busDown, subs, opened, closes, chan, got, released, at,
                 discarded>>

\* A slip: one recover around the whole loop, so that the first closed channel
\* ends the Publish.
SendAbortsOnClosed(e, s) ==
  /\ progress[e] = "sending" /\ at[e] = NoSub
  /\ s \in todo[e]
  /\ IF IsClosed(s)
       THEN todo' = [todo EXCEPT ![e] = {}] /\ UNCHANGED <<chan, at>>
       ELSE /\ todo' = [todo EXCEPT ![e] = @ \ {s}]
            /\ IF Len(chan[s]) < SubBuffer
                 THEN chan' = [chan EXCEPT ![s] = Append(@, e)] /\ UNCHANGED at
                 ELSE at' = [at EXCEPT ![e] = s] /\ UNCHANGED chan
  /\ UNCHANGED <<busDown, subs, opened, closes, got, released, progress,
                 snapshot, prior, discarded>>

\* A slip: a channel whose oldest event was dropped is served once more by the
\* loop, although the retry has already served it.
SendServesAgain(e, s) ==
  /\ progress[e] = "sending" /\ at[e] = NoSub
  /\ s \in todo[e]
  /\ CASE IsClosed(s) -> todo' = [todo EXCEPT ![e] = @ \ {s}] /\ UNCHANGED <<chan, at>>
       [] ~IsClosed(s) /\ Len(chan[s]) < SubBuffer ->
            /\ todo' = [todo EXCEPT ![e] = @ \ {s}]
            /\ chan' = [chan EXCEPT ![s] = Append(@, e)]
            /\ UNCHANGED at
       [] OTHER -> at' = [at EXCEPT ![e] = s] /\ UNCHANGED <<chan, todo>>
  /\ UNCHANGED <<busDown, subs, opened, closes, got, released, progress,
                 snapshot, prior, discarded>>

(***************************************************************************)
(* The first select, for one of the copied channels (a map has no order).  *)
(* A channel closed since the copy panics and the panic is recovered.      *)
(***************************************************************************)
Send(e, s) ==
  /\ progress[e] = "sending" /\ at[e] = NoSub
  /\ s \in todo[e]
  /\ todo' = [todo EXCEPT ![e] = @ \ {s}]
  /\ CASE IsClosed(s) -> UNCHANGED <<chan, at>>
       [] ~IsClosed(s) /\ Len(chan[s]) < SubBuffer ->
            chan' = [chan EXCEPT ![s] = Append(@, e)] /\ UNCHANGED at
       [] OTHER -> at' = [at EXCEPT ![e] = s] /\ UNCHANGED chan
  /\ UNCHANGED <<busDown, subs, opened, closes, got, released, progress,
                 snapshot, prior, discarded>>

(***************************************************************************)
(* The second select: take the oldest event out, unless the consumer has   *)
(* emptied the channel meanwhile.                                          *)
(***************************************************************************)
Discard(e) ==
  /\ progress[e] = "sending" /\ at[e] # NoSub
  /\ progress' = [progress EXCEPT ![e] = "retry"]
  /\ IF chan[at[e]] = <<>>
       THEN UNCHANGED <<chan, discarded>>
       ELSE /\ chan' = [chan EXCEPT ![at[e]] = Tail(@)]
            /\ discarded' = [discarded EXCEPT ![at[e]] =
                               @ \union {Head(chan[at[e]])}]
  /\ UNCHANGED <<busDown, subs, opened, closes, got, released, todo, at,
                 snapshot, prior>>

(***************************************************************************)
(* The third select: another publisher may have taken the room made.       *)
(***************************************************************************)
Retry(e) ==
  /\ progress[e] = "retry"
  /\ progress' = [progress EXCEPT ![e] = "sending"]
  /\ at' = [at EXCEPT ![e] = NoSub]
  /\ CASE IsClosed(at[e]) -> UNCHANGED <<chan, discarded>>
       [] ~IsClosed(at[e]) /\ Len(chan[at[e]]) < SubBuffer ->
            chan' = [chan EXCEPT ![at[e]] = Append(@, e)] /\ UNCHANGED discarded
       [] OTHER -> /\ discarded' = [discarded EXCEPT ![at[e]] = @ \union {e}]
                   /\ UNCHANGED chan
  /\ UNCHANGED <<busDown, subs, opened, closes, got, released, todo,
                 snapshot, prior>>

PublishReturn(e) ==
  /\ progress[e] = "sending" /\ at[e] = NoSub
  /\ todo[e] = {}
  /\ progress' = [progress EXCEPT ![e] = "done"]
  /\ UNCHANGED <<busDown, subs, opened, closes, chan, got, released, todo, at,
                 snapshot, prior, discarded>>

-----------------------------------------------------------------------------
(***************************************************************************)
(* The consumer: a connection of the RPC server or a watcher in the        *)
(* engine.  A closed channel delivers its buffer before it reports closed. *)
(***************************************************************************)
Receive(s) ==
  /\ s \in opened
  /\ chan[s] # <<>>
  /\ got' = [got EXCEPT ![s] = Append(@, Head(chan[s]))]
  /\ chan' = [chan EXCEPT ![s] = Tail(@)]
  /\ UNCHANGED <<busDown, subs, opened, closes, released, publishVars>>

ReceiveClosed(s) ==
  /\ IsClosed(s) /\ chan[s] = <<>>
  /\ s \notin released
  /\ released' = released \union {s}
  /\ UNCHANGED <<busDown, subs, opened, closes, chan, got, publishVars>>

PublishStep(e) ==
  \/ \E s \in Subscribers : Send(e, s)
  \/ Discard(e)
  \/ Retry(e)
  \/ PublishReturn(e)

Consume(s) == Receive(s) \/ ReceiveClosed(s)

BusNext ==
  \/ \E s \in Subscribers : Subscribe(s) \/ Unsubscribe(s) \/ Consume(s)
  \/ \E e \in Events : Publish(e) \/ PublishStep(e)
  \/ Close

BusSpec == BusInit /\ [][BusNext]_busVars

(***************************************************************************)
(* A Publish that has begun is a running goroutine; consumers are not      *)
(* assumed to read at all.                                                 *)
(***************************************************************************)
PublisherFairness == \A e \in Events : WF_busVars(PublishStep(e))

(***************************************************************************)
(* What a consumer that loops over its channel does; only the property     *)
(* about those that read assumes it.                                       *)
(***************************************************************************)
ConsumerFairness == \A s \in Subscribers : WF_busVars(Consume(s))

BusFairSpec == BusSpec /\ PublisherFairness

-----------------------------------------------------------------------------
BusTypeOK ==
  /\ busDown \in BOOLEAN
  /\ subs \subseteq opened
  /\ opened \subseteq Subscribers
  /\ closes \in [Subscribers -> Nat]
  /\ chan \in [Subscribers -> Seq(Events)]
  /\ \A s \in Subscribers : Len(chan[s]) <= SubBuffer
  /\ got \in [Subscribers -> Seq(Events)]
  /\ released \subseteq opened
  /\ progress \in [Events -> {"new", "sending", "retry", "done"}]
  /\ todo \in [Events -> SUBSET Subscribers]
  /\ at \in [Events -> Subscribers \union {NoSub}]
  /\ snapshot \in [Events -> SUBSET Subscribers]
  /\ prior \in [Events -> SUBSET Events]
  /\ discarded \in [Subscribers -> SUBSET Events]

Stream(s) == got[s] \o chan[s]

(***************************************************************************)
(* A subscriber sees each event at most once, and never an event after     *)
(* another whose Publish began only when its own had returned: a job's     *)
(* CrawlDone does not overtake its progress events.                        *)
(***************************************************************************)
StreamInOrder ==
  \A s \in Subscribers : \A i, k \in 1..Len(Stream(s)) :
    i < k => /\ Stream(s)[i] # Stream(s)[k]
             /\ Stream(s)[k] \notin prior[Stream(s)[i]]

(***************************************************************************)
(* A channel is closed at most once, whoever of unsubscribe and Close      *)
(* comes first (a second close would panic), and a closed bus leaves no    *)
(* channel open for a consumer to wait on.                                 *)
(***************************************************************************)
ClosedOnce ==
  \A s \in Subscribers :
    /\ closes[s] <= 1
    /\ busDown /\ s \in opened => closes[s] = 1

(***************************************************************************)
(* A Publish that returned has served every channel it copied: the event   *)
(* reached the subscriber, or was given up for lack of room, or the        *)
(* channel was closed.  One closed channel does not cost the others their  *)
(* event.                                                                  *)
(***************************************************************************)
EverySubscriberServed ==
  \A e \in ReturnedCalls : \A s \in snapshot[e] :
    \/ IsClosed(s)
    \/ e \in discarded[s]
    \/ \E i \in 1..Len(Stream(s)) : Stream(s)[i] = e

(***************************************************************************)
(* Publish never blocks: it returns even if no subscriber reads.           *)
(***************************************************************************)
PublishReturns ==
  \A e \in Events : progress[e] = "sending" ~> progress[e] = "done"

(***************************************************************************)
(* Once the bus is closed every consumer is released, also one that        *)
(* subscribed afterwards, provided that consumers read (serveConn's        *)
(* forwarder and the watchers range over their channel).                   *)
(***************************************************************************)
CloseReleasesConsumers ==
  ConsumerFairness =>
    \A s \in Subscribers : busDown /\ s \in opened ~> s \in released
=============================================================================
