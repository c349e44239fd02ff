----------------------------- MODULE ShellProofs -----------------------------
(***************************************************************************)
(* Safety of Shell for any number of questions, downloads and jobs, with   *)
(* messages that are doubled, overtaken or answered late.                  *)
(*                                                                         *)
(* Asked: at most one question waits, it is one that was put, and nothing  *)
(* put later or waiting now has run; so an answer, whichever dialog it was *)
(* given to, finds a command that has not run, or none.                    *)
(*                                                                         *)
(* Counted: replies to downloads are only ever added and are taken one at  *)
(* a time, each by a tick of the batch if there is one.  That replies of   *)
(* an earlier batch tick the current one too only helps it.                *)
(***************************************************************************)
EXTENDS Shell, SequenceTheorems, TLAPS

Asked ==
  /\ asks \in Seq({"plain", "replay"}) /\ Len(asks) <= MaxAsks
  /\ pending \in 0..Len(asks)
  /\ ran \in [1..MaxAsks -> {0, 1}]
  /\ \A a \in 1..MaxAsks : a > Len(asks) \/ a = pending => ran[a] = 0

Xml == [type |-> "xml"]

\* A download is the only message of its type.
PlainXml == \A m \in DOMAIN inflight : m.type = "xml" => m = Xml

Counted ==
  /\ IsABag(inflight) /\ PlainXml
  /\ batch \in [total : Nat, done : Nat]
  /\ BatchIsAnswered

-----------------------------------------------------------------------------
(* Messages in flight: what sending and taking does to the counts. *)

\* Sending keeps every message and adds one copy of each sent.
LEMMA SentCounts ==
  ASSUME NEW B, IsABag(B), NEW M
  PROVE  /\ IsABag(B (+) SetToBag(M))
         /\ DOMAIN (B (+) SetToBag(M)) = DOMAIN B \union M
         /\ \A x : Copies(x, B) <= Copies(x, B (+) SetToBag(M))
         /\ \A x : Copies(x, B) \in Nat
<1> DEFINE C == B (+) SetToBag(M)
<1>1. DOMAIN C = DOMAIN B \union M
  BY DEF (+), SetToBag
<1>2. ASSUME NEW x \in DOMAIN C
      PROVE  C[x] = (IF x \in DOMAIN B THEN B[x] ELSE 0) + (IF x \in M THEN 1 ELSE 0)
  BY <1>1 DEF (+), SetToBag
<1>3. \A x \in DOMAIN B : B[x] \in {n \in Nat : n > 0}
  BY DEF IsABag
<1>4. \A x \in DOMAIN C : C[x] \in {n \in Nat : n > 0}
  BY <1>1, <1>2, <1>3
<1>5. C = [x \in DOMAIN C |-> C[x]]
  BY DEF (+)
<1>6. IsABag(C)
  BY <1>4, <1>5 DEF IsABag
<1>7. ASSUME NEW x PROVE Copies(x, B) \in Nat /\ Copies(x, B) <= Copies(x, C)
  BY <1>1, <1>2, <1>3 DEF Copies, BagIn, BagToSet
<1> QED BY <1>1, <1>6, <1>7

\* k downloads are k more replies to come.
LEMMA AddedCounts ==
  ASSUME NEW B, IsABag(B), NEW k \in Nat \ {0}
  PROVE  /\ IsABag(B (+) [m \in {Xml} |-> k])
         /\ DOMAIN (B (+) [m \in {Xml} |-> k]) = DOMAIN B \union {Xml}
         /\ Copies(Xml, B (+) [m \in {Xml} |-> k]) >= k
<1> DEFINE K == [m \in {Xml} |-> k]
           C == B (+) K
<1>0. DOMAIN K = {Xml} /\ \A x \in {Xml} : K[x] = k
  OBVIOUS
<1> HIDE DEF K
<1>1. DOMAIN C = DOMAIN B \union {Xml}
  BY <1>0 DEF (+)
<1>2. ASSUME NEW x \in DOMAIN C
      PROVE  C[x] = (IF x \in DOMAIN B THEN B[x] ELSE 0) + (IF x \in {Xml} THEN k ELSE 0)
  BY <1>0, <1>1 DEF (+)
<1>3. \A x \in DOMAIN B : B[x] \in {n \in Nat : n > 0}
  BY DEF IsABag
<1>4. \A x \in DOMAIN C : C[x] \in {n \in Nat : n > 0}
  BY <1>1, <1>2, <1>3
<1>5. C = [x \in DOMAIN C |-> C[x]]
  BY DEF (+)
<1>6. IsABag(C)
  BY <1>4, <1>5 DEF IsABag
<1>7. Copies(Xml, C) >= k
  BY <1>1, <1>2, <1>3 DEF Copies, BagIn, BagToSet
<1> QED BY <1>1, <1>6, <1>7 DEF K

\* Taking one message takes one copy of it and of nothing else.
LEMMA TakenCounts ==
  ASSUME NEW B, IsABag(B), NEW m
  PROVE  /\ IsABag(B (-) SetToBag({m}))
         /\ DOMAIN (B (-) SetToBag({m})) \subseteq DOMAIN B
         /\ \A x : x # m => Copies(x, B (-) SetToBag({m})) = Copies(x, B)
         /\ Copies(m, B (-) SetToBag({m})) >= Copies(m, B) - 1
<1> DEFINE C == B (-) SetToBag({m})
           left(x) == IF x = m THEN B[x] - 1 ELSE B[x]
<1>1. C = [x \in {y \in DOMAIN B : left(y) > 0} |-> left(x)]
  BY DEF (-), SetToBag
<1>2. \A x \in DOMAIN B : B[x] \in {n \in Nat : n > 0}
  BY DEF IsABag
<1>3. DOMAIN C = {y \in DOMAIN B : left(y) > 0}
  BY <1>1
<1>4. \A x \in DOMAIN C : C[x] = left(x)
  BY <1>1
<1> HIDE DEF C
<1>5. IsABag(C)
  <2>1. \A x \in DOMAIN C : C[x] \in {n \in Nat : n > 0}
    BY <1>2, <1>3, <1>4
  <2>2. C = [x \in DOMAIN C |-> C[x]]
    BY <1>1, <1>3
  <2> QED BY <2>1, <2>2 DEF IsABag
<1>6. ASSUME NEW x, x # m PROVE Copies(x, C) = Copies(x, B)
  BY <1>2, <1>3, <1>4, <1>6 DEF Copies, BagIn, BagToSet
<1>7. Copies(m, C) >= Copies(m, B) - 1
  BY <1>2, <1>3, <1>4 DEF Copies, BagIn, BagToSet
<1> QED BY <1>3, <1>5, <1>6, <1>7 DEF C

-----------------------------------------------------------------------------
(* Questions. *)

LEMMA AskedAtFirst == Init => Asked
<1> SUFFICES ASSUME Init PROVE Asked
  OBVIOUS
<1>1. asks = <<>> /\ pending = 0 /\ ran = [a \in 1..MaxAsks |-> 0]
  BY DEF Init
<1>2. asks \in Seq({"plain", "replay"}) /\ Len(asks) = 0
  BY <1>1
<1>3. ran \in [1..MaxAsks -> {0, 1}]
  BY <1>1
<1>4. \A a \in 1..MaxAsks : ran[a] = 0
  BY <1>1
<1> QED BY <1>1, <1>2, <1>3, <1>4, ShellAssumption DEF Asked

\* A new question is the one that waits, and what waited before never runs.
LEMMA PutKeepsAsked ==
  ASSUME Asked, NEW kind \in {"plain", "replay"}, Put(kind)
  PROVE  Asked'
<1> DEFINE S == {"plain", "replay"}
<1>1. asks \in Seq(S) /\ Len(asks) < MaxAsks /\ asks' = Append(asks, kind)
      /\ pending' = Len(asks') /\ ran' = ran
  BY DEF Asked, Put
<1>2. asks' \in Seq(S) /\ Len(asks') = Len(asks) + 1 /\ Len(asks) \in Nat
  BY <1>1, AppendProperties, LenProperties
<1>3. pending' \in 0..Len(asks') /\ Len(asks') <= MaxAsks
  BY <1>1, <1>2, ShellAssumption
<1>4. \A a \in 1..MaxAsks : a > Len(asks') \/ a = pending' => ran[a] = 0
  BY <1>1, <1>2 DEF Asked
<1> QED BY <1>1, <1>2, <1>3, <1>4 DEF Asked

\* A yes runs the command that waits, which has not run, and nothing waits then.
LEMMA AcceptKeepsAsked ==
  ASSUME Asked, NEW m, ConfirmAccept(m)
  PROVE  Asked'
<1>1. asks' = asks /\ pending' = 0
      /\ ran' = IF pending = 0 THEN ran ELSE [ran EXCEPT ![pending] = @ + 1]
  BY DEF ConfirmAccept, Ran
<1>2. Len(asks) \in Nat /\ pending \in 0..Len(asks) /\ Len(asks) <= MaxAsks
  BY LenProperties DEF Asked
<1>3. CASE pending = 0
  BY <1>1, <1>2, <1>3 DEF Asked
<1>4. CASE pending # 0
  <2>1. pending \in 1..MaxAsks /\ ran[pending] = 0
    BY <1>2, <1>4, ShellAssumption DEF Asked
  <2>2. ran \in [1..MaxAsks -> {0, 1}] /\ ran' = [ran EXCEPT ![pending] = 1]
    BY <1>1, <1>4, <2>1 DEF Asked
  <2>3. ran' \in [1..MaxAsks -> {0, 1}]
    BY <2>1, <2>2
  <2>4. \A a \in 1..MaxAsks : a > Len(asks) => ran'[a] = 0
    BY <1>2, <2>1, <2>2 DEF Asked
  <2> QED BY <1>1, <1>2, <2>3, <2>4 DEF Asked
<1> QED BY <1>3, <1>4

\* A no drops the command that waits.
LEMMA RejectKeepsAsked ==
  ASSUME Asked, NEW m, ConfirmReject(m)
  PROVE  Asked'
<1>1. asks' = asks /\ ran' = ran /\ pending' = 0
  BY DEF ConfirmReject, askVars
<1>2. Len(asks) \in Nat
  BY LenProperties DEF Asked
<1> QED BY <1>1, <1>2 DEF Asked

\* Nothing else looks at the questions.
LEMMA OthersKeepAsked ==
  ASSUME Asked,
         \/ \E n \in Numbers : OpenDetail(n) \/ PatentDeleted(n)
         \/ Back \/ HistoryMove(cursor - 1) \/ HistoryMove(cursor + 1)
         \/ Prepare \/ PressYes \/ PressEsc
         \/ \E j \in Jobs, reply \in {"already", "started"} : Add(j, reply)
         \/ \E k \in Batches : FetchXML(k)
         \/ \E m : \/ CloseOverlay(m) \/ HistoryCheckResult(m) \/ ConfirmHistoryReplay(m)
                   \/ AlreadyInDB(m) \/ CrawlStarted(m) \/ CrawlDone(m) \/ XMLFetched(m)
  PROVE  Asked'
<1>1. UNCHANGED <<asks, pending, ran>>
  BY DEF OpenDetail, PatentDeleted, Back, HistoryMove, Prepare, PressYes, PressEsc, Answer, Add,
         FetchXML, CloseOverlay, HistoryCheckResult, ConfirmHistoryReplay, AlreadyInDB,
         CrawlStarted, CrawlDone, XMLFetched, askVars, viewVars
<1> QED BY <1>1 DEF Asked

LEMMA NextKeepsAsked == Asked /\ [Next]_vars => Asked'
<1> SUFFICES ASSUME Asked, [Next]_vars PROVE Asked'
  OBVIOUS
<1>1. CASE AskFirst
  BY <1>1, PutKeepsAsked DEF AskFirst
<1>2. CASE AskReplay
  BY <1>2, PutKeepsAsked DEF AskReplay
<1>3. CASE Deliver
  <2>1. PICK m \in BagToSet(inflight) :
          \/ ConfirmAccept(m) \/ ConfirmReject(m) \/ CloseOverlay(m)
          \/ HistoryCheckResult(m) \/ ConfirmHistoryReplay(m) \/ Prepared(m)
          \/ AlreadyInDB(m) \/ CrawlStarted(m) \/ CrawlDone(m) \/ XMLFetched(m)
    BY <1>3 DEF Deliver
  <2>2. CASE Prepared(m)
    BY <2>2, PutKeepsAsked DEF Prepared
  <2> QED BY <2>1, <2>2, AcceptKeepsAsked, RejectKeepsAsked, OthersKeepAsked
<1>4. CASE UNCHANGED vars
  BY <1>4 DEF vars, askVars, viewVars, Asked
<1> QED BY <1>1, <1>2, <1>3, <1>4, OthersKeepAsked DEF Next, User

\* Whatever is doubled, overtaken or answered late, the command of a question runs at
\* most once: confirmCmd is cleared with the first answer (app.go:778-796).
THEOREM AcceptedCommandsRunOnce == Spec => []RunsOncePerAsking
<1>1. Asked => RunsOncePerAsking
  BY DEF Asked, RunsOncePerAsking
<1> QED BY <1>1, AskedAtFirst, NextKeepsAsked, PTL DEF Spec

-----------------------------------------------------------------------------
(* Downloads. *)

LEMMA CountedAtFirst == Init => Counted
<1> SUFFICES ASSUME Init PROVE Counted
  OBVIOUS
<1>1. inflight = [e \in {} |-> 1] /\ batch = NoBatch
  BY DEF Init, EmptyBag, SetToBag
<1>2. DOMAIN inflight = {}
  BY <1>1
<1>3. IsABag(inflight)
  BY <1>1, <1>2 DEF IsABag
<1> QED BY <1>1, <1>2, <1>3 DEF Counted, PlainXml, BatchIsAnswered, NoBatch

\* What Counted says of the messages, for any of them.
Waits(bag) ==
  /\ IsABag(bag)
  /\ \A m \in DOMAIN bag : m.type = "xml" => m = Xml
  /\ batch # NoBatch => batch.total - batch.done <= Copies(Xml, bag)

LEMMA CountedIsWaits == Counted <=> batch \in [total : Nat, done : Nat] /\ Waits(inflight)
BY DEF Counted, Waits, PlainXml, BatchIsAnswered, Xml

\* A message of another type that is taken is no reply of a batch.
LEMMA TakenWaits ==
  ASSUME Counted, NEW m, m.type # "xml"
  PROVE  Waits(inflight (-) SetToBag({m}))
<1> DEFINE C == inflight (-) SetToBag({m})
<1>1. Waits(inflight)
  BY CountedIsWaits
<1>2. IsABag(inflight) /\ m # Xml
  BY <1>1 DEF Waits, Xml
<1>3. IsABag(C) /\ DOMAIN C \subseteq DOMAIN inflight
      /\ Copies(Xml, C) = Copies(Xml, inflight)
  BY <1>2, TakenCounts
<1> HIDE DEF C
<1>4. Waits(C)
  BY <1>1, <1>3 DEF Waits
<1> QED BY <1>4 DEF C

LEMMA SentWaits ==
  ASSUME batch \in [total : Nat, done : Nat], NEW B, Waits(B), NEW M, \A m \in M : m.type # "xml"
  PROVE  Waits(B (+) SetToBag(M))
<1> DEFINE C == B (+) SetToBag(M)
<1>1. IsABag(B)
  BY DEF Waits
<1>2. IsABag(C) /\ DOMAIN C = DOMAIN B \union M
      /\ Copies(Xml, B) \in Nat /\ Copies(Xml, B) <= Copies(Xml, C)
  BY <1>1, SentCounts
<1> HIDE DEF C
<1>3. Copies(Xml, C) \in Nat
  BY <1>2, SentCounts
<1>4. batch # NoBatch => batch.total - batch.done <= Copies(Xml, C)
  BY <1>2, <1>3 DEF Waits
<1>5. Waits(C)
  BY <1>2, <1>4 DEF Waits
<1> QED BY <1>5 DEF C

\* Steps that leave the batch alone and keep waiting for it.
LEMMA SteadyKeepsCounted ==
  ASSUME Counted, batch' = batch, Waits(inflight')
  PROVE  Counted'
BY CountedIsWaits DEF Counted, PlainXml, BatchIsAnswered, Waits, Xml

\* The user's commands and answers send messages of other types, or none.
LEMMA UserKeepsCounted ==
  ASSUME Counted,
         \/ \E n \in Numbers : OpenDetail(n) \/ PatentDeleted(n)
         \/ Back \/ HistoryMove(cursor - 1) \/ HistoryMove(cursor + 1)
         \/ AskFirst \/ AskReplay \/ Prepare \/ PressYes \/ PressEsc
         \/ \E j \in Jobs, reply \in {"already", "started"} : Add(j, reply)
  PROVE  Counted'
<1>0. batch \in [total : Nat, done : Nat] /\ Waits(inflight)
  BY CountedIsWaits
<1>1. batch' = batch
  BY DEF OpenDetail, PatentDeleted, Back, HistoryMove, AskFirst, AskReplay, Prepare, PressYes,
         PressEsc, Answer, Add
<1>2. CASE inflight' = inflight
  BY <1>0, <1>1, <1>2, SteadyKeepsCounted
<1>3. CASE \E M : inflight' = Sent(M) /\ \A m \in M : m.type # "xml"
  BY <1>0, <1>1, <1>3, SentWaits, SteadyKeepsCounted DEF Sent
<1>4. ASSUME NEW n \in Numbers, OpenDetail(n) \/ PatentDeleted(n)
      PROVE  inflight' = inflight
  BY <1>4 DEF OpenDetail, PatentDeleted
<1>5. CASE Back \/ AskFirst \/ AskReplay
  BY <1>2, <1>5 DEF Back, AskFirst, AskReplay
<1>6. ASSUME NEW target, HistoryMove(target)
      PROVE  Counted'
  <2> DEFINE m == [type |-> "checked", target |-> target, number |-> history[target + 1],
                   found |-> history[target + 1] \in stored]
  <2>1. inflight' = Sent({m}) \/ inflight' = inflight
    BY <1>6 DEF HistoryMove
  <2>2. m.type # "xml"
    OBVIOUS
  <2> HIDE DEF m
  <2> QED BY <1>2, <1>3, <2>1, <2>2
<1>7. CASE Prepare
  <2>1. inflight' = Sent({[type |-> "prepared"]})
    BY <1>7 DEF Prepare
  <2>2. \A m \in {[type |-> "prepared"]} : m.type # "xml"
    OBVIOUS
  <2> QED BY <1>3, <2>1, <2>2
<1>8. ASSUME NEW type \in {"accept", "reject", "close"}, Answer(type)
      PROVE  Counted'
  <2> DEFINE m == [type |-> type, to |-> IF type = "close" THEN 0 ELSE Last(overlays).ask]
  <2>1. inflight' = Sent({m})
    BY <1>8 DEF Answer
  <2>2. m.type # "xml"
    OBVIOUS
  <2> HIDE DEF m
  <2> QED BY <1>3, <2>1, <2>2
<1>9. CASE PressYes
  BY <1>8, <1>9 DEF PressYes
<1>10. CASE PressEsc
  BY <1>2, <1>8, <1>10 DEF PressEsc
<1>11. ASSUME NEW j \in Jobs, NEW reply \in {"already", "started"}, Add(j, reply)
       PROVE  Counted'
  <2> DEFINE M == {[type |-> reply, job |-> j], [type |-> "crawldone", job |-> j]}
  <2>1. inflight' = Sent(M)
    BY <1>11 DEF Add
  <2>2. \A m \in M : m.type # "xml"
    OBVIOUS
  <2> HIDE DEF M
  <2> QED BY <1>3, <2>1, <2>2
<1> QED BY <1>2, <1>4, <1>5, <1>6, <1>7, <1>9, <1>10, <1>11

\* A batch that is asked for waits for the replies that are added with it.
LEMMA FetchKeepsCounted ==
  ASSUME Counted, NEW k \in Batches, FetchXML(k)
  PROVE  Counted'
<1>1. k \in Nat \ {0} /\ IsABag(inflight) /\ PlainXml
  BY ShellAssumption DEF Counted
<1>2. inflight' = inflight (+) [m \in {Xml} |-> k]
  BY DEF FetchXML, Xml
<1>3. IsABag(inflight') /\ DOMAIN inflight' = DOMAIN inflight \union {Xml}
      /\ Copies(Xml, inflight') >= k /\ Copies(Xml, inflight') \in Nat
  BY <1>1, <1>2, AddedCounts, SentCounts
<1>4. PlainXml'
  BY <1>1, <1>3 DEF PlainXml
<1>5. batch' = NoBatch \/ batch' = [total |-> k, done |-> 0]
  BY DEF FetchXML
<1>6. batch' \in [total : Nat, done : Nat]
  BY <1>1, <1>5 DEF NoBatch
<1>7. BatchIsAnswered'
  <2> SUFFICES ASSUME batch' = [total |-> k, done |-> 0]
               PROVE  batch'.total - batch'.done <= Copies(Xml, inflight')
    BY <1>5 DEF BatchIsAnswered, Xml, NoBatch
  <2> QED BY <1>1, <1>3
<1> QED BY <1>3, <1>4, <1>6, <1>7 DEF Counted

\* A reply that arrives is taken, and counted if a batch waits.
LEMMA FetchedKeepsCounted ==
  ASSUME Counted, NEW m \in BagToSet(inflight), XMLFetched(m)
  PROVE  Counted'
<1>1. m = Xml /\ IsABag(inflight)
  BY DEF XMLFetched, Counted, PlainXml, BagToSet
<1>2. inflight' = inflight (-) SetToBag({Xml})
  BY <1>1 DEF XMLFetched
<1>3. IsABag(inflight') /\ DOMAIN inflight' \subseteq DOMAIN inflight
      /\ Copies(Xml, inflight') >= Copies(Xml, inflight) - 1
  BY <1>1, <1>2, TakenCounts
<1>4. Copies(Xml, inflight) \in Nat /\ Copies(Xml, inflight') \in Nat
  BY <1>1, <1>3, SentCounts
<1>5. PlainXml'
  BY <1>3 DEF Counted, PlainXml
<1>6. batch.total \in Nat /\ batch.done \in Nat /\ batch = [total |-> batch.total, done |-> batch.done]
  BY DEF Counted
<1>7. CASE batch = NoBatch
  BY <1>3, <1>5, <1>7 DEF XMLFetched, Counted, BatchIsAnswered
<1>8. CASE batch # NoBatch
  <2>1. batch' = IF batch.done + 1 < batch.total THEN [batch EXCEPT !.done = @ + 1] ELSE NoBatch
    BY <1>8 DEF XMLFetched, BatchTick
  <2>2. CASE ~(batch.done + 1 < batch.total)
    BY <1>3, <1>5, <2>1, <2>2 DEF Counted, BatchIsAnswered, NoBatch
  <2>3. CASE batch.done + 1 < batch.total
    <3>1. batch' = [total |-> batch.total, done |-> batch.done + 1]
      BY <1>6, <2>1, <2>3
    <3>2. batch.total - batch.done <= Copies(Xml, inflight)
      BY <1>8 DEF Counted, BatchIsAnswered, Xml
    <3>3. batch'.total - batch'.done <= Copies(Xml, inflight')
      BY <1>3, <1>4, <1>6, <3>1, <3>2
    <3> QED BY <1>3, <1>5, <1>6, <3>1, <3>3 DEF Counted, BatchIsAnswered, Xml
  <2> QED BY <2>2, <2>3
<1> QED BY <1>7, <1>8

\* Every other message leaves the batch alone when it arrives.
LEMMA ArrivalKeepsCounted ==
  ASSUME Counted, NEW m,
         \/ ConfirmAccept(m) \/ ConfirmReject(m) \/ CloseOverlay(m)
         \/ HistoryCheckResult(m) \/ ConfirmHistoryReplay(m) \/ Prepared(m)
         \/ AlreadyInDB(m) \/ CrawlStarted(m) \/ CrawlDone(m)
  PROVE  Counted'
<1> DEFINE rest == inflight (-) SetToBag({m})
<1>1. m.type # "xml" /\ batch' = batch
  BY DEF ConfirmAccept, ConfirmReject, CloseOverlay, HistoryCheckResult, ConfirmHistoryReplay,
         Prepared, AlreadyInDB, CrawlStarted, CrawlDone
<1>2. batch \in [total : Nat, done : Nat] /\ Waits(rest)
  BY <1>1, CountedIsWaits, TakenWaits
<1>3. \/ inflight' = rest
      \/ inflight' = rest (+) SetToBag({[type |-> "replay"]})
      \/ inflight' = rest (+) SetToBag({[type |-> "started", job |-> m.job]})
  BY DEF ConfirmAccept, ConfirmReject, CloseOverlay, HistoryCheckResult, ConfirmHistoryReplay,
         Prepared, AlreadyInDB, CrawlStarted, CrawlDone, Ran, Started
<1> HIDE DEF rest
<1>4. \A x \in {[type |-> "replay"]} : x.type # "xml"
  OBVIOUS
<1>5. \A x \in {[type |-> "started", job |-> m.job]} : x.type # "xml"
  OBVIOUS
<1>6. Waits(inflight')
  BY <1>2, <1>3, <1>4, <1>5, SentWaits
<1> QED BY <1>1, <1>6, SteadyKeepsCounted

LEMMA NextKeepsCounted == Counted /\ [Next]_vars => Counted'
<1> SUFFICES ASSUME Counted, [Next]_vars PROVE Counted'
  OBVIOUS
<1>1. CASE Deliver
  <2>1. PICK m \in BagToSet(inflight) :
          \/ ConfirmAccept(m) \/ ConfirmReject(m) \/ CloseOverlay(m)
          \/ HistoryCheckResult(m) \/ ConfirmHistoryReplay(m) \/ Prepared(m)
          \/ AlreadyInDB(m) \/ CrawlStarted(m) \/ CrawlDone(m) \/ XMLFetched(m)
    BY <1>1 DEF Deliver
  <2> QED BY <2>1, FetchedKeepsCounted, ArrivalKeepsCounted
<1>2. CASE UNCHANGED vars
  BY <1>2 DEF vars, Counted, PlainXml, BatchIsAnswered
<1> QED BY <1>1, <1>2, UserKeepsCounted, FetchKeepsCounted DEF Next, User

\* The last reply of a batch is always still to come while the batch is set, so its
\* tally is reported (app_commands.go:936-974).
THEOREM BatchesAreAnswered == Spec => []BatchIsAnswered
<1>1. Counted => BatchIsAnswered
  BY DEF Counted
<1> QED BY <1>1, CountedAtFirst, NextKeepsCounted, PTL DEF Spec
=============================================================================
