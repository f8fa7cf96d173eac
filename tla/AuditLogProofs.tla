--------------------------- MODULE AuditLogProofs ---------------------------
(***************************************************************************)
(* The audit writer (AuditLog), for every number of events and sinks and   *)
(* every size of the channel, the batch and the sink queues. Each safety   *)
(* property is proved from an inductive invariant of its own on top of     *)
(* TypeInv. SinkAfterStore and GapsCovered are inductive as they stand.    *)
(* CountersAddUp needs CountInv: what was emitted covers the calls before  *)
(* their send, the channel and the batch too. StoppedMeansDrained needs    *)
(* DrainInv: an event accepted before Stop is always somewhere, and not in *)
(* the channel once the writer made its last flush. AcceptedIsWritten, a   *)
(* liveness property, is left to TLC.                                      *)
(***************************************************************************)
EXTENDS AuditLog, FiniteCounts, TLAPS

\* The actions by who takes them.
StopSteps == Stop \/ StopDone \/ StopTimeout \/ StopGiveUp
InsertSteps == InsertOk \/ InsertFails
SelectSteps == Take \/ Tick \/ StopSeen \/ Drained
EmitSteps == \E e \in Events : Emit(e) \/ Send(e) \/ RecordGap(e)
SinkSteps == \E s \in Sinks : SinkTake(s) \/ SinkEnd(s)

TypeInv ==
    /\ TypeOK
    /\ life = "new" => pc = "off"
    /\ life # "closed" => stopper = "idle"
    /\ pc \notin {"flush", "insert"} => Len(buf) < BatchSize

CountInv ==
    stopper # "gaveup" =>
        counters.emitted >= counters.written + counters.dropped + Len(ch) + Len(buf)
                             + Cardinality({e \in Events : call[e] = "send"})

Accepted == {e \in Events : call[e] = "queued"}

(* Where the writer is, without the events.                                *)
WriterInv ==
    /\ mode # "loop" => life = "closed"
    /\ pc = "select" => mode # "final"
    /\ pc \in {"join", "done"} => mode = "final" /\ buf = <<>>
    /\ pc = "insert" => inflight = Len(buf) + (IF marked > 0 THEN 1 ELSE 0)
    /\ pc = "done" => \A s \in Sinks : sinkq[s] = <<>> /\ streaming[s] = <<>>
    /\ stopper = "returned" => pc = "done"

(* Where the accepted events are.                                          *)
EventInv ==
    /\ Accepted \subseteq Range(ch) \union Range(buf) \union stored \union lost
    /\ mode = "final" => Accepted \subseteq Range(buf) \union stored \union lost

DrainInv == WriterInv /\ EventInv

(* Lemmas about Range.                                                     *)

LEMMA RangeEmpty == Range(<<>>) = {}
BY DEF Range

LEMMA RangeAppend ==
    ASSUME NEW S, NEW s \in Seq(S), NEW x \in S
    PROVE  Range(Append(s, x)) = Range(s) \union {x}
<1>1. /\ DOMAIN Append(s, x) = DOMAIN s \union {Len(s) + 1} /\ Append(s, x)[Len(s) + 1] = x
      /\ \A i \in DOMAIN s : Append(s, x)[i] = s[i]
    OBVIOUS
<1> QED BY <1>1, Zenon DEF Range

LEMMA RangeHeadTail ==
    ASSUME NEW S, NEW s \in Seq(S), s # <<>>
    PROVE  /\ Head(s) \in S /\ Tail(s) \in Seq(S) /\ Len(Tail(s)) = Len(s) - 1
           /\ Range(s) = Range(Tail(s)) \union {Head(s)}
<1>1. Head(s) \in S /\ Tail(s) \in Seq(S) /\ Len(Tail(s)) = Len(s) - 1 /\ Len(s) \in Nat \ {0}
    OBVIOUS
<1>2. ASSUME NEW x \in Range(s) PROVE x \in Range(Tail(s)) \union {Head(s)}
  <2>1. PICK i \in DOMAIN s : x = s[i]
      BY Zenon DEF Range
  <2>2. CASE i = 1
      BY <2>1, <2>2 DEF Range
  <2>3. CASE i # 1
    <3>1. i - 1 \in DOMAIN Tail(s) /\ Tail(s)[i - 1] = s[i]
        BY <1>1, <2>3
    <3> QED BY <2>1, <3>1, Zenon DEF Range
  <2> QED BY <2>2, <2>3, Zenon
<1>3. ASSUME NEW x \in Range(Tail(s)) PROVE x \in Range(s)
  <2>1. PICK i \in DOMAIN Tail(s) : x = Tail(s)[i]
      BY <1>3, Zenon DEF Range
  <2>2. i + 1 \in DOMAIN s /\ Tail(s)[i] = s[i + 1]
      BY <1>1
  <2> QED BY <2>1, <2>2, Zenon DEF Range
<1>4. Head(s) \in Range(s)
    BY <1>1 DEF Range
<1> QED BY <1>1, <1>2, <1>3, <1>4, Zenon

LEMMA RangeType == ASSUME NEW S, NEW s \in Seq(S) PROVE Range(s) \subseteq S
BY DEF Range

(* TypeInv                                                                 *)

LEMMA CountType ==
    ASSUME counters \in [{"emitted", "written", "dropped", "failed"} -> Nat],
           NEW c \in {"emitted", "written", "dropped", "failed"}, NEW n \in Nat, Count(c, n)
    PROVE  /\ counters' \in [{"emitted", "written", "dropped", "failed"} -> Nat]
           /\ counters'[c] = counters[c] + n
           /\ \A d \in {"emitted", "written", "dropped", "failed"} \ {c} : counters'[d] = counters[d]
BY DEF Count

LEMMA NextSteps ==
    Next <=> Start \/ StopSteps \/ SelectSteps \/ Flush \/ InsertSteps \/ Join \/ EmitSteps \/ SinkSteps
BY Zenon DEF Next, StopSteps, SelectSteps, InsertSteps, EmitSteps, SinkSteps

(* The type invariant that the proofs below rest on.                       *)
LEMMA SpecTypes == Spec => []TypeInv
<1>InitTypes. Init => TypeInv
  BY SizesAssumption, SMTT(30) DEF Init, TypeInv, TypeOK
<1>NextTypes. ASSUME TypeInv, [Next]_vars PROVE TypeInv'
  <2> USE <1>NextTypes
  <2> USE SizesAssumption DEF TypeInv, TypeOK
  <2>1. CASE UNCHANGED vars
      BY <2>1, Zenon DEF vars, writerVars, storeVars, sinkVars
  <2>2. CASE Start
      BY <2>2, Zenon DEF Start, writerVars, storeVars, sinkVars
  <2>3. CASE StopSteps
    <3>1. CASE StopGiveUp
      <4>1. Len(ch) + inflight \in Nat
          OBVIOUS
      <4> QED BY <3>1, <4>1, CountType, SMTT(30) DEF StopGiveUp, writerVars, storeVars, sinkVars
    <3> QED BY <2>3, <3>1, Zenon DEF StopSteps, Stop, StopDone, StopTimeout, writerVars, storeVars, sinkVars
  <2>4. CASE Take
      BY <2>4, RangeHeadTail DEF Take, storeVars, sinkVars
  <2>5. CASE Tick \/ StopSeen \/ Drained
      BY <2>5, Zenon DEF Tick, StopSeen, Drained, storeVars, sinkVars
  <2>6. CASE Flush
      BY <2>6 DEF Flush, AfterFlush, storeVars, sinkVars
  <2>7. ASSUME BatchDone PROVE pc' \in {"join", "select"} /\ Len(buf') = 0 /\ buf' \in Seq(Events)
      BY <2>7 DEF BatchDone, AfterFlush
  <2>8. Range(buf) \subseteq Events
      BY RangeType, Zenon
  <2>9. CASE InsertOk
    <3>1. sinkq' \in [Sinks -> Seq(SUBSET Events)] /\ \A s \in Sinks : Len(sinkq'[s]) <= SinkQueueSize
      <4>1. ASSUME NEW s \in Sinks
            PROVE  /\ Append(sinkq[s], Range(buf)) \in Seq(SUBSET Events)
                   /\ Len(Append(sinkq[s], Range(buf))) = Len(sinkq[s]) + 1
          BY <2>8
      <4>2. /\ sinkq' \in [Sinks -> Seq(SUBSET Events)]
            /\ \A s \in Sinks : sinkq'[s] = sinkq[s]
                                \/ (Len(sinkq[s]) < SinkQueueSize /\ sinkq'[s] = Append(sinkq[s], Range(buf)))
          BY <4>1, <2>9 DEF InsertOk, FanOut, Full
      <4>3. \A s \in Sinks : Len(sinkq[s]) \in Nat /\ Len(sinkq[s]) <= SinkQueueSize
          OBVIOUS
      <4> HIDE DEF TypeInv
      <4> QED BY <4>1, <4>2, <4>3
    <3>2. counters' \in [{"emitted", "written", "dropped", "failed"} -> Nat]
        BY <2>9, CountType DEF InsertOk
    <3>3. /\ stored' \subseteq Events /\ lost' \subseteq Events /\ reported' \in Nat /\ doubled' \in Nat
          /\ gap' \in Nat /\ marked' \in Nat /\ inflight' \in Nat
        BY <2>8, <2>9 DEF InsertOk, BatchDone
    <3>4. /\ life' = life /\ call' = call /\ ch' = ch /\ mode' = mode /\ streaming' = streaming
          /\ stopper' = stopper /\ pc = "insert"
        BY <2>9, Zenon DEF InsertOk, BatchDone
    <3>5. BatchDone
        BY <2>9, Zenon DEF InsertOk
    <3>6. /\ pc' \in {"join", "select"} /\ buf' \in Seq(Events) /\ Len(buf') <= BatchSize
          /\ Len(buf') < BatchSize /\ life # "new"
        BY <2>7, <3>4, <3>5
    <3>7. TypeOK'
        BY <3>1, <3>2, <3>3, <3>4, <3>6, Zenon
    <3> QED BY <3>4, <3>6, <3>7, Zenon
  <2>10. CASE InsertFails
    <3>1. counters' \in [{"emitted", "written", "dropped", "failed"} -> Nat]
        BY <2>10, CountType, Zenon DEF InsertFails
    <3>2. /\ stored' \subseteq Events /\ lost' \subseteq Events /\ reported' \in Nat /\ doubled' \in Nat
          /\ gap' \in Nat /\ marked' \in Nat /\ inflight' \in Nat
      <4>1. /\ lost' = lost \union Range(buf) /\ gap' = gap + marked /\ marked' = 0 /\ inflight' = 0
            /\ stored' = stored \/ stored' = stored \union Range(buf)
            /\ reported' = reported \/ reported' = reported + marked
            /\ doubled' = doubled \/ doubled' = doubled + marked
          BY <2>10, Zenon DEF InsertFails, BatchDone
      <4> QED BY <2>8, <4>1
    <3>3. /\ life' = life /\ call' = call /\ ch' = ch /\ mode' = mode /\ sinkq' = sinkq
          /\ streaming' = streaming /\ stopper' = stopper /\ pc = "insert"
        BY <2>10, Zenon DEF InsertFails, BatchDone, sinkVars
    <3>4. BatchDone
        BY <2>10, Zenon DEF InsertFails
    <3>5. /\ pc' \in {"join", "select"} /\ buf' \in Seq(Events) /\ Len(buf') <= BatchSize
          /\ Len(buf') < BatchSize /\ life # "new"
        BY <2>7, <3>3, <3>4
    <3>6. TypeOK'
        BY <3>1, <3>2, <3>3, <3>5, Zenon
    <3> QED BY <3>3, <3>5, <3>6, Zenon
  <2>11. CASE Join
      BY <2>11, Zenon DEF Join, storeVars, sinkVars
  <2>12. CASE EmitSteps
    <3>1. PICK e \in Events : Emit(e) \/ Send(e) \/ RecordGap(e)
        BY <2>12, Zenon DEF EmitSteps
    <3>2. call' \in [Events -> {"none", "send", "queued", "late", "dropping", "dropped"}]
        BY <3>1, Zenon DEF Emit, Send, RecordGap
    <3>3. ch' \in Seq(Events) /\ Len(ch') <= BufferSize
      <4>1. Append(ch, e) \in Seq(Events) /\ Len(Append(ch, e)) = Len(ch) + 1
          OBVIOUS
      <4>2. ch' = ch \/ (ch' = Append(ch, e) /\ Len(ch) < BufferSize)
          BY <3>1, Zenon DEF Emit, Send, RecordGap
      <4>3. ch \in Seq(Events) /\ Len(ch) \in Nat /\ Len(ch) <= BufferSize
          OBVIOUS
      <4> HIDE DEF TypeInv
      <4> QED BY <4>1, <4>2, <4>3
    <3>4. counters' \in [{"emitted", "written", "dropped", "failed"} -> Nat]
        BY <3>1, CountType, Zenon DEF Emit, Send, RecordGap
    <3>5. /\ life' = life /\ mode' = mode /\ pc' = pc /\ buf' = buf /\ marked' = marked /\ inflight' = inflight
          /\ stored' = stored /\ reported' = reported /\ lost' = lost /\ doubled' = doubled
          /\ sinkq' = sinkq /\ streaming' = streaming /\ stopper' = stopper /\ gap' \in Nat
        BY <3>1 DEF Emit, Send, RecordGap, writerVars, storeVars, sinkVars
    <3> QED BY <3>2, <3>3, <3>4, <3>5, Zenon
  <2>13. CASE SinkSteps
    <3>1. PICK s \in Sinks : SinkTake(s) \/ SinkEnd(s)
        BY <2>13, Zenon DEF SinkSteps
    <3>2. CASE SinkTake(s)
      <4>1. sinkq[s] \in Seq(SUBSET Events) /\ sinkq[s] # <<>>
          BY <3>2, Zenon DEF SinkTake
      <4>2. Head(sinkq[s]) \in SUBSET Events /\ Tail(sinkq[s]) \in Seq(SUBSET Events)
            /\ Len(Tail(sinkq[s])) <= SinkQueueSize
          BY <4>1, RangeHeadTail
      <4>3. streaming' = [streaming EXCEPT ![s] = <<Head(sinkq[s])>>] /\ sinkq' = [sinkq EXCEPT ![s] = Tail(@)]
          BY <3>2, Zenon DEF SinkTake
      <4>4. sinkq' \in [Sinks -> Seq(SUBSET Events)] /\ \A k \in Sinks : Len(sinkq'[k]) <= SinkQueueSize
          BY <4>2, <4>3, Zenon
      <4>5. <<Head(sinkq[s])>> \in Seq(SUBSET Events) /\ Len(<<Head(sinkq[s])>>) = 1
          BY <4>2
      <4>6. streaming' \in [Sinks -> Seq(SUBSET Events)] /\ \A k \in Sinks : Len(streaming'[k]) <= 1
          BY <4>3, <4>5
      <4> QED BY <3>2, <4>4, <4>6, Zenon DEF SinkTake, writerVars, storeVars
    <3>3. CASE SinkEnd(s)
        BY <3>3 DEF SinkEnd, writerVars, storeVars
    <3> QED BY <3>1, <3>2, <3>3, Zenon
  <2> QED BY <2>1, <2>2, <2>3, <2>4, <2>5, <2>6, <2>9, <2>10, <2>11, <2>12, <2>13, NextSteps, Zenon
      DEF SelectSteps, InsertSteps
<1> QED BY <1>InitTypes, <1>NextTypes, PTL DEF Spec

(* Every variable keeps its type: neither the channel, nor the batch, nor  *)
(* a sink's queue ever holds more than its capacity.                       *)
THEOREM AuditTypes == Spec => []TypeOK
<1>1. TypeInv => TypeOK
    BY Zenon DEF TypeInv
<1> QED BY <1>1, SpecTypes, PTL

(* SinkAfterStore                                                          *)

LEMMA InitSinks == Init => SinkAfterStore
<1> SUFFICES ASSUME Init, NEW s \in Sinks
             PROVE  UNION (Range(sinkq[s]) \union Range(streaming[s])) \subseteq stored
    BY Zenon DEF SinkAfterStore
<1>1. sinkq[s] = <<>> /\ streaming[s] = <<>>
    BY Zenon DEF Init
<1> QED BY <1>1, RangeEmpty, Zenon

LEMMA NextSinks == ASSUME TypeInv, SinkAfterStore, [Next]_vars PROVE SinkAfterStore'
<1> SUFFICES ASSUME NEW s \in Sinks
             PROVE  UNION (Range(sinkq'[s]) \union Range(streaming'[s])) \subseteq stored'
    BY Zenon DEF SinkAfterStore
<1>0. /\ UNION (Range(sinkq[s]) \union Range(streaming[s])) \subseteq stored
      /\ sinkq \in [Sinks -> Seq(SUBSET Events)] /\ streaming \in [Sinks -> Seq(SUBSET Events)]
      /\ buf \in Seq(Events)
    BY Zenon DEF SinkAfterStore, TypeInv, TypeOK
<1>1. ASSUME sinkq'[s] = sinkq[s], streaming'[s] = streaming[s], stored \subseteq stored'
      PROVE  UNION (Range(sinkq'[s]) \union Range(streaming'[s])) \subseteq stored'
    BY <1>0, <1>1, Zenon
<1>2. CASE UNCHANGED vars \/ Start \/ StopSteps \/ SelectSteps \/ Flush \/ Join \/ EmitSteps
  <2>1. UNCHANGED <<sinkq, streaming, stored>>
      BY <1>2, Zenon DEF vars, Start, StopSteps, Stop, StopDone, StopTimeout, StopGiveUp, SelectSteps, Take, Tick,
          StopSeen, Drained, Flush, Join, EmitSteps, Emit, Send, RecordGap, storeVars, sinkVars
  <2> QED BY <1>1, <2>1, SMTT(30)
<1>3. CASE InsertFails
    BY <1>1, <1>3, Zenon DEF InsertFails, sinkVars
<1>4. CASE InsertOk
  <2>1. stored' = stored \union Range(buf) /\ streaming' = streaming
      BY <1>4, Zenon DEF InsertOk
  <2>2. Range(buf) \in SUBSET Events
      BY <1>0, RangeType, Zenon
  <2>3. sinkq'[s] = sinkq[s] \/ sinkq'[s] = Append(sinkq[s], Range(buf))
      BY <1>4, Zenon DEF InsertOk, FanOut
  <2>4. Range(Append(sinkq[s], Range(buf))) = Range(sinkq[s]) \union {Range(buf)}
      BY <1>0, <2>2, RangeAppend
  <2>5. Range(sinkq'[s]) \subseteq Range(sinkq[s]) \union {Range(buf)}
      BY <2>3, <2>4, Zenon
  <2> QED BY <1>0, <2>1, <2>5, Zenon
<1>5. CASE SinkSteps
  <2>1. PICK k \in Sinks : SinkTake(k) \/ SinkEnd(k)
      BY <1>5, Zenon DEF SinkSteps
  <2>2. stored' = stored
      BY <2>1, Zenon DEF SinkTake, SinkEnd, storeVars
  <2>3. CASE k # s
      BY <1>0, <1>1, <2>1, <2>2, <2>3, SMTT(30) DEF SinkTake, SinkEnd
  <2>4. CASE k = s /\ SinkTake(s)
    <3>1. /\ sinkq[s] # <<>> /\ streaming'[s] = <<Head(sinkq[s])>> /\ sinkq'[s] = Tail(sinkq[s])
        BY <1>0, <2>4, Zenon DEF SinkTake
    <3>2. Range(sinkq[s]) = Range(Tail(sinkq[s])) \union {Head(sinkq[s])}
        BY <1>0, <3>1, RangeHeadTail, Zenon
    <3>3. Range(<<Head(sinkq[s])>>) = {Head(sinkq[s])}
        BY DEF Range
    <3> QED BY <1>0, <2>2, <3>1, <3>2, <3>3, Zenon
  <2>5. CASE k = s /\ SinkEnd(s)
    <3>1. streaming'[s] = <<>> /\ sinkq'[s] = sinkq[s]
        BY <1>0, <2>5, Zenon DEF SinkEnd
    <3> QED BY <1>0, <2>2, <3>1, RangeEmpty, Zenon
  <2> QED BY <2>1, <2>3, <2>4, <2>5, Zenon
<1> QED BY <1>2, <1>3, <1>4, <1>5, NextSteps, Zenon DEF InsertSteps

(* flush hands a batch to the sinks only after its insert succeeded: what  *)
(* any sink is sent, or waits in its queue, is in the audit table.         *)
THEOREM SinksFollowStore == Spec => []SinkAfterStore
BY InitSinks, NextSinks, SpecTypes, PTL DEF Spec

(* GapsCovered                                                             *)

LEMMA InitGaps == ASSUME FiniteSetFacts, Init PROVE GapsCovered
<1>1. Dropped = {}
    BY Zenon DEF Init, Dropped
<1> QED BY <1>1 DEF FiniteSetFacts, EmptyCounts, Init, GapsCovered

LEMMA DroppedFinite == ASSUME FiniteSetFacts PROVE IsFiniteSet(Dropped) /\ Cardinality(Dropped) \in Nat
BY SizesAssumption, Zenon DEF FiniteSetFacts, PartCounts, NumberCounts, Dropped

LEMMA NextGaps == ASSUME FiniteSetFacts, TypeInv, GapsCovered, [Next]_vars PROVE GapsCovered'
<1>0. /\ reported \in Nat /\ gap \in Nat /\ marked \in Nat /\ doubled \in Nat /\ buf \in Seq(Events)
      /\ call \in [Events -> {"none", "send", "queued", "late", "dropping", "dropped"}]
      /\ life = "new" => pc = "off"
    BY Zenon DEF TypeInv, TypeOK
<1>1. CASE call' = call
  <2>1. Dropped' = Dropped
      BY <1>1, Zenon DEF Dropped
  <2>2. CASE UNCHANGED <<reported, gap, doubled>> /\ pc # "insert" /\ pc' # "insert"
      BY <2>1, <2>2, Zenon DEF GapsCovered
  <2>3. CASE UNCHANGED <<reported, gap, doubled, pc, marked>>
      BY <2>1, <2>3, Zenon DEF GapsCovered
  <2>4. CASE UNCHANGED vars \/ StopSteps \/ SinkSteps
      BY <2>3, <2>4, SMTT(30) DEF vars, StopSteps, Stop, StopDone, StopTimeout, StopGiveUp, SinkSteps, SinkTake, SinkEnd,
          writerVars, storeVars
  <2>5. CASE Start \/ SelectSteps \/ Join
      BY <1>0, <2>2, <2>5, Zenon DEF Start, SelectSteps, Take, Tick, StopSeen, Drained, Join, storeVars
  <2>6. CASE Flush
    <3>1. /\ pc = "flush" /\ gap' = 0 /\ marked' = gap /\ reported' = reported /\ doubled' = doubled
          /\ (pc' = "insert" \/ (gap = 0 /\ pc' # "insert"))
        BY <1>0, <2>6 DEF Flush, AfterFlush, storeVars
    <3> QED BY <1>0, <2>1, <3>1, DroppedFinite DEF GapsCovered
  <2>7. CASE InsertOk
    <3>1. /\ pc = "insert" /\ pc' # "insert" /\ gap' = gap /\ reported' = reported + marked /\ doubled' = doubled
        BY <2>7, Zenon DEF InsertOk, BatchDone, AfterFlush
    <3> QED BY <1>0, <2>1, <3>1, DroppedFinite DEF GapsCovered
  <2>8. CASE InsertFails
    <3>1. /\ pc = "insert" /\ pc' # "insert" /\ gap' = gap + marked
          /\ \/ reported' = reported /\ doubled' = doubled
             \/ reported' = reported + marked /\ doubled' = doubled + marked
        BY <2>8, Zenon DEF InsertFails, BatchDone, AfterFlush
    <3> QED BY <1>0, <2>1, <3>1, DroppedFinite DEF GapsCovered
  <2>9. CASE EmitSteps
      BY <1>0, <1>1, <2>9, Zenon DEF EmitSteps, Emit, Send, RecordGap
  <2> QED BY <2>4, <2>5, <2>6, <2>7, <2>8, <2>9, NextSteps, Zenon DEF InsertSteps
<1>2. CASE EmitSteps
  <2>1. PICK e \in Events : Emit(e) \/ Send(e) \/ RecordGap(e)
      BY <1>2, Zenon DEF EmitSteps
  <2>2. UNCHANGED <<reported, doubled, pc, marked>>
      BY <2>1, Zenon DEF Emit, Send, RecordGap, writerVars, storeVars
  <2>3. CASE Emit(e) \/ Send(e)
    <3>1. Dropped' = Dropped /\ gap' = gap
        BY <1>0, <2>3, Zenon DEF Emit, Send, Dropped
    <3> QED BY <2>2, <3>1, Zenon DEF GapsCovered
  <2>4. CASE RecordGap(e)
    <3>1. Dropped' = Dropped \union {e} /\ e \notin Dropped /\ gap' = gap + 1
        BY <1>0, <2>4, Zenon DEF RecordGap, Dropped
    <3>2. Cardinality(Dropped') = Cardinality(Dropped) + 1
        BY <3>1, DroppedFinite, Zenon DEF FiniteSetFacts, AddCounts
    <3> QED BY <1>0, <2>2, <3>1, <3>2, DroppedFinite DEF GapsCovered
  <2> QED BY <2>1, <2>3, <2>4, Zenon
<1>3. CASE ~EmitSteps
  <2>1. call' = call
      BY <1>3, NextSteps, Zenon DEF vars, Start, StopSteps, Stop, StopDone, StopTimeout, StopGiveUp, SelectSteps, Take,
          Tick, StopSeen, Drained, Flush, Join, InsertSteps, InsertOk, InsertFails, SinkSteps, SinkTake, SinkEnd
  <2> QED BY <1>1, <2>1, SMTT(30)
<1> QED BY <1>2, <1>3, Zenon

(* CountersAddUp                                                           *)

Sending == {e \in Events : call[e] = "send"}

LEMMA SendingFinite == ASSUME FiniteSetFacts PROVE IsFiniteSet(Sending) /\ Cardinality(Sending) \in Nat
BY SizesAssumption, Zenon DEF FiniteSetFacts, PartCounts, NumberCounts, Sending

LEMMA InitCounts == ASSUME FiniteSetFacts, Init PROVE CountInv
<1>1. Sending = {}
    BY Zenon DEF Init, Sending
<1>2. Cardinality({e \in Events : call[e] = "send"}) = 0
    BY <1>1, Zenon DEF FiniteSetFacts, EmptyCounts, Sending
<1>3. counters.emitted = 0 /\ counters.written = 0 /\ counters.dropped = 0 /\ Len(ch) = 0 /\ Len(buf) = 0
    BY Zenon DEF Init
<1> QED BY <1>2, <1>3 DEF CountInv

LEMMA NextCounts == ASSUME FiniteSetFacts, TypeInv, CountInv, [Next]_vars PROVE CountInv'
<1> DEFINE n == Cardinality(Sending)
<1>0. /\ ch \in Seq(Events) /\ buf \in Seq(Events) /\ Len(ch) \in Nat /\ Len(buf) \in Nat /\ inflight \in Nat
      /\ counters \in [{"emitted", "written", "dropped", "failed"} -> Nat]
      /\ counters.emitted \in Nat /\ counters.written \in Nat /\ counters.dropped \in Nat
      /\ call \in [Events -> {"none", "send", "queued", "late", "dropping", "dropped"}]
    BY DEF TypeInv, TypeOK
<1>1. n \in Nat /\ n' \in Nat
    BY SendingFinite, SizesAssumption, Zenon DEF FiniteSetFacts, PartCounts, NumberCounts, Sending
<1>2. stopper # "gaveup" =>
          counters.emitted >= counters.written + counters.dropped + Len(ch) + Len(buf) + n
    BY Zenon DEF CountInv, Sending
<1>3. SUFFICES ASSUME stopper' # "gaveup"
               PROVE  counters'.emitted >= counters'.written + counters'.dropped + Len(ch') + Len(buf') + n'
    BY Zenon DEF CountInv, Sending
<1> HIDE DEF n
<1>4. ASSUME call' = call PROVE n' = n
    BY <1>4, Zenon DEF n, Sending
<1>5. CASE UNCHANGED vars \/ Start \/ StopSteps \/ Tick \/ StopSeen \/ Drained \/ Flush \/ Join \/ SinkSteps
  <2>1. UNCHANGED <<counters, ch, buf, call>> /\ stopper # "gaveup"
      BY <1>3, <1>5, Zenon DEF TypeInv, vars, Start, StopSteps, Stop, StopDone, StopTimeout, StopGiveUp, Tick, StopSeen, Drained,
          Flush, Join, SinkSteps, SinkTake, SinkEnd, writerVars
  <2> QED BY <1>2, <1>4, <2>1, SMTT(30)
<1>6. CASE Take
  <2>1. /\ counters' = counters /\ call' = call /\ stopper' = stopper
        /\ ch # <<>> /\ ch' = Tail(ch) /\ buf' = Append(buf, Head(ch))
      BY <1>6, Zenon DEF Take
  <2>2. Len(ch') = Len(ch) - 1 /\ Len(buf') = Len(buf) + 1
      BY <1>0, <2>1, RangeHeadTail
  <2>3. n' = n
      BY <1>4, <2>1, Zenon
  <2> QED BY <1>0, <1>1, <1>2, <1>3, <2>1, <2>2, <2>3, SMTT(30)
<1>7. CASE InsertOk
  <2>1. Count("written", Len(buf)) /\ call' = call /\ ch' = ch /\ stopper' = stopper /\ Len(buf') = 0
      BY <1>7, Zenon DEF InsertOk, BatchDone
  <2>2. /\ counters'.written = counters.written + Len(buf) /\ counters'.emitted = counters.emitted
        /\ counters'.dropped = counters.dropped
      BY <1>0, <2>1, CountType, Zenon
  <2>3. n' = n
      BY <1>4, <2>1, Zenon
  <2> QED BY <1>0, <1>1, <1>2, <1>3, <2>1, <2>2, <2>3
<1>8. CASE InsertFails
  <2>1. Count("failed", inflight) /\ call' = call /\ ch' = ch /\ stopper' = stopper /\ Len(buf') = 0
      BY <1>8, Zenon DEF InsertFails, BatchDone
  <2>2. /\ counters'.written = counters.written /\ counters'.emitted = counters.emitted
        /\ counters'.dropped = counters.dropped
      BY <1>0, <2>1, CountType, Zenon
  <2>3. n' = n
      BY <1>4, <2>1, Zenon
  <2> QED BY <1>0, <1>1, <1>2, <1>3, <2>1, <2>2, <2>3
<1>9. CASE EmitSteps
  <2>1. PICK e \in Events : Emit(e) \/ Send(e) \/ RecordGap(e)
      BY <1>9, Zenon DEF EmitSteps
  <2>2. buf' = buf /\ stopper' = stopper
      BY <2>1, Zenon DEF Emit, Send, RecordGap, writerVars
  <2>3. CASE Emit(e)
    <3>1. Sending' = Sending \union {e} /\ e \notin Sending
        BY <1>0, <2>3, Zenon DEF Emit, Sending
    <3>2. n' = n + 1
        BY <3>1, SendingFinite, Zenon DEF FiniteSetFacts, AddCounts, n
    <3>3. Count("emitted", 1) /\ ch' = ch
        BY <2>3, Zenon DEF Emit
    <3>4. /\ counters'.emitted = counters.emitted + 1 /\ counters'.written = counters.written
          /\ counters'.dropped = counters.dropped
        BY <1>0, <3>3, CountType, Zenon
    <3> QED BY <1>0, <1>1, <1>2, <1>3, <2>2, <3>2, <3>3, <3>4
  <2>4. CASE Send(e)
    <3>1. Sending' = Sending \ {e} /\ e \in Sending
        BY <1>0, <2>4, Zenon DEF Send, Sending
    <3>2. n' = n - 1
        BY <3>1, SendingFinite, Zenon DEF FiniteSetFacts, RemoveCounts, n
    <3>3. CASE Len(ch) < BufferSize
      <4>1. counters' = counters /\ ch' = Append(ch, e)
          BY <2>4, <3>3, Zenon DEF Send
      <4>2. Len(ch') = Len(ch) + 1
          BY <1>0, <4>1
      <4> QED BY <1>0, <1>1, <1>2, <1>3, <2>2, <3>2, <4>1, <4>2
    <3>4. CASE ~(Len(ch) < BufferSize)
      <4>1. Count("dropped", 1) /\ ch' = ch
          BY <2>4, <3>4, Zenon DEF Send
      <4>2. /\ counters'.emitted = counters.emitted /\ counters'.written = counters.written
            /\ counters'.dropped = counters.dropped + 1
          BY <1>0, <4>1, CountType, Zenon
      <4> QED BY <1>0, <1>1, <1>2, <1>3, <2>2, <3>2, <4>1, <4>2
    <3> QED BY <3>3, <3>4, Zenon
  <2>5. CASE RecordGap(e)
    <3>1. Sending' = Sending /\ counters' = counters /\ ch' = ch
        BY <1>0, <2>5, Zenon DEF RecordGap, Sending
    <3> QED BY <1>2, <1>3, <2>2, <3>1, SMTT(30) DEF n
  <2> QED BY <2>1, <2>3, <2>4, <2>5, Zenon
<1> QED BY <1>5, <1>6, <1>7, <1>8, <1>9, NextSteps, Zenon DEF SelectSteps, InsertSteps

LEMMA CountsHold == ASSUME FiniteSetFacts, TypeInv, CountInv PROVE CountersAddUp
<1> SUFFICES ASSUME stopper # "gaveup"
             PROVE  counters.emitted >= counters.written + counters.dropped
    BY Zenon DEF CountersAddUp
<1> DEFINE n == Cardinality(Sending)
<1>1. /\ counters.emitted \in Nat /\ counters.written \in Nat /\ counters.dropped \in Nat
      /\ Len(ch) \in Nat /\ Len(buf) \in Nat
    BY DEF TypeInv, TypeOK
<1>2. n \in Nat
    BY SendingFinite, Zenon
<1>3. counters.emitted >= counters.written + counters.dropped + Len(ch) + Len(buf) + n
    BY Zenon DEF CountInv, Sending
<1> HIDE DEF n
<1> QED BY <1>1, <1>2, <1>3

(* StoppedMeansDrained                                                     *)

LEMMA InitDrain == Init => DrainInv
BY SMTT(30) DEF Init, DrainInv, WriterInv, EventInv, Accepted

LEMMA NextWriter == ASSUME TypeInv, WriterInv, [Next]_vars PROVE WriterInv'
<1> USE DEF WriterInv
<1>0. /\ buf \in Seq(Events) /\ gap \in Nat /\ (life = "new" => pc = "off")
      /\ (life # "closed" => stopper = "idle") /\ life \in {"new", "running", "closed"}
      /\ streaming \in [Sinks -> Seq(SUBSET Events)] /\ sinkq \in [Sinks -> Seq(SUBSET Events)]
      /\ mode \in {"loop", "drain", "final"}
    BY Zenon DEF TypeInv, TypeOK
<1>1. CASE UNCHANGED vars
    BY <1>1, Zenon DEF vars, writerVars, sinkVars
<1>2. CASE Start
    BY <1>0, <1>2, Zenon DEF Start, sinkVars
<1>3. CASE StopSteps
    BY <1>0, <1>3, Zenon DEF StopSteps, Stop, StopDone, StopTimeout, StopGiveUp, writerVars, sinkVars
<1>4. CASE SelectSteps
    BY <1>0, <1>4, Zenon DEF SelectSteps, Take, Tick, StopSeen, Drained
<1>5. CASE Flush
  <2>1. /\ pc = "flush" /\ marked' = gap /\ buf' = buf /\ mode' = mode /\ life' = life /\ stopper' = stopper
        /\ inflight' = Len(buf) + (IF gap > 0 THEN 1 ELSE 0)
        /\ pc' = IF inflight' = 0 THEN AfterFlush ELSE "insert"
      BY <1>5, Zenon DEF Flush
  <2>2. inflight' = 0 => buf = <<>>
      BY <1>0, <2>1
  <2> QED BY <2>1, <2>2, Zenon DEF AfterFlush
<1>6. CASE InsertSteps
  <2>1. /\ pc = "insert" /\ pc' = AfterFlush /\ buf' = <<>> /\ mode' = mode /\ life' = life /\ stopper' = stopper
      BY <1>6, Zenon DEF InsertSteps, InsertOk, InsertFails, BatchDone
  <2> QED BY <2>1, Zenon DEF AfterFlush
<1>7. CASE Join
    BY <1>7, Zenon DEF Join, sinkVars
<1>8. CASE EmitSteps
    BY <1>8, Zenon DEF EmitSteps, Emit, Send, RecordGap, writerVars, sinkVars
<1>9. CASE SinkSteps
  <2>1. PICK s \in Sinks : SinkTake(s) \/ SinkEnd(s)
      BY <1>9, Zenon DEF SinkSteps
  <2>2. pc # "done"
      BY <2>1, Zenon DEF SinkTake, SinkEnd
  <2> QED BY <2>1, <2>2, Zenon DEF SinkTake, SinkEnd, writerVars
<1> QED BY <1>1, <1>2, <1>3, <1>4, <1>5, <1>6, <1>7, <1>8, <1>9, NextSteps, Zenon

LEMMA NextEvents == ASSUME TypeInv, WriterInv, EventInv, [Next]_vars PROVE EventInv'
<1>0. /\ buf \in Seq(Events) /\ ch \in Seq(Events)
      /\ call \in [Events -> {"none", "send", "queued", "late", "dropping", "dropped"}]
    BY Zenon DEF TypeInv, TypeOK
<1>1. CASE UNCHANGED vars \/ Start \/ StopSteps \/ Tick \/ StopSeen \/ Flush \/ Join \/ SinkSteps
  <2>1. UNCHANGED <<call, ch, buf, stored, lost>> /\ (mode' = "final" => mode = "final")
      BY <1>1, Zenon DEF vars, Start, StopSteps, Stop, StopDone, StopTimeout, StopGiveUp, Tick, StopSeen, Flush, Join,
          SinkSteps, SinkTake, SinkEnd, writerVars, storeVars
  <2> QED BY <2>1, SMTT(30) DEF EventInv, Accepted
<1>2. CASE Take
  <2>1. /\ ch # <<>> /\ ch' = Tail(ch) /\ buf' = Append(buf, Head(ch)) /\ mode' = mode /\ call' = call
        /\ stored' = stored /\ lost' = lost
      BY <1>2, Zenon DEF Take, storeVars
  <2>2. Head(ch) \in Events /\ Range(ch) = Range(ch') \union {Head(ch)}
      BY <1>0, <2>1, RangeHeadTail, Zenon
  <2>3. Range(buf') = Range(buf) \union {Head(ch)}
      BY <1>0, <2>1, <2>2, RangeAppend
  <2> QED BY <2>1, <2>2, <2>3, Zenon DEF EventInv, Accepted
<1>3. CASE Drained
  <2>1. ch = <<>> /\ UNCHANGED <<call, ch, buf, stored, lost>>
      BY <1>3, Zenon DEF Drained, storeVars
  <2> QED BY <2>1, RangeEmpty, Zenon DEF EventInv, Accepted
<1>4. CASE InsertSteps
  <2>1. /\ buf' = <<>> /\ ch' = ch /\ call' = call /\ mode' = mode
        /\ Range(buf) \union stored \union lost \subseteq stored' \union lost'
      BY <1>4, Zenon DEF InsertSteps, InsertOk, InsertFails, BatchDone
  <2> QED BY <2>1, RangeEmpty, Zenon DEF EventInv, Accepted
<1>5. CASE EmitSteps
  <2>1. PICK e \in Events : Emit(e) \/ Send(e) \/ RecordGap(e)
      BY <1>5, Zenon DEF EmitSteps
  <2>2. UNCHANGED <<life, mode, buf, stored, lost>>
      BY <2>1, Zenon DEF Emit, Send, RecordGap, writerVars, storeVars
  <2>3. CASE Accepted' \subseteq Accepted /\ Range(ch) \subseteq Range(ch')
      BY <2>2, <2>3, Zenon DEF EventInv
  <2>4. Range(Append(ch, e)) = Range(ch) \union {e}
      BY <1>0, RangeAppend
  <2>5. CASE Send(e) /\ life = "running" /\ Len(ch) < BufferSize
    <3>1. ch' = Append(ch, e) /\ Accepted' = Accepted \union {e} /\ mode = "loop"
        BY <1>0, <2>5, Zenon DEF Send, Accepted, WriterInv
    <3> QED BY <2>2, <2>4, <3>1, SMTT(30) DEF EventInv
  <2>6. CASE Send(e) /\ life # "running" /\ Len(ch) < BufferSize
    <3>1. ch' = Append(ch, e) /\ Accepted' \subseteq Accepted
        BY <1>0, <2>6, Zenon DEF Send, Accepted
    <3> QED BY <2>3, <2>4, <3>1, Zenon
  <2>7. CASE Emit(e) \/ RecordGap(e) \/ (Send(e) /\ ~(Len(ch) < BufferSize))
    <3>1. ch' = ch /\ Accepted' \subseteq Accepted
        BY <1>0, <2>7, Zenon DEF Emit, Send, RecordGap, Accepted
    <3> QED BY <2>3, <3>1, Zenon
  <2> QED BY <2>1, <2>5, <2>6, <2>7, Zenon
<1> QED BY <1>1, <1>2, <1>3, <1>4, <1>5, NextSteps, Zenon DEF SelectSteps

(* Stop, when it returns because the writer is done: no event accepted     *)
(* before Stop is missing from the table unless its insert failed, and no  *)
(* sink has a batch left.                                                  *)
THEOREM StopDrains == Spec => []StoppedMeansDrained
<1>1. DrainInv => StoppedMeansDrained
  <2> SUFFICES ASSUME DrainInv, stopper = "returned"
               PROVE  /\ \A e \in Events : call[e] = "queued" => e \in stored \union lost
                      /\ \A s \in Sinks : sinkq[s] = <<>> /\ streaming[s] = <<>>
      BY Zenon DEF StoppedMeansDrained
  <2>1. pc = "done" /\ mode = "final" /\ buf = <<>>
      BY Zenon DEF DrainInv, WriterInv
  <2>2. Accepted \subseteq stored \union lost
      BY <2>1, RangeEmpty, Zenon DEF DrainInv, EventInv
  <2> QED BY <2>1, <2>2, Zenon DEF DrainInv, WriterInv, Accepted
<1>2. TypeInv /\ DrainInv /\ [Next]_vars => DrainInv'
  <2> SUFFICES ASSUME TypeInv, DrainInv, [Next]_vars PROVE DrainInv'
      BY Zenon
  <2>1. WriterInv' /\ EventInv'
      BY NextWriter, NextEvents, Zenon DEF DrainInv
  <2> QED BY <2>1, Zenon DEF DrainInv
<1> QED BY <1>1, <1>2, InitDrain, SpecTypes, PTL DEF Spec

-----------------------------------------------------------------------------
(* What the lemmas above assume of finite sets, from the library, and the  *)
(* theorems that rest on it.                                               *)

INSTANCE FiniteSetTheorems

(* The library proves every fact about finite sets that the lemmas take as *)
(* a hypothesis.                                                           *)
LEMMA FiniteSetFactsHold == FiniteSetFacts
<1>1. EmptyCounts
    BY FS_EmptySet, Zenon DEF EmptyCounts
<1>2. NumberCounts
    BY FS_CardinalityType, Zenon DEF NumberCounts
<1>3. PartCounts
    BY FS_Subset, Zenon DEF PartCounts
<1>4. AddCounts
    BY FS_AddElement, Zenon DEF AddCounts
<1>5. RemoveCounts
    BY FS_RemoveElement, Zenon DEF RemoveCounts
<1>6. UnionCounts
    BY FS_Union, Zenon DEF UnionCounts
<1> QED BY <1>1, <1>2, <1>3, <1>4, <1>5, <1>6, Zenon DEF FiniteSetFacts

(* recordDrop, flush and a failed insert lose no drop: each is reported by *)
(* a stored marker, or is still in the gap or in the batch being written,  *)
(* however they interleave.                                                *)
THEOREM DropsAreReported == Spec => []GapsCovered
<1>1. Init => GapsCovered
    BY FiniteSetFactsHold, InitGaps, Zenon
<1>2. TypeInv /\ GapsCovered /\ [Next]_vars => GapsCovered'
    BY FiniteSetFactsHold, NextGaps, Zenon
<1> QED BY <1>1, <1>2, SpecTypes, PTL DEF Spec

(* The counters' invariant that flush names, emitted >= written + dropped, *)
(* until Stop gives up.                                                    *)
THEOREM CountersKeepTheirInvariant == Spec => []CountersAddUp
<1>1. Init => CountInv
    BY FiniteSetFactsHold, InitCounts, Zenon
<1>2. TypeInv /\ CountInv /\ [Next]_vars => CountInv'
    BY FiniteSetFactsHold, NextCounts, Zenon
<1>3. TypeInv /\ CountInv => CountersAddUp
    BY FiniteSetFactsHold, CountsHold, Zenon
<1> QED BY <1>1, <1>2, <1>3, SpecTypes, PTL DEF Spec
=============================================================================
