------------------------------ MODULE AuditLog ------------------------------
(***************************************************************************)
(* The asynchronous audit writer (src/internal/audit/service.go).          *)
(*                                                                         *)
(* Request goroutines emit events into a bounded channel and never block:  *)
(* an event that finds the channel full is dropped and counted.  One       *)
(* writer goroutine batches the channel, turns the drops since its last    *)
(* flush into one gap marker, stores the batch, and copies what was stored *)
(* to a bounded queue per sink.  Stop waits for the writer, with a timeout *)
(* and, while an insert is running, a grace period, and then gives up.     *)
(*                                                                         *)
(* Events are atoms; redaction, hydration, the hash chain and the sinks'   *)
(* failure counter are left out.                                           *)
(* A marker is the number of drops it reports.  Timers may fire at any     *)
(* time, so no relation between DrainTimeout and the insert timeout is     *)
(* assumed.  The process outlives Stop.                                    *)
(***************************************************************************)
EXTENDS Integers, Sequences, FiniteSets, Functions

CONSTANTS
    Events,        \* the calls of emit, one event each
    Sinks,         \* Config.Sinks
    BufferSize,    \* capacity of the event channel
    BatchSize,     \* events that trigger a flush
    SinkQueueSize, \* batches a sink's queue holds
    MaxFailed      \* bound: inserts fail only while the failed counter is below it

ASSUME SizesAssumption ==
    /\ IsFiniteSet(Events)
    /\ BufferSize \in Nat \ {0}
    /\ BatchSize \in Nat \ {0}
    /\ SinkQueueSize \in Nat \ {0}
    /\ MaxFailed \in Nat

VARIABLES
    life,      \* the started and closed flags: "new", "running", "closed"
    call,      \* where each call of emit is; "late" was queued after Stop closed the service
    ch,        \* the event channel
    gap,       \* gapCount: drops not yet in a marker
    mode,      \* the writer's loop: "loop", "drain", "final" (its last flush)
    pc,        \* the writer: "off", "select", "flush", "insert", "join", "done"
    buf,       \* the batch being collected or written
    marked,    \* drops the batch's marker reports, 0 for no marker
    inflight,  \* rows of the insert that is running
    stored,    \* events in the audit table
    reported,  \* drops reported by the markers in the audit table
    sinkq,     \* batches queued for each sink
    streaming, \* the batch each sink worker is sending, none or one
    stopper,   \* Stop: "idle", "draining", "grace", "counting", "returned", "gaveup"
    counters,  \* emitted, written, dropped and failed
    lost,      \* history: events of batches whose insert failed
    doubled    \* history: drops of markers stored by an insert that reported failure

writerVars == <<mode, pc, buf, marked, inflight>>
storeVars == <<stored, reported, lost, doubled>>
sinkVars == <<sinkq, streaming>>
vars == <<life, call, ch, gap, writerVars, storeVars, sinkVars, stopper, counters>>

\* Every variable holds a value of its type, and no queue exceeds its capacity.
TypeOK ==
    /\ life \in {"new", "running", "closed"}
    /\ call \in [Events -> {"none", "send", "queued", "late", "dropping", "dropped"}]
    /\ ch \in Seq(Events) /\ Len(ch) <= BufferSize
    /\ gap \in Nat /\ marked \in Nat /\ inflight \in Nat
    /\ mode \in {"loop", "drain", "final"}
    /\ pc \in {"off", "select", "flush", "insert", "join", "done"}
    /\ buf \in Seq(Events) /\ Len(buf) <= BatchSize
    /\ stored \subseteq Events /\ lost \subseteq Events
    /\ reported \in Nat /\ doubled \in Nat
    /\ sinkq \in [Sinks -> Seq(SUBSET Events)]
    /\ \A s \in Sinks : Len(sinkq[s]) <= SinkQueueSize
    /\ streaming \in [Sinks -> Seq(SUBSET Events)]
    /\ \A s \in Sinks : Len(streaming[s]) <= 1
    /\ stopper \in {"idle", "draining", "grace", "counting", "returned", "gaveup"}
    /\ counters \in [{"emitted", "written", "dropped", "failed"} -> Nat]

\* NewService
Init ==
    /\ life = "new"
    /\ call = [e \in Events |-> "none"]
    /\ ch = <<>> /\ buf = <<>>
    /\ gap = 0 /\ marked = 0 /\ inflight = 0
    /\ mode = "loop" /\ pc = "off"
    /\ stored = {} /\ lost = {}
    /\ reported = 0 /\ doubled = 0
    /\ sinkq = [s \in Sinks |-> <<>>]
    /\ streaming = [s \in Sinks |-> <<>>]
    /\ stopper = "idle"
    /\ counters = [c \in {"emitted", "written", "dropped", "failed"} |-> 0]

Count(c, n) == counters' = [counters EXCEPT ![c] = @ + n]

-----------------------------------------------------------------------------
(* Request goroutines *)

\* Start: the writer goroutine begins.
Start ==
    /\ life = "new"
    /\ life' = "running"
    /\ pc' = "select"
    /\ UNCHANGED <<call, ch, gap, mode, buf, marked, inflight, storeVars, sinkVars, stopper, counters>>

\* emit up to the send: a call is refused before Start and after Stop, and
\* counted otherwise.
Emit(e) ==
    /\ life = "running" /\ call[e] = "none"
    /\ call' = [call EXCEPT ![e] = "send"]
    /\ Count("emitted", 1)
    /\ UNCHANGED <<life, ch, gap, writerVars, storeVars, sinkVars, stopper>>

\* emit's select: the send, or the first half of recordDrop.
Send(e) ==
    /\ call[e] = "send"
    /\ IF Len(ch) < BufferSize
         THEN /\ ch' = Append(ch, e)
              /\ call' = [call EXCEPT ![e] = IF life = "running" THEN "queued" ELSE "late"]
              /\ UNCHANGED counters
         ELSE /\ call' = [call EXCEPT ![e] = "dropping"]
              /\ Count("dropped", 1)
              /\ UNCHANGED ch
    /\ UNCHANGED <<life, gap, writerVars, storeVars, sinkVars, stopper>>

\* The second half of recordDrop: the drop joins the gap of the next marker.
RecordGap(e) ==
    /\ call[e] = "dropping"
    /\ call' = [call EXCEPT ![e] = "dropped"]
    /\ gap' = gap + 1
    /\ UNCHANGED <<life, ch, writerVars, storeVars, sinkVars, stopper, counters>>

-----------------------------------------------------------------------------
(* The writer goroutine *)

\* An event is received, in the loop or while draining; a full batch is flushed.
Take ==
    /\ pc = "select" /\ ch # <<>>
    /\ ch' = Tail(ch)
    /\ buf' = Append(buf, Head(ch))
    /\ pc' = IF Len(buf') >= BatchSize THEN "flush" ELSE "select"
    /\ UNCHANGED <<life, call, gap, mode, marked, inflight, storeVars, sinkVars, stopper, counters>>

\* No ticker: a partial batch waits for more events.
TickNever == FALSE /\ UNCHANGED vars

\* The ticker flushes.  A flush with nothing to write changes nothing.
Tick ==
    /\ pc = "select" /\ mode = "loop"
    /\ buf # <<>> \/ gap > 0
    /\ pc' = "flush"
    /\ UNCHANGED <<life, call, ch, gap, mode, buf, marked, inflight, storeVars, sinkVars, stopper, counters>>

\* The stop channel is closed: drain.
StopSeen ==
    /\ pc = "select" /\ mode = "loop" /\ life = "closed"
    /\ mode' = "drain"
    /\ UNCHANGED <<life, call, ch, gap, pc, buf, marked, inflight, storeVars, sinkVars, stopper, counters>>

\* The drained writer returns without its last flush.
DrainedWithoutFlush ==
    /\ pc = "select" /\ mode = "drain" /\ ch = <<>>
    /\ mode' = "final" /\ pc' = "join"
    /\ UNCHANGED <<life, call, ch, gap, buf, marked, inflight, storeVars, sinkVars, stopper, counters>>

\* The channel is empty: flush a last time and return.
Drained ==
    /\ pc = "select" /\ mode = "drain" /\ ch = <<>>
    /\ mode' = "final" /\ pc' = "flush"
    /\ UNCHANGED <<life, call, ch, gap, buf, marked, inflight, storeVars, sinkVars, stopper, counters>>

\* Where the writer goes when a flush returns.
AfterFlush == IF mode = "final" THEN "join" ELSE "select"

\* flush up to the insert: the drops so far become the batch's marker.
Flush ==
    /\ pc = "flush"
    /\ gap' = 0
    /\ marked' = gap
    /\ inflight' = Len(buf) + (IF gap > 0 THEN 1 ELSE 0)
    /\ pc' = IF inflight' = 0 THEN AfterFlush ELSE "insert"
    /\ UNCHANGED <<life, call, ch, mode, buf, storeVars, sinkVars, stopper, counters>>

BatchDone ==
    /\ pc = "insert"
    /\ pc' = AfterFlush
    /\ buf' = <<>> /\ marked' = 0 /\ inflight' = 0

\* The non-blocking sends to the sinks: a full queue loses the batch.
Full == {s \in Sinks : Len(sinkq[s]) >= SinkQueueSize}

FanOut ==
    sinkq' = [s \in Sinks |-> IF s \in Full THEN sinkq[s]
                                ELSE Append(sinkq[s], Range(buf))]

\* written also counts the marker.
InsertOkCountingMarker ==
    /\ BatchDone
    /\ stored' = stored \union Range(buf)
    /\ reported' = reported + marked
    /\ Count("written", inflight)
    /\ FanOut
    /\ UNCHANGED <<life, call, ch, gap, mode, lost, doubled, streaming, stopper>>

\* The insert succeeded; what was stored is fanned out.
InsertOk ==
    /\ BatchDone
    /\ stored' = stored \union Range(buf)
    /\ reported' = reported + marked
    /\ Count("written", Len(buf))
    /\ FanOut
    /\ UNCHANGED <<life, call, ch, gap, mode, lost, doubled, streaming, stopper>>

\* A failed insert forgets the drops its marker reported.
InsertFailsForgettingGap ==
    /\ counters.failed < MaxFailed
    /\ BatchDone
    /\ lost' = lost \union Range(buf)
    /\ Count("failed", inflight)
    /\ UNCHANGED <<life, call, ch, gap, mode, stored, reported, doubled, sinkVars, stopper>>

\* The insert reported an error or its timeout.  The batch is gone, its drops
\* go back to the gap; the rows may have been committed all the same.
InsertFails ==
    /\ counters.failed < MaxFailed
    /\ BatchDone
    /\ lost' = lost \union Range(buf)
    /\ Count("failed", inflight)
    /\ gap' = gap + marked
    /\ \/ UNCHANGED <<stored, reported, doubled>>
       \/ /\ stored' = stored \union Range(buf)
          /\ reported' = reported + marked
          /\ doubled' = doubled + marked
    /\ UNCHANGED <<life, call, ch, mode, sinkVars, stopper>>

\* The writer's deferred calls: close the queues, wait for the workers, close done.
Join ==
    /\ pc = "join"
    /\ \A s \in Sinks : sinkq[s] = <<>> /\ streaming[s] = <<>>
    /\ pc' = "done"
    /\ UNCHANGED <<life, call, ch, gap, mode, buf, marked, inflight, storeVars, sinkVars, stopper, counters>>

-----------------------------------------------------------------------------
(* The sink workers *)

SinkTake(s) ==
    /\ streaming[s] = <<>> /\ sinkq[s] # <<>>
    /\ streaming' = [streaming EXCEPT ![s] = <<Head(sinkq[s])>>]
    /\ sinkq' = [sinkq EXCEPT ![s] = Tail(@)]
    /\ UNCHANGED <<life, call, ch, gap, writerVars, storeVars, stopper, counters>>

\* Stream returns; an error is only counted.
SinkEnd(s) ==
    /\ streaming[s] # <<>>
    /\ streaming' = [streaming EXCEPT ![s] = <<>>]
    /\ UNCHANGED <<life, call, ch, gap, writerVars, storeVars, sinkq, stopper, counters>>

-----------------------------------------------------------------------------
(* Stop *)

Stop ==
    /\ life = "running"
    /\ life' = "closed"
    /\ stopper' = "draining"
    /\ UNCHANGED <<call, ch, gap, writerVars, storeVars, sinkVars, counters>>

StopDone ==
    /\ stopper \in {"draining", "grace"} /\ pc = "done"
    /\ stopper' = "returned"
    /\ UNCHANGED <<life, call, ch, gap, writerVars, storeVars, sinkVars, counters>>

\* DrainTimeout elapsed: a running insert earns a grace period.
StopTimeout ==
    /\ stopper = "draining"
    /\ stopper' = IF inflight > 0 THEN "grace" ELSE "counting"
    /\ UNCHANGED <<life, call, ch, gap, writerVars, storeVars, sinkVars, counters>>

\* At once, or when the grace period has elapsed too, Stop gives up and counts
\* what it believes lost.
StopGiveUp ==
    /\ stopper \in {"grace", "counting"}
    /\ stopper' = "gaveup"
    /\ Count("dropped", Len(ch) + inflight)
    /\ UNCHANGED <<life, call, ch, gap, writerVars, storeVars, sinkVars>>

-----------------------------------------------------------------------------
Next ==
    \/ Start \/ Stop \/ StopDone \/ StopTimeout \/ StopGiveUp
    \/ Take \/ Tick \/ StopSeen \/ Drained \/ Flush \/ InsertOk \/ InsertFails \/ Join
    \/ \E e \in Events : Emit(e) \/ Send(e) \/ RecordGap(e)
    \/ \E s \in Sinks : SinkTake(s) \/ SinkEnd(s)

\* Goroutines run when they can, the ticker ticks, and an insert ends because
\* its context has a timeout.  select picks at random among the ready cases,
\* so a case that is ready again and again is taken (strong fairness).
Fairness ==
    /\ SF_vars(Take) /\ SF_vars(StopSeen) /\ SF_vars(Tick)
    /\ WF_vars(Drained) /\ WF_vars(Flush)
    /\ WF_vars(InsertOk \/ InsertFails)

Spec == Init /\ [][Next]_vars /\ Fairness

-----------------------------------------------------------------------------
(* Properties *)

Dropped == {e \in Events : call[e] = "dropped"}

\* recordDrop and flush: however drops, flushes and failed inserts interleave,
\* every dropped event is reported by a stored marker, or waits in the gap or
\* in the marker being written, and is counted once; only an insert that stored
\* its rows and still reported failure makes a marker count twice.
GapsCovered ==
    reported + gap + (IF pc = "insert" THEN marked ELSE 0) = Cardinality(Dropped) + doubled

\* flush: a sink is only ever handed events that are in the audit
\* table, so an external trail never shows what the table does not.
SinkAfterStore ==
    \A s \in Sinks :
        UNION (Range(sinkq[s]) \union Range(streaming[s])) \subseteq stored

\* The counters' invariant named in flush: emitted >= written + dropped, for as
\* long as Stop has not given up; then the batch in flight is counted as
\* dropped and again when its insert succeeds.
CountersAddUp ==
    stopper # "gaveup" => counters.emitted >= counters.written + counters.dropped

\* Stop: when it returns because the writer is done, every event accepted
\* before Stop was stored or its insert failed, and no sink has a batch left.
StoppedMeansDrained ==
    stopper = "returned" =>
        /\ \A e \in Events : call[e] = "queued" => e \in stored \union lost
        /\ \A s \in Sinks : sinkq[s] = <<>> /\ streaming[s] = <<>>

\* writerLoop: an event accepted before Stop is eventually part of an insert
\* that ended, whether or not Stop is called or gives up.
AcceptedIsWritten ==
    \A e \in Events : call[e] = "queued" ~> e \in stored \union lost
=============================================================================
