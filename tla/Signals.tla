-------------------------------- MODULE Signals --------------------------------
(***************************************************************************)
(* Shared-signals push delivery: one stream of a transmitter               *)
(* (signals/transmitter.go, signals/delivery.go) and the receiver that     *)
(* processes its security event tokens (SETs, signals/receiver.go).        *)
(*                                                                         *)
(* Several processes may run the push loop over one store (a SQL store     *)
(* shared by replicas).  A pass reads the due SETs, caches the stream row  *)
(* once, and settles each SET with its own store call.  The network may    *)
(* lose a push, or deliver it after the transmitter has given up on it.    *)
(* The receiver marks a SET seen before it runs the handlers, and forgets  *)
(* it when one of them fails.                                              *)
(*                                                                         *)
(* SETs are numbered in the order they are queued, the order of CreatedAt. *)
(***************************************************************************)
EXTENDS Integers, FiniteSets, FiniteSetsExt

CONSTANTS Pushers,      \* processes running the push loop
          MaxSets,      \* bound: SETs queued in a behaviour
          MaxAttempts,  \* TransmitterConfig.MaxAttempts
          ReplayCap,    \* ReceiverConfig.MaxReplayEntries
          MaxCrashes    \* bound: restarts of a pusher or of the receiver

VARIABLES stream,   \* the stored stream row: its status, or "gone"
          patch,    \* the status an unfinished PATCH has read, or "none"
          emit,     \* [last: SETs queued so far, listed: an Emit has read the streams]
          queue,    \* per SET: its row in the store
          pass,     \* per pusher: the delivery pass it is in
          late,     \* SETs the network still delivers though nobody waits
          seen,     \* the receiver's replay cache
          running,  \* SETs whose handlers are running at the receiver
          past      \* history: what has happened to each SET

signalsVars == <<stream, patch, emit, queue, pass, late, seen, running, past>>

Sets == 1..MaxSets
Statuses == {"enabled", "paused", "disabled"}
Absent == [in |-> FALSE, attempts |-> 0, due |-> FALSE]
Resting == [due |-> {}, attempts |-> [s \in Sets |-> 0], row |-> "none",
            at |-> 0, step |-> "idle"]

TypeOK ==
    /\ stream \in Statuses \cup {"gone"}
    /\ patch \in Statuses \cup {"none"}
    /\ emit \in [last : 0..MaxSets, listed : BOOLEAN]
    /\ queue \in [Sets -> [in : BOOLEAN, attempts : 0..MaxAttempts-1, due : BOOLEAN]]
    /\ pass \in [Pushers -> [due : SUBSET Sets, attempts : [Sets -> 0..MaxAttempts-1],
                             row : {"none", "enabled", "paused", "disabled"}, at : 0..MaxSets,
                             step : {"idle", "visit", "sent", "handled", "ok", "retry", "refused"}]]
    /\ late \subseteq Sets
    /\ seen \subseteq Sets /\ Cardinality(seen) <= ReplayCap
    /\ running \subseteq seen
    /\ past \in [done : [Sets -> 0..2], pushes : [Sets -> 0..MaxAttempts+1],
                 acked : SUBSET Sets, hasty : SUBSET Sets, forgotten : SUBSET Sets,
                 shared : SUBSET Sets, crashes : 0..MaxCrashes]

Init ==
    /\ stream = "enabled" /\ patch = "none"
    /\ emit = [last |-> 0, listed |-> FALSE]
    /\ queue = [s \in Sets |-> Absent]
    /\ pass = [w \in Pushers |-> Resting]
    /\ late = {} /\ seen = {} /\ running = {}
    /\ past = [done |-> [s \in Sets |-> 0], pushes |-> [s \in Sets |-> 0], acked |-> {},
               hasty |-> {}, forgotten |-> {}, shared |-> {}, crashes |-> 0]

-----------------------------------------------------------------------------
(* The stream's management requests.                                       *)

SetStatus(st) ==
    /\ stream /= "gone" /\ stream' = st
    /\ UNCHANGED <<patch, emit, queue, pass, late, seen, running, past>>

(* PATCH and PUT read the row, change other fields of it, and write all of it. *)
PatchRead ==
    /\ stream /= "gone" /\ patch = "none" /\ patch' = stream
    /\ UNCHANGED <<stream, emit, queue, pass, late, seen, running, past>>

PatchWrite ==
    /\ patch /= "none" /\ patch' = "none"
    /\ stream' = IF stream = "gone" THEN "gone" ELSE patch
    /\ UNCHANGED <<emit, queue, pass, late, seen, running, past>>

DeleteStream ==
    /\ stream /= "gone" /\ stream' = "gone"
    /\ queue' = [s \in Sets |-> Absent]
    /\ UNCHANGED <<patch, emit, pass, late, seen, running, past>>

-----------------------------------------------------------------------------
(* Emit lists the streams, then queues one SET on each.                    *)

Emit ==
    /\ ~emit.listed /\ emit.last < MaxSets
    /\ stream \in {"enabled", "paused"}
    /\ emit' = [emit EXCEPT !.listed = TRUE]
    /\ UNCHANGED <<stream, patch, queue, pass, late, seen, running, past>>

Enqueue ==
    /\ emit.listed
    /\ emit' = [last |-> emit.last + 1, listed |-> FALSE]
    /\ queue' = [queue EXCEPT ![emit.last + 1] = [in |-> TRUE, attempts |-> 0, due |-> TRUE]]
    /\ UNCHANGED <<stream, patch, pass, late, seen, running, past>>

-----------------------------------------------------------------------------
(* DeliverDue.                                                             *)

DuePush == {s \in Sets : queue[s].in /\ queue[s].due}
Held(w) == pass[w].due \cup {s \in Sets : pass[w].at = s}

BeginPass(w) ==
    /\ pass[w].step = "idle" /\ DuePush /= {}
    /\ pass' = [pass EXCEPT ![w] = [Resting EXCEPT !.due = DuePush, !.step = "visit",
                                        !.attempts = [s \in Sets |-> queue[s].attempts]]]
    /\ past' = [past EXCEPT !.shared = @ \cup {s \in DuePush : \E o \in Pushers \ {w} : s \in Held(o)}]
    /\ UNCHANGED <<stream, patch, emit, queue, late, seen, running>>

Drop(s) == queue' = [queue EXCEPT ![s] = Absent]

(* The next SET of the pass: the stream row is read once and kept; an      *)
(* orphan of a deleted stream is dropped; a paused stream is skipped.      *)
Visit(w) ==
    LET s   == Min(pass[w].due)
        row == IF pass[w].row = "none" THEN stream ELSE pass[w].row
        left == pass[w].due \ {s}
    IN  /\ pass[w].step = "visit" /\ pass[w].due /= {}
        /\ \/ /\ row = "gone" /\ Drop(s)
              /\ pass' = [pass EXCEPT ![w].due = left]
              /\ past' = past
           \/ /\ row \in {"paused", "disabled"}
              /\ pass' = [pass EXCEPT ![w].due = left, ![w].row = row]
              /\ UNCHANGED <<queue, past>>
           \/ /\ row = "enabled"
              /\ pass' = [pass EXCEPT ![w].due = left, ![w].row = row, ![w].at = s, ![w].step = "sent"]
              /\ past' = [past EXCEPT !.pushes[s] = Min({@ + 1, MaxAttempts + 1})]
              /\ queue' = queue
        /\ UNCHANGED <<stream, patch, emit, late, seen, running>>

EndPass(w) ==
    /\ pass[w].step = "visit" /\ pass[w].due = {}
    /\ pass' = [pass EXCEPT ![w] = Resting]
    /\ UNCHANGED <<stream, patch, emit, queue, late, seen, running, past>>

Step(w, st) == pass' = [pass EXCEPT ![w].step = st]

(* The push never arrives, or PushTimeout passes: the request may still be *)
(* on its way, or its handlers may still be running.                       *)
PushFails(w) ==
    /\ pass[w].step \in {"sent", "handled"} /\ Step(w, "retry")
    /\ late' \in {late} \cup (IF pass[w].step = "sent" THEN {late \cup {pass[w].at}} ELSE {})
    /\ UNCHANGED <<stream, patch, emit, queue, seen, running, past>>

MoreAttempts(n) == n + 1 < MaxAttempts

MarkAttempt(s, n) ==
    queue' = IF queue[s].in THEN [queue EXCEPT ![s] = [in |-> TRUE, attempts |-> n, due |-> FALSE]]
                            ELSE queue

(* The store call that follows a push: acknowledged, retried or dropped.   *)
Settle(w) ==
    LET s == pass[w].at
        n == pass[w].attempts[s]
    IN  /\ pass[w].step \in {"ok", "retry", "refused"}
        /\ IF pass[w].step = "retry" /\ MoreAttempts(n) THEN MarkAttempt(s, n + 1) ELSE Drop(s)
        /\ past' = [past EXCEPT !.acked = IF pass[w].step = "ok" THEN @ \cup {s} ELSE @]
        /\ pass' = [pass EXCEPT ![w].step = "visit", ![w].at = 0]
        /\ UNCHANGED <<stream, patch, emit, late, seen, running>>

BackoffElapses(s) ==
    /\ queue[s].in /\ ~queue[s].due
    /\ queue' = [queue EXCEPT ![s].due = TRUE]
    /\ UNCHANGED <<stream, patch, emit, pass, late, seen, running, past>>

(* A pusher restarts: the rows stay as they are, its pass is gone.         *)
PusherCrash(w) ==
    /\ past.crashes < MaxCrashes /\ pass[w].step /= "idle"
    /\ pass' = [pass EXCEPT ![w] = Resting]
    /\ late' \in {late} \cup (IF pass[w].step = "sent" THEN {late \cup {pass[w].at}} ELSE {})
    /\ past' = [past EXCEPT !.crashes = @ + 1, !.shared = @ \cup Held(w)]
    /\ UNCHANGED <<stream, patch, emit, queue, seen, running>>

-----------------------------------------------------------------------------
(* The receiver's push endpoint.                                           *)

(* Mutant of MarkSeen: no check for a replay.                              *)
MarkSeenUnchecked(s) == s \in seen \/ Cardinality(seen) < ReplayCap

MarkSeen(s) == s \notin seen /\ Cardinality(seen) < ReplayCap

(* Handle: a replay is answered as a success, a full cache as a server     *)
(* error, anything that does not verify as a bad request.                  *)
Receive(w) ==
    LET s == pass[w].at
    IN  /\ pass[w].step = "sent"
        /\ \/ /\ Step(w, "refused") /\ UNCHANGED <<seen, running, past>>
           \/ /\ s \in seen /\ Step(w, "ok")
              /\ past' = [past EXCEPT !.hasty = IF s \in running THEN @ \cup {s} ELSE @]
              /\ UNCHANGED <<seen, running>>
           \/ /\ s \notin seen /\ ~MarkSeen(s) /\ Step(w, "retry")
              /\ UNCHANGED <<seen, running, past>>
           \/ /\ MarkSeen(s) /\ Step(w, "handled")
              /\ seen' = seen \cup {s} /\ running' = running \cup {s}
              /\ past' = past
        /\ UNCHANGED <<stream, patch, emit, queue, late>>

ReceiveLate(s) ==
    /\ s \in late /\ late' = late \ {s}
    /\ IF MarkSeen(s)
         THEN seen' = seen \cup {s} /\ running' = running \cup {s}
         ELSE UNCHANGED <<seen, running>>
    /\ UNCHANGED <<stream, patch, emit, queue, pass, past>>

(* The answer reaches the pusher that waits for this run of the handlers.  *)
Answer(s, st) ==
    pass' = [w \in Pushers |-> IF pass[w].step = "handled" /\ pass[w].at = s
                               THEN [pass[w] EXCEPT !.step = st] ELSE pass[w]]

HandlersDone(s) ==
    /\ s \in running /\ running' = running \ {s}
    /\ Answer(s, "ok")
    /\ past' = [past EXCEPT !.done[s] = Min({@ + 1, 2})]
    /\ UNCHANGED <<stream, patch, emit, queue, late, seen>>

HandlerFails(s) ==
    /\ s \in running /\ running' = running \ {s}
    /\ seen' = seen \ {s}
    /\ Answer(s, "retry")
    /\ UNCHANGED <<stream, patch, emit, queue, late, past>>

(* ReplayWindow passes; handlers finish well within it.                    *)
WindowElapses(s) ==
    /\ s \in seen \ running /\ seen' = seen \ {s}
    /\ past' = [past EXCEPT !.forgotten = @ \cup {s}]
    /\ UNCHANGED <<stream, patch, emit, queue, pass, late, running>>

(* The replay cache lives in the process.                                  *)
ReceiverRestart ==
    /\ past.crashes < MaxCrashes
    /\ seen' = {} /\ running' = {}
    /\ pass' = [w \in Pushers |-> IF pass[w].step = "handled" THEN [pass[w] EXCEPT !.step = "retry"]
                                                              ELSE pass[w]]
    /\ past' = [past EXCEPT !.crashes = @ + 1, !.forgotten = @ \cup seen]
    /\ UNCHANGED <<stream, patch, emit, queue, late>>

-----------------------------------------------------------------------------
Next ==
    \/ \E st \in Statuses : SetStatus(st)
    \/ PatchRead \/ PatchWrite \/ DeleteStream
    \/ Emit \/ Enqueue
    \/ \E w \in Pushers : \/ BeginPass(w) \/ Visit(w) \/ EndPass(w) \/ PushFails(w)
                          \/ Settle(w) \/ PusherCrash(w) \/ Receive(w)
    \/ \E s \in Sets : \/ BackoffElapses(s) \/ ReceiveLate(s) \/ HandlersDone(s)
                       \/ HandlerFails(s) \/ WindowElapses(s)
    \/ ReceiverRestart

Spec == Init /\ [][Next]_signalsVars

-----------------------------------------------------------------------------
(* A SET the transmitter counts as delivered has been processed by the     *)
(* receiver's handlers, unless a second delivery arrived while the first   *)
(* was still being processed: the replay is answered as a success although *)
(* the handlers may yet fail (receiver.go Handle, ServeHTTP).              *)
AckedWasProcessed ==
    \A s \in past.acked \ past.hasty : past.done[s] > 0

(* The handlers complete at most once for a SET, however often it is       *)
(* pushed, while its entry of the replay cache lives (receiver.go          *)
(* markSeen).                                                              *)
ProcessedOnce ==
    \A s \in Sets \ past.forgotten : past.done[s] <= 1

(* A SET is pushed at most MaxAttempts times, unless two pushers had it in *)
(* their passes at the same time or one crashed with it in hand            *)
(* (delivery.go DeliverDue).                                               *)
PushesBounded ==
    \A s \in Sets \ past.shared : past.pushes[s] <= MaxAttempts

(* A SET that has left the queue, delivered, dropped or deleted with its   *)
(* stream, is never queued again, whatever a slow pusher still writes      *)
(* about it (store MarkAttempt).                                           *)
StaysOut == \A s \in Sets : s <= emit.last /\ ~queue[s].in => ~queue'[s].in
=============================================================================
