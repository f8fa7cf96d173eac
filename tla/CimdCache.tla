------------------------------ MODULE CimdCache ------------------------------
(***************************************************************************)
(* Client metadata documents (internal/cimd): Resolve of one client URL on *)
(* several replicas, each with its own cache and single-flight fetch, over *)
(* a shared cache tier.                                                    *)
(*                                                                         *)
(* The document at the URL changes and the site goes down and comes back.  *)
(* A document is its version; what matters of it is how long ago it was    *)
(* replaced, and of a failure how long ago the site came back.  Trust      *)
(* policy, validation and Cache-Control (HonorCacheControl) are left out.  *)
(***************************************************************************)
EXTENDS Integers, FiniteSets

CONSTANTS Nodes, Calls,
          CacheTTL, NegativeCacheTTL,
          CallTime,     \* how long a Resolve may take (the fetch timeout)
          SiteFails,    \* whether the site goes down
          MaxVersions   \* bound: versions of the document

VARIABLES site,      \* the site: its version, up or down, and the time since each change
          local,     \* local[n]: the replica's cache entry
          shared,    \* the shared tier's entry
          flight,    \* flight[n]: the fetch in progress, s.inflight
          call,      \* call[c]: a Resolve in progress
          answers    \* history: what was answered in this instant

cimdVars == <<site, local, shared, flight, call, answers>>

failed == 0              \* a fetch that failed; versions start at 1
NoEntry == [doc |-> -1, left |-> 0]
NoFlight == [doc |-> -1, leader |-> 0]
NoCall == [pc |-> "idle", node |-> CHOOSE n \in Nodes : TRUE, doc |-> -1, time |-> 0]
(* An entry of lifetime t answers at ages below t.                         *)
Reach(t) == IF t > 0 THEN t - 1 + CallTime ELSE CallTime
MaxStale == 2 * Reach(CacheTTL) + CallTime
MaxBack == Reach(NegativeCacheTTL)
Docs == -1..MaxVersions

TypeOK ==
    /\ site \in [version : 1..MaxVersions, up : BOOLEAN, since : [1..MaxVersions -> 0..MaxStale + 1], back : 0..MaxBack + 1]
    /\ local \in [Nodes -> [doc : Docs, left : 0..CacheTTL]]
    /\ shared \in [doc : Docs, left : 0..CacheTTL]
    /\ \A c \in Calls : /\ call[c].pc \in {"idle", "shared", "keep", "join", "fetch", "wait", "done", "share"}
                        /\ call[c].time \in 0..CallTime
    /\ \A n \in Nodes : flight[n].doc = -1 \/ flight[n].leader \in Calls
    /\ answers \subseteq Docs

Init ==
    /\ site = [version |-> 1, up |-> TRUE, since |-> [v \in 1..MaxVersions |-> 0], back |-> MaxBack + 1]
    /\ local = [n \in Nodes |-> NoEntry] /\ shared = NoEntry
    /\ flight = [n \in Nodes |-> NoFlight]
    /\ call = [c \in Calls |-> NoCall] /\ answers = {}

At(c, pc) == call[c].pc = pc
To(c, pc) == call' = [call EXCEPT ![c].pc = pc]
Answer(c, doc) == answers' = answers \union {doc} /\ call' = [call EXCEPT ![c] = NoCall]
Live(e) == e.left > 0
Entry(doc) == [doc |-> doc, left |-> IF doc = failed THEN NegativeCacheTTL ELSE CacheTTL]

-----------------------------------------------------------------------------
(* Resolve: the replica's entry answers while it is fresh.                 *)
Resolve(c, n) ==
    /\ At(c, "idle")
    /\ IF Live(local[n]) THEN Answer(c, local[n].doc)
       ELSE call' = [call EXCEPT ![c] = [NoCall EXCEPT !.pc = "shared", !.node = n]] /\ UNCHANGED answers
    /\ UNCHANGED <<site, local, shared, flight>>

(* sharedLoad: a hit is kept in the replica's cache for a whole CacheTTL.  *)
SharedLoad(c) ==
    /\ At(c, "shared")
    /\ call' = [call EXCEPT ![c].pc = IF Live(shared) THEN "keep" ELSE "join",
                            ![c].doc = IF Live(shared) THEN shared.doc ELSE -1]
    /\ UNCHANGED <<site, local, shared, flight, answers>>

(* Mutant of KeepShared: what is read from the shared tier is put  *)
(* back there with a new lifetime.                                         *)
KeepSharedRenewing(c) ==
    /\ At(c, "keep")
    /\ local' = [local EXCEPT ![call[c].node] = Entry(call[c].doc)]
    /\ shared' = Entry(call[c].doc)
    /\ Answer(c, call[c].doc)
    /\ UNCHANGED <<site, flight>>

KeepShared(c) ==
    /\ At(c, "keep")
    /\ local' = [local EXCEPT ![call[c].node] = Entry(call[c].doc)]
    /\ Answer(c, call[c].doc)
    /\ UNCHANGED <<site, shared, flight>>

InFlight(n) == flight[n].leader /= 0

(* fetchOnce: the first caller leads, the others wait for its result.      *)
Join(c) ==
    LET n == call[c].node
    IN  /\ At(c, "join")
        /\ IF InFlight(n) THEN To(c, "wait") /\ UNCHANGED flight
           ELSE To(c, "fetch") /\ flight' = [flight EXCEPT ![n] = [doc |-> -1, leader |-> c]]
        /\ UNCHANGED <<site, local, shared, answers>>

Fetch(c) ==
    /\ At(c, "fetch")
    /\ call' = [call EXCEPT ![c].pc = "done", ![c].doc = IF site.up THEN site.version ELSE failed]
    /\ UNCHANGED <<site, local, shared, flight, answers>>

KeepFetched(doc) == Entry(doc)

(* The leader's end: cache the result, release the flight, wake the        *)
(* followers, all of which go on with it.                                  *)
FetchDone(c) ==
    LET n == call[c].node
        doc == call[c].doc
        woken == {d \in Calls : call[d].pc = "wait" /\ call[d].node = n}
        after == IF doc = failed THEN NoCall ELSE [NoCall EXCEPT !.pc = "share", !.node = n, !.doc = doc]
    IN  /\ At(c, "done")
        /\ local' = IF Live(KeepFetched(doc)) THEN [local EXCEPT ![n] = KeepFetched(doc)] ELSE local
        /\ flight' = [flight EXCEPT ![n] = NoFlight]
        /\ call' = [d \in Calls |-> IF d = c \/ d \in woken THEN [after EXCEPT !.time = IF doc = failed THEN 0 ELSE call[d].time]
                                    ELSE call[d]]
        /\ answers' = IF doc = failed THEN answers \union {failed} ELSE answers
        /\ UNCHANGED <<site, shared>>

SharedStore(c) ==
    /\ At(c, "share") /\ shared' = Entry(call[c].doc) /\ Answer(c, call[c].doc)
    /\ UNCHANGED <<site, local, flight>>

(* A follower gives up waiting.                                            *)
Impatient(c) ==
    /\ At(c, "wait") /\ call' = [call EXCEPT ![c] = NoCall]
    /\ UNCHANGED <<site, local, shared, flight, answers>>

Invalidate(n) ==
    /\ Live(local[n]) \/ Live(shared)
    /\ local' = [local EXCEPT ![n] = NoEntry] /\ shared' = NoEntry
    /\ UNCHANGED <<site, flight, call, answers>>

-----------------------------------------------------------------------------
Replace ==
    /\ site.version < MaxVersions
    /\ site' = [site EXCEPT !.version = @ + 1]
    /\ UNCHANGED <<local, shared, flight, call, answers>>

Outage ==
    /\ SiteFails
    /\ site' = [site EXCEPT !.up = ~@, !.back = 0]
    /\ UNCHANGED <<local, shared, flight, call, answers>>

Down(e) == IF e.left > 1 THEN [e EXCEPT !.left = @ - 1] ELSE NoEntry
Up(t, max) == IF t <= max THEN t + 1 ELSE t
Tick ==
    /\ \A c \in Calls : call[c].pc /= "idle" => call[c].time < CallTime
    /\ local' = [n \in Nodes |-> Down(local[n])] /\ shared' = Down(shared)
    /\ call' = [c \in Calls |-> IF At(c, "idle") THEN call[c] ELSE [call[c] EXCEPT !.time = @ + 1]]
    /\ site' = [site EXCEPT !.since = [v \in 1..MaxVersions |-> IF v < site.version THEN Up(@[v], MaxStale) ELSE 0],
                            !.back = IF site.up THEN Up(@, MaxBack) ELSE 0]
    /\ answers' = {} /\ UNCHANGED flight

Next ==
    \/ \E c \in Calls : \/ \E n \in Nodes : Resolve(c, n)
                        \/ SharedLoad(c) \/ KeepShared(c) \/ Join(c) \/ Fetch(c) \/ FetchDone(c)
                        \/ SharedStore(c) \/ Impatient(c)
    \/ \E n \in Nodes : Invalidate(n)
    \/ Replace \/ Outage \/ Tick

Spec == Init /\ [][Next]_cimdVars

-----------------------------------------------------------------------------
(* A replaced document is answered for at most a lifetime in the shared    *)
(* tier and another in a replica's cache, plus the three calls that move   *)
(* it there: the leader that fetched it, a follower that shares it late,   *)
(* and the reader that keeps it.  No path through the tiers renews it for  *)
(* ever.                                                                   *)
StaleDocumentBounded ==
    \A d \in answers \ {failed} : site.since[d] <= MaxStale

(* Once the site is back, the failure is answered for at most              *)
(* NegativeCacheTTL and the call that saw it.                              *)
FailureForgotten == failed \in answers /\ site.up => site.back <= MaxBack

(* A replica has at most one fetch of the URL in progress, and whoever     *)
(* waits, waits for one that is running.                                   *)
OneFetch ==
    \A n \in Nodes :
        LET fetching == {c \in Calls : call[c].pc \in {"fetch", "done"} /\ call[c].node = n}
        IN  /\ Cardinality(fetching) <= 1
            /\ (\E c \in Calls : At(c, "wait") /\ call[c].node = n) => fetching /= {}
=============================================================================
