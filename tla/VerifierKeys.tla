----------------------------- MODULE VerifierKeys -----------------------------
(***************************************************************************)
(* The resource server's cache of the authorization server's signing keys  *)
(* (mcpresource/jwks.go).                                                  *)
(*                                                                         *)
(* Every token verification looks its key up; a miss or a stale snapshot   *)
(* refetches the document.  Fetches run without the lock and may overlap,  *)
(* fail, or return a document without a usable key.  An age counts up to   *)
(* MaxAge.  Key types and alg pins are left out.                           *)
(***************************************************************************)
EXTENDS Integers, FiniteSets

CONSTANTS Lookups,      \* lookups in progress at a time
          Kids,         \* keys
          ttl,          \* how long a snapshot is fresh
          minRefreshInterval,
          maxStale,     \* how long a snapshot serves when it cannot be refetched
          FetchTimeout, \* the HTTP client's time limit
          MaxChanges    \* bound: changes of the published set

VARIABLES published,   \* what the authorization server publishes
          keys,        \* c.keys
          age,         \* the time since c.lastFetched
          lookup,      \* lookup[l]: a lookup in progress
          withdrawn,   \* withdrawn[k]: the time since k was last published
          changes,     \* changes of the published set
          accepted     \* history: the keys accepted in this instant

verifierVars == <<published, keys, age, lookup, withdrawn, changes, accepted>>

Longest == IF ttl > maxStale THEN ttl ELSE maxStale
MaxAge == Longest + FetchTimeout + 1
NoLookup == [pc |-> "idle", kid |-> CHOOSE k \in Kids : TRUE, doc |-> {}, time |-> 0]

TypeOK ==
    /\ published \subseteq Kids /\ keys \subseteq Kids
    /\ age \in 0..MaxAge /\ changes \in 0..MaxChanges
    /\ \A l \in Lookups : /\ lookup[l].pc \in {"idle", "fetch", "store", "reread", "stale"}
                          /\ lookup[l].doc \subseteq Kids /\ lookup[l].time \in 0..FetchTimeout
    /\ withdrawn \in [Kids -> 0..MaxAge] /\ accepted \subseteq Kids

(* The cache starts empty, and as if fetched long ago.                     *)
Init ==
    /\ published \in SUBSET Kids \ {{}} /\ keys = {} /\ age = MaxAge
    /\ lookup = [l \in Lookups |-> NoLookup]
    /\ withdrawn = [k \in Kids |-> IF k \in published THEN 0 ELSE MaxAge]
    /\ changes = 0 /\ accepted = {}

Accept(k) == accepted' = accepted \union {k}
To(l, pc) == lookup' = [lookup EXCEPT ![l].pc = pc]
End(l) == lookup' = [lookup EXCEPT ![l] = NoLookup]

-----------------------------------------------------------------------------
Fresh == age <= ttl

(* refresh does nothing right after a fetch that brought keys.             *)
Throttled == age < minRefreshInterval /\ keys /= {}

(* lookup: a fresh hit is answered; otherwise refresh, unless throttled.   *)
Lookup(l, k) ==
    /\ lookup[l].pc = "idle"
    /\ IF k \in keys /\ Fresh THEN Accept(k) /\ UNCHANGED lookup
       ELSE /\ lookup' = [lookup EXCEPT ![l] = [NoLookup EXCEPT !.kid = k, !.pc = IF Throttled THEN "reread" ELSE "fetch"]]
            /\ UNCHANGED accepted
    /\ UNCHANGED <<published, keys, age, withdrawn, changes>>

(* The document the server answers with: what it publishes now, or one     *)
(* that is truncated or malformed, with no usable key.                     *)
Fetch(l) ==
    /\ lookup[l].pc = "fetch"
    /\ \E doc \in {published, {}} : lookup' = [lookup EXCEPT ![l].doc = doc, ![l].pc = "store"]
    /\ UNCHANGED <<published, keys, age, withdrawn, changes, accepted>>

FetchFails(l) ==
    /\ lookup[l].pc \in {"fetch", "store"} /\ To(l, "stale")
    /\ UNCHANGED <<published, keys, age, withdrawn, changes, accepted>>

Usable(doc) == doc /= {}

Store(l) ==
    LET doc == lookup[l].doc
    IN  /\ lookup[l].pc = "store"
        /\ IF Usable(doc) THEN keys' = doc /\ age' = 0 /\ To(l, "reread")
           ELSE To(l, "stale") /\ UNCHANGED <<keys, age>>
        /\ UNCHANGED <<published, withdrawn, changes, accepted>>

(* After a refresh, or none because of the throttle, the key is read again.*)
Reread(l) ==
    /\ lookup[l].pc = "reread" /\ End(l)
    /\ IF lookup[l].kid \in keys THEN Accept(lookup[l].kid) ELSE UNCHANGED accepted
    /\ UNCHANGED <<published, keys, age, withdrawn, changes>>

StaleAllowed == age <= maxStale

(* After a failed refresh, a snapshot that is not too old still serves.    *)
StaleRead(l) ==
    /\ lookup[l].pc = "stale" /\ End(l)
    /\ IF lookup[l].kid \in keys /\ StaleAllowed THEN Accept(lookup[l].kid) ELSE UNCHANGED accepted
    /\ UNCHANGED <<published, keys, age, withdrawn, changes>>

-----------------------------------------------------------------------------
(* The authorization server publishes another set.                         *)
Publish(set) ==
    /\ set \in SUBSET Kids \ {{}} /\ set /= published /\ changes < MaxChanges
    /\ published' = set /\ changes' = changes + 1
    /\ withdrawn' = [k \in Kids |-> IF k \in set THEN 0 ELSE withdrawn[k]]
    /\ UNCHANGED <<keys, age, lookup, accepted>>

Up(n) == IF n < MaxAge THEN n + 1 ELSE n
(* A lookup that waited for the read lock reads at the same instant.       *)
Tick ==
    /\ \A l \in Lookups : lookup[l].pc \notin {"reread", "stale"} /\ lookup[l].time < FetchTimeout
    /\ age' = Up(age)
    /\ withdrawn' = [k \in Kids |-> IF k \in published THEN 0 ELSE Up(withdrawn[k])]
    /\ lookup' = [l \in Lookups |-> IF lookup[l].pc = "idle" THEN lookup[l] ELSE [lookup[l] EXCEPT !.time = @ + 1]]
    /\ accepted' = {}
    /\ UNCHANGED <<published, keys, changes>>

Next ==
    \/ \E l \in Lookups : \/ \E k \in Kids : Lookup(l, k)
                          \/ Fetch(l) \/ FetchFails(l) \/ Store(l) \/ Reread(l) \/ StaleRead(l)
    \/ \E set \in SUBSET Kids : Publish(set)
    \/ Tick

Spec == Init /\ [][Next]_verifierVars

-----------------------------------------------------------------------------
(* A key the server has withdrawn is accepted no longer than the snapshot  *)
(* may serve (ttl, or maxStale while fetches fail) after the fetch that    *)
(* could last have seen it, even when an older fetch is stored after a     *)
(* newer one.                                                              *)
WithdrawnKeyBounded == \A k \in accepted : withdrawn[k] <= Longest + FetchTimeout

(* A document without a usable key never empties the cache.                *)
KeysKept == keys /= {} => keys' /= {}
=============================================================================
