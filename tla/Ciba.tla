-------------------------------- MODULE Ciba --------------------------------
(***************************************************************************)
(* CIBA backchannel authentication (internal/as/ciba.go) over the three    *)
(* kinds of storage it runs on: SQLite writes a decision only while the    *)
(* row is pending, memory and Postgres write it unconditionally, and so    *)
(* does a custom storage, which also lacks the atomic redeem the service   *)
(* then replaces by a lock around a read and a write.  A behaviour runs    *)
(* on one storage.  Every storage call is one step.                        *)
(***************************************************************************)
EXTENDS Integers, Sequences, FiniteSets

CONSTANTS AuthReqs,           \* auth_req_ids, never reused
          Clients,
          Users,
          Polls,              \* concurrent PollBackchannelToken calls
          Callbacks,          \* concurrent Approve and Deny calls
          NoAuthReq, NoClient, NoUser, NoPoll,
          Storages,           \* of "sqlite", "memory" (and Postgres) and "custom"
          Overlapping,        \* the storages on which the host lets decisions overlap
          DefaultExpiry, MaxRequestedExpiry, RequestedExpiries,
          DefaultInterval, MinPollInterval,
          MaxTime             \* bound: the clock

ASSUME CibaAssumption ==
  /\ Storages \subseteq {"sqlite", "memory", "custom"}
  /\ Overlapping \subseteq Storages
  /\ DefaultExpiry \in Nat \ {0}
  /\ MaxRequestedExpiry \in Nat \ {0}
  /\ RequestedExpiries \subseteq Nat
  /\ DefaultInterval \in Nat
  /\ MinPollInterval \in Nat
  /\ MaxTime \in Nat

VARIABLES storage,   \* the storage the service was built with, fixed
          now,
          rows,      \* rows[g]: the stored BackchannelRequest
          poll,      \* poll[p]: where a poll is, and the row it holds
          callback,  \* callback[k]: where an approval or a denial is, and the row it holds
          lock,      \* the poll inside the fallback redeem, or NoPoll
          delivered  \* delivered[g]: the token sets returned to polls of g, in order

vars == <<storage, now, rows, poll, callback, lock, delivered>>

Never == -1
NoTokens == [client |-> NoClient, user |-> NoUser]

TokenSet == [client : Clients \cup {NoClient}, user : Users \cup {NoUser}]

Row ==
  [status : {"none", "pending", "approved", "denied", "consumed", "expired"},
   client : Clients \cup {NoClient}, user : Users \cup {NoUser}, tokens : TokenSet,
   interval : Nat, last : Nat \cup {Never}, expires : Nat]

NoRow ==
  [status |-> "none", client |-> NoClient, user |-> NoUser, tokens |-> NoTokens,
   interval |-> 0, last |-> Never, expires |-> 0]

Poll ==
  [pc : {"idle", "slow", "touch", "redeem", "locked", "answer"}, req : AuthReqs \cup {NoAuthReq},
   row : Row, at : Nat]

Callback ==
  [pc : {"idle", "mint", "write"}, req : AuthReqs \cup {NoAuthReq}, user : Users \cup {NoUser},
   row : Row]

IdlePoll == [pc |-> "idle", req |-> NoAuthReq, row |-> NoRow, at |-> 0]
IdleCallback == [pc |-> "idle", req |-> NoAuthReq, user |-> NoUser, row |-> NoRow]

Min(a, b) == IF a <= b THEN a ELSE b

(***************************************************************************)
(* Storage operations.                                                     *)
(***************************************************************************)
\* UpdateBackchannelRequest requires a pending row (SQLite).
ConditionalUpdate == storage = "sqlite"

\* The storage implements BackchannelRedeemer.
HasRedeemer == storage # "custom"

\* UpdateBackchannelRequest writes the caller's copy of the row, poll bookkeeping included.
Updatable(g) == ConditionalUpdate => rows[g].status = "pending"

\* RedeemBackchannelRequest: compare and set from approved, at the time the poll began.
Redeemable(g, at) == rows[g].status = "approved" /\ at < rows[g].expires

\* The expiry of a new request: the default, which a request can only shorten.
Expiry(requested) ==
  IF requested > 0 THEN Min(Min(requested, DefaultExpiry), MaxRequestedExpiry) ELSE DefaultExpiry

(***************************************************************************)
(* The service.                                                            *)
(***************************************************************************)
Init ==
  /\ storage \in Storages
  /\ now = 0
  /\ rows = [g \in AuthReqs |-> NoRow]
  /\ poll = [p \in Polls |-> IdlePoll]
  /\ callback = [k \in Callbacks |-> IdleCallback]
  /\ lock = NoPoll
  /\ delivered = [g \in AuthReqs |-> <<>>]

Tick ==
  /\ now < MaxTime
  /\ now' = now + 1
  /\ UNCHANGED <<storage, rows, poll, callback, lock, delivered>>

\* The row is stored before the user's device is notified; a failing Notify leaves it there.
BackchannelAuthenticate(g, client, requested) ==
  /\ rows[g].status = "none"
  /\ rows' = [rows EXCEPT ![g] =
                [NoRow EXCEPT !.status = "pending", !.client = client,
                              !.interval = DefaultInterval, !.expires = now + Expiry(requested)]]
  /\ UNCHANGED <<storage, now, poll, callback, lock, delivered>>

\* The host application calls Approve and Deny; Overlapping says where it does so concurrently.
MayDecide == storage \in Overlapping \/ \A k \in Callbacks : callback[k].pc = "idle"

\* ApproveBackchannelRequest reads the row, checks it is pending, unexpired and not another
\* user's, then mints, then writes the row back.
ApproveRead(k, g, user) ==
  /\ MayDecide
  /\ callback[k].pc = "idle"
  /\ rows[g].status = "pending"
  /\ now < rows[g].expires
  /\ rows[g].user \in {NoUser, user}
  /\ callback' = [callback EXCEPT ![k] =
                    [pc |-> "mint", req |-> g, user |-> user, row |-> rows[g]]]
  /\ UNCHANGED <<storage, now, rows, poll, lock, delivered>>

ApproveMint(k) ==
  /\ callback[k].pc = "mint"
  /\ callback' = [callback EXCEPT
       ![k].pc = "write",
       ![k].row = [@ EXCEPT !.user = callback[k].user, !.status = "approved",
                            !.tokens = [client |-> callback[k].row.client, user |-> callback[k].user]]]
  /\ UNCHANGED <<storage, now, rows, poll, lock, delivered>>

\* DenyBackchannelRequest has no expiry check.
DenyRead(k, g, user) ==
  /\ MayDecide
  /\ callback[k].pc = "idle"
  /\ rows[g].status = "pending"
  /\ rows[g].user \in {NoUser, user}
  /\ callback' = [callback EXCEPT ![k] =
                    [pc |-> "write", req |-> g, user |-> user,
                     row |-> [rows[g] EXCEPT !.user = user, !.status = "denied"]]]
  /\ UNCHANGED <<storage, now, rows, poll, lock, delivered>>

CallbackWrite(k) ==
  LET g == callback[k].req IN
  /\ callback[k].pc = "write"
  /\ rows' = IF Updatable(g) THEN [rows EXCEPT ![g] = callback[k].row] ELSE rows
  /\ callback' = [callback EXCEPT ![k] = IdleCallback]
  /\ UNCHANGED <<storage, now, poll, lock, delivered>>

\* PollBackchannelToken up to the first write: the row, the client, the expiry and the floor
\* under the poll rate.
PollRead(p, g, client) ==
  LET slow == rows[g].last # Never /\ now - rows[g].last < MinPollInterval IN
  /\ poll[p].pc = "idle"
  /\ rows[g].status # "none"
  /\ rows[g].client = client
  /\ now < rows[g].expires
  /\ poll' = [poll EXCEPT ![p] =
                [pc |-> IF slow THEN "slow" ELSE "touch", req |-> g, row |-> rows[g], at |-> now]]
  /\ UNCHANGED <<storage, now, rows, callback, lock, delivered>>

\* slow_down doubles the interval the poll read, up to the cap, and ends the poll.
PollSlowDown(p) ==
  LET g == poll[p].req IN
  /\ poll[p].pc = "slow"
  /\ rows' = [rows EXCEPT ![g].last = poll[p].at,
                          ![g].interval = Min(2 * poll[p].row.interval, MaxRequestedExpiry)]
  /\ poll' = [poll EXCEPT ![p] = IdlePoll]
  /\ UNCHANGED <<storage, now, callback, lock, delivered>>

\* TouchBackchannelPoll returns the row as it is now; every answer but an approval ends the poll.
PollTouch(p) ==
  LET g == poll[p].req
      touched == [rows[g] EXCEPT !.last = poll[p].at, !.interval = poll[p].row.interval]
  IN
  /\ poll[p].pc = "touch"
  /\ rows' = [rows EXCEPT ![g] = touched]
  /\ poll' = [poll EXCEPT ![p] =
                IF touched.status = "approved" /\ touched.tokens # NoTokens
                THEN [@ EXCEPT !.pc = "redeem", !.row = touched]
                ELSE IdlePoll]
  /\ UNCHANGED <<storage, now, callback, lock, delivered>>

\* redeemBackchannel with a BackchannelRedeemer: one atomic storage call with one winner.
PollRedeem(p) ==
  LET g == poll[p].req IN
  /\ HasRedeemer
  /\ poll[p].pc = "redeem"
  /\ \/ /\ Redeemable(g, poll[p].at)
        /\ rows' = [rows EXCEPT ![g].status = "consumed"]
        /\ poll' = [poll EXCEPT ![p].pc = "answer", ![p].row = rows[g]]
     \/ /\ ~Redeemable(g, poll[p].at)
        /\ poll' = [poll EXCEPT ![p] = IdlePoll]
        /\ UNCHANGED rows
  /\ UNCHANGED <<storage, now, callback, lock, delivered>>

\* Mutant: the fallback redeem without its lock.
LockFree == TRUE

\* redeemLockFor: one redeem at a time in this process.
LockAvailable == lock = NoPoll

\* redeemBackchannel's fallback: read under the lock, then write the row back as consumed.
FallbackRead(p) ==
  LET g == poll[p].req IN
  /\ ~HasRedeemer
  /\ poll[p].pc = "redeem"
  /\ LockAvailable
  /\ \/ /\ Redeemable(g, poll[p].at)
        /\ poll' = [poll EXCEPT ![p].pc = "locked", ![p].row = rows[g]]
        /\ lock' = p
     \/ /\ ~Redeemable(g, poll[p].at)
        /\ poll' = [poll EXCEPT ![p] = IdlePoll]
        /\ UNCHANGED lock
  /\ UNCHANGED <<storage, now, rows, callback, delivered>>

FallbackWrite(p) ==
  LET g == poll[p].req IN
  /\ poll[p].pc = "locked"
  /\ rows' = [rows EXCEPT ![g] = [poll[p].row EXCEPT !.status = "consumed"]]
  /\ poll' = [poll EXCEPT ![p].pc = "answer"]
  /\ lock' = NoPoll
  /\ UNCHANGED <<storage, now, callback, delivered>>

\* The winner answers with the tokens of the row it claimed.
PollAnswer(p) ==
  LET g == poll[p].req IN
  /\ poll[p].pc = "answer"
  /\ delivered' = [delivered EXCEPT ![g] = Append(@, poll[p].row.tokens)]
  /\ poll' = [poll EXCEPT ![p] = IdlePoll]
  /\ UNCHANGED <<storage, now, rows, callback, lock>>

\* A call that fails, or an answer that is lost, ends its request; the deferred unlock still runs.
Abort ==
  /\ \/ \E p \in Polls : /\ poll[p].pc # "idle"
                         /\ poll' = [poll EXCEPT ![p] = IdlePoll]
                         /\ lock' = IF lock = p THEN NoPoll ELSE lock
                         /\ UNCHANGED callback
     \/ \E k \in Callbacks : /\ callback[k].pc # "idle"
                             /\ callback' = [callback EXCEPT ![k] = IdleCallback]
                             /\ UNCHANGED <<poll, lock>>
  /\ UNCHANGED <<storage, now, rows, delivered>>

\* ExpireBackchannelRequests, which only the SQLite storage has.
ExpireBackchannelRequests ==
  /\ ConditionalUpdate
  /\ rows' = [g \in AuthReqs |->
                IF rows[g].status = "pending" /\ rows[g].expires <= now
                THEN [rows[g] EXCEPT !.status = "expired"] ELSE rows[g]]
  /\ UNCHANGED <<storage, now, poll, callback, lock, delivered>>

Next ==
  \/ Tick
  \/ \E g \in AuthReqs, c \in Clients, e \in RequestedExpiries : BackchannelAuthenticate(g, c, e)
  \/ \E k \in Callbacks, g \in AuthReqs, u \in Users : ApproveRead(k, g, u)
  \/ \E k \in Callbacks : ApproveMint(k)
  \/ \E k \in Callbacks, g \in AuthReqs, u \in Users : DenyRead(k, g, u)
  \/ \E k \in Callbacks : CallbackWrite(k)
  \/ \E p \in Polls, g \in AuthReqs, c \in Clients : PollRead(p, g, c)
  \/ \E p \in Polls : PollSlowDown(p)
  \/ \E p \in Polls : PollTouch(p)
  \/ \E p \in Polls : PollRedeem(p)
  \/ \E p \in Polls : FallbackRead(p)
  \/ \E p \in Polls : FallbackWrite(p)
  \/ \E p \in Polls : PollAnswer(p)
  \/ Abort
  \/ ExpireBackchannelRequests

Spec == Init /\ [][Next]_vars

(***************************************************************************)
(* Properties.                                                             *)
(***************************************************************************)
\* The rows, the calls in flight and the delivered tokens have the shapes the code gives them.
TypeOK ==
  /\ storage \in Storages
  /\ now \in Nat
  /\ rows \in [AuthReqs -> Row]
  /\ poll \in [Polls -> Poll]
  /\ callback \in [Callbacks -> Callback]
  /\ lock \in Polls \cup {NoPoll}
  /\ delivered \in [AuthReqs -> Seq(TokenSet)]

\* A request the sweep expired was never decided.
Phase(status) == IF status = "expired" THEN "pending" ELSE status

Grant == INSTANCE ApprovalGrant WITH
  Grants <- AuthReqs,
  phase <- [g \in AuthReqs |-> Phase(rows[g].status)],
  opener <- [g \in AuthReqs |-> rows[g].client],
  decider <- [g \in AuthReqs |-> rows[g].user],
  tokens <- delivered

\* CIBA implements the abstract grant: a request is decided once and its approval delivers one
\* token set, for the client that opened it and the user that approved it, however polls and
\* callbacks interleave.
ImplementsApprovalGrant == Grant!Spec

\* An approval delivers at most one token set (PollBackchannelToken's consumed case and
\* redeemBackchannel's promise that ok is true for exactly one caller).
DeliveredOnce == \A g \in AuthReqs : Len(delivered[g]) <= 1
=============================================================================
