---------------------------- MODULE DeviceGrant ----------------------------
(***************************************************************************)
(* The RFC 8628 device grant (internal/as/device.go) over its storage      *)
(* (storage/memory/memory_device.go).  Every storage call is one step; a   *)
(* poll holds the row it read across its later calls, and so does a        *)
(* decision.  The verification page's rate limiter and every failing call  *)
(* show as a request that stops (Abort).                                   *)
(***************************************************************************)
EXTENDS Integers, Sequences, FiniteSets

CONSTANTS Devices,      \* device authorization ids (ULIDs, never reused)
          UserCodes,    \* what the user can type
          Clients,
          Users,
          Polls,        \* concurrent PollDeviceToken calls
          Decisions,    \* concurrent DecideDeviceUserCode calls
          NoDevice, NoCode, NoClient, NoUser,
          ExpiresIn,    \* DeviceConfig.ExpiresIn
          Interval,     \* DeviceConfig.Interval
          SlowDownStep, \* deviceSlowDownStep
          CleanupAge,   \* how long an expired row survives the next insert (one hour)
          MaxTime,      \* bound: the clock
          MaxInterval   \* bound: a poll that would raise the interval above it is not explored

ASSUME DeviceTimesAssumption ==
  /\ ExpiresIn \in Nat \ {0}
  /\ Interval \in Nat
  /\ SlowDownStep \in Nat
  /\ CleanupAge \in Nat
  /\ MaxTime \in Nat
  /\ MaxInterval \in Nat

ASSUME DeviceSentinelsAssumption ==
  /\ NoDevice \notin Devices
  /\ NoCode \notin UserCodes
  /\ NoClient \notin Clients
  /\ NoUser \notin Users

VARIABLES now,
          rows,    \* rows[d]: the stored DeviceAuthorization
          poll,    \* poll[p]: where a poll is, and what it read
          decide,  \* decide[q]: where a decision is
          minted   \* minted[d]: the token sets minted for d, in order

vars == <<now, rows, poll, decide, minted>>

Never == -1   \* a nil LastPollAt

Verdicts == {"approved", "denied"}
Statuses == {"none", "pending", "approved", "denied", "consumed"}

\* present is FALSE before the insert and after a deletion; the other fields of a deleted row
\* are kept as history and no action reads them.
Row ==
  [present : BOOLEAN, status : Statuses, code : UserCodes \cup {NoCode},
   client : Clients \cup {NoClient}, user : Users \cup {NoUser},
   interval : Nat, last : Nat \cup {Never}, expires : Nat]

Poll ==
  [pc : {"idle", "record", "consume", "mint"}, dev : Devices \cup {NoDevice},
   status : Statuses, user : Users \cup {NoUser}, client : Clients \cup {NoClient},
   at : Nat, interval : Nat, fast : BOOLEAN]

Decision ==
  [pc : {"idle", "apply"}, dev : Devices \cup {NoDevice}, user : Users \cup {NoUser},
   verdict : Verdicts]

TokenSet == [client : Clients \cup {NoClient}, user : Users \cup {NoUser}]

NoRow ==
  [present |-> FALSE, status |-> "none", code |-> NoCode, client |-> NoClient,
   user |-> NoUser, interval |-> 0, last |-> Never, expires |-> 0]

IdlePoll ==
  [pc |-> "idle", dev |-> NoDevice, status |-> "none", user |-> NoUser,
   client |-> NoClient, at |-> 0, interval |-> 0, fast |-> FALSE]

IdleDecision ==
  [pc |-> "idle", dev |-> NoDevice, user |-> NoUser, verdict |-> "denied"]

(***************************************************************************)
(* Storage operations.                                                     *)
(***************************************************************************)
Live(d) == rows[d].present /\ now < rows[d].expires

\* The rows an insert or a sweep leaves: those that expired before the given time are gone.
Swept(dead) == [d \in Devices |-> [rows[d] EXCEPT !.present = @ /\ d \notin dead]]

\* Mutant: the insert does not look for a holder of the code.
UserCodeNeverTaken(code) == TRUE

\* InsertDeviceAuthorization refuses a user code that a live row holds; the caller then draws
\* another one.
UserCodeFree(code) == \A d \in Devices : Live(d) => rows[d].code # code

\* DeviceAuthorizationByUserCodeHash: of the rows that share the code, one that expires last.
HoldsCode(d, code) ==
  /\ rows[d].present
  /\ rows[d].code = code
  /\ \A e \in Devices : rows[e].present /\ rows[e].code = code => rows[e].expires <= rows[d].expires

\* DecideDeviceAuthorization: compare and set from pending.
Decidable(d) == Live(d) /\ rows[d].status = "pending"

\* Mutant: consume does not compare the status.
ConsumableAnyStatus(d, at) == rows[d].present /\ at < rows[d].expires

\* ConsumeDeviceAuthorization: compare and set from approved, at the time the poll began.
Consumable(d, at) == rows[d].present /\ rows[d].status = "approved" /\ at < rows[d].expires

(***************************************************************************)
(* The service.                                                            *)
(***************************************************************************)
Init ==
  /\ now = 0
  /\ rows = [d \in Devices |-> NoRow]
  /\ poll = [p \in Polls |-> IdlePoll]
  /\ decide = [q \in Decisions |-> IdleDecision]
  /\ minted = [d \in Devices |-> <<>>]

Tick ==
  /\ now < MaxTime
  /\ now' = now + 1
  /\ UNCHANGED <<rows, poll, decide, minted>>

StartDeviceAuthorization(d, client, code) ==
  /\ rows[d].status = "none"
  /\ UserCodeFree(code)
  /\ rows' = [Swept({e \in Devices : now > rows[e].expires + CleanupAge}) EXCEPT ![d] =
                [present |-> TRUE, status |-> "pending", code |-> code, client |-> client,
                 user |-> NoUser, interval |-> Interval, last |-> Never,
                 expires |-> now + ExpiresIn]]
  /\ UNCHANGED <<now, poll, decide, minted>>

\* DecideDeviceUserCode up to and including lookupPending.
DecideLookup(q, user, code, verdict) ==
  /\ decide[q].pc = "idle"
  /\ \E d \in Devices :
       /\ HoldsCode(d, code)
       /\ rows[d].status = "pending"
       /\ now < rows[d].expires
       /\ decide' = [decide EXCEPT ![q] =
                       [pc |-> "apply", dev |-> d, user |-> user, verdict |-> verdict]]
  /\ UNCHANGED <<now, rows, poll, minted>>

\* The conditional update and the answer to the user.
DecideApply(q) ==
  LET d == decide[q].dev IN
  /\ decide[q].pc = "apply"
  /\ rows' = IF Decidable(d)
             THEN [rows EXCEPT ![d].status = decide[q].verdict, ![d].user = decide[q].user]
             ELSE rows
  /\ decide' = [decide EXCEPT ![q] = IdleDecision]
  /\ UNCHANGED <<now, poll, minted>>

\* PollDeviceToken up to the first write: the row, the client and the expiry checks, and the
\* interval the poll will record.
PollRead(p, d, client) ==
  LET fast == rows[d].last # Never /\ now - rows[d].last < rows[d].interval
      interval == IF fast THEN rows[d].interval + SlowDownStep ELSE rows[d].interval
  IN
  /\ poll[p].pc = "idle"
  /\ rows[d].present
  /\ rows[d].client = client
  /\ now < rows[d].expires
  /\ interval <= MaxInterval
  /\ poll' = [poll EXCEPT ![p] =
                [pc |-> "record", dev |-> d, status |-> rows[d].status, user |-> rows[d].user,
                 client |-> client, at |-> now, interval |-> interval, fast |-> fast]]
  /\ UNCHANGED <<now, rows, decide, minted>>

\* RecordDeviceAuthorizationPoll, then the answers that need no further write: slow_down,
\* authorization_pending, access_denied and invalid_grant end the poll.
PollRecord(p) ==
  LET d == poll[p].dev IN
  /\ poll[p].pc = "record"
  /\ rows[d].present
  /\ rows' = [rows EXCEPT ![d].last = poll[p].at, ![d].interval = poll[p].interval]
  /\ poll' = [poll EXCEPT ![p] =
                IF ~poll[p].fast /\ poll[p].status = "approved" /\ poll[p].user # NoUser
                THEN [poll[p] EXCEPT !.pc = "consume"]
                ELSE IdlePoll]
  /\ UNCHANGED <<now, decide, minted>>

PollConsume(p) ==
  LET d == poll[p].dev IN
  /\ poll[p].pc = "consume"
  /\ \/ /\ Consumable(d, poll[p].at)
        /\ rows' = [rows EXCEPT ![d].status = "consumed"]
        /\ poll' = [poll EXCEPT ![p].pc = "mint"]
     \/ /\ ~Consumable(d, poll[p].at)
        /\ poll' = [poll EXCEPT ![p] = IdlePoll]
        /\ UNCHANGED rows
  /\ UNCHANGED <<now, decide, minted>>

\* mintAccessAndRefresh with the user the poll read before it consumed the row.
PollMint(p) ==
  LET d == poll[p].dev IN
  /\ poll[p].pc = "mint"
  /\ minted' = [minted EXCEPT ![d] = Append(@, [client |-> poll[p].client, user |-> poll[p].user])]
  /\ poll' = [poll EXCEPT ![p] = IdlePoll]
  /\ UNCHANGED <<now, rows, decide>>

\* A call that fails, or a process that stops: the remaining steps of a request never run.
Abort ==
  /\ \/ \E p \in Polls : /\ poll[p].pc # "idle"
                         /\ poll' = [poll EXCEPT ![p] = IdlePoll]
                         /\ UNCHANGED decide
     \/ \E q \in Decisions : /\ decide[q].pc # "idle"
                             /\ decide' = [decide EXCEPT ![q] = IdleDecision]
                             /\ UNCHANGED poll
  /\ UNCHANGED <<now, rows, minted>>

DeleteExpired(before) ==
  /\ rows' = Swept({d \in Devices : rows[d].expires < before})
  /\ UNCHANGED <<now, poll, decide, minted>>

Next ==
  \/ Tick
  \/ \E d \in Devices, c \in Clients, code \in UserCodes : StartDeviceAuthorization(d, c, code)
  \/ \E q \in Decisions, u \in Users, code \in UserCodes, v \in Verdicts :
       DecideLookup(q, u, code, v)
  \/ \E q \in Decisions : DecideApply(q)
  \/ \E p \in Polls, d \in Devices, c \in Clients : PollRead(p, d, c)
  \/ \E p \in Polls : PollRecord(p)
  \/ \E p \in Polls : PollConsume(p)
  \/ \E p \in Polls : PollMint(p)
  \/ Abort
  \/ \E before \in 0..now : DeleteExpired(before)

Spec == Init /\ [][Next]_vars

(***************************************************************************)
(* Properties.                                                             *)
(***************************************************************************)
\* The rows, the requests in flight and the minted token sets have the shapes the code gives them.
TypeOK ==
  /\ now \in Nat
  /\ rows \in [Devices -> Row]
  /\ poll \in [Polls -> Poll]
  /\ decide \in [Decisions -> Decision]
  /\ minted \in [Devices -> Seq(TokenSet)]

\* The user code a user types names at most one request they could be deciding: two requests that
\* can still be decided never hold the same code, whatever expires and is swept in between
\* (InsertDeviceAuthorization's scan, DeviceAuthorizationByUserCodeHash's choice of row).
LiveCodesDistinct ==
  \A d, e \in Devices : Live(d) /\ Live(e) /\ d # e => rows[d].code # rows[e].code

\* Every poll that goes on to the conditional update does so for the user recorded in the row now:
\* the approval it read before its two writes is still the approval it spends.
SpendsWhatItRead ==
  \A p \in Polls :
    poll[p].pc \in {"consume", "mint"} =>
      LET r == rows[poll[p].dev] IN
        /\ r.status \in {"approved", "consumed"}
        /\ r.user = poll[p].user
        /\ r.client = poll[p].client

\* The device grant implements the abstract grant: one decision per request, one token set per
\* approval, for the client that opened the request and the user that approved it, under every
\* interleaving of polls, decisions, sweeps and failures.
Grant == INSTANCE ApprovalGrant WITH
  Grants <- Devices,
  phase <- [d \in Devices |-> rows[d].status],
  opener <- [d \in Devices |-> rows[d].client],
  decider <- [d \in Devices |-> rows[d].user],
  tokens <- minted

ImplementsApprovalGrant == Grant!Spec
=============================================================================
