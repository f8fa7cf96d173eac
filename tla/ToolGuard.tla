------------------------------- MODULE ToolGuard -------------------------------
(***************************************************************************)
(* Guarded tool calls and their approvals (policy/toolguard, approvals and *)
(* the tool approval stores): the policy's verdict, the hook that may      *)
(* tighten it, an approval that is spent on one call, and administrators   *)
(* who decide approvals while they expire and are spent.                   *)
(*                                                                         *)
(* The policy and the hook are inputs: every verdict is possible at every  *)
(* call.  A request opened by the guard names no requester, so the rule    *)
(* that a requester does not decide the own request never applies here.    *)
(***************************************************************************)
EXTENDS Integers, Sequences

CONSTANTS Runs,       \* guarded calls in progress at a time
          Admins,     \* deciding handlers in progress at a time
          Contents,   \* agent, action and resource of a call
          TTL,        \* DefaultApprovalTTL in ticks
          MaxOpen     \* bound: approvals opened

VARIABLES hooked,     \* whether BeforeAuthorize is configured
          approvals,  \* the stored requests, by the order of their ids
          guard,      \* guard[r]: a call in progress
          deciding,   \* deciding[a]: a decision in progress
          spent,      \* history: spent[i]: contents of the calls run on approval i
          decided     \* history: decided[i]: decisions answered with success

guardVars == <<hooked, approvals, guard, deciding, spent, decided>>

Requirements == {"none", "approval", "step_up"}
IdleRun == [pc |-> "idle", what |-> "", id |-> 0, need |-> "none"]
IdleAdmin == [pc |-> "idle", id |-> 0, approve |-> FALSE]
Opened(what) == [what |-> what, approved |-> FALSE, denied |-> FALSE, consumed |-> FALSE, left |-> TTL]

TypeOK ==
    /\ hooked \in BOOLEAN /\ Len(approvals) <= MaxOpen
    /\ \A i \in DOMAIN approvals :
         approvals[i] \in [what : Contents, approved : BOOLEAN, denied : BOOLEAN, consumed : BOOLEAN, left : 0..TTL]
    /\ \A r \in Runs : guard[r].pc \in {"idle", "hook", "spend", "open"} /\ guard[r].need \in Requirements
    /\ \A a \in Admins : deciding[a].pc \in {"idle", "write"}
    /\ DOMAIN spent = DOMAIN approvals /\ DOMAIN decided = DOMAIN approvals

Init ==
    /\ hooked \in BOOLEAN /\ approvals = <<>> /\ spent = <<>> /\ decided = <<>>
    /\ guard = [r \in Runs |-> IdleRun] /\ deciding = [a \in Admins |-> IdleAdmin]

-----------------------------------------------------------------------------
(* The store.                                                              *)

(* Mutant of toolApprovalLive: a spent approval stays live.                *)
toolApprovalLiveOnceSpent(a) == ~a.denied /\ a.left > 0

toolApprovalLive(a) == ~a.consumed /\ ~a.denied /\ a.left > 0

Decidable(a) == ~a.approved /\ toolApprovalLive(a)

Consumable(a, what) == a.approved /\ toolApprovalLive(a) /\ a.what = what

statusPending(a) == ~a.denied /\ ~a.consumed /\ ~a.approved /\ a.left > 0

-----------------------------------------------------------------------------
(* Guard.evaluate, Guard.applyHook and Guard.escalate.                     *)

(* An allowed call runs and an escalated one needs its approval spent.     *)
Proceeds(g) == IF g.need = "none" THEN IdleRun
               ELSE [g EXCEPT !.pc = IF g.id /= 0 /\ g.need = "approval" THEN "spend" ELSE "open"]

Evaluate(r, what, id, need) ==
    /\ guard[r].pc = "idle"
    /\ LET g == [pc |-> "hook", what |-> what, id |-> id, need |-> need]
       IN  guard' = [guard EXCEPT ![r] = IF hooked THEN g ELSE Proceeds(g)]
    /\ UNCHANGED <<hooked, approvals, deciding, spent, decided>>

HookAllows(r) ==
    /\ guard[r].pc = "hook"
    /\ guard' = [guard EXCEPT ![r] = Proceeds(@)]
    /\ UNCHANGED <<hooked, approvals, deciding, spent, decided>>

Escalated(g) == [g EXCEPT !.need = IF g.need = "none" THEN "approval" ELSE g.need]

HookEscalates(r) ==
    /\ guard[r].pc = "hook"
    /\ guard' = [guard EXCEPT ![r] = Proceeds(Escalated(guard[r]))]
    /\ UNCHANGED <<hooked, approvals, deciding, spent, decided>>

(* A denial, a timeout and a failure of the hook all refuse the call.      *)
HookDenies(r) ==
    /\ guard[r].pc = "hook"
    /\ guard' = [guard EXCEPT ![r] = IdleRun]
    /\ UNCHANGED <<hooked, approvals, deciding, spent, decided>>

ConsumeToolApproval(r) ==
    /\ guard[r].pc = "spend"
    /\ LET i == guard[r].id
           what == guard[r].what
       IN  IF Consumable(approvals[i], what)
           THEN /\ approvals' = [approvals EXCEPT ![i].consumed = TRUE]
                /\ spent' = [spent EXCEPT ![i] = Append(@, what)]
                /\ guard' = [guard EXCEPT ![r] = IdleRun]
           ELSE /\ guard' = [guard EXCEPT ![r].pc = "open"]
                /\ UNCHANGED <<approvals, spent>>
    /\ UNCHANGED <<hooked, deciding, decided>>

OpenToolApproval(r) ==
    /\ guard[r].pc = "open" /\ Len(approvals) < MaxOpen
    /\ approvals' = Append(approvals, Opened(guard[r].what))
    /\ spent' = Append(spent, <<>>) /\ decided' = Append(decided, 0)
    /\ guard' = [guard EXCEPT ![r] = IdleRun]
    /\ UNCHANGED <<hooked, deciding>>

(* The request cannot be stored, and the call is refused without an id.    *)
OpenFails(r) ==
    /\ guard[r].pc = "open"
    /\ guard' = [guard EXCEPT ![r] = IdleRun]
    /\ UNCHANGED <<hooked, approvals, deciding, spent, decided>>

-----------------------------------------------------------------------------
(* approvals.go: decide reads the request and then writes the decision.    *)
DecideRead(a, i, approve) ==
    /\ deciding[a].pc = "idle" /\ statusPending(approvals[i])
    /\ deciding' = [deciding EXCEPT ![a] = [pc |-> "write", id |-> i, approve |-> approve]]
    /\ UNCHANGED <<hooked, approvals, guard, spent, decided>>

DecideWrite(a) ==
    /\ deciding[a].pc = "write"
    /\ LET i == deciding[a].id
       IN  IF Decidable(approvals[i])
           THEN /\ approvals' = [approvals EXCEPT ![i].approved = deciding[a].approve,
                                                  ![i].denied = ~deciding[a].approve]
                /\ decided' = [decided EXCEPT ![i] = @ + 1]
           ELSE UNCHANGED <<approvals, decided>>
    /\ deciding' = [deciding EXCEPT ![a] = IdleAdmin]
    /\ UNCHANGED <<hooked, guard, spent>>

(* StorageApprovals.Approve writes without reading first.                  *)
Approve(i) ==
    /\ Decidable(approvals[i])
    /\ approvals' = [approvals EXCEPT ![i].approved = TRUE]
    /\ decided' = [decided EXCEPT ![i] = @ + 1]
    /\ UNCHANGED <<hooked, guard, deciding, spent>>

Tick ==
    /\ \E i \in DOMAIN approvals : approvals[i].left > 0
    /\ approvals' = [i \in DOMAIN approvals |-> [approvals[i] EXCEPT !.left = IF @ > 0 THEN @ - 1 ELSE 0]]
    /\ UNCHANGED <<hooked, guard, deciding, spent, decided>>

Next ==
    \/ \E r \in Runs :
         \/ \E what \in Contents, id \in {0} \cup DOMAIN approvals, need \in Requirements : Evaluate(r, what, id, need)
         \/ HookAllows(r) \/ HookEscalates(r) \/ HookDenies(r)
         \/ ConsumeToolApproval(r) \/ OpenToolApproval(r) \/ OpenFails(r)
    \/ \E a \in Admins :
         \/ \E i \in DOMAIN approvals, approve \in BOOLEAN : DecideRead(a, i, approve)
         \/ DecideWrite(a)
    \/ \E i \in DOMAIN approvals : Approve(i)
    \/ Tick

Spec == Init /\ [][Next]_guardVars

-----------------------------------------------------------------------------
(* An approval lets exactly one call run, the one it was opened for, and   *)
(* only after an administrator approved it: it is used up exactly when     *)
(* that call ran, and a denied or undecided request runs nothing.          *)
ApprovalRunsOnce ==
    \A i \in DOMAIN approvals :
        IF approvals[i].consumed
        THEN spent[i] = <<approvals[i].what>> /\ approvals[i].approved /\ ~approvals[i].denied
        ELSE spent[i] = <<>>

(* However many administrators decide a request at the same time, one of   *)
(* them is told that the decision was recorded, and it is the decision the *)
(* request keeps.                                                          *)
OneDecision ==
    \A i \in DOMAIN approvals :
        decided[i] = IF approvals[i].approved \/ approvals[i].denied THEN 1 ELSE 0

(* Together: an approval is decided once and runs one call, the one        *)
(* approved.                                                               *)
ApprovalSpentOnce == TypeOK /\ ApprovalRunsOnce /\ OneDecision
=============================================================================
