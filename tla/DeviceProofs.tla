---------------------------- MODULE DeviceProofs ----------------------------
(***************************************************************************)
(* Proofs about the two device flows: the device grant of the              *)
(* authorization server, and the device codes by which a user gives a      *)
(* device a personal access token. The constants of the second get their   *)
(* assumptions as hypotheses of its theorem.                               *)
(***************************************************************************)
EXTENDS DeviceGrant, FiniteCounts, TLAPS

-----------------------------------------------------------------------------
(* The device grant (DeviceGrant) implements the abstract grant, for every *)
(* instance: an inductive invariant ties what a poll holds to the row it   *)
(* read, and every step then maps to a step of ApprovalGrant or to a       *)
(* stutter.                                                                *)

\* What a poll in flight knows: its row is still the one it read, an approval it read stands, and
\* the one that won the conditional update is alone with a row that minted nothing yet.
PollKnows(p) ==
  LET d == poll[p].dev IN
  /\ poll[p].pc # "idle" =>
       d \in Devices /\ rows[d].status # "none" /\ rows[d].client = poll[p].client
  /\ poll[p].pc # "idle" /\ poll[p].status = "approved" =>
       rows[d].status \in {"approved", "consumed"} /\ rows[d].user = poll[p].user
  /\ poll[p].pc \in {"consume", "mint"} => poll[p].status = "approved"
  /\ poll[p].pc = "mint" => rows[d].status = "consumed" /\ minted[d] = <<>>

DecisionKnows(q) ==
  decide[q].pc # "idle" => decide[q].dev \in Devices /\ decide[q].user \in Users

OneWinner ==
  \A p, q \in Polls :
    poll[p].pc = "mint" /\ poll[q].pc = "mint" /\ poll[p].dev = poll[q].dev => p = q

RowsKnow ==
  \A d \in Devices :
    /\ rows[d].present => rows[d].status # "none"
    /\ rows[d].status \in {"none", "pending"} => rows[d].user = NoUser
    /\ minted[d] # <<>> => rows[d].status = "consumed"

GrantInv ==
  /\ TypeOK
  /\ \A p \in Polls : PollKnows(p)
  /\ \A q \in Decisions : DecisionKnows(q)
  /\ OneWinner
  /\ RowsKnow

\* A sweep changes nothing but presence, and never makes a row present.
LEMMA SweptEffect ==
  ASSUME TypeOK, NEW dead, NEW d \in Devices
  PROVE  /\ Swept(dead) \in [Devices -> Row]
         /\ Swept(dead)[d].status = rows[d].status
         /\ Swept(dead)[d].user = rows[d].user
         /\ Swept(dead)[d].client = rows[d].client
         /\ Swept(dead)[d].code = rows[d].code
         /\ Swept(dead)[d].expires = rows[d].expires
         /\ Swept(dead)[d].present => rows[d].present
<1>1. ASSUME NEW e \in Devices
      PROVE  [rows[e] EXCEPT !.present = @ /\ e \notin dead] \in Row
  BY ZenonT(60) DEF TypeOK, Row
<1>2. Swept(dead) \in [Devices -> Row]
  BY <1>1, Zenon DEF Swept
<1>3. Swept(dead)[d] = [rows[d] EXCEPT !.present = @ /\ d \notin dead]
  BY Zenon DEF Swept
<1>4. rows[d] \in Row
  BY Zenon DEF TypeOK
<1> QED BY <1>2, <1>3, <1>4, Zenon DEF Row

\* The effect of each action that writes rows, field by field.
LEMMA StartEffect ==
  ASSUME TypeOK, NEW d \in Devices, NEW c \in Clients, NEW code \in UserCodes,
         StartDeviceAuthorization(d, c, code)
  PROVE  /\ rows' \in [Devices -> Row]
         /\ rows[d].status = "none"
         /\ rows'[d].status = "pending"
         /\ rows'[d].client = c
         /\ rows'[d].user = NoUser
         /\ rows'[d].code = code
         /\ \A e \in Devices \ {d} :
              /\ rows'[e].status = rows[e].status
              /\ rows'[e].user = rows[e].user
              /\ rows'[e].client = rows[e].client
              /\ rows'[e].code = rows[e].code
              /\ rows'[e].expires = rows[e].expires
              /\ rows'[e].present => rows[e].present
<1> DEFINE dead == {e \in Devices : now > rows[e].expires + CleanupAge}
           new == [present |-> TRUE, status |-> "pending", code |-> code, client |-> c,
                   user |-> NoUser, interval |-> Interval, last |-> Never,
                   expires |-> now + ExpiresIn]
<1>1. new \in Row
  BY DeviceTimesAssumption DEF TypeOK, Row, Statuses
<1>2. rows' = [Swept(dead) EXCEPT ![d] = new]
  BY Zenon DEF StartDeviceAuthorization
<1>3. \A e \in Devices :
        /\ Swept(dead) \in [Devices -> Row]
        /\ Swept(dead)[e].status = rows[e].status
        /\ Swept(dead)[e].user = rows[e].user
        /\ Swept(dead)[e].client = rows[e].client
        /\ Swept(dead)[e].code = rows[e].code
        /\ Swept(dead)[e].expires = rows[e].expires
        /\ Swept(dead)[e].present => rows[e].present
  <2> HIDE DEF dead
  <2> QED BY SweptEffect, Zenon
<1>4. rows[d].status = "none"
  BY Zenon DEF StartDeviceAuthorization
<1>5. rows' \in [Devices -> Row] /\ rows'[d] = new
  <2> HIDE DEF dead, new
  <2> QED BY <1>1, <1>2, <1>3, Zenon
<1>6. \A e \in Devices \ {d} : rows'[e] = Swept(dead)[e]
  <2> HIDE DEF dead, new
  <2> QED BY <1>2, <1>3, Zenon
<1>7. new.status = "pending" /\ new.client = c /\ new.user = NoUser /\ new.code = code
  BY Zenon
<1> HIDE DEF dead, new
<1> QED BY <1>3, <1>4, <1>5, <1>6, <1>7

\* Applying a decision settles a pending row, or leaves every row alone.
LEMMA ApplyEffect ==
  ASSUME TypeOK, NEW q \in Decisions, DecideApply(q), decide[q].dev \in Devices
  PROVE  LET d == decide[q].dev IN
         /\ rows' \in [Devices -> Row]
         /\ \A e \in Devices :
              /\ rows'[e].client = rows[e].client
              /\ rows'[e].code = rows[e].code
              /\ rows'[e].expires = rows[e].expires
              /\ rows'[e].present = rows[e].present
              /\ e # d => rows'[e] = rows[e]
         /\ \/ rows' = rows
            \/ /\ rows[d].status = "pending"
               /\ rows'[d].status = decide[q].verdict
               /\ rows'[d].user = decide[q].user
<1> DEFINE d == decide[q].dev
<1>1. decide[q] \in Decision
  BY Zenon DEF TypeOK
<1>2. decide[q].verdict \in Statuses /\ decide[q].user \in Users \cup {NoUser}
  BY <1>1, Zenon DEF Decision, Verdicts, Statuses
<1>3. CASE ~Decidable(d)
  BY <1>3, Zenon DEF DecideApply, TypeOK
<1>4. CASE Decidable(d)
  <2>1. rows' = [rows EXCEPT ![d].status = decide[q].verdict, ![d].user = decide[q].user]
    BY <1>4, Zenon DEF DecideApply
  <2>2. rows[d] \in Row /\ rows \in [Devices -> Row]
    BY Zenon DEF TypeOK
  <2>3. rows'[d] = [[rows[d] EXCEPT !.status = decide[q].verdict] EXCEPT !.user = decide[q].user]
    BY <2>1, <2>2, Zenon
  <2>4. rows'[d] \in Row
    BY <2>2, <2>3, <1>2, Zenon DEF Row
  <2>5. rows' \in [Devices -> Row] /\ \A e \in Devices : e # d => rows'[e] = rows[e]
    BY <2>1, <2>2, <2>4, Zenon
  <2>6. /\ rows'[d].client = rows[d].client
        /\ rows'[d].code = rows[d].code
        /\ rows'[d].expires = rows[d].expires
        /\ rows'[d].present = rows[d].present
        /\ rows'[d].status = decide[q].verdict
        /\ rows'[d].user = decide[q].user
    BY <2>2, <2>3, Zenon DEF Row
  <2>7. rows[d].status = "pending"
    BY <1>4, Zenon DEF Decidable
  <2> QED BY <2>5, <2>6, <2>7, Zenon
<1> QED BY <1>3, <1>4, Zenon

LEMMA RecordEffect ==
  ASSUME TypeOK, NEW p \in Polls, PollRecord(p), poll[p].dev \in Devices
  PROVE  /\ rows' \in [Devices -> Row]
         /\ \A e \in Devices :
              /\ rows'[e].status = rows[e].status
              /\ rows'[e].user = rows[e].user
              /\ rows'[e].client = rows[e].client
              /\ rows'[e].code = rows[e].code
              /\ rows'[e].expires = rows[e].expires
              /\ rows'[e].present = rows[e].present
<1> DEFINE d == poll[p].dev
<1>1. poll[p].at \in Nat /\ poll[p].interval \in Nat
  BY Zenon DEF TypeOK, Poll
<1>2. rows[d] \in Row /\ rows \in [Devices -> Row]
  BY Zenon DEF TypeOK
<1>3. rows' = [rows EXCEPT ![d].last = poll[p].at, ![d].interval = poll[p].interval]
  BY Zenon DEF PollRecord
<1>4. rows'[d] = [[rows[d] EXCEPT !.last = poll[p].at] EXCEPT !.interval = poll[p].interval]
  BY <1>2, <1>3, Zenon
<1>5. rows'[d] \in Row
  BY <1>1, <1>2, <1>4, Zenon DEF Row
<1>6. rows' \in [Devices -> Row] /\ \A e \in Devices : e # d => rows'[e] = rows[e]
  BY <1>2, <1>3, <1>5, Zenon
<1>7. /\ rows'[d].status = rows[d].status
      /\ rows'[d].user = rows[d].user
      /\ rows'[d].client = rows[d].client
      /\ rows'[d].code = rows[d].code
      /\ rows'[d].expires = rows[d].expires
      /\ rows'[d].present = rows[d].present
  BY <1>2, <1>4, Zenon DEF Row
<1> QED BY <1>6, <1>7, Zenon

\* The conditional update spends an approval, and only the poll that spends it goes on to mint.
LEMMA ConsumeEffect ==
  ASSUME TypeOK, NEW p \in Polls, PollConsume(p), poll[p].dev \in Devices
  PROVE  LET d == poll[p].dev IN
         /\ rows' \in [Devices -> Row]
         /\ \A e \in Devices :
              /\ rows'[e].user = rows[e].user
              /\ rows'[e].client = rows[e].client
              /\ rows'[e].code = rows[e].code
              /\ rows'[e].expires = rows[e].expires
              /\ rows'[e].present = rows[e].present
              /\ e # d => rows'[e] = rows[e]
         /\ \/ rows' = rows /\ poll' = [poll EXCEPT ![p] = IdlePoll]
            \/ /\ rows[d].status = "approved"
               /\ rows'[d].status = "consumed"
               /\ poll' = [poll EXCEPT ![p].pc = "mint"]
<1> DEFINE d == poll[p].dev
<1>1. rows[d] \in Row /\ rows \in [Devices -> Row]
  BY Zenon DEF TypeOK
<1>2. CASE ~Consumable(d, poll[p].at)
  BY <1>1, <1>2, Zenon DEF PollConsume
<1>3. CASE Consumable(d, poll[p].at)
  <2>1. rows' = [rows EXCEPT ![d].status = "consumed"] /\ poll' = [poll EXCEPT ![p].pc = "mint"]
    BY <1>3, Zenon DEF PollConsume
  <2>2. rows'[d] = [rows[d] EXCEPT !.status = "consumed"]
    BY <1>1, <2>1, Zenon
  <2>3. rows'[d] \in Row
    BY <1>1, <2>2, Zenon DEF Row, Statuses
  <2>4. rows' \in [Devices -> Row] /\ \A e \in Devices : e # d => rows'[e] = rows[e]
    BY <1>1, <2>1, <2>3, Zenon
  <2>5. /\ rows'[d].user = rows[d].user
        /\ rows'[d].client = rows[d].client
        /\ rows'[d].code = rows[d].code
        /\ rows'[d].expires = rows[d].expires
        /\ rows'[d].present = rows[d].present
        /\ rows'[d].status = "consumed"
    BY <1>1, <2>2, Zenon DEF Row
  <2>6. rows[d].status = "approved"
    BY <1>3, Zenon DEF Consumable
  <2> QED BY <2>1, <2>4, <2>5, <2>6, Zenon
<1> QED BY <1>2, <1>3, Zenon

\* What a poll that read its row holds.

\* GrantInv is inductive: what a poll or a decision knows of its row survives every step of the
\* others, and two polls never both win the conditional update.
LEMMA GrantInvariant == Spec => []GrantInv
(* Types.                                                                  *)
<1>NoRowType. NoRow \in Row
  BY Zenon DEF NoRow, Row, Statuses, Never
<1>IdlePollType. IdlePoll \in Poll /\ IdlePoll.pc = "idle"
  BY Zenon DEF IdlePoll, Poll, Statuses
<1>IdleDecisionType. IdleDecision \in Decision /\ IdleDecision.pc = "idle"
  BY Zenon DEF IdleDecision, Decision, Verdicts
<1>ReadEffect. ASSUME TypeOK, NEW p \in Polls, NEW d \in Devices, NEW c \in Clients, PollRead(p, d, c)
             PROVE  /\ poll' \in [Polls -> Poll]
                    /\ \A r \in Polls : r # p => poll'[r] = poll[r]
                    /\ poll'[p].pc = "record"
                    /\ poll'[p].dev = d
                    /\ poll'[p].status = rows[d].status
                    /\ poll'[p].user = rows[d].user
                    /\ poll'[p].client = rows[d].client
  <2> USE <1>ReadEffect
  <2> DEFINE fast == rows[d].last # Never /\ now - rows[d].last < rows[d].interval
             interval == IF fast THEN rows[d].interval + SlowDownStep ELSE rows[d].interval
             held == [pc |-> "record", dev |-> d, status |-> rows[d].status, user |-> rows[d].user,
                      client |-> c, at |-> now, interval |-> interval, fast |-> fast]
  <2>1. rows[d] \in Row /\ now \in Nat /\ poll \in [Polls -> Poll]
    BY Zenon DEF TypeOK
  <2>2. interval \in Nat /\ fast \in BOOLEAN
    BY <2>1, DeviceTimesAssumption DEF Row
  <2>3. poll' = [poll EXCEPT ![p] = held] /\ rows[d].client = c
    BY Zenon DEF PollRead
  <2>4. /\ rows[d].status \in Statuses
        /\ rows[d].user \in Users \cup {NoUser}
    BY <2>1, Zenon DEF Row
  <2>5. held \in Poll
    <3> HIDE DEF fast, interval
    <3> QED BY <2>1, <2>2, <2>4, Zenon DEF Poll
  <2>6. /\ held.pc = "record" /\ held.dev = d /\ held.status = rows[d].status
        /\ held.user = rows[d].user /\ held.client = c
    BY Zenon
  <2> HIDE DEF held
  <2> QED BY <2>1, <2>3, <2>5, <2>6, Zenon
<1>PollEnds. ASSUME TypeOK, NEW p \in Polls, poll' = [poll EXCEPT ![p] = IdlePoll]
           PROVE  /\ poll' \in [Polls -> Poll]
                  /\ poll'[p].pc = "idle"
                  /\ \A r \in Polls : r # p => poll'[r] = poll[r]
  BY <1>PollEnds, <1>IdlePollType, Zenon DEF TypeOK
<1>PollMoves. ASSUME TypeOK, NEW p \in Polls, NEW pc \in {"consume", "mint"},
                   poll' = [poll EXCEPT ![p] = [poll[p] EXCEPT !.pc = pc]]
            PROVE  /\ poll' \in [Polls -> Poll]
                   /\ \A r \in Polls : r # p => poll'[r] = poll[r]
                   /\ poll'[p].pc = pc
                   /\ poll'[p].dev = poll[p].dev
                   /\ poll'[p].status = poll[p].status
                   /\ poll'[p].user = poll[p].user
                   /\ poll'[p].client = poll[p].client
  <2> USE <1>PollMoves
  <2>1. poll[p] \in Poll /\ poll \in [Polls -> Poll]
    BY Zenon DEF TypeOK
  <2>2. poll'[p] = [poll[p] EXCEPT !.pc = pc]
    BY <2>1, Zenon
  <2>3. poll'[p] \in Poll
    BY <2>1, <2>2, Zenon DEF Poll
  <2>4. /\ poll'[p].pc = pc
        /\ poll'[p].dev = poll[p].dev
        /\ poll'[p].status = poll[p].status
        /\ poll'[p].user = poll[p].user
        /\ poll'[p].client = poll[p].client
    BY <2>1, <2>2, Zenon DEF Poll
  <2> QED BY <2>1, <2>3, <2>4, Zenon
(* The inductive invariant.                                                *)
<1>GrantInit. Init => GrantInv
  <2> SUFFICES ASSUME Init PROVE GrantInv
    BY Zenon
  <2>1. TypeOK
    BY <1>NoRowType, <1>IdlePollType, <1>IdleDecisionType DEF Init, TypeOK
  <2>2. \A p \in Polls : poll[p].pc = "idle"
    BY <1>IdlePollType, Zenon DEF Init
  <2>3. \A q \in Decisions : decide[q].pc = "idle"
    BY <1>IdleDecisionType, Zenon DEF Init
  <2>4. \A d \in Devices : ~rows[d].present /\ rows[d].user = NoUser /\ minted[d] = <<>>
    BY Zenon DEF Init, NoRow
  <2> QED BY <2>1, <2>2, <2>3, <2>4, Zenon DEF GrantInv, PollKnows, DecisionKnows, OneWinner, RowsKnow
<1>GrantStep. GrantInv /\ [Next]_vars => GrantInv'
  <2> SUFFICES ASSUME GrantInv, [Next]_vars PROVE GrantInv'
    BY Zenon
  <2>0. /\ TypeOK
        /\ now \in Nat
        /\ rows \in [Devices -> Row]
        /\ poll \in [Polls -> Poll]
        /\ decide \in [Decisions -> Decision]
        /\ minted \in [Devices -> Seq(TokenSet)]
    BY Zenon DEF GrantInv, TypeOK
  <2> USE DEF GrantInv
  <2>1. CASE Tick
    <3>1. now' \in Nat /\ UNCHANGED <<rows, poll, decide, minted>>
      BY <2>0, <2>1 DEF Tick
    <3>2. TypeOK'
      BY <2>0, <3>1, Zenon DEF TypeOK
    <3> QED BY <3>1, <3>2, Zenon DEF PollKnows, DecisionKnows, OneWinner, RowsKnow
  <2>2. ASSUME NEW d \in Devices, NEW c \in Clients, NEW code \in UserCodes,
               StartDeviceAuthorization(d, c, code)
        PROVE  GrantInv'
    <3>1. UNCHANGED <<now, poll, decide, minted>>
      BY <2>2, Zenon DEF StartDeviceAuthorization
    <3>2. /\ rows' \in [Devices -> Row]
          /\ rows[d].status = "none"
          /\ rows'[d].status = "pending"
          /\ rows'[d].user = NoUser
          /\ \A e \in Devices \ {d} :
               /\ rows'[e].status = rows[e].status
               /\ rows'[e].user = rows[e].user
               /\ rows'[e].client = rows[e].client
               /\ rows'[e].present => rows[e].present
      BY <2>0, <2>2, StartEffect
    <3>3. TypeOK'
      BY <2>0, <3>1, <3>2, Zenon DEF TypeOK
    <3>4. ASSUME NEW p \in Polls PROVE PollKnows(p)'
      BY <3>1, <3>2 DEF PollKnows
    <3>5. RowsKnow'
      BY <3>1, <3>2, Zenon DEF RowsKnow
    <3> QED BY <3>1, <3>3, <3>4, <3>5, Zenon DEF DecisionKnows, OneWinner
  <2>3. ASSUME NEW q \in Decisions, NEW u \in Users, NEW code \in UserCodes, NEW v \in Verdicts,
               DecideLookup(q, u, code, v)
        PROVE  GrantInv'
    <3>1. UNCHANGED <<now, rows, poll, minted>>
      BY <2>3, Zenon DEF DecideLookup
    <3>2. PICK d \in Devices :
            decide' = [decide EXCEPT ![q] = [pc |-> "apply", dev |-> d, user |-> u, verdict |-> v]]
      BY <2>3, Zenon DEF DecideLookup
    <3>3. [pc |-> "apply", dev |-> d, user |-> u, verdict |-> v] \in Decision
      BY Zenon DEF Decision
    <3>4. decide' \in [Decisions -> Decision]
      BY <2>0, <3>2, <3>3, Zenon
    <3>5. TypeOK'
      BY <2>0, <3>1, <3>4, Zenon DEF TypeOK
    <3>6. ASSUME NEW s \in Decisions PROVE DecisionKnows(s)'
      BY <2>0, <3>2, Zenon DEF DecisionKnows
    <3> QED BY <3>1, <3>5, <3>6, Zenon DEF PollKnows, OneWinner, RowsKnow
  <2>4. ASSUME NEW q \in Decisions, DecideApply(q)
        PROVE  GrantInv'
    <3>1. UNCHANGED <<now, poll, minted>> /\ decide[q].pc = "apply"
          /\ decide' = [decide EXCEPT ![q] = IdleDecision]
      BY <2>4, Zenon DEF DecideApply
    <3>2. decide[q].dev \in Devices
      BY <3>1, Zenon DEF DecisionKnows
    <3>3. /\ rows' \in [Devices -> Row]
          /\ \A e \in Devices :
               /\ rows'[e].client = rows[e].client
               /\ rows'[e].present = rows[e].present
               /\ e # decide[q].dev => rows'[e] = rows[e]
          /\ \/ rows' = rows
             \/ /\ rows[decide[q].dev].status = "pending"
                /\ rows'[decide[q].dev].status = decide[q].verdict
      BY <2>0, <2>4, <3>2, ApplyEffect, Zenon
    <3>4. decide' \in [Decisions -> Decision] /\ decide'[q].pc = "idle"
          /\ \A s \in Decisions : s # q => decide'[s] = decide[s]
      BY <2>0, <3>1, <1>IdleDecisionType, Zenon
    <3>5. decide[q].verdict \in {"approved", "denied"}
      BY <2>0, Zenon DEF Decision, Verdicts
    <3>6. TypeOK'
      BY <2>0, <3>1, <3>3, <3>4, Zenon DEF TypeOK
    <3>7. ASSUME NEW p \in Polls PROVE PollKnows(p)'
      BY <3>1, <3>2, <3>3, <3>5, SMTT(30) DEF PollKnows
    <3>8. RowsKnow'
      BY <3>1, <3>2, <3>3, <3>5 DEF RowsKnow
    <3>9. ASSUME NEW s \in Decisions PROVE DecisionKnows(s)'
      BY <3>4, Zenon DEF DecisionKnows
    <3> QED BY <3>1, <3>6, <3>7, <3>8, <3>9, Zenon DEF OneWinner
  <2>5. ASSUME NEW p \in Polls, NEW d \in Devices, NEW c \in Clients, PollRead(p, d, c)
        PROVE  GrantInv'
    <3>1. UNCHANGED <<now, rows, decide, minted>> /\ rows[d].present
      BY <2>5, Zenon DEF PollRead
    <3>2. /\ poll' \in [Polls -> Poll]
          /\ \A r \in Polls : r # p => poll'[r] = poll[r]
          /\ poll'[p].pc = "record"
          /\ poll'[p].dev = d
          /\ poll'[p].status = rows[d].status
          /\ poll'[p].user = rows[d].user
          /\ poll'[p].client = rows[d].client
      BY <2>0, <2>5, <1>ReadEffect, Zenon
    <3>3. TypeOK'
      BY <2>0, <3>1, <3>2, Zenon DEF TypeOK
    <3>4. rows[d].status # "none"
      BY <3>1, Zenon DEF RowsKnow
    <3>5. ASSUME NEW r \in Polls PROVE PollKnows(r)'
      BY <3>1, <3>2, <3>4, SMTT(30) DEF PollKnows
    <3>6. OneWinner'
      BY <3>2 DEF OneWinner
    <3> QED BY <3>1, <3>3, <3>5, <3>6, Zenon DEF DecisionKnows, RowsKnow
  <2>6. ASSUME NEW p \in Polls, PollRecord(p)
        PROVE  GrantInv'
    <3>1. UNCHANGED <<now, decide, minted>> /\ poll[p].pc = "record"
      BY <2>6, Zenon DEF PollRecord
    <3>2. poll[p].dev \in Devices
      BY <3>1, Zenon DEF PollKnows
    <3>3. /\ rows' \in [Devices -> Row]
          /\ \A e \in Devices :
               /\ rows'[e].status = rows[e].status
               /\ rows'[e].user = rows[e].user
               /\ rows'[e].client = rows[e].client
               /\ rows'[e].present = rows[e].present
      BY <2>0, <2>6, <3>2, RecordEffect, Zenon
    <3>4. RowsKnow'
      BY <3>1, <3>3, Zenon DEF RowsKnow
    <3>5. CASE poll' = [poll EXCEPT ![p] = IdlePoll]
      <4>1. /\ poll' \in [Polls -> Poll]
            /\ poll'[p].pc = "idle"
            /\ \A r \in Polls : r # p => poll'[r] = poll[r]
        BY <2>0, <3>5, <1>PollEnds, Zenon
      <4>2. TypeOK'
        BY <2>0, <3>1, <3>3, <4>1, Zenon DEF TypeOK
      <4>3. ASSUME NEW r \in Polls PROVE PollKnows(r)'
        BY <3>1, <3>3, <4>1 DEF PollKnows
      <4>4. OneWinner'
        BY <4>1, Zenon DEF OneWinner
      <4> QED BY <3>1, <3>4, <4>2, <4>3, <4>4, Zenon DEF DecisionKnows
    <3>6. CASE poll[p].status = "approved"
               /\ poll' = [poll EXCEPT ![p] = [poll[p] EXCEPT !.pc = "consume"]]
      <4>1. /\ poll' \in [Polls -> Poll]
            /\ \A r \in Polls : r # p => poll'[r] = poll[r]
            /\ poll'[p].pc = "consume"
            /\ poll'[p].dev = poll[p].dev
            /\ poll'[p].status = poll[p].status
            /\ poll'[p].user = poll[p].user
            /\ poll'[p].client = poll[p].client
        BY <2>0, <3>6, <1>PollMoves, Zenon
      <4>2. TypeOK'
        BY <2>0, <3>1, <3>3, <4>1, Zenon DEF TypeOK
      <4>3. ASSUME NEW r \in Polls PROVE PollKnows(r)'
        BY <3>1, <3>3, <3>6, <4>1 DEF PollKnows
      <4>4. OneWinner'
        BY <4>1 DEF OneWinner
      <4> QED BY <3>1, <3>4, <4>2, <4>3, <4>4, Zenon DEF DecisionKnows
    <3> QED BY <2>6, <3>5, <3>6, Zenon DEF PollRecord
  <2>7. ASSUME NEW p \in Polls, PollConsume(p)
        PROVE  GrantInv'
    <3> DEFINE d == poll[p].dev
    <3>1. UNCHANGED <<now, decide, minted>> /\ poll[p].pc = "consume"
      BY <2>7, Zenon DEF PollConsume
    <3>2. d \in Devices
      BY <3>1, Zenon DEF PollKnows
    <3>3. /\ rows' \in [Devices -> Row]
          /\ \A e \in Devices :
               /\ rows'[e].user = rows[e].user
               /\ rows'[e].client = rows[e].client
               /\ rows'[e].present = rows[e].present
               /\ e # d => rows'[e] = rows[e]
          /\ \/ rows' = rows /\ poll' = [poll EXCEPT ![p] = IdlePoll]
             \/ /\ rows[d].status = "approved"
                /\ rows'[d].status = "consumed"
                /\ poll' = [poll EXCEPT ![p].pc = "mint"]
      BY <2>0, <2>7, <3>2, ConsumeEffect, Zenon
    <3>4. CASE rows' = rows /\ poll' = [poll EXCEPT ![p] = IdlePoll]
      <4>1. /\ poll' \in [Polls -> Poll]
            /\ poll'[p].pc = "idle"
            /\ \A r \in Polls : r # p => poll'[r] = poll[r]
        BY <2>0, <3>4, <1>PollEnds, Zenon
      <4>2. TypeOK'
        BY <2>0, <3>1, <3>4, <4>1, Zenon DEF TypeOK
      <4>3. ASSUME NEW r \in Polls PROVE PollKnows(r)'
        BY <3>1, <3>4, <4>1, Zenon DEF PollKnows
      <4>4. OneWinner'
        BY <4>1, Zenon DEF OneWinner
      <4> QED BY <3>1, <3>4, <4>2, <4>3, <4>4, Zenon DEF DecisionKnows, RowsKnow
    <3>5. CASE /\ rows[d].status = "approved"
               /\ rows'[d].status = "consumed"
               /\ poll' = [poll EXCEPT ![p].pc = "mint"]
      <4>1. poll' = [poll EXCEPT ![p] = [poll[p] EXCEPT !.pc = "mint"]]
        BY <2>0, <3>5, Zenon
      <4>2. /\ poll' \in [Polls -> Poll]
            /\ \A r \in Polls : r # p => poll'[r] = poll[r]
            /\ poll'[p].pc = "mint"
            /\ poll'[p].dev = poll[p].dev
            /\ poll'[p].status = poll[p].status
            /\ poll'[p].user = poll[p].user
            /\ poll'[p].client = poll[p].client
        BY <2>0, <4>1, <1>PollMoves, Zenon
      <4>3. TypeOK'
        BY <2>0, <3>1, <3>3, <4>2, Zenon DEF TypeOK
      <4>4. minted[d] = <<>> /\ \A r \in Polls : poll[r].pc = "mint" => poll[r].dev # d
        BY <3>2, <3>5, Zenon DEF RowsKnow, PollKnows
      <4>5. PollKnows(p)'
        BY <3>1, <3>2, <3>3, <3>5, <4>2, <4>4 DEF PollKnows
      <4>6. ASSUME NEW r \in Polls, r # p PROVE PollKnows(r)'
        BY <3>1, <3>2, <3>3, <3>5, <4>2, <4>6 DEF PollKnows
      <4>7. OneWinner'
        BY <4>2, <4>4 DEF OneWinner
      <4>8. RowsKnow'
        BY <3>1, <3>2, <3>3, <3>5 DEF RowsKnow
      <4> QED BY <3>1, <4>3, <4>5, <4>6, <4>7, <4>8, Zenon DEF DecisionKnows
    <3> QED BY <3>3, <3>4, <3>5, Zenon
  <2>8. ASSUME NEW p \in Polls, PollMint(p)
        PROVE  GrantInv'
    <3> DEFINE d == poll[p].dev
               set == [client |-> poll[p].client, user |-> poll[p].user]
    <3>1. /\ UNCHANGED <<now, rows, decide>> /\ poll[p].pc = "mint"
          /\ minted' = [minted EXCEPT ![d] = Append(minted[d], set)]
          /\ poll' = [poll EXCEPT ![p] = IdlePoll]
      BY <2>0, <2>8, Zenon DEF PollMint
    <3>2. d \in Devices /\ rows[d].status = "consumed"
      BY <3>1, Zenon DEF PollKnows
    <3>3. set \in TokenSet
      BY <2>0, Zenon DEF TokenSet, Poll
    <3>4. minted' \in [Devices -> Seq(TokenSet)]
      BY <2>0, <3>1, <3>2, <3>3
    <3>5. \A e \in Devices : e # d => minted'[e] = minted[e]
      BY <2>0, <3>1, Zenon
    <3>6. /\ poll' \in [Polls -> Poll]
          /\ poll'[p].pc = "idle"
          /\ \A r \in Polls : r # p => poll'[r] = poll[r]
      BY <2>0, <3>1, <1>PollEnds, Zenon
    <3>7. TypeOK'
      BY <2>0, <3>1, <3>4, <3>6, Zenon DEF TypeOK
    <3>8. ASSUME NEW r \in Polls PROVE PollKnows(r)'
      <4>1. CASE r = p
        BY <3>6, <4>1, Zenon DEF PollKnows
      <4>2. CASE r # p
        <5>1. poll'[r] = poll[r] /\ (poll[r].pc = "mint" => poll[r].dev # d)
          BY <3>1, <3>6, <4>2, Zenon DEF OneWinner
        <5>2. PollKnows(r)
          BY <2>0, Zenon
        <5>3. rows' = rows /\ (poll[r].pc = "mint" => minted'[poll[r].dev] = minted[poll[r].dev])
          BY <3>1, <3>5, <5>1, <5>2, Zenon DEF PollKnows
        <5> QED BY <5>1, <5>2, <5>3, Zenon DEF PollKnows
      <4> QED BY <4>1, <4>2, Zenon
    <3>9. OneWinner'
      BY <3>6, Zenon DEF OneWinner
    <3>10. RowsKnow'
      BY <3>1, <3>2, <3>5, Zenon DEF RowsKnow
    <3> QED BY <3>1, <3>7, <3>8, <3>9, <3>10, Zenon DEF DecisionKnows
  <2>9. CASE Abort
    <3>1. UNCHANGED <<now, rows, minted>>
      BY <2>9, Zenon DEF Abort
    <3>2. ASSUME NEW p \in Polls, poll' = [poll EXCEPT ![p] = IdlePoll], UNCHANGED decide
          PROVE  GrantInv'
      <4>1. /\ poll' \in [Polls -> Poll]
            /\ poll'[p].pc = "idle"
            /\ \A r \in Polls : r # p => poll'[r] = poll[r]
        BY <2>0, <3>2, <1>PollEnds, Zenon
      <4>2. TypeOK'
        BY <2>0, <3>1, <3>2, <4>1, Zenon DEF TypeOK
      <4>3. ASSUME NEW r \in Polls PROVE PollKnows(r)'
        BY <3>1, <4>1 DEF PollKnows
      <4>4. OneWinner'
        BY <4>1, Zenon DEF OneWinner
      <4> QED BY <3>1, <3>2, <4>2, <4>3, <4>4, Zenon DEF DecisionKnows, RowsKnow
    <3>3. ASSUME NEW q \in Decisions, decide' = [decide EXCEPT ![q] = IdleDecision], UNCHANGED poll
          PROVE  GrantInv'
      <4>1. decide' \in [Decisions -> Decision] /\ decide'[q].pc = "idle"
            /\ \A s \in Decisions : s # q => decide'[s] = decide[s]
        BY <2>0, <3>3, <1>IdleDecisionType, Zenon
      <4>2. TypeOK'
        BY <2>0, <3>1, <3>3, <4>1, Zenon DEF TypeOK
      <4>3. ASSUME NEW s \in Decisions PROVE DecisionKnows(s)'
        BY <4>1, Zenon DEF DecisionKnows
      <4> QED BY <3>1, <3>3, <4>2, <4>3, Zenon DEF PollKnows, OneWinner, RowsKnow
    <3> QED BY <2>9, <3>2, <3>3, Zenon DEF Abort
  <2>10. ASSUME NEW before \in 0..now, DeleteExpired(before)
         PROVE  GrantInv'
    <3>1. UNCHANGED <<now, poll, decide, minted>>
      BY <2>10, Zenon DEF DeleteExpired
    <3>2. /\ \A d \in Devices :
               /\ rows' \in [Devices -> Row]
               /\ rows'[d].status = rows[d].status
               /\ rows'[d].user = rows[d].user
               /\ rows'[d].client = rows[d].client
               /\ rows'[d].present => rows[d].present
      <4> DEFINE dead == {d \in Devices : rows[d].expires < before}
      <4>1. rows' = Swept(dead)
        BY <2>10, Zenon DEF DeleteExpired
      <4> HIDE DEF dead
      <4> QED BY <2>0, <4>1, SweptEffect, Zenon
    <3>3. rows' \in [Devices -> Row]
      BY <3>2, <2>10, Zenon DEF DeleteExpired, Swept
    <3>4. TypeOK'
      BY <2>0, <3>1, <3>3, Zenon DEF TypeOK
    <3>5. ASSUME NEW p \in Polls PROVE PollKnows(p)'
      BY <3>1, <3>2, SMTT(30) DEF PollKnows
    <3>6. RowsKnow'
      BY <3>1, <3>2, Zenon DEF RowsKnow
    <3> QED BY <3>1, <3>4, <3>5, <3>6, Zenon DEF DecisionKnows, OneWinner
  <2>11. CASE UNCHANGED vars
    BY <2>11, Zenon DEF vars, TypeOK, PollKnows, DecisionKnows, OneWinner, RowsKnow
  <2> QED BY <2>1, <2>2, <2>3, <2>4, <2>5, <2>6, <2>7, <2>8, <2>9, <2>10, <2>11, Zenon DEF Next
<1>1. Init => GrantInv
  BY <1>GrantInit, Zenon
<1>2. GrantInv /\ [Next]_vars => GrantInv'
  BY <1>GrantStep, Zenon
<1> QED BY <1>1, <1>2, PTL DEF Spec

\* Rows, polls, decisions and minted token sets keep the shapes the code gives them, in every
\* instance.
THEOREM TypeCorrect == Spec => []TypeOK
<1>1. GrantInv => TypeOK
  BY Zenon DEF GrantInv
<1> QED BY <1>1, GrantInvariant, PTL

\* A poll of PollDeviceToken that reaches ConsumeDeviceAuthorization spends the very approval it
\* read: the row's user and client cannot change between the read and the conditional update.
THEOREM SpendsRead == Spec => []SpendsWhatItRead
<1>1. GrantInv => SpendsWhatItRead
  BY Zenon DEF GrantInv, PollKnows, SpendsWhatItRead
<1> QED BY <1>1, GrantInvariant, PTL

(* User codes.                                                             *)

\* Time passing and rows being written or swept never make two live rows share a code.
LEMMA CodesKept ==
  ASSUME LiveCodesDistinct, TypeOK, TypeOK', now' >= now,
         \A d \in Devices : /\ rows'[d].code = rows[d].code
                            /\ rows'[d].expires = rows[d].expires
                            /\ rows'[d].present => rows[d].present
  PROVE  LiveCodesDistinct'
<1>1. \A d \in Devices : rows[d].expires \in Nat /\ now \in Nat /\ now' \in Nat
  BY Zenon DEF TypeOK, Row
<1>2. \A d \in Devices : Live(d)' => Live(d)
  BY <1>1 DEF Live
<1> QED BY <1>2, Zenon DEF LiveCodesDistinct

LEMMA CodesStep == GrantInv /\ GrantInv' /\ LiveCodesDistinct /\ [Next]_vars => LiveCodesDistinct'
<1> SUFFICES ASSUME GrantInv, GrantInv', LiveCodesDistinct, [Next]_vars PROVE LiveCodesDistinct'
  BY Zenon
<1>0. TypeOK /\ TypeOK' /\ now \in Nat
  BY Zenon DEF GrantInv, TypeOK
<1>1. ASSUME NEW d \in Devices, NEW c \in Clients, NEW code \in UserCodes,
             StartDeviceAuthorization(d, c, code)
      PROVE  LiveCodesDistinct'
  <2>1. now' = now /\ \A e \in Devices : Live(e) => rows[e].code # code
    BY <1>1, Zenon DEF StartDeviceAuthorization, UserCodeFree
  <2>2. /\ rows'[d].code = code
        /\ \A e \in Devices \ {d} :
             /\ rows'[e].code = rows[e].code
             /\ rows'[e].expires = rows[e].expires
             /\ rows'[e].present => rows[e].present
    BY <1>0, <1>1, StartEffect
  <2>3. \A e \in Devices \ {d} : Live(e)' => Live(e)
    BY <2>1, <2>2, Zenon DEF Live
  <2> QED BY <2>1, <2>2, <2>3 DEF LiveCodesDistinct
<1>2. ASSUME NEW q \in Decisions, DecideApply(q)
      PROVE  LiveCodesDistinct'
  <2>1. decide[q].dev \in Devices /\ now' = now
    BY <1>2, Zenon DEF DecideApply, GrantInv, DecisionKnows
  <2>2. \A e \in Devices : /\ rows'[e].code = rows[e].code
                           /\ rows'[e].expires = rows[e].expires
                           /\ rows'[e].present = rows[e].present
    BY <1>0, <1>2, <2>1, ApplyEffect, SMTT(30)
  <2> QED BY <1>0, <2>1, <2>2, CodesKept
<1>3. ASSUME NEW p \in Polls, PollRecord(p)
      PROVE  LiveCodesDistinct'
  <2>1. poll[p].dev \in Devices /\ now' = now
    BY <1>3, Zenon DEF PollRecord, GrantInv, PollKnows
  <2>2. \A e \in Devices : /\ rows'[e].code = rows[e].code
                           /\ rows'[e].expires = rows[e].expires
                           /\ rows'[e].present = rows[e].present
    BY <1>0, <1>3, <2>1, RecordEffect, Zenon
  <2> QED BY <1>0, <2>1, <2>2, CodesKept
<1>4. ASSUME NEW p \in Polls, PollConsume(p)
      PROVE  LiveCodesDistinct'
  <2>1. poll[p].dev \in Devices /\ now' = now
    BY <1>4, Zenon DEF PollConsume, GrantInv, PollKnows
  <2>2. \A e \in Devices : /\ rows'[e].code = rows[e].code
                           /\ rows'[e].expires = rows[e].expires
                           /\ rows'[e].present = rows[e].present
    BY <1>0, <1>4, <2>1, ConsumeEffect, Zenon
  <2> QED BY <1>0, <2>1, <2>2, CodesKept
<1>5. ASSUME NEW before \in 0..now, DeleteExpired(before)
      PROVE  LiveCodesDistinct'
  <2> DEFINE dead == {d \in Devices : rows[d].expires < before}
  <2>1. rows' = Swept(dead) /\ now' = now
    BY <1>5, Zenon DEF DeleteExpired
  <2> HIDE DEF dead
  <2>2. \A e \in Devices : /\ rows'[e].code = rows[e].code
                           /\ rows'[e].expires = rows[e].expires
                           /\ rows'[e].present => rows[e].present
    BY <1>0, <2>1, SweptEffect, Zenon
  <2> QED BY <1>0, <2>1, <2>2, CodesKept
<1>6. CASE Tick
  BY <1>0, <1>6, CodesKept DEF Tick
<1>7. CASE UNCHANGED <<now, rows>>
  BY <1>0, <1>7, CodesKept
<1>8. ASSUME NEW q \in Decisions, NEW u \in Users, NEW code \in UserCodes, NEW v \in Verdicts,
             DecideLookup(q, u, code, v)
      PROVE  UNCHANGED <<now, rows>>
  BY <1>8, Zenon DEF DecideLookup
<1>9. ASSUME NEW p \in Polls, NEW d \in Devices, NEW c \in Clients, PollRead(p, d, c)
      PROVE  UNCHANGED <<now, rows>>
  BY <1>9, Zenon DEF PollRead
<1>10. ASSUME NEW p \in Polls, PollMint(p)
       PROVE  UNCHANGED <<now, rows>>
  BY <1>10, Zenon DEF PollMint
<1>11. Abort \/ UNCHANGED vars => UNCHANGED <<now, rows>>
  BY Zenon DEF Abort, vars
<1> QED
  BY <1>1, <1>2, <1>3, <1>4, <1>5, <1>6, <1>7, <1>8, <1>9, <1>10, <1>11, Zenon DEF Next

\* A user code names at most one request that can still be decided: InsertDeviceAuthorization's
\* scan keeps the codes of live rows distinct, whatever expires or is swept around it.
THEOREM LiveCodes == Spec => []LiveCodesDistinct
<1>1. Init => LiveCodesDistinct
  BY DEF Init, LiveCodesDistinct, Live, NoRow
<1>2. GrantInv /\ GrantInv' /\ LiveCodesDistinct /\ [Next]_vars => LiveCodesDistinct'
  BY CodesStep, Zenon
<1> QED BY <1>1, <1>2, GrantInvariant, PTL DEF Spec

(* Refinement.                                                             *)

\* A step that leaves status, client, user and tokens alone is an abstract stutter.
LEMMA MapsToStutter ==
  ASSUME UNCHANGED minted,
         \A d \in Devices : /\ rows'[d].status = rows[d].status
                            /\ rows'[d].client = rows[d].client
                            /\ rows'[d].user = rows[d].user
  PROVE  UNCHANGED Grant!vars
BY Zenon DEF Grant!vars

LEMMA RefinesInit == Init => Grant!Init
<1> SUFFICES ASSUME Init PROVE Grant!Init
  BY Zenon
<1>1. \A d \in Devices : /\ rows[d].status = "none"
                         /\ rows[d].client = NoClient
                         /\ rows[d].user = NoUser
                         /\ minted[d] = <<>>
  BY Zenon DEF Init, NoRow
<1>2. minted = [d \in Devices |-> <<>>]
  BY Zenon DEF Init
<1> QED BY <1>1, <1>2, Zenon DEF Grant!Init

LEMMA RefinesStep == GrantInv /\ [Next]_vars => [Grant!Next]_(Grant!vars)
<1> SUFFICES ASSUME GrantInv, [Next]_vars PROVE Grant!Next \/ UNCHANGED Grant!vars
  BY Zenon
<1>0. /\ TypeOK
      /\ rows \in [Devices -> Row]
      /\ poll \in [Polls -> Poll]
      /\ minted \in [Devices -> Seq(TokenSet)]
  BY Zenon DEF GrantInv, TypeOK
<1>1. ASSUME NEW d \in Devices, NEW c \in Clients, NEW code \in UserCodes,
             StartDeviceAuthorization(d, c, code)
      PROVE  Grant!Next
  <2>1. UNCHANGED minted
    BY <1>1, Zenon DEF StartDeviceAuthorization
  <2>2. /\ rows[d].status = "none"
        /\ rows'[d].status = "pending" /\ rows'[d].client = c /\ rows'[d].user = NoUser
        /\ \A e \in Devices \ {d} :
             /\ rows'[e].status = rows[e].status
             /\ rows'[e].user = rows[e].user
             /\ rows'[e].client = rows[e].client
    BY <1>0, <1>1, StartEffect
  <2>3. rows[d].user = NoUser
    BY <2>2, Zenon DEF GrantInv, RowsKnow
  <2>4. Grant!Open(d, c)
    BY <2>1, <2>2, <2>3, Zenon DEF Grant!Open
  <2> QED BY <2>4, Zenon DEF Grant!Next
<1>2. ASSUME NEW q \in Decisions, DecideApply(q)
      PROVE  Grant!Next \/ UNCHANGED Grant!vars
  <2> DEFINE d == decide[q].dev
  <2>1. d \in Devices /\ decide[q].user \in Users /\ UNCHANGED minted
    BY <1>2, Zenon DEF DecideApply, GrantInv, DecisionKnows
  <2>2. /\ \A e \in Devices :
             /\ rows'[e].client = rows[e].client
             /\ e # d => rows'[e] = rows[e]
        /\ \/ rows' = rows
           \/ /\ rows[d].status = "pending"
              /\ rows'[d].status = decide[q].verdict
              /\ rows'[d].user = decide[q].user
    BY <1>0, <1>2, <2>1, ApplyEffect, Zenon
  <2>3. CASE rows' = rows
    BY <2>1, <2>3, MapsToStutter, Zenon
  <2>4. CASE /\ rows[d].status = "pending"
             /\ rows'[d].status = decide[q].verdict
             /\ rows'[d].user = decide[q].user
    <3>1. decide[q].verdict \in {"approved", "denied"}
      BY Zenon DEF GrantInv, TypeOK, Decision, Verdicts
    <3>2. PICK g \in Devices, u \in Users, v \in {"approved", "denied"} :
            g = d /\ u = decide[q].user /\ v = decide[q].verdict
      BY <2>1, <3>1, Zenon
    <3>3. Grant!Decide(g, u, v)
      BY <2>1, <2>2, <2>4, <3>2, Zenon DEF Grant!Decide
    <3> QED BY <3>3, Zenon DEF Grant!Next
  <2> QED BY <2>2, <2>3, <2>4, Zenon
<1>3. ASSUME NEW p \in Polls, PollConsume(p)
      PROVE  Grant!Next \/ UNCHANGED Grant!vars
  <2> DEFINE d == poll[p].dev
  <2>1. d \in Devices /\ UNCHANGED minted
    BY <1>3, Zenon DEF PollConsume, GrantInv, PollKnows
  <2>2. /\ \A e \in Devices :
             /\ rows'[e].user = rows[e].user
             /\ rows'[e].client = rows[e].client
             /\ e # d => rows'[e] = rows[e]
        /\ \/ rows' = rows
           \/ rows[d].status = "approved" /\ rows'[d].status = "consumed"
    BY <1>0, <1>3, <2>1, ConsumeEffect, Zenon
  <2>3. CASE rows' = rows
    BY <2>1, <2>3, MapsToStutter, Zenon
  <2>4. CASE rows[d].status = "approved" /\ rows'[d].status = "consumed"
    <3>1. PICK g \in Devices : g = d
      BY <2>1, Zenon
    <3>2. Grant!Spend(g)
      BY <2>1, <2>2, <2>4, <3>1, Zenon DEF Grant!Spend
    <3> QED BY <3>2, Zenon DEF Grant!Next
  <2> QED BY <2>2, <2>3, <2>4, Zenon
<1>4. ASSUME NEW p \in Polls, PollMint(p)
      PROVE  Grant!Next
  <2> DEFINE d == poll[p].dev
             set == [client |-> poll[p].client, user |-> poll[p].user]
  <2>1. /\ UNCHANGED rows /\ poll[p].pc = "mint"
        /\ minted' = [minted EXCEPT ![d] = Append(minted[d], set)]
    BY <1>0, <1>4, Zenon DEF PollMint
  <2>2. /\ d \in Devices
        /\ rows[d].status = "consumed"
        /\ minted[d] = <<>>
        /\ rows[d].client = poll[p].client
        /\ rows[d].user = poll[p].user
    BY <2>1, Zenon DEF GrantInv, PollKnows
  <2>3. set \in TokenSet
    BY <1>0, Zenon DEF TokenSet, Poll
  <2>4. Append(minted[d], set) = <<set>>
    <3> HIDE DEF set
    <3> QED BY <2>2, <2>3
  <2>5. minted' = [minted EXCEPT ![d] = <<set>>]
    BY <2>1, <2>4, Zenon
  <2>6. PICK g \in Devices : g = d
    BY <2>2, Zenon
  <2>7. Grant!Issue(g)
    BY <2>1, <2>2, <2>5, <2>6, Zenon DEF Grant!Issue
  <2> QED BY <2>7, Zenon DEF Grant!Next
<1>5. ASSUME NEW p \in Polls, PollRecord(p)
      PROVE  UNCHANGED Grant!vars
  <2>1. poll[p].dev \in Devices /\ UNCHANGED minted
    BY <1>5, Zenon DEF PollRecord, GrantInv, PollKnows
  <2>2. \A e \in Devices : /\ rows'[e].status = rows[e].status
                           /\ rows'[e].user = rows[e].user
                           /\ rows'[e].client = rows[e].client
    BY <1>0, <1>5, <2>1, RecordEffect, Zenon
  <2> QED BY <2>1, <2>2, MapsToStutter, Zenon
<1>6. ASSUME NEW before \in 0..now, DeleteExpired(before)
      PROVE  UNCHANGED Grant!vars
  <2> DEFINE dead == {d \in Devices : rows[d].expires < before}
  <2>1. rows' = Swept(dead) /\ UNCHANGED minted
    BY <1>6, Zenon DEF DeleteExpired
  <2> HIDE DEF dead
  <2>2. \A e \in Devices : /\ rows'[e].status = rows[e].status
                           /\ rows'[e].user = rows[e].user
                           /\ rows'[e].client = rows[e].client
    BY <1>0, <2>1, SweptEffect, Zenon
  <2> QED BY <2>1, <2>2, MapsToStutter, Zenon
<1>7. ASSUME UNCHANGED <<rows, minted>>
      PROVE  UNCHANGED Grant!vars
  BY <1>7, MapsToStutter, Zenon
<1>8. ASSUME NEW q \in Decisions, NEW u \in Users, NEW code \in UserCodes, NEW v \in Verdicts,
             DecideLookup(q, u, code, v)
      PROVE  UNCHANGED <<rows, minted>>
  BY <1>8, Zenon DEF DecideLookup
<1>9. ASSUME NEW p \in Polls, NEW d \in Devices, NEW c \in Clients, PollRead(p, d, c)
      PROVE  UNCHANGED <<rows, minted>>
  BY <1>9, Zenon DEF PollRead
<1>10. Tick \/ Abort \/ UNCHANGED vars => UNCHANGED <<rows, minted>>
  BY Zenon DEF Tick, Abort, vars
<1> QED
  BY <1>1, <1>2, <1>3, <1>4, <1>5, <1>6, <1>7, <1>8, <1>9, <1>10, Zenon DEF Next

\* The device grant implements the abstract grant in every instance: one decision per request, one
\* token set per approval, for the client that asked and the user that approved, under every
\* interleaving of PollDeviceToken and DecideDeviceUserCode calls, sweeps and failures.
THEOREM DeviceGrantRefines == Spec => ImplementsApprovalGrant
<1>1. Init => Grant!Init
  BY RefinesInit, Zenon
<1>2. GrantInv /\ [Next]_vars => [Grant!Next]_(Grant!vars)
  BY RefinesStep, Zenon
<1> QED BY <1>1, <1>2, GrantInvariant, PTL DEF Spec, Grant!Spec, ImplementsApprovalGrant

-----------------------------------------------------------------------------
(* Personal access tokens and their device codes (ApiTokens). Only one     *)
(* poll can hold a claimed code, and a token minted from it excludes every *)
(* other.                                                                  *)

CONSTANTS Pollers, HeldSets, Grantable, MaxTokens
VARIABLES held, active, code, ruling, asking, tokens, auth
A == INSTANCE ApiTokens WITH Requests <- Grantable, poll <- asking, decide <- ruling

ApiConstants == MaxTokens \in Nat /\ {} \notin Grantable

CodeStatuses == {"none", "pending", "approved", "denied", "redeemed", "expired"}

(* The poll has claimed the code and has still to mint.                    *)
Claimed(p) == asking[p].pc \in {"owner", "mint"}

CodeOK ==
    /\ DOMAIN code = {"status", "requested", "approved"} /\ code.status \in CodeStatuses
    /\ code.requested \in Grantable \cup {{}} /\ code.approved \subseteq code.requested
    /\ code.status \in {"approved", "redeemed"} => code.approved /= {}

DecideOK ==
    /\ ruling.pc \in {"idle", "write"} /\ ruling.approve \in BOOLEAN
    /\ ruling.pc = "write" => /\ code.status /= "none" /\ ruling.abilities \subseteq code.requested
                              /\ ruling.approve => ruling.abilities /= {}

PollOK ==
    /\ asking \in [Pollers -> [pc : {"idle", "claim", "owner", "mint"}, abilities : SUBSET code.requested]]
    /\ \A p \in Pollers : asking[p].pc \in {"idle", "claim"} => asking[p].abilities = {}
    /\ \A p \in Pollers : Claimed(p) => code.status = "redeemed" /\ asking[p].abilities = code.approved
    /\ \A p, q \in Pollers : Claimed(p) /\ Claimed(q) => p = q

Token == [abilities : (SUBSET (UNION Grantable)) \ {{}}, device : BOOLEAN, live : BOOLEAN]

(* A token of the device code is the only one, of a redeemed code that no  *)
(* poll has still to mint from.                                            *)
TokensOK ==
    /\ tokens \in Seq(Token) /\ Len(tokens) <= MaxTokens
    /\ \A i \in 1..Len(tokens) : tokens[i].device =>
         /\ code.status = "redeemed" /\ tokens[i].abilities = code.approved
         /\ \A p \in Pollers : ~Claimed(p)
         /\ \A j \in 1..Len(tokens) : tokens[j].device => j = i

AuthOK ==
    /\ auth.pc \in {"idle", "owner", "clamp", "done"}
    /\ DOMAIN auth = {"pc", "token", "abilities", "seen"}
    /\ auth.pc \in {"owner", "clamp"} => held \in auth.seen
    /\ A!PrincipalWithinOwner

ApiInv == held \in HeldSets /\ active \in BOOLEAN /\ CodeOK /\ DecideOK /\ PollOK /\ TokensOK /\ AuthOK

(* The invariant holds initially, every step of a decision, a poll or an   *)
(* authentication keeps it, and it keeps a token within its owner.         *)
LEMMA ApiTokensSound ==
    ASSUME FiniteSetFacts, ApiConstants
    PROVE  /\ A!Init => ApiInv
           /\ ApiInv /\ [A!Next]_A!apiTokenVars => ApiInv'
           /\ ApiInv => A!TokenWithinOwner
<1>ApiInit. ASSUME A!Init PROVE ApiInv
  <2> USE <1>ApiInit
  <2> USE DEF A!Init, A!NoCode, A!NoDecision, A!NoPoll, A!NoAuth
  <2>1. CodeOK
      BY Zenon DEF CodeOK, CodeStatuses
  <2>2. DecideOK
      BY Zenon DEF DecideOK
  <2>3. PollOK
      BY Zenon DEF PollOK, Claimed
  <2>4. TokensOK
      BY DEF TokensOK, ApiConstants
  <2>5. AuthOK
      BY Zenon DEF AuthOK, A!PrincipalWithinOwner
  <2> QED BY <2>1, <2>2, <2>3, <2>4, <2>5, Zenon DEF ApiInv
(* Nothing of the invariant is about the user but what an authentication   *)
(* under way has seen it hold.                                             *)
<1>HostKeeps. ASSUME ApiInv, (\E h \in HeldSets : A!ChangeAbilities(h)) \/ (\E b \in BOOLEAN : A!SetActive(b))
              PROVE  ApiInv'
  <2> USE <1>HostKeeps
  <2>1. UNCHANGED <<code, ruling, asking, tokens>>
      BY Zenon DEF A!ChangeAbilities, A!SetActive
  <2>2. CodeOK' /\ DecideOK' /\ PollOK' /\ TokensOK'
      BY <2>1, Zenon DEF ApiInv, CodeOK, DecideOK, PollOK, TokensOK, Claimed
  <2>3. ASSUME NEW h \in HeldSets, A!ChangeAbilities(h) PROVE held' \in HeldSets /\ active' \in BOOLEAN /\ AuthOK'
      BY <2>3, Zenon DEF A!ChangeAbilities, ApiInv, AuthOK, A!PrincipalWithinOwner
  <2>4. ASSUME NEW b \in BOOLEAN, A!SetActive(b) PROVE held' \in HeldSets /\ active' \in BOOLEAN /\ AuthOK'
      BY <2>4, Zenon DEF A!SetActive, ApiInv, AuthOK, A!PrincipalWithinOwner
  <2> QED BY <2>2, <2>3, <2>4, Zenon DEF ApiInv
(* A token that is minted over HTTP is none of the device code's.          *)
<1>CreateKeeps. ASSUME ApiInv, NEW ab \in Grantable, A!handleTokenCreate(ab)
                PROVE  ApiInv'
  <2> USE <1>CreateKeeps
  <2> DEFINE n == Len(tokens)
             new == [abilities |-> ab, device |-> FALSE, live |-> TRUE]
  <2>1. UNCHANGED <<held, active, code, ruling, asking, auth>> /\ tokens' = Append(tokens, new) /\ n < MaxTokens
      BY Zenon DEF A!handleTokenCreate, A!Minted
  <2>2. held' \in HeldSets /\ active' \in BOOLEAN /\ CodeOK' /\ DecideOK' /\ PollOK' /\ AuthOK'
      BY <2>1, Zenon DEF ApiInv, CodeOK, DecideOK, PollOK, AuthOK, Claimed, A!PrincipalWithinOwner
  <2>3. new \in Token /\ ~new.device
      BY Zenon DEF Token, ApiConstants
  <2> HIDE DEF new
  <2>4. tokens \in Seq(Token) /\ n \in Nat
      BY DEF ApiInv, TokensOK
  <2>5. /\ tokens' \in Seq(Token) /\ Len(tokens') = n + 1 /\ Len(tokens') <= MaxTokens
        /\ tokens'[n + 1] = new /\ \A j \in 1..n : tokens'[j] = tokens[j]
      BY <2>1, <2>3, <2>4 DEF ApiConstants
  <2>6. \A j \in 1..Len(tokens') : tokens'[j].device => j \in 1..n /\ tokens[j].device
      BY <2>3, <2>4, <2>5
  <2>7. TokensOK'
      BY <2>1, <2>5, <2>6 DEF ApiInv, TokensOK, Claimed
  <2> QED BY <2>2, <2>7, Zenon DEF ApiInv
<1>RevokeKeeps. ASSUME ApiInv, (\E i \in DOMAIN tokens : A!Revoke(i)) \/ A!RevokeOwner
                PROVE  ApiInv'
  <2> USE <1>RevokeKeeps
  <2>1. UNCHANGED <<held, active, code, ruling, asking, auth>>
      BY Zenon DEF A!Revoke, A!RevokeOwner
  <2>2. held' \in HeldSets /\ active' \in BOOLEAN /\ CodeOK' /\ DecideOK' /\ PollOK' /\ AuthOK'
      BY <2>1, Zenon DEF ApiInv, CodeOK, DecideOK, PollOK, AuthOK, Claimed, A!PrincipalWithinOwner
  <2>3. tokens \in Seq(Token) /\ Len(tokens) \in Nat /\ DOMAIN tokens = 1..Len(tokens)
      BY DEF ApiInv, TokensOK
  <2>4. /\ tokens' \in Seq(Token) /\ Len(tokens') = Len(tokens)
        /\ \A j \in 1..Len(tokens) : tokens'[j].device = tokens[j].device /\ tokens'[j].abilities = tokens[j].abilities
    <3>0. \A t \in Token : /\ [t EXCEPT !.live = FALSE] \in Token
                           /\ [t EXCEPT !.live = FALSE].device = t.device
                           /\ [t EXCEPT !.live = FALSE].abilities = t.abilities
        BY Zenon DEF Token
    <3>a. \A j \in 1..Len(tokens) : tokens[j] \in Token
        BY <2>3
    <3>1. ASSUME NEW i \in DOMAIN tokens, A!Revoke(i) PROVE <2>4
      <4>1. tokens' = [tokens EXCEPT ![i] = [tokens[i] EXCEPT !.live = FALSE]]
          BY <3>1, Zenon DEF A!Revoke
      <4> QED BY <2>3, <3>0, <3>a, <4>1
    <3>2. CASE A!RevokeOwner
      <4>1. tokens' = [j \in 1..Len(tokens) |-> [tokens[j] EXCEPT !.live = FALSE]]
          BY <2>3, <3>2, Zenon DEF A!RevokeOwner
      <4>2. tokens' \in [1..Len(tokens) -> Token] /\ Len(tokens) \in Nat
          BY <2>3, <3>0, <3>a, <4>1, Zenon
      <4>3. tokens' \in Seq(Token) /\ Len(tokens') = Len(tokens)
          BY <4>2
      <4>4. \A j \in 1..Len(tokens) : tokens'[j] = [tokens[j] EXCEPT !.live = FALSE]
          BY <4>1, Zenon
      <4> QED BY <3>0, <3>a, <4>3, <4>4, Zenon
    <3> QED BY <3>1, <3>2, Zenon
  <2>5. TokensOK'
      BY <2>1, <2>4, Zenon DEF ApiInv, TokensOK, Claimed
  <2> QED BY <2>2, <2>5, Zenon DEF ApiInv
(* A request starts while there is no code: nothing refers to one.         *)
<1>StartKeeps. ASSUME ApiInv, NEW ab \in Grantable, A!StartDeviceAuth(ab)
               PROVE  ApiInv'
  <2> USE <1>StartKeeps
  <2>1. /\ code.status = "none" /\ code' = [status |-> "pending", requested |-> ab, approved |-> {}]
        /\ UNCHANGED <<held, active, ruling, asking, tokens, auth>>
      BY Zenon DEF A!StartDeviceAuth
  <2>2. CodeOK' /\ AuthOK' /\ held' \in HeldSets /\ active' \in BOOLEAN
      BY <2>1, Zenon DEF ApiInv, CodeOK, AuthOK, CodeStatuses, A!PrincipalWithinOwner
  <2>3. ruling.pc = "idle" /\ (\A p \in Pollers : ~Claimed(p)) /\ \A i \in 1..Len(tokens) : ~tokens[i].device
      BY <2>1, Zenon DEF ApiInv, DecideOK, PollOK, TokensOK
  <2>4. DecideOK'
      BY <2>1, <2>3, Zenon DEF ApiInv, DecideOK
  <2>5. PollOK'
    <3>1. \A p \in Pollers : asking[p].pc \in {"idle", "claim"} /\ asking[p].abilities = {}
        BY <2>3, Zenon DEF ApiInv, PollOK, Claimed
    <3>2. asking' \in [Pollers -> [pc : {"idle", "claim", "owner", "mint"}, abilities : SUBSET code'.requested]]
      <4>1. \A p \in Pollers : asking[p] \in [pc : {"idle", "claim", "owner", "mint"}, abilities : SUBSET code'.requested]
          BY <3>1, Zenon DEF ApiInv, PollOK
      <4> QED BY <2>1, <4>1, Zenon DEF ApiInv, PollOK
    <3> QED BY <2>1, <3>1, <3>2, Zenon DEF PollOK, Claimed
  <2>6. TokensOK'
      BY <2>1, <2>3, Zenon DEF ApiInv, TokensOK
  <2> QED BY <2>2, <2>4, <2>5, <2>6, Zenon DEF ApiInv
<1>LookupKeeps. ASSUME ApiInv, NEW yes \in BOOLEAN, NEW chosen \in Grantable, A!DecideLookup(yes, chosen)
                PROVE  ApiInv'
  <2> USE <1>LookupKeeps
  <2> DEFINE ab == IF yes THEN A!clampAbilities(chosen, held) ELSE {}
  <2>1. /\ code.status = "pending" /\ chosen \subseteq code.requested /\ (yes => ab /= {})
        /\ ruling' = [pc |-> "write", approve |-> yes, abilities |-> ab]
        /\ UNCHANGED <<held, active, code, asking, tokens, auth>>
      BY Zenon DEF A!DecideLookup
  <2>2. ab \subseteq code.requested
      BY <2>1, Zenon DEF A!clampAbilities
  <2> HIDE DEF ab
  <2>3. DecideOK'
      BY <2>1, <2>2, Zenon DEF DecideOK
  <2> QED BY <2>1, <2>3, Zenon DEF ApiInv, CodeOK, PollOK, TokensOK, AuthOK, Claimed, A!PrincipalWithinOwner
(* The status of the code moves, with or without the approved abilities.   *)
<1>StatusMoves. ASSUME ApiInv, code.status \in {"pending", "approved"}, CodeOK', DecideOK',
                       code'.requested = code.requested, UNCHANGED <<held, active, asking, tokens, auth>>
                PROVE  ApiInv'
  <2> USE <1>StatusMoves
  <2>1. (\A p \in Pollers : ~Claimed(p)) /\ \A i \in 1..Len(tokens) : ~tokens[i].device
      BY Zenon DEF ApiInv, PollOK, TokensOK
  <2>2. PollOK'
      BY <2>1, Zenon DEF ApiInv, PollOK, Claimed
  <2>3. TokensOK'
      BY <2>1, Zenon DEF ApiInv, TokensOK
  <2> QED BY <2>2, <2>3, Zenon DEF ApiInv, AuthOK, A!PrincipalWithinOwner
<1>DecideKeeps. ASSUME ApiInv, A!DecideDeviceCode PROVE ApiInv'
  <2> USE <1>DecideKeeps
  <2>1. /\ ruling.pc = "write" /\ ruling' = A!NoDecision /\ UNCHANGED <<held, active, asking, tokens, auth>>
        /\ code' = IF code.status /= "pending" THEN code
                   ELSE [code EXCEPT !.status = IF ruling.approve THEN "approved" ELSE "denied",
                                     !.approved = ruling.abilities]
      BY Zenon DEF A!DecideDeviceCode
  <2>2. DecideOK'
      BY <2>1, Zenon DEF DecideOK, A!NoDecision
  <2>3. CASE code.status = "pending"
    <3>1. /\ code'.status = (IF ruling.approve THEN "approved" ELSE "denied") /\ code'.approved = ruling.abilities
          /\ code'.requested = code.requested /\ DOMAIN code' = DOMAIN code
        BY <2>1, <2>3, Zenon DEF ApiInv, CodeOK
    <3>2. CodeOK'
        BY <2>1, <3>1, Zenon DEF ApiInv, CodeOK, DecideOK, CodeStatuses
    <3> QED BY <2>1, <2>2, <2>3, <3>1, <3>2, <1>StatusMoves, Zenon
  <2>4. CASE code.status /= "pending"
    <3>1. code' = code
        BY <2>1, <2>4, Zenon
    <3> QED BY <2>1, <2>2, <3>1, Zenon DEF ApiInv, CodeOK, PollOK, TokensOK, AuthOK, Claimed, A!PrincipalWithinOwner
  <2> QED BY <2>3, <2>4, Zenon
<1>ExpiresKeeps. ASSUME ApiInv, A!CodeExpires PROVE ApiInv'
  <2> USE <1>ExpiresKeeps
  <2>1. /\ code.status \in {"pending", "approved"} /\ code' = [code EXCEPT !.status = "expired"]
        /\ UNCHANGED <<held, active, ruling, asking, tokens, auth>>
      BY Zenon DEF A!CodeExpires
  <2>2. /\ code'.status = "expired" /\ code'.approved = code.approved
        /\ code'.requested = code.requested /\ DOMAIN code' = DOMAIN code
      BY <2>1, Zenon DEF ApiInv, CodeOK
  <2>3. CodeOK' /\ DecideOK'
      BY <2>1, <2>2, Zenon DEF ApiInv, CodeOK, DecideOK, CodeStatuses
  <2> QED BY <2>1, <2>2, <2>3, <1>StatusMoves, Zenon
(* One poll moves and claims nothing.                                      *)
<1>PollMoves. ASSUME ApiInv, NEW p \in Pollers, NEW to \in {"idle", "claim", "owner", "mint"}, NEW ab,
                     \/ to \in {"idle", "claim"} /\ ab = {}
                     \/ Claimed(p) /\ to \in {"owner", "mint"} /\ ab = asking[p].abilities,
                     asking' = [asking EXCEPT ![p] = [pc |-> to, abilities |-> ab]],
                     UNCHANGED <<held, active, code, ruling, tokens, auth>>
              PROVE  ApiInv'
  <2> USE <1>PollMoves
  <2>1. \A q \in Pollers : Claimed(q)' => Claimed(q) /\ asking'[q].abilities = asking[q].abilities
      BY Zenon DEF ApiInv, PollOK, Claimed
  <2>2. PollOK'
    <3>1. ab \in SUBSET code.requested
        BY DEF ApiInv, PollOK
    <3>2. asking' \in [Pollers -> [pc : {"idle", "claim", "owner", "mint"}, abilities : SUBSET code'.requested]]
        BY <3>1, Zenon DEF ApiInv, PollOK
    <3>3. \A q \in Pollers : asking'[q].pc \in {"idle", "claim"} => asking'[q].abilities = {}
        BY Zenon DEF ApiInv, PollOK, Claimed
    <3> QED BY <2>1, <3>2, <3>3, Zenon DEF ApiInv, PollOK
  <2>3. TokensOK'
      BY <2>1, Zenon DEF ApiInv, TokensOK
  <2> QED BY <2>2, <2>3, Zenon DEF ApiInv, CodeOK, DecideOK, AuthOK, A!PrincipalWithinOwner
<1>PollStepKeeps. ASSUME ApiInv, NEW p \in Pollers, A!RedeemRead(p) \/ A!RedeemOwner(p)
                  PROVE  ApiInv'
  <2> USE <1>PollStepKeeps
  <2>0. asking[p] \in [pc : {"idle", "claim", "owner", "mint"}, abilities : SUBSET code.requested]
      BY Zenon DEF ApiInv, PollOK
  <2>1. CASE A!RedeemRead(p)
    <3>1. asking[p].abilities = {} /\ UNCHANGED <<held, active, code, ruling, tokens, auth>>
        BY <2>1, Zenon DEF A!RedeemRead, ApiInv, PollOK
    <3>2. asking' = [asking EXCEPT ![p] = [pc |-> "claim", abilities |-> {}]]
      <4>1. [asking[p] EXCEPT !.pc = "claim"] = [pc |-> "claim", abilities |-> {}]
          BY <2>0, <3>1
      <4> QED BY <2>1, <4>1, Zenon DEF A!RedeemRead
    <3> QED BY <3>1, <3>2, <1>PollMoves, Zenon
  <2>2. CASE A!RedeemOwner(p) /\ active
    <3>1. Claimed(p) /\ UNCHANGED <<held, active, code, ruling, tokens, auth>>
        BY <2>2, Zenon DEF A!RedeemOwner, Claimed
    <3>2. asking' = [asking EXCEPT ![p] = [pc |-> "mint", abilities |-> asking[p].abilities]]
      <4>1. [asking[p] EXCEPT !.pc = "mint"] = [pc |-> "mint", abilities |-> asking[p].abilities]
          BY <2>0
      <4> QED BY <2>2, <4>1, Zenon DEF A!RedeemOwner
    <3> QED BY <3>1, <3>2, <1>PollMoves, Zenon
  <2>3. CASE A!RedeemOwner(p) /\ ~active
    <3>1. asking' = [asking EXCEPT ![p] = [pc |-> "idle", abilities |-> {}]]
          /\ UNCHANGED <<held, active, code, ruling, tokens, auth>>
        BY <2>3, Zenon DEF A!RedeemOwner, A!NoPoll
    <3> QED BY <3>1, <1>PollMoves, Zenon
  <2> QED BY <2>1, <2>2, <2>3, Zenon
(* Of the polls that race for an approved code, one turns it redeemed; at  *)
(* that moment nothing has been minted from it and no other has claimed it.*)
<1>ClaimKeeps. ASSUME ApiInv, NEW p \in Pollers, A!ClaimDeviceCode(p)
               PROVE  ApiInv'
  <2> USE <1>ClaimKeeps
  <2>1. asking[p].pc = "claim" /\ UNCHANGED <<held, active, ruling, tokens, auth>>
      BY Zenon DEF A!ClaimDeviceCode
  <2>2. CASE ~A!Claimable
    <3>1. asking' = [asking EXCEPT ![p] = [pc |-> "idle", abilities |-> {}]] /\ code' = code
        BY <2>2, Zenon DEF A!ClaimDeviceCode, A!NoPoll
    <3> QED BY <2>1, <3>1, <1>PollMoves, Zenon
  <2>3. CASE A!Claimable
    <3>1. /\ code.status = "approved" /\ code' = [code EXCEPT !.status = "redeemed"]
          /\ asking' = [asking EXCEPT ![p] = [pc |-> "owner", abilities |-> code.approved]]
        BY <2>3, Zenon DEF A!ClaimDeviceCode, A!Claimable
    <3>2. /\ code'.status = "redeemed" /\ code'.approved = code.approved /\ code'.requested = code.requested
          /\ DOMAIN code' = DOMAIN code /\ code.approved \in SUBSET code.requested /\ code.approved /= {}
        BY <3>1, Zenon DEF ApiInv, CodeOK
    <3>3. (\A q \in Pollers : ~Claimed(q)) /\ \A i \in 1..Len(tokens) : ~tokens[i].device
        BY <3>1, Zenon DEF ApiInv, PollOK, TokensOK
    <3>4. CodeOK' /\ DecideOK'
        BY <2>1, <3>2, Zenon DEF ApiInv, CodeOK, DecideOK, CodeStatuses
    <3>5. PollOK'
      <4>1. asking' \in [Pollers -> [pc : {"idle", "claim", "owner", "mint"}, abilities : SUBSET code'.requested]]
          BY <3>1, <3>2, Zenon DEF ApiInv, PollOK
      <4>2. asking'[p] = [pc |-> "owner", abilities |-> code.approved] /\ \A q \in Pollers : q /= p => asking'[q] = asking[q]
          BY <3>1, Zenon DEF ApiInv, PollOK
      <4> QED BY <3>2, <3>3, <4>1, <4>2 DEF ApiInv, PollOK, Claimed
    <3>6. TokensOK'
        BY <2>1, <3>3, Zenon DEF ApiInv, TokensOK
    <3> QED BY <2>1, <3>4, <3>5, <3>6, Zenon DEF ApiInv, AuthOK, A!PrincipalWithinOwner
  <2> QED BY <2>2, <2>3, Zenon
<1>MintKeeps. ASSUME ApiInv, NEW p \in Pollers, A!RedeemMint(p)
              PROVE  ApiInv'
  <2> USE <1>MintKeeps
  <2> DEFINE n == Len(tokens)
             new == [abilities |-> asking[p].abilities, device |-> TRUE, live |-> TRUE]
  <2>1. /\ asking[p].pc = "mint" /\ UNCHANGED <<held, active, code, ruling, auth>>
        /\ tokens' = Append(tokens, new) /\ n < MaxTokens
        /\ asking' = [asking EXCEPT ![p] = [pc |-> "idle", abilities |-> {}]]
      BY Zenon DEF A!RedeemMint, A!Minted, A!NoPoll
  <2>2. /\ Claimed(p) /\ code.status = "redeemed" /\ asking[p].abilities = code.approved
        /\ (\A q \in Pollers : q /= p => ~Claimed(q)) /\ \A i \in 1..n : ~tokens[i].device
      BY <2>1, Zenon DEF ApiInv, PollOK, TokensOK, Claimed
  <2>3. new \in Token /\ new.device /\ new.abilities = code.approved
      BY <2>2, Zenon DEF ApiInv, CodeOK, Token
  <2> HIDE DEF new
  <2>4. tokens \in Seq(Token) /\ n \in Nat
      BY DEF ApiInv, TokensOK
  <2>5. /\ tokens' \in Seq(Token) /\ Len(tokens') = n + 1 /\ Len(tokens') <= MaxTokens
        /\ tokens'[n + 1] = new /\ \A j \in 1..n : tokens'[j] = tokens[j]
      BY <2>1, <2>3, <2>4 DEF ApiConstants
  <2>6. \A j \in 1..Len(tokens') : tokens'[j].device => j = n + 1
      BY <2>2, <2>4, <2>5
  <2>7. asking'[p] = [pc |-> "idle", abilities |-> {}] /\ \A q \in Pollers : q /= p => asking'[q] = asking[q]
      BY <2>1, Zenon DEF ApiInv, PollOK
  <2>8. \A q \in Pollers : ~Claimed(q)'
      BY <2>2, <2>7 DEF Claimed
  <2>9. PollOK'
    <3>1. asking' \in [Pollers -> [pc : {"idle", "claim", "owner", "mint"}, abilities : SUBSET code'.requested]]
        BY <2>1, Zenon DEF ApiInv, PollOK
    <3>2. \A q \in Pollers : asking'[q].pc \in {"idle", "claim"} => asking'[q].abilities = {}
        BY <2>7 DEF ApiInv, PollOK
    <3> QED BY <2>8, <3>1, <3>2, Zenon DEF PollOK
  <2>10. TokensOK'
      BY <2>1, <2>2, <2>3, <2>5, <2>6, <2>8 DEF TokensOK
  <2> QED BY <2>1, <2>9, <2>10, Zenon DEF ApiInv, CodeOK, DecideOK, AuthOK, A!PrincipalWithinOwner
<1>AuthKeeps. ASSUME ApiInv, (\E i \in DOMAIN tokens : A!AuthToken(i)) \/ A!AuthOwner \/ A!AuthClamp
              PROVE  ApiInv'
  <2> USE <1>AuthKeeps
  <2>1. UNCHANGED <<held, active, code, ruling, asking, tokens>>
      BY Zenon DEF A!AuthToken, A!AuthOwner, A!AuthClamp
  <2>2. CASE (\E i \in DOMAIN tokens : A!AuthToken(i)) \/ A!AuthOwner
    <3>1. AuthOK'
        BY <2>1, <2>2 DEF A!AuthToken, A!AuthOwner, A!NoAuth, ApiInv, AuthOK, A!PrincipalWithinOwner
    <3> QED BY <2>1, <3>1, Zenon DEF ApiInv, CodeOK, DecideOK, PollOK, TokensOK, Claimed
  <2>3. CASE A!AuthClamp
    <3>1. /\ auth'.pc = "done" /\ auth'.seen = auth.seen /\ held \in auth.seen /\ DOMAIN auth' = DOMAIN auth
          /\ auth'.abilities = A!clampAbilities(tokens[auth.token].abilities, held)
        BY <2>3, Zenon DEF A!AuthClamp, ApiInv, AuthOK
    <3>2. \A x \in auth'.abilities : x \in held \/ (x /= "root" /\ "root" \in held)
        BY <3>1, Zenon DEF A!clampAbilities
    <3>3. AuthOK'
        BY <3>1, <3>2, Zenon DEF ApiInv, AuthOK, A!PrincipalWithinOwner
    <3> QED BY <2>1, <3>3, Zenon DEF ApiInv, CodeOK, DecideOK, PollOK, TokensOK, Claimed
  <2> QED BY <2>2, <2>3, Zenon
<1>ApiCount. ASSUME NEW S PROVE A!Cardinality(S) = Cardinality(S)
  BY <1>ApiCount, Zenon DEF A!Cardinality, Cardinality
<1>ApiNext. ASSUME ApiInv, [A!Next]_A!apiTokenVars
            PROVE  ApiInv'
  <2> USE <1>ApiNext
  <2>1. CASE UNCHANGED <<held, active, code, ruling, asking, tokens, auth>>
      BY <2>1, Zenon DEF ApiInv, CodeOK, DecideOK, PollOK, TokensOK, AuthOK, Claimed, A!PrincipalWithinOwner
  <2> QED BY <2>1, <1>HostKeeps, <1>CreateKeeps, <1>RevokeKeeps, <1>StartKeeps, <1>LookupKeeps, <1>DecideKeeps, <1>ExpiresKeeps,
             <1>PollStepKeeps, <1>ClaimKeeps, <1>MintKeeps, <1>AuthKeeps, Zenon DEF A!Next, A!apiTokenVars
<1>ApiHolds. ASSUME ApiInv
             PROVE  A!TokenWithinOwner
  <2> USE <1>ApiHolds
  <2>1. DOMAIN tokens = 1..Len(tokens) /\ \A i \in 1..Len(tokens) : tokens[i] \in Token
      BY DEF ApiInv, TokensOK
  <2>2. A!TypeOK
      BY <2>1, Zenon DEF ApiInv, CodeOK, PollOK, TokensOK, AuthOK, CodeStatuses, Token, A!TypeOK
  <2>3. \A i \in A!DeviceTokens : code.status = "redeemed" /\ tokens[i].abilities = code.approved
                                  /\ A!DeviceTokens = {i}
      BY <2>1, Zenon DEF ApiInv, TokensOK, A!DeviceTokens
  <2>4. Cardinality(A!DeviceTokens) <= 1
    <3>1. A!DeviceTokens = {} \/ \E i : A!DeviceTokens = {i}
        BY <2>3, Zenon
    <3>2. CASE A!DeviceTokens = {}
        BY <3>2 DEF FiniteSetFacts, EmptyCounts
    <3>3. ASSUME NEW i, A!DeviceTokens = {i} PROVE Cardinality(A!DeviceTokens) <= 1
      <4>1. IsFiniteSet({}) /\ Cardinality({}) = 0 /\ {} \cup {i} = {i}
          BY Zenon DEF FiniteSetFacts, EmptyCounts
      <4>2. Cardinality({} \cup {i}) = Cardinality({}) + 1
          BY <4>1, Zenon DEF FiniteSetFacts, AddCounts
      <4> QED BY <3>3, <4>1, <4>2
    <3> QED BY <3>1, <3>2, <3>3, Zenon
  <2> QED BY <2>2, <2>3, <2>4, <1>ApiCount, Zenon DEF A!DeviceCodeMintsOnce, A!TokenWithinOwner, ApiInv, AuthOK
<1> QED BY <1>ApiInit, <1>ApiNext, <1>ApiHolds, Zenon

-----------------------------------------------------------------------------
(* What the lemmas above assume of finite sets, from the library, and the  *)
(* theorems that rest on it.                                               *)

INSTANCE FiniteSetTheorems

(* The library proves every fact about finite sets that the lemmas take as *)
(* a hypothesis.                                                           *)
LEMMA FiniteSetFactsHold == FiniteSetFacts
<1>1. EmptyCounts
    BY FS_EmptySet, Zenon DEF EmptyCounts
<1>2. NumberCounts
    BY FS_CardinalityType, Zenon DEF NumberCounts
<1>3. PartCounts
    BY FS_Subset, Zenon DEF PartCounts
<1>4. AddCounts
    BY FS_AddElement, Zenon DEF AddCounts
<1>5. RemoveCounts
    BY FS_RemoveElement, Zenon DEF RemoveCounts
<1>6. UnionCounts
    BY FS_Union, Zenon DEF UnionCounts
<1> QED BY <1>1, <1>2, <1>3, <1>4, <1>5, <1>6, Zenon DEF FiniteSetFacts

(* However polls, decisions and changes of the owner interleave, a device  *)
(* code mints at most one token, with the abilities approved, and a        *)
(* presented token never acts with an ability its owner does not hold.     *)
THEOREM TokensStayWithinTheirOwner ==
    ASSUME ApiConstants
    PROVE  A!Spec => []A!TokenWithinOwner
<1>1. FiniteSetFacts
    BY FiniteSetFactsHold, Zenon
<1>2. /\ A!Init => ApiInv
      /\ ApiInv /\ [A!Next]_A!apiTokenVars => ApiInv'
      /\ ApiInv => A!TokenWithinOwner
    BY <1>1, ApiTokensSound, Zenon
<1> QED BY <1>2, PTL DEF A!Spec
=============================================================================
