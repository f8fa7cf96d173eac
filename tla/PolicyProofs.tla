---------------------------- MODULE PolicyProofs ----------------------------
(***************************************************************************)
(* Proofs about what decides whether a call may run: the policy engine,    *)
(* and the tool guard that has an escalated call approved. The guard's     *)
(* constants get their assumptions as a hypothesis of its theorem.         *)
(***************************************************************************)
EXTENDS PolicyEval, TLAPS

-----------------------------------------------------------------------------
(* Policy evaluation (PolicyEval), for every number of statements, risk    *)
(* tiers and taint rules. The loop's invariant says what the statements    *)
(* before pos have shown: no deny matches, and escalate and allow are set  *)
(* exactly when a statement of their kind matches. At the end of the loop  *)
(* that is Verdict, which does not mention the order.                      *)

(* A statement before position n with that effect matches.                 *)
Before(stmts, n, effect) ==
    \E i \in DOMAIN stmts : i < n /\ matches(stmts[i]) /\ stmts[i].effect = effect

(* What the identity's policies and the taint rules come to.               *)
AfterTaint(v) ==
    IF v \in {"allow", "escalate"} /\ TaintVerdict = "deny" THEN "deny"
    ELSE IF v = "allow" /\ TaintVerdict = "escalate" THEN "escalate" ELSE v

Strongest(r) == \A t \in risk : t.matches => strength(t.require) <= strength(r)

LoopInv ==
    /\ pos <= Len(Stmts) + 1
    /\ ~Before(Stmts, pos, "deny")
    /\ (escalate /= 0) <=> Before(Stmts, pos, "escalate")
    /\ (allow /= 0) <=> Before(Stmts, pos, "allow")

StageInv ==
    /\ Loop => LoopInv
    /\ stage = "taint" => /\ decision.effect = Verdict(identity)
                          /\ pos = 1 /\ escalate = 0 /\ allow = 0
    /\ stage = "boundary" => /\ decision.effect = "allow" /\ boundary /= <<>>
                             /\ AfterTaint(Verdict(identity)) = "allow"
    /\ stage = "done" => decision.effect = Outcome

RiskInv == decision.code = "risk_escalation" => Strongest(decision.require)

PolicyInv == TypeOK /\ StageInv /\ RiskInv

(* The loop invariant holds through every statement and every stage.       *)
LEMMA PolicyHolds ==
    ASSUME QuestionAssumption
    PROVE  Spec => []PolicyInv
(* Lemmas about the operators.                                             *)
(* Classify finds a requirement exactly when a matching tier requires one. *)
<1>ClassifyFinds. ASSUME risk \subseteq Tiers
                  PROVE  (\E r \in Requirements : Classify(r)) <=> Risky
  <2> USE <1>ClassifyFinds
  <2>1. ASSUME NEW r \in Requirements, Classify(r) PROVE Risky
      BY <2>1, Zenon DEF Classify, Risky
  <2>2. ASSUME Risky PROVE \E r \in Requirements : Classify(r)
    <3>1. PICK t \in risk : t.matches /\ t.require /= "none"
        BY <2>2, Zenon DEF Risky
    <3>2. \A u \in risk : u.require \in Requirements
        BY Zenon DEF Tiers
    <3>3. CASE \E u \in risk : u.matches /\ u.require = "step_up"
      <4>1. Classify("step_up")
          BY <3>2, <3>3 DEF Classify, strength, Requirements
      <4> QED BY <4>1, Zenon DEF Requirements
    <3>4. CASE ~ \E u \in risk : u.matches /\ u.require = "step_up"
      <4>1. Classify("approval")
          BY <3>1, <3>2, <3>4 DEF Classify, strength, Requirements
      <4> QED BY <4>1, Zenon DEF Requirements
    <3> QED BY <3>3, <3>4, Zenon
  <2> QED BY <2>1, <2>2, Zenon
(* One more statement has been looked at.                                  *)
<1>BeforeNext. ASSUME NEW stmts \in Seq(Statements), NEW n \in DOMAIN stmts, NEW effect
               PROVE  Before(stmts, n + 1, effect) <=>
                         Before(stmts, n, effect) \/ (matches(stmts[n]) /\ stmts[n].effect = effect)
  <2> USE <1>BeforeNext
  <2>1. DOMAIN stmts \subseteq Nat
      OBVIOUS
  <2>2. \A i \in DOMAIN stmts : i < n + 1 <=> i < n \/ i = n
      BY <2>1
  <2> QED BY <2>2, Zenon DEF Before
(* After the last statement nothing is left to look at.                    *)
<1>BeforeAll. ASSUME NEW stmts \in Seq(Statements), NEW n \in Nat, n > Len(stmts), NEW effect
              PROVE  Before(stmts, n, effect) <=> Has(stmts, effect)
  <2> USE <1>BeforeAll
  <2>1. \A i \in DOMAIN stmts : i < n
      OBVIOUS
  <2> QED BY <2>1, Zenon DEF Before, Has
(* Before the first statement nothing has been looked at.                  *)
<1>BeforeNone. ASSUME NEW stmts \in Seq(Statements), NEW effect
               PROVE  ~Before(stmts, 1, effect)
  <2> USE <1>BeforeNone
  <2>1. \A i \in DOMAIN stmts : ~(i < 1)
      OBVIOUS
  <2> QED BY <2>1, Zenon DEF Before
(* The type of what the loop and the taint rules answer.                   *)
<1>DecisionType. ASSUME NEW effect \in Effects \union {"none"}, NEW why \in Codes, NEW require \in Requirements
                 PROVE  /\ Decision(effect, why, require) \in Decisions
                        /\ Decision(effect, why, require).effect = effect
                        /\ Decision(effect, why, require).code = why
                        /\ Decision(effect, why, require).require = require
  BY <1>DecisionType, Zenon DEF Decision, Decisions
<1>DenyCodeType. \A stmts : defaultDenyCode(stmts) \in Codes \ {"risk_escalation"}
  BY Zenon DEF defaultDenyCode, Codes
(* Taint rules turn an effect into AfterTaint of it.                       *)
<1>TaintedEffect. ASSUME decision \in Decisions
                  PROVE  /\ Tainted(decision) \in Decisions
                         /\ Tainted(decision).effect = AfterTaint(decision.effect)
                         /\ Tainted(decision).code = "risk_escalation" => Tainted(decision) = decision
  <2> USE <1>TaintedEffect
  <2>1. TaintVerdict \in {"deny", "escalate", "clean"}
      BY Zenon DEF TaintVerdict
  <2> QED BY <2>1, <1>DecisionType DEF Tainted, AfterTaint, Decision, Decisions, Effects, Codes, Requirements
(* IInv holds initially.                                                   *)
<1>PolicyInit. Init => PolicyInv
  <2> SUFFICES ASSUME Init PROVE PolicyInv
      BY Zenon
  <2>1. TypeOK
      BY <1>DecisionType DEF QuestionAssumption, Init, TypeOK, Pending, Codes, Requirements, Effects
  <2>2. Stmts = identity /\ stage = "identity" /\ pos = 1 /\ escalate = 0 /\ allow = 0
      BY Zenon DEF Init, Stmts
  <2>3. LoopInv
      BY <2>1, <2>2, <1>BeforeNone DEF LoopInv, TypeOK
  <2>4. decision.code /= "risk_escalation"
      BY Zenon DEF Init, Pending, Decision
  <2> QED BY <2>1, <2>2, <2>3, <2>4, Zenon DEF PolicyInv, StageInv, RiskInv
(* After(d) when d is what the statements of the loop come to.             *)
<1>AfterKeeps. ASSUME PolicyInv, Loop, UNCHANGED question, pos' = 1, escalate' = 0, allow' = 0,
                      NEW d \in Decisions, After(d), d.effect = Verdict(Stmts),
                      d.code = "risk_escalation" => Strongest(d.require)
               PROVE  PolicyInv'
  <2> USE <1>AfterKeeps
  <2> USE DEF PolicyInv
  <2>1. /\ identity' = identity /\ boundary' = boundary /\ risk' = risk /\ taint' = taint /\ prov' = prov
      BY Zenon DEF question
  <2>2. \A v : Verdict(v)' = Verdict(v)
      BY <2>1, Zenon DEF Verdict, Has, Risky
  <2>3. TaintVerdict' = TaintVerdict
      BY <2>1, Zenon DEF TaintVerdict, Violated, Unlabeled, AllLabels
  <2>4. CASE stage = "identity"
    <3>1. stage' = "taint" /\ decision' = d /\ Stmts = identity
        BY <2>4, Zenon DEF After, Stmts
    <3>2. TypeOK'
        BY <2>1, <3>1 DEF TypeOK
    <3>3. decision'.effect = Verdict(identity)'
        BY <2>1, <3>1, <2>2, Zenon
    <3>4. RiskInv'
        BY <2>1, <3>1, Zenon DEF RiskInv, Strongest
    <3> QED BY <3>1, <3>2, <3>3, <3>4, Zenon DEF StageInv, Loop
  <2>5. CASE stage = "boundary"
    <3>1. stage' = "done" /\ Stmts = boundary
          /\ decision' = IF d.effect = "allow" THEN decision ELSE [d EXCEPT !.boundary = TRUE]
        BY <2>5, Zenon DEF After, Stmts
    <3>2. decision \in Decisions /\ decision.effect = "allow" /\ boundary /= <<>>
          /\ AfterTaint(Verdict(identity)) = "allow"
        BY <2>5, Zenon DEF TypeOK, StageInv
    <3>3. decision' \in Decisions /\ decision'.effect = d.effect
        BY <3>1, <3>2, Zenon DEF Decisions
    <3>4. TypeOK'
        BY <2>1, <3>1, <3>3 DEF TypeOK
    <3>5. Outcome = Verdict(boundary)
        BY <3>2, Zenon DEF Outcome, AfterTaint
    <3>6. Outcome' = Outcome
        BY <2>1, <2>2, <2>3, Zenon DEF Outcome
    <3>7. RiskInv'
        BY <2>1, <3>1, <3>2, Zenon DEF RiskInv, Strongest, Decisions
    <3> QED BY <3>1, <3>3, <3>4, <3>5, <3>6, <3>7, Zenon DEF StageInv, Loop
  <2> QED BY <2>4, <2>5, Zenon DEF Loop
(* One statement.                                                          *)
<1>EvalStatementKeeps. ASSUME PolicyInv, EvalStatement PROVE PolicyInv'
  <2> USE <1>EvalStatementKeeps
  <2> DEFINE s == Stmts[pos]
  <2>1. Loop /\ pos \in DOMAIN Stmts /\ UNCHANGED question /\ Stmts \in Seq(Statements)
      BY DEF EvalStatement, PolicyInv, TypeOK, Stmts
  <2>2. LoopInv
      BY <2>1, Zenon DEF PolicyInv, StageInv
  <2>3. CASE matches(s) /\ Denies(s)
    <3>1. Verdict(Stmts) = "deny"
        BY <2>1, <2>3, Zenon DEF Verdict, Has, Denies
    <3>2. After(Decision("deny", "no_permission", "none")) /\ pos' = 1 /\ escalate' = 0 /\ allow' = 0
        BY <2>3, Zenon DEF EvalStatement
    <3>3. "deny" \in Effects \union {"none"} /\ "no_permission" \in Codes /\ "none" \in Requirements
        BY Zenon DEF Effects, Codes, Requirements
    <3> QED BY <2>1, <3>1, <3>2, <3>3, <1>DecisionType, <1>AfterKeeps
  <2>4. CASE ~(matches(s) /\ Denies(s))
    <3>1. /\ pos' = pos + 1 /\ stage' = stage /\ decision' = decision
          /\ escalate' = IF matches(s) /\ s.effect = "escalate" /\ escalate = 0 THEN pos ELSE escalate
          /\ allow' = IF matches(s) /\ s.effect = "allow" /\ allow = 0 THEN pos ELSE allow
          /\ identity' = identity /\ boundary' = boundary /\ risk' = risk /\ taint' = taint /\ prov' = prov
        BY <2>4, Zenon DEF EvalStatement, question
    <3>2. TypeOK'
        BY <3>1 DEF PolicyInv, TypeOK
    <3>3. Stmts' = Stmts
        BY <3>1, Zenon DEF Stmts
    <3>4. pos \in Nat /\ pos /= 0
        BY Zenon DEF PolicyInv, TypeOK
    <3>5. \A e : Before(Stmts, pos + 1, e) <=> Before(Stmts, pos, e) \/ (matches(s) /\ s.effect = e)
        BY <2>1, <1>BeforeNext, Zenon
    <3>6. (escalate' /= 0) <=> Before(Stmts, pos + 1, "escalate")
        BY <2>2, <3>1, <3>4, <3>5, Zenon DEF LoopInv
    <3>7. (allow' /= 0) <=> Before(Stmts, pos + 1, "allow")
        BY <2>2, <3>1, <3>4, <3>5, Zenon DEF LoopInv
    <3>8. ~Before(Stmts, pos + 1, "deny")
        BY <2>2, <2>4, <3>5, Zenon DEF LoopInv, Denies
    <3>9. LoopInv'
      <4>1. pos' <= Len(Stmts') + 1
          BY <2>1, <3>1, <3>3, <3>4
      <4>2. \A e : Before(Stmts, pos, e)' <=> Before(Stmts, pos + 1, e)
          BY <3>1, <3>3, Zenon DEF Before
      <4> QED BY <4>1, <4>2, <3>6, <3>7, <3>8, Zenon DEF LoopInv
    <3>10. /\ Verdict(identity)' = Verdict(identity) /\ TaintVerdict' = TaintVerdict
        BY <3>1, Zenon DEF Verdict, Has, Risky, TaintVerdict, Violated, Unlabeled, AllLabels
    <3>11. AfterTaint(Verdict(identity))' = AfterTaint(Verdict(identity))
        BY <3>10, Zenon DEF AfterTaint
    <3>12. RiskInv'
        BY <3>1, Zenon DEF PolicyInv, RiskInv, Strongest
    <3> QED BY <2>1, <3>1, <3>2, <3>9, <3>10, <3>11, <3>12, Zenon DEF PolicyInv, StageInv, Loop
  <2> QED BY <2>3, <2>4, Zenon
(* The end of the loop.                                                    *)
<1>EndLoopKeeps. ASSUME PolicyInv, EndLoop PROVE PolicyInv'
  <2> USE <1>EndLoopKeeps
  <2>1. /\ Loop /\ UNCHANGED question /\ Stmts \in Seq(Statements) /\ pos \in Nat /\ pos > Len(Stmts)
        /\ pos' = 1 /\ escalate' = 0 /\ allow' = 0 /\ risk \subseteq Tiers
      BY Zenon DEF EndLoop, PolicyInv, TypeOK, Stmts
  <2>2. \A e : Before(Stmts, pos, e) <=> Has(Stmts, e)
      BY <2>1, <1>BeforeAll, Zenon
  <2>3. /\ ~Has(Stmts, "deny") /\ (escalate /= 0 <=> Has(Stmts, "escalate"))
        /\ (allow /= 0 <=> Has(Stmts, "allow"))
      BY <2>1, <2>2, Zenon DEF PolicyInv, StageInv, LoopInv
  <2>4. (\E r \in Requirements : Classify(r)) <=> Risky
      BY <2>1, <1>ClassifyFinds, Zenon
  <2>6. CASE escalate /= 0
    <3>1. Verdict(Stmts) = "escalate"
        BY <2>3, <2>6, Zenon DEF Verdict
    <3>2. After(Decision("escalate", "approval_required", "approval"))
        BY <2>6, Zenon DEF EndLoop
    <3> DEFINE d == Decision("escalate", "approval_required", "approval")
    <3>3. d \in Decisions /\ d.effect = "escalate" /\ d.code = "approval_required"
        BY Zenon DEF Decision, Decisions, Effects, Codes, Requirements
    <3> HIDE DEF d
    <3> QED BY <2>1, <3>1, <3>2, <3>3, <1>AfterKeeps, Zenon DEF d
  <2>7. CASE escalate = 0 /\ allow /= 0 /\ Risky
    <3>1. Verdict(Stmts) = "escalate"
        BY <2>3, <2>7, Zenon DEF Verdict
    <3>2. PICK r \in Requirements : Classify(r) /\ After(Decision("escalate", "risk_escalation", r))
        BY <2>4, <2>7, Zenon DEF EndLoop
    <3>3. Strongest(r)
        BY <3>2, Zenon DEF Classify, Strongest
    <3> DEFINE d == Decision("escalate", "risk_escalation", r)
    <3>4. d \in Decisions /\ d.effect = "escalate" /\ d.require = r
        BY Zenon DEF Decision, Decisions, Effects, Codes, Requirements
    <3> HIDE DEF d
    <3> QED BY <2>1, <3>1, <3>2, <3>3, <3>4, <1>AfterKeeps, Zenon DEF d
  <2>8. CASE escalate = 0 /\ allow /= 0 /\ ~Risky
    <3>1. Verdict(Stmts) = "allow"
        BY <2>3, <2>8, Zenon DEF Verdict
    <3>2. After(Decision("allow", "allowed", "none"))
        BY <2>4, <2>8, Zenon DEF EndLoop
    <3> DEFINE d == Decision("allow", "allowed", "none")
    <3>3. d \in Decisions /\ d.effect = "allow" /\ d.code = "allowed"
        BY Zenon DEF Decision, Decisions, Effects, Codes, Requirements
    <3> HIDE DEF d
    <3> QED BY <2>1, <3>1, <3>2, <3>3, <1>AfterKeeps, Zenon DEF d
  <2>9. CASE escalate = 0 /\ allow = 0
    <3>1. Verdict(Stmts) = "none"
        BY <2>3, <2>9, Zenon DEF Verdict
    <3>2. After(Decision("none", defaultDenyCode(Stmts), "none"))
        BY <2>9, Zenon DEF EndLoop
    <3>3. defaultDenyCode(Stmts) \in Codes /\ defaultDenyCode(Stmts) /= "risk_escalation"
        BY <1>DenyCodeType, Zenon
    <3> DEFINE d == Decision("none", defaultDenyCode(Stmts), "none")
    <3>4. d \in Decisions /\ d.effect = "none" /\ d.code = defaultDenyCode(Stmts)
        BY <3>3, Zenon DEF Decision, Decisions, Effects, Requirements
    <3> HIDE DEF d
    <3> QED BY <2>1, <3>1, <3>2, <3>3, <3>4, <1>AfterKeeps, Zenon DEF d
  <2> QED BY <2>6, <2>7, <2>8, <2>9, Zenon
(* The taint rules.                                                        *)
<1>ApplyTaintKeeps. ASSUME PolicyInv, ApplyTaint PROVE PolicyInv'
  <2> USE <1>ApplyTaintKeeps
  <2>1. /\ stage = "taint" /\ decision \in Decisions /\ decision.effect = Verdict(identity)
        /\ decision' = Tainted(decision) /\ pos' = pos /\ escalate' = escalate /\ allow' = allow
        /\ stage' = IF Tainted(decision).effect = "allow" /\ boundary /= <<>> THEN "boundary" ELSE "done"
        /\ identity' = identity /\ boundary' = boundary /\ risk' = risk /\ taint' = taint /\ prov' = prov
      BY Zenon DEF PolicyInv, TypeOK, StageInv, ApplyTaint, question
  <2>2. /\ decision' \in Decisions
        /\ decision'.effect = AfterTaint(Verdict(identity))
        /\ decision'.code = "risk_escalation" => decision' = decision
      BY <2>1, <1>TaintedEffect, Zenon
  <2>3. /\ Verdict(identity)' = Verdict(identity) /\ Verdict(boundary)' = Verdict(boundary)
        /\ TaintVerdict' = TaintVerdict
      BY <2>1, Zenon DEF Verdict, Has, Risky, TaintVerdict, Violated, Unlabeled, AllLabels
  <2>4. TypeOK'
      BY <2>1, <2>2, Zenon DEF PolicyInv, TypeOK
  <2>5. RiskInv'
      BY <2>1, <2>2, Zenon DEF PolicyInv, RiskInv, Strongest
  <2>6. CASE stage' = "boundary"
    <3>1. decision'.effect = "allow" /\ boundary' /= <<>> /\ AfterTaint(Verdict(identity))' = "allow"
        BY <2>1, <2>2, <2>3, <2>6, Zenon DEF AfterTaint
    <3>2. LoopInv'
      <4>1. pos' = 1 /\ escalate' = 0 /\ allow' = 0 /\ (Stmts \in Seq(Statements))'
          BY <2>1, <2>4, Zenon DEF PolicyInv, StageInv, TypeOK, Stmts
      <4>2. \A e : ~Before(Stmts', 1, e)
          BY <4>1, <1>BeforeNone, Zenon
      <4> QED BY <4>1, <4>2 DEF LoopInv
    <3> QED BY <2>4, <2>5, <2>6, <3>1, <3>2, Zenon DEF PolicyInv, StageInv
  <2>7. CASE stage' = "done"
    <3>1. Outcome' = AfterTaint(Verdict(identity))
        BY <2>1, <2>2, <2>3, <2>7, Zenon DEF Outcome, AfterTaint
    <3> QED BY <2>2, <2>4, <2>5, <2>7, <3>1, Zenon DEF PolicyInv, StageInv, Loop
  <2> QED BY <2>1, <2>6, <2>7, Zenon
(* IInv is an invariant of the evaluation.                                 *)
<1>PolicyNext. ASSUME PolicyInv, [Next]_policyVars PROVE PolicyInv'
  <2> USE <1>PolicyNext
  <2>1. CASE UNCHANGED policyVars
    <3>1. /\ identity' = identity /\ boundary' = boundary /\ risk' = risk /\ taint' = taint /\ prov' = prov
          /\ stage' = stage /\ pos' = pos /\ escalate' = escalate /\ allow' = allow /\ decision' = decision
        BY <2>1, Zenon DEF policyVars
    <3>2. Stmts' = Stmts /\ TypeOK' /\ RiskInv'
        BY <3>1, Zenon DEF Stmts, PolicyInv, TypeOK, RiskInv, Strongest
    <3>3. /\ Verdict(identity)' = Verdict(identity) /\ Verdict(boundary)' = Verdict(boundary)
          /\ TaintVerdict' = TaintVerdict
        BY <3>1, Zenon DEF Verdict, Has, Risky, TaintVerdict, Violated, Unlabeled, AllLabels
    <3>4. AfterTaint(Verdict(identity))' = AfterTaint(Verdict(identity)) /\ Outcome' = Outcome
        BY <3>1, <3>3, Zenon DEF AfterTaint, Outcome
    <3>5. LoopInv <=> LoopInv'
        BY <3>1, <3>2, Zenon DEF LoopInv, Before
    <3> QED BY <3>1, <3>2, <3>3, <3>4, <3>5, Zenon DEF PolicyInv, StageInv, Loop
  <2> QED BY <2>1, <1>EvalStatementKeeps, <1>EndLoopKeeps, <1>ApplyTaintKeeps, Zenon DEF Next
<1> QED BY <1>PolicyInit, <1>PolicyNext, PTL DEF Spec

(* Every variable keeps its type, for every policy, tier and taint rule.   *)
THEOREM PolicyTypes ==
    ASSUME QuestionAssumption
    PROVE  Spec => []TypeOK
<1>1. PolicyInv => TypeOK
    BY Zenon DEF PolicyInv
<1> QED BY <1>1, PolicyHolds, PTL

(* evaluate, applyRisk, applyTaint and EvaluateWithBoundary together: the  *)
(* effect does not depend on the order of the statements, whatever their   *)
(* number.                                                                 *)
THEOREM EvaluationIsOrderFree ==
    ASSUME QuestionAssumption
    PROVE  Spec => []OrderDoesNotMatter
<1>1. PolicyInv => OrderDoesNotMatter
    BY Zenon DEF PolicyInv, StageInv, OrderDoesNotMatter
<1> QED BY <1>1, PolicyHolds, PTL

(* applyRisk: an escalation that is due to risk asks for what the          *)
(* strongest matching tier requires, whatever taint and boundary do after. *)
THEOREM EscalationAsksForStrongest ==
    ASSUME QuestionAssumption
    PROVE  Spec => []EscalationIsStrongest
<1>1. PolicyInv => EscalationIsStrongest
    BY Zenon DEF PolicyInv, RiskInv, Strongest, EscalationIsStrongest
<1> QED BY <1>1, PolicyHolds, PTL

(* What comes later never loosens what came before: an allowed request is  *)
(* allowed by the identity's policies and the boundary, escalated by no    *)
(* statement and no risk tier, and violates no taint rule.                 *)
THEOREM AllowNeedsEveryone ==
    ASSUME QuestionAssumption
    PROVE  Spec => []AllowedIsUnanimous
<1>1. PolicyInv => AllowedIsUnanimous
  <2> SUFFICES ASSUME PolicyInv, stage = "done", decision.effect = "allow"
               PROVE  /\ \A stmts \in {identity} \union (IF boundary = <<>> THEN {} ELSE {boundary}) :
                            Has(stmts, "allow") /\ ~Has(stmts, "deny") /\ ~Has(stmts, "escalate")
                      /\ ~Risky /\ TaintVerdict = "clean"
      BY Zenon DEF AllowedIsUnanimous
  <2>1. Outcome = "allow"
      BY Zenon DEF PolicyInv, StageInv
  <2>2. \A stmts : Verdict(stmts) = "allow" =>
            Has(stmts, "allow") /\ ~Has(stmts, "deny") /\ ~Has(stmts, "escalate") /\ ~Risky
      BY Zenon DEF Verdict
  <2>3. AfterTaint(Verdict(identity)) = "allow" /\ (boundary /= <<>> => Verdict(boundary) = "allow")
      BY <2>1, Zenon DEF Outcome, AfterTaint
  <2>4. TaintVerdict \in {"deny", "escalate", "clean"}
      BY Zenon DEF TaintVerdict
  <2>5. Verdict(identity) = "allow" /\ TaintVerdict = "clean"
      BY <2>3, <2>4, Zenon DEF AfterTaint
  <2> QED BY <2>2, <2>3, <2>5, Zenon
<1> QED BY <1>1, PolicyHolds, PTL

-----------------------------------------------------------------------------
(* The tool guard's approvals (ToolGuard). A call may spend an approval    *)
(* only while nothing was spent of it.                                     *)

CONSTANTS Runs, Admins, Contents, TTL, MaxOpen
VARIABLES hooked, approvals, guard, deciding, spent, decided
T == INSTANCE ToolGuard

GuardConstants == TTL \in Nat /\ MaxOpen \in Nat

Approval == [what : Contents, approved : BOOLEAN, denied : BOOLEAN, consumed : BOOLEAN, left : 0..TTL]

(* A call knows approvals by their ids, and one that is to be spent exists.*)
RunOK(g) ==
    /\ g \in [pc : {"idle", "hook", "spend", "open"}, what : Contents \cup {""},
              id : 0..Len(approvals), need : T!Requirements]
    /\ g.pc /= "idle" => g.what \in Contents
    /\ g.pc = "spend" => g.id /= 0

AdminOK(d) ==
    /\ d \in [pc : {"idle", "write"}, id : 0..Len(approvals), approve : BOOLEAN]
    /\ d.pc = "write" => d.id /= 0

GuardTypes ==
    /\ hooked \in BOOLEAN
    /\ approvals \in Seq(Approval) /\ Len(approvals) <= MaxOpen
    /\ spent \in Seq(Seq(Contents)) /\ Len(spent) = Len(approvals)
    /\ decided \in Seq(Nat) /\ Len(decided) = Len(approvals)
    /\ DOMAIN guard = Runs /\ \A r \in Runs : RunOK(guard[r])
    /\ DOMAIN deciding = Admins /\ \A a \in Admins : AdminOK(deciding[a])

GuardInv == GuardTypes /\ T!ApprovalRunsOnce /\ T!OneDecision

(* Whatever calls, approvers, hooks and expiries interleave, an approval   *)
(* request is decided at most once, and an approval runs at most one call, *)
(* with the content that was approved.                                     *)
THEOREM ApprovalRunsOneCall ==
    ASSUME GuardConstants
    PROVE  T!Spec => []T!ApprovalSpentOnce
<1>GuardInit. GuardConstants /\ T!Init => GuardInv
  <2> SUFFICES ASSUME GuardConstants, T!Init PROVE GuardInv
      BY Zenon
  <2>1. approvals = <<>> /\ spent = <<>> /\ decided = <<>> /\ hooked \in BOOLEAN
      BY Zenon DEF T!Init
  <2>2. /\ DOMAIN guard = Runs /\ \A r \in Runs : guard[r] = T!IdleRun
        /\ DOMAIN deciding = Admins /\ \A a \in Admins : deciding[a] = T!IdleAdmin
      BY Zenon DEF T!Init
  <2>3. RunOK(T!IdleRun) /\ AdminOK(T!IdleAdmin)
      BY <2>1 DEF RunOK, AdminOK, T!IdleRun, T!IdleAdmin, T!Requirements
  <2>4. GuardTypes
      BY <2>1, <2>2, <2>3 DEF GuardTypes, GuardConstants
  <2> QED BY <2>1, <2>4 DEF GuardInv, T!ApprovalRunsOnce, T!OneDecision
(* A step that only moves one call along.                                  *)
<1>GuardMoves. ASSUME GuardInv, NEW r \in Runs, NEW g, RunOK(g), guard' = [guard EXCEPT ![r] = g],
                      UNCHANGED <<hooked, approvals, deciding, spent, decided>>
               PROVE  GuardInv'
  <2> USE <1>GuardMoves
  <2>1. \A s \in Runs : RunOK(guard'[s])
      BY Zenon DEF GuardInv, GuardTypes
  <2>2. (\A s \in Runs : RunOK(guard[s]))' /\ (\A a \in Admins : AdminOK(deciding[a]))'
      BY <2>1, Zenon DEF GuardInv, GuardTypes, RunOK, AdminOK
  <2>3. GuardTypes'
      BY <2>2, Zenon DEF GuardInv, GuardTypes
  <2> QED BY <2>3, Zenon DEF GuardInv, T!ApprovalRunsOnce, T!OneDecision
<1>IdleRunOK. ASSUME GuardInv PROVE RunOK(T!IdleRun)
  <2> USE <1>IdleRunOK
  <2>1. Len(approvals) \in Nat
      BY DEF GuardInv, GuardTypes
  <2> QED BY <2>1 DEF RunOK, T!IdleRun, T!Requirements
<1>RunProceeds. ASSUME GuardInv, NEW g, RunOK(g), g.pc = "hook" PROVE RunOK(T!Proceeds(g))
  <2> USE <1>RunProceeds
  <2>1. CASE g.need = "none"
      BY <2>1, <1>IdleRunOK, Zenon DEF T!Proceeds
  <2>2. CASE g.need /= "none"
      BY <2>2, Zenon DEF RunOK, T!Proceeds, T!Requirements
  <2> QED BY <2>1, <2>2, Zenon
<1>EvaluateKeeps. ASSUME GuardInv, NEW r \in Runs, NEW what \in Contents, NEW id \in {0} \cup DOMAIN approvals,
                         NEW need \in T!Requirements, T!Evaluate(r, what, id, need)
                  PROVE  GuardInv'
  <2> USE <1>EvaluateKeeps
  <2> DEFINE g == [pc |-> "hook", what |-> what, id |-> id, need |-> need]
  <2>1. id \in 0..Len(approvals)
      BY DEF GuardInv, GuardTypes
  <2>2. RunOK(g)
      BY <2>1, Zenon DEF RunOK
  <2>3. RunOK(T!Proceeds(g))
      BY <2>2, <1>RunProceeds, Zenon
  <2>4. guard' = [guard EXCEPT ![r] = IF hooked THEN g ELSE T!Proceeds(g)]
        /\ UNCHANGED <<hooked, approvals, deciding, spent, decided>>
      BY Zenon DEF T!Evaluate
  <2> QED BY <2>2, <2>3, <2>4, <1>GuardMoves, Zenon
<1>HookKeeps. ASSUME GuardInv, NEW r \in Runs, T!HookAllows(r) \/ T!HookEscalates(r) \/ T!HookDenies(r) \/ T!OpenFails(r)
              PROVE  GuardInv'
  <2> USE <1>HookKeeps
  <2>0. RunOK(guard[r]) /\ UNCHANGED <<hooked, approvals, deciding, spent, decided>>
      BY Zenon DEF T!HookAllows, T!HookEscalates, T!HookDenies, T!OpenFails, GuardInv, GuardTypes
  <2>1. CASE T!HookAllows(r)
    <3>1. guard' = [guard EXCEPT ![r] = T!Proceeds(guard[r])] /\ guard[r].pc = "hook"
        BY <2>1, Zenon DEF T!HookAllows, GuardInv, GuardTypes
    <3> QED BY <2>0, <3>1, <1>RunProceeds, <1>GuardMoves, Zenon
  <2>2. CASE T!HookEscalates(r)
    <3> DEFINE g == T!Escalated(guard[r])
    <3>1. guard' = [guard EXCEPT ![r] = T!Proceeds(g)] /\ guard[r].pc = "hook"
        BY <2>2, Zenon DEF T!HookEscalates
    <3>2. RunOK(g) /\ g.pc = "hook"
        BY <2>0, <3>1, Zenon DEF T!Escalated, RunOK, T!Requirements
    <3> QED BY <2>0, <3>1, <3>2, <1>RunProceeds, <1>GuardMoves, Zenon
  <2>3. CASE T!HookDenies(r) \/ T!OpenFails(r)
      BY <2>0, <2>3, <1>IdleRunOK, <1>GuardMoves, Zenon DEF T!HookDenies, T!OpenFails
  <2> QED BY <2>1, <2>2, <2>3, Zenon
(* What a row of the store may become without a new one being opened.      *)
<1>RowsKept. ASSUME GuardInv, approvals' \in Seq(Approval), Len(approvals') = Len(approvals),
                    spent' \in Seq(Seq(Contents)), Len(spent') = Len(spent),
                    decided' \in Seq(Nat), Len(decided') = Len(decided), hooked' = hooked,
                    DOMAIN guard' = Runs, \A r \in Runs : RunOK(guard'[r]),
                    DOMAIN deciding' = Admins, \A a \in Admins : AdminOK(deciding'[a])
             PROVE  GuardTypes'
  <2> USE <1>RowsKept
  <2>1. (\A s \in Runs : RunOK(guard[s]))' /\ (\A a \in Admins : AdminOK(deciding[a]))'
      BY Zenon DEF RunOK, AdminOK
  <2> QED BY <2>1, Zenon DEF GuardInv, GuardTypes
<1>ConsumeKeeps. ASSUME GuardInv, NEW r \in Runs, T!ConsumeToolApproval(r)
                 PROVE  GuardInv'
  <2> USE <1>ConsumeKeeps
  <2> DEFINE i == guard[r].id
             what == guard[r].what
  <2>0. guard[r].pc = "spend" /\ RunOK(guard[r]) /\ i \in 1..Len(approvals) /\ what \in Contents
    <3>1. guard[r].pc = "spend" /\ RunOK(guard[r]) /\ Len(approvals) \in Nat
        BY DEF T!ConsumeToolApproval, GuardInv, GuardTypes
    <3>2. guard[r].id \in 0..Len(approvals) /\ guard[r].id /= 0 /\ guard[r].what \in Contents
        BY <3>1, Zenon DEF RunOK
    <3> QED BY <3>1, <3>2
  <2>1. CASE ~T!Consumable(approvals[i], what)
    <3>1. guard' = [guard EXCEPT ![r] = [guard[r] EXCEPT !.pc = "open"]]
          /\ UNCHANGED <<hooked, approvals, deciding, spent, decided>>
        BY <2>1, Zenon DEF T!ConsumeToolApproval, GuardInv, GuardTypes
    <3>2. RunOK([guard[r] EXCEPT !.pc = "open"])
        BY <2>0, Zenon DEF RunOK
    <3> QED BY <3>1, <3>2, <1>GuardMoves, Zenon
  <2>2. CASE T!Consumable(approvals[i], what)
    <3>1. /\ approvals' = [approvals EXCEPT ![i] = [approvals[i] EXCEPT !.consumed = TRUE]]
          /\ spent' = [spent EXCEPT ![i] = Append(spent[i], what)]
          /\ guard' = [guard EXCEPT ![r] = T!IdleRun]
          /\ UNCHANGED <<hooked, deciding, decided>>
        BY <2>0, <2>2, Zenon DEF T!ConsumeToolApproval, GuardInv, GuardTypes
    <3>2. /\ approvals[i].approved /\ ~approvals[i].denied /\ ~approvals[i].consumed /\ approvals[i].what = what
          /\ approvals[i] \in Approval
        BY <2>0, <2>2 DEF T!Consumable, T!toolApprovalLive, GuardInv, GuardTypes
    <3>3. spent[i] = <<>>
        BY <2>0, <3>2 DEF GuardInv, T!ApprovalRunsOnce, GuardTypes
    <3>a. /\ approvals \in Seq(Approval) /\ spent \in Seq(Seq(Contents)) /\ Len(spent) = Len(approvals)
          /\ Append(<<>>, what) = <<what>> /\ <<what>> \in Seq(Contents)
        BY <2>0 DEF GuardInv, GuardTypes
    <3> HIDE DEF i, what
    <3>b. spent' = [spent EXCEPT ![i] = <<what>>]
        BY <3>1, <3>3, <3>a, Zenon
    <3>4. spent'[i] = <<what>> /\ \A j \in 1..Len(approvals) : j /= i => spent'[j] = spent[j]
        BY <2>0, <3>a, <3>b
    <3>5. approvals' \in Seq(Approval) /\ Len(approvals') = Len(approvals)
          /\ spent' \in Seq(Seq(Contents)) /\ Len(spent') = Len(spent)
      <4>1. [approvals[i] EXCEPT !.consumed = TRUE] \in Approval
          BY <3>2, Zenon DEF Approval
      <4>2. approvals' \in Seq(Approval) /\ Len(approvals') = Len(approvals)
          BY <2>0, <3>1, <3>a, <4>1
      <4> QED BY <2>0, <3>a, <3>b, <4>2
    <3>6. DOMAIN guard' = Runs /\ \A s \in Runs : RunOK(guard'[s])
        BY <3>1, <1>IdleRunOK, Zenon DEF GuardInv, GuardTypes
    <3>7. GuardTypes'
        BY <3>1, <3>5, <3>6, <1>RowsKept, Zenon DEF GuardInv, GuardTypes
    <3>8. /\ approvals'[i].consumed /\ approvals'[i].what = what /\ approvals'[i].approved /\ ~approvals'[i].denied
          /\ \A j \in 1..Len(approvals) : j /= i => approvals'[j] = approvals[j]
        BY <2>0, <3>1, <3>2 DEF GuardInv, GuardTypes, Approval
    <3>c. DOMAIN approvals' = 1..Len(approvals) /\ DOMAIN approvals = 1..Len(approvals)
        BY <3>5, <3>a
    <3>9. T!ApprovalRunsOnce'
        BY <3>4, <3>8, <3>c, Zenon DEF GuardInv, T!ApprovalRunsOnce
    <3>10. T!OneDecision'
        BY <3>1, <3>2, <3>8, <3>c, Zenon DEF GuardInv, T!OneDecision
    <3> QED BY <3>7, <3>9, <3>10, Zenon DEF GuardInv
  <2> QED BY <2>1, <2>2, Zenon
<1>OpenKeeps. ASSUME GuardInv, NEW r \in Runs, T!OpenToolApproval(r)
              PROVE  GuardInv'
  <2> USE <1>OpenKeeps
  <2> DEFINE new == T!Opened(guard[r].what)
             n == Len(approvals)
  <2>0. /\ guard[r].pc = "open" /\ RunOK(guard[r]) /\ n < MaxOpen
        /\ approvals' = Append(approvals, new) /\ spent' = Append(spent, <<>>) /\ decided' = Append(decided, 0)
        /\ guard' = [guard EXCEPT ![r] = T!IdleRun] /\ hooked' = hooked /\ deciding' = deciding
      BY Zenon DEF T!OpenToolApproval, GuardInv, GuardTypes
  <2>1. new \in Approval /\ ~new.consumed /\ ~new.approved /\ ~new.denied
    <3>1. guard[r].what \in Contents
        BY <2>0, Zenon DEF RunOK
    <3> QED BY <3>1 DEF T!Opened, Approval, GuardConstants
  <2> HIDE DEF new
  <2>2. /\ approvals \in Seq(Approval) /\ spent \in Seq(Seq(Contents)) /\ decided \in Seq(Nat)
        /\ n \in Nat /\ Len(spent) = n /\ Len(decided) = n /\ DOMAIN approvals = 1..n
      BY DEF GuardInv, GuardTypes
  <2>3. /\ approvals' \in Seq(Approval) /\ Len(approvals') = n + 1
        /\ approvals'[n + 1] = new /\ \A j \in 1..n : approvals'[j] = approvals[j]
      BY <2>0, <2>1, <2>2
  <2>4. /\ spent' \in Seq(Seq(Contents)) /\ Len(spent') = n + 1
        /\ spent'[n + 1] = <<>> /\ \A j \in 1..n : spent'[j] = spent[j]
      BY <2>0, <2>2
  <2>5. /\ decided' \in Seq(Nat) /\ Len(decided') = n + 1
        /\ decided'[n + 1] = 0 /\ \A j \in 1..n : decided'[j] = decided[j]
      BY <2>0, <2>2
  <2>6. DOMAIN approvals' = 1..(n + 1) /\ \A j \in 1..(n + 1) : j = n + 1 \/ j \in 1..n
      BY <2>2, <2>3
  <2>7. GuardTypes'
    <3>1. \A s \in Runs : RunOK(guard'[s])
        BY <2>0, <1>IdleRunOK, Zenon DEF GuardInv, GuardTypes
    <3>2. \A k \in 0..n : k \in 0..Len(approvals')
        BY <2>2, <2>3
    <3>3. (\A s \in Runs : RunOK(guard[s]))'
        BY <3>1, <3>2, Zenon DEF RunOK
    <3>4. (\A a \in Admins : AdminOK(deciding[a]))'
        BY <2>0, <3>2, Zenon DEF GuardInv, GuardTypes, AdminOK
    <3>5. Len(approvals') <= MaxOpen
        BY <2>0, <2>2, <2>3 DEF GuardConstants
    <3>6. DOMAIN guard' = Runs /\ DOMAIN deciding' = Admins /\ hooked' \in BOOLEAN
        BY <2>0, Zenon DEF GuardInv, GuardTypes
    <3> QED BY <2>3, <2>4, <2>5, <3>3, <3>4, <3>5, <3>6, Zenon DEF GuardTypes
  <2>8. T!ApprovalRunsOnce'
      BY <2>1, <2>2, <2>3, <2>4, <2>6, Zenon DEF GuardInv, T!ApprovalRunsOnce
  <2>9. T!OneDecision'
      BY <2>1, <2>2, <2>3, <2>5, <2>6, Zenon DEF GuardInv, T!OneDecision
  <2> QED BY <2>7, <2>8, <2>9, Zenon DEF GuardInv
(* A decision is recorded on a row that has none and is still live.        *)
<1>DecisionKeeps. ASSUME GuardInv, NEW i \in 1..Len(approvals), T!Decidable(approvals[i]),
                         NEW new \in Approval, ~new.consumed, new.approved \/ new.denied,
                         approvals' = [approvals EXCEPT ![i] = new], decided' = [decided EXCEPT ![i] = decided[i] + 1],
                         DOMAIN deciding' = Admins, \A a \in Admins : AdminOK(deciding'[a]),
                         UNCHANGED <<hooked, guard, spent>>
                  PROVE  GuardInv'
  <2> USE <1>DecisionKeeps
  <2>1. /\ approvals \in Seq(Approval) /\ decided \in Seq(Nat) /\ Len(decided) = Len(approvals)
        /\ DOMAIN approvals = 1..Len(approvals)
      BY DEF GuardInv, GuardTypes
  <2>2. ~approvals[i].approved /\ ~approvals[i].denied /\ ~approvals[i].consumed
      BY Zenon DEF T!Decidable, T!toolApprovalLive
  <2>3. decided[i] = 0
      BY <2>1, <2>2, Zenon DEF GuardInv, T!OneDecision
  <2>5. /\ approvals' \in Seq(Approval) /\ Len(approvals') = Len(approvals) /\ DOMAIN approvals' = 1..Len(approvals)
        /\ approvals'[i] = new /\ \A j \in 1..Len(approvals) : j /= i => approvals'[j] = approvals[j]
      BY <2>1
  <2>6. /\ decided' \in Seq(Nat) /\ Len(decided') = Len(decided)
        /\ decided'[i] = 1 /\ \A j \in 1..Len(approvals) : j /= i => decided'[j] = decided[j]
      BY <2>1, <2>3
  <2>7. GuardTypes'
      BY <2>5, <2>6, <1>RowsKept, Zenon DEF GuardInv, GuardTypes
  <2>8. T!ApprovalRunsOnce'
      BY <2>1, <2>2, <2>5, Zenon DEF GuardInv, T!ApprovalRunsOnce
  <2>9. T!OneDecision'
    <3> SUFFICES ASSUME NEW j \in 1..Len(approvals)
                 PROVE  decided'[j] = IF approvals'[j].approved \/ approvals'[j].denied THEN 1 ELSE 0
        BY <2>5, Zenon DEF T!OneDecision
    <3>1. CASE j = i
        BY <2>5, <2>6, <3>1, Zenon
    <3>2. CASE j /= i
        BY <2>1, <2>5, <2>6, <3>2, Zenon DEF GuardInv, T!OneDecision
    <3> QED BY <3>1, <3>2, Zenon
  <2> QED BY <2>7, <2>8, <2>9, Zenon DEF GuardInv
<1>DecideReadKeeps. ASSUME GuardInv, NEW a \in Admins, NEW i \in DOMAIN approvals, NEW yes \in BOOLEAN, T!DecideRead(a, i, yes)
                    PROVE  GuardInv'
  <2> USE <1>DecideReadKeeps
  <2>1. deciding' = [deciding EXCEPT ![a] = [pc |-> "write", id |-> i, approve |-> yes]]
        /\ UNCHANGED <<hooked, approvals, guard, spent, decided>>
      BY Zenon DEF T!DecideRead
  <2>2. i \in 1..Len(approvals) /\ Len(approvals) \in Nat
      BY DEF GuardInv, GuardTypes
  <2>3. AdminOK([pc |-> "write", id |-> i, approve |-> yes])
      BY <2>2 DEF AdminOK
  <2>4. DOMAIN deciding' = Admins /\ \A b \in Admins : AdminOK(deciding'[b])
      BY <2>1, <2>3, Zenon DEF GuardInv, GuardTypes
  <2>5. GuardTypes'
      BY <2>1, <2>4, <1>RowsKept, Zenon DEF GuardInv, GuardTypes
  <2> QED BY <2>1, <2>5, Zenon DEF GuardInv, T!ApprovalRunsOnce, T!OneDecision
<1>DecideWriteKeeps. ASSUME GuardInv, NEW a \in Admins, T!DecideWrite(a)
                     PROVE  GuardInv'
  <2> USE <1>DecideWriteKeeps
  <2> DEFINE i == deciding[a].id
             yes == deciding[a].approve
  <2>1. deciding[a].pc = "write" /\ AdminOK(deciding[a]) /\ Len(approvals) \in Nat
        /\ deciding' = [deciding EXCEPT ![a] = T!IdleAdmin] /\ UNCHANGED <<hooked, guard, spent>>
      BY DEF T!DecideWrite, GuardInv, GuardTypes
  <2>2. i \in 1..Len(approvals) /\ yes \in BOOLEAN
      BY <2>1 DEF AdminOK
  <2>3. AdminOK(T!IdleAdmin)
      BY <2>1 DEF AdminOK, T!IdleAdmin
  <2>4. DOMAIN deciding' = Admins /\ \A b \in Admins : AdminOK(deciding'[b])
      BY <2>1, <2>3, Zenon DEF GuardInv, GuardTypes
  <2>5. CASE T!Decidable(approvals[i])
    <3>1. approvals' = [approvals EXCEPT ![i] = [approvals[i] EXCEPT !.approved = yes, !.denied = ~yes]]
          /\ decided' = [decided EXCEPT ![i] = decided[i] + 1]
        BY <2>2, <2>5, Zenon DEF T!DecideWrite, GuardInv, GuardTypes
    <3> DEFINE new == [approvals[i] EXCEPT !.approved = yes, !.denied = ~yes]
    <3>2. approvals[i] \in Approval /\ ~approvals[i].consumed
        BY <2>2, <2>5 DEF T!Decidable, T!toolApprovalLive, GuardInv, GuardTypes
    <3>3. new \in Approval /\ ~new.consumed /\ (new.approved \/ new.denied)
        BY <2>2, <3>2, Zenon DEF Approval
    <3> QED BY <2>1, <2>2, <2>4, <2>5, <3>1, <3>3, <1>DecisionKeeps, Zenon
  <2>6. CASE ~T!Decidable(approvals[i])
    <3>1. approvals' = approvals /\ decided' = decided
        BY <2>6, Zenon DEF T!DecideWrite
    <3>2. GuardTypes'
        BY <2>1, <2>4, <3>1, <1>RowsKept, Zenon DEF GuardInv, GuardTypes
    <3> QED BY <2>1, <3>1, <3>2, Zenon DEF GuardInv, T!ApprovalRunsOnce, T!OneDecision
  <2> QED BY <2>5, <2>6, Zenon
<1>ApproveKeeps. ASSUME GuardInv, NEW i \in DOMAIN approvals, T!Approve(i)
                 PROVE  GuardInv'
  <2> USE <1>ApproveKeeps
  <2>1. i \in 1..Len(approvals) /\ approvals[i] \in Approval
      BY DEF GuardInv, GuardTypes
  <2>2. /\ T!Decidable(approvals[i]) /\ approvals' = [approvals EXCEPT ![i] = [approvals[i] EXCEPT !.approved = TRUE]]
        /\ decided' = [decided EXCEPT ![i] = decided[i] + 1] /\ UNCHANGED <<hooked, guard, deciding, spent>>
      BY Zenon DEF T!Approve, GuardInv, GuardTypes
  <2>3. LET new == [approvals[i] EXCEPT !.approved = TRUE]
        IN  new \in Approval /\ ~new.consumed /\ new.approved
      BY <2>1, <2>2, Zenon DEF T!Decidable, T!toolApprovalLive, Approval
  <2>4. DOMAIN deciding' = Admins /\ \A a \in Admins : AdminOK(deciding'[a])
      BY <2>2, Zenon DEF GuardInv, GuardTypes
  <2> QED BY <2>1, <2>2, <2>3, <2>4, <1>DecisionKeeps, Zenon
<1>GuardTickKeeps. ASSUME GuardInv, T!Tick PROVE GuardInv'
  <2> USE <1>GuardTickKeeps
  <2>1. /\ approvals' = [i \in DOMAIN approvals |-> [approvals[i] EXCEPT !.left = IF @ > 0 THEN @ - 1 ELSE 0]]
        /\ UNCHANGED <<hooked, guard, deciding, spent, decided>>
      BY Zenon DEF T!Tick
  <2>2. approvals \in Seq(Approval) /\ DOMAIN approvals = 1..Len(approvals) /\ Len(approvals) \in Nat
      BY DEF GuardInv, GuardTypes
  <2>3. \A i \in 1..Len(approvals) : /\ approvals'[i] \in Approval
                                     /\ approvals'[i].what = approvals[i].what
                                     /\ approvals'[i].approved = approvals[i].approved
                                     /\ approvals'[i].denied = approvals[i].denied
                                     /\ approvals'[i].consumed = approvals[i].consumed
    <3> SUFFICES ASSUME NEW i \in 1..Len(approvals)
                 PROVE  /\ approvals'[i] \in Approval
                        /\ approvals'[i].what = approvals[i].what
                        /\ approvals'[i].approved = approvals[i].approved
                        /\ approvals'[i].denied = approvals[i].denied
                        /\ approvals'[i].consumed = approvals[i].consumed
        BY Zenon
    <3>0. approvals[i] \in Approval
        BY <2>2
    <3>1. approvals[i].left \in 0..TTL
        BY <3>0, Zenon DEF Approval
    <3>2. approvals'[i] = [approvals[i] EXCEPT !.left = IF approvals[i].left > 0 THEN approvals[i].left - 1 ELSE 0]
        BY <2>1, <2>2, Zenon
    <3>3. (IF approvals[i].left > 0 THEN approvals[i].left - 1 ELSE 0) \in 0..TTL
        BY <3>1 DEF GuardConstants
    <3> QED BY <3>0, <3>2, <3>3, Zenon DEF Approval
  <2>4. approvals' \in Seq(Approval) /\ Len(approvals') = Len(approvals) /\ DOMAIN approvals' = 1..Len(approvals)
      BY <2>1, <2>2, <2>3
  <2>5. GuardTypes'
      BY <2>1, <2>4, <1>RowsKept, Zenon DEF GuardInv, GuardTypes
  <2> QED BY <2>1, <2>2, <2>3, <2>4, <2>5 DEF GuardInv, T!ApprovalRunsOnce, T!OneDecision
<1>1. T!Init => GuardInv
    BY <1>GuardInit, Zenon
<1>2. GuardInv /\ [T!Next]_T!guardVars => GuardInv'
  <2> SUFFICES ASSUME GuardInv, [T!Next]_T!guardVars PROVE GuardInv'
      BY Zenon
  <2>1. CASE UNCHANGED <<hooked, approvals, guard, deciding, spent, decided>>
      BY <2>1, Zenon DEF GuardInv, GuardTypes, RunOK, AdminOK, T!ApprovalRunsOnce, T!OneDecision
  <2> QED BY <2>1, <1>EvaluateKeeps, <1>HookKeeps, <1>ConsumeKeeps, <1>OpenKeeps, <1>DecideReadKeeps, <1>DecideWriteKeeps,
             <1>ApproveKeeps, <1>GuardTickKeeps, Zenon DEF T!Next, T!guardVars
<1>3. GuardInv => T!TypeOK /\ T!ApprovalRunsOnce /\ T!OneDecision
  <2> SUFFICES ASSUME GuardInv PROVE T!TypeOK
      BY Zenon DEF GuardInv
  <2>1. DOMAIN spent = DOMAIN approvals /\ DOMAIN decided = DOMAIN approvals
      BY DEF GuardInv, GuardTypes
  <2>2. \A i \in DOMAIN approvals : approvals[i] \in Approval
      BY DEF GuardInv, GuardTypes
  <2> QED BY <2>1, <2>2, Zenon DEF GuardInv, GuardTypes, RunOK, AdminOK, Approval, T!TypeOK
<1> QED BY <1>1, <1>2, <1>3, PTL DEF T!Spec, T!ApprovalSpentOnce
=============================================================================
