----------------------------- MODULE PolicyEval -----------------------------
(***************************************************************************)
(* Policy evaluation (policy/eval.go, risk.go, taint.go): the statements   *)
(* of the identity's policies in order, risk tiers, taint rules and the    *)
(* permission boundary, for one request.                                   *)
(*                                                                         *)
(* A statement is what it says of the request: its effect, whether it      *)
(* covers the action and resource ("unresolved": through a variable the    *)
(* request does not carry), and which of its conditions fail.  A risk tier *)
(* is whether it matches and what it requires.  Each step is one iteration *)
(* of the loop over the statements, or one of the stages after it.         *)
(***************************************************************************)
EXTENDS Integers, Sequences, FiniteSets

CONSTANTS Labels, Args,                  \* provenance labels, argument names
          IdentityPolicies, Boundaries,  \* the statement sequences to evaluate
          RiskSets,                      \* the sets of risk tiers
          TaintSets,                     \* the sets of taint rules
          Provenances                    \* the provenances of the call

VARIABLES identity, boundary, risk, taint, prov,  \* the question; they never change
          stage,      \* "identity", "taint", "boundary" or "done"
          pos,        \* the statement to look at next
          escalate,   \* the first matching escalate statement, 0 when none
          allow,      \* the first matching allow statement, 0 when none
          decision    \* the decision so far

question == <<identity, boundary, risk, taint, prov>>
policyVars == <<identity, boundary, risk, taint, prov, stage, pos, escalate, allow, decision>>

Effects == {"allow", "deny", "escalate"}
Statements == [effect : Effects, target : {"yes", "no", "unresolved"}, fails : {"none", "ip", "time", "other"}]
Requirements == {"none", "approval", "step_up"}
Tiers == [matches : BOOLEAN, require : Requirements]
ArgRules == [forbid : SUBSET Labels, require : SUBSET Labels]
TaintRules == [applies : BOOLEAN, strict : BOOLEAN, effect : {"deny", "escalate"}, call : ArgRules, args : [Args -> ArgRules]]
Codes == {"allowed", "no_permission", "approval_required", "risk_escalation", "taint_violation",
          "ip_not_allowed", "time_restricted"}
Decisions == [effect : Effects \union {"none"}, code : Codes, require : Requirements, boundary : BOOLEAN]
(* The labels of each argument and, under "", of the whole call.           *)
Prov == [Args \union {""} -> SUBSET Labels]

(* The questions the evaluation is asked: what the proofs assume of the    *)
(* constants.                                                              *)
QuestionAssumption ==
    /\ IdentityPolicies \subseteq Seq(Statements) /\ Boundaries \subseteq Seq(Statements)
    /\ RiskSets \subseteq SUBSET Tiers /\ TaintSets \subseteq SUBSET TaintRules /\ Provenances \subseteq Prov

Decision(effect, code, require) == [effect |-> effect, code |-> code, require |-> require, boundary |-> FALSE]
Pending == Decision("none", "no_permission", "none")

TypeOK ==
    /\ identity \in Seq(Statements) /\ boundary \in Seq(Statements)
    /\ risk \subseteq Tiers /\ taint \subseteq TaintRules /\ prov \in Prov
    /\ stage \in {"identity", "taint", "boundary", "done"}
    /\ pos \in Nat \ {0} /\ escalate \in Nat /\ allow \in Nat
    /\ decision \in Decisions

Init ==
    /\ identity \in IdentityPolicies /\ boundary \in Boundaries
    /\ risk \in RiskSets /\ taint \in TaintSets /\ prov \in Provenances
    /\ stage = "identity" /\ pos = 1 /\ escalate = 0 /\ allow = 0 /\ decision = Pending

-----------------------------------------------------------------------------
(* Statement.matchesTarget: a deny whose variables cannot be resolved      *)
(* still applies.                                                          *)
matchesTarget(s) == s.target = "yes" \/ (s.target = "unresolved" /\ s.effect = "deny")
matches(s) == matchesTarget(s) /\ s.fails = "none"

strength(r) == CASE r = "step_up" -> 2 [] r = "approval" -> 1 [] r = "none" -> 0

(* Classify: r is what the strongest matching tier requires.               *)
Classify(r) ==
    \E t \in risk : /\ t.matches /\ t.require = r /\ r /= "none"
                    /\ \A u \in risk : u.matches => strength(u.require) <= strength(r)

(* defaultDenyCode: an allow statement that failed only on its conditions  *)
(* names the first such address or time condition.                         *)
Restricted(stmts, i) == stmts[i].effect = "allow" /\ matchesTarget(stmts[i]) /\ stmts[i].fails \in {"ip", "time"}
defaultDenyCode(stmts) ==
    IF \E i \in DOMAIN stmts : Restricted(stmts, i)
    THEN LET i == CHOOSE i \in DOMAIN stmts : Restricted(stmts, i) /\ \A j \in 1..i - 1 : ~Restricted(stmts, j)
         IN  IF stmts[i].fails = "ip" THEN "ip_not_allowed" ELSE "time_restricted"
    ELSE "no_permission"

Loop == stage \in {"identity", "boundary"}
Stmts == IF stage = "boundary" THEN boundary ELSE identity

(* After the loop: Evaluate goes on to taint; a boundary that does not     *)
(* allow is the answer, and one that does leaves the identity's decision.  *)
After(d) ==
    IF stage = "identity" THEN stage' = "taint" /\ decision' = d
    ELSE stage' = "done" /\ decision' = IF d.effect = "allow" THEN decision ELSE [d EXCEPT !.boundary = TRUE]

(* Mutant of Denies: a deny counts only while nothing allowed before it.   *)
DeniesIfFirst(s) == s.effect = "deny" /\ allow = 0

Denies(s) == s.effect = "deny"

(* evaluate, one statement: an explicit deny returns at once.              *)
EvalStatement ==
    LET s == Stmts[pos]
    IN  /\ Loop /\ pos <= Len(Stmts)
        /\ IF matches(s) /\ Denies(s)
           THEN /\ After(Decision("deny", "no_permission", "none"))
                /\ pos' = 1 /\ escalate' = 0 /\ allow' = 0
           ELSE /\ pos' = pos + 1
                /\ escalate' = IF matches(s) /\ s.effect = "escalate" /\ escalate = 0 THEN pos ELSE escalate
                /\ allow' = IF matches(s) /\ s.effect = "allow" /\ allow = 0 THEN pos ELSE allow
                /\ UNCHANGED <<stage, decision>>
        /\ UNCHANGED question

(* evaluate, after the loop, with applyRisk on an allow.                   *)
EndLoop ==
    /\ Loop /\ pos > Len(Stmts)
    /\ IF escalate /= 0 THEN After(Decision("escalate", "approval_required", "approval"))
       ELSE IF allow /= 0
       THEN IF \E r \in Requirements : Classify(r)
            THEN \E r \in Requirements : Classify(r) /\ After(Decision("escalate", "risk_escalation", r))
            ELSE After(Decision("allow", "allowed", "none"))
       ELSE After(Decision("none", defaultDenyCode(Stmts), "none"))
    /\ pos' = 1 /\ escalate' = 0 /\ allow' = 0
    /\ UNCHANGED question

-----------------------------------------------------------------------------
(* checkLabels.                                                            *)
Violates(rule, labels, spec) ==
    \/ spec.forbid \intersect labels /= {}
    \/ spec.require \ labels /= {} /\ (labels /= {} \/ rule.strict)

Unlabeled == \A a \in Args \union {""} : prov[a] = {}
AllLabels == UNION {prov[a] : a \in Args \union {""}}

(* EvaluateTaint: an unlabelled call is checked by strict rules only; an   *)
(* argument carries the call's labels too.                                 *)
Violated(rule) ==
    /\ rule.applies /\ (Unlabeled => rule.strict)
    /\ \/ Violates(rule, AllLabels, rule.call)
       \/ \E a \in Args : Violates(rule, prov[a] \union prov[""], rule.args[a])
TaintVerdict ==
    IF \E rule \in taint : Violated(rule) /\ rule.effect = "deny" THEN "deny"
    ELSE IF \E rule \in taint : Violated(rule) THEN "escalate" ELSE "clean"

(* applyTaint: a deny passes through, an escalation gives way to a deny.   *)
Tainted(d) ==
    IF d.effect \notin {"allow", "escalate"} \/ TaintVerdict = "clean" THEN d
    ELSE IF TaintVerdict = "deny" THEN Decision("deny", "taint_violation", "none")
    ELSE IF d.effect = "escalate" THEN d
    ELSE Decision("escalate", "taint_violation", "approval")

(* EvaluateWithBoundary looks at the boundary only for what is allowed.    *)
ApplyTaint ==
    /\ stage = "taint"
    /\ decision' = Tainted(decision)
    /\ stage' = IF Tainted(decision).effect = "allow" /\ boundary /= <<>> THEN "boundary" ELSE "done"
    /\ UNCHANGED <<question, pos, escalate, allow>>

Next == EvalStatement \/ EndLoop \/ ApplyTaint

Spec == Init /\ [][Next]_policyVars

-----------------------------------------------------------------------------
(* What the outcome must be, without the order of the statements.          *)
Has(stmts, effect) == \E i \in DOMAIN stmts : matches(stmts[i]) /\ stmts[i].effect = effect
Risky == \E t \in risk : t.matches /\ t.require /= "none"
Verdict(stmts) ==
    IF Has(stmts, "deny") THEN "deny"
    ELSE IF Has(stmts, "escalate") THEN "escalate"
    ELSE IF Has(stmts, "allow") THEN (IF Risky THEN "escalate" ELSE "allow")
    ELSE "none"
Outcome ==
    LET v == Verdict(identity)
        t == IF v \in {"allow", "escalate"} /\ TaintVerdict = "deny" THEN "deny"
             ELSE IF v = "allow" /\ TaintVerdict = "escalate" THEN "escalate" ELSE v
    IN  IF t = "allow" /\ boundary /= <<>> THEN Verdict(boundary) ELSE t

(* The evaluation in order, returning at the first deny and keeping the    *)
(* first escalation and the first allow, comes to the outcome that only    *)
(* depends on which statements match: a deny anywhere wins over            *)
(* everything, an escalation over an allow, and risk, taint and boundary   *)
(* apply after.                                                            *)
OrderDoesNotMatter == stage = "done" => decision.effect = Outcome

(* A request is allowed only if identity and boundary allow it, nothing    *)
(* denies or escalates it, no risk tier asks for more and no taint rule is *)
(* violated: what comes later never loosens what came before.              *)
AllowedIsUnanimous ==
    stage = "done" /\ decision.effect = "allow" =>
        /\ \A stmts \in {identity} \union (IF boundary = <<>> THEN {} ELSE {boundary}) :
              Has(stmts, "allow") /\ ~Has(stmts, "deny") /\ ~Has(stmts, "escalate")
        /\ ~Risky /\ TaintVerdict = "clean"

(* An escalation asks for at least what every matching risk tier requires, *)
(* when it is the risk that escalated.                                     *)
EscalationIsStrongest ==
    stage = "done" /\ decision.code = "risk_escalation" =>
        \A t \in risk : t.matches => strength(t.require) <= strength(decision.require)
=============================================================================
