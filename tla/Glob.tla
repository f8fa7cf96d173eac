-------------------------------- MODULE Glob --------------------------------
(***************************************************************************)
(* Pattern matching of the policy engine (policy/glob.go): the iterative   *)
(* Match with its one remembered star, and Escape.                         *)
(*                                                                         *)
(* A byte is a character of Chars; "*" matches any run and "\\" makes the  *)
(* next byte literal.  A step is one iteration of a loop of Match.         *)
(* Positions count from 1.                                                 *)
(***************************************************************************)
EXTENDS Integers, Sequences

CONSTANTS Chars, MaxPattern, MaxText   \* bounds: the lengths of pattern and text

VARIABLES pattern, text,     \* the arguments
          p, i,              \* the positions in them
          starP, starI,      \* the last star seen, 0 when none, and where it was tried
          result             \* "running", "yes" or "no"

globVars == <<pattern, text, p, i, starP, starI, result>>

Strings(n) == UNION {[1..k -> Chars] : k \in 0..n}

TypeOK ==
    /\ pattern \in Strings(MaxPattern) /\ text \in Strings(MaxText)
    /\ p \in 1..Len(pattern) + 1 /\ i \in 1..Len(text) + 1
    /\ starP \in 0..Len(pattern) /\ starI \in 0..Len(text) + 1
    /\ result \in {"running", "yes", "no"}

Init ==
    /\ pattern \in Strings(MaxPattern) /\ text \in Strings(MaxText)
    /\ p = 1 /\ i = 1 /\ starP = 0 /\ starI = 0 /\ result = "running"

(* token: a backslash takes the byte after it, if there is one.            *)
escapes(s, k) == s[k] = "\\" /\ k < Len(s)
width(s, k) == IF escapes(s, k) THEN 2 ELSE 1
char(s, k) == IF escapes(s, k) THEN s[k + 1] ELSE s[k]
star(s, k) == s[k] = "*"

(* Mutant of Resume: the text already compared is not taken up again.      *)
ResumeForward == i' = i + 1 /\ p' = starP + 1 /\ starI' = starI + 1

(* The last star takes one byte more.                                      *)
Resume == i' = starI + 1 /\ p' = starP + 1 /\ starI' = starI + 1

(* An iteration of the main loop, while text is left.                      *)
Scan ==
    /\ result = "running" /\ i <= Len(text)
    /\ IF p <= Len(pattern) /\ star(pattern, p)
       THEN starP' = p /\ starI' = i /\ p' = p + 1 /\ UNCHANGED <<i, result>>
       ELSE IF p <= Len(pattern) /\ char(pattern, p) = text[i]
       THEN p' = p + width(pattern, p) /\ i' = i + 1 /\ UNCHANGED <<starP, starI, result>>
       ELSE IF starP = 0 THEN result' = "no" /\ UNCHANGED <<p, i, starP, starI>>
       ELSE Resume /\ UNCHANGED <<starP, result>>
    /\ UNCHANGED <<pattern, text>>

(* An iteration of the last loop: only stars may be left of the pattern.   *)
Trail ==
    /\ result = "running" /\ i > Len(text)
    /\ IF p > Len(pattern) THEN result' = "yes" /\ p' = p
       ELSE IF ~star(pattern, p) THEN result' = "no" /\ p' = p
       ELSE p' = p + width(pattern, p) /\ UNCHANGED result
    /\ UNCHANGED <<pattern, text, i, starP, starI>>

Next == Scan \/ Trail

Spec == Init /\ [][Next]_globVars

RECURSIVE Escape(_)
Escape(v) ==
    IF v = <<>> THEN <<>>
    ELSE (IF Head(v) \in {"*", "\\"} THEN <<"\\", Head(v)>> ELSE <<Head(v)>>) \o Escape(Tail(v))

(* What a pattern means: try every run for every star.                     *)
RECURSIVE Means(_, _)
Means(pat, s) ==
    IF pat = <<>> THEN s = <<>>
    ELSE IF star(pat, 1)
    THEN \E k \in 0..Len(s) : Means(Tail(pat), SubSeq(s, k + 1, Len(s)))
    ELSE s /= <<>> /\ char(pat, 1) = Head(s) /\ Means(SubSeq(pat, width(pat, 1) + 1, Len(pat)), Tail(s))

-----------------------------------------------------------------------------
(* Match, which goes back to the last star only, gives the answer that     *)
(* trying every run for every star gives.                                  *)
MatchIsExact == result /= "running" => (result = "yes" <=> Means(pattern, text))

(* A value put into a pattern through Escape matches itself and nothing    *)
(* else, whatever stars and backslashes it holds.                          *)
EscapedIsLiteral ==
    result /= "running" =>
        \A v \in Strings(MaxPattern) : pattern = Escape(v) => (result = "yes" <=> text = v)
=============================================================================
