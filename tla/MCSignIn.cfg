\* Two requests, a cap of one session and one allowed failure: an overshoot of
\* the cap, a second failure and a spent link, reset or code all occur.
SPECIFICATION Spec
CONSTANTS
    Deployments <- MCDeployments
    Requests = {r1, r2}
    MaxSessions = 3
    Passwords = {p1, p2}
    Links = {l1}
    Resets = {t1}
    Codes = {c1}
    MaxStep = 1
    CapMax = 1
    MaxFailures = 1
    NoPassword = NoPassword
SYMMETRY Symm
INVARIANTS SessionsCapped BlockedMeansOut  ProofsSpentOnce GuessesBounded
\* Every link, code and session may be used up.
CHECK_DEADLOCK FALSE
