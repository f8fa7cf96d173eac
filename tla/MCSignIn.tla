------------------------------ MODULE MCSignIn ------------------------------
(* A small instance of sign-in for TLC: five deployments, each with the    *)
(* features whose interplay it is about.                                   *)
EXTENDS SignIn, TLC

MCDeployments == {{"totp", "change"}, {"totp", "reset"}, {"totp", "block"},
                  {"signup", "imported", "links", "change", "block"},
                  {"imported", "reset", "block"}}
Symm == Permutations(Requests) \cup Permutations(Passwords)
=============================================================================
