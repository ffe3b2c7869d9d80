------------------------------ MODULE Account ------------------------------
(***************************************************************************)
(* What one call of SignIn promises its caller (src/internal/agent),       *)
(* with nothing said of polls and hops: it ends with an account or with an *)
(* error, and with an account only if a person granted it.  A cancelled    *)
(* call may still end with the account whose last answer was there.        *)
(***************************************************************************)
VARIABLES
    status,     \* "running", "ok" or "failed"
    granted,    \* a user who owns the game approved on a phone
    withdrawn   \* the caller cancelled the context of this call

vars == <<status, granted, withdrawn>>

Init == /\ status = "running"
        /\ granted = FALSE
        /\ withdrawn = FALSE

Grant == /\ status = "running"
         /\ ~granted
         /\ granted' = TRUE
         /\ UNCHANGED <<status, withdrawn>>

Withdraw == /\ status = "running"
            /\ withdrawn' = TRUE
            /\ UNCHANGED <<status, granted>>

Succeed == /\ status = "running"
           /\ granted
           /\ status' = "ok"
           /\ UNCHANGED <<granted, withdrawn>>

Fail == /\ status = "running"
        /\ status' = "failed"
        /\ UNCHANGED <<granted, withdrawn>>

Next == Grant \/ Withdraw \/ Succeed \/ Fail

Spec == Init /\ [][Next]_vars
=============================================================================
