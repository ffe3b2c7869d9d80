------------------------------ MODULE Download ------------------------------
(***************************************************************************)
(* What one call of Client.FetchAll promises its caller                    *)
(* (src/internal/mojang/assets.go), with nothing said of how: files of the *)
(* set appear one by one and are never lost, and the call ends either with *)
(* an error or with nil.  nil means that the whole set is there, unless    *)
(* the caller cancelled the context it passed.  The process may be killed, *)
(* and the call made again over what the last one left.                    *)
(***************************************************************************)
CONSTANT Jobs           \* the entries of the FetchSet

VARIABLES have,         \* the entries whose file is in place
          status,       \* "running", "ok", "failed" or "killed"
          withdrawn     \* the caller cancelled the context of this call

vars == <<have, status, withdrawn>>

Init == /\ have \in SUBSET Jobs
        /\ status = "running"
        /\ withdrawn = FALSE

Arrive == /\ status = "running"
          /\ have' \in SUBSET Jobs
          /\ have \subseteq have'
          /\ UNCHANGED <<status, withdrawn>>

Withdraw == /\ status = "running"
            /\ withdrawn' = TRUE
            /\ UNCHANGED <<have, status>>

Succeed == /\ status = "running"
           /\ have = Jobs \/ withdrawn
           /\ status' = "ok"
           /\ UNCHANGED <<have, withdrawn>>

Fail == /\ status = "running"
        /\ status' = "failed"
        /\ UNCHANGED <<have, withdrawn>>

Die == /\ status = "running"
       /\ status' = "killed"
       /\ UNCHANGED <<have, withdrawn>>

Again == /\ status = "killed"
         /\ status' = "running"
         /\ withdrawn' = FALSE
         /\ UNCHANGED have

Next == Arrive \/ Withdraw \/ Succeed \/ Fail \/ Die \/ Again

Spec == Init /\ [][Next]_vars
=============================================================================
