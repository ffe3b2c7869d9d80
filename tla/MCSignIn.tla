------------------------------ MODULE MCSignIn ------------------------------
(***************************************************************************)
(* A code that lives for five intervals, from a service that gives a       *)
(* senseless interval, none, the usual one or twice that.                  *)
(***************************************************************************)
EXTENDS SignIn

MCAdvertised == -1..2
=============================================================================
