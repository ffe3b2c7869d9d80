---------------------------- MODULE MCFetchPool ----------------------------
(***************************************************************************)
(* Three entries for two workers: two assets that are the same object, and *)
(* a file whose metadata gives no digest.                                  *)
(***************************************************************************)
EXTENDS FetchPool

CONSTANTS w1, w2, object, config, good, bad

MCDest == <<object, object, config>>
MCDigest == <<good, good, NoDigest>>
=============================================================================
