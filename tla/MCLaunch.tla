------------------------------ MODULE MCLaunch ------------------------------
(***************************************************************************)
(* Two libraries, two objects of which the published index names one, and  *)
(* two Java majors: enough for a set that is partly there, for an answer   *)
(* with too few objects or with others, and for a version whose major is   *)
(* not installed.                                                          *)
(***************************************************************************)
EXTENDS Launch

CONSTANTS lib, client, object, other

MCMajors == {17, 21}
=============================================================================
