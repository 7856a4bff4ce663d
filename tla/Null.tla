-------------------------------- MODULE Null --------------------------------
(***************************************************************************)
(* What stands where there is no value.                                    *)
(***************************************************************************)
CONSTANT Nil
=============================================================================
