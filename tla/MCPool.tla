---------------------------------- MODULE MCPool ----------------------------------
(* Pool for TLC: the environments. *)
EXTENDS Pool

CONSTANTS ubuntu, custom

MCEnvs == {ubuntu, custom}
=============================================================================
