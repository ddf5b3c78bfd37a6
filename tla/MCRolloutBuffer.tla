--------------------------- MODULE MCRolloutBuffer ---------------------------
(***************************************************************************)
(* A small instance of RolloutBuffer: three prompts, three answers each.   *)
(***************************************************************************)
EXTENDS RolloutBuffer

MCRetries == {-1, 1}
=============================================================================
