----------------------------- MODULE MCTrajectory -----------------------------
(***************************************************************************)
(* Small instances of Trajectory: a response of two tokens that may come   *)
(* back with another second token, one of a single token, and an empty one.*)
(***************************************************************************)
EXTENDS Trajectory

MCTexts == {"a", "b", "empty"}
MCTokenizations == [t \in MCTexts |->
    CASE t = "a" -> {<<1, 2>>, <<1, 3>>}
      [] t = "b" -> {<<4>>}
      [] t = "empty" -> {<<>>}]
=============================================================================
