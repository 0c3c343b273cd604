------------------------- MODULE MCLifecycleEngine -------------------------
(* Three operations of one server, each with up to Attempts process starts. *)
(* Operations are interchangeable, so they are submitted in a fixed order:  *)
(* every behaviour is one of these up to renaming.                          *)
EXTENDS LifecycleEngine

CONSTANTS o1, o2, o3

MCOp    == {o1, o2, o3}
MCKey   == {[action |-> "stop", name |-> "k"]}
MCHooks == {"preStart", "postStop"}
MCOtherHooks == {"postStart", "preStop"}

InOrder ==
  /\ stage[o1] = "new" => stage'[o2] = "new"
  /\ stage[o2] = "new" => stage'[o3] = "new"
=============================================================================
