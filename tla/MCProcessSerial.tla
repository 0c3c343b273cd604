-------------------------- MODULE MCProcessSerial --------------------------
(* One caller and prompt kills: calls never overlap, exits do.             *)
EXTENDS ProcessManager

CONSTANT c1

MCCaller == {c1}
=============================================================================
