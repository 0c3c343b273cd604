-------------------------- MODULE MCProcessOverlap -------------------------
(* Two callers whose starts and stops overlap, and kills that outlast the  *)
(* wait for them.                                                          *)
EXTENDS SerialProcess

CONSTANTS c1, c2

MCCaller == {c1, c2}
=============================================================================
