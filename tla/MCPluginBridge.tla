--------------------------- MODULE MCPluginBridge ---------------------------
(* Two bridges, two connections, and one request that waits for a result.  *)
(* Spare bridges and free connections are interchangeable, so the first of *)
(* each is taken: every behaviour is one of these up to renaming.          *)
EXTENDS PluginBridge

CONSTANTS b1, b2, c1, c2, a

MCBridge == {b1, b2}
MCConn   == {c1, c2}
MCAction == {a}

InOrder ==
  /\ active' = b2 => active = b2 \/ ~IsSpare(b1)
  /\ probeEnd[c2] = "closed" /\ probeEnd'[c2] = "dialling" => ~IsFree(c1)
=============================================================================
