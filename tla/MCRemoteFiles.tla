---------------------------- MODULE MCRemoteFiles ---------------------------
(* One task and one terminal.                                              *)
EXTENDS RemoteFiles

CONSTANTS t1, m1

MCTask == {t1}
MCTerminal == {m1}
MCUser == (MCTask \X {"executor", "request"}) \cup (MCTerminal \X {"terminal"})
=============================================================================
