---------------------------- MODULE MCPairProtocol ----------------------------
(* One attempt of PairProtocol: attempts share no variable, so one shows    *)
(* what any number of them can do.                                          *)
EXTENDS PairProtocol
=============================================================================
