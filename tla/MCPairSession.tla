---------------------------- MODULE MCPairSession ----------------------------
EXTENDS PairSession
=============================================================================
