---------------------------- MODULE MCPgmReceiver ----------------------------
EXTENDS PgmReceiver, TLC

TsiSymmetry == Permutations(Tsis)
=============================================================================
