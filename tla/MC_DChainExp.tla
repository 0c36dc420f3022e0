---------------------------- MODULE MC_DChainExp ----------------------------
EXTENDS DChainExp

=============================================================================
