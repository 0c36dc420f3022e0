---------------------------- MODULE MC_RluDChain ----------------------------
EXTENDS RluDChain

=============================================================================
