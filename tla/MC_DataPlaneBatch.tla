------------------------- MODULE MC_DataPlaneBatch -------------------------
EXTENDS DataPlaneBatch

CONSTANTS a, b

MC_Keys == {a, b}
MC_Registered0 == {a}

=============================================================================
