------------------------- MODULE MCHealthRecovery --------------------------
EXTENDS HealthRecovery, TLC
=============================================================================
