------------------------- MODULE MCMessageDelivery -------------------------
EXTENDS MessageDelivery, TLC

SlotSymmetry == Permutations(Slots)
=============================================================================
