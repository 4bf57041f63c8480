--------------------------- MODULE MCSurfaceSync ---------------------------
EXTENDS SurfaceSync, TLC

Symmetry == Permutations(Clients)
KeySymmetry == Permutations(Keys)
=============================================================================
