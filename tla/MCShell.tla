------------------------------ MODULE MCShell ------------------------------
EXTENDS Shell

MCLengths == {1, 2, 4}
MCHeights == 0..3
=============================================================================
