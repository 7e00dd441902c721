--------------------------- MODULE MCProcessLife ---------------------------
EXTENDS ProcessLife
=============================================================================
