--------------------------- MODULE MCChildRunner ---------------------------
EXTENDS ChildRunner
=============================================================================
