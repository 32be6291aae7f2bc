--------------------------- MODULE MCSuccessAlert ---------------------------
EXTENDS SuccessAlert
=============================================================================
