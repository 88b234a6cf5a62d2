--------------------------- MODULE MCSystemCalls ----------------------------
EXTENDS SystemCalls
=============================================================================
