--------------------------- MODULE MCJobReporter ---------------------------
EXTENDS JobReporter, TLC

CONSTANTS j1, j2
=============================================================================
