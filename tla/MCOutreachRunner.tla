-------------------------- MODULE MCOutreachRunner --------------------------
\* Four triggers: a failed start, two runs beside each other and one refused.
EXTENDS OutreachRunner

CONSTANTS r1, r2, r3, r4
=============================================================================
