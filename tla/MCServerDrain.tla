---------------------------- MODULE MCServerDrain ----------------------------
EXTENDS ServerDrain

CONSTANTS r1, r2, q1, q2, q3
==============================================================================
