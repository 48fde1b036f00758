---------------------------- MODULE MCLocalQueue ----------------------------
EXTENDS LocalQueue

CONSTANTS m1, m2, m3
MCSize == [id \in Ids |-> IF id = m3 THEN 1 ELSE 2]
=============================================================================
