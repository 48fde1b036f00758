---------------------------- MODULE MCDispatcher ----------------------------
EXTENDS Dispatcher, TLC

CONSTANTS m1, n1, r1, r2
MCSize == [id \in Ids |-> 1]
MCRcptTo == [id \in Ids |-> IF id \in DsnIds THEN {r1} ELSE Rcpts]
RcptSymmetry == Permutations({r1, r2})
=============================================================================
