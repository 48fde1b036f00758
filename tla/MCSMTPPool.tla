----------------------------- MODULE MCSMTPPool -----------------------------
EXTENDS SMTPPool, TLC

CONSTANTS w1, w2, w3, w4, k1, k2, s1, s2, s3
SafetySymmetry == Permutations(Workers) \cup Permutations(Sessions)
=============================================================================
