--------------------------- MODULE MCSelfCapture ---------------------------
(* Instances of SelfCapture for TLC. *)
EXTENDS SelfCaptureInv, TLC

CONSTANTS c1, c2, c3, f1, f2, s1, s2, s3, x1

Symmetric ==
    Permutations(Calls) \cup Permutations(Sources) \cup Permutations(Configs)
=============================================================================
