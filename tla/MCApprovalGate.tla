--------------------------- MODULE MCApprovalGate ---------------------------
(* Instances of ApprovalGate for TLC.  One clock tick is 60 seconds.        *)
EXTENDS ApprovalGate, TLC

\* Per operation limits: the command's 1 tick becomes a life of 2 with the
\* margin, the PTY's 1 tick stays 1.
MCLimit == [o \in Ops |-> 1]

ConnSymmetry == Permutations(Conns)
=============================================================================
