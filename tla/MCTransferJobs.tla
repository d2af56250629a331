--------------------------- MODULE MCTransferJobs ---------------------------
(* TransferJobs for TLC: the transfers are alike.                          *)
EXTENDS TransferJobs, TLC

Alike == Permutations(Transfers)
=============================================================================
