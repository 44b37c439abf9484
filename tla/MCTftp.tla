------------------------------- MODULE MCTftp -------------------------------
(***************************************************************************)
(* TLC instances of TftpClient.  Lengths stand for a file that fits with a *)
(* short last block, one that fills the buffer and ends with an empty one, *)
(* and one that is too big.                                                *)
(***************************************************************************)
EXTENDS TftpClient, TLC

CONSTANTS short, exact, big

Full == (short :> 3) @@ (exact :> 4) @@ (big :> 4)
Tails == (short :> 1) @@ (exact :> 0) @@ (big :> 1)
=============================================================================
