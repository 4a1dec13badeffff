--------------------------- MODULE MCShardedHead ----------------------------
(***************************************************************************)
(* Seven fragments over three shards (ranges of 2, 2 and 3) and a total    *)
(* that ends in the middle of a sweep.                                     *)
(***************************************************************************)
EXTENDS ShardedHead

=============================================================================
