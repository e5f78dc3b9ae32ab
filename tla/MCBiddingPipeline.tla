------------------------ MODULE MCBiddingPipeline ------------------------
(* Small instances of BiddingPipeline for TLC. *)
EXTENDS BiddingPipeline

CONSTANTS k1, loop

\* An auction without a buy-now price.
NoBuyNow == -1
=============================================================================
