---------------------------- MODULE MCMarketFeed ----------------------------
(***************************************************************************)
(* Instance of MarketFeed.  {2} fits one connection, {1, 2} takes both and *)
(* moves the topics of 2, {1, 2, 3} does not fit.                          *)
(***************************************************************************)
EXTENDS MarketFeed

MCUniverses == {{2}, {1, 2}, {1, 2, 3}}
=============================================================================
