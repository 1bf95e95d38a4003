---------------------------- MODULE MCMarketData ----------------------------
EXTENDS MarketData, TLC

\* Clients are interchangeable.
ClientSymmetry == Permutations(Clients)
=============================================================================
