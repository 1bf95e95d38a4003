----------------------------- MODULE MCAccount -----------------------------
EXTENDS Account, TLC

\* Exchange ids are interchangeable.
ExchangeIDs == Permutations(ExIDs)
=============================================================================
