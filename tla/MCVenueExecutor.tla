--------------------------- MODULE MCVenueExecutor ---------------------------
EXTENDS VenueExecutor, TLC

\* executors with the same handlers behave alike: one of each is enough
MCVenues == {CHOOSE v \in DOMAIN Executors : Executors[v] = executor :
                executor \in {Executors[v] : v \in DOMAIN Executors}}

\* the same for the lists alone, the handlers of requests aside
Updater(v) == [e \in {"update", "boot", "tolerant"} |-> Executors[v][e]]
MCUpdaters == {CHOOSE v \in DOMAIN Executors : Updater(v) = updater :
                updater \in {Updater(v) : v \in DOMAIN Executors}}

\* the boot of two of them needs two queries from their address
MCCapacity == [address |-> 2, account |-> 1, list |-> 1,
               get |-> 1, post |-> 1, order |-> 1]

\* one more than requests that look at the limit together may count; the
\* last two are counted by some without a look
MCMaxCounted == [address |-> 4, account |-> 3, list |-> 3,
                 get |-> 3, post |-> 1, order |-> 1]

\* of requests that do the same, in any order, one is enough
Interchangeable == Permutations(Slots)
=============================================================================
