---------------------------- MODULE MCProxyCache ----------------------------
EXTENDS ProxyCache, TLC

\* A cache without an age policy, one that quarantines new releases and holds
\* less than one body, and a pass-through repository.
Plain == [cache |-> TRUE, maxSize |-> 0, ageEnabled |-> FALSE, warn |-> FALSE,
          minAge |-> 0, maxAge |-> 0]
Quarantine == [cache |-> TRUE, maxSize |-> 1, ageEnabled |-> TRUE, warn |-> FALSE,
               minAge |-> 1, maxAge |-> 0]
NoCache == [cache |-> FALSE, maxSize |-> 0, ageEnabled |-> TRUE, warn |-> FALSE,
            minAge |-> 1, maxAge |-> 2]

MCConfigs == {Plain, Quarantine, NoCache}
Symmetry == Permutations(Clients)
MCRetryAfters == {0, 3}
=============================================================================
