----------------------------- MODULE MCHashMap -----------------------------
EXTENDS HashMap, TLC

CONSTANTS a, b, c, d

\* The first rows of hash_sizes, and a smaller one before them: four keys fill a table
\* where memory is refused, and overtake the next one while they move to it.
HashSizes == << [max_entries |-> 1, size |-> 3, rehash |-> 2],
                [max_entries |-> 2, size |-> 5, rehash |-> 3],
                [max_entries |-> 4, size |-> 7, rehash |-> 5] >>

\* Same path (a, b), same start in one row only (c), all starts in another.
Hashes == (a :> 0) @@ (b :> 210) @@ (c :> 5) @@ (d :> 2147483647)
=============================================================================
