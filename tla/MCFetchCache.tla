---------------------------- MODULE MCFetchCache ----------------------------
(* Small instances of FetchCache.                                          *)
EXTENDS FetchCache, TLC
CONSTANTS a, b, k1, k2

For(n) == [kind |-> "for", n |-> n]
Forever == [kind |-> "forever", n |-> 1]
Until(n) == [kind |-> "until", n |-> n]

\* One instance caches for a duration, the other for as long as it may.
DurationAndForever == (a :> For(2)) @@ (b :> Forever)

\* Both cache until the same moment.
BothUntil == (a :> Until(5)) @@ (b :> Until(5))

Symmetry == Permutations({k1, k2})
============================================================================
