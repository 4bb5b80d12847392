--------------------------- MODULE MCFileHashCache ---------------------------
EXTENDS FileHashCache, TLC

\* v1 and v2 differ only in size, v1 and v3 only in time.
CONSTANTS v1, v2, v3
MCVersions == {v1, v2, v3}
MCMtime == v1 :> 1 @@ v2 :> 1 @@ v3 :> 2
MCSize == v1 :> 1 @@ v2 :> 2 @@ v3 :> 1

Interchangeable == Permutations(Paths)

=============================================================================
