--------------------------- MODULE MCHtaccessCache ---------------------------
(***************************************************************************)
(* Instances of HtaccessCache for TLC.                                     *)
(***************************************************************************)
EXTENDS HtaccessCache, TLC, FiniteSets

\* Enough pools that none is missing as long as none is lost: one for each
\* entry and one for the load.
ASSUME PoolsSuffice == Cardinality(Pools) >= MaxEntries + 1

\* Paths, contents, stamps and pools are interchangeable.
Symmetry == Permutations(Paths) \cup Permutations(Rules)
              \cup Permutations(Stamps) \cup Permutations(Pools)

=============================================================================
