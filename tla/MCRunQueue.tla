----------------------------- MODULE MCRunQueue -----------------------------
(* Instances of RunQueue for TLC: values of the constants are in the cfgs.   *)
EXTENDS RunQueue, TLC

\* Interchangeable identities; entries are ordered by the stream and are not.
Symmetry == Permutations(Workers) \cup Permutations(Clients)
            \cup Permutations(Runs) \cup Permutations(Tokens)
=============================================================================
