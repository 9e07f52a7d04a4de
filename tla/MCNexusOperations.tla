------------------------- MODULE MCNexusOperations -------------------------
(* Small instances of NexusOperations for TLC. *)
EXTENDS NexusOperations, TLC

\* Threads of one kind are interchangeable (safety runs only).
Symmetry == Permutations(Requests) \union Permutations(Leases)
              \union Permutations(Slices)

\* Where progress is checked, numbered requests arrive in their order, and a
\* request names both a lease and an operation, or neither: nobody can cancel
\* an operation without a lease.
InOrder ==
    \A r \in Requests :
        pc[r] = "idle" /\ pc'[r] # "idle" =>
            /\ \A q \in Requests : q < r => pc[q] # "idle"
            /\ key'[r].lease = NoLease <=> key'[r].operation = NoOperation
=============================================================================
