------------------------------ MODULE MCRequests ------------------------------
(* Small instances of Requests for TLC.                                    *)
EXTENDS RequestsInvariant, TLC

\* Keys, accounts, nonces and handlers are interchangeable.
Symmetry == Permutations(Keys) \cup Permutations(AccountIds)
              \cup Permutations(NonceValues) \cup Permutations(Handlers)
==============================================================================
