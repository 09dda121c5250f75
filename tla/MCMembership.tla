---------------------------- MODULE MCMembership ----------------------------
EXTENDS Membership, TLC

(* Each identity has an address of its own, written as the identity.        *)
OwnAddress == [c \in Identities |-> c]

Symmetry == Permutations(Shops) \cup Permutations(Invitations)
              \cup Permutations(Requests) \cup Permutations(Identities)
=============================================================================
