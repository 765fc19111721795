----------------------------- MODULE MCRegistry -----------------------------
(* An instance of Registry small enough for TLC. *)
EXTENDS Registry, TLC

Symmetry == Permutations(Partner) \cup Permutations(Clerk) \cup Permutations(Contact \ Legacy)
            \cup Permutations(Unit) \cup Permutations(Lawyer)

\* A behaviour of the instance works on contacts or on contracts: the two never touch each other's rows.
OneDesk ==
    \/ request = [c \in Clerk |-> Idle] /\ contact = [x \in Contact |-> None]
    \/ covers = [p \in Partner |-> [k \in Code |-> None]]
       /\ checked = [c \in Lawyer |-> NoCheck] /\ left = {}
=============================================================================
