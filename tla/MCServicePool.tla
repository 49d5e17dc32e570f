---------------------------- MODULE MCServicePool ----------------------------
(* ServicePool for two users, one of them at two epochs, and small pools.   *)
EXTENDS ServicePool

CONSTANTS a, b, r1, r2, r3, r4, d1, d2

Key(u, n) == [user |-> u, epoch |-> n]
MCKeyOf == [r \in Requests |-> CASE r \in {r1, r2} -> Key(a, 0) [] r = r3 -> Key(a, 1) [] OTHER -> Key(b, 0)]
MCDrainOf == [d \in Drainers |-> a]

=============================================================================
