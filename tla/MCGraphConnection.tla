------------------------- MODULE MCGraphConnection -------------------------
(* Two requests, each in a domain server process of its own, two callbacks  *)
(* in the auth gateway, and one disconnect in the gateway's thread pool.    *)
EXTENDS GraphConnection, TLC

CONSTANTS r1, r2, c1, c2, u1, d1, d2, gateway

MCRequests  == {r1, r2}
MCCallbacks == {c1, c2}
MCUnlinks   == {u1}
MCProcOf == r1 :> d1 @@ r2 :> d2 @@ c1 :> gateway @@ c2 :> gateway @@ u1 :> gateway

\* For liveness: both requests queue on the asyncio lock of one process.
MCSharedProcOf == r1 :> d1 @@ r2 :> d1 @@ c1 :> gateway @@ u1 :> gateway
MCOneCallback  == {c1}

Symmetry == Permutations({c1, c2})
=============================================================================
