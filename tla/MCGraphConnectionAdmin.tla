---------------------- MODULE MCGraphConnectionAdmin ----------------------
(* GraphConnectionAdmin with one command line administrator; the .cfg files *)
(* choose which disturbances happen.                                        *)
EXTENDS GraphConnectionAdmin, TLC

CONSTANTS r1, c1, c2, u1, a1, t1, d1, gateway, cli

OneRequest   == {r1}
TwoCallbacks == {c1, c2}
MCUnlinks    == {u1}
MCAdmins     == {a1}
MCThreads    == {t1}
MCProcOf == r1 :> d1 @@ c1 :> gateway @@ c2 :> gateway @@ u1 :> gateway
              @@ a1 :> cli @@ t1 :> d1
=============================================================================
