---------------------------- MODULE MCConversions -----------------------------
(* One call whose conversion times out: what its converter reads, and what is left *)
(* of it when a thread for another file of the call could not be started.          *)
EXTENDS Conversions

MCSize == [i \in 1 .. Items |-> 1]
=============================================================================
