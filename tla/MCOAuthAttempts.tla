--------------------------- MODULE MCOAuthAttempts ---------------------------
(* OAuthAttempts with few calls of each kind.                               *)
EXTENDS OAuthAttempts, TLC

CONSTANTS s1, s2, b1, b2, c1, c2, u1, d1, d2

\* Two starts, and two browsers and callbacks alone, one of each with a disconnect
\* or one callback with administrators.
TwoOfEach == {Workers \ {u1, d1, d2}, Workers \ {b2, c2, d1, d2}, Workers \ {u1, c2}}

\* One attempt and the callback twice.
Replay == {Workers}

\* The starts, the browsers, the callbacks and the administrators are interchangeable.
Symmetric == Permutations(Starts) \cup Permutations(Browsers) \cup Permutations(Callbacks) \cup Permutations(Admins)
=============================================================================
