------------------------------- MODULE MCServer -------------------------------
(* The values of Server's constants for TLC: two users, two keys of each kind,    *)
(* three processes, one user to migrate; what stays as small is in the .cfg file. *)
EXTENDS Server, TLC

CONSTANTS alice, bob, r1, r2, o1, o2

\* Two users; the first one's requests have every flaw, alone or two at a time in
\* some cases where the order of the checks decides; the second one's has none.
TwoUsers    == {alice, bob}
TwoRequests == {r1, r2}
MCUserOf    == r1 :> alice @@ r2 :> bob
MCKnown     == <<alice>>
MCFlawsOf ==
  r1 :> ({{}} \cup {{f} : f \in {"host", "size", "bearer", "method", "session",
                                 "tool", "object", "email_blank", "email_unlinked",
                                 "email_other", "unexpected", "invalid", "scope"}}
         \cup {{"bearer", "host"}, {"method", "scope"}, {"email_other", "unexpected"}})
  @@ r2 :> {{}}

\* An HTTP server, one over standard input and output, and the gateway, whose
\* environments may differ.
MCKindOf   == [s1 |-> "http", s2 |-> "stdio", s3 |-> "gateway"]
MCServices == <<"db", "legacy">>
MCEnvironments == {[mode |-> "single", flaws |-> {}], [mode |-> "multi", flaws |-> {}],
                   [mode |-> "multi", flaws |-> {"conflict", "limit", "port"}]}

\* Two users and a directory in the root of the legacy files.
TwoOwners == {o1, o2}
MCPaths   == {<<>>, <<"d">>}

\* KEKs, processes and users of UserKeys are interchangeable.
Symmetry == Permutations(KeyUsers) \cup Permutations(KeyProcs) \cup Permutations(Keks)

-----------------------------------------------------------------------------
\* Does not hold, and is in no run (README, 5): an activation stuck in the middle can be planned anew.
CanReplan == part = "move" => Move!ReplanPossible

\* Does not hold, and is in no run (README, 5): a start finds the marker whole or not at all.
MarkersAreWhole == part = "boot" => Boot!MarkerIsWhole

\* Does not hold, and is in no run (README, 5): a deletion between the steps of a second
\* registration takes the key of the user it inserts.
UsersHaveKeys == part = "keys" => \A u \in known \ touched : wrapped[u] # NoKey
=============================================================================
