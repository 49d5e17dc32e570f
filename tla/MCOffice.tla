------------------------------- MODULE MCOffice -------------------------------
(* The values of Office's constants for TLC; what stays as small is in the .cfg file. *)
EXTENDS Office, TLC

CONSTANTS c1, c2, h1, h2, p1, p2, e1, e2, talk, v1, v2, v3, f1, l1, b1, b2, d1, d2,
          Hong, hong, kim

\* Calls, of OneNote and of Teams; two chats, one of which the answer of a sync leaves
\* out, and a member without email.
TwoCalls   == {c1, c2}
OneCall    == {c1}
TwoPages   == <<1, 2>>
TwoChats   == {h1, h2}
InHangul   == {h1}
TwoPeople  == {p1, p2}
WithoutEmail == {p2}

\* An inbox of two pages, one of them with a mail the query excludes, and batches of two;
\* a list of ids, and one that repeats an id in a batch and in the next.
MailOrder  == {<<2, 1, 3>>, <<1, 1, 1>>}

\* A day of three hours and zones one hour apart.
TwoEvents  == {e1, e2}
OneSubject == {talk}

\* Two processes, one account in two spellings and another account.
MCCalls       == {v1, v2, v3}
MCFlows       == {f1}
MCLinks       == {l1}
TwoCallbacks  == {b1, b2}
TwoProcs      == {d1, d2}
MCProcOf      == v1 :> d1 @@ v2 :> d1 @@ v3 :> d2 @@ f1 :> d1 @@ l1 :> d2
MCEmails      == {Hong, hong, kim}
MCAsked       == {Hong, hong}
MCGraphEmails == {Hong, kim}
MCLower       == Hong :> hong @@ hong :> hong @@ kim :> kim

\* Calls are interchangeable, and so are the ids of events and the callbacks of a login.
Symmetry == Permutations(TwoCalls) \cup Permutations(TwoEvents) \cup Permutations(TwoCallbacks)

\* Two of the workers of a login are at work at a time.
TwoWorkers ==
  part = "login" =>
    \E pair \in {{v1, v2}, {v1, v3}, {v1, f1}, {f1, l1}} :
      \A w \in {v1, v2, v3, f1, l1} \ pair : pc[w] = "idle"

-----------------------------------------------------------------------------
\* Does not hold, and is in no run (README, 5): a complete listing prunes only rows of pages
\* that are not in Graph (the comment in sync_db()).  It prunes a page created meanwhile, and
\* what follows a chunk that came empty.
PrunesGone == [][part = "notes" => Notes!PrunesOnlyMissing]_vars

\* Does not hold, and is in no run (README, 5): a batch that is processed tells of the ids that failed.
ProcessTells == part = "mail" => Mail!ProcessTellsFailures

\* Does not hold, and is in no run (README, 5): a view shows the whole of its range.
ViewsAreWhole == [][part = "calendar" => Agenda!ViewIsWhole]_vars
=============================================================================
