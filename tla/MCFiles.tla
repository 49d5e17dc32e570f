------------------------------- MODULE MCFiles --------------------------------
(* The values of Files' constants for TLC; what stays as small is in the .cfg file. *)
EXTENDS Files, Functions, TLC

CONSTANTS c1, c2, m1, m2, i1, i2, i3, l1, l2, someName

\* Two mails whose folders and items have the same names, one with an attachment that
\* is over the limit of a simple upload and one that has no content.
MCFolderOf  == [l \in {"a", "b"} |-> "f"]
MCMailItems ==
  LET item(name, size, content) == [name |-> name, size |-> size, content |-> content] IN
  [a |-> <<item("mail_content", 1, TRUE), item("x", 2, TRUE), item("y", 1, FALSE)>>,
   b |-> <<item("mail_content", 1, TRUE), item("mail_content", 1, TRUE)>>]

\* Two files that together are over the budget of a call.
MCSize == <<1, 2>>

\* A keyword of the characters LIKE gives a meaning to.
MCKeywords == {<<"a">>, <<"%">>}

\* Two calls of either kind, two ids of lists, the second of which is long enough to pass
\* for one, three items of OneDrive.
TwoCalls     == {c1, c2}
TwoMailCalls == {m1, m2}
ThreeIds     == {i1, i2, i3}
TwoLists     == {l1, l2}
SecondPadded == {l2}
TwoNames     == {someName, DefaultName}

\* Calls are interchangeable, and so are the ids OneDrive gives.
Symmetry == Permutations(TwoCalls) \cup Permutations(TwoMailCalls) \cup Permutations(ThreeIds)

\* The slots of the two kinds of conversions are apart, and so are their calls: one kind
\* at a time goes on.
OneKindOfCalls ==
  part = "converts" =>
    \/ closing["mail"] = "open" /\ \A c \in MailCalls : call[c].pc = "idle"
    \/ closing["file"] = "open" /\ \A c \in FileCalls : call[c].pc = "idle"

\* In the single-user mode, which keeps no such promise, mails are asked for in one order.
OneOrder ==
  part = "saves" /\ legacy => \A c \in SaveCalls : fileCall[c].todo # <<"b", "a">>

\* Calls that go on at once are plain ones; one that leaves the texts out, or names a mail
\* twice, has the others before it or after it.
OddCallsAlone ==
  part = "saves" =>
    \A c \in SaveCalls :
      \/ fileCall[c].text /\ IsInjective(fileCall[c].todo)
      \/ ~legacy /\ \A d \in SaveCalls \ {c} : fileCall[d].pc \in {"idle", "done"}

-----------------------------------------------------------------------------
\* Does not hold, and is in no run (README, 5): a mail is recorded as done only when all of it
\* was saved, for what is recorded is never tried again (mail_attachment.py:725-726).
RecordedIsWhole ==
  part = "saves" => \A l \in Letters : record[l].done =>
    {i \in DOMAIN MailItems[l] : i > 1 \/ record[l].text} \subseteq DOMAIN record[l].refs

\* Does not hold, and is in no run (README, 5): attachments asked for by id that failed are told of.
SpecificTells == part = "saves" => Saves!SpecificTellsFailures

\* Does not hold, and is in no run (README, 5): a list asked for by its id is found.
FindsById == [][part = "todo" => Todo!IdsAreFound]_vars
=============================================================================
