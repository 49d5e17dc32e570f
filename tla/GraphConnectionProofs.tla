----------------------- MODULE GraphConnectionProofs -----------------------
(* Proofs about GraphConnection for any number of workers, processes, links *)
(* and crashes.  IInv, an inductive invariant, carries the argument: the    *)
(* file lock makes every locked section exclusive, so what its worker read  *)
(* is still so; and an epoch never returns, so what a request read with no  *)
(* lock held is good for as long as its epoch is the current one.           *)
(* The second part is about GraphConnectionAdmin: what survives admins, who *)
(* take no lock, and threads left behind, with AdminInv for its invariant.  *)
(* With no request cancelled a disconnect also erases what it read, as      *)
(* registry_admin.py says: the cancellation alone is what breaks it.        *)
EXTENDS GraphConnectionAdmin, TLAPS

\* A worker inside a locked section holds the file lock.
LockHeld == \A w \in Workers : pc[w] \in Locked => flock = w

\* Link numbers in use were handed out by an exchange; none is 0 once stored.
LinksKnown ==
    /\ dead \subseteq 1..links
    /\ row.link \in 0..links
    /\ Present(row) => row.link # 0
    /\ \A w \in Workers : mem[w].row.link \in 0..links /\ mem[w].link \in 0..links

\* A bundle not stored yet: its link appears nowhere else, and is not dead.
Unstored == {"plock", "flock", "verify", "version", "store"}
BundleFresh ==
    \A c \in Callbacks : pc[c] \in Unstored =>
        /\ mem[c].link \in 1..links
        /\ mem[c].link \notin dead
        /\ mem[c].link # row.link
        /\ \A w \in Workers : mem[w].row.link # mem[c].link
        /\ \A d \in Callbacks : d # c => mem[d].link # mem[c].link

\* The commit's locked section: the account it verified is still current, and
\* what it stored is still there when it confirms.  It never has to undo.
CommitHolds ==
    \A c \in Callbacks :
        /\ pc[c] \in {"version", "store", "confirm"} => CurrentAccount(c)
        /\ pc[c] = "store" => mem[c].row.version = row.version
        /\ pc[c] = "confirm" => Present(row) /\ row.link \notin dead
        /\ pc[c] # "undo"

\* The disconnect's locked section: the row it read is the stored one.
UnlinkHolds ==
    \A u \in Unlinks :
        /\ pc[u] \in {"unlink", "erase"} =>
              mem[u].row.version = row.version /\ mem[u].row.link = row.link
        /\ pc[u] = "erase" => user.status = "pending_link"

\* The refresh's locked section.
RefreshHolds ==
    \A r \in Requests :
        /\ pc[r] \in {"entra", "reject", "recheck", "save"} =>
              /\ Present(row)
              /\ mem[r].row.version = row.version /\ mem[r].row.link = row.link
        /\ pc[r] = "save" => LinkedAccount(r)

\* An epoch never returns; while a checked request's epoch is the current one,
\* the account is the linked one it saw and the row it read is of a live link.
Checked == Labels \ {"idle", "check"}
EpochGuards ==
    /\ \A w \in Workers : mem[w].epoch <= user.epoch
    /\ \A r \in Requests : pc[r] = "check" => mem[r].row = NoRow
    /\ \A r \in Requests : pc[r] \in Checked /\ mem[r].epoch = user.epoch =>
          user.status = "active" /\ mem[r].row.link \notin dead

\* Without a crash, a token whose account is not active is in the hands of the
\* callback about to confirm it or of the disconnect about to erase it.
TokenAttended ==
    crashes = 0 /\ Present(row) /\ user.status # "active" =>
        \E w \in Workers : pc[w] \in {"confirm", "erase"}

\* Which program points each kind of worker can reach.
RequestLabels == {"idle", "check", "read", "plock", "flock", "return", "reread", "recheck_fresh",
                  "entra", "reject", "recheck", "save", "lastcheck", "latest"}
CommitLabels  == {"idle", "plock", "flock", "verify", "version", "store", "confirm", "undo"}
UnlinkLabels  == {"idle", "flock", "versions", "unlink", "erase"}
KindOK ==
    /\ \A r \in Requests : pc[r] \in RequestLabels
    /\ \A c \in Callbacks : pc[c] \in CommitLabels
    /\ \A u \in Unlinks : pc[u] \in UnlinkLabels
    /\ \A o \in Admins \cup Threads : pc[o] = "idle"

\* Nobody disables the account here; GraphConnectionAdmin is about that.
NotDisabled == user.status \in Usable

IInv ==
    /\ TypeOK
    /\ KindOK
    /\ NotDisabled
    /\ LockHeld
    /\ LinksKnown
    /\ BundleFresh
    /\ CommitHolds
    /\ UnlinkHolds
    /\ RefreshHolds
    /\ EpochGuards
    /\ TokenAttended
    /\ ActiveUsesLiveLink
    /\ NoTokenAfterUnlink
-----------------------------------------------------------------------------
(* IInv is inductive.  One lemma for each of its parts, one step for each   *)
(* group of actions; a group the part really depends on is taken apart.     *)

USE WorkersAssumption, BoundsAssumption
    DEF Workers, dbVars, lockVars, Labels, Locked, StayTo, LeaveTo, Goto, Free, Saw, Born, LockedEntry

\* What the conditional writes and a worker's memory are made of.
LEMMA Blanks == NoRow \in TokenRow /\ Blank \in Memory
  BY SMTT(30) DEF NoRow, Blank, Memory, TokenRow

LEMMA SawType == ASSUME TypeOK, NEW w \in Workers, NEW r \in TokenRow PROVE Saw(w, r) \in Memory
  BY SMTT(30) DEF TypeOK, Memory

LEMMA RefreshedType == ASSUME NEW r \in TokenRow, NEW old \in TokenRow PROVE Refreshed(r, old) \in TokenRow
  BY SMTT(30) DEF TokenRow, Refreshed

LEMMA RejectedType == ASSUME NEW r \in TokenRow, NEW v \in Nat PROVE Rejected(r, v) \in TokenRow
  BY SMTT(30) DEF TokenRow, Rejected

LEMMA ErasedType == ASSUME NEW r \in TokenRow, NEW v \in Nat PROVE Erased(r, v) \in TokenRow
  BY SMTT(30) DEF TokenRow, Erased, NoRow

\* TypeOK.
LEMMA TypeStep ==
  ASSUME TypeOK, [Next]_vars
  PROVE  TypeOK'
<1>1. ASSUME NEW w \in Workers, Locking(w)
      PROVE  TypeOK'
  <2>1. CASE TakeProcLock(w)
    <3>1. pc' \in [Workers -> Labels] /\ mem' \in [Workers -> Memory]
      BY <2>1, Blanks, SawType, RefreshedType, RejectedType, ErasedType, SMTT(30)
              DEF TypeOK, Memory, TokenRow, CurrentAccount, LinkedAccount, TakeProcLock
    <3>2. user' \in UserRecord /\ row' \in TokenRow
      BY <2>1, Blanks, SawType, RefreshedType, RejectedType, ErasedType, SMTT(30)
              DEF TypeOK, Memory, TokenRow, UserRecord, Statuses, CurrentAccount, LinkedAccount,
              TakeProcLock
    <3> QED
      BY <2>1, <3>1, <3>2, SMTT(30) DEF TypeOK, Memory, TokenRow, TakeProcLock
  <2>2. CASE TakeFileLock(w)
    <3>1. pc' \in [Workers -> Labels] /\ mem' \in [Workers -> Memory]
      BY <2>2, Blanks, SawType, RefreshedType, RejectedType, ErasedType, SMTT(30)
              DEF TypeOK, Memory, TokenRow, CurrentAccount, LinkedAccount, TakeFileLock
    <3>2. user' \in UserRecord /\ row' \in TokenRow
      BY <2>2, Blanks, SawType, RefreshedType, RejectedType, ErasedType, SMTT(30)
              DEF TypeOK, Memory, TokenRow, UserRecord, Statuses, CurrentAccount, LinkedAccount,
              TakeFileLock
    <3> QED
      BY <2>2, <3>1, <3>2, SMTT(30) DEF TypeOK, Memory, TokenRow, TakeFileLock
  <2>3. CASE LockTimeout(w)
    <3>1. pc' \in [Workers -> Labels] /\ mem' \in [Workers -> Memory]
      BY <2>3, Blanks, SawType, RefreshedType, RejectedType, ErasedType, SMTT(30)
              DEF TypeOK, Memory, TokenRow, CurrentAccount, LinkedAccount, LockTimeout
    <3>2. user' \in UserRecord /\ row' \in TokenRow
      BY <2>3, Blanks, SawType, RefreshedType, RejectedType, ErasedType, SMTT(30)
              DEF TypeOK, Memory, TokenRow, UserRecord, Statuses, CurrentAccount, LinkedAccount,
              LockTimeout
    <3> QED
      BY <2>3, <3>1, <3>2, SMTT(30) DEF TypeOK, Memory, TokenRow, LockTimeout
  <2> QED
    BY <1>1, <2>1, <2>2, <2>3 DEF Locking
<1>2. ASSUME NEW w \in Requests, StartRequest(w) \/ RequestStep(w)
      PROVE  TypeOK'
  <2>1. CASE StartRequest(w)
    <3>1. pc' \in [Workers -> Labels] /\ mem' \in [Workers -> Memory]
      BY <2>1, Blanks, SawType, RefreshedType, RejectedType, ErasedType, SMTT(30)
              DEF TypeOK, Memory, TokenRow, UserRecord, CurrentAccount, LinkedAccount, StartRequest
    <3>2. user' \in UserRecord /\ row' \in TokenRow
      BY <2>1, Blanks, SawType, RefreshedType, RejectedType, ErasedType, SMTT(30)
              DEF TypeOK, Memory, TokenRow, UserRecord, Statuses, CurrentAccount, LinkedAccount,
              StartRequest
    <3> QED
      BY <2>1, <3>1, <3>2, SMTT(30) DEF TypeOK, Memory, TokenRow, StartRequest
  <2>2. CASE CheckAccount(w)
    <3>1. pc' \in [Workers -> Labels] /\ mem' \in [Workers -> Memory]
      BY <2>2, Blanks, SawType, RefreshedType, RejectedType, ErasedType, SMTT(30)
              DEF TypeOK, Memory, TokenRow, CurrentAccount, LinkedAccount, CheckAccount
    <3>2. user' \in UserRecord /\ row' \in TokenRow
      BY <2>2, Blanks, SawType, RefreshedType, RejectedType, ErasedType, SMTT(30)
              DEF TypeOK, Memory, TokenRow, UserRecord, Statuses, CurrentAccount, LinkedAccount,
              CheckAccount
    <3> QED
      BY <2>2, <3>1, <3>2, SMTT(30) DEF TypeOK, Memory, TokenRow, CheckAccount
  <2>3. CASE ReadFresh(w)
    <3>1. pc' \in [Workers -> Labels] /\ mem' \in [Workers -> Memory]
      BY <2>3, Blanks, SawType, RefreshedType, RejectedType, ErasedType, SMTT(30)
              DEF TypeOK, Memory, TokenRow, CurrentAccount, LinkedAccount, ReadFresh
    <3>2. user' \in UserRecord /\ row' \in TokenRow
      BY <2>3, Blanks, SawType, RefreshedType, RejectedType, ErasedType, SMTT(30)
              DEF TypeOK, Memory, TokenRow, UserRecord, Statuses, CurrentAccount, LinkedAccount,
              ReadFresh
    <3> QED
      BY <2>3, <3>1, <3>2, SMTT(30) DEF TypeOK, Memory, TokenRow, ReadFresh
  <2>4. CASE RereadLocked(w)
    <3>1. pc' \in [Workers -> Labels] /\ mem' \in [Workers -> Memory]
      BY <2>4, Blanks, SawType, RefreshedType, RejectedType, ErasedType, SMTT(30)
              DEF TypeOK, Memory, TokenRow, CurrentAccount, LinkedAccount, RereadLocked
    <3>2. user' \in UserRecord /\ row' \in TokenRow
      BY <2>4, Blanks, SawType, RefreshedType, RejectedType, ErasedType, SMTT(30)
              DEF TypeOK, Memory, TokenRow, UserRecord, Statuses, CurrentAccount, LinkedAccount,
              RereadLocked
    <3> QED
      BY <2>4, <3>1, <3>2, SMTT(30) DEF TypeOK, Memory, TokenRow, RereadLocked
  <2>5. CASE RecheckFresh(w)
    <3>1. pc' \in [Workers -> Labels] /\ mem' \in [Workers -> Memory]
      BY <2>5, Blanks, SawType, RefreshedType, RejectedType, ErasedType, SMTT(30)
              DEF TypeOK, Memory, TokenRow, CurrentAccount, LinkedAccount, RecheckFresh
    <3>2. user' \in UserRecord /\ row' \in TokenRow
      BY <2>5, Blanks, SawType, RefreshedType, RejectedType, ErasedType, SMTT(30)
              DEF TypeOK, Memory, TokenRow, UserRecord, Statuses, CurrentAccount, LinkedAccount,
              RecheckFresh
    <3> QED
      BY <2>5, <3>1, <3>2, SMTT(30) DEF TypeOK, Memory, TokenRow, RecheckFresh
  <2>6. CASE EntraAnswers(w)
    <3>1. pc' \in [Workers -> Labels] /\ mem' \in [Workers -> Memory]
      BY <2>6, Blanks, SawType, RefreshedType, RejectedType, ErasedType, SMTT(30)
              DEF TypeOK, Memory, TokenRow, CurrentAccount, LinkedAccount, EntraAnswers
    <3>2. user' \in UserRecord /\ row' \in TokenRow
      BY <2>6, Blanks, SawType, RefreshedType, RejectedType, ErasedType, SMTT(30)
              DEF TypeOK, Memory, TokenRow, UserRecord, Statuses, CurrentAccount, LinkedAccount,
              EntraAnswers
    <3> QED
      BY <2>6, <3>1, <3>2, SMTT(30) DEF TypeOK, Memory, TokenRow, EntraAnswers
  <2>7. CASE MarkReauth(w)
    <3>1. pc' \in [Workers -> Labels] /\ mem' \in [Workers -> Memory]
      BY <2>7, Blanks, SawType, RefreshedType, RejectedType, ErasedType, SMTT(30)
              DEF TypeOK, Memory, TokenRow, CurrentAccount, LinkedAccount, MarkReauth
    <3>2. user' \in UserRecord /\ row' \in TokenRow
      BY <2>7, Blanks, SawType, RefreshedType, RejectedType, ErasedType, SMTT(30)
              DEF TypeOK, Memory, TokenRow, UserRecord, Statuses, CurrentAccount, LinkedAccount,
              MarkReauth
    <3> QED
      BY <2>7, <3>1, <3>2, SMTT(30) DEF TypeOK, Memory, TokenRow, MarkReauth
  <2>8. CASE RecheckBeforeSave(w)
    <3>1. pc' \in [Workers -> Labels] /\ mem' \in [Workers -> Memory]
      BY <2>8, Blanks, SawType, RefreshedType, RejectedType, ErasedType, SMTT(30)
              DEF TypeOK, Memory, TokenRow, CurrentAccount, LinkedAccount, RecheckBeforeSave
    <3>2. user' \in UserRecord /\ row' \in TokenRow
      BY <2>8, Blanks, SawType, RefreshedType, RejectedType, ErasedType, SMTT(30)
              DEF TypeOK, Memory, TokenRow, UserRecord, Statuses, CurrentAccount, LinkedAccount,
              RecheckBeforeSave
    <3> QED
      BY <2>8, <3>1, <3>2, SMTT(30) DEF TypeOK, Memory, TokenRow, RecheckBeforeSave
  <2>9. CASE SaveRefreshed(w)
    <3>1. pc' \in [Workers -> Labels] /\ mem' \in [Workers -> Memory]
      BY <2>9, Blanks, SawType, RefreshedType, RejectedType, ErasedType, SMTT(30)
              DEF TypeOK, Memory, TokenRow, CurrentAccount, LinkedAccount, SaveRefreshed
    <3>2. user' \in UserRecord /\ row' \in TokenRow
      BY <2>9, Blanks, SawType, RefreshedType, RejectedType, ErasedType, SMTT(30)
              DEF TypeOK, Memory, TokenRow, UserRecord, Statuses, CurrentAccount, LinkedAccount,
              SaveRefreshed
    <3> QED
      BY <2>9, <3>1, <3>2, SMTT(30) DEF TypeOK, Memory, TokenRow, SaveRefreshed
  <2>10. CASE CheckAfterSave(w)
    <3>1. pc' \in [Workers -> Labels] /\ mem' \in [Workers -> Memory]
      BY <2>10, Blanks, SawType, RefreshedType, RejectedType, ErasedType, SMTT(30)
              DEF TypeOK, Memory, TokenRow, CurrentAccount, LinkedAccount, CheckAfterSave
    <3>2. user' \in UserRecord /\ row' \in TokenRow
      BY <2>10, Blanks, SawType, RefreshedType, RejectedType, ErasedType, SMTT(30)
              DEF TypeOK, Memory, TokenRow, UserRecord, Statuses, CurrentAccount, LinkedAccount,
              CheckAfterSave
    <3> QED
      BY <2>10, <3>1, <3>2, SMTT(30) DEF TypeOK, Memory, TokenRow, CheckAfterSave
  <2>11. CASE ReadLatest(w)
    <3>1. pc' \in [Workers -> Labels] /\ mem' \in [Workers -> Memory]
      BY <2>11, Blanks, SawType, RefreshedType, RejectedType, ErasedType, SMTT(30)
              DEF TypeOK, Memory, TokenRow, CurrentAccount, LinkedAccount, ReadLatest
    <3>2. user' \in UserRecord /\ row' \in TokenRow
      BY <2>11, Blanks, SawType, RefreshedType, RejectedType, ErasedType, SMTT(30)
              DEF TypeOK, Memory, TokenRow, UserRecord, Statuses, CurrentAccount, LinkedAccount,
              ReadLatest
    <3> QED
      BY <2>11, <3>1, <3>2, SMTT(30) DEF TypeOK, Memory, TokenRow, ReadLatest
  <2>12. CASE HandOver(w)
    <3>1. pc' \in [Workers -> Labels] /\ mem' \in [Workers -> Memory]
      BY <2>12, Blanks, SawType, RefreshedType, RejectedType, ErasedType, SMTT(30)
              DEF TypeOK, Memory, TokenRow, CurrentAccount, LinkedAccount, HandOver
    <3>2. user' \in UserRecord /\ row' \in TokenRow
      BY <2>12, Blanks, SawType, RefreshedType, RejectedType, ErasedType, SMTT(30)
              DEF TypeOK, Memory, TokenRow, UserRecord, Statuses, CurrentAccount, LinkedAccount,
              HandOver
    <3>3. late' \subseteq late \cup dead
      BY <2>12 DEF HandOver
    <3>4. UNCHANGED <<flock, plock, links, dead, crashes>>
      BY <2>12 DEF HandOver
    <3> QED
      BY <3>1, <3>2, <3>3, <3>4 DEF TypeOK
  <2> QED
    BY <1>2, <2>1, <2>2, <2>3, <2>4, <2>5, <2>6, <2>7, <2>8, <2>9, <2>10, <2>11, <2>12 DEF RequestStep
<1>3. ASSUME NEW w \in Callbacks, StartCommit(w) \/ CommitStep(w)
      PROVE  TypeOK'
  <2>1. CASE StartCommit(w)
    <3>1. pc' \in [Workers -> Labels] /\ mem' \in [Workers -> Memory]
      BY <2>1, Blanks, SawType, RefreshedType, RejectedType, ErasedType, SMTT(30)
              DEF TypeOK, Memory, TokenRow, UserRecord, CurrentAccount, LinkedAccount, StartCommit
    <3>2. user' \in UserRecord /\ row' \in TokenRow
      BY <2>1, Blanks, SawType, RefreshedType, RejectedType, ErasedType, SMTT(30)
              DEF TypeOK, Memory, TokenRow, UserRecord, Statuses, CurrentAccount, LinkedAccount,
              StartCommit
    <3> QED
      BY <2>1, <3>1, <3>2, SMTT(30) DEF TypeOK, Memory, TokenRow, StartCommit
  <2>2. CASE VerifyEpoch(w)
    <3>1. pc' \in [Workers -> Labels] /\ mem' \in [Workers -> Memory]
      BY <2>2, Blanks, SawType, RefreshedType, RejectedType, ErasedType, SMTT(30)
              DEF TypeOK, Memory, TokenRow, CurrentAccount, LinkedAccount, VerifyEpoch
    <3>2. user' \in UserRecord /\ row' \in TokenRow
      BY <2>2, Blanks, SawType, RefreshedType, RejectedType, ErasedType, SMTT(30)
              DEF TypeOK, Memory, TokenRow, UserRecord, Statuses, CurrentAccount, LinkedAccount,
              VerifyEpoch
    <3> QED
      BY <2>2, <3>1, <3>2, SMTT(30) DEF TypeOK, Memory, TokenRow, VerifyEpoch
  <2>3. CASE ReadVersion(w)
    <3>1. pc' \in [Workers -> Labels] /\ mem' \in [Workers -> Memory]
      BY <2>3, Blanks, SawType, RefreshedType, RejectedType, ErasedType, SMTT(30)
              DEF TypeOK, Memory, TokenRow, CurrentAccount, LinkedAccount, ReadVersion
    <3>2. user' \in UserRecord /\ row' \in TokenRow
      BY <2>3, Blanks, SawType, RefreshedType, RejectedType, ErasedType, SMTT(30)
              DEF TypeOK, Memory, TokenRow, UserRecord, Statuses, CurrentAccount, LinkedAccount,
              ReadVersion
    <3> QED
      BY <2>3, <3>1, <3>2, SMTT(30) DEF TypeOK, Memory, TokenRow, ReadVersion
  <2>4. CASE StoreBundle(w)
    <3>1. pc' \in [Workers -> Labels] /\ mem' \in [Workers -> Memory]
      BY <2>4, Blanks, SawType, RefreshedType, RejectedType, ErasedType, SMTT(30)
              DEF TypeOK, Memory, TokenRow, CurrentAccount, LinkedAccount, StoreBundle
    <3>2. user' \in UserRecord /\ row' \in TokenRow
      BY <2>4, Blanks, SawType, RefreshedType, RejectedType, ErasedType, SMTT(30)
              DEF TypeOK, Memory, TokenRow, UserRecord, Statuses, CurrentAccount, LinkedAccount,
              StoreBundle
    <3> QED
      BY <2>4, <3>1, <3>2, SMTT(30) DEF TypeOK, Memory, TokenRow, StoreBundle
  <2>5. CASE ConfirmLinked(w)
    <3>1. pc' \in [Workers -> Labels] /\ mem' \in [Workers -> Memory]
      BY <2>5, Blanks, SawType, RefreshedType, RejectedType, ErasedType, SMTT(30)
              DEF TypeOK, Memory, TokenRow, ConfirmLinked
    <3>2. user' \in UserRecord /\ row' \in TokenRow
      BY <2>5, Blanks, SawType, RefreshedType, RejectedType, ErasedType, SMTT(30)
              DEF TypeOK, Memory, TokenRow, UserRecord, Statuses, CurrentAccount, LinkedAccount,
              ConfirmLinked
    <3> QED
      BY <2>5, <3>1, <3>2, SMTT(30) DEF TypeOK, Memory, TokenRow, ConfirmLinked
  <2>6. CASE UndoStore(w)
    <3>1. pc' \in [Workers -> Labels] /\ mem' \in [Workers -> Memory]
      BY <2>6, Blanks, SawType, RefreshedType, RejectedType, ErasedType, SMTT(30)
              DEF TypeOK, Memory, TokenRow, CurrentAccount, LinkedAccount, UndoStore
    <3>2. user' \in UserRecord /\ row' \in TokenRow
      BY <2>6, Blanks, SawType, RefreshedType, RejectedType, ErasedType, SMTT(30)
              DEF TypeOK, Memory, TokenRow, UserRecord, Statuses, CurrentAccount, LinkedAccount,
              UndoStore
    <3> QED
      BY <2>6, <3>1, <3>2, SMTT(30) DEF TypeOK, Memory, TokenRow, UndoStore
  <2> QED
    BY <1>3, <2>1, <2>2, <2>3, <2>4, <2>5, <2>6 DEF CommitStep
<1>4. ASSUME NEW w \in Unlinks, StartUnlink(w) \/ UnlinkStep(w)
      PROVE  TypeOK'
  <2>1. CASE StartUnlink(w)
    <3>1. pc' \in [Workers -> Labels] /\ mem' \in [Workers -> Memory]
      BY <2>1, Blanks, SawType, RefreshedType, RejectedType, ErasedType, SMTT(30)
              DEF TypeOK, Memory, TokenRow, CurrentAccount, LinkedAccount, StartUnlink
    <3>2. user' \in UserRecord /\ row' \in TokenRow
      BY <2>1, Blanks, SawType, RefreshedType, RejectedType, ErasedType, SMTT(30)
              DEF TypeOK, Memory, TokenRow, UserRecord, Statuses, CurrentAccount, LinkedAccount,
              StartUnlink
    <3> QED
      BY <2>1, <3>1, <3>2, SMTT(30) DEF TypeOK, Memory, TokenRow, StartUnlink
  <2>2. CASE ReadVersions(w)
    <3>1. pc' \in [Workers -> Labels] /\ mem' \in [Workers -> Memory]
      BY <2>2, Blanks, SawType, RefreshedType, RejectedType, ErasedType, SMTT(30)
              DEF TypeOK, Memory, TokenRow, CurrentAccount, LinkedAccount, ReadVersions
    <3>2. user' \in UserRecord /\ row' \in TokenRow
      BY <2>2, Blanks, SawType, RefreshedType, RejectedType, ErasedType, SMTT(30)
              DEF TypeOK, Memory, TokenRow, UserRecord, Statuses, CurrentAccount, LinkedAccount,
              ReadVersions
    <3> QED
      BY <2>2, <3>1, <3>2, SMTT(30) DEF TypeOK, Memory, TokenRow, ReadVersions
  <2>3. CASE MarkUnlinked(w)
    <3>1. pc' \in [Workers -> Labels] /\ mem' \in [Workers -> Memory]
      BY <2>3, Blanks, SawType, RefreshedType, RejectedType, ErasedType, SMTT(30)
              DEF TypeOK, Memory, TokenRow, CurrentAccount, LinkedAccount, MarkUnlinked
    <3>2. user' \in UserRecord /\ row' \in TokenRow
      BY <2>3, Blanks, SawType, RefreshedType, RejectedType, ErasedType, SMTT(30)
              DEF TypeOK, Memory, TokenRow, UserRecord, Statuses, CurrentAccount, LinkedAccount,
              MarkUnlinked
    <3>3. mem[w].row.link \in Nat
      BY SMTT(30) DEF TypeOK, Memory, TokenRow
    <3>4. dead' \subseteq dead \cup Nat
      BY <2>3, <3>3 DEF MarkUnlinked
    <3>5. UNCHANGED <<flock, plock, links, late, crashes>>
      BY <2>3 DEF MarkUnlinked
    <3> QED
      BY <3>1, <3>2, <3>4, <3>5 DEF TypeOK
  <2>4. CASE EraseToken(w)
    <3>1. pc' \in [Workers -> Labels] /\ mem' \in [Workers -> Memory]
      BY <2>4, Blanks, SawType, RefreshedType, RejectedType, ErasedType, SMTT(30)
              DEF TypeOK, Memory, TokenRow, CurrentAccount, LinkedAccount, EraseToken
    <3>2. user' \in UserRecord /\ row' \in TokenRow
      BY <2>4, Blanks, SawType, RefreshedType, RejectedType, ErasedType, SMTT(30)
              DEF TypeOK, Memory, TokenRow, UserRecord, Statuses, CurrentAccount, LinkedAccount,
              EraseToken
    <3> QED
      BY <2>4, <3>1, <3>2, SMTT(30) DEF TypeOK, Memory, TokenRow, EraseToken
  <2> QED
    BY <1>4, <2>1, <2>2, <2>3, <2>4 DEF UnlinkStep
<1>5. CASE TokenExpires
  BY <1>5, SMTT(30) DEF TypeOK, TokenExpires, TokenRow
<1>6. ASSUME NEW p \in Procs, Crash(p)
      PROVE  TypeOK'
  <2>1. pc' \in [Workers -> Labels] /\ mem' \in [Workers -> Memory]
    BY <1>6, Blanks, SMTT(30) DEF TypeOK, Crash
  <2>2. plock' \in [Procs -> Workers \cup {NoWorker}] /\ flock' \in Workers \cup {NoWorker}
    BY <1>6, SMTT(30) DEF TypeOK, Crash
  <2>3. UNCHANGED <<user, row, links, dead, late>> /\ crashes' \in Nat
    BY <1>6, SMTT(30) DEF TypeOK, Crash
  <2> QED
    BY <2>1, <2>2, <2>3 DEF TypeOK
<1>7. CASE UNCHANGED vars
  BY <1>7, SMTT(30) DEF TypeOK, vars
<1> QED
  BY <1>1, <1>2, <1>3, <1>4, <1>5, <1>6, <1>7 DEF Next

\* KindOK: a worker only ever reaches its own kind's program points.
LEMMA KindOKStep ==
  ASSUME IInv, [Next]_vars
  PROVE  KindOK'
<1>1. ASSUME NEW w \in Workers, Locking(w)
      PROVE  KindOK'
  BY <1>1, SMTT(60) DEF IInv, KindOK, TypeOK, Locking, TakeProcLock, TakeFileLock, LockTimeout,
          RequestLabels, CommitLabels, UnlinkLabels
<1>2. ASSUME NEW w \in Requests, StartRequest(w) \/ RequestStep(w)
      PROVE  KindOK'
  BY <1>2, SMTT(60) DEF IInv, KindOK, TypeOK, RequestStep, StartRequest, CheckAccount,
          ReadFresh, RereadLocked, RecheckFresh, EntraAnswers, MarkReauth, RecheckBeforeSave,
          SaveRefreshed, CheckAfterSave, ReadLatest, HandOver, RequestLabels, CommitLabels,
          UnlinkLabels
<1>3. ASSUME NEW w \in Callbacks, StartCommit(w) \/ CommitStep(w)
      PROVE  KindOK'
  BY <1>3, SMTT(60) DEF IInv, KindOK, TypeOK, CommitStep, StartCommit, VerifyEpoch,
          ReadVersion, StoreBundle, ConfirmLinked, UndoStore, RequestLabels, CommitLabels,
          UnlinkLabels
<1>4. ASSUME NEW w \in Unlinks, StartUnlink(w) \/ UnlinkStep(w)
      PROVE  KindOK'
  BY <1>4, SMTT(60) DEF IInv, KindOK, TypeOK, UnlinkStep, StartUnlink, ReadVersions,
          MarkUnlinked, EraseToken, RequestLabels, CommitLabels, UnlinkLabels
<1>5. CASE TokenExpires
  BY <1>5, SMTT(30) DEF IInv, KindOK, TypeOK, TokenExpires, RequestLabels, CommitLabels,
          UnlinkLabels
<1>6. ASSUME NEW p \in Procs, Crash(p)
      PROVE  KindOK'
  BY <1>6, SMTT(30) DEF IInv, KindOK, TypeOK, Crash, RequestLabels, CommitLabels, UnlinkLabels
<1>7. CASE UNCHANGED vars
  BY <1>7, SMTT(30) DEF IInv, KindOK, TypeOK, vars
<1> QED
  BY <1>1, <1>2, <1>3, <1>4, <1>5, <1>6, <1>7 DEF Next

\* NotDisabled: only a disconnect and a confirmed connection change the status.
LEMMA NotDisabledStep ==
  ASSUME IInv, [Next]_vars
  PROVE  NotDisabled'
<1>1. ASSUME NEW w \in Workers, Locking(w)
      PROVE  NotDisabled'
  BY <1>1, SMTT(60) DEF IInv, NotDisabled, TypeOK, Locking, TakeProcLock, TakeFileLock,
          LockTimeout, Usable, UserRecord, Statuses, CurrentAccount
<1>2. ASSUME NEW w \in Requests, StartRequest(w) \/ RequestStep(w)
      PROVE  NotDisabled'
  BY <1>2, SMTT(60) DEF IInv, NotDisabled, TypeOK, RequestStep, StartRequest, CheckAccount,
          ReadFresh, RereadLocked, RecheckFresh, EntraAnswers, MarkReauth, RecheckBeforeSave,
          SaveRefreshed, CheckAfterSave, ReadLatest, HandOver, Usable, UserRecord, Statuses,
          CurrentAccount
<1>3. ASSUME NEW w \in Callbacks, StartCommit(w) \/ CommitStep(w)
      PROVE  NotDisabled'
  BY <1>3, SMTT(60) DEF IInv, NotDisabled, TypeOK, CommitStep, StartCommit, VerifyEpoch,
          ReadVersion, StoreBundle, ConfirmLinked, UndoStore, Usable, UserRecord, Statuses,
          CurrentAccount
<1>4. ASSUME NEW w \in Unlinks, StartUnlink(w) \/ UnlinkStep(w)
      PROVE  NotDisabled'
  BY <1>4, SMTT(60) DEF IInv, NotDisabled, TypeOK, UnlinkStep, StartUnlink, ReadVersions,
          MarkUnlinked, EraseToken, Usable, UserRecord, Statuses, CurrentAccount
<1>5. CASE TokenExpires
  BY <1>5, SMTT(30) DEF IInv, NotDisabled, TypeOK, TokenExpires, Usable, UserRecord, Statuses,
          CurrentAccount
<1>6. ASSUME NEW p \in Procs, Crash(p)
      PROVE  NotDisabled'
  BY <1>6, SMTT(30) DEF IInv, NotDisabled, TypeOK, Crash, Usable, UserRecord, Statuses,
          CurrentAccount
<1>7. CASE UNCHANGED vars
  BY <1>7, SMTT(30) DEF IInv, NotDisabled, TypeOK, vars, CurrentAccount
<1> QED
  BY <1>1, <1>2, <1>3, <1>4, <1>5, <1>6, <1>7 DEF Next

\* LockHeld: the file lock is taken on entering a locked section and given back on leaving it.
LEMMA LockHeldStep ==
  ASSUME TypeOK, LockHeld, [Next]_vars
  PROVE  LockHeld'
<1>1. ASSUME NEW w \in Workers, Locking(w)
      PROVE  LockHeld'
  BY <1>1, SMTT(30) DEF LockHeld, TypeOK, Locking, TakeProcLock, TakeFileLock,
          LockTimeout
<1>2. ASSUME NEW w \in Requests, StartRequest(w) \/ RequestStep(w)
      PROVE  LockHeld'
  BY <1>2, SMTT(30) DEF LockHeld, TypeOK, RequestStep, StartRequest,
          CheckAccount, ReadFresh, RereadLocked, RecheckFresh, EntraAnswers, MarkReauth,
          RecheckBeforeSave, SaveRefreshed, CheckAfterSave, ReadLatest, HandOver
<1>3. ASSUME NEW w \in Callbacks, StartCommit(w) \/ CommitStep(w)
      PROVE  LockHeld'
  BY <1>3, SMTT(30) DEF LockHeld, TypeOK, CommitStep, StartCommit, VerifyEpoch,
          ReadVersion, StoreBundle, ConfirmLinked, UndoStore
<1>4. ASSUME NEW w \in Unlinks, StartUnlink(w) \/ UnlinkStep(w)
      PROVE  LockHeld'
  BY <1>4, SMTT(30) DEF LockHeld, TypeOK, UnlinkStep, StartUnlink, ReadVersions,
          MarkUnlinked, EraseToken
<1>5. CASE TokenExpires
  BY <1>5, SMTT(30) DEF LockHeld, TypeOK, TokenExpires
<1>6. ASSUME NEW p \in Procs, Crash(p)
      PROVE  LockHeld'
  BY <1>6, SMTT(30) DEF LockHeld, TypeOK, Crash
<1>7. CASE UNCHANGED vars
  BY <1>7, SMTT(30) DEF LockHeld, TypeOK, vars
<1> QED
  BY <1>1, <1>2, <1>3, <1>4, <1>5, <1>6, <1>7 DEF Next

\* LinksKnown: no stored or remembered link is one that was not handed out yet.
LEMMA LinksKnownStep ==
  ASSUME IInv, [Next]_vars
  PROVE  LinksKnown'
<1>1. ASSUME NEW w \in Workers, Locking(w)
      PROVE  LinksKnown'
  <2>1. CASE TakeProcLock(w)
    BY <2>1, SMTT(30) DEF IInv, LinksKnown, TypeOK, KindOK, BundleFresh, UnlinkHolds,
            RefreshHolds, TakeProcLock, Unstored, Memory, TokenRow, Blank, NoRow, Present,
            Refreshed, Rejected, Erased, RequestLabels, CommitLabels, UnlinkLabels
  <2>2. CASE TakeFileLock(w)
    BY <2>2, SMTT(30) DEF IInv, LinksKnown, TypeOK, KindOK, BundleFresh, UnlinkHolds,
            RefreshHolds, TakeFileLock, Unstored, Memory, TokenRow, Blank, NoRow, Present,
            Refreshed, Rejected, Erased, RequestLabels, CommitLabels, UnlinkLabels
  <2>3. CASE LockTimeout(w)
    BY <2>3, SMTT(30) DEF IInv, LinksKnown, TypeOK, KindOK, BundleFresh, UnlinkHolds,
            RefreshHolds, LockTimeout, Unstored, Memory, TokenRow, Blank, NoRow, Present,
            Refreshed, Rejected, Erased, RequestLabels, CommitLabels, UnlinkLabels
  <2> QED
    BY <1>1, <2>1, <2>2, <2>3 DEF Locking
<1>2. ASSUME NEW w \in Requests, StartRequest(w) \/ RequestStep(w)
      PROVE  LinksKnown'
  <2>1. CASE StartRequest(w)
    BY <2>1, SMTT(30) DEF IInv, LinksKnown, TypeOK, KindOK, BundleFresh, UnlinkHolds,
            RefreshHolds, StartRequest, Unstored, Memory, TokenRow, Blank, NoRow, Present,
            Refreshed, Rejected, Erased, RequestLabels, CommitLabels, UnlinkLabels
  <2>2. CASE CheckAccount(w)
    BY <2>2, SMTT(30) DEF IInv, LinksKnown, TypeOK, KindOK, BundleFresh, UnlinkHolds,
            RefreshHolds, CheckAccount, Unstored, Memory, TokenRow, Blank, NoRow, Present,
            Refreshed, Rejected, Erased, RequestLabels, CommitLabels, UnlinkLabels
  <2>3. CASE ReadFresh(w)
    BY <2>3, SMTT(30) DEF IInv, LinksKnown, TypeOK, KindOK, BundleFresh, UnlinkHolds,
            RefreshHolds, ReadFresh, Unstored, Memory, TokenRow, Blank, NoRow, Present,
            Refreshed, Rejected, Erased, RequestLabels, CommitLabels, UnlinkLabels
  <2>4. CASE RereadLocked(w)
    BY <2>4, SMTT(30) DEF IInv, LinksKnown, TypeOK, KindOK, BundleFresh, UnlinkHolds,
            RefreshHolds, RereadLocked, Unstored, Memory, TokenRow, Blank, NoRow, Present,
            Refreshed, Rejected, Erased, RequestLabels, CommitLabels, UnlinkLabels
  <2>5. CASE RecheckFresh(w)
    BY <2>5, SMTT(30) DEF IInv, LinksKnown, TypeOK, KindOK, BundleFresh, UnlinkHolds,
            RefreshHolds, RecheckFresh, Unstored, Memory, TokenRow, Blank, NoRow, Present,
            Refreshed, Rejected, Erased, RequestLabels, CommitLabels, UnlinkLabels
  <2>6. CASE EntraAnswers(w)
    BY <2>6, SMTT(30) DEF IInv, LinksKnown, TypeOK, KindOK, BundleFresh, UnlinkHolds,
            RefreshHolds, EntraAnswers, Unstored, Memory, TokenRow, Blank, NoRow, Present,
            Refreshed, Rejected, Erased, RequestLabels, CommitLabels, UnlinkLabels
  <2>7. CASE MarkReauth(w)
    BY <2>7, SMTT(30) DEF IInv, LinksKnown, TypeOK, KindOK, BundleFresh, UnlinkHolds,
            RefreshHolds, MarkReauth, Unstored, Memory, TokenRow, Blank, NoRow, Present,
            Refreshed, Rejected, Erased, RequestLabels, CommitLabels, UnlinkLabels
  <2>8. CASE RecheckBeforeSave(w)
    BY <2>8, SMTT(30) DEF IInv, LinksKnown, TypeOK, KindOK, BundleFresh, UnlinkHolds,
            RefreshHolds, RecheckBeforeSave, Unstored, Memory, TokenRow, Blank, NoRow, Present,
            Refreshed, Rejected, Erased, RequestLabels, CommitLabels, UnlinkLabels
  <2>9. CASE SaveRefreshed(w)
    BY <2>9, SMTT(30) DEF IInv, LinksKnown, TypeOK, KindOK, BundleFresh, UnlinkHolds,
            RefreshHolds, SaveRefreshed, Unstored, Memory, TokenRow, Blank, NoRow, Present,
            Refreshed, Rejected, Erased, RequestLabels, CommitLabels, UnlinkLabels
  <2>10. CASE CheckAfterSave(w)
    BY <2>10, SMTT(30) DEF IInv, LinksKnown, TypeOK, KindOK, BundleFresh, UnlinkHolds,
            RefreshHolds, CheckAfterSave, Unstored, Memory, TokenRow, Blank, NoRow, Present,
            Refreshed, Rejected, Erased, RequestLabels, CommitLabels, UnlinkLabels
  <2>11. CASE ReadLatest(w)
    BY <2>11, SMTT(30) DEF IInv, LinksKnown, TypeOK, KindOK, BundleFresh, UnlinkHolds,
            RefreshHolds, ReadLatest, Unstored, Memory, TokenRow, Blank, NoRow, Present,
            Refreshed, Rejected, Erased, RequestLabels, CommitLabels, UnlinkLabels
  <2>12. CASE HandOver(w)
    BY <2>12, SMTT(30) DEF IInv, LinksKnown, TypeOK, KindOK, BundleFresh, UnlinkHolds,
            RefreshHolds, HandOver, Unstored, Memory, TokenRow, Blank, NoRow, Present,
            Refreshed, Rejected, Erased, RequestLabels, CommitLabels, UnlinkLabels
  <2> QED
    BY <1>2, <2>1, <2>2, <2>3, <2>4, <2>5, <2>6, <2>7, <2>8, <2>9, <2>10, <2>11, <2>12 DEF RequestStep
<1>3. ASSUME NEW w \in Callbacks, StartCommit(w) \/ CommitStep(w)
      PROVE  LinksKnown'
  <2>1. CASE StartCommit(w)
    BY <2>1, SMTT(30) DEF IInv, LinksKnown, TypeOK, KindOK, BundleFresh, UnlinkHolds,
            RefreshHolds, StartCommit, Unstored, Memory, TokenRow, Blank, NoRow, Present,
            Refreshed, Rejected, Erased, RequestLabels, CommitLabels, UnlinkLabels
  <2>2. CASE VerifyEpoch(w)
    BY <2>2, SMTT(30) DEF IInv, LinksKnown, TypeOK, KindOK, BundleFresh, UnlinkHolds,
            RefreshHolds, VerifyEpoch, Unstored, Memory, TokenRow, Blank, NoRow, Present,
            Refreshed, Rejected, Erased, RequestLabels, CommitLabels, UnlinkLabels
  <2>3. CASE ReadVersion(w)
    BY <2>3, SMTT(30) DEF IInv, LinksKnown, TypeOK, KindOK, BundleFresh, UnlinkHolds,
            RefreshHolds, ReadVersion, Unstored, Memory, TokenRow, Blank, NoRow, Present,
            Refreshed, Rejected, Erased, RequestLabels, CommitLabels, UnlinkLabels
  <2>4. CASE StoreBundle(w)
    BY <2>4, SMTT(30) DEF IInv, LinksKnown, TypeOK, KindOK, BundleFresh, UnlinkHolds,
            RefreshHolds, StoreBundle, Unstored, Memory, TokenRow, Blank, NoRow, Present,
            Refreshed, Rejected, Erased, RequestLabels, CommitLabels, UnlinkLabels
  <2>5. CASE ConfirmLinked(w)
    BY <2>5, SMTT(30) DEF IInv, LinksKnown, TypeOK, KindOK, BundleFresh, UnlinkHolds,
            RefreshHolds, ConfirmLinked, Unstored, Memory, TokenRow, Blank, NoRow, Present,
            Refreshed, Rejected, Erased, RequestLabels, CommitLabels, UnlinkLabels
  <2>6. CASE UndoStore(w)
    BY <2>6, SMTT(30) DEF IInv, LinksKnown, TypeOK, KindOK, BundleFresh, UnlinkHolds,
            RefreshHolds, UndoStore, Unstored, Memory, TokenRow, Blank, NoRow, Present,
            Refreshed, Rejected, Erased, RequestLabels, CommitLabels, UnlinkLabels
  <2> QED
    BY <1>3, <2>1, <2>2, <2>3, <2>4, <2>5, <2>6 DEF CommitStep
<1>4. ASSUME NEW w \in Unlinks, StartUnlink(w) \/ UnlinkStep(w)
      PROVE  LinksKnown'
  <2>1. CASE StartUnlink(w)
    BY <2>1, SMTT(30) DEF IInv, LinksKnown, TypeOK, KindOK, BundleFresh, UnlinkHolds,
            RefreshHolds, StartUnlink, Unstored, Memory, TokenRow, Blank, NoRow, Present,
            Refreshed, Rejected, Erased, RequestLabels, CommitLabels, UnlinkLabels
  <2>2. CASE ReadVersions(w)
    BY <2>2, SMTT(30) DEF IInv, LinksKnown, TypeOK, KindOK, BundleFresh, UnlinkHolds,
            RefreshHolds, ReadVersions, Unstored, Memory, TokenRow, Blank, NoRow, Present,
            Refreshed, Rejected, Erased, RequestLabels, CommitLabels, UnlinkLabels
  <2>3. CASE MarkUnlinked(w)
    <3>1. {mem[w].row.link} \ {0} \subseteq 1..links
      BY SMTT(30) DEF IInv, TypeOK, LinksKnown, Memory, TokenRow
    <3>2. mem' = [mem EXCEPT ![w] = mem[w]] /\ UNCHANGED <<row, links>>
      BY <2>3 DEF MarkUnlinked
    <3>3. dead' \subseteq 1..links'
      BY <2>3, <3>1, <3>2, SMTT(30) DEF IInv, LinksKnown, MarkUnlinked
    <3>4. \A v \in Workers : mem'[v] = mem[v]
      BY <3>2 DEF IInv, TypeOK
    <3> QED
      BY <3>2, <3>3, <3>4 DEF IInv, LinksKnown, Present
  <2>4. CASE EraseToken(w)
    BY <2>4, SMTT(30) DEF IInv, LinksKnown, TypeOK, KindOK, BundleFresh, UnlinkHolds,
            RefreshHolds, EraseToken, Unstored, Memory, TokenRow, Blank, NoRow, Present,
            Refreshed, Rejected, Erased, RequestLabels, CommitLabels, UnlinkLabels
  <2> QED
    BY <1>4, <2>1, <2>2, <2>3, <2>4 DEF UnlinkStep
<1>5. CASE TokenExpires
  BY <1>5, SMTT(30) DEF IInv, LinksKnown, TypeOK, KindOK, BundleFresh, UnlinkHolds,
          RefreshHolds, TokenExpires, Unstored, Memory, TokenRow, Blank, NoRow, Present,
          Refreshed, Rejected, Erased, RequestLabels, CommitLabels, UnlinkLabels
<1>6. ASSUME NEW p \in Procs, Crash(p)
      PROVE  LinksKnown'
  BY <1>6, SMTT(30) DEF IInv, LinksKnown, TypeOK, KindOK, BundleFresh, UnlinkHolds,
          RefreshHolds, Crash, Unstored, Memory, TokenRow, Blank, NoRow, Present, Refreshed,
          Rejected, Erased, RequestLabels, CommitLabels, UnlinkLabels
<1>7. CASE UNCHANGED vars
  BY <1>7, SMTT(30) DEF IInv, LinksKnown, TypeOK, KindOK, BundleFresh, UnlinkHolds,
          RefreshHolds, vars
<1> QED
  BY <1>1, <1>2, <1>3, <1>4, <1>5, <1>6, <1>7 DEF Next

\* BundleFresh: a bundle that is not stored yet is known to its callback alone.
LEMMA BundleFreshStep ==
  ASSUME IInv, [Next]_vars
  PROVE  BundleFresh'
<1>1. ASSUME NEW w \in Workers, Locking(w)
      PROVE  BundleFresh'
  BY <1>1, SMTT(60) DEF IInv, BundleFresh, TypeOK, KindOK, LinksKnown, UnlinkHolds,
          RefreshHolds, Locking, TakeProcLock, TakeFileLock, LockTimeout, Unstored, Memory,
          TokenRow, Blank, NoRow, Present, Refreshed, Rejected, Erased, RequestLabels,
          CommitLabels, UnlinkLabels
<1>2. ASSUME NEW w \in Requests, StartRequest(w) \/ RequestStep(w)
      PROVE  BundleFresh'
  <2>1. CASE StartRequest(w)
    BY <2>1, SMTT(30) DEF IInv, BundleFresh, TypeOK, KindOK, LinksKnown, UnlinkHolds,
            RefreshHolds, StartRequest, Unstored, Memory, TokenRow, Blank, NoRow, Present,
            Refreshed, Rejected, Erased, RequestLabels, CommitLabels, UnlinkLabels
  <2>2. CASE CheckAccount(w)
    BY <2>2, SMTT(30) DEF IInv, BundleFresh, TypeOK, KindOK, LinksKnown, UnlinkHolds,
            RefreshHolds, CheckAccount, Unstored, Memory, TokenRow, Blank, NoRow, Present,
            Refreshed, Rejected, Erased, RequestLabels, CommitLabels, UnlinkLabels
  <2>3. CASE ReadFresh(w)
    BY <2>3, SMTT(30) DEF IInv, BundleFresh, TypeOK, KindOK, LinksKnown, UnlinkHolds,
            RefreshHolds, ReadFresh, Unstored, Memory, TokenRow, Blank, NoRow, Present,
            Refreshed, Rejected, Erased, RequestLabels, CommitLabels, UnlinkLabels
  <2>4. CASE RereadLocked(w)
    BY <2>4, SMTT(30) DEF IInv, BundleFresh, TypeOK, KindOK, LinksKnown, UnlinkHolds,
            RefreshHolds, RereadLocked, Unstored, Memory, TokenRow, Blank, NoRow, Present,
            Refreshed, Rejected, Erased, RequestLabels, CommitLabels, UnlinkLabels
  <2>5. CASE RecheckFresh(w)
    BY <2>5, SMTT(30) DEF IInv, BundleFresh, TypeOK, KindOK, LinksKnown, UnlinkHolds,
            RefreshHolds, RecheckFresh, Unstored, Memory, TokenRow, Blank, NoRow, Present,
            Refreshed, Rejected, Erased, RequestLabels, CommitLabels, UnlinkLabels
  <2>6. CASE EntraAnswers(w)
    BY <2>6, SMTT(30) DEF IInv, BundleFresh, TypeOK, KindOK, LinksKnown, UnlinkHolds,
            RefreshHolds, EntraAnswers, Unstored, Memory, TokenRow, Blank, NoRow, Present,
            Refreshed, Rejected, Erased, RequestLabels, CommitLabels, UnlinkLabels
  <2>7. CASE MarkReauth(w)
    BY <2>7, SMTT(30) DEF IInv, BundleFresh, TypeOK, KindOK, LinksKnown, UnlinkHolds,
            RefreshHolds, MarkReauth, Unstored, Memory, TokenRow, Blank, NoRow, Present,
            Refreshed, Rejected, Erased, RequestLabels, CommitLabels, UnlinkLabels
  <2>8. CASE RecheckBeforeSave(w)
    BY <2>8, SMTT(30) DEF IInv, BundleFresh, TypeOK, KindOK, LinksKnown, UnlinkHolds,
            RefreshHolds, RecheckBeforeSave, Unstored, Memory, TokenRow, Blank, NoRow, Present,
            Refreshed, Rejected, Erased, RequestLabels, CommitLabels, UnlinkLabels
  <2>9. CASE SaveRefreshed(w)
    BY <2>9, SMTT(30) DEF IInv, BundleFresh, TypeOK, KindOK, LinksKnown, UnlinkHolds,
            RefreshHolds, SaveRefreshed, Unstored, Memory, TokenRow, Blank, NoRow, Present,
            Refreshed, Rejected, Erased, RequestLabels, CommitLabels, UnlinkLabels
  <2>10. CASE CheckAfterSave(w)
    BY <2>10, SMTT(30) DEF IInv, BundleFresh, TypeOK, KindOK, LinksKnown, UnlinkHolds,
            RefreshHolds, CheckAfterSave, Unstored, Memory, TokenRow, Blank, NoRow, Present,
            Refreshed, Rejected, Erased, RequestLabels, CommitLabels, UnlinkLabels
  <2>11. CASE ReadLatest(w)
    BY <2>11, SMTT(30) DEF IInv, BundleFresh, TypeOK, KindOK, LinksKnown, UnlinkHolds,
            RefreshHolds, ReadLatest, Unstored, Memory, TokenRow, Blank, NoRow, Present,
            Refreshed, Rejected, Erased, RequestLabels, CommitLabels, UnlinkLabels
  <2>12. CASE HandOver(w)
    BY <2>12, SMTT(30) DEF IInv, BundleFresh, TypeOK, KindOK, LinksKnown, UnlinkHolds,
            RefreshHolds, HandOver, Unstored, Memory, TokenRow, Blank, NoRow, Present,
            Refreshed, Rejected, Erased, RequestLabels, CommitLabels, UnlinkLabels
  <2> QED
    BY <1>2, <2>1, <2>2, <2>3, <2>4, <2>5, <2>6, <2>7, <2>8, <2>9, <2>10, <2>11, <2>12 DEF RequestStep
<1>3. ASSUME NEW w \in Callbacks, StartCommit(w) \/ CommitStep(w)
      PROVE  BundleFresh'
  <2>1. CASE StartCommit(w)
    BY <2>1, SMTT(30) DEF IInv, BundleFresh, TypeOK, KindOK, LinksKnown, UnlinkHolds,
            RefreshHolds, StartCommit, Unstored, Memory, TokenRow, Blank, NoRow, Present,
            Refreshed, Rejected, Erased, RequestLabels, CommitLabels, UnlinkLabels
  <2>2. CASE VerifyEpoch(w)
    BY <2>2, SMTT(30) DEF IInv, BundleFresh, TypeOK, KindOK, LinksKnown, UnlinkHolds,
            RefreshHolds, VerifyEpoch, Unstored, Memory, TokenRow, Blank, NoRow, Present,
            Refreshed, Rejected, Erased, RequestLabels, CommitLabels, UnlinkLabels
  <2>3. CASE ReadVersion(w)
    BY <2>3, SMTT(30) DEF IInv, BundleFresh, TypeOK, KindOK, LinksKnown, UnlinkHolds,
            RefreshHolds, ReadVersion, Unstored, Memory, TokenRow, Blank, NoRow, Present,
            Refreshed, Rejected, Erased, RequestLabels, CommitLabels, UnlinkLabels
  <2>4. CASE StoreBundle(w)
    BY <2>4, SMTT(30) DEF IInv, BundleFresh, TypeOK, KindOK, LinksKnown, UnlinkHolds,
            RefreshHolds, StoreBundle, Unstored, Memory, TokenRow, Blank, NoRow, Present,
            Refreshed, Rejected, Erased, RequestLabels, CommitLabels, UnlinkLabels
  <2>5. CASE ConfirmLinked(w)
    BY <2>5, SMTT(30) DEF IInv, BundleFresh, TypeOK, KindOK, LinksKnown, UnlinkHolds,
            RefreshHolds, ConfirmLinked, Unstored, Memory, TokenRow, Blank, NoRow, Present,
            Refreshed, Rejected, Erased, RequestLabels, CommitLabels, UnlinkLabels
  <2>6. CASE UndoStore(w)
    BY <2>6, SMTT(30) DEF IInv, BundleFresh, TypeOK, KindOK, LinksKnown, UnlinkHolds,
            RefreshHolds, UndoStore, Unstored, Memory, TokenRow, Blank, NoRow, Present,
            Refreshed, Rejected, Erased, RequestLabels, CommitLabels, UnlinkLabels
  <2> QED
    BY <1>3, <2>1, <2>2, <2>3, <2>4, <2>5, <2>6 DEF CommitStep
<1>4. ASSUME NEW w \in Unlinks, StartUnlink(w) \/ UnlinkStep(w)
      PROVE  BundleFresh'
  BY <1>4, SMTT(60) DEF IInv, BundleFresh, TypeOK, KindOK, LinksKnown, UnlinkHolds,
          RefreshHolds, UnlinkStep, StartUnlink, ReadVersions, MarkUnlinked, EraseToken,
          Unstored, Memory, TokenRow, Blank, NoRow, Present, Refreshed, Rejected, Erased,
          RequestLabels, CommitLabels, UnlinkLabels
<1>5. CASE TokenExpires
  BY <1>5, SMTT(30) DEF IInv, BundleFresh, TypeOK, KindOK, LinksKnown, UnlinkHolds,
          RefreshHolds, TokenExpires, Unstored, Memory, TokenRow, Blank, NoRow, Present,
          Refreshed, Rejected, Erased, RequestLabels, CommitLabels, UnlinkLabels
<1>6. ASSUME NEW p \in Procs, Crash(p)
      PROVE  BundleFresh'
  BY <1>6, SMTT(30) DEF IInv, BundleFresh, TypeOK, KindOK, LinksKnown, UnlinkHolds,
          RefreshHolds, Crash, Unstored, Memory, TokenRow, Blank, NoRow, Present, Refreshed,
          Rejected, Erased, RequestLabels, CommitLabels, UnlinkLabels
<1>7. CASE UNCHANGED vars
  BY <1>7, SMTT(30) DEF IInv, BundleFresh, TypeOK, KindOK, LinksKnown, UnlinkHolds,
          RefreshHolds, vars
<1> QED
  BY <1>1, <1>2, <1>3, <1>4, <1>5, <1>6, <1>7 DEF Next

\* CommitHolds: what a callback read inside its locked section stays true until it leaves.
LEMMA CommitHoldsStep ==
  ASSUME IInv, [Next]_vars
  PROVE  CommitHolds'
<1>1. ASSUME NEW w \in Workers, Locking(w)
      PROVE  CommitHolds'
  BY <1>1, SMTT(60) DEF IInv, CommitHolds, TypeOK, KindOK, LockHeld, LinksKnown, BundleFresh,
          Locking, TakeProcLock, TakeFileLock, LockTimeout, Unstored, Memory, TokenRow,
          UserRecord, Blank, NoRow, Present, Refreshed, Rejected, Erased, CurrentAccount,
          LinkedAccount, Usable, RequestLabels, CommitLabels, UnlinkLabels
<1>2. ASSUME NEW w \in Requests, StartRequest(w) \/ RequestStep(w)
      PROVE  CommitHolds'
  BY <1>2, SMTT(60) DEF IInv, CommitHolds, TypeOK, KindOK, LockHeld, LinksKnown, BundleFresh,
          RequestStep, StartRequest, CheckAccount, ReadFresh, RereadLocked, RecheckFresh,
          EntraAnswers, MarkReauth, RecheckBeforeSave, SaveRefreshed, CheckAfterSave,
          ReadLatest, HandOver, Unstored, Memory, TokenRow, UserRecord, Blank, NoRow, Present,
          Refreshed, Rejected, Erased, CurrentAccount, LinkedAccount, Usable, RequestLabels,
          CommitLabels, UnlinkLabels
<1>3. ASSUME NEW w \in Callbacks, StartCommit(w) \/ CommitStep(w)
      PROVE  CommitHolds'
  BY <1>3, SMTT(60) DEF IInv, CommitHolds, TypeOK, KindOK, LockHeld, LinksKnown, BundleFresh,
          CommitStep, StartCommit, VerifyEpoch, ReadVersion, StoreBundle, ConfirmLinked,
          UndoStore, Unstored, Memory, TokenRow, UserRecord, Blank, NoRow, Present, Refreshed,
          Rejected, Erased, CurrentAccount, LinkedAccount, Usable, RequestLabels, CommitLabels,
          UnlinkLabels
<1>4. ASSUME NEW w \in Unlinks, StartUnlink(w) \/ UnlinkStep(w)
      PROVE  CommitHolds'
  BY <1>4, SMTT(60) DEF IInv, CommitHolds, TypeOK, KindOK, LockHeld, LinksKnown, BundleFresh,
          UnlinkStep, StartUnlink, ReadVersions, MarkUnlinked, EraseToken, Unstored, Memory,
          TokenRow, UserRecord, Blank, NoRow, Present, Refreshed, Rejected, Erased,
          CurrentAccount, LinkedAccount, Usable, RequestLabels, CommitLabels, UnlinkLabels
<1>5. CASE TokenExpires
  BY <1>5, SMTT(30) DEF IInv, CommitHolds, TypeOK, KindOK, LockHeld, LinksKnown, BundleFresh,
          TokenExpires, Unstored, Memory, TokenRow, UserRecord, Blank, NoRow, Present,
          Refreshed, Rejected, Erased, CurrentAccount, LinkedAccount, Usable, RequestLabels,
          CommitLabels, UnlinkLabels
<1>6. ASSUME NEW p \in Procs, Crash(p)
      PROVE  CommitHolds'
  BY <1>6, SMTT(30) DEF IInv, CommitHolds, TypeOK, KindOK, LockHeld, LinksKnown, BundleFresh,
          Crash, Unstored, Memory, TokenRow, UserRecord, Blank, NoRow, Present, Refreshed,
          Rejected, Erased, CurrentAccount, LinkedAccount, Usable, RequestLabels, CommitLabels,
          UnlinkLabels
<1>7. CASE UNCHANGED vars
  BY <1>7, SMTT(30) DEF IInv, CommitHolds, TypeOK, KindOK, LockHeld, LinksKnown, BundleFresh,
          vars, CurrentAccount, LinkedAccount
<1> QED
  BY <1>1, <1>2, <1>3, <1>4, <1>5, <1>6, <1>7 DEF Next

\* UnlinkHolds: what a disconnect read inside its locked section stays true until it leaves.
LEMMA UnlinkHoldsStep ==
  ASSUME IInv, [Next]_vars
  PROVE  UnlinkHolds'
<1>1. ASSUME NEW w \in Workers, Locking(w)
      PROVE  UnlinkHolds'
  BY <1>1, SMTT(60) DEF IInv, UnlinkHolds, NotDisabled, TypeOK, KindOK, LockHeld, Locking,
          TakeProcLock, TakeFileLock, LockTimeout, Memory, TokenRow, UserRecord, Blank, NoRow,
          Present, Refreshed, Rejected, Erased, CurrentAccount, LinkedAccount, Usable,
          RequestLabels, CommitLabels, UnlinkLabels
<1>2. ASSUME NEW w \in Requests, StartRequest(w) \/ RequestStep(w)
      PROVE  UnlinkHolds'
  BY <1>2, SMTT(60) DEF IInv, UnlinkHolds, NotDisabled, TypeOK, KindOK, LockHeld, RequestStep,
          StartRequest, CheckAccount, ReadFresh, RereadLocked, RecheckFresh, EntraAnswers,
          MarkReauth, RecheckBeforeSave, SaveRefreshed, CheckAfterSave, ReadLatest, HandOver,
          Memory, TokenRow, UserRecord, Blank, NoRow, Present, Refreshed, Rejected, Erased,
          CurrentAccount, LinkedAccount, Usable, RequestLabels, CommitLabels, UnlinkLabels
<1>3. ASSUME NEW w \in Callbacks, StartCommit(w) \/ CommitStep(w)
      PROVE  UnlinkHolds'
  BY <1>3, SMTT(60) DEF IInv, UnlinkHolds, NotDisabled, TypeOK, KindOK, LockHeld, CommitStep,
          StartCommit, VerifyEpoch, ReadVersion, StoreBundle, ConfirmLinked, UndoStore, Memory,
          TokenRow, UserRecord, Blank, NoRow, Present, Refreshed, Rejected, Erased,
          CurrentAccount, LinkedAccount, Usable, RequestLabels, CommitLabels, UnlinkLabels
<1>4. ASSUME NEW w \in Unlinks, StartUnlink(w) \/ UnlinkStep(w)
      PROVE  UnlinkHolds'
  <2>1. CASE StartUnlink(w)
    BY <2>1, SMTT(30) DEF IInv, UnlinkHolds, NotDisabled, TypeOK, KindOK, LockHeld,
            StartUnlink, Memory, TokenRow, UserRecord, Blank, NoRow, Present, Refreshed,
            Rejected, Erased, CurrentAccount, LinkedAccount, Usable, RequestLabels,
            CommitLabels, UnlinkLabels
  <2>2. CASE ReadVersions(w)
    BY <2>2, SMTT(30) DEF IInv, UnlinkHolds, NotDisabled, TypeOK, KindOK, LockHeld,
            ReadVersions, Memory, TokenRow, UserRecord, Blank, NoRow, Present, Refreshed,
            Rejected, Erased, CurrentAccount, LinkedAccount, Usable, RequestLabels,
            CommitLabels, UnlinkLabels
  <2>3. CASE MarkUnlinked(w)
    BY <2>3, SMTT(30) DEF IInv, UnlinkHolds, NotDisabled, TypeOK, KindOK, LockHeld,
            MarkUnlinked, Memory, TokenRow, UserRecord, Blank, NoRow, Present, Refreshed,
            Rejected, Erased, CurrentAccount, LinkedAccount, Usable, RequestLabels,
            CommitLabels, UnlinkLabels
  <2>4. CASE EraseToken(w)
    BY <2>4, SMTT(30) DEF IInv, UnlinkHolds, NotDisabled, TypeOK, KindOK, LockHeld, EraseToken,
            Memory, TokenRow, UserRecord, Blank, NoRow, Present, Refreshed, Rejected, Erased,
            CurrentAccount, LinkedAccount, Usable, RequestLabels, CommitLabels, UnlinkLabels
  <2> QED
    BY <1>4, <2>1, <2>2, <2>3, <2>4 DEF UnlinkStep
<1>5. CASE TokenExpires
  BY <1>5, SMTT(30) DEF IInv, UnlinkHolds, NotDisabled, TypeOK, KindOK, LockHeld, TokenExpires,
          Memory, TokenRow, UserRecord, Blank, NoRow, Present, Refreshed, Rejected, Erased,
          CurrentAccount, LinkedAccount, Usable, RequestLabels, CommitLabels, UnlinkLabels
<1>6. ASSUME NEW p \in Procs, Crash(p)
      PROVE  UnlinkHolds'
  BY <1>6, SMTT(30) DEF IInv, UnlinkHolds, NotDisabled, TypeOK, KindOK, LockHeld, Crash,
          Memory, TokenRow, UserRecord, Blank, NoRow, Present, Refreshed, Rejected, Erased,
          CurrentAccount, LinkedAccount, Usable, RequestLabels, CommitLabels, UnlinkLabels
<1>7. CASE UNCHANGED vars
  BY <1>7, SMTT(30) DEF IInv, UnlinkHolds, NotDisabled, TypeOK, KindOK, LockHeld, vars,
          CurrentAccount, LinkedAccount
<1> QED
  BY <1>1, <1>2, <1>3, <1>4, <1>5, <1>6, <1>7 DEF Next

\* RefreshHolds: what a refresh read inside its locked section stays true until it leaves.
LEMMA RefreshHoldsStep ==
  ASSUME IInv, [Next]_vars
  PROVE  RefreshHolds'
<1>1. ASSUME NEW w \in Workers, Locking(w)
      PROVE  RefreshHolds'
  BY <1>1, SMTT(60) DEF IInv, RefreshHolds, TypeOK, KindOK, LockHeld, Locking, TakeProcLock,
          TakeFileLock, LockTimeout, Memory, TokenRow, UserRecord, Blank, NoRow, Present,
          Refreshed, Rejected, Erased, CurrentAccount, LinkedAccount, Usable, RequestLabels,
          CommitLabels, UnlinkLabels
<1>2. ASSUME NEW w \in Requests, StartRequest(w) \/ RequestStep(w)
      PROVE  RefreshHolds'
  BY <1>2, SMTT(60) DEF IInv, RefreshHolds, TypeOK, KindOK, LockHeld, RequestStep,
          StartRequest, CheckAccount, ReadFresh, RereadLocked, RecheckFresh, EntraAnswers,
          MarkReauth, RecheckBeforeSave, SaveRefreshed, CheckAfterSave, ReadLatest, HandOver,
          Memory, TokenRow, UserRecord, Blank, NoRow, Present, Refreshed, Rejected, Erased,
          CurrentAccount, LinkedAccount, Usable, RequestLabels, CommitLabels, UnlinkLabels
<1>3. ASSUME NEW w \in Callbacks, StartCommit(w) \/ CommitStep(w)
      PROVE  RefreshHolds'
  BY <1>3, SMTT(60) DEF IInv, RefreshHolds, TypeOK, KindOK, LockHeld, CommitStep, StartCommit,
          VerifyEpoch, ReadVersion, StoreBundle, ConfirmLinked, UndoStore, Memory, TokenRow,
          UserRecord, Blank, NoRow, Present, Refreshed, Rejected, Erased, CurrentAccount,
          LinkedAccount, Usable, RequestLabels, CommitLabels, UnlinkLabels
<1>4. ASSUME NEW w \in Unlinks, StartUnlink(w) \/ UnlinkStep(w)
      PROVE  RefreshHolds'
  BY <1>4, SMTT(60) DEF IInv, RefreshHolds, TypeOK, KindOK, LockHeld, UnlinkStep, StartUnlink,
          ReadVersions, MarkUnlinked, EraseToken, Memory, TokenRow, UserRecord, Blank, NoRow,
          Present, Refreshed, Rejected, Erased, CurrentAccount, LinkedAccount, Usable,
          RequestLabels, CommitLabels, UnlinkLabels
<1>5. CASE TokenExpires
  BY <1>5, SMTT(30) DEF IInv, RefreshHolds, TypeOK, KindOK, LockHeld, TokenExpires, Memory,
          TokenRow, UserRecord, Blank, NoRow, Present, Refreshed, Rejected, Erased,
          CurrentAccount, LinkedAccount, Usable, RequestLabels, CommitLabels, UnlinkLabels
<1>6. ASSUME NEW p \in Procs, Crash(p)
      PROVE  RefreshHolds'
  BY <1>6, SMTT(30) DEF IInv, RefreshHolds, TypeOK, KindOK, LockHeld, Crash, Memory, TokenRow,
          UserRecord, Blank, NoRow, Present, Refreshed, Rejected, Erased, CurrentAccount,
          LinkedAccount, Usable, RequestLabels, CommitLabels, UnlinkLabels
<1>7. CASE UNCHANGED vars
  BY <1>7, SMTT(30) DEF IInv, RefreshHolds, TypeOK, KindOK, LockHeld, vars, CurrentAccount,
          LinkedAccount
<1> QED
  BY <1>1, <1>2, <1>3, <1>4, <1>5, <1>6, <1>7 DEF Next

\* EpochGuards: an epoch, once left, never returns.
LEMMA EpochGuardsStep ==
  ASSUME IInv, [Next]_vars
  PROVE  EpochGuards'
<1>1. ASSUME NEW w \in Workers, Locking(w)
      PROVE  EpochGuards'
  BY <1>1, SMTT(60) DEF IInv, EpochGuards, TypeOK, KindOK, LockHeld, LinksKnown, RefreshHolds,
          ActiveUsesLiveLink, Locking, TakeProcLock, TakeFileLock, LockTimeout, Checked,
          Memory, TokenRow, UserRecord, Blank, NoRow, Present, Refreshed, Rejected, Erased,
          CurrentAccount, LinkedAccount, Usable, RequestLabels, CommitLabels, UnlinkLabels
<1>2. ASSUME NEW w \in Requests, StartRequest(w) \/ RequestStep(w)
      PROVE  EpochGuards'
  <2>1. CASE StartRequest(w)
    BY <2>1, SMTT(30) DEF IInv, EpochGuards, TypeOK, KindOK, LockHeld, LinksKnown,
            RefreshHolds, ActiveUsesLiveLink, StartRequest, Checked, Memory, TokenRow,
            UserRecord, Blank, NoRow, Present, Refreshed, Rejected, Erased, CurrentAccount,
            LinkedAccount, Usable, RequestLabels, CommitLabels, UnlinkLabels
  <2>2. CASE CheckAccount(w)
    BY <2>2, SMTT(30) DEF IInv, EpochGuards, TypeOK, KindOK, LockHeld, LinksKnown,
            RefreshHolds, ActiveUsesLiveLink, CheckAccount, Checked, Memory, TokenRow,
            UserRecord, Blank, NoRow, Present, Refreshed, Rejected, Erased, CurrentAccount,
            LinkedAccount, Usable, RequestLabels, CommitLabels, UnlinkLabels
  <2>3. CASE ReadFresh(w)
    BY <2>3, SMTT(30) DEF IInv, EpochGuards, TypeOK, KindOK, LockHeld, LinksKnown,
            RefreshHolds, ActiveUsesLiveLink, ReadFresh, Checked, Memory, TokenRow, UserRecord,
            Blank, NoRow, Present, Refreshed, Rejected, Erased, CurrentAccount, LinkedAccount,
            Usable, RequestLabels, CommitLabels, UnlinkLabels
  <2>4. CASE RereadLocked(w)
    BY <2>4, SMTT(30) DEF IInv, EpochGuards, TypeOK, KindOK, LockHeld, LinksKnown,
            RefreshHolds, ActiveUsesLiveLink, RereadLocked, Checked, Memory, TokenRow,
            UserRecord, Blank, NoRow, Present, Refreshed, Rejected, Erased, CurrentAccount,
            LinkedAccount, Usable, RequestLabels, CommitLabels, UnlinkLabels
  <2>5. CASE RecheckFresh(w)
    BY <2>5, SMTT(30) DEF IInv, EpochGuards, TypeOK, KindOK, LockHeld, LinksKnown,
            RefreshHolds, ActiveUsesLiveLink, RecheckFresh, Checked, Memory, TokenRow,
            UserRecord, Blank, NoRow, Present, Refreshed, Rejected, Erased, CurrentAccount,
            LinkedAccount, Usable, RequestLabels, CommitLabels, UnlinkLabels
  <2>6. CASE EntraAnswers(w)
    BY <2>6, SMTT(30) DEF IInv, EpochGuards, TypeOK, KindOK, LockHeld, LinksKnown,
            RefreshHolds, ActiveUsesLiveLink, EntraAnswers, Checked, Memory, TokenRow,
            UserRecord, Blank, NoRow, Present, Refreshed, Rejected, Erased, CurrentAccount,
            LinkedAccount, Usable, RequestLabels, CommitLabels, UnlinkLabels
  <2>7. CASE MarkReauth(w)
    BY <2>7, SMTT(30) DEF IInv, EpochGuards, TypeOK, KindOK, LockHeld, LinksKnown,
            RefreshHolds, ActiveUsesLiveLink, MarkReauth, Checked, Memory, TokenRow,
            UserRecord, Blank, NoRow, Present, Refreshed, Rejected, Erased, CurrentAccount,
            LinkedAccount, Usable, RequestLabels, CommitLabels, UnlinkLabels
  <2>8. CASE RecheckBeforeSave(w)
    BY <2>8, SMTT(30) DEF IInv, EpochGuards, TypeOK, KindOK, LockHeld, LinksKnown,
            RefreshHolds, ActiveUsesLiveLink, RecheckBeforeSave, Checked, Memory, TokenRow,
            UserRecord, Blank, NoRow, Present, Refreshed, Rejected, Erased, CurrentAccount,
            LinkedAccount, Usable, RequestLabels, CommitLabels, UnlinkLabels
  <2>9. CASE SaveRefreshed(w)
    BY <2>9, SMTT(30) DEF IInv, EpochGuards, TypeOK, KindOK, LockHeld, LinksKnown,
            RefreshHolds, ActiveUsesLiveLink, SaveRefreshed, Checked, Memory, TokenRow,
            UserRecord, Blank, NoRow, Present, Refreshed, Rejected, Erased, CurrentAccount,
            LinkedAccount, Usable, RequestLabels, CommitLabels, UnlinkLabels
  <2>10. CASE CheckAfterSave(w)
    BY <2>10, SMTT(30) DEF IInv, EpochGuards, TypeOK, KindOK, LockHeld, LinksKnown,
            RefreshHolds, ActiveUsesLiveLink, CheckAfterSave, Checked, Memory, TokenRow,
            UserRecord, Blank, NoRow, Present, Refreshed, Rejected, Erased, CurrentAccount,
            LinkedAccount, Usable, RequestLabels, CommitLabels, UnlinkLabels
  <2>11. CASE ReadLatest(w)
    BY <2>11, SMTT(30) DEF IInv, EpochGuards, TypeOK, KindOK, LockHeld, LinksKnown,
            RefreshHolds, ActiveUsesLiveLink, ReadLatest, Checked, Memory, TokenRow,
            UserRecord, Blank, NoRow, Present, Refreshed, Rejected, Erased, CurrentAccount,
            LinkedAccount, Usable, RequestLabels, CommitLabels, UnlinkLabels
  <2>12. CASE HandOver(w)
    BY <2>12, SMTT(30) DEF IInv, EpochGuards, TypeOK, KindOK, LockHeld, LinksKnown,
            RefreshHolds, ActiveUsesLiveLink, HandOver, Checked, Memory, TokenRow, UserRecord,
            Blank, NoRow, Present, Refreshed, Rejected, Erased, CurrentAccount, LinkedAccount,
            Usable, RequestLabels, CommitLabels, UnlinkLabels
  <2> QED
    BY <1>2, <2>1, <2>2, <2>3, <2>4, <2>5, <2>6, <2>7, <2>8, <2>9, <2>10, <2>11, <2>12 DEF RequestStep
<1>3. ASSUME NEW w \in Callbacks, StartCommit(w) \/ CommitStep(w)
      PROVE  EpochGuards'
  <2>1. CASE StartCommit(w)
    BY <2>1, SMTT(30) DEF IInv, EpochGuards, TypeOK, KindOK, LockHeld, LinksKnown,
            RefreshHolds, ActiveUsesLiveLink, StartCommit, Checked, Memory, TokenRow,
            UserRecord, Blank, NoRow, Present, Refreshed, Rejected, Erased, CurrentAccount,
            LinkedAccount, Usable, RequestLabels, CommitLabels, UnlinkLabels
  <2>2. CASE VerifyEpoch(w)
    BY <2>2, SMTT(30) DEF IInv, EpochGuards, TypeOK, KindOK, LockHeld, LinksKnown,
            RefreshHolds, ActiveUsesLiveLink, VerifyEpoch, Checked, Memory, TokenRow,
            UserRecord, Blank, NoRow, Present, Refreshed, Rejected, Erased, CurrentAccount,
            LinkedAccount, Usable, RequestLabels, CommitLabels, UnlinkLabels
  <2>3. CASE ReadVersion(w)
    BY <2>3, SMTT(30) DEF IInv, EpochGuards, TypeOK, KindOK, LockHeld, LinksKnown,
            RefreshHolds, ActiveUsesLiveLink, ReadVersion, Checked, Memory, TokenRow,
            UserRecord, Blank, NoRow, Present, Refreshed, Rejected, Erased, CurrentAccount,
            LinkedAccount, Usable, RequestLabels, CommitLabels, UnlinkLabels
  <2>4. CASE StoreBundle(w)
    BY <2>4, SMTT(30) DEF IInv, EpochGuards, TypeOK, KindOK, LockHeld, LinksKnown,
            RefreshHolds, ActiveUsesLiveLink, StoreBundle, Checked, Memory, TokenRow,
            UserRecord, Blank, NoRow, Present, Refreshed, Rejected, Erased, CurrentAccount,
            LinkedAccount, Usable, RequestLabels, CommitLabels, UnlinkLabels
  <2>5. CASE ConfirmLinked(w)
    BY <2>5, SMTT(30) DEF IInv, EpochGuards, TypeOK, KindOK, LockHeld, LinksKnown,
            RefreshHolds, ActiveUsesLiveLink, ConfirmLinked, Checked, Memory, TokenRow,
            UserRecord, Blank, NoRow, Present, Refreshed, Rejected, Erased, CurrentAccount,
            LinkedAccount, Usable, RequestLabels, CommitLabels, UnlinkLabels
  <2>6. CASE UndoStore(w)
    BY <2>6, SMTT(30) DEF IInv, EpochGuards, TypeOK, KindOK, LockHeld, LinksKnown,
            RefreshHolds, ActiveUsesLiveLink, UndoStore, Checked, Memory, TokenRow, UserRecord,
            Blank, NoRow, Present, Refreshed, Rejected, Erased, CurrentAccount, LinkedAccount,
            Usable, RequestLabels, CommitLabels, UnlinkLabels
  <2> QED
    BY <1>3, <2>1, <2>2, <2>3, <2>4, <2>5, <2>6 DEF CommitStep
<1>4. ASSUME NEW w \in Unlinks, StartUnlink(w) \/ UnlinkStep(w)
      PROVE  EpochGuards'
  BY <1>4, SMTT(60) DEF IInv, EpochGuards, TypeOK, KindOK, LockHeld, LinksKnown, RefreshHolds,
          ActiveUsesLiveLink, UnlinkStep, StartUnlink, ReadVersions, MarkUnlinked, EraseToken,
          Checked, Memory, TokenRow, UserRecord, Blank, NoRow, Present, Refreshed, Rejected,
          Erased, CurrentAccount, LinkedAccount, Usable, RequestLabels, CommitLabels,
          UnlinkLabels
<1>5. CASE TokenExpires
  BY <1>5, SMTT(30) DEF IInv, EpochGuards, TypeOK, KindOK, LockHeld, LinksKnown, RefreshHolds,
          ActiveUsesLiveLink, TokenExpires, Checked, Memory, TokenRow, UserRecord, Blank,
          NoRow, Present, Refreshed, Rejected, Erased, CurrentAccount, LinkedAccount, Usable,
          RequestLabels, CommitLabels, UnlinkLabels
<1>6. ASSUME NEW p \in Procs, Crash(p)
      PROVE  EpochGuards'
  BY <1>6, SMTT(30) DEF IInv, EpochGuards, TypeOK, KindOK, LockHeld, LinksKnown, RefreshHolds,
          ActiveUsesLiveLink, Crash, Checked, Memory, TokenRow, UserRecord, Blank, NoRow,
          Present, Refreshed, Rejected, Erased, CurrentAccount, LinkedAccount, Usable,
          RequestLabels, CommitLabels, UnlinkLabels
<1>7. CASE UNCHANGED vars
  BY <1>7, SMTT(30) DEF IInv, EpochGuards, TypeOK, KindOK, LockHeld, LinksKnown, RefreshHolds,
          ActiveUsesLiveLink, vars, CurrentAccount, LinkedAccount
<1> QED
  BY <1>1, <1>2, <1>3, <1>4, <1>5, <1>6, <1>7 DEF Next

\* TokenAttended: without a crash, an unconfirmed or unlinked token has a worker that sees to it.
LEMMA TokenAttendedStep ==
  ASSUME IInv, [Next]_vars
  PROVE  TokenAttended'
<1>1. ASSUME NEW w \in Workers, Locking(w)
      PROVE  TokenAttended'
  BY <1>1, SMTT(60) DEF IInv, TokenAttended, TypeOK, KindOK, LockHeld, UnlinkHolds,
          RefreshHolds, CommitHolds, Locking, TakeProcLock, TakeFileLock, LockTimeout, Memory,
          TokenRow, UserRecord, Blank, NoRow, Present, Refreshed, Rejected, Erased,
          CurrentAccount, LinkedAccount, Usable, RequestLabels, CommitLabels, UnlinkLabels
<1>2. ASSUME NEW w \in Requests, StartRequest(w) \/ RequestStep(w)
      PROVE  TokenAttended'
  BY <1>2, SMTT(60) DEF IInv, TokenAttended, TypeOK, KindOK, LockHeld, UnlinkHolds,
          RefreshHolds, CommitHolds, RequestStep, StartRequest, CheckAccount, ReadFresh,
          RereadLocked, RecheckFresh, EntraAnswers, MarkReauth, RecheckBeforeSave,
          SaveRefreshed, CheckAfterSave, ReadLatest, HandOver, Memory, TokenRow, UserRecord,
          Blank, NoRow, Present, Refreshed, Rejected, Erased, CurrentAccount, LinkedAccount,
          Usable, RequestLabels, CommitLabels, UnlinkLabels
<1>3. ASSUME NEW w \in Callbacks, StartCommit(w) \/ CommitStep(w)
      PROVE  TokenAttended'
  BY <1>3, SMTT(60) DEF IInv, TokenAttended, TypeOK, KindOK, LockHeld, UnlinkHolds,
          RefreshHolds, CommitHolds, CommitStep, StartCommit, VerifyEpoch, ReadVersion,
          StoreBundle, ConfirmLinked, UndoStore, Memory, TokenRow, UserRecord, Blank, NoRow,
          Present, Refreshed, Rejected, Erased, CurrentAccount, LinkedAccount, Usable,
          RequestLabels, CommitLabels, UnlinkLabels
<1>4. ASSUME NEW w \in Unlinks, StartUnlink(w) \/ UnlinkStep(w)
      PROVE  TokenAttended'
  BY <1>4, SMTT(60) DEF IInv, TokenAttended, TypeOK, KindOK, LockHeld, UnlinkHolds,
          RefreshHolds, CommitHolds, UnlinkStep, StartUnlink, ReadVersions, MarkUnlinked,
          EraseToken, Memory, TokenRow, UserRecord, Blank, NoRow, Present, Refreshed, Rejected,
          Erased, CurrentAccount, LinkedAccount, Usable, RequestLabels, CommitLabels,
          UnlinkLabels
<1>5. CASE TokenExpires
  BY <1>5, SMTT(30) DEF IInv, TokenAttended, TypeOK, KindOK, LockHeld, UnlinkHolds,
          RefreshHolds, CommitHolds, TokenExpires, Memory, TokenRow, UserRecord, Blank, NoRow,
          Present, Refreshed, Rejected, Erased, CurrentAccount, LinkedAccount, Usable,
          RequestLabels, CommitLabels, UnlinkLabels
<1>6. ASSUME NEW p \in Procs, Crash(p)
      PROVE  TokenAttended'
  BY <1>6, SMTT(30) DEF IInv, TokenAttended, TypeOK, KindOK, LockHeld, UnlinkHolds,
          RefreshHolds, CommitHolds, Crash, Memory, TokenRow, UserRecord, Blank, NoRow,
          Present, Refreshed, Rejected, Erased, CurrentAccount, LinkedAccount, Usable,
          RequestLabels, CommitLabels, UnlinkLabels
<1>7. CASE UNCHANGED vars
  BY <1>7, SMTT(30) DEF IInv, TokenAttended, TypeOK, KindOK, LockHeld, UnlinkHolds,
          RefreshHolds, CommitHolds, vars, CurrentAccount, LinkedAccount
<1> QED
  BY <1>1, <1>2, <1>3, <1>4, <1>5, <1>6, <1>7 DEF Next

\* ActiveUsesLiveLink: an active account has the token of a link nobody disconnected.
LEMMA ActiveUsesLiveLinkStep ==
  ASSUME IInv, [Next]_vars
  PROVE  ActiveUsesLiveLink'
<1>1. ASSUME NEW w \in Workers, Locking(w)
      PROVE  ActiveUsesLiveLink'
  BY <1>1, SMTT(60) DEF IInv, ActiveUsesLiveLink, TypeOK, KindOK, LockHeld, LinksKnown,
          BundleFresh, CommitHolds, UnlinkHolds, RefreshHolds, Locking, TakeProcLock,
          TakeFileLock, LockTimeout, Unstored, Memory, TokenRow, UserRecord, Blank, NoRow,
          Present, Refreshed, Rejected, Erased, CurrentAccount, Usable, RequestLabels,
          CommitLabels, UnlinkLabels
<1>2. ASSUME NEW w \in Requests, StartRequest(w) \/ RequestStep(w)
      PROVE  ActiveUsesLiveLink'
  <2>1. CASE StartRequest(w)
    BY <2>1, SMTT(30) DEF IInv, ActiveUsesLiveLink, TypeOK, KindOK, LockHeld, LinksKnown,
            BundleFresh, CommitHolds, UnlinkHolds, RefreshHolds, StartRequest, Unstored,
            Memory, TokenRow, UserRecord, Blank, NoRow, Present, Refreshed, Rejected, Erased,
            CurrentAccount, Usable, RequestLabels, CommitLabels, UnlinkLabels
  <2>2. CASE CheckAccount(w)
    BY <2>2, SMTT(30) DEF IInv, ActiveUsesLiveLink, TypeOK, KindOK, LockHeld, LinksKnown,
            BundleFresh, CommitHolds, UnlinkHolds, RefreshHolds, CheckAccount, Unstored,
            Memory, TokenRow, UserRecord, Blank, NoRow, Present, Refreshed, Rejected, Erased,
            CurrentAccount, Usable, RequestLabels, CommitLabels, UnlinkLabels
  <2>3. CASE ReadFresh(w)
    BY <2>3, SMTT(30) DEF IInv, ActiveUsesLiveLink, TypeOK, KindOK, LockHeld, LinksKnown,
            BundleFresh, CommitHolds, UnlinkHolds, RefreshHolds, ReadFresh, Unstored, Memory,
            TokenRow, UserRecord, Blank, NoRow, Present, Refreshed, Rejected, Erased,
            CurrentAccount, Usable, RequestLabels, CommitLabels, UnlinkLabels
  <2>4. CASE RereadLocked(w)
    BY <2>4, SMTT(30) DEF IInv, ActiveUsesLiveLink, TypeOK, KindOK, LockHeld, LinksKnown,
            BundleFresh, CommitHolds, UnlinkHolds, RefreshHolds, RereadLocked, Unstored,
            Memory, TokenRow, UserRecord, Blank, NoRow, Present, Refreshed, Rejected, Erased,
            CurrentAccount, Usable, RequestLabels, CommitLabels, UnlinkLabels
  <2>5. CASE RecheckFresh(w)
    BY <2>5, SMTT(30) DEF IInv, ActiveUsesLiveLink, TypeOK, KindOK, LockHeld, LinksKnown,
            BundleFresh, CommitHolds, UnlinkHolds, RefreshHolds, RecheckFresh, Unstored,
            Memory, TokenRow, UserRecord, Blank, NoRow, Present, Refreshed, Rejected, Erased,
            CurrentAccount, Usable, RequestLabels, CommitLabels, UnlinkLabels
  <2>6. CASE EntraAnswers(w)
    BY <2>6, SMTT(30) DEF IInv, ActiveUsesLiveLink, TypeOK, KindOK, LockHeld, LinksKnown,
            BundleFresh, CommitHolds, UnlinkHolds, RefreshHolds, EntraAnswers, Unstored,
            Memory, TokenRow, UserRecord, Blank, NoRow, Present, Refreshed, Rejected, Erased,
            CurrentAccount, Usable, RequestLabels, CommitLabels, UnlinkLabels
  <2>7. CASE MarkReauth(w)
    BY <2>7, SMTT(30) DEF IInv, ActiveUsesLiveLink, TypeOK, KindOK, LockHeld, LinksKnown,
            BundleFresh, CommitHolds, UnlinkHolds, RefreshHolds, MarkReauth, Unstored, Memory,
            TokenRow, UserRecord, Blank, NoRow, Present, Refreshed, Rejected, Erased,
            CurrentAccount, Usable, RequestLabels, CommitLabels, UnlinkLabels
  <2>8. CASE RecheckBeforeSave(w)
    BY <2>8, SMTT(30) DEF IInv, ActiveUsesLiveLink, TypeOK, KindOK, LockHeld, LinksKnown,
            BundleFresh, CommitHolds, UnlinkHolds, RefreshHolds, RecheckBeforeSave, Unstored,
            Memory, TokenRow, UserRecord, Blank, NoRow, Present, Refreshed, Rejected, Erased,
            CurrentAccount, Usable, RequestLabels, CommitLabels, UnlinkLabels
  <2>9. CASE SaveRefreshed(w)
    BY <2>9, SMTT(30) DEF IInv, ActiveUsesLiveLink, TypeOK, KindOK, LockHeld, LinksKnown,
            BundleFresh, CommitHolds, UnlinkHolds, RefreshHolds, SaveRefreshed, Unstored,
            Memory, TokenRow, UserRecord, Blank, NoRow, Present, Refreshed, Rejected, Erased,
            CurrentAccount, Usable, RequestLabels, CommitLabels, UnlinkLabels
  <2>10. CASE CheckAfterSave(w)
    BY <2>10, SMTT(30) DEF IInv, ActiveUsesLiveLink, TypeOK, KindOK, LockHeld, LinksKnown,
            BundleFresh, CommitHolds, UnlinkHolds, RefreshHolds, CheckAfterSave, Unstored,
            Memory, TokenRow, UserRecord, Blank, NoRow, Present, Refreshed, Rejected, Erased,
            CurrentAccount, Usable, RequestLabels, CommitLabels, UnlinkLabels
  <2>11. CASE ReadLatest(w)
    BY <2>11, SMTT(30) DEF IInv, ActiveUsesLiveLink, TypeOK, KindOK, LockHeld, LinksKnown,
            BundleFresh, CommitHolds, UnlinkHolds, RefreshHolds, ReadLatest, Unstored, Memory,
            TokenRow, UserRecord, Blank, NoRow, Present, Refreshed, Rejected, Erased,
            CurrentAccount, Usable, RequestLabels, CommitLabels, UnlinkLabels
  <2>12. CASE HandOver(w)
    BY <2>12, SMTT(30) DEF IInv, ActiveUsesLiveLink, TypeOK, KindOK, LockHeld, LinksKnown,
            BundleFresh, CommitHolds, UnlinkHolds, RefreshHolds, HandOver, Unstored, Memory,
            TokenRow, UserRecord, Blank, NoRow, Present, Refreshed, Rejected, Erased,
            CurrentAccount, Usable, RequestLabels, CommitLabels, UnlinkLabels
  <2> QED
    BY <1>2, <2>1, <2>2, <2>3, <2>4, <2>5, <2>6, <2>7, <2>8, <2>9, <2>10, <2>11, <2>12 DEF RequestStep
<1>3. ASSUME NEW w \in Callbacks, StartCommit(w) \/ CommitStep(w)
      PROVE  ActiveUsesLiveLink'
  BY <1>3, SMTT(60) DEF IInv, ActiveUsesLiveLink, TypeOK, KindOK, LockHeld, LinksKnown,
          BundleFresh, CommitHolds, UnlinkHolds, RefreshHolds, CommitStep, StartCommit,
          VerifyEpoch, ReadVersion, StoreBundle, ConfirmLinked, UndoStore, Unstored, Memory,
          TokenRow, UserRecord, Blank, NoRow, Present, Refreshed, Rejected, Erased,
          CurrentAccount, Usable, RequestLabels, CommitLabels, UnlinkLabels
<1>4. ASSUME NEW w \in Unlinks, StartUnlink(w) \/ UnlinkStep(w)
      PROVE  ActiveUsesLiveLink'
  BY <1>4, SMTT(60) DEF IInv, ActiveUsesLiveLink, TypeOK, KindOK, LockHeld, LinksKnown,
          BundleFresh, CommitHolds, UnlinkHolds, RefreshHolds, UnlinkStep, StartUnlink,
          ReadVersions, MarkUnlinked, EraseToken, Unstored, Memory, TokenRow, UserRecord,
          Blank, NoRow, Present, Refreshed, Rejected, Erased, CurrentAccount, Usable,
          RequestLabels, CommitLabels, UnlinkLabels
<1>5. CASE TokenExpires
  BY <1>5, SMTT(30) DEF IInv, ActiveUsesLiveLink, TypeOK, KindOK, LockHeld, LinksKnown,
          BundleFresh, CommitHolds, UnlinkHolds, RefreshHolds, TokenExpires, Unstored, Memory,
          TokenRow, UserRecord, Blank, NoRow, Present, Refreshed, Rejected, Erased,
          CurrentAccount, Usable, RequestLabels, CommitLabels, UnlinkLabels
<1>6. ASSUME NEW p \in Procs, Crash(p)
      PROVE  ActiveUsesLiveLink'
  BY <1>6, SMTT(30) DEF IInv, ActiveUsesLiveLink, TypeOK, KindOK, LockHeld, LinksKnown,
          BundleFresh, CommitHolds, UnlinkHolds, RefreshHolds, Crash, Unstored, Memory,
          TokenRow, UserRecord, Blank, NoRow, Present, Refreshed, Rejected, Erased,
          CurrentAccount, Usable, RequestLabels, CommitLabels, UnlinkLabels
<1>7. CASE UNCHANGED vars
  BY <1>7, SMTT(30) DEF IInv, ActiveUsesLiveLink, TypeOK, KindOK, LockHeld, LinksKnown,
          BundleFresh, CommitHolds, UnlinkHolds, RefreshHolds, vars, CurrentAccount
<1> QED
  BY <1>1, <1>2, <1>3, <1>4, <1>5, <1>6, <1>7 DEF Next

\* NoTokenAfterUnlink: a request that passes its last check holds the token of a live link.
LEMMA NoTokenAfterUnlinkStep ==
  ASSUME IInv, [Next]_vars
  PROVE  NoTokenAfterUnlink'
<1>1. ASSUME NEW w \in Workers, Locking(w)
      PROVE  NoTokenAfterUnlink'
  BY <1>1, SMTT(60) DEF IInv, NoTokenAfterUnlink, TypeOK, KindOK, EpochGuards, LinksKnown,
          Locking, TakeProcLock, TakeFileLock, LockTimeout, Checked, Memory, TokenRow,
          CurrentAccount, RequestLabels
<1>2. ASSUME NEW w \in Requests, StartRequest(w) \/ RequestStep(w)
      PROVE  NoTokenAfterUnlink'
  BY <1>2, SMTT(60) DEF IInv, NoTokenAfterUnlink, TypeOK, KindOK, EpochGuards, LinksKnown,
          RequestStep, StartRequest, CheckAccount, ReadFresh, RereadLocked, RecheckFresh,
          EntraAnswers, MarkReauth, RecheckBeforeSave, SaveRefreshed, CheckAfterSave,
          ReadLatest, HandOver, Checked, Memory, TokenRow, CurrentAccount, RequestLabels
<1>3. ASSUME NEW w \in Callbacks, StartCommit(w) \/ CommitStep(w)
      PROVE  NoTokenAfterUnlink'
  BY <1>3, SMTT(60) DEF IInv, NoTokenAfterUnlink, TypeOK, KindOK, EpochGuards, LinksKnown,
          CommitStep, StartCommit, VerifyEpoch, ReadVersion, StoreBundle, ConfirmLinked,
          UndoStore, Checked, Memory, TokenRow, CurrentAccount, RequestLabels
<1>4. ASSUME NEW w \in Unlinks, StartUnlink(w) \/ UnlinkStep(w)
      PROVE  NoTokenAfterUnlink'
  BY <1>4, SMTT(60) DEF IInv, NoTokenAfterUnlink, TypeOK, KindOK, EpochGuards, LinksKnown,
          UnlinkStep, StartUnlink, ReadVersions, MarkUnlinked, EraseToken, Checked, Memory,
          TokenRow, CurrentAccount, RequestLabels
<1>5. CASE TokenExpires
  BY <1>5, SMTT(30) DEF IInv, NoTokenAfterUnlink, TypeOK, KindOK, EpochGuards, LinksKnown,
          TokenExpires, Checked, Memory, TokenRow, CurrentAccount, RequestLabels
<1>6. ASSUME NEW p \in Procs, Crash(p)
      PROVE  NoTokenAfterUnlink'
  BY <1>6, SMTT(30) DEF IInv, NoTokenAfterUnlink, TypeOK, KindOK, EpochGuards, LinksKnown,
          Crash, Checked, Memory, TokenRow, CurrentAccount, RequestLabels
<1>7. CASE UNCHANGED vars
  BY <1>7, SMTT(30) DEF IInv, NoTokenAfterUnlink, TypeOK, KindOK, EpochGuards, LinksKnown,
          vars, CurrentAccount
<1> QED
  BY <1>1, <1>2, <1>3, <1>4, <1>5, <1>6, <1>7 DEF Next

-----------------------------------------------------------------------------
(* The theorems.                                                            *)

LEMMA InitIInv == Init => IInv
  BY SMTT(30) DEF Init, IInv, TypeOK, KindOK, NotDisabled, LockHeld, LinksKnown, BundleFresh, CommitHolds, UnlinkHolds, RefreshHolds, EpochGuards, TokenAttended, ActiveUsesLiveLink, NoTokenAfterUnlink, UserRecord, TokenRow, Memory,
          Statuses, Usable, NoRow, Blank, Present, Checked, Unstored, RequestLabels,
          CommitLabels, UnlinkLabels

LEMMA NextIInv == IInv /\ [Next]_vars => IInv'
  BY TypeStep, KindOKStep, NotDisabledStep, LockHeldStep, LinksKnownStep, BundleFreshStep, CommitHoldsStep, UnlinkHoldsStep, RefreshHoldsStep, EpochGuardsStep, TokenAttendedStep, ActiveUsesLiveLinkStep, NoTokenAfterUnlinkStep
     DEF IInv

\* The inductive invariant holds in every reachable state.
THEOREM Invariance == Spec => []IInv
<1>1. Init => IInv  BY InitIInv
<1>2. IInv /\ [Next]_vars => IInv'  BY NextIInv
<1> QED  BY <1>1, <1>2, PTL DEF Spec

\* Every variable keeps its type, whatever requests, callbacks and disconnects do.
THEOREM TypeCorrect == Spec => []TypeOK
<1>1. IInv => TypeOK  BY DEF IInv
<1> QED  BY <1>1, Invariance, PTL

\* An active account always has the token of a link nobody disconnected
\* (commit_graph_connection, disconnect_graph and get_graph_access_token in any
\* interleaving, with any number of process crashes).
THEOREM LinkedSafely == Spec => []ActiveUsesLiveLink
<1>1. IInv => ActiveUsesLiveLink  BY DEF IInv
<1> QED  BY <1>1, Invariance, PTL

\* With the lock free and no crash, active means exactly that a token is stored.
THEOREM LinkedExactly == Spec => []LinkedIffToken
<1>1. IInv => LinkedIffToken
  <2> SUFFICES ASSUME IInv, flock = NoWorker, crashes = 0
               PROVE  user.status = "active" <=> Present(row)
    BY DEF LinkedIffToken
  <2>1. \A w \in Workers : pc[w] \notin {"confirm", "erase"}
    BY DEF IInv, LockHeld
  <2> QED
    BY <2>1 DEF IInv, TokenAttended, ActiveUsesLiveLink
<1> QED  BY <1>1, Invariance, PTL

\* The row a refresh presented to the token endpoint stays the stored row until the
\* answer is recorded (_refresh_locked).
THEOREM RefreshSafely == Spec => []RefreshKeepsItsRow
<1>1. IInv => RefreshKeepsItsRow
  BY DEF IInv, RefreshHolds, RefreshKeepsItsRow
<1> QED  BY <1>1, Invariance, PTL

\* At most one request is between the row it presents and its save.
THEOREM RefreshAlone == Spec => []SingleRefresh
<1>1. IInv => SingleRefresh
  BY DEF IInv, LockHeld, SingleRefresh
<1> QED  BY <1>1, Invariance, PTL

\* No request is handed the token of a link after that link was disconnected.
THEOREM UnlinkFinal == Spec => []NoTokenAfterUnlink
<1>1. IInv => NoTokenAfterUnlink  BY DEF IInv
<1> QED  BY <1>1, Invariance, PTL

\* A refreshed token is stored only while the account is linked and at the epoch of
\* the request's principal.
THEOREM SaveGuarded == Spec => SavesOnlyWhileLinked
<1>1. IInv /\ [Next]_vars =>
        [\A r \in Requests : SaveRefreshed(r) /\ row' # row => LinkedAccount(r)]_vars
  BY DEF IInv, RefreshHolds, SaveRefreshed
<1> QED  BY <1>1, Invariance, PTL DEF Spec, SavesOnlyWhileLinked

-----------------------------------------------------------------------------
(* Administrators and cancellation: the invariants                          *)

\* A refresh, in time or left behind, has read a row.
RowRead == {"entra", "reject", "recheck", "save", "late_save", "late_reject"}
RefreshHasRow == \A w \in Workers : pc[w] \in RowRead => Present(mem[w].row)

\* What a commit has stored is there until it confirms or takes it back, unless a
\* refresh made it newer: a version number reached by another link is higher.
StoredIsOwn ==
    \A c \in Callbacks : pc[c] \in {"confirm", "undo"} =>
        /\ row.version > mem[c].row.version
        /\ row.version = mem[c].row.version + 1 => row.link = mem[c].link

\* What a refresh has read under the lock is stored still, or a newer row is: only a
\* late write of a cancelled refresh can have come between.
ReadIsOwn ==
    \A r \in Requests : pc[r] \in {"entra", "reject", "recheck", "save"} =>
        /\ row.version >= mem[r].row.version
        /\ row.version = mem[r].row.version => row.link = mem[r].row.link

\* The inductive invariant of GraphConnection with administrators and cancellation.
AdminInv == TypeOK /\ LockHeld /\ RefreshHasRow /\ StoredIsOwn /\ ReadIsOwn

\* Nobody is cancelled, so no write is left behind ...
NoLateWrite == \A w \in Workers : pc[w] \notin {"late_save", "late_reject"}

\* ... and the row a disconnect has read stays the stored one.
UnlinkReadsTrue ==
    \A u \in Unlinks : pc[u] \in {"unlink", "erase"} => mem[u].row.version = row.version

\* The invariant of the same system when no request can be cancelled.
UncancelledInv == AdminInv /\ NoLateWrite /\ UnlinkReadsTrue

-----------------------------------------------------------------------------
(* Steps                                                                    *)

USE AdminAssumption

\* The steps that GraphConnectionAdmin adds, by who takes them.
OfAdmin(a) == Disable(a) \/ BumpAuthEpoch(a) \/ ReadForEnable(a) \/ Enable(a)
OfThread(t) == LateSave(t) \/ LateReject(t)

\* A step of the whole is a step of the connection or an added one.
LEMMA AdminNextIsOne ==
  [AdminNext]_vars => \/ [Next]_vars
                      \/ \E a \in Admins : OfAdmin(a)
                      \/ \E r \in Requests : CancelIdle(r)
                      \/ \E r \in Requests, t \in Threads : CancelInWrite(r, t)
                      \/ \E t \in Threads : OfThread(t)
  BY Zenon DEF AdminNext, OfAdmin, OfThread

\* A users row whose epoch or status changes is a users row.
LEMMA ChangedUser ==
  ASSUME NEW u \in UserRecord
  PROVE  /\ [u EXCEPT !.epoch = u.epoch + 1] \in UserRecord
         /\ \A s \in Statuses : [u EXCEPT !.status = s, !.epoch = u.epoch + 1] \in UserRecord
<1>1. u.epoch + 1 \in Nat
  BY DEF UserRecord
<1> QED BY <1>1 DEF UserRecord

\* Every step keeps the types.
LEMMA AdminTypeStep ==
  ASSUME TypeOK, [AdminNext]_vars PROVE TypeOK'
<1> USE DEF TypeOK
<1>1. ASSUME [Next]_vars PROVE TypeOK'
  BY <1>1, TypeStep
<1>2. ASSUME NEW a \in Admins, OfAdmin(a) PROVE TypeOK'
  <2>1. UNCHANGED <<row, flock, plock, links, dead, late, crashes>>
    BY <1>2 DEF OfAdmin, Disable, BumpAuthEpoch, ReadForEnable, Enable
  <2>2. Target(a) \in Statuses /\ "disabled" \in Statuses
    BY DEF Target, Statuses
  <2>3. user' \in UserRecord
    <3>1. user' = user \/ user' = [user EXCEPT !.epoch = user.epoch + 1]
          \/ \E s \in Statuses : user' = [user EXCEPT !.status = s, !.epoch = user.epoch + 1]
      BY <1>2, <2>2, Zenon DEF OfAdmin, Disable, BumpAuthEpoch, ReadForEnable, Enable
    <3>2. user \in UserRecord
      OBVIOUS
    <3>3. CASE user' = user
      BY <3>2, <3>3
    <3>4. CASE user' = [user EXCEPT !.epoch = user.epoch + 1]
      BY <3>2, <3>4, ChangedUser
    <3>5. CASE \E s \in Statuses : user' = [user EXCEPT !.status = s, !.epoch = user.epoch + 1]
      <4>1. PICK s \in Statuses : user' = [user EXCEPT !.status = s, !.epoch = user.epoch + 1]
        BY <3>5
      <4>2. [user EXCEPT !.status = s, !.epoch = user.epoch + 1] \in UserRecord
        BY <3>2, ChangedUser
      <4> QED BY <4>1, <4>2
    <3> HIDE DEF TypeOK
    <3> QED BY <3>1, <3>3, <3>4, <3>5
  <2>4. pc' \in [Workers -> Labels] /\ mem' \in [Workers -> Memory]
    BY <1>2, Blanks, SMTT(30) DEF OfAdmin, Disable, BumpAuthEpoch, ReadForEnable, Enable
  <2> QED BY <2>1, <2>3, <2>4
<1>3. ASSUME NEW r \in Requests, CancelIdle(r) PROVE TypeOK'
  BY <1>3, Blanks, SMTT(30) DEF CancelIdle, Unlock
<1>4. ASSUME NEW r \in Requests, NEW t \in Threads, CancelInWrite(r, t) PROVE TypeOK'
  BY <1>4, Blanks, SMTT(30) DEF CancelInWrite, Unlock
<1>5. ASSUME NEW t \in Threads, OfThread(t) PROVE TypeOK'
  <2>1. mem[t] \in Memory /\ mem[t].row \in TokenRow /\ mem[t].row.version \in Nat
    BY DEF Memory, TokenRow
  <2>2. row' \in TokenRow
    BY <1>5, <2>1, RefreshedType, RejectedType DEF OfThread, LateSave, LateReject
  <2>3. pc' \in [Workers -> Labels] /\ mem' \in [Workers -> Memory]
    BY <1>5, Blanks, SMTT(30) DEF OfThread, LateSave, LateReject
  <2>4. UNCHANGED <<user, flock, plock, links, dead, late, crashes>>
    BY <1>5 DEF OfThread, LateSave, LateReject
  <2> QED BY <2>2, <2>3, <2>4
<1> QED BY <1>1, <1>2, <1>3, <1>4, <1>5, AdminNextIsOne

\* Every step leaves the file lock with the worker inside it: a cancelled request
\* gives it up with its place.
LEMMA AdminLockStep ==
  ASSUME TypeOK, LockHeld, [AdminNext]_vars
  PROVE  LockHeld'
<1> USE DEF TypeOK, LockHeld
<1>1. ASSUME [Next]_vars PROVE LockHeld'
  BY <1>1, LockHeldStep
<1>2. ASSUME NEW a \in Admins, OfAdmin(a) PROVE LockHeld'
  <2>1. CASE Disable(a)
    BY <2>1, SMTT(30) DEF Disable, Commands
  <2>2. CASE BumpAuthEpoch(a)
    BY <2>2, SMTT(30) DEF BumpAuthEpoch, Commands
  <2>3. CASE ReadForEnable(a)
    BY <2>3, SMTT(30) DEF ReadForEnable, Commands
  <2>4. CASE Enable(a)
    BY <2>4, SMTT(30) DEF Enable, Target
  <2> QED BY <1>2, <2>1, <2>2, <2>3, <2>4 DEF OfAdmin
<1>3. ASSUME NEW r \in Requests, CancelIdle(r) PROVE LockHeld'
  BY <1>3, SMTT(30) DEF CancelIdle, Unlock
<1>4. ASSUME NEW r \in Requests, NEW t \in Threads, CancelInWrite(r, t) PROVE LockHeld'
  BY <1>4, SMTT(30) DEF CancelInWrite, Unlock
<1>5. ASSUME NEW t \in Threads, OfThread(t) PROVE LockHeld'
  <2>1. CASE LateSave(t)
    BY <2>1, SMTT(30) DEF LateSave
  <2>2. CASE LateReject(t)
    BY <2>2, SMTT(30) DEF LateReject
  <2> QED BY <1>5, <2>1, <2>2 DEF OfThread
<1> QED BY <1>1, <1>2, <1>3, <1>4, <1>5, AdminNextIsOne

\* Every step that goes on to a refresh has read a row, a thread left behind too.
LEMMA RowReadStep ==
  ASSUME TypeOK, RefreshHasRow, [AdminNext]_vars
  PROVE  RefreshHasRow'
<1> USE DEF TypeOK, RefreshHasRow, RowRead, Present, TokenRow, Memory, Blank, NoRow
<1>1. ASSUME [Next]_vars PROVE RefreshHasRow'
  <2>1. ASSUME NEW w \in Workers, Locking(w) PROVE RefreshHasRow'
    <3>1. CASE TakeProcLock(w)
      BY <3>1, SMTT(30) DEF TakeProcLock
    <3>2. CASE TakeFileLock(w)
      BY <3>2, SMTT(30) DEF TakeFileLock
    <3>3. CASE LockTimeout(w)
      BY <3>3, SMTT(30) DEF LockTimeout
    <3> QED
      BY <2>1, <3>1, <3>2, <3>3 DEF Locking
  <2>2. ASSUME NEW r \in Requests, StartRequest(r) \/ RequestStep(r) PROVE RefreshHasRow'
    <3>1. CASE StartRequest(r)
      BY <3>1, SMTT(30) DEF StartRequest
    <3>2. CASE CheckAccount(r)
      BY <3>2, SMTT(30) DEF CheckAccount
    <3>3. CASE ReadFresh(r)
      BY <3>3, SMTT(30) DEF ReadFresh
    <3>4. CASE RereadLocked(r)
      BY <3>4, SMTT(30) DEF RereadLocked
    <3>5. CASE RecheckFresh(r)
      BY <3>5, SMTT(30) DEF RecheckFresh
    <3>6. CASE EntraAnswers(r)
      BY <3>6, SMTT(30) DEF EntraAnswers
    <3>7. CASE MarkReauth(r)
      BY <3>7, SMTT(30) DEF MarkReauth
    <3>8. CASE RecheckBeforeSave(r)
      BY <3>8, SMTT(30) DEF RecheckBeforeSave, CurrentAccount, LinkedAccount
    <3>9. CASE SaveRefreshed(r)
      BY <3>9, SMTT(30) DEF SaveRefreshed
    <3>10. CASE CheckAfterSave(r)
      BY <3>10, SMTT(30) DEF CheckAfterSave
    <3>11. CASE ReadLatest(r)
      BY <3>11, SMTT(30) DEF ReadLatest
    <3>12. CASE HandOver(r)
      BY <3>12, SMTT(30) DEF HandOver
    <3> QED
      BY <2>2, <3>1, <3>2, <3>3, <3>4, <3>5, <3>6, <3>7, <3>8, <3>9, <3>10, <3>11, <3>12 DEF RequestStep
  <2>3. ASSUME NEW c \in Callbacks, StartCommit(c) \/ CommitStep(c) PROVE RefreshHasRow'
    <3>1. CASE StartCommit(c)
      BY <3>1, SMTT(30) DEF StartCommit
    <3>2. CASE VerifyEpoch(c)
      BY <3>2, SMTT(30) DEF VerifyEpoch, CurrentAccount, LinkedAccount
    <3>3. CASE ReadVersion(c)
      BY <3>3, SMTT(30) DEF ReadVersion
    <3>4. CASE StoreBundle(c)
      BY <3>4, SMTT(30) DEF StoreBundle
    <3>5. CASE ConfirmLinked(c)
      BY <3>5, SMTT(30) DEF ConfirmLinked, CurrentAccount, LinkedAccount
    <3>6. CASE UndoStore(c)
      BY <3>6, SMTT(30) DEF UndoStore
    <3> QED
      BY <2>3, <3>1, <3>2, <3>3, <3>4, <3>5, <3>6 DEF CommitStep
  <2>4. ASSUME NEW u \in Unlinks, StartUnlink(u) \/ UnlinkStep(u) PROVE RefreshHasRow'
    <3>1. CASE StartUnlink(u)
      BY <3>1, SMTT(30) DEF StartUnlink
    <3>2. CASE ReadVersions(u)
      BY <3>2, SMTT(30) DEF ReadVersions
    <3>3. CASE MarkUnlinked(u)
      BY <3>3, SMTT(30) DEF MarkUnlinked
    <3>4. CASE EraseToken(u)
      BY <3>4, SMTT(30) DEF EraseToken
    <3> QED
      BY <2>4, <3>1, <3>2, <3>3, <3>4 DEF UnlinkStep
  <2>5. CASE TokenExpires
    BY <2>5, SMTT(30) DEF TokenExpires
  <2>6. ASSUME NEW p \in Procs, Crash(p) PROVE RefreshHasRow'
    BY <2>6, SMTT(30) DEF Crash
  <2>7. CASE UNCHANGED vars
    BY <2>7, SMTT(30) DEF vars
  <2> QED BY <1>1, <2>1, <2>2, <2>3, <2>4, <2>5, <2>6, <2>7 DEF Next
<1>2. ASSUME NEW a \in Admins, OfAdmin(a) PROVE RefreshHasRow'
  <2>1. CASE Disable(a)
    BY <2>1, SMTT(30) DEF Disable, Commands
  <2>2. CASE BumpAuthEpoch(a)
    BY <2>2, SMTT(30) DEF BumpAuthEpoch, Commands
  <2>3. CASE ReadForEnable(a)
    BY <2>3, SMTT(30) DEF ReadForEnable, Commands
  <2>4. CASE Enable(a)
    BY <2>4, SMTT(30) DEF Enable, Target
  <2> QED BY <1>2, <2>1, <2>2, <2>3, <2>4 DEF OfAdmin
<1>3. ASSUME NEW r \in Requests, CancelIdle(r) PROVE RefreshHasRow'
  BY <1>3, SMTT(30) DEF CancelIdle, Unlock
<1>4. ASSUME NEW r \in Requests, NEW t \in Threads, CancelInWrite(r, t) PROVE RefreshHasRow'
  BY <1>4, SMTT(30) DEF CancelInWrite, Unlock
<1>5. ASSUME NEW t \in Threads, OfThread(t) PROVE RefreshHasRow'
  <2>1. CASE LateSave(t)
    BY <2>1, SMTT(30) DEF LateSave
  <2>2. CASE LateReject(t)
    BY <2>2, SMTT(30) DEF LateReject
  <2> QED BY <1>5, <2>1, <2>2 DEF OfThread
<1> QED BY <1>1, <1>2, <1>3, <1>4, <1>5, AdminNextIsOne

\* Every step leaves a commit its own bundle, or a newer one.
LEMMA StoredStep ==
  ASSUME TypeOK, LockHeld, StoredIsOwn, [AdminNext]_vars
  PROVE  StoredIsOwn'
<1> USE DEF TypeOK, LockHeld, StoredIsOwn, TokenRow, Memory, Blank, NoRow, Refreshed, Rejected, Erased
<1>1. ASSUME [Next]_vars PROVE StoredIsOwn'
  <2>1. ASSUME NEW w \in Workers, Locking(w) PROVE StoredIsOwn'
    <3>1. CASE TakeProcLock(w)
      BY <3>1, SMTT(30) DEF TakeProcLock
    <3>2. CASE TakeFileLock(w)
      BY <3>2, SMTT(30) DEF TakeFileLock
    <3>3. CASE LockTimeout(w)
      BY <3>3, SMTT(30) DEF LockTimeout
    <3> QED
      BY <2>1, <3>1, <3>2, <3>3 DEF Locking
  <2>2. ASSUME NEW r \in Requests, StartRequest(r) \/ RequestStep(r) PROVE StoredIsOwn'
    <3>1. CASE StartRequest(r)
      BY <3>1, SMTT(30) DEF StartRequest
    <3>2. CASE CheckAccount(r)
      BY <3>2, SMTT(30) DEF CheckAccount
    <3>3. CASE ReadFresh(r)
      BY <3>3, SMTT(30) DEF ReadFresh
    <3>4. CASE RereadLocked(r)
      BY <3>4, SMTT(30) DEF RereadLocked
    <3>5. CASE RecheckFresh(r)
      BY <3>5, SMTT(30) DEF RecheckFresh
    <3>6. CASE EntraAnswers(r)
      BY <3>6, SMTT(30) DEF EntraAnswers
    <3>7. CASE MarkReauth(r)
      BY <3>7, SMTT(30) DEF MarkReauth
    <3>8. CASE RecheckBeforeSave(r)
      BY <3>8, SMTT(30) DEF RecheckBeforeSave, CurrentAccount, LinkedAccount
    <3>9. CASE SaveRefreshed(r)
      BY <3>9, SMTT(30) DEF SaveRefreshed
    <3>10. CASE CheckAfterSave(r)
      BY <3>10, SMTT(30) DEF CheckAfterSave
    <3>11. CASE ReadLatest(r)
      BY <3>11, SMTT(30) DEF ReadLatest
    <3>12. CASE HandOver(r)
      BY <3>12, SMTT(30) DEF HandOver
    <3> QED
      BY <2>2, <3>1, <3>2, <3>3, <3>4, <3>5, <3>6, <3>7, <3>8, <3>9, <3>10, <3>11, <3>12 DEF RequestStep
  <2>3. ASSUME NEW c \in Callbacks, StartCommit(c) \/ CommitStep(c) PROVE StoredIsOwn'
    <3>1. CASE StartCommit(c)
      BY <3>1, SMTT(30) DEF StartCommit
    <3>2. CASE VerifyEpoch(c)
      BY <3>2, SMTT(30) DEF VerifyEpoch, CurrentAccount, LinkedAccount
    <3>3. CASE ReadVersion(c)
      BY <3>3, SMTT(30) DEF ReadVersion
    <3>4. CASE StoreBundle(c)
      BY <3>4, SMTT(30) DEF StoreBundle
    <3>5. CASE ConfirmLinked(c)
      BY <3>5, SMTT(30) DEF ConfirmLinked, CurrentAccount, LinkedAccount
    <3>6. CASE UndoStore(c)
      BY <3>6, SMTT(30) DEF UndoStore
    <3> QED
      BY <2>3, <3>1, <3>2, <3>3, <3>4, <3>5, <3>6 DEF CommitStep
  <2>4. ASSUME NEW u \in Unlinks, StartUnlink(u) \/ UnlinkStep(u) PROVE StoredIsOwn'
    <3>1. CASE StartUnlink(u)
      BY <3>1, SMTT(30) DEF StartUnlink
    <3>2. CASE ReadVersions(u)
      BY <3>2, SMTT(30) DEF ReadVersions
    <3>3. CASE MarkUnlinked(u)
      BY <3>3, SMTT(30) DEF MarkUnlinked
    <3>4. CASE EraseToken(u)
      BY <3>4, SMTT(30) DEF EraseToken
    <3> QED
      BY <2>4, <3>1, <3>2, <3>3, <3>4 DEF UnlinkStep
  <2>5. CASE TokenExpires
    BY <2>5, SMTT(30) DEF TokenExpires
  <2>6. ASSUME NEW p \in Procs, Crash(p) PROVE StoredIsOwn'
    BY <2>6, SMTT(30) DEF Crash
  <2>7. CASE UNCHANGED vars
    BY <2>7, SMTT(30) DEF vars
  <2> QED BY <1>1, <2>1, <2>2, <2>3, <2>4, <2>5, <2>6, <2>7 DEF Next
<1>2. ASSUME NEW a \in Admins, OfAdmin(a) PROVE StoredIsOwn'
  <2>1. CASE Disable(a)
    BY <2>1, SMTT(30) DEF Disable, Commands
  <2>2. CASE BumpAuthEpoch(a)
    BY <2>2, SMTT(30) DEF BumpAuthEpoch, Commands
  <2>3. CASE ReadForEnable(a)
    BY <2>3, SMTT(30) DEF ReadForEnable, Commands
  <2>4. CASE Enable(a)
    BY <2>4, SMTT(30) DEF Enable, Target
  <2> QED BY <1>2, <2>1, <2>2, <2>3, <2>4 DEF OfAdmin
<1>3. ASSUME NEW r \in Requests, CancelIdle(r) PROVE StoredIsOwn'
  BY <1>3, SMTT(30) DEF CancelIdle, Unlock
<1>4. ASSUME NEW r \in Requests, NEW t \in Threads, CancelInWrite(r, t) PROVE StoredIsOwn'
  BY <1>4, SMTT(30) DEF CancelInWrite, Unlock
<1>5. ASSUME NEW t \in Threads, OfThread(t) PROVE StoredIsOwn'
  <2>1. CASE LateSave(t)
    BY <2>1, SMTT(30) DEF LateSave
  <2>2. CASE LateReject(t)
    BY <2>2, SMTT(30) DEF LateReject
  <2> QED BY <1>5, <2>1, <2>2 DEF OfThread
<1> QED BY <1>1, <1>2, <1>3, <1>4, <1>5, AdminNextIsOne

\* Every step leaves a refresh the row it has read, or a newer one.
LEMMA ReadStep ==
  ASSUME TypeOK, LockHeld, RefreshHasRow, ReadIsOwn, [AdminNext]_vars
  PROVE  ReadIsOwn'
<1> USE DEF TypeOK, LockHeld, RefreshHasRow, RowRead, ReadIsOwn, TokenRow, Memory, Blank, NoRow, Refreshed, Rejected, Erased, Present
<1>1. ASSUME [Next]_vars PROVE ReadIsOwn'
  <2>1. ASSUME NEW w \in Workers, Locking(w) PROVE ReadIsOwn'
    <3>1. CASE TakeProcLock(w)
      BY <3>1, SMTT(30) DEF TakeProcLock
    <3>2. CASE TakeFileLock(w)
      BY <3>2, SMTT(30) DEF TakeFileLock
    <3>3. CASE LockTimeout(w)
      BY <3>3, SMTT(30) DEF LockTimeout
    <3> QED
      BY <2>1, <3>1, <3>2, <3>3 DEF Locking
  <2>2. ASSUME NEW r \in Requests, StartRequest(r) \/ RequestStep(r) PROVE ReadIsOwn'
    <3>1. CASE StartRequest(r)
      BY <3>1, SMTT(30) DEF StartRequest
    <3>2. CASE CheckAccount(r)
      BY <3>2, SMTT(30) DEF CheckAccount
    <3>3. CASE ReadFresh(r)
      BY <3>3, SMTT(30) DEF ReadFresh
    <3>4. CASE RereadLocked(r)
      BY <3>4, SMTT(30) DEF RereadLocked
    <3>5. CASE RecheckFresh(r)
      BY <3>5, SMTT(30) DEF RecheckFresh
    <3>6. CASE EntraAnswers(r)
      BY <3>6, SMTT(30) DEF EntraAnswers
    <3>7. CASE MarkReauth(r)
      BY <3>7, SMTT(30) DEF MarkReauth
    <3>8. CASE RecheckBeforeSave(r)
      BY <3>8, SMTT(30) DEF RecheckBeforeSave, CurrentAccount, LinkedAccount
    <3>9. CASE SaveRefreshed(r)
      BY <3>9, SMTT(30) DEF SaveRefreshed
    <3>10. CASE CheckAfterSave(r)
      BY <3>10, SMTT(30) DEF CheckAfterSave
    <3>11. CASE ReadLatest(r)
      BY <3>11, SMTT(30) DEF ReadLatest
    <3>12. CASE HandOver(r)
      BY <3>12, SMTT(30) DEF HandOver
    <3> QED
      BY <2>2, <3>1, <3>2, <3>3, <3>4, <3>5, <3>6, <3>7, <3>8, <3>9, <3>10, <3>11, <3>12 DEF RequestStep
  <2>3. ASSUME NEW c \in Callbacks, StartCommit(c) \/ CommitStep(c) PROVE ReadIsOwn'
    <3>1. CASE StartCommit(c)
      BY <3>1, SMTT(30) DEF StartCommit
    <3>2. CASE VerifyEpoch(c)
      BY <3>2, SMTT(30) DEF VerifyEpoch, CurrentAccount, LinkedAccount
    <3>3. CASE ReadVersion(c)
      BY <3>3, SMTT(30) DEF ReadVersion
    <3>4. CASE StoreBundle(c)
      BY <3>4, SMTT(30) DEF StoreBundle
    <3>5. CASE ConfirmLinked(c)
      BY <3>5, SMTT(30) DEF ConfirmLinked, CurrentAccount, LinkedAccount
    <3>6. CASE UndoStore(c)
      BY <3>6, SMTT(30) DEF UndoStore
    <3> QED
      BY <2>3, <3>1, <3>2, <3>3, <3>4, <3>5, <3>6 DEF CommitStep
  <2>4. ASSUME NEW u \in Unlinks, StartUnlink(u) \/ UnlinkStep(u) PROVE ReadIsOwn'
    <3>1. CASE StartUnlink(u)
      BY <3>1, SMTT(30) DEF StartUnlink
    <3>2. CASE ReadVersions(u)
      BY <3>2, SMTT(30) DEF ReadVersions
    <3>3. CASE MarkUnlinked(u)
      BY <3>3, SMTT(30) DEF MarkUnlinked
    <3>4. CASE EraseToken(u)
      BY <3>4, SMTT(30) DEF EraseToken
    <3> QED
      BY <2>4, <3>1, <3>2, <3>3, <3>4 DEF UnlinkStep
  <2>5. CASE TokenExpires
    BY <2>5, SMTT(30) DEF TokenExpires
  <2>6. ASSUME NEW p \in Procs, Crash(p) PROVE ReadIsOwn'
    BY <2>6, SMTT(30) DEF Crash
  <2>7. CASE UNCHANGED vars
    BY <2>7, SMTT(30) DEF vars
  <2> QED BY <1>1, <2>1, <2>2, <2>3, <2>4, <2>5, <2>6, <2>7 DEF Next
<1>2. ASSUME NEW a \in Admins, OfAdmin(a) PROVE ReadIsOwn'
  <2>1. CASE Disable(a)
    BY <2>1, SMTT(30) DEF Disable, Commands
  <2>2. CASE BumpAuthEpoch(a)
    BY <2>2, SMTT(30) DEF BumpAuthEpoch, Commands
  <2>3. CASE ReadForEnable(a)
    BY <2>3, SMTT(30) DEF ReadForEnable, Commands
  <2>4. CASE Enable(a)
    BY <2>4, SMTT(30) DEF Enable, Target
  <2> QED BY <1>2, <2>1, <2>2, <2>3, <2>4 DEF OfAdmin
<1>3. ASSUME NEW r \in Requests, CancelIdle(r) PROVE ReadIsOwn'
  BY <1>3, SMTT(30) DEF CancelIdle, Unlock
<1>4. ASSUME NEW r \in Requests, NEW t \in Threads, CancelInWrite(r, t) PROVE ReadIsOwn'
  BY <1>4, SMTT(30) DEF CancelInWrite, Unlock
<1>5. ASSUME NEW t \in Threads, OfThread(t) PROVE ReadIsOwn'
  <2>1. CASE LateSave(t)
    BY <2>1, SMTT(30) DEF LateSave
  <2>2. CASE LateReject(t)
    BY <2>2, SMTT(30) DEF LateReject
  <2> QED BY <1>5, <2>1, <2>2 DEF OfThread
<1> QED BY <1>1, <1>2, <1>3, <1>4, <1>5, AdminNextIsOne

\* No step leaves a write behind when nobody is cancelled.
LEMMA NoLateStep ==
  ASSUME Cancellable = {}, TypeOK, NoLateWrite, [AdminNext]_vars
  PROVE  NoLateWrite'
<1> USE DEF TypeOK, NoLateWrite
<1>1. ASSUME [Next]_vars PROVE NoLateWrite'
  <2>1. ASSUME NEW w \in Workers, Locking(w) PROVE NoLateWrite'
    <3>1. CASE TakeProcLock(w)
      BY <3>1, SMTT(30) DEF TakeProcLock
    <3>2. CASE TakeFileLock(w)
      BY <3>2, SMTT(30) DEF TakeFileLock
    <3>3. CASE LockTimeout(w)
      BY <3>3, SMTT(30) DEF LockTimeout
    <3> QED
      BY <2>1, <3>1, <3>2, <3>3 DEF Locking
  <2>2. ASSUME NEW r \in Requests, StartRequest(r) \/ RequestStep(r) PROVE NoLateWrite'
    <3>1. CASE StartRequest(r)
      BY <3>1, SMTT(30) DEF StartRequest
    <3>2. CASE CheckAccount(r)
      BY <3>2, SMTT(30) DEF CheckAccount
    <3>3. CASE ReadFresh(r)
      BY <3>3, SMTT(30) DEF ReadFresh
    <3>4. CASE RereadLocked(r)
      BY <3>4, SMTT(30) DEF RereadLocked
    <3>5. CASE RecheckFresh(r)
      BY <3>5, SMTT(30) DEF RecheckFresh
    <3>6. CASE EntraAnswers(r)
      BY <3>6, SMTT(30) DEF EntraAnswers
    <3>7. CASE MarkReauth(r)
      BY <3>7, SMTT(30) DEF MarkReauth
    <3>8. CASE RecheckBeforeSave(r)
      BY <3>8, SMTT(30) DEF RecheckBeforeSave, CurrentAccount, LinkedAccount
    <3>9. CASE SaveRefreshed(r)
      BY <3>9, SMTT(30) DEF SaveRefreshed
    <3>10. CASE CheckAfterSave(r)
      BY <3>10, SMTT(30) DEF CheckAfterSave
    <3>11. CASE ReadLatest(r)
      BY <3>11, SMTT(30) DEF ReadLatest
    <3>12. CASE HandOver(r)
      BY <3>12, SMTT(30) DEF HandOver
    <3> QED
      BY <2>2, <3>1, <3>2, <3>3, <3>4, <3>5, <3>6, <3>7, <3>8, <3>9, <3>10, <3>11, <3>12 DEF RequestStep
  <2>3. ASSUME NEW c \in Callbacks, StartCommit(c) \/ CommitStep(c) PROVE NoLateWrite'
    <3>1. CASE StartCommit(c)
      BY <3>1, SMTT(30) DEF StartCommit
    <3>2. CASE VerifyEpoch(c)
      BY <3>2, SMTT(30) DEF VerifyEpoch, CurrentAccount, LinkedAccount
    <3>3. CASE ReadVersion(c)
      BY <3>3, SMTT(30) DEF ReadVersion
    <3>4. CASE StoreBundle(c)
      BY <3>4, SMTT(30) DEF StoreBundle
    <3>5. CASE ConfirmLinked(c)
      BY <3>5, SMTT(30) DEF ConfirmLinked, CurrentAccount, LinkedAccount
    <3>6. CASE UndoStore(c)
      BY <3>6, SMTT(30) DEF UndoStore
    <3> QED
      BY <2>3, <3>1, <3>2, <3>3, <3>4, <3>5, <3>6 DEF CommitStep
  <2>4. ASSUME NEW u \in Unlinks, StartUnlink(u) \/ UnlinkStep(u) PROVE NoLateWrite'
    <3>1. CASE StartUnlink(u)
      BY <3>1, SMTT(30) DEF StartUnlink
    <3>2. CASE ReadVersions(u)
      BY <3>2, SMTT(30) DEF ReadVersions
    <3>3. CASE MarkUnlinked(u)
      BY <3>3, SMTT(30) DEF MarkUnlinked
    <3>4. CASE EraseToken(u)
      BY <3>4, SMTT(30) DEF EraseToken
    <3> QED
      BY <2>4, <3>1, <3>2, <3>3, <3>4 DEF UnlinkStep
  <2>5. CASE TokenExpires
    BY <2>5, SMTT(30) DEF TokenExpires
  <2>6. ASSUME NEW p \in Procs, Crash(p) PROVE NoLateWrite'
    BY <2>6, SMTT(30) DEF Crash
  <2>7. CASE UNCHANGED vars
    BY <2>7, SMTT(30) DEF vars
  <2> QED BY <1>1, <2>1, <2>2, <2>3, <2>4, <2>5, <2>6, <2>7 DEF Next
<1>2. ASSUME NEW a \in Admins, OfAdmin(a) PROVE NoLateWrite'
  <2>1. CASE Disable(a)
    BY <2>1, SMTT(30) DEF Disable, Commands
  <2>2. CASE BumpAuthEpoch(a)
    BY <2>2, SMTT(30) DEF BumpAuthEpoch, Commands
  <2>3. CASE ReadForEnable(a)
    BY <2>3, SMTT(30) DEF ReadForEnable, Commands
  <2>4. CASE Enable(a)
    BY <2>4, SMTT(30) DEF Enable, Target
  <2> QED BY <1>2, <2>1, <2>2, <2>3, <2>4 DEF OfAdmin
<1>3. ASSUME NEW r \in Requests, CancelIdle(r) PROVE NoLateWrite'
  BY <1>3, SMTT(30) DEF CancelIdle, Unlock
<1>4. ASSUME NEW r \in Requests, NEW t \in Threads, CancelInWrite(r, t) PROVE NoLateWrite'
  BY <1>4, SMTT(30) DEF CancelInWrite, Unlock
<1>5. ASSUME NEW t \in Threads, OfThread(t) PROVE NoLateWrite'
  <2>1. CASE LateSave(t)
    BY <2>1, SMTT(30) DEF LateSave
  <2>2. CASE LateReject(t)
    BY <2>2, SMTT(30) DEF LateReject
  <2> QED BY <1>5, <2>1, <2>2 DEF OfThread
<1> QED BY <1>1, <1>2, <1>3, <1>4, <1>5, AdminNextIsOne

\* Every step leaves the row a disconnect has read.
LEMMA UnlinkReadStep ==
  ASSUME Cancellable = {}, TypeOK, LockHeld, NoLateWrite, UnlinkReadsTrue, [AdminNext]_vars
  PROVE  UnlinkReadsTrue'
<1> USE DEF TypeOK, LockHeld, NoLateWrite, UnlinkReadsTrue
<1> USE DEF TokenRow, Memory, Blank, NoRow, Present, Refreshed, Rejected, Erased
<1>1. ASSUME [Next]_vars PROVE UnlinkReadsTrue'
  <2>1. ASSUME NEW w \in Workers, Locking(w) PROVE UnlinkReadsTrue'
    <3>1. CASE TakeProcLock(w)
      BY <3>1, SMTT(30) DEF TakeProcLock
    <3>2. CASE TakeFileLock(w)
      BY <3>2, SMTT(30) DEF TakeFileLock
    <3>3. CASE LockTimeout(w)
      BY <3>3, SMTT(30) DEF LockTimeout
    <3> QED
      BY <2>1, <3>1, <3>2, <3>3 DEF Locking
  <2>2. ASSUME NEW r \in Requests, StartRequest(r) \/ RequestStep(r) PROVE UnlinkReadsTrue'
    <3>1. CASE StartRequest(r)
      BY <3>1, SMTT(30) DEF StartRequest
    <3>2. CASE CheckAccount(r)
      BY <3>2, SMTT(30) DEF CheckAccount
    <3>3. CASE ReadFresh(r)
      BY <3>3, SMTT(30) DEF ReadFresh
    <3>4. CASE RereadLocked(r)
      BY <3>4, SMTT(30) DEF RereadLocked
    <3>5. CASE RecheckFresh(r)
      BY <3>5, SMTT(30) DEF RecheckFresh
    <3>6. CASE EntraAnswers(r)
      BY <3>6, SMTT(30) DEF EntraAnswers
    <3>7. CASE MarkReauth(r)
      BY <3>7, SMTT(30) DEF MarkReauth
    <3>8. CASE RecheckBeforeSave(r)
      BY <3>8, SMTT(30) DEF RecheckBeforeSave, CurrentAccount, LinkedAccount
    <3>9. CASE SaveRefreshed(r)
      BY <3>9, SMTT(30) DEF SaveRefreshed
    <3>10. CASE CheckAfterSave(r)
      BY <3>10, SMTT(30) DEF CheckAfterSave
    <3>11. CASE ReadLatest(r)
      BY <3>11, SMTT(30) DEF ReadLatest
    <3>12. CASE HandOver(r)
      BY <3>12, SMTT(30) DEF HandOver
    <3> QED
      BY <2>2, <3>1, <3>2, <3>3, <3>4, <3>5, <3>6, <3>7, <3>8, <3>9, <3>10, <3>11, <3>12 DEF RequestStep
  <2>3. ASSUME NEW c \in Callbacks, StartCommit(c) \/ CommitStep(c) PROVE UnlinkReadsTrue'
    <3>1. CASE StartCommit(c)
      BY <3>1, SMTT(30) DEF StartCommit
    <3>2. CASE VerifyEpoch(c)
      BY <3>2, SMTT(30) DEF VerifyEpoch, CurrentAccount, LinkedAccount
    <3>3. CASE ReadVersion(c)
      BY <3>3, SMTT(30) DEF ReadVersion
    <3>4. CASE StoreBundle(c)
      BY <3>4, SMTT(30) DEF StoreBundle
    <3>5. CASE ConfirmLinked(c)
      BY <3>5, SMTT(30) DEF ConfirmLinked, CurrentAccount, LinkedAccount
    <3>6. CASE UndoStore(c)
      BY <3>6, SMTT(30) DEF UndoStore
    <3> QED
      BY <2>3, <3>1, <3>2, <3>3, <3>4, <3>5, <3>6 DEF CommitStep
  <2>4. ASSUME NEW u \in Unlinks, StartUnlink(u) \/ UnlinkStep(u) PROVE UnlinkReadsTrue'
    <3>1. CASE StartUnlink(u)
      BY <3>1, SMTT(30) DEF StartUnlink
    <3>2. CASE ReadVersions(u)
      BY <3>2, SMTT(30) DEF ReadVersions
    <3>3. CASE MarkUnlinked(u)
      BY <3>3, SMTT(30) DEF MarkUnlinked
    <3>4. CASE EraseToken(u)
      BY <3>4, SMTT(30) DEF EraseToken
    <3> QED
      BY <2>4, <3>1, <3>2, <3>3, <3>4 DEF UnlinkStep
  <2>5. CASE TokenExpires
    BY <2>5, SMTT(30) DEF TokenExpires
  <2>6. ASSUME NEW p \in Procs, Crash(p) PROVE UnlinkReadsTrue'
    BY <2>6, SMTT(30) DEF Crash
  <2>7. CASE UNCHANGED vars
    BY <2>7, SMTT(30) DEF vars
  <2> QED BY <1>1, <2>1, <2>2, <2>3, <2>4, <2>5, <2>6, <2>7 DEF Next
<1>2. ASSUME NEW a \in Admins, OfAdmin(a) PROVE UnlinkReadsTrue'
  <2>1. CASE Disable(a)
    BY <2>1, SMTT(30) DEF Disable, Commands
  <2>2. CASE BumpAuthEpoch(a)
    BY <2>2, SMTT(30) DEF BumpAuthEpoch, Commands
  <2>3. CASE ReadForEnable(a)
    BY <2>3, SMTT(30) DEF ReadForEnable, Commands
  <2>4. CASE Enable(a)
    BY <2>4, SMTT(30) DEF Enable, Target
  <2> QED BY <1>2, <2>1, <2>2, <2>3, <2>4 DEF OfAdmin
<1>3. ASSUME NEW r \in Requests, CancelIdle(r) PROVE UnlinkReadsTrue'
  BY <1>3, SMTT(30) DEF CancelIdle, Unlock
<1>4. ASSUME NEW r \in Requests, NEW t \in Threads, CancelInWrite(r, t) PROVE UnlinkReadsTrue'
  BY <1>4, SMTT(30) DEF CancelInWrite, Unlock
<1>5. ASSUME NEW t \in Threads, OfThread(t) PROVE UnlinkReadsTrue'
  <2>1. CASE LateSave(t)
    BY <2>1, SMTT(30) DEF LateSave
  <2>2. CASE LateReject(t)
    BY <2>2, SMTT(30) DEF LateReject
  <2> QED BY <1>5, <2>1, <2>2 DEF OfThread
<1> QED BY <1>1, <1>2, <1>3, <1>4, <1>5, AdminNextIsOne

-----------------------------------------------------------------------------
(* The invariants                                                           *)

\* The inductive invariant holds in every reachable state, whoever is cancelled.
THEOREM AdminInvariance == AdminSpec => []AdminInv
<1>1. Init => AdminInv
  BY SMTT(30) DEF Init, AdminInv, TypeOK, LockHeld, RefreshHasRow, StoredIsOwn, ReadIsOwn, RowRead,
          UserRecord, Statuses,
          TokenRow, Memory, NoRow, Blank
<1>2. AdminInv /\ [AdminNext]_vars => AdminInv'
  BY AdminTypeStep, AdminLockStep, RowReadStep, StoredStep, ReadStep DEF AdminInv
<1> QED BY <1>1, <1>2, PTL DEF AdminSpec

\* The types hold with administrators and cancelled requests too.
THEOREM AdminTypeCorrect == AdminSpec => []TypeOK
<1>1. AdminInv => TypeOK BY DEF AdminInv
<1> QED BY <1>1, AdminInvariance, PTL

\* Two requests never refresh at the same time, though a cancelled one leaves its locks.
THEOREM AdminRefreshAlone == AdminSpec => []SingleRefresh
<1>1. AdminInv => SingleRefresh
  BY DEF AdminInv, LockHeld, SingleRefresh
<1> QED BY <1>1, AdminInvariance, PTL

-----------------------------------------------------------------------------
(* What a step may never do                                                 *)

\* Only these steps write the token row.
RowWrite ==
    \/ \E r \in Requests : MarkReauth(r) \/ SaveRefreshed(r)
    \/ \E c \in Callbacks : StoreBundle(c) \/ UndoStore(c)
    \/ \E u \in Unlinks : EraseToken(u)
    \/ \E t \in Threads : LateSave(t) \/ LateReject(t)
    \/ TokenExpires

\* Whatever changes the token row is one of the writes.
LEMMA RowWrites == [AdminNext]_vars /\ row' # row => RowWrite
<1> SUFFICES ASSUME [AdminNext]_vars, row' # row PROVE RowWrite
  OBVIOUS
<1>1. ASSUME [Next]_vars PROVE RowWrite
  <2>1. ASSUME NEW w \in Workers PROVE ~Locking(w)
    BY DEF Locking, TakeProcLock, TakeFileLock, LockTimeout
  <2>2. ASSUME NEW r \in Requests, StartRequest(r) \/ RequestStep(r) PROVE RowWrite
    BY <2>2 DEF RowWrite, RequestStep, StartRequest, CheckAccount, ReadFresh, RereadLocked,
         RecheckFresh, EntraAnswers, RecheckBeforeSave, CheckAfterSave, ReadLatest, HandOver
  <2>3. ASSUME NEW c \in Callbacks, StartCommit(c) \/ CommitStep(c) PROVE RowWrite
    BY <2>3 DEF RowWrite, CommitStep, StartCommit, VerifyEpoch, ReadVersion, ConfirmLinked
  <2>4. ASSUME NEW u \in Unlinks, StartUnlink(u) \/ UnlinkStep(u) PROVE RowWrite
    BY <2>4 DEF RowWrite, UnlinkStep, StartUnlink, ReadVersions, MarkUnlinked
  <2>5. ASSUME NEW p \in Procs PROVE ~Crash(p)
    BY DEF Crash
  <2> QED BY <1>1, <2>1, <2>2, <2>3, <2>4, <2>5 DEF Next, RowWrite, vars
<1>2. ASSUME NEW a \in Admins PROVE ~OfAdmin(a)
  BY DEF OfAdmin, Disable, BumpAuthEpoch, ReadForEnable, Enable
<1>3. ASSUME NEW r \in Requests PROVE ~CancelIdle(r) /\ \A t \in Threads : ~CancelInWrite(r, t)
  BY DEF CancelIdle, CancelInWrite
<1>4. ASSUME NEW t \in Threads, OfThread(t) PROVE RowWrite
  BY <1>4 DEF OfThread, RowWrite
<1> QED BY <1>1, <1>2, <1>3, <1>4, AdminNextIsOne

\* Only enable ends a disablement.
LEMMA EnableAlone == TypeOK /\ [AdminNext]_vars => OnlyEnableEnables
<1> SUFFICES ASSUME TypeOK, [AdminNext]_vars, user.status = "disabled", user'.status # "disabled"
             PROVE  \E a \in Admins : Enable(a)
  BY DEF OnlyEnableEnables
<1> USE DEF TypeOK, UserRecord
<1>1. ASSUME NEW w \in Workers PROVE ~Locking(w)
  BY DEF Locking, TakeProcLock, TakeFileLock, LockTimeout
<1>2. ASSUME NEW r \in Requests PROVE ~StartRequest(r) /\ ~RequestStep(r)
  BY DEF RequestStep, StartRequest, CheckAccount, ReadFresh, RereadLocked, RecheckFresh, EntraAnswers,
       MarkReauth, RecheckBeforeSave, SaveRefreshed, CheckAfterSave, ReadLatest, HandOver
<1>3. ASSUME NEW c \in Callbacks PROVE ~StartCommit(c) /\ ~CommitStep(c)
  BY DEF CommitStep, StartCommit, VerifyEpoch, ReadVersion, StoreBundle, ConfirmLinked, UndoStore,
       CurrentAccount, Usable
<1>4. ASSUME NEW u \in Unlinks PROVE ~StartUnlink(u) /\ ~UnlinkStep(u)
  BY DEF UnlinkStep, StartUnlink, ReadVersions, MarkUnlinked, EraseToken
<1>5. ~TokenExpires /\ (\A p \in Procs : ~Crash(p)) /\ ~UNCHANGED vars
  BY DEF TokenExpires, Crash, vars
<1>6. ~[Next]_vars
  BY <1>1, <1>2, <1>3, <1>4, <1>5 DEF Next
<1>7. ASSUME NEW a \in Admins, OfAdmin(a) PROVE Enable(a)
  BY <1>7 DEF OfAdmin, Disable, BumpAuthEpoch, ReadForEnable
<1>8. ASSUME NEW r \in Requests PROVE ~CancelIdle(r) /\ \A t \in Threads : ~CancelInWrite(r, t)
  BY DEF CancelIdle, CancelInWrite
<1>9. ASSUME NEW t \in Threads PROVE ~OfThread(t)
  BY DEF OfThread, LateSave, LateReject
<1> QED BY <1>6, <1>7, <1>8, <1>9, AdminNextIsOne

\* A row that is gone is created again by a commit alone.
LEMMA CommitAlone == AdminInv /\ [AdminNext]_vars => NoResurrection
<1> SUFFICES ASSUME AdminInv, RowWrite PROVE NoResurrection
  BY RowWrites DEF NoResurrection
<1> USE DEF NoResurrection, AdminInv, TypeOK, TokenRow, Memory, Present, NoRow
<1>1. ASSUME NEW r \in Requests, MarkReauth(r) PROVE NoResurrection
  BY <1>1, SMTT(30) DEF LockHeld, RefreshHasRow, RowRead, MarkReauth, Rejected
<1>2. ASSUME NEW r \in Requests, SaveRefreshed(r) PROVE NoResurrection
  BY <1>2, SMTT(30) DEF LockHeld, RefreshHasRow, RowRead, SaveRefreshed, Refreshed
<1>3. ASSUME NEW c \in Callbacks, StoreBundle(c) PROVE NoResurrection
  BY <1>3, SMTT(30) DEF LockHeld, StoredIsOwn, StoreBundle
<1>4. ASSUME NEW c \in Callbacks, UndoStore(c) PROVE NoResurrection
  BY <1>4, SMTT(30) DEF LockHeld, StoredIsOwn, UndoStore, Erased
<1>5. ASSUME NEW u \in Unlinks, EraseToken(u) PROVE NoResurrection
  BY <1>5, SMTT(30) DEF LockHeld, EraseToken, Erased
<1>6. ASSUME NEW t \in Threads, LateSave(t) PROVE NoResurrection
  BY <1>6, SMTT(30) DEF RefreshHasRow, RowRead, LateSave, Refreshed
<1>7. ASSUME NEW t \in Threads, LateReject(t) PROVE NoResurrection
  BY <1>7, SMTT(30) DEF RefreshHasRow, RowRead, LateReject, Rejected
<1>8. CASE TokenExpires
  BY <1>8, SMTT(30) DEF TokenExpires
<1> QED BY <1>1, <1>2, <1>3, <1>4, <1>5, <1>6, <1>7, <1>8 DEF RowWrite

\* No write puts an older version in the place of a living row.
LEMMA VersionsGrow == AdminInv /\ [AdminNext]_vars => NewerVersionStays
<1> SUFFICES ASSUME AdminInv, RowWrite PROVE NewerVersionStays
  BY RowWrites DEF NewerVersionStays
<1> USE DEF NewerVersionStays, AdminInv, TypeOK, TokenRow, Memory, Present, NoRow
<1>1. ASSUME NEW r \in Requests, MarkReauth(r) PROVE NewerVersionStays
  BY <1>1, SMTT(30) DEF LockHeld, RefreshHasRow, RowRead, MarkReauth, Rejected
<1>2. ASSUME NEW r \in Requests, SaveRefreshed(r) PROVE NewerVersionStays
  BY <1>2, SMTT(30) DEF LockHeld, RefreshHasRow, RowRead, SaveRefreshed, Refreshed
<1>3. ASSUME NEW c \in Callbacks, StoreBundle(c) PROVE NewerVersionStays
  BY <1>3, SMTT(30) DEF LockHeld, StoredIsOwn, StoreBundle
<1>4. ASSUME NEW c \in Callbacks, UndoStore(c) PROVE NewerVersionStays
  BY <1>4, SMTT(30) DEF LockHeld, StoredIsOwn, UndoStore, Erased
<1>5. ASSUME NEW u \in Unlinks, EraseToken(u) PROVE NewerVersionStays
  BY <1>5, SMTT(30) DEF LockHeld, EraseToken, Erased
<1>6. ASSUME NEW t \in Threads, LateSave(t) PROVE NewerVersionStays
  BY <1>6, SMTT(30) DEF RefreshHasRow, RowRead, LateSave, Refreshed
<1>7. ASSUME NEW t \in Threads, LateReject(t) PROVE NewerVersionStays
  BY <1>7, SMTT(30) DEF RefreshHasRow, RowRead, LateReject, Rejected
<1>8. CASE TokenExpires
  BY <1>8, SMTT(30) DEF TokenExpires
<1> QED BY <1>1, <1>2, <1>3, <1>4, <1>5, <1>6, <1>7, <1>8 DEF RowWrite

\* A living row changes its link by a commit or by a late write alone.
LEMMA LinksKept == AdminInv /\ [AdminNext]_vars => LinkKept
<1> SUFFICES ASSUME AdminInv, RowWrite PROVE LinkKept
  BY RowWrites DEF LinkKept
<1> USE DEF LinkKept, AdminInv, TypeOK, TokenRow, Memory, Present, NoRow
<1>1. ASSUME NEW r \in Requests, MarkReauth(r) PROVE LinkKept
  BY <1>1, SMTT(30) DEF LockHeld, RefreshHasRow, RowRead, MarkReauth, Rejected
<1>2. ASSUME NEW r \in Requests, SaveRefreshed(r) PROVE LinkKept
  BY <1>2, SMTT(30) DEF LockHeld, RefreshHasRow, RowRead, ReadIsOwn, SaveRefreshed, Refreshed
<1>3. ASSUME NEW c \in Callbacks, StoreBundle(c) PROVE LinkKept
  BY <1>3, SMTT(30) DEF LockHeld, StoredIsOwn, StoreBundle
<1>4. ASSUME NEW c \in Callbacks, UndoStore(c) PROVE LinkKept
  BY <1>4, SMTT(30) DEF LockHeld, StoredIsOwn, UndoStore, Erased
<1>5. ASSUME NEW u \in Unlinks, EraseToken(u) PROVE LinkKept
  BY <1>5, SMTT(30) DEF LockHeld, EraseToken, Erased
<1>6. ASSUME NEW t \in Threads, LateSave(t) PROVE LinkKept
  BY <1>6
<1>7. ASSUME NEW t \in Threads, LateReject(t) PROVE LinkKept
  BY <1>7, SMTT(30) DEF RefreshHasRow, RowRead, LateReject, Rejected
<1>8. CASE TokenExpires
  BY <1>8, SMTT(30) DEF TokenExpires
<1> QED BY <1>1, <1>2, <1>3, <1>4, <1>5, <1>6, <1>7, <1>8 DEF RowWrite

\* A refused commit erases a row of its own link or none.
LEMMA OwnUndo == AdminInv => UndoesOnlyItsOwn
<1> SUFFICES ASSUME AdminInv, NEW c \in Callbacks, UndoStore(c), row' # row PROVE row.link = mem[c].link
  BY DEF UndoesOnlyItsOwn
<1> QED BY SMTT(30) DEF AdminInv, StoredIsOwn, UndoStore, Erased

\* Only an enable, a commit and, for the link of a stored row, the thread of a
\* cancelled refresh change what connects the user.
THEOREM ConnectionStaysGone == AdminSpec => OnlyCommitsConnect
<1>1. AdminInv /\ [AdminNext]_vars =>
        [/\ OnlyEnableEnables /\ NoResurrection /\ LinkKept
         /\ NewerVersionStays /\ UndoesOnlyItsOwn]_vars
  BY EnableAlone, CommitAlone, LinksKept, VersionsGrow, OwnUndo DEF AdminInv
<1> QED BY <1>1, AdminInvariance, PTL DEF AdminSpec, OnlyCommitsConnect

\* With no request cancelled, the comment in disconnect_graph is right: whatever the
\* administrators do meanwhile, a disconnect erases the row it read.
THEOREM UncancelledDisconnectErases ==
  ASSUME Cancellable = {} PROVE AdminSpec => DisconnectErases
<1>1. Init => UncancelledInv
  BY SMTT(30) DEF Init, UncancelledInv, AdminInv, TypeOK, LockHeld, RefreshHasRow, StoredIsOwn, ReadIsOwn, RowRead,
       NoLateWrite, UnlinkReadsTrue, UserRecord, Statuses, TokenRow, Memory, NoRow, Blank
<1>2. UncancelledInv /\ [AdminNext]_vars => UncancelledInv'
  BY AdminTypeStep, AdminLockStep, RowReadStep, StoredStep, ReadStep, NoLateStep, UnlinkReadStep
     DEF UncancelledInv, AdminInv
<1>3. UncancelledInv => [\A u \in Unlinks : EraseToken(u) /\ Present(mem[u].row) => row' = NoRow]_vars
  BY SMTT(30) DEF UncancelledInv, UnlinkReadsTrue, EraseToken, Erased
<1> QED BY <1>1, <1>2, <1>3, PTL DEF AdminSpec, DisconnectErases
=============================================================================
