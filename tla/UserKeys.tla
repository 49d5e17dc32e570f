------------------------------ MODULE UserKeys ------------------------------
(* The data key (DEK) of each user, wrapped by the key-encryption key (KEK) of   *)
(* the deployment in a file of the user's directory, the processes' caches of    *)
(* unwrapped keys, and the records sealed with them (user_crypto, key_provider). *)
(* The bytes of a file or of a record are what went into them; two writes of a   *)
(* wrapped key never have the same bytes, as every DEK and nonce is fresh.       *)
EXTENDS Integers, FiniteSets

CONSTANTS KeyUsers, KeyProcs,
          Keks,          \* the KEKs the operator may configure
          Deployments,   \* the deployment ids of data roots; Here is this one's
          Here,
          MaxDeks, MaxRecord, \* bounds: keys made, versions of a record
          CacheMax,      \* _DEK_CACHE_MAX
          NoKey

VARIABLES kek,       \* process -> KEK of its settings
          wrapped,   \* user -> wrapped_dek.json
          cache,     \* process -> cached keys: <<user whose path, file, dek>>
          tokens,    \* user -> the sealed token record
          creating,  \* process -> the user it registers, and how far it is
          known,     \* registered users
          touched,   \* users whose files an operator copied or restored
          made,      \* number of DEKs made
          opened     \* the last read of a record

keyVars == <<kek, wrapped, cache, tokens, creating, known, touched, made, opened>>

Deks == 1 .. MaxDeks
Files == [owner: KeyUsers, deployment: Deployments, kek: Keks, dek: Deks]
\* What AES-GCM authenticates with the ciphertext: record_aad.
Records == [dek: Deks, deployment: Deployments, owner: KeyUsers, version: 1 .. MaxRecord]
Rows == [record: Records, version: 1 .. MaxRecord]

KeyAssumption ==
  /\ Here \in Deployments
  /\ MaxDeks \in Nat /\ MaxRecord \in Nat
  /\ NoKey \notin KeyUsers \cup Deks \cup Files \cup Rows

KeyTypeOK ==
  /\ kek \in [KeyProcs -> Keks]
  /\ wrapped \in [KeyUsers -> Files \cup {NoKey}]
  /\ \A p \in KeyProcs : cache[p] \subseteq KeyUsers \X Files \X Deks
  /\ tokens \in [KeyUsers -> Rows \cup {NoKey}]
  /\ creating \in [KeyProcs -> [user: KeyUsers, pc: {"create", "insert"}] \cup {NoKey}]
  /\ known \subseteq KeyUsers /\ touched \subseteq KeyUsers
  /\ made \in 0 .. MaxDeks

KeyInit ==
  /\ kek \in [KeyProcs -> Keks]
  /\ wrapped = [u \in KeyUsers |-> NoKey] /\ tokens = [u \in KeyUsers |-> NoKey]
  /\ cache = [p \in KeyProcs |-> {}] /\ creating = [p \in KeyProcs |-> NoKey]
  /\ known = {} /\ touched = {} /\ made = 0
  /\ opened = [user |-> NoKey]

NoRead == opened' = [user |-> NoKey]

-----------------------------------------------------------------------------
\* get_key_provider is built once from the environment; a file wrapped by another
\* KEK fails by its fingerprint, and the context binds deployment and user.
UnwrapByKey(p, u, file) == IF file.kek = kek[p] THEN file.dek ELSE NoKey
Unwrap(p, u, file) ==
  IF file.owner = u /\ file.deployment = Here /\ file.kek = kek[p] THEN file.dek ELSE NoKey

\* The cache goes by the path and the content of the file.
CachedByPath(p, u) == {e \in cache[p] : e[1] = u}
Cached(p, u) == {e \in cache[p] : e[1] = u /\ e[2] = wrapped[u]}

LoadDekByPath(p, u) ==
  IF wrapped[u] = NoKey THEN NoKey
  ELSE IF CachedByPath(p, u) # {} THEN (CHOOSE e \in CachedByPath(p, u) : TRUE)[3]
  ELSE Unwrap(p, u, wrapped[u])
LoadDek(p, u) ==
  IF wrapped[u] = NoKey THEN NoKey
  ELSE IF Cached(p, u) # {} THEN (CHOOSE e \in Cached(p, u) : TRUE)[3]
  ELSE Unwrap(p, u, wrapped[u])

\* _cache_put drops the least recently used; which that is does not matter here.
Remember(p, u, dek) ==
  IF dek = NoKey THEN UNCHANGED cache
  ELSE LET entry == <<u, wrapped'[u], dek>> IN
       \E kept \in SUBSET cache[p] :
         /\ Cardinality(kept \cup {entry}) <= CacheMax
         /\ (Cardinality(cache[p] \cup {entry}) <= CacheMax => kept = cache[p])
         /\ cache' = [cache EXCEPT ![p] = kept \cup {entry}]

\* register_user up to the lock of the user: nobody is registered by that key.
BeginRegister(p, u) ==
  /\ creating[p] = NoKey /\ u \notin known
  /\ creating' = [creating EXCEPT ![p] = [user |-> u, pc |-> "create"]]
  /\ NoRead /\ UNCHANGED <<kek, wrapped, cache, tokens, known, touched, made>>

CreateDekAnew(p) ==
  LET u == creating[p].user IN
  /\ creating[p] # NoKey /\ creating[p].pc = "create" /\ made < MaxDeks
  /\ made' = made + 1
  /\ wrapped' = [wrapped EXCEPT ![u] = [owner |-> u, deployment |-> Here,
                                        kek |-> kek[p], dek |-> made + 1]]
  /\ Remember(p, u, made + 1)
  /\ creating' = [creating EXCEPT ![p].pc = "insert"]
  /\ NoRead /\ UNCHANGED <<kek, tokens, known, touched>>

\* Under the user's lock: a key that is there is loaded, never replaced, and the
\* registration fails when it does not load; a new one is written by os.replace.
CreateDek(p) ==
  LET u == creating[p].user IN
  /\ creating[p] # NoKey /\ creating[p].pc = "create"
  /\ \/ /\ wrapped[u] = NoKey /\ made < MaxDeks
        /\ made' = made + 1
        /\ wrapped' = [wrapped EXCEPT ![u] = [owner |-> u, deployment |-> Here,
                                              kek |-> kek[p], dek |-> made + 1]]
        /\ Remember(p, u, made + 1)
        /\ creating' = [creating EXCEPT ![p].pc = "insert"]
     \/ /\ wrapped[u] # NoKey
        /\ creating' = [creating EXCEPT ![p] = IF LoadDek(p, u) = NoKey THEN NoKey
                                               ELSE [@ EXCEPT !.pc = "insert"]]
        /\ UNCHANGED <<made, wrapped>>
        /\ Remember(p, u, LoadDek(p, u))
  /\ NoRead /\ UNCHANGED <<kek, tokens, known, touched>>

\* The user's row, unless another registration was first.
InsertUser(p) ==
  /\ creating[p] # NoKey /\ creating[p].pc = "insert"
  /\ known' = known \cup {creating[p].user}
  /\ creating' = [creating EXCEPT ![p] = NoKey]
  /\ NoRead /\ UNCHANGED <<kek, wrapped, cache, tokens, touched, made>>

\* seal: the tokens of the user, at the next version of the row.
SealTokens(p, u) ==
  LET dek == LoadDek(p, u)
      version == IF tokens[u] = NoKey THEN 1 ELSE tokens[u].version + 1 IN
  /\ u \in known /\ dek # NoKey /\ version <= MaxRecord
  /\ tokens' = [tokens EXCEPT ![u] =
       [version |-> version,
        record |-> [dek |-> dek, deployment |-> Here, owner |-> u, version |-> version]]]
  /\ UNCHANGED wrapped /\ Remember(p, u, dek)
  /\ NoRead /\ UNCHANGED <<kek, creating, known, touched, made>>

\* open_sealed: the key of the directory, and the authenticated data of the place.
Opens(dek, u, row) ==
  /\ row.record.dek = dek
  /\ row.record.owner = u /\ row.record.deployment = Here
  /\ row.record.version = row.version

OpenTokens(p, u) ==
  LET dek == LoadDek(p, u) IN
  /\ tokens[u] # NoKey
  /\ opened' = [user |-> u, by |-> p, done |-> dek # NoKey /\ Opens(dek, u, tokens[u]),
                row |-> tokens[u], file |-> wrapped[u], kek |-> kek[p]]
  /\ UNCHANGED wrapped /\ Remember(p, u, dek)
  /\ UNCHANGED <<kek, tokens, creating, known, touched, made>>

\* delete_user: the rows, the cached keys of this process and the files go, also
\* when another registration of the user has loaded or made the key already: its
\* row, inserted afterwards, is then one of a user without a key.
DeleteUserKeys(p, u) ==
  /\ u \in known
  /\ known' = known \ {u} /\ touched' = touched \ {u}
  /\ wrapped' = [wrapped EXCEPT ![u] = NoKey] /\ tokens' = [tokens EXCEPT ![u] = NoKey]
  /\ cache' = [cache EXCEPT ![p] = {e \in @ : e[1] # u}]
  /\ NoRead /\ UNCHANGED <<kek, creating, made>>

\* The process stops and starts again, perhaps with another KEK in its settings.
RestartProcess(p) ==
  /\ creating' = [creating EXCEPT ![p] = NoKey]
  /\ cache' = [cache EXCEPT ![p] = {}]
  /\ \E k \in Keks : kek' = [kek EXCEPT ![p] = k]
  /\ NoRead /\ UNCHANGED <<wrapped, tokens, known, touched, made>>

\* An operator puts another user's directory, or a part of it, in this one's
\* place, or that of the same user from another data root.
Misplace(u) ==
  /\ u \in known
  /\ \/ \E v \in known \ {u} :
          \/ wrapped[v] # NoKey /\ wrapped' = [wrapped EXCEPT ![u] = wrapped[v]]
             /\ tokens' = [tokens EXCEPT ![u] = tokens[v]]
          \/ tokens' = [tokens EXCEPT ![u] = tokens[v]] /\ UNCHANGED wrapped
     \/ \E d \in Deployments \ {Here} :
          /\ wrapped[u] # NoKey
          /\ wrapped' = [wrapped EXCEPT ![u].deployment = d] /\ UNCHANGED tokens
  /\ touched' = touched \cup {u}
  /\ NoRead /\ UNCHANGED <<kek, cache, creating, known, made>>

KeyNext ==
  \/ \E p \in KeyProcs :
       \/ \E u \in KeyUsers : BeginRegister(p, u) \/ SealTokens(p, u) \/ OpenTokens(p, u)
                              \/ DeleteUserKeys(p, u)
       \/ CreateDek(p) \/ InsertUser(p) \/ RestartProcess(p)
  \/ \E u \in KeyUsers : Misplace(u)

KeySpec == KeyInit /\ [][KeyNext]_keyVars

-----------------------------------------------------------------------------
\* The record of a user whose files nobody moved was sealed with the key that is
\* in the user's directory now, through concurrent registrations, deletions during
\* them, new registrations and caches that outlive them. A user left without a key
\* by such a deletion has no record either.
RecordsFitTheKey ==
  \A u \in known \ touched :
    tokens[u] # NoKey => wrapped[u] # NoKey /\ tokens[u].record.dek = wrapped[u].dek

\* A record opens exactly where it belongs: what opened is the user's own record
\* of this deployment in its own version, and the record of a user whose files
\* nobody moved fails to open only in a process that has another KEK.
OpensWhereItBelongs ==
  opened.user # NoKey =>
    /\ opened.done => opened.row.record.owner = opened.user
                      /\ opened.row.record.version = opened.row.version
                      /\ opened.file.deployment = Here /\ opened.file.owner = opened.user
    /\ ~opened.done /\ opened.user \in known \ touched => opened.file.kek # opened.kek

=============================================================================
