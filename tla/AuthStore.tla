----------------------------- MODULE AuthStore -----------------------------
(***************************************************************************)
(* The auth store of Db (src/storage/db.cpp: create_user, authenticate,    *)
(* has_permission, the _auth phase of load_all and the root bootstrap of   *)
(* Db::Db) driven by the request dispatch of Handler::process              *)
(* (src/network/handler.cpp).                                              *)
(*                                                                         *)
(* auth_cache_ maps a key's hash to its role.  A key's hash is the key     *)
(* itself: the keys of a configuration are assumed not to collide under    *)
(* hash_key's DJB2.  _auth is also an                                      *)
(* ordinary collection: a client may insert, update or delete its          *)
(* documents like any other, which changes the array and the log but not  *)
(* the cache.  Every Db method holds rw_lock_, so each request is a step;  *)
(* the authenticate call that precedes it (a shared-lock section of its    *)
(* own) is folded into the step, so the window between the two is not      *)
(* represented.  Opcodes that do not touch _auth are left to AevumDb.      *)
(***************************************************************************)
EXTENDS Naturals, Sequences, FiniteSets, SequencesExt

CONSTANTS
  Keys,         \* API keys clients present; their hashes are distinct
  Root,         \* the key "root" of the bootstrap
  RoleStrs,     \* role strings a create_user or an _auth document may carry
  AuthWriters,  \* keys whose clients send insert/update/delete on "_auth"
  DocIds,       \* _id values of _auth documents (generated UUIDs)
  MaxRestarts

ASSUME Root \in Keys /\ AuthWriters \subseteq Keys
ASSUME "admin" \in RoleStrs

Roles == {"NONE", "READ_ONLY", "READ_WRITE", "ADMIN"}
AuthDoc == [id: DocIds, kh: Keys, role: RoleStrs]

VARIABLES
  cache,     \* auth_cache_: partial function key hash -> role
  authArr,   \* memory_store_["_auth"]: the documents, in array order
  authLog,   \* frames of _auth.aev: documents and tombstones
  usedIds,   \* history: _id values generated so far
  granted,   \* history: roles create_user has given each key
  restarts

vars == <<cache, authArr, authLog, usedIds, granted, restarts>>

ParseRoleRaw(s) == s
\* create_user's role parsing: anything unknown becomes READ_ONLY.
ParseRole(s) ==
  IF s = "admin" THEN "ADMIN" ELSE IF s = "read_write" THEN "READ_WRITE" ELSE "READ_ONLY"

\* Db::authenticate (keys are never empty here).
Authenticate(k) == IF k \in DOMAIN cache THEN cache[k] ELSE "NONE"

\* Db::has_permission.
HasPermission(role, action) ==
  \/ role = "ADMIN"
  \/ role = "READ_WRITE" /\ action \in {"insert", "update", "delete", "upsert", "find", "count"}
  \/ role = "READ_ONLY" /\ action \in {"find", "count"}

\* Handler::process up to dispatch: reject NONE, then every action but
\* create_user needs has_permission; create_user needs ADMIN.
Admits(k, action) ==
  LET role == Authenticate(k) IN
  /\ role # "NONE"
  /\ IF action = "create_user" THEN role = "ADMIN" ELSE HasPermission(role, action)

Frame(d) == [id |-> d.id, kh |-> d.kh, role |-> d.role, tomb |-> FALSE]
Tomb(d) == [id |-> d.id, kh |-> d.kh, role |-> d.role, tomb |-> TRUE]

\* Db::create_user: set the cache entry, append the document to _auth.aev
\* and to the _auth array.  The _id is a fresh UUID.
CreateUserStep(key, rs) ==
  \E id \in DocIds \ usedIds :
    LET d == [id |-> id, kh |-> key, role |-> rs] IN
    /\ cache' = (key :> ParseRole(rs)) @@ cache
    /\ authLog' = Append(authLog, Frame(d))
    /\ authArr' = Append(authArr, d)
    /\ usedIds' = usedIds \cup {id}
    /\ granted' = [granted EXCEPT ![key] = @ \cup {ParseRole(rs)}]

\* A fresh data directory: load_all finds nothing, the cache is empty and
\* Db::Db bootstraps root as admin.
Init ==
  \E id \in DocIds :
    LET d == [id |-> id, kh |-> Root, role |-> "admin"] IN
    /\ cache = (Root :> "ADMIN")
    /\ authLog = <<Frame(d)>> /\ authArr = <<d>>
    /\ usedIds = {id}
    /\ granted = [k \in Keys |-> IF k = Root THEN {"ADMIN"} ELSE {}]
    /\ restarts = 0

\* {"action": "create_user", "auth": k, "key": u, "role": rs}
CreateUser(k, u, rs) ==
  /\ Admits(k, "create_user")
  /\ CreateUserStep(u, rs)
  /\ UNCHANGED restarts

\* {"action": "insert", "collection": "_auth", "data": {key_hash, role}}:
\* Db::insert generates an _id and appends; the cache is not touched.
InsertAuth(k, u, rs) ==
  /\ k \in AuthWriters
  /\ Admits(k, "insert")
  /\ \E id \in DocIds \ usedIds :
       LET d == [id |-> id, kh |-> u, role |-> rs] IN
       /\ authArr' = Append(authArr, d)
       /\ authLog' = Append(authLog, Frame(d))
       /\ usedIds' = usedIds \cup {id}
  /\ UNCHANGED <<cache, granted, restarts>>

\* {"action": "update", "collection": "_auth", "query": {key_hash: u},
\*  "update": {"$set": {"role": rs}}}: the predicate engine rewrites the
\* matching documents, the log is compacted to the array.
UpdateAuth(k, u, rs) ==
  /\ k \in AuthWriters
  /\ Admits(k, "update")
  /\ LET arr == [i \in 1..Len(authArr) |->
                   IF authArr[i].kh = u THEN [authArr[i] EXCEPT !.role = rs]
                   ELSE authArr[i]]
     IN /\ authArr' = arr
        /\ authLog' = [i \in 1..Len(arr) |-> Frame(arr[i])]
  /\ UNCHANGED <<cache, usedIds, granted, restarts>>

\* {"action": "delete", "collection": "_auth", "query": {key_hash: u}}:
\* a full scan finds the targets; each gets a tombstone and is detached.
\* The cache keeps the key.
DeleteAuth(k, u) ==
  /\ k \in AuthWriters
  /\ Admits(k, "delete")
  /\ LET targets == SelectSeq(authArr, LAMBDA d : d.kh = u) IN
     /\ targets # <<>>
     /\ authLog' = authLog \o [i \in 1..Len(targets) |-> Tomb(targets[i])]
     /\ authArr' = SelectSeq(authArr, LAMBDA d : d.kh # u)
  /\ UNCHANGED <<cache, usedIds, granted, restarts>>

\* load_all's replay of _auth.aev into temp_map (_id -> document).
ApplyAuthFrame(m, fr) ==
  IF fr.tomb THEN [i \in DOMAIN m \ {fr.id} |-> m[i]]
  ELSE (fr.id :> [id |-> fr.id, kh |-> fr.kh, role |-> fr.role]) @@ m

\* Populating auth_cache_ from the array: later documents overwrite.
CacheOf(arr) ==
  FoldLeft(LAMBDA c, d : (d.kh :> ParseRole(d.role)) @@ c, <<>>, arr)

\* Crash, then Db::Db: load_all builds the _auth array by iterating the
\* unordered_map temp_map (any order), fills the cache from it, and root
\* is bootstrapped when the cache came out empty.
Restart ==
  LET m == FoldLeft(ApplyAuthFrame, <<>>, authLog) IN
  /\ restarts < MaxRestarts
  /\ \E perm \in SetToSeqs(DOMAIN m) :
       LET arr == [i \in 1..Len(perm) |-> m[perm[i]]] IN
       IF CacheOf(arr) # <<>>
       THEN /\ cache' = CacheOf(arr) /\ authArr' = arr
            /\ UNCHANGED <<authLog, usedIds, granted>>
       ELSE \E id \in DocIds \ usedIds :
              LET d == [id |-> id, kh |-> Root, role |-> "admin"] IN
              /\ cache' = (Root :> "ADMIN")
              /\ authLog' = Append(authLog, Frame(d))
              /\ authArr' = Append(arr, d)
              /\ usedIds' = usedIds \cup {id}
              /\ granted' = [granted EXCEPT ![Root] = @ \cup {"ADMIN"}]
  /\ restarts' = restarts + 1

Next ==
  \/ \E k, u \in Keys, rs \in RoleStrs : CreateUser(k, u, rs)
  \/ \E k, u \in Keys, rs \in RoleStrs : InsertAuth(k, u, rs)
  \/ \E k, u \in Keys, rs \in RoleStrs : UpdateAuth(k, u, rs)
  \/ \E k, u \in Keys : DeleteAuth(k, u)
  \/ Restart

Spec == Init /\ [][Next]_vars

-----------------------------------------------------------------------------
(* Properties.                                                             *)

TypeOK ==
  /\ DOMAIN cache \subseteq Keys /\ \A k \in DOMAIN cache : cache[k] \in Roles
  /\ authArr \in Seq(AuthDoc) /\ usedIds \subseteq DocIds
  /\ \A i \in 1..Len(authLog) : authLog[i].id \in DocIds /\ authLog[i].tomb \in BOOLEAN
  /\ granted \in [Keys -> SUBSET Roles] /\ restarts \in 0..MaxRestarts

RoleRank == [NONE |-> 0, READ_ONLY |-> 1, READ_WRITE |-> 2, ADMIN |-> 3]

\* No privilege escalation (spec 4.4: only an ADMIN's create_user assigns
\* roles): no key ever holds a role above every role create_user (or the
\* root bootstrap) gave it.  Clients reach the _auth collection through
\* ordinary insert/update/delete, and load_all trusts whatever it finds.
NoPrivilegeEscalation ==
  \A k \in DOMAIN cache : \E r \in granted[k] : RoleRank[cache[k]] <= RoleRank[r]

\* Recovery reproduces the auth cache (spec 4.6 step 6, spec 8 replay
\* equivalence): a restart leaves every key's role as it was.
AuthReplayEquivalence == [][restarts' # restarts => cache' = cache]_vars

=============================================================================
