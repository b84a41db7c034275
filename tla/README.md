# AevumDB storage engine: TLA+ models

This directory holds TLA+ models of the AevumDB server (`src/`). TLC checks
them against the configurations listed here. `PROJECT.json` records the same
information in machine-readable form: components, runs, mutants, the map from
each definition to the source lines it models, findings and hazards.

## 1. The system

The parts of the system, leaves first:

| Part | Source | What it does |
|---|---|---|
| Log file codec | `src/storage/engine.cpp` `append`, `load_log`, `compact` | Writes frames as `[u32 length, little-endian][payload]`. Reads them back until the first short read. |
| Persistence engine | `src/storage/engine.cpp` | One `<name>.aev` file per collection. Provides `append`, `load_log`, `list_collections` (in `directory_iterator` order), and `compact`, which writes `.tmp` and then renames it over the log. |
| ID generator | `src/infra/id_generator.cpp` | Random v4 UUIDs. |
| Predicate engine (external) | `src/ffi/rust_adapter.cpp` | Marshals strings to the Rust engine for filter, count, update and validate. The engine itself is not in this repository. |
| Index manager | `src/storage/db.cpp` `rebuild_index`, `update_custom_index`, `create_index` | The primary index `_id -> cJSON*` and secondary buckets `field -> stringified value -> vector<cJSON*>`. Registrations are persisted in `_indexes`. |
| Collection controller | `src/storage/db.cpp` | `insert`, `upsert`, `update`, `remove` (the "turbo delete"), `find` (three tiers), `count`, `set_schema`, `trigger_compaction`, and `validate`. |
| Recovery | `src/storage/db.cpp` `Db::Db`, `load_all` | Replays every `.aev` file in directory order, rebuilds the indexes, loads `_auth`, runs the auto-compaction heuristic, and bootstraps `root`. |
| Auth store | `src/storage/db.cpp` `hash_key`, `create_user`, `authenticate`, `has_permission` | Credential hash (DJB2) and role-based access. |
| Request handler | `src/network/handler.cpp` | Parses a JSON request, authenticates it, checks the permission, and dispatches to `Db`. |
| Thread pool | `src/infra/scheduler.cpp` | Fixed workers on a FIFO queue. The destructor drains the queue. |
| Server | `src/network/server.cpp` | The accept loop. Each connection is handled by `handle_client` on a pool worker until it closes. `stop` closes everything. |
| Logger, string utilities, `main` | `src/infra/logger.cpp`, `src/infra/string.cpp`, `src/main.cpp` | Output, `trim`, and argument and signal handling. |

How they interact:
- A connection is one task of the pool.
- Each request goes through `Handler::process` to one `Db` method.
- Every `Db` method takes the global `rw_lock_`: exclusively for writes, shared for `count` and `find`. So `Db` calls are serialized, except `upsert`, which calls `count` and then `insert` or `update` and takes the lock once for each.
- A write first changes memory (the `cJSON` array and the indexes) and then appends to, or compacts, the log.
- A crash loses memory. The next start replays the logs.

## 2. Modules

### `DocStore.tla`: the abstract specification
What the controller promises for one collection. The state is `docs`, a partial function from `_id` to the value of a field, and `last`, the operation of the last step with its query and value (a history variable, as in the auxiliary-variable examples).
- `InsertDoc` creates a document with a fresh id.
- `UpdateWhere` sets the field of every document that matches a query.
- `DeleteWhere` removes every document that matches a query.
- `Recover`: a crash and recovery between operations leaves `docs` as it was.
- `CrashDeleteSome`: a crash inside a delete of a query leaves some of the matching documents deleted and the others intact. The frame is the unit of persistence (spec 6.1), so each document is either gone or untouched.

Nothing else changes `docs`. Each action sets `last` to its own name and arguments. Under the refinement, `last` is mapped to the request the implementation step served. So a step is checked against the one abstract operation that request names. Examples: a restart must be a `Recover` and may change nothing; a delete of `q` must remove exactly the matches of `q`; only a crash inside a delete of `q` may remove a subset of them.

### `AevumDb.tla`: the controller, index manager, recovery and engine
The model covers one user collection `Coll` with one field `"f"`, which may be indexed. Its state corresponds to the code as follows:

| Variable | Code |
|---|---|
| `mem` | `memory_store_[Coll]`: the array, as a sequence of document handles (cJSON pointers) |
| `heap` | what each handle points to (`[id, f]`), or `Free` once `cJSON_Delete`d |
| `pidx` | `id_indexes_[Coll]` |
| `sidx` | `custom_indexes_[Coll]["f"]`: value -> sequence of handles (the vectors) |
| `exists` | `memory_store_.count(Coll)` |
| `indexed` | `indexed_fields_[Coll]` contains `"f"` |
| `schema` | `schemas_[Coll]` |
| `dataLog`, `idxLog`, `schemaLog` | the frames of `Coll.aev`, `_indexes.aev`, `_schemas.aev` |
| `files` | which `.aev` files exist (`list_collections`) |
| `pc`, `upArg` | a thread inside `upsert`, between its count and its write |
| `usedIds`, `restarts`, `ioFailReported`, `lastOp` | history: ids generated so far, restarts taken, whether any call has returned `false` for an I/O failure, and the last request with its query and value (`[op, q, v]`, for the refinement) |

Each public method is one action, because its whole body runs under the writer lock. Every call the method makes is part of its action; for example, `update` includes `rebuild_index` and `compact_collection`.

| Action | Method it models |
|---|---|
| `Insert` | `Db::insert` (`validate`, `get_collection`, id, push, both indexes, append) |
| `Update` | `Db::update` (swap, rebuild, compaction; the result is ignored) |
| `UpsertCount` / `UpsertApply` | the two critical sections of `Db::upsert` |
| `Delete` | `Db::remove`: tiers 1, 2 and 3, then the loop of `RemoveOne` (tombstone, unindex, erase, detach, free) |
| `SetSchema` | `Db::set_schema` |
| `CreateIndex` | `Db::create_index` (register, backfill, compact `_indexes`) |
| `TriggerCompaction` | `Db::trigger_compaction` |
| `Restart` | a crash between requests, then `Db::Db` / `load_all` (`RecoverFrom` the current log) |
| `CrashInDelete` | a crash inside the tombstone loop of `Db::remove`, after `k` of its targets (`0 < k <` targets), then `RecoverFrom` the log those `k` iterations left |

A `Db` method that returns early without changing anything (an unknown collection, no delete targets, an index already registered) is a disabled action.

`RecoverFrom(log, files)` models recovery as follows:
- It chooses the `directory_iterator` order from `DirOrders`. `IndexesListedFirst` is `Engine::list_collections`'s part: `load_all` walks the list once, so the `_indexes` registration reaches the data file only when listed before it.
- It chooses the array order from `temp_map`, an `unordered_map`, as any permutation.
- Documents get fresh handles.
- It runs the auto-compaction heuristic.

`find` and `count` only read, so they are the operators `Find` and `Count`, which the properties use. `Find` follows the three tiers of `Db::find` for a simple request. The predicate engine's semantics, from spec 6.3, are `Matches` and `FullScan`, marked `spec_modelled` in the map. I/O failure is a nondeterministic outcome of each append or compaction, enabled by `FaultyIO`. A failed append writes nothing; torn frames belong to `FrameCodec`.

### `AuthStore.tla`: the auth store and the RBAC gate of the handler
The state corresponds to the code as follows:

| Variable | Code |
|---|---|
| `cache` | `auth_cache_`: key hash -> role (a key stands for its hash: `hash_key` is taken to be injective on the configured keys) |
| `authArr` | `memory_store_["_auth"]`, the documents `[id, kh, role]` in array order |
| `authLog` | the frames of `_auth.aev`, documents and tombstones |
| `usedIds`, `granted`, `restarts` | history: ids generated, the roles `create_user` (or the bootstrap) gave each key, restarts taken |

| Action | Code |
|---|---|
| `CreateUser(k, u, rs)` | `Handler::process` with `create_user` (ADMIN check), then `Db::create_user` |
| `InsertAuth`, `UpdateAuth`, `DeleteAuth` | a client with `has_permission` for the write sending it to the collection `_auth`; `Db::insert`/`update`/`remove` change the array and the log, never the cache |
| `Restart` | a crash, then `load_all` on `_auth` (replay into `temp_map`, any iteration order, cache filled from the array, later documents overwriting) and the `root` bootstrap of `Db::Db` when the cache is empty |

`Admits` is the authentication and authorization prefix of `Handler::process` (lines 56-77, and the ADMIN check at 97). `AuthWriters` names the keys whose clients send writes to `_auth`. Each action fuses `authenticate` (a shared-lock section) with the `Db` call (a writer-lock section) that follows it, so a `create_user` that lands between the two is not represented. Opcodes that do not write `_auth` change no auth state. Their gating is left to `Server`, and their effect to `AevumDb`.

### `FrameCodec.tla`: one log file, byte by byte
The bytes of one `<coll>.aev` and the operations that write and read them. A document is the byte string of its printed JSON (every byte at least `0x20`), and `TombOf[d]` is its tombstone. `MC_FrameCodec` uses `{}`, `{1}` and `{12}`, 2, 3 and 4 bytes long, so that torn frames of every length meet headers of every length. The tombstones `[}`, `[1}` and `[12}` have the same lengths and differ from every document.

| Definition | Code |
|---|---|
| `LE32`, `Frame`, `Encode` | the header `static_cast<uint32_t>(size)` written through `reinterpret_cast` (little-endian), the payload after it; `compact` writing every document the same way |
| `HeaderLen`, `LoadLog` (RECURSIVE) | `load_log`: `peek() != EOF`, read 4 bytes (short: break), read the payload (short: break, else `push_back`). A header whose top byte is non-zero stands for a length of at least 2^24, more than any file of the model holds. |
| `ApplyPayload`, `Replayed`, `Recovered` | `load_all` phase 2 in log order: a frame `cJSON_Parse` rejects is skipped, a tombstone erases its document from `temp_map`, and a document frame puts it |
| `file`, `mem`, `up` | the file's bytes; the documents of `memory_store_`; the process is running |
| `acked`, `inserted`, `segs` | history: inserts that returned true; inserts started; every frame whose bytes reached the file, whole or not |

| Action | Code |
|---|---|
| `Insert(d)` | `Db::insert` with `append` writing the whole frame and returning true |
| `InsertPartial(d)` | `Db::insert` with an I/O error: the document stays in memory, a prefix of the frame reaches the file; `append` returns false, or (if `LateFlushErrors`) true, because `file.good()` is read before the destructor flushes |
| `CrashInInsert(d)`, `Crash` | the process dies after some bytes of a frame, or between requests (a crash inside `compact` before the rename leaves only an ignored `.aev.tmp`) |
| `RemoveDoc(d)` | `Db::remove` of a live document: its tombstone frame is appended whole, or any prefix of it on an I/O error; the document leaves memory whatever `append` returned |
| `CrashInRemove(d)` | the process dies after some bytes of the tombstone |
| `Restart` | `load_all`: memory becomes the recovered documents (its auto-compaction needs more than 100 live documents and never fires here) |
| `Compact`, `CompactFail` | `trigger_compaction` -> `compact`: memory, framed, replaces the file by rename; or the write or rename fails and the file is untouched |

### `Server.tla`: the network server and the thread pool
`Server` composes `Server` (`server.cpp`, `server.hpp`), the `Scheduler` pool that is its only user (`scheduler.cpp`), and the signal handler of `main.cpp`. A socket is named by the client it connects; descriptor numbers are not modelled, and `Handler::process` is reduced to its answer (goodbye for an `exit` from a client in `Admins`, since `has_permission` refuses `exit` to every other role).

| Variable | Code |
|---|---|
| `running`, `listening` | `running_`, `server_fd_ >= 0` |
| `registry`, `registryAlive` | `client_sockets_`; whether it and `client_mutex_` still exist |
| `mainPc`, `cur` | the main thread's position (accept loop, `~Server`, join) and the socket it holds |
| `tasks`, `stopping` | the pool's `tasks_` queue and `stop_` |
| `wpc`, `wconn`, `wreq` | each worker's position, the socket of its `handle_client` task, the request in hand |
| `conn`, `sock`, `inbox`, `peerClosed`, `sent`, `answered` | each client: connection state, server-side socket state, requests in flight, FIN sent, counts |
| `closes` | history: `close()` calls per socket |

| Action | Code |
|---|---|
| `Accept`, `AcceptFail`, `Check`, `AddClient`, `Enqueue` | the accept loop of `Server::run`: `accept`, the failure branch, `if (!running_) close; break`, `add_client`, `scheduler_.enqueue` and the loop test |
| `Boot`, `Prologue` | `main`: install the signal handlers, construct `Db` and `Server`, set `g_server`, call `run`; `run`'s `socket`/`setsockopt`/`bind`/`listen` prologue, which either sets `running_` or returns at once |
| `Signal`, `Stop` | `signal_handler` (nothing while `g_server` is null) calling `Server::stop` on the main thread, between two of its steps |
| `ServerDtor`, `Join` | `~Server` (a no-op `stop()`), destruction of `client_mutex_` and `client_sockets_`, then `~Scheduler`: set `stop_`, notify, join |
| `WorkerTake`, `WorkerExit` | the worker loop: the wait predicate and the `stop_ && empty` exit test |
| `SessionLoop`, `Recv`, `Respond`, `RemoveClient` | `handle_client`: `while (running_)`, `recv` and its three outcomes, `process` + `send` + the goodbye break, `remove_client` |
| `Connect`, `Send`, `Hangup` | clients (the environment). A client sends its next request only after the last one is answered (spec 6.2: one request per `recv`). |

`Init` is `main` with the signal handlers installed and `g_server` still null; a signal then changes nothing, and neither does one during the prologue, before `running_` is set. Once `client_sockets_` is destroyed, `remove_client` reads freed memory; the model lets the lookup see the stale contents or miss. A crash of the process there is not modelled.

### `MC_AevumDb.tla`
This module sets up the model for TLC:
- the query sets and the schema table;
- the directory orders;
- the state constraint `StateBound`;
- the symmetry over ids.

## 3. Runs

### AevumDb runs
These runs use `MC_AevumDb`. The common bounds are:
- ids `{i1,i2,i3}`, with no client ids unless stated;
- values `{v1,v2}` plus "field absent";
- schemas `s1` (accepts only `v1`, no `collection` key) and `s2` (accepts all, tagged);
- queries: the empty query, `{_id: i}`, and `{f: v}`;
- 3 heap slots and at most 2 live documents;
- a data log of at most 4 frames;
- one restart.

With these bounds every tier of `find` and `remove` is reached, including tier 2 with two documents in one bucket. So are recovery with tombstones and auto-compaction (`AutoCompactMin = 0` stands for the code's 100: what matters is `frames > 2 * live`). Two cases are not reached. The safety run generates every id and `update` compacts, so recovery never replays two frames of one `_id`. With one thread, no upsert interleaves with another writer: only `upsert_race`, with two threads, reaches that.

| Run | Expect | What it checks |
|---|---|---|
| `safety` (`AevumDb_safety.cfg`, 1 thread, 100,022 states) | pass | `ReplayEquivalence`: memory equals the replay of the logs. `PrimaryIndexConsistent` and `SecondaryIndexConsistent` both hold. `QueryTierEquivalence`: every `find` tier agrees with the full scan. These hold across every interleaving of writes, one crash and recovery (between requests, or inside the `remove` loop). `DocStoreRefinement`: `AevumDb` implements `DocStore` under the mapping `docs <- MemDocFn` (the live documents as `_id -> f`) and `last <- lastOp` (the request the step served). Each implementation step must therefore be the abstract operation of its own request:
- an insert is `InsertDoc` of its value;
- an update, or an upsert that found a match, is `UpdateWhere` of its query;
- a delete is `DeleteWhere` of its query and removes exactly its matches;
- a crash between requests is `Recover` and changes nothing a client sees;
- a crash between two tombstone appends of a delete is `CrashDeleteSome` of that delete's query: only matches of it are gone, the others are back intact.

Compaction, `set_schema` and `create_index` are stuttering steps. With 366,158 states the run takes about 80 s. Two scratch mutants of the refinement were caught: a restart that loses the last frame (in 94 states), and a delete that removes every live id (in 83 states). |
| `upsert_race` (2 threads, queries on `f` only) | violation of `UpsertAtomic` | Thread 1's upsert of `{f: v}` counts 0 and releases the lock. Thread 2 inserts a document with `f = v`. Thread 1's upsert then inserts a second document with `f = v`. |
| `dir_order` (any directory order) | violation of `SecondaryIndexConsistent` | `_indexes` is listed after the data file, so the bucket is empty after recovery. |
| `schema_lost` | violation of `SchemaReplayEquivalence` | `set_schema` writes no `collection` key, so the schema does not survive a restart. |
| `io_fault` (`FaultyIO = TRUE`) | violation of `NoSilentDivergence` | `update` and `remove` return true after a failed write. |

Two disagreements that a unit test reaches as easily are recorded as hazards with notes instead of runs: a client-supplied `_id` that is already live (`ClientIds = {i1}` makes `PrimaryIndexConsistent` fail), and tier 1 of `find` ignoring the other keys of a query `{_id, f}` (adding that query makes `QueryTierEquivalence` fail). The safety run therefore generates every `_id` and sends single-key queries.

Every property of a passing run has a mutant in `PROJECT.json`: a plausible bug in the mapped code that TLC must catch. The mutants are:
- the tombstone is not written;
- the `_id` is not erased from the primary index;
- the document is not detached;
- the backfill is skipped;
- the bucket entry is not removed;
- tombstones are replayed as documents.

### AuthStore runs
`MC_AuthStore` uses the keys `{root, k1}`, the role strings `admin`, `read_write` and `read_only` (anything else parses like `read_only`), three document ids (symmetric), an `_auth` log of at most 3 frames and two restarts. This reaches a second `create_user` for one key, a client write to `_auth` followed by a restart, a delete of every `_auth` document followed by the bootstrap, and a key demoted by `create_user`.

| Run | Expect | What it checks |
|---|---|---|
| `auth_rbac` (`AuthStore_rbac.cfg`, both keys write `_auth`) | pass | `TypeOK` across every order of `create_user`, client writes to `_auth`, deletes of every `_auth` document, bootstraps and restarts. This run fires the actions the two violation runs stop before. `CHECK_DEADLOCK FALSE`: an ADMIN may demote itself and every other key to READ_ONLY, after which no request changes anything and the system really stops. |
| `auth_escalation` (only `k1` writes `_auth`) | violation of `NoPrivilegeEscalation` | `k1`, made READ_WRITE by root, inserts `{key_hash: k1, role: admin}` into `_auth` and is ADMIN after a restart. |
| `auth_replay_order` (no client writes `_auth`) | violation of `AuthReplayEquivalence` | Two `create_user` calls for one key; the restart iterates `temp_map` in the other order and restores the older role. |

The mutant of `auth_rbac` makes `create_user` store the role string unparsed.

Three hazards of the auth path have no property. An ADMIN demoting itself is allowed by spec 4.4. It is reached, but nothing in the spec says it is wrong. The window between `authenticate` and the `Db` call is fused away. `exit` refused to non-ADMIN keys is the code's table, and spec 6.2 gives it no role.

`hash_key` itself (DJB2 over a plain `char`, which is signed on x86-64, so bytes from `0x80` subtract where spec 4.4 adds) is a hazard in `PROJECT.json`, not a model: it changes only the stored hash values.

### Server runs
| Run | Expect | What it checks |
|---|---|---|
| `shutdown` (`Server_shutdown.cfg`: 1 worker, 3 clients, 1 ADMIN, one request each; 531,423 states, 30 s) | pass | `NoDoubleClose`: no socket is closed twice, whichever of `stop()`, the accept loop's check and the session's `remove_client` gets there first. `ShutdownCompletes`: once `run` is past its prologue and `running_` is false, the main thread eventually returns from joining the pool. |
| `server_teardown` (1 worker, 1 client) | violation of `RegistryAlive` | A session woken by `stop()` calls `remove_client` after `~Server` has destroyed `client_sockets_` and `client_mutex_`: `scheduler_` is declared before them, so it is destroyed, and joins its workers, after them. |

With one worker and three clients two connections can wait in the queue, which is what draining and the shutdown check of the accept loop need; a second worker only multiplies interleavings of the same steps (a run with two workers and two clients with two requests each also passes). The mutants: `remove_client` closes without the membership test; `stop()` leaves the client sockets open.

All Server runs set `CHECK_DEADLOCK FALSE`: the process really stops once the main thread has joined the pool.

Two liveness gaps are hazards in `PROJECT.json`, not runs. A signal delivered during boot or the prologue is lost: in `Server` it changes nothing, which is why `ShutdownCompletes` starts after the prologue; a scratch property "a delivered signal leads to exit" is violated by a signal at boot. And `handle_client` holds its worker for the whole connection: with one worker, one idle client starves another's request, which a property "a sent request is answered while the server runs" shows.

### FrameCodec runs
`MC_FrameCodec`: the three documents above, each inserted at most once, with removes, crashes, restarts and compactions. A document removed, resurrected by a torn tombstone and removed again makes the log grow without end, so `SegBound` keeps it to `MaxSegs = 3` frames. Three frames, each of which may be cut after any of its 6 to 8 bytes, give every alignment of a torn frame against the header of the next. They also give the resynchronising case, which needs a torn header, a torn fragment and a whole frame.

| Run | Expect | What it checks |
|---|---|---|
| `codec_torn` (`FrameCodec_torn.cfg`, `LateFlushErrors = TRUE`; 903,367 states, about 1 min) | pass | `RecoverUpToTear`: whatever an insert's or a tombstone's torn frame left, a restart recovers the replay of every frame before the first torn one, followed by some subsequence of the whole frames after it, in log order. No document or tombstone is ever made of torn bytes. A stronger form (exactly the frames before the tear) is false. When a torn header announces `n` bytes and a later torn fragment is exactly `n` bytes long, the reader lands on the next whole frame and replays it, skipping the frames in between. |
| `codec_append_after_tear` (`LateFlushErrors = FALSE`) | violation of `AckedRecoverable` | An insert fails after writing one header byte (`append` returns false, spec 7: the caller may retry); the next insert returns true, but `load_log` reads the torn byte and the first three bytes of the next header as one length. With the 2- and 3-byte documents this is `<<2, 3, 0, 0>>`, 770 bytes; with the 3- and 4-byte ones it is `<<3, 4, 0, 0>>`, 1027 bytes. Which pair TLC prints depends on the worker schedule. Either way `load_log` stops, so that document is gone at the next restart. The same happens after a crash cut a frame (spec 6.1's "truncated trailing frame") and the restarted process appended again: a crash, a restart and one insert. Compaction is the only repair. |

The mutants: `load_all` keeps frames it cannot parse (`TypeOK` catches garbage in memory); the header is read big-endian.

## 4. Fairness

The AevumDb and AuthStore runs check only safety and refinement, so they assume no fairness. `Db` makes no progress promise: every method is one bounded critical section.

`Server`'s `Spec` has weak fairness for the main thread and for each worker (`WF_vars(Main)`, `WF_vars(Worker(w))`). These are OS threads: one that can run eventually runs. A worker blocked in `recv` or in the condition wait is disabled, and becomes enabled, and stays enabled, once data, a FIN, a socket shutdown or a task arrives; so weak fairness is enough. The client mutex sections are single steps and need no strong fairness. Clients and the signal get no fairness: a client may stay connected and silent forever, and nobody has to stop the server. This is why a session held by an idle client can starve others (a hazard).

## 5. Not modelled

Every state-changing operation of the repository's own code is an action of a module. What is left out, and why:
- **Bugs kept as hazards, not runs.** Each of these is a single scenario that a scratch check shows; `PROJECT.json` records it with its note, and the project keeps one run per question it settles.
  - `insert` of a client `_id` that is already live.
  - A tier-1 `find` that ignores other keys.
  - DJB2 collisions between keys, and the sign of `char` in `hash_key`.
  - `auth_cache_` not revoked by a delete on `_auth`.
  - `std::to_string` rendering a number like a string.
  - The signal handler relocking `client_mutex_`, or `Logger::mutex_` when the signal lands inside `Logger::log`.
  - A `create_user` demoting a key between that key's `authenticate` and its `Db` call; `AuthStore` fuses the two.
  - A garbage length header making `load_log` resize its buffer to up to 4 GiB. `FrameCodec`'s `HeaderLen` treats it as a short read, but the real allocation may throw `bad_alloc` or be killed for memory.
- **The Rust predicate engine** is external to this repository. `Matches` and `FullScan` take its filter semantics from spec 6.3. `rust_adapter.cpp` only marshals strings to it. Its one behaviour of interest is that a null result becomes `"{}"`, which `update` would install as the collection. Modelling that needs failure modes the engine does not specify, so it is a hazard.
- **Headers** (`db.hpp`, `engine.hpp`, `server.hpp`, `rust_adapter.hpp`) declare the classes that the modules model, and hold their documentation. `ScopedRustString` is the exception, and it is part of the engine adapter above.

Left out of `Server` on purpose:
- `enqueue` does not test `stop_`, but its only caller is the accept loop, which has returned before `~Scheduler` sets `stop_`; a task can never be added after shutdown begins.
- The signal arriving while the main thread holds `client_mutex_` in `add_client` (a self-deadlock) needs `add_client` split into lock and unlock steps. The same deadlock on `Logger::mutex_` needs a model of the logger. Both are listed as hazards.
- Pipelined requests arriving in one `recv` are excluded by spec 6.2's client rule.

Left out for good:
- the logger and `trim`, which are formatting;
- `main`'s argument parsing and help text;
- the UUID format;
- the predicate engine's internals, which are external.

Per-document fields beyond one indexed field, and several collections, are left out too. The code treats each collection independently, and a second field exercises no other control.
