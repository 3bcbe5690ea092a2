# TLA+ models of nfs4go

This directory holds TLA+ models of the NFSv4 server in `src/`. TLC checks them.
Every module is translated from the Go source. `PROJECT.json` maps each
definition to the lines it models.

## The system and its parts

An NFS client connects over TCP. Three parts handle the connection:

- `Server.HandleConn` (`src/unnamed/part_009`) starts a `Conn` (`src/conn.go`).
- The `Conn` runs three goroutines: receive, mux and send. They are joined by
  two channels of capacity 50.
- The mux (`Conn.RunMux`) starts **one goroutine per request**. Replies can
  therefore finish in any order.

Each request is a COMPOUND (`src/unnamed/part_006`). Its operations touch
three kinds of shared state:

| Part | Source | State | Locking |
|---|---|---|---|
| Client registry | `src/unnamed/part_003`, `part_002` | client records (name, verifier, credentials, confirmed, confirm value, CREATE_SESSION seqID, busy count, lastSeen), each with its sessions of 16 slots | one mutex for the registry and every record |
| Slot reply cache | `Slot` in `part_002`, used by `Compound.RunSequence` | `SequenceID`, `ContainsData`, `Buf` per slot | **none** |
| Workers | `src/unnamed/part_007`, `part_008`, `src/worker/*.go`, `Server.GetWorker` in `part_009` | one per (session, uid); open files, closed file ids, directory listers, attribute cache, `inUse` / `discarded` | one mutex per worker, plus a server mutex for the worker map |

Background goroutines also change this state:

- the registry's expiry sweep;
- each worker's idle-discard ticker;
- the lister cleanup;
- the attribute cache's garbage collector.

The other parts carry no long-lived state of their own. They are encodings
and the buffers that hold them:

- the XDR codec (`src/xdr/encoder.go`, the decoder in `src/unnamed/part_001`),
  RPC framing (`src/rpc.go`) and the message types;
- attributes (`src/attrs.go`, `bitmap4Encode/Decode` in `part_005`);
- authentication (`src/auth/authenticate.go`);
- the file-id words of a stateid (`src/fileid.go`);
- the buffer pool (`src/bufpool/`), which the request, reply and slot
  buffers of all connections share;
- the clock (`src/clock/`).

### What is hard here

- **The slot cache is unlocked.** Two goroutines of one slot can run
  `RunSequence` at once. The code checks the slot's sequence id at lines
  270-287, writes it at 289-290, and stores the reply at 325-327. Another
  goroutine can run between any two of these steps. This happens when a
  client retransmits while the original is still executing, or when a
  retransmission races the client's next request.
- **Handlers call the registry, then the worker, and hold no lock in
  between.**
  - OPEN calls `Clients.Get`, then `AddFile`. AddFile marks the client busy.
  - CLOSE calls `IsRemovedFile`, then `RemoveFile`.
- **Retransmission after a timeout.** The CREATE_SESSION, SEQUENCE and CLOSE
  paths must all handle a request that arrives again.
- **Client reboot.** A rebooted client registers again with a new verifier.
- **Expiry and discard.** The expiry sweep and worker discard run on timers
  while requests are in flight.

## Modules

| Module | Models | State | Actions |
|---|---|---|---|
| `ClientRegistry` | `Clients.*`, `Client.Add/Done`, and the CREATE_SESSION and DESTROY_SESSION handlers | `clients` (id → record), `sessions` (id → set of [cache id, CREATE_SESSION seq]) | `Add`, `Confirm`, `CreateSession` (Confirm41 + BuildSession), `DestroySession`, `Get`, `GetByName`, `RemoveClient`, `RemoveExpiredClients`, `AddBusy`, `Done`, and the environment step `Expire` |
| `SlotReplyCache` | `Compound.RunSequence` over the slots of `BuildSession`, and `Buf.Copy` | slot `SequenceID`/`ContainsData`/`Buf`, one record per request goroutine with a program counter, the client's view, and a count of executions per (slot, seq) | `Check`, `Advance`, `Exec`, `Store` (one per unlocked step), and the environment steps `ClientSend` and `Redeliver` |
| `Worker` | `Server.GetWorker`, `Worker.Use/Discard/Close/cleanup/autoDiscard`, the open-file table (`AddFile`, `GetFileByClientSeqID`, `RemoveFile`, `IsRemovedFile`), and the OPEN and CLOSE handlers; composed with `ClientRegistry` through `INSTANCE` | the registry's variables; the worker map per key; per worker object its credentials, `inUse`, `discarded`, `Files`, `ClosedFiles`, and how often cleanup was started and has run; one record per handler goroutine with a program counter | `GetWorker`, `Release` (Worker.Close), `AutoDiscard`, `Cleanup`; OPEN as `StartOpen`, `OpenGetClient`, `OpenGetWorker`, `OpenLookup`, `OpenAddFile`; CLOSE as `StartClose`, `CloseGetWorker`, `CloseIsRemoved`, `CloseRemoveFile`; registry steps (Add, Confirm, DESTROY_CLIENTID, expiry) |
| `OpenStateId` | the v4.1 OPEN replay lookup (`Compound.Open`, part_006 1797-2050) and CLOSE's `RemoveFile` | slot sequence ids, the worker's open files as [fid, seqid, path], histories of files opened and OPEN replies | `SequenceOpen` (SEQUENCE + OPEN in one COMPOUND), `SequenceClose` |
| `Conn` | `src/conn.go`: the reader goroutine, the proxy, `RunMux` with one handler goroutine per request, `SendReplies` with its buffered writer | program counter and held value of each goroutine; the channels `intermediate` (cap 1), `Request`, `Response` as sequences with closed flags; cancellation; the error list; the socket's write buffer, sticky write error and the replies delivered | `ReaderCheck`, `ReaderRead`, `ReaderPut`, `ProxyCancelled`, `ProxyRecv`, `ProxySend`, `MuxRecv`, `MuxEnd`, `Handle`, `SenderTop`, `SenderRecv`, and the environment step `Break` (the peer's socket fails) |
| `Compound` | the COMPOUND loop (`Muxv4.Compound`, `Compound.Run`, `RewriteHeaderIfNeeded`, `OperationResponse`, `doOperation`'s default), the filehandle, namespace and open-file operations, the worker's open-file table (`part_008`) and the attribute cache (`src/worker/cache.go`) | the exported namespace (path → object), the objects created, the cache (handle → path), the open files [fid, handle, owner seqid, access] and the closed file ids, whether a handler panicked; per COMPOUND its current and saved filehandles, operation count, results and reply header | `Start`, `Finish`, `PutRootFH`, `PutFH`, `GetFH`, `SaveFH`, `RestoreFH`, `GetAttr`, `Access`, `Lookup`, `LookupParent`, `Create`, `Rename`, `Remove`, `Link`, `Open`, `OpenDowngrade`, `Close`, `Read`, `Write`, `Commit`, `Unimplemented`, and the environment step `Expire` (a cache entry times out) |
| `Xdr` | `xdr.Encoder` (every kind, `encodeReflect`, `Union`, `EncodeAll`) and `xdr.Decoder` (part_001) over typed values | — (pure operators) | `Encode`, `Decode`, `Pad`, `Uint32` and the helpers they call |
| `Rpc` | `ReceiveCall` and `SendReply` (`src/rpc.go`): record mark, call and reply headers, payload | — | `RecordMark`, `ReceiveCall`, `SendReply`, and from the spec `SendCall`, `ReceiveReply` |
| `FileId` | `FileOther` and `FileID` with the word width as a constant `W` | — | `FileOther`, `FileID` |
| `Auth` | `Authenticate`, `Creds.Decode`, `Creds.Equal` | — | as named |
| `Attrs` | `fileInfoToAttrs`, `decodeFAttrs4`, `bitmap4Encode/Decode` | — | as named |
| `BufPool` | `Pool.Get/Put` and the `Buf` operations (`Write`, `Allocate`+`Commit`, `Copy`, `Reset`) on the request, reply and slot buffers of `ReceiveCall`, `Compound.RunSequence`, `SendReply` and `RemoveSession` | the pool (a stack of free buffers), each buffer's contents, the session's slot buffer, sequence id and `ContainsData`, and per request goroutine a program counter, its request and reply buffers and what it decoded and sent | `ReceiveCall`, `StartCompound`, `Return`, `CheckSlot`, `Execute` (incl. DESTROY_SESSION), `StoreReply`, `SendReply` |
| `RpcService` | what a connection promises its client (spec section 5), abstractly; `Conn` implements it | the requests taken (always a prefix of the stream), those answered, whether the connection failed, whether it ended | `Accept`, `Answer`, `Fail`, `Close` |
| `Lister` | `Worker.AddLister/GetLister/CloseLister/cleanupListers`, `Worker.cleanup`'s closing of listers, and READDIR (part_006 1119-1265) | `w.Listers` (verifier → lister object), which verifiers are fresh, each object's directory and close count, the worker's `inUse`/`discarded`/cleanup, per READDIR goroutine a program counter, and the continuations clients hold | `ReadDirFirst`, `ReadDirNext`, `ListAt`, `CloseLister`, `Release`, `CleanupListers`, `AutoDiscard`, `Cleanup`, and the environment step `Age` |
| `MCClientRegistry`, `MCSlotReplyCache`, `MCWorker`, `MCOpenStateId`, `MCCompound`, `MCCodec`, `MCBufPool`, `MCLister` | model-checking instances | model values for ids, names, verifiers, credentials, sessions, slots, paths, contexts and objects; symmetry sets | — |

### Abstractions

- **Registry methods are atomic.** Each registry method runs wholly under
  the registry mutex, so each is one atomic action.
- **Random 64-bit ids are model values.** This covers client ids, cache ids
  and confirm values. The code's redraw loops become "any value not in use".
- **Time is a flag per client.** The flag `recent` means `lastSeen` lies
  within the expiration window:
  - a method that sets `lastSeen = clock.Now()` sets `recent`;
  - the environment step `Expire` clears it.
- **A reply is the (slot, seq) whose execution produced it.** A buffer is a
  sequence of replies, because `Buf.Copy` appends at the target's write
  cursor. This keeps the one fact the properties need: what a replay returns.

## Runs

Each run has an MC module and a cfg. Its properties are the INVARIANTs and
PROPERTYs of the cfg.

### SlotReplyCache (one persistent session `sp`, one plain session `sn`, one slot)

The client sends the next sequence id of a slot only after the reply to the
current one. The network may deliver any earlier request again. With
`RetransmitWhileBusy`, it may do so while the first delivery is still being
served: a client that lost its connection retransmits on a new one, while
the old connection's goroutine is still running the request. `RunSequence`
holds no lock between its check of the slot and its advance. So this is the
hard case, and it is the one `SlotReplyCache_race` checks.

| Run | Bounds | Checks | Result |
|---|---|---|---|
| `SlotReplyCache_race` | MaxSeq 3, 6 deliveries; client always sets cache_this; redelivery also while the slot is busy | `CachedRequestExecutedOnce` | **violated** (9 states): seq 1 is delivered twice. Both deliveries pass the check while the slot is still at 0 (lines 270-287), both advance it (289-290), and both execute the request's operations. |
| `SlotReplyCache_append` | MaxSeq 2, 4 deliveries | `ReplayReturnsOriginalReply` | **violated**: after seq 1 and 2 are cached, a replay of seq 2 returns reply 1 followed by reply 2. The slot buffer is appended to and never reset. |

The same race violates `SlotSeqNeverDecreases` in 12 steps: the late
advance of a retransmission of seq 1 moves the slot back after the client's
seq 2 advanced it. No run is spent on it. With redelivery only while the slot
is idle, both properties hold, but there they can fail only if a guard is
deleted, so that setting is not a run.

A second trace of `ReplayReturnsOriginalReply` exists: with redelivery while
the slot is busy, a retransmission checked between `Advance` and `Store` sees
`ContainsData` and returns the still-empty buffer. No run is spent on it.

`SlotReplyCache.tla` also states `NoReexecution`. TLC violates it when the
client never sets cache_this: on a persistent session `Buf != nil`, so the
RETRY_UNCACHED_REP branch (line 277) is skipped and the request runs again.
No run is spent on it (the hazard at part_006:277 in `PROJECT.json`).

The bounds are enough because each violation needs at most two sequence ids
and one retransmission.

### ClientRegistry (one name, two verifiers, two principals, three client ids, two cache ids)

| Run | Checks | Result |
|---|---|---|
| `ClientRegistry_safety` | `TypeOK`, `ConfirmedNameCredsAgree`, `OneUnconfirmedPerName`, `BusyClientNeverRemoved` | pass; deadlock is checked too |

`ClientRegistry.tla` also states two properties that TLC violates and no run
checks at present (hazards in `PROJECT.json`):

- `SeqIDAdvancesByOne`: CREATE_SESSION with seq 0 resets a confirmed
  client's seqID (line 127), and any larger seq is accepted (line 141). The
  spec (4.6) allows only +1.
- `OneSessionPerCreateSessionSeq`: a replayed CREATE_SESSION builds another
  session (part_006 line 653).

- **Why these bounds are enough.**
  - Three client ids allow two registrations of the name to coexist while a
    third one is added.
  - Two verifiers model a reboot.
  - Two principals model a takeover attempt.
- **Symmetry.** Ids are compared only for equality, so symmetry over client
  ids and cache ids is sound.

### Worker (one client name, two principals, one (session, uid) key, two worker objects, two file ids, two handler goroutines)

Each worker method and `GetWorker` holds a mutex for its whole body, so each
is one step. A handler calls these methods one after another, holding no
lock in between. Handler steps therefore interleave with each other, with
the registry, and with the worker's own goroutines: `autoDiscard` and
`cleanup`.

Abstractions:

- `lastUse` and the tickers are not modelled. Any worker may hit its idle
  timeout at any time; the constant `IdleTimeouts` switches this on.
- Random ids never repeat.

| Run | Checks | Result |
|---|---|---|
| `Worker_safety` | `TypeOK`, `BusyCountsOpenFiles`, `NoCleanupWhileHeld`, `CleanupAtMostOnce` | pass |

`Worker.tla` also states `OpenFileClientRegistered`. TLC violates it when
DESTROY_CLIENTID runs between OPEN's `Clients.Get` (line 1907) and `AddFile`
(line 2025): the client has busy 0, so it is removed, and the new file
belongs to a client the registry no longer has. Its run was retired to give
the run budget to `Lister_reuse`; the hazard at part_006:2025 records it.

`Worker.tla` also states `CloseIdempotent` (spec section 8 property 9). TLC
violates it when two CLOSEs of one stateid both pass `IsRemovedFile` before
either calls `RemoveFile`; the second gets `NFS4ERR_BAD_SEQID`. No run checks
it at present (see the hazard at part_006:2125 in `PROJECT.json`).

What the passing run establishes:

- `BusyCountsOpenFiles`: every registered client's busy count equals its open
  files in all workers. It holds through credential-change discards, idle
  discards with the asynchronous cleanup, and expiry.
- `NoCleanupWhileHeld` and `CleanupAtMostOnce`: cleanup, which runs without
  the lock, never overlaps a user of the worker and never runs twice. This
  matters because `afterCleanup` is `s.wg.Done`.

Why these bounds are enough:

- Two workers allow a credential change, or an idle discard, followed by a
  new worker.
- Two handlers allow every pair of operations to overlap.

### OpenStateId (one client, slots 0 and 15, MaxSeq 2, two paths, three file ids)

| Run | Checks | Result |
|---|---|---|
| `OpenStateId_collision` | `OpenStateIdMatchesPath` | **violated**: line 1806 computes the seqid as `SequenceID*MaxSlotID+SlotID` with `MaxSlotID` = 15 but 16 slots. Slot 0 at sequence 2 and slot 15 at sequence 1 both give 30, so an OPEN of another path is treated as a replay and answered with the first file's stateid. |

Slots 0 and 15 at sequence ids up to 2 are the smallest inputs that collide.
The uint32 wrap of the product is left out: it needs sequence ids past
2^32/15.

### Conn (three requests, channel capacities 1, every failure enabled)

The pipeline: the reader goroutine decodes requests into `intermediate`
(capacity 1); a proxy goroutine forwards them to `c.Request` unless the
context is cancelled; `RunMux` starts one handler goroutine per request; each
handler sends to `c.Response`; `SendReplies` writes each reply to a buffered
writer and flushes when the channel is empty. A read error, a handler error
and a write error can each happen (`ReadFails`, `HandlerFails`, `WriteFails`),
and the peer can break the socket at any time (`Break`).

| Run | Checks | Result |
|---|---|---|
| `Conn_safety` | `TypeOK`, `WriteFailureReported`, `RepliesDeliveredUnlessFailed`, `ServiceRefined` | pass (about 17,800 states) |

- `WriteFailureReported`: once the socket fails, `Serve` never returns
  without an error. Line 200 appends `resp.Error`, which is nil, but the
  sticky error of `bufio.Writer` comes back from the final `Flush`.
- `RepliesDeliveredUnlessFailed`: when `Serve` returns with no error, every
  request read was answered on the socket.
- `ServiceRefined`: the pipeline implements the abstract `RpcService`,
  checked as `Service!Spec` under the refinement mapping
  (`Service == INSTANCE RpcService WITH ...`):
  - `accepted` is the requests the mux has taken: read (below `next`) and
    no longer held by the reader, the proxy or a channel (`Dispatched`);
  - `answered` is the replies delivered on the socket;
  - `failed` is cancellation, a write error or an error other than EOF
    (`ConnFailed`);
  - `closed` is `Serve` having returned.
  The abstract spec says requests are taken in stream order, each reply is
  delivered at most once and only for a taken request, and, under its weak
  fairness, every request is taken and answered unless the connection
  failed, and `Serve` returns whatever fails (its `Close` is weakly fair). It is stronger than the two properties above. It catches, for
  example, a sender that drops the buffered replies it has not flushed
  (the mutant `SenderRecvLosesBuffer`).

Capacity 1 fills every channel with three requests, so every blocking send is
reached. `CHECK_DEADLOCK FALSE` is set because `Serve` really stops.

The model also reaches a goroutine leak (`conn.go:148`): after a handler
error cancels the context, the proxy returns and the reader stays blocked on
the full `intermediate` channel forever. No property states it yet.

### Compound (one COMPOUND at a time, names a and b, depth 2, two operations)

The namespace starts with the root and at most one regular file. A COMPOUND is v4.0,
or v4.1 with a leading SEQUENCE that succeeded, or v4.1 answered with a
single error (`OP_NOT_IN_SESSION`, `DEADSESSION`, `SEQ_MISORDERED`,
`NOT_ONLY_OP`). File system calls have POSIX semantics; the errors pass
through `Err2Status`, so `ENOTEMPTY` becomes `SERVERFAULT`. The attribute
cache is filled by GETATTR and ACCESS, read by PUTFH, GETATTR and ACCESS, invalidated by the
mutating operations for the directory handles they use, and any entry may
time out (`Expire`).

OPEN opens or creates a regular file (CLAIM_NULL or CLAIM_FH; NOCREATE,
UNCHECKED or GUARDED; read, write or both), adds it to the open-file table
and makes it current; an OPEN whose owner seqid is already open is a replay
and returns at once. CLOSE, READ, WRITE and OPEN_DOWNGRADE check the
stateid in the code's order; a file opened for one direction fails the other
with PERM (`NopReaderAt`, `NopWriterAt`). COMMIT and OPEN dereference the
current filehandle before checking it: with none, the handler panics and the
server exits (`Crash`), after which nothing happens. The owner's client is
always registered here (STALE_CLIENTID is in `Worker`), and a new file id is
never one closed before (a 64-bit random collision).

Left out of `Compound`:
- `MINOR_VERS_MISMATCH` (part_006:120-138);
- the worker discard of `DiscardOnServerFault`, which is in `Worker`;
- the `fs.Handle` error after a successful Mkdir;
- the panic on a nil `Mode` in OPEN's create attributes (1844-1870);
- RENAME onto another hard link of the same inode, which POSIX makes a
  no-op.

`LookupParent` takes the parent of the current path where the code uses
`vfs.Base`. No property depends on any of these.

LINK writes its result under the operation code `OP4_RENAME`
(part_006:1631), and `Link` records that code as the code does. No property
states it: it is a wrong constant that one unit test of LINK exposes, not a
behaviour a model checker is needed for.

| Run | Checks | Result |
|---|---|---|
| `Compound_safety` | `TypeOK`, `ReplyHeaderMatchesResults`, `FailedOpKeepsFileHandles` | pass (about 505,000 states, 80 s) |
| `Compound_stalepath` | `PutFHResolvesHandle` | **violated**: PUTFH(f), GETATTR caches f at `/a`; PUTROOTFH, REMOVE a (only the root's entry is invalidated); PUTFH(f) answers `NFS4_OK` with path `/a`, which no longer names f. A later CREATE at `/a` would make every operation on f's handle act on the new object. |

- `ReplyHeaderMatchesResults`: every reply's header counts its results and
  carries the last status, and only the last result may be fatal.
- `FailedOpKeepsFileHandles`: no failing operation changes the current or
  saved filehandle.

`Compound_safety` starts from an export holding only the root; it has one
directory Mkdir may create, one regular file OPEN may create, one file id
and one owner seqid. Two names and depth 2 give a directory with entries,
rename across directories and into a subtree, non-empty directories and hard
links. One seqid makes a second OPEN while the file is open a replay; one
file id lets the file be closed and closed again. Two operations per
COMPOUND reach every error path of every operation, since the filehandles
start empty in each COMPOUND and the namespace, cache and open files persist
between COMPOUNDs. A second directory, regular file, file id or seqid, two
contexts, or three operations each take the run past several million states.
`CHECK_DEADLOCK FALSE` is set because the server really stops after a panic.
`Compound_stalepath` starts with a regular file at `/a` and creates none.

Three more behaviours of the code are reached by `Compound_safety` but not
stated as properties (each is a hazard in `PROJECT.json`):

- COMMIT or OPEN as the first operation crashes the server.
- A replayed OPEN leaves the current filehandle unchanged, so the rest of a
  retransmitted [PUTROOTFH, OPEN, READ] runs on the directory.
- OPEN with CLAIM_FH on a stale cached path opens another object than its
  handle names.

### Lister (one worker, two directories, verifiers 0 and one random value, three lister objects, two READDIR goroutines)

`Lister` models the worker's lister table (`src/worker/lister.go`) and
READDIR's use of it (part_006 1119-1265). READDIR with cookie 0 opens a
lister and stores it under a verifier from `AddLister`; a continuation looks
it up with `GetLister` and runs `ListAt` without the lock; the READDIR that
reaches EOF calls `CloseLister`; a `ListAt` error discards the worker.
`cleanupListers` closes listers idle for a minute, and `Worker.cleanup`
closes the rest. A client may send again any continuation it was given: a
retransmission after a timeout, or a listing resumed after a pause. The
number of entries a batch returns is abstracted, so any `ListAt` may return
a batch, reach EOF or fail.

| Run | Checks | Result |
|---|---|---|
| `Lister_reuse` | `ContinuationListsItsDirectory` | **violated**: `AddLister` starts at index 0, so the first listing gets verifier 0. After its lister expires, a READDIR of another directory gets verifier 0 again. The first client's continuation with verifier 0 is then served from the other directory's lister; `GetLister` does not check the directory. The spec keys listers by a random 64-bit id, and a lost lister should give `NOT_SAME`. |

Two directories, one random verifier and two goroutines are the smallest
inputs in which a verifier can change hands. `CHECK_DEADLOCK FALSE` is set
because a discarded worker whose listers are all closed really stops.

### Codec (pure operators over bounded test cases, `MCCodec`)

Every state of these runs is one test case and no step changes it
(`Next == UNCHANGED case`), so each invariant checks a pure operator on every
case; `CHECK_DEADLOCK FALSE` is set for that reason. The encodings are
modelled byte for byte: a uint64 is a pair of 32-bit words, a bitmap4 word
is the set of its one bits, and the record mark's last-fragment bit is added
to its first byte, so that every value stays within TLC's integers.

| Run | Checks | Result |
|---|---|---|
| `Codec_roundtrip` | `XdrRoundTrip`, `FramingRoundTrip`, `FileIdRoundTrip`, `AuthenticateRecoversCreds`, `CredsEqualLaws`, `GetAttrReplyDescribesRequest`, `SetAttrDecodesSentAttrs` | pass (about 2,800 cases) |
| `Codec_shortfrag` | `ReceiveCallNoPanic` | **violated**: a record mark claiming fewer bytes than the call header takes gives `restSize < 0` at `rpc.go:43`, and `buf.Allocate` panics on the negative length. Any client can crash the server this way. |

The cases:

- XDR: uint32 and uint64 values up to the 31-bit limit, bools, strings and
  variable opaques of length 0..5 (every padding length), fixed opaques of 3
  and 4 bytes, uint32 and string slices; slices, a fixed array, nested
  structs, nil and non-nil pointers, a union with valid and invalid
  discriminants, and a map (a kind the encoder refuses).
- Framing: replies with two xids and both reply states and three payloads;
  calls with both program versions and two argument strings.
- File ids: every id of two `W`-bit words with `W = 3`, and the smallest and
  largest sequence id, which covers the split at every boundary.
- Credentials: AUTH_NULL and AUTH_UNIX, the two flavors spec 4.5 names,
  bodies with and
  without a hostname and groups, whole and cut one byte short; credential
  pairs for equality with 0..2 groups.
  The code also accepts every flavor above AUTH_UNIX and decodes its body
  as AUTH_UNIX (authenticate.go:28). `Auth` models that, but no property
  asserts it, because spec 4.5 allows AUTH_UNIX only. The hazard is listed
  in `PROJECT.json`.
- GETATTR: every subset of nine attribute ids chosen around the word
  boundaries (0, 4, 12, 16, 31, 33, 54, 75, 88, some unsupported), each with
  the fewest words and one extra word, and the nil request.
- SETATTR: every combination of two values of size, acl, mode, owner and
  owner_group.

### BufPool (three requests, six buffers, one session with one slot)

Request `a` is a cached SEQUENCE on the slot, `d` a DESTROY_SESSION, `o`
any other COMPOUND. Each request goroutine takes a request buffer in
`ReceiveCall`, a reply buffer in the COMPOUND, and returns both through
`Pool.Put`; `RunSequence` copies the reply into the slot buffer; and
`RemoveSession` puts the slot buffers back into the pool.

| Run | Checks | Result |
|---|---|---|
| `BufPool_alias` | `NoCrossRequestData` | **violated** (about 6,300 states): DESTROY_SESSION puts the slot buffer back while `a`'s SEQUENCE still holds the `*Slot`; `o` takes that buffer for its request; `a` then stores its reply into it (`out.Copy(slot.Buf)`, part_006:326), and `o` decodes `a`'s reply before its own call. |

Six buffers are enough for every request to hold two buffers at once while
the slot holds one. The pool is a stack as in `sync.Pool`'s private slot;
any other order gives the same trace with other buffer names.

### Mutants

For every property of a passing run, `PROJECT.json` names a mutant: a
plausible bug in one mapped action that TLC catches. Examples:

- no CLID_INUSE check;
- an expiry sweep that ignores busy clients;
- a `SendReplies` that drops the final flush's error;
- a header rewrite that ignores the last status;
- a RESTOREFH that copies the saved filehandle before its nil check.

## Fairness

The ClientRegistry, SlotReplyCache, Worker, OpenStateId and Compound
specifications are `Init /\ [][Next]_vars` with no fairness: their runs check
safety only.

`Conn` assumes weak fairness of every goroutine action (`Fairness`). Each
goroutine loops on a channel operation, or on a read or write of the socket,
and stays runnable while that operation can complete. Go's scheduler runs
every runnable goroutine eventually. The environment step `Break` has no
fairness: the socket need not fail.

`RpcService` has weak fairness of `Accept`, `Answer` and `Close`. These are
not assumed when `Conn` is checked: `ServiceRefined` asks TLC to show that
`Conn`'s goroutine fairness implies them under the mapping.

## Plan and what is not yet modelled

1. **Compound, remaining operations.** SETATTR, VERIFY and the xattr
   operations; READDIR's listers are in `Lister`, not yet in `Compound`.
2. **Concurrent COMPOUNDs** on one worker's cache. This needs a smaller
   namespace to fit TLC.
3. **Conn reader leak** as a property: every goroutine of `Serve` ends.
4. **More refinements.** `Conn` refines `RpcService`. Still to do is the
   **refinement of the slot cache**: an abstract "exactly-once per (slot,
   seq)" cache, with the atomic version of `RunSequence` shown to
   implement it.

**Not modelled:**

- The message structs of `src/msg` and the per-operation argument and
  result types. They are data declarations; their encoding is the reflective
  encoder `Xdr` models, which is checked on every kind a struct can contain.
- `Muxv4.HandleProc`'s dispatch table. It is a switch from procedure number
  to handler with no state.
- `Conn.ServeLinear` (conn.go 45-86) and `context.go` (`ctxReader`), which
  only it uses. Spec section 5 calls it the linear variant for testing, and
  the server never calls it: `Server.HandleConn` runs `Serve`. It reads,
  handles and answers one request at a time, so it would implement
  `RpcService` trivially. Every run slot is spent on the concurrent
  pipeline and on findings.
- Memory allocation in the decoder: a slice of an untrusted count is
  pre-allocated (part_001:41). TLC cannot express the size of an
  allocation; the hazard is listed in `PROJECT.json`.
- The clock (`src/clock`): a cached time that a ticker sets every second.
  Reading the source turned up one divergence, which is recorded as a hazard
  at clock.go:47 and checked by no run:
  - `MustIncrement` adds a second only when the clock is before `prev`.
  - When the clock equals `prev`, it returns `prev`.
  - Spec 4.4 says it returns max(now, prev+1s).
  - So SETXATTR in the same second as the last change leaves the
    seconds-granular `change` attribute as it was.
- The example command: wiring of a server for local use.
