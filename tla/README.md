# TLA+ models of rust-ibapi: trace storage and order decoders

This directory models the two parts of this source tree that have
behaviour worth model checking:

- **`src/src/trace/common/storage.rs`** holds the process-wide interaction
  trace. It is shared state behind two nested RwLocks that any thread or
  task may call into concurrently. `src/src/trace/mod.rs` and
  `src/src/client/mod.rs` choose, per cargo feature, which storage each
  client and each trace API reaches.
- **`src/src/orders/common/decoders.rs`** holds the positional, version-gated
  decoders. They decode open orders, completed orders, order status,
  executions and commission reports from the fields of a server message.

The other parts that spec.md describes (frame I/O, message buffer, handshake,
ID generator, router, subscription registry, pacing, error model) are not in
this source tree. They are listed in PROJECT.json as not modelled.

## Modules

| Module | What it is |
|---|---|
| `TraceStorage` | The storage at lock granularity: state, one action per lock step, properties, refinement mapping. |
| `TraceAbstract` | What the storage promises its callers: one current interaction, each call atomic. |
| `TraceStorageProofs` | TLAPS proofs of type correctness and `NoStaleAccess`. |
| `TraceDeadlockProofs` | TLAPS proof of `NoDeadlock`. |
| `TraceRefinementProofs` | TLAPS proof that the storage implements the safety part of `TraceAbstract`. |
| `MCTraceStorage` | Thread model values and symmetry for TLC. |
| `TraceFeatures` | Which storage each client and each trace API uses in the sync-only, async-only and two-feature builds. |
| `MCTraceFeatures` | The two-feature build. |
| `OrderWire` | The fields the server sends, for a version, a message kind and an order shape. |
| `OrderDecoder` | The decoders as a cursor over such a frame, one action per `read_*` call. |
| `MCOrderDecoder` | The `server_versions` thresholds, versions and order shapes for TLC. |

### Trace storage (`TraceStorage`)

`CURRENT_INTERACTION` is an outer `RwLock<Option<Arc<RwLock<Interaction>>>>`.
The state of the model:

- `outer`, and `inner[n]` for each interaction object, are locks of the form
  `[w |-> writer, r |-> readers]`;
- `cur` is the `Option` (0 is `None`);
- `objs` holds the interactions;
- `pc`, `ptr` and `arg` give each thread its place in a call, the Arc it holds
  and its argument.

The three operations each take several steps:

- **`start_new_interaction`** (storage.rs 43-47) is StartNewInteraction →
  StartLockOuter → StartAssign.
- **`add_response_to_current`** (51-59) is AddResponseToCurrent →
  AddLockOuter → AddNoCurrent, or AddLockInner → AddPush → AddUnlockOuter.
- **`get_last_interaction`** (34-40) is GetLastInteraction → GetLockOuter →
  GetNoCurrent, or GetLockInner → GetClone → GetUnlockOuter.

A read lock cannot be taken while a writer waits (`OuterReadable`,
`InnerReadable`), for both lock implementations:

- std's futex RwLock blocks new readers while a writer is waiting;
- tokio's RwLock is fair (FIFO).

The sync and async storages have the same lock structure, so one module
models both.

Writer preference is what tokio's lock documents and what std's futex
RwLock does on Linux. std's documentation promises no policy, so on another
platform a reader-preferring std lock could starve `start_new_interaction`
(`CallsReturn` fails under `OuterReadableReaderPref`). The safety properties
and `NoDeadlock` hold under either policy of the guards they use.

Fairness is strong fairness on the steps inside a call (`InCall`). It
stands for the wake-up guarantee of the two `RwLock` types of the statics
(storage.rs 11-19); no code of this tree schedules threads. A thread
blocked on a lock is woken whenever the lock is free, and the writer
preference means it is not passed over forever. Starting a call is not fair,
because a program may stop tracing.

`TraceAbstract` is the storage's own contract (the doc comments of
storage.rs 33-59) made atomic. Like the code, it drops a response made while
there is no interaction. That keeps the refinement about the lock protocol
alone. Spec 8.6's stronger promise, that every received frame is recorded,
is the separate property `NoDroppedResponse`, and the code fails it
(finding 1).

The refinement mapping sends the abstract trace to `Current`. A call counts as
pending until its effective step:

- the assignment, for `start_new_interaction`;
- the push, or the release on `None`, for `add_response_to_current`;
- the clone, or the release on `None`, for `get_last_interaction`.

### Storages per build (`TraceFeatures`)

Three files decide which storage a call reaches:

- **storage.rs 11-31.** `CURRENT_INTERACTION` exists in every build. With
  both features, `sync_ops` uses `SYNC_CURRENT_INTERACTION` instead
  (`OpsStorage`).
- **trace/mod.rs 21-35.** `ibapi::trace` re-exports the sync ops in a
  sync-only build and the async ops otherwise. With both features,
  `trace::blocking` re-exports the sync ops (`TraceOps`).
- **client/mod.rs 16-31.** `ibapi::Client` and `client::blocking::Client`
  follow the same pattern (`ClientOps`).

A namespace is `"default"` (`ibapi::Client`, `ibapi::trace`) or
`"blocking"`. The build is chosen in `Init` from `Builds` and never changes.

Each storage is a single interaction on which every call is atomic. The
refinement proof below justifies this.

The actions are these:

- `Send(ns)`: a client of namespace `ns` sends a frame, and its connection
  calls `record_request`.
- `Receive(ns)`: a client receives a frame and calls `record_response`. The
  frame is dropped on `None`.

The client connections are not in this tree. That a client records through
the trace ops of its own kind is taken from spec 4.H.

The ghost variable `glob` holds the interaction of all the process's frames,
which is what spec 4.H says `ibapi::trace::last_interaction` shows.

Only the two-feature build is checked. In a single-feature build there is
one namespace and one static, so every frame reaches the storage that
`ibapi::trace` reads, whatever the order of the calls.

### Order decoders (`OrderWire`, `OrderDecoder`)

A frame field is `[blk, slot, val]`:

- `blk` is the group of fields it belongs to, named after the decoder
  function that reads the group;
- `slot` is its place in the group;
- `val` is set only for the fields that steer decoding: counts, flags, the
  order type and condition types. Every other field carries 0.

`OrderWire` builds the server's frame from the test fixtures of decoders.rs:

- `build_open_order_base_fields`, `build_completed_order_base_fields`;
- the v200 and v177 execution tests;
- the live captures at version 173.

For order status and commission reports there is no fixture, so those frames
follow spec 4.G.

`OrderDecoder` has the following state:

- `pc`, an index into the decoder's list of calls (`OpenOrderProgram`, …);
- `pos`, the message cursor;
- `status`;
- `dec`, the steering values decoded so far;
- `cond`, the loop of `read_conditions`.

Its actions:

- Each `read_*` function is one action. How many fields it consumes follows
  the code: version gates (`GatedWidth`, `VersionSkipped`) and values read from
  the frame (combo leg counts, the delta-neutral order type, the scale price
  increment, hedge type, algo strategy, allocation count, PEG BENCH order
  type, condition types).
- `read_conditions` is a loop of its own: SkipConditions or
  ReadConditionsCount, then ReadCondition or ReadUnknownCondition once per
  condition, then ReadConditionsTail.
- A read past the end of the frame sets `status` to `"err"`, which is the
  `?` on `next_*`.

Two ghost sets record what goes wrong:

- `bad` holds positions read as a field other than the one the server sent
  there;
- `moved` holds positions whose value was stored into another attribute.

## Runs

| Run | Checks | Instance | Result |
|---|---|---|---|
| trace_safety | `NoStaleAccess`, `NoDeadlock`, `TraceAbstractSafety` | 3 threads, 2 requests, 2 responses, symmetry | pass |
| trace_refinement | `TraceAbstractSpec` (with its liveness) | 2 threads, 2 / 2 | pass |
| trace_liveness | `CallsReturn` | 3 threads, 2 requests, 1 response | pass |
| trace_dropped | `NoDroppedResponse` | 2 threads, 1 / 1 | violation |
| trace_split | `ProcessWide` | both features, 2 sends, 1 receive | violation |
| decoder_versions | `NoMisalignedRead`, `DecodeOutcome` | all 5 kinds, every gate T and T-1, and 200 | pass |
| decoder_shapes | `NoMisalignedRead`, `DecodeOutcome` | open and completed orders, versions 101, 176, 200, every order with up to two non-default features | pass |
| decoder_fa_profile | `NoMisplacedValue` | open and completed orders, versions 150, 176 | violation |

What each property says:

- **`NoStaleAccess`**: a thread that is about to push to, or clone, the
  interaction it holds finds that interaction still current. The property
  depends on the outer read guard being held across the inner lock. The
  mutant `AddLockInnerEarlyRelease` drops the guard first, and TLC then
  finds the lost response.
- **`NoDeadlock`**: while a call is pending, some pending call can take
  its next step. `CanProceed(t)` is the guard of the step at `t`'s pc. TLC
  confirmed it equals `ENABLED InCall(t)` in every reachable state of this
  run. The property depends on three things: every guard is dropped on every
  path, both readers take the outer lock before the inner one, and a waiting
  writer blocks new readers but not the readers already in. The mutant
  `AddUnlockOuterLeak` keeps the outer read guard alive after
  `add_response_to_current` returns. A later `start_new_interaction` then
  waits forever, and every reader queues behind it.
- **`TraceAbstractSafety`**: the safety part of `TraceAbstractSpec`, checked
  on 3 threads: every step of the storage is a step of the atomic trace or a
  stutter. The mutant `StartAssignKeepExisting` breaks it.
- **`TraceAbstractSpec`**: every behaviour of the storage is a behaviour of
  the atomic trace. The mutant `StartAssignKeepExisting` breaks it.
- **`CallsReturn`**: every call returns. So there is no deadlock of the nested
  locks, no starvation of the writer by readers, and no starvation of
  readers by two writers that follow each other. A reader-preferring outer
  lock (`OuterReadableReaderPref`) starves the writer.
- **`NoMisalignedRead`**: every field read is the field the server sent at
  that place.
- **`ProcessWide`**, in `trace_split`: `ibapi::trace::last_interaction`
  returns the last frame any client sent, with the responses received since
  (spec 4.H). With both features it fails (finding 2).
- **`DecodeOutcome`**: a decoder fails exactly when the server sent an unknown
  condition type. When it succeeds, it has consumed the whole frame and
  recovered every count, flag and condition type. A gate that is too strict
  (`ReadGatedStrict`) skips a field the server sent. When that field is in
  the middle of a message, such as `model_code` at MODELS_SUPPORT, the next
  read is misaligned and `NoMisalignedRead` fails too. When the field is the
  last one sent, such as `imbalance_only` at IMBALANCE_ONLY, every field read
  is still the right one, and only this property notices the unread tail.

The bounds are enough for these reasons:

- **Trace storage.** Three threads let two readers overlap a waiting writer.
  Two requests let a replacement happen while a push is pending, and let two
  writers follow each other while readers wait.
- **Split trace.** Two sends and one receive are the shortest way for the
  two namespaces to diverge.
- **Decoder versions.** Every threshold is tried at T and at T-1.
- **Decoder shapes.** Every steering attribute is tried with values 1 and 2,
  or true, alone and with any other one. Condition lists are every single type
  and the pairs over {price, execution, 99}. Counts above 2 only repeat the
  same per-item step.

## Findings

1. **Dropped response** (`trace_dropped`, storage.rs 53).
   `add_response_to_current` does nothing when there is no current
   interaction. A response recorded before the first request, or after
   `clear`, is lost. Spec 8.6 says every received frame grows the responses
   list.
2. **Split trace** (`trace_split`, storage.rs 19). With both features,
   `client::blocking::Client` records into `SYNC_CURRENT_INTERACTION`.
   `ibapi::trace::last_interaction` reads `CURRENT_INTERACTION`, so it never
   sees those frames; only `trace::blocking` does. Spec 4.H and 5 describe
   one process-wide trace singleton.
3. **FA profile overwrites the percentage** (`decoder_fa_profile`,
   decoders.rs 164). Below FA_PROFILE_DESUPPORT (177), `read_fa_params`
   reads the deprecated fa_profile field into `order.fa_percentage`, which
   replaces the percentage it has just read. Alignment is preserved, because
   the field is consumed. The value is wrong, which contradicts
   `encode(decode(frame)) = frame` (spec 8.1).

A spec imprecision that is not a finding: spec 4.G counts the delta-neutral
block as 7 fields. The code reads 8 fields for open orders and 4 for
completed orders, and the fixtures agree with the code.

## Proofs

### `TraceStorageProofs`

Two theorems are proved for every set of threads and every bound. They rely
on `ThreadsAssumption` and `BoundsAssumption`.

- **`TypeCorrect`**: `Spec => []TypeOK`.
- **`StaleAccessFree`**: `Spec => []NoStaleAccess`.

`NoStaleAccess` is not inductive by itself. The inductive invariant
`IInv == TypeOK /\ LockInv` strengthens it with four facts:

- a thread is among the readers of `outer` exactly when its pc is between
  taking and releasing the outer read lock;
- `outer.w = t` exactly when `t` is about to assign;
- a writer excludes readers;
- a pending push has a response number in range.

With these facts, a thread holding the outer read guard knows that no
`StartAssign` can run, so `cur` cannot change under it.

The proof has these parts:

- `InitIInv`;
- `NextTypeOK` and `NextLockInv`, each with one step per action;
- `NextIInv`;
- the two theorems, each by PTL.

### `TraceDeadlockProofs`

**`DeadlockFree`** proves `Spec => []NoDeadlock` for every set of threads
and every bound. It relies on `ThreadsAssumption`.

The inductive invariant is `DInv == IInv /\ InnerInv`. `InnerInv` says
who holds each interaction's lock:

- its writer is exactly the thread about to push to it;
- its readers are exactly the threads about to clone it.

`IInv` already says the same of the outer lock. Without these facts, a
thread waiting for an inner lock could be waiting for a holder that does not
exist. TLC checked `DInv` on the `trace_safety` instance first.

`DInvNoDeadlock` then argues by cases, one per kind of thread:

- a thread at a step that takes no lock can move;
- otherwise nobody holds an inner lock, so a thread about to take one can;
- otherwise nobody holds the outer lock, so a waiting writer can take it;
- otherwise no writer holds or waits for the outer lock, so a waiting
  reader can take it.

### `TraceRefinementProofs`

**`Refinement`** proves `Spec => TraceAbstractSafety`, that is
`Abs!Init /\ [][Abs!Next]_Abs!avars`: the safety part of `TraceAbstractSpec`,
for every set of threads and every bound. The run `trace_safety` checks the
same property on 3 threads.

The step proof needs more than `IInv`. It needs to know the interaction
objects themselves. `ObjInv` states four facts:

- object `n` carries request `n`;
- the objects not yet handed out are fresh;
- the object that a pending `start_new_interaction` is about to publish is
  fresh, not current, and held by no other pending start;
- `cur` is a request already made.

`ObjInv` holds because pushes go only to the current object. It was checked
with TLC first, as an invariant on 3 threads, 2 requests and 2 responses.

The effective steps map to the abstract steps:

| Concrete step | Abstract step |
|---|---|
| `StartAssign` | `DoStart` |
| `AddPush`, `AddNoCurrent` | `DoAdd` |
| `GetClone`, `GetNoCurrent` | `DoGet` |
| first step of each call | its `Call` step |

The lock steps are stutters.

### Only model-checked

- **Liveness** (`CallsReturn`, the fairness part of `TraceAbstractSpec`).
  Using the strong fairness of `InCall(t)` needs `ENABLED InCall(t)`. This
  version of TLAPS has no rule to expand ENABLED. `DeadlockFree` proves the
  safety half of `CallsReturn`: some pending call can always move. Freedom
  from starvation, where the waiting thread itself eventually moves, stays
  with TLC.
- **The decoder properties** (`NoMisalignedRead`, `DecodeOutcome`). The
  decoder modules use `FlattenSeq` of SequencesExt, which is recursive, and
  a module that reaches a RECURSIVE definition loses the SMT backend.
  Replacing it with a recursive function would not help. Alignment is a
  statement about the concatenation of a number of blocks that depends on
  the order, and proving it needs induction over that number. The
  library's induction theorems take the property as an operator parameter,
  which the installed provers cannot instantiate.

## Not modelled

- **The client connections.** They are not in this tree.
  `TraceFeatures` takes from spec 4.H that each connection records every
  frame it sends and receives.
- **The cfg(test) `clear()`.**
- **The re-exports of `subscriptions/mod.rs` and `client/builders`, the examples and the integration
  tests.** They have no state of their own.
- **Field values other than steering values.** The decoders' conversions
  (`next_int`, `next_optional_double`, …) are not modelled. A decoder reads
  the right field exactly when `bad` stays empty, whatever the value.
