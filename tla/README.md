# Cogniform: TLA+ specifications

Cogniform is a deterministic, headless scene engine. Commands (patches and
imaginations, which compile to patches) change an authoritative world one
revision at a time. Every accepted patch is logged so that the world can be
rebuilt, a renderer follows the world incrementally, and observations (rendered
frames) are produced by a worker thread and polled by the caller.

This directory holds TLA+ modules for the core of that system, TLC
configurations that check them on small instances, and TLAPS proofs about the
gateway for all instances.

## 1. The system

### Parts and state

| Part | Code | State | Operations that change it |
|---|---|---|---|
| Authoritative world | `cogniform-world` | entities, parent and child indexes, cached world transforms, revision, idempotency records, pending render changes, extraction generation | `apply_patch`, `take_render_extraction` |
| Recorded world, replay log | `cogniform-replay` | hash-chained entries, encoded size | `apply_patch`, `append`; `replay`, `to_bytes_through_revision` and `load_prefix` build new values |
| Renderer scene | `cogniform-renderer/scene.rs` | entity records, compact ids, free ids, revision, generation | `apply` |
| Renderer frames | `cogniform-renderer/renderer.rs`, `frame.rs` | next frame id, readback pool | `submit_scene`, `PendingFrame::read`, drop of a lease |
| Renderer assets | `cogniform-renderer/asset.rs` | pending uploads, resident meshes and textures, byte budgets | `enqueue`, `process_next`, `evict` |
| Engine | `cogniform-engine/engine.rs` | the above | `apply_patch`, `request_observation`, `restore_prepared`, asset operations |
| Observation queue | `cogniform-engine/observation.rs` | permits, two channels, a worker thread | `try_reserve`, `submit_reserved`, `try_receive_delivery`, the worker's loop |
| Gateway | `cogniform-engine/gateway.rs` | command queue, completed results | `submit_patch`, `submit_imagination`, `process_next` |
| Local service | `cogniform-engine/service.rs` | gateway, asset store | `restore`, `revert_to_revision`, asset import and rehydration |
| Session executor | `cogniform-local-executor` | session phase, correlations of commands and observations | `handle_frame`, `advance`, `close` |
| Stdio driver | `cogniform-cli/serve_stdio.rs` | streams | the read, advance and drain loop |
| MCP server | `cogniform-mcp` | lazily created service, connection era, poisoning | tool calls, cancellation |
| Asset store | `cogniform-assets/store.rs` | records, import queue, byte budgets | `enqueue`, `process_next`, `upload_job`, `evict` |
| Files | `cogniform-storage` | immutable files | create, write, sync, clean up |
| Pure parts | `cogniform-protocol`, `-compiler`, `-compilation`, `-procedural`, `-observation`, `-local-session`, `-local-transport`, `cogniform-assets/glb.rs` | none | codecs, validation, compilation, decoding |

`PROJECT.json` lists all parts with their status.

### How they interact

A command goes executor -> service -> gateway queue -> `process_next` -> engine ->
recorded world -> log entry -> extraction -> renderer scene. An observation goes
executor -> engine -> permit -> renderer submission (buffer lease, frame id) -> job
channel -> worker -> result channel -> poll. Recovery replaces the whole service: a
recovery point (entries and next frame id) is replayed into a fresh world, and the
gateway starts without results over a world that already has records.

### What is hard

* One patch is a list of operations checked together, against an overlay, before
  any is committed; caches are repaired incrementally from dirty roots.
* After the commit come steps that could fail (extraction, scene update).
* Counters end: revision, generation, frame id, compact id.
* The same key may be submitted again before, while and after it is processed,
  and after a restore that forgot the gateway's results.
* A result slot is reserved at admission and used much later.
* Caller and worker share permits, a mutex that only one of them waits for, and
  two bounded channels; the worker may panic, and the queue may be dropped.

The hazards are listed in `PROJECT.json` at the line where they bite, with the
properties that address them.

## 2. Modules

| Module | Models | Notes |
|---|---|---|
| `World` | `AuthoritativeWorld` as operators on a record | `preflight`, `complete_preflight`, `commit`, `apply_patch`, `take_render_extraction` keep the code's names and order of checks |
| `RenderScene` | `RenderScene::apply` | compact-id assignment and recycling |
| `SceneSync` | world and scene composed | actions `ApplyPatch`, `Extract`; patches are lists of operations |
| `Engine` | `CogniformEngine`, `RecordedWorld`, `ReplayLog`, `LocalService::restore`, `revert_to_revision` | actions `ApplyPatch`, `SubmitFrame`, `CapturePoint`, `Restore`, `Revert` |
| `Gateway` | `LocalGateway`, `CommandQueue`, re-creation by the service | actions `Submit`, `process_next` (applied, replayed, unresolved, refused), `CapturePoint`, `Restore`, `Revert` |
| `GatewayProofs` | theorems about `Gateway` | section 5 |
| `ObservationPort` | abstract: a sequential observation port | admit, answer in order, break |
| `ObservationQueue` | caller thread, worker thread, permits, channels, readback pool | one action per step the other thread can see |
| `MC...` | instances for TLC | |

Abstractions:

* A component value is a small number and a world transform is the sequence of the
  local transforms composed into it, so a stale cache is visible without floating
  point. Overflow to a non-finite transform is a bound on the number of factors.
* A digest is the value it digests, so equal digests mean equal values. The
  fingerprint of a command is the command.
* An entry's encoded size is a function of its patch; the entry and log byte bounds
  of `RecordedWorld::apply_patch` are checked against it.
* In `Gateway` the engine is represented by the log of accepted commands. That its
  length is the revision and its keys are the world's records is what `TypeOK` and
  `RecordsMatchLog` establish in `Engine`. Whether a preflight accepts a patch is a
  nondeterministic choice, and so is whether an imagination compiles:
  `configure_compilation_limits`, which only changes that, is a stuttering step.
  A recovery point is the log it encodes. As in `Engine`, `Restore` takes any captured
  point, of an abandoned line or of a revision above the current one too.
* `Engine` and `Gateway` follow one service at a time: a restore continues with the
  restored one, and a source that stays alive beside it is not followed further. The
  history variable `line_frames` of `Engine` therefore holds the frames of one line:
  those the engine submitted, and those its source had submitted when the adopted point
  was captured.
* In `ObservationQueue` every failure of a read (deadline, device, decoding) is
  "failed"; a panic is separate, because it unwinds the worker. Dropping both of the
  caller's channel ends is one step. A request dropped by the caller releases permit
  and lease in one step: the worker can observe only the lease.
* Operators whose names continue the name of another after an underscore and whose
  comment begins with "Mutant" are deliberately wrong variants. They are used by no
  specification; `PROJECT.json` pairs each with the property that rejects it.

## 3. Runs

Run any of them with `tlc -config <cfg> <module>`.

| Run | Module, cfg | Shows |
|---|---|---|
| `scene_sync` | `MCSceneSync` | Patches of up to five operations and extractions in any order: hierarchy indexes sound (`HierarchySound`), cached transforms exact (`TransformsComposed`), no difference missed (`PendingCoversDifferences`), committed changes always extractable (`ChangesExtractable`), compact ids never shared, lost or changed, no internal assertion reachable (`NoInternalFault`) |
| `engine` | `MCEngine` | Nothing fails after a commit; the scene is current after every call; the log reproduces the world; records and log agree; every captured point restores; no frame issued before a capture is issued again after restoring it (`FrameFrontier`) |
| `engine_replay` | `MCEngine`, `MCEngineReplay.cfg` | violation, finding 1 |
| `gateway` | `MCGateway` | Keys in one place, and once in every history; one queue place per supersession group and no overtaking in the queue; reservations sufficient, also after restore; every accepted command answerable, receipts true and stable; queued commands leave |
| `gateway_content` | `MCGateway`, `MCGatewayContent.cfg` | violation, finding 2 |
| `observation` | `MCObservation` | Permits and buffers accounted for on every path; pool never empty for a permit holder; channels never full; answers in order; every request answered; the worker ends after shutdown; refinement of `ObservationPort` |
| `observation_pool` | `MCObservation`, `MCObservationPool.cfg` | violation, finding 3 |

### Bounds

* `scene_sync`: three entities and depth 2 give a chain with a middle to delete,
  reparent and recreate. Counters end at 3: the last generation, the last revision (a
  fourth key then meets the overflow) and the last compact id are all reached. The
  operation lists include those valid only as a whole. Keys are symmetric.
* `engine`: ids outnumber the entity bound, three log entries, a log byte bound
  below three full entries, one kept point, frame counter ending at 3. Three keys fill the log, so
  its entry bound and the end of the revision counter refuse nothing here; the latter is met
  in `scene_sync`. The pending bound equals the number of
  ids, so replay is not cut short by finding 1 (which has its own run). Deadlock is not
  checked: an engine whose revision and frames are used up has nothing left to do.
* `gateway`: five keys against two queue places, three result slots and five world
  records, so every bound is met while another still has room, and points up to revision
  two can be restored; one kept point, which outlives the line it was captured on. Eleven
  commands cover both kinds, all three deliveries, conflicts of content and of transaction.
* `observation`: two permits, two buffer sets, four requests, so permits and buffers
  are reused and a third request meets every bound. Deadlock is not checked: a closed
  queue with a finished worker is an end state.

### Fairness

* `FairGatewaySpec`: weak fairness of `process_next`. The gateway has no thread
  of its own; its owner keeps calling it (the session executor on every `advance` while a
  command is pending, the MCP server after each admission). `QueuedLeaves` needs nothing
  else.
* `FairSpec` of `ObservationQueue`: weak fairness of the worker's steps (a thread the
  operating system schedules, whose only unbounded wait is bounded by the read's
  deadline), of the steps that finish a call the caller has begun, and of `Receive` (the
  caller keeps polling). Nothing is assumed about new requests, patches, reverts or
  shutdown, nor about `FrameIdOverflow`.

## 4. Findings

1. **An accepted history may not replay** (`engine_replay`). Replay applies all
   entries without extracting; the live engine extracts after each. Once the history
   touched more distinct entities than `max_pending_render_changes` (which needs ids that
   are deleted and replaced by new ones, since the entity bound limits the live ones),
   replay, and with it restore and revert, fails with
   `RenderExtractionCapacityExceeded`. ADR 0012 states that the stream can be replayed.
2. **Other content, same receipt** (`gateway_content`). A restore loses fingerprints
   and the world compares only transaction ids, so a reused key with the same transaction
   and other content is answered with the old receipt instead of the conflict
   `failure-and-recovery.md` documents.
3. **Exhausted while available** (`observation_pool`). `try_lock` contention with the
   worker is reported as `ReadbackPoolExhausted`, "all {capacity} bounded readback slots
   are in flight", while buffer sets are free.

## 5. Proofs

`GatewayProofs` (checked by `tlapm GatewayProofs.tla`) proves, for every set of
commands, keys, groups and all capacities allowed by `GatewayAssumption` (the conditions
of `validate_config`):

* `GatewayTypeCorrect`, `KeysAcceptedOnceHolds`, `RoomForRecordHolds`,
  `ReceiptsInLogHolds`, `AcceptedAnsweredHolds`: the invariants of the same names;
* `CompletedStableHolds`: a completed result is never changed or dropped by its gateway;
* `NoOvertakingHolds`: commands are processed in the order in which their slots (the group
  of a latest-wins command, the key of any other) entered the queue.

None of the invariants is inductive alone. `RoomForRecord` depends on what a command's
admission reserved, so the inductive invariant `GatewayInv` carries the accounting: the
world's records are those retained at creation plus at most one per completed key
(`RecordsAccounted`), completed and queued keys fit the idempotency capacity
(`ReservationsFit`), and creation checked that capacity against the records retained.
Adding a completed key to the sum by exactly one needs the key to be new
(`KeysInOnePlace`), which in turn rests on how admission looks keys up.
`OnePlacePerGroup` is there because replacing one queue entry must not leave a second
one of its group. `KeysAcceptedOnce` is about the current history and about every captured
one, because a restore may install any of them (`HistoriesSound`, `FreshInv`); it says
nothing of a key across histories, and a key that a revert cut off may be accepted again
(ADR 0017). `StepInv` has one case per action and the lemma of each action one step per
conjunct it can disturb; `PopQueueInv` covers what all outcomes of `process_next` share.
`NoOvertaking` is an action property: `NewSlot` shows that an appended command waits for a
slot nobody waits for, `SubmitOrder` that a superseding one leaves the slots where they
were, `PopOrder` that a pop moves all of them up together.

Only model-checked: all liveness properties (fairness and `ENABLED` are outside the prover), everything in `SceneSync`, `Engine` and
`ObservationQueue`, and the operators of `World` that fold over operation lists (what they
compute for every list would need induction over data).

## 6. Plan

In order of importance:

1. `Session`: the executor composed with `Gateway` and `ObservationPort`: phases,
   correlations released exactly once, the executor's order aligned with the gateway's
   queue under supersession, and a resubmission after a restore (the executor expects
   `Applied` where the gateway may answer a replay). Then the stdio driver's loop to a
   terminal state (liveness).
2. Proofs for `ObservationQueue`: permits, buffers, channels and the refinement of
   `ObservationPort`, for every capacity.
3. `Assets`: the asset store and renderer residency composed: queue and byte budgets,
   shared textures, eviction, rehydration after restore; budget invariants proved.
4. `ReplayCodec`: `load_prefix`, hash chain, torn and altered tails; the recovery envelope;
   `Storage`: create, write, sync and cleanup with crashes in between.
5. `McpServer`: request lifecycle, connection era, cancellation and deadline against
   late completion, poisoning.
6. Stream framing as a reader over a chunked byte stream; procedures and the observation
   codec as operators against reference definitions.
7. Proofs about `SceneSync` (hierarchy indexes, compact ids) and `Engine` (frame frontier).

Not planned: the GLB decoder, shading and pixel conversion (floating-point data without
control state), CLI reports, and message validation that touches no state.
