------------------------------- MODULE Engine -------------------------------
(***************************************************************************)
(* The engine (crates/cogniform-engine/src/engine.rs): one recorded world  *)
(* (authoritative world and append-only replay log,                        *)
(* crates/cogniform-replay), the renderer's scene and frame counter, and   *)
(* recovery: capture of a point, restoration of one into a fresh engine,   *)
(* and the service's in-place revert to an older revision.                 *)
(*                                                                         *)
(* A digest is modelled by what it digests: a scene hash is the logical    *)
(* snapshot.  The byte coding of the log is left to its own module; here a *)
(* recovery point holds the entries themselves.                            *)
(***************************************************************************)
EXTENDS RenderScene

CONSTANTS
    EntityIds, Keys, Transactions, OperationLists,
    MaxEntries,        \* ReplayConfig::max_entries
    MaxEntryBytes,     \* ReplayConfig::max_entry_bytes
    MaxLogBytes,       \* ReplayConfig::max_log_bytes
    MaxPoints          \* bound on recovery points kept by callers

ASSUME EngineAssumption ==
    /\ EntityIds \subseteq Nat \ {0}
    /\ {MaxEntries, MaxEntryBytes, MaxLogBytes} \subseteq Nat \ {0}
    /\ MaxPoints \in Nat
    /\ MaxEntities <= MaxSceneEntities

VARIABLES
    world, log, scene,
    next_frame_id,     \* HeadlessRenderer::next_frame_id, 0 once exhausted
    points,            \* recovery points captured so far
    line_frames,       \* history: the frames of this engine's line, those it submitted
                       \* and those its source had when the adopted point was captured
    fault              \* "none", or the first error after a commit

vars == <<world, log, scene, next_frame_id, points, line_frames, fault>>

\* Mutant: every entry is recorded with the first frame.
Entry_first_frame(patch, frame, before, after) ==
    [ patch |-> patch, estimated_visible_frame |-> 1,
      previous_revision |-> before.revision, new_revision |-> after.revision,
      previous_scene_hash |-> logical_snapshot(before),
      new_scene_hash |-> logical_snapshot(after) ]

Entry(patch, frame, before, after) ==
    [ patch |-> patch, estimated_visible_frame |-> frame,
      previous_revision |-> before.revision, new_revision |-> after.revision,
      previous_scene_hash |-> logical_snapshot(before),
      new_scene_hash |-> logical_snapshot(after) ]

\* One entry of a replay, a being what apply_patch made of it.
replay_entry(r, e, a) ==
    CASE r.status # "ok" -> r
      [] \/ r.world.revision # e.previous_revision
         \/ logical_snapshot(r.world) # e.previous_scene_hash
           -> [r EXCEPT !.status = "SceneHashMismatch"]
      [] a.status \notin {"Applied", "IdempotentReplay"} -> [r EXCEPT !.status = a.status]
      [] \/ a.status # "Applied"
         \/ a.receipt.previous_revision # e.previous_revision
         \/ a.receipt.new_revision # e.new_revision
           -> [r EXCEPT !.status = "RevisionMismatch"]
      [] logical_snapshot(a.world) # e.new_scene_hash
           -> [r EXCEPT !.status = "SceneHashMismatch"]
      [] OTHER -> [world |-> a.world, status |-> "ok"]

\* ReplayLog::replay: every entry applied to a fresh world, its recorded
\* revisions and scene hashes compared before and after.
replay(entries) ==
    FoldLeft(LAMBDA r, e : replay_entry(r, e, apply_patch(r.world, e.patch,
                                                          e.estimated_visible_frame)),
             [world |-> AuthoritativeWorld, status |-> "ok"], entries)

\* prepare_restore: the frame marker must not be behind the log, then replay.
prepare_restore(point) ==
    IF \E i \in DOMAIN point.entries :
         point.next_frame_id < point.entries[i].estimated_visible_frame
    THEN [status |-> "RecoveryFrameBehindReplay"]
    ELSE replay(point.entries)

-----------------------------------------------------------------------------
Init ==
    /\ world = AuthoritativeWorld
    /\ log = <<>>
    /\ scene = NewRenderScene
    /\ next_frame_id = 1
    /\ points = {}
    /\ line_frames = {}
    /\ fault = "none"

\* An entry's size: its envelope and its operations, each counted as one.
entry_bytes(patch) == 1 + Len(patch.operations)

encoded_len == FoldLeft(LAMBDA n, e : n + entry_bytes(e.patch), 0, log)

\* RecordedWorld::apply_patch, a being what the world makes of the patch: capacity
\* is checked before the world is touched, and only for a key it has not recorded.
recorded_apply_patch(patch, frame, a) ==
    LET Refuse(error) == [world |-> world, log |-> log, status |-> error]
    IN  CASE patch.key \in DOMAIN world.idempotency_records -> a @@ [log |-> log]
          [] Len(log) >= MaxEntries -> Refuse("EntryCapacityExceeded")
          [] entry_bytes(patch) > MaxEntryBytes -> Refuse("EntrySizeExceeded")
          [] encoded_len + entry_bytes(patch) > MaxLogBytes -> Refuse("LogSizeExceeded")
          [] OTHER -> a @@ [log |-> IF a.status = "Applied"
                                    THEN Append(log, Entry(patch, frame, world, a.world))
                                    ELSE log]

\* The renderer is handed what the world extracted.
publication(sc, t) ==
    IF t.status = "ok" THEN apply_extraction(sc, t.extraction) @@ [world |-> t.world]
    ELSE [scene |-> sc, status |-> t.status, world |-> t.world]

Publish(p) ==
    /\ world' = p.world
    /\ scene' = p.scene
    /\ fault' = IF p.status = "ok" THEN fault ELSE p.status

\* The rest of CogniformEngine::apply_patch: the commit is already logged when the
\* extraction is taken and applied, so a failure there has no way back.
Conclude(a) ==
    /\ log' = a.log
    /\ IF a.status = "Applied"
       THEN Publish(publication(scene, take_render_extraction(a.world)))
       ELSE /\ world' = a.world
            /\ UNCHANGED scene
            /\ fault' = IF a.status = "panic" THEN "panic" ELSE fault

ApplyPatch(patch) ==
    /\ next_frame_id # 0                                \* else FrameIdOverflow
    /\ Conclude(recorded_apply_patch(patch, next_frame_id,
                                     apply_patch(world, patch, next_frame_id)))
    /\ UNCHANGED <<next_frame_id, points, line_frames>>

\* Mutant: the last frame id is not noticed.
frame_after_unchecked(frame) == frame + 1

frame_after(frame) == IF frame = MaxU64 THEN 0 ELSE frame + 1

\* HeadlessRenderer::submit_scene reached through request_observation: a
\* successful submission takes the frame id and advances the counter.
SubmitFrame ==
    /\ next_frame_id # 0
    /\ line_frames' = line_frames \union {next_frame_id}
    /\ next_frame_id' = frame_after(next_frame_id)
    /\ UNCHANGED <<world, log, scene, points, fault>>

\* Mutants: the frame counter starts over; is one behind.
Point_first_frame(revision) ==
    [ entries |-> SubSeq(log, 1, revision), next_frame_id |-> 1, line_frames |-> line_frames ]

Point_frame_behind(revision) ==
    [ entries |-> SubSeq(log, 1, revision), next_frame_id |-> next_frame_id - 1,
      line_frames |-> line_frames ]

\* recovery_point_at_revision; at the current revision it is recovery_point.
Point(revision) ==
    [ entries |-> SubSeq(log, 1, revision), next_frame_id |-> next_frame_id,
      line_frames |-> line_frames ]

CapturePoint(revision) ==
    /\ next_frame_id # 0
    /\ revision <= Len(log)                             \* else ReplayRevisionError
    /\ Cardinality(points) < MaxPoints
    /\ points' = points \union {Point(revision)}
    /\ UNCHANGED <<world, log, scene, next_frame_id, line_frames, fault>>

\* restore_prepared: fresh renderer at the captured frame, one extraction of the
\* final state unless the point is at revision zero.  The engine continues the
\* point's line: of the source's frames, those from before the capture.
restore_prepared(point, p) ==
    /\ p.status = "ok"                                  \* else nothing is replaced
    /\ log' = point.entries
    /\ next_frame_id' = point.next_frame_id
    /\ line_frames' = point.line_frames
    /\ IF p.world.revision = 0
       THEN world' = p.world /\ scene' = NewRenderScene /\ UNCHANGED fault
       ELSE Publish(publication(NewRenderScene, take_render_extraction(p.world)))
    /\ UNCHANGED points

Adopt(point) == restore_prepared(point, prepare_restore(point))

\* LocalService::restore after the source engine is gone.
Restore(point) ==
    /\ point \in points
    /\ Adopt(point)

\* LocalService::revert_to_revision, its queues drained.
Revert(revision) ==
    /\ next_frame_id # 0
    /\ revision < world.revision      \* current: TargetIsCurrent; newer: ReplayRevisionError
    /\ Adopt(Point(revision))

Next ==
    \/ \E key \in Keys, transaction \in Transactions, base \in 0 .. MaxU64,
          operations \in OperationLists :
         ApplyPatch([key |-> key, transaction |-> transaction, base |-> base,
                     operations |-> operations])
    \/ SubmitFrame
    \/ \E revision \in 0 .. MaxEntries : CapturePoint(revision)
    \/ \E point \in points : Restore(point)
    \/ \E revision \in 0 .. MaxEntries : Revert(revision)

Spec == Init /\ [][Next]_vars

-----------------------------------------------------------------------------
(* Properties *)

\* The engine's parts have the shape the code gives them, and the log holds one
\* entry per revision.
TypeOK ==
    /\ world.revision \in 0 .. MaxU64
    /\ Len(log) = world.revision
    /\ Len(log) <= MaxEntries /\ encoded_len <= MaxLogBytes
    /\ next_frame_id \in 0 .. MaxU64
    /\ line_frames \subseteq 1 .. MaxU64
    /\ Cardinality(points) <= MaxPoints

\* Once apply_patch has committed and logged a patch, taking the extraction and
\* handing it to the renderer cannot fail, counters at their limit and freshly
\* restored engines included; a failure there would leave the renderer behind an
\* accepted revision for good.
NoFaultAfterCommit == fault = "none"

\* Between calls the renderer's scene is exactly the projection of the current
\* world: same revision, same generation, nothing pending, every record equal.
SceneIsCurrent ==
    /\ scene.revision = world.revision
    /\ scene.generation = world.render_extraction_generation
    /\ world.last_extracted_revision = world.revision
    /\ world.pending_render_changes = {}
    /\ scene.entities = [ id \in { i \in Live(world) : HasRenderData(world, i) }
                            |-> render_entity(world, id) ]

SameWorld(v) ==
    /\ v.storage = world.storage
    /\ v.parents = world.parents
    /\ v.children = world.children
    /\ v.world_transforms = world.world_transforms
    /\ v.revision = world.revision
    /\ v.idempotency_records = world.idempotency_records

\* Replaying the log into a fresh world under the same bounds succeeds and gives
\* the live world: entities, hierarchy, cached transforms, revision and the
\* idempotency records, whatever was restored or reverted before.
LogReproducesWorld ==
    \E r \in {replay(log)} : r.status = "ok" /\ SameWorld(r.world)

\* An idempotency key is recorded exactly when one log entry carries it, with
\* the transaction, revisions and frame of that entry: across restore and revert
\* no accepted patch is forgotten and none is applied twice.
RecordsMatchLog ==
    /\ IsInjective([ i \in DOMAIN log |-> log[i].patch.key ])
    /\ world.idempotency_records =
         [ k \in { log[i].patch.key : i \in DOMAIN log } |->
             LET e == log[CHOOSE i \in DOMAIN log : log[i].patch.key = k]
             IN  [ transaction |-> e.patch.transaction,
                   previous_revision |-> e.previous_revision,
                   new_revision |-> e.new_revision,
                   frame |-> e.estimated_visible_frame ] ]

\* The next frame id is above every frame of the engine's line, and not below any
\* frame the log names.  A restored engine cannot reuse a frame its source issued
\* before the capture, one of an observation no log entry tells of included, and a
\* revert, which captures and adopts in one call, reuses none at all.  Frames the
\* source issued after the capture are not of the line: the counters are
\* independent from there and the same ids may be issued again.
FrameFrontier ==
    next_frame_id # 0 =>
      /\ \A f \in line_frames : f < next_frame_id
      /\ \A i \in DOMAIN log : log[i].estimated_visible_frame <= next_frame_id

\* Every recovery point ever captured restores: the check on its frame marker and
\* the replay of its entries succeed, and give back a world at its last revision.
PointsRestorable ==
    \A p \in points :
      \E r \in {prepare_restore(p)} : r.status = "ok" /\ r.world.revision = Len(p.entries)

\* What docs/adr/0012 says of the log: the service "can verify or replay that
\* stream into a fresh logical world", for every accepted history.
AcceptedLogReplays == replay(log).status = "ok"

=============================================================================
