------------------------------- MODULE World -------------------------------
(***************************************************************************)
(* The authoritative world (crates/cogniform-world/src/world.rs): the      *)
(* functions AuthoritativeWorld::new, apply_patch and                      *)
(* take_render_extraction as operators on a world record, with preflight   *)
(* over an overlay, topology validation, incremental transform             *)
(* propagation and commit kept apart as they are in the code.              *)
(*                                                                         *)
(* Data abstraction: a stable entity id is a positive integer (only its    *)
(* order matters); a component value is an element of a small set; a       *)
(* derived transform is the sequence of local transforms it is composed    *)
(* of, so composing two matrices concatenates two sequences and a stale or *)
(* misordered composition is visible.  The ECS handle behind a stable id   *)
(* is folded into the id.                                                  *)
(***************************************************************************)
EXTENDS Integers, FiniteSets, Sequences, SequencesExt, TLC

CONSTANTS
    MaxEntities,              \* WorldConfig::max_entities
    MaxIdempotencyRecords,    \* WorldConfig::max_idempotency_records
    MaxPendingRenderChanges,  \* WorldConfig::max_pending_render_changes
    MaxHierarchyDepth,        \* WorldConfig::max_hierarchy_depth
    MaxOperations,            \* RuntimeLimits::max_operations
    MaxFiniteFactors,         \* more composed factors give a non-finite matrix
    MaxU64                    \* u64::MAX, scaled down

ASSUME WorldConfigAssumption ==
    /\ MaxEntities \in Nat \ {0}
    /\ MaxIdempotencyRecords \in Nat \ {0}
    /\ MaxPendingRenderChanges \in Nat \ {0}
    /\ MaxHierarchyDepth \in Nat \ {0}
    /\ MaxOperations \in Nat \ {0}
    /\ MaxFiniteFactors \in Nat
    /\ MaxU64 \in Nat \ {0}

None == 0                     \* Option::None for ids, frames and values

EmptyMap == <<>>

Without(f, x) == Restrict(f, DOMAIN f \ {x})

Sorted(S) == SetToSortSeq(S, <)

AuthoritativeWorld ==
    [ storage                 |-> EmptyMap,   \* live id -> (kind -> value)
      parents                 |-> EmptyMap,   \* child id -> parent id
      children                |-> EmptyMap,   \* parent id -> set of child ids
      world_transforms        |-> EmptyMap,   \* live id -> [factors, generation]
      transform_generation    |-> 0,
      revision                |-> 0,
      pending_render_changes  |-> {},
      last_extracted_revision |-> 0,
      render_extraction_generation |-> 0,
      idempotency_records     |-> EmptyMap ]  \* key -> receipt

Live(w) == DOMAIN w.storage

-----------------------------------------------------------------------------
(* Topology: dangling parents, then cycles and depth. *)

\* The path from id towards its root, cut after one edge more than a forest has.
PathToRoot(parents, id) ==
    LET path[n \in 0 .. Cardinality(DOMAIN parents) + 1] ==
          IF n = 0 THEN <<id>>
          ELSE LET p == path[n - 1]
               IN  IF Last(p) \in DOMAIN parents
                   THEN Append(p, parents[Last(p)]) ELSE p
    IN  path[Cardinality(DOMAIN parents) + 1]

hierarchy_depths(live_ids, parents) ==
    LET dangling == \E c \in DOMAIN parents :
                      c \notin live_ids \/ parents[c] \notin live_ids
        TooDeep(id) == LET p == PathToRoot(parents, id)
                       IN  \/ Last(p) \in DOMAIN parents       \* HierarchyCycle
                           \/ Len(p) - 1 > MaxHierarchyDepth
    IN  IF dangling THEN "HierarchyParentNotFound"
        ELSE IF \E id \in live_ids : TooDeep(id) THEN "HierarchyTopology"
        ELSE "ok"

ChildrenOf(parents) ==
    [ p \in Range(parents) |-> { c \in DOMAIN parents : parents[c] = p } ]

\* validate_invariants, without the ECS handle checks.
validate_invariants(w) ==
    /\ DOMAIN w.world_transforms = Live(w)
    /\ \A c \in DOMAIN w.parents :
         /\ {c, w.parents[c]} \subseteq Live(w)
         /\ w.parents[c] \in DOMAIN w.children
         /\ c \in w.children[w.parents[c]]
    /\ SumFunction([p \in DOMAIN w.children |-> Cardinality(w.children[p])])
         = Cardinality(DOMAIN w.parents)
    /\ hierarchy_depths(Live(w), w.parents) = "ok"

-----------------------------------------------------------------------------
(* Preflight: every operation is checked, in order, against an overlay. *)

PreflightState(w) ==
    [ overlay |-> EmptyMap, parents |-> w.parents, local_overrides |-> EmptyMap,
      dirty_roots |-> {}, render_changed_ids |-> {}, hierarchy_changed |-> FALSE,
      live_entities |-> Cardinality(Live(w)), error |-> "ok" ]

stored_entity_state(w, id) ==
    [ exists     |-> id \in Live(w),
      components |-> IF id \in Live(w) THEN DOMAIN w.storage[id] ELSE {} ]

\* Mutant: a deletion earlier in the same patch is not seen.
overlay_state_forgets_deletes(w, s, id) ==
    IF id \in DOMAIN s.overlay /\ s.overlay[id].exists THEN s.overlay[id]
    ELSE stored_entity_state(w, id)

overlay_state(w, s, id) ==
    IF id \in DOMAIN s.overlay THEN s.overlay[id] ELSE stored_entity_state(w, id)

\* Mutant: transforms set earlier in the same patch are not seen.
effective_local_transform_stored(w, local_overrides, id) ==
    IF id \in Live(w) /\ "LocalTransform" \in DOMAIN w.storage[id]
    THEN w.storage[id]["LocalTransform"] ELSE None

effective_local_transform(w, local_overrides, id) ==
    IF id \in DOMAIN local_overrides THEN local_overrides[id]
    ELSE IF id \in Live(w) /\ "LocalTransform" \in DOMAIN w.storage[id]
         THEN w.storage[id]["LocalTransform"] ELSE None

Fail(s, error) == [s EXCEPT !.error = error]

preflight_create(w, s, op) ==
    IF overlay_state(w, s, op.id).exists THEN Fail(s, "EntityAlreadyExists")
    ELSE IF s.live_entities + 1 > MaxEntities THEN Fail(s, "EntityCapacityExceeded")
    ELSE [s EXCEPT
           !.live_entities = @ + 1,
           !.overlay = (op.id :> [exists |-> TRUE, components |-> DOMAIN op.components]) @@ @,
           !.hierarchy_changed = TRUE,
           !.local_overrides =
               (op.id :> IF "LocalTransform" \in DOMAIN op.components
                         THEN op.components["LocalTransform"] ELSE None) @@ @,
           !.dirty_roots = @ \union {op.id},
           !.render_changed_ids = @ \union {op.id}]

preflight_delete(w, s, op) ==
    IF ~overlay_state(w, s, op.id).exists THEN Fail(s, "EntityNotFound")
    ELSE [s EXCEPT
           !.live_entities = @ - 1,
           !.overlay = (op.id :> [exists |-> FALSE, components |-> {}]) @@ @,
           !.parents = Without(@, op.id),
           !.hierarchy_changed = TRUE,
           !.local_overrides = Without(@, op.id),
           !.dirty_roots = @ \ {op.id},
           !.render_changed_ids = @ \union {op.id}]

preflight_set(w, s, op) ==
    LET state == overlay_state(w, s, op.id)
        local == op.kind = "LocalTransform"
        moved == local /\ effective_local_transform(w, s.local_overrides, op.id) # op.value
    IN  IF ~state.exists THEN Fail(s, "EntityNotFound")
        ELSE [s EXCEPT
               !.dirty_roots = IF moved THEN @ \union {op.id} ELSE @,
               !.local_overrides = IF local THEN (op.id :> op.value) @@ @ ELSE @,
               !.render_changed_ids = IF op.kind = "Name" THEN @ ELSE @ \union {op.id},
               !.overlay = (op.id :> [state EXCEPT !.components = @ \union {op.kind}]) @@ @]

preflight_remove(w, s, op) ==
    LET state == overlay_state(w, s, op.id)
        local == op.kind = "LocalTransform"
    IN  IF ~state.exists THEN Fail(s, "EntityNotFound")
        ELSE IF op.kind \notin state.components THEN Fail(s, "ComponentNotFound")
        ELSE [s EXCEPT
               !.dirty_roots = IF local THEN @ \union {op.id} ELSE @,
               !.local_overrides = IF local THEN (op.id :> None) @@ @ ELSE @,
               !.render_changed_ids = IF op.kind = "Name" THEN @ ELSE @ \union {op.id},
               !.overlay = (op.id :> [state EXCEPT !.components = @ \ {op.kind}]) @@ @]

preflight_reparent(w, s, op) ==
    LET previous == IF op.id \in DOMAIN s.parents THEN s.parents[op.id] ELSE None
    IN  IF \/ ~overlay_state(w, s, op.id).exists
           \/ op.parent # None /\ ~overlay_state(w, s, op.parent).exists
        THEN Fail(s, "EntityNotFound")
        ELSE IF previous = op.parent THEN s
        ELSE [s EXCEPT
               !.parents = IF op.parent = None THEN Without(@, op.id)
                           ELSE (op.id :> op.parent) @@ @,
               !.dirty_roots = @ \union {op.id},
               !.hierarchy_changed = TRUE]

preflight_operation(w, s, op) ==
    IF s.error # "ok" THEN s
    ELSE CASE op.op = "Create"   -> preflight_create(w, s, op)
           [] op.op = "Delete"   -> preflight_delete(w, s, op)
           [] op.op = "Set"      -> preflight_set(w, s, op)
           [] op.op = "Remove"   -> preflight_remove(w, s, op)
           [] op.op = "Reparent" -> preflight_reparent(w, s, op)

-----------------------------------------------------------------------------
(* Completing the preflight: topology, transforms, extraction capacity. *)

\* Dirty ids with no dirty proper ancestor, visited depth first through the
\* children index; a parent is listed before its descendants.
affected_entities(parents, children, dirty_roots) ==
    LET roots == { id \in dirty_roots :
                     ToSet(Tail(PathToRoot(parents, id))) \intersect dirty_roots = {} }
        Visit(v) ==
          LET id == Head(v.pending)
          IN  IF v.pending = <<>> THEN v
              ELSE IF id \in ToSet(v.affected) THEN [v EXCEPT !.pending = Tail(@)]
              ELSE [ affected |-> Append(v.affected, id),
                     pending  |-> (IF id \in DOMAIN children
                                   THEN Sorted(children[id]) ELSE <<>>)
                                  \o Tail(v.pending) ]
        steps == Cardinality(roots) + Cardinality(DOMAIN parents)
        walk[n \in 0 .. steps] ==
          IF n = 0 THEN [affected |-> <<>>, pending |-> Sorted(roots)]
          ELSE Visit(walk[n - 1])
    IN  walk[steps].affected

from_local(local) == IF local = None THEN <<>> ELSE <<local>>

\* One update per affected id, in order, each composed with its parent's update
\* when there is one and with the parent's cached transform otherwise.
plan_transform_updates(w, s, children) ==
    LET ordered == affected_entities(s.parents, children, s.dirty_roots)
        generation == IF ordered = <<>> THEN w.transform_generation
                      ELSE w.transform_generation + 1
        Update(updates, id) ==
          LET local == from_local(effective_local_transform(w, s.local_overrides, id))
              parent == s.parents[id]
              base == IF id \notin DOMAIN s.parents THEN <<>>
                      ELSE IF parent \in DOMAIN updates THEN updates[parent].factors
                      ELSE w.world_transforms[parent].factors
          IN  (id :> [factors |-> base \o local, generation |-> generation]) @@ updates
    IN  [ updates |-> FoldLeft(Update, EmptyMap, ordered), generation |-> generation ]

\* Mutant: entities moved through an ancestor are not reported.
changed_ids_named(s, updates) == s.render_changed_ids

\* The ids whose render data this patch changes.
changed_ids(s, updates) == s.render_changed_ids \union DOMAIN updates

\* The end of complete_preflight: what may still refuse the patch, else the plan.
PreflightPlan(w, s, topology, children, plan) ==
    LET changed == changed_ids(s, plan.updates)
        error == CASE s.error # "ok" -> s.error
                   [] topology # "ok" -> topology
                   [] plan.generation > MaxU64 -> "TransformGenerationOverflow"
                   [] \E id \in DOMAIN plan.updates :
                        Len(plan.updates[id].factors) > MaxFiniteFactors
                        -> "TransformOverflow"
                   [] Cardinality(w.pending_render_changes \union changed)
                        > MaxPendingRenderChanges -> "RenderExtractionCapacityExceeded"
                   [] OTHER -> "ok"
    IN  IF error # "ok" THEN [error |-> error]
        ELSE [ error |-> "ok", parents |-> s.parents, children |-> children,
               transform_updates |-> plan.updates,
               transform_generation |-> plan.generation,
               render_changed_ids |-> changed ]

complete_preflight(w, s) ==
    LET live_ids == { id \in Live(w) \union DOMAIN s.overlay :
                        overlay_state(w, s, id).exists }
        topology == IF s.hierarchy_changed
                    THEN hierarchy_depths(live_ids, s.parents) ELSE "ok"
        children == IF s.hierarchy_changed THEN ChildrenOf(s.parents) ELSE w.children
    IN  PreflightPlan(w, s, topology, children, plan_transform_updates(w, s, children))

preflight(w, patch) ==
    complete_preflight(w, FoldLeft(LAMBDA s, op : preflight_operation(w, s, op),
                                   PreflightState(w), patch.operations))

-----------------------------------------------------------------------------
(* Commit.  A precondition that preflight should have established and did   *)
(* not is a panic in the code (assert!, expect); here it empties `ok`.      *)

commit_operation(c, op) ==
    LET st == c.storage
        live == op.id \in DOMAIN st
    IN  CASE op.op = "Create" ->
               [ storage |-> (op.id :> op.components) @@ st, ok |-> c.ok /\ ~live ]
          [] op.op = "Delete" -> [ storage |-> Without(st, op.id), ok |-> c.ok /\ live ]
          [] op.op = "Set" /\ live ->
               [ storage |-> [st EXCEPT ![op.id] = (op.kind :> op.value) @@ @], ok |-> c.ok ]
          [] op.op = "Remove" /\ live ->
               [ storage |-> [st EXCEPT ![op.id] = Without(@, op.kind)],
                 ok |-> c.ok /\ op.kind \in DOMAIN st[op.id] ]
          [] op.op = "Reparent" -> c
          [] OTHER -> [c EXCEPT !.ok = FALSE]

commit_storage(w, operations) ==
    FoldLeft(commit_operation, [storage |-> w.storage, ok |-> TRUE], operations)

\* Mutant: the child index is left as it was.
commit_parents_only(w, plan) == [w EXCEPT !.parents = plan.parents]

commit_hierarchy(w, plan) ==
    [w EXCEPT !.parents = plan.parents, !.children = plan.children]

commit(w, plan, storage) ==
    [commit_hierarchy(w, plan) EXCEPT
      !.storage = storage,
      !.world_transforms =
          plan.transform_updates @@ Restrict(@, DOMAIN @ \intersect DOMAIN storage),
      !.transform_generation = plan.transform_generation,
      !.revision = @ + 1,
      !.pending_render_changes = @ \union plan.render_changed_ids]

Rejected(w, error) == [world |-> w, status |-> error]

\* Mutant: the estimated frame is not recorded.
Receipt_without_frame(w, patch, estimated_visible_frame) ==
    [ transaction |-> patch.transaction, previous_revision |-> w.revision,
      new_revision |-> w.revision + 1, frame |-> None ]

Receipt(w, patch, estimated_visible_frame) ==
    [ transaction |-> patch.transaction, previous_revision |-> w.revision,
      new_revision |-> w.revision + 1, frame |-> estimated_visible_frame ]

\* The part of apply_patch after its checks on key, counters and base.
ApplyPlan(w, patch, plan, stored, receipt) ==
    IF plan.error # "ok" THEN Rejected(w, plan.error)
    ELSE IF ~stored.ok THEN Rejected(w, "panic")
    ELSE [ world |-> [commit(w, plan, stored.storage) EXCEPT
                        !.idempotency_records = (patch.key :> receipt) @@ @],
           status |-> "Applied", receipt |-> receipt ]

\* Mutant: the generation is only noticed once it has run over.
generation_left_late(w) == w.render_extraction_generation <= MaxU64

\* Checked before anything is committed: the extraction that follows needs one.
generation_left(w) == w.render_extraction_generation < MaxU64

\* A patch is [key, transaction, base, operations]; ConflictPolicy has the single
\* variant RequireExactBase.
apply_patch(w, patch, estimated_visible_frame) ==
    LET records == w.idempotency_records
        count == Len(patch.operations)
    IN  CASE count = 0 \/ count > MaxOperations -> Rejected(w, "InvalidPatch")
          [] patch.key \in DOMAIN records ->
               IF records[patch.key].transaction # patch.transaction
               THEN Rejected(w, "IdempotencyKeyConflict")
               ELSE [ world |-> w, status |-> "IdempotentReplay",
                      receipt |-> records[patch.key] ]
          [] ~generation_left(w) -> Rejected(w, "RenderExtractionGenerationOverflow")
          [] Cardinality(DOMAIN records) >= MaxIdempotencyRecords ->
               Rejected(w, "IdempotencyCapacityExceeded")
          [] patch.base # w.revision -> Rejected(w, "BaseRevisionMismatch")
          [] w.revision = MaxU64 -> Rejected(w, "RevisionOverflow")
          [] OTHER -> ApplyPlan(w, patch, preflight(w, patch),
                                commit_storage(w, patch.operations),
                                Receipt(w, patch, estimated_visible_frame))

-----------------------------------------------------------------------------
(* Render extraction and the logical view. *)

RenderKinds == {"Primitive", "Material", "Camera", "Light", "AssetMesh"}

HasRenderData(w, id) ==
    id \in Live(w) /\ DOMAIN w.storage[id] \intersect RenderKinds # {}

render_entity(w, id) ==
    [ transform  |-> w.world_transforms[id],
      components |-> Restrict(w.storage[id], DOMAIN w.storage[id] \intersect RenderKinds) ]

\* Mutants: the extraction base is one ahead; is not advanced; the changed ids
\* are not cleared.
mark_extracted_ahead(w) ==
    [w EXCEPT !.pending_render_changes = {}, !.last_extracted_revision = w.revision + 1,
              !.render_extraction_generation = @ + 1]

mark_extracted_base_kept(w) ==
    [w EXCEPT !.pending_render_changes = {}, !.render_extraction_generation = @ + 1]

mark_extracted_pending_kept(w) ==
    [w EXCEPT !.last_extracted_revision = w.revision, !.render_extraction_generation = @ + 1]

mark_extracted(w) ==
    [w EXCEPT !.pending_render_changes = {}, !.last_extracted_revision = w.revision,
              !.render_extraction_generation = @ + 1]

\* Changed ids become upserts when they still have render data, removals otherwise.
take_render_extraction(w) ==
    LET pending == w.pending_render_changes
        upserts == { id \in pending : HasRenderData(w, id) }
    IN  CASE ~validate_invariants(w) -> [world |-> w, status |-> "InvariantViolation"]
          [] w.render_extraction_generation = MaxU64 ->
               [world |-> w, status |-> "GenerationOverflow"]
          [] OTHER ->
               [ status |-> "ok",
                 extraction |->
                   [ generation |-> w.render_extraction_generation + 1,
                     base_revision |-> w.last_extracted_revision,
                     scene_revision |-> w.revision,
                     upserts |-> [ id \in upserts |-> render_entity(w, id) ],
                     removals |-> pending \ upserts ],
                 world |-> mark_extracted(w) ]

\* WorldSnapshot without its revision: what logical_hash digests.
logical_snapshot(w) == [storage |-> w.storage, parents |-> w.parents]

=============================================================================
