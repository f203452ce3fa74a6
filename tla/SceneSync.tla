----------------------------- MODULE SceneSync -----------------------------
(***************************************************************************)
(* One authoritative world and the one renderer scene that consumes its    *)
(* extractions, with patches and extractions in any order: several patches *)
(* may be coalesced into one extraction, as restoration does, or each may  *)
(* be extracted at once, as the running engine does.                       *)
(***************************************************************************)
EXTENDS RenderScene

CONSTANTS
    EntityIds,         \* stable entity ids, positive integers
    Keys,              \* idempotency keys
    Transactions,      \* transaction ids
    OperationLists     \* the operation lists a patch may carry

ASSUME SyncAssumption ==
    /\ EntityIds \subseteq Nat \ {0}
    /\ MaxEntities <= MaxSceneEntities        \* engine validate_config

VARIABLES
    world,
    scene,
    fault     \* "none", or the first panic or internal error met

vars == <<world, scene, fault>>

Init ==
    /\ world = AuthoritativeWorld
    /\ scene = NewRenderScene
    /\ fault = "none"

ApplyPatch(patch) ==
    LET r == apply_patch(world, patch, 1)
    IN  /\ fault = "none"
        /\ world' = r.world
        /\ fault' = IF r.status = "panic" THEN "panic" ELSE fault
        /\ UNCHANGED scene

\* take_render_extraction handed to HeadlessRenderer::apply_extraction.
Extract ==
    LET t == take_render_extraction(world)
        a == apply_extraction(scene, t.extraction)
    IN  /\ fault = "none"
        /\ world' = t.world
        /\ IF t.status = "ok"
           THEN /\ scene' = a.scene
                /\ fault' = IF a.status = "ok" THEN fault ELSE a.status
           ELSE /\ UNCHANGED scene
                /\ fault' = IF t.status = "GenerationOverflow" THEN fault ELSE t.status

Next ==
    \/ \E key \in Keys, transaction \in Transactions, base \in 0 .. MaxU64,
          operations \in OperationLists :
         ApplyPatch([key |-> key, transaction |-> transaction, base |-> base,
                     operations |-> operations])
    \/ Extract

Spec == Init /\ [][Next]_vars

-----------------------------------------------------------------------------
(* Properties *)

\* The world and the scene have the shape the code gives them: maps over live
\* ids, bounded counters, an extraction never ahead of the world.
TypeOK ==
    /\ Live(world) \subseteq EntityIds
    /\ DOMAIN world.idempotency_records \subseteq Keys
    /\ world.revision \in 0 .. MaxU64
    /\ world.last_extracted_revision \in 0 .. world.revision
    /\ world.render_extraction_generation \in 0 .. MaxU64
    /\ world.pending_render_changes \subseteq EntityIds
    /\ DOMAIN scene.entities \subseteq EntityIds

\* No expect or assert of commit can fire on a plan preflight accepted, and no
\* extraction of a bounded world is refused by the world's own invariant check
\* or by the scene (generation, base revision, entity capacity, compact ids).
NoInternalFault == fault = "none"

\* What validate_invariants re-checks before every extraction holds after every
\* patch: the parent and child indexes are inverse, name live entities only, are
\* acyclic and no deeper than the configured bound.
HierarchySound == validate_invariants(world)

\* The cached world transform of every live entity, maintained incrementally
\* from the dirty roots, is the composition of the local transforms on its path.
TransformsComposed ==
    \A id \in Live(world) :
      LET path == Reverse(PathToRoot(world.parents, id))
          Local(e) == from_local(effective_local_transform(world, EmptyMap, e))
      IN  world.world_transforms[id].factors
            = FlattenSeq([ i \in DOMAIN path |-> Local(path[i]) ])

\* An entity the world does not list as changed has in the renderer's scene the
\* record (or the absence) a full projection of the world would give it: the
\* changed set never misses a difference.
PendingCoversDifferences ==
    \A id \in EntityIds \ world.pending_render_changes :
      /\ (id \in DOMAIN scene.entities) = HasRenderData(world, id)
      /\ id \in DOMAIN scene.entities => scene.entities[id] = render_entity(world, id)

\* A committed patch the renderer has not seen yet can still be handed to it: there
\* is an extraction generation left, however often nothing new was extracted
\* before.  apply_patch refuses at the last generation, before it commits.
ChangesExtractable ==
    world.last_extracted_revision < world.revision
      => world.render_extraction_generation < MaxU64

\* Compact ids name one entity each, none of them is free, and recycling loses
\* none: every id handed out so far is in use or free.
CompactIdsPartition ==
    LET used == { scene.compact_ids[id] : id \in DOMAIN scene.compact_ids }
        last == IF scene.next_compact_id = None THEN MaxU32 ELSE scene.next_compact_id - 1
    IN  /\ DOMAIN scene.compact_ids = DOMAIN scene.entities
        /\ IsInjective(scene.compact_ids)
        /\ used \intersect scene.free_compact_ids = {}
        /\ used \union scene.free_compact_ids = 1 .. last

\* An entity that stays in the scene keeps its compact id across an extraction,
\* so pixels of frames already submitted keep their meaning.
CompactIdsStable ==
    [][\A id \in DOMAIN scene.entities \intersect DOMAIN scene'.entities :
         scene'.compact_ids[id] = scene.compact_ids[id]]_vars

=============================================================================
