---------------------------- MODULE RenderScene ----------------------------
(***************************************************************************)
(* The renderer's copy of the scene (RenderScene in                        *)
(* crates/cogniform-renderer/src/scene.rs): RenderScene::new and apply as  *)
(* operators on a scene record.  Compact ids are the small integers the    *)
(* entity-id render target carries; they are recycled.                     *)
(***************************************************************************)
EXTENDS World

CONSTANTS
    MaxSceneEntities,         \* RendererConfig::max_scene_entities
    MaxU32                    \* u32::MAX, scaled down: the last compact id

ASSUME SceneConfigAssumption ==
    MaxSceneEntities \in Nat \ {0} /\ MaxU32 \in Nat \ {0}

NewRenderScene ==
    [ revision |-> 0, generation |-> 0, entities |-> EmptyMap, compact_ids |-> EmptyMap,
      free_compact_ids |-> {}, next_compact_id |-> 1 ]

\* Mutant: the ids of removed entities are not returned.
ReusableIds_free_only(sc, extraction) == sc.free_compact_ids

\* Compact ids that may be handed out again: the free ones and those this
\* extraction's removals give back.
ReusableIds(sc, extraction) ==
    sc.free_compact_ids
      \union { sc.compact_ids[id] : id \in extraction.removals \intersect DOMAIN sc.compact_ids }

\* Mutant: an upsert of a known entity counts as new.
NewEntities_all(sc, extraction) == DOMAIN extraction.upserts

NewEntities(sc, extraction) == DOMAIN extraction.upserts \ DOMAIN sc.entities

\* Assign a compact id to each new entity in id order: the least free one (those
\* this extraction removes included), else the next, which is None past u32::MAX.
assign_compact_ids(sc, extraction) ==
    LET Assign(a, id) ==
          IF a.free # {}
          THEN [a EXCEPT !.ids = (id :> Min(a.free)) @@ @, !.free = @ \ {Min(a.free)}]
          ELSE IF a.next = None THEN [a EXCEPT !.ok = FALSE]
          ELSE [a EXCEPT !.ids = (id :> a.next) @@ @,
                         !.next = IF a.next = MaxU32 THEN None ELSE a.next + 1]
    IN  FoldLeft(Assign,
                 [ ids |-> EmptyMap, next |-> sc.next_compact_id, ok |-> TRUE,
                   free |-> ReusableIds(sc, extraction) ],
                 Sorted(NewEntities(sc, extraction)))

apply_extraction(sc, extraction) ==
    LET kept == DOMAIN sc.entities \ extraction.removals
        projected == kept \union DOMAIN extraction.upserts
        assigned == assign_compact_ids(sc, extraction)
        Refuse(error) == [scene |-> sc, status |-> error]
    IN  CASE sc.generation = MaxU64 -> Refuse("GenerationExhausted")
          [] extraction.generation # sc.generation + 1 -> Refuse("GenerationMismatch")
          [] extraction.base_revision # sc.revision -> Refuse("BaseRevisionMismatch")
          [] Cardinality(projected) > MaxSceneEntities -> Refuse("EntityCapacityExceeded")
          [] ~assigned.ok -> Refuse("CompactIdentityExhausted")
          [] OTHER ->
               [ status |-> "ok",
                 scene |->
                   [ revision |-> extraction.scene_revision,
                     generation |-> extraction.generation,
                     entities |-> extraction.upserts @@ Restrict(sc.entities, kept),
                     compact_ids |-> assigned.ids @@ Restrict(sc.compact_ids, kept),
                     free_compact_ids |-> assigned.free,
                     next_compact_id |-> assigned.next ] ]

=============================================================================
