----------------------------- MODULE Proposals -----------------------------
(***************************************************************************)
(* What a model proposes for one stage of the studio, merged into the      *)
(* draft: services/planning/planning/proposals.py.  Its answer may name    *)
(* any id; the merge decides what the draft takes of it.                   *)
(***************************************************************************)
EXTENDS Revision

\* unique_entity_id: the name, numbered until nobody has it.
UniqueEntityId(kind, name, taken) ==
  LET n == CHOOSE n \in 1..Cardinality(taken) + 1 :
             /\ <<kind, name, n>> \notin taken
             /\ \A m \in 1..n - 1 : <<kind, name, m>> \in taken
  IN <<kind, name, n>>

\* next_scene_id.
NextSceneId(ids) == Max(ids \cup {0}) + 1

\* Mutant: an id the draft knows is kept each time it is proposed.
AdoptedIdAgain(kind, known, all, used, e) ==
  IF e.id \in known \/ (e.id[1] = kind /\ e.id \notin used \cup all) THEN e.id
  ELSE UniqueEntityId(kind, e.name, used \cup all)

\* A known entity stays itself, once; others keep an id of their kind if it is free.
AdoptedId(kind, known, all, used, e) ==
  IF e.id \in known \ used \/ (e.id[1] = kind /\ e.id \notin used \cup all) THEN e.id
  ELSE UniqueEntityId(kind, e.name, used \cup all)

\* The proposed entities of one kind; taken are the ids of the other kind.
Adopt(kind, known, all, proposed, taken) ==
  LET add(acc, e) ==
        Append(acc, [e EXCEPT !.id = AdoptedId(kind, known, all, taken \cup Ids(acc), e)])
      adopted[i \in 0..Len(proposed)] == IF i = 0 THEN <<>> ELSE add(adopted[i - 1], proposed[i])
  IN adopted[Len(proposed)]

MergeTargets(story, proposed, targets) ==
  LET merged(e) ==
        IF e.id \notin targets \cap Ids(Entities(proposed)) THEN e
        ELSE [e EXCEPT !.name = ById(Entities(proposed), e.id).name,
                       !.desc = ById(Entities(proposed), e.id).desc]
      all(seq) == [i \in DOMAIN seq |-> merged(seq[i])]
  IN [story EXCEPT !.world = [characters |-> all(@.characters), locations |-> all(@.locations)]]

\* merge_world: places still in use survive, characters leave the shots they were in.
MergeWorld(story, proposed, targets) ==
  LET world == story.world
      all == Ids(Entities(world))
      characters == Adopt("char", Ids(world.characters), all, proposed.characters, {})
      locations == Adopt("loc", Ids(world.locations), all, proposed.locations, Ids(characters))
      used == {x.location : x \in ToSet(story.shots)}
      restored == Where(world.locations, LAMBDA l : l.id \in used \ Ids(locations))
      places == IF locations \o restored = <<>> THEN world.locations ELSE locations \o restored
      seen(x) == [x EXCEPT !.subjects = Among(@, Ids(characters))]
  IN IF targets # {} THEN MergeTargets(story, proposed, targets)
     ELSE [story EXCEPT !.world = [characters |-> characters, locations |-> places],
                        !.shots = [i \in DOMAIN @ |-> seen(@[i])]]

\* merge_script: the shots of a scene the proposal drops go with it.
MergeScript(story, proposed, targets) ==
  LET existing == Ids(story.scenes)
      rewritten(scene) ==
        IF scene.id \in targets \cap Ids(proposed) THEN ById(proposed, scene.id) ELSE scene
      add(acc, scene) ==
        LET id == IF scene.id \in existing \ Ids(acc) THEN scene.id
                  ELSE NextSceneId(existing \cup Ids(acc))
        IN Append(acc, [scene EXCEPT !.id = id])
      merged[i \in 0..Len(proposed)] == IF i = 0 THEN <<>> ELSE add(merged[i - 1], proposed[i])
      scenes == merged[Len(proposed)]
  IN IF targets # {} THEN [story EXCEPT !.scenes = [i \in DOMAIN @ |-> rewritten(@[i])]]
     ELSE [story EXCEPT !.scenes = scenes, !.shots = Where(@, LAMBDA x : x.scene \in Ids(scenes))]

\* The shots of some scenes planned again, inside the draft; targets says how many of each.
ProposeShots(parentStory, story, targets, answer) ==
  LET others == [story EXCEPT !.shots = Where(@, LAMBDA x : x.scene \notin DOMAIN targets)]
      replanned == SanitizeReplanned(answer, others, targets, parentStory)
  IN [story EXCEPT !.shots = SpliceShots(story, replanned)]
=============================================================================
