------------------------------ MODULE Revision ------------------------------
(***************************************************************************)
(* What an edited story changes, what is made again for it and what the    *)
(* new package keeps of its parent: services/planning/planning/revision.py.*)
(***************************************************************************)
EXTENDS Assembly

PerShot == 350  \* SECONDS_PER_SHOT

PromptInputs(x) == <<x.action, x.location, x.subjects>>
ShotKey(x) == <<x.id, PromptInputs(x), x.length>>
Keys(shots) == [i \in DOMAIN shots |-> ShotKey(shots[i])]

\* The ids of seq that are in ids, in the order of seq.
IdsAmong(seq, ids) == Among([i \in DOMAIN seq |-> seq[i].id], ids)

Lengths(shots) == [i \in DOMAIN shots |-> shots[i].length]

-----------------------------------------------------------------------------
(* plan_revision. *)

EntityStatus(w0, w1) ==
  LET e0 == Entities(w0)
      e1 == Entities(w1)
      status(id) ==
        IF id \notin Ids(e0) THEN "new"
        ELSE IF id \notin Ids(e1) THEN "removed"
        ELSE IF ById(e0, id).desc # ById(e1, id).desc THEN "changed"
        ELSE IF ById(e0, id).name # ById(e1, id).name THEN "renamed"
        ELSE "same"
  IN [id \in Ids(e0) \cup Ids(e1) |-> status(id)]

SceneStatus(sc0, sc1) ==
  LET told(scene) == <<scene.beat, scene.location>>
      status(id) ==
        IF id \notin Ids(sc0) THEN "new"
        ELSE IF id \notin Ids(sc1) THEN "removed"
        ELSE IF told(ById(sc0, id)) # told(ById(sc1, id)) THEN "changed"
        ELSE IF ById(sc0, id).narration # ById(sc1, id).narration THEN "narration"
        ELSE "same"
  IN [id \in Ids(sc0) \cup Ids(sc1) |-> status(id)]

\* Scenes to break down again: those without shots, and those whose shots nobody has
\* touched although the scene or the length of the film has changed.
StaleScenes(s0, s1, scenes, brief, keep) ==
  {id \in Ids(s1.scenes) :
     LET now == Keys(ShotsOf(s1, id)) IN
     \/ now = <<>>
     \/ /\ now = Keys(ShotsOf(s0, id))
        /\ scenes[id] \in {"new", "changed"} \/ "length" \in brief
        /\ id \notin keep}

\* As many shots as the scene had, or its narration's share of the film.
ShotTargets(s0, s1, stale) ==
  LET words == Total([i \in DOMAIN s1.scenes |-> s1.scenes[i].narration])
      share(id) ==
        IF words = 0 THEN Rounded(s1.brief.length, Len(s1.scenes) * PerShot)
        ELSE Rounded(s1.brief.length * ById(s1.scenes, id).narration, words * PerShot)
      before(id) == Len(ShotsOf(s0, id))
  IN [id \in stale |-> IF before(id) > 0 THEN before(id) ELSE Max({1, share(id)})]

\* What becomes of the shots of the story: only a kept one is carried over whole.
ShotStatus(parent, s0, s1, stale, dirty) ==
  LET status(x) ==
        IF x.scene \in stale THEN "stale"
        ELSE IF x.id \notin Ids(OfType(parent, "video")) \cap Ids(s0.shots) THEN "new"
        ELSE IF PromptInputs(x) # PromptInputs(ById(s0.shots, x.id)) THEN "edited"
        ELSE IF s0.brief.style # s1.brief.style \/ dirty \cap ({x.location} \cup ToSet(x.subjects)) # {}
             THEN "prompt"
        ELSE "kept"
  IN [id \in Ids(s1.shots) \cup Ids(s0.shots) |->
        IF id \in Ids(s1.shots) THEN status(ById(s1.shots, id)) ELSE "removed"]

\* _change_lines, by stage: which kinds of line there are.
Changes(s0, s1, entities, scenes, brief, stale) ==
  LET values(f) == {f[id] : id \in DOMAIN f} \ {"same"}
      kept == Ids(s0.shots) \cap Ids(s1.shots)
      common == Where(s1.shots, LAMBDA x : x.id \in kept)
      before(x) == ById(s0.shots, x.id)
      told == Ids(s0.scenes) \cap Ids(s1.scenes)
      moved(x) == x.scene # before(x).scene
      changed(x) == x.scene \notin stale /\ ShotKey(x) # ShotKey(before(x))
      when(kind, holds) == IF holds THEN {kind} ELSE {}
  IN [brief |-> brief,
      world |-> values(entities),
      script |-> values(scenes) \cup
        when("order", IdsAmong(s0.scenes, told) # IdsAmong(s1.scenes, told)),
      shots |-> UNION {
        when("planned", stale # {}),
        when("edited", \E x \in ToSet(common) : changed(x)),
        when("added", Len(common) # Len(s1.shots)),
        when("removed", \E x \in ToSet(s0.shots) : x.id \notin kept /\ scenes[x.scene] # "removed"),
        when("order", \/ IdsAmong(s0.shots, kept) # IdsAmong(s1.shots, kept)
                      \/ \E x \in ToSet(common) : moved(x))}]

Stages == <<"brief", "world", "script", "shots">>
HasChanges(plan) == \E stage \in ToSet(Stages) : plan.changes[stage] # {}

PlanRevision(parent, s0, s1, keep) ==
  LET brief == {f \in DOMAIN s1.brief : s0.brief[f] # s1.brief[f]}
      entities == EntityStatus(s0.world, s1.world)
      scenes == SceneStatus(s0.scenes, s1.scenes)
      stale == StaleScenes(s0, s1, scenes, brief, keep)
      dirty == {id \in DOMAIN entities : entities[id] \in {"changed", "renamed", "removed"}}
      spoken(s) == [i \in DOMAIN s.scenes |-> <<s.scenes[i].id, s.scenes[i].narration>>]
      changes == Changes(s0, s1, entities, scenes, brief, stale)
  IN [stale |-> stale,
      targets |-> ShotTargets(s0, s1, stale),
      full |-> stale = Ids(s1.scenes),
      shots |-> ShotStatus(parent, s0, s1, stale, dirty),
      rerendered |-> {id \in Ids(Entities(s1.world)) : "style" \in brief \/ entities[id] \in {"new", "changed"}},
      narrationChanged |-> spoken(s0) # spoken(s1),
      narrationRerender |-> spoken(s0) # spoken(s1) \/ "voice" \in brief,
      changes |-> changes]

-----------------------------------------------------------------------------
(* The preview. *)

\* target_shot_count of the breakdown agent.
TargetShotCount(length) == Max({1, Rounded(length, PerShot)})

\* _predicted_shots: the shots of the next version with their lengths, planned ones nameless.
PredictedShots(story, plan) ==
  LET planned(n) == [i \in 1..n |-> [id |-> <<"planned">>, length |-> PerShot]]
      ofScene(id) == IF id \in plan.stale THEN planned(plan.targets[id]) ELSE ShotsOf(story, id)
      shots == IF plan.full THEN planned(TargetShotCount(story.brief.length))
               ELSE FlattenSeq([i \in DOMAIN story.scenes |-> ofScene(story.scenes[i].id)])
      lengths == NormalizeDurations(Lengths(shots), story.brief.length)
  IN [i \in DOMAIN shots |-> [id |-> shots[i].id, length |-> lengths[i]]]

\* An image of the parent that is not of its world: somebody put it there by hand.
HandAuthored(parent, ref) == ref \in Ids(OfType(parent, "image")) \ RefsOf(parent.world)

\* _predict: the nodes of the parent, done of which are rendered, that need not be rendered again.
PredictedReuse(parent, done, story, plan) ==
  LET entities == ToSet(Entities(story.world))
      refs == {RefOf(e) : e \in {e \in entities : e.id \notin plan.rerendered}} \cap done
      fresh == RefsOf(story.world) \ refs
      carried(x) ==
        /\ x.id \in Ids(parent.assets) \cap done
        /\ plan.shots[x.id] = "kept"
        /\ LET old == ById(parent.assets, x.id)
               live == Where(old.refs, LAMBDA r : r \in RefsOf(story.world) \/ HandAuthored(parent, r))
           IN /\ live # <<>>
              /\ live[1] = old.refs[1] /\ live[1] \notin fresh
              /\ WholeSeconds(x.length) = WholeSeconds(old.length)
      vos == Voiceovers(parent)
  IN refs \cup {x.id : x \in {x \in ToSet(PredictedShots(story, plan)) : carried(x)}}
          \cup (IF ~plan.narrationRerender /\ Len(vos) = 1 THEN {vos[1].id} \cap done ELSE {})

-----------------------------------------------------------------------------
(* Shots planned again. *)

\* _scene_location: the one it names, or where its shots are or were.
SceneLocation(story, scene, parentStory) ==
  LET named == LocationNamed(story.world, scene.location)
      first(s) == SelectInSeq(s.shots, LAMBDA x : x.scene = scene.id)
      known(s) == first(s) # 0 /\ s.shots[first(s)].location \in Ids(story.world.locations)
  IN IF named # 0 THEN story.world.locations[named].id
     ELSE IF known(story) THEN story.shots[first(story)].location
     ELSE IF known(parentStory) THEN parentStory.shots[first(parentStory)].location
     ELSE story.world.locations[1].id

ClampDuration(length) == IF length <= 0 THEN PerShot ELSE Max({100, Min({1500, length})})


\* A scene the agent forgot is one shot of its beat.
BareShot(story, id, parentStory) ==
  [id |-> <<"bare">>, scene |-> id, length |-> PerShot, action |-> ById(story.scenes, id).beat,
   location |-> SceneLocation(story, ById(story.scenes, id), parentStory), subjects |-> <<>>]

\* Whatever the agent answers becomes shots of the scenes asked for, of the world's places
\* and characters, and under ids no shot of the story has.
SanitizeReplanned(answer, story, targets, parentStory) ==
  LET clean(x) ==
        [x EXCEPT !.length = ClampDuration(@),
                  !.location = IF @ \in Ids(story.world.locations) THEN @
                               ELSE SceneLocation(story, ById(story.scenes, x.scene), parentStory),
                  !.subjects = Distinct(Among(@, Ids(story.world.characters)))]
      given(id) == Where(answer, LAMBDA x : x.scene = id)
      shots(id) == IF given(id) = <<>> THEN <<BareShot(story, id, parentStory)>>
                   ELSE [i \in DOMAIN given(id) |-> clean(given(id)[i])]
      free(id) == Where([n \in 1..Len(answer) + Len(story.shots) + 1 |-> <<"rp", id, n>>],
                            LAMBDA rp : rp \notin Ids(story.shots))
  IN [id \in DOMAIN targets |-> [i \in DOMAIN shots(id) |-> [shots(id)[i] EXCEPT !.id = free(id)[i]]]]

\* Mutant: the new shots after all the others.
SpliceAtEnd(story, replanned) ==
  LET rest == Where(story.shots, LAMBDA x : x.scene \notin DOMAIN replanned)
      scenes == Where(story.scenes, LAMBDA scene : scene.id \in DOMAIN replanned)
  IN rest \o FlattenSeq([i \in DOMAIN scenes |-> replanned[scenes[i].id]])

\* In the order of the scenes, those planned again in their new shots.
SpliceShots(story, replanned) ==
  FlattenSeq([i \in DOMAIN story.scenes |->
    LET id == story.scenes[i].id IN
    IF id \in DOMAIN replanned THEN replanned[id] ELSE ShotsOf(story, id)])

MockReplan(story, targets, parentStory) ==
  LET shot(scene, k) ==
        [id |-> <<"mock", scene.id, k>>, scene |-> scene.id, length |-> PerShot,
         action |-> <<"mock", scene.beat, k, targets[scene.id]>>,
         location |-> SceneLocation(story, scene, parentStory), subjects |-> <<>>]
  IN FlattenSeq([i \in DOMAIN story.scenes |->
       IF story.scenes[i].id \in DOMAIN targets
       THEN [k \in 1..targets[story.scenes[i].id] |-> shot(story.scenes[i], k)] ELSE <<>>])

MockPrompt(shot, story) ==
  <<"prompt", shot.action, ById(story.world.locations, shot.location).name, story.brief.style>>

-----------------------------------------------------------------------------
(* carry_over: what of the parent's nodes goes into the assembled ones. *)

\* Mutant: normalised once more on the way.
CarriedNormalized(node, old) ==
  [node EXCEPT !.look = old.look, !.content = Normalized(old.content), !.take = old.take]

Carried(node, old) == [node EXCEPT !.look = old.look, !.content = old.content, !.take = old.take]

CarriedImage(node, parent, story, plan) ==
  LET old == ById(parent.assets, node.id)
      kept == \E e \in ToSet(Entities(story.world)) : RefOf(e) = node.id /\ e.id \notin plan.rerendered
  IN IF node.id \notin Ids(OfType(parent, "image")) THEN node
     ELSE IF kept THEN Carried(node, old) ELSE [node EXCEPT !.look = old.look]

\* refs is what the parent's references come to in the new package.
CarriedVideo(node, shot, parent, plan, images) ==
  LET old == ById(parent.assets, shot.id)
      refs == Where(old.refs, LAMBDA r : r \in images \/ HandAuthored(parent, r))
      continued == Where(node.deps, LAMBDA d : d \notin ToSet(node.refs))
  IN IF shot.id \notin Ids(OfType(parent, "video")) THEN node
     ELSE IF plan.shots[shot.id] # "kept" THEN [node EXCEPT !.look = old.look]
     ELSE IF refs = <<>> THEN Carried(node, old)
     ELSE [Carried(node, old) EXCEPT !.refs = refs, !.deps = refs \o continued]

CarriedNarration(node, parent, story, plan) ==
  LET vos == Voiceovers(parent)
      same == SelectInSeq(vos, LAMBDA a : a.id = node.id)
      old == vos[IF same # 0 THEN same ELSE 1]
      voice == IF story.brief.voice # "none" THEN story.brief.voice ELSE old.voice
      spoken == [node EXCEPT !.look = old.look, !.voice = voice]
  IN IF vos = <<>> THEN node
     ELSE IF plan.narrationChanged \/ Len(vos) # 1 THEN spoken
     ELSE Carried(spoken, old)

CarryOver(pkg, parent, story, plan, shots) ==
  LET images == OfType(pkg, "image")
      videos == OfType(pkg, "video")
      vos == Voiceovers(pkg)
      carried == [i \in DOMAIN videos |-> CarriedVideo(videos[i], shots[i], parent, plan, Ids(images))]
      used == Distinct(FlattenSeq([i \in DOMAIN carried |->
                Where(carried[i].refs, LAMBDA r : r \notin Ids(images))]))
      extra == [i \in DOMAIN used |-> ById(parent.assets, used[i])]
  IN [pkg EXCEPT !.assets =
        [i \in DOMAIN images |-> CarriedImage(images[i], parent, story, plan)]
          \o extra \o carried
          \o [i \in DOMAIN vos |-> CarriedNarration(vos[i], parent, story, plan)]]

\* The prompt of a kept shot is the parent's, one the agent forgot the action.
BuildRevision(parent, story, plan, shots, fresh) ==
  LET kept(x) == x.id \in DOMAIN plan.shots /\ plan.shots[x.id] = "kept" /\ x.id \in Ids(parent.assets)
      prompt(x) == IF kept(x) THEN ById(parent.assets, x.id).content
                   ELSE IF x.id \in DOMAIN fresh THEN fresh[x.id] ELSE x.action
      prompts == [id \in Ids(shots) |-> prompt(ById(shots, id))]
  IN CarryOver(AssemblePackage(story, shots, prompts), parent, story, plan, shots)

\* _dirty: the shots whose prompts are written anew.
Dirty(shots, plan) ==
  Where(shots, LAMBDA x : ~(x.id \in DOMAIN plan.shots /\ plan.shots[x.id] = "kept"))
=============================================================================
