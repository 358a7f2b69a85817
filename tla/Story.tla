------------------------------- MODULE Story -------------------------------
(***************************************************************************)
(* The editable stages of a film: what services/planning/planning/story.py *)
(* reads out of a package and refuses in a draft.                          *)
(*                                                                         *)
(* An entity is [id, name, desc], a scene [id, beat, location, narration], *)
(* a shot [id, scene, action, length, location, subjects]; a shot type is  *)
(* part of the action, a heading part of the beat.  An id is a tuple of    *)
(* what it is made from, a text a tuple of what it says, a narration its   *)
(* number of words; lengths are in hundredths of a second.  An asset is    *)
(* [id, type, look, content, take, refs, deps, length, voice]: look is its *)
(* provider and format, content its prompt or its text.  Each entity has   *)
(* one reference image of its own.  Costs, titles and loglines are left    *)
(* out, and so is the premise of a film with scenes.                       *)
(***************************************************************************)
EXTENDS Integers, Sequences, FiniteSets, SequencesExt

IsSeq(s) == s \in Seq(ToSet(s))

Entities(world) == world.characters \o world.locations
Ids(seq) == {seq[i].id : i \in DOMAIN seq}

\* The element with an id; only used where there is one.
ById(seq, id) == seq[SelectInSeq(seq, LAMBDA x : x.id = id)]

\* The elements of a sequence at some places, of some kind or in some set, in their order:
\* SelectSeq, in a form the provers can expand.
Picked(seq, places) ==
  LET nth(k) == CHOOSE i \in places : Cardinality({j \in places : j <= i}) = k
  IN [k \in 1..Cardinality(places) |-> seq[nth(k)]]
Where(seq, Test(_)) == Picked(seq, {i \in DOMAIN seq : Test(seq[i])})
Among(seq, set) == Where(seq, LAMBDA x : x \in set)

\* Each element once, where it first occurs.
Distinct(seq) == Picked(seq, {i \in DOMAIN seq : \A j \in 1..i - 1 : seq[j] # seq[i]})

OfType(pkg, type) == Where(pkg.assets, LAMBDA a : a.type = type)
Voiceovers(pkg) == OfType(pkg, "voiceover")

\* ref_node_id: the image assembly mints for an entity.
RefOf(e) == <<"ref", e.id>>
RefsOf(world) == {RefOf(e) : e \in ToSet(Entities(world))}

ShotsOf(story, scene) == Where(story.shots, LAMBDA x : x.scene = scene)

-----------------------------------------------------------------------------
\* In the order of the timeline, those it does not have last.
Videos(pkg) ==
  LET videos == OfType(pkg, "video") IN
  FlattenSeq([i \in DOMAIN pkg.timeline |-> Where(videos, LAMBDA a : a.id = pkg.timeline[i])])
    \o Where(videos, LAMBDA a : a.id \notin ToSet(pkg.timeline))

LocationNamed(world, name) == SelectInSeq(world.locations, LAMBDA l : l.name = name)

\* Location and subjects of a shot nobody has tagged, from the images it refers to.
InferTags(asset, world, sceneLocation) ==
  LET pictured(entities) ==
        LET known == Among(asset.refs, {RefOf(e) : e \in ToSet(entities)}) IN
        Distinct([k \in DOMAIN known |->
                    entities[SelectInSeq(entities, LAMBDA e : RefOf(e) = known[k])].id])
      places == pictured(world.locations)
      named == LocationNamed(world, sceneLocation)
  IN
  [location |-> IF places # <<>> THEN places[1]
                ELSE world.locations[IF named # 0 THEN named ELSE 1].id,
   subjects |-> pictured(world.characters)]

\* A package without a narrative is one scene, told by what is spoken.
ScenesOf(pkg) ==
  IF pkg.scenes # <<>> THEN pkg.scenes
  ELSE <<[id |-> 1, beat |-> <<"premise">>, location |-> pkg.world.locations[1].name, narration |-> 9]>>

\* story_from_package: pkg.shots are the narrative's tags, by node id.
StoryFromPackage(pkg) ==
  LET scenes == ScenesOf(pkg)
      vos == Voiceovers(pkg)
      shot(asset) ==
        LET tagged == asset.id \in Ids(pkg.shots)
            ns == ById(pkg.shots, asset.id)
            scene == IF tagged /\ ns.scene \in Ids(scenes) THEN ns.scene ELSE scenes[1].id
            tags == IF tagged THEN [location |-> ns.location, subjects |-> ns.subjects]
                    ELSE InferTags(asset, pkg.world, ById(scenes, scene).location)
        IN [id |-> asset.id, scene |-> scene, length |-> asset.length,
            action |-> IF tagged THEN ns.action ELSE <<"untold">>,
            location |-> tags.location, subjects |-> tags.subjects]
      videos == Videos(pkg)
  IN
  [brief |-> [pkg.brief EXCEPT !.voice = IF vos # <<>> THEN vos[1].voice ELSE @],
   world |-> pkg.world,
   scenes |-> scenes,
   shots |-> [i \in DOMAIN videos |-> shot(videos[i])]]

-----------------------------------------------------------------------------
MinShot == 50     \* MIN_SHOT_S
MaxShot == 1500   \* MAX_SHOT_S
MinFilm == 1000   \* MIN_FILM_S
MaxFilm == 30000  \* MAX_FILM_S

DistinctIds(seq) == IsInjective([i \in DOMAIN seq |-> seq[i].id])

SoundWorld(world) ==
  /\ DistinctIds(Entities(world))
  /\ \A c \in ToSet(world.characters) : c.id[1] = "char"
  /\ \A l \in ToSet(world.locations) : l.id[1] = "loc"
  /\ world.locations # <<>>

\* What validate_story asks of ids and references; texts are never empty here.
RefersToItself(story) ==
  /\ SoundWorld(story.world)
  /\ DistinctIds(story.scenes)
  /\ story.scenes # <<>>
  /\ DistinctIds(story.shots)
  /\ \A s \in ToSet(story.shots) :
       /\ s.scene \in Ids(story.scenes)
       /\ s.location \in Ids(story.world.locations)
       /\ ToSet(s.subjects) \subseteq Ids(story.world.characters)

ValidStory(story) ==
  /\ RefersToItself(story)
  /\ story.brief.length \in MinFilm..MaxFilm
  /\ \A s \in ToSet(story.shots) : s.length \in MinShot..MaxShot

-----------------------------------------------------------------------------
(* What stories and packages are made of (planning/models.py, schema/models.py). *)

IsBrief(brief) ==
  /\ brief = [length |-> brief.length, style |-> brief.style, voice |-> brief.voice]
  /\ brief.length \in Int

IsWorld(world) ==
  /\ {"characters", "locations"} \subseteq DOMAIN world
  /\ IsSeq(world.characters) /\ IsSeq(world.locations)
  /\ \A e \in ToSet(Entities(world)) : {"id", "name", "desc"} \subseteq DOMAIN e

IsScript(scenes) ==
  /\ IsSeq(scenes)
  /\ \A s \in ToSet(scenes) :
       {"id", "beat", "location", "narration"} \subseteq DOMAIN s /\ s.id \in Nat /\ s.narration \in Nat

IsBreakdown(shots) ==
  /\ IsSeq(shots)
  /\ \A x \in ToSet(shots) :
       /\ {"id", "scene", "action", "length", "location", "subjects"} \subseteq DOMAIN x
       /\ x.length \in Int /\ IsSeq(x.subjects)

IsStory(story) ==
  /\ {"brief", "world", "scenes", "shots"} \subseteq DOMAIN story
  /\ IsBrief(story.brief) /\ IsWorld(story.world) /\ IsScript(story.scenes) /\ IsBreakdown(story.shots)
=============================================================================
