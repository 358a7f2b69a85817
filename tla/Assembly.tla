------------------------------ MODULE Assembly ------------------------------
(***************************************************************************)
(* Where creative intent becomes a graph of provider calls: assemble_package *)
(* of services/planning/planning/assembly.py, the gates validate_package   *)
(* holds it to (libs/validator), and the fingerprints by which a render is *)
(* found again (libs/schema/schema/fingerprint.py).                        *)
(***************************************************************************)
EXTENDS Story

\* Python's round: to the nearest, a tie to the even one.
Rounded(a, b) ==
  LET q == a \div b
      r == 2 * (a % b)
  IN IF r < b \/ (r = b /\ q % 2 = 0) THEN q ELSE q + 1

Total(seq) ==
  LET sum[i \in 0..Len(seq)] == IF i = 0 THEN 0 ELSE sum[i - 1] + seq[i]
  IN sum[Len(seq)]

\* _normalize_durations: rescaled to the target, each rounded on its own.
NormalizeDurations(raw, target) ==
  LET vals == [i \in DOMAIN raw |-> IF raw[i] > 0 THEN raw[i] ELSE 300]
  IN [i \in DOMAIN vals |-> Rounded(vals[i] * target, Total(vals))]

\* whole_seconds: what the video provider is asked for.
WholeSeconds(length) == Rounded(length, 100)

-----------------------------------------------------------------------------
\* normalize_punctuation and fit_to_bytes: a typed text is respelled, an ASCII one is not.
Normalized(text) == IF text[1] = "typed" THEN <<"plain">> \o Tail(text) ELSE text

\* A node that depends on nothing; each kind fills in what it has.
Node(id, type, look, content) ==
  [id |-> id, type |-> type, look |-> look, content |-> content,
   take |-> "none", refs |-> <<>>, deps |-> <<>>, length |-> 0, voice |-> "none"]

\* _build_ref_nodes: one image for each reference, in the words of its first entity.
RefNodes(world, style) ==
  LET entities == Entities(world)
      first(i) == \A j \in 1..i - 1 : RefOf(entities[j]) # RefOf(entities[i])
      node(e) == Node(RefOf(e), "image", "flux", <<"reference", style, e.desc>>)
  IN FlattenSeq([i \in DOMAIN entities |-> IF first(i) THEN <<node(entities[i])>> ELSE <<>>])

\* _resolve_refs: the location first, known subjects once each, and never nothing.
ResolveRefs(shot, world) ==
  LET known == Among(<<shot.location>> \o shot.subjects, Ids(Entities(world)))
      refs == Distinct([k \in DOMAIN known |-> RefOf(ById(Entities(world), known[k]))])
  IN IF refs = <<>> /\ Entities(world) # <<>> THEN <<RefOf(Entities(world)[1])>> ELSE refs

ShotNode(i) == <<"shot", i>>
Narration == <<"narration">>

\* A shot that stays where the one before was continues from it.
Continues(shots, i) == i > 1 /\ shots[i].location = shots[i - 1].location

VideoNode(shots, i, world, length, prompt) ==
  LET refs == ResolveRefs(shots[i], world) IN
  [Node(ShotNode(i), "video", "pixverse", Normalized(prompt)) EXCEPT
     !.refs = refs,
     !.deps = IF Continues(shots, i) THEN Append(refs, ShotNode(i - 1)) ELSE refs,
     !.length = length]

Spoken(scenes) == <<"narration">> \o Where([i \in DOMAIN scenes |-> scenes[i].narration], LAMBDA n : n # 0)

AssemblePackage(story, shots, prompts) ==
  LET lengths == NormalizeDurations([i \in DOMAIN shots |-> shots[i].length], story.brief.length)
      style == IF story.brief.style = "none" THEN "default" ELSE story.brief.style
      voice == IF story.brief.voice = "none" THEN "default" ELSE story.brief.voice
      videos == [i \in DOMAIN shots |-> VideoNode(shots, i, story.world, lengths[i], prompts[shots[i].id])]
      narrator == [Node(Narration, "voiceover", "flash", Spoken(story.scenes)) EXCEPT !.voice = voice]
  IN
  [brief |-> [story.brief EXCEPT !.style = style, !.voice = voice],
   world |-> story.world,
   assets |-> RefNodes(story.world, style) \o videos \o <<narrator>>,
   timeline |-> [i \in DOMAIN shots |-> ShotNode(i)],
   scenes |-> story.scenes,
   shots |-> [i \in DOMAIN shots |-> [shots[i] EXCEPT !.id = ShotNode(i)]]]

-----------------------------------------------------------------------------
(* validate_package. *)

\* _is_acyclic: taking away the nodes without dependencies, round after round, leaves none.
Acyclic(assets) ==
  LET known(a) == ToSet(a.deps) \cap Ids(assets)
      bound(left) == {a \in left : known(a) \cap {b.id : b \in left} # {}}
      left[i \in 0..Len(assets)] == IF i = 0 THEN ToSet(assets) ELSE bound(left[i - 1])
  IN left[Len(assets)] = {}

EdgesResolve(assets) == \A a \in ToSet(assets) : ToSet(a.deps) \subseteq Ids(assets)

\* An image of the package, or one the world names.
RefsResolve(pkg) ==
  \A a \in ToSet(pkg.assets) :
    /\ a.type = "video" => a.refs # <<>>
    /\ ToSet(a.refs) \subseteq RefsOf(pkg.world) \cup Ids(OfType(pkg, "image"))

\* tolerance_s, of a film that has shots.
LengthAddsUp(pkg) ==
  LET videos == OfType(pkg, "video")
      total == Total([i \in DOMAIN videos |-> videos[i].length])
  IN total # 0 => total - pkg.brief.length \in -500..500

ValidPackage(pkg) ==
  EdgesResolve(pkg.assets) /\ Acyclic(pkg.assets) /\ RefsResolve(pkg) /\ LengthAddsUp(pkg)

-----------------------------------------------------------------------------
\* render_inputs, hashed: two nodes with equal ones are the same render.
RenderInputs(a) ==
  [type |-> a.type, look |-> a.look, take |-> a.take, content |-> a.content,
   seconds |-> IF a.type = "video" THEN WholeSeconds(a.length) ELSE 0,
   voice |-> IF a.type = "voiceover" THEN a.voice ELSE "none"]

\* With the start frame, its first image: by its own fingerprint, or by name if it is not a node.
Fingerprint(pkg, a) ==
  LET start == IF a.refs = <<>> THEN <<"none">> ELSE a.refs[1] IN
  <<RenderInputs(a),
    IF a.type # "video" THEN <<"none">>
    ELSE IF start \in Ids(pkg.assets) THEN <<"node", RenderInputs(ById(pkg.assets, start))>>
    ELSE <<"name", start>>>>

Fingerprints(pkg) == [id \in Ids(pkg.assets) |-> Fingerprint(pkg, ById(pkg.assets, id))]

-----------------------------------------------------------------------------
(* What a package is made of (schema/models.py), and what beyond the validator's gates *)
(* assembly gives it and the reader of its story relies on.                            *)

IsAsset(a) ==
  /\ {"id", "type", "look", "content", "take", "refs", "deps", "length", "voice"} \subseteq DOMAIN a
  /\ IsSeq(a.refs) /\ IsSeq(a.deps) /\ a.length \in Int

IsPackage(pkg) ==
  /\ {"brief", "world", "assets", "timeline", "scenes", "shots"} \subseteq DOMAIN pkg
  /\ IsBrief(pkg.brief) /\ IsWorld(pkg.world) /\ IsScript(pkg.scenes)
  /\ IsSeq(pkg.assets) /\ \A a \in ToSet(pkg.assets) : IsAsset(a)
  /\ IsSeq(pkg.timeline) /\ IsBreakdown(pkg.shots)

\* Names a reference image does not have.
NodeNames == {"shot", "narration"}

SoundPackage(pkg) ==
  /\ SoundWorld(pkg.world)
  /\ DistinctIds(pkg.scenes)
  /\ \A x \in ToSet(pkg.shots) :
       /\ x.location \in Ids(pkg.world.locations)
       /\ ToSet(x.subjects) \subseteq Ids(pkg.world.characters)
  /\ DistinctIds(pkg.assets)
  /\ IsInjective(pkg.timeline)
  /\ \A a \in ToSet(pkg.assets) :
       a.type = "image" => a.refs = <<>> /\ a.deps = <<>> /\ a.id[1] \notin NodeNames
  /\ pkg.brief.style # "none" /\ pkg.brief.voice # "none"
  /\ \A a \in ToSet(Voiceovers(pkg)) : a.voice # "none"

\* Only images are called as reference images are, and only an image may be called as the
\* model calls a shot that is yet to be planned, which has no name in the code.
SoundNames(pkg) ==
  \A a \in ToSet(pkg.assets) : a.type # "image" => a.id[1] \notin {"ref", "planned"}
=============================================================================
