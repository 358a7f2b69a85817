------------------------------- MODULE Studio -------------------------------
(***************************************************************************)
(* The life of one film in the studio: its story is opened, edited by hand *)
(* and by proposals, and revised into the next version, whose renders are  *)
(* found again by their fingerprints when it is approved.                  *)
(*                                                                         *)
(* The jobs of several windows at once are the business of Checkpoint; one *)
(* window works here, on stories in full.                                  *)
(***************************************************************************)
EXTENDS Proposals

CONSTANTS
  Films,     \* the packages a film may start from
  Targets,   \* the lengths a film may be given
  Fragile,   \* the nodes a render of which may fail
  Agents,    \* how the breakdown and prompt agents answer: "mock" or "wild"
  MaxEdits,  \* changes to drafts and packages, in all
  MaxSteps   \* changes and revision jobs together

\* A film starts from a package that assembly left and the validator passed.
ASSUME FilmsAssumption == \A pkg \in Films : IsPackage(pkg) /\ SoundPackage(pkg) /\ ValidPackage(pkg)
\* Its nodes are named as the preview takes them to be.
ASSUME NamesAssumption == \A pkg \in Films : SoundNames(pkg)
ASSUME TargetsAssumption == Targets \subseteq Nat
ASSUME AgentsAssumption == Agents \subseteq {"mock", "wild"}
ASSUME BoundsAssumption == MaxEdits \in Nat /\ MaxSteps \in Nat

VARIABLES
  film,      \* the stored package of the newest version
  approved,  \* whether that version is in production
  done,      \* its nodes that are rendered
  renders,   \* fingerprints of everything rendered for any version
  draft,     \* the story as edited in the studio
  keep,      \* the scenes whose shots the user keeps
  edits,     \* how many changes were made
  jobs,      \* how many jobs have ended
  outcome    \* of the last job: "none", "planned", "agent" or "refused"

vars == <<film, approved, done, renders, draft, keep, edits, jobs, outcome>>

Init ==
  /\ film \in Films
  /\ approved = FALSE /\ done = {} /\ renders = {}
  /\ draft = StoryFromPackage(film)
  /\ keep = {}
  /\ edits = 0 /\ jobs = 0 /\ outcome = "none"

TypeOK ==
  /\ approved \in BOOLEAN
  /\ done \subseteq Ids(film.assets)
  /\ keep \subseteq Nat
  /\ edits \in 0..MaxEdits /\ jobs \in 0..MaxSteps
  /\ outcome \in {"none", "planned", "agent", "refused"}

-----------------------------------------------------------------------------
(* Agents. *)

\* Unknown places, characters and scenes, absurd lengths, ids of the parent's nodes; the
\* first scene is forgotten.
WildShots(story, targets) ==
  LET shot(scene) ==
        [id |-> ShotNode(1), scene |-> scene, length |-> 9900, action |-> <<"wild">>,
         location |-> <<"loc", "nowhere", 1>>,
         subjects |-> <<<<"char", "ann", 1>>, <<"char", "ghost", 1>>, <<"char", "ann", 1>>>>]
      scenes == IdsAmong(story.scenes, DOMAIN targets \ {1})
  IN <<shot(99)>> \o [i \in DOMAIN scenes |-> shot(scenes[i])]

BreakdownAnswer(agent, story, targets, parentStory) ==
  IF agent = "mock" THEN MockReplan(story, targets, parentStory) ELSE WildShots(story, targets)

\* The wild one forgets the first shot.
PromptsAnswer(agent, story, shots) ==
  IF agent = "mock" THEN [id \in Ids(shots) |-> MockPrompt(ById(shots, id), story)]
  ELSE [id \in Ids(IF shots = <<>> THEN shots ELSE Tail(shots)) |-> <<"typed", "by the agent">>]

\* The shots of the next version: those of the draft, and what an agent plans again.
RevisedShots(parentStory, plan, agent) ==
  LET answer == BreakdownAnswer(agent, draft, plan.targets, parentStory)
  IN SpliceShots(draft, SanitizeReplanned(answer, draft, plan.targets, parentStory))

\* _run_mock and _run_live.
RunRevision(parentStory, plan, agent) ==
  LET shots == RevisedShots(parentStory, plan, agent)
  IN BuildRevision(film, draft, plan, shots, PromptsAnswer(agent, draft, Dirty(shots, plan)))

-----------------------------------------------------------------------------
(* Edits. *)

MayEdit == edits < MaxEdits /\ edits + jobs < MaxSteps

EditedBrief(s) ==
  {[s EXCEPT !.brief.style = "noir"], [s EXCEPT !.brief.voice = "deep"]}
    \cup {[s EXCEPT !.brief.length = n] : n \in Targets}

\* An entity nobody refers to may go, any may be described or named anew, and new ones come.
EditedWorld(s) ==
  LET used == UNION {{x.location} \cup ToSet(x.subjects) : x \in ToSet(s.shots)}
      cs == s.world.characters
      ls == s.world.locations
      others(seq) ==
        {[seq EXCEPT ![i].desc = <<"redrawn">>] : i \in DOMAIN seq}
          \cup {[seq EXCEPT ![i].name = "sue"] : i \in DOMAIN seq}
          \cup {RemoveAt(seq, i) : i \in {i \in DOMAIN seq : seq[i].id \notin used}}
  IN {[s EXCEPT !.world.characters = seq] :
        seq \in others(cs) \cup {Append(cs, [id |-> UniqueEntityId("char", "bob", Ids(cs)), name |-> "bob", desc |-> <<"bob">>])}}
     \cup {[s EXCEPT !.world.locations = seq] : seq \in others(ls) \ {<<>>}}

EditedScript(s) ==
  LET scenes == s.scenes
      without(i) == [s EXCEPT !.scenes = RemoveAt(@, i),
                              !.shots = Where(@, LAMBDA x : x.scene # scenes[i].id)]
      new == [id |-> NextSceneId(Ids(scenes)), beat |-> <<"new">>, location |-> "elsewhere", narration |-> 4]
  IN {[s EXCEPT !.scenes[i].beat = <<"rewritten">>] : i \in DOMAIN scenes}
     \cup {[s EXCEPT !.scenes[i].narration = 5] : i \in DOMAIN scenes}
     \cup {without(i) : i \in {i \in DOMAIN scenes : Len(scenes) > 1}}
     \cup {[s EXCEPT !.scenes = Append(@, new)], [s EXCEPT !.scenes = Reverse(@)]}

EditedShots(s) ==
  LET shots == s.shots
      to(seq) == [s EXCEPT !.shots = seq]
      new(x) == [x EXCEPT !.id = <<"new", x.id>>, !.subjects = <<>>]
  IN {to([shots EXCEPT ![i].action = <<"rewritten">>]) : i \in DOMAIN shots}
     \cup {to([shots EXCEPT ![i].length = 500]) : i \in DOMAIN shots}
     \cup {to([shots EXCEPT ![i].scene = scene]) : i \in DOMAIN shots, scene \in Ids(s.scenes)}
     \cup {to(RemoveAt(shots, i)) : i \in DOMAIN shots}
     \cup {to(Append(shots, new(x))) : x \in {x \in ToSet(shots) : <<"new", x.id>> \notin Ids(shots)}}

Edits(s) == EditedBrief(s) \cup EditedWorld(s) \cup EditedScript(s) \cup EditedShots(s)

\* One change of the draft in the studio's forms.
Edit ==
  /\ MayEdit
  /\ draft' \in Edits(draft) \ {draft}
  /\ edits' = edits + 1
  /\ UNCHANGED <<film, approved, done, renders, keep, jobs, outcome>>

Keep ==
  /\ MayEdit
  /\ \E id \in Ids(draft.scenes) \ keep : keep' = keep \cup {id}
  /\ edits' = edits + 1
  /\ UNCHANGED <<film, approved, done, renders, draft, jobs, outcome>>

\* Worlds with an entity gone, one told twice, strangers, and an id of the other kind.
ProposedWorlds(world) ==
  LET stranger == [id |-> <<"loc", "den", 1>>, name |-> "den", desc |-> <<"wild">>]
      again(seq) == [i \in DOMAIN seq |-> [seq[i] EXCEPT !.desc = <<"reimagined">>]]
  IN {[characters |-> <<>>, locations |-> <<>>],
      [characters |-> again(world.characters) \o <<stranger>>,
       locations |-> Reverse(world.locations) \o <<Head(world.locations), stranger>>]}

ProposedScripts(scenes) ==
  {[i \in DOMAIN scenes |-> [scenes[i] EXCEPT !.beat = <<"reimagined">>]] \o <<scenes[1]>>,
   <<[scenes[1] EXCEPT !.id = 99]>>}

\* propose_story: the model answers for a stage, in whole or for some of it.
Proposals(parentStory, s) ==
  {MergeWorld(s, w, targets) :
     w \in ProposedWorlds(s.world), targets \in {{}, Ids(s.world.locations)}}
  \cup {MergeScript(s, sc, targets) :
     sc \in ProposedScripts(s.scenes), targets \in {{}, {s.scenes[1].id}}}
  \cup (LET counts == ShotTargets(parentStory, s, {s.scenes[1].id}) IN
        {ProposeShots(parentStory, s, counts, BreakdownAnswer(agent, s, counts, parentStory)) : agent \in Agents})

AcceptProposal ==
  /\ MayEdit
  /\ draft' \in Proposals(StoryFromPackage(film), draft)
  /\ edits' = edits + 1
  /\ UNCHANGED <<film, approved, done, renders, keep, jobs, outcome>>

\* The image of a hand-written node.
ByHand == Node(<<"image", "hand">>, "image", "flux", <<"typed", "image">>)

\* What update_package takes before the approval: a prompt, another image before a shot's
\* references, the user's or the world's, another length, words for the narrator.
HandWritten(pkg) ==
  LET assets == pkg.assets
      videos == {i \in DOMAIN assets : assets[i].type = "video"}
      spoken == {i \in DOMAIN assets : assets[i].type = "voiceover"}
      first(seq, image) == <<image>> \o Where(seq, LAMBDA id : id # image)
      pictured(i, image) ==
        [assets EXCEPT ![i].refs = first(@, image), ![i].deps = first(@, image)]
      with(seq) == [pkg EXCEPT !.assets = seq]
  IN {with([assets EXCEPT ![i].content = <<"typed", "prompt">>]) : i \in videos}
     \cup {with([assets EXCEPT ![i].length = @ + 100]) : i \in videos}
     \cup {with([assets EXCEPT ![i].content = <<"typed", "words">>]) : i \in spoken}
     \cup {with(pictured(i, RefOf(Last(pkg.world.locations)))) : i \in videos}
     \cup {with(<<ByHand>> \o pictured(i, ByHand.id)) : i \in {i \in videos : ByHand.id \notin Ids(assets)}}

HandWrite ==
  /\ MayEdit /\ ~approved
  /\ \E pkg \in HandWritten(film) :
       /\ ValidPackage(pkg)
       /\ film' = pkg
       /\ draft' = StoryFromPackage(pkg)
  /\ keep' = {}
  /\ edits' = edits + 1
  /\ UNCHANGED <<approved, done, renders, jobs, outcome>>

-----------------------------------------------------------------------------
(* Versions. *)

\* match: the nodes of a package that have been rendered for some version.
Matched(pkg) == {id \in Ids(pkg.assets) : Fingerprints(pkg)[id] \in renders}

\* The nodes that fail, or wait for one that does; what is reused does not wait.
Lost(pkg, failed) ==
  LET round(lost, i) ==
        lost \cup ({a.id : a \in {a \in ToSet(pkg.assets) : ToSet(a.deps) \cap lost # {}}} \ Matched(pkg))
  IN FoldLeft(round, (failed \cap Ids(pkg.assets)) \ Matched(pkg), pkg.assets)

\* The version is approved, reuses what it can and renders the rest, as far as it gets.
\* Nothing is asked of a version no job may follow.
Produce ==
  /\ ~approved /\ edits + jobs < MaxSteps
  /\ approved' = TRUE
  /\ \E failed \in {{}} \cup {{id} : id \in Fragile} : done' = Ids(film.assets) \ Lost(film, failed)
  /\ renders' = renders \cup {Fingerprints(film)[id] : id \in done'}
  /\ UNCHANGED <<film, draft, keep, edits, jobs, outcome>>

Plan == PlanRevision(film, StoryFromPackage(film), draft, keep)

\* Create_revision and its job: an approved version gets a successor, a draft is replaced.
Revise(agent) ==
  LET built == RunRevision(StoryFromPackage(film), Plan, agent) IN
  /\ edits + jobs < MaxSteps
  /\ ValidStory(draft)
  /\ approved \/ HasChanges(Plan)
  /\ jobs' = jobs + 1
  /\ IF ValidPackage(built)
     THEN /\ film' = built
          /\ draft' = StoryFromPackage(built)
          /\ keep' = {}
          /\ approved' = FALSE /\ done' = {}
          /\ outcome' = IF agent = "mock" \/ Plan.stale = {} THEN "planned" ELSE "agent"
     ELSE outcome' = "refused" /\ UNCHANGED <<film, draft, keep, approved, done>>
  /\ UNCHANGED <<renders, edits>>

Next ==
  \/ Edit \/ Keep \/ AcceptProposal
  \/ HandWrite
  \/ Produce
  \/ \E agent \in Agents : Revise(agent)

Spec == Init /\ [][Next]_vars

-----------------------------------------------------------------------------
\* Whatever a model answers and a user edits, the draft refers to what it has, the stored
\* package satisfies the validator, and no job fails on what carry_over and assembly built.
StaysSound ==
  /\ RefersToItself(draft)
  /\ ValidPackage(film)
  /\ outcome # "refused"

Revised == jobs' # jobs /\ outcome' # "refused"

\* A job does what the studio showed before it (_predict against carry_over, assembly and
\* match): each render said to be reused is one of the new version, which finds at least as
\* many.  Not promised where an agent chooses how many shots there are and how long.
PreviewIsKept ==
  [][Revised /\ approved /\ outcome' = "planned" =>
       LET reused == PredictedReuse(film, done, draft, Plan)
           prints == Fingerprints(film')
       IN /\ \A id \in reused : \E new \in DOMAIN prints : prints[new] = Fingerprints(film)[id]
          /\ Cardinality(reused) <= Cardinality({id \in DOMAIN prints : prints[id] \in renders})]_vars

ToldIn(s, id) == LET shots == ShotsOf(s, id) IN [i \in DOMAIN shots |-> PromptInputs(shots[i])]
PlaceOf(s, x) == SelectInSeq(s.scenes, LAMBDA scene : scene.id = x.scene)

\* t is the story s, the scenes of stale told anew.
TellsStory(t, s, stale) ==
  /\ t.brief = s.brief /\ t.world = s.world /\ t.scenes = s.scenes
  /\ \A id \in Ids(s.scenes) :
       IF id \in stale THEN ToldIn(t, id) # <<>> ELSE ToldIn(t, id) = ToldIn(s, id)
  /\ \A i, j \in DOMAIN t.shots : i < j => PlaceOf(s, t.shots[i]) <= PlaceOf(s, t.shots[j])

\* A new version tells the story that was submitted: its world, its scenes in their order,
\* the shots of each scene as they were edited, and some for a scene planned again.
StoryIsKept == [][Revised => TellsStory(draft', draft, Plan.stale)]_vars
=============================================================================
