------------------------------ MODULE MCStudio ------------------------------
(***************************************************************************)
(* Studio on two small films: one assembled from a script of two scenes,   *)
(* and one from before packages had a narrative.                           *)
(***************************************************************************)
EXTENDS Studio

Ann == [id |-> <<"char", "ann", 1>>, name |-> "ann", desc |-> <<"ann">>]
Den == [id |-> <<"loc", "den", 1>>, name |-> "den", desc |-> <<"den">>]
Bay == [id |-> <<"loc", "bay", 1>>, name |-> "bay", desc |-> <<"bay">>]

MCWorld == [characters |-> <<Ann>>, locations |-> <<Den, Bay>>]
MCBrief == [length |-> 1050, style |-> "plain", voice |-> "calm"]

MCShot(k, scene, place, subjects, length) ==
  [id |-> <<"draft", k>>, scene |-> scene, location |-> place.id, subjects |-> subjects,
   length |-> length, action |-> <<"act", k>>]

MCStory ==
  [brief |-> MCBrief, world |-> MCWorld,
   scenes |-> <<[id |-> 1, beat |-> <<"one">>, location |-> "den", narration |-> 6],
                [id |-> 2, beat |-> <<"two">>, location |-> "bay", narration |-> 3]>>,
   shots |-> <<MCShot(1, 1, Den, <<Ann.id>>, 400), MCShot(2, 1, Den, <<>>, 300), MCShot(3, 2, Bay, <<Ann.id>>, 350)>>]

Planned ==
  AssemblePackage(MCStory, MCStory.shots,
    [id \in Ids(MCStory.shots) |-> MockPrompt(ById(MCStory.shots, id), MCStory)])

\* Clips in another order than on the timeline, and two tracks of narration.
LegacyClip(id, refs) ==
  [Node(id, "video", "kling", <<"typed", "clip">>) EXCEPT !.refs = refs, !.deps = refs, !.length = 525]

LegacyTrack(k) ==
  [Node(<<"voice", k>>, "voiceover", "flash", <<"spoken", k>>) EXCEPT !.voice = "calm"]

Legacy ==
  [brief |-> MCBrief, world |-> MCWorld,
   assets |-> RefNodes(MCWorld, "plain")
     \o <<LegacyClip(<<"clip", 2>>, <<RefOf(Bay), RefOf(Ann)>>), LegacyClip(<<"clip", 1>>, <<RefOf(Ann)>>),
          LegacyTrack(1), LegacyTrack(2)>>,
   timeline |-> <<<<"clip", 1>>, <<"clip", 2>>>>,
   scenes |-> <<>>,
   shots |-> <<>>]

MCFragile == {RefOf(Ann), ShotNode(3)}
MCFilms == {Planned, Legacy}
=============================================================================
