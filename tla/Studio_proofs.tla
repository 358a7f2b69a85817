---------------------------- MODULE Studio_proofs ----------------------------
(***************************************************************************)
(* That what the studio keeps stays sound: whatever users write, whatever  *)
(* models propose and whatever agents answer, the draft refers to what it  *)
(* has, the stored package satisfies the validator, each version tells the *)
(* story that was submitted and reuses what its preview said.              *)
(***************************************************************************)
EXTENDS Studio, Story_proofs

-----------------------------------------------------------------------------
(* Edits keep a story sound. *)

\* Another brief.
LEMMA WithBrief ==
  ASSUME NEW story, GoodStory(story), NEW brief, IsBrief(brief)
  PROVE  GoodStory([story EXCEPT !.brief = brief])
<1> DEFINE new == [story EXCEPT !.brief = brief]
<1>1. /\ new.world = story.world /\ new.brief = brief /\ new.scenes = story.scenes
      /\ new.shots = story.shots /\ DOMAIN new = DOMAIN story
  BY DEF GoodStory
<1> HIDE DEF new
<1>2. GoodStory(new)
  BY <1>1 DEF GoodStory
<1> QED
  BY <1>2 DEF new

\* Any edit of the brief.
LEMMA EditedBriefIsSound ==
  ASSUME NEW s, GoodStory(s), NEW t \in EditedBrief(s)
  PROVE  GoodStory(t)
<1> DEFINE b == s.brief
<1>1. b = [length |-> b.length, style |-> b.style, voice |-> b.voice] /\ b.length \in Int
  BY DEF GoodStory, IsBrief
<1>2. Targets \subseteq Int
  BY TargetsAssumption
<1>3. \/ t = [s EXCEPT !.brief = [b EXCEPT !.style = "noir"]]
      \/ t = [s EXCEPT !.brief = [b EXCEPT !.voice = "deep"]]
      \/ \E n \in Targets : t = [s EXCEPT !.brief = [b EXCEPT !.length = n]]
  BY DEF EditedBrief
<1> HIDE DEF b
<1>4. IsBrief([b EXCEPT !.style = "noir"])
  <2> DEFINE c == [b EXCEPT !.style = "noir"]
  <2>1. c = [length |-> b.length, style |-> "noir", voice |-> b.voice]
    BY <1>1
  <2> HIDE DEF c
  <2>2. IsBrief(c)
    BY <1>1, <2>1 DEF IsBrief
  <2> QED
    BY <2>2 DEF c
<1>5. IsBrief([b EXCEPT !.voice = "deep"])
  <2> DEFINE c == [b EXCEPT !.voice = "deep"]
  <2>1. c = [length |-> b.length, style |-> b.style, voice |-> "deep"]
    BY <1>1
  <2> HIDE DEF c
  <2>2. IsBrief(c)
    BY <1>1, <2>1 DEF IsBrief
  <2> QED
    BY <2>2 DEF c
<1>6. ASSUME NEW n \in Targets PROVE IsBrief([b EXCEPT !.length = n])
  <2> DEFINE c == [b EXCEPT !.length = n]
  <2>1. c = [length |-> n, style |-> b.style, voice |-> b.voice]
    BY <1>1
  <2> HIDE DEF c
  <2>2. IsBrief(c)
    BY <1>2, <2>1 DEF IsBrief
  <2> QED
    BY <2>2 DEF c
<1> DEFINE noir == [b EXCEPT !.style = "noir"]
           deep == [b EXCEPT !.voice = "deep"]
           long(n) == [b EXCEPT !.length = n]
<1>7. \E c : IsBrief(c) /\ t = [s EXCEPT !.brief = c]
  <2>1. CASE t = [s EXCEPT !.brief = noir]
    BY <1>4, <2>1
  <2>2. CASE t = [s EXCEPT !.brief = deep]
    BY <1>5, <2>2
  <2>3. ASSUME NEW n \in Targets, t = [s EXCEPT !.brief = long(n)] PROVE \E c : IsBrief(c) /\ t = [s EXCEPT !.brief = c]
    BY <1>6, <2>3
  <2> QED
    BY <1>3, <2>1, <2>2, <2>3
<1> QED
  BY <1>7, WithBrief

\* The edits of one kind of entities, of which some are used.
OtherCasts(seq, used) ==
  {[seq EXCEPT ![i].desc = <<"redrawn">>] : i \in DOMAIN seq}
    \cup {[seq EXCEPT ![i].name = "sue"] : i \in DOMAIN seq}
    \cup {RemoveAt(seq, i) : i \in {i \in DOMAIN seq : seq[i].id \notin used}}

\* They are a cast, with all that is used.
LEMMA OtherCastsAre ==
  ASSUME NEW seq, NEW kind, IsCast(seq, kind), NEW used, NEW t \in OtherCasts(seq, used)
  PROVE  IsCast(t, kind) /\ Ids(seq) \cap used \subseteq Ids(t)
<1> DEFINE n == Len(seq)
<1>1. IsSeq(seq) /\ DistinctIds(seq)
      /\ \A e \in ToSet(seq) : {"id", "name", "desc"} \subseteq DOMAIN e /\ e.id[1] = kind
  BY DEF IsCast
<1>2. n \in Nat /\ DOMAIN seq = 1..n /\ \A i \in 1..n : seq[i] \in ToSet(seq)
  BY <1>1, SeqFacts
<1>3. ASSUME NEW i \in 1..n, NEW e, t = [seq EXCEPT ![i] = e],
             {"id", "name", "desc"} \subseteq DOMAIN e, e.id = seq[i].id
      PROVE  IsCast(t, kind) /\ Ids(t) = Ids(seq)
  <2>1. t = [j \in DOMAIN seq |-> t[j]]
    BY <1>2, <1>3
  <2>2. \A j \in 1..n : t[j] = IF j = i THEN e ELSE seq[j]
    BY <1>2, <1>3
  <2>3. \A j \in 1..n : {"id", "name", "desc"} \subseteq DOMAIN t[j] /\ t[j].id = seq[j].id
    BY <1>1, <1>2, <1>3, <2>2
  <2> QED
    BY <2>1, <2>3, Recast
<1>4. CASE \E i \in DOMAIN seq : t = [seq EXCEPT ![i].desc = <<"redrawn">>]
  <2>1. PICK i \in 1..n : t = [seq EXCEPT ![i].desc = <<"redrawn">>]
    BY <1>2, <1>4
  <2> DEFINE x == seq[i]
             e == [x EXCEPT !.desc = <<"redrawn">>]
  <2>2. t = [seq EXCEPT ![i] = e]
    BY <2>1
  <2>3. {"id", "name", "desc"} \subseteq DOMAIN x
    BY <1>1, <1>2
  <2> HIDE DEF x
  <2>4. {"id", "name", "desc"} \subseteq DOMAIN e /\ e.id = x.id
    BY <2>3
  <2> HIDE DEF e
  <2>5. IsCast(t, kind) /\ Ids(t) = Ids(seq)
    BY <1>3, <2>2, <2>4 DEF x
  <2> QED
    BY <2>5
<1>5. CASE \E i \in DOMAIN seq : t = [seq EXCEPT ![i].name = "sue"]
  <2>1. PICK i \in 1..n : t = [seq EXCEPT ![i].name = "sue"]
    BY <1>2, <1>5
  <2> DEFINE x == seq[i]
             e == [x EXCEPT !.name = "sue"]
  <2>2. t = [seq EXCEPT ![i] = e]
    BY <2>1
  <2>3. {"id", "name", "desc"} \subseteq DOMAIN x
    BY <1>1, <1>2
  <2> HIDE DEF x
  <2>4. {"id", "name", "desc"} \subseteq DOMAIN e /\ e.id = x.id
    BY <2>3
  <2> HIDE DEF e
  <2>5. IsCast(t, kind) /\ Ids(t) = Ids(seq)
    BY <1>3, <2>2, <2>4 DEF x
  <2> QED
    BY <2>5
<1>6. CASE \E i \in DOMAIN seq : seq[i].id \notin used /\ t = RemoveAt(seq, i)
  <2>1. PICK i \in 1..n : seq[i].id \notin used /\ t = RemoveAt(seq, i)
    BY <1>2, <1>6
  <2>2. /\ IsSeq(t) /\ ToSet(t) \subseteq ToSet(seq) /\ DistinctIds(t)
        /\ \A k \in 1..n : k # i => seq[k] \in ToSet(t)
    BY <1>1, <2>1, Removed
  <2>3. IsCast(t, kind)
    BY <1>1, <2>2 DEF IsCast
  <2>4. Ids(t) = {x.id : x \in ToSet(t)} /\ Ids(seq) = {seq[k].id : k \in 1..n}
    BY <1>1, <2>2, IdsIs
  <2> QED
    BY <2>1, <2>2, <2>3, <2>4
<1> QED
  BY <1>4, <1>5, <1>6 DEF OtherCasts

\* Any edit of the world: nothing a shot refers to goes.
LEMMA EditedWorldIsSound ==
  ASSUME NEW s, GoodStory(s), NEW t \in EditedWorld(s)
  PROVE  GoodStory(t)
<1> DEFINE used == UNION {{x.location} \cup ToSet(x.subjects) : x \in ToSet(s.shots)}
           cs == s.world.characters
           ls == s.world.locations
           bob == [id |-> UniqueEntityId("char", "bob", Ids(cs)), name |-> "bob", desc |-> <<"bob">>]
           world == s.world
<1>1. GoodWorld(world) /\ GoodBreakdown(s.shots, world, s.scenes)
  BY DEF GoodStory
<1>2. /\ {"characters", "locations"} \subseteq DOMAIN world
      /\ IsCast(cs, "char") /\ IsCast(ls, "loc") /\ ls # <<>>
  BY <1>1, GoodWorldIs
<1>3. \A x \in ToSet(s.shots) :
        /\ x.location \in Ids(ls) \cap used
        /\ ToSet(x.subjects) \subseteq Ids(cs) \cap used
  BY <1>1 DEF GoodBreakdown, GoodShot
<1>4. \/ \E seq \in OtherCasts(cs, used) \cup {Append(cs, bob)} : t = [s EXCEPT !.world = [world EXCEPT !.characters = seq]]
      \/ \E seq \in OtherCasts(ls, used) \ {<<>>} : t = [s EXCEPT !.world = [world EXCEPT !.locations = seq]]
  BY Zenon DEF EditedWorld, OtherCasts
<1> HIDE DEF used
<1>5. ASSUME NEW seq, IsCast(seq, "char"), Ids(cs) \cap used \subseteq Ids(seq),
             t = [s EXCEPT !.world = [world EXCEPT !.characters = seq]]
      PROVE  GoodStory(t)
  <2> DEFINE w == [world EXCEPT !.characters = seq]
  <2>1. w.characters = seq /\ w.locations = ls /\ DOMAIN w = DOMAIN world
    BY <1>2
  <2> HIDE DEF w
  <2>2. GoodWorld(w)
    BY <1>2, <1>5, <2>1, GoodWorldIs
  <2>3. \A x \in ToSet(s.shots) :
          x.location \in Ids(w.locations) /\ ToSet(x.subjects) \subseteq Ids(w.characters)
    BY <1>3, <1>5, <2>1
  <2>4. GoodStory([s EXCEPT !.world = w])
    BY <2>2, <2>3, WithWorld
  <2> QED
    BY <1>5, <2>4 DEF w
<1>6. ASSUME NEW seq, IsCast(seq, "loc"), seq # <<>>, Ids(ls) \cap used \subseteq Ids(seq),
             t = [s EXCEPT !.world = [world EXCEPT !.locations = seq]]
      PROVE  GoodStory(t)
  <2> DEFINE w == [world EXCEPT !.locations = seq]
  <2>1. w.characters = cs /\ w.locations = seq /\ DOMAIN w = DOMAIN world
    BY <1>2
  <2> HIDE DEF w
  <2>2. GoodWorld(w)
    BY <1>2, <1>6, <2>1, GoodWorldIs
  <2>3. \A x \in ToSet(s.shots) :
          x.location \in Ids(w.locations) /\ ToSet(x.subjects) \subseteq Ids(w.characters)
    BY <1>3, <1>6, <2>1
  <2>4. GoodStory([s EXCEPT !.world = w])
    BY <2>2, <2>3, WithWorld
  <2> QED
    BY <1>6, <2>4 DEF w
<1>7. ASSUME NEW seq \in OtherCasts(cs, used) PROVE IsCast(seq, "char") /\ Ids(cs) \cap used \subseteq Ids(seq)
  <2> HIDE DEF cs
  <2> QED
    BY <1>2, OtherCastsAre
<1>8. ASSUME NEW seq \in OtherCasts(ls, used) PROVE IsCast(seq, "loc") /\ Ids(ls) \cap used \subseteq Ids(seq)
  <2> HIDE DEF ls
  <2> QED
    BY <1>2, OtherCastsAre
<1>9. IsCast(Append(cs, bob), "char") /\ Ids(cs) \cap used \subseteq Ids(Append(cs, bob))
  <2> HIDE DEF cs
  <2>1. IsSeq(cs) /\ DistinctIds(cs)
    BY <1>2 DEF IsCast
  <2>2. IsFiniteSet(Ids(cs))
    BY <2>1, IdsAreFinite
  <2> DEFINE id == UniqueEntityId("char", "bob", Ids(cs))
  <2>3. id \notin Ids(cs) /\ id[1] = "char"
    BY <2>2, UniqueEntityIdIs
  <2> HIDE DEF id
  <2>4. bob.id = id /\ {"id", "name", "desc"} \subseteq DOMAIN bob
    BY DEF id
  <2> HIDE DEF bob
  <2>5. IsSeq(Append(cs, bob)) /\ ToSet(Append(cs, bob)) = ToSet(cs) \cup {bob}
    BY <2>1, Appended
  <2>6. Ids(Append(cs, bob)) = Ids(cs) \cup {bob.id} /\ DistinctIds(Append(cs, bob))
    BY <2>1, <2>3, <2>4, AppendedIds
  <2> QED
    BY <1>2, <2>3, <2>4, <2>5, <2>6 DEF IsCast
<1> HIDE DEF cs, ls, bob
<1> QED
  BY <1>4, <1>5, <1>6, <1>7, <1>8, <1>9

\* A script one of whose scenes is told otherwise.
LEMMA Rewritten ==
  ASSUME NEW scenes, GoodScript(scenes), NEW i \in 1..Len(scenes), NEW e,
         {"id", "beat", "location", "narration"} \subseteq DOMAIN e, e.id = scenes[i].id, e.narration \in Nat,
         NEW t, t = [scenes EXCEPT ![i] = e]
  PROVE  GoodScript(t) /\ Ids(t) = Ids(scenes)
<1> DEFINE n == Len(scenes)
<1>1. IsSeq(scenes) /\ DistinctIds(scenes) /\ scenes # <<>>
      /\ \A x \in ToSet(scenes) :
           {"id", "beat", "location", "narration"} \subseteq DOMAIN x /\ x.id \in Nat /\ x.narration \in Nat
  BY DEF GoodScript, IsScript
<1>2. n \in Nat /\ DOMAIN scenes = 1..n /\ \A j \in 1..n : scenes[j] \in ToSet(scenes)
  BY <1>1, SeqFacts
<1>3. t = [j \in 1..n |-> t[j]] /\ \A j \in 1..n : t[j] = IF j = i THEN e ELSE scenes[j]
  BY <1>2
<1>4. IsSeq(t) /\ Len(t) = n
  BY <1>2, <1>3, SeqMade
<1>5. \A j \in 1..n : t[j].id = scenes[j].id
  BY <1>3
<1>6. Ids(t) = Ids(scenes) /\ DistinctIds(t)
  BY <1>1, <1>4, <1>5, SameIds
<1>7. \A x \in ToSet(t) : \E j \in 1..n : x = t[j]
  <2>1. IsSeq(t)
    BY <1>4
  <2>2. \A x \in ToSet(t) : \E j \in 1..Len(t) : t[j] = x
    BY <2>1, SeqFacts, ZenonT(30)
  <2> QED
    BY <1>4, <2>2
<1>8. \A x \in ToSet(t) :
        {"id", "beat", "location", "narration"} \subseteq DOMAIN x /\ x.id \in Nat /\ x.narration \in Nat
  BY <1>1, <1>2, <1>3, <1>7
<1>9. t # <<>>
  <2>1. n # 0
    BY <1>2
  <2> QED
    BY <1>4, <2>1, EmptyIsSeq
<1> QED
  BY <1>4, <1>6, <1>8, <1>9 DEF GoodScript, IsScript

\* A script without one of several scenes.
LEMMA SceneRemoved ==
  ASSUME NEW scenes, GoodScript(scenes), NEW i \in 1..Len(scenes), Len(scenes) > 1
  PROVE  GoodScript(RemoveAt(scenes, i)) /\ Ids(scenes) \ {scenes[i].id} \subseteq Ids(RemoveAt(scenes, i))
<1> DEFINE n == Len(scenes)
           t == RemoveAt(scenes, i)
<1>1. IsSeq(scenes) /\ DistinctIds(scenes)
      /\ \A x \in ToSet(scenes) :
           {"id", "beat", "location", "narration"} \subseteq DOMAIN x /\ x.id \in Nat /\ x.narration \in Nat
  BY DEF GoodScript, IsScript
<1>2. n \in Nat
  BY <1>1, SeqFacts
<1>3. /\ IsSeq(t) /\ Len(t) = n - 1 /\ ToSet(t) \subseteq ToSet(scenes)
      /\ (\A k \in 1..n : k # i => scenes[k] \in ToSet(t)) /\ DistinctIds(t)
  BY <1>1, Removed
<1> HIDE DEF t
<1>4. t # <<>>
  BY <1>2, <1>3, EmptyIsSeq
<1>5. Ids(t) = {x.id : x \in ToSet(t)} /\ Ids(scenes) = {scenes[k].id : k \in 1..n}
  BY <1>1, <1>3, IdsIs
<1>6. Ids(scenes) \ {scenes[i].id} \subseteq Ids(t)
  BY <1>3, <1>5
<1>7. GoodScript(t)
  BY <1>1, <1>3, <1>4 DEF GoodScript, IsScript
<1> QED
  BY <1>6, <1>7 DEF t

\* A script with a scene more.
LEMMA SceneAppended ==
  ASSUME NEW scenes, GoodScript(scenes), NEW x, x.id \in Nat, x.id \notin Ids(scenes), x.narration \in Nat,
         {"id", "beat", "location", "narration"} \subseteq DOMAIN x
  PROVE  GoodScript(Append(scenes, x)) /\ Ids(scenes) \subseteq Ids(Append(scenes, x))
<1> DEFINE t == Append(scenes, x)
<1>1. IsSeq(scenes) /\ DistinctIds(scenes)
      /\ \A y \in ToSet(scenes) :
           {"id", "beat", "location", "narration"} \subseteq DOMAIN y /\ y.id \in Nat /\ y.narration \in Nat
  BY DEF GoodScript, IsScript
<1>2. Len(scenes) \in Nat
  BY <1>1, SeqFacts
<1>3. IsSeq(t) /\ Len(t) = Len(scenes) + 1 /\ ToSet(t) = ToSet(scenes) \cup {x}
  BY <1>1, Appended
<1>4. Ids(t) = Ids(scenes) \cup {x.id} /\ DistinctIds(t)
  BY <1>1, AppendedIds
<1> HIDE DEF t
<1>5. t # <<>>
  BY <1>2, <1>3, EmptyIsSeq
<1>6. GoodScript(t)
  BY <1>1, <1>3, <1>4, <1>5 DEF GoodScript, IsScript
<1> QED
  BY <1>4, <1>6 DEF t

\* A script from its end.
LEMMA ScriptReversed ==
  ASSUME NEW scenes, GoodScript(scenes)
  PROVE  GoodScript(Reverse(scenes)) /\ Ids(Reverse(scenes)) = Ids(scenes)
<1> DEFINE t == Reverse(scenes)
<1>1. IsSeq(scenes) /\ DistinctIds(scenes) /\ scenes # <<>>
      /\ \A y \in ToSet(scenes) :
           {"id", "beat", "location", "narration"} \subseteq DOMAIN y /\ y.id \in Nat /\ y.narration \in Nat
  BY DEF GoodScript, IsScript
<1>2. IsSeq(t) /\ ToSet(t) = ToSet(scenes) /\ Ids(t) = Ids(scenes) /\ DistinctIds(t)
  BY <1>1, Reversed
<1> HIDE DEF t
<1>3. ToSet(scenes) # {}
  <2>1. Len(scenes) \in Nat /\ Len(scenes) # 0
    <3>1. Len(scenes) \in Nat
      BY <1>1, SeqFacts
    <3>2. ASSUME Len(scenes) = 0 PROVE FALSE
      <4>1. \A i \in 1..Len(scenes) : scenes[i] = <<>>[i]
        BY <3>2
      <4> QED
        BY <1>1, <3>2, <4>1, EmptyIsSeq, SeqSame
    <3> QED
      BY <3>1, <3>2
  <2>2. 1 \in 1..Len(scenes)
    BY <2>1
  <2> QED
    BY <1>1, <2>2, SeqFacts
<1>4. t # <<>>
  BY <1>2, <1>3, EmptyIsSeq
<1>5. GoodScript(t)
  BY <1>1, <1>2, <1>4 DEF GoodScript, IsScript
<1> QED
  BY <1>2, <1>5 DEF t

\* Any edit of the script: the shots of a scene go with it.
LEMMA EditedScriptIsSound ==
  ASSUME NEW s, GoodStory(s), NEW t \in EditedScript(s)
  PROVE  GoodStory(t)
<1> DEFINE scenes == s.scenes
           n == Len(scenes)
           rest(i) == Where(s.shots, LAMBDA x : x.scene # scenes[i].id)
           new == [id |-> NextSceneId(Ids(scenes)), beat |-> <<"new">>, location |-> "elsewhere", narration |-> 4]
<1>1. GoodScript(scenes) /\ GoodBreakdown(s.shots, s.world, scenes)
  BY DEF GoodStory
<1>2. IsSeq(scenes) /\ DistinctIds(scenes)
      /\ \A x \in ToSet(scenes) :
           {"id", "beat", "location", "narration"} \subseteq DOMAIN x /\ x.id \in Nat /\ x.narration \in Nat
  BY <1>1 DEF GoodScript, IsScript
<1>3. n \in Nat /\ DOMAIN scenes = 1..n /\ \A i \in 1..n : scenes[i] \in ToSet(scenes)
  BY <1>2, SeqFacts
<1>4. \A x \in ToSet(s.shots) : x.scene \in Ids(scenes)
  BY <1>1 DEF GoodBreakdown, GoodShot
<1>5. \/ \E i \in DOMAIN scenes : t = [s EXCEPT !.scenes = [scenes EXCEPT ![i] = [scenes[i] EXCEPT !.beat = <<"rewritten">>]]]
      \/ \E i \in DOMAIN scenes : t = [s EXCEPT !.scenes = [scenes EXCEPT ![i] = [scenes[i] EXCEPT !.narration = 5]]]
      \/ \E i \in DOMAIN scenes : Len(scenes) > 1 /\ t = [s EXCEPT !.scenes = RemoveAt(scenes, i), !.shots = rest(i)]
      \/ t = [s EXCEPT !.scenes = Append(scenes, new)]
      \/ t = [s EXCEPT !.scenes = Reverse(scenes)]
  BY Zenon DEF EditedScript
<1>6. ASSUME NEW sc, GoodScript(sc), Ids(scenes) \subseteq Ids(sc), t = [s EXCEPT !.scenes = sc]
      PROVE  GoodStory(t)
  <2>1. \A x \in ToSet(s.shots) : x.scene \in Ids(sc)
    BY <1>4, <1>6
  <2> QED
    BY <1>6, <2>1, WithScenes
<1>7. ASSUME NEW i \in DOMAIN scenes,
             t = [s EXCEPT !.scenes = [scenes EXCEPT ![i] = [scenes[i] EXCEPT !.beat = <<"rewritten">>]]]
      PROVE  GoodStory(t)
  <2> DEFINE x == scenes[i]
             e == [x EXCEPT !.beat = <<"rewritten">>]
             sc == [scenes EXCEPT ![i] = e]
  <2>1. {"id", "beat", "location", "narration"} \subseteq DOMAIN x /\ x.narration \in Nat
    BY <1>2, <1>3
  <2>2. t = [s EXCEPT !.scenes = sc]
    BY <1>7
  <2> HIDE DEF x
  <2>3. {"id", "beat", "location", "narration"} \subseteq DOMAIN e /\ e.id = x.id /\ e.narration \in Nat
    BY <2>1
  <2> HIDE DEF e
  <2>4. i \in 1..Len(scenes) /\ e.id = scenes[i].id
    BY <1>3, <2>3 DEF x
  <2> HIDE DEF scenes
  <2>5. GoodScript(sc) /\ Ids(sc) = Ids(scenes)
    BY <1>1, <2>3, <2>4, Rewritten
  <2> HIDE DEF sc
  <2> QED
    BY <1>6, <2>2, <2>5
<1>8. ASSUME NEW i \in DOMAIN scenes,
             t = [s EXCEPT !.scenes = [scenes EXCEPT ![i] = [scenes[i] EXCEPT !.narration = 5]]]
      PROVE  GoodStory(t)
  <2> DEFINE x == scenes[i]
             e == [x EXCEPT !.narration = 5]
             sc == [scenes EXCEPT ![i] = e]
  <2>1. {"id", "beat", "location", "narration"} \subseteq DOMAIN x /\ x.narration \in Nat
    BY <1>2, <1>3
  <2>2. t = [s EXCEPT !.scenes = sc]
    BY <1>8
  <2> HIDE DEF x
  <2>3. {"id", "beat", "location", "narration"} \subseteq DOMAIN e /\ e.id = x.id /\ e.narration \in Nat
    BY <2>1
  <2> HIDE DEF e
  <2>4. i \in 1..Len(scenes) /\ e.id = scenes[i].id
    BY <1>3, <2>3 DEF x
  <2> HIDE DEF scenes
  <2>5. GoodScript(sc) /\ Ids(sc) = Ids(scenes)
    BY <1>1, <2>3, <2>4, Rewritten
  <2> HIDE DEF sc
  <2> QED
    BY <1>6, <2>2, <2>5
<1>9. ASSUME NEW i \in DOMAIN scenes, Len(scenes) > 1,
             t = [s EXCEPT !.scenes = RemoveAt(scenes, i), !.shots = rest(i)]
      PROVE  GoodStory(t)
  <2> DEFINE sc == RemoveAt(scenes, i)
             P == {k \in DOMAIN s.shots : s.shots[k].scene # scenes[i].id}
             shots == Picked(s.shots, P)
             w == s.world
  <2>1. shots = rest(i) /\ P \subseteq DOMAIN s.shots
    BY DEF Where
  <2>2. GoodScript(sc) /\ Ids(scenes) \ {scenes[i].id} \subseteq Ids(sc)
    <3> HIDE DEF scenes
    <3> QED
      BY <1>1, <1>3, <1>9, SceneRemoved
  <2> DEFINE theirs == {s.shots[k] : k \in P}
  <2>3. \A x \in theirs : x.scene # scenes[i].id
    OBVIOUS
  <2>4. IsSeq(s.shots)
    BY <1>1 DEF GoodBreakdown
  <2> HIDE DEF P, sc
  <2>5. ToSet(shots) = theirs /\ ToSet(shots) \subseteq ToSet(s.shots)
    <3> DEFINE seq == s.shots
    <3>1. IsSeq(seq) /\ P \subseteq DOMAIN seq
      BY <2>1, <2>4
    <3> HIDE DEF seq
    <3>2. ToSet(Picked(seq, P)) = {seq[k] : k \in P} /\ ToSet(Picked(seq, P)) \subseteq ToSet(seq)
      BY <3>1, PickedSet
    <3> QED
      BY <3>2 DEF seq
  <2>6. GoodBreakdown(shots, w, scenes)
    <3> HIDE DEF scenes, w
    <3>1. GoodBreakdown(s.shots, w, scenes)
      BY <1>1 DEF scenes, w
    <3> QED
      BY <2>1, <3>1, FewerShots
  <2> HIDE DEF shots, theirs, w
  <2>7. \A x \in ToSet(shots) :
          /\ x.scene \in Ids(sc) /\ x.location \in Ids(w.locations)
          /\ ToSet(x.subjects) \subseteq Ids(w.characters)
    BY <2>2, <2>3, <2>5, <2>6 DEF GoodBreakdown, GoodShot
  <2>8. GoodBreakdown(shots, w, sc)
    BY <2>6, <2>7, OtherWorld
  <2>9. GoodBreakdown(shots, s.world, sc)
    BY <2>8 DEF w
  <2>10. GoodStory([s EXCEPT !.scenes = sc, !.shots = shots])
    BY <2>2, <2>9, WithScenesAndShots
  <2> QED
    BY <1>9, <2>1, <2>10 DEF sc
<1>10. CASE t = [s EXCEPT !.scenes = Append(scenes, new)]
  <2>1. IsFiniteSet(Ids(scenes)) /\ Ids(scenes) \in SUBSET Nat
    <3>1. Ids(scenes) = {x.id : x \in ToSet(scenes)}
      BY <1>2, IdsIs
    <3> QED
      BY <1>2, <3>1, IdsAreFinite
  <2> DEFINE id == NextSceneId(Ids(scenes))
  <2>2. id \in Nat /\ id \notin Ids(scenes)
    BY <2>1, NextSceneIdIs
  <2> HIDE DEF id
  <2>3. new.id = id /\ new.narration \in Nat /\ {"id", "beat", "location", "narration"} \subseteq DOMAIN new
    BY DEF id
  <2> HIDE DEF new, scenes
  <2>4. GoodScript(Append(scenes, new)) /\ Ids(scenes) \subseteq Ids(Append(scenes, new))
    BY <1>1, <2>2, <2>3, SceneAppended
  <2> QED
    BY <1>6, <1>10, <2>4
<1>11. CASE t = [s EXCEPT !.scenes = Reverse(scenes)]
  <2> HIDE DEF scenes
  <2>1. GoodScript(Reverse(scenes)) /\ Ids(Reverse(scenes)) = Ids(scenes)
    BY <1>1, ScriptReversed
  <2> QED
    BY <1>6, <1>11, <2>1
<1> HIDE DEF scenes, new, rest
<1> QED
  BY <1>5, <1>7, <1>8, <1>9, <1>10, <1>11

\* One shot otherwise.
LEMMA OneShotChanged ==
  ASSUME NEW shots, NEW world, NEW sc, GoodBreakdown(shots, world, sc), NEW i \in DOMAIN shots,
         NEW e, GoodShot(e, world, sc), e.id = shots[i].id
  PROVE  GoodBreakdown([shots EXCEPT ![i] = e], world, sc)
<1> DEFINE t == [shots EXCEPT ![i] = e]
<1>1. IsSeq(shots)
  BY DEF GoodBreakdown
<1>2. DOMAIN shots = 1..Len(shots) /\ \A j \in 1..Len(shots) : shots[j] \in ToSet(shots)
  BY <1>1, SeqFacts
<1>3. t = [j \in DOMAIN shots |-> t[j]] /\ \A j \in 1..Len(shots) : t[j] = IF j = i THEN e ELSE shots[j]
  BY <1>2
<1> HIDE DEF t
<1>4. \A j \in 1..Len(shots) : t[j].id = shots[j].id /\ GoodShot(t[j], world, sc)
  BY <1>2, <1>3 DEF GoodBreakdown
<1>5. GoodBreakdown(t, world, sc)
  BY <1>3, <1>4, Reshot
<1> QED
  BY <1>5 DEF t

\* What an edit of the shots does.
ShotsEdited(s, t) ==
  LET shots == s.shots
      new(x) == [x EXCEPT !.id = <<"new", x.id>>, !.subjects = <<>>] IN
  \/ \E i \in DOMAIN shots : t = [s EXCEPT !.shots = [shots EXCEPT ![i] = [shots[i] EXCEPT !.action = <<"rewritten">>]]]
  \/ \E i \in DOMAIN shots : t = [s EXCEPT !.shots = [shots EXCEPT ![i] = [shots[i] EXCEPT !.length = 500]]]
  \/ \E i \in DOMAIN shots, scene \in Ids(s.scenes) :
       t = [s EXCEPT !.shots = [shots EXCEPT ![i] = [shots[i] EXCEPT !.scene = scene]]]
  \/ \E i \in DOMAIN shots : t = [s EXCEPT !.shots = RemoveAt(shots, i)]
  \/ \E x \in ToSet(shots) : <<"new", x.id>> \notin Ids(shots) /\ t = [s EXCEPT !.shots = Append(shots, new(x))]

\* They are all.
LEMMA ShotEdits ==
  ASSUME NEW s
  PROVE  \A t \in EditedShots(s) : ShotsEdited(s, t)
<1> DEFINE shots == s.shots
           to(seq) == [s EXCEPT !.shots = seq]
           new(x) == [x EXCEPT !.id = <<"new", x.id>>, !.subjects = <<>>]
           A == {to([shots EXCEPT ![i].action = <<"rewritten">>]) : i \in DOMAIN shots}
           B == {to([shots EXCEPT ![i].length = 500]) : i \in DOMAIN shots}
           C == {to([shots EXCEPT ![i].scene = scene]) : i \in DOMAIN shots, scene \in Ids(s.scenes)}
           D == {to(RemoveAt(shots, i)) : i \in DOMAIN shots}
           E == {to(Append(shots, new(x))) : x \in {x \in ToSet(shots) : <<"new", x.id>> \notin Ids(shots)}}
<1>1. EditedShots(s) = A \cup B \cup C \cup D \cup E
  BY DEF EditedShots
<1> SUFFICES ASSUME NEW t \in EditedShots(s) PROVE ShotsEdited(s, t)
  OBVIOUS
<1>2. t \in A => \E i \in DOMAIN shots : t = [s EXCEPT !.shots = [shots EXCEPT ![i] = [shots[i] EXCEPT !.action = <<"rewritten">>]]]
  OBVIOUS
<1>3. t \in B => \E i \in DOMAIN shots : t = [s EXCEPT !.shots = [shots EXCEPT ![i] = [shots[i] EXCEPT !.length = 500]]]
  OBVIOUS
<1>4. t \in C => \E i \in DOMAIN shots, scene \in Ids(s.scenes) :
        t = [s EXCEPT !.shots = [shots EXCEPT ![i] = [shots[i] EXCEPT !.scene = scene]]]
  OBVIOUS
<1>5. t \in D => \E i \in DOMAIN shots : t = [s EXCEPT !.shots = RemoveAt(shots, i)]
  OBVIOUS
<1>6. t \in E => \E x \in ToSet(shots) : <<"new", x.id>> \notin Ids(shots) /\ t = [s EXCEPT !.shots = Append(shots, new(x))]
  OBVIOUS
<1> HIDE DEF A, B, C, D, E
<1>7. t \in A \/ t \in B \/ t \in C \/ t \in D \/ t \in E
  BY <1>1
<1> QED
  BY <1>2, <1>3, <1>4, <1>5, <1>6, <1>7, Zenon DEF ShotsEdited

\* Any edit of the shots.
LEMMA EditedShotsIsSound ==
  ASSUME NEW s, GoodStory(s), NEW t \in EditedShots(s)
  PROVE  GoodStory(t)
<1> DEFINE shots == s.shots
           world == s.world
           sc == s.scenes
           new(x) == [x EXCEPT !.id = <<"new", x.id>>, !.subjects = <<>>]
<1>1. \/ \E i \in DOMAIN shots : t = [s EXCEPT !.shots = [shots EXCEPT ![i] = [shots[i] EXCEPT !.action = <<"rewritten">>]]]
      \/ \E i \in DOMAIN shots : t = [s EXCEPT !.shots = [shots EXCEPT ![i] = [shots[i] EXCEPT !.length = 500]]]
      \/ \E i \in DOMAIN shots, scene \in Ids(sc) :
           t = [s EXCEPT !.shots = [shots EXCEPT ![i] = [shots[i] EXCEPT !.scene = scene]]]
      \/ \E i \in DOMAIN shots : t = [s EXCEPT !.shots = RemoveAt(shots, i)]
      \/ \E x \in ToSet(shots) : <<"new", x.id>> \notin Ids(shots) /\ t = [s EXCEPT !.shots = Append(shots, new(x))]
  <2>1. ShotsEdited(s, t)
    BY ShotEdits
  <2> QED
    BY <2>1, Zenon DEF ShotsEdited
<1>2. GoodBreakdown(shots, world, sc)
  BY DEF GoodStory
<1>3. ASSUME NEW other, GoodBreakdown(other, world, sc), t = [s EXCEPT !.shots = other]
      PROVE  GoodStory(t)
  BY <1>3, WithShots
<1> HIDE DEF shots, world, sc
<1>4. IsSeq(shots) /\ DistinctIds(shots)
  BY <1>2 DEF GoodBreakdown
<1>5. DOMAIN shots = 1..Len(shots) /\ \A i \in 1..Len(shots) : shots[i] \in ToSet(shots)
  BY <1>4, SeqFacts
<1>6. \A i \in DOMAIN shots : GoodShot(shots[i], world, sc)
  BY <1>2, <1>5 DEF GoodBreakdown
<1>7. ASSUME NEW i \in DOMAIN shots, NEW e, GoodShot(e, world, sc), e.id = shots[i].id,
             t = [s EXCEPT !.shots = [shots EXCEPT ![i] = e]]
      PROVE  GoodStory(t)
  <2> DEFINE other == [shots EXCEPT ![i] = e]
  <2>1. GoodBreakdown(other, world, sc)
    BY <1>2, <1>7, OneShotChanged
  <2>2. t = [s EXCEPT !.shots = other]
    BY <1>7
  <2> HIDE DEF other
  <2> QED
    BY <1>3, <2>1, <2>2
<1>8. ASSUME NEW i \in DOMAIN shots,
             t = [s EXCEPT !.shots = [shots EXCEPT ![i] = [shots[i] EXCEPT !.action = <<"rewritten">>]]]
      PROVE  GoodStory(t)
  <2> DEFINE x == shots[i]
             e == [x EXCEPT !.action = <<"rewritten">>]
  <2>1. GoodShot(x, world, sc)
    BY <1>6
  <2>2. t = [s EXCEPT !.shots = [shots EXCEPT ![i] = e]]
    BY <1>8
  <2> HIDE DEF x
  <2>3. /\ DOMAIN e = DOMAIN x /\ e.id = x.id /\ e.length = x.length /\ e.subjects = x.subjects
        /\ e.scene = x.scene /\ e.location = x.location
    BY <2>1 DEF GoodShot
  <2> HIDE DEF e
  <2>4. GoodShot(e, world, sc)
    BY <2>1, <2>3 DEF GoodShot
  <2> QED
    BY <1>7, <2>2, <2>3, <2>4 DEF x
<1>9. ASSUME NEW i \in DOMAIN shots,
             t = [s EXCEPT !.shots = [shots EXCEPT ![i] = [shots[i] EXCEPT !.length = 500]]]
      PROVE  GoodStory(t)
  <2> DEFINE x == shots[i]
             e == [x EXCEPT !.length = 500]
  <2>1. GoodShot(x, world, sc)
    BY <1>6
  <2>2. t = [s EXCEPT !.shots = [shots EXCEPT ![i] = e]]
    BY <1>9
  <2> HIDE DEF x
  <2>3. /\ DOMAIN e = DOMAIN x /\ e.id = x.id /\ e.length = 500 /\ e.subjects = x.subjects
        /\ e.scene = x.scene /\ e.location = x.location
    BY <2>1 DEF GoodShot
  <2> HIDE DEF e
  <2>4. GoodShot(e, world, sc)
    BY <2>1, <2>3 DEF GoodShot
  <2> QED
    BY <1>7, <2>2, <2>3, <2>4 DEF x
<1>10. ASSUME NEW i \in DOMAIN shots, NEW scene \in Ids(sc),
              t = [s EXCEPT !.shots = [shots EXCEPT ![i] = [shots[i] EXCEPT !.scene = scene]]]
       PROVE  GoodStory(t)
  <2> DEFINE x == shots[i]
             e == [x EXCEPT !.scene = scene]
  <2>1. GoodShot(x, world, sc)
    BY <1>6
  <2>2. t = [s EXCEPT !.shots = [shots EXCEPT ![i] = e]]
    BY <1>10
  <2> HIDE DEF x
  <2>3. /\ DOMAIN e = DOMAIN x /\ e.id = x.id /\ e.length = x.length /\ e.subjects = x.subjects
        /\ e.scene = scene /\ e.location = x.location
    BY <2>1 DEF GoodShot
  <2> HIDE DEF e
  <2>4. GoodShot(e, world, sc)
    BY <2>1, <2>3 DEF GoodShot
  <2> QED
    BY <1>7, <2>2, <2>3, <2>4 DEF x
<1>11. ASSUME NEW i \in DOMAIN shots, t = [s EXCEPT !.shots = RemoveAt(shots, i)]
       PROVE  GoodStory(t)
  <2> DEFINE other == RemoveAt(shots, i)
  <2>1. IsSeq(other) /\ ToSet(other) \subseteq ToSet(shots) /\ DistinctIds(other)
    BY <1>4, <1>5, Removed
  <2>2. t = [s EXCEPT !.shots = other]
    BY <1>11
  <2> HIDE DEF other
  <2>3. GoodBreakdown(other, world, sc)
    BY <1>2, <2>1 DEF GoodBreakdown
  <2> QED
    BY <1>3, <2>2, <2>3
<1>12. ASSUME NEW x \in ToSet(shots), <<"new", x.id>> \notin Ids(shots), t = [s EXCEPT !.shots = Append(shots, new(x))]
       PROVE  GoodStory(t)
  <2> DEFINE e == new(x)
             other == Append(shots, e)
             id == <<"new", x.id>>
  <2>1. GoodShot(x, world, sc)
    BY <1>2 DEF GoodBreakdown
  <2>2. id \notin Ids(shots)
    BY <1>12
  <2>3. t = [s EXCEPT !.shots = other]
    BY <1>12
  <2>4. e = [x EXCEPT !.id = id, !.subjects = <<>>]
    OBVIOUS
  <2> HIDE DEF id, e
  <2>5. /\ DOMAIN e = DOMAIN x /\ e.id = id /\ e.length = x.length /\ e.subjects = <<>>
        /\ e.scene = x.scene /\ e.location = x.location
    BY <2>1, <2>4 DEF GoodShot
  <2>6. GoodShot(e, world, sc)
    BY <2>1, <2>5, EmptyIsSeq DEF GoodShot
  <2>7. IsSeq(other) /\ ToSet(other) = ToSet(shots) \cup {e} /\ DistinctIds(other)
    BY <1>4, <2>2, <2>5, Appended, AppendedIds
  <2> HIDE DEF other
  <2>8. GoodBreakdown(other, world, sc)
    BY <1>2, <2>6, <2>7 DEF GoodBreakdown
  <2> QED
    BY <1>3, <2>3, <2>8
<1> HIDE DEF new
<1>13. CASE \E i \in DOMAIN shots : t = [s EXCEPT !.shots = [shots EXCEPT ![i] = [shots[i] EXCEPT !.action = <<"rewritten">>]]]
  BY <1>8, <1>13
<1>14. CASE \E i \in DOMAIN shots : t = [s EXCEPT !.shots = [shots EXCEPT ![i] = [shots[i] EXCEPT !.length = 500]]]
  BY <1>9, <1>14
<1>15. CASE \E i \in DOMAIN shots, scene \in Ids(sc) :
              t = [s EXCEPT !.shots = [shots EXCEPT ![i] = [shots[i] EXCEPT !.scene = scene]]]
  BY <1>10, <1>15, Zenon
<1>16. CASE \E i \in DOMAIN shots : t = [s EXCEPT !.shots = RemoveAt(shots, i)]
  BY <1>11, <1>16
<1>17. CASE \E x \in ToSet(shots) : <<"new", x.id>> \notin Ids(shots) /\ t = [s EXCEPT !.shots = Append(shots, new(x))]
  BY <1>12, <1>17
<1> QED
  BY <1>1, <1>13, <1>14, <1>15, <1>16, <1>17, Zenon

\* Whatever the user edits, a story that refers to itself still does.
THEOREM EditsAreSound ==
  ASSUME NEW s, GoodStory(s), NEW t \in Edits(s)
  PROVE  GoodStory(t)
BY EditedBriefIsSound, EditedWorldIsSound, EditedScriptIsSound, EditedShotsIsSound DEF Edits

-----------------------------------------------------------------------------
(* What agents and models answer. *)

\* A wild answer has the form of one.
LEMMA WildShotsIs ==
  ASSUME NEW story, GoodStory(story), NEW targets
  PROVE  IsBreakdown(WildShots(story, targets))
<1> DEFINE subjects == <<<<"char", "ann", 1>>, <<"char", "ghost", 1>>, <<"char", "ann", 1>>>>
           shot(scene) ==
             [id |-> ShotNode(1), scene |-> scene, length |-> 9900, action |-> <<"wild">>,
              location |-> <<"loc", "nowhere", 1>>, subjects |-> subjects]
           all == [i \in DOMAIN story.scenes |-> story.scenes[i].id]
           scenes == Among(all, DOMAIN targets \ {1})
           first == <<shot(99)>>
           rest == [i \in DOMAIN scenes |-> shot(scenes[i])]
<1>1. WildShots(story, targets) = first \o rest
  BY DEF WildShots, IdsAmong
<1>2. IsSeq(subjects)
  <2> SUFFICES subjects \in Seq(ToSet(subjects))
    BY DEF IsSeq
  <2> QED
    BY DEF ToSet
<1> HIDE DEF subjects
<1>3. ASSUME NEW scene
      PROVE  /\ {"id", "scene", "action", "length", "location", "subjects"} \subseteq DOMAIN shot(scene)
             /\ shot(scene).length \in Int /\ IsSeq(shot(scene).subjects)
  BY <1>2
<1> HIDE DEF shot
<1>4. IsSeq(scenes)
  <2>1. IsSeq(story.scenes)
    BY DEF GoodStory, GoodScript, IsScript
  <2>2. Len(story.scenes) \in Nat /\ DOMAIN story.scenes = 1..Len(story.scenes)
    BY <2>1, SeqFacts
  <2>3. all = [i \in 1..Len(story.scenes) |-> all[i]]
    BY <2>2
  <2> HIDE DEF all
  <2>4. IsSeq(all)
    BY <2>2, <2>3, SeqMade
  <2> QED
    BY <2>4, AmongIs
<1> HIDE DEF scenes
<1>5. Len(scenes) \in Nat /\ DOMAIN scenes = 1..Len(scenes)
  BY <1>4, SeqFacts
<1>6. rest = [i \in 1..Len(scenes) |-> rest[i]] /\ \A i \in 1..Len(scenes) : rest[i] = shot(scenes[i])
  BY <1>5
<1> HIDE DEF rest
<1>7. IsSeq(rest) /\ Len(rest) = Len(scenes)
  BY <1>5, <1>6, SeqMade
<1>8. \A x \in ToSet(rest) : \E scene : x = shot(scene)
  <2>1. \A x \in ToSet(rest) : \E i \in 1..Len(scenes) : x = rest[i]
    BY <1>7, SeqFacts
  <2> QED
    BY <1>6, <2>1
<1>9. IsSeq(first) /\ ToSet(first) = {shot(99)}
  BY Single
<1> HIDE DEF first
<1>10. IsSeq(first \o rest) /\ ToSet(first \o rest) = ToSet(first) \cup ToSet(rest)
  BY <1>7, <1>9, Concat
<1>11. IsBreakdown(first \o rest)
  BY <1>3, <1>8, <1>9, <1>10 DEF IsBreakdown
<1> QED
  BY <1>1, <1>11

\* So has any answer, to numbers of shots asked for.
LEMMA BreakdownAnswerIs ==
  ASSUME NEW story, GoodStory(story), NEW targets,
         \A id \in DOMAIN targets : id \in Ids(story.scenes) => targets[id] \in Nat, NEW parentStory, NEW agent
  PROVE  IsBreakdown(BreakdownAnswer(agent, story, targets, parentStory))
<1>1. IsBreakdown(MockReplan(story, targets, parentStory))
  BY MockReplanIs
<1>2. IsBreakdown(WildShots(story, targets))
  BY WildShotsIs
<1> QED
  BY <1>1, <1>2 DEF BreakdownAnswer

\* Proposed worlds have the form of one.
LEMMA ProposedWorldsAre ==
  ASSUME NEW world, GoodWorld(world), NEW w \in ProposedWorlds(world)
  PROVE  IsWorld(w)
<1> DEFINE stranger == [id |-> <<"loc", "den", 1>>, name |-> "den", desc |-> <<"wild">>]
           cs == world.characters
           ls == world.locations
           again == [i \in DOMAIN cs |-> [cs[i] EXCEPT !.desc = <<"reimagined">>]]
           people == again \o <<stranger>>
           last == <<Head(ls), stranger>>
           places == Reverse(ls) \o last
           none == [characters |-> <<>>, locations |-> <<>>]
           some == [characters |-> people, locations |-> places]
           Form(e) == {"id", "name", "desc"} \subseteq DOMAIN e
<1>1. w = none \/ w = some
  BY Zenon DEF ProposedWorlds
<1>2. IsCast(cs, "char") /\ IsCast(ls, "loc") /\ ls # <<>> /\ Len(ls) \in Nat /\ Len(ls) >= 1
  BY GoodWorldIs, EntitiesIs
<1>3. IsSeq(cs) /\ IsSeq(ls) /\ (\A e \in ToSet(cs) : Form(e)) /\ \A e \in ToSet(ls) : Form(e)
  BY <1>2 DEF IsCast
<1>4. Form(stranger)
  OBVIOUS
<1>5. ASSUME NEW v, {"characters", "locations"} \subseteq DOMAIN v, IsSeq(v.characters), IsSeq(v.locations),
             \A e \in ToSet(v.characters) \cup ToSet(v.locations) : Form(e)
      PROVE  IsWorld(v)
  <2>1. ToSet(v.characters \o v.locations) = ToSet(v.characters) \cup ToSet(v.locations)
    BY <1>5, Concat
  <2> QED
    BY <1>5, <2>1 DEF IsWorld, Entities
<1>6. IsWorld(none)
  <2>1. {"characters", "locations"} \subseteq DOMAIN none /\ none.characters = <<>> /\ none.locations = <<>>
    OBVIOUS
  <2> HIDE DEF none
  <2> QED
    BY <1>5, <2>1, EmptyIsSeq
<1>7. IsSeq(again) /\ \A e \in ToSet(again) : Form(e)
  <2>1. Len(cs) \in Nat /\ DOMAIN cs = 1..Len(cs) /\ \A i \in 1..Len(cs) : cs[i] \in ToSet(cs)
    BY <1>3, SeqFacts
  <2>2. again = [i \in 1..Len(cs) |-> again[i]] /\ \A i \in 1..Len(cs) : Form(again[i])
    <3> HIDE DEF cs
    <3>1. \A i \in 1..Len(cs) : again[i] = [cs[i] EXCEPT !.desc = <<"reimagined">>]
      BY <2>1, Zenon
    <3>2. \A i \in 1..Len(cs) : DOMAIN again[i] = DOMAIN cs[i]
      BY <3>1
    <3>3. again = [i \in 1..Len(cs) |-> again[i]]
      BY <2>1
    <3> QED
      BY <1>3, <2>1, <3>2, <3>3
  <2> HIDE DEF again
  <2>3. IsSeq(again) /\ Len(again) = Len(cs)
    BY <2>1, <2>2, SeqMade
  <2>4. \A e \in ToSet(again) : \E i \in 1..Len(cs) : e = again[i]
    BY <2>3, SeqFacts
  <2> QED
    BY <2>2, <2>3, <2>4
<1> HIDE DEF again, stranger
<1>8. IsSeq(people) /\ \A e \in ToSet(people) : Form(e)
  <2>1. IsSeq(<<stranger>>) /\ ToSet(<<stranger>>) = {stranger}
    BY Single
  <2>2. IsSeq(people) /\ ToSet(people) = ToSet(again) \cup ToSet(<<stranger>>)
    BY <1>7, <2>1, Concat
  <2> HIDE DEF people
  <2> QED
    BY <1>4, <1>7, <2>1, <2>2
<1>9. IsSeq(places) /\ \A e \in ToSet(places) : Form(e)
  <2> HIDE DEF ls
  <2>1. Head(ls) \in ToSet(ls)
    <3>1. 1 \in 1..Len(ls)
      BY <1>2
    <3>2. ls[1] \in ToSet(ls)
      BY <1>3, <3>1, SeqFacts
    <3>3. Head(ls) = ls[1]
      BY <1>2, <1>3 DEF IsSeq
    <3> QED
      BY <3>2, <3>3
  <2> DEFINE h == Head(ls)
  <2> HIDE DEF h
  <2>2. IsSeq(<<h, stranger>>) /\ ToSet(<<h, stranger>>) = {h, stranger}
    BY DEF IsSeq, ToSet
  <2>3. last = <<h, stranger>>
    BY DEF h
  <2>4. IsSeq(Reverse(ls)) /\ ToSet(Reverse(ls)) = ToSet(ls)
    BY <1>3, Reversed
  <2> HIDE DEF last
  <2>5. IsSeq(places) /\ ToSet(places) = ToSet(Reverse(ls)) \cup ToSet(last)
    BY <2>2, <2>3, <2>4, Concat
  <2> HIDE DEF places
  <2> QED
    BY <1>3, <1>4, <2>1, <2>2, <2>3, <2>4, <2>5 DEF h
<1> HIDE DEF people, places
<1>10. IsWorld(some)
  <2>1. {"characters", "locations"} \subseteq DOMAIN some /\ some.characters = people /\ some.locations = places
    OBVIOUS
  <2> HIDE DEF some
  <2> QED
    BY <1>5, <1>8, <1>9, <2>1
<1> QED
  BY <1>1, <1>6, <1>10

\* So have proposed scripts, and they are never empty.
LEMMA ProposedScriptsAre ==
  ASSUME NEW scenes, GoodScript(scenes), NEW sc \in ProposedScripts(scenes)
  PROVE  IsScript(sc) /\ sc # <<>>
<1> DEFINE n == Len(scenes)
           again == [i \in DOMAIN scenes |-> [scenes[i] EXCEPT !.beat = <<"reimagined">>]]
           first == scenes[1]
           other == [first EXCEPT !.id = 99]
           Form(x) == {"id", "beat", "location", "narration"} \subseteq DOMAIN x /\ x.id \in Nat /\ x.narration \in Nat
<1>1. sc = again \o <<first>> \/ sc = <<other>>
  BY Zenon DEF ProposedScripts
<1>2. IsSeq(scenes) /\ scenes # <<>> /\ \A x \in ToSet(scenes) : Form(x)
  BY DEF GoodScript, IsScript
<1>3. n \in Nat /\ DOMAIN scenes = 1..n /\ \A i \in 1..n : scenes[i] \in ToSet(scenes)
  BY <1>2, SeqFacts
<1>4. n # 0
  <2>1. ASSUME n = 0 PROVE FALSE
    <3>1. \A i \in 1..n : scenes[i] = <<>>[i]
      BY <2>1
    <3> QED
      BY <1>2, <2>1, <3>1, EmptyIsSeq, SeqSame
  <2> QED
    BY <2>1
<1>5. Form(first)
  BY <1>2, <1>3, <1>4
<1> HIDE DEF first
<1>6. Form(other)
  <2>1. DOMAIN other = DOMAIN first /\ other.id = 99 /\ other.narration = first.narration
    BY <1>5
  <2> HIDE DEF other
  <2> QED
    BY <1>5, <2>1
<1>7. IsSeq(again) /\ \A x \in ToSet(again) : Form(x)
  <2>1. again = [i \in 1..n |-> again[i]]
    BY <1>3
  <2>2. \A i \in 1..n : again[i] = [scenes[i] EXCEPT !.beat = <<"reimagined">>]
    BY <1>3, Zenon
  <2> HIDE DEF again
  <2>3. IsSeq(again) /\ Len(again) = n
    BY <1>3, <2>1, SeqMade
  <2>4. ASSUME NEW i \in 1..n PROVE Form(again[i])
    <3> DEFINE x == scenes[i]
               y == again[i]
    <3>1. Form(x)
      BY <1>2, <1>3
    <3>2. y = [x EXCEPT !.beat = <<"reimagined">>]
      BY <2>2
    <3> HIDE DEF x, y
    <3>3. DOMAIN y = DOMAIN x /\ y.id = x.id /\ y.narration = x.narration
      BY <3>1, <3>2
    <3>4. Form(y)
      BY <3>1, <3>3
    <3> QED
      BY <3>4 DEF y
  <2>5. \A x \in ToSet(again) : \E i \in 1..n : x = again[i]
    BY <2>3, SeqFacts
  <2> QED
    BY <2>3, <2>4, <2>5
<1> HIDE DEF again, other
<1>8. CASE sc = again \o <<first>>
  <2>1. IsSeq(<<first>>) /\ ToSet(<<first>>) = {first}
    BY Single
  <2>2. IsSeq(sc) /\ ToSet(sc) = ToSet(again) \cup ToSet(<<first>>)
    BY <1>7, <1>8, <2>1, Concat
  <2>3. IsScript(sc)
    BY <1>5, <1>7, <2>1, <2>2 DEF IsScript
  <2> QED
    BY <2>1, <2>2, <2>3, EmptyIsSeq
<1>9. CASE sc = <<other>>
  <2>1. IsSeq(sc) /\ ToSet(sc) = {other}
    BY <1>9, Single
  <2>2. IsScript(sc)
    BY <1>6, <2>1 DEF IsScript
  <2> QED
    BY <2>1, <2>2, EmptyIsSeq
<1> QED
  BY <1>1, <1>8, <1>9

\* Whatever a model proposes, a story that refers to itself still does.
THEOREM ProposalsAreSound ==
  ASSUME NEW parentStory, GoodStory(parentStory), NEW s, GoodStory(s), NEW t \in Proposals(parentStory, s)
  PROVE  GoodStory(t)
<1> DEFINE id == s.scenes[1].id
           counts == ShotTargets(parentStory, s, {id})
<1>1. \/ \E w \in ProposedWorlds(s.world), targets \in {{}, Ids(s.world.locations)} : t = MergeWorld(s, w, targets)
      \/ \E sc \in ProposedScripts(s.scenes), targets \in {{}, {id}} : t = MergeScript(s, sc, targets)
      \/ \E agent \in Agents :
           t = ProposeShots(parentStory, s, counts, BreakdownAnswer(agent, s, counts, parentStory))
  BY DEF Proposals
<1>2. GoodWorld(s.world) /\ GoodScript(s.scenes)
  BY DEF GoodStory
<1>3. ASSUME NEW w \in ProposedWorlds(s.world), NEW targets PROVE GoodStory(MergeWorld(s, w, targets))
  BY <1>2, ProposedWorldsAre, MergeWorldIsSound
<1>4. ASSUME NEW sc \in ProposedScripts(s.scenes), NEW targets PROVE GoodStory(MergeScript(s, sc, targets))
  BY <1>2, ProposedScriptsAre, MergeScriptIsSound
<1>5. id \in Ids(s.scenes)
  <2> DEFINE sc == s.scenes
  <2>1. IsSeq(sc) /\ sc # <<>>
    BY <1>2 DEF GoodScript, IsScript
  <2> HIDE DEF sc
  <2>2. Len(sc) \in Nat
    BY <2>1, SeqFacts
  <2>3. Len(sc) # 0
    BY <2>1, EmptyIsSeq, SeqSame
  <2>4. 1 \in 1..Len(sc) /\ Ids(sc) = {sc[i].id : i \in 1..Len(sc)}
    BY <2>1, <2>2, <2>3, IdsIs
  <2>5. sc[1].id \in Ids(sc)
    BY <2>4
  <2> QED
    BY <2>5 DEF sc
<1> HIDE DEF id
<1>6. DOMAIN counts = {id} /\ counts[id] \in Nat
  <2>1. /\ DOMAIN counts = {id}
        /\ \A x \in {id} : x \in Ids(s.scenes) => counts[x] \in Nat /\ counts[x] >= 1
    BY ShotTargetsAre
  <2> HIDE DEF counts
  <2> QED
    BY <1>5, <2>1
<1> HIDE DEF counts
<1>7. ASSUME NEW agent
      PROVE  GoodStory(ProposeShots(parentStory, s, counts, BreakdownAnswer(agent, s, counts, parentStory)))
  <2>1. \A x \in DOMAIN counts : x \in Ids(s.scenes) => counts[x] \in Nat
    BY <1>6
  <2> DEFINE answer == BreakdownAnswer(agent, s, counts, parentStory)
  <2>2. IsBreakdown(answer)
    BY <2>1, BreakdownAnswerIs
  <2> HIDE DEF answer
  <2>3. GoodStory(ProposeShots(parentStory, s, counts, answer))
    BY <1>5, <1>6, <2>2, ProposeShotsIsSound
  <2> QED
    BY <2>3 DEF answer
<1>8. CASE \E w \in ProposedWorlds(s.world), targets \in {{}, Ids(s.world.locations)} : t = MergeWorld(s, w, targets)
  BY <1>3, <1>8, Zenon
<1>9. CASE \E sc \in ProposedScripts(s.scenes), targets \in {{}, {id}} : t = MergeScript(s, sc, targets)
  BY <1>4, <1>9, Zenon
<1>10. CASE \E agent \in Agents :
              t = ProposeShots(parentStory, s, counts, BreakdownAnswer(agent, s, counts, parentStory))
  BY <1>7, <1>10, Zenon
<1> QED
  BY <1>1, <1>8, <1>9, <1>10, Zenon DEF counts, id

-----------------------------------------------------------------------------
(* What a package written by hand keeps. *)

\* A package with other nodes.
LEMMA WithAssets ==
  ASSUME NEW pkg, GoodPackage(pkg), NEW assets, IsSeq(assets), DistinctIds(assets),
         \A a \in ToSet(assets) :
           /\ IsAsset(a)
           /\ a.type = "image" => a.refs = <<>> /\ a.deps = <<>> /\ a.id[1] \notin NodeNames
           /\ a.type = "voiceover" => a.voice # "none"
  PROVE  GoodPackage([pkg EXCEPT !.assets = assets])
<1> DEFINE new == [pkg EXCEPT !.assets = assets]
<1>1. /\ new.assets = assets /\ new.brief = pkg.brief /\ new.world = pkg.world /\ new.timeline = pkg.timeline
      /\ new.scenes = pkg.scenes /\ new.shots = pkg.shots /\ DOMAIN new = DOMAIN pkg
  BY DEF GoodPackage, IsPackage
<1> HIDE DEF new
<1>2. IsPackage(new)
  BY <1>1 DEF GoodPackage, IsPackage
<1>3. \A a \in ToSet(Voiceovers(new)) : a \in ToSet(assets) /\ a.type = "voiceover"
  <2>1. IsSeq(new.assets)
    BY <1>1
  <2>2. \A a : a \in ToSet(OfType(new, "voiceover")) <=> a \in ToSet(new.assets) /\ a.type = "voiceover"
    BY <2>1, OfTypeIs
  <2> QED
    BY <1>1, <2>2 DEF Voiceovers
<1>4. SoundPackage(new)
  BY <1>1, <1>3 DEF GoodPackage, SoundPackage
<1>5. GoodPackage(new)
  BY <1>2, <1>4 DEF GoodPackage
<1> QED
  BY <1>5 DEF new

\* What a package's nodes have.
NodesOf(assets) ==
  /\ IsSeq(assets) /\ DistinctIds(assets)
  /\ \A a \in ToSet(assets) :
       /\ IsAsset(a)
       /\ a.type = "image" => a.refs = <<>> /\ a.deps = <<>> /\ a.id[1] \notin NodeNames
       /\ a.type = "voiceover" => a.voice # "none"

\* The nodes of a good package are such.
LEMMA NodesAre ==
  ASSUME NEW pkg, GoodPackage(pkg)
  PROVE  NodesOf(pkg.assets)
<1>1. IsSeq(pkg.assets) /\ DistinctIds(pkg.assets)
      /\ \A a \in ToSet(pkg.assets) :
           IsAsset(a) /\ (a.type = "image" => a.refs = <<>> /\ a.deps = <<>> /\ a.id[1] \notin NodeNames)
  BY DEF GoodPackage, IsPackage, SoundPackage
<1>2. \A a \in ToSet(pkg.assets) : a.type = "voiceover" => a \in ToSet(Voiceovers(pkg))
  BY <1>1, OfTypeIs DEF Voiceovers
<1>3. \A a \in ToSet(Voiceovers(pkg)) : a.voice # "none"
  BY DEF GoodPackage, SoundPackage
<1> QED
  BY <1>1, <1>2, <1>3 DEF NodesOf

\* One of them, not an image, written anew.
LEMMA NodeRewritten ==
  ASSUME NEW assets, NodesOf(assets), NEW i \in DOMAIN assets, NEW e, IsAsset(e), e.id = assets[i].id,
         e.type = assets[i].type, e.voice = assets[i].voice, e.type # "image"
  PROVE  NodesOf([assets EXCEPT ![i] = e]) /\ Ids([assets EXCEPT ![i] = e]) = Ids(assets)
<1> DEFINE t == [assets EXCEPT ![i] = e]
           n == Len(assets)
<1>1. IsSeq(assets) /\ DistinctIds(assets)
  BY DEF NodesOf
<1>2. n \in Nat /\ DOMAIN assets = 1..n /\ \A j \in 1..n : assets[j] \in ToSet(assets)
  BY <1>1, SeqFacts
<1>3. t = [j \in 1..n |-> t[j]] /\ \A j \in 1..n : t[j] = IF j = i THEN e ELSE assets[j]
  BY <1>2
<1> HIDE DEF t
<1>4. IsSeq(t) /\ Len(t) = n
  BY <1>2, <1>3, SeqMade
<1>5. \A j \in 1..n : t[j].id = assets[j].id
  BY <1>3
<1>6. Ids(t) = Ids(assets) /\ DistinctIds(t)
  BY <1>1, <1>4, <1>5, SameIds
<1>7. \A a \in ToSet(t) : \E j \in 1..n : a = t[j]
  BY <1>4, SeqFacts
<1>8. \A a \in ToSet(t) : a = e \/ a \in ToSet(assets)
  BY <1>2, <1>3, <1>7
<1>9. assets[i] \in ToSet(assets)
  BY <1>2
<1>10. e.type = "voiceover" => e.voice # "none"
  BY <1>9 DEF NodesOf
<1>11. NodesOf(t)
  BY <1>4, <1>6, <1>8, <1>10 DEF NodesOf
<1> QED
  BY <1>6, <1>11 DEF t

\* An image before the others of a sequence.
First(seq, image) == <<image>> \o Where(seq, LAMBDA id : id # image)

\* An image put before other references.
LEMMA FirstIs ==
  ASSUME NEW seq, IsSeq(seq), NEW image
  PROVE  IsSeq(First(seq, image))
<1> DEFINE P == {i \in DOMAIN seq : seq[i] # image}
           rest == Picked(seq, P)
<1>1. First(seq, image) = <<image>> \o rest
  BY DEF Where, First
<1>2. P \subseteq DOMAIN seq
  OBVIOUS
<1> HIDE DEF P
<1>3. IsSeq(rest)
  BY <1>2, PickedIs
<1> HIDE DEF rest
<1>4. IsSeq(<<image>>)
  BY Single
<1>5. IsSeq(<<image>> \o rest)
  BY <1>3, <1>4, Concat
<1> QED
  BY <1>1, <1>5

\* The nodes once a video shows an image first.
Showing(assets, i, image) ==
  [assets EXCEPT ![i].refs = First(@, image), ![i].deps = First(@, image)]

\* A video told to show another image first.
LEMMA PicturedNodes ==
  ASSUME NEW assets, NodesOf(assets), NEW i \in DOMAIN assets, assets[i].type = "video", NEW image,
         NEW t, t = Showing(assets, i, image)
  PROVE  NodesOf(t) /\ Ids(t) = Ids(assets)
<1> DEFINE x == assets[i]
           r == First(x.refs, image)
           d == First(x.deps, image)
           e == [x EXCEPT !.refs = r, !.deps = d]
<1>1. IsAsset(x) /\ DOMAIN assets = 1..Len(assets)
  <2>1. assets[i] \in ToSet(assets) /\ DOMAIN assets = 1..Len(assets)
    BY SeqFacts DEF NodesOf
  <2> QED
    BY <2>1 DEF NodesOf
<1>2. IsSeq(r) /\ IsSeq(d)
  BY <1>1, FirstIs DEF IsAsset
<1>3. t = [assets EXCEPT ![i] = e]
  BY <1>1 DEF Showing, IsAsset
<1> HIDE DEF x, r, d
<1>4. /\ e.id = x.id /\ e.type = x.type /\ e.voice = x.voice /\ e.length = x.length /\ e.refs = r /\ e.deps = d
      /\ DOMAIN e = DOMAIN x
  BY <1>1 DEF IsAsset
<1> HIDE DEF e
<1>5. IsAsset(e)
  BY <1>1, <1>2, <1>4 DEF IsAsset
<1>6. e.id = assets[i].id /\ e.type = assets[i].type /\ e.voice = assets[i].voice /\ e.type # "image"
  BY <1>4 DEF x
<1>7. NodesOf([assets EXCEPT ![i] = e]) /\ Ids([assets EXCEPT ![i] = e]) = Ids(assets)
  BY <1>5, <1>6, NodeRewritten
<1> QED
  BY <1>3, <1>7

\* Nodes after an image of the user's.
LEMMA WithImage ==
  ASSUME NEW assets, NodesOf(assets), NEW image, IsAsset(image), image.type = "image",
         image.refs = <<>>, image.deps = <<>>, image.id[1] \notin NodeNames, image.id \notin Ids(assets)
  PROVE  NodesOf(<<image>> \o assets)
<1> DEFINE one == <<image>>
           t == one \o assets
<1>1. IsSeq(one) /\ ToSet(one) = {image} /\ Ids(one) = {image.id} /\ DistinctIds(one)
  BY Single, SingleIds
<1> HIDE DEF one
<1>2. IsSeq(t) /\ ToSet(t) = ToSet(one) \cup ToSet(assets)
  BY <1>1, Concat DEF NodesOf
<1>3. DistinctIds(t)
  <2>1. Ids(one) \cap Ids(assets) = {}
    BY <1>1
  <2>2. IsSeq(assets) /\ DistinctIds(assets)
    BY DEF NodesOf
  <2> QED
    BY <1>1, <2>1, <2>2, ConcatIds
<1> HIDE DEF t
<1>4. NodesOf(t)
  BY <1>1, <1>2, <1>3 DEF NodesOf
<1> QED
  BY <1>4 DEF t, one

\* What the package endpoint takes, one by one.
NodesWritten(pkg, t) ==
  LET assets == pkg.assets
      videos == {i \in DOMAIN assets : assets[i].type = "video"}
      spoken == {i \in DOMAIN assets : assets[i].type = "voiceover"}
  IN \/ \E i \in videos : t = [assets EXCEPT ![i] = [assets[i] EXCEPT !.content = <<"typed", "prompt">>]]
     \/ \E i \in videos : t = [assets EXCEPT ![i] = [assets[i] EXCEPT !.length = assets[i].length + 100]]
     \/ \E i \in spoken : t = [assets EXCEPT ![i] = [assets[i] EXCEPT !.content = <<"typed", "words">>]]
     \/ \E i \in videos : t = Showing(assets, i, RefOf(Last(pkg.world.locations)))
     \/ \E i \in videos : ByHand.id \notin Ids(assets) /\ t = <<ByHand>> \o Showing(assets, i, ByHand.id)

\* They are all.
LEMMA WrittenBy ==
  ASSUME NEW pkg
  PROVE  \A new \in HandWritten(pkg) : \E t : new = [pkg EXCEPT !.assets = t] /\ NodesWritten(pkg, t)
<1> DEFINE assets == pkg.assets
           videos == {i \in DOMAIN assets : assets[i].type = "video"}
           spoken == {i \in DOMAIN assets : assets[i].type = "voiceover"}
           with(seq) == [pkg EXCEPT !.assets = seq]
           A == {with([assets EXCEPT ![i].content = <<"typed", "prompt">>]) : i \in videos}
           B == {with([assets EXCEPT ![i].length = @ + 100]) : i \in videos}
           C == {with([assets EXCEPT ![i].content = <<"typed", "words">>]) : i \in spoken}
           D == {with(Showing(assets, i, RefOf(Last(pkg.world.locations)))) : i \in videos}
           E == {with(<<ByHand>> \o Showing(assets, i, ByHand.id)) : i \in {i \in videos : ByHand.id \notin Ids(assets)}}
<1>1. HandWritten(pkg) = A \cup B \cup C \cup D \cup E
  BY DEF HandWritten, Showing, First
<1>2. \A new \in A : \E i \in videos : new = with([assets EXCEPT ![i] = [assets[i] EXCEPT !.content = <<"typed", "prompt">>]])
  OBVIOUS
<1>3. \A new \in B : \E i \in videos : new = with([assets EXCEPT ![i] = [assets[i] EXCEPT !.length = assets[i].length + 100]])
  OBVIOUS
<1>4. \A new \in C : \E i \in spoken : new = with([assets EXCEPT ![i] = [assets[i] EXCEPT !.content = <<"typed", "words">>]])
  OBVIOUS
<1>5. \A new \in D : \E i \in videos : new = with(Showing(assets, i, RefOf(Last(pkg.world.locations))))
  OBVIOUS
<1>6. \A new \in E : \E i \in videos : ByHand.id \notin Ids(assets) /\ new = with(<<ByHand>> \o Showing(assets, i, ByHand.id))
  OBVIOUS
<1> SUFFICES ASSUME NEW new \in HandWritten(pkg)
             PROVE  \E t : new = [pkg EXCEPT !.assets = t] /\ NodesWritten(pkg, t)
  OBVIOUS
<1> HIDE DEF A, B, C, D, E
<1>7. new \in A \/ new \in B \/ new \in C \/ new \in D \/ new \in E
  BY <1>1
<1>8. CASE new \in A
  <2>1. PICK i \in videos : new = with([assets EXCEPT ![i] = [assets[i] EXCEPT !.content = <<"typed", "prompt">>]])
    BY <1>2, <1>8
  <2> DEFINE t == [assets EXCEPT ![i] = [assets[i] EXCEPT !.content = <<"typed", "prompt">>]]
  <2>2. NodesWritten(pkg, t)
    BY <2>1, Zenon DEF NodesWritten
  <2>3. new = [pkg EXCEPT !.assets = t]
    BY <2>1
  <2> HIDE DEF t
  <2> QED
    BY <2>2, <2>3
<1>9. CASE new \in B
  <2>1. PICK i \in videos : new = with([assets EXCEPT ![i] = [assets[i] EXCEPT !.length = assets[i].length + 100]])
    BY <1>3, <1>9
  <2> DEFINE t == [assets EXCEPT ![i] = [assets[i] EXCEPT !.length = assets[i].length + 100]]
  <2>2. NodesWritten(pkg, t)
    BY <2>1, Zenon DEF NodesWritten
  <2>3. new = [pkg EXCEPT !.assets = t]
    BY <2>1
  <2> HIDE DEF t
  <2> QED
    BY <2>2, <2>3
<1>10. CASE new \in C
  <2>1. PICK i \in spoken : new = with([assets EXCEPT ![i] = [assets[i] EXCEPT !.content = <<"typed", "words">>]])
    BY <1>4, <1>10
  <2> DEFINE t == [assets EXCEPT ![i] = [assets[i] EXCEPT !.content = <<"typed", "words">>]]
  <2>2. NodesWritten(pkg, t)
    BY <2>1, Zenon DEF NodesWritten
  <2>3. new = [pkg EXCEPT !.assets = t]
    BY <2>1
  <2> HIDE DEF t
  <2> QED
    BY <2>2, <2>3
<1>11. CASE new \in D
  <2>1. PICK i \in videos : new = with(Showing(assets, i, RefOf(Last(pkg.world.locations))))
    BY <1>5, <1>11
  <2> DEFINE t == Showing(assets, i, RefOf(Last(pkg.world.locations)))
  <2>2. NodesWritten(pkg, t)
    BY <2>1, Zenon DEF NodesWritten
  <2>3. new = [pkg EXCEPT !.assets = t]
    BY <2>1
  <2> HIDE DEF t
  <2> QED
    BY <2>2, <2>3
<1>12. CASE new \in E
  <2>1. PICK i \in videos : ByHand.id \notin Ids(assets) /\ new = with(<<ByHand>> \o Showing(assets, i, ByHand.id))
    BY <1>6, <1>12
  <2> DEFINE t == <<ByHand>> \o Showing(assets, i, ByHand.id)
  <2>2. NodesWritten(pkg, t)
    BY <2>1, Zenon DEF NodesWritten
  <2>3. new = [pkg EXCEPT !.assets = t]
    BY <2>1
  <2> HIDE DEF t
  <2> QED
    BY <2>2, <2>3
<1> QED
  BY <1>7, <1>8, <1>9, <1>10, <1>11, <1>12

\* What the package endpoint takes keeps the package in shape.
THEOREM HandWrittenIsSound ==
  ASSUME NEW pkg, GoodPackage(pkg), NEW new \in HandWritten(pkg)
  PROVE  GoodPackage(new)
<1> DEFINE assets == pkg.assets
           videos == {i \in DOMAIN assets : assets[i].type = "video"}
           spoken == {i \in DOMAIN assets : assets[i].type = "voiceover"}
<1>1. PICK t : new = [pkg EXCEPT !.assets = t] /\ NodesWritten(pkg, t)
  BY WrittenBy
<1>2. NodesOf(assets)
  BY NodesAre
<1>3. SUFFICES NodesOf(t)
  BY <1>1, WithAssets DEF NodesOf
<1>4. ASSUME NEW i \in DOMAIN assets, NEW e, t = [assets EXCEPT ![i] = e], IsAsset(e), e.id = assets[i].id,
             e.type = assets[i].type, e.voice = assets[i].voice, assets[i].type # "image"
      PROVE  NodesOf(t)
  <2> HIDE DEF assets
  <2> QED
    BY <1>2, <1>4, NodeRewritten
<1>5. \A i \in DOMAIN assets : IsAsset(assets[i])
  BY <1>2, SeqFacts DEF NodesOf
<1>6. CASE \E i \in videos : t = [assets EXCEPT ![i] = [assets[i] EXCEPT !.content = <<"typed", "prompt">>]]
  <2>1. PICK i \in videos : t = [assets EXCEPT ![i] = [assets[i] EXCEPT !.content = <<"typed", "prompt">>]]
    BY <1>6
  <2> DEFINE x == assets[i]
             e == [x EXCEPT !.content = <<"typed", "prompt">>]
  <2>2. t = [assets EXCEPT ![i] = e] /\ IsAsset(x) /\ x.type = "video"
    BY <1>5, <2>1
  <2> HIDE DEF x
  <2>3. /\ e.id = x.id /\ e.type = x.type /\ e.voice = x.voice /\ e.length = x.length
        /\ e.refs = x.refs /\ e.deps = x.deps /\ DOMAIN e = DOMAIN x
    BY <2>2 DEF IsAsset
  <2> HIDE DEF e
  <2>4. IsAsset(e)
    BY <2>2, <2>3 DEF IsAsset
  <2> QED
    BY <1>4, <2>2, <2>3, <2>4 DEF x
<1>7. CASE \E i \in videos : t = [assets EXCEPT ![i] = [assets[i] EXCEPT !.length = assets[i].length + 100]]
  <2>1. PICK i \in videos : t = [assets EXCEPT ![i] = [assets[i] EXCEPT !.length = assets[i].length + 100]]
    BY <1>7
  <2> DEFINE x == assets[i]
             e == [x EXCEPT !.length = x.length + 100]
  <2>2. t = [assets EXCEPT ![i] = e] /\ IsAsset(x) /\ x.type = "video"
    BY <1>5, <2>1
  <2> HIDE DEF x
  <2>3. /\ e.id = x.id /\ e.type = x.type /\ e.voice = x.voice /\ e.length = x.length + 100
        /\ e.refs = x.refs /\ e.deps = x.deps /\ DOMAIN e = DOMAIN x
    BY <2>2 DEF IsAsset
  <2> HIDE DEF e
  <2>4. IsAsset(e)
    BY <2>2, <2>3 DEF IsAsset
  <2> QED
    BY <1>4, <2>2, <2>3, <2>4 DEF x
<1>8. CASE \E i \in spoken : t = [assets EXCEPT ![i] = [assets[i] EXCEPT !.content = <<"typed", "words">>]]
  <2>1. PICK i \in spoken : t = [assets EXCEPT ![i] = [assets[i] EXCEPT !.content = <<"typed", "words">>]]
    BY <1>8
  <2> DEFINE x == assets[i]
             e == [x EXCEPT !.content = <<"typed", "words">>]
  <2>2. t = [assets EXCEPT ![i] = e] /\ IsAsset(x) /\ x.type = "voiceover"
    BY <1>5, <2>1
  <2> HIDE DEF x
  <2>3. /\ e.id = x.id /\ e.type = x.type /\ e.voice = x.voice /\ e.length = x.length
        /\ e.refs = x.refs /\ e.deps = x.deps /\ DOMAIN e = DOMAIN x
    BY <2>2 DEF IsAsset
  <2> HIDE DEF e
  <2>4. IsAsset(e)
    BY <2>2, <2>3 DEF IsAsset
  <2> QED
    BY <1>4, <2>2, <2>3, <2>4 DEF x
<1>9. CASE \E i \in videos : t = Showing(assets, i, RefOf(Last(pkg.world.locations)))
  <2>1. PICK i \in videos : t = Showing(assets, i, RefOf(Last(pkg.world.locations)))
    BY <1>9
  <2>2. i \in DOMAIN assets /\ assets[i].type = "video"
    BY <2>1
  <2> HIDE DEF assets
  <2> QED
    BY <1>2, <2>1, <2>2, PicturedNodes
<1>10. CASE \E i \in videos : ByHand.id \notin Ids(assets) /\ t = <<ByHand>> \o Showing(assets, i, ByHand.id)
  <2>1. PICK i \in videos : ByHand.id \notin Ids(assets) /\ t = <<ByHand>> \o Showing(assets, i, ByHand.id)
    BY <1>10
  <2>2. i \in DOMAIN assets /\ assets[i].type = "video"
    BY <2>1
  <2> DEFINE shown == Showing(assets, i, ByHand.id)
  <2> HIDE DEF assets
  <2>3. NodesOf(shown) /\ Ids(shown) = Ids(assets)
    BY <1>2, <2>2, PicturedNodes
  <2>4. /\ IsAsset(ByHand) /\ ByHand.type = "image" /\ ByHand.refs = <<>> /\ ByHand.deps = <<>>
        /\ ByHand.id = <<"image", "hand">>
    BY NodeIs DEF ByHand
  <2>5. ByHand.id[1] \notin NodeNames
    BY <2>4 DEF NodeNames
  <2> HIDE DEF shown
  <2>6. NodesOf(<<ByHand>> \o shown)
    BY <2>1, <2>3, <2>4, <2>5, WithImage
  <2> QED
    BY <2>1, <2>6 DEF shown
<1> QED
  BY <1>1, <1>6, <1>7, <1>8, <1>9, <1>10, Zenon DEF NodesWritten

-----------------------------------------------------------------------------
(* The brief of a draft always names a style and a voice. *)

\* A style and a voice are chosen.
NamedBrief(story) == story.brief.style # "none" /\ story.brief.voice # "none"

\* Edits of the other stages leave the brief alone.
LEMMA EditsKeepBrief ==
  ASSUME NEW s, GoodStory(s), NEW t, t \in EditedWorld(s) \cup EditedScript(s) \cup EditedShots(s)
  PROVE  t.brief = s.brief
<1>1. {"brief", "world", "scenes", "shots"} \subseteq DOMAIN s
  BY DEF GoodStory
<1>2. CASE t \in EditedWorld(s)
  <2>1. \E w : t = [s EXCEPT !.world = w]
    BY <1>2, Zenon DEF EditedWorld
  <2> QED
    BY <1>1, <2>1
<1>3. CASE t \in EditedScript(s)
  <2>1. \E sc, shots : t = [s EXCEPT !.scenes = sc, !.shots = shots] \/ t = [s EXCEPT !.scenes = sc]
    BY <1>3, Zenon DEF EditedScript
  <2> QED
    BY <1>1, <2>1
<1>4. CASE t \in EditedShots(s)
  <2>1. ShotsEdited(s, t)
    BY <1>4, ShotEdits
  <2>2. \E shots : t = [s EXCEPT !.shots = shots]
    <3>1. ASSUME NEW shots, t = [s EXCEPT !.shots = shots] PROVE \E x : t = [s EXCEPT !.shots = x]
      BY <3>1, Zenon
    <3> QED
      BY <2>1, <3>1, ZenonT(30) DEF ShotsEdited
  <2> QED
    BY <1>1, <2>2
<1> QED
  BY <1>2, <1>3, <1>4

\* Edits of the brief name what they change.
LEMMA EditsNameBrief ==
  ASSUME NEW s, GoodStory(s), NamedBrief(s), NEW t \in Edits(s)
  PROVE  NamedBrief(t)
<1>1. CASE t \in EditedBrief(s)
  <2> DEFINE b == s.brief
  <2>1. "brief" \in DOMAIN s /\ b = [length |-> b.length, style |-> b.style, voice |-> b.voice]
    BY DEF GoodStory, IsBrief
  <2>2. b.style # "none" /\ b.voice # "none"
    BY DEF NamedBrief
  <2>3. \/ t = [s EXCEPT !.brief = [b EXCEPT !.style = "noir"]]
        \/ t = [s EXCEPT !.brief = [b EXCEPT !.voice = "deep"]]
        \/ \E n \in Targets : t = [s EXCEPT !.brief = [b EXCEPT !.length = n]]
    BY <1>1 DEF EditedBrief
  <2> HIDE DEF b
  <2>4. \/ t.brief = [b EXCEPT !.style = "noir"]
        \/ t.brief = [b EXCEPT !.voice = "deep"]
        \/ \E n \in Targets : t.brief = [b EXCEPT !.length = n]
    BY <2>1, <2>3
  <2> HIDE <2>3
  <2>5. CASE t.brief = [b EXCEPT !.style = "noir"]
    BY <2>1, <2>2, <2>5 DEF NamedBrief
  <2>6. CASE t.brief = [b EXCEPT !.voice = "deep"]
    BY <2>1, <2>2, <2>6 DEF NamedBrief
  <2>7. CASE \E n \in Targets : t.brief = [b EXCEPT !.length = n]
    BY <2>1, <2>2, <2>7 DEF NamedBrief
  <2> QED
    BY <2>4, <2>5, <2>6, <2>7
<1>2. CASE t \in EditedWorld(s) \cup EditedScript(s) \cup EditedShots(s)
  BY <1>2, EditsKeepBrief DEF NamedBrief
<1> QED
  BY <1>1, <1>2 DEF Edits

\* Proposals leave the brief alone.
LEMMA ProposalsKeepBrief ==
  ASSUME NEW parentStory, NEW s, GoodStory(s), NEW t \in Proposals(parentStory, s)
  PROVE  t.brief = s.brief
<1>1. {"brief", "world", "scenes", "shots"} \subseteq DOMAIN s
  BY DEF GoodStory
<1>2. \/ \E w, targets : t = MergeWorld(s, w, targets)
      \/ \E sc, targets : t = MergeScript(s, sc, targets)
      \/ \E counts, answer : t = ProposeShots(parentStory, s, counts, answer)
  BY DEF Proposals
<1>3. ASSUME NEW w, NEW targets, t = MergeWorld(s, w, targets) PROVE t.brief = s.brief
  <2>1. \E x, shots : t = [s EXCEPT !.world = x, !.shots = shots] \/ t = [s EXCEPT !.world = x]
    BY <1>3, Zenon DEF MergeWorld, MergeTargets
  <2> QED
    BY <1>1, <2>1
<1>4. ASSUME NEW sc, NEW targets, t = MergeScript(s, sc, targets) PROVE t.brief = s.brief
  <2>1. \E x, shots : t = [s EXCEPT !.scenes = x, !.shots = shots] \/ t = [s EXCEPT !.scenes = x]
    BY <1>4, Zenon DEF MergeScript
  <2> QED
    BY <1>1, <2>1
<1>5. ASSUME NEW counts, NEW answer, t = ProposeShots(parentStory, s, counts, answer) PROVE t.brief = s.brief
  <2>1. \E shots : t = [s EXCEPT !.shots = shots]
    BY <1>5, Zenon DEF ProposeShots
  <2> QED
    BY <1>1, <2>1
<1> QED
  BY <1>2, <1>3, <1>4, <1>5, Zenon

\* So does the reader of a package, whose narrators all have a voice.
LEMMA ReaderNamesBrief ==
  ASSUME NEW pkg, GoodPackage(pkg)
  PROVE  NamedBrief(StoryFromPackage(pkg))
<1> DEFINE vos == Voiceovers(pkg)
           voice == IF vos # <<>> THEN vos[1].voice ELSE pkg.brief.voice
           b == pkg.brief
           c == [b EXCEPT !.voice = voice]
<1>1. StoryFromPackage(pkg).brief = c
  BY DEF StoryFromPackage
<1>2. b = [length |-> b.length, style |-> b.style, voice |-> b.voice] /\ b.style # "none" /\ b.voice # "none"
  BY DEF GoodPackage, IsPackage, IsBrief, SoundPackage
<1>3. voice # "none"
  <2>1. IsSeq(vos)
    BY OfTypeIs DEF Voiceovers, GoodPackage, IsPackage
  <2>2. \A a \in ToSet(vos) : a.voice # "none"
    BY DEF GoodPackage, SoundPackage
  <2>3. CASE vos # <<>>
    <3> HIDE DEF vos
    <3>1. Len(vos) \in Nat
      BY <2>1, SeqFacts
    <3>2. Len(vos) # 0
      BY <2>1, <2>3, EmptyIsSeq, SeqSame
    <3>3. vos[1] \in ToSet(vos)
      BY <2>1, <3>1, <3>2, SeqFacts
    <3> QED
      BY <2>2, <2>3, <3>3
  <2>4. CASE vos = <<>>
    BY <1>2, <2>4
  <2> QED
    BY <2>3, <2>4
<1> HIDE DEF voice, b
<1>4. c = [length |-> b.length, style |-> b.style, voice |-> voice]
  BY <1>2
<1> HIDE DEF c
<1>5. c.style # "none" /\ c.voice # "none"
  BY <1>2, <1>3, <1>4
<1> QED
  BY <1>1, <1>5 DEF NamedBrief

-----------------------------------------------------------------------------
(* A revision. *)

\* The shots of the next version are as fit for its story as those of the draft.
LEMMA RevisedShotsIs ==
  ASSUME GoodPackage(film), GoodStory(draft), NEW agent,
         NEW parentStory, parentStory = StoryFromPackage(film),
         NEW plan, plan = PlanRevision(film, parentStory, draft, keep)
  PROVE  /\ plan.stale \subseteq Ids(draft.scenes) /\ DOMAIN plan.targets = plan.stale
         /\ \A id \in plan.stale : plan.targets[id] \in Nat /\ plan.targets[id] >= 1
         /\ \E r : /\ r = SanitizeReplanned(BreakdownAnswer(agent, draft, plan.targets, parentStory),
                                            draft, plan.targets, parentStory)
                   /\ DOMAIN r = plan.stale /\ Replanned(r, draft, draft.shots)
                   /\ RevisedShots(parentStory, plan, agent) = SpliceShots(draft, r)
         /\ GoodBreakdown(RevisedShots(parentStory, plan, agent), draft.world, draft.scenes)
<1> DEFINE stale == plan.stale
           targets == plan.targets
           answer == BreakdownAnswer(agent, draft, targets, parentStory)
           r == SanitizeReplanned(answer, draft, targets, parentStory)
<1>1. stale \subseteq Ids(draft.scenes) /\ targets = ShotTargets(parentStory, draft, stale)
  BY DEF PlanRevision, StaleScenes
<1>2. GoodStory(parentStory)
  BY StoryFromPackageIs
<1> HIDE DEF stale, targets
<1>3. /\ DOMAIN targets = stale
      /\ \A id \in DOMAIN targets : targets[id] \in Nat /\ targets[id] >= 1
  <2> DEFINE t == ShotTargets(parentStory, draft, stale)
  <2>1. DOMAIN t = stale /\ \A id \in stale : id \in Ids(draft.scenes) => t[id] \in Nat /\ t[id] >= 1
    BY <1>2, ShotTargetsAre
  <2> HIDE DEF t
  <2>2. targets = t
    BY <1>1 DEF t
  <2> QED
    BY <1>1, <2>1, <2>2
<1>4. IsBreakdown(answer)
  BY <1>3, BreakdownAnswerIs
<1> HIDE DEF answer
<1>5. DOMAIN r = stale /\ Replanned(r, draft, draft.shots)
  <2>1. GoodWorld(draft.world) /\ IsScript(draft.scenes) /\ IsSeq(draft.shots)
    BY DEF GoodStory, GoodScript, GoodBreakdown
  <2>2. /\ DOMAIN SanitizeReplanned(answer, draft, targets, parentStory) = DOMAIN targets
        /\ Replanned(SanitizeReplanned(answer, draft, targets, parentStory), draft, draft.shots)
    BY <1>1, <1>3, <1>4, <2>1, SanitizeIsSound
  <2> QED
    BY <1>3, <2>2
<1>6. RevisedShots(parentStory, plan, agent) = SpliceShots(draft, r)
  BY DEF RevisedShots, answer, targets
<1>8. r = SanitizeReplanned(BreakdownAnswer(agent, draft, plan.targets, parentStory),
                            draft, plan.targets, parentStory)
  BY DEF answer, targets
<1> HIDE DEF r
<1>7. \A x \in ToSet(draft.shots) : x.scene \notin DOMAIN r => x.id \in Ids(draft.shots)
  <2>1. IsSeq(draft.shots)
    BY DEF GoodStory, GoodBreakdown
  <2> QED
    BY <2>1, IdsIs
<1>9. GoodBreakdown(SpliceShots(draft, r), draft.world, draft.scenes)
  BY <1>5, <1>7, SpliceIsSound
<1> QED
  BY <1>1, <1>3, <1>5, <1>6, <1>8, <1>9 DEF stale, targets

\* What a job builds.
LEMMA RevisionIsBuilt ==
  ASSUME GoodPackage(film), GoodStory(draft), NEW agent,
         NEW parentStory, parentStory = StoryFromPackage(film),
         NEW plan, plan = PlanRevision(film, parentStory, draft, keep)
  PROVE  Built(RunRevision(parentStory, plan, agent), draft, RevisedShots(parentStory, plan, agent))
<1> DEFINE shots == RevisedShots(parentStory, plan, agent)
           fresh == PromptsAnswer(agent, draft, Dirty(shots, plan))
<1>1. RunRevision(parentStory, plan, agent) = BuildRevision(film, draft, plan, shots, fresh)
  BY DEF RunRevision
<1>2. GoodBreakdown(shots, draft.world, draft.scenes)
  BY RevisedShotsIs
<1> HIDE DEF shots, fresh
<1>3. Built(BuildRevision(film, draft, plan, shots, fresh), draft, shots)
  BY <1>2, BuildRevisionIs
<1> QED
  BY <1>1, <1>3 DEF shots

-----------------------------------------------------------------------------
(* The invariant. *)

\* The package in store and the draft beside it are of the right form; the package satisfies
\* the validator, the draft refers to what it has.
Sound ==
  /\ GoodPackage(film) /\ ValidPackage(film)
  /\ GoodStory(draft) /\ NamedBrief(draft)

\* A film starts so.
LEMMA SoundInit == Init => Sound
<1> SUFFICES ASSUME Init PROVE Sound
  OBVIOUS
<1>1. GoodPackage(film) /\ ValidPackage(film) /\ draft = StoryFromPackage(film)
  BY FilmsAssumption DEF Init, GoodPackage
<1> QED
  BY <1>1, StoryFromPackageIs, ReaderNamesBrief DEF Sound

\* And stays so, whatever users write, models propose and agents answer.
LEMMA SoundNext == Sound /\ [Next]_vars => Sound'
<1> SUFFICES ASSUME Sound, [Next]_vars PROVE Sound'
  OBVIOUS
<1> DEFINE story == StoryFromPackage(film)
<1>1. GoodPackage(film) /\ ValidPackage(film) /\ GoodStory(draft) /\ NamedBrief(draft)
  BY DEF Sound
<1>2. GoodStory(story)
  BY <1>1, StoryFromPackageIs
<1>3. CASE Edit
  <2>1. film' = film /\ draft' \in Edits(draft)
    BY <1>3 DEF Edit
  <2>2. GoodStory(draft') /\ NamedBrief(draft')
    BY <1>1, <2>1, EditsAreSound, EditsNameBrief
  <2> QED
    BY <1>1, <2>1, <2>2 DEF Sound
<1>4. CASE Keep
  BY <1>1, <1>4 DEF Keep, Sound
<1>5. CASE AcceptProposal
  <2>1. film' = film /\ draft' \in Proposals(story, draft)
    BY <1>5 DEF AcceptProposal
  <2> HIDE DEF story
  <2>2. GoodStory(draft')
    BY <1>1, <1>2, <2>1, ProposalsAreSound
  <2>3. draft'.brief = draft.brief
    BY <1>1, <2>1, ProposalsKeepBrief
  <2> QED
    BY <1>1, <2>1, <2>2, <2>3 DEF Sound, NamedBrief
<1>6. CASE HandWrite
  <2>1. PICK pkg \in HandWritten(film) : ValidPackage(pkg) /\ film' = pkg /\ draft' = StoryFromPackage(pkg)
    BY <1>6 DEF HandWrite
  <2>2. GoodPackage(pkg)
    BY <1>1, HandWrittenIsSound
  <2> QED
    BY <2>1, <2>2, StoryFromPackageIs, ReaderNamesBrief DEF Sound
<1>7. CASE Produce
  BY <1>1, <1>7 DEF Produce, Sound
<1>8. ASSUME NEW agent \in Agents, Revise(agent) PROVE Sound'
  <2> DEFINE built == RunRevision(story, Plan, agent)
  <2>1. \/ ValidPackage(built) /\ film' = built /\ draft' = StoryFromPackage(built)
        \/ film' = film /\ draft' = draft
    BY <1>8 DEF Revise
  <2>2. GoodPackage(built)
    BY <1>1, RevisionIsBuilt DEF Built, Plan
  <2> HIDE DEF built
  <2>3. CASE ValidPackage(built) /\ film' = built /\ draft' = StoryFromPackage(built)
    BY <2>2, <2>3, StoryFromPackageIs, ReaderNamesBrief DEF Sound
  <2>4. CASE film' = film /\ draft' = draft
    BY <1>1, <2>4 DEF Sound
  <2> QED
    BY <2>1, <2>3, <2>4
<1>9. CASE UNCHANGED vars
  BY <1>1, <1>9 DEF vars, Sound
<1> QED
  BY <1>3, <1>4, <1>5, <1>6, <1>7, <1>8, <1>9 DEF Next

\* However many shots there are, the draft refers to what it has and the stored package is valid.
THEOREM FilmStaysValid == Spec => [](RefersToItself(draft) /\ ValidPackage(film))
<1>1. Sound => RefersToItself(draft) /\ ValidPackage(film)
  BY GoodStoryIs DEF Sound
<1> QED
  BY <1>1, SoundInit, SoundNext, PTL DEF Spec

\* The next version has at most a thousand shots, each rounded to a hundredth of a second:
\* with more, the rounding alone may exceed the validator's tolerance of five seconds.
FewShots ==
  \A agent \in Agents : Len(RevisedShots(StoryFromPackage(film), Plan, agent)) <= 1000

\* No job is refused for what assembly and carry_over built.
LEMMA SoundStep == Sound /\ FewShots /\ outcome # "refused" /\ [Next]_vars => outcome' # "refused"
<1> SUFFICES ASSUME Sound, FewShots, outcome # "refused", [Next]_vars PROVE outcome' # "refused"
  OBVIOUS
<1>1. ASSUME NEW agent \in Agents, Revise(agent) PROVE outcome' # "refused"
  <2> DEFINE story == StoryFromPackage(film)
             built == RunRevision(story, Plan, agent)
             shots == RevisedShots(story, Plan, agent)
  <2>1. GoodPackage(film) /\ GoodStory(draft)
    BY DEF Sound
  <2>2. Built(built, draft, shots)
    BY <2>1, RevisionIsBuilt DEF Plan
  <2>3. Len(shots) <= 1000
    BY DEF FewShots
  <2>4. ValidPackage(built) => outcome' \in {"planned", "agent"}
    BY <1>1 DEF Revise
  <2> HIDE DEF built, shots
  <2>5. ValidPackage(built)
    BY <2>2, <2>3 DEF Built, ValidPackage
  <2> QED
    BY <2>4, <2>5
<1>2. CASE Edit \/ Keep \/ AcceptProposal \/ HandWrite \/ Produce \/ UNCHANGED vars
  BY <1>2 DEF Edit, Keep, AcceptProposal, HandWrite, Produce, vars
<1> QED
  BY <1>1, <1>2 DEF Next

\* So while versions stay that short, everything stays sound.
THEOREM JobsSucceed == Spec /\ []FewShots => []StaysSound
<1> DEFINE Inv == Sound /\ outcome # "refused"
<1>1. Init => Inv
  BY SoundInit DEF Init
<1>2. Inv /\ FewShots /\ [Next]_vars => Inv'
  BY SoundNext, SoundStep
<1>3. Inv => StaysSound
  BY GoodStoryIs DEF Sound, StaysSound
<1> HIDE DEF Inv
<1>4. Inv /\ []FewShots /\ [][Next]_vars => []Inv
  BY <1>2, PTL
<1> QED
  BY <1>1, <1>3, <1>4, PTL DEF Spec

-----------------------------------------------------------------------------
(* What a new version tells. *)

\* One place of a sequence picked.
LEMMA PickedOne ==
  ASSUME NEW s, IsSeq(s), NEW i \in 1..Len(s), NEW P, P = {i}
  PROVE  Picked(s, P) = <<s[i]>>
<1> DEFINE g == [k \in 1..1 |-> i]
<1>1. Len(s) \in Nat /\ i \in Nat /\ i >= 1 /\ i <= Len(s)
  BY SeqFacts
<1>2. Places(P, Len(s))
  BY <1>1 DEF Places
<1>3. Goes(g, 1, P)
  BY DEF Goes
<1> HIDE DEF g
<1>4. Shows(Picked(s, P), s, g, 1)
  BY <1>1, <1>2, <1>3, PickedBy
<1>5. IsSeq(Picked(s, P)) /\ Len(Picked(s, P)) = 1 /\ Picked(s, P)[1] = s[i]
  BY <1>4 DEF Shows, g
<1> DEFINE x == s[i]
<1>6. Picked(s, P)[1] = x
  BY <1>5
<1> HIDE DEF x
<1>7. IsSeq(<<x>>) /\ Len(<<x>>) = 1 /\ <<x>>[1] = x
  BY Single
<1>8. \A k \in 1..1 : k = 1
  OBVIOUS
<1>9. Picked(s, P) = <<x>>
  BY <1>5, <1>6, <1>7, <1>8, SeqSame
<1> QED
  BY <1>9 DEF x

\* The same places of two sequences picked.
LEMMA PickedAlike ==
  ASSUME NEW s, IsSeq(s), NEW t, IsSeq(t), Len(t) = Len(s), NEW P, P \subseteq DOMAIN s
  PROVE  /\ IsSeq(Picked(s, P)) /\ IsSeq(Picked(t, P)) /\ Len(Picked(t, P)) = Len(Picked(s, P))
         /\ \A k \in 1..Len(Picked(s, P)) :
              \E i \in 1..Len(s) : Picked(s, P)[k] = s[i] /\ Picked(t, P)[k] = t[i]
<1> DEFINE m == Cardinality(P)
<1>1. Len(s) \in Nat /\ DOMAIN s = 1..Len(s)
  BY SeqFacts
<1>2. Places(P, Len(s))
  BY <1>1 DEF Places
<1>3. PICK g : Goes(g, m, P)
  BY <1>1, <1>2, PickedGoes
<1>4. m \in Nat
  BY <1>1, <1>2, PlacesAreFinite
<1> HIDE DEF m
<1>5. Shows(Picked(s, P), s, g, m) /\ Shows(Picked(t, P), t, g, m)
  BY <1>1, <1>2, <1>3, <1>4, PickedBy
<1>6. \A k \in 1..m : g[k] \in 1..Len(s)
  BY <1>1, <1>3 DEF Goes
<1> QED
  BY <1>5, <1>6 DEF Shows

\* Blocks of one element each.
LEMMA FlattenSingles ==
  ASSUME NEW s, IsSeq(s), NEW b, b = [i \in 1..Len(s) |-> <<s[i]>>]
  PROVE  FlattenSeq(b) = s
<1> DEFINE n == Len(s)
           r == FlattenSeq(b)
<1>1. n \in Nat
  BY SeqFacts
<1>2. b = [i \in 1..n |-> b[i]] /\ \A i \in 1..n : b[i] = <<s[i]>>
  OBVIOUS
<1>3. IsSeq(b) /\ Len(b) = n
  BY <1>1, <1>2, SeqMade
<1>4. \A i \in 1..n : IsSeq(b[i]) /\ Len(b[i]) = 1 /\ b[i][1] = s[i]
  BY <1>2, Single
<1>5. IsBlocks(b)
  BY <1>3, <1>4 DEF IsBlocks
<1>6. PICK off : Flattens(b, off, r)
  BY <1>5, FlattenIs
<1> HIDE DEF n, r
<1>7. off \in [0..n -> Nat] /\ off[0] = 0 /\ \A i \in 1..n : off[i] = off[i - 1] + 1
  <2>1. /\ off \in [0..n -> Nat] /\ off[0] = 0
        /\ \A i \in 1..n : off[i] = off[i - 1] + Len(b[i])
    BY <1>3, <1>6 DEF Flattens
  <2>2. \A i \in 1..n : Len(b[i]) = 1
    BY <1>4
  <2> QED
    BY <2>1, <2>2
<1>8. \A i \in 0..n : off[i] = i
  <2> DEFINE T == {i \in 0..n : off[i] # i}
  <2> SUFFICES ASSUME T # {} PROVE FALSE
    OBVIOUS
  <2>1. T \in SUBSET Nat
    BY <1>1
  <2>2. PICK m \in T : \A k \in T : m <= k
    BY <2>1, Least
  <2>3. m \in 0..n /\ off[m] # m /\ m # 0
    BY <1>7, <2>2
  <2>4. m \in 1..n /\ m - 1 \in 0..n /\ m - 1 < m
    BY <1>1, <2>3
  <2>5. off[m - 1] = m - 1
    BY <2>1, <2>2, <2>4
  <2> QED
    BY <1>7, <2>3, <2>4, <2>5
<1>9. IsSeq(r) /\ Len(r) = n
  BY <1>1, <1>3, <1>6, <1>8 DEF Flattens
<1>10. ASSUME NEW i \in 1..n PROVE r[i] = s[i]
  <2> DEFINE j == i - 1
  <2>3. j \in 0..n /\ j + 1 = i
    BY <1>1
  <2>4. off[j] = j
    BY <1>8, <2>3
  <2>5. i \in 1..Len(b) /\ Len(b[i]) = 1 /\ 1 \in 1..1
    BY <1>3, <1>4
  <2>1. i \in 1..Len(b) /\ 1 \in 1..Len(b[i]) /\ off[i - 1] = i - 1 /\ i - 1 + 1 = i
    BY <2>3, <2>4, <2>5
  <2>2. r[off[i - 1] + 1] = b[i][1]
    BY <1>6, <2>1 DEF Flattens
  <2> QED
    BY <1>4, <2>1, <2>2
<1> QED
  BY <1>9, <1>10, SeqSame DEF n, r

\* The videos of a package whose timeline they follow are read in their order.
LEMMA VideosInOrder ==
  ASSUME NEW pkg, IsSeq(pkg.assets), NEW n \in Nat,
         pkg.timeline = [i \in 1..n |-> ShotNode(i)], Len(OfType(pkg, "video")) = n,
         \A i \in 1..n : OfType(pkg, "video")[i].id = ShotNode(i)
  PROVE  Videos(pkg) = OfType(pkg, "video")
<1> DEFINE videos == OfType(pkg, "video")
           P(i) == {k \in DOMAIN videos : videos[k].id = pkg.timeline[i]}
           Q == {k \in DOMAIN videos : videos[k].id \notin ToSet(pkg.timeline)}
           b == [i \in DOMAIN pkg.timeline |-> Picked(videos, P(i))]
<1>1. Videos(pkg) = FlattenSeq(b) \o Picked(videos, Q)
  BY DEF Videos, Where
<1>2. IsSeq(videos)
  BY OfTypeIs
<1> HIDE DEF videos
<1>3. DOMAIN videos = 1..n /\ Len(videos) = n /\ \A i \in 1..n : videos[i].id = ShotNode(i)
  BY <1>2, SeqFacts DEF videos
<1>4. DOMAIN pkg.timeline = 1..n /\ \A i \in 1..n : pkg.timeline[i] = ShotNode(i)
  OBVIOUS
<1>5. ASSUME NEW i \in 1..n PROVE b[i] = <<videos[i]>>
  <2> DEFINE R == P(i)
  <2>1. R = {i}
    BY <1>3, <1>4 DEF ShotNode
  <2>2. b[i] = Picked(videos, R)
    BY <1>4
  <2> HIDE DEF R
  <2>3. Picked(videos, R) = <<videos[i]>>
    BY <1>2, <1>3, <2>1, PickedOne
  <2> QED
    BY <2>2, <2>3
<1>6. b = [i \in 1..Len(videos) |-> <<videos[i]>>]
  BY <1>3, <1>4, <1>5
<1> HIDE DEF b
<1>7. FlattenSeq(b) = videos
  BY <1>2, <1>6, FlattenSingles
<1>8. Q = {}
  <2>1. \A i \in 1..n : ShotNode(i) \in ToSet(pkg.timeline)
    BY <1>4 DEF ToSet
  <2> QED
    BY <1>3, <2>1
<1>9. Picked(videos, Q) = <<>>
  BY <1>8, PickedNone
<1>10. videos \o <<>> = videos
  BY <1>2, ConcatEmpty
<1> QED
  BY <1>1, <1>7, <1>9, <1>10 DEF videos

\* The place of a scene in its story.
LEMMA PlaceOfIs ==
  ASSUME NEW s, IsSeq(s.scenes), DistinctIds(s.scenes), NEW i \in 1..Len(s.scenes),
         NEW x, x.scene = s.scenes[i].id
  PROVE  PlaceOf(s, x) = i
<1> DEFINE T == {k \in 1..Len(s.scenes) : s.scenes[k].id = x.scene}
<1>1. Len(s.scenes) \in Nat
  BY SeqFacts
<1>2. \A k \in 1..Len(s.scenes) : s.scenes[k].id = s.scenes[i].id => k = i
  BY DistinctIdsIs
<1>3. T = {i}
  BY <1>2
<1>4. PlaceOf(s, x) = IF T # {} THEN Min(T) ELSE 0
  BY DEF PlaceOf, SelectInSeq
<1> HIDE DEF T
<1>5. T \in SUBSET Nat /\ i \in T /\ \A k \in T : i <= k
  BY <1>1, <1>3
<1>6. Min(T) = i
  BY <1>5, MinIs
<1> QED
  BY <1>3, <1>4, <1>6

\* The shots of a scene.
InScene(shots, id) == Where(shots, LAMBDA x : x.scene = id)

\* The story s is told by these shots in its order, each scene in its block.
Spliced(shots, s, b) ==
  /\ \A h \in 1..Len(s.scenes) : InScene(shots, s.scenes[h].id) = b[h]
  /\ \A p, q \in 1..Len(shots) : p < q =>
       \E i, j \in 1..Len(s.scenes) :
         i <= j /\ shots[p].scene = s.scenes[i].id /\ shots[q].scene = s.scenes[j].id

\* Blocks with the shots of a scene each.
BlocksOf(b, s) ==
  /\ IsBlocks(b) /\ Len(b) = Len(s.scenes)
  /\ \A i \in 1..Len(b) : \A k \in 1..Len(b[i]) : b[i][k].scene = s.scenes[i].id

\* Flattened, they tell the story.
LEMMA FlattenedBlocks ==
  ASSUME NEW s, IsSeq(s.scenes), DistinctIds(s.scenes), NEW b, BlocksOf(b, s)
  PROVE  Spliced(FlattenSeq(b), s, b)
<1> DEFINE n == Len(b)
           r == FlattenSeq(b)
           key(i) == s.scenes[i].id
<1>1. IsBlocks(b) /\ n \in Nat /\ Len(s.scenes) = n
  BY SeqFacts DEF BlocksOf
<1>2. PICK off : Flattens(b, off, r)
  BY <1>1, FlattenIs
<1>3. \A i, j \in 1..n : key(i) = key(j) => i = j
  BY <1>1, DistinctIdsIs
<1>4. \A i \in 1..n : \A k \in 1..Len(b[i]) : b[i][k].scene = key(i)
  BY DEF BlocksOf
<1> HIDE DEF key, r
<1>5. IsSeq(r) /\ Len(r) \in Nat /\ DOMAIN r = 1..Len(r)
  BY <1>2, SeqFacts DEF Flattens
<1>6. \A i \in 1..n : \A k \in 1..Len(b[i]) :
        off[i - 1] + k \in 1..Len(r) /\ r[off[i - 1] + k].scene = key(i)
  <2>1. \A i \in 1..n : \A k \in 1..Len(b[i]) :
          off[i - 1] + k \in 1..Len(r) /\ r[off[i - 1] + k] = b[i][k]
    BY <1>2 DEF Flattens
  <2> QED
    BY <1>4, <2>1
<1>7. ASSUME NEW h \in 1..n PROVE InScene(r, key(h)) = b[h]
  <2> DEFINE P == {p \in DOMAIN r : r[p].scene = key(h)}
  <2>1. InScene(r, key(h)) = Picked(r, P)
    BY DEF InScene, Where
  <2>2. P \subseteq DOMAIN r
    OBVIOUS
  <2>3. \A i \in 1..n : \A k \in 1..Len(b[i]) : off[i - 1] + k \in P <=> i = h
    BY <1>3, <1>5, <1>6
  <2> HIDE DEF P
  <2>4. Picked(r, P) = b[h]
    BY <1>1, <1>2, <2>2, <2>3, FlattenPick
  <2> QED
    BY <2>1, <2>4
<1>8. ASSUME NEW p \in 1..Len(r), NEW q \in 1..Len(r), p < q
      PROVE  \E i, j \in 1..n : i <= j /\ r[p].scene = key(i) /\ r[q].scene = key(j)
  <2>1. \A m \in 1..Len(r) : \E i \in 1..n : \E k \in 1..Len(b[i]) : m = off[i - 1] + k
    BY <1>2 DEF Flattens
  <2>2. PICK i \in 1..n : \E k \in 1..Len(b[i]) : p = off[i - 1] + k
    BY <2>1
  <2>3. PICK k \in 1..Len(b[i]) : p = off[i - 1] + k
    BY <2>2
  <2>4. PICK j \in 1..n : \E l \in 1..Len(b[j]) : q = off[j - 1] + l
    BY <2>1
  <2>5. PICK l \in 1..Len(b[j]) : q = off[j - 1] + l
    BY <2>4
  <2>6. r[p].scene = key(i) /\ r[q].scene = key(j)
    BY <1>6, <2>3, <2>5
  <2>7. i <= j
    <3> SUFFICES ASSUME j < i PROVE FALSE
      BY <1>1
    <3> DEFINE h == i - 1
               g == j - 1
    <3>1. h \in 0..n /\ g \in 0..n /\ j <= h /\ j \in 0..n
      BY <1>1
    <3>2. off[j] <= off[h]
      BY <1>1, <1>2, <3>1, FlattensOrder
    <3>3. off \in [0..n -> Nat] /\ off[j] = off[g] + Len(b[j])
      BY <1>2 DEF Flattens
    <3>4. off[j] \in Nat /\ off[h] \in Nat /\ off[g] \in Nat
      BY <3>1, <3>3
    <3>5. p = off[h] + k /\ q = off[g] + l
      BY <2>3, <2>5
    <3>6. Len(b[j]) \in Nat /\ Len(b[i]) \in Nat
      BY <1>1, SeqFacts DEF IsBlocks
    <3> DEFINE Lj == Len(b[j])
               Li == Len(b[i])
    <3>7. l \in 1..Lj /\ k \in 1..Li /\ Li \in Nat /\ Lj \in Nat /\ off[j] = off[g] + Lj
      BY <3>3, <3>6
    <3> DEFINE A == off[h]
               B == off[g]
               C == off[j]
    <3>8. /\ A \in Nat /\ B \in Nat /\ C \in Nat /\ C = B + Lj /\ C <= A /\ p = A + k /\ q = B + l
          /\ p < q
      BY <1>8, <3>2, <3>4, <3>5, <3>7
    <3> HIDE DEF A, B, C, Lj, Li
    <3> QED
      BY <3>7, <3>8
  <2> QED
    BY <2>6, <2>7
<1> QED
  BY <1>1, <1>7, <1>8 DEF Spliced, key, r

\* Also with shots planned again among them.
LEMMA SpliceTells ==
  ASSUME NEW s, GoodStory(s), NEW others, NEW r, Replanned(r, s, others),
         \A x \in ToSet(s.shots) : x.scene \notin DOMAIN r => x.id \in Ids(others)
  PROVE  Spliced(SpliceShots(s, r), s, SpliceBlocks(s, r))
<1> DEFINE b == SpliceBlocks(s, r)
<1>1. SpliceShots(s, r) = FlattenSeq(b)
  BY DEF SpliceShots, SpliceBlocks
<1>2. /\ IsBlocks(b) /\ Len(b) = Len(s.scenes)
      /\ \A i \in 1..Len(b) : /\ GoodBreakdown(b[i], s.world, s.scenes)
                              /\ \A x \in ToSet(b[i]) : x.scene = s.scenes[i].id
  BY SpliceBlocksAre
<1>3. IsSeq(s.scenes) /\ DistinctIds(s.scenes)
  BY DEF GoodStory, GoodScript, IsScript
<1> HIDE DEF b
<1>4. \A i \in 1..Len(b) : \A k \in 1..Len(b[i]) : b[i][k] \in ToSet(b[i])
  BY <1>2, SeqFacts DEF IsBlocks
<1>5. BlocksOf(b, s)
  BY <1>2, <1>4 DEF BlocksOf
<1>6. Spliced(FlattenSeq(b), s, b)
  BY <1>3, <1>5, FlattenedBlocks
<1> QED
  BY <1>1, <1>6 DEF b

-----------------------------------------------------------------------------
\* The story read out of a package built of these shots for a draft.
ReadBack(t, s, shots) ==
  /\ t.brief = s.brief /\ t.world = s.world /\ t.scenes = s.scenes
  /\ IsSeq(t.shots) /\ Len(t.shots) = Len(shots)
  /\ \A i \in 1..Len(shots) :
       t.shots[i].scene = shots[i].scene /\ PromptInputs(t.shots[i]) = PromptInputs(shots[i])

\* The brief is that of the draft.
LEMMA BriefIsReadBack ==
  ASSUME NEW pkg, NEW s, NEW shots, Built(pkg, s, shots), GoodStory(s), NamedBrief(s)
  PROVE  StoryFromPackage(pkg).brief = s.brief
<1> DEFINE vos == Voiceovers(pkg)
           voice == IF vos # <<>> THEN vos[1].voice ELSE pkg.brief.voice
           b == pkg.brief
           c == [b EXCEPT !.voice = voice]
           d == s.brief
<1>1. StoryFromPackage(pkg).brief = c
  BY DEF StoryFromPackage
<1>2. PICK narr : vos = <<narr>> /\ (s.brief.voice # "none" => narr.voice = s.brief.voice)
  BY DEF Built
<1>3. voice = d.voice
  <2>1. <<narr>> # <<>> /\ <<narr>>[1] = narr
    OBVIOUS
  <2> QED
    BY <1>2, <2>1 DEF NamedBrief
<1>4. b = [length |-> b.length, style |-> b.style, voice |-> b.voice]
  BY DEF Built, GoodPackage, IsPackage, IsBrief
<1>5. d = [length |-> d.length, style |-> d.style, voice |-> d.voice]
  BY DEF GoodStory, IsBrief
<1>6. b.length = d.length /\ b.style = d.style
  BY DEF Built, NamedBrief
<1> HIDE DEF voice, b, d
<1>7. c = [length |-> b.length, style |-> b.style, voice |-> voice]
  BY <1>4
<1> HIDE DEF c
<1>8. c = d
  BY <1>3, <1>5, <1>6, <1>7
<1> QED
  BY <1>1, <1>8 DEF d

\* Each shot is read by its tags.
LEMMA ShotIsReadBack ==
  ASSUME NEW pkg, NEW s, GoodStory(s), NEW shots, GoodBreakdown(shots, s.world, s.scenes),
         Built(pkg, s, shots), NEW i \in 1..Len(shots), NEW asset, asset.id = ShotNode(i)
  PROVE  /\ ShotOf(pkg, asset).scene = shots[i].scene
         /\ PromptInputs(ShotOf(pkg, asset)) = PromptInputs(shots[i])
<1> DEFINE tags == pkg.shots
           n == Len(shots)
           scenes == ScenesOf(pkg)
           ns == ById(tags, ShotNode(i))
           x == shots[i]
<1>1. IsSeq(shots)
  BY DEF GoodBreakdown
<1>2. n \in Nat /\ DOMAIN shots = 1..n /\ \A k \in 1..n : shots[k] \in ToSet(shots)
  BY <1>1, SeqFacts
<1>3. tags = [k \in DOMAIN shots |-> [shots[k] EXCEPT !.id = ShotNode(k)]]
  BY DEF Built
<1>4. \A k \in 1..n : GoodShot(shots[k], s.world, s.scenes)
  BY <1>2 DEF GoodBreakdown
<1>5. tags = [k \in 1..n |-> tags[k]] /\ \A k \in 1..n : tags[k] = [shots[k] EXCEPT !.id = ShotNode(k)]
  BY <1>2, <1>3, Zenon
<1> HIDE DEF tags
<1>6. IsSeq(tags) /\ Len(tags) = n
  BY <1>2, <1>5, SeqMade
<1>7. ASSUME NEW k \in 1..n
      PROVE  /\ tags[k].id = ShotNode(k) /\ tags[k].scene = shots[k].scene /\ tags[k].action = shots[k].action
             /\ tags[k].location = shots[k].location /\ tags[k].subjects = shots[k].subjects
  <2> DEFINE y == shots[k]
             id == ShotNode(k)
             z == tags[k]
  <2>1. z = [y EXCEPT !.id = id]
    BY <1>5
  <2>2. {"id", "scene", "action", "length", "location", "subjects"} \subseteq DOMAIN y
    BY <1>4 DEF GoodShot
  <2> HIDE DEF y, id, z
  <2>3. z.id = id /\ z.scene = y.scene /\ z.action = y.action /\ z.location = y.location /\ z.subjects = y.subjects
    BY <2>1, <2>2
  <2> QED
    BY <2>3 DEF y, id, z
<1>8. DistinctIds(tags)
  <2>1. \A k, l \in 1..n : tags[k].id = tags[l].id => k = l
    BY <1>7 DEF ShotNode
  <2> QED
    BY <1>6, <2>1, DistinctIdsIs
<1>9. i \in 1..Len(tags)
  BY <1>6
<1>10. ns = tags[i]
  <2>1. ById(tags, tags[i].id) = tags[i]
    BY <1>6, <1>8, <1>9, ByIdOf
  <2> QED
    BY <1>7, <2>1
<1>11. ShotNode(i) \in Ids(tags)
  <2>1. Ids(tags) = {tags[k].id : k \in 1..Len(tags)}
    BY <1>6, IdsIs
  <2> QED
    BY <1>7, <1>9, <2>1
<1>12. scenes = s.scenes
  <2>1. pkg.scenes = s.scenes /\ s.scenes # <<>>
    BY DEF Built, GoodStory, GoodScript
  <2> QED
    BY <2>1 DEF ScenesOf
<1>13. x.scene \in Ids(scenes)
  BY <1>4, <1>12 DEF GoodShot
<1>14. /\ ns.scene = x.scene /\ ns.action = x.action /\ ns.location = x.location /\ ns.subjects = x.subjects
  BY <1>7, <1>10
<1> DEFINE told == [id |-> asset.id, scene |-> ns.scene, length |-> asset.length, action |-> ns.action,
                    location |-> ns.location, subjects |-> ns.subjects]
<1>15. ShotOf(pkg, asset) = told
  <2> HIDE DEF scenes, ns
  <2>1. asset.id \in Ids(pkg.shots) /\ ns.scene \in Ids(scenes)
    BY <1>11, <1>13, <1>14 DEF tags
  <2>2. ns = ById(pkg.shots, asset.id)
    BY DEF ns, tags
  <2> QED
    BY <2>1, <2>2 DEF ShotOf, scenes
<1> HIDE DEF ns
<1>16. /\ told.scene = ns.scene /\ told.action = ns.action /\ told.location = ns.location
       /\ told.subjects = ns.subjects
  OBVIOUS
<1> HIDE DEF told
<1> QED
  BY <1>14, <1>15, <1>16 DEF PromptInputs

\* What carry_over built for a draft is read back as that draft.
LEMMA BuiltIsReadBack ==
  ASSUME NEW pkg, NEW s, GoodStory(s), NamedBrief(s), NEW shots, GoodBreakdown(shots, s.world, s.scenes),
         Built(pkg, s, shots)
  PROVE  ReadBack(StoryFromPackage(pkg), s, shots)
<1> DEFINE t == StoryFromPackage(pkg)
           videos == Videos(pkg)
           n == Len(shots)
           read == [i \in DOMAIN videos |-> ShotOf(pkg, videos[i])]
<1>1. t.brief = s.brief
  BY BriefIsReadBack
<1>2. t.world = pkg.world /\ t.scenes = ScenesOf(pkg) /\ t.shots = read
  BY DEF StoryFromPackage, ShotOf
<1>3. pkg.world = s.world /\ ScenesOf(pkg) = s.scenes
  BY DEF Built, ScenesOf, GoodStory, GoodScript
<1>4. IsSeq(shots) /\ n \in Nat /\ DOMAIN shots = 1..n
  BY SeqFacts DEF GoodBreakdown
<1>5. IsSeq(videos) /\ Len(videos) = n /\ \A i \in 1..n : videos[i].id = ShotNode(i)
  <2> DEFINE own == OfType(pkg, "video")
  <2>1. IsSeq(pkg.assets)
    BY DEF Built, GoodPackage, IsPackage
  <2>2. IsSeq(own)
    BY <2>1, OfTypeIs
  <2>3. pkg.timeline = [i \in 1..n |-> ShotNode(i)] /\ Len(own) = n /\ \A i \in 1..n : own[i].id = ShotNode(i)
    BY <1>4 DEF Built
  <2>4. videos = own
    BY <1>4, <2>1, <2>3, VideosInOrder
  <2> HIDE DEF own, videos
  <2> QED
    BY <2>2, <2>3, <2>4
<1> HIDE DEF videos
<1>6. DOMAIN videos = 1..n
  BY <1>5, SeqFacts
<1>7. read = [i \in 1..n |-> read[i]] /\ \A i \in 1..n : read[i] = ShotOf(pkg, videos[i])
  BY <1>6
<1> HIDE DEF read
<1>8. IsSeq(read) /\ Len(read) = n
  BY <1>4, <1>7, SeqMade
<1>9. ASSUME NEW i \in 1..n
      PROVE  read[i].scene = shots[i].scene /\ PromptInputs(read[i]) = PromptInputs(shots[i])
  <2> DEFINE asset == videos[i]
  <2>1. asset.id = ShotNode(i) /\ read[i] = ShotOf(pkg, asset)
    BY <1>5, <1>7
  <2> HIDE DEF asset
  <2>2. /\ ShotOf(pkg, asset).scene = shots[i].scene
        /\ PromptInputs(ShotOf(pkg, asset)) = PromptInputs(shots[i])
    BY <2>1, ShotIsReadBack
  <2> QED
    BY <2>1, <2>2
<1> HIDE DEF t
<1>10. ReadBack(t, s, shots)
  BY <1>1, <1>2, <1>3, <1>8, <1>9 DEF ReadBack
<1> QED
  BY <1>10 DEF t

\* Shots that tell the same, scene for scene, do so within each scene.
LEMMA SameTold ==
  ASSUME NEW t, NEW shots, IsSeq(shots), IsSeq(t.shots), Len(t.shots) = Len(shots),
         \A i \in 1..Len(shots) :
           t.shots[i].scene = shots[i].scene /\ PromptInputs(t.shots[i]) = PromptInputs(shots[i]),
         NEW id, NEW block, block = InScene(shots, id)
  PROVE  /\ IsSeq(block)
         /\ ToldIn(t, id) = [k \in 1..Len(block) |-> PromptInputs(block[k])]
<1> DEFINE other == t.shots
           P == {i \in DOMAIN shots : shots[i].scene = id}
           Q == {i \in DOMAIN other : other[i].scene = id}
           X == ShotsOf(t, id)
<1>1. DOMAIN shots = 1..Len(shots) /\ DOMAIN other = 1..Len(shots)
  BY SeqFacts
<1>2. P = Q
  BY <1>1
<1>3. X = Picked(other, Q) /\ block = Picked(shots, P)
  BY DEF ShotsOf, InScene, Where
<1>4. P \subseteq DOMAIN shots
  OBVIOUS
<1>5. \A i \in 1..Len(shots) : PromptInputs(other[i]) = PromptInputs(shots[i])
  OBVIOUS
<1>6. ToldIn(t, id) = [k \in DOMAIN X |-> PromptInputs(X[k])]
  BY DEF ToldIn
<1> HIDE DEF other, P, Q, X
<1>7. /\ IsSeq(Picked(shots, P)) /\ IsSeq(Picked(other, P)) /\ Len(Picked(other, P)) = Len(Picked(shots, P))
      /\ \A k \in 1..Len(Picked(shots, P)) :
           \E i \in 1..Len(shots) : Picked(shots, P)[k] = shots[i] /\ Picked(other, P)[k] = other[i]
  <2>1. IsSeq(other) /\ Len(other) = Len(shots)
    BY DEF other
  <2> QED
    BY <1>4, <2>1, PickedAlike
<1>8. /\ IsSeq(block) /\ IsSeq(X) /\ Len(X) = Len(block)
      /\ \A k \in 1..Len(block) : \E i \in 1..Len(shots) : block[k] = shots[i] /\ X[k] = other[i]
  BY <1>2, <1>3, <1>7
<1>9. DOMAIN X = 1..Len(block) /\ \A k \in 1..Len(block) : PromptInputs(X[k]) = PromptInputs(block[k])
  BY <1>5, <1>8, SeqFacts
<1> QED
  BY <1>6, <1>8, <1>9

\* A draft read back with some scenes planned again tells its story.
LEMMA ReadBackTells ==
  ASSUME NEW s, GoodStory(s), NEW r, Replanned(r, s, s.shots),
         NEW shots, shots = SpliceShots(s, r), IsSeq(shots), NEW t, ReadBack(t, s, shots)
  PROVE  TellsStory(t, s, DOMAIN r)
<1> DEFINE b == SpliceBlocks(s, r)
           n == Len(s.scenes)
<1>1. IsSeq(s.scenes) /\ DistinctIds(s.scenes) /\ IsSeq(s.shots)
  BY DEF GoodStory, GoodScript, IsScript, GoodBreakdown
<1>2. \A x \in ToSet(s.shots) : x.scene \notin DOMAIN r => x.id \in Ids(s.shots)
  BY <1>1, IdsIs
<1>3. Spliced(shots, s, b)
  BY <1>2, SpliceTells
<1>4. /\ Len(b) = n
      /\ \A i \in 1..n : b[i] = IF s.scenes[i].id \in DOMAIN r THEN r[s.scenes[i].id]
                                ELSE ShotsOf(s, s.scenes[i].id)
  BY <1>2, SpliceBlocksAre
<1> HIDE DEF b
<1>5. /\ IsSeq(t.shots) /\ Len(t.shots) = Len(shots)
      /\ \A i \in 1..Len(shots) :
           t.shots[i].scene = shots[i].scene /\ PromptInputs(t.shots[i]) = PromptInputs(shots[i])
  BY DEF ReadBack
<1>6. ASSUME NEW h \in 1..n
      PROVE  LET id == s.scenes[h].id IN
             IF id \in DOMAIN r THEN ToldIn(t, id) # <<>> ELSE ToldIn(t, id) = ToldIn(s, id)
  <2> DEFINE id == s.scenes[h].id
             block == b[h]
  <2>1. block = InScene(shots, id)
    BY <1>3 DEF Spliced
  <2>2. block = IF id \in DOMAIN r THEN r[id] ELSE ShotsOf(s, id)
    BY <1>4
  <2> HIDE DEF id, block
  <2>3. IsSeq(block) /\ ToldIn(t, id) = [k \in 1..Len(block) |-> PromptInputs(block[k])]
    BY <1>5, <2>1, SameTold
  <2>4. Len(block) \in Nat /\ DOMAIN block = 1..Len(block)
    BY <2>3, SeqFacts
  <2>5. CASE id \in DOMAIN r
    <3>1. Len(r[id]) >= 1 /\ block = r[id]
      BY <2>2, <2>5 DEF Replanned
    <3>2. 1 \in 1..Len(block)
      BY <2>4, <3>1
    <3>3. 1 \in DOMAIN ToldIn(t, id)
      BY <2>3, <3>2
    <3> QED
      BY <2>5, <3>3 DEF id
  <2>6. CASE id \notin DOMAIN r
    <3>1. block = ShotsOf(s, id)
      BY <2>2, <2>6
    <3>2. ToldIn(s, id) = [k \in DOMAIN block |-> PromptInputs(block[k])]
      BY <3>1 DEF ToldIn
    <3>3. ToldIn(s, id) = ToldIn(t, id)
      BY <2>3, <2>4, <3>2
    <3> QED
      BY <2>6, <3>3 DEF id
  <2> QED
    BY <2>5, <2>6
<1>7. \A id \in Ids(s.scenes) : IF id \in DOMAIN r THEN ToldIn(t, id) # <<>> ELSE ToldIn(t, id) = ToldIn(s, id)
  <2>1. Ids(s.scenes) = {s.scenes[i].id : i \in 1..n}
    BY <1>1, IdsIs
  <2> QED
    BY <1>6, <2>1
<1>8. ASSUME NEW p \in DOMAIN t.shots, NEW q \in DOMAIN t.shots, p < q
      PROVE  PlaceOf(s, t.shots[p]) <= PlaceOf(s, t.shots[q])
  <2>1. p \in 1..Len(shots) /\ q \in 1..Len(shots)
    BY <1>5, SeqFacts
  <2>2. \E i, j \in 1..n : i <= j /\ shots[p].scene = s.scenes[i].id /\ shots[q].scene = s.scenes[j].id
    BY <1>3, <1>8, <2>1 DEF Spliced
  <2>3. PICK i \in 1..n, j \in 1..n :
          i <= j /\ shots[p].scene = s.scenes[i].id /\ shots[q].scene = s.scenes[j].id
    BY <2>2
  <2> DEFINE x == t.shots[p]
             y == t.shots[q]
  <2>4. x.scene = s.scenes[i].id /\ y.scene = s.scenes[j].id
    BY <1>5, <2>1, <2>3
  <2> HIDE DEF x, y
  <2>5. PlaceOf(s, x) = i /\ PlaceOf(s, y) = j
    BY <1>1, <2>4, PlaceOfIs
  <2> QED
    BY <2>3, <2>5 DEF x, y
<1> QED
  BY <1>7, <1>8 DEF TellsStory, ReadBack

\* A job that ends well is one whose package is the next version.
LEMMA RevisedIs ==
  ASSUME Sound, [Next]_vars, Revised
  PROVE  TellsStory(draft', draft, Plan.stale)
<1> DEFINE parentStory == StoryFromPackage(film)
<1>1. GoodPackage(film) /\ GoodStory(draft) /\ NamedBrief(draft)
  BY DEF Sound
<1>2. \E agent \in Agents : Revise(agent)
  <2>1. CASE Edit \/ Keep \/ AcceptProposal \/ HandWrite \/ Produce \/ UNCHANGED vars
    BY <2>1 DEF Edit, Keep, AcceptProposal, HandWrite, Produce, vars, Revised
  <2> QED
    BY <2>1 DEF Next
<1>3. PICK agent \in Agents : Revise(agent)
  BY <1>2
<1> DEFINE built == RunRevision(parentStory, Plan, agent)
           shots == RevisedShots(parentStory, Plan, agent)
<1>4. draft' = StoryFromPackage(built)
  BY <1>3 DEF Revise, Revised
<1>5. Built(built, draft, shots)
  BY <1>1, RevisionIsBuilt DEF Plan
<1>6. /\ \E r : DOMAIN r = Plan.stale /\ Replanned(r, draft, draft.shots) /\ shots = SpliceShots(draft, r)
      /\ GoodBreakdown(shots, draft.world, draft.scenes)
  <2>1. Plan = PlanRevision(film, parentStory, draft, keep)
    BY DEF Plan
  <2> HIDE DEF parentStory
  <2> QED
    BY <1>1, <2>1, RevisedShotsIs DEF parentStory
<1> HIDE DEF built, shots
<1>7. ReadBack(draft', draft, shots)
  BY <1>1, <1>4, <1>5, <1>6, BuiltIsReadBack
<1>8. PICK r : DOMAIN r = Plan.stale /\ Replanned(r, draft, draft.shots) /\ shots = SpliceShots(draft, r)
  BY <1>6
<1>9. IsSeq(shots)
  BY <1>6 DEF GoodBreakdown
<1>10. TellsStory(draft', draft, DOMAIN r)
  BY <1>1, <1>7, <1>8, <1>9, ReadBackTells
<1> QED
  BY <1>8, <1>10

\* Every version tells the story that was submitted, however many shots it has.
THEOREM VersionsTellTheStory == Spec => StoryIsKept
<1>1. Sound /\ [Next]_vars => [Revised => TellsStory(draft', draft, Plan.stale)]_vars
  BY RevisedIs
<1> QED
  BY <1>1, SoundInit, SoundNext, PTL DEF Spec, StoryIsKept

-----------------------------------------------------------------------------
(* What carry_over takes from the parent. *)

\* The nodes of a package that carry_over made.
CarriedAll(built, pkg, images, parent, story, plan, shots) ==
  /\ \A n \in ToSet(OfType(pkg, "image")) : CarriedImage(n, parent, story, plan) \in ToSet(built.assets)
  /\ \A i \in 1..Len(OfType(pkg, "video")) :
       LET v == CarriedVideo(OfType(pkg, "video")[i], shots[i], parent, plan, images) IN
       /\ v \in ToSet(built.assets)
       /\ \A r \in ToSet(v.refs) : r \notin images => ById(parent.assets, r) \in ToSet(built.assets)
  /\ \A narr : Voiceovers(pkg) = <<narr>> => CarriedNarration(narr, parent, story, plan) \in ToSet(built.assets)
  /\ \A a \in ToSet(built.assets) : a.type # "image" => a.id[1] \in NodeNames

\* They are all there.
LEMMA CarriedNodes ==
  ASSUME NEW pkg, "assets" \in DOMAIN pkg, NEW images, Assembled(pkg, images),
         NEW parent, GoodPackage(parent), NEW story, NEW plan, NEW shots
  PROVE  CarriedAll(CarryOver(pkg, parent, story, plan, shots), pkg, images, parent, story, plan, shots)
<1> DEFINE imgs == OfType(pkg, "image")
           vids == OfType(pkg, "video")
           vos == Voiceovers(pkg)
           carried == CarriedVideos(vids, shots, parent, plan, images)
           used == ByHandUsed(carried, images)
           extra == ByHandNodes(parent, used)
           kept == CarriedImages(imgs, parent, story, plan)
           narrs == [i \in DOMAIN vos |-> CarriedNarration(vos[i], parent, story, plan)]
           built == CarryOver(pkg, parent, story, plan, shots)
<1>1. GoodImages(imgs) /\ Ids(imgs) = images /\ GoodVideos(vids, images)
  BY DEF Assembled
<1>2. PICK narr : vos = <<narr>> /\ GoodNarrator(narr)
  BY DEF Assembled
<1>3. built.assets = kept \o extra \o carried \o narrs
  <2> DEFINE ids == Ids(imgs)
             carried2 == CarriedVideos(vids, shots, parent, plan, ids)
             extra2 == ByHandNodes(parent, ByHandUsed(carried2, ids))
             all == kept \o extra2 \o carried2 \o narrs
  <2>1. built = [pkg EXCEPT !.assets = all]
    BY Zenon DEF CarryOver, CarriedVideos, ByHandUsed, ByHandNodes, CarriedImages
  <2>2. ids = images
    BY <1>1
  <2>3. all = kept \o extra \o carried \o narrs
    <3> HIDE DEF ids, kept, narrs, imgs, vids
    <3> QED
      BY <2>2
  <2> HIDE DEF all, built
  <2> QED
    BY <2>1, <2>3
<1> DEFINE spoken == CarriedNarration(narr, parent, story, plan)
<1>4. narrs = <<spoken>>
  BY <1>2
<1>5. GoodNarrator(spoken)
  BY <1>2, CarriedNarrationIs
<1>6. /\ IsSeq(carried) /\ Len(carried) = Len(vids)
      /\ \A i \in 1..Len(vids) : Revisited(carried[i], vids[i], images, Before(i), parent)
  <2> HIDE DEF vids
  <2> QED
    BY <1>1, CarriedVideosAre
<1>7. GoodImages(kept)
  <2> HIDE DEF imgs
  <2> QED
    BY <1>1, CarriedImagesAre
<1>8. \A n \in ToSet(imgs) : CarriedImage(n, parent, story, plan) \in ToSet(kept)
  <2> HIDE DEF imgs
  <2>1. IsSeq(imgs)
    BY <1>1 DEF GoodImages
  <2>2. DOMAIN imgs = 1..Len(imgs) /\ \A n \in ToSet(imgs) : \E i \in 1..Len(imgs) : imgs[i] = n
    BY <2>1, SeqFacts
  <2>3. \A i \in 1..Len(imgs) : kept[i] = CarriedImage(imgs[i], parent, story, plan)
    BY <2>2 DEF CarriedImages
  <2>4. DOMAIN kept = 1..Len(imgs)
    BY <2>2 DEF CarriedImages
  <2>5. \A i \in 1..Len(imgs) : kept[i] \in ToSet(kept)
    <3> HIDE DEF kept
    <3> QED
      BY <2>4 DEF ToSet
  <2> QED
    BY <2>2, <2>3, <2>5
<1>9. \A i \in 1..Len(vids) : carried[i] = CarriedVideo(vids[i], shots[i], parent, plan, images)
  <2> HIDE DEF vids
  <2>1. DOMAIN vids = 1..Len(vids)
    BY <1>1, SeqFacts DEF GoodVideos
  <2> QED
    BY <2>1 DEF CarriedVideos
<1> HIDE DEF carried, kept, vids, imgs, spoken, built, narrs, vos
<1>10. ASSUME NEW i \in 1..Len(carried) PROVE IsSeq(carried[i].refs)
  BY <1>6 DEF Revisited, IsAsset
<1>11. /\ IsSeq(used)
       /\ \A k, l \in 1..Len(used) : used[k] = used[l] => k = l
       /\ \A r \in ToSet(used) : r \notin images /\ \E i \in 1..Len(carried) : r \in ToSet(carried[i].refs)
       /\ \A i \in 1..Len(carried) : ToSet(carried[i].refs) \subseteq images \cup ToSet(used)
  BY <1>6, <1>10, ByHandUsedIs
<1> HIDE DEF used
<1>12. \A r \in ToSet(used) : HandAuthored(parent, r)
  BY <1>6, <1>11 DEF Revisited
<1>13. GoodImages(extra)
  BY <1>11, <1>12, ByHandNodesAre
<1>14. \A r \in ToSet(used) : ById(parent.assets, r) \in ToSet(extra)
  <2>1. DOMAIN used = 1..Len(used) /\ \A r \in ToSet(used) : \E k \in 1..Len(used) : used[k] = r
    BY <1>11, SeqFacts
  <2>2. DOMAIN extra = 1..Len(used) /\ \A k \in 1..Len(used) : extra[k] = ById(parent.assets, used[k])
    BY <2>1 DEF ByHandNodes
  <2> HIDE DEF extra
  <2>3. \A k \in 1..Len(used) : extra[k] \in ToSet(extra)
    BY <2>2 DEF ToSet
  <2> QED
    BY <2>1, <2>2, <2>3
<1> HIDE DEF extra
<1>15. ToSet(built.assets) = ToSet(kept) \cup ToSet(extra) \cup ToSet(carried) \cup {spoken}
  <2>1. IsSeq(kept) /\ IsSeq(extra) /\ IsSeq(carried) /\ IsSeq(<<spoken>>) /\ ToSet(<<spoken>>) = {spoken}
    BY <1>6, <1>7, <1>13, Single DEF GoodImages
  <2> DEFINE a == kept \o extra
             b == a \o carried
             c == b \o <<spoken>>
  <2>2. IsSeq(a) /\ ToSet(a) = ToSet(kept) \cup ToSet(extra)
    BY <2>1, Concat
  <2> HIDE DEF a
  <2>3. IsSeq(b) /\ ToSet(b) = ToSet(a) \cup ToSet(carried)
    BY <2>1, <2>2, Concat
  <2> HIDE DEF b
  <2>4. ToSet(c) = ToSet(b) \cup {spoken}
    BY <2>1, <2>3, Concat
  <2>5. built.assets = c
    BY <1>3, <1>4 DEF a, b
  <2> HIDE DEF c
  <2> QED
    BY <2>2, <2>3, <2>4, <2>5
<1>16. ASSUME NEW i \in 1..Len(vids)
       PROVE  /\ carried[i] \in ToSet(built.assets)
              /\ \A r \in ToSet(carried[i].refs) : r \notin images => ById(parent.assets, r) \in ToSet(built.assets)
  <2>1. carried[i] \in ToSet(carried)
    BY <1>6, SeqFacts
  <2>2. ToSet(carried[i].refs) \subseteq images \cup ToSet(used)
    BY <1>6, <1>11
  <2> QED
    BY <1>14, <1>15, <2>1, <2>2
<1>17. \A told : vos = <<told>> => CarriedNarration(told, parent, story, plan) \in ToSet(built.assets)
  <2>1. \A told : vos = <<told>> => told = narr
    BY <1>2
  <2> QED
    BY <1>15, <2>1 DEF spoken
<1>18. \A a \in ToSet(built.assets) : a.type # "image" => a.id[1] \in NodeNames
  <2>1. \A a \in ToSet(kept) \cup ToSet(extra) : a.type = "image"
    BY <1>7, <1>13 DEF GoodImages
  <2>2. ASSUME NEW a \in ToSet(carried) PROVE a.id[1] \in NodeNames
    <3>1. PICK i \in 1..Len(vids) : carried[i] = a
      BY <1>6, SeqFacts
    <3>2. a.id = vids[i].id /\ vids[i].id = ShotNode(i)
      BY <1>1, <1>6, <3>1 DEF Revisited, GoodVideos
    <3> QED
      BY <3>2 DEF ShotNode, NodeNames
  <2>3. spoken.id[1] \in NodeNames
    BY <1>5 DEF GoodNarrator, Narration, NodeNames
  <2> QED
    BY <1>15, <2>1, <2>2, <2>3
<1>19. \A n \in ToSet(imgs) : CarriedImage(n, parent, story, plan) \in ToSet(built.assets)
  BY <1>8, <1>15
<1>20. CarriedAll(built, pkg, images, parent, story, plan, shots)
  BY <1>9, <1>16, <1>17, <1>18, <1>19 DEF CarriedAll, imgs, vids, vos
<1> QED
  BY <1>20 DEF built

\* What a render is made from comes with what is carried.
LEMMA CarriedInputs ==
  ASSUME NEW node, IsAsset(node), NEW old, IsAsset(old), node.type = old.type,
         old.type = "video" => WholeSeconds(node.length) = WholeSeconds(old.length),
         old.type = "voiceover" => node.voice = old.voice
  PROVE  RenderInputs(Carried(node, old)) = RenderInputs(old)
<1> DEFINE a == Carried(node, old)
<1>1. /\ a.look = old.look /\ a.content = old.content /\ a.take = old.take
      /\ a.type = node.type /\ a.length = node.length /\ a.voice = node.voice
  BY DEF Carried, IsAsset
<1> HIDE DEF a
<1>2. RenderInputs(a) = RenderInputs(old)
  BY <1>1 DEF RenderInputs
<1> QED
  BY <1>2 DEF a

\* A node under its id, and its fingerprint.
LEMMA NodeFound ==
  ASSUME NEW pkg, GoodPackage(pkg), NEW a \in ToSet(pkg.assets)
  PROVE  /\ IsAsset(a) /\ a.id \in Ids(pkg.assets) /\ ById(pkg.assets, a.id) = a
         /\ Fingerprints(pkg)[a.id] = Fingerprint(pkg, a)
<1>1. IsSeq(pkg.assets) /\ DistinctIds(pkg.assets) /\ IsAsset(a)
  BY DEF GoodPackage, IsPackage, SoundPackage
<1>2. PICK i \in 1..Len(pkg.assets) : pkg.assets[i] = a
  BY <1>1, SeqFacts
<1>3. ById(pkg.assets, a.id) = a
  BY <1>1, <1>2, ByIdOf
<1>4. a.id \in Ids(pkg.assets)
  BY <1>1, IdsIs
<1>5. Fingerprints(pkg)[a.id] = Fingerprint(pkg, ById(pkg.assets, a.id))
  BY <1>4 DEF Fingerprints
<1> QED
  BY <1>1, <1>3, <1>4, <1>5

-----------------------------------------------------------------------------
(* What is found again. *)

\* A package that carry_over made for some shots of a story.
Revises(built, pkg, parent, story, plan, shots) ==
  /\ GoodPackage(parent) /\ SoundNames(parent)
  /\ GoodStory(story) /\ NamedBrief(story) /\ GoodBreakdown(shots, story.world, story.scenes)
  /\ "assets" \in DOMAIN pkg /\ MadeFor(pkg, story, shots) /\ Assembled(pkg, RefsOf(story.world))
  /\ built = CarryOver(pkg, parent, story, plan, shots) /\ GoodPackage(built)

\* What node of the parent a node of the new package continues.
CameFrom(n, shots, vos) ==
  IF n[1] = "ref" THEN n ELSE IF n[1] = "shot" THEN shots[n[2]].id ELSE vos[1].id

\* The render of a node of the parent is that of a node of the new package, which continues it.
FoundAgain(id, built, parent, shots) ==
  \E n \in Ids(built.assets) :
    Fingerprints(built)[n] = Fingerprints(parent)[id] /\ CameFrom(n, shots, Voiceovers(parent)) = id

\* A reference image of the parent whose entity is drawn as before.
KeptRef(r, parent, story, plan) ==
  r \in Ids(parent.assets) /\ \E e \in ToSet(Entities(story.world)) : RefOf(e) = r /\ e.id \notin plan.rerendered

\* All is carried over there.
LEMMA RevisesIs ==
  ASSUME NEW built, NEW pkg, NEW parent, NEW story, NEW plan, NEW shots,
         Revises(built, pkg, parent, story, plan, shots)
  PROVE  CarriedAll(built, pkg, RefsOf(story.world), parent, story, plan, shots)
<1> DEFINE images == RefsOf(story.world)
<1>1. /\ "assets" \in DOMAIN pkg /\ Assembled(pkg, images) /\ GoodPackage(parent)
      /\ built = CarryOver(pkg, parent, story, plan, shots)
  BY DEF Revises
<1> HIDE DEF images
<1>2. CarriedAll(CarryOver(pkg, parent, story, plan, shots), pkg, images, parent, story, plan, shots)
  BY <1>1, CarriedNodes
<1> QED
  BY <1>1, <1>2 DEF images

\* A node of the parent that is called as reference images are is one.
LEMMA RefIsImage ==
  ASSUME NEW pkg, GoodPackage(pkg), SoundNames(pkg), NEW r \in Ids(pkg.assets), r[1] = "ref"
  PROVE  /\ ById(pkg.assets, r) \in ToSet(pkg.assets) /\ ById(pkg.assets, r).id = r
         /\ ById(pkg.assets, r).type = "image" /\ r \in Ids(OfType(pkg, "image"))
<1> DEFINE a == ById(pkg.assets, r)
<1>1. IsSeq(pkg.assets)
  BY DEF GoodPackage, IsPackage
<1>2. a \in ToSet(pkg.assets) /\ a.id = r
  BY <1>1, ByIdIs
<1> HIDE DEF a
<1>3. a.type = "image"
  BY <1>2 DEF SoundNames
<1>4. IsSeq(OfType(pkg, "image")) /\ a \in ToSet(OfType(pkg, "image"))
  BY <1>1, <1>2, <1>3, OfTypeIs
<1>5. r \in Ids(OfType(pkg, "image"))
  <2> DEFINE s == OfType(pkg, "image")
  <2>1. IsSeq(s) /\ a \in ToSet(s)
    BY <1>4
  <2> HIDE DEF s
  <2>2. r \in Ids(s)
    BY <1>2, <2>1, IdsIs
  <2> QED
    BY <2>2 DEF s
<1> QED
  BY <1>2, <1>3, <1>5 DEF a

\* A reference image that is kept is the same render.
LEMMA RefIsKept ==
  ASSUME NEW built, NEW pkg, NEW parent, NEW story, NEW plan, NEW shots,
         Revises(built, pkg, parent, story, plan, shots), NEW r, KeptRef(r, parent, story, plan)
  PROVE  /\ r \in Ids(built.assets)
         /\ RenderInputs(ById(built.assets, r)) = RenderInputs(ById(parent.assets, r))
         /\ FoundAgain(r, built, parent, shots)
<1> DEFINE imgs == OfType(pkg, "image")
           old == ById(parent.assets, r)
<1>1. /\ GoodPackage(parent) /\ SoundNames(parent) /\ GoodPackage(built)
      /\ GoodImages(imgs) /\ Ids(imgs) = RefsOf(story.world)
  BY DEF Revises, Assembled
<1>2. r[1] = "ref" /\ r \in RefsOf(story.world)
  BY DEF KeptRef, RefOf, RefsOf
<1>3. r \in Ids(parent.assets)
  BY DEF KeptRef
<1>4. /\ old \in ToSet(parent.assets) /\ old.id = r /\ old.type = "image"
      /\ r \in Ids(OfType(parent, "image"))
  BY <1>1, <1>2, <1>3, RefIsImage
<1>5. IsAsset(old) /\ Fingerprints(parent)[r] = Fingerprint(parent, old)
  <2> HIDE DEF old
  <2> QED
    BY <1>1, <1>4, NodeFound
<1>6. \E n \in ToSet(imgs) : n.id = r
  <2> HIDE DEF imgs
  <2>1. IsSeq(imgs)
    BY <1>1 DEF GoodImages
  <2> QED
    BY <1>1, <1>2, <2>1, IdsIs
<1>7. PICK n \in ToSet(imgs) : n.id = r
  BY <1>6
<1>8. IsAsset(n) /\ n.type = "image"
  BY <1>1 DEF GoodImages
<1> DEFINE a == CarriedImage(n, parent, story, plan)
<1>9. a = Carried(n, old)
  BY <1>4, <1>7 DEF CarriedImage, KeptRef
<1>10. a \in ToSet(built.assets)
  BY RevisesIs DEF CarriedAll
<1> HIDE DEF a, imgs, old
<1>11. a.id = r /\ a.type = "image"
  BY <1>7, <1>8, <1>9, CarriedIs
<1>12. RenderInputs(a) = RenderInputs(old)
  BY <1>4, <1>5, <1>8, <1>9, CarriedInputs
<1>13. a.id \in Ids(built.assets) /\ ById(built.assets, a.id) = a /\ Fingerprints(built)[a.id] = Fingerprint(built, a)
  BY <1>1, <1>10, NodeFound
<1>14. Fingerprint(built, a) = Fingerprint(parent, old)
  BY <1>4, <1>11, <1>12 DEF Fingerprint
<1>15. FoundAgain(r, built, parent, shots)
  BY <1>2, <1>5, <1>11, <1>13, <1>14 DEF FoundAgain, CameFrom
<1> QED
  BY <1>11, <1>12, <1>13, <1>15 DEF old

\* The narration that is not spoken anew is the same render.
LEMMA NarrationIsKept ==
  ASSUME NEW built, NEW pkg, NEW parent, NEW story, NEW plan, NEW shots,
         Revises(built, pkg, parent, story, plan, shots),
         ~plan.narrationChanged, Len(Voiceovers(parent)) = 1, Voiceovers(parent)[1].voice = story.brief.voice
  PROVE  FoundAgain(Voiceovers(parent)[1].id, built, parent, shots)
<1> DEFINE vos == Voiceovers(parent)
           old == vos[1]
<1>1. /\ GoodPackage(parent) /\ GoodPackage(built) /\ story.brief.voice # "none"
      /\ \E narr : Voiceovers(pkg) = <<narr>> /\ GoodNarrator(narr)
  BY DEF Revises, Assembled, NamedBrief
<1>2. PICK node : Voiceovers(pkg) = <<node>> /\ GoodNarrator(node)
  BY <1>1
<1>3. IsSeq(parent.assets)
  BY <1>1 DEF GoodPackage, IsPackage
<1>4. old \in ToSet(parent.assets) /\ old.type = "voiceover"
  <2>1. /\ IsSeq(OfType(parent, "voiceover"))
        /\ \A x : x \in ToSet(OfType(parent, "voiceover")) <=> x \in ToSet(parent.assets) /\ x.type = "voiceover"
    BY <1>3, OfTypeIs
  <2>2. IsSeq(vos) /\ \A x : x \in ToSet(vos) <=> x \in ToSet(parent.assets) /\ x.type = "voiceover"
    BY <2>1 DEF Voiceovers
  <2>3. Len(vos) = 1
    OBVIOUS
  <2> HIDE DEF vos
  <2>4. vos[1] \in ToSet(vos)
    BY <2>2, <2>3, SeqFacts
  <2> QED
    BY <2>2, <2>4
<1>5. IsAsset(old) /\ old.id \in Ids(parent.assets) /\ Fingerprints(parent)[old.id] = Fingerprint(parent, old)
  <2> HIDE DEF old
  <2> QED
    BY <1>1, <1>4, NodeFound
<1> DEFINE a == CarriedNarration(node, parent, story, plan)
           voice == story.brief.voice
           spoken == [node EXCEPT !.look = old.look, !.voice = voice]
<1>6. a = Carried(spoken, old)
  <2> DEFINE same == SelectInSeq(vos, LAMBDA x : x.id = node.id)
             at == IF same # 0 THEN same ELSE 1
  <2>1. at = 1
    <3> DEFINE T == {k \in 1..Len(vos) : vos[k].id = node.id}
    <3>1. same = IF T # {} THEN Min(T) ELSE 0
      BY DEF SelectInSeq
    <3>2. T \subseteq 1..Len(vos) /\ Len(vos) = 1
      OBVIOUS
    <3> HIDE DEF same, vos, T
    <3>3. T \subseteq 1..1
      BY <3>2
    <3>4. 1 \in Nat
      OBVIOUS
    <3>5. T # {} => Min(T) \in T
      BY <3>3, <3>4, LeastPlace
    <3>6. T # {} => Min(T) = 1
      <4> DEFINE m == Min(T)
      <4> SUFFICES ASSUME T # {} PROVE m = 1
        OBVIOUS
      <4>1. m \in 1..1
        BY <3>3, <3>5
      <4> HIDE DEF m
      <4> QED
        BY <4>1
    <3>7. same = 0 \/ same = 1
      BY <3>1, <3>6
    <3> QED
      BY <3>7
  <2>2. vos # <<>>
    <3>1. Len(vos) = 1 /\ Len(<<>>) = 0
      BY EmptyIsSeq
    <3> QED
      BY <3>1
  <2>3. vos[at] = old
    BY <2>1
  <2> HIDE DEF at
  <2>4. a = LET o == vos[at]
                v == IF story.brief.voice # "none" THEN story.brief.voice ELSE o.voice
                s == [node EXCEPT !.look = o.look, !.voice = v]
            IN IF vos = <<>> THEN node
               ELSE IF plan.narrationChanged \/ Len(vos) # 1 THEN s ELSE Carried(s, o)
    BY Zenon DEF CarriedNarration, at
  <2> HIDE DEF a, old, vos
  <2>5. Len(vos) = 1
    BY DEF vos
  <2> QED
    BY <1>1, <2>2, <2>3, <2>4, <2>5
<1>7. a \in ToSet(built.assets)
  BY <1>2, RevisesIs DEF CarriedAll
<1>8. IsAsset(spoken) /\ spoken.id = Narration /\ spoken.type = "voiceover" /\ spoken.voice = voice
  <2> DEFINE l == old.look
             n == [node EXCEPT !.look = l, !.voice = voice]
  <2> HIDE DEF l, voice
  <2>1. /\ n.id = node.id /\ n.type = node.type /\ n.voice = voice /\ DOMAIN n = DOMAIN node
        /\ n.refs = node.refs /\ n.deps = node.deps /\ n.length = node.length
    BY <1>2 DEF GoodNarrator, IsAsset
  <2> HIDE DEF n
  <2>2. IsAsset(n) /\ n.id = Narration /\ n.type = "voiceover" /\ n.voice = voice
    BY <1>2, <2>1 DEF GoodNarrator, IsAsset
  <2> QED
    BY <2>2 DEF n, l
<1>9. old.voice = voice
  OBVIOUS
<1> HIDE DEF a, spoken, old, voice
<1>10. a.id = Narration /\ a.type = "voiceover"
  BY <1>6, <1>8, CarriedIs
<1>11. RenderInputs(a) = RenderInputs(old)
  BY <1>4, <1>5, <1>6, <1>8, <1>9, CarriedInputs
<1>12. a.id \in Ids(built.assets) /\ Fingerprints(built)[a.id] = Fingerprint(built, a)
  BY <1>1, <1>7, NodeFound
<1>13. Fingerprint(built, a) = Fingerprint(parent, old)
  BY <1>4, <1>10, <1>11 DEF Fingerprint
<1>14. CameFrom(a.id, shots, Voiceovers(parent)) = old.id
  BY <1>10 DEF CameFrom, Narration, old
<1>15. FoundAgain(old.id, built, parent, shots)
  BY <1>5, <1>12, <1>13, <1>14 DEF FoundAgain
<1> QED
  BY <1>15 DEF old

\* The references of a node that there still are, among some images or by hand.
Live(parent, refs, images) == Where(refs, LAMBDA r : r \in images \/ HandAuthored(parent, r))

\* They are some of them.
LEMMA LiveIs ==
  ASSUME NEW parent, NEW refs, IsSeq(refs), NEW images
  PROVE  LET live == Live(parent, refs, images) IN
         /\ IsSeq(live) /\ \A r \in ToSet(live) : r \in images \/ HandAuthored(parent, r)
         /\ live # <<>> => live[1] \in ToSet(live)
<1> DEFINE P == {k \in DOMAIN refs : refs[k] \in images \/ HandAuthored(parent, refs[k])}
           live == Live(parent, refs, images)
<1>1. live = Picked(refs, P)
  BY DEF Live, Where
<1>2. P \subseteq DOMAIN refs /\ \A k \in P : refs[k] \in images \/ HandAuthored(parent, refs[k])
  OBVIOUS
<1> HIDE DEF P, live
<1>3. IsSeq(live) /\ ToSet(live) = {refs[k] : k \in P}
  BY <1>1, <1>2, PickedIs, PickedSet
<1>4. live # <<>> => live[1] \in ToSet(live)
  <2>1. Len(live) \in Nat /\ \A k \in 1..Len(live) : live[k] \in ToSet(live)
    BY <1>3, SeqFacts
  <2>2. Len(live) = 0 => live = <<>>
    <3>1. Len(live) = 0 => \A k \in 1..Len(live) : live[k] = <<>>[k]
      OBVIOUS
    <3> QED
      BY <1>3, <3>1, EmptyIsSeq, SeqSame
  <2> QED
    BY <2>1, <2>2
<1>5. \A r \in ToSet(live) : r \in images \/ HandAuthored(parent, r)
  BY <1>2, <1>3
<1> QED
  BY <1>3, <1>4, <1>5 DEF live

\* A video, and the shot that is kept in it, of whose node this is left.
StaysIn(node, shot, parent, plan, images, old, live) ==
  /\ IsAsset(node) /\ node.type = "video" /\ GoodPackage(parent)
  /\ shot.id \in Ids(OfType(parent, "video")) /\ plan.shots[shot.id] = "kept"
  /\ old = ById(parent.assets, shot.id) /\ live = Live(parent, old.refs, images) /\ live # <<>>
  /\ WholeSeconds(node.length) = WholeSeconds(old.length)

\* The video that old becomes in the place of node.
KeptVideo(v, node, old, live) ==
  v.id = node.id /\ v.type = "video" /\ v.refs = live /\ RenderInputs(v) = RenderInputs(old)

\* What a video of the new version keeps of a kept shot's node.
LEMMA CarriedVideoHas ==
  ASSUME NEW node, NEW shot, NEW parent, NEW plan, NEW images, NEW old, NEW live,
         StaysIn(node, shot, parent, plan, images, old, live)
  PROVE  KeptVideo(CarriedVideo(node, shot, parent, plan, images), node, old, live)
<1> DEFINE v == CarriedVideo(node, shot, parent, plan, images)
           kept == Carried(node, old)
           Q == {k \in DOMAIN node.deps : node.deps[k] \notin ToSet(node.refs)}
           deps == live \o Picked(node.deps, Q)
           revised == [kept EXCEPT !.refs = live, !.deps = deps]
<1>0. /\ IsAsset(node) /\ node.type = "video" /\ GoodPackage(parent)
      /\ shot.id \in Ids(OfType(parent, "video")) /\ plan.shots[shot.id] = "kept"
      /\ old = ById(parent.assets, shot.id) /\ live = Live(parent, old.refs, images) /\ live # <<>>
      /\ WholeSeconds(node.length) = WholeSeconds(old.length)
  BY DEF StaysIn
<1>1. v = revised
  BY <1>0, Zenon DEF CarriedVideo, Live, Where
<1>2. IsAsset(old) /\ old.type = "video"
  BY <1>0, ByIdOfType
<1>3. IsAsset(kept) /\ kept.id = node.id /\ kept.type = node.type /\ kept.length = node.length
  BY <1>0, CarriedIs
<1>4. RenderInputs(kept) = RenderInputs(old)
  BY <1>0, <1>2, CarriedInputs
<1> HIDE DEF kept, deps, v
<1>5. /\ revised.id = kept.id /\ revised.type = kept.type /\ revised.refs = live /\ revised.look = kept.look
      /\ revised.content = kept.content /\ revised.take = kept.take /\ revised.length = kept.length
      /\ revised.voice = kept.voice
  BY <1>3 DEF IsAsset
<1> HIDE DEF revised
<1>6. RenderInputs(revised) = RenderInputs(kept)
  BY <1>5 DEF RenderInputs
<1>7. v.id = node.id /\ v.type = "video" /\ v.refs = live /\ RenderInputs(v) = RenderInputs(old)
  BY <1>0, <1>1, <1>3, <1>4, <1>5, <1>6
<1> QED
  BY <1>7 DEF v, KeptVideo

\* A clip whose shot is kept, with its start frame and in its whole seconds, is the same render.
LEMMA VideoIsKept ==
  ASSUME NEW built, NEW pkg, NEW parent, NEW story, NEW plan, NEW shots,
         Revises(built, pkg, parent, story, plan, shots), NEW i \in 1..Len(shots),
         NEW s, s = shots[i].id, s \in Ids(OfType(parent, "video")), plan.shots[s] = "kept",
         NEW old, old = ById(parent.assets, s),
         NEW live, live = Live(parent, old.refs, RefsOf(story.world)), live # <<>>, live[1] = old.refs[1],
         live[1] \in RefsOf(story.world) => KeptRef(live[1], parent, story, plan),
         WholeSeconds(NormalizeDurations(Lengths(shots), story.brief.length)[i]) = WholeSeconds(old.length)
  PROVE  FoundAgain(s, built, parent, shots)
<1> DEFINE vids == OfType(pkg, "video")
           images == RefsOf(story.world)
           node == vids[i]
           shot == shots[i]
           v == CarriedVideo(node, shot, parent, plan, images)
           start == live[1]
<1>1. GoodPackage(parent) /\ GoodPackage(built)
  BY DEF Revises
<1>2. /\ Len(vids) = Len(shots) /\ GoodVideos(vids, images)
      /\ node.length = NormalizeDurations(Lengths(shots), story.brief.length)[i]
  BY DEF Revises, MadeFor, Assembled
<1>3. IsAsset(node) /\ node.id = ShotNode(i) /\ node.type = "video"
  BY <1>2 DEF GoodVideos
<1>4. old \in ToSet(parent.assets) /\ IsAsset(old) /\ old.id = s /\ old.type = "video"
  BY <1>1, ByIdOfType
<1>5. v.id = node.id /\ v.type = "video" /\ v.refs = live /\ RenderInputs(v) = RenderInputs(old)
  <2>1. StaysIn(node, shot, parent, plan, images, old, live)
    BY <1>1, <1>2, <1>3 DEF StaysIn
  <2> HIDE DEF node, shot, images
  <2>2. KeptVideo(v, node, old, live)
    BY <2>1, CarriedVideoHas
  <2> QED
    BY <2>2 DEF KeptVideo
<1>6. /\ v \in ToSet(built.assets)
      /\ \A r \in ToSet(v.refs) : r \notin images => ById(parent.assets, r) \in ToSet(built.assets)
  <2>1. CarriedAll(built, pkg, images, parent, story, plan, shots)
    BY RevisesIs
  <2> QED
    BY <1>2, <2>1 DEF CarriedAll
<1> HIDE DEF v, node, vids
<1>7. start \in ToSet(v.refs) /\ (start \in images \/ HandAuthored(parent, start))
  BY <1>4, <1>5, LiveIs DEF IsAsset
<1>8. /\ start \in Ids(parent.assets) /\ start \in Ids(built.assets)
      /\ RenderInputs(ById(built.assets, start)) = RenderInputs(ById(parent.assets, start))
  <2>1. CASE start \in images
    <3>1. KeptRef(start, parent, story, plan)
      BY <2>1
    <3> HIDE DEF start, images
    <3>2. /\ start \in Ids(built.assets)
          /\ RenderInputs(ById(built.assets, start)) = RenderInputs(ById(parent.assets, start))
      BY <3>1, RefIsKept
    <3>3. start \in Ids(parent.assets)
      BY <3>1 DEF KeptRef
    <3> QED
      BY <3>2, <3>3
  <2>2. CASE start \notin images
    <3> DEFINE a == ById(parent.assets, start)
    <3>1. start \in Ids(OfType(parent, "image"))
      BY <1>7, <2>2 DEF HandAuthored
    <3>2. a \in ToSet(built.assets)
      BY <1>6, <1>7, <2>2
    <3>3. a \in ToSet(parent.assets) /\ a.id = start
      <4> HIDE DEF start
      <4> QED
        BY <1>1, <3>1, ByIdOfType
    <3> HIDE DEF a
    <3>4. a.id \in Ids(built.assets) /\ ById(built.assets, a.id) = a
      BY <1>1, <3>2, NodeFound
    <3>5. a.id \in Ids(parent.assets)
      BY <1>1, <3>3, NodeFound
    <3> QED
      BY <3>3, <3>4, <3>5 DEF a
  <2> QED
    BY <2>1, <2>2
<1>9. Fingerprint(built, v) = Fingerprint(parent, old)
  <2>1. v.refs # <<>> /\ old.refs # <<>> /\ v.refs[1] = start /\ old.refs[1] = start
    <3>1. old.refs # <<>>
      <4> SUFFICES ASSUME old.refs = <<>> PROVE FALSE
        OBVIOUS
      <4> DEFINE P == {k \in DOMAIN old.refs : old.refs[k] \in images \/ HandAuthored(parent, old.refs[k])}
      <4>1. live = Picked(old.refs, P)
        BY DEF Live, Where
      <4>2. P = {}
        OBVIOUS
      <4> HIDE DEF P
      <4>3. Picked(old.refs, P) = <<>>
        BY <4>2, PickedNone
      <4> QED
        BY <4>1, <4>3
    <3> QED
      BY <1>5, <3>1
  <2> HIDE DEF start
  <2>2. Fingerprint(built, v) = <<RenderInputs(v), <<"node", RenderInputs(ById(built.assets, start))>>>>
    BY <1>5, <1>8, <2>1 DEF Fingerprint
  <2>3. Fingerprint(parent, old) = <<RenderInputs(old), <<"node", RenderInputs(ById(parent.assets, start))>>>>
    BY <1>4, <1>8, <2>1 DEF Fingerprint
  <2> QED
    BY <1>5, <1>8, <2>2, <2>3
<1>10. v.id \in Ids(built.assets) /\ Fingerprints(built)[v.id] = Fingerprint(built, v)
  BY <1>1, <1>6, NodeFound
<1>11. Fingerprints(parent)[s] = Fingerprint(parent, old)
  BY <1>1, <1>4, NodeFound
<1>12. CameFrom(v.id, shots, Voiceovers(parent)) = s
  <2>1. v.id[1] = "shot" /\ v.id[2] = i
    BY <1>3, <1>5 DEF ShotNode
  <2> QED
    BY <2>1 DEF CameFrom
<1> QED
  BY <1>9, <1>10, <1>11, <1>12 DEF FoundAgain

-----------------------------------------------------------------------------
(* The shots that were predicted. *)

\* Sequences of blocks, one for one of the same lengths.
Alike(b, c) == IsBlocks(b) /\ IsBlocks(c) /\ Len(c) = Len(b) /\ \A i \in 1..Len(b) : Len(c[i]) = Len(b[i])

\* Where one shows an element of its block, the other shows that of its own.
SideBySide(b, c, r, t) ==
  /\ IsSeq(r) /\ IsSeq(t) /\ Len(t) = Len(r)
  /\ \A p \in 1..Len(r) : \E i \in 1..Len(b) : \E k \in 1..Len(b[i]) : r[p] = b[i][k] /\ t[p] = c[i][k]

\* So they do when they are laid end to end.
LEMMA FlattenAlike ==
  ASSUME NEW b, NEW c, Alike(b, c)
  PROVE  SideBySide(b, c, FlattenSeq(b), FlattenSeq(c))
<1> DEFINE r == FlattenSeq(b)
           t == FlattenSeq(c)
           n == Len(b)
<1>0. IsBlocks(b) /\ IsBlocks(c) /\ Len(c) = n /\ \A i \in 1..n : Len(c[i]) = Len(b[i])
  BY DEF Alike
<1>1. PICK off : Flattens(b, off, r)
  BY <1>0, FlattenIs
<1>2. PICK of2 : Flattens(c, of2, t)
  BY <1>0, FlattenIs
<1> HIDE DEF r, t
<1>3. n \in Nat
  BY <1>0, SeqFacts DEF IsBlocks
<1> DEFINE Bad == {j \in Nat : j \in 0..n /\ of2[j] # off[j]}
<1>4. Bad = {}
  <2> SUFFICES ASSUME Bad # {} PROVE FALSE
    OBVIOUS
  <2>1. PICK j \in Bad : \A k \in Bad : j <= k
    <3>1. Bad \in SUBSET Nat
      OBVIOUS
    <3> HIDE DEF Bad
    <3> QED
      BY <3>1, Least
  <2>2. j \in 0..n /\ of2[j] # off[j]
    BY <2>1
  <2>3. j # 0
    BY <1>0, <1>1, <1>2, <2>2 DEF Flattens
  <2>4. j \in 1..n /\ j - 1 \in Nat /\ j - 1 \in 0..n /\ j - 1 < j
    BY <1>3, <2>2, <2>3
  <2>5. of2[j - 1] = off[j - 1]
    BY <2>1, <2>4
  <2>6. off[j] = off[j - 1] + Len(b[j]) /\ of2[j] = of2[j - 1] + Len(c[j])
    BY <1>0, <1>1, <1>2, <2>4 DEF Flattens
  <2>7. Len(c[j]) = Len(b[j])
    BY <1>0, <2>4
  <2> QED
    BY <2>2, <2>5, <2>6, <2>7
<1>5. \A j \in 0..n : of2[j] = off[j]
  BY <1>3, <1>4
<1>6. IsSeq(r) /\ IsSeq(t) /\ Len(t) = Len(r)
  <2>1. n \in 0..n
    BY <1>3
  <2> QED
    BY <1>0, <1>1, <1>2, <1>5, <2>1 DEF Flattens
<1>7. ASSUME NEW p \in 1..Len(r)
      PROVE  \E i \in 1..n : \E k \in 1..Len(b[i]) : r[p] = b[i][k] /\ t[p] = c[i][k]
  <2>1. PICK i \in 1..n : \E k \in 1..Len(b[i]) : p = off[i - 1] + k
    BY <1>1 DEF Flattens
  <2>2. PICK k \in 1..Len(b[i]) : p = off[i - 1] + k
    BY <2>1
  <2>3. r[p] = b[i][k]
    BY <1>1, <2>2 DEF Flattens
  <2>4. i - 1 \in 0..n
    BY <1>3
  <2>5. k \in 1..Len(c[i]) /\ p = of2[i - 1] + k
    BY <1>0, <1>5, <2>2, <2>4
  <2>6. t[p] = c[i][k]
    BY <1>0, <1>2, <2>5 DEF Flattens
  <2> QED
    BY <2>3, <2>6
<1> QED
  BY <1>6, <1>7 DEF SideBySide, r, t

\* A planned shot keeps the length all are planned with.
LEMMA PerShotIsKept == PerShot \in Int /\ ClampDuration(PerShot) = PerShot
<1>1. Min({1500, 350}) = 350
  BY MinIs
<1>2. Max({100, 350}) = 350
  BY MaxIs
<1> QED
  BY <1>1, <1>2 DEF ClampDuration, PerShot

\* There are as many shots of a scene as the agent answered, and as long.
LEMMA SanitizedAre ==
  ASSUME NEW answer, NEW story, NEW targets, NEW parentStory, NEW id \in DOMAIN targets,
         NEW block, block = InScene(answer, id), IsSeq(block), Len(block) >= 1,
         \A i \in 1..Len(block) : "id" \in DOMAIN block[i] /\ "length" \in DOMAIN block[i]
  PROVE  LET r == SanitizeReplanned(answer, story, targets, parentStory) IN
         /\ Len(r[id]) = Len(block)
         /\ \A i \in 1..Len(block) : r[id][i].length = ClampDuration(block[i].length)
<1> DEFINE clean(x) ==
             [x EXCEPT !.length = ClampDuration(@),
                       !.location = IF @ \in Ids(story.world.locations) THEN @
                                    ELSE SceneLocation(story, ById(story.scenes, x.scene), parentStory),
                       !.subjects = Distinct(Among(@, Ids(story.world.characters)))]
           given(key) == Where(answer, LAMBDA x : x.scene = key)
           shots(key) == IF given(key) = <<>> THEN <<BareShot(story, key, parentStory)>>
                         ELSE [i \in DOMAIN given(key) |-> clean(given(key)[i])]
           free(key) == FreeIds(Len(answer) + Len(story.shots) + 1, key, Ids(story.shots))
           r == SanitizeReplanned(answer, story, targets, parentStory)
           n == Len(block)
           F == free(id)
           S == shots(id)
           R == r[id]
<1>1. r = [key \in DOMAIN targets |-> [i \in DOMAIN shots(key) |-> [shots(key)[i] EXCEPT !.id = free(key)[i]]]]
  BY DEF SanitizeReplanned, FreeIds
<1>2. R = [i \in DOMAIN S |-> [S[i] EXCEPT !.id = F[i]]]
  BY <1>1
<1>3. given(id) = block
  BY DEF InScene
<1>4. block # <<>> /\ n \in Nat /\ DOMAIN block = 1..n
  <2>1. n \in Nat /\ DOMAIN block = 1..n
    BY SeqFacts
  <2>2. Len(<<>>) = 0
    BY EmptyIsSeq
  <2> QED
    BY <2>1, <2>2
<1>5. S = [i \in 1..n |-> clean(block[i])]
  BY <1>3, <1>4
<1>6. ASSUME NEW i \in 1..n PROVE clean(block[i]).length = ClampDuration(block[i].length) /\ "id" \in DOMAIN clean(block[i])
  <2> DEFINE x == block[i]
             at == IF x.location \in Ids(story.world.locations) THEN x.location
                   ELSE SceneLocation(story, ById(story.scenes, x.scene), parentStory)
             who == Distinct(Among(x.subjects, Ids(story.world.characters)))
             long == ClampDuration(x.length)
  <2>1. clean(x) = [x EXCEPT !.length = long, !.location = at, !.subjects = who]
    OBVIOUS
  <2>2. {"id", "length"} \subseteq DOMAIN x
    OBVIOUS
  <2> HIDE DEF at, who, long, clean, x
  <2>3. clean(x).length = long /\ DOMAIN clean(x) = DOMAIN x
    BY <2>1, <2>2
  <2>4. clean(x).length = long /\ "id" \in DOMAIN clean(x)
    BY <2>2, <2>3
  <2> QED
    BY <2>4 DEF x, long
<1> HIDE DEF S, R, F, clean, r, n
<1>7. R = [i \in 1..n |-> [S[i] EXCEPT !.id = F[i]]]
  BY <1>2, <1>5
<1>8. \A i \in 1..n : R[i].length = ClampDuration(block[i].length)
  <2> SUFFICES ASSUME NEW i \in 1..n PROVE R[i].length = ClampDuration(block[i].length)
    OBVIOUS
  <2>1. S[i].length = ClampDuration(block[i].length) /\ "id" \in DOMAIN S[i]
    BY <1>5, <1>6
  <2>2. R[i] = [S[i] EXCEPT !.id = F[i]]
    BY <1>7
  <2>3. R[i].length = S[i].length
    BY <2>2
  <2> QED
    BY <2>1, <2>3
<1>9. Len(R) = n
  <2>1. R = [i \in 1..n |-> R[i]]
    BY <1>7
  <2> QED
    BY <1>4, <2>1, SeqMade
<1> QED
  BY <1>8, <1>9 DEF R, n, r

\* The mock answers the shots it is asked for.
LEMMA MockAre ==
  ASSUME NEW story, GoodStory(story), NEW targets, DOMAIN targets \subseteq Ids(story.scenes),
         \A id \in DOMAIN targets : targets[id] \in Nat,
         NEW parentStory, NEW id \in DOMAIN targets, NEW block,
         block = InScene(MockReplan(story, targets, parentStory), id)
  PROVE  /\ IsSeq(block) /\ Len(block) = targets[id]
         /\ \A k \in 1..Len(block) : {"id", "length"} \subseteq DOMAIN block[k] /\ block[k].length = PerShot
<1> DEFINE shot(scene, k) ==
             [id |-> <<"mock", scene.id, k>>, scene |-> scene.id, length |-> PerShot,
              action |-> <<"mock", scene.beat, k, targets[scene.id]>>,
              location |-> SceneLocation(story, scene, parentStory), subjects |-> <<>>]
           b == [i \in DOMAIN story.scenes |->
                  IF story.scenes[i].id \in DOMAIN targets
                  THEN [k \in 1..targets[story.scenes[i].id] |-> shot(story.scenes[i], k)] ELSE <<>>]
           n == Len(story.scenes)
           Fit(x, scene) == {"id", "length"} \subseteq DOMAIN x /\ x.length = PerShot /\ x.scene = scene
<1>1. MockReplan(story, targets, parentStory) = FlattenSeq(b)
  BY DEF MockReplan
<1>2. ASSUME NEW scene, NEW k PROVE Fit(shot(scene, k), scene.id)
  <2> DEFINE me == <<"mock", scene.id, k>>
             act == <<"mock", scene.beat, k, targets[scene.id]>>
             at == SceneLocation(story, scene, parentStory)
  <2> HIDE DEF me, act, at
  <2>1. shot(scene, k) = [id |-> me, scene |-> scene.id, length |-> PerShot, action |-> act,
                          location |-> at, subjects |-> <<>>]
    BY DEF me, act, at
  <2> HIDE DEF shot
  <2> QED
    BY <2>1
<1> HIDE DEF shot
<1>3. IsSeq(story.scenes) /\ DistinctIds(story.scenes) /\ n \in Nat /\ DOMAIN story.scenes = 1..n
  <2>1. IsSeq(story.scenes) /\ DistinctIds(story.scenes)
    BY DEF GoodStory, GoodScript, IsScript
  <2> QED
    BY <2>1, SeqFacts
<1>4. ASSUME NEW i \in 1..n
      PROVE  /\ IsSeq(b[i])
             /\ \A k \in 1..Len(b[i]) : Fit(b[i][k], story.scenes[i].id)
             /\ story.scenes[i].id \in DOMAIN targets => Len(b[i]) = targets[story.scenes[i].id]
  <2> DEFINE key == story.scenes[i].id
             t == [k \in 1..targets[key] |-> shot(story.scenes[i], k)]
  <2>1. b[i] = IF key \in DOMAIN targets THEN t ELSE <<>>
    BY <1>3
  <2>2. CASE key \in DOMAIN targets
    <3>1. targets[key] \in Nat
      BY <2>2
    <3>2. t = [k \in 1..targets[key] |-> t[k]] /\ \A k \in 1..targets[key] : Fit(t[k], key)
      <4> HIDE DEF Fit
      <4> QED
        BY <1>2
    <3> HIDE DEF t, Fit, key
    <3>3. IsSeq(t) /\ Len(t) = targets[key]
      BY <3>1, <3>2, SeqMade
    <3>4. b[i] = t
      BY <2>1, <2>2
    <3> HIDE DEF b
    <3>5. IsSeq(b[i]) /\ Len(b[i]) = targets[key] /\ \A k \in 1..Len(b[i]) : Fit(b[i][k], key)
      BY <3>2, <3>3, <3>4
    <3> QED
      BY <3>5 DEF key
  <2>3. CASE key \notin DOMAIN targets
    <3>1. b[i] = <<>>
      BY <2>1, <2>3
    <3> HIDE DEF b, Fit, t
    <3> QED
      BY <2>3, <3>1, EmptyIsSeq
  <2> QED
    BY <2>2, <2>3
<1>5. b = [i \in 1..n |-> b[i]]
  BY <1>3
<1> HIDE DEF b, Fit
<1>6. IsBlocks(b) /\ Len(b) = n
  <2>1. IsSeq(b) /\ Len(b) = n
    BY <1>3, <1>5, SeqMade
  <2> QED
    BY <1>4, <2>1 DEF IsBlocks
<1>7. BlocksOf(b, story)
  BY <1>4, <1>6 DEF BlocksOf, Fit
<1>8. Spliced(FlattenSeq(b), story, b)
  BY <1>3, <1>7, FlattenedBlocks
<1>9. PICK h \in 1..n : story.scenes[h].id = id
  BY <1>3, IdsIs
<1>10. block = b[h]
  BY <1>1, <1>8, <1>9 DEF Spliced
<1> QED
  BY <1>4, <1>9, <1>10 DEF Fit

\* So the scenes planned again by the mock are as predicted.
LEMMA MockPlans ==
  ASSUME NEW story, GoodStory(story), NEW targets, DOMAIN targets \subseteq Ids(story.scenes),
         \A id \in DOMAIN targets : targets[id] \in Nat /\ targets[id] >= 1, NEW parentStory,
         NEW r, r = SanitizeReplanned(MockReplan(story, targets, parentStory), story, targets, parentStory)
  PROVE  \A id \in DOMAIN targets :
           Len(r[id]) = targets[id] /\ \A k \in 1..Len(r[id]) : r[id][k].length = PerShot
<1> SUFFICES ASSUME NEW id \in DOMAIN targets
             PROVE  Len(r[id]) = targets[id] /\ \A k \in 1..Len(r[id]) : r[id][k].length = PerShot
  OBVIOUS
<1> DEFINE answer == MockReplan(story, targets, parentStory)
           block == InScene(answer, id)
<1>1. /\ IsSeq(block) /\ Len(block) = targets[id]
      /\ \A k \in 1..Len(block) : {"id", "length"} \subseteq DOMAIN block[k] /\ block[k].length = PerShot
  BY MockAre
<1>2. r = SanitizeReplanned(answer, story, targets, parentStory)
  OBVIOUS
<1> HIDE DEF answer
<1>3. block = InScene(answer, id)
  OBVIOUS
<1> HIDE DEF block
<1> DEFINE q == SanitizeReplanned(answer, story, targets, parentStory)
<1>4. Len(block) >= 1 /\ \A k \in 1..Len(block) : "id" \in DOMAIN block[k] /\ "length" \in DOMAIN block[k]
  BY <1>1
<1>5. Len(q[id]) = Len(block) /\ \A i \in 1..Len(block) : q[id][i].length = ClampDuration(block[i].length)
  BY <1>1, <1>3, <1>4, SanitizedAre
<1> HIDE DEF q
<1>6. r = q
  BY <1>2 DEF q
<1> QED
  BY <1>1, <1>5, <1>6, PerShotIsKept

\* A predicted shot that has a name is a shot of the new version, and as long.
Comes(x, shots, length) ==
  \E i \in 1..Len(shots) : shots[i].id = x.id /\ x.length = NormalizeDurations(Lengths(shots), length)[i]

\* Shots without a name.
Nameless(n) == [i \in 1..n |-> [id |-> <<"planned">>, length |-> PerShot]]

\* They are what they are.
LEMMA NamelessAre ==
  ASSUME NEW n \in Nat
  PROVE  /\ IsSeq(Nameless(n)) /\ Len(Nameless(n)) = n
         /\ \A i \in 1..n : Nameless(n)[i].id = <<"planned">> /\ Nameless(n)[i].length = PerShot
<1> DEFINE s == Nameless(n)
<1>1. s = [i \in 1..n |-> s[i]] /\ \A i \in 1..n : s[i].id = <<"planned">> /\ s[i].length = PerShot
  BY DEF Nameless
<1> HIDE DEF s
<1>2. IsSeq(s) /\ Len(s) = n
  BY <1>1, SeqMade
<1> QED
  BY <1>1, <1>2 DEF s

\* The predicted shots before their lengths are normalised.
Foreseen(story, plan) ==
  IF plan.full THEN Nameless(TargetShotCount(story.brief.length))
  ELSE FlattenSeq([i \in DOMAIN story.scenes |->
         IF story.scenes[i].id \in plan.stale THEN Nameless(plan.targets[story.scenes[i].id])
         ELSE ShotsOf(story, story.scenes[i].id)])

\* Predicted shots have the ids of those.
LEMMA ForeseenIs ==
  ASSUME NEW story, NEW plan, NEW shots, shots = Foreseen(story, plan), IsSeq(shots), NEW x \in ToSet(PredictedShots(story, plan))
  PROVE  \E p \in 1..Len(shots) :
           x.id = shots[p].id /\ x.length = NormalizeDurations(Lengths(shots), story.brief.length)[p]
<1> DEFINE lengths == NormalizeDurations(Lengths(shots), story.brief.length)
           made == [i \in DOMAIN shots |-> [id |-> shots[i].id, length |-> lengths[i]]]
<1>1. PredictedShots(story, plan) = made
  <2> DEFINE s == Foreseen(story, plan)
             l == NormalizeDurations(Lengths(s), story.brief.length)
  <2>1. PredictedShots(story, plan) = [i \in DOMAIN s |-> [id |-> s[i].id, length |-> l[i]]]
    BY Zenon DEF PredictedShots, Foreseen, Nameless
  <2> QED
    BY <2>1
<1>2. DOMAIN shots = 1..Len(shots)
  BY SeqFacts
<1> HIDE DEF lengths
<1>3. \A y \in ToSet(made) : \E p \in 1..Len(shots) : y.id = shots[p].id /\ y.length = lengths[p]
  BY <1>2 DEF ToSet
<1> QED
  BY <1>1, <1>3 DEF lengths

\* When everything is planned again no shot has a name.
LEMMA AllNameless ==
  ASSUME NEW story, story.brief.length \in Int, NEW plan, plan.full, NEW x \in ToSet(PredictedShots(story, plan))
  PROVE  x.id = <<"planned">>
<1> DEFINE n == TargetShotCount(story.brief.length)
           shots == Foreseen(story, plan)
<1>1. n \in Nat
  <2> DEFINE k == Rounded(story.brief.length, PerShot)
  <2>1. PerShot \in Nat /\ PerShot > 0
    BY DEF PerShot
  <2>2. k \in Int
    BY <2>1, RoundedIs
  <2> HIDE DEF k
  <2>3. Max({1, k}) \in {1, k} /\ 1 <= Max({1, k})
    BY <2>2, MaxOfTwo
  <2>4. n = Max({1, k})
    BY DEF TargetShotCount, k
  <2> HIDE DEF n
  <2> QED
    BY <2>2, <2>3, <2>4
<1>2. shots = Nameless(n)
  BY DEF Foreseen
<1> HIDE DEF n
<1>3. IsSeq(shots) /\ Len(shots) = n /\ \A i \in 1..n : shots[i].id = <<"planned">>
  BY <1>1, <1>2, NamelessAre
<1>4. \E p \in 1..Len(shots) : x.id = shots[p].id
  <2>1. shots = Foreseen(story, plan)
    OBVIOUS
  <2> HIDE DEF shots
  <2> QED
    BY <1>3, <2>1, ForeseenIs
<1> QED
  BY <1>3, <1>4

\* When some scenes are planned again as foreseen, the others' shots come as predicted.
LEMMA AsPredicted ==
  ASSUME NEW story, GoodStory(story), NEW r, Replanned(r, story, story.shots),
         NEW plan, ~plan.full, plan.stale = DOMAIN r,
         \A id \in DOMAIN r : /\ Len(r[id]) = plan.targets[id] /\ \A k \in 1..Len(r[id]) : r[id][k].length = PerShot,
         NEW shots, shots = SpliceShots(story, r),
         NEW x \in ToSet(PredictedShots(story, plan)), x.id # <<"planned">>
  PROVE  Comes(x, shots, story.brief.length) /\ x.id \in Ids(story.shots)
<1> DEFINE n == Len(story.scenes)
           key(i) == story.scenes[i].id
           b == SpliceBlocks(story, r)
           c == [i \in DOMAIN story.scenes |->
                  IF story.scenes[i].id \in plan.stale THEN Nameless(plan.targets[story.scenes[i].id])
                  ELSE ShotsOf(story, story.scenes[i].id)]
           P == Foreseen(story, plan)
<1>1. /\ IsSeq(story.scenes) /\ IsSeq(story.shots)
      /\ n \in Nat /\ DOMAIN story.scenes = 1..n
  <2>1. IsSeq(story.scenes) /\ IsSeq(story.shots)
    BY DEF GoodStory, GoodScript, IsScript, GoodBreakdown
  <2> QED
    BY <2>1, SeqFacts
<1>2. shots = FlattenSeq(b) /\ P = FlattenSeq(c)
  BY DEF SpliceShots, SpliceBlocks, Foreseen
<1>3. /\ IsBlocks(b) /\ Len(b) = n
      /\ \A i \in 1..n : b[i] = IF key(i) \in DOMAIN r THEN r[key(i)] ELSE ShotsOf(story, key(i))
  <2>1. \A y \in ToSet(story.shots) : y.scene \notin DOMAIN r => y.id \in Ids(story.shots)
    BY <1>1, IdsIs
  <2> QED
    BY <2>1, SpliceBlocksAre
<1>4. /\ c = [i \in 1..n |-> c[i]]
      /\ \A i \in 1..n : c[i] = IF key(i) \in DOMAIN r THEN Nameless(plan.targets[key(i)]) ELSE ShotsOf(story, key(i))
  BY <1>1
<1> HIDE DEF b, c, P
<1>5. ASSUME NEW i \in 1..n
      PROVE  /\ IsSeq(c[i]) /\ Len(c[i]) = Len(b[i])
             /\ \A k \in 1..Len(b[i]) : /\ c[i][k].length = b[i][k].length
                                        /\ c[i][k].id # <<"planned">> => c[i][k] = b[i][k] /\ b[i][k].id \in Ids(story.shots)
  <2>1. CASE key(i) \in DOMAIN r
    <3> DEFINE m == plan.targets[key(i)]
               R == r[key(i)]
    <3>1. c[i] = Nameless(m) /\ b[i] = R
      BY <1>3, <1>4, <2>1
    <3>2. Len(R) = m /\ \A k \in 1..Len(R) : R[k].length = PerShot
      BY <2>1
    <3>3. IsSeq(R)
      BY <2>1 DEF Replanned
    <3> HIDE DEF R, m
    <3>4. m \in Nat
      BY <3>2, <3>3, SeqFacts
    <3>5. /\ IsSeq(Nameless(m)) /\ Len(Nameless(m)) = m
          /\ \A k \in 1..m : Nameless(m)[k].id = <<"planned">> /\ Nameless(m)[k].length = PerShot
      BY <3>4, NamelessAre
    <3> QED
      BY <3>1, <3>2, <3>5
  <2>2. CASE key(i) \notin DOMAIN r
    <3> DEFINE R == ShotsOf(story, key(i))
    <3>1. c[i] = R /\ b[i] = R
      BY <1>3, <1>4, <2>2
    <3>2. GoodBreakdown(R, story.world, story.scenes) /\ \A y \in ToSet(R) : y \in ToSet(story.shots)
      BY ShotsOfIs
    <3> HIDE DEF R
    <3>3. IsSeq(R)
      BY <3>2 DEF GoodBreakdown
    <3>4. \A k \in 1..Len(R) : R[k] \in ToSet(R)
      BY <3>3, SeqFacts
    <3>5. \A k \in 1..Len(R) : R[k].id \in Ids(story.shots)
      BY <1>1, <3>2, <3>4, IdsIs
    <3> QED
      BY <3>1, <3>3, <3>5
  <2> QED
    BY <2>1, <2>2
<1>6. IsBlocks(c) /\ Len(c) = n
  <2>1. IsSeq(c) /\ Len(c) = n
    BY <1>1, <1>4, SeqMade
  <2> QED
    BY <1>5, <2>1 DEF IsBlocks
<1>7. /\ IsSeq(shots) /\ IsSeq(P) /\ Len(P) = Len(shots)
      /\ \A p \in 1..Len(shots) : \E i \in 1..n : \E k \in 1..Len(b[i]) : shots[p] = b[i][k] /\ P[p] = c[i][k]
  <2>1. \A i \in 1..Len(b) : Len(c[i]) = Len(b[i])
    BY <1>3, <1>5
  <2>2. Len(c) = Len(b)
    BY <1>3, <1>6
  <2>3. Alike(b, c)
    BY <1>3, <1>6, <2>1, <2>2 DEF Alike
  <2>4. SideBySide(b, c, shots, P)
    BY <1>2, <2>3, FlattenAlike
  <2> QED
    BY <1>3, <2>4 DEF SideBySide
<1>8. ASSUME NEW p \in 1..Len(shots)
      PROVE  /\ P[p].length = shots[p].length
             /\ P[p].id # <<"planned">> => P[p] = shots[p] /\ P[p].id \in Ids(story.shots)
  <2>1. PICK i \in 1..n : \E k \in 1..Len(b[i]) : shots[p] = b[i][k] /\ P[p] = c[i][k]
    BY <1>7
  <2>2. PICK k \in 1..Len(b[i]) : shots[p] = b[i][k] /\ P[p] = c[i][k]
    BY <2>1
  <2> QED
    BY <1>5, <2>2
<1>9. Lengths(P) = Lengths(shots)
  <2>1. DOMAIN P = 1..Len(shots) /\ DOMAIN shots = 1..Len(shots)
    BY <1>7, SeqFacts
  <2> QED
    BY <1>8, <2>1 DEF Lengths
<1>10. PICK p \in 1..Len(P) :
         x.id = P[p].id /\ x.length = NormalizeDurations(Lengths(P), story.brief.length)[p]
  BY <1>7, ForeseenIs, SMTT(30) DEF P
<1>11. p \in 1..Len(shots) /\ shots[p].id = x.id /\ x.id \in Ids(story.shots)
  BY <1>7, <1>8, <1>10
<1> QED
  BY <1>9, <1>10, <1>11 DEF Comes

-----------------------------------------------------------------------------
(* What is predicted is found. *)

\* A story keeps the shots of videos only.
LEMMA KeptIsVideo ==
  ASSUME NEW parent, NEW s0, NEW story, GoodStory(story), NEW kept,
         NEW plan, plan = PlanRevision(parent, s0, story, kept),
         NEW id \in Ids(story.shots), plan.shots[id] = "kept"
  PROVE  id \in Ids(OfType(parent, "video"))
<1> DEFINE x == ById(story.shots, id)
           V == Ids(OfType(parent, "video"))
           ids == Ids(story.shots) \cup Ids(s0.shots)
           status(y, stale, dirty) ==
             IF y.scene \in stale THEN "stale"
             ELSE IF y.id \notin V \cap Ids(s0.shots) THEN "new"
             ELSE IF PromptInputs(y) # PromptInputs(ById(s0.shots, y.id)) THEN "edited"
             ELSE IF s0.brief.style # story.brief.style \/ dirty \cap ({y.location} \cup ToSet(y.subjects)) # {}
                  THEN "prompt"
             ELSE "kept"
<1>1. x.id = id
  <2>1. IsSeq(story.shots)
    BY DEF GoodStory, GoodBreakdown
  <2> QED
    BY <2>1, ByIdIs
<1>2. \E stale, dirty : plan.shots = ShotStatus(parent, s0, story, stale, dirty)
  BY DEF PlanRevision
<1>3. PICK stale, dirty : plan.shots = ShotStatus(parent, s0, story, stale, dirty)
  BY <1>2
<1>4. ShotStatus(parent, s0, story, stale, dirty) =
        [key \in ids |-> IF key \in Ids(story.shots) THEN status(ById(story.shots, key), stale, dirty) ELSE "removed"]
  BY DEF ShotStatus
<1> HIDE DEF status
<1>5. plan.shots[id] = status(x, stale, dirty)
  BY <1>3, <1>4
<1> HIDE DEF x, V
<1>6. status(x, stale, dirty) = "kept"
  BY <1>5
<1>7. x.id \in V
  BY <1>6 DEF status
<1> QED
  BY <1>1, <1>7 DEF V

\* The shots predicted come as predicted, those that have a name.
Foretold(story, plan, shots) ==
  \A x \in ToSet(PredictedShots(story, plan)) :
    x.id # <<"planned">> => Comes(x, shots, story.brief.length) /\ x.id \in Ids(story.shots)

\* Predicted to be carried over.
Carries(x, parent, rendered, story, plan) ==
  /\ x.id \in Ids(parent.assets) \cap rendered
  /\ plan.shots[x.id] = "kept"
  /\ LET old == ById(parent.assets, x.id)
         live == Live(parent, old.refs, RefsOf(story.world))
     IN /\ live # <<>> /\ live[1] = old.refs[1]
        /\ live[1] \in RefsOf(story.world) => KeptRef(live[1], parent, story, plan)
        /\ WholeSeconds(x.length) = WholeSeconds(old.length)

\* What the preview counts.
LEMMA ReuseIs ==
  ASSUME NEW parent, NEW rendered, rendered \subseteq Ids(parent.assets), NEW story, NEW plan,
         NEW id \in PredictedReuse(parent, rendered, story, plan)
  PROVE  /\ id \in rendered
         /\ \/ KeptRef(id, parent, story, plan)
            \/ \E x \in ToSet(PredictedShots(story, plan)) : x.id = id /\ Carries(x, parent, rendered, story, plan)
            \/ ~plan.narrationRerender /\ Len(Voiceovers(parent)) = 1 /\ id = Voiceovers(parent)[1].id
<1> DEFINE entities == ToSet(Entities(story.world))
           refs == {RefOf(e) : e \in {e \in entities : e.id \notin plan.rerendered}} \cap rendered
           fresh == RefsOf(story.world) \ refs
           carried(x) ==
             /\ x.id \in Ids(parent.assets) \cap rendered
             /\ plan.shots[x.id] = "kept"
             /\ LET old == ById(parent.assets, x.id)
                    live == Live(parent, old.refs, RefsOf(story.world))
                IN /\ live # <<>>
                   /\ live[1] = old.refs[1] /\ live[1] \notin fresh
                   /\ WholeSeconds(x.length) = WholeSeconds(old.length)
           vos == Voiceovers(parent)
           told == IF ~plan.narrationRerender /\ Len(vos) = 1 THEN {vos[1].id} \cap rendered ELSE {}
           found == {x.id : x \in {x \in ToSet(PredictedShots(story, plan)) : carried(x)}}
<1>1. PredictedReuse(parent, rendered, story, plan) = refs \cup found \cup told
  BY Zenon DEF PredictedReuse, Live
<1>2. \A r \in refs : r \in rendered /\ KeptRef(r, parent, story, plan)
  BY DEF KeptRef
<1>3. ASSUME NEW x, carried(x) PROVE x.id \in rendered /\ Carries(x, parent, rendered, story, plan)
  <2> DEFINE old == ById(parent.assets, x.id)
             images == RefsOf(story.world)
             live == Live(parent, old.refs, images)
  <2>1. live[1] \in images => live[1] \in refs
    <3> HIDE DEF live, refs
    <3> QED
      BY <1>3 DEF live
  <2> HIDE DEF refs
  <2> QED
    BY <1>2, <1>3, <2>1 DEF Carries
<1> HIDE DEF refs, carried
<1>4. id \in refs \/ (\E x \in ToSet(PredictedShots(story, plan)) : carried(x) /\ id = x.id) \/ id \in told
  BY <1>1
<1> QED
  BY <1>2, <1>3, <1>4

\* All of it is found again.
LEMMA ReuseIsFound ==
  ASSUME NEW built, NEW pkg, NEW parent, NEW story, NEW plan, NEW shots,
         Revises(built, pkg, parent, story, plan, shots), NEW kept,
         plan = PlanRevision(parent, StoryFromPackage(parent), story, kept),
         Foretold(story, plan, shots), NEW rendered, rendered \subseteq Ids(parent.assets),
         NEW id \in PredictedReuse(parent, rendered, story, plan)
  PROVE  id \in rendered /\ FoundAgain(id, built, parent, shots)
<1>1. GoodPackage(parent) /\ SoundNames(parent) /\ GoodStory(story)
  BY DEF Revises
<1>2. KeptRef(id, parent, story, plan) => FoundAgain(id, built, parent, shots)
  BY RefIsKept
<1>3. ASSUME NEW x \in ToSet(PredictedShots(story, plan)), x.id = id, Carries(x, parent, rendered, story, plan)
      PROVE  FoundAgain(id, built, parent, shots)
  <2> DEFINE old == ById(parent.assets, id)
             images == RefsOf(story.world)
             live == Live(parent, old.refs, images)
  <2>1. /\ id \in Ids(parent.assets) /\ plan.shots[id] = "kept" /\ live # <<>> /\ live[1] = old.refs[1]
        /\ live[1] \in images => KeptRef(live[1], parent, story, plan)
        /\ WholeSeconds(x.length) = WholeSeconds(old.length)
    BY <1>3 DEF Carries
  <2> HIDE DEF old, live
  <2>2. old \in ToSet(parent.assets) /\ old.id = id
    <3>1. IsSeq(parent.assets)
      BY <1>1 DEF GoodPackage, IsPackage
    <3> QED
      BY <2>1, <3>1, ByIdIs DEF old
  <2>3. id # <<"planned">>
    <3> SUFFICES ASSUME id = <<"planned">> PROVE FALSE
      OBVIOUS
    <3>1. old.type = "image"
      BY <1>1, <2>2 DEF SoundNames
    <3>2. old.refs = <<>>
      BY <1>1, <2>2, <3>1 DEF GoodPackage, SoundPackage
    <3>3. live = <<>>
      <4> DEFINE P == {k \in DOMAIN old.refs : old.refs[k] \in images \/ HandAuthored(parent, old.refs[k])}
      <4>1. live = Picked(old.refs, P)
        BY DEF live, Live, Where
      <4>2. P = {}
        BY <3>2
      <4> HIDE DEF P
      <4> QED
        BY <4>1, <4>2, PickedNone
    <3> QED
      BY <2>1, <3>3
  <2>4. Comes(x, shots, story.brief.length) /\ id \in Ids(story.shots)
    BY <1>3, <2>3 DEF Foretold
  <2>5. PICK i \in 1..Len(shots) :
          shots[i].id = id /\ x.length = NormalizeDurations(Lengths(shots), story.brief.length)[i]
    BY <1>3, <2>4 DEF Comes
  <2>6. id \in Ids(OfType(parent, "video"))
    BY <1>1, <2>1, <2>4, KeptIsVideo
  <2>7. WholeSeconds(NormalizeDurations(Lengths(shots), story.brief.length)[i]) = WholeSeconds(old.length)
    BY <2>1, <2>5
  <2>8. /\ old = ById(parent.assets, id) /\ live = Live(parent, old.refs, RefsOf(story.world))
        /\ live[1] \in RefsOf(story.world) => KeptRef(live[1], parent, story, plan)
    BY <2>1 DEF old, live
  <2> HIDE DEF images
  <2> QED
    BY <2>1, <2>5, <2>6, <2>7, <2>8, VideoIsKept
<1>4. ASSUME ~plan.narrationRerender, Len(Voiceovers(parent)) = 1, id = Voiceovers(parent)[1].id
      PROVE  FoundAgain(id, built, parent, shots)
  <2> DEFINE s0 == StoryFromPackage(parent)
             vos == Voiceovers(parent)
             b == parent.brief
             voice == vos[1].voice
  <2>1. ~plan.narrationChanged /\ "voice" \notin {f \in DOMAIN story.brief : s0.brief[f] # story.brief[f]}
    BY <1>4 DEF PlanRevision
  <2>2. "voice" \in DOMAIN story.brief
    BY <1>1 DEF GoodStory, IsBrief
  <2>3. s0.brief.voice = story.brief.voice
    BY <2>1, <2>2
  <2>4. s0.brief.voice = voice
    <3>1. vos # <<>>
      <4>1. Len(vos) = 1 /\ Len(<<>>) = 0
        BY <1>4, EmptyIsSeq
      <4> QED
        BY <4>1
    <3>2. s0.brief = [b EXCEPT !.voice = IF vos # <<>> THEN vos[1].voice ELSE @]
      BY DEF StoryFromPackage
    <3>3. "voice" \in DOMAIN b
      BY <1>1 DEF GoodPackage, IsPackage, IsBrief
    <3> HIDE DEF b, vos, s0
    <3> QED
      BY <3>1, <3>2, <3>3
  <2>5. vos[1].voice = story.brief.voice
    BY <2>3, <2>4
  <2> HIDE DEF s0, b
  <2> QED
    BY <1>4, <2>1, <2>5, NarrationIsKept
<1>5. /\ id \in rendered
      /\ \/ KeptRef(id, parent, story, plan)
         \/ \E x \in ToSet(PredictedShots(story, plan)) : x.id = id /\ Carries(x, parent, rendered, story, plan)
         \/ ~plan.narrationRerender /\ Len(Voiceovers(parent)) = 1 /\ id = Voiceovers(parent)[1].id
  BY ReuseIs
<1> QED
  BY <1>2, <1>3, <1>4, <1>5

\* What all come from some of a set of other things are not more than those.
LEMMA NotMore ==
  ASSUME NEW S, IsFiniteSet(S), NEW T, NEW f, \A t \in T : \E s \in S : f[s] = t
  PROVE  Cardinality(T) <= Cardinality(S)
<1> DEFINE g == [s \in S |-> f[s]]
           U == {g[s] : s \in S}
<1>1. g \in [S -> U]
  OBVIOUS
<1>2. \A t \in T : t \in U
  OBVIOUS
<1>3. g \in Surjection(S, U)
  BY <1>1 DEF Surjection
<1>4. IsFiniteSet(U) /\ Cardinality(U) <= Cardinality(S)
  <2> HIDE DEF g, U
  <2> QED
    BY <1>3, FS_Surjection
<1> HIDE DEF g, U
<1>5. IsFiniteSet(T) /\ Cardinality(T) <= Cardinality(U)
  BY <1>2, <1>4, FS_Subset
<1>6. Cardinality(S) \in Nat /\ Cardinality(T) \in Nat /\ Cardinality(U) \in Nat
  BY <1>4, <1>5, FS_CardinalityType
<1> QED
  BY <1>4, <1>5, <1>6

\* What a job builds carries over from the film.
LEMMA RevisesTheFilm ==
  ASSUME GoodPackage(film), SoundNames(film), GoodStory(draft), NamedBrief(draft), NEW agent,
         NEW parentStory, parentStory = StoryFromPackage(film),
         NEW plan, plan = PlanRevision(film, parentStory, draft, keep)
  PROVE  \E pkg : Revises(RunRevision(parentStory, plan, agent), pkg, film, draft, plan, RevisedShots(parentStory, plan, agent))
<1> DEFINE shots == RevisedShots(parentStory, plan, agent)
           fresh == PromptsAnswer(agent, draft, Dirty(shots, plan))
           built == RunRevision(parentStory, plan, agent)
<1>1. built = BuildRevision(film, draft, plan, shots, fresh)
  BY DEF RunRevision
<1>2. GoodPackage(built)
  BY RevisionIsBuilt DEF Built
<1>3. GoodBreakdown(shots, draft.world, draft.scenes)
  BY RevisedShotsIs
<1> HIDE DEF shots, fresh, built
<1>4. \E prompts : built = CarryOver(AssemblePackage(draft, shots, prompts), film, draft, plan, shots)
  BY <1>1 DEF BuildRevision
<1>5. PICK prompts : built = CarryOver(AssemblePackage(draft, shots, prompts), film, draft, plan, shots)
  BY <1>4
<1> DEFINE pkg == AssemblePackage(draft, shots, prompts)
<1>6. MadeFor(pkg, draft, shots) /\ Assembled(pkg, RefsOf(draft.world))
  BY <1>3, AssemblePackageIs
<1>7. built = CarryOver(pkg, film, draft, plan, shots)
  BY <1>5
<1> HIDE DEF pkg
<1>8. Revises(built, pkg, film, draft, plan, shots)
  BY <1>2, <1>3, <1>6, <1>7 DEF Revises, MadeFor
<1> QED
  BY <1>8 DEF built, shots

\* Its shots are as the preview said, where no agent chooses otherwise.
LEMMA PlannedAsForetold ==
  ASSUME GoodPackage(film), GoodStory(draft), NEW agent,
         NEW parentStory, parentStory = StoryFromPackage(film),
         NEW plan, plan = PlanRevision(film, parentStory, draft, keep),
         agent = "mock" \/ plan.stale = {}
  PROVE  Foretold(draft, plan, RevisedShots(parentStory, plan, agent))
<1> DEFINE shots == RevisedShots(parentStory, plan, agent)
<1>1. CASE plan.full
  <2>1. draft.brief.length \in Int
    BY DEF GoodStory, IsBrief
  <2> QED
    BY <1>1, <2>1, AllNameless DEF Foretold
<1>2. CASE ~plan.full
  <2>1. /\ plan.stale \subseteq Ids(draft.scenes) /\ DOMAIN plan.targets = plan.stale
        /\ \A id \in plan.stale : plan.targets[id] \in Nat /\ plan.targets[id] >= 1
        /\ \E r : /\ r = SanitizeReplanned(BreakdownAnswer(agent, draft, plan.targets, parentStory),
                                           draft, plan.targets, parentStory)
                  /\ DOMAIN r = plan.stale /\ Replanned(r, draft, draft.shots)
                  /\ shots = SpliceShots(draft, r)
    BY RevisedShotsIs
  <2> HIDE DEF shots
  <2>2. PICK r : /\ r = SanitizeReplanned(BreakdownAnswer(agent, draft, plan.targets, parentStory),
                                          draft, plan.targets, parentStory)
                 /\ DOMAIN r = plan.stale /\ Replanned(r, draft, draft.shots)
                 /\ shots = SpliceShots(draft, r)
    BY <2>1
  <2>3. \A id \in DOMAIN r : Len(r[id]) = plan.targets[id] /\ \A k \in 1..Len(r[id]) : r[id][k].length = PerShot
    <3>1. CASE plan.stale = {}
      BY <2>2, <3>1
    <3>2. CASE agent = "mock"
      <4> DEFINE targets == plan.targets
                 q == SanitizeReplanned(MockReplan(draft, targets, parentStory), draft, targets, parentStory)
      <4>1. r = q
        BY <2>2, <3>2 DEF BreakdownAnswer
      <4>2. DOMAIN targets \subseteq Ids(draft.scenes) /\ \A id \in DOMAIN targets : targets[id] \in Nat /\ targets[id] >= 1
        BY <2>1
      <4>3. DOMAIN r = DOMAIN targets
        BY <2>1, <2>2
      <4> HIDE DEF targets
      <4>4. \A id \in DOMAIN targets : Len(r[id]) = targets[id] /\ \A k \in 1..Len(r[id]) : r[id][k].length = PerShot
        BY <4>1, <4>2, MockPlans
      <4> QED
        BY <4>3, <4>4 DEF targets
    <3> QED
      BY <3>1, <3>2
  <2>4. ASSUME NEW x \in ToSet(PredictedShots(draft, plan)), x.id # <<"planned">>
        PROVE  Comes(x, shots, draft.brief.length) /\ x.id \in Ids(draft.shots)
    BY <1>2, <2>2, <2>3, <2>4, AsPredicted
  <2>5. Foretold(draft, plan, shots)
    BY <2>4 DEF Foretold
  <2> QED
    BY <2>5 DEF shots
<1> QED
  BY <1>1, <1>2

\* Every node of t is called as one of these, of the same type.
SameNames(assets, t) ==
  \A a \in ToSet(t) : \E old \in ToSet(assets) : a.id = old.id /\ a.type = old.type

\* So it is when one is written anew.
LEMMA OneRewritten ==
  ASSUME NEW assets, IsSeq(assets), NEW i \in DOMAIN assets, NEW e,
         e.id = assets[i].id, e.type = assets[i].type
  PROVE  IsSeq([assets EXCEPT ![i] = e]) /\ SameNames(assets, [assets EXCEPT ![i] = e])
<1> DEFINE t == [assets EXCEPT ![i] = e]
           n == Len(assets)
<1>1. n \in Nat /\ DOMAIN assets = 1..n /\ \A j \in 1..n : assets[j] \in ToSet(assets)
  BY SeqFacts
<1>2. t = [j \in 1..n |-> t[j]] /\ \A j \in 1..n : t[j] = IF j = i THEN e ELSE assets[j]
  BY <1>1
<1> HIDE DEF t
<1>3. IsSeq(t) /\ Len(t) = n
  BY <1>1, <1>2, SeqMade
<1>4. \A a \in ToSet(t) : \E j \in 1..n : a = t[j]
  BY <1>3, SeqFacts
<1>5. \A j \in 1..n : t[j].id = assets[j].id /\ t[j].type = assets[j].type
  BY <1>2
<1>6. SameNames(assets, t)
  BY <1>1, <1>4, <1>5 DEF SameNames
<1> QED
  BY <1>3, <1>6 DEF t

\* What users write by hand is named as the preview expects.
LEMMA WrittenNames ==
  ASSUME NEW pkg, GoodPackage(pkg), SoundNames(pkg), NEW new \in HandWritten(pkg)
  PROVE  SoundNames(new)
<1> DEFINE assets == pkg.assets
           anew(i, image) == [assets[i] EXCEPT !.refs = First(@, image), !.deps = First(@, image)]
<1>1. /\ IsSeq(assets) /\ "assets" \in DOMAIN pkg
      /\ \A i \in DOMAIN assets : IsAsset(assets[i])
  <2>1. IsSeq(assets) /\ "assets" \in DOMAIN pkg /\ \A a \in ToSet(assets) : IsAsset(a)
    BY DEF GoodPackage, IsPackage
  <2> QED
    BY <2>1, SeqFacts
<1>2. PICK t : new = [pkg EXCEPT !.assets = t] /\ NodesWritten(pkg, t)
  BY WrittenBy
<1>3. new.assets = t
  BY <1>1, <1>2
<1>4. ASSUME NEW i \in DOMAIN assets, NEW image
      PROVE  IsSeq(Showing(assets, i, image)) /\ SameNames(assets, Showing(assets, i, image))
  <2> DEFINE x == assets[i]
             r == First(x.refs, image)
             d == First(x.deps, image)
             e == [x EXCEPT !.refs = r, !.deps = d]
  <2>1. Showing(assets, i, image) = [assets EXCEPT ![i] = e]
    BY <1>1 DEF Showing, IsAsset
  <2>2. e.id = x.id /\ e.type = x.type
    BY <1>1 DEF IsAsset
  <2> HIDE DEF e
  <2> QED
    BY <1>1, <2>1, <2>2, OneRewritten
<1>5. ASSUME NEW i \in DOMAIN assets, t = [assets EXCEPT ![i] = [assets[i] EXCEPT !.content = <<"typed", "prompt">>]]
      PROVE  SameNames(assets, t)
  <2> DEFINE c == <<"typed", "prompt">>
             e == [assets[i] EXCEPT !.content = c]
  <2> HIDE DEF c
  <2>1. e.id = assets[i].id /\ e.type = assets[i].type
    BY <1>1 DEF IsAsset
  <2>2. t = [assets EXCEPT ![i] = e]
    BY <1>5 DEF c
  <2> HIDE DEF e
  <2> QED
    BY <1>1, <2>1, <2>2, OneRewritten
<1>6. ASSUME NEW i \in DOMAIN assets, t = [assets EXCEPT ![i] = [assets[i] EXCEPT !.content = <<"typed", "words">>]]
      PROVE  SameNames(assets, t)
  <2> DEFINE c == <<"typed", "words">>
             e == [assets[i] EXCEPT !.content = c]
  <2> HIDE DEF c
  <2>1. e.id = assets[i].id /\ e.type = assets[i].type
    BY <1>1 DEF IsAsset
  <2>2. t = [assets EXCEPT ![i] = e]
    BY <1>6 DEF c
  <2> HIDE DEF e
  <2> QED
    BY <1>1, <2>1, <2>2, OneRewritten
<1>7. ASSUME NEW i \in DOMAIN assets, t = [assets EXCEPT ![i] = [assets[i] EXCEPT !.length = assets[i].length + 100]]
      PROVE  SameNames(assets, t)
  <2> DEFINE l == assets[i].length + 100
             e == [assets[i] EXCEPT !.length = l]
  <2> HIDE DEF l
  <2>1. e.id = assets[i].id /\ e.type = assets[i].type
    BY <1>1 DEF IsAsset
  <2>2. t = [assets EXCEPT ![i] = e]
    BY <1>7 DEF l
  <2> HIDE DEF e
  <2> QED
    BY <1>1, <2>1, <2>2, OneRewritten
<1>8. ASSUME NEW i \in DOMAIN assets, t = <<ByHand>> \o Showing(assets, i, ByHand.id)
      PROVE  \A a \in ToSet(t) : a.type = "image" \/ \E old \in ToSet(assets) : a.id = old.id /\ a.type = old.type
  <2> DEFINE s == Showing(assets, i, ByHand.id)
  <2>1. IsSeq(s) /\ SameNames(assets, s)
    BY <1>4
  <2>2. ByHand.type = "image"
    BY DEF ByHand, Node
  <2>3. IsSeq(<<ByHand>>) /\ ToSet(<<ByHand>>) = {ByHand}
    BY Single
  <2>4. t = <<ByHand>> \o s
    BY <1>8
  <2> HIDE DEF s
  <2>5. ToSet(t) = {ByHand} \cup ToSet(s)
    BY <2>1, <2>3, <2>4, Concat
  <2> QED
    BY <2>1, <2>2, <2>5 DEF SameNames
<1>9. \A a \in ToSet(t) : a.type = "image" \/ \E old \in ToSet(assets) : a.id = old.id /\ a.type = old.type
  <2>1. CASE SameNames(assets, t)
    BY <2>1 DEF SameNames
  <2>2. CASE ~SameNames(assets, t)
    <3>1. \E i \in DOMAIN assets : t = <<ByHand>> \o Showing(assets, i, ByHand.id)
      BY <1>2, <1>4, <1>5, <1>6, <1>7, <2>2, SMTT(30) DEF NodesWritten
    <3> QED
      BY <3>1, <1>8
  <2> QED
    BY <2>1, <2>2
<1> QED
  BY <1>3, <1>9 DEF SoundNames

-----------------------------------------------------------------------------
\* What is done of the version in production is in the store of renders, under the names the
\* preview goes by; of a version that is not approved nothing is done.
Reusable ==
  /\ SoundNames(film)
  /\ done \subseteq Ids(film.assets)
  /\ \A id \in done : Fingerprints(film)[id] \in renders
  /\ ~approved => done = {}

\* So it is from the start.
LEMMA ReusableInit == Init => Reusable
  BY NamesAssumption DEF Init, Reusable

\* And stays, whatever is written, produced and revised.
LEMMA ReusableNext == Sound /\ Reusable /\ [Next]_vars => Reusable'
<1> SUFFICES ASSUME Sound, Reusable, [Next]_vars PROVE Reusable'
  OBVIOUS
<1>1. GoodPackage(film) /\ GoodStory(draft) /\ NamedBrief(draft)
  BY DEF Sound
<1>2. /\ SoundNames(film) /\ done \subseteq Ids(film.assets)
      /\ \A id \in done : Fingerprints(film)[id] \in renders
      /\ ~approved => done = {}
  BY DEF Reusable
<1>3. CASE Edit \/ Keep \/ AcceptProposal \/ UNCHANGED vars
  <2>1. film' = film /\ approved' = approved /\ done' = done /\ renders' = renders
    BY <1>3 DEF Edit, Keep, AcceptProposal, vars
  <2> QED
    BY <1>2, <2>1 DEF Reusable
<1>4. CASE HandWrite
  <2>1. /\ ~approved /\ approved' = approved /\ done' = done /\ renders' = renders
        /\ \E pkg \in HandWritten(film) : film' = pkg
    BY <1>4 DEF HandWrite
  <2>2. done' = {}
    BY <1>2, <2>1
  <2>3. SoundNames(film')
    BY <1>1, <1>2, <2>1, WrittenNames
  <2> QED
    BY <2>2, <2>3 DEF Reusable
<1>5. CASE Produce
  <2>1. /\ film' = film /\ approved' = TRUE
        /\ \E failed : done' = Ids(film.assets) \ Lost(film, failed)
        /\ renders' = renders \cup {Fingerprints(film)[id] : id \in done'}
    BY <1>5 DEF Produce
  <2>2. done' \subseteq Ids(film.assets) /\ \A id \in done' : Fingerprints(film)[id] \in renders'
    BY <2>1
  <2> QED
    BY <1>2, <2>1, <2>2 DEF Reusable
<1>6. ASSUME NEW agent \in Agents, Revise(agent) PROVE Reusable'
  <2> DEFINE story == StoryFromPackage(film)
             built == RunRevision(story, Plan, agent)
             shots == RevisedShots(story, Plan, agent)
  <2>1. /\ \/ film' = built /\ done' = {}
           \/ film' = film /\ done' = done /\ approved' = approved
        /\ renders' = renders
    BY <1>6 DEF Revise
  <2>2. SoundNames(built)
    <3>1. \E pkg : Revises(built, pkg, film, draft, Plan, shots)
      BY <1>1, <1>2, RevisesTheFilm DEF Plan
    <3>2. PICK pkg : Revises(built, pkg, film, draft, Plan, shots)
      BY <3>1
    <3> HIDE DEF built, shots
    <3>3. CarriedAll(built, pkg, RefsOf(draft.world), film, draft, Plan, shots)
      BY <3>2, RevisesIs
    <3> QED
      BY <3>3 DEF CarriedAll, SoundNames, NodeNames
  <2> HIDE DEF built
  <2> QED
    BY <1>2, <2>1, <2>2 DEF Reusable
<1> QED
  BY <1>3, <1>4, <1>5, <1>6 DEF Next

\* A job keeps what its preview said.
LEMMA PreviewHolds ==
  ASSUME Sound, Reusable, [Next]_vars, Revised, outcome' = "planned"
  PROVE  LET reused == PredictedReuse(film, done, draft, Plan)
             prints == Fingerprints(film') IN
         /\ \A id \in reused : \E new \in DOMAIN prints : prints[new] = Fingerprints(film)[id]
         /\ Cardinality(reused) <= Cardinality({id \in DOMAIN prints : prints[id] \in renders})
<1> DEFINE parentStory == StoryFromPackage(film)
           reused == PredictedReuse(film, done, draft, Plan)
           prints == Fingerprints(film')
           found == {id \in DOMAIN prints : prints[id] \in renders}
           vos == Voiceovers(film)
<1>1. GoodPackage(film) /\ GoodStory(draft) /\ NamedBrief(draft)
  BY DEF Sound
<1>2. SoundNames(film) /\ done \subseteq Ids(film.assets) /\ \A id \in done : Fingerprints(film)[id] \in renders
  BY DEF Reusable
<1>3. \E agent \in Agents : Revise(agent)
  <2>1. CASE Edit \/ Keep \/ AcceptProposal \/ HandWrite \/ Produce \/ UNCHANGED vars
    BY <2>1 DEF Edit, Keep, AcceptProposal, HandWrite, Produce, vars, Revised
  <2> QED
    BY <2>1 DEF Next
<1>4. PICK agent \in Agents : Revise(agent)
  BY <1>3
<1> DEFINE built == RunRevision(parentStory, Plan, agent)
           shots == RevisedShots(parentStory, Plan, agent)
<1>5. film' = built /\ (agent = "mock" \/ Plan.stale = {})
  BY <1>4 DEF Revise, Revised
<1>6. Plan = PlanRevision(film, parentStory, draft, keep)
  BY DEF Plan
<1>7. \E pkg : Revises(built, pkg, film, draft, Plan, shots)
  <2> HIDE DEF parentStory
  <2> QED
    BY <1>1, <1>2, <1>6, RevisesTheFilm DEF parentStory
<1>8. Foretold(draft, Plan, shots)
  <2> HIDE DEF parentStory
  <2> QED
    BY <1>1, <1>5, <1>6, PlannedAsForetold DEF parentStory
<1> HIDE DEF built, shots
<1>9. PICK pkg : Revises(built, pkg, film, draft, Plan, shots)
  BY <1>7
<1>10. \A id \in reused : id \in done /\ FoundAgain(id, built, film, shots)
  BY <1>2, <1>6, <1>8, <1>9, ReuseIsFound
<1> HIDE DEF reused
<1>11. DOMAIN prints = Ids(built.assets) /\ prints = Fingerprints(built)
  BY <1>5 DEF Fingerprints
<1> HIDE DEF prints
<1>12. ASSUME NEW id \in reused
       PROVE  \E new \in DOMAIN prints : prints[new] = Fingerprints(film)[id] /\ CameFrom(new, shots, vos) = id
  BY <1>10, <1>11 DEF FoundAgain
<1>13. \A id \in reused : \E new \in found : CameFrom(new, shots, vos) = id
  BY <1>2, <1>10, <1>12
<1>14. IsFiniteSet(found)
  <2>1. IsSeq(built.assets)
    BY <1>9 DEF Revises, GoodPackage, IsPackage
  <2>2. IsFiniteSet(DOMAIN prints)
    BY <1>11, <2>1, IdsAreFinite
  <2> QED
    BY <2>2, FS_Subset
<1> HIDE DEF found
<1>15. Cardinality(reused) <= Cardinality(found)
  <2> DEFINE f == [new \in found |-> CameFrom(new, shots, vos)]
  <2>1. \A id \in reused : \E new \in found : f[new] = id
    BY <1>13
  <2> HIDE DEF f
  <2> QED
    BY <1>14, <2>1, NotMore
<1> QED
  BY <1>12, <1>15 DEF reused, found, prints

\* A preview comes true, whatever was edited before and whichever renders failed.
THEOREM PreviewComesTrue == Spec => PreviewIsKept
<1> DEFINE Inv == Sound /\ Reusable
           Kept ==
             Revised /\ approved /\ outcome' = "planned" =>
               LET reused == PredictedReuse(film, done, draft, Plan)
                   prints == Fingerprints(film')
               IN /\ \A id \in reused : \E new \in DOMAIN prints : prints[new] = Fingerprints(film)[id]
                  /\ Cardinality(reused) <= Cardinality({id \in DOMAIN prints : prints[id] \in renders})
<1>1. Init => Inv
  BY SoundInit, ReusableInit
<1>2. Inv /\ [Next]_vars => Inv'
  BY SoundNext, ReusableNext
<1>3. Inv /\ [Next]_vars => [Kept]_vars
  BY PreviewHolds
<1>4. PreviewIsKept <=> [][Kept]_vars
  BY PTL DEF PreviewIsKept
<1> HIDE DEF Inv, Kept
<1> QED
  BY <1>1, <1>2, <1>3, <1>4, PTL DEF Spec
==============================================================================
