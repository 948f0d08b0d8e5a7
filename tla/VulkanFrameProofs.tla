-------------------------- MODULE VulkanFrameProofs --------------------------
(***************************************************************************)
(* Proofs about VulkanFrame, for any textures and targets, any sizes of    *)
(* caches, pools, rings and staging buffers, and any order of calls.       *)
(*                                                                         *)
(* The invariant runs the commands recorded so far: up to here they are    *)
(* legal, each reads what it was meant to read, and the images they leave, *)
(* with the clear that still waits made, are the images the guest expects  *)
(* (Matches).  So that later calls keep this, what a command reads lies    *)
(* below the cursor of a staging buffer or of the combiner ring, where     *)
(* nothing is written again before a submission (Safe); the renderer's own *)
(* record of the batch is what the GPU will find (Tracked); and the caches *)
(* and stages name images that are there, each once (Linked).              *)
(***************************************************************************)
EXTENDS VulkanFrame, FiniteSetTheorems, WellFoundedInduction, TLAPS

-----------------------------------------------------------------------------
(* The inductive invariant *)

Surfaces == Images \cup {Main, White}
Paints == [Aspects -> Contents]
Painting == [Surfaces -> Paints]
Pending == [Aspects -> ClearValues \cup {None}]
Data == {None} \cup Pixels \cup Vertices \cup Indices
CombinerSlots == 0..(CombinerSlotCount - 1)

TargetEntry == [key : TargetKeys, image : Images, geometry : TargetSizes]
TextureEntry == [key : TextureKeys, image : Images, geometry : TextureSizes, lastUse : Nat]
Block == [token : Tokens, textures : [Stages -> TextureKeys \cup {None}],
          targets : [Stages -> TargetKeys \cup {None}], config : Configs \cup {None}]

ByteRange == [area : Areas, buffer : Nat, at : Nat, size : Nat]
Meant == [target : Surfaces, under : Paints, sampled : [Stages -> Contents],
          config : Configs \cup {None}, vertices : Vertices, indices : Indices \cup {None}]
Command ==
    [op : {"end", "barrier"}]
        \cup [op : {"begin"}, image : Surfaces, load : Pending]
        \cup [op : {"clear"}, image : Surfaces, aspect : Aspects, value : ClearValues \cup {None}]
        \cup [op : {"upload"}, image : Surfaces, pixels : Pixels, from : ByteRange]
        \cup [op : {"compose"}, pixels : Pixels, from : ByteRange]
        \cup [op : {"draw"}, views : [Stages -> Surfaces], slot : CombinerSlots,
              vertices : ByteRange, indices : ByteRange \cup {None}, meant : Meant]

State ==
    [frameOpen : BOOLEAN, renderingActive : BOOLEAN, gpuWroteTarget : BOOLEAN,
     pending : Pending, targets : Seq(TargetEntry), current : Nat,
     textures : [Slots -> TextureEntry \cup {Empty}],
     stageTexture : [Stages -> Slots \cup {None}],
     overrideView : [Stages -> Images \cup {None}],
     overrideKey : [Stages -> TargetKeys \cup {None}],
     staging : [Areas -> Seq(Data)], cursor : [Areas -> Nat],
     descriptorSetCount : 0..MaxDescriptorSets,
     combiner : [CombinerSlots -> Configs \cup {None}],
     combinerWriteSlot : 0..CombinerSlotCount, combinerActiveSlot : CombinerSlots,
     combinerDirty : BOOLEAN, lastConfig : Configs \cup {None},
     commands : Seq(Command), contents : Painting]

Gpu == [contents : Painting, active : Surfaces \cup {None},
        unsynced : SUBSET (Surfaces \X Aspects), legal : BOOLEAN, faithful : BOOLEAN]

(* What the caches and the stages name. *)
Linked(s) ==
    /\ s.current \in 0..Len(s.targets)
    /\ Len(s.targets) <= MaxTargets
    /\ \A i, j \in 1..Len(s.targets) :
          i # j => s.targets[i].key # s.targets[j].key /\ s.targets[i].image # s.targets[j].image
    /\ \A t, u \in Slots :
          t # u /\ s.textures[t] # Empty =>
              s.textures[t].key # s.textures[u].key /\ s.textures[t].image # s.textures[u].image
    /\ \A t \in Slots, i \in 1..Len(s.targets) : s.textures[t].image # s.targets[i].image
    /\ \A g \in Stages : s.stageTexture[g] # None => s.textures[s.stageTexture[g]] # Empty
    /\ \A g \in Stages : s.overrideView[g] = None <=> s.overrideKey[g] = None
    /\ \A g \in Stages : s.overrideView[g] # None =>
          /\ s.stageTexture[g] = None
          /\ \E i \in 1..Len(s.targets) : /\ s.targets[i].key = s.overrideKey[g]
                                          /\ s.targets[i].image = s.overrideView[g]

(* A range below the cursor of a buffer that is still the one it was taken from. *)
Within(s, range) ==
    /\ range.buffer = Len(s.staging[range.area])
    /\ range.at + range.size <= s.cursor[range.area]

(* What a command names and reads is there and is not written any more. *)
Safe(s, c) ==
    /\ MentionedIn(c) \subseteq LiveIn(s)
    /\ c.op \in {"upload", "compose"} => Within(s, c.from)
    /\ c.op = "draw" => /\ c.slot < s.combinerWriteSlot
                        /\ c.vertices.area = "vertex" /\ Within(s, c.vertices)
                        /\ c.indices # None => Within(s, c.indices)

(* What the renderer remembers of its batch is what the GPU will find. *)
Tracked(s, g) ==
    /\ g \in Gpu /\ g.legal /\ g.faithful
    /\ g.active = IF s.renderingActive THEN CurrentImage(s) ELSE None
    /\ ~s.gpuWroteTarget => g.unsynced = {}
    /\ s.renderingActive => s.frameOpen /\ s.pending = Blank /\ ~s.gpuWroteTarget
    /\ ~s.frameOpen => s.commands = <<>> /\ s.pending = Blank /\ ~s.gpuWroteTarget
    /\ ~s.combinerDirty => /\ s.combiner[s.combinerActiveSlot] = s.lastConfig
                           /\ s.combinerActiveSlot < s.combinerWriteSlot
    /\ \A i \in Surfaces \ LiveIn(s) : g.contents[i] = Blank
    /\ \A t \in Slots : s.textures[t] # Empty => g.contents[s.textures[t].image]["depth"] = None
    /\ g.contents[White] = Opaque

Recorded(s) ==
    /\ Tracked(s, Run(s))
    /\ \A i \in 1..Len(s.commands) : Safe(s, s.commands[i])

(* A batch not begun has used up nothing. *)
Unused(s) == ~s.frameOpen => s.descriptorSetCount = 0 /\ s.combinerWriteSlot = 0

(* What the images hold once the batch has run and the clear that waits is made. *)
Settled(s, g) == [g.contents EXCEPT ![CurrentImage(s)] = Over(@, s.pending)]
Matches(s, want) == \A i \in LiveIn(s) : want[i] = Settled(s, Run(s))[i]

Sampled(s, stage) ==
    CASE s.overrideKey[stage] # None -> Target(s.overrideKey[stage])
      [] s.overrideKey[stage] = None /\ s.stageTexture[stage] # None ->
            Texture(s.textures[s.stageTexture[stage]].key)
      [] OTHER -> Nothing

Sound(s, want) ==
    /\ s \in State /\ Linked(s) /\ Recorded(s)
    /\ want \in Painting /\ Matches(s, want)

IInv ==
    /\ Sound(r, ideal) /\ Unused(r)
    /\ blocks \in Seq(Block)
    /\ bound = [stage \in Stages |-> Sampled(r, stage)]
    /\ aimed = IF r.current = 0 THEN Main ELSE r.targets[r.current].key

-----------------------------------------------------------------------------
(* Running a batch *)

(* Induction up to a bound, on the set of what satisfies the claim. *)
LEMMA UpTo ==
    ASSUME NEW n \in Nat, NEW I, 0 \in I, \A k \in 1..n : k - 1 \in I => k \in I
    PROVE  0..n \subseteq I
<1> DEFINE Bad == {k \in Nat : k <= n /\ k \notin I}
<1>1. SUFFICES ASSUME Bad # {} PROVE FALSE
  BY <1>1
<1>2. Bad \subseteq Nat
  OBVIOUS
<1>3. PICK x \in Bad : \A y \in Bad : ~(<<y, x>> \in OpToRel(<, Nat))
  <2> HIDE DEF Bad
  <2> QED
    BY <1>1, <1>2, NatLessThanWellFounded, WFMin, Zenon
<1>4. \A y \in Bad : ~(y < x)
  BY <1>2, <1>3 DEF OpToRel
<1>5. x \in Nat /\ x <= n /\ x \notin I
  BY <1>3
<1>6. x # 0
  BY <1>5
<1>7. x \in 1..n /\ x - 1 \in Nat /\ x - 1 < x /\ x - 1 <= n
  BY <1>5, <1>6
<1>8. x - 1 \in I
  <2> SUFFICES ASSUME x - 1 \notin I PROVE FALSE
    OBVIOUS
  <2>1. x - 1 \in Bad
    BY <1>7
  <2> QED
    BY <2>1, <1>4, <1>7
<1>9. QED
  BY <1>5, <1>7, <1>8

(* G[i] is the GPU after the first i commands. *)
Replay(s, G) ==
    /\ G[0] = Unrun(s)
    /\ \A i \in 1..Len(s.commands) : G[i] = Step(s, G[i - 1], s.commands[i])
    /\ Run(s) = G[Len(s.commands)]

LEMMA RunUnfolds ==
    ASSUME NEW s, Len(s.commands) \in Nat
    PROVE  \E G : Replay(s, G)
<1> DEFINE n == Len(s.commands)
           Good(f, k) == f = [i \in 0..k |-> IF i = 0 THEN Unrun(s)
                                             ELSE Step(s, f[i - 1], s.commands[i])]
           J == {k \in 0..n : \E f : Good(f, k)}
           after == CHOOSE f : Good(f, n)
<1>1. 0 \in J
  <2> DEFINE f == [i \in 0..0 |-> Unrun(s)]
  <2>1. Good(f, 0) /\ 0 \in 0..n
    OBVIOUS
  <2> QED
    BY <2>1
<1>2. ASSUME NEW k \in 1..n, k - 1 \in J PROVE k \in J
  <2>1. PICK f : Good(f, k - 1)
    BY <1>2
  <2> DEFINE last == Step(s, f[k - 1], s.commands[k])
             g == [i \in 0..k |-> IF i = k THEN last ELSE f[i]]
  <2>2. ASSUME NEW i \in 0..k
        PROVE  g[i] = IF i = 0 THEN Unrun(s) ELSE Step(s, g[i - 1], s.commands[i])
    <3>1. CASE i = k
      <4>1. g[i] = last /\ g[i - 1] = f[i - 1] /\ i # 0
        <5> HIDE DEF last
        <5> QED
          BY <3>1
      <4> HIDE DEF g
      <4> QED
        BY <3>1, <4>1
    <3>2. CASE i # k
      <4>1. i \in 0..(k - 1)
        BY <3>2
      <4>2. g[i] = f[i] /\ (i # 0 => g[i - 1] = f[i - 1])
        <5> HIDE DEF last
        <5> QED
          BY <3>2, <4>1
      <4>3. f[i] = IF i = 0 THEN Unrun(s) ELSE Step(s, f[i - 1], s.commands[i])
        BY <4>1, <2>1, Zenon
      <4> HIDE DEF g
      <4> QED
        BY <4>2, <4>3
    <3> QED
      BY <3>1, <3>2
  <2>3. g = [i \in 0..k |-> g[i]]
    <3> HIDE DEF last
    <3> QED
      OBVIOUS
  <2>4. Good(g, k)
    <3> HIDE DEF g
    <3> QED
      BY <2>2, <2>3
  <2>5. k \in 0..n
    OBVIOUS
  <2> HIDE DEF g, Good
  <2> QED
    BY <2>4, <2>5
<1>3. n \in J
  <2> HIDE DEF J
  <2>1. 0..n \subseteq J
    BY <1>1, <1>2, UpTo
  <2> QED
    BY <2>1
<1>4. Good(after, n)
  <2>1. \E f : Good(f, n)
    BY <1>3
  <2> HIDE DEF Good
  <2> QED
    BY <2>1
<1>5. Run(s) = after[n]
  BY DEF Run
<1> HIDE DEF after
<1>6. after[0] = Unrun(s)
  BY <1>4
<1>7. ASSUME NEW i \in 1..n PROVE after[i] = Step(s, after[i - 1], s.commands[i])
  <2>1. i \in 0..n /\ i # 0
    OBVIOUS
  <2> QED
    BY <1>4, <2>1, Zenon
<1> QED
  BY <1>5, <1>6, <1>7 DEF Replay

(* Two batches that begin with the same commands, which read the same. *)
LEMMA RunsAgree ==
    ASSUME NEW s, NEW t, NEW G, NEW H, Replay(s, G), Replay(t, H),
           Len(s.commands) \in Nat, Len(t.commands) \in Nat, Len(s.commands) <= Len(t.commands),
           t.contents = s.contents,
           \A i \in 1..Len(s.commands) :
              /\ t.commands[i] = s.commands[i]
              /\ \A g : Step(t, g, s.commands[i]) = Step(s, g, s.commands[i])
    PROVE  H[Len(s.commands)] = Run(s)
<1> DEFINE n == Len(s.commands)
           J == {k \in 0..n : H[k] = G[k]}
<1>1. 0 \in J
  BY DEF Replay, Unrun
<1>2. ASSUME NEW k \in 1..n, k - 1 \in J PROVE k \in J
  <2>1. /\ H[k] = Step(t, H[k - 1], t.commands[k])
        /\ G[k] = Step(s, G[k - 1], s.commands[k])
        /\ H[k - 1] = G[k - 1]
    BY <1>2 DEF Replay
  <2>2. H[k] = G[k]
    BY <2>1
  <2> QED
    BY <2>2
<1>3. n \in J
  <2> HIDE DEF J
  <2>1. 0..n \subseteq J
    BY <1>1, <1>2, UpTo
  <2> QED
    BY <2>1
<1> QED
  BY <1>3 DEF Replay

LEMMA RunSame ==
    ASSUME NEW s, NEW t, Len(s.commands) \in Nat,
           t.commands = s.commands, t.contents = s.contents,
           \A i \in 1..Len(s.commands) :
              \A g : Step(t, g, s.commands[i]) = Step(s, g, s.commands[i])
    PROVE  Run(t) = Run(s)
<1>1. PICK G : Replay(s, G)
  BY RunUnfolds
<1>2. PICK H : Replay(t, H)
  BY RunUnfolds
<1>3. H[Len(s.commands)] = Run(s)
  BY <1>1, <1>2, RunsAgree
<1> QED
  BY <1>2, <1>3 DEF Replay

(* A step reads no more of the renderer than its buffers and slots. *)
LEMMA StepReads ==
    ASSUME NEW s, NEW t, t.staging = s.staging, t.combiner = s.combiner, NEW g, NEW c
    PROVE  Step(t, g, c) = Step(s, g, c)
  BY DEF Step, Holds

LEMMA RunReads ==
    ASSUME NEW s, NEW t, Len(s.commands) \in Nat, t.commands = s.commands,
           t.contents = s.contents, t.staging = s.staging, t.combiner = s.combiner
    PROVE  Run(t) = Run(s)
<1>1. \A i \in 1..Len(s.commands) :
         \A g : Step(t, g, s.commands[i]) = Step(s, g, s.commands[i])
  BY StepReads
<1> QED
  BY <1>1, RunSame

LEMMA RunEmpty == ASSUME NEW s, s.commands = <<>> PROVE Run(s) = Unrun(s)
<1>1. Len(s.commands) = 0
  OBVIOUS
<1>2. PICK G : Replay(s, G)
  BY <1>1, RunUnfolds
<1> QED
  BY <1>1, <1>2 DEF Replay

LEMMA RunRecord ==
    ASSUME NEW s, NEW t, NEW c, NEW C, s.commands \in Seq(C), c \in C,
           t.commands = Append(s.commands, c), t.contents = s.contents,
           t.staging = s.staging, t.combiner = s.combiner
    PROVE  Run(t) = Step(s, Run(s), c)
<1> DEFINE n == Len(s.commands)
<1>1. /\ n \in Nat /\ Len(t.commands) = n + 1 /\ t.commands[n + 1] = c
      /\ \A i \in 1..n : t.commands[i] = s.commands[i]
  OBVIOUS
<1>2. PICK G : Replay(s, G)
  BY <1>1, RunUnfolds
<1>3. PICK H : Replay(t, H)
  BY <1>1, RunUnfolds
<1>4. H[n] = Run(s)
  BY <1>1, <1>2, <1>3, StepReads, RunsAgree
<1>5. Run(t) = Step(t, H[n], t.commands[n + 1])
  <2>1. n + 1 \in 1..Len(t.commands) /\ (n + 1) - 1 = n
    BY <1>1
  <2> QED
    BY <1>1, <1>3, <2>1 DEF Replay
<1> QED
  BY <1>1, <1>4, <1>5, StepReads

-----------------------------------------------------------------------------
(* Steps that record a command *)

LEMMA Numbers ==
    /\ None \notin TextureKeys \cup TargetKeys /\ None \notin Int /\ Main \notin TargetKeys
    /\ MaxTextures \in Nat \ {0} /\ MaxTargets \in Nat /\ StageCount \in Nat \ {0}
    /\ MaxDescriptorSets \in Nat \ {0} /\ CombinerSlotCount \in Nat \ {0}
    /\ MaxStateBlocks \in Nat \ {0} /\ InitialStaging \in Nat \ {0}
    /\ TextureSizes \subseteq Nat /\ TargetSizes \subseteq Nat /\ DrawSizes \subseteq Nat
    /\ Images \subseteq Nat \ {0} /\ Slots \subseteq Nat \ {0} /\ Stages \subseteq Nat
    /\ None \notin Surfaces /\ None \notin Slots /\ Main \notin Images /\ White \notin Images
    /\ Main # White /\ Surfaces \subseteq Int
<1>1. /\ None \notin TextureKeys \cup TargetKeys /\ None \notin Int /\ Main \notin TargetKeys
      /\ MaxTextures \in Nat \ {0} /\ MaxTargets \in Nat /\ StageCount \in Nat \ {0}
      /\ MaxDescriptorSets \in Nat \ {0} /\ CombinerSlotCount \in Nat \ {0}
      /\ MaxStateBlocks \in Nat \ {0} /\ InitialStaging \in Nat \ {0}
      /\ TextureSizes \subseteq Nat /\ TargetSizes \subseteq Nat /\ DrawSizes \subseteq Nat
  BY FrameAssumption DEF FrameAssumption
<1>2. /\ Images \subseteq Nat \ {0} /\ Slots \subseteq Nat \ {0} /\ Stages \subseteq Nat
      /\ Main \notin Images /\ White \notin Images /\ Main # White
  BY <1>1 DEF Images, Slots, Stages, Main, White
<1>3. Surfaces \subseteq Int
  BY <1>2 DEF Surfaces, Main, White
<1>4. None \notin Surfaces /\ None \notin Slots
  <2>1. Nat \subseteq Int
    BY SMT
  <2> QED
    BY <1>1, <1>2, <1>3, <2>1, Zenon
<1> QED
  BY <1>1, <1>2, <1>3, <1>4

LEMMA Colours ==
    /\ None \in Contents /\ White \in Contents /\ Pixels \subseteq Contents
    /\ Vertices \subseteq Contents /\ ClearValues \subseteq Contents
    /\ Blank \in Pending /\ Blank \in Paints /\ Opaque \in Paints /\ Pending \subseteq Paints
    /\ Blank.color = None /\ Blank.depth = None
<1>1. /\ None \in Contents /\ White \in Contents /\ Pixels \subseteq Contents
      /\ Vertices \subseteq Contents /\ ClearValues \subseteq Contents
  BY DEF Contents
<1>2. Blank \in Pending /\ Blank \in Paints /\ Opaque \in Paints
  BY <1>1 DEF Blank, Opaque, Pending, Paints, Aspects
<1>3. Pending \subseteq Paints
  BY <1>1 DEF Pending, Paints
<1> QED
  BY <1>1, <1>2, <1>3 DEF Blank

LEMMA Overs ==
    ASSUME NEW p \in Paints, NEW q \in Pending
    PROVE  /\ Over(p, q) \in Paints
           /\ q = Blank => Over(p, q) = p
           /\ \A a \in Aspects : Over(p, q)[a] = IF q[a] = None THEN p[a] ELSE q[a]
<1>1. p = [color |-> p.color, depth |-> p.depth] /\ p.color \in Contents /\ p.depth \in Contents
  BY DEF Paints, Aspects
<1>2. q.color \in Contents /\ q.depth \in Contents
  BY Colours DEF Paints, Aspects
<1>3. Over(p, q) \in Paints
  BY <1>1, <1>2 DEF Over, Paints, Aspects
<1>4. q = Blank => Over(p, q) = p
  BY <1>1 DEF Over, Blank
<1>5. \A a \in Aspects : Over(p, q)[a] = IF q[a] = None THEN p[a] ELSE q[a]
  BY DEF Over, Aspects
<1> QED
  BY <1>3, <1>4, <1>5

(* What the caches and the bindings say does not change. *)
SameLinks(s, t) ==
    /\ t.targets = s.targets /\ t.current = s.current /\ t.textures = s.textures
    /\ t.stageTexture = s.stageTexture /\ t.overrideView = s.overrideView
    /\ t.overrideKey = s.overrideKey /\ t.lastConfig = s.lastConfig

(* Nor does what the commands read. *)
SameStore(s, t) ==
    /\ t.contents = s.contents /\ t.staging = s.staging /\ t.cursor = s.cursor
    /\ t.descriptorSetCount = s.descriptorSetCount
    /\ t.combiner = s.combiner /\ t.combinerWriteSlot = s.combinerWriteSlot
    /\ t.combinerActiveSlot = s.combinerActiveSlot /\ t.combinerDirty = s.combinerDirty

LEMMA LinksKept ==
    ASSUME NEW s, NEW t, SameLinks(s, t)
    PROVE  /\ Linked(s) => Linked(t)
           /\ LiveIn(t) = LiveIn(s) /\ CurrentImage(t) = CurrentImage(s)
           /\ \A g : View(t, g) = View(s, g) /\ Sampled(t, g) = Sampled(s, g)
           /\ \A k : Find(t, k) = Find(s, k) /\ FindTarget(t, k) = FindTarget(s, k)
<1>1. Linked(s) => Linked(t)
  BY DEF SameLinks, Linked
<1>2. LiveIn(t) = LiveIn(s) /\ CurrentImage(t) = CurrentImage(s)
  BY DEF SameLinks, LiveIn, CurrentImage
<1>3. \A g : View(t, g) = View(s, g) /\ Sampled(t, g) = Sampled(s, g)
  BY DEF SameLinks, View, Sampled
<1>4. \A k : Find(t, k) = Find(s, k) /\ FindTarget(t, k) = FindTarget(s, k)
  BY DEF SameLinks, Find, FindTarget
<1> QED
  BY <1>1, <1>2, <1>3, <1>4

LEMMA LinksCompose ==
    ASSUME NEW s, NEW t, NEW u, SameLinks(s, t), SameLinks(t, u)
    PROVE  SameLinks(s, u)
  BY DEF SameLinks

LEMMA Live ==
    ASSUME NEW s, s \in State, Linked(s)
    PROVE  /\ LiveIn(s) \subseteq Surfaces /\ Main \in LiveIn(s) /\ White \in LiveIn(s)
           /\ CurrentImage(s) \in LiveIn(s) /\ CurrentImage(s) # White
           /\ \A i \in 1..Len(s.targets) : s.targets[i] \in TargetEntry /\ s.targets[i].image \in LiveIn(s)
           /\ \A t \in Slots : s.textures[t] # Empty =>
                 /\ s.textures[t] \in TextureEntry
                 /\ s.textures[t].image \in LiveIn(s) /\ s.textures[t].image \in Images
                 /\ s.textures[t].image # CurrentImage(s)
<1>1. /\ s.targets \in Seq(TargetEntry) /\ s.textures \in [Slots -> TextureEntry \cup {Empty}]
  BY DEF State
<1>2. \A i \in 1..Len(s.targets) : s.targets[i] \in TargetEntry /\ s.targets[i].image \in Images
  <2>1. \A i \in 1..Len(s.targets) : s.targets[i] \in TargetEntry
    BY <1>1
  <2> QED
    BY <2>1 DEF TargetEntry
<1>3. DOMAIN s.targets = 1..Len(s.targets)
  BY <1>1
<1>4. \A t \in Slots : s.textures[t] # Empty =>
         s.textures[t] \in TextureEntry /\ s.textures[t].image \in Images
  BY <1>1 DEF TextureEntry
<1>5. LiveIn(s) \subseteq Surfaces /\ Main \in LiveIn(s) /\ White \in LiveIn(s)
  BY <1>2, <1>3, <1>4 DEF LiveIn, Surfaces
<1>6. \A i \in 1..Len(s.targets) : s.targets[i].image \in LiveIn(s)
  BY <1>3 DEF LiveIn
<1>7. \A t \in Slots : s.textures[t] # Empty => s.textures[t].image \in LiveIn(s)
  BY DEF LiveIn
<1>8. CASE s.current = 0
  BY <1>2, <1>4, <1>5, <1>6, <1>7, <1>8, Numbers DEF CurrentImage
<1>9. CASE s.current # 0
  <2>1. s.current \in 1..Len(s.targets)
    BY <1>1, <1>9 DEF Linked
  <2>2. CurrentImage(s) = s.targets[s.current].image
    BY <1>9 DEF CurrentImage
  <2>3. \A t \in Slots : s.textures[t].image # CurrentImage(s)
    BY <2>1, <2>2 DEF Linked
  <2> QED
    BY <1>2, <1>4, <1>5, <1>6, <1>7, <2>1, <2>2, <2>3, Numbers
<1> QED
  BY <1>8, <1>9

LEMMA CommandAdded ==
    ASSUME NEW s, s \in State, NEW c, c \in Command
    PROVE  Append(s.commands, c) \in Seq(Command)
<1>1. s.commands \in Seq(Command)
  BY DEF State
<1> HIDE DEF Command
<1> QED
  BY <1>1

LEMMA SafeKept ==
    ASSUME NEW s, NEW t, SameLinks(s, t), SameStore(s, t), NEW c, Safe(s, c)
    PROVE  Safe(t, c)
<1>1. LiveIn(t) = LiveIn(s)
  BY LinksKept
<1> QED
  BY <1>1 DEF SameStore, Safe, Within

(* A command recorded is sound if it is safe and its effect is the one kept track of. *)
LEMMA Appends ==
    ASSUME NEW s, NEW t, NEW want, NEW new, NEW c, Sound(s, want), new \in Painting,
           t \in State, SameLinks(s, t), SameStore(s, t), c \in Command,
           t.commands = Append(s.commands, c), Safe(s, c),
           Tracked(t, Step(s, Run(s), c)),
           \A i \in LiveIn(s) : new[i] = Settled(t, Step(s, Run(s), c))[i]
    PROVE  Sound(t, new) /\ Run(t) = Step(s, Run(s), c)
<1>1. s \in State /\ s.commands \in Seq(Command) /\ Linked(s)
  BY DEF Sound, State
<1>2. Run(t) = Step(s, Run(s), c)
  <2> HIDE DEF Command
  <2> QED
    BY <1>1, RunRecord DEF SameStore
<1>3. \A i \in 1..Len(s.commands) : Safe(s, s.commands[i])
  BY DEF Sound, Recorded
<1>4. ASSUME NEW i \in 1..Len(t.commands) PROVE Safe(s, t.commands[i])
  <2>1. /\ Len(s.commands) \in Nat /\ Len(t.commands) = Len(s.commands) + 1
        /\ t.commands[Len(s.commands) + 1] = c
        /\ \A j \in 1..Len(s.commands) : t.commands[j] = s.commands[j]
    BY <1>1
  <2>2. CASE i = Len(s.commands) + 1
    BY <2>1, <2>2
  <2>3. CASE i # Len(s.commands) + 1
    <3>1. i \in 1..Len(s.commands)
      BY <2>1, <2>3
    <3> QED
      BY <1>3, <2>1, <3>1
  <2> QED
    BY <2>2, <2>3
<1>5. Recorded(t)
  BY <1>2, <1>4, SafeKept DEF Recorded
<1>6. Linked(t) /\ LiveIn(t) = LiveIn(s)
  BY <1>1, LinksKept
<1>7. Matches(t, new)
  BY <1>2, <1>6 DEF Matches
<1> QED
  BY <1>2, <1>5, <1>6, <1>7 DEF Sound

(* A pass of rendering ends. *)
LEMMA ClosesFields ==
    ASSUME NEW s, s \in State
    PROVE  LET t == CloseRendering(s)
           IN  /\ t \in State /\ SameLinks(s, t) /\ SameStore(s, t)
               /\ t.frameOpen = s.frameOpen /\ t.pending = s.pending /\ ~t.renderingActive
               /\ ~s.renderingActive => t = s
               /\ s.renderingActive => /\ t.commands = Append(s.commands, [op |-> "end"])
                                       /\ t.gpuWroteTarget
<1> DEFINE t == CloseRendering(s)
<1>1. CASE ~s.renderingActive
  BY <1>1 DEF CloseRendering, SameLinks, SameStore
<1>2. CASE s.renderingActive
  <2>1. [op |-> "end"] \in Command
    BY DEF Command
  <2>2. Append(s.commands, [op |-> "end"]) \in Seq(Command)
    BY <2>1, CommandAdded
  <2>3. t = [s EXCEPT !.commands = Append(s.commands, [op |-> "end"]),
                      !.renderingActive = FALSE, !.gpuWroteTarget = TRUE]
    BY <1>2 DEF CloseRendering, Record
  <2> HIDE DEF t
  <2>4. t \in State
    BY <2>2, <2>3 DEF State
  <2>5. SameLinks(s, t) /\ SameStore(s, t)
    BY <2>3 DEF State, SameLinks, SameStore
  <2>6. /\ t.frameOpen = s.frameOpen /\ t.pending = s.pending /\ ~t.renderingActive
        /\ t.commands = Append(s.commands, [op |-> "end"]) /\ t.gpuWroteTarget
    BY <2>3 DEF State
  <2> QED
    BY <1>2, <2>4, <2>5, <2>6 DEF t
<1> QED
  BY <1>1, <1>2

(* What the GPU makes of commands without data. *)
LEMMA StepsOver ==
    ASSUME NEW s, NEW g, g \in Gpu, g.legal
    PROVE  /\ LET h == Step(s, g, [op |-> "end"])
              IN  g.active # None =>
                     /\ h \in Gpu /\ h.legal /\ h.faithful = g.faithful
                     /\ h.contents = g.contents /\ h.active = None
           /\ LET h == Step(s, g, [op |-> "barrier"])
              IN  g.active = None =>
                     /\ h \in Gpu /\ h.legal /\ h.faithful = g.faithful
                     /\ h.contents = g.contents /\ h.active = None /\ h.unsynced = {}
<1> DEFINE e == Step(s, g, [op |-> "end"])
           b == Step(s, g, [op |-> "barrier"])
<1>0. /\ g.contents \in Painting /\ g.active \in Surfaces \cup {None}
      /\ g.unsynced \in SUBSET (Surfaces \X Aspects) /\ g.legal \in BOOLEAN /\ g.faithful \in BOOLEAN
  BY DEF Gpu
<1>1. ASSUME g.active # None
      PROVE  /\ e \in Gpu /\ e.legal /\ e.faithful = g.faithful
             /\ e.contents = g.contents /\ e.active = None
  <2> DEFINE u == g.unsynced \cup ({g.active} \X Aspects)
  <2>1. u \in SUBSET (Surfaces \X Aspects)
    BY <1>0, <1>1
  <2> HIDE DEF u
  <2>2. e = [g EXCEPT !.active = None, !.legal = g.legal /\ g.active # None, !.unsynced = u]
    BY DEF Step, u
  <2> HIDE DEF e
  <2>3. e = [contents |-> g.contents, active |-> None, unsynced |-> u, legal |-> TRUE,
             faithful |-> g.faithful]
    BY <1>1, <2>2 DEF Gpu
  <2> QED
    BY <1>0, <2>1, <2>3 DEF Gpu
<1>2. ASSUME g.active = None
      PROVE  /\ b \in Gpu /\ b.legal /\ b.faithful = g.faithful
             /\ b.contents = g.contents /\ b.active = None /\ b.unsynced = {}
  <2>2. b = [g EXCEPT !.unsynced = {}, !.legal = g.legal /\ g.active = None]
    BY DEF Step
  <2> HIDE DEF b
  <2>3. b = [contents |-> g.contents, active |-> None, unsynced |-> {}, legal |-> TRUE,
             faithful |-> g.faithful]
    BY <1>2, <2>2 DEF Gpu
  <2> QED
    BY <1>0, <2>3 DEF Gpu
<1> QED
  BY <1>1, <1>2

(* The batch runs on without a change to what the images hold. *)
LEMMA AppendsOver ==
    ASSUME NEW s, NEW t, NEW want, NEW c, Sound(s, want),
           t \in State, SameLinks(s, t), SameStore(s, t), c \in Command,
           t.commands = Append(s.commands, c), Safe(s, c),
           t.frameOpen, s.frameOpen, t.pending = s.pending, ~t.renderingActive,
           Step(s, Run(s), c) \in Gpu, Step(s, Run(s), c).legal,
           Step(s, Run(s), c).faithful = Run(s).faithful,
           Step(s, Run(s), c).contents = Run(s).contents, Step(s, Run(s), c).active = None,
           ~t.gpuWroteTarget => Step(s, Run(s), c).unsynced = {}
    PROVE  Sound(t, want) /\ Run(t) = Step(s, Run(s), c)
<1> DEFINE h == Step(s, Run(s), c)
<1>1. /\ CurrentImage(t) = CurrentImage(s) /\ LiveIn(t) = LiveIn(s)
  BY LinksKept
<1>2. Tracked(s, Run(s)) /\ want \in Painting /\ Matches(s, want)
  BY DEF Sound, Recorded
<1>3. Tracked(t, h)
  BY <1>1, <1>2 DEF Tracked, SameLinks, SameStore
<1>4. \A i \in LiveIn(s) : want[i] = Settled(t, h)[i]
  BY <1>1, <1>2 DEF Matches, Settled
<1> QED
  BY <1>2, <1>3, <1>4, Appends

LEMMA Closes ==
    ASSUME NEW s, NEW want, Sound(s, want)
    PROVE  LET t == CloseRendering(s)
           IN  /\ Sound(t, want) /\ SameLinks(s, t) /\ SameStore(s, t)
               /\ t.frameOpen = s.frameOpen /\ t.pending = s.pending /\ ~t.renderingActive
<1> DEFINE t == CloseRendering(s)
           c == [op |-> "end"]
<1>1. /\ t \in State /\ SameLinks(s, t) /\ SameStore(s, t)
      /\ t.frameOpen = s.frameOpen /\ t.pending = s.pending /\ ~t.renderingActive
      /\ ~s.renderingActive => t = s
      /\ s.renderingActive => t.commands = Append(s.commands, c) /\ t.gpuWroteTarget
  BY ClosesFields DEF Sound
<1> HIDE DEF t
<1>2. CASE s.renderingActive
  <2>1. Tracked(s, Run(s)) /\ s \in State /\ Linked(s)
    BY DEF Sound, Recorded
  <2>2. s.frameOpen /\ Run(s) \in Gpu /\ Run(s).legal /\ Run(s).active # None
    BY <1>2, <2>1, Live, Numbers DEF Tracked
  <2>3. c \in Command
    BY DEF Command
  <2>4. Safe(s, c)
    BY DEF Safe, MentionedIn
  <2> DEFINE h == Step(s, Run(s), c)
  <2>5. /\ h \in Gpu /\ h.legal /\ h.faithful = Run(s).faithful
        /\ h.contents = Run(s).contents /\ h.active = None
    BY <2>2, StepsOver
  <2> HIDE DEF c, h
  <2>6. Sound(t, want)
    BY <1>1, <1>2, <2>2, <2>3, <2>4, <2>5, AppendsOver DEF h
  <2> QED
    BY <1>1, <2>6 DEF t
<1> QED
  BY <1>1, <1>2 DEF t

LEMMA Barriers ==
    ASSUME NEW s, NEW want, Sound(s, want)
    PROVE  LET t == BarrierAfterTargetWrite(s)
           IN  /\ Sound(t, want) /\ SameLinks(s, t) /\ SameStore(s, t)
               /\ t.frameOpen = s.frameOpen /\ t.pending = s.pending
               /\ t.renderingActive = s.renderingActive
               /\ ~t.gpuWroteTarget /\ Run(t).unsynced = {}
<1> DEFINE t == BarrierAfterTargetWrite(s)
           c == [op |-> "barrier"]
<1>0. Tracked(s, Run(s)) /\ s \in State /\ Linked(s)
  BY DEF Sound, Recorded
<1>1. CASE ~s.gpuWroteTarget
  BY <1>0, <1>1 DEF BarrierAfterTargetWrite, SameLinks, SameStore, Tracked
<1>2. CASE s.gpuWroteTarget
  <2>1. s.frameOpen /\ ~s.renderingActive /\ Run(s) \in Gpu /\ Run(s).legal /\ Run(s).active = None
    BY <1>0, <1>2 DEF Tracked
  <2>2. c \in Command
    BY DEF Command
  <2>3. Safe(s, c)
    BY DEF Safe, MentionedIn
  <2> DEFINE h == Step(s, Run(s), c)
  <2>4. /\ h \in Gpu /\ h.legal /\ h.faithful = Run(s).faithful
        /\ h.contents = Run(s).contents /\ h.active = None /\ h.unsynced = {}
    BY <2>1, StepsOver
  <2>5. t = [s EXCEPT !.commands = Append(s.commands, c), !.gpuWroteTarget = FALSE]
    BY <1>2 DEF BarrierAfterTargetWrite, Record
  <2> HIDE DEF c, h, t
  <2>6. Append(s.commands, c) \in Seq(Command)
    BY <1>0, <2>2, CommandAdded
  <2>7. t \in State
    BY <1>0, <2>5, <2>6 DEF State
  <2>8. /\ SameLinks(s, t) /\ SameStore(s, t)
    BY <1>0, <2>5 DEF State, SameLinks, SameStore
  <2>9. /\ t.frameOpen = s.frameOpen /\ t.pending = s.pending /\ t.renderingActive = s.renderingActive
        /\ ~t.gpuWroteTarget /\ t.commands = Append(s.commands, c)
    BY <1>0, <2>5 DEF State
  <2>10. Sound(t, want) /\ Run(t) = h
    BY <2>1, <2>2, <2>3, <2>4, <2>7, <2>8, <2>9, AppendsOver DEF h
  <2> QED
    BY <2>4, <2>8, <2>9, <2>10 DEF t
<1> QED
  BY <1>1, <1>2

(* A frame opened without a batch begins one. *)
LEMMA Opens ==
    ASSUME NEW s, NEW want, Sound(s, want)
    PROVE  LET t == OpenFrame(s)
           IN  /\ Sound(t, want) /\ SameLinks(s, t) /\ t.frameOpen
               /\ t.pending = s.pending /\ t.renderingActive = s.renderingActive
               /\ t.staging = s.staging /\ t.combiner = s.combiner
               /\ t.combinerDirty = s.combinerDirty /\ t.combinerActiveSlot = s.combinerActiveSlot
               /\ t.combinerWriteSlot = s.combinerWriteSlot
               /\ t.descriptorSetCount = s.descriptorSetCount
               /\ \A a \in Areas : t.cursor[a] \in {0, s.cursor[a]}
               /\ s.frameOpen => t = s
               /\ ~s.frameOpen => t.commands = <<>>
<1> DEFINE t == OpenFrame(s)
<1>0. Tracked(s, Run(s)) /\ s \in State /\ Linked(s) /\ want \in Painting /\ Matches(s, want)
  BY DEF Sound, Recorded
<1>1. CASE s.frameOpen
  BY <1>0, <1>1 DEF OpenFrame, SameLinks
<1>2. CASE ~s.frameOpen
  <2> DEFINE zero == [a \in Areas |-> 0]
  <2>1. zero \in [Areas -> Nat] /\ <<>> \in Seq(Command)
    <3> HIDE DEF Command
    <3> QED
      OBVIOUS
  <2>2. t = [s EXCEPT !.frameOpen = TRUE, !.commands = <<>>, !.gpuWroteTarget = FALSE,
                      !.cursor = zero]
    BY <1>2 DEF OpenFrame
  <2>3. \A a \in Areas : zero[a] = 0
    OBVIOUS
  <2> HIDE DEF t, zero
  <2>4. t \in State
    BY <1>0, <2>1, <2>2 DEF State
  <2>5. SameLinks(s, t)
    BY <1>0, <2>2 DEF State, SameLinks
  <2>6. /\ t.frameOpen /\ t.pending = s.pending /\ t.renderingActive = s.renderingActive
        /\ t.staging = s.staging /\ t.combiner = s.combiner
        /\ t.combinerDirty = s.combinerDirty /\ t.combinerActiveSlot = s.combinerActiveSlot
        /\ t.combinerWriteSlot = s.combinerWriteSlot
        /\ t.descriptorSetCount = s.descriptorSetCount
        /\ t.cursor = zero /\ t.commands = <<>> /\ t.contents = s.contents /\ ~t.gpuWroteTarget
    BY <1>0, <2>2 DEF State
  <2>7. s.commands = <<>>
    BY <1>0, <1>2 DEF Tracked
  <2>8. Run(t) = Run(s)
    BY <2>6, <2>7, RunEmpty DEF Unrun
  <2>9. CurrentImage(t) = CurrentImage(s) /\ LiveIn(t) = LiveIn(s) /\ Linked(t)
    BY <1>0, <2>5, LinksKept
  <2>10. Run(s).unsynced = {}
    BY <2>7, RunEmpty DEF Unrun
  <2>11. Tracked(t, Run(t))
    BY <1>0, <2>5, <2>6, <2>8, <2>9, <2>10 DEF Tracked, SameLinks
  <2>12. Matches(t, want)
    BY <1>0, <2>6, <2>8, <2>9 DEF Matches, Settled
  <2>13. Sound(t, want)
    BY <1>0, <2>4, <2>6, <2>9, <2>11, <2>12 DEF Sound, Recorded
  <2> QED
    BY <1>2, <2>3, <2>5, <2>6, <2>13 DEF t
<1> QED
  BY <1>1, <1>2

(* What the GPU makes of a clear. *)
LEMMA StepsClear ==
    ASSUME NEW s, NEW g, g \in Gpu, g.legal, g.active = None,
           NEW i \in Surfaces, NEW a \in Aspects, NEW v \in Contents, <<i, a>> \notin g.unsynced
    PROVE  LET h == Step(s, g, [op |-> "clear", image |-> i, aspect |-> a, value |-> v])
           IN  /\ h \in Gpu /\ h.legal /\ h.faithful = g.faithful /\ h.active = None
               /\ h.contents = [g.contents EXCEPT ![i] = [@ EXCEPT ![a] = v]]
               /\ h.unsynced = g.unsynced \cup {<<i, a>>}
<1> DEFINE h == Step(s, g, [op |-> "clear", image |-> i, aspect |-> a, value |-> v])
           q == [g.contents EXCEPT ![i] = [g.contents[i] EXCEPT ![a] = v]]
           u == g.unsynced \cup {<<i, a>>}
<1>0. /\ g.contents \in Painting /\ g.active \in Surfaces \cup {None}
      /\ g.unsynced \in SUBSET (Surfaces \X Aspects) /\ g.legal \in BOOLEAN /\ g.faithful \in BOOLEAN
  BY DEF Gpu
<1>1. [g.contents[i] EXCEPT ![a] = v] \in Paints
  BY <1>0 DEF Painting, Paints
<1>2. q \in Painting
  BY <1>0, <1>1 DEF Painting
<1>3. u \in SUBSET (Surfaces \X Aspects)
  BY <1>0
<1>4. h = [g EXCEPT !.contents = q, !.legal = g.legal /\ g.active = None /\ <<i, a>> \notin g.unsynced,
                    !.unsynced = u]
  BY DEF Step
<1> HIDE DEF h, q, u
<1>5. h = [contents |-> q, active |-> None, unsynced |-> u, legal |-> TRUE, faithful |-> g.faithful]
  BY <1>4 DEF Gpu
<1>6. h \in Gpu
  BY <1>0, <1>2, <1>3, <1>5 DEF Gpu
<1> QED
  BY <1>5, <1>6 DEF h, q, u

(* Making the clear that waits instead of keeping it changes nothing in the end. *)
LEMMA ClearSettles ==
    ASSUME NEW p \in Paints, NEW q \in Pending, NEW a \in Aspects, q[a] # None
    PROVE  /\ [q EXCEPT ![a] = None] \in Pending
           /\ Over([p EXCEPT ![a] = q[a]], [q EXCEPT ![a] = None]) = Over(p, q)
<1> DEFINE q2 == [q EXCEPT ![a] = None]
           p2 == [p EXCEPT ![a] = q[a]]
<1>1. q2 \in Pending
  BY DEF Pending
<1>2. q[a] \in Contents
  BY Colours DEF Pending, Paints
<1>3. p2 \in Paints
  BY <1>2 DEF Paints
<1>4. \A b \in Aspects : /\ p2[b] = IF b = a THEN q[a] ELSE p[b]
                         /\ q2[b] = IF b = a THEN None ELSE q[b]
  BY DEF Paints, Pending
<1> HIDE DEF p2, q2
<1>5. \A b \in Aspects : Over(p2, q2)[b] = Over(p, q)[b]
  <2> TAKE b \in Aspects
  <2>1. Over(p2, q2)[b] = IF q2[b] = None THEN p2[b] ELSE q2[b]
    BY <1>1, <1>3, Overs
  <2>2. Over(p, q)[b] = IF q[b] = None THEN p[b] ELSE q[b]
    BY Overs
  <2> QED
    BY <1>4, <2>1, <2>2
<1>6. Over(p2, q2) \in Paints /\ Over(p, q) \in Paints
  BY <1>1, <1>3, Overs
<1>7. Over(p2, q2) = Over(p, q)
  BY <1>5, <1>6 DEF Paints
<1> QED
  BY <1>1, <1>7 DEF p2, q2

LEMMA Clearing ==
    ASSUME NEW s, NEW want, Sound(s, want), NEW a \in Aspects, ~s.renderingActive,
           <<CurrentImage(s), a>> \notin Run(s).unsynced
    PROVE  LET t == FlushPendingClear(s, a)
           IN  /\ Sound(t, want) /\ SameLinks(s, t) /\ SameStore(s, t)
               /\ t.frameOpen = s.frameOpen /\ ~t.renderingActive
               /\ t.pending = [s.pending EXCEPT ![a] = None]
               /\ Run(t).unsynced \subseteq Run(s).unsynced \cup {<<CurrentImage(s), a>>}
<1> DEFINE t == FlushPendingClear(s, a)
           i == CurrentImage(s)
           v == s.pending[a]
           c == [op |-> "clear", image |-> i, aspect |-> a, value |-> v]
           g == Run(s)
           h == Step(s, g, c)
<1>0. Tracked(s, g) /\ s \in State /\ Linked(s) /\ want \in Painting /\ Matches(s, want)
  BY DEF Sound, Recorded
<1>1. CASE v = None
  <2>1. s.pending = [s.pending EXCEPT ![a] = None]
    BY <1>0, <1>1 DEF State, Pending
  <2> QED
    BY <1>0, <1>1, <2>1 DEF FlushPendingClear, SameLinks, SameStore
<1>2. CASE v # None
  <2>1. s.pending \in Pending
    BY <1>0 DEF State
  <2>2. v \in ClearValues \cup {None} /\ v \in Contents
    BY <2>1, Colours DEF Pending
  <2>3. /\ i \in Surfaces /\ i \in LiveIn(s) /\ i # White
        /\ \A u \in Slots : s.textures[u] # Empty => s.textures[u].image # i
    BY <1>0, Live
  <2>4. s.frameOpen /\ g \in Gpu /\ g.legal /\ g.faithful /\ g.active = None
    <3>1. Blank[a] = None
      BY DEF Blank, Aspects
    <3> QED
      BY <1>0, <1>2, <3>1 DEF Tracked
  <2>5. c \in Command
    BY <2>2, <2>3 DEF Command
  <2>6. Safe(s, c)
    BY <2>3 DEF Safe, MentionedIn
  <2>7. /\ h \in Gpu /\ h.legal /\ h.faithful = g.faithful /\ h.active = None
        /\ h.contents = [g.contents EXCEPT ![i] = [@ EXCEPT ![a] = v]]
        /\ h.unsynced = g.unsynced \cup {<<i, a>>}
    <3>1. <<i, a>> \notin g.unsynced /\ i \in Surfaces /\ v \in Contents
          /\ g \in Gpu /\ g.legal /\ g.active = None
      BY <2>2, <2>3, <2>4
    <3>2. h = Step(s, g, [op |-> "clear", image |-> i, aspect |-> a, value |-> v])
      OBVIOUS
    <3> HIDE DEF i, v, g, h, c
    <3> QED
      BY <3>1, <3>2, StepsClear
  <2> DEFINE q == [s.pending EXCEPT ![a] = None]
  <2>8. q \in Pending
    BY <2>1 DEF Pending
  <2>9. t = [s EXCEPT !.commands = Append(s.commands, c), !.pending = q, !.gpuWroteTarget = TRUE]
    BY <1>2 DEF FlushPendingClear, Record
  <2> HIDE DEF c, t, q, h
  <2>10. Append(s.commands, c) \in Seq(Command)
    BY <1>0, <2>5, CommandAdded
  <2>11. t \in State
    BY <1>0, <2>8, <2>9, <2>10 DEF State
  <2>12. /\ SameLinks(s, t) /\ SameStore(s, t)
    BY <1>0, <2>9 DEF State, SameLinks, SameStore
  <2>13. /\ t.frameOpen = s.frameOpen /\ t.pending = q /\ ~t.renderingActive
         /\ t.gpuWroteTarget /\ t.commands = Append(s.commands, c)
    BY <1>0, <2>9 DEF State
  <2>14. CurrentImage(t) = i /\ LiveIn(t) = LiveIn(s)
    BY <2>12, LinksKept
  <2> HIDE DEF i, v, g
  <2>15. \A j \in Surfaces \ {i} : h.contents[j] = g.contents[j]
    BY <2>4, <2>7 DEF Gpu, Painting
  <2>16. Images \subseteq Surfaces /\ White \in Surfaces
    BY DEF Surfaces
  <2>17. Tracked(t, h)
    <3>1. \A j \in Surfaces \ LiveIn(t) : h.contents[j] = Blank
      BY <1>0, <2>3, <2>14, <2>15 DEF Tracked
    <3>2. ASSUME NEW u \in Slots, t.textures[u] # Empty
          PROVE  h.contents[t.textures[u].image]["depth"] = None
      <4>1. s.textures[u] # Empty /\ t.textures[u].image = s.textures[u].image
        BY <2>12, <3>2 DEF SameLinks
      <4>2. s.textures[u].image \in Images /\ s.textures[u].image # i
        BY <1>0, <2>3, <4>1, Live
      <4> QED
        BY <1>0, <2>15, <2>16, <4>1, <4>2 DEF Tracked
    <3>3. h.contents[White] = Opaque
      BY <1>0, <2>3, <2>15, <2>16 DEF Tracked
    <3>4. ~t.combinerDirty => /\ t.combiner[t.combinerActiveSlot] = t.lastConfig
                              /\ t.combinerActiveSlot < t.combinerWriteSlot
      BY <1>0, <2>12 DEF Tracked, SameLinks, SameStore
    <3> QED
      BY <2>4, <2>7, <2>13, <3>1, <3>2, <3>3, <3>4 DEF Tracked
  <2>18. \A j \in LiveIn(s) : want[j] = Settled(t, h)[j]
    <3>1. g.contents \in Painting /\ g.contents[i] \in Paints /\ h.contents \in Painting
      BY <2>3, <2>4, <2>7 DEF Gpu, Painting
    <3>2. h.contents[i] = [g.contents[i] EXCEPT ![a] = v]
      BY <2>3, <2>7, <3>1 DEF Painting
    <3>3. Over(h.contents[i], q) = Over(g.contents[i], s.pending)
      <4> DEFINE p == g.contents[i]
                 z == s.pending
      <4>1. p \in Paints /\ z \in Pending /\ z[a] # None
        BY <1>2, <2>1, <3>1 DEF v
      <4> HIDE DEF p, z
      <4>2. Over([p EXCEPT ![a] = z[a]], [z EXCEPT ![a] = None]) = Over(p, z)
        BY <4>1, ClearSettles
      <4> QED
        BY <3>2, <4>2 DEF p, z, q, v
    <3>4. ASSUME NEW j \in LiveIn(s) PROVE Settled(t, h)[j] = Settled(s, g)[j]
      <4>1. j \in Surfaces
        BY <1>0, <3>4, Live
      <4>2. CASE j = i
        <5>1. Settled(t, h)[j] = Over(h.contents[i], q)
          BY <2>3, <2>13, <2>14, <3>1, <4>2 DEF Settled, Painting
        <5>2. Settled(s, g)[j] = Over(g.contents[i], s.pending)
          BY <2>3, <3>1, <4>2 DEF Settled, Painting, i
        <5> QED
          BY <3>3, <5>1, <5>2
      <4>3. CASE j # i
        <5>1. Settled(t, h)[j] = h.contents[j]
          BY <2>14, <3>1, <4>1, <4>3 DEF Settled, Painting
        <5>2. Settled(s, g)[j] = g.contents[j]
          BY <3>1, <4>1, <4>3 DEF Settled, Painting, i
        <5> QED
          BY <2>15, <4>1, <4>3, <5>1, <5>2
      <4> QED
        BY <4>2, <4>3
    <3> QED
      BY <1>0, <3>4 DEF Matches, g
  <2>19. Sound(t, want) /\ Run(t) = h
    <3> USE DEF g, h
    <3> QED
      BY <1>0, <2>5, <2>6, <2>11, <2>12, <2>13, <2>17, <2>18, Appends
  <2>20. Run(t).unsynced \subseteq g.unsynced \cup {<<i, a>>}
    BY <2>7, <2>19
  <2> QED
    BY <2>12, <2>13, <2>19, <2>20 DEF t, q, i, g
<1> QED
  BY <1>1, <1>2

(* The clears that wait are made before the batch ends. *)
LEMMA Flushes ==
    ASSUME NEW s, NEW want, Sound(s, want)
    PROVE  LET t == FlushPendingClears(s)
           IN  /\ Sound(t, want) /\ SameLinks(s, t) /\ SameStore(s, t)
               /\ t.frameOpen = s.frameOpen /\ t.pending = Blank
               /\ ~s.renderingActive => ~t.renderingActive
<1> DEFINE t == FlushPendingClears(s)
<1>0. s \in State /\ Tracked(s, Run(s))
  BY DEF Sound, Recorded
<1>1. CASE s.pending = Blank
  BY <1>1 DEF FlushPendingClears, SameLinks, SameStore
<1>2. CASE s.pending # Blank
  <2> DEFINE s1 == CloseRendering(s)
             s2 == BarrierAfterTargetWrite(s1)
             s3 == FlushPendingClear(s2, "color")
             s4 == FlushPendingClear(s3, "depth")
  <2>1. /\ Sound(s1, want) /\ SameLinks(s, s1) /\ SameStore(s, s1)
        /\ s1.frameOpen = s.frameOpen /\ s1.pending = s.pending /\ ~s1.renderingActive
    BY Closes
  <2>2. /\ Sound(s2, want) /\ SameLinks(s1, s2) /\ SameStore(s1, s2)
        /\ s2.frameOpen = s1.frameOpen /\ s2.pending = s1.pending
        /\ s2.renderingActive = s1.renderingActive /\ Run(s2).unsynced = {}
    <3> HIDE DEF s1
    <3> QED
      BY <2>1, Barriers
  <2>3. t = s4
    BY <1>2 DEF FlushPendingClears
  <2>4. "color" \in Aspects /\ "depth" \in Aspects
    BY DEF Aspects
  <2>5. /\ Sound(s3, want) /\ SameLinks(s2, s3) /\ SameStore(s2, s3)
        /\ s3.frameOpen = s2.frameOpen /\ ~s3.renderingActive
        /\ s3.pending = [s2.pending EXCEPT !["color"] = None]
        /\ Run(s3).unsynced \subseteq Run(s2).unsynced \cup {<<CurrentImage(s2), "color">>}
    <3> HIDE DEF s2
    <3>1. ~s2.renderingActive /\ <<CurrentImage(s2), "color">> \notin Run(s2).unsynced
      BY <2>1, <2>2
    <3> QED
      BY <2>2, <2>4, <3>1, Clearing
  <2> HIDE DEF s1, s2, s3
  <2>6. CurrentImage(s3) = CurrentImage(s2)
    BY <2>5, LinksKept
  <2>7. /\ Sound(s4, want) /\ SameLinks(s3, s4) /\ SameStore(s3, s4)
        /\ s4.frameOpen = s3.frameOpen /\ ~s4.renderingActive
        /\ s4.pending = [s3.pending EXCEPT !["depth"] = None]
    <3>1. <<CurrentImage(s3), "depth">> \notin Run(s3).unsynced
      BY <2>2, <2>5, <2>6
    <3> QED
      BY <2>4, <2>5, <3>1, Clearing
  <2> HIDE DEF s4, t
  <2>8. s4.pending = Blank
    <3>1. s2.pending \in Pending
      BY <2>2 DEF Sound, State
    <3> QED
      BY <2>5, <2>7, <3>1 DEF Pending, Aspects, Blank
  <2>9. SameLinks(s, s4)
    BY <2>1, <2>2, <2>5, <2>7 DEF SameLinks
  <2>10. SameStore(s, s4)
    BY <2>1, <2>2, <2>5, <2>7 DEF SameStore
  <2> QED
    BY <2>1, <2>2, <2>3, <2>5, <2>7, <2>8, <2>9, <2>10 DEF t
<1> QED
  BY <1>1, <1>2

(* What the batch is once it has ended: nothing waits, and every image holds
   what it should. *)
LEMMA Ends ==
    ASSUME NEW s, NEW want, Sound(s, want)
    PROVE  LET t == Ended(s)
           IN  /\ Sound(t, want) /\ SameLinks(s, t) /\ SameStore(s, t)
               /\ t.frameOpen = s.frameOpen /\ t.pending = Blank
               /\ ~t.renderingActive /\ ~t.gpuWroteTarget
               /\ Run(t) \in Gpu /\ Run(t).legal /\ Run(t).faithful
               /\ \A i \in LiveIn(s) : want[i] = Run(t).contents[i]
<1> DEFINE s1 == CloseRendering(s)
           s2 == FlushPendingClears(s1)
           t == BarrierAfterTargetWrite(s2)
<1>1. /\ Sound(s1, want) /\ SameLinks(s, s1) /\ SameStore(s, s1)
      /\ s1.frameOpen = s.frameOpen /\ ~s1.renderingActive
  BY Closes
<1>2. /\ Sound(s2, want) /\ SameLinks(s1, s2) /\ SameStore(s1, s2)
      /\ s2.frameOpen = s1.frameOpen /\ s2.pending = Blank /\ ~s2.renderingActive
  <2> HIDE DEF s1
  <2> QED
    BY <1>1, Flushes
<1>3. /\ Sound(t, want) /\ SameLinks(s2, t) /\ SameStore(s2, t)
      /\ t.frameOpen = s2.frameOpen /\ t.pending = s2.pending
      /\ t.renderingActive = s2.renderingActive /\ ~t.gpuWroteTarget
  <2> HIDE DEF s2
  <2> QED
    BY <1>2, Barriers
<1>4. t = Ended(s)
  BY DEF Ended
<1> HIDE DEF s1, s2, t
<1>5. SameLinks(s, t) /\ SameStore(s, t)
  BY <1>1, <1>2, <1>3 DEF SameLinks, SameStore
<1>6. t \in State /\ Linked(t) /\ Tracked(t, Run(t)) /\ Matches(t, want)
  BY <1>3 DEF Sound, Recorded
<1>7. Run(t) \in Gpu /\ Run(t).legal /\ Run(t).faithful
  BY <1>6 DEF Tracked
<1>8. LiveIn(t) = LiveIn(s)
  BY <1>5, LinksKept
<1>9. ASSUME NEW i \in LiveIn(s) PROVE want[i] = Run(t).contents[i]
  <2>1. i \in Surfaces /\ CurrentImage(t) \in Surfaces
    BY <1>6, <1>8, Live
  <2>2. Run(t).contents \in Painting
    BY <1>7 DEF Gpu
  <2>3. Run(t).contents[CurrentImage(t)] \in Paints
    BY <2>1, <2>2 DEF Painting
  <2>4. Over(Run(t).contents[CurrentImage(t)], Blank) = Run(t).contents[CurrentImage(t)]
    BY <2>3, Colours, Overs
  <2>5. Settled(t, Run(t)) = Run(t).contents
    BY <1>2, <1>3, <2>1, <2>2, <2>4 DEF Settled, Painting
  <2> QED
    BY <1>6, <1>8, <2>5 DEF Matches
<1> QED
  BY <1>1, <1>2, <1>3, <1>4, <1>5, <1>7, <1>9

LEMMA Unwrittens ==
    ASSUME NEW n \in Nat
    PROVE  Unwritten(n) \in Seq(Data) /\ Len(Unwritten(n)) = n
<1>1. None \in Data
  BY DEF Data
<1> QED
  BY <1>1 DEF Unwritten

(* A batch with nothing recorded is sound when its images hold what they should. *)
LEMMA Fresh ==
    ASSUME NEW t, NEW want, t \in State, Linked(t), want \in Painting,
           t.commands = <<>>, ~t.renderingActive, ~t.gpuWroteTarget, t.pending = Blank,
           \A i \in LiveIn(t) : want[i] = t.contents[i],
           \A i \in Surfaces \ LiveIn(t) : t.contents[i] = Blank,
           \A u \in Slots : t.textures[u] # Empty => t.contents[t.textures[u].image]["depth"] = None,
           t.contents[White] = Opaque,
           ~t.combinerDirty => /\ t.combiner[t.combinerActiveSlot] = t.lastConfig
                               /\ t.combinerActiveSlot < t.combinerWriteSlot
    PROVE  Sound(t, want)
<1>1. Run(t) = Unrun(t)
  BY RunEmpty
<1>2. t.contents \in Painting
  BY DEF State
<1>3. Unrun(t) \in Gpu
  BY <1>2 DEF Unrun, Gpu
<1>4. Tracked(t, Unrun(t))
  BY <1>3 DEF Tracked, Unrun
<1>5. Matches(t, want)
  <2>1. CurrentImage(t) \in Surfaces /\ LiveIn(t) \subseteq Surfaces
    BY Live
  <2>2. t.contents[CurrentImage(t)] \in Paints
    BY <1>2, <2>1 DEF Painting
  <2>3. Over(t.contents[CurrentImage(t)], Blank) = t.contents[CurrentImage(t)]
    BY <2>2, Colours, Overs
  <2>4. Unrun(t).contents = t.contents
    BY DEF Unrun
  <2>5. Settled(t, Unrun(t)) = t.contents
    BY <1>2, <2>1, <2>3, <2>4 DEF Settled, Painting
  <2> QED
    BY <1>1, <2>5 DEF Matches
<1> QED
  BY <1>1, <1>4, <1>5 DEF Sound, Recorded

(* The GPU runs the batch and everything it used is free again. *)
LEMMA Submits ==
    ASSUME NEW s, NEW want, Sound(s, want), Unused(s)
    PROVE  LET t == SubmitFrame(s)
           IN  /\ Sound(t, want) /\ Unused(t) /\ SameLinks(s, t)
               /\ ~t.frameOpen /\ t.commands = <<>> /\ t.pending = Blank
               /\ ~t.renderingActive /\ ~t.gpuWroteTarget
               /\ t.descriptorSetCount = 0 /\ t.combinerWriteSlot = 0 /\ t.combinerDirty
               /\ \A a \in Areas : Len(t.staging[a]) = Len(s.staging[a])
<1> DEFINE t == SubmitFrame(s)
<1>0. s \in State /\ Linked(s) /\ Tracked(s, Run(s))
  BY DEF Sound, Recorded
<1>1. CASE ~s.frameOpen
  <2>1. t = s
    BY <1>1 DEF SubmitFrame
  <2>2. s.commands = <<>> /\ s.pending = Blank /\ ~s.renderingActive /\ ~s.gpuWroteTarget
        /\ s.descriptorSetCount = 0 /\ s.combinerWriteSlot = 0
    BY <1>0, <1>1 DEF Tracked, Unused
  <2>3. s.combinerDirty
    <3>1. s.combinerActiveSlot \in Nat
      BY <1>0 DEF State, CombinerSlots
    <3>2. ~(s.combinerActiveSlot < 0)
      BY <3>1
    <3> QED
      BY <1>0, <2>2, <3>2 DEF Tracked
  <2> HIDE DEF t
  <2> QED
    BY <1>1, <2>1, <2>2, <2>3 DEF t, SameLinks
<1>2. CASE s.frameOpen
  <2> DEFINE e == Ended(s)
             q == Run(e).contents
             zero == [a \in Areas |-> 0]
             bare == [a \in Areas |-> Unwritten(Len(e.staging[a]))]
             unset == [i \in CombinerSlots |-> None]
  <2>1. /\ Sound(e, want) /\ SameLinks(s, e) /\ SameStore(s, e)
        /\ e.pending = Blank /\ ~e.renderingActive /\ ~e.gpuWroteTarget
        /\ Run(e) \in Gpu /\ \A i \in LiveIn(s) : want[i] = q[i]
    BY Ends
  <2>2. e \in State /\ Linked(e) /\ Tracked(e, Run(e)) /\ want \in Painting
    BY <2>1 DEF Sound, Recorded
  <2> HIDE DEF e
  <2>3. e.staging \in [Areas -> Seq(Data)] /\ e.combiner \in [CombinerSlots -> Configs \cup {None}]
    BY <2>2 DEF State
  <2>4. \A a \in Areas : Len(e.staging[a]) \in Nat
    BY <2>3
  <2>5. t = [e EXCEPT !.frameOpen = FALSE, !.commands = <<>>, !.contents = q,
                      !.cursor = zero, !.staging = bare, !.combiner = unset,
                      !.descriptorSetCount = 0, !.combinerWriteSlot = 0, !.combinerActiveSlot = 0,
                      !.combinerDirty = TRUE]
    <3>1. DOMAIN e.combiner = CombinerSlots
      BY <2>3
    <3>2. [i \in DOMAIN e.combiner |-> None] = unset
      BY <3>1
    <3>3. t = [e EXCEPT !.frameOpen = FALSE, !.commands = <<>>, !.contents = q,
                      !.cursor = zero, !.staging = [a \in Areas |-> Unwritten(Len(e.staging[a]))],
                      !.combiner = [i \in DOMAIN e.combiner |-> None],
                      !.descriptorSetCount = 0, !.combinerWriteSlot = 0, !.combinerActiveSlot = 0,
                      !.combinerDirty = TRUE]
      BY <1>2, <2>2 DEF SubmitFrame, e, State
    <3> QED
      BY <3>2, <3>3
  <2>6. /\ zero \in [Areas -> Nat] /\ unset \in [CombinerSlots -> Configs \cup {None}]
        /\ <<>> \in Seq(Command) /\ q \in Painting
    <3>1. q \in Painting
      BY <2>1 DEF Gpu
    <3> HIDE DEF Command
    <3> QED
      BY <3>1
  <2>7. bare \in [Areas -> Seq(Data)] /\ \A a \in Areas : Len(bare[a]) = Len(e.staging[a])
    BY <2>4, Unwrittens
  <2>8. 0 \in 0..MaxDescriptorSets /\ 0 \in 0..CombinerSlotCount /\ 0 \in CombinerSlots
    BY Numbers DEF CombinerSlots
  <2> HIDE DEF t, q, zero, bare, unset
  <2>9. t \in State
    BY <2>2, <2>5, <2>6, <2>7, <2>8 DEF State
  <2>10. SameLinks(e, t)
    BY <2>2, <2>5 DEF State, SameLinks
  <2>11. /\ ~t.frameOpen /\ t.commands = <<>> /\ t.contents = q /\ t.staging = bare
         /\ t.descriptorSetCount = 0 /\ t.combinerWriteSlot = 0 /\ t.combinerDirty
         /\ t.pending = Blank /\ ~t.renderingActive /\ ~t.gpuWroteTarget
    BY <2>1, <2>2, <2>5 DEF State
  <2>12. Linked(t) /\ LiveIn(t) = LiveIn(e) /\ LiveIn(e) = LiveIn(s)
    BY <2>1, <2>2, <2>10, LinksKept
  <2>13. Sound(t, want)
    <3>1. \A i \in Surfaces \ LiveIn(t) : t.contents[i] = Blank
      BY <2>2, <2>11, <2>12 DEF Tracked, q
    <3>2. \A u \in Slots : t.textures[u] # Empty => t.contents[t.textures[u].image]["depth"] = None
      BY <2>2, <2>10, <2>11 DEF Tracked, q, SameLinks
    <3>3. t.contents[White] = Opaque
      BY <2>2, <2>11 DEF Tracked, q
    <3>4. \A i \in LiveIn(t) : want[i] = t.contents[i]
      BY <2>1, <2>11, <2>12
    <3> QED
      BY <2>2, <2>9, <2>11, <2>12, <3>1, <3>2, <3>3, <3>4, Fresh
  <2>14. SameLinks(s, t)
    BY <2>1, <2>10, LinksCompose
  <2>15. \A a \in Areas : Len(t.staging[a]) = Len(s.staging[a])
    BY <2>1, <2>7, <2>11 DEF SameStore
  <2> QED
    BY <2>11, <2>13, <2>14, <2>15 DEF t, Unused
<1> QED
  BY <1>1, <1>2

-----------------------------------------------------------------------------
(* Steps that change what the commands read *)

LEMMA DrawReads ==
    ASSUME NEW c, c \in Command
    PROVE  /\ c.op \in {"upload", "compose"} => c.from \in ByteRange
           /\ c.op = "draw" => /\ c.slot \in CombinerSlots /\ c.vertices \in ByteRange
                               /\ c.indices \in ByteRange \cup {None}
  BY DEF Command

(* What was recorded reads nothing above the cursors. *)
LEMMA HoldsKept ==
    ASSUME NEW s, NEW t, NEW range, range \in ByteRange, Within(s, range), NEW data,
           \A a \in Areas : s.cursor[a] \in Nat,
           Len(t.staging[range.area]) = Len(s.staging[range.area]),
           \A j \in 1..s.cursor[range.area] :
              t.staging[range.area][j] = s.staging[range.area][j]
    PROVE  Holds(t, range, data) = Holds(s, range, data)
<1>1. range.area \in Areas /\ range.at \in Nat /\ range.size \in Nat /\ range.buffer \in Nat
  BY DEF ByteRange
<1>2. s.cursor[range.area] \in Nat /\ range.at + range.size <= s.cursor[range.area]
  BY <1>1 DEF Within
<1>3. \A i \in range.at..(range.at + range.size - 1) : i + 1 \in 1..s.cursor[range.area]
  BY <1>1, <1>2
<1>4. \A i \in range.at..(range.at + range.size - 1) :
         t.staging[range.area][i + 1] = s.staging[range.area][i + 1]
  BY <1>3
<1> QED
  BY <1>4 DEF Holds

(* Nothing recorded notices what is written elsewhere. *)
Spares(s, t) ==
    /\ \A a \in Areas : /\ Len(t.staging[a]) = Len(s.staging[a])
                        /\ \A j \in 1..s.cursor[a] : t.staging[a][j] = s.staging[a][j]
                        /\ s.cursor[a] \in Nat /\ t.cursor[a] \in Nat /\ s.cursor[a] <= t.cursor[a]
    /\ \A i \in CombinerSlots : i < s.combinerWriteSlot => t.combiner[i] = s.combiner[i]
    /\ s.combinerWriteSlot \in Nat /\ t.combinerWriteSlot \in Nat
    /\ s.combinerWriteSlot <= t.combinerWriteSlot

LEMMA Spared ==
    ASSUME NEW s, NEW t, Spares(s, t), LiveIn(t) = LiveIn(s), NEW c, c \in Command, Safe(s, c)
    PROVE  Safe(t, c) /\ \A g : Step(t, g, c) = Step(s, g, c)
<1>1. /\ c.op \in {"upload", "compose"} => c.from \in ByteRange
      /\ c.op = "draw" => /\ c.slot \in CombinerSlots /\ c.vertices \in ByteRange
                          /\ c.indices \in ByteRange \cup {None}
  BY DrawReads
<1> HIDE DEF Command
<1>2. ASSUME NEW range, range \in ByteRange, Within(s, range)
      PROVE  Within(t, range) /\ \A data : Holds(t, range, data) = Holds(s, range, data)
  <2>1. range.area \in Areas /\ range.at \in Nat /\ range.size \in Nat
    BY <1>2 DEF ByteRange
  <2>2. Within(t, range)
    BY <1>2, <2>1 DEF Within, Spares
  <2>3. /\ \A a \in Areas : s.cursor[a] \in Nat
        /\ Len(t.staging[range.area]) = Len(s.staging[range.area])
        /\ \A j \in 1..s.cursor[range.area] :
              t.staging[range.area][j] = s.staging[range.area][j]
    BY <2>1 DEF Spares
  <2> QED
    BY <1>2, <2>2, <2>3, HoldsKept
<1>3. CASE c.op \in {"upload", "compose"}
  <2>1. Within(s, c.from) /\ MentionedIn(c) \subseteq LiveIn(s) /\ c.op # "draw"
    BY <1>3 DEF Safe
  <2>2. Within(t, c.from) /\ \A data : Holds(t, c.from, data) = Holds(s, c.from, data)
    BY <1>1, <1>2, <1>3, <2>1
  <2>3. Safe(t, c)
    BY <2>1, <2>2 DEF Safe
  <2>4. ASSUME NEW g PROVE Step(t, g, c) = Step(s, g, c)
    <3>1. CASE c.op = "upload"
      BY <2>2, <3>1 DEF Step
    <3>2. CASE c.op = "compose"
      BY <2>2, <3>2 DEF Step
    <3> QED
      BY <1>3, <3>1, <3>2
  <2> QED
    BY <2>3, <2>4
<1>4. CASE c.op = "draw"
  <2>1. /\ MentionedIn(c) \subseteq LiveIn(s) /\ c.slot < s.combinerWriteSlot
        /\ c.vertices.area = "vertex" /\ Within(s, c.vertices)
        /\ c.indices # None => Within(s, c.indices)
    BY <1>4 DEF Safe
  <2>2. Within(t, c.vertices) /\ \A data : Holds(t, c.vertices, data) = Holds(s, c.vertices, data)
    BY <1>1, <1>2, <1>4, <2>1
  <2>3. c.indices # None =>
           Within(t, c.indices) /\ \A data : Holds(t, c.indices, data) = Holds(s, c.indices, data)
    BY <1>1, <1>2, <1>4, <2>1
  <2>4. t.combiner[c.slot] = s.combiner[c.slot] /\ c.slot < t.combinerWriteSlot
    <3>1. c.slot \in CombinerSlots /\ c.slot \in Nat
      BY <1>1, <1>4 DEF CombinerSlots
    <3> QED
      BY <2>1, <3>1 DEF Spares
  <2>5. Safe(t, c)
    BY <1>4, <2>1, <2>2, <2>3, <2>4 DEF Safe
  <2>6. ASSUME NEW g PROVE Step(t, g, c) = Step(s, g, c)
    BY <1>4, <2>2, <2>3, <2>4 DEF Step
  <2> QED
    BY <2>5, <2>6
<1>5. CASE c.op \notin {"upload", "compose", "draw"}
  BY <1>5 DEF Safe, Step
<1> QED
  BY <1>3, <1>4, <1>5

(* The batch is the same and runs the same. *)
LEMMA Undisturbed ==
    ASSUME NEW s, NEW t, NEW want, Sound(s, want), t \in State, SameLinks(s, t),
           s.commands # <<>> => Spares(s, t),
           t.commands = s.commands, t.contents = s.contents, t.frameOpen = s.frameOpen,
           t.renderingActive = s.renderingActive, t.gpuWroteTarget = s.gpuWroteTarget,
           t.pending = s.pending,
           ~t.combinerDirty => /\ t.combiner[t.combinerActiveSlot] = t.lastConfig
                               /\ t.combinerActiveSlot < t.combinerWriteSlot
    PROVE  Sound(t, want) /\ Run(t) = Run(s)
<1>1. /\ Tracked(s, Run(s)) /\ s \in State /\ Linked(s) /\ want \in Painting /\ Matches(s, want)
      /\ \A i \in 1..Len(s.commands) : Safe(s, s.commands[i])
  BY DEF Sound, Recorded
<1>2. LiveIn(t) = LiveIn(s) /\ CurrentImage(t) = CurrentImage(s) /\ Linked(t)
  BY <1>1, LinksKept
<1>3. s.commands \in Seq(Command)
  BY <1>1 DEF State
<1> HIDE DEF Command
<1>4. \A i \in 1..Len(s.commands) : s.commands[i] \in Command
  BY <1>3
<1>5. \A i \in 1..Len(s.commands) :
         Safe(t, s.commands[i]) /\ \A g : Step(t, g, s.commands[i]) = Step(s, g, s.commands[i])
  <2>1. CASE s.commands = <<>>
    BY <2>1
  <2>2. CASE s.commands # <<>>
    BY <1>1, <1>2, <1>4, <2>2, Spared
  <2> QED
    BY <2>1, <2>2
<1>6. Run(t) = Run(s)
  <2>1. Len(s.commands) \in Nat
    BY <1>3
  <2> QED
    BY <1>5, <2>1, RunSame
<1>7. Tracked(t, Run(t))
  BY <1>1, <1>2, <1>6 DEF Tracked, SameLinks
<1>8. Matches(t, want)
  BY <1>1, <1>2, <1>6 DEF Matches, Settled
<1> QED
  BY <1>1, <1>2, <1>5, <1>6, <1>7, <1>8 DEF Sound, Recorded

(* A staging buffer is replaced only when nothing is recorded. *)
LEMMA Ensures ==
    ASSUME NEW s, NEW want, Sound(s, want), s.commands = <<>>,
           NEW area \in Areas, NEW needed \in Nat
    PROVE  LET t == EnsureStaging(s, area, needed)
           IN  /\ Sound(t, want) /\ SameLinks(s, t) /\ t.commands = <<>>
               /\ t.frameOpen = s.frameOpen /\ t.pending = s.pending
               /\ t.renderingActive = s.renderingActive /\ t.gpuWroteTarget = s.gpuWroteTarget
               /\ t.cursor = s.cursor /\ t.descriptorSetCount = s.descriptorSetCount
               /\ t.combinerWriteSlot = s.combinerWriteSlot /\ t.combinerDirty = s.combinerDirty
               /\ needed <= Len(t.staging[area])
               /\ \A a \in Areas \ {area} : t.staging[a] = s.staging[a]
<1> DEFINE t == EnsureStaging(s, area, needed)
<1>0. s \in State /\ Tracked(s, Run(s))
  BY DEF Sound, Recorded
<1>1. s.staging \in [Areas -> Seq(Data)] /\ Len(s.staging[area]) \in Nat
  BY <1>0 DEF State
<1>2. CASE Len(s.staging[area]) >= needed
  BY <1>1, <1>2 DEF EnsureStaging, SameLinks
<1>3. CASE ~(Len(s.staging[area]) >= needed)
  <2> DEFINE q == [s.staging EXCEPT ![area] = Unwritten(needed)]
  <2>1. q \in [Areas -> Seq(Data)]
    BY <1>1, Unwrittens
  <2>2. /\ \A a \in Areas \ {area} : q[a] = s.staging[a]
        /\ Len(q[area]) = needed
    BY <1>1, Unwrittens
  <2>3. t = [s EXCEPT !.staging = q]
    BY <1>3 DEF EnsureStaging
  <2> HIDE DEF t, q
  <2>4. t \in State
    BY <1>0, <2>1, <2>3 DEF State
  <2>5. SameLinks(s, t)
    BY <1>0, <2>3 DEF State, SameLinks
  <2>6. /\ t.commands = s.commands /\ t.contents = s.contents /\ t.frameOpen = s.frameOpen
        /\ t.renderingActive = s.renderingActive /\ t.gpuWroteTarget = s.gpuWroteTarget
        /\ t.pending = s.pending /\ t.cursor = s.cursor /\ t.staging = q
        /\ t.descriptorSetCount = s.descriptorSetCount /\ t.combiner = s.combiner
        /\ t.combinerWriteSlot = s.combinerWriteSlot /\ t.combinerDirty = s.combinerDirty
        /\ t.combinerActiveSlot = s.combinerActiveSlot /\ t.lastConfig = s.lastConfig
    BY <1>0, <2>3 DEF State
  <2>7. Sound(t, want)
    BY <1>0, <2>4, <2>5, <2>6, Undisturbed DEF Tracked
  <2> QED
    BY <2>2, <2>5, <2>6, <2>7 DEF t
<1> QED
  BY <1>2, <1>3

(* What has room in its staging buffer, whether or not the batch begins anew. *)
Roomy(s, area, size) ==
    /\ size <= Len(s.staging[area])
    /\ s.frameOpen => s.cursor[area] + size <= Len(s.staging[area])

LEMMA MakesRoom ==
    ASSUME NEW s, NEW want, Sound(s, want), Unused(s), NEW area \in Areas, NEW size \in Nat
    PROVE  LET t == MakeRoom(s, area, size)
           IN  /\ Sound(t, want) /\ Unused(t) /\ SameLinks(s, t)
               /\ Roomy(t, area, size)
               /\ t.descriptorSetCount \in {0, s.descriptorSetCount}
               /\ \A a \in Areas \ {area} : \A n \in Nat : Roomy(s, a, n) => Roomy(t, a, n)
<1> DEFINE t == MakeRoom(s, area, size)
<1>0. s \in State
  BY DEF Sound
<1>1. /\ s.staging \in [Areas -> Seq(Data)] /\ Len(s.staging[area]) \in Nat
      /\ s.cursor[area] \in Nat
  BY <1>0 DEF State
<1>2. CASE s.cursor[area] + size <= Len(s.staging[area])
  <2>1. t = s
    BY <1>2 DEF MakeRoom
  <2>2. Roomy(s, area, size)
    BY <1>1, <1>2 DEF Roomy
  <2> QED
    BY <2>1, <2>2 DEF SameLinks
<1>3. CASE ~(s.cursor[area] + size <= Len(s.staging[area]))
  <2> DEFINE u == SubmitFrame(s)
             needed == Doubled(u, area, size)
  <2>1. needed = Doubled(s, area, size)
    BY Submits DEF Doubled
  <2>2. needed \in Nat /\ size <= needed
    BY <1>1, <2>1 DEF Doubled
  <2>3. /\ Sound(u, want) /\ Unused(u) /\ SameLinks(s, u) /\ ~u.frameOpen /\ u.commands = <<>>
        /\ u.descriptorSetCount = 0
        /\ \A a \in Areas : Len(u.staging[a]) = Len(s.staging[a])
    BY Submits
  <2>4. t = EnsureStaging(u, area, needed)
    BY <1>3, <2>1 DEF MakeRoom
  <2> HIDE DEF u, needed, t
  <2>5. /\ Sound(t, want) /\ SameLinks(u, t) /\ t.commands = <<>>
        /\ t.frameOpen = u.frameOpen /\ t.descriptorSetCount = u.descriptorSetCount
        /\ t.combinerWriteSlot = u.combinerWriteSlot
        /\ needed <= Len(t.staging[area])
        /\ \A a \in Areas \ {area} : t.staging[a] = u.staging[a]
    BY <2>2, <2>3, <2>4, Ensures
  <2>6. Unused(t)
    BY <2>3, <2>5 DEF Unused
  <2>7. SameLinks(s, t)
    BY <2>3, <2>5, LinksCompose
  <2>8. Roomy(t, area, size)
    <3>1. Len(t.staging[area]) \in Nat
      BY <2>5 DEF Sound, State
    <3> QED
      BY <2>2, <2>3, <2>5, <3>1 DEF Roomy
  <2>9. \A a \in Areas \ {area} : \A n \in Nat : Roomy(s, a, n) => Roomy(t, a, n)
    BY <2>3, <2>5 DEF Roomy
  <2> QED
    BY <2>3, <2>5, <2>6, <2>7, <2>8, <2>9 DEF t
<1> QED
  BY <1>2, <1>3

(* A slot of its own for a configuration that has changed. *)
LEMMA Prepares ==
    ASSUME NEW s, NEW want, Sound(s, want), Unused(s)
    PROVE  LET t == PrepareCombinerSnapshot(s)
           IN  /\ Sound(t, want) /\ SameLinks(s, t) /\ ~t.combinerDirty
               /\ t.descriptorSetCount \in {0, s.descriptorSetCount}
               /\ \A a \in Areas : \A n \in Nat : Roomy(s, a, n) => Roomy(t, a, n)
<1> DEFINE t == PrepareCombinerSnapshot(s)
<1>1. CASE ~s.combinerDirty
  BY <1>1 DEF PrepareCombinerSnapshot, SameLinks
<1>2. CASE s.combinerDirty
  <2> DEFINE u == IF s.combinerWriteSlot = CombinerSlotCount THEN SubmitFrame(s) ELSE s
             w == u.combinerWriteSlot
  <2>1. /\ Sound(u, want) /\ SameLinks(s, u) /\ w < CombinerSlotCount
        /\ u.descriptorSetCount \in {0, s.descriptorSetCount}
        /\ \A a \in Areas : \A n \in Nat : Roomy(s, a, n) => Roomy(u, a, n)
    <3>1. CASE s.combinerWriteSlot = CombinerSlotCount
      <4>1. /\ Sound(SubmitFrame(s), want) /\ SameLinks(s, SubmitFrame(s))
            /\ SubmitFrame(s).combinerWriteSlot = 0 /\ SubmitFrame(s).descriptorSetCount = 0
            /\ ~SubmitFrame(s).frameOpen
            /\ \A a \in Areas : Len(SubmitFrame(s).staging[a]) = Len(s.staging[a])
        BY Submits
      <4>2. u = SubmitFrame(s)
        BY <3>1
      <4> HIDE DEF u
      <4> QED
        BY <4>1, <4>2, Numbers DEF Roomy
    <3>2. CASE s.combinerWriteSlot # CombinerSlotCount
      <4>1. s.combinerWriteSlot \in 0..CombinerSlotCount
        BY DEF Sound, State
      <4> QED
        BY <3>2, <4>1, Numbers DEF SameLinks
    <3> QED
      BY <3>1, <3>2
  <2>2. u \in State
    BY <2>1 DEF Sound
  <2> HIDE DEF u
  <2> DEFINE q == [u.combiner EXCEPT ![w] = u.lastConfig]
  <2>3. w \in CombinerSlots /\ w \in Nat /\ w + 1 \in 0..CombinerSlotCount
    <3>1. w \in 0..CombinerSlotCount
      BY <2>2 DEF State
    <3> QED
      BY <2>1, <3>1, Numbers DEF CombinerSlots
  <2>4. /\ q \in [CombinerSlots -> Configs \cup {None}] /\ q[w] = u.lastConfig
        /\ \A i \in CombinerSlots : i # w => q[i] = u.combiner[i]
    BY <2>2, <2>3 DEF State
  <2>5. t = [u EXCEPT !.combiner = q, !.combinerActiveSlot = w, !.combinerWriteSlot = w + 1,
                      !.combinerDirty = FALSE]
    BY <1>2, <2>2 DEF PrepareCombinerSnapshot, u, State
  <2> HIDE DEF t, q
  <2>6. t \in State
    <3> HIDE DEF w
    <3> QED
      BY <2>2, <2>3, <2>4, <2>5 DEF State
  <2>7. SameLinks(u, t)
    BY <2>2, <2>5 DEF State, SameLinks
  <2>8. /\ t.commands = u.commands /\ t.contents = u.contents /\ t.frameOpen = u.frameOpen
        /\ t.renderingActive = u.renderingActive /\ t.gpuWroteTarget = u.gpuWroteTarget
        /\ t.pending = u.pending /\ t.cursor = u.cursor /\ t.staging = u.staging
        /\ t.descriptorSetCount = u.descriptorSetCount /\ t.combiner = q
        /\ t.combinerWriteSlot = w + 1 /\ ~t.combinerDirty
        /\ t.combinerActiveSlot = w /\ t.lastConfig = u.lastConfig
    BY <2>2, <2>5 DEF State
  <2>9. Spares(u, t)
    <3>1. \A a \in Areas : u.cursor[a] \in Nat
      BY <2>2 DEF State
    <3>2. \A i \in CombinerSlots : i < w => q[i] = u.combiner[i]
      BY <2>3, <2>4 DEF CombinerSlots
    <3> QED
      BY <2>3, <2>8, <3>1, <3>2 DEF Spares
  <2>10. Sound(t, want)
    <3>1. t.combiner[t.combinerActiveSlot] = t.lastConfig
      BY <2>4, <2>8
    <3>2. t.combinerActiveSlot < t.combinerWriteSlot
      BY <2>3, <2>8
    <3> HIDE DEF w
    <3> QED
      BY <2>1, <2>6, <2>7, <2>8, <2>9, <3>1, <3>2, Undisturbed
  <2>11. SameLinks(s, t)
    BY <2>1, <2>7, LinksCompose
  <2>12. \A a \in Areas : \A n \in Nat : Roomy(s, a, n) => Roomy(t, a, n)
    BY <2>1, <2>8 DEF Roomy
  <2> QED
    BY <2>1, <2>8, <2>10, <2>11, <2>12 DEF t
<1> QED
  BY <1>1, <1>2

(* Data go above everything recorded, or into a batch with nothing recorded. *)
LEMMA StagesData ==
    ASSUME NEW s, NEW want, Sound(s, want), NEW area \in Areas, NEW at \in Nat, NEW size \in Nat,
           NEW data \in Data, at + size <= Len(s.staging[area]),
           s.commands = <<>> \/ s.cursor[area] <= at
    PROVE  LET t == Stage(s, area, at, size, data)
           IN  /\ Sound(t, want) /\ SameLinks(s, t) /\ t.commands = s.commands
               /\ t.contents = s.contents /\ t.frameOpen = s.frameOpen /\ t.pending = s.pending
               /\ t.renderingActive = s.renderingActive /\ t.gpuWroteTarget = s.gpuWroteTarget
               /\ t.descriptorSetCount = s.descriptorSetCount
               /\ t.combinerWriteSlot = s.combinerWriteSlot /\ t.combinerDirty = s.combinerDirty
               /\ t.cursor[area] = at + size
               /\ Len(t.staging[area]) = Len(s.staging[area])
               /\ \A j \in (at + 1)..(at + size) : t.staging[area][j] = data
               /\ \A a \in Areas \ {area} : /\ t.cursor[a] = s.cursor[a]
                                            /\ t.staging[a] = s.staging[a]
<1> DEFINE t == Stage(s, area, at, size, data)
           n == Len(s.staging[area])
           new == [i \in 1..n |-> IF i \in (at + 1)..(at + size) THEN data
                                  ELSE s.staging[area][i]]
           q == [s.staging EXCEPT ![area] = new]
           k == [s.cursor EXCEPT ![area] = at + size]
<1>0. s \in State /\ Tracked(s, Run(s))
  BY DEF Sound, Recorded
<1>1. /\ s.staging \in [Areas -> Seq(Data)] /\ s.cursor \in [Areas -> Nat]
      /\ s.staging[area] \in Seq(Data) /\ n \in Nat /\ s.cursor[area] \in Nat
  BY <1>0 DEF State
<1>2. new \in Seq(Data) /\ Len(new) = n
  <2>1. \A i \in 1..n : s.staging[area][i] \in Data
    BY <1>1
  <2> QED
    BY <1>1, <2>1
<1>3. \A j \in (at + 1)..(at + size) : new[j] = data
  BY <1>1
<1>4. \A j \in 1..n : j <= at => new[j] = s.staging[area][j]
  OBVIOUS
<1>5. t = [s EXCEPT !.staging = q, !.cursor = k]
  <2>1. DOMAIN s.staging[area] = 1..n
    BY <1>1
  <2>2. [i \in DOMAIN s.staging[area] |-> IF i \in (at + 1)..(at + size) THEN data
                                          ELSE s.staging[area][i]] = new
    BY <2>1, Zenon
  <2>3. t = [s EXCEPT !.staging[area] =
                 [i \in DOMAIN s.staging[area] |-> IF i \in (at + 1)..(at + size) THEN data
                                                   ELSE s.staging[area][i]],
             !.cursor[area] = at + size]
    BY <1>0, <1>1 DEF Stage, State
  <2> HIDE DEF new, t
  <2> QED
    BY <2>2, <2>3
<1> HIDE DEF t, new
<1>6. q \in [Areas -> Seq(Data)] /\ k \in [Areas -> Nat]
  BY <1>1, <1>2
<1>7. /\ q[area] = new /\ k[area] = at + size
      /\ \A a \in Areas \ {area} : q[a] = s.staging[a] /\ k[a] = s.cursor[a]
  BY <1>1
<1> HIDE DEF q, k, n
<1>8. t \in State
  BY <1>0, <1>5, <1>6 DEF State
<1>9. SameLinks(s, t)
  BY <1>0, <1>5 DEF State, SameLinks
<1>10. /\ t.commands = s.commands /\ t.contents = s.contents /\ t.frameOpen = s.frameOpen
       /\ t.renderingActive = s.renderingActive /\ t.gpuWroteTarget = s.gpuWroteTarget
       /\ t.pending = s.pending /\ t.cursor = k /\ t.staging = q
       /\ t.descriptorSetCount = s.descriptorSetCount /\ t.combiner = s.combiner
       /\ t.combinerWriteSlot = s.combinerWriteSlot /\ t.combinerDirty = s.combinerDirty
       /\ t.combinerActiveSlot = s.combinerActiveSlot /\ t.lastConfig = s.lastConfig
  BY <1>0, <1>5 DEF State
<1>11. ASSUME s.commands # <<>> PROVE Spares(s, t)
  <2>1. s.cursor[area] <= at
    BY <1>11
  <2>2. \A j \in 1..s.cursor[area] : new[j] = s.staging[area][j]
    <3>1. at <= n
      BY <1>1 DEF n
    <3> QED
      BY <1>1, <1>4, <2>1, <3>1
  <2>3. ASSUME NEW a \in Areas
        PROVE  /\ Len(t.staging[a]) = Len(s.staging[a])
               /\ \A j \in 1..s.cursor[a] : t.staging[a][j] = s.staging[a][j]
               /\ s.cursor[a] \in Nat /\ t.cursor[a] \in Nat /\ s.cursor[a] <= t.cursor[a]
    <3>1. CASE a = area
      BY <1>1, <1>2, <1>7, <1>10, <2>1, <2>2, <3>1 DEF n
    <3>2. CASE a # area
      BY <1>1, <1>7, <1>10, <3>2
    <3> QED
      BY <3>1, <3>2
  <2>4. s.combinerWriteSlot \in Nat
    BY <1>0 DEF State
  <2> QED
    BY <1>10, <2>3, <2>4 DEF Spares
<1>12. Sound(t, want)
  BY <1>0, <1>8, <1>9, <1>10, <1>11, Undisturbed DEF Tracked
<1> QED
  BY <1>2, <1>3, <1>7, <1>9, <1>10, <1>12 DEF t, n

(* What the GPU makes of the beginning of a pass. *)
LEMMA StepsBegin ==
    ASSUME NEW s, NEW g, g \in Gpu, g.legal, g.active = None, g.unsynced = {},
           NEW i \in Surfaces, NEW v \in Pending
    PROVE  LET h == Step(s, g, [op |-> "begin", image |-> i, load |-> v])
           IN  /\ h \in Gpu /\ h.legal /\ h.faithful = g.faithful /\ h.active = i
               /\ h.contents = [g.contents EXCEPT ![i] = Over(g.contents[i], v)]
               /\ h.unsynced = {}
<1> DEFINE h == Step(s, g, [op |-> "begin", image |-> i, load |-> v])
           q == [g.contents EXCEPT ![i] = Over(g.contents[i], v)]
<1>0. g.contents \in Painting /\ g.legal \in BOOLEAN /\ g.faithful \in BOOLEAN
  BY DEF Gpu
<1>1. Over(g.contents[i], v) \in Paints
  <2>1. g.contents[i] \in Paints
    BY <1>0 DEF Painting
  <2> QED
    BY <2>1, Overs
<1>2. q \in Painting
  BY <1>0, <1>1 DEF Painting
<1>3. h = [g EXCEPT !.active = i, !.contents = q,
                    !.legal = g.legal /\ g.active = None
                              /\ \A a \in Aspects : <<i, a>> \notin g.unsynced]
  BY DEF Step
<1>4. g.legal /\ g.active = None /\ \A a \in Aspects : <<i, a>> \notin g.unsynced
  OBVIOUS
<1> HIDE DEF h, q
<1>5. h = [contents |-> q, active |-> i, unsynced |-> {}, legal |-> TRUE, faithful |-> g.faithful]
  BY <1>3, <1>4 DEF Gpu
<1>6. h \in Gpu
  BY <1>0, <1>2, <1>5 DEF Gpu
<1> QED
  BY <1>5, <1>6 DEF h, q

(* A pass begins after what was written before it, and makes the clear that waits. *)
LEMMA Begins ==
    ASSUME NEW s, NEW want, Sound(s, want), s.frameOpen
    PROVE  LET t == BeginRendering(s)
           IN  /\ Sound(t, want) /\ SameLinks(s, t) /\ SameStore(s, t)
               /\ t.frameOpen /\ t.renderingActive
<1> DEFINE t == BeginRendering(s)
<1>1. CASE s.renderingActive
  BY <1>1 DEF BeginRendering, SameLinks, SameStore
<1>2. CASE ~s.renderingActive
  <2> DEFINE u == BarrierAfterTargetWrite(s)
             i == CurrentImage(u)
             v == u.pending
             c == [op |-> "begin", image |-> i, load |-> v]
             g == Run(u)
             h == Step(u, g, c)
  <2>1. /\ Sound(u, want) /\ SameLinks(s, u) /\ SameStore(s, u)
        /\ u.frameOpen = s.frameOpen /\ u.pending = s.pending
        /\ u.renderingActive = s.renderingActive
        /\ ~u.gpuWroteTarget /\ Run(u).unsynced = {}
    BY Barriers
  <2>2. u \in State /\ Linked(u) /\ Tracked(u, g) /\ want \in Painting /\ Matches(u, want)
    BY <2>1 DEF Sound, Recorded
  <2>3. CurrentImage(s) = i
    BY <2>1, LinksKept
  <2>4. t = [u EXCEPT !.commands = Append(u.commands, c), !.pending = Blank,
                      !.renderingActive = TRUE]
    BY <1>2, <2>1, <2>3 DEF BeginRendering, Record
  <2> HIDE DEF u
  <2>5. v \in Pending
    BY <2>2 DEF State
  <2>6. /\ i \in Surfaces /\ i \in LiveIn(u) /\ i # White
        /\ \A x \in Slots : u.textures[x] # Empty => u.textures[x].image # i
    BY <2>2, Live
  <2>7. g \in Gpu /\ g.legal /\ g.faithful /\ g.active = None /\ g.unsynced = {}
    BY <1>2, <2>1, <2>2 DEF Tracked
  <2>8. c \in Command
    BY <2>5, <2>6 DEF Command
  <2>9. Safe(u, c)
    BY <2>6 DEF Safe, MentionedIn
  <2>10. /\ h \in Gpu /\ h.legal /\ h.faithful = g.faithful /\ h.active = i
         /\ h.contents = [g.contents EXCEPT ![i] = Over(g.contents[i], v)]
         /\ h.unsynced = {}
    <3>1. h = Step(u, g, [op |-> "begin", image |-> i, load |-> v])
      OBVIOUS
    <3>2. i \in Surfaces /\ v \in Pending
          /\ g \in Gpu /\ g.legal /\ g.active = None /\ g.unsynced = {}
      BY <2>5, <2>6, <2>7
    <3> HIDE DEF i, v, g, h, c
    <3> QED
      BY <3>1, <3>2, StepsBegin
  <2> HIDE DEF c, t, h
  <2>11. Append(u.commands, c) \in Seq(Command)
    BY <2>2, <2>8, CommandAdded
  <2>12. t \in State
    BY <2>2, <2>4, <2>11, Colours DEF State
  <2>13. /\ SameLinks(u, t) /\ SameStore(u, t)
    BY <2>2, <2>4 DEF State, SameLinks, SameStore
  <2>14. /\ t.frameOpen = u.frameOpen /\ t.pending = Blank /\ t.renderingActive
         /\ t.gpuWroteTarget = u.gpuWroteTarget /\ t.commands = Append(u.commands, c)
    BY <2>2, <2>4 DEF State
  <2>15. CurrentImage(t) = i /\ LiveIn(t) = LiveIn(u)
    BY <2>13, LinksKept
  <2> HIDE DEF i, v, g
  <2>16. \A j \in Surfaces \ {i} : h.contents[j] = g.contents[j]
    BY <2>7, <2>10 DEF Gpu, Painting
  <2>17. Images \subseteq Surfaces /\ White \in Surfaces
    BY DEF Surfaces
  <2>18. Tracked(t, h)
    <3>1. \A j \in Surfaces \ LiveIn(t) : h.contents[j] = Blank
      BY <2>2, <2>6, <2>15, <2>16 DEF Tracked
    <3>2. ASSUME NEW x \in Slots, t.textures[x] # Empty
          PROVE  h.contents[t.textures[x].image]["depth"] = None
      <4>1. u.textures[x] # Empty /\ t.textures[x].image = u.textures[x].image
        BY <2>13, <3>2 DEF SameLinks
      <4>2. u.textures[x].image \in Images /\ u.textures[x].image # i
        BY <2>2, <2>6, <4>1, Live
      <4> QED
        BY <2>2, <2>16, <2>17, <4>1, <4>2 DEF Tracked
    <3>3. h.contents[White] = Opaque
      BY <2>2, <2>6, <2>16, <2>17 DEF Tracked
    <3>4. ~t.combinerDirty => /\ t.combiner[t.combinerActiveSlot] = t.lastConfig
                              /\ t.combinerActiveSlot < t.combinerWriteSlot
      BY <2>2, <2>13 DEF Tracked, SameLinks, SameStore
    <3> QED
      BY <2>1, <2>7, <2>10, <2>14, <2>15, <3>1, <3>2, <3>3, <3>4 DEF Tracked
  <2>19. \A j \in LiveIn(u) : want[j] = Settled(t, h)[j]
    <3>1. g.contents \in Painting /\ g.contents[i] \in Paints /\ h.contents \in Painting
      BY <2>6, <2>7, <2>10 DEF Gpu, Painting
    <3>2. h.contents[i] = Over(g.contents[i], v) /\ Over(g.contents[i], v) \in Paints
      BY <2>5, <2>6, <2>10, <3>1, Overs DEF Painting
    <3>3. Over(h.contents[i], Blank) = h.contents[i]
      BY <3>2, Colours, Overs
    <3>4. ASSUME NEW j \in LiveIn(u) PROVE Settled(t, h)[j] = Settled(u, g)[j]
      <4>1. j \in Surfaces
        BY <2>2, <3>4, Live
      <4>2. CASE j = i
        <5>1. Settled(t, h)[j] = Over(h.contents[i], Blank)
          BY <2>6, <2>14, <2>15, <3>1, <4>2 DEF Settled, Painting
        <5>2. Settled(u, g)[j] = Over(g.contents[i], v)
          BY <2>6, <3>1, <4>2 DEF Settled, Painting, i, v
        <5> QED
          BY <3>2, <3>3, <5>1, <5>2
      <4>3. CASE j # i
        <5>1. Settled(t, h)[j] = h.contents[j]
          BY <2>15, <3>1, <4>1, <4>3 DEF Settled, Painting
        <5>2. Settled(u, g)[j] = g.contents[j]
          BY <3>1, <4>1, <4>3 DEF Settled, Painting, i
        <5> QED
          BY <2>16, <4>1, <4>3, <5>1, <5>2
      <4> QED
        BY <4>2, <4>3
    <3> QED
      BY <2>2, <3>4 DEF Matches, g
  <2>20. Sound(t, want)
    <3> USE DEF g, h
    <3> QED
      BY <2>1, <2>2, <2>8, <2>9, <2>12, <2>13, <2>14, <2>18, <2>19, Appends
  <2>21. SameLinks(s, t) /\ SameStore(s, t)
    BY <2>1, <2>13 DEF SameLinks, SameStore
  <2> QED
    BY <2>1, <2>14, <2>20, <2>21 DEF t
<1> QED
  BY <1>1, <1>2

(* What a draw finds when its state is recorded. *)
Ready(t, size, data) ==
    /\ t.frameOpen /\ t.renderingActive /\ ~t.combinerDirty
    /\ t.cursor["vertex"] \in Nat /\ size <= t.cursor["vertex"]
    /\ t.cursor["vertex"] <= Len(t.staging["vertex"])
    /\ \A j \in (t.cursor["vertex"] - size + 1)..t.cursor["vertex"] :
          t.staging["vertex"][j] = data

LEMMA RecordsDrawState ==
    ASSUME NEW s, NEW want, Sound(s, want), Unused(s), NEW size \in Nat, NEW data \in Data
    PROVE  LET t == RecordDrawState(s, size, data)
           IN  /\ Sound(t, want) /\ SameLinks(s, t) /\ Ready(t, size, data)
               /\ \A n \in Nat : Roomy(s, "index", n) => Roomy(t, "index", n)
<1> DEFINE s1 == IF s.descriptorSetCount = MaxDescriptorSets THEN SubmitFrame(s) ELSE s
           s2 == MakeRoom(s1, "vertex", size)
           s3 == PrepareCombinerSnapshot(s2)
           s4 == OpenFrame(s3)
           at == s4.cursor["vertex"]
           s5 == Stage(s4, "vertex", at, size, data)
           s6 == BeginRendering(s5)
           t == RecordDrawState(s, size, data)
<1>0. "vertex" \in Areas /\ "index" \in Areas /\ "index" # "vertex"
  BY DEF Areas
<1>1. /\ Sound(s1, want) /\ Unused(s1) /\ SameLinks(s, s1)
      /\ s1.descriptorSetCount < MaxDescriptorSets
      /\ \A n \in Nat : Roomy(s, "index", n) => Roomy(s1, "index", n)
  <2>1. CASE s.descriptorSetCount = MaxDescriptorSets
    <3>1. /\ Sound(SubmitFrame(s), want) /\ SameLinks(s, SubmitFrame(s)) /\ Unused(SubmitFrame(s))
          /\ SubmitFrame(s).descriptorSetCount = 0 /\ ~SubmitFrame(s).frameOpen
          /\ \A a \in Areas : Len(SubmitFrame(s).staging[a]) = Len(s.staging[a])
      BY Submits
    <3>2. s1 = SubmitFrame(s)
      BY <2>1
    <3> HIDE DEF s1
    <3> QED
      BY <1>0, <3>1, <3>2, Numbers DEF Roomy
  <2>2. CASE s.descriptorSetCount # MaxDescriptorSets
    <3>1. s.descriptorSetCount \in 0..MaxDescriptorSets
      BY DEF Sound, State
    <3> QED
      BY <2>2, <3>1, Numbers DEF SameLinks
  <2> QED
    BY <2>1, <2>2
<1> HIDE DEF s1
<1>2. /\ Sound(s2, want) /\ Unused(s2) /\ SameLinks(s1, s2)
      /\ Roomy(s2, "vertex", size)
      /\ s2.descriptorSetCount \in {0, s1.descriptorSetCount}
      /\ \A a \in Areas \ {"vertex"} : \A n \in Nat : Roomy(s1, a, n) => Roomy(s2, a, n)
  BY <1>0, <1>1, MakesRoom
<1> HIDE DEF s2
<1>3. /\ Sound(s3, want) /\ SameLinks(s2, s3) /\ ~s3.combinerDirty
      /\ s3.descriptorSetCount \in {0, s2.descriptorSetCount}
      /\ \A a \in Areas : \A n \in Nat : Roomy(s2, a, n) => Roomy(s3, a, n)
  BY <1>2, Prepares
<1> HIDE DEF s3
<1>4. /\ Sound(s4, want) /\ SameLinks(s3, s4) /\ s4.frameOpen
      /\ s4.staging = s3.staging /\ ~s4.combinerDirty
      /\ s4.descriptorSetCount = s3.descriptorSetCount
      /\ \A a \in Areas : \A n \in Nat : Roomy(s3, a, n) => Roomy(s4, a, n)
  <2>1. /\ Sound(s4, want) /\ SameLinks(s3, s4) /\ s4.frameOpen
        /\ s4.staging = s3.staging /\ s4.combinerDirty = s3.combinerDirty
        /\ s4.descriptorSetCount = s3.descriptorSetCount
        /\ \A a \in Areas : s4.cursor[a] \in {0, s3.cursor[a]}
        /\ s3.frameOpen => s4 = s3
        /\ ~s3.frameOpen => s4.commands = <<>>
    BY <1>3, Opens
  <2> HIDE DEF s4
  <2>2. ASSUME NEW a \in Areas, NEW n \in Nat, Roomy(s3, a, n) PROVE Roomy(s4, a, n)
    <3>1. CASE s3.frameOpen
      BY <2>1, <2>2, <3>1
    <3>2. CASE ~s3.frameOpen
      <4>1. s4.cursor[a] = 0
        BY <1>3, <3>2 DEF OpenFrame, s4, Sound, State, Areas
      <4> QED
        BY <2>1, <2>2, <4>1 DEF Roomy
    <3> QED
      BY <3>1, <3>2
  <2> QED
    BY <1>3, <2>1, <2>2
<1> HIDE DEF s4
<1>5. /\ Roomy(s4, "vertex", size)
      /\ \A n \in Nat : Roomy(s, "index", n) => Roomy(s4, "index", n)
  BY <1>0, <1>1, <1>2, <1>3, <1>4
<1>6. at \in Nat /\ at + size <= Len(s4.staging["vertex"])
  <2>1. at \in Nat
    BY <1>0, <1>4 DEF Sound, State
  <2> QED
    BY <1>4, <1>5, <2>1 DEF Roomy
<1>7. /\ Sound(s5, want) /\ SameLinks(s4, s5) /\ s5.frameOpen = s4.frameOpen
      /\ s5.descriptorSetCount = s4.descriptorSetCount /\ s5.combinerDirty = s4.combinerDirty
      /\ s5.cursor["vertex"] = at + size
      /\ Len(s5.staging["vertex"]) = Len(s4.staging["vertex"])
      /\ \A j \in (at + 1)..(at + size) : s5.staging["vertex"][j] = data
      /\ \A a \in Areas \ {"vertex"} : s5.cursor[a] = s4.cursor[a] /\ s5.staging[a] = s4.staging[a]
  <2>1. /\ s4.cursor["vertex"] <= at /\ at \in Nat /\ at + size <= Len(s4.staging["vertex"])
        /\ "vertex" \in Areas /\ Sound(s4, want)
    BY <1>0, <1>4, <1>6
  <2>2. s5 = Stage(s4, "vertex", at, size, data)
    OBVIOUS
  <2> HIDE DEF at, s5
  <2> QED
    BY <2>1, <2>2, StagesData
<1> HIDE DEF s5
<1>8. Sound(s6, want) /\ SameLinks(s5, s6) /\ SameStore(s5, s6) /\ s6.frameOpen /\ s6.renderingActive
  BY <1>4, <1>7, Begins
<1> DEFINE k == s6.descriptorSetCount + 1
<1>9. s6.descriptorSetCount < MaxDescriptorSets /\ k \in 0..MaxDescriptorSets
  <2>1. s6.descriptorSetCount \in 0..MaxDescriptorSets
    BY <1>8 DEF Sound, State
  <2> QED
    BY <1>1, <1>2, <1>3, <1>4, <1>7, <1>8, <2>1, Numbers DEF SameStore
<1>10. t = [s6 EXCEPT !.descriptorSetCount = k]
  BY <1>8 DEF RecordDrawState, s1, s2, s3, s4, s5
<1>11. s6 \in State /\ Tracked(s6, Run(s6))
  BY <1>8 DEF Sound, Recorded
<1> HIDE DEF s6, t, k
<1>12. t \in State
  BY <1>9, <1>10, <1>11 DEF State
<1>13. SameLinks(s6, t)
  BY <1>10, <1>11 DEF State, SameLinks
<1>14. /\ t.commands = s6.commands /\ t.contents = s6.contents /\ t.frameOpen = s6.frameOpen
       /\ t.renderingActive = s6.renderingActive /\ t.gpuWroteTarget = s6.gpuWroteTarget
       /\ t.pending = s6.pending /\ t.cursor = s6.cursor /\ t.staging = s6.staging
       /\ t.combiner = s6.combiner
       /\ t.combinerWriteSlot = s6.combinerWriteSlot /\ t.combinerDirty = s6.combinerDirty
       /\ t.combinerActiveSlot = s6.combinerActiveSlot /\ t.lastConfig = s6.lastConfig
  BY <1>10, <1>11 DEF State
<1>15. Spares(s6, t)
  <2>1. (\A a \in Areas : s6.cursor[a] \in Nat) /\ s6.combinerWriteSlot \in Nat
    BY <1>11 DEF State
  <2> QED
    BY <1>14, <2>1 DEF Spares
<1>16. Sound(t, want)
  BY <1>8, <1>11, <1>12, <1>13, <1>14, <1>15, Undisturbed DEF Tracked
<1>17. SameLinks(s, t)
  BY <1>1, <1>2, <1>3, <1>4, <1>7, <1>8, <1>13 DEF SameLinks
<1>18. t.cursor = s5.cursor /\ t.staging = s5.staging /\ ~t.combinerDirty
  BY <1>4, <1>7, <1>8, <1>14 DEF SameStore
<1>19. Ready(t, size, data)
  <2>1. t.cursor["vertex"] = at + size /\ t.cursor["vertex"] - size = at
    BY <1>6, <1>7, <1>18
  <2> HIDE DEF at
  <2> QED
    BY <1>6, <1>7, <1>8, <1>14, <1>18, <2>1 DEF Ready
<1>20. \A n \in Nat : Roomy(s, "index", n) => Roomy(t, "index", n)
  BY <1>0, <1>4, <1>5, <1>7, <1>18 DEF Roomy
<1> QED
  BY <1>16, <1>17, <1>19, <1>20 DEF t

-----------------------------------------------------------------------------
(* Draws *)

LEMMA Views ==
    ASSUME NEW s, s \in State, Linked(s), NEW stage \in Stages
    PROVE  View(s, stage) \in LiveIn(s)
<1>1. CASE s.overrideView[stage] # None
  <2>1. PICK i \in 1..Len(s.targets) : s.targets[i].image = s.overrideView[stage]
    BY <1>1 DEF Linked
  <2>2. s.targets[i].image \in LiveIn(s)
    BY Live
  <2> QED
    BY <1>1, <2>1, <2>2 DEF View
<1>2. CASE s.overrideView[stage] = None /\ s.stageTexture[stage] # None
  <2>1. s.stageTexture[stage] \in Slots /\ s.textures[s.stageTexture[stage]] # Empty
    BY <1>2 DEF State, Linked
  <2>2. s.textures[s.stageTexture[stage]].image \in LiveIn(s)
    BY <2>1, Live
  <2> QED
    BY <1>2, <2>2 DEF View
<1>3. CASE s.overrideView[stage] = None /\ s.stageTexture[stage] = None
  <2>1. View(s, stage) = White
    BY <1>3 DEF View
  <2> QED
    BY <2>1, Live
<1> QED
  BY <1>1, <1>2, <1>3

(* A draw that reads what it was meant to read. *)
Meets(s, g, c) ==
    /\ g.active = c.meant.target /\ g.contents[g.active] = c.meant.under
    /\ \A stage \in Stages : g.contents[c.views[stage]]["color"] = c.meant.sampled[stage]
    /\ s.combiner[c.slot] = c.meant.config
    /\ Holds(s, c.vertices, c.meant.vertices)
    /\ c.indices # None => Holds(s, c.indices, c.meant.indices)

LEMMA StepsDraw ==
    ASSUME NEW s, NEW g, g \in Gpu, g.legal, g.faithful, NEW i \in Surfaces, g.active = i,
           g.unsynced = {}, NEW c, c.op = "draw", c.meant.vertices \in Contents, Meets(s, g, c)
    PROVE  LET h == Step(s, g, c)
           IN  /\ h \in Gpu /\ h.legal /\ h.faithful /\ h.active = i
               /\ h.contents = [g.contents EXCEPT ![i] =
                                   [g.contents[i] EXCEPT !["color"] = c.meant.vertices]]
               /\ h.unsynced = {}
<1> DEFINE h == Step(s, g, c)
           q == [g.contents EXCEPT ![i] = [g.contents[i] EXCEPT !["color"] = c.meant.vertices]]
<1>0. g.contents \in Painting /\ g.legal \in BOOLEAN /\ g.faithful \in BOOLEAN
  BY DEF Gpu
<1>1. [g.contents[i] EXCEPT !["color"] = c.meant.vertices] \in Paints
  BY <1>0 DEF Painting, Paints
<1>2. q \in Painting
  BY <1>0, <1>1 DEF Painting
<1>3. h = [g EXCEPT !.contents[g.active]["color"] = c.meant.vertices,
                    !.legal = g.legal /\ \A stage \in Stages :
                                              <<c.views[stage], "color">> \notin g.unsynced,
                    !.faithful = g.faithful /\ Meets(s, g, c)]
  BY DEF Step, Meets
<1>4. g.legal /\ \A stage \in Stages : <<c.views[stage], "color">> \notin g.unsynced
  OBVIOUS
<1>5. h = [g EXCEPT !.contents = q, !.legal = TRUE, !.faithful = TRUE]
  <2> HIDE DEF h
  <2>1. h = [g EXCEPT !.contents[i]["color"] = c.meant.vertices, !.legal = TRUE, !.faithful = TRUE]
    BY <1>3, <1>4
  <2> QED
    BY <2>1 DEF Gpu
<1> HIDE DEF h, q
<1>6. h = [contents |-> q, active |-> i, unsynced |-> {}, legal |-> TRUE, faithful |-> TRUE]
  BY <1>5 DEF Gpu
<1>7. h \in Gpu
  BY <1>0, <1>2, <1>6 DEF Gpu
<1> QED
  BY <1>6, <1>7 DEF h, q

(* A draw is recorded with what it was meant to read. *)
LEMMA Draws ==
    ASSUME NEW s, NEW want, Sound(s, want), s.frameOpen, s.renderingActive, ~s.combinerDirty,
           \A stage \in Stages : View(s, stage) # CurrentImage(s),
           NEW c, c \in Command, c.op = "draw",
           c.views = [stage \in Stages |-> View(s, stage)],
           c.slot = s.combinerActiveSlot, c.meant.config = s.lastConfig,
           c.vertices.area = "vertex", Within(s, c.vertices), Holds(s, c.vertices, c.meant.vertices),
           c.indices # None => Within(s, c.indices) /\ Holds(s, c.indices, c.meant.indices),
           c.meant.target = CurrentImage(s), c.meant.under = want[CurrentImage(s)],
           \A stage \in Stages : c.meant.sampled[stage] = want[View(s, stage)]["color"],
           c.meant.vertices \in Contents
    PROVE  LET t == Record(s, c)
           IN  /\ Sound(t, [want EXCEPT ![CurrentImage(s)] = [@ EXCEPT !["color"] = c.meant.vertices]])
               /\ SameLinks(s, t) /\ t.frameOpen
<1> DEFINE t == Record(s, c)
           i == CurrentImage(s)
           g == Run(s)
           h == Step(s, g, c)
           v == c.meant.vertices
           new == [want EXCEPT ![i] = [want[i] EXCEPT !["color"] = v]]
<1>1. Tracked(s, g) /\ s \in State /\ Linked(s) /\ want \in Painting /\ Matches(s, want)
  BY DEF Sound, Recorded
<1>2. /\ g \in Gpu /\ g.legal /\ g.faithful /\ g.active = i /\ g.unsynced = {}
      /\ s.pending = Blank /\ ~s.gpuWroteTarget
      /\ s.combiner[s.combinerActiveSlot] = s.lastConfig
      /\ s.combinerActiveSlot < s.combinerWriteSlot
  BY <1>1 DEF Tracked
<1>3. /\ i \in Surfaces /\ i \in LiveIn(s) /\ i # White /\ LiveIn(s) \subseteq Surfaces
      /\ \A x \in Slots : s.textures[x] # Empty => s.textures[x].image # i
  BY <1>1, Live
<1>4. g.contents \in Painting /\ g.contents[i] \in Paints
  BY <1>2, <1>3 DEF Gpu, Painting
<1>5. Settled(s, g) = g.contents
  <2>1. Over(g.contents[i], Blank) = g.contents[i]
    BY <1>4, Colours, Overs
  <2> QED
    BY <1>2, <1>4, <2>1 DEF Settled, Painting
<1>6. \A j \in LiveIn(s) : want[j] = g.contents[j]
  BY <1>1, <1>5 DEF Matches
<1>7. \A stage \in Stages : View(s, stage) \in LiveIn(s) /\ c.views[stage] = View(s, stage)
  BY <1>1, Views
<1>8. Safe(s, c)
  <2>1. MentionedIn(c) = {c.views[stage] : stage \in Stages}
    BY DEF MentionedIn
  <2> QED
    BY <1>2, <1>7, <2>1 DEF Safe
<1>9. Meets(s, g, c)
  BY <1>2, <1>3, <1>6, <1>7 DEF Meets
<1> HIDE DEF Command
<1>10. /\ h \in Gpu /\ h.legal /\ h.faithful /\ h.active = i
       /\ h.contents = [g.contents EXCEPT ![i] = [g.contents[i] EXCEPT !["color"] = v]]
       /\ h.unsynced = {}
  <2>1. i \in Surfaces /\ g \in Gpu /\ g.legal /\ g.faithful /\ g.active = i /\ g.unsynced = {}
        /\ v \in Contents
    BY <1>2, <1>3
  <2>2. h = Step(s, g, c)
    OBVIOUS
  <2> HIDE DEF i, g, h
  <2> QED
    BY <1>9, <2>1, <2>2, StepsDraw
<1>11. t = [s EXCEPT !.commands = Append(s.commands, c)]
  BY DEF Record
<1> HIDE DEF t, h
<1>12. Append(s.commands, c) \in Seq(Command)
  BY <1>1, CommandAdded
<1>13. t \in State
  BY <1>1, <1>11, <1>12 DEF State
<1>14. SameLinks(s, t) /\ SameStore(s, t)
  BY <1>1, <1>11 DEF State, SameLinks, SameStore
<1>15. /\ t.frameOpen = s.frameOpen /\ t.pending = s.pending /\ t.renderingActive = s.renderingActive
       /\ t.gpuWroteTarget = s.gpuWroteTarget /\ t.commands = Append(s.commands, c)
  BY <1>1, <1>11 DEF State
<1>16. CurrentImage(t) = i /\ LiveIn(t) = LiveIn(s)
  BY <1>14, LinksKept
<1> HIDE DEF i, g, v
<1>17. \A j \in Surfaces \ {i} : h.contents[j] = g.contents[j]
  BY <1>4, <1>10 DEF Painting
<1>18. Images \subseteq Surfaces /\ White \in Surfaces
  BY DEF Surfaces
<1>19. Tracked(t, h)
  <2>1. \A j \in Surfaces \ LiveIn(t) : h.contents[j] = Blank
    BY <1>1, <1>3, <1>16, <1>17 DEF Tracked
  <2>2. ASSUME NEW x \in Slots, t.textures[x] # Empty
        PROVE  h.contents[t.textures[x].image]["depth"] = None
    <3>1. s.textures[x] # Empty /\ t.textures[x].image = s.textures[x].image
      BY <1>14, <2>2 DEF SameLinks
    <3>2. s.textures[x].image \in Images /\ s.textures[x].image # i
      BY <1>1, <1>3, <3>1, Live
    <3> QED
      BY <1>1, <1>17, <1>18, <3>1, <3>2 DEF Tracked
  <2>3. h.contents[White] = Opaque
    BY <1>1, <1>3, <1>17, <1>18 DEF Tracked
  <2>4. ~t.combinerDirty => /\ t.combiner[t.combinerActiveSlot] = t.lastConfig
                            /\ t.combinerActiveSlot < t.combinerWriteSlot
    BY <1>1, <1>14 DEF Tracked, SameLinks, SameStore
  <2> QED
    BY <1>2, <1>10, <1>15, <1>16, <2>1, <2>2, <2>3, <2>4 DEF Tracked
<1>20. new \in Painting
  <2>1. want[i] \in Paints
    BY <1>1, <1>3 DEF Painting
  <2>2. v \in Contents
    BY DEF v
  <2>3. [want[i] EXCEPT !["color"] = v] \in Paints
    BY <2>1, <2>2 DEF Paints
  <2> QED
    BY <1>1, <2>3 DEF Painting
<1>21. \A j \in LiveIn(s) : new[j] = Settled(t, h)[j]
  <2>1. h.contents \in Painting /\ h.contents[i] \in Paints
    BY <1>3, <1>10 DEF Gpu, Painting
  <2>2. Over(h.contents[i], Blank) = h.contents[i]
    BY <2>1, Colours, Overs
  <2>3. Settled(t, h) = h.contents
    BY <1>2, <1>15, <1>16, <2>1, <2>2 DEF Settled, Painting
  <2>4. ASSUME NEW j \in LiveIn(s) PROVE new[j] = h.contents[j]
    <3>1. j \in Surfaces
      BY <1>3
    <3>2. CASE j = i
      BY <1>1, <1>3, <1>4, <1>6, <1>10, <3>1, <3>2 DEF Painting
    <3>3. CASE j # i
      BY <1>1, <1>6, <1>17, <3>1, <3>3 DEF Painting
    <3> QED
      BY <3>2, <3>3
  <2> QED
    BY <2>3, <2>4
<1> HIDE DEF new
<1>22. Sound(t, new)
  <2> USE DEF g, h
  <2> QED
    BY <1>8, <1>13, <1>14, <1>15, <1>19, <1>20, <1>21, Appends
<1> QED
  BY <1>14, <1>15, <1>22 DEF t, new, i, v

(* What a key finds. *)
LEMMA TextureFound ==
    ASSUME NEW s, s \in State, Linked(s), NEW slot \in Slots, s.textures[slot] # Empty
    PROVE  /\ s.textures[slot].key \in TextureKeys /\ s.textures[slot].key # None
           /\ Find(s, s.textures[slot].key) = {slot}
           /\ TextureImage(s, s.textures[slot].key) = s.textures[slot].image
<1>1. s.textures[slot] \in TextureEntry
  BY Live
<1>2. s.textures[slot].key \in TextureKeys /\ s.textures[slot].key # None
  BY <1>1, Numbers DEF TextureEntry
<1>3. Find(s, s.textures[slot].key) = {slot}
  BY DEF Linked, Find
<1>4. TextureImage(s, s.textures[slot].key) = s.textures[slot].image
  BY <1>3 DEF TextureImage
<1> QED
  BY <1>2, <1>3, <1>4

LEMMA TargetFound ==
    ASSUME NEW s, s \in State, Linked(s), NEW i \in 1..Len(s.targets)
    PROVE  /\ s.targets[i].key \in TargetKeys /\ s.targets[i].key # None /\ s.targets[i].key # Main
           /\ FindTarget(s, s.targets[i].key) = {i}
           /\ TargetImage(s, s.targets[i].key) = s.targets[i].image
<1>1. s.targets[i] \in TargetEntry
  BY Live
<1>2. s.targets[i].key \in TargetKeys /\ s.targets[i].key # None /\ s.targets[i].key # Main
  BY <1>1, Numbers DEF TargetEntry
<1>3. FindTarget(s, s.targets[i].key) = {i}
  <2>1. DOMAIN s.targets = 1..Len(s.targets)
    BY DEF State
  <2> QED
    BY <2>1 DEF Linked, FindTarget
<1>4. TargetImage(s, s.targets[i].key) = s.targets[i].image
  BY <1>3 DEF TargetImage
<1> QED
  BY <1>2, <1>3, <1>4

LEMMA Founds ==
    ASSUME NEW s, s \in State, Linked(s)
    PROVE  /\ \A key \in TextureKeys : \A slot \in Find(s, key) :
                 slot \in Slots /\ s.textures[slot] # Empty /\ s.textures[slot].key = key
           /\ \A key \in TargetKeys : \A i \in FindTarget(s, key) :
                 i \in 1..Len(s.targets) /\ s.targets[i].key = key
<1>1. ASSUME NEW key \in TextureKeys, NEW slot \in Find(s, key)
      PROVE  slot \in Slots /\ s.textures[slot] # Empty /\ s.textures[slot].key = key
  BY Numbers DEF Find, Empty
<1>2. DOMAIN s.targets = 1..Len(s.targets)
  BY DEF State
<1>3. ASSUME NEW key \in TargetKeys, NEW i \in FindTarget(s, key)
      PROVE  i \in 1..Len(s.targets) /\ s.targets[i].key = key
  BY <1>2 DEF FindTarget
<1> QED
  BY <1>1, <1>3

LEMMA Aiming ==
    ASSUME IInv
    PROVE  AimedImage = CurrentImage(r)
<1>1. r \in State /\ Linked(r) /\ aimed = IF r.current = 0 THEN Main ELSE r.targets[r.current].key
  BY DEF IInv, Sound
<1>2. CASE r.current = 0
  BY <1>1, <1>2 DEF AimedImage, CurrentImage
<1>3. CASE r.current # 0
  <2>1. r.current \in 1..Len(r.targets)
    BY <1>1, <1>3 DEF Linked, State
  <2>2. aimed # Main /\ TargetImage(r, aimed) = r.targets[r.current].image
    BY <1>1, <1>3, <2>1, TargetFound
  <2> QED
    BY <1>3, <2>2 DEF AimedImage, CurrentImage
<1> QED
  BY <1>2, <1>3

LEMMA IdealWhite ==
    ASSUME NEW s, NEW want, Sound(s, want)
    PROVE  want[White] = Opaque
<1>1. s \in State /\ Linked(s) /\ Tracked(s, Run(s)) /\ Matches(s, want)
  BY DEF Sound, Recorded
<1>2. White \in LiveIn(s) /\ CurrentImage(s) # White
  BY <1>1, Live
<1>3. Run(s).contents \in Painting /\ White \in Surfaces /\ Run(s).contents[White] = Opaque
  BY <1>1 DEF Tracked, Gpu, Surfaces
<1>4. Settled(s, Run(s))[White] = Run(s).contents[White]
  BY <1>2, <1>3 DEF Settled, Painting
<1> QED
  BY <1>1, <1>2, <1>3, <1>4 DEF Matches

LEMMA Expectations ==
    ASSUME IInv, NEW stage \in Stages
    PROVE  Expected(stage) = ideal[View(r, stage)]["color"]
<1>1. /\ r \in State /\ Linked(r) /\ bound[stage] = Sampled(r, stage)
  BY DEF IInv, Sound
<1>2. CASE r.overrideView[stage] # None
  <2>1. r.overrideKey[stage] # None
    BY <1>1, <1>2 DEF Linked
  <2>2. PICK i \in 1..Len(r.targets) : /\ r.targets[i].key = r.overrideKey[stage]
                                       /\ r.targets[i].image = r.overrideView[stage]
    BY <1>1, <1>2 DEF Linked
  <2>3. TargetImage(r, r.overrideKey[stage]) = r.overrideView[stage]
    BY <1>1, <2>2, TargetFound
  <2>4. bound[stage] = Target(r.overrideKey[stage])
    BY <1>1, <2>1 DEF Sampled
  <2>5. bound[stage].kind = "target" /\ bound[stage].key = r.overrideKey[stage]
    BY <2>4 DEF Target
  <2>6. View(r, stage) = r.overrideView[stage]
    BY <1>2 DEF View
  <2> QED
    BY <2>3, <2>5, <2>6 DEF Expected
<1>3. CASE r.overrideView[stage] = None /\ r.stageTexture[stage] # None
  <2>1. r.overrideKey[stage] = None
    BY <1>1, <1>3 DEF Linked
  <2> DEFINE slot == r.stageTexture[stage]
  <2>2. slot \in Slots /\ r.textures[slot] # Empty
    BY <1>1, <1>3 DEF Linked, State
  <2>3. bound[stage] = Texture(r.textures[slot].key)
    BY <1>1, <1>3, <2>1 DEF Sampled
  <2>4. bound[stage].kind = "texture" /\ bound[stage].key = r.textures[slot].key
    BY <2>3 DEF Texture
  <2>5. View(r, stage) = r.textures[slot].image
    BY <1>3 DEF View
  <2>6. /\ Find(r, r.textures[slot].key) = {slot}
        /\ TextureImage(r, r.textures[slot].key) = r.textures[slot].image
    BY <1>1, <2>2, TextureFound
  <2>7. Find(r, bound[stage].key) # {}
    BY <2>4, <2>6
  <2> QED
    BY <2>4, <2>5, <2>6, <2>7 DEF Expected
<1>4. CASE r.overrideView[stage] = None /\ r.stageTexture[stage] = None
  <2>1. r.overrideKey[stage] = None
    BY <1>1, <1>4 DEF Linked
  <2>2. bound[stage] = Nothing
    BY <1>1, <1>4, <2>1 DEF Sampled
  <2>3. bound[stage].kind = "none"
    BY <2>2 DEF Nothing
  <2>4. Expected(stage) = White
    BY <2>3 DEF Expected
  <2>5. View(r, stage) = White
    BY <1>4 DEF View
  <2>6. ideal[White] = Opaque
    BY IdealWhite DEF IInv
  <2> QED
    BY <2>4, <2>5, <2>6 DEF Opaque
<1> QED
  BY <1>2, <1>3, <1>4

(* The guest's view of the bindings stays with them. *)
LEMMA SameBindings ==
    ASSUME IInv, SameLinks(r, r'), UNCHANGED <<blocks, bound, aimed>>, Sound(r', ideal'), Unused(r')
    PROVE  IInv'
<1>1. \A g : Sampled(r', g) = Sampled(r, g)
  BY LinksKept
<1>2. r'.current = r.current /\ r'.targets = r.targets
  BY DEF SameLinks
<1> QED
  BY <1>1, <1>2 DEF IInv

LEMMA DrawsFrom ==
    ASSUME IInv, NEW s, Sound(s, ideal), SameLinks(r, s), NEW size \in Nat, NEW vertices \in Vertices,
           Ready(s, size, vertices), NEW range, NEW indices,
           \/ range = None /\ indices = None
           \/ /\ range \in ByteRange /\ indices \in Indices
              /\ Within(s, range) /\ Holds(s, range, indices),
           DrawFrom(s, size, vertices, range, indices)
    PROVE  IInv'
<1> DEFINE at == s.cursor["vertex"] - size
           taken == RangeAt(s, "vertex", at, size)
           meant == [target |-> AimedImage, under |-> ideal[AimedImage],
                     sampled |-> [stage \in Stages |-> Expected(stage)],
                     config |-> r.lastConfig, vertices |-> vertices, indices |-> indices]
           c == [op |-> "draw", views |-> [stage \in Stages |-> View(s, stage)],
                 slot |-> s.combinerActiveSlot, vertices |-> taken, indices |-> range,
                 meant |-> meant]
           i == CurrentImage(s)
<1>1. s \in State /\ Linked(s) /\ ideal \in Painting
  BY DEF Sound
<1>2. /\ i \in Surfaces /\ LiveIn(s) \subseteq Surfaces
      /\ \A stage \in Stages : View(s, stage) \in LiveIn(s)
  BY <1>1, Live, Views
<1>3. i = CurrentImage(r) /\ AimedImage = i /\ \A stage : View(s, stage) = View(r, stage)
  BY Aiming, LinksKept
<1>4. r' = Record(s, c) /\ \A stage \in Stages : View(s, stage) # i
  BY <1>3 DEF DrawFrom
<1>5. ideal' = [ideal EXCEPT ![i] = [ideal[i] EXCEPT !["color"] = vertices]]
  BY <1>1, <1>2, <1>3 DEF DrawFrom, Painting
<1>6. /\ s.cursor["vertex"] \in Nat /\ at \in Nat /\ at + size = s.cursor["vertex"]
      /\ at + size <= Len(s.staging["vertex"]) /\ Len(s.staging["vertex"]) \in Nat
      /\ \A j \in (at + 1)..(at + size) : s.staging["vertex"][j] = vertices
  <2>1. "vertex" \in Areas /\ Len(s.staging["vertex"]) \in Nat
    BY <1>1 DEF Areas, State
  <2> QED
    BY <2>1 DEF Ready
<1>7. /\ taken.area = "vertex" /\ taken.at = at /\ taken.size = size
      /\ taken.buffer = Len(s.staging["vertex"]) /\ taken \in ByteRange
  <2> HIDE DEF at
  <2> QED
    BY <1>6 DEF RangeAt, ByteRange, Areas
<1> HIDE DEF at, taken
<1>8. Within(s, taken) /\ Holds(s, taken, vertices)
  <2>1. Within(s, taken)
    BY <1>6, <1>7 DEF Within
  <2>2. ASSUME NEW j \in at..(at + size - 1)
        PROVE  j < taken.buffer /\ s.staging["vertex"][j + 1] = vertices
    <3>1. j + 1 \in (at + 1)..(at + size) /\ j < taken.buffer
      BY <1>6, <1>7
    <3> QED
      BY <1>6, <3>1
  <2> QED
    BY <1>7, <2>1, <2>2 DEF Holds
<1>9. meant \in Meant
  <2>1. \A stage \in Stages : Expected(stage) \in Contents
    <3> TAKE stage \in Stages
    <3>1. View(s, stage) \in Surfaces
      BY <1>2
    <3>2. ideal[View(s, stage)] \in Paints
      BY <1>1, <3>1 DEF Painting
    <3>3. ideal[View(s, stage)]["color"] \in Contents
      BY <3>2 DEF Paints, Aspects
    <3> QED
      BY <1>3, <3>3, Expectations
  <2>2. [stage \in Stages |-> Expected(stage)] \in [Stages -> Contents]
    BY <2>1
  <2>3. ideal[AimedImage] \in Paints
    BY <1>1, <1>2, <1>3 DEF Painting
  <2>4. r.lastConfig \in Configs \cup {None} /\ indices \in Indices \cup {None}
    BY DEF IInv, Sound, State
  <2> QED
    BY <1>2, <1>3, <2>2, <2>3, <2>4 DEF Meant
<1>10. c \in Command /\ c.op = "draw"
  <2>1. [stage \in Stages |-> View(s, stage)] \in [Stages -> Surfaces]
    BY <1>2
  <2>2. s.combinerActiveSlot \in CombinerSlots /\ range \in ByteRange \cup {None}
    BY <1>1 DEF State
  <2> HIDE DEF meant
  <2> QED
    BY <1>7, <1>9, <2>1, <2>2 DEF Command
<1>11. /\ c.views = [stage \in Stages |-> View(s, stage)] /\ c.slot = s.combinerActiveSlot
       /\ c.vertices = taken /\ c.indices = range /\ c.meant = meant
  OBVIOUS
<1>12. /\ meant.target = i /\ meant.under = ideal[i] /\ meant.config = s.lastConfig
       /\ meant.vertices = vertices /\ meant.indices = indices
       /\ \A stage \in Stages : meant.sampled[stage] = ideal[View(s, stage)]["color"]
  BY <1>3, Expectations DEF SameLinks
<1>13. vertices \in Contents
  BY Colours
<1>14. s.frameOpen /\ s.renderingActive /\ ~s.combinerDirty
  BY DEF Ready
<1> HIDE DEF c, meant
<1>15. /\ Sound(r', [ideal EXCEPT ![i] = [@ EXCEPT !["color"] = vertices]])
       /\ SameLinks(s, r') /\ r'.frameOpen
  <2>1. \A stage \in Stages : View(s, stage) # CurrentImage(s)
    BY <1>4
  <2>2. c.indices # None => Within(s, c.indices) /\ Holds(s, c.indices, c.meant.indices)
    BY <1>11, <1>12
  <2>3. c.vertices.area = "vertex" /\ Within(s, c.vertices) /\ Holds(s, c.vertices, c.meant.vertices)
    BY <1>7, <1>8, <1>11, <1>12
  <2>4. /\ c.meant.target = CurrentImage(s) /\ c.meant.under = ideal[CurrentImage(s)]
        /\ \A stage \in Stages : c.meant.sampled[stage] = ideal[View(s, stage)]["color"]
        /\ c.meant.vertices \in Contents /\ c.meant.config = s.lastConfig
        /\ c.meant.vertices = vertices
    BY <1>11, <1>12, <1>13
  <2> HIDE DEF i
  <2>5. /\ Sound(Record(s, c), [ideal EXCEPT ![CurrentImage(s)] =
                                    [@ EXCEPT !["color"] = c.meant.vertices]])
        /\ SameLinks(s, Record(s, c)) /\ Record(s, c).frameOpen
    BY <1>10, <1>11, <1>14, <2>1, <2>2, <2>3, <2>4, Draws
  <2> QED
    BY <1>4, <2>4, <2>5 DEF i
<1>16. SameLinks(r, r')
  BY <1>15, LinksCompose
<1>17. Sound(r', ideal')
  BY <1>5, <1>15
<1>18. Unused(r')
  BY <1>15 DEF Unused
<1>19. UNCHANGED <<blocks, bound, aimed>>
  BY DEF DrawFrom
<1> QED
  BY <1>16, <1>17, <1>18, <1>19, SameBindings

LEMMA Drawing ==
    ASSUME IInv, NEW size \in DrawSizes, NEW v \in Vertices
    PROVE  /\ DrawUP(size, v) => IInv'
           /\ \A i \in Indices, count \in DrawSizes : DrawIndexed(size, v, count, i) => IInv'
<1>0. /\ size \in Nat /\ DrawSizes \subseteq Nat /\ v \in Data /\ Indices \subseteq Data
      /\ "index" \in Areas /\ "vertex" \in Areas /\ "vertex" # "index"
  BY Numbers DEF Data, Areas
<1>1. Sound(r, ideal) /\ Unused(r)
  BY DEF IInv
<1>2. ASSUME DrawUP(size, v) PROVE IInv'
  <2> DEFINE s == RecordDrawState(r, size, v)
  <2>1. Sound(s, ideal) /\ SameLinks(r, s) /\ Ready(s, size, v)
    BY <1>0, <1>1, RecordsDrawState
  <2>2. DrawFrom(s, size, v, None, None)
    BY <1>2 DEF DrawUP
  <2> HIDE DEF s
  <2> QED
    BY <1>0, <2>1, <2>2, DrawsFrom
<1>3. ASSUME NEW i \in Indices, NEW count \in DrawSizes, DrawIndexed(size, v, count, i)
      PROVE  IInv'
  <2> DEFINE m == MakeRoom(r, "index", count)
             s == RecordDrawState(m, size, v)
             at == s.cursor["index"]
             t == Stage(s, "index", at, count, i)
             range == RangeAt(s, "index", at, count)
  <2>1. Sound(m, ideal) /\ Unused(m) /\ SameLinks(r, m) /\ Roomy(m, "index", count)
    BY <1>0, <1>1, MakesRoom
  <2>2. DrawFrom(t, size, v, range, i)
    BY <1>3 DEF DrawIndexed
  <2> HIDE DEF m
  <2>3. Sound(s, ideal) /\ SameLinks(m, s) /\ Ready(s, size, v) /\ Roomy(s, "index", count)
    BY <1>0, <2>1, RecordsDrawState
  <2> HIDE DEF s
  <2>4. at \in Nat /\ Len(s.staging["index"]) \in Nat
    BY <1>0, <2>3 DEF Sound, State
  <2>5. count \in Nat /\ at + count <= Len(s.staging["index"]) /\ s.cursor["index"] <= at
    BY <1>0, <2>3, <2>4 DEF Roomy, Ready
  <2>6. /\ Sound(t, ideal) /\ SameLinks(s, t) /\ t.frameOpen = s.frameOpen
        /\ t.renderingActive = s.renderingActive /\ t.combinerDirty = s.combinerDirty
        /\ t.cursor["index"] = at + count
        /\ Len(t.staging["index"]) = Len(s.staging["index"])
        /\ \A j \in (at + 1)..(at + count) : t.staging["index"][j] = i
        /\ \A a \in Areas \ {"index"} : t.cursor[a] = s.cursor[a] /\ t.staging[a] = s.staging[a]
    <3>1. "index" \in Areas /\ i \in Data /\ count \in Nat /\ Sound(s, ideal)
          /\ at \in Nat /\ at + count <= Len(s.staging["index"]) /\ s.cursor["index"] <= at
      BY <1>0, <2>3, <2>4, <2>5
    <3>2. t = Stage(s, "index", at, count, i)
      OBVIOUS
    <3> HIDE DEF at, t
    <3> QED
      BY <3>1, <3>2, StagesData
  <2> HIDE DEF t
  <2>7. SameLinks(r, t)
    BY <2>1, <2>3, <2>6 DEF SameLinks
  <2>8. Ready(t, size, v)
    BY <1>0, <2>3, <2>6 DEF Ready
  <2>9. range \in ByteRange /\ range.area = "index" /\ range.at = at /\ range.size = count
        /\ range.buffer = Len(s.staging["index"])
    <3> HIDE DEF at
    <3> QED
      BY <1>0, <2>4, <2>5 DEF RangeAt, ByteRange
  <2> HIDE DEF range, at
  <2>10. Within(t, range)
    BY <2>4, <2>5, <2>6, <2>9 DEF Within
  <2>11. Holds(t, range, i)
    <3>1. ASSUME NEW j \in at..(at + count - 1)
          PROVE  j < range.buffer /\ t.staging["index"][j + 1] = i
      <4>1. j + 1 \in (at + 1)..(at + count) /\ j < range.buffer
        BY <2>4, <2>5, <2>9
      <4> QED
        BY <2>6, <4>1
    <3> QED
      BY <2>6, <2>9, <3>1 DEF Holds
  <2> QED
    BY <1>0, <2>2, <2>6, <2>7, <2>8, <2>9, <2>10, <2>11, DrawsFrom
<1> QED
  BY <1>2, <1>3

-----------------------------------------------------------------------------
(* Calls that leave the batch as it is *)

SameImages(s, t) ==
    \A u \in Slots : /\ t.textures[u] = Empty <=> s.textures[u] = Empty
                     /\ t.textures[u].image = s.textures[u].image
                     /\ t.textures[u].key = s.textures[u].key

SameBatch(s, t) ==
    /\ t.frameOpen = s.frameOpen /\ t.renderingActive = s.renderingActive
    /\ t.gpuWroteTarget = s.gpuWroteTarget /\ t.pending = s.pending
    /\ t.commands = s.commands /\ t.contents = s.contents
    /\ t.staging = s.staging /\ t.cursor = s.cursor
    /\ t.descriptorSetCount = s.descriptorSetCount /\ t.combiner = s.combiner
    /\ t.combinerWriteSlot = s.combinerWriteSlot /\ t.combinerActiveSlot = s.combinerActiveSlot
    /\ t.targets = s.targets /\ t.current = s.current
    /\ SameImages(s, t)
    /\ t.combinerDirty \/ (t.combinerDirty = s.combinerDirty /\ t.lastConfig = s.lastConfig)

LEMMA BatchesCompose ==
    ASSUME NEW s, NEW t, NEW u, SameBatch(s, t), SameBatch(t, u)
    PROVE  SameBatch(s, u)
  BY DEF SameBatch, SameImages

LEMMA BatchKept ==
    ASSUME NEW s, NEW t, SameBatch(s, t)
    PROVE  LiveIn(t) = LiveIn(s) /\ CurrentImage(t) = CurrentImage(s)
  BY DEF SameBatch, SameImages, LiveIn, CurrentImage

LEMMA Rebinds ==
    ASSUME NEW s, NEW t, NEW want, Sound(s, want), t \in State, Linked(t), SameBatch(s, t)
    PROVE  /\ Sound(t, want)
           /\ Unused(s) => Unused(t)
<1>1. /\ Tracked(s, Run(s)) /\ s \in State /\ Linked(s) /\ want \in Painting /\ Matches(s, want)
      /\ \A i \in 1..Len(s.commands) : Safe(s, s.commands[i])
  BY DEF Sound, Recorded
<1>2. LiveIn(t) = LiveIn(s) /\ CurrentImage(t) = CurrentImage(s)
  BY BatchKept
<1>3. \A i \in 1..Len(t.commands) : Safe(t, t.commands[i])
  BY <1>1, <1>2 DEF SameBatch, Safe, Within
<1>4. Run(t) = Run(s)
  <2>1. Len(s.commands) \in Nat
    BY <1>1 DEF State
  <2>2. t.commands = s.commands /\ t.contents = s.contents
        /\ t.staging = s.staging /\ t.combiner = s.combiner
    BY DEF SameBatch
  <2> QED
    BY <2>1, <2>2, RunReads
<1>5. Tracked(t, Run(t))
  BY <1>1, <1>2, <1>4 DEF Tracked, SameBatch, SameImages
<1>6. Matches(t, want)
  BY <1>1, <1>2, <1>4 DEF Matches, Settled, SameBatch
<1>7. Unused(s) => Unused(t)
  BY DEF Unused, SameBatch
<1> QED
  BY <1>1, <1>3, <1>5, <1>6, <1>7 DEF Sound, Recorded

LEMMA Shading ==
    ASSUME IInv, NEW config \in Configs, SetPixelShader(config)
    PROVE  IInv'
<1>1. r \in State /\ Linked(r) /\ Sound(r, ideal) /\ Unused(r)
  BY DEF IInv, Sound
<1>2. r' = [r EXCEPT !.lastConfig = config, !.combinerDirty = TRUE]
  BY DEF SetPixelShader
<1>3. r' \in State
  BY <1>1, <1>2 DEF State
<1>4. SameBatch(r, r')
  BY <1>1, <1>2 DEF State, SameBatch, SameImages
<1>5. /\ r'.targets = r.targets /\ r'.current = r.current /\ r'.textures = r.textures
      /\ r'.stageTexture = r.stageTexture /\ r'.overrideView = r.overrideView
      /\ r'.overrideKey = r.overrideKey
  BY <1>1, <1>2 DEF State
<1>6. Linked(r')
  BY <1>1, <1>5 DEF Linked
<1>7. Sound(r', ideal) /\ Unused(r')
  BY <1>1, <1>3, <1>4, <1>6, Rebinds
<1>8. \A g : Sampled(r', g) = Sampled(r, g)
  BY <1>5 DEF Sampled
<1> QED
  BY <1>5, <1>7, <1>8 DEF IInv, SetPixelShader

LEMMA Presenting == ASSUME IInv, EndFrameForPresent PROVE IInv'
<1> DEFINE t == SubmitFrame(r)
<1>1. Sound(t, ideal) /\ Unused(t) /\ SameLinks(r, t)
  BY Submits DEF IInv
<1>2. r' = t /\ UNCHANGED <<blocks, ideal, bound, aimed>>
  BY DEF EndFrameForPresent
<1> HIDE DEF t
<1> QED
  BY <1>1, <1>2, SameBindings

-----------------------------------------------------------------------------
(* Bindings *)

(* Stages that sample what they did, whatever the entries' ranks. *)
SameStages(s, t) ==
    /\ t.stageTexture = s.stageTexture /\ t.overrideView = s.overrideView
    /\ t.overrideKey = s.overrideKey

LEMMA EntriesFinite == IsFiniteSet(Slots) /\ IsFiniteSet(Images)
<1>1. MaxTextures \in Int /\ MaxTextures + MaxTargets + 2 \in Int /\ 1 \in Int
  BY Numbers
<1> QED
  BY <1>1, FS_Interval DEF Slots, Images

LEMMA Touches ==
    ASSUME NEW s, s \in State, NEW slot \in Slots, s.textures[slot] # Empty
    PROVE  LET t == Touch(s, slot)
           IN  /\ t \in State /\ SameBatch(s, t) /\ SameStages(s, t)
               /\ t.lastConfig = s.lastConfig /\ t.combinerDirty = s.combinerDirty
               /\ Linked(s) => Linked(t)
               /\ \A g \in Stages : Linked(s) => Sampled(t, g) = Sampled(s, g)
<1> DEFINE used == {u \in Slots : s.textures[u].lastUse # 0} \cup {slot}
           was == s.textures[slot].lastUse
           Rank(u) == CASE u = slot -> Cardinality(used)
                        [] u # slot /\ was # 0 /\ s.textures[u].lastUse > was ->
                              s.textures[u].lastUse - 1
                        [] OTHER -> s.textures[u].lastUse
           q == [u \in Slots |-> [s.textures[u] EXCEPT !.lastUse = Rank(u)]]
           t == Touch(s, slot)
<1>0. s.textures \in [Slots -> TextureEntry \cup {Empty}] /\ s.textures[slot] \in TextureEntry
  BY DEF State
<1>1. Cardinality(used) \in Nat
  <2>1. used \subseteq Slots
    OBVIOUS
  <2> QED
    BY <2>1, EntriesFinite, FS_Subset, FS_CardinalityType
<1> HIDE DEF used
<1>2. was \in Nat /\ \A u \in Slots : s.textures[u].lastUse \in Nat
  BY <1>0 DEF TextureEntry, Empty
<1>3. ASSUME NEW u \in Slots
      PROVE  /\ Rank(u) \in Nat
             /\ s.textures[u] = Empty => Rank(u) = 0
  BY <1>1, <1>2 DEF Empty
<1> HIDE DEF Rank
<1>4. ASSUME NEW u \in Slots
      PROVE  /\ q[u] \in TextureEntry \cup {Empty}
             /\ q[u] = Empty <=> s.textures[u] = Empty
             /\ q[u].image = s.textures[u].image /\ q[u].key = s.textures[u].key
  <2>1. CASE s.textures[u] = Empty
    BY <1>3, <2>1 DEF Empty
  <2>2. CASE s.textures[u] # Empty
    <3>1. s.textures[u] \in TextureEntry
      BY <1>0, <2>2
    <3>2. /\ q[u] \in TextureEntry
          /\ q[u].image = s.textures[u].image /\ q[u].key = s.textures[u].key
      BY <1>3, <3>1 DEF TextureEntry
    <3>3. q[u].key # Empty.key
      BY <3>2, Numbers DEF TextureEntry, Empty
    <3> QED
      BY <2>2, <3>2, <3>3
  <2> QED
    BY <2>1, <2>2
<1>5. t = [s EXCEPT !.textures = q]
  BY DEF Touch, used, Rank
<1>6. q \in [Slots -> TextureEntry \cup {Empty}]
  BY <1>4
<1> HIDE DEF q, t
<1>7. t \in State
  BY <1>5, <1>6 DEF State
<1>8. SameBatch(s, t) /\ SameStages(s, t) /\ t.lastConfig = s.lastConfig
      /\ t.combinerDirty = s.combinerDirty
  BY <1>4, <1>5 DEF State, SameBatch, SameImages, SameStages
<1>9. Linked(s) => Linked(t)
  <2>1. s.stageTexture \in [Stages -> Slots \cup {None}]
    BY DEF State
  <2> QED
    BY <1>8, <2>1 DEF Linked, SameBatch, SameImages, SameStages
<1>10. \A g \in Stages : Sampled(t, g) = Sampled(s, g)
  <2>1. s.stageTexture \in [Stages -> Slots \cup {None}]
    BY DEF State
  <2> QED
    BY <1>8, <2>1 DEF Sampled, SameBatch, SameImages, SameStages
<1> QED
  BY <1>7, <1>8, <1>9, <1>10 DEF t

LEMMA Binds ==
    ASSUME NEW s, s \in State, Linked(s), NEW stage \in Stages,
           NEW slot, slot = None \/ (slot \in Slots /\ s.textures[slot] # Empty)
    PROVE  LET t == Bind(s, stage, slot)
           IN  /\ t \in State /\ Linked(t) /\ SameBatch(s, t) /\ t.textures = s.textures
               /\ t.lastConfig = s.lastConfig /\ t.combinerDirty = s.combinerDirty
               /\ t.stageTexture[stage] = slot /\ t.overrideKey[stage] = None
               /\ t.overrideView[stage] = None
               /\ Sampled(t, stage) = IF slot = None THEN Nothing
                                      ELSE Texture(s.textures[slot].key)
               /\ \A g \in Stages \ {stage} : Sampled(t, g) = Sampled(s, g)
<1> DEFINE t == Bind(s, stage, slot)
           x == [s.stageTexture EXCEPT ![stage] = slot]
           y == [s.overrideView EXCEPT ![stage] = None]
           z == [s.overrideKey EXCEPT ![stage] = None]
<1>0. /\ s.stageTexture \in [Stages -> Slots \cup {None}]
      /\ s.overrideView \in [Stages -> Images \cup {None}]
      /\ s.overrideKey \in [Stages -> TargetKeys \cup {None}]
  BY DEF State
<1>1. /\ x \in [Stages -> Slots \cup {None}] /\ y \in [Stages -> Images \cup {None}]
      /\ z \in [Stages -> TargetKeys \cup {None}]
  BY <1>0
<1>2. /\ x[stage] = slot /\ y[stage] = None /\ z[stage] = None
      /\ \A g \in Stages \ {stage} : /\ x[g] = s.stageTexture[g] /\ y[g] = s.overrideView[g]
                                     /\ z[g] = s.overrideKey[g]
  BY <1>0
<1>3. t = [s EXCEPT !.stageTexture = x, !.overrideView = y, !.overrideKey = z]
  BY DEF Bind, ClearOverride, State
<1> HIDE DEF t, x, y, z
<1>4. t \in State
  BY <1>1, <1>3 DEF State
<1>5. /\ SameBatch(s, t) /\ t.textures = s.textures
      /\ t.lastConfig = s.lastConfig /\ t.combinerDirty = s.combinerDirty
      /\ t.stageTexture = x /\ t.overrideView = y /\ t.overrideKey = z
      /\ t.targets = s.targets /\ t.current = s.current
  BY <1>3 DEF State, SameBatch, SameImages
<1>6. ASSUME NEW g \in Stages
      PROVE  /\ t.stageTexture[g] # None => t.textures[t.stageTexture[g]] # Empty
             /\ t.overrideView[g] = None <=> t.overrideKey[g] = None
             /\ t.overrideView[g] # None =>
                   /\ t.stageTexture[g] = None
                   /\ \E i \in 1..Len(t.targets) : /\ t.targets[i].key = t.overrideKey[g]
                                                   /\ t.targets[i].image = t.overrideView[g]
  <2>1. CASE g = stage
    BY <1>2, <1>5, <2>1
  <2>2. CASE g # stage
    BY <1>2, <1>5, <2>2 DEF Linked
  <2> QED
    BY <2>1, <2>2
<1>7. Linked(t)
  BY <1>5, <1>6 DEF Linked
<1>8. Sampled(t, stage) = IF slot = None THEN Nothing ELSE Texture(s.textures[slot].key)
  BY <1>2, <1>5 DEF Sampled
<1>9. \A g \in Stages \ {stage} : Sampled(t, g) = Sampled(s, g)
  BY <1>2, <1>5 DEF Sampled
<1> QED
  BY <1>2, <1>4, <1>5, <1>7, <1>8, <1>9 DEF t

(* A target sampled in place of a texture. *)
Overridden(s, stage, i) ==
    [s EXCEPT !.stageTexture[stage] = None, !.overrideView[stage] = s.targets[i].image,
              !.overrideKey[stage] = s.targets[i].key]

LEMMA Overrides ==
    ASSUME NEW s, s \in State, Linked(s), NEW stage \in Stages, NEW i \in 1..Len(s.targets),
           NEW t, t = Overridden(s, stage, i)
    PROVE  /\ t \in State /\ Linked(t) /\ SameBatch(s, t) /\ t.textures = s.textures
           /\ t.lastConfig = s.lastConfig /\ t.combinerDirty = s.combinerDirty
           /\ Sampled(t, stage) = Target(s.targets[i].key)
           /\ \A g \in Stages \ {stage} : Sampled(t, g) = Sampled(s, g)
<1> DEFINE e == s.targets[i]
           x == [s.stageTexture EXCEPT ![stage] = None]
           y == [s.overrideView EXCEPT ![stage] = e.image]
           z == [s.overrideKey EXCEPT ![stage] = e.key]
<1>0. /\ s.stageTexture \in [Stages -> Slots \cup {None}]
      /\ s.overrideView \in [Stages -> Images \cup {None}]
      /\ s.overrideKey \in [Stages -> TargetKeys \cup {None}]
  BY DEF State
<1>e. e.key \in TargetKeys /\ e.image \in Images /\ e.key # None /\ e.image # None
  <2>1. e \in TargetEntry
    BY Live
  <2> HIDE DEF e
  <2>2. e.key \in TargetKeys /\ e.image \in Images
    BY <2>1 DEF TargetEntry
  <2> QED
    BY <2>2, Numbers DEF Surfaces
<1>3. t = [s EXCEPT !.stageTexture = x, !.overrideView = y, !.overrideKey = z]
  BY DEF State, Overridden
<1> HIDE DEF e
<1>1. /\ x \in [Stages -> Slots \cup {None}] /\ y \in [Stages -> Images \cup {None}]
      /\ z \in [Stages -> TargetKeys \cup {None}]
  BY <1>0, <1>e
<1>2. /\ x[stage] = None /\ y[stage] = e.image /\ z[stage] = e.key
      /\ \A g \in Stages \ {stage} : /\ x[g] = s.stageTexture[g] /\ y[g] = s.overrideView[g]
                                     /\ z[g] = s.overrideKey[g]
  BY <1>0
<1> HIDE DEF x, y, z
<1>4. t \in State
  BY <1>1, <1>3 DEF State
<1>5. /\ SameBatch(s, t) /\ t.textures = s.textures
      /\ t.lastConfig = s.lastConfig /\ t.combinerDirty = s.combinerDirty
      /\ t.stageTexture = x /\ t.overrideView = y /\ t.overrideKey = z
      /\ t.targets = s.targets /\ t.current = s.current
  BY <1>3 DEF State, SameBatch, SameImages
<1>6. ASSUME NEW g \in Stages
      PROVE  /\ t.stageTexture[g] # None => t.textures[t.stageTexture[g]] # Empty
             /\ t.overrideView[g] = None <=> t.overrideKey[g] = None
             /\ t.overrideView[g] # None =>
                   /\ t.stageTexture[g] = None
                   /\ \E j \in 1..Len(t.targets) : /\ t.targets[j].key = t.overrideKey[g]
                                                   /\ t.targets[j].image = t.overrideView[g]
  <2>1. CASE g = stage
    <3>1. t.targets[i].key = t.overrideKey[g] /\ t.targets[i].image = t.overrideView[g]
      BY <1>2, <1>5, <2>1 DEF e
    <3> QED
      BY <1>2, <1>5, <1>e, <2>1, <3>1
  <2>2. CASE g # stage
    BY <1>2, <1>5, <2>2 DEF Linked
  <2> QED
    BY <2>1, <2>2
<1>7. Linked(t)
  BY <1>5, <1>6 DEF Linked
<1>8. Sampled(t, stage) = Target(e.key)
  BY <1>2, <1>5, <1>e DEF Sampled
<1>9. \A g \in Stages \ {stage} : Sampled(t, g) = Sampled(s, g)
  BY <1>2, <1>5 DEF Sampled
<1> QED
  BY <1>4, <1>5, <1>7, <1>8, <1>9 DEF e

(* A call that only binds. *)
LEMMA Rebound ==
    ASSUME IInv, NEW t, r' = t, t \in State, Linked(t), SameBatch(r, t),
           UNCHANGED <<ideal, aimed>>, blocks' \in Seq(Block),
           bound' = [g \in Stages |-> Sampled(t, g)]
    PROVE  IInv'
<1>1. Sound(r', ideal') /\ Unused(r')
  BY Rebinds DEF IInv
<1>2. r'.current = r.current /\ r'.targets = r.targets
  BY DEF SameBatch
<1> QED
  BY <1>1, <1>2 DEF IInv

LEMMA BoundAt ==
    ASSUME IInv, NEW stage \in Stages, NEW t, NEW b, Sampled(t, stage) = b,
           \A g \in Stages \ {stage} : Sampled(t, g) = Sampled(r, g)
    PROVE  [bound EXCEPT ![stage] = b] = [g \in Stages |-> Sampled(t, g)]
<1>1. bound = [g \in Stages |-> Sampled(r, g)]
  BY DEF IInv
<1> QED
  BY <1>1

LEMMA Binding ==
    ASSUME IInv, NEW stage \in Stages
    PROVE  /\ SetNoTexture(stage) => IInv'
           /\ \A key \in TextureKeys : RebindStageTexture(stage, key) => IInv'
           /\ \A key \in TargetKeys : SetStageRenderTargetTexture(stage, key) => IInv'
<1>0. r \in State /\ Linked(r) /\ blocks \in Seq(Block)
  BY DEF IInv, Sound
<1> DEFINE bare == Bind(r, stage, None)
<1>1. /\ bare \in State /\ Linked(bare) /\ SameBatch(r, bare) /\ Sampled(bare, stage) = Nothing
      /\ \A g \in Stages \ {stage} : Sampled(bare, g) = Sampled(r, g)
  BY <1>0, Binds
<1> HIDE DEF bare
<1>2. [bound EXCEPT ![stage] = Nothing] = [g \in Stages |-> Sampled(bare, g)]
  BY <1>1, BoundAt
<1>3. ASSUME SetNoTexture(stage) PROVE IInv'
  <2>1. /\ r' = bare /\ UNCHANGED <<blocks, ideal, aimed>>
        /\ bound' = [bound EXCEPT ![stage] = Nothing]
    BY <1>3 DEF SetNoTexture, bare
  <2> QED
    BY <1>0, <1>1, <1>2, <2>1, Rebound
<1>4. ASSUME NEW key \in TextureKeys, RebindStageTexture(stage, key) PROVE IInv'
  <2>0. /\ UNCHANGED <<blocks, ideal, aimed>>
        /\ bound' = [bound EXCEPT ![stage] = IF Find(r, key) = {} THEN Nothing ELSE Texture(key)]
    BY <1>4 DEF RebindStageTexture
  <2>1. CASE Find(r, key) = {}
    <3>1. r' = bare
      BY <1>4, <2>1 DEF RebindStageTexture, bare
    <3> QED
      BY <1>0, <1>1, <1>2, <2>0, <2>1, <3>1, Rebound
  <2>2. CASE Find(r, key) # {}
    <3>1. PICK slot \in Find(r, key) : r' = Touch(Bind(r, stage, slot), slot)
      BY <1>4, <2>2 DEF RebindStageTexture
    <3>2. slot \in Slots /\ r.textures[slot] # Empty /\ r.textures[slot].key = key
      BY <1>0, Founds
    <3> DEFINE s == Bind(r, stage, slot)
               t == Touch(s, slot)
    <3>3. /\ s \in State /\ Linked(s) /\ SameBatch(r, s) /\ s.textures = r.textures
          /\ Sampled(s, stage) = Texture(key)
          /\ \A g \in Stages \ {stage} : Sampled(s, g) = Sampled(r, g)
      <4>1. slot # None
        BY <3>2, Numbers
      <4> QED
        BY <1>0, <3>2, <4>1, Binds
    <3> HIDE DEF s
    <3>4. /\ t \in State /\ SameBatch(s, t) /\ Linked(t)
          /\ \A g \in Stages : Sampled(t, g) = Sampled(s, g)
      BY <3>2, <3>3, Touches
    <3>5. r' = t
      BY <3>1 DEF s
    <3> HIDE DEF t
    <3>6. SameBatch(r, t)
      BY <3>3, <3>4, BatchesCompose
    <3>7. [bound EXCEPT ![stage] = Texture(key)] = [g \in Stages |-> Sampled(t, g)]
      BY <3>3, <3>4, BoundAt
    <3> QED
      BY <1>0, <2>0, <2>2, <3>4, <3>5, <3>6, <3>7, Rebound
  <2> QED
    BY <2>1, <2>2
<1>5. ASSUME NEW key \in TargetKeys, SetStageRenderTargetTexture(stage, key) PROVE IInv'
  <2>1. PICK i \in FindTarget(r, key) : TRUE
    BY <1>5 DEF SetStageRenderTargetTexture
  <2>2. i \in 1..Len(r.targets) /\ r.targets[i].key = key
    BY <1>0, Founds
  <2>3. TargetImage(r, key) = r.targets[i].image
    BY <1>0, <2>2, TargetFound
  <2> DEFINE t == Overridden(r, stage, i)
  <2>4. /\ r' = t /\ UNCHANGED <<blocks, ideal, aimed>>
        /\ bound' = [bound EXCEPT ![stage] = Target(key)]
    BY <1>5, <2>2, <2>3 DEF SetStageRenderTargetTexture, Overridden
  <2>5. /\ t \in State /\ Linked(t) /\ SameBatch(r, t)
        /\ Sampled(t, stage) = Target(key)
        /\ \A g \in Stages \ {stage} : Sampled(t, g) = Sampled(r, g)
    BY <1>0, <2>2, Overrides
  <2> HIDE DEF t
  <2>6. [bound EXCEPT ![stage] = Target(key)] = [g \in Stages |-> Sampled(t, g)]
    BY <2>5, BoundAt
  <2> QED
    BY <1>0, <2>4, <2>5, <2>6, Rebound
<1> QED
  BY <1>3, <1>4, <1>5

-----------------------------------------------------------------------------
(* State blocks *)

LEMMA BlocksKept ==
    ASSUME blocks \in Seq(Block), NEW token
    PROVE  Others(token) \in Seq(Block) /\ \A i \in Index(token) : blocks[i] \in Block
<1>1. DOMAIN blocks = 1..Len(blocks) /\ \A i \in 1..Len(blocks) : blocks[i] \in Block
  OBVIOUS
<1>2. \A i \in Index(token) : i \in 1..Len(blocks) /\ blocks[i] \in Block
  BY <1>1 DEF Index
<1>3. ASSUME NEW i \in Index(token) PROVE RemoveAt(blocks, i) \in Seq(Block)
  <2>1. i \in 1..Len(blocks)
    BY <1>2
  <2>2. SubSeq(blocks, 1, i - 1) \in Seq(Block) /\ SubSeq(blocks, i + 1, Len(blocks)) \in Seq(Block)
    <3> HIDE DEF Block
    <3> QED
      BY <2>1
  <2>3. SubSeq(blocks, 1, i - 1) \o SubSeq(blocks, i + 1, Len(blocks)) \in Seq(Block)
    <3> HIDE DEF Block
    <3> QED
      BY <2>2
  <2> QED
    BY <2>3 DEF RemoveAt
<1>4. Others(token) \in Seq(Block)
  BY <1>3 DEF Others
<1> QED
  BY <1>2, <1>4

LEMMA SameRenderer ==
    ASSUME IInv, UNCHANGED <<r, ideal, bound, aimed>>, blocks' \in Seq(Block)
    PROVE  IInv'
  BY DEF IInv

LEMMA Capturing ==
    ASSUME IInv, NEW token \in Tokens
    PROVE  /\ StateBlockCapture(token) => IInv'
           /\ StateBlockDelete(token) => IInv'
<1>0. blocks \in Seq(Block) /\ r \in State /\ Linked(r)
  BY DEF IInv, Sound
<1>1. ASSUME StateBlockDelete(token) PROVE IInv'
  <2>1. UNCHANGED <<r, ideal, bound, aimed>> /\ blocks' \in Seq(Block)
    BY <1>0, <1>1, BlocksKept DEF StateBlockDelete
  <2> QED
    BY <2>1, SameRenderer
<1>2. ASSUME StateBlockCapture(token) PROVE IInv'
  <2> DEFINE named == [g \in Stages |-> IF r.stageTexture[g] = None THEN None
                                        ELSE r.textures[r.stageTexture[g]].key]
             block == [token |-> token, textures |-> named,
                       targets |-> r.overrideKey, config |-> r.lastConfig]
             kept == IF Index(token) = {} /\ Len(blocks) = MaxStateBlocks
                     THEN Tail(blocks) ELSE Others(token)
  <2>1. named \in [Stages -> TextureKeys \cup {None}]
    <3>1. ASSUME NEW g \in Stages, r.stageTexture[g] # None
          PROVE  r.textures[r.stageTexture[g]].key \in TextureKeys
      <4>1. r.stageTexture[g] \in Slots /\ r.textures[r.stageTexture[g]] # Empty
        BY <1>0, <3>1 DEF State, Linked
      <4> QED
        BY <1>0, <4>1, TextureFound
    <3> QED
      BY <3>1
  <2>2. block \in Block
    <3>1. r.overrideKey \in [Stages -> TargetKeys \cup {None}] /\ r.lastConfig \in Configs \cup {None}
      BY <1>0 DEF State
    <3> QED
      BY <2>1, <3>1 DEF Block
  <2>3. kept \in Seq(Block)
    <3>1. CASE Index(token) = {} /\ Len(blocks) = MaxStateBlocks
      <4>1. blocks # <<>>
        BY <1>0, <3>1, Numbers
      <4>2. Tail(blocks) \in Seq(Block)
        <5> HIDE DEF Block
        <5> QED
          BY <1>0, <4>1
      <4> QED
        BY <3>1, <4>2
    <3>2. CASE ~(Index(token) = {} /\ Len(blocks) = MaxStateBlocks)
      BY <1>0, <3>2, BlocksKept
    <3> QED
      BY <3>1, <3>2
  <2>4. UNCHANGED <<r, ideal, bound, aimed>> /\ blocks' = Append(kept, block)
    BY <1>2 DEF StateBlockCapture
  <2>5. Append(kept, block) \in Seq(Block)
    <3> HIDE DEF kept, block, Block
    <3> QED
      BY <2>2, <2>3
  <2> QED
    BY <2>4, <2>5, SameRenderer
<1> QED
  BY <1>1, <1>2

(* What is found does not depend on what is bound. *)
LEMMA SameFinds ==
    ASSUME NEW s, NEW t, SameBatch(s, t)
    PROVE  \A key : /\ Find(t, key) = Find(s, key) /\ FindTarget(t, key) = FindTarget(s, key)
                    /\ TargetImage(t, key) = TargetImage(s, key)
<1>1. \A key : Find(t, key) = Find(s, key) /\ FindTarget(t, key) = FindTarget(s, key)
  BY DEF SameBatch, SameImages, Find, FindTarget
<1>2. ASSUME NEW key PROVE TargetImage(t, key) = TargetImage(s, key)
  <2>1. FindTarget(t, key) = FindTarget(s, key) /\ t.targets = s.targets
    BY <1>1 DEF SameBatch
  <2> QED
    BY <2>1, Zenon DEF TargetImage
<1> QED
  BY <1>1, <1>2

(* One stage of a block applied. *)
LEMMA Restores ==
    ASSUME r \in State, Linked(r), NEW block \in Block, NEW s, s \in State, Linked(s), SameBatch(r, s),
           NEW stage \in Stages
    PROVE  LET t == Restored(s, stage, block)
           IN  /\ t \in State /\ Linked(t) /\ SameBatch(r, t)
               /\ Sampled(t, stage) = RestoredKind(stage, block)
               /\ \A g \in Stages \ {stage} : Sampled(t, g) = Sampled(s, g)
<1> DEFINE t == Restored(s, stage, block)
           bare == Bind(s, stage, None)
           target == block.targets[stage]
           key == block.textures[stage]
<1>0. target \in TargetKeys \cup {None} /\ key \in TextureKeys \cup {None}
  BY DEF Block
<1>1. /\ bare \in State /\ Linked(bare) /\ SameBatch(s, bare) /\ Sampled(bare, stage) = Nothing
      /\ bare.stageTexture[stage] = None /\ bare.textures = s.textures
      /\ \A g \in Stages \ {stage} : Sampled(bare, g) = Sampled(s, g)
  BY Binds
<1>2. /\ Find(s, key) = Find(r, key) /\ FindTarget(s, target) = FindTarget(r, target)
      /\ TargetImage(s, target) = TargetImage(r, target)
  BY SameFinds
<1> HIDE DEF bare
<1>3. SameBatch(r, bare)
  BY <1>1, BatchesCompose
<1>4. CASE target # None /\ FindTarget(r, target) # {}
  <2>1. PICK i \in FindTarget(s, target) : TRUE
    BY <1>2, <1>4
  <2>2. i \in 1..Len(s.targets) /\ s.targets[i].key = target
    BY <1>0, <1>4, <2>1, Founds
  <2>3. TargetImage(s, target) = s.targets[i].image
    BY <2>2, TargetFound
  <2>4. bare.targets = s.targets
    BY <1>1 DEF SameBatch
  <2> DEFINE u == Overridden(bare, stage, i)
  <2>5. t = u
    <3>1. t = [bare EXCEPT !.overrideView[stage] = TargetImage(s, target),
                           !.overrideKey[stage] = target]
      BY <1>2, <1>4 DEF Restored, bare
    <3>2. bare.stageTexture = [bare.stageTexture EXCEPT ![stage] = None]
      BY <1>1 DEF State
    <3>3. bare = [bare EXCEPT !.stageTexture = bare.stageTexture]
      BY <1>1 DEF State
    <3> HIDE DEF target, t
    <3> QED
      BY <1>1, <2>2, <2>3, <2>4, <3>1, <3>2, <3>3 DEF Overridden, State
  <2>6. /\ u \in State /\ Linked(u) /\ SameBatch(bare, u)
        /\ Sampled(u, stage) = Target(target)
        /\ \A g \in Stages \ {stage} : Sampled(u, g) = Sampled(bare, g)
    BY <1>1, <2>2, <2>4, Overrides
  <2>7. RestoredKind(stage, block) = Target(target)
    BY <1>4 DEF RestoredKind
  <2> HIDE DEF t, u, target
  <2>8. SameBatch(r, u)
    BY <1>3, <2>6, BatchesCompose
  <2> QED
    BY <1>1, <2>5, <2>6, <2>7, <2>8 DEF t
<1>5. CASE target = None /\ key # None /\ Find(r, key) # {}
  <2> DEFINE slot == CHOOSE x \in Find(s, key) : TRUE
             u == Bind(bare, stage, slot)
             v == Touch(u, slot)
  <2>1. slot \in Find(s, key)
    BY <1>2, <1>5
  <2>2. slot \in Slots /\ s.textures[slot] # Empty /\ s.textures[slot].key = key /\ slot # None
    BY <1>0, <1>5, <2>1, Founds, Numbers
  <2>3. t = v
    BY <1>2, <1>5 DEF Restored, bare
  <2> HIDE DEF slot, t
  <2>4. /\ u \in State /\ Linked(u) /\ SameBatch(bare, u) /\ u.textures = bare.textures
        /\ Sampled(u, stage) = Texture(key)
        /\ \A g \in Stages \ {stage} : Sampled(u, g) = Sampled(bare, g)
    <3>1. bare.textures[slot] # Empty /\ bare.textures[slot].key = key
      BY <1>1, <2>2
    <3> HIDE DEF key
    <3> QED
      BY <1>1, <2>2, <3>1, Binds
  <2> HIDE DEF u
  <2>5. /\ v \in State /\ SameBatch(u, v) /\ Linked(v)
        /\ \A g \in Stages : Sampled(v, g) = Sampled(u, g)
    BY <1>1, <2>2, <2>4, Touches
  <2> HIDE DEF v
  <2>6. SameBatch(r, v)
    <3>1. SameBatch(r, u)
      BY <1>3, <2>4, BatchesCompose
    <3> QED
      BY <2>5, <3>1, BatchesCompose
  <2>7. RestoredKind(stage, block) = Texture(key)
    BY <1>5 DEF RestoredKind
  <2> HIDE DEF key
  <2> QED
    BY <1>1, <2>3, <2>4, <2>5, <2>6, <2>7 DEF t
<1>6. CASE /\ ~(target # None /\ FindTarget(r, target) # {})
           /\ ~(target = None /\ key # None /\ Find(r, key) # {})
  <2>1. t = bare
    BY <1>2, <1>6 DEF Restored, bare
  <2>2. RestoredKind(stage, block) = Nothing
    BY <1>6 DEF RestoredKind
  <2> QED
    BY <1>1, <1>3, <2>1, <2>2
<1> QED
  BY <1>4, <1>5, <1>6

LEMMA Applying ==
    ASSUME IInv, NEW token \in Tokens, StateBlockApply(token)
    PROVE  IInv'
<1>0. blocks \in Seq(Block) /\ r \in State /\ Linked(r) /\ StageCount \in Nat
  BY Numbers DEF IInv, Sound
<1>1. PICK i \in Index(token) :
         LET restored[n \in 0..StageCount] ==
                IF n = 0 THEN r ELSE Restored(restored[n - 1], n - 1, blocks[i])
             s == restored[StageCount]
         IN  /\ r' = [s EXCEPT !.lastConfig = blocks[i].config, !.combinerDirty = TRUE]
             /\ bound' = [g \in Stages |-> RestoredKind(g, blocks[i])]
             /\ blocks' = Append(Others(token), blocks[i])
             /\ UNCHANGED <<ideal, aimed>>
  BY DEF StateBlockApply
<1> DEFINE block == blocks[i]
           Good(f, k) == f = [n \in 0..k |-> IF n = 0 THEN r ELSE Restored(f[n - 1], n - 1, block)]
           J == {k \in 0..StageCount : \E f : Good(f, k)}
           restored == CHOOSE f : Good(f, StageCount)
           s == restored[StageCount]
<1>2. block \in Block /\ Others(token) \in Seq(Block)
  BY <1>0, BlocksKept
<1>3. /\ r' = [s EXCEPT !.lastConfig = block.config, !.combinerDirty = TRUE]
      /\ bound' = [g \in Stages |-> RestoredKind(g, block)]
      /\ blocks' = Append(Others(token), block)
      /\ UNCHANGED <<ideal, aimed>>
  BY <1>1
<1> HIDE DEF block
<1>4. 0 \in J
  <2> DEFINE f == [n \in 0..0 |-> r]
  <2>1. Good(f, 0) /\ 0 \in 0..StageCount
    BY <1>0
  <2> QED
    BY <2>1
<1>5. ASSUME NEW k \in 1..StageCount, k - 1 \in J PROVE k \in J
  <2>1. PICK f : Good(f, k - 1)
    BY <1>5
  <2> DEFINE last == Restored(f[k - 1], k - 1, block)
             g == [n \in 0..k |-> IF n = k THEN last ELSE f[n]]
  <2>2. ASSUME NEW n \in 0..k
        PROVE  g[n] = IF n = 0 THEN r ELSE Restored(g[n - 1], n - 1, block)
    <3>1. CASE n = k
      <4>1. g[n] = last /\ g[n - 1] = f[n - 1] /\ n # 0
        <5> HIDE DEF last
        <5> QED
          BY <3>1
      <4> HIDE DEF g
      <4> QED
        BY <3>1, <4>1
    <3>2. CASE n # k
      <4>1. n \in 0..(k - 1)
        BY <3>2
      <4>2. g[n] = f[n] /\ (n # 0 => g[n - 1] = f[n - 1])
        <5> HIDE DEF last
        <5> QED
          BY <3>2, <4>1
      <4>3. f[n] = IF n = 0 THEN r ELSE Restored(f[n - 1], n - 1, block)
        BY <4>1, <2>1, Zenon
      <4> HIDE DEF g
      <4> QED
        BY <4>2, <4>3
    <3> QED
      BY <3>1, <3>2
  <2>3. g = [n \in 0..k |-> g[n]]
    <3> HIDE DEF last
    <3> QED
      OBVIOUS
  <2>4. Good(g, k)
    <3> HIDE DEF g
    <3> QED
      BY <2>2, <2>3
  <2>5. k \in 0..StageCount
    BY <1>0
  <2> HIDE DEF g, Good
  <2> QED
    BY <2>4, <2>5
<1>6. StageCount \in J
  <2> HIDE DEF J
  <2>1. 0..StageCount \subseteq J
    BY <1>0, <1>4, <1>5, UpTo
  <2> QED
    BY <1>0, <2>1
<1>7. Good(restored, StageCount)
  <2>1. \E f : Good(f, StageCount)
    BY <1>6
  <2> HIDE DEF Good
  <2> QED
    BY <2>1
<1> HIDE DEF restored
<1>8. /\ restored[0] = r
      /\ \A n \in 1..StageCount : restored[n] = Restored(restored[n - 1], n - 1, block)
  <2>1. restored[0] = r
    <3>1. 0 \in 0..StageCount
      BY <1>0
    <3> QED
      BY <1>7, <3>1, Zenon
  <2>2. ASSUME NEW n \in 1..StageCount PROVE restored[n] = Restored(restored[n - 1], n - 1, block)
    <3>1. n \in 0..StageCount /\ n # 0
      BY <1>0
    <3> QED
      BY <1>7, <3>1, Zenon
  <2> QED
    BY <2>1, <2>2
<1> HIDE DEF Good, J
<1> DEFINE K == {n \in 0..StageCount :
                    /\ restored[n] \in State /\ Linked(restored[n]) /\ SameBatch(r, restored[n])
                    /\ \A g \in Stages : g < n => Sampled(restored[n], g) = RestoredKind(g, block)}
<1>9. 0 \in K
  <2>1. SameBatch(r, r)
    BY DEF SameBatch, SameImages
  <2>2. \A g \in Stages : ~(g < 0)
    BY DEF Stages
  <2> QED
    BY <1>0, <1>8, <2>1, <2>2
<1>10. ASSUME NEW n \in 1..StageCount, n - 1 \in K PROVE n \in K
  <2> DEFINE u == restored[n - 1]
             t == restored[n]
  <2>1. /\ u \in State /\ Linked(u) /\ SameBatch(r, u)
        /\ \A g \in Stages : g < n - 1 => Sampled(u, g) = RestoredKind(g, block)
    BY <1>10
  <2>2. t = Restored(u, n - 1, block) /\ n - 1 \in Stages
    BY <1>0, <1>8 DEF Stages
  <2> HIDE DEF u, t
  <2>3. /\ t \in State /\ Linked(t) /\ SameBatch(r, t)
        /\ Sampled(t, n - 1) = RestoredKind(n - 1, block)
        /\ \A g \in Stages \ {n - 1} : Sampled(t, g) = Sampled(u, g)
    BY <1>0, <1>2, <2>1, <2>2, Restores
  <2>4. \A g \in Stages : g < n => g = n - 1 \/ (g < n - 1 /\ g \in Stages \ {n - 1})
    BY DEF Stages
  <2>5. \A g \in Stages : g < n => Sampled(t, g) = RestoredKind(g, block)
    BY <2>1, <2>3, <2>4
  <2>6. n \in 0..StageCount
    BY <1>0
  <2> QED
    BY <2>3, <2>5, <2>6 DEF t
<1>11. StageCount \in K
  <2> HIDE DEF K
  <2>1. 0..StageCount \subseteq K
    BY <1>0, <1>9, <1>10, UpTo
  <2> QED
    BY <1>0, <2>1
<1>12. \A g \in Stages : g < StageCount
  BY <1>0 DEF Stages
<1>13. /\ s \in State /\ Linked(s) /\ SameBatch(r, s)
       /\ \A g \in Stages : Sampled(s, g) = RestoredKind(g, block)
  BY <1>11, <1>12
<1> HIDE DEF s, K
<1> DEFINE t == [s EXCEPT !.lastConfig = block.config, !.combinerDirty = TRUE]
<1>14. block.config \in Configs \cup {None}
  BY <1>2 DEF Block
<1>15. t \in State
  BY <1>13, <1>14 DEF State
<1>16. /\ SameBatch(s, t) /\ t.targets = s.targets /\ t.current = s.current
       /\ t.textures = s.textures /\ t.stageTexture = s.stageTexture
       /\ t.overrideView = s.overrideView /\ t.overrideKey = s.overrideKey
  BY <1>13 DEF State, SameBatch, SameImages
<1>17. r' = t
  BY <1>3
<1> HIDE DEF t
<1>18. Linked(t) /\ \A g : Sampled(t, g) = Sampled(s, g)
  BY <1>13, <1>16 DEF Linked, Sampled
<1>19. SameBatch(r, t)
  BY <1>13, <1>16, BatchesCompose
<1>20. bound' = [g \in Stages |-> Sampled(t, g)]
  BY <1>3, <1>13, <1>18
<1>21. blocks' \in Seq(Block)
  <2> HIDE DEF Block
  <2> QED
    BY <1>2, <1>3
<1> QED
  BY <1>3, <1>15, <1>17, <1>18, <1>19, <1>20, <1>21, Rebound

-----------------------------------------------------------------------------
(* Clears and the current target *)

LEMMA OverOver ==
    ASSUME NEW p \in Paints, NEW q \in Pending, NEW z \in Pending
    PROVE  Over(q, z) \in Pending /\ Over(p, Over(q, z)) = Over(Over(p, q), z)
<1>1. /\ p.color \in Contents /\ p.depth \in Contents
      /\ q.color \in ClearValues \cup {None} /\ q.depth \in ClearValues \cup {None}
      /\ z.color \in ClearValues \cup {None} /\ z.depth \in ClearValues \cup {None}
  BY DEF Paints, Pending, Aspects
<1>2. Over(q, z) \in Pending
  BY <1>1 DEF Over, Pending, Aspects
<1>3. Over(p, Over(q, z)) = Over(Over(p, q), z)
  BY <1>1 DEF Over
<1> QED
  BY <1>2, <1>3

LEMMA Clearances ==
    ASSUME NEW aspects, NEW value \in ClearValues
    PROVE  Clears(aspects, value) \in Pending
  BY DEF Clears, Pending, Aspects

LEMMA ClearsTarget ==
    ASSUME IInv, NEW aspects \in ClearFlags, NEW value \in ClearValues, Clear(aspects, value)
    PROVE  IInv'
<1> DEFINE o == OpenFrame(r)
           s == CloseRendering(o)
           clears == Clears(aspects, value)
           q == Over(s.pending, clears)
           t == [s EXCEPT !.pending = q]
           i == CurrentImage(s)
           new == [ideal EXCEPT ![i] = Over(ideal[i], clears)]
<1>1. Sound(o, ideal) /\ SameLinks(r, o) /\ o.frameOpen
  BY Opens DEF IInv
<1> HIDE DEF o
<1>2. Sound(s, ideal) /\ SameLinks(o, s) /\ s.frameOpen /\ ~s.renderingActive
  BY <1>1, Closes
<1>3. /\ r' = t /\ UNCHANGED <<blocks, bound, aimed>>
      /\ ideal' = [ideal EXCEPT ![AimedImage] = Over(@, clears)]
  BY DEF Clear, s, o
<1> HIDE DEF s
<1>4. SameLinks(r, s)
  BY <1>1, <1>2, LinksCompose
<1>5. /\ s \in State /\ Linked(s) /\ Tracked(s, Run(s)) /\ ideal \in Painting /\ Matches(s, ideal)
      /\ \A j \in 1..Len(s.commands) : Safe(s, s.commands[j])
  BY <1>2 DEF Sound, Recorded
<1>6. clears \in Pending
  BY Clearances
<1> HIDE DEF clears
<1>7. s.pending \in Pending
  BY <1>5 DEF State
<1>8. q \in Pending
  <2>1. Blank \in Paints
    BY Colours
  <2> QED
    BY <1>6, <1>7, <2>1, OverOver
<1>9. i = AimedImage /\ i \in Surfaces /\ i \in LiveIn(s) /\ LiveIn(s) \subseteq Surfaces
  BY <1>4, <1>5, Aiming, LinksKept, Live
<1>10. ideal[i] \in Paints /\ Over(ideal[i], clears) \in Paints
  <2>1. ideal[i] \in Paints
    BY <1>5, <1>9 DEF Painting
  <2> QED
    BY <1>6, <2>1, Overs
<1>11. ideal' = new /\ new \in Painting
  <2>1. ideal' = new
    BY <1>3, <1>5, <1>9
  <2>2. new \in Painting
    BY <1>5, <1>10 DEF Painting
  <2> QED
    BY <2>1, <2>2
<1> HIDE DEF t, q
<1>12. t \in State
  BY <1>5, <1>8 DEF State, t
<1>13. SameLinks(s, t) /\ SameStore(s, t)
  BY <1>5 DEF State, SameLinks, SameStore, t
<1>14. /\ t.pending = q /\ t.frameOpen /\ ~t.renderingActive /\ t.commands = s.commands
       /\ t.gpuWroteTarget = s.gpuWroteTarget
  BY <1>2, <1>5 DEF State, t
<1>15. Linked(t) /\ LiveIn(t) = LiveIn(s) /\ CurrentImage(t) = i
  BY <1>5, <1>13, LinksKept
<1>16. Run(t) = Run(s)
  <2>1. Len(s.commands) \in Nat
    BY <1>5 DEF State
  <2>2. t.contents = s.contents /\ t.staging = s.staging /\ t.combiner = s.combiner
    BY <1>13 DEF SameStore
  <2> QED
    BY <1>14, <2>1, <2>2, RunReads
<1>17. Tracked(t, Run(t))
  BY <1>2, <1>5, <1>13, <1>14, <1>15, <1>16 DEF Tracked, SameLinks, SameStore
<1>18. \A j \in 1..Len(t.commands) : Safe(t, t.commands[j])
  BY <1>5, <1>13, <1>14, SafeKept
<1> HIDE DEF i
<1>19. Matches(t, new)
  <2> DEFINE g == Run(s)
  <2>1. g.contents \in Painting /\ g.contents[i] \in Paints
    BY <1>5, <1>9 DEF Tracked, Gpu, Painting
  <2> HIDE DEF g
  <2>2. ideal[i] = Over(g.contents[i], s.pending)
    BY <1>5, <1>9, <2>1 DEF Matches, Settled, Painting, g, i
  <2>3. Over(g.contents[i], q) = Over(ideal[i], clears)
    BY <1>6, <1>7, <2>1, <2>2, OverOver DEF q
  <2>4. ASSUME NEW j \in LiveIn(t) PROVE new[j] = Settled(t, g)[j]
    <3>1. j \in Surfaces /\ j \in LiveIn(s)
      BY <1>9, <1>15
    <3>2. CASE j = i
      <4>1. new[j] = Over(ideal[i], clears)
        BY <1>5, <1>9, <3>2 DEF Painting
      <4>2. Settled(t, g)[j] = Over(g.contents[i], q)
        BY <1>9, <1>14, <1>15, <2>1, <3>2 DEF Settled, Painting
      <4> QED
        BY <2>3, <4>1, <4>2
    <3>3. CASE j # i
      <4>1. new[j] = ideal[j]
        BY <1>5, <3>1, <3>3 DEF Painting
      <4>2. Settled(t, g)[j] = g.contents[j]
        BY <1>15, <2>1, <3>1, <3>3 DEF Settled, Painting
      <4>3. ideal[j] = g.contents[j]
        BY <1>5, <2>1, <3>1, <3>3 DEF Matches, Settled, Painting, g, i
      <4> QED
        BY <4>1, <4>2, <4>3
    <3> QED
      BY <3>2, <3>3
  <2> QED
    BY <1>16, <2>4 DEF Matches, g
<1>20. Sound(t, new)
  BY <1>11, <1>12, <1>15, <1>17, <1>18, <1>19 DEF Sound, Recorded
<1>21. SameLinks(r, t)
  BY <1>4, <1>13, LinksCompose
<1>22. Unused(t)
  BY <1>14 DEF Unused
<1> HIDE DEF new
<1> QED
  BY <1>3, <1>11, <1>20, <1>21, <1>22, SameBindings

(* With nothing waiting and no pass open, the next draws may go elsewhere. *)
LEMMA Retargets ==
    ASSUME NEW s, NEW want, Sound(s, want), s.pending = Blank, ~s.renderingActive,
           NEW i \in 0..Len(s.targets)
    PROVE  LET t == [s EXCEPT !.current = i]
           IN  /\ Sound(t, want) /\ t.current = i
               /\ Unused(s) => Unused(t)
               /\ t.targets = s.targets
               /\ \A g : Sampled(t, g) = Sampled(s, g)
<1> DEFINE t == [s EXCEPT !.current = i]
<1>1. /\ s \in State /\ Linked(s) /\ Tracked(s, Run(s)) /\ want \in Painting /\ Matches(s, want)
      /\ \A j \in 1..Len(s.commands) : Safe(s, s.commands[j])
  BY DEF Sound, Recorded
<1>2. i \in Nat
  BY <1>1 DEF State
<1>3. t \in State
  BY <1>1, <1>2 DEF State
<1>4. /\ t.current = i /\ t.targets = s.targets /\ t.textures = s.textures
      /\ t.stageTexture = s.stageTexture /\ t.overrideView = s.overrideView
      /\ t.overrideKey = s.overrideKey /\ SameStore(s, t) /\ t.commands = s.commands
      /\ t.frameOpen = s.frameOpen /\ t.renderingActive = s.renderingActive
      /\ t.gpuWroteTarget = s.gpuWroteTarget /\ t.pending = s.pending /\ t.lastConfig = s.lastConfig
  BY <1>1 DEF State, SameStore
<1> HIDE DEF t
<1>5. Linked(t) /\ LiveIn(t) = LiveIn(s)
  BY <1>1, <1>4 DEF Linked, LiveIn
<1>6. \A g : Sampled(t, g) = Sampled(s, g)
  BY <1>4 DEF Sampled
<1>7. Run(t) = Run(s)
  <2>1. Len(s.commands) \in Nat
    BY <1>1 DEF State
  <2>2. t.contents = s.contents /\ t.staging = s.staging /\ t.combiner = s.combiner
    BY <1>4 DEF SameStore
  <2> QED
    BY <1>4, <2>1, <2>2, RunReads
<1>8. Tracked(t, Run(t))
  BY <1>1, <1>4, <1>5, <1>7 DEF Tracked, SameStore
<1>9. \A j \in 1..Len(t.commands) : Safe(t, t.commands[j])
  BY <1>1, <1>4, <1>5 DEF Safe, Within, SameStore
<1>10. Matches(t, want)
  <2> DEFINE c == Run(s).contents
  <2>1. c \in Painting
    BY <1>1 DEF Tracked, Gpu
  <2>2. CurrentImage(s) \in Surfaces /\ CurrentImage(t) \in Surfaces
    BY <1>1, <1>3, <1>5, Live
  <2> HIDE DEF c
  <2>3. c[CurrentImage(s)] \in Paints /\ c[CurrentImage(t)] \in Paints
    BY <2>1, <2>2 DEF Painting
  <2>4. /\ Over(c[CurrentImage(s)], Blank) = c[CurrentImage(s)]
        /\ Over(c[CurrentImage(t)], Blank) = c[CurrentImage(t)]
    BY <2>3, Colours, Overs
  <2>5. Settled(s, Run(s)) = c /\ Settled(t, Run(s)) = c
    BY <1>4, <2>1, <2>2, <2>4 DEF Settled, Painting, c
  <2> QED
    BY <1>1, <1>5, <1>7, <2>5 DEF Matches
<1>11. Unused(s) => Unused(t)
  BY <1>4 DEF Unused, SameStore
<1> QED
  BY <1>1, <1>3, <1>4, <1>5, <1>6, <1>8, <1>9, <1>10, <1>11 DEF Sound, Recorded, t

LEMMA UnusedKept ==
    ASSUME NEW s, NEW t, SameStore(s, t), t.frameOpen = s.frameOpen, Unused(s)
    PROVE  Unused(t)
  BY DEF Unused, SameStore

LEMMA ToMain == ASSUME IInv, SetMainTarget PROVE IInv'
<1> DEFINE f == FlushPendingClears(r)
           s == CloseRendering(f)
           t == [s EXCEPT !.current = 0]
<1>1. Sound(f, ideal) /\ SameLinks(r, f) /\ SameStore(r, f) /\ f.frameOpen = r.frameOpen
      /\ f.pending = Blank
  BY Flushes DEF IInv
<1> HIDE DEF f
<1>2. Sound(s, ideal) /\ SameLinks(f, s) /\ SameStore(f, s) /\ s.frameOpen = f.frameOpen
      /\ s.pending = f.pending /\ ~s.renderingActive
  BY <1>1, Closes
<1>3. r' = t /\ aimed' = Main /\ UNCHANGED <<blocks, ideal, bound>>
  BY DEF SetMainTarget, s, f
<1> HIDE DEF s
<1>4. 0 \in 0..Len(s.targets)
  <2>1. Len(s.targets) \in Nat
    BY <1>2 DEF Sound, State
  <2> QED
    BY <2>1
<1>5. Unused(s)
  BY <1>1, <1>2, UnusedKept DEF IInv
<1>6. /\ Sound(t, ideal) /\ t.current = 0 /\ Unused(t) /\ \A g : Sampled(t, g) = Sampled(s, g)
  BY <1>1, <1>2, <1>4, <1>5, Retargets
<1> HIDE DEF t
<1>7. \A g : Sampled(s, g) = Sampled(r, g)
  <2>1. SameLinks(r, s)
    BY <1>1, <1>2, LinksCompose
  <2> QED
    BY <2>1, LinksKept
<1>8. bound' = [g \in Stages |-> Sampled(t, g)] /\ blocks' \in Seq(Block)
  BY <1>3, <1>6, <1>7 DEF IInv
<1> QED
  BY <1>3, <1>6, <1>8 DEF IInv

-----------------------------------------------------------------------------
(* Images that come and go *)

(* There is always an image to make: the caches cannot name them all. *)
LEMMA ImagesLeft ==
    ASSUME NEW s, s \in State, Linked(s)
    PROVE  Images \ LiveIn(s) # {}
<1> DEFINE Ids == 1..Len(s.targets)
           A == {s.targets[i].image : i \in Ids}
           T == {t \in Slots : s.textures[t] # Empty}
           B == {s.textures[t].image : t \in T}
<1>1. /\ Len(s.targets) \in Nat /\ Len(s.targets) <= MaxTargets /\ DOMAIN s.targets = Ids
      /\ MaxTextures \in Nat /\ MaxTargets \in Nat
  BY Numbers DEF State, Linked
<1>2. Images \cap LiveIn(s) \subseteq A \cup B
  BY <1>1, Numbers DEF LiveIn
<1>3. IsFiniteSet(Ids) /\ Cardinality(Ids) = Len(s.targets)
  <2>1. 1 \in Int /\ Len(s.targets) \in Int /\ Len(s.targets) - 1 + 1 = Len(s.targets)
    BY <1>1
  <2>2. CASE Len(s.targets) = 0
    <3>1. Ids = {}
      BY <2>2
    <3> QED
      BY <2>2, <3>1, FS_EmptySet
  <2>3. CASE Len(s.targets) # 0
    <3>1. ~(1 > Len(s.targets))
      BY <1>1, <2>3
    <3> QED
      BY <2>1, <3>1, FS_Interval
  <2> QED
    BY <2>2, <2>3
<1>4. IsFiniteSet(Slots) /\ Cardinality(Slots) = MaxTextures
  <2>1. 1 \in Int /\ MaxTextures \in Int /\ ~(1 > MaxTextures) /\ MaxTextures - 1 + 1 = MaxTextures
    BY Numbers
  <2> QED
    BY <2>1, FS_Interval DEF Slots
<1>5. IsFiniteSet(Images) /\ Cardinality(Images) = MaxTextures + MaxTargets + 2
  <2> DEFINE n == MaxTextures + MaxTargets + 2
  <2>1. 1 \in Int /\ n \in Int /\ ~(1 > n) /\ n - 1 + 1 = n
    BY <1>1
  <2> HIDE DEF n
  <2>2. IsFiniteSet(1..n) /\ Cardinality(1..n) = n
    BY <2>1, FS_Interval
  <2> QED
    BY <2>2 DEF Images, n
<1>6. IsFiniteSet(A) /\ Cardinality(A) \in Nat /\ Cardinality(A) <= MaxTargets
  <2> DEFINE f == [i \in Ids |-> s.targets[i].image]
  <2>1. f \in Surjection(Ids, A)
    BY DEF Surjection
  <2>2. IsFiniteSet(A) /\ Cardinality(A) <= Cardinality(Ids)
    <3> HIDE DEF f, A, Ids
    <3> QED
      BY <1>3, <2>1, FS_Surjection
  <2>3. Cardinality(A) \in Nat
    <3> HIDE DEF A
    <3> QED
      BY <2>2, FS_CardinalityType
  <2> HIDE DEF A, Ids
  <2> QED
    BY <1>1, <1>3, <2>2, <2>3
<1>7. IsFiniteSet(B) /\ Cardinality(B) \in Nat /\ Cardinality(B) <= MaxTextures
  <2> DEFINE f == [t \in T |-> s.textures[t].image]
  <2>1. f \in Surjection(T, B)
    BY DEF Surjection
  <2>2. IsFiniteSet(T) /\ Cardinality(T) <= Cardinality(Slots) /\ Cardinality(T) \in Nat
    <3>1. T \subseteq Slots
      OBVIOUS
    <3> HIDE DEF T
    <3> QED
      BY <1>4, <3>1, FS_Subset, FS_CardinalityType
  <2>3. IsFiniteSet(B) /\ Cardinality(B) <= Cardinality(T)
    <3> HIDE DEF f, B, T
    <3> QED
      BY <2>1, <2>2, FS_Surjection
  <2>4. Cardinality(B) \in Nat
    <3> HIDE DEF B
    <3> QED
      BY <2>3, FS_CardinalityType
  <2> HIDE DEF B, T
  <2> QED
    BY <1>1, <1>4, <2>2, <2>3, <2>4
<1> SUFFICES ASSUME Images \ LiveIn(s) = {} PROVE FALSE
  OBVIOUS
<1>8. Images \subseteq A \cup B
  BY <1>2
<1> HIDE DEF A, B, T, Ids
<1>9. /\ IsFiniteSet(A \cup B) /\ Cardinality(A \cup B) \in Nat
      /\ Cardinality(A \cup B) <= Cardinality(A) + Cardinality(B)
  <2>1. IsFiniteSet(A \cup B) /\ IsFiniteSet(A \cap B)
    BY <1>6, <1>7, FS_Union, FS_Intersection
  <2>2. Cardinality(A \cup B) = Cardinality(A) + Cardinality(B) - Cardinality(A \cap B)
    BY <1>6, <1>7, FS_Union
  <2>3. Cardinality(A \cup B) \in Nat /\ Cardinality(A \cap B) \in Nat
    BY <2>1, FS_CardinalityType
  <2> QED
    BY <1>6, <1>7, <2>1, <2>2, <2>3
<1>10. Cardinality(Images) <= Cardinality(A \cup B)
  BY <1>8, <1>9, FS_Subset
<1> QED
  BY <1>1, <1>5, <1>6, <1>7, <1>9, <1>10

LEMMA NewImages ==
    ASSUME NEW s, NEW want, Sound(s, want)
    PROVE  /\ NewImage(s) \in Images /\ NewImage(s) \notin LiveIn(s)
           /\ Referenced(s) \subseteq LiveIn(s)
<1> DEFINE S == Images \ (LiveIn(s) \cup Referenced(s))
<1>1. s \in State /\ Linked(s) /\ \A i \in 1..Len(s.commands) : Safe(s, s.commands[i])
  BY DEF Sound, Recorded
<1>2. Referenced(s) \subseteq LiveIn(s)
  <2>1. DOMAIN s.commands = 1..Len(s.commands)
    BY <1>1 DEF State
  <2> QED
    BY <1>1, <2>1 DEF Referenced, Safe
<1>3. S # {} /\ S \subseteq Nat
  <2>1. S = Images \ LiveIn(s)
    BY <1>2
  <2> QED
    BY <1>1, <2>1, ImagesLeft, Numbers
<1> HIDE DEF S
<1>4. PICK x \in S : \A y \in S : ~(<<y, x>> \in OpToRel(<, Nat))
  BY <1>3, NatLessThanWellFounded, WFMin, Zenon
<1>5. \A y \in S : x <= y
  <2>1. \A y \in S : ~(y < x)
    BY <1>3, <1>4 DEF OpToRel
  <2>2. x \in Nat /\ \A y \in S : y \in Nat
    BY <1>3, <1>4
  <2> QED
    BY <2>1, <2>2
<1>6. NewImage(s) \in S
  <2>1. NewImage(s) = CHOOSE i \in S : \A j \in S : i <= j
    BY DEF NewImage, S
  <2> QED
    BY <1>5, <2>1
<1> QED
  BY <1>2, <1>6 DEF S

(* What a dead image should hold does not matter. *)
LEMMA OtherIdeal ==
    ASSUME NEW s, NEW want, NEW new, Sound(s, want), new \in Painting,
           \A i \in LiveIn(s) : new[i] = want[i]
    PROVE  Sound(s, new)
  BY DEF Sound, Matches

LEMMA SafeInMore ==
    ASSUME NEW s, NEW t, LiveIn(s) \subseteq LiveIn(t), SameStore(s, t), NEW c, Safe(s, c)
    PROVE  Safe(t, c)
  BY DEF Safe, Within, SameStore

Entry(key, image, geometry) ==
    [key |-> key, image |-> image, geometry |-> geometry, lastUse |-> 0]

Entered(s, slot, key, image, geometry) ==
    [s EXCEPT !.textures[slot] = Entry(key, image, geometry)]

(* A texture enters the cache in an empty entry. *)
LEMMA Enters ==
    ASSUME NEW s, NEW want, Sound(s, want), NEW slot \in Slots, s.textures[slot] = Empty,
           NEW key \in TextureKeys, Find(s, key) = {}, NEW geometry \in TextureSizes,
           NEW image \in Images, image \notin LiveIn(s),
           NEW t, t = Entered(s, slot, key, image, geometry)
    PROVE  /\ Sound(t, [want EXCEPT ![image] = Blank])
           /\ t.textures[slot] # Empty /\ t.textures[slot].key = key
           /\ t.textures[slot].image = image /\ t.textures[slot].geometry = geometry
           /\ \A u \in Slots \ {slot} : t.textures[u] = s.textures[u]
           /\ LiveIn(t) = LiveIn(s) \cup {image}
           /\ t.targets = s.targets /\ t.current = s.current /\ SameStages(s, t)
           /\ t.frameOpen = s.frameOpen /\ SameStore(s, t)
<1> DEFINE e == Entry(key, image, geometry)
           q == [s.textures EXCEPT ![slot] = e]
           new == [want EXCEPT ![image] = Blank]
<1>1. /\ s \in State /\ Linked(s) /\ Tracked(s, Run(s)) /\ want \in Painting /\ Matches(s, want)
      /\ \A j \in 1..Len(s.commands) : Safe(s, s.commands[j])
  BY DEF Sound, Recorded
<1>2. /\ e \in TextureEntry /\ e # Empty /\ e.key = key /\ e.image = image
      /\ e.geometry = geometry
  <2>1. e \in TextureEntry /\ e.key = key /\ e.image = image /\ e.geometry = geometry
    BY DEF Entry, TextureEntry
  <2>2. e.key # Empty.key
    BY <2>1, Numbers DEF Empty
  <2> QED
    BY <2>1, <2>2
<1> HIDE DEF e
<1>3. /\ q \in [Slots -> TextureEntry \cup {Empty}] /\ q[slot] = e
      /\ \A u \in Slots \ {slot} : q[u] = s.textures[u]
  <2>1. s.textures \in [Slots -> TextureEntry \cup {Empty}]
    BY <1>1 DEF State
  <2> QED
    BY <1>2, <2>1
<1>4. t = [s EXCEPT !.textures = q]
  BY <1>1 DEF State, Entered, e
<1> HIDE DEF q
<1>5. t \in State
  BY <1>1, <1>3, <1>4 DEF State
<1>6. /\ t.textures = q /\ SameStore(s, t) /\ t.commands = s.commands
      /\ t.targets = s.targets /\ t.current = s.current /\ SameStages(s, t)
      /\ t.frameOpen = s.frameOpen /\ t.renderingActive = s.renderingActive
      /\ t.gpuWroteTarget = s.gpuWroteTarget /\ t.pending = s.pending /\ t.lastConfig = s.lastConfig
  BY <1>1, <1>4 DEF State, SameStore, SameStages
<1>7. /\ \A u \in Slots : s.textures[u] # Empty => s.textures[u].image \in LiveIn(s)
      /\ \A i \in 1..Len(s.targets) : s.targets[i].image \in LiveIn(s)
      /\ LiveIn(s) \subseteq Surfaces /\ CurrentImage(s) \in LiveIn(s) /\ White \in LiveIn(s)
  BY <1>1, Live
<1>8. LiveIn(t) = LiveIn(s) \cup {image}
  <2>1. {t.textures[u].image : u \in {x \in Slots : t.textures[x] # Empty}}
          = {s.textures[u].image : u \in {x \in Slots : s.textures[x] # Empty}} \cup {image}
    <3>1. ASSUME NEW u \in Slots, t.textures[u] # Empty
          PROVE  t.textures[u].image \in
                   {s.textures[x].image : x \in {y \in Slots : s.textures[y] # Empty}} \cup {image}
      <4>1. CASE u = slot
        BY <1>2, <1>3, <1>6, <4>1
      <4>2. CASE u # slot
        <5>1. t.textures[u] = s.textures[u]
          BY <1>3, <1>6, <4>2
        <5> QED
          BY <3>1, <5>1
      <4> QED
        BY <4>1, <4>2
    <3>2. ASSUME NEW u \in Slots, s.textures[u] # Empty
          PROVE  s.textures[u].image \in
                   {t.textures[x].image : x \in {y \in Slots : t.textures[y] # Empty}}
      <4>1. t.textures[u] = s.textures[u]
        BY <1>3, <1>6, <3>2
      <4> QED
        BY <3>2, <4>1
    <3>3. image \in {t.textures[x].image : x \in {y \in Slots : t.textures[y] # Empty}}
      BY <1>2, <1>3, <1>6
    <3> QED
      BY <3>1, <3>2, <3>3
  <2> QED
    BY <1>6, <2>1 DEF LiveIn
<1>9. CurrentImage(t) = CurrentImage(s)
  BY <1>6 DEF CurrentImage
<1>10. Linked(t)
  <2>0. \A u \in Slots : s.textures[u].key # key
    BY DEF Find
  <2>00. image # None
    BY Numbers DEF Surfaces
  <2>1. ASSUME NEW u \in Slots \ {slot}
        PROVE  t.textures[u].key # key /\ t.textures[u].image # image
    <3>1. t.textures[u] = s.textures[u]
      BY <1>3, <1>6
    <3>2. s.textures[u].image # image
      BY <1>7, <2>00 DEF Empty
    <3> QED
      BY <2>0, <3>1, <3>2
  <2>2. ASSUME NEW u \in Slots, NEW v \in Slots, u # v, t.textures[u] # Empty
        PROVE  t.textures[u].key # t.textures[v].key /\ t.textures[u].image # t.textures[v].image
    <3>1. CASE u = slot
      BY <1>2, <1>3, <1>6, <2>1, <2>2, <3>1
    <3>2. CASE v = slot
      BY <1>2, <1>3, <1>6, <2>1, <2>2, <3>2
    <3>3. CASE u # slot /\ v # slot
      <4>1. t.textures[u] = s.textures[u] /\ t.textures[v] = s.textures[v]
        BY <1>3, <1>6, <3>3
      <4> QED
        BY <1>1, <2>2, <4>1 DEF Linked
    <3> QED
      BY <3>1, <3>2, <3>3
  <2>3. ASSUME NEW u \in Slots, NEW i \in 1..Len(s.targets)
        PROVE  t.textures[u].image # s.targets[i].image
    <3>1. CASE u = slot
      BY <1>2, <1>3, <1>6, <1>7, <3>1
    <3>2. CASE u # slot
      BY <1>1, <1>3, <1>6, <3>2 DEF Linked
    <3> QED
      BY <3>1, <3>2
  <2>4. \A g \in Stages : t.stageTexture[g] # None => t.textures[t.stageTexture[g]] # Empty
    <3>1. s.stageTexture \in [Stages -> Slots \cup {None}]
      BY <1>1 DEF State
    <3>2. \A g \in Stages : s.stageTexture[g] # None =>
             /\ s.stageTexture[g] \in Slots \ {slot}
             /\ s.textures[s.stageTexture[g]] # Empty
      BY <1>1, <3>1 DEF Linked
    <3> QED
      BY <1>3, <1>6, <3>2 DEF SameStages
  <2> QED
    BY <1>1, <1>6, <2>2, <2>3, <2>4 DEF Linked, SameStages
<1>11. Run(t) = Run(s)
  <2>1. Len(s.commands) \in Nat
    BY <1>1 DEF State
  <2>2. t.contents = s.contents /\ t.staging = s.staging /\ t.combiner = s.combiner
    BY <1>6 DEF SameStore
  <2> QED
    BY <1>6, <2>1, <2>2, RunReads
<1> DEFINE g == Run(s)
<1>12. /\ g.contents \in Painting /\ g.contents[image] = Blank
       /\ image \in Surfaces /\ image # CurrentImage(s)
  <2>1. image \in Surfaces \ LiveIn(s)
    BY DEF Surfaces
  <2> QED
    BY <1>1, <1>7, <2>1 DEF Tracked, Gpu
<1> HIDE DEF g
<1>13. Tracked(t, g)
  <2>1. ASSUME NEW u \in Slots, t.textures[u] # Empty
        PROVE  g.contents[t.textures[u].image]["depth"] = None
    <3>1. CASE u = slot
      BY <1>2, <1>3, <1>6, <1>12, <3>1, Colours
    <3>2. CASE u # slot
      <4>1. t.textures[u] = s.textures[u]
        BY <1>3, <1>6, <3>2
      <4> QED
        BY <1>1, <2>1, <4>1 DEF Tracked, g
    <3> QED
      BY <3>1, <3>2
  <2>2. \A j \in Surfaces \ LiveIn(t) : g.contents[j] = Blank
    BY <1>1, <1>8 DEF Tracked, g
  <2> QED
    BY <1>1, <1>6, <1>9, <2>1, <2>2 DEF Tracked, SameStore, g
<1>14. \A j \in 1..Len(t.commands) : Safe(t, t.commands[j])
  BY <1>1, <1>6, <1>8, SafeInMore
<1>15. new \in Painting
  BY <1>1, Colours DEF Painting
<1>16. Matches(t, new)
  <2>1. Settled(t, g) = Settled(s, g)
    BY <1>6, <1>9 DEF Settled
  <2>2. Settled(s, g)[image] = Blank
    BY <1>12 DEF Settled, Painting
  <2>3. new[image] = Blank /\ \A j \in LiveIn(s) : new[j] = want[j]
    BY <1>1, <1>7, <1>12 DEF Painting
  <2> QED
    BY <1>1, <1>8, <1>11, <2>1, <2>2, <2>3 DEF Matches, g
<1>17. Sound(t, new)
  BY <1>5, <1>10, <1>11, <1>13, <1>14, <1>15, <1>16 DEF Sound, Recorded, g
<1> QED
  BY <1>2, <1>3, <1>6, <1>8, <1>17

LEMMA Creates ==
    ASSUME NEW s, NEW want, Sound(s, want), NEW slot \in Slots, s.textures[slot] = Empty,
           NEW key \in TextureKeys, Find(s, key) = {}, NEW geometry \in TextureSizes
    PROVE  LET t == CreateTextureEntry(s, slot, key, geometry)
           IN  /\ Sound(t, [want EXCEPT ![NewImage(s)] = Blank])
               /\ Unused(s) => Unused(t)
               /\ t.textures[slot] # Empty /\ t.textures[slot].key = key
               /\ t.textures[slot].image = NewImage(s)
               /\ \A x \in Slots \ {slot} : /\ t.textures[x] = Empty <=> s.textures[x] = Empty
                                            /\ t.textures[x].image = s.textures[x].image
                                            /\ t.textures[x].key = s.textures[x].key
               /\ LiveIn(t) = LiveIn(s) \cup {NewImage(s)}
               /\ t.targets = s.targets /\ t.current = s.current /\ SameStages(s, t)
               /\ \A g \in Stages : Sampled(t, g) = Sampled(s, g)
<1> DEFINE image == NewImage(s)
           u == Entered(s, slot, key, image, geometry)
           t == Touch(u, slot)
           new == [want EXCEPT ![image] = Blank]
<1>1. image \in Images /\ image \notin LiveIn(s)
  BY NewImages
<1>2. CreateTextureEntry(s, slot, key, geometry) = t
  BY DEF CreateTextureEntry, Entered, Entry
<1> HIDE DEF image
<1>3. /\ Sound(u, new)
      /\ u.textures[slot] # Empty /\ u.textures[slot].key = key
      /\ u.textures[slot].image = image
      /\ \A x \in Slots \ {slot} : u.textures[x] = s.textures[x]
      /\ LiveIn(u) = LiveIn(s) \cup {image}
      /\ u.targets = s.targets /\ u.current = s.current /\ SameStages(s, u)
      /\ u.frameOpen = s.frameOpen /\ SameStore(s, u)
  <2>1. u = Entered(s, slot, key, image, geometry)
    OBVIOUS
  <2> HIDE DEF u
  <2> QED
    BY <1>1, <2>1, Enters
<1> HIDE DEF u
<1>4. u \in State /\ Linked(u)
  BY <1>3 DEF Sound
<1>5. /\ t \in State /\ SameBatch(u, t) /\ SameStages(u, t) /\ Linked(t)
      /\ \A g \in Stages : Sampled(t, g) = Sampled(u, g)
  BY <1>3, <1>4, Touches
<1> HIDE DEF t, new
<1>6. Sound(t, new) /\ (Unused(u) => Unused(t))
  BY <1>3, <1>5, Rebinds
<1>7. Unused(s) => Unused(t)
  BY <1>3, <1>6, UnusedKept
<1>8. LiveIn(t) = LiveIn(s) \cup {image}
  BY <1>3, <1>5, BatchKept
<1>9. /\ t.textures[slot] # Empty /\ t.textures[slot].key = key /\ t.textures[slot].image = image
      /\ t.targets = s.targets /\ t.current = s.current /\ SameStages(s, t)
  BY <1>3, <1>5 DEF SameBatch, SameImages, SameStages
<1>10. ASSUME NEW g \in Stages PROVE Sampled(u, g) = Sampled(s, g)
  <2>1. s \in State /\ Linked(s)
    BY DEF Sound
  <2>2. s.stageTexture[g] # None => s.stageTexture[g] \in Slots \ {slot}
    BY <2>1 DEF State, Linked
  <2> QED
    BY <1>3, <2>2 DEF Sampled, SameStages
<1>11. \A x \in Slots \ {slot} : /\ t.textures[x] = Empty <=> s.textures[x] = Empty
                                 /\ t.textures[x].image = s.textures[x].image
                                 /\ t.textures[x].key = s.textures[x].key
  BY <1>3, <1>5 DEF SameBatch, SameImages
<1> QED
  BY <1>2, <1>5, <1>6, <1>7, <1>8, <1>9, <1>10, <1>11 DEF image, new

(* A batch with nothing in it and nothing that waits. *)
Quiet(s) ==
    /\ s.commands = <<>> /\ s.pending = Blank /\ ~s.renderingActive /\ ~s.gpuWroteTarget

(* In such a batch the images already hold what they should. *)
LEMMA Quiets ==
    ASSUME NEW s, NEW want, Sound(s, want), Quiet(s)
    PROVE  /\ \A i \in LiveIn(s) : want[i] = s.contents[i]
           /\ \A i \in Surfaces \ LiveIn(s) : s.contents[i] = Blank
           /\ \A u \in Slots : s.textures[u] # Empty => s.contents[s.textures[u].image]["depth"] = None
           /\ s.contents[White] = Opaque
<1>1. s \in State /\ Linked(s) /\ Tracked(s, Run(s)) /\ Matches(s, want)
  BY DEF Sound, Recorded
<1>2. Run(s) = Unrun(s) /\ Unrun(s).contents = s.contents
  BY RunEmpty DEF Quiet, Unrun
<1>3. Settled(s, Unrun(s)) = s.contents
  <2>1. CurrentImage(s) \in Surfaces /\ s.contents \in Painting
    BY <1>1, Live DEF State
  <2>2. Over(s.contents[CurrentImage(s)], Blank) = s.contents[CurrentImage(s)]
    <3>1. s.contents[CurrentImage(s)] \in Paints
      BY <2>1 DEF Painting
    <3> QED
      BY <3>1, Colours, Overs
  <2> QED
    BY <1>2, <2>1, <2>2 DEF Settled, Painting, Quiet
<1> QED
  BY <1>1, <1>2, <1>3 DEF Matches, Tracked

Removed(s, slot) == DestroyTextureEntry(s, slot, TRUE)

(* A texture leaves the cache, and the stages that sample it. *)
LEMMA Destroys ==
    ASSUME NEW s, NEW want, Sound(s, want), Unused(s), Quiet(s),
           NEW slot \in Slots, s.textures[slot] # Empty,
           NEW t, t = Removed(s, slot)
    PROVE  LET image == s.textures[slot].image
           IN  /\ Sound(t, want) /\ Unused(t) /\ Quiet(t)
               /\ t.textures[slot] = Empty
               /\ \A u \in Slots \ {slot} : /\ t.textures[u] = Empty <=> s.textures[u] = Empty
                                            /\ t.textures[u].image = s.textures[u].image
                                            /\ t.textures[u].key = s.textures[u].key
               /\ LiveIn(t) = LiveIn(s) \ {image}
               /\ t.targets = s.targets /\ t.current = s.current
               /\ t.overrideView = s.overrideView /\ t.overrideKey = s.overrideKey
               /\ \A g \in Stages : t.stageTexture[g] = IF s.stageTexture[g] = slot THEN None
                                                         ELSE s.stageTexture[g]
<1> DEFINE image == s.textures[slot].image
           was == s.textures[slot].lastUse
           Left(u) == CASE u = slot -> Empty
                        [] u # slot /\ s.textures[u].lastUse > was ->
                              [s.textures[u] EXCEPT !.lastUse = s.textures[u].lastUse - 1]
                        [] OTHER -> s.textures[u]
           q == [u \in Slots |-> Left(u)]
           c == [s.contents EXCEPT ![image] = Blank]
           x == [g \in Stages |-> IF s.stageTexture[g] = slot THEN None ELSE s.stageTexture[g]]
<1>1. /\ s \in State /\ Linked(s) /\ Tracked(s, Run(s)) /\ want \in Painting
  BY DEF Sound, Recorded
<1>2. /\ s.textures \in [Slots -> TextureEntry \cup {Empty}] /\ s.contents \in Painting
      /\ s.stageTexture \in [Stages -> Slots \cup {None}]
      /\ s.textures[slot] \in TextureEntry /\ image \in Images /\ image \in Surfaces
  BY <1>1 DEF State, TextureEntry, Surfaces
<1>3. t = [s EXCEPT !.contents = c, !.textures = q, !.stageTexture = x]
  BY <1>1 DEF Removed, DestroyTextureEntry, Bury, State
<1>4. ASSUME NEW u \in Slots \ {slot}
      PROVE  /\ q[u] \in TextureEntry \cup {Empty}
             /\ q[u] = Empty <=> s.textures[u] = Empty
             /\ q[u].image = s.textures[u].image /\ q[u].key = s.textures[u].key
  <2>0. was \in Nat
    BY <1>2 DEF TextureEntry
  <2>1. CASE s.textures[u] = Empty
    <3>1. ~(s.textures[u].lastUse > was)
      BY <2>0, <2>1 DEF Empty
    <3>2. q[u] = s.textures[u]
      BY <3>1
    <3> QED
      BY <2>1, <3>2
  <2>2. CASE s.textures[u] # Empty
    <3>1. s.textures[u] \in TextureEntry /\ s.textures[u].lastUse \in Nat
      BY <1>2, <2>2 DEF TextureEntry
    <3>2. CASE s.textures[u].lastUse > was
      <4>1. q[u] = [s.textures[u] EXCEPT !.lastUse = s.textures[u].lastUse - 1]
        BY <3>2
      <4>2. s.textures[u].lastUse - 1 \in Nat
        BY <2>0, <3>1, <3>2
      <4> HIDE DEF q
      <4>3. /\ q[u] \in TextureEntry
            /\ q[u].image = s.textures[u].image /\ q[u].key = s.textures[u].key
        BY <3>1, <4>1, <4>2 DEF TextureEntry
      <4>4. q[u].key # Empty.key
        BY <4>3, Numbers DEF TextureEntry, Empty
      <4> QED
        BY <2>2, <4>3, <4>4
    <3>3. CASE ~(s.textures[u].lastUse > was)
      <4>1. q[u] = s.textures[u]
        BY <3>3
      <4> QED
        BY <3>1, <4>1
    <3> QED
      BY <3>2, <3>3
  <2> QED
    BY <2>1, <2>2
<1>5. q[slot] = Empty /\ q = [u \in Slots |-> q[u]]
  OBVIOUS
<1>6. x \in [Stages -> Slots \cup {None}]
  BY <1>2
<1>7. /\ c \in Painting /\ c[image] = Blank /\ \A i \in Surfaces \ {image} : c[i] = s.contents[i]
  BY <1>2, Colours DEF Painting
<1>8. \A g \in Stages : x[g] # None => x[g] = s.stageTexture[g] /\ x[g] # slot
  OBVIOUS
<1> HIDE DEF q, c, x, image, Left
<1>9. q \in [Slots -> TextureEntry \cup {Empty}]
  <2>1. \A u \in Slots : q[u] \in TextureEntry \cup {Empty}
    BY <1>4, <1>5
  <2> QED
    BY <1>5, <2>1
<1>10. t \in State
  BY <1>1, <1>3, <1>6, <1>7, <1>9 DEF State
<1>11. /\ t.textures = q /\ t.contents = c /\ t.stageTexture = x
       /\ t.targets = s.targets /\ t.current = s.current
       /\ t.overrideView = s.overrideView /\ t.overrideKey = s.overrideKey
       /\ t.commands = s.commands /\ t.pending = s.pending /\ t.renderingActive = s.renderingActive
       /\ t.gpuWroteTarget = s.gpuWroteTarget /\ t.frameOpen = s.frameOpen
       /\ t.combiner = s.combiner /\ t.combinerActiveSlot = s.combinerActiveSlot
       /\ t.combinerWriteSlot = s.combinerWriteSlot /\ t.combinerDirty = s.combinerDirty
       /\ t.descriptorSetCount = s.descriptorSetCount /\ t.lastConfig = s.lastConfig
  BY <1>1, <1>3 DEF State
<1>12. /\ \A u \in Slots : s.textures[u] # Empty => s.textures[u].image \in LiveIn(s)
       /\ \A i \in 1..Len(s.targets) : s.targets[i].image \in LiveIn(s)
       /\ LiveIn(s) \subseteq Surfaces
  BY <1>1, Live
<1>13. LiveIn(t) = LiveIn(s) \ {image}
  <2>1. \A u \in Slots \ {slot} : s.textures[u].image # image
    BY <1>1 DEF Linked, image
  <2>2. \A i \in 1..Len(s.targets) : s.targets[i].image # image
    BY <1>1 DEF Linked, image
  <2>3. Main # image /\ White # image
    BY <1>2, Numbers
  <2>4. {t.textures[u].image : u \in {y \in Slots : t.textures[y] # Empty}}
          = {s.textures[u].image : u \in {y \in Slots : s.textures[y] # Empty}} \ {image}
    <3>1. ASSUME NEW u \in Slots, t.textures[u] # Empty
          PROVE  t.textures[u].image \in
                   {s.textures[v].image : v \in {y \in Slots : s.textures[y] # Empty}} \ {image}
      <4>1. u # slot
        BY <1>5, <1>11, <3>1
      <4>2. s.textures[u] # Empty /\ t.textures[u].image = s.textures[u].image
        BY <1>4, <1>11, <3>1, <4>1
      <4> QED
        BY <2>1, <4>1, <4>2
    <3>2. ASSUME NEW u \in Slots, s.textures[u] # Empty, s.textures[u].image # image
          PROVE  s.textures[u].image \in
                   {t.textures[v].image : v \in {y \in Slots : t.textures[y] # Empty}}
      <4>1. u # slot
        BY <3>2 DEF image
      <4>2. t.textures[u] # Empty /\ t.textures[u].image = s.textures[u].image
        BY <1>4, <1>11, <3>2, <4>1
      <4> QED
        BY <4>2
    <3> QED
      BY <3>1, <3>2
  <2>5. {s.targets[i].image : i \in DOMAIN s.targets} = {s.targets[i].image : i \in DOMAIN s.targets} \ {image}
    <3>1. DOMAIN s.targets = 1..Len(s.targets)
      BY <1>1 DEF State
    <3> QED
      BY <2>2, <3>1
  <2>6. LiveIn(t) = {Main, White} \cup {s.targets[i].image : i \in DOMAIN s.targets}
                      \cup {t.textures[u].image : u \in {y \in Slots : t.textures[y] # Empty}}
    BY <1>11 DEF LiveIn
  <2>7. LiveIn(s) = {Main, White} \cup {s.targets[i].image : i \in DOMAIN s.targets}
                      \cup {s.textures[u].image : u \in {y \in Slots : s.textures[y] # Empty}}
    BY DEF LiveIn
  <2> QED
    BY <2>3, <2>4, <2>5, <2>6, <2>7
<1>14. Linked(t)
  <2>1. ASSUME NEW u \in Slots, NEW v \in Slots, u # v, t.textures[u] # Empty
        PROVE  t.textures[u].key # t.textures[v].key /\ t.textures[u].image # t.textures[v].image
    <3>1. u # slot /\ s.textures[u] # Empty
          /\ t.textures[u].key = s.textures[u].key /\ t.textures[u].image = s.textures[u].image
      BY <1>4, <1>5, <1>11, <2>1
    <3>2. CASE v = slot
      <4>1. s.textures[u].key # None /\ s.textures[u].image # None
        BY <1>1, <3>1, TextureFound, Live, Numbers DEF Surfaces
      <4> QED
        BY <1>5, <1>11, <3>1, <3>2, <4>1 DEF Empty
    <3>3. CASE v # slot
      BY <1>1, <1>4, <1>11, <2>1, <3>1, <3>3 DEF Linked
    <3> QED
      BY <3>2, <3>3
  <2>2. ASSUME NEW u \in Slots, NEW i \in 1..Len(s.targets)
        PROVE  t.textures[u].image # s.targets[i].image
    <3>1. CASE u = slot
      <4>1. s.targets[i].image # None
        BY <1>12, Numbers
      <4> QED
        BY <1>5, <1>11, <3>1, <4>1 DEF Empty
    <3>2. CASE u # slot
      BY <1>1, <1>4, <1>11, <3>2 DEF Linked
    <3> QED
      BY <3>1, <3>2
  <2>3. ASSUME NEW g \in Stages, t.stageTexture[g] # None
        PROVE  t.textures[t.stageTexture[g]] # Empty
    <3>1. t.stageTexture[g] = s.stageTexture[g] /\ t.stageTexture[g] # slot
      BY <1>8, <1>11, <2>3
    <3>2. t.stageTexture[g] \in Slots /\ s.textures[t.stageTexture[g]] # Empty
      BY <1>1, <1>2, <2>3, <3>1 DEF Linked
    <3> QED
      BY <1>4, <1>11, <3>1, <3>2
  <2>4. \A g \in Stages : s.stageTexture[g] = None => t.stageTexture[g] = None
    BY <1>8, <1>11
  <2> QED
    BY <1>1, <1>11, <2>1, <2>2, <2>3, <2>4 DEF Linked
<1>15. Quiet(t) /\ Unused(t)
  BY <1>11 DEF Quiet, Unused
<1>16. /\ \A i \in LiveIn(s) : want[i] = s.contents[i]
       /\ \A i \in Surfaces \ LiveIn(s) : s.contents[i] = Blank
       /\ \A u \in Slots : s.textures[u] # Empty => s.contents[s.textures[u].image]["depth"] = None
       /\ s.contents[White] = Opaque
  BY Quiets
<1>17. Sound(t, want)
  <2>1. \A i \in LiveIn(t) : want[i] = t.contents[i]
    BY <1>7, <1>11, <1>12, <1>13, <1>16
  <2>2. \A i \in Surfaces \ LiveIn(t) : t.contents[i] = Blank
    BY <1>7, <1>11, <1>13, <1>16
  <2>3. ASSUME NEW u \in Slots, t.textures[u] # Empty
        PROVE  t.contents[t.textures[u].image]["depth"] = None
    <3>1. u # slot /\ s.textures[u] # Empty /\ t.textures[u].image = s.textures[u].image
      BY <1>4, <1>5, <1>11, <2>3
    <3>2. s.textures[u].image # image /\ s.textures[u].image \in Surfaces
      BY <1>1, <1>12, <3>1 DEF Linked, image
    <3> QED
      BY <1>7, <1>11, <1>16, <3>1, <3>2
  <2>4. t.contents[White] = Opaque
    <3>1. White \in Surfaces \ {image}
      BY <1>2, Numbers DEF Surfaces
    <3> QED
      BY <1>7, <1>11, <1>16, <3>1
  <2>5. ~t.combinerDirty => /\ t.combiner[t.combinerActiveSlot] = t.lastConfig
                            /\ t.combinerActiveSlot < t.combinerWriteSlot
    BY <1>1, <1>11 DEF Tracked
  <2> QED
    BY <1>1, <1>10, <1>14, <1>15, <2>1, <2>2, <2>3, <2>4, <2>5, Fresh DEF Quiet
<1> QED
  BY <1>4, <1>5, <1>11, <1>13, <1>15, <1>17 DEF x, image

LEMMA OldestFound ==
    ASSUME NEW s, s \in State, NEW A, A \subseteq Slots, A # {}
    PROVE  Oldest(s, A) \in A
<1> DEFINE N == {s.textures[t].lastUse : t \in A}
<1>1. \A t \in A : s.textures[t].lastUse \in Nat /\ t \in Nat
  <2>1. s.textures \in [Slots -> TextureEntry \cup {Empty}]
    BY DEF State
  <2>2. \A e \in TextureEntry \cup {Empty} : e.lastUse \in Nat
    BY DEF TextureEntry, Empty
  <2> QED
    BY <2>1, <2>2, Numbers
<1>2. N # {} /\ N \subseteq Nat
  BY <1>1
<1>3. PICK m \in N : \A y \in N : ~(<<y, m>> \in OpToRel(<, Nat))
  <2> HIDE DEF N
  <2> QED
    BY <1>2, NatLessThanWellFounded, WFMin, Zenon
<1>4. m \in Nat /\ \A y \in N : m <= y
  <2>1. \A y \in N : y \in Nat /\ ~(y < m)
    BY <1>2, <1>3 DEF OpToRel
  <2> QED
    BY <1>2, <2>1
<1> DEFINE B == {t \in A : s.textures[t].lastUse = m}
<1>5. B # {} /\ B \subseteq Nat
  BY <1>1, <1>3
<1>6. PICK x \in B : \A y \in B : ~(<<y, x>> \in OpToRel(<, Nat))
  <2> HIDE DEF B
  <2> QED
    BY <1>5, NatLessThanWellFounded, WFMin, Zenon
<1>7. \A y \in B : x <= y
  <2>1. \A y \in B : y \in Nat /\ ~(y < x)
    BY <1>5, <1>6 DEF OpToRel
  <2> QED
    BY <1>5, <2>1
<1>8. x \in A /\ \A u \in A : Earlier(s, x, u)
  <2>1. x \in A /\ s.textures[x].lastUse = m
    BY <1>6
  <2>2. ASSUME NEW u \in A PROVE Earlier(s, x, u)
    <3>1. m <= s.textures[u].lastUse /\ s.textures[u].lastUse \in Nat
      BY <1>1, <1>4
    <3>2. CASE s.textures[u].lastUse = m
      BY <1>7, <2>1, <3>2 DEF Earlier
    <3>3. CASE s.textures[u].lastUse # m
      BY <1>4, <2>1, <3>1, <3>3 DEF Earlier
    <3> QED
      BY <3>2, <3>3
  <2> QED
    BY <2>1, <2>2
<1> QED
  BY <1>8 DEF Oldest

WithStages(s, x) == [s EXCEPT !.stageTexture = x]

(* Using an entry has nothing to do with the stages. *)
LEMMA TouchesApart ==
    ASSUME NEW s, s \in State, NEW slot, NEW x
    PROVE  Touch(WithStages(s, x), slot) = WithStages(Touch(s, slot), x)
<1> DEFINE u == WithStages(s, x)
<1>1. u.textures = s.textures
  BY DEF State, WithStages
<1> HIDE DEF u
<1> DEFINE q == Touch(s, slot).textures
<1>2. Touch(s, slot) = [s EXCEPT !.textures = q] /\ Touch(u, slot) = [u EXCEPT !.textures = q]
  <2>1. Touch(s, slot) = [s EXCEPT !.textures = q]
    BY DEF Touch, State
  <2>2. Touch(u, slot) = [u EXCEPT !.textures = q]
    <3> DEFINE used(f) == {t \in Slots : f[t].lastUse # 0} \cup {slot}
               Rank(f, t) == CASE t = slot -> Cardinality(used(f))
                               [] t # slot /\ f[slot].lastUse # 0 /\ f[t].lastUse > f[slot].lastUse ->
                                     f[t].lastUse - 1
                               [] OTHER -> f[t].lastUse
               p(f) == [t \in Slots |-> [f[t] EXCEPT !.lastUse = Rank(f, t)]]
    <3>1. Touch(u, slot) = [u EXCEPT !.textures = p(u.textures)]
      BY DEF Touch
    <3>2. Touch(s, slot) = [s EXCEPT !.textures = p(s.textures)]
      BY DEF Touch
    <3> HIDE DEF p
    <3>3. q = p(s.textures)
      BY <3>2 DEF State
    <3> HIDE DEF q
    <3> QED
      BY <1>1, <3>1, <3>3
  <2> QED
    BY <2>1, <2>2
<1> HIDE DEF q
<1> QED
  BY <1>2 DEF u, State, WithStages

LEMMA CreatesApart ==
    ASSUME NEW s, s \in State, NEW slot \in Slots, NEW key, NEW geometry, NEW x,
           Entered(s, slot, key, NewImage(s), geometry) \in State
    PROVE  CreateTextureEntry(WithStages(s, x), slot, key, geometry)
             = WithStages(CreateTextureEntry(s, slot, key, geometry), x)
<1> DEFINE u == WithStages(s, x)
           v == Entered(s, slot, key, NewImage(s), geometry)
<1>1. u.textures = s.textures /\ u.targets = s.targets /\ u.commands = s.commands
  BY DEF State, WithStages
<1> HIDE DEF u
<1>2. NewImage(u) = NewImage(s)
  <2>1. LiveIn(u) = LiveIn(s)
    BY <1>1 DEF LiveIn
  <2>2. Referenced(u) = Referenced(s)
    BY <1>1 DEF Referenced
  <2> QED
    BY <2>1, <2>2 DEF NewImage
<1> DEFINE e == Entry(key, NewImage(s), geometry)
<1>3. [u EXCEPT !.textures[slot] = e] = WithStages(v, x)
  <2> HIDE DEF e
  <2>1. v = [s EXCEPT !.textures = [s.textures EXCEPT ![slot] = e]]
    BY DEF State, Entered, v, e
  <2>2. [u EXCEPT !.textures[slot] = e] = [u EXCEPT !.textures = [s.textures EXCEPT ![slot] = e]]
    BY <1>1 DEF State, WithStages, u
  <2> DEFINE q == [s.textures EXCEPT ![slot] = e]
  <2> HIDE DEF q
  <2>3. [[s EXCEPT !.stageTexture = x] EXCEPT !.textures = q]
          = [[s EXCEPT !.textures = q] EXCEPT !.stageTexture = x]
    BY DEF State
  <2> QED
    BY <2>1, <2>2, <2>3 DEF u, q, WithStages
<1>4. CreateTextureEntry(u, slot, key, geometry) = Touch([u EXCEPT !.textures[slot] = e], slot)
  BY <1>2 DEF CreateTextureEntry, Entry
<1>5. CreateTextureEntry(s, slot, key, geometry) = Touch(v, slot)
  BY DEF CreateTextureEntry, Entry, Entered
<1>6. Touch(WithStages(v, x), slot) = WithStages(Touch(v, slot), x)
  <2>1. v \in State
    OBVIOUS
  <2> HIDE DEF v
  <2> QED
    BY <2>1, TouchesApart
<1> HIDE DEF e, v
<1> QED
  BY <1>3, <1>4, <1>5, <1>6 DEF u

(* What making a texture for a key leaves: the texture is in its entry and still
   to be painted, and the stages sample what they did. *)
Made(s, t, want, slot, key) ==
    /\ slot \in Slots /\ t.textures[slot] # Empty /\ t.textures[slot].key = key
    /\ t.textures[slot].image \in Images
    /\ Sound(t, [want EXCEPT ![t.textures[slot].image] = Blank]) /\ Unused(t)
    /\ LiveIn(t) \ {t.textures[slot].image} \subseteq LiveIn(s)
    /\ t.targets = s.targets /\ t.current = s.current
    /\ \A g \in Stages : Sampled(t, g) = Sampled(s, g)

LEMMA Replaces ==
    ASSUME NEW s, NEW want, Sound(s, want), Unused(s), NEW key \in TextureKeys,
           Find(s, key) # {}, NEW geometry \in TextureSizes
    PROVE  \E slot \in Slots : Made(s, Replace(s, key, geometry), want, slot, key)
<1> DEFINE slot == CHOOSE t \in Find(s, key) : TRUE
           u == SubmitFrame(s)
           v == Removed(u, slot)
           v0 == DestroyTextureEntry(u, slot, FALSE)
           w == CreateTextureEntry(v, slot, key, geometry)
           w0 == CreateTextureEntry(v0, slot, key, geometry)
           x == u.stageTexture
<1>1. s \in State /\ Linked(s)
  BY DEF Sound
<1>2. slot \in Slots /\ s.textures[slot] # Empty /\ s.textures[slot].key = key
  BY <1>1, Founds
<1> HIDE DEF slot
<1>3. Sound(u, want) /\ Unused(u) /\ Quiet(u) /\ SameLinks(s, u)
  BY Submits DEF Quiet
<1> HIDE DEF u
<1>4. u.textures[slot] # Empty /\ u.textures[slot].key = key /\ u \in State /\ Linked(u)
  BY <1>2, <1>3 DEF SameLinks, Sound
<1>0. v = Removed(u, slot)
  OBVIOUS
<1>5. /\ Sound(v, want) /\ Unused(v) /\ Quiet(v)
      /\ v.textures[slot] = Empty
      /\ \A y \in Slots \ {slot} : /\ v.textures[y] = Empty <=> u.textures[y] = Empty
                                   /\ v.textures[y].image = u.textures[y].image
                                   /\ v.textures[y].key = u.textures[y].key
      /\ LiveIn(v) = LiveIn(u) \ {u.textures[slot].image}
      /\ v.targets = u.targets /\ v.current = u.current
      /\ v.overrideView = u.overrideView /\ v.overrideKey = u.overrideKey
  <2> HIDE DEF v
  <2>1. Sound(v, want) /\ Unused(v) /\ Quiet(v) /\ v.textures[slot] = Empty
    BY <1>0, <1>2, <1>3, <1>4, Destroys
  <2>2. \A y \in Slots \ {slot} : /\ v.textures[y] = Empty <=> u.textures[y] = Empty
                                  /\ v.textures[y].image = u.textures[y].image
                                  /\ v.textures[y].key = u.textures[y].key
    BY <1>0, <1>2, <1>3, <1>4, Destroys
  <2>3. LiveIn(v) = LiveIn(u) \ {u.textures[slot].image}
    BY <1>0, <1>2, <1>3, <1>4, Destroys
  <2>4. /\ v.targets = u.targets /\ v.current = u.current
        /\ v.overrideView = u.overrideView /\ v.overrideKey = u.overrideKey
    BY <1>0, <1>2, <1>3, <1>4, Destroys
  <2> QED
    BY <2>1, <2>2, <2>3, <2>4
<1>6. v0 = WithStages(v, x)
  <2> DEFINE c == [u.contents EXCEPT ![u.textures[slot].image] = Blank]
             q == v0.textures
             y == v.stageTexture
  <2>1. v0 = [u EXCEPT !.contents = c, !.textures = q]
    BY <1>4 DEF DestroyTextureEntry, Bury, State
  <2>2. v = [v0 EXCEPT !.stageTexture = y]
    BY <2>1, <1>4 DEF Removed, DestroyTextureEntry, State
  <2> HIDE DEF v, v0
  <2>3. v0.stageTexture = x /\ v0 = [v0 EXCEPT !.stageTexture = v0.stageTexture]
    <3> HIDE DEF c, q
    <3> QED
      BY <2>1, <1>4 DEF State
  <2> HIDE DEF c, q, y, x
  <2>4. [v0 EXCEPT !.stageTexture = x] = [[v0 EXCEPT !.stageTexture = y] EXCEPT !.stageTexture = x]
    <3>1. v0 = [u EXCEPT !.contents = c, !.textures = q]
      BY <2>1
    <3> QED
      BY <3>1, <1>4 DEF State
  <2> QED
    BY <2>2, <2>3, <2>4 DEF WithStages
<1> HIDE DEF v
<1>60. v0 = DestroyTextureEntry(u, slot, FALSE)
  OBVIOUS
<1> HIDE DEF v0
<1>7. Find(v, key) = {}
  <2>1. ASSUME NEW y \in Slots PROVE v.textures[y].key # key
    <3>1. CASE y = slot
      BY <1>5, <3>1, Numbers DEF Empty
    <3>2. CASE y # slot
      <4>1. CASE u.textures[y] = Empty
        BY <1>5, <3>2, <4>1, Numbers DEF Empty
      <4>2. CASE u.textures[y] # Empty
        BY <1>4, <1>2, <1>5, <3>2 DEF Linked
      <4> QED
        BY <4>1, <4>2
    <3> QED
      BY <3>1, <3>2
  <2> QED
    BY <2>1 DEF Find
<1> DEFINE image == NewImage(v)
<1>8. /\ Sound(w, [want EXCEPT ![image] = Blank]) /\ Unused(w)
      /\ w.textures[slot] # Empty /\ w.textures[slot].key = key /\ w.textures[slot].image = image
      /\ \A y \in Slots \ {slot} : /\ w.textures[y] = Empty <=> v.textures[y] = Empty
                                   /\ w.textures[y].image = v.textures[y].image
                                   /\ w.textures[y].key = v.textures[y].key
      /\ LiveIn(w) = LiveIn(v) \cup {image}
      /\ w.targets = v.targets /\ w.current = v.current /\ SameStages(v, w)
  BY <1>2, <1>5, <1>7, Creates
<1>9. image \in Images
  BY <1>5, NewImages
<1>10. w0 = WithStages(w, x)
  <2>1. v \in State
    BY <1>5 DEF Sound
  <2>2. Entered(v, slot, key, NewImage(v), geometry) \in State
    <3> DEFINE z == Entered(v, slot, key, image, geometry)
    <3>1. image \notin LiveIn(v)
      BY <1>5, NewImages
    <3>2. Sound(z, [want EXCEPT ![image] = Blank])
      <4>1. z = Entered(v, slot, key, image, geometry)
        OBVIOUS
      <4> HIDE DEF z, image
      <4> QED
        BY <4>1, <1>2, <1>5, <1>7, <1>9, <3>1, Enters
    <3> QED
      BY <3>2 DEF Sound
  <2>3. CreateTextureEntry(WithStages(v, x), slot, key, geometry) = WithStages(w, x)
    <3> HIDE DEF x, image
    <3> QED
      BY <1>2, <2>1, <2>2, CreatesApart
  <2> QED
    BY <1>6, <2>3
<1> HIDE DEF w, w0, image
<1>11. w \in State /\ Linked(w)
  BY <1>8 DEF Sound
<1>12. x \in [Stages -> Slots \cup {None}]
  BY <1>4 DEF State
<1> HIDE DEF x
<1>13. w0 \in State
  BY <1>10, <1>11, <1>12 DEF State, WithStages
<1>14. /\ SameBatch(w, w0) /\ w0.textures = w.textures /\ w0.stageTexture = x
       /\ w0.targets = w.targets /\ w0.current = w.current
       /\ w0.overrideView = w.overrideView /\ w0.overrideKey = w.overrideKey
  BY <1>10, <1>11 DEF State, WithStages, SameBatch, SameImages
<1>15. /\ \A y \in Slots : u.textures[y] # Empty => w.textures[y] # Empty
       /\ \A y \in Slots : w.textures[y].key = u.textures[y].key
  BY <1>4, <1>5, <1>8
<1>16. Linked(w0)
  <2>1. ASSUME NEW g \in Stages, x[g] # None
        PROVE  w.textures[x[g]] # Empty
    <3>1. x[g] \in Slots
      BY <1>12, <2>1
    <3>2. u.textures[x[g]] # Empty
      BY <1>4, <2>1 DEF Linked, x
    <3> QED
      BY <3>1, <3>2, <1>15
  <2>2. \A g \in Stages : w.overrideView[g] # None => x[g] = None
    BY <1>4, <1>5, <1>8 DEF Linked, SameStages, x
  <2> QED
    BY <1>11, <1>14, <2>1, <2>2 DEF Linked
<1>17. Sound(w0, [want EXCEPT ![image] = Blank]) /\ Unused(w0)
  BY <1>8, <1>13, <1>14, <1>16, Rebinds
<1>18. LiveIn(w0) \ {image} \subseteq LiveIn(s)
  <2>1. LiveIn(w0) = LiveIn(w) /\ LiveIn(u) = LiveIn(s)
    BY <1>3, <1>14, BatchKept, LinksKept
  <2> QED
    BY <2>1, <1>5, <1>8
<1>19. ASSUME NEW g \in Stages PROVE Sampled(w0, g) = Sampled(s, g)
  <2>1. Sampled(w0, g) = Sampled(u, g)
    <3>1. x[g] # None => w.textures[x[g]].key = u.textures[x[g]].key
      BY <1>12, <1>15
    <3> QED
      BY <3>1, <1>14, <1>8, <1>5 DEF Sampled, SameStages, x
  <2> QED
    BY <2>1, <1>3, LinksKept
<1>20. Replace(s, key, geometry) = w0
  BY DEF Replace, w0, v0, u, slot
<1>21. Made(s, w0, want, slot, key)
  BY <1>2, <1>3, <1>5, <1>8, <1>9, <1>14, <1>17, <1>18, <1>19 DEF Made, SameLinks
<1> QED
  BY <1>2, <1>20, <1>21

LEMMA Evicts ==
    ASSUME NEW s, NEW want, Sound(s, want), Unused(s), NEW key \in TextureKeys,
           Find(s, key) = {}, Unbound(s) # {}, NEW geometry \in TextureSizes
    PROVE  \E slot \in Slots : Made(s, Evict(s, key, geometry), want, slot, key)
<1> DEFINE slot == Oldest(s, Unbound(s))
           u == SubmitFrame(s)
           v == Removed(u, slot)
           free == IF s.textures[slot] = Empty THEN s ELSE v
           w == CreateTextureEntry(free, slot, key, geometry)
<1>1. s \in State /\ Linked(s)
  BY DEF Sound
<1>2. slot \in Slots /\ \A g \in Stages : s.stageTexture[g] # slot
  <2>1. Unbound(s) \subseteq Slots
    BY DEF Unbound
  <2>2. slot \in Unbound(s)
    BY <1>1, <2>1, OldestFound
  <2> QED
    BY <2>2 DEF Unbound
<1>3. Evict(s, key, geometry) = w
  BY DEF Evict, Removed
<1> HIDE DEF slot
<1>4. Sound(u, want) /\ Unused(u) /\ Quiet(u) /\ SameLinks(s, u)
  BY Submits DEF Quiet
<1> HIDE DEF u
<1>5. LiveIn(u) = LiveIn(s) /\ \A g \in Stages : Sampled(u, g) = Sampled(s, g)
  BY <1>4, LinksKept
<1>6. /\ Sound(free, want) /\ Unused(free) /\ free.textures[slot] = Empty
      /\ Find(free, key) = {} /\ LiveIn(free) \subseteq LiveIn(s)
      /\ free.targets = s.targets /\ free.current = s.current
      /\ \A g \in Stages : Sampled(free, g) = Sampled(s, g)
  <2>1. CASE s.textures[slot] = Empty
    <3>1. free = s
      BY <2>1
    <3> HIDE DEF free
    <3> QED
      BY <2>1, <3>1
  <2>2. CASE s.textures[slot] # Empty
    <3>0. free = v /\ u.textures[slot] # Empty
      BY <1>4, <2>2 DEF SameLinks
    <3>00. v = Removed(u, slot)
      OBVIOUS
    <3> HIDE DEF free, v
    <3>1. /\ Sound(v, want) /\ Unused(v) /\ v.textures[slot] = Empty
          /\ \A y \in Slots \ {slot} : v.textures[y].key = u.textures[y].key
          /\ LiveIn(v) = LiveIn(u) \ {u.textures[slot].image}
          /\ v.targets = u.targets /\ v.current = u.current
          /\ v.overrideKey = u.overrideKey
          /\ \A g \in Stages : v.stageTexture[g] = IF u.stageTexture[g] = slot THEN None
                                                   ELSE u.stageTexture[g]
      BY <1>2, <1>4, <3>0, <3>00, Destroys
    <3>2. ASSUME NEW y \in Slots PROVE v.textures[y].key # key
      <4>1. CASE y = slot
        BY <3>1, <4>1, Numbers DEF Empty
      <4>2. CASE y # slot
        BY <1>4, <3>1, <4>2 DEF Find, SameLinks
      <4> QED
        BY <4>1, <4>2
    <3>3. ASSUME NEW g \in Stages PROVE Sampled(v, g) = Sampled(u, g)
      <4>1. u.stageTexture[g] # slot /\ v.stageTexture[g] = u.stageTexture[g]
        BY <1>2, <1>4, <3>1 DEF SameLinks
      <4>2. u.stageTexture[g] # None => u.stageTexture[g] \in Slots \ {slot}
        BY <1>4, <4>1 DEF Sound, State
      <4> QED
        BY <3>1, <4>1, <4>2 DEF Sampled
    <3> QED
      BY <1>4, <1>5, <3>0, <3>1, <3>2, <3>3 DEF Find, SameLinks
  <2> QED
    BY <2>1, <2>2
<1> HIDE DEF free, v
<1> DEFINE image == NewImage(free)
<1>7. /\ Sound(w, [want EXCEPT ![image] = Blank]) /\ Unused(w)
      /\ w.textures[slot] # Empty /\ w.textures[slot].key = key /\ w.textures[slot].image = image
      /\ LiveIn(w) = LiveIn(free) \cup {image}
      /\ w.targets = free.targets /\ w.current = free.current
      /\ \A g \in Stages : Sampled(w, g) = Sampled(free, g)
  BY <1>2, <1>6, Creates
<1>8. image \in Images
  BY <1>6, NewImages
<1> HIDE DEF w, image
<1> QED
  BY <1>2, <1>3, <1>6, <1>7, <1>8 DEF Made

(* Where an upload or a composition writes. *)
Onto(c) == IF c.op = "upload" THEN c.image ELSE Main

(* What the GPU makes of either. *)
LEMMA StepsPaint ==
    ASSUME NEW s, NEW g, g \in Gpu, g.legal, g.faithful, g.active = None,
           NEW c, c.op \in {"upload", "compose"}, c.pixels \in Contents,
           Holds(s, c.from, c.pixels), Onto(c) \in Surfaces
    PROVE  LET h == Step(s, g, c)
           IN  /\ h \in Gpu /\ h.legal /\ h.faithful /\ h.active = None
               /\ h.contents = [g.contents EXCEPT ![Onto(c)] =
                                   [g.contents[Onto(c)] EXCEPT !["color"] = c.pixels]]
               /\ c.op = "upload" => h.unsynced = g.unsynced
<1> DEFINE h == Step(s, g, c)
           i == Onto(c)
           q == [g.contents EXCEPT ![i] = [g.contents[i] EXCEPT !["color"] = c.pixels]]
           z == IF c.op = "upload" THEN g.unsynced ELSE g.unsynced \cup {<<Main, "color">>}
<1>0. g.contents \in Painting /\ g.legal \in BOOLEAN /\ g.faithful \in BOOLEAN
      /\ g.unsynced \in SUBSET (Surfaces \X Aspects)
  BY DEF Gpu
<1>1. [g.contents[i] EXCEPT !["color"] = c.pixels] \in Paints
  BY <1>0 DEF Painting, Paints
<1>2. q \in Painting
  BY <1>0, <1>1 DEF Painting
<1>3. z \in SUBSET (Surfaces \X Aspects)
  BY <1>0 DEF Surfaces, Aspects
<1>4. h = [g EXCEPT !.contents = q, !.legal = TRUE, !.faithful = TRUE, !.unsynced = z]
  <2>1. CASE c.op = "upload"
    <3>1. h = [g EXCEPT !.contents[c.image]["color"] = c.pixels,
                        !.legal = g.legal /\ g.active = None,
                        !.faithful = g.faithful /\ Holds(s, c.from, c.pixels)]
      BY <2>1 DEF Step
    <3>2. h = [g EXCEPT !.contents[c.image]["color"] = c.pixels, !.legal = TRUE, !.faithful = TRUE]
      <4> HIDE DEF h
      <4> QED
        BY <3>1
    <3>3. i = c.image /\ z = g.unsynced
      BY <2>1 DEF Onto
    <3> HIDE DEF h, i, z
    <3> QED
      BY <3>2, <3>3 DEF Gpu
  <2>2. CASE c.op = "compose"
    <3>1. h = [g EXCEPT !.contents[Main]["color"] = c.pixels,
                        !.legal = g.legal /\ g.active = None,
                        !.faithful = g.faithful /\ Holds(s, c.from, c.pixels),
                        !.unsynced = g.unsynced \cup {<<Main, "color">>}]
      BY <2>2 DEF Step
    <3>2. h = [g EXCEPT !.contents[Main]["color"] = c.pixels, !.legal = TRUE, !.faithful = TRUE,
                        !.unsynced = g.unsynced \cup {<<Main, "color">>}]
      <4> HIDE DEF h
      <4> QED
        BY <3>1
    <3>3. i = Main /\ z = g.unsynced \cup {<<Main, "color">>}
      BY <2>2 DEF Onto
    <3> HIDE DEF h, i, z
    <3> QED
      BY <3>2, <3>3 DEF Gpu
  <2> QED
    BY <2>1, <2>2
<1>5. c.op = "upload" => z = g.unsynced
  OBVIOUS
<1> HIDE DEF h, q, z
<1>6. h = [contents |-> q, active |-> None, unsynced |-> z, legal |-> TRUE, faithful |-> TRUE]
  BY <1>4 DEF Gpu
<1>7. h \in Gpu
  BY <1>0, <1>2, <1>3, <1>6 DEF Gpu
<1> QED
  BY <1>5, <1>6, <1>7 DEF h, q

(* An image takes the pixels it is given; the clear that waits is for another. *)
LEMMA PaintsImage ==
    ASSUME NEW s, NEW want, Sound(s, want), s.frameOpen, ~s.renderingActive,
           NEW c, c \in Command, c.op \in {"upload", "compose"}, c.pixels \in Contents,
           Within(s, c.from), Holds(s, c.from, c.pixels),
           Onto(c) \in LiveIn(s), Onto(c) # White,
           Onto(c) # CurrentImage(s) \/ s.pending = Blank,
           NEW t, t \in State, SameLinks(s, t), SameStore(s, t),
           t.commands = Append(s.commands, c), t.frameOpen, t.pending = s.pending,
           ~t.renderingActive,
           t.gpuWroteTarget = IF c.op = "upload" THEN s.gpuWroteTarget ELSE TRUE
    PROVE  Sound(t, [want EXCEPT ![Onto(c)] = [want[Onto(c)] EXCEPT !["color"] = c.pixels]])
<1> DEFINE i == Onto(c)
           cur == CurrentImage(s)
           g == Run(s)
           h == Step(s, g, c)
           v == c.pixels
           new == [want EXCEPT ![i] = [want[i] EXCEPT !["color"] = v]]
<1>1. Tracked(s, g) /\ s \in State /\ Linked(s) /\ want \in Painting /\ Matches(s, want)
  BY DEF Sound, Recorded
<1>2. g \in Gpu /\ g.legal /\ g.faithful /\ g.active = None /\ (~s.gpuWroteTarget => g.unsynced = {})
  BY <1>1 DEF Tracked
<1>3. /\ cur \in Surfaces /\ i \in Surfaces /\ LiveIn(s) \subseteq Surfaces
  BY <1>1, Live
<1>4. g.contents \in Painting /\ g.contents[i] \in Paints /\ s.pending \in Pending
  BY <1>1, <1>2, <1>3 DEF Gpu, Painting, State
<1>5. Safe(s, c)
  <2>1. MentionedIn(c) = {i}
    BY DEF MentionedIn, Onto
  <2> QED
    BY <2>1 DEF Safe
<1> HIDE DEF Command
<1>6. /\ h \in Gpu /\ h.legal /\ h.faithful /\ h.active = None
      /\ h.contents = [g.contents EXCEPT ![i] = [g.contents[i] EXCEPT !["color"] = v]]
      /\ c.op = "upload" => h.unsynced = g.unsynced
  <2>1. Onto(c) \in Surfaces /\ i = Onto(c) /\ v = c.pixels /\ h = Step(s, g, c)
    BY <1>3
  <2> HIDE DEF i, g, h, v
  <2> QED
    BY <1>2, <2>1, StepsPaint
<1>7. CurrentImage(t) = cur /\ LiveIn(t) = LiveIn(s)
  BY LinksKept
<1>8. v \in Contents
  OBVIOUS
<1>9. i \in LiveIn(s) /\ i # White /\ (i # cur \/ s.pending = Blank)
  OBVIOUS
<1> HIDE DEF h, i, g, v, cur
<1>10. /\ \A j \in Surfaces \ {i} : h.contents[j] = g.contents[j]
       /\ h.contents[i] = [g.contents[i] EXCEPT !["color"] = v]
  BY <1>3, <1>4, <1>6 DEF Painting
<1>11. h.contents[i]["depth"] = g.contents[i]["depth"]
  BY <1>4, <1>10 DEF Paints, Aspects
<1>12. Images \subseteq Surfaces /\ White \in Surfaces
  BY DEF Surfaces
<1>13. Tracked(t, h)
  <2>1. \A j \in Surfaces \ LiveIn(t) : h.contents[j] = Blank
    BY <1>1, <1>7, <1>9, <1>10 DEF Tracked
  <2>2. ASSUME NEW x \in Slots, t.textures[x] # Empty
        PROVE  h.contents[t.textures[x].image]["depth"] = None
    <3>1. s.textures[x] # Empty /\ t.textures[x].image = s.textures[x].image
      BY <2>2 DEF SameLinks
    <3>2. s.textures[x].image \in Images /\ g.contents[s.textures[x].image]["depth"] = None
      BY <1>1, <3>1, Live DEF Tracked
    <3> QED
      BY <1>10, <1>11, <1>12, <3>1, <3>2
  <2>3. h.contents[White] = Opaque
    BY <1>1, <1>9, <1>10, <1>12 DEF Tracked
  <2>4. ~t.combinerDirty => /\ t.combiner[t.combinerActiveSlot] = t.lastConfig
                            /\ t.combinerActiveSlot < t.combinerWriteSlot
    BY <1>1 DEF Tracked, SameLinks, SameStore
  <2>5. ~t.gpuWroteTarget => h.unsynced = {}
    BY <1>2, <1>6
  <2> QED
    BY <1>6, <2>1, <2>2, <2>3, <2>4, <2>5 DEF Tracked
<1>14. want[i] \in Paints /\ [want[i] EXCEPT !["color"] = v] \in Paints
  BY <1>1, <1>3, <1>8 DEF Painting, Paints
<1>15. /\ new \in Painting /\ new[i] = [want[i] EXCEPT !["color"] = v]
       /\ \A j \in Surfaces \ {i} : new[j] = want[j]
  BY <1>1, <1>3, <1>14 DEF Painting
<1> HIDE DEF new
<1>16. h.contents \in Painting /\ h.contents[i] \in Paints
  BY <1>3, <1>6 DEF Gpu, Painting
<1>17. ASSUME NEW j \in LiveIn(s) PROVE new[j] = Settled(t, h)[j]
  <2>1. j \in Surfaces /\ want[j] = Settled(s, g)[j]
    BY <1>1, <1>3 DEF Matches, g
  <2>2. /\ Settled(s, g)[j] = IF j = cur THEN Over(g.contents[j], s.pending) ELSE g.contents[j]
        /\ Settled(t, h)[j] = IF j = cur THEN Over(h.contents[j], s.pending) ELSE h.contents[j]
    BY <1>4, <1>7, <1>16, <2>1 DEF Settled, Painting, cur
  <2>3. CASE j # i
    BY <1>10, <1>15, <2>1, <2>2, <2>3
  <2>4. CASE j = i
    <3>1. Over(h.contents[i], Blank) = h.contents[i] /\ Over(g.contents[i], Blank) = g.contents[i]
      BY <1>4, <1>16, Colours, Overs
    <3>2. want[i] = g.contents[i] /\ Settled(t, h)[i] = h.contents[i]
      BY <1>9, <2>1, <2>2, <2>4, <3>1
    <3> QED
      BY <1>10, <1>15, <2>4, <3>2
  <2> QED
    BY <2>3, <2>4
<1>18. Sound(t, new)
  <2> USE DEF g, h
  <2> QED
    BY <1>5, <1>13, <1>15, <1>17, Appends
<1> QED
  BY <1>18 DEF new, i, v

(* The upload's place in the staging buffer, and the batch open outside a pass
   with the cursor above that place. *)
Aloft(s, at) == [s EXCEPT !.cursor["texture"] = at]

LEMMA Aloftness ==
    ASSUME NEW s, NEW want, Sound(s, want), NEW at \in Nat, s.cursor["texture"] <= at,
           NEW t, t = Aloft(s, at)
    PROVE  /\ Sound(t, want) /\ SameLinks(s, t) /\ t.cursor["texture"] = at
           /\ t.commands = s.commands /\ t.frameOpen = s.frameOpen
           /\ t.staging = s.staging /\ t.renderingActive = s.renderingActive
           /\ t.pending = s.pending /\ t.gpuWroteTarget = s.gpuWroteTarget
<1>1. s \in State /\ Tracked(s, Run(s))
  BY DEF Sound, Recorded
<1> DEFINE q == [s.cursor EXCEPT !["texture"] = at]
<1>2. t = [s EXCEPT !.cursor = q]
  BY <1>1 DEF Aloft, State
<1>3. /\ q \in [Areas -> Nat] /\ q["texture"] = at
      /\ \A a \in Areas : s.cursor[a] \in Nat /\ q[a] \in Nat /\ s.cursor[a] <= q[a]
  <2>1. s.cursor \in [Areas -> Nat]
    BY <1>1 DEF State
  <2> QED
    BY <2>1 DEF Areas
<1> HIDE DEF q
<1>4. t \in State
  BY <1>1, <1>2, <1>3 DEF State
<1>5. SameLinks(s, t)
  BY <1>1, <1>2 DEF State, SameLinks
<1>6. /\ t.commands = s.commands /\ t.contents = s.contents /\ t.frameOpen = s.frameOpen
      /\ t.renderingActive = s.renderingActive /\ t.gpuWroteTarget = s.gpuWroteTarget
      /\ t.pending = s.pending /\ t.cursor = q /\ t.staging = s.staging
      /\ t.combiner = s.combiner /\ t.combinerWriteSlot = s.combinerWriteSlot
      /\ t.combinerDirty = s.combinerDirty /\ t.combinerActiveSlot = s.combinerActiveSlot
      /\ t.lastConfig = s.lastConfig
  BY <1>1, <1>2 DEF State
<1>7. Spares(s, t)
  <2>1. s.combinerWriteSlot \in Nat
    BY <1>1 DEF State
  <2> QED
    BY <1>3, <1>6, <2>1 DEF Spares
<1>8. ~t.combinerDirty => /\ t.combiner[t.combinerActiveSlot] = t.lastConfig
                          /\ t.combinerActiveSlot < t.combinerWriteSlot
  BY <1>1, <1>6 DEF Tracked
<1>9. Sound(t, want)
  BY <1>4, <1>5, <1>6, <1>7, <1>8, Undisturbed
<1> QED
  BY <1>3, <1>5, <1>6, <1>9

(* Every pixel of an upload is where its command reads it. *)
LEMMA HoldsStaged ==
    ASSUME NEW s, NEW area \in Areas, NEW at \in Nat, NEW size \in Nat, NEW data,
           Len(s.staging[area]) \in Nat, at + size <= Len(s.staging[area]),
           \A j \in (at + 1)..(at + size) : s.staging[area][j] = data
    PROVE  /\ RangeAt(s, area, at, size) \in ByteRange
           /\ Holds(s, RangeAt(s, area, at, size), data)
           /\ at + size <= s.cursor[area] => Within(s, RangeAt(s, area, at, size))
  BY DEF RangeAt, ByteRange, Holds, Within

Uploading(s, image, pixels, at, size) ==
    [op |-> "upload", image |-> image, pixels |-> pixels,
     from |-> RangeAt(s, "texture", at, size)]

Painted(pixels) == [Blank EXCEPT !["color"] = pixels]

LEMMA MakesPlace ==
    ASSUME NEW s, NEW want, Sound(s, want), Unused(s), NEW size \in Nat
    PROVE  LET fits == s.cursor["texture"] + size <= Len(s.staging["texture"])
               room == IF fits THEN s ELSE EnsureStaging(SubmitFrame(s), "texture", size)
               at == IF fits THEN s.cursor["texture"] ELSE 0
           IN  /\ Sound(room, want) /\ SameLinks(s, room) /\ at \in Nat
               /\ at + size <= Len(room.staging["texture"])
               /\ room.commands = <<>> \/ room.cursor["texture"] <= at
<1> DEFINE fits == s.cursor["texture"] + size <= Len(s.staging["texture"])
           u == SubmitFrame(s)
           v == EnsureStaging(u, "texture", size)
<1>1. s.cursor["texture"] \in Nat /\ "texture" \in Areas
  BY DEF Sound, State, Areas
<1>2. CASE fits
  <2>1. SameLinks(s, s)
    BY DEF SameLinks
  <2> QED
    BY <1>1, <1>2, <2>1
<1>3. CASE ~fits
  <2>1. Sound(u, want) /\ SameLinks(s, u) /\ u.commands = <<>>
    BY Submits
  <2> HIDE DEF u
  <2>2. Sound(v, want) /\ SameLinks(u, v) /\ v.commands = <<>> /\ size <= Len(v.staging["texture"])
    BY <1>1, <2>1, Ensures
  <2> HIDE DEF v
  <2>3. SameLinks(s, v)
    BY <2>1, <2>2, LinksCompose
  <2>4. 0 + size = size
    OBVIOUS
  <2> USE DEF u, v
  <2> QED
    BY <1>3, <2>2, <2>3, <2>4
<1> QED
  BY <1>2, <1>3

LEMMA Uploads ==
    ASSUME NEW s, NEW want, Sound(s, want), Unused(s), NEW slot \in Slots,
           s.textures[slot] # Empty, NEW pixels \in Pixels,
           NEW t, t = Upload(s, slot, pixels)
    PROVE  /\ Sound(t, [want EXCEPT ![s.textures[slot].image] = Painted(pixels)])
           /\ t.frameOpen /\ SameImages(s, t)
           /\ t.targets = s.targets /\ t.current = s.current /\ SameStages(s, t)
<1> DEFINE size == s.textures[slot].geometry
           image == s.textures[slot].image
           fits == s.cursor["texture"] + size <= Len(s.staging["texture"])
           room == IF fits THEN s ELSE EnsureStaging(SubmitFrame(s), "texture", size)
           at == IF fits THEN s.cursor["texture"] ELSE 0
           a == Stage(room, "texture", at, size, pixels)
           b == OpenFrame(a)
           c == CloseRendering(b)
           d == Aloft(c, at + size)
           cmd == Uploading(c, image, pixels, at, size)
           e == Record(d, cmd)
           new == [want EXCEPT ![image] = Painted(pixels)]
<1>1. /\ s \in State /\ Linked(s) /\ Tracked(s, Run(s)) /\ Matches(s, want) /\ want \in Painting
  BY DEF Sound, Recorded
<1>2. /\ s.textures[slot] \in TextureEntry /\ image \in LiveIn(s) /\ image \in Images
      /\ image # CurrentImage(s) /\ size \in Nat /\ image # White
  <2>1. /\ s.textures[slot] \in TextureEntry /\ image \in LiveIn(s) /\ image \in Images
        /\ image # CurrentImage(s)
    BY <1>1, Live
  <2>2. size \in TextureSizes
    BY <2>1 DEF TextureEntry
  <2> QED
    BY <2>1, <2>2, Numbers
<1>3. t = Touch(e, slot)
  <2>1. t = Touch([Record(c, cmd) EXCEPT !.cursor["texture"] = at + size], slot)
    BY DEF Upload, Uploading
  <2>2. [Record(c, cmd) EXCEPT !.cursor["texture"] = at + size] = e
    <3> HIDE DEF c, cmd, at, size
    <3> QED
      BY DEF Record, Aloft
  <2> QED
    BY <2>1, <2>2
<1> HIDE DEF size
<1>4. /\ Sound(room, want) /\ SameLinks(s, room) /\ at \in Nat
      /\ at + size <= Len(room.staging["texture"])
      /\ room.commands = <<>> \/ room.cursor["texture"] <= at
  BY <1>2, MakesPlace
<1> HIDE DEF room, at, fits
<1>5. "texture" \in Areas /\ pixels \in Data /\ pixels \in Contents
  BY Colours DEF Areas, Data
<1>6. /\ Sound(a, want) /\ SameLinks(room, a) /\ a.cursor["texture"] = at + size
      /\ Len(a.staging["texture"]) = Len(room.staging["texture"])
      /\ \A j \in (at + 1)..(at + size) : a.staging["texture"][j] = pixels
  BY <1>2, <1>4, <1>5, StagesData
<1> HIDE DEF a
<1>7. /\ Sound(b, want) /\ SameLinks(a, b) /\ b.frameOpen /\ b.staging = a.staging
      /\ b.cursor["texture"] \in {0, a.cursor["texture"]}
  BY <1>5, <1>6, Opens
<1> HIDE DEF b
<1>8. /\ Sound(c, want) /\ SameLinks(b, c) /\ SameStore(b, c) /\ c.frameOpen /\ ~c.renderingActive
  BY <1>7, Closes
<1>0. c = CloseRendering(b)
  OBVIOUS
<1> HIDE DEF c
<1>9. at + size \in Nat /\ c.cursor["texture"] <= at + size
  BY <1>2, <1>4, <1>6, <1>7, <1>8 DEF SameStore
<1>10. /\ Sound(d, want) /\ SameLinks(c, d) /\ d.cursor["texture"] = at + size
       /\ d.frameOpen /\ d.staging = c.staging /\ ~d.renderingActive
  <2>1. d = Aloft(c, at + size)
    OBVIOUS
  <2> HIDE DEF d
  <2> QED
    BY <1>8, <1>9, <2>1, Aloftness
<1> HIDE DEF d
<1>11. SameLinks(s, d)
  BY <1>4, <1>6, <1>7, <1>8, <1>10, LinksCompose
<1>12. /\ cmd.op = "upload" /\ cmd.image = image /\ cmd.pixels = pixels
       /\ cmd.from = RangeAt(d, "texture", at, size)
  BY <1>10 DEF Uploading, RangeAt
<1>13. cmd.from \in ByteRange /\ Holds(d, cmd.from, pixels) /\ Within(d, cmd.from)
  <2>1. d.staging = a.staging
    BY <1>7, <1>8, <1>10 DEF SameStore
  <2>2. Len(d.staging["texture"]) \in Nat
    BY <1>5, <1>10 DEF Sound, State
  <2>3. at + size <= Len(d.staging["texture"])
        /\ \A j \in (at + 1)..(at + size) : d.staging["texture"][j] = pixels
    BY <1>4, <1>6, <2>1
  <2>4. at + size <= d.cursor["texture"]
    BY <1>9, <1>10
  <2> QED
    BY <1>2, <1>4, <1>5, <1>12, <2>2, <2>3, <2>4, HoldsStaged
<1>14. cmd \in Command
  <2>1. image \in Surfaces
    BY <1>2 DEF Surfaces
  <2>2. cmd \in [op : {"upload"}, image : Surfaces, pixels : Pixels, from : ByteRange]
    BY <1>13, <2>1 DEF Uploading
  <2> QED
    BY <2>2 DEF Command
<1> HIDE DEF cmd
<1>15. LiveIn(d) = LiveIn(s) /\ CurrentImage(d) = CurrentImage(s) /\ d \in State
  BY <1>10, <1>11, LinksKept DEF Sound
<1>16. e = [d EXCEPT !.commands = Append(d.commands, cmd)]
  BY DEF Record
<1> HIDE DEF e
<1>17. /\ e \in State /\ SameLinks(d, e) /\ SameStore(d, e)
       /\ e.commands = Append(d.commands, cmd) /\ e.frameOpen /\ e.pending = d.pending
       /\ ~e.renderingActive /\ e.gpuWroteTarget = d.gpuWroteTarget
  <2>1. Append(d.commands, cmd) \in Seq(Command)
    BY <1>14, <1>15, CommandAdded
  <2>2. e \in State
    BY <1>15, <1>16, <2>1 DEF State
  <2>3. SameLinks(d, e) /\ SameStore(d, e)
    BY <1>15, <1>16 DEF State, SameLinks, SameStore
  <2> QED
    BY <1>10, <1>15, <1>16, <2>2, <2>3 DEF State
<1>18. Sound(e, new)
  <2>1. Onto(cmd) = image
    BY <1>12 DEF Onto
  <2>2. Sound(e, [want EXCEPT ![image] = [want[image] EXCEPT !["color"] = pixels]])
    BY <1>2, <1>5, <1>10, <1>12, <1>13, <1>14, <1>15, <1>17, <2>1, PaintsImage
  <2>3. [want[image] EXCEPT !["color"] = pixels] = Painted(pixels)
    <3>1. image \in Surfaces
      BY <1>2 DEF Surfaces
    <3>2. Run(s).contents \in Painting /\ Run(s).contents[image]["depth"] = None
      BY <1>1 DEF Tracked, Gpu
    <3>3. want[image] = Run(s).contents[image]
      BY <1>1, <1>2, <3>1, <3>2 DEF Matches, Settled, Painting
    <3>4. want[image] \in Paints /\ want[image]["depth"] = None
      BY <1>1, <3>1, <3>2, <3>3 DEF Painting
    <3> QED
      BY <3>4 DEF Paints, Painted, Blank, Aspects
  <2> QED
    BY <2>2, <2>3
<1>19. SameLinks(s, e)
  BY <1>11, <1>17, LinksCompose
<1>20. e.textures[slot] # Empty /\ e \in State /\ Linked(e)
  BY <1>18, <1>19 DEF SameLinks, Sound
<1>21. t \in State /\ SameBatch(e, t) /\ SameStages(e, t) /\ Linked(t)
  BY <1>3, <1>20, Touches
<1> HIDE DEF new
<1>22. Sound(t, new)
  BY <1>18, <1>21, Rebinds
<1>23. /\ t.frameOpen /\ SameImages(s, t)
       /\ t.targets = s.targets /\ t.current = s.current /\ SameStages(s, t)
  BY <1>17, <1>19, <1>21 DEF SameBatch, SameImages, SameStages, SameLinks
<1> QED
  BY <1>22, <1>23 DEF new

-----------------------------------------------------------------------------
(* Textures *)

LEMMA Cleared ==
    ASSUME NEW s, s \in State, Linked(s), NEW stage \in Stages
    PROVE  LET t == ClearOverride(s, stage)
           IN  /\ t \in State /\ Linked(t) /\ SameBatch(s, t) /\ t.textures = s.textures
               /\ \A g \in Stages \ {stage} : Sampled(t, g) = Sampled(s, g)
<1> DEFINE t == ClearOverride(s, stage)
           was == s.stageTexture[stage]
           u == Bind(s, stage, was)
<1>1. was = None \/ (was \in Slots /\ s.textures[was] # Empty)
  BY DEF State, Linked
<1>2. u = t
  <2>1. t = [s EXCEPT !.overrideView = [s.overrideView EXCEPT ![stage] = None],
                      !.overrideKey = [s.overrideKey EXCEPT ![stage] = None]]
    BY DEF ClearOverride, State
  <2>2. u = [t EXCEPT !.stageTexture = [t.stageTexture EXCEPT ![stage] = was]]
    BY <2>1 DEF Bind, State
  <2>3. t.stageTexture = s.stageTexture
    BY <2>1 DEF State
  <2>4. [s.stageTexture EXCEPT ![stage] = was] = s.stageTexture
    BY DEF State
  <2>5. t = [t EXCEPT !.stageTexture = t.stageTexture]
    BY <2>1 DEF State
  <2> HIDE DEF t, u
  <2> QED
    BY <2>2, <2>3, <2>4, <2>5
<1> HIDE DEF was
<1>3. /\ u \in State /\ Linked(u) /\ SameBatch(s, u) /\ u.textures = s.textures
      /\ \A g \in Stages \ {stage} : Sampled(u, g) = Sampled(s, g)
  BY <1>1, Binds
<1> QED
  BY <1>2, <1>3

(* An entry that is there for the key: the one it had, or one made for it. *)
Kept(s, t, want, slot, key) ==
    /\ slot \in Slots /\ t.textures[slot] # Empty /\ t.textures[slot].key = key
    /\ t.textures[slot].image \in Images
    /\ \E new : /\ Sound(t, new)
                /\ \A j \in LiveIn(t) \ {t.textures[slot].image} : new[j] = want[j]
    /\ Unused(t)
    /\ t.targets = s.targets /\ t.current = s.current
    /\ \A g \in Stages : Sampled(t, g) = Sampled(s, g)

LEMMA MadeIsKept ==
    ASSUME NEW s, NEW t, NEW want, want \in Painting, NEW slot, NEW key, Made(s, t, want, slot, key)
    PROVE  Kept(s, t, want, slot, key)
<1> DEFINE image == t.textures[slot].image
           new == [want EXCEPT ![image] = Blank]
<1>1. Sound(t, new)
  BY DEF Made
<1>2. \A j \in LiveIn(t) \ {image} : new[j] = want[j]
  <2>1. LiveIn(t) \subseteq Surfaces
    BY <1>1, Live DEF Sound
  <2> QED
    BY <2>1 DEF Painting
<1> HIDE DEF new
<1> QED
  BY <1>1, <1>2 DEF Made, Kept

(* The upload into that entry, and the stage that samples it. *)
LEMMA UploadsKept ==
    ASSUME NEW s, NEW kept, NEW want, NEW slot, NEW key, Kept(s, kept, want, slot, key),
           NEW stage \in Stages, NEW pixels \in Pixels,
           NEW new, new \in Painting,
           new[kept.textures[slot].image] = Painted(pixels),
           \A j \in LiveIn(kept) \ {kept.textures[slot].image} : new[j] = want[j],
           NEW t, t = Bind(Upload(kept, slot, pixels), stage, slot)
    PROVE  /\ Sound(t, new) /\ Unused(t) /\ t.targets = s.targets /\ t.current = s.current
           /\ Sampled(t, stage) = Texture(key)
           /\ \A g \in Stages \ {stage} : Sampled(t, g) = Sampled(s, g)
<1> DEFINE image == kept.textures[slot].image
           u == Upload(kept, slot, pixels)
<1>1. PICK held : Sound(kept, held) /\ \A j \in LiveIn(kept) \ {image} : held[j] = want[j]
  BY DEF Kept
<1> DEFINE other == [held EXCEPT ![image] = Painted(pixels)]
<1>2. slot \in Slots /\ kept.textures[slot] # Empty /\ Unused(kept) /\ image \in Images
      /\ kept.textures[slot].key = key
  BY DEF Kept
<1>3. kept \in State /\ Linked(kept) /\ held \in Painting
  BY <1>1 DEF Sound
<1>4. /\ Sound(u, other) /\ u.frameOpen /\ SameImages(kept, u)
      /\ u.targets = kept.targets /\ u.current = kept.current /\ SameStages(kept, u)
  <2>1. u = Upload(kept, slot, pixels)
    OBVIOUS
  <2> HIDE DEF u
  <2> QED
    BY <1>1, <1>2, <2>1, Uploads
<1>5. t = Bind(u, stage, slot)
  OBVIOUS
<1> HIDE DEF u
<1>6. u \in State /\ Linked(u) /\ u.textures[slot] # Empty /\ u.textures[slot].key = key
      /\ slot # None
  BY <1>2, <1>4, Numbers DEF Sound, SameImages
<1>7. /\ t \in State /\ Linked(t) /\ SameBatch(u, t)
      /\ Sampled(t, stage) = Texture(key)
      /\ \A g \in Stages \ {stage} : Sampled(t, g) = Sampled(u, g)
  BY <1>2, <1>5, <1>6, Binds
<1> HIDE DEF other
<1>8. Sound(t, other) /\ t.frameOpen
  BY <1>4, <1>7, Rebinds DEF SameBatch
<1>9. LiveIn(t) = LiveIn(kept)
  <2>1. LiveIn(t) = LiveIn(u)
    BY <1>7, BatchKept
  <2>2. LiveIn(u) = LiveIn(kept)
    BY <1>4 DEF LiveIn, SameImages
  <2> QED
    BY <2>1, <2>2
<1>10. \A j \in LiveIn(t) : new[j] = other[j]
  <2>1. LiveIn(t) \subseteq Surfaces /\ image \in Surfaces
    BY <1>2, <1>7, Live DEF Surfaces
  <2> QED
    BY <1>1, <1>3, <1>9, <2>1 DEF Painting, other
<1>11. Sound(t, new)
  BY <1>8, <1>10, OtherIdeal
<1>12. ASSUME NEW g \in Stages PROVE Sampled(u, g) = Sampled(kept, g)
  <2>1. kept.stageTexture[g] # None => kept.stageTexture[g] \in Slots
    BY <1>3 DEF State
  <2> QED
    BY <1>4, <2>1 DEF Sampled, SameStages, SameImages
<1> QED
  BY <1>4, <1>7, <1>8, <1>11, <1>12 DEF Kept, Unused, SameBatch

LEMMA Texturing ==
    ASSUME IInv, NEW stage \in Stages, NEW key \in TextureKeys, NEW pixels \in Pixels,
           NEW geometry \in TextureSizes, SetTexture(stage, key, pixels, geometry)
    PROVE  IInv'
<1> DEFINE s == ClearOverride(r, stage)
           known == Find(s, key) # {}
           same == known /\ \E t \in Find(s, key) : s.textures[t].geometry = geometry
           freed == IF known THEN s ELSE [s EXCEPT !.stageTexture[stage] = None]
           kept == CASE same -> s
                     [] known /\ ~same -> Replace(s, key, geometry)
                     [] OTHER -> Evict(freed, key, geometry)
           slot == CHOOSE t \in Find(kept, key) : TRUE
           image == kept.textures[slot].image
           new == [i \in DOMAIN ideal |->
                     CASE i = image -> [Blank EXCEPT !["color"] = pixels]
                       [] i \notin LiveIn(kept) -> Blank
                       [] OTHER -> ideal[i]]
           t == Bind(Upload(kept, slot, pixels), stage, slot)
           bare == Bind(r, stage, None)
<1>0. /\ Sound(r, ideal) /\ Unused(r) /\ r \in State /\ Linked(r) /\ blocks \in Seq(Block)
      /\ ideal \in Painting /\ aimed = IF r.current = 0 THEN Main ELSE r.targets[r.current].key
  BY DEF IInv, Sound
<1>1. /\ IF known \/ Unbound(freed) # {}
         THEN /\ r' = t /\ ideal' = new /\ bound' = [bound EXCEPT ![stage] = Texture(key)]
         ELSE /\ r' = freed /\ bound' = [bound EXCEPT ![stage] = Nothing] /\ UNCHANGED ideal
      /\ UNCHANGED <<blocks, aimed>>
  BY DEF SetTexture
<1>2. freed = IF known THEN s ELSE bare
  BY DEF Bind
<1> HIDE DEF freed, t, new
<1>3. /\ s \in State /\ Linked(s) /\ SameBatch(r, s)
      /\ \A g \in Stages \ {stage} : Sampled(s, g) = Sampled(r, g)
  BY <1>0, Cleared
<1> HIDE DEF s
<1>4. Sound(s, ideal) /\ Unused(s)
  BY <1>0, <1>3, Rebinds
<1>5. /\ bare \in State /\ Linked(bare) /\ SameBatch(r, bare) /\ Sampled(bare, stage) = Nothing
      /\ \A g \in Stages \ {stage} : Sampled(bare, g) = Sampled(r, g)
  BY <1>0, Binds
<1> HIDE DEF bare
<1>6. Sound(bare, ideal) /\ Unused(bare)
  BY <1>0, <1>5, Rebinds
<1>7. CASE known \/ Unbound(freed) # {}
  <2>1. \E from, x : /\ Kept(from, kept, ideal, x, key)
                     /\ from.targets = r.targets /\ from.current = r.current
                     /\ \A g \in Stages \ {stage} : Sampled(from, g) = Sampled(r, g)
    <3>1. CASE same
      <4>1. PICK x \in Find(s, key) : s.textures[x].geometry = geometry
        BY <3>1
      <4>2. kept = s
        BY <3>1
      <4>3. x \in Slots /\ s.textures[x] # Empty /\ s.textures[x].key = key
            /\ s.textures[x].image \in Images
        BY <1>3, Founds, Live
      <4> HIDE DEF kept
      <4>4. Kept(s, kept, ideal, x, key)
        BY <1>4, <4>2, <4>3 DEF Kept
      <4> QED
        BY <1>3, <4>4 DEF SameBatch
    <3>2. CASE known /\ ~same
      <4>1. PICK x \in Slots : Made(s, Replace(s, key, geometry), ideal, x, key)
        BY <1>4, <3>2, Replaces
      <4>2. kept = Replace(s, key, geometry)
        BY <3>2
      <4> HIDE DEF kept
      <4>3. Kept(s, kept, ideal, x, key)
        BY <1>0, <4>1, <4>2, MadeIsKept
      <4> QED
        BY <1>3, <4>3 DEF SameBatch
    <3>3. CASE ~known
      <4>1. freed = bare /\ Find(bare, key) = {} /\ Unbound(bare) # {}
        <5>1. Find(bare, key) = Find(r, key) /\ Find(s, key) = Find(r, key)
          BY <1>3, <1>5, SameFinds
        <5> QED
          BY <1>2, <1>7, <3>3, <5>1
      <4>2. PICK x \in Slots : Made(bare, Evict(bare, key, geometry), ideal, x, key)
        BY <1>6, <4>1, Evicts
      <4>3. kept = Evict(bare, key, geometry)
        BY <3>3, <4>1
      <4> HIDE DEF kept
      <4>4. Kept(bare, kept, ideal, x, key)
        BY <1>0, <4>2, <4>3, MadeIsKept
      <4> QED
        BY <1>5, <4>4 DEF SameBatch
    <3> QED
      BY <3>1, <3>2, <3>3
  <2>2. PICK from, x : /\ Kept(from, kept, ideal, x, key)
                       /\ from.targets = r.targets /\ from.current = r.current
                       /\ \A g \in Stages \ {stage} : Sampled(from, g) = Sampled(r, g)
    BY <2>1
  <2> HIDE DEF kept
  <2>3. slot = x /\ kept \in State /\ Linked(kept)
    <3>1. kept \in State /\ Linked(kept)
      BY <2>2 DEF Kept, Sound
    <3>2. Find(kept, key) = {x}
      BY <2>2, <3>1, TextureFound DEF Kept
    <3> QED
      BY <3>1, <3>2
  <2> HIDE DEF slot
  <2>4. LiveIn(kept) \subseteq Surfaces /\ image \in Surfaces /\ image \in LiveIn(kept)
    BY <2>2, <2>3, Live DEF Kept, Surfaces
  <2>5. pixels \in Contents /\ Blank \in Paints
    BY Colours
  <2>6. Painted(pixels) \in Paints /\ DOMAIN ideal = Surfaces /\ \A j \in Surfaces : ideal[j] \in Paints
    BY <1>0, <2>5 DEF Painted, Paints, Painting
  <2> HIDE DEF image
  <2>7. /\ new \in Painting /\ new[image] = Painted(pixels)
        /\ \A j \in LiveIn(kept) \ {image} : new[j] = ideal[j]
    <3>1. new = [i \in Surfaces |-> CASE i = image -> Painted(pixels)
                                      [] i \notin LiveIn(kept) -> Blank
                                      [] OTHER -> ideal[i]]
      BY <2>6 DEF new, Painted
    <3>2. \A i \in Surfaces : new[i] = CASE i = image -> Painted(pixels)
                                         [] i \notin LiveIn(kept) -> Blank
                                         [] OTHER -> ideal[i]
      BY <3>1
    <3>3. \A i \in Surfaces : new[i] \in Paints
      BY <2>5, <2>6, <3>2
    <3>4. new \in Painting
      BY <3>1, <3>3 DEF Painting
    <3>5. new[image] = Painted(pixels)
      BY <2>4, <3>2
    <3>6. ASSUME NEW j \in LiveIn(kept) \ {image} PROVE new[j] = ideal[j]
      BY <2>4, <3>2
    <3> QED
      BY <3>4, <3>5, <3>6
  <2>8. /\ Sound(t, new) /\ Unused(t) /\ t.targets = from.targets /\ t.current = from.current
        /\ Sampled(t, stage) = Texture(key)
        /\ \A g \in Stages \ {stage} : Sampled(t, g) = Sampled(from, g)
    <3>1. t = Bind(Upload(kept, slot, pixels), stage, slot) /\ image = kept.textures[slot].image
      BY DEF t, image
    <3> QED
      BY <2>2, <2>3, <2>7, <3>1, UploadsKept
  <2>9. [bound EXCEPT ![stage] = Texture(key)] = [g \in Stages |-> Sampled(t, g)]
    <3>1. \A g \in Stages \ {stage} : Sampled(t, g) = Sampled(r, g)
      BY <2>2, <2>8
    <3> QED
      BY <2>8, <3>1, BoundAt
  <2>10. /\ r' = t /\ ideal' = new /\ UNCHANGED <<blocks, aimed>>
         /\ bound' = [g \in Stages |-> Sampled(t, g)]
    BY <1>1, <1>7, <2>9
  <2>11. /\ Sound(r', ideal') /\ Unused(r') /\ bound' = [g \in Stages |-> Sampled(r', g)]
         /\ r'.current = r.current /\ r'.targets = r.targets
    BY <2>2, <2>8, <2>10
  <2> QED
    BY <1>0, <2>10, <2>11 DEF IInv
<1>8. CASE ~(known \/ Unbound(freed) # {})
  <2>1. /\ r' = bare /\ UNCHANGED <<ideal, blocks, aimed>>
        /\ bound' = [bound EXCEPT ![stage] = Nothing]
    BY <1>1, <1>2, <1>8
  <2>2. [bound EXCEPT ![stage] = Nothing] = [g \in Stages |-> Sampled(bare, g)]
    BY <1>5, BoundAt
  <2> QED
    BY <1>0, <1>5, <2>1, <2>2, Rebound
<1> QED
  BY <1>7, <1>8

LEMMA Releasing ==
    ASSUME IInv, NEW key \in TextureKeys, ReleaseTexture(key)
    PROVE  IInv'
<1> DEFINE s == SubmitFrame(r)
           slot == CHOOSE t \in Find(r, key) : TRUE
           image == r.textures[slot].image
           t == Removed(s, slot)
           new == [ideal EXCEPT ![image] = Blank]
<1>0. /\ Sound(r, ideal) /\ Unused(r) /\ r \in State /\ Linked(r) /\ blocks \in Seq(Block)
      /\ ideal \in Painting /\ aimed = IF r.current = 0 THEN Main ELSE r.targets[r.current].key
      /\ bound = [stage \in Stages |-> Sampled(r, stage)]
  BY DEF IInv, Sound
<1>1. slot \in Slots /\ r.textures[slot] # Empty /\ r.textures[slot].key = key
  <2>1. Find(r, key) # {}
    BY DEF ReleaseTexture
  <2> QED
    BY <1>0, <2>1, Founds
<1>2. r' = t /\ ideal' = new /\ bound' = BoundWithout(Texture(key)) /\ UNCHANGED <<blocks, aimed>>
  BY DEF ReleaseTexture, Removed, TextureImage
<1> HIDE DEF slot
<1>3. Sound(s, ideal) /\ Unused(s) /\ Quiet(s) /\ SameLinks(r, s)
  BY <1>0, Submits DEF Quiet
<1> HIDE DEF s
<1>4. s \in State /\ Linked(s) /\ s.textures[slot] # Empty /\ s.textures[slot].key = key
      /\ s.textures[slot].image = image
  BY <1>1, <1>3 DEF Sound, SameLinks
<1>5. /\ Sound(t, ideal) /\ Unused(t)
      /\ \A u \in Slots \ {slot} : t.textures[u].key = s.textures[u].key
      /\ LiveIn(t) = LiveIn(s) \ {image}
      /\ t.targets = s.targets /\ t.current = s.current /\ t.overrideKey = s.overrideKey
      /\ \A g \in Stages : t.stageTexture[g] = IF s.stageTexture[g] = slot THEN None
                                               ELSE s.stageTexture[g]
  <2>1. t = Removed(s, slot)
    OBVIOUS
  <2> HIDE DEF t, image
  <2> QED
    BY <1>1, <1>3, <1>4, <2>1, Destroys
<1> HIDE DEF t
<1>6. Sound(t, new)
  <2>1. new \in Painting
    BY <1>0, Colours DEF Painting
  <2>2. LiveIn(t) \subseteq Surfaces
    BY <1>5, Live DEF Sound
  <2>3. \A j \in LiveIn(t) : new[j] = ideal[j]
    BY <1>0, <1>5, <2>2 DEF Painting
  <2> HIDE DEF new
  <2> QED
    BY <1>5, <2>1, <2>3, OtherIdeal
<1> HIDE DEF new, image
<1>7. ASSUME NEW g \in Stages
      PROVE  Sampled(t, g) = IF Sampled(r, g) = Texture(key) THEN Nothing ELSE Sampled(r, g)
  <2>1. Sampled(r, g) = Sampled(s, g)
    BY <1>3, LinksKept
  <2>2. s.stageTexture[g] # None => /\ s.stageTexture[g] \in Slots
                                    /\ s.textures[s.stageTexture[g]] # Empty
    BY <1>4 DEF State, Linked
  <2>3. s.overrideView[g] # None => s.stageTexture[g] = None
    BY <1>4 DEF Linked
  <2>4. s.overrideView[g] = None <=> s.overrideKey[g] = None
    BY <1>4 DEF Linked
  <2>5. \A k : Target(k) # Texture(key)
    BY DEF Target, Texture
  <2>6. Nothing # Texture(key)
    BY DEF Nothing, Texture
  <2>7. CASE s.overrideKey[g] # None
    BY <1>5, <2>1, <2>5, <2>7 DEF Sampled
  <2>8. CASE s.overrideKey[g] = None /\ s.stageTexture[g] = None
    BY <1>5, <2>1, <2>6, <2>8 DEF Sampled
  <2>9. CASE s.overrideKey[g] = None /\ s.stageTexture[g] # None
    <3> DEFINE x == s.stageTexture[g]
    <3>0. x \in Slots /\ s.textures[x] # Empty /\ Sampled(s, g) = Texture(s.textures[x].key)
      BY <2>2, <2>9 DEF Sampled
    <3>1. CASE x = slot
      <4>1. t.stageTexture[g] = None /\ t.overrideKey[g] = None
        BY <1>5, <2>9, <3>1
      <4> QED
        BY <1>4, <2>1, <3>0, <3>1, <4>1 DEF Sampled
    <3>2. CASE x # slot
      <4>1. t.stageTexture[g] = x /\ t.overrideKey[g] = None
        BY <1>5, <2>9, <3>2
      <4>2. t.textures[x].key = s.textures[x].key
        BY <1>5, <3>0, <3>2
      <4>3. Sampled(t, g) = Texture(s.textures[x].key)
        BY <2>9, <4>1, <4>2 DEF Sampled
      <4>4. s.textures[x].key # key
        BY <1>1, <1>4, <3>0, <3>2 DEF Linked
      <4>5. Texture(s.textures[x].key) # Texture(key)
        BY <4>4 DEF Texture
      <4> QED
        BY <2>1, <3>0, <4>3, <4>5
    <3> QED
      BY <3>1, <3>2
  <2> QED
    BY <2>7, <2>8, <2>9
<1>8. BoundWithout(Texture(key)) = [g \in Stages |-> Sampled(t, g)]
  BY <1>0, <1>7 DEF BoundWithout
<1>9. /\ Sound(r', ideal') /\ Unused(r') /\ bound' = [g \in Stages |-> Sampled(r', g)]
      /\ r'.current = r.current /\ r'.targets = r.targets
  BY <1>2, <1>3, <1>5, <1>6, <1>8 DEF SameLinks
<1> QED
  BY <1>0, <1>2, <1>9 DEF IInv

-----------------------------------------------------------------------------
(* Render targets *)

Registered(s, key, image, geometry) ==
    [s EXCEPT !.targets = Append(s.targets, [key |-> key, image |-> image, geometry |-> geometry]),
              !.current = Len(s.targets) + 1]

(* A target enters the registry, between batches, and is drawn to. *)
LEMMA Registers ==
    ASSUME NEW s, NEW want, Sound(s, want), Unused(s), Quiet(s),
           NEW key \in TargetKeys, FindTarget(s, key) = {}, NEW geometry \in TargetSizes,
           Len(s.targets) < MaxTargets, NEW image \in Images, image \notin LiveIn(s),
           NEW t, t = Registered(s, key, image, geometry)
    PROVE  /\ Sound(t, [want EXCEPT ![image] = Blank]) /\ Unused(t)
           /\ t.current # 0 /\ t.targets[t.current].key = key
           /\ TargetImage(t, key) = image
           /\ \A g \in Stages : Sampled(t, g) = Sampled(s, g)
<1> DEFINE e == [key |-> key, image |-> image, geometry |-> geometry]
           n == Len(s.targets)
           q == Append(s.targets, e)
           new == [want EXCEPT ![image] = Blank]
<1>1. s \in State /\ Linked(s) /\ Tracked(s, Run(s)) /\ want \in Painting
  BY DEF Sound, Recorded
<1>2. e \in TargetEntry /\ e.key = key /\ e.image = image
  BY DEF TargetEntry
<1>3. s.targets \in Seq(TargetEntry) /\ n \in Nat
  BY <1>1 DEF State
<1>4. t = [s EXCEPT !.targets = q, !.current = n + 1]
  BY DEF Registered
<1> HIDE DEF e
<1>5. /\ q \in Seq(TargetEntry) /\ Len(q) = n + 1 /\ q[n + 1] = e
      /\ \A i \in 1..n : q[i] = s.targets[i]
  BY <1>2, <1>3
<1> HIDE DEF q, n, new
<1>6. t \in State
  <2>1. q \in Seq(TargetEntry) /\ n + 1 \in Nat
    BY <1>3, <1>5
  <2> DEFINE m == n + 1
  <2>2. t = [s EXCEPT !.targets = q, !.current = m] /\ m \in Nat
    BY <1>4, <2>1
  <2> HIDE DEF m
  <2> QED
    BY <1>1, <2>1, <2>2 DEF State
<1>7. /\ t.targets = q /\ t.current = n + 1 /\ t.textures = s.textures
      /\ t.contents = s.contents /\ t.commands = s.commands /\ t.pending = s.pending
      /\ t.renderingActive = s.renderingActive /\ t.gpuWroteTarget = s.gpuWroteTarget
      /\ t.stageTexture = s.stageTexture /\ t.overrideView = s.overrideView
      /\ t.overrideKey = s.overrideKey /\ t.frameOpen = s.frameOpen
      /\ t.combiner = s.combiner /\ t.combinerActiveSlot = s.combinerActiveSlot
      /\ t.combinerWriteSlot = s.combinerWriteSlot /\ t.combinerDirty = s.combinerDirty
      /\ t.descriptorSetCount = s.descriptorSetCount /\ t.lastConfig = s.lastConfig
  BY <1>1, <1>4 DEF State
<1>8. /\ LiveIn(s) \subseteq Surfaces /\ image \in Surfaces
      /\ \A i \in 1..n : s.targets[i].image \in LiveIn(s)
      /\ \A u \in Slots : s.textures[u] # Empty => s.textures[u].image \in LiveIn(s)
  BY <1>1, Live DEF Surfaces, n
<1>9. LiveIn(t) = LiveIn(s) \cup {image}
  <2>1. {q[i].image : i \in 1..(n + 1)} = {s.targets[i].image : i \in 1..n} \cup {image}
    <3>1. ASSUME NEW i \in 1..(n + 1)
          PROVE  q[i].image \in {s.targets[j].image : j \in 1..n} \cup {image}
      <4>1. CASE i = n + 1
        BY <1>2, <1>5, <4>1
      <4>2. CASE i # n + 1
        <5>1. i \in 1..n
          BY <1>3, <4>2
        <5> QED
          BY <1>5, <5>1
      <4> QED
        BY <4>1, <4>2
    <3>2. ASSUME NEW i \in 1..n PROVE s.targets[i].image \in {q[j].image : j \in 1..(n + 1)}
      <4>1. i \in 1..(n + 1) /\ q[i] = s.targets[i]
        BY <1>3, <1>5
      <4> QED
        BY <4>1
    <3>3. image \in {q[j].image : j \in 1..(n + 1)}
      <4>1. n + 1 \in 1..(n + 1)
        BY <1>3
      <4> QED
        BY <1>2, <1>5, <4>1
    <3> QED
      BY <3>1, <3>2, <3>3
  <2>2. DOMAIN t.targets = 1..(n + 1) /\ DOMAIN s.targets = 1..n
    BY <1>3, <1>5, <1>7 DEF n
  <2>3. LiveIn(t) = {Main, White} \cup {q[i].image : i \in 1..(n + 1)}
                       \cup {s.textures[u].image : u \in {x \in Slots : s.textures[x] # Empty}}
    BY <1>7, <2>2 DEF LiveIn
  <2>4. LiveIn(s) = {Main, White} \cup {s.targets[i].image : i \in 1..n}
                       \cup {s.textures[u].image : u \in {x \in Slots : s.textures[x] # Empty}}
    BY <2>2 DEF LiveIn
  <2> QED
    BY <2>1, <2>3, <2>4
<1>10. Linked(t)
  <2>0. \A i \in 1..n : s.targets[i].key # key /\ s.targets[i].image # image
    <3>1. DOMAIN s.targets = 1..n
      BY <1>3 DEF n
    <3> QED
      BY <1>8, <3>1 DEF FindTarget
  <2>1. ASSUME NEW i \in 1..(n + 1), NEW j \in 1..(n + 1), i # j
        PROVE  q[i].key # q[j].key /\ q[i].image # q[j].image
    <3>1. CASE i = n + 1
      <4>1. j \in 1..n
        BY <1>3, <2>1, <3>1
      <4> QED
        BY <1>2, <1>5, <2>0, <3>1, <4>1
    <3>2. CASE j = n + 1
      <4>1. i \in 1..n
        BY <1>3, <2>1, <3>2
      <4> QED
        BY <1>2, <1>5, <2>0, <3>2, <4>1
    <3>3. CASE i # n + 1 /\ j # n + 1
      <4>1. i \in 1..n /\ j \in 1..n
        BY <1>3, <3>3
      <4> QED
        BY <1>1, <1>5, <2>1, <4>1 DEF Linked, n
    <3> QED
      BY <3>1, <3>2, <3>3
  <2>2. ASSUME NEW u \in Slots, NEW i \in 1..(n + 1) PROVE s.textures[u].image # q[i].image
    <3>1. CASE i = n + 1
      <4>1. s.textures[u].image # image
        <5>1. CASE s.textures[u] = Empty
          BY <1>8, <5>1, Numbers DEF Empty
        <5>2. CASE s.textures[u] # Empty
          BY <1>8, <5>2
        <5> QED
          BY <5>1, <5>2
      <4> QED
        BY <1>2, <1>5, <3>1, <4>1
    <3>2. CASE i # n + 1
      <4>1. i \in 1..n
        BY <1>3, <3>2
      <4> QED
        BY <1>1, <1>5, <4>1 DEF Linked, n
    <3> QED
      BY <3>1, <3>2
  <2>3. ASSUME NEW g \in Stages, s.overrideView[g] # None
        PROVE  \E i \in 1..(n + 1) : /\ q[i].key = s.overrideKey[g]
                                     /\ q[i].image = s.overrideView[g]
    <3>1. PICK i \in 1..n : /\ s.targets[i].key = s.overrideKey[g]
                            /\ s.targets[i].image = s.overrideView[g]
      BY <1>1, <2>3 DEF Linked, n
    <3>2. i \in 1..(n + 1) /\ q[i] = s.targets[i]
      BY <1>3, <1>5
    <3> QED
      BY <3>1, <3>2
  <2>4. n + 1 \in 0..Len(t.targets) /\ Len(t.targets) = n + 1 /\ n + 1 <= MaxTargets
    BY <1>3, <1>5, <1>7, Numbers DEF n
  <2> QED
    BY <1>1, <1>7, <2>1, <2>2, <2>3, <2>4 DEF Linked
<1>11. Unused(t) /\ Quiet(t)
  BY <1>7 DEF Unused, Quiet
<1>12. /\ \A i \in LiveIn(s) : want[i] = s.contents[i]
       /\ \A i \in Surfaces \ LiveIn(s) : s.contents[i] = Blank
       /\ \A u \in Slots : s.textures[u] # Empty => s.contents[s.textures[u].image]["depth"] = None
       /\ s.contents[White] = Opaque
  BY Quiets
<1>13. /\ new \in Painting /\ new[image] = Blank
       /\ \A i \in Surfaces \ {image} : new[i] = want[i]
  BY <1>1, <1>8, Colours DEF Painting, new
<1>14. Sound(t, new)
  <2>1. \A i \in LiveIn(t) : new[i] = t.contents[i]
    BY <1>7, <1>8, <1>9, <1>12, <1>13
  <2>2. \A i \in Surfaces \ LiveIn(t) : t.contents[i] = Blank
    BY <1>7, <1>9, <1>12
  <2>3. ~t.combinerDirty => /\ t.combiner[t.combinerActiveSlot] = t.lastConfig
                            /\ t.combinerActiveSlot < t.combinerWriteSlot
    BY <1>1, <1>7 DEF Tracked
  <2>4. /\ \A u \in Slots : t.textures[u] # Empty => t.contents[t.textures[u].image]["depth"] = None
        /\ t.contents[White] = Opaque
    BY <1>7, <1>12
  <2> QED
    BY <1>6, <1>10, <1>11, <1>13, <2>1, <2>2, <2>3, <2>4, Fresh DEF Quiet
<1>15. t.current # 0 /\ t.targets[t.current].key = key /\ TargetImage(t, key) = image
  <2>1. n + 1 \in 1..Len(t.targets) /\ n + 1 # 0
    BY <1>3, <1>5, <1>7
  <2>2. t.targets[n + 1].key = key /\ t.targets[n + 1].image = image
    BY <1>2, <1>5, <1>7
  <2>3. TargetImage(t, t.targets[n + 1].key) = t.targets[n + 1].image
    BY <1>6, <1>10, <2>1, TargetFound
  <2> QED
    BY <1>7, <2>1, <2>2, <2>3
<1>16. \A g \in Stages : Sampled(t, g) = Sampled(s, g)
  BY <1>7 DEF Sampled
<1> QED
  BY <1>11, <1>14, <1>15, <1>16 DEF new

LEMMA Shortened ==
    ASSUME NEW S, NEW q, q \in Seq(S), NEW i \in 1..Len(q)
    PROVE  LET n == Len(q)
               p == SubSeq([q EXCEPT ![i] = q[n]], 1, n - 1)
           IN  /\ p \in Seq(S) /\ Len(p) = n - 1
               /\ \A j \in 1..(n - 1) : p[j] = IF j = i THEN q[n] ELSE q[j]
<1> DEFINE n == Len(q)
           z == [q EXCEPT ![i] = q[n]]
           p == SubSeq(z, 1, n - 1)
<1>1. n \in Nat /\ n >= 1 /\ n - 1 \in Nat /\ 1..n = DOMAIN q
  OBVIOUS
<1>2. z \in Seq(S) /\ Len(z) = n /\ \A j \in 1..n : z[j] = IF j = i THEN q[n] ELSE q[j]
  OBVIOUS
<1> HIDE DEF n, z
<1>3. p \in Seq(S) /\ Len(p) = n - 1 /\ \A j \in 1..(n - 1) : p[j] = z[j]
  BY <1>1, <1>2
<1> QED
  BY <1>1, <1>2, <1>3 DEF n, z

(* A target leaves the registry, between batches: the last one takes its place,
   and the stages that sample it sample nothing. *)
LEMMA Drops ==
    ASSUME NEW s, NEW want, Sound(s, want), Unused(s), Quiet(s),
           NEW i \in 1..Len(s.targets), NEW t, t = Drop(s, i)
    PROVE  /\ Sound(t, want) /\ Unused(t) /\ Quiet(t)
           /\ Len(t.targets) = Len(s.targets) - 1
           /\ FindTarget(t, s.targets[i].key) = {}
           /\ t.current = 0 <=> s.current \in {0, i}
           /\ t.current # 0 => t.targets[t.current].key = s.targets[s.current].key
           /\ LiveIn(t) = LiveIn(s) \ {s.targets[i].image}
           /\ \A g \in Stages :
                 Sampled(t, g) = IF Sampled(s, g) = Target(s.targets[i].key) THEN Nothing
                                 ELSE Sampled(s, g)
<1> DEFINE n == Len(s.targets)
           key == s.targets[i].key
           image == s.targets[i].image
           p == SubSeq([s.targets EXCEPT ![i] = s.targets[n]], 1, n - 1)
           cur == CASE s.current = i -> 0 [] s.current = n /\ s.current # i -> i
                    [] OTHER -> s.current
           x == [g \in Stages |-> IF s.overrideView[g] = image THEN None ELSE s.overrideView[g]]
           k == [g \in Stages |-> IF s.overrideKey[g] = key THEN None ELSE s.overrideKey[g]]
           c == [s.contents EXCEPT ![image] = Blank]
<1>1. s \in State /\ Linked(s) /\ Tracked(s, Run(s)) /\ want \in Painting
  BY DEF Sound, Recorded
<1>2. /\ s.targets \in Seq(TargetEntry) /\ n \in Nat /\ s.contents \in Painting
      /\ s.overrideView \in [Stages -> Images \cup {None}]
      /\ s.overrideKey \in [Stages -> TargetKeys \cup {None}] /\ s.current \in Nat
  BY <1>1 DEF State
<1>3. t = [s EXCEPT !.targets = p, !.current = cur, !.contents = c,
                    !.overrideView = x, !.overrideKey = k]
  BY <1>1 DEF Drop, UnbindTarget, Bury, State
<1>4. /\ p \in Seq(TargetEntry) /\ Len(p) = n - 1
      /\ \A j \in 1..(n - 1) : p[j] = IF j = i THEN s.targets[n] ELSE s.targets[j]
  BY <1>2, Shortened
<1>5. /\ i \in 1..n /\ n >= 1 /\ s.targets[i] \in TargetEntry /\ image \in Images
      /\ image \in Surfaces /\ key \in TargetKeys /\ key # None /\ image # None
      /\ \A j \in 1..n : s.targets[j].image \in LiveIn(s)
      /\ LiveIn(s) \subseteq Surfaces
  <2>1. s.targets[i] \in TargetEntry
    BY <1>2
  <2> QED
    BY <1>1, <1>2, <2>1, Live, Numbers DEF TargetEntry, Surfaces
<1>6. x \in [Stages -> Images \cup {None}] /\ k \in [Stages -> TargetKeys \cup {None}]
  BY <1>2
<1>7. /\ c \in Painting /\ c[image] = Blank /\ \A j \in Surfaces \ {image} : c[j] = s.contents[j]
  BY <1>2, <1>5, Colours DEF Painting
<1>8. /\ cur \in Nat /\ cur <= n - 1
      /\ cur = 0 <=> s.current \in {0, i}
      /\ cur # 0 => cur \in 1..(n - 1) /\ s.current \in 1..n
                    /\ IF cur = i THEN s.current = n ELSE s.current = cur
  <2>1. s.current \in 0..n
    BY <1>1 DEF Linked
  <2> QED
    BY <1>2, <1>5, <2>1
<1>9. /\ \A g \in Stages : x[g] = IF s.overrideView[g] = image THEN None ELSE s.overrideView[g]
      /\ \A g \in Stages : k[g] = IF s.overrideKey[g] = key THEN None ELSE s.overrideKey[g]
  OBVIOUS
<1> HIDE DEF p, cur, x, k, c, key, image, n
<1>10. t \in State
  <2>1. p \in Seq(TargetEntry) /\ cur \in Nat /\ c \in Painting
    BY <1>4, <1>7, <1>8
  <2> QED
    BY <1>1, <1>3, <1>6, <2>1 DEF State
<1>11. /\ t.targets = p /\ t.current = cur /\ t.contents = c
       /\ t.overrideView = x /\ t.overrideKey = k
       /\ t.textures = s.textures /\ t.commands = s.commands /\ t.pending = s.pending
       /\ t.renderingActive = s.renderingActive /\ t.gpuWroteTarget = s.gpuWroteTarget
       /\ t.stageTexture = s.stageTexture /\ t.frameOpen = s.frameOpen
       /\ t.combiner = s.combiner /\ t.combinerActiveSlot = s.combinerActiveSlot
       /\ t.combinerWriteSlot = s.combinerWriteSlot /\ t.combinerDirty = s.combinerDirty
       /\ t.descriptorSetCount = s.descriptorSetCount /\ t.lastConfig = s.lastConfig
  BY <1>1, <1>3 DEF State
<1> DEFINE From(j) == IF j = i THEN n ELSE j
<1>12. /\ \A j \in 1..(n - 1) : From(j) \in 1..n /\ From(j) # i /\ p[j] = s.targets[From(j)]
       /\ \A j, m \in 1..(n - 1) : j # m => From(j) # From(m)
       /\ \A j \in 1..n : j # i => \E m \in 1..(n - 1) : p[m] = s.targets[j]
  <2>1. \A j \in 1..(n - 1) : From(j) \in 1..n /\ From(j) # i /\ p[j] = s.targets[From(j)]
    BY <1>2, <1>4, <1>5
  <2>2. \A j, m \in 1..(n - 1) : j # m => From(j) # From(m)
    BY <1>2, <1>5
  <2>3. ASSUME NEW j \in 1..n, j # i PROVE \E m \in 1..(n - 1) : p[m] = s.targets[j]
    <3>1. CASE j = n
      <4>1. i \in 1..(n - 1) /\ p[i] = s.targets[n]
        BY <1>2, <1>4, <1>5, <2>3, <3>1
      <4> QED
        BY <3>1, <4>1
    <3>2. CASE j # n
      <4>1. j \in 1..(n - 1) /\ p[j] = s.targets[j]
        BY <1>2, <1>4, <2>3, <3>2
      <4> QED
        BY <4>1
    <3> QED
      BY <3>1, <3>2
  <2> QED
    BY <2>1, <2>2, <2>3
<1> HIDE DEF From
<1>13. /\ \A j, m \in 1..n : j # m => /\ s.targets[j].key # s.targets[m].key
                                      /\ s.targets[j].image # s.targets[m].image
       /\ \A u \in Slots, j \in 1..n : s.textures[u].image # s.targets[j].image
       /\ \A g \in Stages : s.overrideView[g] = None <=> s.overrideKey[g] = None
       /\ \A g \in Stages : s.overrideView[g] # None =>
             /\ s.stageTexture[g] = None
             /\ \E j \in 1..n : /\ s.targets[j].key = s.overrideKey[g]
                                /\ s.targets[j].image = s.overrideView[g]
  BY <1>1 DEF Linked, n
<1>14. \A g \in Stages : s.overrideView[g] = image <=> s.overrideKey[g] = key
  <2>1. ASSUME NEW g \in Stages, s.overrideView[g] = image \/ s.overrideKey[g] = key
        PROVE  s.overrideView[g] = image /\ s.overrideKey[g] = key
    <3>1. s.overrideView[g] # None
      BY <1>5, <1>13, <2>1
    <3>2. PICK j \in 1..n : /\ s.targets[j].key = s.overrideKey[g]
                            /\ s.targets[j].image = s.overrideView[g]
      BY <1>13, <3>1
    <3>3. j = i
      BY <1>5, <1>13, <2>1, <3>2 DEF key, image
    <3> QED
      BY <3>2, <3>3 DEF key, image
  <2> QED
    BY <2>1
<1>15. Linked(t)
  <2>1. ASSUME NEW j \in 1..(n - 1), NEW m \in 1..(n - 1), j # m
        PROVE  p[j].key # p[m].key /\ p[j].image # p[m].image
    <3>1. From(j) \in 1..n /\ From(m) \in 1..n /\ From(j) # From(m)
          /\ p[j] = s.targets[From(j)] /\ p[m] = s.targets[From(m)]
      BY <1>12, <2>1
    <3> QED
      BY <1>13, <3>1
  <2>2. ASSUME NEW u \in Slots, NEW j \in 1..(n - 1) PROVE s.textures[u].image # p[j].image
    BY <1>12, <1>13
  <2>3. \A g \in Stages : x[g] = None <=> k[g] = None
    BY <1>5, <1>9, <1>13, <1>14
  <2>4. ASSUME NEW g \in Stages, x[g] # None
        PROVE  /\ s.stageTexture[g] = None
               /\ \E j \in 1..(n - 1) : p[j].key = k[g] /\ p[j].image = x[g]
    <3>1. x[g] = s.overrideView[g] /\ k[g] = s.overrideKey[g] /\ s.overrideView[g] # image
      BY <1>9, <1>14, <2>4
    <3>2. PICK j \in 1..n : /\ s.targets[j].key = s.overrideKey[g]
                            /\ s.targets[j].image = s.overrideView[g]
      BY <1>13, <2>4, <3>1
    <3>3. j # i
      BY <3>1, <3>2 DEF image
    <3> QED
      BY <1>12, <1>13, <2>4, <3>1, <3>2, <3>3
  <2>5. cur \in 0..(n - 1) /\ n - 1 <= MaxTargets
    <3>1. n <= MaxTargets /\ MaxTargets \in Nat
      BY <1>1, Numbers DEF Linked, n
    <3> QED
      BY <1>2, <1>5, <1>8, <3>1
  <2> QED
    BY <1>1, <1>4, <1>11, <2>1, <2>2, <2>3, <2>4, <2>5 DEF Linked
<1>16. LiveIn(t) = LiveIn(s) \ {image}
  <2>1. {p[j].image : j \in 1..(n - 1)} = {s.targets[j].image : j \in 1..n} \ {image}
    <3>1. ASSUME NEW j \in 1..(n - 1)
          PROVE  p[j].image \in {s.targets[m].image : m \in 1..n} \ {image}
      BY <1>5, <1>12, <1>13 DEF image
    <3>2. ASSUME NEW j \in 1..n, s.targets[j].image # image
          PROVE  s.targets[j].image \in {p[m].image : m \in 1..(n - 1)}
      <4>1. j # i
        BY <3>2 DEF image
      <4>2. PICK m \in 1..(n - 1) : p[m] = s.targets[j]
        BY <1>12, <4>1
      <4> QED
        BY <4>2
    <3> QED
      BY <3>1, <3>2
  <2>2. Main # image /\ White # image /\ \A u \in Slots : s.textures[u].image # image
    BY <1>5, <1>13, Numbers DEF image
  <2>3. DOMAIN t.targets = 1..(n - 1) /\ DOMAIN s.targets = 1..n
    BY <1>2, <1>4, <1>11 DEF n
  <2>4. LiveIn(t) = {Main, White} \cup {p[j].image : j \in 1..(n - 1)}
                       \cup {s.textures[u].image : u \in {y \in Slots : s.textures[y] # Empty}}
    BY <1>11, <2>3 DEF LiveIn
  <2>5. LiveIn(s) = {Main, White} \cup {s.targets[j].image : j \in 1..n}
                       \cup {s.textures[u].image : u \in {y \in Slots : s.textures[y] # Empty}}
    BY <2>3 DEF LiveIn
  <2> QED
    BY <2>1, <2>2, <2>4, <2>5
<1>17. Unused(t) /\ Quiet(t)
  BY <1>11 DEF Unused, Quiet
<1>18. /\ \A j \in LiveIn(s) : want[j] = s.contents[j]
       /\ \A j \in Surfaces \ LiveIn(s) : s.contents[j] = Blank
       /\ \A u \in Slots : s.textures[u] # Empty => s.contents[s.textures[u].image]["depth"] = None
       /\ s.contents[White] = Opaque
  BY Quiets
<1>19. Sound(t, want)
  <2>1. \A j \in LiveIn(t) : want[j] = t.contents[j]
    BY <1>5, <1>7, <1>11, <1>16, <1>18
  <2>2. \A j \in Surfaces \ LiveIn(t) : t.contents[j] = Blank
    BY <1>7, <1>11, <1>16, <1>18
  <2>3. ~t.combinerDirty => /\ t.combiner[t.combinerActiveSlot] = t.lastConfig
                            /\ t.combinerActiveSlot < t.combinerWriteSlot
    BY <1>1, <1>11 DEF Tracked
  <2>4. ASSUME NEW u \in Slots, t.textures[u] # Empty
        PROVE  t.contents[t.textures[u].image]["depth"] = None
    <3>1. s.textures[u].image \in Surfaces \ {image}
      BY <1>1, <1>5, <1>11, <1>13, <2>4, Live DEF image
    <3> QED
      BY <1>7, <1>11, <1>18, <2>4, <3>1
  <2>5. t.contents[White] = Opaque
    <3>1. White \in Surfaces \ {image}
      BY <1>5, Numbers DEF Surfaces
    <3> QED
      BY <1>7, <1>11, <1>18, <3>1
  <2> QED
    BY <1>1, <1>10, <1>15, <1>17, <2>1, <2>2, <2>3, <2>4, <2>5, Fresh DEF Quiet
<1>20. FindTarget(t, key) = {}
  <2>1. \A j \in 1..(n - 1) : p[j].key # key
    BY <1>5, <1>12, <1>13 DEF key
  <2>2. DOMAIN t.targets = 1..(n - 1)
    BY <1>4, <1>11
  <2> QED
    BY <1>11, <2>1, <2>2 DEF FindTarget
<1>21. cur # 0 => p[cur].key = s.targets[s.current].key
  BY <1>8, <1>12 DEF From
<1>22. ASSUME NEW g \in Stages
       PROVE  Sampled(t, g) = IF Sampled(s, g) = Target(key) THEN Nothing ELSE Sampled(s, g)
  <2>1. \A a : Target(a) = Target(key) <=> a = key
    BY DEF Target
  <2>2. \A a : Texture(a) # Target(key)
    BY DEF Texture, Target
  <2>3. Nothing # Target(key)
    BY DEF Nothing, Target
  <2>4. CASE s.overrideKey[g] = key
    <3>1. k[g] = None /\ s.stageTexture[g] = None /\ Sampled(s, g) = Target(key)
      BY <1>5, <1>9, <1>13, <2>4 DEF Sampled
    <3> QED
      BY <1>11, <3>1 DEF Sampled
  <2>5. CASE s.overrideKey[g] # key
    <3>1. k[g] = s.overrideKey[g]
      BY <1>9, <2>5
    <3>2. Sampled(t, g) = Sampled(s, g)
      BY <1>11, <3>1 DEF Sampled
    <3>3. Sampled(s, g) # Target(key)
      BY <2>1, <2>2, <2>3, <2>5 DEF Sampled
    <3> QED
      BY <3>2, <3>3
  <2> QED
    BY <2>4, <2>5
<1> QED
  BY <1>4, <1>8, <1>11, <1>16, <1>17, <1>19, <1>20, <1>21, <1>22 DEF n, key, image

LEMMA ReleasingTarget ==
    ASSUME IInv, NEW key \in TargetKeys, ReleaseRenderTarget(key)
    PROVE  IInv'
<1> DEFINE s == SubmitFrame(r)
           i == CHOOSE j \in FindTarget(r, key) : TRUE
           image == r.targets[i].image
           t == Drop(s, i)
           new == [ideal EXCEPT ![image] = Blank]
<1>0. /\ Sound(r, ideal) /\ Unused(r) /\ r \in State /\ Linked(r) /\ blocks \in Seq(Block)
      /\ ideal \in Painting /\ aimed = IF r.current = 0 THEN Main ELSE r.targets[r.current].key
      /\ bound = [stage \in Stages |-> Sampled(r, stage)]
  BY DEF IInv, Sound
<1>1. i \in 1..Len(r.targets) /\ r.targets[i].key = key
  <2>1. FindTarget(r, key) # {}
    BY DEF ReleaseRenderTarget
  <2> QED
    BY <1>0, <2>1, Founds
<1>2. /\ r' = t /\ ideal' = new /\ bound' = BoundWithout(Target(key)) /\ UNCHANGED blocks
      /\ aimed' = IF aimed = key THEN Main ELSE aimed
  BY DEF ReleaseRenderTarget, TargetImage
<1> HIDE DEF i
<1>3. Sound(s, ideal) /\ Unused(s) /\ Quiet(s) /\ SameLinks(r, s)
  BY <1>0, Submits DEF Quiet
<1> HIDE DEF s
<1>4. s.targets = r.targets /\ s.current = r.current
  BY <1>3 DEF SameLinks
<1>5. /\ Sound(t, ideal) /\ Unused(t)
      /\ t.current = 0 <=> s.current \in {0, i}
      /\ t.current # 0 => t.targets[t.current].key = s.targets[s.current].key
      /\ LiveIn(t) = LiveIn(s) \ {image}
      /\ \A g \in Stages :
            Sampled(t, g) = IF Sampled(s, g) = Target(key) THEN Nothing ELSE Sampled(s, g)
  <2>1. t = Drop(s, i) /\ i \in 1..Len(s.targets)
        /\ s.targets[i].image = image /\ s.targets[i].key = key
    BY <1>1, <1>4
  <2> HIDE DEF t, image, new
  <2>2. Sound(t, ideal) /\ Unused(t)
    BY <1>3, <2>1, Drops
  <2>3. t.current = 0 <=> s.current \in {0, i}
    BY <1>3, <2>1, Drops
  <2>4. t.current # 0 => t.targets[t.current].key = s.targets[s.current].key
    BY <1>3, <2>1, Drops
  <2>5. LiveIn(t) = LiveIn(s) \ {s.targets[i].image}
    BY <1>3, <2>1, Drops
  <2>6. \A g \in Stages :
           Sampled(t, g) = IF Sampled(s, g) = Target(s.targets[i].key) THEN Nothing
                           ELSE Sampled(s, g)
    BY <1>3, <2>1, Drops
  <2> QED
    BY <2>1, <2>2, <2>3, <2>4, <2>5, <2>6
<1> HIDE DEF t
<1>6. Sound(t, new)
  <2>1. new \in Painting
    BY <1>0, Colours DEF Painting
  <2>2. LiveIn(t) \subseteq Surfaces
    BY <1>5, Live DEF Sound
  <2>3. \A j \in LiveIn(t) : new[j] = ideal[j]
    BY <1>0, <1>5, <2>2 DEF Painting
  <2> HIDE DEF new
  <2> QED
    BY <1>5, <2>1, <2>3, OtherIdeal
<1> HIDE DEF new, image
<1>7. BoundWithout(Target(key)) = [g \in Stages |-> Sampled(t, g)]
  <2>1. \A g \in Stages : Sampled(s, g) = Sampled(r, g)
    BY <1>3, LinksKept
  <2> QED
    BY <1>0, <1>5, <2>1 DEF BoundWithout
<1>8. (IF aimed = key THEN Main ELSE aimed)
        = IF t.current = 0 THEN Main ELSE t.targets[t.current].key
  <2>1. key # Main
    BY Numbers
  <2>2. CASE r.current = 0
    BY <1>0, <1>4, <1>5, <2>1, <2>2
  <2>3. CASE r.current = i
    BY <1>0, <1>1, <1>4, <1>5, <2>3
  <2>4. CASE r.current \notin {0, i}
    <3>1. r.current \in 1..Len(r.targets)
      BY <1>0, <2>4 DEF Linked, State
    <3>2. r.targets[r.current].key # key
      BY <1>0, <1>1, <2>4, <3>1 DEF Linked
    <3> QED
      BY <1>0, <1>4, <1>5, <2>4, <3>2
  <2> QED
    BY <2>2, <2>3, <2>4
<1>9. /\ Sound(r', ideal') /\ Unused(r') /\ bound' = [g \in Stages |-> Sampled(r', g)]
      /\ aimed' = IF r'.current = 0 THEN Main ELSE r'.targets[r'.current].key
  BY <1>2, <1>5, <1>6, <1>7, <1>8
<1> QED
  BY <1>0, <1>2, <1>9 DEF IInv

(* What making room for a target leaves: no target has its key. *)
Vacant(s, t, key) ==
    /\ FindTarget(t, key) = {} /\ Unused(t)
    /\ \A g \in Stages :
          Sampled(t, g) = IF Sampled(s, g) = Target(key) THEN Nothing ELSE Sampled(s, g)

AtLast(s) == [s EXCEPT !.current = Len(s.targets)]

(* A target that has just entered the registry is empty and drawn to. *)
Installed(s, u, key) ==
    /\ Unused(u) /\ u.current # 0 /\ u.targets[u.current].key = key
    /\ \A g \in Stages :
          Sampled(u, g) = IF Sampled(s, g) = Target(key) THEN Nothing ELSE Sampled(s, g)

LEMMA Created ==
    ASSUME NEW s, NEW t, NEW want, Sound(t, want), NEW key \in TargetKeys, Vacant(s, t, key),
           NEW geometry \in TargetSizes, Len(t.targets) < MaxTargets,
           NEW made, made = CreateRenderableTarget(t, key, geometry),
           NEW u, u = AtLast(made)
    PROVE  /\ Sound(u, [want EXCEPT ![TargetImage(made, key)] = Blank])
           /\ Installed(s, u, key)
<1> DEFINE v == SubmitFrame(t)
           image == NewImage(v)
<1>1. Sound(v, want) /\ Unused(v) /\ Quiet(v) /\ SameLinks(t, v)
  BY Submits DEF Quiet, Vacant
<1>2. made = [v EXCEPT !.targets = Append(v.targets, [key |-> key, image |-> image,
                                                      geometry |-> geometry])]
  BY DEF CreateRenderableTarget
<1> HIDE DEF v
<1>3. image \in Images /\ image \notin LiveIn(v)
  BY <1>1, NewImages
<1> HIDE DEF image
<1>4. v \in State /\ v.targets \in Seq(TargetEntry) /\ Len(v.targets) \in Nat
      /\ Len(v.targets) < MaxTargets
  BY <1>1 DEF Sound, State, SameLinks
<1> DEFINE e == [key |-> key, image |-> image, geometry |-> geometry]
<1>5. e \in TargetEntry
  BY <1>3 DEF TargetEntry
<1> HIDE DEF e
<1>6. Len(Append(v.targets, e)) = Len(v.targets) + 1
  BY <1>4, <1>5
<1>7. made.targets = Append(v.targets, e)
  BY <1>2, <1>4 DEF State, e
<1>8. u = Registered(v, key, image, geometry)
  <2> DEFINE q == Append(v.targets, e)
             m == Len(v.targets) + 1
  <2>1. made = [v EXCEPT !.targets = q] /\ Len(made.targets) = m
    BY <1>2, <1>6, <1>7 DEF e
  <2>2. u = [[v EXCEPT !.targets = q] EXCEPT !.current = m]
    BY <2>1 DEF AtLast
  <2>3. Registered(v, key, image, geometry) = [v EXCEPT !.targets = q, !.current = m]
    BY DEF Registered, e
  <2> HIDE DEF q, m
  <2> QED
    BY <2>2, <2>3
<1>9. FindTarget(v, key) = {} /\ \A g \in Stages : Sampled(v, g) = Sampled(t, g)
  BY <1>1, LinksKept DEF Vacant
<1>10. /\ Sound(u, [want EXCEPT ![image] = Blank]) /\ Unused(u)
       /\ u.current # 0 /\ u.targets[u.current].key = key
       /\ TargetImage(u, key) = image
       /\ \A g \in Stages : Sampled(u, g) = Sampled(v, g)
  BY <1>1, <1>3, <1>4, <1>8, <1>9, Registers
<1>11. TargetImage(made, key) = TargetImage(u, key)
  <2>1. u.targets = made.targets
    BY <1>2, <1>4 DEF State, AtLast
  <2> QED
    BY <2>1 DEF TargetImage, FindTarget
<1> QED
  BY <1>9, <1>10, <1>11 DEF Vacant, Installed

LEMMA SettingTarget ==
    ASSUME IInv, NEW key \in TargetKeys, NEW geometry \in TargetSizes,
           SetRenderTarget(key, geometry)
    PROVE  IInv'
<1> DEFINE s == FlushPendingClears(r)
           i == CHOOSE j \in FindTarget(s, key) : TRUE
           known == FindTarget(s, key) # {}
           same == known /\ s.targets[i].geometry = geometry
           u == SubmitFrame(s)
           dropped == IF known THEN Drop(u, i) ELSE s
           made == CreateRenderableTarget(dropped, key, geometry)
           t == AtLast(made)
           back == CloseRendering(s)
           again == [back EXCEPT !.current = i]
           new == [ideal EXCEPT ![TargetImage(made, key)] = Blank]
<1>0. /\ Sound(r, ideal) /\ Unused(r) /\ r \in State /\ Linked(r) /\ blocks \in Seq(Block)
      /\ ideal \in Painting /\ aimed = IF r.current = 0 THEN Main ELSE r.targets[r.current].key
      /\ bound = [stage \in Stages |-> Sampled(r, stage)]
  BY DEF IInv, Sound
<1>1. /\ \/ /\ same /\ r' = again /\ aimed' = key /\ UNCHANGED <<ideal, bound>>
         \/ /\ ~same /\ Len(dropped.targets) < MaxTargets /\ r' = t /\ aimed' = key
            /\ ideal' = new /\ bound' = BoundWithout(Target(key))
         \/ /\ ~same /\ Len(dropped.targets) >= MaxTargets /\ r' = dropped
            /\ UNCHANGED <<ideal, bound, aimed>>
      /\ UNCHANGED blocks
  BY DEF SetRenderTarget, AtLast
<1>2. Sound(s, ideal) /\ SameLinks(r, s) /\ Unused(s) /\ s.pending = Blank
  <2>1. Sound(s, ideal) /\ SameLinks(r, s) /\ SameStore(r, s) /\ s.frameOpen = r.frameOpen
        /\ s.pending = Blank
    BY <1>0, Flushes
  <2> HIDE DEF s
  <2> QED
    BY <1>0, <2>1, UnusedKept
<1>3. /\ back = CloseRendering(s) /\ u = SubmitFrame(s)
      /\ known => FindTarget(s, key) # {} /\ dropped = Drop(u, i)
      /\ ~known => FindTarget(s, key) = {} /\ dropped = s
      /\ made = CreateRenderableTarget(dropped, key, geometry) /\ t = AtLast(made)
      /\ same => known
  OBVIOUS
<1>9. known => i = CHOOSE j \in FindTarget(s, key) : TRUE
  OBVIOUS
<1> HIDE DEF s, known, dropped, made, t, u
<1>4. /\ s \in State /\ Linked(s) /\ s.targets = r.targets /\ s.current = r.current
      /\ \A g \in Stages : Sampled(s, g) = Sampled(r, g)
  BY <1>2, LinksKept DEF Sound, SameLinks
<1>5. known => i \in 1..Len(s.targets) /\ s.targets[i].key = key
  BY <1>3, <1>4, <1>9, Founds
<1>10. new = [ideal EXCEPT ![TargetImage(made, key)] = Blank]
  OBVIOUS
<1> HIDE DEF i, same, back, again, new
<1>6. CASE same
  <2>1. i \in 1..Len(s.targets) /\ s.targets[i].key = key
    BY <1>3, <1>5, <1>6
  <2>2. /\ Sound(back, ideal) /\ SameLinks(s, back) /\ back.pending = Blank /\ ~back.renderingActive
        /\ Unused(back)
    <3>1. Sound(back, ideal) /\ SameLinks(s, back) /\ SameStore(s, back)
          /\ back.frameOpen = s.frameOpen /\ back.pending = s.pending /\ ~back.renderingActive
      BY <1>2, <1>3, Closes
    <3> QED
      BY <1>2, <3>1, UnusedKept
  <2>3. i \in 0..Len(back.targets) /\ i # 0
    BY <2>1, <2>2 DEF SameLinks
  <2>4. /\ Sound(again, ideal) /\ Unused(again) /\ again.current = i /\ again.targets = back.targets
        /\ \A g : Sampled(again, g) = Sampled(back, g)
    BY <2>2, <2>3, Retargets DEF again
  <2>5. r' = again /\ aimed' = key /\ UNCHANGED <<ideal, bound, blocks>>
    BY <1>1, <1>6
  <2>6. \A g \in Stages : Sampled(again, g) = Sampled(r, g)
    <3>1. \A g \in Stages : Sampled(back, g) = Sampled(s, g)
      BY <2>2, LinksKept
    <3> QED
      BY <1>4, <2>4, <3>1
  <2>7. /\ Sound(r', ideal') /\ Unused(r') /\ bound' = [g \in Stages |-> Sampled(r', g)]
        /\ r'.current = i /\ r'.targets[i].key = key
    BY <1>0, <2>1, <2>2, <2>4, <2>5, <2>6 DEF SameLinks
  <2> QED
    BY <1>0, <2>3, <2>5, <2>7 DEF IInv
<1>7. CASE ~same /\ Len(dropped.targets) < MaxTargets
  <2>1. Sound(dropped, ideal) /\ Vacant(r, dropped, key)
    <3>1. CASE known
      <4>1. Sound(u, ideal) /\ Unused(u) /\ Quiet(u) /\ SameLinks(s, u)
        BY <1>2, <1>3, Submits DEF Quiet
      <4>2. i \in 1..Len(u.targets) /\ u.targets[i].key = key
        BY <1>5, <3>1, <4>1 DEF SameLinks
      <4>3. dropped = Drop(u, i)
        BY <1>3, <3>1
      <4>4. /\ Sound(dropped, ideal) /\ Unused(dropped) /\ FindTarget(dropped, key) = {}
            /\ \A g \in Stages :
                  Sampled(dropped, g) = IF Sampled(u, g) = Target(key) THEN Nothing
                                        ELSE Sampled(u, g)
        <5>1. Sound(u, ideal) /\ Unused(u) /\ Quiet(u) /\ i \in 1..Len(u.targets)
          BY <4>1, <4>2
        <5>2. /\ Sound(dropped, ideal) /\ Unused(dropped)
              /\ FindTarget(dropped, u.targets[i].key) = {}
              /\ \A g \in Stages :
                    Sampled(dropped, g) = IF Sampled(u, g) = Target(u.targets[i].key) THEN Nothing
                                          ELSE Sampled(u, g)
          <6>1. Sound(dropped, ideal) /\ Unused(dropped)
            BY <4>3, <5>1, Drops
          <6>2. FindTarget(dropped, u.targets[i].key) = {}
            BY <4>3, <5>1, Drops
          <6>3. \A g \in Stages :
                   Sampled(dropped, g) = IF Sampled(u, g) = Target(u.targets[i].key) THEN Nothing
                                          ELSE Sampled(u, g)
            BY <4>3, <5>1, Drops
          <6> QED
            BY <6>1, <6>2, <6>3
        <5> QED
          BY <4>2, <5>2
      <4>5. \A g \in Stages : Sampled(u, g) = Sampled(r, g)
        BY <1>4, <4>1, LinksKept
      <4> QED
        BY <4>4, <4>5 DEF Vacant
    <3>2. CASE ~known
      <4>1. dropped = s /\ FindTarget(s, key) = {}
        BY <1>3, <3>2
      <4>2. ASSUME NEW g \in Stages PROVE Sampled(s, g) # Target(key)
        <5>1. s.overrideKey[g] # key
          <6>1. s.overrideKey[g] # None =>
                   \E j \in 1..Len(s.targets) : s.targets[j].key = s.overrideKey[g]
            BY <1>4 DEF Linked
          <6>2. \A j \in 1..Len(s.targets) : s.targets[j].key # key
            <7>1. DOMAIN s.targets = 1..Len(s.targets)
              BY <1>4 DEF State
            <7> QED
              BY <4>1, <7>1 DEF FindTarget
          <6> QED
            BY <6>1, <6>2, Numbers
        <5> QED
          BY <5>1 DEF Sampled, Target, Texture, Nothing
      <4> QED
        BY <1>2, <1>4, <4>1, <4>2 DEF Vacant
    <3> QED
      BY <3>1, <3>2
  <2>3. r' = t /\ aimed' = key /\ ideal' = new /\ bound' = BoundWithout(Target(key)) /\ UNCHANGED blocks
    <3>1. Len(dropped.targets) \in Nat /\ MaxTargets \in Nat
      BY <2>1, Numbers DEF Sound, State
    <3> QED
      BY <1>1, <1>7, <3>1
  <2>2. /\ made = CreateRenderableTarget(dropped, key, geometry) /\ t = AtLast(made)
        /\ Len(dropped.targets) < MaxTargets
    BY <1>3, <1>7
  <2>4. /\ Sound(t, [ideal EXCEPT ![TargetImage(made, key)] = Blank]) /\ Unused(t)
        /\ t.current # 0 /\ t.targets[t.current].key = key
        /\ \A g \in Stages :
              Sampled(t, g) = IF Sampled(r, g) = Target(key) THEN Nothing ELSE Sampled(r, g)
    <3>1. Sound(t, [ideal EXCEPT ![TargetImage(made, key)] = Blank]) /\ Installed(r, t, key)
      BY <2>1, <2>2, Created
    <3> QED
      BY <3>1 DEF Installed
  <2>5. BoundWithout(Target(key)) = [g \in Stages |-> Sampled(t, g)]
    BY <1>0, <2>4 DEF BoundWithout
  <2>6. /\ Sound(r', ideal') /\ Unused(r') /\ bound' = [g \in Stages |-> Sampled(r', g)]
        /\ aimed' = IF r'.current = 0 THEN Main ELSE r'.targets[r'.current].key
    <3>1. Sound(t, new)
      BY <1>10, <2>4
    <3> QED
      BY <2>3, <2>4, <2>5, <3>1
  <2> QED
    BY <1>0, <2>3, <2>6 DEF IInv
<1>8. CASE ~same /\ Len(dropped.targets) >= MaxTargets
  <2>1. ~known
    <3> SUFFICES ASSUME known PROVE FALSE
      OBVIOUS
    <3>1. Sound(u, ideal) /\ Unused(u) /\ Quiet(u) /\ SameLinks(s, u)
      BY <1>2, <1>3, Submits DEF Quiet
    <3>2. i \in 1..Len(u.targets)
      BY <1>5, <3>1 DEF SameLinks
    <3>3. dropped = Drop(u, i)
      BY <1>3
    <3>4. Len(dropped.targets) = Len(u.targets) - 1
      BY <3>1, <3>2, <3>3, Drops
    <3>5. Len(u.targets) \in Nat /\ Len(u.targets) <= MaxTargets /\ MaxTargets \in Nat
      BY <3>1, Numbers DEF Sound, State, Linked
    <3> QED
      BY <1>8, <3>4, <3>5
  <2>2. r' = s /\ UNCHANGED <<ideal, bound, aimed, blocks>>
    <3>1. dropped = s
      BY <1>3, <2>1
    <3>2. Len(dropped.targets) \in Nat /\ MaxTargets \in Nat
      BY <1>4, <3>1, Numbers DEF State
    <3> QED
      BY <1>1, <1>8, <3>1, <3>2
  <2>3. Sound(r', ideal') /\ Unused(r') /\ SameLinks(r, r')
    BY <1>2, <2>2
  <2> QED
    BY <2>2, <2>3, SameBindings
<1> QED
  BY <1>1, <1>6, <1>7, <1>8

Composed(s, pixels, size) ==
    [op |-> "compose", pixels |-> pixels, from |-> RangeAt(s, "texture", 0, size)]

LEMMA Composing ==
    ASSUME IInv, NEW pixels \in Pixels, NEW size \in TextureSizes, ComposeOverlay(pixels, size)
    PROVE  IInv'
<1> DEFINE at == 0
           a == SubmitFrame(r)
           b == EnsureStaging(a, "texture", size)
           c == OpenFrame(b)
           d == Stage(c, "texture", at, size, pixels)
           cmd == Composed(d, pixels, size)
           e == [Record(d, cmd) EXCEPT !.gpuWroteTarget = TRUE]
           painted == [ideal[Main] EXCEPT !["color"] = pixels]
           new == [ideal EXCEPT ![Main] = painted]
<1>0. /\ Sound(r, ideal) /\ Unused(r) /\ r \in State /\ Linked(r) /\ ideal \in Painting
      /\ size \in Nat /\ "texture" \in Areas /\ pixels \in Data /\ pixels \in Contents
  BY Numbers, Colours DEF IInv, Sound, Areas, Data
<1>1. r' = e /\ ideal' = new /\ UNCHANGED <<blocks, bound, aimed>>
  <2>1. ideal' = new
    BY DEF ComposeOverlay
  <2>2. r' = e /\ UNCHANGED <<blocks, bound, aimed>>
    BY DEF ComposeOverlay, Composed
  <2> QED
    BY <2>1, <2>2
<1>2. /\ Sound(a, ideal) /\ SameLinks(r, a) /\ ~a.frameOpen /\ a.commands = <<>>
      /\ a.pending = Blank /\ ~a.renderingActive
  BY <1>0, Submits
<1> HIDE DEF a
<1>3. /\ Sound(b, ideal) /\ SameLinks(a, b) /\ ~b.frameOpen /\ b.commands = <<>>
      /\ b.pending = Blank /\ ~b.renderingActive /\ size <= Len(b.staging["texture"])
  BY <1>0, <1>2, Ensures
<1> HIDE DEF b
<1>4. /\ Sound(c, ideal) /\ SameLinks(b, c) /\ c.frameOpen /\ c.commands = <<>>
      /\ c.pending = Blank /\ ~c.renderingActive /\ c.staging = b.staging
  BY <1>3, Opens
<1> HIDE DEF c
<1>5. /\ Sound(d, ideal) /\ SameLinks(c, d) /\ d.frameOpen /\ d.pending = Blank
      /\ ~d.renderingActive /\ d.cursor["texture"] = size
      /\ Len(d.staging["texture"]) = Len(c.staging["texture"])
      /\ \A j \in 1..size : d.staging["texture"][j] = pixels
  <2>1. at \in Nat /\ at + size = size /\ at + 1 = 1
    BY <1>0
  <2> HIDE DEF at
  <2>2. /\ at + size <= Len(c.staging["texture"])
        /\ c.commands = <<>> \/ c.cursor["texture"] <= at
        /\ Sound(c, ideal) /\ "texture" \in Areas /\ pixels \in Data /\ size \in Nat
        /\ at \in Nat
    BY <1>0, <1>3, <1>4, <2>1
  <2> HIDE DEF cmd, e, painted, new
  <2>3. /\ Sound(d, ideal) /\ SameLinks(c, d) /\ d.frameOpen = c.frameOpen /\ d.pending = c.pending
        /\ d.renderingActive = c.renderingActive /\ d.cursor["texture"] = at + size
        /\ Len(d.staging["texture"]) = Len(c.staging["texture"])
        /\ \A j \in (at + 1)..(at + size) : d.staging["texture"][j] = pixels
    <3>1. Sound(d, ideal) /\ SameLinks(c, d)
      BY <2>2, StagesData
    <3>2. d.frameOpen = c.frameOpen /\ d.pending = c.pending
      BY <2>2, StagesData
    <3>3. d.renderingActive = c.renderingActive
      BY <2>2, StagesData
    <3>4. /\ d.cursor["texture"] = at + size
          /\ Len(d.staging["texture"]) = Len(c.staging["texture"])
          /\ \A j \in (at + 1)..(at + size) : d.staging["texture"][j] = pixels
      BY <2>2, StagesData
    <3> QED
      BY <3>1, <3>2, <3>3, <3>4
  <2> HIDE DEF d
  <2> QED
    BY <1>4, <2>1, <2>3
<1> HIDE DEF d
<1>6. SameLinks(r, d) /\ d \in State
  BY <1>2, <1>3, <1>4, <1>5, LinksCompose DEF Sound
<1>7. /\ cmd.op = "compose" /\ cmd.pixels = pixels /\ cmd.from = RangeAt(d, "texture", 0, size)
  BY DEF Composed
<1>8. cmd.from \in ByteRange /\ Holds(d, cmd.from, pixels) /\ Within(d, cmd.from)
  <2>1. 0 \in Nat /\ 0 + size = size /\ 0 + 1 = 1
    BY <1>0
  <2>2. Len(d.staging["texture"]) \in Nat
    BY <1>0, <1>6 DEF State
  <2>3. /\ 0 + size <= Len(d.staging["texture"]) /\ 0 + size <= d.cursor["texture"]
        /\ \A j \in (0 + 1)..(0 + size) : d.staging["texture"][j] = pixels
    BY <1>0, <1>3, <1>4, <1>5, <2>1
  <2> QED
    BY <1>0, <1>7, <2>1, <2>2, <2>3, HoldsStaged
<1>9. cmd \in Command
  <2>1. cmd \in [op : {"compose"}, pixels : Pixels, from : ByteRange]
    BY <1>8 DEF Composed
  <2> QED
    BY <2>1 DEF Command
<1> HIDE DEF cmd
<1>10. e = [d EXCEPT !.commands = Append(d.commands, cmd), !.gpuWroteTarget = TRUE]
  BY <1>6 DEF Record, State
<1> HIDE DEF e
<1>11. /\ e \in State /\ SameLinks(d, e) /\ SameStore(d, e)
       /\ e.commands = Append(d.commands, cmd) /\ e.frameOpen /\ e.pending = d.pending
       /\ ~e.renderingActive /\ e.gpuWroteTarget
  <2>1. Append(d.commands, cmd) \in Seq(Command)
    BY <1>6, <1>9, CommandAdded
  <2>2. e \in State
    BY <1>6, <1>10, <2>1 DEF State
  <2>3. SameLinks(d, e) /\ SameStore(d, e)
    BY <1>6, <1>10 DEF State, SameLinks, SameStore
  <2> QED
    BY <1>5, <1>6, <1>10, <2>2, <2>3 DEF State
<1>12. Sound(e, new)
  <2>1. Onto(cmd) = Main /\ Main # White
    BY <1>7, Numbers DEF Onto
  <2>2. Main \in LiveIn(d)
    BY <1>5, <1>6, Live DEF Sound
  <2>3. e.gpuWroteTarget = IF cmd.op = "upload" THEN d.gpuWroteTarget ELSE TRUE
    <3>1. e.gpuWroteTarget \in BOOLEAN
      BY <1>11 DEF State
    <3> QED
      BY <1>7, <1>11, <3>1
  <2>4. Sound(e, [ideal EXCEPT ![Main] = [ideal[Main] EXCEPT !["color"] = pixels]])
    <3>1. /\ cmd.op \in {"upload", "compose"} /\ cmd.pixels \in Contents /\ cmd.pixels = pixels
          /\ Onto(cmd) = Main /\ Onto(cmd) \in LiveIn(d) /\ Onto(cmd) # White
          /\ Within(d, cmd.from) /\ Holds(d, cmd.from, cmd.pixels)
      BY <1>0, <1>7, <1>8, <2>1, <2>2
    <3> HIDE DEF painted, new
    <3>2. Sound(e, [ideal EXCEPT ![Onto(cmd)] = [ideal[Onto(cmd)] EXCEPT !["color"] = cmd.pixels]])
      BY <1>5, <1>9, <1>11, <2>3, <3>1, PaintsImage
    <3> QED
      BY <3>1, <3>2
  <2> QED
    BY <2>4
<1> HIDE DEF new, painted
<1>13. SameLinks(r, e)
  BY <1>6, <1>11, LinksCompose
<1>14. Unused(e)
  BY <1>11 DEF Unused
<1> QED
  BY <1>1, <1>12, <1>13, <1>14, SameBindings

-----------------------------------------------------------------------------
(* The specification *)

LEMMA Starts == Init => IInv
<1> SUFFICES ASSUME Init PROVE IInv
  OBVIOUS
<1>1. /\ Unpainted \in Painting /\ Unpainted[White] = Opaque
      /\ \A i \in Surfaces \ {White} : Unpainted[i] = Blank
  BY Numbers, Colours DEF Unpainted, Painting, Surfaces
<1>2. \A a \in Areas : Unwritten(InitialStaging) \in Seq(Data)
  BY Numbers, Unwrittens
<1>3. /\ <<>> \in Seq(TargetEntry) /\ <<>> \in Seq(Command) /\ <<>> \in Seq(Block)
      /\ Len(<<>>) = 0
  <2> HIDE DEF TargetEntry, Command, Block
  <2> QED
    OBVIOUS
<1>4. r \in State
  <2>1. /\ 0 \in CombinerSlots /\ 0 \in 0..CombinerSlotCount /\ 0 \in 0..MaxDescriptorSets
        /\ 0 \in Nat
    BY Numbers DEF CombinerSlots
  <2>2. [a \in Areas |-> Unwritten(InitialStaging)] \in [Areas -> Seq(Data)]
    BY <1>2
  <2> HIDE DEF Unpainted
  <2> QED
    BY <1>1, <1>3, <2>1, <2>2, Colours DEF Init, State, CombinerSlots
<1>5. /\ r.targets = <<>> /\ Len(r.targets) = 0 /\ r.current = 0
      /\ r.textures = [t \in Slots |-> Empty] /\ r.commands = <<>> /\ ~r.renderingActive
      /\ ~r.gpuWroteTarget /\ r.pending = Blank /\ r.contents = Unpainted /\ r.combinerDirty
      /\ r.stageTexture = [g \in Stages |-> None] /\ r.overrideView = [g \in Stages |-> None]
      /\ r.overrideKey = [g \in Stages |-> None]
      /\ r.descriptorSetCount = 0 /\ r.combinerWriteSlot = 0
      /\ blocks = <<>> /\ ideal = Unpainted /\ bound = [g \in Stages |-> Nothing] /\ aimed = Main
  BY <1>3 DEF Init
<1>6. Linked(r)
  BY <1>5, Numbers DEF Linked
<1>7. White \in LiveIn(r)
  BY <1>4, <1>6, Live
<1>8. Sound(r, ideal)
  <2>1. \A i \in LiveIn(r) : ideal[i] = r.contents[i]
    BY <1>5
  <2>2. \A i \in Surfaces \ LiveIn(r) : r.contents[i] = Blank
    BY <1>1, <1>5, <1>7
  <2>3. \A u \in Slots : r.textures[u] = Empty
    BY <1>5
  <2>4. ideal \in Painting /\ r.contents[White] = Opaque
    BY <1>1, <1>5
  <2> QED
    BY <1>4, <1>5, <1>6, <2>1, <2>2, <2>3, <2>4, Fresh
<1>9. \A g \in Stages : Sampled(r, g) = Nothing
  BY <1>5 DEF Sampled
<1> QED
  BY <1>3, <1>5, <1>8, <1>9 DEF IInv, Unused

LEMMA Steps == IInv /\ [Next]_vars => IInv'
<1> SUFFICES ASSUME IInv, [Next]_vars PROVE IInv'
  OBVIOUS
<1>1. CASE Draw
  BY <1>1, Drawing DEF Draw
<1>2. CASE Textures
  BY <1>2, Binding, Texturing DEF Textures
<1>3. CASE Targets
  BY <1>3, ToMain, ClearsTarget, ReleasingTarget, SettingTarget DEF Targets
<1>4. CASE Blocks
  BY <1>4, Capturing, Applying DEF Blocks
<1>5. CASE \E key \in TextureKeys : ReleaseTexture(key)
  BY <1>5, Releasing
<1>6. CASE \E config \in Configs : SetPixelShader(config)
  BY <1>6, Shading
<1>7. CASE EndFrameForPresent
  BY <1>7, Presenting
<1>8. CASE \E p \in Pixels, g \in TextureSizes : ComposeOverlay(p, g)
  BY <1>8, Composing
<1>9. CASE UNCHANGED vars
  <2>1. UNCHANGED <<r, ideal, bound, aimed>> /\ blocks' = blocks
    BY <1>9 DEF vars
  <2>2. blocks' \in Seq(Block)
    BY <2>1 DEF IInv
  <2> QED
    BY <2>1, <2>2, SameRenderer
<1> QED
  BY <1>1, <1>2, <1>3, <1>4, <1>5, <1>6, <1>7, <1>8, <1>9 DEF Next

LEMMA Invariance == Spec => []IInv
<1> QED
  BY Starts, Steps, PTL DEF Spec

LEMMA Typed == IInv => TypeOK
<1> SUFFICES ASSUME IInv PROVE TypeOK
  OBVIOUS
<1>1. r \in State /\ Linked(r) /\ ideal \in Painting
  BY DEF IInv, Sound
<1>2. r.targets \in Seq(Entries(TargetKeys, Images))
  <2>1. \A e \in TargetEntry : e \in Entries(TargetKeys, Images)
    BY Numbers DEF TargetEntry, Entries
  <2>2. r.targets \in Seq(TargetEntry)
    BY <1>1 DEF State
  <2> HIDE DEF TargetEntry
  <2> QED
    BY <2>1, <2>2
<1>3. \A t \in Slots : r.textures[t].key \in TextureKeys \cup {None}
  <2> TAKE t \in Slots
  <2>1. r.textures[t] \in TextureEntry \cup {Empty}
    BY <1>1 DEF State
  <2> QED
    BY <2>1 DEF TextureEntry, Empty
<1>4. /\ {r.frameOpen, r.renderingActive, r.gpuWroteTarget, r.combinerDirty} \subseteq BOOLEAN
      /\ r.pending \in [Aspects -> ClearValues \cup {None}]
      /\ r.stageTexture \in [Stages -> Slots \cup {None}]
      /\ r.combiner \in [0..(CombinerSlotCount - 1) -> Configs \cup {None}]
      /\ r.combinerWriteSlot \in 0..CombinerSlotCount
      /\ r.descriptorSetCount \in 0..MaxDescriptorSets
  BY <1>1 DEF State, Pending, CombinerSlots
<1>5. Len(r.targets) <= MaxTargets /\ r.current \in 0..Len(r.targets)
  BY <1>1 DEF Linked
<1>6. ideal \in [Images \cup {Main, White} -> [Aspects -> Contents]]
  BY <1>1 DEF Painting, Surfaces, Paints
<1>7. aimed \in TargetKeys \cup {Main}
  <2>1. CASE r.current = 0
    BY <2>1 DEF IInv
  <2>2. CASE r.current # 0
    <3>1. r.current \in 1..Len(r.targets)
      BY <1>1, <1>5, <2>2 DEF State
    <3>2. r.targets[r.current] \in TargetEntry
      BY <1>1, <3>1, Live
    <3> QED
      BY <2>2, <3>2 DEF IInv, TargetEntry
  <2> QED
    BY <2>1, <2>2
<1> QED
  BY <1>2, <1>3, <1>4, <1>5, <1>6, <1>7 DEF TypeOK

(* Every call leaves the renderer's caches, cursors and slots within their
   bounds: the registry of targets within its 8 entries, the descriptor sets and
   combiner slots of a batch within their pools (2290-2310, 3323-3376). *)
THEOREM TypeCorrect == Spec => []TypeOK
<1> QED
  BY Invariance, Typed, PTL

(* Whatever the calls and however often a full pool, ring or buffer submits the
   batch in their midst, what the GPU finds when it runs a draw or an upload is
   what the guest gave it, and every image ends as if each call had taken effect
   at once. *)
THEOREM CallsTakeEffect == Spec => []AsCalled
<1>1. IInv => AsCalled
  <2> SUFFICES ASSUME IInv PROVE AsCalled
    OBVIOUS
  <2>1. Sound(r, ideal)
    BY DEF IInv
  <2>2. Run(Ended(r)).faithful /\ \A i \in LiveIn(r) : ideal[i] = Run(Ended(r)).contents[i]
    BY <2>1, Ends
  <2> QED
    BY <2>2, Typed DEF AsCalled
<1> QED
  BY <1>1, Invariance, PTL

(* Uploads, clears and barriers stand outside a rendering instance, and a barrier
   comes between writing a target and sampling, clearing or drawing to it next
   (CloseRendering and BarrierAfterTargetWrite before each). *)
THEOREM CommandsAreLegal == Spec => []WellRecorded
<1>1. IInv => WellRecorded
  BY Ends DEF IInv, WellRecorded
<1> QED
  BY <1>1, Invariance, PTL

(* No recorded command, stage or override names an image or a staging buffer that
   was destroyed: whoever destroys one has submitted the batch before (2290-2310,
   2740-2775, 3323-3376). *)
THEOREM NamesOutlive == Spec => []NothingDangles
<1>1. IInv => NothingDangles
  <2> SUFFICES ASSUME IInv PROVE NothingDangles
    OBVIOUS
  <2>1. Sound(r, ideal) /\ r \in State /\ Linked(r)
    BY DEF IInv, Sound
  <2>2. Referenced(r) \subseteq LiveIn(r)
    BY <2>1, NewImages
  <2>3. ASSUME NEW i \in DOMAIN r.commands, r.commands[i].op = "draw"
        PROVE  r.commands[i].vertices.buffer = Len(r.staging["vertex"])
    <3>1. i \in 1..Len(r.commands)
      BY <2>1 DEF State
    <3> QED
      BY <2>1, <2>3, <3>1 DEF Sound, Recorded, Safe, Within
  <2>4. \A g \in Stages : View(r, g) \in LiveIn(r)
    BY <2>1, Views
  <2>5. \A g \in Stages : r.overrideView[g] = None <=> r.overrideKey[g] = None
    BY <2>1 DEF Linked
  <2> QED
    BY <2>2, <2>3, <2>4, <2>5 DEF NothingDangles
<1> QED
  BY <1>1, Invariance, PTL

(* The texture cache and the registry of targets hold one entry for a key and one
   image for an entry, however entries are replaced, evicted and moved. *)
THEOREM KeysAreUnique == Spec => []OneEntryPerKey
<1>1. IInv => OneEntryPerKey
  <2> SUFFICES ASSUME IInv PROVE OneEntryPerKey
    OBVIOUS
  <2>1. Linked(r) /\ DOMAIN r.targets = 1..Len(r.targets)
    BY DEF IInv, Sound, State
  <2> QED
    BY <2>1 DEF Linked, OneEntryPerKey
<1> QED
  BY <1>1, Invariance, PTL
=============================================================================
