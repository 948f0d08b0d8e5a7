----------------------------- MODULE VulkanFrame -----------------------------
(***************************************************************************)
(* The frame the native Vulkan renderer records,                            *)
(* src/src/cxbx/src/hle/d3d8/vulkan/vulkan_renderer.cpp.  Direct3D calls    *)
(* take effect at once; the renderer records them in one command buffer     *)
(* that the GPU runs only when it is submitted, at the frame's end or when  *)
(* a pool, a ring or a buffer is full.  What a recorded command reads (a    *)
(* range of a staging buffer, a combiner slot, an image) must then still be *)
(* what the guest gave it.  Every entry holds g_RendererLock from beginning *)
(* to end, and a submission waits until the GPU is idle: a call is a step.  *)
(*                                                                         *)
(* The helpers below take the renderer and return it changed, as the C++    *)
(* functions of the same names change g_R.  Bytes are counted in units of   *)
(* 16; state that goes into the command buffer with the draw itself         *)
(* (viewport, depth, blend, stage operations, push constants) cannot go     *)
(* stale and is left out, as are failures of the Vulkan calls.              *)
(***************************************************************************)
EXTENDS Integers, SequencesExt

CONSTANTS
    StageCount,          \* texture stages (4)
    TextureKeys,         \* guest textures
    TargetKeys,          \* guest surfaces used as render targets
    TextureSizes,        \* geometries of textures, by their size in units
    TargetSizes,         \* geometries of targets
    DrawSizes,           \* vertices or indices of a draw, in units
    ClearFlags,          \* the sets of aspects a Clear may name
    Pixels, Vertices, Indices, Configs, ClearValues, None,
    Tokens,              \* state blocks of the guest
    MaxTextures,         \* kMaxTextures (48)
    MaxTargets,          \* entries of rtTargets (8)
    MaxDescriptorSets,   \* kMaxDescriptorSets (512)
    CombinerSlotCount,   \* kCombinerSlotCount (16)
    MaxStateBlocks,      \* kMaxStateBlocks (16)
    InitialStaging,      \* size of each staging buffer at first
    MaxStaging,          \* bound: size a staging buffer grows to
    MaxCommands          \* bound: commands recorded in a frame

Main == 0

ASSUME FrameAssumption ==
    /\ ClearFlags \subseteq SUBSET {"color", "depth"}
    /\ TextureSizes \cup TargetSizes \cup DrawSizes \subseteq Nat \ {0}
    /\ {StageCount, MaxTextures, MaxDescriptorSets, CombinerSlotCount, MaxStateBlocks,
        InitialStaging} \subseteq Nat \ {0}
    /\ {MaxTargets, MaxStaging, MaxCommands} \subseteq Nat
    /\ None \notin TextureKeys \cup TargetKeys \cup Int
    /\ Main \notin TargetKeys

VARIABLES
    r,        \* g_R, with the command buffer and the contents of the images
    blocks,   \* g_StateBlocks in use, least recently used first
    \* what the guest asked for, taking effect at once
    ideal,    \* what each image should hold
    bound,    \* what each stage should sample
    aimed     \* where draws should go: a target's key, or Main

vars == <<r, blocks, ideal, bound, aimed>>

Stages == 0..(StageCount - 1)
Aspects == {"color", "depth"}
Areas == {"vertex", "index", "texture"}
White == -1
Images == 1..(MaxTextures + MaxTargets + 2)
Slots == 1..MaxTextures
Empty == [key |-> None, image |-> None, geometry |-> 0, lastUse |-> 0]
Blank == [color |-> None, depth |-> None]

LiveIn(s) ==
    {Main, White} \cup {s.targets[i].image : i \in DOMAIN s.targets}
                  \cup {s.textures[t].image : t \in {u \in Slots : s.textures[u] # Empty}}

MentionedIn(c) ==
    CASE c.op = "begin" -> {c.image}
      [] c.op = "clear" -> {c.image}
      [] c.op = "upload" -> {c.image}
      [] c.op = "compose" -> {Main}
      [] c.op = "draw" -> {c.views[stage] : stage \in Stages}
      [] OTHER -> {}

Referenced(s) == UNION {MentionedIn(s.commands[i]) : i \in DOMAIN s.commands}

NewImage(s) == CHOOSE i \in Images \ (LiveIn(s) \cup Referenced(s)) :
                  \A j \in Images \ (LiveIn(s) \cup Referenced(s)) : i <= j

-----------------------------------------------------------------------------
(* What the GPU does with the command buffer *)

Holds(s, range, data) ==
    /\ Len(s.staging[range.area]) = range.buffer
    /\ \A i \in range.at..(range.at + range.size - 1) :
          i < range.buffer /\ s.staging[range.area][i + 1] = data

(* Clears, where there are any, on what was there. *)
Over(was, clears) ==
    [color |-> IF clears.color = None THEN was.color ELSE clears.color,
     depth |-> IF clears.depth = None THEN was.depth ELSE clears.depth]

(* One command: the images it changes; whether it is allowed where it stands,
   outside or inside a rendering instance and after a barrier for what was
   written before; and whether it reads what it was recorded to read. *)
Step(s, g, c) ==
    CASE c.op = "begin" ->
            [g EXCEPT !.active = c.image,
                      !.contents[c.image] = Over(@, c.load),
                      !.legal = @ /\ g.active = None
                                  /\ \A a \in Aspects : <<c.image, a>> \notin g.unsynced]
      [] c.op = "end" ->
            [g EXCEPT !.active = None, !.legal = @ /\ g.active # None,
                      !.unsynced = @ \cup ({g.active} \X Aspects)]
      [] c.op = "barrier" ->
            [g EXCEPT !.unsynced = {}, !.legal = @ /\ g.active = None]
      [] c.op = "clear" ->
            [g EXCEPT !.contents[c.image][c.aspect] = c.value,
                      !.legal = @ /\ g.active = None
                                  /\ <<c.image, c.aspect>> \notin g.unsynced,
                      !.unsynced = @ \cup {<<c.image, c.aspect>>}]
      [] c.op = "upload" ->
            [g EXCEPT !.contents[c.image]["color"] = c.pixels,
                      !.legal = @ /\ g.active = None,
                      !.faithful = @ /\ Holds(s, c.from, c.pixels)]
      [] c.op = "compose" ->
            [g EXCEPT !.contents[Main]["color"] = c.pixels,
                      !.legal = @ /\ g.active = None,
                      !.faithful = @ /\ Holds(s, c.from, c.pixels),
                      !.unsynced = @ \cup {<<Main, "color">>}]
      [] c.op = "draw" ->
            [g EXCEPT !.contents[g.active]["color"] = c.meant.vertices,
                      !.legal = @ /\ \A stage \in Stages :
                                        <<c.views[stage], "color">> \notin g.unsynced,
                      !.faithful =
                          /\ @
                          /\ g.active = c.meant.target
                          /\ g.contents[g.active] = c.meant.under
                          /\ \A stage \in Stages :
                                g.contents[c.views[stage]]["color"] = c.meant.sampled[stage]
                          /\ s.combiner[c.slot] = c.meant.config
                          /\ Holds(s, c.vertices, c.meant.vertices)
                          /\ c.indices # None => Holds(s, c.indices, c.meant.indices)]

Unrun(s) == [contents |-> s.contents, active |-> None, unsynced |-> {},
             legal |-> TRUE, faithful |-> TRUE]

Run(s) == LET after[n \in 0..Len(s.commands)] ==
                  IF n = 0 THEN Unrun(s) ELSE Step(s, after[n - 1], s.commands[n])
          IN  after[Len(s.commands)]

-----------------------------------------------------------------------------
(* The batch *)

Record(s, c) == [s EXCEPT !.commands = Append(@, c)]

CloseRendering(s) ==
    IF s.renderingActive
    THEN [Record(s, [op |-> "end"]) EXCEPT !.renderingActive = FALSE, !.gpuWroteTarget = TRUE]
    ELSE s

BarrierAfterTargetWrite(s) ==
    IF s.gpuWroteTarget
    THEN [Record(s, [op |-> "barrier"]) EXCEPT !.gpuWroteTarget = FALSE]
    ELSE s

OpenFrame(s) ==
    IF s.frameOpen
    THEN s
    ELSE [s EXCEPT !.frameOpen = TRUE, !.commands = <<>>, !.gpuWroteTarget = FALSE,
                   !.cursor = [a \in Areas |-> 0]]

CurrentImage(s) == IF s.current = 0 THEN Main ELSE s.targets[s.current].image

FlushPendingClear(s, aspect) ==
    IF s.pending[aspect] = None
    THEN s
    ELSE [Record(s, [op |-> "clear", image |-> CurrentImage(s), aspect |-> aspect,
                     value |-> s.pending[aspect]])
          EXCEPT !.pending[aspect] = None, !.gpuWroteTarget = TRUE]

FlushPendingClears(s) ==
    IF s.pending = Blank
    THEN s
    ELSE FlushPendingClear(
           FlushPendingClear(BarrierAfterTargetWrite(CloseRendering(s)), "color"), "depth")

Unwritten(size) == [i \in 1..size |-> None]

(* What a submission adds to the batch. *)
Ended(s) == BarrierAfterTargetWrite(FlushPendingClears(CloseRendering(s)))

SubmitKeepingSlots(s) ==
    IF ~s.frameOpen
    THEN s
    ELSE LET e == Ended(s)
         IN  [e EXCEPT !.frameOpen = FALSE, !.commands = <<>>,
                       !.contents = Run(e).contents,
                       !.cursor = [a \in Areas |-> 0],
                       !.staging = [a \in Areas |-> Unwritten(Len(@[a]))],
                       !.combiner = [i \in DOMAIN @ |-> None],
                       !.descriptorSetCount = 0,
                       !.combinerWriteSlot = 0, !.combinerActiveSlot = 0]

(* SubmitFrame: the GPU runs everything recorded, and every pool and ring is
   free again.  What staging buffers and slots still hold is forgotten: nobody
   may read it. *)
SubmitFrame(s) ==
    IF ~s.frameOpen
    THEN s
    ELSE LET e == Ended(s)
         IN  [e EXCEPT !.frameOpen = FALSE, !.commands = <<>>,
                       !.contents = Run(e).contents,
                       !.cursor = [a \in Areas |-> 0],
                       !.staging = [a \in Areas |-> Unwritten(Len(@[a]))],
                       !.combiner = [i \in DOMAIN @ |-> None],
                       !.descriptorSetCount = 0,
                       !.combinerWriteSlot = 0, !.combinerActiveSlot = 0,
                       !.combinerDirty = TRUE]

(* A staging buffer that is too small is replaced by a larger one. *)
EnsureStaging(s, area, needed) ==
    IF Len(s.staging[area]) >= needed
    THEN s
    ELSE [s EXCEPT !.staging[area] = Unwritten(needed)]

Stage(s, area, at, size, data) ==
    [s EXCEPT !.staging[area] = [i \in DOMAIN @ |->
                  IF i \in (at + 1)..(at + size) THEN data ELSE @[i]],
              !.cursor[area] = at + size]

RangeAt(s, area, at, size) ==
    [area |-> area, buffer |-> Len(s.staging[area]), at |-> at, size |-> size]

Doubled(s, area, size) ==
    IF size < 2 * Len(s.staging[area]) THEN 2 * Len(s.staging[area]) ELSE size

(* Room for the vertices or the indices of a draw: the batch is submitted
   before its buffer is replaced. *)
MakeRoom(s, area, size) ==
    IF s.cursor[area] + size <= Len(s.staging[area])
    THEN s
    ELSE EnsureStaging(SubmitFrame(s), area, Doubled(s, area, size))

(* PrepareCombinerSnapshot: a changed configuration takes the next slot. *)
PrepareCombinerSnapshot(s) ==
    IF ~s.combinerDirty
    THEN s
    ELSE LET t == IF s.combinerWriteSlot = CombinerSlotCount THEN SubmitFrame(s) ELSE s
         IN  [t EXCEPT !.combiner[t.combinerWriteSlot] = t.lastConfig,
                       !.combinerActiveSlot = t.combinerWriteSlot,
                       !.combinerWriteSlot = @ + 1,
                       !.combinerDirty = FALSE]

BeginRenderingUnsynced(s) ==
    IF s.renderingActive
    THEN s
    ELSE [Record(s, [op |-> "begin", image |-> CurrentImage(s), load |-> s.pending])
          EXCEPT !.pending = Blank, !.renderingActive = TRUE]

(* The rendering instance of the draws: a clear that waits becomes its load
   operation. *)
BeginRendering(s) ==
    IF s.renderingActive
    THEN s
    ELSE [Record(BarrierAfterTargetWrite(s),
                 [op |-> "begin", image |-> CurrentImage(s), load |-> s.pending])
          EXCEPT !.pending = Blank, !.renderingActive = TRUE]

View(s, stage) ==
    CASE s.overrideView[stage] # None -> s.overrideView[stage]
      [] s.overrideView[stage] = None /\ s.stageTexture[stage] # None ->
            s.textures[s.stageTexture[stage]].image
      [] OTHER -> White

(* RecordDrawState: every submission it may need comes before the draw takes
   its vertices, its slot and its descriptors. *)
RecordDrawState(s, size, data) ==
    LET submitted == IF s.descriptorSetCount = MaxDescriptorSets THEN SubmitFrame(s) ELSE s
        ready == OpenFrame(PrepareCombinerSnapshot(MakeRoom(submitted, "vertex", size)))
        staged == Stage(ready, "vertex", ready.cursor["vertex"], size, data)
    IN  [BeginRendering(staged) EXCEPT !.descriptorSetCount = @ + 1]

-----------------------------------------------------------------------------
(* Textures and targets *)

Find(s, key) == {t \in Slots : s.textures[t].key = key}
FindTarget(s, key) == {i \in DOMAIN s.targets : s.targets[i].key = key}

(* lastUse = ++textureUseCounter, kept as a rank among the entries in use. *)
Touch(s, slot) ==
    LET used == {t \in Slots : s.textures[t].lastUse # 0} \cup {slot}
        was == s.textures[slot].lastUse
        Rank(t) == CASE t = slot -> Cardinality(used)
                     [] t # slot /\ was # 0 /\ s.textures[t].lastUse > was ->
                           s.textures[t].lastUse - 1
                     [] OTHER -> s.textures[t].lastUse
    IN  [s EXCEPT !.textures = [t \in Slots |-> [s.textures[t] EXCEPT !.lastUse = Rank(t)]]]

Bury(s, image) == [s EXCEPT !.contents[image] = Blank]

(* DestroyTextureEntry; unbind also empties the stages that sample it. *)
DestroyTextureEntry(s, slot, unbind) ==
    LET was == s.textures[slot].lastUse
        Left(t) == CASE t = slot -> Empty
                     [] t # slot /\ s.textures[t].lastUse > was ->
                           [s.textures[t] EXCEPT !.lastUse = @ - 1]
                     [] OTHER -> s.textures[t]
        gone == [Bury(s, s.textures[slot].image) EXCEPT !.textures = [t \in Slots |-> Left(t)]]
    IN  IF unbind
        THEN [gone EXCEPT !.stageTexture =
                [stage \in Stages |-> IF @[stage] = slot THEN None ELSE @[stage]]]
        ELSE gone

CreateTextureEntry(s, slot, key, geometry) ==
    Touch([s EXCEPT !.textures[slot] =
              [key |-> key, image |-> NewImage(s), geometry |-> geometry, lastUse |-> 0]],
          slot)

ClearOverride(s, stage) ==
    [s EXCEPT !.overrideView[stage] = None, !.overrideKey[stage] = None]

Bind(s, stage, slot) == [ClearOverride(s, stage) EXCEPT !.stageTexture[stage] = slot]

Earlier(s, t, u) ==
    \/ s.textures[t].lastUse < s.textures[u].lastUse
    \/ s.textures[t].lastUse = s.textures[u].lastUse /\ t <= u

Oldest(s, candidates) ==
    CHOOSE t \in candidates : \A u \in candidates : Earlier(s, t, u)

(* Bound entries stay: the least recently used of the others gives way. *)
Unbound(s) == {t \in Slots : \A stage \in Stages : s.stageTexture[stage] # t}

ReplaceUnsubmitted(s, key, geometry) ==
    LET slot == CHOOSE t \in Find(s, key) : TRUE
    IN  CreateTextureEntry(DestroyTextureEntry(s, slot, FALSE), slot, key, geometry)

(* A known key with another geometry gets a new image in its entry; stages that
   sample the entry go on sampling it. *)
Replace(s, key, geometry) ==
    LET slot == CHOOSE t \in Find(s, key) : TRUE
    IN  CreateTextureEntry(DestroyTextureEntry(SubmitFrame(s), slot, FALSE),
                           slot, key, geometry)

Evict(s, key, geometry) ==
    LET slot == Oldest(s, Unbound(s))
        free == IF s.textures[slot] = Empty THEN s
                ELSE DestroyTextureEntry(SubmitFrame(s), slot, TRUE)
    IN  CreateTextureEntry(free, slot, key, geometry)

UploadAtOnce(s, slot, pixels) ==
    LET size == s.textures[slot].geometry
        fits == s.cursor["texture"] + size <= Len(s.staging["texture"])
        room == IF fits THEN s ELSE [EnsureStaging(s, "texture", size) EXCEPT !.cursor["texture"] = 0]
        at == room.cursor["texture"]
        open == CloseRendering(OpenFrame(Stage(room, "texture", at, size, pixels)))
    IN  Touch([Record(open, [op |-> "upload", image |-> s.textures[slot].image,
                             pixels |-> pixels, from |-> RangeAt(open, "texture", at, size)])
               EXCEPT !.cursor["texture"] = at + size], slot)

(* Each upload of a frame owns a range of the staging buffer; a full one is
   submitted first. *)
Upload(s, slot, pixels) ==
    LET size == s.textures[slot].geometry
        fits == s.cursor["texture"] + size <= Len(s.staging["texture"])
        room == IF fits THEN s ELSE EnsureStaging(SubmitFrame(s), "texture", size)
        at == IF fits THEN s.cursor["texture"] ELSE 0
        open == CloseRendering(OpenFrame(Stage(room, "texture", at, size, pixels)))
    IN  Touch([Record(open, [op |-> "upload", image |-> s.textures[slot].image,
                             pixels |-> pixels, from |-> RangeAt(open, "texture", at, size)])
               EXCEPT !.cursor["texture"] = at + size], slot)

(* Render targets *)

CreateRenderableTarget(s, key, geometry) ==
    LET t == SubmitFrame(s)
    IN  [t EXCEPT !.targets = Append(@, [key |-> key, image |-> NewImage(t),
                                         geometry |-> geometry])]

UnbindTarget(s, image, key) ==
    [s EXCEPT !.overrideView = [g \in Stages |-> IF @[g] = image THEN None ELSE @[g]],
              !.overrideKey = [g \in Stages |-> IF @[g] = key THEN None ELSE @[g]]]

DropForgettingCurrent(s, i) ==
    LET last == Len(s.targets)
        entry == s.targets[i]
        t == Bury(UnbindTarget(s, entry.image, entry.key), entry.image)
    IN  [t EXCEPT !.targets = SubSeq([@ EXCEPT ![i] = s.targets[last]], 1, last - 1),
                  !.current = IF @ = i THEN 0 ELSE @]

DropLeavingLast(s, i) ==
    LET last == Len(s.targets)
        entry == s.targets[i]
        t == Bury(UnbindTarget(s, entry.image, entry.key), entry.image)
    IN  [t EXCEPT !.targets[i] = s.targets[last],
                  !.current = CASE @ = i -> 0 [] @ = last /\ @ # i -> i [] OTHER -> @]

(* The registry stays dense: the last entry moves into the hole, and the
   current target follows it. *)
Drop(s, i) ==
    LET last == Len(s.targets)
        entry == s.targets[i]
        t == Bury(UnbindTarget(s, entry.image, entry.key), entry.image)
    IN  [t EXCEPT !.targets = SubSeq([@ EXCEPT ![i] = s.targets[last]], 1, last - 1),
                  !.current = CASE @ = i -> 0 [] @ = last /\ @ # i -> i [] OTHER -> @]

-----------------------------------------------------------------------------
(* The guest's calls *)

Nothing == [kind |-> "none", key |-> None]
Texture(key) == [kind |-> "texture", key |-> key]
Target(key) == [kind |-> "target", key |-> key]

Opaque == [color |-> White, depth |-> White]
Unpainted == [i \in Images \cup {Main, White} |-> IF i = White THEN Opaque ELSE Blank]

Init ==
    /\ r = [frameOpen |-> FALSE, renderingActive |-> FALSE, gpuWroteTarget |-> FALSE,
            pending |-> Blank, targets |-> <<>>, current |-> 0,
            textures |-> [t \in Slots |-> Empty],
            stageTexture |-> [g \in Stages |-> None],
            overrideView |-> [g \in Stages |-> None],
            overrideKey |-> [g \in Stages |-> None],
            staging |-> [a \in Areas |-> Unwritten(InitialStaging)],
            cursor |-> [a \in Areas |-> 0],
            descriptorSetCount |-> 0,
            combiner |-> [i \in 0..(CombinerSlotCount - 1) |-> None],
            combinerWriteSlot |-> 0, combinerActiveSlot |-> 0,
            combinerDirty |-> TRUE, lastConfig |-> None,
            commands |-> <<>>, contents |-> Unpainted]
    /\ blocks = <<>>
    /\ ideal = Unpainted
    /\ bound = [g \in Stages |-> Nothing]
    /\ aimed = Main

TextureImage(s, key) == s.textures[CHOOSE t \in Find(s, key) : TRUE].image
TargetImage(s, key) == s.targets[CHOOSE i \in FindTarget(s, key) : TRUE].image
AimedImage == IF aimed = Main THEN Main ELSE TargetImage(r, aimed)

(* What the guest expects a stage to sample; a texture that is no longer there
   holds nothing. *)
Expected(stage) ==
    LET b == bound[stage]
    IN  CASE b.kind = "texture" ->
                IF Find(r, b.key) = {} THEN None ELSE ideal[TextureImage(r, b.key)]["color"]
          [] b.kind = "target" -> ideal[TargetImage(r, b.key)]["color"]
          [] OTHER -> White

(* The bounds of the model, on what a call leaves behind. *)
Bounded ==
    /\ Len(r'.commands) <= MaxCommands
    /\ \A a \in Areas : Len(r'.staging[a]) <= MaxStaging

(* A draw records its views and slot as they are once its state is recorded.
   The guest does not sample the target it draws to. *)
DrawFrom(s, size, vertices, range, indices) ==
    /\ \A stage \in Stages : View(r, stage) # CurrentImage(r)
    /\ r' = Record(s, [op |-> "draw",
                       views |-> [stage \in Stages |-> View(s, stage)],
                       slot |-> s.combinerActiveSlot,
                       vertices |-> RangeAt(s, "vertex", s.cursor["vertex"] - size, size),
                       indices |-> range,
                       meant |-> [target |-> AimedImage, under |-> ideal[AimedImage],
                                  sampled |-> [stage \in Stages |-> Expected(stage)],
                                  config |-> r.lastConfig,
                                  vertices |-> vertices, indices |-> indices]])
    /\ ideal' = [ideal EXCEPT ![AimedImage]["color"] = vertices]
    /\ UNCHANGED <<blocks, bound, aimed>>

DrawUP(size, vertices) ==
    DrawFrom(RecordDrawState(r, size, vertices), size, vertices, None, None)

(* The indices take their place once the draw's state is recorded: recording it
   may submit the batch and begin the buffer again. *)
DrawIndexed(size, vertices, count, indices) ==
    LET s == RecordDrawState(MakeRoom(r, "index", count), size, vertices)
        at == s.cursor["index"]
    IN  DrawFrom(Stage(s, "index", at, count, indices), size, vertices,
                 RangeAt(s, "index", at, count), indices)

Clears(aspects, value) ==
    [color |-> IF "color" \in aspects THEN value ELSE None,
     depth |-> IF "depth" \in aspects THEN value ELSE None]

(* A clear waits for the next draw or for the end of its target's turn. *)
Clear(aspects, value) ==
    /\ r' = [CloseRendering(OpenFrame(r)) EXCEPT !.pending = Over(@, Clears(aspects, value))]
    /\ ideal' = [ideal EXCEPT ![AimedImage] = Over(@, Clears(aspects, value))]
    /\ UNCHANGED <<blocks, bound, aimed>>

SetTexture(stage, key, pixels, geometry) ==
    LET s == ClearOverride(r, stage)
        known == Find(s, key) # {}
        same == known /\ \E t \in Find(s, key) : s.textures[t].geometry = geometry
        freed == IF known THEN s ELSE [s EXCEPT !.stageTexture[stage] = None]
        kept == CASE same -> s
                  [] known /\ ~same -> Replace(s, key, geometry)
                  [] OTHER -> Evict(freed, key, geometry)
        slot == CHOOSE t \in Find(kept, key) : TRUE
    IN  /\ IF known \/ Unbound(freed) # {}
           THEN /\ r' = Bind(Upload(kept, slot, pixels), stage, slot)
                /\ ideal' = [i \in DOMAIN ideal |->
                      CASE i = kept.textures[slot].image -> [Blank EXCEPT !["color"] = pixels]
                        [] i \notin LiveIn(kept) -> Blank
                        [] OTHER -> ideal[i]]
                /\ bound' = [bound EXCEPT ![stage] = Texture(key)]
           ELSE /\ r' = freed
                /\ bound' = [bound EXCEPT ![stage] = Nothing]
                /\ UNCHANGED ideal
        /\ UNCHANGED <<blocks, aimed>>

SetNoTexture(stage) ==
    /\ r' = Bind(r, stage, None)
    /\ bound' = [bound EXCEPT ![stage] = Nothing]
    /\ UNCHANGED <<blocks, ideal, aimed>>

SetStageRenderTargetTexture(stage, key) ==
    /\ FindTarget(r, key) # {}
    /\ r' = [r EXCEPT !.stageTexture[stage] = None,
                      !.overrideView[stage] = TargetImage(r, key),
                      !.overrideKey[stage] = key]
    /\ bound' = [bound EXCEPT ![stage] = Target(key)]
    /\ UNCHANGED <<blocks, ideal, aimed>>

BoundWithout(b) == [g \in Stages |-> IF bound[g] = b THEN Nothing ELSE bound[g]]

SetMainTarget ==
    /\ r' = [CloseRendering(FlushPendingClears(r)) EXCEPT !.current = 0]
    /\ aimed' = Main
    /\ UNCHANGED <<blocks, ideal, bound>>

(* A surface seen before is bound again, or created anew when its geometry has
   changed; with the registry full the previous target stays. *)
SetRenderTarget(key, geometry) ==
    LET s == FlushPendingClears(r)
        i == CHOOSE j \in FindTarget(s, key) : TRUE
        known == FindTarget(s, key) # {}
        same == known /\ s.targets[i].geometry = geometry
        dropped == IF known THEN Drop(SubmitFrame(s), i) ELSE s
        made == CreateRenderableTarget(dropped, key, geometry)
    IN  /\ \/ /\ same
              /\ r' = [CloseRendering(s) EXCEPT !.current = i]
              /\ aimed' = key
              /\ UNCHANGED <<ideal, bound>>
           \/ /\ ~same
              /\ Len(dropped.targets) < MaxTargets
              /\ r' = [made EXCEPT !.current = Len(made.targets)]
              /\ aimed' = key
              /\ ideal' = [ideal EXCEPT ![TargetImage(made, key)] = Blank]
              /\ bound' = BoundWithout(Target(key))
           \/ /\ ~same
              /\ Len(dropped.targets) >= MaxTargets
              /\ r' = dropped
              /\ UNCHANGED <<ideal, bound, aimed>>
        /\ UNCHANGED blocks

ReleaseTexture(key) ==
    /\ Find(r, key) # {}
    /\ r' = DestroyTextureEntry(SubmitFrame(r), CHOOSE t \in Find(r, key) : TRUE, TRUE)
    /\ ideal' = [ideal EXCEPT ![TextureImage(r, key)] = Blank]
    /\ bound' = BoundWithout(Texture(key))
    /\ UNCHANGED <<blocks, aimed>>

ReleaseRenderTarget(key) ==
    /\ FindTarget(r, key) # {}
    /\ r' = Drop(SubmitFrame(r), CHOOSE i \in FindTarget(r, key) : TRUE)
    /\ ideal' = [ideal EXCEPT ![TargetImage(r, key)] = Blank]
    /\ bound' = BoundWithout(Target(key))
    /\ aimed' = IF aimed = key THEN Main ELSE aimed
    /\ UNCHANGED blocks

SetPixelShader(config) ==
    /\ config # r.lastConfig
    /\ r' = [r EXCEPT !.lastConfig = config, !.combinerDirty = TRUE]
    /\ UNCHANGED <<blocks, ideal, bound, aimed>>

(* State blocks name textures and targets by their keys and find them again
   when applied; what has left the cache since is not bound. *)
Index(token) == {i \in DOMAIN blocks : blocks[i].token = token}
Others(token) == IF Index(token) = {} THEN blocks
                 ELSE RemoveAt(blocks, CHOOSE i \in Index(token) : TRUE)

StateBlockCapture(token) ==
    LET block == [token |-> token,
                  textures |-> [g \in Stages |-> IF r.stageTexture[g] = None THEN None
                                                 ELSE r.textures[r.stageTexture[g]].key],
                  targets |-> r.overrideKey, config |-> r.lastConfig]
        kept == IF Index(token) = {} /\ Len(blocks) = MaxStateBlocks
                THEN Tail(blocks) ELSE Others(token)
    IN  /\ blocks' = Append(kept, block)
        /\ UNCHANGED <<r, ideal, bound, aimed>>

Restored(s, stage, block) ==
    LET t == Bind(s, stage, None)
        target == block.targets[stage]
        key == block.textures[stage]
    IN  CASE target # None /\ FindTarget(s, target) # {} ->
                [t EXCEPT !.overrideView[stage] = TargetImage(s, target),
                          !.overrideKey[stage] = target]
          [] target = None /\ key # None /\ Find(s, key) # {} ->
                LET slot == CHOOSE u \in Find(s, key) : TRUE
                IN  Touch(Bind(t, stage, slot), slot)
          [] OTHER -> t

RestoredKind(stage, block) ==
    LET target == block.targets[stage]
        key == block.textures[stage]
    IN  CASE target # None /\ FindTarget(r, target) # {} -> Target(target)
          [] target = None /\ key # None /\ Find(r, key) # {} -> Texture(key)
          [] OTHER -> Nothing

StateBlockApply(token) ==
    \E i \in Index(token) :
        LET restored[n \in 0..StageCount] ==
                IF n = 0 THEN r ELSE Restored(restored[n - 1], n - 1, blocks[i])
            s == restored[StageCount]
        IN  /\ r' = [s EXCEPT !.lastConfig = blocks[i].config, !.combinerDirty = TRUE]
            /\ bound' = [g \in Stages |-> RestoredKind(g, blocks[i])]
            /\ blocks' = Append(Others(token), blocks[i])
            /\ UNCHANGED <<ideal, aimed>>

StateBlockDelete(token) ==
    /\ Index(token) # {}
    /\ blocks' = Others(token)
    /\ UNCHANGED <<r, ideal, bound, aimed>>

RebindStageTexture(stage, key) ==
    /\ IF Find(r, key) = {}
       THEN r' = Bind(r, stage, None)
       ELSE \E slot \in Find(r, key) : r' = Touch(Bind(r, stage, slot), slot)
    /\ bound' = [bound EXCEPT ![stage] = IF Find(r, key) = {} THEN Nothing ELSE Texture(key)]
    /\ UNCHANGED <<blocks, ideal, aimed>>

(* Presenting, reading a target back or copying it to the swapchain first
   submits the batch. *)
EndFrameForPresent ==
    /\ r.frameOpen
    /\ r' = SubmitFrame(r)
    /\ UNCHANGED <<blocks, ideal, bound, aimed>>

(* A video frame is uploaded at the head of a fresh batch and covers the main
   target. *)
ComposeOverlay(pixels, size) ==
    LET s == OpenFrame(EnsureStaging(SubmitFrame(r), "texture", size))
        t == Stage(s, "texture", 0, size, pixels)
    IN  /\ r' = [Record(t, [op |-> "compose", pixels |-> pixels,
                            from |-> RangeAt(t, "texture", 0, size)])
                   EXCEPT !.gpuWroteTarget = TRUE]
        /\ ideal' = [ideal EXCEPT ![Main]["color"] = pixels]
        /\ UNCHANGED <<blocks, bound, aimed>>

Draw ==
    \E size \in DrawSizes, v \in Vertices :
        \/ DrawUP(size, v)
        \/ \E i \in Indices, count \in DrawSizes : DrawIndexed(size, v, count, i)

Textures ==
    \E stage \in Stages :
        \/ SetNoTexture(stage)
        \/ \E key \in TextureKeys :
              \/ RebindStageTexture(stage, key)
              \/ \E p \in Pixels, g \in TextureSizes : SetTexture(stage, key, p, g)
        \/ \E key \in TargetKeys : SetStageRenderTargetTexture(stage, key)

Targets ==
    \/ SetMainTarget
    \/ \E a \in ClearFlags, v \in ClearValues : Clear(a, v)
    \/ \E key \in TargetKeys :
          ReleaseRenderTarget(key) \/ \E g \in TargetSizes : SetRenderTarget(key, g)

Blocks ==
    \E token \in Tokens :
        StateBlockCapture(token) \/ StateBlockApply(token) \/ StateBlockDelete(token)

Next ==
    /\ \/ Draw \/ Textures \/ Targets \/ Blocks
       \/ \E key \in TextureKeys : ReleaseTexture(key)
       \/ \E config \in Configs : SetPixelShader(config)
       \/ EndFrameForPresent
       \/ \E p \in Pixels, g \in TextureSizes : ComposeOverlay(p, g)
    /\ Bounded

Spec == Init /\ [][Next]_vars

-----------------------------------------------------------------------------
Contents == {None, White} \cup Pixels \cup Vertices \cup ClearValues
Entries(keys, images) == [key : keys \cup {None}, image : images \cup {None}, geometry : Nat]

TypeOK ==
    /\ {r.frameOpen, r.renderingActive, r.gpuWroteTarget, r.combinerDirty} \subseteq BOOLEAN
    /\ r.pending \in [Aspects -> ClearValues \cup {None}]
    /\ r.targets \in Seq(Entries(TargetKeys, Images)) /\ Len(r.targets) <= MaxTargets
    /\ r.current \in 0..Len(r.targets)
    /\ \A t \in Slots : r.textures[t].key \in TextureKeys \cup {None}
    /\ r.stageTexture \in [Stages -> Slots \cup {None}]
    /\ r.combiner \in [0..(CombinerSlotCount - 1) -> Configs \cup {None}]
    /\ r.combinerWriteSlot \in 0..CombinerSlotCount
    /\ r.descriptorSetCount \in 0..MaxDescriptorSets
    /\ ideal \in [Images \cup {Main, White} -> [Aspects -> Contents]]
    /\ aimed \in TargetKeys \cup {Main}

(* Were the batch submitted now, every draw would read the vertices, indices,
   configuration, textures and target contents of the moment it was called, and
   every image would end up as if each call had taken effect at once. *)
AsCalled ==
    LET settled == Run(Ended(r))
    IN  /\ TypeOK
        /\ settled.faithful
        /\ \A i \in LiveIn(r) : settled.contents[i] = ideal[i]

(* The command buffer is legal: uploads, clears and barriers stand outside a
   rendering instance, and a barrier separates the writing of a target from
   whatever samples it, clears it or draws to it next. *)
WellRecorded == Run(Ended(r)).legal

(* Nothing recorded, bound or current names an image or a staging buffer that
   was destroyed (2290-2310, 2740-2775, 3323-3376). *)
NothingDangles ==
    /\ Referenced(r) \subseteq LiveIn(r)
    /\ \A i \in DOMAIN r.commands :
          r.commands[i].op = "draw" =>
              r.commands[i].vertices.buffer = Len(r.staging["vertex"])
    /\ \A g \in Stages : /\ View(r, g) \in LiveIn(r)
                          /\ r.overrideView[g] = None <=> r.overrideKey[g] = None

(* Two surfaces or two textures never share a key or an image: what a key finds
   is what was made for it. *)
OneEntryPerKey ==
    /\ \A i, j \in DOMAIN r.targets :
          i # j => r.targets[i].key # r.targets[j].key /\ r.targets[i].image # r.targets[j].image
    /\ \A t, u \in Slots :
          t # u /\ r.textures[t] # Empty =>
              r.textures[t].key # r.textures[u].key /\ r.textures[t].image # r.textures[u].image
=============================================================================
