---------------------------- MODULE DeviceContext ----------------------------
(***************************************************************************)
(* Graphics/Devices/GraphicsDeviceContext.cpp and the textures that bind   *)
(* themselves through it: what a context believes to be bound, and what is *)
(* bound on the device.                                                    *)
(*                                                                         *)
(* A view is one of a texture's views: default views have the format       *)
(* "default", the ones made for a format or a mip level are kept by both.  *)
(* Direct3D never lets a part of a texture be read and written at the same *)
(* time: what is bound for writing is taken from where it is read, and what*)
(* is written cannot be bound for reading; the context is not told.        *)
(***************************************************************************)
EXTENDS Integers, SequencesExt

CONSTANTS Unordered,      \* textures that may be written by compute shaders
          Targets, Depths,
          Planes,         \* of every texture, the number of its default views
          Mips,           \* mip levels, 0 is the greatest
          Slots,          \* 0..n, the slots of one shader stage
          UnorderedSlots, TargetSlots,
          Formats,        \* that callers ask for, "unknown" for a texture's own
          Keys,           \* formats and levels that views of the first are made for, with the default
          Null

VARIABLES bound,          \* the tables of the context
          device          \* the same places, as they are on the device

contextVars == <<bound, device>>

All == -1
Textures == DOMAIN Planes
View(texture, kind, format, mip, plane) ==
  [texture |-> texture, kind |-> kind, format |-> format, mip |-> mip, plane |-> plane]
NoneBound == [resources |-> [s \in Slots |-> Null], unordered |-> [s \in UnorderedSlots |-> Null],
            targets |-> [s \in TargetSlots |-> Null], depth |-> Null]

Init == bound = NoneBound /\ device = NoneBound

-----------------------------------------------------------------------------
\* The device.
LevelsOf(view) == IF view.mip = All THEN Mips ELSE {view.mip}
Overlap(a, b) == a # Null /\ b # Null /\ a.texture = b.texture /\ LevelsOf(a) \cap LevelsOf(b) # {}
Written(places) == {places.depth} \cup Range(places.unordered) \cup Range(places.targets)

\* What SetShaderResources makes of a view.
Readable(d, view) == IF \E w \in Written(d) : Overlap(w, view) THEN Null ELSE view
TakeAway(d, views) ==
  [d EXCEPT !.resources = [s \in Slots |-> IF \E v \in views : Overlap(v, @[s]) THEN Null ELSE @[s]]]
SetUnorderedAccessViews(d, slot, view) == TakeAway([d EXCEPT !.unordered[slot] = view], {view})
OMSetRenderTargets(d, targets, depth) ==
  TakeAway([d EXCEPT !.targets = targets, !.depth = depth], Range(targets) \cup {depth})

-----------------------------------------------------------------------------
\* The context: c is its tables and the device.
\* The views in the slots from this one on; what the device makes of one has no part in what it makes of the next.
BindShaderResourceViews(c, views, slot) ==
  LET isGiven(s) == s - slot + 1 \in DOMAIN views
      given(s) == views[s - slot + 1]
  IN [bound |-> [c.bound EXCEPT !.resources = [s \in Slots |-> IF isGiven(s) THEN given(s) ELSE @[s]]],
      device |-> [c.device EXCEPT !.resources =
                    [s \in Slots |-> IF isGiven(s) THEN Readable(c.device, given(s)) ELSE @[s]]]]
BindUnorderedAccessView(c, view, slot) ==
  [bound |-> [c.bound EXCEPT !.unordered[slot] = view], device |-> SetUnorderedAccessViews(c.device, slot, view)]

\* Every slot that, as far as the context knows, has one of the views.
Emptied(slots, known, views) == [s \in DOMAIN slots |-> IF known[s] \in views THEN Null ELSE slots[s]]
UnbindShaderResourceViews(c, views) ==
  [bound |-> [c.bound EXCEPT !.resources = Emptied(@, @, views)],
   device |-> [c.device EXCEPT !.resources = Emptied(@, c.bound.resources, views)]]
UnbindUnorderedAccessViews(c, views) ==
  [bound |-> [c.bound EXCEPT !.unordered = Emptied(@, @, views)],
   device |-> [c.device EXCEPT !.unordered = Emptied(@, c.bound.unordered, views)]]

SetBoth(c, targets, depth) ==
  [bound |-> [c.bound EXCEPT !.targets = targets, !.depth = depth],
   device |-> OMSetRenderTargets(c.device, targets, depth)]
Alone(views) == [s \in TargetSlots |-> IF s + 1 \in DOMAIN views THEN views[s + 1] ELSE Null]
BindRenderTargetView(c, view) == SetBoth(c, Alone(<<view>>), Null)
UnbindRenderTargetViews(c, views) ==
  IF views = {} THEN c ELSE SetBoth(c, Emptied(c.bound.targets, c.bound.targets, views), c.bound.depth)
BindDepthStencilView(c, view) == SetBoth(c, Alone(<<>>), view)
UnbindDepthStencilView(c, view) == IF c.bound.depth # view THEN c ELSE SetBoth(c, c.bound.targets, Null)

-----------------------------------------------------------------------------
\* A texture's views. A key without a format and a level stands for the default views; one without a format for the
\* texture's own.
DefaultKey == [format |-> "unknown", mip |-> All]
Default(key) == key = DefaultKey
Named(format) == IF format = "unknown" THEN "own" ELSE format
GetResourceViews(texture, key) ==
  IF Default(key) THEN [i \in 1..Planes[texture] |-> View(texture, "resource", "default", All, i)]
  ELSE <<View(texture, "resource", Named(key.format), key.mip, 1)>>
GetUnorderedView(texture, key) ==
  IF Default(key) THEN View(texture, "unordered", "default", 0, 1)
  ELSE View(texture, "unordered", Named(key.format), IF key.mip = All THEN 0 ELSE key.mip, 1)
TargetView(texture, format) == View(texture, "target", IF format = "unknown" THEN "default" ELSE format, 0, 1)
DepthView(texture) == View(texture, "depth", "default", 0, 1)

\* What is unbound for one level or for all: the default views, and of the others those that may have the level. Views
\* that were never made are nowhere bound.
Affected(view, texture, mip) ==
  view.texture = texture /\ (view.format = "default" \/ All \in {view.mip, mip} \/ view.mip = mip)

Views(slots) == Range(slots) \ {Null}
UnbindShaderResources(c, texture, mip) ==
  UnbindShaderResourceViews(c, {v \in Views(c.bound.resources) : Affected(v, texture, mip)})
UnbindUnordered(c, texture, mip) ==
  UnbindUnorderedAccessViews(c, {v \in Views(c.bound.unordered) : Affected(v, texture, mip)})
UnbindTargets(c, texture) == UnbindRenderTargetViews(c, {v \in Views(c.bound.targets) : v.texture = texture})

\* Mutant of the next: Unbind() is not virtual.
UnbindTextureOnly(c, texture) == UnbindUnordered(UnbindShaderResources(c, texture, All), texture, All)

Unbound(c, texture) ==
  LET d == UnbindUnordered(UnbindShaderResources(c, texture, All), texture, All)
  IN CASE texture \in Targets -> UnbindTargets(d, texture)
       [] texture \in Depths -> UnbindDepthStencilView(d, DepthView(texture))
       [] OTHER -> d

-----------------------------------------------------------------------------
Now == [bound |-> bound, device |-> device]
Becomes(c) == bound' = c.bound /\ device' = c.device
KeysOf(texture) == IF texture \in Unordered THEN Keys ELSE {DefaultKey}

BindResource(texture, slot, key) ==
  LET views == GetResourceViews(texture, key)
  IN /\ slot + Len(views) - 1 \in Slots
     /\ Becomes(BindShaderResourceViews(UnbindUnordered(Now, texture, key.mip), views, slot))

UnbindResource(texture, mip) == Becomes(UnbindShaderResources(Now, texture, mip))

\* A texture that cannot be written is unbound, and then the call throws.
BindWritable(texture, slot, key) ==
  LET read == UnbindShaderResources(Now, texture, key.mip)
  IN Becomes(IF texture \notin Unordered THEN read
             ELSE BindUnorderedAccessView(read, GetUnorderedView(texture, key), slot))

UnbindWritable(texture, mip) == Becomes(UnbindUnordered(Now, texture, mip))

Unbind(texture) == Becomes(Unbound(Now, texture))

BindTarget(texture, format) ==
  texture \in Targets /\ Becomes(BindRenderTargetView(Unbound(Now, texture), TargetView(texture, format)))
UnbindTarget(texture) == texture \in Targets /\ Becomes(UnbindTargets(Now, texture))
BindDepth(texture) ==
  texture \in Depths /\ Becomes(BindDepthStencilView(Unbound(Now, texture), DepthView(texture)))
UnbindDepth(texture) == texture \in Depths /\ Becomes(UnbindDepthStencilView(Now, DepthView(texture)))

\* Several targets and a depth buffer or none; nothing is unbound for them. The code does not look at the number.
BindRenderTargets(targets, depth) ==
  Becomes(SetBoth(Now, Alone([i \in DOMAIN targets |-> TargetView(targets[i], "unknown")]),
                  IF depth = Null THEN Null ELSE DepthView(depth)))

\* Before the processor or a copy touches a texture, it is unbound.
Update(texture) == Becomes(Unbound(Now, texture))
Copy(texture, target) == texture # target /\ Becomes(Unbound(Unbound(Now, texture), target))

Next ==
  \/ \E t \in Textures :
       \/ \E k \in KeysOf(t), s \in Slots : BindResource(t, s, k)
       \/ \E k \in KeysOf(t), s \in UnorderedSlots : BindWritable(t, s, k)
       \/ \E m \in Mips \cup {All} : UnbindResource(t, m) \/ UnbindWritable(t, m)
       \/ Unbind(t) \/ Update(t) \/ BindDepth(t) \/ UnbindDepth(t) \/ UnbindTarget(t)
       \/ \E f \in Formats : BindTarget(t, f)
       \/ \E u \in Textures : Copy(t, u)
  \/ \E targets \in SeqOf(Targets, Cardinality(TargetSlots)) \ {<<>>}, d \in Depths \cup {Null} :
       BindRenderTargets(targets, d)

Spec == Init /\ [][Next]_contextVars

-----------------------------------------------------------------------------
(* What the device has bound is known to the context, place by place, and     *)
(* what is written is where the context believes it to be: else "unbind       *)
(* whatever I bound" (Textures.md) would leave something behind.              *)
DeviceIsKnown ==
  /\ \A s \in Slots : device.resources[s] \in {Null, bound.resources[s]}
  /\ [device EXCEPT !.resources = NoneBound.resources] = [bound EXCEPT !.resources = NoneBound.resources]

(* A texture that compute shaders read and write is never asked to be both at *)
(* once, whatever formats and mip levels it is bound with: a shader reads what*)
(* was bound last for it. (Of a target that is still bound, Direct3D refuses  *)
(* to bind the view, and the context believes it to be there.)                *)
ReadsWhatWasBound ==
  \A s \in Slots :
    LET view == bound.resources[s]
    IN view # Null /\ view.texture \notin Targets \cup Depths =>
         /\ \A u \in UnorderedSlots : ~Overlap(view, bound.unordered[u])
         /\ device.resources[s] = view

(* Once a texture is unbound, as before it is updated or copied, no place of  *)
(* the device has a view of it, whatever was bound before and by which views. *)
OnDevice(texture, d) == \E view \in Range(d.resources) \cup Written(d) : view # Null /\ view.texture = texture
UnbindIsReliable == \A t \in Textures : ~OnDevice(t, Unbound(Now, t).device)

-----------------------------------------------------------------------------
\* The views of textures that there are, and the tables of them.
ViewFormats == Formats \cup {"default", "own", "unknown"}
ResourceViews == [texture : Textures, kind : {"resource"}, format : ViewFormats, mip : Mips \cup {All}, plane : Nat]
UnorderedViews == [texture : Unordered, kind : {"unordered"}, format : ViewFormats, mip : Mips \cup {0}, plane : {1}]
TargetViews == [texture : Targets, kind : {"target"}, format : ViewFormats, mip : {0}, plane : {1}]
DepthViews == {DepthView(texture) : texture \in Depths}
Tables == [resources : [Slots -> ResourceViews \cup {Null}], unordered : [UnorderedSlots -> UnorderedViews \cup {Null}],
           targets : [TargetSlots -> TargetViews \cup {Null}], depth : DepthViews \cup {Null}]
TypeOK == bound \in Tables /\ device \in Tables
=============================================================================
