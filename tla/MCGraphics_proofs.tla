-------------------------- MODULE MCGraphics_proofs --------------------------
(***************************************************************************)
(* What is shown is right, for all views, levels and slots, and whatever   *)
(* is bound and unbound in whatever order; for all rectangles and sizes;   *)
(* for all sequences of items; and for pictures of all sizes and formats.  *)
(*                                                                         *)
(* A call of a context is a function of the context (its tables and the    *)
(* device), and most are made of other calls; so each function is shown to *)
(* keep the invariant (Matched) and to do what its callers rely on. An     *)
(* invariant of its own (ScanInv, UpdateInv) says where the search of a    *)
(* picture and the update of a collection are. What a call makes of a      *)
(* picture is told byte by byte first, then pixel by pixel, and the calls  *)
(* that are made of other calls follow from what those show.               *)
(***************************************************************************)
EXTENDS MCGraphics, FiniteSetTheorems, SequenceTheorems, WellFoundedInduction, TLAPS

-----------------------------------------------------------------------------
\* The invariant of a context c.
Matched(c) ==
  /\ c.bound \in Graphics!Tables /\ c.device \in Graphics!Tables
  /\ \A s \in Slots : c.device.resources[s] \in {NoView, c.bound.resources[s]}
  /\ c.device.unordered = c.bound.unordered /\ c.device.targets = c.bound.targets /\ c.device.depth = c.bound.depth
  /\ \A s \in Slots :
       LET view == c.bound.resources[s]
       IN view # NoView /\ view.texture \notin Targets \cup Depths =>
            /\ \A u \in UnorderedSlots : ~Graphics!Overlap(view, c.bound.unordered[u])
            /\ c.device.resources[s] = view

\* No slot has a view that is unbound for a level of a texture.
NotRead(c, t, mip) == \A s \in Slots : c.bound.resources[s] # NoView => ~Graphics!Affected(c.bound.resources[s], t, mip)
NotWritten(c, t, mip) ==
  \A s \in UnorderedSlots : c.bound.unordered[s] # NoView => ~Graphics!Affected(c.bound.unordered[s], t, mip)

(* The invariant of the context as it is.                                      *)
LEMMA MatchedNow ==
  Matched(Graphics!Now) <=> Graphics!TypeOK /\ Graphics!DeviceIsKnown /\ Graphics!ReadsWhatWasBound
  <1>1. Graphics!Now.bound = views /\ Graphics!Now.device = device
    BY DEF Graphics!Now
  <1>2. ASSUME Graphics!TypeOK
        PROVE  [device EXCEPT !.resources = Graphics!NoneBound.resources]
                 = [views EXCEPT !.resources = Graphics!NoneBound.resources]
               <=> device.unordered = views.unordered /\ device.targets = views.targets /\ device.depth = views.depth
    BY <1>2 DEF Graphics!TypeOK, Graphics!Tables
  <1> QED BY <1>1, <1>2 DEF Matched, Graphics!TypeOK, Graphics!DeviceIsKnown, Graphics!ReadsWhatWasBound

(* Views of a texture that are not bound for reading any more are not bound on *)
(* the device either.                                                          *)
LEMMA UnbindsRead ==
  ASSUME NEW c, Matched(c), NEW t, NEW mip, NEW d, d = Graphics!UnbindShaderResources(c, t, mip)
  PROVE  /\ Matched(d) /\ NotRead(d, t, mip)
         /\ d.bound.unordered = c.bound.unordered /\ d.bound.targets = c.bound.targets /\ d.bound.depth = c.bound.depth
  <1> DEFINE S == {v \in Graphics!Views(c.bound.resources) : Graphics!Affected(v, t, mip)}
             b == [s \in Slots |-> IF c.bound.resources[s] \in S THEN NoView ELSE c.bound.resources[s]]
             e == [s \in Slots |-> IF c.bound.resources[s] \in S THEN NoView ELSE c.device.resources[s]]
  <1>1. DOMAIN c.bound.resources = Slots /\ DOMAIN c.device.resources = Slots
    BY DEF Matched, Graphics!Tables
  <1>2. d = [bound |-> [c.bound EXCEPT !.resources = b], device |-> [c.device EXCEPT !.resources = e]]
    BY <1>1 DEF Graphics!UnbindShaderResources, Graphics!UnbindShaderResourceViews, Graphics!Emptied
  <1>3. b \in [Slots -> Graphics!ResourceViews \cup {NoView}] /\ e \in [Slots -> Graphics!ResourceViews \cup {NoView}]
    BY DEF Matched, Graphics!Tables
  <1>4. ASSUME NEW s \in Slots
        PROVE  /\ b[s] \in {NoView, c.bound.resources[s]} /\ e[s] \in {NoView, b[s]}
               /\ b[s] # NoView => b[s] = c.bound.resources[s] /\ e[s] = c.device.resources[s]
    BY DEF Matched
  <1>5. ASSUME NEW s \in Slots, b[s] # NoView PROVE ~Graphics!Affected(b[s], t, mip)
    <2>1. c.bound.resources[s] \in Graphics!Range(c.bound.resources)
      BY <1>1 DEF Graphics!Range
    <2> QED BY <1>5, <2>1 DEF Graphics!Views
  <1> HIDE DEF S, b, e
  <1>6. /\ d.bound = [c.bound EXCEPT !.resources = b] /\ d.device = [c.device EXCEPT !.resources = e]
        /\ d.bound.resources = b /\ d.device.resources = e
    BY <1>2 DEF Matched, Graphics!Tables
  <1>7. d.bound \in Graphics!Tables /\ d.device \in Graphics!Tables
    BY <1>3, <1>6 DEF Matched, Graphics!Tables
  <1>8. /\ d.bound.unordered = c.bound.unordered /\ d.bound.targets = c.bound.targets /\ d.bound.depth = c.bound.depth
        /\ d.device.unordered = c.device.unordered /\ d.device.targets = c.device.targets /\ d.device.depth = c.device.depth
    BY <1>6 DEF Matched, Graphics!Tables
  <1> QED BY <1>4, <1>5, <1>6, <1>7, <1>8 DEF Matched, NotRead

(* Views of a texture that are not bound for writing any more: what is read    *)
(* stays as it is.                                                             *)
LEMMA UnbindsWritten ==
  ASSUME NEW c, Matched(c), NEW t, NEW mip, NEW d, d = Graphics!UnbindUnordered(c, t, mip)
  PROVE  /\ Matched(d) /\ NotWritten(d, t, mip)
         /\ d.bound.resources = c.bound.resources /\ d.bound.targets = c.bound.targets /\ d.bound.depth = c.bound.depth
  <1> DEFINE S == {v \in Graphics!Views(c.bound.unordered) : Graphics!Affected(v, t, mip)}
             b == [s \in UnorderedSlots |-> IF c.bound.unordered[s] \in S THEN NoView ELSE c.bound.unordered[s]]
  <1>1. c.device.unordered = c.bound.unordered /\ DOMAIN c.bound.unordered = UnorderedSlots
    BY DEF Matched, Graphics!Tables
  <1>2. d = [bound |-> [c.bound EXCEPT !.unordered = b], device |-> [c.device EXCEPT !.unordered = b]]
    BY <1>1 DEF Graphics!UnbindUnordered, Graphics!UnbindUnorderedAccessViews, Graphics!Emptied
  <1>3. b \in [UnorderedSlots -> Graphics!UnorderedViews \cup {NoView}]
    BY DEF Matched, Graphics!Tables
  <1>4. ASSUME NEW s \in UnorderedSlots PROVE b[s] \in {NoView, c.bound.unordered[s]}
    OBVIOUS
  <1>5. ASSUME NEW s \in UnorderedSlots, b[s] # NoView PROVE ~Graphics!Affected(b[s], t, mip)
    <2>1. c.bound.unordered[s] \in Graphics!Range(c.bound.unordered)
      BY <1>1 DEF Graphics!Range
    <2> QED BY <1>5, <2>1 DEF Graphics!Views
  <1> HIDE DEF S, b
  <1>6. /\ d.bound = [c.bound EXCEPT !.unordered = b] /\ d.device = [c.device EXCEPT !.unordered = b]
        /\ d.bound.unordered = b /\ d.device.unordered = b
    BY <1>2 DEF Matched, Graphics!Tables
  <1>7. d.bound \in Graphics!Tables /\ d.device \in Graphics!Tables
    BY <1>3, <1>6 DEF Matched, Graphics!Tables
  <1>8. /\ d.bound.resources = c.bound.resources /\ d.bound.targets = c.bound.targets /\ d.bound.depth = c.bound.depth
        /\ d.device.resources = c.device.resources /\ d.device.targets = c.device.targets /\ d.device.depth = c.device.depth
    BY <1>6 DEF Matched, Graphics!Tables
  <1>9. ASSUME NEW view, NEW u \in UnorderedSlots, ~Graphics!Overlap(view, c.bound.unordered[u])
        PROVE  ~Graphics!Overlap(view, b[u])
    BY <1>4, <1>9 DEF Graphics!Overlap
  <1> QED BY <1>5, <1>6, <1>7, <1>8, <1>9 DEF Matched, NotWritten

(* Targets and a depth buffer take nothing away from a slot that has a view of *)
(* another texture.                                                            *)
LEMMA SetsBoth ==
  ASSUME NEW c, Matched(c), NEW targets \in [TargetSlots -> Graphics!TargetViews \cup {NoView}],
         NEW depth \in Graphics!DepthViews \cup {NoView}, NEW d, d = Graphics!SetBoth(c, targets, depth)
  PROVE  /\ Matched(d)
         /\ d.bound.resources = c.bound.resources /\ d.bound.unordered = c.bound.unordered
         /\ d.bound.targets = targets /\ d.bound.depth = depth
         /\ \A s \in Slots : d.device.resources[s] \in {NoView, c.device.resources[s]}
  <1> DEFINE V == Graphics!Range(targets) \cup {depth}
             r == [s \in Slots |-> IF \E v \in V : Graphics!Overlap(v, c.device.resources[s]) THEN NoView
                                   ELSE c.device.resources[s]]
  <1>1. /\ d.bound = [c.bound EXCEPT !.targets = targets, !.depth = depth]
        /\ d.device = [[c.device EXCEPT !.targets = targets, !.depth = depth] EXCEPT !.resources = r]
    BY DEF Graphics!SetBoth, Graphics!OMSetRenderTargets, Graphics!TakeAway, Matched, Graphics!Tables
  <1>2. r \in [Slots -> Graphics!ResourceViews \cup {NoView}]
    BY DEF Matched, Graphics!Tables
  <1>3. ASSUME NEW s \in Slots PROVE r[s] \in {NoView, c.device.resources[s]}
    OBVIOUS
  <1>4. ASSUME NEW s \in Slots, c.device.resources[s].texture \notin Targets \cup Depths PROVE r[s] = c.device.resources[s]
    <2>1. ASSUME NEW v \in V, v # NoView PROVE v.texture \in Targets \cup Depths
      BY <2>1 DEF Graphics!Range, Graphics!TargetViews, Graphics!DepthViews, Graphics!DepthView, Graphics!View
    <2> QED BY <1>4, <2>1 DEF Graphics!Overlap
  <1> HIDE DEF V, r
  <1>5. /\ d.bound.resources = c.bound.resources /\ d.bound.unordered = c.bound.unordered
        /\ d.bound.targets = targets /\ d.bound.depth = depth
        /\ d.device.resources = r /\ d.device.unordered = c.device.unordered
        /\ d.device.targets = targets /\ d.device.depth = depth
    BY <1>1 DEF Matched, Graphics!Tables
  <1>6. d.bound \in Graphics!Tables /\ d.device \in Graphics!Tables
    BY <1>1, <1>2 DEF Matched, Graphics!Tables
  <1>7. ASSUME NEW s \in Slots, c.bound.resources[s] # NoView, c.bound.resources[s].texture \notin Targets \cup Depths
        PROVE  r[s] = c.bound.resources[s]
    BY <1>4, <1>7 DEF Matched
  <1> QED BY <1>3, <1>5, <1>6, <1>7 DEF Matched

(* What is bound for reading after everything else of its level was unbound    *)
(* for writing is read.                                                        *)
LEMMA BindsRead ==
  ASSUME NEW c, Matched(c), NEW t \in DOMAIN Planes, NEW key \in Keys \cup {Graphics!DefaultKey}, NotWritten(c, t, key.mip),
         NEW slot \in Slots, NEW list, list = Graphics!GetResourceViews(t, key),
         NEW d, d = Graphics!BindShaderResourceViews(c, list, slot)
  PROVE  Matched(d)
  <1> DEFINE isGiven(s) == s - slot + 1 \in DOMAIN list
             given(s) == list[s - slot + 1]
             b == [s \in Slots |-> IF isGiven(s) THEN given(s) ELSE c.bound.resources[s]]
             r == [s \in Slots |-> IF isGiven(s) THEN Graphics!Readable(c.device, given(s)) ELSE c.device.resources[s]]
  <1>1. d.bound = [c.bound EXCEPT !.resources = b] /\ d.device = [c.device EXCEPT !.resources = r]
    BY DEF Graphics!BindShaderResourceViews
  <1>2. ASSUME NEW i \in DOMAIN list
        PROVE  list[i] \in Graphics!ResourceViews /\ list[i].texture = t /\ list[i].mip = key.mip
    <2>1. key.mip \in Mips \cup {Graphics!All} /\ key.format \in Graphics!ViewFormats /\ t \in Graphics!Textures /\ Planes[t] \in Nat
      BY DeviceAssumption DEF Graphics!DefaultKey, Graphics!Textures, Graphics!ViewFormats
    <2>2. CASE Graphics!Default(key)
      <3>1. list = [j \in 1..Planes[t] |-> Graphics!View(t, "resource", "default", Graphics!All, j)]
        BY <2>2 DEF Graphics!GetResourceViews
      <3>2. i \in 1..Planes[t] /\ list[i] = Graphics!View(t, "resource", "default", Graphics!All, i) /\ i \in Nat
        BY <2>1, <3>1
      <3>3. key.mip = Graphics!All
        BY <2>2 DEF Graphics!Default, Graphics!DefaultKey
      <3>4. "default" \in Graphics!ViewFormats /\ Graphics!All \in Mips \cup {Graphics!All}
        BY DEF Graphics!ViewFormats
      <3> QED BY <2>1, <3>2, <3>3, <3>4 DEF Graphics!View, Graphics!ResourceViews
    <2>3. CASE ~Graphics!Default(key)
      <3>1. list[i] = Graphics!View(t, "resource", Graphics!Named(key.format), key.mip, 1)
        BY <2>3 DEF Graphics!GetResourceViews
      <3>2. Graphics!Named(key.format) \in Graphics!ViewFormats
        BY <2>1 DEF Graphics!Named, Graphics!ViewFormats
      <3> QED BY <2>1, <3>1, <3>2 DEF Graphics!View, Graphics!ResourceViews
    <2> QED BY <2>2, <2>3
  <1>3. ASSUME NEW s \in Slots, isGiven(s) PROVE given(s) \in Graphics!ResourceViews /\ given(s).texture = t /\ given(s).mip = key.mip
    BY <1>2, <1>3
  <1>4. ASSUME NEW v, v.texture = t, v.mip = key.mip, NEW u \in UnorderedSlots
        PROVE  ~Graphics!Overlap(v, c.bound.unordered[u])
    <2>1. CASE c.bound.unordered[u] = NoView
      BY <2>1 DEF Graphics!Overlap
    <2> DEFINE w == c.bound.unordered[u]
    <2>2. CASE w # NoView
      <3>1. w \in Graphics!UnorderedViews /\ ~Graphics!Affected(w, t, key.mip)
        BY <2>2 DEF NotWritten, Matched, Graphics!Tables
      <3>2. w.texture = t => w.mip # Graphics!All /\ key.mip # Graphics!All /\ w.mip # key.mip
        BY <3>1 DEF Graphics!Affected
      <3> HIDE DEF w
      <3> QED BY <1>4, <3>2 DEF Graphics!Overlap, Graphics!LevelsOf, w
    <2> QED BY <2>1, <2>2
  <1>5. ASSUME NEW v, v.texture = t, v.mip = key.mip, t \notin Targets \cup Depths PROVE Graphics!Readable(c.device, v) = v
    <2>1. ASSUME NEW w \in Graphics!Written(c.device), w # NoView PROVE ~Graphics!Overlap(w, v)
      <3>1. CASE w \in Graphics!Range(c.device.unordered)
        <4>1. PICK u \in UnorderedSlots : w = c.bound.unordered[u]
          BY <3>1 DEF Graphics!Range, Matched, Graphics!Tables
        <4> QED BY <1>4, <1>5, <4>1 DEF Graphics!Overlap
      <3>2. CASE w \in Graphics!Range(c.device.targets)
        <4>1. w.texture \in Targets
          BY <2>1, <3>2 DEF Graphics!Range, Matched, Graphics!Tables, Graphics!TargetViews
        <4> QED BY <1>5, <4>1 DEF Graphics!Overlap
      <3>3. CASE w = c.device.depth
        <4>1. w.texture \in Depths
          BY <2>1, <3>3 DEF Matched, Graphics!Tables, Graphics!DepthViews, Graphics!DepthView, Graphics!View
        <4> QED BY <1>5, <4>1 DEF Graphics!Overlap
      <3> QED BY <3>1, <3>2, <3>3 DEF Graphics!Written
    <2> QED BY <2>1 DEF Graphics!Readable, Graphics!Overlap
  <1>6. ASSUME NEW v PROVE Graphics!Readable(c.device, v) \in {NoView, v}
    BY DEF Graphics!Readable
  <1>7. b \in [Slots -> Graphics!ResourceViews \cup {NoView}] /\ r \in [Slots -> Graphics!ResourceViews \cup {NoView}]
    <2> HIDE DEF isGiven, given
    <2> QED BY <1>3, <1>6 DEF Matched, Graphics!Tables
  <1>8. \A s \in Slots : r[s] \in {NoView, b[s]}
    <2> HIDE DEF isGiven, given
    <2> QED BY <1>6 DEF Matched
  <1>9. ASSUME NEW s \in Slots, b[s] # NoView, b[s].texture \notin Targets \cup Depths
        PROVE  r[s] = b[s] /\ \A u \in UnorderedSlots : ~Graphics!Overlap(b[s], c.bound.unordered[u])
    <2> HIDE DEF isGiven, given
    <2>1. CASE isGiven(s)
      BY <1>3, <1>4, <1>5, <1>9, <2>1
    <2>2. CASE ~isGiven(s)
      BY <1>9, <2>2 DEF Matched
    <2> QED BY <2>1, <2>2
  <1> HIDE DEF b, r, isGiven, given
  <1>10. /\ d.bound.resources = b /\ d.device.resources = r
         /\ d.bound.unordered = c.bound.unordered /\ d.bound.targets = c.bound.targets /\ d.bound.depth = c.bound.depth
         /\ d.device.unordered = c.device.unordered /\ d.device.targets = c.device.targets /\ d.device.depth = c.device.depth
         /\ d.bound \in Graphics!Tables /\ d.device \in Graphics!Tables
    BY <1>1, <1>7 DEF Matched, Graphics!Tables
  <1> QED BY <1>8, <1>9, <1>10 DEF Matched

(* What is bound for writing after its level was unbound for reading takes     *)
(* nothing away.                                                               *)
LEMMA BindsWritten ==
  ASSUME NEW c, Matched(c), NEW t \in Unordered, NEW key \in Keys \cup {Graphics!DefaultKey}, NotRead(c, t, key.mip),
         NEW slot \in UnorderedSlots, NEW view, view = Graphics!GetUnorderedView(t, key),
         NEW d, d = Graphics!BindUnorderedAccessView(c, view, slot)
  PROVE  Matched(d)
  <1> DEFINE w == [c.bound.unordered EXCEPT ![slot] = view]
             r == [s \in Slots |-> IF \E v \in {view} : Graphics!Overlap(v, c.device.resources[s]) THEN NoView
                                   ELSE c.device.resources[s]]
  <1>1. /\ d.bound = [c.bound EXCEPT !.unordered = w]
        /\ d.device = [[c.device EXCEPT !.unordered = w] EXCEPT !.resources = r]
    BY DEF Graphics!BindUnorderedAccessView, Graphics!SetUnorderedAccessViews, Graphics!TakeAway, Matched, Graphics!Tables
  <1>2. /\ view \in Graphics!UnorderedViews /\ view.texture = t /\ view # NoView
        /\ view.mip = IF key.mip = Graphics!All THEN 0 ELSE key.mip
    <2>1. key.mip \in Mips \cup {Graphics!All} /\ key.format \in Graphics!ViewFormats
      BY DeviceAssumption DEF Graphics!DefaultKey, Graphics!ViewFormats
    <2>2. "default" \in Graphics!ViewFormats /\ Graphics!Named(key.format) \in Graphics!ViewFormats
      BY <2>1 DEF Graphics!ViewFormats, Graphics!Named
    <2>3. Graphics!Default(key) => key.mip = Graphics!All
      BY DEF Graphics!Default, Graphics!DefaultKey
    <2>4. /\ view.texture = t /\ view.mip = IF key.mip = Graphics!All THEN 0 ELSE key.mip
          /\ view \in Graphics!UnorderedViews
      BY <2>1, <2>2, <2>3 DEF Graphics!GetUnorderedView, Graphics!View, Graphics!UnorderedViews
    <2> QED BY <2>4, DeviceAssumption
  <1>3. ASSUME NEW s \in Slots, c.bound.resources[s] # NoView PROVE ~Graphics!Overlap(c.bound.resources[s], view)
    <2> DEFINE v == c.bound.resources[s]
    <2>1. ~Graphics!Affected(v, t, key.mip) /\ v \in Graphics!ResourceViews
      BY <1>3 DEF NotRead, Matched, Graphics!Tables
    <2>2. v.texture = t => v.mip # Graphics!All /\ key.mip # Graphics!All /\ v.mip # key.mip
      BY <2>1 DEF Graphics!Affected
    <2>3. ASSUME v.texture = t PROVE Graphics!LevelsOf(v) = {v.mip} /\ Graphics!LevelsOf(view) = {view.mip} /\ v.mip # view.mip
      <3>1. key.mip \in Mips
        BY <2>2, <2>3, DeviceAssumption DEF Graphics!DefaultKey
      <3>2. view.mip = key.mip /\ key.mip # Graphics!All
        BY <1>2, <2>2, <2>3
      <3> HIDE DEF v
      <3> QED BY <2>2, <2>3, <3>2 DEF Graphics!LevelsOf
    <2> HIDE DEF v
    <2>4. ~Graphics!Overlap(v, view)
      BY <1>2, <2>3 DEF Graphics!Overlap
    <2> QED BY <2>4 DEF v
  <1>4. ASSUME NEW a, NEW b, Graphics!Overlap(a, b) PROVE Graphics!Overlap(b, a)
    BY <1>4 DEF Graphics!Overlap
  <1>5. ASSUME NEW s \in Slots PROVE r[s] = c.device.resources[s]
    <2>1. c.device.resources[s] \in {NoView, c.bound.resources[s]}
      BY DEF Matched
    <2>2. ~Graphics!Overlap(view, c.device.resources[s])
      BY <1>3, <1>4, <2>1 DEF Graphics!Overlap
    <2> QED BY <2>2
  <1>6. w \in [UnorderedSlots -> Graphics!UnorderedViews \cup {NoView}] /\ r \in [Slots -> Graphics!ResourceViews \cup {NoView}]
    BY <1>2, <1>5 DEF Matched, Graphics!Tables
  <1>7. ASSUME NEW s \in Slots, c.bound.resources[s] # NoView, NEW u \in UnorderedSlots,
               ~Graphics!Overlap(c.bound.resources[s], c.bound.unordered[u])
        PROVE  ~Graphics!Overlap(c.bound.resources[s], w[u])
    <2>1. w[u] \in {view, c.bound.unordered[u]}
      BY DEF Matched, Graphics!Tables
    <2> QED BY <1>3, <1>7, <2>1
  <1> HIDE DEF w, r
  <1>8. /\ d.bound.resources = c.bound.resources /\ d.device.resources = r
        /\ d.bound.unordered = w /\ d.bound.targets = c.bound.targets /\ d.bound.depth = c.bound.depth
        /\ d.device.unordered = w /\ d.device.targets = c.device.targets /\ d.device.depth = c.device.depth
        /\ d.bound \in Graphics!Tables /\ d.device \in Graphics!Tables
    BY <1>1, <1>6 DEF Matched, Graphics!Tables
  <1> QED BY <1>5, <1>7, <1>8 DEF Matched

-----------------------------------------------------------------------------
(* Of a texture that is unbound no view is left on the device: the slots and   *)
(* tables of each kind are emptied of its views, and a target is no depth      *)
(* buffer.                                                                     *)
LEMMA UnbindsTargets ==
  ASSUME NEW c, Matched(c), NEW t, NEW d, d = Graphics!UnbindTargets(c, t)
  PROVE  /\ Matched(d) /\ d.bound.resources = c.bound.resources /\ d.bound.unordered = c.bound.unordered
         /\ d.bound.depth = c.bound.depth
         /\ \A s \in TargetSlots : d.bound.targets[s] # NoView => d.bound.targets[s].texture # t
  <1> DEFINE S == {v \in Graphics!Views(c.bound.targets) : v.texture = t}
             e == [s \in TargetSlots |-> IF c.bound.targets[s] \in S THEN NoView ELSE c.bound.targets[s]]
  <1>1. DOMAIN c.bound.targets = TargetSlots /\ c.bound.depth \in Graphics!DepthViews \cup {NoView}
    BY DEF Matched, Graphics!Tables
  <1>2. ASSUME NEW s \in TargetSlots, c.bound.targets[s] # NoView, c.bound.targets[s].texture = t
        PROVE  c.bound.targets[s] \in S
    <2>1. c.bound.targets[s] \in Graphics!Range(c.bound.targets)
      BY <1>1 DEF Graphics!Range
    <2> QED BY <1>2, <2>1 DEF Graphics!Views
  <1>3. e \in [TargetSlots -> Graphics!TargetViews \cup {NoView}]
    BY DEF Matched, Graphics!Tables
  <1>4. d = IF S = {} THEN c ELSE Graphics!SetBoth(c, e, c.bound.depth)
    BY <1>1 DEF Graphics!UnbindTargets, Graphics!UnbindRenderTargetViews, Graphics!Emptied
  <1>5. ASSUME NEW s \in TargetSlots, e[s] # NoView PROVE e[s].texture # t
    BY <1>2, <1>5
  <1>6. CASE S = {}
    BY <1>2, <1>4, <1>6
  <1>7. CASE S # {}
    <2>1. d = Graphics!SetBoth(c, e, c.bound.depth)
      BY <1>4, <1>7
    <2> HIDE DEF S, e
    <2> QED BY <1>1, <1>3, <1>5, <2>1, SetsBoth
  <1> QED BY <1>6, <1>7

LEMMA UnbindsDepth ==
  ASSUME NEW c, Matched(c), NEW t \in Depths, NEW d, d = Graphics!UnbindDepthStencilView(c, Graphics!DepthView(t))
  PROVE  /\ Matched(d) /\ d.bound.resources = c.bound.resources /\ d.bound.unordered = c.bound.unordered
         /\ d.bound.targets = c.bound.targets
         /\ d.bound.depth # NoView => d.bound.depth.texture # t
  <1>1. /\ c.bound.targets \in [TargetSlots -> Graphics!TargetViews \cup {NoView}]
        /\ c.bound.depth \in Graphics!DepthViews \cup {NoView}
    BY DEF Matched, Graphics!Tables
  <1>2. CASE c.bound.depth # Graphics!DepthView(t)
    <2>1. d = c
      BY <1>2 DEF Graphics!UnbindDepthStencilView
    <2>2. ASSUME c.bound.depth # NoView PROVE c.bound.depth.texture # t
      <3>1. PICK u \in Depths : c.bound.depth = Graphics!DepthView(u)
        BY <1>1, <2>2 DEF Graphics!DepthViews
      <3> QED BY <1>2, <3>1 DEF Graphics!DepthView, Graphics!View
    <2> QED BY <2>1, <2>2
  <1>3. CASE c.bound.depth = Graphics!DepthView(t)
    <2>1. d = Graphics!SetBoth(c, c.bound.targets, NoView)
      BY <1>3 DEF Graphics!UnbindDepthStencilView
    <2> QED BY <1>1, <2>1, SetsBoth
  <1> QED BY <1>2, <1>3

LEMMA Unbinds ==
  ASSUME NEW c, Matched(c), NEW t, NEW d, d = Graphics!Unbound(c, t)
  PROVE  Matched(d) /\ ~Graphics!OnDevice(t, d.device)
  <1> DEFINE a == Graphics!UnbindShaderResources(c, t, Graphics!All)
             b == Graphics!UnbindUnordered(a, t, Graphics!All)
             \* What both kinds of views, and then targets and the depth buffer, are emptied of.
             Unread(e) == \A s \in Slots : e.bound.resources[s] # NoView => e.bound.resources[s].texture # t
             Unwritten(e) == \A s \in UnorderedSlots : e.bound.unordered[s] # NoView => e.bound.unordered[s].texture # t
             NoTarget(e) == \A s \in TargetSlots : e.bound.targets[s] # NoView => e.bound.targets[s].texture # t
             NoDepth(e) == e.bound.depth # NoView => e.bound.depth.texture # t
  <1>1. Matched(a) /\ NotRead(a, t, Graphics!All)
    BY UnbindsRead
  <1>2. Matched(b) /\ NotWritten(b, t, Graphics!All) /\ b.bound.resources = a.bound.resources
    <2> HIDE DEF a
    <2> QED BY <1>1, UnbindsWritten
  <1>3. Unread(b) /\ Unwritten(b)
    <2> HIDE DEF a, b
    <2> QED BY <1>1, <1>2 DEF NotRead, NotWritten, Graphics!Affected
  <1> HIDE DEF a
  <1>4. d = CASE t \in Targets -> Graphics!UnbindTargets(b, t)
              [] t \in Depths -> Graphics!UnbindDepthStencilView(b, Graphics!DepthView(t))
              [] OTHER -> b
    BY DEF Graphics!Unbound, a
  <1> HIDE DEF b
  <1>5. ASSUME NEW e, Matched(e), t \notin Targets PROVE NoTarget(e)
    BY <1>5 DEF Matched, Graphics!Tables, Graphics!TargetViews
  <1>6. ASSUME NEW e, Matched(e), t \notin Depths PROVE NoDepth(e)
    BY <1>6 DEF Matched, Graphics!Tables, Graphics!DepthViews, Graphics!DepthView, Graphics!View
  <1>7. Matched(d) /\ Unread(d) /\ Unwritten(d) /\ NoTarget(d) /\ NoDepth(d)
    <2>1. CASE t \in Targets
      <3>1. d = Graphics!UnbindTargets(b, t) /\ t \notin Depths
        BY <1>4, <2>1, DeviceAssumption
      <3>2. /\ Matched(d) /\ d.bound.resources = b.bound.resources /\ d.bound.unordered = b.bound.unordered
            /\ NoTarget(d)
        BY <1>2, <3>1, UnbindsTargets
      <3> QED BY <1>3, <1>6, <3>1, <3>2
    <2>2. CASE t \notin Targets /\ t \in Depths
      <3>1. d = Graphics!UnbindDepthStencilView(b, Graphics!DepthView(t))
        BY <1>4, <2>2
      <3>2. /\ Matched(d) /\ d.bound.resources = b.bound.resources /\ d.bound.unordered = b.bound.unordered
            /\ NoDepth(d)
        BY <1>2, <2>2, <3>1, UnbindsDepth
      <3> QED BY <1>3, <1>5, <2>2, <3>2
    <2>3. CASE t \notin Targets /\ t \notin Depths
      BY <1>2, <1>3, <1>4, <1>5, <1>6, <2>3
    <2> QED BY <2>1, <2>2, <2>3
  <1>8. ASSUME NEW v, v # NoView, v.texture = t,
               v \in Graphics!Range(d.device.resources) \/ v \in Graphics!Written(d.device)
        PROVE  FALSE
    <2>1. v \notin Graphics!Range(d.device.resources)
      BY <1>7, <1>8 DEF Graphics!Range, Matched, Graphics!Tables
    <2>2. v \notin Graphics!Range(d.device.unordered) /\ v \notin Graphics!Range(d.device.targets) /\ v # d.device.depth
      BY <1>7, <1>8 DEF Graphics!Range, Matched, Graphics!Tables
    <2> QED BY <1>8, <2>1, <2>2 DEF Graphics!Written
  <1> HIDE DEF Unread, Unwritten, NoTarget, NoDepth
  <1> QED BY <1>7, <1>8 DEF Graphics!OnDevice

(* Every call keeps the invariant.                                             *)
LEMMA TextureCalls ==
  ASSUME Matched(Graphics!Now), NEW t \in DOMAIN Planes, NEW c,
         \/ \E k \in Keys \cup {Graphics!DefaultKey}, s \in Slots :
              c = Graphics!BindShaderResourceViews(
                    Graphics!UnbindUnordered(Graphics!Now, t, k.mip), Graphics!GetResourceViews(t, k), s)
         \/ \E k \in Keys \cup {Graphics!DefaultKey}, s \in UnorderedSlots :
              /\ t \in Unordered
              /\ c = Graphics!BindUnorderedAccessView(
                       Graphics!UnbindShaderResources(Graphics!Now, t, k.mip), Graphics!GetUnorderedView(t, k), s)
         \/ \E m : c = Graphics!UnbindShaderResources(Graphics!Now, t, m) \/ c = Graphics!UnbindUnordered(Graphics!Now, t, m)
  PROVE  Matched(c)
  <1>1. ASSUME NEW k \in Keys \cup {Graphics!DefaultKey}, NEW s \in Slots,
               c = Graphics!BindShaderResourceViews(
                     Graphics!UnbindUnordered(Graphics!Now, t, k.mip), Graphics!GetResourceViews(t, k), s)
        PROVE  Matched(c)
    <2> DEFINE a == Graphics!UnbindUnordered(Graphics!Now, t, k.mip)
    <2>1. Matched(a) /\ NotWritten(a, t, k.mip)
      BY UnbindsWritten
    <2>2. c = Graphics!BindShaderResourceViews(a, Graphics!GetResourceViews(t, k), s)
      BY <1>1
    <2> HIDE DEF a
    <2> QED BY <2>1, <2>2, BindsRead
  <1>2. ASSUME NEW k \in Keys \cup {Graphics!DefaultKey}, NEW s \in UnorderedSlots, t \in Unordered,
               c = Graphics!BindUnorderedAccessView(
                     Graphics!UnbindShaderResources(Graphics!Now, t, k.mip), Graphics!GetUnorderedView(t, k), s)
        PROVE  Matched(c)
    <2> DEFINE a == Graphics!UnbindShaderResources(Graphics!Now, t, k.mip)
    <2>1. Matched(a) /\ NotRead(a, t, k.mip)
      BY UnbindsRead
    <2>2. c = Graphics!BindUnorderedAccessView(a, Graphics!GetUnorderedView(t, k), s)
      BY <1>2
    <2> HIDE DEF a
    <2> QED BY <1>2, <2>1, <2>2, BindsWritten
  <1>3. ASSUME NEW m, c = Graphics!UnbindShaderResources(Graphics!Now, t, m) \/ c = Graphics!UnbindUnordered(Graphics!Now, t, m)
        PROVE  Matched(c)
    BY <1>3, UnbindsRead, UnbindsWritten
  <1> QED BY <1>1, <1>2, <1>3

LEMMA TargetTyped ==
  ASSUME NEW t \in Targets, NEW f \in Formats \cup {"unknown"}
  PROVE  Graphics!TargetView(t, f) \in Graphics!TargetViews
  <1>1. (IF f = "unknown" THEN "default" ELSE f) \in Graphics!ViewFormats
    BY DEF Graphics!ViewFormats
  <1> QED BY <1>1 DEF Graphics!TargetView, Graphics!View, Graphics!TargetViews

LEMMA AloneTyped ==
  ASSUME NEW list, \A i \in DOMAIN list : list[i] \in Graphics!TargetViews
  PROVE  Graphics!Alone(list) \in [TargetSlots -> Graphics!TargetViews \cup {NoView}]
  BY DEF Graphics!Alone

LEMMA TargetCalls ==
  ASSUME Matched(Graphics!Now), NEW c, NEW t,
         \/ c = Graphics!Unbound(Graphics!Now, t)
         \/ \E u : c = Graphics!Unbound(Graphics!Unbound(Graphics!Now, t), u)
         \/ t \in Targets /\ c = Graphics!UnbindTargets(Graphics!Now, t)
         \/ /\ t \in Targets
            /\ \E f \in Formats :
                 c = Graphics!BindRenderTargetView(Graphics!Unbound(Graphics!Now, t), Graphics!TargetView(t, f))
         \/ /\ t \in Depths
            /\ \/ c = Graphics!UnbindDepthStencilView(Graphics!Now, Graphics!DepthView(t))
               \/ c = Graphics!BindDepthStencilView(Graphics!Unbound(Graphics!Now, t), Graphics!DepthView(t))
  PROVE  Matched(c)
  <1> DEFINE a == Graphics!Unbound(Graphics!Now, t)
  <1>1. Matched(a)
    BY Unbinds
  <1> HIDE DEF a
  <1>2. ASSUME NEW u PROVE Matched(Graphics!Unbound(a, u))
    BY <1>1, Unbinds
  <1>3. ASSUME t \in Targets PROVE Matched(Graphics!UnbindTargets(Graphics!Now, t))
    BY UnbindsTargets
  <1>4. ASSUME t \in Targets, NEW f \in Formats PROVE Matched(Graphics!BindRenderTargetView(a, Graphics!TargetView(t, f)))
    <2> DEFINE list == <<Graphics!TargetView(t, f)>>
    <2>1. \A i \in DOMAIN list : list[i] \in Graphics!TargetViews
      BY <1>4, TargetTyped
    <2>2. Graphics!BindRenderTargetView(a, Graphics!TargetView(t, f)) = Graphics!SetBoth(a, Graphics!Alone(list), NoView)
      BY DEF Graphics!BindRenderTargetView
    <2> HIDE DEF list
    <2>3. Graphics!Alone(list) \in [TargetSlots -> Graphics!TargetViews \cup {NoView}]
      BY <2>1, AloneTyped
    <2> QED BY <1>1, <2>2, <2>3, SetsBoth
  <1>5. ASSUME t \in Depths PROVE Matched(Graphics!UnbindDepthStencilView(Graphics!Now, Graphics!DepthView(t)))
    BY <1>5, UnbindsDepth
  <1>6. ASSUME t \in Depths PROVE Matched(Graphics!BindDepthStencilView(a, Graphics!DepthView(t)))
    <2>1. \A i \in DOMAIN << >> : << >>[i] \in Graphics!TargetViews
      OBVIOUS
    <2>2. Graphics!Alone(<< >>) \in [TargetSlots -> Graphics!TargetViews \cup {NoView}]
      BY <2>1, AloneTyped
    <2>3. Graphics!DepthView(t) \in Graphics!DepthViews
      BY <1>6 DEF Graphics!DepthViews
    <2>4. Graphics!BindDepthStencilView(a, Graphics!DepthView(t)) = Graphics!SetBoth(a, Graphics!Alone(<< >>), Graphics!DepthView(t))
      BY DEF Graphics!BindDepthStencilView
    <2> QED BY <1>1, <2>2, <2>3, <2>4, SetsBoth
  <1> QED BY <1>1, <1>2, <1>3, <1>4, <1>5, <1>6 DEF a

LEMMA BindsTargets ==
  ASSUME Matched(Graphics!Now), NEW c, NEW n, NEW targets \in Graphics!SeqOf(Targets, n), NEW depth \in Depths \cup {NoView},
         c = Graphics!SetBoth(Graphics!Now, Graphics!Alone([i \in DOMAIN targets |-> Graphics!TargetView(targets[i], "unknown")]),
                              IF depth = NoView THEN NoView ELSE Graphics!DepthView(depth))
  PROVE  Matched(c)
  <1> DEFINE list == [i \in DOMAIN targets |-> Graphics!TargetView(targets[i], "unknown")]
             d == IF depth = NoView THEN NoView ELSE Graphics!DepthView(depth)
  <1>1. \A i \in DOMAIN targets : targets[i] \in Targets
    BY DEF Graphics!SeqOf
  <1>2. \A i \in DOMAIN list : list[i] \in Graphics!TargetViews
    BY <1>1, TargetTyped
  <1>3. d \in Graphics!DepthViews \cup {NoView}
    BY DEF Graphics!DepthViews
  <1> HIDE DEF list, d
  <1>4. Graphics!Alone(list) \in [TargetSlots -> Graphics!TargetViews \cup {NoView}]
    BY <1>2, AloneTyped
  <1> QED BY <1>3, <1>4, SetsBoth DEF list, d

-----------------------------------------------------------------------------
DeviceInv == Graphics!TypeOK /\ Graphics!DeviceIsKnown /\ Graphics!ReadsWhatWasBound

LEMMA DeviceNext == DeviceInv /\ [Graphics!Next]_(Graphics!contextVars) => DeviceInv'
  <1> SUFFICES ASSUME DeviceInv, [Graphics!Next]_(Graphics!contextVars) PROVE DeviceInv'
    OBVIOUS
  <1>1. Matched(Graphics!Now)
    BY MatchedNow DEF DeviceInv
  <1>2. ASSUME NEW c, Matched(c), Graphics!Becomes(c) PROVE DeviceInv'
    <2>1. Matched(Graphics!Now)' <=> Matched(c)
      BY <1>2 DEF Matched, Graphics!Becomes, Graphics!Now, Graphics!Tables, Graphics!ResourceViews, Graphics!UnorderedViews,
         Graphics!TargetViews, Graphics!DepthViews, Graphics!DepthView, Graphics!View, Graphics!Textures,
         Graphics!ViewFormats, Graphics!Overlap, Graphics!LevelsOf
    <2>2. Matched(Graphics!Now)' <=> DeviceInv'
      BY MatchedNow, PTL DEF DeviceInv
    <2> QED BY <1>2, <2>1, <2>2
  <1>3. ASSUME NEW t \in DOMAIN Planes, NEW k \in Keys \cup {Graphics!DefaultKey}, NEW s \in Slots, Graphics!BindResource(t, s, k)
        PROVE  DeviceInv'
    BY <1>1, <1>2, <1>3, TextureCalls DEF Graphics!BindResource
  <1>4. ASSUME NEW t \in DOMAIN Planes, NEW k \in Keys \cup {Graphics!DefaultKey}, NEW s \in UnorderedSlots,
               Graphics!BindWritable(t, s, k)
        PROVE  DeviceInv'
    BY <1>1, <1>2, <1>4, TextureCalls DEF Graphics!BindWritable
  <1>5. ASSUME NEW t \in DOMAIN Planes, NEW m, Graphics!UnbindResource(t, m) \/ Graphics!UnbindWritable(t, m)
        PROVE  DeviceInv'
    BY <1>1, <1>2, <1>5, TextureCalls DEF Graphics!UnbindResource, Graphics!UnbindWritable
  <1>6. ASSUME NEW t, \/ Graphics!Unbind(t) \/ Graphics!Update(t) \/ Graphics!BindDepth(t) \/ Graphics!UnbindDepth(t)
                      \/ Graphics!UnbindTarget(t) \/ \E f \in Formats : Graphics!BindTarget(t, f)
                      \/ \E u : Graphics!Copy(t, u)
        PROVE  DeviceInv'
    BY <1>1, <1>2, <1>6, TargetCalls
       DEF Graphics!Unbind, Graphics!Update, Graphics!BindDepth, Graphics!UnbindDepth, Graphics!UnbindTarget,
           Graphics!BindTarget, Graphics!Copy
  <1>7. ASSUME NEW n, NEW targets \in Graphics!SeqOf(Targets, n), NEW d \in Depths \cup {NoView},
               Graphics!BindRenderTargets(targets, d)
        PROVE  DeviceInv'
    BY <1>1, <1>2, <1>7, BindsTargets DEF Graphics!BindRenderTargets
  <1>8. CASE UNCHANGED Graphics!contextVars
    BY <1>1, <1>2, <1>8 DEF Graphics!contextVars, Graphics!Becomes, Graphics!Now
  <1>9. ASSUME NEW t PROVE Graphics!KeysOf(t) \subseteq Keys \cup {Graphics!DefaultKey}
    BY DEF Graphics!KeysOf
  <1> QED BY <1>3, <1>4, <1>5, <1>6, <1>7, <1>8, <1>9 DEF Graphics!Next, Graphics!Textures

(* Whatever textures are bound and unbound through a context, with whatever    *)
(* views, levels and slots: what the device has bound is known to the context, *)
(* what is bound for reading is read, and unbinding leaves nothing behind.     *)
THEOREM BindingsHold == GraphicsSpec => []BindingsKept
  <1>1. GraphicsInit => DeviceInv
    BY DEF GraphicsInit, Graphics!Init, Graphics!NoneBound, DeviceInv, Graphics!TypeOK, Graphics!Tables,
       Graphics!DeviceIsKnown, Graphics!ReadsWhatWasBound
  <1>2. [GraphicsNext]_graphicsVars => [Graphics!Next]_(Graphics!contextVars)
    BY DEF GraphicsNext, Binding, Updating, Scanning, Graphics!contextVars, graphicsVars
  <1>3. DeviceInv => BindingsKept
    <2> SUFFICES ASSUME DeviceInv PROVE BindingsKept
      OBVIOUS
    <2>1. Graphics!UnbindIsReliable
      BY MatchedNow, Unbinds DEF DeviceInv, Graphics!UnbindIsReliable
    <2> QED BY <2>1 DEF DeviceInv, BindingsKept
  <1> QED BY <1>1, <1>2, <1>3, DeviceNext, PTL DEF GraphicsSpec

-----------------------------------------------------------------------------
(* The least and the greatest of two numbers, and integer division.            *)
LEMMA Least ==
  ASSUME NEW a \in Int, NEW b \in Int
  PROVE  Rects!Min({a, b}) = IF a <= b THEN a ELSE b
  <1> DEFINE m == IF a <= b THEN a ELSE b
  <1>1. m \in {a, b} /\ \A x \in {a, b} : x >= m
    OBVIOUS
  <1>2. ASSUME NEW x \in {a, b}, \A y \in {a, b} : y >= x PROVE x = m
    BY <1>2
  <1> HIDE DEF m
  <1> QED BY <1>1, <1>2 DEF Rects!Min, m

LEMMA Greatest ==
  ASSUME NEW a \in Int, NEW b \in Int
  PROVE  Rects!Max({a, b}) = IF a <= b THEN b ELSE a
  <1> DEFINE m == IF a <= b THEN b ELSE a
  <1>1. m \in {a, b} /\ \A x \in {a, b} : x <= m
    OBVIOUS
  <1>2. ASSUME NEW x \in {a, b}, \A y \in {a, b} : x >= y PROVE x = m
    BY <1>2
  <1> HIDE DEF m
  <1> QED BY <1>1, <1>2 DEF Rects!Max, m

LEMMA DivisionIsLeast ==
  ASSUME NEW a \in Int, NEW h \in Int, NEW r \in Nat \ {0}, h * r <= a
  PROVE  a \div r \in Int /\ h <= a \div r
  <1> DEFINE q == a \div r
  <1>1. q \in Int /\ q * r <= a /\ a < (q + 1) * r
    OBVIOUS
  <1> HIDE DEF q
  <1>2. ASSUME h >= q + 1 PROVE FALSE
    <2>1. h * r >= (q + 1) * r
      BY <1>1, <1>2
    <2> QED BY <1>1, <2>1
  <1> QED BY <1>1, <1>2 DEF q

-----------------------------------------------------------------------------
IntRects == [Left : Int, Top : Int, Right : Int, Bottom : Int]
IntSizes == [Width : Int, Height : Int]

(* What is clamped lies between 0 and the size, and is left alone if it did.   *)
LEMMA ClampsTo ==
  ASSUME NEW n \in Int, NEW most \in Nat
  PROVE  Rects!Clamped(n, most) = IF n <= 0 THEN 0 ELSE IF n <= most THEN n ELSE most
  <1>1. Rects!Min({n, most}) = IF n <= most THEN n ELSE most
    BY Least
  <1>2. ASSUME NEW m \in Int PROVE Rects!Max({0, m}) = IF 0 <= m THEN m ELSE 0
    BY Greatest
  <1> QED BY <1>1, <1>2 DEF Rects!Clamped

THEOREM ClipsToTheImage ==
  ASSUME NEW rect \in IntRects, NEW size \in [Width : Nat, Height : Nat]
  PROVE  Rects!ClipsToShared(rect, size)
  <1>1. ASSUME NEW n \in Int, NEW most \in Nat, NEW x \in 0..(most - 1)
        PROVE  (Rects!Clamped(n, most) <= x <=> n <= x) /\ (x < Rects!Clamped(n, most) <=> x < n)
    BY ClampsTo
  <1> QED BY <1>1 DEF IntRects, Rects!ClipsToShared, Rects!Clamp, Rects!RectOf

(* Of the edges of one direction: pushed from the near side, then back from    *)
(* the far one, then cut.                                                      *)
LEMMA EdgesMoved ==
  ASSUME NEW l \in Int, NEW r \in Int, l <= r, NEW most \in Nat, NEW in \in Int, in = (IF l <= 0 THEN -l ELSE 0),
         NEW out \in Int, out = (IF r + in <= most THEN 0 ELSE r + in - most), NEW m \in Int, m = in - out,
         NEW x \in Int, x = (IF l + m <= 0 THEN 0 ELSE IF l + m <= most THEN l + m ELSE most),
         NEW y \in Int, y = (IF r + m <= 0 THEN 0 ELSE IF r + m <= most THEN r + m ELSE most)
  PROVE  /\ 0 <= x /\ y <= most
         /\ y - x = IF r - l <= most THEN r - l ELSE most
         /\ 0 <= l /\ r <= most => x = l /\ y = r
  OBVIOUS

\* How far the edges are pushed and pushed back, and where they end up.
In(l) == Rects!Max({0, -l})
Out(l, r, most) == Rects!Max({0, r + In(l) - most})
Placed(n, l, r, most) == Rects!Clamped(n + In(l) + (-Out(l, r, most)), most)
EdgesFit(l, r, most, x, y) ==
  /\ x \in Int /\ y \in Int /\ 0 <= x /\ y <= most
  /\ y - x = Rects!Min({r - l, most})
  /\ 0 <= l /\ r <= most => x = l /\ y = r

LEMMA EdgesPushed ==
  ASSUME NEW l \in Int, NEW r \in Int, l <= r, NEW most \in Nat
  PROVE  EdgesFit(l, r, most, Placed(l, l, r, most), Placed(r, l, r, most))
  <1> DEFINE in == In(l)
             out == Out(l, r, most)
             k == r + in - most
             m == in - out
             x == Placed(l, l, r, most)
             y == Placed(r, l, r, most)
  <1>1. in \in Int /\ in = IF l <= 0 THEN -l ELSE 0
    BY Greatest DEF In
  <1>2. out = Rects!Max({0, k})
    BY DEF Out
  <1>3. x = Rects!Clamped(l + in + (-out), most) /\ y = Rects!Clamped(r + in + (-out), most)
    BY DEF Placed
  <1> HIDE DEF in, out, x, y
  <1>4. k \in Int
    BY <1>1
  <1>5. out = IF 0 <= k THEN k ELSE 0
    <2> HIDE DEF k
    <2> QED BY <1>2, <1>4, Greatest
  <1>6. out \in Int /\ out = IF r + in <= most THEN 0 ELSE r + in - most
    BY <1>1, <1>5
  <1>7. m \in Int /\ l + in + (-out) = l + m /\ r + in + (-out) = r + m
    BY <1>1, <1>6
  <1>8. Rects!Min({r - l, most}) = IF r - l <= most THEN r - l ELSE most
    BY Least
  <1>9. m = in - out
    OBVIOUS
  <1> HIDE DEF m, k
  <1>10. /\ x \in Int /\ x = IF l + m <= 0 THEN 0 ELSE IF l + m <= most THEN l + m ELSE most
         /\ y \in Int /\ y = IF r + m <= 0 THEN 0 ELSE IF r + m <= most THEN r + m ELSE most
    <2>1. ASSUME NEW n \in Int PROVE Rects!Clamped(n, most) \in Int
      BY ClampsTo
    <2> QED BY <1>3, <1>7, <2>1, ClampsTo
  <1>11. /\ 0 <= x /\ y <= most
         /\ y - x = IF r - l <= most THEN r - l ELSE most
         /\ 0 <= l /\ r <= most => x = l /\ y = r
    BY <1>1, <1>6, <1>7, <1>9, <1>10, EdgesMoved
  <1> QED BY <1>8, <1>10, <1>11 DEF EdgesFit, x, y

(* A crop that is dragged stays in the image.                                  *)
THEOREM PushedStaysInside ==
  ASSUME NEW rect \in IntRects, rect.Left <= rect.Right, rect.Top <= rect.Bottom, NEW size \in [Width : Nat, Height : Nat]
  PROVE  Rects!StaysInside(rect, size)
  <1> DEFINE pushed == Rects!PushClamp(rect, size)
             l == Placed(rect.Left, rect.Left, rect.Right, size.Width)
             r == Placed(rect.Right, rect.Left, rect.Right, size.Width)
             t == Placed(rect.Top, rect.Top, rect.Bottom, size.Height)
             b == Placed(rect.Bottom, rect.Top, rect.Bottom, size.Height)
  <1>1. /\ rect.Left \in Int /\ rect.Right \in Int /\ rect.Top \in Int /\ rect.Bottom \in Int
        /\ size.Width \in Nat /\ size.Height \in Nat
        /\ rect = [Left |-> rect.Left, Top |-> rect.Top, Right |-> rect.Right, Bottom |-> rect.Bottom]
    BY DEF IntRects
  <1>2. pushed = [Left |-> l, Top |-> t, Right |-> r, Bottom |-> b]
    <2> DEFINE in == Rects!Pushed(rect, In(rect.Left), In(rect.Top))
               back == Out(rect.Left, rect.Right, size.Width)
               up == Out(rect.Top, rect.Bottom, size.Height)
               out == Rects!Pushed(in, -back, -up)
    <2>1. /\ in.Left = rect.Left + In(rect.Left) /\ in.Right = rect.Right + In(rect.Left)
          /\ in.Top = rect.Top + In(rect.Top) /\ in.Bottom = rect.Bottom + In(rect.Top)
      BY DEF Rects!Pushed, Rects!RectOf
    <2>2. pushed = Rects!Clamp(Rects!Pushed(in, -Rects!Max({0, in.Right - size.Width}),
                                            -Rects!Max({0, in.Bottom - size.Height})), size)
      BY DEF Rects!PushClamp, In
    <2> HIDE DEF in, pushed
    <2>3. /\ out.Left = in.Left + (-back) /\ out.Right = in.Right + (-back)
          /\ out.Top = in.Top + (-up) /\ out.Bottom = in.Bottom + (-up)
      BY DEF Rects!Pushed, Rects!RectOf
    <2>4. /\ in.Right - size.Width = rect.Right + In(rect.Left) - size.Width
          /\ in.Bottom - size.Height = rect.Bottom + In(rect.Top) - size.Height
      <3>1. ASSUME NEW n \in Int PROVE In(n) \in Int
        <4>1. -n \in Int
          OBVIOUS
        <4> QED BY <4>1, Greatest DEF In
      <3>2. In(rect.Left) \in Int /\ In(rect.Top) \in Int
        BY <1>1, <3>1
      <3> QED BY <1>1, <2>1, <3>2
    <2>5. Rects!Max({0, in.Right - size.Width}) = back /\ Rects!Max({0, in.Bottom - size.Height}) = up
      BY <2>4 DEF Out
    <2>6. pushed = Rects!Clamp(out, size)
      BY <2>2, <2>5
    <2> HIDE DEF out
    <2>7. pushed = [Left |-> Rects!Clamped(out.Left, size.Width), Top |-> Rects!Clamped(out.Top, size.Height),
                    Right |-> Rects!Clamped(out.Right, size.Width), Bottom |-> Rects!Clamped(out.Bottom, size.Height)]
      BY <2>6 DEF Rects!Clamp, Rects!RectOf
    <2> QED BY <2>1, <2>3, <2>7 DEF Placed
  <1>3. EdgesFit(rect.Left, rect.Right, size.Width, l, r) /\ EdgesFit(rect.Top, rect.Bottom, size.Height, t, b)
    BY <1>1, EdgesPushed
  <1> HIDE DEF l, r, t, b, pushed
  <1>4. /\ Rects!FromSize(size) = [Left |-> 0, Top |-> 0, Right |-> size.Width, Bottom |-> size.Height]
        /\ Rects!Size(pushed) = [Width |-> r - l, Height |-> b - t]
        /\ Rects!Size(rect) = [Width |-> rect.Right - rect.Left, Height |-> rect.Bottom - rect.Top]
    BY <1>2 DEF Rects!FromSize, Rects!RectOf, Rects!Size, Rects!SizeOf
  <1>5. Rects!Contains(Rects!FromSize(size), pushed)
    BY <1>2, <1>3, <1>4 DEF Rects!Contains, EdgesFit
  <1>6. /\ Rects!Size(pushed).Width = Rects!Min({Rects!Size(rect).Width, size.Width})
        /\ Rects!Size(pushed).Height = Rects!Min({Rects!Size(rect).Height, size.Height})
    BY <1>3, <1>4 DEF EdgesFit
  <1>7. ASSUME Rects!Contains(Rects!FromSize(size), rect) PROVE pushed = rect
    <2>1. 0 <= rect.Left /\ 0 <= rect.Top /\ rect.Right <= size.Width /\ rect.Bottom <= size.Height
      BY <1>1, <1>4, <1>7 DEF Rects!Contains
    <2>2. l = rect.Left /\ r = rect.Right /\ t = rect.Top /\ b = rect.Bottom
      BY <1>3, <2>1 DEF EdgesFit
    <2> QED BY <1>1, <1>2, <2>2
  <1> QED BY <1>5, <1>6, <1>7 DEF Rects!StaysInside, pushed

-----------------------------------------------------------------------------
(* Around its center an interval of another size begins and ends where it      *)
(* should, but for the rounding of the center and of half the size.            *)
LEMMA Quotients ==
  ASSUME NEW n \in Int
  PROVE  /\ Rects!Quotient(n, 2) \in Int
         /\ n - 1 <= 2 * Rects!Quotient(n, 2) /\ 2 * Rects!Quotient(n, 2) <= n + 1
         /\ n >= 0 => 2 * Rects!Quotient(n, 2) <= n
         /\ n <= 0 => 2 * Rects!Quotient(n, 2) >= n
  BY DEF Rects!Quotient

LEMMA DoubleHalved ==
  ASSUME NEW n \in Int, NEW h \in Int
  PROVE  Rects!Quotient((n - h) + (n + h), 2) = n
  <1>1. (n - h) + (n + h) = 2 * n
    OBVIOUS
  <1>2. Rects!Quotient(2 * n, 2) = n
    BY DEF Rects!Quotient
  <1> QED BY <1>1, <1>2

LEMMA Around ==
  ASSUME NEW l \in Int, NEW r \in Int, l < r, NEW n \in Int, n >= r - l,
         NEW c, c = Rects!Quotient(l + r, 2), NEW h, h = Rects!Quotient(n, 2)
  PROVE  /\ c \in Int /\ h \in Int /\ c - h - 1 <= l /\ r <= c + h + 1
         /\ n = r - l => l - 1 <= c - h /\ c + h <= r + 1
  <1>1. /\ c \in Int /\ l + r - 1 <= 2 * c /\ 2 * c <= l + r + 1
        /\ h \in Int /\ n - 1 <= 2 * h /\ 2 * h <= n
    <2>1. l + r \in Int /\ n >= 0
      OBVIOUS
    <2> QED BY <2>1, Quotients
  <1> QED BY <1>1


(* A rectangle that is fitted to an aspect ratio keeps its center, covers the  *)
(* old one and grows in one direction only.                                    *)
THEOREM FitsAroundAll ==
  ASSUME NEW rect \in IntRects, Rects!Something(rect), NEW n \in Nat \ {0}, NEW d \in Nat \ {0}
  PROVE  Rects!FitsAround(rect, <<n, d>>)
  <1> DEFINE ratio == <<n, d>>
             fit == Rects!Fit(rect, ratio)
             w == rect.Right - rect.Left
             h == rect.Bottom - rect.Top
             broad == w * d
             high == h * n
             width == IF broad > high THEN w ELSE high \div d
             height == IF broad > high THEN broad \div n ELSE h
             cx == Rects!Quotient(rect.Left + rect.Right, 2)
             cy == Rects!Quotient(rect.Top + rect.Bottom, 2)
             hx == Rects!Quotient(width, 2)
             hy == Rects!Quotient(height, 2)
  <1>1. /\ rect.Left \in Int /\ rect.Right \in Int /\ rect.Top \in Int /\ rect.Bottom \in Int
        /\ rect.Left < rect.Right /\ rect.Top < rect.Bottom
    BY DEF IntRects, Rects!Something
  <1>2. w \in Int /\ h \in Int
    BY <1>1
  <1>3. width \in Int /\ height \in Int /\ width >= w /\ height >= h /\ (width = w \/ height = h)
    <2> HIDE DEF w, h
    <2>1. broad \in Int /\ high \in Int
      BY <1>2
    <2>2. CASE broad > high
      <3>1. h * n <= broad
        <4> HIDE DEF broad
        <4> QED BY <2>1, <2>2
      <3>2. broad \div n \in Int /\ h <= broad \div n
        <4> HIDE DEF broad
        <4> QED BY <1>2, <2>1, <3>1, DivisionIsLeast
      <3> HIDE DEF broad, high
      <3> QED BY <1>2, <2>2, <3>2
    <2>3. CASE ~(broad > high)
      <3>1. w * d <= high
        <4> HIDE DEF high
        <4> QED BY <2>1, <2>3
      <3>2. high \div d \in Int /\ w <= high \div d
        <4> HIDE DEF high
        <4> QED BY <1>2, <2>1, <3>1, DivisionIsLeast
      <3> HIDE DEF broad, high
      <3> QED BY <1>2, <2>3, <3>2
    <2> QED BY <2>2, <2>3
  <1>4. fit = [Left |-> cx - hx, Top |-> cy - hy, Right |-> cx + hx, Bottom |-> cy + hy]
    <2>1. Rects!Size(rect).Width = w /\ Rects!Size(rect).Height = h /\ ratio[1] = n /\ ratio[2] = d
      BY DEF Rects!Size, Rects!SizeOf
    <2>2. Rects!Center(rect).X = cx /\ Rects!Center(rect).Y = cy
      BY DEF Rects!Center, Rects!PointOf
    <2> HIDE DEF w, h, cx, cy, ratio
    <2>3. fit = Rects!FromCenterSize(Rects!Center(rect),
                  IF broad > high THEN Rects!SizeOf(w, broad \div n) ELSE Rects!SizeOf(high \div d, h))
      BY <2>1 DEF Rects!Fit
    <2> HIDE DEF broad, high, fit
    <2>4. (IF broad > high THEN Rects!SizeOf(w, broad \div n) ELSE Rects!SizeOf(high \div d, h)) =
          Rects!SizeOf(width, height)
      OBVIOUS
    <2>5. /\ Rects!Half(Rects!SizeOf(width, height)).Width = hx
          /\ Rects!Half(Rects!SizeOf(width, height)).Height = hy
      BY DEF Rects!Half, Rects!SizeOf
    <2> HIDE DEF width, height, hx, hy
    <2>6. fit = Rects!FromCenterSize(Rects!Center(rect), Rects!SizeOf(width, height))
      BY <2>3, <2>4
    <2> QED BY <2>2, <2>5, <2>6 DEF Rects!FromCenterSize, Rects!RectOf
  <1> HIDE DEF width, height, fit
  <1>5. /\ cx \in Int /\ hx \in Int /\ cx - hx - 1 <= rect.Left /\ rect.Right <= cx + hx + 1
        /\ width = w => rect.Left - 1 <= cx - hx /\ cx + hx <= rect.Right + 1
    BY <1>1, <1>3, Around
  <1>6. /\ cy \in Int /\ hy \in Int /\ cy - hy - 1 <= rect.Top /\ rect.Bottom <= cy + hy + 1
        /\ height = h => rect.Top - 1 <= cy - hy /\ cy + hy <= rect.Bottom + 1
    BY <1>1, <1>3, Around
  <1> HIDE DEF cx, cy, hx, hy, w, h
  <1>7. Rects!Center(fit) = Rects!Center(rect)
    <2>1. Rects!Quotient(fit.Left + fit.Right, 2) = cx /\ Rects!Quotient(fit.Top + fit.Bottom, 2) = cy
      BY <1>4, <1>5, <1>6, DoubleHalved
    <2> QED BY <2>1 DEF Rects!Center, cx, cy
  <1>8. Rects!Contains(Rects!Offset(fit, 1), rect)
    BY <1>1, <1>4, <1>5, <1>6 DEF Rects!Contains, Rects!Offset, Rects!RectOf
  <1>9. ASSUME width = w
        PROVE  Rects!Contains(Rects!Offset(rect, 1), Rects!RectOf(fit.Left, rect.Top, fit.Right, rect.Bottom))
    BY <1>1, <1>4, <1>5, <1>9 DEF Rects!Contains, Rects!Offset, Rects!RectOf
  <1>10. ASSUME height = h
         PROVE  Rects!Contains(Rects!Offset(rect, 1), Rects!RectOf(rect.Left, fit.Top, rect.Right, fit.Bottom))
    BY <1>1, <1>4, <1>6, <1>10 DEF Rects!Contains, Rects!Offset, Rects!RectOf
  <1> QED BY <1>3, <1>7, <1>8, <1>9, <1>10 DEF Rects!FitsAround, fit, ratio


-----------------------------------------------------------------------------
(* The least rectangle of pixels that has all points, and one point more.      *)
Points == [X : 0..MaxInt, Y : 0..MaxInt]
Contained(edges, p) ==
  p.X >= edges.Left /\ p.Y >= edges.Top /\ p.X + 1 <= edges.Right /\ p.Y + 1 <= edges.Bottom
Tightly(points, edges) ==
  IF points = {} THEN edges = Rects!Empty
  ELSE /\ \A p \in points : Contained(edges, p)
       /\ \E a, b, c, d \in points : edges = Rects!RectOf(a.X, b.Y, c.X + 1, d.Y + 1)

LEMMA IsAccumulated ==
  ASSUME NEW points, points \subseteq Points, NEW edges
  PROVE  Rects!Accumulated(points, edges) <=> Tightly(points, edges)
  <1>1. ASSUME NEW p
        PROVE  Rects!FromLeftTopSize(p, Rects!SizeOf(1, 1)) =
                 [Left |-> p.X, Top |-> p.Y, Right |-> p.X + 1, Bottom |-> p.Y + 1]
    BY DEF Rects!FromLeftTopSize, Rects!SizeOf, Rects!RectOf
  <1>2. ASSUME NEW p
        PROVE  Rects!Contains(edges, Rects!FromLeftTopSize(p, Rects!SizeOf(1, 1))) <=> Contained(edges, p)
    BY <1>1 DEF Rects!Contains, Contained
  <1> QED BY <1>2 DEF Rects!Accumulated, Tightly

LEMMA ExtendsTo ==
  ASSUME NEW rect \in IntRects, NEW p \in Points
  PROVE  Rects!Extend(rect, p) =
           [Left |-> IF p.X <= rect.Left THEN p.X ELSE rect.Left, Top |-> IF p.Y <= rect.Top THEN p.Y ELSE rect.Top,
            Right |-> IF p.X + 1 <= rect.Right THEN rect.Right ELSE p.X + 1,
            Bottom |-> IF p.Y + 1 <= rect.Bottom THEN rect.Bottom ELSE p.Y + 1]
  <1>1. /\ p.X \in Int /\ p.Y \in Int /\ p.X + 1 \in Int /\ p.Y + 1 \in Int
        /\ rect.Left \in Int /\ rect.Top \in Int /\ rect.Right \in Int /\ rect.Bottom \in Int
    BY DEF IntRects, Points
  <1>2. /\ Rects!Min({p.X, rect.Left}) = IF p.X <= rect.Left THEN p.X ELSE rect.Left
        /\ Rects!Min({p.Y, rect.Top}) = IF p.Y <= rect.Top THEN p.Y ELSE rect.Top
    BY <1>1, Least
  <1>3. /\ Rects!Max({p.X + 1, rect.Right}) = IF p.X + 1 <= rect.Right THEN rect.Right ELSE p.X + 1
        /\ Rects!Max({p.Y + 1, rect.Bottom}) = IF p.Y + 1 <= rect.Bottom THEN rect.Bottom ELSE p.Y + 1
    BY <1>1, Greatest
  <1> QED BY <1>2, <1>3 DEF Rects!Extend, Rects!RectOf

LEMMA OneMore ==
  ASSUME NEW points, points \subseteq Points, NEW edges, Tightly(points, edges), NEW p \in Points
  PROVE  Tightly(points \cup {p}, Rects!Extend(edges, p))
  <1> DEFINE more == points \cup {p}
             e == Rects!Extend(edges, p)
  <1>1. MaxInt \in Nat
    BY ScanAssumption
  <1>2. p.X \in 0..MaxInt /\ p.Y \in 0..MaxInt
    BY DEF Points
  <1>3. CASE points = {}
    <2>1. edges = [Left |-> MaxInt, Top |-> MaxInt, Right |-> -MaxInt - 1, Bottom |-> -MaxInt - 1]
      BY <1>3 DEF Tightly, Rects!Empty, Rects!RectOf, Rects!MinInt
    <2>2. edges \in IntRects
      BY <1>1, <2>1 DEF IntRects
    <2>3. e = [Left |-> p.X, Top |-> p.Y, Right |-> p.X + 1, Bottom |-> p.Y + 1]
      BY <1>1, <1>2, <2>1, <2>2, ExtendsTo
    <2> HIDE DEF e
    <2>4. Contained(e, p) /\ e = Rects!RectOf(p.X, p.Y, p.X + 1, p.Y + 1)
      BY <1>2, <2>3 DEF Contained, Rects!RectOf
    <2> QED BY <1>3, <2>4 DEF Tightly, e
  <1>4. CASE points # {}
    <2>1. PICK a, b, c, d \in points : edges = Rects!RectOf(a.X, b.Y, c.X + 1, d.Y + 1)
      BY <1>4 DEF Tightly
    <2>2. a.X \in 0..MaxInt /\ b.Y \in 0..MaxInt /\ c.X \in 0..MaxInt /\ d.Y \in 0..MaxInt
      BY DEF Points
    <2>3. edges = [Left |-> a.X, Top |-> b.Y, Right |-> c.X + 1, Bottom |-> d.Y + 1] /\ edges \in IntRects
      BY <2>1, <2>2 DEF Rects!RectOf, IntRects
    <2>4. e = [Left |-> IF p.X <= a.X THEN p.X ELSE a.X, Top |-> IF p.Y <= b.Y THEN p.Y ELSE b.Y,
               Right |-> IF p.X + 1 <= c.X + 1 THEN c.X + 1 ELSE p.X + 1,
               Bottom |-> IF p.Y + 1 <= d.Y + 1 THEN d.Y + 1 ELSE p.Y + 1]
      BY <2>3, ExtendsTo
    <2> HIDE DEF e
    <2>5. ASSUME NEW q \in more PROVE Contained(e, q)
      <3>1. q.X \in 0..MaxInt /\ q.Y \in 0..MaxInt
        BY DEF Points
      <3>2. q # p => a.X <= q.X /\ b.Y <= q.Y /\ q.X + 1 <= c.X + 1 /\ q.Y + 1 <= d.Y + 1
        BY <1>4, <2>3 DEF Tightly, Contained
      <3> QED BY <1>2, <2>2, <2>4, <3>1, <3>2 DEF Contained
    <2>6. PICK a1 \in more : e.Left = a1.X
      BY <2>4
    <2>7. PICK b1 \in more : e.Top = b1.Y
      BY <2>4
    <2>8. PICK c1 \in more : e.Right = c1.X + 1
      BY <2>4
    <2>9. PICK d1 \in more : e.Bottom = d1.Y + 1
      BY <2>4
    <2>10. e = Rects!RectOf(e.Left, e.Top, e.Right, e.Bottom)
      BY <2>4 DEF Rects!RectOf
    <2>11. e = Rects!RectOf(a1.X, b1.Y, c1.X + 1, d1.Y + 1)
      BY <2>6, <2>7, <2>8, <2>9, <2>10
    <2> QED BY <2>5, <2>11 DEF Tightly, e
  <1> QED BY <1>3, <1>4


\* The points of the pixels visited that are not zero, and the invariant of the search.
Found == {Rects!PointOf(Pictures!Column(i), Pictures!RowOf(i)) : i \in {n \in 0..(pixel - 1) : ~Pictures!Zero(n)}}
ScanInv ==
  part = "bounds" =>
    /\ input.Width \in 0..MaxInt /\ input.Height \in 0..MaxInt
    /\ pixel \in 0..(input.Width * input.Height)
    /\ Tightly(Found, bounds)

(* A pixel that is counted has a place in the picture.                         *)
LEMMA PlaceOfPixel ==
  ASSUME NEW w \in Nat, NEW h \in Nat, NEW i \in 0..(w * h - 1)
  PROVE  i % w \in 0..(w - 1) /\ i \div w \in 0..(h - 1)
  <1>1. w * h \in Nat /\ i \in Nat /\ i < w * h
    OBVIOUS
  <1>2. w > 0
    <2>1. w = 0 => w * h = 0
      OBVIOUS
    <2> QED BY <1>1, <2>1
  <1> DEFINE q == i \div w
  <1>3. q \in Nat /\ q * w <= i /\ i % w \in 0..(w - 1)
    BY <1>1, <1>2
  <1> HIDE DEF q
  <1>4. ASSUME q >= h PROVE FALSE
    <2>1. q * w >= h * w
      BY <1>3, <1>4
    <2>2. h * w = w * h
      OBVIOUS
    <2> QED BY <1>1, <1>3, <2>1, <2>2
  <1> QED BY <1>3, <1>4 DEF q

LEMMA PointOfPixel ==
  ASSUME ScanInv, part = "bounds", NEW i \in 0..(input.Width * input.Height - 1)
  PROVE  Rects!PointOf(Pictures!Column(i), Pictures!RowOf(i)) \in Points
  <1> DEFINE w == input.Width
             h == input.Height
  <1>1. w \in 0..MaxInt /\ h \in 0..MaxInt /\ MaxInt \in Nat
    BY ScanAssumption DEF ScanInv
  <1>2. Pictures!Column(i) = i % w /\ Pictures!RowOf(i) = i \div w /\ i \in 0..(w * h - 1)
    BY DEF Pictures!Column, Pictures!RowOf
  <1> HIDE DEF w, h
  <1>3. i % w \in 0..(w - 1) /\ i \div w \in 0..(h - 1)
    <2>1. w \in Nat /\ h \in Nat
      BY <1>1
    <2> QED BY <1>2, <2>1, PlaceOfPixel
  <1>4. Pictures!Column(i) \in 0..MaxInt /\ Pictures!RowOf(i) \in 0..MaxInt
    BY <1>1, <1>2, <1>3
  <1> QED BY <1>4 DEF Points, Rects!PointOf

LEMMA SameExtend ==
  ASSUME NEW rect, NEW p
  PROVE  Pictures!Rects!Extend(rect, p) = Rects!Extend(rect, p)
  BY DEF Pictures!Rects!Extend, Rects!Extend, Pictures!Rects!RectOf, Rects!RectOf, Pictures!Rects!Min, Rects!Min, Pictures!Rects!Max, Rects!Max

LEMMA ScanVisits == ScanInv /\ part = "bounds" /\ Pictures!Visit /\ part' = part => ScanInv'
  <1> SUFFICES ASSUME ScanInv, part = "bounds", Pictures!Visit, part' = part PROVE ScanInv'
    OBVIOUS
  <1> DEFINE all == input.Width * input.Height
             p == Rects!PointOf(Pictures!Column(pixel), Pictures!RowOf(pixel))
             F(n) == {Rects!PointOf(Pictures!Column(i), Pictures!RowOf(i)) : i \in {k \in 0..(n - 1) : ~Pictures!Zero(k)}}
  <1>1. /\ input.Width \in 0..MaxInt /\ input.Height \in 0..MaxInt /\ MaxInt \in Nat
        /\ pixel \in 0..all /\ Tightly(Found, bounds)
    BY ScanAssumption DEF ScanInv
  <1>2. input' = input /\ pixel' = pixel + 1 /\ pixel < all
        /\ bounds' = IF Pictures!Zero(pixel) THEN bounds ELSE Rects!Extend(bounds, p)
    BY SameExtend DEF Pictures!Visit, Pictures!Rects!PointOf, Rects!PointOf
  <1>3. all \in Int
    BY <1>1
  <1> HIDE DEF all
  <1>4. pixel + 1 \in 0..all /\ pixel \in 0..((pixel + 1) - 1) /\ pixel \in Nat
    BY <1>1, <1>2, <1>3
  <1>5. Found = F(pixel) /\ Found' = F(pixel + 1)
    BY <1>2 DEF Found, Pictures!Column, Pictures!RowOf, Pictures!Zero, Pictures!BytesPerPixel, Pictures!Below
  <1>6. F(pixel + 1) = IF Pictures!Zero(pixel) THEN F(pixel) ELSE F(pixel) \cup {p}
    <2>1. 0..((pixel + 1) - 1) = (0..(pixel - 1)) \cup {pixel}
      BY <1>4
    <2> HIDE DEF p
    <2>2. {k \in 0..((pixel + 1) - 1) : ~Pictures!Zero(k)} =
            IF Pictures!Zero(pixel) THEN {k \in 0..(pixel - 1) : ~Pictures!Zero(k)}
            ELSE {k \in 0..(pixel - 1) : ~Pictures!Zero(k)} \cup {pixel}
      BY <2>1
    <2> QED BY <2>2 DEF p
  <1> HIDE DEF F
  <1>7. ASSUME NEW i \in 0..pixel PROVE Rects!PointOf(Pictures!Column(i), Pictures!RowOf(i)) \in Points
    <2>1. i \in 0..(all - 1)
      BY <1>1, <1>2, <1>3
    <2> QED BY <2>1, PointOfPixel DEF all
  <1>8. F(pixel) \subseteq Points /\ p \in Points
    <2>1. pixel \in 0..pixel /\ 0..(pixel - 1) \subseteq 0..pixel
      BY <1>4
    <2> HIDE DEF Points
    <2> QED BY <1>7, <2>1 DEF F
  <1>9. Tightly(F(pixel + 1), bounds')
    <2> HIDE DEF p
    <2>1. Tightly(F(pixel), bounds)
      BY <1>1, <1>5
    <2>2. Tightly(F(pixel) \cup {p}, Rects!Extend(bounds, p))
      BY <1>8, <2>1, OneMore
    <2> QED BY <1>2, <1>6, <2>1, <2>2
  <1>10. pixel' \in 0..all /\ Tightly(Found', bounds')
    BY <1>2, <1>4, <1>5, <1>9
  <1> QED BY <1>1, <1>2, <1>10 DEF ScanInv, all


(* For pixels of one byte, what is found is what is seen.                      *)
LEMMA FoundIsTight == ScanInv /\ part = "bounds" => Pictures!BoundsAreTight
  <1> SUFFICES ASSUME ScanInv, part = "bounds", Pictures!BytesPerPixel(input.Format) = 1
               PROVE  Pictures!Rects!Accumulated(Pictures!Seen, bounds)
    BY DEF Pictures!BoundsAreTight
  <1> DEFINE all == input.Width * input.Height
  <1>1. input.Width \in Nat /\ input.Height \in Nat /\ pixel \in 0..all /\ Tightly(Found, bounds)
    BY ScanAssumption DEF ScanInv
  <1>2. all \in Nat
    BY <1>1
  <1> HIDE DEF all
  <1>3. ASSUME NEW n \in 0..(pixel - 1)
        PROVE  /\ Rects!PointOf(Pictures!Column(n), Pictures!RowOf(n)) \in Points
               /\ Pictures!Pixel(input, Pictures!Column(n), Pictures!RowOf(n)) # Pictures!Black(input) <=> ~Pictures!Zero(n)
    <2>1. n \in 0..(all - 1)
      BY <1>1, <1>2
    <2>2. Rects!PointOf(Pictures!Column(n), Pictures!RowOf(n)) \in Points
      BY <2>1, PointOfPixel DEF all
    <2>3. Pictures!Column(n) \in Int
      BY <2>2 DEF Rects!PointOf, Points
    <2> DEFINE at == input.Stride * Pictures!RowOf(n) + Pictures!Column(n)
    <2>4. Pictures!Column(n) * 1 = Pictures!Column(n)
      BY <2>3
    <2>5. Pictures!Below(1) = {0}
      BY DEF Pictures!Below
    <2>6. Pictures!Pixel(input, Pictures!Column(n), Pictures!RowOf(n)) = [i \in {0} |-> input.Buffer[at + i]]
      BY <2>4, <2>5 DEF Pictures!Pixel
    <2>7. Pictures!Black(input) = [i \in {0} |-> 0]
      BY <2>5 DEF Pictures!Black
    <2>8. Pictures!Zero(n) <=> input.Buffer[at + 0] = 0
      BY <2>5 DEF Pictures!Zero
    <2> HIDE DEF at
    <2> QED BY <2>2, <2>6, <2>7, <2>8
  <1>4. Pictures!Seen = Found
    <2>1. {n \in 0..(pixel - 1) : Pictures!Pixel(input, Pictures!Column(n), Pictures!RowOf(n)) # Pictures!Black(input)} =
          {n \in 0..(pixel - 1) : ~Pictures!Zero(n)}
      BY <1>3
    <2> QED BY <2>1 DEF Pictures!Seen, Found, Pictures!Below, Pictures!Rects!PointOf, Rects!PointOf
  <1>5. Found \subseteq Points
    BY <1>3 DEF Found
  <1>6. Rects!Accumulated(Found, bounds)
    BY <1>1, <1>5, IsAccumulated
  <1> QED BY <1>4, <1>6
       DEF Pictures!Rects!Accumulated, Rects!Accumulated, Pictures!Rects!FromLeftTopSize, Rects!FromLeftTopSize,
           Pictures!Rects!SizeOf, Rects!SizeOf, Pictures!Rects!RectOf, Rects!RectOf, Pictures!Rects!Contains, Rects!Contains,
           Pictures!Rects!Empty, Rects!Empty, Pictures!Rects!MinInt, Rects!MinInt

(* Rectangles are clipped, dragged and fitted as they should be, whatever the  *)
(* rectangles, sizes and ratios are, and the bounds of what has been searched  *)
(* are tight after every pixel of every picture.                               *)
THEOREM RectsFitHolds == GraphicsSpec => []RectsFit
  <1> DEFINE RectInv == part = "rect" => input \in Rectangles
  <1>1. GraphicsInit => RectInv /\ ScanInv
    <2> SUFFICES ASSUME GraphicsInit PROVE RectInv /\ ScanInv
      OBVIOUS
    <2>1. RectInv
      BY DEF GraphicsInit, Inputs, GraphicsParts
    <2>2. ASSUME part = "bounds"
          PROVE  /\ input.Width \in 0..MaxInt /\ input.Height \in 0..MaxInt /\ pixel = 0
                 /\ bounds = Pictures!Rects!Empty
      BY <2>2, ScanAssumption DEF GraphicsInit, Inputs, GraphicsParts, Pictures!Start
    <2>3. Pictures!Rects!Empty = Rects!Empty
      BY DEF Pictures!Rects!Empty, Rects!Empty, Pictures!Rects!MinInt, Rects!MinInt, Pictures!Rects!RectOf, Rects!RectOf
    <2>4. ASSUME part = "bounds" PROVE Found = {} /\ 0 <= input.Width * input.Height
      <3>1. 0..(pixel - 1) = {}
        BY <2>2, <2>4
      <3>2. input.Width \in Nat /\ input.Height \in Nat
        BY <2>2, <2>4, ScanAssumption
      <3> QED BY <3>1, <3>2 DEF Found
    <2> QED BY <2>1, <2>2, <2>3, <2>4 DEF ScanInv, Tightly
  <1>2. RectInv /\ ScanInv /\ [GraphicsNext]_graphicsVars => RectInv' /\ ScanInv'
    <2> SUFFICES ASSUME RectInv, ScanInv, [GraphicsNext]_graphicsVars PROVE RectInv' /\ ScanInv'
      OBVIOUS
    <2>1. part' = part /\ input' = input
      BY DEF GraphicsNext, Binding, Updating, Scanning, graphicsVars, Pictures!Visit
    <2>2. CASE Scanning
      <3>1. ScanInv'
        BY <2>2, ScanVisits DEF Scanning
      <3> QED BY <2>1, <3>1
    <2>3. CASE ~Scanning
      <3>1. pixel' = pixel /\ bounds' = bounds
        BY <2>3 DEF GraphicsNext, Binding, Updating, graphicsVars
      <3>2. Found' = Found
        BY <2>1, <3>1 DEF Found, Pictures!Column, Pictures!RowOf, Pictures!Zero, Pictures!BytesPerPixel, Pictures!Below
      <3> QED BY <2>1, <3>1, <3>2 DEF ScanInv
    <2> QED BY <2>2, <2>3
  <1>3. RectInv /\ ScanInv => RectsFit
    <2> SUFFICES ASSUME RectInv, ScanInv PROVE RectsFit
      OBVIOUS
    <2>1. part = "bounds" => Pictures!BoundsAreTight
      BY FoundIsTight
    <2>2. ASSUME part = "rect", NEW size \in Sizes
          PROVE  Rects!ClipsToShared(input, size) /\ Rects!StaysInside(input, size)
      BY <2>2, RectsAssumption, ClipsToTheImage, PushedStaysInside DEF IntRects
    <2>3. ASSUME part = "rect", Rects!Something(input), NEW ratio \in Ratios
          PROVE  Rects!FitsAround(input, ratio)
      <3>1. PICK n \in Nat \ {0}, d \in Nat \ {0} : ratio = <<n, d>>
        BY RectsAssumption
      <3>2. input \in IntRects
        BY <2>3, RectsAssumption DEF IntRects
      <3> QED BY <2>3, <3>1, <3>2, FitsAroundAll
    <2> QED BY <2>1, <2>2, <2>3 DEF RectsFit
  <1> QED BY <1>1, <1>2, <1>3, PTL DEF GraphicsSpec


-----------------------------------------------------------------------------
(* Of a list an item is taken from, put into, or replaced in.                  *)
LEMMA LeastOf ==
  ASSUME NEW S, S \subseteq Nat, S # {}
  PROVE  Observable!Min(S) \in S /\ \A x \in S : Observable!Min(S) <= x
  <1>1. PICK m \in S : \A x \in S : ~(<<x, m>> \in OpToRel(<, Nat))
    BY WFMin, NatLessThanWellFounded
  <1>2. ASSUME NEW x \in S PROVE m <= x
    <2>1. ~(x < m)
      BY <1>1 DEF OpToRel
    <2> QED BY <2>1
  <1>3. \E y \in S : \A x \in S : y <= x
    BY <1>2
  <1> QED BY <1>3 DEF Observable!Min

LEMMA Removed ==
  ASSUME NEW S, NEW t \in Seq(S), NEW i \in 1..Len(t)
  PROVE  /\ Observable!RemoveAt(t, i) \in Seq(S) /\ Len(Observable!RemoveAt(t, i)) = Len(t) - 1
         /\ \A k \in 1..(Len(t) - 1) : Observable!RemoveAt(t, i)[k] = IF k < i THEN t[k] ELSE t[k + 1]
  <1> DEFINE n == Len(t)
             a == SubSeq(t, 1, i - 1)
             b == SubSeq(t, i + 1, n)
  <1>1. n \in Nat /\ i \in Nat /\ i >= 1 /\ i <= n
    OBVIOUS
  <1>2. a \in Seq(S) /\ Len(a) = i - 1 /\ \A k \in 1..(i - 1) : a[k] = t[k]
    BY <1>1
  <1>3. b \in Seq(S) /\ Len(b) = n - i /\ \A k \in 1..(n - i) : b[k] = t[k + i]
    BY <1>1
  <1>4. Observable!RemoveAt(t, i) = a \o b
    BY DEF Observable!RemoveAt
  <1> HIDE DEF a, b, n
  <1>5. a \o b \in Seq(S) /\ Len(a \o b) = n - 1
    <2>1. a \o b \in Seq(S) /\ Len(a \o b) = Len(a) + Len(b)
      BY <1>2, <1>3, ConcatProperties
    <2> QED BY <1>1, <1>2, <1>3, <2>1
  <1>6. ASSUME NEW k \in 1..(n - 1) PROVE (a \o b)[k] = IF k < i THEN t[k] ELSE t[k + 1]
    <2>1. CASE k < i
      <3>1. k \in 1..(i - 1) /\ k \in 1..Len(a)
        BY <1>1, <1>2, <2>1
      <3>2. (a \o b)[k] = a[k]
        BY <1>2, <1>3, <3>1
      <3> QED BY <1>2, <2>1, <3>1, <3>2
    <2>2. CASE ~(k < i)
      <3>1. k - (i - 1) \in 1..(n - i) /\ k > Len(a) /\ (k - (i - 1)) + i = k + 1
        BY <1>1, <1>2, <2>2
      <3>2. (a \o b)[k] = b[k - (i - 1)]
        BY <1>1, <1>2, <1>3, <2>2, <3>1
      <3> QED BY <1>3, <2>2, <3>1, <3>2
    <2> QED BY <2>1, <2>2
  <1> QED BY <1>4, <1>5, <1>6 DEF n

LEMMA Inserted ==
  ASSUME NEW S, NEW t \in Seq(S), NEW i \in 1..Len(t), NEW e \in S
  PROVE  /\ Observable!InsertAt(t, i, e) \in Seq(S) /\ Len(Observable!InsertAt(t, i, e)) = Len(t) + 1
         /\ \A k \in 1..(Len(t) + 1) :
              Observable!InsertAt(t, i, e)[k] = IF k < i THEN t[k] ELSE IF k = i THEN e ELSE t[k - 1]
  <1> DEFINE n == Len(t)
             a == SubSeq(t, 1, i - 1)
             b == SubSeq(t, i, n)
             c == a \o <<e>>
  <1>1. n \in Nat /\ i \in Nat /\ i >= 1 /\ i <= n
    OBVIOUS
  <1>2. a \in Seq(S) /\ Len(a) = i - 1 /\ \A k \in 1..(i - 1) : a[k] = t[k]
    BY <1>1
  <1>3. b \in Seq(S) /\ Len(b) = n - i + 1 /\ \A k \in 1..(n - i + 1) : b[k] = t[k + i - 1]
    BY <1>1
  <1>4. Observable!InsertAt(t, i, e) = c \o b
    BY DEF Observable!InsertAt
  <1> HIDE DEF a, b, n
  <1>5. c \in Seq(S) /\ Len(c) = i /\ c[i] = e /\ \A k \in 1..(i - 1) : c[k] = t[k]
    BY <1>1, <1>2
  <1> HIDE DEF c
  <1>6. c \o b \in Seq(S) /\ Len(c \o b) = n + 1
    <2>1. c \o b \in Seq(S) /\ Len(c \o b) = Len(c) + Len(b)
      BY <1>3, <1>5, ConcatProperties
    <2> QED BY <1>1, <1>3, <1>5, <2>1
  <1>7. ASSUME NEW k \in 1..(n + 1)
        PROVE  (c \o b)[k] = IF k < i THEN t[k] ELSE IF k = i THEN e ELSE t[k - 1]
    <2>1. CASE k <= i
      <3>1. k \in 1..Len(c)
        BY <1>1, <1>5, <2>1
      <3>2. (c \o b)[k] = c[k]
        BY <1>3, <1>5, <3>1
      <3>3. k = i \/ k \in 1..(i - 1)
        BY <1>1, <2>1
      <3> QED BY <1>1, <1>5, <3>2, <3>3
    <2>2. CASE ~(k <= i)
      <3>1. k - i \in 1..(n - i + 1) /\ k > Len(c) /\ (k - i) + i - 1 = k - 1
        BY <1>1, <1>5, <2>2
      <3>2. (c \o b)[k] = b[k - i]
        BY <1>1, <1>3, <1>5, <2>2, <3>1
      <3> QED BY <1>1, <1>3, <2>2, <3>1, <3>2
    <2> QED BY <2>1, <2>2
  <1> QED BY <1>4, <1>6, <1>7 DEF n


\* What is true of the items of a list t in every state, and what the list has.
InOrder(t) == \A i, j \in 1..Len(t) : i < j => t[i].id # t[j].id /\ t[i].rank <= t[j].rank
Has(t) == {t[i] : i \in 1..Len(t)}
Items(S) == \A x \in S : x.rank \in Int
SameKey(a, b) == a.id = b.id /\ a.rank = b.rank
New(t, e) == \A k \in 1..Len(t) : t[k].id # e.id
Replace(t, k, e) == [t EXCEPT ![k] = e]
FitsAt(t, i, e) == \A k \in 1..Len(t) : IF k < i THEN t[k].rank <= e.rank ELSE e.rank <= t[k].rank

LEMMA RemovedInOrder ==
  ASSUME NEW S, NEW t \in Seq(S), InOrder(t), NEW i \in 1..Len(t)
  PROVE  LET r == Observable!RemoveAt(t, i) IN r \in Seq(S) /\ InOrder(r) /\ Has(r) = Has(t) \ {t[i]}
  <1> DEFINE r == Observable!RemoveAt(t, i)
             n == Len(t)
             old(k) == IF k < i THEN k ELSE k + 1
  <1>1. n \in Nat /\ i \in 1..n
    OBVIOUS
  <1>2. r \in Seq(S) /\ Len(r) = n - 1 /\ \A k \in 1..(n - 1) : r[k] = t[old(k)]
    BY Removed
  <1> HIDE DEF r, n
  <1>3. ASSUME NEW k \in 1..(n - 1) PROVE old(k) \in 1..n /\ old(k) # i
    BY <1>1
  <1>4. ASSUME NEW k \in 1..(n - 1), NEW l \in 1..(n - 1), k < l PROVE old(k) < old(l)
    BY <1>1, <1>4
  <1>5. ASSUME NEW m \in 1..n, m # i PROVE \E k \in 1..(n - 1) : old(k) = m
    <2>1. CASE m < i
      <3>1. m \in 1..(n - 1) /\ old(m) = m
        BY <1>1, <2>1
      <3> QED BY <3>1
    <2>2. CASE m > i
      <3>1. m - 1 \in 1..(n - 1) /\ old(m - 1) = m
        BY <1>1, <2>2
      <3> QED BY <3>1
    <2> QED BY <1>1, <1>5, <2>1, <2>2
  <1> HIDE DEF old
  <1>6. ASSUME NEW k \in 1..n, NEW l \in 1..n, k # l PROVE t[k].id # t[l].id
    <2>1. k < l \/ l < k
      BY <1>1, <1>6
    <2> QED BY <2>1 DEF InOrder, n
  <1>7. InOrder(r)
    <2> SUFFICES ASSUME NEW k \in 1..(n - 1), NEW l \in 1..(n - 1), k < l
                 PROVE  r[k].id # r[l].id /\ r[k].rank <= r[l].rank
      BY <1>2 DEF InOrder
    <2>1. old(k) \in 1..n /\ old(l) \in 1..n /\ old(k) < old(l)
      BY <1>3, <1>4
    <2> QED BY <1>2, <2>1 DEF InOrder, n
  <1>8. Has(r) \subseteq Has(t) \ {t[i]}
    <2>1. ASSUME NEW k \in 1..(n - 1) PROVE t[old(k)] # t[i]
      BY <1>1, <1>3, <1>6
    <2> QED BY <1>2, <1>3, <2>1 DEF Has, n
  <1>9. Has(t) \ {t[i]} \subseteq Has(r)
    <2>1. ASSUME NEW m \in 1..n, t[m] # t[i] PROVE t[m] \in Has(r)
      <3>1. PICK k \in 1..(n - 1) : old(k) = m
        BY <1>5, <2>1
      <3> QED BY <1>2, <3>1 DEF Has
    <2> QED BY <2>1 DEF Has, n
  <1> QED BY <1>2, <1>7, <1>8, <1>9 DEF r

LEMMA InsertedInOrder ==
  ASSUME NEW S, Items(S), NEW t \in Seq(S), InOrder(t), NEW i \in 1..Len(t), NEW e \in S, New(t, e), FitsAt(t, i, e)
  PROVE  LET r == Observable!InsertAt(t, i, e) IN r \in Seq(S) /\ InOrder(r) /\ Has(r) = Has(t) \cup {e}
  <1> DEFINE r == Observable!InsertAt(t, i, e)
             n == Len(t)
             old(k) == IF k < i THEN k ELSE k - 1
  <1>1. n \in Nat /\ i \in 1..n
    OBVIOUS
  <1>2. r \in Seq(S) /\ Len(r) = n + 1 /\ \A k \in 1..(n + 1) : r[k] = IF k = i THEN e ELSE t[old(k)]
    BY Inserted
  <1> HIDE DEF r, n
  <1>3. ASSUME NEW k \in 1..(n + 1), k # i PROVE old(k) \in 1..n /\ (k < i <=> old(k) < i)
    BY <1>1, <1>3
  <1>4. ASSUME NEW k \in 1..(n + 1), NEW l \in 1..(n + 1), k < l, k # i, l # i PROVE old(k) < old(l)
    BY <1>1, <1>4
  <1>5. ASSUME NEW m \in 1..n PROVE \E k \in 1..(n + 1) : k # i /\ old(k) = m
    <2>1. CASE m < i
      BY <1>1, <2>1
    <2>2. CASE m >= i
      <3>1. m + 1 \in 1..(n + 1) /\ old(m + 1) = m /\ m + 1 # i
        BY <1>1, <2>2
      <3> QED BY <3>1
    <2> QED BY <1>1, <2>1, <2>2
  <1> HIDE DEF old
  <1>6. ASSUME NEW k \in 1..(n + 1), NEW l \in 1..(n + 1), k < l
        PROVE  r[k].id # r[l].id /\ r[k].rank <= r[l].rank
    <2>1. CASE k = i
      <3>1. l # i /\ ~(l < i)
        BY <1>1, <1>6, <2>1
      <3>2. old(l) \in 1..n /\ ~(old(l) < i) /\ r[k] = e /\ r[l] = t[old(l)]
        BY <1>2, <1>3, <2>1, <3>1
      <3> QED BY <3>2 DEF n, New, FitsAt
    <2>2. CASE l = i
      <3>1. k # i /\ k < i
        BY <1>1, <1>6, <2>2
      <3>2. old(k) \in 1..n /\ old(k) < i /\ r[l] = e /\ r[k] = t[old(k)]
        BY <1>2, <1>3, <2>2, <3>1
      <3> QED BY <3>2 DEF n, New, FitsAt
    <2>3. CASE k # i /\ l # i
      <3>1. old(k) \in 1..n /\ old(l) \in 1..n /\ old(k) < old(l) /\ r[k] = t[old(k)] /\ r[l] = t[old(l)]
        BY <1>2, <1>3, <1>4, <1>6, <2>3
      <3> QED BY <3>1 DEF InOrder, n
    <2> QED BY <2>1, <2>2, <2>3
  <1>7. InOrder(r)
    BY <1>2, <1>6 DEF InOrder
  <1>8. Has(r) \subseteq Has(t) \cup {e}
    BY <1>2, <1>3 DEF Has, n
  <1>9. Has(t) \subseteq Has(r)
    <2>1. ASSUME NEW m \in 1..n PROVE t[m] \in Has(r)
      <3>1. PICK k \in 1..(n + 1) : k # i /\ old(k) = m
        BY <1>5
      <3> QED BY <1>2, <3>1 DEF Has
    <2> QED BY <2>1 DEF Has, n
  <1>10. e \in Has(r)
    <2>1. i \in 1..(n + 1)
      BY <1>1
    <2> QED BY <1>2, <2>1 DEF Has
  <1> QED BY <1>2, <1>7, <1>8, <1>9, <1>10 DEF r

LEMMA AppendedInOrder ==
  ASSUME NEW S, Items(S), NEW t \in Seq(S), InOrder(t), NEW e \in S,
         \A k \in 1..Len(t) : t[k].id # e.id /\ t[k].rank <= e.rank
  PROVE  Append(t, e) \in Seq(S) /\ InOrder(Append(t, e)) /\ Has(Append(t, e)) = Has(t) \cup {e}
  <1> DEFINE r == Append(t, e)
             n == Len(t)
  <1>1. n \in Nat /\ r \in Seq(S) /\ Len(r) = n + 1 /\ r[n + 1] = e /\ \A k \in 1..n : r[k] = t[k]
    OBVIOUS
  <1> HIDE DEF r, n
  <1>2. \A k \in 1..(n + 1) : k = n + 1 \/ k \in 1..n
    BY <1>1
  <1>3. ASSUME NEW k \in 1..(n + 1), NEW l \in 1..(n + 1), k < l PROVE k \in 1..n
    BY <1>1, <1>3
  <1>4. InOrder(r)
    <2> SUFFICES ASSUME NEW k \in 1..(n + 1), NEW l \in 1..(n + 1), k < l
                 PROVE  r[k].id # r[l].id /\ r[k].rank <= r[l].rank
      BY <1>1 DEF InOrder
    <2>1. k \in 1..n
      BY <1>3
    <2>2. CASE l = n + 1
      BY <1>1, <2>1, <2>2 DEF n
    <2>3. CASE l \in 1..n
      BY <1>1, <2>1, <2>3 DEF n, InOrder
    <2> QED BY <1>2, <2>2, <2>3
  <1>5. Has(r) = Has(t) \cup {e}
    <2>1. n + 1 \in 1..(n + 1) /\ 1..n \subseteq 1..(n + 1)
      BY <1>1
    <2> QED BY <1>1, <1>2, <2>1 DEF Has, n
  <1> QED BY <1>1, <1>4, <1>5 DEF r

LEMMA ReplacedInOrder ==
  ASSUME NEW S, NEW t \in Seq(S), InOrder(t), NEW i \in 1..Len(t), NEW e \in S, SameKey(e, t[i])
  PROVE  LET r == Replace(t, i, e) IN r \in Seq(S) /\ InOrder(r) /\ Has(r) = (Has(t) \ {t[i]}) \cup {e}
  <1> DEFINE r == Replace(t, i, e)
             n == Len(t)
  <1>1. n \in Nat /\ i \in 1..n /\ r \in Seq(S) /\ Len(r) = n /\ r[i] = e /\ \A k \in 1..n : k # i => r[k] = t[k]
    BY DEF Replace
  <1> HIDE DEF r, n
  <1>2. ASSUME NEW k \in 1..n PROVE r[k].id = t[k].id /\ r[k].rank = t[k].rank
    BY <1>1 DEF SameKey
  <1>3. InOrder(r)
    BY <1>1, <1>2 DEF InOrder, n
  <1>4. ASSUME NEW k \in 1..n, k # i PROVE t[k] # t[i]
    <2>1. k < i \/ i < k
      BY <1>1, <1>4
    <2> QED BY <1>1, <2>1 DEF InOrder, n
  <1>5. Has(r) = (Has(t) \ {t[i]}) \cup {e}
    BY <1>1, <1>4 DEF Has, n
  <1> QED BY <1>1, <1>3, <1>5 DEF r


-----------------------------------------------------------------------------
(* A collection that is shown, when n items of the source have been upserted   *)
(* and m says whether the next one has left its old place.                     *)
Known == Has(source) \cup Has(before)
Done(n) == {source[i] : i \in 1..n}
Handled(n) == {source[i].id : i \in 1..n}
Gone(n, m, b) == m /\ b.id = source[n + 1].id /\ b.rank # source[n + 1].rank
Old(n, m) == {b \in Has(before) : b.id \notin Handled(n) /\ ~Gone(n, m, b)}

Lists ==
  /\ source \in Seq(Known) /\ before \in Seq(Known) /\ Items(Known)
  /\ Observable!Distinct(source) /\ Observable!Distinct(before)
Shows(n, m, t) ==
  /\ n \in 0..Len(source) /\ m \in BOOLEAN /\ (m => n < Len(source))
  /\ t \in Seq(Known) /\ InOrder(t)
  /\ Done(n) \subseteq Has(t) /\ Has(t) \subseteq Done(n) \cup Old(n, m)
  /\ \A b \in Old(n, m) : b.id \in Handled(Len(source)) => b \in Has(t)
Searches(n, m, t, d, p) ==
  /\ p \in 1..(Len(t) + 1) /\ (n < Len(source) => p = 1)
  /\ d = {b.id : b \in Has(before)} \ Handled(IF m THEN n + 1 ELSE n)
  /\ \A i \in 1..(p - 1) : t[i].id \notin d
UpdateInv == Lists /\ Shows(upserted, moved, target) /\ Searches(upserted, moved, target, itemsToDelete, place)

(* Items of the source differ in id and rank, and so do those shown before.    *)
LEMMA Different ==
  ASSUME Lists
  PROVE  /\ Len(source) \in Nat
         /\ \A i, j \in 1..Len(source) : i # j => source[i].id # source[j].id /\ source[i].rank # source[j].rank
         /\ \A a, b \in Has(before) : a # b => a.id # b.id /\ a.rank # b.rank
         /\ \A i \in 1..Len(source) : source[i] \in Known
  <1>1. DOMAIN source = 1..Len(source) /\ DOMAIN before = 1..Len(before) /\ Len(source) \in Nat
    BY DEF Lists
  <1> QED BY <1>1 DEF Lists, Observable!Distinct, Has, Known

LEMMA NextItem ==
  ASSUME Lists, NEW n \in 0..Len(source), n < Len(source)
  PROVE  /\ n + 1 \in 1..Len(source) /\ source[n + 1] \in Known /\ source[n + 1].id \notin Handled(n)
         /\ \A a \in Done(n) : a.id # source[n + 1].id /\ a.rank # source[n + 1].rank
         /\ Done(n + 1) = Done(n) \cup {source[n + 1]} /\ Handled(n + 1) = Handled(n) \cup {source[n + 1].id}
         /\ source[n + 1].id \in Handled(Len(source))
  <1>1. Len(source) \in Nat
    BY Different
  <1>2. n + 1 \in 1..Len(source) /\ 1..n \subseteq 1..Len(source) /\ 1..(n + 1) = 1..n \cup {n + 1} /\ n + 1 \notin 1..n
    BY <1>1
  <1>3. \A i \in 1..n : source[i].id # source[n + 1].id /\ source[i].rank # source[n + 1].rank
    BY <1>2, Different
  <1> QED BY <1>2, <1>3, Different DEF Done, Handled

(* A list in order has no id twice.                                            *)
LEMMA OnePlace ==
  ASSUME NEW S, NEW t \in Seq(S), InOrder(t)
  PROVE  /\ \A i, j \in 1..Len(t) : i # j => t[i].id # t[j].id
         /\ \A a, b \in Has(t) : a # b => a.id # b.id
  <1>1. ASSUME NEW i \in 1..Len(t), NEW j \in 1..Len(t), i # j PROVE t[i].id # t[j].id
    <2>1. i < j \/ j < i
      BY <1>1
    <2> QED BY <2>1 DEF InOrder
  <1> QED BY <1>1 DEF Has

LEMMA Leaves ==
  ASSUME Lists, NEW n, NEW t, Shows(n, FALSE, t), n < Len(source),
         NEW K, K = {i \in 1..Len(t) : t[i].id = source[n + 1].id /\ t[i].rank # source[n + 1].rank},
         NEW r, r = IF K = {} THEN t ELSE Observable!RemoveAt(t, Observable!Min(K))
  PROVE  Shows(n, TRUE, r)
  <1> DEFINE it == source[n + 1]
  <1>1. /\ n \in 0..Len(source) /\ t \in Seq(Known) /\ InOrder(t)
        /\ Done(n) \subseteq Has(t) /\ Has(t) \subseteq Done(n) \cup Old(n, FALSE)
        /\ \A b \in Old(n, FALSE) : b.id \in Handled(Len(source)) => b \in Has(t)
    BY DEF Shows
  <1>2. it.id \notin Handled(n) /\ \A a \in Done(n) : a.id # it.id
    BY <1>1, NextItem
  <1>3. Old(n, TRUE) = {b \in Old(n, FALSE) : b.id = it.id => b.rank = it.rank}
    BY DEF Old, Gone
  <1> HIDE DEF it
  <1>4. /\ r \in Seq(Known) /\ InOrder(r)
        /\ \A x : x \in Has(r) <=> x \in Has(t) /\ ~(x.id = it.id /\ x.rank # it.rank)
    <2>1. CASE K = {}
      <3>1. \A x \in Has(t) : ~(x.id = it.id /\ x.rank # it.rank)
        BY <2>1 DEF Has, it
      <3> QED BY <1>1, <2>1, <3>1
    <2>2. CASE K # {}
      <3> DEFINE k == Observable!Min(K)
      <3>1. k \in K
        <4>1. K \subseteq Nat
          OBVIOUS
        <4> QED BY <2>2, <4>1, LeastOf
      <3> HIDE DEF k
      <3>2. k \in 1..Len(t) /\ t[k].id = it.id /\ t[k].rank # it.rank /\ r = Observable!RemoveAt(t, k)
        BY <2>2, <3>1 DEF it, k
      <3>3. r \in Seq(Known) /\ InOrder(r) /\ Has(r) = Has(t) \ {t[k]}
        <4>1. t \in Seq(Known) /\ InOrder(t) /\ k \in 1..Len(t)
          BY <1>1, <3>2
        <4> DEFINE q == Observable!RemoveAt(t, k)
        <4>2. q \in Seq(Known) /\ InOrder(q) /\ Has(q) = Has(t) \ {t[k]}
          BY <4>1, RemovedInOrder
        <4>3. r = q
          BY <3>2
        <4> QED BY <4>2, <4>3
      <3>4. t[k] \in Has(t) /\ \A x \in Has(t) : x # t[k] => x.id # t[k].id
        BY <1>1, <3>2, OnePlace DEF Has
      <3> QED BY <3>2, <3>3, <3>4
    <2> QED BY <2>1, <2>2
  <1>5. Done(n) \subseteq Has(r) /\ Has(r) \subseteq Done(n) \cup Old(n, TRUE)
    BY <1>1, <1>2, <1>3, <1>4
  <1>6. \A b \in Old(n, TRUE) : b.id \in Handled(Len(source)) => b \in Has(r)
    BY <1>1, <1>3, <1>4
  <1> QED BY <1>1, <1>4, <1>5, <1>6 DEF Shows


\* What Observable!AddOrUpdate makes of a list t, where the items not before e are at places K, the first one at k.
PutAt(t, K, k, e) ==
  IF K = {} THEN Append(t, e) ELSE IF t[k].id = e.id THEN Replace(t, k, e) ELSE Observable!InsertAt(t, k, e)
NotBefore(t, e) == {i \in 1..Len(t) : t[i].rank >= e.rank}

LEMMA Puts ==
  ASSUME Lists, NEW n, NEW t, Shows(n, TRUE, t)
  PROVE  LET K == NotBefore(t, source[n + 1])
         IN Shows(n + 1, FALSE, PutAt(t, K, Observable!Min(K), source[n + 1]))
  <1> DEFINE K == NotBefore(t, source[n + 1])
             k == Observable!Min(K)
             r == PutAt(t, K, k, source[n + 1])
             it == source[n + 1]
  <1>1. /\ n \in 0..Len(source) /\ n < Len(source) /\ t \in Seq(Known) /\ InOrder(t)
        /\ Done(n) \subseteq Has(t) /\ Has(t) \subseteq Done(n) \cup Old(n, TRUE)
        /\ \A b \in Old(n, TRUE) : b.id \in Handled(Len(source)) => b \in Has(t)
    BY DEF Shows
  <1>2. /\ it \in Known /\ it.id \notin Handled(n) /\ \A a \in Done(n) : a.id # it.id /\ a.rank # it.rank
        /\ n + 1 \in 0..Len(source) /\ Done(n + 1) = Done(n) \cup {it} /\ Handled(n + 1) = Handled(n) \cup {it.id}
    BY <1>1, NextItem
  <1>3. /\ \A b \in Old(n, TRUE) : b \in Has(before) /\ (b.id = it.id => b.rank = it.rank)
        /\ \A b : b \in Old(n + 1, FALSE) <=> b \in Old(n, TRUE) /\ b.id # it.id
    BY <1>2 DEF Old, Gone
  <1> HIDE DEF it, k, r
  <1>4. \A x \in Has(t) : x.id = it.id => x.rank = it.rank
    BY <1>1, <1>2, <1>3
  <1>5. /\ Items(Known) /\ it.rank \in Int /\ \A i \in 1..Len(t) : t[i].rank \in Int /\ t[i] \in Has(t)
        /\ Len(t) \in Nat
    BY <1>1, <1>2 DEF Lists, Items, Has
  <1>6. r \in Seq(Known) /\ InOrder(r) /\ \A x : x \in Has(r) <=> x = it \/ (x \in Has(t) /\ x.id # it.id)
    <2>1. CASE K = {}
      <3>1. \A i \in 1..Len(t) : t[i].rank <= it.rank /\ t[i].rank # it.rank
        BY <1>5, <2>1 DEF it, NotBefore
      <3>2. \A i \in 1..Len(t) : t[i].id # it.id /\ t[i].rank <= it.rank
        BY <1>4, <1>5, <3>1
      <3> DEFINE q == Append(t, it)
      <3>3. q \in Seq(Known) /\ InOrder(q) /\ Has(q) = Has(t) \cup {it}
        BY <1>1, <1>2, <1>5, <3>2, AppendedInOrder
      <3>4. r = q
        BY <2>1 DEF it, r, PutAt
      <3>5. \A x \in Has(t) : x.id # it.id
        BY <3>2 DEF Has
      <3> QED BY <3>3, <3>4, <3>5
    <2>2. CASE K # {}
      <3>1. k \in K /\ \A j \in K : k <= j
        <4>1. K \subseteq Nat
          BY DEF NotBefore
        <4> HIDE DEF K
        <4> QED BY <2>2, <4>1, LeastOf DEF k
      <3>2. k \in 1..Len(t) /\ t[k].rank >= it.rank
        BY <3>1 DEF it, NotBefore
      <3>3. \A j \in 1..Len(t) : j < k => t[j].rank < it.rank
        <4> SUFFICES ASSUME NEW j \in 1..Len(t), j < k PROVE t[j].rank < it.rank
          OBVIOUS
        <4>1. j \notin K
          BY <3>1, <3>2
        <4>2. ~(t[j].rank >= it.rank)
          BY <4>1 DEF it, NotBefore
        <4> QED BY <1>5, <4>2
      <3>4. \A j \in 1..Len(t) : k < j => t[k].rank <= t[j].rank
        BY <1>1, <3>2 DEF InOrder
      <3>5. CASE t[k].id = it.id
        <4> DEFINE q == Replace(t, k, it)
        <4>1. r = q
          BY <2>2, <3>5 DEF it, r, PutAt
        <4>2. t[k].rank = it.rank
          BY <1>4, <1>5, <3>2, <3>5
        <4>3. q \in Seq(Known) /\ InOrder(q) /\ Has(q) = (Has(t) \ {t[k]}) \cup {it}
          <5>1. t \in Seq(Known) /\ InOrder(t) /\ k \in 1..Len(t) /\ it \in Known /\ SameKey(it, t[k])
            BY <1>1, <1>2, <3>2, <3>5, <4>2 DEF SameKey
          <5> QED BY <5>1, ReplacedInOrder
        <4>4. \A x \in Has(t) : x # t[k] <=> x.id # it.id
          BY <1>1, <1>5, <3>2, <3>5, OnePlace
        <4> QED BY <4>1, <4>3, <4>4
      <3>6. CASE t[k].id # it.id
        <4> DEFINE q == Observable!InsertAt(t, k, it)
        <4>1. r = q
          BY <2>2, <3>6 DEF it, r, PutAt
        <4>2. ASSUME NEW j \in 1..Len(t), t[j].id = it.id PROVE FALSE
          <5>1. t[j].rank = it.rank /\ j # k
            BY <1>4, <1>5, <3>6, <4>2
          <5>2. k < j
            BY <1>5, <3>2, <3>3, <5>1
          <5>3. t[k].rank = it.rank
            BY <1>5, <3>2, <3>4, <5>1, <5>2
          <5>4. t[k] \in Has(before) /\ t[j] \in Has(before)
            <6>1. t[k] \notin Done(n)
              BY <1>2, <5>3
            <6>2. t[j] \notin Done(n)
              BY <1>2, <4>2
            <6> QED BY <1>1, <1>3, <1>5, <3>2, <6>1, <6>2
          <5>5. t[k] # t[j]
            BY <3>6, <4>2
          <5> QED BY <5>1, <5>3, <5>4, <5>5, Different
        <4>3. \A j \in 1..Len(t) : IF j < k THEN t[j].rank <= it.rank ELSE it.rank <= t[j].rank
          BY <1>5, <3>2, <3>3, <3>4
        <4>4. \A j \in 1..Len(t) : t[j].id # it.id
          BY <4>2
        <4>5. q \in Seq(Known) /\ InOrder(q) /\ Has(q) = Has(t) \cup {it}
          <5>1. t \in Seq(Known) /\ InOrder(t) /\ k \in 1..Len(t) /\ it \in Known /\ Items(Known)
            BY <1>1, <1>2, <1>5, <3>2
          <5>2. New(t, it) /\ FitsAt(t, k, it)
            BY <4>3, <4>4 DEF New, FitsAt
          <5> QED BY <5>1, <5>2, InsertedInOrder
        <4>6. \A x \in Has(t) : x.id # it.id
          BY <4>4 DEF Has
        <4> QED BY <4>1, <4>5, <4>6
      <3> QED BY <3>5, <3>6
    <2> QED BY <2>1, <2>2
  <1>7. Done(n + 1) \subseteq Has(r) /\ Has(r) \subseteq Done(n + 1) \cup Old(n + 1, FALSE)
    BY <1>1, <1>2, <1>3, <1>6
  <1>8. \A b \in Old(n + 1, FALSE) : b.id \in Handled(Len(source)) => b \in Has(r)
    BY <1>1, <1>3, <1>6
  <1> QED BY <1>2, <1>6, <1>7, <1>8 DEF Shows, r, k


LEMMA Drops ==
  ASSUME Lists, NEW t, NEW m, Shows(Len(source), m, t), NEW d, NEW p, Searches(Len(source), m, t, d, p), p <= Len(t), t[p].id \in d
  PROVE  LET r == Observable!RemoveAt(t, p)
         IN Shows(Len(source), m, r) /\ Searches(Len(source), m, r, d, p)
  <1> DEFINE n == Len(source)
             r == Observable!RemoveAt(t, p)
  <1>1. /\ n \in 0..n /\ m = FALSE /\ t \in Seq(Known) /\ InOrder(t)
        /\ Done(n) \subseteq Has(t) /\ Has(t) \subseteq Done(n) \cup Old(n, FALSE)
        /\ \A b \in Old(n, FALSE) : b.id \in Handled(n) => b \in Has(t)
    <2>1. m = FALSE /\ n \in 0..n
      BY Different DEF Shows
    <2> QED BY <2>1 DEF Shows
  <1>2. /\ p \in 1..Len(t) /\ d = {b.id : b \in Has(before)} \ Handled(n)
        /\ \A i \in 1..(p - 1) : t[i].id \notin d
    <2>1. Len(t) \in Nat
      BY <1>1
    <2> QED BY <1>1, <2>1 DEF Searches
  <1>3. t[p].id \notin Handled(n)
    BY <1>2
  <1>4. r \in Seq(Known) /\ InOrder(r) /\ Has(r) = Has(t) \ {t[p]}
    BY <1>1, <1>2, RemovedInOrder
  <1>5. Len(r) = Len(t) - 1 /\ \A k \in 1..(Len(t) - 1) : r[k] = IF k < p THEN t[k] ELSE t[k + 1]
    BY <1>1, <1>2, Removed
  <1> HIDE DEF r
  <1>6. \A a \in Done(n) : a.id \in Handled(n)
    BY DEF Done, Handled
  <1>7. Shows(n, m, r)
    <2>1. Done(n) \subseteq Has(r) /\ Has(r) \subseteq Done(n) \cup Old(n, FALSE)
      BY <1>1, <1>3, <1>4, <1>6
    <2>2. \A b \in Old(n, FALSE) : b.id \in Handled(n) => b \in Has(r)
      BY <1>1, <1>3, <1>4
    <2> QED BY <1>1, <1>4, <2>1, <2>2 DEF Shows
  <1>8. Searches(n, m, r, d, p)
    <2>1. Len(t) \in Nat /\ p \in 1..(Len(r) + 1)
      BY <1>1, <1>2, <1>5
    <2>2. \A i \in 1..(p - 1) : r[i] = t[i]
      BY <1>2, <1>5, <2>1
    <2>3. ~(n < n)
      BY <1>1
    <2> QED BY <1>1, <1>2, <2>1, <2>2, <2>3 DEF Searches
  <1> QED BY <1>7, <1>8 DEF r

LEMMA UpdateNext ==
  UpdateInv /\ [Observable!Next]_updateVars => UpdateInv'
  <1> SUFFICES ASSUME UpdateInv, [Observable!Next]_updateVars PROVE UpdateInv'
    OBVIOUS
  <1>1. Lists /\ Shows(upserted, moved, target) /\ Searches(upserted, moved, target, itemsToDelete, place)
    BY DEF UpdateInv
  <1>2. source' = source /\ before' = before
    BY DEF Observable!Next, Observable!LeaveOldPlace, Observable!AddOrUpdate, Observable!RemoveOld, updateVars
  <1>3. ASSUME Shows(upserted', moved', target'), Searches(upserted', moved', target', itemsToDelete', place')
        PROVE  UpdateInv'
    <2>1. Known' = Known /\ Has(before)' = Has(before) /\ Len(source)' = Len(source)
      BY <1>2 DEF Known, Has
    <2>2. Lists'
      BY <1>1, <1>2, <2>1 DEF Lists, Items, Observable!Distinct
    <2>3. ASSUME NEW n, NEW m PROVE Done(n)' = Done(n) /\ Handled(n)' = Handled(n) /\ Old(n, m)' = Old(n, m)
      BY <1>2 DEF Done, Handled, Old, Gone, Has
    <2>4. ASSUME NEW n, NEW m, NEW t PROVE Shows(n, m, t)' <=> Shows(n, m, t)
      BY <2>1, <2>3 DEF Shows, Has, InOrder
    <2>5. ASSUME NEW n, NEW m, NEW t, NEW d, NEW q PROVE Searches(n, m, t, d, q)' <=> Searches(n, m, t, d, q)
      BY <2>1, <2>3 DEF Searches
    <2> QED BY <1>3, <2>2, <2>4, <2>5 DEF UpdateInv
  <1>4. /\ upserted \in 0..Len(source) /\ target \in Seq(Known) /\ Len(source) \in Nat /\ Len(target) \in Nat
        /\ place \in 1..(Len(target) + 1) /\ (upserted < Len(source) => place = 1) /\ moved \in BOOLEAN
        /\ (moved => upserted < Len(source))
        /\ itemsToDelete = {b.id : b \in Has(before)} \ Handled(IF moved THEN upserted + 1 ELSE upserted)
        /\ DOMAIN target = 1..Len(target)
    BY <1>1, Different DEF Shows, Searches
  <1>5. CASE Observable!LeaveOldPlace
    <2>1. /\ upserted < Len(source) /\ moved = FALSE /\ moved' = TRUE /\ upserted' = upserted /\ place' = place
          /\ itemsToDelete' = itemsToDelete \ {source[upserted + 1].id}
      BY <1>4, <1>5 DEF Observable!LeaveOldPlace, Observable!Item
    <2>2. target' = IF Observable!OldPlaces = {} THEN target
                    ELSE Observable!RemoveAt(target, Observable!Min(Observable!OldPlaces))
      BY <1>5 DEF Observable!LeaveOldPlace
    <2>3. Observable!OldPlaces =
            {i \in 1..Len(target) : target[i].id = source[upserted + 1].id /\ target[i].rank # source[upserted + 1].rank}
      BY <1>4 DEF Observable!OldPlaces, Observable!Item
    <2>4. Shows(upserted, TRUE, target')
      BY <1>1, <2>1, <2>2, <2>3, Leaves
    <2>5. Handled(upserted + 1) = Handled(upserted) \cup {source[upserted + 1].id}
      BY <1>1, <1>4, <2>1, NextItem
    <2>6. itemsToDelete' = {b.id : b \in Has(before)} \ Handled(upserted + 1)
      BY <1>4, <2>1, <2>5
    <2>7. place' = 1 /\ Len(target') \in Nat /\ 1..0 = {}
      BY <1>4, <2>1, <2>4 DEF Shows
    <2>8. Searches(upserted, TRUE, target', itemsToDelete', place')
      BY <2>6, <2>7 DEF Searches
    <2> QED BY <1>3, <2>1, <2>4, <2>8
  <1>6. CASE Observable!AddOrUpdate
    <2>1. /\ moved = TRUE /\ moved' = FALSE /\ upserted' = upserted + 1 /\ place' = place
          /\ itemsToDelete' = itemsToDelete
      BY <1>4, <1>6 DEF Observable!AddOrUpdate
    <2>2. Observable!NextPlaces = NotBefore(target, source[upserted + 1])
      BY <1>4 DEF Observable!NextPlaces, NotBefore, Observable!Item
    <2>3. target' = PutAt(target, NotBefore(target, source[upserted + 1]),
                          Observable!Min(NotBefore(target, source[upserted + 1])), source[upserted + 1])
      BY <1>6, <2>2 DEF Observable!AddOrUpdate, Observable!Put, PutAt, Replace, Observable!Item
    <2>4. Shows(upserted + 1, FALSE, target')
      BY <1>1, <2>1, <2>3, Puts
    <2>5. place' = 1 /\ Len(target') \in Nat /\ 1..0 = {} /\ upserted + 1 \in Int
      BY <1>4, <2>1, <2>4 DEF Shows
    <2>6. itemsToDelete' = {b.id : b \in Has(before)} \ Handled(upserted + 1)
      BY <1>4, <2>1
    <2>7. Searches(upserted + 1, FALSE, target', itemsToDelete', place')
      BY <2>5, <2>6 DEF Searches
    <2> QED BY <1>3, <2>1, <2>4, <2>7
  <1>7. CASE Observable!RemoveOld
    <2>1. /\ upserted = Len(source) /\ place <= Len(target) /\ upserted' = upserted /\ moved' = moved
          /\ itemsToDelete' = itemsToDelete
      BY <1>7 DEF Observable!RemoveOld
    <2>2. CASE target[place].id \in itemsToDelete
      <3>1. target' = Observable!RemoveAt(target, place) /\ place' = place
        BY <1>7, <2>2 DEF Observable!RemoveOld
      <3>2. Shows(upserted, moved, target') /\ Searches(upserted, moved, target', itemsToDelete, place)
        BY <1>1, <2>1, <2>2, <3>1, Drops
      <3> QED BY <1>3, <2>1, <3>1, <3>2
    <2>3. CASE target[place].id \notin itemsToDelete
      <3>1. target' = target /\ place' = place + 1
        BY <1>7, <2>3 DEF Observable!RemoveOld
      <3>2. \A i \in 1..((place + 1) - 1) : i = place \/ i \in 1..(place - 1)
        BY <1>4
      <3>3. \A i \in 1..((place + 1) - 1) : target[i].id \notin itemsToDelete
        BY <1>1, <2>3, <3>2 DEF Searches
      <3>4. place + 1 \in 1..(Len(target) + 1) /\ ~(upserted < Len(source))
        BY <1>4, <2>1
      <3>5. Searches(upserted, moved, target, itemsToDelete, place + 1)
        BY <1>1, <3>3, <3>4 DEF Searches
      <3> QED BY <1>1, <1>3, <2>1, <3>1, <3>5
    <2> QED BY <2>2, <2>3
  <1>8. CASE UNCHANGED updateVars
    BY <1>1, <1>3, <1>8 DEF updateVars
  <1> QED BY <1>5, <1>6, <1>7, <1>8 DEF Observable!Next


LEMMA UpdateBegins ==
  ASSUME NEW from \in Sources, NEW to \in Sources, Observable!Ordered(to), Observable!Begin(from, to)
  PROVE  UpdateInv
  <1>1. ASSUME NEW s \in Sources
        PROVE  s \in Seq(Has(s)) /\ Items(Has(s)) /\ Observable!Distinct(s) /\ DOMAIN s = 1..Len(s) /\ Len(s) \in Nat
    <2>1. s \in Seq(Range(s)) /\ \A item \in Range(s) : item.rank \in Int
      BY SourcesAssumption
    <2>2. Range(s) = Has(s)
      BY <2>1 DEF Range, Has
    <2> QED BY <2>1, <2>2, SourcesAssumption DEF Items
  <1>2. /\ source = from /\ before = to /\ target = to /\ upserted = 0 /\ moved = FALSE /\ place = 1
        /\ itemsToDelete = {b.id : b \in Observable!Range(to)}
    BY DEF Observable!Begin, Observable!Ids
  <1>3. Known = Has(from) \cup Has(to) /\ from \in Seq(Known) /\ to \in Seq(Known) /\ Items(Known)
    BY <1>1, <1>2 DEF Known, Items
  <1>4. Lists
    BY <1>1, <1>2, <1>3 DEF Lists
  <1>5. InOrder(to)
    <2> SUFFICES ASSUME NEW i \in 1..Len(to), NEW j \in 1..Len(to), i < j
                 PROVE  to[i].id # to[j].id /\ to[i].rank <= to[j].rank
      BY DEF InOrder
    <2>1. i # j /\ to[i].rank < to[j].rank
      BY <1>1 DEF Observable!Ordered
    <2>2. to[i].rank \in Int /\ to[j].rank \in Int
      BY <1>1 DEF Items, Has
    <2> QED BY <1>1, <2>1, <2>2 DEF Observable!Distinct
  <1>6. Done(0) = {} /\ Handled(0) = {} /\ Old(0, FALSE) = Has(to)
    BY <1>2 DEF Done, Handled, Old, Gone
  <1>7. Shows(upserted, moved, target)
    <2>1. Len(from) \in Nat /\ 0 \in 0..Len(from)
      BY <1>1
    <2>2. Shows(0, FALSE, to)
      BY <1>2, <1>3, <1>5, <1>6, <2>1 DEF Shows
    <2> QED BY <1>2, <2>2
  <1>8. Observable!Range(to) = Has(to) /\ 1..0 = {} /\ 1 \in 1..(Len(to) + 1)
    BY <1>1 DEF Observable!Range, Has
  <1>9. Searches(upserted, moved, target, itemsToDelete, place)
    BY <1>2, <1>6, <1>8 DEF Searches
  <1> QED BY <1>4, <1>7, <1>9 DEF UpdateInv

LEMMA UpdateIsRight == UpdateInv => CollectionsShown
  <1> SUFFICES ASSUME UpdateInv PROVE CollectionsShown
    OBVIOUS
  <1>1. Lists /\ Shows(upserted, moved, target) /\ Searches(upserted, moved, target, itemsToDelete, place)
    BY DEF UpdateInv
  <1>2. /\ target \in Seq(Known) /\ InOrder(target) /\ DOMAIN target = 1..Len(target) /\ Len(target) \in Nat
        /\ upserted \in 0..Len(source) /\ moved \in BOOLEAN /\ (moved => upserted < Len(source))
        /\ Done(upserted) \subseteq Has(target) /\ Has(target) \subseteq Done(upserted) \cup Old(upserted, moved)
        /\ \A b \in Old(upserted, moved) : b.id \in Handled(Len(source)) => b \in Has(target)
    BY <1>1 DEF Shows
  <1>3. /\ Len(source) \in Nat
        /\ \A i, j \in 1..Len(source) : i # j => source[i].id # source[j].id /\ source[i].rank # source[j].rank
    BY <1>1, Different
  <1>4. Observable!Range(target) = Has(target) /\ Observable!Range(source) = Has(source) /\ Observable!Range(before) = Has(before)
    BY <1>1, <1>2 DEF Lists, Observable!Range, Has
  <1>5. Observable!ShownInOrder
    BY <1>2 DEF Observable!ShownInOrder, InOrder
  <1>6. Observable!LeftAlone
    <2> SUFFICES ASSUME NEW old \in Has(before), NEW i \in 1..Len(source), old.id = source[i].id, old.rank = source[i].rank
                 PROVE  \E item \in Has(target) : item.id = source[i].id /\ item.rank = source[i].rank
      BY <1>4 DEF Observable!LeftAlone, Has
    <2>1. CASE i \in 1..upserted
      BY <1>2, <2>1 DEF Done
    <2>2. CASE i \notin 1..upserted
      <3>1. \A j \in 1..upserted : j # i /\ j \in 1..Len(source)
        BY <1>2, <1>3, <2>2
      <3>2. old.id \notin Handled(upserted)
        BY <1>3, <3>1 DEF Handled
      <3>3. ~Gone(upserted, moved, old)
        <4>1. moved => upserted + 1 \in 1..Len(source)
          BY <1>2, <1>3
        <4>2. moved /\ old.id = source[upserted + 1].id => i = upserted + 1
          BY <1>3, <4>1
        <4> QED BY <4>2 DEF Gone
      <3>4. old.id \in Handled(Len(source))
        BY DEF Handled
      <3> QED BY <1>2, <3>2, <3>3, <3>4 DEF Old
    <2> QED BY <2>1, <2>2
  <1>7. ASSUME upserted = Len(source), place > Len(target)
        PROVE  Observable!Ordered(target) /\ Has(target) = Has(source)
    <2>1. Done(upserted) = Has(source)
      BY <1>7 DEF Done, Has
    <2>2. moved = FALSE
      BY <1>2, <1>3, <1>7
    <2>3. \A i \in 1..Len(target) : target[i].id \notin itemsToDelete
      BY <1>1, <1>2, <1>7 DEF Searches
    <2>4. itemsToDelete = {b.id : b \in Has(before)} \ Handled(upserted)
      BY <1>1, <2>2 DEF Searches
    <2>5. \A x \in Has(target) : x \notin Old(upserted, moved)
      BY <2>3, <2>4 DEF Has, Old
    <2>6. Has(target) = Has(source)
      BY <1>2, <2>1, <2>5
    <2>7. Observable!Ordered(target)
      <3> SUFFICES ASSUME NEW i \in 1..Len(target), NEW j \in 1..Len(target), i < j PROVE target[i].rank < target[j].rank
        BY <1>2 DEF Observable!Ordered
      <3>1. target[i].id # target[j].id /\ target[i].rank <= target[j].rank
        BY <1>2 DEF InOrder
      <3>2. target[i] \in Has(source) /\ target[j] \in Has(source)
        BY <2>6 DEF Has
      <3>3. target[i].rank # target[j].rank
        BY <1>3, <3>1, <3>2 DEF Has
      <3>4. target[i].rank \in Int /\ target[j].rank \in Int
        BY <1>1, <3>2 DEF Lists, Items, Known
      <3> QED BY <3>1, <3>3, <3>4
    <2> QED BY <2>6, <2>7
  <1> QED BY <1>4, <1>5, <1>6, <1>7 DEF CollectionsShown, Observable!ShowsSource

(* Whatever was shown, whatever is to be shown and in whatever order the       *)
(* source has it: nobody who looks sees an item twice or behind a later one,   *)
(* what keeps its place is never taken away, and in the end the source is      *)
(* shown.                                                                      *)
THEOREM CollectionsHold == GraphicsSpec => []CollectionsShown
  <1> DEFINE Nothing == source = <<>> /\ before = <<>> /\ target = <<>>
             Inv == IF part = "collection" THEN UpdateInv ELSE Nothing
  <1>1. GraphicsInit => Inv
    <2> SUFFICES ASSUME GraphicsInit PROVE Inv
      OBVIOUS
    <2>1. CASE part = "collection"
      <3>1. input \in Sources \X {s \in Sources : Observable!Ordered(s)} /\ Observable!Begin(input[1], input[2])
        BY <2>1 DEF GraphicsInit, Inputs, GraphicsParts
      <3>2. input[1] \in Sources /\ input[2] \in Sources /\ Observable!Ordered(input[2])
        BY <3>1
      <3> QED BY <2>1, <3>1, <3>2, UpdateBegins
    <2>2. CASE part # "collection"
      BY <2>2 DEF GraphicsInit, Observable!Begin
    <2> QED BY <2>1, <2>2
  <1>2. Inv /\ [GraphicsNext]_graphicsVars => Inv'
    <2> SUFFICES ASSUME Inv, [GraphicsNext]_graphicsVars PROVE Inv'
      OBVIOUS
    <2>1. part' = part /\ [Observable!Next]_updateVars
      BY DEF GraphicsNext, Binding, Updating, Scanning, graphicsVars
    <2>2. part # "collection" => UNCHANGED updateVars
      BY DEF GraphicsNext, Binding, Updating, Scanning, graphicsVars
    <2> QED BY <2>1, <2>2, UpdateNext DEF updateVars
  <1>3. Inv => CollectionsShown
    <2>1. Nothing => CollectionsShown
      BY DEF CollectionsShown, Observable!ShownInOrder, Observable!LeftAlone, Observable!ShowsSource,
             Observable!Ordered, Observable!Range
    <2> QED BY <2>1, UpdateIsRight
  <1> QED BY <1>1, <1>2, <1>3, PTL DEF GraphicsSpec

-----------------------------------------------------------------------------
(* Bytes of a picture: byte a of row y, with rows of s bytes, is at At(s, y, a).*)
At(s, y, a) == s * y + a
Below(n) == 0..(n - 1)

LEMMA OneByte ==
  ASSUME NEW s \in Nat, NEW y \in Int, NEW z \in Int, NEW a \in Below(s), NEW b \in Below(s), At(s, y, a) = At(s, z, b)
  PROVE  y = z /\ a = b
  <1>1. s \in Nat /\ a \in Nat /\ b \in Nat /\ a < s /\ b < s
    BY DEF Below
  <1>2. ASSUME NEW p \in Int, NEW q \in Int, p < q PROVE s * p + s <= s * q
    <2>1. p + 1 <= q
      BY <1>2
    <2>2. s * (p + 1) <= s * q
      BY <1>1, <2>1
    <2>3. s * (p + 1) = s * p + s
      BY <1>1
    <2> QED BY <2>2, <2>3
  <1>3. ASSUME y < z PROVE FALSE
    <2> DEFINE u == s * y
               v == s * z
    <2>1. u \in Int /\ v \in Int /\ u + s <= v /\ u + a = v + b
      BY <1>1, <1>2, <1>3 DEF At
    <2> HIDE DEF u, v
    <2> QED BY <1>1, <2>1
  <1>4. ASSUME z < y PROVE FALSE
    <2> DEFINE u == s * y
               v == s * z
    <2>1. u \in Int /\ v \in Int /\ v + s <= u /\ u + a = v + b
      BY <1>1, <1>2, <1>4 DEF At
    <2> HIDE DEF u, v
    <2> QED BY <1>1, <2>1
  <1>5. y = z
    BY <1>3, <1>4
  <1>6. s * y \in Int
    BY <1>1
  <1> DEFINE u == s * y
  <1>7. u + a = u + b /\ u \in Int
    BY <1>5, <1>6 DEF At
  <1> HIDE DEF u
  <1> QED BY <1>1, <1>5, <1>7

LEMMA ByteInside ==
  ASSUME NEW s \in Nat, NEW h \in Nat, NEW y \in Below(h), NEW a \in Below(s)
  PROVE  At(s, y, a) \in Below(s * h)
  <1>1. y \in Nat /\ y + 1 <= h /\ a \in Nat /\ a < s
    BY DEF Below
  <1> DEFINE u == s * y
             v == s * h
  <1>2. u \in Nat /\ v \in Nat /\ u + s <= v
    <2>1. s * (y + 1) <= s * h
      BY <1>1
    <2>2. s * (y + 1) = s * y + s
      BY <1>1
    <2> QED BY <1>1, <2>1, <2>2
  <1> HIDE DEF u, v
  <1>3. u + a \in 0..(v - 1)
    BY <1>1, <1>2
  <1> QED BY <1>3 DEF At, Below, u, v

\* Rows of count bytes, written from byte c of row r on.
Written(s, r, c, count, rows) == {At(s, r + row, c + k) : row \in Below(rows), k \in Below(count)}

(* A byte is copied if it lies in a column and a row that are, and is as it was*)
(* otherwise.                                                                  *)

LEMMA GreatestOfOne == ASSUME NEW n \in Int PROVE Pictures!Max({n}) = n
  BY DEF Pictures!Max

Copied(s, T, r, c, bytes, from, fs, count, rows) ==
  Pictures!CopyRows(T, At(s, r, c), s, bytes, from, fs, count, rows)
ShowsBytes(copy, T, s, h, r, c, bytes, from, fs, count, rows) ==
  /\ DOMAIN copy = Below(s * h)
  /\ \A y \in Below(h), a \in Below(s) :
       copy[At(s, y, a)] = IF y - r \in Below(rows) /\ a - c \in Below(count)
                           THEN Pictures!Read(bytes, from + fs * (y - r) + (a - c)) ELSE T[At(s, y, a)]

LEMMA BytesCopied ==
  ASSUME NEW s \in Nat, NEW h \in Nat, NEW T, DOMAIN T = Below(s * h), NEW bytes, NEW from \in Int, NEW fs \in Int,
         NEW r \in Nat, NEW c \in Nat, NEW count \in Nat, NEW rows \in Nat, c + count <= s, r + rows <= h
  PROVE  ShowsBytes(Copied(s, T, r, c, bytes, from, fs, count, rows), T, s, h, r, c, bytes, from, fs, count, rows)
  <1> DEFINE to == At(s, r, c)
             copy == Pictures!CopyRows(T, to, s, bytes, from, fs, count, rows)
             last(i) == Pictures!Max({row \in Below(rows) : i - (to + s * row) \in Below(count)})
             W == {to + s * row + k : row \in Below(rows), k \in Below(count)}
  <1>1. copy = [i \in DOMAIN T \cup W |->
                  IF i \in W THEN Pictures!Read(bytes, from + fs * last(i) + (i - (to + s * last(i)))) ELSE T[i]]
    BY DEF Pictures!CopyRows, Pictures!Below, Below
  <1>2. ASSUME NEW row \in Int, NEW k \in Int
        PROVE  /\ to + s * row \in Int /\ to + s * row + k = At(s, r + row, c + k)
    <2>1. s * (r + row) = s * r + s * row /\ s * r \in Int /\ s * row \in Int
      OBVIOUS
    <2> DEFINE u == s * r
               v == s * row
    <2> HIDE DEF u, v
    <2>2. u \in Int /\ v \in Int => (u + c) + v + k = (u + v) + (c + k)
      OBVIOUS
    <2> QED BY <2>1, <2>2 DEF At, u, v
  <1>3. ASSUME NEW row \in Below(rows), NEW k \in Below(count)
        PROVE  r + row \in Below(h) /\ c + k \in Below(s)
    BY DEF Below
  <1>4. W \subseteq Below(s * h)
    <2> SUFFICES ASSUME NEW row \in Below(rows), NEW k \in Below(count) PROVE to + s * row + k \in Below(s * h)
      OBVIOUS
    <2>1. row \in Int /\ k \in Int
      BY DEF Below
    <2>2. r + row \in Below(h) /\ c + k \in Below(s)
      BY <1>3
    <2> HIDE DEF to
    <2>3. to + s * row + k = At(s, r + row, c + k)
      BY <1>2, <2>1
    <2>4. At(s, r + row, c + k) \in Below(s * h)
      BY <2>2, ByteInside
    <2> QED BY <2>3, <2>4
  <1> HIDE DEF to
  <1>5. ASSUME NEW y \in Below(h), NEW a \in Below(s), NEW row \in Int, NEW k \in Below(count), At(s, y, a) = to + s * row + k, c + k \in Below(s)
        PROVE  row = y - r /\ k = a - c
    <2>1. y \in Int /\ a \in Int /\ k \in Int
      BY DEF Below
    <2>2. At(s, y, a) = At(s, r + row, c + k) /\ r + row \in Int
      BY <1>2, <1>5, <2>1
    <2>3. y = r + row /\ a = c + k
      BY <1>5, <2>2, <2>1, OneByte
    <2> QED BY <2>1, <2>3
  <1>6. DOMAIN copy = Below(s * h)
    BY <1>1, <1>4
  <1>7. ASSUME NEW y \in Below(h), NEW a \in Below(s)
        PROVE  copy[At(s, y, a)] =
                 IF y - r \in Below(rows) /\ a - c \in Below(count)
                 THEN Pictures!Read(bytes, from + fs * (y - r) + (a - c)) ELSE T[At(s, y, a)]
    <2> DEFINE i == At(s, y, a)
    <2>1. i \in Below(s * h)
      BY ByteInside
    <2>2. y \in Int /\ a \in Int
      BY DEF Below
    <2>3. CASE y - r \in Below(rows) /\ a - c \in Below(count)
      <3> DEFINE row == y - r
                 k == a - c
      <3>1. row \in Int /\ k \in Int /\ r + row = y /\ c + k = a
        BY <2>2
      <3>2. i = to + s * row + k
        <4>1. to + s * row + k = At(s, r + row, c + k)
          BY <1>2, <3>1
        <4> QED BY <3>1, <4>1
      <3>3. row \in Below(rows) /\ k \in Below(count)
        BY <2>3
      <3> HIDE DEF row, k, i
      <3>4. i \in W
        BY <3>2, <3>3
      <3>5. {x \in Below(rows) : i - (to + s * x) \in Below(count)} = {row}
        <4>1. i - (to + s * row) = k
          <5>1. to + s * row \in Int
            BY <1>2, <3>1
          <5> QED BY <3>1, <3>2, <5>1
        <4>2. ASSUME NEW x \in Below(rows), i - (to + s * x) \in Below(count) PROVE x = row
          <5> DEFINE l == i - (to + s * x)
          <5>1. x \in Int /\ l \in Below(count)
            BY <4>2 DEF Below
          <5>2. to + s * x \in Int /\ i \in Int
            BY <1>2, <2>1, <5>1 DEF Below
          <5>3. i = to + s * x + l
            BY <5>2
          <5> HIDE DEF l
          <5>4. c + l \in Below(s)
            BY <1>3, <4>2, <5>1
          <5> QED BY <1>5, <5>1, <5>3, <5>4 DEF i, row
        <4> QED BY <3>3, <4>1, <4>2
      <3>6. last(i) = row
        <4> row \in Int
          BY <3>1
        <4> QED BY <3>5, GreatestOfOne, Zenon
      <3>7. i - (to + s * row) = k
        <4>1. to + s * row \in Int
          BY <1>2, <3>1
        <4> QED BY <3>1, <3>2, <4>1
      <3>8. copy[i] = Pictures!Read(bytes, from + fs * row + k)
        BY <1>1, <3>4, <3>6, <3>7
      <3> QED BY <2>3, <3>8 DEF i, row, k
    <2>4. CASE ~(y - r \in Below(rows) /\ a - c \in Below(count))
      <3>1. ASSUME NEW row \in Below(rows), NEW k \in Below(count), i = to + s * row + k PROVE FALSE
        <4>1. row \in Int /\ c + k \in Below(s)
          BY <1>3 DEF Below
        <4>2. row = y - r /\ k = a - c
          BY <1>5, <3>1, <4>1
        <4> QED BY <2>4, <4>2
      <3>2. i \notin W
        BY <3>1
      <3> HIDE DEF W
      <3> QED BY <1>1, <2>1, <2>4, <3>2
    <2> QED BY <2>3, <2>4
  <1>8. copy = Copied(s, T, r, c, bytes, from, fs, count, rows)
    BY DEF Copied, to
  <1> HIDE DEF copy
  <1> QED BY <1>6, <1>7, <1>8 DEF ShowsBytes

LEMMA Monotone ==
  ASSUME NEW b \in Nat, NEW p \in Int, NEW q \in Int, p <= q
  PROVE  b * p \in Int /\ b * q \in Int /\ b * p <= b * q
  OBVIOUS

LEMMA Positive ==
  ASSUME NEW p \in Nat \ {0}, NEW q \in Nat \ {0}
  PROVE  p * q \in Nat \ {0}
  <1>1. p * 1 <= p * q /\ p * q \in Int
    BY Monotone
  <1> DEFINE u == p * q
  <1>2. p <= u /\ u \in Int
    BY <1>1
  <1> HIDE DEF u
  <1>3. u \in Nat \ {0}
    BY <1>2
  <1> QED BY <1>3 DEF u

LEMMA Distributes ==
  ASSUME NEW b \in Int, NEW p \in Int, NEW q \in Int
  PROVE  b * (p + q) = b * p + b * q /\ b * (p - q) = b * p - b * q
  OBVIOUS

(* Byte i of the pixel in column x is at At(b, x, i) of a row, with pixels of b*)
(* bytes. What is copied are n columns from column c on, and what is behind    *)
(* them only if nothing but padding is.                                        *)
ColumnsFit(b, w, c, n, count) ==
  /\ b \in Nat \ {0} /\ w \in Nat /\ c \in Nat /\ n \in Nat /\ count \in Nat
  /\ c + n <= w /\ b * n <= count /\ (count = b * n \/ c + n = w)

LEMMA ByteOfPixel ==
  ASSUME NEW s \in Nat, NEW b \in Nat \ {0}, NEW w \in Nat, b * w <= s, NEW x \in Below(w), NEW i \in Below(b)
  PROVE  At(b, x, i) \in Below(s)
  <1>1. x \in Nat /\ x + 1 <= w /\ i \in Nat /\ i < b
    BY DEF Below
  <1>2. b * (x + 1) <= b * w /\ b * w \in Int /\ b * x \in Nat
    BY <1>1, Monotone
  <1>3. b * (x + 1) = b * x + b
    BY <1>1
  <1> DEFINE u == b * x
             v == b * w
  <1>4. u \in Nat /\ v \in Int /\ u + b <= v /\ v <= s
    BY <1>2, <1>3
  <1> HIDE DEF u, v
  <1>5. u + i \in 0..(s - 1)
    BY <1>1, <1>4
  <1> QED BY <1>5 DEF Below, At, u

LEMMA ColumnCopied ==
  ASSUME NEW b, NEW w, NEW c, NEW n, NEW count, ColumnsFit(b, w, c, n, count), NEW x \in Below(w), NEW i \in Below(b)
  PROVE  At(b, x, i) - b * c \in Below(count) <=> x - c \in Below(n)
  <1>1. /\ x \in Nat /\ x < w /\ i \in Nat /\ i < b
        /\ b \in Nat /\ w \in Nat /\ c \in Nat /\ n \in Nat /\ count \in Nat
        /\ c + n <= w /\ b * n <= count /\ (count = b * n \/ c + n = w)
    BY DEF Below, ColumnsFit
  <1> DEFINE u == b * x
             v == b * c
             k == b * n
  <1>2. u \in Int /\ v \in Int /\ k \in Int /\ At(b, x, i) = u + i
    BY <1>1 DEF At
  <1>3. CASE x < c
    <2>1. b * (x + 1) <= v
      BY <1>1, <1>3, Monotone
    <2>2. b * (x + 1) = u + b
      BY <1>1
    <2>3. u + b <= v
      BY <2>1, <2>2
    <2> HIDE DEF u, v
    <2>4. u + i - v < 0
      BY <1>1, <1>2, <2>3
    <2>5. x - c < 0
      BY <1>1, <1>3
    <2> QED BY <2>4, <2>5, <1>1, <1>2 DEF Below, v
  <1>4. CASE c <= x /\ x < c + n
    <2>1. v <= u
      BY <1>1, <1>4, Monotone
    <2>2. b * (x + 1) <= b * (c + n)
      BY <1>1, <1>4, Monotone
    <2>3. b * (x + 1) = u + b /\ b * (c + n) = v + k
      BY <1>1
    <2>4. u + b <= v + k
      BY <2>2, <2>3
    <2>5. k <= count
      BY <1>1
    <2> HIDE DEF u, v, k
    <2>6. u + i - v \in 0..(count - 1)
      BY <1>1, <1>2, <2>1, <2>4, <2>5
    <2>7. x - c \in 0..(n - 1)
      BY <1>1, <1>4
    <2> QED BY <1>2, <2>6, <2>7 DEF Below, v
  <1>5. CASE x >= c + n
    <2>1. count = k
      BY <1>1, <1>5
    <2>2. b * (c + n) <= u
      BY <1>1, <1>5, Monotone
    <2>3. b * (c + n) = v + k
      BY <1>1
    <2>4. v + k <= u
      BY <2>2, <2>3
    <2> HIDE DEF u, v, k
    <2>5. u + i - v >= count /\ u + i - v \in Int
      BY <1>1, <1>2, <2>1, <2>4
    <2>6. x - c >= n
      BY <1>1, <1>5
    <2> QED BY <2>5, <2>6, <1>1, <1>2 DEF Below, v
  <1> QED BY <1>1, <1>3, <1>4, <1>5

(* What rows of pixels show after a copy: of n columns and m rows from column c*)
(* and row r on, the pixels of the source from column sx and row sy on, and    *)
(* elsewhere what was there before.                                            *)
Fits(b, s, w, h, fs, fh, r, c, n, m, sx, sy, count) ==
  /\ ColumnsFit(b, w, c, n, count) /\ s \in Nat /\ h \in Nat /\ fs \in Nat /\ fh \in Nat
  /\ r \in Nat /\ m \in Nat /\ sx \in Nat /\ sy \in Nat
  /\ b * w <= s /\ b * c + count <= s /\ r + m <= h /\ b * (sx + n) <= fs /\ sy + m <= fh

LEMMA PixelsCopied ==
  ASSUME NEW b, NEW s, NEW w, NEW h, NEW fs, NEW fh, NEW r, NEW c, NEW n, NEW m, NEW sx, NEW sy, NEW count,
         Fits(b, s, w, h, fs, fh, r, c, n, m, sx, sy, count),
         NEW T, DOMAIN T = Below(s * h), NEW bytes, DOMAIN bytes = Below(fs * fh)
  PROVE  LET copy == Copied(s, T, r, b * c, bytes, At(fs, sy, b * sx), fs, count, m)
         IN /\ DOMAIN copy = Below(s * h)
            /\ \A x \in Below(w), y \in Below(h), i \in Below(b) :
                 copy[At(s, y, At(b, x, i))] =
                   IF x - c \in Below(n) /\ y - r \in Below(m)
                   THEN bytes[At(fs, y - r + sy, At(b, x - c + sx, i))] ELSE T[At(s, y, At(b, x, i))]
  <1> DEFINE from == At(fs, sy, b * sx)
             bc == b * c
             copy == Copied(s, T, r, bc, bytes, from, fs, count, m)
  <1>0. /\ b \in Nat \ {0} /\ s \in Nat /\ w \in Nat /\ h \in Nat /\ fs \in Nat /\ fh \in Nat /\ r \in Nat /\ c \in Nat
        /\ n \in Nat /\ m \in Nat /\ sx \in Nat /\ sy \in Nat /\ count \in Nat
        /\ b * w <= s /\ b * c + count <= s /\ r + m <= h /\ b * (sx + n) <= fs /\ sy + m <= fh
        /\ ColumnsFit(b, w, c, n, count)
    BY DEF Fits, ColumnsFit
  <1>1. bc \in Nat /\ from \in Int /\ bc + count <= s
    BY <1>0 DEF At
  <1>2. /\ DOMAIN copy = Below(s * h)
        /\ \A y \in Below(h), a \in Below(s) :
             copy[At(s, y, a)] =
               IF y - r \in Below(m) /\ a - bc \in Below(count)
               THEN Pictures!Read(bytes, from + fs * (y - r) + (a - bc)) ELSE T[At(s, y, a)]
    <2> HIDE DEF bc, from
    <2>1. ShowsBytes(copy, T, s, h, r, bc, bytes, from, fs, count, m)
      BY <1>0, <1>1, BytesCopied
    <2> HIDE DEF copy
    <2> QED BY <2>1 DEF ShowsBytes
  <1>3. ASSUME NEW x \in Below(w), NEW y \in Below(h), NEW i \in Below(b)
        PROVE  copy[At(s, y, At(b, x, i))] =
                 IF x - c \in Below(n) /\ y - r \in Below(m)
                 THEN bytes[At(fs, y - r + sy, At(b, x - c + sx, i))] ELSE T[At(s, y, At(b, x, i))]
    <2> DEFINE a == At(b, x, i)
    <2>1. a \in Below(s)
      BY <1>0, ByteOfPixel
    <2>2. a - bc \in Below(count) <=> x - c \in Below(n)
      BY <1>0, ColumnCopied
    <2>3. ASSUME x - c \in Below(n), y - r \in Below(m)
          PROVE  Pictures!Read(bytes, from + fs * (y - r) + (a - bc)) = bytes[At(fs, y - r + sy, At(b, x - c + sx, i))]
      <3> DEFINE row == y - r + sy
                 z == x - c + sx
                 q == sx + n
                 byte == At(b, z, i)
      <3>1. row \in Below(fh) /\ z \in Below(q) /\ q \in Nat /\ x \in Int /\ y \in Int /\ i \in Int /\ z \in Int /\ row \in Int
        BY <1>0, <2>3 DEF Below
      <3>2. byte \in Below(fs)
        <4>1. b * q <= fs
          BY <1>0
        <4> HIDE DEF z, q
        <4> QED BY <1>0, <3>1, <4>1, ByteOfPixel
      <3>3. At(fs, row, byte) \in DOMAIN bytes
        <4> HIDE DEF row, byte
        <4> QED BY <1>0, <3>1, <3>2, ByteInside
      <3>4. from + fs * (y - r) + (a - bc) = At(fs, row, byte)
        <4>1. fs * row = fs * (y - r) + fs * sy
          BY <1>0, <3>1
        <4>2. b * z = b * x - bc + b * sx
          BY <1>0, <3>1
        <4> DEFINE p == fs * (y - r)
                   g == fs * sy
                   u == b * x
                   v == b * sx
        <4>3. p \in Int /\ g \in Int /\ u \in Int /\ v \in Int
          BY <1>0, <3>1
        <4>4. from = g + v /\ At(fs, row, byte) = (p + g) + ((u - bc + v) + i) /\ a = u + i
          BY <4>1, <4>2 DEF At
        <4> HIDE DEF p, g, u, v, bc, from, a
        <4>5. (g + v) + p + ((u + i) - bc) = (p + g) + ((u - bc + v) + i)
          BY <1>1, <3>1, <4>3
        <4> QED BY <4>4, <4>5 DEF p
      <3> QED BY <3>3, <3>4 DEF Pictures!Read
    <2> HIDE DEF a, copy, from, bc
    <2>4. copy[At(s, y, a)] = IF x - c \in Below(n) /\ y - r \in Below(m)
                              THEN Pictures!Read(bytes, from + fs * (y - r) + (a - bc)) ELSE T[At(s, y, a)]
      BY <1>2, <2>1, <2>2
    <2> QED BY <2>3, <2>4 DEF a
  <1> QED BY <1>2, <1>3

-----------------------------------------------------------------------------
(* Pictures: what their sizes are, and what a new one is like.                 *)
Size(texture) == Pictures!BytesPerPixel(texture.Format)

Sized(texture) ==
  /\ texture.Width \in Nat \ {0} /\ texture.Height \in Nat \ {0} /\ texture.Stride \in Nat \ {0}
  /\ Size(texture) \in Nat \ {0} /\ Pictures!BitsPerPixel(texture.Format) = 8 * Size(texture)
  /\ Size(texture) * texture.Width <= texture.Stride
  /\ DOMAIN texture.Buffer = Below(texture.Stride * texture.Height)

LEMMA PictureSized ==
  ASSUME NEW texture, IsPicture(texture)
  PROVE  Sized(texture)
  <1>1. PICK size \in 1..16 : Pictures!BitsPerPixel(texture.Format) = 8 * size /\ texture.Stride >= size * texture.Width
    BY DEF IsPicture
  <1>2. Size(texture) = size
    <2>1. size \in Nat
      OBVIOUS
    <2>2. (8 * size) \div 8 = size
      BY <2>1
    <2>3. Size(texture) = Pictures!BitsPerPixel(texture.Format) \div 8
      BY DEF Size, Pictures!BytesPerPixel
    <2>4. Pictures!BitsPerPixel(texture.Format) \div 8 = (8 * size) \div 8
      BY <1>1, Zenon
    <2> QED BY <2>2, <2>3, <2>4, Zenon
  <1>3. /\ texture.Width \in Nat \ {0} /\ texture.Height \in Nat \ {0} /\ texture.Stride \in Nat
        /\ texture.Buffer \in [0..(texture.Stride * texture.Height - 1) -> 0..255]
    BY DEF IsPicture
  <1>4. size * texture.Width \in Nat \ {0}
    <2>1. size \in Nat \ {0}
      OBVIOUS
    <2> QED BY <1>3, <2>1, Positive, Zenon
  <1>5. DOMAIN texture.Buffer = Below(texture.Stride * texture.Height)
    BY <1>3 DEF Below
  <1> QED BY <1>1, <1>2, <1>3, <1>4, <1>5 DEF Sized

LEMMA SizedIsValid ==
  ASSUME NEW texture, Sized(texture)
  PROVE  ~Pictures!IsEmpty(texture) /\ Pictures!IsValid(texture)
  <1> DEFINE b == Size(texture)
             u == b * texture.Width
  <1>1. /\ texture.Width \in Nat \ {0} /\ texture.Height \in Nat \ {0} /\ texture.Stride \in Nat \ {0} /\ b \in Nat \ {0}
        /\ Pictures!BitsPerPixel(texture.Format) = 8 * b
        /\ u <= texture.Stride /\ DOMAIN texture.Buffer = Below(texture.Stride * texture.Height)
    BY DEF Sized
  <1>2. texture.Stride * texture.Height \in Nat \ {0}
    BY <1>1, Positive
  <1>3. 0 \in Below(texture.Stride * texture.Height)
    BY <1>2 DEF Below
  <1>4. u \in Nat /\ texture.Width * (8 * b) = 8 * u
    BY <1>1
  <1> HIDE DEF u, b
  <1>5. texture.Stride * 8 >= texture.Width * (8 * b)
    BY <1>1, <1>4
  <1> QED BY <1>1, <1>3, <1>5 DEF Pictures!IsEmpty, Pictures!IsValid, Pictures!ByteCount, Pictures!Below, Below

LEMMA CreatedIs ==
  ASSUME NEW format, NEW b \in Nat \ {0}, Pictures!BitsPerPixel(format) = 8 * b, NEW width \in Nat, NEW height \in Nat
  PROVE  Pictures!Created(width, height, format) =
           Pictures!Texture(width, height, b * width, format, [i \in Below((b * width) * height) |-> 0])
  <1>1. (8 * b * width + 7) \div 8 = b * width
    <2> DEFINE u == b * width
    <2>1. u \in Nat /\ 8 * b * width = 8 * u
      OBVIOUS
    <2> HIDE DEF u
    <2>2. (8 * u + 7) \div 8 = u
      BY <2>1
    <2> QED BY <2>1, <2>2 DEF u
  <1> QED BY <1>1 DEF Pictures!Created, Pictures!Below, Below

LEMMA PixelIs ==
  ASSUME NEW texture, NEW x \in Int, NEW y \in Int, NEW b \in Nat, Size(texture) = b, texture.Stride \in Nat
  PROVE  Pictures!Pixel(texture, x, y) = [i \in Below(b) |-> texture.Buffer[At(texture.Stride, y, At(b, x, i))]]
  <1>1. ASSUME NEW i \in Below(b)
        PROVE  texture.Stride * y + x * b + i = At(texture.Stride, y, At(b, x, i))
    <2> DEFINE u == texture.Stride * y
               v == b * x
    <2>1. u \in Int /\ v \in Int /\ x * b = v /\ i \in Int
      BY DEF Below
    <2> HIDE DEF u, v
    <2>2. u + v + i = u + (v + i)
      BY <2>1
    <2> QED BY <2>1, <2>2 DEF At, u, v
  <1> QED BY <1>1 DEF Pictures!Pixel, Pictures!Below, Below, Size

(* A picture made of another one's pixels shows it, so much further to the     *)
(* right and down as the places differ that it is copied from and to.          *)
CopyOf(w, h, s, format, T, r, c, texture, sx, sy, count, m) ==
  Pictures!Texture(w, h, s, format,
    Copied(s, T, r, Size(texture) * c, texture.Buffer, At(texture.Stride, sy, Size(texture) * sx), texture.Stride, count, m))
Aligned(w, c, n, sx, width) == \A x \in Below(w) : x - c \in Below(n) <=> x - (c - sx) \in Below(width)
AllZero(s, h, T) == DOMAIN T = Below(s * h) /\ \A i \in Below(s * h) : T[i] = 0

LEMMA CopySized ==
  ASSUME NEW texture, Sized(texture), NEW w \in Nat \ {0}, NEW h \in Nat \ {0}, NEW s, NEW T, AllZero(s, h, T),
         NEW format, Pictures!BitsPerPixel(format) = Pictures!BitsPerPixel(texture.Format),
         NEW r, NEW c, NEW n, NEW m, NEW sx, NEW sy, NEW count,
         Fits(Size(texture), s, w, h, texture.Stride, texture.Height, r, c, n, m, sx, sy, count)
  PROVE  Sized(CopyOf(w, h, s, format, T, r, c, texture, sx, sy, count, m))
  <1> DEFINE b == Size(texture)
             fs == texture.Stride
             fh == texture.Height
             copy == Copied(s, T, r, b * c, texture.Buffer, At(fs, sy, b * sx), fs, count, m)
             result == CopyOf(w, h, s, format, T, r, c, texture, sx, sy, count, m)
  <1>1. /\ b \in Nat \ {0} /\ DOMAIN texture.Buffer = Below(fs * fh) /\ Pictures!BitsPerPixel(format) = 8 * b
    BY DEF Sized
  <1>2. s \in Nat /\ b * w <= s
    BY DEF Fits, ColumnsFit
  <1>3. result.Width = w /\ result.Height = h /\ result.Stride = s /\ result.Format = format /\ result.Buffer = copy
    BY DEF CopyOf, Pictures!Texture
  <1>4. DOMAIN copy = Below(s * h)
    <2> HIDE DEF b, fs, fh
    <2>1. Fits(b, s, w, h, fs, fh, r, c, n, m, sx, sy, count) /\ DOMAIN T = Below(s * h)
      BY DEF b, fs, fh, AllZero
    <2> QED BY <1>1, <2>1, PixelsCopied
  <1>5. Size(result) = b
    BY <1>3 DEF Size, Pictures!BytesPerPixel
  <1>6. s \in Nat \ {0}
    <2>1. b * w \in Nat \ {0}
      BY <1>1, Positive
    <2> QED BY <1>2, <2>1
  <1> HIDE DEF b, result, copy
  <1>7. Sized(result)
    BY <1>1, <1>2, <1>3, <1>4, <1>5, <1>6 DEF Sized
  <1> QED BY <1>7 DEF result

LEMMA CopyShows ==
  ASSUME NEW texture, Sized(texture), NEW w \in Nat \ {0}, NEW h \in Nat \ {0}, NEW s, NEW T, AllZero(s, h, T),
         NEW format, Pictures!BitsPerPixel(format) = Pictures!BitsPerPixel(texture.Format),
         NEW r, NEW c, NEW n, NEW m, NEW sx, NEW sy, NEW count,
         Fits(Size(texture), s, w, h, texture.Stride, texture.Height, r, c, n, m, sx, sy, count),
         Aligned(w, c, n, sx, texture.Width), Aligned(h, r, m, sy, texture.Height)
  PROVE  Pictures!Shows(CopyOf(w, h, s, format, T, r, c, texture, sx, sy, count, m), texture, c - sx, r - sy)
  <1> DEFINE b == Size(texture)
             fs == texture.Stride
             fh == texture.Height
             copy == Copied(s, T, r, b * c, texture.Buffer, At(fs, sy, b * sx), fs, count, m)
             result == CopyOf(w, h, s, format, T, r, c, texture, sx, sy, count, m)
  <1>1. /\ b \in Nat \ {0} /\ fs \in Nat /\ fh \in Nat /\ DOMAIN texture.Buffer = Below(fs * fh)
        /\ Pictures!BitsPerPixel(format) = 8 * b
    BY DEF Sized
  <1>2. s \in Nat /\ r \in Nat /\ c \in Nat /\ sx \in Nat /\ sy \in Nat /\ b * w <= s
    BY DEF Fits, ColumnsFit
  <1>3. result.Width = w /\ result.Height = h /\ result.Stride = s /\ result.Format = format /\ result.Buffer = copy
    BY DEF CopyOf, Pictures!Texture
  <1>4. /\ DOMAIN copy = Below(s * h)
        /\ \A x \in Below(w), y \in Below(h), i \in Below(b) :
             copy[At(s, y, At(b, x, i))] =
               IF x - c \in Below(n) /\ y - r \in Below(m)
               THEN texture.Buffer[At(fs, y - r + sy, At(b, x - c + sx, i))] ELSE T[At(s, y, At(b, x, i))]
    <2> HIDE DEF b, fs, fh
    <2>1. Fits(b, s, w, h, fs, fh, r, c, n, m, sx, sy, count) /\ DOMAIN T = Below(s * h)
      BY DEF b, fs, fh, AllZero
    <2> QED BY <1>1, <2>1, PixelsCopied
  <1>5. Pictures!IsValid(result)
    <2> HIDE DEF result
    <2>1. Sized(result)
      BY CopySized DEF result
    <2> QED BY <2>1, SizedIsValid
  <1>6. Size(result) = b
    BY <1>3 DEF Size, Pictures!BytesPerPixel
  <1>7. ASSUME NEW x \in Below(w), NEW y \in Below(h)
        PROVE  Pictures!Pixel(result, x, y) =
                 IF Pictures!Inside(texture, x - (c - sx), y - (r - sy))
                 THEN Pictures!Pixel(texture, x - (c - sx), y - (r - sy)) ELSE Pictures!Black(result)
    <2> DEFINE right == x - (c - sx)
               down == y - (r - sy)
    <2>1. /\ x \in Int /\ y \in Int /\ right \in Int /\ down \in Int
          /\ x - c + sx = right /\ y - r + sy = down
      BY <1>2 DEF Below
    <2>2. Pictures!Inside(texture, right, down) <=> x - c \in Below(n) /\ y - r \in Below(m)
      BY DEF Aligned, Pictures!Inside, Pictures!Below, Below
    <2>3. Pictures!Pixel(result, x, y) = [i \in Below(b) |-> copy[At(s, y, At(b, x, i))]]
      <3> HIDE DEF b, result, copy
      <3>1. result.Stride \in Nat /\ b \in Nat
        BY <1>1, <1>2, <1>3
      <3> QED BY <1>3, <1>6, <2>1, <3>1, PixelIs
    <2>4. Pictures!Pixel(texture, right, down) = [i \in Below(b) |-> texture.Buffer[At(fs, down, At(b, right, i))]]
      <3> HIDE DEF b, right, down
      <3>1. texture.Stride \in Nat /\ Size(texture) = b
        BY <1>1 DEF b
      <3> QED BY <1>1, <2>1, <3>1, PixelIs
    <2>5. Pictures!Black(result) = [i \in Below(b) |-> 0]
      BY <1>6 DEF Pictures!Black, Pictures!Below, Below, Size
    <2>6. ASSUME NEW i \in Below(b) PROVE T[At(s, y, At(b, x, i))] = 0
      <3> HIDE DEF b
      <3>1. At(b, x, i) \in Below(s)
        BY <1>1, <1>2, ByteOfPixel
      <3>2. At(s, y, At(b, x, i)) \in Below(s * h)
        BY <1>2, <3>1, ByteInside
      <3> QED BY <3>2 DEF AllZero
    <2> SUFFICES Pictures!Pixel(result, x, y) = IF Pictures!Inside(texture, right, down)
                                                THEN Pictures!Pixel(texture, right, down) ELSE Pictures!Black(result)
      OBVIOUS
    <2> HIDE DEF b, fs, fh, copy, result, right, down
    <2>7. CASE Pictures!Inside(texture, right, down)
      <3>1. \A i \in Below(b) : copy[At(s, y, At(b, x, i))] = texture.Buffer[At(fs, down, At(b, right, i))]
        BY <1>4, <2>1, <2>2, <2>7
      <3> QED BY <2>3, <2>4, <2>7, <3>1
    <2>8. CASE ~Pictures!Inside(texture, right, down)
      <3>1. \A i \in Below(b) : copy[At(s, y, At(b, x, i))] = 0
        BY <1>4, <2>2, <2>6, <2>8
      <3> QED BY <2>3, <2>5, <2>8, <3>1
    <2> QED BY <2>7, <2>8
  <1> HIDE DEF result
  <1> QED BY <1>3, <1>5, <1>7 DEF Pictures!Shows, Pictures!Below, Below, result

LEMMA ZerosAreZero ==
  ASSUME NEW s, NEW h
  PROVE  AllZero(s, h, [i \in Below(s * h) |-> 0])
  BY DEF AllZero

LEMMA ShowsItself ==
  ASSUME NEW texture, Sized(texture)
  PROVE  Pictures!Shows(texture, texture, 0, 0)
  <1>1. ASSUME NEW x \in Pictures!Below(texture.Width), NEW y \in Pictures!Below(texture.Height)
        PROVE  x - 0 = x /\ y - 0 = y /\ Pictures!Inside(texture, x, y)
    BY DEF Sized, Pictures!Below, Pictures!Inside
  <1>2. Pictures!IsValid(texture)
    BY SizedIsValid
  <1> QED BY <1>1, <1>2 DEF Pictures!Shows

(* The calls, as copies into a new picture.                                    *)
Zeros(s, h) == [i \in Below(s * h) |-> 0]
RowLength(texture, w) == Size(texture) * w
IsTight(texture) == texture.Stride = RowLength(texture, texture.Width)
NewCopy(w, h, r, c, texture, sx, sy, count, m) ==
  CopyOf(w, h, RowLength(texture, w), texture.Format, Zeros(RowLength(texture, w), h), r, c, texture, sx, sy, count, m)

LEMMA TightIs ==
  ASSUME NEW texture, Sized(texture)
  PROVE  Pictures!Tight(texture) <=> IsTight(texture)
  <1>1. Size(texture) * texture.Width = texture.Width * Size(texture)
    BY DEF Sized
  <1> QED BY <1>1 DEF Pictures!Tight, IsTight, Size, RowLength

\* The offset of a pixel.
StartsAt(offset, s, y, b, x) == offset = At(s, y, b * x)

CopiedInto(result, to, s, texture, from, count, m) ==
  [result EXCEPT !.Buffer = Pictures!CopyRows(@, to, s, texture.Buffer, from, texture.Stride, count, m)]
NewPicture(w, h, texture) == Pictures!Created(w, h, texture.Format)

LEMMA NewPictureIs ==
  ASSUME NEW texture, Sized(texture), NEW w \in Nat, NEW h \in Nat
  PROVE  /\ NewPicture(w, h, texture) =
              Pictures!Texture(w, h, RowLength(texture, w), texture.Format, Zeros(RowLength(texture, w), h))
         /\ NewPicture(w, h, texture).Stride = RowLength(texture, w)
  <1> DEFINE b == Size(texture)
             s == RowLength(texture, w)
  <1>1. b \in Nat \ {0} /\ Pictures!BitsPerPixel(texture.Format) = 8 * b
    BY DEF Sized
  <1>2. NewPicture(w, h, texture) = Pictures!Texture(w, h, s, texture.Format, Zeros(s, h))
    <2>1. s = b * w
      BY DEF RowLength
    <2> HIDE DEF b, s
    <2> QED BY <1>1, <2>1, CreatedIs DEF Zeros, NewPicture
  <1> HIDE DEF s
  <1>3. Pictures!Texture(w, h, s, texture.Format, Zeros(s, h)).Stride = s
    BY DEF Pictures!Texture
  <1> QED BY <1>2, <1>3 DEF s

LEMMA NewCopyIs ==
  ASSUME NEW texture, Sized(texture), NEW w \in Nat, NEW h \in Nat, NEW r, NEW c, NEW sx, NEW sy, NEW count, NEW m,
         NEW to, StartsAt(to, RowLength(texture, w), r, Size(texture), c),
         NEW from, StartsAt(from, texture.Stride, sy, Size(texture), sx)
  PROVE  CopiedInto(NewPicture(w, h, texture), to, RowLength(texture, w), texture, from, count, m)
           = NewCopy(w, h, r, c, texture, sx, sy, count, m)
  <1> DEFINE s == RowLength(texture, w)
  <1>1. NewPicture(w, h, texture) = Pictures!Texture(w, h, s, texture.Format, Zeros(s, h))
    BY NewPictureIs
  <1> HIDE DEF s
  <1>2. CopiedInto(Pictures!Texture(w, h, s, texture.Format, Zeros(s, h)), to, s, texture, from, count, m)
          = Pictures!Texture(w, h, s, texture.Format,
              Pictures!CopyRows(Zeros(s, h), to, s, texture.Buffer, from, texture.Stride, count, m))
    BY DEF Pictures!Texture, CopiedInto
  <1> QED BY <1>1, <1>2 DEF NewCopy, CopyOf, Copied, StartsAt, s

LEMMA StartsAtRow ==
  ASSUME NEW s \in Int, NEW r \in Int, NEW b \in Int
  PROVE  StartsAt(s * r, s, r, b, 0)
  <1> DEFINE u == s * r
  <1>1. u \in Int /\ b * 0 = 0
    OBVIOUS
  <1> HIDE DEF u
  <1>2. u = u + b * 0
    BY <1>1
  <1> QED BY <1>2 DEF StartsAt, At, u

LEMMA StartsAtColumn ==
  ASSUME NEW s \in Int, NEW c \in Int, NEW b \in Int
  PROVE  StartsAt(b * c, s, 0, b, c)
  <1> DEFINE u == b * c
  <1>1. u \in Int /\ s * 0 = 0
    OBVIOUS
  <1> HIDE DEF u
  <1>2. u = s * 0 + u
    BY <1>1
  <1> QED BY <1>2 DEF StartsAt, At, u

LEMMA StartsAtZero ==
  ASSUME NEW s \in Int, NEW b \in Int
  PROVE  StartsAt(0, s, 0, b, 0)
  BY DEF StartsAt, At

LEMMA WiderIs ==
  ASSUME NEW texture, Sized(texture), NEW width \in Nat, width > texture.Width
  PROVE  Pictures!ExtendHorizontally(texture, width) =
           NewCopy(width, texture.Height, 0, (width - texture.Width) \div 2, texture, 0, 0, texture.Stride, texture.Height)
  <1> DEFINE off == (width - texture.Width) \div 2
             begin == Size(texture) * off
  <1>1. /\ Size(texture) \in Nat /\ texture.Height \in Nat /\ texture.Stride \in Int /\ texture.Width \in Nat
        /\ ~Pictures!IsEmpty(texture) /\ ~(width <= texture.Width)
    BY SizedIsValid DEF Sized
  <1>2. RowLength(texture, width) \in Int /\ off \in Int
    BY <1>1 DEF RowLength
  <1>3. StartsAt(begin, RowLength(texture, width), 0, Size(texture), off)
    <2> HIDE DEF off
    <2> QED BY <1>1, <1>2, StartsAtColumn
  <1>4. StartsAt(0, texture.Stride, 0, Size(texture), 0)
    <2> HIDE DEF off
    <2> QED BY <1>1, <1>2, StartsAtZero
  <1>5. NewPicture(width, texture.Height, texture).Stride = RowLength(texture, width)
    BY <1>1, NewPictureIs
  <1> HIDE DEF begin, off
  <1>6. CopiedInto(NewPicture(width, texture.Height, texture), begin, RowLength(texture, width), texture, 0, texture.Stride, texture.Height)
          = NewCopy(width, texture.Height, 0, off, texture, 0, 0, texture.Stride, texture.Height)
    BY <1>1, <1>3, <1>4, NewCopyIs
  <1> QED BY <1>1, <1>5, <1>6 DEF Pictures!ExtendHorizontally, NewPicture, CopiedInto, Size, begin, off

LEMMA IsTightStride ==
  ASSUME NEW texture, IsTight(texture)
  PROVE  texture.Stride = RowLength(texture, texture.Width)
  BY DEF IsTight

LEMMA HigherIs ==
  ASSUME NEW texture, Sized(texture), IsTight(texture), NEW height \in Nat, height > texture.Height
  PROVE  Pictures!ExtendVertically(texture, height) =
           NewCopy(texture.Width, height, (height - texture.Height) \div 2, 0, texture, 0, 0, texture.Stride, texture.Height)
  <1> DEFINE off == (height - texture.Height) \div 2
             begin == texture.Stride * off
  <1>1. /\ Size(texture) \in Nat /\ texture.Height \in Nat /\ texture.Stride \in Int /\ texture.Width \in Nat
        /\ ~Pictures!IsEmpty(texture) /\ ~(height <= texture.Height)
    BY SizedIsValid DEF Sized
  <1>2. RowLength(texture, texture.Width) \in Int /\ off \in Int
    BY <1>1 DEF RowLength
  <1>3. StartsAt(begin, RowLength(texture, texture.Width), off, Size(texture), 0)
    <2>1. Size(texture) \in Int /\ texture.Stride \in Int /\ off \in Int
      BY <1>1, <1>2
    <2> HIDE DEF off
    <2>2. StartsAt(texture.Stride * off, texture.Stride, off, Size(texture), 0)
      BY <2>1, StartsAtRow, Zenon
    <2>3. RowLength(texture, texture.Width) = texture.Stride
      BY IsTightStride
    <2> QED BY <2>2, <2>3
  <1>4. StartsAt(0, texture.Stride, 0, Size(texture), 0)
    <2> HIDE DEF off
    <2> QED BY <1>1, <1>2, StartsAtZero
  <1>5. NewPicture(texture.Width, height, texture).Stride = RowLength(texture, texture.Width)
    BY <1>1, NewPictureIs
  <1> HIDE DEF begin, off
  <1>6. CopiedInto(NewPicture(texture.Width, height, texture), begin, RowLength(texture, texture.Width), texture, 0, texture.Stride, texture.Height)
          = NewCopy(texture.Width, height, off, 0, texture, 0, 0, texture.Stride, texture.Height)
    BY <1>1, <1>3, <1>4, NewCopyIs
  <1> QED BY <1>1, <1>5, <1>6 DEF Pictures!ExtendVertically, NewPicture, CopiedInto, Size, begin, off

LEMMA NarrowerIs ==
  ASSUME NEW texture, Sized(texture), NEW width \in Nat, width < texture.Width
  PROVE  Pictures!TruncateHorizontally(texture, width) =
           NewCopy(width, texture.Height, 0, 0, texture, (texture.Width - width) \div 2, 0, RowLength(texture, width), texture.Height)
  <1> DEFINE off == (texture.Width - width) \div 2
             begin == Size(texture) * off
  <1>1. /\ Size(texture) \in Nat /\ texture.Height \in Nat /\ texture.Stride \in Int /\ texture.Width \in Nat
        /\ ~Pictures!IsEmpty(texture) /\ ~(width >= texture.Width)
    BY SizedIsValid DEF Sized
  <1>2. RowLength(texture, width) \in Int /\ off \in Int
    BY <1>1 DEF RowLength
  <1>3. StartsAt(0, RowLength(texture, width), 0, Size(texture), 0)
    <2> HIDE DEF off
    <2> QED BY <1>1, <1>2, StartsAtZero
  <1>4. StartsAt(begin, texture.Stride, 0, Size(texture), off)
    <2>1. Size(texture) \in Int /\ texture.Stride \in Int /\ off \in Int
      BY <1>1, <1>2
    <2> HIDE DEF off
    <2> QED BY <2>1, StartsAtColumn, Zenon
  <1>5. NewPicture(width, texture.Height, texture).Stride = RowLength(texture, width)
    BY <1>1, NewPictureIs
  <1> HIDE DEF begin, off
  <1>6. CopiedInto(NewPicture(width, texture.Height, texture), 0, RowLength(texture, width), texture, begin, RowLength(texture, width), texture.Height)
          = NewCopy(width, texture.Height, 0, 0, texture, off, 0, RowLength(texture, width), texture.Height)
    BY <1>1, <1>3, <1>4, NewCopyIs
  <1> QED BY <1>1, <1>5, <1>6 DEF Pictures!TruncateHorizontally, NewPicture, CopiedInto, Size, begin, off

LEMMA LowerIs ==
  ASSUME NEW texture, Sized(texture), NEW height \in Nat, height < texture.Height
  PROVE  Pictures!TruncateVertically(texture, height) =
           NewCopy(texture.Width, height, 0, 0, texture, 0, (texture.Height - height) \div 2, texture.Stride, height)
  <1> DEFINE off == (texture.Height - height) \div 2
             begin == texture.Stride * off
  <1>1. /\ Size(texture) \in Nat /\ texture.Height \in Nat /\ texture.Stride \in Int /\ texture.Width \in Nat
        /\ ~Pictures!IsEmpty(texture) /\ ~(height >= texture.Height)
    BY SizedIsValid DEF Sized
  <1>2. RowLength(texture, texture.Width) \in Int /\ off \in Int
    BY <1>1 DEF RowLength
  <1>3. StartsAt(0, RowLength(texture, texture.Width), 0, Size(texture), 0)
    <2> HIDE DEF off
    <2> QED BY <1>1, <1>2, StartsAtZero
  <1>4. StartsAt(begin, texture.Stride, off, Size(texture), 0)
    <2>1. Size(texture) \in Int /\ texture.Stride \in Int /\ off \in Int
      BY <1>1, <1>2
    <2> HIDE DEF off
    <2> QED BY <2>1, StartsAtRow, Zenon
  <1>5. NewPicture(texture.Width, height, texture).Stride = RowLength(texture, texture.Width)
    BY <1>1, NewPictureIs
  <1> HIDE DEF begin, off
  <1>6. CopiedInto(NewPicture(texture.Width, height, texture), 0, RowLength(texture, texture.Width), texture, begin, texture.Stride, height)
          = NewCopy(texture.Width, height, 0, 0, texture, 0, off, texture.Stride, height)
    BY <1>1, <1>3, <1>4, NewCopyIs
  <1> QED BY <1>1, <1>5, <1>6 DEF Pictures!TruncateVertically, NewPicture, CopiedInto, Size, begin, off

(* What a picture made of another one is like.                                 *)
Remade(result, texture, w, h) ==
  /\ Sized(result) /\ IsTight(result) /\ result.Width = w /\ result.Height = h
  /\ result.Format = texture.Format /\ Size(result) = Size(texture) /\ result.Stride = RowLength(texture, w)

ShowsAt(result, texture, c, sx, r, sy) == Pictures!Shows(result, texture, c - sx, r - sy)

(* Such a copy shows the picture, and can be used like it.                     *)
LEMMA NewCopyShows ==
  ASSUME NEW texture, Sized(texture), NEW w \in Nat \ {0}, NEW h \in Nat \ {0},
         NEW r, NEW c, NEW n, NEW m, NEW sx, NEW sy, NEW count,
         Fits(Size(texture), RowLength(texture, w), w, h, texture.Stride, texture.Height, r, c, n, m, sx, sy, count),
         Aligned(w, c, n, sx, texture.Width), Aligned(h, r, m, sy, texture.Height)
  PROVE  /\ ShowsAt(NewCopy(w, h, r, c, texture, sx, sy, count, m), texture, c, sx, r, sy)
         /\ Remade(NewCopy(w, h, r, c, texture, sx, sy, count, m), texture, w, h)
  <1> DEFINE result == NewCopy(w, h, r, c, texture, sx, sy, count, m)
             s == RowLength(texture, w)
  <1>1. AllZero(s, h, Zeros(s, h))
    BY ZerosAreZero DEF Zeros
  <1>2. Pictures!Shows(result, texture, c - sx, r - sy) /\ Sized(result)
    <2> HIDE DEF s
    <2>1. Fits(Size(texture), s, w, h, texture.Stride, texture.Height, r, c, n, m, sx, sy, count)
      BY DEF s
    <2>2. result = CopyOf(w, h, s, texture.Format, Zeros(s, h), r, c, texture, sx, sy, count, m)
      BY DEF NewCopy, s
    <2> HIDE DEF result
    <2> QED BY <1>1, <2>1, <2>2, CopyShows, CopySized
  <1>3. result.Width = w /\ result.Height = h /\ result.Format = texture.Format /\ result.Stride = s
    BY DEF NewCopy, CopyOf, Pictures!Texture
  <1>4. Size(result) = Size(texture)
    BY <1>3 DEF Size, Pictures!BytesPerPixel
  <1> HIDE DEF result
  <1>5. IsTight(result)
    BY <1>3, <1>4 DEF IsTight, RowLength
  <1> QED BY <1>2, <1>3, <1>4, <1>5 DEF ShowsAt, Remade, result, s

LEMMA FitsIf ==
  ASSUME NEW b \in Nat \ {0}, NEW s \in Nat, NEW w \in Nat, NEW h \in Nat, NEW fs \in Nat, NEW fw \in Nat, NEW fh \in Nat,
         NEW r \in Nat, NEW c \in Nat, NEW n \in Nat, NEW m \in Nat, NEW sx \in Nat, NEW sy \in Nat,
         c + n <= w, r + m <= h, sx + n <= fw, sy + m <= fh, b * w <= s, b * fw <= fs
  PROVE  Fits(b, s, w, h, fs, fh, r, c, n, m, sx, sy, b * n)
  <1>1. b * c + b * n <= s
    <2>1. b * (c + n) <= b * w /\ b * (c + n) = b * c + b * n
      BY Monotone
    <2> QED BY <2>1
  <1>2. b * (sx + n) <= fs
    <2>1. b * (sx + n) <= b * fw
      BY Monotone
    <2> QED BY <2>1
  <1>3. b * n \in Nat
    OBVIOUS
  <1> DEFINE count == b * n
  <1>4. count \in Nat /\ b * n <= count /\ count = b * n /\ b * c + count <= s
    BY <1>1, <1>3
  <1>5. ColumnsFit(b, w, c, n, count)
    BY <1>4 DEF ColumnsFit
  <1> HIDE DEF count
  <1>6. Fits(b, s, w, h, fs, fh, r, c, n, m, sx, sy, count)
    BY <1>2, <1>4, <1>5 DEF Fits
  <1> QED BY <1>6 DEF count

LEMMA AlignedWhole ==
  ASSUME NEW w \in Nat, NEW c \in Nat, NEW n \in Nat
  PROVE  Aligned(w, c, n, 0, n)
  BY DEF Aligned

LEMMA AlignedPart ==
  ASSUME NEW n \in Nat, NEW sx \in Nat, NEW width \in Nat, sx + n <= width
  PROVE  Aligned(n, 0, n, sx, width)
  BY DEF Aligned, Below

LEMMA PartShows ==
  ASSUME NEW texture, Sized(texture), NEW n \in Nat \ {0}, NEW m \in Nat \ {0}, NEW sx \in Nat, NEW sy \in Nat,
         sx + n <= texture.Width, sy + m <= texture.Height
  PROVE  LET result == NewCopy(n, m, 0, 0, texture, sx, sy, RowLength(texture, n), m)
         IN ShowsAt(result, texture, 0, sx, 0, sy) /\ Remade(result, texture, n, m)
  <1>1. /\ Size(texture) \in Nat \ {0} /\ texture.Width \in Nat /\ texture.Height \in Nat /\ texture.Stride \in Nat
        /\ Size(texture) * texture.Width <= texture.Stride
    BY DEF Sized
  <1> DEFINE b == Size(texture)
             s == RowLength(texture, n)
  <1>2. s \in Nat /\ b * n <= s /\ s = b * n
    BY <1>1 DEF RowLength
  <1>3. 0 + n <= n /\ 0 + m <= m
    OBVIOUS
  <1>4. Fits(b, s, n, m, texture.Stride, texture.Height, 0, 0, n, m, sx, sy, s)
    <2> HIDE DEF b, s
    <2>1. Fits(b, s, n, m, texture.Stride, texture.Height, 0, 0, n, m, sx, sy, b * n)
      BY <1>1, <1>2, <1>3, FitsIf DEF b
    <2> QED BY <1>2, <2>1
  <1>5. Aligned(n, 0, n, sx, texture.Width) /\ Aligned(m, 0, m, sy, texture.Height)
    BY <1>1, AlignedPart
  <1> QED BY <1>4, <1>5, NewCopyShows

LEMMA WholeShows ==
  ASSUME NEW texture, Sized(texture), IsTight(texture), NEW w \in Nat \ {0}, NEW h \in Nat \ {0}, NEW c \in Nat, NEW r \in Nat,
         c + texture.Width <= w, r + texture.Height <= h
  PROVE  LET result == NewCopy(w, h, r, c, texture, 0, 0, texture.Stride, texture.Height)
         IN ShowsAt(result, texture, c, 0, r, 0) /\ Remade(result, texture, w, h)
  <1>1. /\ Size(texture) \in Nat \ {0} /\ texture.Width \in Nat /\ texture.Height \in Nat /\ texture.Stride \in Nat
        /\ Size(texture) * texture.Width <= texture.Stride /\ texture.Stride = Size(texture) * texture.Width
    BY DEF Sized, IsTight, RowLength
  <1> DEFINE b == Size(texture)
             s == RowLength(texture, w)
  <1>2. s \in Nat /\ b * w <= s
    BY <1>1 DEF RowLength
  <1>3. 0 + texture.Width <= texture.Width /\ 0 + texture.Height <= texture.Height
    BY <1>1
  <1>4. Fits(b, s, w, h, texture.Stride, texture.Height, r, c, texture.Width, texture.Height, 0, 0, texture.Stride)
    <2> HIDE DEF b, s
    <2>1. Fits(b, s, w, h, texture.Stride, texture.Height, r, c, texture.Width, texture.Height, 0, 0, b * texture.Width)
      BY <1>1, <1>2, <1>3, FitsIf DEF b
    <2> QED BY <1>1, <2>1 DEF b
  <1>5. Aligned(w, c, texture.Width, 0, texture.Width) /\ Aligned(h, r, texture.Height, 0, texture.Height)
    BY <1>1, AlignedWhole
  <1> QED BY <1>4, <1>5, NewCopyShows

(* Every byte of a picture is in a row, and every byte of a row of one without *)
(* padding is in a pixel.                                                      *)
LEMMA Divided ==
  ASSUME NEW i \in Nat, NEW s \in Nat \ {0}
  PROVE  i \div s \in Nat /\ i % s \in Below(s) /\ i = s * (i \div s) + (i % s)
  BY DEF Below

LEMMA PlaceOf ==
  ASSUME NEW s \in Nat \ {0}, NEW h \in Nat, NEW i \in Below(s * h)
  PROVE  i \div s \in Below(h) /\ i % s \in Below(s) /\ i = At(s, i \div s, i % s)
  <1> DEFINE q == i \div s
             a == i % s
  <1>1. i \in Nat /\ i < s * h /\ s * h \in Nat
    BY DEF Below
  <1>2. q \in Nat /\ a \in Below(s) /\ i = s * q + a
    BY <1>1, Divided
  <1> HIDE DEF q, a
  <1>3. ASSUME h <= q PROVE FALSE
    <2>1. s * h <= s * q
      BY <1>2, <1>3, Monotone
    <2>2. a >= 0 /\ a \in Int /\ s * q \in Int
      BY <1>2 DEF Below
    <2> DEFINE u == s * q
               v == s * h
    <2>3. u + a < v /\ v <= u /\ u \in Int /\ v \in Int
      BY <1>1, <1>2, <2>1, <2>2
    <2> HIDE DEF u, v
    <2> QED BY <2>2, <2>3
  <1>4. q \in Below(h)
    BY <1>2, <1>3 DEF Below
  <1> QED BY <1>2, <1>4 DEF q, a, At

(* Pictures without padding are the same if their pixels are.                  *)
IsWhole(texture) ==
  /\ texture = Pictures!Texture(texture.Width, texture.Height, texture.Stride, texture.Format, texture.Buffer)
  /\ texture.Buffer = [i \in DOMAIN texture.Buffer |-> texture.Buffer[i]]

LEMMA NewCopyIsWhole ==
  ASSUME NEW w, NEW h, NEW r, NEW c, NEW texture, NEW sx, NEW sy, NEW count, NEW m
  PROVE  IsWhole(NewCopy(w, h, r, c, texture, sx, sy, count, m))
  BY DEF IsWhole, NewCopy, CopyOf, Copied, Pictures!Texture, Pictures!CopyRows

LEMMA ByteShown ==
  ASSUME NEW texture, Sized(texture), IsTight(texture), NEW i \in Below(texture.Stride * texture.Height)
  PROVE  \E x \in Below(texture.Width), y \in Below(texture.Height), k \in Below(Size(texture)) :
           i = At(texture.Stride, y, At(Size(texture), x, k))
  <1> DEFINE b == Size(texture)
             s == texture.Stride
             w == texture.Width
             h == texture.Height
  <1>1. b \in Nat \ {0} /\ s \in Nat \ {0} /\ w \in Nat /\ h \in Nat /\ s = b * w
    BY DEF Sized, IsTight, RowLength
  <1> HIDE DEF b, s, w, h
  <1>2. i \in Below(s * h)
    BY DEF s, h
  <1> DEFINE y == i \div s
             a == i % s
             x == a \div b
             k == a % b
  <1>3. y \in Below(h) /\ a \in Below(s) /\ i = At(s, y, a)
    BY <1>1, <1>2, PlaceOf
  <1> HIDE DEF y, a
  <1>4. a \in Below(b * w)
    BY <1>1, <1>3
  <1>5. x \in Below(w) /\ k \in Below(b) /\ a = At(b, x, k)
    BY <1>1, <1>4, PlaceOf
  <1> HIDE DEF x, k
  <1> QED BY <1>3, <1>5 DEF b, s, w, h

LEMMA SamePixels ==
  ASSUME NEW one, NEW other, Sized(one), Sized(other), IsTight(one), IsTight(other), IsWhole(one), IsWhole(other),
         one.Width = other.Width, one.Height = other.Height, one.Format = other.Format,
         \A x \in Below(one.Width), y \in Below(one.Height) : Pictures!Pixel(one, x, y) = Pictures!Pixel(other, x, y)
  PROVE  one = other
  <1> DEFINE b == Size(one)
             s == one.Stride
  <1>1. b \in Nat /\ s \in Nat /\ Size(other) = b /\ other.Stride = s
    BY DEF Sized, IsTight, RowLength, Size, Pictures!BytesPerPixel
  <1>2. DOMAIN one.Buffer = Below(s * one.Height) /\ DOMAIN other.Buffer = Below(s * one.Height)
    BY <1>1 DEF Sized
  <1>3. ASSUME NEW i \in Below(s * one.Height) PROVE one.Buffer[i] = other.Buffer[i]
    <2>1. PICK x \in Below(one.Width), y \in Below(one.Height), k \in Below(b) : i = At(s, y, At(b, x, k))
      BY ByteShown
    <2>2. x \in Int /\ y \in Int
      BY DEF Below
    <2> HIDE DEF b, s
    <2>3. /\ Pictures!Pixel(one, x, y) = [l \in Below(b) |-> one.Buffer[At(s, y, At(b, x, l))]]
          /\ Pictures!Pixel(other, x, y) = [l \in Below(b) |-> other.Buffer[At(s, y, At(b, x, l))]]
      <3>1. Size(one) = b /\ one.Stride = s
        BY DEF b, s
      <3> QED BY <1>1, <2>2, <3>1, PixelIs
    <2> QED BY <2>1, <2>3
  <1>4. one.Buffer = other.Buffer
    <2> HIDE DEF s
    <2> QED BY <1>2, <1>3 DEF IsWhole
  <1> QED BY <1>1, <1>4 DEF IsWhole

LEMMA Half ==
  ASSUME NEW p \in Nat, NEW q \in Nat, p < q
  PROVE  (q - p) \div 2 \in Nat /\ (q - p) \div 2 + p <= q /\ 0 + p <= p
  OBVIOUS

(* What is shown at a place of a picture that shows another one.               *)
LEMMA ShownPixel ==
  ASSUME NEW result, NEW texture, NEW c \in Int, NEW sx \in Int, NEW r \in Int, NEW sy \in Int,
         ShowsAt(result, texture, c, sx, r, sy), NEW x \in Below(result.Width), NEW y \in Below(result.Height),
         NEW p, NEW q, p = x - (c - sx), q = y - (r - sy), p \in Below(texture.Width), q \in Below(texture.Height)
  PROVE  Pictures!Pixel(result, x, y) = Pictures!Pixel(texture, p, q)
  BY DEF ShowsAt, Pictures!Shows, Pictures!Inside, Pictures!Below, Below

LEMMA WiderShows ==
  ASSUME NEW texture, Sized(texture), IsTight(texture), IsWhole(texture), NEW width \in Nat, width > texture.Width
  PROVE  LET c == (width - texture.Width) \div 2
             result == Pictures!ExtendHorizontally(texture, width)
         IN /\ ShowsAt(result, texture, c, 0, 0, 0) /\ Remade(result, texture, width, texture.Height) /\ IsWhole(result)
            /\ Pictures!TruncateHorizontally(result, texture.Width) = texture
  <1> DEFINE c == (width - texture.Width) \div 2
             result == Pictures!ExtendHorizontally(texture, width)
             back == Pictures!TruncateHorizontally(result, texture.Width)
  <1>1. texture.Width \in Nat \ {0} /\ texture.Height \in Nat \ {0} /\ width \in Nat \ {0}
    BY DEF Sized
  <1>2. c \in Nat /\ c + texture.Width <= width /\ 0 + texture.Height <= texture.Height
    BY <1>1, Half
  <1> HIDE DEF c
  <1>3. ShowsAt(result, texture, c, 0, 0, 0) /\ Remade(result, texture, width, texture.Height) /\ IsWhole(result)
    <2>1. result = NewCopy(width, texture.Height, 0, c, texture, 0, 0, texture.Stride, texture.Height)
      BY WiderIs DEF c
    <2> QED BY <1>1, <1>2, <2>1, WholeShows, NewCopyIsWhole
  <1> HIDE DEF result
  <1>4. Sized(result) /\ result.Width = width /\ result.Height = texture.Height /\ result.Format = texture.Format
    BY <1>3 DEF Remade
  <1>5. ShowsAt(back, result, 0, c, 0, 0) /\ Remade(back, result, texture.Width, texture.Height) /\ IsWhole(back)
    <2>1. back = NewCopy(texture.Width, texture.Height, 0, 0, result, c, 0, RowLength(result, texture.Width), texture.Height)
      BY <1>1, <1>4, NarrowerIs DEF c
    <2>2. c + texture.Width <= result.Width /\ 0 + texture.Height <= result.Height
      BY <1>2, <1>4
    <2> QED BY <1>1, <1>2, <1>4, <2>1, <2>2, PartShows, NewCopyIsWhole
  <1> HIDE DEF back
  <1>6. ASSUME NEW x \in Below(back.Width), NEW y \in Below(back.Height)
        PROVE  Pictures!Pixel(back, x, y) = Pictures!Pixel(texture, x, y)
    <2>1. x \in Below(texture.Width) /\ y \in Below(texture.Height) /\ x \in Int /\ y \in Int
      BY <1>5 DEF Remade, Below
    <2>2. x + c \in Below(result.Width) /\ y \in Below(result.Height)
      BY <1>1, <1>2, <1>4, <2>1 DEF Below
    <2>3. x + c = x - (0 - c) /\ y = y - (0 - 0) /\ x = (x + c) - (c - 0)
      BY <1>2, <2>1
    <2>4. Pictures!Pixel(back, x, y) = Pictures!Pixel(result, x + c, y)
      BY <1>2, <1>5, <2>2, <2>3, ShownPixel
    <2>5. Pictures!Pixel(result, x + c, y) = Pictures!Pixel(texture, x, y)
      BY <1>2, <1>3, <2>1, <2>2, <2>3, ShownPixel
    <2> QED BY <2>4, <2>5
  <1>7. /\ Sized(back) /\ IsTight(back) /\ back.Width = texture.Width /\ back.Height = texture.Height
        /\ back.Format = texture.Format
    BY <1>4, <1>5 DEF Remade
  <1>8. back = texture
    BY <1>5, <1>6, <1>7, SamePixels
  <1> QED BY <1>3, <1>8 DEF c, result, back

LEMMA HigherShows ==
  ASSUME NEW texture, Sized(texture), IsTight(texture), IsWhole(texture), NEW height \in Nat, height > texture.Height
  PROVE  LET r == (height - texture.Height) \div 2
             result == Pictures!ExtendVertically(texture, height)
         IN /\ ShowsAt(result, texture, 0, 0, r, 0) /\ Remade(result, texture, texture.Width, height) /\ IsWhole(result)
            /\ Pictures!TruncateVertically(result, texture.Height) = texture
  <1> DEFINE r == (height - texture.Height) \div 2
             result == Pictures!ExtendVertically(texture, height)
             back == Pictures!TruncateVertically(result, texture.Height)
  <1>1. texture.Width \in Nat \ {0} /\ texture.Height \in Nat \ {0} /\ height \in Nat \ {0}
    BY DEF Sized
  <1>2. r \in Nat /\ r + texture.Height <= height /\ 0 + texture.Width <= texture.Width
    BY <1>1, Half
  <1> HIDE DEF r
  <1>3. ShowsAt(result, texture, 0, 0, r, 0) /\ Remade(result, texture, texture.Width, height) /\ IsWhole(result)
    <2>1. result = NewCopy(texture.Width, height, r, 0, texture, 0, 0, texture.Stride, texture.Height)
      BY HigherIs DEF r
    <2> QED BY <1>1, <1>2, <2>1, WholeShows, NewCopyIsWhole
  <1> HIDE DEF result
  <1>4. /\ Sized(result) /\ result.Width = texture.Width /\ result.Height = height /\ result.Format = texture.Format
        /\ result.Stride = RowLength(result, texture.Width)
    BY <1>3 DEF Remade, IsTight
  <1>5. ShowsAt(back, result, 0, 0, 0, r) /\ Remade(back, result, texture.Width, texture.Height) /\ IsWhole(back)
    <2>1. back = NewCopy(texture.Width, texture.Height, 0, 0, result, 0, r, RowLength(result, texture.Width), texture.Height)
      BY <1>1, <1>4, LowerIs DEF r
    <2>2. 0 + texture.Width <= result.Width /\ r + texture.Height <= result.Height
      BY <1>2, <1>4
    <2> QED BY <1>1, <1>2, <1>4, <2>1, <2>2, PartShows, NewCopyIsWhole
  <1> HIDE DEF back
  <1>6. ASSUME NEW x \in Below(back.Width), NEW y \in Below(back.Height)
        PROVE  Pictures!Pixel(back, x, y) = Pictures!Pixel(texture, x, y)
    <2>1. x \in Below(texture.Width) /\ y \in Below(texture.Height) /\ x \in Int /\ y \in Int
      BY <1>5 DEF Remade, Below
    <2>2. x \in Below(result.Width) /\ y + r \in Below(result.Height)
      BY <1>1, <1>2, <1>4, <2>1 DEF Below
    <2>3. y + r = y - (0 - r) /\ x = x - (0 - 0) /\ y = (y + r) - (r - 0)
      BY <1>2, <2>1
    <2>4. Pictures!Pixel(back, x, y) = Pictures!Pixel(result, x, y + r)
      BY <1>2, <1>5, <2>2, <2>3, ShownPixel
    <2>5. Pictures!Pixel(result, x, y + r) = Pictures!Pixel(texture, x, y)
      BY <1>2, <1>3, <2>1, <2>2, <2>3, ShownPixel
    <2> QED BY <2>4, <2>5
  <1>7. /\ Sized(back) /\ IsTight(back) /\ back.Width = texture.Width /\ back.Height = texture.Height
        /\ back.Format = texture.Format
    BY <1>4, <1>5 DEF Remade
  <1>8. back = texture
    BY <1>5, <1>6, <1>7, SamePixels
  <1> QED BY <1>3, <1>8 DEF r, result, back

LEMMA Unsigned == -0 = 0
  <1>1. \A n \in Nat : 0 - n = -n
    OBVIOUS
  <1>2. 0 - 0 = -0
    BY <1>1, Zenon
  <1>3. 0 - 0 = 0
    OBVIOUS
  <1> QED BY <1>2, <1>3

LEMMA NarrowerShows ==
  ASSUME NEW texture, Sized(texture), NEW width \in Nat \ {0}, width <= texture.Width
  PROVE  Pictures!Shows(Pictures!TruncateHorizontally(texture, width), texture, -((texture.Width - width) \div 2), 0)
  <1> DEFINE c == (texture.Width - width) \div 2
             result == Pictures!TruncateHorizontally(texture, width)
  <1>1. texture.Width \in Nat \ {0} /\ texture.Height \in Nat \ {0} /\ ~Pictures!IsEmpty(texture)
    BY SizedIsValid DEF Sized
  <1>2. CASE width < texture.Width
    <2>1. c \in Nat /\ c + width <= texture.Width /\ 0 + texture.Height <= texture.Height
      BY <1>1, <1>2, Half
    <2>2. result = NewCopy(width, texture.Height, 0, 0, texture, c, 0, RowLength(texture, width), texture.Height)
      BY <1>1, <1>2, NarrowerIs
    <2> HIDE DEF c, result
    <2>3. ShowsAt(result, texture, 0, c, 0, 0)
      BY <1>1, <2>1, <2>2, PartShows
    <2>4. 0 - c = -c /\ 0 - 0 = 0
      BY <2>1
    <2> QED BY <2>3, <2>4 DEF ShowsAt, c, result
  <1>3. CASE width = texture.Width
    <2>1. c = 0
      <3>1. texture.Width - width = 0
        BY <1>1, <1>3
      <3> QED BY <3>1
    <2>2. result = texture
      BY <1>1, <1>3 DEF Pictures!TruncateHorizontally
    <2>3. Pictures!Shows(texture, texture, 0, 0)
      BY ShowsItself
    <2> HIDE DEF c, result
    <2>4. Pictures!Shows(result, texture, -c, 0)
      BY <2>1, <2>2, <2>3, Unsigned
    <2> QED BY <2>4 DEF c, result
  <1> QED BY <1>1, <1>2, <1>3

LEMMA LowerShows ==
  ASSUME NEW texture, Sized(texture), IsTight(texture), NEW height \in Nat \ {0}, height <= texture.Height
  PROVE  Pictures!Shows(Pictures!TruncateVertically(texture, height), texture, 0, -((texture.Height - height) \div 2))
  <1> DEFINE r == (texture.Height - height) \div 2
             result == Pictures!TruncateVertically(texture, height)
  <1>1. texture.Width \in Nat \ {0} /\ texture.Height \in Nat \ {0} /\ ~Pictures!IsEmpty(texture)
    BY SizedIsValid DEF Sized
  <1>2. CASE height < texture.Height
    <2>1. r \in Nat /\ r + height <= texture.Height /\ 0 + texture.Width <= texture.Width
      BY <1>1, <1>2, Half
    <2>2. result = NewCopy(texture.Width, height, 0, 0, texture, 0, r, RowLength(texture, texture.Width), height)
      BY <1>1, <1>2, LowerIs DEF IsTight
    <2> HIDE DEF r, result
    <2>3. ShowsAt(result, texture, 0, 0, 0, r)
      BY <1>1, <2>1, <2>2, PartShows
    <2>4. 0 - r = -r /\ 0 - 0 = 0
      BY <2>1
    <2> QED BY <2>3, <2>4 DEF ShowsAt, r, result
  <1>3. CASE height = texture.Height
    <2>1. r = 0
      <3>1. texture.Height - height = 0
        BY <1>1, <1>3
      <3> QED BY <3>1
    <2>2. result = texture
      BY <1>1, <1>3 DEF Pictures!TruncateVertically
    <2>3. Pictures!Shows(texture, texture, 0, 0)
      BY ShowsItself
    <2> HIDE DEF r, result
    <2>4. Pictures!Shows(result, texture, 0, -r)
      BY <2>1, <2>2, <2>3, Unsigned
    <2> QED BY <2>4 DEF r, result
  <1> QED BY <1>1, <1>2, <1>3

(* Extended and truncated pictures stay in the middle.                         *)
LEMMA PictureIsWhole ==
  ASSUME NEW texture, IsPicture(texture)
  PROVE  IsWhole(texture)
  BY DEF IsPicture, IsWhole

THEOREM InTheMiddle ==
  ASSUME NEW texture, IsPicture(texture), NEW width \in Nat \ {0}, NEW height \in Nat \ {0}
  PROVE  Pictures!StaysInTheMiddle(texture, width, height)
  <1>1. Sized(texture) /\ IsWhole(texture) /\ (Pictures!Tight(texture) <=> IsTight(texture))
    BY PictureSized, PictureIsWhole, TightIs
  <1>2. texture.Width \in Nat \ {0} /\ texture.Height \in Nat \ {0} /\ ~Pictures!IsEmpty(texture)
    BY <1>1, SizedIsValid DEF Sized
  <1>3. ASSUME IsTight(texture), width > texture.Width
        PROVE  /\ Pictures!Shows(Pictures!ExtendHorizontally(texture, width), texture, (width - texture.Width) \div 2, 0)
               /\ Pictures!TruncateHorizontally(Pictures!ExtendHorizontally(texture, width), texture.Width) = texture
    <2> DEFINE c == (width - texture.Width) \div 2
               result == Pictures!ExtendHorizontally(texture, width)
    <2>1. /\ ShowsAt(result, texture, c, 0, 0, 0)
          /\ Pictures!TruncateHorizontally(result, texture.Width) = texture
      BY <1>1, <1>3, WiderShows
    <2>2. c \in Int /\ c - 0 = c /\ 0 - 0 = 0
      BY <1>2
    <2> HIDE DEF c, result
    <2>3. Pictures!Shows(result, texture, c, 0)
      BY <2>1, <2>2 DEF ShowsAt
    <2> QED BY <2>1, <2>3 DEF c, result
  <1>4. ASSUME IsTight(texture), height > texture.Height
        PROVE  /\ Pictures!Shows(Pictures!ExtendVertically(texture, height), texture, 0, (height - texture.Height) \div 2)
               /\ Pictures!TruncateVertically(Pictures!ExtendVertically(texture, height), texture.Height) = texture
    <2> DEFINE r == (height - texture.Height) \div 2
               result == Pictures!ExtendVertically(texture, height)
    <2>1. /\ ShowsAt(result, texture, 0, 0, r, 0)
          /\ Pictures!TruncateVertically(result, texture.Height) = texture
      BY <1>1, <1>4, HigherShows
    <2>2. r \in Int /\ r - 0 = r /\ 0 - 0 = 0
      BY <1>2
    <2> HIDE DEF r, result
    <2>3. Pictures!Shows(result, texture, 0, r)
      BY <2>1, <2>2 DEF ShowsAt
    <2> QED BY <2>1, <2>3 DEF r, result
  <1>5. ASSUME ~(width > texture.Width)
        PROVE  Pictures!TruncateHorizontally(Pictures!ExtendHorizontally(texture, width), texture.Width) = texture
    BY <1>2, <1>5 DEF Pictures!ExtendHorizontally, Pictures!TruncateHorizontally
  <1>6. ASSUME ~(height > texture.Height)
        PROVE  Pictures!TruncateVertically(Pictures!ExtendVertically(texture, height), texture.Height) = texture
    BY <1>2, <1>6 DEF Pictures!ExtendVertically, Pictures!TruncateVertically
  <1> QED BY <1>1, <1>3, <1>4, <1>5, <1>6, NarrowerShows, LowerShows DEF Pictures!StaysInTheMiddle

-----------------------------------------------------------------------------
(* A part of a picture is within its edges.                                    *)
Clipped(texture, rect) == Pictures!Rects!Clamp(rect, Pictures!Rects!SizeOf(texture.Width, texture.Height))
Across(clipped) == clipped.Right - clipped.Left
Down(clipped) == clipped.Bottom - clipped.Top

LEMMA ClampedInside ==
  ASSUME NEW n \in Int, NEW most \in Nat
  PROVE  Pictures!Rects!Clamped(n, most) \in Nat /\ Pictures!Rects!Clamped(n, most) <= most
  <1>1. Pictures!Rects!Clamped(n, most) = Rects!Clamped(n, most)
    BY DEF Pictures!Rects!Clamped, Rects!Clamped, Pictures!Rects!Min, Pictures!Rects!Max, Rects!Min, Rects!Max
  <1> QED BY <1>1, ClampsTo

LEMMA ClippedInside ==
  ASSUME NEW texture, Sized(texture), NEW rect \in IntRects, NEW cut, cut = Clipped(texture, rect), Pictures!Rects!Something(cut)
  PROVE  /\ cut.Left \in Nat /\ cut.Top \in Nat /\ Across(cut) \in Nat \ {0} /\ Down(cut) \in Nat \ {0}
         /\ cut.Left + Across(cut) <= texture.Width /\ cut.Top + Down(cut) <= texture.Height
         /\ cut = Pictures!Rects!RectOf(cut.Left, cut.Top, cut.Right, cut.Bottom)
         /\ cut.Right \in Nat /\ cut.Bottom \in Nat
  <1>1. texture.Width \in Nat /\ texture.Height \in Nat
    BY DEF Sized
  <1>2. rect.Left \in Int /\ rect.Top \in Int /\ rect.Right \in Int /\ rect.Bottom \in Int
    BY DEF IntRects
  <1>3. /\ cut.Left = Pictures!Rects!Clamped(rect.Left, texture.Width)
        /\ cut.Top = Pictures!Rects!Clamped(rect.Top, texture.Height)
        /\ cut.Right = Pictures!Rects!Clamped(rect.Right, texture.Width)
        /\ cut.Bottom = Pictures!Rects!Clamped(rect.Bottom, texture.Height)
        /\ cut = Pictures!Rects!RectOf(cut.Left, cut.Top, cut.Right, cut.Bottom)
    BY DEF Clipped, Pictures!Rects!Clamp, Pictures!Rects!RectOf, Pictures!Rects!SizeOf
  <1>4. /\ cut.Left \in Nat /\ cut.Top \in Nat /\ cut.Right \in Nat /\ cut.Bottom \in Nat
        /\ cut.Right <= texture.Width /\ cut.Bottom <= texture.Height
    BY <1>1, <1>2, <1>3, ClampedInside
  <1>5. cut.Left < cut.Right /\ cut.Top < cut.Bottom
    BY DEF Pictures!Rects!Something
  <1> QED BY <1>1, <1>3, <1>4, <1>5 DEF Across, Down

LEMMA PartIs ==
  ASSUME NEW texture, Sized(texture), NEW rect \in IntRects, Pictures!Rects!Something(Clipped(texture, rect))
  PROVE  LET clipped == Clipped(texture, rect)
         IN Pictures!GetTexture(texture, rect) =
              NewCopy(Across(clipped), Down(clipped), 0, 0, texture, clipped.Left, clipped.Top,
                      RowLength(texture, Across(clipped)), Down(clipped))
  <1> DEFINE clipped == Clipped(texture, rect)
             n == Across(clipped)
             m == Down(clipped)
             begin == texture.Stride * clipped.Top + clipped.Left * Size(texture)
  <1>1. /\ clipped.Left \in Nat /\ clipped.Top \in Nat /\ n \in Nat \ {0} /\ m \in Nat \ {0}
    BY ClippedInside
  <1>2. Pictures!Rects!Size(clipped).Width = n /\ Pictures!Rects!Size(clipped).Height = m
    BY DEF Pictures!Rects!Size, Pictures!Rects!SizeOf, Across, Down
  <1>3. Size(texture) \in Nat /\ texture.Stride \in Nat /\ ~Pictures!IsEmpty(texture) /\ texture.Width \in Nat /\ texture.Height \in Nat
    BY SizedIsValid DEF Sized
  <1>4. StartsAt(begin, texture.Stride, clipped.Top, Size(texture), clipped.Left)
    <2>1. clipped.Left * Size(texture) = Size(texture) * clipped.Left
      BY <1>1, <1>3
    <2> QED BY <2>1 DEF StartsAt, At
  <1>5. StartsAt(0, RowLength(texture, n), 0, Size(texture), 0)
    <2>1. RowLength(texture, n) \in Int
      BY <1>1, <1>3 DEF RowLength
    <2> HIDE DEF n
    <2> QED BY <1>3, <2>1, StartsAtZero
  <1>6. NewPicture(n, m, texture).Stride = RowLength(texture, n)
    <2> HIDE DEF n, m
    <2> QED BY <1>1, NewPictureIs
  <1> HIDE DEF n, m, begin
  <1>7. CopiedInto(NewPicture(n, m, texture), 0, RowLength(texture, n), texture, begin, RowLength(texture, n), m)
          = NewCopy(n, m, 0, 0, texture, clipped.Left, clipped.Top, RowLength(texture, n), m)
    <2> HIDE DEF clipped
    <2> QED BY <1>1, <1>4, <1>5, NewCopyIs
  <1>8. Pictures!GetTexture(texture, rect) =
          CopiedInto(NewPicture(n, m, texture), 0, NewPicture(n, m, texture).Stride, texture, begin,
                     NewPicture(n, m, texture).Stride, m)
    BY <1>2, <1>3 DEF Pictures!GetTexture, NewPicture, CopiedInto, begin, Clipped, Size
  <1> QED BY <1>6, <1>7, <1>8 DEF n, m

(* A picture put into another one: what fits is copied, and seen there.        *)
HasRoom(texture, piece, position) ==
  /\ position.X >= 0 /\ position.X + piece.Width <= texture.Width
  /\ position.Y >= 0 /\ position.Y + piece.Height <= texture.Height
BufferMerged(texture, piece, position) ==
  Copied(texture.Stride, texture.Buffer, position.Y, Size(texture) * position.X, piece.Buffer,
         At(piece.Stride, 0, Size(texture) * 0), piece.Stride, piece.Stride, piece.Height)

LEMMA MergeIs ==
  ASSUME NEW texture, Sized(texture), NEW piece, Sized(piece), NEW position \in [X : Int, Y : Int]
  PROVE  Pictures!MergeTexture(texture, piece, position) =
           IF HasRoom(texture, piece, position) THEN <<[texture EXCEPT !.Buffer = BufferMerged(texture, piece, position)]>>
           ELSE <<>>
  <1>1. /\ position.X \in Int /\ position.Y \in Int /\ Size(texture) \in Nat /\ texture.Stride \in Nat /\ piece.Stride \in Nat
        /\ piece.Width \in Nat /\ piece.Height \in Nat /\ texture.Width \in Nat /\ texture.Height \in Nat
    BY DEF Sized
  <1> DEFINE rect == Pictures!Rects!FromLeftTopSize(position, Pictures!Rects!SizeOf(piece.Width, piece.Height))
             whole == Pictures!Rects!FromSize(Pictures!Rects!SizeOf(texture.Width, texture.Height))
             begin == texture.Stride * rect.Top + rect.Left * Size(texture)
  <1>2. /\ rect.Left = position.X /\ rect.Top = position.Y
        /\ rect.Right = position.X + piece.Width /\ rect.Bottom = position.Y + piece.Height
        /\ whole.Left = 0 /\ whole.Top = 0 /\ whole.Right = texture.Width /\ whole.Bottom = texture.Height
    BY DEF Pictures!Rects!FromLeftTopSize, Pictures!Rects!SizeOf, Pictures!Rects!RectOf, Pictures!Rects!FromSize
  <1>3. Pictures!Rects!Contains(whole, rect) <=> HasRoom(texture, piece, position)
    <2> HIDE DEF rect, whole
    <2> QED BY <1>1, <1>2 DEF Pictures!Rects!Contains, HasRoom
  <1>4. StartsAt(begin, texture.Stride, position.Y, Size(texture), position.X)
    <2>1. position.X * Size(texture) = Size(texture) * position.X
      BY <1>1
    <2> HIDE DEF rect
    <2> QED BY <1>2, <2>1 DEF StartsAt, At
  <1>5. StartsAt(0, piece.Stride, 0, Size(texture), 0)
    BY <1>1, StartsAtZero
  <1>6. Pictures!CopyRows(texture.Buffer, begin, texture.Stride, piece.Buffer, 0, piece.Stride, piece.Stride, piece.Height)
          = BufferMerged(texture, piece, position)
    <2> HIDE DEF begin
    <2> QED BY <1>4, <1>5 DEF BufferMerged, Copied, StartsAt
  <1>7. Pictures!MergeTexture(texture, piece, position) =
          IF ~Pictures!Rects!Contains(whole, rect) THEN <<>>
          ELSE <<[texture EXCEPT !.Buffer =
                    Pictures!CopyRows(@, begin, texture.Stride, piece.Buffer, 0, piece.Stride, piece.Stride, piece.Height)]>>
    BY DEF Pictures!MergeTexture, Size
  <1> HIDE DEF rect, whole, begin
  <1> QED BY <1>3, <1>6, <1>7

LEMMA MergeShows ==
  ASSUME NEW texture, Sized(texture), IsWhole(texture), NEW piece, Sized(piece), IsTight(piece), Size(piece) = Size(texture),
         NEW position \in [X : Int, Y : Int], HasRoom(texture, piece, position), NEW result,
         result = [texture EXCEPT !.Buffer = BufferMerged(texture, piece, position)]
  PROVE  /\ Pictures!IsValid(result)
         /\ \A x \in Below(texture.Width), y \in Below(texture.Height) :
              Pictures!Pixel(result, x, y) =
                IF Pictures!Inside(piece, x - position.X, y - position.Y)
                THEN Pictures!Pixel(piece, x - position.X, y - position.Y) ELSE Pictures!Pixel(texture, x, y)
  <1> DEFINE b == Size(texture)
             s == texture.Stride
             w == texture.Width
             h == texture.Height
             fs == piece.Stride
             n == piece.Width
             m == piece.Height
             c == position.X
             r == position.Y
             copy == BufferMerged(texture, piece, position)
  <1>1. /\ b \in Nat \ {0} /\ s \in Nat /\ w \in Nat /\ h \in Nat /\ fs \in Nat /\ n \in Nat /\ m \in Nat
        /\ b * w <= s /\ fs = b * n /\ b * n <= fs
        /\ DOMAIN texture.Buffer = Below(s * h) /\ DOMAIN piece.Buffer = Below(fs * m)
    BY DEF Sized, IsTight, RowLength
  <1>2. c \in Nat /\ r \in Nat /\ c + n <= w /\ r + m <= h
    BY DEF HasRoom
  <1>3. /\ result.Width = w /\ result.Height = h /\ result.Stride = s /\ result.Format = texture.Format
        /\ result.Buffer = copy
    BY DEF IsWhole, Pictures!Texture
  <1>4. /\ DOMAIN copy = Below(s * h)
        /\ \A x \in Below(w), y \in Below(h), i \in Below(b) :
             copy[At(s, y, At(b, x, i))] =
               IF x - c \in Below(n) /\ y - r \in Below(m)
               THEN piece.Buffer[At(fs, y - r + 0, At(b, x - c + 0, i))] ELSE texture.Buffer[At(s, y, At(b, x, i))]
    <2>1. Fits(b, s, w, h, fs, m, r, c, n, m, 0, 0, fs)
      <3> HIDE DEF b, s, w, h, fs, n, m, c, r
      <3>1. 0 + n <= n /\ 0 + m <= m
        BY <1>1
      <3>2. Fits(b, s, w, h, fs, m, r, c, n, m, 0, 0, b * n)
        BY <1>1, <1>2, <3>1, FitsIf
      <3> QED BY <1>1, <3>2
    <2>2. copy = Copied(s, texture.Buffer, r, b * c, piece.Buffer, At(fs, 0, b * 0), fs, fs, m)
      BY DEF BufferMerged
    <2> HIDE DEF copy, b, s, w, h, fs, n, m, c, r
    <2> QED BY <1>1, <2>1, <2>2, PixelsCopied
  <1>5. Size(result) = b
    BY <1>3 DEF Size, Pictures!BytesPerPixel
  <1>6. Sized(result)
    BY <1>3, <1>4, <1>5 DEF Sized
  <1>7. ASSUME NEW x \in Below(w), NEW y \in Below(h)
        PROVE  Pictures!Pixel(result, x, y) =
                 IF Pictures!Inside(piece, x - c, y - r) THEN Pictures!Pixel(piece, x - c, y - r)
                 ELSE Pictures!Pixel(texture, x, y)
    <2> DEFINE right == x - c
               down == y - r
    <2>1. x \in Int /\ y \in Int /\ right \in Int /\ down \in Int /\ x - c + 0 = right /\ y - r + 0 = down
      BY <1>2 DEF Below
    <2>2. Pictures!Inside(piece, right, down) <=> x - c \in Below(n) /\ y - r \in Below(m)
      BY DEF Pictures!Inside, Pictures!Below, Below
    <2>3. Pictures!Pixel(result, x, y) = [i \in Below(b) |-> copy[At(s, y, At(b, x, i))]]
      <3>1. result.Stride \in Nat /\ Size(result) = b /\ result.Stride = s /\ result.Buffer = copy /\ b \in Nat
        BY <1>1, <1>3, <1>5
      <3>2. x \in Int /\ y \in Int
        BY <2>1
      <3>3. Pictures!Pixel(result, x, y) = [i \in Below(b) |-> result.Buffer[At(result.Stride, y, At(b, x, i))]]
        <4> HIDE DEF b
        <4> QED BY ONLY <3>1, <3>2, PixelIs
      <3> QED BY <3>1, <3>3
    <2>4. Pictures!Pixel(piece, right, down) = [i \in Below(b) |-> piece.Buffer[At(fs, down, At(b, right, i))]]
      <3>1. piece.Stride \in Nat /\ Size(piece) = b
        BY <1>1
      <3> HIDE DEF b, right, down
      <3> QED BY <1>1, <2>1, <3>1, PixelIs
    <2>5. Pictures!Pixel(texture, x, y) = [i \in Below(b) |-> texture.Buffer[At(s, y, At(b, x, i))]]
      <3>1. texture.Stride \in Nat /\ Size(texture) = b
        BY <1>1
      <3> HIDE DEF b
      <3> QED BY <1>1, <2>1, <3>1, PixelIs
    <2> SUFFICES Pictures!Pixel(result, x, y) =
                   IF Pictures!Inside(piece, right, down) THEN Pictures!Pixel(piece, right, down)
                   ELSE Pictures!Pixel(texture, x, y)
      OBVIOUS
    <2> HIDE DEF b, s, fs, n, m, c, r, w, h, copy, right, down
    <2>6. CASE Pictures!Inside(piece, right, down)
      <3>1. \A i \in Below(b) : copy[At(s, y, At(b, x, i))] = piece.Buffer[At(fs, down, At(b, right, i))]
        BY <1>4, <2>1, <2>2, <2>6
      <3> QED BY <2>3, <2>4, <2>6, <3>1
    <2>7. CASE ~Pictures!Inside(piece, right, down)
      <3>1. \A i \in Below(b) : copy[At(s, y, At(b, x, i))] = texture.Buffer[At(s, y, At(b, x, i))]
        BY <1>4, <2>2, <2>7
      <3> QED BY <2>3, <2>5, <2>7, <3>1
    <2> QED BY <2>6, <2>7
  <1> QED BY <1>6, <1>7, SizedIsValid

(* What is cut out and put back: every byte is the one that was there.         *)
IsCut(cut, ps, m, Z, T, s, r, c) == cut = Copied(ps, Z, 0, 0, T, At(s, r, c), s, ps, m)
IsBack(back, s, h, T) == DOMAIN back = Below(s * h) /\ \A i \in Below(s * h) : back[i] = T[i]

LEMMA PutBackBytes ==
  ASSUME NEW s \in Nat, NEW h \in Nat, NEW T, DOMAIN T = Below(s * h), NEW Z, NEW ps \in Nat, NEW m \in Nat, DOMAIN Z = Below(ps * m),
         NEW r \in Nat, NEW c \in Nat, c + ps <= s, r + m <= h, NEW cut, IsCut(cut, ps, m, Z, T, s, r, c)
  PROVE  IsBack(Copied(s, T, r, c, cut, 0, ps, ps, m), s, h, T)
  <1> DEFINE from == At(s, r, c)
             back == Copied(s, T, r, c, cut, 0, ps, ps, m)
             start == 0
  <1>1. from \in Int
    BY DEF At
  <1>2. /\ DOMAIN cut = Below(ps * m)
        /\ \A y \in Below(m), a \in Below(ps) :
             cut[At(ps, y, a)] =
               IF y - 0 \in Below(m) /\ a - 0 \in Below(ps)
               THEN Pictures!Read(T, from + s * (y - 0) + (a - 0)) ELSE Z[At(ps, y, a)]
    <2>1. 0 + ps <= ps /\ 0 + m <= m
      OBVIOUS
    <2> HIDE DEF from
    <2>2. start \in Nat /\ s \in Int
      OBVIOUS
    <2>3. ShowsBytes(Copied(ps, Z, start, start, T, from, s, ps, m), Z, ps, m, start, start, T, from, s, ps, m)
      <3> HIDE DEF from, start
      <3> QED BY <1>1, <2>1, <2>2, BytesCopied DEF start
    <2>4. cut = Copied(ps, Z, start, start, T, from, s, ps, m)
      BY DEF IsCut, from, start
    <2> QED BY <2>3, <2>4 DEF ShowsBytes
  <1>3. /\ DOMAIN back = Below(s * h)
        /\ \A y \in Below(h), a \in Below(s) :
             back[At(s, y, a)] =
               IF y - r \in Below(m) /\ a - c \in Below(ps)
               THEN Pictures!Read(cut, start + ps * (y - r) + (a - c)) ELSE T[At(s, y, a)]
    <2>1. start \in Int /\ ps \in Int
      OBVIOUS
    <2> HIDE DEF start
    <2> DEFINE copy == Copied(s, T, r, c, cut, start, ps, ps, m)
    <2>2. ShowsBytes(copy, T, s, h, r, c, cut, start, ps, ps, m)
      BY <2>1, BytesCopied
    <2>3. back = copy
      BY DEF start
    <2> HIDE DEF back, copy
    <2> QED BY <2>2, <2>3 DEF ShowsBytes
  <1> HIDE DEF from, back
  <1>4. ASSUME NEW y \in Below(h), NEW a \in Below(s) PROVE back[At(s, y, a)] = T[At(s, y, a)]
    <2>1. CASE y - r \in Below(m) /\ a - c \in Below(ps)
      <3> DEFINE q == y - r
                 k == a - c
      <3>1. q \in Below(m) /\ k \in Below(ps) /\ q \in Int /\ k \in Int /\ y = r + q /\ a = c + k
        BY <2>1 DEF Below
      <3>2. back[At(s, y, a)] = Pictures!Read(cut, 0 + ps * q + k)
        BY <1>3, <2>1
      <3> HIDE DEF q, k
      <3>3. 0 + ps * q + k = At(ps, q, k) /\ At(ps, q, k) \in Below(ps * m)
        <4>1. ps * q \in Int
          BY <3>1
        <4> QED BY <3>1, <4>1, ByteInside DEF At
      <3>4. Pictures!Read(cut, 0 + ps * q + k) = cut[At(ps, q, k)]
        BY <1>2, <3>3 DEF Pictures!Read
      <3>5. cut[At(ps, q, k)] = Pictures!Read(T, from + s * q + k)
        <4>1. q - 0 = q /\ k - 0 = k
          BY <3>1
        <4> QED BY <1>2, <3>1, <4>1
      <3>6. from + s * q + k = At(s, y, a)
        <4> DEFINE u == s * r
                   v == s * q
        <4>1. u \in Int /\ v \in Int /\ s * (r + q) = u + v
          BY <3>1, Distributes
        <4>2. s * y = u + v
          BY <3>1, <4>1
        <4> HIDE DEF u, v
        <4>3. (u + c) + v + k = (u + v) + (c + k)
          BY <3>1, <4>1
        <4> QED BY <3>1, <4>2, <4>3 DEF At, from, u, v
      <3>7. At(s, y, a) \in DOMAIN T
        BY ByteInside
      <3> QED BY <3>2, <3>4, <3>5, <3>6, <3>7 DEF Pictures!Read
    <2>2. CASE ~(y - r \in Below(m) /\ a - c \in Below(ps))
      BY <1>3, <2>2
    <2> QED BY <2>1, <2>2
  <1>5. ASSUME NEW i \in Below(s * h) PROVE back[i] = T[i]
    <2>1. s # 0
      BY <1>5 DEF Below
    <2>2. i \div s \in Below(h) /\ i % s \in Below(s) /\ i = At(s, i \div s, i % s)
      BY <2>1, PlaceOf
    <2> QED BY <1>4, <2>2
  <1> QED BY <1>3, <1>5 DEF back, IsBack

LEMMA PutBack ==
  ASSUME NEW texture, Sized(texture), IsWhole(texture), NEW rect \in IntRects, NEW cut, cut = Clipped(texture, rect),
         Pictures!Rects!Something(cut)
  PROVE  Pictures!MergeTexture(texture, Pictures!GetTexture(texture, rect), Pictures!Rects!PointOf(cut.Left, cut.Top)) = <<texture>>
  <1> DEFINE piece == Pictures!GetTexture(texture, rect)
             position == Pictures!Rects!PointOf(cut.Left, cut.Top)
             n == Across(cut)
             m == Down(cut)
             b == Size(texture)
             s == texture.Stride
             h == texture.Height
             ps == RowLength(texture, n)
             c == b * cut.Left
             r == cut.Top
  <1>1. /\ cut.Left \in Nat /\ r \in Nat /\ n \in Nat \ {0} /\ m \in Nat \ {0}
        /\ cut.Left + n <= texture.Width /\ r + m <= h
    BY ClippedInside
  <1>2. /\ b \in Nat \ {0} /\ s \in Nat /\ h \in Nat /\ texture.Width \in Nat /\ b * texture.Width <= s
        /\ DOMAIN texture.Buffer = Below(s * h)
    BY DEF Sized
  <1>3. position \in [X : Int, Y : Int] /\ position.X = cut.Left /\ position.Y = cut.Top
    BY <1>1 DEF Pictures!Rects!PointOf
  <1>4. piece = NewCopy(n, m, 0, 0, texture, cut.Left, cut.Top, ps, m)
    BY PartIs
  <1>5. Remade(piece, texture, n, m)
    <2> HIDE DEF piece, n, m, r, h
    <2> QED BY <1>1, <1>4, PartShows DEF r, h
  <1>6. /\ Sized(piece) /\ piece.Width = n /\ piece.Height = m /\ piece.Stride = ps
    BY <1>5 DEF Remade
  <1>7. HasRoom(texture, piece, position)
    BY <1>1, <1>3, <1>6 DEF HasRoom
  <1>8. ps \in Nat /\ c \in Nat /\ c + ps <= s
    <2>1. b * (cut.Left + n) <= b * texture.Width
      BY <1>1, <1>2, Monotone
    <2>2. b * (cut.Left + n) = c + b * n /\ b * n \in Nat /\ c \in Nat
      BY <1>1, <1>2
    <2>3. ps = b * n
      BY DEF RowLength
    <2> QED BY <1>2, <2>1, <2>2, <2>3
  <1>9. piece.Buffer = Copied(ps, Zeros(ps, m), 0, 0, texture.Buffer, At(s, r, c), s, ps, m)
    <2>1. b * 0 = 0
      BY <1>2
    <2> QED BY <1>4, <2>1 DEF NewCopy, CopyOf, Pictures!Texture
  <1>10. BufferMerged(texture, piece, position) = Copied(s, texture.Buffer, r, c, piece.Buffer, 0, ps, ps, m)
    <2>1. b * 0 = 0 /\ ps * 0 = 0 /\ At(ps, 0, b * 0) = 0
      BY <1>2, <1>8 DEF At
    <2> QED BY <1>3, <1>6, <2>1 DEF BufferMerged
  <1>11. DOMAIN Zeros(ps, m) = Below(ps * m)
    BY DEF Zeros
  <1> DEFINE back == BufferMerged(texture, piece, position)
  <1>12. DOMAIN back = Below(s * h) /\ \A i \in Below(s * h) : back[i] = texture.Buffer[i]
    <2>1. IsCut(piece.Buffer, ps, m, Zeros(ps, m), texture.Buffer, s, r, c)
      BY <1>9 DEF IsCut
    <2>2. m \in Nat /\ r \in Nat /\ h \in Nat /\ s \in Nat /\ ps \in Nat /\ c \in Nat
      BY <1>1, <1>2, <1>8
    <2> DEFINE copy == Copied(s, texture.Buffer, r, c, piece.Buffer, 0, ps, ps, m)
    <2>3. IsBack(copy, s, h, texture.Buffer)
      <3> HIDE DEF piece, n, m, b, s, h, ps, c, r, position
      <3> QED BY <1>1, <1>2, <1>8, <1>11, <2>1, <2>2, PutBackBytes
    <2>4. back = copy
      BY <1>10
    <2> HIDE DEF back, copy
    <2> QED BY <2>3, <2>4 DEF IsBack
  <1>13. back = [i \in DOMAIN back |-> back[i]]
    BY DEF BufferMerged, Copied, Pictures!CopyRows
  <1> HIDE DEF back, piece, position
  <1>14. back = texture.Buffer
    BY <1>2, <1>12, <1>13 DEF IsWhole
  <1>15. [texture EXCEPT !.Buffer = back] = texture
    BY <1>14 DEF IsWhole, Pictures!Texture
  <1>16. Pictures!MergeTexture(texture, piece, position) = <<[texture EXCEPT !.Buffer = back]>>
    BY <1>3, <1>6, <1>7, MergeIs DEF back
  <1> QED BY <1>15, <1>16 DEF piece, position

THEOREM CutsAndPastesAll ==
  ASSUME NEW texture, IsPicture(texture), NEW rect \in IntRects, NEW position \in [X : Int, Y : Int]
  PROVE  Pictures!CutsAndPastes(texture, rect, position)
  <1> DEFINE cut == Clipped(texture, rect)
             piece == Pictures!GetTexture(texture, rect)
             merged == Pictures!MergeTexture(texture, piece, position)
             n == Across(cut)
             m == Down(cut)
  <1> SUFFICES ASSUME Pictures!Rects!Something(cut)
               PROVE  /\ Pictures!Shows(piece, texture, -cut.Left, -cut.Top)
                      /\ Pictures!MergeTexture(texture, piece, Pictures!Rects!PointOf(cut.Left, cut.Top)) = <<texture>>
                      /\ merged # <<>> <=> HasRoom(texture, piece, position)
                      /\ merged # <<>> =>
                           /\ Pictures!IsValid(merged[1])
                           /\ \A x \in Below(texture.Width), y \in Below(texture.Height) :
                                Pictures!Pixel(merged[1], x, y) =
                                  IF Pictures!Inside(piece, x - position.X, y - position.Y)
                                  THEN Pictures!Pixel(piece, x - position.X, y - position.Y)
                                  ELSE Pictures!Pixel(texture, x, y)
    <2> HIDE DEF piece, merged, cut
    <2> QED BY DEF Pictures!CutsAndPastes, HasRoom, Clipped, Pictures!Below, Below, piece, merged, cut
  <1>1. Sized(texture) /\ IsWhole(texture)
    BY PictureSized, PictureIsWhole
  <1>2. /\ cut.Left \in Nat /\ cut.Top \in Nat /\ n \in Nat \ {0} /\ m \in Nat \ {0}
        /\ cut.Left + n <= texture.Width /\ cut.Top + m <= texture.Height
    BY <1>1, ClippedInside
  <1>3. piece = NewCopy(n, m, 0, 0, texture, cut.Left, cut.Top, RowLength(texture, n), m)
    BY <1>1, PartIs
  <1>4. ShowsAt(piece, texture, 0, cut.Left, 0, cut.Top) /\ Remade(piece, texture, n, m)
    <2> HIDE DEF piece, n, m, cut
    <2> QED BY <1>1, <1>2, <1>3, PartShows
  <1>5. Pictures!Shows(piece, texture, -cut.Left, -cut.Top)
    <2> HIDE DEF piece, cut
    <2>1. 0 - cut.Left = -cut.Left /\ 0 - cut.Top = -cut.Top
      BY <1>2
    <2> QED BY <1>4, <2>1 DEF ShowsAt
  <1>6. Pictures!MergeTexture(texture, piece, Pictures!Rects!PointOf(cut.Left, cut.Top)) = <<texture>>
    BY <1>1, PutBack
  <1>7. Sized(piece) /\ IsTight(piece) /\ Size(piece) = Size(texture)
    BY <1>4 DEF Remade
  <1> DEFINE result == [texture EXCEPT !.Buffer = BufferMerged(texture, piece, position)]
  <1>8. merged = IF HasRoom(texture, piece, position) THEN <<result>> ELSE <<>>
    <2> HIDE DEF piece
    <2> QED BY <1>1, <1>7, MergeIs
  <1>9. merged # <<>> <=> HasRoom(texture, piece, position)
    <2> HIDE DEF merged, result, piece
    <2> QED BY <1>8
  <1>10. ASSUME HasRoom(texture, piece, position)
         PROVE  /\ Pictures!IsValid(result)
                /\ \A x \in Below(texture.Width), y \in Below(texture.Height) :
                     Pictures!Pixel(result, x, y) =
                       IF Pictures!Inside(piece, x - position.X, y - position.Y)
                       THEN Pictures!Pixel(piece, x - position.X, y - position.Y)
                       ELSE Pictures!Pixel(texture, x, y)
    <2> HIDE DEF piece
    <2> QED BY <1>1, <1>7, <1>10, MergeShows
  <1>11. HasRoom(texture, piece, position) => merged[1] = result
    <2> HIDE DEF merged, result, piece
    <2> QED BY <1>8
  <1> HIDE DEF merged, result, piece, cut
  <1> QED BY <1>5, <1>6, <1>9, <1>10, <1>11

-----------------------------------------------------------------------------
(* Formats of bitmaps: back from one, as many bits and the same bitmap again.  *)
LEMMA FormatsBack ==
  ASSUME NEW format, Pictures!BitsPerPixel(format) # 0, Pictures!ToWicPixelFormat(format) # <<>>
  PROVE  LET back == Pictures!ToDxgiFormat(Pictures!ToWicPixelFormat(format)[1])
         IN /\ Pictures!BitsPerPixel(back) = Pictures!BitsPerPixel(format)
            /\ Pictures!ToWicPixelFormat(back) = Pictures!ToWicPixelFormat(format)
  <1>1. format # "UNKNOWN"
    BY DEF Pictures!BitsPerPixel
  <1>2. \/ format = "R16G16B16A16_UNORM"
        \/ format \in {"R8G8B8A8_UNORM", "R8G8B8A8_UNORM_SRGB"}
        \/ format = "R16_UNORM"
        \/ format = "R8_UNORM"
        \/ format \in {"B8G8R8A8_UNORM", "B8G8R8A8_UNORM_SRGB"}
    BY <1>1 DEF Pictures!ToWicPixelFormat
  <1>3. CASE format = "R16G16B16A16_UNORM"
    <2>1. Pictures!ToWicPixelFormat(format) = <<"64bppBGRA">>
      BY <1>3 DEF Pictures!ToWicPixelFormat
    <2>2. Pictures!ToDxgiFormat("64bppBGRA") = format
      BY <1>3 DEF Pictures!ToDxgiFormat
    <2> QED BY <2>1, <2>2
  <1>4. CASE format \in {"R8G8B8A8_UNORM", "R8G8B8A8_UNORM_SRGB"}
    <2>1. /\ Pictures!ToWicPixelFormat(format) = <<"32bppRGBA">>
          /\ Pictures!ToWicPixelFormat("R8G8B8A8_UNORM_SRGB") = <<"32bppRGBA">>
      BY <1>4 DEF Pictures!ToWicPixelFormat
    <2>2. Pictures!ToDxgiFormat("32bppRGBA") = "R8G8B8A8_UNORM_SRGB"
      BY DEF Pictures!ToDxgiFormat
    <2>3. Pictures!BitsPerPixel(format) = 32 /\ Pictures!BitsPerPixel("R8G8B8A8_UNORM_SRGB") = 32
      BY <1>4 DEF Pictures!BitsPerPixel
    <2> QED BY <2>1, <2>2, <2>3
  <1>5. CASE format = "R16_UNORM"
    <2>1. Pictures!ToWicPixelFormat(format) = <<"16bppGray">>
      BY <1>5 DEF Pictures!ToWicPixelFormat
    <2>2. Pictures!ToDxgiFormat("16bppGray") = format
      BY <1>5 DEF Pictures!ToDxgiFormat
    <2> QED BY <2>1, <2>2
  <1>6. CASE format = "R8_UNORM"
    <2>1. Pictures!ToWicPixelFormat(format) = <<"8bppGray">>
      BY <1>6 DEF Pictures!ToWicPixelFormat
    <2>2. Pictures!ToDxgiFormat("8bppGray") = format
      BY <1>6 DEF Pictures!ToDxgiFormat
    <2> QED BY <2>1, <2>2
  <1>7. CASE format \in {"B8G8R8A8_UNORM", "B8G8R8A8_UNORM_SRGB"}
    <2>1. /\ Pictures!ToWicPixelFormat(format) = <<"32bppBGRA">>
          /\ Pictures!ToWicPixelFormat("B8G8R8A8_UNORM_SRGB") = <<"32bppBGRA">>
      BY <1>7 DEF Pictures!ToWicPixelFormat
    <2>2. Pictures!ToDxgiFormat("32bppBGRA") = "B8G8R8A8_UNORM_SRGB"
      BY DEF Pictures!ToDxgiFormat
    <2>3. Pictures!BitsPerPixel(format) = 32 /\ Pictures!BitsPerPixel("B8G8R8A8_UNORM_SRGB") = 32
      BY <1>7 DEF Pictures!BitsPerPixel
    <2> QED BY <2>1, <2>2, <2>3
  <1> QED BY <1>2, <1>3, <1>4, <1>5, <1>6, <1>7

(* A copy of the whole with rows of another length.                            *)
Repitched(texture, s, format, count) ==
  CopyOf(texture.Width, texture.Height, s, format, Zeros(s, texture.Height), 0, 0, texture, 0, 0, count, texture.Height)

LEMMA RepitchedShows ==
  ASSUME NEW texture, Sized(texture), NEW s \in Nat, RowLength(texture, texture.Width) <= s, NEW count \in Nat,
         RowLength(texture, texture.Width) <= count, count <= s,
         NEW format, Pictures!BitsPerPixel(format) = Pictures!BitsPerPixel(texture.Format)
  PROVE  LET result == Repitched(texture, s, format, count)
         IN /\ Pictures!Shows(result, texture, 0, 0) /\ Sized(result) /\ Size(result) = Size(texture)
            /\ result.Width = texture.Width /\ result.Height = texture.Height /\ result.Format = format /\ result.Stride = s
  <1> DEFINE b == Size(texture)
             w == texture.Width
             h == texture.Height
             result == Repitched(texture, s, format, count)
  <1>1. b \in Nat \ {0} /\ w \in Nat \ {0} /\ h \in Nat \ {0} /\ texture.Stride \in Nat /\ b * w <= texture.Stride
    BY DEF Sized
  <1>2. RowLength(texture, w) = b * w /\ b * w \in Nat
    BY <1>1 DEF RowLength
  <1>3. Fits(b, s, w, h, texture.Stride, h, 0, 0, w, h, 0, 0, count)
    <2>1. b * 0 = 0
      BY <1>1
    <2>2. b * w <= s /\ b * w <= count
      BY <1>2
    <2> HIDE DEF b, w, h
    <2>3. ColumnsFit(b, w, 0, w, count)
      BY <1>1, <2>2 DEF ColumnsFit
    <2>4. 0 + w = w /\ 0 + h = h
      BY <1>1
    <2>5. b * (0 + w) <= texture.Stride
      BY <1>1, <2>4
    <2> QED BY <1>1, <2>1, <2>2, <2>3, <2>4, <2>5 DEF Fits
  <1>4. Aligned(w, 0, w, 0, w) /\ Aligned(h, 0, h, 0, h)
    BY <1>1, AlignedWhole
  <1>5. AllZero(s, h, Zeros(s, h))
    BY ZerosAreZero DEF Zeros
  <1>6. Pictures!Shows(result, texture, 0 - 0, 0 - 0) /\ Sized(result)
    <2>1. result = CopyOf(w, h, s, format, Zeros(s, h), 0, 0, texture, 0, 0, count, h)
      BY DEF Repitched
    <2>2. ShowsAt(result, texture, 0, 0, 0, 0) /\ Sized(result)
      <3> HIDE DEF result
      <3> QED BY <1>1, <1>3, <1>4, <1>5, <2>1, CopyShows, CopySized DEF ShowsAt
    <2> HIDE DEF result
    <2> QED BY <2>2 DEF ShowsAt
  <1>7. result.Width = w /\ result.Height = h /\ result.Stride = s /\ result.Format = format
    BY DEF Repitched, CopyOf, Pictures!Texture
  <1>8. Size(result) = b
    BY <1>7 DEF Size, Pictures!BytesPerPixel
  <1>9. 0 - 0 = 0
    OBVIOUS
  <1> HIDE DEF result
  <1> QED BY <1>6, <1>7, <1>8, <1>9 DEF result

LEMMA ShowsThrough ==
  ASSUME NEW back, NEW image, NEW texture, Pictures!Shows(back, image, 0, 0), Pictures!Shows(image, texture, 0, 0),
         back.Width = image.Width, back.Height = image.Height, image.Width = texture.Width, image.Height = texture.Height
  PROVE  Pictures!Shows(back, texture, 0, 0)
  <1>1. ASSUME NEW x \in Pictures!Below(back.Width), NEW y \in Pictures!Below(back.Height)
        PROVE  /\ x - 0 = x /\ y - 0 = y /\ Pictures!Inside(image, x, y) /\ Pictures!Inside(texture, x, y)
               /\ x \in Pictures!Below(image.Width) /\ y \in Pictures!Below(image.Height)
    BY DEF Pictures!Below, Pictures!Inside
  <1> QED BY <1>1 DEF Pictures!Shows

LEMMA RowsCopied ==
  ASSUME NEW s \in Int, NEW fs \in Int, NEW b \in Int, NEW T, NEW bytes, NEW count, NEW rows
  PROVE  Pictures!CopyRows(T, 0, s, bytes, 0, fs, count, rows) = Copied(s, T, 0, b * 0, bytes, At(fs, 0, b * 0), fs, count, rows)
  <1>1. b * 0 = 0 /\ At(s, 0, 0) = 0 /\ At(fs, 0, 0) = 0
    BY DEF At
  <1> QED BY <1>1 DEF Copied

LEMMA RepitchedIs ==
  ASSUME NEW texture, Sized(texture), NEW s \in Int, NEW format, NEW count
  PROVE  Repitched(texture, s, format, count) =
           Pictures!Texture(texture.Width, texture.Height, s, format,
             Pictures!CopyRows(Zeros(s, texture.Height), 0, s, texture.Buffer, 0, texture.Stride, count, texture.Height))
  <1>1. Size(texture) \in Int /\ texture.Stride \in Int
    BY DEF Sized
  <1>2. Pictures!CopyRows(Zeros(s, texture.Height), 0, s, texture.Buffer, 0, texture.Stride, count, texture.Height)
          = Copied(s, Zeros(s, texture.Height), 0, Size(texture) * 0, texture.Buffer,
                   At(texture.Stride, 0, Size(texture) * 0), texture.Stride, count, texture.Height)
    BY <1>1, RowsCopied
  <1> QED BY <1>2 DEF Repitched, CopyOf

LEMMA RoundedUp ==
  ASSUME NEW n \in Nat
  PROVE  4 * ((n + 3) \div 4) \in Nat /\ n <= 4 * ((n + 3) \div 4)
  OBVIOUS

(* Through a bitmap: every row has the pitch of the system.                    *)
LEMMA BitmapIs ==
  ASSUME NEW texture, Sized(texture)
  PROVE  LET length == RowLength(texture, texture.Width)
             pitch == Pictures!WicPitch(texture.Format, texture.Width)
             bitmap == Pictures!ToWicBitmap(texture)
         IN /\ pitch \in Nat /\ length <= pitch /\ length \in Nat
            /\ bitmap.Width = texture.Width /\ bitmap.Height = texture.Height /\ bitmap.Stride = pitch
            /\ bitmap.Format = Pictures!ToWicPixelFormat(texture.Format)[1]
            /\ bitmap.Buffer = Repitched(texture, pitch, texture.Format, length).Buffer
  <1> DEFINE b == Size(texture)
             length == RowLength(texture, texture.Width)
             pitch == Pictures!WicPitch(texture.Format, texture.Width)
             bitmap == Pictures!ToWicBitmap(texture)
             wic == Pictures!ToWicPixelFormat(texture.Format)[1]
  <1>1. b \in Nat /\ texture.Width \in Nat /\ texture.Height \in Nat
    BY DEF Sized
  <1>2. length \in Nat /\ texture.Width * b = length /\ b * texture.Width = length
    BY <1>1 DEF RowLength
  <1>3. pitch = 4 * ((length + 3) \div 4)
    <2>1. pitch = 4 * ((b * texture.Width + 3) \div 4)
      BY DEF Pictures!WicPitch, Size
    <2> HIDE DEF b, pitch, length
    <2> QED BY <1>2, <2>1
  <1>4. pitch \in Nat /\ length <= pitch
    <2> HIDE DEF pitch, length
    <2> QED BY <1>2, <1>3, RoundedUp
  <1>5. Pictures!Mapped(texture.Width, texture.Height, wic, pitch) =
          Pictures!Texture(texture.Width, texture.Height, pitch, wic, Zeros(pitch, texture.Height))
    BY DEF Pictures!Mapped, Zeros, Pictures!Below, Below
  <1>6. bitmap = [Pictures!Mapped(texture.Width, texture.Height, wic, pitch) EXCEPT !.Buffer =
                    Pictures!CopyRows(@, 0, pitch, texture.Buffer, 0, texture.Stride, length, texture.Height)]
    <2>1. texture.Width * Pictures!BytesPerPixel(texture.Format) = length
      BY <1>2 DEF Size
    <2> HIDE DEF length
    <2> QED BY <2>1 DEF Pictures!ToWicBitmap
  <1> HIDE DEF length, pitch, wic, b, bitmap
  <1>7. /\ bitmap.Width = texture.Width /\ bitmap.Height = texture.Height /\ bitmap.Stride = pitch /\ bitmap.Format = wic
        /\ bitmap.Buffer = Pictures!CopyRows(Zeros(pitch, texture.Height), 0, pitch, texture.Buffer, 0, texture.Stride, length, texture.Height)
    BY <1>5, <1>6 DEF Pictures!Texture
  <1>8. Repitched(texture, pitch, texture.Format, length) =
          Pictures!Texture(texture.Width, texture.Height, pitch, texture.Format,
             Pictures!CopyRows(Zeros(pitch, texture.Height), 0, pitch, texture.Buffer, 0, texture.Stride, length, texture.Height))
    BY <1>4, RepitchedIs
  <1>9. bitmap.Buffer = Repitched(texture, pitch, texture.Format, length).Buffer
    BY <1>7, <1>8 DEF Pictures!Texture
  <1> QED BY <1>2, <1>4, <1>7, <1>9 DEF length, pitch, bitmap, wic

FromBitmapIs(bitmap, image, format) ==
  /\ bitmap.Width = image.Width /\ bitmap.Height = image.Height /\ bitmap.Stride = image.Stride
  /\ bitmap.Buffer = image.Buffer /\ Pictures!ToDxgiFormat(bitmap.Format) = format

LEMMA FromBitmap ==
  ASSUME NEW image, Sized(image), NEW bitmap, NEW format, FromBitmapIs(bitmap, image, format),
         Pictures!BitsPerPixel(format) = Pictures!BitsPerPixel(image.Format)
  PROVE  LET back == Pictures!FromWicBitmap(bitmap)
         IN /\ Pictures!Shows(back, image, 0, 0) /\ Sized(back) /\ Size(back) = Size(image) /\ IsTight(back) /\ IsWhole(back)
            /\ back.Width = image.Width /\ back.Height = image.Height /\ back.Format = format
  <1> DEFINE b == Size(image)
             w == image.Width
             h == image.Height
             pitch == image.Stride
             length == RowLength(image, w)
             back == Pictures!FromWicBitmap(bitmap)
  <1>1. /\ b \in Nat \ {0} /\ w \in Nat /\ h \in Nat /\ Pictures!BitsPerPixel(format) = 8 * b /\ pitch \in Nat
        /\ length <= pitch
    BY DEF Sized, RowLength
  <1>2. length \in Nat
    BY <1>1 DEF RowLength
  <1>3. Pictures!Created(w, h, format) = Pictures!Texture(w, h, length, format, Zeros(length, h))
    <2>1. length = b * w
      BY DEF RowLength
    <2> HIDE DEF length, b, w, h
    <2> QED BY <1>1, <2>1, CreatedIs DEF Zeros
  <1>4. /\ bitmap.Width = w /\ bitmap.Height = h /\ bitmap.Stride = pitch /\ bitmap.Buffer = image.Buffer
        /\ Pictures!ToDxgiFormat(bitmap.Format) = format
    BY DEF FromBitmapIs
  <1>5. RowLength(image, image.Width) = length
    OBVIOUS
  <1> HIDE DEF length, pitch, b, w, h
  <1>6. back = Pictures!Texture(w, h, length, format,
                 Pictures!CopyRows(Zeros(length, h), 0, length, image.Buffer, 0, pitch, length, h))
    <2>1. back = [Pictures!Created(w, h, format) EXCEPT !.Buffer =
                    Pictures!CopyRows(@, 0, Pictures!Created(w, h, format).Stride, image.Buffer, 0, pitch,
                                      Pictures!Created(w, h, format).Stride, h)]
      BY <1>4 DEF Pictures!FromWicBitmap
    <2> HIDE DEF back
    <2> QED BY <1>3, <2>1 DEF Pictures!Texture
  <1> HIDE DEF back
  <1>7. back = Repitched(image, length, format, length)
    <2>1. Repitched(image, length, format, length) =
            Pictures!Texture(image.Width, image.Height, length, format,
              Pictures!CopyRows(Zeros(length, image.Height), 0, length, image.Buffer, 0, image.Stride, length, image.Height))
      BY <1>2, RepitchedIs
    <2> QED BY <1>6, <2>1 DEF w, h, pitch
  <1>8. /\ Pictures!Shows(back, image, 0, 0) /\ Sized(back) /\ Size(back) = Size(image)
        /\ back.Width = image.Width /\ back.Height = image.Height /\ back.Format = format /\ back.Stride = length
    <2>1. length <= length
      BY <1>2
    <2> QED BY <1>2, <1>5, <1>7, <2>1, RepitchedShows
  <1>9. IsTight(back)
    BY <1>5, <1>8 DEF IsTight, RowLength
  <1>10. IsWhole(back)
    BY <1>6 DEF IsWhole, Pictures!Texture, Pictures!CopyRows
  <1> QED BY <1>8, <1>9, <1>10 DEF back

LEMMA ThroughBitmap ==
  ASSUME NEW texture, Sized(texture), Pictures!ToWicPixelFormat(texture.Format) # <<>>
  PROVE  LET back == Pictures!FromWicBitmap(Pictures!ToWicBitmap(texture))
         IN /\ Pictures!Shows(back, texture, 0, 0)
            /\ Pictures!ToWicPixelFormat(back.Format) = Pictures!ToWicPixelFormat(texture.Format)
  <1> DEFINE b == Size(texture)
             w == texture.Width
             h == texture.Height
             length == RowLength(texture, w)
             pitch == Pictures!WicPitch(texture.Format, w)
             bitmap == Pictures!ToWicBitmap(texture)
             image == Repitched(texture, pitch, texture.Format, length)
             format == Pictures!ToDxgiFormat(Pictures!ToWicPixelFormat(texture.Format)[1])
             back == Pictures!FromWicBitmap(bitmap)
  <1>1. /\ b \in Nat \ {0} /\ w \in Nat /\ h \in Nat /\ Pictures!BitsPerPixel(texture.Format) = 8 * b
    BY DEF Sized
  <1>2. /\ pitch \in Nat /\ length <= pitch /\ length \in Nat
        /\ bitmap.Width = w /\ bitmap.Height = h /\ bitmap.Stride = pitch
        /\ bitmap.Format = Pictures!ToWicPixelFormat(texture.Format)[1]
        /\ bitmap.Buffer = image.Buffer
    BY BitmapIs
  <1>3. /\ Pictures!Shows(image, texture, 0, 0) /\ Sized(image) /\ Size(image) = b
        /\ image.Width = w /\ image.Height = h /\ image.Format = texture.Format /\ image.Stride = pitch
    <2>1. length <= length
      BY <1>2
    <2> HIDE DEF pitch, image, b
    <2>2. image = Repitched(texture, pitch, texture.Format, length)
      BY DEF image
    <2> QED BY <1>2, <2>1, <2>2, RepitchedShows DEF b
  <1>4. Pictures!BitsPerPixel(format) = 8 * b /\ Pictures!ToWicPixelFormat(format) = Pictures!ToWicPixelFormat(texture.Format)
    <2>1. Pictures!BitsPerPixel(texture.Format) # 0
      BY <1>1
    <2> QED BY <1>1, <2>1, FormatsBack
  <1>5. Pictures!ToDxgiFormat(bitmap.Format) = format
    BY <1>2
  <1> HIDE DEF length, pitch, image, b, format, w, h, bitmap
  <1>6. FromBitmapIs(bitmap, image, format) /\ Pictures!BitsPerPixel(format) = Pictures!BitsPerPixel(image.Format)
    BY <1>1, <1>2, <1>3, <1>4, <1>5 DEF FromBitmapIs
  <1> HIDE DEF back
  <1>7. /\ Pictures!Shows(back, image, 0, 0) /\ back.Width = w /\ back.Height = h /\ back.Format = format
    BY <1>3, <1>6, FromBitmap DEF back
  <1>8. Pictures!Shows(back, texture, 0, 0)
    BY <1>3, <1>7, ShowsThrough DEF w, h
  <1> QED BY <1>4, <1>7, <1>8 DEF back, bitmap

(* As bytes.                                                                   *)
LEMMA SizeOfBelow ==
  ASSUME NEW n \in Nat
  PROVE  Pictures!Cardinality(Below(n)) = n
  <1>1. Cardinality(0..(n - 1)) = n
    BY FS_Interval
  <1>2. Pictures!Cardinality(0..(n - 1)) = Cardinality(0..(n - 1))
    BY DEF Pictures!Cardinality, Cardinality
  <1> QED BY <1>1, <1>2 DEF Below

LEMMA Listed ==
  ASSUME NEW n \in Nat, NEW S, NEW list \in [1..n -> S]
  PROVE  list \in Seq(S) /\ Len(list) = n
  OBVIOUS

LEMMA BytesReadBack ==
  ASSUME NEW texture, Sized(texture), IsWhole(texture)
  PROVE  LET raw == Pictures!ToRawBuffer(texture)
         IN /\ Pictures!FromRawBuffer(raw) = <<texture>>
            /\ Pictures!FromRawBuffer([raw EXCEPT !.bytes = Tail(@)]) = <<>>
  <1> DEFINE n == texture.Stride * texture.Height
             bytes == [i \in 1..n |-> texture.Buffer[i - 1]]
             header == <<texture.Width, texture.Height, texture.Stride, texture.Format>>
             raw == Pictures!ToRawBuffer(texture)
  <1>1. n \in Nat \ {0} /\ DOMAIN texture.Buffer = Below(n)
    BY Positive DEF Sized
  <1>2. raw = [header |-> header, bytes |-> bytes]
    <2> HIDE DEF n
    <2>1. Pictures!Cardinality(DOMAIN texture.Buffer) = n
      BY <1>1, SizeOfBelow
    <2> QED BY <2>1 DEF Pictures!ToRawBuffer
  <1>3. header[1] = texture.Width /\ header[2] = texture.Height /\ header[3] = texture.Stride /\ header[4] = texture.Format
    OBVIOUS
  <1>4. header[3] * header[2] = n
    BY <1>3
  <1> HIDE DEF n, header
  <1>5. bytes \in Seq({texture.Buffer[i - 1] : i \in 1..n}) /\ Len(bytes) = n
    <2>1. bytes \in [1..n -> {texture.Buffer[i - 1] : i \in 1..n}]
      OBVIOUS
    <2> HIDE DEF bytes
    <2> QED BY <1>1, <2>1, Listed
  <1>6. Len(Tail(bytes)) < n
    <2> HIDE DEF bytes
    <2>1. bytes # <<>>
      BY <1>1, <1>5
    <2> QED BY <1>1, <1>5, <2>1
  <1>7. [i \in Pictures!Below(n) |-> bytes[i + 1]] = texture.Buffer
    <2>1. \A i \in Below(n) : i + 1 \in 1..n /\ (i + 1) - 1 = i
      BY <1>1 DEF Below
    <2>2. \A i \in Below(n) : bytes[i + 1] = texture.Buffer[i]
      BY <2>1
    <2> HIDE DEF bytes
    <2> QED BY <1>1, <2>2 DEF Pictures!Below, Below, IsWhole
  <1> HIDE DEF bytes
  <1>8. Pictures!FromRawBuffer([header |-> header, bytes |-> bytes]) = <<texture>>
    <2>1. ~(Len(bytes) < n)
      BY <1>1, <1>5
    <2> QED BY <1>3, <1>4, <1>7, <2>1 DEF Pictures!FromRawBuffer, IsWhole
  <1>9. [[header |-> header, bytes |-> bytes] EXCEPT !.bytes = Tail(@)] = [header |-> header, bytes |-> Tail(bytes)]
    <2> DEFINE tail == Tail(bytes)
    <2>1. Tail([header |-> header, bytes |-> bytes].bytes) = tail
      OBVIOUS
    <2> HIDE DEF tail
    <2>2. [[header |-> header, bytes |-> bytes] EXCEPT !.bytes = tail] = [header |-> header, bytes |-> tail]
      OBVIOUS
    <2> QED BY <2>1, <2>2 DEF tail
  <1>10. Pictures!FromRawBuffer([header |-> header, bytes |-> Tail(bytes)]) = <<>>
    BY <1>4, <1>6 DEF Pictures!FromRawBuffer
  <1> QED BY <1>2, <1>8, <1>9, <1>10

(* To the device and back.                                                     *)
LEMMA AllRows ==
  ASSUME NEW s \in Nat \ {0}, NEW h \in Nat
  PROVE  (s * h) \div s = h
  <1> DEFINE i == s * h
             q == i \div s
             a == i % s
  <1>1. i \in Nat
    OBVIOUS
  <1>2. q \in Nat /\ a \in Below(s) /\ i = s * q + a
    <2> HIDE DEF i
    <2> QED BY <1>1, Divided
  <1>3. 0 \in Below(s)
    BY DEF Below
  <1>4. i = s * h + 0
    BY <1>1
  <1> HIDE DEF q, a
  <1>5. At(s, q, a) = At(s, h, 0)
    BY <1>2, <1>4 DEF At
  <1>6. q = h
    BY <1>2, <1>3, <1>5, OneByte
  <1> QED BY <1>6 DEF q

LEMMA PictureMin ==
  ASSUME NEW a \in Int, NEW b \in Int
  PROVE  Pictures!Min({a, b}) = IF a <= b THEN a ELSE b
  <1>1. Pictures!Min({a, b}) = Rects!Min({a, b})
    BY DEF Pictures!Min, Rects!Min
  <1> QED BY <1>1, Least

LEMMA ThroughDevice ==
  ASSUME NEW texture, Sized(texture), NEW pitch \in Nat, RowLength(texture, texture.Width) <= pitch
  PROVE  Pictures!Shows(
           Pictures!Download(Pictures!Update(Pictures!Mapped(texture.Width, texture.Height, texture.Format, pitch), texture)),
           texture, 0, 0)
  <1> DEFINE w == texture.Width
             h == texture.Height
             s == texture.Stride
             count == Pictures!Min({s, pitch})
             mapped == Pictures!Mapped(w, h, texture.Format, pitch)
             result == Pictures!Download(Pictures!Update(mapped, texture))
  <1>1. Size(texture) \in Nat /\ w \in Nat /\ h \in Nat /\ s \in Nat \ {0} /\ RowLength(texture, w) <= s
    BY DEF Sized, RowLength
  <1>2. RowLength(texture, w) \in Nat
    BY <1>1 DEF RowLength
  <1>3. count \in Nat /\ RowLength(texture, w) <= count /\ count <= pitch
    <2> HIDE DEF s, w
    <2>1. count = IF s <= pitch THEN s ELSE pitch
      BY <1>1, PictureMin
    <2> HIDE DEF count
    <2> QED BY <1>1, <1>2, <2>1 DEF w
  <1>4. Pictures!Min({Pictures!ByteCount(texture) \div s, h}) = h
    <2>1. Pictures!ByteCount(texture) \div s = h
      <3>1. Pictures!ByteCount(texture) = s * h
        BY DEF Pictures!ByteCount
      <3> HIDE DEF s, h
      <3> QED BY <1>1, <3>1, AllRows
    <2> HIDE DEF s, h
    <2> QED BY <1>1, <2>1, PictureMin
  <1>5. mapped = Pictures!Texture(w, h, pitch, texture.Format, Zeros(pitch, h))
    BY DEF Pictures!Mapped, Zeros, Pictures!Below, Below
  <1>6. Pictures!Update(mapped, texture) =
          [mapped EXCEPT !.Buffer = Pictures!CopyRows(@, 0, mapped.Stride, texture.Buffer, 0, s, Pictures!Min({s, mapped.Stride}), h)]
    <2> HIDE DEF mapped
    <2> QED BY <1>4 DEF Pictures!Update
  <1>7. mapped.Stride = pitch
    <2> HIDE DEF mapped
    <2> QED BY <1>5 DEF Pictures!Texture
  <1>8. Pictures!Update(mapped, texture) =
          Pictures!Texture(w, h, pitch, texture.Format, Pictures!CopyRows(Zeros(pitch, h), 0, pitch, texture.Buffer, 0, s, count, h))
    <2> HIDE DEF mapped, w, h, s
    <2> QED BY <1>5, <1>6, <1>7 DEF Pictures!Texture
  <1>9. Repitched(texture, pitch, texture.Format, count) =
          Pictures!Texture(w, h, pitch, texture.Format, Pictures!CopyRows(Zeros(pitch, h), 0, pitch, texture.Buffer, 0, s, count, h))
    BY RepitchedIs
  <1>10. result = Repitched(texture, pitch, texture.Format, count)
    <2> HIDE DEF mapped, w, h, s, count
    <2> QED BY <1>8, <1>9 DEF Pictures!Download, Pictures!Texture
  <1>11. Pictures!Shows(Repitched(texture, pitch, texture.Format, count), texture, 0, 0)
    <2> HIDE DEF count
    <2> QED BY <1>3, RepitchedShows DEF w
  <1> HIDE DEF result, count, mapped
  <1> QED BY <1>10, <1>11 DEF result, mapped, w, h

THEOREM PicturesReadBackAll ==
  ASSUME NEW texture, IsPicture(texture), NEW pitch \in Nat
  PROVE  Pictures!PicturesReadBack(texture, pitch)
  <1>1. Sized(texture) /\ IsWhole(texture)
    BY PictureSized, PictureIsWhole
  <1>2. texture.Width * Pictures!BytesPerPixel(texture.Format) = RowLength(texture, texture.Width)
    <2>1. Size(texture) \in Nat /\ texture.Width \in Nat
      BY <1>1 DEF Sized
    <2> QED BY <2>1 DEF RowLength, Size
  <1>3. RowLength(texture, texture.Width) \in Nat
    BY <1>1 DEF Sized, RowLength
  <1> QED BY <1>1, <1>2, <1>3, BytesReadBack, ThroughBitmap, ThroughDevice DEF Pictures!PicturesReadBack

-----------------------------------------------------------------------------
(* A blended byte lies between the two it is made of.                          *)
Byte == 0..255
Weight(t, s, a) == t * (255 - a) + s * a
BlendOf(t, s, a) == (2 * Weight(t, s, a) + 255) \div 510

LEMMA Weighted ==
  ASSUME NEW t \in Int, NEW s \in Int, NEW a \in Byte, NEW least \in Int, NEW most \in Int,
         least <= t, least <= s, t <= most, s <= most
  PROVE  Weight(t, s, a) \in Int /\ 255 * least <= Weight(t, s, a) /\ Weight(t, s, a) <= 255 * most
  <1> DEFINE c == 255 - a
  <1>1. a \in Nat /\ c \in Nat
    BY DEF Byte
  <1>2. /\ c * least <= c * t /\ c * t <= c * most /\ a * least <= a * s /\ a * s <= a * most
        /\ c * least \in Int /\ c * t \in Int /\ c * most \in Int /\ a * least \in Int /\ a * s \in Int /\ a * most \in Int
    <2> HIDE DEF c
    <2>1. c * least <= c * t /\ c * least \in Int /\ c * t \in Int
      BY <1>1, Monotone
    <2>2. c * t <= c * most /\ c * most \in Int
      BY <1>1, Monotone
    <2>3. a * least <= a * s /\ a * least \in Int /\ a * s \in Int
      BY <1>1, Monotone
    <2>4. a * s <= a * most /\ a * most \in Int
      BY <1>1, Monotone
    <2> QED BY <2>1, <2>2, <2>3, <2>4
  <1>3. c * least + a * least = 255 * least /\ c * most + a * most = 255 * most
    BY <1>1
  <1>4. t * c = c * t /\ s * a = a * s
    BY <1>1
  <1> DEFINE p == c * t
             q == a * s
             d == c * least
             e == a * least
             f == c * most
             g == a * most
  <1>5. d <= p /\ p <= f /\ e <= q /\ q <= g /\ d \in Int /\ p \in Int /\ f \in Int /\ e \in Int /\ q \in Int /\ g \in Int
    BY <1>2
  <1> HIDE DEF p, q, d, e, f, g
  <1>6. p + q \in Int /\ d + e <= p + q /\ p + q <= f + g
    BY <1>5
  <1>7. Weight(t, s, a) = p + q
    BY <1>4 DEF Weight, p, q
  <1> QED BY <1>3, <1>6, <1>7 DEF d, e, f, g

Between(b, t, s, a) ==
  /\ Pictures!Min({s, t}) <= b /\ b <= Pictures!Max({s, t})
  /\ (a = 0 => b = t) /\ (a = 255 => b = s)

LEMMA Blended ==
  ASSUME NEW t \in Byte, NEW s \in Byte, NEW a \in Byte
  PROVE  Between(BlendOf(t, s, a), t, s, a)
  <1> DEFINE least == IF s <= t THEN s ELSE t
             most == IF s <= t THEN t ELSE s
             sum == Weight(t, s, a)
  <1>1. t \in Int /\ s \in Int /\ least \in Int /\ most \in Int /\ least <= t /\ least <= s /\ t <= most /\ s <= most
    BY DEF Byte
  <1>2. Pictures!Min({s, t}) = least /\ Pictures!Max({s, t}) = most
    <2>1. Pictures!Max({s, t}) = Rects!Max({s, t})
      BY DEF Pictures!Max, Rects!Max
    <2> QED BY <1>1, <2>1, PictureMin, Greatest
  <1>3. sum \in Int /\ 255 * least <= sum /\ sum <= 255 * most
    <2> HIDE DEF least, most
    <2> QED BY <1>1, Weighted
  <1>4. BlendOf(t, s, a) = (2 * sum + 255) \div 510
    BY DEF BlendOf
  <1> HIDE DEF sum, least, most
  <1>5. least <= (2 * sum + 255) \div 510 /\ (2 * sum + 255) \div 510 <= most
    BY <1>1, <1>3
  <1>6. ASSUME a = 0 PROVE BlendOf(t, s, a) = t
    <2>1. sum = 255 * t
      BY <1>1, <1>6 DEF sum, Weight
    <2>2. (2 * (255 * t) + 255) \div 510 = t
      BY <1>1
    <2> QED BY <1>4, <2>1, <2>2
  <1>7. ASSUME a = 255 PROVE BlendOf(t, s, a) = s
    <2>1. sum = 255 * s
      BY <1>1, <1>7 DEF sum, Weight
    <2>2. (2 * (255 * s) + 255) \div 510 = s
      BY <1>1
    <2> QED BY <1>4, <2>1, <2>2
  <1> QED BY <1>2, <1>4, <1>5, <1>6, <1>7 DEF Between

LEMMA PlaceIs ==
  ASSUME NEW s \in Nat \ {0}, NEW y \in Nat, NEW a \in Below(s)
  PROVE  At(s, y, a) \div s = y /\ At(s, y, a) % s = a
  <1> DEFINE i == At(s, y, a)
             q == i \div s
             r == i % s
  <1>1. i \in Nat
    BY DEF At, Below
  <1>2. q \in Nat /\ r \in Below(s) /\ i = s * q + r
    <2> HIDE DEF i
    <2> QED BY <1>1, Divided
  <1> HIDE DEF q, r
  <1>3. At(s, q, r) = At(s, y, a)
    BY <1>2 DEF At
  <1>4. q = y /\ r = a
    BY <1>2, <1>3, OneByte
  <1> QED BY <1>4 DEF q, r

LEMMA ByteOfPicture ==
  ASSUME NEW texture, IsPicture(texture), NEW x \in Below(texture.Width), NEW y \in Below(texture.Height),
         NEW k \in Below(Size(texture))
  PROVE  /\ Pictures!Pixel(texture, x, y)[k] = texture.Buffer[At(texture.Stride, y, At(Size(texture), x, k))]
         /\ Pictures!Pixel(texture, x, y)[k] \in Byte
         /\ At(Size(texture), x, k) \in Below(texture.Stride)
  <1> DEFINE b == Size(texture)
             s == texture.Stride
             h == texture.Height
  <1>1. /\ b \in Nat \ {0} /\ s \in Nat /\ h \in Nat /\ texture.Width \in Nat /\ b * texture.Width <= s
        /\ Size(texture) = b /\ texture.Stride = s
    BY PictureSized DEF Sized
  <1>2. texture.Buffer \in [Below(s * h) -> Byte]
    BY DEF IsPicture, Below, Byte
  <1>3. x \in Int /\ y \in Int
    BY DEF Below
  <1> HIDE DEF b, s, h
  <1>4. Pictures!Pixel(texture, x, y) = [i \in Below(b) |-> texture.Buffer[At(s, y, At(b, x, i))]]
    BY <1>1, <1>3, PixelIs
  <1>5. k \in Below(b) /\ y \in Below(h)
    BY DEF b, h
  <1>6. At(b, x, k) \in Below(s)
    BY <1>1, <1>5, ByteOfPixel
  <1>7. At(s, y, At(b, x, k)) \in Below(s * h)
    BY <1>1, <1>5, <1>6, ByteInside
  <1> QED BY <1>2, <1>4, <1>5, <1>6, <1>7 DEF b, s

LEMMA Quarters ==
  ASSUME NEW w \in Nat, NEW x \in Below(w), NEW k \in Below(4)
  PROVE  /\ (At(4, x, k) * 4) \div 4 = At(4, x, k) /\ (At(4, x, k) * 1) \div 4 = x /\ At(4, x, k) \in Below(4 * w)
         /\ At(1, x, 0) = x
  BY DEF At, Below

(* A byte of the picture that two others are blended to.                       *)
BlendsTo(result, under, over, alpha) ==
  /\ Sized(result) /\ Size(result) = 4 /\ Size(under) = 4 /\ Size(over) = 4 /\ Size(alpha) = 1
  /\ over.Width = under.Width /\ over.Height = under.Height /\ alpha.Width = under.Width /\ alpha.Height = under.Height
  /\ result.Width = under.Width /\ result.Height = under.Height /\ result.Stride = 4 * under.Width
  /\ \A x \in Below(under.Width), y \in Below(under.Height), k \in Below(4) :
       result.Buffer[At(4 * under.Width, y, At(4, x, k))] =
         BlendOf(under.Buffer[At(under.Stride, y, At(4, x, k))],
                 over.Buffer[At(over.Stride, y, At(4, x, k))], alpha.Buffer[At(alpha.Stride, y, At(1, x, 0))])

LEMMA BlendIs ==
  ASSUME NEW under, IsPicture(under), NEW over, IsPicture(over), NEW alpha, IsPicture(alpha),
         NEW blended, Pictures!AlphaBlend(under, over, alpha) = blended, blended # <<>>
  PROVE  BlendsTo(blended[1], under, over, alpha)
  <1> DEFINE w == under.Width
             h == under.Height
             s == 4 * w
             created == Pictures!Created(w, h, under.Format)
             at(texture, i, size) == texture.Buffer[texture.Stride * (i \div s) + ((i % s) * size) \div 4]
             bytes == [i \in Below(s * h) |-> BlendOf(at(under, i, 4), at(over, i, 4), at(alpha, i, 1))]
  <1>1. /\ Pictures!IsUByteN4Compatible(under.Format) /\ Pictures!IsUByteN4Compatible(over.Format)
        /\ Pictures!IsUByteN1Compatible(alpha.Format)
        /\ over.Width = w /\ over.Height = h /\ alpha.Width = w /\ alpha.Height = h
    BY DEF Pictures!AlphaBlend
  <1>2. ASSUME NEW format, Pictures!IsUByteN4Compatible(format) PROVE Pictures!BitsPerPixel(format) = 32
    BY <1>2 DEF Pictures!IsUByteN4Compatible, Pictures!BitsPerPixel
  <1>3. Pictures!BitsPerPixel(alpha.Format) = 8
    BY <1>1 DEF Pictures!IsUByteN1Compatible, Pictures!BitsPerPixel
  <1>4. Size(under) = 4 /\ Size(over) = 4 /\ Size(alpha) = 1
    <2>1. 32 \div 8 = 4 /\ 8 \div 8 = 1
      OBVIOUS
    <2> QED BY <1>1, <1>2, <1>3, <2>1 DEF Size, Pictures!BytesPerPixel
  <1>5. w \in Nat \ {0} /\ h \in Nat \ {0} /\ s \in Nat \ {0} /\ Pictures!BitsPerPixel(under.Format) = 8 * 4
    <2>1. w \in Nat \ {0} /\ h \in Nat \ {0}
      BY PictureSized DEF Sized
    <2>2. Pictures!BitsPerPixel(under.Format) = 32
      BY <1>1, <1>2
    <2> HIDE DEF w, h
    <2> QED BY <2>1, <2>2
  <1>6. created = Pictures!Texture(w, h, s, under.Format, Zeros(s, h))
    <2> DEFINE b == 4
    <2>1. b \in Nat \ {0} /\ Pictures!BitsPerPixel(under.Format) = 8 * b /\ s = b * w
      BY <1>5
    <2> HIDE DEF w, h, s, b
    <2> QED BY <1>5, <2>1, CreatedIs DEF Zeros
  <1>7. created.Stride = s /\ DOMAIN created.Buffer = Below(s * h)
    <2> HIDE DEF s, w, h, created
    <2> QED BY <1>6 DEF Pictures!Texture, Zeros
  <1>8. blended = <<[created EXCEPT !.Buffer = bytes]>>
    <2> HIDE DEF s
    <2> QED BY <1>7 DEF Pictures!AlphaBlend, BlendOf, Weight
  <1> HIDE DEF bytes, created
  <1>9. blended[1] = Pictures!Texture(w, h, s, under.Format, bytes)
    BY <1>6, <1>8 DEF Pictures!Texture
  <1> HIDE DEF s, w, h
  <1>10. /\ blended[1].Width = w /\ blended[1].Height = h /\ blended[1].Stride = s /\ blended[1].Format = under.Format
         /\ blended[1].Buffer = bytes
    BY <1>9 DEF Pictures!Texture
  <1>11. Size(blended[1]) = 4
    BY <1>4, <1>10 DEF Size, Pictures!BytesPerPixel
  <1>12. Sized(blended[1])
    <2>1. DOMAIN bytes = Below(s * h)
      BY DEF bytes
    <2>2. 4 * w <= s
      BY <1>5 DEF s
    <2> QED BY <1>5, <1>10, <1>11, <2>1, <2>2 DEF Sized
  <1>13. ASSUME NEW x \in Below(w), NEW y \in Below(h), NEW k \in Below(4)
         PROVE  bytes[At(s, y, At(4, x, k))] =
                  BlendOf(under.Buffer[At(under.Stride, y, At(4, x, k))],
                          over.Buffer[At(over.Stride, y, At(4, x, k))], alpha.Buffer[At(alpha.Stride, y, At(1, x, 0))])
    <2> DEFINE a == At(4, x, k)
               i == At(s, y, a)
    <2>1. (a * 4) \div 4 = a /\ (a * 1) \div 4 = x /\ a \in Below(s) /\ At(1, x, 0) = x
      BY <1>5, Quarters DEF s
    <2> HIDE DEF a
    <2>2. y \in Nat
      BY DEF Below
    <2>3. i \in Below(s * h)
      BY <1>5, <2>1, ByteInside
    <2>4. i \div s = y /\ i % s = a
      BY <1>5, <2>1, <2>2, PlaceIs
    <2> HIDE DEF i
    <2>5. bytes[i] = BlendOf(at(under, i, 4), at(over, i, 4), at(alpha, i, 1))
      BY <2>3 DEF bytes
    <2>6. /\ at(under, i, 4) = under.Buffer[At(under.Stride, y, a)]
          /\ at(over, i, 4) = over.Buffer[At(over.Stride, y, a)]
          /\ at(alpha, i, 1) = alpha.Buffer[At(alpha.Stride, y, At(1, x, 0))]
      BY <2>1, <2>4 DEF At
    <2> QED BY <2>5, <2>6 DEF i, a
  <1> QED BY <1>1, <1>4, <1>10, <1>11, <1>12, <1>13 DEF BlendsTo, s, w, h

THEOREM BlendsBetweenAll ==
  ASSUME NEW under, IsPicture(under), NEW over, IsPicture(over), NEW alpha, IsPicture(alpha)
  PROVE  Pictures!BlendsBetween(under, over, alpha)
  <1> DEFINE blended == Pictures!AlphaBlend(under, over, alpha)
             result == blended[1]
             w == under.Width
             s == 4 * w
  <1> HIDE DEF blended
  <1> SUFFICES ASSUME blended # <<>>
               PROVE  /\ Pictures!IsValid(result)
                      /\ \A x \in Below(w), y \in Below(under.Height), k \in Below(4) :
                           LET t == Pictures!Pixel(under, x, y)[k]
                               u == Pictures!Pixel(over, x, y)[k]
                               a == Pictures!Pixel(alpha, x, y)[0]
                               b == Pictures!Pixel(result, x, y)[k]
                           IN /\ Pictures!Min({u, t}) <= b /\ b <= Pictures!Max({u, t})
                              /\ (a = 0 => b = t) /\ (a = 255 => b = u)
    BY DEF Pictures!BlendsBetween, Pictures!Below, Below, blended
  <1>1. /\ Sized(result) /\ Size(result) = 4 /\ Size(under) = 4 /\ Size(over) = 4 /\ Size(alpha) = 1
        /\ over.Width = w /\ over.Height = under.Height
        /\ alpha.Width = w /\ alpha.Height = under.Height
        /\ result.Width = w /\ result.Height = under.Height /\ result.Stride = s
        /\ \A x \in Below(w), y \in Below(under.Height), k \in Below(4) :
             result.Buffer[At(s, y, At(4, x, k))] =
               BlendOf(under.Buffer[At(under.Stride, y, At(4, x, k))],
                       over.Buffer[At(over.Stride, y, At(4, x, k))], alpha.Buffer[At(alpha.Stride, y, At(1, x, 0))])
    <2>1. BlendsTo(result, under, over, alpha)
      <3>1. Pictures!AlphaBlend(under, over, alpha) = blended
        BY DEF blended
      <3> QED BY <3>1, BlendIs
    <2> HIDE DEF result
    <2> QED BY <2>1 DEF BlendsTo
  <1>2. ASSUME NEW x \in Below(w), NEW y \in Below(under.Height), NEW k \in Below(4)
        PROVE  LET t == Pictures!Pixel(under, x, y)[k]
                   u == Pictures!Pixel(over, x, y)[k]
                   a == Pictures!Pixel(alpha, x, y)[0]
                   b == Pictures!Pixel(result, x, y)[k]
               IN /\ Pictures!Min({u, t}) <= b /\ b <= Pictures!Max({u, t})
                  /\ (a = 0 => b = t) /\ (a = 255 => b = u)
    <2> DEFINE t == Pictures!Pixel(under, x, y)[k]
               u == Pictures!Pixel(over, x, y)[k]
               a == Pictures!Pixel(alpha, x, y)[0]
               b == Pictures!Pixel(result, x, y)[k]
    <2>1. t \in Byte /\ t = under.Buffer[At(under.Stride, y, At(4, x, k))]
      BY <1>1, ByteOfPicture
    <2>2. u \in Byte /\ u = over.Buffer[At(over.Stride, y, At(4, x, k))]
      BY <1>1, ByteOfPicture
    <2>3. a \in Byte /\ a = alpha.Buffer[At(alpha.Stride, y, At(1, x, 0))]
      <3>1. 0 \in Below(1)
        BY DEF Below
      <3> QED BY <1>1, <3>1, ByteOfPicture
    <2>4. b = result.Buffer[At(s, y, At(4, x, k))]
      <3>1. x \in Int /\ y \in Int
        BY DEF Below
      <3>2. result.Stride \in Nat
        BY <1>1 DEF Sized
      <3> HIDE DEF result
      <3>3. Pictures!Pixel(result, x, y) = [i \in Below(4) |-> result.Buffer[At(result.Stride, y, At(4, x, i))]]
        BY <1>1, <3>1, <3>2, PixelIs
      <3> QED BY <1>1, <3>3
    <2>5. b = BlendOf(t, u, a)
      <3> HIDE DEF result, t, u, a, b
      <3> QED BY <1>1, <2>1, <2>2, <2>3, <2>4
    <2> HIDE DEF t, u, a, b
    <2>6. Between(b, t, u, a)
      BY <2>1, <2>2, <2>3, <2>5, Blended
    <2> QED BY <2>6 DEF Between, t, u, a, b
  <1> QED BY <1>1, <1>2, SizedIsValid

-----------------------------------------------------------------------------
(* Another size, through a bitmap that the system scales.                      *)
LEMMA ScaledIs ==
  ASSUME NEW texture, Sized(texture), Pictures!ToWicPixelFormat(texture.Format) # <<>>, NEW width \in Nat \ {0}, NEW height \in Nat \ {0}
  PROVE  LET back == Pictures!FromWicBitmap(Pictures!Scaled(Pictures!ToWicBitmap(texture), width, height))
         IN Sized(back) /\ IsTight(back) /\ IsWhole(back) /\ back.Width = width /\ back.Height = height
  <1> DEFINE wic == Pictures!ToWicPixelFormat(texture.Format)[1]
             format == Pictures!ToDxgiFormat(wic)
             b == Size(texture)
             pitch == Pictures!WicPitch(format, width)
             bitmap == Pictures!ToWicBitmap(texture)
             scaled == Pictures!Scaled(bitmap, width, height)
             mapped == Pictures!Mapped(width, height, wic, pitch)
             image == Pictures!Texture(width, height, pitch, format, scaled.Buffer)
  <1>1. b \in Nat \ {0} /\ Pictures!BitsPerPixel(texture.Format) = 8 * b
    BY DEF Sized
  <1>2. Pictures!BitsPerPixel(format) = 8 * b
    <2>1. Pictures!BitsPerPixel(texture.Format) # 0
      BY <1>1
    <2> QED BY <1>1, <2>1, FormatsBack
  <1>3. bitmap.Format = wic
    BY BitmapIs
  <1>4. mapped = Pictures!Texture(width, height, pitch, wic, Zeros(pitch, height))
    BY DEF Pictures!Mapped, Zeros, Pictures!Below, Below
  <1>5. scaled.Width = width /\ scaled.Height = height /\ scaled.Stride = pitch /\ scaled.Format = wic /\ DOMAIN scaled.Buffer = Below(pitch * height)
    <2> HIDE DEF bitmap, wic, pitch, mapped
    <2> QED BY <1>3, <1>4 DEF Pictures!Scaled, Pictures!Texture, Zeros, mapped, pitch, format
  <1> HIDE DEF scaled, bitmap, mapped
  <1>6. /\ image.Width = width /\ image.Height = height /\ image.Stride = pitch /\ image.Format = format
        /\ image.Buffer = scaled.Buffer
    BY DEF Pictures!Texture
  <1>7. pitch \in Nat \ {0} /\ b * width <= pitch
    <2> DEFINE length == b * width
    <2>1. length \in Nat \ {0}
      BY <1>1, Positive
    <2>2. Pictures!BytesPerPixel(format) = b
      <3> HIDE DEF b
      <3>1. (8 * b) \div 8 = b
        BY <1>1
      <3> QED BY <1>2, <3>1 DEF Pictures!BytesPerPixel
    <2>3. pitch = 4 * ((length + 3) \div 4)
      BY <2>2 DEF Pictures!WicPitch
    <2> HIDE DEF length, pitch
    <2>4. pitch \in Nat /\ length <= pitch
      BY <2>1, <2>3, RoundedUp
    <2> QED BY <2>1, <2>4 DEF length
  <1> HIDE DEF image, pitch, format, wic
  <1>8. Sized(image) /\ Size(image) = b
    <2>1. Size(image) = b
      <3> HIDE DEF b
      <3>1. (8 * b) \div 8 = b
        BY <1>1
      <3> QED BY <1>2, <1>6, <3>1 DEF Size, Pictures!BytesPerPixel
    <2> HIDE DEF b
    <2> QED BY <1>1, <1>2, <1>5, <1>6, <1>7, <2>1 DEF Sized
  <1>9. FromBitmapIs(scaled, image, format) /\ Pictures!BitsPerPixel(format) = Pictures!BitsPerPixel(image.Format)
    BY <1>5, <1>6 DEF FromBitmapIs, format
  <1>10. LET back == Pictures!FromWicBitmap(scaled)
         IN Sized(back) /\ IsTight(back) /\ IsWhole(back) /\ back.Width = image.Width /\ back.Height = image.Height
    BY <1>8, <1>9, FromBitmap
  <1> QED BY <1>6, <1>10 DEF scaled, bitmap

(* The size that is asked for: never too wide and too high, and just so in one *)
(* direction.                                                                  *)
LEMMA Narrower ==
  ASSUME NEW w \in Nat \ {0}, NEW h \in Nat \ {0}, NEW width \in Nat, NEW height \in Nat, width * h > w * height
  PROVE  (w * height) \div h \in Nat /\ (w * height) \div h < width
  <1> DEFINE i == w * height
             q == i \div h
             r == i % h
  <1>1. i \in Nat /\ i < h * width
    OBVIOUS
  <1>2. q \in Nat /\ r \in Below(h) /\ i = h * q + r
    <2> HIDE DEF i
    <2> QED BY <1>1, Divided
  <1> HIDE DEF q, r
  <1>3. ASSUME width <= q PROVE FALSE
    <2>1. h * width <= h * q /\ h * width \in Int /\ h * q \in Int
      BY <1>2, <1>3, Monotone
    <2> DEFINE u == h * width
               v == h * q
    <2>2. i < u /\ i = v + r /\ u <= v /\ u \in Int /\ v \in Int /\ r \in Nat
      BY <1>1, <1>2, <2>1 DEF Below
    <2> HIDE DEF u, v, i
    <2> QED BY <1>1, <2>2
  <1> QED BY <1>2, <1>3 DEF q

LEMMA NotHigher ==
  ASSUME NEW w \in Nat \ {0}, NEW h \in Nat \ {0}, NEW width \in Nat, NEW height \in Nat, ~(width * h > w * height)
  PROVE  (width * h) \div w \in Nat /\ (width * h) \div w <= height
  <1> DEFINE i == width * h
             q == i \div w
             r == i % w
  <1>1. i \in Nat /\ i <= w * height
    OBVIOUS
  <1>2. q \in Nat /\ r \in Below(w) /\ i = w * q + r
    <2> HIDE DEF i
    <2> QED BY <1>1, Divided
  <1> HIDE DEF q, r
  <1>3. ASSUME height + 1 <= q PROVE FALSE
    <2>1. w * (height + 1) <= w * q /\ w * q \in Int
      BY <1>2, <1>3, Monotone
    <2>2. w * (height + 1) = w * height + w
      OBVIOUS
    <2> DEFINE u == w * height
               v == w * q
    <2>3. i <= u /\ i = v + r /\ u + w <= v /\ u \in Int /\ v \in Int /\ r \in Nat
      BY <1>1, <1>2, <2>1, <2>2 DEF Below
    <2> HIDE DEF u, v, i
    <2> QED BY <1>1, <2>3
  <1> QED BY <1>2, <1>3 DEF q

(* The picture of the size that fits is in the middle.                         *)
LEMMA ResizedIs ==
  ASSUME NEW texture, Sized(texture), IsWhole(texture), NEW width \in Nat \ {0}, NEW height \in Nat \ {0},
         IF width = texture.Width /\ height = texture.Height THEN IsTight(texture)
         ELSE Pictures!ToWicPixelFormat(texture.Format) # <<>>
  PROVE  LET resized == Pictures!Resize(texture, width, height)
         IN /\ Sized(resized) /\ IsTight(resized) /\ IsWhole(resized) /\ resized.Width = width /\ resized.Height = height
  <1>1. ~Pictures!IsEmpty(texture)
    BY SizedIsValid
  <1>2. CASE width = texture.Width /\ height = texture.Height
    BY <1>1, <1>2 DEF Pictures!Resize
  <1>3. CASE ~(width = texture.Width /\ height = texture.Height)
    <2>1. Pictures!Resize(texture, width, height) =
            Pictures!FromWicBitmap(Pictures!Scaled(Pictures!ToWicBitmap(texture), width, height))
      BY <1>1, <1>3 DEF Pictures!Resize
    <2> QED BY <1>3, <2>1, ScaledIs
  <1> QED BY <1>2, <1>3

LEMMA InMiddle ==
  ASSUME NEW most \in Nat, NEW n \in Nat, n <= most
  PROVE  LET near == (most - n) \div 2
             low == most \div 2 - n \div 2
             high == most \div 2 + n \div 2
         IN near <= low /\ high <= near + n /\ low - 1 <= near /\ near + n <= high + 1
  OBVIOUS

RoomAround(shown, rect) ==
  Pictures!Rects!Contains(shown, rect) /\ Pictures!Rects!Contains(Pictures!Rects!Offset(rect, 1), shown)
Strip(width, n, m) == Pictures!Rects!RectOf(width \div 2 - n \div 2, 0, width \div 2 + n \div 2, m)
Band(height, n, m) == Pictures!Rects!RectOf(0, height \div 2 - m \div 2, n, height \div 2 + m \div 2)
Middle(width, height, n, m) ==
  Pictures!Rects!FromLeftTopSize(
    Pictures!Rects!PointOf((width - n) \div 2, (height - m) \div 2), Pictures!Rects!SizeOf(n, m))

LEMMA HalfOfNone ==
  ASSUME NEW n \in Int
  PROVE  (n - n) \div 2 = 0
  <1>1. n - n = 0
    OBVIOUS
  <1> QED BY <1>1

LEMMA MiddleIs ==
  ASSUME NEW width \in Nat, NEW height \in Nat, NEW n \in Nat, NEW m \in Nat
  PROVE  LET shown == Middle(width, height, n, m)
         IN /\ shown.Left = (width - n) \div 2 /\ shown.Top = (height - m) \div 2
            /\ shown.Right = (width - n) \div 2 + n /\ shown.Bottom = (height - m) \div 2 + m
  BY DEF Middle, Pictures!Rects!FromLeftTopSize, Pictures!Rects!PointOf, Pictures!Rects!SizeOf, Pictures!Rects!RectOf

LEMMA StripAround ==
  ASSUME NEW width \in Nat, NEW m \in Nat, NEW n \in Nat, n <= width
  PROVE  RoomAround(Middle(width, m, n, m), Strip(width, n, m))
  <1> DEFINE near == (width - n) \div 2
             low == width \div 2 - n \div 2
             high == width \div 2 + n \div 2
             shown == Middle(width, m, n, m)
             rect == Strip(width, n, m)
  <1>1. near \in Int /\ low \in Int /\ high \in Int /\ near <= low /\ high <= near + n /\ low - 1 <= near /\ near + n <= high + 1
    BY InMiddle
  <1>2. shown.Left = near /\ shown.Top = 0 /\ shown.Right = near + n /\ shown.Bottom = 0 + m
    <2>1. (m - m) \div 2 = 0
      BY HalfOfNone
    <2> QED BY <2>1, MiddleIs
  <1>3. rect = Pictures!Rects!RectOf(low, 0, high, m)
    BY DEF Strip
  <1> HIDE DEF near, low, high, shown, rect
  <1> QED BY <1>1, <1>2, <1>3 DEF RoomAround, Pictures!Rects!Contains, Pictures!Rects!Offset, Pictures!Rects!RectOf, shown, rect

LEMMA BandAround ==
  ASSUME NEW height \in Nat, NEW m \in Nat, NEW n \in Nat, m <= height
  PROVE  RoomAround(Middle(n, height, n, m), Band(height, n, m))
  <1> DEFINE near == (height - m) \div 2
             low == height \div 2 - m \div 2
             high == height \div 2 + m \div 2
             shown == Middle(n, height, n, m)
             rect == Band(height, n, m)
  <1>1. near \in Int /\ low \in Int /\ high \in Int /\ near <= low /\ high <= near + m /\ low - 1 <= near /\ near + m <= high + 1
    BY InMiddle
  <1>2. shown.Left = 0 /\ shown.Top = near /\ shown.Right = 0 + n /\ shown.Bottom = near + m
    <2>1. (n - n) \div 2 = 0
      BY HalfOfNone
    <2> QED BY <2>1, MiddleIs
  <1>3. rect = Pictures!Rects!RectOf(0, low, n, high)
    BY DEF Band
  <1> HIDE DEF near, low, high, shown, rect
  <1> QED BY <1>1, <1>2, <1>3 DEF RoomAround, Pictures!Rects!Contains, Pictures!Rects!Offset, Pictures!Rects!RectOf, shown, rect

(* What is asked of a result, and each of the three ways to it.                *)
Fitting(result, rect, resized, width, height, n, m) ==
  /\ result.Width = width /\ result.Height = height
  /\ Pictures!Shows(result, resized, Middle(width, height, n, m).Left, Middle(width, height, n, m).Top)
  /\ RoomAround(Middle(width, height, n, m), rect)

LEMMA FitsAsItIs ==
  ASSUME NEW resized, Sized(resized), NEW n \in Nat, NEW m \in Nat, resized.Width = n, resized.Height = m
  PROVE  Fitting(resized, Pictures!Rects!FromSize(Pictures!Rects!SizeOf(n, m)), resized, n, m, n, m)
  <1> DEFINE shown == Middle(n, m, n, m)
             rect == Pictures!Rects!FromSize(Pictures!Rects!SizeOf(n, m))
  <1>1. (n - n) \div 2 = 0 /\ (m - m) \div 2 = 0
    BY HalfOfNone
  <1>2. shown.Left = 0 /\ shown.Top = 0 /\ shown.Right = 0 + n /\ shown.Bottom = 0 + m
    BY <1>1, MiddleIs
  <1>3. rect = Pictures!Rects!RectOf(0, 0, n, m)
    BY DEF Pictures!Rects!FromSize, Pictures!Rects!SizeOf
  <1> HIDE DEF shown, rect
  <1>4. RoomAround(shown, rect)
    BY <1>2, <1>3 DEF RoomAround, Pictures!Rects!Contains, Pictures!Rects!Offset, Pictures!Rects!RectOf
  <1> QED BY <1>2, <1>4, ShowsItself DEF Fitting, shown, rect

LEMMA FitsAcross ==
  ASSUME NEW resized, Sized(resized), IsTight(resized), IsWhole(resized), NEW width \in Nat, NEW n \in Nat, NEW m \in Nat,
         n < width, resized.Width = n, resized.Height = m
  PROVE  Fitting(Pictures!ExtendHorizontally(resized, width), Strip(width, n, m), resized, width, m, n, m)
  <1> DEFINE result == Pictures!ExtendHorizontally(resized, width)
             c == (width - n) \div 2
             shown == Middle(width, m, n, m)
  <1>1. ShowsAt(result, resized, c, 0, 0, 0) /\ Remade(result, resized, width, m)
    BY WiderShows
  <1>2. shown.Left = c /\ shown.Top = 0
    <2>1. (m - m) \div 2 = 0
      BY HalfOfNone
    <2> QED BY <2>1, MiddleIs
  <1>3. c \in Int /\ c - 0 = c /\ 0 - 0 = 0
    OBVIOUS
  <1>4. RoomAround(shown, Strip(width, n, m))
    BY StripAround
  <1> HIDE DEF result, c, shown
  <1>5. Pictures!Shows(result, resized, shown.Left, shown.Top)
    BY <1>1, <1>2, <1>3 DEF ShowsAt
  <1> QED BY <1>1, <1>4, <1>5 DEF Fitting, Remade, result, shown

LEMMA FitsDown ==
  ASSUME NEW resized, Sized(resized), IsTight(resized), IsWhole(resized), NEW height \in Nat, NEW n \in Nat, NEW m \in Nat,
         m < height, resized.Width = n, resized.Height = m
  PROVE  Fitting(Pictures!ExtendVertically(resized, height), Band(height, n, m), resized, n, height, n, m)
  <1> DEFINE result == Pictures!ExtendVertically(resized, height)
             r == (height - m) \div 2
             shown == Middle(n, height, n, m)
  <1>1. ShowsAt(result, resized, 0, 0, r, 0) /\ Remade(result, resized, n, height)
    BY HigherShows
  <1>2. shown.Left = 0 /\ shown.Top = r
    <2>1. (n - n) \div 2 = 0
      BY HalfOfNone
    <2> QED BY <2>1, MiddleIs
  <1>3. r \in Int /\ r - 0 = r /\ 0 - 0 = 0
    OBVIOUS
  <1>4. RoomAround(shown, Band(height, n, m))
    BY BandAround
  <1> HIDE DEF result, r, shown
  <1>5. Pictures!Shows(result, resized, shown.Left, shown.Top)
    BY <1>1, <1>2, <1>3 DEF ShowsAt
  <1> QED BY <1>1, <1>4, <1>5 DEF Fitting, Remade, result, shown

(* The size that fits, and what a picture is resized to.                       *)
LEMMA UniformIs ==
  ASSUME NEW texture, Sized(texture), NEW width \in Nat, NEW height \in Nat, NEW uniform,
         uniform = Pictures!UniformSize(texture, width, height)
  PROVE  /\ uniform = Pictures!Rects!SizeOf(uniform.Width, uniform.Height) /\ uniform.Width \in Nat /\ uniform.Height \in Nat
         /\ IF width * texture.Height > texture.Width * height
            THEN uniform.Width < width /\ uniform.Height = height
            ELSE uniform.Width = width /\ uniform.Height <= height
  <1>1. texture.Width \in Nat \ {0} /\ texture.Height \in Nat \ {0}
    BY DEF Sized
  <1> DEFINE w == texture.Width
             h == texture.Height
             wider == width * h > w * height
             across == (w * height) \div h
             down == (width * h) \div w
  <1>2. wider => across \in Nat /\ across < width
    BY <1>1, Narrower
  <1>3. ~wider => down \in Nat /\ down <= height
    BY <1>1, NotHigher
  <1>4. uniform = IF wider THEN Pictures!Rects!SizeOf(across, height) ELSE Pictures!Rects!SizeOf(width, down)
    BY DEF Pictures!UniformSize
  <1>5. (width * texture.Height > texture.Width * height) <=> wider
    OBVIOUS
  <1> HIDE DEF wider, across, down
  <1> QED BY <1>2, <1>3, <1>4, <1>5 DEF Pictures!Rects!SizeOf

THEOREM FitsUniformlyAll ==
  ASSUME NEW texture, IsPicture(texture), NEW width \in Nat, NEW height \in Nat
  PROVE  Pictures!FitsUniformly(texture, width, height)
  <1> DEFINE uniform == Pictures!UniformSize(texture, width, height)
             n == uniform.Width
             m == uniform.Height
             resized == Pictures!Resize(texture, n, m)
             result == Pictures!UniformResize(texture, width, height)
             fits == uniform = Pictures!Rects!SizeOf(texture.Width, texture.Height)
             usable == IF fits THEN Pictures!Tight(texture) ELSE Pictures!ToWicPixelFormat(texture.Format) # <<>>
             wider == width * texture.Height > texture.Width * height
  <1>1. Sized(texture) /\ IsWhole(texture) /\ (Pictures!Tight(texture) <=> IsTight(texture)) /\ ~Pictures!IsEmpty(texture)
    BY PictureSized, PictureIsWhole, TightIs, SizedIsValid
  <1>2. /\ uniform = Pictures!Rects!SizeOf(n, m) /\ n \in Nat /\ m \in Nat
        /\ IF wider THEN n < width /\ m = height ELSE n = width /\ m <= height
    BY <1>1, UniformIs
  <1> SUFFICES ASSUME n > 0, m > 0, usable
               PROVE  Fitting(result.texture, result.rect, resized, width, height, n, m)
    <2>1. Pictures!Rects!FromLeftTopSize(
            Pictures!Rects!PointOf((width - n) \div 2, (height - m) \div 2), uniform) = Middle(width, height, n, m)
      BY <1>2 DEF Middle
    <2> HIDE DEF uniform
    <2>2. Pictures!FitsUniformly(texture, width, height) <=>
            (n > 0 /\ m > 0 /\ usable =>
               /\ result.texture.Width = width /\ result.texture.Height = height
               /\ Pictures!Shows(result.texture, resized, Middle(width, height, n, m).Left, Middle(width, height, n, m).Top)
               /\ Pictures!Rects!Contains(Middle(width, height, n, m), result.rect)
               /\ Pictures!Rects!Contains(Pictures!Rects!Offset(result.rect, 1), Middle(width, height, n, m)))
      <3> HIDE DEF result, resized
      <3> QED BY <2>1 DEF Pictures!FitsUniformly, uniform, result, resized
    <2> HIDE DEF result, resized, usable, n, m
    <2> QED BY <2>2 DEF Fitting, RoomAround
  <1>3. fits <=> n = texture.Width /\ m = texture.Height
    <2> HIDE DEF uniform
    <2> QED BY <1>2 DEF Pictures!Rects!SizeOf, n, m
  <1>4. Sized(resized) /\ IsTight(resized) /\ IsWhole(resized) /\ resized.Width = n /\ resized.Height = m
    <2>1. n \in Nat \ {0} /\ m \in Nat \ {0}
      BY <1>2
    <2>2. IF n = texture.Width /\ m = texture.Height THEN IsTight(texture)
          ELSE Pictures!ToWicPixelFormat(texture.Format) # <<>>
      BY <1>1, <1>3
    <2> HIDE DEF n, m
    <2> QED BY <1>1, <2>1, <2>2, ResizedIs
  <1>5. uniform = Pictures!Rects!SizeOf(width, height) <=> n = width /\ m = height
    <2> HIDE DEF uniform
    <2> QED BY <1>2 DEF Pictures!Rects!SizeOf, n, m
  <1>6. result =
          IF uniform = Pictures!Rects!SizeOf(width, height)
          THEN [texture |-> resized, rect |-> Pictures!Rects!FromSize(uniform)]
          ELSE IF wider THEN [texture |-> Pictures!ExtendHorizontally(resized, width), rect |-> Strip(width, resized.Width, resized.Height)]
               ELSE [texture |-> Pictures!ExtendVertically(resized, height), rect |-> Band(height, resized.Width, resized.Height)]
    <2> HIDE DEF uniform
    <2> QED BY <1>1 DEF Pictures!UniformResize, Strip, Band, uniform
  <1> HIDE DEF uniform, n, m, resized, result, usable, fits, wider
  <1>7. CASE n = width /\ m = height
    <2>1. result = [texture |-> resized, rect |-> Pictures!Rects!FromSize(Pictures!Rects!SizeOf(n, m))]
      BY <1>2, <1>5, <1>6, <1>7
    <2>2. Fitting(resized, Pictures!Rects!FromSize(Pictures!Rects!SizeOf(n, m)), resized, n, m, n, m)
      BY <1>2, <1>4, FitsAsItIs
    <2> QED BY <1>7, <2>1, <2>2
  <1>8. CASE ~(n = width /\ m = height) /\ wider
    <2>1. result = [texture |-> Pictures!ExtendHorizontally(resized, width), rect |-> Strip(width, n, m)]
      BY <1>4, <1>5, <1>6, <1>8
    <2>2. n < width /\ m = height
      BY <1>2, <1>8
    <2>3. Fitting(Pictures!ExtendHorizontally(resized, width), Strip(width, n, m), resized, width, m, n, m)
      BY <1>2, <1>4, <2>2, FitsAcross
    <2> QED BY <2>1, <2>2, <2>3
  <1>9. CASE ~(n = width /\ m = height) /\ ~wider
    <2>1. result = [texture |-> Pictures!ExtendVertically(resized, height), rect |-> Band(height, n, m)]
      BY <1>4, <1>5, <1>6, <1>9
    <2>2. n = width /\ m < height
      BY <1>2, <1>9
    <2>3. Fitting(Pictures!ExtendVertically(resized, height), Band(height, n, m), resized, n, height, n, m)
      BY <1>2, <1>4, <2>2, FitsDown
    <2> QED BY <2>1, <2>2, <2>3
  <1> QED BY <1>7, <1>8, <1>9

(* Pictures are copied, cut and pasted, resized and blended as they should be, *)
(* whatever their sizes, formats, rows and bytes are.                          *)
THEOREM PicturesHold == GraphicsSpec => []PicturesShown
  <1> DEFINE PictureInv ==
               /\ part = "picture" => input \in [texture : Images, width : Lengths, height : Lengths]
               /\ part = "crop" => input \in [texture : Images, rect : Crops]
               /\ part = "blend" => input \in Blends
  <1>1. GraphicsInit => PictureInv
    BY DEF GraphicsInit, Inputs, GraphicsParts
  <1>2. PictureInv /\ [GraphicsNext]_graphicsVars => PictureInv'
    <2>1. [GraphicsNext]_graphicsVars => part' = part /\ input' = input
      BY DEF GraphicsNext, Binding, Updating, Scanning, graphicsVars, Pictures!Visit
    <2> QED BY <2>1
  <1>3. PictureInv => PicturesShown
    <2> SUFFICES ASSUME PictureInv PROVE PicturesShown
      OBVIOUS
    <2>1. ASSUME part = "picture"
          PROVE  /\ Pictures!StaysInTheMiddle(input.texture, input.width, input.height)
                 /\ Pictures!FitsUniformly(input.texture, input.width, input.height)
                 /\ Pictures!PicturesReadBack(input.texture, input.width)
      <3>1. /\ IsPicture(input.texture) /\ input.width \in Nat \ {0} /\ input.height \in Nat \ {0}
            /\ input.width \in Nat /\ input.height \in Nat
        BY <2>1, PicturesAssumption
      <3>2. Pictures!StaysInTheMiddle(input.texture, input.width, input.height)
        BY <3>1, InTheMiddle
      <3>3. Pictures!FitsUniformly(input.texture, input.width, input.height)
        BY <3>1, FitsUniformlyAll
      <3>4. Pictures!PicturesReadBack(input.texture, input.width)
        BY <3>1, PicturesReadBackAll
      <3> QED BY <3>2, <3>3, <3>4
    <2>2. ASSUME part = "crop", NEW position \in Places
          PROVE  Pictures!CutsAndPastes(input.texture, input.rect, position)
      <3>1. IsPicture(input.texture) /\ input.rect \in IntRects /\ position \in [X : Int, Y : Int]
        BY <2>2, PicturesAssumption DEF IntRects
      <3> QED BY <3>1, CutsAndPastesAll
    <2>3. ASSUME part = "blend" PROVE Pictures!BlendsBetween(input[1], input[2], input[3])
      <3>1. IsPicture(input[1]) /\ IsPicture(input[2]) /\ IsPicture(input[3])
        BY <2>3, PicturesAssumption
      <3> QED BY <3>1, BlendsBetweenAll
    <2> QED BY <2>1, <2>2, <2>3 DEF PicturesShown
  <1> QED BY <1>1, <1>2, <1>3, PTL DEF GraphicsSpec

-----------------------------------------------------------------------------
(* All that is shown is right: what the device reads and writes, where         *)
(* rectangles lie, what pictures contain, and the items a collection shows.    *)
THEOREM ShownHolds == GraphicsSpec => []ShownRight
  <1>1. BindingsKept /\ RectsFit /\ PicturesShown /\ CollectionsShown => ShownRight
    BY DEF ShownRight
  <1> QED BY <1>1, BindingsHold, RectsFitHolds, PicturesHold, CollectionsHold, PTL
=============================================================================
