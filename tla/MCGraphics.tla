----------------------------- MODULE MCGraphics -----------------------------
(***************************************************************************)
(* What is shown: textures bound through a graphics context, rectangles,   *)
(* pictures and collections of items. A behaviour picks one part at the    *)
(* start and one input of it, and a part that is none of these keeps       *)
(* everything here as it is; the device is called again and again: with a  *)
(* picture of two views and two levels, two targets, a depth buffer and    *)
(* two slots.                                                              *)
(***************************************************************************)
EXTENDS Integers, SequencesExt, FiniteSetsExt, TLC

CONSTANTS Parts,        \* the parts to run
          Rectangles, Sizes, Ratios, Scanned, Sources, Images, Lengths, Crops, Places, Blends,    \* inputs of the parts
          MaxInt, Outside,    \* of rectangles, and of what lies outside of a picture
          Unordered, Targets, Depths, Planes, Mips, Slots, UnorderedSlots, TargetSlots, Formats, Keys, NoView  \* and the device

VARIABLES part, input, views, device,
          source, before, target, itemsToDelete, upserted, moved, place,   \* of a collection that is shown
          pixel, bounds                                                   \* of a picture that is searched

updateVars == <<source, before, target, itemsToDelete, upserted, moved, place>>
graphicsVars == <<part, input, views, device, updateVars, pixel, bounds>>

Rects == INSTANCE Rect
Pictures == INSTANCE TextureData WITH Garbage <- Outside, picture <- input
Observable == INSTANCE ObservableCollection
Graphics == INSTANCE DeviceContext WITH bound <- views, Null <- NoView

\* A texture is a target, a depth buffer or neither; its levels count from 0; a view is made for one or for all of them.
ASSUME DeviceAssumption ==
  /\ Targets \cap Depths = {}
  /\ Planes \in [DOMAIN Planes -> Nat] /\ Mips \subseteq Nat /\ Slots \subseteq Int /\ TargetSlots \subseteq Int
  /\ Keys \subseteq [format : Formats, mip : Mips \cup {Graphics!All}]
  /\ NoView \notin Graphics!ResourceViews \cup Graphics!UnorderedViews \cup Graphics!TargetViews \cup Graphics!DepthViews

\* Edges are in the right order, ratios positive, and every pixel of a picture has a place a point can have.
ASSUME RectsAssumption ==
  /\ Rectangles \subseteq [Left : Int, Top : Int, Right : Int, Bottom : Int]
  /\ \A rect \in Rectangles : rect.Left <= rect.Right /\ rect.Top <= rect.Bottom
  /\ Sizes \subseteq [Width : Nat, Height : Nat]
  /\ Ratios \subseteq (Nat \ {0}) \X (Nat \ {0})
ASSUME ScanAssumption ==
  MaxInt \in Nat /\ \A picture \in Scanned : picture.Width \in 0..MaxInt /\ picture.Height \in 0..MaxInt

\* Sources have items with an id and a rank of their own.
ASSUME SourcesAssumption ==
  \A items \in Sources :
    /\ items \in Seq(Range(items))
    /\ \A item \in Range(items) : item.rank \in Int
    /\ Observable!Distinct(items)

\* Pixels are whole bytes, rows as long as their pixels or longer, and the buffer has all of them.
IsPicture(texture) ==
  /\ texture = Pictures!Texture(texture.Width, texture.Height, texture.Stride, texture.Format, texture.Buffer)
  /\ texture.Width \in Nat \ {0} /\ texture.Height \in Nat \ {0} /\ texture.Stride \in Nat
  /\ \E size \in 1..16 : Pictures!BitsPerPixel(texture.Format) = 8 * size /\ texture.Stride >= size * texture.Width
  /\ texture.Buffer \in [0..(texture.Stride * texture.Height - 1) -> 0..255]
ASSUME PicturesAssumption ==
  /\ \A texture \in Images : IsPicture(texture)
  /\ Lengths \subseteq Nat \ {0}
  /\ Crops \subseteq [Left : Int, Top : Int, Right : Int, Bottom : Int]
  /\ \A rect \in Crops : rect.Left <= rect.Right /\ rect.Top <= rect.Bottom
  /\ Places \subseteq [X : Int, Y : Int]
  /\ \A blend \in Blends : IsPicture(blend[1]) /\ IsPicture(blend[2]) /\ IsPicture(blend[3])

TwoPlanes == [picture |-> 2, scene |-> 1, light |-> 1, depth |-> 1]
TwoLevels == 0..1
FourKeys == {[format |-> "unknown", mip |-> -1], [format |-> "unknown", mip |-> 1],
             [format |-> "other", mip |-> -1], [format |-> "other", mip |-> 0]}

-----------------------------------------------------------------------------
\* Pictures whose bytes all differ, with rows that may be longer than their pixels, and small ones of 0 and 1.
Picture(width, height, format, padding, bytes) ==
  LET stride == width * Pictures!BytesPerPixel(format) + padding
  IN Pictures!Texture(width, height, stride, format, [i \in 0..(stride * height - 1) |-> bytes[i + 1]])
Colorful(formats, sizes) ==
  {Picture(w, h, format, padding, [i \in 1..40 |-> i]) : w \in sizes, h \in sizes, padding \in {0, 1}, format \in formats}
SmallImages == Colorful({"R8_UNORM", "R16_UNORM"}, 1..3)
SmallLengths == 1..5
SparsePictures == {Picture(w, h, "R8_UNORM", padding, bytes) :
             w \in 1..3, h \in 1..2, padding \in {0, 1}, bytes \in [1..8 -> {0, 1}]}
Uniform(width, format, padding, left, right) ==
  Picture(width, 1, format, padding, [i \in 1..20 |-> IF i = 1 THEN left ELSE right])
SomeBlends ==
  {<<Uniform(2, "R8G8B8A8_UNORM", 0, t, s), Uniform(2, "B8G8R8A8_UNORM_SRGB", 1, s, t), Uniform(2, "R8_UNORM", padding, a, b)>> :
     t \in {0, 100, 255}, s \in {0, 7, 255}, a \in {0, 1, 255}, b \in {0, 128, 254, 255}, padding \in {0, 1}}

\* Rectangles on both sides of the edges of an image of up to three by three pixels, and points around its corner.
EdgePairs(least, most) == {e \in (least..most) \X (least..most) : e[1] <= e[2]}
Edges(least, most) ==
  {Rects!RectOf(x[1], y[1], x[2], y[2]) : x \in EdgePairs(least, most), y \in EdgePairs(least, most)}
SmallSizes == {Rects!SizeOf(w, h) : w \in 1..3, h \in 1..3}
SmallEdges == Edges(-2, 4)
SomeRatios == {<<1, 1>>, <<2, 1>>, <<3, 2>>, <<1, 3>>}
SmallCrops == Edges(-1, 2) \cup Edges(1, 4)
SmallPlaces == {Rects!PointOf(x, y) : x \in -1..2, y \in 0..1}

\* What a collection shows before and after: items of three ids and ranks, one of them of two texts.
Shown == [id : 1..3, rank : 1..3, text : {"a"}] \cup [id : {1}, rank : 1..3, text : {"b"}]
SmallSources == {s \in BoundedSeq(Shown, 3) : Observable!Distinct(s)}

-----------------------------------------------------------------------------
GraphicsParts == {"rect", "picture", "crop", "bounds", "blend", "collection", "device"}
Inputs ==
  \/ part = "rect" /\ input \in Rectangles
  \/ part = "picture" /\ input \in [texture : Images, width : Lengths, height : Lengths]
  \/ part = "crop" /\ input \in [texture : Images, rect : Crops]
  \/ part = "bounds" /\ input \in Scanned
  \/ part = "blend" /\ input \in Blends
  \/ part = "collection" /\ input \in Sources \X {s \in Sources : Observable!Ordered(s)}
  \/ part = "device" /\ input = <<>>
  \/ part \notin GraphicsParts

GraphicsInit ==
  /\ part \in Parts /\ Inputs /\ Graphics!Init /\ Pictures!Start
  /\ IF part = "collection" THEN Observable!Begin(input[1], input[2]) ELSE Observable!Begin(<<>>, <<>>)

Binding ==
  part = "device" /\ Graphics!Next /\ UNCHANGED <<part, input, updateVars, pixel, bounds>>
Updating ==
  part = "collection" /\ Observable!Next /\ UNCHANGED <<part, input, views, device, pixel, bounds>>
Scanning ==
  part = "bounds" /\ Pictures!Visit /\ UNCHANGED <<part, views, device, updateVars>>
GraphicsNext == Binding \/ Updating \/ Scanning
GraphicsSpec == GraphicsInit /\ [][GraphicsNext]_graphicsVars

-----------------------------------------------------------------------------
(* The properties of the parts, stated and explained in their modules: of what*)
(* is bound on a graphics device,                                             *)
BindingsKept == Graphics!TypeOK /\ Graphics!DeviceIsKnown /\ Graphics!ReadsWhatWasBound /\ Graphics!UnbindIsReliable

(* of rectangles,                                                             *)
RectsFit ==
  /\ part = "rect" =>
       /\ \A size \in Sizes : Rects!ClipsToShared(input, size) /\ Rects!StaysInside(input, size)
       /\ Rects!Something(input) => \A ratio \in Ratios : Rects!FitsAround(input, ratio)
  /\ part = "bounds" => Pictures!BoundsAreTight

(* of pictures                                                                *)
PicturesShown ==
  /\ part = "picture" =>
       /\ Pictures!StaysInTheMiddle(input.texture, input.width, input.height)
       /\ Pictures!FitsUniformly(input.texture, input.width, input.height)
       /\ Pictures!PicturesReadBack(input.texture, input.width)
  /\ part = "crop" => \A position \in Places : Pictures!CutsAndPastes(input.texture, input.rect, position)
  /\ part = "blend" => Pictures!BlendsBetween(input[1], input[2], input[3])

(* and of collections that are shown.                                         *)
CollectionsShown == Observable!ShownInOrder /\ Observable!LeftAlone /\ Observable!ShowsSource

(* All that is shown is right.                                                *)
ShownRight == BindingsKept /\ RectsFit /\ PicturesShown /\ CollectionsShown
=============================================================================
