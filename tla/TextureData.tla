----------------------------- MODULE TextureData -----------------------------
(***************************************************************************)
(* Graphics/Textures/TextureData.cpp: pictures in memory.                  *)
(*                                                                         *)
(* A buffer is a function from 0..size-1 to bytes. memcpy() does what the  *)
(* processor does: what it reads outside of its source is Garbage, and what*)
(* it writes outside of its target makes the target greater, so that the   *)
(* buffer no longer has Stride * Height bytes. Bitmaps of the system and   *)
(* mapped textures have rows of their own length.                          *)
(***************************************************************************)
EXTENDS Integers, SequencesExt, FiniteSetsExt, TLC

CONSTANTS MaxInt, Garbage

\* Of the search for what is not zero; all else is about pictures that do not change.
VARIABLES
  picture,
  pixel,                \* how many pixels have been visited
  bounds                \* result

Rects == INSTANCE Rect

\* Of the formats of one size, one, and those that are named below.
BitsPerPixel(format) ==
  CASE format = "R32G32B32A32_FLOAT" -> 128
    [] format = "R32G32B32_FLOAT" -> 96
    [] format = "R16G16B16A16_UNORM" -> 64
    [] format \in {"R8G8B8A8_UNORM", "R8G8B8A8_UNORM_SRGB", "B8G8R8A8_UNORM", "B8G8R8A8_UNORM_SRGB", "B8G8R8X8_UNORM"} -> 32
    [] format = "P010" -> 24
    [] format = "R16_UNORM" -> 16
    [] format = "NV12" -> 12
    [] format \in {"R8_UNORM", "A8_UNORM", "BC2_UNORM"} -> 8
    [] format = "BC1_UNORM" -> 4
    [] format = "R1_UNORM" -> 1
    [] format = "UNKNOWN" -> 0
BytesPerPixel(format) == BitsPerPixel(format) \div 8

IsUByteN1Compatible(format) == format \in {"R8_UNORM", "A8_UNORM"}
IsUByteN4Compatible(format) ==
  format \in {"B8G8R8A8_UNORM_SRGB", "B8G8R8A8_UNORM", "B8G8R8X8_UNORM", "R8G8B8A8_UNORM_SRGB", "R8G8B8A8_UNORM"}

Below(n) == 0..(n - 1)
Texture(width, height, stride, format, buffer) ==
  [Width |-> width, Height |-> height, Stride |-> stride, Format |-> format, Buffer |-> buffer]
None == Texture(0, 0, 0, "UNKNOWN", <<>>)
Created(width, height, format) ==
  LET stride == (BitsPerPixel(format) * width + 7) \div 8
  IN Texture(width, height, stride, format, [i \in Below(stride * height) |-> 0])

IsEmpty(texture) == DOMAIN texture.Buffer = {}
ByteCount(texture) == texture.Stride * texture.Height
IsValid(texture) ==
  /\ texture.Width > 0 /\ texture.Height > 0
  /\ texture.Stride * 8 >= texture.Width * BitsPerPixel(texture.Format)
  /\ DOMAIN texture.Buffer = Below(ByteCount(texture))

\* Rows of count bytes, the first one from and to these places and each next one a stride behind it: memcpy() of one
\* after the other, so that of rows that overlap the last one stays.
Read(source, i) == IF i \in DOMAIN source THEN source[i] ELSE Garbage
CopyRows(target, to, toStride, source, from, fromStride, count, rows) ==
  LET written == {to + toStride * row + k : row \in Below(rows), k \in Below(count)}
      last(i) == Max({row \in Below(rows) : i - (to + toStride * row) \in Below(count)})
  IN [i \in DOMAIN target \cup written |->
        IF i \in written THEN Read(source, from + fromStride * last(i) + (i - (to + toStride * last(i)))) ELSE target[i]]

-----------------------------------------------------------------------------
\* Wider or higher with the picture in the middle, narrower or lower with what is in the middle of it.
ExtendHorizontally(texture, width) ==
  LET result == Created(width, texture.Height, texture.Format)
      offset == BytesPerPixel(texture.Format) * ((width - texture.Width) \div 2)
  IN CASE IsEmpty(texture) -> None
       [] ~IsEmpty(texture) /\ width <= texture.Width -> texture
       [] OTHER -> [result EXCEPT !.Buffer =
            CopyRows(@, offset, result.Stride, texture.Buffer, 0, texture.Stride, texture.Stride, texture.Height)]

ExtendVertically(texture, height) ==
  LET result == Created(texture.Width, height, texture.Format)
      offset == texture.Stride * ((height - texture.Height) \div 2)
  IN CASE IsEmpty(texture) -> None
       [] ~IsEmpty(texture) /\ height <= texture.Height -> texture
       [] OTHER -> [result EXCEPT !.Buffer =
            CopyRows(@, offset, result.Stride, texture.Buffer, 0, texture.Stride, texture.Stride, texture.Height)]

TruncateHorizontally(texture, width) ==
  LET result == Created(width, texture.Height, texture.Format)
      offset == BytesPerPixel(texture.Format) * ((texture.Width - width) \div 2)
  IN CASE IsEmpty(texture) -> None
       [] ~IsEmpty(texture) /\ width >= texture.Width -> texture
       [] OTHER -> [result EXCEPT !.Buffer =
            CopyRows(@, 0, result.Stride, texture.Buffer, offset, texture.Stride, result.Stride, texture.Height)]

TruncateVertically(texture, height) ==
  LET result == Created(texture.Width, height, texture.Format)
      offset == texture.Stride * ((texture.Height - height) \div 2)
  IN CASE IsEmpty(texture) -> None
       [] ~IsEmpty(texture) /\ height >= texture.Height -> texture
       [] OTHER -> [result EXCEPT !.Buffer =
            CopyRows(@, 0, result.Stride, texture.Buffer, offset, texture.Stride, texture.Stride, height)]

\* The part of a picture inside of a rectangle, which has edges in the right order.
GetTexture(texture, rect) ==
  LET clamped == Rects!Clamp(rect, Rects!SizeOf(texture.Width, texture.Height))
      size == Rects!Size(clamped)
      result == Created(size.Width, size.Height, texture.Format)
      from == texture.Stride * clamped.Top + clamped.Left * BytesPerPixel(texture.Format)
  IN IF IsEmpty(texture) THEN None
     ELSE [result EXCEPT !.Buffer =
            CopyRows(@, 0, result.Stride, texture.Buffer, from, texture.Stride, result.Stride, size.Height)]

\* Another picture put into this one, or an exception (<<>>) if it does not fit.
MergeTexture(target, texture, position) ==
  LET rect == Rects!FromLeftTopSize(position, Rects!SizeOf(texture.Width, texture.Height))
      to == target.Stride * rect.Top + rect.Left * BytesPerPixel(target.Format)
  IN IF ~Rects!Contains(Rects!FromSize(Rects!SizeOf(target.Width, target.Height)), rect) THEN <<>>
     ELSE <<[target EXCEPT !.Buffer =
               CopyRows(@, to, target.Stride, texture.Buffer, 0, texture.Stride, texture.Stride, texture.Height)]>>

\* Byte by byte and rounded; an exception if formats or sizes do not match.
AlphaBlend(target, source, alpha) ==
  LET result == Created(target.Width, target.Height, target.Format)
      byte(t, s, a) == (2 * (t * (255 - a) + s * a) + 255) \div 510
      at(texture, i, size) ==
        texture.Buffer[texture.Stride * (i \div result.Stride) + ((i % result.Stride) * size) \div 4]
      match(texture) == texture.Width = target.Width /\ texture.Height = target.Height
  IN IF /\ IsUByteN4Compatible(target.Format) /\ IsUByteN4Compatible(source.Format)
        /\ IsUByteN1Compatible(alpha.Format) /\ match(source) /\ match(alpha)
     THEN <<[result EXCEPT !.Buffer =
               [i \in DOMAIN @ |-> byte(at(target, i, 4), at(source, i, 4), at(alpha, i, 1))]]>>
     ELSE <<>>

-----------------------------------------------------------------------------
\* As bytes: four numbers, then the buffer. A stream that ends before it throws.
ToRawBuffer(texture) ==
  [header |-> <<texture.Width, texture.Height, texture.Stride, texture.Format>>,
   bytes |-> [i \in 1..Cardinality(DOMAIN texture.Buffer) |-> texture.Buffer[i - 1]]]
FromRawBuffer(raw) ==
  LET size == raw.header[3] * raw.header[2]
  IN IF Len(raw.bytes) < size THEN <<>>
     ELSE <<Texture(raw.header[1], raw.header[2], raw.header[3], raw.header[4], [i \in Below(size) |-> raw.bytes[i + 1]])>>

\* The formats of bitmaps; <<>> is an exception. sRGB and linear formats are one.
ToWicPixelFormat(format) ==
  CASE format = "UNKNOWN" -> <<"DontCare">>
    [] format = "R16G16B16A16_UNORM" -> <<"64bppBGRA">>
    [] format \in {"R8G8B8A8_UNORM", "R8G8B8A8_UNORM_SRGB"} -> <<"32bppRGBA">>
    [] format = "R16_UNORM" -> <<"16bppGray">>
    [] format = "R8_UNORM" -> <<"8bppGray">>
    [] format \in {"B8G8R8A8_UNORM", "B8G8R8A8_UNORM_SRGB"} -> <<"32bppBGRA">>
    [] OTHER -> <<>>
ToDxgiFormat(format) ==
  CASE format = "DontCare" -> "UNKNOWN"
    [] format = "64bppBGRA" -> "R16G16B16A16_UNORM"
    [] format = "32bppRGBA" -> "R8G8B8A8_UNORM_SRGB"
    [] format = "16bppGray" -> "R16_UNORM"
    [] format = "8bppGray" -> "R8_UNORM"
    [] format = "32bppBGRA" -> "B8G8R8A8_UNORM_SRGB"

\* A bitmap or a mapped texture of the system: rows that begin at every multiple of a pitch of its own.
Mapped(width, height, format, pitch) ==
  Texture(width, height, pitch, format, [i \in Below(pitch * height) |-> 0])
WicPitch(format, width) == 4 * ((BytesPerPixel(format) * width + 3) \div 4)

ToWicBitmap(texture) ==
  LET pitch == WicPitch(texture.Format, texture.Width)
      bitmap == Mapped(texture.Width, texture.Height, ToWicPixelFormat(texture.Format)[1], pitch)
  IN [bitmap EXCEPT !.Buffer =
        CopyRows(@, 0, pitch, texture.Buffer, 0, texture.Stride, texture.Width * BytesPerPixel(texture.Format), texture.Height)]
FromWicBitmap(bitmap) ==
  LET result == Created(bitmap.Width, bitmap.Height, ToDxgiFormat(bitmap.Format))
  IN [result EXCEPT !.Buffer =
        CopyRows(@, 0, result.Stride, bitmap.Buffer, 0, bitmap.Stride, result.Stride, bitmap.Height)]

\* The system's scaler: any pixel of the result is one of the picture; here the nearest to the left and above.
Scaled(bitmap, width, height) ==
  LET size == BytesPerPixel(ToDxgiFormat(bitmap.Format))
      pitch == WicPitch(ToDxgiFormat(bitmap.Format), width)
      byte(x, y, i) == bitmap.Buffer[bitmap.Stride * ((y * bitmap.Height) \div height)
                                     + size * ((x * bitmap.Width) \div width) + i]
  IN [Mapped(width, height, bitmap.Format, pitch) EXCEPT !.Buffer =
        [n \in DOMAIN @ |-> IF n % pitch < size * width
                            THEN byte((n % pitch) \div size, n \div pitch, (n % pitch) % size) ELSE 0]]

Resize(texture, width, height) ==
  CASE IsEmpty(texture) -> None
    [] ~IsEmpty(texture) /\ width = texture.Width /\ height = texture.Height -> texture
    [] OTHER -> FromWicBitmap(Scaled(ToWicBitmap(texture), width, height))

\* Mutant of the next: the least size of the picture's shape that fills the other.
UniformSizeFilling(texture, width, height) ==
  IF width * texture.Height > texture.Width * height
  THEN Rects!SizeOf(width, (width * texture.Height) \div texture.Width)
  ELSE Rects!SizeOf((texture.Width * height) \div texture.Height, height)

\* The greatest size of the picture's shape that fits, and the picture of that size in the middle of the rest. The
\* numbers are not rounded as floats are.
UniformSize(texture, width, height) ==
  IF width * texture.Height > texture.Width * height
  THEN Rects!SizeOf((texture.Width * height) \div texture.Height, height)
  ELSE Rects!SizeOf(width, (width * texture.Height) \div texture.Width)
UniformResize(texture, width, height) ==
  LET uniform == UniformSize(texture, width, height)
      resized == Resize(texture, uniform.Width, uniform.Height)
      wider == width * texture.Height > texture.Width * height
      across == Rects!RectOf(width \div 2 - resized.Width \div 2, 0, width \div 2 + resized.Width \div 2, resized.Height)
      down == Rects!RectOf(0, height \div 2 - resized.Height \div 2, resized.Width, height \div 2 + resized.Height \div 2)
  IN CASE IsEmpty(texture) -> [texture |-> None, rect |-> Rects!Empty]
       [] ~IsEmpty(texture) /\ uniform = Rects!SizeOf(width, height) ->
            [texture |-> resized, rect |-> Rects!FromSize(uniform)]
       [] OTHER -> IF wider THEN [texture |-> ExtendHorizontally(resized, width), rect |-> across]
                   ELSE [texture |-> ExtendVertically(resized, height), rect |-> down]

\* Into a mapped texture of the device, and out of one.
Update(mapped, texture) ==
  LET rows == Min({ByteCount(texture) \div texture.Stride, texture.Height})
  IN [mapped EXCEPT !.Buffer =
        CopyRows(@, 0, mapped.Stride, texture.Buffer, 0, texture.Stride, Min({texture.Stride, mapped.Stride}), rows)]
Download(mapped) == Texture(mapped.Width, mapped.Height, mapped.Stride, mapped.Format, mapped.Buffer)

-----------------------------------------------------------------------------
\* The bytes of the pixel in a column and a row.
Pixel(texture, x, y) ==
  [i \in Below(BytesPerPixel(texture.Format)) |-> texture.Buffer[texture.Stride * y + x * BytesPerPixel(texture.Format) + i]]
Black(texture) == [i \in Below(BytesPerPixel(texture.Format)) |-> 0]
Inside(texture, x, y) == x \in Below(texture.Width) /\ y \in Below(texture.Height)
Tight(texture) == texture.Stride = texture.Width * BytesPerPixel(texture.Format)

\* A result shows at each place the pixel of a picture that is so much further to the left and above, or black.
Shows(result, texture, right, down) ==
  /\ IsValid(result)
  /\ \A x \in Below(result.Width), y \in Below(result.Height) :
       Pixel(result, x, y) = IF Inside(texture, x - right, y - down) THEN Pixel(texture, x - right, y - down)
                             ELSE Black(result)

(* Extending and truncating keep the picture in the middle and write nothing  *)
(* outside of it. The rows of a picture from the device may be longer than    *)
(* its pixels: only what reads such rows one by one can be used on it.        *)
StaysInTheMiddle(texture, width, height) ==
  /\ Tight(texture) =>
       /\ width > texture.Width =>
            Shows(ExtendHorizontally(texture, width), texture, (width - texture.Width) \div 2, 0)
       /\ height > texture.Height =>
            Shows(ExtendVertically(texture, height), texture, 0, (height - texture.Height) \div 2)
       /\ height <= texture.Height =>
            Shows(TruncateVertically(texture, height), texture, 0, -((texture.Height - height) \div 2))
       /\ TruncateHorizontally(ExtendHorizontally(texture, width), texture.Width) = texture
       /\ TruncateVertically(ExtendVertically(texture, height), texture.Height) = texture
  /\ width <= texture.Width =>
       Shows(TruncateHorizontally(texture, width), texture, -((texture.Width - width) \div 2), 0)

(* A part that is cut out and put back where it was changes nothing, whatever *)
(* the rows of the picture are like; put elsewhere, it is seen there and the  *)
(* rest is as before; and what does not fit is refused.                       *)
CutsAndPastes(texture, rect, position) ==
  LET clamped == Rects!Clamp(rect, Rects!SizeOf(texture.Width, texture.Height))
      part == GetTexture(texture, rect)
      merged == MergeTexture(texture, part, position)
      column == position.X
      row == position.Y
  IN Rects!Something(clamped) =>
       /\ Shows(part, texture, -clamped.Left, -clamped.Top)
       /\ MergeTexture(texture, part, Rects!PointOf(clamped.Left, clamped.Top)) = <<texture>>
       /\ merged # <<>> <=> /\ column >= 0 /\ column + part.Width <= texture.Width
                            /\ row >= 0 /\ row + part.Height <= texture.Height
       /\ merged # <<>> =>
            /\ IsValid(merged[1])
            /\ \A x \in Below(texture.Width), y \in Below(texture.Height) :
                 Pixel(merged[1], x, y) = IF Inside(part, x - column, y - row) THEN Pixel(part, x - column, y - row)
                                          ELSE Pixel(texture, x, y)

(* The bytes of a picture are read back, and fewer bytes are refused. A trip  *)
(* through a bitmap, or to the device and back, keeps every pixel, whatever   *)
(* the lengths of the rows are.                                               *)
PicturesReadBack(texture, pitch) ==
  LET raw == ToRawBuffer(texture)
      gone == Download(Update(Mapped(texture.Width, texture.Height, texture.Format, pitch), texture))
  IN /\ FromRawBuffer(raw) = <<texture>>
     /\ ~IsEmpty(texture) => FromRawBuffer([raw EXCEPT !.bytes = Tail(@)]) = <<>>
     /\ ToWicPixelFormat(texture.Format) # <<>> =>
          LET back == FromWicBitmap(ToWicBitmap(texture))
          IN Shows(back, texture, 0, 0) /\ ToWicPixelFormat(back.Format) = ToWicPixelFormat(texture.Format)
     /\ pitch >= texture.Width * BytesPerPixel(texture.Format) => Shows(gone, texture, 0, 0)

(* A picture made to fit has the size asked for and its own shape, black to   *)
(* both sides; the rectangle given with it lies inside of the picture and     *)
(* misses at most its last column or row. One that has another size needs a   *)
(* format that bitmaps have, and one that has this size rows without padding. *)
FitsUniformly(texture, width, height) ==
  LET uniform == UniformSize(texture, width, height)
      resized == Resize(texture, uniform.Width, uniform.Height)
      result == UniformResize(texture, width, height)
      shown == Rects!FromLeftTopSize(
        Rects!PointOf((width - uniform.Width) \div 2, (height - uniform.Height) \div 2), uniform)
      fits == uniform = Rects!SizeOf(texture.Width, texture.Height)
      usable == IF fits THEN Tight(texture) ELSE ToWicPixelFormat(texture.Format) # <<>>
  IN uniform.Width > 0 /\ uniform.Height > 0 /\ usable =>
       /\ result.texture.Width = width /\ result.texture.Height = height
       /\ Shows(result.texture, resized, shown.Left, shown.Top)
       /\ Rects!Contains(shown, result.rect) /\ Rects!Contains(Rects!Offset(result.rect, 1), shown)

(* Blending with nothing and with everything gives the one and the other, and *)
(* every byte lies between them.                                              *)
BlendsBetween(target, source, alpha) ==
  LET blended == AlphaBlend(target, source, alpha)
  IN blended # <<>> =>
       /\ IsValid(blended[1])
       /\ \A x \in Below(target.Width), y \in Below(target.Height), i \in Below(4) :
            LET t == Pixel(target, x, y)[i]
                s == Pixel(source, x, y)[i]
                a == Pixel(alpha, x, y)[0]
                b == Pixel(blended[1], x, y)[i]
            IN /\ Min({s, t}) <= b /\ b <= Max({s, t})
               /\ (a = 0 => b = t) /\ (a = 255 => b = s)

-----------------------------------------------------------------------------
\* FindNonZeroRect(): the bounds of what a picture shows, row by row and pixel by pixel.
Start == pixel = 0 /\ bounds = Rects!Empty

\* The place in the row moves by one byte for each pixel, whatever a pixel's size is.
Column(i) == i % picture.Width
RowOf(i) == i \div picture.Width
Zero(i) ==
  \A k \in Below(BytesPerPixel(picture.Format)) : picture.Buffer[picture.Stride * RowOf(i) + Column(i) + k] = 0

Visit ==
  /\ pixel < picture.Width * picture.Height
  /\ bounds' = IF Zero(pixel) THEN bounds ELSE Rects!Extend(bounds, Rects!PointOf(Column(pixel), RowOf(pixel)))
  /\ pixel' = pixel + 1
  /\ UNCHANGED picture

-----------------------------------------------------------------------------
\* What is not black among the pixels visited.
Seen ==
  {Rects!PointOf(Column(i), RowOf(i)) : i \in {n \in Below(pixel) : Pixel(picture, Column(n), RowOf(n)) # Black(picture)}}

(* The bounds of what is not zero are the least that have it all, for pixels  *)
(* of one byte.                                                               *)
BoundsAreTight == BytesPerPixel(picture.Format) = 1 => Rects!Accumulated(Seen, bounds)
=============================================================================
