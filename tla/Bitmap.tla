------------------------------- MODULE Bitmap -------------------------------
(***************************************************************************)
(* bitmap<bool> (src/include/bitmap.hpp, src/src/bitmap.cpp), whose pixels *)
(* are packed into the bytes of rows, 1-bit BMP files, and the shapes of   *)
(* drawer (src/include/drawer.hpp).                                        *)
(*                                                                         *)
(* A byte has BitsPerByte pixels, and a row of a file is a whole number of *)
(* words.  The ratios that fit_into() computes with doubles are exact.     *)
(***************************************************************************)
EXTENDS Bytes, FiniteSetsExt

CONSTANTS Widths, Heights,   \* the sizes of pictures
          RowAligns,         \* bytes that a row is aligned to
          Regions,           \* what fit_into() fits into
          Stamps             \* pictures that are laid over others, as sets of black pixels

VARIABLES picture            \* header, m_row_align, m_row_bytes and pixel_data

UpTo(n, unit) == ((n + unit - 1) \div unit) * unit
RowBytes(w, align) == UpTo((w + BitsPerByte - 1) \div BitsPerByte, align)
Area(w, h) == (0..(w - 1)) \X (0..(h - 1))

\* resize(): what was there is gone, but for the alignment.
Blank(w, h, align) ==
    IF w = 0 \/ h = 0 THEN [w |-> 0, h |-> 0, align |-> align, row |-> 0, bytes |-> <<>>]
    ELSE LET row == RowBytes(w, align)
         IN [w |-> w, h |-> h, align |-> align, row |-> row, bytes |-> [i \in 1..(row * h) |-> 0]]

Inside(p, x, y) == x \in 0..(p.w - 1) /\ y \in 0..(p.h - 1)
\* Mutant: rows without their padding.
Index_Tight(p, x, y) == y * RowBytes(p.w, 1) + x \div BitsPerByte + 1
Index(p, x, y) == y * p.row + x \div BitsPerByte + 1
Bit(x) == 2^(x % BitsPerByte)
GetPixel(p, x, y) == (p.bytes[Index(p, x, y)] \div Bit(x)) % 2 = 1
PutPixel(p, x, y, value) ==
    IF GetPixel(p, x, y) = value THEN p
    ELSE [p EXCEPT !.bytes[Index(p, x, y)] = IF value THEN @ + Bit(x) ELSE @ - Bit(x)]

Black(p) == {xy \in Area(p.w, p.h) : GetPixel(p, xy[1], xy[2])}
\* Every loop that sets pixels of a new bitmap.
Painted(p, pixels, value) == FoldSet(LAMBDA xy, q : PutPixel(q, xy[1], xy[2], value), p, pixels)
Picture(w, h, align, Chosen(_, _)) ==
    Painted(Blank(w, h, align), {xy \in Area(w, h) : Chosen(xy[1], xy[2])}, TRUE)

-----------------------------------------------------------------------------
(* Placing and scaling. *)

\* An alignment is a pair: "first", "center" or "last" in each direction.
Margin(align, room) == CASE align = "last" -> room [] align = "center" -> room \div 2 [] OTHER -> 0
\* Nothing is placed outside: a source that is too large begins at the first pixel.
Offset(align, large, small) == Margin(align, IF large > small THEN large - small ELSE 0)

\* The resize() that keeps the pixels: rows of the result are aligned to bytes.
Aligned(p, w, h, align) ==
    Picture(w, h, 1, LAMBDA x, y : LET ox == Offset(align[1], w, p.w)
                                       oy == Offset(align[2], h, p.h)
                                   IN Inside(p, x - ox, y - oy) /\ GetPixel(p, x - ox, y - oy))

Scaled(p, scale) ==
    LET s == IF scale = 0 THEN 1 ELSE scale
    IN Picture(p.w * s, p.h * s, 1, LAMBDA x, y : GetPixel(p, x \div s, y \div s))
ScaledDown(p, factor) ==
    LET f == IF factor = 0 THEN 1 ELSE factor
    IN Picture((p.w + f - 1) \div f, (p.h + f - 1) \div f, 1, LAMBDA x, y : GetPixel(p, x * f, y * f))
ReverseColor(p) == Picture(p.w, p.h, p.align, LAMBDA x, y : ~GetPixel(p, x, y))

\* static_cast<int>(): towards zero.
Truncated(a, b) == IF a < 0 THEN -((-a) \div b) ELSE a \div b
LesserOf(a, b) == IF a < b THEN a ELSE b

\* Center, Cover and Contain: one ratio for both directions.
Ratio(p, w, h, mode) ==
    LET wider == w * p.h > h * p.w
    IN CASE mode = "Center" -> <<1, 1>>
         [] mode = "Cover" -> IF wider THEN <<w, p.w>> ELSE <<h, p.h>>
         [] mode = "Contain" -> IF wider THEN <<h, p.h>> ELSE <<w, p.w>>
\* Where pixel i of a region comes from, or -1.
Origin(i, room, size, align, ratio) ==
    LET shown == (size * ratio[1]) \div ratio[2]
        o == CASE align = "last" -> room - shown [] align = "center" -> Truncated(room - shown, 2) [] OTHER -> 0
    IN IF i - o \in 0..(shown - 1) THEN LesserOf(((i - o) * ratio[2]) \div ratio[1], size - 1) ELSE -1

FitInto(p, w, h, mode, align) ==
    LET tx == Offset(align[1], w, p.w)
        ty == Offset(align[2], h, p.h)
        ratio == Ratio(p, w, h, mode)
        Chosen(x, y) ==
            CASE mode = "Fill" -> GetPixel(p, (x * p.w) \div w, (y * p.h) \div h)
              [] mode = "Tile" -> GetPixel(p, (x + tx) % p.w, (y + ty) % p.h)
              [] OTHER -> LET sx == Origin(x, w, p.w, align[1], ratio)
                              sy == Origin(y, h, p.h, align[2], ratio)
                          IN Inside(p, sx, sy) /\ GetPixel(p, sx, sy)
    IN IF p.w = 0 THEN Blank(w, h, p.align) ELSE Picture(w, h, p.align, Chosen)

-----------------------------------------------------------------------------
(* overlap(): pixelAnd(), pixelOr(), pixelXor(), pixelOverride() *)

Combined(op, a, b) == CASE op = "and" -> a /\ b [] op = "or" -> a \/ b [] op = "xor" -> a # b [] op = "override" -> b

\* Row by row; other may be the picture itself, of which pixels have changed.
InOrder(w, h) == [k \in 1..(w * h) |-> <<(k - 1) % w, (k - 1) \div w>>]
Overlapped(p, x, y, other, itself, op) ==
    LET Step(q, ij) ==
            IF ~Inside(q, x + ij[1], y + ij[2]) THEN q
            ELSE PutPixel(q, x + ij[1], y + ij[2],
                          Combined(op, GetPixel(q, x + ij[1], y + ij[2]),
                                   GetPixel(IF itself THEN q ELSE other, ij[1], ij[2])))
    IN FoldLeft(Step, p, InOrder(other.w, other.h))

-----------------------------------------------------------------------------
(* toBmp() and fromBmp().  A file is its header, the brightness of the two *)
(* colours of its palette, and the bytes of its pixels.                    *)

Padded0(w) == RowBytes(w, WordSize)
\* In a file the first pixel of a byte is the highest bit.
FileBit(x) == 2^(BitsPerByte - 1 - (x % BitsPerByte))
FileRows(p, RowOf(_)) ==
    FoldSet(LAMBDA xy, b : [b EXCEPT ![RowOf(xy[2]) * Padded0(p.w) + xy[1] \div BitsPerByte + 1] = @ + FileBit(xy[1])],
            [i \in 1..(Padded0(p.w) * p.h) |-> 0], Black(p))
ToByteArrayPadded(p) == FileRows(p, LAMBDA y : y)

Header(w, h) == [magic |-> "BM", info |-> 40, w |-> w, h |-> h, planes |-> 1, bits |-> 1, compression |-> 0]
\* The row at the bottom comes first.
ToBmp(p) == [header |-> Header(p.w, p.h), palette |-> <<255, 0>>, body |-> FileRows(p, LAMBDA y : p.h - 1 - y)]

NoPicture == [w |-> -1]   \* std::invalid_argument
Readable(header) ==
    /\ header.magic = "BM" /\ header.info >= 40 /\ header.w > 0 /\ header.h # 0
    /\ header.planes = 1 /\ header.bits = 1 /\ header.compression = 0
\* A negative height means that the row at the top comes first.
FromBmp(file) ==
    LET w == file.header.w
        h == IF file.header.h < 0 THEN -file.header.h ELSE file.header.h
        BitAt(x, y) == (file.body[y * Padded0(w) + x \div BitsPerByte + 1] \div FileBit(x)) % 2
        dark == IF file.palette[1] > file.palette[2] THEN 1 ELSE 0
    IN IF ~Readable(file.header) \/ Len(file.body) < Padded0(w) * h THEN NoPicture
       ELSE Picture(w, h, 1, LAMBDA x, y : BitAt(x, IF file.header.h < 0 THEN y ELSE h - 1 - y) = dark)

-----------------------------------------------------------------------------
(* The drawer.  What lies outside the surface is not drawn. *)

RECURSIVE LineFrom(_, _, _, _, _, _)
\* Bresenham's algorithm; d has the distances and the directions.
LineFrom(x, y, x1, y1, err, d) ==
    IF <<x, y>> = <<x1, y1>> THEN {<<x, y>>}
    ELSE LET across == 2 * err > -d[2]
             down == 2 * err < d[1]
         IN {<<x, y>>} \cup LineFrom(IF across THEN x + d[3] ELSE x, IF down THEN y + d[4] ELSE y, x1, y1,
                                     err - (IF across THEN d[2] ELSE 0) + (IF down THEN d[1] ELSE 0), d)
Distance(a, b) == IF a < b THEN b - a ELSE a - b
Line(x0, y0, x1, y1) ==
    LET dx == Distance(x0, x1)
        dy == Distance(y0, y1)
    IN LineFrom(x0, y0, x1, y1, dx - dy, <<dx, dy, IF x0 < x1 THEN 1 ELSE -1, IF y0 < y1 THEN 1 ELSE -1>>)

GreaterOf(a, b) == IF a < b THEN b ELSE a
\* Nothing is drawn for fill_mode::alternate.
Rectangle(x0, y0, x1, y1, fill) ==
    LET l == LesserOf(x0, x1)
        r == GreaterOf(x0, x1)
        t == LesserOf(y0, y1)
        b == GreaterOf(y0, y1)
    IN CASE fill = "solid" -> (l..r) \X (t..b)
         [] fill = "none" -> ((l..r) \X {t, b}) \cup ({l, r} \X ((t + 1)..(b - 1)))
         [] fill = "alternate" -> {}

\* The centre and the radius are doubled: they may lie between the pixels.
Circle(p, cx, cy, radius, fill) ==
    LET SpanOf(c, size) == GreaterOf(0, (c - radius - 1) \div 2)..LesserOf(size - 1, (c + radius) \div 2)
        Square(x, y) == (2 * x + 1 - cx)^2 + (2 * y + 1 - cy)^2
        inner == GreaterOf(0, radius - 1)
    IN IF radius < 0 THEN {}
       ELSE {xy \in SpanOf(cx, p.w) \X SpanOf(cy, p.h) :
                Square(xy[1], xy[2]) <= (radius + 1)^2 /\ (fill = "solid" \/ Square(xy[1], xy[2]) >= inner^2)}

\* The colour is that of the pen or of the brush.
Plotted(p, pixels, color) == Painted(p, pixels \cap Area(p.w, p.h), color)

-----------------------------------------------------------------------------
Aligns == {"first", "center", "last"} \X {"first", "center", "last"}
Stretches == {"Fill", "Cover", "Contain", "Center", "Tile"}
Ops == {"and", "or", "xor", "override"}
MaxWidth == CHOOSE w \in Widths : \A v \in Widths : v <= w
MaxHeight == CHOOSE h \in Heights : \A i \in Heights : i <= h
Fits(p) == p.w <= MaxWidth /\ p.h <= MaxHeight

BitmapInit == picture = Blank(0, 0, 1)

SetPixel(x, y, value) == Inside(picture, x, y) /\ picture' = PutPixel(picture, x, y, value)
ClearPicture == picture' = Blank(picture.w, picture.h, picture.align)
ResizePicture(w, h) == picture' = Blank(w, h, picture.align)
\* What was drawn is gone.
SetRowAlign(n) == picture' = Blank(picture.w, picture.h, IF n = 0 THEN 1 ELSE n)
Extend(w, h, align) == w >= picture.w /\ h >= picture.h /\ picture' = Aligned(picture, w, h, align)
Shrink(w, h, align) == w <= picture.w /\ h <= picture.h /\ picture' = Aligned(picture, w, h, align)
Overlay(x, y, black, op) ==
    picture' = Overlapped(picture, x, y, Painted(Blank(2, 2, 1), black, TRUE), FALSE, op)
OverlayItself(x, y, op) == picture' = Overlapped(picture, x, y, picture, TRUE, op)
Invert == picture' = ReverseColor(picture)
Fit(w, h, mode, align) ==
    picture' = FitInto(picture, w, h, mode, align)
Scale(scale) == picture' = Scaled(picture, scale)
ScaleDown(factor) == picture' = ScaledDown(picture, factor)
\* An empty picture is written, and refused.
ReloadPicture == FromBmp(ToBmp(picture)) # NoPicture /\ picture' = FromBmp(ToBmp(picture))
DrawLine(x0, y0, x1, y1, color) == picture' = Plotted(picture, Line(x0, y0, x1, y1), color)
DrawRectangle(x0, y0, x1, y1, fill, color) == picture' = Plotted(picture, Rectangle(x0, y0, x1, y1, fill), color)
DrawCircle(cx, cy, radius, fill, color) == picture' = Plotted(picture, Circle(picture, cx, cy, radius, fill), color)

BitmapNext ==
    \/ \E x \in 0..(MaxWidth - 1), y \in 0..(MaxHeight - 1), value \in BOOLEAN : SetPixel(x, y, value)
    \/ ClearPicture
    \/ \E w \in Widths, h \in Heights : ResizePicture(w, h)
    \/ \E n \in RowAligns \cup {0} : SetRowAlign(n)
    \/ \E w \in Widths, h \in Heights, align \in Aligns : Extend(w, h, align) \/ Shrink(w, h, align)
    \/ \E black \in Stamps, op \in Ops : Overlay(1, 0, black, op)
    \/ \E op \in Ops : OverlayItself(1, 0, op)
    \/ Invert
    \/ \E wh \in Regions, mode \in Stretches : Fit(wh[1], wh[2], mode, <<"center", "last">>)
    \/ \E scale \in 0..2 : ScaleDown(scale) \/ (Fits(Scaled(picture, scale)) /\ Scale(scale))
    \/ ReloadPicture
    \/ DrawLine(-1, 0, 2, 1, TRUE)
    \/ DrawRectangle(1, 1, 0, 0, "solid", FALSE)
    \/ DrawCircle(2, 2, 1, "none", TRUE)

BitmapSpec == BitmapInit /\ [][BitmapNext]_picture

-----------------------------------------------------------------------------
\* The pixels lie in rows of whole bytes, each pixel in a bit of its own, and
\* what aligns a row holds none: after any mixture of setPixel(), resize(),
\* set_row_align(), shapes and overlays, the bytes that toByteArray() hands to a
\* display are those of the pixels that getPixel() shows.
RowsArePacked ==
    LET Holds(i, bit) == LET x == ((i - 1) % picture.row) * BitsPerByte + bit
                         IN x < picture.w /\ <<x, (i - 1) \div picture.row>> \in Black(picture)
    IN /\ picture.row = RowBytes(picture.w, picture.align)
       /\ Len(picture.bytes) = picture.row * picture.h
       /\ \A i \in DOMAIN picture.bytes :
             picture.bytes[i] = MapThenSumSet(LAMBDA bit : 2^bit, {bit \in 0..(BitsPerByte - 1) : Holds(i, bit)})

SameImage(p, q) == p # NoPicture /\ <<p.w, p.h>> = <<q.w, q.h>> /\ Black(p) = Black(q)
Drawn == picture.w > 0

\* fromBmp() reads what toBmp() has written, whatever the alignment of the rows,
\* and as well the same image in the other forms of a file: rows from the top
\* (a negative height), the colours of the palette exchanged.  A file whose last
\* byte is missing is refused.
BmpComesBack ==
    Drawn => LET file == ToBmp(picture)
                 inverse == [i \in DOMAIN file.body |-> 2^BitsPerByte - 1 - file.body[i]]
             IN /\ SameImage(FromBmp(file), picture)
                /\ SameImage(FromBmp([file EXCEPT !.header.h = -picture.h, !.body = ToByteArrayPadded(picture)]), picture)
                /\ SameImage(FromBmp([file EXCEPT !.palette = <<0, 255>>, !.body = inverse]), picture)
                /\ FromBmp([file EXCEPT !.body = SubSeq(@, 1, Len(@) - 1)]) = NoPicture

\* The ways to change the size agree with each other.  Stretching, covering and
\* containing a picture in a region k times as large are all scaled(k), and
\* scaled_down(k) undoes it; a region that is a little larger shows the picture
\* unscaled where resize() places it; tiles repeat it; shrink() undoes extend().
SizesAgree ==
    Drawn => LET w == picture.w
                 h == picture.h
                 double == Scaled(picture, 2)
                 tiles == FitInto(picture, w + 2, h + 1, "Tile", <<"first", "first">>)
             IN /\ \A mode \in {"Fill", "Contain", "Cover"}, side \in {"first", "center", "last"} :
                      SameImage(FitInto(picture, 2 * w, 2 * h, mode, <<side, side>>), double)
                /\ SameImage(ScaledDown(double, 2), picture)
                /\ \A align \in Aligns : SameImage(FitInto(picture, w + 1, h + 2, "Center", align),
                                                   Aligned(picture, w + 1, h + 2, align))
                /\ \A xy \in Area(w + 2, h + 1) : xy \in Black(tiles) <=> <<xy[1] % w, xy[2] % h>> \in Black(picture)
                /\ SameImage(Aligned(Aligned(picture, w + 1, h + 1, <<"first", "first">>), w, h, <<"first", "first">>),
                             picture)

\* pixelXor() with the same picture twice restores what was there; the other
\* operations change nothing the second time; and none of them touches a pixel
\* beside the part that the two pictures share.
OverlaysRepeat ==
    \A black \in {b \in Stamps : Drawn}, op \in Ops :
        LET stamp == Painted(Blank(2, 2, 1), black, TRUE)
            once == Overlapped(picture, 1, 0, stamp, FALSE, op)
            twice == Overlapped(once, 1, 0, stamp, FALSE, op)
            under == {<<xy[1] + 1, xy[2]>> : xy \in Area(2, 2)}
        IN /\ twice = IF op = "xor" THEN picture ELSE once
           /\ Black(once) \ under = Black(picture) \ under
           /\ op = "override" => \A xy \in under \cap Area(picture.w, picture.h) :
                                    xy \in Black(once) <=> <<xy[1] - 1, xy[2]>> \in black

\* A line joins its ends with one pixel per column, or per row when it is steep,
\* none farther than half a pixel from the ideal line.  A ring and a disc hold
\* the pixels that the radius says, all of those on the surface: the box that
\* the loops run over cuts none off.  The corners of a rectangle may come in any
\* order, and the frame is the border of the solid one.
ShapesAreExact ==
    Drawn /\ Black(picture) = {} =>
        LET w == picture.w
            h == picture.h
            Exact(x0, y0, x1, y1) ==
                LET dots == Line(x0, y0, x1, y1)
                    dx == Distance(x0, x1)
                    dy == Distance(y0, y1)
                    long == GreaterOf(dx, dy)
                IN /\ {<<x0, y0>>, <<x1, y1>>} \subseteq dots
                   /\ Cardinality(dots) = long + 1
                   /\ Cardinality({IF dx = long THEN xy[1] ELSE xy[2] : xy \in dots}) = long + 1
                   /\ \A xy \in dots :
                         2 * Distance((xy[2] - y0) * (x1 - x0), (xy[1] - x0) * (y1 - y0)) <= long
        IN /\ \A x0, x1 \in -1..w, y0, y1 \in -1..h : Exact(x0, y0, x1, y1)
           /\ \A cx \in -1..(2 * w + 1), cy \in -1..(2 * h + 1), radius \in 0..3 :
                 LET Far(xy) == (2 * xy[1] + 1 - cx)^2 + (2 * xy[2] + 1 - cy)^2
                     disc == {xy \in Area(w, h) : Far(xy) <= (radius + 1)^2}
                 IN /\ Circle(picture, cx, cy, radius, "solid") = disc
                    /\ Circle(picture, cx, cy, radius, "none") =
                          {xy \in disc : radius = 0 \/ Far(xy) >= (radius - 1)^2}
           /\ \A x0, x1 \in -1..w, y0, y1 \in -1..h :
                 LET solid == Rectangle(x0, y0, x1, y1, "solid")
                     inside == {xy \in solid : {xy[1] - 1, xy[1] + 1} \X {xy[2] - 1, xy[2] + 1} \subseteq solid}
                 IN /\ {<<x0, y0>>, <<x1, y1>>} \subseteq solid
                    /\ Cardinality(solid) = (Distance(x0, x1) + 1) * (Distance(y0, y1) + 1)
                    /\ Rectangle(x0, y0, x1, y1, "none") = solid \ inside


\* What is drawn, overlaid, resized, written and read is the same picture in
\* every representation, to the last pixel.
PicturesAreExact == RowsArePacked /\ BmpComesBack /\ SizesAgree /\ OverlaysRepeat /\ ShapesAreExact
=============================================================================
