------------------------------- MODULE Bitmap -------------------------------
(***************************************************************************)
(* Bitmap files (src/src/graphics/bmp.c): rows from the bottom up, padded  *)
(* to four bytes, blue before green before red.  A decoded image is a      *)
(* function from positions <<x, y>>, counted from the top left, to colours *)
(* (0xRRGGBB); `pixels' is what lies at bfOffBits.                         *)
(***************************************************************************)
EXTENDS Integers, Sequences, SequencesExt

Magenta == 16711935     \* the colour that stands for "transparent"
White == 16777215       \* the greatest colour
Colours == 0 .. White

Places(width, height) == (0 .. width - 1) \X (0 .. height - 1)

-----------------------------------------------------------------------------
(* The format, for an image [width, height, bits, colour].                 *)

PixelBytes(c, bits) ==
    <<c % 256, (c \div 256) % 256, c \div 65536>> \o (IF bits = 32 THEN <<255>> ELSE <<>>)

EncodeRow(image, y) ==
    LET bytes == FlattenSeq([x \in 1 .. image.width |->
                                PixelBytes(image.colour[<<x - 1, y>>], image.bits)])
    IN bytes \o [k \in 1 .. ((4 - (Len(bytes) % 4)) % 4) |-> 0]

EncodeBmp(image) ==
    [bfType |-> "BM", biWidth |-> image.width, biHeight |-> image.height, biBitCount |-> image.bits,
     pixels |-> FlattenSeq([k \in 1 .. image.height |-> EncodeRow(image, image.height - k)])]

-----------------------------------------------------------------------------
(* The code *)

bpp(file) == file.biBitCount \div 8

stride(file) == ((file.biWidth * bpp(file) + 3) \div 4) * 4

ColourAt(file, offset) ==
    file.pixels[offset + 3] * 65536 + file.pixels[offset + 2] * 256 + file.pixels[offset + 1]

\* Row y of the file is the y-th from below.
Decoded(file) ==
    [p \in Places(file.biWidth, file.biHeight) |->
        ColourAt(file, (file.biHeight - 1 - p[2]) * stride(file) + p[1] * bpp(file))]

\* What is put on the screen, from its top left corner on.
draw_bmp(file) == IF file.bfType # "BM" THEN <<>> ELSE Decoded(file)

\* <<the pixels that are not transparent>>, or <<>> for another size or depth.
bmp_parse_to_buffer(file, expected_w, expected_h) ==
    IF \/ file.bfType # "BM"
       \/ file.biWidth # expected_w \/ file.biHeight # expected_h
       \/ bpp(file) < 3
    THEN <<>>
    ELSE LET image == Decoded(file)
         IN <<[p \in {q \in DOMAIN image : image[q] # Magenta} |-> image[p]]>>

-----------------------------------------------------------------------------
\* An image as a program draws it, with 24 or 32 bits for a pixel.
IsImage(image) ==
    /\ image.width \in Nat /\ image.height \in Nat /\ image.bits \in {24, 32}
    /\ image.colour \in [Places(image.width, image.height) -> Colours]
=============================================================================
