------------------------------- MODULE PxCost -------------------------------
(***************************************************************************)
(* How much ink a page takes: the analyzers of lpacct/drop.c, which count  *)
(* droplets (1/255 of a full drop) chunk by chunk, and what they are meant *)
(* to come to, pixel by pixel.  A chunk is a sequence of bytes, three to a *)
(* pixel of a PPM image, one to a pixel of a PGM image; 255 is white.      *)
(***************************************************************************)
EXTENDS Integers, Sequences, FiniteSetsExt

Zero == [c |-> 0, m |-> 0, y |-> 0, k |-> 0]
Plus(a, b) == [ink \in DOMAIN a |-> a[ink] + b[ink]]

\* The whole pixels of a PPM chunk, and the three bytes of one of them
pixels(chunk) == 1 .. Len(chunk) \div 3
Pixel(chunk, i) == <<chunk[3 * i - 2], chunk[3 * i - 1], chunk[3 * i]>>

Sum(s) ==
  LET upto[i \in 0 .. Len(s)] == IF i = 0 THEN 0 ELSE upto[i - 1] + s[i]
  IN  upto[Len(s)]

min3(a, b, c) == Min({a, b, c})
mean3(a, b, c) == (a + b + c) \div 3
kdist(r, g, b) == ((r - g) * (r - g) + (r - b) * (r - b) + (g - b) * (g - b) + 2) \div 3
rgb_to_gray(r, g, b) == (78 * r + 151 * g + 27 * b) \div 256

invert_image(chunk) == [i \in DOMAIN chunk |-> 255 - chunk[i]]

-----------------------------------------------------------------------------
(* The analyzers, for one chunk *)

pxcost_cmyk(chunk) ==
  LET image == invert_image(chunk)
      black == [i \in pixels(chunk) |-> LET p == Pixel(image, i) IN min3(p[1], p[2], p[3])]
      all(j) == Sum([i \in pixels(chunk) |->
                       IF black[i] = 255 THEN 0
                       ELSE (255 * (Pixel(image, i)[j] - black[i])) \div (255 - black[i])])
  IN  [c |-> all(1), m |-> all(2), y |-> all(3), k |-> Sum(black)]

pxcost_cmypk(chunk) ==
  LET image == invert_image(chunk)
      p(i)  == Pixel(image, i)
      looks_gray(i) == kdist(p(i)[1], p(i)[2], p(i)[3]) <= 8
      all(j) == Sum([i \in pixels(chunk) |-> IF looks_gray(i) THEN 0 ELSE p(i)[j]])
      black == [i \in pixels(chunk) |-> IF looks_gray(i) THEN mean3(p(i)[1], p(i)[2], p(i)[3]) ELSE 0]
  IN  [c |-> all(1), m |-> all(2), y |-> all(3), k |-> Sum(black)]

\* The sum of one color over the pixels
Color(chunk, j) == Sum([i \in pixels(chunk) |-> Pixel(chunk, i)[j]])

pxcost_cmy(chunk) ==
  LET all(j) == 255 * (Len(chunk) \div 3) - Color(chunk, j)
  IN  [c |-> all(1), m |-> all(2), y |-> all(3), k |-> 0]

\* For a PPM image the three sums of the chunk are weighted, not each pixel.
\* They are 32 bits wide and do not overflow (see Lpacct_proofs).
pxcost_gray(chunk, type) ==
  [Zero EXCEPT !.k =
     IF type = "PPM"
       THEN 255 * (Len(chunk) \div 3) - rgb_to_gray(Color(chunk, 1), Color(chunk, 2), Color(chunk, 3))
       ELSE 255 * Len(chunk) - Sum(chunk)]

\* mpxm_analyzer[]
analyzer(colorspace, chunk, type) ==
  CASE colorspace = "CMYK"  -> pxcost_cmyk(chunk)
    [] colorspace = "CMYPK" -> pxcost_cmypk(chunk)
    [] colorspace = "CMY"   -> pxcost_cmy(chunk)
    [] OTHER                -> pxcost_gray(chunk, type)

-----------------------------------------------------------------------------
(* What they are to come to for one pixel or gray value, from the comments   *)
(* in drop.c, but for the weights of the gray of a PPM image                 *)

\* The part that is left of an ink when the black is taken out
Part(top, x) == IF top = 0 THEN 0 ELSE (255 * (top - x)) \div top

\* The distance of the colors is at most 8.
LooksGray(r, g, b) == (r - g) * (r - g) + (r - b) * (r - b) + (g - b) * (g - b) <= 24

PixelCost(colorspace, r, g, b) ==
  LET top == Max({r, g, b})
  IN  CASE colorspace = "CMYK" -> [c |-> Part(top, r), m |-> Part(top, g), y |-> Part(top, b), k |-> 255 - top]
        [] colorspace = "CMY" \/ (colorspace = "CMYPK" /\ ~LooksGray(r, g, b)) ->
             [c |-> 255 - r, m |-> 255 - g, y |-> 255 - b, k |-> 0]
        [] OTHER -> [Zero EXCEPT !.k = (765 - r - g - b) \div 3]

\* The pixels of a page, one after the other
PageCost(colorspace, page) ==
  LET Of(i) == LET p == Pixel(page, i) IN PixelCost(colorspace, p[1], p[2], p[3])
  IN  [ink \in DOMAIN Zero |-> Sum([i \in pixels(page) |-> Of(i)[ink]])]

\* The black of a page in grayscale, in 256ths of a droplet.  The weights are
\* those of rgb_to_gray(), which add up to 256, so that white is free; the
\* comment in pxcost_gray() has 76 instead of 78, with which it would not be.
GrayCost(type, page) ==
  IF type = "PGM" THEN Sum([j \in DOMAIN page |-> 256 * (255 - page[j])])
  ELSE Sum([i \in pixels(page) |->
              LET x == Pixel(page, i) IN 256 * 255 - (78 * x[1] + 151 * x[2] + 27 * x[3])])
=============================================================================
