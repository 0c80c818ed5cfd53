------------------------------ MODULE MCLpacct ------------------------------
(* A small instance of Lpacct: one document for each analyzer, of a page of  *)
(* two pixels and a page of one, with chunks of one pixel.                   *)
EXTENDS Lpacct, TLC

Ppm(bytes) == [type |-> "PPM", bytes |-> bytes]
Pgm(bytes) == [type |-> "PGM", bytes |-> bytes]

Pages == <<Ppm(<<0, 100, 255, 90, 90, 92>>), Ppm(<<255, 255, 7>>)>>

MCDocs ==
  [colorspace : colorspaces, pages : {Pages}, file : {FALSE}]
  \cup [colorspace : {"GRAY"}, pages : {<<>>, <<Pgm(<<0, 100, 255, 90>>), Pgm(<<255, 7>>)>>}, file : BOOLEAN]
=============================================================================
