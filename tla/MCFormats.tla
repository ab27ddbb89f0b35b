----------------------------- MODULE MCFormats -----------------------------
(***************************************************************************)
(* Small widths and files for Formats: lengths and sizes on both sides of  *)
(* every comparison, and of the signs.                                     *)
(***************************************************************************)
EXTENDS Formats

Esl(list, hdr, sig, good) == [list |-> list, hdr |-> hdr, sig |-> sig, good |-> good]

MCLengths   == {0, 20, 39, 40, 41, 68, 69, 70, 86, 100, 127}
MCDwLengths == {0, 7, 23, 24, 25, 41, 54, 84, 111, 112, 127, 240, 255}

MCHeaders ==
  { Esl(45, 0, 17, TRUE),          \* the smallest that holds its signature
    Esl(30, 0, 18, TRUE),          \* shorter than its header and signature
    Esl(60, 4, 28, TRUE), Esl(45, 0, 17, FALSE),
    Esl(0, 0, 17, TRUE),
    Esl(17, 0, 16, TRUE), Esl(40, 0, 12, TRUE), Esl(40, 8, 0, TRUE),
    Esl(29, 230, 40, TRUE),        \* the sum comes round
    Esl(126, 0, 20, TRUE), Esl(200, 0, 20, TRUE) }
=============================================================================
