--------------------------- MODULE MCUpdateFiles ---------------------------
(***************************************************************************)
(* Updates of three lengths; the beginning of the longest, and an empty    *)
(* file, are what somebody's editor may leave meanwhile.                   *)
(***************************************************************************)
EXTENDS UpdateFiles

CONSTANTS w1, w2, a1, b1, b2, c1, c2, c3, o1

MCWriters   == {w1, w2}
MCDocuments == {<<a1>>, <<b1, b2>>, <<c1, c2, c3>>}
MCScraps    == {<< >>, <<c1, c2>>}
MCOriginal  == <<o1, o1, o1, o1>>
=============================================================================
