---------------------------- MODULE MCTimestamps ----------------------------
(***************************************************************************)
(* A calendar of two years with two months of two days, of two hours of a  *)
(* minute of three seconds, in bytes of four values; a year needs more     *)
(* than a byte.                                                            *)
(***************************************************************************)
EXTENDS Timestamps

Tm(y, mon, d, h, s) ==
  [year |-> y, month |-> mon, day |-> d, hour |-> h, minute |-> 0, second |-> s,
   pad1 |-> 0]

MCFirst == [year |-> 3, month |-> 1, day |-> 1, hour |-> 0, minute |-> 0, second |-> 0]
MCLast  == [year |-> 4, month |-> 2, day |-> 2, hour |-> 1, minute |-> 0, second |-> 2]

(* As struct tm: months from 0. *)
MCTyped == { Tm(3, 0, 1, 0, 0), Tm(3, 0, 2, 1, 2), Tm(3, 1, 1, 0, 1), Tm(4, 0, 1, 1, 0),
             Tm(4, 1, 2, 1, 2), Tm(3, 0, 1, 0, 3), Tm(2, 0, 1, 0, 0) }

(* As efi_time: a January of month 0, no date at all, and a pad byte set. *)
MCForeign == { Tm(4, 0, 2, 0, 0), Zero, [Tm(3, 1, 1, 0, 0) EXCEPT !.pad1 = 3] }
=============================================================================
