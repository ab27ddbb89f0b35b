----------------------------- MODULE MCLifecycle -----------------------------
(***************************************************************************)
(* A small world for Lifecycle: a new machine and one that is set up; an   *)
(* owner with a handful of update files.                                   *)
(***************************************************************************)
EXTENDS Lifecycle, MCKeys

MCStrong == {pk1, pk2, kek1, outsider}

Enrol  == Signed("PK", Pk1, 1, {pk1})
Rotate == Signed("PK", Pk2, 2, {pk1})
Reset == Signed("PK", NoData, 3, {pk2})
ByOld  == Signed("KEK", Kek1, 2, {pk1})
ByNew  == Signed("KEK", KekPair, 3, {pk2})
ByKek  == Signed("db", Db1, 2, {kek1})

(* Queues that are good in their order on the machine set up below, and one *)
(* (Enrol) that is stale there.                                             *)
MCUpdateArgs ==
  { <<Enrol>>, <<Rotate>>, <<ByOld>>, <<ByKek>>, <<ByOld, Rotate>>, <<Rotate, ByNew>>,
    <<Rotate, Reset>> }

Arg(update, force) == [key |-> update.key, file |-> update.data, force |-> force]

MCWriteArgs ==
  { Arg(Enrol, FALSE), Arg(Rotate, FALSE), Arg(ByKek, TRUE),
    [key |-> "TS",  file |-> ByOld.data, force |-> FALSE],
    [key |-> "dbx", file |-> Malformed,  force |-> TRUE],
    [key |-> "dbx", file |-> Malformed,  force |-> FALSE],
    [key |-> "KEK", file |-> Unreadable, force |-> TRUE],
    [key |-> "KEK", file |-> Unreadable, force |-> FALSE] }

(* An owner who never skips the validation. *)
MCValidWriteArgs == {arg \in MCWriteArgs : ~arg.force}

Protected(key, data) == new_secvar(key, data, {"PROTECTED"})
Volatile(key)        == new_secvar(key, NoData, {"VOLATILE"})

MCFirstBanks ==
  { [i \in 1..5 |-> Backend!DefaultVar(Backend!Order[i])],
    <<Protected("PK", Pk1), Var("KEK", Kek1), TS(<<1, 1, 1, 1>>),
      Volatile("db"), Volatile("dbx")>> }
=============================================================================
