---------------------------- MODULE MCEdk2Compat ----------------------------
(***************************************************************************)
(* A small world for Edk2Compat: every queue of at most MaxQueue of the    *)
(* updates below, against every bank below.                                *)
(***************************************************************************)
EXTENDS Edk2Compat, MCKeys

CONSTANT MaxQueue

Updates ==
  { Signed("PK", Pk2, 1, {pk1}),
    Signed("PK", NoData, 2, {pk1}),
    Signed("PK", Pk1, 3, {pk2}),
    Signed("KEK", Kek1, 1, {pk1}),
    Signed("KEK", KekPair, 2, {pk2, outsider}),
    Signed("KEK", Db1, 2, {kek1}),                      \* not KEK's to change
    Signed("KEK", KekUneven, 2, {pk1}),
    Signed("KEK", KekHidden, 2, {pk1}),
    Signed("KEK", NoData, 3, {pk1}),
    Signed("db", Db1, 1, {kek1}),
    Signed("db", Db1, 2, {db1}),
    Signed("db", NoData, 2, {outsider}),
    Signed("dbx", Dbx1, 1, {pk2}),
    As("dbx", Signed("db", Dbx1, 2, {kek1})) }

MCUpdateQueues == SeqOf(Updates, MaxQueue)

MCBanks ==
  { << >>,                                              \* first boot
    <<Var("PK", Pk1), Var("KEK", Kek1), Var("db", Db1), TS(<<0, 0, 0, 0>>)>>,
    <<Var("PK", Pk1)>>,                                 \* verify -c PK <file>
    <<Var("PK", Pk1), Var("KEK", KekHidden), Var("PK", Pk2),
      TS(<<1, 1, 1, 1>>)>>,                             \* the same name twice
    <<Var("KEK", Kek1), Var("db", Db1), Var("dbx", Dbx1), TS(<<1, 2, 1, 1>>)>> }
=============================================================================
