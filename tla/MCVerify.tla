------------------------------ MODULE MCVerify ------------------------------
(***************************************************************************)
(* A small world for VerifyCommand: one to MaxUpdates <variable> <file>    *)
(* pairs after -u, and directories and lists of current variables that     *)
(* take each of the ways through validateBanks.                            *)
(***************************************************************************)
EXTENDS VerifyCommand, MCKeys

CONSTANT MaxUpdates

MCStrong == {pk1, pk2, kek1, outsider}     \* db1 is, say, RSA-4096

(* 20 bytes: too short for an ESL. *)
Scrap == Bytes(<< >>, 20)

MCUpdates ==
  { Signed("PK", Pk2, 2, {pk1}),
    Signed("PK", NoData, 3, {pk2}),
    Signed("KEK", Kek1, 2, {pk1}),
    Signed("KEK", Db1, 3, {pk1}),            \* weak, so not for KEK
    Signed("db", Db1, 2, {kek1}),
    Signed("db", Db1, 1, {kek1}),            \* not later than the last one
    Signed("db", Scrap, 3, {kek1}),
    Signed("dbx", NoData, 2, {db1}),         \* signed with a weak key
    As("TS", Signed("db", Db1, 2, {kek1})),
    new_secvar("dbx", Malformed, {}) }

MCUpdateArgs == SeqOf(MCUpdates, MaxUpdates) \ {<< >>}   \* parse_opt wants one

MCStoredVars ==
  { << >>,
    <<Var("PK", Pk1), Var("KEK", Kek1), TS(<<1, 1, 1, 1>>)>>,
    <<Var("PK", Pk1), Var("KEK", Scrap)>>,       \* a truncated data file
    <<Var("PK", Pk1), TS(<<1, 0, 0, 0>>)>>,      \* only PK was ever updated
    <<Var("PK", NoData), Var("db", Db1)>> }

MCListedVars == { <<Var("PK", Pk1), Var("PK", Scrap)>> }
=============================================================================
