----------------------------- MODULE MCGenerate -----------------------------
(***************************************************************************)
(* A small world for Generate: a strong and a weak certificate, a file to  *)
(* hash, an ESL and an auth file from before, and command lines that go    *)
(* each of the ways through generate, right and wrong.                     *)
(***************************************************************************)
EXTENDS Generate, MCKeys

MCAlgs   == {"SHA256", "SHA1"}
MCStrong == {pk1, kek1}
MCLength == [sig \in MCCerts \cup MCAlgs \cup MCJunk |->
               IF sig = "SHA1" THEN 20 ELSE IF sig = "SHA256" THEN 32 ELSE 56]

MCBank == <<Var("PK", Pk1), Var("KEK", KekHidden), TS(<<0, 0, 0, 0>>)>>

MCGiven ==
  { [kind |-> "file"],
    [kind |-> "cert", cert |-> kek1],
    [kind |-> "cert", cert |-> db1],
    [kind |-> "esl", data |-> KekPair],
    [kind |-> "pkcs7", certs |-> {kek1}, signers |-> {kek1},
     signed |-> get_hash_to_verify("db", Db1, 1)] }

Line(inForm, outForm) ==
  [inForm |-> inForm, outForm |-> outForm, var |-> NoVar, time |-> NoTime,
   alg |-> "SHA256", force |-> FALSE, keys |-> << >>, certs |-> << >>,
   external |-> FALSE]
For(key, line)    == [line EXCEPT !.var = key]
At(time, line)    == [line EXCEPT !.time = time]
Forced(line)      == [line EXCEPT !.force = TRUE]
By(certs, line)   == [line EXCEPT !.keys = certs, !.certs = certs]
With(cert, line)  == [line EXCEPT !.certs = <<cert>>, !.external = TRUE]

Signings ==
  {At(t, By(<<cert>>, For(k, Line(i, "a")))) :
     i \in {"f", "h", "c", "e", "r"}, k \in {"PK", "db", "dbx"}, t \in {NoTime, 2},
     cert \in {kek1}}
  \cup {By(<<pk1>>, For(k, Line(i, "a"))) : i \in {"c", "r"}, k \in {"PK", "db"}}
Externals ==
  UNION {{At(t, For(k, Line(i, "x"))), At(t, With(kek1, For(k, Line(i, "a"))))} :
     i \in {"f", "c", "e"}, k \in {"db", "dbx"}, t \in {NoTime, 2}}
Conversions ==
  {For(k, Line(form[1], form[2])) : k \in {NoVar, "db", "dbx"},
     form \in {"f", "h", "c", "a", "e"} \X {"h", "e"}}
Odd ==
  { Forced(Line("h", "e")), Forced(Line("p", "h")), Forced(Line("a", "e")),
    Line("p", "h"), Line("t", "h"), Line("c", "c"), Line("c", "t"),
    [Line("f", "e") EXCEPT !.alg = "SHAFOO"], [Line("f", "e") EXCEPT !.alg = "SHA1"],
    Forced(By(<<kek1>>, For("db", Line("e", "a")))),
    By(<<kek1, pk1>>, For("db", Line("c", "a"))),
    By(<<kek1>>, For("db", Line("c", "p"))),
    By(<<kek1>>, For("TS", Line("c", "a"))), By(<<kek1>>, Line("c", "a")),
    By(<<kek1>>, For("foo", Line("c", "a"))),
    By(<<db1>>, For("db", Line("r", "a"))),                \* a weak signer
    By(<<noise>>, For("db", Line("r", "a"))),              \* not a key
    At(0, By(<<kek1>>, For("db", Line("r", "a")))),
    [By(<<pk1>>, For("db", Line("r", "a"))) EXCEPT !.certs = <<kek1>>],
    [By(<<pk1>>, For("db", Line("r", "a"))) EXCEPT !.certs = <<pk1, kek1>>],
    [By(<<pk1>>, For("db", Line("r", "a"))) EXCEPT !.external = TRUE],
    For("db", Line("r", "a")), With(pk1, For("db", Line("c", "p"))),
    By(<<pk1>>, For("db", Line("a", "a"))) }

MCCommands == Signings \cup Externals \cup Conversions \cup Odd
=============================================================================
