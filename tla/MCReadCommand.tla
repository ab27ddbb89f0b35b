---------------------------- MODULE MCReadCommand ----------------------------
(***************************************************************************)
(* A small world for ReadCommand: files of one list or two, four digits of *)
(* a size file; PK takes the many forms a variable's files can have, the   *)
(* other names a few of them.                                              *)
(***************************************************************************)
EXTENDS ReadCommand

NewLine == Space

Data(length, lists) == [length |-> length, lists |-> lists]
Files(data, size)   == [data |-> data, size |-> size]
Esl(list, hdr, sig, cert) == [list |-> list, hdr |-> hdr, sig |-> sig, cert |-> cert]

Cert  == Esl(45, 0, 17, TRUE)       \* the smallest that holds its signature
Hash  == Esl(76, 0, 48, FALSE)      \* a digest, as in dbx
Junk  == Esl(45, 0, 17, FALSE)
Tight == Esl(45, 0, 45, TRUE)       \* its signature ends behind it
Zero  == Esl(0, 0, 17, TRUE)        \* of no size
Size45 == <<4, 5, NewLine>>

Sane == { Files(Data(45, <<Cert>>), Size45), Files(Missing, Size45) }

(* Cut short, empty, without a size, too small or too large a size, not a  *)
(* number, in other bases; lists that follow a good one, and others.       *)
Many == Sane \cup
  { Files(Data(44, <<Cert>>), Size45),
    Files(Data(0, << >>), <<0, NewLine>>),
    Files(Data(45, <<Cert>>), Missing),
    Files(Data(45, <<Cert>>), << >>),
    Files(Data(45, <<Cert>>), <<NewLine>>),
    Files(Data(45, <<Cert>>), <<14, NewLine>>),
    Files(Data(45, <<Cert>>), <<0, X, 2, 13, NewLine>>),
    Files(Data(45, <<Cert>>), <<Space, 4, 5, NewLine>>),
    Files(Data(45, <<Cert>>), <<Minus, 4, 5, NewLine>>),
    Files(Data(45, <<Cert>>), <<4, 5, 0, 0, 0, NewLine>>),
    Files(Data(90, <<Cert, Cert>>), <<9, 0, NewLine>>),
    Files(Data(90, <<Cert, Cert>>), <<8, 9, NewLine>>),
    Files(Data(90, <<Cert, Junk>>), <<9, 0, NewLine>>),
    Files(Data(90, <<Tight, Cert>>), <<9, 0, NewLine>>),
    Files(Data(45, <<Tight>>), Size45),
    Files(Data(45, <<Zero>>), Size45),
    Files(Data(45, <<Junk>>), Size45) }

Octal  == { Files(Data(90, <<Cert, Cert>>), <<0, 5, 5>>) }
Hashes == { Files(Data(121, <<Hash, Junk>>), <<1, 2, 1, NewLine>>), Files(Missing, Missing) }
Stamps == { Files(Data(64, << >>), <<6, 4, NewLine>>), Files(Data(64, << >>), Size45) }

Dirs(First) ==
  {[PK |-> pk, KEK |-> kek, db |-> db, dbx |-> dbx, TS |-> ts] :
     pk \in First, kek \in Sane, db \in Sane, dbx \in Hashes, ts \in Stamps}
MCDirectories    == Dirs(Many)
OctalDirectories == Dirs(Octal)
MCInFiles        ==
  {Missing, Data(0, << >>), Data(121, <<Cert, Hash>>), Data(45, <<Tight>>), Data(76, <<Hash>>)}
=============================================================================
