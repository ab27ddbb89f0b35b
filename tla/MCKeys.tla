------------------------------- MODULE MCKeys -------------------------------
(***************************************************************************)
(* Certificates, contents, updates and variables the small models are made *)
(* of: two generations of PK, one KEK, one db certificate and an           *)
(* outsider's.                                                             *)
(***************************************************************************)
EXTENDS Edk2Update, SequencesExt

CONSTANTS pk1, pk2, kek1, db1, outsider, digest, noise

MCCerts  == {pk1, pk2, kek1, db1, outsider}
MCHashes == {digest}
MCJunk   == {noise}

(* Contents made of ESLs, with `tail' stray bytes behind them. *)
X509(sig, size) == [type |-> "X509", size |-> size, sig |-> sig]
SHA(sig)        == [type |-> "SHA", size |-> 76, sig |-> sig]
Bytes(esls, tail) ==
  [esls |-> esls, size |-> FoldSeq(LAMBDA e, n : e.size + n, tail, esls)]

Pk1  == Bytes(<<X509(pk1, 100)>>, 0)
Pk2  == Bytes(<<X509(pk2, 100)>>, 4)
Kek1 == Bytes(<<X509(kek1, 100)>>, 0)
Db1  == Bytes(<<X509(db1, 130)>>, 0)
Dbx1 == Bytes(<<SHA(digest)>>, 0)

(* Two ESLs of one size; of two sizes, so that 30 bytes are left in the     *)
(* last turn of the loop; and a second ESL that is never looked at.         *)
KekPair   == Bytes(<<X509(kek1, 100), X509(pk2, 100)>>, 0)
KekUneven == Bytes(<<X509(kek1, 100), X509(pk2, 130)>>, 0)
KekHidden == Bytes(<<X509(kek1, 100), X509(noise, 100)>>, 0)

Signed(key, data, time, signers) ==
  new_secvar(key, [time |-> time, signers |-> signers, data |-> data,
                   signed |-> get_hash_to_verify(key, data, time)], {})
(* The same auth file, submitted for another variable. *)
As(key, update) == [update EXCEPT !.key = key]

Var(key, data) == new_secvar(key, data, {})
TS(t)          == [key |-> "TS", stamps |-> t, flags |-> {}]
=============================================================================
