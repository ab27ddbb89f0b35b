------------------------------ MODULE KeyStore ------------------------------
(***************************************************************************)
(* What the backend promises its caller, with no banks, no working copy    *)
(* and no loop: a queue of updates is either applied as a whole, in one    *)
(* step, or changes nothing; and it is applied only if each of its updates *)
(* is newer than what it replaces and signed by a key entitled to it in    *)
(* the store that the updates before it leave.                             *)
(*                                                                         *)
(* The rules are those of the README's VERIFY section, with one exception  *)
(* that the code makes and the README does not (OrphanReset).              *)
(***************************************************************************)
EXTENDS Integers, Sequences, FiniteSetsExt

VARIABLES store,   \* key -> its contents and the time of its last update
          queue,   \* the updates submitted together
          status   \* pending, accepted, rejected

(* README: PK can sign all other keys, KEK can sign db and dbx. *)
MaySign(key) == IF key \in {"PK", "KEK"} THEN {"PK"} ELSE {"PK", "KEK"}

(* The entry of key k once the first n updates have been applied. *)
After(n, k) ==
  LET replaced == {j \in 1..n : queue[j].key = k}
  IN  IF replaced = {} THEN store[k]
      ELSE LET u == queue[Max(replaced)].data
           IN  [data |-> u.data, time |-> u.time]

Empty(data) == data.size = 0

Holds(data, cert) == \E i \in DOMAIN data.esls : data.esls[i].sig = cert

(* Update i is signed, as what it is, by a holder of an entitled key. *)
Signed(i) ==
  LET u == queue[i]
  IN  /\ u.data.signed = [key |-> u.key, data |-> u.data.data, time |-> u.data.time]
      /\ \E a \in MaySign(u.key), c \in u.data.signers : Holds(After(i - 1, a).data, c)

(* Nobody is left to sign for the key, and the update empties it. *)
OrphanReset(i) ==
  /\ Empty(queue[i].data.data)
  /\ \A a \in MaySign(queue[i].key) : Empty(After(i - 1, a).data)

SetupMode == Empty(store["PK"].data)

Legal(i) ==
  /\ queue[i].data.time > After(i - 1, queue[i].key).time
  /\ SetupMode \/ Signed(i) \/ OrphanReset(i)

Init == status = "pending"

Accept ==
  /\ status = "pending" /\ status' = "accepted"
  /\ queue # << >>
  /\ \A i \in DOMAIN queue : Legal(i)
  /\ store' = [k \in DOMAIN store |-> After(Len(queue), k)]
  /\ queue' = << >>

Reject ==
  /\ status = "pending" /\ status' = "rejected"
  /\ queue' \in {queue, << >>}
  /\ UNCHANGED store

Next == Accept \/ Reject

Spec == Init /\ [][Next]_<<store, queue, status>>
=============================================================================
