--------------------------- MODULE LifecycleProofs ---------------------------
(***************************************************************************)
(* Theorems about Lifecycle: any number of writes, verifications and       *)
(* reboots, with any update files.                                         *)
(***************************************************************************)
EXTENDS Lifecycle, VerifyProofs

-----------------------------------------------------------------------------
(* What Keep keeps of a sequence.  The induction is on the place its loop   *)
(* has come to; a smallest counterexample stands in for the rule.           *)

LEMMA UpTo ==
  ASSUME NEW N \in Nat, NEW P, 0 \in P,
         \A n \in 0..(N - 1) : n \in P => n + 1 \in P
  PROVE  \A n \in 0..N : n \in P
<1> DEFINE Below == {p \in Nat \X Nat : p[1] < p[2]}
           S     == {n \in 0..N : n \notin P}
<1> SUFFICES ASSUME S # {} PROVE FALSE
  OBVIOUS
<1>1. IsWellFoundedOn(Below, Nat)
  BY NatLessThanWellFounded DEF OpToRel
<1>2. PICK m \in S : \A n \in S : ~(<<n, m>> \in Below)
  <2>1. S \subseteq Nat /\ S # {}
    OBVIOUS
  <2> HIDE DEF S, Below
  <2> QED BY <1>1, <2>1, WFMin
<1>3. m \in 0..N /\ m \notin P /\ m # 0
  BY <1>2
<1>4. m - 1 \in 0..(N - 1) /\ <<m - 1, m>> \in Below
  BY <1>3
<1>5. m - 1 \in P
  BY <1>2, <1>4
<1>6. m - 1 + 1 \in P
  BY <1>4, <1>5
<1> QED BY <1>3, <1>6

(* One turn of the loop. *)
Turn(seq, places, kept, n) ==
  IF n = 0 THEN << >>
  ELSE IF n \in places THEN Append(kept[n - 1], seq[n]) ELSE kept[n - 1]

LEMMA LoopExists ==
  ASSUME NEW seq, NEW places, NEW N \in Nat
  PROVE  \E kept : kept = [n \in 0..N |-> Turn(seq, places, kept, n)]
<1> DEFINE P == {m \in 0..N : \E kept : kept = [n \in 0..m |-> Turn(seq, places, kept, n)]}
<1>1. 0 \in P
  <2>1. [n \in 0..0 |-> << >>]
          = [n \in 0..0 |-> Turn(seq, places, [j \in 0..0 |-> << >>], n)]
    BY DEF Turn
  <2> QED BY <2>1
<1>2. ASSUME NEW m \in 0..(N - 1), m \in P PROVE m + 1 \in P
  <2>1. PICK kept : kept = [n \in 0..m |-> Turn(seq, places, kept, n)]
    BY <1>2
  <2> DEFINE longer == [n \in 0..(m + 1) |->
                          IF n = m + 1 THEN Turn(seq, places, kept, m + 1) ELSE kept[n]]
  <2>2. \A n \in 0..(m + 1) : longer[n] = Turn(seq, places, longer, n)
    <3> TAKE n \in 0..(m + 1)
    <3>1. n = 0 \/ (n - 1 \in 0..m /\ longer[n - 1] = kept[n - 1])
      OBVIOUS
    <3>2. Turn(seq, places, longer, n) = Turn(seq, places, kept, n)
      BY <3>1 DEF Turn
    <3>3. CASE n = m + 1
      BY <3>2, <3>3
    <3>4. CASE n # m + 1
      BY <2>1, <3>2, <3>4
    <3> QED BY <3>3, <3>4
  <2> HIDE DEF longer
  <2>3. longer = [n \in 0..(m + 1) |-> Turn(seq, places, longer, n)]
    BY <2>2 DEF longer
  <2> QED BY <2>3
<1> HIDE DEF P
<1>3. N \in P
  BY <1>1, <1>2, UpTo
<1> QED BY <1>3 DEF P

(* Result r holds elements of seq from among its first m places, in order,  *)
(* one for each of the places asked for.                                    *)
KeptFrom(seq, places, m, r, S) ==
  /\ r \in Seq(S)
  /\ \E at \in [DOMAIN r -> 1..m] :
       /\ \A n \in DOMAIN r : at[n] \in places /\ r[n] = seq[at[n]]
       /\ \A i, j \in DOMAIN r : i < j => at[i] < at[j]
       /\ \A i \in 1..m : i \in places => \E n \in DOMAIN r : at[n] = i

LEMMA Kept ==
  ASSUME NEW S, NEW seq \in Seq(S), NEW places
  PROVE  KeptFrom(seq, places, Len(seq), Keep(seq, places), S)
<1> DEFINE F == CHOOSE kept : kept = [n \in 0..Len(seq) |-> Turn(seq, places, kept, n)]
<1>1. F = [n \in 0..Len(seq) |-> Turn(seq, places, F, n)] /\ Len(seq) \in Nat
  BY LoopExists
<1>2. Keep(seq, places) = F[Len(seq)]
  BY DEF Keep, Turn
<1> HIDE DEF F
<1> DEFINE P == {m \in 0..Len(seq) : KeptFrom(seq, places, m, F[m], S)}
<1>3. 0 \in P
  <2>1. F[0] = << >>
    BY <1>1 DEF Turn
  <2>2. << >> \in Seq(S) /\ DOMAIN << >> = {} /\ << >> \in [{} -> 1..0]
    OBVIOUS
  <2> QED BY <1>1, <2>1, <2>2 DEF KeptFrom
<1>4. ASSUME NEW m \in 0..(Len(seq) - 1), m \in P PROVE m + 1 \in P
  <2> DEFINE r == F[m]
             q == F[m + 1]
  <2>1. /\ m \in Nat /\ m + 1 \in 1..Len(seq) /\ seq[m + 1] \in S /\ r \in Seq(S)
        /\ q = IF m + 1 \in places THEN Append(r, seq[m + 1]) ELSE r
    <3>1. m \in Nat /\ m + 1 \in 1..Len(seq) /\ m + 1 \in 0..Len(seq) /\ m + 1 # 0
          /\ m + 1 - 1 = m
      BY <1>1
    <3>2. q = Turn(seq, places, F, m + 1)
      BY <1>1, <3>1
    <3> QED BY <1>4, <3>1, <3>2 DEF Turn, KeptFrom
  <2>2. PICK at \in [DOMAIN r -> 1..m] :
          /\ \A n \in DOMAIN r : at[n] \in places /\ r[n] = seq[at[n]]
          /\ \A i, j \in DOMAIN r : i < j => at[i] < at[j]
          /\ \A i \in 1..m : i \in places => \E n \in DOMAIN r : at[n] = i
    BY <1>4 DEF KeptFrom
  <2> HIDE DEF r, q
  <2>3. CASE m + 1 \in places
    <3> DEFINE to == [n \in DOMAIN q |-> IF n = Len(q) THEN m + 1 ELSE at[n]]
    <3>1. /\ q \in Seq(S) /\ Len(q) = Len(r) + 1 /\ q[Len(q)] = seq[m + 1]
          /\ \A n \in DOMAIN r : q[n] = r[n]
          /\ DOMAIN q = 1..(Len(r) + 1) /\ DOMAIN r = 1..Len(r) /\ Len(r) \in Nat
      BY <2>1, <2>3
    <3>2. to \in [DOMAIN q -> 1..(m + 1)]
      BY <2>1, <2>2, <3>1
    <3>3. \A n \in DOMAIN q : to[n] \in places /\ q[n] = seq[to[n]]
      BY <2>2, <2>3, <3>1
    <3>4. \A i, j \in DOMAIN q : i < j => to[i] < to[j]
      <4> TAKE i, j \in DOMAIN q
      <4> HAVE i < j
      <4>1. i \in DOMAIN r /\ to[i] = at[i] /\ at[i] \in 1..m
        BY <2>2, <3>1
      <4>2. CASE j = Len(q)
        BY <2>1, <4>1, <4>2
      <4>3. CASE j # Len(q)
        BY <2>2, <3>1, <4>1, <4>3
      <4> QED BY <4>2, <4>3
    <3>5. \A i \in 1..(m + 1) : i \in places => \E n \in DOMAIN q : to[n] = i
      <4> TAKE i \in 1..(m + 1)
      <4> HAVE i \in places
      <4>1. CASE i = m + 1
        BY <3>1, <4>1
      <4>2. CASE i # m + 1
        <5>1. PICK n \in DOMAIN r : at[n] = i
          BY <2>1, <2>2, <4>2
        <5>2. n \in DOMAIN q /\ to[n] = i
          BY <3>1, <5>1
        <5> QED BY <5>2
      <4> QED BY <4>1, <4>2
    <3> HIDE DEF to
    <3>6. KeptFrom(seq, places, m + 1, q, S)
      BY <3>1, <3>2, <3>3, <3>4, <3>5 DEF KeptFrom
    <3> QED BY <1>1, <3>6 DEF q
  <2>4. CASE m + 1 \notin places
    <3>1. q = r /\ at \in [DOMAIN r -> 1..(m + 1)]
      BY <2>1, <2>4
    <3>2. \A i \in 1..(m + 1) : i \in places => i \in 1..m
      BY <2>1, <2>4
    <3>3. KeptFrom(seq, places, m + 1, q, S)
      BY <2>1, <2>2, <3>1, <3>2 DEF KeptFrom
    <3> QED BY <1>1, <3>3 DEF q
  <2> QED BY <2>3, <2>4
<1> HIDE DEF P
<1>5. Len(seq) \in P
  <2>1. PICK N \in Nat : N = Len(seq)
    BY <1>1
  <2>2. \A n \in 0..(N - 1) : n \in P => n + 1 \in P
    BY <1>4, <2>1
  <2>3. \A n \in 0..N : n \in P
    BY <1>3, <2>2, UpTo
  <2> QED BY <2>1, <2>3
<1> QED BY <1>2, <1>5 DEF P
-----------------------------------------------------------------------------
(***************************************************************************)
(* Banks that name no variable twice.  Their variables can be told by      *)
(* place: there is only one to be found.                                   *)
(***************************************************************************)

Once(bank)   == \A i, j \in DOMAIN bank : bank[i].key = bank[j].key => i = j
Marked(bank) == \A i \in DOMAIN bank :
                  "VOLATILE" \in bank[i].flags => bank[i].key \in Keys /\ bank[i].data.size = 0
Full(bank)   == \A k \in Variables : HasVar(k, bank)
Sound(bank)  == bank \in Seq(Loaded) /\ Once(bank) /\ Marked(bank)

LEMMA SoundIsComplete ==
  ASSUME NEW bank
  PROVE  bank \in Seq(Loaded) /\ Complete(bank) <=> Sound(bank) /\ Full(bank)
BY DEF Complete, Sound, Once, Marked, Full

LEMMA FoundAt ==
  ASSUME NEW bank, Once(bank), NEW i \in DOMAIN bank, DOMAIN bank \subseteq Nat
  PROVE  /\ HasVar(bank[i].key, bank)
         /\ FirstAt(bank[i].key, bank) = i
         /\ find_secvar(bank[i].key, bank) = bank[i]
<1>1. {j \in DOMAIN bank : bank[j].key = bank[i].key} = {i}
  BY DEF Once
<1>2. Min({i}) = i
  BY DEF Min
<1> QED BY <1>1, <1>2 DEF HasVar, FirstAt, find_secvar

LEMMA LoadedKinds ==
  ASSUME NEW v \in Loaded
  PROVE  /\ v.key \in Variables /\ v.flags \in SUBSET Flags
         /\ v.key \in Keys => /\ v \in KeyVar /\ v.data \in Data /\ v.data.size \in Nat
                              /\ Fits(v.data)
                              /\ v.data.size = 0 => v.data = NoData
         /\ v.key = "TS" => v \in TSVar /\ v.stamps \in [1..4 -> Nat]
<1>1. v \in SecVar /\ (v.key \in Keys => Fits(v.data)) /\ "TS" \notin Keys
  BY DEF Loaded, Keys
<1>2. CASE v \in KeyVar
  <2>1. v.key \in Keys /\ v.data \in Data /\ v.flags \in SUBSET Flags
    BY <1>2 DEF KeyVar
  <2>2. ASSUME v.data.size = 0 PROVE v.data = NoData
    <3>1. v.data.esls = << >>
      BY <1>1, <2>1, <2>2 DEF Fits, ListHeader
    <3> QED BY <2>1, <2>2, <3>1 DEF Data, NoData
  <2> QED BY <1>1, <1>2, <2>1, <2>2 DEF Variables, Data
<1>3. CASE v \in TSVar
  BY <1>1, <1>3 DEF TSVar, Variables
<1> QED BY <1>1, <1>2, <1>3 DEF SecVar

(* A variable that says nothing: leaving it out makes no difference.        *)
Blank(v) == \/ v.key \in Keys /\ v.data = NoData
            \/ v.key = "TS" /\ v.stamps = [i \in 1..4 |-> 0]

(* Two variables that say the same.                                         *)
Alike(v, w) == /\ v.key = w.key
               /\ v.key \in Keys => v.data = w.data
               /\ v.key = "TS" => v.stamps = w.stamps

LEMMA PlaceInTS ==
  ASSUME NEW key \in Keys
  PROVE  get_last_timestamp(key) \in 1..4
BY DEF Keys, get_last_timestamp

LEMMA PartSame ==
  ASSUME NEW bank \in Seq(Loaded), Once(bank), NEW part \in Seq(Loaded),
         NEW at \in [DOMAIN part -> DOMAIN bank],
         \A m, n \in DOMAIN part : at[m] = at[n] => m = n,
         \A n \in DOMAIN part : Alike(part[n], bank[at[n]]),
         \A i \in DOMAIN bank : Blank(bank[i]) \/ \E n \in DOMAIN part : at[n] = i
  PROVE  Once(part) /\ SameContents(part, bank)
<1>1. Once(part)
  BY DEF Once, Alike
<1>0. DOMAIN part \subseteq Nat /\ DOMAIN bank \subseteq Nat
  OBVIOUS
<1>2. ASSUME NEW v \in Variables
      PROVE  \/ /\ HasVar(v, part) /\ HasVar(v, bank)
                /\ Alike(find_secvar(v, part), find_secvar(v, bank))
                /\ find_secvar(v, part).key = v
             \/ /\ ~HasVar(v, part)
                /\ HasVar(v, bank) => Blank(find_secvar(v, bank)) /\ find_secvar(v, bank).key = v
  <2>1. CASE HasVar(v, part)
    <3>1. PICK n \in DOMAIN part : part[n].key = v
      BY <2>1 DEF HasVar
    <3>2. find_secvar(v, part) = part[n] /\ part[n].key = v
      BY <1>0, <1>1, <3>1, FoundAt
    <3>3. bank[at[n]].key = v /\ at[n] \in DOMAIN bank
      BY <3>1 DEF Alike
    <3>4. find_secvar(v, bank) = bank[at[n]] /\ HasVar(v, bank)
      BY <1>0, <3>3, FoundAt
    <3> QED BY <2>1, <3>1, <3>2, <3>4
  <2>2. CASE ~HasVar(v, part) /\ HasVar(v, bank)
    <3>1. PICK i \in DOMAIN bank : bank[i].key = v
      BY <2>2 DEF HasVar
    <3>2. Blank(bank[i])
      <4>1. ~\E n \in DOMAIN part : at[n] = i
        BY <2>2, <3>1 DEF HasVar, Alike
      <4> QED BY <4>1
    <3>3. find_secvar(v, bank) = bank[i]
      BY <1>0, <3>1, FoundAt
    <3> QED BY <2>2, <3>1, <3>2, <3>3
  <2> QED BY <2>1, <2>2
<1>3. ASSUME NEW k \in Keys
      PROVE  DataIn(k, part) = DataIn(k, bank) /\ TimeIn(k, part) = TimeIn(k, bank)
  <2>1. DataIn(k, part) = DataIn(k, bank)
    BY <1>2 DEF DataIn, Variables, Alike, Blank, Keys
  <2>2. get_last_timestamp(k) \in 1..4
    BY PlaceInTS
  <2>3. TimeIn(k, part) = TimeIn(k, bank)
    BY <1>2, <2>2 DEF TimeIn, Variables, Alike, Blank, Keys
  <2> QED BY <2>1, <2>3
<1> QED BY <1>1, <1>3 DEF SameContents

LEMMA KeptSame ==
  ASSUME NEW bank \in Seq(Loaded), Once(bank), NEW places,
         \A i \in DOMAIN bank : i \in places \/ Blank(bank[i])
  PROVE  LET part == Keep(bank, places)
         IN  /\ part \in Seq(Loaded) /\ Once(part) /\ SameContents(part, bank)
             /\ \A n \in DOMAIN part : \E i \in DOMAIN bank : part[n] = bank[i]
<1> DEFINE part == Keep(bank, places)
<1>2. KeptFrom(bank, places, Len(bank), part, Loaded)
  BY Kept
<1>3. part \in Seq(Loaded)
  BY <1>2 DEF KeptFrom
<1>4. PICK at \in [DOMAIN part -> 1..Len(bank)] :
        /\ \A n \in DOMAIN part : at[n] \in places /\ part[n] = bank[at[n]]
        /\ \A i, j \in DOMAIN part : i < j => at[i] < at[j]
        /\ \A i \in 1..Len(bank) : i \in places => \E n \in DOMAIN part : at[n] = i
  BY <1>2 DEF KeptFrom
<1> HIDE DEF part
<1>5. \A m, n \in DOMAIN part : at[m] = at[n] => m = n
  <2> TAKE m, n \in DOMAIN part
  <2> HAVE at[m] = at[n]
  <2>1. m \in Nat /\ n \in Nat /\ at[m] \in 1..Len(bank)
    BY <1>3, <1>4
  <2>2. Len(bank) \in Nat
    OBVIOUS
  <2> QED BY <1>4, <2>1, <2>2
<1>6. \A n \in DOMAIN part : Alike(part[n], bank[at[n]])
  BY <1>4 DEF Alike
<1>7. \A i \in DOMAIN bank : Blank(bank[i]) \/ \E n \in DOMAIN part : at[n] = i
  BY <1>4
<1>8. at \in [DOMAIN part -> DOMAIN bank]
  BY <1>4
<1>9. Once(part) /\ SameContents(part, bank)
  BY <1>3, <1>5, <1>6, <1>7, <1>8, PartSame
<1>10. \A n \in DOMAIN part : \E i \in DOMAIN bank : part[n] = bank[i]
  BY <1>4, <1>8
<1> QED BY <1>3, <1>9, <1>10 DEF part

(* What storing a bank leaves out is blank ...                              *)
LEMMA PersistentSame ==
  ASSUME NEW bank, Sound(bank)
  PROVE  Sound(Persistent(bank)) /\ SameContents(Persistent(bank), bank)
<1> DEFINE places == {i \in DOMAIN bank : "VOLATILE" \notin bank[i].flags}
           part   == Persistent(bank)
<1>1. bank \in Seq(Loaded) /\ Once(bank) /\ Marked(bank)
  BY DEF Sound
<1>2. \A i \in DOMAIN bank : i \in places \/ Blank(bank[i])
  <2> TAKE i \in DOMAIN bank
  <2>1. bank[i] \in Loaded
    BY <1>1
  <2>2. CASE i \notin places
    <3>1. bank[i].key \in Keys /\ bank[i].data.size = 0
      BY <1>1, <2>2 DEF Marked
    <3> QED BY <2>1, <3>1, LoadedKinds DEF Blank
  <2> QED BY <2>2
<1>3. /\ part \in Seq(Loaded) /\ Once(part) /\ SameContents(part, bank)
      /\ \A n \in DOMAIN part : \E i \in DOMAIN bank : part[n] = bank[i]
  <2>1. part = Keep(bank, places)
    BY DEF Persistent
  <2> HIDE DEF part, places
  <2> QED BY <1>1, <1>2, <2>1, KeptSame
<1> HIDE DEF part
<1>4. Marked(part)
  BY <1>1, <1>3 DEF Marked
<1> QED BY <1>3, <1>4 DEF Sound, part

(* ... and so is what the data files do not show.                           *)
LEMMA VisibleSame ==
  ASSUME NEW bank, Sound(bank)
  PROVE  Sound(Visible(bank)) /\ SameContents(Visible(bank), bank)
<1> DEFINE places == {i \in DOMAIN bank : bank[i].key = "TS" \/ bank[i].data.size > 0}
           seen   == Keep(bank, places)
           shown  == [i \in DOMAIN seen |-> [seen[i] EXCEPT !.flags = {}]]
<1>1. bank \in Seq(Loaded) /\ Once(bank) /\ Marked(bank)
  BY DEF Sound
<1>2. \A i \in DOMAIN bank : i \in places \/ Blank(bank[i])
  <2> TAKE i \in DOMAIN bank
  <2>1. bank[i] \in Loaded
    BY <1>1
  <2>2. CASE i \notin places
    <3>1. bank[i].key \in Keys /\ bank[i].data = NoData
      BY <2>1, <2>2, LoadedKinds DEF Variables
    <3> QED BY <3>1 DEF Blank
  <2> QED BY <2>2
<1>3. /\ seen \in Seq(Loaded) /\ Once(seen) /\ SameContents(seen, bank)
  <2> HIDE DEF places
  <2> QED BY <1>1, <1>2, KeptSame
<1>4. Visible(bank) = shown
  BY DEF Visible
<1> HIDE DEF seen, places
<1>5. ASSUME NEW v \in Loaded
      PROVE  /\ [v EXCEPT !.flags = {}] \in Loaded
             /\ [v EXCEPT !.flags = {}].flags = {}
             /\ Alike([v EXCEPT !.flags = {}], v)
  <2>1. CASE v \in KeyVar
    BY <2>1 DEF KeyVar, SecVar, Loaded, Alike
  <2>2. CASE v \in TSVar
    BY <2>2 DEF TSVar, SecVar, Loaded, Alike, Keys
  <2> QED BY <2>1, <2>2 DEF Loaded, SecVar
<1>6. /\ shown \in Seq(Loaded) /\ DOMAIN shown = DOMAIN seen
      /\ \A n \in DOMAIN shown : shown[n].flags = {} /\ Alike(shown[n], seen[n])
  <2>1. DOMAIN seen = 1..Len(seen) /\ Len(seen) \in Nat /\ \A n \in DOMAIN seen : seen[n] \in Loaded
    BY <1>3
  <2>2. \A n \in DOMAIN seen : /\ shown[n] = [seen[n] EXCEPT !.flags = {}]
                               /\ shown[n] \in Loaded
    BY <1>5, <2>1
  <2>3. DOMAIN shown = DOMAIN seen
    OBVIOUS
  <2>4. shown \in Seq(Loaded)
    <3>1. shown \in [1..Len(seen) -> Loaded]
      BY <2>1, <2>2
    <3> HIDE DEF shown
    <3> QED BY <2>1, <3>1
  <2>5. \A n \in DOMAIN seen : shown[n].flags = {} /\ Alike(shown[n], seen[n])
    <3> TAKE n \in DOMAIN seen
    <3>1. shown[n] = [seen[n] EXCEPT !.flags = {}] /\ seen[n] \in Loaded
      BY <2>1, <2>2
    <3> HIDE DEF shown
    <3> QED BY <1>5, <3>1, Zenon
  <2> QED BY <2>3, <2>4, <2>5
<1> HIDE DEF shown
<1>7. Once(shown) /\ SameContents(shown, seen)
  <2> DEFINE at == [n \in DOMAIN shown |-> n]
  <2>1. at \in [DOMAIN shown -> DOMAIN seen] /\ \A n \in DOMAIN shown : at[n] = n
    BY <1>6
  <2> HIDE DEF at
  <2> QED BY <1>3, <1>6, <2>1, PartSame
<1>8. SameContents(shown, bank)
  BY <1>3, <1>7 DEF SameContents
<1>9. Marked(shown)
  BY <1>6 DEF Marked
<1> QED BY <1>4, <1>6, <1>7, <1>8, <1>9 DEF Sound
-----------------------------------------------------------------------------
(* What the backend does to such a bank.                                    *)

Applied(u, bank) == update_timestamp(u.key, u.data.time, update_variable_in_bank(u, bank))

(* A variable that was missing is added empty.                              *)
LEMMA AddedSame ==
  ASSUME NEW bank, Sound(bank), NEW v \in Loaded, Blank(v), ~HasVar(v.key, bank),
         "VOLATILE" \in v.flags => v.key \in Keys
  PROVE  LET new == Append(bank, v)
         IN  /\ Sound(new) /\ SameContents(new, bank) /\ HasVar(v.key, new)
             /\ \A k : HasVar(k, bank) => HasVar(k, new)
<1> DEFINE new == Append(bank, v)
           at  == [n \in DOMAIN bank |-> n]
<1>1. bank \in Seq(Loaded) /\ Once(bank) /\ Marked(bank)
  BY DEF Sound
<1>2. /\ new \in Seq(Loaded) /\ DOMAIN bank = 1..Len(bank) /\ Len(bank) \in Nat
      /\ DOMAIN new = 1..(Len(bank) + 1) /\ new[Len(bank) + 1] = v
      /\ \A n \in DOMAIN bank : new[n] = bank[n]
  BY <1>1
<1> HIDE DEF new
<1>3. \A n \in DOMAIN new : n \in DOMAIN bank \/ n = Len(bank) + 1
  BY <1>2
<1>4. Once(new)
  BY <1>1, <1>2, <1>3 DEF Once, HasVar
<1>5. /\ at \in [DOMAIN bank -> DOMAIN new]
      /\ \A n \in DOMAIN bank : at[n] = n /\ Alike(bank[n], new[at[n]])
  BY <1>2 DEF Alike
<1>6. \A i \in DOMAIN new : Blank(new[i]) \/ \E n \in DOMAIN bank : at[n] = i
  BY <1>2, <1>3, <1>5
<1> HIDE DEF at
<1>7. SameContents(bank, new)
  <2>1. \A m, n \in DOMAIN bank : at[m] = at[n] => m = n
    BY <1>5
  <2> QED BY <1>1, <1>2, <1>4, <1>5, <1>6, <2>1, PartSame
<1>8. Marked(new)
  <2>1. "VOLATILE" \in v.flags => v.key \in Keys /\ v.data.size = 0
    BY DEF Blank, NoData, Keys
  <2> QED BY <1>1, <1>2, <1>3, <2>1 DEF Marked
<1>9. HasVar(v.key, new) /\ \A k : HasVar(k, bank) => HasVar(k, new)
  BY <1>2 DEF HasVar
<1> QED BY <1>2, <1>4, <1>7, <1>8, <1>9 DEF Sound, SameContents, new

(* A file that `write' could read is an update of its variable.             *)
Fresh == [key : Keys, data : Fitting, flags : {{}}]

LEMMA AppliedContents ==
  ASSUME NEW bank, Sound(bank), Full(bank), NEW u \in Fresh
  PROVE  /\ Sound(Applied(u, bank)) /\ Full(Applied(u, bank))
         /\ \A k \in Keys :
              /\ DataIn(k, Applied(u, bank)) = IF k = u.key THEN u.data.data ELSE DataIn(k, bank)
              /\ TimeIn(k, Applied(u, bank)) = IF k = u.key THEN u.data.time ELSE TimeIn(k, bank)
<1> DEFINE g(k) == get_last_timestamp(k)
           mid  == update_variable_in_bank(u, bank)
           new  == Applied(u, bank)
<1>1. /\ bank \in Seq(Loaded) /\ Once(bank) /\ Marked(bank)
      /\ DOMAIN bank = 1..Len(bank) /\ Len(bank) \in Nat
  BY DEF Sound
<1>2. /\ u.key \in Keys /\ u.data.time \in Nat /\ u.data.data \in Data
      /\ u.data.data.size \in Nat /\ Fits(u.data.data) /\ "TS" \notin Keys
  BY DEF Fresh, Fitting, Auth, Data, Keys
<1>3. PICK p \in DOMAIN bank : bank[p].key = u.key
  BY <1>2 DEF Full, HasVar, Variables
<1>4. PICK q \in DOMAIN bank : bank[q].key = "TS"
  BY DEF Full, HasVar, Variables
<1>5. p # q /\ bank[p] \in Loaded /\ bank[q] \in Loaded
  BY <1>1, <1>2, <1>3, <1>4
<1>6. FirstAt(u.key, bank) = p
  BY <1>1, <1>3, FoundAt
<1>7. /\ DOMAIN mid = DOMAIN bank
      /\ \A i \in DOMAIN bank : i # p => mid[i] = bank[i]
      /\ mid[p] \in KeyVar /\ mid[p].key = u.key /\ mid[p].data = u.data.data
      /\ "VOLATILE" \in mid[p].flags => u.data.data.size = 0
  <2> DEFINE flags == (IF u.data.data.size > 0 THEN bank[p].flags \ {"VOLATILE"}
                                               ELSE bank[p].flags \cup {"VOLATILE"})
                      \cup (IF u.key = "PK" THEN {"PROTECTED"} ELSE {})
  <2>1. mid = [bank EXCEPT ![p] = [key |-> u.key, data |-> u.data.data, flags |-> flags]]
    BY <1>6 DEF update_variable_in_bank, new_secvar
  <2>2. bank[p].flags \in SUBSET Flags
    BY <1>5, LoadedKinds
  <2>3. flags \in SUBSET Flags /\ ("VOLATILE" \in flags => u.data.data.size = 0)
    BY <1>2, <2>2 DEF Flags
  <2> HIDE DEF flags, mid
  <2> QED BY <1>1, <1>2, <1>3, <2>1, <2>3 DEF KeyVar
<1> HIDE DEF mid
<1>8. Once(mid)
  BY <1>1, <1>3, <1>7 DEF Once
<1>9. FirstAt("TS", mid) = q
  BY <1>1, <1>4, <1>5, <1>7, <1>8, FoundAt
<1>10. bank[q] \in TSVar /\ bank[q].stamps \in [1..4 -> Nat]
  BY <1>4, <1>5, LoadedKinds
<1>11. \A k \in Keys : g(k) \in 1..4 /\ (g(k) = g(u.key) <=> k = u.key)
  BY <1>2 DEF get_last_timestamp, Keys
<1>12. /\ DOMAIN new = DOMAIN bank
       /\ \A i \in DOMAIN bank : i # q => new[i] = mid[i]
       /\ new[q] = [bank[q] EXCEPT !.stamps[g(u.key)] = u.data.time]
  <2>1. new = [mid EXCEPT ![q].stamps[g(u.key)] = u.data.time]
    BY <1>9 DEF Applied, update_timestamp, mid
  <2>2. mid[q] = bank[q]
    BY <1>5, <1>7
  <2> HIDE DEF new, g
  <2> QED BY <1>7, <2>1, <2>2
<1> HIDE DEF new
<1>13. /\ new[q] \in TSVar /\ new[q].key = "TS" /\ new[q].flags = bank[q].flags
       /\ \A j \in 1..4 : new[q].stamps[j] = IF j = g(u.key) THEN u.data.time ELSE bank[q].stamps[j]
  <2>1. g(u.key) \in 1..4
    BY <1>2, <1>11
  <2> HIDE DEF g
  <2> QED BY <1>2, <1>4, <1>10, <1>12, <2>1 DEF TSVar
<1>14. \A i \in DOMAIN bank : new[i].key = bank[i].key
  BY <1>3, <1>4, <1>5, <1>7, <1>12, <1>13
<1>15. new \in Seq(Loaded)
  <2>1. \A i \in DOMAIN bank : new[i] \in Loaded
    <3> TAKE i \in DOMAIN bank
    <3>1. CASE i = p
      BY <1>2, <1>5, <1>7, <1>12, <3>1 DEF Loaded, SecVar
    <3>2. CASE i = q
      BY <1>2, <1>13, <3>2 DEF Loaded, SecVar
    <3>3. CASE i # p /\ i # q
      BY <1>1, <1>7, <1>12, <3>3
    <3> QED BY <3>1, <3>2, <3>3
  <2>2. new = [i \in 1..Len(bank) |-> new[i]]
    <3>1. new = [i \in DOMAIN new |-> new[i]]
      BY <1>9 DEF new, Applied, update_timestamp
    <3> QED BY <1>1, <1>12, <3>1
  <2> QED BY <1>1, <2>1, <2>2
<1>16. Once(new)
  BY <1>1, <1>12, <1>14 DEF Once
<1>17. Marked(new)
  <2> SUFFICES ASSUME NEW i \in DOMAIN bank, "VOLATILE" \in new[i].flags
               PROVE  new[i].key \in Keys /\ new[i].data.size = 0
    BY <1>12 DEF Marked
  <2>1. CASE i = p
    BY <1>2, <1>5, <1>7, <1>12, <2>1
  <2>2. CASE i = q
    BY <1>1, <1>2, <1>4, <1>13, <2>2 DEF Marked
  <2>3. CASE i # p /\ i # q
    BY <1>1, <1>7, <1>12, <2>3 DEF Marked
  <2> QED BY <2>1, <2>2, <2>3
<1>18. Full(new)
  BY <1>12, <1>14 DEF Full, HasVar
<1>19. \A i \in DOMAIN bank : /\ find_secvar(bank[i].key, new) = new[i]
                              /\ HasVar(bank[i].key, new)
                              /\ find_secvar(bank[i].key, bank) = bank[i]
                              /\ HasVar(bank[i].key, bank)
  BY <1>1, <1>12, <1>14, <1>16, FoundAt
<1>20. ASSUME NEW k \in Keys
       PROVE  /\ DataIn(k, new) = IF k = u.key THEN u.data.data ELSE DataIn(k, bank)
              /\ TimeIn(k, new) = IF k = u.key THEN u.data.time ELSE TimeIn(k, bank)
  <2>1. PICK i \in DOMAIN bank : bank[i].key = k
    BY DEF Full, HasVar, Variables
  <2>2. DataIn(k, new) = new[i].data /\ DataIn(k, bank) = bank[i].data
    BY <1>19, <2>1 DEF DataIn
  <2>3. i # q /\ (k = u.key <=> i = p)
    BY <1>1, <1>2, <1>3, <1>4, <2>1 DEF Once
  <2>4. TimeIn(k, new) = new[q].stamps[g(k)] /\ TimeIn(k, bank) = bank[q].stamps[g(k)]
    BY <1>4, <1>19 DEF TimeIn
  <2>5. new[q].stamps[g(k)] = IF g(k) = g(u.key) THEN u.data.time ELSE bank[q].stamps[g(k)]
    <3>1. g(k) \in 1..4
      BY <1>11
    <3> HIDE DEF g
    <3> QED BY <1>13, <3>1
  <2>6. g(k) = g(u.key) <=> k = u.key
    BY <1>11
  <2> HIDE DEF g
  <2> QED BY <1>7, <1>12, <2>2, <2>3, <2>4, <2>5, <2>6
<1> QED BY <1>15, <1>16, <1>17, <1>18, <1>20 DEF Sound, new
-----------------------------------------------------------------------------
(***************************************************************************)
(* The backend at work on the firmware's variables, on the firmware's side *)
(* or on verify's: what it has found missing makes no difference, and the  *)
(* working copy only moves on.                                             *)
(***************************************************************************)

(* No variable of c is older than in b, or other without being newer.       *)
NotBack(b, c) ==
  \A k \in Keys : /\ TimeIn(k, c) >= TimeIn(k, b)
                  /\ DataIn(k, c) # DataIn(k, b) => TimeIn(k, c) > TimeIn(k, b)

Working     == pc \in {"pre_process", "process", "loop", "finish"}
SetupIsNoPk == setup_mode = (DataIn("PK", variable_bank).size = 0)

BankInv ==
  /\ next \in Nat \ {0}
  /\ Sound(variable_bank) /\ SameContents(variable_bank, stored)
  /\ pc = "pre_process" =>
       /\ next \in 1..5
       /\ \A j \in 1..(next - 1) : HasVar(Backend!Order[j], variable_bank)
       /\ next # 1 => SetupIsNoPk
  /\ pc \in {"process", "loop", "finish"} => Full(variable_bank)
  /\ pc \in {"process", "loop"} => SetupIsNoPk
  /\ pc = "process" => next = 1
  /\ pc \in {"loop", "finish"} =>
       Sound(staging_bank) /\ Full(staging_bank) /\ NotBack(stored, staging_bank)

LEMMA TimesAreNumbers ==
  ASSUME NEW bank, Sound(bank), NEW k \in Keys
  PROVE  TimeIn(k, bank) \in Nat
<1>1. CASE HasVar("TS", bank)
  <2>1. PICK i \in DOMAIN bank : bank[i].key = "TS"
    BY <1>1 DEF HasVar
  <2>2. bank[i] \in Loaded /\ Once(bank) /\ DOMAIN bank \subseteq Nat
    BY DEF Sound
  <2>3. find_secvar("TS", bank) = bank[i] /\ bank[i].stamps \in [1..4 -> Nat]
    BY <2>1, <2>2, FoundAt, LoadedKinds
  <2> QED BY <1>1, <2>3, PlaceInTS DEF TimeIn
<1>2. CASE ~HasVar("TS", bank)
  BY <1>2 DEF TimeIn
<1> QED BY <1>1, <1>2

LEMMA SameIsNotBack ==
  ASSUME NEW b, NEW c, Sound(c), SameContents(c, b)
  PROVE  NotBack(b, c)
<1>1. \A k \in Keys : TimeIn(k, c) \in Nat
  BY TimesAreNumbers
<1> QED BY <1>1 DEF SameContents, NotBack

(* The backend's words, in those of this module.                            *)
LEMMA Added ==
  ASSUME NEW j \in 1..5
  PROVE  LET v == Backend!DefaultVar(Backend!Order[j])
         IN  /\ v \in Loaded /\ Blank(v) /\ v.key = Backend!Order[j]
             /\ "VOLATILE" \in v.flags => v.key \in Keys
             /\ Backend!Order[j] \in Variables
<1>1. NoData \in Data /\ Fits(NoData)
  BY DEF NoData, Data, Fits
<1>2. [i \in 1..4 |-> 0] \in [1..4 -> Nat]
  OBVIOUS
<1> QED BY <1>1, <1>2 DEF Backend!Order, Backend!DefaultVar, Backend!new_secvar,
       Backend!NoData, NoData, Loaded, SecVar, KeyVar, TSVar, Keys, Variables, Flags, Blank

LEMMA OrderIsAll == \A k \in Variables : \E j \in 1..5 : Backend!Order[j] = k
<1>1. Backend!Order[1] = "PK" /\ Backend!Order[2] = "KEK" /\ Backend!Order[3] = "db"
      /\ Backend!Order[4] = "dbx" /\ Backend!Order[5] = "TS"
  BY DEF Backend!Order
<1> QED BY <1>1 DEF Variables, Keys

LEMMA PkWords ==
  ASSUME NEW bank, HasVar("PK", bank)
  PROVE  Backend!PkEmpty(bank) <=> DataIn("PK", bank).size = 0
BY DEF Backend!PkEmpty, Backend!find_secvar, Backend!FirstAt, Backend!Min, DataIn,
   find_secvar, FirstAt, Min

LEMMA PreProcessKeepsBank ==
  ASSUME BankInv, Backend!PreProcessVar, stored' = stored
  PROVE  Working' /\ BankInv'
<1> DEFINE name == Backend!Order[next]
           v    == Backend!DefaultVar(name)
<1>1. /\ pc = "pre_process" /\ next \in 1..5
      /\ Sound(variable_bank) /\ SameContents(variable_bank, stored)
      /\ \A j \in 1..(next - 1) : HasVar(Backend!Order[j], variable_bank)
      /\ next # 1 => SetupIsNoPk
  BY DEF Backend!PreProcessVar, BankInv
<1>2. /\ variable_bank' = IF HasVar(name, variable_bank) THEN variable_bank
                          ELSE Append(variable_bank, v)
      /\ next = 1 => setup_mode' = Backend!PkEmpty(variable_bank')
      /\ next # 1 => setup_mode' = setup_mode
      /\ \/ next = 5 /\ pc' = "process" /\ next' = 1
         \/ next # 5 /\ pc' = "pre_process" /\ next' = next + 1
  BY <1>1 DEF Backend!PreProcessVar, Backend!HasVar, HasVar, Backend!Order
<1>3. /\ v \in Loaded /\ Blank(v) /\ v.key = name
      /\ "VOLATILE" \in v.flags => v.key \in Keys
  BY <1>1, Added
<1>4. /\ Sound(variable_bank') /\ SameContents(variable_bank', variable_bank)
      /\ HasVar(name, variable_bank')
      /\ \A k : HasVar(k, variable_bank) => HasVar(k, variable_bank')
  <2>1. CASE HasVar(name, variable_bank)
    BY <1>1, <1>2, <2>1 DEF SameContents
  <2>2. CASE ~HasVar(name, variable_bank)
    <3> HIDE DEF v, name
    <3> QED BY <1>1, <1>2, <1>3, <2>2, AddedSame
  <2> QED BY <2>1, <2>2
<1>5. SameContents(variable_bank', stored')
  BY <1>1, <1>4 DEF SameContents
<1>6. \A j \in 1..next : HasVar(Backend!Order[j], variable_bank')
  <2> HIDE DEF v
  <2> QED BY <1>1, <1>4
<1>7. setup_mode' = (DataIn("PK", variable_bank').size = 0)
  <2>1. CASE next = 1
    <3>1. HasVar("PK", variable_bank')
      BY <1>4, <2>1 DEF Backend!Order
    <3>2. Backend!PkEmpty(variable_bank') <=> DataIn("PK", variable_bank').size = 0
      BY <3>1, PkWords
    <3>3. setup_mode' = Backend!PkEmpty(variable_bank')
      BY <1>2, <2>1
    <3>4. Backend!PkEmpty(variable_bank') \in BOOLEAN
      BY Zenon DEF Backend!PkEmpty
    <3> QED BY <3>2, <3>3, <3>4, Zenon
  <2>2. CASE next # 1
    <3>1. setup_mode' = setup_mode /\ setup_mode = (DataIn("PK", variable_bank).size = 0)
      BY <1>1, <1>2, <2>2, Zenon DEF SetupIsNoPk
    <3>2. DataIn("PK", variable_bank') = DataIn("PK", variable_bank)
      BY <1>4 DEF SameContents, Keys
    <3> QED BY <3>1, <3>2, Zenon
  <2> QED BY <2>1, <2>2
<1>8. SetupIsNoPk'
  BY <1>7, Zenon DEF SetupIsNoPk, DataIn, HasVar, find_secvar, FirstAt
<1>9. CASE next = 5
  <2>1. pc' = "process" /\ next' = 1
    BY <1>2, <1>9
  <2>2. Full(variable_bank')
    BY <1>6, <1>9, OrderIsAll DEF Full
  <2> QED BY <1>4, <1>5, <1>8, <2>1, <2>2 DEF BankInv, Working
<1>10. CASE next # 5
  <2>1. pc' = "pre_process" /\ next' = next + 1 /\ next' \in 1..5 /\ next' - 1 = next
    BY <1>1, <1>2, <1>10
  <2> QED BY <1>4, <1>5, <1>6, <1>8, <2>1 DEF BankInv, Working
<1> QED BY <1>9, <1>10

LEMMA ApplyWords ==
  ASSUME Backend!ApplyUpdate
  PROVE  /\ pc = "loop" /\ pc' = "loop" /\ next <= Len(update_bank) /\ next' = next + 1
         /\ staging_bank' = Applied(update_bank[next], staging_bank)
         /\ process_update(update_bank[next], staging_bank,
                           find_secvar("TS", staging_bank).stamps, setup_mode) = OPAL_SUCCESS
         /\ UNCHANGED <<variable_bank, update_bank, setup_mode, rc>>
<1>1. /\ pc = "loop" /\ pc' = "loop" /\ next <= Len(update_bank) /\ next' = next + 1
      /\ UNCHANGED <<variable_bank, update_bank, setup_mode, rc>>
      /\ Backend!Outcome = OPAL_SUCCESS
  BY DEF Backend!ApplyUpdate, Backend!OPAL_SUCCESS, OPAL_SUCCESS
<1>2. staging_bank' = Applied(update_bank[next], staging_bank)
  BY Zenon DEF Backend!ApplyUpdate, Backend!update_timestamp,
     Backend!update_variable_in_bank, Backend!FirstAt, Backend!Min,
     Backend!get_last_timestamp, Backend!new_secvar, Applied, update_timestamp,
     update_variable_in_bank, FirstAt, Min, get_last_timestamp, new_secvar
<1> QED BY <1>1, <1>2, SameOutcome

LEMMA ApplyKeepsBank ==
  ASSUME BankInv, Backend!ApplyUpdate, update_bank[next] \in Fresh, Sound(stored),
         stored' = stored
  PROVE  Working' /\ BankInv'
<1> DEFINE u == update_bank[next]
<1>1. /\ pc = "loop" /\ pc' = "loop" /\ next \in Nat \ {0} /\ next' = next + 1
      /\ Sound(variable_bank) /\ SameContents(variable_bank, stored) /\ Full(variable_bank)
      /\ SetupIsNoPk
      /\ Sound(staging_bank) /\ Full(staging_bank) /\ NotBack(stored, staging_bank)
      /\ variable_bank' = variable_bank /\ setup_mode' = setup_mode
      /\ staging_bank' = Applied(u, staging_bank)
      /\ process_update(u, staging_bank, find_secvar("TS", staging_bank).stamps, setup_mode)
           = OPAL_SUCCESS
  BY ApplyWords DEF BankInv
<1>2. /\ Sound(staging_bank') /\ Full(staging_bank')
      /\ \A k \in Keys :
           /\ DataIn(k, staging_bank') = IF k = u.key THEN u.data.data ELSE DataIn(k, staging_bank)
           /\ TimeIn(k, staging_bank') = IF k = u.key THEN u.data.time ELSE TimeIn(k, staging_bank)
  BY <1>1, AppliedContents
<1>3. u.data.time > TimeIn(u.key, staging_bank)
  <2>1. check_timestamp(u.key, u.data.time, find_secvar("TS", staging_bank).stamps)
          = OPAL_SUCCESS
    BY <1>1 DEF process_update
  <2>2. HasVar("TS", staging_bank)
    BY <1>1 DEF Full, Variables
  <2> QED BY <2>1, <2>2 DEF check_timestamp, TimeIn, OPAL_SUCCESS, OPAL_PERMISSION
<1>4. NotBack(stored, staging_bank')
  <2> SUFFICES ASSUME NEW k \in Keys
               PROVE  /\ TimeIn(k, staging_bank') >= TimeIn(k, stored)
                      /\ DataIn(k, staging_bank') # DataIn(k, stored)
                           => TimeIn(k, staging_bank') > TimeIn(k, stored)
    BY DEF NotBack
  <2>1. /\ TimeIn(k, staging_bank) \in Nat /\ TimeIn(k, stored) \in Nat
        /\ TimeIn(k, staging_bank) >= TimeIn(k, stored)
        /\ DataIn(k, staging_bank) # DataIn(k, stored)
              => TimeIn(k, staging_bank) > TimeIn(k, stored)
    <3>1. NotBack(stored, staging_bank) /\ Sound(staging_bank)
      BY <1>1
    <3>2. TimeIn(k, staging_bank) \in Nat /\ TimeIn(k, stored) \in Nat
      BY <3>1, TimesAreNumbers
    <3>3. /\ TimeIn(k, staging_bank) >= TimeIn(k, stored)
          /\ DataIn(k, staging_bank) # DataIn(k, stored)
                => TimeIn(k, staging_bank) > TimeIn(k, stored)
      BY <3>1, Zenon DEF NotBack
    <3> QED BY <3>2, <3>3
  <2>2. u.data.time \in Nat
    BY DEF Fresh, Fitting, Auth
  <2>3. CASE k = u.key
    BY <1>2, <1>3, <2>1, <2>2, <2>3
  <2>4. CASE k # u.key
    BY <1>2, <2>1, <2>4
  <2> QED BY <2>3, <2>4
<1>5. SetupIsNoPk'
  BY <1>1, Zenon DEF SetupIsNoPk, DataIn, HasVar, find_secvar, FirstAt
<1> QED BY <1>1, <1>2, <1>4, <1>5 DEF BankInv, Working

(* The steps that do not touch the bank.                                    *)
LEMMA LoopKeepsBank ==
  ASSUME BankInv, stored' = stored,
         Backend!Stage \/ Backend!RejectUpdate \/ Backend!UpdateNoMem \/ Backend!EndOfQueue
  PROVE  Working' /\ BankInv'
<1>1. CASE Backend!Stage
  <2>1. /\ pc = "process" /\ Sound(variable_bank) /\ Full(variable_bank)
        /\ SameContents(variable_bank, stored) /\ SetupIsNoPk
        /\ variable_bank' = variable_bank /\ setup_mode' = setup_mode /\ next' = next
    BY <1>1 DEF Backend!Stage, BankInv
  <2>2. staging_bank' = variable_bank
    BY <1>1, <2>1 DEF Backend!Stage, Backend!copy_bank_list, Sound
  <2>3. pc' = "loop"
    <3>1. Backend!HasVar("TS", staging_bank')
      BY <2>1, <2>2 DEF Backend!HasVar, HasVar, Full, Variables
    <3> QED BY <1>1, <3>1 DEF Backend!Stage
  <2>4. NotBack(stored, staging_bank')
    BY <2>1, <2>2, SameIsNotBack
  <2>5. SetupIsNoPk'
    BY <2>1, Zenon DEF SetupIsNoPk, DataIn, HasVar, find_secvar, FirstAt
  <2> QED BY <2>1, <2>2, <2>3, <2>4, <2>5 DEF BankInv, Working
<1>2. CASE Backend!RejectUpdate \/ Backend!UpdateNoMem \/ Backend!EndOfQueue
  <2>1. /\ pc = "loop" /\ pc' = "finish" /\ next' = next
        /\ variable_bank' = variable_bank /\ staging_bank' = staging_bank
    BY <1>2 DEF Backend!RejectUpdate, Backend!UpdateNoMem, Backend!EndOfQueue
  <2> QED BY <2>1 DEF BankInv, Working
<1> QED BY <1>1, <1>2

(* What the backend leaves: the bank as it was, or the working copy.        *)
LEMMA FinishWords ==
  ASSUME BankInv, Backend!Finish
  PROVE  /\ pc = "finish" /\ pc' = "done" /\ rc' = rc
         /\ variable_bank' \in {variable_bank, staging_bank}
         /\ Sound(variable_bank') /\ Full(variable_bank') /\ NotBack(stored, variable_bank')
<1>1. /\ pc = "finish" /\ pc' = "done"
      /\ Sound(variable_bank) /\ Full(variable_bank) /\ SameContents(variable_bank, stored)
      /\ Sound(staging_bank) /\ Full(staging_bank) /\ NotBack(stored, staging_bank)
  BY DEF Backend!Finish, BankInv
<1>2. variable_bank' \in {variable_bank, staging_bank}
  BY <1>1 DEF Backend!Finish, Backend!copy_bank_list, Backend!clear_bank_list, Sound
<1>3. NotBack(stored, variable_bank)
  BY <1>1, SameIsNotBack
<1>4. Sound(variable_bank') /\ Full(variable_bank') /\ NotBack(stored, variable_bank')
  BY <1>1, <1>2, <1>3
<1>5. rc' = rc
  <2>1. Backend!HasVar("PK", variable_bank')
    BY <1>4 DEF Full, Variables, Keys, HasVar, Backend!HasVar
  <2> QED BY <2>1 DEF Backend!Finish
<1> QED BY <1>1, <1>2, <1>4, <1>5
-----------------------------------------------------------------------------
(***************************************************************************)
(* The machine's invariant: its own state, and what each of the three whose *)
(* turn it can be may count on.                                            *)
(***************************************************************************)

Pended == [key : Keys, data : Fitting \cup {Torn, Malformed}, flags : {{}}]

MachineInv ==
  /\ Sound(stored) /\ Full(stored)
  /\ files \in [Keys -> Fitting \cup {Old, Torn, Malformed}]
  /\ order \in Seq(Keys)
  /\ turn \in {"user", "verify", "boot"}
  /\ turns \in 0..MaxTurns

UserInv ==
  turn = "user" => /\ variable_bank = << >> /\ update_bank = << >> /\ staging_bank = << >>
                   /\ update_bank_copy = << >> /\ setup_mode = FALSE

VerifyInv ==
  turn = "verify" => /\ CallInv /\ BackendSound /\ CopyInv /\ WriteInv
                     /\ QueueWhole(update_bank_copy)

BootInv ==
  turn = "boot" =>
    /\ update_bank \in Seq(Pended)
    /\ \/ Working /\ BankInv
       \/ /\ pc = "done"
          /\ Sound(variable_bank) /\ Full(variable_bank) /\ NotBack(stored, variable_bank)

LInv == MachineInv /\ UserInv /\ VerifyInv /\ BootInv

LEMMA LInvInit == LInit => LInv
<1> SUFFICES ASSUME LInit PROVE LInv
  OBVIOUS
<1>1. Sound(stored) /\ Full(stored)
  <2>1. stored \in Seq(Loaded) /\ Complete(stored)
    BY MachineAssumption DEF LInit
  <2> QED BY <2>1, SoundIsComplete
<1>2. turns \in 0..MaxTurns
  BY MachineAssumption DEF LInit
<1>3. MachineInv
  BY <1>1, <1>2 DEF LInit, MachineInv
<1> QED BY <1>3 DEF LInit, LInv, UserInv, VerifyInv, BootInv

LEMMA LaterType ==
  ASSUME order \in Seq(Keys), NEW key \in Keys
  PROVE  Later(key) \in Seq(Keys)
<1>1. \A places : Keep(order, places) \in Seq(Keys)
  BY Kept DEF KeptFrom
<1> QED BY <1>1 DEF Later

(* The commands of the owner.                                               *)
LEMMA WriteKeepsLInv ==
  ASSUME LInv, Write \/ WriteRefused
  PROVE  LInv' /\ stored' = stored
<1>1. /\ turn = "user" /\ turn' = turn /\ stored' = stored
      /\ turns < MaxTurns /\ turns' = turns + 1
      /\ UNCHANGED <<variable_bank, update_bank, staging_bank, update_bank_copy, setup_mode>>
  BY DEF Write, WriteRefused, MyTurn
<1>2. turns' \in 0..MaxTurns
  BY <1>1, MachineAssumption DEF LInv, MachineInv
<1>3. files' \in [Keys -> Fitting \cup {Old, Torn, Malformed}] /\ order' \in Seq(Keys)
  <2>1. CASE WriteRefused
    BY <2>1 DEF WriteRefused, LInv, MachineInv
  <2>2. CASE Write
    <3>1. PICK arg \in WriteArgs :
            /\ arg.key \in Keys
            /\ order' \in {order, Later(arg.key)}
            /\ \E result \in (IF arg.file = Unreadable THEN WriteNothing(arg.key)
                              ELSE WriteData(arg.key, arg.file)) :
                 files' = [files EXCEPT ![arg.key] = result.content]
      BY <2>2 DEF Write, MayWrite
    <3>2. PICK result \in (IF arg.file = Unreadable THEN WriteNothing(arg.key)
                           ELSE WriteData(arg.key, arg.file)) :
            files' = [files EXCEPT ![arg.key] = result.content]
      BY <3>1
    <3>3. result.content \in Fitting \cup {Old, Torn, Malformed}
      <4>1. files[arg.key] \in Fitting \cup {Old, Torn, Malformed}
        BY <3>1 DEF LInv, MachineInv
      <4>2. arg.file # Unreadable => arg.file \in Fitting \cup {Malformed}
        BY MachineAssumption
      <4> QED BY <3>2, <4>1, <4>2 DEF WriteNothing, WriteData, NotOpened
    <3>4. order' \in Seq(Keys)
      BY <3>1, LaterType DEF LInv, MachineInv
    <3> QED BY <3>1, <3>2, <3>3, <3>4 DEF LInv, MachineInv
  <2> QED BY <2>1, <2>2
<1>4. MachineInv'
  BY <1>1, <1>2, <1>3 DEF LInv, MachineInv
<1> QED BY <1>1, <1>4 DEF LInv, UserInv, VerifyInv, BootInv

LEMMA VerifyKeepsLInv ==
  ASSUME LInv, Verify
  PROVE  LInv' /\ stored' = stored
<1>1. /\ turn = "user" /\ turn' = "verify" /\ turns < MaxTurns /\ turns' = turns + 1
      /\ updateVars' \in UpdateArgs /\ currentVars' = Visible(stored)
      /\ pc' = "load_updates" /\ next' = 1 /\ rc' = SUCCESS
      /\ UNCHANGED <<variable_bank, update_bank, staging_bank, setup_mode,
                     update_bank_copy, files, stored, order>>
  BY DEF Verify, MyTurn
<1>2. /\ variable_bank' = << >> /\ update_bank' = << >> /\ staging_bank' = << >>
      /\ update_bank_copy' = << >> /\ setup_mode' = FALSE
  BY <1>1 DEF LInv, UserInv
<1>3. updateVars' \in Seq(Given) /\ currentVars' \in Seq(Loaded)
  <2>1. Sound(Visible(stored))
    BY VisibleSame DEF LInv, MachineInv
  <2> QED BY <1>1, <2>1, ArgsAssumption DEF Sound
<1>4. CallInv'
  BY <1>1, <1>2, <1>3 DEF CallInv, BanksAsRead, Loading, UpdatesChecked, VariablesChecked,
     CalledAsAssumed
<1>5. BackendSound' /\ CopyInv' /\ QueueWhole(update_bank_copy)'
  BY <1>1, <1>2 DEF BackendSound, InBackend, CopyInv, Loading, QueueWhole
<1>6. WriteInv'
  <2>1. DOMAIN files' = Keys
    BY <1>1 DEF LInv, MachineInv
  <2> QED BY <1>1, <1>2, <2>1 DEF WriteInv, WrittenSoFar, SubmittedIsAll, Submitted
<1>7. MachineInv'
  <2>1. turns' \in 0..MaxTurns
    BY <1>1, MachineAssumption DEF LInv, MachineInv
  <2> QED BY <1>1, <2>1 DEF LInv, MachineInv
<1> QED BY <1>1, <1>4, <1>5, <1>6, <1>7 DEF LInv, UserInv, VerifyInv, BootInv

(* Steps of verify: what is written to an update file is a part of the      *)
(* queue.                                                                   *)
LEMMA VerifyWrites ==
  ASSUME CallInv, [Next]_vars
  PROVE  files' # files =>
           /\ Committing
           /\ \/ files' = [files EXCEPT ![Target] = Torn]
              \/ files' = [files EXCEPT ![Target] = update_bank_copy[next].data]
<1>1. next \in Nat \ {0}
  BY DEF CallInv
<1>2. CASE PreProcess \/ Process
  BY <1>1, <1>2, InBackendNext
<1>3. CASE WriteAll \/ WriteSome \/ WriteFails \/ OpenFails
  BY <1>3 DEF WriteAll, WriteSome, WriteFails, OpenFails
<1>4. CASE ~(PreProcess \/ Process) /\ ~(WriteAll \/ WriteSome \/ WriteFails \/ OpenFails)
  BY <1>4 DEF Next, vars, LoadUpdate, LoadCurrent, ValidateUpdate, ValidateCurrent,
     CheckedAs, Return, EndOfLoop, LoopExit
<1> QED BY <1>2, <1>3, <1>4

LEMMA CopyWhole ==
  ASSUME CallInv, BackendSound, QueueWhole(update_bank_copy), [Next]_vars
  PROVE  QueueWhole(update_bank_copy')
<1>1. CASE PreProcess
  <2>1. pc = "pre_process"
    BY <1>1 DEF PreProcess, Backend!PreProcessVar, Backend!PreProcessNoMem
  <2>2. Theory!TypeOK
    BY <2>1 DEF BackendSound, InBackend, Theory!BackendInv, Theory!Inv
  <2>3. QueueWhole(update_bank) /\ update_bank \in Seq(Update)
    BY <2>1, <2>2 DEF Theory!TypeOK, QueueWhole, CallInv
  <2>4. update_bank_copy' \in {update_bank, update_bank_copy}
    BY <1>1, <2>3 DEF PreProcess, copy_bank_list
  <2> QED BY <2>3, <2>4
<1>2. CASE ~PreProcess
  <2>1. update_bank_copy' = update_bank_copy
    BY <1>2 DEF Next, vars, LoadUpdate, LoadCurrent, ValidateUpdate, ValidateCurrent,
       CheckedAs, Process, Return, WriteAll, WriteSome, WriteFails, OpenFails, CommitAs,
       EndOfLoop, LoopExit
  <2> QED BY <2>1
<1> QED BY <1>1, <1>2

LEMMA VerifyStepKeepsLInv ==
  ASSUME LInv, VerifyStep
  PROVE  LInv' /\ stored' = stored
<1>1. /\ turn = "verify" /\ turn' = turn /\ stored' = stored /\ turns' = turns
      /\ Next /\ [Next]_vars
      /\ order' # order => Committing /\ order' = Later(Target)
  BY DEF VerifyStep
<1>2. CallInv /\ BackendSound /\ CopyInv /\ WriteInv /\ QueueWhole(update_bank_copy)
  BY <1>1 DEF LInv, VerifyInv
<1>3. CallInv' /\ BackendSound' /\ CopyInv' /\ WriteInv' /\ QueueWhole(update_bank_copy')
  BY <1>1, <1>2, CallInvStep, BackendSoundStep, CopyInvStep, WriteInvStep, CopyWhole
<1>4. Committing => Target \in Keys /\ update_bank_copy[next].data \in Fitting
  <2> SUFFICES ASSUME Committing
               PROVE  Target \in Keys /\ update_bank_copy[next].data \in Fitting
    OBVIOUS
  <2>1. next \in DOMAIN update_bank_copy /\ update_bank_copy[next] \in Update
    BY <1>2 DEF Committing, CallInv, WriteInv
  <2>2. Whole(update_bank_copy[next].data.data)
    BY <1>2, <2>1 DEF QueueWhole
  <2>3. Fits(update_bank_copy[next].data.data)
    BY <2>2 DEF Whole, Fits
  <2> QED BY <2>1, <2>3 DEF Update, Target, Fitting
<1>5. files' \in [Keys -> Fitting \cup {Old, Torn, Malformed}]
  <2>1. files \in [Keys -> Fitting \cup {Old, Torn, Malformed}]
    BY DEF LInv, MachineInv
  <2> QED BY <1>1, <1>2, <1>4, <2>1, VerifyWrites
<1>6. order' \in Seq(Keys)
  BY <1>1, <1>4, LaterType DEF LInv, MachineInv
<1>7. MachineInv'
  BY <1>1, <1>5, <1>6 DEF LInv, MachineInv
<1> QED BY <1>1, <1>3, <1>7 DEF LInv, UserInv, VerifyInv, BootInv

LEMMA VerifyEndsKeepsLInv ==
  ASSUME LInv, VerifyEnds
  PROVE  LInv' /\ stored' = stored
<1>1. /\ turn' = "user" /\ stored' = stored /\ turns' = turns
      /\ UNCHANGED <<files, order>>
      /\ variable_bank' = << >> /\ update_bank' = << >> /\ staging_bank' = << >>
      /\ update_bank_copy' = << >> /\ setup_mode' = FALSE
  BY DEF VerifyEnds, Released
<1>2. MachineInv'
  BY <1>1 DEF LInv, MachineInv
<1> QED BY <1>1, <1>2 DEF LInv, UserInv, VerifyInv, BootInv

-----------------------------------------------------------------------------
(* The steps of a boot.                                                     *)

LEMMA PendingTyped ==
  ASSUME MachineInv
  PROVE  PendingBank \in Seq(Pended)
<1> DEFINE places == {i \in DOMAIN order : files[order[i]] # Old}
<1>1. order \in Seq(Keys) /\ files \in [Keys -> Fitting \cup {Old, Torn, Malformed}]
  BY DEF MachineInv
<1>2. Pending = Keep(order, places)
  BY DEF Pending
<1>3. KeptFrom(order, places, Len(order), Pending, Keys)
  <2> HIDE DEF places
  <2> QED BY <1>1, <1>2, Kept
<1>4. Pending \in Seq(Keys)
  BY <1>3 DEF KeptFrom
<1>5. PICK at \in [DOMAIN Pending -> 1..Len(order)] :
        \A n \in DOMAIN Pending : at[n] \in places /\ Pending[n] = order[at[n]]
  <2> HIDE DEF places
  <2> QED BY <1>3 DEF KeptFrom
<1>6. \A n \in DOMAIN Pending :
        new_secvar(Pending[n], files[Pending[n]], {}) \in Pended
  <2> TAKE n \in DOMAIN Pending
  <2>1. Pending[n] \in Keys
    BY <1>4
  <2>2. files[Pending[n]] # Old
    BY <1>5
  <2> QED BY <1>1, <2>1, <2>2 DEF Pended, new_secvar
<1>7. PendingBank = [n \in 1..Len(Pending) |-> new_secvar(Pending[n], files[Pending[n]], {})]
  BY <1>4 DEF PendingBank
<1>8. Len(Pending) \in Nat /\ DOMAIN Pending = 1..Len(Pending)
  BY <1>4
<1> QED BY <1>6, <1>7, <1>8

LEMMA BootKeepsLInv ==
  ASSUME LInv, Boot
  PROVE  LInv' /\ stored' = stored
<1>1. /\ turn = "user" /\ turn' = "boot" /\ turns < MaxTurns /\ turns' = turns + 1
      /\ variable_bank' = Persistent(stored) /\ update_bank' = PendingBank
      /\ files' = [k \in Keys |-> Old] /\ order' = << >>
      /\ pc' = "pre_process" /\ next' = 1 /\ stored' = stored
  BY DEF Boot, MyTurn
<1>2. MachineInv'
  <2>1. turns' \in 0..MaxTurns
    BY <1>1, MachineAssumption DEF LInv, MachineInv
  <2> QED BY <1>1, <2>1 DEF LInv, MachineInv
<1>3. update_bank' \in Seq(Pended)
  BY <1>1, PendingTyped DEF LInv
<1>4. Sound(variable_bank') /\ SameContents(variable_bank', stored')
  BY <1>1, PersistentSame DEF LInv, MachineInv
<1>5. Working' /\ BankInv'
  BY <1>1, <1>4 DEF Working, BankInv
<1> QED BY <1>1, <1>2, <1>3, <1>5 DEF LInv, UserInv, VerifyInv, BootInv

LEMMA BootStepKeepsLInv ==
  ASSUME LInv, BootStep
  PROVE  LInv' /\ stored' = stored
<1>1. /\ turn = "boot" /\ turn' = turn /\ stored' = stored
      /\ UNCHANGED <<files, order, turns>>
      /\ update_bank \in Seq(Pended) /\ << >> \in Seq(Pended)
  BY DEF BootStep, machine, LInv, BootInv
<1>2. pc # "done" => Working /\ BankInv
  BY <1>1 DEF LInv, BootInv
<1>3. MachineInv'
  BY <1>1 DEF LInv, MachineInv
<1>4. SUFFICES BootInv'
  BY <1>1, <1>3 DEF LInv, UserInv, VerifyInv
<1>5. CASE Backend!PreProcessVar
  <2>1. pc # "done" /\ update_bank' = update_bank
    BY <1>5 DEF Backend!PreProcessVar
  <2> QED BY <1>1, <1>2, <1>5, <2>1, PreProcessKeepsBank DEF BootInv
<1>6. CASE Backend!NothingToProcess
  <2>1. /\ pc = "process" /\ pc' = "done" /\ update_bank' = update_bank
        /\ variable_bank' = variable_bank
    BY <1>6 DEF Backend!NothingToProcess
  <2>2. Sound(variable_bank) /\ Full(variable_bank) /\ SameContents(variable_bank, stored)
    BY <1>2, <2>1 DEF BankInv
  <2>3. NotBack(stored, variable_bank)
    BY <2>2, SameIsNotBack
  <2> QED BY <1>1, <2>1, <2>2, <2>3 DEF BootInv
<1>7. CASE Backend!Stage \/ Backend!RejectUpdate \/ Backend!EndOfQueue
  <2>1. pc # "done" /\ update_bank' = update_bank
    BY <1>7 DEF Backend!Stage, Backend!RejectUpdate, Backend!EndOfQueue
  <2> QED BY <1>1, <1>2, <1>7, <2>1, LoopKeepsBank DEF BootInv
<1>8. CASE Readable /\ Backend!ApplyUpdate
  <2>1. pc = "loop" /\ update_bank' = update_bank /\ next <= Len(update_bank)
    BY <1>8, ApplyWords
  <2>2. update_bank[next] \in Fresh
    <3>1. next \in Nat \ {0}
      BY <1>2, <2>1 DEF BankInv
    <3>2. update_bank[next] \in Pended
      BY <1>1, <2>1, <3>1
    <3> QED BY <1>8, <3>2 DEF Readable, Pended, Fresh
  <2>3. Sound(stored)
    BY DEF LInv, MachineInv
  <2> QED BY <1>1, <1>2, <1>8, <2>1, <2>2, <2>3, ApplyKeepsBank DEF BootInv
<1>9. CASE Backend!Finish
  <2>1. pc = "finish" /\ update_bank' = << >>
    BY <1>9 DEF Backend!Finish, Backend!clear_bank_list
  <2> QED BY <1>1, <1>2, <1>9, <2>1, FinishWords DEF BootInv
<1> QED BY <1>5, <1>6, <1>7, <1>8, <1>9 DEF BootStep

LEMMA BootUnreadableKeepsLInv ==
  ASSUME LInv, BootUnreadable
  PROVE  LInv' /\ stored' = stored
<1>1. /\ turn = "boot" /\ turn' = turn /\ pc = "loop" /\ pc' = "finish"
      /\ UNCHANGED <<stored, files, order, turns, variable_bank, update_bank, staging_bank,
                     setup_mode, next>>
  BY DEF BootUnreadable, machine
<1>2. BankInv /\ update_bank' \in Seq(Pended)
  BY <1>1 DEF LInv, BootInv
<1>3. Working' /\ BankInv'
  BY <1>1, <1>2 DEF BankInv, Working
<1> QED BY <1>1, <1>2, <1>3 DEF LInv, MachineInv, UserInv, VerifyInv, BootInv

LEMMA BootEndsKeepsLInv ==
  ASSUME LInv, BootEnds
  PROVE  LInv' /\ NotBack(stored, stored')
<1>1. /\ turn = "boot" /\ pc = "done" /\ stored' = variable_bank /\ turn' = "user"
      /\ UNCHANGED <<files, order, turns>>
      /\ variable_bank' = << >> /\ update_bank' = << >> /\ staging_bank' = << >>
      /\ update_bank_copy' = << >> /\ setup_mode' = FALSE
  BY DEF BootEnds, Released
<1>2. Sound(variable_bank) /\ Full(variable_bank) /\ NotBack(stored, variable_bank)
  BY <1>1 DEF LInv, BootInv, Working
<1>3. MachineInv'
  BY <1>1, <1>2 DEF LInv, MachineInv
<1> QED BY <1>1, <1>2, <1>3 DEF LInv, UserInv, VerifyInv, BootInv

LEMMA LInvStep ==
  ASSUME LInv, [LNext]_all
  PROVE  LInv' /\ (stored' = stored \/ NotBack(stored, stored'))
<1>1. CASE LNext
  BY <1>1, WriteKeepsLInv, VerifyKeepsLInv, VerifyStepKeepsLInv, VerifyEndsKeepsLInv,
     BootKeepsLInv, BootStepKeepsLInv, BootUnreadableKeepsLInv, BootEndsKeepsLInv DEF LNext
<1>2. CASE UNCHANGED all
  <2>1. UNCHANGED <<updateVars, currentVars, writeFlag, unreadable, variable_bank, update_bank,
                    staging_bank, setup_mode, pc, next, rc, update_bank_copy, files,
                    stored, order, turn, turns, vouched>>
    BY <1>2 DEF all, vars, machine, args, backend
  <2>2. [Next]_vars
    BY <1>2 DEF all
  <2>3. VerifyInv'
    <3> SUFFICES ASSUME turn = "verify" PROVE VerifyInv'
      BY <2>1 DEF VerifyInv
    <3> QED BY <2>1, <2>2, CallInvStep, BackendSoundStep, CopyInvStep, WriteInvStep, CopyWhole
            DEF LInv, VerifyInv
  <2>4. BootInv'
    BY <2>1 DEF LInv, BootInv, Working, BankInv, SetupIsNoPk
  <2> QED BY <2>1, <2>3, <2>4 DEF LInv, MachineInv, UserInv
<1> QED BY <1>1, <1>2

LEMMA LInvHolds == LSpec => []LInv
BY LInvInit, LInvStep, PTL DEF LSpec

-----------------------------------------------------------------------------
(* What the firmware holds and what lies in the update files is always of   *)
(* its kind, and the firmware never lacks one of the five variables: what   *)
(* it does not store, and so does not load, pre_process creates before      *)
(* anything is read (edk2-compat.c:46-102), and no update takes a variable  *)
(* out of the bank (update_variable_in_bank, 36-62).                        *)
THEOREM LTypeTheorem == LSpec => []LTypeOK
<1>1. LInv => LTypeOK
  BY DEF LInv, MachineInv, Sound, Full, Loaded, LTypeOK, Fitting
<1> QED BY <1>1, LInvHolds, PTL

LEMMA StoreOfWords ==
  ASSUME NEW bank
  PROVE  Backend!StoreOf(bank) = [k \in Keys |-> [data |-> DataIn(k, bank), time |-> TimeIn(k, bank)]]
BY Zenon DEF Backend!StoreOf, Backend!DataOf, Backend!TimeOf, Backend!HasVar, Backend!find_secvar,
   Backend!FirstAt, Backend!Min, Backend!get_last_timestamp, Backend!NoData, Backend!Keys,
   DataIn, TimeIn, HasVar, find_secvar, FirstAt, Min, get_last_timestamp, NoData, Keys

(* What a boot leaves survives the next: storing leaves out only variables  *)
(* that say nothing (update_variable_in_bank, 51-55; secvar.h:65).          *)
THEOREM NothingIsLostTheorem == LSpec => []NothingIsLost
<1>1. LInv => NothingIsLost
  <2> SUFFICES ASSUME LInv PROVE NothingIsLost
    OBVIOUS
  <2>1. SameContents(Persistent(stored), stored)
    BY PersistentSame DEF LInv, MachineInv
  <2>2. [k \in Keys |-> [data |-> DataIn(k, Persistent(stored)), time |-> TimeIn(k, Persistent(stored))]]
          = [k \in Keys |-> [data |-> DataIn(k, stored), time |-> TimeIn(k, stored)]]
    BY <2>1 DEF SameContents
  <2> QED BY <2>2, StoreOfWords DEF NothingIsLost
<1> QED BY <1>1, LInvHolds, PTL

(* No sequence of writes, verifications and reboots takes a variable back   *)
(* to an earlier time, or changes one without a later time: the check of    *)
(* the timestamp is made against the working copy, and what is installed is *)
(* that copy or nothing (check_timestamp, 413-437; process, 160-228).       *)
THEOREM NoRollbackTheorem == LSpec => NoRollback
<1> DEFINE Step == LET before == Backend!StoreOf(stored)
                       after  == Backend!StoreOf(stored)'
                   IN  \A k \in Keys :
                         /\ after[k].time >= before[k].time
                         /\ after[k].data # before[k].data => after[k].time > before[k].time
<1>1. LInv /\ LInv' /\ [LNext]_all => Step
  <2> SUFFICES ASSUME LInv, [LNext]_all PROVE Step
    OBVIOUS
  <2>1. NotBack(stored, stored')
    <3>1. CASE stored' = stored
      <4>1. Sound(stored) /\ SameContents(stored, stored)
        BY DEF LInv, MachineInv, SameContents
      <4> QED BY <3>1, <4>1, SameIsNotBack
    <3> QED BY <3>1, LInvStep
  <2>2. /\ Backend!StoreOf(stored)
             = [k \in Keys |-> [data |-> DataIn(k, stored), time |-> TimeIn(k, stored)]]
        /\ Backend!StoreOf(stored)'
             = [k \in Keys |-> [data |-> DataIn(k, stored'), time |-> TimeIn(k, stored')]]
    <3>1. Backend!StoreOf(stored)' = Backend!StoreOf(stored')
      BY Zenon DEF Backend!StoreOf, Backend!DataOf, Backend!TimeOf, Backend!HasVar,
         Backend!find_secvar, Backend!FirstAt
    <3> QED BY <3>1, StoreOfWords
  <2> QED BY <2>1, <2>2 DEF NotBack
<1>2. Step => [Step]_all
  OBVIOUS
<1> QED BY <1>1, <1>2, LInvHolds, PTL DEF LSpec, NoRollback
-----------------------------------------------------------------------------
(***************************************************************************)
(* The queue that verify accepts is one that the firmware accepts.  A run  *)
(* of a queue is what the working copy is before its first update and      *)
(* after each of them; verify's runs and the firmware's hold the same,     *)
(* turn by turn, although one starts from the data files and the other     *)
(* from what the driver stored.                                            *)
(***************************************************************************)

Accepts(bank, copy, u) ==
  process_update(u, copy, find_secvar("TS", copy).stamps, DataIn("PK", bank).size = 0)
    = OPAL_SUCCESS

RunOf(queue, bank, n, run) ==
  /\ Sound(run[0]) /\ Full(run[0]) /\ SameContents(run[0], bank)
  /\ \A i \in 1..n : /\ Accepts(bank, run[i - 1], queue[i])
                     /\ run[i] = Applied(queue[i], run[i - 1])

Passes(queue, bank) == \E run : RunOf(queue, bank, Len(queue), run)

LEMMA FreshUpdates ==
  ASSUME NEW u \in Update, Whole(u.data.data)
  PROVE  u \in Fresh
BY DEF Update, Whole, Fresh, Fitting, Fits

LEMMA FreshIsUpdate == Fresh \subseteq Update
BY DEF Fresh, Fitting, Update

(* Working copies that hold the same accept the same, and go on to hold the *)
(* same.                                                                    *)
LEMMA AcceptAlike ==
  ASSUME NEW u \in Fresh, NEW bank, NEW b, NEW c,
         Sound(b), Full(b), Sound(c), Full(c), SameContents(b, c)
  PROVE  /\ Accepts(bank, b, u) <=> Accepts(bank, c, u)
         /\ SameContents(Applied(u, b), Applied(u, c))
<1> DEFINE s == find_secvar("TS", b).stamps
           t == find_secvar("TS", c).stamps
           g == get_last_timestamp(u.key)
<1>1. u \in Update /\ u.key \in Keys
  BY FreshIsUpdate DEF Fresh
<1>2. s[g] = TimeIn(u.key, b) /\ t[g] = TimeIn(u.key, c)
  BY DEF Full, Variables, TimeIn
<1>3. s[g] = t[g]
  BY <1>1, <1>2 DEF SameContents
<1> HIDE DEF s, t
<1>4. process_update(u, b, s, DataIn("PK", bank).size = 0)
        = process_update(u, c, t, DataIn("PK", bank).size = 0)
  BY <1>1, <1>3, SameVerdict
<1>5. Accepts(bank, b, u) <=> Accepts(bank, c, u)
  BY <1>4, Zenon DEF Accepts, s, t
<1>6. SameContents(Applied(u, b), Applied(u, c))
  <2>1. \A k \in Keys :
          /\ DataIn(k, Applied(u, b)) = IF k = u.key THEN u.data.data ELSE DataIn(k, b)
          /\ TimeIn(k, Applied(u, b)) = IF k = u.key THEN u.data.time ELSE TimeIn(k, b)
    BY AppliedContents
  <2>2. \A k \in Keys :
          /\ DataIn(k, Applied(u, c)) = IF k = u.key THEN u.data.data ELSE DataIn(k, c)
          /\ TimeIn(k, Applied(u, c)) = IF k = u.key THEN u.data.time ELSE TimeIn(k, c)
    BY AppliedContents
  <2> QED BY <2>1, <2>2 DEF SameContents
<1> QED BY <1>5, <1>6

(* Each copy of a run is a full bank.                                       *)
LEMMA RunSound ==
  ASSUME NEW queue, NEW bank, NEW N \in Nat, NEW run, RunOf(queue, bank, N, run),
         \A i \in 1..N : queue[i] \in Fresh
  PROVE  \A n \in 0..N : Sound(run[n]) /\ Full(run[n])
<1> DEFINE P == {n \in 0..N : Sound(run[n]) /\ Full(run[n])}
<1>1. 0 \in P
  BY DEF RunOf
<1>2. \A n \in 0..(N - 1) : n \in P => n + 1 \in P
  <2> SUFFICES ASSUME NEW n \in 0..(N - 1), n \in P PROVE n + 1 \in P
    OBVIOUS
  <2>1. n + 1 \in 1..N /\ n + 1 - 1 = n /\ n + 1 \in 0..N
    OBVIOUS
  <2>2. run[n + 1] = Applied(queue[n + 1], run[n]) /\ queue[n + 1] \in Fresh
    BY <2>1 DEF RunOf
  <2>3. Sound(run[n]) /\ Full(run[n])
    OBVIOUS
  <2>4. Sound(run[n + 1]) /\ Full(run[n + 1])
    BY <2>2, <2>3, AppliedContents
  <2> QED BY <2>1, <2>4
<1> HIDE DEF P
<1>3. \A n \in 0..N : n \in P
  BY <1>1, <1>2, UpTo
<1> QED BY <1>3 DEF P

(* An applied update makes a run longer by one.                             *)
LEMMA RunGrows ==
  ASSUME BankInv, Backend!ApplyUpdate, update_bank[next] \in Fresh,
         NEW run, RunOf(update_bank, stored, next - 1, run), run[next - 1] = staging_bank
  PROVE  \E longer : RunOf(update_bank, stored, next, longer) /\ longer[next] = staging_bank'
<1> DEFINE longer == [i \in 0..next |-> IF i = next THEN staging_bank' ELSE run[i]]
<1>1. /\ next \in Nat \ {0} /\ pc = "loop" /\ SetupIsNoPk /\ SameContents(variable_bank, stored)
      /\ staging_bank' = Applied(update_bank[next], staging_bank)
      /\ process_update(update_bank[next], staging_bank,
                        find_secvar("TS", staging_bank).stamps, setup_mode) = OPAL_SUCCESS
  BY ApplyWords DEF BankInv
<1>2. Accepts(stored, staging_bank, update_bank[next])
  <2>1. setup_mode = (DataIn("PK", stored).size = 0)
    <3>1. DataIn("PK", variable_bank) = DataIn("PK", stored)
      BY <1>1 DEF SameContents, Keys
    <3> QED BY <1>1, <3>1, Zenon DEF SetupIsNoPk
  <2> QED BY <1>1, <2>1, Zenon DEF Accepts
<1>3. /\ longer[0] = run[0] /\ longer[next] = staging_bank' /\ longer[next - 1] = staging_bank
      /\ \A i \in 1..(next - 1) : longer[i] = run[i] /\ longer[i - 1] = run[i - 1]
  BY <1>1
<1> HIDE DEF longer
<1>4. \A i \in 1..next : i = next \/ i \in 1..(next - 1)
  BY <1>1
<1>5. RunOf(update_bank, stored, next, longer)
  <2>1. ASSUME NEW i \in 1..next
        PROVE  /\ Accepts(stored, longer[i - 1], update_bank[i])
               /\ longer[i] = Applied(update_bank[i], longer[i - 1])
    <3>1. CASE i = next
      BY <1>1, <1>2, <1>3, <3>1
    <3>2. CASE i \in 1..(next - 1)
      BY <1>3, <3>2 DEF RunOf
    <3> QED BY <1>4, <3>1, <3>2
  <2> QED BY <1>3, <2>1 DEF RunOf
<1> QED BY <1>3, <1>5

(* What verify has read is what the firmware has, and its verdict is on     *)
(* that.                                                                    *)
Reads ==
  /\ unreadable = {} /\ currentVars = Visible(stored)
  /\ pc = "load_updates" => variable_bank = << >>
  /\ pc = "load_current" =>
       /\ Len(variable_bank) = next - 1 /\ next - 1 <= Len(currentVars)
       /\ \A i \in DOMAIN variable_bank : variable_bank[i] = currentVars[i]
  /\ pc \in {"validate_updates", "validate_current"} => variable_bank = currentVars
  /\ Working => BankInv

Judges ==
  /\ pc = "loop" =>
       /\ next <= Len(update_bank) + 1
       /\ \E run : RunOf(update_bank, stored, next - 1, run) /\ run[next - 1] = staging_bank
  /\ pc = "finish" /\ rc = OPAL_SUCCESS => Passes(update_bank, stored)
  /\ writeFlag /\ (pc \in {"commit", "over"} \/ (pc = "done" /\ rc = OPAL_SUCCESS))
       => Passes(update_bank_copy, stored)

VerdictInv == turn = "verify" => Reads /\ Judges

(* What has been vouched for is a queue that passes; and the firmware,      *)
(* given that queue, gets through it.                                       *)
VouchInv ==
  vouched # << >> => vouched \in Seq(Fresh) /\ Passes(vouched, stored)

AgainInv ==
  turn = "boot" /\ vouched # << >> /\ update_bank = vouched =>
    /\ Working => rc = OPAL_SUCCESS
    /\ pc = "loop" =>
         /\ next <= Len(vouched) + 1
         /\ \E run : /\ RunOf(vouched, stored, Len(vouched), run)
                     /\ SameContents(staging_bank, run[next - 1])

TrustInv == LInv /\ VerdictInv /\ VouchInv /\ AgainInv

LEMMA LoadKeepsReads ==
  ASSUME CallInv, Reads, Sound(stored), UNCHANGED stored,
         LoadUpdate \/ LoadCurrent \/ ValidateUpdate \/ ValidateCurrent \/ EndOfLoop
  PROVE  Reads'
<1>1. UNCHANGED <<unreadable, currentVars, stored>>
  BY DEF LoadUpdate, LoadCurrent, ValidateUpdate, ValidateCurrent, CheckedAs, EndOfLoop,
     LoopExit, args
<1>2. pc # "commit" => /\ next \in Nat \ {0} /\ currentVars \in Seq(Loaded)
                       /\ variable_bank \in Seq(Loaded)
 BY DEF CallInv, BanksAsRead, Loading, LoadUpdate, LoadCurrent, ValidateUpdate,
     ValidateCurrent, EndOfLoop, LoopExit
<1>3. unreadable' = {} /\ currentVars' = Visible(stored)'
  <2>1. Visible(stored)' = Visible(stored)
    BY <1>1 DEF Visible
  <2> QED BY <1>1, <2>1 DEF Reads
<1>4. CASE LoadUpdate
  BY <1>1, <1>3, <1>4 DEF LoadUpdate, Reads, Working
<1>5. CASE LoadCurrent
  <2>1. /\ pc = "load_current" /\ pc' = pc /\ next <= Len(currentVars) /\ next' = next + 1
        /\ variable_bank' = Append(variable_bank, currentVars[next])
    BY <1>5 DEF LoadCurrent, Reads
  <2>2. /\ next \in Nat \ {0} /\ currentVars \in Seq(Loaded) /\ variable_bank \in Seq(Loaded)
        /\ Len(variable_bank) = next - 1
        /\ \A i \in DOMAIN variable_bank : variable_bank[i] = currentVars[i]
    BY <1>2, <2>1 DEF Reads
  <2>3. /\ Len(variable_bank') = next' - 1 /\ next' - 1 <= Len(currentVars)
        /\ \A i \in DOMAIN variable_bank' : variable_bank'[i] = currentVars[i]
    BY <2>1, <2>2
  <2> QED BY <1>1, <1>3, <2>1, <2>3 DEF Reads, Working
<1>6. CASE ValidateUpdate \/ ValidateCurrent
  <2>1. /\ pc \in {"validate_updates", "validate_current"} /\ pc' \in {pc, "refused"}
        /\ variable_bank' = variable_bank
    BY <1>6 DEF ValidateUpdate, ValidateCurrent, CheckedAs
  <2> QED BY <1>1, <1>3, <2>1 DEF Reads, Working
<1>7. CASE EndOfLoop
  <2>1. variable_bank' = variable_bank
    BY <1>7 DEF EndOfLoop, LoopExit
  <2>2. CASE pc = "load_updates"
    <3>1. pc' = "load_current" /\ next' = 1 /\ variable_bank' = << >>
      BY <1>7, <2>1, <2>2 DEF EndOfLoop, LoopExit, Reads
    <3> QED BY <1>1, <1>2, <1>3, <2>2, <3>1 DEF Reads, Working
  <2>3. CASE pc = "load_current"
    <3>1. pc' = "validate_updates" /\ next > Len(currentVars)
      BY <1>7, <2>3 DEF EndOfLoop, LoopExit
    <3>2. /\ next \in Nat \ {0} /\ currentVars \in Seq(Loaded) /\ variable_bank \in Seq(Loaded)
          /\ Len(variable_bank) = next - 1 /\ next - 1 <= Len(currentVars)
          /\ \A i \in DOMAIN variable_bank : variable_bank[i] = currentVars[i]
      BY <1>2, <2>3 DEF Reads
    <3>3. variable_bank = currentVars
      BY <3>1, <3>2
    <3> QED BY <1>1, <1>3, <2>1, <3>1, <3>3 DEF Reads, Working
  <2>4. CASE pc \in {"validate_updates", "validate_current"}
    <3>1. \/ pc' = "validate_current"
          \/ pc' = "pre_process" /\ next' = 1
      BY <1>7, <2>4 DEF EndOfLoop, LoopExit
    <3>2. variable_bank' = Visible(stored) /\ variable_bank' = currentVars
      BY <2>1, <2>4 DEF Reads
    <3>3. CASE pc' = "pre_process" /\ next' = 1
      <4>1. Sound(variable_bank') /\ SameContents(variable_bank', stored')
        BY <1>1, <3>2, VisibleSame
      <4>2. BankInv'
        BY <3>3, <4>1 DEF BankInv
      <4> QED BY <1>3, <3>3, <4>2 DEF Reads
    <3> QED BY <1>1, <1>3, <3>1, <3>2, <3>3 DEF Reads, Working
  <2>5. CASE pc = "commit"
    <3>1. pc' = "over"
      BY <1>7, <2>5 DEF EndOfLoop, LoopExit
    <3> QED BY <1>1, <1>3, <3>1 DEF Reads, Working
  <2> QED BY <1>7, <2>2, <2>3, <2>4, <2>5 DEF EndOfLoop, LoopExit
<1> QED BY <1>4, <1>5, <1>6, <1>7

(* Outside the loop of process, only what leaves it counts.                 *)
LEMMA OutsideJudges ==
  ASSUME Judges, UNCHANGED stored,
         LoadUpdate \/ LoadCurrent \/ ValidateUpdate \/ ValidateCurrent \/ EndOfLoop
         \/ Return \/ WriteAll \/ WriteSome \/ WriteFails \/ OpenFails
  PROVE  Judges'
<1>1. /\ update_bank_copy' = update_bank_copy /\ writeFlag' = writeFlag
      /\ pc' \notin {"loop", "finish", "done"}
  BY DEF LoadUpdate, LoadCurrent, ValidateUpdate, ValidateCurrent, CheckedAs, EndOfLoop,
     LoopExit, Return, WriteAll, WriteSome, WriteFails, OpenFails, CommitAs, Committing, args
<1>2. pc' \in {"commit", "over"} /\ writeFlag
        => pc = "commit" \/ (pc = "done" /\ rc = OPAL_SUCCESS)
  BY DEF LoadUpdate, LoadCurrent, ValidateUpdate, ValidateCurrent, CheckedAs, EndOfLoop,
     LoopExit, Return, WriteAll, WriteSome, WriteFails, OpenFails, CommitAs, Committing,
     OPAL_SUCCESS, SUCCESS
<1> QED BY <1>1, <1>2 DEF Judges

LEMMA ReturnKeepsReads ==
  ASSUME Reads, UNCHANGED stored,
         Return \/ WriteAll \/ WriteSome \/ WriteFails \/ OpenFails
  PROVE  Reads'
<1>1. /\ UNCHANGED <<unreadable, currentVars>>
      /\ pc' \in {"commit", "over", "refused"}
  BY DEF Return, WriteAll, WriteSome, WriteFails, OpenFails, CommitAs, Committing, args
<1>2. Visible(stored)' = Visible(stored)
  BY DEF Visible
<1> QED BY <1>1, <1>2 DEF Reads, Working

(* The backend at work for verify.                                          *)
LEMMA QueueFresh ==
  ASSUME BackendSound, pc \in {"process", "loop", "finish"}
  PROVE  update_bank \in Seq(Fresh)
<1>1. Theory!TypeOK
  BY DEF BackendSound, InBackend, Theory!BackendInv, Theory!Inv
<1>2. update_bank \in Seq(Update) /\ QueueWhole(update_bank)
  <2>1. << >> \in Seq(Update) /\ QueueWhole(<< >>)
    BY DEF QueueWhole
  <2> QED BY <1>1, <2>1 DEF Theory!TypeOK
<1>3. \A i \in DOMAIN update_bank : update_bank[i] \in Fresh
  BY <1>2, FreshUpdates DEF QueueWhole
<1>4. update_bank \in [1..Len(update_bank) -> Fresh] /\ Len(update_bank) \in Nat
  BY <1>2, <1>3
<1> QED BY <1>4

LEMMA BackendKeepsReads ==
  ASSUME BackendSound, Reads, Sound(stored), UNCHANGED stored, PreProcess \/ Process
  PROVE  Reads'
<1>1. unreadable' = unreadable /\ currentVars' = currentVars
  BY DEF PreProcess, Process, args
<1>2. Visible(stored)' = Visible(stored)
  BY DEF Visible
<1>3. SUFFICES pc' = "done" \/ (Working' /\ BankInv')
  BY <1>1, <1>2 DEF Reads, Working
<1>4. CASE Backend!PreProcessVar
  <2>1. BankInv
    BY <1>4 DEF Backend!PreProcessVar, Reads, Working
  <2> QED BY <1>4, <2>1, PreProcessKeepsBank
<1>5. CASE Backend!Stage \/ Backend!RejectUpdate \/ Backend!UpdateNoMem \/ Backend!EndOfQueue
  <2>1. BankInv
    BY <1>5 DEF Backend!Stage, Backend!RejectUpdate, Backend!UpdateNoMem, Backend!EndOfQueue,
       Reads, Working
  <2> QED BY <1>5, <2>1, LoopKeepsBank
<1>6. CASE Backend!ApplyUpdate
  <2>1. pc = "loop" /\ next <= Len(update_bank)
    BY <1>6, ApplyWords
  <2>2. BankInv /\ update_bank \in Seq(Fresh)
    BY <2>1, QueueFresh DEF Reads, Working
  <2>3. next \in Nat \ {0}
    BY <2>2 DEF BankInv
  <2>4. update_bank[next] \in Fresh
    BY <2>1, <2>2, <2>3
  <2> QED BY <1>6, <2>2, <2>4, ApplyKeepsBank
<1>7. CASE Backend!PreProcessNoMem \/ Backend!NothingToProcess \/ Backend!Finish
  BY <1>7 DEF Backend!PreProcessNoMem, Backend!NothingToProcess, Backend!Finish
<1> QED BY <1>4, <1>5, <1>6, <1>7 DEF PreProcess, Process

LEMMA BackendKeepsJudges ==
  ASSUME CallInv, BackendSound, CopyInv, Reads, Judges, Sound(stored), UNCHANGED stored,
         PreProcess \/ Process
  PROVE  Judges'
<1>0. writeFlag' = writeFlag
  BY DEF PreProcess, Process, args
<1>1. CASE Backend!PreProcessVar \/ Backend!PreProcessNoMem \/ Backend!NothingToProcess
  <2>1. \/ pc' \in {"pre_process", "process"}
        \/ pc' = "done" /\ rc' # OPAL_SUCCESS
    BY <1>1 DEF Backend!PreProcessVar, Backend!PreProcessNoMem, Backend!NothingToProcess,
       Backend!OPAL_NO_MEM, Backend!OPAL_EMPTY, OPAL_SUCCESS
  <2> QED BY <2>1 DEF Judges
<1>2. CASE Backend!Stage
  <2>1. /\ pc = "process" /\ next' = next /\ update_bank' = update_bank
        /\ staging_bank' = Backend!copy_bank_list(<< >>, variable_bank)
        /\ \/ pc' = "loop"
           \/ pc' = "done" /\ rc' = Backend!OPAL_PERMISSION
    BY <1>2 DEF Backend!Stage
  <2>2. BankInv
    BY <2>1 DEF Reads, Working
  <2>3. next = 1 /\ Sound(variable_bank) /\ Full(variable_bank)
        /\ SameContents(variable_bank, stored)
    BY <2>1, <2>2 DEF BankInv
  <2>4. staging_bank' = variable_bank
    BY <2>1, <2>3 DEF Backend!copy_bank_list, Sound
  <2>5. \E run : RunOf(update_bank, stored, 0, run) /\ run[0] = staging_bank'
    <3> DEFINE run == [i \in {0} |-> staging_bank']
    <3>1. RunOf(update_bank, stored, 0, run) /\ run[0] = staging_bank'
      BY <2>3, <2>4 DEF RunOf
    <3> QED BY <3>1
  <2>6. next' - 1 = 0 /\ next' <= Len(update_bank') + 1
    <3>1. update_bank \in Seq(Fresh)
      BY <2>1, QueueFresh
    <3> QED BY <2>1, <2>3, <3>1
  <2> QED BY <2>1, <2>5, <2>6 DEF Judges, Backend!OPAL_PERMISSION, OPAL_SUCCESS
<1>3. CASE Backend!ApplyUpdate
  <2>1. /\ pc = "loop" /\ pc' = "loop" /\ next <= Len(update_bank) /\ next' = next + 1
        /\ update_bank' = update_bank
    BY <1>3, ApplyWords
  <2>2. BankInv /\ update_bank \in Seq(Fresh)
    BY <2>1, QueueFresh DEF Reads, Working
  <2>3. next \in Nat \ {0}
    BY <2>2 DEF BankInv
  <2>4. update_bank[next] \in Fresh
    BY <2>1, <2>2, <2>3
  <2>5. PICK run : RunOf(update_bank, stored, next - 1, run) /\ run[next - 1] = staging_bank
    BY <2>1 DEF Judges
  <2>6. \E longer : RunOf(update_bank, stored, next, longer) /\ longer[next] = staging_bank'
    BY <1>3, <2>2, <2>4, <2>5, RunGrows
  <2>7. next' - 1 = next /\ next' <= Len(update_bank') + 1
    BY <2>1, <2>2, <2>3
  <2> QED BY <2>1, <2>6, <2>7 DEF Judges
<1>4. CASE Backend!RejectUpdate \/ Backend!UpdateNoMem
  <2>1. pc' = "finish" /\ rc' # OPAL_SUCCESS
    BY <1>4 DEF Backend!RejectUpdate, Backend!UpdateNoMem, Backend!OPAL_NO_MEM,
       Backend!OPAL_SUCCESS, OPAL_SUCCESS
  <2> QED BY <2>1 DEF Judges
<1>5. CASE Backend!EndOfQueue
  <2>1. pc = "loop" /\ pc' = "finish" /\ next > Len(update_bank) /\ update_bank' = update_bank
    BY <1>5 DEF Backend!EndOfQueue
  <2>2. PICK run : RunOf(update_bank, stored, next - 1, run)
    BY <2>1 DEF Judges
  <2>3. next - 1 = Len(update_bank)
    <3>1. next \in Nat \ {0} /\ update_bank \in Seq(Fresh)
      BY <2>1, QueueFresh DEF CallInv
    <3>2. next <= Len(update_bank) + 1
      BY <2>1 DEF Judges
    <3> QED BY <2>1, <3>1, <3>2
  <2>4. Passes(update_bank', stored')
    BY <2>1, <2>2, <2>3 DEF Passes
  <2> QED BY <2>1, <2>4 DEF Judges
<1>6. CASE Backend!Finish
  <2>1. pc = "finish" /\ pc' = "done" /\ rc' = rc
    <3>1. pc = "finish"
      BY <1>6 DEF Backend!Finish
    <3>2. BankInv
      BY <3>1 DEF Reads, Working
    <3> QED BY <1>6, <3>2, FinishWords
  <2>2. update_bank_copy' = update_bank_copy
    BY <1>6, <2>1 DEF PreProcess, Process, Backend!PreProcessVar, Backend!PreProcessNoMem
  <2>3. writeFlag /\ rc = OPAL_SUCCESS => Passes(update_bank_copy, stored)
    BY <2>1 DEF Judges, CopyInv
  <2> QED BY <1>0, <2>1, <2>2, <2>3 DEF Judges
<1> QED BY <1>1, <1>2, <1>3, <1>4, <1>5, <1>6 DEF PreProcess, Process

LEMMA VerifyStepKeepsVerdict ==
  ASSUME LInv, VerdictInv, VerifyStep
  PROVE  VerdictInv'
<1>1. /\ turn = "verify" /\ UNCHANGED stored /\ Next /\ Reads /\ Judges
      /\ CallInv /\ BackendSound /\ CopyInv /\ Sound(stored)
  BY DEF VerifyStep, LInv, MachineInv, VerifyInv, VerdictInv
<1>2. CASE LoadUpdate \/ LoadCurrent \/ ValidateUpdate \/ ValidateCurrent \/ EndOfLoop
  BY <1>1, <1>2, LoadKeepsReads, OutsideJudges DEF VerdictInv
<1>3. CASE PreProcess \/ Process
  BY <1>1, <1>3, BackendKeepsReads, BackendKeepsJudges DEF VerdictInv
<1>4. CASE Return \/ WriteAll \/ WriteSome \/ WriteFails \/ OpenFails
  BY <1>1, <1>4, ReturnKeepsReads, OutsideJudges DEF VerdictInv
<1> QED BY <1>1, <1>2, <1>3, <1>4 DEF Next

(* The firmware at work on what was vouched for.                            *)
LEMMA PassedAgain ==
  ASSUME BankInv, Backend!ApplyUpdate \/ Backend!RejectUpdate, pc = "loop",
         next <= Len(update_bank), update_bank \in Seq(Fresh),
         NEW run, RunOf(update_bank, stored, Len(update_bank), run),
         SameContents(staging_bank, run[next - 1])
  PROVE  /\ Backend!ApplyUpdate
         /\ SameContents(staging_bank', run[next])
<1> DEFINE u == update_bank[next]
<1>1. /\ next \in Nat \ {0} /\ SetupIsNoPk /\ SameContents(variable_bank, stored)
      /\ Sound(staging_bank) /\ Full(staging_bank)
  BY DEF BankInv
<1>2. /\ Len(update_bank) \in Nat /\ \A i \in 1..Len(update_bank) : update_bank[i] \in Fresh
      /\ next \in 1..Len(update_bank) /\ next - 1 \in 0..Len(update_bank) /\ u \in Fresh
  BY <1>1
<1>3. PICK N \in Nat : N = Len(update_bank)
  BY <1>2
<1>4. Sound(run[next - 1]) /\ Full(run[next - 1])
  BY <1>2, <1>3, RunSound
<1>5. Accepts(stored, run[next - 1], u) /\ run[next] = Applied(u, run[next - 1])
  BY <1>2 DEF RunOf
<1>6. /\ Accepts(stored, staging_bank, u)
      /\ SameContents(Applied(u, staging_bank), Applied(u, run[next - 1]))
  <2> HIDE DEF u
  <2> QED BY <1>1, <1>2, <1>4, <1>5, AcceptAlike
<1>7. setup_mode = (DataIn("PK", stored).size = 0)
  <2>1. DataIn("PK", variable_bank) = DataIn("PK", stored)
    BY <1>1 DEF SameContents, Keys
  <2> QED BY <1>1, <2>1, Zenon DEF SetupIsNoPk
<1>8. Backend!Outcome = OPAL_SUCCESS
  BY <1>6, <1>7, SameOutcome, Zenon DEF Accepts
<1>9. Backend!ApplyUpdate
  BY <1>8 DEF Backend!RejectUpdate, Backend!OPAL_SUCCESS, OPAL_SUCCESS
<1>10. staging_bank' = Applied(u, staging_bank)
  BY <1>9, ApplyWords
<1> QED BY <1>5, <1>6, <1>9, <1>10

LEMMA BootStepKeepsAgain ==
  ASSUME LInv, VouchInv, AgainInv, BootStep \/ BootUnreadable
  PROVE  AgainInv'
<1> SUFFICES ASSUME vouched' # << >>, update_bank' = vouched', pc' # "done"
             PROVE  /\ Working' => rc' = OPAL_SUCCESS
                    /\ pc' = "loop" =>
                         /\ next' <= Len(vouched') + 1
                         /\ \E run : /\ RunOf(vouched', stored', Len(vouched'), run)
                                     /\ SameContents(staging_bank', run[next' - 1])
  BY DEF AgainInv, Working
<1>1. /\ turn = "boot" /\ UNCHANGED <<stored, vouched>>
      /\ vouched \in Seq(Fresh) /\ Passes(vouched, stored)
  BY DEF BootStep, BootUnreadable, machine, VouchInv
<1>2. pc # "done" => Working /\ BankInv
  BY <1>1 DEF LInv, BootInv
<1>3. update_bank' = update_bank /\ pc # "done"
  <2>1. ~Backend!Finish /\ ~Backend!NothingToProcess
    BY DEF Backend!Finish, Backend!NothingToProcess
  <2> QED BY <2>1 DEF BootStep, BootUnreadable, Backend!PreProcessVar, Backend!Stage,
         Backend!ApplyUpdate, Backend!RejectUpdate, Backend!EndOfQueue
<1>4. update_bank = vouched /\ rc = OPAL_SUCCESS /\ BankInv
  BY <1>1, <1>2, <1>3 DEF AgainInv
<1>5. CASE Backend!PreProcessVar
  BY <1>4, <1>5 DEF Backend!PreProcessVar
<1>6. CASE Backend!Stage
  <2>1. /\ pc = "process" /\ next' = next
        /\ staging_bank' = Backend!copy_bank_list(<< >>, variable_bank)
        /\ rc' = rc
    BY <1>6 DEF Backend!Stage
  <2>2. next = 1 /\ Sound(variable_bank) /\ SameContents(variable_bank, stored)
    BY <1>4, <2>1 DEF BankInv
  <2>3. staging_bank' = variable_bank
    BY <2>1, <2>2 DEF Backend!copy_bank_list, Sound
  <2>4. PICK run : RunOf(vouched, stored, Len(vouched), run)
    BY <1>1 DEF Passes
  <2>5. SameContents(staging_bank', run[0])
    BY <2>2, <2>3, <2>4 DEF RunOf, SameContents
  <2>6. next' - 1 = 0 /\ next' <= Len(vouched) + 1
    BY <1>1, <2>1, <2>2
  <2> QED BY <1>1, <1>4, <2>1, <2>4, <2>5, <2>6
<1>7. CASE /\ pc = "loop" /\ next <= Len(update_bank)
           /\ Backend!ApplyUpdate \/ Backend!RejectUpdate
  <2>1. PICK run : /\ RunOf(vouched, stored, Len(vouched), run)
                   /\ SameContents(staging_bank, run[next - 1])
    BY <1>1, <1>4, <1>7 DEF AgainInv
  <2>2. Backend!ApplyUpdate /\ SameContents(staging_bank', run[next])
    BY <1>1, <1>4, <1>7, <2>1, PassedAgain
  <2>3. next' = next + 1 /\ rc' = rc /\ next \in Nat \ {0}
    BY <1>4, <2>2, ApplyWords DEF BankInv
  <2>4. next' - 1 = next /\ next' <= Len(vouched) + 1
    BY <1>1, <1>4, <1>7, <2>3
  <2> QED BY <1>1, <1>4, <2>1, <2>2, <2>3, <2>4
<1>8. CASE Backend!EndOfQueue
  BY <1>4, <1>8 DEF Backend!EndOfQueue
<1>9. ~BootUnreadable
  <2> SUFFICES ASSUME BootUnreadable PROVE FALSE
    OBVIOUS
  <2>1. next <= Len(update_bank) /\ update_bank[next].data \in {Malformed, Torn}
    BY DEF BootUnreadable, Readable
  <2>2. update_bank[next] \in Fresh
    BY <1>1, <1>4, <2>1 DEF BankInv
  <2> QED BY <2>1, <2>2, MachineAssumption DEF Fresh, Fitting
<1>10. ~Backend!Finish /\ ~Backend!NothingToProcess
  BY DEF Backend!Finish, Backend!NothingToProcess
<1> QED BY <1>5, <1>6, <1>7, <1>8, <1>9, <1>10 DEF BootStep

LEMMA TrustInvInit == LInit => TrustInv
<1> SUFFICES ASSUME LInit PROVE TrustInv
  OBVIOUS
<1>1. turn = "user" /\ vouched = << >>
  BY DEF LInit
<1> QED BY <1>1, LInvInit DEF TrustInv, VerdictInv, VouchInv, AgainInv

LEMMA TrustInvStep ==
  ASSUME "unreadable" \notin Faults, TrustInv, [LNext]_all
  PROVE  TrustInv'
<1>0. LInv /\ VerdictInv /\ VouchInv /\ AgainInv /\ LInv'
  BY LInvStep DEF TrustInv
<1>1. CASE Write \/ WriteRefused
  <2>1. turn' = "user" /\ vouched' = << >>
    BY <1>1 DEF Write, WriteRefused, MyTurn
  <2> QED BY <1>0, <2>1 DEF TrustInv, VerdictInv, VouchInv, AgainInv
<1>2. CASE Verify
  <2>1. /\ turn' = "verify" /\ vouched' = << >> /\ stored' = stored
        /\ pc' = "load_updates" /\ currentVars' = Visible(stored)
        /\ variable_bank' = variable_bank /\ unreadable' = {} /\ turn = "user"
    BY <1>2 DEF Verify, MyTurn, Unread
  <2>2. variable_bank' = << >>
    BY <1>0, <2>1 DEF LInv, UserInv
  <2>3. Visible(stored)' = Visible(stored)
    BY <2>1 DEF Visible
  <2>4. Reads' /\ Judges'
    BY <2>1, <2>2, <2>3 DEF Reads, Judges, Working
  <2> QED BY <1>0, <2>1, <2>4 DEF TrustInv, VerdictInv, VouchInv, AgainInv
<1>3. CASE VerifyStep
  <2>1. VerdictInv'
    BY <1>0, <1>3, VerifyStepKeepsVerdict
  <2>2. turn' = "verify" /\ vouched' = vouched /\ stored' = stored
    BY <1>3 DEF VerifyStep
  <2> QED BY <1>0, <2>1, <2>2 DEF TrustInv, VouchInv, AgainInv
<1>4. CASE VerifyEnds
  <2>1. /\ turn = "verify" /\ turn' = "user" /\ stored' = stored
        /\ vouched' = IF Submitted THEN update_bank_copy ELSE << >>
    BY <1>4 DEF VerifyEnds
  <2>2. CASE Submitted
    <3>1. Passes(update_bank_copy, stored)
      BY <1>0, <2>1, <2>2 DEF VerdictInv, Judges, Submitted
    <3>2. update_bank_copy \in Seq(Update) /\ QueueWhole(update_bank_copy)
      BY <1>0, <2>1 DEF LInv, VerifyInv, WriteInv
    <3>3. \A i \in DOMAIN update_bank_copy : update_bank_copy[i] \in Fresh
      BY <3>2, FreshUpdates DEF QueueWhole
    <3>4. /\ update_bank_copy \in [1..Len(update_bank_copy) -> Fresh]
          /\ Len(update_bank_copy) \in Nat
      BY <3>2, <3>3
    <3>5. VouchInv'
      BY <2>1, <2>2, <3>1, <3>4 DEF VouchInv
    <3> QED BY <1>0, <2>1, <3>5 DEF TrustInv, VerdictInv, AgainInv
  <2>3. CASE ~Submitted
    BY <1>0, <2>1, <2>3 DEF TrustInv, VerdictInv, VouchInv, AgainInv
  <2> QED BY <2>2, <2>3
<1>5. CASE Boot
  <2>1. /\ turn' = "boot" /\ vouched' = vouched /\ stored' = stored
        /\ rc' = OPAL_SUCCESS /\ pc' = "pre_process"
    BY <1>5 DEF Boot
  <2> QED BY <1>0, <2>1 DEF TrustInv, VerdictInv, VouchInv, AgainInv
<1>6. CASE BootStep \/ BootUnreadable
  <2>1. AgainInv'
    BY <1>0, <1>6, BootStepKeepsAgain
  <2>2. turn' = "boot" /\ vouched' = vouched /\ stored' = stored
    BY <1>6 DEF BootStep, BootUnreadable, machine
  <2> QED BY <1>0, <2>1, <2>2 DEF TrustInv, VerdictInv, VouchInv
<1>7. CASE BootEnds
  <2>1. turn' = "user" /\ vouched' = << >>
    BY <1>7 DEF BootEnds
  <2> QED BY <1>0, <2>1 DEF TrustInv, VerdictInv, VouchInv, AgainInv
<1>8. CASE UNCHANGED all
  <2>1. UNCHANGED <<updateVars, currentVars, writeFlag, unreadable, variable_bank, update_bank,
                    staging_bank, setup_mode, pc, next, rc, update_bank_copy, files,
                    stored, order, turn, turns, vouched>>
    BY <1>8 DEF all, vars, machine, args, backend
  <2>2. Visible(stored)' = Visible(stored)
    BY <2>1 DEF Visible
  <2>3. VerdictInv'
    BY <1>0, <2>1, <2>2 DEF VerdictInv, Reads, Judges, Working, BankInv, SetupIsNoPk
  <2>4. AgainInv'
    BY <1>0, <2>1 DEF AgainInv, Working
  <2> QED BY <1>0, <2>1, <2>3, <2>4 DEF TrustInv, VouchInv
<1> QED BY <1>1, <1>2, <1>3, <1>4, <1>5, <1>6, <1>7, <1>8 DEF LNext

(* Whatever the faults of writing, and whatever other commands and reboots  *)
(* have come before: a queue that verify has just accepted and submitted is *)
(* accepted at boot, if it is all there is to process.  Reading must not    *)
(* fail: verify passes over a current variable that it cannot read          *)
(* (setupBanks, 300-330), and judges without it.                            *)
THEOREM VerifiedAloneTheorem ==
  ASSUME "unreadable" \notin Faults
  PROVE  LSpec => VerifiedAloneIsAccepted
<1> DEFINE Step == BootDecides /\ vouched # << >> /\ update_bank = vouched => rc' = OPAL_SUCCESS
<1>1. TrustInv /\ [LNext]_all => TrustInv'
  BY TrustInvStep
<1>2. TrustInv /\ [LNext]_all => [Step]_all
  <2> SUFFICES ASSUME TrustInv, [LNext]_all, BootDecides, vouched # << >>, update_bank = vouched
               PROVE  rc' = OPAL_SUCCESS
    OBVIOUS
  <2>1. turn = "boot" /\ pc = "finish" /\ pc' = "done"
    BY DEF BootDecides
  <2>2. rc = OPAL_SUCCESS /\ BankInv
    BY <2>1 DEF TrustInv, AgainInv, Working, LInv, BootInv
  <2>3. Backend!Finish
    <3>1. BootStep
      BY <2>1 DEF LNext, MyTurn, Write, WriteRefused, Verify, VerifyStep, VerifyEnds, Boot,
         BootUnreadable, BootEnds, all, vars, backend
    <3> QED BY <2>1, <3>1 DEF BootStep, Backend!PreProcessVar, Backend!NothingToProcess,
           Backend!Stage, Backend!ApplyUpdate, Backend!RejectUpdate, Backend!EndOfQueue
  <2>4. rc' = rc
    BY <2>2, <2>3, FinishWords
  <2> QED BY <2>2, <2>4
<1> QED BY <1>1, <1>2, TrustInvInit, PTL DEF LSpec, VerifiedAloneIsAccepted
=============================================================================
