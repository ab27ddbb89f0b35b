-------------------------- MODULE ReadCommandProofs --------------------------
(***************************************************************************)
(* Theorems about ReadCommand, for every directory and every size file.    *)
(***************************************************************************)
EXTENDS ReadCommand, WellFoundedInduction, TLAPS

-----------------------------------------------------------------------------
(* strtol reads what it is given digit by digit.  The induction is on how   *)
(* far it has come; a smallest counterexample stands in for the rule.       *)

LEMMA UpTo ==
  ASSUME NEW N \in Nat, NEW P, 0 \in P,
         \A n \in 0..(N - 1) : n \in P => n + 1 \in P
  PROVE  \A n \in 0..N : n \in P
<1> DEFINE Below == {p \in Nat \X Nat : p[1] < p[2]}
           S     == {n \in 0..N : n \notin P}
<1> SUFFICES ASSUME S # {} PROVE FALSE
  OBVIOUS
<1>1. IsWellFoundedOn(Below, Nat)
  BY NatLessThanWellFounded DEF OpToRel
<1>2. PICK m \in S : \A n \in S : ~(<<n, m>> \in Below)
  <2>1. S \subseteq Nat /\ S # {}
    OBVIOUS
  <2> HIDE DEF S, Below
  <2> QED BY <1>1, <2>1, WFMin
<1>3. m \in 0..N /\ m \notin P /\ m # 0
  BY <1>2
<1>4. m - 1 \in 0..(N - 1) /\ <<m - 1, m>> \in Below
  BY <1>3
<1>5. m - 1 \in P
  BY <1>2, <1>4
<1>6. m - 1 + 1 \in P
  BY <1>4, <1>5
<1> QED BY <1>3, <1>6

(* Where the characters of a kind end: there is such a place, and only one. *)
LEMMA LeadingIs ==
  ASSUME NEW S, NEW text \in Seq(S), NEW chars
  PROVE  LET L == Leading(chars, text)
         IN  /\ L \in 0..Len(text)
             /\ \A j \in 1..L : text[j] \in chars
             /\ L < Len(text) => text[L + 1] \notin chars
<1>1. PICK N \in Nat : N = Len(text)
  OBVIOUS
<1> DEFINE P == {n \in 0..N : \A j \in 1..n : text[j] \in chars}
<1>2. 0 \in P
  OBVIOUS
<1>3. CASE N \in P
  BY <1>1, <1>3 DEF Leading
<1>4. CASE N \notin P
  <2>1. PICK n \in 0..(N - 1) : n \in P /\ n + 1 \notin P
    <3> SUFFICES ASSUME \A n \in 0..(N - 1) : n \in P => n + 1 \in P PROVE FALSE
      OBVIOUS
    <3> HIDE DEF P
    <3>1. N \in 0..N
      OBVIOUS
    <3> QED BY <1>2, <1>4, <3>1, UpTo
  <2>2. text[n + 1] \notin chars
    BY <2>1
  <2> QED BY <1>1, <2>1, <2>2 DEF Leading
<1> QED BY <1>3, <1>4

LEMMA LeadingAt ==
  ASSUME NEW S, NEW text \in Seq(S), NEW chars, NEW n \in 0..Len(text),
         \A j \in 1..n : text[j] \in chars, n < Len(text) => text[n + 1] \notin chars
  PROVE  Leading(chars, text) = n
<1> DEFINE L == Leading(chars, text)
<1>1. /\ L \in 0..Len(text) /\ \A j \in 1..L : text[j] \in chars
      /\ L < Len(text) => text[L + 1] \notin chars
  BY LeadingIs
<1> HIDE DEF L
<1>2. Len(text) \in Nat
  OBVIOUS
<1>3. CASE L < n
  <2>1. L + 1 \in 1..n
    BY <1>1, <1>2, <1>3
  <2> QED BY <1>1, <1>2, <1>3, <2>1
<1>4. CASE L > n
  <2>1. n + 1 \in 1..L
    BY <1>1, <1>2, <1>4
  <2> QED BY <1>1, <1>2, <1>4, <2>1
<1> QED BY <1>1, <1>2, <1>3, <1>4 DEF L

(* One turn of the conversion. *)
Sum(base, digits, sum, n) == IF n = 0 THEN 0 ELSE base * sum[n - 1] + digits[n]

LEMMA SumExists ==
  ASSUME NEW base, NEW digits, NEW N \in Nat
  PROVE  \E sum : sum = [n \in 0..N |-> Sum(base, digits, sum, n)]
<1> DEFINE P == {m \in 0..N : \E sum : sum = [n \in 0..m |-> Sum(base, digits, sum, n)]}
<1>1. 0 \in P
  <2>1. [n \in 0..0 |-> 0] = [n \in 0..0 |-> Sum(base, digits, [j \in 0..0 |-> 0], n)]
    BY DEF Sum
  <2> QED BY <2>1
<1>2. ASSUME NEW m \in 0..(N - 1), m \in P PROVE m + 1 \in P
  <2>1. PICK sum : sum = [n \in 0..m |-> Sum(base, digits, sum, n)]
    BY <1>2
  <2> DEFINE longer == [n \in 0..(m + 1) |->
                          IF n = m + 1 THEN Sum(base, digits, sum, m + 1) ELSE sum[n]]
  <2>2. \A n \in 0..(m + 1) : longer[n] = Sum(base, digits, longer, n)
    <3> TAKE n \in 0..(m + 1)
    <3>1. n = 0 \/ (n - 1 \in 0..m /\ longer[n - 1] = sum[n - 1])
      OBVIOUS
    <3>2. Sum(base, digits, longer, n) = Sum(base, digits, sum, n)
      BY <3>1 DEF Sum
    <3>3. CASE n = m + 1
      BY <3>2, <3>3
    <3>4. CASE n # m + 1
      BY <2>1, <3>2, <3>4
    <3> QED BY <3>3, <3>4
  <2> HIDE DEF longer
  <2>3. longer = [n \in 0..(m + 1) |-> Sum(base, digits, longer, n)]
    BY <2>2 DEF longer
  <2> QED BY <2>3
<1> HIDE DEF P
<1>3. N \in P
  BY <1>1, <1>2, UpTo
<1> QED BY <1>3 DEF P

(* A number, of digits that are below its base; of one digit, that digit;   *)
(* and not zero, if its first digit is not.                                 *)
LEMMA ValueIs ==
  ASSUME NEW base \in Nat, NEW text \in Seq(Char)
  PROVE  /\ Value(base, text) \in Nat
         /\ Leading(0..(base - 1), text) = 1 => Value(base, text) = text[1]
         /\ Leading(0..(base - 1), text) # 0 /\ text[1] # 0 => Value(base, text) # 0
<1> DEFINE L      == Leading(0..(base - 1), text)
           digits == SubSeq(text, 1, L)
           F      == CHOOSE sum : sum = [n \in 0..Len(digits) |-> Sum(base, digits, sum, n)]
<1>1. L \in 0..Len(text) /\ Len(text) \in Nat /\ \A j \in 1..L : text[j] \in 0..(base - 1)
  BY LeadingIs
<1>2. Value(base, text) = F[Len(digits)]
  BY DEF Value, Sum
<1> HIDE DEF L
<1>3. Len(digits) = L /\ \A j \in 1..L : digits[j] = text[j] /\ digits[j] \in Nat
  BY <1>1
<1> HIDE DEF digits
<1>4. F = [n \in 0..Len(digits) |-> Sum(base, digits, F, n)]
  <2>1. Len(digits) \in Nat
    BY <1>1, <1>3
  <2> QED BY <2>1, SumExists
<1> HIDE DEF F
<1>5. F[0] = 0 /\ L \in Nat
  BY <1>1, <1>3, <1>4 DEF Sum
<1>6. \A n \in 0..(L - 1) : F[n + 1] = base * F[n] + digits[n + 1]
  <2> TAKE n \in 0..(L - 1)
  <2>1. n + 1 \in 0..L /\ n + 1 # 0 /\ n + 1 - 1 = n
    BY <1>1
  <2> QED BY <1>3, <1>4, <2>1 DEF Sum
<1>7. \A n \in 0..L : F[n] \in Nat
  <2> DEFINE P == {n \in 0..L : F[n] \in Nat}
  <2>1. 0 \in P
    BY <1>5
  <2>2. \A n \in 0..(L - 1) : n \in P => n + 1 \in P
    <3> SUFFICES ASSUME NEW n \in 0..(L - 1), n \in P PROVE n + 1 \in P
      OBVIOUS
    <3>1. F[n] \in Nat /\ digits[n + 1] \in Nat /\ n + 1 \in 0..L
      BY <1>3, <1>5
    <3>2. base * F[n] \in Nat
      BY <3>1
    <3>3. F[n + 1] \in Nat
      BY <1>6, <3>1, <3>2
    <3> QED BY <3>1, <3>3
  <2> HIDE DEF P
  <2>3. \A n \in 0..L : n \in P
    BY <1>5, <2>1, <2>2, UpTo
  <2> QED BY <1>5, <2>3 DEF P
<1>8. L = 1 => F[L] = text[1]
  <2> SUFFICES ASSUME L = 1 PROVE F[1] = text[1]
    OBVIOUS
  <2>1. F[1] = base * F[0] + digits[1] /\ digits[1] = text[1] /\ text[1] \in Nat
    BY <1>3, <1>6
  <2>2. base * 0 = 0
    OBVIOUS
  <2> QED BY <1>5, <2>1, <2>2
<1>9. L # 0 /\ text[1] # 0 => F[L] # 0
  <2> SUFFICES ASSUME L # 0, text[1] # 0 PROVE F[L] # 0
    OBVIOUS
  <2> DEFINE P == {n \in 0..L : n = 0 \/ F[n] > 0}
  <2>1. 0 \in P
    BY <1>5
  <2>2. base > 0
    <3>1. 1 \in 1..L
      BY <1>5
    <3>2. text[1] \in 0..(base - 1)
      BY <1>1, <3>1 DEF L
    <3> QED BY <3>2
  <2>3. \A n \in 0..(L - 1) : n \in P => n + 1 \in P
    <3> SUFFICES ASSUME NEW n \in 0..(L - 1), n \in P PROVE n + 1 \in P
      OBVIOUS
    <3>1. F[n] \in Nat /\ digits[n + 1] \in Nat /\ n + 1 \in 0..L /\ n + 1 \in 1..L
      BY <1>3, <1>5, <1>7
    <3>2. base * F[n] \in Nat /\ F[n + 1] = base * F[n] + digits[n + 1]
      BY <1>6, <3>1
    <3>3. F[n + 1] > 0
      <4>1. CASE n = 0
        <5>1. digits[n + 1] # 0
          BY <1>3, <3>1, <4>1
        <5> QED BY <3>1, <3>2, <5>1
      <4>2. CASE n # 0
        <5>1. F[n] > 0
          BY <4>2
        <5>2. base * F[n] > 0
          BY <2>2, <3>1, <5>1
        <5> QED BY <3>1, <3>2, <5>2
      <4> QED BY <4>1, <4>2
    <3> QED BY <3>1, <3>3
  <2> HIDE DEF P
  <2>4. \A n \in 0..L : n \in P
    BY <1>5, <2>1, <2>3, UpTo
  <2>5. L \in P
    BY <1>5, <2>4
  <2> QED BY <2>5 DEF P
<1>10. F[L] \in Nat
  BY <1>5, <1>7
<1> QED BY <1>2, <1>3, <1>8, <1>9, <1>10 DEF L

LEMMA StrtolType ==
  ASSUME NEW text \in Seq(Char)
  PROVE  strtol(text) \in Int
<1>1. \A n \in 0..Len(text) : Drop(n, text) \in Seq(Char)
  BY DEF Drop
<1>2. ASSUME NEW word \in Seq(Char) PROVE Unsigned(word) \in Nat
  <2>1. Len(word) >= 3 => Drop(2, word) \in Seq(Char)
    BY DEF Drop
  <2> QED BY <2>1, ValueIs DEF Unsigned
<1> DEFINE word == Drop(Leading({Space}, text), text)
<1>3. word \in Seq(Char)
  BY <1>1, LeadingIs
<1>4. Len(word) > 0 => Drop(1, word) \in Seq(Char)
  <2> HIDE DEF word
  <2> QED BY <1>3 DEF Drop
<1>5. /\ Unsigned(word) \in Nat
      /\ Len(word) > 0 => Unsigned(Drop(1, word)) \in Nat
  BY <1>2, <1>3, <1>4
<1>6. strtol(text) = IF Len(word) > 0 /\ word[1] = Minus THEN -Unsigned(Drop(1, word))
                     ELSE Unsigned(word)
  BY DEF strtol
<1> HIDE DEF word
<1> QED BY <1>5, <1>6

LEMMA SizeType ==
  ASSUME NEW text \in {Missing} \cup Seq(Char)
  PROVE  /\ getSizeFromSizeFile(text).rc \in {SUCCESS, INVALID_FILE}
         /\ getSizeFromSizeFile(text).size \in Nat
<1>1. CASE text = Missing \/ text = << >>
  BY <1>1 DEF getSizeFromSizeFile
<1>2. CASE ~(text = Missing \/ text = << >>)
  <2> DEFINE most == Min({MaxDigits, Len(text)})
             head == SubSeq(text, 1, most)
  <2>1. text \in Seq(Char) /\ Len(text) \in Nat
    BY <1>2
  <2>2. most \in 0..Len(text)
    BY <2>1, SizeAssumption DEF Min
  <2>3. head \in Seq(Char)
    <3> HIDE DEF most
    <3> QED BY <2>1, <2>2
  <2> HIDE DEF head
  <2>4. strtol(head) % SizeMod \in Nat
    <3>1. strtol(head) \in Int /\ SizeMod \in Nat /\ SizeMod > 0
      BY <2>3, StrtolType, SizeAssumption
    <3> QED BY <3>1
  <2> QED BY <1>2, <2>4 DEF getSizeFromSizeFile, head
<1> QED BY <1>1, <1>2

(* What the driver writes is read as it was meant.                          *)
Number(digits) ==
  LET sum[n \in 0..Len(digits)] == IF n = 0 THEN 0 ELSE 10 * sum[n - 1] + digits[n]
  IN  sum[Len(digits)]

LEMMA StatedIsRead ==
  ASSUME NEW files \in VarFiles, NEW n \in 0..MaxData, Stated(files, n)
  PROVE  getSizeFromSizeFile(files.size) = [rc |-> SUCCESS, size |-> n]
<1> DEFINE text   == files.size
           digits == Front(text)
           D      == Len(text) - 1
           most   == Min({MaxDigits, Len(text)})
           head   == SubSeq(text, 1, most)
<1>1. /\ text # Missing /\ text # << >> /\ text \in Seq(Char) /\ Len(text) \in Nat \ {0}
      /\ digits \in Seq(0..9) /\ digits # << >> /\ Len(digits) <= MaxDigits
      /\ digits[1] = 0 => n = 0 /\ Len(digits) = 1
      /\ Value(10, digits) = n /\ text[Len(text)] = Space
  BY DEF Stated, VarFiles, Last
<1>2. /\ Len(digits) = D /\ D \in Nat \ {0} /\ Len(text) = D + 1
      /\ \A j \in 1..D : digits[j] = text[j] /\ text[j] \in 0..9
  BY <1>1 DEF Front
<1>3. MaxDigits \in Nat /\ most \in {D, D + 1}
  BY <1>1, <1>2, SizeAssumption DEF Min
<1> HIDE DEF D, most, text, digits
<1>4. /\ head \in Seq(Char) /\ Len(head) = most
      /\ \A j \in 1..D : head[j] = text[j]
      /\ most = D + 1 => head[D + 1] = Space
  BY <1>1, <1>2, <1>3
<1> HIDE DEF head
<1>5. head[1] \in 0..9 /\ head[1] = digits[1] /\ 1 \in 1..D /\ D <= most /\ most \in Nat
  BY <1>2, <1>3, <1>4
<1>6. Leading({Space}, head) = 0
  <2>1. 0 \in 0..Len(head) /\ (0 < Len(head) => head[0 + 1] \notin {Space})
    BY <1>4, <1>5 DEF Space
  <2> QED BY <1>4, <2>1, LeadingAt
<1>7. Drop(Leading({Space}, head), head) = head
  <2>1. SubSeq(head, 1, Len(head)) = head
    BY <1>4
  <2>2. Drop(0, head) = SubSeq(head, 1, Len(head))
    BY DEF Drop
  <2> QED BY <1>6, <2>1, <2>2
<1>8. strtol(head) = Unsigned(head)
  BY <1>5, <1>7 DEF strtol, Minus
<1>9. ASSUME NEW chars, \A j \in 1..D : head[j] \in chars, Space \notin chars
      PROVE  Leading(chars, head) = D
  <2>1. D \in 0..Len(head) /\ (D < Len(head) => head[D + 1] \notin chars)
    BY <1>2, <1>3, <1>4, <1>9
  <2> QED BY <1>4, <1>9, <2>1, LeadingAt
<1>10. strtol(head) = n
  <2>1. CASE head[1] = 0
    <3>1. D = 1 /\ n = 0 /\ most \in {1, 2}
      BY <1>1, <1>2, <1>3, <1>5, <2>1
    <3>2. Value(8, head) = 0
      <4>1. Leading(0..(8 - 1), head) = 1
        <5>1. (\A j \in 1..D : head[j] \in 0..(8 - 1)) /\ Space \notin 0..(8 - 1)
          BY <2>1, <3>1 DEF Space
        <5> QED BY <1>9, <3>1, <5>1
      <4> QED BY <1>4, <2>1, <4>1, ValueIs
    <3>3. Unsigned(head) = Value(8, head)
      BY <1>4, <2>1, <3>1 DEF Unsigned
    <3> QED BY <1>8, <3>1, <3>2, <3>3
  <2>2. CASE head[1] # 0
    <3>1. Unsigned(head) = Value(10, head)
      BY <2>2 DEF Unsigned
    <3>2. Leading(0..(10 - 1), head) = D
      <4>1. (\A j \in 1..D : head[j] \in 0..(10 - 1)) /\ Space \notin 0..(10 - 1)
        BY <1>2, <1>4 DEF Space
      <4> QED BY <1>9, <4>1
    <3>3. Leading(0..(10 - 1), digits) = D
      <4>1. D \in 0..Len(digits) /\ \A j \in 1..D : digits[j] \in 0..(10 - 1)
        BY <1>2
      <4> HIDE DEF digits
      <4> QED BY <1>1, <1>2, <4>1, LeadingAt
    <3>4. SubSeq(head, 1, D) = SubSeq(digits, 1, D)
      <4>1. /\ Len(SubSeq(head, 1, D)) = D /\ Len(SubSeq(digits, 1, D)) = D
            /\ SubSeq(head, 1, D) \in Seq(Char) /\ SubSeq(digits, 1, D) \in Seq(0..9)
        <5> HIDE DEF digits
        <5> QED BY <1>1, <1>2, <1>4, <1>5
      <4>2. \A j \in 1..D : SubSeq(head, 1, D)[j] = SubSeq(digits, 1, D)[j]
        <5> HIDE DEF digits
        <5> QED BY <1>1, <1>2, <1>4, <1>5
      <4> HIDE DEF digits
      <4> QED BY <1>2, <4>1, <4>2
    <3>5. \A t : Value(10, t) = Number(SubSeq(t, 1, Leading(0..(10 - 1), t)))
      BY DEF Value, Number
    <3>6. Value(10, head) = Value(10, digits)
      <4> HIDE DEF digits
      <4> QED BY <3>2, <3>3, <3>4, <3>5
    <3> QED BY <1>1, <1>8, <3>1, <3>6
  <2> QED BY <2>1, <2>2
<1>11. strtol(head) % SizeMod = n
  <2>1. n \in Nat /\ n <= MaxData /\ MaxData \in Nat /\ SizeMod \in Nat /\ SizeMod > 16 * MaxData
    BY SizeAssumption
  <2>2. n < SizeMod
    BY <2>1
  <2> QED BY <1>10, <2>1, <2>2
<1>12. n = 0 => head[1] = 0
  <2> SUFFICES ASSUME head[1] # 0 PROVE n # 0
    OBVIOUS
  <2>1. Leading(0..(10 - 1), head) # 0
    <3>1. (\A j \in 1..D : head[j] \in 0..(10 - 1)) /\ Space \notin 0..(10 - 1)
      BY <1>2, <1>4 DEF Space
    <3> QED BY <1>2, <1>9, <3>1
  <2>2. Value(10, head) # 0
    BY <1>4, <2>1, ValueIs
  <2> QED BY <1>8, <1>10, <2>2 DEF Unsigned
<1> QED BY <1>1, <1>11, <1>12 DEF getSizeFromSizeFile, head, most, text
-----------------------------------------------------------------------------
(* What reading a variable, or a file, comes to.                            *)

Codes == {SUCCESS, INVALID_VAR_NAME, INVALID_FILE, INVALID_TIMESTAMP, ALLOC_FAIL, ESL_FAIL}
AllNames == Names \cup {"file"}

LEMMA FiveVariables ==
  /\ Len(variables) = 5 /\ \A j \in 1..5 : variables[j] \in Names
  /\ \A name \in Names : \E j \in 1..5 : variables[j] = name
  /\ \A j, k \in 1..5 : variables[j] = variables[k] => j = k
  /\ "file" \notin Names
<1>1. /\ variables[1] = "PK" /\ variables[2] = "KEK" /\ variables[3] = "db"
      /\ variables[4] = "dbx" /\ variables[5] = "TS" /\ Len(variables) = 5
      /\ DOMAIN variables = 1..5
  BY DEF variables
<1>2. Names = {variables[j] : j \in 1..5}
  BY <1>1 DEF Names, ToSet
<1> QED BY <1>1, <1>2

(* Bytes are handed on only if they are there.                              *)
LEMMA GotIsThere ==
  ASSUME NEW files \in VarFiles
  PROVE  LET read == getSecVar(files)
         IN  /\ read = [rc |-> read.rc, size |-> read.size]
             /\ read.rc \in {SUCCESS, INVALID_FILE}
             /\ read.rc = SUCCESS => files.data # Missing /\ read.size \in 0..files.data.length
<1> DEFINE stated == getSizeFromSizeFile(files.size)
<1>1. /\ files.size \in {Missing} \cup Seq(Char)
      /\ files.data # Missing => files.data.length \in 0..MaxData
  BY DEF VarFiles, DataFile
<1>2. stated.rc \in {SUCCESS, INVALID_FILE} /\ stated.size \in Nat
  BY <1>1, SizeType
<1>3. stated = [rc |-> stated.rc, size |-> stated.size]
  BY DEF getSizeFromSizeFile
<1> HIDE DEF stated
<1> QED BY <1>1, <1>2, <1>3, SizeAssumption DEF getSecVar, stated, SUCCESS, INVALID_FILE

LEMMA SoundIsRead ==
  ASSUME NEW name \in Names, dir \in Directories, NEW n, Sound(name, n), n = Meant(name)
  PROVE  getSecVar(dir[name]) = [rc |-> SUCCESS, size |-> n]
<1> DEFINE files == dir[name]
<1>1. files \in VarFiles
  BY FilesAssumption
<1>2. files.data # Missing /\ files.data.length \in 0..MaxData /\ n <= files.data.length
  BY <1>1, FiveVariables DEF Sound, DataOf, VarFiles, DataFile
<1>3. Stated(files, n)
  BY FiveVariables DEF Sound
<1>4. n \in 0..MaxData
  <2>1. Front(files.size) \in Seq(Char) /\ Value(10, Front(files.size)) = n
    <3>1. Front(files.size) \in Seq(0..9) /\ Value(10, Front(files.size)) = n
      BY <1>3 DEF Stated
    <3>2. \A t \in Seq(0..9) : t \in Seq(Char)
      BY DEF Char
    <3> QED BY <3>1, <3>2
  <2>2. n \in Nat
    BY <2>1, ValueIs
  <2> QED BY <1>2, <2>2, SizeAssumption
<1>5. getSizeFromSizeFile(files.size) = [rc |-> SUCCESS, size |-> n]
  BY <1>1, <1>3, <1>4, StatedIsRead
<1>6. ~(files.data.length < n)
  BY <1>2, <1>4, SizeAssumption
<1> HIDE DEF files
<1>7. getSecVar(files) = [rc |-> SUCCESS, size |-> n]
  BY <1>2, <1>5, <1>6 DEF getSecVar
<1> QED BY <1>7 DEF files

-----------------------------------------------------------------------------
(***************************************************************************)
(* The invariant: what has been counted is what has been shown; no more is *)
(* handed on than there is; the files that the loop is past have each had  *)
(* their turn; and printReadable stands right behind the last list it has  *)
(* printed.                                                                *)
(***************************************************************************)

CountInv ==
  /\ dir \in Directories /\ inFile \in InFiles \cup {None}
  /\ pc \in {"readFiles", "printReadable", "out"} /\ i \in 1..6 /\ rc \in Codes
  /\ successCount \in Nat /\ successCount < i
  /\ successCount = 0 <=> shown = {}
  /\ pc = "out" => (rc = SUCCESS <=> shown # {})
  /\ pc = "out" /\ var \in Names \cup {None} => i = 6
  /\ lost \subseteq AllNames

BoundInv ==
  /\ \A s \in shown : Within(s[1], s[2])
  /\ \A p \in printed : Within(p[1], p[3]) /\ p[3] >= ListHeader

PrintInv ==
  pc = "printReadable" =>
    /\ IF inFile = None THEN i \in 1..5 ELSE i = 1
    /\ hrFlag /\ Subject # "TS" /\ (Subject # "file" => given # 0)
    /\ Within(Subject, given) /\ eslvarsize \in 0..given /\ nth \in Nat \ {0}
    /\ found \/ (nth = 1 /\ eslvarsize = given)
    /\ Sound(Subject, Meant(Subject)) => given = Meant(Subject)

Past(name) == IF inFile # None THEN i = 6 ELSE \E j \in 1..5 : variables[j] = name /\ j < i

TurnInv ==
  \A name \in AllNames \ lost :
    Past(name) /\ Asked(name) /\ Sound(name, Meant(name)) => <<name, Meant(name)>> \in shown

(* The list behind p is the one whose turn it is.                           *)
Behind(p) ==
  /\ p[1] = Subject /\ nth = p[2] + 1
  /\ eslvarsize = p[3] - DataOf(p[1]).lists[p[2]].list

ListInv ==
  \A p \in printed : p[1] \notin lost =>
    Followed(p) \/ (pc = "printReadable" /\ Behind(p))

RInv == CountInv /\ BoundInv /\ PrintInv /\ TurnInv /\ ListInv

LEMMA RInvInit == Init => RInv
<1> SUFFICES ASSUME Init PROVE RInv
  OBVIOUS
<1>1. CountInv /\ BoundInv /\ PrintInv /\ ListInv
  BY DEF Init, CountInv, BoundInv, PrintInv, ListInv, Codes, SUCCESS, INVALID_VAR_NAME
<1>2. TurnInv
  BY DEF Init, TurnInv, Past
<1> QED BY <1>1, <1>2 DEF RInv

(* Nothing that is said of the files changes.                               *)
LEMMA SameFiles ==
  ASSUME UNCHANGED args
  PROVE  /\ UNCHANGED <<var, inFile, hrFlag, dir>>
         /\ \A name : Asked(name)' <=> Asked(name)
         /\ \A name : Meant(name)' = Meant(name)
         /\ \A name : DataOf(name)' = DataOf(name)
         /\ \A name, n : Within(name, n)' <=> Within(name, n)
         /\ \A name, k, n : Whole(name, k, n)' <=> Whole(name, k, n)
         /\ \A name, n : Sound(name, n)' <=> Sound(name, n)
<1>1. UNCHANGED <<var, inFile, hrFlag, dir>>
  BY DEF args
<1>2. \A name : DataOf(name)' = DataOf(name)
  BY <1>1 DEF DataOf
<1>3. \A name, k, n : Whole(name, k, n)' <=> Whole(name, k, n)
  BY <1>2 DEF Whole
<1>4. \A name, n : Sound(name, n)' <=> Sound(name, n)
  BY <1>1, <1>2, <1>3 DEF Sound
<1>5. \A name, n : Within(name, n)' <=> Within(name, n)
  BY <1>2 DEF Within
<1> QED BY <1>1, <1>2, <1>3, <1>4, <1>5 DEF Asked, Meant

(* A list that has been followed stays so.                                  *)
LEMMA StaysFollowed ==
  ASSUME UNCHANGED args, printed \subseteq printed', NEW p, Followed(p)
  PROVE  Followed(p)'
<1>1. /\ \A name : DataOf(name)' = DataOf(name)
      /\ \A name, k, n : Whole(name, k, n)' <=> Whole(name, k, n)
  BY SameFiles
<1> QED BY <1>1 DEF Followed

-----------------------------------------------------------------------------
(* A result is counted.                                                     *)

Due == IF inFile = None THEN i \in 1..5 ELSE i = 1

LEMMA SubjectIsNamed ==
  ASSUME CountInv, Due
  PROVE  /\ Subject \in AllNames
         /\ inFile = None => Subject \in Names /\ Subject # "file" /\ DataOf(Subject) = dir[Subject].data
         /\ inFile # None => Subject = "file" /\ DataOf(Subject) = inFile
         /\ DataOf(Subject) \in {Missing} \cup DataFile
<1>1. CASE inFile = None
  <2>1. Subject = variables[i] /\ variables[i] \in Names
    BY <1>1, FiveVariables DEF Due, Subject
  <2>2. dir[Subject] \in VarFiles
    BY <2>1, FilesAssumption DEF CountInv
  <2> QED BY <1>1, <2>1, <2>2, FiveVariables DEF AllNames, DataOf, VarFiles
<1>2. CASE inFile # None
  BY <1>2, FilesAssumption DEF AllNames, DataOf, Subject, CountInv
<1> QED BY <1>1, <1>2

LEMMA CountedKeeps ==
  ASSUME RInv, Due, pc # "out", NEW read, read.rc \in Codes,
         read.rc = SUCCESS => Within(Subject, read.size),
         Counted(read), UNCHANGED <<args, printed>>,
         lost' = lost \/ lost' = lost \cup {Subject},
         Sound(Subject, Meant(Subject)) /\ Subject \notin lost'
           => read.rc = SUCCESS /\ read.size = Meant(Subject),
         pc = "printReadable" => \A p \in printed : Behind(p) /\ p[1] \notin lost' => Followed(p)
  PROVE  RInv'
<1>1. /\ UNCHANGED <<var, inFile, hrFlag, dir>>
      /\ \A name : Asked(name)' <=> Asked(name)
      /\ \A name : Meant(name)' = Meant(name)
      /\ \A name, n : Within(name, n)' <=> Within(name, n)
      /\ \A name, n : Sound(name, n)' <=> Sound(name, n)
  BY SameFiles
<1>2. /\ pc' = "readFiles" /\ rc' = read.rc /\ printed' = printed
      /\ i' = IF inFile = None THEN i + 1 ELSE 6
      /\ read.rc = SUCCESS => /\ successCount' = successCount + 1
                              /\ shown' = shown \cup {<<Subject, read.size>>}
      /\ read.rc # SUCCESS => successCount' = successCount /\ shown' = shown
  BY FiveVariables DEF Counted
<1>3. Subject \in AllNames
  BY SubjectIsNamed DEF RInv
<1>4. CountInv'
  <2>1. lost' \subseteq AllNames
    BY <1>3 DEF RInv, CountInv
  <2>2. i' \in 1..6 /\ i < i'
    BY <1>2 DEF Due
  <2>3. successCount' \in Nat /\ successCount' < i' /\ (successCount' = 0 <=> shown' = {})
    <3>1. /\ successCount \in Nat /\ successCount < i /\ i \in Nat /\ i' \in Nat
          /\ successCount = 0 <=> shown = {}
      BY <2>2 DEF RInv, CountInv
    <3>2. CASE read.rc = SUCCESS
      <4>1. <<Subject, read.size>> \in shown'
        BY <1>2, <3>2
      <4>2. successCount' = successCount + 1 /\ successCount + 1 < i'
        BY <1>2, <2>2, <3>1, <3>2 DEF Due
      <4> QED BY <3>1, <4>1, <4>2
    <3>3. CASE read.rc # SUCCESS
      BY <1>2, <2>2, <3>1, <3>3
    <3> QED BY <3>2, <3>3
  <2> QED BY <1>1, <1>2, <2>1, <2>2, <2>3 DEF RInv, CountInv
<1>5. BoundInv'
  <2>1. \A s \in shown' : s \in shown \/ (read.rc = SUCCESS /\ s[1] = Subject /\ s[2] = read.size)
    BY <1>2
  <2> QED BY <1>1, <1>2, <2>1 DEF RInv, BoundInv
<1>6. PrintInv'
  BY <1>2 DEF PrintInv
<1>7. TurnInv'
  <2> SUFFICES ASSUME NEW name \in AllNames, name \notin lost', Past(name)',
                      Asked(name), Sound(name, Meant(name))
               PROVE  <<name, Meant(name)>> \in shown'
    BY <1>1 DEF TurnInv
  <2>1. Past(name) \/ name = Subject
    <3>1. CASE inFile = None
      <4>1. PICK j \in 1..5 : variables[j] = name /\ j < i'
        BY <1>1, <3>1 DEF Past
      <4>2. j < i \/ j = i
        BY <1>2, <3>1, <4>1 DEF Due
      <4> QED BY <3>1, <4>1, <4>2 DEF Past, Subject
    <3>2. CASE inFile # None
      BY <3>2 DEF Asked, Subject
    <3> QED BY <3>1, <3>2
  <2>2. CASE name = Subject
    BY <1>2, <2>2
  <2>3. CASE Past(name) /\ name # Subject
    <3>1. name \notin lost /\ shown \subseteq shown'
      BY <1>2
    <3> QED BY <2>3, <3>1 DEF RInv, TurnInv
  <2> QED BY <2>1, <2>2, <2>3
<1>8. ListInv'
  <2> SUFFICES ASSUME NEW p \in printed, p[1] \notin lost' PROVE Followed(p)'
    BY <1>2 DEF ListInv
  <2>1. Followed(p)
    BY DEF RInv, ListInv
  <2>2. UNCHANGED args /\ printed \subseteq printed'
    BY <1>2
  <2> QED BY <2>1, <2>2, StaysFollowed
<1> QED BY <1>4, <1>5, <1>6, <1>7, <1>8 DEF RInv

-----------------------------------------------------------------------------
(* printReadable.                                                          *)

(* A list that is whole is printed.                                         *)
LEMMA WholeIsPrinted ==
  ASSUME DataOf(Subject) \in DataFile, eslvarsize \in Nat, Whole(Subject, nth, eslvarsize)
  PROVE  Sized(Here, eslvarsize) /\ Parses(Here, eslvarsize) = {TRUE}
<1> DEFINE h == DataOf(Subject).lists[nth]
<1>1. Here = h /\ h \in Header
  <2>1. nth \in DOMAIN DataOf(Subject).lists /\ DataOf(Subject).lists \in Seq(Header)
    BY DEF Whole, DataFile
  <2> QED BY <2>1 DEF Here
<1>2. /\ h.list \in Nat /\ h.hdr \in Nat /\ h.sig \in Nat /\ h.cert \in BOOLEAN
      /\ ListHeader \in Nat \ {0} /\ Guid \in Nat
  BY <1>1, SizeAssumption DEF Header
<1>3. /\ ListHeader + h.hdr + h.sig <= h.list /\ h.list <= eslvarsize /\ h.sig > Guid
      /\ Subject = "dbx" \/ h.cert
  BY DEF Whole
<1> HIDE DEF h
<1>4. Sized(h, eslvarsize)
  BY <1>2, <1>3 DEF Sized, Logical
<1>5. ~(ListHeader + h.hdr + h.sig > eslvarsize)
  BY <1>2, <1>3
<1>6. Parses(h, eslvarsize) = {TRUE}
  <2>1. CASE Subject = "dbx"
    BY <2>1 DEF Parses
  <2>2. CASE Subject # "dbx"
    <3>1. h.cert = TRUE
      BY <1>2, <1>3, <2>2
    <3> QED BY <1>5, <2>2, <3>1 DEF Parses
  <2> QED BY <2>1, <2>2
<1> QED BY <1>1, <1>4, <1>6

(* So the loop does not end in front of one.                                *)
LEMMA PrintingFacts ==
  ASSUME RInv, pc = "printReadable"
  PROVE  /\ Due /\ hrFlag /\ Subject # "TS" /\ Subject \in AllNames
         /\ DataOf(Subject) \in DataFile /\ DataOf(Subject).length \in Nat
         /\ given \in 0..DataOf(Subject).length /\ eslvarsize \in 0..given /\ nth \in Nat \ {0}
<1>1. Due /\ hrFlag /\ Subject # "TS" /\ Within(Subject, given)
      /\ eslvarsize \in 0..given /\ nth \in Nat \ {0}
  BY DEF RInv, PrintInv, Due
<1>2. Subject \in AllNames /\ DataOf(Subject) \in {Missing} \cup DataFile
  BY <1>1, SubjectIsNamed DEF RInv
<1>3. DataOf(Subject) \in DataFile /\ given \in 0..DataOf(Subject).length
  BY <1>1, <1>2 DEF Within
<1> QED BY <1>1, <1>2, <1>3, SizeAssumption DEF DataFile

LEMMA ReturnKeeps ==
  ASSUME RInv, pc = "printReadable", Return, UNCHANGED <<args, printed>>,
         \/ lost' = lost /\ ~Whole(Subject, nth, eslvarsize)
         \/ lost' = lost \cup {Subject}
  PROVE  RInv'
<1> DEFINE read == [rc |-> IF found THEN SUCCESS ELSE ESL_FAIL, size |-> given]
<1>1. /\ Due /\ hrFlag /\ Subject # "TS" /\ Subject \in AllNames /\ Within(Subject, given)
      /\ found \/ (nth = 1 /\ eslvarsize = given)
      /\ Sound(Subject, Meant(Subject)) => given = Meant(Subject)
      /\ Subject # "file" => given # 0
  BY PrintingFacts DEF RInv, PrintInv
<1>2. Counted(read) /\ read.size = given /\ read.rc \in Codes /\ (found => read.rc = SUCCESS)
  BY DEF Return, Codes
<1>3. Sound(Subject, Meant(Subject)) /\ Subject \notin lost'
        => read.rc = SUCCESS /\ read.size = Meant(Subject)
  <2> SUFFICES ASSUME Sound(Subject, Meant(Subject)), Subject \notin lost' PROVE found
    BY <1>1, <1>2
  <2>1. Sound(Subject, given) /\ ~Whole(Subject, nth, eslvarsize)
    BY <1>1
  <2>2. Whole(Subject, 1, given)
    BY <1>1, <2>1 DEF Sound
  <2> QED BY <1>1, <2>1, <2>2
<1>4. \A p \in printed : Behind(p) /\ p[1] \notin lost' => Followed(p)
  <2> SUFFICES ASSUME NEW p \in printed, Behind(p), p[1] \notin lost' PROVE Followed(p)
    OBVIOUS
  <2>1. p[1] = Subject /\ ~Whole(Subject, nth, eslvarsize)
    BY DEF Behind
  <2> QED BY <2>1 DEF Behind, Followed
<1>5. pc # "out" /\ UNCHANGED <<args, printed>> /\ (lost' = lost \/ lost' = lost \cup {Subject})
      /\ (read.rc = SUCCESS => Within(Subject, read.size))
  BY <1>1, <1>2
<1> HIDE DEF read
<1> QED BY <1>1, <1>2, <1>3, <1>4, <1>5, CountedKeeps

(* One more list is printed.                                                *)
LEMMA PrintESLKeeps == ASSUME RInv, PrintESL PROVE RInv'
<1>1. /\ pc = "printReadable" /\ pc' = pc /\ Sized(Here, eslvarsize)
      /\ printed' = printed \cup {<<Subject, nth, eslvarsize>>}
      /\ eslvarsize' = eslvarsize - Here.list /\ nth' = IF Here.list = 0 THEN nth ELSE nth + 1
      /\ found' = TRUE /\ UNCHANGED args /\ UNCHANGED <<i, rc, successCount, given, shown, lost>>
  BY DEF PrintESL
<1>2. /\ UNCHANGED <<var, inFile, hrFlag, dir>> /\ Subject' = Subject
      /\ \A name : DataOf(name)' = DataOf(name)
      /\ \A name : Asked(name)' <=> Asked(name)
      /\ \A name : Meant(name)' = Meant(name)
      /\ \A name, n : Within(name, n)' <=> Within(name, n)
      /\ \A name, n : Sound(name, n)' <=> Sound(name, n)
  BY <1>1, SameFiles DEF Subject
<1>3. /\ DataOf(Subject) \in DataFile /\ DataOf(Subject).length \in Nat
      /\ given \in 0..DataOf(Subject).length /\ eslvarsize \in 0..given /\ nth \in Nat \ {0}
  BY <1>1, PrintingFacts
<1>4. /\ Here = DataOf(Subject).lists[nth] /\ nth \in DOMAIN DataOf(Subject).lists
      /\ Here.list \in Nat /\ Here.list <= eslvarsize /\ eslvarsize >= ListHeader
  <2>1. nth \in DOMAIN DataOf(Subject).lists
    <3> SUFFICES ASSUME nth \notin DOMAIN DataOf(Subject).lists PROVE FALSE
      OBVIOUS
    <3>1. Here = Nothing
      BY DEF Here
    <3> QED BY <1>1, <3>1, SizeAssumption DEF Sized, Nothing
  <2>2. Here = DataOf(Subject).lists[nth]
    BY <2>1 DEF Here
  <2>3. Here \in Header
    BY <1>3, <2>1, <2>2 DEF DataFile
  <2> QED BY <1>1, <2>1, <2>2, <2>3 DEF Header, Sized
<1>5. CountInv'
  BY <1>1, <1>2 DEF RInv, CountInv
<1>6. BoundInv'
  <2>1. Within(Subject, eslvarsize) /\ eslvarsize >= ListHeader
    <3>1. Within(Subject, given)
      BY <1>1 DEF RInv, PrintInv
    <3> QED BY <1>3, <1>4, <3>1 DEF Within
  <2>2. \A p \in printed' : p \in printed \/ (p[1] = Subject /\ p[3] = eslvarsize)
    BY <1>1
  <2> QED BY <1>1, <1>2, <2>1, <2>2 DEF RInv, BoundInv
<1>7. PrintInv'
  <2>1. eslvarsize' \in 0..given /\ nth' \in Nat \ {0}
    BY <1>1, <1>3, <1>4
  <2> QED BY <1>1, <1>2, <2>1 DEF RInv, PrintInv
<1>8. TurnInv'
  BY <1>1, <1>2 DEF RInv, TurnInv, Past
<1>9. ListInv'
  <2> SUFFICES ASSUME NEW p \in printed', p[1] \notin lost
               PROVE  Followed(p)' \/ Behind(p)'
    BY <1>1 DEF ListInv
  <2>1. CASE p \in printed /\ Followed(p)
    BY <1>1, <2>1, StaysFollowed
  <2>2. CASE p \in printed /\ Behind(p)
    <3>1. <<p[1], p[2] + 1, p[3] - DataOf(p[1]).lists[p[2]].list>> \in printed'
      BY <1>1, <2>2 DEF Behind
    <3> QED BY <1>2, <3>1 DEF Followed
  <2>3. CASE p = <<Subject, nth, eslvarsize>>
    <3>1. CASE Here.list = 0
      <4>1. ~(DataOf(p[1]).lists[p[2]].list > 0)
        BY <1>4, <2>3, <3>1
      <4>2. ~(DataOf(p[1])'.lists[p[2]].list > 0)
        BY <1>2, <4>1
      <4> QED BY <4>2 DEF Followed
    <3>2. CASE Here.list # 0
      <4>1. /\ p[1] = Subject /\ nth' = p[2] + 1
            /\ eslvarsize' = p[3] - DataOf(p[1]).lists[p[2]].list
        BY <1>1, <1>4, <2>3, <3>2
      <4> QED BY <1>2, <4>1 DEF Behind
    <3> QED BY <3>1, <3>2
  <2>4. (p \in printed /\ (Followed(p) \/ Behind(p))) \/ p = <<Subject, nth, eslvarsize>>
    BY <1>1 DEF RInv, ListInv
  <2> QED BY <2>1, <2>2, <2>3, <2>4
<1> QED BY <1>5, <1>6, <1>7, <1>8, <1>9 DEF RInv

(* printReadable is called, with what was read.                             *)
LEMMA CallKeeps ==
  ASSUME RInv, Due, pc = "readFiles", hrFlag, Subject # "TS", NEW n,
         Within(Subject, n), Subject # "file" => n # 0,
         Sound(Subject, Meant(Subject)) => n = Meant(Subject),
         printReadable(n), UNCHANGED <<args, printed, lost>>
  PROVE  RInv'
<1>1. /\ UNCHANGED <<var, inFile, hrFlag, dir>> /\ Subject' = Subject
      /\ pc' = "printReadable" /\ given' = n /\ eslvarsize' = n /\ nth' = 1
      /\ UNCHANGED <<i, rc, successCount, shown, printed, lost>>
      /\ \A name : Asked(name)' <=> Asked(name)
      /\ \A name : Meant(name)' = Meant(name)
      /\ \A name, m : Within(name, m)' <=> Within(name, m)
      /\ \A name, m : Sound(name, m)' <=> Sound(name, m)
  BY SameFiles DEF printReadable, Subject
<1>2. CountInv'
  BY <1>1 DEF RInv, CountInv
<1>3. BoundInv'
  BY <1>1 DEF RInv, BoundInv
<1>4. PrintInv'
  <2>1. n \in 0..n
    <3>1. DataOf(Subject) \in DataFile /\ n \in 0..DataOf(Subject).length
      BY SubjectIsNamed DEF RInv, Within
    <3>2. DataOf(Subject).length \in Nat
      BY <3>1, SizeAssumption DEF DataFile
    <3> QED BY <3>1, <3>2
  <2> QED BY <1>1, <2>1 DEF PrintInv, Due
<1>5. TurnInv'
  BY <1>1 DEF RInv, TurnInv, Past
<1>6. ListInv'
  <2> SUFFICES ASSUME NEW p \in printed, p[1] \notin lost PROVE Followed(p)'
    BY <1>1 DEF ListInv
  <2>1. Followed(p)
    BY DEF RInv, ListInv
  <2>2. UNCHANGED args /\ printed \subseteq printed'
    OBVIOUS
  <2> QED BY <2>1, <2>2, StaysFollowed
<1> QED BY <1>2, <1>3, <1>4, <1>5, <1>6 DEF RInv

LEMMA RInvStep == RInv /\ [Next]_vars => RInv'
<1> SUFFICES ASSUME RInv, [Next]_vars PROVE RInv'
  OBVIOUS
<1>1. CASE Skip
  <2>1. /\ pc = "readFiles" /\ pc' = pc /\ inFile = None /\ i <= 5 /\ i' = i + 1
        /\ ~Asked(variables[i]) /\ UNCHANGED <<args, rc, successCount, loop, printed, shown, lost>>
    BY <1>1, FiveVariables DEF Skip, Asked
  <2>2. /\ UNCHANGED <<var, inFile, hrFlag, dir>>
        /\ \A name : Asked(name)' <=> Asked(name)
        /\ \A name : Meant(name)' = Meant(name)
        /\ \A name, n : Within(name, n)' <=> Within(name, n)
        /\ \A name, n : Sound(name, n)' <=> Sound(name, n)
    BY <2>1, SameFiles
  <2>3. CountInv' /\ BoundInv' /\ PrintInv'
    BY <2>1, <2>2 DEF RInv, CountInv, BoundInv, PrintInv
  <2>4. TurnInv'
    <3>1. \A name : Past(name)' => Past(name) \/ name = variables[i]
      BY <2>1, <2>2 DEF Past, RInv, CountInv
    <3> QED BY <2>1, <2>2, <3>1 DEF RInv, TurnInv
  <2>5. ListInv'
    <3> SUFFICES ASSUME NEW p \in printed, p[1] \notin lost PROVE Followed(p)'
      BY <2>1 DEF ListInv
    <3>1. Followed(p)
      BY <2>1 DEF RInv, ListInv
    <3>2. UNCHANGED args /\ printed \subseteq printed'
      BY <2>1
    <3> QED BY <3>1, <3>2, StaysFollowed
  <2> QED BY <2>3, <2>4, <2>5 DEF RInv
<1>2. CASE ReadVariable
  <2> DEFINE read == getSecVar(dir[Subject])
             stamp == [read EXCEPT !.rc = readTS(read.size)]
  <2>1. /\ pc = "readFiles" /\ Due /\ inFile = None /\ UNCHANGED <<args, printed, lost>>
    BY <1>2, FiveVariables DEF ReadVariable, Turn, Due, RInv, CountInv
  <2>2. /\ Subject \in Names /\ Subject # "file" /\ DataOf(Subject) = dir[Subject].data
        /\ dir \in Directories /\ dir[Subject] \in VarFiles
    BY <2>1, SubjectIsNamed, FilesAssumption DEF RInv, CountInv
  <2>3. /\ read = [rc |-> read.rc, size |-> read.size]
        /\ read.rc \in {SUCCESS, INVALID_FILE}
        /\ read.rc = SUCCESS => Within(Subject, read.size)
    BY <2>2, GotIsThere DEF Within
  <2>4. Sound(Subject, Meant(Subject)) => read.rc = SUCCESS /\ read.size = Meant(Subject)
    <3>1. Sound(Subject, Meant(Subject)) => read = [rc |-> SUCCESS, size |-> Meant(Subject)]
      BY <2>2, SoundIsRead
    <3> HIDE DEF read
    <3> QED BY <3>1
  <2>5. IF read.rc # SUCCESS \/ ~hrFlag \/ read.size = 0 THEN Counted(read)
        ELSE IF Subject = "TS" THEN Counted(stamp) ELSE printReadable(read.size)
    BY <1>2 DEF ReadVariable
  <2> HIDE DEF read
  <2>6. stamp.rc = readTS(read.size) /\ stamp.size = read.size
    BY <2>3
  <2> HIDE DEF stamp
  <2>7. CASE Counted(read)
    <3>1. read.rc \in Codes /\ pc # "out" /\ pc # "printReadable"
      BY <2>1, <2>3 DEF Codes
    <3> QED BY <2>1, <2>3, <2>4, <2>7, <3>1, CountedKeeps
  <2>8. CASE Subject = "TS" /\ Counted(stamp) /\ read.rc = SUCCESS /\ hrFlag /\ read.size # 0
    <3>1. stamp.rc \in Codes /\ pc # "out" /\ pc # "printReadable"
      BY <2>1, <2>6 DEF readTS, Codes
    <3>2. Sound(Subject, Meant(Subject)) => stamp.rc = SUCCESS /\ stamp.size = Meant(Subject)
      BY <2>4, <2>6, <2>8 DEF Sound, readTS
    <3>3. stamp.rc = SUCCESS => Within(Subject, stamp.size)
      BY <2>3, <2>6, <2>8
    <3> QED BY <2>1, <2>8, <3>1, <3>2, <3>3, CountedKeeps
  <2>9. CASE /\ Subject # "TS" /\ printReadable(read.size)
             /\ read.rc = SUCCESS /\ hrFlag /\ read.size # 0
    BY <2>1, <2>3, <2>4, <2>9, CallKeeps
  <2> QED BY <2>5, <2>7, <2>8, <2>9
<1>3. CASE ReadFile
  <2> DEFINE read == getDataFromFile(inFile)
  <2>1. /\ pc = "readFiles" /\ Due /\ inFile # None /\ UNCHANGED <<args, printed, lost>>
        /\ IF read.rc # SUCCESS \/ ~hrFlag THEN Counted(read) ELSE printReadable(read.size)
    BY <1>3 DEF ReadFile, Turn, Due
  <2>2. /\ Subject = "file" /\ DataOf(Subject) = inFile /\ inFile \in {Missing} \cup DataFile
        /\ Subject # "TS" /\ pc # "out" /\ pc # "printReadable"
    BY <2>1, SubjectIsNamed DEF RInv
  <2>3. /\ read.rc \in Codes
        /\ read.rc = SUCCESS => Within(Subject, read.size)
        /\ Sound(Subject, Meant(Subject)) => read.rc = SUCCESS /\ read.size = Meant(Subject)
    <3>1. CASE inFile = Missing
      BY <2>2, <3>1 DEF getDataFromFile, Sound, Codes, SUCCESS, INVALID_FILE
    <3>2. CASE inFile # Missing
      <4>1. read.rc = SUCCESS /\ read.size = inFile.length /\ Meant(Subject) = inFile.length
        BY <2>2, <3>2 DEF getDataFromFile, Meant
      <4>2. inFile.length \in 0..inFile.length
        BY <2>2, <3>2, SizeAssumption DEF DataFile
      <4> HIDE DEF read
      <4> QED BY <2>2, <3>2, <4>1, <4>2 DEF Within, Codes
    <3> QED BY <3>1, <3>2
  <2> HIDE DEF read
  <2>4. CASE Counted(read)
    BY <2>1, <2>2, <2>3, <2>4, CountedKeeps
  <2>5. CASE read.rc = SUCCESS /\ hrFlag /\ printReadable(read.size)
    BY <2>1, <2>2, <2>3, <2>5, CallKeeps
  <2> QED BY <2>1, <2>4, <2>5
<1>4. CASE NoMem
  <2>1. /\ pc = "readFiles" /\ Due /\ UNCHANGED <<args, printed>> /\ lost' = lost \cup {Subject}
    BY <1>4, FiveVariables DEF NoMem, Turn, Due, RInv, CountInv
  <2>2. PICK code \in {ALLOC_FAIL, INVALID_FILE} : Counted([rc |-> code, size |-> 0])
    BY <1>4 DEF NoMem
  <2> DEFINE read == [rc |-> code, size |-> 0]
  <2>3. read.rc \in Codes /\ read.rc # SUCCESS /\ Counted(read) /\ Subject \in lost'
        /\ pc # "out" /\ pc # "printReadable"
    BY <2>1, <2>2 DEF Codes, SUCCESS, ALLOC_FAIL, INVALID_FILE
  <2> HIDE DEF read
  <2> QED BY <2>1, <2>3, CountedKeeps
<1>5. CASE PrintESL
  BY <1>5, PrintESLKeeps
<1>6. CASE EndOfESLs
  <2>1. /\ pc = "printReadable" /\ Return /\ UNCHANGED <<args, printed>> /\ lost' = lost
        /\ Sized(Here, eslvarsize) => FALSE \in Parses(Here, eslvarsize)
    BY <1>6 DEF EndOfESLs
  <2>2. ~Whole(Subject, nth, eslvarsize)
    <3>1. DataOf(Subject) \in DataFile /\ eslvarsize \in Nat
      BY <2>1, PrintingFacts
    <3> QED BY <2>1, <3>1, WholeIsPrinted
  <2> QED BY <2>1, <2>2, ReturnKeeps
<1>7. CASE PrintNoMem
  <2>1. /\ pc = "printReadable" /\ Return /\ UNCHANGED <<args, printed>>
        /\ lost' = lost \cup {Subject}
    BY <1>7 DEF PrintNoMem
  <2> QED BY <2>1, ReturnKeeps
<1>8. CASE Finish
  <2>1. /\ pc = "readFiles" /\ pc' = "out" /\ i > 5 /\ i' = i
        /\ UNCHANGED <<args, successCount, loop, printed, shown, lost>>
        /\ rc' = IF successCount < 1 THEN INVALID_FILE ELSE SUCCESS
    BY <1>8, FiveVariables DEF Finish
  <2>2. /\ UNCHANGED <<var, inFile, hrFlag, dir>>
        /\ \A name : Asked(name)' <=> Asked(name)
        /\ \A name : Meant(name)' = Meant(name)
        /\ \A name, n : Within(name, n)' <=> Within(name, n)
        /\ \A name, n : Sound(name, n)' <=> Sound(name, n)
    BY <2>1, SameFiles
  <2>3. CountInv' /\ BoundInv' /\ PrintInv'
    BY <2>1, <2>2 DEF RInv, CountInv, BoundInv, PrintInv, Codes, SUCCESS, INVALID_FILE
  <2>4. TurnInv'
    BY <2>1, <2>2 DEF RInv, TurnInv, Past
  <2>5. ListInv'
    <3> SUFFICES ASSUME NEW p \in printed, p[1] \notin lost PROVE Followed(p)'
      BY <2>1 DEF ListInv
    <3>1. Followed(p)
      BY <2>1 DEF RInv, ListInv
    <3>2. UNCHANGED args /\ printed \subseteq printed'
      BY <2>1
    <3> QED BY <3>1, <3>2, StaysFollowed
  <2> QED BY <2>3, <2>4, <2>5 DEF RInv
<1>9. CASE UNCHANGED vars
  <2>1. UNCHANGED <<args, pc, i, rc, successCount, given, eslvarsize, nth, found, printed, shown, lost>>
        /\ UNCHANGED <<var, inFile, hrFlag, dir>>
    BY <1>9 DEF vars, args, loop
  <2>2. /\ Subject' = Subject
        /\ \A name : DataOf(name)' = DataOf(name)
        /\ \A name : Asked(name)' <=> Asked(name)
        /\ \A name : Meant(name)' = Meant(name)
        /\ \A name, n : Within(name, n)' <=> Within(name, n)
        /\ \A name, n : Sound(name, n)' <=> Sound(name, n)
    BY <2>1, SameFiles DEF Subject
  <2>3. CountInv' /\ BoundInv' /\ PrintInv'
    BY <2>1, <2>2 DEF RInv, CountInv, BoundInv, PrintInv
  <2>4. TurnInv'
    BY <2>1, <2>2 DEF RInv, TurnInv, Past
  <2>5. ListInv'
    <3> SUFFICES ASSUME NEW p \in printed, p[1] \notin lost
                 PROVE  Followed(p)' \/ (pc = "printReadable" /\ Behind(p)')
      BY <2>1 DEF ListInv
    <3>1. CASE Followed(p)
      <4>1. UNCHANGED args /\ printed \subseteq printed'
        BY <2>1
      <4> QED BY <3>1, <4>1, StaysFollowed
    <3>2. CASE pc = "printReadable" /\ Behind(p)
      BY <2>1, <2>2, <3>2 DEF Behind
    <3> QED BY <3>1, <3>2 DEF RInv, ListInv
  <2> QED BY <2>3, <2>4, <2>5 DEF RInv
<1> QED BY <1>1, <1>2, <1>3, <1>4, <1>5, <1>6, <1>7, <1>8, <1>9 DEF Next

LEMMA RInvHolds == Spec => []RInv
BY RInvInit, RInvStep, PTL DEF Spec

(* Of no file are more bytes handed on to be printed than that file has,    *)
(* whatever its size file says and strtol makes of it, and a list is        *)
(* printed only if its header is among them (getSecVar, 261-339;            *)
(* printReadable, 357-362).                                                 *)
THEOREM RTypeTheorem == Spec => []TypeOK
<1>1. RInv => TypeOK
  <2> SUFFICES ASSUME RInv PROVE TypeOK
    OBVIOUS
  <2>1. pc = "printReadable" => Within(Subject, given) /\ eslvarsize \in 0..given
    BY DEF RInv, PrintInv
  <2>2. successCount \in 0..5
    BY DEF RInv, CountInv
  <2> QED BY <2>1, <2>2, FiveVariables DEF RInv, CountInv, BoundInv, TypeOK, Codes, AllNames
<1> QED BY <1>1, RInvHolds, PTL

(* SUCCESS is the code of a run that has shown something, and only of it,   *)
(* whichever variable came last (readFiles, 160-163).                       *)
THEOREM ShownTheorem == Spec => []SuccessMeansShown
<1>1. RInv => SuccessMeansShown
  BY DEF RInv, CountInv, SuccessMeansShown
<1> QED BY <1>1, RInvHolds, PTL

(* No broken file of one variable keeps another from being shown, nor a     *)
(* broken list one in front of it, and a size file as the driver writes it  *)
(* is read as that number, however long the data (readFiles, 144-157;       *)
(* getSizeFromSizeFile, 556-602; printReadable, 357-407).                   *)
THEOREM SoundTheorem == Spec => []SoundIsShown
<1>1. RInv => SoundIsShown
  <2> SUFFICES ASSUME RInv, pc = "out", var \in Names \cup {None} PROVE
        /\ \A name \in (Names \cup {"file"}) \ lost :
             Asked(name) /\ Sound(name, Meant(name)) => <<name, Meant(name)>> \in shown
        /\ \A p \in printed : p[1] \notin lost => Followed(p)
    BY DEF SoundIsShown
  <2>1. i = 6
    BY DEF RInv, CountInv
  <2>2. \A name \in AllNames : Asked(name) => Past(name)
    BY <2>1, FiveVariables DEF Asked, Past
  <2> QED BY <2>2 DEF RInv, TurnInv, ListInv, AllNames
<1> QED BY <1>1, RInvHolds, PTL
=============================================================================
