-------------------------- MODULE TimestampsProofs --------------------------
(***************************************************************************)
(* For bytes of any size, any calendar and any times: the packed numbers   *)
(* are ordered as the calendar is, so the timestamps only move forward.    *)
(***************************************************************************)
EXTENDS Timestamps, TLAPS

(* One more low digit refines the order of the high ones.                   *)
LEMMA ShiftOrder ==
  ASSUME NEW a \in Nat, NEW b \in Byte, NEW c \in Nat, NEW d \in Byte
  PROVE  /\ Shift(a, b) \in Nat
         /\ Shift(a, b) < Shift(c, d) <=> a < c \/ (a = c /\ b < d)
         /\ Shift(a, b) = Shift(c, d) <=> a = c /\ b = d
<1> BYTE \in Nat \ {0}
  BY CalendarAssumption
<1>1. \A x, y \in Nat : x < y => x * BYTE + BYTE <= y * BYTE
  <2> SUFFICES ASSUME NEW x \in Nat, NEW y \in Nat, x < y
               PROVE  x * BYTE + BYTE <= y * BYTE
    OBVIOUS
  <2>1. PICK k \in Nat : y = x + 1 + k
    <3>1. y - x - 1 \in Nat
      OBVIOUS
    <3> QED BY <3>1
  <2>2. y * BYTE = x * BYTE + BYTE + k * BYTE
    BY <2>1
  <2>3. k * BYTE >= 0
    OBVIOUS
  <2>4. x * BYTE \in Nat /\ k * BYTE \in Nat
    OBVIOUS
  <2> QED BY <2>2, <2>3, <2>4
<1>2. a * BYTE \in Nat /\ c * BYTE \in Nat
  OBVIOUS
<1>3. b \in Nat /\ d \in Nat /\ b < BYTE /\ d < BYTE
  BY DEF Byte
<1>4. CASE a < c
  BY <1>1, <1>2, <1>3, <1>4 DEF Shift
<1>5. CASE c < a
  BY <1>1, <1>2, <1>3, <1>5 DEF Shift
<1>6. CASE a = c
  BY <1>2, <1>3, <1>6 DEF Shift
<1> QED BY <1>4, <1>5, <1>6

(* The first field that differs, written out.                               *)
LEMMA BeforeFields ==
  ASSUME NEW s \in Time, NEW t \in Time
  PROVE  Before(s, t) <=>
    \/ s.year < t.year
    \/ /\ s.year = t.year
       /\ \/ s.month < t.month
          \/ /\ s.month = t.month
             /\ \/ s.day < t.day
                \/ /\ s.day = t.day
                   /\ \/ s.hour < t.hour
                      \/ /\ s.hour = t.hour
                         /\ \/ s.minute < t.minute
                            \/ /\ s.minute = t.minute
                               /\ \/ s.second < t.second
                                  \/ s.second = t.second /\ s.pad1 < t.pad1
<1>1. DOMAIN Order = 1 .. 7
  BY DEF Order
<1>2. /\ Order[1] = "year" /\ Order[2] = "month" /\ Order[3] = "day"
      /\ Order[4] = "hour" /\ Order[5] = "minute" /\ Order[6] = "second"
      /\ Order[7] = "pad1"
  BY DEF Order
<1> DEFINE Same(i) == \A j \in 1 .. i - 1 : s[Order[j]] = t[Order[j]]
<1>3. /\ Same(1)
      /\ \A i \in 1 .. 6 : Same(i + 1) <=> Same(i) /\ s[Order[i]] = t[Order[i]]
  OBVIOUS
<1>4. Before(s, t) <=> \E i \in 1 .. 7 : s[Order[i]] < t[Order[i]] /\ Same(i)
  BY <1>1 DEF Before
<1> HIDE DEF Same
<1>5. /\ Same(2) <=> s.year = t.year
      /\ Same(3) <=> Same(2) /\ s.month = t.month
      /\ Same(4) <=> Same(3) /\ s.day = t.day
      /\ Same(5) <=> Same(4) /\ s.hour = t.hour
      /\ Same(6) <=> Same(5) /\ s.minute = t.minute
      /\ Same(7) <=> Same(6) /\ s.second = t.second
  BY <1>2, <1>3
<1>6. (\E i \in 1 .. 7 : s[Order[i]] < t[Order[i]] /\ Same(i)) <=>
        \/ s[Order[1]] < t[Order[1]] /\ Same(1)
        \/ s[Order[2]] < t[Order[2]] /\ Same(2)
        \/ s[Order[3]] < t[Order[3]] /\ Same(3)
        \/ s[Order[4]] < t[Order[4]] /\ Same(4)
        \/ s[Order[5]] < t[Order[5]] /\ Same(5)
        \/ s[Order[6]] < t[Order[6]] /\ Same(6)
        \/ s[Order[7]] < t[Order[7]] /\ Same(7)
  <2>1. 1 .. 7 = {1, 2, 3, 4, 5, 6, 7}
    OBVIOUS
  <2> QED BY <2>1, Zenon
<1> QED BY <1>2, <1>3, <1>4, <1>5, <1>6

LEMMA UnpackOrder ==
  ASSUME NEW s \in Time, NEW t \in Time
  PROVE  unpack_timestamp(s) < unpack_timestamp(t) <=> Before(s, t)
<1> DEFINE M(x) == Shift(x.year, x.month)
           D(x) == Shift(M(x), x.day)
           H(x) == Shift(D(x), x.hour)
           N(x) == Shift(H(x), x.minute)
           S(x) == Shift(N(x), x.second)
<1>1. /\ s.year \in Nat /\ t.year \in Nat
      /\ s.month \in Byte /\ t.month \in Byte /\ s.day \in Byte /\ t.day \in Byte
      /\ s.hour \in Byte /\ t.hour \in Byte
      /\ s.minute \in Byte /\ t.minute \in Byte
      /\ s.second \in Byte /\ t.second \in Byte /\ s.pad1 \in Byte /\ t.pad1 \in Byte
  BY CalendarAssumption DEF Time
<1>2. /\ M(s) \in Nat /\ M(t) \in Nat
      /\ M(s) < M(t) <=> s.year < t.year \/ (s.year = t.year /\ s.month < t.month)
      /\ M(s) = M(t) <=> s.year = t.year /\ s.month = t.month
  <2> DEFINE a == s.year  b == s.month  c == t.year  d == t.month
  <2>1. a \in Nat /\ b \in Byte /\ c \in Nat /\ d \in Byte
    BY <1>1
  <2>2. M(s) = Shift(a, b) /\ M(t) = Shift(c, d)
    OBVIOUS
  <2> HIDE DEF a, b, c, d, M
  <2>3. /\ Shift(a, b) \in Nat /\ Shift(c, d) \in Nat
        /\ Shift(a, b) < Shift(c, d) <=> a < c \/ (a = c /\ b < d)
        /\ Shift(a, b) = Shift(c, d) <=> a = c /\ b = d
    BY <2>1, ShiftOrder
  <2>4. /\ M(s) \in Nat /\ M(t) \in Nat
        /\ M(s) < M(t) <=> a < c \/ (a = c /\ b < d)
        /\ M(s) = M(t) <=> a = c /\ b = d
    BY <2>2, <2>3
  <2> QED BY <2>4 DEF a, b, c, d
<1> HIDE DEF M
<1>3. /\ D(s) \in Nat /\ D(t) \in Nat
      /\ D(s) < D(t) <=> M(s) < M(t) \/ (M(s) = M(t) /\ s.day < t.day)
      /\ D(s) = D(t) <=> M(s) = M(t) /\ s.day = t.day
  <2> DEFINE a == M(s)  b == s.day  c == M(t)  d == t.day
  <2>1. a \in Nat /\ b \in Byte /\ c \in Nat /\ d \in Byte
    BY <1>1, <1>2
  <2>2. D(s) = Shift(a, b) /\ D(t) = Shift(c, d)
    OBVIOUS
  <2> HIDE DEF a, b, c, d, D
  <2>3. /\ Shift(a, b) \in Nat /\ Shift(c, d) \in Nat
        /\ Shift(a, b) < Shift(c, d) <=> a < c \/ (a = c /\ b < d)
        /\ Shift(a, b) = Shift(c, d) <=> a = c /\ b = d
    BY <2>1, ShiftOrder
  <2>4. /\ D(s) \in Nat /\ D(t) \in Nat
        /\ D(s) < D(t) <=> a < c \/ (a = c /\ b < d)
        /\ D(s) = D(t) <=> a = c /\ b = d
    BY <2>2, <2>3
  <2> QED BY <2>4 DEF a, b, c, d
<1> HIDE DEF D
<1>4. /\ H(s) \in Nat /\ H(t) \in Nat
      /\ H(s) < H(t) <=> D(s) < D(t) \/ (D(s) = D(t) /\ s.hour < t.hour)
      /\ H(s) = H(t) <=> D(s) = D(t) /\ s.hour = t.hour
  <2> DEFINE a == D(s)  b == s.hour  c == D(t)  d == t.hour
  <2>1. a \in Nat /\ b \in Byte /\ c \in Nat /\ d \in Byte
    BY <1>1, <1>3
  <2>2. H(s) = Shift(a, b) /\ H(t) = Shift(c, d)
    OBVIOUS
  <2> HIDE DEF a, b, c, d, H
  <2>3. /\ Shift(a, b) \in Nat /\ Shift(c, d) \in Nat
        /\ Shift(a, b) < Shift(c, d) <=> a < c \/ (a = c /\ b < d)
        /\ Shift(a, b) = Shift(c, d) <=> a = c /\ b = d
    BY <2>1, ShiftOrder
  <2>4. /\ H(s) \in Nat /\ H(t) \in Nat
        /\ H(s) < H(t) <=> a < c \/ (a = c /\ b < d)
        /\ H(s) = H(t) <=> a = c /\ b = d
    BY <2>2, <2>3
  <2> QED BY <2>4 DEF a, b, c, d
<1> HIDE DEF H
<1>5. /\ N(s) \in Nat /\ N(t) \in Nat
      /\ N(s) < N(t) <=> H(s) < H(t) \/ (H(s) = H(t) /\ s.minute < t.minute)
      /\ N(s) = N(t) <=> H(s) = H(t) /\ s.minute = t.minute
  <2> DEFINE a == H(s)  b == s.minute  c == H(t)  d == t.minute
  <2>1. a \in Nat /\ b \in Byte /\ c \in Nat /\ d \in Byte
    BY <1>1, <1>4
  <2>2. N(s) = Shift(a, b) /\ N(t) = Shift(c, d)
    OBVIOUS
  <2> HIDE DEF a, b, c, d, N
  <2>3. /\ Shift(a, b) \in Nat /\ Shift(c, d) \in Nat
        /\ Shift(a, b) < Shift(c, d) <=> a < c \/ (a = c /\ b < d)
        /\ Shift(a, b) = Shift(c, d) <=> a = c /\ b = d
    BY <2>1, ShiftOrder
  <2>4. /\ N(s) \in Nat /\ N(t) \in Nat
        /\ N(s) < N(t) <=> a < c \/ (a = c /\ b < d)
        /\ N(s) = N(t) <=> a = c /\ b = d
    BY <2>2, <2>3
  <2> QED BY <2>4 DEF a, b, c, d
<1> HIDE DEF N
<1>6. /\ S(s) \in Nat /\ S(t) \in Nat
      /\ S(s) < S(t) <=> N(s) < N(t) \/ (N(s) = N(t) /\ s.second < t.second)
      /\ S(s) = S(t) <=> N(s) = N(t) /\ s.second = t.second
  <2> DEFINE a == N(s)  b == s.second  c == N(t)  d == t.second
  <2>1. a \in Nat /\ b \in Byte /\ c \in Nat /\ d \in Byte
    BY <1>1, <1>5
  <2>2. S(s) = Shift(a, b) /\ S(t) = Shift(c, d)
    OBVIOUS
  <2> HIDE DEF a, b, c, d, S
  <2>3. /\ Shift(a, b) \in Nat /\ Shift(c, d) \in Nat
        /\ Shift(a, b) < Shift(c, d) <=> a < c \/ (a = c /\ b < d)
        /\ Shift(a, b) = Shift(c, d) <=> a = c /\ b = d
    BY <2>1, ShiftOrder
  <2>4. /\ S(s) \in Nat /\ S(t) \in Nat
        /\ S(s) < S(t) <=> a < c \/ (a = c /\ b < d)
        /\ S(s) = S(t) <=> a = c /\ b = d
    BY <2>2, <2>3
  <2> QED BY <2>4 DEF a, b, c, d
<1>7. unpack_timestamp(s) = Shift(S(s), s.pad1) /\ unpack_timestamp(t) = Shift(S(t), t.pad1)
  BY DEF unpack_timestamp, S, N, H, D, M
<1> HIDE DEF S
<1>8. unpack_timestamp(s) < unpack_timestamp(t) <=>
        S(s) < S(t) \/ (S(s) = S(t) /\ s.pad1 < t.pad1)
  <2> DEFINE a == S(s)  b == s.pad1  c == S(t)  d == t.pad1
  <2>1. a \in Nat /\ b \in Byte /\ c \in Nat /\ d \in Byte
    BY <1>1, <1>6
  <2>2. unpack_timestamp(s) = Shift(a, b) /\ unpack_timestamp(t) = Shift(c, d)
    BY <1>7
  <2> HIDE DEF a, b, c, d
  <2>3. Shift(a, b) < Shift(c, d) <=> a < c \/ (a = c /\ b < d)
    BY <2>1, ShiftOrder
  <2>4. unpack_timestamp(s) < unpack_timestamp(t) <=> a < c \/ (a = c /\ b < d)
    BY <2>2, <2>3
  <2> QED BY <2>4 DEF a, b, c, d
<1> QED BY <1>2, <1>3, <1>4, <1>5, <1>6, <1>8, BeforeFields, Zenon

LEMMA PackedIsNat ==
  ASSUME NEW t \in Time
  PROVE  unpack_timestamp(t) \in Int
<1>1. /\ t.year \in Nat
      /\ t.month \in Byte /\ t.day \in Byte /\ t.hour \in Byte
      /\ t.minute \in Byte /\ t.second \in Byte /\ t.pad1 \in Byte
  BY CalendarAssumption DEF Time
<1>2. \A a \in Nat, b \in Byte : Shift(a, b) \in Nat
  BY ShiftOrder
<1>3. Shift(t.year, t.month) \in Nat
  BY <1>1, <1>2
<1>4. Shift(Shift(t.year, t.month), t.day) \in Nat
  BY <1>1, <1>2, <1>3
<1>5. Shift(Shift(Shift(t.year, t.month), t.day), t.hour) \in Nat
  BY <1>1, <1>2, <1>4
<1>6. Shift(Shift(Shift(Shift(t.year, t.month), t.day), t.hour), t.minute) \in Nat
  BY <1>1, <1>2, <1>5
<1>7. Shift(Shift(Shift(Shift(Shift(t.year, t.month), t.day), t.hour), t.minute),
            t.second) \in Nat
  BY <1>1, <1>2, <1>6
<1> QED BY <1>1, <1>2, <1>7 DEF unpack_timestamp

-----------------------------------------------------------------------------
LEMMA ConvertedTime ==
  ASSUME NEW tm \in Typed
  PROVE  convert_tm_to_efi_time(tm) \in Time
<1>1. tm \in Time /\ tm.month + 1 < BYTE /\ tm.month \in Nat
  BY CalendarAssumption DEF Time, Byte
<1>2. tm.month + 1 \in Byte
  BY <1>1, CalendarAssumption DEF Byte
<1> QED BY <1>1, <1>2 DEF convert_tm_to_efi_time, Time

LEMMA ZeroTime == Zero \in Time
<1>1. 0 \in Byte /\ 0 \in 0 .. YEARS - 1
  BY CalendarAssumption DEF Byte
<1> QED BY <1>1 DEF Zero, Time, Fields

(* The times at hand and stored are times; ours are valid.                  *)
THEOREM TypeInvariant == Spec => []TypeOK
<1>1. Init => TypeOK
  BY ConvertedTime, ZeroTime DEF Init, TypeOK
<1>2. TypeOK /\ [Next]_vars => TypeOK'
  <2> SUFFICES ASSUME TypeOK, [Next]_vars PROVE TypeOK'
    OBVIOUS
  <2>1. CASE Generate
    BY <2>1, ConvertedTime DEF Generate, TypeOK, validateTime
  <2>2. CASE Receive
    BY <2>2, CalendarAssumption DEF Receive, TypeOK
  <2>3. CASE Update
    BY <2>3 DEF Update, update_timestamp, TypeOK, validateTime
  <2>4. CASE UNCHANGED vars
    BY <2>4 DEF vars, TypeOK, validateTime
  <2> QED BY <2>1, <2>2, <2>3, <2>4 DEF Next
<1> QED BY <1>1, <1>2, PTL DEF Spec

(* Timestamps move forward in the calendar.                                 *)
THEOREM ForwardTheorem == Spec => MovesForward
<1>1. TypeOK /\ TypeOK' /\ [Next]_vars
        => \A k \in Keys : ts'[k] # ts[k] => Before(ts[k], ts'[k])
  <2> SUFFICES ASSUME TypeOK, [Next]_vars, NEW k \in Keys, ts'[k] # ts[k]
               PROVE  Before(ts[k], ts'[k])
    OBVIOUS
  <2>1. PICK key \in Keys : update_timestamp(key)
    BY DEF Next, Generate, Receive, Update, vars
  <2>2. key = k /\ ts'[k] = auth.time
    BY <2>1 DEF update_timestamp, TypeOK
  <2>3. unpack_timestamp(auth.time) > unpack_timestamp(ts[k])
    BY <2>1, <2>2 DEF update_timestamp, check_timestamp
  <2>4. auth.time \in Time /\ ts[k] \in Time
    BY DEF TypeOK
  <2>5. unpack_timestamp(ts[k]) < unpack_timestamp(auth.time)
    BY <2>3, <2>4, PackedIsNat
  <2> QED BY <2>2, <2>4, <2>5, UnpackOrder
<1>2. TypeOK /\ TypeOK' /\ [Next]_vars
        => [\A k \in Keys : ts'[k] # ts[k] => Before(ts[k], ts'[k])]_vars
  BY <1>1
<1> QED BY <1>2, TypeInvariant, PTL DEF Spec, MovesForward

(* No update is refused for its time unless it is no later.                 *)
THEOREM LaterTheorem == Spec => []LaterIsAccepted
<1>1. TypeOK => LaterIsAccepted
  <2> SUFFICES ASSUME TypeOK, NEW k \in Keys, Before(ts[k], auth.time)
               PROVE  check_timestamp(k, auth.time, ts)
    BY DEF LaterIsAccepted
  <2>1. auth.time \in Time /\ ts[k] \in Time
    BY DEF TypeOK
  <2>2. unpack_timestamp(ts[k]) < unpack_timestamp(auth.time)
    BY <2>1, UnpackOrder
  <2> QED BY <2>1, <2>2, PackedIsNat DEF check_timestamp
<1> QED BY <1>1, TypeInvariant, PTL

(* What generate makes keeps TS valid.                                      *)
THEOREM OursTheorem == Spec => OursKeepTsValid
<1>1. TypeOK /\ [Next]_vars => (validateTS(ts) /\ auth.ours => validateTS(ts'))
  <2> SUFFICES ASSUME TypeOK, [Next]_vars, validateTS(ts), auth.ours, NEW k \in Keys
               PROVE  validateTime(ts'[k])
    BY DEF validateTS
  <2>1. validateTime(ts[k]) /\ validateTime(auth.time)
    BY DEF validateTS, TypeOK
  <2>2. ts'[k] = ts[k] \/ ts'[k] = auth.time
    BY DEF Next, Generate, Receive, Update, update_timestamp, vars, TypeOK
  <2> QED BY <2>1, <2>2
<1>2. TypeOK /\ [Next]_vars => [validateTS(ts) /\ auth.ours => validateTS(ts')]_vars
  BY <1>1
<1> QED BY <1>2, TypeInvariant, PTL DEF Spec, OursKeepTsValid
=============================================================================
