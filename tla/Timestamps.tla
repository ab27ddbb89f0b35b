----------------------------- MODULE Timestamps -----------------------------
(***************************************************************************)
(* The times of updates, field by field: what `generate' writes into an    *)
(* auth file (parseCustomTimestamp, getTimestamp), how check_timestamp     *)
(* compares it with the TS variable and update_timestamp stores it there,  *)
(* and when validateTS takes the TS variable for valid.                    *)
(*                                                                         *)
(* An efi_time is its fields of BYTE values, and a year of YEARS.  Its     *)
(* other fields (nanosecond, timezone, daylight, pad2) are not compared.   *)
(* First and Last are the ranges of validateTime: 1900-01-01 00:00:00 to   *)
(* 9999-12-31 23:59:60.                                                    *)
(***************************************************************************)
EXTENDS Secvar

CONSTANTS BYTE, YEARS,    \* 2^8 and 2^16, or less for TLC
          First, Last,    \* what validateTime accepts of each field
          Typed,          \* what may be given with -t, or the clock may say
          Foreign         \* the times of auth files made by other tools

Order  == <<"year", "month", "day", "hour", "minute", "second", "pad1">>
Fields == {"year", "month", "day", "hour", "minute", "second"}
Byte   == 0 .. BYTE - 1
Time   == [year : 0 .. YEARS - 1, month : Byte, day : Byte, hour : Byte,
           minute : Byte, second : Byte, pad1 : Byte]

ASSUME CalendarAssumption ==
  /\ BYTE \in Nat \ {0} /\ YEARS \in Nat \ {0}
  /\ Typed \subseteq Time /\ Foreign \subseteq Time
  /\ \A t \in Typed : t.pad1 = 0
  /\ \A t \in Typed : t.month + 1 < BYTE

VARIABLES ts,    \* the timestamp of each of the four variables
          auth   \* the time of the auth file at hand, and whether it is ours

vars == <<ts, auth>>

Zero == [f \in Fields \cup {"pad1"} |-> 0]

validateTime(t) == \A f \in Fields : First[f] <= t[f] /\ t[f] <= Last[f]

(* The verdict on the TS variable, if it is of the right size. *)
validateTS(stamps) == \A k \in Keys : validateTime(stamps[k])

Shift(high, low) == high * BYTE + low

(* Fault: the month and the day change places. *)
unpack_timestamp_DayFirst(t) ==
  Shift(Shift(Shift(Shift(Shift(Shift(t.year, t.day), t.month), t.hour),
                    t.minute), t.second), t.pad1)

(* Fault: the year in one byte, like the rest. *)
unpack_timestamp_YearByte(t) ==
  Shift(Shift(Shift(Shift(Shift(Shift(t.year % BYTE, t.month), t.day), t.hour),
                    t.minute), t.second), t.pad1)

(* The fields do not overlap, so | is +. *)
unpack_timestamp(t) ==
  Shift(Shift(Shift(Shift(Shift(Shift(t.year, t.month), t.day), t.hour),
                    t.minute), t.second), t.pad1)

check_timestamp(key, t, stamps) ==
  unpack_timestamp(t) > unpack_timestamp(stamps[key])

(* A struct tm counts its months from 0 (its years from 1900, which cancels *)
(* out here).                                                               *)
convert_tm_to_efi_time(tm) == [tm EXCEPT !.month = tm.month + 1]

Init ==
  /\ \/ ts = [k \in Keys |-> Zero]
     \/ \E t \in Typed : /\ validateTime(convert_tm_to_efi_time(t))
                         /\ ts = [k \in Keys |-> convert_tm_to_efi_time(t)]
  /\ auth = [time |-> Zero, ours |-> FALSE]

(* Fault: -t is not validated. *)
Generate_AnyTime ==
  \E tm \in Typed : auth' = [time |-> convert_tm_to_efi_time(tm), ours |-> TRUE]
                    /\ UNCHANGED ts

(* generate with -t, or with the time of the clock. *)
Generate ==
  \E tm \in Typed :
    /\ validateTime(convert_tm_to_efi_time(tm))
    /\ auth' = [time |-> convert_tm_to_efi_time(tm), ours |-> TRUE]
    /\ UNCHANGED ts

(* validateAuth prints the time of an auth file and accepts any. *)
Receive ==
  \E t \in Foreign : auth' = [time |-> t, ours |-> FALSE] /\ UNCHANGED ts

(* The backend applies an update of the variable, signed as it should be. *)
update_timestamp(key) ==
  /\ check_timestamp(key, auth.time, ts)
  /\ ts' = [ts EXCEPT ![key] = auth.time]
  /\ UNCHANGED auth

Update == \E key \in Keys : update_timestamp(key)

Next == Generate \/ Receive \/ Update
Spec == Init /\ [][Next]_vars

-----------------------------------------------------------------------------
(* Types: an update or the clock sets all the fields that are compared.     *)
TypeOK ==
  /\ ts \in [Keys -> Time]
  /\ auth \in [time : Time, ours : BOOLEAN]
  /\ auth.ours => validateTime(auth.time)

(* The order of the calendar: the first field in which two times differ     *)
(* decides.                                                                 *)
Before(s, t) ==
  \E i \in DOMAIN Order : /\ s[Order[i]] < t[Order[i]]
                          /\ \A j \in 1 .. i - 1 : s[Order[j]] = t[Order[j]]

(* The time of a variable moves forward in the calendar, never back         *)
(* (edk2-compat-process.c:396-437 compares packed numbers).                 *)
MovesForward == [][\A k \in Keys : ts'[k] # ts[k] => Before(ts[k], ts'[k])]_vars

(* An update is refused for its time only if it is not later, by any field. *)
LaterIsAccepted ==
  \A k \in Keys : Before(ts[k], auth.time) => check_timestamp(k, auth.time, ts)

(* What generate makes, and the backend accepts, verify can live with: a TS *)
(* that validateTS accepted it still accepts after the update (parse_opt,   *)
(* edk2-svc-generate.c:319, and getTimestamp, 800-809).                     *)
OursKeepTsValid == [][validateTS(ts) /\ auth.ours => validateTS(ts')]_vars

(* The same of every update that is accepted, also of one "made with        *)
(* sign-efi-sig-list", whose "month could be one less bc months are 0-11"   *)
(* (edk2-svc-validate.c:692-693).  src/README.md:157 says "TS holds no      *)
(* power of the variables, only functions to hold the timestamps of the     *)
(* last update".                                                            *)
AcceptedKeepTsValid == [][validateTS(ts) => validateTS(ts')]_vars
=============================================================================
