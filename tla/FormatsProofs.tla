--------------------------- MODULE FormatsProofs ---------------------------
(***************************************************************************)
(* For files of any length below MaxLength and for integers of any width   *)
(* WidthAssumption allows: the functions that split an auth file split it  *)
(* at the same byte, inside the file, and the loops over ESLs stay inside. *)
(***************************************************************************)
EXTENDS Formats, TLAPS

(* A file that validateAuth accepts has a positive PKCS7 and its whole      *)
(* descriptor: no difference of lengths has come round.                     *)
LEMMA AcceptedLengths ==
  ASSUME NEW dw \in uint32, NEW len \in 0 .. MaxLength,
         validateAuth(dw, len) >= 0
  PROVE  /\ validateAuth(dw, len) = Timestamp + dw
         /\ Timestamp + dw <= len
         /\ dw > AuthHeader - Timestamp
         /\ len >= AuthHeader
  BY WidthAssumption
  DEF validateAuth, get_pkcs7_len, Minus, ssize, uint32, AUTH_FAIL, Timestamp,
      AuthHeader

(* get_auth_descriptor2 takes exactly the descriptor that was validated.    *)
LEMMA DescriptorAgrees ==
  ASSUME NEW dw \in uint32, NEW len \in 0 .. MaxLength,
         validateAuth(dw, len) >= 0
  PROVE  get_auth_descriptor2(dw, len) = validateAuth(dw, len)
  BY AcceptedLengths, WidthAssumption
  DEF get_auth_descriptor2, get_pkcs7_len, Minus, uint32, Timestamp, AuthHeader

(* So does authToESL.                                                       *)
LEMMA ExtractionAgrees ==
  ASSUME NEW dw \in uint32, NEW len \in 0 .. MaxLength,
         validateAuth(dw, len) >= 0
  PROVE  authToESL(dw, len) = validateAuth(dw, len)
  BY AcceptedLengths, WidthAssumption
  DEF authToESL, get_pkcs7_len, Minus, uint32, Timestamp, AuthHeader

(* authToESL needs no validation before it to stay inside the file.         *)
LEMMA ExtractionInside ==
  ASSUME NEW dw \in uint32, NEW len \in 0 .. MaxLength,
         authToESL(dw, len) >= 0
  PROVE  authToESL(dw, len) = Timestamp + dw /\ Timestamp + dw <= len
  BY WidthAssumption
  DEF authToESL, get_pkcs7_len, Minus, uint32, Timestamp, AuthHeader,
      AUTH_FAIL, PKCS7_FAIL, ESL_FAIL

-----------------------------------------------------------------------------
(* What a header takes from a loop: nothing, or a size that was left.       *)
LEMMA ListLeavesRest ==
  ASSUME NEW h \in Header, NEW left \in Int,
         validateSingularESL(h, left) \/ Printable(h, left)
  PROVE  h.list \in Nat /\ h.list <= left
  BY DEF validateSingularESL, Printable, Fits, Header, uint32

(* Where the ESLs were found, as long as anyone relies on it.               *)
Located ==
  /\ pc \in {"validateESL", "accepted", "process_update", "validate_esl_list"} =>
       base = validateAuth(dw_length, buflen)
  /\ pc = "authToESL" /\ task = "generate" =>
       base = validateAuth(dw_length, buflen)

(* Every header that has been read is one the file may hold.                *)
Read_OK == \A i \in DOMAIN headers : headers[i] \in Headers

(* The loops of validate and read account for every byte and never count   *)
(* more than there are: offset and eslvarsize, an int and a ssize_t moved by*)
(* an unsigned size of the file's, stay in step.                            *)
WalkStaysInside ==
  pc \in {"validateESL", "print"} =>
    /\ eslvarsize >= 0
    /\ base + offset + eslvarsize = buflen

Inv == TypeOK /\ Read_OK /\ Located /\ WalkStaysInside

LEMMA Positions ==
  ASSUME TypeOK
  PROVE  buflen \in 0 .. MaxLength /\ base \in Nat /\ base <= buflen
  BY FileAssumption, WidthAssumption DEF TypeOK

LEMMA InvInit == Init => Inv
<1> SUFFICES ASSUME Init PROVE Inv
  OBVIOUS
<1>1. 0 \in uint32 /\ buflen \in 0 .. MaxLength
  BY FileAssumption, WidthAssumption DEF Init, uint32
<1>2. pc \in {"validateAuth", "authToESL", "print"} /\ ~(pc = "authToESL" /\ task = "generate")
  BY DEF Init
<1>3. TypeOK
  BY <1>1, <1>2, FileAssumption, WidthAssumption DEF Init, TypeOK, SUCCESS
<1>4. Read_OK /\ Located /\ WalkStaysInside
  BY <1>1, <1>2 DEF Init, Read_OK, Located, WalkStaysInside
<1> QED BY <1>3, <1>4 DEF Inv

(* The two ways a step leaves the file and its position alone, or moves the *)
(* position behind a list.                                                  *)
LEMMA StartInv ==
  ASSUME Inv, NEW n \in 0 .. buflen,
         NEW label \in {"validateESL", "accepted", "validate_esl_list", "done"},
         Start(label, n),
         label # "done" => n = validateAuth(dw_length, buflen)
  PROVE  Inv'
<1>1. Minus(buflen, n) = buflen - n
  BY Positions DEF Inv, Minus
<1>2. TypeOK'
  BY <1>1, Positions, WidthAssumption
  DEF Inv, TypeOK, Start, file, SUCCESS
<1>3. Read_OK' /\ Located'
  BY DEF Inv, Read_OK, Located, Start, file
<1>4. WalkStaysInside'
  BY <1>1, Positions DEF Inv, WalkStaysInside, Start, file
<1> QED BY <1>2, <1>3, <1>4 DEF Inv

LEMMA TurnInv ==
  ASSUME Inv, NEW i \in Int, NEW h \in HeaderAt(i), Read(i, h), Turn(h),
         pc \in {"validateESL", "print", "validate_esl_list"},
         pc # "validate_esl_list" =>
           validateSingularESL(h, eslvarsize) \/ Printable(h, eslvarsize)
  PROVE  Inv'
<1>1. h \in Headers /\ h \in Header
  BY FileAssumption DEF Inv, Read_OK, HeaderAt
<1>2. h.list \in Nat
  BY <1>1 DEF Header, uint32
<1>3. Read_OK'
  BY <1>1 DEF Inv, Read_OK, Read
<1>4. count' \in 0 .. MaxLength
  BY WidthAssumption DEF Inv, TypeOK, Turn
<1>5. TypeOK'
  BY <1>2, <1>4, WidthAssumption DEF Inv, TypeOK, Turn, file
<1>6. Located'
  BY DEF Inv, Located, Turn, file
<1>7. WalkStaysInside'
  BY <1>1, <1>2, ListLeavesRest DEF Inv, TypeOK, WalkStaysInside, Turn, file
<1> QED BY <1>3, <1>5, <1>6, <1>7 DEF Inv

LEMMA StopInv ==
  ASSUME Inv, NEW code \in Int, Stop(code), Read_OK'
  PROVE  Inv'
  BY DEF Inv, TypeOK, Located, WalkStaysInside, Stop, file

LEMMA EndOfESLsInv ==
  ASSUME Inv, NEW after \in {"accepted", "done"}, EndOfESLs(after), Read_OK',
         after = "accepted" => pc = "validateESL"
  PROVE  Inv'
  BY DEF Inv, TypeOK, Located, WalkStaysInside, EndOfESLs, file, SUCCESS, ESL_FAIL

LEMMA ReadKeeps ==
  ASSUME Inv, NEW i \in Int, NEW h \in HeaderAt(i), Read(i, h)
  PROVE  Read_OK'
  BY DEF Inv, Read_OK, HeaderAt, Read

LEMMA InvNext == Inv /\ [Next]_vars => Inv'
<1> SUFFICES ASSUME Inv, [Next]_vars PROVE Inv'
  OBVIOUS
<1>1. CASE UNCHANGED vars
  BY <1>1 DEF Inv, TypeOK, Read_OK, Located, WalkStaysInside, vars, file
<1>2. CASE ValidateAuth
  <2> DEFINE n == validateAuth(dw_length, buflen)
  <2>1. CASE n < 0
    <3>1. n \in Int
      BY <2>1, Positions, FileAssumption
      DEF Inv, TypeOK, validateAuth, uint32, AUTH_FAIL, Timestamp
    <3>2. Stop(n) /\ Read_OK'
      BY <1>2, <2>1 DEF ValidateAuth, Inv, Read_OK
    <3> QED BY <3>1, <3>2, StopInv
  <2>2. CASE ~(n < 0)
    <3>1. n \in 0 .. buflen
      BY <2>2, Positions DEF Inv, TypeOK, validateAuth, uint32, AUTH_FAIL, Timestamp
    <3>2. Start(IF n = buflen THEN "accepted" ELSE "validateESL", n)
      BY <1>2, <2>2 DEF ValidateAuth
    <3> QED BY <3>1, <3>2, StartInv
  <2> QED BY <2>1, <2>2
<1>3. CASE Accepted
  BY <1>3 DEF Accepted, Inv, TypeOK, Read_OK, Located, WalkStaysInside, file
<1>4. CASE ProcessUpdate
  <2>1. base >= 0 /\ base = validateAuth(dw_length, buflen)
    BY <1>4, Positions DEF ProcessUpdate, Inv, Located
  <2>2. get_auth_descriptor2(dw_length, buflen) = base
    BY <2>1, Positions, DescriptorAgrees DEF Inv, TypeOK
  <2>3. Start("validate_esl_list", base)
    BY <1>4, <2>1, <2>2, Positions DEF ProcessUpdate, Inv
  <2> QED BY <2>1, <2>3, Positions, StartInv DEF Inv
<1>5. CASE AuthToESL
  <2> DEFINE n == authToESL(dw_length, buflen)
  <2>1. n \in Int
    BY Positions DEF Inv, TypeOK, authToESL, uint32, AUTH_FAIL, PKCS7_FAIL,
       ESL_FAIL, Timestamp
  <2>2. CASE n < 0
    BY <1>5, <2>1, <2>2, StopInv DEF AuthToESL, Inv, Read_OK
  <2>3. CASE ~(n < 0)
    <3>1. n \in 0 .. buflen
      BY <2>1, <2>3, Positions, ExtractionInside DEF Inv, TypeOK
    <3>2. Start("done", n)
      BY <1>5, <2>3 DEF AuthToESL
    <3> QED BY <3>1, <3>2, StartInv
  <2> QED BY <2>2, <2>3
<1>6. CASE ValidateESL
  <2>1. CASE eslvarsize < ListHeader
    BY <1>6, <2>1, EndOfESLsInv DEF ValidateESL, Inv, Read_OK
  <2>2. CASE ~(eslvarsize < ListHeader)
    <3>1. PICK h \in HeaderAt(offset) :
            /\ Read(offset, h)
            /\ IF validateSingularESL(h, eslvarsize) THEN Turn(h)
                                                     ELSE EndOfESLs("accepted")
      BY <1>6, <2>2 DEF ValidateESL
    <3>2. offset \in Int /\ Read_OK'
      BY <3>1, ReadKeeps DEF Inv, TypeOK
    <3> QED BY <1>6, <3>1, <3>2, TurnInv, EndOfESLsInv DEF ValidateESL
  <2> QED BY <2>1, <2>2
<1>7. CASE PrintESL
  <2>1. CASE eslvarsize < ListHeader
    BY <1>7, <2>1, EndOfESLsInv DEF PrintESL, Inv, Read_OK
  <2>2. CASE ~(eslvarsize < ListHeader)
    <3>1. PICK h \in HeaderAt(offset) :
            /\ Read(offset, h)
            /\ IF Printable(h, eslvarsize) THEN Turn(h) ELSE EndOfESLs("done")
      BY <1>7, <2>2 DEF PrintESL
    <3>2. offset \in Int /\ Read_OK'
      BY <3>1, ReadKeeps DEF Inv, TypeOK
    <3> QED BY <1>7, <3>1, <3>2, TurnInv, EndOfESLsInv DEF PrintESL
  <2> QED BY <2>1, <2>2
<1>8. CASE ProcessESL
  <2>1. CASE eslvarsize < ListHeader
    BY <1>8, <2>1, StopInv DEF ProcessESL, Inv, TypeOK, Read_OK
  <2>2. CASE ~(eslvarsize < ListHeader)
    <3>1. PICK h \in HeaderAt(0) :
            /\ Read(0, h)
            /\ IF int(h.list) <= 0 THEN Stop(OPAL_PARAMETER)
               ELSE IF get_esl_cert(h, eslvarsize) # SUCCESS
                    THEN Stop(get_esl_cert(h, eslvarsize))
                    ELSE Turn(h)
      BY <1>8, <2>2 DEF ProcessESL
    <3>2. Read_OK'
      BY <3>1, ReadKeeps
    <3>3. get_esl_cert(h, eslvarsize) \in Int /\ OPAL_PARAMETER \in Int
      BY DEF get_esl_cert, OPAL_PARAMETER, OPAL_NO_MEM, SUCCESS
    <3> QED BY <1>8, <3>1, <3>2, <3>3, StopInv, TurnInv DEF ProcessESL
  <2> QED BY <2>1, <2>2
<1> QED
  BY <1>1, <1>2, <1>3, <1>4, <1>5, <1>6, <1>7, <1>8 DEF Next

LEMMA InvHolds == Spec => []Inv
BY InvInit, InvNext, PTL DEF Spec

(* Wherever a file is split, it is split inside.                            *)
THEOREM InsideTheorem == Spec => []TypeOK
<1>1. Inv => TypeOK
  BY DEF Inv
<1> QED BY <1>1, InvHolds, PTL

(* What was validated is what process_update digests and generate extracts. *)
THEOREM SplitTheorem == Spec => []SplitsAgree
<1>1. Inv => SplitsAgree
  BY Positions, DescriptorAgrees, ExtractionAgrees
  DEF Inv, TypeOK, Located, SplitsAgree
<1> QED BY <1>1, InvHolds, PTL

-----------------------------------------------------------------------------
(* validateESL, told from its middle: what it has seen of the first ESL.    *)

FirstSeen ==
  pc = "validateESL" =>
    /\ count = 0 => offset = 0
    /\ count > 0 => /\ base \in DOMAIN headers
                    /\ validateSingularESL(headers[base], buflen - base)

LEMMA ReadOnce ==
  ASSUME NEW i \in Int, NEW h \in HeaderAt(i), Read(i, h)
  PROVE  /\ At(i) \in DOMAIN headers' /\ headers'[At(i)] = h
         /\ \A j \in DOMAIN headers : j \in DOMAIN headers' /\ headers'[j] = headers[j]
BY DEF Read, HeaderAt

(* A turn of the loop, with the header it reads if there is room for one.   *)
LEMMA TurnOfValidate ==
  ASSUME Inv, FirstSeen, ValidateESL
  PROVE  /\ base' = base /\ buflen' = buflen
         /\ FirstSeen'
         /\ pc' # pc => (pc' = "accepted" <=>
                           /\ base \in DOMAIN headers'
                           /\ validateSingularESL(headers'[base], buflen - base))
<1>0. /\ pc = "validateESL" /\ count \in 0 .. MaxLength /\ base \in Nat /\ buflen \in Nat
      /\ offset \in Nat /\ eslvarsize = buflen - base - offset
  BY Positions DEF ValidateESL, Inv, TypeOK, WalkStaysInside
<1>1. CASE eslvarsize < ListHeader
  <2>1. /\ headers' = headers /\ base' = base /\ buflen' = buflen
        /\ pc' = IF count > 0 THEN "accepted" ELSE "done"
    BY <1>0, <1>1 DEF ValidateESL, EndOfESLs, file
  <2>2. count = 0 => ~validateSingularESL(headers[base], buflen - base)
    BY <1>0, <1>1 DEF FirstSeen, validateSingularESL, ListHeader
  <2>3. count > 0 => /\ base \in DOMAIN headers
                     /\ validateSingularESL(headers[base], buflen - base)
    BY <1>0 DEF FirstSeen
  <2> QED BY <1>0, <2>1, <2>2, <2>3 DEF FirstSeen
<1>2. CASE ~(eslvarsize < ListHeader)
  <2>1. PICK h \in HeaderAt(offset) :
          /\ Read(offset, h)
          /\ IF validateSingularESL(h, eslvarsize) THEN Turn(h) ELSE EndOfESLs("accepted")
    BY <1>2 DEF ValidateESL
  <2>2. /\ At(offset) \in DOMAIN headers' /\ headers'[At(offset)] = h
        /\ \A j \in DOMAIN headers : j \in DOMAIN headers' /\ headers'[j] = headers[j]
    BY <1>0, <2>1, ReadOnce
  <2>3. base' = base /\ buflen' = buflen
    BY <2>1 DEF Turn, EndOfESLs, file
  <2>4. count = 0 => /\ base \in DOMAIN headers' /\ headers'[base] = h
                     /\ eslvarsize = buflen - base
    BY <1>0, <2>2 DEF FirstSeen, At
  <2>5. count > 0 => /\ base \in DOMAIN headers'
                     /\ validateSingularESL(headers'[base], buflen - base)
    BY <1>0, <2>2 DEF FirstSeen
  <2>6. CASE validateSingularESL(h, eslvarsize)
    <3>1. pc' = pc /\ count' = (count % MaxLength) + 1
      BY <2>1, <2>6 DEF Turn
    <3>2. count' > 0
      BY <1>0, <3>1, WidthAssumption
    <3>3. base \in DOMAIN headers' /\ validateSingularESL(headers'[base], buflen - base)
      BY <1>0, <2>4, <2>5, <2>6
    <3> QED BY <1>0, <2>3, <3>1, <3>2, <3>3 DEF FirstSeen
  <2>7. CASE ~validateSingularESL(h, eslvarsize)
    <3>1. pc' = IF count > 0 THEN "accepted" ELSE "done"
      BY <2>1, <2>7 DEF EndOfESLs
    <3> QED BY <1>0, <2>3, <2>4, <2>5, <2>7, <3>1 DEF FirstSeen
  <2> QED BY <2>6, <2>7
<1> QED BY <1>1, <1>2

LEMMA FirstSeenStep == Inv /\ FirstSeen /\ [Next]_vars => FirstSeen'
<1> SUFFICES ASSUME Inv, FirstSeen, [Next]_vars PROVE FirstSeen'
  OBVIOUS
<1>1. CASE ValidateESL
  BY <1>1, TurnOfValidate
<1>2. CASE ValidateAuth
  BY <1>2 DEF ValidateAuth, Stop, Start, FirstSeen
<1>3. CASE Accepted \/ ProcessUpdate \/ ProcessESL \/ AuthToESL \/ PrintESL
  BY <1>3 DEF Accepted, ProcessUpdate, ProcessESL, AuthToESL, PrintESL, Stop, Start,
     Turn, EndOfESLs, FirstSeen
<1>4. CASE UNCHANGED vars
  BY <1>4 DEF vars, file, FirstSeen
<1> QED BY <1>1, <1>2, <1>3, <1>4 DEF Next

(* validateESL walks every ESL it can, and its verdict is the first one's.  *)
THEOREM FirstTheorem == Spec => VerdictIsFirst
<1>1. Init => FirstSeen
  BY DEF Init, FirstSeen
<1>2. Inv /\ FirstSeen /\ [Next]_vars =>
        [ pc = "validateESL" /\ pc' # pc =>
            (pc' = "accepted" <=> /\ base \in DOMAIN headers'
                                  /\ validateSingularESL(headers'[base], buflen - base)) ]_vars
  <2> SUFFICES ASSUME Inv, FirstSeen, Next, pc = "validateESL", pc' # pc
               PROVE  pc' = "accepted" <=>
                        /\ base \in DOMAIN headers'
                        /\ validateSingularESL(headers'[base], buflen - base)
    BY DEF vars
  <2>1. ValidateESL
    BY DEF Next, ValidateAuth, Accepted, ProcessUpdate, ProcessESL, AuthToESL, PrintESL
  <2> QED BY <2>1, TurnOfValidate
<1> QED BY <1>1, <1>2, FirstSeenStep, InvHolds, PTL DEF Spec, VerdictIsFirst
-----------------------------------------------------------------------------
(* Two sizes that are each no more than what is left cannot come round.     *)
LEMMA NoWrap ==
  ASSUME NEW h \in Header, NEW left \in 0 .. MaxLength,
         validateSingularESL(h, left) \/ Printable(h, left), h.list > 0
  PROVE  h.hdr + h.sig <= h.list /\ h.list <= left
<1>1. h.list \in Nat /\ h.hdr \in Nat /\ h.sig \in Nat
  BY DEF Header, uint32
<1>2. Logical(h) /\ Fits(h, left)
  BY DEF validateSingularESL, Printable
<1>3. h.hdr + h.sig < WORD
  BY <1>1, <1>2, WidthAssumption DEF Fits
<1>4. (h.hdr + h.sig) % WORD = h.hdr + h.sig
  BY <1>1, <1>3, WidthAssumption
<1> QED BY <1>1, <1>2, <1>4 DEF Logical, Fits

(* A turn of the loops of validate and read.                                *)
LEMMA NearTurn ==
  ASSUME Inv, NEW h \in HeaderAt(offset), Read(offset, h), offset' # offset,
         pc \in {"validateESL", "print"}, Turn(h),
         validateSingularESL(h, eslvarsize) \/ Printable(h, eslvarsize)
  PROVE  LET g == headers'[base + offset]
         IN  g.hdr + g.sig <= g.list /\ base + offset' <= buflen
<1>1. h \in Header /\ offset \in Nat
  BY FileAssumption DEF Inv, TypeOK, Read_OK, HeaderAt
<1>2. headers'[base + offset] = h
  BY <1>1, ReadOnce DEF At
<1>3. /\ buflen \in 0 .. MaxLength /\ base \in Nat /\ eslvarsize \in Nat
      /\ base + offset + eslvarsize = buflen
  BY Positions DEF Inv, TypeOK, WalkStaysInside
<1>4. eslvarsize \in 0 .. MaxLength
  BY <1>1, <1>3, WidthAssumption
<1>5. h.list \in Nat /\ h.list > 0 /\ offset' = offset + h.list
  BY <1>1 DEF Turn, Header, uint32
<1>6. h.hdr + h.sig <= h.list /\ h.list <= eslvarsize
  BY <1>1, <1>4, <1>5, NoWrap
<1> QED BY <1>1, <1>2, <1>3, <1>5, <1>6

(* Whatever sizes a file states, the loops of validate and read only go on  *)
(* behind a list that is inside the file and as long as the header and      *)
(* signature it states.                                                     *)
THEOREM NearTheorem == Spec => SignatureNearItsList
<1>1. Inv /\ [Next]_vars =>
        [ offset' # offset /\ pc \in {"validateESL", "print"} =>
            LET h == headers'[base + offset]
            IN  h.hdr + h.sig <= h.list /\ base + offset' <= buflen ]_vars
  <2> SUFFICES ASSUME Inv, Next, offset' # offset, pc \in {"validateESL", "print"}
               PROVE  LET h == headers'[base + offset]
                      IN  h.hdr + h.sig <= h.list /\ base + offset' <= buflen
    BY DEF vars
  <2>1. CASE ValidateESL
    <3>1. PICK h \in HeaderAt(offset) :
            /\ Read(offset, h) /\ validateSingularESL(h, eslvarsize) /\ Turn(h)
      BY <2>1 DEF ValidateESL, EndOfESLs
    <3> QED BY <3>1, NearTurn
  <2>2. CASE PrintESL
    <3>1. PICK h \in HeaderAt(offset) :
            /\ Read(offset, h) /\ Printable(h, eslvarsize) /\ Turn(h)
      BY <2>2 DEF PrintESL, EndOfESLs
    <3> QED BY <3>1, NearTurn
  <2>3. ValidateESL \/ PrintESL
    BY DEF Next, ValidateAuth, Accepted, ProcessUpdate, ProcessESL, AuthToESL
  <2> QED BY <2>1, <2>2, <2>3
<1> QED BY <1>1, InvHolds, PTL DEF Spec, SignatureNearItsList

-----------------------------------------------------------------------------
(* validate_esl_list, told from its middle, and what the division of the    *)
(* closed form comes to.                                                    *)

LEMMA TimesGrows ==
  ASSUME NEW b \in Nat, NEW m \in Int, NEW n \in Int, m <= n
  PROVE  b * m <= b * n
BY SMT

LEMMA TimesIsMore ==
  ASSUME NEW b \in Nat, NEW n \in Nat \ {0}
  PROVE  b * n \in Nat /\ b * n >= b
<1>1. b * 0 <= b * (n - 1)
  BY TimesGrows
<1>2. b * n = b * (n - 1) + b
  BY SMT
<1>3. b * (n - 1) \in Int /\ b * n \in Int /\ b * 0 = 0
  BY SMT
<1> QED BY <1>1, <1>2, <1>3

LEMMA DivBounds ==
  ASSUME NEW a \in Nat, NEW b \in Nat \ {0}, NEW k \in Nat
  PROVE  /\ a \div b \in Nat
         /\ a >= b * k => a \div b >= k
         /\ a < b * k => a \div b < k
<1> DEFINE q == a \div b
<1>1. q \in Nat /\ b * q <= a /\ a < b * q + b
  BY SMT
<1> HIDE DEF q
<1>2. q + 1 <= k => b * (q + 1) <= b * k
  BY <1>1, TimesGrows
<1>3. k <= q => b * k <= b * q
  BY <1>1, TimesGrows
<1>4. b * (q + 1) = b * q + b
  BY <1>1
<1>5. b * q \in Int /\ b * k \in Int
  BY <1>1
<1>6. a >= b * k => q >= k
  <2>1. ~(q >= k) => q + 1 <= k
    BY <1>1
  <2> QED BY <1>1, <1>2, <1>4, <1>5, <2>1
<1>7. a < b * k => q < k
  <2>1. ~(q < k) => k <= q
    BY <1>1
  <2> QED BY <1>1, <1>3, <1>5, <2>1
<1> QED BY <1>1, <1>6, <1>7 DEF q

(* What follows the descriptor has been validated, or there is nothing.     *)
Passed ==
  pc \in {"accepted", "process_update", "validate_esl_list"} =>
    \/ base = buflen
    \/ /\ base \in DOMAIN headers
       /\ validateSingularESL(headers[base], buflen - base)

(* Each turn so far has found a header and an owner in what was left, and   *)
(* has taken the size of the first list from it.                            *)
Counted ==
  pc = "validate_esl_list" =>
    IF base = buflen THEN count = 0 /\ eslvarsize = 0
    ELSE LET list == headers[base].list
         IN  /\ eslvarsize = buflen - base - list * count
             /\ count > 0 => eslvarsize + list >= ListHeader + Guid

(* What one turn finds.                                                     *)
LEMMA ProcessTurn ==
  ASSUME Inv, Passed, ProcessESL, base # buflen
  PROVE  /\ base \in DOMAIN headers /\ base \in DOMAIN headers'
         /\ headers'[base] = headers[base] /\ headers[base] \in Header
         /\ headers[base].list \in Nat \ {0} /\ headers[base].good
         /\ LET h == headers[base]
            IN  IF eslvarsize < ListHeader THEN Stop(count)
                ELSE IF ListHeader + h.hdr + Guid > eslvarsize THEN Stop(OPAL_PARAMETER)
                ELSE Turn(h)
<1> DEFINE h == headers[base]
<1>1. pc = "validate_esl_list" /\ base \in DOMAIN headers /\ base \in Nat
  BY Positions DEF ProcessESL, Passed, Inv
<1>2. validateSingularESL(h, buflen - base)
  BY <1>1 DEF Passed
<1>3. h \in Header /\ HeaderAt(0) = {h} /\ At(0) = base
  BY <1>1, FileAssumption DEF HeaderAt, At, Inv, Read_OK
<1> HIDE DEF h
<1>4. /\ int(h.list) > 0 /\ ssize(Minus(h.sig, Guid)) > 0 /\ h.good /\ h.list \in Nat \ {0}
  BY <1>2, <1>3, WidthAssumption DEF validateSingularESL, Header, uint32, int
<1>5. CASE eslvarsize < ListHeader
  <2>1. Stop(count) /\ headers' = headers
    BY <1>5 DEF ProcessESL
  <2> QED BY <1>1, <1>3, <1>4, <1>5, <2>1 DEF h
<1>6. CASE ~(eslvarsize < ListHeader)
  <2>1. /\ Read(0, h)
        /\ IF int(h.list) <= 0 THEN Stop(OPAL_PARAMETER)
           ELSE IF get_esl_cert(h, eslvarsize) # SUCCESS
                THEN Stop(get_esl_cert(h, eslvarsize))
                ELSE Turn(h)
    BY <1>3, <1>6 DEF ProcessESL
  <2>2. base \in DOMAIN headers' /\ headers'[base] = h
    BY <1>3, <2>1, ReadOnce
  <2>3. ~(int(h.list) <= 0) /\ ~(ssize(Minus(h.sig, Guid)) < 0)
    <3>1. int(h.list) \in Int /\ ssize(Minus(h.sig, Guid)) \in Int
      BY <1>3, WidthAssumption DEF Header, uint32, int, ssize, Minus, Guid
    <3> QED BY <1>4, <3>1
  <2>4. get_esl_cert(h, eslvarsize)
          = IF ListHeader + h.hdr + Guid > eslvarsize THEN OPAL_PARAMETER ELSE SUCCESS
    BY <1>4, <2>3 DEF get_esl_cert
  <2>5. OPAL_PARAMETER # SUCCESS
    BY DEF OPAL_PARAMETER, SUCCESS
  <2> QED BY <1>1, <1>3, <1>4, <1>6, <2>1, <2>2, <2>3, <2>4, <2>5 DEF h
<1> QED BY <1>5, <1>6

(* Every turn takes a byte at least, so that the count does not come round. *)
LEMMA CountedTurn ==
  ASSUME Inv, Passed, Counted, ProcessESL
  PROVE  Counted'
<1>1. /\ pc = "validate_esl_list" /\ count \in 0 .. MaxLength /\ base \in Nat
      /\ buflen \in 0 .. MaxLength /\ base <= buflen /\ eslvarsize \in Int
  BY Positions DEF ProcessESL, Inv, TypeOK
<1>2. CASE base = buflen
  <2>1. eslvarsize = 0 /\ eslvarsize < ListHeader
    BY <1>1, <1>2 DEF Counted, ListHeader
  <2>2. pc' = "done"
    BY <2>1 DEF ProcessESL, Stop
  <2> QED BY <2>2 DEF Counted
<1>3. CASE base # buflen
  <2> DEFINE h == headers[base]
  <2>1. /\ headers'[base] = h /\ h.list \in Nat \ {0} /\ h.hdr \in Nat
        /\ IF eslvarsize < ListHeader THEN Stop(count)
           ELSE IF ListHeader + h.hdr + Guid > eslvarsize THEN Stop(OPAL_PARAMETER)
           ELSE Turn(h)
    BY <1>3, ProcessTurn DEF Header, uint32
  <2> HIDE DEF h
  <2>2. CASE \E code : Stop(code)
    BY <2>2 DEF Stop, Counted
  <2>3. CASE Turn(h) /\ ~(ListHeader + h.hdr + Guid > eslvarsize)
    <3>1. /\ base' = base /\ buflen' = buflen /\ eslvarsize' = eslvarsize - h.list
          /\ count' = (count % MaxLength) + 1
      BY <2>3 DEF Turn, file
    <3>2. eslvarsize = buflen - base - h.list * count
      BY <1>1, <1>3 DEF Counted, h
    <3>3. h.list * count >= count /\ h.list * count \in Int
      <4>1. count * 1 <= count * h.list
        BY <1>1, <2>1, TimesGrows
      <4> QED BY <1>1, <2>1, <4>1
    <3>4. ListHeader + Guid <= eslvarsize
      BY <1>1, <2>1, <2>3 DEF ListHeader, Guid
    <3>5. count < MaxLength
      BY <1>1, <3>2, <3>3, <3>4, WidthAssumption DEF ListHeader, Guid
    <3>6. count' = count + 1
      <4>1. count % MaxLength = count
        BY <1>1, <3>5, WidthAssumption
      <4> QED BY <3>1, <4>1
    <3>7. h.list * (count + 1) = h.list * count + h.list
      <4>1. \A b, n \in Nat : b * (n + 1) = b * n + b
        BY SMT
      <4>2. h.list \in Nat /\ count \in Nat
        BY <1>1, <2>1
      <4> QED BY <4>1, <4>2, Zenon
    <3>8. /\ eslvarsize' = buflen - base - h.list * (count + 1)
          /\ eslvarsize' + h.list >= ListHeader + Guid
      BY <1>1, <2>1, <3>1, <3>2, <3>3, <3>4, <3>7 DEF ListHeader, Guid
    <3> QED BY <1>3, <2>1, <3>1, <3>6, <3>8 DEF Counted
  <2> QED BY <2>1, <2>2, <2>3
<1> QED BY <1>2, <1>3

LEMMA CarriedStep == Inv /\ FirstSeen /\ Passed /\ Counted /\ [Next]_vars => Passed' /\ Counted'
<1> SUFFICES ASSUME Inv, FirstSeen, Passed, Counted, [Next]_vars PROVE Passed' /\ Counted'
  OBVIOUS
<1>1. CASE ValidateAuth
  <2> DEFINE n == validateAuth(dw_length, buflen)
  <2>1. pc' # "accepted" => pc' \in {"done", "validateESL"}
    BY <1>1 DEF ValidateAuth, Stop, Start
  <2>2. ASSUME pc' = "accepted" PROVE base' = buflen'
    BY <1>1, <2>2 DEF ValidateAuth, Stop, Start, file
  <2>3. pc' \notin {"process_update", "validate_esl_list"}
    BY <2>1
  <2> QED BY <2>1, <2>2, <2>3 DEF Passed, Counted
<1>2. CASE ValidateESL
  <2>1. /\ base' = base /\ buflen' = buflen /\ pc = "validateESL"
        /\ pc' # pc => (pc' = "accepted" <=>
                          /\ base \in DOMAIN headers'
                          /\ validateSingularESL(headers'[base], buflen - base))
    BY <1>2, TurnOfValidate DEF ValidateESL
  <2>2. pc' \in {"validateESL", "accepted", "done"}
    BY <1>2 DEF ValidateESL, EndOfESLs, Turn
  <2> QED BY <2>1, <2>2 DEF Passed, Counted
<1>3. CASE Accepted
  BY <1>3 DEF Accepted, Passed, Counted, file
<1>4. CASE ProcessUpdate
  <2> DEFINE n == get_auth_descriptor2(dw_length, buflen)
  <2>1. n = base /\ base \in Nat /\ buflen \in Nat /\ base <= buflen
    BY <1>4, Positions, DescriptorAgrees DEF ProcessUpdate, Inv, Located, TypeOK
  <2>2. Start("validate_esl_list", base)
    BY <1>4, <2>1 DEF ProcessUpdate
  <2>3. /\ base' = base /\ buflen' = buflen /\ headers' = headers /\ count' = 0
        /\ eslvarsize' = buflen - base /\ pc = "process_update"
    BY <1>4, <2>1, <2>2 DEF Start, file, Minus, ProcessUpdate
  <2>4. Passed'
    BY <2>3 DEF Passed
  <2>5. base # buflen => headers[base].list \in Nat
    <3>1. base # buflen => headers[base] \in Header
      BY <2>3, FileAssumption DEF Passed, Inv, Read_OK
    <3> QED BY <3>1 DEF Header, uint32
  <2>6. Counted'
    BY <2>1, <2>3, <2>5 DEF Counted
  <2> QED BY <2>4, <2>6
<1>5. CASE ProcessESL
  <2>1. Counted'
    BY <1>5, CountedTurn
  <2>2. Passed'
    <3>1. CASE base = buflen
      <4>1. base' = base /\ buflen' = buflen
        BY <1>5 DEF ProcessESL, Stop, Turn, file
      <4> QED BY <3>1, <4>1 DEF Passed
    <3>2. CASE base # buflen
      <4>1. /\ base' = base /\ buflen' = buflen /\ pc = "validate_esl_list"
        BY <1>5 DEF ProcessESL, Stop, Turn, file
      <4>2. base \in DOMAIN headers' /\ headers'[base] = headers[base]
        BY <1>5, <3>2, ProcessTurn
      <4> QED BY <3>2, <4>1, <4>2 DEF Passed
    <3> QED BY <3>1, <3>2
  <2> QED BY <2>1, <2>2
<1>6. CASE AuthToESL
  <2>1. pc' = "done"
    BY <1>6 DEF AuthToESL, Stop, Start
  <2> QED BY <2>1 DEF Passed, Counted
<1>7. CASE PrintESL
  <2>1. pc' \in {"print", "done"}
    BY <1>7 DEF PrintESL, EndOfESLs, Turn
  <2> QED BY <2>1 DEF Passed, Counted
<1>8. CASE UNCHANGED vars
  BY <1>8 DEF vars, file, Passed, Counted
<1> QED BY <1>1, <1>2, <1>3, <1>4, <1>5, <1>6, <1>7, <1>8 DEF Next

(* What the loop returns, and when: the closed form's two cases.            *)
LEMMA ClosedForm ==
  ASSUME NEW size \in Nat, NEW list \in Nat \ {0}, NEW k \in Nat, NEW left,
         left = size - list * k,
         k > 0 => left + list >= ListHeader + Guid,
         size >= ListHeader
  PROVE  LET q == (size - ListHeader) \div list
         IN  /\ q \in Nat
             /\ left < ListHeader => q + 1 = k /\ size - q * list >= ListHeader + Guid
             /\ ListHeader <= left /\ left < ListHeader + Guid =>
                  size - q * list < ListHeader + Guid
<1> DEFINE a == size - ListHeader
           q == a \div list
<1>1. a \in Nat /\ list * k \in Int /\ left = a + 28 - list * k
  BY DEF ListHeader
<1>2. q \in Nat /\ (a >= list * k => q >= k) /\ (a < list * k => q < k)
  BY <1>1, DivBounds
<1> HIDE DEF a, q
<1>3. \A b, n \in Nat : b * n = n * b /\ b * n \in Int
  BY SMT
<1>4. ASSUME left < ListHeader PROVE q + 1 = k /\ size - q * list >= ListHeader + Guid
  <2>1. a < list * k
    BY <1>1, <1>4 DEF ListHeader
  <2>2. k > 0 /\ k - 1 \in Nat
    BY <1>2, <2>1
  <2>3. list * (k - 1) = list * k - list
    BY <2>2, SMT
  <2>4. a >= list * (k - 1)
    BY <1>1, <2>2, <2>3 DEF ListHeader, Guid
  <2>5. q >= k - 1
    BY <1>1, <2>2, <2>4, DivBounds DEF q
  <2>6. q + 1 = k
    BY <1>2, <2>1, <2>5
  <2>7. q * list = list * k - list
    BY <1>2, <1>3, <2>3, <2>6
  <2>8. size = a + 28
    BY DEF a, ListHeader
  <2> QED BY <1>1, <2>2, <2>6, <2>7, <2>8 DEF ListHeader, Guid
<1>5. ASSUME ListHeader <= left, left < ListHeader + Guid
      PROVE  size - q * list < ListHeader + Guid
  <2>1. q >= k
    BY <1>1, <1>2, <1>5 DEF ListHeader
  <2>2. list * k <= list * q
    BY <1>2, <2>1, TimesGrows
  <2>3. q * list = list * q /\ list * q \in Int
    BY <1>2, <1>3
  <2> QED BY <1>1, <1>5, <2>2, <2>3 DEF ListHeader, Guid
<1> QED BY <1>2, <1>4, <1>5 DEF a, q

(* Whatever the sizes in an update that was validated, the loop that takes  *)
(* the first list again and again ends with the count, or the error, of the *)
(* closed form that the backend's model is built on (validate_esl_list,     *)
(* edk2-compat-process.c:277-357).                                          *)
THEOREM ClosedFormTheorem == Spec => LoopIsClosedForm
<1>1. Init => Passed /\ Counted
  BY DEF Init, Passed, Counted
<1>2. Inv /\ FirstSeen /\ Passed /\ Counted /\ [Next]_vars =>
        [ /\ pc = "validate_esl_list" /\ pc' # pc
          /\ base \in DOMAIN headers' => headers'[base].hdr = 0
          => rc' = Abstract!validate_esl_list("db", Contents) ]_vars
  <2> SUFFICES ASSUME Inv, Passed, Counted, Next, pc = "validate_esl_list", pc' # pc,
                      base \in DOMAIN headers' => headers'[base].hdr = 0
               PROVE  rc' = Abstract!validate_esl_list("db", Contents)
    BY DEF vars
  <2>1. ProcessESL
    BY DEF Next, ValidateAuth, ValidateESL, Accepted, ProcessUpdate, AuthToESL, PrintESL
  <2>2. /\ count \in Nat /\ base \in Nat /\ buflen \in Nat /\ base <= buflen
        /\ eslvarsize \in Int
    BY Positions DEF Inv, TypeOK
  <2> DEFINE size == buflen - base
  <2>3. CASE base = buflen
    <3>1. count = 0 /\ eslvarsize = 0 /\ rc' = 0
      BY <2>1, <2>3 DEF Counted, ProcessESL, Stop, ListHeader
    <3>2. Contents.size = 0
      BY <2>2, <2>3 DEF Contents
    <3> QED BY <3>1, <3>2 DEF Abstract!validate_esl_list, Abstract!ListHeader
  <2>4. CASE base # buflen
    <3> DEFINE h     == headers[base]
               first == Contents.esls[1]
               q     == (size - ListHeader) \div h.list
    <3>1. /\ base \in DOMAIN headers' /\ headers'[base] = h
          /\ h.list \in Nat \ {0} /\ h.good
          /\ IF eslvarsize < ListHeader THEN Stop(count)
             ELSE IF ListHeader + h.hdr + Guid > eslvarsize THEN Stop(OPAL_PARAMETER)
             ELSE Turn(h)
      BY <2>1, <2>4, ProcessTurn
    <3>2. h.hdr = 0
      BY <3>1
    <3>3. /\ Contents.size = size /\ first.size = h.list
          /\ first.type = "X509" /\ first.sig = "cert"
      BY <3>1 DEF Contents
    <3>4. Abstract!GoodESL("db", first)
      BY <3>3 DEF Abstract!GoodESL
    <3> HIDE DEF h, first, q, size
    <3> DEFINE turns == (Contents.size - 28) \div first.size + 1
    <3>5. /\ turns = q + 1
          /\ Abstract!validate_esl_list("db", Contents)
               = IF size < 28 THEN 0
                 ELSE IF size - (turns - 1) * h.list < 28 + 16 THEN -1 ELSE turns
      <4>1. Abstract!validate_esl_list("db", Contents)
              = IF Contents.size < 28 THEN 0
                ELSE IF \/ ~Abstract!GoodESL("db", first)
                        \/ Contents.size - (turns - 1) * first.size < 28 + 16
                        \/ "db" = "PK" /\ turns > 1
                     THEN -1 ELSE turns
        BY DEF Abstract!validate_esl_list, Abstract!ListHeader, Abstract!MinESL,
           Abstract!OPAL_PARAMETER, first
      <4>2. turns = q + 1
        BY <3>3 DEF q, ListHeader
      <4> HIDE DEF turns
      <4> QED BY <3>3, <3>4, <4>1, <4>2
    <3> HIDE DEF turns
    <3>6. eslvarsize = size - h.list * count /\ size \in Nat
          /\ (count > 0 => eslvarsize + h.list >= ListHeader + Guid)
      BY <2>2, <2>4 DEF Counted, size, h
    <3>7. CASE size < ListHeader
      <4>1. count = 0 /\ eslvarsize < ListHeader
        <5>1. h.list * count \in Nat
          BY <2>2, <3>1
        <5>2. eslvarsize < ListHeader
          BY <3>6, <3>7, <5>1 DEF ListHeader
        <5>3. count > 0 => h.list * count >= h.list
          <6>1. h.list \in Nat /\ count \in Nat
            BY <2>2, <3>1
          <6> QED BY <6>1, TimesIsMore
        <5> QED BY <2>2, <3>1, <3>6, <3>7, <5>1, <5>2, <5>3 DEF ListHeader, Guid
      <4> QED BY <3>1, <3>5, <3>7, <4>1 DEF Stop, ListHeader
    <3>8. CASE size >= ListHeader
      <4>1. /\ q \in Nat
            /\ eslvarsize < ListHeader =>
                 q + 1 = count /\ size - q * h.list >= ListHeader + Guid
            /\ ListHeader <= eslvarsize /\ eslvarsize < ListHeader + Guid =>
                 size - q * h.list < ListHeader + Guid
        BY <2>2, <3>1, <3>6, <3>8, ClosedForm DEF q
      <4>2. turns - 1 = q /\ (turns - 1) * h.list = q * h.list
        BY <3>5, <4>1
      <4>3. CASE eslvarsize < ListHeader
        BY <3>1, <3>5, <3>6, <3>8, <4>1, <4>2, <4>3 DEF Stop, ListHeader, Guid
      <4>4. CASE ~(eslvarsize < ListHeader)
        <5>1. ListHeader + 0 + Guid > eslvarsize /\ Stop(OPAL_PARAMETER)
          BY <3>1, <3>2, <4>4 DEF Turn
        <5> QED BY <2>2, <3>5, <3>6, <3>8, <4>1, <4>2, <4>4, <5>1
            DEF Stop, ListHeader, Guid, OPAL_PARAMETER
      <4> QED BY <4>3, <4>4
    <3> QED BY <3>6, <3>7, <3>8 DEF ListHeader
  <2> QED BY <2>3, <2>4
<1>3. Init => FirstSeen
  BY DEF Init, FirstSeen
<1> QED BY <1>1, <1>2, <1>3, FirstSeenStep, CarriedStep, InvHolds, PTL
    DEF Spec, LoopIsClosedForm

=============================================================================
