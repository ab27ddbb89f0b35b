------------------------------- MODULE Formats -------------------------------
(***************************************************************************)
(* The lengths in a file, and the functions that walk by them: where an    *)
(* auth file is split into its descriptor and the appended ESLs            *)
(* (validateAuth, get_auth_descriptor2, authToESL), and the three loops    *)
(* over ESLs (validateESL, validate_esl_list and the one of printReadable).*)
(*                                                                         *)
(* A file is its length, the dw_length an auth file starts with, and what  *)
(* would be read as an ESL header at an offset, with whether the signature *)
(* there decodes to what its type asks for.  A header is chosen when it is *)
(* first read, so a file is as odd as a file can be.  The arithmetic has   *)
(* the code's widths: uint32_t has WORD values, size_t SIZE.               *)
(***************************************************************************)
EXTENDS Integers, Sequences

CONSTANTS WORD,       \* 2^32, or less for TLC
          SIZE,       \* 2^64, or less for TLC
          MaxLength,  \* files are shorter than an int can say
          Lengths, DwLengths, Headers,  \* what a file may be made of
          Tasks       \* of verify, generate, force (generate -f), read

ASSUME WidthAssumption ==
  /\ WORD \in Nat /\ SIZE \in Nat /\ MaxLength \in Nat \ {0}
  /\ 2 * MaxLength < WORD /\ 4 * WORD <= SIZE /\ WORD > 80

uint32 == 0 .. WORD - 1
Header == [list : uint32, hdr : uint32, sig : uint32, good : BOOLEAN]

ASSUME FileAssumption ==
  /\ Lengths \subseteq 0 .. MaxLength
  /\ DwLengths \subseteq uint32
  /\ Headers \subseteq Header
  /\ Tasks \subseteq {"verify", "generate", "force", "read"}

VARIABLES task, buflen, dw_length, headers,  \* the file and what is done to it
          pc, offset, eslvarsize, count, rc,
          base                               \* where a reader found the ESLs

file == <<task, buflen, dw_length>>
vars == <<file, headers, pc, offset, eslvarsize, count, rc, base>>

SUCCESS == 0
AUTH_FAIL == -1
PKCS7_FAIL == -2
ESL_FAIL == -3
OPAL_PARAMETER == -1
OPAL_NO_MEM == -9

Guid       == 16
Timestamp  == 16
AuthHeader == 40    \* sizeof(struct efi_variable_authentication_2)
ListHeader == 28    \* sizeof(EFI_SIGNATURE_LIST)

(* size_t and ssize_t *)
Minus(a, b) == IF a >= b THEN a - b ELSE a - b + SIZE
ssize(n)    == IF 2 * n >= SIZE THEN n - SIZE ELSE n
int(n)      == IF 2 * n >= WORD THEN n - WORD ELSE n

-----------------------------------------------------------------------------
(* The split of an auth file.                                              *)

get_pkcs7_len(dw) == Minus(dw, AuthHeader - Timestamp)

(* The size of the descriptor, or AUTH_FAIL. *)
validateAuth(dw, len) ==
  LET authSize == dw + Timestamp
      pkcs7    == get_pkcs7_len(dw)
  IN  IF \/ len < AuthHeader
         \/ ssize(authSize) <= 0 \/ authSize > len
         \/ ssize(pkcs7) <= 0    \/ pkcs7 > authSize
      THEN AUTH_FAIL ELSE authSize

(* Fault: the size without the timestamp. *)
get_auth_descriptor2_NoTime(dw, len) ==
  IF len < AuthHeader \/ get_pkcs7_len(dw) > len THEN OPAL_PARAMETER
  ELSE AuthHeader - Timestamp + get_pkcs7_len(dw)

get_auth_descriptor2(dw, len) ==
  IF len < AuthHeader \/ get_pkcs7_len(dw) > len THEN OPAL_PARAMETER
  ELSE AuthHeader + get_pkcs7_len(dw)

(* Fault: what is left of the file is not looked at. *)
authToESL_Unchecked(dw, len) ==
  LET pkcs7 == get_pkcs7_len(dw)
  IN  IF dw = 0 \/ dw > len THEN AUTH_FAIL
      ELSE IF pkcs7 = 0 \/ pkcs7 > dw THEN PKCS7_FAIL
      ELSE Timestamp + dw

(* Where the ESLs start, or an error. *)
authToESL(dw, len) ==
  LET pkcs7 == get_pkcs7_len(dw)
  IN  IF dw = 0 \/ dw > len THEN AUTH_FAIL
      ELSE IF pkcs7 = 0 \/ pkcs7 > dw THEN PKCS7_FAIL
      ELSE IF AuthHeader + pkcs7 > len THEN ESL_FAIL
      ELSE Timestamp + dw

-----------------------------------------------------------------------------
(* One ESL.  The sum of the two sizes is a uint32_t.                       *)

Logical(h) ==
  h.list > 0 => /\ h.sig > 0 \/ h.hdr > 0
                /\ h.list >= (h.hdr + h.sig) % WORD
(* Fault: only the size of the list is compared with what is left.          *)
Fits_ListOnly(h, left) == h.list <= left

Fits(h, left) == h.list <= left /\ h.hdr <= left /\ h.sig <= left

(* Fault: a size of zero is not refused. *)
validateSingularESL_AnySize(h, left) ==
  /\ left >= ListHeader
  /\ Logical(h) /\ Fits(h, left)
  /\ ssize(Minus(h.sig, Guid)) > 0
  /\ h.good

validateSingularESL(h, left) ==
  /\ left >= ListHeader
  /\ Logical(h) /\ Fits(h, left) /\ int(h.list) > 0
  /\ ssize(Minus(h.sig, Guid)) > 0      \* get_esl_cert of read
  /\ h.good

(* What printReadable prints: the same but for the sign of the list's size. *)
Printable(h, left) ==
  /\ left >= ListHeader
  /\ Logical(h) /\ Fits(h, left)
  /\ ssize(Minus(h.sig, Guid)) > 0
  /\ h.good

(* Fault: the signature is not asked to start inside what is left. *)
get_esl_cert_Anywhere(h, left) ==
  IF ssize(Minus(h.sig, Guid)) < 0 THEN OPAL_NO_MEM
  ELSE IF ~h.good THEN OPAL_PARAMETER
  ELSE SUCCESS

(* A turn of validate_esl_list, after the check of the list's size; more    *)
(* memory than SIZE \div 2 there is not.                                    *)
get_esl_cert(h, left) ==
  IF ListHeader + h.hdr + Guid > left THEN OPAL_PARAMETER
  ELSE IF ssize(Minus(h.sig, Guid)) < 0 THEN OPAL_NO_MEM
  ELSE IF ~h.good THEN OPAL_PARAMETER
  ELSE SUCCESS

-----------------------------------------------------------------------------
Init ==
  /\ task \in Tasks
  /\ buflen \in Lengths
  /\ dw_length \in IF task = "read" THEN {0} ELSE DwLengths
  /\ headers = << >>
  /\ pc = CASE task = "read"  -> "print"
            [] task = "force" -> "authToESL"
            [] OTHER          -> "validateAuth"
  /\ offset = 0 /\ eslvarsize = buflen /\ base = 0
  /\ count = 0 /\ rc = SUCCESS

(* The header at an offset from base, the same whenever it is read. *)
At(i) == base + i
HeaderAt(i) == IF At(i) \in DOMAIN headers THEN {headers[At(i)]} ELSE Headers
Read(i, h)  == headers' = [j \in DOMAIN headers \cup {At(i)} |->
                             IF j = At(i) THEN h ELSE headers[j]]

Stop(code) ==
  /\ pc' = "done" /\ rc' = code
  /\ UNCHANGED <<file, offset, eslvarsize, count, base>>

(* A loop is started on what follows the first n bytes. *)
Start(label, n) ==
  /\ pc' = label /\ rc' = SUCCESS
  /\ base' = n /\ eslvarsize' = Minus(buflen, n)
  /\ offset' = 0 /\ count' = 0
  /\ UNCHANGED <<file, headers>>

(* validateESL is not called for a reset file. *)
ValidateAuth ==
  /\ pc = "validateAuth"
  /\ LET n == validateAuth(dw_length, buflen)
     IN  IF n < 0 THEN Stop(n) /\ UNCHANGED headers
         ELSE Start(IF n = buflen THEN "accepted" ELSE "validateESL", n)

(* The command goes on with what it has validated. *)
Accepted ==
  /\ pc = "accepted"
  /\ IF task = "generate" THEN pc' = "authToESL" ELSE pc' = "process_update"
  /\ UNCHANGED <<file, headers, offset, eslvarsize, count, rc, base>>

ProcessUpdate ==
  /\ pc = "process_update"
  /\ LET n == get_auth_descriptor2(dw_length, buflen)
     IN  IF n < 0 THEN Stop(n) /\ UNCHANGED headers
         ELSE Start("validate_esl_list", n)

AuthToESL ==
  /\ pc = "authToESL"
  /\ LET n == authToESL(dw_length, buflen)
     IN  IF n < 0 THEN Stop(n) /\ UNCHANGED headers ELSE Start("done", n)

(* Fault: the ESLs that were good are not counted. *)
Turn_NoCount(h) ==
  /\ offset' = offset + h.list
  /\ eslvarsize' = eslvarsize - h.list
  /\ UNCHANGED <<file, pc, rc, base, count>>

(* The loop goes on behind the list whose header is h.  The count of an     *)
(* endless loop comes round after MaxLength.                                *)
Turn(h) ==
  /\ offset' = offset + h.list
  /\ eslvarsize' = eslvarsize - h.list
  /\ count' = (count % MaxLength) + 1
  /\ UNCHANGED <<file, pc, rc, base>>

(* A loop ends at an ESL that is not good or with too little left for one; *)
(* one good ESL is enough.  Errors of all kinds are ESL_FAIL here.          *)
EndOfESLs(after) ==
  /\ pc' = IF count > 0 THEN after ELSE "done"
  /\ rc' = IF count > 0 THEN SUCCESS ELSE ESL_FAIL
  /\ UNCHANGED <<file, offset, eslvarsize, count, base>>

ValidateESL ==
  /\ pc = "validateESL"
  /\ IF eslvarsize < ListHeader THEN EndOfESLs("accepted") /\ UNCHANGED headers
     ELSE \E h \in HeaderAt(offset) :
            /\ Read(offset, h)
            /\ IF validateSingularESL(h, eslvarsize) THEN Turn(h)
                                                     ELSE EndOfESLs("accepted")

PrintESL ==
  /\ pc = "print"
  /\ IF eslvarsize < ListHeader THEN EndOfESLs("done") /\ UNCHANGED headers
     ELSE \E h \in HeaderAt(offset) :
            /\ Read(offset, h)
            /\ IF Printable(h, eslvarsize) THEN Turn(h) ELSE EndOfESLs("done")

(* The header of the first ESL in every turn.  (A PK may have one ESL; the  *)
(* key is left out here.)                                                   *)
ProcessESL ==
  /\ pc = "validate_esl_list"
  /\ IF eslvarsize < ListHeader THEN Stop(count) /\ UNCHANGED headers
     ELSE \E h \in HeaderAt(0) :
            /\ Read(0, h)
            /\ IF int(h.list) <= 0 THEN Stop(OPAL_PARAMETER)
               ELSE IF get_esl_cert(h, eslvarsize) # SUCCESS
                    THEN Stop(get_esl_cert(h, eslvarsize))
                    ELSE Turn(h)

Next == \/ ValidateAuth \/ ValidateESL \/ Accepted
        \/ ProcessUpdate \/ ProcessESL \/ AuthToESL \/ PrintESL

(* One thread, and every function called here returns. *)
Spec == Init /\ [][Next]_vars /\ WF_vars(Next)

-----------------------------------------------------------------------------
(* Types: whatever the file says, the ESLs start inside it, also where      *)
(* generate -f splits a file nobody has validated (edk2-svc-generate.c:     *)
(* 720-748).                                                                *)
TypeOK ==
  /\ task \in Tasks /\ buflen \in Lengths /\ dw_length \in uint32
  /\ base \in 0 .. buflen
  /\ offset \in Nat /\ eslvarsize \in Int /\ count \in 0 .. MaxLength
  /\ rc \in Int
  /\ pc \in {"validateAuth", "validateESL", "accepted", "process_update",
             "validate_esl_list", "authToESL", "print", "done"}

(* The descriptor ends where validateAuth found it to end for each function *)
(* that splits the file after it: what was validated is what process_update *)
(* digests and authToESL extracts (edk2-svc-validate.c:195-218,             *)
(* edk2-compat-process.c:185-215, edk2-svc-generate.c:714-752).             *)
SplitsAgree ==
  /\ pc \in {"process_update", "validate_esl_list"} =>
       base = get_auth_descriptor2(dw_length, buflen)
  /\ pc = "authToESL" /\ task = "generate" =>
       base = authToESL(dw_length, buflen)

(* A sum of two sizes that has come round passes for a small one, but not   *)
(* all the comparisons: behind every list that a loop goes on from, the     *)
(* header and signature it states fit into the list, and the list into the  *)
(* file, as numbers without a width (edk2-svc-validate.c:378-405,           *)
(* edk2-svc-read.c:365-407).  get_esl_cert copies from behind the header of *)
(* the list itself, so that what it copies ends at most those 28 bytes      *)
(* behind the list.  A list of size 0, which read prints, is not gone on    *)
(* from.                                                                    *)
SignatureNearItsList ==
  [][ offset' # offset /\ pc \in {"validateESL", "print"} =>
        LET h == headers'[base + offset]
        IN  h.hdr + h.sig <= h.list /\ base + offset' <= buflen ]_vars

(* validateESL's verdict is that of the first ESL alone (as it is in        *)
(* VerifyCommand).                                                          *)
VerdictIsFirst ==
  [][ pc = "validateESL" /\ pc' # pc =>
        (pc' = "accepted" <=> /\ base \in DOMAIN headers'
                              /\ validateSingularESL(headers'[base], buflen - base))
    ]_vars

(* Once validated, the ESLs of an update whose first list states a header   *)
(* size of 0 are counted by validate_esl_list as in the closed form of      *)
(* Edk2Update (edk2-compat-process.c:277-357).  With another header size    *)
(* the loop asks for that many bytes more in its last turn (144-149), and   *)
(* the closed form does not stand for it.                                   *)
Abstract == INSTANCE Edk2Update WITH
  Certs <- {"cert"}, Hashes <- {}, Junk <- {"junk"}

Contents ==
  [size |-> buflen - base,
   esls |-> IF base \notin DOMAIN headers' THEN << >>
            ELSE << [type |-> "X509", size |-> headers'[base].list,
                     sig |-> IF headers'[base].good THEN "cert" ELSE "junk"] >>]

LoopIsClosedForm ==
  [][ /\ pc = "validate_esl_list" /\ pc' # pc
      /\ base \in DOMAIN headers' => headers'[base].hdr = 0
      => rc' = Abstract!validate_esl_list("db", Contents) ]_vars

(* validate, verify and generate come to the end of the file.               *)
Ends == task # "read" => <>(pc = "done")

(* So does read: edk2-svc-read.c:346 "@return SUCCESS or error number if    *)
(* failure".                                                                *)
ReadEnds == task = "read" => <>(pc = "done")

(* edk2-svc-validate.c:363 "only checks that sizes of field are valid": the *)
(* header and the signature of a list that was validated fit into the size  *)
(* of that list.                                                            *)
SignatureInItsList ==
  [][ pc = "validateESL" /\ offset' # offset =>
        LET h == headers'[base + offset]
        IN  ListHeader + h.hdr + h.sig <= h.list ]_vars
=============================================================================
