----------------------------- MODULE ReadCommand -----------------------------
(***************************************************************************)
(* `secvarctl read' (backends/edk2-compat/edk2-svc-read.c): show the       *)
(* variables of a directory, or one ESL file.                              *)
(*                                                                         *)
(* A variable is a `data' file, of which its length and the headers that   *)
(* printReadable finds in it are told apart, and a `size' file, which is   *)
(* text.  A character is its value as a digit (0 to 15 for 0-9 and a-f),   *)
(* or one of the names below.  The files change at boot only, so that      *)
(* nobody writes them while the command runs.                              *)
(***************************************************************************)
EXTENDS Integers, Sequences, FiniteSetsExt, SequencesExt

CONSTANTS Directories,   \* what -p (or the default) may hold: name -> files
          InFiles,       \* what -f may be given: data files, or Missing
          Missing,       \* no such file, or one that cannot be read
          None,          \* option not given
          MaxDigits,     \* how much of a size file is read: 8
          SizeMod,       \* 2^64, size_t
          StampSize,     \* sizeof(struct efi_time)
          ListHeader,    \* sizeof(EFI_SIGNATURE_LIST)
          Guid,          \* sizeof(uuid_t)
          MaxData        \* bound: length of a data file

ASSUME SizeAssumption ==
  /\ MaxDigits \in Nat \ {0} /\ StampSize \in Nat \ {0} /\ MaxData \in Nat
  /\ ListHeader \in Nat \ {0} /\ Guid \in Nat
  /\ SizeMod \in Nat /\ SizeMod > 16 * MaxData

variables == <<"PK", "KEK", "db", "dbx", "TS">>
Names     == ToSet(variables)

SUCCESS           == 0
ESL_FAIL          == -3
INVALID_VAR_NAME  == -6
INVALID_FILE      == -7
INVALID_TIMESTAMP == -9
ALLOC_FAIL        == -11

X     == 16          \* x or X
Minus == 17
Space == 18          \* a blank or the newline
Char  == 0..19       \* 19 is any other

(* The k-th list is what is found after the sizes of those before it; cert  *)
(* is whether the bytes of its signature are a certificate that can be     *)
(* described.  After the last there is nothing that could be a list.        *)
Header   == [list : Nat, hdr : Nat, sig : Nat, cert : BOOLEAN]
Nothing  == [list |-> 0, hdr |-> 0, sig |-> 0, cert |-> FALSE]
DataFile == [length : 0..MaxData, lists : Seq(Header)]
VarFiles == [data : {Missing} \cup DataFile, size : {Missing} \cup Seq(Char)]

ASSUME FilesAssumption ==
  /\ Directories \subseteq [Names -> VarFiles]
  /\ InFiles \subseteq {Missing} \cup DataFile

VARIABLES var, inFile, hrFlag,   \* the arguments of readFiles
          dir,                   \* the directory
          pc, i, rc, successCount,
          given, eslvarsize, nth, \* printReadable: bytes, bytes left, list
          found,                 \* ... and whether its count is not 0
          printed,               \* the lists printed: {<<name, nth, left>>}
          shown,                 \* what has been shown: {<<name, bytes>>}
          lost                   \* the names for which memory ran out

args == <<var, inFile, hrFlag, dir>>
loop == <<given, eslvarsize, nth, found>>
vars == <<args, pc, i, rc, successCount, loop, printed, shown, lost>>

-----------------------------------------------------------------------------
(* strtol(c, NULL, 0): blanks, a sign, and 0x or 0 to choose the base.     *)
Leading(chars, text) ==
  CHOOSE n \in 0..Len(text) :
    /\ \A j \in 1..n : text[j] \in chars
    /\ n < Len(text) => text[n + 1] \notin chars
Drop(n, text) == SubSeq(text, n + 1, Len(text))

Value(base, text) ==
  LET digits == SubSeq(text, 1, Leading(0..(base - 1), text))
      sum[n \in 0..Len(digits)] == IF n = 0 THEN 0 ELSE base * sum[n - 1] + digits[n]
  IN  sum[Len(digits)]

Unsigned(text) ==
  IF Len(text) >= 3 /\ text[1] = 0 /\ text[2] = X /\ text[3] < 16
  THEN Value(16, Drop(2, text))
  ELSE IF Len(text) >= 1 /\ text[1] = 0 THEN Value(8, text)
  ELSE Value(10, text)

strtol(text) ==
  LET word == Drop(Leading({Space}, text), text)
  IN  IF Len(word) > 0 /\ word[1] = Minus THEN -Unsigned(Drop(1, word))
      ELSE Unsigned(word)

(* The size is unsigned: -1 is as large as it gets. *)
getSizeFromSizeFile(text) ==
  IF text = Missing \/ text = << >> THEN [rc |-> INVALID_FILE, size |-> 0]
  ELSE LET head == SubSeq(text, 1, Min({MaxDigits, Len(text)}))
           size == strtol(head) % SizeMod
       IN  [rc   |-> IF size = 0 /\ head[1] # 0 THEN INVALID_FILE ELSE SUCCESS,
            size |-> size]

(* Fault: as many bytes as the size file says, whether they are there. *)
getSecVar_NoLength(files) ==
  IF files.data = Missing THEN [rc |-> INVALID_FILE, size |-> 0]
  ELSE getSizeFromSizeFile(files.size)

getSecVar(files) ==
  IF files.data = Missing THEN [rc |-> INVALID_FILE, size |-> 0]
  ELSE LET stated == getSizeFromSizeFile(files.size)
       IN  IF stated.rc # SUCCESS THEN [rc |-> INVALID_FILE, size |-> 0]
           ELSE IF files.data.length < stated.size THEN [rc |-> INVALID_FILE, size |-> 0]
           ELSE stated

readTS(size) == IF size = 4 * StampSize THEN SUCCESS ELSE INVALID_TIMESTAMP

getDataFromFile(data) ==
  IF data = Missing THEN [rc |-> INVALID_FILE, size |-> 0]
                    ELSE [rc |-> SUCCESS, size |-> data.length]

-----------------------------------------------------------------------------
(* parse_opt: a name, if there is one, must be a variable's. *)
Init ==
  /\ var \in Names \cup {None, "foo"}
  /\ inFile \in InFiles \cup {None}
  /\ hrFlag \in BOOLEAN
  /\ dir \in Directories
  /\ i = 1 /\ successCount = 0 /\ printed = {} /\ shown = {} /\ lost = {}
  /\ given = 0 /\ eslvarsize = 0 /\ nth = 1 /\ found = FALSE
  /\ IF var \in Names \cup {None} THEN pc = "readFiles" /\ rc = SUCCESS
                                  ELSE pc = "out" /\ rc = INVALID_VAR_NAME

Subject      == IF inFile = None THEN variables[i] ELSE "file"
DataOf(name) == IF name = "file" THEN inFile ELSE dir[name].data

Skip ==
  /\ pc = "readFiles" /\ inFile = None /\ i <= Len(variables)
  /\ var \notin {None, variables[i]}
  /\ i' = i + 1
  /\ UNCHANGED <<args, pc, rc, successCount, loop, printed, shown, lost>>

(* Fault: the first variable that cannot be shown ends the loop. *)
Counted_Stops(read) ==
  /\ pc' = "readFiles" /\ rc' = read.rc
  /\ IF read.rc = SUCCESS
     THEN successCount' = successCount + 1 /\ shown' = shown \cup {<<Subject, read.size>>}
     ELSE UNCHANGED <<successCount, shown>>
  /\ i' = IF inFile = None /\ read.rc = SUCCESS THEN i + 1 ELSE Len(variables) + 1
  /\ given' = 0 /\ eslvarsize' = 0 /\ nth' = 1 /\ found' = FALSE

(* Back in readFiles, with what was read; printReadable's locals are gone. *)
Counted(read) ==
  /\ pc' = "readFiles" /\ rc' = read.rc
  /\ IF read.rc = SUCCESS
     THEN successCount' = successCount + 1 /\ shown' = shown \cup {<<Subject, read.size>>}
     ELSE UNCHANGED <<successCount, shown>>
  /\ i' = IF inFile = None THEN i + 1 ELSE Len(variables) + 1
  /\ given' = 0 /\ eslvarsize' = 0 /\ nth' = 1 /\ found' = FALSE

(* printReadable is called. *)
printReadable(bytes) ==
  /\ pc' = "printReadable" /\ given' = bytes /\ eslvarsize' = bytes
  /\ nth' = 1 /\ found' = FALSE
  /\ UNCHANGED <<i, rc, successCount, shown>>

(* It is the turn of a variable, or of the file. *)
Turn ==
  /\ pc = "readFiles"
  /\ IF inFile = None THEN i <= Len(variables) /\ var \in {None, variables[i]}
                      ELSE i = 1

ReadVariable ==
  /\ Turn /\ inFile = None
  /\ LET read == getSecVar(dir[Subject])
     IN  IF read.rc # SUCCESS \/ ~hrFlag \/ read.size = 0 THEN Counted(read)
         ELSE IF Subject = "TS" THEN Counted([read EXCEPT !.rc = readTS(read.size)])
         ELSE printReadable(read.size)
  /\ UNCHANGED <<args, printed, lost>>

ReadFile ==
  /\ Turn /\ inFile # None
  /\ LET read == getDataFromFile(inFile)
     IN  IF read.rc # SUCCESS \/ ~hrFlag THEN Counted(read) ELSE printReadable(read.size)
  /\ UNCHANGED <<args, printed, lost>>

(* malloc failed, for the path, for the text of the size or for the data. *)
NoMem ==
  /\ Turn
  /\ \E code \in {ALLOC_FAIL, INVALID_FILE} : Counted([rc |-> code, size |-> 0])
  /\ lost' = lost \cup {Subject}
  /\ UNCHANGED <<args, printed>>

-----------------------------------------------------------------------------
(* printReadable.                                                          *)

Here == LET lists == DataOf(Subject).lists
        IN  IF nth \in DOMAIN lists THEN lists[nth] ELSE Nothing

(* The sizes are uint32_t, and so is the sum: but one that wraps is of sizes *)
(* beyond what is left.  A list's size need not be positive.               *)
Logical(h) == h.list > 0 => (h.sig > 0 \/ h.hdr > 0) /\ h.list >= h.hdr + h.sig
Sized(h, left) ==
  /\ left >= ListHeader
  /\ Logical(h) /\ h.list <= left /\ h.hdr <= left /\ h.sig <= left
  /\ h.sig > Guid                        \* or get_esl_cert fails

(* The list's own header is not in that sum: get_esl_cert may copy bytes    *)
(* from behind the buffer, which are a certificate or not.                  *)
Parses(h, left) ==
  IF Subject = "dbx" THEN {TRUE}
  ELSE IF ListHeader + h.hdr + h.sig > left THEN BOOLEAN ELSE {h.cert}

(* A list of size 0 is read again. *)
PrintESL ==
  /\ pc = "printReadable"
  /\ Sized(Here, eslvarsize) /\ TRUE \in Parses(Here, eslvarsize)
  /\ printed' = printed \cup {<<Subject, nth, eslvarsize>>}
  /\ eslvarsize' = eslvarsize - Here.list
  /\ nth' = IF Here.list = 0 THEN nth ELSE nth + 1
  /\ found' = TRUE
  /\ UNCHANGED <<args, pc, i, rc, successCount, given, shown, lost>>

(* One list is enough. *)
Return == Counted([rc |-> IF found THEN SUCCESS ELSE ESL_FAIL, size |-> given])

EndOfESLs ==
  /\ pc = "printReadable"
  /\ Sized(Here, eslvarsize) => FALSE \in Parses(Here, eslvarsize)
  /\ Return
  /\ UNCHANGED <<args, printed, lost>>

(* ... for the signature, the certificate or its description. *)
PrintNoMem ==
  /\ pc = "printReadable" /\ Sized(Here, eslvarsize)
  /\ Return
  /\ lost' = lost \cup {Subject}
  /\ UNCHANGED <<args, printed>>

-----------------------------------------------------------------------------
(* Fault: what the last one returned is returned. *)
Finish_LastRc ==
  /\ pc = "readFiles" /\ i > Len(variables)
  /\ pc' = "out"
  /\ UNCHANGED <<args, i, rc, successCount, loop, printed, shown, lost>>

Finish ==
  /\ pc = "readFiles" /\ i > Len(variables)
  /\ pc' = "out"
  /\ rc' = IF successCount < 1 THEN INVALID_FILE ELSE SUCCESS
  /\ UNCHANGED <<args, i, successCount, loop, printed, shown, lost>>

Next == \/ Skip \/ ReadVariable \/ ReadFile \/ NoMem
        \/ PrintESL \/ EndOfESLs \/ PrintNoMem
        \/ Finish

Spec == Init /\ [][Next]_vars

-----------------------------------------------------------------------------
(* n bytes of a file that is there. *)
Within(name, n) == DataOf(name) # Missing /\ n \in 0..DataOf(name).length

(* Types: of no file are more bytes handed on to be printed than it has,    *)
(* whatever its size file says, and each list printed has its header among  *)
(* them (getSecVar, 302-323; printReadable, 357-362).  Where the signature  *)
(* ends is another matter: SignatureNearItsList of Formats.                  *)
TypeOK ==
  /\ pc \in {"readFiles", "printReadable", "out"}
  /\ i \in 1..(Len(variables) + 1)
  /\ rc \in {SUCCESS, INVALID_VAR_NAME, INVALID_FILE, INVALID_TIMESTAMP, ALLOC_FAIL, ESL_FAIL}
  /\ successCount \in 0..Len(variables)
  /\ lost \subseteq Names \cup {"file"}
  /\ pc = "printReadable" => Within(Subject, given) /\ eslvarsize \in 0..given
  /\ \A s \in shown : Within(s[1], s[2])
  /\ \A p \in printed : Within(p[1], p[3]) /\ p[3] >= ListHeader

(* The command fails exactly if there was nothing it could show, whatever   *)
(* came last (readFiles, 134 and 160-163: "program is successful if at      *)
(* least one var was able to be read").                                     *)
SuccessMeansShown == pc = "out" => (rc = SUCCESS <=> shown # {})

(* The size file of n bytes, as the driver writes it: decimal, a newline. *)
Stated(files, n) ==
  /\ files.size \notin {Missing, << >>}
  /\ LET digits == Front(files.size)
     IN  /\ digits \in Seq(0..9) \ {<< >>} /\ Len(digits) <= MaxDigits
         /\ digits[1] = 0 => n = 0 /\ Len(digits) = 1
         /\ Value(10, digits) = n
         /\ Last(files.size) = Space

(* The k-th list is whole in the last n bytes, signature and all. *)
Whole(name, k, n) ==
  /\ k \in DOMAIN DataOf(name).lists
  /\ LET h == DataOf(name).lists[k]
     IN  /\ ListHeader + h.hdr + h.sig <= h.list /\ h.list <= n
         /\ h.sig > Guid /\ (name = "dbx" \/ h.cert)

(* The files are as the driver leaves them, and start with something that   *)
(* can be shown; so for the file of -f.                                     *)
Sound(name, n) ==
  /\ DataOf(name) # Missing
  /\ name = "file" \/ Stated(dir[name], n)
  /\ n <= DataOf(name).length
  /\ \/ ~hrFlag
     \/ name # "file" /\ n = 0
     \/ IF name = "TS" THEN n = 4 * StampSize ELSE Whole(name, 1, n)

Meant(name) == IF name = "file" THEN inFile.length ELSE Value(10, Front(dir[name].size))
Asked(name) == IF inFile = None THEN name \in Names /\ var \in {None, name} ELSE name = "file"

(* The list that follows one printed, if it is whole, is printed too. *)
Followed(p) ==
  LET step == DataOf(p[1]).lists[p[2]].list
  IN  step > 0 /\ Whole(p[1], p[2] + 1, p[3] - step)
        => <<p[1], p[2] + 1, p[3] - step>> \in printed

(* One variable's broken files hide no other variable, and one broken list  *)
(* none in front of it: each variable that was asked for and has a size     *)
(* file as the driver writes it has been shown with that many bytes by the  *)
(* end, if they start with a list that makes sense, and every list that is  *)
(* whole and follows one printed has been printed; unless the memory for it *)
(* ran out (readFiles, readFileFromSecVar, getSecVar, getSizeFromSizeFile,  *)
(* strtol, printReadable).                                                  *)
SoundIsShown ==
  pc = "out" /\ var \in Names \cup {None} =>
    /\ \A name \in (Names \cup {"file"}) \ lost :
         Asked(name) /\ Sound(name, Meant(name)) => <<name, Meant(name)>> \in shown
    /\ \A p \in printed : p[1] \notin lost => Followed(p)

(* edk2-svc-read.c:591: "turn string into base 10 int".  What a size file   *)
(* of decimal digits says is what is shown.                                 *)
SizeIsBase10 ==
  \A s \in shown : inFile = None =>
    LET text == dir[s[1]].size
    IN  (\A j \in 1..(Len(text) - 1) : text[j] \in 0..9) /\ Len(text) <= MaxDigits =>
          Value(10, text) = s[2]
=============================================================================
