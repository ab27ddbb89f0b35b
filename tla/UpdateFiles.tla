----------------------------- MODULE UpdateFiles -----------------------------
(***************************************************************************)
(* Several processes writing one update file at once: `secvarctl write'    *)
(* (edk2-svc-write.c) step by step, with getDataFromFile and writeData of  *)
(* generic.c down to the system calls, while somebody else may replace     *)
(* their input files.  There is no lock.                                   *)
(*                                                                         *)
(* A file is a sequence of parts.  validateAuth accepts the sequences in   *)
(* Documents; a beginning of one, or a mixture of two, is none.  A read or *)
(* write is one call on an ordinary file: it is atomic, stores what it is  *)
(* given (short writes are in VerifyCommand) and starts at offset 0, since *)
(* each file is opened for it.                                             *)
(***************************************************************************)
EXTENDS Integers, Sequences

CONSTANTS Writers,
          Documents,   \* the contents validateAuth accepts
          Scraps,      \* other contents an input file may have
          Original,    \* of the update file
          Parts        \* what contents are sequences of

Contents == Documents \cup Scraps \cup {Original}

ASSUME ContentsAssumption == Contents \subseteq Seq(Parts)

VARIABLES input,     \* writer -> the contents of its input file
          target,    \* the contents of the update file
          pc, size, buffer, rc,   \* of each writer
          last,      \* the writers that have written, in order
          alone      \* writer -> nobody else touched target since it was opened

files == <<input, target>>
vars  == <<input, target, pc, size, buffer, rc, last, alone>>

SUCCESS == 0
AUTH_FAIL == -1

Init ==
  /\ input \in [Writers -> Documents \cup Scraps]
  /\ target = Original
  /\ pc = [w \in Writers |-> "stat"]
  /\ size = [w \in Writers |-> 0]
  /\ buffer = [w \in Writers |-> << >>]
  /\ rc = [w \in Writers |-> SUCCESS]
  /\ last = << >>
  /\ alone = [w \in Writers |-> TRUE]

Goto(w, label) == pc' = [pc EXCEPT ![w] = label]
Stop(w, code)  == Goto(w, "done") /\ rc' = [rc EXCEPT ![w] = code]

-----------------------------------------------------------------------------
(* getDataFromFile: fstat, then a read of as many bytes.  If there are      *)
(* fewer by now, validateAuth is called without a buffer and refuses that.  *)

Stat(w) ==
  /\ pc[w] = "stat"
  /\ size' = [size EXCEPT ![w] = Len(input[w])]
  /\ Goto(w, "read")
  /\ UNCHANGED <<files, buffer, rc, last, alone>>

ReadInput(w) ==
  /\ pc[w] = "read"
  /\ IF Len(input[w]) < size[w] THEN Stop(w, AUTH_FAIL) /\ buffer' = buffer
     ELSE /\ buffer' = [buffer EXCEPT ![w] = SubSeq(input[w], 1, size[w])]
          /\ Goto(w, "validate") /\ rc' = rc
  /\ UNCHANGED <<files, size, last, alone>>

(* Fault: an error is printed, and the command goes on. *)
Validate_GoesOn(w) ==
  /\ pc[w] = "validate"
  /\ Goto(w, "open")
  /\ rc' = [rc EXCEPT ![w] = IF buffer[w] \in Documents THEN rc[w] ELSE AUTH_FAIL]
  /\ UNCHANGED <<files, size, buffer, last, alone>>

(* validateAuth, on the buffer. *)
Validate(w) ==
  /\ pc[w] = "validate"
  /\ IF buffer[w] \in Documents THEN Goto(w, "open") /\ rc' = rc
                                ELSE Stop(w, AUTH_FAIL)
  /\ UNCHANGED <<files, size, buffer, last, alone>>

-----------------------------------------------------------------------------
(* writeData: open with O_TRUNC, then write.                               *)

Disturbs(w) == alone' = [v \in Writers |-> IF v = w THEN alone[v]
                                           ELSE alone[v] /\ pc[v] # "write"]

(* Fault: the file keeps its contents when it is opened. *)
Open_NoTrunc(w) ==
  /\ pc[w] = "open"
  /\ UNCHANGED target
  /\ Goto(w, "write")
  /\ Disturbs(w)
  /\ UNCHANGED <<input, size, buffer, rc, last>>

Open(w) ==
  /\ pc[w] = "open"
  /\ target' = << >>
  /\ Goto(w, "write")
  /\ Disturbs(w)
  /\ UNCHANGED <<input, size, buffer, rc, last>>

(* What a file holds after bytes were written over its beginning. *)
Overlay(bytes, old) ==
  [i \in 1 .. (IF Len(bytes) >= Len(old) THEN Len(bytes) ELSE Len(old)) |->
     IF i <= Len(bytes) THEN bytes[i] ELSE old[i]]

(* Fault: what is written is what the input file holds now. *)
Write_Rereads(w) ==
  /\ pc[w] = "write"
  /\ target' = Overlay(input[w], target)
  /\ last' = Append(last, w)
  /\ Stop(w, SUCCESS)
  /\ Disturbs(w)
  /\ UNCHANGED <<input, size, buffer>>

(* Fault: at the end of the file, as with O_APPEND. *)
Write_Appends(w) ==
  /\ pc[w] = "write"
  /\ target' = target \o buffer[w]
  /\ last' = Append(last, w)
  /\ Stop(w, SUCCESS)
  /\ Disturbs(w)
  /\ UNCHANGED <<input, size, buffer>>

Write(w) ==
  /\ pc[w] = "write"
  /\ target' = Overlay(buffer[w], target)
  /\ last' = Append(last, w)
  /\ Stop(w, SUCCESS)
  /\ Disturbs(w)
  /\ UNCHANGED <<input, size, buffer>>

-----------------------------------------------------------------------------
(* Somebody replaces an input file. *)
Edit ==
  /\ \E w \in Writers, c \in Documents \cup Scraps : input' = [input EXCEPT ![w] = c]
  /\ UNCHANGED <<target, pc, size, buffer, rc, last, alone>>

Next ==
  \/ Edit
  \/ \E w \in Writers : \/ Stat(w) \/ ReadInput(w) \/ Validate(w)
                        \/ Open(w) \/ Write(w)

Spec == Init /\ [][Next]_vars

-----------------------------------------------------------------------------
Done == {w \in Writers : pc[w] = "done"}

(* Types: among them, that only what was validated gets as far as the       *)
(* update file.                                                             *)
TypeOK ==
  /\ input \in [Writers -> Documents \cup Scraps]
  /\ target \in Seq(Parts)
  /\ size \in [Writers -> Nat]
  /\ buffer \in [Writers -> Seq(Parts)]
  /\ rc \in [Writers -> Int]
  /\ pc \in [Writers -> {"stat", "read", "validate", "open", "write", "done"}]
  /\ \A w \in Writers : pc[w] \in {"open", "write"} => buffer[w] \in Documents
  /\ alone \in [Writers -> BOOLEAN]
  /\ last \in Seq(Writers)
  /\ \A i \in DOMAIN last : pc[last[i]] = "done" /\ rc[last[i]] = SUCCESS

(* Once it has been opened, every part of the update file is a part of a    *)
(* buffer that was validated, at its own place, however often the input     *)
(* files were replaced between validateAuth and write (edk2-svc-write.c:    *)
(* 162-186).                                                                *)
WrittenIsValidated ==
  last # << >> \/ (\E w \in Writers : pc[w] = "write") =>
    \A i \in DOMAIN target :
      \E j \in DOMAIN last : /\ buffer[last[j]] \in Documents
                             /\ i <= Len(buffer[last[j]])
                             /\ target[i] = buffer[last[j]][i]

(* Until it is truncated again, the file starts with the whole update of    *)
(* the last process that wrote (generic.c:117-122).                         *)
LastWriteLeads ==
  target # << >> /\ last # << >> =>
    LET b == buffer[last[Len(last)]]
    IN  Len(b) <= Len(target) /\ \A i \in 1 .. Len(b) : target[i] = b[i]

(* A process that nobody disturbed between its open and its write leaves    *)
(* its update and nothing else.                                             *)
AloneIsWhole ==
  [][ \A w \in Writers : alone[w] /\ pc[w] = "write" /\ pc'[w] # "write"
                           => target' = buffer[w] ]_vars

(* src/generic.c:108-112 "writes size bytes of buff to ... return 0 for     *)
(* success": when every process that wrote has reported success, the file   *)
(* holds the update of one of them.                                         *)
SuccessMeansOneUpdate ==
  Done = Writers /\ last # << >> => target \in {buffer[last[i]] : i \in DOMAIN last}
=============================================================================
