---------------------------- MODULE VerifyCommand ----------------------------
(***************************************************************************)
(* `secvarctl verify' (backends/edk2-compat/edk2-svc-verify.c): load the   *)
(* updates and the current variables, validate their formats, have the     *)
(* edk2-compat backend process them, and with -w submit the updates by     *)
(* writing each to the `update' file of its variable.                      *)
(*                                                                         *)
(* A <variable> <file> pair of the arguments is the secvar setupBanks      *)
(* makes of it.  Any file may turn out to be unreadable; each is read once. *)
(* pc stands for the place in verify and in the backend; `next' for the    *)
(* loop variables; rc is shared by all of them, as it is passed on in the  *)
(* code.  The label `out' is told apart by how it was reached: "refused"   *)
(* by a goto before anything was written, "over" after process has         *)
(* succeeded.  The lists freed there are not read again and are left alone.*)
(***************************************************************************)
EXTENDS Validators

CONSTANTS UpdateArgs,  \* what -u may be given: any name with any auth file
          ListedVars,  \* what -c may be given
          StoredVars,  \* what the directory of -p (or the default) may hold
          Old,         \* what an update file held before
          Torn,        \* an update file cut short
          Faults       \* what may go wrong: unreadable, short, write, open

(***************************************************************************)
(* What a file can be read as.  ESLs are told from other bytes only where  *)
(* there is room for the header of one (validateSingularESL).  Names that  *)
(* are not variables have been refused by parse_opt.                       *)
(***************************************************************************)
Fits(data) == data.esls # << >> => data.size >= ListHeader
Given  == [key : Variables, data : {Malformed} \cup {a \in Auth : Fits(a.data)},
           flags : {{}}]
Loaded == {v \in SecVar : v.key \in Keys => Fits(v.data)}

ASSUME ArgsAssumption ==
  /\ UpdateArgs \subseteq Seq(Given)
  /\ StoredVars \cup ListedVars \subseteq Seq(Loaded)

VARIABLES updateVars, currentVars, writeFlag,   \* the arguments of verify
          unreadable,         \* the files among them that cannot be read
          variable_bank, update_bank, staging_bank, setup_mode, pc, next, rc,
          update_bank_copy,   \* kept for -w: process clears update_bank
          files               \* key -> contents of <path>/<key>/update

args    == <<updateVars, currentVars, writeFlag, unreadable>>
backend == <<variable_bank, update_bank, staging_bank, setup_mode, pc, next, rc>>
vars    == <<args, backend, update_bank_copy, files>>

Backend == INSTANCE Edk2Compat WITH
  Banks        <- {bank \in Seq(SecVar) : LoadedWhole(bank)},
  UpdateQueues <- {queue \in Seq(Update) : QueueWhole(queue)}

UpdateFile(i)  == <<"update", i>>
CurrentFile(i) == <<"current", i>>

(* The sets of files that reading may fail for. *)
Unread(updates, current) ==
  IF "unreadable" \notin Faults THEN {{}}
  ELSE SUBSET ({UpdateFile(i) : i \in DOMAIN updates} \cup
               {CurrentFile(i) : i \in DOMAIN current})

(* -w is refused together with -c (parse_opt). *)
Init ==
  /\ updateVars \in UpdateArgs
  /\ writeFlag \in BOOLEAN
  /\ currentVars \in StoredVars \cup (IF writeFlag THEN {} ELSE ListedVars)
  /\ unreadable \in Unread(updateVars, currentVars)
  /\ variable_bank = << >> /\ update_bank = << >> /\ staging_bank = << >>
  /\ update_bank_copy = << >>
  /\ setup_mode = FALSE
  /\ files = [k \in Keys |-> Old]
  /\ pc = "load_updates" /\ next = 1 /\ rc = SUCCESS

-----------------------------------------------------------------------------
(* setupBanks.  A file that cannot be read is left out of its bank.        *)

LoadUpdate ==
  /\ pc = "load_updates"
  /\ next <= Len(updateVars)
  /\ update_bank' = IF UpdateFile(next) \in unreadable THEN update_bank
                    ELSE Append(update_bank, updateVars[next])
  /\ next' = next + 1
  /\ UNCHANGED <<args, variable_bank, staging_bank, setup_mode, pc, rc,
                 update_bank_copy, files>>

(* Fault: the timestamps are left out of the variables to load. *)
LoadCurrent_NoTS ==
  /\ pc = "load_current"
  /\ next <= Len(currentVars)
  /\ variable_bank' = IF CurrentFile(next) \in unreadable \/ currentVars[next].key = "TS"
                      THEN variable_bank
                      ELSE Append(variable_bank, currentVars[next])
  /\ next' = next + 1
  /\ UNCHANGED <<args, update_bank, staging_bank, setup_mode, pc, rc,
                 update_bank_copy, files>>

LoadCurrent ==
  /\ pc = "load_current"
  /\ next <= Len(currentVars)
  /\ variable_bank' = IF CurrentFile(next) \in unreadable THEN variable_bank
                      ELSE Append(variable_bank, currentVars[next])
  /\ next' = next + 1
  /\ UNCHANGED <<args, update_bank, staging_bank, setup_mode, pc, rc,
                 update_bank_copy, files>>

-----------------------------------------------------------------------------
(* validateBanks returns at the first file that is not well formed.        *)

CheckedAs(code) ==
  /\ rc' = code
  /\ IF code = SUCCESS THEN pc' = pc /\ next' = next + 1
                       ELSE pc' = "refused" /\ next' = next
  /\ UNCHANGED <<args, variable_bank, update_bank, staging_bank, setup_mode,
                 update_bank_copy, files>>

ValidateUpdate ==
  /\ pc = "validate_updates"
  /\ next <= Len(update_bank)
  /\ LET update == update_bank[next]
     IN  CheckedAs(IF update.key = "TS" THEN INVALID_VAR_NAME
                   ELSE validateAuth(update.data, update.key))

ValidateCurrent ==
  /\ pc = "validate_current"
  /\ next <= Len(variable_bank)
  /\ LET var == variable_bank[next]
     IN  CheckedAs(IF var.key = "TS" THEN validateTS(var.stamps)
                   ELSE validateESL(var.data, var.key))

-----------------------------------------------------------------------------
(* The backend's two functions.  What is to be written is copied between   *)
(* them.                                                                   *)

(* Fault: nothing is set aside before process empties the bank. *)
PreProcess_NoCopy ==
  /\ Backend!PreProcessVar \/ Backend!PreProcessNoMem
  /\ UNCHANGED <<args, update_bank_copy, files>>

PreProcess ==
  /\ Backend!PreProcessVar \/ Backend!PreProcessNoMem
  /\ update_bank_copy' = IF writeFlag /\ pc' = "process"
                         THEN copy_bank_list(<< >>, update_bank)
                         ELSE update_bank_copy
  /\ UNCHANGED <<args, files>>

Process ==
  /\ \/ Backend!NothingToProcess \/ Backend!Stage
     \/ Backend!ApplyUpdate \/ Backend!RejectUpdate \/ Backend!UpdateNoMem
     \/ Backend!EndOfQueue \/ Backend!Finish
  /\ UNCHANGED <<args, update_bank_copy, files>>

(* commitUpdateBank starts from INVALID_FILE. *)
Return ==
  /\ pc = "done"
  /\ IF rc # SUCCESS THEN pc' = "refused" /\ rc' = rc
     ELSE IF writeFlag THEN pc' = "commit" /\ rc' = INVALID_FILE
     ELSE pc' = "over" /\ rc' = rc
  /\ next' = 1
  /\ UNCHANGED <<args, variable_bank, update_bank, staging_bank, setup_mode,
                 update_bank_copy, files>>

-----------------------------------------------------------------------------
(* commitUpdateBank: updateVar and writeData for one update after another. *)

(* Fault: the loop goes on after an error, and rc is the last one's. *)
CommitAs_GoesOn(code) ==
  /\ rc' = code
  /\ pc' = pc /\ next' = next + 1
  /\ UNCHANGED <<args, variable_bank, update_bank, staging_bank, setup_mode,
                 update_bank_copy>>

CommitAs(code) ==
  /\ rc' = code
  /\ IF code = SUCCESS THEN pc' = pc /\ next' = next + 1
                       ELSE pc' = "over" /\ next' = next
  /\ UNCHANGED <<args, variable_bank, update_bank, staging_bank, setup_mode,
                 update_bank_copy>>

Committing == pc = "commit" /\ next <= Len(update_bank_copy)
Target     == update_bank_copy[next].key

(* Fault: only the new contents are written, without their signature. *)
WriteAll_Bare ==
  /\ Committing
  /\ files' = [files EXCEPT ![Target] = update_bank_copy[next].data.data]
  /\ CommitAs(SUCCESS)

WriteAll ==
  /\ Committing
  /\ files' = [files EXCEPT ![Target] = update_bank_copy[next].data]
  /\ CommitAs(SUCCESS)

(* write() returned less than was asked of it: no error to writeData. *)
WriteSome ==
  /\ "short" \in Faults
  /\ Committing
  /\ files' = [files EXCEPT ![Target] = Torn]
  /\ CommitAs(SUCCESS)

(* The file has been truncated by open, and write() fails. *)
WriteFails ==
  /\ "write" \in Faults
  /\ Committing
  /\ files' = [files EXCEPT ![Target] = Torn]
  /\ CommitAs(FILE_WRITE_FAIL)

(* No file to open, or no memory for its path. *)
OpenFails ==
  /\ "open" \in Faults
  /\ Committing
  /\ \E code \in {INVALID_FILE, ALLOC_FAIL} : CommitAs(code)
  /\ UNCHANGED files

-----------------------------------------------------------------------------
(* Fault: one turn too many is waited for. *)
LoopExit_Late(here, list, after) ==
  /\ pc = here
  /\ next > Len(list) + 1
  /\ pc' = after
  /\ next' = IF here = "commit" THEN next ELSE 1
  /\ UNCHANGED <<args, variable_bank, update_bank, staging_bank, setup_mode, rc,
                 update_bank_copy, files>>

LoopExit(here, list, after) ==
  /\ pc = here
  /\ next > Len(list)
  /\ pc' = after
  /\ next' = IF here = "commit" THEN next ELSE 1
  /\ UNCHANGED <<args, variable_bank, update_bank, staging_bank, setup_mode, rc,
                 update_bank_copy, files>>

(* Without a PK the current variables are not validated. *)
EndOfLoop ==
  \/ LoopExit("load_updates", updateVars, "load_current")
  \/ LoopExit("load_current", currentVars, "validate_updates")
  \/ LoopExit("validate_updates", update_bank,
              IF HasVar("PK", variable_bank) THEN "validate_current" ELSE "pre_process")
  \/ LoopExit("validate_current", variable_bank, "pre_process")
  \/ LoopExit("commit", update_bank_copy, "over")

Next ==
  \/ LoadUpdate \/ LoadCurrent
  \/ ValidateUpdate \/ ValidateCurrent
  \/ PreProcess \/ Process \/ Return
  \/ WriteAll \/ WriteSome \/ WriteFails \/ OpenFails
  \/ EndOfLoop

(* One thread; every call it makes returns. *)
Spec == Init /\ [][Next]_vars /\ WF_vars(Next)

-----------------------------------------------------------------------------
(* Types: every file holds what it held, an update, or less than one.      *)
TypeOK ==
  /\ writeFlag \in BOOLEAN
  /\ variable_bank \in Seq(SecVar)
  /\ files \in [Keys -> Auth \cup {Old, Torn}]
  /\ next \in Nat \ {0}
  /\ rc \in Int
  /\ pc \in {"load_updates", "load_current", "validate_updates",
             "validate_current", "pre_process", "process", "loop", "finish",
             "done", "commit", "over", "refused"}

InBackend == pc \in {"pre_process", "process", "loop", "finish", "done"}

(* The backend dereferences what it is given without a check of its own: it *)
(* counts on validateBanks for updates to known keys whose contents are     *)
(* empty or start with an ESL, and for the same of the current variables if *)
(* there is a PK among them (edk2-svc-verify.c:348-402).  README: "All      *)
(* updates have their format validated before any verification is done."    *)
BackendCalledAsAssumed ==
  InBackend => /\ Backend!TypeOK
               /\ pc = "pre_process" /\ next = 1 => LoadedWhole(variable_bank)

(* Nothing reaches an update file before the whole queue is accepted, and   *)
(* then only that queue, in order, from the copy made before process        *)
(* cleared the bank (edk2-svc-verify.c:239-260 and 512-526).                *)
Promise == INSTANCE Submission WITH
  store    <- Backend!StoreOf(variable_bank),
  queue    <- update_bank,
  wanted   <- writeFlag,
  accepted <- IF pc \in {"commit", "over"} \/ (pc = "done" /\ rc = SUCCESS)
              THEN update_bank_copy ELSE << >>,
  sent     <- IF pc \in {"commit", "over"} THEN next - 1 ELSE 0,
  status   <- IF pc \in {"commit", "over"} THEN "accepted"
              ELSE IF pc = "refused" THEN "rejected"
              ELSE IF pc = "done"
                   THEN IF rc = SUCCESS THEN "accepted" ELSE "rejected"
              ELSE IF InBackend THEN "pending"
              ELSE "loading"

KeepsPromise == Promise!Spec

Submitted == pc = "over" /\ writeFlag /\ rc = SUCCESS

(* SUCCESS with -w: no update was passed over, each variable's file was     *)
(* written last for its last update (commitUpdateBank returns at the first  *)
(* error, 517-523).                                                         *)
SuccessMeansWritten ==
  Submitted =>
    \A k \in {update_bank_copy[i].key : i \in DOMAIN update_bank_copy} :
      files[k] \in
        {Torn, update_bank_copy[Max({i \in DOMAIN update_bank_copy :
                                        update_bank_copy[i].key = k})].data}

(* The command ends.                                                        *)
Ends == <>(pc \in {"over", "refused"})

(* README: "if the verification passes, the updates will be commited to the *)
(* "update" file": SUCCESS with -w leaves no file cut short.                *)
SuccessMeansWhole == Submitted => \A k \in Keys : files[k] # Torn

(* The same, of every update: each verified update is in its file.          *)
SuccessKeepsEveryUpdate ==
  Submitted => \A i \in DOMAIN update_bank_copy :
                 files[update_bank_copy[i].key] = update_bank_copy[i].data

(* test/runTests.py, "no data in pk ==setup mode": a PK without data does   *)
(* not make the validation of the current variables fail.                   *)
EmptyPkIsSetupMode ==
  [][ pc = "validate_current" /\ Backend!PkEmpty(variable_bank)
      => pc' # "refused" ]_vars

(* README: verify says SUCCESS "if the update files are correctly signed by *)
(* the current variables": an update verified alone is one that the         *)
(* variables in the directory, or listed, allow, all of them and not only   *)
(* those that could be read.                                                *)
VerdictIsTrue ==
  pc = "over" /\ rc = SUCCESS /\ Len(updateVars) = 1 =>
    LET stamps == IF HasVar("TS", currentVars) THEN find_secvar("TS", currentVars).stamps
                  ELSE <<0, 0, 0, 0>>
    IN  process_update(updateVars[1], currentVars, stamps,
          HasVar("PK", currentVars) => Backend!PkEmpty(currentVars)) >= 0

(* It is, as long as each of those can be read; that the update can be read *)
(* need not be asked for.  setupBanks passes over what it cannot read       *)
(* (300-330), and what is missing from a bank makes rules laxer: no PK is   *)
(* setup mode, no TS makes every time a later one.                          *)
SuccessMeansSigned ==
  (\A i \in DOMAIN currentVars : CurrentFile(i) \notin unreadable) => VerdictIsTrue

(* The same sentence, of the number of updates: each file that was given    *)
(* has been among those that were verified and submitted.                   *)
SuccessMeansAllRead == Submitted => Len(update_bank_copy) = Len(updateVars)
=============================================================================
