------------------------------ MODULE Lifecycle ------------------------------
(***************************************************************************)
(* What a machine's owner does between reboots, and what a reboot makes of *)
(* it: `secvarctl write' (backends/edk2-compat/edk2-svc-write.c) in one    *)
(* step, `secvarctl verify' step by step, and the firmware, which at boot  *)
(* runs the same edk2-compat backend over the variables it has stored and  *)
(* the pending `update' files.                                             *)
(*                                                                         *)
(* The commands are run one after another.  The firmware and its driver    *)
(* are not in the tree and are modelled from how the code uses them        *)
(* (README, DESCRIPTION; secvar.h; the files setupBanks reads): a variable *)
(* without contents has no data file to read, one with the VOLATILE flag   *)
(* is not stored, pending updates are processed in the order they were     *)
(* written, and boot has the memory it needs.                              *)
(*                                                                         *)
(* A file that is Old has had no update written to it since the last boot. *)
(***************************************************************************)
EXTENDS VerifyCommand

CONSTANTS FirstBanks,   \* what the firmware may hold at first
          WriteArgs,    \* [key, file, force]: what `write' may be given
          Unreadable,   \* an input file that cannot be read
          MaxTurns      \* bound: commands and reboots in a behaviour

(***************************************************************************)
(* The firmware starts with each of the five variables once, and marks     *)
(* VOLATILE only what is empty.  A file that `write' can read is an auth   *)
(* file or is not; a torn one is not.                                      *)
(***************************************************************************)
Fitting == {a \in Auth : Fits(a.data)}

Complete(bank) ==
  /\ \A k \in Variables : HasVar(k, bank)
  /\ \A i, j \in DOMAIN bank : bank[i].key = bank[j].key => i = j
  /\ \A i \in DOMAIN bank :
       "VOLATILE" \in bank[i].flags => bank[i].key \in Keys /\ bank[i].data.size = 0

ASSUME MachineAssumption ==
  /\ FirstBanks \subseteq {bank \in Seq(Loaded) : Complete(bank)}
  /\ \A arg \in WriteArgs : /\ arg.file \in Fitting \cup {Malformed, Unreadable}
                            /\ arg.force \in BOOLEAN
  /\ {Malformed, Torn} \cap Auth = {}
  /\ MaxTurns \in Nat

VARIABLES stored,       \* the firmware's variables, as the last boot left them
          order,        \* the variables written to, the latest at the end
          turn,         \* whose turn it is: user, verify, boot
          turns,
          vouched       \* the queue that the last command was to verify and
                        \* submit, if that command was `verify -w' and succeeded

machine == <<stored, order, turn, turns, vouched>>
all     == <<vars, machine>>

(* The elements of a sequence at some of its places, in their order. *)
Keep(seq, places) ==
  LET kept[n \in 0..Len(seq)] ==
        IF n = 0 THEN << >>
        ELSE IF n \in places THEN Append(kept[n - 1], seq[n]) ELSE kept[n - 1]
  IN  kept[Len(seq)]

(* The data files: what has contents, without its flags. *)
Visible(bank) ==
  LET seen == Keep(bank, {i \in DOMAIN bank : bank[i].key = "TS" \/ bank[i].data.size > 0})
  IN  [i \in DOMAIN seen |-> [seen[i] EXCEPT !.flags = {}]]

(* What is there to load at boot: VOLATILE variables are not written. *)
Persistent(bank) == Keep(bank, {i \in DOMAIN bank : "VOLATILE" \notin bank[i].flags})

Later(key)  == Append(Keep(order, {i \in DOMAIN order : order[i] # key}), key)
Pending     == Keep(order, {i \in DOMAIN order : files[order[i]] # Old})
PendingBank == [i \in DOMAIN Pending |-> new_secvar(Pending[i], files[Pending[i]], {})]

(* The banks of a command or of the firmware are gone when it is. *)
Released ==
  /\ updateVars' = << >> /\ currentVars' = << >> /\ writeFlag' = FALSE
  /\ unreadable' = {}
  /\ variable_bank' = << >> /\ update_bank' = << >> /\ staging_bank' = << >>
  /\ update_bank_copy' = << >>
  /\ setup_mode' = FALSE /\ pc' = "idle" /\ next' = 1

LInit ==
  /\ updateVars = << >> /\ currentVars = << >> /\ writeFlag = FALSE
  /\ unreadable = {}
  /\ variable_bank = << >> /\ update_bank = << >> /\ staging_bank = << >>
  /\ update_bank_copy = << >>
  /\ setup_mode = FALSE /\ pc = "idle" /\ next = 1
  /\ stored \in FirstBanks
  /\ files = [k \in Keys |-> Old]
  /\ rc = SUCCESS
  /\ order = << >> /\ turn = "user" /\ turns = 0 /\ vouched = << >>

MyTurn == turn = "user" /\ turns < MaxTurns /\ turns' = turns + 1

-----------------------------------------------------------------------------
(* secvarctl write                                                         *)

(* What writeData leaves in the file, and what it returns.  It may fail     *)
(* before the file is truncated, which leaves it as it was.                 *)
NotOpened(key) ==
  IF "open" \in Faults THEN {[content |-> files[key], code |-> INVALID_FILE]} ELSE {}

WriteData(key, data) ==
  {[content |-> data, code |-> SUCCESS]}
  \cup (IF "short" \in Faults THEN {[content |-> Torn, code |-> SUCCESS]} ELSE {})
  \cup (IF "write" \in Faults THEN {[content |-> Torn, code |-> FILE_WRITE_FAIL]} ELSE {})
  \cup NotOpened(key)

(* getDataFromFile has failed: there is no buffer, and `size' has never been *)
(* set.  write() fails on the null pointer, or writes nothing if size is 0,  *)
(* to a file that open has truncated.                                        *)
WriteNothing(key) ==
  {[content |-> Torn, code |-> FILE_WRITE_FAIL], [content |-> Torn, code |-> SUCCESS]}
  \cup NotOpened(key)

Acceptable(arg) ==
  /\ arg.file # Unreadable
  /\ validateAuth(arg.file, arg.key) = SUCCESS

(* Fault: TS is taken for a variable like the others.                       *)
MayWrite_AnyName(arg) == arg.force \/ Acceptable(arg)

MayWrite(arg) == arg.key \in Keys /\ (arg.force \/ Acceptable(arg))

Write ==
  /\ MyTurn
  /\ \E arg \in {a \in WriteArgs : MayWrite(a)} :
       \E result \in IF arg.file = Unreadable THEN WriteNothing(arg.key)
                     ELSE WriteData(arg.key, arg.file) :
         /\ files' = [files EXCEPT ![arg.key] = result.content]
         /\ rc' = result.code
         /\ order' = IF result.code = INVALID_FILE THEN order ELSE Later(arg.key)
  /\ vouched' = << >>
  /\ UNCHANGED <<args, variable_bank, update_bank, staging_bank, setup_mode, pc,
                 next, update_bank_copy, stored, turn>>

WriteRefused ==
  /\ MyTurn
  /\ \E arg \in {a \in WriteArgs : ~MayWrite(a)} :
       rc' = IF arg.key \notin Keys THEN INVALID_VAR_NAME
             ELSE IF arg.file = Unreadable THEN AUTH_FAIL
             ELSE validateAuth(arg.file, arg.key)
  /\ vouched' = << >>
  /\ UNCHANGED <<args, variable_bank, update_bank, staging_bank, setup_mode, pc,
                 next, update_bank_copy, files, stored, order, turn>>

-----------------------------------------------------------------------------
(* secvarctl verify                                                        *)

Verify ==
  /\ MyTurn
  /\ turn' = "verify"
  /\ updateVars' \in UpdateArgs
  /\ writeFlag' \in BOOLEAN
  /\ currentVars' = Visible(stored)
  /\ unreadable' \in Unread(updateVars', currentVars')
  /\ pc' = "load_updates" /\ next' = 1 /\ rc' = SUCCESS
  /\ vouched' = << >>
  /\ UNCHANGED <<variable_bank, update_bank, staging_bank, setup_mode,
                 update_bank_copy, files, stored, order>>

VerifyStep ==
  /\ turn = "verify"
  /\ Next
  /\ order' = IF Committing /\ rc' \notin {INVALID_FILE, ALLOC_FAIL}
              THEN Later(Target) ELSE order
  /\ UNCHANGED <<stored, turn, turns, vouched>>

VerifyEnds ==
  /\ turn = "verify"
  /\ pc \in {"over", "refused"}
  /\ turn' = "user"
  /\ vouched' = IF Submitted THEN update_bank_copy ELSE << >>
  /\ Released
  /\ UNCHANGED <<files, rc, stored, order, turns>>

-----------------------------------------------------------------------------
(* A reboot                                                                *)

Boot ==
  /\ MyTurn
  /\ turn' = "boot"
  /\ variable_bank' = Persistent(stored)
  /\ update_bank' = PendingBank
  /\ files' = [k \in Keys |-> Old] /\ order' = << >>
  /\ pc' = "pre_process" /\ next' = 1 /\ rc' = OPAL_SUCCESS
  /\ UNCHANGED <<args, staging_bank, setup_mode, update_bank_copy, stored, vouched>>

(* What was submitted is a whole auth file. *)
Readable == update_bank[next].data \notin {Malformed, Torn}

BootStep ==
  /\ turn = "boot"
  /\ \/ Backend!PreProcessVar
     \/ Backend!NothingToProcess \/ Backend!Stage
     \/ pc = "loop" /\ next <= Len(update_bank) /\ Readable
        /\ (Backend!ApplyUpdate \/ Backend!RejectUpdate)
     \/ Backend!EndOfQueue \/ Backend!Finish
  /\ UNCHANGED <<args, update_bank_copy, files, machine>>

(* get_auth_descriptor2 finds no descriptor (edk2-compat-process.c:761). *)
BootUnreadable ==
  /\ turn = "boot"
  /\ pc = "loop" /\ next <= Len(update_bank) /\ ~Readable
  /\ pc' = "finish" /\ rc' = OPAL_PARAMETER
  /\ UNCHANGED <<args, variable_bank, update_bank, staging_bank, setup_mode, next,
                 update_bank_copy, files, machine>>

BootEnds ==
  /\ turn = "boot"
  /\ pc = "done"
  /\ stored' = variable_bank
  /\ turn' = "user" /\ vouched' = << >>
  /\ Released
  /\ UNCHANGED <<files, rc, order, turns>>

LNext ==
  \/ Write \/ WriteRefused
  \/ Verify \/ VerifyStep \/ VerifyEnds
  \/ Boot \/ BootStep \/ BootUnreadable \/ BootEnds

LSpec == LInit /\ [][LNext]_all

-----------------------------------------------------------------------------
(* Types; and the firmware's bank has all five variables after every boot,  *)
(* the update files nothing but whole files or a torn one.                  *)
LTypeOK ==
  /\ stored \in Seq(SecVar)
  /\ \A k \in Variables : HasVar(k, stored)
  /\ files \in [Keys -> Auth \cup {Old, Torn, Malformed}]
  /\ order \in Seq(Keys)
  /\ turn \in {"user", "verify", "boot"}
  /\ turns \in 0..MaxTurns

(* What a boot leaves survives the next: no variable that has contents or   *)
(* a time is dropped for being VOLATILE (update_variable_in_bank, 51-55;    *)
(* secvar.h:65, "Instructs storage driver to ignore variable on writes").   *)
NothingIsLost == Backend!StoreOf(Persistent(stored)) = Backend!StoreOf(stored)

(* Across any number of reboots, writes and verifications, no variable goes *)
(* back to an earlier time, and none changes without a later one            *)
(* (check_timestamp, 413-437; update_timestamp, 379-394).                   *)
NoRollback ==
  [][ LET before == Backend!StoreOf(stored)
          after  == Backend!StoreOf(stored)'
      IN  \A k \in Keys :
            /\ after[k].time >= before[k].time
            /\ after[k].data # before[k].data => after[k].time > before[k].time ]_all

BootDecides == turn = "boot" /\ pc = "finish" /\ pc' = "done"

(* A queue that was just verified and submitted, when it is all there is to *)
(* process, is accepted at boot: what verify loaded and the copies it wrote *)
(* decide as the firmware's own bank and files do (verify, 212-269).        *)
VerifiedAloneIsAccepted ==
  [][ BootDecides /\ vouched # << >> /\ update_bank = vouched
      => rc' = OPAL_SUCCESS ]_all

(* The help of write: verify "will ensure that the submission will be       *)
(* successful upon reboot": what `verify -w' has just verified and          *)
(* submitted is accepted at boot.                                           *)
VerifiedIsAccepted ==
  [][ BootDecides /\ vouched # << >> => rc' = OPAL_SUCCESS ]_all

(* README: "TS holds no power of the variables": the timestamps that the    *)
(* firmware itself has stored do not make verify refuse an update.          *)
TimestampsHoldNoPower ==
  [][ turn = "verify" /\ pc = "validate_current" => rc' # INVALID_TIMESTAMP ]_all

(* README: -f "immediadetly writes content of <file>": write does not       *)
(* report SUCCESS and leave an update file without it.                      *)
ForcedWriteWritesContent ==
  [][ turn = "user" /\ turn' = "user" /\ rc' = SUCCESS
      => \A k \in Keys : files'[k] # files[k] => files'[k] # Torn ]_all
=============================================================================
