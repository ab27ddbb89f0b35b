----------------------------- MODULE Edk2Compat -----------------------------
(***************************************************************************)
(* The edk2-compat backend (external/skiboot/edk2-compat.c): pre_process   *)
(* completes the variable bank, process applies the queue of updates to a  *)
(* working copy and installs the copy only if every update was good.       *)
(*                                                                         *)
(* The caller (the verify command) has filled both banks and validated     *)
(* their contents.  One step is one variable in pre_process and one turn   *)
(* of the loop in process.  Any allocation may fail.                       *)
(***************************************************************************)
EXTENDS Edk2Update

CONSTANTS Banks,        \* the variable banks a run may start from
          UpdateQueues  \* the update banks a run may start from

ASSUME BanksAssumption  == Banks \subseteq {bank \in Seq(SecVar) : LoadedWhole(bank)}
ASSUME QueuesAssumption == UpdateQueues \subseteq {queue \in Seq(Update) : QueueWhole(queue)}

VARIABLES variable_bank,  \* the current variables
          update_bank,    \* the queue, in the order it was submitted
          staging_bank,   \* the working copy
          setup_mode,     \* the global of edk2-compat-process.c
          pc,             \* pre_process, process, loop, finish, done
          next,           \* the variable or the update looked at next
          rc

vars == <<variable_bank, update_bank, staging_bank, setup_mode, pc, next, rc>>

Order == <<"PK", "KEK", "db", "dbx", "TS">>

PkEmpty(bank) == find_secvar("PK", bank).data.size = 0

(* What pre_process creates for a variable that was not loaded. *)
DefaultVar(key) ==
  CASE key = "PK" -> new_secvar("PK", NoData, {"VOLATILE", "PROTECTED"})
    [] key = "TS" -> [key |-> "TS", stamps |-> [i \in 1..4 |-> 0], flags |-> {}]
    [] OTHER      -> new_secvar(key, NoData, {"VOLATILE"})

Init ==
  /\ variable_bank \in Banks
  /\ update_bank \in UpdateQueues
  /\ staging_bank = << >>
  /\ setup_mode = FALSE
  /\ pc = "pre_process" /\ next = 1 /\ rc = OPAL_SUCCESS

(* One block of pre_process: find the variable, add it at the tail if it is *)
(* missing.  setup_mode is read off the PK as soon as there is one.         *)
PreProcessVar ==
  /\ pc = "pre_process"
  /\ variable_bank' = IF HasVar(Order[next], variable_bank) THEN variable_bank
                      ELSE Append(variable_bank, DefaultVar(Order[next]))
  /\ setup_mode' = IF next = 1 THEN PkEmpty(variable_bank') ELSE setup_mode
  /\ IF next = Len(Order) THEN pc' = "process" /\ next' = 1
                          ELSE pc' = pc /\ next' = next + 1
  /\ UNCHANGED <<update_bank, staging_bank, rc>>

PreProcessNoMem ==
  /\ pc = "pre_process"
  /\ ~HasVar(Order[next], variable_bank)
  /\ pc' = "done" /\ rc' = OPAL_NO_MEM
  /\ UNCHANGED <<variable_bank, update_bank, staging_bank, setup_mode, next>>

(* The early returns of process leave the update bank as it is. *)
NothingToProcess ==
  /\ pc = "process"
  /\ update_bank = << >>
  /\ pc' = "done" /\ rc' = OPAL_EMPTY
  /\ UNCHANGED <<variable_bank, update_bank, staging_bank, setup_mode, next>>

Stage ==
  /\ pc = "process"
  /\ update_bank # << >>
  /\ staging_bank' = copy_bank_list(<< >>, variable_bank)
  /\ IF HasVar("TS", staging_bank') THEN pc' = "loop" /\ rc' = rc
                                    ELSE pc' = "done" /\ rc' = OPAL_PERMISSION
  /\ UNCHANGED <<variable_bank, update_bank, setup_mode, next>>

Outcome ==
  process_update(update_bank[next], staging_bank,
                 find_secvar("TS", staging_bank).stamps, setup_mode)

(* Fault: the time goes to the TS of the bank, not to that of the copy.     *)
ApplyUpdate_BankTS ==
  /\ pc = "loop"
  /\ next <= Len(update_bank)
  /\ Outcome = OPAL_SUCCESS
  /\ staging_bank' = update_variable_in_bank(update_bank[next], staging_bank)
  /\ variable_bank' = update_timestamp(update_bank[next].key,
                                       update_bank[next].data.time, variable_bank)
  /\ next' = next + 1
  /\ UNCHANGED <<update_bank, setup_mode, pc, rc>>

(* setup_mode stays what it was before the queue, even when the PK changes. *)
ApplyUpdate ==
  /\ pc = "loop"
  /\ next <= Len(update_bank)
  /\ Outcome = OPAL_SUCCESS
  /\ staging_bank' = update_timestamp(update_bank[next].key,
                                      update_bank[next].data.time,
                       update_variable_in_bank(update_bank[next], staging_bank))
  /\ next' = next + 1
  /\ UNCHANGED <<variable_bank, update_bank, setup_mode, pc, rc>>

RejectUpdate ==
  /\ pc = "loop"
  /\ next <= Len(update_bank)
  /\ Outcome # OPAL_SUCCESS
  /\ pc' = "finish" /\ rc' = Outcome
  /\ UNCHANGED <<variable_bank, update_bank, staging_bank, setup_mode, next>>

(* No memory for the new ESL, or to grow the variable. *)
UpdateNoMem ==
  /\ pc = "loop"
  /\ next <= Len(update_bank)
  /\ pc' = "finish" /\ rc' = OPAL_NO_MEM
  /\ UNCHANGED <<variable_bank, update_bank, staging_bank, setup_mode, next>>

(* Fault: off by one at the end of the list. *)
EndOfQueue_Late ==
  /\ pc = "loop"
  /\ next > Len(update_bank) + 1
  /\ pc' = "finish"
  /\ UNCHANGED <<variable_bank, update_bank, staging_bank, setup_mode, next, rc>>

EndOfQueue ==
  /\ pc = "loop"
  /\ next > Len(update_bank)
  /\ pc' = "finish"
  /\ UNCHANGED <<variable_bank, update_bank, staging_bank, setup_mode, next, rc>>

(* Fault: what was staged before a failure is installed all the same. *)
Finish_InstallsAnyway ==
  /\ pc = "finish"
  /\ variable_bank' = staging_bank
  /\ staging_bank' = clear_bank_list(staging_bank)
  /\ setup_mode' = PkEmpty(variable_bank')
  /\ update_bank' = clear_bank_list(update_bank)
  /\ pc' = "done"
  /\ UNCHANGED <<next, rc>>

(* Fault: setup_mode is left as the queue found it. *)
Finish_KeepsSetupMode ==
  /\ pc = "finish"
  /\ variable_bank' = IF rc = OPAL_SUCCESS THEN staging_bank ELSE variable_bank
  /\ staging_bank' = clear_bank_list(staging_bank)
  /\ update_bank' = clear_bank_list(update_bank)
  /\ pc' = "done"
  /\ UNCHANGED <<next, rc, setup_mode>>

(* The working copy replaces the bank only if the whole queue went through. *)
Finish ==
  /\ pc = "finish"
  /\ variable_bank' =
       IF rc = OPAL_SUCCESS
       THEN copy_bank_list(clear_bank_list(variable_bank), staging_bank)
       ELSE variable_bank
  /\ staging_bank' = clear_bank_list(staging_bank)
  /\ IF HasVar("PK", variable_bank')
     THEN setup_mode' = PkEmpty(variable_bank') /\ rc' = rc
     ELSE setup_mode' = setup_mode /\ rc' = OPAL_INTERNAL_ERROR
  /\ update_bank' = clear_bank_list(update_bank)
  /\ pc' = "done"
  /\ UNCHANGED next

Next ==
  \/ PreProcessVar \/ PreProcessNoMem
  \/ NothingToProcess \/ Stage
  \/ ApplyUpdate \/ RejectUpdate \/ UpdateNoMem \/ EndOfQueue
  \/ Finish

(* One thread runs the two functions to their end; nothing else can stop it. *)
Spec == Init /\ [][Next]_vars /\ WF_vars(Next)

-----------------------------------------------------------------------------
(* The bank seen as a function: a variable not loaded counts as empty.     *)

DataOf(key, bank) == IF HasVar(key, bank) THEN find_secvar(key, bank).data
                                          ELSE NoData
TimeOf(key, bank) == IF HasVar("TS", bank)
                     THEN find_secvar("TS", bank).stamps[get_last_timestamp(key)]
                     ELSE 0
StoreOf(bank) == [k \in Keys |-> [data |-> DataOf(k, bank), time |-> TimeOf(k, bank)]]

CertsIn(data)      == {data.esls[i].sig : i \in DOMAIN data.esls} \cap Certs
HoldersOf(ks, bank) == UNION {CertsIn(DataOf(k, bank)) : k \in ks}

(* Some update of the queue is signed by one of these certificates. *)
QueueSignedBy(certs) ==
  \E i \in DOMAIN update_bank : update_bank[i].data.signers \cap certs # {}

-----------------------------------------------------------------------------
(* Types, and what each phase may rely on: pre_process leaves a bank that   *)
(* has every variable, and so has the working copy during the loop          *)
(* (edk2-compat.c:46-102 and 142-158).                                      *)
TypeOK ==
  /\ variable_bank \in Seq(SecVar)
  /\ update_bank \in UpdateQueues \cup {<< >>}
  /\ staging_bank \in Seq(SecVar)
  /\ setup_mode \in BOOLEAN
  /\ pc \in {"pre_process", "process", "loop", "finish", "done"}
  /\ next \in Nat \ {0}
  /\ rc \in Int
  /\ pc = "pre_process" =>
       /\ next <= Len(Order)
       /\ \A j \in 1..(next - 1) : HasVar(Order[j], variable_bank)
  /\ pc \in {"process", "loop", "finish"} =>
       \A k \in Variables : HasVar(k, variable_bank)
  /\ pc \in {"loop", "finish"} =>
       \A k \in Variables : HasVar(k, staging_bank)

(* The process function keeps the promise of KeyStore: one atomic step for  *)
(* the whole queue, applied only when every update is fresh and authorised  *)
(* by the store the updates before it leave (edk2-compat.c:107-252).        *)
Abstract == INSTANCE KeyStore WITH
  store  <- StoreOf(variable_bank),
  queue  <- update_bank,
  status <- IF pc # "done" THEN "pending"
            ELSE IF rc = OPAL_SUCCESS THEN "accepted" ELSE "rejected"

ImplementsKeyStore == Abstract!Spec

(* The loop, told from its middle: with a PK enrolled, the working copy     *)
(* differs from the bank only after an update signed by a holder of the     *)
(* bank's PK or KEK, and in PK or KEK only after one signed by a holder of  *)
(* the bank's PK (edk2-compat.c:160-220).                                   *)
AppliedFrom(certs) ==
  \E i \in DOMAIN update_bank : i < next /\ update_bank[i].data.signers \cap certs # {}

StagedChangesAreSigned ==
  pc \in {"loop", "finish"} /\ DataOf("PK", variable_bank).size > 0 =>
    /\ staging_bank # variable_bank =>
         AppliedFrom(HoldersOf({"PK", "KEK"}, variable_bank))
    /\ (\E k \in {"PK", "KEK"} : DataOf(k, staging_bank) # DataOf(k, variable_bank)) =>
         AppliedFrom(HoldersOf({"PK"}, variable_bank))

(* With a PK enrolled, a queue that no holder of the current PK or KEK has  *)
(* signed any part of leaves every variable as it was, whatever its updates *)
(* would have made the authorities on the way (process_update, 814-847).    *)
OutsidersChangeNothing ==
  [][ /\ DataOf("PK", variable_bank).size > 0
      /\ StoreOf(variable_bank)' # StoreOf(variable_bank)
      => QueueSignedBy(HoldersOf({"PK", "KEK"}, variable_bank)) ]_vars

(* With a PK enrolled, PK and KEK move only in a queue some part of which a *)
(* holder of the current PK has signed: README, "KEK can sign db and dbx,   *)
(* cannot sign PK" (get_key_authority, 82-96).                              *)
PkHoldersMovePkAndKek ==
  [][ /\ DataOf("PK", variable_bank).size > 0
      /\ \E k \in {"PK", "KEK"} : DataOf(k, variable_bank)' # DataOf(k, variable_bank)
      => QueueSignedBy(HoldersOf({"PK"}, variable_bank)) ]_vars

(* None of the updates of an accepted queue is good for a second            *)
(* submission: each is stale against the timestamps the queue leaves        *)
(* (check_timestamp, 413-437; update_timestamp, 379-394).                   *)
NoReplay ==
  [][ pc = "finish" /\ pc' = "done" /\ rc' = OPAL_SUCCESS =>
        \A i \in DOMAIN update_bank :
          process_update(update_bank[i], variable_bank',
            find_secvar("TS", variable_bank').stamps, setup_mode') # OPAL_SUCCESS ]_vars

(* VOLATILE is the mark of a variable without contents: none that has some  *)
(* carries it, after any queue (update_variable_in_bank, 51-55).            *)
VolatileMeansEmpty ==
  \A i \in DOMAIN variable_bank :
    "VOLATILE" \in variable_bank[i].flags => variable_bank[i].data.size = 0

(* After process, setup_mode is read off the bank it leaves                 *)
(* (edk2-compat.c:231-242), although the loop never updates it.             *)
SetupModeIsNoPk ==
  pc \in {"process", "loop", "done"} /\ HasVar("PK", variable_bank)
    => setup_mode = (DataOf("PK", variable_bank).size = 0)

(* What the list check is for: an update goes on exactly when every one of  *)
(* its ESLs is good ("Look for the next ESL", edk2-compat-process.c:336).   *)
ListCheckReadsEveryESL ==
  pc = "loop" /\ next <= Len(update_bank) =>
    LET key  == update_bank[next].key
        data == update_bank[next].data.data
    IN  validate_esl_list(key, data) >= 0 <=>
          /\ \A i \in DOMAIN data.esls : GoodESL(key, data.esls[i])
          /\ key = "PK" => Len(data.esls) <= 1

(* README, "The updates should be signed according to the correct hierarchy *)
(* rules": with a PK enrolled, every update of an accepted queue is signed  *)
(* by a key entitled to it.                                                 *)
AcceptedMeansSigned ==
  [][ pc = "finish" /\ pc' = "done" /\ rc' = OPAL_SUCCESS =>
        \/ Abstract!SetupMode
        \/ \A i \in DOMAIN update_bank : Abstract!Signed(i) ]_vars

(* Every run of the backend comes to its end.                               *)
Terminates == <>(pc = "done")
=============================================================================
