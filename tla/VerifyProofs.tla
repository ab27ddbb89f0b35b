---------------------------- MODULE VerifyProofs ----------------------------
(***************************************************************************)
(* Theorems about VerifyCommand, for any arguments, files and faults.      *)
(***************************************************************************)
EXTENDS VerifyCommand, WellFoundedInduction, TLAPS

-----------------------------------------------------------------------------
(* The way to the backend: files are loaded, then validated one by one.     *)

Accepted(update) == update \in Update /\ Whole(update.data.data)

(* validateAuth lets nothing pass that process_update could misread.        *)
LEMMA ValidUpdate ==
  ASSUME NEW update \in Given, update.key # "TS",
         validateAuth(update.data, update.key) = SUCCESS
  PROVE  Accepted(update)
<1>1. update.data # Malformed
  BY DEF validateAuth, AUTH_FAIL, SUCCESS
<1>2. update.data \in Auth /\ Fits(update.data.data) /\ update.key \in Keys
  BY <1>1 DEF Given, Variables
<1>3. update.data.data \in Data
  BY <1>2 DEF Auth
<1>4. update = [key |-> update.key, data |-> update.data, flags |-> update.flags]
      /\ update.flags = {}
  BY DEF Given
<1>5. update \in Update
  BY <1>2, <1>4 DEF Update
<1>6. CASE update.data.data.size = 0
  BY <1>2, <1>3, <1>5, <1>6 DEF Accepted, Whole, Fits, Data, ListHeader
<1>7. CASE update.data.data.size # 0
  <2>1. update.data.data.esls # << >>
    BY <1>1, <1>7 DEF validateAuth, validateESL, ESL_FAIL, CERT_FAIL, SUCCESS
  <2> QED BY <1>2, <1>3, <1>5, <1>7, <2>1 DEF Accepted, Whole, Fits
<1> QED BY <1>6, <1>7

(* Nor does validateESL among the current variables.                        *)
LEMMA ValidVariable ==
  ASSUME NEW var \in Loaded, var.key \in Keys, validateESL(var.data, var.key) = SUCCESS
  PROVE  Whole(var.data)
<1>1. var.data.esls # << >>
  BY DEF validateESL, ESL_FAIL, SUCCESS
<1>2. Fits(var.data)
  BY DEF Loaded
<1> QED BY <1>1, <1>2 DEF Whole, Fits, ListHeader

Loading == pc \in {"load_updates", "load_current", "validate_updates", "validate_current"}

(* Nothing but reading and judging has happened.                            *)
BanksAsRead ==
  Loading => /\ update_bank \in Seq(Given) /\ variable_bank \in Seq(Loaded)
             /\ staging_bank = << >> /\ setup_mode = FALSE /\ rc = SUCCESS

UpdatesChecked ==
  \A i \in DOMAIN update_bank :
    \/ pc = "validate_updates" /\ i < next
    \/ pc \in {"validate_current", "pre_process"}
    => Accepted(update_bank[i])

VariablesChecked ==
  pc = "validate_current" =>
    \A i \in DOMAIN variable_bank :
      i < next /\ variable_bank[i].key \in Keys => Whole(variable_bank[i].data)

(* What the backend is called with is what its theorems assume.             *)
CalledAsAssumed == pc = "pre_process" /\ next = 1 => Backend!Init

CallInv ==
  /\ updateVars \in Seq(Given) /\ currentVars \in Seq(Loaded)
  /\ next \in Nat \ {0}
  /\ pc = "pre_process" => update_bank \in Seq(Update)
  /\ BanksAsRead /\ UpdatesChecked /\ VariablesChecked /\ CalledAsAssumed

LEMMA InBackendNext ==
  ASSUME PreProcess \/ Process, next \in Nat \ {0}
  PROVE  /\ UNCHANGED args /\ UNCHANGED files
         /\ next' \in Nat \ {0}
         /\ pc \in {"pre_process", "process", "loop", "finish"}
         /\ pc' \in {"pre_process", "process", "loop", "finish", "done"}
         /\ pc' = "pre_process" => next' # 1 /\ pc = "pre_process" /\ update_bank' = update_bank
BY DEF PreProcess, Process, Backend!PreProcessVar, Backend!PreProcessNoMem,
       Backend!NothingToProcess, Backend!Stage, Backend!ApplyUpdate,
       Backend!RejectUpdate, Backend!UpdateNoMem, Backend!EndOfQueue, Backend!Finish

LEMMA CallInvInit == Init => CallInv
<1> SUFFICES ASSUME Init PROVE CallInv
  OBVIOUS
<1>1. updateVars \in Seq(Given)
  BY ArgsAssumption DEF Init
<1>2. currentVars \in Seq(Loaded)
  <2>1. currentVars \in StoredVars \cup ListedVars
    BY DEF Init
  <2> QED BY <2>1, ArgsAssumption
<1> QED BY <1>1, <1>2 DEF Init, CallInv, Loading, BanksAsRead, UpdatesChecked,
       VariablesChecked, CalledAsAssumed

LEMMA LoadKeepsCallInv ==
  ASSUME CallInv, LoadUpdate \/ LoadCurrent
  PROVE  CallInv'
<1>1. CASE LoadUpdate
  <2>1. updateVars[next] \in Given
    BY <1>1 DEF LoadUpdate, CallInv
  <2>2. update_bank' \in Seq(Given) /\ pc = "load_updates" /\ pc' = pc
    BY <1>1, <2>1 DEF LoadUpdate, CallInv, BanksAsRead, Loading
  <2> QED BY <1>1, <2>2 DEF LoadUpdate, args, CallInv, BanksAsRead, Loading,
         UpdatesChecked, VariablesChecked, CalledAsAssumed
<1>2. CASE LoadCurrent
  <2>1. currentVars[next] \in Loaded
    BY <1>2 DEF LoadCurrent, CallInv
  <2>2. variable_bank' \in Seq(Loaded) /\ pc = "load_current" /\ pc' = pc
    BY <1>2, <2>1 DEF LoadCurrent, CallInv, BanksAsRead, Loading
  <2> QED BY <1>2, <2>2 DEF LoadCurrent, args, CallInv, BanksAsRead, Loading,
         UpdatesChecked, VariablesChecked, CalledAsAssumed
<1> QED BY <1>1, <1>2

LEMMA ValidateUpdateKeepsCallInv ==
  ASSUME CallInv, ValidateUpdate
  PROVE  CallInv'
<1> DEFINE u    == update_bank[next]
           code == IF u.key = "TS" THEN INVALID_VAR_NAME ELSE validateAuth(u.data, u.key)
<1>1. /\ pc = "validate_updates" /\ next <= Len(update_bank) /\ next \in Nat \ {0}
      /\ update_bank \in Seq(Given) /\ u \in Given
      /\ CheckedAs(code) /\ UNCHANGED <<args, update_bank, variable_bank, staging_bank, setup_mode>>
  BY DEF ValidateUpdate, CheckedAs, CallInv, BanksAsRead, Loading
<1>2. CASE code # SUCCESS
  <2>1. pc' = "refused" /\ next' = next
    BY <1>1, <1>2 DEF CheckedAs
  <2> QED BY <1>1, <2>1 DEF args, CallInv, BanksAsRead, Loading, UpdatesChecked,
         VariablesChecked, CalledAsAssumed
<1>3. CASE code = SUCCESS
  <2>1. pc' = pc /\ next' = next + 1 /\ rc' = SUCCESS
    BY <1>1, <1>3 DEF CheckedAs
  <2>2. Accepted(u)
    BY <1>1, <1>3, ValidUpdate DEF INVALID_VAR_NAME, SUCCESS
  <2>3. UpdatesChecked'
    <3>1. ASSUME NEW i \in DOMAIN update_bank, i < next + 1
          PROVE  Accepted(update_bank[i])
      <4>1. CASE i < next
        BY <1>1, <4>1 DEF CallInv, UpdatesChecked
      <4>2. CASE i = next
        BY <2>2, <4>2
      <4> QED BY <1>1, <3>1, <4>1, <4>2
    <3> QED BY <1>1, <2>1, <3>1 DEF UpdatesChecked, Accepted
  <2> QED BY <1>1, <2>1, <2>3 DEF args, CallInv, BanksAsRead, Loading,
         VariablesChecked, CalledAsAssumed
<1> QED BY <1>2, <1>3

LEMMA ValidateCurrentKeepsCallInv ==
  ASSUME CallInv, ValidateCurrent
  PROVE  CallInv'
<1> DEFINE v    == variable_bank[next]
           code == IF v.key = "TS" THEN validateTS(v.stamps) ELSE validateESL(v.data, v.key)
<1>1. /\ pc = "validate_current" /\ next <= Len(variable_bank) /\ next \in Nat \ {0}
      /\ variable_bank \in Seq(Loaded) /\ v \in Loaded
      /\ CheckedAs(code) /\ UNCHANGED <<args, update_bank, variable_bank, staging_bank, setup_mode>>
  BY DEF ValidateCurrent, CheckedAs, CallInv, BanksAsRead, Loading
<1>2. CASE code # SUCCESS
  <2>1. pc' = "refused" /\ next' = next
    BY <1>1, <1>2 DEF CheckedAs
  <2> QED BY <1>1, <2>1 DEF args, CallInv, BanksAsRead, Loading, UpdatesChecked,
         VariablesChecked, CalledAsAssumed
<1>3. CASE code = SUCCESS
  <2>1. pc' = pc /\ next' = next + 1 /\ rc' = SUCCESS
    BY <1>1, <1>3 DEF CheckedAs
  <2>2. v.key \in Keys => Whole(v.data)
    BY <1>1, <1>3, ValidVariable DEF Keys
  <2>3. VariablesChecked'
    <3>1. ASSUME NEW i \in DOMAIN variable_bank, i < next + 1, variable_bank[i].key \in Keys
          PROVE  Whole(variable_bank[i].data)
      <4>1. CASE i < next
        BY <1>1, <3>1, <4>1 DEF CallInv, VariablesChecked
      <4>2. CASE i = next
        BY <2>2, <3>1, <4>2
      <4> QED BY <1>1, <3>1, <4>1, <4>2
    <3> QED BY <1>1, <2>1, <3>1 DEF VariablesChecked
  <2>4. UpdatesChecked'
    BY <1>1, <2>1 DEF CallInv, UpdatesChecked
  <2> QED BY <1>1, <2>1, <2>3, <2>4 DEF args, CallInv, BanksAsRead, Loading,
         CalledAsAssumed
<1> QED BY <1>2, <1>3

(* The banks as the backend gets them, if all that is in them was checked.  *)
LEMMA CheckedBanks ==
  ASSUME NEW queue \in Seq(Given), NEW bank \in Seq(Loaded),
         \A i \in DOMAIN queue : Accepted(queue[i]),
         HasVar("PK", bank) =>
           \A i \in DOMAIN bank : bank[i].key \in Keys => Whole(bank[i].data)
  PROVE  /\ queue \in Seq(Update) /\ QueueWhole(queue)
         /\ bank \in Seq(SecVar) /\ LoadedWhole(bank)
<1>1. queue \in Seq(Update)
  BY DEF Accepted
<1>2. QueueWhole(queue)
  BY DEF Accepted, QueueWhole
<1>3. bank \in Seq(SecVar)
  BY DEF Loaded
<1> QED BY <1>1, <1>2, <1>3 DEF LoadedWhole

LEMMA ExitKeepsCallInv ==
  ASSUME CallInv, EndOfLoop
  PROVE  CallInv'
<1> USE DEF CallInv
<1>1. CASE LoopExit("load_updates", updateVars, "load_current")
  BY <1>1 DEF LoopExit, args, BanksAsRead, Loading, UpdatesChecked, VariablesChecked,
     CalledAsAssumed
<1>2. CASE LoopExit("load_current", currentVars, "validate_updates")
  <2>1. update_bank \in Seq(Given) /\ update_bank' = update_bank /\ next' = 1
        /\ pc = "load_current" /\ pc' = "validate_updates"
    BY <1>2 DEF LoopExit, BanksAsRead, Loading
  <2>2. UpdatesChecked'
    BY <2>1 DEF UpdatesChecked
  <2> QED BY <1>2, <2>1, <2>2 DEF LoopExit, args, BanksAsRead, Loading, VariablesChecked,
         CalledAsAssumed
<1>3. CASE LoopExit("validate_updates", update_bank,
                    IF HasVar("PK", variable_bank) THEN "validate_current" ELSE "pre_process")
  <2>1. /\ update_bank \in Seq(Given) /\ variable_bank \in Seq(Loaded)
        /\ UNCHANGED <<args, update_bank, variable_bank, staging_bank, setup_mode, rc>>
        /\ staging_bank = << >> /\ setup_mode = FALSE /\ rc = SUCCESS
        /\ next > Len(update_bank) /\ next' = 1 /\ pc = "validate_updates"
        /\ pc' = IF HasVar("PK", variable_bank) THEN "validate_current" ELSE "pre_process"
    BY <1>3 DEF LoopExit, BanksAsRead, Loading
  <2>2. \A i \in DOMAIN update_bank : Accepted(update_bank[i])
    <3>1. \A i \in DOMAIN update_bank : i < next
      BY <2>1
    <3> QED BY <2>1, <3>1 DEF UpdatesChecked
  <2>3. UpdatesChecked'
    BY <2>1, <2>2 DEF UpdatesChecked, Accepted
  <2>4. CASE HasVar("PK", variable_bank)
    <3>1. VariablesChecked'
      BY <2>1, <2>4 DEF VariablesChecked
    <3> QED BY <2>1, <2>3, <2>4, <3>1 DEF args, BanksAsRead, Loading, CalledAsAssumed
  <2>5. CASE ~HasVar("PK", variable_bank)
    <3>1. /\ update_bank \in Seq(Update) /\ QueueWhole(update_bank)
          /\ variable_bank \in Seq(SecVar) /\ LoadedWhole(variable_bank)
      BY <2>1, <2>2, <2>5, CheckedBanks
    <3>2. Backend!Init'
      BY <2>1, <2>5, <3>1 DEF Backend!Init, Backend!OPAL_SUCCESS, SUCCESS, LoadedWhole,
         QueueWhole, HasVar
    <3> QED BY <2>1, <2>3, <2>5, <3>1, <3>2 DEF args, BanksAsRead, Loading,
           VariablesChecked, CalledAsAssumed
  <2> QED BY <2>4, <2>5
<1>4. CASE LoopExit("validate_current", variable_bank, "pre_process")
  <2>1. /\ update_bank \in Seq(Given) /\ variable_bank \in Seq(Loaded)
        /\ UNCHANGED <<args, update_bank, variable_bank, staging_bank, setup_mode, rc>>
        /\ staging_bank = << >> /\ setup_mode = FALSE /\ rc = SUCCESS
        /\ next > Len(variable_bank) /\ next' = 1 /\ pc = "validate_current"
        /\ pc' = "pre_process"
    BY <1>4 DEF LoopExit, BanksAsRead, Loading
  <2>2. \A i \in DOMAIN update_bank : Accepted(update_bank[i])
    BY <2>1 DEF UpdatesChecked
  <2>3. \A i \in DOMAIN variable_bank :
          variable_bank[i].key \in Keys => Whole(variable_bank[i].data)
    <3>1. \A i \in DOMAIN variable_bank : i < next
      BY <2>1
    <3> QED BY <2>1, <3>1 DEF VariablesChecked
  <2>4. /\ update_bank \in Seq(Update) /\ QueueWhole(update_bank)
        /\ variable_bank \in Seq(SecVar) /\ LoadedWhole(variable_bank)
    BY <2>1, <2>2, <2>3, CheckedBanks
  <2>5. Backend!Init'
    BY <2>1, <2>4 DEF Backend!Init, Backend!OPAL_SUCCESS, SUCCESS, LoadedWhole,
       QueueWhole, HasVar
  <2>6. UpdatesChecked'
    BY <2>1, <2>2 DEF UpdatesChecked, Accepted
  <2> QED BY <2>1, <2>4, <2>5, <2>6 DEF args, BanksAsRead, Loading, VariablesChecked,
         CalledAsAssumed
<1>5. CASE LoopExit("commit", update_bank_copy, "over")
  BY <1>5 DEF LoopExit, args, BanksAsRead, Loading, UpdatesChecked, VariablesChecked,
     CalledAsAssumed
<1> QED BY <1>1, <1>2, <1>3, <1>4, <1>5 DEF EndOfLoop

(* Steps from the backend's first on never go back to what CallInv is about. *)
Late == {"process", "loop", "finish", "done", "commit", "over", "refused"}

LEMMA LateKeepsCallInv ==
  ASSUME CallInv, UNCHANGED args, next' \in Nat \ {0}, pc' \in Late
  PROVE  CallInv'
BY DEF CallInv, args, Late, BanksAsRead, Loading, UpdatesChecked, VariablesChecked,
   CalledAsAssumed

LEMMA CallInvStep == CallInv /\ [Next]_vars => CallInv'
<1> SUFFICES ASSUME CallInv, [Next]_vars PROVE CallInv'
  OBVIOUS
<1>1. CASE LoadUpdate \/ LoadCurrent
  BY <1>1, LoadKeepsCallInv
<1>2. CASE ValidateUpdate
  BY <1>2, ValidateUpdateKeepsCallInv
<1>3. CASE ValidateCurrent
  BY <1>3, ValidateCurrentKeepsCallInv
<1>4. CASE PreProcess \/ Process
  <2>0. next \in Nat \ {0}
    BY DEF CallInv
  <2>1. CASE pc' = "pre_process"
    <3>1. /\ UNCHANGED args /\ next' # 1 /\ next' \in Nat \ {0}
          /\ pc = "pre_process" /\ update_bank' = update_bank
      BY <1>4, <2>0, <2>1, InBackendNext
    <3>2. UpdatesChecked'
      BY <2>1, <3>1 DEF CallInv, UpdatesChecked
    <3> QED BY <2>1, <3>1, <3>2 DEF CallInv, args, BanksAsRead, Loading, VariablesChecked,
           CalledAsAssumed
  <2>2. CASE pc' # "pre_process"
    BY <1>4, <2>0, <2>2, InBackendNext, LateKeepsCallInv DEF Late
  <2> QED BY <2>1, <2>2
<1>5. CASE Return
  BY <1>5, LateKeepsCallInv DEF Return, Late
<1>6. CASE WriteAll \/ WriteSome \/ WriteFails \/ OpenFails
  <2>1. UNCHANGED args /\ next' \in {next, next + 1} /\ pc' \in {"commit", "over"}
    BY <1>6 DEF WriteAll, WriteSome, WriteFails, OpenFails, CommitAs, Committing
  <2>2. next' \in Nat \ {0}
    BY <2>1 DEF CallInv
  <2> QED BY <2>1, <2>2, LateKeepsCallInv DEF Late
<1>7. CASE EndOfLoop
  BY <1>7, ExitKeepsCallInv
<1>8. CASE UNCHANGED vars
  BY <1>8 DEF vars, args, backend, CallInv, BanksAsRead, Loading, UpdatesChecked,
     VariablesChecked, CalledAsAssumed, Backend!Init
<1> QED BY <1>1, <1>2, <1>3, <1>4, <1>5, <1>6, <1>7, <1>8 DEF Next

(* The backend's theorems are about this caller: verify enters it in one of *)
(* the states they start from, whatever the arguments and the files are.    *)
THEOREM CallTheorem == Spec => []CalledAsAssumed
<1>1. CallInv => CalledAsAssumed
  BY DEF CallInv
<1> QED BY <1>1, CallInvInit, CallInvStep, PTL DEF Spec

-----------------------------------------------------------------------------
(* The theorems about the backend, for the banks and queues of this caller. *)
(* Theory's definitions are those of Backend, unfolded one after the other. *)

Theory == INSTANCE Edk2CompatProofs WITH
  Banks        <- {bank \in Seq(SecVar) : LoadedWhole(bank)},
  UpdateQueues <- {queue \in Seq(Update) : QueueWhole(queue)}

LEMMA SameTypes == Backend!TypeOK <=> Theory!TypeOK
BY DEF Backend!TypeOK, Theory!TypeOK,
       Backend!Order, Backend!HasVar, Backend!Variables, Backend!Keys,
       Backend!SecVar, Backend!KeyVar, Backend!TSVar, Backend!Data,
       Backend!ESL, Backend!MinESL, Backend!ListHeader, Backend!Flags,
       Theory!Order, Theory!HasVar, Theory!Variables, Theory!Keys,
       Theory!SecVar, Theory!KeyVar, Theory!TSVar, Theory!Data, Theory!ESL,
       Theory!MinESL, Theory!ListHeader, Theory!Flags

LEMMA SameSteps == /\ Backend!Next => Theory!Next
                   /\ Backend!PreProcessVar => Theory!PreProcessVar
<1> USE DEF Backend!PkEmpty, Backend!DefaultVar, Backend!Outcome, Backend!Order,
            Backend!FirstAt, Backend!HasVar, Backend!find_secvar,
            Backend!new_secvar, Backend!copy_bank_list, Backend!clear_bank_list,
            Backend!Keys, Backend!Variables, Backend!NoData,
            Backend!OPAL_SUCCESS, Backend!OPAL_PARAMETER,
            Backend!OPAL_PERMISSION, Backend!OPAL_NO_MEM,
            Backend!OPAL_INTERNAL_ERROR, Backend!OPAL_EMPTY, Backend!ListHeader,
            Backend!MinESL, Backend!get_key_authority,
            Backend!get_last_timestamp, Backend!check_timestamp,
            Backend!update_timestamp, Backend!GoodESL,
            Backend!validate_esl_list, Backend!get_hash_to_verify,
            Backend!crypto_pkcs7_signed_hash_verify, Backend!verify_signature,
            Backend!Consulted, Backend!process_update,
            Backend!update_variable_in_bank, Backend!Min, Backend!Max,
            Theory!PkEmpty, Theory!DefaultVar, Theory!Outcome, Theory!Order,
            Theory!FirstAt, Theory!HasVar, Theory!find_secvar,
            Theory!new_secvar, Theory!copy_bank_list, Theory!clear_bank_list,
            Theory!Keys, Theory!Variables, Theory!NoData, Theory!OPAL_SUCCESS,
            Theory!OPAL_PARAMETER, Theory!OPAL_PERMISSION, Theory!OPAL_NO_MEM,
            Theory!OPAL_INTERNAL_ERROR, Theory!OPAL_EMPTY, Theory!ListHeader,
            Theory!MinESL, Theory!get_key_authority, Theory!get_last_timestamp,
            Theory!check_timestamp, Theory!update_timestamp, Theory!GoodESL,
            Theory!validate_esl_list, Theory!get_hash_to_verify,
            Theory!crypto_pkcs7_signed_hash_verify, Theory!verify_signature,
            Theory!Consulted, Theory!process_update,
            Theory!update_variable_in_bank, Theory!Min, Theory!Max
<1>1. Backend!PreProcessVar => Theory!PreProcessVar
  BY Zenon DEF Backend!PreProcessVar, Theory!PreProcessVar
<1>2. Backend!PreProcessNoMem => Theory!PreProcessNoMem
  BY Zenon DEF Backend!PreProcessNoMem, Theory!PreProcessNoMem
<1>3. Backend!NothingToProcess => Theory!NothingToProcess
  BY Zenon DEF Backend!NothingToProcess, Theory!NothingToProcess
<1>4. Backend!Stage => Theory!Stage
  BY Zenon DEF Backend!Stage, Theory!Stage
<1>5. Backend!ApplyUpdate => Theory!ApplyUpdate
  BY Zenon DEF Backend!ApplyUpdate, Theory!ApplyUpdate
<1>6. Backend!RejectUpdate => Theory!RejectUpdate
  BY Zenon DEF Backend!RejectUpdate, Theory!RejectUpdate
<1>7. Backend!UpdateNoMem => Theory!UpdateNoMem
  BY Zenon DEF Backend!UpdateNoMem, Theory!UpdateNoMem
<1>8. Backend!EndOfQueue => Theory!EndOfQueue
  BY Zenon DEF Backend!EndOfQueue, Theory!EndOfQueue
<1>9. Backend!Finish => Theory!Finish
  BY Zenon DEF Backend!Finish, Theory!Finish
<1> QED BY Zenon, <1>1, <1>2, <1>3, <1>4, <1>5, <1>6, <1>7, <1>8, <1>9 DEF Backend!Next, Theory!Next

(* The invariants are kept by the backend, whoever calls it.                *)
LEMMA TheoryApplies ==
  /\ Theory!Init => Theory!BackendInv
  /\ Theory!BackendInv /\ [Theory!Next]_(Theory!vars) => Theory!BackendInv'
  /\ Theory!BackendInv /\ [Theory!Next]_(Theory!vars)
       => [Theory!Abstract!Next]_<<Theory!StoreOf(variable_bank), update_bank, Theory!Status>>
  /\ Theory!BackendInv /\ Theory!PreProcessVar
       => \A k \in Theory!Keys :
            /\ Theory!DataOf(k, variable_bank)' = Theory!DataOf(k, variable_bank)
            /\ Theory!TimeOf(k, variable_bank)' = Theory!TimeOf(k, variable_bank)
<1> USE DEF SecVar, KeyVar, TSVar, Data, ESL, MinESL, ListHeader, Flags, Keys,
            Variables, Whole, HasVar, LoadedWhole, QueueWhole, Update, Auth,
            Message, Theory!SecVar, Theory!KeyVar, Theory!TSVar, Theory!Data,
            Theory!ESL, Theory!MinESL, Theory!ListHeader, Theory!Flags,
            Theory!Keys, Theory!Variables, Theory!Whole, Theory!HasVar,
            Theory!LoadedWhole, Theory!QueueWhole, Theory!Update, Theory!Auth,
            Theory!Message
<1>1. {bank \in Seq(SecVar) : LoadedWhole(bank)}
        \subseteq {bank \in Seq(Theory!SecVar) : Theory!LoadedWhole(bank)}
  OBVIOUS
<1>2. {queue \in Seq(Update) : QueueWhole(queue)}
        \subseteq {queue \in Seq(Theory!Update) : Theory!QueueWhole(queue)}
  OBVIOUS
<1>3. Theory!Init => Theory!BackendInv
  BY <1>1, <1>2, SignatureDataAssumption, Theory!BackendInvInit
<1>4. Theory!BackendInv /\ [Theory!Next]_(Theory!vars) => Theory!BackendInv'
  BY <1>1, <1>2, SignatureDataAssumption, Theory!BackendInvStep
<1>5. Theory!BackendInv /\ [Theory!Next]_(Theory!vars)
       => [Theory!Abstract!Next]_<<Theory!StoreOf(variable_bank), update_bank, Theory!Status>>
  BY <1>1, <1>2, SignatureDataAssumption, Theory!StepRefines DEF Theory!BackendInv
<1>6. Theory!BackendInv /\ Theory!PreProcessVar
       => \A k \in Theory!Keys :
            /\ Theory!DataOf(k, variable_bank)' = Theory!DataOf(k, variable_bank)
            /\ Theory!TimeOf(k, variable_bank)' = Theory!TimeOf(k, variable_bank)
  BY <1>1, <1>2, SignatureDataAssumption, Theory!PreProcessKeepsStore
     DEF Theory!BackendInv, Theory!Inv
<1> QED BY <1>3, <1>4, <1>5, <1>6

LEMMA EntryApplies == Backend!Init => Theory!BackendInv
<1>1. Backend!Init => Theory!Init
  BY Zenon DEF Backend!Init, Theory!Init, Backend!OPAL_SUCCESS, Theory!OPAL_SUCCESS
<1> QED BY <1>1, TheoryApplies

LEMMA EntryAppliesNext == Backend!Init' => Theory!BackendInv'
BY EntryApplies, PTL

BackendSound == InBackend => Theory!BackendInv

LEMMA BackendStep ==
  ASSUME BackendSound, PreProcess \/ Process
  PROVE  Theory!BackendInv /\ Theory!Next
<1>1. Backend!Next
  BY DEF PreProcess, Process, Backend!Next
<1>2. Theory!BackendInv
  BY DEF BackendSound, InBackend, PreProcess, Process, Backend!PreProcessVar,
     Backend!PreProcessNoMem, Backend!NothingToProcess, Backend!Stage,
     Backend!ApplyUpdate, Backend!RejectUpdate, Backend!UpdateNoMem,
     Backend!EndOfQueue, Backend!Finish
<1> QED BY <1>1, <1>2, SameSteps

LEMMA BackendSoundStep == CallInv' /\ BackendSound /\ [Next]_vars => BackendSound'
<1> SUFFICES ASSUME CallInv', BackendSound, [Next]_vars, InBackend'
             PROVE  Theory!BackendInv'
  BY DEF BackendSound
<1>1. CASE PreProcess \/ Process
  BY <1>1, BackendStep, TheoryApplies
<1>2. CASE EndOfLoop
  <2>1. pc' = "pre_process" /\ next' = 1
    BY <1>2 DEF EndOfLoop, LoopExit, InBackend
  <2>2. Backend!Init'
    BY <2>1 DEF CallInv, CalledAsAssumed
  <2> QED BY <2>2, EntryAppliesNext
<1>3. CASE UNCHANGED vars
  <2>1. UNCHANGED Theory!vars /\ pc' = pc
    BY <1>3 DEF vars, backend, Theory!vars
  <2>2. Theory!BackendInv
    BY <2>1 DEF BackendSound, InBackend
  <2> QED BY <2>1, <2>2, TheoryApplies
<1>4. CASE LoadUpdate \/ LoadCurrent \/ ValidateUpdate \/ ValidateCurrent \/ Return
           \/ WriteAll \/ WriteSome \/ WriteFails \/ OpenFails
  BY <1>4 DEF LoadUpdate, LoadCurrent, ValidateUpdate, ValidateCurrent, CheckedAs,
     Return, WriteAll, WriteSome, WriteFails, OpenFails, CommitAs, Committing, InBackend
<1> QED BY <1>1, <1>2, <1>3, <1>4 DEF Next

(* The backend gets what it counts on, and all through process every search *)
(* for one of the five variables finds it, whatever the arguments are.      *)
THEOREM PreconditionTheorem == Spec => []BackendCalledAsAssumed
<1>1. Init => BackendSound
  BY DEF Init, BackendSound, InBackend
<1>2. CallInv /\ BackendSound => BackendCalledAsAssumed
  <2>1. Backend!Init => LoadedWhole(variable_bank)
    BY DEF Backend!Init
  <2>2. Theory!BackendInv => Backend!TypeOK
    BY SameTypes DEF Theory!BackendInv, Theory!Inv
  <2> QED BY <2>1, <2>2 DEF CallInv, CalledAsAssumed, BackendSound, BackendCalledAsAssumed
<1> QED BY <1>1, <1>2, CallInvInit, CallInvStep, BackendSoundStep, PTL DEF Spec

-----------------------------------------------------------------------------
(* The greatest of finitely many places: the last update of a variable.     *)

LEMMA MaxOfPlaces ==
  ASSUME NEW n \in Nat, NEW S \in SUBSET (1..n), S # {}
  PROVE  Max(S) \in S /\ \A j \in S : j <= Max(S)
<1> DEFINE Below  == {p \in Nat \X Nat : p[1] < p[2]}
           Bounds == {m \in Nat : \A j \in S : j <= m}
<1>1. IsWellFoundedOn(Below, Nat)
  BY NatLessThanWellFounded DEF OpToRel
<1>2. n \in Bounds /\ Bounds \in SUBSET Nat
  OBVIOUS
<1>3. PICK b \in Bounds : \A m \in Bounds : ~(<<m, b>> \in Below)
  BY <1>1, <1>2, WFMin
<1>4. b \in S
  <2> SUFFICES ASSUME b \notin S PROVE FALSE
    OBVIOUS
  <2>1. PICK j \in S : TRUE
    OBVIOUS
  <2>2. b \in Nat /\ b >= j /\ j >= 1
    BY <1>3, <2>1
  <2>3. b - 1 \in Bounds
    BY <1>3, <2>2
  <2>4. <<b - 1, b>> \in Nat \X Nat /\ <<b - 1, b>>[1] < <<b - 1, b>>[2]
    BY <2>2
  <2> QED BY <1>3, <2>3, <2>4
<1>5. \A j \in S : b >= j
  BY <1>3
<1>6. \E m \in S : \A j \in S : m >= j
  BY <1>4, <1>5
<1>7. Max(S) \in S /\ \A j \in S : Max(S) >= j
  BY <1>6 DEF Max
<1> QED BY <1>7

(* What commitUpdateBank has written when it gets to update `next'.         *)

LastBefore(i) == /\ i < next
                 /\ \A j \in DOMAIN update_bank_copy :
                      i < j /\ j < next => update_bank_copy[j].key # update_bank_copy[i].key

WrittenSoFar ==
  pc = "commit" \/ Submitted =>
    \A i \in DOMAIN update_bank_copy :
      LastBefore(i) => files[update_bank_copy[i].key] \in {Torn, update_bank_copy[i].data}

SubmittedIsAll == Submitted => next > Len(update_bank_copy)

WriteInv ==
  /\ update_bank_copy \in Seq(Update)
  /\ DOMAIN files = Keys
  /\ WrittenSoFar /\ SubmittedIsAll

LEMMA WriteKeepsInv ==
  ASSUME WriteInv, next \in Nat \ {0}, WriteAll \/ WriteSome
  PROVE  WriteInv'
<1> DEFINE u == update_bank_copy[next]
<1>1. /\ pc = "commit" /\ pc' = "commit" /\ next <= Len(update_bank_copy)
      /\ next' = next + 1 /\ update_bank_copy' = update_bank_copy
      /\ update_bank_copy \in Seq(Update) /\ u \in Update /\ u.key \in Keys
      /\ \/ files' = [files EXCEPT ![u.key] = u.data]
         \/ files' = [files EXCEPT ![u.key] = Torn]
  <2>1. /\ pc = "commit" /\ next <= Len(update_bank_copy) /\ CommitAs(SUCCESS)
        /\ \/ files' = [files EXCEPT ![u.key] = u.data]
           \/ files' = [files EXCEPT ![u.key] = Torn]
    BY DEF WriteAll, WriteSome, Committing, Target
  <2>2. pc' = "commit" /\ next' = next + 1 /\ update_bank_copy' = update_bank_copy
    BY <2>1 DEF CommitAs
  <2>3. update_bank_copy \in Seq(Update) /\ u \in Update
    BY <2>1 DEF WriteInv
  <2>4. u.key \in Keys
    BY <2>3 DEF Update
  <2> QED BY <2>1, <2>2, <2>3, <2>4
<1>2. DOMAIN files' = Keys
  BY <1>1 DEF WriteInv
<1>3. WrittenSoFar'
  <2>1. ASSUME NEW i \in DOMAIN update_bank_copy, i < next + 1,
               \A j \in DOMAIN update_bank_copy :
                 i < j /\ j < next + 1 => update_bank_copy[j].key # update_bank_copy[i].key
        PROVE  files'[update_bank_copy[i].key] \in {Torn, update_bank_copy[i].data}
    <3>1. CASE i = next
      BY <1>1, <3>1 DEF WriteInv
    <3>2. CASE i < next
      <4>1. update_bank_copy[i].key # u.key
        BY <1>1, <2>1, <3>2
      <4>2. LastBefore(i)
        BY <1>1, <2>1, <3>2 DEF LastBefore
      <4>3. files[update_bank_copy[i].key] \in {Torn, update_bank_copy[i].data}
        BY <1>1, <4>2 DEF WriteInv, WrittenSoFar
      <4>4. update_bank_copy[i].key \in Keys
        <5>1. update_bank_copy[i] \in Update
          BY <1>1
        <5> QED BY <5>1 DEF Update
      <4> QED BY <1>1, <4>1, <4>3, <4>4 DEF WriteInv
    <3> QED BY <1>1, <2>1, <3>1, <3>2
  <2> QED BY <1>1, <2>1 DEF WrittenSoFar, LastBefore
<1> QED BY <1>1, <1>2, <1>3 DEF WriteInv, SubmittedIsAll, Submitted

LEMMA WriteInvStep == CallInv /\ WriteInv /\ [Next]_vars => WriteInv'
<1> SUFFICES ASSUME CallInv, WriteInv, [Next]_vars PROVE WriteInv'
  OBVIOUS
<1>0. next \in Nat \ {0}
  BY DEF CallInv
<1>1. CASE LoadUpdate \/ LoadCurrent \/ ValidateUpdate \/ ValidateCurrent
  BY <1>1 DEF LoadUpdate, LoadCurrent, ValidateUpdate, ValidateCurrent, CheckedAs,
     WriteInv, WrittenSoFar, SubmittedIsAll, Submitted
<1>2. CASE PreProcess \/ Process
  <2>1. UNCHANGED files /\ pc' \notin {"commit", "over"}
    BY <1>0, <1>2, InBackendNext
  <2>2. update_bank_copy' \in Seq(Update)
    <3>1. CASE PreProcess
      <4>1. pc = "pre_process"
        BY <3>1 DEF PreProcess, Backend!PreProcessVar, Backend!PreProcessNoMem
      <4>2. update_bank \in Seq(Update)
        BY <4>1 DEF CallInv
      <4> QED BY <3>1, <4>2 DEF PreProcess, copy_bank_list, WriteInv
    <3>2. CASE Process
      BY <3>2 DEF Process, WriteInv
    <3> QED BY <1>2, <3>1, <3>2
  <2> QED BY <2>1, <2>2 DEF WriteInv, WrittenSoFar, SubmittedIsAll, Submitted
<1>3. CASE Return
  <2>1. /\ UNCHANGED <<files, update_bank_copy, args>> /\ next' = 1
        /\ ~Submitted'
    BY <1>3 DEF Return, Submitted, args, INVALID_FILE, SUCCESS
  <2>2. \A i \in DOMAIN update_bank_copy : ~(i < 1)
    BY DEF WriteInv
  <2> QED BY <2>1, <2>2 DEF WriteInv, WrittenSoFar, SubmittedIsAll, LastBefore
<1>4. CASE WriteAll \/ WriteSome
  BY <1>0, <1>4, WriteKeepsInv
<1>5. CASE WriteFails \/ OpenFails
  <2>1. pc' = "over" /\ rc' # SUCCESS /\ update_bank_copy' = update_bank_copy
        /\ (files' = files \/ files' = [files EXCEPT ![Target] = Torn])
    BY <1>5 DEF WriteFails, OpenFails, CommitAs, FILE_WRITE_FAIL, INVALID_FILE, ALLOC_FAIL,
       SUCCESS
  <2> QED BY <2>1 DEF WriteInv, WrittenSoFar, SubmittedIsAll, Submitted
<1>6. CASE EndOfLoop
  <2>1. CASE LoopExit("commit", update_bank_copy, "over")
    BY <2>1 DEF LoopExit, args, WriteInv, WrittenSoFar, SubmittedIsAll, Submitted, LastBefore
  <2>2. CASE ~LoopExit("commit", update_bank_copy, "over")
    <3>1. UNCHANGED <<files, update_bank_copy>> /\ pc' \notin {"commit", "over"}
      BY <1>6, <2>2 DEF EndOfLoop, LoopExit
    <3> QED BY <3>1 DEF WriteInv, WrittenSoFar, SubmittedIsAll, Submitted
  <2> QED BY <2>1, <2>2
<1>7. CASE UNCHANGED vars
  BY <1>7 DEF vars, args, backend, WriteInv, WrittenSoFar, SubmittedIsAll, Submitted,
     LastBefore
<1> QED BY <1>1, <1>2, <1>3, <1>4, <1>5, <1>6, <1>7 DEF Next

(* SUCCESS with -w: each variable's file was last written for its last      *)
(* update, whatever the number of updates and whatever went wrong.          *)
THEOREM WrittenTheorem == Spec => []SuccessMeansWritten
<1>1. Init => WriteInv
  BY DEF Init, WriteInv, WrittenSoFar, SubmittedIsAll, Submitted
<1>2. WriteInv /\ CallInv => SuccessMeansWritten
  <2> SUFFICES ASSUME WriteInv, Submitted, next \in Nat,
                      NEW k \in {update_bank_copy[i].key : i \in DOMAIN update_bank_copy}
               PROVE  files[k] \in {Torn, update_bank_copy[Max({i \in DOMAIN update_bank_copy :
                                                   update_bank_copy[i].key = k})].data}
    BY DEF SuccessMeansWritten, CallInv
  <2> DEFINE S == {i \in DOMAIN update_bank_copy : update_bank_copy[i].key = k}
  <2>1. /\ update_bank_copy \in Seq(Update) /\ next > Len(update_bank_copy)
        /\ Len(update_bank_copy) \in Nat
        /\ S \in SUBSET (1..Len(update_bank_copy)) /\ S # {}
    BY DEF WriteInv, SubmittedIsAll
  <2>2. Max(S) \in S /\ \A j \in S : j <= Max(S)
    BY <2>1, MaxOfPlaces
  <2>3. LastBefore(Max(S))
    <3>1. Max(S) \in DOMAIN update_bank_copy /\ update_bank_copy[Max(S)].key = k
          /\ Max(S) \in 1..Len(update_bank_copy)
      BY <2>1, <2>2
    <3>2. ASSUME NEW j \in DOMAIN update_bank_copy, Max(S) < j,
                 update_bank_copy[j].key = k
          PROVE  FALSE
      <4>1. j \in S /\ j \in Nat
        BY <2>1, <3>2
      <4>2. j <= Max(S)
        BY <2>2, <4>1
      <4>3. Max(S) \in Nat
        BY <2>1, <3>1
      <4> HIDE DEF S
      <4> QED BY <3>2, <4>1, <4>2, <4>3
    <3>3. Max(S) < next
      BY <2>1, <3>1
    <3> QED BY <3>1, <3>2, <3>3 DEF LastBefore
  <2> QED BY <2>2, <2>3 DEF WriteInv, WrittenSoFar
<1> QED BY <1>1, <1>2, CallInvInit, CallInvStep, WriteInvStep, PTL DEF Spec

(* The bank is well formed while it is read, in the backend, and after.     *)
LEMMA BankTyped ==
  ASSUME CallInv', BackendSound', TypeOK, [Next]_vars
  PROVE  variable_bank' \in Seq(SecVar)
<1>1. CASE Loading'
  <2>1. variable_bank' \in Seq(Loaded)
    BY <1>1 DEF CallInv, BanksAsRead
  <2> QED BY <2>1 DEF Loaded
<1>2. CASE InBackend'
  <2>1. Theory!BackendInv'
    BY <1>2 DEF BackendSound
  <2>2. variable_bank' \in Seq(Theory!SecVar)
    BY <2>1 DEF Theory!BackendInv, Theory!Inv, Theory!TypeOK
  <2> QED BY <2>2 DEF SecVar, KeyVar, TSVar, Data, ESL, MinESL, ListHeader, Flags, Keys,
         Theory!SecVar, Theory!KeyVar, Theory!TSVar, Theory!Data, Theory!ESL,
         Theory!MinESL, Theory!ListHeader, Theory!Flags, Theory!Keys
<1>3. CASE ~Loading' /\ ~InBackend'
  <2>1. variable_bank' = variable_bank
    BY <1>3 DEF Next, vars, backend, Loading, InBackend, LoadUpdate, LoadCurrent,
       ValidateUpdate, ValidateCurrent, CheckedAs, PreProcess, Process, Return,
       WriteAll, WriteSome, WriteFails, OpenFails, CommitAs, EndOfLoop, LoopExit,
       Backend!PreProcessVar, Backend!PreProcessNoMem, Backend!NothingToProcess,
       Backend!Stage, Backend!ApplyUpdate, Backend!RejectUpdate, Backend!UpdateNoMem,
       Backend!EndOfQueue, Backend!Finish
  <2> QED BY <2>1 DEF TypeOK
<1> QED BY <1>1, <1>2, <1>3

LEMMA TypeOKStep ==
  CallInv /\ CallInv' /\ BackendSound' /\ WriteInv /\ TypeOK /\ [Next]_vars => TypeOK'
<1> SUFFICES ASSUME CallInv, CallInv', BackendSound', WriteInv, TypeOK, [Next]_vars
             PROVE  TypeOK'
  OBVIOUS
<1>0. next \in Nat \ {0} /\ next' \in Nat \ {0} /\ variable_bank' \in Seq(SecVar)
  BY BankTyped DEF CallInv
<1> USE <1>0 DEF TypeOK
<1>1. CASE LoadUpdate \/ LoadCurrent
  BY <1>1 DEF LoadUpdate, LoadCurrent, args
<1>2. CASE ValidateUpdate \/ ValidateCurrent
  <2>1. PICK code : CheckedAs(code) /\ code \in Int
    BY <1>2 DEF ValidateUpdate, ValidateCurrent, validateAuth, validateESL, validateTS,
       INVALID_VAR_NAME, INVALID_TIMESTAMP, AUTH_FAIL, ESL_FAIL, CERT_FAIL, SUCCESS
  <2> QED BY <2>1 DEF CheckedAs, args
<1>3. CASE PreProcess \/ Process
  <2>1. /\ UNCHANGED args /\ UNCHANGED files
        /\ pc' \in {"pre_process", "process", "loop", "finish", "done"}
    BY <1>0, <1>3, InBackendNext
  <2>2. Theory!BackendInv'
    BY <2>1 DEF BackendSound, InBackend
  <2>3. rc' \in Int
    BY <2>2 DEF Theory!BackendInv, Theory!Inv, Theory!TypeOK
  <2> QED BY <2>1, <2>3 DEF args
<1>4. CASE Return
  BY <1>4 DEF Return, args, INVALID_FILE
<1>5. CASE WriteAll \/ WriteSome \/ WriteFails \/ OpenFails
  <2>1. /\ update_bank_copy[next] \in Update /\ writeFlag' = writeFlag
        /\ pc' \in {"commit", "over"} /\ rc' \in Int
        /\ \/ files' = files
           \/ files' = [files EXCEPT ![Target] = Torn]
           \/ files' = [files EXCEPT ![Target] = update_bank_copy[next].data]
    BY <1>0, <1>5 DEF WriteAll, WriteSome, WriteFails, OpenFails, CommitAs, Committing,
       WriteInv, args, SUCCESS, FILE_WRITE_FAIL, INVALID_FILE, ALLOC_FAIL
  <2>2. update_bank_copy[next].data \in Auth
    BY <2>1 DEF Update
  <2> QED BY <2>1, <2>2
<1>6. CASE EndOfLoop
  BY <1>6 DEF EndOfLoop, LoopExit, args
<1>7. CASE UNCHANGED vars
  BY <1>7 DEF vars, args, backend
<1> QED BY <1>1, <1>2, <1>3, <1>4, <1>5, <1>6, <1>7 DEF Next

(* Types: whatever fails, an update file holds what it held, an update that *)
(* verify was given, or less than one.                                      *)
THEOREM TypeTheorem == Spec => []TypeOK
<1>1. Init => TypeOK /\ BackendSound /\ WriteInv
  BY DEF Init, TypeOK, BackendSound, InBackend, SUCCESS, WriteInv, WrittenSoFar,
     SubmittedIsAll, Submitted
<1> QED BY <1>1, CallInvInit, CallInvStep, BackendSoundStep, WriteInvStep,
        TypeOKStep, PTL DEF Spec

-----------------------------------------------------------------------------
(* The command as its user sees it: the state of Submission, step by step.  *)

Status ==
  IF pc \in {"commit", "over"} THEN "accepted"
  ELSE IF pc = "refused" THEN "rejected"
  ELSE IF pc = "done" THEN IF rc = SUCCESS THEN "accepted" ELSE "rejected"
  ELSE IF InBackend THEN "pending"
  ELSE "loading"

ToSubmit == IF pc \in {"commit", "over"} \/ (pc = "done" /\ rc = SUCCESS)
            THEN update_bank_copy ELSE << >>
Sent     == IF pc \in {"commit", "over"} THEN next - 1 ELSE 0
Seen     == <<Backend!StoreOf(variable_bank), update_bank, Status, writeFlag,
              ToSubmit, Sent, files>>

(* What is set aside while process works is the queue it works on.          *)
CopyInv ==
  /\ Loading \/ pc = "pre_process" => update_bank_copy = << >>
  /\ pc \in {"process", "loop", "finish"} =>
       update_bank_copy = IF writeFlag THEN update_bank ELSE << >>

(* The rules are Theory's, in the words of Submission's key store.          *)
LEMMA SameStore ==
  /\ Theory!StoreOf(variable_bank) = Backend!StoreOf(variable_bank)
  /\ Theory!StoreOf(variable_bank)' = Backend!StoreOf(variable_bank)'
BY Zenon DEF Theory!StoreOf, Theory!DataOf, Theory!TimeOf, Theory!HasVar,
   Theory!find_secvar, Theory!FirstAt, Theory!Min, Theory!Keys, Theory!NoData,
   Theory!get_last_timestamp, Backend!StoreOf, Backend!DataOf, Backend!TimeOf,
   Backend!HasVar, Backend!find_secvar, Backend!FirstAt, Backend!Min, Backend!Keys,
   Backend!NoData, Backend!get_last_timestamp

LEMMA SameAfter ==
  ASSUME NEW n, NEW k
  PROVE  Theory!Abstract!After(n, k) = Promise!Store!After(n, k)
BY SameStore, Zenon DEF Theory!Abstract!After, Promise!Store!After, Theory!Abstract!Max,
   Promise!Store!Max

LEMMA SameLegal ==
  ASSUME NEW i
  PROVE  Theory!Abstract!Legal(i) <=> Promise!Store!Legal(i)
<1>1. Theory!Abstract!SetupMode <=> Promise!Store!SetupMode
  BY SameStore DEF Theory!Abstract!SetupMode, Theory!Abstract!Empty,
     Promise!Store!SetupMode, Promise!Store!Empty
<1>2. Theory!Abstract!Signed(i) <=> Promise!Store!Signed(i)
  BY SameAfter, Zenon DEF Theory!Abstract!Signed, Theory!Abstract!MaySign,
     Theory!Abstract!Holds, Promise!Store!Signed, Promise!Store!MaySign, Promise!Store!Holds
<1>3. Theory!Abstract!OrphanReset(i) <=> Promise!Store!OrphanReset(i)
  BY SameAfter, Zenon DEF Theory!Abstract!OrphanReset, Theory!Abstract!MaySign,
     Theory!Abstract!Empty, Promise!Store!OrphanReset, Promise!Store!MaySign,
     Promise!Store!Empty
<1> QED BY <1>1, <1>2, <1>3, SameAfter DEF Theory!Abstract!Legal, Promise!Store!Legal

(* Inside the backend a step decides on the queue, or shows nothing.        *)
LEMMA BackendKeepsPromise ==
  ASSUME next \in Nat \ {0}, BackendSound, CopyInv, PreProcess \/ Process
  PROVE  [Promise!Next]_Seen
<1>1. /\ UNCHANGED args /\ UNCHANGED files
      /\ pc \in {"pre_process", "process", "loop", "finish"}
      /\ pc' \in {"pre_process", "process", "loop", "finish", "done"}
  BY InBackendNext
<1>2. /\ Status = "pending" /\ Status' = Theory!Status'
      /\ Theory!Status = "pending" /\ writeFlag' = writeFlag
      /\ ToSubmit = << >> /\ Sent = 0 /\ Sent' = 0
  BY <1>1 DEF Status, Theory!Status, InBackend, ToSubmit, Sent, args, SUCCESS,
     Theory!OPAL_SUCCESS
<1>3. [Theory!Abstract!Next]_<<Theory!StoreOf(variable_bank), update_bank, Theory!Status>>
  BY BackendStep, TheoryApplies
<1>4. CASE Theory!Abstract!Accept
  <2>1. /\ Status' = "accepted" /\ update_bank # << >> /\ update_bank' = << >>
        /\ \A i \in DOMAIN update_bank : Promise!Store!Legal(i)
        /\ Backend!StoreOf(variable_bank)' =
             [k \in DOMAIN Backend!StoreOf(variable_bank) |->
                Promise!Store!After(Len(update_bank), k)]
    BY <1>2, <1>4, SameStore, SameAfter, SameLegal
       DEF Theory!Abstract!Accept, Theory!Status
  <2>2. pc = "finish" /\ update_bank_copy' = update_bank_copy
    BY <2>1 DEF PreProcess, Process, Backend!PreProcessVar, Backend!PreProcessNoMem,
       Backend!NothingToProcess, Backend!Stage, Backend!ApplyUpdate,
       Backend!RejectUpdate, Backend!UpdateNoMem, Backend!EndOfQueue, Backend!Finish
  <2>3. ToSubmit' = IF writeFlag THEN update_bank ELSE << >>
    BY <1>1, <2>1, <2>2 DEF CopyInv, ToSubmit, Status, InBackend
  <2>4. Promise!Store!Next
    BY <1>2, <2>1 DEF Promise!Store!Next, Promise!Store!Accept, Status
  <2> QED BY <1>1, <1>2, <2>1, <2>3, <2>4 DEF Promise!Next, Promise!Decide, Status,
         ToSubmit, Sent
<1>5. CASE Theory!Abstract!Reject
  <2>1. /\ Status' = "rejected" /\ update_bank' \in {update_bank, << >>}
        /\ Backend!StoreOf(variable_bank)' = Backend!StoreOf(variable_bank)
    BY <1>2, <1>5, SameStore DEF Theory!Abstract!Reject, Theory!Status
  <2>2. ToSubmit' = << >>
    BY <1>1, <2>1 DEF ToSubmit, Status
  <2>3. Promise!Store!Next
    BY <1>2, <2>1 DEF Promise!Store!Next, Promise!Store!Reject, Status
  <2> QED BY <1>1, <1>2, <2>1, <2>2, <2>3 DEF Promise!Next, Promise!Decide, Status,
         ToSubmit, Sent
<1>6. CASE UNCHANGED <<Theory!StoreOf(variable_bank), update_bank, Theory!Status>>
  <2>1. Status' = "pending" /\ Backend!StoreOf(variable_bank)' = Backend!StoreOf(variable_bank)
    BY <1>2, <1>6, SameStore
  <2>2. ToSubmit' = << >>
    BY <1>1, <2>1 DEF ToSubmit, Status
  <2> QED BY <1>1, <1>2, <1>6, <2>1, <2>2 DEF Seen
<1> QED BY <1>3, <1>4, <1>5, <1>6 DEF Theory!Abstract!Next

LEMMA CopyInvStep == CallInv /\ CopyInv /\ [Next]_vars => CopyInv'
<1> SUFFICES ASSUME CallInv, CopyInv, [Next]_vars PROVE CopyInv'
  OBVIOUS
<1> USE DEF CopyInv, Loading
<1>1. CASE PreProcess
  <2>1. /\ pc = "pre_process" /\ update_bank \in Seq(Update)
        /\ update_bank' = update_bank /\ writeFlag' = writeFlag
        /\ update_bank_copy = << >> /\ pc' \in {"pre_process", "process", "done"}
    BY <1>1 DEF PreProcess, Backend!PreProcessVar, Backend!PreProcessNoMem, CallInv, args
  <2>2. copy_bank_list(<< >>, update_bank) = update_bank
    BY <2>1 DEF copy_bank_list
  <2> QED BY <1>1, <2>1, <2>2 DEF PreProcess
<1>2. CASE Process
  BY <1>2 DEF Process, args, Backend!NothingToProcess, Backend!Stage,
     Backend!ApplyUpdate, Backend!RejectUpdate, Backend!UpdateNoMem,
     Backend!EndOfQueue, Backend!Finish
<1>3. CASE LoadUpdate \/ LoadCurrent \/ ValidateUpdate \/ ValidateCurrent
  BY <1>3 DEF LoadUpdate, LoadCurrent, ValidateUpdate, ValidateCurrent, CheckedAs
<1>4. CASE Return \/ WriteAll \/ WriteSome \/ WriteFails \/ OpenFails
  BY <1>4 DEF Return, WriteAll, WriteSome, WriteFails, OpenFails, CommitAs, Committing
<1>5. CASE EndOfLoop
  BY <1>5 DEF EndOfLoop, LoopExit
<1>6. CASE UNCHANGED vars
  BY <1>6 DEF vars, args, backend
<1> QED BY <1>1, <1>2, <1>3, <1>4, <1>5, <1>6 DEF Next

(* Before the backend, reading and judging are the user's choice.           *)
LEMMA LoadingKeepsPromise ==
  ASSUME Loading, next \in Nat \ {0},
         LoadUpdate \/ LoadCurrent \/ ValidateUpdate \/ ValidateCurrent \/ EndOfLoop
  PROVE  Promise!Next
<1>1. /\ UNCHANGED args /\ UNCHANGED files
      /\ pc' \in {"load_updates", "load_current", "validate_updates",
                  "validate_current", "pre_process", "refused"}
  BY DEF Loading, LoadUpdate, LoadCurrent, ValidateUpdate, ValidateCurrent, CheckedAs,
     EndOfLoop, LoopExit
<1>2. /\ Status = "loading" /\ Status' \in {"loading", "pending", "rejected"}
      /\ ToSubmit = << >> /\ ToSubmit' = << >> /\ Sent = 0 /\ Sent' = 0
      /\ writeFlag' = writeFlag
  BY <1>1 DEF Loading, Status, InBackend, ToSubmit, Sent, args
<1> QED BY <1>1, <1>2 DEF Promise!Next, Promise!Load, Status, ToSubmit, Sent

(* After it, each write is a Submit, and all else goes unseen.              *)
LEMMA WritingKeepsPromise ==
  ASSUME next \in Nat \ {0}, update_bank_copy \in Seq(Update),
         WriteAll \/ WriteSome \/ WriteFails
  PROVE  Promise!Next
<1>1. /\ pc = "commit" /\ pc' \in {"commit", "over"} /\ next <= Len(update_bank_copy)
      /\ next' \in {next, next + 1}
      /\ UNCHANGED <<args, variable_bank, update_bank, update_bank_copy>>
      /\ \E file \in {update_bank_copy[next].data, Torn} :
           files' = [files EXCEPT ![update_bank_copy[next].key] = file]
  BY DEF WriteAll, WriteSome, WriteFails, CommitAs, Committing, Target
<1>2. Backend!StoreOf(variable_bank)' = Backend!StoreOf(variable_bank)
  BY <1>1 DEF Backend!StoreOf, Backend!DataOf, Backend!TimeOf, Backend!HasVar,
     Backend!find_secvar, Backend!FirstAt
<1>3. /\ Status = "accepted" /\ Status' = "accepted" /\ writeFlag' = writeFlag
      /\ ToSubmit = update_bank_copy /\ ToSubmit' = ToSubmit
      /\ Sent = next - 1 /\ Sent' \in {Sent, Sent + 1}
      /\ Sent + 1 = next /\ Sent < Len(ToSubmit)
  <2>1. Status = "accepted" /\ Status' = "accepted" /\ writeFlag' = writeFlag
    BY <1>1 DEF Status, args
  <2>2. ToSubmit = update_bank_copy /\ ToSubmit' = ToSubmit
    BY <1>1 DEF ToSubmit
  <2>3. Sent = next - 1 /\ Sent' = next' - 1
    BY <1>1 DEF Sent
  <2>4. Len(update_bank_copy) \in Nat
    OBVIOUS
  <2>5. Sent' \in {Sent, Sent + 1} /\ Sent + 1 = next
    <3>1. Sent + 1 = next /\ (next' = next \/ next' = next + 1)
      BY <1>1, <2>3
    <3>2. CASE next' = next
      BY <2>3, <3>2
    <3>3. CASE next' = next + 1
      <4>1. Sent' = (next + 1) - 1
        BY <2>3, <3>3
      <4> QED BY <3>1, <4>1
    <3> QED BY <3>1, <3>2, <3>3
  <2>6. Sent < Len(update_bank_copy)
    BY <1>1, <2>3, <2>4
  <2> QED BY <2>1, <2>2, <2>3, <2>5, <2>6
<1> QED BY <1>1, <1>2, <1>3 DEF Promise!Next, Promise!Submit, Status, ToSubmit, Sent

LEMMA UnseenKeepsPromise ==
  ASSUME next \in Nat \ {0},
         Return \/ OpenFails \/ LoopExit("commit", update_bank_copy, "over")
  PROVE  UNCHANGED Seen
<1>1. UNCHANGED <<args, variable_bank, update_bank, update_bank_copy, files>>
  BY DEF Return, OpenFails, CommitAs, LoopExit
<1>2. Backend!StoreOf(variable_bank)' = Backend!StoreOf(variable_bank)
  BY <1>1 DEF Backend!StoreOf, Backend!DataOf, Backend!TimeOf, Backend!HasVar,
     Backend!find_secvar, Backend!FirstAt
<1>3. CASE Return
  BY <1>1, <1>2, <1>3 DEF Return, Seen, Status, ToSubmit, Sent, args
<1>4. CASE OpenFails
  BY <1>1, <1>2, <1>4 DEF OpenFails, CommitAs, Committing, INVALID_FILE, ALLOC_FAIL,
     SUCCESS, Seen, Status, ToSubmit, Sent, args
<1>5. CASE LoopExit("commit", update_bank_copy, "over")
  BY <1>1, <1>2, <1>5 DEF LoopExit, Seen, Status, ToSubmit, Sent, args
<1> QED BY <1>3, <1>4, <1>5

LEMMA StepKeepsPromise ==
  ASSUME CallInv, BackendSound, CopyInv, WriteInv, [Next]_vars
  PROVE  [Promise!Next]_Seen
<1>0. next \in Nat \ {0}
  BY DEF CallInv
<1>1. CASE LoadUpdate \/ LoadCurrent \/ ValidateUpdate \/ ValidateCurrent
           \/ (EndOfLoop /\ Loading)
  <2>1. Loading
    BY <1>1 DEF Loading, LoadUpdate, LoadCurrent, ValidateUpdate, ValidateCurrent
  <2> QED BY <1>0, <1>1, <2>1, LoadingKeepsPromise
<1>2. CASE PreProcess \/ Process
  BY <1>0, <1>2, BackendKeepsPromise
<1>3. CASE WriteAll \/ WriteSome \/ WriteFails
  BY <1>0, <1>3, WritingKeepsPromise DEF WriteInv
<1>4. CASE Return \/ OpenFails \/ (EndOfLoop /\ ~Loading)
  <2>1. EndOfLoop /\ ~Loading => LoopExit("commit", update_bank_copy, "over")
    BY DEF EndOfLoop, LoopExit, Loading
  <2> QED BY <1>0, <1>4, <2>1, UnseenKeepsPromise
<1>5. CASE UNCHANGED vars
  <2>1. UNCHANGED <<variable_bank, update_bank, pc, rc, next, args, update_bank_copy, files>>
    BY <1>5 DEF vars, backend
  <2>2. Backend!StoreOf(variable_bank)' = Backend!StoreOf(variable_bank)
    BY <2>1 DEF Backend!StoreOf, Backend!DataOf, Backend!TimeOf, Backend!HasVar,
       Backend!find_secvar, Backend!FirstAt
  <2> QED BY <2>1, <2>2 DEF Seen, Status, InBackend, ToSubmit, Sent, args
<1> QED BY <1>1, <1>2, <1>3, <1>4, <1>5 DEF Next

(* The command implements Submission: nothing is written to an update file  *)
(* before the key store has accepted the whole queue, and then only that    *)
(* queue, in order, whatever fails on the way.                              *)
THEOREM PromiseTheorem == Spec => KeepsPromise
<1>1. Init => Promise!Init
  BY DEF Init, Promise!Init, InBackend
<1>2. Init => BackendSound /\ CopyInv /\ WriteInv
  BY DEF Init, BackendSound, InBackend, CopyInv, Loading, WriteInv, WrittenSoFar,
     SubmittedIsAll, Submitted
<1>3. CallInv /\ BackendSound /\ CopyInv /\ WriteInv /\ [Next]_vars
        => [Promise!Next]_<<Backend!StoreOf(variable_bank), update_bank,
             IF pc \in {"commit", "over"} THEN "accepted"
             ELSE IF pc = "refused" THEN "rejected"
             ELSE IF pc = "done"
                  THEN IF rc = SUCCESS THEN "accepted" ELSE "rejected"
             ELSE IF InBackend THEN "pending"
             ELSE "loading",
             writeFlag,
             IF pc \in {"commit", "over"} \/ (pc = "done" /\ rc = SUCCESS)
             THEN update_bank_copy ELSE << >>,
             IF pc \in {"commit", "over"} THEN next - 1 ELSE 0,
             files>>
  BY StepKeepsPromise DEF Seen, Status, ToSubmit, Sent
<1> QED BY <1>1, <1>2, <1>3, CallInvInit, CallInvStep, BackendSoundStep, CopyInvStep,
        WriteInvStep, PTL DEF Spec, KeepsPromise, Promise!Spec

-----------------------------------------------------------------------------
(***************************************************************************)
(* SUCCESS is a verdict on the variables that are in the directory, or     *)
(* listed, and not on the bank that the backend completes and copies on    *)
(* the way.                                                                *)
(***************************************************************************)

(* A verdict of process_update is one on what the bank holds, and pre_process *)
(* adds nothing to that.                                                    *)

DataIn(key, bank) == IF HasVar(key, bank) THEN find_secvar(key, bank).data ELSE NoData
TimeIn(key, bank) == IF HasVar("TS", bank)
                     THEN find_secvar("TS", bank).stamps[get_last_timestamp(key)]
                     ELSE 0

SameContents(bank, other) ==
  \A k \in Keys : /\ DataIn(k, bank) = DataIn(k, other)
                  /\ TimeIn(k, bank) = TimeIn(k, other)

LEMMA SameVerdict ==
  ASSUME NEW u \in Update, NEW b, NEW c, NEW s, NEW t, NEW m,
         SameContents(b, c),
         s[get_last_timestamp(u.key)] = t[get_last_timestamp(u.key)]
  PROVE  process_update(u, b, s, m) = process_update(u, c, t, m)
<1> DEFINE names     == get_key_authority(u.key)
           message   == get_hash_to_verify(u.key, u.data.data, u.data.time)
           tried(x)  == Consulted(u.key, x)
           Try(x, i) == verify_signature(u.data, message, find_secvar(names[i], x).data)
<1>1. names \in {<<"PK">>, <<"KEK", "PK">>} /\ \A i \in DOMAIN names : names[i] \in Keys
  BY DEF get_key_authority, Keys
<1>2. \A x : tried(x) = {i \in DOMAIN names : DataIn(names[i], x).size > 0}
  BY DEF Consulted, DataIn, NoData
<1>3. tried(b) = tried(c)
  BY <1>1, <1>2 DEF SameContents
<1>4. \A i \in tried(b) : find_secvar(names[i], b).data = find_secvar(names[i], c).data
  <2>1. \A x, i : i \in tried(x) => i \in DOMAIN names /\ HasVar(names[i], x)
    BY DEF Consulted
  <2>2. \A x, i : i \in tried(x) => DataIn(names[i], x) = find_secvar(names[i], x).data
    BY <2>1 DEF DataIn
  <2>3. \A i \in tried(b) : DataIn(names[i], b) = DataIn(names[i], c)
    BY <1>1, <2>1 DEF SameContents
  <2> HIDE DEF tried, names
  <2> QED BY <1>3, <2>2, <2>3
<1>5. tried(b) # {} => Max(tried(b)) \in tried(b)
  <2>1. tried(b) \in SUBSET (1..2)
    BY <1>1, <1>2
  <2> QED BY <2>1, MaxOfPlaces
<1>6. \A i \in tried(b) : Try(b, i) = Try(c, i)
  <2> HIDE DEF tried, names
  <2> QED BY <1>4
<1>7. check_timestamp(u.key, u.data.time, s) = check_timestamp(u.key, u.data.time, t)
  BY DEF check_timestamp
<1>8. \A x, y : process_update(u, x, y, m) =
        IF check_timestamp(u.key, u.data.time, y) # OPAL_SUCCESS
        THEN check_timestamp(u.key, u.data.time, y)
        ELSE IF validate_esl_list(u.key, u.data.data) < 0
             THEN validate_esl_list(u.key, u.data.data)
        ELSE IF m THEN OPAL_SUCCESS
        ELSE IF tried(x) = {} THEN validate_esl_list(u.key, u.data.data)
        ELSE IF \E i \in tried(x) : Try(x, i) = OPAL_SUCCESS THEN OPAL_SUCCESS
        ELSE Try(x, Max(tried(x)))
  BY Zenon DEF process_update
<1>9. CASE tried(b) = {}
  <2> HIDE DEF tried, Try
  <2> QED BY <1>3, <1>7, <1>8, <1>9, Zenon
<1>10. CASE tried(b) # {}
  <2>1. (\E i \in tried(b) : Try(b, i) = OPAL_SUCCESS)
          <=> \E i \in tried(c) : Try(c, i) = OPAL_SUCCESS
    <3> HIDE DEF tried, Try
    <3> QED BY <1>3, <1>6
  <2>2. Try(b, Max(tried(b))) = Try(c, Max(tried(c)))
    <3> HIDE DEF tried, Try
    <3> QED BY <1>3, <1>5, <1>6, <1>10
  <2> HIDE DEF tried, Try
  <2> QED BY <1>3, <1>7, <1>8, <1>10, <2>1, <2>2, Zenon
<1> QED BY <1>9, <1>10

(* The same words in the theory of the backend.                             *)
LEMMA SameContentsOf ==
  ASSUME NEW bank, NEW k
  PROVE  DataIn(k, bank) = Theory!DataOf(k, bank) /\ TimeIn(k, bank) = Theory!TimeOf(k, bank)
BY Zenon DEF DataIn, TimeIn, HasVar, find_secvar, FirstAt, Min, NoData, get_last_timestamp,
   Theory!DataOf, Theory!TimeOf, Theory!HasVar, Theory!find_secvar, Theory!FirstAt,
   Theory!Min, Theory!NoData, Theory!get_last_timestamp

LEMMA PreProcessSame ==
  ASSUME Theory!BackendInv, Backend!PreProcessVar
  PROVE  SameContents(variable_bank', variable_bank)
<1>1. Theory!PreProcessVar
  BY SameSteps
<1>2. \A k \in Theory!Keys :
        /\ Theory!DataOf(k, variable_bank)' = Theory!DataOf(k, variable_bank)
        /\ Theory!TimeOf(k, variable_bank)' = Theory!TimeOf(k, variable_bank)
  BY <1>1, TheoryApplies
<1>3. \A k : /\ DataIn(k, variable_bank') = Theory!DataOf(k, variable_bank)'
             /\ TimeIn(k, variable_bank') = Theory!TimeOf(k, variable_bank)'
  BY Zenon DEF DataIn, TimeIn, HasVar, find_secvar, FirstAt, Min, NoData,
     get_last_timestamp, Theory!DataOf, Theory!TimeOf, Theory!HasVar,
     Theory!find_secvar, Theory!FirstAt, Theory!Min, Theory!NoData,
     Theory!get_last_timestamp
<1> QED BY <1>2, <1>3, SameContentsOf DEF SameContents, Keys, Theory!Keys

(* The one update that is given, and what is loaded if all of it can be read. *)
OneOfAll == /\ Len(updateVars) = 1
            /\ \A i \in DOMAIN currentVars : CurrentFile(i) \notin unreadable

Stamps  == IF HasVar("TS", currentVars) THEN find_secvar("TS", currentVars).stamps
                                        ELSE <<0, 0, 0, 0>>
NoPk    == HasVar("PK", currentVars) => Backend!PkEmpty(currentVars)
Verdict == process_update(updateVars[1], currentVars, Stamps, NoPk) >= 0

Judged == \/ pc = "loop" /\ next # 1
          \/ pc \in {"finish", "done", "over"} /\ rc = SUCCESS
          \/ pc = "commit"

SignedInv ==
  OneOfAll =>
    /\ pc = "load_updates" =>
         \/ next = 1 /\ update_bank = << >>
         \/ next # 1 /\ update_bank \in {<< >>, updateVars}
    /\ (Loading /\ pc # "load_updates") \/ pc \in {"pre_process", "process"} =>
         update_bank \in {<< >>, updateVars}
    /\ pc = "loop" => update_bank = updateVars
    /\ pc = "load_updates" => variable_bank = << >>
    /\ pc = "load_current" =>
         /\ Len(variable_bank) = next - 1 /\ next - 1 <= Len(currentVars)
         /\ \A i \in DOMAIN variable_bank : variable_bank[i] = currentVars[i]
    /\ pc \in {"validate_updates", "validate_current"} => variable_bank = currentVars
    /\ pc \in {"pre_process", "process", "loop"} => SameContents(variable_bank, currentVars)
    /\ pc = "loop" /\ next = 1 => staging_bank = variable_bank
    /\ Judged => Verdict

(* The backend's verdict and its work on one update, in plain words.        *)
LEMMA SameOutcome ==
  Backend!Outcome = process_update(update_bank[next], staging_bank,
                      find_secvar("TS", staging_bank).stamps, setup_mode)
BY Zenon DEF Backend!Outcome, Backend!process_update, Backend!find_secvar,
   Backend!FirstAt, Backend!HasVar, Backend!Min, Backend!Max,
   Backend!OPAL_SUCCESS, Backend!OPAL_PARAMETER, Backend!OPAL_PERMISSION,
   Backend!OPAL_INTERNAL_ERROR, Backend!ListHeader, Backend!MinESL,
   Backend!get_key_authority, Backend!get_last_timestamp, Backend!check_timestamp,
   Backend!GoodESL, Backend!validate_esl_list, Backend!get_hash_to_verify,
   Backend!crypto_pkcs7_signed_hash_verify, Backend!verify_signature,
   Backend!Consulted,
   process_update, find_secvar, FirstAt, HasVar, Min, Max, OPAL_SUCCESS,
   OPAL_PARAMETER, OPAL_PERMISSION, OPAL_INTERNAL_ERROR, ListHeader, MinESL,
   get_key_authority, get_last_timestamp, check_timestamp, GoodESL,
   validate_esl_list, get_hash_to_verify, crypto_pkcs7_signed_hash_verify,
   verify_signature, Consulted

(* Accepted by the backend, the update is one that the variables allow.     *)
LEMMA AcceptedIsVerdict ==
  ASSUME Theory!BackendInv, SameContents(variable_bank, currentVars),
         staging_bank = variable_bank, update_bank = updateVars, next = 1,
         Backend!ApplyUpdate
  PROVE  Verdict
<1> DEFINE u == updateVars[1]
           t == find_secvar("TS", staging_bank).stamps
<1>1. pc = "loop" /\ next <= Len(update_bank) /\ Backend!Outcome = 0
  BY DEF Backend!ApplyUpdate, Backend!OPAL_SUCCESS
<1>2. u \in Update
  <2>1. update_bank \in Seq(Update)
    <3>1. update_bank \in {queue \in Seq(Update) : QueueWhole(queue)} \cup {<< >>}
      BY DEF Theory!BackendInv, Theory!Inv, Theory!TypeOK
    <3>2. update_bank # << >>
      BY <1>1
    <3> QED BY <3>1, <3>2
  <2> QED BY <1>1, <2>1
<1>3. Backend!Outcome = process_update(update_bank[next], staging_bank, t, setup_mode)
  BY SameOutcome
<1>4. t[get_last_timestamp(u.key)] = Stamps[get_last_timestamp(u.key)]
  <2>1. HasVar("TS", staging_bank)
    BY <1>1 DEF Theory!BackendInv, Theory!Inv, Theory!TypeOK, Theory!Variables,
       Theory!HasVar, HasVar
  <2>2. TimeIn(u.key, staging_bank) = TimeIn(u.key, currentVars) /\ u.key \in Keys
    BY <1>2 DEF SameContents, Update
  <2>3. get_last_timestamp(u.key) \in 1..4
    BY <2>2 DEF get_last_timestamp, Keys
  <2>4. HasVar("TS", currentVars)
          => Stamps[get_last_timestamp(u.key)] = TimeIn(u.key, currentVars)
    BY DEF Stamps, TimeIn
  <2>5. ~HasVar("TS", currentVars) => Stamps[get_last_timestamp(u.key)] = 0
    BY <2>3 DEF Stamps
  <2> QED BY <2>1, <2>2, <2>4, <2>5 DEF TimeIn
<1>5. setup_mode = NoPk
  <2>1. setup_mode = (DataIn("PK", variable_bank).size = 0)
    <3>1. setup_mode = (Theory!DataOf("PK", variable_bank).size = 0)
      BY <1>1, Zenon DEF Theory!BackendInv, Theory!Inv, Theory!ModeIsNoPk
    <3> QED BY <3>1, SameContentsOf, Zenon
  <2>2. DataIn("PK", variable_bank) = DataIn("PK", currentVars)
    BY DEF SameContents, Keys
  <2>3. NoPk <=> DataIn("PK", currentVars).size = 0
    BY DEF NoPk, DataIn, NoData, Backend!PkEmpty, Backend!find_secvar, Backend!FirstAt,
       Backend!Min, find_secvar, FirstAt, Min, HasVar
  <2>4. NoPk \in BOOLEAN
    BY Zenon DEF NoPk
  <2> QED BY <2>1, <2>2, <2>3, <2>4, Zenon
<1>6. process_update(u, staging_bank, t, setup_mode)
        = process_update(u, currentVars, Stamps, setup_mode)
  BY <1>2, <1>4, SameVerdict
<1>7. process_update(u, currentVars, Stamps, NoPk) = 0
  BY <1>1, <1>3, <1>5, <1>6, Zenon
<1> QED BY <1>7 DEF Verdict

LEMMA VerdictStands ==
  ASSUME UNCHANGED args
  PROVE  (OneOfAll' <=> OneOfAll) /\ (Verdict' <=> Verdict)
BY DEF args, OneOfAll, CurrentFile, Verdict, Stamps, NoPk, Backend!PkEmpty

LEMMA LoadKeepsSigned ==
  ASSUME CallInv, SignedInv, OneOfAll, LoadUpdate \/ LoadCurrent
  PROVE  SignedInv'
<1>0. next \in Nat \ {0} /\ updateVars \in Seq(Given) /\ currentVars \in Seq(Loaded)
  BY DEF CallInv
<1>1. CASE LoadUpdate
  <2>1. /\ pc = "load_updates" /\ pc' = pc /\ next = 1 /\ next' = 2
        /\ update_bank = << >> /\ variable_bank' = << >>
        /\ update_bank' \in {update_bank, Append(update_bank, updateVars[1])}
        /\ UNCHANGED args
    BY <1>0, <1>1 DEF LoadUpdate, SignedInv, OneOfAll
  <2>2. Append(update_bank, updateVars[1]) = updateVars
    BY <1>0, <2>1 DEF OneOfAll
  <2>3. update_bank' \in {<< >>, updateVars} /\ updateVars' = updateVars
    BY <2>1, <2>2 DEF args
  <2> QED BY <2>1, <2>3 DEF SignedInv, Loading, Judged
<1>2. CASE LoadCurrent
  <2>1. /\ pc = "load_current" /\ pc' = pc /\ next <= Len(currentVars) /\ next' = next + 1
        /\ variable_bank' = Append(variable_bank, currentVars[next])
        /\ update_bank' = update_bank /\ UNCHANGED args
    BY <1>0, <1>2 DEF LoadCurrent, OneOfAll
  <2>2. /\ variable_bank \in Seq(Loaded) /\ Len(variable_bank) = next - 1
        /\ \A i \in DOMAIN variable_bank : variable_bank[i] = currentVars[i]
        /\ update_bank \in {<< >>, updateVars}
    BY <2>1 DEF CallInv, BanksAsRead, Loading, SignedInv
  <2>3. /\ Len(variable_bank') = next' - 1 /\ next' - 1 <= Len(currentVars)
        /\ \A i \in DOMAIN variable_bank' : variable_bank'[i] = currentVars[i]
    BY <1>0, <2>1, <2>2
  <2>4. updateVars' = updateVars /\ currentVars' = currentVars
    BY <2>1 DEF args
  <2> QED BY <2>1, <2>2, <2>3, <2>4 DEF SignedInv, Loading, Judged
<1> QED BY <1>1, <1>2

LEMMA ExitKeepsSigned ==
  ASSUME CallInv, SignedInv, OneOfAll, EndOfLoop
  PROVE  SignedInv'
<1>0. /\ next \in Nat \ {0} /\ updateVars \in Seq(Given) /\ currentVars \in Seq(Loaded)
      /\ UNCHANGED <<args, variable_bank, update_bank, staging_bank, rc>>
      /\ updateVars' = updateVars /\ currentVars' = currentVars
  BY DEF CallInv, EndOfLoop, LoopExit, args
<1>1. Verdict' <=> Verdict
  BY <1>0, VerdictStands
<1>2. CASE pc = "load_updates"
  <2>1. pc' = "load_current" /\ next' = 1 /\ next > 1
    BY <1>2 DEF EndOfLoop, LoopExit, OneOfAll
  <2> QED BY <1>0, <1>2, <2>1 DEF SignedInv, OneOfAll, Loading, Judged
<1>3. CASE pc = "load_current"
  <2>1. pc' = "validate_updates" /\ next > Len(currentVars)
    BY <1>3 DEF EndOfLoop, LoopExit
  <2>2. /\ variable_bank \in Seq(Loaded) /\ Len(variable_bank) = Len(currentVars)
        /\ \A i \in DOMAIN variable_bank : variable_bank[i] = currentVars[i]
        /\ update_bank \in {<< >>, updateVars}
    BY <1>0, <1>3, <2>1 DEF CallInv, BanksAsRead, Loading, SignedInv
  <2>3. variable_bank = currentVars
    BY <1>0, <2>2
  <2> QED BY <1>0, <2>1, <2>2, <2>3 DEF SignedInv, Loading, Judged
<1>4. CASE pc \in {"validate_updates", "validate_current"}
  <2>1. pc' \in {"validate_current", "pre_process"}
    BY <1>4 DEF EndOfLoop, LoopExit
  <2>2. variable_bank = currentVars /\ update_bank \in {<< >>, updateVars}
    BY <1>4 DEF SignedInv, Loading
  <2>3. SameContents(variable_bank', currentVars')
    BY <1>0, <2>2 DEF SameContents
  <2> QED BY <1>0, <2>1, <2>2, <2>3 DEF SignedInv, Loading, Judged
<1>5. CASE pc = "commit"
  <2>1. pc' = "over" /\ Verdict
    BY <1>5 DEF EndOfLoop, LoopExit, SignedInv, Judged
  <2> QED BY <1>1, <2>1 DEF SignedInv, Loading
<1> QED BY <1>2, <1>3, <1>4, <1>5 DEF EndOfLoop, LoopExit

LEMMA BackendKeepsSigned ==
  ASSUME CallInv, BackendSound, SignedInv, OneOfAll, PreProcess \/ Process
  PROVE  SignedInv'
<1>0. /\ Theory!BackendInv /\ next \in Nat \ {0} /\ UNCHANGED args
      /\ updateVars' = updateVars /\ currentVars' = currentVars
  BY BackendStep, InBackendNext DEF CallInv, args
<1>1. Verdict' <=> Verdict
  BY <1>0, VerdictStands
<1>2. SameContents(variable_bank', currentVars') <=> SameContents(variable_bank', currentVars)
  BY <1>0
<1>3. CASE Backend!PreProcessVar
  <2>1. /\ pc = "pre_process" /\ pc' \in {"pre_process", "process"}
        /\ update_bank' = update_bank
    BY <1>3 DEF Backend!PreProcessVar
  <2>2. SameContents(variable_bank', variable_bank)
    BY <1>0, <1>3, PreProcessSame
  <2>3. SameContents(variable_bank', currentVars) /\ update_bank \in {<< >>, updateVars}
    BY <2>1, <2>2 DEF SignedInv, SameContents
  <2> QED BY <1>0, <1>2, <2>1, <2>3 DEF SignedInv, Loading, Judged
<1>4. CASE Backend!PreProcessNoMem \/ Backend!NothingToProcess
  <2>1. pc' = "done" /\ rc' # SUCCESS
    BY <1>4 DEF Backend!PreProcessNoMem, Backend!NothingToProcess, Backend!OPAL_NO_MEM,
       Backend!OPAL_EMPTY, SUCCESS
  <2> QED BY <2>1 DEF SignedInv, Loading, Judged
<1>5. CASE Backend!Stage
  <2>1. /\ pc = "process" /\ update_bank # << >> /\ update_bank' = update_bank
        /\ variable_bank' = variable_bank /\ next' = next
        /\ staging_bank' = Backend!copy_bank_list(<< >>, variable_bank)
        /\ \/ pc' = "loop"
           \/ pc' = "done" /\ rc' = Backend!OPAL_PERMISSION
    BY <1>5 DEF Backend!Stage
  <2>2. next = 1 /\ staging_bank' = variable_bank
    BY <1>0, <2>1 DEF Theory!BackendInv, Theory!ReplayInv, Theory!ProcessStartsAtFirst,
       Theory!Inv, Theory!TypeOK, Backend!copy_bank_list
  <2>3. update_bank = updateVars /\ SameContents(variable_bank, currentVars)
    BY <2>1 DEF SignedInv
  <2> QED BY <1>0, <1>2, <2>1, <2>2, <2>3 DEF SignedInv, Loading, Judged,
         Backend!OPAL_PERMISSION, SUCCESS
<1>6. CASE Backend!ApplyUpdate
  <2>1. /\ pc = "loop" /\ pc' = "loop" /\ next' = next + 1 /\ update_bank' = update_bank
        /\ variable_bank' = variable_bank
    BY <1>6 DEF Backend!ApplyUpdate
  <2>2. /\ update_bank = updateVars /\ SameContents(variable_bank, currentVars)
        /\ next = 1 => staging_bank = variable_bank
        /\ next # 1 => Verdict
    BY <2>1 DEF SignedInv, Judged
  <2>3. Verdict
    BY <1>0, <1>6, <2>2, AcceptedIsVerdict
  <2> QED BY <1>0, <1>1, <1>2, <2>1, <2>2, <2>3 DEF SignedInv, Loading, Judged
<1>7. CASE Backend!RejectUpdate \/ Backend!UpdateNoMem
  <2>1. pc' = "finish" /\ rc' # SUCCESS
    BY <1>7 DEF Backend!RejectUpdate, Backend!UpdateNoMem, Backend!OPAL_NO_MEM,
       Backend!OPAL_SUCCESS, SUCCESS
  <2> QED BY <2>1 DEF SignedInv, Loading, Judged
<1>8. CASE Backend!EndOfQueue
  <2>1. pc = "loop" /\ pc' = "finish" /\ next > Len(update_bank)
    BY <1>8 DEF Backend!EndOfQueue
  <2>2. Verdict
    BY <2>1 DEF SignedInv, OneOfAll, Judged
  <2> QED BY <1>1, <2>1, <2>2 DEF SignedInv, Loading, Judged
<1>9. CASE Backend!Finish
  <2>1. /\ pc = "finish" /\ pc' = "done"
        /\ rc' = SUCCESS => rc = SUCCESS
    BY <1>9 DEF Backend!Finish, Backend!OPAL_INTERNAL_ERROR, SUCCESS
  <2> QED BY <1>1, <2>1 DEF SignedInv, Loading, Judged
<1> QED BY <1>3, <1>4, <1>5, <1>6, <1>7, <1>8, <1>9 DEF PreProcess, Process

LEMMA SignedInvStep ==
  CallInv /\ BackendSound /\ SignedInv /\ [Next]_vars => SignedInv'
<1> SUFFICES ASSUME CallInv, BackendSound, SignedInv, [Next]_vars, OneOfAll'
             PROVE  SignedInv'
  BY DEF SignedInv
<1>1. UNCHANGED args
  BY DEF Next, vars, LoadUpdate, LoadCurrent, ValidateUpdate, ValidateCurrent, CheckedAs,
     PreProcess, Process, Return, WriteAll, WriteSome, WriteFails, OpenFails, CommitAs,
     EndOfLoop, LoopExit
<1>2. OneOfAll /\ (Verdict' <=> Verdict)
      /\ updateVars' = updateVars /\ currentVars' = currentVars
  BY <1>1, VerdictStands DEF args
<1>3. CASE LoadUpdate \/ LoadCurrent
  BY <1>2, <1>3, LoadKeepsSigned
<1>4. CASE ValidateUpdate \/ ValidateCurrent
  <2>1. /\ pc \in {"validate_updates", "validate_current"} /\ pc' \in {pc, "refused"}
        /\ variable_bank' = variable_bank /\ update_bank' = update_bank
    BY <1>4 DEF ValidateUpdate, ValidateCurrent, CheckedAs
  <2> QED BY <1>2, <2>1 DEF SignedInv, Loading, Judged
<1>5. CASE PreProcess \/ Process
  BY <1>2, <1>5, BackendKeepsSigned
<1>6. CASE Return
  BY <1>2, <1>6 DEF Return, SignedInv, Loading, Judged
<1>7. CASE WriteAll \/ WriteSome \/ WriteFails \/ OpenFails
  <2>1. pc = "commit" /\ pc' \in {"commit", "over"}
    BY <1>7 DEF WriteAll, WriteSome, WriteFails, OpenFails, CommitAs, Committing
  <2> QED BY <1>2, <2>1 DEF SignedInv, Loading, Judged
<1>8. CASE EndOfLoop
  BY <1>2, <1>8, ExitKeepsSigned
<1>9. CASE UNCHANGED vars
  <2>1. UNCHANGED <<variable_bank, update_bank, staging_bank, pc, next, rc>>
    BY <1>9 DEF vars, backend
  <2> QED BY <1>2, <2>1 DEF SignedInv, Loading, Judged, SameContents
<1> QED BY <1>3, <1>4, <1>5, <1>6, <1>7, <1>8, <1>9 DEF Next

(* SUCCESS for one update means that the variables in the directory, or     *)
(* listed, allow it, if each of them could be read: what verify adds to     *)
(* them on the way does not count.                                          *)
THEOREM SignedTheorem == Spec => []SuccessMeansSigned
<1>1. Init => SignedInv /\ BackendSound
  BY DEF Init, SignedInv, Loading, Judged, BackendSound, InBackend
<1>2. SignedInv => SuccessMeansSigned
  BY DEF SignedInv, OneOfAll, Judged, Verdict, Stamps, NoPk, SuccessMeansSigned, VerdictIsTrue
<1> QED BY <1>1, <1>2, CallInvInit, CallInvStep, BackendSoundStep, SignedInvStep, PTL DEF Spec
=============================================================================
