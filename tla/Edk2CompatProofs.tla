-------------------------- MODULE Edk2CompatProofs --------------------------
(***************************************************************************)
(* Theorems about Edk2Compat, for every set of certificates, of banks and  *)
(* of queues, of any length.                                               *)
(***************************************************************************)
EXTENDS Edk2Compat, WellFoundedInduction, TLAPS

-----------------------------------------------------------------------------
(* The least element of a set of naturals: what find_secvar and             *)
(* verify_signature stop at.                                                *)

NatOrder == {p \in Nat \X Nat : p[1] < p[2]}

LEMMA NatOrderWellFounded == IsWellFoundedOn(NatOrder, Nat)
BY NatLessThanWellFounded DEF OpToRel, NatOrder

LEMMA MinOfNats ==
  ASSUME NEW S \in SUBSET Nat, S # {}
  PROVE  Min(S) \in S /\ \A n \in S : Min(S) <= n
<1>1. PICK m \in S : \A n \in S : ~(<<n, m>> \in NatOrder)
  BY NatOrderWellFounded, WFMin
<1>2. \A n \in S : m <= n
  <2> TAKE n \in S
  <2>1. <<n, m>> \in Nat \X Nat /\ <<n, m>>[1] = n /\ <<n, m>>[2] = m
    BY SMT
  <2>2. ~(n < m)
    BY <1>1, <2>1 DEF NatOrder
  <2> QED BY <2>2
<1> QED BY <1>2 DEF Min

-----------------------------------------------------------------------------
(* Banks.                                                                   *)

LEMMA Found ==
  ASSUME NEW bank \in Seq(SecVar), NEW key, HasVar(key, bank)
  PROVE  /\ FirstAt(key, bank) \in DOMAIN bank
         /\ find_secvar(key, bank) = bank[FirstAt(key, bank)]
         /\ find_secvar(key, bank) \in SecVar
         /\ find_secvar(key, bank).key = key
<1> DEFINE S == {i \in DOMAIN bank : bank[i].key = key}
<1>1. S \in SUBSET Nat /\ S # {}
  BY DEF HasVar
<1>2. Min(S) \in S
  BY <1>1, MinOfNats
<1> QED BY <1>2 DEF FirstAt, find_secvar

LEMMA FoundKey ==
  ASSUME NEW bank \in Seq(SecVar), NEW key \in Keys, HasVar(key, bank)
  PROVE  find_secvar(key, bank) \in KeyVar
BY Found DEF SecVar, KeyVar, TSVar, Keys

LEMMA FoundTS ==
  ASSUME NEW bank \in Seq(SecVar), HasVar("TS", bank)
  PROVE  find_secvar("TS", bank) \in TSVar
BY Found DEF SecVar, KeyVar, TSVar, Keys

(* Banks with the same keys in the same places are searched alike.          *)
SameKeys(b, c) == DOMAIN b = DOMAIN c /\ \A i \in DOMAIN b : b[i].key = c[i].key

LEMMA SearchedAlike ==
  ASSUME NEW b, NEW c, SameKeys(b, c), NEW key
  PROVE  FirstAt(key, b) = FirstAt(key, c) /\ (HasVar(key, b) <=> HasVar(key, c))
<1>1. {i \in DOMAIN b : b[i].key = key} = {i \in DOMAIN c : c[i].key = key}
  BY DEF SameKeys
<1> QED BY <1>1 DEF FirstAt, HasVar, SameKeys

-----------------------------------------------------------------------------
(* The return codes are integers.                                           *)

LEMMA TimestampPlace ==
  ASSUME NEW key \in Keys
  PROVE  get_last_timestamp(key) \in 1..4
BY DEF Keys, get_last_timestamp

LEMMA ListCheckType ==
  ASSUME NEW key \in Keys, NEW data \in Data, Whole(data)
  PROVE  validate_esl_list(key, data) \in Int
<1>1. CASE data.size < ListHeader
  BY <1>1 DEF validate_esl_list
<1>2. CASE data.size >= ListHeader
  <2>1. data.esls # << >>
    BY <1>2 DEF Data, Whole, ListHeader
  <2>2. data.esls[1] \in ESL
    BY <2>1 DEF Data
  <2>3. data.esls[1].size \in Nat \ {0} /\ data.size - ListHeader \in Int
    BY <2>2 DEF ESL, MinESL, ListHeader, Data
  <2>4. (data.size - ListHeader) \div data.esls[1].size \in Int
    BY <2>3
  <2> QED BY <1>2, <2>4 DEF validate_esl_list, OPAL_PARAMETER
<1> QED BY <1>1, <1>2 DEF Data, ListHeader

LEMMA OutcomeType ==
  ASSUME NEW update \in Update, Whole(update.data.data),
         NEW bank, NEW stamps, NEW mode
  PROVE  process_update(update, bank, stamps, mode) \in Int
<1>1. update.key \in Keys /\ update.data.data \in Data
  BY DEF Update, Auth
<1>2. validate_esl_list(update.key, update.data.data) \in Int
  BY <1>1, ListCheckType
<1>3. \A auth, message, authority : verify_signature(auth, message, authority) \in Int
  BY DEF verify_signature, OPAL_SUCCESS, OPAL_PERMISSION, OPAL_INTERNAL_ERROR
<1> QED
  BY <1>2, <1>3 DEF process_update, check_timestamp, OPAL_SUCCESS, OPAL_PERMISSION

-----------------------------------------------------------------------------
(* One update applied to the working copy.                                  *)

LEMMA UpdatedVariable ==
  ASSUME NEW bank \in Seq(SecVar), NEW update \in Update, HasVar(update.key, bank)
  PROVE  /\ update_variable_in_bank(update, bank) \in Seq(SecVar)
         /\ SameKeys(update_variable_in_bank(update, bank), bank)
<1> DEFINE at  == FirstAt(update.key, bank)
           new == update_variable_in_bank(update, bank)[at]
<1>1. at \in DOMAIN bank /\ bank[at] \in KeyVar /\ bank[at].key = update.key
  BY Found, FoundKey DEF Update
<1>2. update.data.data \in Data /\ update.key \in Keys
  BY DEF Update, Auth
<1>3. new \in KeyVar /\ new.key = bank[at].key
  BY <1>1, <1>2 DEF update_variable_in_bank, new_secvar, KeyVar, Flags
<1>4. /\ DOMAIN update_variable_in_bank(update, bank) = DOMAIN bank
      /\ \A i \in DOMAIN bank : i # at => update_variable_in_bank(update, bank)[i] = bank[i]
  BY DEF update_variable_in_bank
<1>5. update_variable_in_bank(update, bank) = [i \in DOMAIN bank |-> update_variable_in_bank(update, bank)[i]]
  BY DEF update_variable_in_bank
<1>6. \A i \in DOMAIN bank : update_variable_in_bank(update, bank)[i] \in SecVar
  BY <1>3, <1>4 DEF SecVar
<1>7. update_variable_in_bank(update, bank) \in Seq(SecVar)
  BY <1>5, <1>6
<1>8. SameKeys(update_variable_in_bank(update, bank), bank)
  BY <1>1, <1>3, <1>4 DEF SameKeys
<1> QED BY <1>7, <1>8

LEMMA UpdatedTimestamp ==
  ASSUME NEW bank \in Seq(SecVar), HasVar("TS", bank), NEW key \in Keys, NEW time \in Nat
  PROVE  /\ update_timestamp(key, time, bank) \in Seq(SecVar)
         /\ SameKeys(update_timestamp(key, time, bank), bank)
<1> DEFINE at  == FirstAt("TS", bank)
           res == update_timestamp(key, time, bank)
<1>1. at \in DOMAIN bank /\ bank[at] \in TSVar
  BY Found, FoundTS
<1>2. res[at] \in TSVar /\ res[at].key = bank[at].key
  BY <1>1, TimestampPlace DEF update_timestamp, TSVar
<1>3. /\ DOMAIN res = DOMAIN bank
      /\ \A i \in DOMAIN bank : i # at => res[i] = bank[i]
      /\ res = [i \in DOMAIN bank |-> res[i]]
  BY DEF update_timestamp
<1>4. \A i \in DOMAIN bank : res[i] \in SecVar
  BY <1>2, <1>3 DEF SecVar
<1>5. res \in Seq(SecVar)
  BY <1>3, <1>4
<1>6. SameKeys(res, bank)
  BY <1>1, <1>2, <1>3 DEF SameKeys
<1> QED BY <1>5, <1>6

LEMMA ApplyUpdateType ==
  ASSUME NEW bank \in Seq(SecVar), NEW update \in Update,
         \A k \in Variables : HasVar(k, bank)
  PROVE  LET new == update_timestamp(update.key, update.data.time,
                                     update_variable_in_bank(update, bank))
         IN  new \in Seq(SecVar) /\ SameKeys(new, bank)
<1> DEFINE mid == update_variable_in_bank(update, bank)
<1>1. update.key \in Keys /\ update.data.time \in Nat
  BY DEF Update, Auth
<1>2. HasVar(update.key, bank) /\ HasVar("TS", bank)
  BY <1>1 DEF Variables
<1>3. mid \in Seq(SecVar) /\ SameKeys(mid, bank)
  BY <1>2, UpdatedVariable
<1>4. HasVar("TS", mid)
  BY <1>2, <1>3, SearchedAlike
<1>5. /\ update_timestamp(update.key, update.data.time, mid) \in Seq(SecVar)
      /\ SameKeys(update_timestamp(update.key, update.data.time, mid), mid)
  BY <1>1, <1>3, <1>4, UpdatedTimestamp
<1> QED BY <1>3, <1>5 DEF SameKeys

LEMMA Appended ==
  ASSUME NEW bank \in Seq(SecVar), NEW j \in 1..Len(Order)
  PROVE  LET new == Append(bank, DefaultVar(Order[j]))
         IN  /\ new \in Seq(SecVar)
             /\ HasVar(Order[j], new)
             /\ \A k : HasVar(k, bank) => HasVar(k, new)
<1> DEFINE new == Append(bank, DefaultVar(Order[j]))
<1>1. DefaultVar(Order[j]) \in SecVar /\ DefaultVar(Order[j]).key = Order[j]
  <2>1. NoData \in Data
    BY DEF NoData, Data
  <2>2. [i \in 1..4 |-> 0] \in [1..4 -> Nat]
    OBVIOUS
  <2> QED BY <2>1, <2>2
          DEF Order, DefaultVar, new_secvar, SecVar, KeyVar, TSVar, Keys, Flags
<1>2. /\ new \in Seq(SecVar) /\ Len(new) = Len(bank) + 1
      /\ new[Len(bank) + 1] = DefaultVar(Order[j])
      /\ \A i \in 1..Len(bank) : new[i] = bank[i]
  BY <1>1
<1>3. Len(bank) + 1 \in DOMAIN new /\ \A i \in DOMAIN bank : i \in DOMAIN new
  BY <1>2
<1> QED BY <1>1, <1>2, <1>3 DEF HasVar

-----------------------------------------------------------------------------
(* TypeOK holds in every state of every run: the queue is untouched until   *)
(* it is cleared, and from the end of pre_process on no search of a bank    *)
(* for one of the five variables can fail.                                  *)

LEMMA QueuedUpdate ==
  ASSUME TypeOK, next \in 1..Len(update_bank)
  PROVE  update_bank[next] \in Update /\ Whole(update_bank[next].data.data)
BY QueuesAssumption DEF TypeOK, QueueWhole

LEMMA TypeInit == Init => TypeOK
<1> SUFFICES ASSUME Init PROVE TypeOK
  OBVIOUS
<1>1. variable_bank \in Seq(SecVar) /\ staging_bank \in Seq(SecVar)
  BY BanksAssumption DEF Init
<1>2. next <= Len(Order) /\ 1..(next - 1) = {}
  BY DEF Init, Order
<1>3. setup_mode \in BOOLEAN
  BY DEF Init
<1> QED BY <1>1, <1>2, <1>3 DEF Init, TypeOK, OPAL_SUCCESS

LEMMA TypeStep == TypeOK /\ [Next]_vars => TypeOK'
<1> SUFFICES ASSUME TypeOK, [Next]_vars PROVE TypeOK'
  OBVIOUS
<1> USE DEF TypeOK
<1>1. CASE PreProcessVar
  <2>1. next \in 1..Len(Order)
    BY <1>1 DEF PreProcessVar, Order
  <2>2. /\ variable_bank' \in Seq(SecVar)
        /\ HasVar(Order[next], variable_bank')
        /\ \A k : HasVar(k, variable_bank) => HasVar(k, variable_bank')
    BY <1>1, <2>1, Appended DEF PreProcessVar
  <2>3. \A j \in 1..next : HasVar(Order[j], variable_bank')
    BY <1>1, <2>2 DEF PreProcessVar
  <2>6. setup_mode' \in BOOLEAN
    <3>1. PkEmpty(variable_bank') \in BOOLEAN
      BY DEF PkEmpty
    <3> QED BY <1>1, <3>1, Zenon DEF PreProcessVar
  <2>4. CASE next = Len(Order)
    <3>1. \A k \in Variables : \E j \in 1..next : Order[j] = k
      BY <2>4 DEF Variables, Keys, Order
    <3>2. \A k \in Variables : HasVar(k, variable_bank')
      BY <3>1, <2>3
    <3> QED BY <1>1, <2>2, <2>4, <2>6, <3>2 DEF PreProcessVar
  <2>5. CASE next # Len(Order)
    BY <1>1, <2>1, <2>2, <2>3, <2>5, <2>6 DEF PreProcessVar, Order
  <2> QED BY <2>4, <2>5
<1>2. CASE PreProcessNoMem
  BY <1>2 DEF PreProcessNoMem, OPAL_NO_MEM
<1>3. CASE NothingToProcess
  BY <1>3 DEF NothingToProcess, OPAL_EMPTY
<1>4. CASE Stage
  <2>1. staging_bank' = variable_bank
    BY <1>4 DEF Stage, copy_bank_list
  <2> QED BY <1>4, <2>1 DEF Stage, OPAL_PERMISSION
<1>5. CASE ApplyUpdate
  <2>1. update_bank[next] \in Update
    BY <1>5, QueuedUpdate DEF ApplyUpdate
  <2>2. staging_bank' \in Seq(SecVar) /\ SameKeys(staging_bank', staging_bank)
    BY <1>5, <2>1, ApplyUpdateType DEF ApplyUpdate
  <2>3. \A k \in Variables : HasVar(k, staging_bank')
    BY <1>5, <2>2, SearchedAlike DEF ApplyUpdate
  <2> QED BY <1>5, <2>2, <2>3 DEF ApplyUpdate
<1>6. CASE RejectUpdate
  <2>1. Outcome \in Int
    BY <1>6, QueuedUpdate, OutcomeType DEF RejectUpdate, Outcome
  <2> QED BY <1>6, <2>1 DEF RejectUpdate
<1>7. CASE UpdateNoMem
  BY <1>7 DEF UpdateNoMem, OPAL_NO_MEM
<1>8. CASE EndOfQueue
  BY <1>8 DEF EndOfQueue
<1>9. CASE Finish
  <2>1. variable_bank' \in {variable_bank, staging_bank}
    BY <1>9 DEF Finish, copy_bank_list, clear_bank_list
  <2>2. staging_bank' = << >> /\ update_bank' = << >>
    BY <1>9 DEF Finish, clear_bank_list
  <2>3. setup_mode' \in BOOLEAN
    <3>1. PkEmpty(variable_bank') \in BOOLEAN
      BY DEF PkEmpty
    <3> QED BY <1>9, <3>1, Zenon DEF Finish
  <2> QED BY <1>9, <2>1, <2>2, <2>3 DEF Finish, OPAL_INTERNAL_ERROR
<1>10. CASE UNCHANGED vars
  BY <1>10 DEF vars
<1> QED BY <1>1, <1>2, <1>3, <1>4, <1>5, <1>6, <1>7, <1>8, <1>9, <1>10 DEF Next

THEOREM TypeInvariant == Spec => []TypeOK
BY TypeInit, TypeStep, PTL DEF Spec

-----------------------------------------------------------------------------
(* Who an accepted update must be signed by.                                *)

Entitled(key) == IF key \in {"PK", "KEK"} THEN {"PK"} ELSE {"PK", "KEK"}

LEMMA VerifiedBySigner ==
  ASSUME NEW auth \in Auth, NEW message, NEW data \in Data, data.esls # << >>,
         verify_signature(auth, message, data) = OPAL_SUCCESS
  PROVE  auth.signers \cap CertsIn(data) # {}
<1> DEFINE Good(i)  == crypto_pkcs7_signed_hash_verify(auth, data.esls[i].sig, message)
           decisive == {i \in DOMAIN data.esls : data.esls[i].sig \in Certs => Good(i)}
<1>1. decisive # {} /\ data.esls[Min(decisive)].sig \in Certs
  BY DEF verify_signature, OPAL_SUCCESS, OPAL_PERMISSION, OPAL_INTERNAL_ERROR
<1>2. decisive \in SUBSET Nat
  BY DEF Data
<1>3. Min(decisive) \in decisive
  BY <1>1, <1>2, MinOfNats
<1>4. data.esls[Min(decisive)].sig \in auth.signers
  BY <1>1, <1>3 DEF crypto_pkcs7_signed_hash_verify
<1>5. data.esls[Min(decisive)].sig \in CertsIn(data)
  BY <1>1, <1>3 DEF CertsIn
<1> QED BY <1>4, <1>5

LEMMA AcceptedBySigner ==
  ASSUME NEW bank \in Seq(SecVar), \A k \in Variables : HasVar(k, bank),
         NEW update \in Update, NEW stamps,
         \A k \in {"PK", "KEK"} : Whole(DataOf(k, bank)),
         DataOf("PK", bank).size > 0,
         process_update(update, bank, stamps, FALSE) = OPAL_SUCCESS
  PROVE  \E k \in Entitled(update.key) :
           update.data.signers \cap CertsIn(DataOf(k, bank)) # {}
<1> DEFINE key    == update.key
           names  == get_key_authority(key)
           tried  == Consulted(key, bank)
           msg    == get_hash_to_verify(key, update.data.data, update.data.time)
           Try(i) == verify_signature(update.data, msg, find_secvar(names[i], bank).data)
<1>1. /\ names[Len(names)] = "PK" /\ Len(names) \in DOMAIN names
      /\ \A i \in DOMAIN names : names[i] \in Entitled(key) /\ names[i] \in Keys
      /\ DOMAIN names \subseteq {1, 2}
  BY DEF get_key_authority, Entitled, Keys
<1>2. \A k \in Keys : DataOf(k, bank) = find_secvar(k, bank).data /\ DataOf(k, bank) \in Data
  BY FoundKey DEF DataOf, Variables, KeyVar
<1>3. Len(names) \in tried
  BY <1>1, <1>2 DEF Consulted, Variables, Keys
<1>4. tried \subseteq {1, 2} /\ tried # {}
  BY <1>1, <1>3 DEF Consulted
<1>5. Max(tried) \in tried
  <2>1. \E m \in tried : \A n \in tried : m >= n
    BY <1>4
  <2> QED BY <2>1 DEF Max
<1>6. check_timestamp(key, update.data.time, stamps) = OPAL_SUCCESS
  BY DEF process_update, check_timestamp, OPAL_SUCCESS, OPAL_PERMISSION
<1>7. ~(validate_esl_list(key, update.data.data) < 0)
  BY <1>6 DEF process_update, OPAL_SUCCESS
<1>8. PICK i \in tried : Try(i) = OPAL_SUCCESS
  BY <1>4, <1>5, <1>6, <1>7 DEF process_update
<1>9. names[i] \in {"PK", "KEK"} /\ names[i] \in Keys /\ names[i] \in Entitled(key)
  BY <1>1, <1>8 DEF Consulted, Entitled
<1>10. DataOf(names[i], bank).size > 0
  BY <1>2, <1>8, <1>9 DEF Consulted
<1>11. DataOf(names[i], bank).esls # << >>
  BY <1>9, <1>10 DEF Whole
<1>12. update.data \in Auth
  BY DEF Update
<1>13. update.data.signers \cap CertsIn(DataOf(names[i], bank)) # {}
  BY <1>2, <1>8, <1>9, <1>11, <1>12, VerifiedBySigner
<1> QED BY <1>9, <1>13

-----------------------------------------------------------------------------
(* How the steps change the bank seen as a function.                        *)

LEMMA AppendKeepsStore ==
  ASSUME NEW bank \in Seq(SecVar), NEW j \in 1..Len(Order), ~HasVar(Order[j], bank)
  PROVE  LET new == Append(bank, DefaultVar(Order[j]))
         IN  \A k \in Keys : DataOf(k, new) = DataOf(k, bank) /\ TimeOf(k, new) = TimeOf(k, bank)
<1> DEFINE v   == DefaultVar(Order[j])
           new == Append(bank, v)
           n   == Len(bank) + 1
<1>1. v \in SecVar /\ v.key = Order[j] /\ Order[j] \in Variables
      /\ (Order[j] \in Keys => v.data = NoData)
      /\ (Order[j] = "TS" => v.stamps = [i \in 1..4 |-> 0])
  <2>1. NoData \in Data
    BY DEF NoData, Data
  <2>2. [i \in 1..4 |-> 0] \in [1..4 -> Nat]
    OBVIOUS
  <2> QED BY <2>1, <2>2
          DEF Order, DefaultVar, new_secvar, SecVar, KeyVar, TSVar, Keys, Variables, Flags
<1>2. /\ n \in Nat /\ DOMAIN bank = 1..Len(bank) /\ DOMAIN new = 1..n
      /\ new[n] = v /\ \A i \in DOMAIN bank : new[i] = bank[i]
  BY <1>1
<1>3. ASSUME NEW k \in Variables, k # Order[j]
      PROVE  /\ HasVar(k, new) <=> HasVar(k, bank)
             /\ HasVar(k, bank) => find_secvar(k, new) = find_secvar(k, bank)
  <2>1. {i \in DOMAIN new : new[i].key = k} = {i \in DOMAIN bank : bank[i].key = k}
    BY <1>1, <1>2, <1>3
  <2>2. FirstAt(k, new) = FirstAt(k, bank)
    BY <2>1 DEF FirstAt
  <2>3. HasVar(k, new) <=> HasVar(k, bank)
    BY <2>1 DEF HasVar
  <2>4. HasVar(k, bank) => FirstAt(k, bank) \in DOMAIN bank
    BY Found
  <2> QED BY <1>2, <2>2, <2>3, <2>4 DEF find_secvar
<1>4. HasVar(Order[j], new) /\ find_secvar(Order[j], new) = v
  <2>1. {i \in DOMAIN new : new[i].key = Order[j]} = {n}
    BY <1>1, <1>2 DEF HasVar
  <2>2. FirstAt(Order[j], new) = n
    BY <1>2, <2>1, MinOfNats DEF FirstAt
  <2> QED BY <1>1, <1>2, <2>2 DEF find_secvar, HasVar
<1>5. ASSUME NEW k \in Keys
      PROVE  DataOf(k, new) = DataOf(k, bank)
  <2>1. CASE k = Order[j]
    BY <1>1, <1>4, <2>1 DEF DataOf
  <2>2. CASE k # Order[j]
    BY <1>3, <2>2 DEF DataOf, Variables
  <2> QED BY <2>1, <2>2
<1>6. ASSUME NEW k \in Keys
      PROVE  TimeOf(k, new) = TimeOf(k, bank)
  <2>1. CASE Order[j] = "TS"
    BY <1>1, <1>4, <2>1, TimestampPlace DEF TimeOf
  <2>2. CASE Order[j] # "TS"
    BY <1>3, <2>2 DEF TimeOf, Variables
  <2> QED BY <2>1, <2>2
<1> QED BY <1>5, <1>6

LEMMA UpdateKeepsOthers ==
  ASSUME NEW bank \in Seq(SecVar), NEW update \in Update,
         \A k \in Variables : HasVar(k, bank),
         NEW key \in Keys, key # update.key
  PROVE  DataOf(key, update_timestamp(update.key, update.data.time,
                       update_variable_in_bank(update, bank)))
           = DataOf(key, bank)
<1> DEFINE mid == update_variable_in_bank(update, bank)
           new == update_timestamp(update.key, update.data.time, mid)
<1>1. update.key \in Keys /\ update.data.time \in Nat /\ "TS" \notin Keys
  BY DEF Update, Auth, Keys
<1>2. HasVar(update.key, bank) /\ HasVar("TS", bank) /\ HasVar(key, bank)
  BY <1>1 DEF Variables
<1>3. mid \in Seq(SecVar) /\ SameKeys(mid, bank)
  BY <1>2, UpdatedVariable
<1>4. HasVar("TS", mid) /\ HasVar(key, mid)
  BY <1>2, <1>3, SearchedAlike
<1>5. SameKeys(new, mid)
  BY <1>1, <1>3, <1>4, UpdatedTimestamp
<1>6. FirstAt(key, bank) # FirstAt(update.key, bank) /\ FirstAt(key, mid) # FirstAt("TS", mid)
  BY <1>1, <1>2, <1>3, <1>4, Found
<1>7. FirstAt(key, new) = FirstAt(key, bank) /\ FirstAt(key, mid) = FirstAt(key, bank)
      /\ HasVar(key, new) /\ FirstAt(key, bank) \in DOMAIN bank
  BY <1>2, <1>3, <1>4, <1>5, SearchedAlike, Found
<1>8. mid[FirstAt(key, bank)] = bank[FirstAt(key, bank)]
  BY <1>6, <1>7 DEF update_variable_in_bank
<1>9. new[FirstAt(key, bank)] = mid[FirstAt(key, bank)]
  BY <1>6, <1>7 DEF update_timestamp
<1> QED BY <1>2, <1>7, <1>8, <1>9 DEF DataOf, find_secvar

-----------------------------------------------------------------------------
(* The inductive invariant behind the two theorems: StagedChangesAreSigned  *)
(* is kept by a step of the loop because, as long as nothing it speaks of   *)
(* has changed, the authorities in the working copy are those of the bank;  *)
(* that argument needs setup_mode to be off when a PK is enrolled, and      *)
(* every authority that is not empty to hold an ESL.                        *)

ModeIsNoPk ==
  /\ pc = "pre_process" /\ next > 1 => setup_mode = (DataOf("PK", variable_bank).size = 0)
  /\ pc \in {"process", "loop"} => setup_mode = (DataOf("PK", variable_bank).size = 0)

AuthoritiesWhole ==
  pc # "done" /\ DataOf("PK", variable_bank).size > 0 =>
    \A k \in {"PK", "KEK"} : Whole(DataOf(k, variable_bank))

Inv == TypeOK /\ ModeIsNoPk /\ AuthoritiesWhole /\ StagedChangesAreSigned

LEMMA BankUnchanged ==
  ASSUME variable_bank' = variable_bank
  PROVE  /\ \A k : DataOf(k, variable_bank)' = DataOf(k, variable_bank)
         /\ \A ks : HoldersOf(ks, variable_bank)' = HoldersOf(ks, variable_bank)
BY DEF DataOf, HoldersOf, HasVar, find_secvar, FirstAt, CertsIn

LEMMA PreProcessKeepsStore ==
  ASSUME TypeOK, PreProcessVar
  PROVE  \A k \in Keys : /\ DataOf(k, variable_bank)' = DataOf(k, variable_bank)
                         /\ TimeOf(k, variable_bank)' = TimeOf(k, variable_bank)
<1>1. next \in 1..Len(Order)
  BY DEF PreProcessVar, TypeOK, Order
<1>2. CASE HasVar(Order[next], variable_bank)
  <2>1. variable_bank' = variable_bank
    BY <1>2 DEF PreProcessVar
  <2> QED BY <2>1 DEF DataOf, TimeOf, HasVar, find_secvar, FirstAt
<1>3. CASE ~HasVar(Order[next], variable_bank)
  <2>1. variable_bank' = Append(variable_bank, DefaultVar(Order[next]))
    BY <1>3 DEF PreProcessVar
  <2>2. \A k \in Keys : /\ DataOf(k, variable_bank') = DataOf(k, variable_bank)
                        /\ TimeOf(k, variable_bank') = TimeOf(k, variable_bank)
    BY <1>1, <1>3, <2>1, AppendKeepsStore DEF TypeOK
  <2> QED BY <2>2 DEF DataOf, TimeOf, HasVar, find_secvar, FirstAt
<1> QED BY <1>2, <1>3

(* What an accepted update brings to StagedChangesAreSigned.                *)
LEMMA ApplyKeepsAttribution ==
  ASSUME Inv, ApplyUpdate
  PROVE  StagedChangesAreSigned'
<1> DEFINE u    == update_bank[next]
           bank == variable_bank
<1> SUFFICES ASSUME DataOf("PK", bank).size > 0
             PROVE  /\ staging_bank' # bank => AppliedFrom(HoldersOf({"PK", "KEK"}, bank))'
                    /\ (\E k \in {"PK", "KEK"} : DataOf(k, staging_bank') # DataOf(k, bank))
                          => AppliedFrom(HoldersOf({"PK"}, bank))'
  <2>1. bank' = bank
    BY DEF ApplyUpdate
  <2>2. \A k : DataOf(k, staging_bank)' = DataOf(k, staging_bank')
    BY DEF DataOf, HasVar, find_secvar, FirstAt
  <2> QED BY <2>1, <2>2, BankUnchanged DEF StagedChangesAreSigned
<1>1. /\ next \in DOMAIN update_bank /\ u \in Update
      /\ next' = next + 1 /\ next \in Nat /\ bank' = bank /\ update_bank' = update_bank
  BY QueuedUpdate, QueuesAssumption DEF ApplyUpdate, Inv, TypeOK
<1>2. \A ks : AppliedFrom(HoldersOf(ks, bank))' <=>
        \/ AppliedFrom(HoldersOf(ks, bank))
        \/ u.data.signers \cap HoldersOf(ks, bank) # {}
  <2>1. \A ks : HoldersOf(ks, bank)' = HoldersOf(ks, bank)
    BY <1>1, BankUnchanged
  <2>2. \A i \in DOMAIN update_bank : i \in Nat /\ (i < next + 1 <=> i < next \/ i = next)
    BY <1>1, QueuesAssumption DEF Inv, TypeOK
  <2> QED BY <1>1, <2>1, <2>2 DEF AppliedFrom
<1>3. /\ staging_bank \in Seq(SecVar) /\ \A k \in Variables : HasVar(k, staging_bank)
      /\ setup_mode = FALSE
      /\ \A k \in {"PK", "KEK"} : Whole(DataOf(k, bank))
  <2>1. staging_bank \in Seq(SecVar) /\ \A k \in Variables : HasVar(k, staging_bank)
    BY DEF ApplyUpdate, Inv, TypeOK
  <2>2. pc = "loop" /\ setup_mode = (DataOf("PK", bank).size = 0)
    BY DEF ApplyUpdate, Inv, ModeIsNoPk
  <2>3. HasVar("PK", bank) /\ DataOf("PK", bank).size # 0
    <3>1. HasVar("PK", bank) /\ bank \in Seq(SecVar)
      BY <2>2 DEF Inv, TypeOK, Variables, Keys
    <3>2. DataOf("PK", bank) \in Data
      BY <3>1, FoundKey DEF DataOf, KeyVar, Keys
    <3> QED BY <3>1, <3>2 DEF Data
  <2>4. setup_mode = FALSE
    BY <2>2, <2>3, Zenon
  <2>5. \A k \in {"PK", "KEK"} : Whole(DataOf(k, bank))
    BY <2>2 DEF Inv, AuthoritiesWhole
  <2> QED BY <2>1, <2>4, <2>5
<1>4. process_update(u, staging_bank, find_secvar("TS", staging_bank).stamps, FALSE)
        = OPAL_SUCCESS
  BY <1>3 DEF ApplyUpdate, Outcome
<1>5. /\ staging_bank # bank => AppliedFrom(HoldersOf({"PK", "KEK"}, bank))
      /\ (\E k \in {"PK", "KEK"} : DataOf(k, staging_bank) # DataOf(k, bank))
           => AppliedFrom(HoldersOf({"PK"}, bank))
  BY DEF ApplyUpdate, Inv, StagedChangesAreSigned
<1>6. ASSUME \A k \in {"PK", "KEK"} : DataOf(k, staging_bank) = DataOf(k, bank)
      PROVE  \E k \in Entitled(u.key) : u.data.signers \cap CertsIn(DataOf(k, bank)) # {}
  <2>1. \E k \in Entitled(u.key) : u.data.signers \cap CertsIn(DataOf(k, staging_bank)) # {}
    BY <1>1, <1>3, <1>4, <1>6, AcceptedBySigner
  <2> QED BY <1>6, <2>1 DEF Entitled
<1>7. staging_bank' # bank => AppliedFrom(HoldersOf({"PK", "KEK"}, bank))'
  <2>1. CASE staging_bank # bank
    BY <1>2, <1>5, <2>1
  <2>2. CASE staging_bank = bank
    <3>1. \E k \in {"PK", "KEK"} : u.data.signers \cap CertsIn(DataOf(k, bank)) # {}
      BY <1>6, <2>2 DEF Entitled
    <3>2. u.data.signers \cap HoldersOf({"PK", "KEK"}, bank) # {}
      BY <3>1 DEF HoldersOf
    <3> QED BY <1>2, <3>2
  <2> QED BY <2>1, <2>2
<1>8. (\E k \in {"PK", "KEK"} : DataOf(k, staging_bank') # DataOf(k, bank))
        => AppliedFrom(HoldersOf({"PK"}, bank))'
  <2>1. CASE \E k \in {"PK", "KEK"} : DataOf(k, staging_bank) # DataOf(k, bank)
    BY <1>2, <1>5, <2>1
  <2>2. CASE /\ \A k \in {"PK", "KEK"} : DataOf(k, staging_bank) = DataOf(k, bank)
             /\ u.key \in {"PK", "KEK"}
    <3>1. u.data.signers \cap CertsIn(DataOf("PK", bank)) # {}
      BY <1>6, <2>2 DEF Entitled
    <3>2. u.data.signers \cap HoldersOf({"PK"}, bank) # {}
      BY <3>1 DEF HoldersOf
    <3> QED BY <1>2, <3>2
  <2>3. CASE /\ \A k \in {"PK", "KEK"} : DataOf(k, staging_bank) = DataOf(k, bank)
             /\ u.key \notin {"PK", "KEK"}
    <3>1. \A k \in {"PK", "KEK"} : DataOf(k, staging_bank') = DataOf(k, staging_bank)
      BY <1>1, <1>3, <2>3, UpdateKeepsOthers DEF ApplyUpdate, Keys
    <3> QED BY <2>3, <3>1
  <2> QED BY <2>1, <2>2, <2>3
<1> QED BY <1>7, <1>8

LEMMA InvInit == Init => ModeIsNoPk /\ AuthoritiesWhole /\ StagedChangesAreSigned
<1> SUFFICES ASSUME Init PROVE ModeIsNoPk /\ AuthoritiesWhole /\ StagedChangesAreSigned
  OBVIOUS
<1>1. ASSUME HasVar("PK", variable_bank), NEW k \in {"PK", "KEK"}
      PROVE  Whole(DataOf(k, variable_bank))
  <2>1. CASE HasVar(k, variable_bank)
    <3>1. /\ FirstAt(k, variable_bank) \in DOMAIN variable_bank
          /\ find_secvar(k, variable_bank) = variable_bank[FirstAt(k, variable_bank)]
          /\ find_secvar(k, variable_bank).key \in Keys
      BY <2>1, BanksAssumption, Found DEF Init, Keys
    <3> QED BY <1>1, <2>1, <3>1, BanksAssumption DEF Init, DataOf, LoadedWhole
  <2>2. CASE ~HasVar(k, variable_bank)
    BY <2>2 DEF DataOf, NoData, Whole
  <2> QED BY <2>1, <2>2
<1>2. AuthoritiesWhole
  BY <1>1 DEF AuthoritiesWhole, DataOf, NoData
<1>3. ModeIsNoPk /\ StagedChangesAreSigned
  BY DEF Init, ModeIsNoPk, StagedChangesAreSigned
<1> QED BY <1>2, <1>3

LEMMA InvStep == Inv /\ TypeOK' /\ [Next]_vars => Inv'
<1> SUFFICES ASSUME Inv, TypeOK', [Next]_vars
             PROVE  ModeIsNoPk' /\ AuthoritiesWhole' /\ StagedChangesAreSigned'
  BY DEF Inv
<1>1. CASE PreProcessVar
  <2>1. \A k \in Keys : DataOf(k, variable_bank)' = DataOf(k, variable_bank)
    BY <1>1, PreProcessKeepsStore DEF Inv
  <2>2. pc = "pre_process" /\ pc' \in {"pre_process", "process"} /\ next \in Nat \ {0}
    BY <1>1 DEF PreProcessVar, Inv, TypeOK
  <2>3. setup_mode' = (DataOf("PK", variable_bank)'.size = 0)
    <3>1. CASE next = 1
      <4>1. HasVar("PK", variable_bank)'
        <5>1. next = 1 /\ Order[1] = "PK" /\ 1 \in 1..Len(Order)
          BY <3>1 DEF Order
        <5>2. CASE HasVar("PK", variable_bank)
          BY <1>1, <5>1, <5>2 DEF PreProcessVar, HasVar
        <5>3. CASE ~HasVar("PK", variable_bank)
          <6>1. variable_bank' = Append(variable_bank, DefaultVar(Order[1]))
            BY <1>1, <5>1, <5>3 DEF PreProcessVar
          <6>2. HasVar("PK", variable_bank')
            BY <5>1, <6>1, Appended DEF Inv, TypeOK
          <6> QED BY <6>2 DEF HasVar
        <5> QED BY <5>2, <5>3
      <4>2. DataOf("PK", variable_bank)' = find_secvar("PK", variable_bank')
            .data
        BY <4>1 DEF DataOf, find_secvar, FirstAt
      <4>3. setup_mode' = PkEmpty(variable_bank')
        BY <1>1, <3>1 DEF PreProcessVar
      <4> QED BY <4>2, <4>3, Zenon DEF PkEmpty
    <3>2. CASE next # 1
      <4>1. next > 1 /\ setup_mode' = setup_mode
        BY <1>1, <2>2, <3>2 DEF PreProcessVar
      <4>2. setup_mode = (DataOf("PK", variable_bank).size = 0)
        BY <2>2, <4>1 DEF Inv, ModeIsNoPk
      <4> QED BY <2>1, <4>1, <4>2, Zenon DEF Keys
    <3> QED BY <3>1, <3>2
  <2>4. ModeIsNoPk'
    BY <2>3, Zenon DEF ModeIsNoPk
  <2>5. AuthoritiesWhole'
    BY <2>1, <2>2 DEF Inv, AuthoritiesWhole, Keys
  <2> QED BY <2>2, <2>4, <2>5 DEF StagedChangesAreSigned
<1>2. CASE PreProcessNoMem
  BY <1>2 DEF PreProcessNoMem, ModeIsNoPk, AuthoritiesWhole, StagedChangesAreSigned
<1>3. CASE NothingToProcess
  BY <1>3 DEF NothingToProcess, ModeIsNoPk, AuthoritiesWhole, StagedChangesAreSigned
<1>4. CASE Stage
  <2>1. staging_bank' = variable_bank /\ variable_bank' = variable_bank
        /\ setup_mode' = setup_mode /\ pc = "process" /\ pc' \in {"loop", "done"}
    BY <1>4 DEF Stage, copy_bank_list
  <2>2. \A k : DataOf(k, variable_bank)' = DataOf(k, variable_bank)
    BY <2>1, BankUnchanged
  <2>3. StagedChangesAreSigned'
    <3>1. \A k : DataOf(k, staging_bank)' = DataOf(k, variable_bank)'
      BY <2>1 DEF DataOf, HasVar, find_secvar, FirstAt
    <3> QED BY <2>1, <3>1 DEF StagedChangesAreSigned
  <2>4. ModeIsNoPk'
    <3>1. setup_mode = (DataOf("PK", variable_bank).size = 0)
      BY <2>1 DEF Inv, ModeIsNoPk
    <3> QED BY <2>1, <2>2, <3>1, Zenon DEF ModeIsNoPk
  <2>5. AuthoritiesWhole'
    BY <2>1, <2>2 DEF Inv, AuthoritiesWhole
  <2> QED BY <2>3, <2>4, <2>5
<1>5. CASE ApplyUpdate
  <2>1. variable_bank' = variable_bank /\ setup_mode' = setup_mode /\ pc' = pc /\ pc = "loop"
    BY <1>5 DEF ApplyUpdate
  <2>2. \A k : DataOf(k, variable_bank)' = DataOf(k, variable_bank)
    BY <2>1, BankUnchanged
  <2>3. ModeIsNoPk'
    <3>1. setup_mode = (DataOf("PK", variable_bank).size = 0)
      BY <2>1 DEF Inv, ModeIsNoPk
    <3> QED BY <2>1, <2>2, <3>1, Zenon DEF ModeIsNoPk
  <2>4. AuthoritiesWhole'
    BY <2>1, <2>2 DEF Inv, AuthoritiesWhole
  <2> QED BY <1>5, <2>3, <2>4, ApplyKeepsAttribution
<1>6. CASE RejectUpdate \/ UpdateNoMem \/ EndOfQueue
  <2>1. /\ variable_bank' = variable_bank /\ update_bank' = update_bank
        /\ staging_bank' = staging_bank /\ next' = next /\ pc = "loop" /\ pc' = "finish"
    BY <1>6 DEF RejectUpdate, UpdateNoMem, EndOfQueue
  <2>2. /\ \A k : DataOf(k, variable_bank)' = DataOf(k, variable_bank)
        /\ \A ks : HoldersOf(ks, variable_bank)' = HoldersOf(ks, variable_bank)
        /\ \A k : DataOf(k, staging_bank)' = DataOf(k, staging_bank)
    BY <2>1, BankUnchanged DEF DataOf, HasVar, find_secvar, FirstAt
  <2>3. \A ks : AppliedFrom(HoldersOf(ks, variable_bank))' <=> AppliedFrom(HoldersOf(ks, variable_bank))
    BY <2>1, <2>2 DEF AppliedFrom
  <2>4. StagedChangesAreSigned'
    BY <2>1, <2>2, <2>3 DEF Inv, StagedChangesAreSigned
  <2> QED BY <2>1, <2>2, <2>4 DEF Inv, ModeIsNoPk, AuthoritiesWhole
<1>7. CASE Finish
  BY <1>7 DEF Finish, ModeIsNoPk, AuthoritiesWhole, StagedChangesAreSigned
<1>8. CASE UNCHANGED vars
  <2>1. /\ variable_bank' = variable_bank /\ update_bank' = update_bank
        /\ staging_bank' = staging_bank /\ next' = next /\ pc' = pc
        /\ setup_mode' = setup_mode
    BY <1>8 DEF vars
  <2>2. /\ \A k : DataOf(k, variable_bank)' = DataOf(k, variable_bank)
        /\ \A ks : HoldersOf(ks, variable_bank)' = HoldersOf(ks, variable_bank)
        /\ \A k : DataOf(k, staging_bank)' = DataOf(k, staging_bank)
    BY <2>1, BankUnchanged DEF DataOf, HasVar, find_secvar, FirstAt
  <2>3. \A ks : AppliedFrom(HoldersOf(ks, variable_bank))' <=> AppliedFrom(HoldersOf(ks, variable_bank))
    BY <2>1, <2>2 DEF AppliedFrom
  <2>4. StagedChangesAreSigned' /\ AuthoritiesWhole'
    BY <2>1, <2>2, <2>3 DEF Inv, StagedChangesAreSigned, AuthoritiesWhole
  <2>5. ModeIsNoPk'
    BY <2>1, <2>2, Zenon DEF Inv, ModeIsNoPk
  <2> QED BY <2>4, <2>5
<1> QED BY <1>1, <1>2, <1>3, <1>4, <1>5, <1>6, <1>7, <1>8 DEF Next

THEOREM InvHolds == Spec => []Inv
BY InvInit, InvStep, TypeInvariant, PTL DEF Spec, Inv

(* While the queue is applied, the working copy owes every difference from  *)
(* the bank to an update signed by a holder of the bank's own keys.         *)
THEOREM StagingTheorem == Spec => []StagedChangesAreSigned
BY InvHolds, PTL DEF Inv

-----------------------------------------------------------------------------
(* The two action properties: only the last step of process changes what    *)
(* the bank says, and only to what the loop has left in the working copy.   *)

LEMMA OnlyFinishChangesTheStore ==
  ASSUME Inv, [Next]_vars,
         DataOf("PK", variable_bank).size > 0,
         StoreOf(variable_bank)' # StoreOf(variable_bank)
  PROVE  /\ pc = "finish" /\ variable_bank' = staging_bank
         /\ staging_bank # variable_bank
<1>1. variable_bank' # variable_bank
  BY DEF StoreOf, DataOf, TimeOf, HasVar, find_secvar, FirstAt
<1>2. ~PreProcessVar
  <2> SUFFICES ASSUME PreProcessVar PROVE FALSE
    OBVIOUS
  <2>1. \A k \in Keys : /\ DataOf(k, variable_bank)' = DataOf(k, variable_bank)
                        /\ TimeOf(k, variable_bank)' = TimeOf(k, variable_bank)
    BY PreProcessKeepsStore DEF Inv
  <2> QED BY <2>1 DEF StoreOf
<1>3. Finish
  BY <1>1, <1>2 DEF Next, vars, PreProcessNoMem, NothingToProcess, Stage, ApplyUpdate,
     RejectUpdate, UpdateNoMem, EndOfQueue
<1>4. pc = "finish" /\ variable_bank' \in {variable_bank, staging_bank}
  BY <1>3 DEF Finish, copy_bank_list, clear_bank_list, Inv, TypeOK
<1> QED BY <1>1, <1>4

LEMMA AppliedIsQueued ==
  ASSUME NEW certs, AppliedFrom(certs)
  PROVE  QueueSignedBy(certs)
BY DEF AppliedFrom, QueueSignedBy

(* With a PK enrolled, nothing moves without a holder of PK or KEK.         *)
THEOREM OutsidersTheorem == Spec => OutsidersChangeNothing
<1> DEFINE Claim == /\ DataOf("PK", variable_bank).size > 0
                    /\ StoreOf(variable_bank)' # StoreOf(variable_bank)
                    => QueueSignedBy(HoldersOf({"PK", "KEK"}, variable_bank))
<1>1. Inv /\ [Next]_vars => Claim
  <2> SUFFICES ASSUME Inv, [Next]_vars, DataOf("PK", variable_bank).size > 0,
                      StoreOf(variable_bank)' # StoreOf(variable_bank)
               PROVE  QueueSignedBy(HoldersOf({"PK", "KEK"}, variable_bank))
    OBVIOUS
  <2>1. pc = "finish" /\ staging_bank # variable_bank
    BY OnlyFinishChangesTheStore
  <2>2. AppliedFrom(HoldersOf({"PK", "KEK"}, variable_bank))
    BY <2>1 DEF Inv, StagedChangesAreSigned
  <2> QED BY <2>2, AppliedIsQueued
<1> QED BY <1>1, InvHolds, PTL DEF Spec, OutsidersChangeNothing

(* With a PK enrolled, PK and KEK move only with a holder of that PK.       *)
THEOREM PkHoldersTheorem == Spec => PkHoldersMovePkAndKek
<1> DEFINE Moved(k) == DataOf(k, variable_bank)' # DataOf(k, variable_bank)
           Claim == /\ DataOf("PK", variable_bank).size > 0
                    /\ \E k \in {"PK", "KEK"} : Moved(k)
                    => QueueSignedBy(HoldersOf({"PK"}, variable_bank))
<1>1. Inv /\ [Next]_vars => Claim
  <2> SUFFICES ASSUME Inv, [Next]_vars, DataOf("PK", variable_bank).size > 0,
                      NEW k \in {"PK", "KEK"}, Moved(k)
               PROVE  QueueSignedBy(HoldersOf({"PK"}, variable_bank))
    OBVIOUS
  <2>1. StoreOf(variable_bank)' # StoreOf(variable_bank)
    <3>1. k \in Keys
      BY DEF Keys
    <3>2. /\ StoreOf(variable_bank)[k].data = DataOf(k, variable_bank)
          /\ StoreOf(variable_bank)'[k].data = DataOf(k, variable_bank)'
      BY <3>1 DEF StoreOf
    <3> QED BY <3>2
  <2>2. pc = "finish" /\ variable_bank' = staging_bank
    BY <2>1, OnlyFinishChangesTheStore
  <2>3. DataOf(k, variable_bank)' = DataOf(k, staging_bank)
    BY <2>2 DEF DataOf, HasVar, find_secvar, FirstAt
  <2>4. AppliedFrom(HoldersOf({"PK"}, variable_bank))
    BY <2>2, <2>3 DEF Inv, StagedChangesAreSigned
  <2> QED BY <2>4, AppliedIsQueued
<1> QED BY <1>1, InvHolds, PTL DEF Spec, PkHoldersMovePkAndKek

-----------------------------------------------------------------------------
(* setup_mode and the VOLATILE marks.                                       *)

(* In every state that has a PK, setup_mode says whether it is empty, but   *)
(* for the step in which process is about to install or drop a queue.       *)
THEOREM SetupModeTheorem == Spec => []SetupModeIsNoPk
<1>1. Init => SetupModeIsNoPk
  BY DEF Init, SetupModeIsNoPk
<1>2. SetupModeIsNoPk /\ Inv /\ Inv' /\ [Next]_vars => SetupModeIsNoPk'
  <2> SUFFICES ASSUME SetupModeIsNoPk, Inv, Inv', [Next]_vars, HasVar("PK", variable_bank)',
                      pc' = "done"
               PROVE  setup_mode' = (DataOf("PK", variable_bank).size = 0)'
    BY Zenon DEF SetupModeIsNoPk, Inv, ModeIsNoPk
  <2>1. CASE Finish
    <3>1. DataOf("PK", variable_bank)' = find_secvar("PK", variable_bank').data
      BY DEF DataOf, find_secvar, FirstAt
    <3>2. HasVar("PK", variable_bank')
      BY DEF HasVar
    <3>3. setup_mode' = PkEmpty(variable_bank')
      BY <2>1, <3>2 DEF Finish
    <3> QED BY <3>1, <3>3, Zenon DEF PkEmpty
  <2>2. CASE ~Finish
    <3>1. variable_bank' = variable_bank /\ setup_mode' = setup_mode
      BY <2>2 DEF Next, vars, PreProcessVar, PreProcessNoMem, NothingToProcess, Stage,
         ApplyUpdate, RejectUpdate, UpdateNoMem, EndOfQueue
    <3>2. DataOf("PK", variable_bank)' = DataOf("PK", variable_bank)
      BY <3>1, BankUnchanged
    <3>3. HasVar("PK", variable_bank)
      BY <3>1 DEF HasVar
    <3>4. setup_mode = (DataOf("PK", variable_bank).size = 0)
      <4>1. CASE pc = "pre_process"
        <5>1. PreProcessNoMem
          BY <2>2, <4>1 DEF Next, vars, PreProcessVar, NothingToProcess, Stage,
             ApplyUpdate, RejectUpdate, UpdateNoMem, EndOfQueue
        <5>2. next # 1 /\ next \in Nat \ {0}
          BY <3>3, <5>1 DEF PreProcessNoMem, Order, Inv, TypeOK
        <5> QED BY <4>1, <5>2 DEF Inv, ModeIsNoPk
      <4>2. CASE pc \in {"process", "loop", "done"}
        BY <3>3, <4>2, Zenon DEF SetupModeIsNoPk
      <4>3. CASE pc = "finish"
        BY <2>2, <4>3 DEF Next, vars, PreProcessVar, PreProcessNoMem, NothingToProcess,
           Stage, ApplyUpdate, RejectUpdate, UpdateNoMem, EndOfQueue
      <4> QED BY <4>1, <4>2, <4>3 DEF Inv, TypeOK
    <3> QED BY <3>1, <3>2, <3>4, Zenon
  <2> QED BY <2>1, <2>2
<1> QED BY <1>1, <1>2, InvHolds, PTL DEF Spec

(* What the mark means, and that TS never bears it: there is no telling     *)
(* whether TS is empty.                                                     *)
Marks(bank) ==
  \A i \in DOMAIN bank :
    "VOLATILE" \in bank[i].flags => bank[i].key \in Keys /\ bank[i].data.size = 0

LEMMA UpdateKeepsMarks ==
  ASSUME NEW bank \in Seq(SecVar), NEW update \in Update, Marks(bank),
         \A k \in Variables : HasVar(k, bank)
  PROVE  Marks(update_timestamp(update.key, update.data.time,
                                update_variable_in_bank(update, bank)))
<1> DEFINE mid == update_variable_in_bank(update, bank)
           at  == FirstAt(update.key, bank)
           ts  == FirstAt("TS", mid)
           res == update_timestamp(update.key, update.data.time, mid)
<1>1. /\ update.key \in Keys /\ update.data.time \in Nat /\ update.data.data \in Data
      /\ HasVar(update.key, bank) /\ HasVar("TS", bank)
  BY DEF Update, Auth, Variables
<1>2. mid \in Seq(SecVar) /\ SameKeys(mid, bank)
  BY <1>1, UpdatedVariable
<1>3. at \in DOMAIN bank
  BY <1>1, Found
<1>4. /\ DOMAIN mid = DOMAIN bank
      /\ \A i \in DOMAIN bank : i # at => mid[i] = bank[i]
  BY DEF update_variable_in_bank
<1>5. /\ mid[at].key = update.key
      /\ "VOLATILE" \in mid[at].flags => mid[at].data.size = 0
  <2>1. update.data.data.size \in Nat
    BY <1>1 DEF Data
  <2> QED BY <1>3, <2>1 DEF update_variable_in_bank, new_secvar
<1>6. Marks(mid)
  BY <1>1, <1>4, <1>5 DEF Marks
<1>7. HasVar("TS", mid)
  BY <1>1, <1>2, SearchedAlike
<1>8. ts \in DOMAIN mid /\ mid[ts] \in TSVar
  BY <1>2, <1>7, Found, FoundTS
<1>9. /\ DOMAIN res = DOMAIN mid
      /\ \A i \in DOMAIN mid : i # ts => res[i] = mid[i]
  BY DEF update_timestamp
<1>10. res[ts].flags = mid[ts].flags
  BY <1>8 DEF update_timestamp, TSVar
<1>11. "VOLATILE" \notin mid[ts].flags
  BY <1>6, <1>8 DEF Marks, TSVar, Keys
<1> HIDE DEF mid, ts, res
<1>12. Marks(res)
  BY <1>6, <1>9, <1>10, <1>11 DEF Marks
<1> QED BY <1>12 DEF mid, res

(* If it is so of the bank the caller has filled (verify marks nothing), no *)
(* variable that has contents is ever marked VOLATILE.                      *)
THEOREM VolatileTheorem ==
  (\A bank \in Banks : Marks(bank)) /\ Spec => []VolatileMeansEmpty
<1> DEFINE Loaded == \A bank \in Banks : Marks(bank)
           Marked == Marks(variable_bank) /\ Marks(staging_bank)
<1>1. Loaded /\ Init => Marked
  BY DEF Init, Marks
<1>2. Marked /\ TypeOK /\ [Next]_vars => Marked'
  <2> SUFFICES ASSUME Marked, TypeOK, [Next]_vars PROVE Marked'
    OBVIOUS
  <2>1. CASE PreProcessVar
    <3>1. next \in 1..Len(Order) /\ variable_bank \in Seq(SecVar)
      BY <2>1 DEF PreProcessVar, TypeOK
    <3>2. "VOLATILE" \in DefaultVar(Order[next]).flags =>
            DefaultVar(Order[next]).key \in Keys /\ DefaultVar(Order[next]).data.size = 0
      BY <3>1 DEF Order, DefaultVar, new_secvar, Keys, NoData
    <3>3. Marks(Append(variable_bank, DefaultVar(Order[next])))
      BY <3>1, <3>2 DEF Marks
    <3>4. variable_bank' \in {variable_bank, Append(variable_bank, DefaultVar(Order[next]))}
          /\ staging_bank' = staging_bank
      BY <2>1 DEF PreProcessVar
    <3> QED BY <3>3, <3>4 DEF Marks
  <2>2. CASE ApplyUpdate
    <3>1. update_bank[next] \in Update /\ pc = "loop"
      BY <2>2, QueuedUpdate DEF ApplyUpdate, TypeOK
    <3>2. staging_bank \in Seq(SecVar) /\ \A k \in Variables : HasVar(k, staging_bank)
      BY <3>1 DEF TypeOK
    <3>3. Marks(staging_bank')
      BY <2>2, <3>1, <3>2, UpdateKeepsMarks DEF ApplyUpdate
    <3>4. variable_bank' = variable_bank
      BY <2>2 DEF ApplyUpdate
    <3> QED BY <3>3, <3>4 DEF Marks
  <2>3. CASE Stage
    BY <2>3 DEF Stage, copy_bank_list, Marks, TypeOK
  <2>4. CASE Finish
    <3>1. variable_bank' \in {variable_bank, staging_bank} /\ staging_bank' = << >>
      BY <2>4 DEF Finish, copy_bank_list, clear_bank_list, TypeOK
    <3> QED BY <3>1 DEF Marks
  <2>5. CASE variable_bank' = variable_bank /\ staging_bank' = staging_bank
    BY <2>5 DEF Marks
  <2> QED BY <2>1, <2>2, <2>3, <2>4, <2>5 DEF Next, vars, PreProcessNoMem,
         NothingToProcess, RejectUpdate, UpdateNoMem, EndOfQueue
<1>3. Marked => VolatileMeansEmpty
  BY DEF Marks, VolatileMeansEmpty
<1> QED BY <1>1, <1>2, <1>3, TypeInvariant, PTL DEF Spec

-----------------------------------------------------------------------------
(* Replays: what a queue has applied is no later than the time its variable *)
(* has in the working copy, and those times only grow.                      *)

LEMMA UpdateMovesTime ==
  ASSUME NEW bank \in Seq(SecVar), NEW update \in Update,
         \A k \in Variables : HasVar(k, bank), NEW k \in Keys
  PROVE  LET new == update_timestamp(update.key, update.data.time,
                                     update_variable_in_bank(update, bank))
         IN  TimeOf(k, new) = IF k = update.key THEN update.data.time ELSE TimeOf(k, bank)
<1> DEFINE mid == update_variable_in_bank(update, bank)
           new == update_timestamp(update.key, update.data.time, mid)
           at  == FirstAt("TS", bank)
<1>1. update.key \in Keys /\ update.data.time \in Nat
  BY DEF Update, Auth
<1>2. HasVar(update.key, bank) /\ HasVar("TS", bank)
  BY <1>1 DEF Variables
<1>3. mid \in Seq(SecVar) /\ SameKeys(mid, bank)
  BY <1>2, UpdatedVariable
<1>4. HasVar("TS", mid) /\ FirstAt("TS", mid) = at
  BY <1>2, <1>3, SearchedAlike
<1>5. SameKeys(new, mid)
  BY <1>1, <1>3, <1>4, UpdatedTimestamp
<1>6. HasVar("TS", new) /\ FirstAt("TS", new) = at
  BY <1>4, <1>5, SearchedAlike
<1>7. at \in DOMAIN bank /\ bank[at].key = "TS" /\ bank[at] \in TSVar
  BY <1>2, Found, FoundTS
<1>8. FirstAt(update.key, bank) # at
  BY <1>1, <1>2, <1>7, Found DEF Keys
<1>9. mid[at] = bank[at] /\ at \in DOMAIN mid
  BY <1>3, <1>7, <1>8 DEF update_variable_in_bank, SameKeys
<1>10. /\ find_secvar("TS", new).stamps
            = [bank[at].stamps EXCEPT ![get_last_timestamp(update.key)] = update.data.time]
       /\ find_secvar("TS", bank).stamps = bank[at].stamps
  BY <1>4, <1>6, <1>7, <1>9 DEF update_timestamp, find_secvar, TSVar
<1>11. /\ get_last_timestamp(k) \in 1..4 /\ get_last_timestamp(update.key) \in 1..4
       /\ get_last_timestamp(k) = get_last_timestamp(update.key) <=> k = update.key
  BY <1>1, TimestampPlace DEF get_last_timestamp, Keys
<1>12. bank[at].stamps \in [1..4 -> Nat]
  BY <1>7 DEF TSVar
<1> QED BY <1>2, <1>6, <1>10, <1>11, <1>12 DEF TimeOf

(* An update that was good enough is later than what it replaces.           *)
LEMMA AcceptedIsLater ==
  ASSUME NEW bank \in Seq(SecVar), HasVar("TS", bank), NEW update \in Update, NEW mode,
         process_update(update, bank, find_secvar("TS", bank).stamps, mode) = OPAL_SUCCESS
  PROVE  update.data.time > TimeOf(update.key, bank)
<1>1. check_timestamp(update.key, update.data.time, find_secvar("TS", bank).stamps)
        = OPAL_SUCCESS
  BY DEF process_update, OPAL_SUCCESS
<1> QED BY <1>1 DEF check_timestamp, TimeOf, OPAL_SUCCESS, OPAL_PERMISSION

AppliedIsOld ==
  pc \in {"loop", "finish"} =>
    \A i \in DOMAIN update_bank : i < next =>
      update_bank[i].data.time <= TimeOf(update_bank[i].key, staging_bank)

ProcessStartsAtFirst == pc = "process" => next = 1

SuccessIsWholeQueue ==
  pc = "finish" /\ rc = OPAL_SUCCESS => next > Len(update_bank)

ReplayInv == AppliedIsOld /\ ProcessStartsAtFirst /\ SuccessIsWholeQueue

LEMMA ApplyKeepsOld ==
  ASSUME TypeOK, AppliedIsOld, ApplyUpdate
  PROVE  AppliedIsOld'
<1> DEFINE u == update_bank[next]
<1>1. /\ next \in DOMAIN update_bank /\ next \in Nat /\ u \in Update /\ pc = "loop"
      /\ next' = next + 1 /\ update_bank' = update_bank /\ update_bank \in Seq(Update)
  BY QueuedUpdate, QueuesAssumption DEF ApplyUpdate, TypeOK
<1>2. staging_bank \in Seq(SecVar) /\ \A k \in Variables : HasVar(k, staging_bank)
  BY <1>1 DEF TypeOK
<1>3. u.key \in Keys /\ u.data.time \in Nat
  BY <1>1 DEF Update, Auth
<1>4. u.data.time > TimeOf(u.key, staging_bank)
  BY <1>1, <1>2, AcceptedIsLater DEF ApplyUpdate, Outcome, Variables
<1>5. \A k \in Keys : TimeOf(k, staging_bank')
                        = IF k = u.key THEN u.data.time ELSE TimeOf(k, staging_bank)
  BY <1>1, <1>2, UpdateMovesTime DEF ApplyUpdate
<1>6. \A k \in Keys : TimeOf(k, staging_bank) \in Nat
  <2>1. find_secvar("TS", staging_bank).stamps \in [1..4 -> Nat]
    BY <1>2, FoundTS DEF TSVar, Variables
  <2> QED BY <2>1, TimestampPlace DEF TimeOf
<1>7. \A k \in Keys : TimeOf(k, staging_bank)' = TimeOf(k, staging_bank')
  BY DEF TimeOf, HasVar, find_secvar, FirstAt
<1> SUFFICES ASSUME NEW i \in DOMAIN update_bank, i < next + 1
             PROVE  update_bank[i].data.time <= TimeOf(update_bank[i].key, staging_bank')
  BY <1>1, <1>7 DEF AppliedIsOld, TimeOf, HasVar, find_secvar, FirstAt
<1>8. update_bank[i].key \in Keys /\ update_bank[i].data.time \in Nat /\ i \in Nat
  <2>1. update_bank[i] \in Update /\ i \in Nat
    BY <1>1
  <2> QED BY <2>1 DEF Update, Auth
<1>9. CASE i = next
  BY <1>3, <1>5, <1>9
<1>10. CASE i < next
  <2>1. update_bank[i].data.time <= TimeOf(update_bank[i].key, staging_bank)
    BY <1>1, <1>10 DEF AppliedIsOld
  <2> QED BY <1>3, <1>4, <1>5, <1>6, <1>8, <2>1
<1> QED BY <1>1, <1>8, <1>9, <1>10

LEMMA ReplayInvInit == Init => ReplayInv
BY DEF Init, ReplayInv, AppliedIsOld, ProcessStartsAtFirst, SuccessIsWholeQueue

LEMMA ReplayInvStep == TypeOK /\ ReplayInv /\ [Next]_vars => ReplayInv'
<1> SUFFICES ASSUME TypeOK, ReplayInv, [Next]_vars PROVE ReplayInv'
  OBVIOUS
<1> USE DEF ReplayInv, ProcessStartsAtFirst, SuccessIsWholeQueue
<1>1. CASE PreProcessVar
  BY <1>1 DEF PreProcessVar, AppliedIsOld
<1>2. CASE PreProcessNoMem \/ NothingToProcess
  BY <1>2 DEF PreProcessNoMem, NothingToProcess, AppliedIsOld
<1>3. CASE Stage
  <2>1. next' = 1 /\ update_bank' = update_bank /\ pc' \in {"loop", "done"}
    BY <1>3 DEF Stage
  <2>2. \A i \in DOMAIN update_bank : ~(i < 1)
    BY QueuesAssumption DEF TypeOK
  <2> QED BY <2>1, <2>2 DEF AppliedIsOld
<1>4. CASE ApplyUpdate
  <2>1. pc' = "loop"
    BY <1>4 DEF ApplyUpdate
  <2> QED BY <1>4, <2>1, ApplyKeepsOld
<1>5. CASE RejectUpdate \/ UpdateNoMem \/ EndOfQueue
  <2>1. /\ update_bank' = update_bank /\ staging_bank' = staging_bank /\ next' = next
        /\ pc = "loop" /\ pc' = "finish"
        /\ rc' = OPAL_SUCCESS => next > Len(update_bank)
    BY <1>5 DEF RejectUpdate, UpdateNoMem, EndOfQueue, OPAL_NO_MEM, OPAL_SUCCESS
  <2>2. AppliedIsOld'
    BY <2>1 DEF AppliedIsOld, TimeOf, HasVar, find_secvar, FirstAt
  <2> QED BY <2>1, <2>2
<1>6. CASE Finish
  BY <1>6 DEF Finish, AppliedIsOld
<1>7. CASE UNCHANGED vars
  BY <1>7 DEF vars, AppliedIsOld, TimeOf, HasVar, find_secvar, FirstAt
<1> QED BY <1>1, <1>2, <1>3, <1>4, <1>5, <1>6, <1>7 DEF Next

LEMMA ReplayInvHolds == Spec => []ReplayInv
BY ReplayInvInit, ReplayInvStep, TypeInvariant, PTL DEF Spec

(* No update of an accepted queue is accepted a second time.                *)
THEOREM ReplayTheorem == Spec => NoReplay
<1> DEFINE Refused(i) ==
             process_update(update_bank[i], variable_bank',
               find_secvar("TS", variable_bank').stamps, setup_mode') # OPAL_SUCCESS
           Claim == pc = "finish" /\ pc' = "done" /\ rc' = OPAL_SUCCESS =>
                      \A i \in DOMAIN update_bank : Refused(i)
<1>1. TypeOK /\ ReplayInv /\ [Next]_vars => Claim
  <2> SUFFICES ASSUME TypeOK, ReplayInv, [Next]_vars, pc = "finish", pc' = "done",
                      rc' = OPAL_SUCCESS, NEW i \in DOMAIN update_bank
               PROVE  Refused(i)
    OBVIOUS
  <2>1. Finish
    BY DEF Next, vars, PreProcessVar, PreProcessNoMem, NothingToProcess, Stage,
       ApplyUpdate, RejectUpdate, UpdateNoMem, EndOfQueue
  <2>2. rc = OPAL_SUCCESS /\ variable_bank' = staging_bank
    BY <2>1 DEF Finish, copy_bank_list, clear_bank_list, TypeOK, OPAL_SUCCESS,
       OPAL_INTERNAL_ERROR
  <2>3. update_bank \in Seq(Update) /\ i < next
    BY <2>2, QueuesAssumption DEF ReplayInv, SuccessIsWholeQueue, TypeOK
  <2>4. update_bank[i].data.time <= TimeOf(update_bank[i].key, staging_bank)
    BY <2>3 DEF ReplayInv, AppliedIsOld
  <2>5. HasVar("TS", staging_bank) /\ staging_bank \in Seq(SecVar)
    BY DEF TypeOK, Variables
  <2>6. update_bank[i] \in Update
    BY <2>3
  <2>7. TimeOf(update_bank[i].key, staging_bank) \in Nat /\ update_bank[i].data.time \in Nat
    <3>1. find_secvar("TS", staging_bank).stamps \in [1..4 -> Nat]
      BY <2>5, FoundTS DEF TSVar
    <3> QED BY <2>5, <2>6, <3>1, TimestampPlace DEF TimeOf, Update, Auth
  <2> QED BY <2>2, <2>4, <2>5, <2>6, <2>7, AcceptedIsLater
<1> QED BY <1>1, TypeInvariant, ReplayInvHolds, PTL DEF Spec, NoReplay

-----------------------------------------------------------------------------
(***************************************************************************)
(* Edk2Compat implements KeyStore: for banks and queues of any length, the *)
(* loop of process, its working copy and its early exits are one step of   *)
(* the abstract store or none.                                             *)
(***************************************************************************)

(* The store that the first n updates of the queue leave.                   *)

After(n, k) == Abstract!After(n, k)

LEMMA AfterNone ==
  ASSUME NEW k \in Keys
  PROVE  After(0, k) = StoreOf(variable_bank)[k]
<1>1. {j \in 1..0 : update_bank[j].key = k} = {}
  OBVIOUS
<1> QED BY <1>1 DEF After, Abstract!After

LEMMA AfterOneMore ==
  ASSUME NEW n \in Nat, NEW k \in Keys
  PROVE  After(n + 1, k) =
           IF update_bank[n + 1].key = k
           THEN [data |-> update_bank[n + 1].data.data, time |-> update_bank[n + 1].data.time]
           ELSE After(n, k)
<1>1. CASE update_bank[n + 1].key = k
  <2> DEFINE S == {j \in 1..(n + 1) : update_bank[j].key = k}
  <2>1. n + 1 \in S /\ S # {} /\ \A j \in S : n + 1 >= j
    BY <1>1
  <2>2. \A m \in S : (\A j \in S : m >= j) => m = n + 1
    BY <2>1
  <2>3. Abstract!Max(S) = n + 1
    BY <2>1, <2>2 DEF Abstract!Max
  <2> QED BY <1>1, <2>1, <2>3 DEF After, Abstract!After
<1>2. CASE update_bank[n + 1].key # k
  <2>1. {j \in 1..(n + 1) : update_bank[j].key = k} = {j \in 1..n : update_bank[j].key = k}
    BY <1>2
  <2> QED BY <1>2, <2>1 DEF After, Abstract!After
<1> QED BY <1>1, <1>2

(* The queue cleared or not, only the bank and the queue count.             *)
LEMMA AfterUnchanged ==
  ASSUME variable_bank' = variable_bank, update_bank' = update_bank, NEW n \in Nat, NEW k \in Keys
  PROVE  After(n, k)' = After(n, k)
BY DEF After, Abstract!After, StoreOf, DataOf, TimeOf, HasVar, find_secvar, FirstAt

(* What an update gives its variable.                                       *)
LEMMA UpdateGivesData ==
  ASSUME NEW bank \in Seq(SecVar), NEW update \in Update,
         \A k \in Variables : HasVar(k, bank)
  PROVE  DataOf(update.key, update_timestamp(update.key, update.data.time,
                              update_variable_in_bank(update, bank)))
           = update.data.data
<1> DEFINE key == update.key
           mid == update_variable_in_bank(update, bank)
           new == update_timestamp(key, update.data.time, mid)
           at  == FirstAt(key, bank)
<1>1. key \in Keys /\ update.data.time \in Nat /\ "TS" \notin Keys
  BY DEF Update, Auth, Keys
<1>2. HasVar(key, bank) /\ HasVar("TS", bank) /\ at \in DOMAIN bank
  BY <1>1, Found DEF Variables
<1>3. mid \in Seq(SecVar) /\ SameKeys(mid, bank)
  BY <1>2, UpdatedVariable
<1>4. HasVar("TS", mid) /\ HasVar(key, mid) /\ FirstAt(key, mid) = at
  BY <1>2, <1>3, SearchedAlike
<1>5. SameKeys(new, mid)
  BY <1>1, <1>3, <1>4, UpdatedTimestamp
<1>6. HasVar(key, new) /\ FirstAt(key, new) = at
  BY <1>4, <1>5, SearchedAlike
<1>7. FirstAt("TS", mid) # at
  BY <1>1, <1>3, <1>4, Found
<1>8. mid[at].data = update.data.data
  BY <1>2 DEF update_variable_in_bank, new_secvar
<1>9. new[at] = mid[at]
  BY <1>7 DEF update_timestamp
<1> QED BY <1>6, <1>8, <1>9 DEF DataOf, find_secvar

-----------------------------------------------------------------------------
(* What process_update has seen to when it accepts an update outside of     *)
(* setup mode.                                                              *)

(* A list check that finds no ESL has found no contents.                    *)
LEMMA CountZero ==
  ASSUME NEW key \in Keys, NEW data \in Data, Whole(data),
         validate_esl_list(key, data) = OPAL_SUCCESS
  PROVE  data.size = 0
<1> SUFFICES ASSUME data.size # 0 PROVE FALSE
  OBVIOUS
<1>1. data.size \in Nat /\ data.size >= ListHeader /\ ~(data.size < ListHeader)
  BY DEF Data, Whole, ListHeader
<1>2. data.esls[1] \in ESL
  BY DEF Data, Whole
<1>3. data.esls[1].size \in Nat /\ data.esls[1].size > 0 /\ data.size - ListHeader \in Nat
  BY <1>1, <1>2 DEF ESL, MinESL, ListHeader
<1>4. (data.size - ListHeader) \div data.esls[1].size \in Nat
  BY <1>3
<1>5. validate_esl_list(key, data)
        \in {OPAL_PARAMETER, (data.size - ListHeader) \div data.esls[1].size + 1}
  BY <1>1 DEF validate_esl_list
<1> QED BY <1>4, <1>5 DEF OPAL_PARAMETER, OPAL_SUCCESS

LEMMA VerifiedIsSigned ==
  ASSUME NEW auth \in Auth, NEW message, NEW data \in Data, data.esls # << >>,
         verify_signature(auth, message, data) = OPAL_SUCCESS
  PROVE  /\ auth.signed = message
         /\ \E c \in auth.signers : Abstract!Holds(data, c)
<1> DEFINE Good(i)  == crypto_pkcs7_signed_hash_verify(auth, data.esls[i].sig, message)
           decisive == {i \in DOMAIN data.esls : data.esls[i].sig \in Certs => Good(i)}
<1>1. decisive # {} /\ data.esls[Min(decisive)].sig \in Certs
  BY DEF verify_signature, OPAL_SUCCESS, OPAL_PERMISSION, OPAL_INTERNAL_ERROR
<1>2. decisive \in SUBSET Nat
  BY DEF Data
<1>3. Min(decisive) \in decisive
  BY <1>1, <1>2, MinOfNats
<1>4. Min(decisive) \in DOMAIN data.esls /\ Good(Min(decisive))
  BY <1>1, <1>3
<1> QED BY <1>4 DEF crypto_pkcs7_signed_hash_verify, Abstract!Holds

LEMMA AcceptedIsEntitled ==
  ASSUME NEW bank \in Seq(SecVar), \A k \in Variables : HasVar(k, bank),
         NEW update \in Update, Whole(update.data.data), NEW stamps,
         \A k \in {"PK", "KEK"} : Whole(DataOf(k, bank)),
         process_update(update, bank, stamps, FALSE) = OPAL_SUCCESS
  PROVE  \/ /\ update.data.signed = get_hash_to_verify(update.key, update.data.data,
                                                       update.data.time)
            /\ \E k \in Entitled(update.key), c \in update.data.signers :
                 Abstract!Holds(DataOf(k, bank), c)
         \/ /\ update.data.data.size = 0
            /\ \A k \in Entitled(update.key) : DataOf(k, bank).size = 0
<1> DEFINE key    == update.key
           names  == get_key_authority(key)
           tried  == Consulted(key, bank)
           msg    == get_hash_to_verify(key, update.data.data, update.data.time)
           Try(i) == verify_signature(update.data, msg, find_secvar(names[i], bank).data)
<1>1. /\ DOMAIN names \subseteq {1, 2}
      /\ \A i \in DOMAIN names : names[i] \in Entitled(key)
      /\ \A k \in Entitled(key) : \E i \in DOMAIN names : names[i] = k
      /\ Entitled(key) \subseteq {"PK", "KEK"} /\ {"PK", "KEK"} \subseteq Keys
  BY DEF get_key_authority, Entitled, Keys
<1>2. \A k \in Keys : /\ HasVar(k, bank)
                      /\ DataOf(k, bank) = find_secvar(k, bank).data
                      /\ DataOf(k, bank) \in Data
  BY FoundKey DEF DataOf, Variables, KeyVar
<1>3. key \in Keys /\ update.data \in Auth /\ update.data.data \in Data
  BY DEF Update, Auth
<1>4. check_timestamp(key, update.data.time, stamps) = OPAL_SUCCESS
  BY DEF process_update, check_timestamp, OPAL_SUCCESS, OPAL_PERMISSION
<1>5. ~(validate_esl_list(key, update.data.data) < 0)
  BY <1>4 DEF process_update, OPAL_SUCCESS
<1>6. CASE tried = {}
  <2>1. validate_esl_list(key, update.data.data) = OPAL_SUCCESS
    BY <1>4, <1>5, <1>6 DEF process_update
  <2>2. update.data.data.size = 0
    BY <1>3, <2>1, CountZero
  <2>3. ASSUME NEW k \in Entitled(key)
        PROVE  DataOf(k, bank).size = 0
    <3>1. PICK i \in DOMAIN names : names[i] = k
      BY <1>1
    <3>2. ~(DataOf(k, bank).size > 0)
      BY <1>1, <1>2, <1>6, <3>1 DEF Consulted
    <3>3. DataOf(k, bank).size \in Nat
      BY <1>1, <1>2 DEF Data
    <3> QED BY <3>2, <3>3
  <2> QED BY <2>2, <2>3
<1>7. CASE tried # {}
  <2>1. tried \subseteq {1, 2}
    BY <1>1 DEF Consulted
  <2>2. \E m \in tried : \A n \in tried : m >= n
    BY <1>7, <2>1
  <2>3. Max(tried) \in tried
    BY <2>2 DEF Max
  <2>4. PICK i \in tried : Try(i) = OPAL_SUCCESS
    BY <1>4, <1>5, <1>7, <2>3 DEF process_update
  <2>5. names[i] \in Entitled(key) /\ names[i] \in {"PK", "KEK"} /\ names[i] \in Keys
    BY <1>1, <2>4 DEF Consulted
  <2>6. DataOf(names[i], bank).size > 0 /\ Whole(DataOf(names[i], bank))
    BY <1>2, <2>4, <2>5 DEF Consulted
  <2>7. DataOf(names[i], bank).esls # << >>
    BY <2>6 DEF Whole
  <2>8. /\ update.data.signed = msg
        /\ \E c \in update.data.signers : Abstract!Holds(DataOf(names[i], bank), c)
    BY <1>2, <1>3, <2>4, <2>5, <2>7, VerifiedIsSigned
  <2> QED BY <2>5, <2>8
<1> QED BY <1>6, <1>7

-----------------------------------------------------------------------------
(* The loop told as the abstract store: the working copy is what the        *)
(* updates passed so far make of the bank, each of them was legal, and with *)
(* a PK enrolled every authority that is not empty holds an ESL.            *)

LegalSoFar == \A i \in Nat \ {0} : i < next => Abstract!Legal(i)

StagedIsAfter ==
  \A n \in Nat, k \in Keys :
    n + 1 = next => After(n, k) = [data |-> DataOf(k, staging_bank),
                                   time |-> TimeOf(k, staging_bank)]

StagedAuthoritiesWhole ==
  DataOf("PK", variable_bank).size > 0 =>
    \A k \in {"PK", "KEK"} : Whole(DataOf(k, staging_bank))

LoopInv ==
  pc \in {"loop", "finish"} =>
    /\ update_bank # << >>
    /\ next <= Len(update_bank) + 1
    /\ LegalSoFar
    /\ StagedIsAfter
    /\ StagedAuthoritiesWhole

LEMMA LegalUnchanged ==
  ASSUME variable_bank' = variable_bank, update_bank' = update_bank, NEW i \in Nat \ {0}
  PROVE  Abstract!Legal(i)' <=> Abstract!Legal(i)
BY DEF Abstract!Legal, Abstract!SetupMode, Abstract!Signed, Abstract!OrphanReset,
       Abstract!After, Abstract!Empty, Abstract!Holds, Abstract!MaySign,
       StoreOf, DataOf, TimeOf, HasVar, find_secvar, FirstAt

LEMMA StagedUnchanged ==
  ASSUME staging_bank' = staging_bank
  PROVE  \A k : /\ DataOf(k, staging_bank)' = DataOf(k, staging_bank)
                /\ TimeOf(k, staging_bank)' = TimeOf(k, staging_bank)
BY DEF DataOf, TimeOf, HasVar, find_secvar, FirstAt

(* The update that the loop applies next is a legal one.                    *)
LEMMA AppliedIsLegal ==
  ASSUME Inv, LoopInv, ApplyUpdate
  PROVE  Abstract!Legal(next)
<1> DEFINE u == update_bank[next]
           n == next - 1
<1>1. /\ pc = "loop" /\ next \in Nat \ {0} /\ n \in Nat /\ n + 1 = next
      /\ u \in Update /\ Whole(u.data.data)
      /\ staging_bank \in Seq(SecVar) /\ \A k \in Variables : HasVar(k, staging_bank)
  BY QueuedUpdate DEF ApplyUpdate, Inv, TypeOK
<1>2. \A k \in Keys : /\ Abstract!After(n, k).data = DataOf(k, staging_bank)
                      /\ Abstract!After(n, k).time = TimeOf(k, staging_bank)
  <2> TAKE k \in Keys
  <2>1. Abstract!After(n, k) = [data |-> DataOf(k, staging_bank),
                                time |-> TimeOf(k, staging_bank)]
    BY <1>1 DEF LoopInv, StagedIsAfter, After
  <2> QED BY <2>1
<1>3. u.key \in Keys /\ Abstract!MaySign(u.key) = Entitled(u.key)
      /\ Entitled(u.key) \subseteq {"PK", "KEK"} /\ {"PK", "KEK"} \subseteq Keys
  BY <1>1 DEF Update, Abstract!MaySign, Entitled, Keys
<1>4. u.data.time > Abstract!After(n, u.key).time
  <2>1. u.data.time > TimeOf(u.key, staging_bank)
    BY <1>1, AcceptedIsLater DEF ApplyUpdate, Outcome, Variables
  <2> QED BY <1>2, <1>3, <2>1
<1>5. Abstract!SetupMode \/ Abstract!Signed(next) \/ Abstract!OrphanReset(next)
  <2> SUFFICES ASSUME ~Abstract!SetupMode
               PROVE  Abstract!Signed(next) \/ Abstract!OrphanReset(next)
    OBVIOUS
  <2>1. DataOf("PK", variable_bank).size # 0
    BY <1>3 DEF Abstract!SetupMode, Abstract!Empty, StoreOf
  <2>2. DataOf("PK", variable_bank).size > 0
    <3>1. HasVar("PK", variable_bank) /\ variable_bank \in Seq(SecVar)
      BY <1>1, <1>3 DEF Inv, TypeOK, Variables
    <3>2. DataOf("PK", variable_bank) \in Data
      BY <1>3, <3>1, FoundKey DEF DataOf, KeyVar
    <3> QED BY <2>1, <3>2 DEF Data
  <2>3. setup_mode = FALSE
    <3>1. setup_mode = (DataOf("PK", variable_bank).size = 0)
      BY <1>1 DEF Inv, ModeIsNoPk
    <3> QED BY <2>1, <3>1, Zenon
  <2>4. process_update(u, staging_bank, find_secvar("TS", staging_bank).stamps, FALSE)
          = OPAL_SUCCESS
    BY <2>3 DEF ApplyUpdate, Outcome
  <2>5. \A k \in {"PK", "KEK"} : Whole(DataOf(k, staging_bank))
    BY <1>1, <2>2 DEF LoopInv, StagedAuthoritiesWhole
  <2>6. CASE /\ u.data.signed = get_hash_to_verify(u.key, u.data.data, u.data.time)
             /\ \E k \in Entitled(u.key), c \in u.data.signers :
                  Abstract!Holds(DataOf(k, staging_bank), c)
    <3>1. PICK k \in Entitled(u.key), c \in u.data.signers :
             Abstract!Holds(DataOf(k, staging_bank), c)
      BY <2>6
    <3>2. Abstract!Holds(Abstract!After(n, k).data, c)
      BY <1>2, <1>3, <3>1
    <3> QED BY <1>3, <2>6, <3>1, <3>2 DEF Abstract!Signed, get_hash_to_verify
  <2>7. CASE /\ u.data.data.size = 0
             /\ \A k \in Entitled(u.key) : DataOf(k, staging_bank).size = 0
    <3>1. \A k \in Entitled(u.key) : Abstract!After(n, k).data.size = 0
      BY <1>2, <1>3, <2>7
    <3> QED BY <1>3, <2>7, <3>1 DEF Abstract!OrphanReset, Abstract!Empty
  <2> QED BY <1>1, <2>4, <2>5, <2>6, <2>7, AcceptedIsEntitled
<1> QED BY <1>4, <1>5 DEF Abstract!Legal

LEMMA StageStartsLoop ==
  ASSUME Inv, ReplayInv, Stage
  PROVE  LoopInv'
<1>1. /\ variable_bank' = variable_bank /\ update_bank' = update_bank
      /\ staging_bank' = variable_bank /\ next' = 1 /\ pc = "process"
      /\ update_bank # << >> /\ {"PK", "KEK"} \subseteq Keys
  BY DEF Stage, copy_bank_list, ReplayInv, ProcessStartsAtFirst, Keys
<1>2. \A k : /\ DataOf(k, staging_bank)' = DataOf(k, variable_bank)
             /\ TimeOf(k, staging_bank)' = TimeOf(k, variable_bank)
  BY <1>1 DEF DataOf, TimeOf, HasVar, find_secvar, FirstAt
<1>3. LegalSoFar'
  BY <1>1 DEF LegalSoFar
<1>4. StagedIsAfter'
  <2>1. ASSUME NEW n \in Nat, NEW k \in Keys, n + 1 = 1
        PROVE  After(n, k)' = [data |-> DataOf(k, staging_bank)',
                               time |-> TimeOf(k, staging_bank)']
    <3>1. n = 0 /\ After(n, k)' = After(n, k)
      BY <1>1, <2>1, AfterUnchanged
    <3>2. After(0, k) = StoreOf(variable_bank)[k]
      BY AfterNone
    <3> QED BY <1>2, <3>1, <3>2 DEF StoreOf
  <2> QED BY <1>1, <2>1 DEF StagedIsAfter
<1>5. StagedAuthoritiesWhole'
  <2>1. DataOf("PK", variable_bank)' = DataOf("PK", variable_bank)
    BY <1>1, BankUnchanged
  <2> QED BY <1>1, <1>2, <2>1 DEF Inv, AuthoritiesWhole, StagedAuthoritiesWhole
<1>6. next' <= Len(update_bank') + 1
  <2>1. update_bank \in Seq(Update)
    BY <1>1, QueuesAssumption DEF Inv, TypeOK
  <2> QED BY <1>1, <2>1
<1> QED BY <1>1, <1>3, <1>4, <1>5, <1>6 DEF LoopInv

LEMMA ApplyKeepsLoop ==
  ASSUME Inv, LoopInv, ApplyUpdate
  PROVE  LoopInv'
<1> DEFINE u == update_bank[next]
<1>1. /\ variable_bank' = variable_bank /\ update_bank' = update_bank /\ next' = next + 1
      /\ pc = "loop" /\ next \in Nat \ {0} /\ next <= Len(update_bank)
      /\ update_bank \in Seq(Update) /\ u \in Update /\ Whole(u.data.data)
      /\ staging_bank \in Seq(SecVar) /\ \A k \in Variables : HasVar(k, staging_bank)
  BY QueuedUpdate, QueuesAssumption DEF ApplyUpdate, Inv, TypeOK
<1>2. /\ LegalSoFar /\ StagedIsAfter /\ StagedAuthoritiesWhole /\ update_bank # << >>
  BY <1>1 DEF LoopInv
<1>3. \A k \in Keys :
        /\ DataOf(k, staging_bank)' = IF k = u.key THEN u.data.data ELSE DataOf(k, staging_bank)
        /\ TimeOf(k, staging_bank)' = IF k = u.key THEN u.data.time ELSE TimeOf(k, staging_bank)
  <2>1. \A k : /\ DataOf(k, staging_bank)' = DataOf(k, staging_bank')
               /\ TimeOf(k, staging_bank)' = TimeOf(k, staging_bank')
    BY DEF DataOf, TimeOf, HasVar, find_secvar, FirstAt
  <2>2. staging_bank' = update_timestamp(u.key, u.data.time,
                                         update_variable_in_bank(u, staging_bank))
    BY DEF ApplyUpdate
  <2>3. \A k \in Keys : k # u.key => DataOf(k, staging_bank') = DataOf(k, staging_bank)
    BY <1>1, <2>2, UpdateKeepsOthers
  <2>4. DataOf(u.key, staging_bank') = u.data.data
    BY <1>1, <2>2, UpdateGivesData
  <2>5. \A k \in Keys : TimeOf(k, staging_bank')
                          = IF k = u.key THEN u.data.time ELSE TimeOf(k, staging_bank)
    BY <1>1, <2>2, UpdateMovesTime
  <2> QED BY <2>1, <2>3, <2>4, <2>5
<1>4. LegalSoFar'
  <2>1. ASSUME NEW i \in Nat \ {0}, i < next + 1
        PROVE  Abstract!Legal(i)'
    <3>1. Abstract!Legal(i)
      <4>1. CASE i < next
        BY <1>2, <4>1 DEF LegalSoFar
      <4>2. CASE i = next
        BY <4>2, AppliedIsLegal
      <4> QED BY <1>1, <2>1, <4>1, <4>2
    <3> QED BY <1>1, <3>1, LegalUnchanged
  <2> QED BY <1>1, <2>1 DEF LegalSoFar
<1>5. StagedIsAfter'
  <2>1. ASSUME NEW n \in Nat, NEW k \in Keys, n + 1 = next + 1
        PROVE  After(n, k)' = [data |-> DataOf(k, staging_bank)',
                               time |-> TimeOf(k, staging_bank)']
    <3>1. After(n, k)' = After(n, k)
      BY <1>1, AfterUnchanged
    <3>2. PICK m \in Nat : m + 1 = n /\ n = next
      BY <1>1, <2>1
    <3>3. After(m, k) = [data |-> DataOf(k, staging_bank), time |-> TimeOf(k, staging_bank)]
      BY <1>2, <3>2 DEF StagedIsAfter
    <3>4. After(n, k) = IF u.key = k THEN [data |-> u.data.data, time |-> u.data.time]
                        ELSE After(m, k)
      BY <3>2, AfterOneMore
    <3> QED BY <1>3, <3>1, <3>3, <3>4
  <2> QED BY <1>1, <2>1 DEF StagedIsAfter
<1>6. StagedAuthoritiesWhole'
  <2>1. DataOf("PK", variable_bank)' = DataOf("PK", variable_bank)
    BY <1>1, BankUnchanged
  <2>2. {"PK", "KEK"} \subseteq Keys
    BY DEF Keys
  <2> QED BY <1>1, <1>2, <1>3, <2>1, <2>2 DEF StagedAuthoritiesWhole
<1> QED BY <1>1, <1>2, <1>4, <1>5, <1>6 DEF LoopInv

LEMMA LoopInvInit == Init => LoopInv
BY DEF Init, LoopInv

LEMMA LoopInvStep == Inv /\ ReplayInv /\ LoopInv /\ [Next]_vars => LoopInv'
<1> SUFFICES ASSUME Inv, ReplayInv, LoopInv, [Next]_vars PROVE LoopInv'
  OBVIOUS
<1>1. CASE PreProcessVar
  BY <1>1 DEF PreProcessVar, LoopInv
<1>2. CASE PreProcessNoMem \/ NothingToProcess \/ Finish
  BY <1>2 DEF PreProcessNoMem, NothingToProcess, Finish, LoopInv
<1>3. CASE Stage
  BY <1>3, StageStartsLoop
<1>4. CASE ApplyUpdate
  BY <1>4, ApplyKeepsLoop
<1>5. CASE RejectUpdate \/ UpdateNoMem \/ EndOfQueue \/ UNCHANGED vars
  <2>1. /\ variable_bank' = variable_bank /\ update_bank' = update_bank
        /\ staging_bank' = staging_bank /\ next' = next
        /\ pc' \in {"loop", "finish"} => pc \in {"loop", "finish"}
    BY <1>5 DEF RejectUpdate, UpdateNoMem, EndOfQueue, vars
  <2>2. /\ \A n \in Nat, k \in Keys : After(n, k)' = After(n, k)
        /\ \A i \in Nat \ {0} : Abstract!Legal(i)' <=> Abstract!Legal(i)
        /\ \A k : DataOf(k, variable_bank)' = DataOf(k, variable_bank)
        /\ \A k : /\ DataOf(k, staging_bank)' = DataOf(k, staging_bank)
                  /\ TimeOf(k, staging_bank)' = TimeOf(k, staging_bank)
    BY <2>1, AfterUnchanged, LegalUnchanged, BankUnchanged, StagedUnchanged
  <2>3. LegalSoFar => LegalSoFar'
    BY <2>1, <2>2 DEF LegalSoFar
  <2>4. StagedIsAfter => StagedIsAfter'
    BY <2>1, <2>2 DEF StagedIsAfter
  <2>5. StagedAuthoritiesWhole => StagedAuthoritiesWhole'
    BY <2>1, <2>2 DEF StagedAuthoritiesWhole
  <2> QED BY <2>1, <2>3, <2>4, <2>5 DEF LoopInv
<1> QED BY <1>1, <1>2, <1>3, <1>4, <1>5 DEF Next

LEMMA LoopInvHolds == Spec => []LoopInv
BY LoopInvInit, LoopInvStep, InvHolds, ReplayInvHolds, PTL DEF Spec

-----------------------------------------------------------------------------
(* Every step of the backend is a step of the store or leaves it alone.     *)

Status == IF pc # "done" THEN "pending"
          ELSE IF rc = OPAL_SUCCESS THEN "accepted" ELSE "rejected"

LEMMA StoreUnchanged ==
  ASSUME variable_bank' = variable_bank
  PROVE  StoreOf(variable_bank)' = StoreOf(variable_bank)
BY DEF StoreOf, DataOf, TimeOf, HasVar, find_secvar, FirstAt

(* The end of a queue that went through is the step Accept.                 *)
LEMMA FinishAccepts ==
  ASSUME Inv, ReplayInv, LoopInv, Finish, rc = OPAL_SUCCESS
  PROVE  Abstract!Accept
<1> DEFINE len == Len(update_bank)
<1>1. /\ pc = "finish" /\ pc' = "done" /\ update_bank' = << >>
      /\ variable_bank' = staging_bank /\ staging_bank \in Seq(SecVar)
      /\ \A k \in Variables : HasVar(k, staging_bank)
  BY DEF Finish, copy_bank_list, clear_bank_list, Inv, TypeOK
<1>2. rc' = OPAL_SUCCESS
  <2>1. HasVar("PK", variable_bank')
    BY <1>1 DEF Variables, Keys
  <2> QED BY <2>1 DEF Finish
<1>3. update_bank # << >> /\ update_bank \in Seq(Update) /\ len \in Nat /\ next = len + 1
  <2>1. update_bank # << >> /\ next <= len + 1 /\ next > len /\ next \in Nat
    BY <1>1 DEF LoopInv, ReplayInv, SuccessIsWholeQueue, Inv, TypeOK
  <2>2. update_bank \in Seq(Update)
    BY <2>1, QueuesAssumption DEF Inv, TypeOK
  <2> QED BY <2>1, <2>2
<1>4. \A i \in DOMAIN update_bank : Abstract!Legal(i)
  <2>1. \A i \in DOMAIN update_bank : i \in Nat \ {0} /\ i < next
    BY <1>3
  <2> QED BY <1>1, <2>1 DEF LoopInv, LegalSoFar
<1>5. StoreOf(variable_bank)' = [k \in DOMAIN StoreOf(variable_bank) |-> Abstract!After(len, k)]
  <2>1. \A k \in Keys : /\ DataOf(k, variable_bank)' = DataOf(k, staging_bank)
                        /\ TimeOf(k, variable_bank)' = TimeOf(k, staging_bank)
    BY <1>1 DEF DataOf, TimeOf, HasVar, find_secvar, FirstAt
  <2>2. \A k \in Keys : Abstract!After(len, k) = [data |-> DataOf(k, staging_bank),
                                                  time |-> TimeOf(k, staging_bank)]
    BY <1>1, <1>3 DEF LoopInv, StagedIsAfter, After
  <2>3. StoreOf(variable_bank)' = [k \in Keys |-> Abstract!After(len, k)]
    BY <2>1, <2>2 DEF StoreOf
  <2>4. DOMAIN StoreOf(variable_bank) = Keys
    BY DEF StoreOf
  <2> QED BY <2>3, <2>4
<1> QED BY <1>1, <1>2, <1>3, <1>4, <1>5 DEF Abstract!Accept

(* An end without success is the step Reject.                               *)
LEMMA EndsRejected ==
  ASSUME pc # "done", pc' = "done", rc' # OPAL_SUCCESS,
         variable_bank' = variable_bank, update_bank' \in {update_bank, << >>}
  PROVE  Abstract!Reject
BY StoreUnchanged DEF Abstract!Reject

LEMMA StepRefines ==
  ASSUME Inv, ReplayInv, LoopInv, [Next]_vars
  PROVE  [Abstract!Next]_<<StoreOf(variable_bank), update_bank, Status>>
<1> DEFINE Stutter == UNCHANGED <<StoreOf(variable_bank), update_bank, Status>>
<1>1. CASE PreProcessVar
  <2>1. StoreOf(variable_bank)' = StoreOf(variable_bank)
    <3>1. \A k \in Keys : /\ DataOf(k, variable_bank)' = DataOf(k, variable_bank)
                          /\ TimeOf(k, variable_bank)' = TimeOf(k, variable_bank)
      BY <1>1, PreProcessKeepsStore DEF Inv
    <3> QED BY <3>1 DEF StoreOf
  <2>2. pc # "done" /\ pc' # "done" /\ update_bank' = update_bank
    BY <1>1 DEF PreProcessVar
  <2> QED BY <2>1, <2>2 DEF Status
<1>2. CASE PreProcessNoMem \/ NothingToProcess
  <2>1. Abstract!Reject
    BY <1>2, EndsRejected DEF PreProcessNoMem, NothingToProcess, OPAL_NO_MEM,
       OPAL_EMPTY, OPAL_SUCCESS
  <2> QED BY <2>1 DEF Abstract!Next
<1>3. CASE Stage
  <2>1. variable_bank' = variable_bank /\ update_bank' = update_bank /\ pc = "process"
    BY <1>3 DEF Stage
  <2>2. HasVar("TS", staging_bank)'
    <3>1. staging_bank' = variable_bank /\ HasVar("TS", variable_bank)
      BY <1>3, <2>1 DEF Stage, copy_bank_list, Inv, TypeOK, Variables
    <3> QED BY <3>1 DEF HasVar
  <2>3. pc' = "loop"
    BY <1>3, <2>2 DEF Stage, HasVar
  <2> QED BY <2>1, <2>3, StoreUnchanged DEF Status
<1>4. CASE ApplyUpdate \/ RejectUpdate \/ UpdateNoMem \/ EndOfQueue
  <2>1. /\ variable_bank' = variable_bank /\ update_bank' = update_bank
        /\ pc # "done" /\ pc' # "done"
    BY <1>4 DEF ApplyUpdate, RejectUpdate, UpdateNoMem, EndOfQueue
  <2> QED BY <2>1, StoreUnchanged DEF Status
<1>5. CASE Finish
  <2>1. CASE rc = OPAL_SUCCESS
    BY <1>5, <2>1, FinishAccepts DEF Abstract!Next
  <2>2. CASE rc # OPAL_SUCCESS
    <3>1. /\ pc = "finish" /\ pc' = "done" /\ variable_bank' = variable_bank
          /\ update_bank' = << >> /\ rc' \in {rc, OPAL_INTERNAL_ERROR}
      BY <1>5, <2>2 DEF Finish, clear_bank_list
    <3>2. rc' # OPAL_SUCCESS
      BY <2>2, <3>1 DEF OPAL_INTERNAL_ERROR, OPAL_SUCCESS
    <3>3. Abstract!Reject
      BY <3>1, <3>2, EndsRejected
    <3> QED BY <3>3 DEF Abstract!Next
  <2> QED BY <2>1, <2>2
<1>6. CASE UNCHANGED vars
  <2>1. variable_bank' = variable_bank /\ update_bank' = update_bank /\ pc' = pc /\ rc' = rc
    BY <1>6 DEF vars
  <2> QED BY <2>1, StoreUnchanged DEF Status
<1> QED BY <1>1, <1>2, <1>3, <1>4, <1>5, <1>6 DEF Next

(* The backend implements the key store: whatever happens inside, its       *)
(* caller sees a queue applied in one step, every update newer than what it *)
(* replaces and signed by a key entitled to it in the store that those      *)
(* before it leave (but for OrphanReset), or sees nothing change.           *)
THEOREM RefinementTheorem == Spec => ImplementsKeyStore
<1>1. Init => Abstract!Init
  BY DEF Init, Abstract!Init
<1>2. Inv /\ ReplayInv /\ LoopInv /\ [Next]_vars
        => [Abstract!Next]_<<StoreOf(variable_bank), update_bank,
             IF pc # "done" THEN "pending"
             ELSE IF rc = OPAL_SUCCESS THEN "accepted" ELSE "rejected">>
  BY StepRefines DEF Status
<1> QED BY <1>1, <1>2, InvHolds, ReplayInvHolds, LoopInvHolds, PTL
        DEF Spec, ImplementsKeyStore, Abstract!Spec
-----------------------------------------------------------------------------
(* All of the above, for a caller that proves with it.                      *)

BackendInv == Inv /\ ReplayInv /\ LoopInv

LEMMA BackendInvInit == Init => BackendInv
BY TypeInit, InvInit, ReplayInvInit, LoopInvInit DEF BackendInv, Inv

LEMMA BackendInvStep == BackendInv /\ [Next]_vars => BackendInv'
<1> SUFFICES ASSUME BackendInv, [Next]_vars PROVE BackendInv'
  OBVIOUS
<1>1. TypeOK'
  BY TypeStep DEF BackendInv, Inv
<1>2. Inv'
  BY <1>1, InvStep DEF BackendInv
<1>3. ReplayInv'
  BY ReplayInvStep DEF BackendInv, Inv
<1>4. LoopInv'
  BY LoopInvStep DEF BackendInv
<1> QED BY <1>2, <1>3, <1>4 DEF BackendInv
=============================================================================
