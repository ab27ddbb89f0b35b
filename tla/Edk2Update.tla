----------------------------- MODULE Edk2Update -----------------------------
(***************************************************************************)
(* What one queued update is worth: the operators of                       *)
(* external/skiboot/edk2-compat-process.c.                                 *)
(*                                                                         *)
(* Bytes are abstracted to what the code tells apart:                      *)
(*   - the contents of a key variable are the EFI signature lists (ESLs)   *)
(*     they start with, followed by fewer bytes than an ESL header, and    *)
(*     the length of the whole (`size');                                   *)
(*   - an ESL is its signature type, its SignatureListSize and what its    *)
(*     signature data decodes to: a certificate, a digest of the length    *)
(*     its type asks for, or neither (Junk);                               *)
(*   - an auth file is its timestamp, the certificates whose keys signed   *)
(*     its PKCS7, the message they signed, and the appended ESLs.  SHA-256 *)
(*     is taken to be injective, so the message stands for its digest;     *)
(*   - an efi_time is the number unpack_timestamp makes of it; all zeroes  *)
(*     is 0.                                                               *)
(***************************************************************************)
EXTENDS Secvar

CONSTANTS Certs,    \* what crypto_x509_parse_der accepts
          Hashes,   \* digests whose length fits their type
          Junk      \* signature data that is neither

ASSUME SignatureDataAssumption ==
  /\ Certs \cap Hashes = {}
  /\ Junk \cap (Certs \cup Hashes) = {}

OPAL_SUCCESS        == 0
OPAL_PARAMETER      == -1
OPAL_PERMISSION     == -8
OPAL_NO_MEM         == -9
OPAL_INTERNAL_ERROR == -11
OPAL_EMPTY          == -16

ListHeader == 28                \* sizeof(EFI_SIGNATURE_LIST)
MinESL     == ListHeader + 16   \* the header and one signature owner GUID

ESL  == [type : {"X509", "SHA"}, size : {n \in Nat : n >= MinESL},
         sig : Certs \cup Hashes \cup Junk]
Data == [size : Nat, esls : Seq(ESL)]

NoData == [size |-> 0, esls |-> << >>]

Message == [key : Keys, data : Data, time : Nat]
Auth    == [time : Nat, signers : SUBSET Certs, signed : Message, data : Data]
Update  == [key : Keys, data : Auth, flags : {{}}]

KeyVar == [key : Keys, data : Data, flags : SUBSET Flags]
TSVar  == [key : {"TS"}, stamps : [1..4 -> Nat], flags : SUBSET Flags]
SecVar == KeyVar \cup TSVar

(***************************************************************************)
(* What validateBanks leaves the backend with: contents that are empty, or *)
(* start with an ESL and so are no shorter than its header.  It asks this  *)
(* of the new contents of every update, and of the current variables only  *)
(* when a PK is loaded.                                                    *)
(***************************************************************************)
Whole(data) ==
  /\ data.size = 0 <=> data.esls = << >>
  /\ data.size = 0 \/ data.size >= ListHeader

QueueWhole(queue) == \A i \in DOMAIN queue : Whole(queue[i].data.data)
LoadedWhole(bank) ==
  HasVar("PK", bank) =>
    \A i \in DOMAIN bank : bank[i].key \in Keys => Whole(bank[i].data)

(* Fault: db counts among its own authorities. *)
get_key_authority_DbSigns(key) ==
  IF key \in {"PK", "KEK"} THEN <<"PK">> ELSE <<"db", "KEK", "PK">>

(* Fault: KEK counts among its own authorities. *)
get_key_authority_KekSigns(key) ==
  IF key = "PK" THEN <<"PK">> ELSE <<"KEK", "PK">>

(* Who may sign an update, in the order the code tries them. *)
get_key_authority(key) ==
  IF key \in {"PK", "KEK"} THEN <<"PK">> ELSE <<"KEK", "PK">>

(* Where a key's timestamp is in the TS array. *)
get_last_timestamp(key) ==
  CASE key = "PK" -> 1 [] key = "KEK" -> 2 [] key = "db" -> 3 [] key = "dbx" -> 4

(* Fault: an equal timestamp is good enough. *)
check_timestamp_Equal(key, time, stamps) ==
  IF time >= stamps[get_last_timestamp(key)] THEN OPAL_SUCCESS ELSE OPAL_PERMISSION

check_timestamp(key, time, stamps) ==
  IF time > stamps[get_last_timestamp(key)] THEN OPAL_SUCCESS ELSE OPAL_PERMISSION

update_timestamp(key, time, bank) ==
  [bank EXCEPT ![FirstAt("TS", bank)].stamps[get_last_timestamp(key)] = time]

(* The ESL passes the checks made on the type and contents of its data. *)
GoodESL(key, esl) ==
  IF key = "dbx" THEN esl.type = "SHA"  /\ esl.sig \in Hashes
                 ELSE esl.type = "X509" /\ esl.sig \in Certs

(***************************************************************************)
(* The number of ESLs, or OPAL_PARAMETER.  Every turn of the loop reads    *)
(* the ESL at the START of the buffer again (get_esl_signature_list and    *)
(* get_esl_cert are given `esl', not `esl + offset'), while the count of   *)
(* bytes left goes down by that ESL's size.  So the loop turns             *)
(* (size - 28) div s + 1 times, s the size of the first ESL, and fails     *)
(* when the bytes left in the last turn hold a header but no signature.    *)
(* That is where the first ESL's SignatureHeaderSize is 0, as in every ESL *)
(* that generate makes: get_esl_cert (144-149) adds it to the offset of    *)
(* the signature, so that with another the last turn needs more bytes.     *)
(* Such ESLs are not among Data; Formats has the loop for them too.        *)
(***************************************************************************)
validate_esl_list(key, data) ==
  LET first == data.esls[1]
      count == (data.size - ListHeader) \div first.size + 1
      left  == data.size - (count - 1) * first.size
  IN  IF data.size < ListHeader THEN 0
      ELSE IF \/ ~GoodESL(key, first)
              \/ left < MinESL
              \/ key = "PK" /\ count > 1
           THEN OPAL_PARAMETER
           ELSE count

get_hash_to_verify(key, data, time) == [key |-> key, data |-> data, time |-> time]

(* One of the PKCS7's signatures is the certificate's, on that message. *)
crypto_pkcs7_signed_hash_verify(auth, cert, message) ==
  cert \in auth.signers /\ auth.signed = message

(***************************************************************************)
(* The ESLs of the authority are tried in order.  The first one that does  *)
(* not hold a certificate, or whose certificate signed, ends the search;   *)
(* with no complete ESL to try, rc keeps its initial OPAL_SUCCESS.         *)
(***************************************************************************)
verify_signature(auth, message, authority) ==
  LET esls     == authority.esls
      Signed(i) == crypto_pkcs7_signed_hash_verify(auth, esls[i].sig, message)
      decisive == {i \in DOMAIN esls : esls[i].sig \in Certs => Signed(i)}
  IN  IF esls = << >> THEN OPAL_SUCCESS
      ELSE IF decisive = {} THEN OPAL_PERMISSION
      ELSE IF esls[Min(decisive)].sig \in Certs THEN OPAL_SUCCESS
      ELSE OPAL_INTERNAL_ERROR

(* The authorities the loop does not skip: those that are not empty. *)
Consulted(key, bank) ==
  LET names == get_key_authority(key)
  IN  {i \in DOMAIN names : /\ HasVar(names[i], bank)
                            /\ find_secvar(names[i], bank).data.size > 0}

(***************************************************************************)
(* The return code of process_update for an update whose auth descriptor   *)
(* is well formed (validateAuth has accepted it).  rc holds the number of  *)
(* ESLs when the loop over the authorities starts; if every authority is   *)
(* empty that number is what is returned: 0, success, for a reset file.    *)
(***************************************************************************)
process_update(update, bank, stamps, setup_mode) ==
  LET key     == update.key
      auth    == update.data
      fresh   == check_timestamp(key, auth.time, stamps)
      count   == validate_esl_list(key, auth.data)
      message == get_hash_to_verify(key, auth.data, auth.time)
      tried   == Consulted(key, bank)
      Try(i)  == verify_signature(auth, message,
                   find_secvar(get_key_authority(key)[i], bank).data)
  IN  IF fresh # OPAL_SUCCESS THEN fresh
      ELSE IF count < 0 THEN count
      ELSE IF setup_mode THEN OPAL_SUCCESS
      ELSE IF tried = {} THEN count
      ELSE IF \E i \in tried : Try(i) = OPAL_SUCCESS THEN OPAL_SUCCESS
      ELSE Try(Max(tried))

(* Fault: the new contents come with the old flags. *)
update_variable_in_bank_KeepsFlags(update, bank) ==
  [bank EXCEPT ![FirstAt(update.key, bank)].data = update.data.data]

(* The variable is given the new contents; only contents clear VOLATILE. *)
update_variable_in_bank(update, bank) ==
  LET at    == FirstAt(update.key, bank)
      data  == update.data.data
      flags == IF data.size > 0 THEN bank[at].flags \ {"VOLATILE"}
                                ELSE bank[at].flags \cup {"VOLATILE"}
      fixed == IF update.key = "PK" THEN {"PROTECTED"} ELSE {}
  IN  [bank EXCEPT ![at] = new_secvar(update.key, data, flags \cup fixed)]
=============================================================================
