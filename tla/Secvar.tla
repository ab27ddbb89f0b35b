------------------------------- MODULE Secvar -------------------------------
(***************************************************************************)
(* Secure variables and the banks that hold them                           *)
(* (external/skiboot/secvar_util.c, external/skiboot/include/secvar.h).    *)
(*                                                                         *)
(* A bank is the linked list of the code: a sequence of secvars, searched  *)
(* from the head, appended to at the tail.  Nothing in the code keeps the  *)
(* keys of a bank distinct (`verify -c' accepts the same name twice), so a *)
(* bank is not a function from keys.                                       *)
(*                                                                         *)
(* A secvar of one of the four keys carries `data'.  The TS variable       *)
(* carries `stamps', the array of four efi_time the code casts its bytes   *)
(* to.                                                                     *)
(***************************************************************************)
EXTENDS Integers, Sequences, FiniteSetsExt

Keys      == {"PK", "KEK", "db", "dbx"}
Variables == Keys \cup {"TS"}

(* SECVAR_FLAG_VOLATILE and SECVAR_FLAG_PROTECTED *)
Flags == {"VOLATILE", "PROTECTED"}

new_secvar(key, data, flags) == [key |-> key, data |-> data, flags |-> flags]

(* The position find_secvar stops at: the first secvar with that key. *)
FirstAt(key, bank) == Min({i \in DOMAIN bank : bank[i].key = key})

HasVar(key, bank)      == \E i \in DOMAIN bank : bank[i].key = key
find_secvar(key, bank) == bank[FirstAt(key, bank)]

(* Fault: a variable without data is not copied (new_secvar refuses it).   *)
copy_bank_list_SkipsEmpty(dst, src) ==
  dst \o SelectSeq(src, LAMBDA v : v.key \in Keys => v.data.size > 0)

(* The list is copied node by node, in order, to the tail of dst. *)
copy_bank_list(dst, src) == dst \o src
clear_bank_list(bank)    == << >>
=============================================================================
