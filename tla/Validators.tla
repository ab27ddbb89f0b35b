----------------------------- MODULE Validators -----------------------------
(***************************************************************************)
(* The verdicts of backends/edk2-compat/edk2-svc-validate.c on files whose *)
(* lengths are in order, which every command asks for before it goes on,   *)
(* and the codes of include/err.h.  How the lengths are checked is the     *)
(* module Formats; how a time is checked, Timestamps.                      *)
(***************************************************************************)
EXTENDS Edk2Update

CONSTANTS Strong,      \* the certificates with RSA-2048 and SHA-256
          Malformed    \* a file that is not an auth file

ASSUME StrongAssumption == Strong \subseteq Certs

SUCCESS           == 0
AUTH_FAIL         == -1
PKCS7_FAIL        == -2
ESL_FAIL          == -3
CERT_FAIL         == -4
ARG_PARSE_FAIL    == -5
INVALID_VAR_NAME  == -6
INVALID_FILE      == -7
FILE_WRITE_FAIL   == -8
INVALID_TIMESTAMP == -9
HASH_FAIL         == -10
ALLOC_FAIL        == -11

(* Only db may hold certificates that are not RSA-2048 with SHA-256; a      *)
(* file given without a variable name is held to the rule of the others.    *)
validateCertStruct(cert, key) == cert \in (IF key = "db" THEN Certs ELSE Strong)

validateSingularESL(esl, key) ==
  IF key = "dbx" THEN esl.type = "SHA" /\ esl.sig \in Hashes
                 ELSE esl.type = "X509" /\ validateCertStruct(esl.sig, key)

(* One good ESL at the front is enough; what follows it may be anything. *)
validateESL(data, key) ==
  IF data.esls # << >> /\ validateSingularESL(data.esls[1], key) THEN SUCCESS
  ELSE ESL_FAIL

(* Fault: contents that are too short for an ESL pass for a reset file. *)
validateAuth_ShortIsReset(file, key) ==
  IF file = Malformed THEN AUTH_FAIL
  ELSE IF file.signers = {} \/ ~(file.signers \subseteq Strong) THEN CERT_FAIL
  ELSE IF file.data.size < ListHeader THEN SUCCESS
  ELSE validateESL(file.data, key)

(* An auth file with nothing appended is a reset file. *)
validateAuth(file, key) ==
  IF file = Malformed THEN AUTH_FAIL
  ELSE IF file.signers = {} \/ ~(file.signers \subseteq Strong) THEN CERT_FAIL
  ELSE IF file.data.size = 0 THEN SUCCESS
  ELSE validateESL(file.data, key)

(* No part of a time that validateTime accepts is zero in all its fields. *)
validateTS(stamps) ==
  IF \A i \in DOMAIN stamps : stamps[i] > 0 THEN SUCCESS ELSE INVALID_TIMESTAMP
=============================================================================
