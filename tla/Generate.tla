------------------------------ MODULE Generate ------------------------------
(***************************************************************************)
(* `secvarctl generate' (backends/edk2-compat/edk2-svc-generate.c) run     *)
(* again and again over the files of one directory, with somebody outside  *)
(* who signs a digest when asked to, and with time passing in between.     *)
(*                                                                         *)
(* A file is a record of what it decodes to:                               *)
(*   file   - nothing any command decodes                                  *)
(*   cert   - an x509 certificate in PEM                                   *)
(*   hash   - a digest: its algorithm, and the message if it is one of a   *)
(*            message for signing (what else was hashed is Other)          *)
(*   esl    - the contents of a variable                                   *)
(*   pkcs7  - the certificates it carries, those whose keys signed, and    *)
(*            the message they signed                                      *)
(*   auth   - a pkcs7 with a time in front and contents behind             *)
(*   sig    - one raw signature                                            *)
(* A digest in an ESL is told apart by its algorithm alone.  A file read   *)
(* as another kind than its own does not decode; where -f keeps it from    *)
(* being noticed, it counts as contents too short for an ESL, or as an     *)
(* auth file whose length word points beyond its end.                      *)
(***************************************************************************)
EXTENDS Validators

CONSTANTS Library,    \* the crypto library of the build
          Length,     \* signature data -> its bytes
          Given,      \* the files there are at first
          Commands,   \* the command lines that may be given
          Holders,    \* the certificates whose keys are held outside
          Bank,       \* the variables of the machine the files are for
          Other, NoFile, Unreadable,
          MaxClock,   \* bound: seconds that pass
          MaxRuns     \* bound: commands in a behaviour

NoTime == -1          \* no -t
NoVar  == "none"      \* no -n

ASSUME LibraryAssumption == Library \in {"mbedtls", "openssl"}
ASSUME LengthAssumption ==
  /\ Length \in [Certs \cup Hashes \cup Junk -> Nat]
  /\ Junk # {}

(* A command line: -i and -o form, -n, -t, -h, -f, the files of -k and -c,  *)
(* and whether -s is given.                                                 *)
Forms == {"f", "h", "c", "a", "e", "p", "r", "x", "t"}   \* t: no form at all
Lines ==
  [inForm : Forms, outForm : Forms, var : STRING, time : Nat \cup {NoTime}, alg : STRING,
   force : BOOLEAN, keys : Seq(Certs \cup Junk), certs : Seq(Certs \cup Junk),
   external : BOOLEAN]
ASSUME CommandsAssumption == Commands \subseteq Lines

(* What is signed is always a variable's contents with a time. *)
Files ==
  [kind : {"file"}] \cup [kind : {"cert"}, cert : Certs]
  \cup [kind : {"hash"}, alg : Hashes, of : Message \cup {Other}]
  \cup [kind : {"esl"}, data : Data]
  \cup [kind : {"sig"}, cert : Certs, of : Message]
  \cup [kind : {"pkcs7"}, certs : SUBSET Certs, signers : SUBSET Certs, signed : Message]
  \cup [kind : {"auth"}, time : Nat, certs : SUBSET Certs, signers : SUBSET Certs,
        signed : Message, data : Data]

(* SHA256 is one of hash_functions, and no -h can take it out. *)
ASSUME FilesAssumption ==
  /\ Given \subseteq Files /\ Holders \subseteq Certs /\ "SHA256" \in Hashes
  /\ Malformed \notin Auth
ASSUME BoundsAssumption == MaxClock \in Nat \ {0} /\ MaxRuns \in Nat

(* The machine's contents are of any kind, but for ESLs in no bytes. *)
ASSUME BankAssumption ==
  /\ Bank \in Seq(SecVar)
  /\ \A i \in DOMAIN Bank : Bank[i].key \in Keys /\ Bank[i].data.esls # << >> =>
       Bank[i].data.size > 0

VARIABLES clock, files,
          run,        \* the command just run: what it was given, and its result
          runs
vars == <<clock, files, run, runs>>

Opaque      == [size |-> 20, esls |-> << >>]
Contents(f) == IF f.kind = "esl" THEN f.data ELSE Opaque

(* The certificates an auth file carries are what validateAuth looks at ... *)
AsAuth(f) ==
  IF f.kind # "auth" THEN Malformed
  ELSE [time |-> f.time, signers |-> f.certs, signed |-> f.signed, data |-> f.data]

(* ... and the signatures are what the backend looks at. *)
AsUpdate(f, key) ==
  new_secvar(key, [time |-> f.time, signers |-> f.signers, signed |-> f.signed,
                   data |-> f.data], {})

Made(out)    == [rc |-> SUCCESS, out |-> out]
Failed(code) == [rc |-> code, out |-> NoFile]
Then(first, Rest(_)) == IF first.rc = SUCCESS THEN Rest(first.out) ELSE first
Unless(code, rest)   == IF code = SUCCESS THEN rest ELSE Failed(code)

Elements(list) == {list[i] : i \in DOMAIN list}

-----------------------------------------------------------------------------
(* toESL: one signature behind the header and an owner left blank.         *)
toESL(type, sig) ==
  LET size == MinESL + Length[sig]
  IN  [size |-> size, esls |-> <<[type |-> type, size |-> size, sig |-> sig]>>]

validateHashAndAlg(f, alg) ==
  IF f.kind = "hash" /\ f.alg = alg THEN SUCCESS ELSE HASH_FAIL

(* What an ESL of the algorithm's type holds when f is put into it. *)
Inside(f, alg) ==
  IF validateHashAndAlg(f, alg) = SUCCESS THEN alg ELSE CHOOSE j \in Junk : TRUE

validatePKCS7(f) ==
  IF f.kind # "pkcs7" THEN PKCS7_FAIL
  ELSE IF f.certs \subseteq Strong THEN SUCCESS ELSE CERT_FAIL

validateCert(f, key) ==
  IF f.kind = "cert" /\ validateCertStruct(f.cert, key) THEN SUCCESS ELSE CERT_FAIL

(* `secvarctl validate': its -x stands for the name dbx, and it can be told *)
(* no other.                                                                *)
performValidation(form, x, f) ==
  LET key == IF x THEN "dbx" ELSE NoVar
  IN  IF f = NoFile THEN ARG_PARSE_FAIL
      ELSE IF f = Unreadable THEN INVALID_FILE
      ELSE CASE form = "c" -> validateCert(f, key)
             [] form = "e" -> validateESL(Contents(f), key)
             [] form = "p" -> validatePKCS7(f)
             [] OTHER -> validateAuth(AsAuth(f), key)

crypto_md_generate_hash(alg, of) == [kind |-> "hash", alg |-> alg, of |-> of]

(* OpenSSL's answer is 1, mbedTLS's is -1. *)
crypto_convert_pem_to_der(f) ==
  IF f.kind = "cert" THEN SUCCESS ELSE IF Library = "openssl" THEN 1 ELSE -1

authToESL(f) == IF f.kind = "auth" THEN Made(f.data) ELSE Failed(AUTH_FAIL)

(* The result is contents, not yet a file. *)
generateESL(cmd, f) ==
  CASE cmd.inForm = "f" ->
         Made(toESL("SHA", Inside(crypto_md_generate_hash(cmd.alg, Other), cmd.alg)))
    [] cmd.inForm = "h" ->
         Unless(IF cmd.force THEN SUCCESS ELSE validateHashAndAlg(f, cmd.alg),
           Made(toESL("SHA", Inside(f, cmd.alg))))
    [] cmd.inForm = "c" ->
         Unless(crypto_convert_pem_to_der(f),
           Unless(IF cmd.force THEN SUCCESS ELSE validateCert(f, cmd.var),
             Made(toESL("X509", f.cert))))
    [] cmd.inForm = "a" ->
         Unless(IF cmd.force THEN SUCCESS ELSE validateAuth(AsAuth(f), cmd.var),
           authToESL(f))
    [] OTHER -> Failed(ARG_PARSE_FAIL)

generateHash(cmd, f) ==
  Unless(CASE cmd.force \/ cmd.inForm = "f" -> SUCCESS
           [] ~cmd.force /\ cmd.inForm = "c" -> validateCert(f, cmd.var)
           [] ~cmd.force /\ cmd.inForm = "e" -> validateESL(Contents(f), cmd.var)
           [] ~cmd.force /\ cmd.inForm = "p" -> validatePKCS7(f)
           [] ~cmd.force /\ cmd.inForm = "a" -> validateAuth(AsAuth(f), cmd.var)
           [] OTHER -> ARG_PARSE_FAIL,
    Made(crypto_md_generate_hash(cmd.alg, Other)))

-----------------------------------------------------------------------------
(* What is signed.                                                         *)

(* Fault: the time is left at zero. *)
getPreHashForSecVar_NoTime(cmd, data) ==
  IF cmd.var \notin Keys THEN Failed(ARG_PARSE_FAIL)
  ELSE Made([key |-> cmd.var, data |-> data, time |-> 0])

(* No name, or TS: there is no GUID to go with it. *)
getPreHashForSecVar(cmd, data) ==
  IF cmd.var \notin Keys THEN Failed(ARG_PARSE_FAIL)
  ELSE Made([key |-> cmd.var, data |-> data, time |-> cmd.time])

(* Fault: only the new contents are hashed. *)
toHashForSecVarSigning_Bare(cmd, data) ==
  Then(getPreHashForSecVar(cmd, data), LAMBDA message :
    Made(crypto_md_generate_hash("SHA256", data)))

toHashForSecVarSigning(cmd, data) ==
  Then(getPreHashForSecVar(cmd, data), LAMBDA message :
    Made(crypto_md_generate_hash("SHA256", message)))

PKCS7(certs, signers, message) ==
  Made([kind |-> "pkcs7", certs |-> certs, signers |-> signers, signed |-> message])

(* Keys and certificates go in pairs; a file that is neither fails. *)
crypto_pkcs7_generate_w_signature(cmd, message) ==
  IF \A i \in DOMAIN cmd.keys : cmd.keys[i] \in Certs /\ cmd.keys[i] = cmd.certs[i]
  THEN PKCS7(Elements(cmd.certs), Elements(cmd.keys), message)
  ELSE Failed(PKCS7_FAIL)

(* Whatever the -s file holds is put in as the signature.  Without -k and   *)
(* -s it is this function that is called, and finds no pair.                *)
crypto_pkcs7_generate_w_already_signed_data(cmd, sig, message) ==
  IF \/ Library = "openssl" \/ ~cmd.external
     \/ sig = Unreadable \/ ~(Elements(cmd.certs) \subseteq Certs)
  THEN Failed(PKCS7_FAIL)
  ELSE IF sig.kind # "sig" THEN PKCS7(Elements(cmd.certs), {}, message)
  ELSE PKCS7(Elements(cmd.certs), {sig.cert}, sig.of)

toPKCS7ForSecVar(cmd, data, sig) ==
  Then(getPreHashForSecVar(cmd, data), LAMBDA message :
    IF cmd.keys # << >> THEN crypto_pkcs7_generate_w_signature(cmd, message)
    ELSE crypto_pkcs7_generate_w_already_signed_data(cmd, sig, message))

toAuth(cmd, data, sig) ==
  Then(toPKCS7ForSecVar(cmd, data, sig), LAMBDA pkcs7 :
    Made([kind |-> "auth", time |-> cmd.time, certs |-> pkcs7.certs,
          signers |-> pkcs7.signers, signed |-> pkcs7.signed, data |-> data]))

(* Fault: an ESL made here is not validated for the variable. *)
NewContents_NoFlow(cmd, f) ==
  CASE cmd.inForm = "r" -> Made(NoData)
    [] cmd.inForm \in {"f", "h", "c"} -> generateESL(cmd, f)
    [] cmd.inForm = "e" ->
         Unless(IF cmd.force THEN SUCCESS ELSE validateESL(Contents(f), cmd.var),
           Made(Contents(f)))
    [] OTHER -> Failed(ARG_PARSE_FAIL)

(* The switch of generateAuthOrPKCS7: an ESL made of the input, or given,   *)
(* is validated for the variable it is meant for.                           *)
NewContents(cmd, f) ==
  IF cmd.inForm = "r" THEN Made(NoData)
  ELSE IF cmd.inForm \notin {"f", "h", "c", "e"} THEN Failed(ARG_PARSE_FAIL)
  ELSE Then(IF cmd.inForm = "e" THEN Made(Contents(f)) ELSE generateESL(cmd, f),
         LAMBDA data :
           Unless(IF cmd.force THEN SUCCESS ELSE validateESL(data, cmd.var),
             Made(data)))

generateAuthOrPKCS7(cmd, f, sig) ==
  Then(NewContents(cmd, f), LAMBDA data :
    IF cmd.outForm = "a" THEN toAuth(cmd, data, sig)
    ELSE IF cmd.outForm = "x" THEN toHashForSecVarSigning(cmd, data)
    ELSE toPKCS7ForSecVar(cmd, data, sig))

(* Fault: -t is needed after all. *)
Timed_Unset(cmd, now) == cmd

(* getTimestamp, when there is no -t. *)
Timed(cmd, now) == IF cmd.time = NoTime THEN [cmd EXCEPT !.time = now] ELSE cmd

getOutputData(now, cmd, f, sig) ==
  CASE cmd.outForm = "c" -> Failed(CERT_FAIL)
    [] cmd.outForm = "h" -> generateHash(cmd, f)
    [] cmd.outForm = "e" ->
         Then(generateESL(cmd, f), LAMBDA data :
           Made([kind |-> "esl", data |-> data]))
    [] cmd.outForm \in {"a", "p", "x"} -> generateAuthOrPKCS7(Timed(cmd, now), f, sig)
    [] OTHER -> Failed(ARG_PARSE_FAIL)

-----------------------------------------------------------------------------
(* The command line: a time that does not parse or is out of range is 0.   *)
parse_opt(cmd, f) ==
  IF \/ cmd.external /\ cmd.keys # << >>
     \/ cmd.time = 0
     \/ cmd.inForm # "r" /\ f = NoFile
     \/ cmd.var \notin Variables \cup {NoVar}
  THEN ARG_PARSE_FAIL ELSE SUCCESS

Signatures(cmd) == Len(cmd.keys) + (IF cmd.external THEN 1 ELSE 0)

getHashFunction(alg) == IF alg \in Hashes THEN SUCCESS ELSE ARG_PARSE_FAIL

performGenerateCommand(now, cmd, f, sig) ==
  Unless(parse_opt(cmd, f),
    IF Len(cmd.certs) # Signatures(cmd) THEN Failed(ARG_PARSE_FAIL)
    ELSE IF cmd.inForm # "r" /\ f = Unreadable THEN Failed(INVALID_FILE)
    ELSE Unless(getHashFunction(cmd.alg), getOutputData(now, cmd, f, sig)))

-----------------------------------------------------------------------------
Idle == [cmd |-> NoFile, input |-> NoFile, sig |-> NoFile, at |-> 0,
         result |-> Failed(SUCCESS)]

Init ==
  /\ clock = 1 /\ runs = 0
  /\ files = Given
  /\ run = Idle

(* createFile is called with what succeeded, or not at all. *)
Run(cmd, input, sig) ==
  LET result == performGenerateCommand(clock, cmd, input, sig)
  IN  /\ runs < MaxRuns
      /\ runs' = runs + 1
      /\ run' = [cmd |-> cmd, input |-> input, sig |-> sig, at |-> clock,
                 result |-> result]
      /\ files' = IF result.rc = SUCCESS THEN files \cup {result.out} ELSE files
      /\ UNCHANGED clock

(* The framework that holds the keys signs whatever digest it is sent. *)
Sign(cert, digest) ==
  /\ digest.kind = "hash" /\ digest.of # Other
  /\ files' = files \cup {[kind |-> "sig", cert |-> cert, of |-> digest.of]}
  /\ run' = Idle
  /\ UNCHANGED <<clock, runs>>

Tick ==
  /\ clock < MaxClock
  /\ clock' = clock + 1
  /\ run' = Idle
  /\ UNCHANGED <<files, runs>>

Next ==
  \/ \E cmd \in Commands :
       \E input \in IF cmd.inForm = "r" THEN {NoFile} ELSE files \cup {NoFile, Unreadable},
          sig \in IF cmd.external THEN files \cup {Unreadable} ELSE {NoFile} :
         Run(cmd, input, sig)
  \/ \E cert \in Holders, digest \in files : Sign(cert, digest)
  \/ Tick

Spec == Init /\ [][Next]_vars

-----------------------------------------------------------------------------
(* Types: every file there is, those that generate has made included, is of *)
(* one of the kinds of Files, and what its signatures and digests are of is *)
(* a variable's contents with a time, or something foreign.                 *)
TypeOK == files \subseteq Files /\ clock \in 1..MaxClock /\ runs \in 0..MaxRuns

Succeeded == run.cmd # NoFile /\ run.result.rc = SUCCESS
Signing   == Succeeded /\ run.cmd.outForm = "a"

(* What is signed for a variable has been validated as its contents, on     *)
(* every way there (f:a, h:a, c:a, e:a), unless -f was given or it is a     *)
(* reset.  README: "All input files are prevalidated to be correctly        *)
(* formatted according to the specified input format"                       *)
OnlyForceSkips ==
  Signing /\ ~run.cmd.force /\ run.cmd.inForm # "r" =>
    validateESL(run.result.out.data, run.cmd.var) = SUCCESS

(* The certificates of the key's authorities, each up to the first ESL that *)
(* holds none, where the firmware gives up on it.                           *)
Entitled(key) ==
  {cert \in Certs : \E k \in Elements(get_key_authority(key)) :
     /\ HasVar(k, Bank)
     /\ LET esls == find_secvar(k, Bank).data.esls
        IN  \E i \in DOMAIN esls : /\ esls[i].sig = cert
                                   /\ \A j \in 1..(i - 1) : esls[j].sig \in Certs}

(* generate, validate and the firmware agree, though each has its own code  *)
(* for the message that is signed, the shape of an ESL and the form of its  *)
(* data: an update made of one certificate, digest or nothing with keys at  *)
(* hand is valid exactly if each signer is a strong one, and then accepted, *)
(* if one of them is entitled to it, by a machine that has seen no update   *)
(* yet (edk2-svc-generate.c:880-1037, edk2-svc-validate.c:176-320,          *)
(* edk2-compat-process.c:599-854; test/runSvcGenerateTests.py verifies a    *)
(* few such files).                                                         *)
GeneratedIsAccepted ==
  LET cmd    == run.cmd
      out    == run.result.out
      strong == Elements(cmd.certs) \subseteq Strong
  IN  Signing /\ ~cmd.force /\ cmd.inForm # "e" /\ cmd.keys # << >> =>
        /\ validateAuth(AsAuth(out), cmd.var) = SUCCESS <=> strong
        /\ strong /\ Elements(cmd.certs) \cap Entitled(cmd.var) # {} =>
             process_update(AsUpdate(out, cmd.var), Bank, <<0, 0, 0, 0>>, FALSE) >= 0

(* README on -s: it "replaces -k <privKey> argument when user does not have *)
(* direct access to private key".  Given a signature made elsewhere with    *)
(* the key of -c, generate makes the very file it makes with that key if    *)
(* and only if what was signed is the digest that c:x (f:x, ...) makes from *)
(* the same input, -n and time.                                             *)
SignatureReplacesKey ==
  LET cmd   == run.cmd
      ByKey == performGenerateCommand(run.at,
                 [cmd EXCEPT !.keys = cmd.certs, !.external = FALSE], run.input, NoFile)
      ForX  == performGenerateCommand(run.at,
                 [cmd EXCEPT !.certs = << >>, !.external = FALSE, !.outForm = "x"],
                 run.input, NoFile)
  IN  cmd # NoFile /\ cmd.external /\ cmd.keys = << >> /\ cmd.outForm \in {"a", "p"}
      /\ run.sig # Unreadable /\ run.sig.kind = "sig" /\ cmd.certs = <<run.sig.cert>>
      /\ ByKey.rc = SUCCESS =>
        (ForX.out.of = run.sig.of <=> run.result = ByKey)

(* README: "reset , generates a valid variable reset file".  Whoever made   *)
(* one can ask `secvarctl validate'.                                        *)
ResetIsValid ==
  Signing /\ run.cmd.inForm = "r" =>
    performValidation("a", run.cmd.var = "dbx", run.result.out) = SUCCESS
=============================================================================
