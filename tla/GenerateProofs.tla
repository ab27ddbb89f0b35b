--------------------------- MODULE GenerateProofs ---------------------------
(***************************************************************************)
(* Proofs about Generate, for every set of command lines, files and keys.  *)
(* A result is a function of what the command was given, so both claims    *)
(* come down to following one command line through the program, or two of  *)
(* them side by side.                                                      *)
(***************************************************************************)
EXTENDS Generate, WellFoundedInduction, TLAPS

ResultIsOutcome ==
  run # Idle =>
    /\ run.cmd \in Lines
    /\ run.result = performGenerateCommand(run.at, run.cmd, run.input, run.sig)

LEMMA RunIsRecord ==
  ASSUME NEW cmd, NEW input, NEW sig, Run(cmd, input, sig)
  PROVE  /\ run'.cmd = cmd /\ run'.input = input /\ run'.sig = sig /\ run'.at = clock
         /\ run'.result = performGenerateCommand(clock, cmd, input, sig)
BY DEF Run

(* The command just run, in every state, is one of those that may be given, *)
(* and its result is the function's.                                        *)
THEOREM OutcomeInvariant == Spec => []ResultIsOutcome
<1>1. Init => ResultIsOutcome
  BY DEF Init, ResultIsOutcome
<1>2. ResultIsOutcome /\ [Next]_vars => ResultIsOutcome'
  <2> SUFFICES ASSUME ResultIsOutcome, [Next]_vars PROVE ResultIsOutcome'
    OBVIOUS
  <2>1. CASE \E cmd \in Commands : \E input, sig : Run(cmd, input, sig)
    <3>0. PICK cmd \in Commands : \E input, sig : Run(cmd, input, sig)
      BY <2>1
    <3>1. PICK input, sig : Run(cmd, input, sig)
      BY <3>0
    <3>2. cmd \in Lines
      BY CommandsAssumption
    <3> QED BY <3>1, <3>2, RunIsRecord DEF ResultIsOutcome
  <2>2. CASE run' = Idle
    BY <2>2 DEF ResultIsOutcome, Idle
  <2>3. CASE run' = run
    BY <2>3 DEF ResultIsOutcome, Idle
  <2> QED BY <2>1, <2>2, <2>3 DEF Next, Sign, Tick, vars
<1> QED BY <1>1, <1>2, PTL DEF Spec

-----------------------------------------------------------------------------
(* One command line.                                                        *)

(* A time is filled in, and nothing else is changed.                        *)
LEMMA TimedKeeps ==
  ASSUME NEW cmd \in Lines, NEW now
  PROVE  LET timed == Timed(cmd, now)
         IN  /\ timed.inForm = cmd.inForm /\ timed.outForm = cmd.outForm
             /\ timed.var = cmd.var /\ timed.alg = cmd.alg /\ timed.force = cmd.force
             /\ timed.keys = cmd.keys /\ timed.certs = cmd.certs
             /\ timed.external = cmd.external
             /\ timed.time = IF cmd.time = NoTime THEN now ELSE cmd.time
BY DEF Timed, Lines

(* What is signed depends on the input, its form, -n, -h and -f only.       *)
LEMMA SameContents ==
  ASSUME NEW cmd, NEW other, NEW f,
         cmd.inForm = other.inForm, cmd.var = other.var,
         cmd.alg = other.alg, cmd.force = other.force
  PROVE  NewContents(cmd, f) = NewContents(other, f)
<1>1. generateESL(cmd, f) = generateESL(other, f)
  BY DEF generateESL
<1> QED BY <1>1 DEF NewContents, Then

LEMMA ContentsAreValid ==
  ASSUME NEW cmd, NEW f, ~cmd.force, cmd.inForm # "r",
         NewContents(cmd, f).rc = SUCCESS
  PROVE  validateESL(NewContents(cmd, f).out, cmd.var) = SUCCESS
BY DEF NewContents, Then, Unless, Made, Failed, SUCCESS, ARG_PARSE_FAIL

(* To succeed, a command line must get through parse_opt, read its input    *)
(* and know its hash function.                                              *)
LEMMA GetsToOutput ==
  ASSUME NEW now, NEW cmd, NEW f, NEW sig,
         performGenerateCommand(now, cmd, f, sig).rc = SUCCESS
  PROVE  /\ performGenerateCommand(now, cmd, f, sig) = getOutputData(now, cmd, f, sig)
         /\ parse_opt(cmd, f) = SUCCESS /\ getHashFunction(cmd.alg) = SUCCESS
         /\ ~(cmd.inForm # "r" /\ f = Unreadable)
BY DEF performGenerateCommand, Unless, Failed, SUCCESS, ARG_PARSE_FAIL, INVALID_FILE

LEMMA SigningOutput ==
  ASSUME NEW now, NEW cmd \in Lines, NEW f, NEW sig, cmd.outForm \in {"a", "p", "x"}
  PROVE  getOutputData(now, cmd, f, sig) = generateAuthOrPKCS7(Timed(cmd, now), f, sig)
BY DEF getOutputData

(* Whatever is signed is what NewContents made. *)
LEMMA AuthHoldsContents ==
  ASSUME NEW cmd, NEW f, NEW sig, cmd.outForm = "a",
         generateAuthOrPKCS7(cmd, f, sig).rc = SUCCESS
  PROVE  /\ NewContents(cmd, f).rc = SUCCESS
         /\ generateAuthOrPKCS7(cmd, f, sig).out.data = NewContents(cmd, f).out
<1> DEFINE data == NewContents(cmd, f).out
<1>1. NewContents(cmd, f).rc = SUCCESS
  BY DEF generateAuthOrPKCS7, Then
<1>2. generateAuthOrPKCS7(cmd, f, sig) = toAuth(cmd, data, sig)
  BY <1>1 DEF generateAuthOrPKCS7, Then
<1>3. toAuth(cmd, data, sig).rc = SUCCESS => toAuth(cmd, data, sig).out.data = data
  <2> HIDE DEF data
  <2> QED BY DEF toAuth, Then, Made
<1> QED BY <1>1, <1>2, <1>3

LEMMA OutcomeIsForced == ResultIsOutcome => OnlyForceSkips
<1> SUFFICES ASSUME ResultIsOutcome, Signing, ~run.cmd.force, run.cmd.inForm # "r"
             PROVE  validateESL(run.result.out.data, run.cmd.var) = SUCCESS
  BY DEF OnlyForceSkips
<1> DEFINE timed == Timed(run.cmd, run.at)
<1>1. run # Idle /\ run.result.rc = SUCCESS /\ run.cmd.outForm = "a"
  BY DEF Signing, Succeeded, Idle
<1>2. run.cmd \in Lines
      /\ run.result = performGenerateCommand(run.at, run.cmd, run.input, run.sig)
  BY <1>1 DEF ResultIsOutcome
<1>3. run.result = getOutputData(run.at, run.cmd, run.input, run.sig)
  BY <1>1, <1>2, GetsToOutput
<1>4. run.result = generateAuthOrPKCS7(timed, run.input, run.sig)
  BY <1>1, <1>2, <1>3, SigningOutput
<1>5. /\ timed.outForm = "a" /\ ~timed.force /\ timed.inForm # "r"
      /\ timed.var = run.cmd.var
  BY <1>1, <1>2, TimedKeeps
<1> HIDE DEF timed
<1>6. /\ NewContents(timed, run.input).rc = SUCCESS
      /\ run.result.out.data = NewContents(timed, run.input).out
  BY <1>1, <1>4, <1>5, AuthHoldsContents
<1>7. validateESL(NewContents(timed, run.input).out, timed.var) = SUCCESS
  BY <1>5, <1>6, ContentsAreValid
<1> QED BY <1>5, <1>6, <1>7

(* Without -f, nothing but a reset is signed that is not valid as the       *)
(* contents of the variable it is for.                                      *)
THEOREM OnlyForceTheorem == Spec => []OnlyForceSkips
BY OutcomeIsForced, OutcomeInvariant, PTL

-----------------------------------------------------------------------------
(* Two command lines: with the key, and with a signature in its place.      *)

(* The digest c:x prints, the file made with the key and the one made with  *)
(* the signature all come from one message.                                 *)
LEMMA OneMessage ==
  ASSUME Library = "mbedtls",
         NEW cmd, NEW byKey, NEW forX, NEW f, NEW sig, NEW cert \in Certs,
         cmd.outForm \in {"a", "p"}, byKey.outForm = cmd.outForm, forX.outForm = "x",
         NewContents(byKey, f) = NewContents(cmd, f),
         NewContents(forX, f) = NewContents(cmd, f),
         byKey.var = cmd.var, forX.var = cmd.var,
         byKey.time = cmd.time, forX.time = cmd.time,
         cmd.external, cmd.keys = << >>, byKey.keys = <<cert>>,
         cmd.certs = <<cert>>, byKey.certs = <<cert>>,
         sig # Unreadable, sig.kind = "sig", sig.cert = cert,
         generateAuthOrPKCS7(byKey, f, NoFile).rc = SUCCESS
  PROVE  generateAuthOrPKCS7(forX, f, NoFile).out.of = sig.of
           <=> generateAuthOrPKCS7(cmd, f, sig) = generateAuthOrPKCS7(byKey, f, NoFile)
<1> DEFINE data    == NewContents(cmd, f).out
           message == [key |-> cmd.var, data |-> data, time |-> cmd.time]
           Pkcs7(m) == [kind |-> "pkcs7", certs |-> {cert}, signers |-> {cert}, signed |-> m]
           File(m)  == IF cmd.outForm = "p" THEN Pkcs7(m)
                       ELSE [kind |-> "auth", time |-> cmd.time, certs |-> {cert},
                             signers |-> {cert}, signed |-> m, data |-> data]
<1>1. NewContents(cmd, f).rc = SUCCESS
  BY DEF generateAuthOrPKCS7, Then
<1>2. cmd.var \in Keys
  BY <1>1 DEF generateAuthOrPKCS7, Then, toAuth, toPKCS7ForSecVar, getPreHashForSecVar,
     Failed, SUCCESS, ARG_PARSE_FAIL
<1>3. /\ getPreHashForSecVar(cmd, data) = Made(message)
      /\ getPreHashForSecVar(byKey, data) = Made(message)
      /\ getPreHashForSecVar(forX, data) = Made(message)
  BY <1>2 DEF getPreHashForSecVar
<1>4. Elements(<<cert>>) = {cert}
  BY DEF Elements
<1>5. toPKCS7ForSecVar(byKey, data, NoFile) = Made(Pkcs7(message))
  <2>1. crypto_pkcs7_generate_w_signature(byKey, message) = Made(Pkcs7(message))
    <3>1. \A i \in DOMAIN byKey.keys : byKey.keys[i] \in Certs /\ byKey.keys[i] = byKey.certs[i]
      OBVIOUS
    <3>2. Elements(byKey.keys) = {cert} /\ Elements(byKey.certs) = {cert}
      BY <1>4
    <3> QED BY <3>1, <3>2 DEF crypto_pkcs7_generate_w_signature, PKCS7
  <2> QED BY <1>3, <2>1 DEF toPKCS7ForSecVar, Then, Made
<1>6. toPKCS7ForSecVar(cmd, data, sig) = Made(Pkcs7(sig.of))
  <2>1. crypto_pkcs7_generate_w_already_signed_data(cmd, sig, message) = Made(Pkcs7(sig.of))
    BY <1>4 DEF crypto_pkcs7_generate_w_already_signed_data, PKCS7
  <2> QED BY <1>3, <2>1 DEF toPKCS7ForSecVar, Then, Made
<1>7. generateAuthOrPKCS7(byKey, f, NoFile) = Made(File(message))
  <2>1. CASE byKey.outForm = "a"
    <3>1. toAuth(byKey, data, NoFile) = Made(File(message))
      <4>1. LET p == toPKCS7ForSecVar(byKey, data, NoFile)
            IN  /\ p.rc = SUCCESS /\ p.out.certs = {cert} /\ p.out.signers = {cert}
                /\ p.out.signed = message
        BY <1>5 DEF Made
      <4>2. File(message) = [kind |-> "auth", time |-> byKey.time, certs |-> {cert},
                             signers |-> {cert}, signed |-> message, data |-> data]
        BY <2>1
      <4> HIDE DEF File, data, message
      <4> QED BY <4>1, <4>2 DEF toAuth, Then
    <3> QED BY <1>1, <2>1, <3>1 DEF generateAuthOrPKCS7, Then
  <2>2. CASE byKey.outForm = "p"
    BY <1>1, <1>5, <2>2 DEF generateAuthOrPKCS7, Then
  <2> QED BY <2>1, <2>2
<1>8. generateAuthOrPKCS7(cmd, f, sig) = Made(File(sig.of))
  <2>1. CASE cmd.outForm = "a"
    <3>1. toAuth(cmd, data, sig) = Made(File(sig.of))
      <4>1. LET p == toPKCS7ForSecVar(cmd, data, sig)
            IN  /\ p.rc = SUCCESS /\ p.out.certs = {cert} /\ p.out.signers = {cert}
                /\ p.out.signed = sig.of
        BY <1>6 DEF Made
      <4>2. File(sig.of) = [kind |-> "auth", time |-> cmd.time, certs |-> {cert},
                            signers |-> {cert}, signed |-> sig.of, data |-> data]
        BY <2>1
      <4> HIDE DEF File, data, message
      <4> QED BY <4>1, <4>2 DEF toAuth, Then
    <3> QED BY <1>1, <2>1, <3>1 DEF generateAuthOrPKCS7, Then
  <2>2. CASE cmd.outForm = "p"
    BY <1>1, <1>6, <2>2 DEF generateAuthOrPKCS7, Then
  <2> QED BY <2>1, <2>2
<1>9. generateAuthOrPKCS7(forX, f, NoFile).out.of = message
  BY <1>1, <1>3 DEF generateAuthOrPKCS7, toHashForSecVarSigning, Then, Made,
     crypto_md_generate_hash
<1>10. File(sig.of) = File(message) <=> sig.of = message
  OBVIOUS
<1> HIDE DEF File, message
<1> QED BY <1>7, <1>8, <1>9, <1>10 DEF Made

(* With mbedTLS, whatever the variable, the time and the input, a raw       *)
(* signature does the work of the key exactly when it is one of the digest  *)
(* that generate prints for it.                                             *)
THEOREM SignatureTheorem == Library = "mbedtls" /\ Spec => []SignatureReplacesKey
<1> SUFFICES ASSUME Library = "mbedtls" PROVE Spec => []SignatureReplacesKey
  OBVIOUS
<1>1. ResultIsOutcome => SignatureReplacesKey
  <2> DEFINE cmd   == run.cmd
             byKey == [cmd EXCEPT !.keys = cmd.certs, !.external = FALSE]
             forX  == [cmd EXCEPT !.certs = << >>, !.external = FALSE, !.outForm = "x"]
             ByKey == performGenerateCommand(run.at, byKey, run.input, NoFile)
             ForX  == performGenerateCommand(run.at, forX, run.input, NoFile)
             T(line) == Timed(line, run.at)
  <2> SUFFICES ASSUME ResultIsOutcome,
                      cmd # NoFile, cmd.external, cmd.keys = << >>,
                      cmd.outForm \in {"a", "p"},
                      run.sig # Unreadable, run.sig.kind = "sig",
                      cmd.certs = <<run.sig.cert>>, ByKey.rc = SUCCESS
               PROVE  ForX.out.of = run.sig.of <=> run.result = ByKey
    BY DEF SignatureReplacesKey
  <2>1. run # Idle
    BY DEF Idle
  <2>2. cmd \in Lines /\ run.result = performGenerateCommand(run.at, cmd, run.input, run.sig)
    BY <2>1 DEF ResultIsOutcome
  <2>3. /\ byKey \in Lines /\ forX \in Lines
        /\ byKey.inForm = cmd.inForm /\ byKey.outForm = cmd.outForm /\ byKey.var = cmd.var
        /\ byKey.time = cmd.time /\ byKey.alg = cmd.alg /\ byKey.force = cmd.force
        /\ byKey.keys = cmd.certs /\ byKey.certs = cmd.certs /\ byKey.external = FALSE
        /\ forX.inForm = cmd.inForm /\ forX.outForm = "x" /\ forX.var = cmd.var
        /\ forX.time = cmd.time /\ forX.alg = cmd.alg /\ forX.force = cmd.force
        /\ forX.keys = << >> /\ forX.certs = << >> /\ forX.external = FALSE
    <3> DEFINE keyed == [cmd EXCEPT !.keys = cmd.certs]
               bare  == [cmd EXCEPT !.certs = << >>]
               alone == [bare EXCEPT !.external = FALSE]
    <3>1. /\ keyed \in Lines /\ bare \in Lines
          /\ \A field \in DOMAIN cmd \ {"keys"} : keyed[field] = cmd[field]
          /\ \A field \in DOMAIN cmd \ {"certs"} : bare[field] = cmd[field]
          /\ keyed.keys = cmd.certs /\ bare.certs = << >>
      BY <2>2 DEF Lines
    <3>2. byKey = [keyed EXCEPT !.external = FALSE] /\ forX = [alone EXCEPT !.outForm = "x"]
      OBVIOUS
    <3>3. DOMAIN cmd = {"inForm", "outForm", "var", "time", "alg", "force", "keys", "certs",
                        "external"}
      BY <2>2 DEF Lines
    <3> HIDE DEF keyed, bare, byKey, forX
    <3>4. /\ alone \in Lines /\ alone.external = FALSE
          /\ alone.inForm = bare.inForm /\ alone.var = bare.var /\ alone.time = bare.time
          /\ alone.alg = bare.alg /\ alone.force = bare.force
          /\ alone.keys = bare.keys /\ alone.certs = bare.certs
      BY <3>1 DEF Lines
    <3> HIDE DEF alone
    <3>5. /\ forX \in Lines /\ forX.outForm = "x" /\ forX.external = FALSE
          /\ forX.inForm = alone.inForm /\ forX.var = alone.var /\ forX.time = alone.time
          /\ forX.alg = alone.alg /\ forX.force = alone.force
          /\ forX.keys = alone.keys /\ forX.certs = alone.certs
      <4>1. "x" \in Forms
        BY DEF Forms
      <4> QED BY <3>2, <3>4, <4>1 DEF Lines
    <3>6. /\ byKey \in Lines /\ byKey.external = FALSE
          /\ byKey.inForm = keyed.inForm /\ byKey.outForm = keyed.outForm
          /\ byKey.var = keyed.var /\ byKey.time = keyed.time /\ byKey.alg = keyed.alg
          /\ byKey.force = keyed.force /\ byKey.keys = keyed.keys
          /\ byKey.certs = keyed.certs
      BY <3>1, <3>2 DEF Lines
    <3> QED BY <3>1, <3>3, <3>4, <3>5, <3>6
  <2> HIDE DEF byKey, forX
  <2>4. /\ ByKey = getOutputData(run.at, byKey, run.input, NoFile)
        /\ parse_opt(byKey, run.input) = SUCCESS /\ getHashFunction(cmd.alg) = SUCCESS
        /\ ~(cmd.inForm # "r" /\ run.input = Unreadable)
    BY <2>3, GetsToOutput
  <2>5. parse_opt(cmd, run.input) = SUCCESS /\ parse_opt(forX, run.input) = SUCCESS
    BY <2>3, <2>4 DEF parse_opt, SUCCESS, ARG_PARSE_FAIL
  <2>6. run.result = getOutputData(run.at, cmd, run.input, run.sig)
    BY <2>2, <2>4, <2>5 DEF performGenerateCommand, Unless, Signatures
  <2>7. ForX = getOutputData(run.at, forX, run.input, NoFile)
    BY <2>3, <2>4, <2>5 DEF performGenerateCommand, Unless, Signatures
  <2>8. /\ ByKey = generateAuthOrPKCS7(T(byKey), run.input, NoFile)
        /\ ForX = generateAuthOrPKCS7(T(forX), run.input, NoFile)
        /\ run.result = generateAuthOrPKCS7(T(cmd), run.input, run.sig)
    BY <2>2, <2>3, <2>4, <2>6, <2>7, SigningOutput
  <2>9. /\ NewContents(T(byKey), run.input) = NewContents(T(cmd), run.input)
        /\ NewContents(T(forX), run.input) = NewContents(T(cmd), run.input)
    BY <2>2, <2>3, TimedKeeps, SameContents
  <2> DEFINE cert == run.sig.cert
  <2>10. cert \in Certs
    <3>1. T(byKey).keys = <<cert>> /\ T(byKey).outForm \in {"a", "p"}
      BY <2>3, TimedKeeps
    <3> DEFINE made == NewContents(T(byKey), run.input).out
    <3>2. toPKCS7ForSecVar(T(byKey), made, NoFile).rc = SUCCESS
      BY <2>8, <3>1 DEF generateAuthOrPKCS7, toAuth, Then
    <3>3. \E message :
            crypto_pkcs7_generate_w_signature(T(byKey), message).rc = SUCCESS
      BY <3>1, <3>2 DEF toPKCS7ForSecVar, Then
    <3> HIDE DEF T
    <3>4. T(byKey).keys[1] \in Certs
      BY <3>1, <3>3 DEF crypto_pkcs7_generate_w_signature, Failed, SUCCESS, PKCS7_FAIL
    <3> QED BY <3>1, <3>4
  <2>11. /\ T(cmd).outForm \in {"a", "p"} /\ T(byKey).outForm = T(cmd).outForm
         /\ T(forX).outForm = "x"
         /\ T(byKey).var = T(cmd).var /\ T(forX).var = T(cmd).var
         /\ T(byKey).time = T(cmd).time /\ T(forX).time = T(cmd).time
         /\ T(cmd).external /\ T(cmd).keys = << >> /\ T(byKey).keys = <<cert>>
         /\ T(cmd).certs = <<cert>> /\ T(byKey).certs = <<cert>>
    BY <2>2, <2>3, TimedKeeps
  <2> HIDE DEF T, ByKey, ForX
  <2> QED BY <2>8, <2>9, <2>10, <2>11, OneMessage
<1> QED BY <1>1, OutcomeInvariant, PTL
-----------------------------------------------------------------------------
(* Files.                                                                   *)

LEMMA FileFields ==
  ASSUME NEW f \in Files
  PROVE  /\ f.kind = "cert" => f.cert \in Certs
         /\ f.kind = "esl" => f.data \in Data
         /\ f.kind = "auth" => f.data \in Data
         /\ f.kind = "sig" => f.cert \in Certs /\ f.of \in Message
         /\ f.kind = "hash" => f.of \in Message \cup {Other}
BY DEF Files

LEMMA FilesMade ==
  /\ \A alg \in Hashes, of \in Message \cup {Other} :
       [kind |-> "hash", alg |-> alg, of |-> of] \in Files
  /\ \A data \in Data : [kind |-> "esl", data |-> data] \in Files
  /\ \A cert \in Certs, of \in Message : [kind |-> "sig", cert |-> cert, of |-> of] \in Files
  /\ \A certs, signers \in SUBSET Certs, signed \in Message :
       [kind |-> "pkcs7", certs |-> certs, signers |-> signers, signed |-> signed] \in Files
  /\ \A time \in Nat, certs, signers \in SUBSET Certs, signed \in Message, data \in Data :
       [kind |-> "auth", time |-> time, certs |-> certs, signers |-> signers,
        signed |-> signed, data |-> data] \in Files
<1>1. \A alg \in Hashes, of \in Message \cup {Other} :
        [kind |-> "hash", alg |-> alg, of |-> of] \in Files
  BY DEF Files
<1>2. \A data \in Data : [kind |-> "esl", data |-> data] \in Files
  BY DEF Files
<1>3. \A cert \in Certs, of \in Message : [kind |-> "sig", cert |-> cert, of |-> of] \in Files
  BY DEF Files
<1>4. \A certs, signers \in SUBSET Certs, signed \in Message :
        [kind |-> "pkcs7", certs |-> certs, signers |-> signers, signed |-> signed] \in Files
  BY DEF Files
<1>5. \A time \in Nat, certs, signers \in SUBSET Certs, signed \in Message, data \in Data :
        [kind |-> "auth", time |-> time, certs |-> certs, signers |-> signers,
         signed |-> signed, data |-> data] \in Files
  BY DEF Files
<1> QED BY <1>1, <1>2, <1>3, <1>4, <1>5

LEMMA ContentsAreData ==
  ASSUME NEW f \in Files
  PROVE  Contents(f) \in Data
<1>1. Opaque \in Data
  BY DEF Opaque, Data
<1> QED BY <1>1, FileFields DEF Contents

(* What a command line reads is a file, if it reads one at all.             *)
Reads(cmd, f) == f \in Files \/ cmd.inForm = "r"

(* Contents made of one file: one signature behind one header.              *)
Single(data) ==
  \E type \in {"X509", "SHA"}, sig \in Certs \cup Hashes \cup Junk : data = toESL(type, sig)

LEMMA SingleIsData ==
  ASSUME NEW data, Single(data)
  PROVE  /\ data \in Data /\ data.size >= MinESL
         /\ data.esls # << >> /\ Len(data.esls) = 1
         /\ data.esls[1] \in ESL /\ data.esls[1].size = data.size
<1>1. PICK type \in {"X509", "SHA"}, sig \in Certs \cup Hashes \cup Junk :
        data = toESL(type, sig)
  BY DEF Single
<1> DEFINE size == MinESL + Length[sig]
           esl  == [type |-> type, size |-> size, sig |-> sig]
<1>2. size \in Nat /\ size >= MinESL
  <2>1. Length[sig] \in Nat
    BY LengthAssumption
  <2> QED BY <2>1 DEF MinESL, ListHeader
<1>3. data = [size |-> size, esls |-> <<esl>>]
  BY <1>1 DEF toESL
<1> HIDE DEF size
<1>4. esl \in ESL /\ esl.size = size
  BY <1>2 DEF ESL
<1> HIDE DEF esl
<1>5. /\ <<esl>> \in Seq(ESL) /\ <<esl>> # << >> /\ Len(<<esl>>) = 1
      /\ <<esl>>[1] = esl
  BY <1>4
<1> QED BY <1>2, <1>3, <1>4, <1>5 DEF Data

LEMMA InsideIsKnown ==
  ASSUME NEW f, NEW alg \in Hashes
  PROVE  Inside(f, alg) \in Hashes \cup Junk
<1>1. (CHOOSE j \in Junk : TRUE) \in Junk
  BY LengthAssumption
<1> QED BY <1>1 DEF Inside

LEMMA ESLIsMade ==
  ASSUME NEW cmd, NEW f, Reads(cmd, f), cmd.alg \in Hashes,
         generateESL(cmd, f).rc = SUCCESS
  PROVE  /\ generateESL(cmd, f).out \in Data
         /\ cmd.inForm \in {"f", "h", "c"} => Single(generateESL(cmd, f).out)
<1> DEFINE made == generateESL(cmd, f).out
<1>1. CASE cmd.inForm \in {"f", "h"}
  <2>1. PICK g : made = toESL("SHA", Inside(g, cmd.alg))
    BY <1>1 DEF generateESL, Unless, Made, Failed, SUCCESS, HASH_FAIL
  <2>2. Single(made)
    <3>1. Inside(g, cmd.alg) \in Hashes \cup Junk
      BY InsideIsKnown
    <3> HIDE DEF made
    <3> QED BY <2>1, <3>1 DEF Single
  <2> QED BY <2>2, SingleIsData
<1>2. CASE cmd.inForm = "c"
  <2>1. crypto_convert_pem_to_der(f) = SUCCESS /\ made = toESL("X509", f.cert)
    BY <1>2 DEF generateESL, Unless, Made, Failed
  <2>2. f.kind = "cert" /\ f \in Files
    BY <1>2, <2>1 DEF crypto_convert_pem_to_der, SUCCESS, Reads
  <2>3. Single(made)
    <3>1. f.cert \in Certs
      BY <2>2, FileFields
    <3> HIDE DEF made
    <3> QED BY <2>1, <3>1 DEF Single
  <2> QED BY <2>3, SingleIsData
<1>3. CASE cmd.inForm = "a"
  <2>1. authToESL(f).rc = SUCCESS /\ made = authToESL(f).out
    BY <1>3 DEF generateESL, Unless, Failed
  <2>2. f.kind = "auth" /\ f \in Files /\ made = f.data
    BY <1>3, <2>1 DEF authToESL, Made, Failed, SUCCESS, AUTH_FAIL, Reads
  <2> QED BY <1>3, <2>2, FileFields
<1>4. CASE cmd.inForm \notin {"f", "h", "c", "a"}
  BY <1>4 DEF generateESL, Failed, SUCCESS, ARG_PARSE_FAIL
<1> QED BY <1>1, <1>2, <1>3, <1>4

LEMMA NewContentsAre ==
  ASSUME NEW cmd, NEW f, Reads(cmd, f), cmd.alg \in Hashes,
         NewContents(cmd, f).rc = SUCCESS
  PROVE  /\ NewContents(cmd, f).out \in Data
         /\ cmd.inForm \in {"f", "h", "c", "e", "r"}
         /\ cmd.inForm \in {"f", "h", "c"} => Single(NewContents(cmd, f).out)
         /\ cmd.inForm = "r" => NewContents(cmd, f).out = NoData
<1> DEFINE made == NewContents(cmd, f).out
<1>1. CASE cmd.inForm = "r"
  <2>1. made = NoData
    BY <1>1 DEF NewContents, Made
  <2>2. NoData \in Data
    BY DEF NoData, Data
  <2> QED BY <1>1, <2>1, <2>2
<1>2. CASE cmd.inForm = "e"
  <2>1. made = Contents(f) /\ f \in Files
    BY <1>2 DEF NewContents, Then, Unless, Made, Failed, Reads
  <2> QED BY <1>2, <2>1, ContentsAreData
<1>3. CASE cmd.inForm \in {"f", "h", "c"}
  <2>1. generateESL(cmd, f).rc = SUCCESS /\ made = generateESL(cmd, f).out
    BY <1>3 DEF NewContents, Then, Unless, Made, Failed
  <2> QED BY <1>3, <2>1, ESLIsMade
<1>4. CASE cmd.inForm \notin {"f", "h", "c", "e", "r"}
  BY <1>4 DEF NewContents, Failed, SUCCESS, ARG_PARSE_FAIL
<1> QED BY <1>1, <1>2, <1>3, <1>4
-----------------------------------------------------------------------------
(* Signing.                                                                 *)

(* Certificates and keys go in pairs, so that who has signed is who is in   *)
(* the file.                                                                *)
LEMMA PairsAreEqual ==
  ASSUME NEW cmd \in Lines, Len(cmd.certs) = Len(cmd.keys),
         \A i \in DOMAIN cmd.keys : cmd.keys[i] \in Certs /\ cmd.keys[i] = cmd.certs[i]
  PROVE  /\ Elements(cmd.keys) = Elements(cmd.certs) /\ Elements(cmd.certs) \subseteq Certs
         /\ cmd.keys # << >> => Elements(cmd.certs) # {}
<1>1. cmd.keys \in Seq(Certs \cup Junk) /\ cmd.certs \in Seq(Certs \cup Junk)
  BY DEF Lines
<1>2. DOMAIN cmd.keys = 1..Len(cmd.keys) /\ DOMAIN cmd.certs = DOMAIN cmd.keys
  BY <1>1
<1>3. cmd.keys # << >> => 1 \in DOMAIN cmd.keys
  BY <1>1
<1> QED BY <1>2, <1>3 DEF Elements

(* What is signed of a pkcs7, and by whom.                                  *)
LEMMA Pkcs7IsFile ==
  ASSUME NEW cmd \in Lines, NEW data \in Data, NEW sig,
         cmd.external => sig \in Files \cup {Unreadable},
         ~(cmd.external /\ cmd.keys # << >>), Len(cmd.certs) = Signatures(cmd),
         cmd.time \in Nat, toPKCS7ForSecVar(cmd, data, sig).rc = SUCCESS
  PROVE  LET pkcs7 == toPKCS7ForSecVar(cmd, data, sig).out
         IN  /\ cmd.var \in Keys
             /\ pkcs7.certs = Elements(cmd.certs) /\ pkcs7.certs \subseteq Certs
             /\ pkcs7.signers \subseteq Certs /\ pkcs7.signed \in Message
             /\ pkcs7 = [kind |-> "pkcs7", certs |-> pkcs7.certs,
                         signers |-> pkcs7.signers, signed |-> pkcs7.signed]
             /\ cmd.keys # << >> =>
                  /\ pkcs7.signers = pkcs7.certs /\ pkcs7.certs # {}
                  /\ pkcs7.signed = get_hash_to_verify(cmd.var, data, cmd.time)
<1> DEFINE message == [key |-> cmd.var, data |-> data, time |-> cmd.time]
<1>1. cmd.var \in Keys
  BY DEF toPKCS7ForSecVar, Then, getPreHashForSecVar, Failed, SUCCESS, ARG_PARSE_FAIL
<1>2. getPreHashForSecVar(cmd, data) = Made(message)
  BY <1>1 DEF getPreHashForSecVar
<1>3. message \in Message /\ message = get_hash_to_verify(cmd.var, data, cmd.time)
  BY <1>1 DEF Message, get_hash_to_verify
<1> HIDE DEF message
<1>4. CASE cmd.keys # << >>
  <2>1. toPKCS7ForSecVar(cmd, data, sig) = crypto_pkcs7_generate_w_signature(cmd, message)
    BY <1>2, <1>4 DEF toPKCS7ForSecVar, Then, Made
  <2>2. \A i \in DOMAIN cmd.keys : cmd.keys[i] \in Certs /\ cmd.keys[i] = cmd.certs[i]
    BY <2>1 DEF crypto_pkcs7_generate_w_signature, Failed, SUCCESS, PKCS7_FAIL
  <2>3. Len(cmd.certs) = Len(cmd.keys)
    <3>1. ~cmd.external /\ Len(cmd.keys) \in Nat
      BY <1>4 DEF Lines
    <3>2. Signatures(cmd) = Len(cmd.keys) + 0
      BY <3>1 DEF Signatures
    <3> QED BY <3>1, <3>2
  <2>4. /\ Elements(cmd.keys) = Elements(cmd.certs) /\ Elements(cmd.certs) \subseteq Certs
        /\ Elements(cmd.certs) # {}
    BY <1>4, <2>2, <2>3, PairsAreEqual
  <2>5. toPKCS7ForSecVar(cmd, data, sig).out
          = [kind |-> "pkcs7", certs |-> Elements(cmd.certs), signers |-> Elements(cmd.keys),
             signed |-> message]
    BY <2>1, <2>2 DEF crypto_pkcs7_generate_w_signature, PKCS7, Made
  <2> QED BY <1>1, <1>3, <2>4, <2>5
<1>5. CASE cmd.keys = << >>
  <2>1. toPKCS7ForSecVar(cmd, data, sig)
          = crypto_pkcs7_generate_w_already_signed_data(cmd, sig, message)
    BY <1>2, <1>5 DEF toPKCS7ForSecVar, Then, Made
  <2>2. cmd.external /\ sig # Unreadable /\ Elements(cmd.certs) \subseteq Certs
    BY <2>1 DEF crypto_pkcs7_generate_w_already_signed_data, Failed, SUCCESS, PKCS7_FAIL
  <2>3. sig.kind = "sig" => sig.cert \in Certs /\ sig.of \in Message
    BY <2>2, FileFields
  <2>4. \E signers \in SUBSET Certs, signed \in Message :
          toPKCS7ForSecVar(cmd, data, sig).out
            = [kind |-> "pkcs7", certs |-> Elements(cmd.certs), signers |-> signers,
               signed |-> signed]
    <3>1. CASE sig.kind = "sig"
      <4>1. toPKCS7ForSecVar(cmd, data, sig).out
              = [kind |-> "pkcs7", certs |-> Elements(cmd.certs), signers |-> {sig.cert},
                 signed |-> sig.of]
        BY <2>1, <2>2, <3>1 DEF crypto_pkcs7_generate_w_already_signed_data, PKCS7, Made, Failed,
           SUCCESS, PKCS7_FAIL
      <4> QED BY <2>3, <3>1, <4>1
    <3>2. CASE sig.kind # "sig"
      <4>1. toPKCS7ForSecVar(cmd, data, sig).out
              = [kind |-> "pkcs7", certs |-> Elements(cmd.certs), signers |-> {},
                 signed |-> message]
        BY <2>1, <2>2, <3>2 DEF crypto_pkcs7_generate_w_already_signed_data, PKCS7, Made, Failed,
           SUCCESS, PKCS7_FAIL
      <4> QED BY <1>3, <4>1
    <3> QED BY <3>1, <3>2
  <2> QED BY <1>1, <1>5, <2>2, <2>4
<1> QED BY <1>4, <1>5

(* What getOutputData is reached with.                                      *)
Ready(now, cmd, f, sig) ==
  /\ now \in Nat \ {0} /\ cmd \in Lines /\ cmd.time # 0 /\ cmd.alg \in Hashes
  /\ Reads(cmd, f) /\ (cmd.external => sig \in Files \cup {Unreadable})
  /\ ~(cmd.external /\ cmd.keys # << >>) /\ Len(cmd.certs) = Signatures(cmd)

LEMMA TimedIsReady ==
  ASSUME NEW now, NEW cmd, NEW f, NEW sig, Ready(now, cmd, f, sig)
  PROVE  LET timed == Timed(cmd, now)
         IN  /\ timed \in Lines /\ timed.time \in Nat \ {0} /\ timed.alg \in Hashes
             /\ Reads(timed, f) /\ (timed.external => sig \in Files \cup {Unreadable})
             /\ ~(timed.external /\ timed.keys # << >>)
             /\ Len(timed.certs) = Signatures(timed)
<1> DEFINE timed == Timed(cmd, now)
<1>1. cmd \in Lines /\ now \in Nat
  BY DEF Ready
<1>2. timed \in Lines
  BY <1>1 DEF Timed, Lines
<1>3. timed.time \in Nat \ {0}
  <2>1. cmd.time \in Nat \cup {NoTime} /\ cmd.time # 0
    BY <1>1 DEF Lines, Ready
  <2> QED BY <1>1, <2>1, TimedKeeps DEF Ready
<1>4. /\ timed.alg = cmd.alg /\ timed.inForm = cmd.inForm /\ timed.external = cmd.external
      /\ timed.keys = cmd.keys /\ timed.certs = cmd.certs
  BY <1>1, TimedKeeps
<1>5. Signatures(timed) = Signatures(cmd)
  <2> HIDE DEF timed
  <2> QED BY <1>4 DEF Signatures
<1>6. Reads(timed, f)
  BY <1>4 DEF Ready, Reads
<1>7. /\ timed.alg \in Hashes /\ (timed.external => sig \in Files \cup {Unreadable})
      /\ ~(timed.external /\ timed.keys # << >>) /\ Len(timed.certs) = Signatures(timed)
  <2> HIDE DEF timed
  <2> QED BY <1>4, <1>5 DEF Ready
<1> QED BY <1>2, <1>3, <1>6, <1>7

-----------------------------------------------------------------------------
(* Every result is a file.                                                  *)

LEMMA AuthOf ==
  ASSUME NEW cmd, NEW data, NEW sig, toAuth(cmd, data, sig).rc = SUCCESS
  PROVE  LET pkcs7 == toPKCS7ForSecVar(cmd, data, sig)
         IN  /\ pkcs7.rc = SUCCESS
             /\ toAuth(cmd, data, sig).out
                  = [kind |-> "auth", time |-> cmd.time, certs |-> pkcs7.out.certs,
                     signers |-> pkcs7.out.signers, signed |-> pkcs7.out.signed,
                     data |-> data]
BY DEF toAuth, Then, Made

LEMMA SignedIsFile ==
  ASSUME NEW now, NEW cmd, NEW f, NEW sig, Ready(now, cmd, f, sig),
         generateAuthOrPKCS7(Timed(cmd, now), f, sig).rc = SUCCESS
  PROVE  generateAuthOrPKCS7(Timed(cmd, now), f, sig).out \in Files
<1> DEFINE timed == Timed(cmd, now)
           data  == NewContents(timed, f).out
<1>1. /\ timed \in Lines /\ timed.time \in Nat /\ timed.alg \in Hashes
      /\ Reads(timed, f) /\ (timed.external => sig \in Files \cup {Unreadable})
      /\ ~(timed.external /\ timed.keys # << >>)
      /\ Len(timed.certs) = Signatures(timed)
  BY TimedIsReady
<1> HIDE DEF timed
<1>2. NewContents(timed, f).rc = SUCCESS
  BY DEF generateAuthOrPKCS7, Then, timed
<1>3. data \in Data
  BY <1>1, <1>2, NewContentsAre
<1> HIDE DEF data
<1>4. generateAuthOrPKCS7(timed, f, sig)
        = IF timed.outForm = "a" THEN toAuth(timed, data, sig)
          ELSE IF timed.outForm = "x" THEN toHashForSecVarSigning(timed, data)
          ELSE toPKCS7ForSecVar(timed, data, sig)
  BY <1>2 DEF generateAuthOrPKCS7, Then, data
<1> DEFINE result == generateAuthOrPKCS7(timed, f, sig)
<1>5. result.rc = SUCCESS
  BY DEF timed
<1> HIDE DEF result
<1>6. result.out \in Files
  <2>1. CASE timed.outForm = "a"
    <3>1. toAuth(timed, data, sig).rc = SUCCESS /\ result = toAuth(timed, data, sig)
      BY <1>4, <1>5, <2>1 DEF result
    <3> DEFINE pkcs7 == toPKCS7ForSecVar(timed, data, sig).out
    <3>2. /\ toPKCS7ForSecVar(timed, data, sig).rc = SUCCESS
          /\ result.out = [kind |-> "auth", time |-> timed.time, certs |-> pkcs7.certs,
                           signers |-> pkcs7.signers, signed |-> pkcs7.signed, data |-> data]
      BY <3>1, AuthOf
    <3>3. /\ pkcs7.certs \in SUBSET Certs /\ pkcs7.signers \in SUBSET Certs
          /\ pkcs7.signed \in Message
      BY <1>1, <1>3, <3>2, Pkcs7IsFile
    <3> HIDE DEF pkcs7
    <3> QED BY <1>1, <1>3, <3>2, <3>3, FilesMade
  <2>2. CASE timed.outForm = "x"
    <3>1. result = toHashForSecVarSigning(timed, data)
      BY <1>4, <2>2 DEF result
    <3> DEFINE message == [key |-> timed.var, data |-> data, time |-> timed.time]
    <3>2. timed.var \in Keys
      BY <1>5, <3>1 DEF toHashForSecVarSigning, getPreHashForSecVar, Then, Failed, SUCCESS,
         ARG_PARSE_FAIL
    <3>3. message \in Message
      BY <1>1, <1>3, <3>2 DEF Message
    <3>4. result.out = [kind |-> "hash", alg |-> "SHA256", of |-> message]
      BY <3>1, <3>2 DEF toHashForSecVarSigning, getPreHashForSecVar, Then, Made,
         crypto_md_generate_hash
    <3> HIDE DEF message
    <3> QED BY <3>3, <3>4, FilesMade, FilesAssumption
  <2>3. CASE timed.outForm \notin {"a", "x"}
    <3> DEFINE pkcs7 == toPKCS7ForSecVar(timed, data, sig).out
    <3>1. result.out = pkcs7 /\ toPKCS7ForSecVar(timed, data, sig).rc = SUCCESS
      BY <1>4, <1>5, <2>3 DEF result
    <3>2. /\ pkcs7.certs \in SUBSET Certs /\ pkcs7.signers \in SUBSET Certs
          /\ pkcs7.signed \in Message
          /\ pkcs7 = [kind |-> "pkcs7", certs |-> pkcs7.certs, signers |-> pkcs7.signers,
                      signed |-> pkcs7.signed]
      BY <1>1, <1>3, <3>1, Pkcs7IsFile
    <3> HIDE DEF pkcs7
    <3> QED BY <3>1, <3>2, FilesMade
  <2> QED BY <2>1, <2>2, <2>3
<1> QED BY <1>6 DEF result, timed

LEMMA OutputIsFile ==
  ASSUME NEW now, NEW cmd, NEW f, NEW sig, Ready(now, cmd, f, sig),
         getOutputData(now, cmd, f, sig).rc = SUCCESS
  PROVE  getOutputData(now, cmd, f, sig).out \in Files
<1> DEFINE result == getOutputData(now, cmd, f, sig)
<1>1. cmd \in Lines /\ cmd.alg \in Hashes /\ Reads(cmd, f)
  BY DEF Ready
<1>2. CASE cmd.outForm = "h"
  <2>1. result.out = [kind |-> "hash", alg |-> cmd.alg, of |-> Other]
    <3>1. result = generateHash(cmd, f)
      BY <1>2 DEF getOutputData
    <3> HIDE DEF result
    <3>2. result.rc = SUCCESS
      BY DEF result
    <3> QED BY <3>1, <3>2 DEF generateHash, Unless, Made, Failed, crypto_md_generate_hash
  <2> QED BY <1>1, <2>1, FilesMade
<1>3. CASE cmd.outForm = "e"
  <2> DEFINE data == generateESL(cmd, f).out
  <2>1. /\ generateESL(cmd, f).rc = SUCCESS
        /\ result.out = [kind |-> "esl", data |-> data]
    BY <1>3 DEF getOutputData, Then, Made
  <2>2. data \in Data
    BY <1>1, <2>1, ESLIsMade
  <2> HIDE DEF data
  <2> QED BY <2>1, <2>2, FilesMade
<1>4. CASE cmd.outForm \in {"a", "p", "x"}
  BY <1>1, <1>4, SigningOutput, SignedIsFile
<1>5. CASE cmd.outForm \notin {"h", "e", "a", "p", "x"}
  BY <1>5 DEF getOutputData, Failed, SUCCESS, CERT_FAIL, ARG_PARSE_FAIL
<1> QED BY <1>2, <1>3, <1>4, <1>5

(* What a command that succeeds was given.                                  *)
Chosen(cmd, input, sig) ==
  /\ cmd \in Commands
  /\ input \in IF cmd.inForm = "r" THEN {NoFile} ELSE files \cup {NoFile, Unreadable}
  /\ sig \in IF cmd.external THEN files \cup {Unreadable} ELSE {NoFile}

LEMMA SuccessIsReady ==
  ASSUME NEW now \in Nat \ {0}, NEW cmd, NEW f, NEW sig, files \subseteq Files,
         Chosen(cmd, f, sig), performGenerateCommand(now, cmd, f, sig).rc = SUCCESS
  PROVE  /\ Ready(now, cmd, f, sig)
         /\ performGenerateCommand(now, cmd, f, sig).out \in Files
<1>1. /\ performGenerateCommand(now, cmd, f, sig) = getOutputData(now, cmd, f, sig)
      /\ parse_opt(cmd, f) = SUCCESS /\ getHashFunction(cmd.alg) = SUCCESS
      /\ ~(cmd.inForm # "r" /\ f = Unreadable)
  BY GetsToOutput
<1>2. cmd \in Lines
  BY CommandsAssumption DEF Chosen
<1>3. /\ ~(cmd.external /\ cmd.keys # << >>) /\ cmd.time # 0
      /\ ~(cmd.inForm # "r" /\ f = NoFile)
  BY <1>1 DEF parse_opt, SUCCESS, ARG_PARSE_FAIL
<1>4. cmd.alg \in Hashes
  BY <1>1 DEF getHashFunction, SUCCESS, ARG_PARSE_FAIL
<1>5. Len(cmd.certs) = Signatures(cmd)
  BY <1>1 DEF performGenerateCommand, Unless, Failed, SUCCESS, ARG_PARSE_FAIL
<1>6. Reads(cmd, f) /\ (cmd.external => sig \in Files \cup {Unreadable})
  BY <1>1, <1>3 DEF Chosen, Reads
<1>7. Ready(now, cmd, f, sig)
  BY <1>2, <1>3, <1>4, <1>5, <1>6 DEF Ready
<1> QED BY <1>1, <1>7, OutputIsFile

(* The invariant: every file is one, and a command that succeeded got all   *)
(* that is asked of it first.                                               *)
GInv ==
  /\ TypeOK
  /\ run # Idle /\ run.result.rc = SUCCESS =>
       Ready(run.at, run.cmd, run.input, run.sig)

THEOREM GInvariant == Spec => []GInv
<1>1. Init => GInv
  BY FilesAssumption, BoundsAssumption DEF Init, GInv, TypeOK
<1>2. GInv /\ [Next]_vars => GInv'
  <2> SUFFICES ASSUME GInv, [Next]_vars PROVE GInv'
    OBVIOUS
  <2>1. /\ files \subseteq Files /\ clock \in 1..MaxClock /\ runs \in 0..MaxRuns
        /\ clock \in Nat \ {0} /\ MaxRuns \in Nat /\ MaxClock \in Nat
    BY BoundsAssumption DEF GInv, TypeOK
  <2>2. CASE \E cmd, input, sig : Chosen(cmd, input, sig) /\ Run(cmd, input, sig)
    <3>1. PICK cmd, input, sig : Chosen(cmd, input, sig) /\ Run(cmd, input, sig)
      BY <2>2
    <3> DEFINE result == performGenerateCommand(clock, cmd, input, sig)
    <3>2. result.rc = SUCCESS => Ready(clock, cmd, input, sig) /\ result.out \in Files
      BY <2>1, <3>1, SuccessIsReady
    <3>3. /\ clock' = clock /\ runs < MaxRuns /\ runs' = runs + 1
          /\ files' = IF result.rc = SUCCESS THEN files \cup {result.out} ELSE files
      BY <3>1 DEF Run
    <3>4. /\ run'.cmd = cmd /\ run'.input = input /\ run'.sig = sig /\ run'.at = clock
          /\ run'.result = result
      BY <3>1, RunIsRecord
    <3> HIDE DEF result
    <3>5. TypeOK'
      BY <2>1, <3>2, <3>3 DEF TypeOK
    <3>6. run'.result.rc = SUCCESS => Ready(run'.at, run'.cmd, run'.input, run'.sig)
      BY <3>2, <3>4
    <3> QED BY <3>5, <3>6 DEF GInv, Ready, Reads
  <2>3. CASE \E cert \in Holders, digest \in files : Sign(cert, digest)
    <3>1. PICK cert \in Holders, digest \in files : Sign(cert, digest)
      BY <2>3
    <3>2. /\ digest.of \in Message /\ cert \in Certs /\ run' = Idle
          /\ files' = files \cup {[kind |-> "sig", cert |-> cert, of |-> digest.of]}
          /\ UNCHANGED <<clock, runs>>
      BY <2>1, <3>1, FileFields, FilesAssumption DEF Sign
    <3>3. TypeOK'
      BY <2>1, <3>2, FilesMade DEF TypeOK
    <3> QED BY <3>2, <3>3 DEF GInv, Idle
  <2>4. CASE Tick
    <3>1. /\ clock < MaxClock /\ clock' = clock + 1 /\ run' = Idle
          /\ UNCHANGED <<files, runs>>
      BY <2>4 DEF Tick
    <3>2. TypeOK'
      BY <2>1, <3>1 DEF TypeOK
    <3> QED BY <3>1, <3>2 DEF GInv, Idle
  <2>5. CASE UNCHANGED vars
    BY <2>5 DEF vars, GInv, TypeOK, Idle, Ready, Reads
  <2> QED BY <2>2, <2>3, <2>4, <2>5 DEF Next, Chosen
<1> QED BY <1>1, <1>2, PTL DEF Spec

(* No command makes anything but a file of one of the kinds of Files, with  *)
(* signatures of a variable's contents with a time (getOutputData, 373-412; *)
(* generateAuthOrPKCS7, 425-490).                                           *)
THEOREM TypeInvariant == Spec => []TypeOK
<1>1. GInv => TypeOK
  BY DEF GInv
<1> QED BY <1>1, GInvariant, PTL

-----------------------------------------------------------------------------
(* What was made, as the firmware sees it.                                  *)

(* The bank is searched by position, from the head.                         *)
NatOrder == {p \in Nat \X Nat : p[1] < p[2]}

LEMMA MinOfNats ==
  ASSUME NEW S \in SUBSET Nat, S # {}
  PROVE  Min(S) \in S /\ \A n \in S : Min(S) <= n
<1>1. IsWellFoundedOn(NatOrder, Nat)
  BY NatLessThanWellFounded DEF OpToRel, NatOrder
<1>2. PICK m \in S : \A n \in S : ~(<<n, m>> \in NatOrder)
  BY <1>1, WFMin
<1>3. \A n \in S : m <= n
  <2> TAKE n \in S
  <2>1. <<n, m>> \in Nat \X Nat /\ <<n, m>>[1] = n /\ <<n, m>>[2] = m
    BY SMT
  <2>2. ~(n < m)
    BY <1>2, <2>1 DEF NatOrder
  <2> QED BY <2>2
<1> QED BY <1>3 DEF Min

LEMMA FoundInBank ==
  ASSUME NEW k \in Keys, HasVar(k, Bank)
  PROVE  /\ find_secvar(k, Bank).data \in Data
         /\ find_secvar(k, Bank).data.esls # << >> => find_secvar(k, Bank).data.size > 0
<1> DEFINE S == {i \in DOMAIN Bank : Bank[i].key = k}
<1>1. S \in SUBSET Nat /\ S # {} /\ Bank \in Seq(SecVar)
  BY BankAssumption DEF HasVar
<1>2. FirstAt(k, Bank) \in S
  BY <1>1, MinOfNats DEF FirstAt
<1> DEFINE v == find_secvar(k, Bank)
<1>3. v \in SecVar /\ v.key = k /\ (v.data.esls # << >> => v.data.size > 0)
  BY <1>1, <1>2, BankAssumption DEF find_secvar
<1> HIDE DEF v
<1>4. v.data \in Data
  BY <1>3 DEF SecVar, KeyVar, TSVar, Keys
<1> QED BY <1>3, <1>4 DEF v

(* An ESL made here is the whole of its list, and its loop turns once.      *)
LEMMA SinglePasses ==
  ASSUME NEW data, Single(data), NEW key \in Keys,
         validateESL(data, key) = SUCCESS
  PROVE  validate_esl_list(key, data) = 1
<1> DEFINE first == data.esls[1]
           size  == data.size
<1>1. /\ size \in Nat /\ size >= MinESL /\ first.size = size
  BY SingleIsData DEF Data
<1>2. GoodESL(key, first)
  BY StrongAssumption
     DEF validateESL, validateSingularESL, validateCertStruct, GoodESL, SUCCESS, ESL_FAIL
<1>3. (size - ListHeader) \div size = 0
  <2> HIDE DEF size
  <2>1. \A s, x \in Nat : x < s => x \div s = 0
    BY SMT
  <2>2. size \in Nat /\ size - ListHeader \in Nat /\ size - ListHeader < size
    BY <1>1 DEF MinESL, ListHeader
  <2> QED BY <2>1, <2>2
<1> HIDE DEF first, size
<1>4. validate_esl_list(key, data)
        = LET count == (size - ListHeader) \div first.size + 1
              left  == size - (count - 1) * first.size
          IN  IF size < ListHeader THEN 0
              ELSE IF \/ ~GoodESL(key, first)
                      \/ left < MinESL
                      \/ key = "PK" /\ count > 1
                   THEN OPAL_PARAMETER
                   ELSE count
  BY DEF validate_esl_list, first, size
<1>5. ~(size < ListHeader) /\ ~(size - (0 + 1 - 1) * size < MinESL)
  BY <1>1 DEF MinESL, ListHeader
<1> QED BY <1>1, <1>2, <1>3, <1>4, <1>5

(* A bank in which one of the update's signers is entitled to the variable  *)
(* has an authority that ends its search with that signer's certificate.    *)
LEMMA EntitledVerifies ==
  ASSUME NEW key \in Keys, NEW auth, NEW message, NEW cert \in Entitled(key),
         auth.signers \subseteq Certs, cert \in auth.signers, auth.signed = message
  PROVE  \E i \in Consulted(key, Bank) :
           verify_signature(auth, message,
             find_secvar(get_key_authority(key)[i], Bank).data) = OPAL_SUCCESS
<1> DEFINE names == get_key_authority(key)
<1>1. PICK k \in Elements(names) :
        /\ HasVar(k, Bank)
        /\ LET esls == find_secvar(k, Bank).data.esls
           IN  \E i \in DOMAIN esls : /\ esls[i].sig = cert
                                      /\ \A j \in 1..(i - 1) : esls[j].sig \in Certs
  BY DEF Entitled
<1>2. PICK n \in DOMAIN names : names[n] = k
  BY DEF Elements
<1>3. k \in Keys
  BY <1>2 DEF get_key_authority, Keys
<1> DEFINE data == find_secvar(k, Bank).data
           esls == data.esls
<1>4. data \in Data /\ (esls # << >> => data.size > 0)
  BY <1>1, <1>3, FoundInBank
<1>5. PICK i \in DOMAIN esls : esls[i].sig = cert /\ \A j \in 1..(i - 1) : esls[j].sig \in Certs
  BY <1>1
<1>6. esls \in Seq(ESL) /\ esls # << >>
  <2>1. esls \in Seq(ESL)
    BY <1>4 DEF Data
  <2> QED BY <1>5, <2>1
<1>7. n \in Consulted(key, Bank)
  BY <1>1, <1>2, <1>4, <1>6 DEF Consulted
<1>8. cert \in Certs
  OBVIOUS
<1> DEFINE Signed(j) == crypto_pkcs7_signed_hash_verify(auth, esls[j].sig, message)
           decisive  == {j \in DOMAIN esls : esls[j].sig \in Certs => Signed(j)}
<1>9. i \in decisive /\ decisive \in SUBSET Nat
  BY <1>5, <1>6 DEF crypto_pkcs7_signed_hash_verify
<1>10. Min(decisive) \in decisive /\ Min(decisive) <= i
  BY <1>9, MinOfNats
<1>11. esls[Min(decisive)].sig \in Certs
  <2>1. Min(decisive) \in Nat /\ i \in Nat /\ Min(decisive) >= 1
    BY <1>6, <1>9, <1>10
  <2> HIDE DEF decisive
  <2>2. Min(decisive) = i \/ Min(decisive) \in 1..(i - 1)
    BY <1>10, <2>1
  <2> QED BY <1>5, <1>8, <2>2
<1>12. verify_signature(auth, message, data) = OPAL_SUCCESS
  BY <1>6, <1>9, <1>11 DEF verify_signature
<1> QED BY <1>2, <1>7, <1>12

LEMMA SignedIsAccepted ==
  ASSUME NEW update, NEW time \in Nat \ {0}, NEW data,
         update.key \in Keys, update.data.time = time, update.data.data = data,
         update.data.signers \subseteq Certs,
         update.data.signed = get_hash_to_verify(update.key, data, time),
         update.data.signers \cap Entitled(update.key) # {},
         validate_esl_list(update.key, data) \in Nat
  PROVE  process_update(update, Bank, <<0, 0, 0, 0>>, FALSE) = OPAL_SUCCESS
<1> DEFINE key     == update.key
           auth    == update.data
           message == get_hash_to_verify(key, data, time)
           tried   == Consulted(key, Bank)
           Try(i)  == verify_signature(auth, message,
                        find_secvar(get_key_authority(key)[i], Bank).data)
<1>1. check_timestamp(key, time, <<0, 0, 0, 0>>) = OPAL_SUCCESS
  <2>1. get_last_timestamp(key) \in 1..4
    BY DEF get_last_timestamp, Keys
  <2>2. <<0, 0, 0, 0>>[get_last_timestamp(key)] = 0
    BY <2>1
  <2> QED BY <2>2 DEF check_timestamp
<1>2. \E i \in tried : Try(i) = OPAL_SUCCESS
  BY EntitledVerifies
<1>3. tried # {} /\ ~(validate_esl_list(key, data) < 0)
  BY <1>2
<1> HIDE DEF tried, Try, message
<1>4. process_update(update, Bank, <<0, 0, 0, 0>>, FALSE)
        = IF \E i \in tried : Try(i) = OPAL_SUCCESS THEN OPAL_SUCCESS ELSE Try(Max(tried))
  BY <1>1, <1>3 DEF process_update, tried, Try, message
<1> QED BY <1>2, <1>4

(* An update made of one certificate, digest or nothing with keys at hand.  *)
LEMMA MadeWithKeys ==
  ASSUME NEW now, NEW cmd, NEW f, NEW sig, Ready(now, cmd, f, sig),
         cmd.outForm = "a", cmd.inForm # "e", cmd.keys # << >>,
         getOutputData(now, cmd, f, sig).rc = SUCCESS
  PROVE  LET out == getOutputData(now, cmd, f, sig).out
         IN  /\ out = [kind |-> "auth", time |-> out.time, certs |-> Elements(cmd.certs),
                       signers |-> Elements(cmd.certs), data |-> out.data,
                       signed |-> get_hash_to_verify(cmd.var, out.data, out.time)]
             /\ cmd.var \in Keys /\ out.time \in Nat \ {0} /\ out.data \in Data
             /\ Elements(cmd.certs) # {} /\ Elements(cmd.certs) \subseteq Certs
             /\ IF cmd.inForm = "r" THEN out.data = NoData ELSE Single(out.data)
<1> DEFINE timed == Timed(cmd, now)
           data  == NewContents(timed, f).out
           out   == getOutputData(now, cmd, f, sig).out
           pkcs7 == toPKCS7ForSecVar(timed, data, sig).out
<1>1. /\ timed \in Lines /\ timed.time \in Nat \ {0} /\ timed.alg \in Hashes
      /\ Reads(timed, f) /\ (timed.external => sig \in Files \cup {Unreadable})
      /\ ~(timed.external /\ timed.keys # << >>)
      /\ Len(timed.certs) = Signatures(timed)
  BY TimedIsReady
<1>2. /\ timed.outForm = "a" /\ timed.inForm = cmd.inForm /\ timed.var = cmd.var
      /\ timed.keys = cmd.keys /\ timed.certs = cmd.certs
  BY TimedKeeps DEF Ready
<1>3. getOutputData(now, cmd, f, sig) = generateAuthOrPKCS7(timed, f, sig)
  BY SigningOutput DEF Ready
<1> HIDE DEF timed, data, out, pkcs7
<1>4. NewContents(timed, f).rc = SUCCESS
  BY <1>3 DEF generateAuthOrPKCS7, Then
<1>5. /\ data \in Data
      /\ IF cmd.inForm = "r" THEN data = NoData ELSE Single(data)
  BY <1>1, <1>2, <1>4, NewContentsAre DEF data
<1>6. /\ toAuth(timed, data, sig).rc = SUCCESS
      /\ out = toAuth(timed, data, sig).out
  BY <1>2, <1>3, <1>4 DEF generateAuthOrPKCS7, Then, data, out
<1>7. /\ toPKCS7ForSecVar(timed, data, sig).rc = SUCCESS
      /\ out = [kind |-> "auth", time |-> timed.time, certs |-> pkcs7.certs,
                signers |-> pkcs7.signers, signed |-> pkcs7.signed, data |-> data]
  BY <1>6, AuthOf DEF pkcs7
<1>8. /\ cmd.var \in Keys /\ pkcs7.certs = Elements(cmd.certs)
      /\ pkcs7.certs \subseteq Certs /\ pkcs7.certs # {} /\ pkcs7.signers = pkcs7.certs
      /\ pkcs7.signed = get_hash_to_verify(cmd.var, data, timed.time)
  <2>1. timed.time \in Nat /\ timed.keys # << >>
    BY <1>1, <1>2
  <2>2. /\ timed.var \in Keys /\ pkcs7.certs = Elements(timed.certs)
        /\ pkcs7.certs \subseteq Certs /\ pkcs7.certs # {} /\ pkcs7.signers = pkcs7.certs
        /\ pkcs7.signed = get_hash_to_verify(timed.var, data, timed.time)
    BY <1>1, <1>5, <1>7, <2>1, Pkcs7IsFile DEF pkcs7
  <2> QED BY <1>2, <2>2
<1>9. out.time = timed.time /\ out.data = data
  BY <1>7
<1> QED BY <1>1, <1>5, <1>7, <1>8, <1>9 DEF out

(* What generate makes of one certificate, digest or nothing, with keys at  *)
(* hand and without -f, the validators accept exactly if its signers are    *)
(* strong, and then the firmware, from signers entitled to the variable,    *)
(* whatever else its variables hold (generateAuthOrPKCS7, 425-490;          *)
(* toAuth, 992-1037; validateAuth; process_update).                         *)
THEOREM GeneratedTheorem == Spec => []GeneratedIsAccepted
<1>1. GInv /\ ResultIsOutcome => GeneratedIsAccepted
  <2> DEFINE cmd    == run.cmd
             out    == run.result.out
             certs  == Elements(cmd.certs)
             strong == certs \subseteq Strong
  <2> SUFFICES ASSUME GInv, ResultIsOutcome, Signing, ~cmd.force, cmd.inForm # "e",
                      cmd.keys # << >>
               PROVE  /\ validateAuth(AsAuth(out), cmd.var) = SUCCESS <=> strong
                      /\ strong /\ certs \cap Entitled(cmd.var) # {} =>
                           process_update(AsUpdate(out, cmd.var), Bank, <<0, 0, 0, 0>>, FALSE)
                             >= 0
    BY DEF GeneratedIsAccepted
  <2>1. run # Idle /\ run.result.rc = SUCCESS /\ cmd.outForm = "a"
    BY DEF Signing, Succeeded, Idle
  <2>2. Ready(run.at, cmd, run.input, run.sig)
    BY <2>1 DEF GInv
  <2>3. run.result = getOutputData(run.at, cmd, run.input, run.sig)
    BY <2>1, GetsToOutput DEF ResultIsOutcome
  <2>4. /\ out = [kind |-> "auth", time |-> out.time, certs |-> certs, signers |-> certs,
                  data |-> out.data,
                  signed |-> get_hash_to_verify(cmd.var, out.data, out.time)]
        /\ cmd.var \in Keys /\ out.time \in Nat \ {0} /\ out.data \in Data
        /\ certs # {} /\ certs \subseteq Certs
        /\ IF cmd.inForm = "r" THEN out.data = NoData ELSE Single(out.data)
    BY <2>1, <2>2, <2>3, MadeWithKeys
  <2>5. cmd.inForm # "r" => validateESL(out.data, cmd.var) = SUCCESS
    BY OutcomeIsForced DEF OnlyForceSkips
  <2> DEFINE auth   == AsAuth(out)
             update == AsUpdate(out, cmd.var)
  <2>6. /\ auth = [time |-> out.time, signers |-> certs, data |-> out.data,
                   signed |-> get_hash_to_verify(cmd.var, out.data, out.time)]
        /\ update.key = cmd.var /\ update.data = auth
    BY <2>4 DEF AsAuth, AsUpdate, new_secvar
  <2> HIDE DEF out, cmd, certs, auth, update
  <2>7. auth # Malformed
    <3>1. auth \in Auth
      BY <2>4, <2>6 DEF Auth, Message, get_hash_to_verify
    <3> QED BY <3>1, FilesAssumption
  <2>8. out.data.size = 0 \/ validateESL(out.data, cmd.var) = SUCCESS
    BY <2>4, <2>5 DEF NoData
  <2>9. validateAuth(auth, cmd.var) = SUCCESS <=> strong
    BY <2>4, <2>6, <2>7, <2>8 DEF validateAuth, SUCCESS, CERT_FAIL
  <2>10. validate_esl_list(cmd.var, out.data) \in Nat
    <3>1. CASE cmd.inForm = "r"
      BY <2>4, <3>1 DEF validate_esl_list, NoData, ListHeader
    <3>2. CASE cmd.inForm # "r"
      BY <2>4, <2>5, <3>2, SinglePasses
    <3> QED BY <3>1, <3>2
  <2>11. ASSUME strong, certs \cap Entitled(cmd.var) # {}
         PROVE  process_update(update, Bank, <<0, 0, 0, 0>>, FALSE) >= 0
    <3>1. /\ update.key \in Keys /\ update.data.time = out.time
          /\ update.data.data = out.data /\ update.data.signers \subseteq Certs
          /\ update.data.signed = get_hash_to_verify(update.key, out.data, out.time)
          /\ update.data.signers \cap Entitled(update.key) # {}
          /\ validate_esl_list(update.key, out.data) \in Nat
      BY <2>4, <2>6, <2>10, <2>11
    <3> DEFINE answer == process_update(update, Bank, <<0, 0, 0, 0>>, FALSE)
    <3>2. answer = OPAL_SUCCESS
      BY <2>4, <3>1, SignedIsAccepted
    <3> HIDE DEF answer
    <3>3. answer >= 0
      BY <3>2 DEF OPAL_SUCCESS
    <3> QED BY <3>3 DEF answer
  <2> QED BY <2>9, <2>11 DEF auth, update
<1> QED BY <1>1, GInvariant, OutcomeInvariant, PTL

=============================================================================
