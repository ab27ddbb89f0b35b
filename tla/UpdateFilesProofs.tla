------------------------- MODULE UpdateFilesProofs -------------------------
(***************************************************************************)
(* For any number of processes, any updates and any edits of their input   *)
(* files: what UpdateFiles says of the update file.                        *)
(***************************************************************************)
EXTENDS UpdateFiles, TLAPS

(* Writing puts the bytes at the front and leaves what is behind them.      *)
LEMMA OverlayParts ==
  ASSUME NEW b \in Seq(Parts), NEW old \in Seq(Parts)
  PROVE  /\ Overlay(b, old) \in Seq(Parts)
         /\ Len(b) <= Len(Overlay(b, old))
         /\ \A i \in 1 .. Len(b) : Overlay(b, old)[i] = b[i]
         /\ \A i \in DOMAIN Overlay(b, old) :
              \/ i <= Len(b) /\ Overlay(b, old)[i] = b[i]
              \/ i \in DOMAIN old /\ Overlay(b, old)[i] = old[i]
<1> DEFINE n == IF Len(b) >= Len(old) THEN Len(b) ELSE Len(old)
<1>1. n \in Nat /\ Len(b) <= n /\ DOMAIN Overlay(b, old) = 1 .. n
  BY DEF Overlay
<1>2. \A i \in 1 .. n : Overlay(b, old)[i] = IF i <= Len(b) THEN b[i] ELSE old[i]
  BY DEF Overlay
<1>3. \A i \in 1 .. n : (i <= Len(b) /\ i \in 1 .. Len(b)) \/ i \in 1 .. Len(old)
  OBVIOUS
<1>4. Overlay(b, old) \in [1 .. n -> Parts]
  BY <1>3 DEF Overlay
<1>5. Overlay(b, old) \in Seq(Parts) /\ Len(Overlay(b, old)) = n
  BY <1>1, <1>4
<1> QED BY <1>1, <1>2, <1>3, <1>5

LEMMA OverlayNothing ==
  ASSUME NEW b \in Seq(Parts)
  PROVE  Overlay(b, << >>) = b
<1>1. Len(b) \in Nat /\ b = [i \in 1 .. Len(b) |-> b[i]]
  OBVIOUS
<1>2. Len(<< >>) = 0
  OBVIOUS
<1>3. Overlay(b, << >>) = [i \in 1 .. Len(b) |-> b[i]]
  BY <1>1, <1>2 DEF Overlay
<1> QED BY <1>1, <1>3

(* Nobody has touched the file since an undisturbed process emptied it.     *)
Emptied == \A w \in Writers : pc[w] = "write" /\ alone[w] => target = << >>

(* Whoever has written had a document to write.                             *)
WroteDocuments == \A i \in DOMAIN last : buffer[last[i]] \in Documents

Inv == /\ TypeOK /\ Emptied /\ WroteDocuments
       /\ LastWriteLeads /\ WrittenIsValidated

LEMMA InvInit == Init => Inv
<1> SUFFICES ASSUME Init PROVE Inv
  OBVIOUS
<1>1. TypeOK
  BY ContentsAssumption DEF Init, TypeOK, Contents, SUCCESS
<1> QED BY <1>1 DEF Init, Inv, Emptied, WroteDocuments, LastWriteLeads, WrittenIsValidated

(* A step that leaves the update file alone, and the buffers of all who     *)
(* have written.                                                            *)
LEMMA QuietStep ==
  ASSUME Inv, TypeOK', UNCHANGED <<target, last, alone>>,
         \A w \in Writers : pc'[w] = "write" => pc[w] = "write",
         \A i \in DOMAIN last : buffer'[last[i]] = buffer[last[i]]
  PROVE  Inv'
<1>1. Emptied'
  BY DEF Inv, Emptied
<1>2. WroteDocuments'
  BY DEF Inv, WroteDocuments
<1>3. LastWriteLeads'
  <2> SUFFICES ASSUME target # << >>, last # << >>
               PROVE  LastWriteLeads'
    BY DEF LastWriteLeads
  <2>1. Len(last) \in DOMAIN last
    BY DEF Inv, TypeOK
  <2> QED BY <2>1 DEF Inv, LastWriteLeads
<1>4. WrittenIsValidated'
  BY DEF Inv, WrittenIsValidated
<1> QED BY <1>1, <1>2, <1>3, <1>4 DEF Inv

Labels == {"stat", "read", "validate", "open", "write", "done"}

(* One process goes on: those that have written stay as they are.           *)
LEMMA Advance ==
  ASSUME TypeOK, NEW w \in Writers, NEW label \in Labels, NEW code \in Int,
         pc[w] # "done", Goto(w, label),
         rc' = rc \/ rc' = [rc EXCEPT ![w] = code], last' = last
  PROVE  /\ pc' \in [Writers -> Labels] /\ rc' \in [Writers -> Int]
         /\ \A i \in DOMAIN last : last[i] \in Writers /\ last[i] # w
         /\ last' \in Seq(Writers)
         /\ \A i \in DOMAIN last' : pc'[last'[i]] = "done" /\ rc'[last'[i]] = SUCCESS
<1>1. /\ pc \in [Writers -> Labels] /\ rc \in [Writers -> Int]
      /\ last \in Seq(Writers)
      /\ \A i \in DOMAIN last : pc[last[i]] = "done" /\ rc[last[i]] = SUCCESS
  BY DEF TypeOK, Labels
<1>2. \A i \in DOMAIN last : last[i] \in Writers /\ last[i] # w
  BY <1>1
<1>3. pc' = [pc EXCEPT ![w] = label]
  BY DEF Goto
<1>4. rc' \in [Writers -> Int] /\ \A v \in Writers \ {w} : rc'[v] = rc[v]
  BY <1>1
<1> QED BY <1>1, <1>2, <1>3, <1>4

LEMMA OpenStep ==
  ASSUME Inv, NEW w \in Writers, Open(w)
  PROVE  Inv'
<1>1. TypeOK'
  <2>1. pc[w] = "open" /\ Goto(w, "write") /\ rc' = rc /\ last' = last /\ target' = << >>
    BY DEF Open
  <2>2. /\ pc' \in [Writers -> Labels] /\ rc' \in [Writers -> Int]
        /\ last' \in Seq(Writers)
        /\ \A i \in DOMAIN last' : pc'[last'[i]] = "done" /\ rc'[last'[i]] = SUCCESS
    BY <2>1, Advance DEF Inv, Labels
  <2>3. alone' \in [Writers -> BOOLEAN]
    BY DEF Inv, TypeOK, Open, Disturbs
  <2>4. \A v \in Writers : pc'[v] \in {"open", "write"} => buffer'[v] \in Documents
    BY <2>1 DEF Inv, TypeOK, Open, Goto
  <2> QED BY <2>1, <2>2, <2>3, <2>4 DEF Inv, TypeOK, Open, Labels
<1>2. target' = << >> /\ Emptied'
  BY DEF Open, Emptied
<1>3. WroteDocuments' /\ LastWriteLeads' /\ WrittenIsValidated'
  BY <1>2 DEF Inv, WroteDocuments, LastWriteLeads, WrittenIsValidated, Open
<1> QED BY <1>1, <1>2, <1>3 DEF Inv

LEMMA WriteStep ==
  ASSUME Inv, NEW w \in Writers, Write(w)
  PROVE  Inv'
<1> DEFINE n == Len(last) + 1
<1>1. /\ buffer[w] \in Documents /\ buffer[w] \in Seq(Parts)
      /\ target \in Seq(Parts) /\ last \in Seq(Writers)
  BY DEF Inv, TypeOK, Write
<1>2. /\ last' \in Seq(Writers) /\ Len(last') = n /\ last'[n] = w
      /\ DOMAIN last' = DOMAIN last \cup {n}
      /\ \A i \in DOMAIN last : last'[i] = last[i]
  BY <1>1 DEF Write
<1>3. target' = Overlay(buffer[w], target) /\ buffer' = buffer
  BY DEF Write
<1>4. TypeOK'
  <2>1. target' \in Seq(Parts)
    BY <1>1, <1>3, OverlayParts
  <2>2. /\ pc' = [pc EXCEPT ![w] = "done"] /\ rc' = [rc EXCEPT ![w] = SUCCESS]
        /\ UNCHANGED <<input, size, buffer>>
    BY DEF Write, Stop, Goto
  <2>3. /\ pc \in [Writers -> {"stat", "read", "validate", "open", "write", "done"}]
        /\ rc \in [Writers -> Int]
        /\ \A i \in DOMAIN last : /\ last[i] \in Writers
                                  /\ pc[last[i]] = "done" /\ rc[last[i]] = SUCCESS
    BY <1>1 DEF Inv, TypeOK
  <2>4. ASSUME NEW i \in DOMAIN last'
        PROVE  pc'[last'[i]] = "done" /\ rc'[last'[i]] = SUCCESS
    <3>1. CASE i = n
      BY <3>1, <1>2, <2>2, <2>3
    <3>2. CASE i \in DOMAIN last
      BY <3>2, <1>2, <2>2, <2>3
    <3> QED BY <1>2, <3>1, <3>2
  <2>5. alone' \in [Writers -> BOOLEAN]
    BY DEF Inv, TypeOK, Write, Disturbs
  <2>6. \A v \in Writers : pc'[v] \in {"open", "write"} => buffer'[v] \in Documents
    BY <2>2, <2>3 DEF Inv, TypeOK
  <2>7. /\ pc' \in [Writers -> {"stat", "read", "validate", "open", "write", "done"}]
        /\ rc' \in [Writers -> Int]
    BY <2>2, <2>3 DEF SUCCESS
  <2> QED BY <1>2, <2>1, <2>2, <2>4, <2>5, <2>6, <2>7 DEF Inv, TypeOK
<1>5. Emptied'
  BY DEF Inv, TypeOK, Write, Stop, Goto, Disturbs, Emptied
<1>6. WroteDocuments'
  BY <1>1, <1>2, <1>3 DEF Inv, WroteDocuments
<1>7. LastWriteLeads'
  BY <1>1, <1>2, <1>3, OverlayParts DEF LastWriteLeads
<1>8. WrittenIsValidated'
  <2>1. \A i \in DOMAIN target :
          \E j \in DOMAIN last : /\ buffer[last[j]] \in Documents
                                 /\ i <= Len(buffer[last[j]])
                                 /\ target[i] = buffer[last[j]][i]
    BY DEF Inv, WrittenIsValidated, Write
  <2>2. SUFFICES ASSUME NEW i \in DOMAIN target'
                 PROVE  \E j \in DOMAIN last' : /\ buffer'[last'[j]] \in Documents
                                                /\ i <= Len(buffer'[last'[j]])
                                                /\ target'[i] = buffer'[last'[j]][i]
    BY DEF WrittenIsValidated
  <2>3. CASE i <= Len(buffer[w]) /\ target'[i] = buffer[w][i]
    BY <1>1, <1>2, <1>3, <2>3
  <2>4. CASE i \in DOMAIN target /\ target'[i] = target[i]
    <3>1. PICK j \in DOMAIN last : /\ buffer[last[j]] \in Documents
                                   /\ i <= Len(buffer[last[j]])
                                   /\ target[i] = buffer[last[j]][i]
      BY <2>1, <2>4
    <3> QED BY <1>2, <1>3, <2>4, <3>1
  <2> QED BY <1>1, <1>3, <2>3, <2>4, OverlayParts
<1> QED BY <1>4, <1>5, <1>6, <1>7, <1>8 DEF Inv

LEMMA InvNext == Inv /\ [Next]_vars => Inv'
<1> SUFFICES ASSUME Inv, [Next]_vars PROVE Inv'
  OBVIOUS
<1>1. CASE UNCHANGED vars
  BY <1>1 DEF Inv, TypeOK, Emptied, WroteDocuments, LastWriteLeads,
              WrittenIsValidated, vars
<1>2. CASE Edit
  <2>1. TypeOK'
    BY <1>2 DEF Edit, Inv, TypeOK
  <2> QED BY <1>2, <2>1, QuietStep DEF Edit
<1>3. ASSUME NEW w \in Writers, Stat(w)
      PROVE  Inv'
  <2>1. input[w] \in Seq(Parts)
    BY ContentsAssumption DEF Inv, TypeOK, Contents
  <2>2. TypeOK'
    BY <1>3, <2>1 DEF Stat, Goto, files, Inv, TypeOK
  <2> QED BY <1>3, <2>2, QuietStep DEF Stat, Goto, files, Inv, TypeOK
<1>4. ASSUME NEW w \in Writers, ReadInput(w)
      PROVE  Inv'
  <2>1. input[w] \in Seq(Parts) /\ size[w] \in Nat
    BY ContentsAssumption DEF Inv, TypeOK, Contents
  <2>2. ~(Len(input[w]) < size[w]) => SubSeq(input[w], 1, size[w]) \in Seq(Parts)
    BY <2>1
  <2>3. /\ pc' \in [Writers -> Labels] /\ rc' \in [Writers -> Int]
        /\ last' \in Seq(Writers)
        /\ \A i \in DOMAIN last : last[i] \in Writers /\ last[i] # w
        /\ \A i \in DOMAIN last' : pc'[last'[i]] = "done" /\ rc'[last'[i]] = SUCCESS
    <3>1. \E label \in {"done", "validate"} : Goto(w, label)
      BY <1>4 DEF ReadInput, Stop
    <3> QED BY <1>4, <3>1, Advance DEF ReadInput, Stop, Inv, Labels, AUTH_FAIL
  <2>4. /\ buffer' \in [Writers -> Seq(Parts)]
        /\ \A v \in Writers : pc'[v] \in {"open", "write"} => buffer'[v] \in Documents
    BY <1>4, <2>2 DEF ReadInput, Stop, Goto, files, Inv, TypeOK
  <2>5. TypeOK'
    BY <1>4, <2>3, <2>4 DEF ReadInput, files, Inv, TypeOK, Labels
  <2> QED BY <1>4, <2>3, <2>5, QuietStep
          DEF ReadInput, Stop, Goto, files, Inv, TypeOK
<1>5. ASSUME NEW w \in Writers, Validate(w)
      PROVE  Inv'
  <2>1. /\ pc' \in [Writers -> Labels] /\ rc' \in [Writers -> Int]
        /\ last' \in Seq(Writers)
        /\ \A i \in DOMAIN last' : pc'[last'[i]] = "done" /\ rc'[last'[i]] = SUCCESS
    <3>1. \E label \in {"done", "open"} : Goto(w, label)
      BY <1>5 DEF Validate, Stop
    <3> QED BY <1>5, <3>1, Advance DEF Validate, Stop, Inv, Labels, AUTH_FAIL
  <2>2. \A v \in Writers : pc'[v] \in {"open", "write"} => buffer'[v] \in Documents
    BY <1>5 DEF Validate, Stop, Goto, files, Inv, TypeOK
  <2>3. TypeOK'
    BY <1>5, <2>1, <2>2 DEF Validate, files, Inv, TypeOK, Labels
  <2> QED BY <1>5, <2>3, QuietStep DEF Validate, Stop, Goto, files, Inv, TypeOK
<1> QED
  BY <1>1, <1>2, <1>3, <1>4, <1>5, OpenStep, WriteStep DEF Next

LEMMA InvHolds == Spec => []Inv
BY InvInit, InvNext, PTL DEF Spec

(* Nothing but validated updates gets into the update file.                 *)
THEOREM TypeInvariant == Spec => []TypeOK
<1>1. Inv => TypeOK
  BY DEF Inv
<1> QED BY <1>1, InvHolds, PTL

(* Every part of the update file was validated.                             *)
THEOREM ValidatedTheorem == Spec => []WrittenIsValidated
<1>1. Inv => WrittenIsValidated
  BY DEF Inv
<1> QED BY <1>1, InvHolds, PTL

(* The last to write has written the beginning of the file.                 *)
THEOREM LastTheorem == Spec => []LastWriteLeads
<1>1. Inv => LastWriteLeads
  BY DEF Inv
<1> QED BY <1>1, InvHolds, PTL

(* A process that was not disturbed has written the file.                   *)
THEOREM AloneTheorem == Spec => AloneIsWhole
<1> DEFINE Whole == \A w \in Writers : alone[w] /\ pc[w] = "write" /\ pc'[w] # "write"
                                        => target' = buffer[w]
<1>1. Inv /\ [Next]_vars => [Whole]_vars
  <2> SUFFICES ASSUME Inv, [Next]_vars, NEW w \in Writers,
                      alone[w], pc[w] = "write", pc'[w] # "write"
               PROVE  target' = buffer[w]
    OBVIOUS
  <2>1. Write(w)
    BY DEF Next, Edit, Stat, ReadInput, Validate, Open, Write, Goto, Stop, vars,
           Inv, TypeOK
  <2>2. target = << >> /\ buffer[w] \in Seq(Parts)
    BY DEF Inv, Emptied, TypeOK
  <2> QED BY <2>1, <2>2, OverlayNothing DEF Write
<1> QED BY <1>1, InvHolds, PTL DEF Spec, AloneIsWhole
=============================================================================
