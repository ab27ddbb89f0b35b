----------------------------- MODULE Submission -----------------------------
(***************************************************************************)
(* What `verify -w' promises its user (README, VERIFY): a queue of updates *)
(* reaches the firmware's `update' files only after the KeyStore has       *)
(* accepted all of it, and then in the order it was submitted.  A write    *)
(* may leave its file torn; the command may stop after any of them.        *)
(***************************************************************************)
EXTENDS Integers, Sequences

CONSTANT Torn       \* a file that was truncated and holds less than an update

VARIABLES store,    \* the variables loaded, as in KeyStore
          queue,    \* the updates loaded, as in KeyStore
          status,   \* loading, and then as in KeyStore
          wanted,   \* the user wants an accepted queue submitted
          accepted, \* the queue to submit
          sent,     \* how many of its updates have been written
          files     \* key -> what its update file holds

Store == INSTANCE KeyStore

Init == status = "loading" /\ accepted = << >> /\ sent = 0

(* What is loaded is the user's choice, and what can be read. *)
Load ==
  /\ status = "loading"
  /\ status' \in {"loading", "pending", "rejected"}
  /\ UNCHANGED <<wanted, accepted, sent, files>>

Decide ==
  /\ Store!Next
  /\ accepted' = IF status' = "accepted" /\ wanted THEN queue ELSE << >>
  /\ UNCHANGED <<wanted, sent, files>>

Submit ==
  /\ status = "accepted"
  /\ sent < Len(accepted)
  /\ \E file \in {accepted[sent + 1].data, Torn} :
       files' = [files EXCEPT ![accepted[sent + 1].key] = file]
  /\ sent' \in {sent, sent + 1}
  /\ UNCHANGED <<store, queue, status, wanted, accepted>>

Next == Load \/ Decide \/ Submit

Spec == Init /\ [][Next]_<<store, queue, status, wanted, accepted, sent, files>>
=============================================================================
