# A TLA+ verification of secvarctl

secvarctl manages the secure boot variables of OpenPOWER machines: it reads,
validates, verifies, writes and generates the key databases `PK`, `KEK`, `db`
and `dbx`. The rules by which an update of a variable is accepted are those of
the firmware (skiboot's `edk2-compat` backend), carried in
`external/skiboot/` and run by `secvarctl verify` on the user's side.

This directory models that decision and the commands around it, checks the
models with TLC, and proves the main results with TLAPS.
Paths below are relative to `src/`.

| file | what it is |
|---|---|
| `Secvar.tla` | banks and secvars: the lists everything else works on |
| `Edk2Update.tla` | what one update is worth: the operators of `edk2-compat-process.c` |
| `Edk2Compat.tla` | the backend as a state machine: `pre_process`, `process` |
| `KeyStore.tla` | what the backend promises its caller |
| `Formats.tla` | lengths in files: where an auth file is split, the loops over ESLs |
| `Timestamps.tla` | times field by field: made, packed, compared, stored, validated |
| `Validators.tla` | the verdicts of `edk2-svc-validate.c`, as operators |
| `VerifyCommand.tla` | `secvarctl verify` from the loading of files to `-w` |
| `Submission.tla` | what `verify -w` promises its user |
| `Lifecycle.tla` | `write`, `verify` and reboots of the machine, in any order |
| `UpdateFiles.tla` | several `write`s at once, down to the system calls |
| `Generate.tla` | `generate`, run again and again, with a signer outside |
| `ReadCommand.tla` | `read`, with the size files as text |
| `Edk2CompatProofs`, `VerifyProofs`, `LifecycleProofs`, `FormatsProofs`, `TimestampsProofs`, `UpdateFilesProofs`, `GenerateProofs`, `ReadCommandProofs` | theorems, for every value of the constants |
| `MCKeys.tla`, `MC<module>.tla` | the small worlds for TLC |
| `MC*.cfg` | one per run, and the counterexamples of section 5 to run by hand |
| `PROJECT.json` | components, runs, seeded faults, the map to source lines, findings, hazards, theorems |

## 1. The system

### Components

**Secvar lists** (`external/skiboot/secvar_util.c`, `include/secvar.h`). A bank
is a linked list of `struct secvar` (key, data, size, flags). Operations: copy,
clear, find, new, grow. State: none of its own. Correct when a copy is the list
copied.

**edk2-compat update rules** (`external/skiboot/edk2-compat-process.c`). Given
an update, a bank, the timestamps and the global `setup_mode`:
is the update fresh, well formed, and signed by an authority of its variable?
Hard: the authorities are read from the *working copy*, which the earlier
updates of the same queue have changed; `rc` is shared by unrelated parts of
`process_update`; a loop reads its first element again in every turn. Correct
when an accepted update is newer than what it replaces and entitled to it.

**edk2-compat backend** (`external/skiboot/edk2-compat.c`). `pre_process`
completes the variable bank and sets `setup_mode`; `process` applies the queue
to a staging bank and installs it if every update was good. State:
`variable_bank`, `update_bank`, `staging_bank`, `setup_mode`. Hard: partial
failure, stale `setup_mode`, replays. Correct when the queue is atomic.

**verify command** (`backends/edk2-compat/edk2-svc-verify.c`). Loads updates and
current variables into the banks, validates their formats, calls the backend
and, with `-w`, writes every update to the `update` file of its variable. State:
the banks and the files. Hard: any file may be unreadable, any write may fail
half-way, the backend trusts what it is given. Correct when nothing reaches a
file unless the whole queue was accepted.

**validation of files** (`edk2-svc-validate.c`). Checks the layout of auth,
PKCS7, ESL, certificate and TS files; used by `validate`, `verify`, `write`,
`generate`. No state. Hard: 32-bit and `size_t` arithmetic on lengths taken from
the file; three functions split an auth file, each in its own way, and three
loop over ESLs. Correct when what was validated is what is used afterwards.

**write command and update files** (`edk2-svc-write.c`, `generic.c`). `write`
validates one auth file (not with `-f`) and writes it; `updateVar` and
`writeData` are shared with `verify -w`. State: the `update` files. Hard: a file
is truncated before it is written; short writes; a second writer of the same
file, without a lock; the input file replaced meanwhile. Correct when what is
written has been validated, and the last to write has its update in the file.

**read command** (`edk2-svc-read.c`). Prints variables; `getSecVar` is also how
`verify` loads them. No state. Hard: partial success over five variables; a
length that is text; a loop over lists whose sizes come from the file. Correct when
a broken variable or list hides no sound one and no length exceeds its file.

**generate command** (`edk2-svc-generate.c`). Turns one format into another
along hash → ESL → PKCS7 → auth, signing what `process_update` will verify. No
state but its output file. Hard: it has its own code for the signed message and
for what a good ESL is; an external signature takes three steps by two parties.
Correct when what it signs was validated and is what is verified later.

**main and backend selection** (`secvarctl.c`). A table look-up on `argv`.

**crypto layer** (`crypto/`), **PKCS7 for mbedTLS** (`external/extraMbedtls/`).
Wrappers and DER parsing.

### Interactions

Each command is one thread, with no callback but the backend's table of two
functions; two commands may run at once.
`main` calls a command; `verify` fills banks, hands them to `pre_process` and
`process` *by reference*, and reads the return code. The backend keeps two
globals across the calls (`staging_bank`, `setup_mode`). The command and the
firmware share the files of `/sys/firmware/secvar/vars/<name>/`: firmware writes
`data` and `size`, the command writes `update`, and firmware reads those at the
next boot and decides again by the same rules. So what is hard here is
mostly sequence: what a queue of legal updates can lead to, what is left after
one step of several fails, which check vouches for which later use. Interleaving
is possible at one place, the `update` file, and there it is without a lock.

`PROJECT.json` lists the hazards at their lines; the properties follow them.

## 2. The models

### Abstractions

The control of the code is kept: each early return, each `goto`, each allocation
that may fail and the order of the steps. Data is reduced to what the code tells
apart (head of `Edk2Update.tla`):

* *Contents of a variable*: the ESLs they start with and the length of the
  whole. An ESL is its type, its size and what its data decodes to: a
  certificate, a digest, or neither.
* *An auth file*: its time, the certificates that signed, the message they
  signed, and the appended contents. The message is the triple (variable,
  contents, time) that `get_hash_to_verify` digests; SHA-256 is taken to be
  injective and a signature to verify only with the key that made it.
  `crypto_pkcs7_signed_hash_verify` is modelled by that promise.
* *Timestamps*: the number `unpack_timestamp` makes of an `efi_time`; that this
  number is ordered as the calendar is checked, and proved, in `Timestamps`.
* *Lengths*: an auth file is well formed or `Malformed`, an ESL check has a closed
  form; that the code's loops and arithmetic amount to that is `Formats`. The closed
  form of `validate_esl_list` is for a first list whose SignatureHeaderSize is 0, as
  `generate` makes them; other header sizes occur in `Formats` and `ReadCommand` only.
* *Files*: readable or not for the length of a command; a write is whole, short,
  failing after the truncation, or failing before it.

Not in the models: a TS variable of the wrong size, output and logging, and of
`verify` the options other than `-u`, `-c`, `-p`, `-w`. An allocation
that fails inside `copy_bank_list` is not modelled: the code dereferences the
null pointer, so nothing follows it.

### Edk2Compat

| variable | code |
|---|---|
| `variable_bank`, `update_bank` | the lists passed to `pre_process` and `process` |
| `staging_bank`, `setup_mode` | the globals |
| `pc`, `next` | where `pre_process` or `process` is, and the variable or update it looks at |
| `rc` | the return code |

| action | code (`edk2-compat.c`) |
|---|---|
| `PreProcessVar`, `PreProcessNoMem` | one block of `pre_process`, 46-102; its failed allocation |
| `NothingToProcess`, `Stage` | 132-158: the early returns and the copy |
| `ApplyUpdate`, `RejectUpdate`, `UpdateNoMem` | one turn of the loop, 160-220 |
| `EndOfQueue` | the loop is left at its end |
| `Finish` | 222-252: install or not, clear, read `setup_mode` off the PK |

`process_update` is an operator of `Edk2Update`, because it changes no state: it
returns a code, and the new timestamp and contents are put into the staging bank
by the caller. It is split as the code is (`check_timestamp`,
`validate_esl_list`, `get_key_authority`, `verify_signature`). The comments of
`validate_esl_list` and `verify_signature` say how a loop became a closed form.

### KeyStore: the abstract specification

A function from variables to contents and time, a queue, and two actions:
`Accept` replaces everything in one step if each update is *legal* in the store
the updates before it leave, and `Reject` changes nothing. `Edk2Compat`
implements it (`ImplementsKeyStore`) with the mapping
`store <- StoreOf(variable_bank)`: a variable that was not loaded counts as empty
and never updated, so `pre_process` stutters; so do the loop's steps, since they
only touch the staging bank.

Legal is what the README of the program says, plus one case the code makes and
the README does not: `OrphanReset` (`backend_signed` in section 5).

### Formats

A file is its length, the `dw_length` word of its descriptor, and what would be
read as an ESL header at an offset: chosen when it is first read and the same
from then on, so a file may be as odd as a file can be. `uint32_t` has `WORD`
values and `size_t` has `SIZE`; `Minus`, `ssize` and `int` are C's subtraction and
conversions. `task` says which command the file is given to.

| action | code |
|---|---|
| `ValidateAuth`, `Accepted` | `validateAuth`'s arithmetic, and the command going on after it |
| `ValidateESL` | a turn of the loop of `validateESL`, with `validateSingularESL` |
| `ProcessUpdate` | `get_auth_descriptor2` and `get_pkcs7_len` |
| `ProcessESL` | a turn of `validate_esl_list`, with `get_esl_cert` |
| `AuthToESL` | the split of `authToESL`, under `-f` of an unvalidated file |
| `PrintESL` | a turn of the loop of `printReadable` |

### Timestamps

`ts` is the TS variable, `auth` the time of the auth file at hand and whether it
is generate's. `Generate` makes a time (`parseCustomTimestamp`, `getTimestamp`),
`Receive` takes one made elsewhere, `Update` is `check_timestamp` and
`update_timestamp`. `validateTime`, `validateTS` and `unpack_timestamp` are
operators.

### Validators

The return codes of `err.h` and `validateAuth`, `validateESL`, `validateSingularESL`,
`validateTS` and `validateCertStruct` over abstract contents (which certificates count as
strong is a parameter, `Strong`), shared by `VerifyCommand`, `Lifecycle` and `Generate`.

### VerifyCommand and Submission

`VerifyCommand` composes the command with the backend: `Backend` is an
`INSTANCE` of `Edk2Compat` on the same variables, whose actions become part of
`PreProcess` and `Process`. The constants `Banks` and `UpdateQueues` are
instantiated with exactly the sets the backend's theorems assume, so
`BackendCalledAsAssumed` is the link between the two: whatever the files hold,
`validateBanks` establishes the preconditions of the backend.

| action | code |
|---|---|
| `LoadUpdate`, `LoadCurrent` | `setupBanks`; a file in `unreadable` is left out |
| `ValidateUpdate`, `ValidateCurrent` | `validateBanks`; stops at the first bad file |
| `PreProcess` | the backend's `pre_process`, and the copy of the update bank kept for `-w` |
| `Process`, `Return` | the backend's `process` and what `verify` does with its code |
| `WriteAll`, `WriteSome`, `WriteFails`, `OpenFails` | one turn of `commitUpdateBank`: `updateVar` and `writeData` and their failures |
| `EndOfLoop` | a loop is left at its end |

`Submission` is what the user is promised: the variables are loaded, a
`KeyStore` decides about the queue, and after it has accepted, the queue's
updates are written in order. `KeepsPromise` checks that `VerifyCommand`
implements it.

### Lifecycle

The owner runs commands, one after another, and reboots the machine. `write` is
one step (`Write`, `WriteRefused`: `updateSecVar`, with the outcomes of
`writeData`); `verify` runs through all of `VerifyCommand`'s steps (`VerifyStep`)
on the variables the firmware stored; `Boot` hands the stored variables and the
pending `update` files to the backend, whose steps are again `Edk2Compat`'s
(`BootStep`), and `BootEnds` stores the result.

The firmware and its driver are not in the tree. They are modelled from how the
code uses them, and each definition for them is marked external in
`PROJECT.json`: VOLATILE variables are not stored (`secvar.h:65`), a variable
without contents has no data to read, updates are processed in the order of
their last writing, and boot does not run out of memory. Where a choice had to be
made it is the one more favourable to the program; the findings do not depend on it.
What firmware starts with is `Complete`: each of the five variables once, VOLATILE
only what is empty (`MachineAssumption`). Its lists are walked by position (`Keep`), as
a recursive function, so that they can be reasoned about.

`vouched` is a history variable: the queue that `verify -w` has just reported
SUCCESS for, until the next command.

### UpdateFiles

Any number of `write` commands on one `update` file, each with an input file of its own,
and somebody who may replace an input file at any moment (`Edit`, external). A step is a
system call or what lies between two of them: `Stat` and `ReadInput` (`getDataFromFile`:
of a file that has become shorter since there is no buffer, and `validateAuth`, called
without one, refuses), `Validate`, `Open` (which truncates), `Write` (from offset 0, so
over the beginning of what another process has written). `last` and `alone` are history
variables: who has written, and who was not disturbed since its open.

### Generate

A file is what it decodes to. `Run` is one whole command: `parse_opt`'s
checks, `performGenerateCommand` with the way its input and output forms select
through the switch that falls through, and the file it leaves. `Sign` (external)
is somebody who signs a digest with a key held outside, `Tick` the clock.
`validate` is `performValidation`, an operator. `Library` is the crypto library
of the build, because the two differ on `-s`.

Abstracted: one pair `-s` and certificate; a digest in an ESL is known by its algorithm
only; a file of the wrong kind under `-f` counts as contents too short for an
ESL; writing the output file succeeds. What the files given at first may be is
`FilesAssumption`, what the machine they are made for holds `BankAssumption`. `Entitled`
are the certificates that machine reads in the authorities of a variable: all up to
the first ESL that holds none, where `verify_signature` gives up (one in `MCGenerate`'s KEK).

### ReadCommand

`readFiles` goes variable by variable (`Turn`, `Skip`, `ReadVariable`) or takes one file
(`ReadFile`); `Counted` is the return to it, `Finish` turns the count of successes into
the result. With `-r` the bytes are shown as they are; otherwise they go to
`printReadable`, one list to a step: `PrintESL` prints a list that passes the code's
comparisons (`Sized`) and steps behind it, `EndOfESLs` is every way out of the loop,
`PrintNoMem` the failed allocation in it, `NoMem` those before it.

A size file is text, a sequence of characters given by their value as a digit,
because what `strtol(…, 0)` makes of it matters (`Leading` finds where a run of
characters ends, `Value` reads digits in a base). A data file is its length and
the headers of the lists in it. As in the code, a list of size 0 is found again, and
a signature may end behind the buffer, by up to the 28 bytes of the list's own header:
whether what is copied then is a certificate is left open (`Parses`), and a digest is
printed. `shown` is what the user has been shown, with its length, `printed` each list
with the bytes left before it, `lost` the names memory ran out for.

## 3. What TLC checks

| run | about | size |
|---|---|---|
| `backend` | the backend alone, all properties below | 193,000 states |
| `verify` | the command with the backend | 352,000 states |
| `lifecycle` | four commands or reboots | 297,000 states |
| `formats` | splits and loops over odd files | 5,400 states |
| `timestamps` | any sequence of updates of the four times | 33,000 states |
| `update_files` | two writers and an editor | 22,000 states |
| `generate` | two commands, a signer, a clock | 203,000 states |
| `read` | each combination of broken and sound files | 286,000 states |
| `backend_lists`, `backend_signed`, `lifecycle_times`, `formats_print` | one finding each | up to the violation |

Properties of the backend:

* `TypeOK`: types, and that from the end of `pre_process` every variable can be
  found in both banks: the code dereferences the result of `find_secvar` of PK
  and TS.
* `ImplementsKeyStore`: all or nothing, and only legal updates.
* `StagedChangesAreSigned`, `OutsidersChangeNothing`, `PkHoldersMovePkAndKek`:
  the chain of authority. A queue may enrol the key that signs its next update,
  so "signed by an authority" is a statement about a moving bank; these
  say that, with a PK enrolled, the chain always starts at a key of the bank as it
  was before the queue.
* `NoReplay`: after a queue is accepted each of its updates is refused.
* `VolatileMeansEmpty`, `SetupModeIsNoPk`: the flag and the global agree with the
  contents they are derived from.
* `Terminates`.

Properties of the command:

* `BackendCalledAsAssumed`, `KeepsPromise`: above.
* `SuccessMeansWritten`: with `-w`, SUCCESS means the loop of
  `commitUpdateBank` passed no update over.
* `SuccessMeansSigned`: SUCCESS for a single update means it is signed and new by the
  variables as they are in the files, not only by those that were loaded: whatever is
  missing from a bank makes the rules laxer. It holds as long as no current
  variable is unreadable; section 5 has what happens otherwise.
* `TypeOK` (every `update` file holds what it held, one whole auth file, or a
  torn one), `Ends`.

Properties of the machine over reboots:

* `LTypeOK`: among its types, that the stored bank always has all five variables
  and that only the four that may be updated are ever pending.
* `NothingIsLost`: no contents and no timestamp are dropped with the VOLATILE
  variables.
* `NoRollback`: over any writes, verifications and boots, the time of a variable
  never goes back, and its contents change only with a later time.
* `VerifiedAloneIsAccepted`: what `verify -w` accepted and submitted is accepted
  at boot when nothing else is pending. Section 5 has what happens otherwise.

Properties of the formats:

* `TypeOK`: the ESLs of a file are looked for inside it, also by `generate -f` in
  a file nobody validated.
* `SplitsAgree`: `process_update` and `authToESL` find the end of the descriptor
  where `validateAuth` found it, each with its own arithmetic.
* `SignatureNearItsList`: a list that `validateESL` or `printReadable` goes on from ends
  inside the file and is as long as the header and signature it states. The code adds
  those in 32 bits; a sum that wraps is caught by the comparisons after it, and only
  by them. The list's own 28 bytes are not in that sum (`MCFormats_Size`, section 5).
* `VerdictIsFirst`, `LoopIsClosedForm`: the loops compute what `VerifyCommand` and
  `Edk2Update` say in closed form, the latter for a first list with a header size of
  0; `Ends`: they end.

Properties of the times:

* `MovesForward`, `LaterIsAccepted`: comparing packed numbers is comparing dates,
  in both directions.
* `OursKeepTsValid`: times made by `generate` leave a TS that `verify` can read.

Properties of the update file under concurrency:

* `WrittenIsValidated`: whatever is replaced when, each part of the file was
  validated, at its place, in the buffer of a process that has written.
* `LastWriteLeads`: the last to write has its whole update at the front.
* `AloneIsWhole`: without a disturbance between open and write, nothing else is there.

Properties of generate:

* `OnlyForceSkips`: on each way to a signature the new contents were validated for
  their variable, but for `-f` and `reset`.
* `GeneratedIsAccepted`: an update made from one certificate, digest or nothing is
  valid if and only if its signers are strong, and then accepted by a machine to
  whose keys one of them belongs. Three pieces of code for the message and two
  for the ESL have to agree.
* `SignatureReplacesKey`: `c:a -s` makes the file `c:a -k` makes if and only if what was
  signed outside is the digest that `c:x` prints.

Properties of read:

* `SoundIsShown`: a variable whose size file is as the driver writes it and whose data
  start with a whole list has been shown, with its length, whatever is wrong with the
  others, and each whole list that follows one printed has been printed.
* `SuccessMeansShown`: the result is SUCCESS exactly if something was shown.
* `TypeOK`: among its types, that of no file are more bytes handed on to be printed than
  that file has, and that the header of each list printed is among them. Where the
  signature ends is `SignatureNearItsList` of `Formats`: up to 28 bytes behind.

### Bounds

* `MaxQueue = 3` in `backend`: the hazards need a queue that enrols a key, uses it
  and does something more (three), or that empties PK, then KEK, then resets
  `db` (three: `OrphanReset`).
* The updates cover each variable, contents of no ESL, one, two equal ones, two of
  different sizes, a bad second one; signers of each rank, none that is entitled,
  two at once; times before, at and after those of the banks; an auth file
  submitted for a variable it was not signed for.
* The banks: first boot; a complete one; a single PK as from `-c`; the same
  name twice (which `-c` accepts), where `find_secvar` takes the first; a bank
  without PK.
* `MaxUpdates = 2` in `verify`: two files of one variable, or a good one before a
  bad one. The longer queues are the `backend` run's.
* Five directories and one `-c` list of current variables, each way through
  `validateBanks`; of any of them any part may be unreadable.
* `Faults` names what may go wrong with files: everything in `verify`, and nothing in
  the `lifecycle` runs, whose commands do not need anything to go wrong.
* `MaxTurns = 4` in `lifecycle`: write, boot, write (or verify), boot is the
  shortest way to replay or to lose something; the violations take three or
  fewer. The machines: a new one, and one with PK and KEK whose `db` and `dbx`
  were reset. The files given to `write` include one for TS, a malformed and an
  unreadable one, each with and without `-f` where it matters.
* `WORD = 256`, `SIZE = 1024`, `MaxLength = 127` in `formats`: the ratios of `uint32_t`,
  `size_t` and the length of a file that fits an `int`; the constants of the code
  (16, 28, 40) stay, so every sum can still wrap. Lengths, words and headers lie
  on both sides of each comparison and of each sign.
* `BYTE = 4`, `YEARS = 8` in `timestamps`: a calendar of two years, with a month 0, a
  second that does not exist and a set pad byte among the foreign times.
* Two writers in `update_files`, with updates of one, two and three parts and an
  original of four: three lengths are what a mixture and a left-over tail need.
* `MaxRuns = 2`, `MaxClock = 2` in `generate`: a signature made outside takes `c:x`, a
  signing and `c:a`; the longer chains pass through a file that is among those
  given at first. One key is held outside, one signer is weak.
* `MaxDigits = 4`, `SizeMod = 65536`, `MaxData = 121` in `read` for 8, 2^64 and what a
  variable may hold: a size file longer than what is read of it, sizes below, at
  and above the length of the data, and two lists, so that the second may be whole,
  cut short, without a certificate or behind one that is broken. The sizes of a list
  header, an owner and a time are those of the code (28, 16, 16).

`CHECK_DEADLOCK FALSE`: the commands end, and `Lifecycle` and `Generate` have a bound.

### Fairness

`WF_vars(Next)` in `Edk2Compat`, `VerifyCommand` and `Formats`: one thread, every call
returns, nothing waits. A kill at any point is a prefix of a behaviour, so every
safety property holds for it too; what a kill leaves in the `update` files is
`files` at that moment. The other modules have no liveness property and no
fairness: nobody has to run a command, and between the steps of one of several
writers any time may pass.

### Seeded faults

For every property of a passing run a definition has a faulty twin beside it
(named after it, with a suffix, and commented `Fault:`), a change a maintainer
might make by mistake; `PROJECT.json` says which property it must break.

## 4. What is proved

The theorems hold for every value of the constants that the named assumptions
allow. Each proof module extends the module it is about.

**`Edk2CompatProofs`**, for banks and queues of any length, any certificates and
any contents:

* `TypeInvariant`: `Spec => []TypeOK`.
* `StagingTheorem`: `Spec => []StagedChangesAreSigned`.
* `OutsidersTheorem`: `Spec => OutsidersChangeNothing`.
* `PkHoldersTheorem`: `Spec => PkHoldersMovePkAndKek`.
* `SetupModeTheorem`: `Spec => []SetupModeIsNoPk`.
* `VolatileTheorem`: `VolatileMeansEmpty`, if it holds of the loaded variables. The
  hypothesis stands in the theorem because it is not the backend's: `verify`
  loads every variable without the flag, and so meets it.
* `ReplayTheorem`: `Spec => NoReplay`.

Assumptions: certificates, digests and junk are disjoint
(`SignatureDataAssumption`), and the caller keeps its part: contents of updates
are empty or start with an ESL (`Whole`), and so do those of a loaded bank that has a PK
(`QueuesAssumption`, `BanksAssumption`). That `validateBanks` establishes them is
`BackendCalledAsAssumed`: checked by the `verify` run, proved in `VerifyProofs`.

The argument. `StagedChangesAreSigned` is not inductive alone. The inductive
invariant `Inv` adds `TypeOK`, that `setup_mode` during the loop says whether the
*current* bank has a PK, and `AuthoritiesWhole`: the contents of every authority of
the current bank start with an ESL if they are not empty, and the working copy
has the same authorities as long as no update changed them. The last matters because
`verify_signature` keeps its initial `OPAL_SUCCESS` when it finds no ESL to try:
contents that are not empty and hold no ESL would sign anything. The step of the
proof is then `ApplyUpdate`: `process_update` succeeded, so either the authority
that signed has the same contents in both banks, and its holder is a holder of
the current key, or it has been changed by an earlier update of the queue, and
the invariant already has that update's signer. Emptying all the authorities
without a signature (`OrphanReset`) does not get past this: emptying PK is itself
a change that the invariant accounts for.

For `ReplayTheorem` the invariant is `ReplayInv`: an update of the queue that the
loop has passed is no later than the time of its variable in the working copy,
these times only grow (`UpdateMovesTime`), and `process` reports success only when
the loop has seen the whole queue. An accepted update is strictly later than the
time it finds (`AcceptedIsLater`), so none passes a second time.

`RefinementTheorem`, `Spec => ImplementsKeyStore`, has the same assumptions. `LoopInv`
tells the loop in the words of the abstract store: before update `next` the working
copy is `After(next - 1)` of the bank (`StagedIsAfter`), every update passed so far
was legal in the store it met (`LegalSoFar`), and with a PK enrolled the authorities
in the working copy are `Whole`. That an applied update is legal (`AppliedIsLegal`)
comes from what `process_update` has seen to when it returns success
(`AcceptedIsEntitled`): one of the authorities holds a certificate that signed this
very message, or all of them are empty, and then the return value is the number of
ESLs, which is 0 for empty contents alone (`CountZero`). `FinishAccepts` then makes
the last step of a queue that went through the step `Accept`, and `EndsRejected` every
other end the step `Reject`; all other steps leave the abstract store alone.

**`VerifyProofs`**, for any arguments, files and failures. `ArgsAssumption` is all it
assumes of them: what `-u` gives are names with files of any kind, what is loaded
are variables, and only contents with room for a list header start with an ESL.

* `CallTheorem`: `verify` enters the backend only in a state that is an `Init` of
  `Edk2Compat`. `PreconditionTheorem`, `Spec => []BackendCalledAsAssumed`, follows: the
  two assumptions above are facts about this caller.
* `TypeTheorem`: `Spec => []TypeOK`.
* `WrittenTheorem`: `Spec => []SuccessMeansWritten`.
* `PromiseTheorem`: `Spec => KeepsPromise`, the refinement of `Submission`.
* `SignedTheorem`: `Spec => []SuccessMeansSigned`.

`CallInv` follows the loops of `validateBanks`: up to `next` every update is
`Accepted`, and every variable `Whole` if there is a PK; a loop is left only when
all of them are. From there on the lemmas of `Edk2CompatProofs` hold of the banks
of this caller (`Theory`, `TheoryApplies`), so `BackendInv` holds wherever the
command is in the backend, and a step of the backend is a step of the key store.
`CopyInv` says that what was set aside for `-w` is the queue that process works
on, until process clears it; with it the key store's `Accept` is the step `Decide` of
`Submission`, each write a `Submit`, and the rest a `Load` or not seen at all.
`WriteInv` tells the loop of `commitUpdateBank` from its middle: each update before
`next` that none has followed yet is what its file was last written for.

For `SignedTheorem`, `SameVerdict` says that `process_update` looks at nothing of a
bank but what its key variables hold and the update's own time, so two banks with the
`SameContents` get the same verdict. `SignedInv` then follows one update: the bank
that is loaded is the list given, if all of it is read; `pre_process` adds only
variables without contents; the first turn of the loop is on a copy of that bank.

**`LifecycleProofs`**, for any number of commands and reboots, any queue of update files
and any faults of writing, from `MachineAssumption`: `LTypeTheorem` (`LTypeOK`),
`NothingIsLostTheorem` (`NothingIsLost`), `NoRollbackTheorem` (`NoRollback`), and
`VerifiedAloneTheorem` (`VerifiedAloneIsAccepted`).

The backend's theorems do not apply at boot as they stand: the firmware's queue may
hold files that `write -f` never looked at, which `QueuesAssumption` excludes. So
`LInv` says whose turn it is and what that one may count on. `MachineInv` is the
stored bank (`Sound`, each variable once and VOLATILE only what is empty, and `Full`,
all five), the files and their order; `UserInv`, that between commands nothing is
loaded; `VerifyInv`, the invariants of `VerifyProofs`, which hold again because
`Verify` starts the command in a state that is one of its own initial states;
`BootInv`, that the backend's banks are sound and that the working copy is `NotBack`
from the stored bank: no time is earlier, and no contents have changed without a later
one. An applied update moves its own variable's time and nothing else, so this
survives the loop, and `Finish` installs the working copy or leaves what was there.
`NothingIsLost` and `NoRollback` then say that the step to the stored bank keeps
contents and times, because what `Persistent` leaves out is empty and is never `TS`
(`PersistentSame`).

`VerifiedAloneIsAccepted` compares two runs of the backend: the one inside `verify`,
on what the driver shows of the bank, and the one at boot, on the bank itself, with
the loads, the copies and the writing of the files in between. `Passes(queue, bank)`
says that a queue gets through: there is a `RunOf` it, the working copy after each
update, with each update accepted in the copy before it. `Reads` (what `verify` has
loaded is what is stored), `Judges` (its loop is such a run, and what it submits has
passed), `VouchInv` (so has what is vouched for) and `AgainInv` (the firmware, given
the same queue, is always in step with that run) carry the claim from the one to the
other; they need that `process_update` looks at nothing but contents and times
(`AcceptAlike`). The theorem assumes `"unreadable" \notin Faults`, as does the run: a
PK that cannot be read makes `verify` judge in setup mode (`MCVerify_Unread`), and the
firmware refuses what it let through.

What `Keep`, a recursive function, keeps of a bank is the lemma `Kept`. The induction
it takes is on a position, with a set in the place of a predicate: a smallest
counterexample (`WFMin`) stands in for the rule (`UpTo`; also in `ReadCommandProofs`).

**`FormatsProofs`**, for every file and every pair of widths with `2 * MaxLength < WORD`
and `4 * WORD <= SIZE` (`WidthAssumption`; files are made of what `FileAssumption` lists):
`InsideTheorem` (`TypeOK`), `SplitTheorem` (`SplitsAgree`), `NearTheorem`
(`SignatureNearItsList`), `FirstTheorem` (`VerdictIsFirst`), `ClosedFormTheorem`
(`LoopIsClosedForm`). The 2^32 and 2^64 of the code are instances, with `MaxLength` below
2^31. The inductive invariant adds to the types that every header read is one the file may
hold, where the ESLs were found (`Located`), and that the bytes a loop of `validate` or
`read` has behind it and those it counts as left add up to the file (`WalkStaysInside`);
`FirstTheorem` adds to it what the loop remembers of the first ESL (`FirstSeen`).
`NearTheorem` rests on `NoWrap`: two sizes that are each no more than what is left have a
sum below 2^32, since a file is shorter than 2^31.

`ClosedFormTheorem` justifies the closed form that `Edk2Update` has in the place of the
loop of `validate_esl_list`, where the first list's SignatureHeaderSize is 0. Its
invariant `Counted` tells that loop from the middle: after `count` turns `count` times the
first list's size is gone, and the last turn found room for a header and an owner. Where
it ends, `DivBounds` turns those bounds on products into the quotient of the closed form.
`Passed` brings from `validateAuth` that the first ESL is good, hence of positive size;
the count cannot come round, because every turn takes at least a byte.

**`TimestampsProofs`**, in any number base and any calendar (`CalendarAssumption`:
times have their fields, and a typed month has room for `+ 1`): `TypeInvariant`,
`ForwardTheorem` (`MovesForward`), `LaterTheorem` (`LaterIsAccepted`), `OursTheorem`
(`OursKeepTsValid`). `ForwardTheorem` and `LaterTheorem` rest on
`UnpackOrder`: packed numbers compare as the calendar does, by `ShiftOrder` for
one digit at a time.

**`UpdateFilesProofs`**, for any number of processes and contents of any length
(`ContentsAssumption`: contents are sequences of parts): `TypeInvariant`,
`ValidatedTheorem`, `LastTheorem`, `AloneTheorem`. The inductive invariant adds
that the file is empty as long as a process that has opened it is undisturbed,
and that whoever has written had a document to write. `last` is counted among
the types, since no step may bring back the buffer of a process that is done.

**`GenerateProofs`**, for any command lines, files, keys and banks
(`CommandsAssumption`, `LibraryAssumption`, `LengthAssumption`, `FilesAssumption`,
`BankAssumption`, `StrongAssumption`): `OnlyForceTheorem` (`OnlyForceSkips`),
`TypeInvariant` (`TypeOK`), `GeneratedTheorem` (`GeneratedIsAccepted`), and with
mbedTLS `SignatureTheorem` (`SignatureReplacesKey`); with OpenSSL it is false (section
5).

The invariant `OutcomeInvariant` says that a result is a function of what the command
was given; two of the claims then follow one command line, or three side by side,
through that function. `GInv` adds to the types that a command that succeeded was
`Ready`: its input was a file that was there, its times are times, its signature one
of those made. That is inductive because what any command writes is a file again
(`OutputIsFile`), on each of the ways through the switch. `GeneratedTheorem` puts
three pieces of code together: what `toAuth` and `toPKCS7ForSecVar` wrote
(`MadeWithKeys`), that contents made of one certificate, digest or nothing pass the
loop of `validate_esl_list` (`SinglePasses`), and that `verify_signature` gets as far
as an entitled certificate, past those in front of it that signed nothing
(`EntitledVerifies`). That a bank's contents are in no way assumed valid matters for
the last: `Entitled` has to stop at the first ESL without a certificate, as the code
does.

**`ReadCommandProofs`**, for any directory and any file given to `-f`, with the size
files texts of any length (`SizeAssumption`, `FilesAssumption`): `RTypeTheorem`
(`TypeOK`), `ShownTheorem` (`SuccessMeansShown`), `SoundTheorem` (`SoundIsShown`). The
invariant is `CountInv`, what is counted is what has been shown; `BoundInv`, nothing is
longer than its file; `PrintInv`, where the loop over the lists is and what it has found;
`TurnInv`, each variable the loop is past and that was asked for has been shown if it
could be and memory did not run out; and `ListInv`, each list printed has been followed
by the next, or is the one that `printReadable` has just stepped behind (`Behind`).
`WholeIsPrinted` says that a whole list passes the comparisons of the code. The other
lemmas are about text: where a run of characters ends
(`LeadingIs`), that reading digits gives a number in range and the one that was
written (`ValueIs`), and so that a size file as the driver writes it is read as the
size it states (`StatedIsRead`).

Only model-checked: the liveness properties (`Terminates`, `Ends`), which the proof
system has no support for. Every other property of a passing run is a theorem.

## 5. Findings

Four have a run whose counterexample shows them, and an entry in `PROJECT.json`.

1. `backend_lists`: `validate_esl_list` reads the first ESL again in every turn
   (`esl` where `esl + offset` is meant, `edk2-compat-process.c:294, 313`).
2. `backend_signed`: with all of its authorities empty, an update is judged by
   the count of its ESLs (`edk2-compat-process.c:802, 835`): a reset is accepted
   unsigned. It takes a queue that resets PK and KEK first, both signed.
3. `lifecycle_times`: the zero timestamps that `pre_process` writes for
   variables never updated do not pass `validateTS`, so after a first enrolment
   `verify` refuses everything until all four variables have been updated.
4. `formats_print`: `printReadable` does not check that an ESL's size is positive
   (`edk2-svc-read.c:358`): on a size of 0, `read` prints one ESL for ever.

The other configurations hold a property that a sentence of the documentation
or of a comment states and the code does not keep; `tlc -config <cfg>` of the
module before the underscore shows a counterexample.

| cfg | property | what the code does | what is said |
|---|---|---|---|
| `MCVerify_Unread` | `VerdictIsTrue` | `setupBanks` leaves out a current variable it cannot read (`edk2-svc-verify.c:300, 317`); without a readable PK that is setup mode, and unsigned updates are SUCCESS | `README.md:150` SUCCESS or FAILURE "if the update files are correctly signed by the current variables or not" |
| `MCVerify_Passed` | `SuccessMeansAllRead` | an update file that cannot be opened is passed over (`edk2-svc-verify.c:311`) | the same |
| `MCVerify_Short` | `SuccessMeansWhole` | `writeData` takes a short `write` for success (`generic.c:122-130`) | `README.md:161` "the updates will be commited to the "update" file" |
| `MCVerify_Twice` | `SuccessKeepsEveryUpdate` | of two verified updates of one variable, `-w` overwrites the first (`generic.c:117`) | the same; `test/runTests.py:58` verifies such a pair |
| `MCVerify_EmptyPk` | `EmptyPkIsSetupMode` | a PK without data is setup mode for the backend and an invalid ESL for `validateBanks` (`edk2-svc-verify.c:371`) | `test/runTests.py:116` "no data in pk ==setup mode" |
| `MCLifecycle_Pending` | `VerifiedIsAccepted` | `verify` does not look at updates already pending; boot refuses the queue as a whole | `edk2-svc-write.c:54` verify "will ensure that the submission will be successful upon reboot" |
| `MCLifecycle_Force` | `ForcedWriteWritesContent` | `write -f` of a file that cannot be read truncates the update file and can report SUCCESS (`edk2-svc-write.c:161-168`, `size` is not set) | `README.md:105` -f "writes content of "<file>" to "<variable>/update"" |
| `MCFormats_Size` | `SignatureInItsList` | the size of a list is compared without its own 28-byte header, and in 32 bits (`edk2-svc-validate.c:385`); `printReadable` has the same comparison (`edk2-svc-read.c:367`), and `get_esl_cert` then copies up to 28 bytes from behind the buffer (486-494) | `edk2-svc-validate.c:363` "only checks that sizes of field are valid" |
| `MCTimestamps_Foreign` | `AcceptedKeepTsValid` | a January that sign-efi-sig-list writes as month 0 is accepted, and `verify` refuses the TS it leaves (`edk2-svc-validate.c:633`) | `README.md:157` "TS holds no power of the variables" |
| `MCUpdateFiles_Mixed` | `SuccessMeansOneUpdate` | two processes both truncate, then write: the file may hold the shorter update and the rest of the longer one, both report SUCCESS | `generic.c:107-112` "writes size bytes of buff", "return 0 for success" |
| `MCGenerate_OpenSSL` | `SignatureReplacesKey` | built with OpenSSL, `-s` fails whatever it is given (`crypto-openssl.c:358`) | `README.md:191` -s "replaces -k <privKey>" |
| `MCGenerate_Reset` | `ResetIsValid` | `generate reset` with an RSA-4096 key succeeds, and `validate` refuses the file: only validation looks at the signer's strength | `README.md:188` "generates a valid variable reset file" |
| `MCReadCommand_Octal` | `SizeIsBase10` | `strtol(c, NULL, 0)` takes a leading 0 for base 8 (`edk2-svc-read.c:592`) | the comment at 591, "turn string into base 10 int" |

Smaller observations: `verify` returns OPAL codes and its own through one `rc`, and
they overlap (`OPAL_NO_MEM` and `INVALID_TIMESTAMP` are both -9); `README.md:184` has
seconds "00 through 59" where `validateTime` accepts 60.

## 6. Not modelled, and the plan

Not to be modelled: `external/extraMbedtls` and the insides of `crypto/` (DER
byte by byte, no control of the program's own; what their functions promise is
in `Edk2Update` and `Generate`), `main` and the choice of a backend (a look-up in
a table, of one backend), the macros of `list.h`, and printing.

Left of the code: `generate` with several pairs of `-s` and a failing output
file; the options of `verify` as text (`validateVarsArg`); a `read` while the
driver's files change at boot.

Proofs to come: that `VerifiedAloneIsAccepted` holds with unreadable files too, as long as
PK is read; that `UpdateFiles`, whose steps are system calls, implements the atomic
`WriteData` of `Lifecycle` when one process at a time writes.
