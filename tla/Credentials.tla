----------------------------- MODULE Credentials ------------------------------
(***************************************************************************)
(* nexora-agent: where a device keeps the credentials pairing gave it.     *)
(* With a TPM they are sealed in an NV index, without one, or when sealing *)
(* fails, in a file.  One process runs at a time (the CLI or the service); *)
(* it may die between two steps of a save.                                 *)
(***************************************************************************)
EXTENDS Naturals

CONSTANTS
    Pairing, NoPairing, \* what pairing gave, once each
    MaxFaults           \* crashes and TPMs that do not answer

VARIABLES
    tpm,        \* whether the device has a TPM
    nv,         \* the NV index: undefined, defined but not written, or a pairing
    file,       \* credentials.json
    temporary,  \* credentials.tmp
    saving,     \* the save under way
    used,       \* pairings so far
    latest,     \* the pairing last saved to the end, NoPairing after a reset
    faults, troubled

vars == <<tpm, nv, file, temporary, saving, used, latest, faults, troubled>>

Undefined == "undefined"
Unwritten == "unwritten"
Stages == {"idle", "undefine", "define", "write", "file", "rename"}

\* What the constants have to be for the proofs.
ConstantsFit ==
    /\ NoPairing \notin Pairing
    /\ {Undefined, Unwritten} \cap Pairing = {}
    /\ MaxFaults \in Nat

TypeOK ==
    /\ tpm \in BOOLEAN
    /\ nv \in Pairing \cup {Undefined, Unwritten}
    /\ file \in Pairing \cup {NoPairing} /\ temporary \in Pairing \cup {NoPairing}
    /\ saving \in [step: Stages, what: Pairing \cup {NoPairing}]
    /\ used \subseteq Pairing /\ latest \in Pairing \cup {NoPairing}
    /\ faults \in 0..MaxFaults /\ troubled \in BOOLEAN

Idle == [step |-> "idle", what |-> NoPairing]

Init ==
    /\ tpm \in BOOLEAN
    /\ nv = Undefined /\ file = NoPairing /\ temporary = NoPairing
    /\ saving = Idle /\ used = {} /\ latest = NoPairing
    /\ faults = 0 /\ troubled = FALSE

-----------------------------------------------------------------------------
\* _tpm_load swallows its own errors: only a TPM that does not open (ok = FALSE) makes
\* load look at the file.
_tpm_load == IF nv \in Pairing THEN nv ELSE NoPairing

load(ok) == IF tpm /\ ok THEN _tpm_load ELSE file

At(step) == saving.step = step
Go(step) == saving' = [saving EXCEPT !.step = step]

\* run_pairing saves what it got, paired before or not.
save(p) ==
    /\ At("idle") /\ p \notin used
    /\ used' = used \cup {p}
    /\ saving' = [step |-> IF tpm THEN "undefine" ELSE "file", what |-> p]
    /\ UNCHANGED <<tpm, nv, file, temporary, latest, faults, troubled>>

undefine_space ==
    /\ At("undefine") /\ Go("define")
    /\ nv' = Undefined
    /\ UNCHANGED <<tpm, file, temporary, used, latest, faults, troubled>>

define_space ==
    /\ At("define") /\ Go("write")
    /\ nv' = Unwritten
    /\ UNCHANGED <<tpm, file, temporary, used, latest, faults, troubled>>

nv_write ==
    /\ At("write")
    /\ nv' = saving.what /\ latest' = saving.what
    /\ saving' = Idle
    /\ UNCHANGED <<tpm, file, temporary, used, faults, troubled>>

\* The TPM fails at any of its steps: the file is written instead.
tpm_fails ==
    /\ saving.step \in {"undefine", "define", "write"} /\ faults < MaxFaults
    /\ Go("file")
    /\ faults' = faults + 1 /\ troubled' = TRUE
    /\ UNCHANGED <<tpm, nv, file, temporary, used, latest>>

\* Mutant: the file is written in place.
_file_save_in_place ==
    /\ At("file") /\ Go("rename")
    /\ file' = NoPairing /\ temporary' = saving.what
    /\ UNCHANGED <<tpm, nv, used, latest, faults, troubled>>

_file_save ==
    /\ At("file") /\ Go("rename")
    /\ temporary' = saving.what
    /\ UNCHANGED <<tpm, nv, file, used, latest, faults, troubled>>

file_rename ==
    /\ At("rename")
    /\ file' = temporary /\ temporary' = NoPairing /\ latest' = saving.what
    /\ saving' = Idle
    /\ UNCHANGED <<tpm, nv, used, faults, troubled>>

\* `nexora-agent reset`, once load has found credentials; a TPM that does not open is
\* passed over.
clear(ok) ==
    /\ At("idle") /\ load(ok) # NoPairing
    /\ ~ok => tpm /\ faults < MaxFaults
    /\ nv' = IF tpm /\ ok THEN Undefined ELSE nv
    /\ file' = NoPairing /\ latest' = NoPairing
    /\ faults' = IF ok THEN faults ELSE faults + 1
    /\ troubled' = (troubled \/ ~ok)
    /\ UNCHANGED <<tpm, temporary, saving, used>>

\* A crash between undefining and writing loses what the TPM held.
crash ==
    /\ ~At("idle") /\ faults < MaxFaults
    /\ saving' = Idle
    /\ faults' = faults + 1
    /\ troubled' = (troubled \/ saving.step \in {"define", "write"})
    /\ UNCHANGED <<tpm, nv, file, temporary, used, latest>>

Next ==
    \/ undefine_space \/ define_space \/ nv_write \/ tpm_fails
    \/ _file_save \/ file_rename \/ crash
    \/ \E p \in Pairing : save(p)
    \/ \E ok \in BOOLEAN : clear(ok)

Spec == Init /\ [][Next]_vars

-----------------------------------------------------------------------------
(* Properties *)

\* What load answers is the last pairing that was saved to the end, or none after a
\* reset, through crashes at any step, unless the TPM failed or the process died
\* between undefining and writing the index.
LoadsLastSaved ==
    At("idle") /\ ~troubled => load(TRUE) = latest
=============================================================================
