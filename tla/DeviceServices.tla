---------------------------- MODULE DeviceServices ----------------------------
(***************************************************************************)
(* What device-service and an agent keep of a device: its shadow (Shadow), *)
(* the credentials in its TPM or its file (Credentials), its row with the  *)
(* consents of its owners (DeviceRecords) and its samples with the         *)
(* objectives they are held against (Telemetry).  They share no state: a   *)
(* device that is deleted leaves its shadow, and each module has that as   *)
(* an action.                                                              *)
(***************************************************************************)
EXTENDS Integers, FiniteSets

CONSTANTS
    Key, Value, NoValue, Keep, Writer, MaxVersion,          \* Shadow
    Pairing, NoPairing, MaxFaults,                          \* Credentials
    Device, User, NoUser, Operators, Subject, Handling,     \* DeviceRecords
    Metric, Number, Slo, Missing, Deleted, Sample, MaxTime, Comparisons,
    TopMetrics, Medium, High, Limit                         \* Telemetry

VARIABLES
    present, shadow, writer, fresh,                                     \* Shadow
    tpm, nv, file, temporary, saving, pairings, latest, broken, troubled,   \* Credentials
    device, used, reborn, consent, trail, consenting, crossed,          \* DeviceRecords
    sample, slo, violation, batch, published, due                       \* Telemetry

Shadow == INSTANCE Shadow WITH device <- present
Credentials == INSTANCE Credentials WITH used <- pairings, faults <- broken
DeviceRecords == INSTANCE DeviceRecords WITH
    Call <- Handling, call <- consenting, raced <- crossed
Telemetry == INSTANCE Telemetry WITH Value <- Number, Operators <- Comparisons

\* The markers are no values, and the bounds are numbers.
ASSUME DeviceAssumption ==
    Shadow!ConstantsFit /\ Credentials!ConstantsFit /\ Telemetry!ConstantsFit

-----------------------------------------------------------------------------
(* Properties *)

\* A shadow's delta is what its commit left although updates were lost before it, and an
\* event carries the delta the row has.
ShadowIsCoherent == Shadow!DeltaHeals /\ Shadow!EventsAreCurrent

\* An agent that starts loads the credential it saved last, crash or not.
LoadsLastSaved == Credentials!LoadsLastSaved

\* Consent and its trail are the owners', and violations are of the samples.
RecordsAccount ==
    /\ DeviceRecords!ConsentsAreTheOwners /\ DeviceRecords!TrailAccounts
    /\ Telemetry!ViolationsAccount
=============================================================================
