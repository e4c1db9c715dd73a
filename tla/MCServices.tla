------------------------------ MODULE MCServices -------------------------------
(***************************************************************************)
(* The data services and what keeps data on a device, on small instances:  *)
(* device-service and an agent's credentials, fleets and what is rolled    *)
(* out to them, the functions' registry and the two runtimes that install  *)
(* functions.  They share no state but the fleet's, so one of them moves   *)
(* in a behaviour: `focus` says which.  What they tell each other (a claim *)
(* creates a device, a delete leaves its shadow) each has as an action.    *)
(* DataServices holds the instances of the modules and their properties.   *)
(***************************************************************************)
EXTENDS DataServices, TLC

CONSTANTS u1, u2, d1, d2, x1, x2, y1, y2, z1, z2, f1, q1, None,
          Focus     \* the modules that move

VARIABLE focus

\* Sizes that leave devices out, and sizes that end with a ring without devices.
TwoSizes == {<<1>>, <<1, 2>>}

discovery == <<request, paired, call, handed, raced>>
shadows == <<present, shadow, writer, fresh>>
records == <<device, used, reborn, consent, trail, consenting, crossed>>
telemetry == <<sample, slo, violation, batch, published, due>>
credentials == <<tpm, nv, file, temporary, saving, pairings, latest, broken, troubled>>
fleets == <<fleet, member, health, status, row, op>>
plugins == <<plugin, block, edited, activated, envelope>>
runtime == <<engine, wasm, meta, installed, handler, pinned, dirty, faults>>
store == <<dir, module, named, storing, loop, allowed, gone, crashes>>
device_service == <<discovery, shadows, records, telemetry, credentials>>
functions == <<plugins, runtime, store>>

\* A rollout is to a fleet of one member or of two; a runbook asks for no fleet.
ServicesInit ==
    /\ focus \in Focus
    /\ Init /\ Shadow!Init /\ DeviceRecords!Init /\ Telemetry!Init
    /\ Credentials!Init /\ (tpm => focus = "credentials")
    /\ \/ focus # "rollouts" /\ Rollouts!Init
       \/ focus = "rollouts" /\ \E members \in {{d1}, {d1, d2}} : Rollouts!InitWith(f1, members)
    /\ Plugins!Init /\ Runtime!Init /\ (focus = "runtime" \/ engine = "stub") /\ Store!Init

\* Once every batch is done or lost nobody holds a sample against an objective any more: the
\* objectives change no further.
Unread == \E s \in Sample : batch[s] \notin {"done", "lost"}

ServicesNext ==
    \/ /\ \/ /\ focus = "discovery" /\ Next
             /\ UNCHANGED <<shadows, records, telemetry, credentials>>
          \/ /\ focus = "shadow" /\ Shadow!Next
             /\ UNCHANGED <<discovery, records, telemetry, credentials>>
          \/ /\ focus = "records" /\ DeviceRecords!Next
             /\ UNCHANGED <<discovery, shadows, telemetry, credentials>>
          \/ /\ focus = "telemetry" /\ Telemetry!Next /\ (IF Unread THEN TRUE ELSE UNCHANGED slo)
             /\ UNCHANGED <<discovery, shadows, records, credentials>>
          \/ /\ focus = "credentials" /\ Credentials!Next
             /\ UNCHANGED <<discovery, shadows, records, telemetry>>
       /\ UNCHANGED <<focus, fleets, functions>>
    \/ /\ \/ /\ focus = "fleet" /\ (Rollouts!FleetChanges \/ Rollouts!FleetReports)
             /\ UNCHANGED <<row, op>>
          \/ focus = "rollouts" /\ Rollouts!Calls
       /\ UNCHANGED <<focus, device_service, functions>>
    \/ /\ \/ focus = "plugins" /\ Plugins!Next /\ UNCHANGED <<runtime, store>>
          \/ focus = "runtime" /\ Runtime!Next /\ UNCHANGED <<plugins, store>>
          \/ focus = "store" /\ Store!Next /\ UNCHANGED <<plugins, runtime>>
       /\ UNCHANGED <<focus, device_service, fleets>>

ServicesSpec == ServicesInit /\ [][ServicesNext]_<<focus, device_service, fleets, functions>>

\* What differs by name alone.  As one module moves in a behaviour, they share their values:
\* writers, objectives, replicas and calls the x, metrics, artifacts and owners the y, samples
\* and requests the z.
Symmetry == Permutations({x1, x2}) \cup Permutations({y1, y2}) \cup Permutations({z1, z2})

-----------------------------------------------------------------------------
\* A deploy leaves no member of its fleet out, as its docstring says; the code does.
DeployReaches == Rollouts!DeployReaches
=============================================================================
