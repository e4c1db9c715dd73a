--------------------------- MODULE FunctionServices ---------------------------
(***************************************************************************)
(* What keeps a function from its draft to a device: the plugins and their *)
(* activations (Plugins), the files of nexora-function-runtime             *)
(* (FunctionRuntime) and those of nexora-runtime (FunctionStore).  The two *)
(* runtimes install the same contents, each for itself.                    *)
(***************************************************************************)
EXTENDS Naturals, FiniteSets

CONSTANTS
    Plugin, Modules, NoArtifact, Replica, NoBlock, Unknown, Removed, ScanRequired,  \* Plugins
    Function, Artifact, Torn, Absent,           \* both runtimes
    MaxInvocations, MaxInterrupts,              \* FunctionRuntime
    StoreCall, NoStoreCall, MaxCrashes          \* FunctionStore

VARIABLES
    plugin, block, edited, activated, envelope,                     \* Plugins
    engine, wasm, meta, installed, handler, pinned, dirty, faults,  \* FunctionRuntime
    dir, module, named, storing, loop, allowed, gone, crashes       \* FunctionStore

Plugins == INSTANCE Plugins WITH
    Function <- Modules, Missing <- Unknown, Deleted <- Removed, raced <- edited
Runtime == INSTANCE FunctionRuntime WITH MaxFaults <- MaxInterrupts
Store == INSTANCE FunctionStore WITH
    None <- Absent, Call <- StoreCall, NoCall <- NoStoreCall,
    wasm <- module, meta <- named, call <- storing

\* The markers are no contents, rows or calls, and the bounds are numbers.
ASSUME FunctionAssumption ==
    Plugins!ConstantsFit /\ Runtime!ConstantsFit /\ Store!ConstantsFit

-----------------------------------------------------------------------------
(* Properties *)

\* A function is dispatched as its activated version has it, whatever is edited meanwhile.
DispatchedAsActivated == Plugins!DispatchedAsActivated

\* The runtimes run what is whole on disk, and nothing that was uninstalled.
FunctionsAreWhole == Runtime!DiskIsTruth /\ Store!UninstalledStaysAway /\ Store!RunsWhole
=============================================================================
