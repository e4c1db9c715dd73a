---------------------------- MODULE FunctionProofs ----------------------------
(***************************************************************************)
(* What keeps a function from its draft to a device, for any number of     *)
(* functions, contents, replicas, calls and crashes: the properties of     *)
(* FunctionServices, each from an invariant of the module it is about.     *)
(***************************************************************************)
EXTENDS FunctionServices, TLAPS

-----------------------------------------------------------------------------
(* FunctionStore *)

\* The call that holds the loop is an installation that found the directory.
HolderInstalls ==
    loop # NoStoreCall =>
        /\ Store!Open(loop, "install")
        /\ storing[loop].function \in dir
        /\ module[storing[loop].function] = storing[loop].artifact

\* Without its directory a function has no files, and it has none since it was uninstalled.
FilesAreInDirectories ==
    /\ gone \cap dir = {}
    /\ \A f \in Function \ dir : module[f] = Absent /\ named[f] = Absent

\* Contents, at rest and under way, are those installations asked for.
ContentsAreAllowed ==
    /\ \A f \in Function : module[f] \in allowed[f] \cup {Absent}
    /\ \A c \in StoreCall : storing[c] # NoStoreCall =>
         /\ storing[c].op = "install" => storing[c].artifact \in allowed[storing[c].function]
         /\ storing[c].ran \in allowed[storing[c].function] \cup {Absent}

\* Until a crash, metadata is behind its module only while the loop is held.
MetadataFollows ==
    crashes = 0 =>
        \A f \in Function : \/ module[f] = named[f]
                            \/ loop # NoStoreCall /\ storing[loop].function = f

\* The inductive invariant of the store.
StoreInv ==
    /\ Store!TypeOK
    /\ HolderInstalls /\ FilesAreInDirectories /\ ContentsAreAllowed /\ MetadataFollows

\* An empty store has all of it.
LEMMA StoreInit ==
    ASSUME Store!ConstantsFit, Store!Init PROVE StoreInv
<1> USE DEF Store!Init, Store!ConstantsFit
<1>1. Store!TypeOK
  BY DEF Store!TypeOK
<1> QED
  BY <1>1 DEF StoreInv, HolderInstalls, FilesAreInDirectories, ContentsAreAllowed, MetadataFollows

\* A call is still a record once it has ended.
LEMMA ClosedCalls ==
    ASSUME Store!TypeOK
    PROVE  /\ \A c \in StoreCall : storing[c] # NoStoreCall => Store!Closed(c) \in [StoreCall -> Store!Record \cup {NoStoreCall}]
           /\ [c \in StoreCall |-> IF storing[c] = NoStoreCall THEN NoStoreCall ELSE [storing[c] EXCEPT !.open = FALSE]]
                \in [StoreCall -> Store!Record \cup {NoStoreCall}]
<1>1. ASSUME NEW r \in Store!Record PROVE [r EXCEPT !.open = FALSE] \in Store!Record
  BY DEF Store!Record
<1> QED
  BY <1>1 DEF Store!TypeOK, Store!Closed

\* Every step of the store keeps its calls, files and counters within their types.
LEMMA StoreTypeStep ==
    ASSUME Store!ConstantsFit, StoreInv, [Store!Next]_(Store!vars)
    PROVE  Store!TypeOK'
<1> USE DEF Store!TypeOK, Store!ConstantsFit, StoreInv
<1>1. ASSUME NEW c \in StoreCall, NEW f \in Function, NEW a \in Artifact, Store!install(c, f, a)
      PROVE  Store!TypeOK'
  BY <1>1 DEF Store!install, Store!Record
<1>2. ASSUME NEW c \in StoreCall, Store!download_refused(c)
      PROVE  Store!TypeOK'
  BY <1>2, ClosedCalls DEF Store!download_refused, Store!Open
<1>3. ASSUME NEW c \in StoreCall, Store!write_module(c)
      PROVE  Store!TypeOK'
  <2>1. storing[c] \in Store!Record /\ storing[c].artifact \in Artifact \cup {Absent}
    BY <1>3 DEF Store!write_module, Store!Open, Store!Record
  <2> QED
    BY <1>3, <2>1, ClosedCalls DEF Store!write_module, Store!Open
<1>4. ASSUME NEW c \in StoreCall, Store!write_meta(c)
      PROVE  Store!TypeOK'
  <2>1. storing[c] # NoStoreCall /\ storing[c] \in Store!Record /\ storing[c].artifact \in Artifact \cup {Absent}
    BY <1>4 DEF Store!write_meta, HolderInstalls, Store!Open, Store!Record
  <2> QED
    BY <1>4, <2>1, ClosedCalls DEF Store!write_meta, Store!Record
<1>5. ASSUME NEW f \in Function, Store!uninstall(f)
      PROVE  Store!TypeOK'
  BY <1>5 DEF Store!uninstall
<1>6. ASSUME NEW c \in StoreCall, NEW f \in Function, Store!invoke(c, f)
      PROVE  Store!TypeOK'
  BY <1>6 DEF Store!invoke, Store!Record
<1>7. ASSUME NEW c \in StoreCall, Store!_run(c)
      PROVE  Store!TypeOK'
  BY <1>7 DEF Store!_run, Store!Record, Store!Open
<1>8. ASSUME Store!stops
      PROVE  Store!TypeOK'
  <2>1. named' \in [Function -> Artifact \cup {Absent}]
    BY <1>8 DEF Store!stops
  <2>2. module' \in [Function -> Artifact \cup {Torn, Absent}]
    BY <1>8 DEF Store!stops
  <2> QED
    BY <1>8, <2>1, <2>2, ClosedCalls DEF Store!stops
<1>9. CASE UNCHANGED Store!vars
  BY <1>9 DEF Store!vars
<1> QED
  BY <1>1, <1>2, <1>3, <1>4, <1>5, <1>6, <1>7, <1>8, <1>9 DEF Store!Next

\* Every step of the store keeps its invariant: an installation whose directory was
\* removed while it downloaded ends, and one that goes on holds the loop.
LEMMA StoreStep ==
    ASSUME Store!ConstantsFit, StoreInv, [Store!Next]_(Store!vars)
    PROVE  StoreInv'
<1> DEFINE P == (HolderInstalls /\ FilesAreInDirectories /\ ContentsAreAllowed /\ MetadataFollows)'
<1> SUFFICES P
  BY StoreTypeStep DEF StoreInv
<1> USE DEF Store!TypeOK, Store!ConstantsFit, StoreInv, HolderInstalls, FilesAreInDirectories,
            ContentsAreAllowed, MetadataFollows, Store!Open, Store!Closed, Store!Record
<1>1. ASSUME NEW c \in StoreCall, NEW f \in Function, NEW a \in Artifact, Store!install(c, f, a)
      PROVE  P
  BY <1>1 DEF Store!install
<1>2. ASSUME NEW c \in StoreCall, Store!download_refused(c)
      PROVE  P
  BY <1>2 DEF Store!download_refused
<1>3. ASSUME NEW c \in StoreCall, Store!write_module(c)
      PROVE  P
  BY <1>3 DEF Store!write_module
<1>4. ASSUME NEW c \in StoreCall, Store!write_meta(c)
      PROVE  P
  BY <1>4 DEF Store!write_meta
<1>5. ASSUME NEW f \in Function, Store!uninstall(f)
      PROVE  P
  BY <1>5 DEF Store!uninstall
<1>6. ASSUME NEW c \in StoreCall, NEW f \in Function, Store!invoke(c, f)
      PROVE  P
  BY <1>6 DEF Store!invoke
<1>7. ASSUME NEW c \in StoreCall, Store!_run(c)
      PROVE  P
  BY <1>7 DEF Store!_run
<1>8. ASSUME Store!stops
      PROVE  P
  BY <1>8 DEF Store!stops
<1>9. CASE UNCHANGED Store!vars
  BY <1>9 DEF Store!vars
<1> QED
  BY <1>1, <1>2, <1>3, <1>4, <1>5, <1>6, <1>7, <1>8, <1>9 DEF Store!Next

\* Every state of the store is one of the invariant.
LEMMA StoreInvariant == Store!Spec => []StoreInv
<1> USE FunctionAssumption
<1>1. Store!Init => StoreInv
  BY StoreInit
<1>2. StoreInv /\ [Store!Next]_(Store!vars) => StoreInv'
  BY StoreStep
<1> QED
  BY <1>1, <1>2, PTL DEF Store!Spec

\* A function that was uninstalled leaves no file behind, what an invocation runs is a
\* content that was installed under its name, and until a crash the metadata names the
\* module on disk, whatever calls of nexora-runtime overlap.
THEOREM StoreIsWhole == Store!Spec => [](Store!UninstalledStaysAway /\ Store!RunsWhole)
<1>1. StoreInv => Store!UninstalledStaysAway /\ Store!RunsWhole
  <2> SUFFICES ASSUME StoreInv PROVE Store!UninstalledStaysAway /\ Store!RunsWhole
    OBVIOUS
  <2> USE DEF StoreInv, Store!TypeOK
  <2>1. Store!UninstalledStaysAway
    BY DEF Store!UninstalledStaysAway, FilesAreInDirectories
  <2>2. \A c \in StoreCall : storing[c] # NoStoreCall /\ storing[c].op = "invoke" =>
           storing[c].ran \in allowed[storing[c].function] \cup {Absent}
    BY DEF ContentsAreAllowed
  <2>3. crashes = 0 /\ loop = NoStoreCall => module = named
    BY DEF MetadataFollows
  <2> QED
    BY <2>1, <2>2, <2>3 DEF Store!RunsWhole
<1> QED
  BY <1>1, StoreInvariant, PTL

-----------------------------------------------------------------------------
(* FunctionRuntime *)

\* Handlers that are at one of `ops`.
Calls(ops, metas, pins) == [op: ops, function: Function, meta: metas, pin: pins]

\* Where the running handler is, and what it holds.
HandlerShape ==
    \/ handler \in {Runtime!Idle, Runtime!Down}
    \/ /\ handler \in Calls({"write_wasm", "write_meta"}, Runtime!Meta, Artifact \cup {Absent})
       /\ handler.pin \in {handler.meta.artifact, Absent}
    \/ handler \in Calls({"rewrite_meta"}, Runtime!Meta, {Absent})
    \/ handler \in Calls({"unlink_wasm", "unlink_meta"}, {Absent}, {Absent})

\* The module is the one its metadata names, and the one asked for.
FilesAgree(f) ==
    /\ meta[f] # Torn
    /\ wasm[f] = IF meta[f] = Absent THEN Absent ELSE meta[f].artifact
    /\ pinned[f] # Absent => wasm[f] = pinned[f]

\* No handler is at work on f and none has left it half done.
OthersAgree ==
    \A f \in Function \ dirty : f # handler.function =>
        /\ FilesAgree(f)
        /\ handler # Runtime!Down => installed[f] = meta[f]

\* What the running handler has done already.
HalfDone ==
    LET f == handler.function IN
    /\ handler.op = "write_meta" => wasm[f] = handler.meta.artifact
    /\ handler.op = "rewrite_meta" /\ f \notin dirty =>
         /\ installed[f] = handler.meta
         /\ wasm[f] = handler.meta.artifact
         /\ pinned[f] # Absent => wasm[f] = pinned[f]
    /\ handler.op = "unlink_meta" => wasm[f] = Absent

\* The inductive invariant of the runtime.
RuntimeInv == Runtime!TypeOK /\ HandlerShape /\ OthersAgree /\ HalfDone

\* Without functions, memory and disk agree.
LEMMA RuntimeInit ==
    ASSUME Runtime!ConstantsFit, Runtime!Init PROVE RuntimeInv
<1> USE DEF Runtime!Init, Runtime!ConstantsFit, Runtime!Idle, Runtime!Down, Runtime!Handler
<1>1. Runtime!TypeOK
  BY DEF Runtime!TypeOK
<1> QED
  BY <1>1 DEF RuntimeInv, HandlerShape, OthersAgree, HalfDone, FilesAgree

\* Every step of nexora-function-runtime, a fault between two files included, keeps
\* memory and disk in agreement but for the functions it marks as interrupted.
LEMMA RuntimeStep ==
    ASSUME Runtime!ConstantsFit, RuntimeInv, [Runtime!Next]_(Runtime!vars)
    PROVE  RuntimeInv'
<1> USE DEF Runtime!ConstantsFit, RuntimeInv, Runtime!TypeOK, HandlerShape, OthersAgree, HalfDone,
            FilesAgree, Runtime!Idle, Runtime!Down, Runtime!Handler, Runtime!Meta, Calls
<1>1. ASSUME NEW f \in Function, NEW a \in Artifact, NEW e \in Artifact \cup {Absent},
             Runtime!install_function(f, a, e)
      PROVE  RuntimeInv'
  BY <1>1 DEF Runtime!install_function, Runtime!verified
<1>2. CASE Runtime!write_wasm
  BY <1>2 DEF Runtime!write_wasm
<1>3. CASE Runtime!write_meta
  BY <1>3 DEF Runtime!write_meta
<1>4. ASSUME NEW f \in Function, Runtime!invoke_function(f)
      PROVE  RuntimeInv'
  BY <1>4 DEF Runtime!invoke_function
<1>5. CASE Runtime!rewrite_meta
  BY <1>5 DEF Runtime!rewrite_meta
<1>6. ASSUME NEW f \in Function, Runtime!remove_function(f)
      PROVE  RuntimeInv'
  BY <1>6 DEF Runtime!remove_function
<1>7. CASE Runtime!unlink_wasm
  BY <1>7 DEF Runtime!unlink_wasm
<1>8. CASE Runtime!unlink_meta
  BY <1>8 DEF Runtime!unlink_meta
<1>9. CASE Runtime!fails
  BY <1>9 DEF Runtime!fails, Runtime!Interrupt
<1>10. CASE Runtime!stops
  BY <1>10 DEF Runtime!stops, Runtime!Interrupt
<1>11. CASE Runtime!_reload_installed
  BY <1>11 DEF Runtime!_reload_installed
<1>12. CASE UNCHANGED Runtime!vars
  BY <1>12 DEF Runtime!vars
<1> QED
  BY <1>1, <1>2, <1>3, <1>4, <1>5, <1>6, <1>7, <1>8, <1>9, <1>10, <1>11, <1>12
  DEF Runtime!Next

\* Every state of the runtime is one of the invariant.
LEMMA RuntimeInvariant == Runtime!Spec => []RuntimeInv
<1> USE FunctionAssumption
<1>1. Runtime!Init => RuntimeInv
  BY RuntimeInit
<1>2. RuntimeInv /\ [Runtime!Next]_(Runtime!vars) => RuntimeInv'
  BY RuntimeStep
<1> QED
  BY <1>1, <1>2, PTL DEF Runtime!Spec

\* Between handlers, and after any number of restarts, what the process believes
\* installed is what the disk holds, unless the function's last handler was interrupted.
THEOREM RuntimeKeepsItsFiles == Runtime!Spec => []Runtime!DiskIsTruth
<1> USE FunctionAssumption
<1>1. RuntimeInv => Runtime!DiskIsTruth
  BY DEF RuntimeInv, Runtime!ConstantsFit, OthersAgree, FilesAgree, Runtime!DiskIsTruth, Runtime!Idle,
         Runtime!Down, Runtime!Handler
<1> QED
  BY <1>1, RuntimeInvariant, PTL

-----------------------------------------------------------------------------
(* Plugins *)

\* What the handlers write: the columns of a payload, a status, or the result of a scan.
Change(op) ==
    CASE op = "update" -> Plugins!Changes
      [] op = "activate" -> {[status |-> "active"]}
      [] op = "deprecate" -> {[status |-> "deprecated"]}
      [] op = "scan" -> {[scan |-> s] : s \in Plugins!Scan}
                          \cup {[scan |-> s, sbom |-> TRUE] : s \in Plugins!Scan}
      [] op = "delete" -> {<< >>}

\* A handler between its read and its commit holds a change it may write to a row that
\* was there.
BlockShape(r) ==
    LET b == block[r] IN
    /\ b = [op |-> b.op, plugin |-> b.plugin, stale |-> b.stale, change |-> b.change]
    /\ b.op \in {"update", "delete", "activate", "deprecate", "scan"}
    /\ b.plugin \in Plugin /\ b.stale \in BOOLEAN
    /\ b.change \in Change(b.op)
    /\ plugin[b.plugin] # Unknown

\* A handler whose row has not changed since it was read may still do what it decided.
FreshBlock(r) ==
    LET b == block[r]
        row == plugin[b.plugin]
    IN  /\ row \in Plugins!Row
        /\ b.op \in {"update", "activate"} => row.status = "draft"
        /\ b.op = "activate" => Plugins!Ready(b.plugin, row)
        /\ b.op = "deprecate" => row.status = "active"

\* A row that left the drafts keeps the artifact its activation found ready.
KeepsItsActivation(p) ==
    /\ activated[p] # Unknown
    /\ Plugins!Ready(p, activated[p])
    /\ plugin[p] \in Plugins!Row =>
         plugin[p].status # "draft" /\ plugin[p].artifact = activated[p].artifact

\* Handlers between their read and their commit may go on, unless they are stale.
BlocksAreSound ==
    \A r \in Replica : block[r] # NoBlock =>
        BlockShape(r) /\ (block[r].stale \/ FreshBlock(r))

\* Without a race, a row that is active or deprecated is as it was activated.
RowsKeepTheirActivation ==
    \A p \in Plugin \ edited :
        plugin[p] \in Plugins!Row /\ plugin[p].status # "draft" => KeepsItsActivation(p)

\* So is what was dispatched of it, also when the row is deleted since.
EnvelopesKeepTheirActivation ==
    \A e \in envelope : e.plugin \notin edited =>
        /\ KeepsItsActivation(e.plugin) /\ plugin[e.plugin] # Unknown
        /\ e.artifact = activated[e.plugin].artifact

\* The inductive invariant of the plugins.
PluginInv ==
    /\ Plugins!TypeOK
    /\ BlocksAreSound /\ RowsKeepTheirActivation /\ EnvelopesKeepTheirActivation

\* What an UPDATE of the changed columns makes of a row: only a payload changes the
\* artifact, only activation and deprecation the status.
LEMMA WrittenRows ==
    ASSUME NEW row \in Plugins!Row, NEW op \in {"update", "activate", "deprecate", "scan"},
           NEW change \in Change(op),
           NEW written,
           written = [column \in DOMAIN row |->
                        IF column \in DOMAIN change THEN change[column] ELSE row[column]]
    PROVE  /\ written \in Plugins!Row
           /\ op = "activate" => written = [row EXCEPT !.status = "active"]
           /\ op = "deprecate" => written.status = "deprecated"
           /\ op \in {"update", "scan"} => written.status = row.status
           /\ op # "update" => written.artifact = row.artifact
<1> USE DEF Plugins!Row, Plugins!Scan, Plugins!Status
<1>1. CASE op = "update"
  <2>1. ASSUME NEW a \in Artifact, change = [artifact |-> a]
        PROVE  written \in Plugins!Row /\ written.status = row.status
    BY <2>1
  <2>2. ASSUME NEW b \in BOOLEAN, change = [sbom |-> b]
        PROVE  written \in Plugins!Row /\ written.status = row.status
    BY <2>2
  <2>3. CASE change = [entrypoint |-> TRUE]
    BY <1>1, <2>3
  <2> QED
    BY <1>1, <2>1, <2>2, <2>3 DEF Change, Plugins!Changes
<1>2. CASE op = "activate"
  BY <1>2 DEF Change
<1>3. CASE op = "deprecate"
  BY <1>3 DEF Change
<1>4. CASE op = "scan"
  <2>1. ASSUME NEW s \in Plugins!Scan, change = [scan |-> s]
        PROVE  written \in Plugins!Row /\ written.status = row.status /\ written.artifact = row.artifact
    BY <2>1
  <2>2. ASSUME NEW s \in Plugins!Scan, change = [scan |-> s, sbom |-> TRUE]
        PROVE  written \in Plugins!Row /\ written.status = row.status /\ written.artifact = row.artifact
    BY <2>2
  <2> QED
    BY <1>4, <2>1, <2>2 DEF Change
<1> QED
  BY <1>1, <1>2, <1>3, <1>4

\* Without rows there is nothing to keep.
LEMMA PluginInit ==
    ASSUME Plugins!ConstantsFit, Plugins!Init PROVE PluginInv
<1> USE DEF Plugins!Init, Plugins!ConstantsFit
<1>1. Plugins!TypeOK
  BY DEF Plugins!TypeOK, Plugins!Gone
<1> QED
  BY <1>1 DEF PluginInv, BlocksAreSound, RowsKeepTheirActivation, EnvelopesKeepTheirActivation

\* A handler that reads a row and decides by it opens a block the invariant allows.
LEMMA OpenStep ==
    ASSUME Plugins!ConstantsFit, PluginInv, NEW r \in Replica, NEW p \in Plugin,
           NEW op \in {"update", "delete", "activate", "deprecate", "scan"},
           NEW change \in Change(op), Plugins!Open(r, op, p, change),
           plugin[p] \in Plugins!Row,
           op \in {"update", "activate"} => plugin[p].status = "draft",
           op = "activate" => Plugins!Ready(p, plugin[p]),
           op = "deprecate" => plugin[p].status = "active"
    PROVE  PluginInv'
<1> USE DEF Plugins!Open, PluginInv, Plugins!ConstantsFit
<1>1. Plugins!TypeOK'
  BY DEF Plugins!TypeOK
<1>2. BlocksAreSound'
  <2> SUFFICES ASSUME NEW i \in Replica, block'[i] # NoBlock
               PROVE  BlockShape(i)' /\ (block'[i].stale \/ FreshBlock(i)')
    BY DEF BlocksAreSound
  <2> USE DEF BlocksAreSound, BlockShape, FreshBlock, Plugins!Ready, Plugins!TypeOK
  <2>1. CASE i # r
    BY <2>1
  <2>2. CASE i = r
    <3>1. block'[i] = [op |-> op, plugin |-> p, stale |-> FALSE, change |-> change]
      BY <2>2
    <3> QED
      BY <3>1
  <2> QED
    BY <2>1, <2>2
<1>3. RowsKeepTheirActivation' /\ EnvelopesKeepTheirActivation'
  BY DEF RowsKeepTheirActivation, EnvelopesKeepTheirActivation, KeepsItsActivation, Plugins!Ready
<1> QED
  BY <1>1, <1>2, <1>3

\* Every step of plugin-service, a commit that finds its row changed included, keeps
\* the activations of the rows that were not raced.
LEMMA PluginStep ==
    ASSUME Plugins!ConstantsFit, PluginInv, [Plugins!Next]_(Plugins!vars)
    PROVE  PluginInv'
<1> USE DEF Plugins!ConstantsFit, PluginInv, Plugins!TypeOK
<1>0. \A p \in Plugin : plugin[p] \notin Plugins!Gone <=> plugin[p] \in Plugins!Row
  BY DEF Plugins!Gone
<1>1. ASSUME NEW p \in Plugin, NEW row \in Plugins!Row, Plugins!create_plugin(p, row)
      PROVE  PluginInv'
  <2> USE <1>1 DEF Plugins!create_plugin, Plugins!Gone
  <2>1. Plugins!TypeOK'
    OBVIOUS
  <2>2. BlocksAreSound'
    BY DEF BlocksAreSound, BlockShape, FreshBlock, Plugins!Ready
  <2>3. RowsKeepTheirActivation' /\ EnvelopesKeepTheirActivation'
    BY DEF RowsKeepTheirActivation, EnvelopesKeepTheirActivation, KeepsItsActivation, Plugins!Ready
  <2> QED
    BY <2>1, <2>2, <2>3
<1>2. ASSUME NEW p \in Plugin, Plugins!dispatch_execution(p)
      PROVE  PluginInv'
  BY <1>0, <1>2 DEF Plugins!dispatch_execution, Plugins!Is, BlocksAreSound, BlockShape, FreshBlock, Plugins!Ready,
     RowsKeepTheirActivation, EnvelopesKeepTheirActivation, KeepsItsActivation, Plugins!Row
<1>3. ASSUME NEW r \in Replica, Plugins!commit(r)
      PROVE  PluginInv'
  <2> DEFINE b == block[r]
             p == b.plugin
             row == [column \in DOMAIN plugin[p] |->
                       IF column \in DOMAIN b.change THEN b.change[column] ELSE plugin[p][column]]
  <2>1. block[r] # NoBlock /\ BlockShape(r) /\ (b.stale \/ FreshBlock(r))
    BY <1>3 DEF Plugins!commit, BlocksAreSound
  <2>2. CASE plugin[p] = Removed
    <3>1. /\ block' = [block EXCEPT ![r] = NoBlock]
          /\ UNCHANGED <<plugin, edited, activated, envelope>>
      BY <1>3, <2>2 DEF Plugins!commit
    <3> QED
      BY <3>1 DEF BlocksAreSound, BlockShape, FreshBlock, Plugins!Ready,
         RowsKeepTheirActivation, EnvelopesKeepTheirActivation, KeepsItsActivation
  <2>3. CASE plugin[p] # Removed
    <3>1. /\ plugin' = [plugin EXCEPT ![p] = IF b.op = "delete" THEN Removed ELSE row]
          /\ edited' = IF b.stale THEN edited \cup {p} ELSE edited
          /\ activated' = IF b.op = "activate" THEN [activated EXCEPT ![p] = row] ELSE activated
          /\ block' = [i \in Replica |->
                         IF i = r THEN NoBlock
                         ELSE IF block[i] # NoBlock /\ block[i].plugin = p
                              THEN [block[i] EXCEPT !.stale = TRUE] ELSE block[i]]
          /\ envelope' = envelope
      BY <1>3, <2>3 DEF Plugins!commit
    <3>2. p \in Plugin /\ plugin[p] \in Plugins!Row /\ b.stale \in BOOLEAN
      BY <2>1, <2>3 DEF BlockShape, Plugins!Gone
    <3>3. b.op # "delete" =>
            /\ row \in Plugins!Row
            /\ b.op = "activate" => row = [plugin[p] EXCEPT !.status = "active"]
            /\ b.op = "deprecate" => row.status = "deprecated"
            /\ b.op \in {"update", "scan"} => row.status = plugin[p].status
            /\ b.op # "update" => row.artifact = plugin[p].artifact
      <4> HIDE DEF row
      <4> SUFFICES ASSUME b.op # "delete"
                   PROVE  b.op \in {"update", "activate", "deprecate", "scan"} /\ b.change \in Change(b.op)
        BY <3>2, WrittenRows DEF row
      <4> QED
        BY <2>1 DEF BlockShape
    <3> HIDE DEF row
    <3>4. Plugins!TypeOK'
      <4>1. plugin' \in [Plugin -> Plugins!Row \cup Plugins!Gone]
        BY <3>1, <3>2, <3>3 DEF Plugins!Gone
      <4>2. activated' \in [Plugin -> Plugins!Row \cup {Unknown}]
        BY <3>1, <3>2, <3>3
      <4>3. DOMAIN block' = Replica
        BY <3>1
      <4>4. ASSUME NEW i \in Replica, block'[i] # NoBlock
            PROVE  block'[i].op \in {"update", "delete", "activate", "deprecate", "scan"}
        BY <3>1, <4>4 DEF BlocksAreSound, BlockShape
      <4> QED
        BY <3>1, <3>2, <4>1, <4>2, <4>3, <4>4
    <3>5. BlocksAreSound'
      <4> SUFFICES ASSUME NEW i \in Replica, block'[i] # NoBlock
                   PROVE  BlockShape(i)' /\ (block'[i].stale \/ FreshBlock(i)')
        BY DEF BlocksAreSound
      <4>1. i # r /\ block[i] # NoBlock /\ BlockShape(i) /\ (block[i].stale \/ FreshBlock(i))
        BY <3>1 DEF BlocksAreSound
      <4>2. CASE block[i].plugin = p
        <5>1. block'[i] = [block[i] EXCEPT !.stale = TRUE]
          BY <3>1, <4>1, <4>2
        <5>2. plugin'[p] # Unknown
          BY <3>1, <3>2, <3>3
        <5> QED
          BY <4>1, <4>2, <5>1, <5>2 DEF BlockShape
      <4>3. CASE block[i].plugin # p
        <5>1. block'[i] = block[i] /\ plugin'[block[i].plugin] = plugin[block[i].plugin]
          BY <3>1, <4>1, <4>3 DEF BlockShape
        <5> QED
          BY <4>1, <5>1 DEF BlockShape, FreshBlock, Plugins!Ready
      <4> QED
        BY <4>2, <4>3
    <3>6. ASSUME NEW q \in Plugin \ edited', plugin'[q] \in Plugins!Row, plugin'[q].status # "draft"
          PROVE  KeepsItsActivation(q)'
      <4>1. CASE q # p
        BY <3>1, <3>6, <4>1 DEF RowsKeepTheirActivation, KeepsItsActivation, Plugins!Ready
      <4>2. CASE q = p
        <5>1. ~b.stale /\ FreshBlock(r) /\ p \notin edited /\ b.op # "delete"
          BY <2>1, <3>1, <3>2, <3>6, <4>2
        <5>2. CASE b.op = "activate"
          <6>1. plugin'[q] = row /\ activated'[q] = row /\ row # Unknown
            BY <3>1, <3>2, <3>3, <4>2, <5>1, <5>2
          <6>2. Plugins!Ready(q, plugin[q])
            BY <4>2, <5>1, <5>2 DEF FreshBlock
          <6>3. Plugins!Ready(q, row)
            BY <3>2, <3>3, <4>2, <5>1, <5>2, <6>2 DEF Plugins!Ready, Plugins!Row
          <6> QED
            BY <3>6, <6>1, <6>3 DEF KeepsItsActivation, Plugins!Ready
        <5>3. CASE b.op # "activate"
          <6>1. plugin'[q] = row /\ activated' = activated
            BY <3>1, <3>2, <4>2, <5>1, <5>3
          <6>2. /\ plugin[p].status # "draft" /\ row.artifact = plugin[p].artifact
                /\ b.op \in {"deprecate", "scan"}
            BY <2>1, <3>3, <3>6, <5>1, <5>3, <6>1 DEF BlockShape, FreshBlock
          <6>3. KeepsItsActivation(q) /\ plugin'[q].artifact = plugin[q].artifact
            BY <3>2, <4>2, <5>1, <6>1, <6>2 DEF RowsKeepTheirActivation
          <6>4. plugin[q].artifact = activated[q].artifact
            BY <3>2, <4>2, <6>3 DEF KeepsItsActivation
          <6>5. activated[q] # Unknown /\ Plugins!Ready(q, activated[q])
            BY <6>3 DEF KeepsItsActivation
          <6>6. Plugins!Ready(q, activated[q])'
            BY <6>1, <6>5 DEF Plugins!Ready
          <6> HIDE DEF p
          <6> QED
            BY <3>6, <6>1, <6>3, <6>4, <6>5, <6>6 DEF KeepsItsActivation
        <5> QED
          BY <5>2, <5>3
      <4> QED
        BY <4>1, <4>2
    <3>7. ASSUME NEW e \in envelope', e.plugin \notin edited'
          PROVE  /\ KeepsItsActivation(e.plugin)' /\ plugin'[e.plugin] # Unknown
                 /\ e.artifact = activated'[e.plugin].artifact
      <4>1. /\ e \in envelope /\ e.plugin \in Plugin /\ e.plugin \notin edited
            /\ KeepsItsActivation(e.plugin) /\ plugin[e.plugin] # Unknown
            /\ e.artifact = activated[e.plugin].artifact
        BY <3>1, <3>7 DEF EnvelopesKeepTheirActivation
      <4>2. CASE e.plugin # p
        BY <3>1, <4>1, <4>2 DEF KeepsItsActivation, Plugins!Ready
      <4>3. CASE e.plugin = p
        <5>1. FreshBlock(r) /\ plugin[p].status # "draft" /\ b.op # "activate"
          BY <2>1, <3>1, <3>2, <3>7, <4>1, <4>3 DEF KeepsItsActivation, FreshBlock
        <5>2. activated' = activated
          BY <3>1, <5>1
        <5>3. plugin'[p] \in Plugins!Row => plugin'[p].status # "draft"
          BY <2>1, <3>1, <3>2, <3>3, <5>1 DEF BlockShape, FreshBlock, Plugins!Gone
        <5>4. plugin'[p] # Unknown
          BY <3>1, <3>2, <3>3
        <5>5. CASE plugin'[p] \in Plugins!Row
          <6>1. KeepsItsActivation(e.plugin)'
            BY <3>2, <3>6, <3>7, <4>3, <5>3, <5>5
          <6> QED
            BY <4>1, <4>3, <5>2, <5>4, <6>1
        <5>6. CASE plugin'[p] \notin Plugins!Row
          BY <4>1, <4>3, <5>2, <5>4, <5>6 DEF KeepsItsActivation, Plugins!Ready
        <5> QED
          BY <5>5, <5>6
      <4> QED
        BY <4>2, <4>3
    <3> QED
      BY <3>4, <3>5, <3>6, <3>7 DEF RowsKeepTheirActivation, EnvelopesKeepTheirActivation
  <2> QED
    BY <2>2, <2>3
<1>4. ASSUME NEW r \in Replica, Plugins!abort(r)
      PROVE  PluginInv'
  BY <1>4 DEF Plugins!abort, BlocksAreSound, BlockShape, FreshBlock, Plugins!Ready,
     RowsKeepTheirActivation, EnvelopesKeepTheirActivation, KeepsItsActivation
<1>5. ASSUME NEW r \in Replica, NEW p \in Plugin, Plugins!delete_plugin(r, p)
      PROVE  PluginInv'
  BY <1>0, <1>5, OpenStep DEF Plugins!delete_plugin, Change
<1>6. ASSUME NEW r \in Replica, NEW p \in Plugin, Plugins!activate_plugin(r, p)
      PROVE  PluginInv'
  BY <1>0, <1>6, OpenStep DEF Plugins!activate_plugin, Plugins!Is, Change
<1>7. ASSUME NEW r \in Replica, NEW p \in Plugin, Plugins!deprecate_plugin(r, p)
      PROVE  PluginInv'
  BY <1>0, <1>7, OpenStep DEF Plugins!deprecate_plugin, Plugins!Is, Change
<1>8. ASSUME NEW r \in Replica, NEW p \in Plugin, NEW change \in Plugins!Changes,
             Plugins!update_plugin(r, p, change)
      PROVE  PluginInv'
  BY <1>0, <1>8, OpenStep DEF Plugins!update_plugin, Plugins!Is, Change
<1>9. ASSUME NEW r \in Replica, NEW p \in Plugin, NEW scan \in Plugins!Scan, NEW sbom \in BOOLEAN,
             Plugins!record_plugin_security_scan(r, p, scan, sbom)
      PROVE  PluginInv'
  <2> DEFINE change == IF sbom THEN [scan |-> scan, sbom |-> TRUE] ELSE [scan |-> scan]
  <2>1. change \in Change("scan")
    BY DEF Change
  <2>2. plugin[p] \in Plugins!Row /\ Plugins!Open(r, "scan", p, change)
    BY <1>0, <1>9 DEF Plugins!record_plugin_security_scan
  <2> QED
    BY <2>1, <2>2, OpenStep
<1>10. CASE UNCHANGED Plugins!vars
  BY <1>10 DEF Plugins!vars, BlocksAreSound, BlockShape, FreshBlock, Plugins!Ready,
     RowsKeepTheirActivation, EnvelopesKeepTheirActivation, KeepsItsActivation
<1> QED
  BY <1>1, <1>2, <1>3, <1>4, <1>5, <1>6, <1>7, <1>8, <1>9, <1>10 DEF Plugins!Next

\* Every state of the registry is one of the invariant.
LEMMA PluginInvariant == Plugins!Spec => []PluginInv
<1> USE FunctionAssumption
<1>1. Plugins!Init => PluginInv
  BY PluginInit
<1>2. PluginInv /\ [Plugins!Next]_(Plugins!vars) => PluginInv'
  BY PluginStep
<1> QED
  BY <1>1, <1>2, PTL DEF Plugins!Spec

\* Unless two handlers overlapped on its row, every envelope of a plugin carries the
\* artifact it was activated with, and a function was ready when it was activated: the
\* row is edited as a draft alone, and dispatched when it is no draft any more.
THEOREM EnvelopesAreOfActivations == Plugins!Spec => []DispatchedAsActivated
<1>1. PluginInv => DispatchedAsActivated
  BY DEF DispatchedAsActivated, PluginInv, EnvelopesKeepTheirActivation, KeepsItsActivation, Plugins!DispatchedAsActivated
<1> QED
  BY <1>1, PluginInvariant, PTL

-----------------------------------------------------------------------------
(* Both runtimes *)

\* Both runtimes beside each other keep their functions whole.
THEOREM FunctionsStayWhole == Runtime!Spec /\ Store!Spec => []FunctionsAreWhole
<1>1. Runtime!Spec => []Runtime!DiskIsTruth
  BY RuntimeKeepsItsFiles
<1>2. Store!Spec => [](Store!UninstalledStaysAway /\ Store!RunsWhole)
  BY StoreIsWhole
<1> QED
  BY <1>1, <1>2, PTL DEF FunctionsAreWhole
===============================================================================
