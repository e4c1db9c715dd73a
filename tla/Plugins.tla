------------------------------- MODULE Plugins --------------------------------
(***************************************************************************)
(* plugin-service: the life of one function or plugin from draft to        *)
(* deprecated, and execution-service, which sends its artifact to devices. *)
(* A handler reads the row, decides and commits; replicas overlap there,   *)
(* and an UPDATE names the row by id and writes the changed columns alone. *)
(***************************************************************************)
EXTENDS Naturals, FiniteSets

CONSTANTS
    Plugin, Function,       \* the rows whose module_type is "function"
    Artifact, NoArtifact,
    Replica, NoBlock,
    Missing, Deleted,
    ScanRequired            \* PLUGIN_SECURITY_SCAN_REQUIRED

VARIABLES
    plugin,     \* the table plugins
    block,      \* the handler of each replica between its read and its commit
    raced,      \* rows that changed between a handler's read and its commit
    activated,  \* the row as its activation left it
    envelope    \* artifacts the executions that were dispatched carry

vars == <<plugin, block, raced, activated, envelope>>

Status == {"draft", "active", "deprecated"}
Scan == {"pending", "passed", "failed"}
Row == [status: Status, artifact: Artifact \cup {NoArtifact}, entrypoint: BOOLEAN,
        sbom: BOOLEAN, scan: Scan]

Gone == {Missing, Deleted}

\* What the constants have to be for the proofs.
ConstantsFit ==
    Missing # Deleted /\ {Missing, Deleted} \cap Row = {}

TypeOK ==
    /\ plugin \in [Plugin -> Row \cup Gone]
    /\ activated \in [Plugin -> Row \cup {Missing}]
    /\ raced \subseteq Plugin
    /\ envelope \subseteq [plugin: Plugin, artifact: Artifact \cup {NoArtifact}]
    /\ DOMAIN block = Replica
    /\ \A r \in Replica : block[r] # NoBlock =>
         block[r].op \in {"update", "delete", "activate", "deprecate", "scan"}

Init ==
    /\ plugin = [p \in Plugin |-> Missing]
    /\ block = [r \in Replica |-> NoBlock]
    /\ raced = {}
    /\ activated = [p \in Plugin |-> Missing]
    /\ envelope = {}

-----------------------------------------------------------------------------
create_plugin(p, row) ==
    /\ plugin[p] = Missing
    /\ row \in Row /\ row.status = "draft" /\ ~row.sbom /\ row.scan = "pending"
    /\ plugin' = [plugin EXCEPT ![p] = row]
    /\ UNCHANGED <<block, raced, activated, envelope>>

\* A handler reads a row and holds the columns it is going to write; it is stale when
\* the row has changed since.
Open(r, op, p, change) ==
    /\ block[r] = NoBlock
    /\ block' = [block EXCEPT ![r] = [op |-> op, plugin |-> p, stale |-> FALSE,
                                      change |-> change]]
    /\ UNCHANGED <<plugin, raced, activated, envelope>>

Is(p, status) == plugin[p] \notin Gone /\ plugin[p].status = status

\* Mutant: an active plugin can be updated.
update_plugin_any(r, p, change) ==
    /\ plugin[p] \notin Gone
    /\ Open(r, "update", p, change)

\* Only a draft is updated; its scan stays what it was.
update_plugin(r, p, change) ==
    /\ Is(p, "draft")
    /\ Open(r, "update", p, change)

delete_plugin(r, p) == plugin[p] \notin Gone /\ Open(r, "delete", p, << >>)

\* What a function needs before it is activated.
Ready(p, row) ==
    p \in Function =>
        /\ row.artifact # NoArtifact
        /\ row.entrypoint
        /\ ScanRequired => row.sbom /\ row.scan = "passed"

activate_plugin(r, p) ==
    /\ Is(p, "draft")
    /\ Ready(p, plugin[p])
    /\ Open(r, "activate", p, [status |-> "active"])

deprecate_plugin(r, p) == Is(p, "active") /\ Open(r, "deprecate", p, [status |-> "deprecated"])

\* In any status; the scan may bring its SBOM along.
record_plugin_security_scan(r, p, scan, sbom) ==
    /\ plugin[p] \notin Gone
    /\ Open(r, "scan", p, IF sbom THEN [scan |-> scan, sbom |-> TRUE] ELSE [scan |-> scan])

\* The UPDATE or DELETE of a row that is gone changes nothing.
commit(r) ==
    /\ block[r] # NoBlock
    /\ LET b == block[r]
           p == b.plugin
           row == [column \in DOMAIN plugin[p] |->
                     IF column \in DOMAIN b.change THEN b.change[column] ELSE plugin[p][column]]
       IN  IF plugin[p] = Deleted
           THEN /\ block' = [block EXCEPT ![r] = NoBlock]
                /\ UNCHANGED <<plugin, raced, activated>>
           ELSE /\ plugin' = [plugin EXCEPT ![p] = IF b.op = "delete" THEN Deleted ELSE row]
                /\ raced' = IF b.stale THEN raced \cup {p} ELSE raced
                /\ activated' = IF b.op = "activate" THEN [activated EXCEPT ![p] = row]
                                                     ELSE activated
                /\ block' = [i \in Replica |->
                                IF i = r THEN NoBlock
                                ELSE IF block[i] # NoBlock /\ block[i].plugin = p
                                     THEN [block[i] EXCEPT !.stale = TRUE] ELSE block[i]]
    /\ UNCHANGED envelope

\* The process or the database is lost before the commit.
abort(r) ==
    /\ block[r] # NoBlock
    /\ block' = [block EXCEPT ![r] = NoBlock]
    /\ UNCHANGED <<plugin, raced, activated, envelope>>

\* dispatch_execution of an install or an invocation embeds the row it is answered.
dispatch_execution(p) ==
    /\ Is(p, "active")
    /\ envelope' = envelope \cup {[plugin |-> p, artifact |-> plugin[p].artifact]}
    /\ UNCHANGED <<plugin, block, raced, activated>>

\* The payloads of an update: some columns of the row.
Changes == {[artifact |-> a] : a \in Artifact} \cup {[sbom |-> b] : b \in BOOLEAN}
             \cup {[entrypoint |-> TRUE]}

Next ==
    \/ \E p \in Plugin, row \in Row : create_plugin(p, row)
    \/ \E p \in Plugin : dispatch_execution(p)
    \/ \E r \in Replica : commit(r) \/ abort(r)
    \/ \E r \in Replica, p \in Plugin :
         \/ delete_plugin(r, p) \/ activate_plugin(r, p) \/ deprecate_plugin(r, p)
         \/ \E change \in Changes : update_plugin(r, p, change)
         \/ \E scan \in Scan, sbom \in BOOLEAN :
              record_plugin_security_scan(r, p, scan, sbom)

Spec == Init /\ [][Next]_vars

-----------------------------------------------------------------------------
(* Properties *)

\* Unless two handlers overlapped on its row, every envelope of a plugin carries the
\* artifact it was activated with, and a function was ready when it was activated.
DispatchedAsActivated ==
    \A e \in envelope :
        e.plugin \notin raced =>
            /\ activated[e.plugin] # Missing
            /\ Ready(e.plugin, activated[e.plugin])
            /\ e.artifact = activated[e.plugin].artifact
=============================================================================
