---------------------------- MODULE FunctionStore -----------------------------
(***************************************************************************)
(* nexora-runtime, the store and the executor beside nexora-agent.  An     *)
(* installation awaits its download and then writes without awaiting; an   *)
(* invocation reads the metadata in the event loop and the module in a     *)
(* thread, while other calls go on.  The process can stop at any point.    *)
(***************************************************************************)
EXTENDS Naturals, FiniteSets

CONSTANTS
    Function,
    Artifact,       \* contents; a checksum names one
    Torn,           \* a file that is half written
    None,
    Call, NoCall,
    MaxCrashes

VARIABLES
    dir,        \* functions whose directory exists
    wasm, meta, \* function.wasm and the artifact meta.json names
    call,       \* the HTTP calls
    loop,       \* the call that holds the event loop between two of its writes
    allowed,    \* contents a verified download may have installed, of each function
    gone,       \* functions with no installation begun since they were uninstalled
    crashes

vars == <<dir, wasm, meta, call, loop, allowed, gone, crashes>>

Record == [op: {"install", "invoke"}, function: Function, artifact: Artifact \cup {None},
           ran: Artifact \cup {Torn, None}, open: BOOLEAN]

\* What the constants have to be for the proofs.
ConstantsFit ==
    /\ NoCall \notin Call
    /\ {None, Torn} \cap Artifact = {}
    /\ MaxCrashes \in Nat

TypeOK ==
    /\ dir \subseteq Function
    /\ wasm \in [Function -> Artifact \cup {Torn, None}]
    /\ meta \in [Function -> Artifact \cup {None}]
    /\ call \in [Call -> Record \cup {NoCall}]
    /\ loop \in Call \cup {NoCall}
    /\ allowed \in [Function -> SUBSET Artifact]
    /\ gone \subseteq Function
    /\ crashes \in 0..MaxCrashes

Init ==
    /\ dir = {}
    /\ wasm = [f \in Function |-> None]
    /\ meta = [f \in Function |-> None]
    /\ call = [c \in Call |-> NoCall]
    /\ loop = NoCall
    /\ allowed = [f \in Function |-> {}]
    /\ gone = Function
    /\ crashes = 0

-----------------------------------------------------------------------------
Closed(c) == [call EXCEPT ![c].open = FALSE]
Open(c, op) == call[c] # NoCall /\ call[c].op = op /\ call[c].open

\* The directory is made before the download.
install(c, f, artifact) ==
    /\ loop = NoCall /\ call[c] = NoCall
    /\ call' = [call EXCEPT ![c] = [op |-> "install", function |-> f, artifact |-> artifact,
                                    ran |-> None, open |-> TRUE]]
    /\ dir' = dir \cup {f}
    /\ allowed' = [allowed EXCEPT ![f] = @ \cup {artifact}]
    /\ gone' = gone \ {f}
    /\ UNCHANGED <<wasm, meta, loop, crashes>>

\* The download fails, or is not what the checksum says.
download_refused(c) ==
    /\ loop = NoCall /\ Open(c, "install")
    /\ call' = Closed(c)
    /\ UNCHANGED <<dir, wasm, meta, loop, allowed, gone, crashes>>

\* Mutant: the directory is made again after the download.
write_module_anyway(c) ==
    /\ loop = NoCall /\ Open(c, "install")
    /\ LET f == call[c].function
       IN  wasm' = [wasm EXCEPT ![f] = call[c].artifact] /\ dir' = dir \cup {f}
    /\ loop' = c
    /\ UNCHANGED <<meta, call, allowed, gone, crashes>>

\* Mutant: the module is written in place, so half of it can be read.
write_module_in_place(c) ==
    /\ loop = NoCall /\ Open(c, "install")
    /\ LET f == call[c].function
       IN  /\ f \in dir
           /\ \/ wasm' = [wasm EXCEPT ![f] = Torn] /\ UNCHANGED loop
              \/ wasm' = [wasm EXCEPT ![f] = call[c].artifact] /\ loop' = c
    /\ UNCHANGED <<dir, meta, call, allowed, gone, crashes>>

\* The temporary file is renamed over the module; without its directory it cannot be
\* written and the call fails.
write_module(c) ==
    /\ loop = NoCall /\ Open(c, "install")
    /\ LET f == call[c].function
       IN  IF f \in dir
           THEN wasm' = [wasm EXCEPT ![f] = call[c].artifact] /\ loop' = c /\ UNCHANGED call
           ELSE call' = Closed(c) /\ UNCHANGED <<wasm, loop>>
    /\ UNCHANGED <<dir, meta, allowed, gone, crashes>>

write_meta(c) ==
    /\ loop = c
    /\ meta' = [meta EXCEPT ![call[c].function] = call[c].artifact]
    /\ call' = Closed(c)
    /\ loop' = NoCall
    /\ UNCHANGED <<dir, wasm, allowed, gone, crashes>>

\* uninstall removes the directory and all in it.
uninstall(f) ==
    /\ loop = NoCall
    /\ wasm[f] # None
    /\ dir' = dir \ {f}
    /\ wasm' = [wasm EXCEPT ![f] = None]
    /\ meta' = [meta EXCEPT ![f] = None]
    /\ gone' = gone \cup {f}
    /\ UNCHANGED <<call, loop, allowed, crashes>>

\* An invocation starts if the module and its metadata are there.
invoke(c, f) ==
    /\ loop = NoCall /\ call[c] = NoCall
    /\ wasm[f] # None /\ meta[f] # None
    /\ call' = [call EXCEPT ![c] = [op |-> "invoke", function |-> f, artifact |-> meta[f],
                                    ran |-> None, open |-> TRUE]]
    /\ UNCHANGED <<dir, wasm, meta, loop, allowed, gone, crashes>>

\* The thread loads the module that is there now; it goes on after a time-out.
_run(c) ==
    /\ Open(c, "invoke")
    /\ call' = [call EXCEPT ![c].ran = wasm[call[c].function], ![c].open = FALSE]
    /\ UNCHANGED <<dir, wasm, meta, loop, allowed, gone, crashes>>

\* The process stops; the removal it was doing may be half done, and metadata that is
\* half written cannot be read.
stops ==
    /\ crashes < MaxCrashes
    /\ crashes' = crashes + 1
    /\ \/ UNCHANGED <<wasm, meta>>
       \/ /\ loop # NoCall
          /\ meta' = [meta EXCEPT ![call[loop].function] = None]
          /\ UNCHANGED wasm
       \/ \E f \in Function :
            /\ loop = NoCall /\ wasm[f] # None
            /\ \E w \in {wasm[f], None}, m \in {meta[f], None} :
                 wasm' = [wasm EXCEPT ![f] = w] /\ meta' = [meta EXCEPT ![f] = m]
    /\ call' = [c \in Call |-> IF call[c] = NoCall THEN NoCall
                                                   ELSE [call[c] EXCEPT !.open = FALSE]]
    /\ loop' = NoCall
    /\ UNCHANGED <<dir, allowed, gone>>

Next ==
    \/ \E c \in Call :
         \/ download_refused(c) \/ write_module(c) \/ write_meta(c) \/ _run(c)
         \/ \E f \in Function :
              \/ invoke(c, f)
              \/ \E a \in Artifact : install(c, f, a)
    \/ \E f \in Function : uninstall(f)
    \/ stops

Spec == Init /\ [][Next]_vars

-----------------------------------------------------------------------------
(* Properties *)

\* An uninstalled function stays away until an installation begins after it: one that
\* was downloading meanwhile does not bring it back.
UninstalledStaysAway == \A f \in gone : wasm[f] = None /\ meta[f] = None

\* Whatever overlaps or crashes, what an invocation runs is a whole module that some
\* installation asked for, and while the process has not crashed the metadata is that
\* of the module.
RunsWhole ==
    /\ \A c \in Call : call[c] # NoCall /\ call[c].op = "invoke" =>
         call[c].ran \in allowed[call[c].function] \cup {None}
    /\ crashes = 0 /\ loop = NoCall => wasm = meta
=============================================================================
