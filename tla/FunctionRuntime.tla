--------------------------- MODULE FunctionRuntime ----------------------------
(***************************************************************************)
(* nexora-function-runtime: the functions installed on a device.  Its      *)
(* handlers never await, so they run one at a time, but each writes or     *)
(* removes two files: the process can stop, or the disk fail, in between.  *)
(***************************************************************************)
EXTENDS Naturals, FiniteSets

CONSTANTS
    Function,
    Artifact,           \* contents; a checksum names one
    Absent, Torn,       \* a file that is not there, or was half written
    MaxInvocations, MaxFaults

VARIABLES
    engine,         \* "wasmtime", or "stub" where it is not installed
    wasm, meta,     \* the two files of each function
    installed,      \* _installed
    handler,        \* what the running handler does next
    pinned,         \* checksum each function was last installed with
    dirty,          \* functions whose files were left by an interrupted handler, and
                    \* not installed or removed since
    faults

vars == <<engine, wasm, meta, installed, handler, pinned, dirty, faults>>

Meta == [artifact: Artifact, invocations: 0..MaxInvocations]
Handler(op, f, m, pin) == [op |-> op, function |-> f, meta |-> m, pin |-> pin]
Idle == Handler("idle", Absent, Absent, Absent)
Down == Handler("down", Absent, Absent, Absent)

\* What the constants have to be for the proofs.
ConstantsFit ==
    /\ Absent # Torn
    /\ {Absent, Torn} \cap (Function \cup Artifact \cup Meta) = {}
    /\ MaxInvocations \in Nat /\ MaxFaults \in Nat

TypeOK ==
    /\ engine \in {"wasmtime", "stub"}
    /\ wasm \in [Function -> Artifact \cup {Absent, Torn}]
    /\ meta \in [Function -> Meta \cup {Absent, Torn}]
    /\ installed \in [Function -> Meta \cup {Absent}]
    /\ handler.op \in {"idle", "down", "write_wasm", "write_meta", "rewrite_meta",
                       "unlink_wasm", "unlink_meta"}
    /\ pinned \in [Function -> Artifact \cup {Absent}]
    /\ dirty \subseteq Function
    /\ faults \in 0..MaxFaults

Init ==
    /\ engine \in {"wasmtime", "stub"}
    /\ wasm = [f \in Function |-> Absent]
    /\ meta = [f \in Function |-> Absent]
    /\ installed = [f \in Function |-> Absent]
    /\ handler = Idle
    /\ pinned = [f \in Function |-> Absent]
    /\ dirty = {}
    /\ faults = 0

-----------------------------------------------------------------------------
\* Mutant: the checksum is not verified.
verified_never(content, expected) == TRUE

\* A payload without a checksum is not verified.
verified(content, expected) == expected \in {content, Absent}

\* What the URI serves is downloaded and verified before anything is written.
install_function(f, content, expected) ==
    /\ handler = Idle
    /\ verified(content, expected)
    /\ handler' = Handler("write_wasm", f, [artifact |-> content, invocations |-> 0], expected)
    /\ UNCHANGED <<engine, wasm, meta, installed, pinned, dirty, faults>>

write_wasm ==
    /\ handler.op = "write_wasm"
    /\ wasm' = [wasm EXCEPT ![handler.function] = handler.meta.artifact]
    /\ handler' = [handler EXCEPT !.op = "write_meta"]
    /\ UNCHANGED <<engine, meta, installed, pinned, dirty, faults>>

write_meta ==
    /\ handler.op = "write_meta"
    /\ LET f == handler.function
       IN  /\ meta' = [meta EXCEPT ![f] = handler.meta]
           /\ installed' = [installed EXCEPT ![f] = handler.meta]
           /\ pinned' = [pinned EXCEPT ![f] = handler.pin]
           /\ dirty' = dirty \ {f}
    /\ handler' = Idle
    /\ UNCHANGED <<engine, wasm, faults>>

\* The module is compiled outside of the try: a file that holds none raises, and so does
\* the handler.  A function that traps or runs out of fuel has an answer, and is counted.
_execute_wasmtime(f) == wasm[f] \in Artifact

\* The stub looks whether the file is there, and no further.
_execute_stub(f) == wasm[f] # Absent

_execute_wasm(f) == IF engine = "wasmtime" THEN _execute_wasmtime(f) ELSE _execute_stub(f)

\* The count of what has an answer is kept in memory first.
invoke_function(f) ==
    /\ handler = Idle
    /\ installed[f] # Absent
    /\ wasm[f] # Absent
    /\ _execute_wasm(f)
    /\ installed[f].invocations < MaxInvocations
    /\ installed' = [installed EXCEPT ![f].invocations = @ + 1]
    /\ handler' = Handler("rewrite_meta", f, installed'[f], Absent)
    /\ UNCHANGED <<engine, wasm, meta, pinned, dirty, faults>>

\* Mutant: the invocation is counted in memory only.
rewrite_meta_not ==
    /\ handler.op = "rewrite_meta"
    /\ handler' = Idle
    /\ UNCHANGED <<engine, wasm, meta, installed, pinned, dirty, faults>>

rewrite_meta ==
    /\ handler.op = "rewrite_meta"
    /\ meta' = [meta EXCEPT ![handler.function] = handler.meta]
    /\ handler' = Idle
    /\ UNCHANGED <<engine, wasm, installed, pinned, dirty, faults>>

remove_function(f) ==
    /\ handler = Idle
    /\ installed[f] # Absent
    /\ handler' = Handler("unlink_wasm", f, Absent, Absent)
    /\ UNCHANGED <<engine, wasm, meta, installed, pinned, dirty, faults>>

unlink_wasm ==
    /\ handler.op = "unlink_wasm"
    /\ wasm' = [wasm EXCEPT ![handler.function] = Absent]
    /\ handler' = [handler EXCEPT !.op = "unlink_meta"]
    /\ UNCHANGED <<engine, meta, installed, pinned, dirty, faults>>

unlink_meta ==
    /\ handler.op = "unlink_meta"
    /\ LET f == handler.function
       IN  /\ meta' = [meta EXCEPT ![f] = Absent]
           /\ installed' = [installed EXCEPT ![f] = Absent]
           /\ pinned' = [pinned EXCEPT ![f] = Absent]
           /\ dirty' = dirty \ {f}
    /\ handler' = Idle
    /\ UNCHANGED <<engine, wasm, faults>>

\* What a write that does not end leaves of its file; a removal leaves what is not
\* removed yet.
Interrupt ==
    /\ faults < MaxFaults
    /\ faults' = faults + 1
    /\ dirty' = dirty \cup ({handler.function} \ {Absent})
    /\ IF handler.op = "write_wasm"
       THEN \E w \in {wasm[handler.function], Torn} :
              wasm' = [wasm EXCEPT ![handler.function] = w]
       ELSE UNCHANGED wasm
    /\ IF handler.op \in {"write_meta", "rewrite_meta"}
       THEN \E m \in {meta[handler.function], Torn} :
              meta' = [meta EXCEPT ![handler.function] = m]
       ELSE UNCHANGED meta
    /\ UNCHANGED <<engine, pinned>>

\* The disk fails: the handler ends with an error and the process goes on.
fails ==
    /\ handler \notin {Idle, Down}
    /\ Interrupt
    /\ handler' = Idle
    /\ UNCHANGED installed

stops ==
    /\ handler # Down
    /\ Interrupt
    /\ handler' = Down
    /\ installed' = [f \in Function |-> Absent]

\* Functions whose metadata is readable are installed again.
_reload_installed ==
    /\ handler = Down
    /\ installed' = [f \in Function |-> IF meta[f] = Torn THEN Absent ELSE meta[f]]
    /\ handler' = Idle
    /\ UNCHANGED <<engine, wasm, meta, pinned, dirty, faults>>

Next ==
    \/ write_wasm \/ write_meta \/ rewrite_meta \/ unlink_wasm \/ unlink_meta
    \/ fails \/ stops \/ _reload_installed
    \/ \E f \in Function :
         \/ invoke_function(f) \/ remove_function(f)
         \/ \E content \in Artifact, expected \in Artifact \cup {Absent} :
              install_function(f, content, expected)

Spec == Init /\ [][Next]_vars

-----------------------------------------------------------------------------
(* Properties *)

\* Between handlers, and after any number of restarts, what the process believes is
\* installed is what the disk holds: the metadata with its count, and the content it
\* names, which is the one the installation asked for.  Only a function whose last
\* handler was interrupted may differ.
DiskIsTruth ==
    handler = Idle => \A f \in Function \ dirty :
        /\ installed[f] = meta[f]
        /\ wasm[f] = IF meta[f] = Absent THEN Absent ELSE meta[f].artifact
        /\ pinned[f] # Absent => wasm[f] = pinned[f]
=============================================================================
