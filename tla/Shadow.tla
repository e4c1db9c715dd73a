-------------------------------- MODULE Shadow --------------------------------
(***************************************************************************)
(* device-service: the shadow of one device, its desired and its reported  *)
(* state with the delta between them and a version.  Owners write the      *)
(* desired state, the agent the reported one, by the shadow endpoint or    *)
(* with a heartbeat, and the three overlap: a handler SELECTs the row,     *)
(* merges, UPDATEs the columns it changed, reads the row again for its     *)
(* answer and publishes what it computed.                                  *)
(*                                                                         *)
(* A document maps each key to a value or to NoValue, which is both an     *)
(* absent key and null.                                                    *)
(***************************************************************************)
EXTENDS Naturals

CONSTANTS Key, Value, NoValue, Keep, Writer, MaxVersion

VARIABLES
    device,     \* whether the device's row exists
    shadow,     \* the table device_shadows: the empty set or one row
    writer,     \* handlers of updates between two steps
    fresh       \* whether the last commit found the row as its handler had read it

\* What the constants have to be for the proofs.
ConstantsFit ==
    MaxVersion \in Nat /\ MaxVersion >= 2 /\ Keep \notin Value \cup {NoValue}

vars == <<device, shadow, writer, fresh>>

Document == [Key -> Value \cup {NoValue}]
Empty == [k \in Key |-> NoValue]
Row == [desired: Document, reported: Document, delta: Document, version: 1..MaxVersion]
NewRow == [desired |-> Empty, reported |-> Empty, delta |-> Empty, version |-> 1]

\* What a request carries of each key: a value, null or nothing (Keep).
Update == [Key -> Value \cup {NoValue, Keep}]

Side == {"desired", "reported", "heartbeat"}
Idle == [step |-> "idle"]

\* `read` is the row the handler found, `alone` whether no other has committed since,
\* `delta` and `version` what it will publish.
Reading == [step: {"read"}, side: Side, body: Update, read: SUBSET Row, alone: BOOLEAN]
Committed == [step: {"committed"}, delta: Document, version: 1..MaxVersion, alone: BOOLEAN]

TypeOK ==
    /\ device \in BOOLEAN
    /\ shadow \in SUBSET Row /\ \A row, other \in shadow : row = other
    /\ writer \in [Writer -> Reading \cup Committed \cup {Idle}]
    /\ fresh \in BOOLEAN

Init ==
    /\ device = TRUE /\ shadow = {}
    /\ writer = [w \in Writer |-> Idle]
    /\ fresh = TRUE

-----------------------------------------------------------------------------
_compute_delta(desired, reported) ==
    [k \in Key |-> IF desired[k] # NoValue /\ reported[k] # desired[k]
                     THEN desired[k] ELSE NoValue]

Merge(old, body) == [k \in Key |-> IF body[k] = Keep THEN old[k] ELSE body[k]]

\* Mutant: the delta is computed before the update is merged.
Merged_delta_first(row, s, body) ==
    [desired |-> IF s = "desired" THEN Merge(row.desired, body) ELSE row.desired,
     reported |-> IF s = "desired" THEN row.reported ELSE Merge(row.reported, body),
     delta |-> _compute_delta(row.desired, row.reported), version |-> row.version + 1]

\* The row as an update of side s with this body makes it.  A heartbeat keeps its
\* nulls in the document; no reader tells them from absent keys.
Merged(row, s, body) ==
    LET desired == IF s = "desired" THEN Merge(row.desired, body) ELSE row.desired
        reported == IF s = "desired" THEN row.reported ELSE Merge(row.reported, body)
    IN  [desired |-> desired, reported |-> reported,
         delta |-> _compute_delta(desired, reported), version |-> row.version + 1]

\* An UPDATE sets the columns whose value differs from what was read.
Written(now, read, new) ==
    [c \in DOMAIN new |-> IF new[c] # read[c] THEN new[c] ELSE now[c]]

\* Every other handler that is under way has been overtaken.
Overtake(w, next) ==
    [o \in Writer |-> IF o = w THEN next
                      ELSE IF writer[o] = Idle THEN Idle
                      ELSE [writer[o] EXCEPT !.alone = FALSE]]

-----------------------------------------------------------------------------
\* 404 if there is no device.
_get_or_create_shadow(w, s, body) ==
    /\ device
    /\ writer[w] = Idle
    /\ \A row \in shadow : row.version < MaxVersion
    /\ writer' = [writer EXCEPT ![w] = [step |-> "read", side |-> s, body |-> body,
                                        read |-> shadow, alone |-> TRUE]]
    /\ UNCHANGED <<device, shadow, fresh>>

\* Mutant: the version the row had is published with the new delta.
Event_old_version(read, new, alone) ==
    [step |-> "committed", delta |-> new.delta, version |-> read.version, alone |-> alone]

Event(read, new, alone) ==
    [step |-> "committed", delta |-> new.delta, version |-> new.version, alone |-> alone]

\* Mutant: a row inserted in between is no conflict.
Commit_insert(w) ==
    /\ writer[w].step = "read"
    /\ LET old == writer[w].read
           now == IF old = {} THEN NewRow ELSE CHOOSE r \in old : TRUE
           new == Merged(now, writer[w].side, writer[w].body)
       IN  /\ shadow' = (shadow \ old) \cup {new}
           /\ writer' = Overtake(w, Event(now, new, FALSE))
    /\ UNCHANGED <<device, fresh>>

Commit(w) ==
    /\ writer[w].step = "read"
    /\ (writer[w].read = {}) = (shadow = {})
    /\ LET read == IF shadow = {} THEN NewRow ELSE CHOOSE r \in writer[w].read : TRUE
           now == IF shadow = {} THEN NewRow ELSE CHOOSE r \in shadow : TRUE
           new == Merged(read, writer[w].side, writer[w].body)
       IN  /\ shadow' = {Written(now, read, new)}
           /\ fresh' = (now = read)
           /\ writer' = Overtake(w, Event(read, new, writer[w].alone))
    /\ UNCHANGED device

\* The row was inserted or deleted in between: the flush or the UPDATE fails, and so
\* does the request.
Conflict(w) ==
    /\ writer[w].step = "read"
    /\ (writer[w].read = {}) # (shadow = {})
    /\ writer' = [writer EXCEPT ![w] = Idle]
    /\ UNCHANGED <<device, shadow, fresh>>

\* device.shadow.delta, or device.shadow.synced when the delta is empty; desired and
\* heartbeat publish nothing then.  The refresh fails if the row is gone.
Publish(w) ==
    /\ writer[w].step = "committed"
    /\ writer' = [writer EXCEPT ![w] = Idle]
    /\ UNCHANGED <<device, shadow, fresh>>

delete_shadow ==
    /\ device /\ shadow # {}
    /\ shadow' = {}
    /\ writer' = [o \in Writer |-> IF writer[o] = Idle THEN Idle
                                   ELSE [writer[o] EXCEPT !.alone = FALSE]]
    /\ UNCHANGED <<device, fresh>>

\* Deleting a device leaves its shadow; registering its id again finds it.
delete_device == device /\ device' = FALSE /\ UNCHANGED <<shadow, writer, fresh>>
register_agent == ~device /\ device' = TRUE /\ UNCHANGED <<shadow, writer, fresh>>

Next ==
    \/ delete_shadow \/ delete_device \/ register_agent
    \/ \E w \in Writer :
         \/ Commit(w) \/ Conflict(w) \/ Publish(w)
         \/ \E s \in Side, body \in Update : _get_or_create_shadow(w, s, body)

Spec == Init /\ [][Next]_vars

-----------------------------------------------------------------------------
(* Properties *)

\* A commit that found the row as it had read it leaves the delta of what the row
\* then holds, whatever lost updates came before it: the delta heals.
DeltaHeals ==
    fresh => \A row \in shadow : row.delta = _compute_delta(row.desired, row.reported)

\* What a handler publishes is the delta and the version the row has then, unless
\* another has committed since it read.
EventsAreCurrent ==
    \A w \in Writer : writer[w].step = "committed" /\ writer[w].alone =>
        \E row \in shadow : row.delta = writer[w].delta /\ row.version = writer[w].version
=============================================================================
