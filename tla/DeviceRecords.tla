---------------------------- MODULE DeviceRecords -----------------------------
(***************************************************************************)
(* device-service: the rows of devices, who owns them, and the consents    *)
(* their owners grant.  Devices are created by users, who own them, or     *)
(* register themselves under an id of their choice; deleting one deletes   *)
(* its row alone.                                                          *)
(*                                                                         *)
(* A handler is a read, with every check, and a commit; handlers overlap.  *)
(* A consent names the subject it is for: a user, role or tenant with one  *)
(* of the levels 1 to 3.                                                   *)
(***************************************************************************)
EXTENDS Naturals, FiniteSets

CONSTANTS
    Device, User, NoUser,
    Operators,          \* the users with the operator role
    Subject,            \* whom a consent is for, with its level
    Call                \* handlers; a consent is named by the grant that inserts it

VARIABLES
    device,     \* the table devices
    used,       \* ids ever used: a generated id is not one of them
    reborn,     \* ids registered again after a delete
    consent,    \* the table device_consents, with what its event says
    trail,      \* consent_granted and consent_revoked in ownership_events
    call,       \* handlers between their SELECT and their commit
    raced       \* subjects of a device that two grants or two revokes wrote at a time

vars == <<device, used, reborn, consent, trail, call, raced>>

Gone == [status |-> "none", owner |-> NoUser, seen |-> FALSE]
DeviceRow == [status: {"none", "offline", "online"}, owner: User \cup {NoUser}, seen: BOOLEAN]
Consent == [id: Call, device: Device, to: Subject, by: User, active: BOOLEAN]
Entry == [action: {"consent_granted", "consent_revoked"}, device: Device, to: Subject, call: Call]

Idle == [op |-> "idle"]
Done == [op |-> "done"]
Block ==
    [op: {"delete"}, device: Device]
      \cup [op: {"update"}, device: Device, found: {TRUE}]
      \cup [op: {"heartbeat"}, device: Device, status: {"offline", "online"}, found: {TRUE}]
      \cup [op: {"register"}, device: Device, owner: User \cup {NoUser}, found: BOOLEAN]
      \cup [op: {"grant"}, device: Device, to: Subject, by: User]
      \cup [op: {"revoke"}, consent: Consent]

TypeOK ==
    /\ device \in [Device -> DeviceRow]
    /\ used \subseteq Device /\ reborn \subseteq Device
    /\ consent \subseteq Consent /\ trail \subseteq Entry
    /\ call \in [Call -> Block \cup {Idle, Done}]
    /\ raced \subseteq Device \X Subject

Init ==
    /\ device = [d \in Device |-> Gone]
    /\ used = {} /\ reborn = {}
    /\ consent = {} /\ trail = {}
    /\ call = [c \in Call |-> Idle]
    /\ raced = {}

-----------------------------------------------------------------------------
Exists(d) == device[d].status # "none"
Active(d, s) == {k \in consent : k.device = d /\ k.to = s /\ k.active}

Begin(c, block) ==
    /\ call[c] = Idle
    /\ call' = [call EXCEPT ![c] = block]
    /\ UNCHANGED <<device, used, reborn, consent, trail, raced>>

Finish(c) == call' = [call EXCEPT ![c] = Done]

\* Devices without an owner are everybody's; an operator may change any.
MayChange(d, u) == device[d].owner \in {NoUser, u} \/ u \in Operators

_require_owner(d, u) == Exists(d) /\ (u \in Operators \/ device[d].owner = u)

-----------------------------------------------------------------------------
(* Devices *)

create_device(d, u) ==
    /\ d \notin used
    /\ device' = [device EXCEPT ![d] = [status |-> "offline", owner |-> u, seen |-> FALSE]]
    /\ used' = used \cup {d}
    /\ UNCHANGED <<reborn, consent, trail, call, raced>>

\* The agent names an id, or none and gets a new one, and an owner, which only a new
\* row takes.
register_read(c, d, u) == Begin(c, [op |-> "register", device |-> d, owner |-> u,
                                    found |-> Exists(d)])

\* Mutant: registering again takes the row over.
register_agent_takes(c) ==
    /\ call[c].op = "register"
    /\ LET d == call[c].device
       IN  /\ call[c].found = Exists(d)
           /\ device' = [device EXCEPT ![d] = [status |-> "online", owner |-> call[c].owner,
                                               seen |-> TRUE]]
           /\ reborn' = IF d \in used /\ ~Exists(d) THEN reborn \cup {d} ELSE reborn
           /\ used' = used \cup {d}
    /\ Finish(c)
    /\ UNCHANGED <<consent, trail, raced>>

register_agent(c) ==
    /\ call[c].op = "register"
    /\ LET d == call[c].device
       IN  /\ call[c].found = Exists(d)
           /\ device' = IF call[c].found
                THEN [device EXCEPT ![d].status = "online", ![d].seen = TRUE]
                ELSE [device EXCEPT ![d] = [status |-> "online", owner |-> call[c].owner,
                                            seen |-> TRUE]]
           /\ reborn' = IF d \in used /\ ~call[c].found THEN reborn \cup {d} ELSE reborn
           /\ used' = used \cup {d}
    /\ Finish(c)
    /\ UNCHANGED <<consent, trail, raced>>

\* What the handler found is gone, or what it did not find is there: the UPDATE or
\* the INSERT fails, and so does the request.
conflict(c) ==
    /\ call[c].op \in {"register", "update", "heartbeat"}
    /\ call[c].found # Exists(call[c].device)
    /\ Finish(c)
    /\ UNCHANGED <<device, used, reborn, consent, trail, raced>>

heartbeat_read(c, d, s) ==
    /\ Exists(d)
    /\ Begin(c, [op |-> "heartbeat", device |-> d, status |-> s, found |-> TRUE])

heartbeat_agent(c) ==
    /\ call[c].op = "heartbeat"
    /\ Exists(call[c].device)
    /\ device' = [device EXCEPT ![call[c].device].status = call[c].status,
                                ![call[c].device].seen = TRUE]
    /\ Finish(c)
    /\ UNCHANGED <<used, reborn, consent, trail, raced>>

\* An update changes no field a property is about; it can only fail.
update_read(c, d, u) ==
    /\ Exists(d) /\ MayChange(d, u)
    /\ Begin(c, [op |-> "update", device |-> d, found |-> TRUE])

update_device(c) ==
    /\ call[c].op = "update"
    /\ Exists(call[c].device)
    /\ Finish(c)
    /\ UNCHANGED <<device, used, reborn, consent, trail, raced>>

delete_read(c, d, u) ==
    /\ Exists(d) /\ MayChange(d, u)
    /\ Begin(c, [op |-> "delete", device |-> d])

\* Consents, shadow, telemetry and objectives stay.
delete_device(c) ==
    /\ call[c].op = "delete"
    /\ device' = [device EXCEPT ![call[c].device] = Gone]
    /\ Finish(c)
    /\ UNCHANGED <<used, reborn, consent, trail, raced>>

-----------------------------------------------------------------------------
(* Consents *)

\* With one active consent the answer is 409, with two the lookup fails.
grant_read(c, d, s, u) ==
    /\ _require_owner(d, u)
    /\ Active(d, s) = {}
    /\ Begin(c, [op |-> "grant", device |-> d, to |-> s, by |-> u])

grant_consent(c) ==
    /\ call[c].op = "grant"
    /\ LET d == call[c].device  s == call[c].to
       IN  /\ consent' = consent \cup {[id |-> c, device |-> d, to |-> s, by |-> call[c].by,
                                        active |-> TRUE]}
           /\ trail' = trail \cup {[action |-> "consent_granted", device |-> d, to |-> s,
                                    call |-> c]}
           /\ raced' = raced \cup {<<d, s>> : k \in Active(d, s)}
    /\ Finish(c)
    /\ UNCHANGED <<device, used, reborn>>

revoke_read(c, k, u) ==
    /\ k \in consent /\ k.active
    /\ _require_owner(k.device, u)
    /\ Begin(c, [op |-> "revoke", consent |-> k])

\* Mutant: the event is not written.
revoke_consent_untold(c) ==
    /\ call[c].op = "revoke"
    /\ LET k == call[c].consent
       IN  /\ consent' = (consent \ {k}) \cup {[k EXCEPT !.active = FALSE]}
           /\ raced' = IF k \in consent THEN raced ELSE raced \cup {<<k.device, k.to>>}
    /\ Finish(c)
    /\ UNCHANGED <<device, used, reborn, trail>>

revoke_consent(c) ==
    /\ call[c].op = "revoke"
    /\ LET k == call[c].consent
       IN  /\ consent' = (consent \ {k}) \cup {[k EXCEPT !.active = FALSE]}
           /\ trail' = trail \cup {[action |-> "consent_revoked", device |-> k.device,
                                    to |-> k.to, call |-> c]}
           /\ raced' = IF k \in consent THEN raced ELSE raced \cup {<<k.device, k.to>>}
    /\ Finish(c)
    /\ UNCHANGED <<device, used, reborn>>

Next ==
    \/ \E d \in Device, u \in User : create_device(d, u)
    \/ \E c \in Call :
         \/ register_agent(c) \/ conflict(c) \/ heartbeat_agent(c) \/ update_device(c)
         \/ delete_device(c) \/ grant_consent(c) \/ revoke_consent(c)
         \/ \E d \in Device, u \in User :
              \/ update_read(c, d, u) \/ delete_read(c, d, u)
              \/ \E s \in Subject : grant_read(c, d, s, u)
         \/ \E d \in Device, u \in User \cup {NoUser} : register_read(c, d, u)
         \/ \E d \in Device, s \in {"offline", "online"} : heartbeat_read(c, d, s)
         \/ \E k \in consent, u \in User : revoke_read(c, k, u)

Spec == Init /\ [][Next]_vars

-----------------------------------------------------------------------------
(* Properties *)

\* A consent in force on a device was granted by the device's owner or an operator,
\* through overlapping registrations, grants and deletes, unless the device was
\* deleted and its id registered again: then it comes back with the old consents.
ConsentsAreTheOwners ==
    \A k \in consent : k.active /\ Exists(k.device) /\ k.device \notin reborn =>
        k.by \in Operators \cup {device[k.device].owner}

Entries(a, d, s) == {e \in trail : e.action = a /\ e.device = d /\ e.to = s}

\* The trail accounts for what is in force: unless two grants or two revokes raced,
\* a subject has at most one consent in force, and one exactly when it was granted
\* more often than revoked.
TrailAccounts ==
    \A d \in Device, s \in Subject : <<d, s>> \notin raced =>
        /\ Cardinality(Active(d, s)) <= 1
        /\ Cardinality(Entries("consent_granted", d, s)) =
             Cardinality(Entries("consent_revoked", d, s)) + Cardinality(Active(d, s))
=============================================================================
