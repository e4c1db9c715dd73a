-------------------------------- MODULE Fleet ---------------------------------
(***************************************************************************)
(* fleet-service: fleets, their members, and the reports that ask          *)
(* device-service about every member.  A handler's session has no await in *)
(* it, so what it does to the tables is one step; a report reads the       *)
(* members in one step and hears of each device in another.                *)
(***************************************************************************)
EXTENDS Integers, FiniteSets, FiniteSetsExt, SequencesExt

CONSTANTS
    Fleet, Device,
    Missing, Deleted,
    Value, NoValue      \* readings of the metric a report is about

VARIABLES
    fleet,      \* the table fleets
    member,     \* the table fleet_members
    health,     \* fleet_health of each fleet: the members it read and what it heard
    status      \* of each device, at device-service

fleetVars == <<fleet, member, health, status>>

DeviceStatus == {"online", "offline", "other"}
NoReport == [open |-> FALSE, ids |-> {}, heard |-> [d \in {} |-> "unknown"]]

FleetTypeOK ==
    /\ fleet \in [Fleet -> {Missing, "active", Deleted}]
    /\ member \subseteq Fleet \X Device
    /\ \A f \in Fleet : /\ health[f].ids \subseteq Device
                        /\ DOMAIN health[f].heard \subseteq health[f].ids
    /\ status \in [Device -> DeviceStatus]

FleetInit ==
    /\ fleet = [f \in Fleet |-> Missing]
    /\ member = {}
    /\ health = [f \in Fleet |-> NoReport]
    /\ status = [d \in Device |-> "online"]

-----------------------------------------------------------------------------
(* Fleets and members *)

create_fleet(f) ==
    /\ fleet[f] = Missing
    /\ fleet' = [fleet EXCEPT ![f] = "active"]
    /\ UNCHANGED <<member, health, status>>

\* The members' rows stay.
delete_fleet(f) ==
    /\ fleet[f] = "active"
    /\ fleet' = [fleet EXCEPT ![f] = Deleted]
    /\ UNCHANGED <<member, health, status>>

\* uq_fleet_member: a second row for the device is refused.  Nobody asks whether the
\* device exists.
add_fleet_member(f, d) ==
    /\ fleet[f] = "active"
    /\ <<f, d>> \notin member
    /\ member' = member \cup {<<f, d>>}
    /\ UNCHANGED <<fleet, health, status>>

remove_fleet_member(f, d) ==
    /\ fleet[f] = "active"
    /\ <<f, d>> \in member
    /\ member' = member \ {<<f, d>>}
    /\ UNCHANGED <<fleet, health, status>>

Members(f) == {d \in Device : <<f, d>> \in member}

\* Mutant: the rows of deleted fleets count.
list_device_fleets_all(d) == {f \in Fleet : <<f, d>> \in member}

list_device_fleets(d) == {f \in Fleet : fleet[f] = "active" /\ <<f, d>> \in member}

\* What list_fleet_members answers; a fleet that is gone is a 404.
list_fleet_members(f) == IF fleet[f] = "active" THEN Members(f) ELSE {}

-----------------------------------------------------------------------------
(* Reports *)

fleet_health(f) ==
    /\ fleet[f] = "active"
    /\ ~health[f].open
    /\ health' = [health EXCEPT ![f] = [NoReport EXCEPT !.open = TRUE, !.ids = Members(f)]]
    /\ UNCHANGED <<fleet, member, status>>

Unheard(f) == health[f].ids \ DOMAIN health[f].heard

\* One device's answer; a request that fails, or is refused, is "unknown".
_fetch_device(f, d) ==
    /\ health[f].open /\ d \in Unheard(f)
    /\ \E s \in {status[d], "unknown"} :
         health' = [health EXCEPT ![f].heard =
                      [i \in DOMAIN @ \cup {d} |-> IF i = d THEN s ELSE @[i]]]
    /\ UNCHANGED <<fleet, member, status>>

\* The answer is sent: the report is forgotten.
fleet_health_answered(f) ==
    /\ health[f].open /\ Unheard(f) = {}
    /\ health' = [health EXCEPT ![f] = NoReport]
    /\ UNCHANGED <<fleet, member, status>>

\* Mutant: devices of another status are in no count.
summary_of_two(heard) ==
    LET count(S) == Cardinality({d \in DOMAIN heard : heard[d] \in S})
    IN  [online |-> count({"online"}), offline |-> count({"offline"}),
         unknown |-> count({"unknown"}), total |-> Cardinality(DOMAIN heard)]

summary(heard) ==
    LET count(S) == Cardinality({d \in DOMAIN heard : heard[d] \in S})
    IN  [online |-> count({"online"}), offline |-> count({"offline"}),
         unknown |-> count(DeviceStatus \cup {"unknown"}) - count({"online", "offline"}),
         total |-> Cardinality(DOMAIN heard)]

\* device-service changes a device.
status_changes(d) ==
    /\ \E s \in DeviceStatus \ {status[d]} : status' = [status EXCEPT ![d] = s]
    /\ UNCHANGED <<fleet, member, health>>

\* The kth of the sorted readings of the devices D.
Smallest(latest, D, k) ==
    CHOOSE v \in {latest[d] : d \in D} :
        /\ Cardinality({d \in D : latest[d] < v}) < k
        /\ k <= Cardinality({d \in D : latest[d] <= v})

\* Twice the median.
median2(latest, D) ==
    LET n == Cardinality(D)
    IN  IF n % 2 = 1 THEN 2 * Smallest(latest, D, (n \div 2) + 1)
        ELSE Smallest(latest, D, n \div 2) + Smallest(latest, D, (n \div 2) + 1)

\* Mutant: members without the metric count.
fleet_telemetry_latest_all(latest) ==
    LET with == {d \in DOMAIN latest : latest[d] # NoValue}
    IN  IF with = {} THEN NoValue
        ELSE [count |-> Cardinality(DOMAIN latest), min |-> Smallest(latest, with, 1),
              max |-> Smallest(latest, with, Cardinality(with)),
              sum |-> Cardinality(UNION {{d} \X (1..latest[d]) : d \in with}),
              median2 |-> median2(latest, with)]

\* fleet_telemetry_latest: what the members that have the metric report of it.
fleet_telemetry_latest(latest) ==
    LET with == {d \in DOMAIN latest : latest[d] # NoValue}
        n == Cardinality(with)
    IN  IF with = {} THEN NoValue
        ELSE [count |-> n, min |-> Smallest(latest, with, 1), max |-> Smallest(latest, with, n),
              sum |-> Cardinality(UNION {{d} \X (1..latest[d]) : d \in with}),
              median2 |-> median2(latest, with)]

FleetChanges ==
    \E f \in Fleet :
        \/ create_fleet(f) \/ delete_fleet(f)
        \/ \E d \in Device : add_fleet_member(f, d) \/ remove_fleet_member(f, d)

FleetReports ==
    \/ \E f \in Fleet :
         \/ fleet_health(f) \/ fleet_health_answered(f)
         \/ \E d \in Device : _fetch_device(f, d)
    \/ \E d \in Device : status_changes(d)

-----------------------------------------------------------------------------
(* Properties *)

\* The two sides of the membership agree, whatever was deleted: a device lists the
\* fleets that list it.
SidesAgree ==
    \A f \in Fleet, d \in Device : f \in list_device_fleets(d) <=> d \in list_fleet_members(f)

\* A health report counts each device it read once, although members, statuses and
\* answers change or fail under it.
HealthAdds ==
    \A f \in Fleet :
        LET s == summary(health[f].heard)
        IN  /\ s.online + s.offline + s.unknown = s.total
            /\ Unheard(f) = {} => s.total = Cardinality(health[f].ids)

\* The aggregate of any readings of the members a report read: at least half are on each
\* side of the median, the extremes are readings and bound the average, and devices without
\* one do not count.
AggregateIsRight ==
    \A f \in Fleet : \A latest \in [health[f].ids -> Value \cup {NoValue}] :
        LET with == {d \in health[f].ids : latest[d] # NoValue}
            a == fleet_telemetry_latest(latest)
        IN  with # {} =>
              /\ a.count = Cardinality(with)
              /\ \A d \in with : a.min <= latest[d] /\ latest[d] <= a.max
              /\ {a.min, a.max} \subseteq {latest[d] : d \in with}
              /\ a.count * a.min <= a.sum /\ a.sum <= a.count * a.max
              /\ 2 * Cardinality({d \in with : 2 * latest[d] <= a.median2}) >= a.count
              /\ 2 * Cardinality({d \in with : 2 * latest[d] >= a.median2}) >= a.count
=============================================================================
