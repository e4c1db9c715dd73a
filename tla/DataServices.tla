---------------------------- MODULE DataServices ------------------------------
(***************************************************************************)
(* The data services together: the pairing (Discovery), what device-service *)
(* and an agent keep of a device (DeviceServices), the functions' registry *)
(* and the two runtimes (FunctionServices), and the fleets with what is    *)
(* rolled out to them (FleetRollouts).                                     *)
(***************************************************************************)
EXTENDS Discovery, DeviceServices, FunctionServices

CONSTANTS
    Fleet, Member, Measure, NoMeasure,              \* Fleet
    MaxRows, Op, NoOp, NoPlugin, RingSizes, MaxRings, Steps, Outcomes,
    MaxExecutionsPerDevice                          \* FleetRollouts

VARIABLES
    fleet, member, health, status, row, op

Rollouts == INSTANCE FleetRollouts WITH Device <- Member, Value <- Measure, NoValue <- NoMeasure

\* The tables are finite, the markers are no rows or calls, and the bounds are numbers.
ASSUME FleetAssumption == Rollouts!ConstantsFit

-----------------------------------------------------------------------------
(* Properties *)

\* Every table, call and file is of its type, whatever else moves.
TypesOK ==
    /\ TypeOK /\ Shadow!TypeOK /\ Credentials!TypeOK /\ DeviceRecords!TypeOK /\ Telemetry!TypeOK
    /\ Plugins!TypeOK /\ Runtime!TypeOK /\ Store!TypeOK
    /\ Rollouts!TypeOK

\* What is computed of readings is right: the aggregate of a fleet's, and what the assistant
\* is told of a device's.
ReportsAreRight == Telemetry!AssistantIsRight /\ Rollouts!AggregateIsRight

\* What is rolled out to a fleet reaches the devices it says, and what is reported of a
\* fleet and its drift follows its members and their installs.
RolloutsAccount ==
    /\ Rollouts!FleetsAreCovered /\ Rollouts!ResultsAccount /\ Rollouts!StopsAfterFailure
    /\ Rollouts!SidesAgree /\ Rollouts!HealthAdds /\ Rollouts!DriftIsTrue
=============================================================================
