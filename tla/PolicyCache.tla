------------------------------ MODULE PolicyCache -----------------------------
(***************************************************************************)
(* rbac-service: authorize answers from a cache in Redis, and else         *)
(* evaluates the request, caches the result, writes the audit line and     *)
(* answers.  The key of the cache does not name the roles of the request,  *)
(* so what the policy says of a key, here a variable, may change while a   *)
(* result is cached.                                                       *)
(***************************************************************************)
EXTENDS Integers, FiniteSets

CONSTANTS
    Key, Request, NoRequest, NoEntry,
    TTL,            \* of an entry: 3600
    Latency,        \* how long a call of Redis may take; a bound
    MaxTime         \* a bound

VARIABLES
    allows,     \* whether the policy allows a key's request, with the roles it has now
    since,      \* what it said at each time
    entry,      \* the cache
    request,    \* the handlers
    answer,     \* the last answer
    audit,      \* the lines of the audit file
    unlogged,   \* results whose line was not written: an error, or the end of the process
    time

vars == <<allows, since, entry, request, answer, audit, unlogged, time>>

Result == Key \X BOOLEAN
Entry == [value : BOOLEAN, until : 0..MaxTime + TTL]
Handler == [key : Key, value : BOOLEAN, pc : {"get", "set", "log"}, began : 0..MaxTime]

\* An entry lives a while, and what marks none is no handler.
ConstantsFit ==
    /\ TTL \in Nat \ {0} /\ Latency \in Nat /\ MaxTime \in Nat
    /\ NoRequest \notin Handler

TypeOK ==
    /\ allows \in [Key -> BOOLEAN]
    /\ since \in [Key -> [0..MaxTime -> SUBSET BOOLEAN]]
    /\ entry \in [Key -> Entry \cup {NoEntry}]
    /\ request \in [Request -> Handler \cup {NoRequest}]
    /\ audit \subseteq Result /\ unlogged \subseteq Result
    /\ answer # NoEntry => answer \in [key : Key, value : BOOLEAN, at : 0..MaxTime]
    /\ time \in 0..MaxTime

Init ==
    /\ allows \in [Key -> BOOLEAN]
    /\ since = [k \in Key |-> [t \in 0..MaxTime |-> IF t = 0 THEN {allows[k]} ELSE {}]]
    /\ entry = [k \in Key |-> NoEntry]
    /\ request = [r \in Request |-> NoRequest]
    /\ answer = NoEntry /\ audit = {} /\ unlogged = {} /\ time = 0

-----------------------------------------------------------------------------

\* At most once in a unit of time; a bound.
roles_change(k) ==
    /\ Cardinality(since[k][time]) = 1
    /\ allows' = [allows EXCEPT ![k] = ~@]
    /\ since' = [since EXCEPT ![k][time] = @ \cup {allows'[k]}]
    /\ UNCHANGED <<entry, request, answer, audit, unlogged, time>>

\* Entries expire at their time; a call of Redis ends within the latency.
tick ==
    /\ time < MaxTime
    /\ \A r \in Request : request[r] # NoRequest => time < request[r].began + Latency
    /\ time' = time + 1
    /\ entry' = [k \in Key |-> IF entry[k] # NoEntry /\ entry[k].until = time' THEN NoEntry ELSE entry[k]]
    /\ since' = [k \in Key |-> [since[k] EXCEPT ![time'] = {allows[k]}]]
    /\ UNCHANGED <<allows, request, answer, audit, unlogged>>

\* A request arrives with its roles.
authorize(r, k) ==
    /\ request[r] = NoRequest
    /\ request' = [request EXCEPT ![r] =
                     [key |-> k, value |-> allows[k], pc |-> "get", began |-> time]]
    /\ UNCHANGED <<allows, since, entry, answer, audit, unlogged, time>>

Answered(r, value) ==
    /\ answer' = [key |-> request[r].key, value |-> value, at |-> time]
    /\ request' = [request EXCEPT ![r] = NoRequest]

\* A hit is the answer.
get_hit(r) ==
    /\ request[r] # NoRequest /\ request[r].pc = "get" /\ entry[request[r].key] # NoEntry
    /\ Answered(r, entry[request[r].key].value)
    /\ UNCHANGED <<allows, since, entry, audit, unlogged, time>>

\* A miss, or an error of Redis: the request is evaluated.
get_miss(r) ==
    /\ request[r] # NoRequest /\ request[r].pc = "get"
    /\ request' = [request EXCEPT ![r].pc = "set"]
    /\ UNCHANGED <<allows, since, entry, answer, audit, unlogged, time>>

\* setex
Until(t) == t + TTL

\* A set replaces what another request set meanwhile; an error of Redis is swallowed.
set(r) ==
    /\ request[r] # NoRequest /\ request[r].pc = "set"
    /\ entry' \in {entry, [entry EXCEPT ![request[r].key] =
                             [value |-> request[r].value, until |-> Until(time)]]}
    /\ request' = [request EXCEPT ![r].pc = "log"]
    /\ UNCHANGED <<allows, since, answer, audit, unlogged, time>>

\* audit_logger.log, whose errors are swallowed, and the answer.
log(r) ==
    /\ request[r] # NoRequest /\ request[r].pc = "log"
    /\ LET result == <<request[r].key, request[r].value>> IN
         \/ audit' = audit \cup {result} /\ UNCHANGED unlogged
         \/ unlogged' = unlogged \cup {result} /\ UNCHANGED audit
    /\ Answered(r, request[r].value)
    /\ UNCHANGED <<allows, since, entry, time>>

\* The process ends; the cache is Redis's.
crash ==
    /\ unlogged' = unlogged \cup {<<request[r].key, request[r].value>> :
                       r \in {q \in Request : request[q] # NoRequest /\ request[q].pc = "log"}}
    /\ request' = [r \in Request |-> NoRequest]
    /\ UNCHANGED <<allows, since, entry, answer, audit, time>>

Next ==
    \/ tick \/ crash
    \/ \E k \in Key : roles_change(k)
    \/ \E r \in Request, k \in Key : authorize(r, k)
    \/ \E r \in Request : get_hit(r) \/ get_miss(r) \/ set(r) \/ log(r)

Spec == Init /\ [][Next]_vars

-----------------------------------------------------------------------------

\* An answer is what the policy said of its key at some time no longer ago than an entry
\* lives and the calls of Redis that made it took; and what is answered was written to the
\* audit file, or its line was lost, or its handler is about to write it.
AnswersAreRecent ==
    answer # NoEntry =>
        /\ \E t \in 0..answer.at : /\ answer.value \in since[answer.key][t]
                                   /\ answer.at - t < TTL + Latency
        /\ \/ <<answer.key, answer.value>> \in audit \cup unlogged
           \/ \E r \in Request : /\ request[r] # NoRequest /\ request[r].pc = "log"
                                 /\ request[r].key = answer.key
                                 /\ request[r].value = answer.value
=============================================================================
