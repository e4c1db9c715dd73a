------------------------------ MODULE Discovery -------------------------------
(***************************************************************************)
(* device-service: the pairing of one piece of hardware.  It announces     *)
(* itself, polls, and an owner claims or rejects the announcement.         *)
(*                                                                         *)
(* A handler SELECTs, decides and commits, with awaits in between, so the  *)
(* handlers overlap even in one process: a handler is a read and a commit, *)
(* and its UPDATE names the row by id alone.  Handlers that decide to      *)
(* write nothing are left out.                                             *)
(***************************************************************************)
EXTENDS Naturals, FiniteSets

CONSTANTS
    Request,            \* announcements: each has its own id and codes
    Owner, NoOwner,
    Call, NoCall        \* handlers; a device is named by the claim that creates it

VARIABLES
    request,    \* the table device_discoveries
    paired,     \* rows of devices, each with its "paired" event
    call,       \* handlers between their SELECT and their commit
    handed,     \* tokens each request's polls were answered
    raced       \* requests some handler changed after another had read them

vars == <<request, paired, call, handed, raced>>

Status == {"none", "announced", "approved", "rejected", "expired"}
Open == {"announce", "poll", "list", "claim", "reject"}

\* `read` is the statuses the handler read, `rows` those it is going to change, `row`
\* the one it inserts, `owner` the caller of a claim.
NewCall == [op |-> "new", read |-> [r \in Request |-> "none"], rows |-> {}, row |-> {},
            owner |-> NoOwner]
Closed == [NewCall EXCEPT !.op = "done"]

NoRequest == [status |-> "none", late |-> FALSE, owner |-> NoOwner, token |-> NoCall]

TypeOK ==
    /\ request \in [Request -> [status: Status, late: BOOLEAN, owner: Owner \cup {NoOwner},
                                token: Call \cup {NoCall}]]
    /\ paired \subseteq [device: Call, request: Request, owner: Owner]
    /\ call \in [Call -> [op: Open \cup {"new", "done"}, read: [Request -> Status],
                          rows: SUBSET Request, row: SUBSET Request,
                          owner: Owner \cup {NoOwner}]]
    /\ handed \in [Request -> SUBSET Call]
    /\ raced \subseteq Request

Init ==
    /\ request = [r \in Request |-> NoRequest]
    /\ paired = {}
    /\ call = [c \in Call |-> NewCall]
    /\ handed = [r \in Request |-> {}]
    /\ raced = {}

-----------------------------------------------------------------------------
Announced == {r \in Request : request[r].status = "announced"}
Overdue == {r \in Announced : request[r].late}

Begin(c, op, rows, row, owner) ==
    /\ call[c].op = "new"
    /\ call' = [call EXCEPT ![c] = [op |-> op, read |-> [r \in Request |-> request[r].status],
                                    rows |-> rows, row |-> row, owner |-> owner]]
    /\ UNCHANGED <<request, paired, handed, raced>>

\* Requests that are no longer what the handler read.
Stale(c) == {r \in call[c].rows : request[r].status # call[c].read[r]}

SetStatus(rows, s) ==
    [r \in Request |-> IF r \in rows THEN [request[r] EXCEPT !.status = s] ELSE request[r]]

Finish(c) == call' = [call EXCEPT ![c] = Closed]

\* announce: every pending request of the hardware expires, a new one is inserted.
announce_read(c, r) ==
    /\ request[r] = NoRequest
    /\ \A o \in Call : r \notin call[o].row
    /\ Begin(c, "announce", Announced, {r}, NoOwner)

\* Mutant: announce leaves the pending requests alone.
announce_keeping(c) ==
    /\ call[c].op = "announce"
    /\ request' = [r \in Request |->
                     IF r \in call[c].row THEN [NoRequest EXCEPT !.status = "announced"]
                                          ELSE request[r]]
    /\ raced' = raced \cup Stale(c) \cup (Announced \ call[c].rows)
    /\ Finish(c)
    /\ UNCHANGED <<paired, handed>>

announce(c) ==
    /\ call[c].op = "announce"
    /\ request' = [r \in Request |->
                     IF r \in call[c].row THEN [NoRequest EXCEPT !.status = "announced"]
                                          ELSE SetStatus(call[c].rows, "expired")[r]]
    /\ raced' = raced \cup Stale(c) \cup (Announced \ call[c].rows)
    /\ Finish(c)
    /\ UNCHANGED <<paired, handed>>

\* poll and list_pending expire what is past its deadline.
poll_read(c, r) == r \in Overdue /\ Begin(c, "poll", {r}, {}, NoOwner)

list_pending_read(c) == Overdue # {} /\ Begin(c, "list", Overdue, {}, NoOwner)

expire_overdue(c) ==
    /\ call[c].op \in {"poll", "list"}
    /\ request' = SetStatus(call[c].rows, "expired")
    /\ raced' = raced \cup Stale(c)
    /\ Finish(c)
    /\ UNCHANGED <<paired, handed>>

poll_approved(r) ==
    /\ request[r].status = "approved"
    /\ handed' = [handed EXCEPT ![r] = @ \cup {request[r].token}]
    /\ UNCHANGED <<request, paired, call, raced>>

\* Mutant: a request past its deadline, expired or answered can be claimed.
claim_read_unchecked(c, r, o) ==
    /\ request[r].status # "none"
    /\ Begin(c, "claim", {r}, {}, o)

claim_read(c, r, o) ==
    /\ r \in Announced \ Overdue
    /\ Begin(c, "claim", {r}, {}, o)

\* Mutant: the device is inserted only if the request is still pending.
claim_half(c) ==
    /\ call[c].op = "claim"
    /\ \E r \in call[c].rows :
         /\ paired' = IF r \in Stale(c) THEN paired
                      ELSE paired \cup {[device |-> c, request |-> r, owner |-> call[c].owner]}
         /\ request' = [request EXCEPT ![r].status = "approved", ![r].token = c,
                                       ![r].owner = call[c].owner]
    /\ raced' = raced \cup Stale(c)
    /\ Finish(c)
    /\ UNCHANGED handed

\* The device, the answer to the poll and the event are one transaction.
claim(c) ==
    /\ call[c].op = "claim"
    /\ \E r \in call[c].rows :
         /\ paired' = paired \cup {[device |-> c, request |-> r, owner |-> call[c].owner]}
         /\ request' = [request EXCEPT ![r].status = "approved", ![r].token = c,
                                       ![r].owner = call[c].owner]
    /\ raced' = raced \cup Stale(c)
    /\ Finish(c)
    /\ UNCHANGED handed

\* reject does not look at the deadline.
reject_read(c, r) == r \in Announced /\ Begin(c, "reject", {r}, {}, NoOwner)

reject(c) ==
    /\ call[c].op = "reject"
    /\ request' = SetStatus(call[c].rows, "rejected")
    /\ raced' = raced \cup Stale(c)
    /\ Finish(c)
    /\ UNCHANGED <<paired, handed>>

\* The connection or the process is lost before the commit.
abandon(c) ==
    /\ call[c].op \in Open
    /\ Finish(c)
    /\ UNCHANGED <<request, paired, handed, raced>>

deadline(r) ==
    /\ request[r].status # "none" /\ ~request[r].late
    /\ request' = [request EXCEPT ![r].late = TRUE]
    /\ UNCHANGED <<paired, call, handed, raced>>

Next ==
    \/ \E c \in Call :
         \/ list_pending_read(c) \/ announce(c) \/ expire_overdue(c)
         \/ claim(c) \/ reject(c) \/ abandon(c)
         \/ \E r \in Request :
              \/ announce_read(c, r) \/ poll_read(c, r) \/ reject_read(c, r)
              \/ \E o \in Owner : claim_read(c, r, o)
    \/ \E r \in Request : poll_approved(r) \/ deadline(r)

Spec == Init /\ [][Next]_vars

-----------------------------------------------------------------------------
(* Properties *)

DevicesOf(r) == {p \in paired : p.request = r}

\* Whatever overlaps, an approved request names a device that exists and belongs to
\* the owner it names, and so did every token a poll was answered.
ApprovalsAreBacked ==
    \A r \in Request :
        /\ request[r].status = "approved" =>
             [device |-> request[r].token, request |-> r, owner |-> request[r].owner] \in paired
        /\ \A c \in handed[r] : \E p \in DevicesOf(r) : p.device = c

\* A request no two handlers wrote at a time pairs at most one device, exactly when
\* it is approved; its polls were answered no other token; and its hardware has at
\* most one such request pending.
UnracedPairing ==
    \A r \in Request \ raced :
        /\ Cardinality(DevicesOf(r)) <= 1
        /\ DevicesOf(r) # {} <=> request[r].status = "approved"
        /\ handed[r] \subseteq {request[r].token}
        /\ r \in Announced => Announced \ raced = {r}

\* What a pairing is good for, raced or not.
PairingIsSafe == ApprovalsAreBacked /\ UnracedPairing

\* An answer is final unless it was raced: what was approved, rejected or expired
\* stays so, and only what was pending is answered.
AnswersAreFinal ==
    [][\A r \in Request \ raced' :
         request[r].status \in {"approved", "rejected", "expired"} =>
             request'[r].status = request[r].status]_vars
=============================================================================
