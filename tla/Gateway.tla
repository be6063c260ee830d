------------------------------- MODULE Gateway -------------------------------
(***************************************************************************)
(* The MCP gateway (mesa_mcp/gateway): durable write operations that may   *)
(* need an operator's approval, the worker that runs approved ones, the    *)
(* circuit breaker in front of the V4 API, and the polls that copy the     *)
(* outcome of a mutation back into its operation.  A read of the database, *)
(* a write and a call to V4 are separate steps, so repeats of one request, *)
(* the worker and an operator may meet in any order.                       *)
(***************************************************************************)
EXTENDS Naturals, Sequences, FiniteSets

CONSTANTS Op,              \* (client, binding, tool, idempotency key)
          Forget,          \* the operations whose tool is mesa_forget
          Payload,
          Caller, Worker,  \* requests under way; the approval loop
          Threshold,       \* failures that open the breaker
          MaxApprovals, MaxRequests, FaultLimit   \* bounds

VARIABLES op,        \* mcp_operations
          approval,  \* mcp_approval_requests, in order of creation
          policy,    \* what the policy engine answers for a write
          enabled,   \* the client, its binding and its credential are active
          breaker,   \* the process's CircuitBreaker
          at,        \* where each caller and the worker are
          v4,        \* V4's mutation of each operation
          allowed,   \* history: operations the policy let through
          requests, faults   \* bounded events so far

vars == <<op, approval, policy, enabled, breaker, at, v4, allowed, requests, faults>>

Actor == Caller \cup {Worker}
Effects == {"ALLOW", "DENY", "REQUIRE_APPROVAL"}
Open == {"SUBMITTED", "PROCESSING"}
Status == Open \cup {"none", "CREATED", "PENDING_APPROVAL", "APPROVED", "DISPATCHING",
                     "COMMITTED", "REJECTED", "DENIED", "FAILED"}
Idle == [step |-> "idle"]
NoRow == [st |-> "none", hash |-> "none", app |-> 0]
NoMutation == [st |-> "none", stored |-> FALSE, payload |-> "none"]
Closed == [st |-> "CLOSED", fails |-> 0, probe |-> FALSE]

Init == /\ op = [o \in Op |-> NoRow]
        /\ approval = << >>
        /\ policy \in Effects
        /\ enabled = TRUE
        /\ breaker = Closed
        /\ at = [a \in Actor |-> Idle]
        /\ v4 = [o \in Op |-> NoMutation]
        /\ allowed = {}
        /\ requests = 0 /\ faults = 0

Goto(a, state) == at' = [at EXCEPT ![a] = state]
Set(o, st) == op' = [op EXCEPT ![o].st = st]
Fault == faults < FaultLimit /\ faults' = faults + 1

\* The connection or credential, the binding and the client are active.
InScope == enabled

-----------------------------------------------------------------------------
(* Requests: call_tool and call_tool_for_principal. *)

\* authenticate, the scope of the principal, then the row: inserted unless the
\* key is known, refused when the key came with another payload.
Request(a, o, p) ==
    /\ at[a] = Idle /\ InScope /\ requests < MaxRequests
    /\ requests' = requests + 1
    /\ \/ /\ op[o] = NoRow
          /\ op' = [op EXCEPT ![o] = [st |-> "CREATED", hash |-> p, app |-> 0]]
          /\ Goto(a, [step |-> "policy", o |-> o])
       \/ /\ op[o].hash = p
          /\ Goto(a, [step |-> IF op[o].st = "CREATED" THEN "policy" ELSE "poll", o |-> o])
          /\ UNCHANGED op
    /\ UNCHANGED <<approval, policy, enabled, breaker, v4, allowed, faults>>

\* A read that needs no operation: recall and health go through the breaker.
Recall(a) ==
    /\ at[a] = Idle /\ InScope /\ requests < MaxRequests
    /\ requests' = requests + 1
    /\ Goto(a, [step |-> "recall"])
    /\ UNCHANGED <<op, approval, policy, enabled, breaker, v4, allowed, faults>>

\* The first matching rule by priority, the default of the settings, or the
\* hard-coded default; what it means is acted on in later transactions.
Evaluate(a) ==
    /\ at[a].step = "policy"
    /\ Goto(a, [step |-> CASE policy = "ALLOW" -> "run" [] policy = "DENY" -> "deny"
                           [] OTHER -> "ask", o |-> at[a].o])
    /\ allowed' = IF policy = "ALLOW" THEN allowed \cup {at[a].o} ELSE allowed
    /\ UNCHANGED <<op, approval, policy, enabled, breaker, v4, requests, faults>>

Deny(a) ==
    /\ at[a].step = "deny"
    /\ Set(at[a].o, "DENIED")
    /\ Goto(a, [step |-> "poll", o |-> at[a].o])
    /\ UNCHANGED <<approval, policy, enabled, breaker, v4, allowed, requests, faults>>

CreateApproval(a) ==
    /\ at[a].step = "ask" /\ Len(approval) < MaxApprovals
    /\ approval' = Append(approval, [o |-> at[a].o, st |-> "PENDING",
                                     hash |-> op[at[a].o].hash])
    /\ Goto(a, [step |-> "asked", o |-> at[a].o, app |-> Len(approval) + 1])
    /\ UNCHANGED <<op, policy, enabled, breaker, v4, allowed, requests, faults>>

AwaitApproval(a) ==
    /\ at[a].step = "asked"
    /\ op' = [op EXCEPT ![at[a].o] = [@ EXCEPT !.st = "PENDING_APPROVAL", !.app = at[a].app]]
    /\ Goto(a, [step |-> "poll", o |-> at[a].o])
    /\ UNCHANGED <<approval, policy, enabled, breaker, v4, allowed, requests, faults>>

-----------------------------------------------------------------------------
(* The circuit breaker around every call to V4. *)

Refuses == breaker.st = "OPEN" \/ (breaker.st = "HALF_OPEN" /\ breaker.probe)

\* The steps that call V4, the answer waited for, and where a refusal leads.
Calls == {"run", "recall", "status"}
Enter(a) ==
    /\ at[a].step \in Calls
    /\ IF Refuses
       THEN /\ Goto(a, IF at[a].step = "run"
                       THEN [step |-> "write", o |-> at[a].o, st |-> "FAILED"] ELSE Idle)
            /\ UNCHANGED breaker
       ELSE /\ Goto(a, [step |-> "flight", call |-> at[a],
                        probe |-> breaker.st = "HALF_OPEN"])
            /\ breaker' = [breaker EXCEPT !.probe = @ \/ breaker.st = "HALF_OPEN"]
    /\ UNCHANGED <<op, approval, policy, enabled, v4, allowed, requests, faults>>

Succeeded == breaker' = Closed
\* A retryable failure counts towards the threshold, or ends the probe.
Unavailable(probe) ==
    LET n == breaker.fails + 1
        opens == probe \/ n >= Threshold
    IN  breaker' = [st |-> IF opens THEN "OPEN" ELSE breaker.st, probe |-> FALSE,
                    fails |-> IF probe \/ n > Threshold THEN breaker.fails ELSE n]
\* Any other failure leaves the breaker as it is, a probe's mark included.
Refused == UNCHANGED breaker

CoolDown == /\ breaker.st = "OPEN"
            /\ breaker' = [breaker EXCEPT !.st = "HALF_OPEN"]
            /\ UNCHANGED <<op, approval, policy, enabled, at, v4, allowed, requests, faults>>

-----------------------------------------------------------------------------
(* Calls in flight. *)

\* V4 admits a write once per idempotency key; a forget takes effect at once
\* and its answer names no mutation.
Admitted(o) ==
    IF v4[o] # NoMutation THEN v4
    ELSE [v4 EXCEPT ![o] = [st |-> IF o \in Forget THEN "PURGED" ELSE "ACCEPTED",
                            stored |-> o \in Forget, payload |-> op[o].hash]]

\* A write is several calls (the session, the head of the document, the insert);
\* the one that fails may come before V4 admits the write, or be its answer.
Lost(o) == {v4, Admitted(o)}

\* Mutant: an admission is reported as success.
FinalityAtOnce(o) == "COMMITTED"

\* An admission is not a commit: the operation stays open while V4 works.
Finality(o) == IF o \in Forget THEN "COMMITTED" ELSE "SUBMITTED"

\* The answer to a write: admitted, refused for good, or not known.
WriteAnswered(a, c) ==
    \/ /\ v4' = Admitted(c.o) /\ Succeeded /\ UNCHANGED faults
       /\ Goto(a, [step |-> "write", o |-> c.o, st |-> Finality(c.o)])
    \/ /\ Fault /\ Refused /\ UNCHANGED v4
       /\ Goto(a, [step |-> "write", o |-> c.o, st |-> "FAILED"])
    \/ /\ Fault /\ Unavailable(at[a].probe)
       /\ v4' \in Lost(c.o)
       /\ Goto(a, [step |-> "write", o |-> c.o, st |-> "FAILED"])

\* _mcp_status_from_mutation
StatusOf(m) == CASE m.st = "COMMITTED" -> "COMMITTED"
                 [] m.st = "REJECTED" -> "REJECTED"
                 [] m.st \in {"DEAD_LETTER", "ROLLED_BACK"} -> "FAILED"
                 [] OTHER -> "PROCESSING"

\* The answer to a poll; a poll that cannot reach V4 changes nothing.
StatusAnswered(a, c) ==
    /\ UNCHANGED v4
    /\ \/ /\ Succeeded /\ UNCHANGED faults
          /\ Goto(a, [step |-> "sync", o |-> c.o, st |-> StatusOf(v4[c.o])])
       \/ /\ Fault /\ Unavailable(at[a].probe) /\ Goto(a, Idle)
       \/ /\ Fault /\ Refused
          /\ Goto(a, [step |-> "sync", o |-> c.o, st |-> "FAILED"])

RecallAnswered(a) ==
    /\ UNCHANGED v4 /\ Goto(a, Idle)
    /\ \/ Succeeded /\ UNCHANGED faults
       \/ Fault /\ Unavailable(at[a].probe)

Answer(a) ==
    /\ at[a].step = "flight"
    /\ LET c == at[a].call
       IN  CASE c.step = "run" -> WriteAnswered(a, c)
             [] c.step = "status" -> StatusAnswered(a, c)
             [] OTHER -> RecallAnswered(a)
    /\ UNCHANGED <<op, approval, policy, enabled, allowed, requests>>

\* _set_operation after a run.  A failure is raised to the caller; the worker
\* catches it and records it once more.
Write(a) ==
    /\ at[a].step = "write"
    /\ Set(at[a].o, at[a].st)
    /\ Goto(a, IF at[a].st # "FAILED" THEN [step |-> "poll", o |-> at[a].o]
               ELSE IF a = Worker THEN [step |-> "again", o |-> at[a].o] ELSE Idle)
    /\ UNCHANGED <<approval, policy, enabled, breaker, v4, allowed, requests, faults>>
WriteAgain == /\ at[Worker].step = "again"
              /\ Set(at[Worker].o, "FAILED")
              /\ Goto(Worker, Idle)
              /\ UNCHANGED <<approval, policy, enabled, breaker, v4, allowed, requests,
                             faults>>

\* operation_status: only an open operation asks V4.
Poll(a) ==
    /\ at[a].step = "poll"
    /\ Goto(a, IF op[at[a].o].st \in Open THEN [step |-> "status", o |-> at[a].o] ELSE Idle)
    /\ UNCHANGED <<op, approval, policy, enabled, breaker, v4, allowed, requests, faults>>
Sync(a) ==
    /\ at[a].step = "sync"
    /\ Set(at[a].o, at[a].st)
    /\ Goto(a, Idle)
    /\ UNCHANGED <<approval, policy, enabled, breaker, v4, allowed, requests, faults>>

-----------------------------------------------------------------------------
(* The approval loop: process_approved_operations. *)

\* The rows are read once; every check after that works on the copy.
Scan(o) == /\ at[Worker] = Idle
           /\ op[o].st \in {"PENDING_APPROVAL", "APPROVED"}
           /\ Goto(Worker, [step |-> "look", o |-> o, seen |-> op[o]])
           /\ UNCHANGED <<op, approval, policy, enabled, breaker, v4, allowed, requests,
                          faults>>

\* Mutant: only a pending approval holds an operation back.
DecidedAsApproved(st) == IF st # "PENDING" THEN "APPROVED" ELSE "REJECTED"

\* What a decided approval makes of an operation that waited for it.
Decided(st) == IF st = "APPROVED" THEN "APPROVED" ELSE "REJECTED"

Look == /\ at[Worker].step = "look"
        /\ LET s == at[Worker]
               st == approval[s.seen.app].st
           IN  Goto(Worker,
                    IF st = "PENDING" THEN Idle
                    ELSE IF s.seen.st = "PENDING_APPROVAL"
                    THEN [step |-> "decide", o |-> s.o, st |-> Decided(st)]
                    ELSE IF st = "APPROVED" THEN [step |-> "claim", o |-> s.o] ELSE Idle)
        /\ UNCHANGED <<op, approval, policy, enabled, breaker, v4, allowed, requests, faults>>

\* _transition_operation: from the status expected, or not at all.
Decide ==
    /\ at[Worker].step = "decide"
    /\ LET s == at[Worker]
       IN  IF op[s.o].st = "PENDING_APPROVAL"
           THEN /\ Set(s.o, s.st)
                /\ Goto(Worker, IF s.st = "APPROVED" THEN [step |-> "claim", o |-> s.o]
                                ELSE Idle)
           ELSE UNCHANGED op /\ Goto(Worker, Idle)
    /\ UNCHANGED <<approval, policy, enabled, breaker, v4, allowed, requests, faults>>
Claim ==
    /\ at[Worker].step = "claim"
    /\ LET s == at[Worker]
       IN  IF op[s.o].st = "APPROVED"
           THEN /\ Set(s.o, "DISPATCHING")
                /\ Goto(Worker, [step |-> "scope", o |-> s.o])
           ELSE UNCHANGED op /\ Goto(Worker, Idle)
    /\ UNCHANGED <<approval, policy, enabled, breaker, v4, allowed, requests, faults>>
Dispatch ==
    /\ at[Worker].step = "scope"
    /\ Goto(Worker, IF InScope THEN [step |-> "run", o |-> at[Worker].o]
                    ELSE [step |-> "again", o |-> at[Worker].o])
    /\ UNCHANGED <<op, approval, policy, enabled, breaker, v4, allowed, requests, faults>>

-----------------------------------------------------------------------------
(* Operators, V4 and the process. *)

\* The operator's command decides the approval and the operation together.
DecideOperation(i, st) ==
    /\ InScope /\ approval[i].st = "PENDING"
    /\ op[approval[i].o].st = "PENDING_APPROVAL" /\ op[approval[i].o].app = i
    /\ approval' = [approval EXCEPT ![i].st = st]
    /\ Set(approval[i].o, st)
    /\ UNCHANGED <<policy, enabled, breaker, at, v4, allowed, requests, faults>>
\* The control API decides the approval alone; the loop follows.
DecideApproval(i, st) ==
    /\ approval[i].st = "PENDING"
    /\ approval' = [approval EXCEPT ![i].st = st]
    /\ UNCHANGED <<op, policy, enabled, breaker, at, v4, allowed, requests, faults>>

ChangePolicy(p) == /\ Fault /\ p # policy /\ policy' = p
                   /\ UNCHANGED <<op, approval, enabled, breaker, at, v4, allowed, requests>>
Disable == /\ Fault /\ enabled /\ enabled' = FALSE
           /\ UNCHANGED <<op, approval, policy, breaker, at, v4, allowed, requests>>

\* V4 decides an admitted mutation; operators replay and roll back.
MutationNext == [ACCEPTED |-> {"COMMITTED", "REJECTED", "DEAD_LETTER"},
                 COMMITTED |-> {"ROLLED_BACK"}, DEAD_LETTER |-> {"ACCEPTED"}]
V4Moves(o, st) ==
    /\ v4[o].st \in DOMAIN MutationNext /\ st \in MutationNext[v4[o].st]
    /\ v4' = [v4 EXCEPT ![o].st = st, ![o].stored = @ \/ st = "COMMITTED"]
    /\ UNCHANGED <<op, approval, policy, enabled, breaker, at, allowed, requests, faults>>

\* The gateway dies; its tables stay.
Crash == /\ Fault
         /\ at' = [a \in Actor |-> Idle]
         /\ breaker' = Closed
         /\ UNCHANGED <<op, approval, policy, enabled, v4, allowed, requests>>

Next == \/ \E a \in Caller : Recall(a) \/ \E o \in Op, p \in Payload : Request(a, o, p)
        \/ \E a \in Caller : Evaluate(a) \/ Deny(a) \/ CreateApproval(a) \/ AwaitApproval(a)
        \/ \E a \in Actor : Enter(a) \/ Answer(a) \/ Write(a) \/ Poll(a) \/ Sync(a)
        \/ WriteAgain \/ Look \/ Decide \/ Claim \/ Dispatch \/ CoolDown \/ Disable \/ Crash
        \/ \E o \in Op : Scan(o) \/ \E st \in UNION {MutationNext[s] : s \in DOMAIN MutationNext} :
                                       V4Moves(o, st)
        \/ \E i \in DOMAIN approval, st \in {"APPROVED", "REJECTED"} :
              DecideOperation(i, st) \/ DecideApproval(i, st)
        \/ \E p \in Effects : ChangePolicy(p)

Spec == Init /\ [][Next]_vars

-----------------------------------------------------------------------------
\* Operations, approvals, the breaker and V4's mutations are well typed; an
\* approval an operation waits for exists (operations.py:566-809).
TypeOK ==
    /\ op \in [Op -> [st : Status, hash : Payload \cup {"none"}, app : 0..Len(approval)]]
    /\ \A i \in DOMAIN approval :
          approval[i] \in [o : Op, st : {"PENDING", "APPROVED", "REJECTED"}, hash : Payload]
    /\ \A o \in Op : op[o].st \in {"PENDING_APPROVAL", "APPROVED"} => op[o].app > 0
    /\ policy \in Effects /\ enabled \in BOOLEAN /\ DOMAIN at = Actor
    /\ breaker \in [st : {"CLOSED", "OPEN", "HALF_OPEN"}, fails : 0..Threshold, probe : BOOLEAN]
    /\ v4 \in [Op -> [stored : BOOLEAN, payload : Payload \cup {"none"},
                      st : {"none", "ACCEPTED", "COMMITTED", "REJECTED", "DEAD_LETTER",
                            "ROLLED_BACK", "PURGED"}]]
    /\ allowed \subseteq Op /\ requests \in 0..MaxRequests /\ faults \in 0..FaultLimit

\* V4 receives a write only if the policy let the operation through or an
\* operator approved that very payload, whatever repeats, decisions and
\* crashes came between (operations.py:206-305, approval.py:23-132).
WritesAreAuthorised ==
    \A o \in Op : v4[o] # NoMutation =>
       \/ o \in allowed
       \/ \E i \in DOMAIN approval : /\ approval[i].o = o /\ approval[i].st = "APPROVED"
                                     /\ approval[i].hash = v4[o].payload

\* An operation reads COMMITTED only if V4 has stored the write: "Do not expose
\* that admission as success" (operations.py:664-736).
CommittedWasStored == \A o \in Op : op[o].st = "COMMITTED" => v4[o].stored
=============================================================================
