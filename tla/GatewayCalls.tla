----------------------------- MODULE GatewayCalls -----------------------------
(***************************************************************************)
(* Gateway calls that launch a job under one idempotency key: what         *)
(* operations.run and shell.run do.  A call claims its key in the gateway's*)
(* database while it holds the key's file lock, has the job owner launch   *)
(* (KeyedLaunch, in the same process), and settles the claim by what came  *)
(* of it.  A retry replays the settled answer, is told that the first call *)
(* is still running, or, where that ended without an answer, looks for the *)
(* job itself and never launches.  A reader asks audit.operation how the   *)
(* key stands.  The gateway may be restarted at any point.                 *)
(***************************************************************************)
EXTENDS Naturals

CONSTANTS
  Callers, Requests, NoRequest, Nobody, MaxCalls,  \* of KeyedLaunch
  Reader,       \* the caller of audit.operation
  MaxRequests,  \* requests to the gateway: a bound
  MaxReads,     \* calls of audit.operation: a bound
  MaxRestarts   \* restarts of the gateway: a bound

VARIABLES
  lock, input, call, wire, tasks, queued, attempts, group, calls, adds,
  row,      \* the row of the key in the database
  claim,    \* who has the file lock of the key
  gate,     \* the request of each caller
  reader,   \* the read under way
  bounds    \* requests, reads and restarts so far

Launcher == INSTANCE KeyedLaunch
launchVars ==
  <<lock, input, call, wire, tasks, queued, attempts, group, calls, adds>>
vars == <<launchVars, row, claim, gate, reader, bounds>>

NoAnswer == [verdict |-> "none", by |-> Nobody]
NoRow == [request |-> NoRequest, state |-> "absent", answer |-> NoAnswer]
NoGate ==
  [pc |-> "idle", request |-> NoRequest, verdict |-> "none", acked |-> FALSE,
   reply |-> NoAnswer]
NoRead == [pc |-> "idle", saw |-> "absent", report |-> "none"]

Answer == [verdict : {"none", "ok", "refused", "pending", "conflict",
                      "indeterminate", "failed"},
           by : Callers \cup {Nobody}]
Row == [request : Requests \cup {NoRequest},
        state : {"absent", "pending", "indeterminate", "confirmed"},
        answer : Answer]
Gate == [pc : {"idle", "lock", "claim", "run", "running", "settle", "recover",
               "look", "evidence", "recovered", "told"},
         request : Requests \cup {NoRequest},
         verdict : {"none", "ok", "refused", "unknown"},
         acked : BOOLEAN,
         reply : Answer]
Read == [pc : {"idle", "probe", "unlock", "told"},
         saw : {"absent", "pending", "indeterminate", "confirmed"},
         report : {"none", "unknown", "pending", "indeterminate", "confirmed"}]

TypeOK ==
  /\ Launcher!TypeOK
  /\ row \in Row
  /\ claim \in Callers \cup {Nobody, Reader}
  /\ gate \in [Callers -> Gate]
  /\ reader \in Read
  /\ bounds \in [requests : 0..MaxRequests, reads : 0..MaxReads,
                 restarts : 0..MaxRestarts]

Init ==
  /\ Launcher!Init
  /\ row = NoRow
  /\ claim = Nobody
  /\ gate = [g \in Callers |-> NoGate]
  /\ reader = NoRead
  /\ bounds = [requests |-> 0, reads |-> 0, restarts |-> 0]

Goes(g, pc) == gate' = [gate EXCEPT ![g].pc = pc]

\* The call ends; if it has the file lock, it closes it.
Replies(g, answer) ==
  /\ gate' = [gate EXCEPT ![g] = [@ EXCEPT !.pc = "told", !.reply = answer]]
  /\ claim' = IF claim = g THEN Nobody ELSE claim

Says(verdict) == [verdict |-> verdict, by |-> Nobody]

-----------------------------------------------------------------------------
(* A call: Runtime.execute_async.                                          *)

Request(g, r) ==
  /\ gate[g].pc = "idle"
  /\ bounds.requests < MaxRequests
  /\ bounds' = [bounds EXCEPT !.requests = @ + 1]
  /\ gate' = [gate EXCEPT ![g] = [NoGate EXCEPT !.pc = "lock", !.request = r]]
  /\ UNCHANGED <<launchVars, row, claim, reader>>

\* The lock is tried once, and the claim goes on without it.
TriesLock(g) ==
  /\ gate[g].pc = "lock"
  /\ claim' = IF claim = Nobody THEN g ELSE claim
  /\ Goes(g, "claim")
  /\ UNCHANGED <<launchVars, row, reader, bounds>>

\* Slip: a row without an answer is claimed anew by whoever has the lock.
ClaimsAgain(g) ==
  /\ gate[g].pc = "claim"
  /\ \/ /\ row.state # "confirmed" /\ claim = g
        /\ row' = [request |-> gate[g].request, state |-> "pending",
                   answer |-> NoAnswer]
        /\ Goes(g, "run")
        /\ UNCHANGED claim
     \/ /\ row.state # "confirmed" /\ claim # g
        /\ Replies(g, Says("pending"))
        /\ UNCHANGED row
     \/ /\ row.state = "confirmed"
        /\ Replies(g, IF row.request = gate[g].request
                      THEN row.answer ELSE Says("conflict"))
        /\ UNCHANGED row
  /\ UNCHANGED <<launchVars, reader, bounds>>

\* Audit.claim_idempotency, one transaction: a new key is claimed by the one
\* who has the lock; a row without an answer whose lock was free belongs to a
\* call that has ended, and is not run again.
Claims(g) ==
  /\ gate[g].pc = "claim"
  /\ \/ /\ row = NoRow /\ claim = g
        /\ row' = [request |-> gate[g].request, state |-> "pending",
                   answer |-> NoAnswer]
        /\ Goes(g, "run")
        /\ UNCHANGED claim
     \/ /\ \/ row = NoRow
           \/ row.request = gate[g].request /\ row.state # "confirmed"
        /\ claim # g
        /\ Replies(g, Says("pending"))
        /\ UNCHANGED row
     \/ /\ row.request \notin {NoRequest, gate[g].request}
        /\ Replies(g, Says("conflict"))
        /\ UNCHANGED row
     \/ /\ row.request = gate[g].request /\ row.state # "confirmed"
        /\ claim = g
        /\ row' = [row EXCEPT !.state = "indeterminate"]
        /\ claim' = Nobody
        /\ Goes(g, "recover")
     \/ /\ row.request = gate[g].request /\ row.state = "confirmed"
        /\ Replies(g, row.answer)
        /\ UNCHANGED row
  /\ UNCHANGED <<launchVars, reader, bounds>>

\* The callback of the action refuses the request, or calls the job owner.
Runs(g) ==
  /\ gate[g].pc = "run"
  /\ \/ /\ gate' = [gate EXCEPT ![g].pc = "settle", ![g].verdict = "refused"]
        /\ UNCHANGED launchVars
     \/ Launcher!Calls(g, gate[g].request) /\ Goes(g, "running")
  /\ UNCHANGED <<row, claim, reader, bounds>>

\* Slip: whatever the job owner raises is settled as a refusal.
OwnerFailsClean(g) ==
  /\ gate[g].pc = "running"
  /\ call[g].pc = "told"
  /\ Launcher!Returns(g)
  /\ gate' = [gate EXCEPT ![g].pc = "settle",
                          ![g].verdict = IF call[g].result = "started"
                                         THEN "ok" ELSE "refused"]
  /\ UNCHANGED <<row, claim, reader, bounds>>

\* A job is an answer once its receipt and result are recorded, which may
\* fail; what the job owner raises says nothing of the job (_failure).
OwnerReturns(g) ==
  /\ gate[g].pc = "running"
  /\ call[g].pc = "told"
  /\ Launcher!Returns(g)
  /\ \E verdict \in {"ok", "unknown"} :
       /\ verdict = "ok" => call[g].result \in {"started", "reused"}
       /\ gate' = [gate EXCEPT ![g].pc = "settle", ![g].verdict = verdict]
  /\ UNCHANGED <<row, claim, reader, bounds>>

\* Audit.abandon_idempotency.
Abandons == row' = IF row.state = "pending"
                   THEN [row EXCEPT !.state = "indeterminate"] ELSE row

\* A cancelled call is let go of when the thread of its owner returns, or
\* before it has called it.
CallCancelled(g) ==
  /\ \/ gate[g].pc = "run" /\ UNCHANGED launchVars
     \/ gate[g].pc = "running" /\ call[g].pc = "told" /\ Launcher!Returns(g)
  /\ Abandons
  /\ gate' = [gate EXCEPT ![g] = NoGate]
  /\ claim' = Nobody
  /\ UNCHANGED <<reader, bounds>>

\* Slip: an answer replaces the one that is there.
CompletesAnyway(g, verdict) ==
  LET answer == [verdict |-> verdict, by |-> g]
  IN /\ row' = [row EXCEPT !.state = "confirmed", !.answer = answer]
     /\ Replies(g, answer)

\* Audit.complete_idempotency: the first answer stays and is everyone's.
Completes(g, verdict) ==
  LET answer == [verdict |-> verdict, by |-> g]
  IN /\ row' = IF row.state = "confirmed" THEN row
               ELSE [row EXCEPT !.state = "confirmed", !.answer = answer]
     /\ Replies(g, row'.answer)

\* The claim is settled, unless the database fails; the lock is let go of.
Settles(g) ==
  /\ gate[g].pc = "settle"
  /\ \/ /\ gate[g].verdict = "unknown"
        /\ Abandons
        /\ Replies(g, Says("indeterminate"))
     \/ gate[g].verdict # "unknown" /\ Completes(g, gate[g].verdict)
     \/ Replies(g, Says("failed")) /\ UNCHANGED row
  /\ UNCHANGED <<launchVars, reader, bounds>>

-----------------------------------------------------------------------------
(* Reconciliation: lookup_operation_request without the lock of the key.   *)

RecoverReads(g) ==
  /\ gate[g].pc = "recover"
  /\ \/ /\ input = Launcher!NoInput
        /\ Replies(g, Says("indeterminate"))
     \/ /\ input # Launcher!NoInput
        /\ gate' = [gate EXCEPT ![g].pc = "look", ![g].acked = input.acked]
        /\ UNCHANGED claim
  /\ UNCHANGED <<launchVars, row, reader, bounds>>

\* pueue may not answer.
RecoverLooks(g) ==
  /\ gate[g].pc = "look"
  /\ \/ /\ Goes(g, IF queued # {} THEN "recovered" ELSE "evidence")
        /\ UNCHANGED claim
     \/ Replies(g, Says("indeterminate"))
  /\ UNCHANGED <<launchVars, row, reader, bounds>>

RecoverJudges(g) ==
  /\ gate[g].pc = "evidence"
  /\ IF gate[g].acked \/ attempts
     THEN Goes(g, "recovered") /\ UNCHANGED claim
     ELSE Replies(g, Says("indeterminate"))
  /\ UNCHANGED <<launchVars, row, reader, bounds>>

RecoverCompletes(g) ==
  /\ gate[g].pc = "recovered"
  /\ \/ Completes(g, "ok")
     \/ Replies(g, Says("failed")) /\ UNCHANGED row
  /\ UNCHANGED <<launchVars, reader, bounds>>

Returns(g) ==
  /\ gate[g].pc = "told"
  /\ gate' = [gate EXCEPT ![g] = NoGate]
  /\ UNCHANGED <<launchVars, row, claim, reader, bounds>>

-----------------------------------------------------------------------------
(* audit.operation, and the gateway's end.                                 *)

\* Only a pending row is not answered from the row alone.
ReadsRow ==
  /\ reader.pc = "idle"
  /\ bounds.reads < MaxReads
  /\ bounds' = [bounds EXCEPT !.reads = @ + 1]
  /\ reader' =
       IF row.state = "pending"
       THEN [pc |-> "probe", saw |-> "pending", report |-> "none"]
       ELSE [pc |-> "told", saw |-> row.state,
             report |-> IF row.state = "absent" THEN "unknown" ELSE row.state]
  /\ UNCHANGED <<launchVars, row, claim, gate>>

\* _claim_is_live takes the lock if it is free, and closes it.
Probes ==
  /\ reader.pc = "probe"
  /\ \/ /\ claim = Nobody
        /\ claim' = Reader
        /\ reader' = [reader EXCEPT !.pc = "unlock", !.report = "indeterminate"]
     \/ /\ claim # Nobody
        /\ reader' = [reader EXCEPT !.pc = "told", !.report = "pending"]
        /\ UNCHANGED claim
  /\ UNCHANGED <<launchVars, row, gate, bounds>>

ProbeEnds ==
  /\ reader.pc = "unlock"
  /\ claim' = Nobody
  /\ reader' = [reader EXCEPT !.pc = "told"]
  /\ UNCHANGED <<launchVars, row, gate, bounds>>

ReadReturns ==
  /\ reader.pc = "told"
  /\ reader' = NoRead
  /\ UNCHANGED <<launchVars, row, claim, gate, bounds>>

\* The gateway's process ends with all its calls; the kernel drops its locks.
Restarts ==
  /\ bounds.restarts < MaxRestarts
  /\ bounds' = [bounds EXCEPT !.restarts = @ + 1]
  /\ \E g \in Callers : gate[g].pc # "idle"
  /\ gate' = [g \in Callers |-> NoGate]
  /\ claim' = Nobody
  /\ reader' = NoRead
  /\ Launcher!Die(Callers)
  /\ UNCHANGED row

OwnerSteps(g) ==
  Launcher!LaunchStep(g) /\ UNCHANGED <<row, claim, gate, reader, bounds>>

CallStep(g) ==
  \/ TriesLock(g) \/ Claims(g) \/ Runs(g) \/ OwnerSteps(g) \/ OwnerReturns(g)
  \/ Settles(g) \/ RecoverReads(g) \/ RecoverLooks(g) \/ RecoverJudges(g)
  \/ RecoverCompletes(g) \/ Returns(g)

QueueMoves ==
  Launcher!QueueStep /\ UNCHANGED <<row, claim, gate, reader, bounds>>

AtRest ==
  /\ bounds.requests = MaxRequests
  /\ \A g \in Callers : gate[g].pc = "idle"
  /\ UNCHANGED vars

Next ==
  \/ \E g \in Callers :
       \/ \E r \in Requests : Request(g, r)
       \/ CallStep(g) \/ CallCancelled(g)
  \/ ReadsRow \/ Probes \/ ProbeEnds \/ ReadReturns
  \/ QueueMoves
  \/ Restarts
  \/ AtRest

Spec == Init /\ [][Next]_vars

-----------------------------------------------------------------------------
(* Properties.                                                             *)

\* "This key will not execute again" (runtime.py): the job owner is called
\* once for a key, over restarts, cancelled calls and failed settlements.
ExecutesOnce == calls <= 1

\* What a caller is told of its effect is true of the queue and stays so: "ok"
\* names a job of the very request, and after a refusal nothing was sent or
\* ever will be.
AnswersAreTrue ==
  \A answer \in {gate[g].reply : g \in Callers} \cup {row.answer} :
    /\ answer.verdict = "ok" => tasks # {} /\ input.request = row.request
    /\ answer.verdict = "refused" => adds = 0 /\ calls = 0

\* Whoever is given an answer to the key is given the same one, and it stays.
OneAnswer ==
  [][/\ row.state = "confirmed" => row' = row
     /\ \A g \in Callers :
          gate'[g].reply.verdict \in {"ok", "refused"}
            => gate'[g].reply = row'.answer]_vars
=============================================================================
