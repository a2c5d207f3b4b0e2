----------------------------- MODULE KeyedLaunch -----------------------------
(***************************************************************************)
(* A launch under an idempotency key.  Callers of one key (a gateway call, *)
(* the command line) contend for the key's lock; the one that holds it     *)
(* reads the retained launch input, asks pueue, and either reports the job *)
(* it finds or writes the input and adds the task.  A pueue client that is *)
(* cut off leaves its request with the daemon, which may take it later.    *)
(* A caller may die at any point, and the job that was launched runs, ends *)
(* and is cleaned meanwhile.                                               *)
(*                                                                         *)
(* The pool exists or not throughout: nobody creates a pueue group between *)
(* a client that is cut off and its daemon.  The admission lock and holds  *)
(* of a launch are in Admission.                                           *)
(***************************************************************************)
EXTENDS Naturals

CONSTANTS
  Callers,    \* processes that launch under the key
  Requests,   \* the requests they make: what request_digest tells apart
  NoRequest,  \* no request
  Nobody,     \* nobody has the lock
  MaxCalls    \* calls of all callers: a bound

VARIABLES
  lock,     \* who has the lock of the key
  input,    \* the retained launch input: its request, and whether it names
            \* the task pueue assigned
  call,     \* the call of each caller
  wire,     \* adds that are with the daemon, by number
  tasks,    \* tasks that were added for the key, by the number of the add
  queued,   \* those that pueue still lists
  attempts, \* whether a wrapper of one of them has left an attempt directory
  group,    \* whether the pool is a pueue group
  calls,    \* calls made
  adds      \* adds sent

queueVars == <<wire, tasks, queued, attempts>>
vars == <<lock, input, call, queueVars, group, calls, adds>>

Adds == 1..MaxCalls
NoInput == [request |-> NoRequest, acked |-> FALSE]
NoCall == [pc |-> "idle", request |-> NoRequest, add |-> 0, result |-> "none"]

Input == [request : Requests \cup {NoRequest}, acked : BOOLEAN]
Call == [pc : {"idle", "lock", "read", "look", "evidence", "write", "add",
               "sent", "ack", "told"},
         request : Requests \cup {NoRequest},
         add : 0..MaxCalls,
         result : {"none", "started", "reused", "mismatch", "uncertain",
                   "no_group", "unavailable"}]

TypeOK ==
  /\ lock \in Callers \cup {Nobody}
  /\ input \in Input
  /\ call \in [Callers -> Call]
  /\ wire \subseteq Adds
  /\ tasks \subseteq Adds
  /\ queued \subseteq tasks
  /\ attempts \in BOOLEAN
  /\ group \in BOOLEAN
  /\ calls \in 0..MaxCalls
  /\ adds \in 0..MaxCalls

Init ==
  /\ lock = Nobody
  /\ input = NoInput
  /\ call = [c \in Callers |-> NoCall]
  /\ wire = {} /\ tasks = {} /\ queued = {}
  /\ attempts = FALSE
  /\ group \in BOOLEAN
  /\ calls = 0 /\ adds = 0

Goes(c, pc) == call' = [call EXCEPT ![c].pc = pc]

\* Slip: the lock file stays open when the call is over.
EndsLocked(c, result) ==
  /\ call' = [call EXCEPT ![c].pc = "told", ![c].result = result]
  /\ UNCHANGED lock

\* The call answers or raises; the lock file is closed either way.
Ends(c, result) ==
  /\ call' = [call EXCEPT ![c].pc = "told", ![c].result = result]
  /\ lock' = Nobody

-----------------------------------------------------------------------------
(* A caller.                                                               *)

Calls(c, r) ==
  /\ call[c].pc = "idle"
  /\ calls < MaxCalls
  /\ call' = [call EXCEPT ![c] = [pc |-> "lock", request |-> r, add |-> 0,
                                  result |-> "none"]]
  /\ calls' = calls + 1
  /\ UNCHANGED <<lock, input, queueVars, group, adds>>

\* Slip: the key is not locked.
LocksNothing(c) ==
  /\ call[c].pc = "lock"
  /\ Goes(c, "read")
  /\ UNCHANGED <<lock, input, queueVars, group, calls, adds>>

\* enqueue_request and start_operation lock the file of the key first.
Locks(c) ==
  /\ call[c].pc = "lock"
  /\ lock = Nobody
  /\ lock' = c
  /\ Goes(c, "read")
  /\ UNCHANGED <<input, queueVars, group, calls, adds>>

\* The retained launch input, if there is one, is of the same request.
ReadsInput(c) ==
  /\ call[c].pc = "read"
  /\ \/ /\ input = NoInput
        /\ Goes(c, "write")
        /\ UNCHANGED lock
     \/ /\ input.request = call[c].request
        /\ Goes(c, "look")
        /\ UNCHANGED lock
     \/ /\ input.request \notin {NoRequest, call[c].request}
        /\ Ends(c, "mismatch")
  /\ UNCHANGED <<input, queueVars, group, calls, adds>>

\* find_task among all that pueue lists, or pueue does not answer.
LooksAtQueue(c) ==
  /\ call[c].pc = "look"
  /\ \/ queued # {} /\ Ends(c, "reused")
     \/ queued = {} /\ Goes(c, "evidence") /\ UNCHANGED lock
     \/ Ends(c, "unavailable")
  /\ UNCHANGED <<input, queueVars, group, calls, adds>>

\* Without the task, its number or an attempt of it shows that it was added;
\* without either, nobody can tell.
LooksAtEvidence(c) ==
  /\ call[c].pc = "evidence"
  /\ Ends(c, IF input.acked \/ attempts THEN "reused" ELSE "uncertain")
  /\ UNCHANGED <<input, queueVars, group, calls, adds>>

\* enqueue may find the admission lock busy; else the input comes first.  What
\* is to be done before the task is added may fail, and leaves the input.
WritesInput(c) ==
  /\ call[c].pc = "write"
  /\ \/ Ends(c, "unavailable") /\ UNCHANGED input
     \/ /\ input' = [request |-> call[c].request, acked |-> FALSE]
        /\ \/ Goes(c, "add") /\ UNCHANGED lock
           \/ Ends(c, "unavailable")
  /\ UNCHANGED <<queueVars, group, calls, adds>>

SendsAdd(c) ==
  /\ call[c].pc = "add"
  /\ adds' = adds + 1
  /\ wire' = wire \cup {adds + 1}
  /\ call' = [call EXCEPT ![c].pc = "sent", ![c].add = adds + 1]
  /\ UNCHANGED <<lock, input, tasks, queued, attempts, group, calls>>

\* pueue prints the number of the task.
AddAnswered(c) ==
  /\ call[c].pc = "sent"
  /\ call[c].add \in tasks
  /\ Goes(c, "ack")
  /\ UNCHANGED <<lock, input, queueVars, group, calls, adds>>

\* pueue fails or is cut off.  Where it lists its groups and the pool is not
\* among them, the task cannot have been added and the input goes, unless the
\* task was to wait for others; else, it stays.
AddFails(c) ==
  /\ call[c].pc = "sent"
  /\ \/ ~group /\ Ends(c, "no_group") /\ input' \in {NoInput, input}
     \/ Ends(c, "uncertain") /\ UNCHANGED input
  /\ UNCHANGED <<queueVars, group, calls, adds>>

\* The number goes to the input, unless that cannot be written; what pueue is
\* asked then for the view of the job may fail.
Acks(c) ==
  /\ call[c].pc = "ack"
  /\ \/ /\ input' = [request |-> call[c].request, acked |-> TRUE]
        /\ Ends(c, "started") \/ Ends(c, "unavailable")
     \/ Ends(c, "unavailable") /\ UNCHANGED input
  /\ UNCHANGED <<queueVars, group, calls, adds>>

Returns(c) ==
  /\ call[c].pc = "told"
  /\ call' = [call EXCEPT ![c] = NoCall]
  /\ UNCHANGED <<lock, input, queueVars, group, calls, adds>>

\* A process ends, and with it the lock it has; an add that it has sent is
\* with the daemon.
Die(dead) ==
  /\ call' = [c \in Callers |-> IF c \in dead THEN NoCall ELSE call[c]]
  /\ lock' = IF lock \in dead THEN Nobody ELSE lock
  /\ UNCHANGED <<input, queueVars, group, calls, adds>>

Dies(c) == call[c].pc # "idle" /\ Die({c})

-----------------------------------------------------------------------------
(* pueue, the job and the operator.                                        *)

\* The daemon takes an add, unless it lacks the group, or loses it.
DaemonAdds(a) ==
  /\ a \in wire
  /\ wire' = wire \ {a}
  /\ \/ /\ group
        /\ tasks' = tasks \cup {a}
        /\ queued' = queued \cup {a}
     \/ UNCHANGED <<tasks, queued>>
  /\ UNCHANGED <<lock, input, call, attempts, group, calls, adds>>

\* agentctl-run begins an attempt of a task; without its input, it refuses.
JobBegins ==
  /\ queued # {} /\ input # NoInput /\ ~attempts
  /\ attempts' = TRUE
  /\ UNCHANGED <<lock, input, call, wire, tasks, queued, group, calls, adds>>

\* The task is removed, after it has run or before; its launch stays.
JobRemoved(t) ==
  /\ t \in queued
  /\ queued' = queued \ {t}
  /\ UNCHANGED <<lock, input, call, wire, tasks, attempts, group, calls, adds>>

LaunchStep(c) ==
  \/ Locks(c) \/ ReadsInput(c) \/ LooksAtQueue(c) \/ LooksAtEvidence(c)
  \/ WritesInput(c) \/ SendsAdd(c) \/ AddAnswered(c) \/ AddFails(c) \/ Acks(c)

CallStep(c) == LaunchStep(c) \/ Returns(c)

QueueStep ==
  \/ \E a \in Adds : DaemonAdds(a) \/ JobRemoved(a)
  \/ JobBegins

AtRest ==
  /\ calls = MaxCalls
  /\ \A c \in Callers : call[c].pc = "idle"
  /\ UNCHANGED vars

Next ==
  \/ \E c \in Callers :
       \/ \E r \in Requests : Calls(c, r)
       \/ CallStep(c) \/ Dies(c)
  \/ QueueStep
  \/ AtRest

Spec == Init /\ [][Next]_vars

\* What a caller does once it has the lock is bounded by the time limits of
\* what it calls.
FairSpec ==
  Spec /\ \A c \in Callers : WF_vars(CallStep(c))

-----------------------------------------------------------------------------
(* Properties.                                                             *)

\* One job at most is launched for the key (launch.py, lookup_operation_request:
\* "never submit"), for the request that came first, and whoever is told of a
\* job asked for that one; a job runs what the retained launch input says.
Promise == INSTANCE LaunchOnce WITH
  launched <- IF tasks = {} THEN NoRequest ELSE input.request,
  asked <- [c \in Callers |-> call[c].request],
  told <- [c \in Callers |-> call[c].result \in {"started", "reused"}]
KeepsPromise == Promise!Spec /\ [](\A a, b \in tasks : a = b)

\* Every call of the key ends: nobody waits for ever for its lock.
CallReturns ==
  \A c \in Callers : call[c].pc # "idle" ~> call[c].pc = "idle"
=============================================================================
