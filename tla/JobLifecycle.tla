---------------------------- MODULE JobLifecycle ----------------------------
(***************************************************************************)
(* One queued job of agentctl: the pueue task, the agentctl-run wrapper    *)
(* the task starts, the transient systemd unit the wrapper dispatches, the *)
(* kernel cgroup the unit's processes live in, and the operator commands   *)
(* that work on the job while it moves: `job cancel` (with or without      *)
(* --expected-attempt), `job retry` and `job clean`.                       *)
(*                                                                         *)
(* Every actor is a separate process.  They share files (attempt           *)
(* directories, the cancel marker, the disposition), the attempt           *)
(* allocation lock, and what pueue and systemd report.  A step of this     *)
(* module is one critical section, one file write or one call to pueue or  *)
(* systemd, so every interleaving of those is a behaviour.                 *)
(***************************************************************************)
EXTENDS Integers, FiniteSets

CONSTANTS
  MaxRuns,      \* how often pueue may start the task: bounds the retries
  Cancellers,   \* calls of `job cancel`; each is made at most once
  Guarded,      \* the calls that pass --expected-attempt
  UsesScratch,  \* whether the launch input declares a scratch directory
  BusRetries,   \* startup retries that fit in BUS_CONNECT_RETRY_SECONDS
  Faults        \* what the environment may do in this instance

(***************************************************************************)
(* Environment faults.  "survivor": a process outlives `systemctl stop`.   *)
(* "forget": the manager drops a unit while processes remain in its        *)
(* cgroup.  "query": a call to pueue or systemctl fails or loses its       *)
(* answer.  "kill": the wrapper is killed from outside.  "die": a          *)
(* canceller dies.  "overlap": operator commands run at the same time.     *)
(***************************************************************************)
FaultKinds == {"survivor", "forget", "query", "kill", "die", "overlap"}

ASSUME MaxRunsAssumption == MaxRuns \in Nat \ {0}
ASSUME CancellersAssumption ==
  /\ IsFiniteSet(Cancellers)
  /\ Guarded \subseteq Cancellers
  /\ Cancellers \cap {"free", "wrapper"} = {}
ASSUME SettingsAssumption ==
  /\ UsesScratch \in BOOLEAN
  /\ BusRetries \in Nat
  /\ Faults \subseteq FaultKinds

Fault(kind) == kind \in Faults

VARIABLES
  task,         \* the queue entry pueue holds for the job
  wrapper,      \* the agentctl-run process and its _Scratch record
  unit,         \* the job's systemd unit; every attempt uses one name
  members,      \* attempts with a live process in the unit's cgroup
  execution,    \* what the payload of each attempt really did
  attempts,     \* attempt directories allocated so far
  outcome,      \* each attempt's outcome file
  marker,       \* attempt the cancel marker names, 0 when there is none
  requests,     \* attempts with a cancel-request record
  disposition,  \* the <input>.disposition document
  scratch,      \* attempt that owns the scratch directory, 0 when absent
  allocation,   \* holder of <ref>.attempts/.allocation.lock
  cancel,       \* each canceller's local state
  retrying,     \* local state of `job retry` (one at a time: admission lock)
  cleaning      \* local state of `job clean`

unitVars  == <<unit, members, execution>>
fileVars  == <<attempts, outcome, marker, requests, disposition, scratch>>
operatorVars == <<retrying, cleaning>>
vars == <<task, wrapper, unitVars, fileVars, allocation, cancel, operatorVars>>

-----------------------------------------------------------------------------
(* Types.                                                                  *)

Attempt   == 1..MaxRuns
NoAttempt == 0

Results  == {"success", "failed", "timeout"}
Outcomes == Results \cup {"cancelled", "vanished", "slot_occupied", "refused"}

Statuses == {"Queued", "Running", "Done", "Gone"}
Task == [status : Statuses, run : 0..MaxRuns]

\* A unit is "exited" while RemainAfterExit keeps it, "stopped" between a
\* stop and its unloading, "absent" when systemd does not have it loaded.
Unit == [state : {"absent", "active", "exited", "failed", "stopped"},
         attempt : 0..MaxRuns, result : Results \cup {"none"}]
NoUnit == [state |-> "absent", attempt |-> NoAttempt, result |-> "none"]

\* What a document says of the cgroup: the kernel path, the blank
\* ControlGroup of a unit that is not loaded, null, or no such key.
Cgroups == {"path", "blank", "null", "nokey"}

DispositionKinds ==
  {"none", "claimed", "intent", "unresolved", "incomplete", "cancelled",
   "not_started"}
Disposition == [kind : DispositionKinds, cgroup : Cgroups,
                attempt : 0..MaxRuns + 1]
NoDisposition == [kind |-> "none", cgroup |-> "nokey", attempt |-> NoAttempt]

WrapperPcs ==
  {"none", "begin", "prepare", "check", "admit", "claim", "dispatch",
   "backoff", "snapshot", "await", "classify", "release", "finish",
   "cleanup", "publish", "exited"}
Wrapper == [pc : WrapperPcs, attempt : 0..MaxRuns, owns : BOOLEAN,
            cgroup : {"path", "null"}, cleaned : BOOLEAN,
            retries : 0..BusRetries,
            props : Results \cup {"none", "gone"},
            outcome : Outcomes \cup {"none"}]
NoWrapper == [pc |-> "none", attempt |-> NoAttempt, owns |-> FALSE,
              cgroup |-> "null", cleaned |-> FALSE, retries |-> 0,
              props |-> "none", outcome |-> "none"]

CancelPcs ==
  {"idle", "guard", "read", "intent", "mark_queued", "reread_queued",
   "remove", "confirm", "reread", "mark", "capture", "stop", "settle",
   "escalate", "kill", "observe", "report", "done"}
CancelResults ==
  {"none", "terminal", "gone", "changed", "unresolved", "removed",
   "stopped", "incomplete", "unanswered", "died"}
Canceller == [pc : CancelPcs, expected : 0..MaxRuns, run : 0..MaxRuns,
              attempt : 0..MaxRuns + 1, cgroup : Cgroups,
              result : CancelResults]
IdleCanceller == [pc |-> "idle", expected |-> NoAttempt, run |-> 0,
                  attempt |-> NoAttempt, cgroup |-> "nokey",
                  result |-> "none"]

TypeOK ==
  /\ task \in Task
  /\ wrapper \in Wrapper
  /\ unit \in Unit
  /\ members \subseteq Attempt
  /\ execution \in [Attempt -> Results \cup {"none", "stopped"}]
  /\ attempts \in 0..MaxRuns
  /\ outcome \in [Attempt -> Outcomes \cup {"none"}]
  /\ marker \in 0..MaxRuns + 1
  /\ requests \subseteq 0..MaxRuns + 1
  /\ disposition \in Disposition
  /\ scratch \in 0..MaxRuns
  /\ allocation \in {"free", "wrapper"} \cup Cancellers
  /\ cancel \in [Cancellers -> Canceller]
  /\ retrying \in {"idle", "drained", "cleared"}
  /\ cleaning \in {"idle", "drained", "removed"}

Init ==
  /\ task = [status |-> "Queued", run |-> 0]
  /\ wrapper = NoWrapper
  /\ unit = NoUnit
  /\ members = {}
  /\ execution = [n \in Attempt |-> "none"]
  /\ attempts = 0
  /\ outcome = [n \in Attempt |-> "none"]
  /\ marker = NoAttempt
  /\ requests = {}
  /\ disposition = NoDisposition
  /\ scratch = NoAttempt
  /\ allocation = "free"
  /\ cancel = [c \in Cancellers |-> IdleCanceller]
  /\ retrying = "idle"
  /\ cleaning = "idle"

-----------------------------------------------------------------------------
(* What the processes read.                                                *)

\* pueue gives a started task a start time, which tells its runs apart.
StartedAt == IF task.status \in {"Running", "Done"} THEN task.run ELSE 0

UnfinishedAttempt == attempts > 0 /\ outcome[attempts] = "none"

\* Slip: the count of attempt directories is taken for the next number.
ActiveAttemptSkipsOne == IF UnfinishedAttempt THEN attempts ELSE attempts + 2

\* The attempt a request made now is for: the one under way, or the next.
ActiveAttempt == IF UnfinishedAttempt THEN attempts ELSE attempts + 1

MayFail(answer) == IF Fault("query") THEN {answer} ELSE {}

\* Answers of `systemctl show -p ControlGroup`.
UnitCgroup ==
  {IF unit.state = "absent" THEN "blank" ELSE "path"} \cup MayFail("null")

\* Slip: systemd's word for the unit is taken for the state of its cgroup.
CgroupStatusOfUnit(cgroup) ==
  {IF unit.state = "active" THEN "populated" ELSE "empty"}

CgroupStatus(cgroup) ==
  MayFail("unresolved") \cup
  CASE cgroup = "path"  -> {IF members = {} THEN "empty" ELSE "populated"}
    [] cgroup = "blank" -> {"empty"}
    [] OTHER            -> {"unresolved"}

\* Results of cgroups.observe: a path that is not known is asked for again.
Observations(known) ==
  {o \in [cgroup : IF known = "path" THEN {"path"} ELSE UnitCgroup,
          status : {"empty", "populated", "unresolved"}] :
     o.status \in CgroupStatus(o.cgroup)}

\* Slip: only a cancel that did not finish guards the job.
GuardedByCancelOnly(d) == d.kind = "incomplete"

\* Whether a reader of disposition d may find no cancellation obstacle.
GuardedBy(d) == d.kind = "incomplete" \/ d.cgroup # "nokey"
MayPass(d) ==
  \/ ~GuardedBy(d)
  \/ /\ d.cgroup # "null"
     /\ \E o \in Observations(d.cgroup) : o.status = "empty"
\* Whether it may find one.
MayBlock(d) ==
  /\ GuardedBy(d)
  /\ \/ d.cgroup = "null"
     \/ \E o \in Observations(d.cgroup) : o.status # "empty"

InFlight(c) == cancel[c].pc \notin {"idle", "done"}

\* Whether a command may begin beside the others that are under way.
MayBegin ==
  \/ Fault("overlap")
  \/ /\ \A c \in Cancellers : ~InFlight(c)
     /\ retrying = "idle"
     /\ cleaning = "idle"

-----------------------------------------------------------------------------
(* systemd and the kernel.                                                 *)

\* What is left in the cgroup once the manager has killed it.
Leftovers == {{}} \cup (IF Fault("survivor") THEN {members} ELSE {})

\* The manager unloads a unit at rest, sometimes above a populated cgroup.
Unloads(left) == left = {} \/ Fault("forget")

Halted(left, state, result) ==
  [unit |-> IF state = "absent"
            THEN NoUnit
            ELSE [unit EXCEPT !.state = state, !.result = result],
   members |-> left,
   execution |-> [execution EXCEPT ![unit.attempt] = "stopped"]]

\* What `systemctl stop` can leave behind.
StopResults ==
  LET asis == [unit |-> unit, members |-> members, execution |-> execution]
  IN IF unit.state = "active"
     THEN {h \in {Halted(left, state, result) :
                    left \in Leftovers, state \in {"stopped", "absent"},
                    result \in {"success", "failed"}} :
             h.unit = NoUnit => Unloads(h.members)}
          \cup MayFail(asis)
     ELSE IF unit.state = "exited"
     THEN {[asis EXCEPT !.unit = NoUnit]} \cup MayFail(asis)
     ELSE {asis}

Leave(s) == unit' = s.unit /\ members' = s.members /\ execution' = s.execution

\* The payload and everything it started exit (ExitType=cgroup).
PayloadEnds ==
  /\ unit.state = "active"
  /\ \E result \in {"success", "failed"} :
       /\ unit' = [unit EXCEPT !.result = result,
                     !.state = IF result = "success" THEN "exited" ELSE "failed"]
       /\ execution' = [execution EXCEPT ![unit.attempt] = result]
  /\ members' = {}
  /\ UNCHANGED <<task, wrapper, fileVars, allocation, cancel, operatorVars>>

\* RuntimeMaxSec expires; the manager kills the unit's processes.
RuntimeExpires ==
  /\ unit.state = "active"
  /\ unit' = [unit EXCEPT !.state = "failed", !.result = "timeout"]
  /\ execution' = [execution EXCEPT ![unit.attempt] = "timeout"]
  /\ members' \in Leftovers
  /\ UNCHANGED <<task, wrapper, fileVars, allocation, cancel, operatorVars>>

UnitUnloads ==
  /\ unit.state = "stopped"
  /\ Unloads(members)
  /\ unit' = NoUnit
  /\ UNCHANGED <<task, wrapper, members, execution, fileVars, allocation,
                 cancel, operatorVars>>

SurvivorsExit ==
  /\ unit.state # "active"
  /\ members # {}
  /\ members' = {}
  /\ UNCHANGED <<task, wrapper, unit, execution, fileVars, allocation, cancel,
                 operatorVars>>

-----------------------------------------------------------------------------
(* pueued.                                                                 *)

TaskStart ==
  /\ task.status = "Queued"
  /\ task' = [status |-> "Running", run |-> task.run + 1]
  /\ wrapper' = [NoWrapper EXCEPT !.pc = "begin"]
  /\ UNCHANGED <<unitVars, fileVars, allocation, cancel, operatorVars>>

TaskReap ==
  /\ wrapper.pc = "exited"
  /\ task' = [task EXCEPT !.status = "Done"]
  /\ wrapper' = NoWrapper
  /\ UNCHANGED <<unitVars, fileVars, allocation, cancel, operatorVars>>

\* SIGKILL of a live wrapper: its locks go with it, its files stay.
WrapperAlive == wrapper.pc \notin {"none", "exited"}
KillWrapper ==
  /\ WrapperAlive
  /\ task' = [task EXCEPT !.status = "Done"]
  /\ wrapper' = NoWrapper

WrapperKilled ==
  /\ Fault("kill")
  /\ KillWrapper
  /\ allocation' = IF allocation = "wrapper" THEN "free" ELSE allocation
  /\ UNCHANGED <<unitVars, fileVars, cancel, operatorVars>>

-----------------------------------------------------------------------------
(* agentctl-run.                                                           *)

WrapperGoes(from, to) ==
  wrapper.pc = from /\ wrapper' = [wrapper EXCEPT !.pc = to]

\* The wrapper settles on an outcome and moves on.
WrapperConcludes(from, to, result) ==
  /\ wrapper.pc = from
  /\ wrapper' = [wrapper EXCEPT !.pc = to, !.outcome = result]

MarkerTargets == marker = wrapper.attempt

\* artifacts.begin: under the lock, number the attempt and drop a marker
\* that names another one.
WrapperBegin ==
  /\ wrapper.pc = "begin"
  /\ allocation = "free"
  /\ attempts' = attempts + 1
  /\ marker' = IF marker = attempts + 1 THEN marker ELSE NoAttempt
  /\ wrapper' = [wrapper EXCEPT !.pc = "prepare", !.attempt = attempts + 1]
  /\ UNCHANGED <<task, unitVars, outcome, requests, disposition, scratch,
                 allocation, cancel, operatorVars>>

\* A vanished working directory, or scratch that another attempt left.
WrapperRefusesEarly ==
  /\ WrapperConcludes("prepare", "publish", "refused")
  /\ UNCHANGED <<task, unitVars, fileVars, allocation, cancel, operatorVars>>

WrapperPrepares ==
  /\ WrapperGoes("prepare", "check")
  /\ UsesScratch => scratch = NoAttempt
  /\ scratch' = IF UsesScratch THEN wrapper.attempt ELSE scratch
  /\ UNCHANGED <<task, unitVars, attempts, outcome, marker, requests,
                 disposition, allocation, cancel, operatorVars>>

\* The marker is read once before anything is admitted; an executable that
\* is not found refuses the attempt.
WrapperChecks ==
  /\ IF MarkerTargets
     THEN WrapperConcludes("check", "finish", "cancelled")
     ELSE \/ WrapperConcludes("check", "cleanup", "refused")
          \/ WrapperGoes("check", "admit")
  /\ UNCHANGED <<task, unitVars, fileVars, allocation, cancel, operatorVars>>

\* I/O pressure refuses; a unit of another job may occupy a single slot.
WrapperTurnedAway ==
  /\ \/ WrapperConcludes("admit", "cleanup", "refused")
     \/ WrapperConcludes("admit", "finish", "slot_occupied")
  /\ UNCHANGED <<task, unitVars, fileVars, allocation, cancel, operatorVars>>

\* Otherwise _occupancy settles an orphan of this job that is still listed
\* as active, unless pueue does not answer.
WrapperAdmits ==
  /\ wrapper.pc = "admit"
  /\ wrapper' = [wrapper EXCEPT !.pc = "claim", !.owns = TRUE]
  /\ \/ /\ Fault("query") \/ unit.state \notin {"active", "exited"}
        /\ UNCHANGED unitVars
     \/ /\ unit.state \in {"active", "exited"}
        /\ \E s \in StopResults : Leave(s)
  /\ UNCHANGED <<task, fileVars, allocation, cancel, operatorVars>>

\* Slip: the custody record is not written before the unit is dispatched.
WrapperClaimsUnrecorded ==
  /\ wrapper.pc = "claim"
  /\ allocation = "free"
  /\ IF MarkerTargets
     THEN /\ WrapperConcludes("claim", "finish", "cancelled")
          /\ UNCHANGED allocation
     ELSE /\ wrapper' = [wrapper EXCEPT !.pc = "dispatch", !.cgroup = "path"]
          /\ allocation' = "wrapper"
  /\ UNCHANGED <<task, unitVars, fileVars, cancel, operatorVars>>

\* _start_service, first half of its critical section.
WrapperClaims ==
  /\ wrapper.pc = "claim"
  /\ allocation = "free"
  /\ IF MarkerTargets
     THEN /\ WrapperConcludes("claim", "finish", "cancelled")
          /\ UNCHANGED <<disposition, allocation>>
     ELSE \E cgroup \in {"path"} \cup MayFail("null") :
            /\ wrapper' = [wrapper EXCEPT !.pc = "dispatch", !.cgroup = cgroup]
            /\ disposition' = [kind |-> "claimed", cgroup |-> cgroup,
                               attempt |-> wrapper.attempt]
            /\ allocation' = "wrapper"
  /\ UNCHANGED <<task, unitVars, attempts, outcome, marker, requests, scratch,
                 cancel, operatorVars>>

\* The custody record cannot be written: OSError, refused.
WrapperCannotClaim ==
  /\ Fault("query")
  /\ WrapperConcludes("claim", "cleanup", "refused")
  /\ UNCHANGED <<task, unitVars, fileVars, allocation, cancel, operatorVars>>

\* systemd-run is accepted.  The manager takes no unit whose name is loaded.
WrapperDispatches ==
  /\ unit.state = "absent"
  /\ \/ WrapperGoes("dispatch", "await")
     \/ Fault("query") /\ WrapperGoes("dispatch", "snapshot")
  /\ unit' = [state |-> "active", attempt |-> wrapper.attempt, result |-> "none"]
  /\ members' = members \cup {wrapper.attempt}
  /\ allocation' = "free"
  /\ UNCHANGED <<task, execution, fileVars, cancel, operatorVars>>

\* systemd-run fails without starting anything; a refused bus connection may
\* be tried again.
WrapperRejected ==
  /\ \/ WrapperGoes("dispatch", "snapshot")
     \/ WrapperGoes("dispatch", "backoff")
  /\ allocation' = "free"
  /\ UNCHANGED <<task, unitVars, fileVars, cancel, operatorVars>>

\* Outside the lock: a marker ends the retries, so does a spent budget or a
\* unit that is not confirmed absent.
WrapperBacksOff ==
  /\ IF MarkerTargets
     THEN WrapperConcludes("backoff", "finish", "cancelled")
     ELSE \/ WrapperGoes("backoff", "snapshot")
          \/ /\ wrapper.pc = "backoff"
             /\ wrapper.retries < BusRetries
             /\ unit.state = "absent"
             /\ wrapper' = [wrapper EXCEPT !.pc = "claim", !.retries = @ + 1]
  /\ UNCHANGED <<task, unitVars, fileVars, allocation, cancel, operatorVars>>

\* What a show of the unit says, once it says anything final.
FinalProps ==
  CASE unit.state = "absent" -> {"gone"}
    [] unit.state \in {"exited", "failed", "stopped"} -> {unit.result}
    [] OTHER -> {}

\* After a failed start: one look decides whether there is a unit to await.
WrapperSnapshots ==
  /\ wrapper.pc = "snapshot"
  /\ \/ /\ unit.state = "active"
        /\ WrapperGoes("snapshot", "await")
     \/ \E props \in FinalProps \cup MayFail("none") :
          wrapper' = [wrapper EXCEPT !.pc = "classify", !.props = props]
  /\ UNCHANGED <<task, unitVars, fileVars, allocation, cancel, operatorVars>>

\* _wait_for_unit: a final state, or a deadline met by failing queries.
WrapperAwaits ==
  /\ wrapper.pc = "await"
  /\ \E props \in FinalProps \cup MayFail("none") :
       wrapper' = [wrapper EXCEPT !.pc = "classify", !.props = props]
  /\ UNCHANGED <<task, unitVars, fileVars, allocation, cancel, operatorVars>>

\* Slip: a unit that is gone is taken for a cancelled one.
WrapperClassifiesAbsenceAsCancel ==
  /\ WrapperConcludes("classify", "release",
       IF wrapper.props \in Results THEN wrapper.props ELSE "cancelled")
  /\ UNCHANGED <<task, unitVars, fileVars, allocation, cancel, operatorVars>>

\* _classify, on a marker read outside the lock.
WrapperClassifies ==
  /\ WrapperConcludes("classify", "release",
       IF MarkerTargets THEN "cancelled"
       ELSE IF wrapper.props \in Results THEN wrapper.props
       ELSE "vanished")
  /\ UNCHANGED <<task, unitVars, fileVars, allocation, cancel, operatorVars>>

\* What release_unit can leave; "quiet" is its only successful return.  It
\* asks for the cgroup before the stop when the claim could not name it, and
\* again after it when there was still no answer.
Releases ==
  LET paths == IF wrapper.cgroup = "path" THEN {"path"}
               ELSE IF unit.state = "absent" THEN {"null"}
               ELSE {"path"} \cup MayFail("null")
      emptied(s, path) == \/ s.members = {}
                          \/ path = "null" /\ s.unit.state = "absent"
      released(s, path, quiet) ==
        [quiet |-> quiet, cgroup |-> path,
         unit |-> IF quiet THEN NoUnit ELSE s.unit,
         members |-> s.members, execution |-> s.execution]
  IN {released(s, path, s.unit.state # "active" /\ emptied(s, path)) :
        s \in StopResults, path \in paths}
     \cup IF Fault("query")
          THEN {released(s, path, FALSE) : s \in StopResults, path \in paths}
          ELSE {}

WrapperReleases ==
  /\ wrapper.pc = "release"
  /\ \E r \in Releases :
       /\ Leave(r)
       /\ wrapper' = [wrapper EXCEPT !.pc = "finish", !.owns = ~r.quiet,
                        !.cgroup = r.cgroup,
                        !.outcome = IF r.quiet THEN @ ELSE "vanished"]
  /\ UNCHANGED <<task, fileVars, allocation, cancel, operatorVars>>

\* The marker is consumed under the lock.
WrapperFinishes ==
  /\ WrapperGoes("finish", IF UsesScratch THEN "cleanup" ELSE "publish")
  /\ allocation = "free"
  /\ marker' = IF MarkerTargets THEN NoAttempt ELSE marker
  /\ UNCHANGED <<task, unitVars, attempts, outcome, requests, disposition,
                 scratch, allocation, cancel, operatorVars>>

\* Slip: scratch goes whether or not the unit could be released.
WrapperCleansUpAnyway ==
  /\ WrapperGoes("cleanup",
       IF outcome[wrapper.attempt] = "none" THEN "publish" ELSE "exited")
  /\ scratch' = IF scratch = wrapper.attempt THEN NoAttempt ELSE scratch
  /\ UNCHANGED <<task, unitVars, attempts, outcome, marker, requests,
                 disposition, allocation, cancel, operatorVars>>

\* _Scratch.cleanup: at most once, before the outcome is published or after;
\* scratch goes only with a unit that is released.
WrapperCleansUp ==
  /\ wrapper.pc = "cleanup"
  /\ \E r \in IF wrapper.owns
              THEN Releases
              ELSE {[quiet |-> TRUE, cgroup |-> wrapper.cgroup, unit |-> unit,
                     members |-> members, execution |-> execution]} :
       /\ Leave(r)
       /\ scratch' = IF r.quiet /\ scratch = wrapper.attempt
                     THEN NoAttempt ELSE scratch
       /\ wrapper' = [wrapper EXCEPT !.owns = ~r.quiet, !.cleaned = TRUE,
                        !.cgroup = r.cgroup,
                        !.pc = IF outcome[wrapper.attempt] = "none"
                               THEN "publish" ELSE "exited"]
  /\ UNCHANGED <<task, attempts, outcome, marker, requests, disposition,
                 allocation, cancel, operatorVars>>

\* Slip: the outcome is written for every attempt the wrapper finds.
WrapperPublishesAll ==
  /\ WrapperGoes("publish", IF wrapper.cleaned THEN "exited" ELSE "cleanup")
  /\ outcome' = [n \in Attempt |->
                   IF n <= attempts THEN wrapper.outcome ELSE outcome[n]]
  /\ UNCHANGED <<task, unitVars, attempts, marker, requests, disposition,
                 scratch, allocation, cancel, operatorVars>>

\* publish_outcome replaces the outcome file of the wrapper's own attempt.
WrapperPublishes ==
  /\ WrapperGoes("publish", IF wrapper.cleaned THEN "exited" ELSE "cleanup")
  /\ outcome' = [outcome EXCEPT ![wrapper.attempt] = wrapper.outcome]
  /\ UNCHANGED <<task, unitVars, attempts, marker, requests, disposition,
                 scratch, allocation, cancel, operatorVars>>

WrapperStep ==
  \/ WrapperBegin       \/ WrapperRefusesEarly \/ WrapperPrepares
  \/ WrapperChecks      \/ WrapperTurnedAway   \/ WrapperAdmits
  \/ WrapperClaims      \/ WrapperCannotClaim  \/ WrapperDispatches
  \/ WrapperRejected    \/ WrapperBacksOff     \/ WrapperSnapshots
  \/ WrapperAwaits      \/ WrapperClassifies   \/ WrapperReleases
  \/ WrapperFinishes    \/ WrapperCleansUp     \/ WrapperPublishes

-----------------------------------------------------------------------------
(* `job cancel`.                                                           *)

CancelGoes(c, from, to) ==
  cancel[c].pc = from /\ cancel' = [cancel EXCEPT ![c].pc = to]

\* Slip: a return from the middle of the critical section keeps the lock.
ReturnsLocked(c, result) ==
  /\ cancel' = [cancel EXCEPT ![c].pc = "done", ![c].result = result]
  /\ UNCHANGED allocation

Returns(c, result) ==
  /\ cancel' = [cancel EXCEPT ![c].pc = "done", ![c].result = result]
  /\ allocation' = IF allocation = c THEN "free" ELSE allocation

\* Slip: the marker is written without the lock of the wrapper's dispatch.
EntersUnlocked(c) == UNCHANGED allocation

\* A guarded call holds the allocation lock already; another takes it here
\* and gives it back when it leaves the critical section.
Enters(c) ==
  IF c \in Guarded THEN allocation = c /\ allocation' = c
                   ELSE allocation = "free" /\ allocation' = c
Exits(c) == allocation' = IF c \in Guarded THEN allocation ELSE "free"

CancelCall(c) ==
  /\ MayBegin
  /\ \/ c \notin Guarded /\ CancelGoes(c, "idle", "read")
     \/ /\ c \in Guarded
        /\ cancel[c].pc = "idle"
        /\ \E expected \in 0..attempts :
             cancel' = [cancel EXCEPT ![c].pc = "guard", ![c].expected = expected]
  /\ UNCHANGED <<task, wrapper, unitVars, fileVars, allocation, operatorVars>>

\* --expected-attempt is compared under the lock, which is then kept.
CancelCompares(c) ==
  /\ cancel[c].pc = "guard"
  /\ allocation = "free"
  /\ IF attempts # cancel[c].expected
     THEN Returns(c, "changed")
     ELSE CancelGoes(c, "guard", "read") /\ allocation' = c
  /\ UNCHANGED <<task, wrapper, unitVars, fileVars, operatorVars>>

CancelReads(c) ==
  /\ cancel[c].pc = "read"
  /\ CASE task.status = "Gone" -> Returns(c, "gone")
       [] task.status = "Done" ->
            \/ MayPass(disposition) /\ Returns(c, "terminal")
            \/ MayBlock(disposition) /\ Returns(c, "incomplete")
       [] task.status = "Queued" ->
            CancelGoes(c, "read", "intent") /\ UNCHANGED allocation
       [] task.status = "Running" ->
            /\ cancel' = [cancel EXCEPT ![c].pc = "mark", ![c].run = task.run]
            /\ UNCHANGED allocation
  /\ UNCHANGED <<task, wrapper, unitVars, fileVars, operatorVars>>

\* _cancel_not_started writes its intent before it takes the lock.
CancelIntends(c) ==
  /\ CancelGoes(c, "intent", "mark_queued")
  /\ disposition' = [NoDisposition EXCEPT !.kind = "intent"]
  /\ requests' = requests \cup {0}
  /\ UNCHANGED <<task, wrapper, unitVars, attempts, outcome, marker, scratch,
                 allocation, operatorVars>>

CancelMarksQueued(c) ==
  /\ cancel[c].pc = "mark_queued"
  /\ Enters(c)
  /\ marker' = ActiveAttempt
  /\ cancel' = [cancel EXCEPT ![c].pc = "reread_queued",
                              ![c].attempt = ActiveAttempt]
  /\ UNCHANGED <<task, wrapper, unitVars, attempts, outcome, requests,
                 disposition, scratch, operatorVars>>

CancelUnresolved(c) ==
  /\ disposition' = [NoDisposition EXCEPT !.kind = "unresolved"]
  /\ Returns(c, "unresolved")

CancelRereadsQueued(c) ==
  /\ cancel[c].pc = "reread_queued"
  /\ IF StartedAt # 0
     THEN /\ CancelGoes(c, "reread_queued", "reread")
          /\ Exits(c)
          /\ UNCHANGED disposition
     ELSE IF UnfinishedAttempt
     THEN CancelUnresolved(c)
     ELSE /\ CancelGoes(c, "reread_queued",
                        IF task.status = "Gone" THEN "confirm" ELSE "remove")
          /\ UNCHANGED <<allocation, disposition>>
  /\ UNCHANGED <<task, wrapper, unitVars, attempts, outcome, marker, requests,
                 scratch, operatorVars>>

\* pueue removes a task that is not running.  The answer may be lost, and a
\* refusal is followed by another look.
CancelRemoves(c) ==
  /\ cancel[c].pc = "remove"
  /\ \/ /\ task.status # "Running"
        /\ task' = [task EXCEPT !.status = "Gone"]
        /\ CancelGoes(c, "remove", "confirm")
        /\ UNCHANGED <<allocation, disposition>>
     \/ /\ StartedAt # 0
        /\ task.status = "Running" \/ Fault("query")
        /\ CancelGoes(c, "remove", "reread")
        /\ Exits(c)
        /\ UNCHANGED <<task, disposition>>
     \/ /\ Fault("query")
        /\ task.status = "Queued"
        /\ CancelUnresolved(c)
        /\ UNCHANGED task
  /\ UNCHANGED <<wrapper, unitVars, attempts, outcome, marker, requests,
                 scratch, operatorVars>>

\* The task is gone and, under the lock, no attempt was allocated meanwhile.
CancelConfirms(c) ==
  /\ cancel[c].pc = "confirm"
  /\ marker' = IF marker = cancel[c].attempt THEN NoAttempt ELSE marker
  /\ disposition' = [NoDisposition EXCEPT !.kind = "not_started"]
  /\ Returns(c, "removed")
  /\ UNCHANGED <<task, wrapper, unitVars, attempts, outcome, requests, scratch,
                 operatorVars>>

\* The task started after all: look at it again and cancel the run.
CancelRereads(c) ==
  /\ cancel[c].pc = "reread"
  /\ IF task.status = "Gone"
     THEN Returns(c, "gone")
     ELSE /\ cancel' = [cancel EXCEPT ![c].pc = "mark", ![c].run = StartedAt]
          /\ UNCHANGED allocation
  /\ UNCHANGED <<task, wrapper, unitVars, fileVars, operatorVars>>

\* Record the request, then write the marker, under the lock.
CancelMarks(c) ==
  /\ cancel[c].pc = "mark"
  /\ Enters(c)
  /\ LET active == IF c \in Guarded THEN cancel[c].expected ELSE ActiveAttempt
     IN /\ requests' = requests \cup {active}
        /\ marker' = active
        /\ cancel' = [cancel EXCEPT ![c].pc = "capture", ![c].attempt = active]
  /\ UNCHANGED <<task, wrapper, unitVars, attempts, outcome, disposition,
                 scratch, operatorVars>>

CancelCaptures(c) ==
  /\ cancel[c].pc = "capture"
  /\ \E cgroup \in UnitCgroup :
       /\ disposition' = [kind |-> "incomplete", cgroup |-> cgroup,
                          attempt |-> cancel[c].attempt]
       /\ cancel' = [cancel EXCEPT ![c].pc = "stop", ![c].cgroup = cgroup]
  /\ UNCHANGED <<task, wrapper, unitVars, attempts, outcome, marker, requests,
                 scratch, allocation, operatorVars>>

\* `systemctl stop`; every caller gives the lock back after it.
CancelStops(c) ==
  /\ CancelGoes(c, "stop", "settle")
  /\ \E s \in StopResults : Leave(s)
  /\ allocation' = "free"
  /\ UNCHANGED <<task, wrapper, fileVars, operatorVars>>

\* Slip: when the settle time is over, nothing is killed.
CancelSettlesForLess(c) ==
  /\ CancelGoes(c, "settle", "observe")
  /\ UNCHANGED <<task, wrapper, unitVars, fileVars, allocation, operatorVars>>

\* Poll the queue until the task ends, or until the settle time is over.
CancelSettles(c) ==
  /\ \/ task.status \in {"Done", "Gone"} /\ CancelGoes(c, "settle", "observe")
     \/ /\ task.status \in {"Queued", "Running"}
        /\ CancelGoes(c, "settle", IF c \in Guarded THEN "escalate" ELSE "kill")
  /\ UNCHANGED <<task, wrapper, unitVars, fileVars, allocation, operatorVars>>

\* Slip: the lock is given back between the comparison and the kill.
CancelEscalatesUnlocked(c) ==
  /\ CancelGoes(c, "escalate", "kill")
  /\ allocation = "free"
  /\ attempts = cancel[c].expected
  /\ task.status = "Running" /\ StartedAt = cancel[c].run /\ UnfinishedAttempt
  /\ UNCHANGED <<task, wrapper, unitVars, fileVars, allocation, operatorVars>>

\* A guarded call takes the lock again and looks whether it is still dealing
\* with the same start of the same attempt.  The error of a look that fails
\* is swallowed here, and nothing is killed.
CancelEscalates(c) ==
  /\ cancel[c].pc = "escalate"
  /\ allocation = "free"
  /\ LET started == task.status # "Gone" => StartedAt = cancel[c].run
     IN \/ IF attempts # cancel[c].expected \/ ~started
           THEN Returns(c, "changed")
           ELSE IF task.status = "Running" /\ UnfinishedAttempt
           THEN CancelGoes(c, "escalate", "kill") /\ allocation' = c
           ELSE CancelGoes(c, "escalate", "observe") /\ UNCHANGED allocation
        \/ /\ Fault("query")
           /\ CancelGoes(c, "escalate", "observe")
           /\ UNCHANGED allocation
  /\ UNCHANGED <<task, wrapper, unitVars, fileVars, operatorVars>>

\* pueue.kill names the task only: it kills the wrapper the task has now.
CancelKills(c) ==
  /\ CancelGoes(c, "kill", "observe")
  /\ \/ /\ KillWrapper
        /\ allocation' = IF allocation \in {c, "wrapper"} THEN "free"
                         ELSE allocation
     \/ /\ ~WrapperAlive \/ Fault("query")
        /\ allocation' = IF allocation = c THEN "free" ELSE allocation
        /\ UNCHANGED <<task, wrapper>>
  /\ UNCHANGED <<unitVars, fileVars, operatorVars>>

CancelObserves(c) ==
  /\ cancel[c].pc = "observe"
  /\ \E o \in Observations(cancel[c].cgroup) :
       cancel' = [cancel EXCEPT ![c].pc = "report", ![c].cgroup = o.cgroup,
                    ![c].result = IF o.status = "empty" THEN "stopped"
                                  ELSE "incomplete"]
  /\ UNCHANGED <<task, wrapper, unitVars, fileVars, allocation, operatorVars>>

CancelReports(c) ==
  /\ cancel[c].pc = "report"
  /\ disposition' =
       [kind |-> IF cancel[c].result = "stopped" THEN "cancelled" ELSE "incomplete",
        cgroup |-> cancel[c].cgroup, attempt |-> cancel[c].attempt]
  /\ Returns(c, cancel[c].result)
  /\ UNCHANGED <<task, wrapper, unitVars, attempts, outcome, marker, requests,
                 scratch, operatorVars>>

\* A look at the queue raises PueueError, which nothing on the way out of the
\* call catches: the call ends where it stands, and what it has written stays.
CancelUnanswered(c) ==
  /\ Fault("query")
  /\ cancel[c].pc \in {"guard", "read", "reread_queued", "remove", "confirm",
                       "reread", "settle", "observe"}
  /\ Returns(c, "unanswered")
  /\ UNCHANGED <<task, wrapper, unitVars, fileVars, operatorVars>>

CancellerDies(c) ==
  /\ Fault("die")
  /\ InFlight(c)
  /\ Returns(c, "died")
  /\ UNCHANGED <<task, wrapper, unitVars, fileVars, operatorVars>>

\* A call that ends where it stands.
CancelBreaksOff(c) == CancelUnanswered(c) \/ CancellerDies(c)

\* A call under way; beginning one and breaking off are not its own doing.
CancelStep(c) ==
  \/ CancelCompares(c)  \/ CancelReads(c)         \/ CancelIntends(c)
  \/ CancelMarksQueued(c) \/ CancelRereadsQueued(c) \/ CancelRemoves(c)
  \/ CancelConfirms(c)  \/ CancelRereads(c)       \/ CancelMarks(c)
  \/ CancelCaptures(c)  \/ CancelStops(c)         \/ CancelSettles(c)
  \/ CancelEscalates(c) \/ CancelKills(c)         \/ CancelObserves(c)
  \/ CancelReports(c)

-----------------------------------------------------------------------------
(* `job retry` and `job clean`.                                            *)

RetryChecks ==
  /\ retrying = "idle"
  /\ MayBegin
  /\ task.status = "Done"
  /\ task.run < MaxRuns
  /\ MayPass(disposition)
  /\ retrying' = "drained"
  /\ UNCHANGED <<task, wrapper, unitVars, fileVars, allocation, cancel, cleaning>>

RetryClears ==
  /\ retrying = "drained"
  /\ disposition' = NoDisposition
  /\ retrying' = "cleared"
  /\ UNCHANGED <<task, wrapper, unitVars, attempts, outcome, marker, requests,
                 scratch, allocation, cancel, cleaning>>

\* pueue restarts a task that is done, and refuses any other; a call that
\* fails may have restarted it or not.
RetryRestarts ==
  /\ retrying = "cleared"
  /\ \/ task' = IF task.status = "Done" THEN [task EXCEPT !.status = "Queued"]
                ELSE task
     \/ Fault("query") /\ UNCHANGED task
  /\ retrying' = "idle"
  /\ UNCHANGED <<wrapper, unitVars, fileVars, allocation, cancel, cleaning>>

CleanChecks ==
  /\ cleaning = "idle"
  /\ MayBegin
  /\ task.status = "Done"
  /\ MayPass(disposition)
  /\ cleaning' = "drained"
  /\ UNCHANGED <<task, wrapper, unitVars, fileVars, allocation, cancel, retrying>>

\* pueue.remove names the task id and takes any task that is not running.  A
\* call that fails, whether it took the task or not, ends the command.
CleanRemoves ==
  /\ cleaning = "drained"
  /\ \/ /\ task.status \in {"Queued", "Done"}
        /\ task' = [task EXCEPT !.status = "Gone"]
        /\ cleaning' \in {"removed"} \cup MayFail("idle")
     \/ /\ task.status \in {"Running", "Gone"} \/ Fault("query")
        /\ cleaning' = "idle"
        /\ UNCHANGED task
  /\ UNCHANGED <<wrapper, unitVars, fileVars, allocation, cancel, retrying>>

CleanUnmarks ==
  /\ cleaning = "removed"
  /\ marker' = NoAttempt
  /\ cleaning' = "idle"
  /\ UNCHANGED <<task, wrapper, unitVars, attempts, outcome, requests,
                 disposition, scratch, allocation, cancel, retrying>>

\* The job may rest: nothing is under way and nobody asks for anything.
AtRest ==
  /\ task.status \in {"Done", "Gone"}
  /\ \A c \in Cancellers : ~InFlight(c)
  /\ retrying = "idle"
  /\ cleaning = "idle"
  /\ UNCHANGED vars

Operator == RetryChecks \/ RetryClears \/ RetryRestarts
            \/ CleanChecks \/ CleanRemoves \/ CleanUnmarks
Environment == \/ TaskStart \/ TaskReap \/ WrapperKilled
               \/ PayloadEnds \/ RuntimeExpires \/ UnitUnloads \/ SurvivorsExit

Next ==
  \/ Environment
  \/ WrapperStep
  \/ Operator
  \/ \E c \in Cancellers : CancelCall(c) \/ CancelStep(c) \/ CancelBreaksOff(c)
  \/ AtRest

Spec == Init /\ [][Next]_vars

-----------------------------------------------------------------------------
(* Fairness.  Each process runs on, the daemon notices an exited wrapper,  *)
(* and a call to systemctl or pueue has its own timeout, so no step of a   *)
(* process waits for ever except at the allocation lock.  Nothing is       *)
(* assumed of the payload, of an operator or of what survives a stop.      *)

Fairness ==
  /\ WF_vars(WrapperStep)
  /\ WF_vars(TaskReap)
  /\ \A c \in Cancellers : WF_vars(CancelStep(c))

FairSpec == Spec /\ Fairness

-----------------------------------------------------------------------------
(* Properties.                                                             *)

\* Slip: a recorded cancel is believed without looking at the cgroup.
ReportedUnlooked ==
  task.status = "Done"
  \/ disposition.kind \in {"incomplete", "cancelled", "not_started"}

\* job_queries: whether a read of the job may call it terminal now.
Reported ==
  LET d == disposition
      cancelled == d.kind \in {"incomplete", "cancelled", "not_started"}
  IN IF d.kind = "incomplete" \/ (task.status = "Done" /\ d.cgroup # "nokey")
     THEN MayPass(d) /\ (cancelled \/ task.status = "Done")
     ELSE cancelled \/ task.status = "Done"

\* Two attempts of a job never have processes in the unit's cgroup at once:
\* retry is refused while the earlier attempt's cgroup is populated.
OneAttemptInCgroup == \A m, n \in members : m = n

\* A process left in the cgroup of a job that is done is on record: neither
\* retry nor clean can miss it, and no read calls the job terminal.
CustodyRetained ==
  task.status = "Done" /\ members # {} /\ MayBegin => ~MayPass(disposition)

\* An outcome once published is the outcome of that attempt for ever.
OutcomeStable ==
  [][\A n \in Attempt : outcome[n] # "none" => outcome'[n] = outcome[n]]_vars

\* A command result is published only for an attempt whose own payload ended
\* that way, or was stopped by the manager.
OutcomeIsOwn ==
  \A n \in Attempt :
    outcome[n] \in Results => execution[n] \in {outcome[n], "stopped"}

\* No attempt ends as cancelled without a recorded request for it, or for
\* the launch before it started.
CancelledWasRequested ==
  \A n \in Attempt : outcome[n] = "cancelled" => requests \cap {0, n} # {}

\* A guarded canceller that escalates never kills a wrapper that has
\* allocated a newer attempt than the one the call names.
GuardedKillSparesNewerAttempts ==
  [][\A c \in Guarded :
       cancel[c].pc = "kill" /\ cancel'[c].pc = "observe" /\ wrapper' # wrapper
         => wrapper.attempt \in {NoAttempt, cancel[c].expected}]_vars

\* Once a canceller has stopped the unit for an attempt, that attempt is
\* never dispatched.
NoStartAfterStop ==
  [][\A c \in Cancellers : \A n \in members' \ members :
       cancel[c].attempt = n
         => cancel[c].pc \notin {"settle", "escalate", "kill", "observe",
                                 "report", "done"}]_vars

\* A caller told "stopped" can rely on it until the task is started again.
StoppedMeansStopped ==
  \A c \in Cancellers :
    cancel[c].pc = "done" /\ cancel[c].result = "stopped"
      /\ cancel[c].run = task.run => members = {}

\* Scratch outlives every process of the attempt that was given it.
ScratchOutlivesMembers ==
  UsesScratch => \A n \in members : scratch = n

\* A new start of the task is not cancelled by a marker that an earlier,
\* finished call left: a retry admitted while no command is under way
\* queues the next attempt unmarked.
RetryQueuesUnmarked ==
  [][task.status = "Done" /\ task'.status = "Queued"
       /\ (\A c \in Cancellers : ~InFlight(c))
     => marker # attempts + 1]_vars

\* With no cancel under way, a job that a read may call terminal has no
\* process left.
ReportedIsDrained ==
  (\A c \in Cancellers : ~InFlight(c)) /\ Reported => members = {}

\* Every cancel call returns, whoever holds the lock and however the task
\* moves.
CancelReturns == \A c \in Cancellers : InFlight(c) ~> ~InFlight(c)

\* An unguarded cancel that has stopped the unit ends that start of the task.
CancelEndsRun ==
  \A c \in Cancellers \ Guarded :
    (cancel[c].pc = "settle" /\ task = [status |-> "Running", run |-> cancel[c].run])
      ~> task # [status |-> "Running", run |-> cancel[c].run]
=============================================================================
