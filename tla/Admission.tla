------------------------------ MODULE Admission ------------------------------
(***************************************************************************)
(* Cross-pool admission.  A pool of agentctl is a pueue group; two pools   *)
(* may exclude each other.  A launch that finds unfinished work in a       *)
(* partner pool adds its task stashed, with a hold in its launch input,    *)
(* and a later pass of the minute timer releases it.  Launches, retries    *)
(* and passes are separate processes that share the admission lock, the    *)
(* launch inputs and pueued, which starts and ends tasks on its own.       *)
(*                                                                         *)
(* A job is launched at most once and keeps its queue entry through        *)
(* retries, so a job of the model stands for its task as well; id orders   *)
(* the tasks as pueue numbered them.  Attempts, units and cancellation are *)
(* the subject of JobLifecycle.                                            *)
(***************************************************************************)
EXTENDS Integers, FiniteSets

CONSTANTS
  Jobs,           \* the jobs that may be launched
  Pools,          \* the declared pools
  PoolOf,         \* the pool each job is launched in
  ExclusiveWith,  \* declared pairs <<p, q>>: p names q in exclusive_with
  Parent,         \* the job whose command launches this one and waits for it
  NoJob,          \* what Parent gives a job launched from a shell
  MaxRetries,     \* how many retries are made: a bound
  Faults          \* what may go wrong in this instance

(***************************************************************************)
(* "die": a process of agentctl is killed, or its write fails, and the     *)
(* kernel drops its lock.  "query": a call to pueue fails, before or after *)
(* it took effect.  "stash", "enqueue": the operator gives pueue that      *)
(* order by hand.                                                          *)
(***************************************************************************)
FaultKinds == {"die", "query", "stash", "enqueue"}

ASSUME JobsAssumption ==
  /\ IsFiniteSet(Jobs)
  /\ PoolOf \in [Jobs -> Pools]
  /\ ExclusiveWith \subseteq Pools \X Pools
  /\ Jobs \cap {"free", "pass", "retry"} = {}
  /\ NoJob \notin Jobs
  /\ Parent \in [Jobs -> Jobs \cup {NoJob}]
ASSUME BoundsAssumption ==
  /\ MaxRetries \in Nat
  /\ Faults \subseteq FaultKinds

Fault(kind) == kind \in Faults

VARIABLES
  status,    \* what pueue says of each job's task, "None" before the add
  id,        \* the task id pueue gave the job, 0 before the add
  mover,     \* who gave pueue the last order for the task: history
  hold,      \* the hold in the job's launch input: the jobs it waits for
  lock,      \* holder of the admission lock
  launcher,  \* each launch: where it stands, and the hold it decided on
  retry,     \* `job retry` under the lock
  retries,   \* retries made so far
  pass       \* release_holds under the lock

queueVars == <<status, id, mover>>
callVars  == <<launcher, retry, retries, pass>>
vars == <<queueVars, hold, lock, callVars>>

-----------------------------------------------------------------------------

Unfinished == {"Stashed", "Queued", "Running"}
Statuses == Unfinished \cup {"None", "Done", "Gone"}

\* exclusive_partners: the relation is symmetric, and no pool excludes itself.
Partners(pool) ==
  {p \in Pools \ {pool} :
     <<pool, p>> \in ExclusiveWith \/ <<p, pool>> \in ExclusiveWith}
Excludes(j, k) == PoolOf[k] \in Partners(PoolOf[j])

Launch == [pc : {"idle", "add", "ack", "done", "failed"}, hold : SUBSET Jobs]
Retry == [pc : {"idle", "restart", "record"}, job : Jobs \cup {NoJob},
          hold : SUBSET Jobs]
NoRetry == [pc |-> "idle", job |-> NoJob, hold |-> {}]
Pass == [pc : {"idle", "next", "consume"}, live : SUBSET Jobs,
         held : SUBSET Jobs, todo : SUBSET Jobs, job : Jobs \cup {NoJob}]
NoPass == [pc |-> "idle", live |-> {}, held |-> {}, todo |-> {}, job |-> NoJob]

TypeOK ==
  /\ status \in [Jobs -> Statuses]
  /\ id \in [Jobs -> Nat]
  /\ mover \in [Jobs -> {"nobody", "launch", "retry", "pass", "operator"}]
  /\ hold \in [Jobs -> SUBSET Jobs]
  /\ lock \in Jobs \cup {"free", "pass", "retry"}
  /\ launcher \in [Jobs -> Launch]
  /\ retry \in Retry
  /\ retries \in 0..MaxRetries
  /\ pass \in Pass
  /\ \A j \in Jobs : \A k \in hold[j] \cup launcher[j].hold : Excludes(j, k)
  /\ \A k \in retry.hold : Excludes(retry.job, k)
  /\ retry.pc # "idle" => retry.job \in Jobs
  /\ pass.pc = "consume" => pass.job \in Jobs

Init ==
  /\ status = [j \in Jobs |-> "None"]
  /\ id = [j \in Jobs |-> 0]
  /\ mover = [j \in Jobs |-> "nobody"]
  /\ hold = [j \in Jobs |-> {}]
  /\ lock = "free"
  /\ launcher = [j \in Jobs |-> [pc |-> "idle", hold |-> {}]]
  /\ retry = NoRetry
  /\ retries = 0
  /\ pass = NoPass

-----------------------------------------------------------------------------
(* What a process under the lock observes and decides.                     *)

Live == {j \in Jobs : status[j] \in Unfinished}

\* Slip: unfinished work of any other job is waited for.
BlockingAnyPool(j) == Live \ {j}

\* blocking_tasks without a task id: what a launch or a retry waits for.
Blocking(j) == {k \in Live : Excludes(j, k)}

\* Slip: held tasks do not count at all, in either direction.
BlockingUnheld(j) == {k \in pass.live : Excludes(j, k) /\ k \notin pass.held}

\* blocking_tasks of a release: held tasks that came later do not count.
BlockingHeld(j) ==
  {k \in pass.live : Excludes(j, k) /\ ~(k \in pass.held /\ id[k] > id[j])}

\* _hold_of
Held == {j \in Jobs : status[j] = "Stashed" /\ hold[j] # {}}

\* The next task id: pueue counts up.
NextId == Cardinality({j \in Jobs : id[j] # 0}) + 1

\* Slip: nobody looks at the pool of the launcher.
RefusedNever(j) == FALSE

\* A launch from within a partner pool could only wait for itself.
Refused(j) == Parent[j] # NoJob /\ Excludes(j, Parent[j])

-----------------------------------------------------------------------------
(* enqueue: one launch, from the lock to its release.                      *)

\* What the process knew ends with it.
LaunchEnds(j, pc) ==
  launcher' = [launcher EXCEPT ![j] = [pc |-> pc, hold |-> {}]]

\* Slip: the hold is left to the acknowledgement.
LaunchAdmitsUnrecorded(j) ==
  /\ launcher[j].pc = "idle"
  /\ Parent[j] # NoJob => status[Parent[j]] = "Running"
  /\ lock = "free"
  /\ ~Refused(j)
  /\ lock' = j
  /\ launcher' = [launcher EXCEPT ![j] = [pc |-> "add", hold |-> Blocking(j)]]
  /\ UNCHANGED <<queueVars, hold, retry, retries, pass>>

\* The queue is read, and the hold written into the launch input before the
\* task exists.
LaunchAdmits(j) ==
  /\ launcher[j].pc = "idle"
  /\ Parent[j] # NoJob => status[Parent[j]] = "Running"
  /\ lock = "free"
  /\ ~Refused(j)
  /\ lock' = j
  /\ launcher' = [launcher EXCEPT ![j] = [pc |-> "add", hold |-> Blocking(j)]]
  /\ hold' = [hold EXCEPT ![j] = Blocking(j)]
  /\ UNCHANGED <<queueVars, retry, retries, pass>>

\* The launch gives up: refused, no answer from pueue, or a busy lock.
LaunchRefused(j) ==
  /\ launcher[j].pc = "idle"
  /\ Parent[j] # NoJob => status[Parent[j]] = "Running"
  /\ Refused(j) \/ Fault("query")
  /\ LaunchEnds(j, "failed")
  /\ UNCHANGED <<queueVars, hold, lock, retry, retries, pass>>

Add(j) ==
  LET held == launcher[j].hold # {}
  IN /\ status' = [status EXCEPT ![j] = IF held THEN "Stashed" ELSE "Queued"]
     /\ mover' = [mover EXCEPT ![j] = "launch"]
     /\ id' = [id EXCEPT ![j] = NextId]

LaunchAdds(j) ==
  /\ launcher[j].pc = "add"
  /\ Add(j)
  /\ launcher' = [launcher EXCEPT ![j].pc = "ack"]
  /\ UNCHANGED <<hold, lock, retry, retries, pass>>

\* EnqueueUncertain: the input stays as it was written.
LaunchUncertain(j) ==
  /\ Fault("query")
  /\ launcher[j].pc = "add"
  /\ Add(j) \/ UNCHANGED queueVars
  /\ LaunchEnds(j, "failed")
  /\ lock' = "free"
  /\ UNCHANGED <<hold, retry, retries, pass>>

\* The acknowledgement rewrites the whole input, the hold included.
LaunchAcks(j) ==
  /\ launcher[j].pc = "ack"
  /\ hold' = [hold EXCEPT ![j] = launcher[j].hold]
  /\ LaunchEnds(j, "done")
  /\ lock' = "free"
  /\ UNCHANGED <<queueVars, retry, retries, pass>>

LauncherDies(j) ==
  /\ Fault("die")
  /\ launcher[j].pc \in {"add", "ack"}
  /\ LaunchEnds(j, "failed")
  /\ lock' = "free"
  /\ UNCHANGED <<queueVars, hold, retry, retries, pass>>

-----------------------------------------------------------------------------
(* retry: restart a terminal task in place.                                *)

RetryAdmits(j) ==
  /\ lock = "free"
  /\ status[j] = "Done"
  /\ retries < MaxRetries
  /\ lock' = "retry"
  /\ retry' = [pc |-> "restart", job |-> j, hold |-> Blocking(j)]
  /\ retries' = retries + 1
  /\ UNCHANGED <<queueVars, hold, launcher, pass>>

RetryEnds == retry' = NoRetry /\ lock' = "free"

Restart(j) ==
  LET held == retry.hold # {}
  IN /\ status' = [status EXCEPT ![j] = IF held THEN "Stashed" ELSE "Queued"]
     /\ mover' = [mover EXCEPT ![j] = "retry"]

\* pueue restarts the task if it still is there and finished.
RetryRestarts ==
  /\ retry.pc = "restart"
  /\ IF status[retry.job] # "Done"
     THEN RetryEnds /\ UNCHANGED <<status, mover>>
     ELSE \/ /\ Restart(retry.job)
             /\ IF retry.hold = {} THEN RetryEnds
                ELSE retry' = [retry EXCEPT !.pc = "record"] /\ UNCHANGED lock
          \/ /\ Fault("query")
             /\ Restart(retry.job) \/ UNCHANGED <<status, mover>>
             /\ RetryEnds
  /\ UNCHANGED <<id, hold, launcher, retries, pass>>

\* The hold of a retry is written after the task is stashed.
RetryRecords ==
  /\ retry.pc = "record"
  /\ hold' = [hold EXCEPT ![retry.job] = retry.hold]
  /\ RetryEnds
  /\ UNCHANGED <<queueVars, launcher, retries, pass>>

RetryDies ==
  /\ Fault("die")
  /\ retry.pc # "idle"
  /\ RetryEnds
  /\ UNCHANGED <<queueVars, hold, launcher, retries, pass>>

-----------------------------------------------------------------------------
(* release_holds: one pass over the held tasks, lowest id first.  A pass   *)
(* that finds the lock busy, or no held task, changes nothing.             *)

PassBegins ==
  /\ lock = "free"
  /\ Held # {}
  /\ lock' = "pass"
  /\ pass' = [pc |-> "next", live |-> Live, held |-> Held, todo |-> Held,
              job |-> NoJob]
  /\ UNCHANGED <<queueVars, hold, launcher, retry, retries>>

PassEnds == pass' = NoPass /\ lock' = "free"

PassDone ==
  /\ pass.pc = "next"
  /\ pass.todo = {}
  /\ PassEnds
  /\ UNCHANGED <<queueVars, hold, launcher, retry, retries>>

First(j) == j \in pass.todo /\ \A k \in pass.todo : id[j] <= id[k]

PassLeaves(j) ==
  /\ pass.pc = "next"
  /\ First(j)
  /\ BlockingHeld(j) # {}
  /\ pass' = [pass EXCEPT !.todo = @ \ {j}]
  /\ UNCHANGED <<queueVars, hold, lock, launcher, retry, retries>>

Enqueue(j, who) ==
  /\ status[j] = "Stashed"
  /\ status' = [status EXCEPT ![j] = "Queued"]
  /\ mover' = [mover EXCEPT ![j] = who]

\* A pueue error ends the pass: for a task that is not stashed any more, or
\* for a call that failed or lost its answer.
PassReleases(j) ==
  /\ pass.pc = "next"
  /\ First(j)
  /\ BlockingHeld(j) = {}
  /\ \/ /\ Enqueue(j, "pass")
        /\ pass' = [pass EXCEPT !.pc = "consume", !.job = j, !.todo = @ \ {j}]
        /\ UNCHANGED lock
     \/ /\ status[j] # "Stashed"
        /\ PassEnds
        /\ UNCHANGED <<status, mover>>
     \/ /\ Fault("query")
        /\ Enqueue(j, "pass") \/ UNCHANGED <<status, mover>>
        /\ PassEnds
  /\ UNCHANGED <<id, hold, launcher, retry, retries>>

\* Slip: the hold of a released task stays in its input.
PassConsumesNothing ==
  /\ pass.pc = "consume"
  /\ pass' = [pass EXCEPT !.pc = "next", !.job = NoJob]
  /\ UNCHANGED <<queueVars, hold, lock, launcher, retry, retries>>

\* _consume_hold.  Holds change under the lock only, so the one it compares
\* with what the pass has read is still there.
PassConsumes ==
  /\ pass.pc = "consume"
  /\ hold' = [hold EXCEPT ![pass.job] = {}]
  /\ pass' = [pass EXCEPT !.pc = "next", !.job = NoJob]
  /\ UNCHANGED <<queueVars, lock, launcher, retry, retries>>

PassDies ==
  /\ Fault("die")
  /\ pass.pc # "idle"
  /\ PassEnds
  /\ UNCHANGED <<queueVars, hold, launcher, retry, retries>>

-----------------------------------------------------------------------------
(* pueued, the commands it runs, and the operator.                         *)

TaskStarts(j) ==
  /\ status[j] = "Queued"
  /\ status' = [status EXCEPT ![j] = "Running"]
  /\ UNCHANGED <<id, mover, hold, lock, callVars>>

\* A command that launched a job waits for the launch and for the job.
Awaits(j, k) ==
  /\ Parent[k] = j
  /\ \/ launcher[k].pc \in {"add", "ack"}
     \/ launcher[k].pc = "done" /\ status[k] \in Unfinished

TaskEnds(j) ==
  /\ status[j] = "Running"
  /\ \A k \in Jobs : ~Awaits(j, k)
  /\ status' = [status EXCEPT ![j] = "Done"]
  /\ UNCHANGED <<id, mover, hold, lock, callVars>>

\* `job cancel` of a waiting task, `job clean` of a finished one.
TaskRemoved(j) ==
  /\ status[j] \in {"Stashed", "Queued", "Done"}
  /\ status' = [status EXCEPT ![j] = "Gone"]
  /\ UNCHANGED <<id, mover, hold, lock, callVars>>

OperatorStashes(j) ==
  /\ Fault("stash")
  /\ status[j] = "Queued"
  /\ status' = [status EXCEPT ![j] = "Stashed"]
  /\ mover' = [mover EXCEPT ![j] = "operator"]
  /\ UNCHANGED <<id, hold, lock, callVars>>

OperatorEnqueues(j) ==
  /\ Fault("enqueue")
  /\ Enqueue(j, "operator")
  /\ UNCHANGED <<id, hold, lock, callVars>>

\* Nothing is under way and nothing can be: the timer goes on without effect.
AtRest ==
  /\ lock = "free"
  /\ Held = {}
  /\ \A j \in Jobs : status[j] \in {"None", "Stashed", "Done", "Gone"}
  /\ UNCHANGED vars

LaunchStep(j) ==
  LaunchAdmits(j) \/ LaunchRefused(j) \/ LaunchAdds(j) \/ LaunchUncertain(j)
    \/ LaunchAcks(j)
RetryStep == RetryRestarts \/ RetryRecords
PassStep ==
  PassDone \/ PassConsumes \/ \E j \in Jobs : PassLeaves(j) \/ PassReleases(j)

Next ==
  \/ \E j \in Jobs :
       \/ LaunchStep(j) \/ LauncherDies(j) \/ RetryAdmits(j)
       \/ TaskStarts(j) \/ TaskEnds(j) \/ TaskRemoved(j)
       \/ OperatorStashes(j) \/ OperatorEnqueues(j)
  \/ RetryStep \/ RetryDies
  \/ PassBegins \/ PassStep \/ PassDies
  \/ AtRest

Spec == Init /\ [][Next]_vars

(***************************************************************************)
(* The timer fires every minute, every process runs on, pueued starts what *)
(* is queued and a command ends, at the latest by its timeout.  Nobody has *)
(* to launch, retry or remove anything.                                    *)
(***************************************************************************)
Fairness ==
  /\ \A j \in Jobs :
       /\ WF_vars(LaunchAdds(j)) /\ WF_vars(LaunchAcks(j))
       /\ WF_vars(TaskStarts(j)) /\ WF_vars(TaskEnds(j))
  /\ WF_vars(RetryStep)
  /\ WF_vars(PassBegins) /\ WF_vars(PassStep)
FairSpec == Spec /\ Fairness

-----------------------------------------------------------------------------
(* Properties.                                                             *)

\* Two tasks of pools that exclude each other never run at the same time,
\* unless the operator enqueued one of them by hand.
ExclusiveRunning ==
  \A j, k \in Jobs :
    Excludes(j, k) /\ status[j] = "Running" /\ status[k] = "Running"
      => "operator" \in {mover[j], mover[k]}

\* A task that its launch has stashed has its hold on record whatever became
\* of the launch, so a pass will find it.
LaunchStashIsHeld ==
  \A j \in Jobs :
    status[j] = "Stashed" /\ mover[j] = "launch" => hold[j] # {}

\* The same of a task that `job retry` has stashed, once the lock is free.
RetryStashIsHeld ==
  \A j \in Jobs :
    status[j] = "Stashed" /\ mover[j] = "retry" /\ lock = "free"
      => hold[j] # {}

\* A hold on record is a hold in force: none outlives the release of its
\* task, or a later stash by hand would pass for one of agentctl.
HoldIsInForce ==
  \A j \in Jobs :
    lock = "free" /\ hold[j] # {} => status[j] \in {"Stashed", "Gone"}

\* A held task is released once the work it waits for has ended.
HeldIsReleased == \A j \in Jobs : j \in Held ~> j \notin Held
=============================================================================
