--------------------------- MODULE Admission_proofs ---------------------------
(***************************************************************************)
(* What holds of Admission for every set of jobs and pools, every relation *)
(* of exclusion and every fault the theorem does not exclude.              *)
(***************************************************************************)
EXTENDS Admission, FiniteSetTheorems, TLAPS

\* Exclusion is symmetric, whichever of the two pools declares it.
LEMMA ExcludesSymmetric ==
  ASSUME NEW j \in Jobs, NEW k \in Jobs
  PROVE  Excludes(j, k) <=> Excludes(k, j)
BY JobsAssumption DEF Excludes, Partners

\* No job excludes itself.
LEMMA ExcludesIrreflexive ==
  ASSUME NEW j \in Jobs
  PROVE  ~Excludes(j, j)
BY DEF Excludes, Partners

-----------------------------------------------------------------------------
(* Types.                                                                  *)

LEMMA TypeInit == Init => TypeOK
BY JobsAssumption, BoundsAssumption
   DEF Init, TypeOK, Launch, Retry, NoRetry, Pass, NoPass, Statuses, Unfinished

LEMMA TypeNext == TypeOK /\ [Next]_vars => TypeOK'
<1> SUFFICES ASSUME TypeOK, [Next]_vars PROVE TypeOK'
  OBVIOUS
<1> USE JobsAssumption, BoundsAssumption
<1> USE DEF TypeOK, Launch, Retry, Pass, Statuses, Unfinished, queueVars
<1>1. CASE UNCHANGED vars
  BY <1>1 DEF vars, callVars, Excludes
<1>2. ASSUME NEW j \in Jobs, LaunchStep(j) PROVE TypeOK'
  <2> NextId \in Nat
    <3>1. IsFiniteSet({k \in Jobs : id[k] # 0})
      BY FS_Subset
    <3> QED BY <3>1, FS_CardinalityType DEF NextId
  <2>1. CASE LaunchAdmits(j)
    BY <2>1 DEF LaunchAdmits, Blocking, Live, Excludes
  <2>2. CASE LaunchRefused(j)
    BY <2>2 DEF LaunchRefused, LaunchEnds, Excludes
  <2>3. CASE LaunchAdds(j)
    BY <2>3 DEF LaunchAdds, Add, Excludes
  <2>4. CASE LaunchUncertain(j)
    <3>1. CASE Add(j)
      BY <2>4, <3>1 DEF LaunchUncertain, Add, LaunchEnds, Excludes
    <3>2. CASE UNCHANGED queueVars
      BY <2>4, <3>2 DEF LaunchUncertain, LaunchEnds, Excludes
    <3> QED BY <2>4, <3>1, <3>2 DEF LaunchUncertain
  <2>5. CASE LaunchAcks(j)
    BY <2>5 DEF LaunchAcks, LaunchEnds, Excludes
  <2> QED BY <1>2, <2>1, <2>2, <2>3, <2>4, <2>5 DEF LaunchStep
<1>3. ASSUME NEW j \in Jobs, LauncherDies(j) PROVE TypeOK'
  BY <1>3 DEF LauncherDies, LaunchEnds, Excludes
<1>4. ASSUME NEW j \in Jobs, RetryAdmits(j) PROVE TypeOK'
  BY <1>4 DEF RetryAdmits, Blocking, Live, Excludes
<1>5. ASSUME NEW j \in Jobs, TaskStarts(j) \/ TaskEnds(j) \/ TaskRemoved(j)
      PROVE TypeOK'
  BY ZenonT(60), <1>5 DEF TaskStarts, TaskEnds, TaskRemoved, callVars, Excludes
<1>6. ASSUME NEW j \in Jobs, OperatorStashes(j) \/ OperatorEnqueues(j)
      PROVE TypeOK'
  BY ZenonT(60), <1>6 DEF OperatorStashes, OperatorEnqueues, Enqueue, callVars, Excludes
<1>7. CASE RetryStep
  <2>1. CASE RetryRecords
    BY <1>7, <2>1 DEF RetryRecords, RetryEnds, NoRetry, Excludes
  <2>2. ASSUME RetryRestarts, Restart(retry.job) PROVE TypeOK'
    <3>1. /\ status' \in [Jobs -> Statuses]
          /\ mover' \in [Jobs -> {"nobody", "launch", "retry", "pass", "operator"}]
      BY <2>2 DEF Restart
    <3>2. UNCHANGED <<id, hold, launcher, retries, pass>>
      BY <2>2 DEF RetryRestarts
    <3>3. CASE RetryEnds
      BY <3>1, <3>2, <3>3 DEF RetryEnds, NoRetry, Excludes
    <3>4. CASE retry.pc = "restart" /\ retry' = [retry EXCEPT !.pc = "record"]
               /\ UNCHANGED lock
      BY <3>1, <3>2, <3>4 DEF Excludes
    <3> QED BY <2>2, <3>3, <3>4 DEF RetryRestarts
  <2>3. ASSUME RetryRestarts, UNCHANGED <<status, mover>> PROVE TypeOK'
    BY <2>3 DEF RetryRestarts, RetryEnds, NoRetry, Excludes
  <2> QED BY <1>7, <2>1, <2>2, <2>3 DEF RetryStep, RetryRestarts
<1>8. CASE RetryDies
  BY <1>8 DEF RetryDies, RetryEnds, NoRetry, Excludes
<1>9. CASE PassBegins
  BY <1>9 DEF PassBegins, Live, Held, Excludes
<1>10. CASE PassDone \/ PassDies
  BY <1>10 DEF PassDone, PassDies, PassEnds, NoPass, Excludes
<1>11. CASE PassConsumes
  BY <1>11 DEF PassConsumes, Excludes
<1>12. ASSUME NEW j \in Jobs, PassLeaves(j) \/ PassReleases(j) PROVE TypeOK'
  <2>1. CASE PassLeaves(j)
    BY <2>1 DEF PassLeaves, Excludes
  <2>2. ASSUME PassReleases(j), Enqueue(j, "pass") PROVE TypeOK'
    <3>1. /\ status' \in [Jobs -> Statuses]
          /\ mover' \in [Jobs -> {"nobody", "launch", "retry", "pass", "operator"}]
          /\ UNCHANGED <<id, hold, launcher, retry, retries>>
      BY <2>2 DEF PassReleases, Enqueue
    <3>2. CASE PassEnds
      BY <3>1, <3>2 DEF PassEnds, NoPass, Excludes
    <3>3. CASE /\ pass' = [pass EXCEPT !.pc = "consume", !.job = j,
                                       !.todo = @ \ {j}]
               /\ UNCHANGED lock
      BY ZenonT(60), <3>1, <3>3 DEF Excludes
    <3> QED BY <2>2, <3>2, <3>3 DEF PassReleases, Enqueue
  <2>3. ASSUME PassReleases(j), UNCHANGED <<status, mover>> PROVE TypeOK'
    BY <2>3 DEF PassReleases, PassEnds, NoPass, Excludes, Enqueue
  <2> QED BY <1>12, <2>1, <2>2, <2>3 DEF PassReleases
<1>13. CASE AtRest
  BY <1>1, <1>13 DEF AtRest
<1> QED
  BY <1>1, <1>2, <1>3, <1>4, <1>5, <1>6, <1>7, <1>8, <1>9, <1>10, <1>11, <1>12,
     <1>13 DEF Next, PassStep

\* Types hold for every instance: no hold names a job of a pool that the
\* held job's pool does not exclude.
THEOREM TypeCorrect == Spec => []TypeOK
BY TypeInit, TypeNext, PTL DEF Spec

-----------------------------------------------------------------------------
(* The admission lock.                                                     *)

\* Whoever is under way holds the lock.
Locked ==
  /\ \A j \in Jobs : launcher[j].pc \in {"add", "ack"} => lock = j
  /\ retry.pc # "idle" => lock = "retry"
  /\ pass.pc # "idle" => lock = "pass"

LEMMA LockedInit == Init => Locked
BY DEF Init, Locked, NoRetry, NoPass

LEMMA LockedNext == TypeOK /\ Locked /\ [Next]_vars => Locked'
<1> SUFFICES ASSUME TypeOK, Locked, [Next]_vars PROVE Locked'
  OBVIOUS
<1> USE JobsAssumption DEF Locked, TypeOK, Launch, Retry, Pass
<1>1. CASE UNCHANGED vars
  BY <1>1 DEF vars, callVars
<1>2. ASSUME NEW j \in Jobs, LaunchStep(j) \/ LauncherDies(j) PROVE Locked'
  <2>1. CASE LaunchAdmits(j)
    BY <2>1 DEF LaunchAdmits
  <2>2. CASE LaunchRefused(j)
    BY <2>2 DEF LaunchRefused, LaunchEnds
  <2>3. CASE LaunchAdds(j)
    BY <2>3 DEF LaunchAdds
  <2>4. CASE LaunchUncertain(j)
    BY <2>4 DEF LaunchUncertain, LaunchEnds
  <2>5. CASE LaunchAcks(j)
    BY <2>5 DEF LaunchAcks, LaunchEnds
  <2>6. CASE LauncherDies(j)
    BY <2>6 DEF LauncherDies, LaunchEnds
  <2> QED BY <1>2, <2>1, <2>2, <2>3, <2>4, <2>5, <2>6 DEF LaunchStep
<1>3. ASSUME NEW j \in Jobs, RetryAdmits(j) PROVE Locked'
  BY <1>3 DEF RetryAdmits
<1>4. ASSUME NEW j \in Jobs,
             \/ TaskStarts(j) \/ TaskEnds(j) \/ TaskRemoved(j)
             \/ OperatorStashes(j) \/ OperatorEnqueues(j)
      PROVE Locked'
  BY <1>4 DEF TaskStarts, TaskEnds, TaskRemoved, OperatorStashes,
              OperatorEnqueues, callVars
<1>5. CASE RetryStep \/ RetryDies
  BY <1>5 DEF RetryStep, RetryRestarts, RetryRecords, RetryDies, RetryEnds,
              NoRetry
<1>6. CASE PassBegins
  BY <1>6 DEF PassBegins
<1>7. CASE PassDone \/ PassConsumes \/ PassDies
  BY <1>7 DEF PassDone, PassConsumes, PassDies, PassEnds, NoPass
<1>8. ASSUME NEW j \in Jobs, PassLeaves(j) \/ PassReleases(j) PROVE Locked'
  BY <1>8 DEF PassLeaves, PassReleases, PassEnds, NoPass
<1>9. CASE AtRest
  BY <1>1, <1>9 DEF AtRest
<1> QED
  BY <1>1, <1>2, <1>3, <1>4, <1>5, <1>6, <1>7, <1>8, <1>9 DEF Next, PassStep

-----------------------------------------------------------------------------
(* The hold of a launch.                                                   *)

\* A launch adds its task under the hold it has already recorded, and a pass
\* that is about to consume a hold has released the task.
Recorded ==
  /\ \A j \in Jobs : launcher[j].pc \in {"idle", "add"} => status[j] = "None"
  /\ \A j \in Jobs : launcher[j].pc = "add" => hold[j] = launcher[j].hold
  /\ \A j \in Jobs :
       launcher[j].pc = "ack" /\ status[j] = "Stashed" /\ mover[j] = "launch"
         => launcher[j].hold # {}
  /\ pass.pc = "consume"
       => /\ launcher[pass.job].pc \notin {"idle", "add"}
          /\ ~(status[pass.job] = "Stashed" /\ mover[pass.job] = "launch")
  /\ retry.pc = "record" => retry.hold # {}
  /\ LaunchStashIsHeld

LEMMA RecordedInit == Init => Recorded
BY DEF Init, Recorded, NoRetry, NoPass, LaunchStashIsHeld

LEMMA RecordedNext == TypeOK /\ Locked /\ Recorded /\ [Next]_vars => Recorded'
<1> SUFFICES ASSUME TypeOK, Locked, Recorded, [Next]_vars PROVE Recorded'
  OBVIOUS
<1> /\ status \in [Jobs -> Statuses]
    /\ mover \in [Jobs -> {"nobody", "launch", "retry", "pass", "operator"}]
    /\ hold \in [Jobs -> SUBSET Jobs]
    /\ launcher \in [Jobs -> Launch]
    /\ retry \in Retry
    /\ pass \in Pass
    /\ pass.pc = "consume" => pass.job \in Jobs
    /\ lock = "free" => pass.pc = "idle" /\ retry.pc = "idle"
    /\ lock \in Jobs => pass.pc = "idle" /\ retry.pc = "idle"
    /\ lock = "retry" => pass.pc = "idle"
    /\ lock = "pass" => retry.pc = "idle"
    /\ \A j \in Jobs : launcher[j].pc \in {"add", "ack"} => lock = j
    /\ retry.pc # "idle" => lock = "retry"
    /\ pass.pc # "idle" => lock = "pass"
  BY JobsAssumption DEF TypeOK, Locked
<1> USE JobsAssumption DEF Recorded, LaunchStashIsHeld, Launch, Retry, Pass,
        queueVars
<1>1. CASE UNCHANGED vars
  BY <1>1 DEF vars, callVars
<1>2. ASSUME NEW j \in Jobs, LaunchStep(j) \/ LauncherDies(j) PROVE Recorded'
  <2>1. CASE LaunchAdmits(j)
    BY <2>1 DEF LaunchAdmits
  <2>2. CASE LaunchRefused(j)
    BY <2>2 DEF LaunchRefused, LaunchEnds
  <2>3. CASE LaunchAdds(j)
    BY <2>3 DEF LaunchAdds, Add
  <2>4. CASE LaunchUncertain(j)
    <3>1. CASE Add(j)
      BY <2>4, <3>1 DEF LaunchUncertain, LaunchEnds, Add
    <3>2. CASE UNCHANGED queueVars
      BY <2>4, <3>2 DEF LaunchUncertain, LaunchEnds
    <3> QED BY <2>4, <3>1, <3>2 DEF LaunchUncertain
  <2>5. CASE LaunchAcks(j)
    BY <2>5 DEF LaunchAcks, LaunchEnds
  <2>6. CASE LauncherDies(j)
    BY <2>6 DEF LauncherDies, LaunchEnds
  <2> QED BY <1>2, <2>1, <2>2, <2>3, <2>4, <2>5, <2>6 DEF LaunchStep
<1>3. ASSUME NEW j \in Jobs, RetryAdmits(j) PROVE Recorded'
  BY <1>3 DEF RetryAdmits
<1>4. ASSUME NEW j \in Jobs,
             \/ TaskStarts(j) \/ TaskEnds(j) \/ TaskRemoved(j)
             \/ OperatorStashes(j) \/ OperatorEnqueues(j)
      PROVE Recorded'
  <2>1. UNCHANGED <<hold, launcher, retry, pass>> /\ status[j] # "None"
    BY <1>4 DEF TaskStarts, TaskEnds, TaskRemoved, OperatorStashes,
                OperatorEnqueues, Enqueue, callVars
  <2>2. CASE TaskStarts(j)
    BY <2>1, <2>2 DEF TaskStarts
  <2>3. CASE TaskEnds(j)
    BY <2>1, <2>3 DEF TaskEnds
  <2>4. CASE TaskRemoved(j)
    BY <2>1, <2>4 DEF TaskRemoved
  <2>5. CASE OperatorStashes(j)
    BY <2>1, <2>5 DEF OperatorStashes
  <2>6. CASE OperatorEnqueues(j)
    BY <2>1, <2>6 DEF OperatorEnqueues, Enqueue
  <2> QED BY <1>4, <2>2, <2>3, <2>4, <2>5, <2>6
<1>6. CASE RetryRestarts
  BY <1>6 DEF RetryRestarts, RetryEnds, Restart, NoRetry
<1>7. CASE RetryRecords
  BY <1>7 DEF RetryRecords, RetryEnds, NoRetry
<1>8. CASE RetryDies
  BY <1>8 DEF RetryDies, RetryEnds, NoRetry
<1>9. CASE PassBegins \/ PassDone \/ PassDies
  BY <1>9 DEF PassBegins, PassDone, PassDies, PassEnds, NoPass
<1>10. CASE PassConsumes
  BY <1>10 DEF PassConsumes
<1>11. ASSUME NEW j \in Jobs, PassLeaves(j) \/ PassReleases(j)
       PROVE Recorded'
  <2>1. CASE PassLeaves(j)
    BY <2>1 DEF PassLeaves
  <2>2. CASE PassReleases(j) /\ Enqueue(j, "pass")
    <3>1. /\ status' = [status EXCEPT ![j] = "Queued"]
          /\ mover' = [mover EXCEPT ![j] = "pass"]
          /\ launcher[j].pc \notin {"idle", "add"}
          /\ UNCHANGED <<hold, launcher, retry>>
      BY <2>2 DEF PassReleases, Enqueue
    <3>2. CASE PassEnds
      BY <3>1, <3>2 DEF PassEnds, NoPass
    <3>3. CASE pass'.pc = "consume" /\ pass'.job = j
      BY <3>1, <3>3
    <3> QED BY ZenonT(60), <2>2, <3>2, <3>3 DEF PassReleases, Enqueue
  <2>3. CASE PassReleases(j) /\ UNCHANGED <<status, mover>>
    BY <2>3 DEF PassReleases, PassEnds, NoPass, Enqueue
  <2> QED BY <1>11, <2>1, <2>2, <2>3 DEF PassReleases
<1>12. CASE AtRest
  BY <1>1, <1>12 DEF AtRest
<1> QED
  BY <1>1, <1>2, <1>3, <1>4, <1>6, <1>7, <1>8, <1>9, <1>10, <1>11, <1>12
     DEF Next, PassStep, RetryStep

\* A task stashed by its launch is always one that a pass will find, although
\* launches die and answers get lost at any point.
THEOREM LaunchesHeld == Spec => []LaunchStashIsHeld
<1> DEFINE I == TypeOK /\ Locked /\ Recorded
<1>1. Init => I
  BY TypeInit, LockedInit, RecordedInit
<1>2. I /\ [Next]_vars => I'
  BY TypeNext, LockedNext, RecordedNext
<1>3. I => LaunchStashIsHeld
  BY DEF Recorded
<1> QED BY <1>1, <1>2, <1>3, PTL DEF Spec

-----------------------------------------------------------------------------
(* Exclusion.                                                              *)

\* j is past admission, and not because the operator enqueued it by hand.
Going(j) == status[j] \in {"Queued", "Running"} /\ mover[j] # "operator"

\* No partner of j is unfinished.
Alone(j) == \A k \in Jobs : Excludes(j, k) => status[k] \notin Unfinished

\* What a pass has read is an upper bound of what is unfinished, and the
\* held tasks it has not come to are still waiting and later in the queue.
PassSees ==
  pass.pc # "idle" =>
    /\ \A k \in Jobs : status[k] \in Unfinished => k \in pass.live
    /\ pass.todo \subseteq pass.held
    /\ \A k \in pass.todo : ~Going(k)
    /\ \A k \in pass.held \ pass.todo : \A m \in pass.todo : id[k] <= id[m]

\* Partners are never both past admission, not even in the queue.
Exclusion ==
  /\ \A j, k \in Jobs :
       Excludes(j, k) => ~(Going(j) /\ Going(k))
  /\ \A j \in Jobs :
       launcher[j].pc = "add" /\ launcher[j].hold = {} => Alone(j)
  /\ retry.pc = "restart" /\ retry.hold = {} => Alone(retry.job)
  /\ PassSees

LEMMA ExclusionInit == Init => Exclusion
BY DEF Init, Exclusion, NoRetry, NoPass, PassSees, Going

\* The decision of a pass: a held task without blockers has no partner past
\* admission.
LEMMA ReleasedIsAlone ==
  ASSUME TypeOK, PassSees, pass.pc = "next", NEW j \in Jobs, First(j),
         BlockingHeld(j) = {}, NEW k \in Jobs, Excludes(j, k)
  PROVE  ~Going(k)
<1> j \in pass.todo /\ \A m \in pass.todo : id[j] <= id[m]
  BY DEF First
<1> id[j] \in Nat /\ id[k] \in Nat
  BY DEF TypeOK
<1>1. CASE k \notin pass.live
  BY <1>1 DEF PassSees, Going, Unfinished
<1>2. CASE k \in pass.live
  <2>1. k \in pass.held /\ id[k] > id[j]
    BY <1>2 DEF BlockingHeld
  <2>2. k \in pass.todo
    BY <2>1 DEF PassSees
  <2> QED BY <2>2 DEF PassSees
<1> QED BY <1>1, <1>2

\* A step that only takes tasks out of the unfinished ones, or sets one that
\* is going aside, disturbs nothing.
LEMMA ExclusionKept ==
  ASSUME TypeOK, Exclusion,
         UNCHANGED <<id, launcher, retry, pass>>,
         \A k \in Jobs : /\ status'[k] \in Unfinished => status[k] \in Unfinished
                         /\ Going(k)' => Going(k)
  PROVE  Exclusion'
<1>1. \A j \in Jobs : Alone(j) => Alone(j)'
  BY DEF Alone, Excludes
<1>2. PassSees'
  BY DEF Exclusion, PassSees, TypeOK, Pass
<1>3. retry.pc = "restart" => retry.job \in Jobs
  BY DEF TypeOK
<1> QED BY <1>1, <1>2, <1>3 DEF Exclusion, Excludes

LEMMA ExclusionLaunch ==
  ASSUME TypeOK, Locked, Recorded, Exclusion, NEW j \in Jobs,
         LaunchStep(j) \/ LauncherDies(j)
  PROVE  Exclusion'
<1> USE JobsAssumption
<1> DEFINE S == \A k \in Jobs : launcher'[k].pc = "add" /\ launcher'[k].hold = {}
                 => launcher[k].pc = "add" /\ launcher[k].hold = {}
<1>0. /\ status \in [Jobs -> Statuses]
      /\ mover \in [Jobs -> {"nobody", "launch", "retry", "pass", "operator"}]
      /\ launcher \in [Jobs -> Launch]
      /\ retry.pc = "restart" => retry.job \in Jobs
  BY DEF TypeOK
<1>1. ASSUME S, UNCHANGED <<status, id, mover, retry, pass>> PROVE Exclusion'
  <2>1. PassSees'
    BY <1>1 DEF Exclusion, PassSees, Going
  <2>2. \A k \in Jobs : Alone(k) => Alone(k)'
    BY <1>1 DEF Alone, Excludes
  <2> QED BY <1>0, <1>1, <2>1, <2>2 DEF Exclusion, Excludes, Going
<1>2. CASE LaunchAdmits(j)
  <2>1. /\ UNCHANGED <<status, id, mover, retry, pass>>
        /\ launcher' = [launcher EXCEPT ![j] = [pc |-> "add", hold |-> Blocking(j)]]
        /\ Blocking(j) = {} => Alone(j)
    BY <1>2 DEF LaunchAdmits, queueVars, Blocking, Live, Alone
  <2>2. \A k \in Jobs : Alone(k) => Alone(k)'
    BY <2>1 DEF Alone, Excludes
  <2>3. PassSees'
    BY <2>1 DEF Exclusion, PassSees, Going
  <2> QED BY <1>0, <2>1, <2>2, <2>3 DEF Exclusion, Excludes, Launch, Going
<1>3. CASE LaunchRefused(j) \/ LaunchAcks(j) \/ LauncherDies(j)
  <2>1. UNCHANGED <<status, id, mover, retry, pass>>
    BY <1>3 DEF LaunchRefused, LaunchAcks, LauncherDies, queueVars
  <2>2. S
    BY <1>0, <1>3 DEF LaunchRefused, LaunchAcks, LauncherDies, LaunchEnds, Launch
  <2> QED BY <1>1, <2>1, <2>2
<1>4. ASSUME Add(j), launcher[j].pc = "add", UNCHANGED <<retry, pass>>,
             \E l \in Launch : l.pc \in {"ack", "failed"}
                              /\ launcher' = [launcher EXCEPT ![j] = l]
      PROVE Exclusion'
  <2>1. /\ pass.pc = "idle" /\ retry.pc = "idle"
        /\ \A k \in Jobs \ {j} : launcher[k].pc \notin {"add", "ack"}
        /\ status[j] = "None"
    BY <1>4 DEF Locked, Recorded
  <2>2. \A k \in Jobs : launcher'[k].pc # "add"
    BY <1>0, <1>4, <2>1
  <2>3. PassSees'
    BY <1>4, <2>1 DEF PassSees
  <2>4. CASE launcher[j].hold = {}
    <3>1. Alone(j)
      BY <1>4, <2>4 DEF Exclusion
    <3>2. \A k \in Jobs \ {j} : Going(k)' = Going(k)
      BY <1>0, <1>4 DEF Add, Going
    <3>3. \A k \in Jobs : Excludes(j, k) \/ Excludes(k, j) => ~Going(k)
      BY <3>1, ExcludesSymmetric DEF Alone, Going, Unfinished
    <3>4. \A m, k \in Jobs :
            Excludes(m, k) => ~(Going(m)' /\ Going(k)')
      BY <3>2, <3>3, ExcludesIrreflexive DEF Exclusion
    <3> QED BY <1>4, <2>1, <2>2, <2>3, <3>4 DEF Exclusion, Excludes
  <2>5. CASE launcher[j].hold # {}
    <3>1. \A k \in Jobs : Going(k)' => Going(k)
      BY <1>0, <1>4, <2>5 DEF Add, Going
    <3>2. \A m, k \in Jobs :
            Excludes(m, k) => ~(Going(m)' /\ Going(k)')
      BY <3>1 DEF Exclusion
    <3> QED BY <1>4, <2>1, <2>2, <2>3, <3>2 DEF Exclusion, Excludes
  <2> QED BY <2>4, <2>5
<1>5. CASE LaunchAdds(j)
  <2> DEFINE l == [launcher[j] EXCEPT !.pc = "ack"]
  <2>1. launcher' = [launcher EXCEPT ![j] = l]
    BY <1>5 DEF LaunchAdds
  <2>2. l \in Launch /\ l.pc = "ack"
    BY <1>0 DEF Launch
  <2> QED BY <1>4, <1>5, <2>1, <2>2 DEF LaunchAdds
<1>6. CASE LaunchUncertain(j)
  <2>1. CASE Add(j)
    <3>1. /\ [pc |-> "failed", hold |-> {}] \in Launch
          /\ [pc |-> "failed", hold |-> {}].pc = "failed"
      BY DEF Launch
    <3> QED BY <1>4, <1>6, <2>1, <3>1 DEF LaunchUncertain, LaunchEnds
  <2>2. CASE UNCHANGED queueVars
    <3>1. S /\ UNCHANGED <<status, id, mover, retry, pass>>
      BY <1>0, <1>6, <2>2 DEF LaunchUncertain, LaunchEnds, queueVars, Launch
    <3> QED BY <1>1, <3>1
  <2> QED BY <1>6, <2>1, <2>2 DEF LaunchUncertain
<1> QED BY <1>2, <1>3, <1>5, <1>6 DEF LaunchStep

LEMMA ExclusionRetry ==
  ASSUME TypeOK, Locked, Exclusion,
         RetryStep \/ RetryDies \/ \E j \in Jobs : RetryAdmits(j)
  PROVE  Exclusion'
<1> USE JobsAssumption
<1>0. /\ status \in [Jobs -> Statuses]
      /\ mover \in [Jobs -> {"nobody", "launch", "retry", "pass", "operator"}]
      /\ retry \in Retry
      /\ retry.pc = "restart" => retry.job \in Jobs
  BY DEF TypeOK
<1>1. ASSUME UNCHANGED <<status, id, mover, launcher, pass>>,
             retry'.pc = "restart" /\ retry'.hold = {} => Alone(retry'.job)
      PROVE  Exclusion'
  <2>1. \A k \in Jobs : Alone(k) => Alone(k)'
    BY <1>1 DEF Alone, Excludes
  <2>2. PassSees'
    BY <1>1 DEF Exclusion, PassSees, Going
  <2>3. Alone(retry'.job) => Alone(retry.job)'
    BY <1>1 DEF Alone, Excludes
  <2> QED BY <1>1, <2>1, <2>2, <2>3 DEF Exclusion, Excludes, Going
<1>2. ASSUME NEW j \in Jobs, RetryAdmits(j) PROVE Exclusion'
  <2>1. Blocking(j) = {} => Alone(j)
    BY DEF Blocking, Live, Alone
  <2> QED BY <1>1, <1>2, <2>1 DEF RetryAdmits, queueVars
<1>3. CASE RetryRecords \/ RetryDies
  BY <1>1, <1>3 DEF RetryRecords, RetryDies, RetryEnds, NoRetry, queueVars
<1>4. ASSUME RetryRestarts, UNCHANGED <<status, mover>> PROVE Exclusion'
  <2>1. CASE RetryEnds
    BY <1>1, <1>4, <2>1 DEF RetryRestarts, RetryEnds, NoRetry
  <2>2. CASE retry'.pc = "record"
    BY <1>1, <1>4, <2>2 DEF RetryRestarts
  <2> QED BY <1>0, <1>4, <2>1, <2>2 DEF RetryRestarts, Retry
<1>5. ASSUME RetryRestarts, Restart(retry.job) PROVE Exclusion'
  <2> DEFINE j == retry.job
  <2>1. /\ j \in Jobs
        /\ retry.pc = "restart"
        /\ pass.pc = "idle"
        /\ \A k \in Jobs : launcher[k].pc # "add"
        /\ UNCHANGED <<id, launcher, pass>>
    BY <1>0, <1>5 DEF RetryRestarts, Locked
  <2>2. retry'.pc # "restart"
    BY <1>0, <1>5 DEF RetryRestarts, RetryEnds, NoRetry, Retry, Restart
  <2>3. PassSees'
    BY <2>1 DEF PassSees
  <2>4. CASE retry.hold = {}
    <3>1. Alone(j)
      BY <2>1, <2>4 DEF Exclusion
    <3>2. \A k \in Jobs \ {j} : Going(k)' = Going(k)
      BY <1>0, <1>5, <2>1 DEF Restart, Going
    <3>3. \A k \in Jobs : Excludes(j, k) \/ Excludes(k, j) => ~Going(k)
      BY <2>1, <3>1, ExcludesSymmetric DEF Alone, Going, Unfinished
    <3>4. \A m, k \in Jobs :
            Excludes(m, k) => ~(Going(m)' /\ Going(k)')
      BY <2>1, <3>2, <3>3, ExcludesIrreflexive DEF Exclusion
    <3> QED BY <2>1, <2>2, <2>3, <3>4 DEF Exclusion, Excludes
  <2>5. CASE retry.hold # {}
    <3>1. \A k \in Jobs : Going(k)' => Going(k)
      BY <1>0, <1>5, <2>1, <2>5 DEF Restart, Going
    <3>2. \A m, k \in Jobs :
            Excludes(m, k) => ~(Going(m)' /\ Going(k)')
      BY <3>1 DEF Exclusion
    <3> QED BY <2>1, <2>2, <2>3, <3>2 DEF Exclusion, Excludes
  <2> QED BY <2>4, <2>5
<1>6. ASSUME RetryRestarts, status[retry.job] # "Done" PROVE Exclusion'
  BY <1>4, <1>6 DEF RetryRestarts
<1> QED
  BY <1>2, <1>3, <1>4, <1>5 DEF RetryStep, RetryRestarts

LEMMA ExclusionPass ==
  ASSUME TypeOK, Locked, Exclusion,
         PassBegins \/ PassStep \/ PassDies
  PROVE  Exclusion'
<1> USE JobsAssumption
<1>0. /\ status \in [Jobs -> Statuses]
      /\ mover \in [Jobs -> {"nobody", "launch", "retry", "pass", "operator"}]
      /\ pass \in Pass
      /\ id \in [Jobs -> Nat]
      /\ retry.pc = "restart" => retry.job \in Jobs
  BY DEF TypeOK
<1>1. ASSUME UNCHANGED <<status, mover, launcher, retry>>, PassSees'
      PROVE  Exclusion'
  <2>1. \A k \in Jobs : Alone(k) => Alone(k)'
    BY <1>1 DEF Alone, Excludes
  <2> QED BY <1>0, <1>1, <2>1 DEF Exclusion, Excludes, Going
<1>2. CASE PassBegins
  <2>1. PassSees'
    BY <1>2 DEF PassBegins, PassSees, Live, Held, Going, queueVars
  <2> QED BY <1>1, <1>2, <2>1 DEF PassBegins, queueVars
<1>3. CASE PassDone \/ PassDies
  BY <1>1, <1>3 DEF PassDone, PassDies, PassEnds, NoPass, PassSees, queueVars
<1>4. CASE PassConsumes
  <2>1. PassSees'
    BY <1>0, <1>4 DEF PassConsumes, PassSees, Exclusion, Pass, queueVars, Going
  <2> QED BY <1>1, <1>4, <2>1 DEF PassConsumes, queueVars
<1>5. ASSUME NEW j \in Jobs, First(j), pass.pc = "next", UNCHANGED id,
             \A k \in pass.todo \ {j} : Going(k)' = Going(k),
             \A k \in Jobs : status'[k] \in Unfinished => status[k] \in Unfinished,
             /\ pass'.todo = pass.todo \ {j}
             /\ pass'.held = pass.held
             /\ pass'.live = pass.live
      PROVE  PassSees'
  BY <1>0, <1>5 DEF Exclusion, PassSees, First, Pass
<1>6. ASSUME NEW j \in Jobs, PassLeaves(j) PROVE Exclusion'
  <2>1. PassSees'
    BY <1>0, <1>5, <1>6 DEF PassLeaves, queueVars, Pass, Going
  <2> QED BY <1>1, <1>6, <2>1 DEF PassLeaves, queueVars
<1>7. ASSUME NEW j \in Jobs, PassReleases(j), UNCHANGED <<status, mover>>
      PROVE Exclusion'
  <2>1. CASE PassEnds
    BY <1>1, <1>7, <2>1 DEF PassReleases, PassEnds, NoPass, PassSees
  <2>2. CASE ~PassEnds
    BY <1>0, <1>7, <2>2 DEF PassReleases, Enqueue
  <2> QED BY <2>1, <2>2
<1>8. ASSUME NEW j \in Jobs, PassReleases(j), Enqueue(j, "pass") PROVE Exclusion'
  <2>1. /\ status' = [status EXCEPT ![j] = "Queued"]
        /\ \A k \in Jobs \ {j} : Going(k)' = Going(k)
        /\ status[j] = "Stashed"
        /\ UNCHANGED <<id, launcher, retry>>
        /\ pass.pc = "next" /\ First(j) /\ BlockingHeld(j) = {}
    BY <1>0, <1>8 DEF PassReleases, Enqueue, Going
  <2>2. \A k \in Jobs : Excludes(j, k) => ~Going(k)
    BY <2>1, ReleasedIsAlone DEF Exclusion
  <2>3. \A m, k \in Jobs :
          Excludes(m, k) => ~(Going(m)' /\ Going(k)')
    BY <1>0, <2>1, <2>2, ExcludesSymmetric, ExcludesIrreflexive DEF Exclusion
  <2>4. /\ \A k \in Jobs : launcher'[k].pc # "add"
        /\ retry'.pc = "idle"
    BY <2>1 DEF Locked
  <2>5. PassSees'
    <3>1. CASE PassEnds
      BY <3>1 DEF PassEnds, NoPass, PassSees
    <3>2. CASE pass' = [pass EXCEPT !.pc = "consume", !.job = j,
                                    !.todo = @ \ {j}]
      BY <1>0, <1>5, <2>1, <3>2 DEF Pass, Unfinished
    <3> QED BY <1>8, <2>1, <3>1, <3>2 DEF PassReleases, Enqueue
  <2> QED BY <2>3, <2>4, <2>5 DEF Exclusion, Excludes
<1> QED
  BY <1>2, <1>3, <1>4, <1>6, <1>7, <1>8 DEF PassStep, PassReleases

LEMMA ExclusionNext ==
  ASSUME TypeOK, Locked, Recorded, Exclusion, [Next]_vars
  PROVE  Exclusion'
<1>1. CASE UNCHANGED vars
  BY <1>1, ExclusionKept DEF vars, callVars, queueVars, Going
<1>2. ASSUME NEW j \in Jobs, LaunchStep(j) \/ LauncherDies(j) PROVE Exclusion'
  BY <1>2, ExclusionLaunch
<1>3. ASSUME NEW j \in Jobs,
             \/ TaskStarts(j) \/ TaskEnds(j) \/ TaskRemoved(j)
             \/ OperatorStashes(j) \/ OperatorEnqueues(j)
      PROVE  Exclusion'
  <2>1. UNCHANGED <<id, launcher, retry, pass>>
    BY <1>3 DEF TaskStarts, TaskEnds, TaskRemoved, OperatorStashes,
                OperatorEnqueues, callVars
  <2>2. \A k \in Jobs :
          /\ status'[k] \in Unfinished => status[k] \in Unfinished
          /\ Going(k)' => Going(k)
    BY <1>3 DEF TaskStarts, TaskEnds, TaskRemoved, OperatorStashes,
                OperatorEnqueues, Enqueue, TypeOK, Unfinished, Going
  <2> QED BY <2>1, <2>2, ExclusionKept
<1>4. CASE RetryStep \/ RetryDies \/ \E j \in Jobs : RetryAdmits(j)
  BY <1>4, ExclusionRetry
<1>5. CASE PassBegins \/ PassStep \/ PassDies
  BY <1>5, ExclusionPass
<1>6. CASE AtRest
  BY <1>1, <1>6 DEF AtRest
<1> QED BY <1>1, <1>2, <1>3, <1>4, <1>5, <1>6 DEF Next

\* Partners never run together, whatever dies, fails or is stashed or removed
\* by hand, unless the operator enqueued one of the two by hand.
THEOREM PartnersExclude == Spec => []ExclusiveRunning
<1> DEFINE I == TypeOK /\ Locked /\ Recorded /\ Exclusion
<1>1. Init => I
  BY TypeInit, LockedInit, RecordedInit, ExclusionInit
<1>2. I /\ [Next]_vars => I'
  BY TypeNext, LockedNext, RecordedNext, ExclusionNext
<1>3. I => ExclusiveRunning
  BY DEF Exclusion, ExclusiveRunning, Going
<1> QED BY <1>1, <1>2, <1>3, PTL DEF Spec

-----------------------------------------------------------------------------
(* Holds in force.                                                         *)

\* A hold belongs to a task that waits, or that is gone; while its launch has
\* not added the task, or a pass has just enqueued it, the lock is held.
InForce ==
  /\ \A j \in Jobs :
       hold[j] # {} => \/ status[j] \in {"Stashed", "Gone"}
                       \/ launcher[j].pc = "add"
                       \/ pass.pc = "consume" /\ pass.job = j
  /\ \A j \in Jobs :
       launcher[j].pc = "ack" /\ launcher[j].hold # {}
         => status[j] \in {"Stashed", "Gone"}
  /\ retry.pc = "record" => status[retry.job] \in {"Stashed", "Gone"}

LEMMA InForceInit == Init => InForce
BY DEF Init, InForce, NoRetry, NoPass

\* With the holds untouched, a step must only keep waiting tasks waiting.
LEMMA InForceKept ==
  ASSUME InForce, UNCHANGED <<hold, retry, pass>>,
         \A j \in Jobs : launcher[j].pc = "add" => launcher'[j].pc = "add",
         \A j \in Jobs : launcher'[j].pc = "ack" => launcher'[j] = launcher[j],
         \A j \in Jobs \cup {retry.job} :
           status[j] \in {"Stashed", "Gone"} => status'[j] \in {"Stashed", "Gone"}
  PROVE  InForce'
BY DEF InForce

LEMMA InForceLaunch ==
  ASSUME TypeOK, Locked, Recorded, InForce, ~Fault("die"), ~Fault("query"),
         NEW j \in Jobs, LaunchStep(j) \/ LauncherDies(j)
  PROVE  InForce'
<1>0. /\ status \in [Jobs -> Statuses]
      /\ hold \in [Jobs -> SUBSET Jobs]
      /\ launcher \in [Jobs -> Launch]
      /\ retry.pc = "record" => retry.job \in Jobs
      /\ \A k \in Jobs : launcher[k].pc \in {"add", "ack"} => lock = k
      /\ launcher[j].pc \in {"add", "ack"} => pass.pc = "idle" /\ retry.pc = "idle"
  BY JobsAssumption DEF TypeOK, Locked
<1>1. CASE LaunchAdmits(j)
  <2>1. pass.pc = "idle" /\ retry.pc = "idle"
    BY <1>1, JobsAssumption DEF LaunchAdmits, Locked
  <2>2. /\ UNCHANGED <<status, retry, pass>>
        /\ launcher'[j].pc = "add"
        /\ \A k \in Jobs \ {j} : launcher'[k] = launcher[k] /\ hold'[k] = hold[k]
    BY <1>0, <1>1 DEF LaunchAdmits, queueVars
  <2> QED BY <2>1, <2>2 DEF InForce
<1>2. CASE LaunchRefused(j)
  <2>1. /\ UNCHANGED <<hold, status, retry, pass>>
        /\ launcher[j].pc = "idle"
        /\ launcher'[j].pc = "failed"
        /\ \A k \in Jobs \ {j} : launcher'[k] = launcher[k]
    BY <1>0, <1>2 DEF LaunchRefused, LaunchEnds, queueVars
  <2> QED BY <2>1 DEF InForce
<1>3. CASE LaunchAdds(j)
  <2>1. /\ UNCHANGED <<hold, retry, pass>>
        /\ launcher[j].pc = "add"
        /\ launcher'[j].pc = "ack" /\ launcher'[j].hold = launcher[j].hold
        /\ \A k \in Jobs \ {j} : launcher'[k] = launcher[k] /\ status'[k] = status[k]
        /\ launcher[j].hold # {} => status'[j] = "Stashed"
    BY <1>0, <1>3 DEF LaunchAdds, Add, Launch
  <2>2. hold[j] = launcher[j].hold
    BY <2>1 DEF Recorded
  <2>3. retry.pc = "idle"
    BY <1>0, <2>1
  <2> QED BY <2>1, <2>2, <2>3 DEF InForce
<1>4. CASE LaunchAcks(j)
  <2>1. /\ UNCHANGED <<status, retry, pass>>
        /\ launcher[j].pc = "ack" /\ launcher'[j].pc = "done"
        /\ hold'[j] = launcher[j].hold
        /\ \A k \in Jobs \ {j} : launcher'[k] = launcher[k] /\ hold'[k] = hold[k]
    BY <1>0, <1>4 DEF LaunchAcks, LaunchEnds, queueVars
  <2> QED BY <2>1 DEF InForce
<1> QED BY <1>1, <1>2, <1>3, <1>4 DEF LaunchStep, LauncherDies, LaunchUncertain

LEMMA InForceNext ==
  ASSUME TypeOK, Locked, Recorded, InForce, [Next]_vars,
         ~Fault("die"), ~Fault("query"), ~Fault("enqueue")
  PROVE  InForce'
<1>0. /\ status \in [Jobs -> Statuses]
      /\ hold \in [Jobs -> SUBSET Jobs]
      /\ retry \in Retry
      /\ retry.pc # "idle" => retry.job \in Jobs
      /\ pass \in Pass
      /\ pass.pc = "consume" => pass.job \in Jobs
      /\ lock = "free" => pass.pc = "idle" /\ retry.pc = "idle"
      /\ retry.pc # "idle" => pass.pc = "idle"
      /\ pass.pc # "idle" => retry.pc = "idle"
      /\ retry.pc # "idle" \/ pass.pc # "idle" =>
           \A k \in Jobs : launcher[k].pc \notin {"add", "ack"}
  BY JobsAssumption DEF TypeOK, Locked
<1>1. ASSUME NEW j \in Jobs, LaunchStep(j) \/ LauncherDies(j) PROVE InForce'
  BY <1>1, InForceLaunch
<1>2. ASSUME NEW j \in Jobs,
             \/ TaskStarts(j) \/ TaskEnds(j) \/ TaskRemoved(j)
             \/ OperatorStashes(j) \/ OperatorEnqueues(j)
      PROVE  InForce'
  <2>1. UNCHANGED <<hold, launcher, retry, pass>>
    BY <1>2 DEF TaskStarts, TaskEnds, TaskRemoved, OperatorStashes,
                OperatorEnqueues, callVars
  <2>2. \A k \in Jobs :
          status[k] \in {"Stashed", "Gone"} => status'[k] \in {"Stashed", "Gone"}
    BY <1>0, <1>2 DEF TaskStarts, TaskEnds, TaskRemoved, OperatorStashes,
                      OperatorEnqueues
  <2> QED BY <1>0, <2>1, <2>2 DEF InForce
<1>3. ASSUME NEW j \in Jobs, RetryAdmits(j) PROVE InForce'
  BY <1>0, <1>3 DEF RetryAdmits, InForce, queueVars
<1>4. CASE RetryRestarts
  <2>1. /\ UNCHANGED <<hold, launcher, pass>>
        /\ retry.pc = "restart" /\ pass.pc = "idle"
        /\ \A k \in Jobs \ {retry.job} : status'[k] = status[k]
    BY <1>0, <1>4 DEF RetryRestarts, Restart
  <2>2. CASE UNCHANGED status /\ RetryEnds
    BY <2>1, <2>2 DEF InForce, RetryEnds, NoRetry
  <2>3. CASE status[retry.job] = "Done" /\ Restart(retry.job)
    <3>1. /\ hold[retry.job] = {}
          /\ \A k \in Jobs : launcher[k].pc \notin {"add", "ack"}
      BY <1>0, <2>1, <2>3 DEF InForce
    <3>2. retry'.pc = "record" => retry'.job = retry.job /\ status'[retry.job] = "Stashed"
      BY <1>0, <1>4, <2>1, <2>3 DEF RetryRestarts, RetryEnds, NoRetry, Restart, Retry
    <3> QED BY <2>1, <3>1, <3>2 DEF InForce
  <2> QED BY <1>4, <2>2, <2>3 DEF RetryRestarts
<1>5. CASE RetryRecords
  BY <1>0, <1>5 DEF RetryRecords, RetryEnds, NoRetry, InForce, queueVars
<1>6. CASE PassBegins \/ PassDone \/ PassDies
  BY <1>0, <1>6 DEF PassBegins, PassDone, PassDies, PassEnds, NoPass, InForce, queueVars
<1>7. CASE PassConsumes
  BY <1>0, <1>7 DEF PassConsumes, InForce, queueVars
<1>8. ASSUME NEW j \in Jobs, PassLeaves(j) PROVE InForce'
  BY <1>0, <1>8 DEF PassLeaves, InForce, queueVars
<1>9. ASSUME NEW j \in Jobs, PassReleases(j) PROVE InForce'
  <2>1. /\ UNCHANGED <<hold, launcher, retry>>
        /\ pass.pc = "next"
        /\ \A k \in Jobs : launcher[k].pc \notin {"add", "ack"}
        /\ retry.pc = "idle"
    BY <1>0, <1>9 DEF PassReleases
  <2>2. CASE UNCHANGED status
    BY <2>1, <2>2 DEF InForce
  <2>3. CASE /\ \A k \in Jobs \ {j} : status'[k] = status[k]
             /\ pass'.pc = "consume" /\ pass'.job = j
    BY <2>1, <2>3 DEF InForce
  <2> QED BY <1>0, <1>9, <2>2, <2>3 DEF PassReleases, Enqueue, Pass
<1>10. CASE RetryDies \/ AtRest \/ UNCHANGED vars
  <2>1. UNCHANGED vars
    BY <1>10 DEF RetryDies, AtRest
  <2> QED BY <2>1 DEF vars, queueVars, callVars, InForce
<1> QED BY <1>1, <1>2, <1>3, <1>4, <1>5, <1>6, <1>7, <1>8, <1>9, <1>10
        DEF Next, PassStep, RetryStep

\* No hold outlives the release of its task, even when the operator stashes
\* tasks by hand -- as long as every process runs on, pueue answers and nobody
\* enqueues a held task by hand.
THEOREM HoldsInForce ==
  ASSUME ~Fault("die"), ~Fault("query"), ~Fault("enqueue")
  PROVE  Spec => []HoldIsInForce
<1> DEFINE I == TypeOK /\ Locked /\ Recorded /\ InForce
<1>1. Init => I
  BY TypeInit, LockedInit, RecordedInit, InForceInit
<1>2. I /\ [Next]_vars => I'
  BY TypeNext, LockedNext, RecordedNext, InForceNext
<1>3. I => HoldIsInForce
  BY JobsAssumption DEF Locked, InForce, HoldIsInForce
<1> QED BY <1>1, <1>2, <1>3, PTL DEF Spec
=============================================================================
