------------------------ MODULE JobLifecycle_proofs ------------------------
(***************************************************************************)
(* Theorems about JobLifecycle that hold for every number of starts and    *)
(* every set of cancellers.  The faults and the guarded calls a theorem    *)
(* leaves out are its hypotheses: with them the runs show a behaviour that *)
(* breaks the property.  Inv, the types and the bookkeeping of starts and  *)
(* attempts, is inductive on its own.  Each later section adds what one    *)
(* property needs on top of it, in a step lemma KeepsX or NextX, and the   *)
(* section on what the steps of each process leave alone serves all.       *)
(***************************************************************************)
EXTENDS JobLifecycle, TLAPS

-----------------------------------------------------------------------------
(* The inductive invariant.                                                *)

\* The queue entry, its wrapper and a retry that is under way agree, and
\* no start of the task is beyond the bound.
Queue ==
  /\ wrapper.pc # "none" <=> task.status = "Running"
  /\ task.status = "Queued" => task.run < MaxRuns
  /\ retrying # "idle" => task.status \in {"Done", "Gone"} /\ task.run < MaxRuns

\* A wrapper works for the newest attempt, and each start allocates at most
\* one attempt.
Numbers ==
  /\ attempts <= task.run
  /\ wrapper.pc = "begin" => attempts < task.run
  /\ wrapper.pc \in {"none", "begin"} => wrapper.attempt = NoAttempt
  /\ wrapper.pc \notin {"none", "begin"} =>
       wrapper.attempt = attempts /\ attempts \in Attempt

Inv == TypeOK /\ Queue /\ Numbers

LEMMA InitInv == Init => Inv
  BY MaxRunsAssumption, SettingsAssumption
     DEF Init, Inv, TypeOK, Queue, Numbers, Task, Wrapper, NoWrapper,
         WrapperPcs, Statuses, Unit, NoUnit, Disposition, NoDisposition,
         DispositionKinds, Cgroups, Canceller, IdleCanceller, CancelPcs,
         CancelResults, Attempt, NoAttempt, Results, Outcomes

\* What `systemctl stop` leaves has the types of what was there.
LEMMA StopResultsType ==
  ASSUME TypeOK, NEW s \in StopResults
  PROVE  /\ s.unit \in Unit
         /\ s.members \subseteq Attempt
         /\ s.execution \in [Attempt -> Results \cup {"none", "stopped"}]
<1> DEFINE asis == [unit |-> unit, members |-> members, execution |-> execution]
<1>1. CASE s = asis
  BY <1>1 DEF TypeOK
<1>2. CASE s = [asis EXCEPT !.unit = NoUnit]
  BY <1>2, MaxRunsAssumption DEF TypeOK, NoUnit, Unit, NoAttempt
<1>3. ASSUME NEW left \in Leftovers, NEW state \in {"stopped", "absent"},
             NEW result \in {"success", "failed"}, s = Halted(left, state, result)
      PROVE  /\ s.unit \in Unit
             /\ s.members \subseteq Attempt
             /\ s.execution \in [Attempt -> Results \cup {"none", "stopped"}]
  <2>1. left \subseteq Attempt
    BY <1>3 DEF Leftovers, TypeOK
  <2>2. (IF state = "absent" THEN NoUnit
         ELSE [unit EXCEPT !.state = state, !.result = result]) \in Unit
    <3>1. NoUnit \in Unit
      BY MaxRunsAssumption DEF NoUnit, Unit, NoAttempt
    <3>2. [unit EXCEPT !.state = state, !.result = result] \in Unit
      BY DEF TypeOK, Unit, Results
    <3> QED BY <3>1, <3>2
  <2>3. [execution EXCEPT ![unit.attempt] = "stopped"]
          \in [Attempt -> Results \cup {"none", "stopped"}]
    BY DEF TypeOK
  <2> QED BY <1>3, <2>1, <2>2, <2>3 DEF Halted
<1>4. \/ s = asis
      \/ s = [asis EXCEPT !.unit = NoUnit]
      \/ \E left \in Leftovers, state \in {"stopped", "absent"},
            result \in {"success", "failed"} : s = Halted(left, state, result)
  <2>1. CASE unit.state = "active"
    BY <2>1 DEF StopResults, MayFail
  <2>2. CASE unit.state = "exited"
    BY <2>2 DEF StopResults, MayFail
  <2>3. CASE unit.state \notin {"active", "exited"}
    BY <2>3 DEF StopResults
  <2> QED BY <2>1, <2>2, <2>3
<1> QED BY <1>1, <1>2, <1>3, <1>4

\* So does release_unit, which also knows the cgroup or does not.
LEMMA ReleasesType ==
  ASSUME TypeOK, NEW r \in Releases
  PROVE  /\ r.unit \in Unit
         /\ r.members \subseteq Attempt
         /\ r.execution \in [Attempt -> Results \cup {"none", "stopped"}]
         /\ r.cgroup \in {"path", "null"}
         /\ r.quiet \in BOOLEAN
<1> DEFINE released(s, path, quiet) ==
             [quiet |-> quiet, cgroup |-> path,
              unit |-> IF quiet THEN NoUnit ELSE s.unit,
              members |-> s.members, execution |-> s.execution]
<1>1. PICK s \in StopResults, path \in {"path", "null"}, quiet \in BOOLEAN :
        r = released(s, path, quiet)
  <2> DEFINE paths == IF wrapper.cgroup = "path" THEN {"path"}
                      ELSE IF unit.state = "absent" THEN {"null"}
                      ELSE {"path"} \cup MayFail("null")
             emptied(s, path) == \/ s.members = {}
                                 \/ path = "null" /\ s.unit.state = "absent"
             calm(s, path) == s.unit.state # "active" /\ emptied(s, path)
  <2>1. paths \subseteq {"path", "null"}
    BY DEF MayFail
  <2>2. \E s \in StopResults, path \in paths :
          r = released(s, path, calm(s, path)) \/ r = released(s, path, FALSE)
    <3> HIDE DEF paths
    <3> QED BY DEF Releases, paths
  <2>3. \A s \in StopResults, path \in paths : calm(s, path) \in BOOLEAN
    OBVIOUS
  <2> QED BY <2>1, <2>2, <2>3
<1>2. NoUnit \in Unit
  BY MaxRunsAssumption DEF NoUnit, Unit, NoAttempt
<1> QED BY <1>1, <1>2, StopResultsType

LEMMA NoWrapperType == NoWrapper \in Wrapper
  BY MaxRunsAssumption, SettingsAssumption
  DEF NoWrapper, Wrapper, WrapperPcs, NoAttempt

LEMMA NoDispositionType ==
  /\ NoDisposition \in Disposition
  /\ \A kind \in DispositionKinds :
       [NoDisposition EXCEPT !.kind = kind] \in Disposition
  BY MaxRunsAssumption DEF NoDisposition, Disposition, DispositionKinds, Cgroups,
                           NoAttempt

-----------------------------------------------------------------------------
(* What the two ways a wrapper moves on leave of its record.               *)

\* A started wrapper that moves on keeps its attempt.
Onward ==
  /\ wrapper' \in Wrapper
  /\ wrapper.pc \notin {"none", "begin"}
  /\ wrapper'.pc \notin {"none", "begin"}
  /\ wrapper'.attempt = wrapper.attempt

LEMMA GoesOnward ==
  ASSUME TypeOK, NEW from \in WrapperPcs \ {"none", "begin"},
         NEW to \in WrapperPcs \ {"none", "begin"}, WrapperGoes(from, to)
  PROVE  Onward
  BY DEF TypeOK, WrapperGoes, Wrapper, Onward

LEMMA ConcludesOnward ==
  ASSUME TypeOK, NEW from \in WrapperPcs \ {"none", "begin"},
         NEW to \in WrapperPcs \ {"none", "begin"}, NEW result \in Outcomes,
         WrapperConcludes(from, to, result)
  PROVE  Onward
  BY DEF TypeOK, WrapperConcludes, Wrapper, Onward

LEMMA PropsType ==
  ASSUME TypeOK
  PROVE  FinalProps \cup MayFail("none") \subseteq Results \cup {"none", "gone"}
  BY DEF TypeOK, Unit, FinalProps, MayFail

\* Such a step keeps the agreement of queue, wrapper and attempt numbers.
LEMMA OnwardInv ==
  ASSUME Inv, Onward, UNCHANGED <<task, attempts, retrying>>
  PROVE  Queue' /\ Numbers'
  BY DEF Inv, Queue, Numbers, Onward

\* So does one that touches none of them.
LEMMA ApartInv ==
  ASSUME Inv, UNCHANGED <<task, wrapper, attempts, retrying>>
  PROVE  Queue' /\ Numbers'
  BY DEF Inv, Queue, Numbers

-----------------------------------------------------------------------------
(* Every step keeps the invariant.                                         *)

\* Every step of a started wrapper moves it onward.
LEMMA StepOnward ==
  ASSUME Inv, WrapperStep
  PROVE  WrapperBegin \/ Onward
<1> USE DEF Inv
<1>1. CASE WrapperRefusesEarly
  BY <1>1, ConcludesOnward DEF WrapperRefusesEarly, WrapperPcs, Outcomes
<1>2. CASE WrapperPrepares
  BY <1>2, GoesOnward DEF WrapperPrepares, WrapperPcs
<1>3. CASE WrapperChecks
  BY <1>3, GoesOnward, ConcludesOnward DEF WrapperChecks, WrapperPcs, Outcomes
<1>4. CASE WrapperTurnedAway
  BY <1>4, ConcludesOnward DEF WrapperTurnedAway, WrapperPcs, Outcomes
<1>5. CASE WrapperAdmits
  BY <1>5 DEF WrapperAdmits, TypeOK, Wrapper, WrapperPcs, Onward
<1>6. CASE WrapperClaims
  <2>1. CASE MarkerTargets
    BY <1>6, <2>1, ConcludesOnward DEF WrapperClaims, WrapperPcs, Outcomes
  <2>2. CASE ~MarkerTargets
    <3>1. PICK cgroup \in {"path", "null"} :
            wrapper' = [wrapper EXCEPT !.pc = "dispatch", !.cgroup = cgroup]
      BY <1>6, <2>2 DEF WrapperClaims, MayFail
    <3> QED BY <1>6, <3>1 DEF WrapperClaims, TypeOK, Wrapper, WrapperPcs, Onward
  <2> QED BY <2>1, <2>2
<1>7. CASE WrapperCannotClaim
  BY <1>7, ConcludesOnward DEF WrapperCannotClaim, WrapperPcs, Outcomes
<1>8. CASE WrapperDispatches
  BY <1>8, GoesOnward DEF WrapperDispatches, WrapperPcs
<1>9. CASE WrapperRejected
  BY <1>9, GoesOnward DEF WrapperRejected, WrapperPcs
<1>10. CASE WrapperBacksOff
  <2>1. CASE MarkerTargets
    BY <1>10, <2>1, ConcludesOnward DEF WrapperBacksOff, WrapperPcs, Outcomes
  <2>2. CASE WrapperGoes("backoff", "snapshot")
    BY <2>2, GoesOnward DEF WrapperPcs
  <2>3. CASE /\ wrapper.pc = "backoff"
             /\ wrapper.retries < BusRetries
             /\ wrapper' = [wrapper EXCEPT !.pc = "claim", !.retries = @ + 1]
    <3>1. wrapper.retries + 1 \in 0..BusRetries
      BY <2>3, SettingsAssumption DEF TypeOK, Wrapper
    <3> QED BY <2>3, <3>1 DEF TypeOK, Wrapper, WrapperPcs, Onward
  <2> QED BY <1>10, <2>1, <2>2, <2>3 DEF WrapperBacksOff
<1>11. CASE WrapperSnapshots
  <2>1. CASE WrapperGoes("snapshot", "await")
    BY <2>1, GoesOnward DEF WrapperPcs
  <2>2. CASE \E props \in FinalProps \cup MayFail("none") :
               wrapper' = [wrapper EXCEPT !.pc = "classify", !.props = props]
    <3>1. PICK props \in Results \cup {"none", "gone"} :
            wrapper' = [wrapper EXCEPT !.pc = "classify", !.props = props]
      BY <2>2, PropsType
    <3> QED BY <1>11, <3>1 DEF WrapperSnapshots, TypeOK, Wrapper, WrapperPcs, Onward
  <2> QED BY <1>11, <2>1, <2>2 DEF WrapperSnapshots
<1>12. CASE WrapperAwaits
  <2>1. PICK props \in Results \cup {"none", "gone"} :
          wrapper' = [wrapper EXCEPT !.pc = "classify", !.props = props]
    BY <1>12, PropsType DEF WrapperAwaits
  <2> QED BY <1>12, <2>1 DEF WrapperAwaits, TypeOK, Wrapper, WrapperPcs, Onward
<1>13. CASE WrapperClassifies
  BY <1>13, ConcludesOnward DEF WrapperClassifies, WrapperPcs, Outcomes
<1>14. CASE WrapperReleases
  BY ZenonT(60), <1>14, ReleasesType DEF WrapperReleases, TypeOK, Wrapper, WrapperPcs, Outcomes, Onward
<1>15. CASE WrapperFinishes
  BY <1>15, GoesOnward DEF WrapperFinishes, WrapperPcs
<1>16. CASE WrapperCleansUp
  <2> DEFINE kept == [quiet |-> TRUE, cgroup |-> wrapper.cgroup, unit |-> unit,
                      members |-> members, execution |-> execution]
             after(r) == [wrapper EXCEPT !.owns = ~r.quiet, !.cleaned = TRUE,
                            !.cgroup = r.cgroup,
                            !.pc = IF outcome[wrapper.attempt] = "none"
                                   THEN "publish" ELSE "exited"]
  <2>1. PICK r \in Releases \cup {kept} : wrapper' = after(r)
    BY <1>16 DEF WrapperCleansUp
  <2>2. r.quiet \in BOOLEAN /\ r.cgroup \in {"path", "null"}
    <3>1. CASE r \in Releases
      BY <3>1, ReleasesType
    <3>2. CASE r = kept
      BY <3>2 DEF TypeOK, Wrapper
    <3> QED BY <2>1, <3>1, <3>2
  <2> QED BY ZenonT(60), <1>16, <2>1, <2>2 DEF WrapperCleansUp, TypeOK, Wrapper, WrapperPcs, Onward
<1>17. CASE WrapperPublishes
  BY <1>17, GoesOnward DEF WrapperPublishes, WrapperPcs
<1> QED BY <1>1, <1>2, <1>3, <1>4, <1>5, <1>6, <1>7, <1>8, <1>9, <1>10, <1>11, <1>12, <1>13, <1>14, <1>15, <1>16, <1>17
  DEF WrapperStep

\* Steps of agentctl-run.
LEMMA WrapperInv ==
  ASSUME Inv, WrapperStep
  PROVE  Inv'
<1> USE DEF Inv
<1>1. CASE WrapperBegin
  <2>1. wrapper' \in Wrapper /\ wrapper'.pc = "prepare" /\ wrapper'.attempt = attempts + 1
    <3>1. attempts + 1 \in 0..MaxRuns
      BY <1>1, MaxRunsAssumption DEF WrapperBegin, TypeOK, Task, Numbers
    <3> QED BY <1>1, <3>1 DEF WrapperBegin, TypeOK, Wrapper, WrapperPcs
  <2>2. attempts' \in Attempt
    BY <1>1, MaxRunsAssumption DEF WrapperBegin, TypeOK, Task, Numbers, Attempt
  <2>3. TypeOK'
    BY <1>1, <2>1, <2>2, MaxRunsAssumption
    DEF WrapperBegin, TypeOK, NoAttempt, Attempt, unitVars, operatorVars
  <2> QED
    BY <1>1, <2>1, <2>2, <2>3 DEF WrapperBegin, TypeOK, Task, Queue, Numbers, operatorVars
<1>2. CASE WrapperRefusesEarly /\ Onward
  <2>1. TypeOK'
    BY <1>2 DEF WrapperRefusesEarly, TypeOK, Onward, unitVars, fileVars, operatorVars
  <2> QED BY <1>2, <2>1, OnwardInv DEF WrapperRefusesEarly, Inv, fileVars, operatorVars
<1>3. CASE WrapperPrepares /\ Onward
  <2>1. TypeOK'
    BY <1>3 , MaxRunsAssumption DEF WrapperPrepares, Wrapper, TypeOK, Onward, unitVars, fileVars, operatorVars
  <2> QED BY <1>3, <2>1, OnwardInv DEF WrapperPrepares, Inv, fileVars, operatorVars
<1>4. CASE WrapperChecks /\ Onward
  <2>1. TypeOK'
    BY <1>4 DEF WrapperChecks, TypeOK, Onward, unitVars, fileVars, operatorVars
  <2> QED BY <1>4, <2>1, OnwardInv DEF WrapperChecks, Inv, fileVars, operatorVars
<1>5. CASE WrapperTurnedAway /\ Onward
  <2>1. TypeOK'
    BY <1>5 DEF WrapperTurnedAway, TypeOK, Onward, unitVars, fileVars, operatorVars
  <2> QED BY <1>5, <2>1, OnwardInv DEF WrapperTurnedAway, Inv, fileVars, operatorVars
<1>6. CASE WrapperAdmits /\ Onward
  <2>1. TypeOK'
    BY <1>6 , StopResultsType DEF WrapperAdmits, Leave, TypeOK, Onward, unitVars, fileVars, operatorVars
  <2> QED BY <1>6, <2>1, OnwardInv DEF WrapperAdmits, Inv, fileVars, operatorVars
<1>7. CASE WrapperClaims /\ Onward
  <2>1. TypeOK'
    <3>1. disposition' \in Disposition
      <4>1. wrapper.attempt \in 0..MaxRuns + 1
        BY MaxRunsAssumption DEF TypeOK, Wrapper
      <4>2. \/ disposition' = disposition
            \/ \E cgroup \in {"path", "null"} :
                 disposition' = [kind |-> "claimed", cgroup |-> cgroup,
                                 attempt |-> wrapper.attempt]
        BY <1>7 DEF WrapperClaims, MayFail
      <4> QED BY <4>1, <4>2 DEF TypeOK, Disposition, DispositionKinds, Cgroups
    <3>2. allocation' \in {"free", "wrapper"} \cup Cancellers
      BY <1>7 DEF WrapperClaims, TypeOK
    <3> QED BY <1>7, <3>1, <3>2
            DEF WrapperClaims, TypeOK, Onward, unitVars, operatorVars
  <2> QED BY <1>7, <2>1, OnwardInv DEF WrapperClaims, Inv, fileVars, operatorVars
<1>8. CASE WrapperCannotClaim /\ Onward
  <2>1. TypeOK'
    BY <1>8 DEF WrapperCannotClaim, TypeOK, Onward, unitVars, fileVars, operatorVars
  <2> QED BY <1>8, <2>1, OnwardInv DEF WrapperCannotClaim, Inv, fileVars, operatorVars
<1>9. CASE WrapperDispatches /\ Onward
  <2>1. TypeOK'
    BY <1>9 , MaxRunsAssumption DEF WrapperDispatches, Numbers, Unit, Attempt, TypeOK, Onward, unitVars, fileVars, operatorVars
  <2> QED BY <1>9, <2>1, OnwardInv DEF WrapperDispatches, Inv, fileVars, operatorVars
<1>10. CASE WrapperRejected /\ Onward
  <2>1. TypeOK'
    BY <1>10 DEF WrapperRejected, TypeOK, Onward, unitVars, fileVars, operatorVars
  <2> QED BY <1>10, <2>1, OnwardInv DEF WrapperRejected, Inv, fileVars, operatorVars
<1>11. CASE WrapperBacksOff /\ Onward
  <2>1. TypeOK'
    BY <1>11 DEF WrapperBacksOff, TypeOK, Onward, unitVars, fileVars, operatorVars
  <2> QED BY <1>11, <2>1, OnwardInv DEF WrapperBacksOff, Inv, fileVars, operatorVars
<1>12. CASE WrapperSnapshots /\ Onward
  <2>1. TypeOK'
    BY <1>12 DEF WrapperSnapshots, TypeOK, Onward, unitVars, fileVars, operatorVars
  <2> QED BY <1>12, <2>1, OnwardInv DEF WrapperSnapshots, Inv, fileVars, operatorVars
<1>13. CASE WrapperAwaits /\ Onward
  <2>1. TypeOK'
    BY <1>13 DEF WrapperAwaits, TypeOK, Onward, unitVars, fileVars, operatorVars
  <2> QED BY <1>13, <2>1, OnwardInv DEF WrapperAwaits, Inv, fileVars, operatorVars
<1>14. CASE WrapperClassifies /\ Onward
  <2>1. TypeOK'
    BY <1>14 DEF WrapperClassifies, TypeOK, Onward, unitVars, fileVars, operatorVars
  <2> QED BY <1>14, <2>1, OnwardInv DEF WrapperClassifies, Inv, fileVars, operatorVars
<1>15. CASE WrapperReleases /\ Onward
  <2>1. TypeOK'
    BY <1>15 , ReleasesType DEF WrapperReleases, Leave, TypeOK, Onward, unitVars, fileVars, operatorVars
  <2> QED BY <1>15, <2>1, OnwardInv DEF WrapperReleases, Inv, fileVars, operatorVars
<1>16. CASE WrapperFinishes /\ Onward
  <2>1. TypeOK'
    BY <1>16 , MaxRunsAssumption DEF WrapperFinishes, NoAttempt, TypeOK, Onward, unitVars, fileVars, operatorVars
  <2> QED BY <1>16, <2>1, OnwardInv DEF WrapperFinishes, Inv, fileVars, operatorVars
<1>17. CASE WrapperCleansUp /\ Onward
  <2>1. TypeOK'
    BY <1>17 , ReleasesType, MaxRunsAssumption DEF WrapperCleansUp, Leave, NoAttempt, TypeOK, Onward, unitVars, fileVars, operatorVars
  <2> QED BY <1>17, <2>1, OnwardInv DEF WrapperCleansUp, Inv, fileVars, operatorVars
<1>18. CASE WrapperPublishes /\ Onward
  <2>1. TypeOK'
    BY <1>18 DEF WrapperPublishes, Wrapper, TypeOK, Onward, unitVars, fileVars, operatorVars
  <2> QED BY <1>18, <2>1, OnwardInv DEF WrapperPublishes, Inv, fileVars, operatorVars
<1> QED BY <1>1, <1>2, <1>3, <1>4, <1>5, <1>6, <1>7, <1>8, <1>9, <1>10, <1>11, <1>12, <1>13, <1>14, <1>15, <1>16, <1>17, <1>18, StepOnward
  DEF WrapperStep

\* Steps of pueued, systemd and the kernel.
LEMMA EnvironmentInv ==
  ASSUME Inv, Environment
  PROVE  Inv'
<1> USE DEF Inv
<1>1. CASE TaskStart
  <2>1. task' \in Task /\ task'.run = task.run + 1 /\ task'.status = "Running"
    BY <1>1, MaxRunsAssumption DEF TaskStart, TypeOK, Task, Statuses, Queue
  <2>2. /\ wrapper' \in Wrapper
        /\ wrapper'.pc = "begin" /\ wrapper'.attempt = NoAttempt
    <3>1. wrapper' = [NoWrapper EXCEPT !.pc = "begin"]
      BY <1>1 DEF TaskStart
    <3>2. wrapper' \in Wrapper /\ wrapper'.pc = "begin"
      BY <3>1, NoWrapperType DEF Wrapper, WrapperPcs
    <3> QED BY <3>1, <3>2 DEF NoWrapper
  <2>3. TypeOK'
    BY <1>1, <2>1, <2>2 DEF TaskStart, TypeOK, unitVars, fileVars, operatorVars
  <2> QED
    BY <1>1, <2>1, <2>2, <2>3
    DEF TaskStart, TypeOK, Task, Queue, Numbers, fileVars, operatorVars
<1>2. ASSUME wrapper.pc # "none", task' = [task EXCEPT !.status = "Done"],
             wrapper' = NoWrapper, UNCHANGED <<attempts, retrying>>
      PROVE  task' \in Task /\ wrapper' \in Wrapper /\ Queue' /\ Numbers'
  BY <1>2, NoWrapperType DEF TypeOK, Task, Statuses, Queue, Numbers, NoWrapper
<1>3. CASE TaskReap
  BY <1>2, <1>3 DEF TaskReap, TypeOK, unitVars, fileVars, operatorVars
<1>4. CASE WrapperKilled
  BY <1>2, <1>4
  DEF WrapperKilled, KillWrapper, WrapperAlive, TypeOK, unitVars, fileVars, operatorVars
<1>5. CASE PayloadEnds
  <2>1. unit' \in Unit /\ execution' \in [Attempt -> Results \cup {"none", "stopped"}]
    <3>1. PICK result \in {"success", "failed"} :
            /\ unit' = [unit EXCEPT !.result = result,
                          !.state = IF result = "success" THEN "exited" ELSE "failed"]
            /\ execution' = [execution EXCEPT ![unit.attempt] = result]
      BY <1>5 DEF PayloadEnds
    <3>2. execution' \in [Attempt -> Results \cup {"none", "stopped"}]
      BY <3>1 DEF TypeOK, Results
    <3> QED BY <3>1, <3>2 DEF TypeOK, Unit, Results
  <2> QED BY <1>5, <2>1, ApartInv DEF PayloadEnds, TypeOK, fileVars, operatorVars
<1>6. CASE RuntimeExpires
  <2>1. unit' \in Unit /\ execution' \in [Attempt -> Results \cup {"none", "stopped"}]
    BY <1>6 DEF RuntimeExpires, TypeOK, Unit, Results
  <2> QED BY <1>6, <2>1, ApartInv
          DEF RuntimeExpires, Leftovers, TypeOK, fileVars, operatorVars
<1>7. CASE UnitUnloads
  <2>1. unit' \in Unit
    BY <1>7, MaxRunsAssumption DEF UnitUnloads, NoUnit, Unit, NoAttempt
  <2> QED BY <1>7, <2>1, ApartInv DEF UnitUnloads, TypeOK, fileVars, operatorVars
<1>8. CASE SurvivorsExit
  BY <1>8, ApartInv DEF SurvivorsExit, TypeOK, fileVars, operatorVars
<1> QED BY <1>1, <1>3, <1>4, <1>5, <1>6, <1>7, <1>8 DEF Environment

\* Steps of `job retry` and `job clean`.
LEMMA OperatorInv ==
  ASSUME Inv, Operator
  PROVE  Inv'
<1> USE DEF Inv
<1>1. CASE RetryChecks
  BY <1>1 DEF RetryChecks, TypeOK, Queue, Numbers, unitVars, fileVars
<1>2. CASE RetryClears
  BY <1>2, NoDispositionType DEF RetryClears, TypeOK, Queue, Numbers, unitVars
<1>3. CASE RetryRestarts
  <2>1. \/ task' = task
        \/ /\ task' \in Task /\ task'.run = task.run
           /\ task.status = "Done" /\ task'.status = "Queued"
    BY <1>3 DEF RetryRestarts, TypeOK, Task, Statuses
  <2> QED BY <1>3, <2>1 DEF RetryRestarts, TypeOK, Queue, Numbers, unitVars, fileVars
<1>4. CASE CleanChecks
  BY <1>4, ApartInv DEF CleanChecks, TypeOK, unitVars, fileVars
<1>5. CASE CleanRemoves
  <2>1. /\ task' \in Task /\ task'.run = task.run
        /\ \/ task'.status = task.status
           \/ task.status # "Running" /\ task'.status = "Gone"
    <3>1. \/ task.status # "Running" /\ task' = [task EXCEPT !.status = "Gone"]
          \/ task' = task
      BY <1>5 DEF CleanRemoves
    <3>2. CASE task.status # "Running" /\ task' = [task EXCEPT !.status = "Gone"]
      BY <3>2 DEF TypeOK, Task, Statuses
    <3>3. CASE task' = task
      BY <3>3 DEF TypeOK
    <3> QED BY <3>1, <3>2, <3>3
  <2>2. cleaning' \in {"idle", "removed"}
    BY <1>5 DEF CleanRemoves, MayFail
  <2> QED BY <1>5, <2>1, <2>2 DEF CleanRemoves, TypeOK, Queue, Numbers, unitVars, fileVars
<1>6. CASE CleanUnmarks
  BY <1>6, ApartInv, MaxRunsAssumption DEF CleanUnmarks, TypeOK, NoAttempt, unitVars
<1> QED BY <1>1, <1>2, <1>3, <1>4, <1>5, <1>6 DEF Operator

-----------------------------------------------------------------------------
(* Steps of `job cancel`.                                                  *)

Locks == {"free", "wrapper"} \cup Cancellers

LEMMA CancelGoesType ==
  ASSUME TypeOK, NEW c \in Cancellers, NEW from, NEW to \in CancelPcs,
         CancelGoes(c, from, to)
  PROVE  cancel' \in [Cancellers -> Canceller]
  BY DEF TypeOK, CancelGoes, Canceller

\* The other ways an action changes the record of a call.
LEMMA ResultType ==
  ASSUME TypeOK, NEW c \in Cancellers, NEW pc \in CancelPcs,
         NEW result \in CancelResults,
         cancel' = [cancel EXCEPT ![c].pc = pc, ![c].result = result]
  PROVE  cancel' \in [Cancellers -> Canceller]
<1>1. cancel[c] \in Canceller
  BY DEF TypeOK
<1>2. [cancel[c] EXCEPT !.pc = pc, !.result = result] \in Canceller
  BY <1>1 DEF Canceller
<1> QED BY <1>2 DEF TypeOK

LEMMA RunType ==
  ASSUME TypeOK, NEW c \in Cancellers, NEW pc \in CancelPcs,
         NEW run \in 0..MaxRuns,
         cancel' = [cancel EXCEPT ![c].pc = pc, ![c].run = run]
  PROVE  cancel' \in [Cancellers -> Canceller]
<1>1. cancel[c] \in Canceller
  BY DEF TypeOK
<1>2. [cancel[c] EXCEPT !.pc = pc, !.run = run] \in Canceller
  BY <1>1 DEF Canceller
<1> QED BY <1>2 DEF TypeOK

LEMMA AttemptType ==
  ASSUME TypeOK, NEW c \in Cancellers, NEW pc \in CancelPcs,
         NEW attempt \in 0..MaxRuns + 1,
         cancel' = [cancel EXCEPT ![c].pc = pc, ![c].attempt = attempt]
  PROVE  cancel' \in [Cancellers -> Canceller]
<1>1. cancel[c] \in Canceller
  BY DEF TypeOK
<1>2. [cancel[c] EXCEPT !.pc = pc, !.attempt = attempt] \in Canceller
  BY <1>1 DEF Canceller
<1> QED BY <1>2 DEF TypeOK

LEMMA CgroupType ==
  ASSUME TypeOK, NEW c \in Cancellers, NEW pc \in CancelPcs,
         NEW cgroup \in Cgroups,
         cancel' = [cancel EXCEPT ![c].pc = pc, ![c].cgroup = cgroup]
  PROVE  cancel' \in [Cancellers -> Canceller]
<1>1. cancel[c] \in Canceller
  BY DEF TypeOK
<1>2. [cancel[c] EXCEPT !.pc = pc, !.cgroup = cgroup] \in Canceller
  BY <1>1 DEF Canceller
<1> QED BY <1>2 DEF TypeOK

LEMMA ObservedType ==
  ASSUME TypeOK, NEW c \in Cancellers, NEW pc \in CancelPcs,
         NEW cgroup \in Cgroups, NEW result \in CancelResults,
         cancel' = [cancel EXCEPT ![c].pc = pc, ![c].cgroup = cgroup,
                                   ![c].result = result]
  PROVE  cancel' \in [Cancellers -> Canceller]
<1>1. cancel[c] \in Canceller
  BY DEF TypeOK
<1>2. [cancel[c] EXCEPT !.pc = pc, !.cgroup = cgroup, !.result = result] \in Canceller
  BY <1>1 DEF Canceller
<1> QED BY <1>2 DEF TypeOK

LEMMA ReturnsType ==
  ASSUME TypeOK, NEW c \in Cancellers, NEW result \in CancelResults,
         Returns(c, result)
  PROVE  cancel' \in [Cancellers -> Canceller] /\ allocation' \in Locks
<1>1. "done" \in CancelPcs
  BY DEF CancelPcs
<1>2. cancel' \in [Cancellers -> Canceller]
  BY <1>1, ResultType DEF Returns
<1> QED BY <1>2 DEF TypeOK, Returns, Locks

LEMMA EntersType ==
  ASSUME TypeOK, NEW c \in Cancellers, Enters(c)
  PROVE  allocation' \in Locks
  BY DEF Enters, Locks

LEMMA ActiveAttemptType ==
  ASSUME TypeOK
  PROVE  ActiveAttempt \in 0..MaxRuns + 1
  BY MaxRunsAssumption DEF TypeOK, ActiveAttempt

\* A guarded call names an attempt it has seen, so does an unguarded one.
LEMMA CancelInv ==
  ASSUME Inv, NEW c \in Cancellers, CancelCall(c) \/ CancelStep(c) \/ CancelBreaksOff(c)
  PROVE  Inv'
<1> USE DEF Inv
<1>1. CASE CancelCall(c)
  <2>1. cancel' \in [Cancellers -> Canceller]
    BY <1>1, CancelGoesType, MaxRunsAssumption
    DEF CancelCall, TypeOK, Canceller, CancelPcs
  <2> QED BY <1>1, <2>1, ApartInv DEF CancelCall, TypeOK, Locks, unitVars, fileVars, operatorVars
<1>2. CASE CancelCompares(c)
  <2>1. cancel' \in [Cancellers -> Canceller] /\ allocation' \in Locks
    BY <1>2, CancelGoesType, ReturnsType DEF CancelCompares, CancelPcs, CancelResults, Locks
  <2> QED BY <1>2, <2>1, ApartInv DEF CancelCompares, TypeOK, Locks, unitVars, fileVars, operatorVars
<1>3. CASE CancelReads(c)
  <2>1. CASE \E r \in {"gone", "terminal", "incomplete"} : Returns(c, r)
    BY <1>3, <2>1, ReturnsType, ApartInv
    DEF CancelReads, CancelResults, TypeOK, Locks, unitVars, fileVars, operatorVars
  <2>2. CASE CancelGoes(c, "read", "intent") /\ UNCHANGED allocation
    BY <1>3, <2>2, CancelGoesType, ApartInv
    DEF CancelReads, CancelPcs, TypeOK, unitVars, fileVars, operatorVars
  <2>3. CASE /\ cancel' = [cancel EXCEPT ![c].pc = "mark", ![c].run = task.run]
             /\ UNCHANGED allocation
    <3>1. cancel' \in [Cancellers -> Canceller]
      BY <2>3, RunType DEF TypeOK, Task, CancelPcs
    <3> QED BY <1>3, <2>3, <3>1, ApartInv
            DEF CancelReads, TypeOK, unitVars, fileVars, operatorVars
  <2> QED BY <1>3, <2>1, <2>2, <2>3 DEF CancelReads, TypeOK, Task, Statuses
<1>4. CASE CancelIntends(c)
  <2>1. cancel' \in [Cancellers -> Canceller]
    BY <1>4, CancelGoesType DEF CancelIntends, CancelPcs
  <2>2. disposition' \in Disposition
    BY <1>4, NoDispositionType DEF CancelIntends, DispositionKinds
  <2>3. requests' \subseteq 0..MaxRuns + 1
    BY <1>4, MaxRunsAssumption DEF CancelIntends, TypeOK
  <2> QED BY <1>4, <2>1, <2>2, <2>3, ApartInv DEF CancelIntends, TypeOK, Locks, unitVars, fileVars, operatorVars
<1>5. CASE CancelMarksQueued(c)
  <2>1. cancel' \in [Cancellers -> Canceller]
    BY <1>5, ActiveAttemptType, AttemptType DEF CancelMarksQueued, CancelPcs
  <2>2. allocation' \in Locks
    BY <1>5, EntersType DEF CancelMarksQueued
  <2>3. marker' \in 0..MaxRuns + 1
    BY <1>5, ActiveAttemptType DEF CancelMarksQueued
  <2> QED BY <1>5, <2>1, <2>2, <2>3, ApartInv DEF CancelMarksQueued, TypeOK, Locks, unitVars, fileVars, operatorVars
<1>6. CASE CancelRereadsQueued(c)
  <2>1. cancel' \in [Cancellers -> Canceller] /\ allocation' \in Locks
       /\ disposition' \in Disposition
    BY <1>6, CancelGoesType, ReturnsType, NoDispositionType
    DEF CancelRereadsQueued, CancelUnresolved, Exits, TypeOK, CancelPcs, CancelResults,
        DispositionKinds, Locks
  <2> QED BY <1>6, <2>1, ApartInv DEF CancelRereadsQueued, TypeOK, Locks, unitVars, fileVars, operatorVars
<1>7. CASE CancelRemoves(c)
  <2>1. cancel' \in [Cancellers -> Canceller] /\ allocation' \in Locks
       /\ disposition' \in Disposition
    BY <1>7, CancelGoesType, ReturnsType, NoDispositionType
    DEF CancelRemoves, CancelUnresolved, Exits, TypeOK, CancelPcs, CancelResults,
        DispositionKinds, Locks
  <2>2. /\ task' \in Task /\ task'.run = task.run
       /\ \/ task'.status = task.status
          \/ task.status # "Running" /\ task'.status = "Gone"
    BY <1>7 DEF CancelRemoves, TypeOK, Task, Statuses
  <2> QED BY <1>7, <2>1, <2>2, ApartInv DEF CancelRemoves, TypeOK, Locks, unitVars, fileVars, operatorVars, Queue, Numbers
<1>8. CASE CancelConfirms(c)
  <2>1. cancel' \in [Cancellers -> Canceller] /\ allocation' \in Locks
    BY <1>8, ReturnsType DEF CancelConfirms, CancelResults
  <2>2. disposition' \in Disposition
    BY <1>8, NoDispositionType DEF CancelConfirms, DispositionKinds
  <2>3. marker' \in 0..MaxRuns + 1
    BY <1>8, MaxRunsAssumption DEF CancelConfirms, TypeOK, NoAttempt
  <2> QED BY <1>8, <2>1, <2>2, <2>3, ApartInv DEF CancelConfirms, TypeOK, Locks, unitVars, fileVars, operatorVars
<1>9. CASE CancelRereads(c)
  <2>1. cancel' \in [Cancellers -> Canceller] /\ allocation' \in Locks
    BY <1>9, ReturnsType, MaxRunsAssumption
    DEF CancelRereads, StartedAt, TypeOK, Task, Canceller, CancelPcs, CancelResults, Locks
  <2> QED BY <1>9, <2>1, ApartInv DEF CancelRereads, TypeOK, Locks, unitVars, fileVars, operatorVars
<1>10. CASE CancelMarks(c)
  <2>1. (IF c \in Guarded THEN cancel[c].expected ELSE ActiveAttempt) \in 0..MaxRuns + 1
    BY ActiveAttemptType, MaxRunsAssumption DEF TypeOK, Canceller
  <2>2. cancel' \in [Cancellers -> Canceller]
    BY <1>10, <2>1, AttemptType DEF CancelMarks, CancelPcs
  <2>3. allocation' \in Locks
    BY <1>10, EntersType DEF CancelMarks
  <2>4. marker' \in 0..MaxRuns + 1 /\ requests' \subseteq 0..MaxRuns + 1
    BY <1>10, <2>1 DEF CancelMarks, TypeOK
  <2> QED BY <1>10, <2>1, <2>2, <2>3, <2>4, ApartInv DEF CancelMarks, TypeOK, Locks, unitVars, fileVars, operatorVars
<1>11. CASE CancelCaptures(c)
  <2>1. PICK cgroup \in Cgroups :
         /\ disposition' = [kind |-> "incomplete", cgroup |-> cgroup,
                            attempt |-> cancel[c].attempt]
         /\ cancel' = [cancel EXCEPT ![c].pc = "stop", ![c].cgroup = cgroup]
    BY <1>11 DEF CancelCaptures, UnitCgroup, MayFail, Cgroups
  <2>2. cancel' \in [Cancellers -> Canceller]
    BY <2>1, CgroupType DEF CancelPcs
  <2>3. disposition' \in Disposition
    BY <2>1 DEF TypeOK, Canceller, Disposition, DispositionKinds
  <2> QED BY <1>11, <2>1, <2>2, <2>3, ApartInv DEF CancelCaptures, TypeOK, Locks, unitVars, fileVars, operatorVars
<1>12. CASE CancelStops(c)
  <2>1. cancel' \in [Cancellers -> Canceller]
    BY <1>12, CancelGoesType DEF CancelStops, CancelPcs
  <2>2. unit' \in Unit /\ members' \subseteq Attempt
       /\ execution' \in [Attempt -> Results \cup {"none", "stopped"}]
    BY <1>12, StopResultsType DEF CancelStops, Leave
  <2> QED BY <1>12, <2>1, <2>2, ApartInv DEF CancelStops, TypeOK, Locks, unitVars, fileVars, operatorVars
<1>13. CASE CancelSettles(c)
  <2>1. cancel' \in [Cancellers -> Canceller]
    BY <1>13, CancelGoesType DEF CancelSettles, CancelPcs
  <2> QED BY <1>13, <2>1, ApartInv DEF CancelSettles, TypeOK, Locks, unitVars, fileVars, operatorVars
<1>14. CASE CancelEscalates(c)
  <2>1. cancel' \in [Cancellers -> Canceller] /\ allocation' \in Locks
    BY <1>14, CancelGoesType, ReturnsType
    DEF CancelEscalates, TypeOK, CancelPcs, CancelResults, Locks
  <2> QED BY <1>14, <2>1, ApartInv DEF CancelEscalates, TypeOK, Locks, unitVars, fileVars, operatorVars
<1>15. CASE CancelKills(c)
  <2>1. cancel' \in [Cancellers -> Canceller]
    BY <1>15, CancelGoesType DEF CancelKills, CancelPcs
  <2>2. allocation' \in Locks
    BY <1>15 DEF CancelKills, TypeOK, Locks
  <2>3. CASE KillWrapper
    <3>1. task' \in Task /\ wrapper' \in Wrapper /\ Queue' /\ Numbers'
      BY <1>15, <2>3, NoWrapperType
      DEF CancelKills, KillWrapper, WrapperAlive, TypeOK, Task, Statuses, Queue,
          Numbers, NoWrapper, fileVars, operatorVars
    <3> QED BY <1>15, <2>1, <2>2, <3>1
            DEF CancelKills, TypeOK, Locks, unitVars, fileVars, operatorVars
  <2>4. CASE UNCHANGED <<task, wrapper>>
    BY <1>15, <2>1, <2>2, <2>4, ApartInv
    DEF CancelKills, TypeOK, Locks, unitVars, fileVars, operatorVars
  <2> QED BY <1>15, <2>3, <2>4 DEF CancelKills
<1>16. CASE CancelObserves(c)
  <2>1. PICK cgroup \in Cgroups, result \in {"stopped", "incomplete"} :
         cancel' = [cancel EXCEPT ![c].pc = "report", ![c].cgroup = cgroup,
                                  ![c].result = result]
    BY <1>16 DEF CancelObserves, Observations, UnitCgroup, MayFail, Cgroups
  <2>2. cancel' \in [Cancellers -> Canceller]
    BY <2>1, ObservedType DEF CancelPcs, CancelResults
  <2> QED BY <1>16, <2>1, <2>2, ApartInv DEF CancelObserves, TypeOK, Locks, unitVars, fileVars, operatorVars
<1>17. CASE CancelReports(c)
  <2>1. cancel' \in [Cancellers -> Canceller] /\ allocation' \in Locks
    BY <1>17, ReturnsType DEF CancelReports, TypeOK, Canceller
  <2>2. disposition' \in Disposition
    BY <1>17 DEF CancelReports, TypeOK, Canceller, Disposition, DispositionKinds
  <2> QED BY <1>17, <2>1, <2>2, ApartInv DEF CancelReports, TypeOK, Locks, unitVars, fileVars, operatorVars
<1>18. CASE CancelBreaksOff(c)
  <2>1. cancel' \in [Cancellers -> Canceller] /\ allocation' \in Locks
    BY <1>18, ReturnsType DEF CancelBreaksOff, CancelUnanswered, CancellerDies, CancelResults
  <2> QED BY <1>18, <2>1, ApartInv DEF CancelBreaksOff, CancelUnanswered, CancellerDies, TypeOK, Locks, unitVars, fileVars, operatorVars
<1> QED BY <1>1, <1>2, <1>3, <1>4, <1>5, <1>6, <1>7, <1>8, <1>9, <1>10, <1>11, <1>12, <1>13, <1>14, <1>15, <1>16, <1>17, <1>18
  DEF CancelStep

-----------------------------------------------------------------------------
(* Type correctness.                                                       *)

LEMMA NextInv ==
  ASSUME Inv, [Next]_vars
  PROVE  Inv'
<1>1. CASE UNCHANGED vars
  BY <1>1 DEF Inv, TypeOK, Queue, Numbers, vars, unitVars, fileVars, operatorVars
<1>2. CASE AtRest
  BY <1>1, <1>2 DEF AtRest
<1>3. ASSUME NEW c \in Cancellers,
             CancelCall(c) \/ CancelStep(c) \/ CancelBreaksOff(c)
      PROVE  Inv'
  BY <1>3, CancelInv
<1> QED BY <1>1, <1>2, <1>3, EnvironmentInv, WrapperInv, OperatorInv DEF Next

LEMMA SpecInv == Spec => []Inv
  BY InitInv, NextInv, PTL DEF Spec

\* Whatever the bounds and the faults, the state keeps its types: no start,
\* attempt or marker ever leaves the range the starts of the task allow.
THEOREM TypeCorrect == Spec => []TypeOK
<1>1. Inv => TypeOK
  BY DEF Inv
<1> QED BY SpecInv, <1>1, PTL

-----------------------------------------------------------------------------
(* What the steps of each process leave alone.                             *)

\* Where a wrapper has not started its unit yet, or may start it again.
Undispatched ==
  {"begin", "prepare", "check", "admit", "claim", "dispatch", "backoff"}

LEMMA StopResultsShrink ==
  ASSUME NEW s \in StopResults
  PROVE  s.members \subseteq members
<1>1. CASE unit.state = "active"
  BY <1>1 DEF StopResults, Halted, Leftovers, MayFail
<1>2. CASE unit.state = "exited"
  BY <1>2 DEF StopResults, MayFail
<1>3. CASE unit.state \notin {"active", "exited"}
  BY <1>3 DEF StopResults
<1> QED BY <1>1, <1>2, <1>3

LEMMA ReleasesShrink ==
  ASSUME NEW r \in Releases
  PROVE  r.members \subseteq members
  BY StopResultsShrink DEF Releases

\* Steps of the wrapper other than these three start no process and leave the
\* record of the cgroup alone.
LEMMA WrapperKeeps ==
  ASSUME Inv, WrapperStep, ~WrapperBegin, ~WrapperClaims, ~WrapperDispatches
  PROVE  /\ members' \subseteq members
         /\ UNCHANGED <<task, attempts, disposition, cancel, operatorVars>>
         /\ wrapper'.pc # "dispatch"
         /\ wrapper.pc \in Undispatched \/ wrapper'.pc \notin Undispatched
<1>1. wrapper \in Wrapper
  BY DEF Inv, TypeOK
<1> USE DEF Undispatched
<1>2. CASE WrapperAdmits
  BY <1>1, <1>2, StopResultsShrink DEF WrapperAdmits, Leave, Wrapper, unitVars, fileVars
<1>3. CASE WrapperReleases
  BY <1>1, <1>3, ReleasesShrink DEF WrapperReleases, Leave, Wrapper, fileVars
<1>4. CASE WrapperCleansUp
  <2>1. UNCHANGED <<task, attempts, disposition, cancel, operatorVars>>
    BY <1>4 DEF WrapperCleansUp
  <2>2. members' \subseteq members
    BY <1>4, ReleasesShrink DEF WrapperCleansUp, Leave
  <2>3. wrapper.pc = "cleanup" /\ wrapper'.pc \in {"publish", "exited"}
    BY <1>1, <1>4 DEF WrapperCleansUp, Wrapper
  <2> QED BY <2>1, <2>2, <2>3
<1>5. CASE WrapperRefusesEarly \/ WrapperPrepares \/ WrapperChecks
           \/ WrapperTurnedAway \/ WrapperCannotClaim
  BY <1>1, <1>5
  DEF WrapperRefusesEarly, WrapperPrepares, WrapperChecks, WrapperTurnedAway,
      WrapperCannotClaim, WrapperGoes, WrapperConcludes, Wrapper, unitVars, fileVars
<1>6. CASE WrapperRejected \/ WrapperBacksOff
  BY <1>1, <1>6 DEF WrapperRejected, WrapperBacksOff, WrapperGoes,
                    WrapperConcludes, Wrapper, unitVars, fileVars
<1>7. CASE WrapperSnapshots \/ WrapperAwaits \/ WrapperClassifies
  BY <1>1, <1>7 DEF WrapperSnapshots, WrapperAwaits, WrapperClassifies,
                    WrapperGoes, WrapperConcludes, Wrapper, unitVars, fileVars
<1>8. CASE WrapperFinishes \/ WrapperPublishes
  BY <1>1, <1>8 DEF WrapperFinishes, WrapperPublishes, WrapperGoes, Wrapper,
                    unitVars, fileVars
<1> QED BY <1>2, <1>3, <1>4, <1>5, <1>6, <1>7, <1>8 DEF WrapperStep

\* A wrapper that takes a step is there to take it.
LEMMA StepRuns ==
  ASSUME WrapperStep
  PROVE  wrapper.pc \notin {"none", "exited"}
  BY DEF WrapperStep, WrapperBegin, WrapperRefusesEarly, WrapperPrepares,
    WrapperChecks, WrapperTurnedAway, WrapperAdmits, WrapperClaims,
    WrapperCannotClaim, WrapperDispatches, WrapperRejected, WrapperBacksOff,
    WrapperSnapshots, WrapperAwaits, WrapperClassifies, WrapperReleases,
    WrapperFinishes, WrapperCleansUp, WrapperPublishes, WrapperGoes, WrapperConcludes

\* A call of cancel publishes no outcome and works for itself; of a wrapper
\* it can make no more than a dead one, and of a task no new start.
LEMMA CallsLeave ==
  ASSUME Inv, NEW c \in Cancellers,
         CancelCall(c) \/ CancelStep(c) \/ CancelBreaksOff(c)
  PROVE  /\ UNCHANGED <<attempts, outcome, scratch, operatorVars>>
         /\ UNCHANGED wrapper \/ wrapper' = NoWrapper
         /\ \A d \in Cancellers \ {c} : cancel'[d] = cancel[d]
         /\ task'.run = task.run
         /\ \/ task'.status \in {task.status, "Gone"}
            \/ task.status = "Running" /\ task'.status = "Done"
<1>1. cancel \in [Cancellers -> Canceller] /\ task \in Task
  BY DEF Inv, TypeOK
<1>2. /\ UNCHANGED <<attempts, outcome, scratch>>
      /\ UNCHANGED wrapper \/ wrapper' = NoWrapper
  BY DEF CancelStep, CancelCall, CancelCompares, CancelReads, CancelIntends,
    CancelMarksQueued, CancelRereadsQueued, CancelRemoves, CancelConfirms,
    CancelRereads, CancelMarks, CancelCaptures, CancelStops, CancelSettles,
    CancelEscalates, CancelKills, KillWrapper, CancelObserves, CancelReports,
    CancelBreaksOff, CancelUnanswered, CancellerDies, fileVars
<1>3. UNCHANGED operatorVars
  BY DEF CancelStep, CancelCall, CancelCompares, CancelReads, CancelIntends,
    CancelMarksQueued, CancelRereadsQueued, CancelRemoves, CancelConfirms,
    CancelRereads, CancelMarks, CancelCaptures, CancelStops, CancelSettles,
    CancelEscalates, CancelKills, CancelObserves, CancelReports, CancelBreaksOff, CancelUnanswered, CancellerDies
<1>4. \A d \in Cancellers \ {c} : cancel'[d] = cancel[d]
  BY <1>1 DEF CancelStep, CancelCall, CancelCompares, CancelReads, CancelIntends,
    CancelMarksQueued, CancelRereadsQueued, CancelRemoves, CancelConfirms,
    CancelRereads, CancelMarks, CancelCaptures, CancelStops, CancelSettles,
    CancelEscalates, CancelKills, CancelObserves, CancelReports, CancelBreaksOff, CancelUnanswered, CancellerDies,
    CancelGoes, Returns, CancelUnresolved, Task, Statuses
<1>5. /\ task'.run = task.run
      /\ \/ task'.status \in {task.status, "Gone"}
         \/ task.status = "Running" /\ task'.status = "Done"
  <2>1. CASE CancelRemoves(c)
    BY <1>1, <2>1 DEF CancelRemoves, Task
  <2>2. CASE CancelKills(c)
    BY <1>1, <2>2 DEF CancelKills, KillWrapper, WrapperAlive, Task, Inv, Queue
  <2>3. CASE ~CancelRemoves(c) /\ ~CancelKills(c)
    BY <2>3 DEF CancelStep, CancelCall, CancelCompares, CancelReads, CancelIntends,
      CancelMarksQueued, CancelRereadsQueued, CancelConfirms, CancelRereads,
      CancelMarks, CancelCaptures, CancelStops, CancelSettles, CancelEscalates,
      CancelObserves, CancelReports, CancelBreaksOff, CancelUnanswered, CancellerDies
  <2> QED BY <2>1, <2>2, <2>3
<1> QED BY <1>2, <1>3, <1>4, <1>5

-----------------------------------------------------------------------------
(* Outcomes.                                                               *)

\* Attempts not yet allocated have no outcome, nor has the attempt of a
\* wrapper that may still publish; one that cleans up after publishing goes
\* on to exit.
Unpublished ==
  /\ \A n \in Attempt : n > attempts => outcome[n] = "none"
  /\ wrapper.pc \notin {"none", "begin", "cleanup", "exited"}
       => outcome[wrapper.attempt] = "none"

OutcomeStep ==
  \A n \in Attempt : outcome[n] # "none" => outcome'[n] = outcome[n]

LEMMA InitUnpublished == Init => Unpublished
  BY DEF Init, Unpublished, NoWrapper

\* A step that leaves the outcomes, the attempts and the wrapper's attempt
\* alone, and does not bring the wrapper back from its last steps.
LEMMA KeepsUnpublished ==
  ASSUME Inv, Unpublished, UNCHANGED <<outcome, attempts>>,
         \/ UNCHANGED wrapper
         \/ wrapper' = NoWrapper
         \/ wrapper'.pc = "begin"
         \/ Onward /\ wrapper.pc \notin {"cleanup", "exited"}
  PROVE  Unpublished' /\ OutcomeStep
  BY DEF Unpublished, OutcomeStep, Onward, NoWrapper

LEMMA NextUnpublished ==
  ASSUME Inv, Unpublished, [Next]_vars
  PROVE  Unpublished' /\ OutcomeStep
<1>1. CASE WrapperBegin
  <2>1. /\ wrapper' = [wrapper EXCEPT !.pc = "prepare", !.attempt = attempts + 1]
        /\ attempts' = attempts + 1 /\ outcome' = outcome
        /\ attempts \in 0..MaxRuns /\ wrapper \in Wrapper
    BY <1>1 DEF WrapperBegin, Inv, TypeOK
  <2>2. attempts + 1 \in Attempt
    BY <1>1, MaxRunsAssumption DEF WrapperBegin, Inv, TypeOK, Task, Numbers, Attempt
  <2>3. wrapper'.attempt = attempts + 1
    BY <2>1 DEF Wrapper
  <2> QED BY <2>1, <2>2, <2>3, MaxRunsAssumption
          DEF Unpublished, OutcomeStep, Attempt
<1>2. CASE WrapperPublishes
  <2>1. wrapper.pc = "publish" /\ wrapper'.pc \in {"cleanup", "exited"}
    BY <1>2 DEF WrapperPublishes, WrapperGoes, Inv, TypeOK, Wrapper
  <2>2. wrapper.attempt = attempts /\ attempts \in Attempt
    BY <2>1 DEF Inv, Numbers
  <2> QED BY <1>2, <2>1, <2>2, MaxRunsAssumption
          DEF WrapperPublishes, Unpublished, OutcomeStep, Inv, TypeOK, Attempt
<1>3. CASE WrapperCleansUp
  <2>1. /\ wrapper.pc = "cleanup" /\ UNCHANGED <<outcome, attempts>>
        /\ wrapper'.attempt = wrapper.attempt
        /\ wrapper'.pc = IF outcome[wrapper.attempt] = "none"
                         THEN "publish" ELSE "exited"
    BY <1>3 DEF WrapperCleansUp, Inv, TypeOK, Wrapper
  <2> QED BY <2>1 DEF Unpublished, OutcomeStep
<1>4. CASE WrapperStep /\ ~WrapperBegin /\ ~WrapperPublishes /\ ~WrapperCleansUp
  <2>1. Onward
    BY <1>4, StepOnward
  <2>2. /\ UNCHANGED <<outcome, attempts>>
        /\ wrapper.pc \notin {"cleanup", "exited"}
    BY <1>4 DEF WrapperStep, WrapperRefusesEarly, WrapperPrepares, WrapperChecks,
      WrapperTurnedAway, WrapperAdmits, WrapperClaims, WrapperCannotClaim,
      WrapperDispatches, WrapperRejected, WrapperBacksOff, WrapperSnapshots,
      WrapperAwaits, WrapperClassifies, WrapperReleases, WrapperFinishes,
      WrapperGoes, WrapperConcludes, fileVars
  <2> QED BY <2>1, <2>2, KeepsUnpublished
<1>5. CASE Environment
  <2>1. /\ UNCHANGED <<outcome, attempts>>
        /\ UNCHANGED wrapper \/ wrapper' = NoWrapper \/ wrapper'.pc = "begin"
    BY <1>5 DEF Environment, TaskStart, TaskReap, WrapperKilled, KillWrapper,
      PayloadEnds, RuntimeExpires, UnitUnloads, SurvivorsExit, fileVars, NoWrapper
  <2> QED BY <2>1, KeepsUnpublished
<1>6. CASE Operator \/ AtRest \/ UNCHANGED vars
  <2>1. UNCHANGED <<outcome, attempts, wrapper>>
    BY <1>6 DEF Operator, RetryChecks, RetryClears, RetryRestarts, CleanChecks,
      CleanRemoves, CleanUnmarks, AtRest, vars, fileVars
  <2> QED BY <2>1, KeepsUnpublished
<1>7. ASSUME NEW c \in Cancellers, CancelCall(c) \/ CancelStep(c) \/ CancelBreaksOff(c)
      PROVE  Unpublished' /\ OutcomeStep
  <2>1. /\ UNCHANGED <<outcome, attempts>>
        /\ UNCHANGED wrapper \/ wrapper' = NoWrapper
    BY <1>7, CallsLeave
  <2> QED BY <2>1, KeepsUnpublished
<1> QED BY <1>1, <1>2, <1>3, <1>4, <1>5, <1>6, <1>7 DEF Next

\* An outcome, once published, is the outcome of that attempt for ever, in
\* whatever order wrappers, commands and faults come.
THEOREM OutcomesStable == Spec => OutcomeStable
<1>1. Init => Inv /\ Unpublished
  BY InitInv, InitUnpublished
<1>2. Inv /\ Unpublished /\ [Next]_vars => Inv' /\ Unpublished' /\ [OutcomeStep]_vars
  BY NextInv, NextUnpublished
<1> QED BY <1>1, <1>2, PTL DEF Spec, OutcomeStable, OutcomeStep

-----------------------------------------------------------------------------
(* The allocation lock.                                                    *)

\* Where a call of cancel is inside a critical section.
LockedPcs(c) ==
  IF c \in Guarded
  THEN {"read", "intent", "mark_queued", "reread_queued", "remove", "confirm",
        "reread", "mark", "capture", "stop", "kill"}
  ELSE {"reread_queued", "remove", "confirm", "capture", "stop"}
Holds(c) == cancel[c].pc \in LockedPcs(c)

\* Whoever is in a critical section holds the lock, and while a guarded call
\* is in one, the newest attempt is the one it names.
Exclusion ==
  /\ wrapper.pc = "dispatch" => allocation = "wrapper"
  /\ \A c \in Cancellers : Holds(c) => allocation = c
  /\ \A c \in Guarded : Holds(c) => attempts = cancel[c].expected

LEMMA InitExclusion == Init => Exclusion
  BY CancellersAssumption
  DEF Init, Exclusion, Holds, LockedPcs, NoWrapper, IdleCanceller

\* A step that keeps the calls and hands no held lock on.
LEMMA KeepsExclusion ==
  ASSUME Inv, Exclusion, UNCHANGED cancel,
         \/ UNCHANGED <<allocation, attempts>>
         \/ allocation \in {"free", "wrapper"},
         wrapper'.pc = "dispatch" => allocation' = "wrapper"
  PROVE  Exclusion'
  BY CancellersAssumption DEF Exclusion, Holds, LockedPcs

\* What a step of one call does to the lock and to the other calls.
LockStep(c) ==
  /\ \A d \in Cancellers \ {c} : cancel'[d] = cancel[d]
  /\ attempts' = attempts
  /\ wrapper'.pc = "dispatch" => wrapper.pc = "dispatch"
  /\ \/ allocation' = allocation
     \/ allocation \in {"free", c}
     \/ allocation = "wrapper" /\ wrapper'.pc # "dispatch"
  /\ Holds(c)' => allocation' = c
  /\ c \in Guarded /\ Holds(c)' => attempts = cancel'[c].expected

LEMMA LockStepExclusion ==
  ASSUME Inv, Exclusion, NEW c \in Cancellers, LockStep(c)
  PROVE  Exclusion'
<1>1. wrapper'.pc = "dispatch" => allocation' = "wrapper"
  BY CancellersAssumption DEF LockStep, Exclusion
<1>2. ASSUME NEW d \in Cancellers, Holds(d)'
      PROVE  /\ allocation' = d
             /\ d \in Guarded => attempts' = cancel'[d].expected
  <2>1. CASE d = c
    BY <1>2, <2>1 DEF LockStep
  <2>2. CASE d # c
    <3>1. Holds(d) /\ cancel'[d] = cancel[d]
      BY <1>2, <2>2 DEF LockStep, Holds, LockedPcs
    <3> QED BY <2>2, <3>1, CancellersAssumption DEF LockStep, Exclusion
  <2> QED BY <2>1, <2>2
<1> QED BY <1>1, <1>2, CancellersAssumption DEF Exclusion

LEMMA CancelExclusion ==
  ASSUME Inv, Exclusion, NEW c \in Cancellers,
         CancelCall(c) \/ CancelStep(c) \/ CancelBreaksOff(c)
  PROVE  Exclusion'
<1> cancel \in [Cancellers -> Canceller]
  BY DEF Inv, TypeOK
<1> USE CancellersAssumption
        DEF LockStep, Exclusion, Holds, LockedPcs, fileVars
<1>1. CASE CancelCall(c)
  BY <1>1, LockStepExclusion DEF CancelCall, CancelGoes, Returns, Canceller
<1>2. CASE CancelCompares(c)
  BY <1>2, LockStepExclusion DEF CancelCompares, CancelGoes, Returns, Canceller
<1>3. CASE CancelReads(c)
  <2>1. /\ \A d \in Cancellers \ {c} : cancel'[d] = cancel[d]
        /\ cancel'[c].expected = cancel[c].expected
        /\ \/ cancel'[c].pc \in {"intent", "mark"} /\ UNCHANGED allocation
           \/ cancel'[c].pc = "done"
    <3>1. \/ \E r \in {"gone", "terminal", "incomplete"} : Returns(c, r)
          \/ CancelGoes(c, "read", "intent") /\ UNCHANGED allocation
          \/ /\ cancel' = [cancel EXCEPT ![c].pc = "mark", ![c].run = task.run]
             /\ UNCHANGED allocation
      BY <1>3 DEF CancelReads, Inv, TypeOK, Task, Statuses
    <3>2. CASE \E r \in {"gone", "terminal", "incomplete"} : Returns(c, r)
      BY <3>2 DEF Returns, Canceller
    <3>3. CASE CancelGoes(c, "read", "intent") /\ UNCHANGED allocation
      BY <3>3 DEF CancelGoes, Canceller
    <3>4. CASE /\ cancel' = [cancel EXCEPT ![c].pc = "mark", ![c].run = task.run]
               /\ UNCHANGED allocation
      BY <3>4 DEF Canceller
    <3> QED BY <3>1, <3>2, <3>3, <3>4
  <2>2. allocation' = allocation \/ allocation = c
    BY <1>3 DEF CancelReads, CancelGoes, Returns, Inv, TypeOK, Task, Statuses
  <2> QED BY <1>3, <2>1, <2>2, LockStepExclusion DEF CancelReads
<1>4. CASE CancelIntends(c)
  BY <1>4, LockStepExclusion DEF CancelIntends, CancelGoes, Returns, Canceller
<1>5. CASE CancelMarksQueued(c)
  BY <1>5, LockStepExclusion DEF CancelMarksQueued, CancelGoes, Returns, Canceller, Enters
<1>6. CASE CancelRereadsQueued(c)
  BY <1>6, LockStepExclusion DEF CancelRereadsQueued, CancelGoes, Returns, Canceller, CancelUnresolved, Exits
<1>7. CASE CancelRemoves(c)
  BY <1>7, LockStepExclusion DEF CancelRemoves, CancelGoes, Returns, Canceller, CancelUnresolved, Exits
<1>8. CASE CancelConfirms(c)
  BY <1>8, LockStepExclusion DEF CancelConfirms, CancelGoes, Returns, Canceller
<1>9. CASE CancelRereads(c)
  BY <1>9, LockStepExclusion DEF CancelRereads, CancelGoes, Returns, Canceller
<1>10. CASE CancelMarks(c)
  BY <1>10, LockStepExclusion DEF CancelMarks, CancelGoes, Returns, Canceller, Enters
<1>11. CASE CancelCaptures(c)
  BY <1>11, LockStepExclusion DEF CancelCaptures, CancelGoes, Returns, Canceller
<1>12. CASE CancelStops(c)
  BY <1>12, LockStepExclusion DEF CancelStops, CancelGoes, Returns, Canceller
<1>13. CASE CancelSettles(c)
  <2>1. cancel'[c].pc \in {"observe", "escalate", "kill"}
    BY <1>13 DEF CancelSettles, CancelGoes, Canceller
  <2>2. cancel'[c].pc = "kill" => c \notin Guarded
    BY <1>13 DEF CancelSettles, CancelGoes, Canceller
  <2>3. \A d \in Cancellers \ {c} : cancel'[d] = cancel[d]
    BY <1>13 DEF CancelSettles, CancelGoes, Canceller
  <2> QED BY <1>13, <2>1, <2>2, <2>3, LockStepExclusion DEF CancelSettles
<1>14. CASE CancelEscalates(c)
  BY <1>14, LockStepExclusion DEF CancelEscalates, CancelGoes, Returns, Canceller
<1>15. CASE CancelKills(c)
  BY <1>15, LockStepExclusion DEF CancelKills, CancelGoes, Returns, Canceller, KillWrapper, NoWrapper
<1>16. CASE CancelObserves(c)
  BY <1>16, LockStepExclusion DEF CancelObserves, CancelGoes, Returns, Canceller
<1>17. CASE CancelReports(c)
  BY SMTT(30), <1>17, LockStepExclusion DEF CancelReports, CancelGoes, Returns, Canceller
<1>18. CASE CancelBreaksOff(c)
  <2>1. \E result \in {"unanswered", "died"} : Returns(c, result)
    BY <1>18 DEF CancelBreaksOff, CancelUnanswered, CancellerDies
  <2>2. /\ \A d \in Cancellers \ {c} : cancel'[d] = cancel[d]
        /\ cancel'[c].pc = "done"
        /\ allocation' = allocation \/ allocation = c
    BY <2>1 DEF Returns, Canceller
  <2> QED BY <1>18, <2>1, <2>2, LockStepExclusion DEF CancelBreaksOff, CancelUnanswered, CancellerDies
<1> QED BY <1>1, <1>2, <1>3, <1>4, <1>5, <1>6, <1>7, <1>8, <1>9, <1>10, <1>11, <1>12, <1>13, <1>14, <1>15, <1>16, <1>17, <1>18
  DEF CancelStep

LEMMA NextExclusion ==
  ASSUME Inv, Exclusion, [Next]_vars
  PROVE  Exclusion'
<1>1. CASE WrapperBegin
  BY <1>1, KeepsExclusion DEF WrapperBegin, Inv, TypeOK, Wrapper
<1>2. CASE WrapperClaims
  BY <1>2, KeepsExclusion
  DEF WrapperClaims, WrapperConcludes, Inv, TypeOK, Wrapper, fileVars
<1>3. CASE WrapperDispatches
  BY <1>3, KeepsExclusion
  DEF WrapperDispatches, WrapperGoes, Exclusion, Inv, TypeOK, Wrapper, fileVars
<1>4. CASE WrapperStep /\ ~WrapperBegin /\ ~WrapperClaims /\ ~WrapperDispatches
  <2>1. UNCHANGED <<cancel, attempts>> /\ wrapper'.pc # "dispatch"
    BY <1>4, WrapperKeeps
  <2>2. allocation' = allocation \/ wrapper.pc = "dispatch"
    BY <1>4
    DEF WrapperStep, WrapperRefusesEarly, WrapperPrepares, WrapperChecks,
      WrapperTurnedAway, WrapperAdmits, WrapperCannotClaim, WrapperRejected,
      WrapperBacksOff, WrapperSnapshots, WrapperAwaits, WrapperClassifies,
      WrapperReleases, WrapperFinishes, WrapperCleansUp, WrapperPublishes, WrapperGoes
  <2> QED BY <2>1, <2>2, KeepsExclusion DEF Exclusion
<1>5. CASE Environment
  <2>1. /\ UNCHANGED <<cancel, attempts>>
        /\ allocation' = allocation \/ allocation = "wrapper"
        /\ \/ UNCHANGED <<wrapper, allocation>>
           \/ wrapper'.pc # "dispatch"
    BY <1>5 DEF Environment, TaskStart, TaskReap, WrapperKilled, KillWrapper,
      PayloadEnds, RuntimeExpires, UnitUnloads, SurvivorsExit, fileVars, NoWrapper
  <2> QED BY <2>1, KeepsExclusion DEF Exclusion
<1>6. CASE Operator \/ AtRest \/ UNCHANGED vars
  <2>1. UNCHANGED <<cancel, allocation, attempts, wrapper>>
    BY <1>6 DEF Operator, RetryChecks, RetryClears, RetryRestarts, CleanChecks,
      CleanRemoves, CleanUnmarks, AtRest, vars, fileVars
  <2> QED BY <2>1, KeepsExclusion DEF Exclusion
<1> QED BY <1>1, <1>2, <1>3, <1>4, <1>5, <1>6, CancelExclusion DEF Next

\* The call that kills a wrapper after the settle time is over, and names an
\* attempt, finds that very attempt in the wrapper it kills, or a wrapper
\* that has not allocated any.
GuardedKill ==
  \A c \in Guarded :
    cancel[c].pc = "kill" /\ cancel'[c].pc = "observe" /\ wrapper' # wrapper
      => wrapper.attempt \in {NoAttempt, cancel[c].expected}

LEMMA ExclusionKills ==
  ASSUME Inv, Exclusion
  PROVE  GuardedKill
<1>1. ASSUME NEW c \in Guarded, cancel[c].pc = "kill"
      PROVE  wrapper.attempt \in {NoAttempt, cancel[c].expected}
  <2>1. attempts = cancel[c].expected
    BY <1>1 DEF Exclusion, Holds, LockedPcs
  <2> QED BY <2>1 DEF Inv, Numbers
<1> QED BY <1>1 DEF GuardedKill

\* So an escalation never takes a newer attempt for the one it was asked to
\* cancel, however many calls, retries and faults there are.
THEOREM GuardedKillsOwnAttempt == Spec => GuardedKillSparesNewerAttempts
<1>1. Init => Inv /\ Exclusion
  BY InitInv, InitExclusion
<1>2. Inv /\ Exclusion /\ [Next]_vars => Inv' /\ Exclusion' /\ [GuardedKill]_vars
  BY NextInv, NextExclusion, ExclusionKills
<1> QED BY <1>1, <1>2, PTL
        DEF Spec, GuardedKillSparesNewerAttempts, GuardedKill

-----------------------------------------------------------------------------
(* Custody of the cgroup, for a job that nobody cancels.                   *)

\* Live processes belong to the newest attempt and are on record; and there
\* are none from the moment a retry is admitted until its unit starts.
Custody ==
  /\ members \subseteq {attempts}
  /\ members # {} =>
       disposition.kind = "claimed" /\ disposition.cgroup \in {"path", "null"}
  /\ \/ task.status = "Queued"
     \/ wrapper.pc \in Undispatched
     \/ retrying # "idle"
     => members = {}
  /\ wrapper.pc = "dispatch" => disposition.cgroup \in {"path", "null"}
  /\ wrapper.pc = "dispatch" => disposition.kind = "claimed"

LEMMA InitCustody == Init => Custody
  BY DEF Init, Custody, NoWrapper

\* A recorded cgroup lets nobody pass while it is populated.
LEMMA PassDrained ==
  ASSUME Custody, MayPass(disposition)
  PROVE  members = {}
  BY DEF Custody, MayPass, GuardedBy, Observations, CgroupStatus, MayFail

\* A step that starts no process and leaves the record alone.
LEMMA KeepsCustody ==
  ASSUME Custody, members' \subseteq members, UNCHANGED <<attempts, disposition>>,
         wrapper'.pc = "dispatch" => wrapper.pc = "dispatch",
         \/ task'.status = "Queued"
         \/ wrapper'.pc \in Undispatched
         \/ retrying' # "idle"
         => \/ members' = {}
            \/ task.status = "Queued"
            \/ wrapper.pc \in Undispatched
            \/ retrying # "idle"
  PROVE  Custody'
  BY DEF Custody

LEMMA WrapperCustody ==
  ASSUME Inv, Custody, WrapperStep
  PROVE  Custody'
<1> USE DEF Inv, Undispatched
<1>1. CASE WrapperBegin
  BY <1>1 DEF WrapperBegin, Custody, TypeOK, Wrapper, unitVars, operatorVars
<1>2. CASE WrapperClaims
  <2>1. members = {}
    BY <1>2 DEF WrapperClaims, WrapperConcludes, Custody
  <2>2. CASE MarkerTargets
    <3>1. wrapper'.pc = "finish"
      BY <1>2, <2>2 DEF WrapperClaims, WrapperConcludes, TypeOK, Wrapper
    <3> QED BY <1>2, <2>1, <3>1 DEF WrapperClaims, Custody, unitVars
  <2>3. CASE ~MarkerTargets
    <3>1. PICK cgroup \in {"path", "null"} :
            disposition' = [kind |-> "claimed", cgroup |-> cgroup,
                            attempt |-> wrapper.attempt]
      BY <1>2, <2>3 DEF WrapperClaims, MayFail
    <3> QED BY <1>2, <2>1, <3>1 DEF WrapperClaims, Custody, unitVars
  <2> QED BY <2>2, <2>3
<1>3. CASE WrapperDispatches
  <2>1. members = {} /\ wrapper.attempt = attempts
    BY <1>3 DEF WrapperDispatches, WrapperGoes, Custody, Numbers
  <2>2. wrapper'.pc \in {"await", "snapshot"} /\ wrapper.pc = "dispatch"
    BY <1>3 DEF WrapperDispatches, WrapperGoes, TypeOK, Wrapper
  <2>3. task'.status = "Running" /\ retrying' = "idle"
    BY <1>3, <2>2 DEF WrapperDispatches, Queue, operatorVars
  <2>4. members' = {attempts'} /\ UNCHANGED disposition
    BY <1>3, <2>1 DEF WrapperDispatches, fileVars
  <2> QED BY <2>2, <2>3, <2>4 DEF Custody
<1>4. CASE ~WrapperBegin /\ ~WrapperClaims /\ ~WrapperDispatches
  <2>1. /\ members' \subseteq members
        /\ UNCHANGED <<task, attempts, disposition, operatorVars>>
        /\ wrapper'.pc # "dispatch"
        /\ wrapper.pc \in Undispatched \/ wrapper'.pc \notin Undispatched
    BY <1>4, WrapperKeeps
  <2> QED BY <2>1, KeepsCustody DEF operatorVars
<1> QED BY <1>1, <1>2, <1>3, <1>4

LEMMA NextCustody ==
  ASSUME Cancellers = {}, Inv, Custody, [Next]_vars
  PROVE  Custody'
<1> USE DEF Inv
<1>1. CASE TaskStart
  BY <1>1, KeepsCustody DEF TaskStart, unitVars, fileVars, operatorVars, NoWrapper
<1>2. CASE TaskReap \/ WrapperKilled
  <2>1. /\ UNCHANGED <<members, attempts, disposition, retrying>>
        /\ wrapper' = NoWrapper
        /\ task'.status = "Done"
    BY <1>2 DEF TaskReap, WrapperKilled, KillWrapper, TypeOK, Task, unitVars,
                fileVars, operatorVars
  <2> QED BY <2>1, KeepsCustody DEF NoWrapper, Undispatched
<1>3. CASE PayloadEnds \/ RuntimeExpires \/ UnitUnloads \/ SurvivorsExit
  <2>1. /\ members' \subseteq members
        /\ UNCHANGED <<task, wrapper, attempts, disposition, retrying>>
    BY <1>3 DEF PayloadEnds, RuntimeExpires, UnitUnloads, SurvivorsExit, Leftovers,
                fileVars, operatorVars
  <2> QED BY <2>1, KeepsCustody
<1>4. CASE RetryChecks
  BY <1>4, PassDrained DEF RetryChecks, Custody, unitVars, fileVars
<1>5. CASE RetryClears
  <2>1. members = {} /\ wrapper.pc # "dispatch"
    BY <1>5 DEF RetryClears, Custody, Queue
  <2> QED BY <1>5, <2>1 DEF RetryClears, Custody, unitVars
<1>6. CASE RetryRestarts
  BY <1>6, KeepsCustody DEF RetryRestarts, unitVars, fileVars
<1>7. CASE CleanChecks \/ CleanUnmarks
  BY <1>7, KeepsCustody DEF CleanChecks, CleanUnmarks, unitVars, fileVars
<1>8. CASE CleanRemoves
  <2>1. task'.status = "Gone" \/ task' = task
    BY <1>8 DEF CleanRemoves, TypeOK, Task
  <2> QED BY <1>8, <2>1, KeepsCustody DEF CleanRemoves, unitVars, fileVars
<1>9. CASE AtRest \/ UNCHANGED vars
  BY <1>9, KeepsCustody DEF AtRest, vars, unitVars, fileVars, operatorVars
<1> QED BY <1>1, <1>2, <1>3, <1>4, <1>5, <1>6, <1>7, <1>8, <1>9, WrapperCustody
        DEF Next, Environment, Operator

\* While nobody cancels, no two attempts ever have processes in the unit's
\* cgroup, whatever the manager leaves behind and however often the task is
\* retried after its wrapper was killed.
THEOREM OneAttempt ==
  ASSUME Cancellers = {}
  PROVE  Spec => []OneAttemptInCgroup
<1>1. Init => Inv /\ Custody
  BY InitInv, InitCustody
<1>2. Inv /\ Custody /\ [Next]_vars => Inv' /\ Custody'
  BY NextInv, NextCustody
<1>3. Custody => OneAttemptInCgroup
  BY DEF Custody, OneAttemptInCgroup
<1> QED BY <1>1, <1>2, <1>3, PTL DEF Spec

\* Nor can a retry or a clean get past a process that a killed or confused
\* wrapper left: the record of its cgroup is there to stop them.
THEOREM CustodyKept ==
  ASSUME Cancellers = {}
  PROVE  Spec => []CustodyRetained
<1>1. Init => Inv /\ Custody
  BY InitInv, InitCustody
<1>2. Inv /\ Custody /\ [Next]_vars => Inv' /\ Custody'
  BY NextInv, NextCustody
<1>3. Custody => CustodyRetained
  BY PassDrained DEF CustodyRetained
<1> QED BY <1>1, <1>2, <1>3, PTL DEF Spec

-----------------------------------------------------------------------------
(* Requests.                                                               *)

\* A cancel-request record for the attempt, or for the launch before it ran.
Requested(n) == requests \cap {0, n} # {}

\* Whoever may be the reason for a cancelled outcome has put one on record
\* first: the marker, a wrapper that has seen it, and a call that is about to
\* write it.
Backed ==
  /\ marker # NoAttempt => Requested(marker)
  /\ wrapper.outcome = "cancelled" =>
       wrapper.pc \notin {"none", "begin"} /\ Requested(wrapper.attempt)
  /\ \A c \in Cancellers : cancel[c].pc = "mark_queued" => 0 \in requests
  /\ CancelledWasRequested

LEMMA InitBacked == Init => Backed
  BY DEF Init, Backed, NoWrapper, IdleCanceller, NoAttempt, CancelledWasRequested

LEMMA RequestedStays ==
  ASSUME requests \subseteq requests', NEW n, Requested(n)
  PROVE  Requested(n)'
  BY DEF Requested

\* A step that publishes nothing, and drops no request.
LEMMA KeepsBacked ==
  ASSUME Inv, Backed, requests \subseteq requests', outcome' = outcome,
         marker' \in {marker, NoAttempt} \/ Requested(marker)',
         wrapper'.outcome = "cancelled" =>
           /\ wrapper'.pc \notin {"none", "begin"}
           /\ \/ Requested(wrapper'.attempt)
              \/ wrapper.outcome = "cancelled" /\ wrapper'.attempt = wrapper.attempt,
         \A c \in Cancellers :
           cancel'[c].pc = "mark_queued" => cancel[c].pc = "mark_queued" \/ 0 \in requests'
  PROVE  Backed'
<1>1. marker' # NoAttempt => Requested(marker)'
  BY RequestedStays DEF Backed, Requested
<1>2. wrapper'.outcome = "cancelled" =>
        wrapper'.pc \notin {"none", "begin"} /\ Requested(wrapper.attempt)'
  BY DEF Backed, Requested
<1>3. CancelledWasRequested'
  BY DEF Backed, CancelledWasRequested
<1> QED BY <1>1, <1>2, <1>3 DEF Backed

\* A wrapper that meets its marker was asked to stop.
LEMMA TargetRequested ==
  ASSUME Inv, Backed, MarkerTargets, wrapper.pc \notin {"none", "begin"}
  PROVE  Requested(wrapper.attempt)
  BY DEF Inv, Numbers, Backed, MarkerTargets, NoAttempt, Attempt

LEMMA WrapperBacked ==
  ASSUME Inv, Backed, WrapperStep
  PROVE  Backed'
<1>1. wrapper \in Wrapper /\ UNCHANGED <<requests, cancel>>
  BY DEF Inv, TypeOK, WrapperStep, WrapperBegin, WrapperRefusesEarly,
    WrapperPrepares, WrapperChecks, WrapperTurnedAway, WrapperAdmits, WrapperClaims,
    WrapperCannotClaim, WrapperDispatches, WrapperRejected, WrapperBacksOff,
    WrapperSnapshots, WrapperAwaits, WrapperClassifies, WrapperReleases,
    WrapperFinishes, WrapperCleansUp, WrapperPublishes, fileVars
<1>2. CASE WrapperBegin
  <2>1. wrapper'.outcome = wrapper.outcome /\ wrapper.pc = "begin"
    BY <1>1, <1>2 DEF WrapperBegin, Wrapper
  <2> QED BY <1>1, <1>2, <2>1, KeepsBacked DEF WrapperBegin, Backed
<1>3. CASE WrapperPublishes
  <2>1. /\ UNCHANGED marker
        /\ wrapper.pc = "publish" /\ wrapper'.pc \notin {"none", "begin"}
        /\ wrapper'.outcome = wrapper.outcome /\ wrapper'.attempt = wrapper.attempt
        /\ outcome' = [outcome EXCEPT ![wrapper.attempt] = wrapper.outcome]
    BY <1>1, <1>3 DEF WrapperPublishes, WrapperGoes, Wrapper
  <2>2. CancelledWasRequested'
    BY <1>1, <2>1 DEF Backed, CancelledWasRequested, Requested, Inv, TypeOK
  <2> QED BY <1>1, <2>1, <2>2 DEF Backed, Requested
<1>4. ASSUME NEW from \in WrapperPcs \ {"none", "begin"},
             NEW to \in WrapperPcs \ {"none", "begin"}, NEW result \in Outcomes,
             WrapperConcludes(from, to, result),
             result = "cancelled" => MarkerTargets,
             UNCHANGED <<outcome, marker>>
      PROVE  Backed'
  <2>1. /\ wrapper'.outcome = result /\ wrapper'.attempt = wrapper.attempt
        /\ wrapper.pc = from /\ wrapper'.pc = to
    BY <1>1, <1>4 DEF WrapperConcludes, Wrapper
  <2> QED BY <1>1, <1>4, <2>1, KeepsBacked, TargetRequested
<1>5. ASSUME wrapper'.attempt = wrapper.attempt,
             wrapper'.outcome # "cancelled" \/ wrapper'.outcome = wrapper.outcome,
             wrapper'.pc \notin {"none", "begin"},
             UNCHANGED outcome, marker' \in {marker, NoAttempt}
      PROVE  Backed'
  BY <1>1, <1>5, KeepsBacked
<1>6. CASE WrapperRefusesEarly \/ WrapperTurnedAway \/ WrapperCannotClaim
  BY <1>4, <1>6 DEF WrapperRefusesEarly, WrapperTurnedAway, WrapperCannotClaim,
                    WrapperPcs, Outcomes, fileVars
<1>7. CASE WrapperPrepares \/ WrapperAdmits \/ WrapperDispatches \/ WrapperRejected
  BY <1>1, <1>5, <1>7 DEF WrapperPrepares, WrapperAdmits, WrapperDispatches,
                          WrapperRejected, WrapperGoes, Wrapper, fileVars
<1>8. CASE WrapperChecks
  <2>1. CASE WrapperGoes("check", "admit")
    BY <1>1, <1>5, <1>8, <2>1 DEF WrapperChecks, WrapperGoes, Wrapper, fileVars
  <2> QED BY <1>4, <1>8, <2>1 DEF WrapperChecks, WrapperPcs, Outcomes, fileVars
<1>9. CASE WrapperClaims
  <2>1. CASE MarkerTargets
    BY <1>4, <1>9, <2>1 DEF WrapperClaims, WrapperPcs, Outcomes
  <2>2. CASE ~MarkerTargets
    BY <1>1, <1>5, <1>9, <2>2 DEF WrapperClaims, Wrapper
  <2> QED BY <2>1, <2>2
<1>10. CASE WrapperBacksOff
  <2>1. CASE MarkerTargets
    BY <1>4, <1>10, <2>1 DEF WrapperBacksOff, WrapperPcs, Outcomes, fileVars
  <2>2. CASE ~MarkerTargets
    BY <1>1, <1>5, <1>10, <2>2 DEF WrapperBacksOff, WrapperGoes, Wrapper, fileVars
  <2> QED BY <2>1, <2>2
<1>11. CASE WrapperSnapshots \/ WrapperAwaits
  BY <1>1, <1>5, <1>11 DEF WrapperSnapshots, WrapperAwaits, WrapperGoes, Wrapper, fileVars
<1>12. CASE WrapperClassifies
  BY <1>4, <1>12 DEF WrapperClassifies, WrapperPcs, Outcomes, Results, fileVars
<1>13. CASE WrapperReleases
  BY <1>1, <1>5, <1>13 DEF WrapperReleases, Wrapper, fileVars
<1>14. CASE WrapperFinishes \/ WrapperCleansUp
  BY <1>1, <1>5, <1>14 DEF WrapperFinishes, WrapperCleansUp, WrapperGoes, Wrapper, fileVars
<1> QED BY <1>2, <1>3, <1>6, <1>7, <1>8, <1>9, <1>10, <1>11, <1>12, <1>13, <1>14
        DEF WrapperStep

LEMMA CancelBacked ==
  ASSUME Inv, Backed, NEW c \in Cancellers,
         CancelCall(c) \/ CancelStep(c) \/ CancelBreaksOff(c)
  PROVE  Backed'
<1>1. /\ UNCHANGED outcome
      /\ UNCHANGED wrapper \/ wrapper' = NoWrapper
  BY CallsLeave
<1>2. cancel \in [Cancellers -> Canceller]
  BY DEF Inv, TypeOK
<1>3. wrapper'.outcome = "cancelled" =>
        /\ wrapper'.pc \notin {"none", "begin"}
        /\ wrapper.outcome = "cancelled" /\ wrapper'.attempt = wrapper.attempt
  BY <1>1 DEF Backed, NoWrapper
<1>4. CASE CancelIntends(c)
  BY <1>1, <1>3, <1>4, KeepsBacked DEF CancelIntends
<1>5. CASE CancelMarksQueued(c)
  <2>1. 0 \in requests /\ UNCHANGED requests
    BY <1>5 DEF CancelMarksQueued, Backed
  <2>2. Requested(marker)'
    BY <2>1 DEF Requested
  <2>3. \A d \in Cancellers : cancel'[d].pc = "mark_queued" => cancel[d].pc = "mark_queued"
    BY <1>2, <1>5 DEF CancelMarksQueued, Canceller
  <2> QED BY <1>1, <1>3, <2>1, <2>2, <2>3, KeepsBacked
<1>6. CASE CancelMarks(c)
  <2>1. /\ marker' \in requests' /\ requests \subseteq requests'
        /\ \A d \in Cancellers : cancel'[d].pc = "mark_queued" => cancel[d].pc = "mark_queued"
    BY <1>2, <1>6 DEF CancelMarks, Canceller
  <2>2. Requested(marker)'
    BY <2>1 DEF Requested
  <2> QED BY <1>1, <1>3, <2>1, <2>2, KeepsBacked
<1>7. CASE CancelConfirms(c)
  <2>1. /\ marker' \in {marker, NoAttempt} /\ UNCHANGED requests
        /\ \A d \in Cancellers : cancel'[d].pc = "mark_queued" => cancel[d].pc = "mark_queued"
    BY <1>2, <1>7 DEF CancelConfirms, Returns, Canceller
  <2> QED BY <1>1, <1>3, <2>1, KeepsBacked
<1>8. CASE /\ CancelCall(c) \/ CancelStep(c) \/ CancelBreaksOff(c)
           /\ ~CancelIntends(c) /\ ~CancelMarksQueued(c) /\ ~CancelMarks(c)
           /\ ~CancelConfirms(c)
  <2>1. UNCHANGED <<requests, marker>>
    BY <1>8 DEF CancelStep, CancelCall, CancelCompares, CancelReads,
      CancelRereadsQueued, CancelRemoves, CancelRereads, CancelCaptures, CancelStops,
      CancelSettles, CancelEscalates, CancelKills, CancelObserves, CancelReports,
      CancelBreaksOff, CancelUnanswered, CancellerDies, fileVars
  <2>2. \A d \in Cancellers : cancel'[d].pc = "mark_queued" => cancel[d].pc = "mark_queued"
    <3>1. CASE CancelCall(c) \/ CancelCompares(c) \/ CancelBreaksOff(c)
      BY <1>2, <3>1 DEF CancelCall, CancelCompares, CancelGoes, Returns, CancelBreaksOff, CancelUnanswered, CancellerDies,
        Canceller
    <3>5. CASE CancelReads(c)
      <4>1. \/ \E r \in {"gone", "terminal", "incomplete"} : Returns(c, r)
            \/ CancelGoes(c, "read", "intent")
            \/ cancel' = [cancel EXCEPT ![c].pc = "mark", ![c].run = task.run]
        BY <3>5 DEF CancelReads, Inv, TypeOK, Task, Statuses
      <4> QED BY <1>2, <4>1 DEF CancelGoes, Returns, Canceller
    <3>2. CASE CancelRereadsQueued(c) \/ CancelRemoves(c) \/ CancelRereads(c)
      BY <1>2, <3>2 DEF CancelRereadsQueued, CancelRemoves, CancelRereads,
        CancelUnresolved, CancelGoes, Returns, Canceller
    <3>3. CASE CancelCaptures(c) \/ CancelStops(c) \/ CancelSettles(c)
      BY <1>2, <3>3 DEF CancelCaptures, CancelStops, CancelSettles, CancelGoes, Canceller
    <3>4. CASE CancelEscalates(c) \/ CancelKills(c) \/ CancelObserves(c) \/ CancelReports(c)
      BY ZenonT(60), <1>2, <3>4 DEF CancelEscalates, CancelKills, CancelObserves, CancelReports,
        CancelGoes, Returns, Canceller
    <3> QED BY <1>8, <3>1, <3>2, <3>3, <3>4, <3>5 DEF CancelStep
  <2> QED BY <1>1, <1>3, <2>1, <2>2, KeepsBacked
<1> QED BY <1>4, <1>5, <1>6, <1>7, <1>8

LEMMA NextBacked ==
  ASSUME Inv, Backed, [Next]_vars
  PROVE  Backed'
<1>1. CASE Environment
  <2>1. /\ UNCHANGED <<outcome, marker, requests, cancel>>
        /\ \/ UNCHANGED wrapper
           \/ wrapper' = NoWrapper
           \/ wrapper' = [NoWrapper EXCEPT !.pc = "begin"]
    BY <1>1 DEF Environment, TaskStart, TaskReap, WrapperKilled, KillWrapper,
      PayloadEnds, RuntimeExpires, UnitUnloads, SurvivorsExit, fileVars
  <2> QED BY <2>1, KeepsBacked DEF Backed, NoWrapper
<1>2. CASE Operator \/ AtRest \/ UNCHANGED vars
  <2>1. UNCHANGED <<outcome, requests, wrapper, cancel>> /\ marker' \in {marker, NoAttempt}
    BY <1>2 DEF Operator, RetryChecks, RetryClears, RetryRestarts, CleanChecks,
      CleanRemoves, CleanUnmarks, AtRest, vars, fileVars
  <2> QED BY <2>1, KeepsBacked DEF Backed
<1> QED BY <1>1, <1>2, WrapperBacked, CancelBacked DEF Next

\* No attempt ends as cancelled that nobody asked to cancel, whatever marker
\* dead calls have left and however attempts and starts race with the calls.
THEOREM CancelledOnRequest == Spec => []CancelledWasRequested
<1>1. Init => Inv /\ Backed
  BY InitInv, InitBacked
<1>2. Inv /\ Backed /\ [Next]_vars => Inv' /\ Backed'
  BY NextInv, NextBacked
<1>3. Backed => CancelledWasRequested
  BY DEF Backed
<1> QED BY <1>1, <1>2, <1>3, PTL DEF Spec

-----------------------------------------------------------------------------
(* Scratch.                                                                *)

\* The manager knows no cgroup with processes in it that it does not have
\* loaded, or that it reports as exited.
Loaded == unit.state \in {"absent", "exited"} => members = {}

\* Scratch is given to one attempt at a time, before its unit can be
\* dispatched, and while it has it, its wrapper answers for the processes.
Given ==
  /\ Loaded
  /\ scratch <= attempts
  /\ wrapper.pc = "prepare" => scratch # wrapper.attempt
  /\ UsesScratch /\ wrapper.pc \in Undispatched \ {"begin", "prepare"} =>
       scratch = wrapper.attempt
  /\ wrapper.pc \in {"claim", "dispatch", "backoff"} => wrapper.owns
  /\ wrapper.pc \notin {"none", "begin"} /\ scratch = wrapper.attempt /\ ~wrapper.owns =>
       members = {}
  /\ ScratchOutlivesMembers

LEMMA InitGiven == Init => Given
  BY DEF Init, Given, Loaded, NoWrapper, NoAttempt, Undispatched, ScratchOutlivesMembers

\* What `systemctl stop` and release_unit leave is loaded if it is alive, and
\* a release that succeeds leaves nothing.
LEMMA StopResultsLoaded ==
  ASSUME ~Fault("forget"), TypeOK, Loaded, NEW s \in StopResults
  PROVE  s.unit.state \in {"absent", "exited"} => s.members = {}
<1> DEFINE asis == [unit |-> unit, members |-> members, execution |-> execution]
<1>1. CASE s = asis
  BY <1>1 DEF Loaded
<1>2. CASE unit.state = "exited" /\ s = [asis EXCEPT !.unit = NoUnit]
  BY <1>2 DEF Loaded
<1>3. ASSUME unit.state = "active", NEW left \in Leftovers,
             NEW state \in {"stopped", "absent"}, NEW result \in {"success", "failed"},
             s = Halted(left, state, result), s.unit = NoUnit => Unloads(s.members)
      PROVE  s.unit.state \in {"absent", "exited"} => s.members = {}
  <2>1. CASE state = "absent"
    BY <1>3, <2>1 DEF Halted, Unloads
  <2>2. CASE state = "stopped"
    BY <1>3, <2>2 DEF Halted, TypeOK, Unit
  <2> QED BY <2>1, <2>2
<1>4. \/ s = asis
      \/ unit.state = "exited" /\ s = [asis EXCEPT !.unit = NoUnit]
      \/ /\ unit.state = "active"
         /\ s.unit = NoUnit => Unloads(s.members)
         /\ \E left \in Leftovers, state \in {"stopped", "absent"},
               result \in {"success", "failed"} : s = Halted(left, state, result)
  <2>1. CASE unit.state = "active"
    BY <2>1 DEF StopResults, MayFail
  <2>2. CASE unit.state = "exited"
    BY <2>2 DEF StopResults, MayFail
  <2>3. CASE unit.state \notin {"active", "exited"}
    BY <2>3 DEF StopResults
  <2> QED BY <2>1, <2>2, <2>3
<1> QED BY <1>1, <1>2, <1>3, <1>4

LEMMA ReleasesLoaded ==
  ASSUME ~Fault("forget"), TypeOK, Loaded, NEW r \in Releases
  PROVE  /\ r.quiet => r.members = {}
         /\ r.unit.state \in {"absent", "exited"} => r.members = {}
<1> DEFINE emptied(s, path) == \/ s.members = {}
                               \/ path = "null" /\ s.unit.state = "absent"
           after(s, path, quiet) ==
             [quiet |-> quiet, cgroup |-> path,
              unit |-> IF quiet THEN NoUnit ELSE s.unit,
              members |-> s.members, execution |-> s.execution]
<1>1. PICK s \in StopResults, path \in {"path", "null"} :
        \/ r = after(s, path, s.unit.state # "active" /\ emptied(s, path))
        \/ r = after(s, path, FALSE)
  BY DEF Releases, MayFail
<1>2. s.unit.state \in {"absent", "exited"} => s.members = {}
  BY StopResultsLoaded
<1>3. CASE s.unit.state # "active" /\ emptied(s, path)
  BY <1>1, <1>2, <1>3
<1>4. CASE ~(s.unit.state # "active" /\ emptied(s, path))
  <2>1. (s.unit.state # "active" /\ emptied(s, path)) = FALSE
    BY <1>4
  <2>2. r = after(s, path, FALSE)
    BY <1>1, <2>1
  <2> QED BY <1>2, <2>2
<1> QED BY <1>3, <1>4

\* A step that starts no process and gives or takes no scratch.
LEMMA KeepsGiven ==
  ASSUME Inv, Given, Loaded', members' \subseteq members,
         UNCHANGED <<scratch, attempts>>,
         \/ wrapper'.pc \in {"none", "begin"}
         \/ /\ wrapper'.attempt = wrapper.attempt
            /\ wrapper.pc \notin {"none", "begin"}
            /\ wrapper'.pc = "prepare" => wrapper.pc = "prepare"
            /\ wrapper'.pc \in Undispatched => wrapper.pc \in Undispatched \ {"prepare"}
            /\ wrapper'.owns = wrapper.owns \/ wrapper'.owns \/ members' = {}
            /\ wrapper'.pc \in {"claim", "dispatch", "backoff"} => wrapper'.owns
         \/ UNCHANGED wrapper
  PROVE  Given'
  BY DEF Given, Undispatched, ScratchOutlivesMembers
LEMMA WrapperGiven ==
  ASSUME ~Fault("forget"), Inv, Given, WrapperStep
  PROVE  Given'
<1> USE DEF Undispatched
<1>1. wrapper \in Wrapper /\ TypeOK /\ Loaded
  BY DEF Inv, TypeOK, Given
<1>2. CASE WrapperBegin
  <2>1. /\ attempts' = attempts + 1 /\ wrapper'.attempt = attempts + 1
        /\ wrapper'.pc = "prepare" /\ UNCHANGED <<scratch, unit, members>>
    BY <1>1, <1>2 DEF WrapperBegin, Wrapper, unitVars
  <2> QED BY <1>1, <2>1, MaxRunsAssumption DEF Given, Loaded, ScratchOutlivesMembers, TypeOK
<1>3. CASE WrapperPrepares
  <2>1. /\ wrapper'.attempt = wrapper.attempt /\ wrapper'.pc = "check"
        /\ wrapper.pc = "prepare" /\ UNCHANGED <<unit, members, attempts>>
    BY <1>1, <1>3 DEF WrapperPrepares, WrapperGoes, Wrapper, unitVars
  <2>2. CASE UsesScratch
    <3>1. scratch = 0 /\ scratch' = wrapper.attempt
      BY <1>3, <2>2 DEF WrapperPrepares, NoAttempt
    <3>2. members = {}
      BY <1>1, <2>2, <3>1 DEF Given, ScratchOutlivesMembers, TypeOK, Attempt
    <3> QED BY <1>1, <2>1, <3>1, <3>2 DEF Given, Loaded, ScratchOutlivesMembers, Inv, Numbers, Attempt
  <2>3. CASE ~UsesScratch
    <3>1. UNCHANGED scratch
      BY <1>3, <2>3 DEF WrapperPrepares
    <3> QED BY <1>1, <2>1, <2>3, <3>1 DEF Given, Loaded, ScratchOutlivesMembers
  <2> QED BY <2>2, <2>3
<1>4. CASE WrapperDispatches
  <2>1. /\ wrapper'.pc \in {"await", "snapshot"} /\ wrapper.pc = "dispatch"
        /\ wrapper'.attempt = wrapper.attempt /\ wrapper'.owns = wrapper.owns
        /\ UNCHANGED <<scratch, attempts>>
        /\ unit'.state = "active"
    BY <1>1, <1>4 DEF WrapperDispatches, WrapperGoes, Wrapper, fileVars
  <2>2. members' = {wrapper.attempt}
    BY <1>1, <1>4 DEF WrapperDispatches, Loaded
  <2> QED BY <2>1, <2>2 DEF Given, Loaded, ScratchOutlivesMembers
<1>5. CASE WrapperCleansUp
  <2>1. PICK quiet \in BOOLEAN :
          /\ scratch' = IF quiet /\ scratch = wrapper.attempt THEN NoAttempt ELSE scratch
          /\ wrapper'.owns = ~quiet /\ wrapper'.attempt = wrapper.attempt
          /\ wrapper.pc = "cleanup" /\ wrapper'.pc \in {"publish", "exited"}
          /\ members' \subseteq members
          /\ unit'.state \in {"absent", "exited"} => members' = {}
          /\ quiet /\ (scratch = wrapper.attempt \/ wrapper.owns) => members' = {}
    <3>1. CASE ~wrapper.owns
      <4> DEFINE kept == [quiet |-> TRUE, cgroup |-> wrapper.cgroup, unit |-> unit,
                          members |-> members, execution |-> execution]
      <4>1. PICK r \in {kept} :
              /\ Leave(r)
              /\ scratch' = IF r.quiet /\ scratch = wrapper.attempt
                            THEN NoAttempt ELSE scratch
              /\ wrapper' = [wrapper EXCEPT !.owns = ~r.quiet, !.cleaned = TRUE,
                               !.cgroup = r.cgroup,
                               !.pc = IF outcome[wrapper.attempt] = "none"
                                      THEN "publish" ELSE "exited"]
        BY <1>5, <3>1 DEF WrapperCleansUp
      <4>5. /\ r.quiet = TRUE /\ r.unit = unit /\ r.members = members
            /\ UNCHANGED <<unit, members>>
        BY <4>1 DEF Leave
      <4>2. wrapper.pc = "cleanup"
        BY <1>5 DEF WrapperCleansUp
      <4>3. /\ wrapper'.owns = FALSE /\ wrapper'.attempt = wrapper.attempt
            /\ wrapper'.pc \in {"publish", "exited"}
        BY <1>1, <4>1, <4>5 DEF Wrapper
      <4>4. scratch = wrapper.attempt => members = {}
        BY <3>1, <4>2 DEF Given
      <4>6. scratch' = IF scratch = wrapper.attempt THEN NoAttempt ELSE scratch
        BY <4>1, <4>5
      <4>7. unit'.state \in {"absent", "exited"} => members' = {}
        BY <1>1, <4>5 DEF Loaded
      <4> QED BY <3>1, <4>2, <4>3, <4>4, <4>5, <4>6, <4>7
    <3>2. CASE wrapper.owns
      <4>1. PICK r \in Releases :
              /\ Leave(r)
              /\ scratch' = IF r.quiet /\ scratch = wrapper.attempt
                            THEN NoAttempt ELSE scratch
              /\ wrapper' = [wrapper EXCEPT !.owns = ~r.quiet, !.cleaned = TRUE,
                               !.cgroup = r.cgroup,
                               !.pc = IF outcome[wrapper.attempt] = "none"
                                      THEN "publish" ELSE "exited"]
        BY <1>5, <3>2 DEF WrapperCleansUp
      <4>2. /\ r.quiet \in BOOLEAN /\ r.members \subseteq members
            /\ r.quiet => r.members = {}
            /\ r.unit.state \in {"absent", "exited"} => r.members = {}
        BY <1>1, ReleasesType, ReleasesShrink, ReleasesLoaded
      <4>3. wrapper.pc = "cleanup"
        BY <1>5 DEF WrapperCleansUp
      <4> QED BY <1>1, <4>1, <4>2, <4>3 DEF Leave, Wrapper
    <3> QED BY <3>1, <3>2
  <2>2. wrapper.attempt = attempts /\ attempts \in Attempt /\ UNCHANGED attempts
    BY <1>5 DEF WrapperCleansUp, Inv, Numbers
  <2>3. Loaded'
    BY <2>1 DEF Loaded
  <2>4. CASE quiet /\ scratch = wrapper.attempt
    BY <2>1, <2>2, <2>3, <2>4 DEF Given, ScratchOutlivesMembers, NoAttempt, Attempt
  <2>5. CASE ~(quiet /\ scratch = wrapper.attempt)
    BY <2>1, <2>2, <2>3, <2>5 DEF Given, ScratchOutlivesMembers
  <2> QED BY <2>4, <2>5
<1>6. CASE WrapperReleases
  <2>1. PICK r \in Releases :
          /\ Leave(r)
          /\ wrapper' = [wrapper EXCEPT !.pc = "finish", !.owns = ~r.quiet,
                           !.cgroup = r.cgroup,
                           !.outcome = IF r.quiet THEN @ ELSE "vanished"]
    BY <1>6 DEF WrapperReleases
  <2>2. /\ r.quiet \in BOOLEAN /\ r.members \subseteq members
        /\ r.quiet => r.members = {}
        /\ r.unit.state \in {"absent", "exited"} => r.members = {}
    BY <1>1, ReleasesType, ReleasesShrink, ReleasesLoaded
  <2> QED BY <1>1, <1>6, <2>1, <2>2, KeepsGiven
          DEF WrapperReleases, Leave, Loaded, Wrapper, fileVars
<1>7. CASE WrapperAdmits
  <2>1. Loaded' /\ members' \subseteq members
    BY <1>1, <1>7, StopResultsLoaded, StopResultsShrink
    DEF WrapperAdmits, Leave, Loaded, unitVars
  <2> QED BY <1>1, <1>7, <2>1, KeepsGiven DEF WrapperAdmits, Wrapper, fileVars
<1>8. ASSUME UNCHANGED <<unit, members, scratch, attempts>>,
             wrapper.pc \notin {"none", "begin"},
             wrapper'.attempt = wrapper.attempt, wrapper'.owns = wrapper.owns,
             wrapper'.pc = "prepare" => wrapper.pc = "prepare",
             wrapper'.pc \in Undispatched => wrapper.pc \in Undispatched \ {"prepare"},
             wrapper'.pc \in {"claim", "dispatch", "backoff"} =>
               wrapper.pc \in {"claim", "dispatch", "backoff"}
      PROVE  Given'
  BY <1>1, <1>8, KeepsGiven DEF Given, Loaded
<1>9. CASE WrapperRefusesEarly \/ WrapperChecks \/ WrapperTurnedAway
  BY ZenonT(60), <1>1, <1>8, <1>9 DEF WrapperRefusesEarly, WrapperChecks, WrapperTurnedAway,
    WrapperGoes, WrapperConcludes, Wrapper, unitVars, fileVars
<1>10. CASE WrapperClaims
  <2>1. /\ wrapper.pc = "claim" /\ wrapper'.pc \in {"finish", "dispatch"}
        /\ wrapper'.attempt = wrapper.attempt /\ wrapper'.owns = wrapper.owns
        /\ UNCHANGED <<unit, members, scratch, attempts>>
    BY <1>1, <1>10 DEF WrapperClaims, WrapperConcludes, Wrapper, unitVars
  <2> QED BY <1>8, <2>1
<1>11. CASE WrapperCannotClaim \/ WrapperRejected \/ WrapperBacksOff
  BY <1>1, <1>8, <1>11 DEF WrapperCannotClaim, WrapperRejected, WrapperBacksOff,
    WrapperGoes, WrapperConcludes, Wrapper, unitVars, fileVars
<1>12. CASE WrapperSnapshots \/ WrapperAwaits \/ WrapperClassifies
  BY ZenonT(60), <1>1, <1>8, <1>12 DEF WrapperSnapshots, WrapperAwaits, WrapperClassifies,
    WrapperGoes, WrapperConcludes, Wrapper, unitVars, fileVars
<1>13. CASE WrapperFinishes \/ WrapperPublishes
  BY <1>1, <1>8, <1>13 DEF WrapperFinishes, WrapperPublishes, WrapperGoes, Wrapper,
    unitVars, fileVars
<1> QED BY <1>2, <1>3, <1>4, <1>5, <1>6, <1>7, <1>9, <1>10, <1>11, <1>12, <1>13
        DEF WrapperStep

\* What calls of cancel, operators and the environment do to scratch and to
\* the processes it belongs to: nothing, but for ending some of them.
Aside ==
  /\ members' \subseteq members /\ Loaded'
  /\ UNCHANGED <<scratch, attempts>>
  /\ UNCHANGED wrapper \/ wrapper'.pc \in {"none", "begin"}

LEMMA OthersAside ==
  ASSUME ~Fault("forget"), Inv, Loaded,
         \/ Environment
         \/ Operator
         \/ \E c \in Cancellers : CancelCall(c) \/ CancelStep(c) \/ CancelBreaksOff(c)
         \/ AtRest
         \/ UNCHANGED vars
  PROVE  Aside
<1>1. CASE TaskStart \/ TaskReap \/ WrapperKilled
  BY <1>1 DEF TaskStart, TaskReap, WrapperKilled, KillWrapper, NoWrapper, Aside, Loaded,
    unitVars, fileVars
<1>2. CASE PayloadEnds \/ UnitUnloads \/ SurvivorsExit
  BY <1>2 DEF PayloadEnds, UnitUnloads, SurvivorsExit, Unloads, Aside, Loaded, fileVars
<1>3. CASE RuntimeExpires
  BY <1>3 DEF RuntimeExpires, Leftovers, Aside, Loaded, Inv, TypeOK, Unit, fileVars
<1>4. CASE Operator \/ AtRest \/ UNCHANGED vars
  BY <1>4 DEF Operator, RetryChecks, RetryClears, RetryRestarts, CleanChecks,
    CleanRemoves, CleanUnmarks, AtRest, Aside, Loaded, vars, unitVars, fileVars
<1>5. ASSUME NEW c \in Cancellers, CancelCall(c) \/ CancelStep(c) \/ CancelBreaksOff(c)
      PROVE  Aside
  <2>1. /\ UNCHANGED <<scratch, attempts>>
        /\ UNCHANGED wrapper \/ wrapper' = NoWrapper
    BY <1>5, CallsLeave
  <2>2. CASE CancelStops(c)
    BY <2>1, <2>2, StopResultsLoaded, StopResultsShrink
    DEF CancelStops, Leave, Inv, Aside, Loaded, NoWrapper
  <2>3. CASE ~CancelStops(c)
    <3>1. UNCHANGED <<unit, members>>
      BY <1>5, <2>3 DEF CancelStep, CancelCall, CancelCompares, CancelReads,
        CancelIntends, CancelMarksQueued, CancelRereadsQueued, CancelRemoves,
        CancelConfirms, CancelRereads, CancelMarks, CancelCaptures, CancelSettles,
        CancelEscalates, CancelKills, CancelObserves, CancelReports, CancelBreaksOff, CancelUnanswered, CancellerDies,
        unitVars
    <3> QED BY <2>1, <3>1 DEF Aside, Loaded, NoWrapper
  <2> QED BY <2>2, <2>3
<1> QED BY <1>1, <1>2, <1>3, <1>4, <1>5 DEF Environment

LEMMA NextGiven ==
  ASSUME ~Fault("forget"), Inv, Given, [Next]_vars
  PROVE  Given'
<1>1. CASE Aside
  BY <1>1, KeepsGiven DEF Aside
<1> QED BY <1>1, WrapperGiven, OthersAside DEF Next, Given

\* Scratch is removed only after the last process of its attempt, whoever
\* kills, cancels or retries the attempt and in whatever order -- as long as
\* the manager drops no unit whose cgroup is populated.
THEOREM ScratchOutlives ==
  ASSUME ~Fault("forget")
  PROVE  Spec => []ScratchOutlivesMembers
<1>1. Init => Inv /\ Given
  BY InitInv, InitGiven
<1>2. Inv /\ Given /\ [Next]_vars => Inv' /\ Given'
  BY NextInv, NextGiven
<1>3. Given => ScratchOutlivesMembers
  BY DEF Given
<1> QED BY <1>1, <1>2, <1>3, PTL DEF Spec

-----------------------------------------------------------------------------
(* What a call that says "stopped" has seen to.                            *)

\* Where a call stands that has waited for its start of the task to end.
Waited(c) ==
  \/ cancel[c].pc \in {"observe", "report"}
  \/ cancel[c].pc = "done" /\ cancel[c].result = "stopped"
\* And where one stands that has found the cgroup empty.
FoundEmpty(c) ==
  cancel[c].pc \in {"report", "done"} /\ cancel[c].result = "stopped"

\* Until the task is started again, there is no wrapper that could dispatch
\* anything, and nothing runs.
Ended ==
  /\ Loaded
  /\ \A c \in Cancellers :
       /\ cancel[c].run <= task.run
       /\ cancel[c].pc # "escalate"
       /\ Waited(c) /\ cancel[c].run = task.run => wrapper.pc \in {"none", "exited"}
       /\ FoundEmpty(c) /\ cancel[c].run = task.run => members = {}

LEMMA InitEnded == Init => Ended
  BY DEF Init, Ended, Loaded, Waited, FoundEmpty, IdleCanceller, NoWrapper

\* A step that makes no call say more than it did, and starts no process.
LEMMA KeepsEnded ==
  ASSUME Inv, Ended, Loaded', UNCHANGED cancel,
         \/ task'.run = task.run + 1
         \/ /\ UNCHANGED task \/ task'.run = task.run
            /\ wrapper.pc \in {"none", "exited"} =>
                 wrapper'.pc \in {"none", "exited"} /\ members' \subseteq members
  PROVE  Ended'
<1>1. task.run \in Nat /\ task'.run >= task.run /\ cancel \in [Cancellers -> Canceller]
  BY MaxRunsAssumption DEF Inv, TypeOK, Task
<1>2. \A c \in Cancellers : cancel[c].run \in Nat
  BY <1>1, MaxRunsAssumption DEF Canceller
<1> QED BY <1>1, <1>2 DEF Ended, Waited, FoundEmpty

\* A step of one call: what it has to see to.
LEMMA CallEnded ==
  ASSUME Inv, Ended, Loaded', NEW c \in Cancellers,
         \A d \in Cancellers \ {c} : cancel'[d] = cancel[d],
         task'.run = task.run,
         UNCHANGED wrapper \/ wrapper'.pc \in {"none", "exited"},
         members' \subseteq members,
         cancel'[c].run <= task.run,
         cancel'[c].pc # "escalate",
         Waited(c)' => \/ wrapper'.pc \in {"none", "exited"}
                       \/ Waited(c) /\ cancel'[c].run = cancel[c].run,
         FoundEmpty(c)' => \/ members' = {}
                           \/ FoundEmpty(c) /\ cancel'[c].run = cancel[c].run
  PROVE  Ended'
  BY DEF Ended, Waited, FoundEmpty

LEMMA CancelEnded ==
  ASSUME Guarded = {}, ~Fault("query"), ~Fault("forget"), Inv, Ended,
         NEW c \in Cancellers,
         CancelCall(c) \/ CancelStep(c) \/ CancelBreaksOff(c)
  PROVE  Ended'
<1>1. cancel \in [Cancellers -> Canceller] /\ cancel[c] \in Canceller /\ task \in Task
  BY DEF Inv, TypeOK
<1>2. cancel[c].run <= task.run /\ cancel[c].pc # "escalate" /\ Loaded
  BY DEF Ended
<1>3. Aside
  BY <1>2, OthersAside
<1>4. /\ Loaded' /\ members' \subseteq members
      /\ UNCHANGED wrapper \/ wrapper'.pc \in {"none", "exited"}
  BY <1>3, CallsLeave DEF Aside, NoWrapper
<1>5. task'.run = task.run
  BY CallsLeave
<1>6. ASSUME \A d \in Cancellers \ {c} : cancel'[d] = cancel[d],
             cancel'[c].run <= task.run,
             cancel'[c].pc # "escalate", ~Waited(c)', ~FoundEmpty(c)'
      PROVE  Ended'
  BY <1>4, <1>5, <1>6, CallEnded
<1>7. ASSUME NEW result \in CancelResults \ {"stopped"}, Returns(c, result)
      PROVE  Ended'
  <2>1. /\ \A d \in Cancellers \ {c} : cancel'[d] = cancel[d]
        /\ cancel'[c].pc = "done" /\ cancel'[c].result = result
        /\ cancel'[c].run = cancel[c].run
    BY <1>1, <1>7 DEF Returns, Canceller
  <2> QED BY <1>2, <1>6, <1>7, <2>1 DEF Waited, FoundEmpty
<1>8. ASSUME NEW from, NEW to \in CancelPcs \ {"observe", "report", "done", "escalate"},
             CancelGoes(c, from, to)
      PROVE  Ended'
  <2>1. /\ \A d \in Cancellers \ {c} : cancel'[d] = cancel[d]
        /\ cancel'[c].pc = to /\ cancel'[c].run = cancel[c].run
    BY <1>1, <1>8 DEF CancelGoes, Canceller
  <2> QED BY <1>2, <1>6, <1>8, <2>1 DEF Waited, FoundEmpty
<1>9. CASE CancelCall(c) \/ CancelCompares(c) \/ CancelIntends(c) \/ CancelBreaksOff(c)
  BY <1>7, <1>8, <1>9 DEF CancelCall, CancelCompares, CancelIntends, CancelBreaksOff, CancelUnanswered, CancellerDies,
    CancelPcs, CancelResults
<1>10. CASE CancelReads(c)
  <2>1. \/ \E r \in {"gone", "terminal", "incomplete"} : Returns(c, r)
        \/ CancelGoes(c, "read", "intent")
        \/ cancel' = [cancel EXCEPT ![c].pc = "mark", ![c].run = task.run]
    BY <1>1, <1>10 DEF CancelReads, Task, Statuses
  <2>2. CASE cancel' = [cancel EXCEPT ![c].pc = "mark", ![c].run = task.run]
    BY <1>1, <1>6, <2>2, MaxRunsAssumption DEF Canceller, Task, Waited, FoundEmpty
  <2> QED BY <1>7, <1>8, <2>1, <2>2 DEF CancelPcs, CancelResults
<1>11. CASE CancelRereads(c)
  <2>1. CASE \E r \in {"gone"} : Returns(c, r)
    BY <1>7, <2>1 DEF CancelResults
  <2>2. CASE cancel' = [cancel EXCEPT ![c].pc = "mark", ![c].run = StartedAt]
    <3>1. StartedAt <= task.run
      BY <1>1, MaxRunsAssumption DEF StartedAt, Task
    <3> QED BY <1>1, <1>6, <2>2, <3>1 DEF Canceller, Waited, FoundEmpty
  <2> QED BY <1>11, <2>1, <2>2 DEF CancelRereads
<1>12. CASE CancelRereadsQueued(c)
  BY <1>7, <1>8, <1>12 DEF CancelRereadsQueued, CancelUnresolved, CancelPcs, CancelResults
<1>13. CASE CancelRemoves(c)
  BY <1>7, <1>8, <1>13 DEF CancelRemoves, CancelUnresolved, CancelPcs, CancelResults
<1>14. CASE CancelConfirms(c)
  BY <1>7, <1>14 DEF CancelConfirms, CancelResults
<1>15. CASE CancelMarksQueued(c) \/ CancelMarks(c) \/ CancelCaptures(c)
  <2>1. /\ \A d \in Cancellers \ {c} : cancel'[d] = cancel[d]
        /\ cancel'[c].pc \in {"reread_queued", "capture", "stop"}
        /\ cancel'[c].run = cancel[c].run
    <3>1. CASE CancelMarksQueued(c)
      BY <1>1, <3>1 DEF CancelMarksQueued, Canceller
    <3>2. CASE CancelMarks(c)
      BY <1>1, <3>2 DEF CancelMarks, Canceller
    <3>3. CASE CancelCaptures(c)
      BY <1>1, <3>3 DEF CancelCaptures, Canceller
    <3> QED BY <1>15, <3>1, <3>2, <3>3
  <2> QED BY <1>2, <1>6, <2>1 DEF Waited, FoundEmpty
<1>16. CASE CancelStops(c)
  BY <1>8, <1>16 DEF CancelStops, CancelPcs
<1>17. CASE CancelSettles(c)
  <2>1. CASE CancelGoes(c, "settle", "kill")
    BY <1>8, <2>1 DEF CancelPcs
  <2>2. CASE task.status \in {"Done", "Gone"} /\ CancelGoes(c, "settle", "observe")
    <3>1. wrapper.pc = "none" /\ UNCHANGED wrapper
      BY <1>17, <2>2 DEF CancelSettles, Inv, Queue
    <3>2. /\ \A d \in Cancellers \ {c} : cancel'[d] = cancel[d]
          /\ cancel'[c].pc = "observe" /\ cancel'[c].run = cancel[c].run
      BY <1>1, <2>2 DEF CancelGoes, Canceller
    <3> QED BY <1>2, <1>4, <1>5, <3>1, <3>2, CallEnded DEF FoundEmpty
  <2> QED BY <1>17, <2>1, <2>2 DEF CancelSettles
<1>18. CASE CancelKills(c)
  <2>1. /\ \A d \in Cancellers \ {c} : cancel'[d] = cancel[d]
        /\ cancel'[c].pc = "observe" /\ cancel'[c].run = cancel[c].run
    BY <1>1, <1>18 DEF CancelKills, CancelGoes, Canceller
  <2>2. wrapper'.pc \in {"none", "exited"}
    BY <1>18 DEF CancelKills, KillWrapper, WrapperAlive, NoWrapper
  <2> QED BY <1>2, <1>4, <1>5, <2>1, <2>2, CallEnded DEF FoundEmpty
<1>19. CASE CancelObserves(c)
  <2>1. PICK o \in Observations(cancel[c].cgroup) :
          cancel' = [cancel EXCEPT ![c].pc = "report", ![c].cgroup = o.cgroup,
                      ![c].result = IF o.status = "empty" THEN "stopped"
                                    ELSE "incomplete"]
    BY <1>19 DEF CancelObserves
  <2>2. o.status = "empty" => members = {}
    BY <1>2 DEF Observations, UnitCgroup, CgroupStatus, MayFail, Loaded
  <2>3. /\ \A d \in Cancellers \ {c} : cancel'[d] = cancel[d]
        /\ cancel'[c].pc = "report" /\ cancel'[c].run = cancel[c].run
        /\ cancel'[c].result = IF o.status = "empty" THEN "stopped" ELSE "incomplete"
    BY <1>1, <2>1 DEF Canceller
  <2>4. Waited(c) /\ UNCHANGED <<wrapper, members>>
    BY <1>19 DEF CancelObserves, Waited, unitVars
  <2> QED BY <1>2, <1>4, <1>5, <2>2, <2>3, <2>4, CallEnded DEF FoundEmpty
<1>20. CASE CancelReports(c)
  <2>1. /\ \A d \in Cancellers \ {c} : cancel'[d] = cancel[d]
        /\ cancel'[c].pc = "done" /\ cancel'[c].run = cancel[c].run
        /\ cancel'[c].result = cancel[c].result /\ cancel[c].pc = "report"
    BY <1>1, <1>20 DEF CancelReports, Returns, Canceller
  <2> QED BY <1>2, <1>4, <1>5, <2>1, CallEnded DEF Waited, FoundEmpty
<1>21. ~CancelEscalates(c)
  BY <1>2 DEF CancelEscalates
<1> QED BY <1>9, <1>10, <1>11, <1>12, <1>13, <1>14, <1>15, <1>16, <1>17, <1>18,
           <1>19, <1>20, <1>21 DEF CancelStep

LEMMA NextEnded ==
  ASSUME Guarded = {}, ~Fault("query"), ~Fault("forget"), Inv, Given, Ended, [Next]_vars
  PROVE  Ended'
<1>1. Loaded' /\ Loaded /\ task \in Task
  BY NextGiven DEF Given, Inv, TypeOK
<1>2. CASE WrapperStep
  <2>1. UNCHANGED <<task, cancel>>
    <3>1. CASE WrapperBegin \/ WrapperClaims \/ WrapperDispatches
      BY <3>1 DEF WrapperBegin, WrapperClaims, WrapperDispatches, fileVars
    <3> QED BY <1>2, <3>1, WrapperKeeps
  <2>2. wrapper.pc \notin {"none", "exited"}
    BY <1>2, StepRuns
  <2> QED BY <1>1, <2>1, <2>2, KeepsEnded
<1>3. CASE Environment \/ Operator \/ AtRest \/ UNCHANGED vars
  <2>1. Aside
    BY <1>1, <1>3, OthersAside
  <2>2. CASE TaskStart
    BY <1>1, <2>2, KeepsEnded DEF TaskStart, Task
  <2>3. CASE TaskReap \/ WrapperKilled
    BY <1>1, <2>1, <2>3, KeepsEnded
    DEF TaskReap, WrapperKilled, KillWrapper, Task, NoWrapper, Aside
  <2>4. CASE PayloadEnds \/ RuntimeExpires \/ UnitUnloads \/ SurvivorsExit
    BY <1>1, <2>1, <2>4, KeepsEnded
    DEF PayloadEnds, RuntimeExpires, UnitUnloads, SurvivorsExit, Aside
  <2>5. CASE Operator \/ AtRest \/ UNCHANGED vars
    <3>1. task'.run = task.run /\ UNCHANGED <<wrapper, cancel>>
      BY <1>1, <2>5 DEF Operator, RetryChecks, RetryClears, RetryRestarts, CleanChecks,
        CleanRemoves, CleanUnmarks, AtRest, vars, Task
    <3> QED BY <1>1, <2>1, <3>1, KeepsEnded DEF Aside
  <2> QED BY <1>3, <2>2, <2>3, <2>4, <2>5 DEF Environment
<1> QED BY <1>2, <1>3, CancelEnded DEF Next

\* A caller without --expected-attempt that is told "stopped" can rely on it
\* until the task is started again, however many other calls, retries and
\* kills there are, whatever survives a stop, and whoever dies -- as long as
\* pueue and systemctl answer, and the manager drops no unit whose cgroup is
\* populated.
THEOREM StoppedStays ==
  ASSUME Guarded = {}, ~Fault("query"), ~Fault("forget")
  PROVE  Spec => []StoppedMeansStopped
<1>1. Init => Inv /\ Given /\ Ended
  BY InitInv, InitGiven, InitEnded
<1>2. Inv /\ Given /\ Ended /\ [Next]_vars => Inv' /\ Given' /\ Ended'
  BY NextInv, NextGiven, NextEnded
<1>3. Ended => StoppedMeansStopped
  BY DEF Ended, FoundEmpty, StoppedMeansStopped
<1> QED BY <1>1, <1>2, <1>3, PTL DEF Spec

-----------------------------------------------------------------------------
(* Custody beside calls of cancel that are made one after another.         *)

\* Where a call stands that has dropped the record of a wrapper, or may
\* have, and is about to write its own.
Recording(c) ==
  cancel[c].pc \in {"mark_queued", "reread_queued", "reread", "mark", "capture"}

\* Live processes are on record, or a call under way is about to put them
\* there; and there are none from the moment a retry or a clean is admitted, or
\* a call has the task removed, until a unit starts.
OnRecord ==
  /\ members # {} \/ wrapper.pc = "dispatch" =>
       GuardedBy(disposition) \/ \E c \in Cancellers : Recording(c)
  /\ \/ task.status \in {"Queued", "Gone"}
     \/ wrapper.pc \in Undispatched
     \/ retrying # "idle"
     \/ cleaning # "idle"
     => members = {}
  /\ cleaning # "idle" => task.status \in {"Done", "Gone"} /\ retrying = "idle"
  /\ \A c \in Cancellers : cancel[c].pc \in {"remove", "confirm"} => members = {}
  /\ \A c \in Cancellers : cancel[c].pc = "report" => cancel[c].cgroup # "nokey"

LEMMA InitOnRecord == Init => OnRecord
  BY DEF Init, OnRecord, NoWrapper, IdleCanceller

\* A guarding record lets nobody pass while the cgroup is populated.
LEMMA GuardedDrained ==
  ASSUME Loaded, GuardedBy(disposition), MayPass(disposition)
  PROVE  members = {}
  BY DEF Loaded, GuardedBy, MayPass, Observations, UnitCgroup, CgroupStatus, MayFail

\* With one command at a time, neither does a record that guards nothing.
LEMMA RecordDrained ==
  ASSUME ~Fault("overlap"), Loaded, OnRecord, MayBegin, MayPass(disposition)
  PROVE  members = {}
<1>1. ~\E c \in Cancellers : Recording(c)
  BY DEF MayBegin, InFlight, Recording
<1> QED BY <1>1, GuardedDrained DEF OnRecord

LEMMA KeepsOnRecord ==
  ASSUME OnRecord, members' \subseteq members,
         UNCHANGED <<disposition, cancel, operatorVars>>,
         wrapper'.pc = "dispatch" => wrapper.pc = "dispatch",
         \/ task'.status \in {"Queued", "Gone"}
         \/ wrapper'.pc \in Undispatched
         => \/ members' = {}
            \/ task.status \in {"Queued", "Gone"}
            \/ wrapper.pc \in Undispatched
            \/ retrying # "idle",
         cleaning # "idle" => task'.status \in {"Done", "Gone"}
  PROVE  OnRecord'
  BY DEF OnRecord, Recording, GuardedBy, operatorVars

LEMMA WrapperOnRecord ==
  ASSUME Inv, Exclusion, OnRecord, Loaded, WrapperStep
  PROVE  OnRecord'
<1>1. wrapper \in Wrapper
  BY DEF Inv, TypeOK
<1> USE DEF Undispatched
<1>2. CASE WrapperBegin
  BY <1>1, <1>2, KeepsOnRecord
  DEF WrapperBegin, OnRecord, Wrapper, unitVars, operatorVars
<1>3. CASE WrapperClaims
  <2>1. members = {} /\ UNCHANGED <<task, members, cancel, operatorVars>>
    BY <1>3 DEF WrapperClaims, WrapperConcludes, OnRecord, unitVars
  <2>2. CASE MarkerTargets
    <3>1. wrapper'.pc = "finish" /\ UNCHANGED disposition
      BY <1>1, <1>3, <2>2 DEF WrapperClaims, WrapperConcludes, Wrapper
    <3> QED BY <2>1, <3>1 DEF OnRecord, operatorVars
  <2>3. CASE ~MarkerTargets
    <3>1. PICK cgroup \in {"path", "null"} :
            disposition' = [kind |-> "claimed", cgroup |-> cgroup,
                            attempt |-> wrapper.attempt]
      BY <1>3, <2>3 DEF WrapperClaims, MayFail
    <3>2. GuardedBy(disposition)'
      BY <3>1 DEF GuardedBy
    <3> QED BY <2>1, <3>2 DEF OnRecord, operatorVars
  <2> QED BY <2>2, <2>3
<1>4. CASE WrapperDispatches
  <2>1. wrapper'.pc \in {"await", "snapshot"} /\ wrapper.pc = "dispatch"
    BY <1>1, <1>4 DEF WrapperDispatches, WrapperGoes, Wrapper
  <2>2. task.status = "Running" /\ retrying = "idle"
    BY <2>1 DEF Inv, Queue
  <2>3. allocation = "wrapper" /\ cleaning = "idle"
    BY <2>1, <2>2 DEF Exclusion, OnRecord
  <2>4. \A c \in Cancellers : cancel[c].pc \notin {"remove", "confirm"}
    BY <2>3, CancellersAssumption DEF Exclusion, Holds, LockedPcs
  <2>5. UNCHANGED <<task, disposition, cancel, operatorVars>>
    BY <1>4 DEF WrapperDispatches, fileVars
  <2> QED BY <2>1, <2>2, <2>3, <2>4, <2>5 DEF OnRecord, Recording, GuardedBy, operatorVars
<1>5. CASE ~WrapperBegin /\ ~WrapperClaims /\ ~WrapperDispatches
  <2>1. wrapper.pc # "none"
    BY StepRuns
  <2>2. task.status = "Running"
    BY <2>1 DEF Inv, Queue
  <2> QED BY <1>5, <2>2, WrapperKeeps, KeepsOnRecord DEF OnRecord
<1> QED BY <1>2, <1>3, <1>4, <1>5

\* A step of one call, and how it answers for the record.
LEMMA CallOnRecord ==
  ASSUME Inv, OnRecord, NEW c \in Cancellers,
         \A d \in Cancellers \ {c} : cancel'[d] = cancel[d],
         members' \subseteq members, UNCHANGED operatorVars,
         UNCHANGED wrapper \/ wrapper' = NoWrapper,
         \/ task'.status = task.status
         \/ task.status = "Running" /\ task'.status = "Done"
         \/ task'.status = "Gone" /\ members' = {},
         \/ GuardedBy(disposition)'
         \/ Recording(c)'
         \/ members' = {} /\ wrapper'.pc # "dispatch"
         \/ UNCHANGED disposition /\ ~Recording(c),
         cancel'[c].pc \in {"remove", "confirm"} => members' = {},
         cancel'[c].pc = "report" => cancel'[c].cgroup # "nokey"
  PROVE  OnRecord'
<1> USE DEF Recording, GuardedBy, operatorVars, Undispatched, NoWrapper
<1>1. members' # {} \/ wrapper'.pc = "dispatch" =>
        GuardedBy(disposition)' \/ \E d \in Cancellers : Recording(d)'
  BY DEF OnRecord
<1>2. \/ task'.status \in {"Queued", "Gone"}
      \/ wrapper'.pc \in Undispatched
      \/ retrying' # "idle"
      \/ cleaning' # "idle"
      => members' = {}
  BY DEF OnRecord
<1>3. cleaning' # "idle" => task'.status \in {"Done", "Gone"} /\ retrying' = "idle"
  BY DEF OnRecord
<1>4. \A d \in Cancellers : cancel'[d].pc \in {"remove", "confirm"} => members' = {}
  BY DEF OnRecord
<1>5. \A d \in Cancellers : cancel'[d].pc = "report" => cancel'[d].cgroup # "nokey"
  BY DEF OnRecord
<1> QED BY <1>1, <1>2, <1>3, <1>4, <1>5 DEF OnRecord

\* A task that has started has a number of starts to show for it.
Started == task.status \in {"Running", "Done"} => task.run > 0

LEMMA NextStarted ==
  ASSUME Inv, Started, [Next]_vars
  PROVE  Started'
<1>1. task \in Task /\ task.run \in Nat
  BY MaxRunsAssumption DEF Inv, TypeOK, Task
<1>2. \/ UNCHANGED <<task.run, task.status>>
      \/ task'.run = task.run + 1
      \/ /\ task'.run = task.run
         /\ \/ task'.status \in {"Queued", "Gone"}
            \/ task.status = "Running"
  <2>1. CASE Environment
    BY <1>1, <2>1 DEF Environment, TaskStart, TaskReap, WrapperKilled, KillWrapper,
      WrapperAlive, PayloadEnds, RuntimeExpires, UnitUnloads, SurvivorsExit, Task, Inv, Queue
  <2>2. CASE Operator
    BY <1>1, <2>2 DEF Operator, RetryChecks, RetryClears, RetryRestarts, CleanChecks,
      CleanRemoves, CleanUnmarks, Task
  <2>3. CASE WrapperStep
    <3>1. CASE WrapperBegin \/ WrapperClaims \/ WrapperDispatches
      BY <3>1 DEF WrapperBegin, WrapperClaims, WrapperDispatches
    <3> QED BY <2>3, <3>1, WrapperKeeps
  <2>4. ASSUME NEW c \in Cancellers, CancelCall(c) \/ CancelStep(c) \/ CancelBreaksOff(c)
        PROVE  \/ UNCHANGED <<task.run, task.status>>
               \/ /\ task'.run = task.run
                  /\ \/ task'.status \in {"Queued", "Gone"}
                     \/ task.status = "Running"
    BY <2>4, CallsLeave
  <2>5. CASE AtRest \/ UNCHANGED vars
    BY <2>5 DEF AtRest, vars
  <2> QED BY <2>1, <2>2, <2>3, <2>4, <2>5 DEF Next
<1> QED BY <1>1, <1>2 DEF Started

LEMMA CancelOnRecord ==
  ASSUME ~Fault("die"), ~Fault("forget"), Inv, Started, Exclusion, OnRecord, Loaded,
         NEW c \in Cancellers, CancelCall(c) \/ CancelStep(c)
  PROVE  OnRecord'
<1>1. /\ cancel \in [Cancellers -> Canceller] /\ cancel[c] \in Canceller
      /\ task \in Task /\ disposition \in Disposition
  BY DEF Inv, TypeOK
<1>2. /\ members' \subseteq members /\ UNCHANGED operatorVars
      /\ UNCHANGED wrapper \/ wrapper' = NoWrapper
  BY CallsLeave, OthersAside DEF Aside
<1>3. \A d \in Cancellers \ {c} : cancel'[d] = cancel[d]
  BY CallsLeave
<1> USE DEF Recording
<1>4. CASE CancelCall(c) \/ CancelCompares(c)
  <2>1. ~Recording(c) /\ UNCHANGED <<task, disposition>>
    BY <1>4 DEF CancelCall, CancelCompares, CancelGoes, fileVars
  <2>2. cancel'[c].pc \in {"read", "guard", "done"}
    BY <1>1, <1>4 DEF CancelCall, CancelCompares, CancelGoes, Returns, Canceller
  <2> QED BY <1>2, <1>3, <2>1, <2>2, CallOnRecord
<1>5. CASE CancelReads(c)
  <2>1. ~Recording(c) /\ UNCHANGED <<task, disposition>>
    BY <1>5 DEF CancelReads, fileVars
  <2>2. cancel'[c].pc \in {"done", "intent", "mark"}
    <3>1. \/ \E r \in {"gone", "terminal", "incomplete"} : Returns(c, r)
          \/ CancelGoes(c, "read", "intent")
          \/ cancel' = [cancel EXCEPT ![c].pc = "mark", ![c].run = task.run]
      BY <1>1, <1>5 DEF CancelReads, Task, Statuses
    <3> QED BY <1>1, <3>1 DEF CancelGoes, Returns, Canceller
  <2> QED BY <1>2, <1>3, <2>1, <2>2, CallOnRecord
<1>6. CASE CancelIntends(c) \/ CancelMarksQueued(c) \/ CancelMarks(c)
  <2>1. /\ UNCHANGED task
        /\ cancel'[c].pc \in {"mark_queued", "reread_queued", "capture"}
    <3>1. CASE CancelIntends(c)
      BY <1>1, <3>1 DEF CancelIntends, CancelGoes, Canceller
    <3>2. CASE CancelMarksQueued(c)
      BY <1>1, <3>2 DEF CancelMarksQueued, Canceller
    <3>3. CASE CancelMarks(c)
      BY <1>1, <3>3 DEF CancelMarks, Canceller
    <3> QED BY <1>6, <3>1, <3>2, <3>3
  <2> QED BY <1>2, <1>3, <2>1, CallOnRecord
<1>7. CASE CancelRereadsQueued(c)
  <2>1. CASE StartedAt # 0
    <3>1. cancel'[c].pc = "reread" /\ UNCHANGED task
      BY <1>1, <1>7, <2>1 DEF CancelRereadsQueued, CancelGoes, Canceller
    <3> QED BY <1>2, <1>3, <3>1, CallOnRecord
  <2>2. CASE StartedAt = 0
    <3>1. task.status \in {"Queued", "Gone"}
      BY <1>1, <2>2 DEF StartedAt, Started, Task, Statuses
    <3>2. members = {} /\ wrapper.pc = "none"
      BY <3>1 DEF OnRecord, Inv, Queue
    <3>3. cancel'[c].pc \in {"remove", "confirm", "done"} /\ UNCHANGED task
      BY <1>1, <1>7, <2>2 DEF CancelRereadsQueued, CancelGoes, CancelUnresolved, Returns,
        Canceller
    <3> QED BY <1>2, <1>3, <3>2, <3>3, CallOnRecord DEF NoWrapper
  <2> QED BY <2>1, <2>2
<1>8. CASE CancelRemoves(c)
  <2>1. members = {} /\ UNCHANGED members
    BY <1>8 DEF CancelRemoves, OnRecord, unitVars
  <2>2. wrapper.pc # "dispatch"
    BY <1>8, CancellersAssumption DEF CancelRemoves, Exclusion, Holds, LockedPcs
  <2>3. \/ task'.status = task.status
        \/ task'.status = "Gone"
    BY <1>1, <1>8 DEF CancelRemoves, Task
  <2>4. cancel'[c].pc # "report"
    BY <1>1, <1>8 DEF CancelRemoves, CancelGoes, CancelUnresolved, Returns, Canceller
  <2> QED BY <1>2, <1>3, <2>1, <2>2, <2>3, <2>4, CallOnRecord DEF NoWrapper
<1>9. CASE CancelConfirms(c)
  <2>1. members = {} /\ UNCHANGED <<members, task>>
    BY <1>9 DEF CancelConfirms, OnRecord, unitVars
  <2>2. wrapper.pc # "dispatch"
    BY <1>9, CancellersAssumption DEF CancelConfirms, Exclusion, Holds, LockedPcs
  <2>3. cancel'[c].pc = "done"
    BY <1>1, <1>9 DEF CancelConfirms, Returns, Canceller
  <2> QED BY <1>2, <1>3, <2>1, <2>2, <2>3, CallOnRecord DEF NoWrapper
<1>10. CASE CancelRereads(c)
  <2>1. UNCHANGED <<task, members>>
    BY <1>10 DEF CancelRereads, unitVars
  <2>2. CASE task.status = "Gone"
    <3>1. members = {} /\ wrapper.pc = "none"
      BY <2>2 DEF OnRecord, Inv, Queue
    <3>2. cancel'[c].pc = "done"
      BY <1>1, <1>10, <2>2 DEF CancelRereads, Returns, Canceller
    <3> QED BY <1>2, <1>3, <2>1, <3>1, <3>2, CallOnRecord DEF NoWrapper
  <2>3. CASE task.status # "Gone"
    <3>1. cancel'[c].pc = "mark"
      BY <1>1, <1>10, <2>3 DEF CancelRereads, Canceller
    <3> QED BY <1>2, <1>3, <2>1, <3>1, CallOnRecord
  <2> QED BY <2>2, <2>3
<1>11. CASE CancelCaptures(c)
  <2>1. GuardedBy(disposition)' /\ UNCHANGED task
    BY <1>11 DEF CancelCaptures, GuardedBy
  <2>2. cancel'[c].pc = "stop"
    BY <1>1, <1>11 DEF CancelCaptures, Canceller
  <2> QED BY <1>2, <1>3, <2>1, <2>2, CallOnRecord
<1>12. CASE CancelStops(c) \/ CancelSettles(c) \/ CancelEscalates(c) \/ CancelKills(c)
  <2>1. ~Recording(c) /\ UNCHANGED disposition
    BY <1>12 DEF CancelStops, CancelSettles, CancelEscalates, CancelKills, CancelGoes,
      fileVars
  <2>2. cancel'[c].pc \in {"settle", "observe", "escalate", "kill", "done"}
    <3>1. CASE CancelStops(c)
      BY <1>1, <3>1 DEF CancelStops, CancelGoes, Canceller
    <3>2. CASE CancelSettles(c)
      BY <1>1, <3>2 DEF CancelSettles, CancelGoes, Canceller
    <3>3. CASE CancelEscalates(c)
      BY <1>1, <3>3 DEF CancelEscalates, CancelGoes, Returns, Canceller
    <3>4. CASE CancelKills(c)
      BY <1>1, <3>4 DEF CancelKills, CancelGoes, Canceller
    <3> QED BY <1>12, <3>1, <3>2, <3>3, <3>4
  <2>3. \/ task'.status = task.status
        \/ task.status = "Running" /\ task'.status = "Done"
    <3>1. CASE KillWrapper
      BY <1>1, <3>1 DEF KillWrapper, WrapperAlive, Task, Inv, Queue
    <3> QED BY <1>12, <3>1 DEF CancelStops, CancelSettles, CancelEscalates, CancelKills
  <2> QED BY <1>2, <1>3, <2>1, <2>2, <2>3, CallOnRecord
<1>13. CASE CancelObserves(c)
  <2>1. PICK o \in Observations(cancel[c].cgroup) :
          cancel' = [cancel EXCEPT ![c].pc = "report", ![c].cgroup = o.cgroup,
                      ![c].result = IF o.status = "empty" THEN "stopped"
                                    ELSE "incomplete"]
    BY <1>13 DEF CancelObserves
  <2>2. o.cgroup # "nokey"
    BY DEF Observations, UnitCgroup, MayFail
  <2>3. cancel'[c].pc = "report" /\ cancel'[c].cgroup # "nokey"
    BY <1>1, <2>1, <2>2 DEF Canceller
  <2>4. ~Recording(c) /\ UNCHANGED <<task, disposition>>
    BY <1>13 DEF CancelObserves, fileVars
  <2> QED BY <1>2, <1>3, <2>3, <2>4, CallOnRecord
<1>14. CASE CancelReports(c)
  <2>1. GuardedBy(disposition)' /\ UNCHANGED task
    BY <1>14 DEF CancelReports, GuardedBy, OnRecord
  <2>2. cancel'[c].pc = "done"
    BY <1>1, <1>14 DEF CancelReports, Returns, Canceller
  <2> QED BY <1>2, <1>3, <2>1, <2>2, CallOnRecord
<1> QED BY <1>4, <1>5, <1>6, <1>7, <1>8, <1>9, <1>10, <1>11, <1>12, <1>13, <1>14
        DEF CancelStep

LEMMA NextOnRecord ==
  ASSUME ~Fault("query"), ~Fault("overlap"), ~Fault("die"), ~Fault("forget"),
         Inv, Started, Exclusion, Given, OnRecord, [Next]_vars
  PROVE  OnRecord'
<1>1. Loaded /\ task \in Task
  BY DEF Given, Inv, TypeOK
<1>2. CASE Environment
  <2>1. members' \subseteq members /\ UNCHANGED <<disposition, cancel, operatorVars>>
    BY <1>1, <1>2, OthersAside
    DEF Aside, Environment, TaskStart, TaskReap, WrapperKilled, KillWrapper,
        PayloadEnds, RuntimeExpires, UnitUnloads, SurvivorsExit, fileVars
  <2>2. CASE TaskStart
    <3>1. task.status = "Queued" /\ cleaning = "idle"
      BY <2>2 DEF TaskStart, OnRecord
    <3> QED BY <2>1, <2>2, <3>1, KeepsOnRecord DEF TaskStart, NoWrapper, Undispatched
  <2>3. CASE TaskReap \/ WrapperKilled
    <3>1. wrapper' = NoWrapper /\ task'.status = "Done"
      BY <1>1, <2>3 DEF TaskReap, WrapperKilled, KillWrapper, Task
    <3> QED BY <2>1, <3>1, KeepsOnRecord DEF NoWrapper, Undispatched
  <2>4. CASE PayloadEnds \/ RuntimeExpires \/ UnitUnloads \/ SurvivorsExit
    <3>1. UNCHANGED <<task, wrapper>>
      BY <2>4 DEF PayloadEnds, RuntimeExpires, UnitUnloads, SurvivorsExit
    <3> QED BY <2>1, <3>1, KeepsOnRecord DEF OnRecord
  <2> QED BY <1>2, <2>2, <2>3, <2>4 DEF Environment
<1>3. CASE RetryChecks \/ CleanChecks
  BY <1>1, <1>3, RecordDrained
  DEF RetryChecks, CleanChecks, MayBegin, OnRecord, Recording, GuardedBy, unitVars, fileVars
<1>4. CASE RetryClears
  <2>1. members = {} /\ wrapper.pc # "dispatch"
    BY <1>4 DEF RetryClears, OnRecord, Inv, Queue
  <2> QED BY <1>4, <2>1 DEF RetryClears, OnRecord, Recording, unitVars
<1>5. CASE RetryRestarts
  <2>1. members = {} /\ cleaning = "idle"
    BY <1>5 DEF RetryRestarts, OnRecord
  <2> QED BY <1>5, <2>1 DEF RetryRestarts, OnRecord, Recording, GuardedBy, unitVars, fileVars
<1>6. CASE CleanRemoves
  <2>1. members = {} /\ (task'.status = "Gone" \/ task' = task)
    BY <1>1, <1>6 DEF CleanRemoves, OnRecord, Task
  <2> QED BY <1>6, <2>1 DEF CleanRemoves, OnRecord, Recording, GuardedBy, unitVars, fileVars
<1>7. CASE CleanUnmarks
  BY <1>7 DEF CleanUnmarks, OnRecord, Recording, GuardedBy, unitVars
<1>8. CASE AtRest \/ UNCHANGED vars
  BY <1>8, KeepsOnRecord DEF AtRest, OnRecord, vars, unitVars, fileVars
<1>9. ASSUME NEW c \in Cancellers, CancelBreaksOff(c)
      PROVE  FALSE
  BY <1>9 DEF CancelBreaksOff, CancelUnanswered, CancellerDies
<1> QED BY <1>1, <1>2, <1>3, <1>4, <1>5, <1>6, <1>7, <1>8, <1>9, WrapperOnRecord,
           CancelOnRecord DEF Next, Operator

\* Calls of cancel that are made one after another, and each of which is
\* answered and seen through, keep what is left in the cgroup on record too: a
\* call that drops the record of the wrapper (_cancel_not_started) writes its
\* own before it returns.  A look at the queue that fails in between ends the
\* call and leaves its intent as the record, so pueue has to answer.
THEOREM CustodyKeptBesideCancels ==
  ASSUME ~Fault("query"), ~Fault("overlap"), ~Fault("die"), ~Fault("forget")
  PROVE  Spec => []CustodyRetained
<1>1. Init => Inv /\ Started /\ Exclusion /\ Given /\ OnRecord
  BY InitInv, InitExclusion, InitGiven, InitOnRecord DEF Init, Started
<1>2. Inv /\ Started /\ Exclusion /\ Given /\ OnRecord /\ [Next]_vars =>
        Inv' /\ Started' /\ Exclusion' /\ Given' /\ OnRecord'
  BY NextInv, NextStarted, NextExclusion, NextGiven, NextOnRecord
<1>3. Given /\ OnRecord => CustodyRetained
  BY RecordDrained DEF Given, CustodyRetained
<1> QED BY <1>1, <1>2, <1>3, PTL DEF Spec

\* Whatever the manager keeps loaded, no two attempts ever have processes in
\* the unit's cgroup: a unit whose name is loaded is not dispatched again.
THEOREM OneAttemptAtATime ==
  ASSUME ~Fault("forget")
  PROVE  Spec => []OneAttemptInCgroup
<1>1. Init => Inv /\ Given /\ OneAttemptInCgroup
  BY InitInv, InitGiven DEF Init, OneAttemptInCgroup
<1>2. Inv /\ Given /\ OneAttemptInCgroup /\ [Next]_vars =>
        Inv' /\ Given' /\ OneAttemptInCgroup'
  <2> SUFFICES ASSUME Inv, Given, OneAttemptInCgroup, [Next]_vars
               PROVE  OneAttemptInCgroup'
    BY NextInv, NextGiven
  <2>1. CASE WrapperDispatches
    BY <2>1 DEF WrapperDispatches, Given, Loaded, OneAttemptInCgroup
  <2>2. CASE WrapperStep /\ ~WrapperDispatches
    <3>1. members' \subseteq members
      BY <2>2, WrapperKeeps DEF WrapperBegin, WrapperClaims, unitVars
    <3> QED BY <3>1 DEF OneAttemptInCgroup
  <2>3. CASE ~WrapperStep
    <3>1. members' \subseteq members
      BY <2>3, OthersAside DEF Given, Aside, Next
    <3> QED BY <3>1 DEF OneAttemptInCgroup
  <2> QED BY <2>1, <2>2, <2>3
<1> QED BY <1>1, <1>2, PTL DEF Spec

-----------------------------------------------------------------------------
(* What a read may call terminal.                                          *)

\* While nobody cancels, the record of the cgroup decides.
THEOREM ReportedDrained ==
  ASSUME Cancellers = {}
  PROVE  Spec => []ReportedIsDrained
<1>1. Init => Inv /\ Custody
  BY InitInv, InitCustody
<1>2. Inv /\ Custody /\ [Next]_vars => Inv' /\ Custody'
  BY NextInv, NextCustody
<1>3. Custody => ReportedIsDrained
  BY PassDrained DEF ReportedIsDrained, Reported, Custody
<1> QED BY <1>1, <1>2, <1>3, PTL DEF Spec

\* Where a call deals with the start of the task that it has found.
Dealing(c) ==
  cancel[c].pc \in {"mark", "capture", "stop", "settle", "kill", "observe", "report"}

\* One command at a time: a call deals with the last start of the task until it
\* returns, and what is recorded of a job that was cancelled stays true until
\* a retry clears it.
Settled ==
  /\ retrying # "idle" \/ cleaning # "idle" => \A c \in Cancellers : ~InFlight(c)
  /\ retrying = "cleared" => disposition = NoDisposition
  /\ disposition.kind = "not_started" => task.status = "Gone"
  /\ disposition.kind = "cancelled" =>
       /\ members = {} /\ wrapper.pc \in {"none", "exited"}
       /\ task.status # "Queued"
  /\ \A c \in Cancellers :
       /\ cancel[c].pc = "confirm" => task.status = "Gone"
       /\ cancel[c].pc = "reread" => task.status # "Queued"
       /\ Dealing(c) =>
            task.status # "Queued" /\ (task.status # "Gone" => cancel[c].run = task.run)

LEMMA InitSettled == Init => Settled
  BY DEF Init, Settled, NoDisposition, IdleCanceller, Dealing

\* A step of pueued, of the manager or of a wrapper.
LEMMA KeepsSettled ==
  ASSUME Settled, UNCHANGED <<cancel, operatorVars>>,
         \/ UNCHANGED disposition
         \/ disposition'.kind = "claimed" /\ retrying = "idle",
         \/ task.status = "Queued"
         \/ /\ \/ task'.status = task.status
               \/ task.status = "Running" /\ task'.status = "Done"
            /\ task'.run = task.run,
         \/ task.status = "Queued"
         \/ disposition'.kind # "cancelled"
         \/ members' \subseteq members /\ wrapper'.pc \in {"none", "exited"}
  PROVE  Settled'
<1> USE DEF Settled, Dealing, InFlight, operatorVars
<1>1. CASE task.status = "Queued"
  BY <1>1
<1>2. CASE task.status # "Queued"
  BY <1>2
<1> QED BY <1>1, <1>2

\* A step of a call leaves the operator's commands idle.
LEMMA CallSettled ==
  ASSUME Settled, NEW c \in Cancellers, InFlight(c),
         \A d \in Cancellers \ {c} : cancel'[d] = cancel[d],
         UNCHANGED operatorVars, members' \subseteq members,
         UNCHANGED wrapper \/ wrapper'.pc \in {"none", "exited"},
         \/ task'.status = "Gone"
         \/ /\ task'.run = task.run
            /\ \/ task'.status = task.status
               \/ task.status = "Running" /\ task'.status = "Done",
         \/ UNCHANGED disposition
         \/ disposition'.kind \notin {"not_started", "cancelled"}
         \/ disposition'.kind = "not_started" /\ task'.status = "Gone"
         \/ /\ members' = {} /\ wrapper'.pc \in {"none", "exited"} /\ task'.status # "Queued"
            /\ disposition'.kind = "cancelled",
         cancel'[c].pc = "confirm" => task'.status = "Gone",
         cancel'[c].pc = "reread" => task'.status # "Queued",
         Dealing(c)' =>
           /\ task'.status # "Queued"
           /\ task'.status # "Gone" => cancel'[c].run = task'.run
  PROVE  Settled'
<1> USE DEF Dealing, InFlight, operatorVars
<1>1. retrying' = "idle" /\ cleaning' = "idle"
  BY DEF Settled
<1>2. disposition'.kind = "not_started" => task'.status = "Gone"
  BY DEF Settled
<1>3. disposition'.kind = "cancelled" =>
        /\ members' = {} /\ wrapper'.pc \in {"none", "exited"}
        /\ task'.status # "Queued"
  BY DEF Settled
<1>4. \A d \in Cancellers :
        /\ cancel'[d].pc = "confirm" => task'.status = "Gone"
        /\ cancel'[d].pc = "reread" => task'.status # "Queued"
        /\ Dealing(d)' =>
             task'.status # "Queued" /\ (task'.status # "Gone" => cancel'[d].run = task'.run)
  BY DEF Settled
<1> QED BY <1>1, <1>2, <1>3, <1>4 DEF Settled

LEMMA CancelSettled ==
  ASSUME Guarded = {}, ~Fault("query"), ~Fault("forget"), ~Fault("overlap"), ~Fault("die"),
         Inv, Started, Given, OnRecord, Ended, Settled, NEW c \in Cancellers,
         CancelCall(c) \/ CancelStep(c)
  PROVE  Settled'
<1>1. /\ cancel \in [Cancellers -> Canceller] /\ cancel[c] \in Canceller
      /\ task \in Task /\ Loaded /\ disposition \in Disposition
  BY DEF Inv, TypeOK, Given
<1>2. /\ members' \subseteq members /\ UNCHANGED operatorVars
      /\ UNCHANGED wrapper \/ wrapper'.pc \in {"none", "exited"}
  BY <1>1, CallsLeave, OthersAside DEF Aside, NoWrapper
<1>3. \A d \in Cancellers \ {c} : cancel'[d] = cancel[d]
  BY CallsLeave
<1> USE DEF Dealing
<1>4. CASE CancelCall(c)
  <2>1. /\ retrying = "idle" /\ cleaning = "idle"
        /\ UNCHANGED <<task, wrapper, disposition, members>>
    BY <1>4 DEF CancelCall, MayBegin, fileVars, unitVars
  <2>2. cancel'[c].pc \in {"read", "guard"}
    BY <1>1, <1>4 DEF CancelCall, CancelGoes, Canceller
  <2> QED BY <1>2, <1>3, <2>1, <2>2 DEF Settled, operatorVars
<1>5. ASSUME InFlight(c), UNCHANGED <<task, disposition>>,
             ~Dealing(c)', cancel'[c].pc \notin {"confirm", "reread"}
      PROVE  Settled'
  BY <1>2, <1>3, <1>5, CallSettled
<1>6. ASSUME Dealing(c), UNCHANGED <<task, disposition>>, Dealing(c)',
             cancel'[c].run = cancel[c].run
      PROVE  Settled'
  <2>1. InFlight(c) /\ cancel'[c].pc \notin {"confirm", "reread"}
    BY <1>6 DEF InFlight
  <2> QED BY <1>2, <1>3, <1>6, <2>1, CallSettled DEF Settled
<1>7. CASE CancelCompares(c)
  <2>1. cancel'[c].pc \in {"read", "done"}
    BY <1>1, <1>7 DEF CancelCompares, CancelGoes, Returns, Canceller
  <2> QED BY <1>5, <1>7, <2>1 DEF CancelCompares, InFlight, fileVars
<1>8. CASE CancelReads(c)
  <2>1. \/ \E r \in {"gone", "terminal", "incomplete"} : Returns(c, r)
        \/ CancelGoes(c, "read", "intent")
        \/ /\ task.status = "Running"
           /\ cancel' = [cancel EXCEPT ![c].pc = "mark", ![c].run = task.run]
    BY <1>1, <1>8 DEF CancelReads, Task, Statuses
  <2>2. InFlight(c) /\ UNCHANGED <<task, disposition>>
    BY <1>8 DEF CancelReads, InFlight, fileVars
  <2>3. CASE \E r \in {"gone", "terminal", "incomplete"} : Returns(c, r)
    BY <1>1, <1>5, <2>2, <2>3 DEF Returns, Canceller
  <2>4. CASE CancelGoes(c, "read", "intent")
    BY <1>1, <1>5, <2>2, <2>4 DEF CancelGoes, Canceller
  <2>5. CASE /\ task.status = "Running"
             /\ cancel' = [cancel EXCEPT ![c].pc = "mark", ![c].run = task.run]
    <3>1. cancel'[c].pc = "mark" /\ cancel'[c].run = task.run
      BY <1>1, <2>5 DEF Canceller
    <3> QED BY <1>2, <1>3, <2>2, <2>5, <3>1, CallSettled
  <2> QED BY <2>1, <2>3, <2>4, <2>5
<1>9. CASE CancelIntends(c)
  <2>1. disposition'.kind = "intent"
    BY <1>9 DEF CancelIntends, NoDisposition
  <2>2. cancel'[c].pc = "mark_queued" /\ InFlight(c) /\ UNCHANGED task
    BY <1>1, <1>9 DEF CancelIntends, CancelGoes, InFlight, Canceller
  <2> QED BY <1>2, <1>3, <2>1, <2>2, CallSettled
<1>10. CASE CancelMarksQueued(c)
  <2>1. /\ cancel'[c].pc = "reread_queued" /\ InFlight(c)
        /\ UNCHANGED <<task, disposition>>
    BY <1>1, <1>10 DEF CancelMarksQueued, InFlight, Canceller
  <2> QED BY <1>5, <2>1
<1>11. CASE CancelRereadsQueued(c)
  <2>1. InFlight(c) /\ UNCHANGED task
    BY <1>11 DEF CancelRereadsQueued, InFlight
  <2>2. CASE StartedAt # 0
    <3>1. cancel'[c].pc = "reread" /\ UNCHANGED disposition
      BY <1>1, <1>11, <2>2 DEF CancelRereadsQueued, CancelGoes, Canceller
    <3>2. task.status # "Queued"
      BY <2>2 DEF StartedAt
    <3> QED BY <1>2, <1>3, <2>1, <3>1, <3>2, CallSettled
  <2>3. CASE StartedAt = 0 /\ UnfinishedAttempt
    <3>1. disposition'.kind = "unresolved" /\ cancel'[c].pc = "done"
      BY <1>1, <1>11, <2>3
      DEF CancelRereadsQueued, CancelUnresolved, NoDisposition, Returns, Canceller
    <3> QED BY <1>2, <1>3, <2>1, <3>1, CallSettled
  <2>4. CASE StartedAt = 0 /\ ~UnfinishedAttempt
    <3>1. /\ cancel'[c].pc = IF task.status = "Gone" THEN "confirm" ELSE "remove"
          /\ UNCHANGED disposition
      BY <1>1, <1>11, <2>4 DEF CancelRereadsQueued, CancelGoes, Canceller
    <3> QED BY <1>2, <1>3, <2>1, <3>1, CallSettled
  <2> QED BY <2>2, <2>3, <2>4
<1>12. CASE CancelRemoves(c)
  <2>1. InFlight(c)
    BY <1>12 DEF CancelRemoves, CancelGoes, CancelUnresolved, InFlight
  <2>2. \/ /\ task'.status = "Gone" /\ CancelGoes(c, "remove", "confirm")
        \/ /\ UNCHANGED task /\ StartedAt # 0 /\ CancelGoes(c, "remove", "reread")
    BY <1>1, <1>12 DEF CancelRemoves, Task
  <2>3. UNCHANGED disposition
    BY <1>12 DEF CancelRemoves
  <2>4. CASE task'.status = "Gone" /\ CancelGoes(c, "remove", "confirm")
    <3>1. cancel'[c].pc = "confirm"
      BY <1>1, <2>4 DEF CancelGoes, Canceller
    <3> QED BY <1>2, <1>3, <2>1, <2>3, <2>4, <3>1, CallSettled
  <2>5. CASE UNCHANGED task /\ StartedAt # 0 /\ CancelGoes(c, "remove", "reread")
    <3>1. cancel'[c].pc = "reread" /\ task.status # "Queued"
      BY <1>1, <2>5 DEF CancelGoes, StartedAt, Canceller
    <3> QED BY <1>2, <1>3, <2>1, <2>3, <2>5, <3>1, CallSettled
  <2> QED BY <2>2, <2>4, <2>5
<1>13. CASE CancelConfirms(c)
  <2>1. /\ task.status = "Gone" /\ UNCHANGED task /\ InFlight(c)
        /\ disposition'.kind = "not_started"
    BY <1>13 DEF CancelConfirms, Settled, InFlight, NoDisposition
  <2>2. cancel'[c].pc = "done"
    BY <1>1, <1>13 DEF CancelConfirms, Returns, Canceller
  <2> QED BY <1>2, <1>3, <2>1, <2>2, CallSettled
<1>14. CASE CancelRereads(c)
  <2>1. task.status # "Queued" /\ UNCHANGED <<task, disposition>> /\ InFlight(c)
    BY <1>14 DEF CancelRereads, Settled, InFlight, fileVars
  <2>2. CASE task.status = "Gone"
    <3>1. cancel'[c].pc = "done"
      BY <1>1, <1>14, <2>2 DEF CancelRereads, Returns, Canceller
    <3> QED BY <1>5, <2>1, <3>1
  <2>3. CASE task.status # "Gone"
    <3>1. cancel'[c].pc = "mark" /\ cancel'[c].run = task.run
      BY <1>1, <1>14, <2>1, <2>3 DEF CancelRereads, StartedAt, Canceller, Task, Statuses
    <3> QED BY <1>2, <1>3, <2>1, <3>1, CallSettled
  <2> QED BY <2>2, <2>3
<1>15. CASE CancelMarks(c)
  <2>1. cancel'[c].pc = "capture" /\ cancel'[c].run = cancel[c].run
    BY <1>1, <1>15 DEF CancelMarks, Canceller
  <2> QED BY <1>6, <1>15, <2>1 DEF CancelMarks
<1>16. CASE CancelCaptures(c)
  <2>1. disposition'.kind = "incomplete" /\ UNCHANGED task /\ Dealing(c) /\ InFlight(c)
    BY <1>16 DEF CancelCaptures, InFlight
  <2>2. cancel'[c].pc = "stop" /\ cancel'[c].run = cancel[c].run
    BY <1>1, <1>16 DEF CancelCaptures, Canceller
  <2> QED BY <1>2, <1>3, <2>1, <2>2, CallSettled DEF Settled
<1>17. CASE CancelStops(c)
  <2>1. cancel'[c].pc = "settle" /\ cancel'[c].run = cancel[c].run /\ Dealing(c)
    BY <1>1, <1>17 DEF CancelStops, CancelGoes, Canceller
  <2> QED BY <1>6, <1>17, <2>1 DEF CancelStops, fileVars
<1>18. CASE CancelSettles(c)
  <2>1. /\ cancel'[c].pc \in {"observe", "kill"}
        /\ cancel'[c].run = cancel[c].run /\ Dealing(c)
    BY <1>1, <1>18 DEF CancelSettles, CancelGoes, Canceller
  <2> QED BY <1>6, <1>18, <2>1 DEF CancelSettles, fileVars
<1>19. CASE CancelKills(c)
  <2>1. /\ cancel'[c].pc = "observe" /\ InFlight(c) /\ UNCHANGED disposition
        /\ cancel'[c].run = cancel[c].run /\ Dealing(c)
    BY <1>1, <1>19 DEF CancelKills, CancelGoes, InFlight, Canceller, fileVars
  <2>2. /\ task'.run = task.run
        /\ \/ task'.status = task.status
           \/ task.status = "Running" /\ task'.status = "Done"
    BY <1>1, <1>19 DEF CancelKills, KillWrapper, WrapperAlive, Task, Inv, Queue
  <2> QED BY <1>2, <1>3, <2>1, <2>2, CallSettled DEF Settled
<1>20. CASE CancelObserves(c)
  <2>1. cancel'[c].pc = "report" /\ cancel'[c].run = cancel[c].run
    BY <1>1, <1>20 DEF CancelObserves, Canceller
  <2> QED BY <1>6, <1>20, <2>1 DEF CancelObserves, fileVars
<1>21. CASE CancelReports(c)
  <2>1. /\ UNCHANGED <<task, wrapper, members>> /\ InFlight(c)
        /\ task.status # "Queued" /\ (task.status # "Gone" => cancel[c].run = task.run)
    BY <1>21 DEF CancelReports, InFlight, Settled, unitVars
  <2>2. cancel'[c].pc = "done"
    BY <1>1, <1>21 DEF CancelReports, Returns, Canceller
  <2>3. CASE cancel[c].result = "stopped"
    <3>1. disposition'.kind = "cancelled"
      BY <1>21, <2>3 DEF CancelReports
    <3>2. members = {} /\ wrapper.pc \in {"none", "exited"}
      <4>1. CASE task.status = "Gone"
        BY <4>1 DEF OnRecord, Inv, Queue
      <4>2. CASE cancel[c].run = task.run
        BY <1>21, <2>3, <4>2 DEF CancelReports, Ended, Waited, FoundEmpty
      <4> QED BY <2>1, <4>1, <4>2
    <3> QED BY <1>2, <1>3, <2>1, <2>2, <3>1, <3>2, CallSettled
  <2>4. CASE cancel[c].result # "stopped"
    <3>1. disposition'.kind = "incomplete"
      BY <1>21, <2>4 DEF CancelReports
    <3> QED BY <1>2, <1>3, <2>1, <2>2, <3>1, CallSettled
  <2> QED BY <2>3, <2>4
<1>22. ~CancelEscalates(c)
  BY DEF CancelEscalates, Ended
<1> QED BY <1>4, <1>7, <1>8, <1>9, <1>10, <1>11, <1>12, <1>13, <1>14, <1>15, <1>16,
           <1>17, <1>18, <1>19, <1>20, <1>21, <1>22 DEF CancelStep

LEMMA NextSettled ==
  ASSUME Guarded = {}, ~Fault("query"), ~Fault("forget"), ~Fault("overlap"), ~Fault("die"),
         Inv, Started, Given, OnRecord, Ended, Settled, [Next]_vars
  PROVE  Settled'
<1>1. task \in Task /\ Loaded
  BY DEF Inv, TypeOK, Given
<1>2. CASE Environment
  <2>1. members' \subseteq members /\ UNCHANGED <<disposition, cancel, operatorVars>>
    BY <1>1, <1>2, OthersAside
    DEF Aside, Environment, TaskStart, TaskReap, WrapperKilled, KillWrapper,
        PayloadEnds, RuntimeExpires, UnitUnloads, SurvivorsExit, fileVars
  <2>2. CASE TaskStart
    BY <2>1, <2>2, KeepsSettled DEF TaskStart
  <2>3. CASE TaskReap \/ WrapperKilled
    <3>1. /\ wrapper' = NoWrapper /\ task'.status = "Done" /\ task'.run = task.run
          /\ task.status = "Running"
      BY <1>1, <2>3 DEF TaskReap, WrapperKilled, KillWrapper, WrapperAlive, Task, Inv, Queue
    <3> QED BY <2>1, <3>1, KeepsSettled DEF NoWrapper
  <2>4. CASE PayloadEnds \/ RuntimeExpires \/ UnitUnloads \/ SurvivorsExit
    <3>1. UNCHANGED <<task, wrapper>>
      BY <2>4 DEF PayloadEnds, RuntimeExpires, UnitUnloads, SurvivorsExit
    <3> QED BY <2>1, <3>1, KeepsSettled DEF Settled
  <2> QED BY <1>2, <2>2, <2>3, <2>4 DEF Environment
<1>3. CASE WrapperStep
  <2>1. wrapper.pc \notin {"none", "exited"}
    BY <1>3, StepRuns
  <2>2. retrying = "idle" /\ disposition.kind # "cancelled"
    BY <2>1 DEF Inv, Queue, Settled
  <2>3. /\ UNCHANGED <<task, cancel, operatorVars>>
        /\ UNCHANGED disposition \/ disposition'.kind = "claimed"
    <3>1. CASE WrapperClaims
      <4>1. UNCHANGED disposition \/ disposition'.kind = "claimed"
        <5>1. CASE MarkerTargets
          BY <3>1, <5>1 DEF WrapperClaims
        <5>2. CASE ~MarkerTargets
          <6>1. PICK cgroup \in {"path"} \cup MayFail("null") :
                  disposition' = [kind |-> "claimed", cgroup |-> cgroup,
                                  attempt |-> wrapper.attempt]
            BY <3>1, <5>2 DEF WrapperClaims
          <6> QED BY <6>1
        <5> QED BY <5>1, <5>2
      <4> QED BY <3>1, <4>1 DEF WrapperClaims
    <3>2. CASE WrapperBegin \/ WrapperDispatches
      BY <3>2 DEF WrapperBegin, WrapperDispatches, fileVars
    <3> QED BY <1>3, <3>1, <3>2, WrapperKeeps
  <2> QED BY <2>2, <2>3, KeepsSettled
<1>4. CASE RetryChecks \/ CleanChecks
  BY <1>4 DEF RetryChecks, CleanChecks, MayBegin, Settled, InFlight, Dealing, unitVars, fileVars
<1>5. CASE RetryClears
  BY <1>5 DEF RetryClears, Settled, InFlight, Dealing, NoDisposition, unitVars
<1>6. CASE RetryRestarts
  <2>1. /\ disposition = NoDisposition /\ \A c \in Cancellers : ~InFlight(c)
        /\ UNCHANGED <<disposition, cancel, wrapper>>
    BY <1>6 DEF RetryRestarts, Settled, fileVars
  <2>2. task.status = "Done" \/ UNCHANGED task
    BY <1>6 DEF RetryRestarts
  <2> QED BY <1>6, <2>1, <2>2 DEF RetryRestarts, Settled, InFlight, Dealing, NoDisposition
<1>7. CASE CleanRemoves
  <2>1. /\ \A c \in Cancellers : ~InFlight(c)
        /\ UNCHANGED <<disposition, cancel, wrapper, members, retrying>>
        /\ task'.status = "Gone" \/ UNCHANGED task
    BY <1>1, <1>7 DEF CleanRemoves, Settled, Task, unitVars, fileVars
  <2> QED BY <1>7, <2>1 DEF CleanRemoves, Settled, InFlight, Dealing
<1>8. CASE CleanUnmarks
  BY <1>8 DEF CleanUnmarks, Settled, InFlight, Dealing, unitVars
<1>9. CASE AtRest \/ UNCHANGED vars
  BY <1>9, KeepsSettled DEF AtRest, Settled, vars, unitVars, fileVars
<1>10. ASSUME NEW c \in Cancellers, CancelBreaksOff(c)
       PROVE  FALSE
  BY <1>10 DEF CancelBreaksOff, CancelUnanswered, CancellerDies
<1> QED BY <1>2, <1>3, <1>4, <1>5, <1>6, <1>7, <1>8, <1>9, <1>10, CancelSettled
        DEF Next, Operator

\* Beside calls of cancel that are made one after another and answered, a job
\* that a read may call terminal has no process left: neither the record of a
\* wrapper nor that of an earlier call is ever taken for the last start.
THEOREM ReportedDrainedBesideCancels ==
  ASSUME Guarded = {}, ~Fault("query"), ~Fault("forget"), ~Fault("overlap"), ~Fault("die")
  PROVE  Spec => []ReportedIsDrained
<1> DEFINE All == /\ Inv /\ Started /\ Exclusion /\ Given
                  /\ OnRecord /\ Ended /\ Settled
<1>1. Init => All
  BY InitInv, InitExclusion, InitGiven, InitOnRecord, InitEnded, InitSettled DEF Init, Started
<1>2. All /\ [Next]_vars => All'
  BY NextInv, NextStarted, NextExclusion, NextGiven, NextOnRecord, NextEnded, NextSettled
<1>3. All => ReportedIsDrained
  <2> SUFFICES ASSUME All, \A c \in Cancellers : ~InFlight(c), Reported
               PROVE  members = {}
    BY DEF ReportedIsDrained
  <2>1. ~\E c \in Cancellers : Recording(c)
    BY DEF InFlight, Recording
  <2>2. CASE GuardedBy(disposition) /\ MayPass(disposition)
    BY <2>2, GuardedDrained DEF Given
  <2>3. CASE ~GuardedBy(disposition)
    BY <2>1, <2>3 DEF OnRecord
  <2>4. CASE disposition.kind \in {"cancelled", "not_started"}
    BY <2>4 DEF Settled, OnRecord
  <2> QED BY <2>2, <2>3, <2>4 DEF Reported, GuardedBy
<1> QED BY <1>1, <1>2, <1>3, PTL DEF Spec

-----------------------------------------------------------------------------
(* No start after a stop.                                                  *)

\* The attempt a call has marked is over, or is no longer one a wrapper will
\* dispatch, or bears the marker its wrapper must meet before it does; or the
\* task is gone.
Condemned(n) ==
  \/ n < attempts
  \/ n = attempts /\ wrapper.pc \notin Undispatched \ {"begin"}
  \/ n = attempts /\ marker = n /\ wrapper.pc # "dispatch"
  \/ n = attempts + 1 /\ marker = n /\ ~UnfinishedAttempt
  \/ task.status = "Gone"

Marked ==
  /\ cleaning = "removed" => task.status = "Gone"
  /\ \A c \in Cancellers :
       /\ cancel[c].pc = "confirm" => task.status = "Gone"
       /\ cancel[c].attempt # NoAttempt => Condemned(cancel[c].attempt)

LEMMA InitMarked == Init => Marked
  BY DEF Init, Marked, IdleCanceller

\* A step that brings no wrapper closer to a dispatch, and leaves the marker
\* and the numbers alone, pardons nobody.
LEMMA KeepsCondemned ==
  ASSUME NEW n, Condemned(n), UNCHANGED <<attempts, marker>>,
         UnfinishedAttempt' => UnfinishedAttempt,
         task.status = "Gone" => task'.status = "Gone",
         wrapper'.pc \in Undispatched \ {"begin"} =>
           wrapper.pc \in Undispatched \ {"begin"},
         wrapper'.pc = "dispatch" => wrapper.pc = "dispatch"
  PROVE  Condemned(n)'
  BY DEF Condemned

LEMMA KeepsMarked ==
  ASSUME Marked, UNCHANGED cancel,
         task.status = "Gone" => task'.status = "Gone",
         cleaning' = "removed" => cleaning = "removed" \/ task'.status = "Gone",
         \A c \in Cancellers :
           Condemned(cancel[c].attempt) => Condemned(cancel[c].attempt)'
  PROVE  Marked'
  BY DEF Marked

\* Outcomes that are published stay, so an attempt that is over stays over.
LEMMA StaysFinished ==
  ASSUME Inv, OutcomeStep, outcome' \in [Attempt -> Outcomes \cup {"none"}],
         UNCHANGED attempts
  PROVE  UnfinishedAttempt' => UnfinishedAttempt
  BY MaxRunsAssumption DEF Inv, TypeOK, UnfinishedAttempt, OutcomeStep, Attempt

LEMMA WrapperMarked ==
  ASSUME Inv, Unpublished, Marked, WrapperStep
  PROVE  Marked'
<1>1. wrapper \in Wrapper /\ attempts \in Nat /\ marker \in Nat
  BY MaxRunsAssumption DEF Inv, TypeOK
<1>2. /\ UNCHANGED <<task, cancel, operatorVars>>
  <2>1. CASE WrapperBegin \/ WrapperClaims \/ WrapperDispatches
    BY <2>1 DEF WrapperBegin, WrapperClaims, WrapperDispatches
  <2> QED BY <2>1, WrapperKeeps
<1>3. ASSUME \A c \in Cancellers :
               Condemned(cancel[c].attempt) => Condemned(cancel[c].attempt)'
      PROVE  Marked'
  BY <1>2, <1>3, KeepsMarked DEF operatorVars
<1>4. \A c \in Cancellers : cancel[c].attempt \in Nat
  BY MaxRunsAssumption DEF Inv, TypeOK, Canceller
<1>5. UNCHANGED attempts => (UnfinishedAttempt' => UnfinishedAttempt)
  <2>1. OutcomeStep /\ outcome' \in [Attempt -> Outcomes \cup {"none"}]
    BY NextUnpublished, NextInv DEF Next, Inv, TypeOK
  <2> QED BY <2>1, StaysFinished
<1>6. CASE WrapperBegin
  <2>1. /\ attempts' = attempts + 1 /\ wrapper'.pc = "prepare"
        /\ marker' = IF marker = attempts + 1 THEN marker ELSE NoAttempt
    BY <1>1, <1>6 DEF WrapperBegin, Wrapper
  <2>2. ASSUME NEW c \in Cancellers, Condemned(cancel[c].attempt)
        PROVE  Condemned(cancel[c].attempt)'
    BY <1>1, <1>2, <1>4, <2>1, <2>2 DEF Condemned
  <2> QED BY <1>3, <2>2
<1>7. CASE WrapperClaims
  <2>1. /\ wrapper.pc = "claim" /\ wrapper.attempt = attempts
        /\ UNCHANGED <<attempts, marker>>
    BY <1>7 DEF WrapperClaims, WrapperConcludes, Inv, Numbers
  <2>2. CASE MarkerTargets
    <3>1. wrapper'.pc = "finish"
      BY <1>1, <1>7, <2>2 DEF WrapperClaims, WrapperConcludes, Wrapper
    <3> QED BY <1>2, <1>3, <1>5, <2>1, <3>1, KeepsCondemned DEF Undispatched
  <2>3. CASE ~MarkerTargets
    <3>1. ASSUME NEW c \in Cancellers, Condemned(cancel[c].attempt)
          PROVE  Condemned(cancel[c].attempt)'
      BY <1>2, <1>4, <1>5, <2>1, <2>3, <3>1
      DEF Condemned, MarkerTargets, Undispatched
    <3> QED BY <1>3, <3>1
  <2> QED BY <2>2, <2>3
<1>8. CASE WrapperFinishes
  <2>1. /\ wrapper'.pc \in {"cleanup", "publish"} /\ wrapper.attempt = attempts
        /\ marker' = IF MarkerTargets THEN NoAttempt ELSE marker
        /\ UNCHANGED attempts
    BY <1>1, <1>8 DEF WrapperFinishes, WrapperGoes, Wrapper, Inv, Numbers
  <2>2. ASSUME NEW c \in Cancellers, Condemned(cancel[c].attempt)
        PROVE  Condemned(cancel[c].attempt)'
    BY <1>1, <1>2, <1>4, <1>5, <2>1, <2>2 DEF Condemned, MarkerTargets, Undispatched
  <2> QED BY <1>3, <2>2
<1>9. CASE WrapperDispatches
  <2>1. /\ wrapper'.pc \in {"await", "snapshot"} /\ UNCHANGED <<attempts, marker>>
    BY <1>1, <1>9 DEF WrapperDispatches, WrapperGoes, Wrapper, fileVars
  <2> QED BY <1>2, <1>3, <1>5, <2>1, KeepsCondemned DEF Undispatched
<1>10. CASE ~WrapperBegin /\ ~WrapperClaims /\ ~WrapperDispatches /\ ~WrapperFinishes
  <2>1. UNCHANGED <<attempts, marker>>
    BY <1>10 DEF WrapperStep, WrapperRefusesEarly, WrapperPrepares, WrapperChecks,
      WrapperTurnedAway, WrapperAdmits, WrapperCannotClaim, WrapperRejected,
      WrapperBacksOff, WrapperSnapshots, WrapperAwaits, WrapperClassifies,
      WrapperReleases, WrapperCleansUp, WrapperPublishes, fileVars
  <2>2. wrapper.pc # "begin" /\ wrapper'.pc # "dispatch"
    BY <1>10, WrapperKeeps
    DEF WrapperStep, WrapperRefusesEarly, WrapperPrepares, WrapperChecks,
      WrapperTurnedAway, WrapperAdmits, WrapperCannotClaim, WrapperRejected,
      WrapperBacksOff, WrapperSnapshots, WrapperAwaits, WrapperClassifies,
      WrapperReleases, WrapperCleansUp, WrapperPublishes, WrapperGoes, WrapperConcludes
  <2>3. wrapper.pc \in Undispatched \/ wrapper'.pc \notin Undispatched
    BY <1>10, WrapperKeeps
  <2> QED BY <1>2, <1>3, <1>5, <2>1, <2>2, <2>3, KeepsCondemned
<1> QED BY <1>6, <1>7, <1>8, <1>9, <1>10

\* The step of a call that marks an attempt, or none.
LEMMA CancelMarked ==
  ASSUME Guarded = {}, Inv, Unpublished, Exclusion, Marked, NEW c \in Cancellers,
         CancelCall(c) \/ CancelStep(c) \/ CancelBreaksOff(c)
  PROVE  Marked'
<1>1. /\ cancel \in [Cancellers -> Canceller] /\ cancel[c] \in Canceller /\ task \in Task
      /\ attempts \in Nat
  BY MaxRunsAssumption DEF Inv, TypeOK
<1>2. /\ UNCHANGED <<outcome, attempts, cleaning>>
      /\ UNCHANGED wrapper \/ wrapper' = NoWrapper
  BY CallsLeave DEF operatorVars
<1>3. task.status = "Gone" => task'.status = "Gone"
  BY CallsLeave
<1>4. ASSUME UNCHANGED marker, NEW n, Condemned(n)
      PROVE  Condemned(n)'
  BY <1>2, <1>3, <1>4, KeepsCondemned DEF UnfinishedAttempt, Undispatched, NoWrapper
<1>5. ASSUME NEW n \in Nat, marker' = ActiveAttempt, allocation = "free",
             UNCHANGED wrapper, Condemned(n)
      PROVE  Condemned(n)'
  <2>2. wrapper.pc # "dispatch"
    BY <1>5, CancellersAssumption DEF Exclusion
  <2>3. attempts > 0 /\ ~UnfinishedAttempt => wrapper.pc \notin Undispatched \ {"begin"}
    BY DEF UnfinishedAttempt, Unpublished, Inv, Numbers, Undispatched
  <2>4. /\ UnfinishedAttempt' = UnfinishedAttempt
        /\ UnfinishedAttempt => attempts > 0
    BY <1>2 DEF UnfinishedAttempt
  <2>5. wrapper.pc \in Undispatched \ {"begin"} => attempts > 0
    BY <1>1 DEF Inv, Numbers, Undispatched, Attempt
  <2> QED BY <1>1, <1>2, <1>3, <1>5, <2>2, <2>3, <2>4, <2>5 DEF Condemned, ActiveAttempt
<1>6. CASE CancelMarksQueued(c) \/ CancelMarks(c)
  <2>1. /\ marker' = ActiveAttempt /\ allocation = "free" /\ UNCHANGED <<task, wrapper>>
        /\ \E pc \in {"reread_queued", "capture"} :
             cancel' = [cancel EXCEPT ![c].pc = pc, ![c].attempt = ActiveAttempt]
    <3>1. CASE CancelMarksQueued(c)
      BY <3>1 DEF CancelMarksQueued, Enters
    <3>2. CASE CancelMarks(c)
      BY <3>2 DEF CancelMarks, Enters
    <3> QED BY <1>6, <3>1, <3>2
  <2>2. /\ \A d \in Cancellers \ {c} : cancel'[d] = cancel[d]
        /\ cancel'[c].pc # "confirm" /\ cancel'[c].attempt = ActiveAttempt
    BY <1>1, <2>1 DEF Canceller
  <2>3. ASSUME NEW n, n = ActiveAttempt
        PROVE  Condemned(n)'
    <3>1. wrapper.pc # "dispatch"
      BY <2>1, CancellersAssumption DEF Exclusion
    <3> QED BY <1>1, <1>2, <2>1, <2>3, <3>1 DEF Condemned, ActiveAttempt, UnfinishedAttempt
  <2>4. \A d \in Cancellers \ {c} :
          cancel'[d].attempt # NoAttempt => Condemned(cancel[d].attempt)'
    <3>1. \A d \in Cancellers : cancel[d].attempt \in Nat
      BY <1>1, MaxRunsAssumption DEF Canceller
    <3> QED BY <1>5, <2>1, <2>2, <3>1 DEF Marked
  <2>5. Condemned(cancel[c].attempt)'
    BY <2>2, <2>3
  <2> QED BY <1>2, <1>3, <2>2, <2>4, <2>5 DEF Marked, Condemned
<1>7. CASE CancelConfirms(c)
  <2>1. task.status = "Gone" /\ UNCHANGED task
    BY <1>7 DEF CancelConfirms, Marked
  <2> QED BY <2>1 DEF Marked, Condemned
<1>8. CASE ~CancelMarksQueued(c) /\ ~CancelMarks(c) /\ ~CancelConfirms(c)
  <2>1. UNCHANGED marker
    BY <1>8 DEF CancelStep, CancelCall, CancelCompares, CancelReads, CancelIntends,
      CancelRereadsQueued, CancelRemoves, CancelRereads, CancelCaptures, CancelStops,
      CancelSettles, CancelEscalates, CancelKills, CancelObserves, CancelReports,
      CancelBreaksOff, CancelUnanswered, CancellerDies, fileVars
  <2>2. /\ \A d \in Cancellers \ {c} : cancel'[d] = cancel[d]
        /\ cancel'[c].attempt = cancel[c].attempt
        /\ cancel'[c].pc = "confirm" => task'.status = "Gone"
    <3>1. CASE CancelCall(c) \/ CancelCompares(c) \/ CancelIntends(c) \/ CancelBreaksOff(c)
      BY <1>1, <3>1 DEF CancelCall, CancelCompares, CancelIntends, CancelGoes, Returns,
        CancelBreaksOff, CancelUnanswered, CancellerDies, Canceller
    <3>2. CASE CancelReads(c)
      <4>1. \/ \E r \in {"gone", "terminal", "incomplete"} : Returns(c, r)
            \/ CancelGoes(c, "read", "intent")
            \/ cancel' = [cancel EXCEPT ![c].pc = "mark", ![c].run = task.run]
        BY <1>1, <3>2 DEF CancelReads, Task, Statuses
      <4> QED BY <1>1, <4>1 DEF CancelGoes, Returns, Canceller
    <3>3. CASE CancelRereadsQueued(c) \/ CancelRereads(c)
      BY <1>1, <3>3 DEF CancelRereadsQueued, CancelRereads, CancelUnresolved, CancelGoes,
        Returns, Canceller
    <3>4. CASE CancelRemoves(c)
      BY <1>1, <3>4 DEF CancelRemoves, CancelUnresolved, CancelGoes, Returns, Canceller, Task
    <3>5. CASE CancelCaptures(c) \/ CancelStops(c) \/ CancelSettles(c)
      BY <1>1, <3>5 DEF CancelCaptures, CancelStops, CancelSettles, CancelGoes, Canceller
    <3>6. CASE CancelEscalates(c)
      BY <1>1, <3>6 DEF CancelEscalates, CancelGoes, Returns, Canceller
    <3>7. CASE CancelKills(c)
      BY <1>1, <3>7 DEF CancelKills, CancelGoes, Canceller
    <3>8. CASE CancelObserves(c)
      BY <1>1, <3>8 DEF CancelObserves, Canceller
    <3>9. CASE CancelReports(c)
      BY <1>1, <3>9 DEF CancelReports, Returns, Canceller
    <3> QED BY <1>8, <3>1, <3>2, <3>3, <3>4, <3>5, <3>6, <3>7, <3>8, <3>9
           DEF CancelStep
  <2> QED BY <1>2, <1>3, <1>4, <2>1, <2>2 DEF Marked
<1> QED BY <1>6, <1>7, <1>8

LEMMA NextMarked ==
  ASSUME Guarded = {}, Inv, Unpublished, Exclusion, Marked, [Next]_vars
  PROVE  Marked'
<1>1. task \in Task
  BY DEF Inv, TypeOK
<1>2. ASSUME UNCHANGED <<attempts, outcome, marker, cancel>>,
             task.status = "Gone" => task'.status = "Gone",
             cleaning' = "removed" => cleaning = "removed" \/ task'.status = "Gone",
             UNCHANGED wrapper \/ wrapper'.pc \in {"none", "begin"}
      PROVE  Marked'
  <2>1. UNCHANGED UnfinishedAttempt
    BY <1>2 DEF UnfinishedAttempt
  <2>2. ASSUME NEW n, Condemned(n)
        PROVE  Condemned(n)'
    BY <1>2, <2>1, <2>2, KeepsCondemned DEF Undispatched
  <2> QED BY <1>2, <2>2, KeepsMarked
<1>3. CASE Environment
  BY <1>1, <1>2, <1>3 DEF Environment, TaskStart, TaskReap, WrapperKilled, KillWrapper,
    WrapperAlive, PayloadEnds, RuntimeExpires, UnitUnloads, SurvivorsExit, fileVars,
    operatorVars, NoWrapper, Inv, Queue
<1>4. CASE RetryChecks \/ RetryClears \/ RetryRestarts \/ CleanChecks \/ CleanRemoves
  BY <1>1, <1>2, <1>4 DEF RetryChecks, RetryClears, RetryRestarts, CleanChecks,
    CleanRemoves, Task, fileVars
<1>5. CASE CleanUnmarks
  BY <1>5 DEF CleanUnmarks, Marked, Condemned
<1>6. CASE AtRest \/ UNCHANGED vars
  BY <1>2, <1>6 DEF AtRest, vars, fileVars, operatorVars
<1> QED BY <1>3, <1>4, <1>5, <1>6, WrapperMarked, CancelMarked DEF Next, Operator

\* Once a call without --expected-attempt has stopped the unit for an attempt,
\* that attempt is never dispatched, whatever fails and dies and however calls,
\* retries and clean overlap: the lock, the marker and the numbering of the
\* attempts leave its wrapper no way there.
THEOREM NoneStartsAfterStop ==
  ASSUME Guarded = {}
  PROVE  Spec => NoStartAfterStop
<1> DEFINE Step ==
      \A c \in Cancellers : \A n \in members' \ members :
        cancel[c].attempt = n
          => cancel[c].pc \notin {"settle", "escalate", "kill", "observe",
                                  "report", "done"}
           All == Inv /\ Unpublished /\ Exclusion /\ Marked
<1>1. Init => All
  BY InitInv, InitUnpublished, InitExclusion, InitMarked
<1>2. All /\ [Next]_vars => All'
  BY NextInv, NextUnpublished, NextExclusion, NextMarked
<1>3. All /\ [Next]_vars => [Step]_vars
  <2> SUFFICES ASSUME All, [Next]_vars, NEW c \in Cancellers,
                      NEW n \in members' \ members, cancel[c].attempt = n
               PROVE  FALSE
    OBVIOUS
  <2>1. CASE WrapperDispatches
    <3>1. /\ n = wrapper.attempt /\ wrapper.pc = "dispatch"
          /\ n = attempts /\ attempts \in Attempt /\ task.status = "Running"
      BY <2>1 DEF WrapperDispatches, WrapperGoes, Inv, Numbers, Queue
    <3>2. Condemned(n)
      BY <3>1 DEF Marked, NoAttempt, Attempt
    <3> QED BY <3>1, <3>2 DEF Condemned, Undispatched, Attempt
  <2>2. CASE ~WrapperDispatches
    <3>1. members' \subseteq members
      <4>1. CASE WrapperStep
        BY <2>2, <4>1, WrapperKeeps DEF WrapperBegin, WrapperClaims, unitVars
      <4>2. CASE Environment
        BY <4>2 DEF Environment, TaskStart, TaskReap, WrapperKilled, PayloadEnds,
          RuntimeExpires, Leftovers, UnitUnloads, SurvivorsExit, unitVars
      <4>3. CASE Operator \/ AtRest \/ UNCHANGED vars
        BY <4>3 DEF Operator, RetryChecks, RetryClears, RetryRestarts, CleanChecks,
          CleanRemoves, CleanUnmarks, AtRest, vars, unitVars
      <4>4. ASSUME NEW d \in Cancellers, CancelCall(d) \/ CancelStep(d) \/ CancelBreaksOff(d)
            PROVE  members' \subseteq members
        <5>1. CASE CancelStops(d)
          BY <5>1, StopResultsShrink DEF CancelStops, Leave
        <5>2. CASE ~CancelStops(d)
          BY <4>4, <5>2 DEF CancelStep, CancelCall, CancelCompares, CancelReads,
            CancelIntends, CancelMarksQueued, CancelRereadsQueued, CancelRemoves,
            CancelConfirms, CancelRereads, CancelMarks, CancelCaptures, CancelSettles,
            CancelEscalates, CancelKills, CancelObserves, CancelReports, CancelBreaksOff, CancelUnanswered, CancellerDies,
            unitVars
        <5> QED BY <5>1, <5>2
      <4> QED BY <4>1, <4>2, <4>3, <4>4 DEF Next
    <3> QED BY <3>1
  <2> QED BY <2>1, <2>2
<1> QED BY <1>1, <1>2, <1>3, PTL DEF Spec, NoStartAfterStop
=============================================================================
