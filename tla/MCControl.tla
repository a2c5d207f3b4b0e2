------------------------------ MODULE MCControl ------------------------------
(* Instances for TLC of the parts that keep the host's jobs under control     *)
(* from outside: the pressure ticks of agentctl ("pressure", which this       *)
(* module extends), launches under one key, made by processes of their own    *)
(* ("direct", KeyedLaunch alone) or by gateway calls ("gateway",              *)
(* GatewayCalls), and the calls of one warm session ("session", WarmSession). *)
(* A tick reads and writes nothing that a launch or a session does, a session *)
(* nothing of a launch, and the two uses of a key differ in who calls; so a   *)
(* behaviour is of one scope, and the parts that are not in it rest.          *)
EXTENDS Pressure

CONSTANTS
  c1, c2, r1, r2,
  Callers, Requests, NoRequest, Nobody, MaxCalls,  \* of KeyedLaunch
  Reader, MaxRequests, MaxReads, MaxRestarts,      \* of GatewayCalls
  Slots, MaxSessions                               \* of WarmSession

VARIABLES
  scope,  \* what the behaviour is about
  lock, input, call, wire, tasks, queued, attempts, pool, calls, adds,
  row, holder, gate, reader, bounds,
  current, last, session, sessionLock, stream, slots, sessionCall

\* A group that is never closed and two that are, which reopen in another order
\* than they close.
HostManaged == <<"agent", "pytest", "bulk">>
HostCloseOrder == <<"bulk", "pytest">>

Launcher == INSTANCE KeyedLaunch WITH group <- pool
Gateway == INSTANCE GatewayCalls WITH group <- pool, claim <- holder
Warm == INSTANCE WarmSession WITH
  Calls <- Callers, lock <- sessionLock, call <- sessionCall

pressureVars == <<group, psi, log, file, ckpt, tick, claim, moves, losses>>
launchVars == <<lock, input, call, wire, tasks, queued, attempts, pool, calls, adds>>
gatewayVars == <<row, holder, gate, reader, bounds>>
sessionVars == <<current, last, session, sessionLock, stream, slots, sessionCall>>
controlVars == <<scope, pressureVars, launchVars, gatewayVars, sessionVars>>

\* A part that rests does so in one of its initial states.
ControlInit ==
  /\ scope \in {"pressure", "direct", "gateway", "session"}
  /\ Init /\ Gateway!Init /\ Warm!Init
  /\ scope # "pressure" => psi = NoTick.psi
  /\ scope \notin {"direct", "gateway"} => pool

Ticks(A) == scope = "pressure" /\ A
            /\ UNCHANGED <<scope, launchVars, gatewayVars, sessionVars>>
Direct(A) == scope = "direct" /\ A
             /\ UNCHANGED <<scope, pressureVars, gatewayVars, sessionVars>>
ByGateway(A) == scope = "gateway" /\ A
                /\ UNCHANGED <<scope, pressureVars, sessionVars>>
InSession(A) == scope = "session" /\ A
                /\ UNCHANGED <<scope, pressureVars, launchVars, gatewayVars>>

ControlNext ==
  \/ Ticks(Next)
  \/ Direct(Launcher!Next)
  \/ ByGateway(Gateway!Next)
  \/ InSession(Warm!Next)

\* The fairness of Pressure, KeyedLaunch and WarmSession, each in its scope.
ControlSpec ==
  /\ ControlInit /\ [][ControlNext]_controlVars
  /\ WF_controlVars(Ticks(TickStep))
  /\ \A c \in Callers :
       /\ WF_controlVars(Direct(Launcher!CallStep(c)))
       /\ WF_controlVars(InSession(Warm!CallStep(c)))
  /\ \A s \in Warm!Sessions : WF_controlVars(InSession(Warm!SessionStep(s)))

-----------------------------------------------------------------------------
(* What the instanced modules promise, of the instances.                    *)

\* The type invariants of GatewayCalls, with KeyedLaunch, and of WarmSession:
\* among the rest, no session has more slots free than it has.
Types == Gateway!TypeOK /\ Warm!TypeOK

\* KeyedLaunch: one job for a key, and whoever is told of it asked for it.
KeepsPromise == Launcher!KeepsPromise

\* KeyedLaunch: every call of a key ends.
CallReturns == scope = "direct" => Launcher!CallReturns

\* GatewayCalls: the job owner is called once for a key of the gateway.
ExecutesOnce == scope = "gateway" => Gateway!ExecutesOnce

\* GatewayCalls: an answer is true of the queue, and stays so.
AnswersAreTrue == Gateway!AnswersAreTrue

\* GatewayCalls: whoever is given an answer to the key is given the same one.
OneAnswer == Gateway!OneAnswer

\* WarmSession: a session that has failed does not keep the server's name.
DeadSessionIsDropped == Warm!DeadSessionIsDropped

\* WarmSession: a request is carried out once, while its call waits for it.
RunsWhileWanted == Warm!RunsWhileWanted

\* WarmSession: a call whose request is with a session hears of it.
WaitingEnds == Warm!WaitingEnds
=============================================================================
