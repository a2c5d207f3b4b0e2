------------------------------- MODULE Pressure -------------------------------
(***************************************************************************)
(* Pressure pauses.  A tick of the minute timer pauses one group of pueue  *)
(* under memory pressure and resumes one when pressure is gone, but only a *)
(* group whose pause it takes for its own.  What it owns is a projection   *)
(* of the event log, kept in a checkpoint beside it.  The operator pauses  *)
(* and resumes groups at any time, a tick may end anywhere, writes may be  *)
(* lost and the log may be replaced.                                       *)
(*                                                                         *)
(* The widths of adaptive pools, which a tick moves between its look and   *)
(* its decision, neither read nor change anything below.  The release of   *)
(* holds that ends a tick is PassBegins of Admission.                      *)
(***************************************************************************)
EXTENDS Integers, Sequences

CONSTANTS
  Managed,     \* the managed groups, in the order in which they reopen
  CloseOrder,  \* those that are closed under pressure, in that order
  NoGroup,     \* no group
  MaxMoves,    \* how often anyone but a tick moves: a bound
  MaxLosses    \* writes and logs lost: a bound

Groups == {Managed[i] : i \in DOMAIN Managed}
Closable == {CloseOrder[i] : i \in DOMAIN CloseOrder}

ASSUME GroupsAssumption ==
  /\ Managed \in Seq(Groups)
  /\ CloseOrder \in Seq(Groups)
  /\ NoGroup \notin Groups
ASSUME BoundsAssumption == MaxMoves \in Nat /\ MaxLosses \in Nat

VARIABLES
  group,   \* what pueue says of each group
  psi,     \* memory pressure: whether it closes, whether it reopens
  log,     \* the pressure events of the event log
  file,    \* the identity of the log's file
  ckpt,    \* the checkpoint: what is ours, and how far which file was read
  tick,    \* the tick under way
  claim,   \* history: "closed" once a tick has paused a group and said so,
           \* "none" once one has released or reopened it and said so, and
           \* "closing" while a tick is at it or if it did not come to say so,
           \* and where Doubted
  moves,   \* moves made
  losses   \* losses so far

logVars == <<log, file>>
vars == <<group, psi, logVars, ckpt, tick, claim, moves, losses>>

-----------------------------------------------------------------------------

\* over_threshold looks at avg60 and _can_reopen at avg10, so both may hold;
\* where pressure is unknown, neither does.
Psi == [closes : BOOLEAN, reopens : BOOLEAN]
Event == [act : {"closed", "opened", "released"}, group : Groups]
SpoolState == [ours : SUBSET Closable, file : Nat, at : Nat]
Tick == [pc : {"idle", "look", "release", "decide", "record", "save"},
         psi : Psi, spool : SpoolState, running : SUBSET Groups,
         act : {"none", "closed", "opened"}, group : Groups \cup {NoGroup}]
Empty == [ours |-> {}, file |-> 0, at |-> 0]
NoTick ==
  [pc |-> "idle", psi |-> [closes |-> FALSE, reopens |-> FALSE],
   spool |-> Empty, running |-> {}, act |-> "none", group |-> NoGroup]

\* Among the rest: a tick never takes a group for its own that it may not
\* close, so `agent` stays the operator's.
TypeOK ==
  /\ group \in [Groups -> {"Running", "Paused"}]
  /\ psi \in Psi
  /\ log \in Seq(Event)
  /\ file \in 0..MaxLosses
  /\ ckpt \in SpoolState
  /\ tick \in Tick
  /\ claim \in [Groups -> {"none", "closing", "closed"}]
  /\ moves \in 0..MaxMoves
  /\ losses \in 0..MaxLosses

Init ==
  /\ group = [g \in Groups |-> "Running"]
  /\ psi \in Psi
  /\ log = <<>>
  /\ file = 0
  /\ ckpt = Empty
  /\ tick = NoTick
  /\ claim = [g \in Groups |-> "none"]
  /\ moves = 0
  /\ losses = 0

Move == moves < MaxMoves /\ moves' = moves + 1
Lose == losses < MaxLosses /\ losses' = losses + 1

-----------------------------------------------------------------------------
(* The event log and its projection.                                       *)

\* Slip: what is ours is what the new events say.
ApplyForgets(ours, from, to) ==
  {g \in Groups :
     \E i \in from + 1 .. to :
       /\ log[i] = [act |-> "closed", group |-> g]
       /\ \A k \in i + 1 .. to : log[k].group # g}

\* SpoolState.apply over the events from..to: the last one of each group.
Apply(ours, from, to) ==
  LET of(g) == {i \in from + 1 .. to : log[i].group = g}
  IN {g \in Groups :
        \/ of(g) = {} /\ g \in ours
        \/ \E i \in of(g) :
             log[i].act = "closed" /\ \A k \in of(g) : k <= i}

\* Where to go on: only in the file that the cursor is about.
Offset == IF ckpt.file = file /\ ckpt.at <= Len(log) THEN ckpt.at ELSE 0

Replayed(to) ==
  [ours |-> Apply(ckpt.ours, Offset, to), file |-> file, at |-> to]

\* _append and _save_checkpoint go on when the write fails.
Appends(act, g) ==
  \/ /\ log' = Append(log, [act |-> act, group |-> g])
     /\ UNCHANGED losses
  \/ Lose /\ UNCHANGED log
Saves(spool) ==
  \/ ckpt' = spool /\ UNCHANGED losses
  \/ Lose /\ UNCHANGED ckpt

\* Slip: the cursor of a pass that is cut short is the end of the log.
ReplayEndsEarlyAtEnd ==
  /\ tick.pc = "idle"
  /\ Move
  /\ \E to \in Offset .. Len(log) :
       ckpt' = [Replayed(to) EXCEPT !.at = Len(log)]
  /\ UNCHANGED <<group, psi, logVars, tick, claim, losses>>

\* The deadline of the tick ends the replay between two events.
ReplayEndsEarly ==
  /\ tick.pc = "idle"
  /\ Move
  /\ \E to \in Offset .. Len(log) : ckpt' = Replayed(to)
  /\ UNCHANGED <<group, psi, logVars, tick, claim, losses>>

-----------------------------------------------------------------------------
(* One tick.                                                               *)

\* event_state.  A log that is missing reads like an empty one; a log that
\* is there and cannot be read is left out.  Once avg10 is low avg60 follows
\* within minutes.  Here it does by the next tick: while pressure both closes
\* and reopens every tick changes a group, and that is a bound of the log.
TickReads ==
  /\ tick.pc = "idle"
  /\ LET spool == Replayed(Len(log))
     IN /\ tick' = [tick EXCEPT !.pc = "look", !.psi = psi, !.spool = spool]
        /\ Saves(spool)
  /\ psi' = IF psi.closes /\ psi.reopens THEN [psi EXCEPT !.closes = FALSE]
            ELSE psi
  /\ UNCHANGED <<group, logVars, claim, moves>>

TickLooks ==
  /\ tick.pc = "look"
  /\ \/ /\ tick' = [tick EXCEPT !.pc = "release",
                      !.running = {g \in Groups : group[g] = "Running"}]
        /\ UNCHANGED moves
     \/ Move /\ tick' = NoTick \* no answer
  /\ UNCHANGED <<group, psi, logVars, ckpt, claim, losses>>

\* A group of ours that runs has been resumed by somebody else.
TickReleases(g) ==
  /\ tick.pc = "release"
  /\ g \in tick.spool.ours \cap tick.running
  /\ Appends("released", g)
  /\ tick' = [tick EXCEPT !.spool.ours = @ \ {g}]
  /\ claim' = [claim EXCEPT ![g] = "closing"]
  /\ UNCHANGED <<group, psi, file, ckpt, moves>>

TickReleased ==
  /\ tick.pc = "release"
  /\ tick.spool.ours \cap tick.running = {}
  /\ Saves(tick.spool)
  /\ tick' = [tick EXCEPT !.pc = "decide"]
  /\ claim' = [g \in Groups |-> IF g \in tick.running THEN "none" ELSE claim[g]]
  /\ UNCHANGED <<group, psi, logVars, moves>>

IsFirst(g, order, S) ==
  /\ g \in S
  /\ \E i \in DOMAIN order :
       order[i] = g /\ \A k \in 1 .. i - 1 : order[k] \notin S

\* The groups to reopen.
Obsolete ==
  IF tick.psi.reopens THEN tick.spool.ours \ tick.running ELSE {}

Resume(g) ==
  /\ group' = [group EXCEPT ![g] = "Running"]
  /\ claim' = [claim EXCEPT ![g] = "closing"]

\* A call to pueue may fail, before or after it took effect.
TickReopens(g) ==
  /\ tick.pc = "decide"
  /\ IsFirst(g, Managed, Obsolete)
  /\ \/ /\ Resume(g)
        /\ tick' = [tick EXCEPT !.pc = "record", !.act = "opened", !.group = g]
        /\ UNCHANGED moves
     \/ /\ Move
        /\ Resume(g) \/ UNCHANGED <<group, claim>>
        /\ tick' = NoTick
  /\ UNCHANGED <<psi, logVars, ckpt, losses>>

Pause(g) ==
  /\ group' = [group EXCEPT ![g] = "Paused"]
  /\ claim' = [claim EXCEPT ![g] = "closing"]

\* Slip: any managed group is closed.
TickClosesAny(g) ==
  /\ tick.pc = "decide"
  /\ Obsolete = {}
  /\ tick.psi.closes
  /\ IsFirst(g, Managed, tick.running)
  /\ Pause(g)
  /\ tick' = [tick EXCEPT !.pc = "record", !.act = "closed", !.group = g]
  /\ UNCHANGED <<psi, logVars, ckpt, moves, losses>>

TickCloses(g) ==
  /\ tick.pc = "decide"
  /\ Obsolete = {}
  /\ tick.psi.closes
  /\ IsFirst(g, CloseOrder, tick.running)
  /\ \/ /\ Pause(g)
        /\ tick' = [tick EXCEPT !.pc = "record", !.act = "closed", !.group = g]
        /\ UNCHANGED moves
     \/ /\ Move
        /\ Pause(g) \/ UNCHANGED <<group, claim>>
        /\ tick' = NoTick
  /\ UNCHANGED <<psi, logVars, ckpt, losses>>

TickRests ==
  /\ tick.pc = "decide"
  /\ Obsolete = {}
  /\ tick.psi.closes => Closable \cap tick.running = {}
  /\ tick' = NoTick
  /\ UNCHANGED <<group, psi, logVars, ckpt, claim, moves, losses>>

TickRecords ==
  /\ tick.pc = "record"
  /\ Appends(tick.act, tick.group)
  /\ tick' = [tick EXCEPT !.pc = "save",
                !.spool.ours = IF tick.act = "closed" THEN @ \cup {tick.group}
                               ELSE @ \ {tick.group}]
  /\ UNCHANGED <<group, psi, file, ckpt, claim, moves>>

\* The checkpoint has its cursor before the `released` of g.
Doubted(g) ==
  \E i \in tick.spool.at + 1 .. Len(log) :
    log[i] = [act |-> "released", group |-> g]

TickSaves ==
  /\ tick.pc = "save"
  /\ Saves(tick.spool)
  /\ claim' = [claim EXCEPT ![tick.group] =
                 IF tick.act = "opened" THEN "none"
                 ELSE IF Doubted(tick.group) THEN "closing" ELSE "closed"]
  /\ tick' = NoTick
  /\ UNCHANGED <<group, psi, logVars, moves>>

\* The deadline of the tick, or a kill.
TickEnds ==
  /\ Move
  /\ tick.pc # "idle"
  /\ tick' = NoTick
  /\ UNCHANGED <<group, psi, logVars, ckpt, claim, losses>>

-----------------------------------------------------------------------------
(* Everybody else.                                                         *)

OperatorPauses(g) ==
  /\ Move
  /\ group[g] = "Running"
  /\ group' = [group EXCEPT ![g] = "Paused"]
  /\ UNCHANGED <<psi, logVars, ckpt, tick, claim, losses>>

OperatorResumes(g) ==
  /\ Move
  /\ group[g] = "Paused"
  /\ group' = [group EXCEPT ![g] = "Running"]
  /\ UNCHANGED <<psi, logVars, ckpt, tick, claim, losses>>

PressureChanges ==
  /\ Move
  /\ psi' \in Psi \ {psi}
  /\ UNCHANGED <<group, logVars, ckpt, tick, claim, losses>>

\* The log is compacted into a new file, rotated away or truncated.
LogReplaced ==
  /\ Lose
  /\ \/ file' = file + 1 /\ log' \in {log, <<>>}
     \/ log' = <<>> /\ UNCHANGED file
  /\ UNCHANGED <<group, psi, ckpt, tick, claim, moves>>

TickStep ==
  \/ TickReads \/ TickLooks \/ TickReleased \/ TickRests
  \/ TickRecords \/ TickSaves
  \/ \E g \in Groups : TickReleases(g) \/ TickReopens(g) \/ TickCloses(g)

Next ==
  \/ TickStep \/ ReplayEndsEarly \/ TickEnds
  \/ PressureChanges \/ LogReplaced
  \/ \E g \in Groups : OperatorPauses(g) \/ OperatorResumes(g)

Spec == Init /\ [][Next]_vars

\* The timer fires every minute and a tick runs on until something ends it.
FairSpec == Spec /\ WF_vars(TickStep)

-----------------------------------------------------------------------------
(* Properties.                                                             *)

\* A tick resumes a group only on its own last word: not a group that it has
\* reopened, or seen running, since it closed it, whoever paused that one.
OperatorPauseKept ==
  [][\A g \in Groups :
       group[g] = "Paused" /\ group'[g] = "Running" /\ tick' # tick
         => claim[g] # "none"]_vars

\* A group that a tick has closed, and said so, reopens once pressure stays
\* away, or a tick finds that somebody has resumed it meanwhile: a lost event,
\* a lost checkpoint or a replaced log does not leave it paused.  The exception
\* is Doubted: a tick that releases a group and closes it again saves its
\* checkpoint with the cursor before its `released`, so if its `closed` is not
\* read with that, the group is taken for released and stays paused.
ClosedIsReopened ==
  <>[]psi.reopens =>
    \A g \in Groups :
      claim[g] = "closed" ~> group[g] = "Running" \/ claim[g] # "closed"
=============================================================================
