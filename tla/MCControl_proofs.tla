--------------------------- MODULE MCControl_proofs ---------------------------
(***************************************************************************)
(* What holds of the ticks of Pressure for all groups, orders, moves and   *)
(* losses, and of the parts that MCControl puts beside them: what is       *)
(* proved of KeyedLaunch, GatewayCalls and WarmSession holds of them there.*)
(***************************************************************************)
EXTENDS MCControl, FiniteSets, TLAPS


\* Each new file of the log is a loss.
Files == file <= losses

\* Only the pause of a group that may be closed is ever recorded.
ClosedEvents ==
  \A i \in 1 .. Len(log) : log[i].act = "closed" => log[i].group \in Closable

\* What a tick has still to say is about a group that it has changed.
Saying ==
  tick.pc \in {"record", "save"} =>
    /\ tick.act \in {"closed", "opened"}
    /\ tick.group \in Groups
    /\ tick.act = "closed" => tick.group \in Closable

Inv == TypeOK /\ Files /\ ClosedEvents /\ Saying

LEMMA ClosableGroups == Closable \subseteq Groups
  BY GroupsAssumption DEF Closable

LEMMA InitInv == Init => Inv
  BY BoundsAssumption
     DEF Init, Inv, TypeOK, Files, ClosedEvents, Saying, SpoolState, Tick, Psi,
         Empty, NoTick

-----------------------------------------------------------------------------
(* The projection.                                                         *)

\* Replay stays within the log, and takes no group that may not be closed.
LEMMA ReplayedType ==
  ASSUME Inv, NEW to \in Offset .. Len(log)
  PROVE  /\ Offset \in 0 .. Len(log)
         /\ Replayed(to) \in SpoolState
<1> USE DEF Inv
<1>1. Offset \in 0 .. Len(log)
  BY DEF TypeOK, Offset, SpoolState
<1>2. Apply(ckpt.ours, Offset, to) \subseteq Closable
  <2> SUFFICES ASSUME NEW g \in Groups, g \in Apply(ckpt.ours, Offset, to)
               PROVE  g \in Closable
    BY DEF Apply
  <2>1. CASE g \in ckpt.ours
    BY <2>1 DEF TypeOK, SpoolState
  <2>2. CASE \E i \in Offset + 1 .. to : log[i].group = g /\ log[i].act = "closed"
    BY <1>1, <2>2 DEF ClosedEvents, TypeOK
  <2> QED BY <2>1, <2>2 DEF Apply
<1>3. file \in Nat /\ to \in Nat
  BY <1>1, BoundsAssumption DEF TypeOK
<1> QED BY <1>1, <1>2, <1>3 DEF Replayed, SpoolState

LEMMA AppendsInv ==
  ASSUME Inv, NEW act \in {"closed", "opened", "released"}, NEW g \in Groups,
         act = "closed" => g \in Closable, Appends(act, g), UNCHANGED file
  PROVE  /\ log' \in Seq(Event) /\ ClosedEvents'
         /\ losses' \in 0..MaxLosses /\ Files'
<1> USE DEF Inv, TypeOK, Files, ClosedEvents
<1>1. CASE log' = Append(log, [act |-> act, group |-> g]) /\ UNCHANGED losses
  BY <1>1 DEF Event
<1>2. CASE Lose /\ UNCHANGED log
  BY <1>2, BoundsAssumption DEF Lose
<1> QED BY <1>1, <1>2 DEF Appends

LEMMA SavesInv ==
  ASSUME Inv, NEW spool \in SpoolState, Saves(spool), UNCHANGED logVars
  PROVE  /\ ckpt' \in SpoolState /\ ClosedEvents'
         /\ losses' \in 0..MaxLosses /\ Files'
  BY BoundsAssumption
     DEF Inv, TypeOK, Files, ClosedEvents, Saves, Lose, logVars

LEMMA MoveType == ASSUME TypeOK, Move PROVE moves' \in 0..MaxMoves
  BY BoundsAssumption DEF TypeOK, Move

LEMMA NoTickType == NoTick \in Tick
  BY DEF NoTick, Tick, Psi, SpoolState, Empty

-----------------------------------------------------------------------------
(* Every step keeps the invariant.                                         *)

LEMMA TickInv ==
  ASSUME Inv, TickStep
  PROVE  Inv'
<1> USE DEF Inv
<1>1. CASE TickReads
  <2>1. Replayed(Len(log)) \in SpoolState
    <3>1. Len(log) \in Offset .. Len(log)
      BY DEF TypeOK, Offset, SpoolState
    <3> QED BY <3>1, ReplayedType
  <2>2. tick' \in Tick /\ tick'.pc = "look"
    BY <1>1, <2>1 DEF TickReads, TypeOK, Tick
  <2>3. psi' \in Psi
    BY <1>1 DEF TickReads, TypeOK, Psi
  <2>4. /\ ckpt' \in SpoolState /\ ClosedEvents'
        /\ losses' \in 0..MaxLosses /\ Files'
    BY <1>1, <2>1, SavesInv DEF TickReads
  <2> QED BY <1>1, <2>2, <2>3, <2>4 DEF TickReads, TypeOK, Saying, logVars
<1>2. CASE TickLooks
  <2>1. tick' \in Tick /\ tick'.pc \in {"release", "idle"}
    <3> DEFINE run == {g \in Groups : group[g] = "Running"}
    <3>1. CASE tick' = [tick EXCEPT !.pc = "release", !.running = run]
      <4>1. run \in SUBSET Groups
        OBVIOUS
      <4> HIDE DEF run
      <4> QED BY <3>1, <4>1 DEF TypeOK, Tick
    <3>2. CASE tick' = NoTick
      BY <3>2, NoTickType DEF NoTick
    <3> QED BY <1>2, <3>1, <3>2 DEF TickLooks
  <2>2. moves' \in 0..MaxMoves
    BY <1>2, MoveType DEF TickLooks, TypeOK
  <2> QED BY <1>2, <2>1, <2>2
          DEF TickLooks, TypeOK, Saying, Files, ClosedEvents, logVars
<1>3. CASE TickReleased
  <2>1. tick.spool \in SpoolState
    BY DEF TypeOK, Tick
  <2>2. tick' \in Tick /\ tick'.pc = "decide"
    BY <1>3 DEF TickReleased, TypeOK, Tick
  <2>3. claim' \in [Groups -> {"none", "closing", "closed"}]
    BY <1>3 DEF TickReleased, TypeOK
  <2>4. /\ ckpt' \in SpoolState /\ ClosedEvents'
        /\ losses' \in 0..MaxLosses /\ Files'
    BY <1>3, <2>1, SavesInv DEF TickReleased
  <2> QED BY <1>3, <2>2, <2>3, <2>4 DEF TickReleased, TypeOK, Saying, logVars
<1>4. CASE TickRests
  BY <1>4, NoTickType
     DEF TickRests, TypeOK, Saying, Files, ClosedEvents, logVars, NoTick
<1>5. CASE TickRecords
  <2>1. tick.act \in {"closed", "opened"} /\ tick.group \in Groups
    BY <1>5 DEF TickRecords, Saying
  <2>2. tick.act = "closed" => tick.group \in Closable
    BY <1>5 DEF TickRecords, Saying
  <2>3. /\ tick' \in Tick /\ tick'.pc = "save"
        /\ tick'.act = tick.act /\ tick'.group = tick.group
    BY <1>5, <2>1, <2>2 DEF TickRecords, TypeOK, Tick, SpoolState
  <2>4. /\ log' \in Seq(Event) /\ ClosedEvents'
        /\ losses' \in 0..MaxLosses /\ Files'
    BY <1>5, <2>1, <2>2, AppendsInv DEF TickRecords
  <2> QED BY <1>5, <2>1, <2>2, <2>3, <2>4 DEF TickRecords, TypeOK, Saying
<1>6. CASE TickSaves
  <2>1. tick.spool \in SpoolState
    BY DEF TypeOK, Tick
  <2>2. claim' \in [Groups -> {"none", "closing", "closed"}]
    BY <1>6 DEF TickSaves, TypeOK
  <2>3. /\ ckpt' \in SpoolState /\ ClosedEvents'
        /\ losses' \in 0..MaxLosses /\ Files'
    BY <1>6, <2>1, SavesInv DEF TickSaves
  <2> QED BY <1>6, <2>2, <2>3, NoTickType DEF TickSaves, TypeOK, Saying, logVars, NoTick
<1>7. ASSUME NEW g \in Groups, TickReleases(g) PROVE Inv'
  <2>1. tick' \in Tick /\ tick'.pc = "release"
    BY <1>7 DEF TickReleases, TypeOK, Tick, SpoolState
  <2>2. claim' \in [Groups -> {"none", "closing", "closed"}]
    BY <1>7 DEF TickReleases, TypeOK
  <2>3. /\ log' \in Seq(Event) /\ ClosedEvents'
        /\ losses' \in 0..MaxLosses /\ Files'
    BY <1>7, AppendsInv DEF TickReleases
  <2> QED BY <1>7, <2>1, <2>2, <2>3 DEF TickReleases, TypeOK, Saying
<1>8. ASSUME NEW g \in Groups, TickReopens(g) PROVE Inv'
  <2>1. /\ group' \in [Groups -> {"Running", "Paused"}]
        /\ claim' \in [Groups -> {"none", "closing", "closed"}]
    BY <1>8 DEF TickReopens, Resume, TypeOK
  <2>2. tick' \in Tick /\ Saying'
    BY <1>8, NoTickType DEF TickReopens, TypeOK, Tick, Saying, NoTick
  <2>3. moves' \in 0..MaxMoves
    BY <1>8, MoveType DEF TickReopens, TypeOK
  <2> QED BY <1>8, <2>1, <2>2, <2>3
          DEF TickReopens, TypeOK, Files, ClosedEvents, logVars
<1>9. ASSUME NEW g \in Groups, TickCloses(g) PROVE Inv'
  <2>1. /\ group' \in [Groups -> {"Running", "Paused"}]
        /\ claim' \in [Groups -> {"none", "closing", "closed"}]
    BY <1>9 DEF TickCloses, Pause, TypeOK
  <2>2. g \in Closable
    BY <1>9 DEF TickCloses, IsFirst, Closable
  <2>3. tick' \in Tick /\ Saying'
    BY ZenonT(60), <1>9, <2>2, NoTickType DEF TickCloses, TypeOK, Tick, Saying, NoTick
  <2>4. moves' \in 0..MaxMoves
    BY <1>9, MoveType DEF TickCloses, TypeOK
  <2> QED BY <1>9, <2>1, <2>3, <2>4
          DEF TickCloses, TypeOK, Files, ClosedEvents, logVars
<1> QED BY <1>1, <1>2, <1>3, <1>4, <1>5, <1>6, <1>7, <1>8, <1>9 DEF TickStep

LEMMA NextInv ==
  ASSUME Inv, [Next]_vars
  PROVE  Inv'
<1> USE DEF Inv, TypeOK, Saying, Files, ClosedEvents
<1>1. CASE UNCHANGED vars
  BY <1>1 DEF vars, logVars
<1>2. CASE TickStep
  BY <1>2, TickInv
<1>3. CASE ReplayEndsEarly
  <2>1. ckpt' \in SpoolState
    BY <1>3, ReplayedType DEF ReplayEndsEarly
  <2> QED BY <1>3, <2>1, MoveType DEF ReplayEndsEarly, logVars
<1>4. CASE TickEnds
  BY <1>4, MoveType, NoTickType DEF TickEnds, logVars, NoTick
<1>5. CASE PressureChanges
  BY <1>5, MoveType DEF PressureChanges, logVars
<1>6. CASE LogReplaced
  <2>1. log' = log \/ log' = <<>>
    BY <1>6 DEF LogReplaced
  <2>2. log' \in Seq(Event) /\ ClosedEvents'
    <3>1. CASE log' = log
      BY <3>1
    <3>2. CASE log' = <<>>
      BY <3>2
    <3> QED BY <2>1, <3>1, <3>2
  <2>3. /\ file' = file + 1 \/ file' = file
        /\ losses < MaxLosses /\ losses' = losses + 1
    BY <1>6 DEF LogReplaced, Lose
  <2>4. /\ file' \in 0..MaxLosses /\ Files'
        /\ losses' \in 0..MaxLosses
    BY <2>3, BoundsAssumption
  <2> QED BY <1>6, <2>2, <2>4 DEF LogReplaced
<1>7. ASSUME NEW g \in Groups, OperatorPauses(g) \/ OperatorResumes(g) PROVE Inv'
  BY <1>7, MoveType DEF OperatorPauses, OperatorResumes, logVars
<1> QED BY <1>1, <1>2, <1>3, <1>4, <1>5, <1>6, <1>7 DEF Next

\* Whatever is lost, cut short or done by hand, a group outside CLOSE_ORDER is
\* never taken for one of ours, and a cursor stays within its types.
THEOREM TypeCorrect == Spec => []TypeOK
<1>1. Inv => TypeOK
  BY DEF Inv
<1> QED BY InitInv, NextInv, <1>1, PTL DEF Spec

-----------------------------------------------------------------------------
(* The projection, of any log and from any cursor.                            *)

\* The events from..to of l about g, and the last one of them.
About(l, from, to, g) == {i \in from + 1 .. to : l[i].group = g}
EndsClosed(l, from, to, g) ==
  \E i \in About(l, from, to, g) :
    l[i].act = "closed" /\ \A k \in About(l, from, to, g) : k <= i

\* Apply, of any log.
Projection(l, ours, from, to) ==
  {g \in Groups : \/ About(l, from, to, g) = {} /\ g \in ours
                  \/ EndsClosed(l, from, to, g)}

LEMMA ApplyProjects ==
  ASSUME NEW ours, NEW from, NEW to
  PROVE  Apply(ours, from, to) = Projection(log, ours, from, to)
  BY DEF Apply, Projection, About, EndsClosed

\* A replay may stop anywhere and go on from there.
LEMMA ProjectionSplit ==
  ASSUME NEW l, NEW ours, NEW a \in Nat, NEW b \in Nat, NEW c \in Nat,
         a <= b, b <= c
  PROVE  Projection(l, Projection(l, ours, a, b), b, c) = Projection(l, ours, a, c)
<1> SUFFICES ASSUME NEW g \in Groups
             PROVE  g \in Projection(l, Projection(l, ours, a, b), b, c)
                      <=> g \in Projection(l, ours, a, c)
  BY DEF Projection
<1>1. CASE About(l, b, c, g) = {}
  <2>1. About(l, a, b, g) = About(l, a, c, g)
    BY <1>1 DEF About
  <2> QED BY <1>1, <2>1 DEF Projection, EndsClosed
<1>2. CASE About(l, b, c, g) # {}
  <2>1. PICK m \in About(l, b, c, g) : TRUE
    BY <1>2
  <2>2. About(l, b, c, g) \subseteq About(l, a, c, g)
    BY DEF About
  <2>3. \A i \in About(l, a, c, g) : m <= i => i \in About(l, b, c, g)
    BY DEF About
  <2>4. \A i \in About(l, a, c, g) \ About(l, b, c, g) :
          \A k \in About(l, b, c, g) : i <= k
    BY DEF About
  <2>5. EndsClosed(l, b, c, g) <=> EndsClosed(l, a, c, g)
    <3>1. About(l, a, c, g) \subseteq Int
      BY DEF About
    <3> QED BY <2>1, <2>2, <2>3, <2>4, <3>1 DEF EndsClosed
  <2>6. About(l, a, c, g) # {}
    BY <2>1, <2>2
  <2> QED BY <1>2, <2>5, <2>6 DEF Projection
<1> QED BY <1>1, <1>2

LEMMA ProjectionNothing ==
  ASSUME NEW l, NEW ours \in SUBSET Groups, NEW a \in Nat
  PROVE  Projection(l, ours, a, a) = ours
<1>1. \A g \in Groups : About(l, a, a, g) = {}
  BY DEF About
<1> QED BY <1>1 DEF Projection, EndsClosed

\* A replay of what is projected already adds nothing.
LEMMA ProjectionAgain ==
  ASSUME NEW l, NEW a \in Nat, NEW c \in Nat, a <= c
  PROVE  Projection(l, Projection(l, {}, 0, c), a, c) = Projection(l, {}, 0, c)
<1>1. Projection(l, Projection(l, {}, 0, a), a, c) = Projection(l, {}, 0, c)
  BY ProjectionSplit
<1> SUFFICES ASSUME NEW g \in Groups
             PROVE  g \in Projection(l, Projection(l, {}, 0, c), a, c)
                      <=> g \in Projection(l, Projection(l, {}, 0, a), a, c)
  BY <1>1 DEF Projection
<1>2. CASE About(l, a, c, g) = {}
  BY <1>1, <1>2 DEF Projection, EndsClosed
<1>3. CASE About(l, a, c, g) # {}
  BY <1>3 DEF Projection
<1> QED BY <1>2, <1>3

\* A group with no `closed` ahead of it is not projected, unless it was before.
LEMMA ProjectionQuiet ==
  ASSUME NEW l, NEW ours, NEW a \in Nat, NEW c \in Nat, NEW g,
         g \notin ours, \A i \in a + 1 .. c : l[i].group = g => l[i].act # "closed"
  PROVE  g \notin Projection(l, ours, a, c)
  BY DEF Projection, EndsClosed, About

LEMMA ProjectionAppend ==
  ASSUME NEW l \in Seq(Event), NEW ours, NEW a \in 0 .. Len(l), NEW e \in Event
  PROVE  Projection(Append(l, e), ours, a, Len(l) + 1) =
           IF e.act = "closed" THEN Projection(l, ours, a, Len(l)) \cup {e.group}
           ELSE Projection(l, ours, a, Len(l)) \ {e.group}
<1> DEFINE n == Len(l)
           m == Append(l, e)
<1>1. /\ n \in Nat /\ m[n + 1] = e
      /\ \A i \in a + 1 .. n : m[i] = l[i]
  OBVIOUS
<1>2. e.group \in Groups
  BY DEF Event
<1>3. About(m, a, n + 1, e.group) = About(l, a, n, e.group) \cup {n + 1}
  BY <1>1 DEF About
<1>4. \A g \in Groups \ {e.group} : About(m, a, n + 1, g) = About(l, a, n, g)
  BY <1>1 DEF About
<1>5. \A g \in Groups : About(l, a, n, g) \subseteq a + 1 .. n
  BY DEF About
<1> HIDE DEF m, n
<1>6. EndsClosed(m, a, n + 1, e.group) <=> e.act = "closed"
  <2>1. \A k \in About(m, a, n + 1, e.group) : k <= n + 1 /\ (k = n + 1 \/ k <= n)
    BY <1>1, <1>2, <1>3, <1>5
  <2>2. n + 1 \in About(m, a, n + 1, e.group)
    BY <1>3
  <2>3. ASSUME NEW i \in About(m, a, n + 1, e.group),
               \A k \in About(m, a, n + 1, e.group) : k <= i
        PROVE  i = n + 1
    <3>1. n + 1 <= i /\ i <= n + 1 /\ i \in Int
      BY <1>1, <1>2, <1>3, <1>5, <2>1, <2>2, <2>3
    <3> QED BY <1>1, <3>1
  <2> QED BY <1>1, <2>1, <2>2, <2>3 DEF EndsClosed
<1>7. \A g \in Groups \ {e.group} : EndsClosed(m, a, n + 1, g) <=> EndsClosed(l, a, n, g)
  BY <1>1, <1>4, <1>5 DEF EndsClosed
<1>8. ASSUME NEW g \in Groups \ {e.group}
      PROVE  g \in Projection(m, ours, a, n + 1) <=> g \in Projection(l, ours, a, n)
  BY <1>4, <1>7 DEF Projection
<1>9. e.group \in Projection(m, ours, a, n + 1) <=> e.act = "closed"
  BY <1>2, <1>3, <1>6 DEF Projection
<1>10. /\ Projection(m, ours, a, n + 1) \subseteq Groups
       /\ Projection(l, ours, a, n) \subseteq Groups
  BY DEF Projection
<1>11. Projection(m, ours, a, n + 1) =
           IF e.act = "closed" THEN Projection(l, ours, a, n) \cup {e.group}
           ELSE Projection(l, ours, a, n) \ {e.group}
  BY <1>2, <1>8, <1>9, <1>10
<1> QED BY <1>11 DEF m, n

-----------------------------------------------------------------------------
(* What a tick, its checkpoint and the log know of each other.               *)

\* Where replay goes on from s in log l of file f, and what it ends with.
Onward(l, f, s) == IF s.file = f /\ s.at <= Len(l) THEN s.at ELSE 0
Says(l, f, s) == Projection(l, s.ours, Onward(l, f, s), Len(l))

\* What the log alone says.
Owned(l) == Projection(l, {}, 0, Len(l))

\* Until something is lost, the checkpoint and the tick agree with the log, and
\* a group whose pause is over is in no part of it that is still to be read.
Agreed ==
  /\ ckpt.file = file /\ ckpt.at <= Len(log)
  /\ Says(log, file, ckpt) = Owned(log)
  /\ tick.pc # "idle" =>
       /\ tick.spool.file = file /\ tick.spool.at <= Len(log)
       /\ tick.spool.ours = Owned(log)
       /\ \A i \in tick.spool.at + 1 .. Len(log) :
            log[i].act = "closed" =>
              tick.pc = "save" /\ tick.act = "closed" /\ log[i].group = tick.group
  /\ \A g \in Groups :
       claim[g] = "none" =>
         /\ g \notin ckpt.ours
         /\ g \notin Owned(log)
         /\ \A i \in ckpt.at + 1 .. Len(log) :
              log[i].group = g => log[i].act # "closed"

\* No replay from s takes g for ours, even when a log that was truncated grows
\* past the cursor.
Over(l, f, s, g) ==
  g \notin Says(l, f, s) /\ (s.file = f /\ s.at > Len(l) => g \notin s.ours)
Disowned == \A g \in Groups : claim[g] = "none" => Over(log, file, ckpt, g)

\* A tick may save what it knows at any time.
Knows ==
  tick.pc # "idle" =>
    /\ Says(log, file, tick.spool) \subseteq tick.spool.ours
    /\ \A g \in Groups : claim[g] = "none" => g \notin tick.spool.ours
    /\ tick.pc \in {"record", "save"} => claim[tick.group] = "closing"
    /\ tick.pc = "save" => (tick.group \in tick.spool.ours <=> tick.act = "closed")

Ours == (losses = 0 => Agreed) /\ Disowned /\ Knows

LEMMA InitOurs == Init => Ours
<1> SUFFICES ASSUME Init PROVE Ours
  OBVIOUS
<1>1. /\ Owned(log) = {} /\ Says(log, file, ckpt) = {}
      /\ ckpt = Empty /\ file = 0 /\ Len(log) = 0 /\ tick.pc = "idle"
  <2>1. Len(log) = 0 /\ ckpt = Empty /\ file = 0 /\ tick = NoTick
    BY DEF Init
  <2>2. Projection(log, {}, 0, 0) = {}
    BY ProjectionNothing
  <2> QED BY <2>1, <2>2 DEF Owned, Says, Onward, Empty, NoTick
<1> QED BY <1>1 DEF Ours, Agreed, Disowned, Knows, Over, Empty

LEMMA OnwardType ==
  ASSUME Inv, NEW s \in SpoolState, NEW f
  PROVE  Onward(log, f, s) \in 0 .. Len(log) /\ Len(log) \in Nat
  BY DEF Inv, TypeOK, Onward, SpoolState

\* A replay changes nothing of what there is to know.
LEMMA ReplayKeeps ==
  ASSUME Inv, NEW to \in Offset .. Len(log)
  PROVE  LET s == Replayed(to)
         IN /\ s.file = file /\ s.at = to /\ to <= Len(log)
            /\ s.ours = Projection(log, ckpt.ours, Onward(log, file, ckpt), to)
            /\ Says(log, file, s) = Says(log, file, ckpt)
            /\ to = Len(log) => s.ours = Says(log, file, ckpt)
<1>1. Offset = Onward(log, file, ckpt)
  BY DEF Offset, Onward
<1>2. Offset \in 0 .. Len(log) /\ Len(log) \in Nat
  BY <1>1, OnwardType DEF Inv, TypeOK
<1>3. Replayed(to) = [ours |-> Projection(log, ckpt.ours, Offset, to), file |-> file, at |-> to]
  BY ApplyProjects DEF Replayed
<1>4. to \in Nat /\ Offset <= to /\ to <= Len(log)
  BY <1>2
<1>5. Projection(log, Projection(log, ckpt.ours, Offset, to), to, Len(log))
        = Projection(log, ckpt.ours, Offset, Len(log))
  BY <1>2, <1>4, ProjectionSplit
<1>6. Onward(log, file, Replayed(to)) = to
  BY <1>3, <1>4 DEF Onward
<1> QED BY <1>1, <1>3, <1>4, <1>5, <1>6 DEF Says

\* One more event, as the log and as a reader on its way will have it.
LEMMA AppendSays ==
  ASSUME Inv, NEW e \in Event, NEW s \in SpoolState, log' = Append(log, e)
  PROVE  /\ Len(log') = Len(log) + 1
         /\ Owned(log') = IF e.act = "closed" THEN Owned(log) \cup {e.group}
                          ELSE Owned(log) \ {e.group}
         /\ \/ s.file = file /\ s.at = Len(log) + 1 /\ Says(log', file, s) = s.ours
            \/ /\ s.file = file => s.at # Len(log) + 1
               /\ Says(log', file, s) =
                    IF e.act = "closed" THEN Says(log, file, s) \cup {e.group}
                    ELSE Says(log, file, s) \ {e.group}
<1>1. log \in Seq(Event) /\ Len(log) \in Nat /\ Len(log') = Len(log) + 1
      /\ s.at \in Nat /\ s.ours \in SUBSET Groups
  BY ClosableGroups DEF Inv, TypeOK, SpoolState
<1>2. ASSUME NEW a \in 0 .. Len(log), NEW o
      PROVE  Projection(log', o, a, Len(log')) =
               IF e.act = "closed" THEN Projection(log, o, a, Len(log)) \cup {e.group}
               ELSE Projection(log, o, a, Len(log)) \ {e.group}
  <2>1. Projection(Append(log, e), o, a, Len(log) + 1) =
               IF e.act = "closed" THEN Projection(log, o, a, Len(log)) \cup {e.group}
               ELSE Projection(log, o, a, Len(log)) \ {e.group}
    BY <1>1, ProjectionAppend
  <2> QED BY <1>1, <2>1
<1>5. Owned(log') = IF e.act = "closed" THEN Owned(log) \cup {e.group}
                    ELSE Owned(log) \ {e.group}
  <2>1. 0 \in 0 .. Len(log)
    BY <1>1
  <2> QED BY <1>2, <2>1 DEF Owned
<1>3. CASE s.file = file /\ s.at = Len(log) + 1
  <2>1. Onward(log', file, s) = Len(log')
    BY <1>1, <1>3 DEF Onward
  <2>2. Says(log', file, s) = s.ours
    BY <1>1, <2>1, ProjectionNothing DEF Says
  <2> QED BY <1>5, <1>1, <1>3, <2>2
<1>4. CASE ~(s.file = file /\ s.at = Len(log) + 1)
  <2>1. Onward(log', file, s) = Onward(log, file, s)
    BY <1>1, <1>4 DEF Onward
  <2>2. Onward(log, file, s) \in 0 .. Len(log)
    BY OnwardType
  <2>3. Says(log', file, s) =
          IF e.act = "closed" THEN Says(log, file, s) \cup {e.group}
          ELSE Says(log, file, s) \ {e.group}
    BY <1>2, <2>1, <2>2 DEF Says
  <2> QED BY <1>5, <1>1, <1>4, <2>3
<1> QED BY <1>3, <1>4

\* The knowledge of a tick, if the log has it, is what a replay from it says.
LEMMA KnownSays ==
  ASSUME Inv, Agreed, tick.pc # "idle"
  PROVE  Says(log, file, tick.spool) = Owned(log)
<1>1. tick.spool \in SpoolState
  BY DEF Inv, TypeOK, Tick
<1>2. Onward(log, file, tick.spool) \in 0 .. Len(log) /\ Len(log) \in Nat
  BY <1>1, OnwardType
<1> QED BY <1>2, ProjectionAgain DEF Agreed, Says, Owned

LEMMA ProjectionMonotone ==
  ASSUME NEW l, NEW less, NEW more, less \subseteq more, NEW a, NEW c
  PROVE  Projection(l, less, a, c) \subseteq Projection(l, more, a, c)
  BY DEF Projection

\* With one loss at most, what is lost is lost from a state in agreement.
LEMMA LosesOnce ==
  ASSUME Inv, Ours, MaxLosses <= 1, Lose
  PROVE  losses = 0 /\ losses' = 1 /\ Agreed
  BY BoundsAssumption DEF Inv, TypeOK, Lose, Ours

\* Steps that read, write and say nothing.
LEMMA SilentOurs ==
  ASSUME Ours, UNCHANGED <<log, file, ckpt, losses>>,
         \A g \in Groups : claim'[g] = "none" => claim[g] = "none",
         \/ tick'.pc = "idle"
         \/ UNCHANGED <<tick, claim>>
         \/ /\ tick.pc \in {"look", "decide"} /\ tick'.pc \in {"release", "record"}
            /\ tick'.spool = tick.spool
            /\ tick'.pc = "record" => claim'[tick'.group] = "closing"
  PROVE  Ours'
<1>1. (losses = 0 => Agreed)'
  BY DEF Ours, Agreed
<1>2. Disowned'
  BY DEF Ours, Disowned
<1>3. Knows'
  BY DEF Ours, Knows
<1> QED BY <1>1, <1>2, <1>3 DEF Ours

LEMMA CutReplayOurs ==
  ASSUME Inv, Ours, ReplayEndsEarly
  PROVE  Ours'
<1>1. PICK to \in Offset .. Len(log) : ckpt' = Replayed(to)
  BY DEF ReplayEndsEarly
<1> DEFINE s == Replayed(to)
<1>2. /\ s.file = file /\ s.at = to /\ to <= Len(log)
      /\ s.ours = Projection(log, ckpt.ours, Onward(log, file, ckpt), to)
      /\ Says(log, file, s) = Says(log, file, ckpt)
  BY ReplayKeeps
<1>3. /\ UNCHANGED <<log, file, tick, claim, losses>>
      /\ tick.pc = "idle"
  BY DEF ReplayEndsEarly, logVars
<1>4. /\ Onward(log, file, ckpt) \in 0 .. Len(log) /\ Len(log) \in Nat
      /\ Onward(log, file, ckpt) <= to /\ to \in Nat
      /\ s.at <= Len(log)
  BY <1>2, OnwardType DEF Inv, TypeOK, Offset, Onward
<1> HIDE DEF s
<1>5. ckpt' = s
  BY <1>1 DEF s
<1>6. ASSUME losses = 0 PROVE Agreed'
  <2>1. Agreed
    BY <1>6 DEF Ours
  <2>2. Onward(log, file, ckpt) = ckpt.at
    BY <2>1 DEF Agreed, Onward
  <2>3. ASSUME NEW g \in Groups, claim[g] = "none"
        PROVE  /\ g \notin s.ours
               /\ \A i \in s.at + 1 .. Len(log) :
                    log[i].group = g => log[i].act # "closed"
    <3>1. /\ g \notin ckpt.ours
          /\ \A i \in ckpt.at + 1 .. Len(log) :
                    log[i].group = g => log[i].act # "closed"
      BY <2>1, <2>3 DEF Agreed
    <3>2. \A i \in ckpt.at + 1 .. to : i \in ckpt.at + 1 .. Len(log)
      BY <1>2, <1>4, <2>2
    <3>3. \A i \in s.at + 1 .. Len(log) : i \in ckpt.at + 1 .. Len(log)
      BY <1>2, <1>4, <2>2
    <3>4. g \notin s.ours
      BY <1>2, <1>4, <2>2, <3>1, <3>2, ProjectionQuiet
    <3> QED BY <3>1, <3>3, <3>4
  <2> QED BY <1>2, <1>3, <1>4, <1>5, <2>1, <2>3 DEF Agreed
<1>7. Disowned'
  BY <1>2, <1>3, <1>4, <1>5 DEF Ours, Disowned, Over
<1> QED BY <1>3, <1>6, <1>7 DEF Ours, Knows

LEMMA ReadOurs ==
  ASSUME Inv, Ours, MaxLosses <= 1, TickReads
  PROVE  Ours'
<1> DEFINE s == Replayed(Len(log))
<1>1. Len(log) \in Offset .. Len(log) /\ Len(log) \in Nat
  BY DEF Inv, TypeOK, Offset, SpoolState
<1>2. /\ s.file = file /\ s.at = Len(log)
      /\ Says(log, file, s) = Says(log, file, ckpt)
      /\ s.ours = Says(log, file, ckpt)
  BY <1>1, ReplayKeeps
<1> HIDE DEF s
<1>3. /\ tick'.pc = "look" /\ tick'.spool = s
      /\ Saves(s)
      /\ UNCHANGED <<log, file, claim>>
  BY DEF TickReads, Inv, TypeOK, Tick, logVars, s
<1>4. Knows'
  <2>1. \A g \in Groups : claim[g] = "none" => g \notin s.ours
    BY <1>2 DEF Ours, Disowned, Over
  <2> QED BY <1>2, <1>3, <2>1 DEF Knows
<1>5. CASE ckpt' = s /\ UNCHANGED losses
  <2>1. Disowned'
    BY <1>1, <1>2, <1>3, <1>5 DEF Ours, Disowned, Over
  <2>2. ASSUME losses = 0 PROVE Agreed'
    <3>1. Agreed
      BY <2>2 DEF Ours
    <3>2. s.ours = Owned(log)
      BY <1>2, <3>1 DEF Agreed
    <3>3. \A i \in s.at + 1 .. Len(log) : FALSE
      BY <1>1, <1>2
    <3>4. \A g \in Groups : claim[g] = "none" => g \notin Owned(log)
      BY <3>1 DEF Agreed
    <3> QED BY <1>1, <1>2, <1>3, <1>5, <3>2, <3>3, <3>4 DEF Agreed
  <2> QED BY <1>4, <1>5, <2>1, <2>2 DEF Ours
<1>6. CASE Lose /\ UNCHANGED ckpt
  <2>1. losses' = 1
    BY <1>6, LosesOnce
  <2> QED BY <1>3, <1>4, <1>6, <2>1 DEF Ours, Disowned
<1> QED BY <1>3, <1>5, <1>6 DEF Saves

\* A tick that saves what it knows, and drops its claim to other groups only.
LEMMA SaveKeeps ==
  ASSUME Inv, Ours, MaxLosses <= 1, tick.pc # "idle", Saves(tick.spool),
         UNCHANGED <<log, file>>,
         \A g \in Groups : claim'[g] = "none" =>
           /\ g \notin tick.spool.ours
           /\ losses = 0 => \A i \in tick.spool.at + 1 .. Len(log) :
                              log[i].group = g => log[i].act # "closed",
         \/ tick'.pc = "idle"
         \/ tick.pc = "release" /\ tick'.pc = "decide" /\ tick'.spool = tick.spool
  PROVE  Ours'
<1>1. Knows'
  BY DEF Knows, Ours
<1>2. CASE ckpt' = tick.spool /\ UNCHANGED losses
  <2>1. Disowned'
    BY <1>2 DEF Ours, Knows, Disowned, Over
  <2>2. ASSUME losses = 0 PROVE Agreed'
    <3>1. Agreed
      BY <2>2 DEF Ours
    <3>2. Says(log, file, tick.spool) = Owned(log)
      BY <3>1, KnownSays
    <3> QED BY <1>2, <2>2, <3>1, <3>2 DEF Agreed
  <2> QED BY <1>1, <1>2, <2>1, <2>2 DEF Ours
<1>3. CASE Lose /\ UNCHANGED ckpt
  <2>1. losses' = 1 /\ Agreed
    BY <1>3, LosesOnce
  <2>2. /\ Says(log, file, ckpt) = tick.spool.ours
        /\ ckpt.at <= Len(log)
    BY <2>1 DEF Agreed
  <2>3. ckpt.at \in Nat /\ Len(log) \in Nat
    BY DEF Inv, TypeOK, SpoolState
  <2>4. Disowned'
    BY <1>3, <2>2, <2>3 DEF Disowned, Over
  <2> QED BY <1>1, <2>1, <2>4 DEF Ours
<1> QED BY <1>2, <1>3 DEF Saves

LEMMA ReleasedOurs ==
  ASSUME Inv, Ours, MaxLosses <= 1, TickReleased
  PROVE  Ours'
<1>1. /\ tick.pc = "release" /\ tick'.pc = "decide" /\ tick'.spool = tick.spool
      /\ Saves(tick.spool)
      /\ UNCHANGED <<log, file>>
      /\ tick.spool.ours \cap tick.running = {}
      /\ \A g \in Groups : claim'[g] = "none" => g \in tick.running \/ claim[g] = "none"
  BY DEF TickReleased, Inv, TypeOK, Tick, logVars
<1>2. \A g \in Groups : claim'[g] = "none" => g \notin tick.spool.ours
  BY <1>1 DEF Ours, Knows
<1>3. losses = 0 => \A i \in tick.spool.at + 1 .. Len(log) : log[i].act # "closed"
  BY <1>1 DEF Ours, Agreed
<1> QED BY <1>1, <1>2, <1>3, SaveKeeps

LEMMA SavesOurs ==
  ASSUME Inv, Ours, MaxLosses <= 1, TickSaves
  PROVE  Ours'
<1>1. /\ tick.pc = "save" /\ tick'.pc = "idle"
      /\ Saves(tick.spool)
      /\ UNCHANGED <<log, file>>
      /\ \A g \in Groups \ {tick.group} : claim'[g] = claim[g]
      /\ tick.group \in Groups
      /\ claim'[tick.group] = "none" => tick.act = "opened"
  BY DEF TickSaves, Inv, TypeOK, NoTick, logVars, Saying
<1>2. /\ tick.group \in tick.spool.ours <=> tick.act = "closed"
      /\ \A g \in Groups : claim[g] = "none" => g \notin tick.spool.ours
  BY <1>1 DEF Ours, Knows
<1>3. \A g \in Groups : claim'[g] = "none" =>
        /\ g \notin tick.spool.ours
        /\ g = tick.group => tick.act = "opened"
  BY <1>1, <1>2
<1>4. losses = 0 => \A i \in tick.spool.at + 1 .. Len(log) :
        log[i].act = "closed" => log[i].group = tick.group /\ tick.act = "closed"
  BY <1>1 DEF Ours, Agreed
<1>5. \A g \in Groups : claim'[g] = "none" /\ losses = 0 =>
        \A i \in tick.spool.at + 1 .. Len(log) :
          log[i].group = g => log[i].act # "closed"
  BY <1>3, <1>4
<1> QED BY <1>1, <1>3, <1>5, SaveKeeps

\* What a tick has just appended, it knows.
LEMMA AppendOurs ==
  ASSUME Inv, Ours, MaxLosses <= 1, UNCHANGED <<file, ckpt>>,
         NEW act \in {"closed", "opened", "released"}, NEW g \in Groups,
         Appends(act, g),
         tick.pc \in {"release", "record"},
         tick'.pc = IF act = "released" THEN "release" ELSE "save",
         tick'.act = act \/ act = "released", tick'.group = g \/ act = "released",
         tick'.spool.at = tick.spool.at, tick'.spool.file = tick.spool.file,
         tick'.spool.ours = IF act = "closed" THEN tick.spool.ours \cup {g}
                            ELSE tick.spool.ours \ {g},
         claim'[g] = "closing",
         \A h \in Groups \ {g} : claim'[h] = claim[h]
  PROVE  Ours'
<1> DEFINE e == [act |-> act, group |-> g]
           s == tick.spool
           t == tick'.spool
<1>1. /\ e \in Event /\ e.act = act /\ e.group = g
      /\ s \in SpoolState
      /\ ckpt \in SpoolState
      /\ Len(log) \in Nat /\ log \in Seq(Event)
      /\ s.at \in Nat /\ ckpt.at \in Nat
      /\ Says(log, file, s) \subseteq Groups
  BY DEF Event, Inv, TypeOK, Tick, SpoolState, Says, Projection
<1>2. /\ t.at = s.at /\ t.file = s.file
      /\ t.ours = IF act = "closed" THEN s.ours \cup {g} ELSE s.ours \ {g}
  OBVIOUS
<1>3. \A h \in Groups : claim'[h] = "none" => h # g /\ claim[h] = "none"
  OBVIOUS
<1>4. /\ Says(log, file, s) \subseteq s.ours
      /\ \A h \in Groups : claim[h] = "none" => h \notin s.ours
  BY DEF Ours, Knows
<1> HIDE DEF e, s, t
<1>5. ASSUME Says(log', file, t) \subseteq t.ours PROVE Knows'
  <2>1. \A h \in Groups : claim'[h] = "none" => h \notin t.ours
    BY <1>2, <1>3, <1>4
  <2>2. act # "released" => (tick'.group \in t.ours <=> tick'.act = "closed")
    BY <1>2
  <2> QED BY <1>5, <2>1, <2>2 DEF Knows, t
<1>6. CASE log' = Append(log, e) /\ UNCHANGED losses
  <2>1. /\ Len(log') = Len(log) + 1
        /\ Owned(log') = IF act = "closed" THEN Owned(log) \cup {g} ELSE Owned(log) \ {g}
        /\ \/ ckpt.file = file /\ ckpt.at = Len(log) + 1 /\ Says(log', file, ckpt) = ckpt.ours
           \/ /\ ckpt.file = file => ckpt.at # Len(log) + 1
              /\ Says(log', file, ckpt) =
                   IF act = "closed" THEN Says(log, file, ckpt) \cup {g}
                   ELSE Says(log, file, ckpt) \ {g}
    BY <1>1, <1>6, AppendSays
  <2>2. Says(log', file, t) \subseteq t.ours
    <3>1. \/ s.file = file /\ s.at = Len(log) + 1
          \/ Says(log', file, s) = IF act = "closed" THEN Says(log, file, s) \cup {g}
                                   ELSE Says(log, file, s) \ {g}
      BY <1>1, <1>6, AppendSays
    <3>2. CASE s.file = file /\ s.at = Len(log) + 1
      <4>1. Onward(log', file, t) = Len(log')
        BY <1>1, <1>2, <2>1, <3>2 DEF Onward
      <4>2. \A i \in Len(log') + 1 .. Len(log') : FALSE
        BY <1>1, <2>1
      <4> QED BY <1>1, <2>1, <4>1, <4>2, ProjectionQuiet DEF Says, Projection
    <3>3. CASE ~(s.file = file /\ s.at = Len(log) + 1)
      <4>1. Onward(log', file, t) = Onward(log', file, s)
        BY <1>2 DEF Onward
      <4>2. CASE act = "closed"
        <5>1. Says(log', file, t) \ {g} \subseteq Says(log', file, s)
          BY <1>2, <4>1, <4>2 DEF Says, Projection
        <5> QED BY <1>2, <1>4, <3>1, <3>3, <4>2, <5>1
      <4>3. CASE act # "closed"
        <5>1. Says(log', file, t) \subseteq Says(log', file, s)
          BY <1>2, <4>1, <4>3, ProjectionMonotone DEF Says
        <5> QED BY <1>2, <1>4, <3>1, <3>3, <4>3, <5>1
      <4> QED BY <4>2, <4>3
    <3> QED BY <3>2, <3>3
  <2>3. Disowned'
    <3> SUFFICES ASSUME NEW h \in Groups, claim'[h] = "none"
                 PROVE  Over(log', file, ckpt, h)
      BY DEF Disowned
    <3>1. h # g /\ Over(log, file, ckpt, h)
      BY <1>3 DEF Ours, Disowned
    <3> QED BY <1>1, <2>1, <3>1 DEF Over
  <2>4. ASSUME losses = 0 PROVE Agreed'
    <3>1. Agreed
      BY <2>4 DEF Ours
    <3>2. /\ ckpt.file = file /\ ckpt.at <= Len(log')
          /\ Says(log', file, ckpt) = Owned(log')
      BY <1>1, <2>1, <3>1 DEF Agreed
    <3>3. /\ t.file = file /\ t.at <= Len(log') /\ t.ours = Owned(log')
      <4>1. s.file = file /\ s.at <= Len(log) /\ s.ours = Owned(log)
        BY <3>1 DEF Agreed, s
      <4> QED BY <1>1, <1>2, <2>1, <4>1
    <3>4. ASSUME NEW i \in t.at + 1 .. Len(log'), log'[i].act = "closed"
          PROVE  tick'.pc = "save" /\ tick'.act = "closed" /\ log'[i].group = tick'.group
      <4>1. CASE i = Len(log) + 1
        <5>1. log'[i] = e
          BY <1>1, <1>6, <4>1
        <5> QED BY <1>1, <3>4, <5>1
      <4>2. CASE i # Len(log) + 1
        <5>1. i \in s.at + 1 .. Len(log) /\ log'[i] = log[i]
          BY <1>1, <1>2, <1>6, <2>1, <3>4, <4>2
        <5> QED BY <3>1, <3>4, <5>1 DEF Agreed, s
      <4> QED BY <4>1, <4>2
    <3>5. ASSUME NEW h \in Groups, claim'[h] = "none"
          PROVE  /\ h \notin ckpt.ours
                 /\ h \notin Owned(log')
                 /\ \A i \in ckpt.at + 1 .. Len(log') :
                      log'[i].group = h => log'[i].act # "closed"
      <4>1. /\ h # g /\ h \notin ckpt.ours /\ h \notin Owned(log)
            /\ \A i \in ckpt.at + 1 .. Len(log) :
                 log[i].group = h => log[i].act # "closed"
        BY <1>3, <3>1, <3>5 DEF Agreed
      <4>2. ASSUME NEW i \in ckpt.at + 1 .. Len(log'), log'[i].group = h
            PROVE  i \in ckpt.at + 1 .. Len(log) /\ log'[i] = log[i]
        BY <1>1, <1>6, <2>1, <4>1, <4>2
      <4> QED BY <2>1, <4>1, <4>2
    <3> QED BY <3>2, <3>3, <3>4, <3>5 DEF Agreed, t
  <2> QED BY <1>5, <1>6, <2>2, <2>3, <2>4 DEF Ours
<1>7. CASE Lose /\ UNCHANGED log
  <2>1. losses' = 1 /\ Agreed
    BY <1>7, LosesOnce
  <2>2. Disowned'
    BY <1>3, <1>7 DEF Ours, Disowned
  <2>3. Onward(log, file, t) = t.at
    BY <1>2, <2>1 DEF Agreed, Onward, s
  <2>4. \A i \in t.at + 1 .. Len(log) : log[i].act # "closed"
    BY <1>2, <2>1 DEF Agreed, s
  <2>5. Says(log, file, t) \subseteq t.ours
    BY SMTT(30), <1>1, <1>2, <2>3, <2>4, ProjectionQuiet DEF Says, Projection
  <2> QED BY <1>5, <1>7, <2>1, <2>2, <2>5 DEF Ours
<1> QED BY <1>6, <1>7 DEF Appends, e

LEMMA ReplacedOurs ==
  ASSUME Inv, Ours, MaxLosses <= 1, LogReplaced
  PROVE  Ours'
<1>1. /\ losses' = 1 /\ losses = 0 /\ Agreed
      /\ UNCHANGED <<ckpt, tick, claim>>
      /\ \/ log' = <<>>
         \/ log' = log /\ file' = file + 1
  BY LosesOnce DEF LogReplaced
<1>2. /\ file \in Nat /\ log \in Seq(Event) /\ ckpt \in SpoolState
      /\ tick.spool \in SpoolState /\ Len(log) \in Nat
      /\ \A s \in SpoolState : s.ours \in SUBSET Groups /\ s.at \in Nat
  BY BoundsAssumption, ClosableGroups DEF Inv, TypeOK, Tick, SpoolState
<1>3. /\ ckpt.file = file
      /\ tick.pc # "idle" => tick.spool.file = file /\ tick.spool.ours = Owned(log)
  BY <1>1 DEF Agreed
<1>4. CASE log' = <<>>
  <2>1. \A s \in SpoolState : Says(log', file', s) = s.ours
    <3> TAKE s \in SpoolState
    <3>1. Len(log') = 0 /\ Onward(log', file', s) = 0
      BY <1>2, <1>4 DEF Onward
    <3> QED BY <1>2, <3>1, ProjectionNothing DEF Says
  <2>2. \A g \in Groups : claim[g] = "none" => g \notin ckpt.ours
    BY <1>1 DEF Agreed
  <2> QED BY <1>1, <1>2, <2>1, <2>2 DEF Ours, Disowned, Over, Knows
<1>5. CASE log' = log /\ file' = file + 1
  <2>1. Says(log', file', ckpt) = Projection(log, ckpt.ours, 0, Len(log))
    BY <1>2, <1>3, <1>5 DEF Says, Onward
  <2>2. ckpt.file # file' /\ (tick.pc # "idle" => tick.spool.file # file')
    BY <1>2, <1>3, <1>5
  <2>3. Disowned'
    <3> SUFFICES ASSUME NEW g \in Groups, claim[g] = "none"
                 PROVE  g \notin Projection(log, ckpt.ours, 0, Len(log))
      BY <1>1, <2>1, <2>2 DEF Disowned, Over
    <3>1. g \notin ckpt.ours /\ g \notin Owned(log)
      BY <1>1 DEF Agreed
    <3> QED BY <3>1 DEF Owned, Projection
  <2>4. tick.pc # "idle" => Says(log', file', tick.spool) = tick.spool.ours
    <3>1. tick.pc # "idle" =>
            Says(log', file', tick.spool) = Projection(log, Owned(log), 0, Len(log))
      BY <1>3, <1>5, <2>2 DEF Says, Onward
    <3> QED BY <1>2, <1>3, <3>1, ProjectionAgain DEF Owned
  <2> QED BY <1>1, <2>3, <2>4 DEF Ours, Knows
<1> QED BY <1>1, <1>4, <1>5

LEMMA TickOurs ==
  ASSUME Inv, Ours, MaxLosses <= 1, TickStep
  PROVE  Ours'
<1> USE DEF logVars
<1>1. tick \in Tick /\ claim \in [Groups -> {"none", "closing", "closed"}]
  BY DEF Inv, TypeOK
<1>2. CASE TickReads
  BY <1>2, ReadOurs
<1>3. CASE TickLooks
  <2> DEFINE run == {g \in Groups : group[g] = "Running"}
  <2>1. \/ tick' = [tick EXCEPT !.pc = "release", !.running = run] /\ tick.pc = "look"
        \/ tick' = NoTick
    BY <1>3 DEF TickLooks
  <2> HIDE DEF run
  <2>2. \/ tick.pc = "look" /\ tick'.pc = "release" /\ tick'.spool = tick.spool
        \/ tick'.pc = "idle"
    <3>1. CASE tick' = [tick EXCEPT !.pc = "release", !.running = run] /\ tick.pc = "look"
      BY <1>1, <3>1 DEF Tick
    <3>2. CASE tick' = NoTick
      BY <3>2 DEF NoTick
    <3> QED BY <2>1, <3>1, <3>2
  <2> QED BY <1>3, <2>2, SilentOurs DEF TickLooks
<1>4. CASE TickReleased
  BY <1>4, ReleasedOurs
<1>5. CASE TickRests
  BY <1>5, SilentOurs DEF TickRests, NoTick
<1>6. CASE TickRecords
  <2>1. /\ tick.act \in {"closed", "opened"} /\ tick.group \in Groups
        /\ tick.pc = "record" /\ claim[tick.group] = "closing"
    BY <1>6 DEF TickRecords, Inv, Saying, Ours, Knows
  <2>2. /\ tick'.pc = "save" /\ tick'.act = tick.act /\ tick'.group = tick.group
        /\ tick'.spool.at = tick.spool.at /\ tick'.spool.file = tick.spool.file
        /\ tick'.spool.ours = IF tick.act = "closed"
                              THEN tick.spool.ours \cup {tick.group}
                              ELSE tick.spool.ours \ {tick.group}
    BY <1>1, <1>6 DEF TickRecords, Tick, SpoolState
  <2> QED BY <1>6, <2>1, <2>2, AppendOurs DEF TickRecords
<1>7. CASE TickSaves
  BY <1>7, SavesOurs
<1>8. ASSUME NEW g \in Groups, TickReleases(g) PROVE Ours'
  <2>1. /\ tick.pc = "release" /\ tick'.pc = "release"
        /\ tick'.spool.at = tick.spool.at /\ tick'.spool.file = tick.spool.file
        /\ tick'.spool.ours = tick.spool.ours \ {g}
    BY <1>1, <1>8 DEF TickReleases, Tick, SpoolState
  <2>2. /\ claim'[g] = "closing"
        /\ \A h \in Groups \ {g} : claim'[h] = claim[h]
    BY <1>1, <1>8 DEF TickReleases
  <2> QED BY <1>8, <2>1, <2>2, AppendOurs DEF TickReleases
<1>9. ASSUME NEW g \in Groups, TickReopens(g) \/ TickCloses(g) PROVE Ours'
  <2>1. \/ UNCHANGED claim
        \/ claim' = [claim EXCEPT ![g] = "closing"]
    BY <1>9 DEF TickReopens, TickCloses, Resume, Pause
  <2>2. \/ tick'.pc = "idle"
        \/ /\ tick.pc = "decide" /\ tick'.pc = "record" /\ tick'.group = g
           /\ tick'.spool = tick.spool
           /\ claim' = [claim EXCEPT ![g] = "closing"]
    <3>1. CASE tick' = NoTick
      BY <3>1 DEF NoTick
    <3>2. CASE tick' # NoTick
      <4>1. /\ tick.pc = "decide" /\ claim' = [claim EXCEPT ![g] = "closing"]
            /\ \E act \in {"closed", "opened"} :
                 tick' = [tick EXCEPT !.pc = "record", !.act = act, !.group = g]
        BY <1>9, <3>2 DEF TickReopens, TickCloses, Resume, Pause
      <4> QED BY <1>1, <4>1 DEF Tick
    <3> QED BY <3>1, <3>2
  <2>3. UNCHANGED <<log, file, ckpt, losses>>
    BY <1>9 DEF TickReopens, TickCloses
  <2> QED BY <1>1, <2>1, <2>2, <2>3, SilentOurs
<1> QED BY <1>2, <1>3, <1>4, <1>5, <1>6, <1>7, <1>8, <1>9 DEF TickStep

LEMMA NextOurs ==
  ASSUME Inv, Ours, MaxLosses <= 1, [Next]_vars
  PROVE  Ours'
<1>1. CASE TickStep
  BY <1>1, TickOurs
<1>2. CASE ReplayEndsEarly
  BY <1>2, CutReplayOurs
<1>3. CASE LogReplaced
  BY <1>3, ReplacedOurs
<1>4. CASE TickEnds
  BY <1>4, SilentOurs DEF TickEnds, NoTick, logVars
<1>5. CASE PressureChanges
  BY <1>5, SilentOurs DEF PressureChanges, logVars
<1>6. ASSUME NEW g \in Groups, OperatorPauses(g) \/ OperatorResumes(g) PROVE Ours'
  BY <1>6, SilentOurs DEF OperatorPauses, OperatorResumes, logVars
<1>7. CASE UNCHANGED vars
  BY <1>7, SilentOurs DEF vars, logVars
<1> QED BY <1>1, <1>2, <1>3, <1>4, <1>5, <1>6, <1>7 DEF Next

\* No tick resumes a group that the operator has paused since a tick last
\* reopened it or found it running -- whatever groups and orders there are,
\* wherever ticks and replays are cut short, and whichever one write or log is
\* lost.  Two losses in one tick can break it.
THEOREM PausesKept ==
  ASSUME MaxLosses <= 1
  PROVE  Spec => OperatorPauseKept
<1> DEFINE Step == \A g \in Groups :
                     group[g] = "Paused" /\ group'[g] = "Running" /\ tick' # tick
                       => claim[g] # "none"
<1>1. Init => Inv /\ Ours
  BY InitInv, InitOurs
<1>2. Inv /\ Ours /\ [Next]_vars => Inv' /\ Ours'
  BY NextInv, NextOurs
<1>3. Inv /\ Ours /\ [Next]_vars => [Step]_vars
  <2> SUFFICES ASSUME Inv, Ours, Next, NEW g \in Groups,
                      group[g] = "Paused", group'[g] = "Running", tick' # tick
               PROVE  claim[g] # "none"
    BY DEF Step
  <2>1. PICK h \in Groups : TickReopens(h) \/ TickCloses(h)
    BY DEF Next, TickStep, TickReads, TickLooks, TickReleased, TickRests,
           TickRecords, TickSaves, TickReleases, ReplayEndsEarly, TickEnds,
           PressureChanges, LogReplaced, OperatorPauses, OperatorResumes
  <2>2. group \in [Groups -> {"Running", "Paused"}]
    BY DEF Inv, TypeOK
  <2>3. TickReopens(h) /\ h = g
    BY <2>1, <2>2 DEF TickReopens, TickCloses, Resume, Pause
  <2>4. g \in tick.spool.ours /\ tick.pc = "decide"
    BY <2>3 DEF TickReopens, IsFirst, Obsolete
  <2> QED BY <2>4 DEF Ours, Knows
<1> QED BY <1>1, <1>2, <1>3, PTL DEF Spec, OperatorPauseKept, Step

-----------------------------------------------------------------------------
(* The parts beside the ticks, and what is proved of each.                 *)

\* KeyedLaunch and its promise are within it, as Proved!Key.
Proved == INSTANCE GatewayCalls_proofs WITH group <- pool, claim <- holder
Served == INSTANCE WarmSession_proofs WITH
  Calls <- Callers, lock <- sessionLock, call <- sessionCall

Apart == Proved!Distinct /\ Proved!Bounds /\ Served!Assumed

\* The definitions of a module are those of the module its theorems are about.
LEMMA SameKey ==
  ASSUME NEW c \in Callers
  PROVE  /\ \A r \in Requests : Launcher!Calls(c, r) <=> Proved!Key!Calls(c, r)
         /\ Launcher!LaunchStep(c) <=> Proved!Key!LaunchStep(c)
         /\ Launcher!Returns(c) <=> Proved!Key!Returns(c)
         /\ \A dead \in SUBSET Callers : Launcher!Die(dead) <=> Proved!Key!Die(dead)
<1> USE DEF Launcher!queueVars, Proved!Key!queueVars, Launcher!NoInput,
            Proved!Key!NoInput, Launcher!NoCall, Proved!Key!NoCall
<1>1. \A r \in Requests : Launcher!Calls(c, r) <=> Proved!Key!Calls(c, r)
  BY DEF Launcher!Calls, Proved!Key!Calls
<1>2. Launcher!Returns(c) <=> Proved!Key!Returns(c)
  BY DEF Launcher!Returns, Proved!Key!Returns
<1>3. \A dead \in SUBSET Callers : Launcher!Die(dead) <=> Proved!Key!Die(dead)
  BY DEF Launcher!Die, Proved!Key!Die
<1>4. Launcher!LaunchStep(c) <=> Proved!Key!LaunchStep(c)
  <2> USE DEF Launcher!Goes, Proved!Key!Goes, Launcher!Ends, Proved!Key!Ends
  <2>1. Launcher!Locks(c) <=> Proved!Key!Locks(c)
    BY DEF Launcher!Locks, Proved!Key!Locks
  <2>2. Launcher!ReadsInput(c) <=> Proved!Key!ReadsInput(c)
    BY DEF Launcher!ReadsInput, Proved!Key!ReadsInput
  <2>3. Launcher!LooksAtQueue(c) <=> Proved!Key!LooksAtQueue(c)
    BY DEF Launcher!LooksAtQueue, Proved!Key!LooksAtQueue
  <2>4. Launcher!LooksAtEvidence(c) <=> Proved!Key!LooksAtEvidence(c)
    BY DEF Launcher!LooksAtEvidence, Proved!Key!LooksAtEvidence
  <2>5. Launcher!WritesInput(c) <=> Proved!Key!WritesInput(c)
    BY DEF Launcher!WritesInput, Proved!Key!WritesInput
  <2>6. Launcher!SendsAdd(c) <=> Proved!Key!SendsAdd(c)
    BY DEF Launcher!SendsAdd, Proved!Key!SendsAdd
  <2>7. Launcher!AddAnswered(c) <=> Proved!Key!AddAnswered(c)
    BY DEF Launcher!AddAnswered, Proved!Key!AddAnswered
  <2>8. Launcher!AddFails(c) <=> Proved!Key!AddFails(c)
    BY DEF Launcher!AddFails, Proved!Key!AddFails
  <2>9. Launcher!Acks(c) <=> Proved!Key!Acks(c)
    BY DEF Launcher!Acks, Proved!Key!Acks
  <2>10. QED
    BY <2>1, <2>2, <2>3, <2>4, <2>5, <2>6, <2>7, <2>8, <2>9
       DEF Launcher!LaunchStep, Proved!Key!LaunchStep
<1>5. QED  BY <1>1, <1>2, <1>3, <1>4

LEMMA SameKeyQueue == Launcher!QueueStep <=> Proved!Key!QueueStep
BY DEF Launcher!QueueStep, Proved!Key!QueueStep, Launcher!Adds, Proved!Key!Adds,
   Launcher!DaemonAdds, Proved!Key!DaemonAdds, Launcher!JobRemoved,
   Proved!Key!JobRemoved, Launcher!JobBegins, Proved!Key!JobBegins,
   Launcher!NoInput, Proved!Key!NoInput

LEMMA SameOwner ==
  ASSUME NEW c \in Callers
  PROVE  /\ \A r \in Requests : Gateway!Launcher!Calls(c, r) <=>
              Proved!Launcher!Calls(c, r)
         /\ Gateway!Launcher!LaunchStep(c) <=> Proved!Launcher!LaunchStep(c)
         /\ Gateway!Launcher!Returns(c) <=> Proved!Launcher!Returns(c)
         /\ \A dead \in SUBSET Callers : Gateway!Launcher!Die(dead) <=>
              Proved!Launcher!Die(dead)
<1> USE DEF Gateway!Launcher!queueVars, Proved!Launcher!queueVars,
            Gateway!Launcher!NoInput, Proved!Launcher!NoInput,
            Gateway!Launcher!NoCall, Proved!Launcher!NoCall
<1>1. \A r \in Requests : Gateway!Launcher!Calls(c, r) <=> Proved!Launcher!Calls(c, r)
  BY DEF Gateway!Launcher!Calls, Proved!Launcher!Calls
<1>2. Gateway!Launcher!Returns(c) <=> Proved!Launcher!Returns(c)
  BY DEF Gateway!Launcher!Returns, Proved!Launcher!Returns
<1>3. \A dead \in SUBSET Callers : Gateway!Launcher!Die(dead) <=>
        Proved!Launcher!Die(dead)
  BY DEF Gateway!Launcher!Die, Proved!Launcher!Die
<1>4. Gateway!Launcher!LaunchStep(c) <=> Proved!Launcher!LaunchStep(c)
  <2> USE DEF Gateway!Launcher!Goes, Proved!Launcher!Goes, Gateway!Launcher!Ends,
              Proved!Launcher!Ends
  <2>1. Gateway!Launcher!Locks(c) <=> Proved!Launcher!Locks(c)
    BY DEF Gateway!Launcher!Locks, Proved!Launcher!Locks
  <2>2. Gateway!Launcher!ReadsInput(c) <=> Proved!Launcher!ReadsInput(c)
    BY DEF Gateway!Launcher!ReadsInput, Proved!Launcher!ReadsInput
  <2>3. Gateway!Launcher!LooksAtQueue(c) <=> Proved!Launcher!LooksAtQueue(c)
    BY DEF Gateway!Launcher!LooksAtQueue, Proved!Launcher!LooksAtQueue
  <2>4. Gateway!Launcher!LooksAtEvidence(c) <=> Proved!Launcher!LooksAtEvidence(c)
    BY DEF Gateway!Launcher!LooksAtEvidence, Proved!Launcher!LooksAtEvidence
  <2>5. Gateway!Launcher!WritesInput(c) <=> Proved!Launcher!WritesInput(c)
    BY DEF Gateway!Launcher!WritesInput, Proved!Launcher!WritesInput
  <2>6. Gateway!Launcher!SendsAdd(c) <=> Proved!Launcher!SendsAdd(c)
    BY DEF Gateway!Launcher!SendsAdd, Proved!Launcher!SendsAdd
  <2>7. Gateway!Launcher!AddAnswered(c) <=> Proved!Launcher!AddAnswered(c)
    BY DEF Gateway!Launcher!AddAnswered, Proved!Launcher!AddAnswered
  <2>8. Gateway!Launcher!AddFails(c) <=> Proved!Launcher!AddFails(c)
    BY DEF Gateway!Launcher!AddFails, Proved!Launcher!AddFails
  <2>9. Gateway!Launcher!Acks(c) <=> Proved!Launcher!Acks(c)
    BY DEF Gateway!Launcher!Acks, Proved!Launcher!Acks
  <2>10. QED
    BY <2>1, <2>2, <2>3, <2>4, <2>5, <2>6, <2>7, <2>8, <2>9
       DEF Gateway!Launcher!LaunchStep, Proved!Launcher!LaunchStep
<1>5. QED  BY <1>1, <1>2, <1>3, <1>4

LEMMA SameOwnerQueue == Gateway!Launcher!QueueStep <=> Proved!Launcher!QueueStep
BY DEF Gateway!Launcher!QueueStep, Proved!Launcher!QueueStep, Gateway!Launcher!Adds,
   Proved!Launcher!Adds, Gateway!Launcher!DaemonAdds, Proved!Launcher!DaemonAdds,
   Gateway!Launcher!JobRemoved, Proved!Launcher!JobRemoved,
   Gateway!Launcher!JobBegins, Proved!Launcher!JobBegins, Gateway!Launcher!NoInput,
   Proved!Launcher!NoInput

LEMMA SameLaunch ==
  ASSUME Launcher!Next
  PROVE  [Proved!Key!Next]_(Proved!Key!vars)
<1>1. ASSUME NEW c \in Callers,
             \/ \E r \in Requests : Launcher!Calls(c, r)
             \/ Launcher!CallStep(c) \/ Launcher!Dies(c)
      PROVE  Proved!Key!Next
  BY <1>1, SameKey DEF Launcher!CallStep, Launcher!Dies, Proved!Key!CallStep,
                       Proved!Key!Dies, Proved!Key!Next
<1>2. CASE Launcher!QueueStep
  BY <1>2, SameKeyQueue DEF Proved!Key!Next
<1>3. CASE Launcher!AtRest
  BY <1>3 DEF Launcher!AtRest, Launcher!vars, Launcher!queueVars, Proved!Key!vars,
              Proved!Key!queueVars
<1>4. QED  BY <1>1, <1>2, <1>3 DEF Launcher!Next

LEMMA SameGateway ==
  ASSUME Gateway!Next
  PROVE  [Proved!Next]_(Proved!vars)
<1> USE DEF Gateway!launchVars, Proved!launchVars, Gateway!Goes, Proved!Goes,
        Gateway!Replies, Proved!Replies, Gateway!Says, Proved!Says,
        Gateway!NoAnswer, Proved!NoAnswer, Gateway!NoGate, Proved!NoGate,
        Gateway!NoRow, Proved!NoRow, Gateway!NoRead, Proved!NoRead,
        Gateway!Abandons, Proved!Abandons
<1>1. ASSUME NEW g \in Callers, NEW r \in Requests, Gateway!Request(g, r)
      PROVE  Proved!Request(g, r)
  BY <1>1 DEF Gateway!Request, Proved!Request
<1>2. ASSUME NEW g \in Callers, Gateway!CallStep(g) \/ Gateway!CallCancelled(g)
      PROVE  Proved!CallStep(g) \/ Proved!CallCancelled(g)
  <2>1. Gateway!TriesLock(g) => Proved!TriesLock(g)
    BY DEF Gateway!TriesLock, Proved!TriesLock
  <2>2. Gateway!Claims(g) => Proved!Claims(g)
    BY DEF Gateway!Claims, Proved!Claims
  <2>3. Gateway!Runs(g) => Proved!Runs(g)
    BY DEF Gateway!Runs, Proved!Runs, Gateway!Launcher!Calls,
           Proved!Launcher!Calls, Gateway!Launcher!queueVars, Proved!Launcher!queueVars
  <2>4. Gateway!OwnerSteps(g) => Proved!OwnerSteps(g)
    BY SameOwner DEF Gateway!OwnerSteps, Proved!OwnerSteps
  <2>5. Gateway!OwnerReturns(g) => Proved!OwnerReturns(g)
    BY SameOwner DEF Gateway!OwnerReturns, Proved!OwnerReturns
  <2>6. Gateway!Settles(g) => Proved!Settles(g)
    BY DEF Gateway!Settles, Proved!Settles, Gateway!Completes, Proved!Completes
  <2>7. Gateway!RecoverReads(g) => Proved!RecoverReads(g)
    BY DEF Gateway!RecoverReads, Proved!RecoverReads, Gateway!Launcher!NoInput,
           Proved!Launcher!NoInput
  <2>8. Gateway!RecoverLooks(g) => Proved!RecoverLooks(g)
    BY DEF Gateway!RecoverLooks, Proved!RecoverLooks
  <2>9. Gateway!RecoverJudges(g) => Proved!RecoverJudges(g)
    BY DEF Gateway!RecoverJudges, Proved!RecoverJudges
  <2>10. Gateway!RecoverCompletes(g) => Proved!RecoverCompletes(g)
    BY DEF Gateway!RecoverCompletes, Proved!RecoverCompletes, Gateway!Completes,
           Proved!Completes
  <2>11. Gateway!Returns(g) => Proved!Returns(g)
    BY DEF Gateway!Returns, Proved!Returns
  <2>12. Gateway!CallCancelled(g) => Proved!CallCancelled(g)
    BY SameOwner DEF Gateway!CallCancelled, Proved!CallCancelled
  <2>13. QED
    BY <1>2, <2>1, <2>2, <2>3, <2>4, <2>5, <2>6, <2>7, <2>8, <2>9, <2>10, <2>11,
       <2>12
       DEF Gateway!CallStep, Proved!CallStep
<1>3. ASSUME Gateway!ReadsRow \/ Gateway!Probes \/ Gateway!ProbeEnds \/ Gateway!ReadReturns
      PROVE  Proved!ReadsRow \/ Proved!Probes \/ Proved!ProbeEnds \/ Proved!ReadReturns
  BY <1>3 DEF Gateway!ReadsRow, Gateway!Probes, Gateway!ProbeEnds, Gateway!ReadReturns,
              Proved!ReadsRow, Proved!Probes, Proved!ProbeEnds, Proved!ReadReturns
<1>4. ASSUME Gateway!QueueMoves PROVE Proved!QueueMoves
  BY <1>4, SameOwnerQueue DEF Gateway!QueueMoves, Proved!QueueMoves
<1>5. ASSUME Gateway!Restarts PROVE Proved!Restarts
  BY <1>5, SameOwner DEF Gateway!Restarts, Proved!Restarts
<1>6. ASSUME Gateway!AtRest PROVE UNCHANGED Proved!vars
  BY <1>6 DEF Gateway!AtRest, Gateway!vars, Proved!vars
<1>7. QED
  BY <1>1, <1>2, <1>3, <1>4, <1>5, <1>6 DEF Gateway!Next, Proved!Next

LEMMA SameSession ==
  ASSUME Warm!Next
  PROVE  [Served!Next]_(Served!vars)
<1> USE DEF Warm!None, Served!None, Warm!Sessions, Served!Sessions, Warm!Goes,
        Served!Goes, Warm!Frees, Served!Frees
<1>1. ASSUME NEW c \in Callers, Warm!CallStep(c) \/ Warm!TimesOut(c)
      PROVE  Served!CallStep(c) \/ Served!TimesOut(c)
  <2>1. Warm!TakesSession(c) => Served!TakesSession(c)
    BY DEF Warm!TakesSession, Served!TakesSession
  <2>2. Warm!Started(c) => Served!Started(c)
    BY DEF Warm!Started, Served!Started
  <2>3. Warm!Sends(c) => Served!Sends(c)
    BY DEF Warm!Sends, Served!Sends
  <2>4. Warm!Hears(c) => Served!Hears(c)
    BY DEF Warm!Hears, Served!Hears
  <2>5. Warm!Discards(c) => Served!Discards(c)
    BY DEF Warm!Discards, Served!Discards
  <2>6. Warm!Runs(c) => Served!Runs(c)
    BY DEF Warm!Runs, Served!Runs
  <2>7. Warm!Replies(c) => Served!Replies(c)
    BY DEF Warm!Replies, Served!Replies
  <2>8. Warm!TimesOut(c) => Served!TimesOut(c)
    BY DEF Warm!TimesOut, Served!TimesOut
  <2>9. QED
    BY <1>1, <2>1, <2>2, <2>3, <2>4, <2>5, <2>6, <2>7, <2>8
       DEF Warm!CallStep, Served!CallStep
<1>2. ASSUME NEW s \in Warm!Sessions, Warm!SessionStep(s) \/ Warm!Breaks(s)
      PROVE  Served!SessionStep(s) \/ Served!Breaks(s)
  <2>1. Warm!Serves(s) => Served!Serves(s)
    BY DEF Warm!Serves, Served!Serves
  <2>2. Warm!Admits(s) => Served!Admits(s)
    BY DEF Warm!Admits, Served!Admits
  <2>3. Warm!Tells(s) => Served!Tells(s)
    BY DEF Warm!Tells, Served!Tells
  <2>4. Warm!SessionEnds(s) => Served!SessionEnds(s)
    BY DEF Warm!SessionEnds, Served!SessionEnds
  <2>5. Warm!Breaks(s) => Served!Breaks(s)
    BY DEF Warm!Breaks, Served!Breaks
  <2>6. QED
    BY <1>2, <2>1, <2>2, <2>3, <2>4, <2>5
       DEF Warm!SessionStep, Served!SessionStep
<1>3. ASSUME Warm!AtRest \/ Warm!OutOfSessions PROVE UNCHANGED Served!vars
  BY <1>3 DEF Warm!AtRest, Warm!OutOfSessions, Warm!vars, Served!vars
<1>4. QED
  BY <1>1, <1>2, <1>3 DEF Warm!Next, Served!Next

-----------------------------------------------------------------------------
(* A behaviour of one scope: the parts that rest keep what holds of them.  *)

Resting ==
  row = Gateway!NoRow /\ \A g \in Callers : gate[g].reply = Gateway!NoAnswer

ControlInv ==
  /\ Proved!Key!Inv /\ Proved!Bounded /\ Proved!Kinds
  /\ scope = "gateway" => Proved!Inv
  /\ scope # "gateway" => Resting
  /\ Served!WarmInv

LEMMA ControlStarts ==
  ASSUME Apart, ControlInit
  PROVE  ControlInv /\ Launcher!Promise!Init
<1>1. Proved!Init
  BY DEF ControlInit, Gateway!Init, Proved!Init, Gateway!NoRow, Proved!NoRow,
         Gateway!NoAnswer, Proved!NoAnswer, Gateway!NoGate, Proved!NoGate,
         Gateway!NoRead, Proved!NoRead, Gateway!Launcher!Init, Proved!Launcher!Init,
         Gateway!Launcher!NoInput, Proved!Launcher!NoInput, Gateway!Launcher!NoCall,
         Proved!Launcher!NoCall
<1>2. Proved!Inv /\ Proved!Bounded
  BY <1>1, Proved!InitInv, Proved!InitBounded DEF Apart
<1>3. Resting
  BY DEF ControlInit, Gateway!Init, Resting, Gateway!NoGate
<1>4. Served!WarmInv
  <2>1. Served!Init
    BY DEF ControlInit, Warm!Init, Served!Init, Warm!None, Served!None, Warm!Sessions,
           Served!Sessions, Warm!NewCall, Served!NewCall
  <2>2. QED  BY <2>1, Served!WarmInit DEF Apart, Served!Assumed
<1>5. Launcher!Promise!Init
  <2>1. tasks = {} /\ \A c \in Callers : call[c] = Gateway!Launcher!NoCall
    BY DEF ControlInit, Gateway!Init, Gateway!Launcher!Init
  <2>2. \A c \in Callers :
          call[c].request = NoRequest /\ (call[c].result \in {"started", "reused"}) = FALSE
    BY <2>1 DEF Gateway!Launcher!NoCall
  <2>3. /\ [c \in Callers |-> call[c].request] = [c \in Callers |-> NoRequest]
        /\ [c \in Callers |-> call[c].result \in {"started", "reused"}]
             = [c \in Callers |-> FALSE]
    BY <2>2, Zenon
  <2>4. QED  BY <2>1, <2>3 DEF Launcher!Promise!Init
<1>6. QED  BY <1>2, <1>3, <1>4, <1>5 DEF ControlInv, Proved!Inv

\* A step is one of a part, of its module, and leaves the other parts alone.
LEMMA PartSteps ==
  ASSUME ControlNext \/ UNCHANGED controlVars
  PROVE  /\ scope' = scope
         /\ \/ UNCHANGED <<launchVars, gatewayVars>>
            \/ /\ scope = "direct" /\ UNCHANGED gatewayVars
               /\ [Proved!Key!Next]_(Proved!Key!vars)
            \/ scope = "gateway" /\ [Proved!Next]_(Proved!vars)
         /\ \/ UNCHANGED sessionVars
            \/ scope = "session" /\ [Served!Next]_(Served!vars)
<1>1. CASE Ticks(Next) \/ UNCHANGED controlVars
  BY <1>1 DEF Ticks, controlVars
<1>2. CASE Direct(Launcher!Next)
  BY <1>2, SameLaunch DEF Direct
<1>3. CASE ByGateway(Gateway!Next)
  BY <1>3, SameGateway DEF ByGateway
<1>4. CASE InSession(Warm!Next)
  BY <1>4, SameSession DEF InSession
<1>5. QED  BY <1>1, <1>2, <1>3, <1>4 DEF ControlNext

LEMMA ControlKept ==
  ASSUME Apart, ControlInv, ControlNext \/ UNCHANGED controlVars
  PROVE  ControlInv'
<1> USE DEF Apart, ControlInv
<1>1. scope' = scope
  BY PartSteps
<1>2. Served!WarmInv'
  <2>1. UNCHANGED sessionVars => UNCHANGED Served!vars
    BY DEF sessionVars, Served!vars
  <2>2. [Served!Next]_(Served!vars)
    BY <2>1, PartSteps
  <2>3. QED  BY <2>2, Served!NextWarm DEF Served!Assumed
<1>3. CASE UNCHANGED <<launchVars, gatewayVars>>
  <2>1. UNCHANGED Proved!vars /\ UNCHANGED Proved!Key!vars
    BY <1>3 DEF launchVars, gatewayVars, Proved!vars, Proved!launchVars, Proved!Key!vars,
                Proved!Key!queueVars
  <2>2. Proved!Key!Inv' /\ Proved!Key!Counted'
    BY <2>1, Proved!Key!NextInv, Proved!Key!RestsCounted
       DEF Proved!Distinct, Proved!Key!Distinct, Proved!Bounded
  <2>3. Proved!Bounded' /\ Proved!Kinds' /\ (Resting => Resting')
    BY <1>3, <2>2 DEF gatewayVars, Proved!Bounded, Proved!Kinds, Resting
  <2>4. Proved!Inv => Proved!Inv'
    BY <2>1, Proved!NextInv
  <2>5. QED  BY <1>1, <1>2, <2>2, <2>3, <2>4
<1>4. CASE /\ scope = "direct" /\ UNCHANGED gatewayVars
           /\ [Proved!Key!Next]_(Proved!Key!vars)
  <2>1. Proved!Key!Inv' /\ Proved!Key!Counted'
    BY <1>4, Proved!Key!NextInv, Proved!Key!NextCounted
       DEF Proved!Distinct, Proved!Key!Distinct, Proved!Bounds, Proved!Bounded
  <2>2. Proved!Bounded' /\ Proved!Kinds' /\ (Resting => Resting')
    BY <1>4, <2>1 DEF gatewayVars, Proved!Bounded, Proved!Kinds, Resting
  <2>3. QED  BY <1>1, <1>2, <1>4, <2>1, <2>2
<1>5. CASE scope = "gateway" /\ [Proved!Next]_(Proved!vars)
  <2>1. Proved!Inv' /\ Proved!Bounded'
    BY <1>5, Proved!NextInv, Proved!NextBounded
  <2>2. QED  BY <1>1, <1>2, <1>5, <2>1 DEF Proved!Inv
<1>6. QED  BY <1>3, <1>4, <1>5, PartSteps

\* The parts have their types, whatever goes on in one of them.
THEOREM TypesOfTheParts ==
  ASSUME Apart
  PROVE  ControlSpec => []Types
<1>1. ControlInit => ControlInv
  BY ControlStarts
<1>2. ControlInv /\ [ControlNext]_controlVars => ControlInv'
  BY ControlKept
<1>3. ControlInv => Types
  <2> SUFFICES ASSUME ControlInv PROVE Types
    OBVIOUS
  <2> USE DEF ControlInv, Apart
  <2>1. Proved!Key!TypeOK
    BY Proved!Key!CountedTypes DEF Proved!Bounds, Proved!Bounded
  <2>2. Gateway!Launcher!TypeOK
    BY <2>1 DEF Proved!Key!TypeOK, Gateway!Launcher!TypeOK, Proved!Key!Input,
                Gateway!Launcher!Input, Proved!Key!Call, Gateway!Launcher!Call,
                Proved!Key!Adds, Gateway!Launcher!Adds
  <2>3. Gateway!TypeOK
    BY <2>2 DEF Gateway!TypeOK, Proved!Kinds, Proved!Bounded, Gateway!Row, Proved!Row,
                Gateway!Answer, Proved!Answer, Gateway!Gate, Proved!Gate, Gateway!Read,
                Proved!Read
  <2>4. Served!TypeOK
    BY Served!WarmTypes DEF Served!Assumed
  <2>5. Warm!TypeOK
    BY <2>4 DEF Served!TypeOK, Warm!TypeOK, Served!Sessions, Warm!Sessions, Served!None,
                Warm!None
  <2>6. QED  BY <2>3, <2>5 DEF Types
<1>4. QED  BY <1>1, <1>2, <1>3, PTL DEF ControlSpec

\* In a gateway, the job owner is called once for a key, over retries, cancelled
\* calls, failed settlements and restarts.
THEOREM GatewayExecutesOnce ==
  ASSUME Apart
  PROVE  ControlSpec => []ExecutesOnce
<1>1. ControlInit => ControlInv
  BY ControlStarts
<1>2. ControlInv /\ [ControlNext]_controlVars => ControlInv'
  BY ControlKept
<1>3. ControlInv => ExecutesOnce
  BY Proved!TrueAnswers DEF ControlInv, ExecutesOnce, Gateway!ExecutesOnce,
                            Proved!ExecutesOnce
<1>4. QED  BY <1>1, <1>2, <1>3, PTL DEF ControlSpec

\* An "ok" names a job of the very request, and after a refusal nothing was sent
\* or will be.
THEOREM GatewayAnswersAreTrue ==
  ASSUME Apart
  PROVE  ControlSpec => []AnswersAreTrue
<1>1. ControlInit => ControlInv
  BY ControlStarts
<1>2. ControlInv /\ [ControlNext]_controlVars => ControlInv'
  BY ControlKept
<1>3. ControlInv => AnswersAreTrue
  <2>1. Proved!Inv => AnswersAreTrue
    BY Proved!TrueAnswers DEF AnswersAreTrue, Gateway!AnswersAreTrue,
                              Proved!AnswersAreTrue
  <2>2. Resting => AnswersAreTrue
    BY DEF Resting, AnswersAreTrue, Gateway!AnswersAreTrue, Gateway!NoRow,
           Gateway!NoAnswer
  <2>3. QED  BY <2>1, <2>2 DEF ControlInv
<1>4. QED  BY <1>1, <1>2, <1>3, PTL DEF ControlSpec

\* The first answer to a key stays, and is everyone's.
THEOREM GatewayAnswersAgree ==
  ASSUME Apart
  PROVE  ControlSpec => OneAnswer
<1>1. ControlInit => ControlInv
  BY ControlStarts
<1>2. ControlInv /\ [ControlNext]_controlVars => ControlInv'
  BY ControlKept
<1>3. ControlInv /\ [ControlNext]_controlVars =>
        [/\ row.state = "confirmed" => row' = row
         /\ \A g \in Callers :
              gate'[g].reply.verdict \in {"ok", "refused"}
                => gate'[g].reply = row'.answer]_(Gateway!vars)
  <2> SUFFICES ASSUME ControlInv, ControlNext \/ UNCHANGED controlVars
               PROVE  /\ row.state = "confirmed" => row' = row
                      /\ \A g \in Callers :
                           gate'[g].reply.verdict \in {"ok", "refused"}
                             => gate'[g].reply = row'.answer
    OBVIOUS
  <2> USE DEF ControlInv
  <2>1. CASE scope = "gateway"
    <3>1. [Proved!Next]_(Proved!vars)
      BY <2>1, PartSteps DEF launchVars, gatewayVars, Proved!vars, Proved!launchVars
    <3>2. QED  BY <2>1, <3>1, Proved!AnswersAgree DEF Apart
  <2>2. CASE scope # "gateway"
    <3>1. row' = row /\ gate' = gate
      BY <2>2, PartSteps DEF gatewayVars
    <3>2. QED  BY <2>2, <3>1 DEF Resting, Gateway!NoAnswer
  <2>3. QED  BY <2>1, <2>2
<1>4. QED  BY <1>1, <1>2, <1>3, PTL DEF ControlSpec, OneAnswer, Gateway!OneAnswer

\* One job for a key, for the request that came first, whether processes of their
\* own launch it or the calls of a gateway that restarts.
THEOREM OneJobWhoeverCalls ==
  ASSUME Apart
  PROVE  ControlSpec => KeepsPromise
<1>1. ControlInit => ControlInv /\ Launcher!Promise!Init
  BY ControlStarts
<1>2. ControlInv /\ [ControlNext]_controlVars => ControlInv'
  BY ControlKept
<1>3. ControlInv /\ [ControlNext]_controlVars =>
        [Launcher!Promise!Next]_(Launcher!Promise!vars)
  <2> SUFFICES ASSUME ControlInv, ControlNext \/ UNCHANGED controlVars
               PROVE  [Launcher!Promise!Next]_(Launcher!Promise!vars)
    OBVIOUS
  <2> USE DEF ControlInv, Apart
  <2>1. Proved!Key!Distinct
    BY DEF Proved!Distinct, Proved!Key!Distinct
  <2>2. [Proved!Key!Promise!Next]_(Proved!Key!Promise!vars)
    <3>1. CASE UNCHANGED <<launchVars, gatewayVars>>
      BY <3>1 DEF launchVars, Proved!Key!Promise!vars
    <3>2. CASE [Proved!Key!Next]_(Proved!Key!vars)
      BY <2>1, <3>2, Proved!Key!StepRefines
    <3>3. CASE scope = "gateway" /\ [Proved!Next]_(Proved!vars)
      BY <3>3, Proved!PromiseStep
    <3>4. QED  BY <3>1, <3>2, <3>3, PartSteps
  <2>3. QED
    BY <2>2 DEF Proved!Key!Promise!Next, Launcher!Promise!Next, Proved!Key!Promise!vars,
                Launcher!Promise!vars, Proved!Key!Promise!Ask, Launcher!Promise!Ask,
                Proved!Key!Promise!Launch, Launcher!Promise!Launch,
                Proved!Key!Promise!Tell, Launcher!Promise!Tell,
                Proved!Key!Promise!Forget, Launcher!Promise!Forget
<1>4. ControlInv => \A a, b \in tasks : a = b
  BY Proved!Key!OneTask DEF ControlInv
<1>5. QED
  BY <1>1, <1>2, <1>3, <1>4, PTL
     DEF ControlSpec, KeepsPromise, Launcher!KeepsPromise, Launcher!Promise!Spec

\* A session that has ended does not keep the server's name.
THEOREM SessionsAreDropped ==
  ASSUME Apart
  PROVE  ControlSpec => []DeadSessionIsDropped
<1>1. ControlInit => ControlInv
  BY ControlStarts
<1>2. ControlInv /\ [ControlNext]_controlVars => ControlInv'
  BY ControlKept
<1>3. ControlInv => DeadSessionIsDropped
  BY DEF ControlInv, Served!WarmInv, DeadSessionIsDropped, Warm!DeadSessionIsDropped,
         Served!DeadSessionIsDropped, Warm!None, Served!None
<1>4. QED  BY <1>1, <1>2, <1>3, PTL DEF ControlSpec

\* A request to a session is begun once, and while its call waits for it.
THEOREM RequestsRunWhileWanted ==
  ASSUME Apart
  PROVE  ControlSpec => RunsWhileWanted
<1>1. ControlInit => ControlInv
  BY ControlStarts
<1>2. ControlInv /\ [ControlNext]_controlVars => ControlInv'
  BY ControlKept
<1>3. ControlInv /\ [ControlNext]_controlVars =>
        [\A c \in Callers :
           sessionCall'[c].runs # sessionCall[c].runs =>
             sessionCall[c].runs = 0 /\ sessionCall[c].pc = "wait"]_(Warm!vars)
  <2> SUFFICES ASSUME ControlInv, ControlNext \/ UNCHANGED controlVars,
                      NEW c \in Callers, sessionCall'[c].runs # sessionCall[c].runs
               PROVE  sessionCall[c].runs = 0 /\ sessionCall[c].pc = "wait"
    OBVIOUS
  <2>1. [Served!Next]_(Served!vars)
    BY PartSteps DEF sessionVars, Served!vars
  <2>2. QED
    BY <2>1, Served!BegunWhileWanted DEF ControlInv, Apart, Served!Assumed
<1>4. QED
  BY <1>1, <1>2, <1>3, PTL DEF ControlSpec, RunsWhileWanted, Warm!RunsWhileWanted
==============================================================================
