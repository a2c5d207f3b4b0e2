-------------------------- MODULE PhoneEvents_proofs --------------------------
(***************************************************************************)
(* What holds of PhoneEvents for all threads, days, faults, restores and   *)
(* repairs: whoever is told ok is told of bytes that are durable, what is  *)
(* durable stays or was set aside, and a record is shown once, and once    *)
(* more for each time that the file was put back or replaced.              *)
(***************************************************************************)
EXTENDS PhoneEvents, FiniteSetTheorems, TLAPS

Distinct ==
  /\ Repair \notin Handlers /\ Nobody \notin Handlers /\ Repair # Nobody
  /\ Day \in Nat /\ MaxFaults \in Nat /\ MaxRestores \in Nat /\ MaxRepairs \in Nat

PcType == {"idle", "ask", "append", "write", "sync", "dup", "cursor", "mirror", "told"}
HandlerType ==
  [pc : PcType, from : Units, to : Units, size : Units, stale : BOOLEAN,
   answer : {"none", "ok", "behind", "error"}, cursor : Units]
FileType == [size : Units, synced : Units, old : Units]
PhoneType == [cursor : Units, asked : BOOLEAN, waits : Handlers \cup {Nobody}]
RepairType == [pc : {"idle", "begin", "backup", "stage", "replace", "verify"},
               source : Units, was : Units, stale : BOOLEAN]
BoundsType == [faults : 0..MaxFaults, restores : 0..MaxRestores, repairs : 0..MaxRepairs]

\* Types, but for how often a record is shown.
Kinds ==
  /\ made \in Units
  /\ phone \in PhoneType
  /\ file \in FileType /\ file.synced <= file.size
  /\ backup \in Units
  /\ lock \in Handlers \cup {Repair, Nobody}
  /\ handler \in [Handlers -> HandlerType]
  /\ repair \in RepairType
  /\ mirrored \in [Records -> Nat]
  /\ bounds \in BoundsType

\* Who works on the file has the lock.
Writing == {"write", "sync", "dup", "cursor"}
Replacing == {"backup", "stage", "replace", "verify"}
OneWriter ==
  /\ \A h \in Handlers : handler[h].pc \in Writing => lock = h
  /\ repair.pc \in Replacing => lock = Repair

\* What a request of this handler, whose file has the name still, knows of a file.
Knows(r, f) ==
  ~r.stale =>
    /\ r.pc \in {"write", "dup", "cursor"} => r.size = f.size
    /\ r.pc = "write" => r.size <= r.to
    /\ r.pc = "dup" => r.to <= r.size
    /\ r.pc = "sync" => f.size = r.to /\ f.synced <= r.size

Opened == \A h \in Handlers : Knows(handler[h], file)

\* What a repair is to replace has been set aside.
SetAside == repair.pc \in {"stage", "replace"} => file.size <= backup

\* Nothing is answered before the end.
Unanswered ==
  \A h \in Handlers : handler[h].pc # "told" => handler[h].answer = "none"

\* The requests that are still to show a record.
Pending(r) == {h \in Handlers : handler[h].pc = "mirror" /\ r \in NewRecords(h)}

\* How often what was durable has been taken back, and may have to be shown
\* again: a repair that has begun has still to do so.
TakenBack ==
  bounds.restores + bounds.repairs
    - (IF repair.pc \in {"begin", "backup", "stage", "replace"} THEN 1 ELSE 0)

\* A record that is not durable has been shown once for each time that it was
\* taken back, and one that is durable once more.
Shown ==
  \A r \in Records :
    /\ IsFiniteSet(Pending(r))
    /\ mirrored[r] + Cardinality(Pending(r)) <=
         TakenBack + (IF Durable(file) < 2 * r THEN 0 ELSE 1)

Base == Kinds /\ OneWriter /\ Opened /\ SetAside /\ Unanswered
Inv == Base /\ Shown

\* A step that keeps the promises of PhoneEvents.
OkStep ==
  \A h \in Handlers :
       /\ handler[h].pc \notin {"mirror", "told"}
       /\ handler'[h].pc = "mirror" \/ handler'[h].answer = "ok"
       => Durable(file') >= IF handler'[h].pc = "mirror" THEN handler[h].to
                            ELSE handler'[h].cursor
KeptStep ==
  \/ Durable(file') >= Durable(file) \/ backup' >= Durable(file)
  \/ bounds'.restores # bounds.restores

LEMMA Idle ==
  ASSUME Distinct
  PROVE  /\ NoRequest \in HandlerType
         /\ NoRequest.pc = "idle" /\ NoRequest.answer = "none"
  BY DEF Distinct, NoRequest, HandlerType, PcType, Units

\* What a record ends with is of the day.
LEMMA RecordEnds ==
  ASSUME Distinct, NEW r \in Records
  PROVE  r \in Nat /\ 2 * r \in Units
  BY DEF Distinct, Records, Units

\* What no power cut takes is part of the file.
LEMMA DurablePart ==
  ASSUME Distinct, NEW f \in FileType, f.synced <= f.size
  PROVE  /\ Durable(f) \in Units /\ Durable(f) <= f.synced /\ Durable(f) <= f.size
  BY DEF Durable, FileType, Units, Distinct

\* A whole file is durable.
LEMMA WholeFile ==
  ASSUME Distinct, NEW n \in Units
  PROVE  /\ File(n) \in FileType /\ File(n).size = n /\ File(n).synced = n
         /\ File(n).old = 0 /\ Durable(File(n)) = n
  BY DEF File, FileType, Durable, Distinct, Units

\* One request of the dispatcher goes on.
LEMMA Moves ==
  ASSUME Kinds, NEW h \in Handlers, NEW new \in HandlerType,
         handler' = [handler EXCEPT ![h] = new]
  PROVE  /\ handler' \in [Handlers -> HandlerType] /\ handler'[h] = new
         /\ \A g \in Handlers \ {h} : handler'[g] = handler[g]
  BY DEF Kinds

LEMMA GoesOn ==
  ASSUME Kinds, NEW h \in Handlers, NEW pc \in PcType, Goes(h, pc)
  PROVE  /\ [handler[h] EXCEPT !.pc = pc] \in HandlerType
         /\ handler' = [handler EXCEPT ![h] = [handler[h] EXCEPT !.pc = pc]]
<1>1. handler[h] \in HandlerType
  BY DEF Kinds
<1>2. [handler[h] EXCEPT !.pc = pc] \in HandlerType
  BY <1>1 DEF HandlerType
<1>3. QED  BY <1>2 DEF Goes

LEMMA Answering ==
  ASSUME Kinds, NEW h \in Handlers, NEW answer \in {"none", "ok", "behind", "error"},
         NEW cursor \in Units, Answers(h, answer, cursor)
  PROVE  LET new == [handler[h] EXCEPT !.pc = "told", !.answer = answer,
                                       !.cursor = cursor]
         IN new \in HandlerType /\ handler' = [handler EXCEPT ![h] = new]
<1>1. handler[h] \in HandlerType
  BY DEF Kinds
<1>2. [handler[h] EXCEPT !.pc = "told", !.answer = answer, !.cursor = cursor]
        \in HandlerType
  BY <1>1 DEF HandlerType, PcType
<1>3. QED  BY <1>2 DEF Answers

\* A request goes on, and works on the file only where it has the lock.
LEMMA OneMoves ==
  ASSUME Base, Distinct, NEW h \in Handlers, NEW new \in HandlerType,
         handler' = [handler EXCEPT ![h] = new],
         made' \in Units, phone' \in PhoneType, mirrored' \in [Records -> Nat],
         bounds' \in BoundsType, UNCHANGED <<backup, repair>>,
         file' \in FileType, file'.synced <= file'.size,
         lock' = lock \/ (lock \in {h, Nobody} /\ lock' \in {h, Nobody}),
         file' = file \/ lock = h,
         new.pc \in Writing => lock' = h, Knows(new, file'),
         new.pc # "told" => new.answer = "none"
  PROVE  Base'
<1>1. /\ handler' \in [Handlers -> HandlerType] /\ handler'[h] = new
      /\ \A g \in Handlers \ {h} : handler'[g] = handler[g]
  BY Moves DEF Base
<1>2. Kinds'
  BY <1>1 DEF Base, Kinds
<1>3. OneWriter'
  <2>1. \A g \in Handlers : handler'[g].pc \in Writing => lock' = g
    BY <1>1 DEF Base, OneWriter, Distinct
  <2>2. repair'.pc \in Replacing => lock' = Repair
    BY DEF Base, OneWriter, Distinct
  <2>3. QED  BY <2>1, <2>2 DEF OneWriter
<1>4. Opened'
  <2> SUFFICES ASSUME NEW g \in Handlers PROVE Knows(handler'[g], file')
    BY DEF Opened
  <2>1. CASE g = h
    BY <2>1, <1>1
  <2>2. CASE g # h /\ file' = file
    BY <2>2, <1>1 DEF Base, Opened
  <2>3. CASE g # h /\ lock = h
    <3>1. handler'[g].pc \notin Writing
      BY <2>3, <1>1 DEF Base, OneWriter
    <3>2. QED  BY <3>1 DEF Writing, Knows
  <2>4. QED  BY <2>1, <2>2, <2>3
<1>5. SetAside'
  <2>1. repair.pc \in {"stage", "replace"} => lock = Repair
    BY DEF Base, OneWriter, Replacing
  <2>2. repair.pc \in {"stage", "replace"} => file' = file
    BY <2>1 DEF Distinct
  <2>3. QED  BY <2>2 DEF Base, SetAside
<1>6. Unanswered'
  BY <1>1 DEF Base, Unanswered
<1>7. QED  BY <1>2, <1>3, <1>4, <1>5, <1>6 DEF Base

\* Nothing new is to be shown, and what is durable stays, or is taken back.
LEMMA ShownStays ==
  ASSUME Distinct, Kinds, Kinds', Shown, mirrored' = mirrored,
         \A r \in Records : Pending(r)' \subseteq Pending(r),
         \/ Durable(file') >= Durable(file) /\ TakenBack' >= TakenBack
         \/ TakenBack' >= TakenBack + 1
  PROVE  Shown'
<1> SUFFICES ASSUME NEW r \in Records
             PROVE  /\ IsFiniteSet(Pending(r)')
                    /\ mirrored'[r] + Cardinality(Pending(r)') <=
                         TakenBack' + (IF Durable(file') < 2 * r THEN 0 ELSE 1)
  BY DEF Shown
<1>1. /\ IsFiniteSet(Pending(r)) /\ mirrored[r] \in Nat
      /\ mirrored[r] + Cardinality(Pending(r)) <=
           TakenBack + (IF Durable(file) < 2 * r THEN 0 ELSE 1)
  BY DEF Shown, Kinds
<1>2. /\ IsFiniteSet(Pending(r)') /\ Cardinality(Pending(r)') <= Cardinality(Pending(r))
      /\ Cardinality(Pending(r)) \in Nat /\ Cardinality(Pending(r)') \in Nat
  BY <1>1, FS_Subset, FS_CardinalityType
<1>3. TakenBack \in Int /\ TakenBack' \in Int
  BY DEF TakenBack, Kinds, BoundsType, Distinct
<1>4. Durable(file) \in Nat /\ Durable(file') \in Nat /\ r \in Nat
  BY DurablePart, RecordEnds DEF Kinds, Units, Distinct
<1>5. QED  BY <1>1, <1>2, <1>3, <1>4

\* A request that has nothing to show moves, and the file loses nothing.
LEMMA ShownByOthers ==
  ASSUME Distinct, Kinds, Kinds', Shown, NEW h \in Handlers, NEW new,
         handler' = [handler EXCEPT ![h] = new], new.pc # "mirror",
         UNCHANGED <<mirrored, repair>>, Durable(file') >= Durable(file),
         bounds'.restores = bounds.restores, bounds'.repairs = bounds.repairs
  PROVE  Shown'
<1>1. ASSUME NEW r \in Records PROVE Pending(r)' \subseteq Pending(r)
  <2>1. \A g \in Handlers : handler'[g] = IF g = h THEN new ELSE handler[g]
    BY DEF Kinds
  <2>2. QED  BY <2>1 DEF Pending, NewRecords
<1>2. TakenBack' = TakenBack /\ TakenBack \in Int
  BY DEF TakenBack, Kinds, BoundsType, Distinct
<1>3. QED  BY <1>1, <1>2, ShownStays

-----------------------------------------------------------------------------
(* The phone.                                                              *)

Safe == Inv' /\ OkStep /\ KeptStep

\* Where the file stays, it loses nothing.
LEMMA SameFile ==
  ASSUME Distinct, Kinds, file' = file
  PROVE  Durable(file') >= Durable(file) /\ KeptStep
BY DurablePart DEF Kinds, Units, KeptStep

LEMMA PhoneRecordsSafe == ASSUME Inv, Distinct, PhoneRecords PROVE Safe
<1> USE DEF PhoneRecords
<1>1. Base'
  BY DEF Inv, Base, Kinds, OneWriter, Opened, SetAside, Unanswered, Units, Distinct
<1>2. Shown'
  <2>1. \A r \in Records : Pending(r)' = Pending(r)
    BY DEF Pending, NewRecords
  <2>2. TakenBack' = TakenBack /\ TakenBack \in Int
    BY DEF TakenBack, Inv, Base, Kinds, BoundsType, Distinct
  <2>3. QED  BY <1>1, <2>1, <2>2, ShownStays, SameFile DEF Inv, Base
<1>3. OkStep
  BY DEF OkStep, Inv, Base, Unanswered
<1>4. QED  BY <1>1, <1>2, <1>3, SameFile DEF Safe, Inv, Base

\* A fault counts neither as a restore nor as a repair.
LEMMA FaultCounts ==
  ASSUME Kinds, Distinct, Fault
  PROVE  /\ bounds' \in BoundsType
         /\ bounds'.restores = bounds.restores /\ bounds'.repairs = bounds.repairs
<1>1. /\ bounds' = [bounds EXCEPT !.faults = bounds.faults + 1]
      /\ bounds.faults < MaxFaults
  BY DEF Fault, Counts
<1>2. bounds \in BoundsType
  BY DEF Kinds
<1>3. QED  BY <1>1, <1>2 DEF BoundsType, Distinct

LEMMA PhoneGivesUpSafe == ASSUME Inv, Distinct, PhoneGivesUp PROVE Safe
<1> USE DEF PhoneGivesUp
<1>1. bounds' \in BoundsType /\ bounds'.restores = bounds.restores
      /\ bounds'.repairs = bounds.repairs
  BY FaultCounts DEF Inv, Base
<1>2. Base'
  BY <1>1 DEF Inv, Base, Kinds, PhoneType, OneWriter, Opened, SetAside, Unanswered
<1>3. Shown'
  <2>1. \A r \in Records : Pending(r)' = Pending(r)
    BY DEF Pending, NewRecords
  <2>2. TakenBack' = TakenBack /\ TakenBack \in Int
    BY <1>1 DEF TakenBack, Inv, Base, Kinds, BoundsType, Distinct
  <2>3. QED  BY <1>2, <2>1, <2>2, ShownStays, SameFile DEF Inv, Base
<1>4. OkStep
  BY DEF OkStep, Inv, Base, Unanswered
<1>5. QED  BY <1>2, <1>3, <1>4, SameFile DEF Safe, Inv, Base

\* A request that has nothing to show goes on, and leaves the file alone.
LEMMA MovesSafe ==
  ASSUME Inv, Distinct, NEW h \in Handlers, NEW new \in HandlerType,
         handler' = [handler EXCEPT ![h] = new],
         made' = made, phone' \in PhoneType,
         UNCHANGED <<mirrored, backup, repair, file>>,
         bounds' \in BoundsType, bounds'.restores = bounds.restores,
         bounds'.repairs = bounds.repairs,
         lock' = lock \/ (lock \in {h, Nobody} /\ lock' \in {h, Nobody}),
         new.pc \in Writing => lock' = h, Knows(new, file),
         new.pc # "told" => new.answer = "none", new.pc # "mirror",
         new.answer = "ok" => handler[h].pc \in {"mirror", "told"}
  PROVE  Safe
<1>1. Base'
  <2>1. /\ made' \in Units /\ mirrored' \in [Records -> Nat]
        /\ file' \in FileType /\ file'.synced <= file'.size /\ Knows(new, file')
    BY DEF Inv, Base, Kinds, Knows
  <2>2. QED  BY <2>1, OneMoves DEF Inv
<1>2. Shown'
  BY <1>1, ShownByOthers, SameFile DEF Inv, Base
<1>3. OkStep
  BY Moves DEF OkStep, Inv, Base, Unanswered
<1>4. QED  BY <1>1, <1>2, <1>3, SameFile DEF Safe, Inv, Base

LEMMA PhoneAsksSafe ==
  ASSUME Inv, Distinct, NEW h \in Handlers, PhoneAsks(h) PROVE Safe
<1> DEFINE new == [NoRequest EXCEPT !.pc = "ask"]
<1>1. new \in HandlerType /\ new.pc = "ask" /\ new.answer = "none"
  BY Idle DEF HandlerType, PcType
<1>2. phone' \in PhoneType
  BY DEF PhoneAsks, Inv, Base, Kinds, PhoneType
<1>3. handler' = [handler EXCEPT ![h] = new]
  BY DEF PhoneAsks
<1> HIDE DEF new
<1>4. new.pc \notin Writing /\ Knows(new, file)
  BY <1>1 DEF Writing, Knows
<1>5. QED
  BY <1>1, <1>2, <1>3, <1>4, MovesSafe DEF PhoneAsks, Inv, Base, Kinds

LEMMA PhoneSendsSafe ==
  ASSUME Inv, Distinct, NEW h \in Handlers, PhoneSends(h) PROVE Safe
<1>1. PICK to \in (phone.cursor + 1)..made :
        handler' = [handler EXCEPT ![h] = [NoRequest EXCEPT !.pc = "append",
                                             !.from = phone.cursor, !.to = to]]
  BY DEF PhoneSends
<1> DEFINE new == [NoRequest EXCEPT !.pc = "append", !.from = phone.cursor, !.to = to]
<1>2. to \in Units /\ phone.cursor \in Units
  BY DEF Inv, Base, Kinds, PhoneType, Units, Distinct
<1>3. new \in HandlerType /\ new.pc = "append" /\ new.answer = "none"
  BY <1>2, Idle DEF HandlerType, PcType
<1>4. phone' \in PhoneType
  BY DEF PhoneSends, Inv, Base, Kinds, PhoneType
<1>5. handler' = [handler EXCEPT ![h] = new]
  BY <1>1
<1> HIDE DEF new
<1>6. new.pc \notin Writing /\ Knows(new, file)
  BY <1>3 DEF Writing, Knows
<1>7. QED
  BY <1>3, <1>4, <1>5, <1>6, MovesSafe DEF PhoneSends, Inv, Base, Kinds

LEMMA PhoneHearsSafe ==
  ASSUME Inv, Distinct, NEW h \in Handlers, PhoneHears(h) PROVE Safe
<1>1. phone' \in PhoneType
  <2>1. handler[h].cursor \in Units /\ phone \in PhoneType
    BY DEF Inv, Base, Kinds, HandlerType
  <2>2. QED  BY <2>1 DEF PhoneHears, PhoneType
<1>2. NoRequest.pc \notin Writing /\ Knows(NoRequest, file)
  BY Idle DEF Writing, Knows
<1>3. QED
  BY <1>1, <1>2, Idle, MovesSafe DEF PhoneHears, Inv, Base, Kinds

-----------------------------------------------------------------------------
(* Requests of the dispatcher.                                             *)

LEMMA LocksForCursorSafe ==
  ASSUME Inv, Distinct, NEW h \in Handlers, LocksForCursor(h) PROVE Safe
<1> DEFINE new == [handler[h] EXCEPT !.pc = "cursor", !.size = file.size]
<1>1. handler[h] \in HandlerType /\ file.size \in Units /\ handler[h].answer = "none"
  BY DEF LocksForCursor, Inv, Base, Kinds, FileType, Unanswered
<1>2. /\ new \in HandlerType /\ new.pc = "cursor" /\ new.size = file.size
      /\ new.answer = "none"
  BY <1>1 DEF HandlerType, PcType
<1>3. handler' = [handler EXCEPT ![h] = new]
  BY DEF LocksForCursor
<1> HIDE DEF new
<1>4. Knows(new, file)
  BY <1>2 DEF Knows
<1>5. QED
  BY <1>2, <1>3, <1>4, MovesSafe DEF LocksForCursor, Inv, Base, Kinds

LEMMA LocksForAppendSafe ==
  ASSUME Inv, Distinct, NEW h \in Handlers, LocksForAppend(h) PROVE Safe
<1> USE DEF LocksForAppend
<1>1. /\ handler[h] \in HandlerType /\ file.size \in Units /\ handler[h].answer = "none"
      /\ handler[h].pc = "append" /\ lock = Nobody
  BY DEF Inv, Base, Kinds, FileType, Unanswered
<1>2. CASE Behind(h)
  <2> DEFINE new == [handler[h] EXCEPT !.pc = "told", !.answer = "behind",
                                       !.cursor = file.size]
  <2>1. new \in HandlerType /\ handler' = [handler EXCEPT ![h] = new]
    BY ZenonT(60), <1>1, <1>2, Answering DEF Behind, Inv, Base
  <2>2. new.pc = "told" /\ new.answer = "behind"
    BY <1>1 DEF HandlerType
  <2> HIDE DEF new
  <2>3. Knows(new, file) /\ new.pc \notin Writing
    BY <2>2 DEF Knows, Writing
  <2>4. QED
    BY <1>2, <2>1, <2>2, <2>3, MovesSafe DEF Behind, Inv, Base, Kinds
<1>3. CASE ~Behind(h)
  <2> DEFINE pc == IF handler[h].to <= file.size THEN "dup" ELSE "write"
             new == [handler[h] EXCEPT !.pc = pc, !.size = file.size]
  <2>1. lock' = h /\ handler' = [handler EXCEPT ![h] = new]
    BY <1>3
  <2>2. /\ new \in HandlerType /\ new.pc \in {"dup", "write"} /\ new.answer = "none"
        /\ Knows(new, file)
    <3>1. pc \in PcType /\ pc \in {"dup", "write"}
      BY DEF PcType
    <3>2. /\ new \in HandlerType /\ new.pc = pc /\ new.size = file.size
          /\ new.to = handler[h].to /\ new.answer = "none"
      BY <1>1, <3>1 DEF HandlerType
    <3>3. handler[h].to \in Int /\ file.size \in Int
      BY <1>1 DEF HandlerType, Units, Distinct
    <3> HIDE DEF new
    <3>4. Knows(new, file)
      BY <3>1, <3>2, <3>3 DEF Knows
    <3>5. QED  BY <3>1, <3>2, <3>4
  <2> HIDE DEF new
  <2>3. QED
    BY <1>1, <2>1, <2>2, MovesSafe DEF Inv, Base, Kinds
<1>4. QED  BY <1>2, <1>3

\* Bytes are added to the file: what is durable stays.
LEMMA WritesSafe ==
  ASSUME Inv, Distinct, NEW h \in Handlers, Writes(h) PROVE Safe
<1> USE DEF Writes
<1>1. /\ handler[h] \in HandlerType /\ handler[h].pc = "write" /\ lock = h
      /\ handler[h].answer = "none" /\ file \in FileType /\ file.synced <= file.size
      /\ handler[h].to \in Int /\ handler[h].to \in Units
  BY DEF Inv, Base, Kinds, OneWriter, Writing, Unanswered, HandlerType, Units, Distinct
<1>2. ASSUME NEW n \in handler[h].size..handler[h].to, ~handler[h].stale
      PROVE  /\ [file EXCEPT !.size = n] \in FileType
             /\ [file EXCEPT !.size = n].size = n
             /\ [file EXCEPT !.size = n].synced = file.synced
             /\ file.synced <= n /\ n <= handler[h].to
             /\ file.synced <= handler[h].size
             /\ Durable([file EXCEPT !.size = n]) = Durable(file)
  <2>1. handler[h].size = file.size
    BY <1>1, <1>2 DEF Inv, Base, Opened, Knows
  <2>2. n \in Units /\ file.synced <= n
    BY <1>1, <2>1 DEF FileType, Units, Distinct
  <2>3. QED  BY <1>1, <2>1, <2>2 DEF FileType, Durable
<1>3. handler[h].stale \/ handler[h].to \in handler[h].size..handler[h].to
  BY <1>1 DEF Inv, Base, Opened, Knows, HandlerType, Units, Distinct
<1>4. CASE /\ file' = IF handler[h].stale THEN file
                       ELSE [file EXCEPT !.size = handler[h].to]
           /\ Goes(h, "sync") /\ UNCHANGED <<lock, bounds>>
  <2> DEFINE new == [handler[h] EXCEPT !.pc = "sync"]
  <2>2. handler' = [handler EXCEPT ![h] = new] /\ new \in HandlerType
    BY <1>4, GoesOn DEF PcType, Inv, Base
  <2>3. /\ new.pc = "sync" /\ new.answer = "none" /\ new.stale = handler[h].stale
        /\ new.to = handler[h].to /\ new.size = handler[h].size
    BY <1>1 DEF HandlerType
  <2> HIDE DEF new
  <2>4. /\ file' \in FileType /\ file'.synced <= file'.size
        /\ Durable(file') = Durable(file)
        /\ ~handler[h].stale => file'.size = handler[h].to
                                /\ file'.synced <= handler[h].size
    BY <1>1, <1>2, <1>3, <1>4
  <2>5. Knows(new, file')
    BY <2>3, <2>4 DEF Knows
  <2>6. Base'
    <3>1. /\ made' \in Units /\ mirrored' \in [Records -> Nat] /\ phone' \in PhoneType
          /\ bounds' \in BoundsType
      BY <1>4 DEF Inv, Base, Kinds
    <3>2. QED
      BY <1>1, <1>4, <2>2, <2>3, <2>4, <2>5, <3>1, OneMoves DEF Inv
  <2>7. Durable(file') >= Durable(file)
    BY <2>4, <1>1, DurablePart DEF Units, Distinct
  <2>8. Shown'
    BY <1>4, <2>2, <2>3, <2>6, <2>7, ShownByOthers DEF Inv, Base
  <2>9. OkStep /\ KeptStep
    BY <2>2, <2>3, <2>7, Moves DEF OkStep, KeptStep, Inv, Base, Unanswered
  <2>10. QED  BY <2>6, <2>8, <2>9 DEF Safe, Inv
<1>5. CASE /\ Fault
           /\ \E n \in handler[h].size..handler[h].to :
                file' = IF handler[h].stale THEN file ELSE [file EXCEPT !.size = n]
           /\ Answers(h, "error", 0)
           /\ lock' = Nobody
  <2>1. PICK n \in handler[h].size..handler[h].to :
          file' = IF handler[h].stale THEN file ELSE [file EXCEPT !.size = n]
    BY <1>5
  <2> DEFINE new == [handler[h] EXCEPT !.pc = "told", !.answer = "error", !.cursor = 0]
  <2>2. handler' = [handler EXCEPT ![h] = new] /\ new \in HandlerType
    <3>1. 0 \in Units
      BY DEF Units, Distinct
    <3>2. QED  BY <1>5, <3>1, Answering DEF Inv, Base
  <2>3. new.pc = "told" /\ new.answer = "error"
    BY <1>1 DEF HandlerType
  <2> HIDE DEF new
  <2>4. /\ file' \in FileType /\ file'.synced <= file'.size
        /\ Durable(file') = Durable(file)
    BY <1>1, <1>2, <2>1
  <2>5. Knows(new, file') /\ new.pc \notin Writing
    BY <2>3 DEF Knows, Writing
  <2>6. /\ bounds' \in BoundsType /\ bounds'.restores = bounds.restores
        /\ bounds'.repairs = bounds.repairs
    BY <1>5, FaultCounts DEF Inv, Base
  <2>7. Base'
    <3>1. made' \in Units /\ mirrored' \in [Records -> Nat] /\ phone' \in PhoneType
      BY DEF Inv, Base, Kinds
    <3>2. QED
      BY <1>1, <1>5, <2>2, <2>3, <2>4, <2>5, <2>6, <3>1, OneMoves DEF Inv
  <2>8. Durable(file') >= Durable(file)
    BY <2>4, <1>1, DurablePart DEF Units, Distinct
  <2>9. Shown'
    BY <2>2, <2>3, <2>6, <2>7, <2>8, ShownByOthers DEF Inv, Base
  <2>10. OkStep /\ KeptStep
    BY <2>2, <2>3, <2>8, Moves DEF OkStep, KeptStep, Inv, Base, Unanswered
  <2>11. QED  BY <2>7, <2>9, <2>10 DEF Safe, Inv
<1>6. QED  BY <1>4, <1>5

\* A record that a request has to show was not durable before it was synced.
LEMMA ShownAfterSync ==
  ASSUME Distinct, Base, Base', Shown, NEW h \in Handlers,
         handler[h].pc = "sync", ~handler[h].stale,
         handler' = [handler EXCEPT ![h] = [handler[h] EXCEPT !.pc = "mirror"]],
         file' = Synced, UNCHANGED <<mirrored, repair, bounds>>
  PROVE  Shown'
<1> SUFFICES ASSUME NEW r \in Records
             PROVE  /\ IsFiniteSet(Pending(r)')
                    /\ mirrored'[r] + Cardinality(Pending(r)') <=
                         TakenBack' + (IF Durable(file') < 2 * r THEN 0 ELSE 1)
  BY DEF Shown
<1>1. /\ IsFiniteSet(Pending(r)) /\ mirrored[r] \in Nat
      /\ mirrored[r] + Cardinality(Pending(r)) <=
           TakenBack + (IF Durable(file) < 2 * r THEN 0 ELSE 1)
  BY DEF Shown, Base, Kinds
<1>2. TakenBack' = TakenBack /\ TakenBack \in Int
  BY DEF TakenBack, Base, Kinds, BoundsType, Distinct
<1>3. /\ file \in FileType /\ file.synced <= file.size /\ file.size \in Units
      /\ Durable(file) \in Units /\ Durable(file) <= file.synced
      /\ Durable(file') = file.size
      /\ r \in Nat /\ handler[h].size \in Nat /\ handler[h].to \in Nat
      /\ file.size \in Nat /\ Durable(file) \in Nat /\ file.synced \in Nat
  <2>1. /\ file \in FileType /\ file.synced <= file.size /\ handler[h] \in HandlerType
    BY DEF Base, Kinds
  <2>2. file.size \in Units /\ file.synced \in Units
    BY <2>1 DEF FileType
  <2>3. Durable(file') = file.size
    BY <2>2, WholeFile DEF Synced
  <2>4. handler[h].size \in Nat /\ handler[h].to \in Nat
    BY <2>1 DEF HandlerType, Units, Distinct
  <2>5. QED  BY <2>1, <2>2, <2>3, <2>4, DurablePart, RecordEnds DEF Units, Distinct
<1>4. /\ handler'[h].pc = "mirror" /\ handler'[h].size = handler[h].size
      /\ handler'[h].to = handler[h].to
      /\ \A g \in Handlers \ {h} : handler'[g] = handler[g]
  BY DEF Base, Kinds, HandlerType
<1>5. file.size = handler[h].to /\ file.synced <= handler[h].size
  BY DEF Base, Opened, Knows
<1>6. Cardinality(Pending(r)) \in Nat
  BY <1>1, FS_CardinalityType
<1>7. h \notin Pending(r)
  BY DEF Pending
<1>8. CASE r \in NewRecords(h)
  <2>1. Durable(file) < 2 * r /\ 2 * r <= file.size
    <3>1. handler[h].size + 1 <= 2 * r /\ 2 * r <= handler[h].to
      BY <1>8, <1>3 DEF NewRecords
    <3>2. QED  BY <3>1, <1>3, <1>5
  <2>2. Pending(r)' = Pending(r) \cup {h}
    BY <1>4, <1>8 DEF Pending, NewRecords
  <2>3. /\ IsFiniteSet(Pending(r)')
        /\ Cardinality(Pending(r)') = Cardinality(Pending(r)) + 1
    BY <2>2, <1>1, <1>7, FS_AddElement
  <2>4. QED  BY <1>1, <1>2, <1>3, <1>6, <2>1, <2>3
<1>9. CASE r \notin NewRecords(h)
  <2>1. Pending(r)' = Pending(r)
    BY <1>4, <1>7, <1>9 DEF Pending, NewRecords
  <2>2. Durable(file') >= Durable(file)
    BY <1>3
  <2>3. QED  BY <1>1, <1>2, <1>3, <1>6, <2>1, <2>2
<1>10. QED  BY <1>8, <1>9

\* A file that is synced has lost nothing.
LEMMA SyncingKeeps ==
  ASSUME Distinct, Kinds, file' = Synced
  PROVE  /\ file' \in FileType /\ file'.size = file.size /\ file'.synced = file.size
         /\ Durable(file') = file.size /\ Durable(file') >= Durable(file)
<1>1. file \in FileType /\ file.synced <= file.size /\ file.size \in Units
  BY DEF Kinds, FileType
<1>2. QED
  BY <1>1, WholeFile, DurablePart DEF Synced, Units, Distinct

\* What is told of is in the file that has the name, and synced.
LEMMA SyncsSafe ==
  ASSUME Inv, Distinct, NEW h \in Handlers, Syncs(h) PROVE Safe
<1> USE DEF Syncs
<1>1. /\ handler[h] \in HandlerType /\ handler[h].pc \in {"sync", "dup", "cursor"}
      /\ lock = h /\ handler[h].answer = "none" /\ lock' = Nobody
      /\ made' \in Units /\ mirrored' \in [Records -> Nat] /\ phone' \in PhoneType
      /\ handler[h].to \in Units /\ handler[h].size \in Units /\ file.size \in Units
  BY DEF Inv, Base, Kinds, OneWriter, Writing, Unanswered, HandlerType, FileType
<1>2. CASE Answers(h, "error", 0) /\ UNCHANGED file /\ (handler[h].stale \/ Fault)
           /\ (handler[h].stale => UNCHANGED bounds)
  <2> DEFINE new == [handler[h] EXCEPT !.pc = "told", !.answer = "error", !.cursor = 0]
  <2>1. handler' = [handler EXCEPT ![h] = new] /\ new \in HandlerType
    <3>1. 0 \in Units
      BY DEF Units, Distinct
    <3>2. QED  BY <1>2, <3>1, Answering DEF Inv, Base
  <2>2. new.pc = "told" /\ new.answer = "error"
    BY <1>1 DEF HandlerType
  <2> HIDE DEF new
  <2>3. Knows(new, file) /\ new.pc \notin Writing
    BY <2>2 DEF Knows, Writing
  <2>4. /\ bounds' \in BoundsType /\ bounds'.restores = bounds.restores
        /\ bounds'.repairs = bounds.repairs
    BY <1>2, FaultCounts DEF Inv, Base, Kinds
  <2>5. QED
    BY <1>1, <1>2, <2>1, <2>2, <2>3, <2>4, MovesSafe
<1>3. CASE /\ ~handler[h].stale /\ file' = Synced /\ handler[h].pc = "sync"
           /\ Goes(h, "mirror") /\ UNCHANGED bounds
  <2> DEFINE new == [handler[h] EXCEPT !.pc = "mirror"]
  <2>1. handler' = [handler EXCEPT ![h] = new] /\ new \in HandlerType
    BY <1>3, GoesOn DEF PcType, Inv, Base
  <2>2. new.pc = "mirror" /\ new.answer = "none"
    BY <1>1 DEF HandlerType
  <2>3. Base'
    <3>1. Knows(new, file') /\ new.pc \notin Writing
      BY <2>2 DEF Knows, Writing
    <3>2. /\ file' \in FileType /\ file'.synced <= file'.size
          /\ bounds' \in BoundsType
      BY <1>3, SyncingKeeps DEF Inv, Base, Kinds, FileType, Units, Distinct
    <3> HIDE DEF new
    <3>3. QED  BY <1>1, <2>1, <2>2, <3>1, <3>2, OneMoves DEF Inv
  <2>4. Shown'
    BY <1>3, <2>1, <2>3, ShownAfterSync DEF Inv
  <2> HIDE DEF new
  <2>5. /\ Durable(file') >= Durable(file) /\ Durable(file') = file.size
        /\ file.size = handler[h].to
    BY <1>3, SyncingKeeps DEF Inv, Base, Opened, Knows
  <2>6. OkStep
    <3>1. handler'[h].pc = "mirror" /\ \A g \in Handlers \ {h} : handler'[g] = handler[g]
      BY <2>1, <2>2, Moves DEF Inv, Base
    <3>2. Durable(file') >= handler[h].to
      BY <1>1, <2>5 DEF Units, Distinct
    <3>3. QED  BY <3>1, <3>2 DEF OkStep, Inv, Base, Unanswered
  <2>7. QED  BY <2>3, <2>4, <2>5, <2>6 DEF Safe, Inv, KeptStep
<1>4. CASE /\ ~handler[h].stale /\ file' = Synced /\ handler[h].pc # "sync"
           /\ Answers(h, "ok", Told(h)) /\ UNCHANGED bounds
  <2>1. Told(h) = handler[h].size /\ handler[h].size = file.size
    BY <1>1, <1>4 DEF Told, Inv, Base, Opened, Knows
  <2> DEFINE new == [handler[h] EXCEPT !.pc = "told", !.answer = "ok",
                                       !.cursor = file.size]
  <2>2. handler' = [handler EXCEPT ![h] = new] /\ new \in HandlerType
    <3>1. Answers(h, "ok", file.size)
      BY <1>4, <2>1
    <3>2. QED  BY ZenonT(60), <1>1, <3>1, Answering DEF Inv, Base
  <2>3. new.pc = "told" /\ new.answer = "ok" /\ new.cursor = file.size
    BY <1>1 DEF HandlerType
  <2> HIDE DEF new
  <2>4. /\ file' \in FileType /\ file'.synced <= file'.size
        /\ Durable(file') >= Durable(file) /\ Durable(file') = file.size
        /\ bounds' \in BoundsType
    BY <1>1, <1>4, SyncingKeeps DEF Inv, Base, Kinds, Units, Distinct
  <2>5. Base'
    <3>1. Knows(new, file') /\ new.pc \notin Writing
      BY <2>3 DEF Knows, Writing
    <3>2. QED  BY <1>1, <2>2, <2>3, <2>4, <3>1, OneMoves DEF Inv
  <2>6. Shown'
    BY <1>4, <2>2, <2>3, <2>4, <2>5, ShownByOthers DEF Inv, Base
  <2>7. OkStep
    <3>1. handler'[h] = new /\ \A g \in Handlers \ {h} : handler'[g] = handler[g]
      BY <2>2, Moves DEF Inv, Base
    <3>2. Durable(file') >= file.size
      BY <1>1, <2>4 DEF Units, Distinct
    <3>3. QED  BY <2>3, <3>1, <3>2 DEF OkStep, Inv, Base, Unanswered
  <2>8. QED  BY <2>4, <2>5, <2>6, <2>7 DEF Safe, Inv, KeptStep
<1>5. QED  BY <1>2, <1>3, <1>4

\* The records that a request has added are shown, or not.
LEMMA MirrorsSafe ==
  ASSUME Inv, Distinct, NEW h \in Handlers, Mirrors(h) PROVE Safe
<1> DEFINE new == [handler[h] EXCEPT !.pc = "told", !.answer = "ok",
                                     !.cursor = handler[h].to]
<1>1. /\ handler[h] \in HandlerType /\ handler[h].pc = "mirror"
      /\ handler[h].to \in Units
      /\ mirrored \in [Records -> Nat] /\ mirrored' \in [Records -> Nat]
      /\ \A r \in Records :
           mirrored'[r] = mirrored[r]
             \/ (r \in NewRecords(h) /\ mirrored'[r] = mirrored[r] + 1)
  <2>1. /\ handler[h] \in HandlerType /\ handler[h].pc = "mirror"
        /\ mirrored \in [Records -> Nat]
    BY DEF Mirrors, Inv, Base, Kinds
  <2>2. QED  BY <2>1 DEF HandlerType, Mirrors
<1>2. handler' = [handler EXCEPT ![h] = new] /\ new \in HandlerType
  <2>1. Answers(h, "ok", handler[h].to)
    BY DEF Mirrors
  <2>2. Kinds /\ handler[h].to \in Units
    BY <1>1 DEF Inv, Base
  <2>3. QED  BY ZenonT(60), <2>1, <2>2, Answering
<1>3. new.pc = "told" /\ new.answer = "ok"
  BY <1>1 DEF HandlerType
<1> HIDE DEF new
<1>4. Base'
  <2>1. Knows(new, file') /\ new.pc \notin Writing
    BY <1>3 DEF Knows, Writing
  <2>2. /\ made' \in Units /\ phone' \in PhoneType /\ bounds' \in BoundsType
        /\ file' \in FileType /\ file'.synced <= file'.size
    BY DEF Mirrors, Inv, Base, Kinds
  <2>3. QED  BY <1>1, <1>2, <1>3, <2>1, <2>2, OneMoves DEF Mirrors, Inv
<1>5. Shown'
  <2> SUFFICES ASSUME NEW r \in Records
               PROVE  /\ IsFiniteSet(Pending(r)')
                      /\ mirrored'[r] + Cardinality(Pending(r)') <=
                           TakenBack' + (IF Durable(file') < 2 * r THEN 0 ELSE 1)
    BY DEF Shown
  <2>1. /\ IsFiniteSet(Pending(r)) /\ mirrored[r] \in Nat /\ mirrored'[r] \in Nat
        /\ mirrored[r] + Cardinality(Pending(r)) <=
             TakenBack + (IF Durable(file) < 2 * r THEN 0 ELSE 1)
    BY <1>1 DEF Inv, Shown
  <2>2. TakenBack' = TakenBack /\ TakenBack \in Int /\ file' = file
    BY DEF Mirrors, TakenBack, Inv, Base, Kinds, BoundsType, Distinct
  <2>3. Pending(r)' = Pending(r) \ {h}
    <3>1. \A g \in Handlers : handler'[g] = IF g = h THEN new ELSE handler[g]
      BY <1>2 DEF Inv, Base, Kinds
    <3>2. QED  BY <1>3, <3>1 DEF Pending, NewRecords
  <2>4. CASE r \in NewRecords(h)
    <3>1. h \in Pending(r)
      BY <1>1, <2>4 DEF Pending
    <3>2. /\ IsFiniteSet(Pending(r)')
          /\ Cardinality(Pending(r)') = Cardinality(Pending(r)) - 1
          /\ Cardinality(Pending(r)) \in Nat
      BY <2>1, <2>3, <3>1, FS_RemoveElement, FS_CardinalityType
    <3>3. QED  BY <1>1, <2>1, <2>2, <3>2
  <2>5. CASE r \notin NewRecords(h)
    <3>1. Pending(r)' = Pending(r)
      BY <2>3, <2>5 DEF Pending
    <3>2. QED  BY <1>1, <2>1, <2>2, <2>5, <3>1
  <2>6. QED  BY <2>4, <2>5
<1>6. OkStep
  BY <1>1, <1>2, Moves DEF OkStep, Inv, Base, Unanswered
<1>7. QED  BY <1>4, <1>5, <1>6, SameFile DEF Mirrors, Safe, Inv, Base

-----------------------------------------------------------------------------
(* The repair verb.                                                        *)

LEMMA NoRepairType ==
  ASSUME Distinct
  PROVE  NoRepair \in RepairType /\ NoRepair.pc = "idle"
  BY DEF Distinct, NoRepair, RepairType, Units

\* A step of the repair, with the lock or while nobody has it.
LEMMA RepairMoves ==
  ASSUME Inv, Distinct, UNCHANGED <<made, phone, handler, mirrored>>,
         repair' \in RepairType, bounds' \in BoundsType, backup' \in Units,
         file' \in FileType, file'.synced <= file'.size,
         lock' = lock \/ (lock \in {Repair, Nobody} /\ lock' \in {Repair, Nobody}),
         file' = file \/ lock \in {Repair, Nobody},
         repair'.pc \in Replacing => lock' = Repair,
         repair'.pc \in {"stage", "replace"} => file'.size <= backup',
         \/ Durable(file') >= Durable(file) /\ TakenBack' >= TakenBack
         \/ TakenBack' >= TakenBack + 1,
         KeptStep
  PROVE  Safe
<1>1. Kinds'
  BY DEF Inv, Base, Kinds, Distinct
<1>2. OneWriter' /\ SetAside' /\ Unanswered'
  BY DEF Inv, Base, OneWriter, SetAside, Unanswered, Distinct
<1>3. Opened'
  <2>1. CASE file' = file
    BY <2>1 DEF Inv, Base, Opened, Knows
  <2>2. CASE lock \in {Repair, Nobody}
    <3>1. \A h \in Handlers : handler[h].pc \notin Writing
      BY <2>2 DEF Inv, Base, OneWriter, Distinct
    <3>2. QED  BY <3>1 DEF Opened, Knows, Writing
  <2>3. QED  BY <2>1, <2>2
<1>4. Shown'
  <2>1. \A r \in Records : Pending(r)' = Pending(r)
    BY DEF Pending, NewRecords
  <2>2. QED  BY <1>1, <2>1, ShownStays DEF Inv, Base
<1>5. OkStep
  BY DEF OkStep, Inv, Base, Unanswered
<1>6. QED  BY <1>1, <1>2, <1>3, <1>4, <1>5 DEF Safe, Inv, Base

LEMMA RepairBeginsSafe == ASSUME Inv, Distinct, RepairBegins PROVE Safe
<1>1. PICK r \in Records :
        repair' = [pc |-> "begin", source |-> 2 * r, was |-> file.size, stale |-> FALSE]
  BY DEF RepairBegins
<1>2. /\ bounds \in BoundsType /\ bounds.repairs < MaxRepairs /\ repair.pc = "idle"
      /\ bounds' = [bounds EXCEPT !.repairs = bounds.repairs + 1]
      /\ file \in FileType /\ file.size \in Units
  BY DEF RepairBegins, Counts, Inv, Base, Kinds, FileType
<1>3. /\ bounds' \in BoundsType /\ bounds'.restores = bounds.restores
      /\ bounds'.repairs = bounds.repairs + 1
      /\ bounds.repairs \in Int /\ bounds.restores \in Int
  BY <1>2 DEF BoundsType, Distinct
<1>4. repair' \in RepairType /\ repair'.pc = "begin"
  BY <1>1, <1>2, RecordEnds DEF RepairType
<1>5. TakenBack' = TakenBack /\ TakenBack \in Int
  BY <1>2, <1>3, <1>4 DEF TakenBack
<1>6. Durable(file') >= Durable(file) /\ KeptStep
  BY SameFile DEF RepairBegins, Inv, Base
<1>7. /\ UNCHANGED <<made, phone, handler, mirrored>>
      /\ backup' \in Units /\ file' = file /\ file' \in FileType
      /\ file'.synced <= file'.size /\ lock' = lock
  BY DEF RepairBegins, Inv, Base, Kinds
<1>8. QED
  BY <1>3, <1>4, <1>5, <1>6, <1>7, RepairMoves DEF Replacing

LEMMA RepairCredit ==
  ASSUME Inv, Distinct, bounds' = bounds, repair' \in RepairType
  PROVE  /\ TakenBack \in Int /\ TakenBack' \in Int
         /\ repair'.pc \in {"begin", "backup", "stage", "replace"}
              /\ repair.pc \in {"begin", "backup", "stage", "replace"}
              => TakenBack' = TakenBack
         /\ repair'.pc \in {"idle", "verify"} => TakenBack' >= TakenBack
         /\ repair'.pc \in {"idle", "verify"}
              /\ repair.pc \in {"begin", "backup", "stage", "replace"}
              => TakenBack' = TakenBack + 1
<1>1. bounds.restores \in Int /\ bounds.repairs \in Int
  BY DEF Inv, Base, Kinds, BoundsType, Distinct
<1>2. QED  BY <1>1 DEF TakenBack

LEMMA RepairLocksSafe == ASSUME Inv, Distinct, RepairLocks PROVE Safe
<1>1. /\ UNCHANGED <<made, phone, handler, mirrored, backup, bounds>>
      /\ backup' \in Units /\ bounds' \in BoundsType /\ lock = Nobody
      /\ repair.pc = "begin" /\ repair \in RepairType
      /\ file \in FileType /\ file.synced <= file.size
  BY DEF RepairLocks, Inv, Base, Kinds
<1>2. CASE /\ lock' = Repair /\ repair' = [repair EXCEPT !.pc = "backup"]
           /\ UNCHANGED file
  <2>1. repair' \in RepairType /\ repair'.pc = "backup"
    BY <1>1, <1>2 DEF RepairType
  <2>2. TakenBack' >= TakenBack /\ Durable(file') >= Durable(file) /\ KeptStep
    BY <1>1, <1>2, <2>1, RepairCredit, SameFile DEF Inv, Base
  <2>3. QED
    BY <1>1, <1>2, <2>1, <2>2, RepairMoves
<1>3. CASE RepairStops /\ file' = Synced
  <2>1. repair' \in RepairType /\ repair'.pc = "idle" /\ lock' = Nobody
    BY <1>3, NoRepairType DEF RepairStops
  <2>2. TakenBack' >= TakenBack
    BY <1>1, <2>1, RepairCredit
  <2>3. /\ file' \in FileType /\ file'.synced <= file'.size
        /\ Durable(file') >= Durable(file) /\ KeptStep
    BY <1>1, <1>3, SyncingKeeps
       DEF Inv, Base, KeptStep, FileType, Units, Distinct
  <2>4. QED
    BY <1>1, <2>1, <2>2, <2>3, RepairMoves DEF Replacing
<1>4. CASE RepairStops /\ UNCHANGED file
  <2>1. repair' \in RepairType /\ repair'.pc = "idle" /\ lock' = Nobody
    BY <1>4, NoRepairType DEF RepairStops
  <2>2. TakenBack' >= TakenBack /\ Durable(file') >= Durable(file) /\ KeptStep
    BY <1>1, <1>4, <2>1, RepairCredit, SameFile DEF Inv, Base
  <2>3. QED
    BY <1>1, <1>4, <2>1, <2>2, RepairMoves DEF Replacing
<1>5. QED  BY <1>2, <1>3, <1>4 DEF RepairLocks

LEMMA RepairSetsAsideSafe == ASSUME Inv, Distinct, RepairSetsAside PROVE Safe
<1>1. /\ UNCHANGED <<made, phone, handler, mirrored, bounds>>
      /\ bounds' \in BoundsType /\ lock = Repair
      /\ repair.pc = "backup" /\ repair \in RepairType
      /\ file \in FileType /\ file.synced <= file.size
      /\ file.size \in Units /\ backup \in Units
  BY DEF RepairSetsAside, Inv, Base, Kinds, OneWriter, Replacing, FileType
<1>2. CASE /\ file' = Synced
           /\ backup' = IF backup > file.size THEN backup ELSE file.size
           /\ repair' = [repair EXCEPT !.pc = "stage"]
           /\ UNCHANGED lock
  <2>1. repair' \in RepairType /\ repair'.pc = "stage"
    BY <1>1, <1>2 DEF RepairType
  <2>2. /\ file' \in FileType /\ file'.synced <= file'.size /\ file'.size = file.size
        /\ Durable(file') >= Durable(file) /\ KeptStep
    BY <1>1, <1>2, SyncingKeeps DEF Inv, Base, KeptStep, Units, Distinct
  <2>3. backup' \in Units /\ file'.size <= backup'
    BY <1>1, <1>2, <2>2 DEF Units, Distinct
  <2>4. TakenBack' >= TakenBack
    BY <1>1, <2>1, RepairCredit
  <2>5. QED
    BY <1>1, <1>2, <2>1, <2>2, <2>3, <2>4, RepairMoves
<1>3. CASE RepairStops /\ UNCHANGED <<file, backup>>
  <2>1. repair' \in RepairType /\ repair'.pc = "idle" /\ lock' = Nobody
    BY <1>3, NoRepairType DEF RepairStops
  <2>2. TakenBack' >= TakenBack /\ Durable(file') >= Durable(file) /\ KeptStep
    BY <1>1, <1>3, <2>1, RepairCredit, SameFile DEF Inv, Base
  <2>3. QED
    BY <1>1, <1>3, <2>1, <2>2, RepairMoves DEF Replacing
<1>4. QED  BY <1>2, <1>3 DEF RepairSetsAside

LEMMA RepairStagesSafe == ASSUME Inv, Distinct, RepairStages PROVE Safe
<1>1. /\ UNCHANGED <<made, phone, handler, mirrored, bounds, file, backup>>
      /\ bounds' \in BoundsType /\ lock = Repair
      /\ repair.pc = "stage" /\ repair \in RepairType
      /\ file \in FileType /\ file.synced <= file.size
      /\ backup \in Units /\ file.size <= backup
  BY DEF RepairStages, Inv, Base, Kinds, OneWriter, Replacing, SetAside
<1>2. CASE repair' = [repair EXCEPT !.pc = "replace"] /\ UNCHANGED lock
  <2>1. repair' \in RepairType /\ repair'.pc = "replace"
    BY <1>1, <1>2 DEF RepairType
  <2>2. TakenBack' >= TakenBack /\ Durable(file') >= Durable(file) /\ KeptStep
    BY <1>1, <1>2, <2>1, RepairCredit, SameFile DEF Inv, Base
  <2>3. QED
    BY <1>1, <1>2, <2>1, <2>2, RepairMoves
<1>3. CASE RepairStops
  <2>1. repair' \in RepairType /\ repair'.pc = "idle" /\ lock' = Nobody
    BY <1>3, NoRepairType DEF RepairStops
  <2>2. TakenBack' >= TakenBack /\ Durable(file') >= Durable(file) /\ KeptStep
    BY <1>1, <1>3, <2>1, RepairCredit, SameFile DEF Inv, Base
  <2>3. QED
    BY <1>1, <1>3, <2>1, <2>2, RepairMoves DEF Replacing
<1>4. QED  BY <1>2, <1>3 DEF RepairStages

\* What is replaced, and all that was durable of it, has been set aside.
LEMMA RepairReplacesSafe == ASSUME Inv, Distinct, RepairReplaces PROVE Safe
<1>1. /\ UNCHANGED <<made, phone, handler, mirrored, bounds, lock, backup>>
      /\ bounds' \in BoundsType /\ lock = Repair
      /\ repair.pc = "replace" /\ repair \in RepairType
      /\ file \in FileType /\ file.synced <= file.size
      /\ backup \in Units /\ file.size <= backup /\ file.size \in Units
      /\ repair.source \in Units
  BY DEF RepairReplaces, Inv, Base, Kinds, OneWriter, Replacing, SetAside, FileType,
         RepairType
<1>2. repair' \in RepairType /\ repair'.pc = "verify"
  BY <1>1 DEF RepairReplaces, RepairType
<1>3. file' \in FileType /\ file'.synced <= file'.size
  <2>1. file' = [File(repair.source) EXCEPT !.old = file.size]
    BY DEF RepairReplaces
  <2>2. QED  BY <1>1, <2>1 DEF File, FileType, Units, Distinct
<1>4. TakenBack' >= TakenBack + 1
  BY <1>1, <1>2, RepairCredit
<1>5. KeptStep
  BY <1>1, DurablePart DEF KeptStep, Units, Distinct
<1>6. QED
  BY <1>1, <1>2, <1>3, <1>4, <1>5, RepairMoves

LEMMA RepairVerifiesSafe == ASSUME Inv, Distinct, RepairVerifies PROVE Safe
<1>1. /\ UNCHANGED <<made, phone, handler, mirrored, bounds, backup>>
      /\ bounds' \in BoundsType /\ lock = Repair
      /\ repair.pc = "verify" /\ repair \in RepairType /\ backup \in Units
      /\ file \in FileType /\ file.synced <= file.size
  BY DEF RepairVerifies, Inv, Base, Kinds, OneWriter, Replacing
<1>2. repair' \in RepairType /\ repair'.pc = "idle" /\ lock' = Nobody
  BY NoRepairType DEF RepairVerifies, RepairStops
<1>3. TakenBack' >= TakenBack
  BY <1>1, <1>2, RepairCredit
<1>4. /\ file' \in FileType /\ file'.synced <= file'.size
      /\ Durable(file') >= Durable(file) /\ KeptStep
  <2>1. CASE file' = file
    BY <1>1, <2>1, SameFile DEF Inv, Base
  <2>2. CASE file' = Synced
    BY <1>1, <2>2, SyncingKeeps DEF Inv, Base, KeptStep, FileType, Units, Distinct
  <2>3. QED  BY <2>1, <2>2 DEF RepairVerifies
<1>5. QED
  BY <1>1, <1>2, <1>3, <1>4, RepairMoves DEF Replacing

-----------------------------------------------------------------------------
(* The operator, kills and power cuts.                                     *)

\* What is taken back is counted, and whoever has the file open has another.
LEMMA RestoresSafe == ASSUME Inv, Distinct, Restores PROVE Safe
<1>1. PICK n \in Units : n < file.size /\ file' = File(n)
  BY DEF Restores
<1>2. /\ bounds \in BoundsType /\ bounds.restores < MaxRestores
      /\ bounds' = [bounds EXCEPT !.restores = bounds.restores + 1]
  BY DEF Restores, Counts, Inv, Base, Kinds
<1>3. /\ bounds' \in BoundsType /\ bounds'.restores = bounds.restores + 1
      /\ bounds'.repairs = bounds.repairs
      /\ bounds.repairs \in Int /\ bounds.restores \in Int
  BY <1>2 DEF BoundsType, Distinct
<1>4. /\ file' \in FileType /\ file'.size = n /\ file'.synced <= file'.size
  BY <1>1, WholeFile DEF Units, Distinct
<1>5. /\ handler' \in [Handlers -> HandlerType]
      /\ \A h \in Handlers :
           /\ handler'[h].pc = handler[h].pc /\ handler'[h].answer = handler[h].answer
           /\ handler'[h].size = handler[h].size /\ handler'[h].to = handler[h].to
           /\ lock = h => handler'[h].stale
  <2>1. \A h \in Handlers : handler[h] \in HandlerType
    BY DEF Inv, Base, Kinds
  <2>2. \A h \in Handlers :
          /\ [handler[h] EXCEPT !.stale = TRUE] \in HandlerType
          /\ [handler[h] EXCEPT !.stale = TRUE].pc = handler[h].pc
          /\ [handler[h] EXCEPT !.stale = TRUE].answer = handler[h].answer
          /\ [handler[h] EXCEPT !.stale = TRUE].size = handler[h].size
          /\ [handler[h] EXCEPT !.stale = TRUE].to = handler[h].to
          /\ [handler[h] EXCEPT !.stale = TRUE].stale
    BY <2>1 DEF HandlerType
  <2>3. handler' = [h \in Handlers |->
                      IF lock = h THEN [handler[h] EXCEPT !.stale = TRUE]
                      ELSE handler[h]]
    BY DEF Restores
  <2>4. QED  BY <2>1, <2>2, <2>3
<1>6. repair' \in RepairType /\ repair'.pc = repair.pc
  <2>1. repair \in RepairType
    BY DEF Inv, Base, Kinds
  <2>2. repair' = IF lock = Repair THEN [repair EXCEPT !.stale = TRUE] ELSE repair
    BY DEF Restores
  <2>3. QED  BY <2>1, <2>2 DEF RepairType
<1>7. UNCHANGED <<made, phone, backup, lock, mirrored>>
  BY DEF Restores
<1>8. Kinds'
  BY <1>3, <1>4, <1>5, <1>6, <1>7 DEF Inv, Base, Kinds
<1>9. OneWriter' /\ Unanswered'
  BY <1>5, <1>6, <1>7 DEF Inv, Base, OneWriter, Unanswered
<1>10. Opened'
  <2> SUFFICES ASSUME NEW h \in Handlers PROVE Knows(handler'[h], file')
    BY DEF Opened
  <2>1. CASE lock = h
    BY <2>1, <1>5 DEF Knows
  <2>2. CASE lock # h
    <3>1. handler'[h].pc \notin Writing
      BY <2>2, <1>5 DEF Inv, Base, OneWriter
    <3>2. QED  BY <3>1 DEF Knows, Writing
  <2>3. QED  BY <2>1, <2>2
<1>11. SetAside'
  <2>1. file.size \in Int /\ backup \in Int /\ n \in Int
    BY DEF Inv, Base, Kinds, FileType, Units, Distinct
  <2>2. QED  BY <2>1, <1>1, <1>4, <1>6, <1>7 DEF Inv, Base, SetAside
<1>12. Shown'
  <2>1. \A r \in Records : Pending(r)' = Pending(r)
    BY <1>5 DEF Pending, NewRecords
  <2>2. TakenBack' >= TakenBack + 1
    BY <1>3, <1>6 DEF TakenBack
  <2>3. QED  BY <1>7, <1>8, <2>1, <2>2, ShownStays DEF Inv, Base
<1>13. OkStep
  BY <1>5 DEF OkStep, Inv, Base, Unanswered
<1>14. KeptStep
  BY <1>3 DEF KeptStep
<1>15. QED
  BY <1>8, <1>9, <1>10, <1>11, <1>12, <1>13, <1>14 DEF Safe, Inv, Base

\* No request is left.
LEMMA DiesFact ==
  ASSUME Inv, Distinct, ServerDies
  PROVE  /\ handler' \in [Handlers -> HandlerType]
         /\ \A h \in Handlers : handler'[h] = NoRequest
         /\ phone' \in PhoneType
         /\ Opened' /\ Unanswered' /\ OkStep
         /\ \A r \in Records : Pending(r)' \subseteq Pending(r)
<1>1. \A h \in Handlers : handler'[h] = NoRequest
  BY DEF ServerDies
<1>2. handler' \in [Handlers -> HandlerType]
  BY Idle DEF ServerDies
<1>3. phone' \in PhoneType
  BY DEF ServerDies, Inv, Base, Kinds, PhoneType
<1>4. Opened' /\ Unanswered' /\ OkStep
  BY <1>1, Idle DEF Opened, Knows, Unanswered, OkStep
<1>5. \A r \in Records : Pending(r)' \subseteq Pending(r)
  BY <1>1, Idle DEF Pending
<1>6. QED  BY <1>1, <1>2, <1>3, <1>4, <1>5

LEMMA KilledSafe == ASSUME Inv, Distinct, Killed PROVE Safe
<1>1. /\ UNCHANGED <<made, file, backup, mirrored>>
      /\ bounds' \in BoundsType /\ bounds'.restores = bounds.restores
      /\ bounds'.repairs = bounds.repairs
      /\ bounds.repairs \in Int /\ bounds.restores \in Int
  <2>1. bounds.repairs \in Int /\ bounds.restores \in Int
    BY DEF Inv, Base, Kinds, BoundsType, Distinct
  <2>2. QED  BY <2>1, FaultCounts DEF Killed, Inv, Base
<1>2. CASE /\ ServerDies
           /\ lock' = IF lock = Repair THEN Repair ELSE Nobody
           /\ UNCHANGED repair
  <2>1. Kinds'
    BY <1>1, <1>2, DiesFact DEF Inv, Base, Kinds
  <2>2. OneWriter' /\ SetAside'
    BY <1>1, <1>2, DiesFact, Idle DEF Inv, Base, OneWriter, SetAside, Writing
  <2>3. TakenBack' = TakenBack /\ TakenBack \in Int
    BY <1>1, <1>2 DEF TakenBack
  <2>4. Shown'
    BY <1>1, <1>2, <2>1, <2>3, DiesFact, ShownStays, SameFile DEF Inv, Base
  <2>5. QED
    BY <1>1, <1>2, <2>1, <2>2, <2>4, DiesFact, SameFile DEF Safe, Inv, Base
<1>3. CASE /\ repair' = NoRepair
           /\ lock' = IF lock = Repair THEN Nobody ELSE lock
           /\ UNCHANGED <<phone, handler>>
  <2>1. repair' \in RepairType /\ repair'.pc = "idle"
    BY <1>3, NoRepairType
  <2>2. Kinds'
    BY <1>1, <1>3, <2>1 DEF Inv, Base, Kinds
  <2>3. OneWriter' /\ SetAside' /\ Opened' /\ Unanswered' /\ OkStep
    BY <1>1, <1>3, <2>1
       DEF Inv, Base, OneWriter, SetAside, Opened, Unanswered, OkStep, Replacing,
           Distinct
  <2>4. Shown'
    <3>1. \A r \in Records : Pending(r)' = Pending(r)
      BY <1>3 DEF Pending, NewRecords
    <3>2. TakenBack' >= TakenBack
      BY <1>1, <2>1 DEF TakenBack
    <3>3. QED  BY <1>1, <2>2, <3>1, <3>2, ShownStays, SameFile DEF Inv, Base
  <2>5. QED
    BY <1>1, <2>2, <2>3, <2>4, SameFile DEF Safe, Inv, Base
<1>4. QED  BY <1>2, <1>3 DEF Killed

\* What a power cut takes was not durable.
LEMMA PowerLostSafe == ASSUME Inv, Distinct, PowerLost PROVE Safe
<1>1. /\ UNCHANGED <<made, backup, mirrored>> /\ ServerDies
      /\ bounds' \in BoundsType /\ bounds'.restores = bounds.restores
      /\ bounds'.repairs = bounds.repairs
      /\ bounds.repairs \in Int /\ bounds.restores \in Int
      /\ lock' = Nobody /\ repair' = NoRepair
  <2>1. bounds.repairs \in Int /\ bounds.restores \in Int
    BY DEF Inv, Base, Kinds, BoundsType, Distinct
  <2>2. QED  BY <2>1, FaultCounts DEF PowerLost, Inv, Base
<1>2. repair' \in RepairType /\ repair'.pc = "idle"
  BY <1>1, NoRepairType
<1>3. /\ file \in FileType /\ file.synced \in Units /\ file.size \in Units
      /\ file.old \in Units /\ file.synced <= file.size
      /\ Durable(file) \in Units /\ Durable(file) <= file.synced
  BY DurablePart DEF Inv, Base, Kinds, FileType
<1>4. /\ file' \in FileType /\ file'.synced <= file'.size
      /\ Durable(file') >= Durable(file)
  <2>1. ASSUME NEW n \in file.synced..file.size, file' = File(n)
        PROVE  /\ file' \in FileType /\ file'.synced <= file'.size
               /\ Durable(file') >= Durable(file)
    <3>1. n \in Units /\ Durable(file) <= n
      BY <1>3, <2>1 DEF Units, Distinct
    <3>2. QED  BY <1>3, <2>1, <3>1, WholeFile DEF Units, Distinct
  <2>2. CASE file.old # 0 /\ file' = File(file.old)
    <3>1. Durable(file) <= file.old
      BY <1>3, <2>2 DEF Durable, Units, Distinct
    <3>2. QED  BY <1>3, <2>2, <3>1, WholeFile DEF Units, Distinct
  <2>3. QED  BY <2>1, <2>2 DEF PowerLost
<1>5. Kinds'
  BY <1>1, <1>2, <1>4, DiesFact DEF Inv, Base, Kinds
<1>6. OneWriter' /\ SetAside'
  BY <1>1, <1>2, DiesFact, Idle DEF OneWriter, SetAside, Writing, Replacing
<1>7. Shown'
  <2>1. TakenBack' >= TakenBack
    BY <1>1, <1>2 DEF TakenBack
  <2>2. QED  BY <1>1, <1>4, <1>5, <2>1, DiesFact, ShownStays DEF Inv, Base
<1>8. QED
  BY <1>1, <1>4, <1>5, <1>6, <1>7, DiesFact DEF Safe, Inv, Base, KeptStep

-----------------------------------------------------------------------------
(* All steps.                                                              *)

LEMMA RestsSafe == ASSUME Inv, Distinct, UNCHANGED vars PROVE Safe
<1> USE DEF vars
<1>1. Base'
  BY DEF Inv, Base, Kinds, OneWriter, Opened, SetAside, Unanswered
<1>2. Shown'
  <2>1. \A r \in Records : Pending(r)' = Pending(r)
    BY DEF Pending, NewRecords
  <2>2. TakenBack' = TakenBack /\ TakenBack \in Int
    BY DEF TakenBack, Inv, Base, Kinds, BoundsType, Distinct
  <2>3. QED  BY <1>1, <2>1, <2>2, ShownStays, SameFile DEF Inv, Base
<1>3. OkStep
  BY DEF OkStep, Inv, Base, Unanswered
<1>4. QED  BY <1>1, <1>2, <1>3, SameFile DEF Safe, Inv, Base

LEMMA NextSafe == ASSUME Inv, Distinct, [Next]_vars PROVE Safe
<1>1. CASE PhoneStep
  BY <1>1, PhoneRecordsSafe, PhoneAsksSafe, PhoneSendsSafe, PhoneHearsSafe DEF PhoneStep
<1>2. CASE \E h \in Handlers : HandlerStep(h)
  BY <1>2, LocksForCursorSafe, LocksForAppendSafe, WritesSafe, SyncsSafe, MirrorsSafe
     DEF HandlerStep
<1>3. CASE RepairBegins \/ RepairStep
  BY <1>3, RepairBeginsSafe, RepairLocksSafe, RepairSetsAsideSafe, RepairStagesSafe,
     RepairReplacesSafe, RepairVerifiesSafe DEF RepairStep
<1>4. CASE PhoneGivesUp \/ Restores \/ Killed \/ PowerLost
  BY <1>4, PhoneGivesUpSafe, RestoresSafe, KilledSafe, PowerLostSafe
<1>5. CASE AtRest \/ UNCHANGED vars
  BY <1>5, RestsSafe DEF AtRest
<1>6. QED  BY <1>1, <1>2, <1>3, <1>4, <1>5 DEF Next

LEMMA InitInv == ASSUME Distinct, Init PROVE Inv
<1>1. 0 \in Units /\ NoRequest \in HandlerType /\ NoRepair \in RepairType
  BY Idle, NoRepairType DEF Units, Distinct
<1>2. Kinds
  <2>1. file \in FileType /\ file.synced <= file.size
    BY <1>1, WholeFile DEF Init
  <2>2. bounds \in BoundsType /\ mirrored \in [Records -> Nat]
    BY DEF Init, BoundsType, Distinct
  <2>3. QED  BY <1>1, <2>1, <2>2 DEF Init, Kinds, PhoneType
<1>3. \A h \in Handlers : handler[h].pc = "idle" /\ handler[h].answer = "none"
  BY Idle DEF Init
<1>4. OneWriter /\ Opened /\ SetAside /\ Unanswered
  BY <1>3, NoRepairType
     DEF Init, OneWriter, Opened, Knows, SetAside, Unanswered, Writing, Replacing
<1>5. Shown
  <2> SUFFICES ASSUME NEW r \in Records
               PROVE  /\ IsFiniteSet(Pending(r))
                      /\ mirrored[r] + Cardinality(Pending(r)) <=
                           TakenBack + (IF Durable(file) < 2 * r THEN 0 ELSE 1)
    BY DEF Shown
  <2>1. Pending(r) = {}
    BY <1>3 DEF Pending
  <2>2. IsFiniteSet(Pending(r)) /\ Cardinality(Pending(r)) = 0
    BY <2>1, FS_EmptySet
  <2>3. mirrored[r] = 0 /\ TakenBack = 0
    BY NoRepairType DEF Init, TakenBack
  <2>4. QED  BY <2>2, <2>3
<1>6. QED  BY <1>2, <1>4, <1>5 DEF Inv, Base

\* A record has been shown once, and once more for each time it was taken back.
LEMMA ShownEnough ==
  ASSUME Inv, Distinct
  PROVE  MirroredOnce /\ TypeOK
<1>1. ASSUME NEW r \in Records
      PROVE  mirrored[r] <= 1 + bounds.restores + bounds.repairs
  <2>1. Cardinality(Pending(r)) \in Nat
    BY FS_CardinalityType DEF Inv, Shown
  <2>2. mirrored[r] \in Nat /\ bounds.restores \in Int /\ bounds.repairs \in Int
    BY DEF Inv, Base, Kinds, BoundsType, Distinct
  <2>3. TakenBack <= bounds.restores + bounds.repairs /\ TakenBack \in Int
    BY <2>2 DEF TakenBack
  <2>4. mirrored[r] + Cardinality(Pending(r)) <= TakenBack + 1
    <3>1. mirrored[r] + Cardinality(Pending(r)) <=
            TakenBack + (IF Durable(file) < 2 * r THEN 0 ELSE 1)
      BY DEF Inv, Shown
    <3>2. QED  BY <2>1, <2>2, <2>3, <3>1
  <2>5. QED  BY <2>1, <2>2, <2>3, <2>4
<1>2. mirrored \in [Records -> 0..(1 + MaxRestores + MaxRepairs)]
  <2>1. /\ mirrored \in [Records -> Nat]
        /\ bounds.restores \in 0..MaxRestores /\ bounds.repairs \in 0..MaxRepairs
    BY DEF Inv, Base, Kinds, BoundsType
  <2>2. \A r \in Records : mirrored[r] \in 0..(1 + MaxRestores + MaxRepairs)
    BY <1>1, <2>1 DEF Distinct
  <2>3. QED  BY <2>1, <2>2
<1>3. TypeOK
  BY <1>2 DEF Inv, Base, Kinds, TypeOK, PhoneType, FileType, HandlerType, PcType,
             RepairType, BoundsType
<1>4. QED  BY <1>1, <1>3 DEF MirroredOnce

\* All variables of the log of a day keep their types.
THEOREM TypesOfTheDay ==
  ASSUME Distinct
  PROVE  Spec => []TypeOK
<1>1. Init => Inv
  BY InitInv
<1>2. Inv /\ [Next]_vars => Inv'
  BY NextSafe DEF Safe
<1>3. Inv => TypeOK
  BY ShownEnough
<1>4. QED  BY <1>1, <1>2, <1>3, PTL DEF Spec

\* A record is shown on the desktop once, and once more at most for each time
\* that the file was put back or replaced, whatever fails and is sent again.
THEOREM RecordsShownOnce ==
  ASSUME Distinct
  PROVE  Spec => []MirroredOnce
<1>1. Init => Inv
  BY InitInv
<1>2. Inv /\ [Next]_vars => Inv'
  BY NextSafe DEF Safe
<1>3. Inv => MirroredOnce
  BY ShownEnough
<1>4. QED  BY <1>1, <1>2, <1>3, PTL DEF Spec

\* Whoever is told ok is told of bytes that neither a kill nor a power cut takes.
THEOREM OkOfDurableBytes ==
  ASSUME Distinct
  PROVE  Spec => OkIsDurable
<1>1. Init => Inv
  BY InitInv
<1>2. Inv /\ [Next]_vars => Inv' /\ [OkStep]_vars
  BY NextSafe DEF Safe
<1>3. [OkStep]_vars =>
        [\A h \in Handlers :
           /\ handler[h].pc \notin {"mirror", "told"}
           /\ handler'[h].pc = "mirror" \/ handler'[h].answer = "ok"
           => Durable(file') >= IF handler'[h].pc = "mirror" THEN handler[h].to
                                ELSE handler'[h].cursor]_vars
  BY DEF OkStep
<1>4. QED  BY <1>1, <1>2, <1>3, PTL DEF Spec, OkIsDurable

\* What is durable stays in the file, or is in what a repair has set aside,
\* unless the operator puts an older copy back.
THEOREM NothingDurableLost ==
  ASSUME Distinct
  PROVE  Spec => DurableStays
<1>1. Init => Inv
  BY InitInv
<1>2. Inv /\ [Next]_vars => Inv' /\ [KeptStep]_vars
  BY NextSafe DEF Safe
<1>3. [KeptStep]_vars =>
        [\/ Durable(file') >= Durable(file) \/ backup' >= Durable(file)
         \/ bounds'.restores # bounds.restores]_vars
  BY DEF KeptStep
<1>4. QED  BY <1>1, <1>2, <1>3, PTL DEF Spec, DurableStays
=============================================================================
