------------------------------ MODULE PhoneEvents ------------------------------
(***************************************************************************)
(* The log of one day, from the phone to prime.  The phone appends to its  *)
(* day file, asks how much prime has, and sends byte ranges; a range that  *)
(* it gave up on may still be carried out.  Prime writes a range where it  *)
(* belongs, reads it back, syncs it and only then says ok; the records it  *)
(* completes are mirrored on the desktop afterwards.  The `repair` verb    *)
(* replaces the file of a closed day by a copy pulled from the phone, and  *)
(* the operator may put an older copy of the file back at any time.        *)
(* Processes are killed, writes stop short, and the power goes.            *)
(*                                                                         *)
(* A file is a prefix of the day, so its length stands for its bytes; two  *)
(* units make a record.  Bytes that the phone never wrote, which a range   *)
(* may be found to differ from, are left out.                              *)
(***************************************************************************)
EXTENDS Naturals

CONSTANTS
  Handlers,    \* request threads of the dispatcher
  Repair,      \* the process of the repair verb
  Nobody,      \* none of them
  Day,         \* the units of the day when it is over
  MaxFaults,   \* failed calls, kills and power cuts: a bound
  MaxRestores, \* older copies put back: a bound
  MaxRepairs   \* runs of the repair verb: a bound

Units == 0..Day
Records == 1..(Day \div 2)

VARIABLES
  made,     \* the length of the day file on the phone
  phone,    \* its cursor, whether it has asked for it, and what it waits for
  file,     \* the day file on prime: its length, what of it is synced, and
            \* the length of the file it replaced, until its name is synced
  backup,   \* the longest file that a repair has set aside
  lock,     \* who has .write.lock
  handler,  \* the request of each thread
  repair,   \* the run of the repair verb
  mirrored, \* how often each record was shown on the desktop
  bounds    \* faults, restores and repairs so far

vars == <<made, phone, file, backup, lock, handler, repair, mirrored, bounds>>

NoRequest == [pc |-> "idle", from |-> 0, to |-> 0, size |-> 0, stale |-> FALSE,
              answer |-> "none", cursor |-> 0]
File(n) == [size |-> n, synced |-> n, old |-> 0]
NoRepair == [pc |-> "idle", source |-> 0, was |-> 0, stale |-> FALSE]

\* What no power cut can take, and the file once it is synced.
Durable(f) == IF f.old # 0 /\ f.old < f.synced THEN f.old ELSE f.synced
Synced == File(file.size)

TypeOK ==
  /\ made \in Units
  /\ phone \in [cursor : Units, asked : BOOLEAN, waits : Handlers \cup {Nobody}]
  /\ file \in [size : Units, synced : Units, old : Units]
  /\ file.synced <= file.size
  /\ backup \in Units
  /\ lock \in Handlers \cup {Repair, Nobody}
  /\ handler \in [Handlers ->
       [pc : {"idle", "ask", "append", "write", "sync", "dup", "cursor",
              "mirror", "told"},
        from : Units, to : Units, size : Units, stale : BOOLEAN,
        answer : {"none", "ok", "behind", "error"}, cursor : Units]]
  /\ repair \in [pc : {"idle", "begin", "backup", "stage", "replace", "verify"},
                 source : Units, was : Units, stale : BOOLEAN]
  /\ mirrored \in [Records -> 0..(1 + MaxRestores + MaxRepairs)]
  /\ bounds \in [faults : 0..MaxFaults,
                 restores : 0..MaxRestores, repairs : 0..MaxRepairs]

Init ==
  /\ made = 0
  /\ phone = [cursor |-> 0, asked |-> FALSE, waits |-> Nobody]
  /\ file = File(0)
  /\ backup = 0
  /\ lock = Nobody
  /\ handler = [h \in Handlers |-> NoRequest]
  /\ repair = NoRepair
  /\ mirrored = [r \in Records |-> 0]
  /\ bounds = [faults |-> 0, restores |-> 0, repairs |-> 0]

Counts(what, max) == bounds[what] < max
                     /\ bounds' = [bounds EXCEPT ![what] = @ + 1]
Fault == Counts("faults", MaxFaults)

Goes(h, pc) == handler' = [handler EXCEPT ![h].pc = pc]
Answers(h, answer, cursor) ==
  handler' = [handler EXCEPT ![h].pc = "told", ![h].answer = answer,
                             ![h].cursor = cursor]

-----------------------------------------------------------------------------
(* The phone.                                                              *)

PhoneRecords ==
  /\ made < Day
  /\ made' = made + 1
  /\ UNCHANGED <<phone, file, backup, lock, handler, repair, mirrored, bounds>>

PhoneAsks(h) ==
  /\ phone.waits = Nobody /\ ~phone.asked
  /\ handler[h].pc = "idle"
  /\ phone' = [phone EXCEPT !.waits = h]
  /\ handler' = [handler EXCEPT ![h] = [NoRequest EXCEPT !.pc = "ask"]]
  /\ UNCHANGED <<made, file, backup, lock, repair, mirrored, bounds>>

PhoneSends(h) ==
  /\ phone.waits = Nobody /\ phone.asked
  /\ phone.cursor < made
  /\ handler[h].pc = "idle"
  /\ phone' = [phone EXCEPT !.waits = h]
  /\ \E to \in (phone.cursor + 1)..made :
       handler' = [handler EXCEPT ![h] =
                     [NoRequest EXCEPT !.pc = "append", !.from = phone.cursor,
                                       !.to = to]]
  /\ UNCHANGED <<made, file, backup, lock, repair, mirrored, bounds>>

PhoneGivesUp ==
  /\ phone.waits # Nobody
  /\ Fault
  /\ phone' = [phone EXCEPT !.waits = Nobody]
  /\ UNCHANGED <<made, file, backup, lock, handler, repair, mirrored>>

\* The phone goes by the cursor it is given, forwards or backwards, and tries
\* again when it is given none.
PhoneHears(h) ==
  /\ handler[h].pc = "told"
  /\ phone' = IF phone.waits # h THEN phone
              ELSE IF handler[h].answer = "error"
              THEN [phone EXCEPT !.waits = Nobody]
              ELSE [cursor |-> handler[h].cursor, asked |-> TRUE,
                    waits |-> Nobody]
  /\ handler' = [handler EXCEPT ![h] = NoRequest]
  /\ UNCHANGED <<made, file, backup, lock, repair, mirrored, bounds>>

-----------------------------------------------------------------------------
(* append_events and events_cursor, under .write.lock.                     *)

LocksForCursor(h) ==
  /\ handler[h].pc = "ask"
  /\ lock = Nobody
  /\ lock' = h
  /\ handler' = [handler EXCEPT ![h].pc = "cursor", ![h].size = file.size]
  /\ UNCHANGED <<made, phone, file, backup, repair, mirrored, bounds>>

\* Slip: a range beyond the end of the file is refused without its length.
BehindWithoutCursor(h) ==
  /\ handler[h].from > file.size
  /\ Answers(h, "error", 0)
  /\ UNCHANGED lock

\* The bytes before the range are not there: 409, with what is.
Behind(h) ==
  /\ handler[h].from > file.size
  /\ Answers(h, "behind", file.size)
  /\ UNCHANGED lock

LocksForAppend(h) ==
  /\ handler[h].pc = "append"
  /\ lock = Nobody
  /\ \/ Behind(h)
     \/ /\ handler[h].from <= file.size
        /\ lock' = h
        /\ handler' = [handler EXCEPT
                         ![h].pc = IF handler[h].to <= file.size
                                   THEN "dup" ELSE "write",
                         ![h].size = file.size]
  /\ UNCHANGED <<made, phone, file, backup, repair, mirrored, bounds>>

\* Slip: the file ends where the range ends.
WritesWhole(h) ==
  /\ handler[h].pc \in {"write", "dup"}
  /\ file' = IF handler[h].stale THEN file
             ELSE [file EXCEPT !.size = handler[h].to]
  /\ Goes(h, "sync")
  /\ UNCHANGED <<made, phone, backup, lock, repair, mirrored, bounds>>

\* pwrite may stop short and then fail.  Where the file was replaced, it goes
\* to the one that was opened.
Writes(h) ==
  LET upTo(n) == file' = IF handler[h].stale THEN file
                         ELSE [file EXCEPT !.size = n]
  IN /\ handler[h].pc = "write"
     /\ \/ /\ upTo(handler[h].to)
           /\ Goes(h, "sync")
           /\ UNCHANGED <<lock, bounds>>
        \/ /\ Fault
           /\ \E n \in handler[h].size..handler[h].to : upTo(n)
           /\ Answers(h, "error", 0)
           /\ lock' = Nobody
     /\ UNCHANGED <<made, phone, backup, repair, mirrored>>

\* What is told of a range that is there.
Told(h) ==
  CASE handler[h].pc = "sync" -> handler[h].to
    [] OTHER -> handler[h].size

\* Slip: the file that was synced is taken for the one that has the name.
SyncsBlindly(h) ==
  /\ handler[h].pc \in {"sync", "dup", "cursor"}
  /\ file' = IF handler[h].stale THEN file ELSE Synced
  /\ \/ Goes(h, "mirror") /\ handler[h].pc = "sync"
     \/ Answers(h, "ok", Told(h)) /\ handler[h].pc # "sync"
  /\ lock' = Nobody
  /\ UNCHANGED <<made, phone, backup, repair, mirrored, bounds>>

\* _sync_capture_path: synced, still there, still the file with the name.
Syncs(h) ==
  /\ handler[h].pc \in {"sync", "dup", "cursor"}
  /\ lock' = Nobody
  /\ \/ /\ ~handler[h].stale
        /\ file' = Synced
        /\ IF handler[h].pc = "sync" THEN Goes(h, "mirror")
                                     ELSE Answers(h, "ok", Told(h))
        /\ UNCHANGED bounds
     \/ /\ handler[h].stale \/ Fault
        /\ handler[h].stale => UNCHANGED bounds
        /\ Answers(h, "error", 0)
        /\ UNCHANGED file
  /\ UNCHANGED <<made, phone, backup, repair, mirrored>>

\* Slip: the records of the whole range are shown.
NewRecordsOfRange(h) == {r \in Records : 2 * r \in (handler[h].from + 1)..handler[h].to}

\* The records whose end this request has added.
NewRecords(h) == {r \in Records : 2 * r \in (handler[h].size + 1)..handler[h].to}

\* mirror_new_events, without the lock; that it fails is not told.
Mirrors(h) ==
  /\ handler[h].pc = "mirror"
  /\ mirrored' \in
       {mirrored,
        [r \in Records |-> IF r \in NewRecords(h) THEN mirrored[r] + 1
                                                  ELSE mirrored[r]]}
  /\ Answers(h, "ok", handler[h].to)
  /\ UNCHANGED <<made, phone, file, backup, lock, repair, bounds>>

-----------------------------------------------------------------------------
(* repair_event_day.                                                       *)

\* The operator pulls whole records from the phone, and names the file that
\* prime has.
RepairBegins ==
  /\ repair.pc = "idle"
  /\ made = Day /\ file.size > 0
  /\ Counts("repairs", MaxRepairs)
  /\ \E r \in Records :
       repair' = [pc |-> "begin", source |-> 2 * r, was |-> file.size,
                  stale |-> FALSE]
  /\ UNCHANGED <<made, phone, file, backup, lock, handler, mirrored>>

RepairStops == repair' = NoRepair /\ lock' = Nobody

\* The file is still the one the operator named, or nothing is done; where it
\* is the source already, it is synced.
RepairLocks ==
  /\ repair.pc = "begin"
  /\ lock = Nobody
  /\ \/ /\ file.size = repair.was /\ file.size # repair.source
        /\ lock' = Repair
        /\ repair' = [repair EXCEPT !.pc = "backup"]
        /\ UNCHANGED file
     \/ /\ file.size = repair.was /\ file.size = repair.source
        /\ RepairStops
        /\ file' = Synced
     \/ /\ file.size # repair.was
        /\ RepairStops
        /\ UNCHANGED file
  /\ UNCHANGED <<made, phone, backup, handler, mirrored, bounds>>

\* Slip: the file that is replaced is not set aside.
RepairSetsNothingAside ==
  /\ repair.pc = "backup"
  /\ repair' = [repair EXCEPT !.pc = "stage"]
  /\ UNCHANGED <<made, phone, file, backup, lock, handler, mirrored, bounds>>

\* A link to the file, synced and read back as what was to be replaced.
RepairSetsAside ==
  /\ repair.pc = "backup"
  /\ \/ /\ ~repair.stale
        /\ file' = Synced
        /\ backup' = IF backup > file.size THEN backup ELSE file.size
        /\ repair' = [repair EXCEPT !.pc = "stage"]
        /\ UNCHANGED lock
     \/ /\ repair.stale
        /\ RepairStops
        /\ UNCHANGED <<file, backup>>
  /\ UNCHANGED <<made, phone, handler, mirrored, bounds>>

\* The copy is staged and synced, and the file looked at once more.
RepairStages ==
  /\ repair.pc = "stage"
  /\ \/ /\ ~repair.stale
        /\ repair' = [repair EXCEPT !.pc = "replace"]
        /\ UNCHANGED lock
     \/ repair.stale /\ RepairStops
  /\ UNCHANGED <<made, phone, file, backup, handler, mirrored, bounds>>

RepairReplaces ==
  /\ repair.pc = "replace"
  /\ file' = [File(repair.source) EXCEPT !.old = file.size]
  /\ repair' = [repair EXCEPT !.pc = "verify", !.stale = FALSE]
  /\ UNCHANGED <<made, phone, backup, lock, handler, mirrored, bounds>>

\* Its name is synced and its bytes are read back.
RepairVerifies ==
  /\ repair.pc = "verify"
  /\ RepairStops
  /\ file' = IF repair.stale THEN file ELSE Synced
  /\ UNCHANGED <<made, phone, backup, handler, mirrored, bounds>>

-----------------------------------------------------------------------------
(* The operator, kills and power cuts.                                     *)

\* An older copy takes the name; whoever has opened the file has another.
Restores ==
  /\ Counts("restores", MaxRestores)
  /\ \E n \in Units :
       n < file.size /\ file' = File(n)
  /\ handler' = [h \in Handlers |->
                   IF lock = h THEN [handler[h] EXCEPT !.stale = TRUE]
                   ELSE handler[h]]
  /\ repair' = IF lock = Repair THEN [repair EXCEPT !.stale = TRUE] ELSE repair
  /\ UNCHANGED <<made, phone, backup, lock, mirrored>>

ServerDies ==
  /\ handler' = [h \in Handlers |-> NoRequest]
  /\ phone' = [phone EXCEPT !.waits = Nobody]

Killed ==
  /\ Fault
  /\ \/ /\ \E h \in Handlers : handler[h].pc # "idle"
        /\ ServerDies
        /\ lock' = IF lock = Repair THEN Repair ELSE Nobody
        /\ UNCHANGED repair
     \/ /\ repair.pc # "idle"
        /\ repair' = NoRepair
        /\ lock' = IF lock = Repair THEN Nobody ELSE lock
        /\ UNCHANGED <<phone, handler>>
  /\ UNCHANGED <<made, file, backup, mirrored>>

\* What was not synced may be gone: the end of the file, or its new name.
PowerLost ==
  /\ Fault
  /\ ServerDies
  /\ lock' = Nobody
  /\ repair' = NoRepair
  /\ \/ \E n \in file.synced..file.size : file' = File(n)
     \/ file.old # 0 /\ file' = File(file.old)
  /\ UNCHANGED <<made, backup, mirrored>>

HandlerStep(h) ==
  \/ LocksForCursor(h) \/ LocksForAppend(h) \/ Writes(h) \/ Syncs(h)
  \/ Mirrors(h)

RepairStep ==
  \/ RepairLocks \/ RepairSetsAside \/ RepairStages \/ RepairReplaces
  \/ RepairVerifies

PhoneStep ==
  \/ PhoneRecords
  \/ \E h \in Handlers : PhoneAsks(h) \/ PhoneSends(h) \/ PhoneHears(h)

AtRest ==
  /\ \A h \in Handlers : handler[h].pc = "idle"
  /\ UNCHANGED vars

Next ==
  \/ PhoneStep \/ PhoneGivesUp
  \/ \E h \in Handlers : HandlerStep(h)
  \/ RepairBegins \/ RepairStep
  \/ Restores \/ Killed \/ PowerLost
  \/ AtRest

Spec == Init /\ [][Next]_vars

\* The phone keeps at it, and threads and the repair run.
FairSpec ==
  /\ Spec
  /\ WF_vars(PhoneRecords)
  /\ WF_vars(\E h \in Handlers : PhoneAsks(h) \/ PhoneSends(h))
  /\ \A h \in Handlers : WF_vars(PhoneHears(h)) /\ WF_vars(HandlerStep(h))
  /\ WF_vars(RepairStep)

-----------------------------------------------------------------------------
(* Properties.                                                             *)

\* Whoever is told ok, or where to go on, is told of bytes that are synced in
\* the file that has the name: neither a kill nor a power cut takes them
\* (uploads.py: "An ok therefore describes bytes read back from where they
\* were retained").
OkIsDurable ==
  [][\A h \in Handlers :
       /\ handler[h].pc \notin {"mirror", "told"}
       /\ handler'[h].pc = "mirror" \/ handler'[h].answer = "ok"
       => Durable(file') >= IF handler'[h].pc = "mirror" THEN handler[h].to
                            ELSE handler'[h].cursor]_vars

\* What is durable stays: in the file, or in what a repair set aside, unless
\* the operator puts an older copy back.
DurableStays ==
  [][\/ Durable(file') >= Durable(file) \/ backup' >= Durable(file)
     \/ bounds'.restores # bounds.restores]_vars

\* A record is shown once, and again only where it had to be sent again after
\* the file was put back or replaced.
MirroredOnce ==
  \A r \in Records : mirrored[r] <= 1 + bounds.restores + bounds.repairs

\* The whole day is acknowledged in the end, whatever has failed and whatever
\* was put back before the phone was told of its end.
DayArrives == <>(phone.cursor = Day)
=============================================================================
