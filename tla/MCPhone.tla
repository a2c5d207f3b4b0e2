------------------------------- MODULE MCPhone -------------------------------
(* Instances for TLC of what the phone dispatcher does: an intent ("intents", *)
(* PhoneIntents, which this module extends), the log of a day ("events"), the *)
(* uploads under one name ("uploads"), and the confirmations of one name of   *)
(* the inbox ("inbox").  The four have files, locks and records of their own  *)
(* and never touch each other's; so a behaviour is of one scope, and the      *)
(* parts that are not in it rest.                                             *)
EXTENDS PhoneIntents

CONSTANTS
  h1, h2, a, b, m1, m2, m3,
  Repair, Day, MaxFaults, MaxRestores, MaxRepairs,  \* of PhoneEvents
  Main, MaxUploadFaults,                            \* of PhoneUploads
  Messages, Empty, MaxInboxFaults                   \* of PhoneInbox

VARIABLES
  scope,  \* what the behaviour is about
  made, phone, dayFile, backup, writeLock, handler, repair, mirrored, eventBounds,
  photos, disk, uploadLock, upload, uploadFaults,
  unpublished, entry, claims, left, confirmer, landed, inboxFaults

Events == INSTANCE PhoneEvents WITH
  Handlers <- Threads, Nobody <- NoContent, file <- dayFile, lock <- writeLock,
  bounds <- eventBounds
Uploads == INSTANCE PhoneUploads WITH
  Handlers <- Threads, Nothing <- NoContent, MaxFaults <- MaxUploadFaults,
  phone <- photos, lock <- uploadLock, handler <- upload, faults <- uploadFaults
Inbox == INSTANCE PhoneInbox WITH
  Confirmers <- Threads, Nothing <- NoContent, MaxFaults <- MaxInboxFaults,
  faults <- inboxFaults

eventVars ==
  <<made, phone, dayFile, backup, writeLock, handler, repair, mirrored, eventBounds>>
uploadVars == <<photos, disk, uploadLock, upload, uploadFaults>>
inboxVars == <<unpublished, entry, claims, left, confirmer, landed, inboxFaults>>
phoneVars == <<scope, vars, eventVars, uploadVars, inboxVars>>

\* A part that rests does so in one of its initial states.
PhoneInit ==
  /\ scope \in {"intents", "events", "uploads", "inbox"}
  /\ Init /\ Events!Init /\ Uploads!Init /\ Inbox!Init
  /\ scope # "intents" => kind = "trace" /\ token = NoToken
  /\ scope # "uploads" => disk[Main].content = NoContent

OfIntents(A) == scope = "intents" /\ A
                /\ UNCHANGED <<scope, eventVars, uploadVars, inboxVars>>
OfEvents(A) == scope = "events" /\ A
               /\ UNCHANGED <<scope, vars, uploadVars, inboxVars>>
OfUploads(A) == scope = "uploads" /\ A
                /\ UNCHANGED <<scope, vars, eventVars, inboxVars>>
OfInbox(A) == scope = "inbox" /\ A
              /\ UNCHANGED <<scope, vars, eventVars, uploadVars>>

PhoneNext ==
  \/ OfIntents(Next)
  \/ OfEvents(Events!Next) \/ OfUploads(Uploads!Next) \/ OfInbox(Inbox!Next)

\* The fairness of the modules, each in its scope.
PhoneSpec ==
  /\ PhoneInit /\ [][PhoneNext]_phoneVars
  /\ \A p \in Processes :
       /\ WF_phoneVars(OfIntents(LoopTurns(p)))
       /\ WF_phoneVars(OfIntents(PassEnds(p)))
  /\ WF_phoneVars(OfEvents(Events!PhoneRecords))
  /\ WF_phoneVars(OfEvents(\E h \in Threads : Events!PhoneAsks(h) \/ Events!PhoneSends(h)))
  /\ WF_phoneVars(OfEvents(Events!RepairStep))
  /\ \A h \in Threads :
       /\ WF_phoneVars(OfEvents(Events!PhoneHears(h)))
       /\ WF_phoneVars(OfEvents(Events!HandlerStep(h)))
       /\ WF_phoneVars(OfUploads(Uploads!HandlerStep(h)))
  /\ \A c \in Contents :
       WF_phoneVars(OfUploads(\E h \in Threads : Uploads!Uploads(h, c)))

-----------------------------------------------------------------------------
(* What the instanced modules promise, of the instances.                    *)

\* The type invariants of the four modules.
Types == TypeOK /\ Events!TypeOK /\ Uploads!TypeOK /\ Inbox!TypeOK

\* PhoneEvents: an ok is of bytes that no kill and no power cut takes.
OkIsDurable == Events!OkIsDurable

\* PhoneEvents: what is durable stays, or was set aside.
DurableStays == Events!DurableStays

\* PhoneEvents: a record is shown once.
MirroredOnce == Events!MirroredOnce

\* PhoneEvents: the whole day is acknowledged in the end.
DayArrives == scope = "events" => Events!DayArrives

\* PhoneUploads: what the phone has deleted is on prime.
DeletedIsKept == Uploads!DeletedIsKept

\* PhoneUploads: everything is handed over in the end.
AllHandedOver == scope = "uploads" => Uploads!AllHandedOver

\* PhoneInbox: only a message that the phone has landed is deleted.
OnlyLandedIsDeleted == Inbox!OnlyLandedIsDeleted
=============================================================================
