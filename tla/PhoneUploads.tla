------------------------------ MODULE PhoneUploads ------------------------------
(***************************************************************************)
(* Files that the phone hands over under one name of a lane.  The phone    *)
(* deletes its copy on an ok, sends again on anything else, and may have   *)
(* other bytes under the name later, such as an edited photo.  Prime keeps *)
(* what the name holds, puts other bytes beside it under a name made from  *)
(* their digest, and says ok of bytes that it has read back and synced.    *)
(* The dispatcher is killed, calls fail, and the power goes.               *)
(***************************************************************************)
EXTENDS Naturals

CONSTANTS
  Handlers,  \* request threads of the dispatcher
  Contents,  \* what the phone has had under the name
  Nothing,   \* no content, and no thread
  Main,      \* the name itself; each content also stands for its own name
  MaxFaults  \* failed calls, kills, answers lost and power cuts: a bound

Names == Contents \cup {Main}

VARIABLES
  phone,   \* the contents that the phone holds
  disk,    \* what each name holds, and whether it is synced
  lock,    \* who has _UPLOAD_LOCK
  handler, \* the request of each thread
  faults   \* faults so far

vars == <<phone, disk, lock, handler, faults>>

NoFile == [content |-> Nothing, synced |-> TRUE]
NoRequest == [pc |-> "idle", content |-> Nothing, name |-> Main, answer |-> "none"]

TypeOK ==
  /\ phone \subseteq Contents
  /\ disk \in [Names -> [content : Contents \cup {Nothing}, synced : BOOLEAN]]
  /\ lock \in Handlers \cup {Nothing}
  /\ handler \in [Handlers ->
       [pc : {"idle", "lock", "look", "publish", "verify", "mark", "told"},
        content : Contents \cup {Nothing}, name : Names,
        answer : {"none", "ok", "error"}]]
  /\ faults \in 0..MaxFaults

Init ==
  /\ phone = Contents
  /\ \E c \in Contents \cup {Nothing} :
       disk = [[n \in Names |-> NoFile] EXCEPT ![Main].content = c]
  /\ lock = Nothing
  /\ handler = [h \in Handlers |-> NoRequest]
  /\ faults = 0

Fault == faults < MaxFaults /\ faults' = faults + 1
Holds(h) == disk[handler[h].name].content

Answers(h, answer) ==
  /\ handler' = [handler EXCEPT ![h].pc = "told", ![h].answer = answer]
  /\ lock' = Nothing

\* Any call of the filesystem may fail; the phone is told so.
Fails(h) == Fault /\ Answers(h, "error")

Uploads(h, c) ==
  /\ handler[h].pc = "idle"
  /\ c \in phone
  /\ handler' = [handler EXCEPT ![h] =
                   [pc |-> "lock", content |-> c, name |-> Main, answer |-> "none"]]
  /\ UNCHANGED <<phone, disk, lock, faults>>

Locks(h) ==
  /\ handler[h].pc = "lock"
  /\ lock = Nothing
  /\ lock' = h
  /\ handler' = [handler EXCEPT ![h].pc = "look"]
  /\ UNCHANGED <<phone, disk, faults>>

\* Slip: the bytes that are there are compared, and not synced.
LooksOnly(h) ==
  /\ handler[h].pc = "look"
  /\ \/ Holds(h) = Nothing
        /\ handler' = [handler EXCEPT ![h].pc = "publish"]
        /\ UNCHANGED lock
     \/ Holds(h) = handler[h].content /\ Answers(h, "ok")
     \/ /\ Holds(h) \notin {Nothing, handler[h].content}
        /\ handler' = [handler EXCEPT ![h].name = handler[h].content]
        /\ UNCHANGED lock
  /\ UNCHANGED <<phone, disk, faults>>

\* Slip: a name that holds other bytes refuses the upload.
RefusesReuse(h) ==
  /\ handler[h].pc = "look"
  /\ \/ /\ Holds(h) = Nothing
        /\ handler' = [handler EXCEPT ![h].pc = "publish"]
        /\ UNCHANGED lock
     \/ /\ Holds(h) # Nothing
        /\ Answers(h, IF Holds(h) = handler[h].content THEN "ok" ELSE "error")
  /\ disk' = [disk EXCEPT ![handler[h].name].synced = TRUE]
  /\ UNCHANGED <<phone, faults>>

\* _retained_digest: what is there is synced as it is read.  The same bytes
\* are a retry; other bytes send the upload to the name of its digest.
Looks(h) ==
  LET name == handler[h].name
      syncs == disk' = [disk EXCEPT ![name].synced = TRUE]
  IN /\ handler[h].pc = "look"
     /\ \/ /\ Holds(h) = Nothing
           /\ handler' = [handler EXCEPT ![h].pc = "publish"]
           /\ UNCHANGED <<disk, lock, faults>>
        \/ /\ Holds(h) = handler[h].content
           /\ syncs
           /\ Answers(h, "ok")
           /\ UNCHANGED faults
        \/ /\ Holds(h) \notin {Nothing, handler[h].content}
           /\ syncs
           /\ IF name = Main
              THEN /\ handler' = [handler EXCEPT ![h].name = handler[h].content]
                   /\ UNCHANGED lock
              ELSE Answers(h, "error")
           /\ UNCHANGED faults
        \/ Fails(h) /\ UNCHANGED disk
     /\ UNCHANGED phone

\* atomic_publish renames a synced file over the name; the name itself may
\* fail to be synced.
Publishes(h) ==
  LET file(synced) == [content |-> handler[h].content, synced |-> synced]
      puts(synced) == disk' = [disk EXCEPT ![handler[h].name] = file(synced)]
  IN /\ handler[h].pc = "publish"
     /\ \/ /\ puts(TRUE)
           /\ handler' = [handler EXCEPT ![h].pc = "verify"]
           /\ UNCHANGED <<lock, faults>>
        \/ Fails(h) /\ (UNCHANGED disk \/ puts(FALSE))
     /\ UNCHANGED phone

\* The read-back: other bytes than were sent are an error.
Verifies(h) ==
  /\ handler[h].pc = "verify"
  /\ \/ /\ Holds(h) = handler[h].content
        /\ handler' = [handler EXCEPT ![h].pc = "mark"]
        /\ UNCHANGED <<lock, faults>>
     \/ /\ Holds(h) # handler[h].content
        /\ Answers(h, "error")
        /\ UNCHANGED faults
     \/ Fails(h)
  /\ UNCHANGED <<phone, disk>>

\* _record_ambient_progress: the ack is refused where it fails, and the retry
\* is of a chunk that has landed already.
Marks(h) ==
  /\ handler[h].pc = "mark"
  /\ \/ Answers(h, "ok") /\ UNCHANGED faults
     \/ Fails(h)
  /\ UNCHANGED <<phone, disk>>

\* The phone deletes its copy on an ok, if that reaches it.
Hears(h) ==
  /\ handler[h].pc = "told"
  /\ \/ /\ phone' = IF handler[h].answer = "ok"
                    THEN phone \ {handler[h].content} ELSE phone
        /\ UNCHANGED faults
     \/ Fault /\ UNCHANGED phone
  /\ handler' = [handler EXCEPT ![h] = NoRequest]
  /\ UNCHANGED <<disk, lock>>

ServerDies == handler' = [h \in Handlers |-> NoRequest] /\ lock' = Nothing

Killed ==
  /\ Fault
  /\ \E h \in Handlers : handler[h].pc # "idle"
  /\ ServerDies
  /\ UNCHANGED <<phone, disk>>

\* A name that was not synced may be gone.
PowerLost ==
  /\ Fault
  /\ ServerDies
  /\ \E lost \in SUBSET {n \in Names : ~disk[n].synced} :
       disk' = [n \in Names |-> IF n \in lost THEN NoFile
                                ELSE [disk[n] EXCEPT !.synced = TRUE]]
  /\ UNCHANGED phone

HandlerStep(h) ==
  Locks(h) \/ Looks(h) \/ Publishes(h) \/ Verifies(h) \/ Marks(h) \/ Hears(h)

AtRest ==
  /\ \A h \in Handlers : handler[h].pc = "idle"
  /\ UNCHANGED vars

Next ==
  \/ \E h \in Handlers :
       (\E c \in Contents : Uploads(h, c)) \/ HandlerStep(h)
  \/ Killed \/ PowerLost
  \/ AtRest

Spec == Init /\ [][Next]_vars

\* The phone keeps at it, and threads run.
FairSpec ==
  /\ Spec
  /\ \A c \in Contents : WF_vars(\E h \in Handlers : Uploads(h, c))
  /\ \A h \in Handlers : WF_vars(HandlerStep(h))

-----------------------------------------------------------------------------
(* Properties.                                                             *)

\* Whatever the phone has deleted is on prime, synced, under the name or the
\* name of its digest (uploads.py: "A false ok costs the only copy").
DeletedIsKept ==
  \A c \in Contents \ phone :
    \E n \in {Main, c} : disk[n] = [content |-> c, synced |-> TRUE]

\* Everything is handed over in the end, what came under a used name too
\* (uploads.py: "a retry that answered 409 would strand the file on the device
\* forever").
AllHandedOver == <>(phone = {})
=============================================================================
