------------------------------ MODULE PhoneInbox ------------------------------
(***************************************************************************)
(* One name of the inbox from which prime's messages are handed over.  A   *)
(* publisher puts a message under the name or replaces the one that is     *)
(* there; the phone fetches what it finds, lands it, and confirms it by    *)
(* digest, again and again if no answer comes.  A confirmation moves the   *)
(* name's file to a name of its own before it looks at it for the last     *)
(* time, and deletes it, or puts it back without replacing anything.  The  *)
(* sweep of the phone's intents deletes its files in the same way.         *)
(* Renames, links and unlinks may fail, and the server may be killed.      *)
(***************************************************************************)
EXTENDS Naturals

CONSTANTS
  Confirmers, \* request threads that carry out a confirmation
  Messages,   \* what is published under the name
  Nothing,    \* no message
  Empty,      \* the file of a claim that is only reserved
  MaxFaults   \* failed calls and kills: a bound

VARIABLES
  unpublished, \* what is still to be published
  entry,       \* what the name holds
  claims,      \* what the claim of each confirmer holds
  left,        \* what the claims of confirmations that have ended hold
  confirmer,   \* the confirmation of each thread
  landed,      \* what the phone has landed
  faults       \* faults so far

vars == <<unpublished, entry, claims, left, confirmer, landed, faults>>

NoConfirm == [pc |-> "idle", digest |-> Nothing]

TypeOK ==
  /\ unpublished \subseteq Messages
  /\ entry \in Messages \cup {Nothing}
  /\ claims \in [Confirmers -> Messages \cup {Nothing, Empty}]
  /\ left \subseteq Messages
  /\ confirmer \in [Confirmers ->
       [pc : {"idle", "inspect", "reserve", "rename", "unrename", "look",
              "unlink", "preserve"},
        digest : Messages \cup {Nothing}]]
  /\ landed \subseteq Messages
  /\ faults \in 0..MaxFaults

Init ==
  /\ unpublished = Messages
  /\ entry = Nothing
  /\ claims = [c \in Confirmers |-> Nothing]
  /\ left = {}
  /\ confirmer = [c \in Confirmers |-> NoConfirm]
  /\ landed = {}
  /\ faults = 0

Fault == faults < MaxFaults /\ faults' = faults + 1
Goes(c, pc) == confirmer' = [confirmer EXCEPT ![c].pc = pc]

\* The confirmation ends; a message that its claim still has stays there.
Ends(c) ==
  /\ confirmer' = [confirmer EXCEPT ![c] = NoConfirm]
  /\ claims' = [claims EXCEPT ![c] = Nothing]
  /\ left' = left \cup ({claims[c]} \cap Messages)

\* A publisher replaces atomically, as inbox.py expects of it and the drain of
\* the outbox does; write_message only takes a name that is free.
Publish(m) ==
  /\ m \in unpublished
  /\ unpublished' = unpublished \ {m}
  /\ entry' = m
  /\ UNCHANGED <<claims, left, confirmer, landed, faults>>

\* open_inbox delivers the file that it has opened.
PhoneLands ==
  /\ entry \notin landed \cup {Nothing}
  /\ landed' = landed \cup {entry}
  /\ UNCHANGED <<unpublished, entry, claims, left, confirmer, faults>>

PhoneConfirms(c, m) ==
  /\ confirmer[c].pc = "idle"
  /\ m \in landed
  /\ confirmer' = [confirmer EXCEPT ![c] = [pc |-> "inspect", digest |-> m]]
  /\ UNCHANGED <<unpublished, entry, claims, left, landed, faults>>

\* The name holds what was confirmed, or nothing is done.
Inspects(c) ==
  /\ confirmer[c].pc = "inspect"
  /\ \/ entry = confirmer[c].digest /\ Goes(c, "reserve")
     \/ /\ entry # confirmer[c].digest
        /\ confirmer' = [confirmer EXCEPT ![c] = NoConfirm]
  /\ UNCHANGED <<unpublished, entry, claims, left, landed, faults>>

Reserves(c) ==
  /\ confirmer[c].pc = "reserve"
  /\ claims' = [claims EXCEPT ![c] = Empty]
  /\ Goes(c, "rename")
  /\ UNCHANGED <<unpublished, entry, left, landed, faults>>

\* rename takes whatever the name holds by now.  It fails if that is nothing,
\* and may fail otherwise, even after it was carried out.
Renames(c) ==
  LET moves == entry' = Nothing /\ claims' = [claims EXCEPT ![c] = entry]
  IN /\ confirmer[c].pc = "rename"
     /\ \/ /\ entry # Nothing
           /\ moves
           /\ Goes(c, "look")
           /\ UNCHANGED faults
        \/ /\ entry = Nothing
           /\ Goes(c, "unrename")
           /\ UNCHANGED <<entry, claims, faults>>
        \/ /\ entry # Nothing
           /\ Fault
           /\ moves \/ UNCHANGED <<entry, claims>>
           /\ Goes(c, "unrename")
     /\ UNCHANGED <<unpublished, left, landed>>

\* Slip: a rename that failed was not carried out.
UndoesBlindly(c) ==
  /\ confirmer[c].pc = "unrename"
  /\ confirmer' = [confirmer EXCEPT ![c] = NoConfirm]
  /\ claims' = [claims EXCEPT ![c] = Nothing]
  /\ UNCHANGED <<unpublished, entry, left, landed, faults>>

\* After a rename that failed, only the empty file that was reserved goes.
Undoes(c) ==
  /\ confirmer[c].pc = "unrename"
  /\ \/ /\ claims[c] = Empty
        /\ confirmer' = [confirmer EXCEPT ![c] = NoConfirm]
        /\ claims' = [claims EXCEPT ![c] = Nothing]
     \/ claims[c] # Empty /\ Goes(c, "preserve") /\ UNCHANGED claims
  /\ UNCHANGED <<unpublished, entry, left, landed, faults>>

Looks(c) ==
  /\ confirmer[c].pc = "look"
  /\ \/ claims[c] = confirmer[c].digest /\ Goes(c, "unlink") /\ UNCHANGED faults
     \/ claims[c] # confirmer[c].digest /\ Goes(c, "preserve") /\ UNCHANGED faults
     \/ Fault /\ Goes(c, "preserve")
  /\ UNCHANGED <<unpublished, entry, claims, left, landed>>

Unlinks(c) ==
  /\ confirmer[c].pc = "unlink"
  /\ \/ /\ confirmer' = [confirmer EXCEPT ![c] = NoConfirm]
        /\ claims' = [claims EXCEPT ![c] = Nothing]
        /\ UNCHANGED faults
     \/ Fault /\ Goes(c, "preserve") /\ UNCHANGED claims
  /\ UNCHANGED <<unpublished, entry, left, landed>>

\* _preserve_claim: a link under the name, unless there is one; the claim
\* stays.
Preserves(c) ==
  /\ confirmer[c].pc = "preserve"
  /\ \/ entry' = (IF entry = Nothing THEN claims[c] ELSE entry) /\ UNCHANGED faults
     \/ Fault /\ UNCHANGED entry
  /\ Ends(c)
  /\ UNCHANGED <<unpublished, landed>>

\* The server is killed; its claims stay.
Killed ==
  /\ Fault
  /\ \E c \in Confirmers : confirmer[c].pc # "idle"
  /\ confirmer' = [c \in Confirmers |-> NoConfirm]
  /\ claims' = [c \in Confirmers |-> Nothing]
  /\ left' = left \cup ({claims[c] : c \in Confirmers} \cap Messages)
  /\ UNCHANGED <<unpublished, entry, landed>>

ConfirmStep(c) ==
  \/ Inspects(c) \/ Reserves(c) \/ Renames(c) \/ Undoes(c) \/ Looks(c)
  \/ Unlinks(c) \/ Preserves(c)

AtRest ==
  /\ \A c \in Confirmers : confirmer[c].pc = "idle"
  /\ UNCHANGED vars

Next ==
  \/ \E m \in Messages : Publish(m)
  \/ PhoneLands
  \/ \E c \in Confirmers :
       (\E m \in Messages : PhoneConfirms(c, m)) \/ ConfirmStep(c)
  \/ Killed
  \/ AtRest

Spec == Init /\ [][Next]_vars

-----------------------------------------------------------------------------
(* Properties.                                                             *)

Kept == {entry} \cup {claims[c] : c \in Confirmers} \cup left

\* Only a message that the phone has landed is deleted; any other goes only
\* when its publisher replaces it (inbox.py: "Consume only the acknowledged
\* bytes"; "A changed publication stays recoverable even when its original
\* name is reused").
OnlyLandedIsDeleted ==
  [][\A m \in Messages \cap Kept :
       m \in Kept' \/ m \in landed \/ (m = entry /\ unpublished' # unpublished)]_vars
=============================================================================
