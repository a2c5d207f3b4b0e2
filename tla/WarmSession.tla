------------------------------ MODULE WarmSession ------------------------------
(***************************************************************************)
(* The warm session that the gateway keeps to one upstream MCP server.     *)
(* Calls share it: each puts its request in the session's stream, which a  *)
(* task admits in order while it has slots, and waits for the reply or for *)
(* its own time limit.  The upstream may fail at any point, and takes the  *)
(* session and every request of it along; the next call starts another.    *)
(* The tasks are of one thread: a step is what happens between two awaits. *)
(***************************************************************************)
EXTENDS Naturals, Sequences

CONSTANTS
  Calls,       \* calls of the server's tools; each makes one request
  Nobody,      \* no call and no task
  Slots,       \* MAX_SESSION_CALLS
  MaxSessions  \* sessions that are started: a bound

Sessions == 1..MaxSessions
None == 0

VARIABLES
  current, \* the session under the server's name, or None
  last,    \* the session that was started last
  session, \* the state of each session
  lock,    \* the call or session that has _session_lock, or Nobody
  stream,  \* the requests in the stream of each session
  slots,   \* the free slots of each session
  call     \* each call

vars == <<current, last, session, lock, stream, slots, call>>

NewCall == [pc |-> "session", session |-> None, task |-> "none", reply |-> "none",
            runs |-> 0]

TypeOK ==
  /\ current \in Sessions \cup {None}
  /\ last \in Sessions \cup {None}
  /\ session \in [Sessions -> {"none", "starting", "refused", "up", "closing",
                               "failed", "ended"}]
  /\ lock \in Calls \cup {Nobody}
  /\ \A s \in Sessions : \A i \in DOMAIN stream[s] : stream[s][i] \in Calls
  /\ slots \in [Sessions -> 0..Slots]
  /\ call \in [Calls ->
       [pc : {"session", "start", "send", "wait", "discard", "told",
              "lost"},
        session : Sessions \cup {None},
        task : {"none", "queued", "admitted", "running", "done"},
        reply : {"none", "ok", "failed"},
        runs : 0..2]]

Init ==
  /\ current = None /\ last = None
  /\ session = [s \in Sessions |-> "none"]
  /\ lock = Nobody
  /\ stream = [s \in Sessions |-> <<>>]
  /\ slots = [s \in Sessions |-> Slots]
  /\ call = [c \in Calls |-> NewCall]

Goes(c, pc) == call' = [call EXCEPT ![c].pc = pc]

-----------------------------------------------------------------------------
(* A call: _persistent_session and _request.                               *)

\* Under the lock, the session there is, or one that is to be started.
TakesSession(c) ==
  /\ call[c].pc = "session"
  /\ lock = Nobody
  /\ \/ /\ current # None
        /\ call' = [call EXCEPT ![c].pc = "send", ![c].session = current]
        /\ UNCHANGED <<last, session, lock>>
     \/ /\ current = None /\ last < MaxSessions
        /\ last' = last + 1
        /\ session' = [session EXCEPT ![last + 1] = "starting"]
        /\ lock' = c
        /\ call' = [call EXCEPT ![c].pc = "start", ![c].session = last + 1]
  /\ UNCHANGED <<current, stream, slots>>

\* task_group.start returns: by now the session may have failed again.
Started(c) ==
  LET s == call[c].session
  IN /\ call[c].pc = "start"
     /\ session[s] # "starting"
     /\ lock' = Nobody
     /\ \/ /\ session[s] # "refused"
           /\ current' = s
           /\ Goes(c, "send")
        \/ /\ session[s] = "refused"
           /\ Goes(c, "lost")
           /\ UNCHANGED current
     /\ UNCHANGED <<last, session, stream, slots>>

\* The session has failed, its stream is closed, or the request is in it.
Sends(c) ==
  LET s == call[c].session
  IN /\ call[c].pc = "send"
     /\ \/ /\ session[s] \in {"failed", "ended"}
           /\ Goes(c, "lost")
           /\ UNCHANGED stream
        \/ /\ session[s] = "closing"
           /\ Goes(c, "discard")
           /\ UNCHANGED stream
        \/ /\ session[s] = "up"
           /\ stream' = [stream EXCEPT ![s] = Append(@, c)]
           /\ call' = [call EXCEPT ![c].pc = "wait", ![c].task = "queued"]
     /\ UNCHANGED <<current, last, session, lock, slots>>

Hears(c) ==
  /\ call[c].pc = "wait"
  /\ \/ call[c].reply = "ok" /\ Goes(c, "told")
     \/ call[c].reply = "failed" /\ Goes(c, "discard")
  /\ UNCHANGED <<current, last, session, lock, stream, slots>>

\* Slip: the name is freed without the lock, while a session may be starting.
FreesAtOnce(s) == current' = IF current = s THEN None ELSE current

\* _discard_session: only the session that failed is dropped, under the lock.
Frees(s) == lock = Nobody /\ current' = IF current = s THEN None ELSE current

Discards(c) ==
  /\ call[c].pc = "discard"
  /\ Frees(call[c].session)
  /\ Goes(c, "lost")
  /\ UNCHANGED <<last, session, lock, stream, slots>>

\* Slip: a request gives a slot back that it has not got yet.
TimesOutFrees(c) ==
  LET s == call[c].session
  IN /\ call[c].pc = "wait"
     /\ call' = [call EXCEPT ![c].pc = "lost", ![c].task = "done"]
     /\ slots' = [slots EXCEPT ![s] = @ + 1]
     /\ UNCHANGED <<current, last, session, lock, stream>>

\* The time limit of a call ends its request and nothing else: what runs is
\* cancelled and gives its slot back, what is queued is left to be skipped,
\* and a session that only this call has waited for is not started.
TimesOut(c) ==
  LET s == call[c].session
  IN /\ call[c].pc \in {"session", "start", "send", "wait", "discard"}
     /\ call' = [call EXCEPT ![c].pc = "lost",
                             ![c].task = IF @ = "running" THEN "done" ELSE @]
     /\ slots' = IF call[c].task = "running" THEN [slots EXCEPT ![s] = @ + 1]
                 ELSE slots
     /\ IF call[c].pc = "start"
        THEN /\ lock' = Nobody
             /\ session' = [session EXCEPT ![s] = "refused"]
        ELSE UNCHANGED <<lock, session>>
     /\ UNCHANGED <<current, last, stream>>

-----------------------------------------------------------------------------
(* The task of a session: _serve_session and dispatch.                     *)

\* The handshake is done, or fails, and with it the start.
Serves(s) ==
  /\ session[s] = "starting"
  /\ \E state \in {"up", "refused"} : session' = [session EXCEPT ![s] = state]
  /\ UNCHANGED <<current, last, lock, stream, slots, call>>

\* Requests are taken in order while there are slots.
Admits(s) ==
  /\ session[s] = "up"
  /\ stream[s] # <<>>
  /\ slots[s] > 0
  /\ slots' = [slots EXCEPT ![s] = @ - 1]
  /\ call' = [call EXCEPT ![Head(stream[s])].task = "admitted"]
  /\ stream' = [stream EXCEPT ![s] = Tail(@)]
  /\ UNCHANGED <<current, last, session, lock>>

\* Slip: a request is carried out although nobody waits for it any more.
RunsAll(c) ==
  /\ call[c].task = "admitted"
  /\ session[call[c].session] = "up"
  /\ call' = [call EXCEPT ![c].task = "running", ![c].runs = @ + 1]
  /\ UNCHANGED <<current, last, session, lock, stream, slots>>

\* A request is sent to the upstream if its call still waits, or skipped.
Runs(c) ==
  LET s == call[c].session
  IN /\ call[c].task = "admitted"
     /\ session[s] = "up"
     /\ \/ /\ call[c].pc = "wait"
           /\ call' = [call EXCEPT ![c].task = "running", ![c].runs = @ + 1]
           /\ UNCHANGED slots
        \/ /\ call[c].pc # "wait"
           /\ call' = [call EXCEPT ![c].task = "done"]
           /\ slots' = [slots EXCEPT ![s] = @ + 1]
     /\ UNCHANGED <<current, last, session, lock, stream>>

Replies(c) ==
  LET s == call[c].session
  IN /\ call[c].task = "running"
     /\ session[s] = "up"
     /\ call' = [call EXCEPT ![c].task = "done", ![c].reply = "ok"]
     /\ slots' = [slots EXCEPT ![s] = @ + 1]
     /\ UNCHANGED <<current, last, session, lock, stream>>

\* The upstream fails, with a request under way or without: every request that
\* was admitted is cancelled, and the stream is closed.
Breaks(s) ==
  /\ session[s] = "up"
  /\ session' = [session EXCEPT ![s] = "closing"]
  /\ call' = [c \in Calls |->
                IF call[c].session = s /\ call[c].task \in {"admitted", "running"}
                THEN [call[c] EXCEPT !.task = "done"] ELSE call[c]]
  /\ UNCHANGED <<current, last, lock, stream, slots>>

\* Slip: only the requests that were admitted are told.
TellsAdmitted(s) ==
  /\ session[s] = "closing"
  /\ session' = [session EXCEPT ![s] = "failed"]
  /\ call' = [c \in Calls |->
                IF /\ call[c].session = s /\ call[c].pc = "wait"
                   /\ call[c].reply = "none" /\ call[c].task = "done"
                THEN [call[c] EXCEPT !.reply = "failed"] ELSE call[c]]
  /\ UNCHANGED <<current, last, lock, stream, slots>>

\* Once the upstream's process has ended, the failure is on the session and
\* is the reply of every request that has none, the ones in the stream too.
Tells(s) ==
  /\ session[s] = "closing"
  /\ session' = [session EXCEPT ![s] = "failed"]
  /\ call' = [c \in Calls |->
                IF /\ call[c].session = s /\ call[c].pc = "wait"
                   /\ call[c].reply = "none"
                THEN [call[c] EXCEPT !.reply = "failed"] ELSE call[c]]
  /\ UNCHANGED <<current, last, lock, stream, slots>>

\* The task ends when it has freed the name.
SessionEnds(s) ==
  /\ session[s] = "failed"
  /\ Frees(s)
  /\ session' = [session EXCEPT ![s] = "ended"]
  /\ UNCHANGED <<last, lock, stream, slots, call>>

\* Of a call, and of the task that has its request.
CallStep(c) ==
  \/ TakesSession(c) \/ Started(c) \/ Sends(c) \/ Hears(c) \/ Discards(c)
  \/ Runs(c) \/ Replies(c)

SessionStep(s) == Serves(s) \/ Admits(s) \/ Tells(s) \/ SessionEnds(s)

AtRest ==
  /\ \A c \in Calls : call[c].pc \in {"told", "lost"}
  /\ UNCHANGED vars

\* No session is left to be started: the bound.
OutOfSessions ==
  /\ current = None /\ last = MaxSessions /\ lock = Nobody
  /\ UNCHANGED vars

Next ==
  \/ \E c \in Calls : CallStep(c) \/ TimesOut(c)
  \/ \E s \in Sessions : SessionStep(s) \/ Breaks(s)
  \/ AtRest \/ OutOfSessions

Spec == Init /\ [][Next]_vars

\* The tasks of the loop run, and the upstream, here, answers what it does not
\* fail: no call needs its time limit.
FairSpec ==
  /\ Spec
  /\ \A c \in Calls : WF_vars(CallStep(c))
  /\ \A s \in Sessions : WF_vars(SessionStep(s))

-----------------------------------------------------------------------------
(* Properties.                                                             *)

\* A request is carried out once at most, and is begun only while its call
\* waits for it: neither a time limit that has passed in the stream nor a
\* session that has failed has it carried out behind the caller's back.
RunsWhileWanted ==
  [][\A c \in Calls :
       call'[c].runs # call[c].runs => call[c].runs = 0 /\ call[c].pc = "wait"]_vars

\* A session that has failed does not keep the server's name: the calls that
\* would find it there would all fail.
DeadSessionIsDropped == current # None => session[current] # "ended"

\* A call whose request is with a session hears of it: of a reply, or that the
\* session has failed.
WaitingEnds == <>[](\A c \in Calls : call[c].pc # "wait")
=============================================================================
