-------------------------- MODULE WarmSession_proofs --------------------------
(***************************************************************************)
(* What holds of WarmSession for all calls, slots, sessions and failures.  *)
(***************************************************************************)
EXTENDS WarmSession, FiniteSetTheorems, TLAPS

\* Nobody is not a call; the bounds are numbers.
Assumed == Nobody \notin Calls /\ MaxSessions \in Nat /\ Slots \in Nat

\* A call that starts a session has the lock until it hears how that went, and
\* its session cannot have ended by then.
StartsLocked ==
  \A c \in Calls :
    call[c].pc = "start" => lock = c /\ session[call[c].session] # "ended"

\* Where a call is, and its request: nothing was made of a request before it
\* was put in a stream, and it was not carried out before it was admitted.
RequestShape ==
  \A c \in Calls :
    /\ call[c].pc \in {"start", "send"} \/ call[c].task # "none" =>
         call[c].session \in Sessions
    /\ call[c].pc \in {"session", "start", "send"} => call[c].task = "none"
    /\ call[c].task \in {"none", "queued", "admitted"} => call[c].runs = 0

\* A stream has the requests of its session that are queued, each once.
StreamShape ==
  \A s \in Sessions :
    /\ stream[s] \in Seq(Calls)
    /\ \A i \in 1..Len(stream[s]) :
         call[stream[s][i]].task = "queued" /\ call[stream[s][i]].session = s
    /\ \A i, j \in 1..Len(stream[s]) : stream[s][i] = stream[s][j] => i = j

WarmCall ==
  [pc : {"session", "start", "send", "wait", "discard", "told", "lost"},
   session : Sessions \cup {None},
   task : {"none", "queued", "admitted", "running", "done"},
   reply : {"none", "ok", "failed"},
   runs : 0..2]

\* Types, but for the slots of a session.
WarmKinds ==
  /\ current \in Sessions \cup {None}
  /\ last \in Sessions \cup {None}
  /\ session \in [Sessions -> {"none", "starting", "refused", "up", "closing",
                               "failed", "ended"}]
  /\ lock \in Calls \cup {Nobody}
  /\ DOMAIN stream = Sessions
  /\ slots \in [Sessions -> Int]
  /\ call \in [Calls -> WarmCall]

\* The requests that a session has admitted and is not done with.
Admitted(s) ==
  {c \in Calls : call[c].session = s /\ call[c].task \in {"admitted", "running"}}

\* Each has a slot of the session's.
SlotsCounted ==
  \A s \in Sessions :
    /\ IsFiniteSet(Admitted(s)) /\ slots[s] >= 0
    /\ slots[s] + Cardinality(Admitted(s)) <= Slots

WarmInv ==
  /\ WarmKinds /\ DeadSessionIsDropped /\ StartsLocked
  /\ RequestShape /\ StreamShape /\ SlotsCounted

LEMMA SessionNumbers == ASSUME MaxSessions \in Nat PROVE None \notin Sessions
BY DEF None, Sessions

LEMMA WarmInit == ASSUME MaxSessions \in Nat, Slots \in Nat, Init PROVE WarmInv
<1>1. /\ NewCall \in WarmCall /\ NewCall.pc = "session" /\ NewCall.task = "none"
      /\ NewCall.runs = 0
  BY DEF NewCall, WarmCall, None
<1>2. \A c \in Calls : call[c] = NewCall
  BY DEF Init
<1>3. WarmKinds
  BY <1>1 DEF Init, WarmKinds
<1>4. StartsLocked /\ RequestShape
  BY <1>1, <1>2 DEF StartsLocked, RequestShape
<1>5. StreamShape
  BY DEF Init, StreamShape
<1>6. SlotsCounted
  <2>1. \A s \in Sessions : Admitted(s) = {} /\ slots[s] = Slots
    BY <1>1, <1>2 DEF Admitted, Init
  <2>2. QED  BY <2>1, FS_EmptySet DEF SlotsCounted
<1>7. QED  BY <1>3, <1>4, <1>5, <1>6 DEF WarmInv, DeadSessionIsDropped, Init

\* What one call does, to itself alone, and to the slots of its session when it
\* is done with.
LEMMA OneCall ==
  ASSUME WarmInv, MaxSessions \in Nat, Slots \in Nat, Nobody \notin Calls,
         NEW c \in Calls, NEW e \in WarmCall,
         call' = [call EXCEPT ![c] = e],
         e.pc \in {"start", "send"} \/ e.task # "none" => e.session \in Sessions,
         e.pc \in {"session", "start", "send"} => e.task = "none",
         e.task \in {"none", "queued", "admitted"} => e.runs = 0,
         \/ e.session = call[c].session /\ (call[c].task = "queued" => e.task = "queued")
         \/ call[c].task = "none",
         e.task \in {"admitted", "running"} =>
           call[c].task \in {"admitted", "running"} /\ e.session = call[c].session,
         \/ UNCHANGED slots
         \/ /\ call[c].task \in {"admitted", "running"} /\ e.task = "done"
            /\ slots' = [slots EXCEPT ![call[c].session] = @ + 1],
         UNCHANGED stream
  PROVE  RequestShape' /\ StreamShape' /\ SlotsCounted'
<1> USE DEF WarmInv
<1>1. /\ call'[c] = e
      /\ \A d \in Calls \ {c} : call'[d] = call[d]
  BY DEF WarmKinds
<1>2. RequestShape'
  BY <1>1 DEF RequestShape
<1>3. StreamShape'
  <2> SUFFICES ASSUME NEW s \in Sessions, NEW i \in 1..Len(stream[s])
               PROVE  call'[stream[s][i]].task = "queued" /\ call'[stream[s][i]].session = s
    BY SMTT(30) DEF StreamShape
  <2>1. /\ stream[s][i] \in Calls /\ call[stream[s][i]].task = "queued"
        /\ call[stream[s][i]].session = s
    BY DEF StreamShape
  <2>2. QED  BY <1>1, <2>1
<1>4. SlotsCounted'
  <2> SUFFICES ASSUME NEW s \in Sessions
               PROVE  /\ IsFiniteSet(Admitted(s)') /\ slots'[s] >= 0
                      /\ slots'[s] + Cardinality(Admitted(s)') <= Slots
    BY DEF SlotsCounted
  <2>1. /\ IsFiniteSet(Admitted(s)) /\ slots[s] \in Int /\ slots[s] >= 0
        /\ slots[s] + Cardinality(Admitted(s)) <= Slots
        /\ Cardinality(Admitted(s)) \in Nat
    BY FS_CardinalityType DEF SlotsCounted, WarmKinds
  <2>2. Admitted(s)' \subseteq Admitted(s)
    BY <1>1 DEF Admitted
  <2>3. /\ IsFiniteSet(Admitted(s)') /\ Cardinality(Admitted(s)') \in Nat
        /\ Cardinality(Admitted(s)') <= Cardinality(Admitted(s))
    BY <2>1, <2>2, FS_Subset, FS_CardinalityType
  <2>4. CASE slots'[s] = slots[s]
    BY <2>1, <2>3, <2>4
  <2>5. CASE slots'[s] # slots[s]
    <3>1. /\ call[c].task \in {"admitted", "running"} /\ e.task = "done"
          /\ call[c].session = s /\ slots'[s] = slots[s] + 1
      BY <2>1, <2>5 DEF WarmKinds
    <3>2. c \in Admitted(s) /\ Admitted(s)' = Admitted(s) \ {c}
      BY <1>1, <3>1 DEF Admitted
    <3>3. Cardinality(Admitted(s)') = Cardinality(Admitted(s)) - 1
      BY ZenonT(60), <2>1, <3>2, FS_RemoveElement
    <3>4. QED  BY <2>1, <2>3, <3>1, <3>3
  <2>6. QED  BY <2>4, <2>5
<1>5. QED  BY <1>2, <1>3, <1>4

LEMMA StepsWarm ==
  ASSUME WarmInv, MaxSessions \in Nat, Slots \in Nat, Nobody \notin Calls,
         NEW c \in Calls,
         \/ TakesSession(c) \/ Started(c) \/ Hears(c) \/ Discards(c) \/ Runs(c)
         \/ Replies(c) \/ TimesOut(c)
  PROVE  WarmInv'
<1> USE DEF WarmInv
<1>1. /\ call[c] \in WarmCall /\ call \in [Calls -> WarmCall]
      /\ session \in [Sessions -> {"none", "starting", "refused", "up", "closing",
                                   "failed", "ended"}]
  BY DEF WarmKinds
<1>2. CASE TakesSession(c)
  <2> USE DEF TakesSession
  <2>1. CASE current # None /\ call' = [call EXCEPT ![c].pc = "send", ![c].session = current]
             /\ UNCHANGED <<last, session, lock>>
    <3> DEFINE e == [call[c] EXCEPT !.pc = "send", !.session = current]
    <3>1. /\ e \in WarmCall /\ e.pc = "send" /\ e.session = current
          /\ e.task = call[c].task /\ e.runs = call[c].runs
      BY <1>1 DEF WarmCall, WarmKinds
    <3>2. call' = [call EXCEPT ![c] = e]
      BY <2>1
    <3>3. call[c].task = "none" /\ call[c].runs = 0 /\ current \in Sessions
      BY <1>2, <2>1 DEF RequestShape, WarmKinds
    <3> HIDE DEF e
    <3>4. RequestShape' /\ StreamShape' /\ SlotsCounted'
      BY <1>2, <3>1, <3>2, <3>3, OneCall
    <3>5. WarmKinds' /\ DeadSessionIsDropped' /\ StartsLocked'
      BY <1>1, <1>2, <2>1, <3>1, <3>2 DEF WarmKinds, DeadSessionIsDropped, StartsLocked
    <3>6. QED  BY <3>4, <3>5
  <2>2. CASE /\ current = None /\ last < MaxSessions /\ last' = last + 1
             /\ session' = [session EXCEPT ![last + 1] = "starting"] /\ lock' = c
             /\ call' = [call EXCEPT ![c].pc = "start", ![c].session = last + 1]
    <3> DEFINE e == [call[c] EXCEPT !.pc = "start", !.session = last + 1]
    <3>1. last + 1 \in Sessions
      BY <2>2 DEF WarmKinds, Sessions, None
    <3>2. /\ e \in WarmCall /\ e.pc = "start" /\ e.session = last + 1
          /\ e.task = call[c].task /\ e.runs = call[c].runs
      BY <1>1, <3>1 DEF WarmCall
    <3>3. call' = [call EXCEPT ![c] = e]
      BY <2>2
    <3>4. call[c].task = "none" /\ call[c].runs = 0
      BY <1>2 DEF RequestShape
    <3> HIDE DEF e
    <3>5. RequestShape' /\ StreamShape' /\ SlotsCounted'
      BY <1>2, <3>1, <3>2, <3>3, <3>4, OneCall
    <3>6. WarmKinds'
      BY <1>2, <2>2, <3>1, <3>2, <3>3 DEF WarmKinds
    <3>7. DeadSessionIsDropped'
      BY <1>2, <2>2 DEF DeadSessionIsDropped
    <3>8. StartsLocked'
      BY <1>1, <1>2, <2>2, <3>1, <3>2, <3>3 DEF StartsLocked
    <3>9. QED  BY <3>5, <3>6, <3>7, <3>8
  <2>3. QED  BY <1>2, <2>1, <2>2
<1>3. CASE Started(c)
  <2> DEFINE s == call[c].session
  <2> USE DEF Started
  <2>1. PICK pc \in {"send", "lost"} : Goes(c, pc)
    BY <1>3
  <2> DEFINE e == [call[c] EXCEPT !.pc = pc]
  <2>2. /\ e \in WarmCall /\ e.pc = pc /\ e.session = call[c].session
        /\ e.task = call[c].task /\ e.runs = call[c].runs
    BY <1>1 DEF WarmCall
  <2>3. call' = [call EXCEPT ![c] = e]
    BY <2>1 DEF Goes
  <2>4. call[c].task = "none" /\ call[c].runs = 0 /\ s \in Sessions
    BY <1>3 DEF RequestShape
  <2> HIDE DEF e
  <2>5. RequestShape' /\ StreamShape' /\ SlotsCounted'
    BY <1>3, <2>2, <2>3, <2>4, OneCall
  <2>6. session[s] # "ended" /\ lock = c
    BY <1>3 DEF StartsLocked
  <2>7. WarmKinds'
    BY <1>3, <2>2, <2>3, <2>4 DEF WarmKinds
  <2>8. DeadSessionIsDropped'
    BY <1>3, <2>6 DEF DeadSessionIsDropped
  <2>9. StartsLocked'
    BY <1>1, <1>3, <2>2, <2>3, <2>6 DEF StartsLocked
  <2>10. QED  BY <2>5, <2>7, <2>8, <2>9
<1>4. CASE Hears(c) \/ Discards(c)
  <2>1. PICK pc \in {"told", "discard", "lost"} : Goes(c, pc)
    BY <1>4 DEF Hears, Discards
  <2> DEFINE e == [call[c] EXCEPT !.pc = pc]
  <2>2. /\ e \in WarmCall /\ e.pc = pc /\ e.session = call[c].session
        /\ e.task = call[c].task /\ e.runs = call[c].runs
    BY <1>1 DEF WarmCall
  <2>3. call' = [call EXCEPT ![c] = e]
    BY <2>1 DEF Goes
  <2>4. e.task # "none" => e.session \in Sessions
    BY <2>2 DEF RequestShape
  <2>5. e.task \in {"none", "queued", "admitted"} => e.runs = 0
    BY <2>2 DEF RequestShape
  <2>6. /\ UNCHANGED <<last, session, lock, stream, slots>>
        /\ current' \in {current, None}
    BY <1>4 DEF Hears, Discards, Frees
  <2> HIDE DEF e
  <2>7. RequestShape' /\ StreamShape' /\ SlotsCounted'
    BY <2>2, <2>3, <2>4, <2>5, <2>6, OneCall
  <2>8. WarmKinds' /\ DeadSessionIsDropped' /\ StartsLocked'
    BY <1>1, <2>2, <2>3, <2>6 DEF WarmKinds, DeadSessionIsDropped, StartsLocked
  <2>9. QED  BY <2>7, <2>8
<1>5. CASE Runs(c) \/ Replies(c)
  <2>1. PICK task \in {"running", "done"}, runs \in {call[c].runs, call[c].runs + 1},
             reply \in {call[c].reply, "ok"} :
          /\ call' = [call EXCEPT ![c] = [@ EXCEPT !.task = task, !.runs = runs,
                                                   !.reply = reply]]
          /\ runs # call[c].runs => call[c].task = "admitted"
          /\ task = "done" => slots' = [slots EXCEPT ![call[c].session] = @ + 1]
          /\ task = "running" => UNCHANGED slots
    <3>1. CASE call' = [call EXCEPT ![c].task = "running", ![c].runs = @ + 1]
               /\ call[c].task = "admitted" /\ UNCHANGED slots
      <4>1. [call[c] EXCEPT !.task = "running", !.runs = @ + 1]
              = [call[c] EXCEPT !.task = "running", !.runs = call[c].runs + 1,
                                !.reply = call[c].reply]
        BY <1>1 DEF WarmCall
      <4>2. call' = [call EXCEPT ![c] = [@ EXCEPT !.task = "running",
                                                  !.runs = call[c].runs + 1,
                                                  !.reply = call[c].reply]]
        BY <3>1, <4>1
      <4>3. QED  BY <3>1, <4>2
    <3>2. CASE call' = [call EXCEPT ![c].task = "done"]
               /\ slots' = [slots EXCEPT ![call[c].session] = @ + 1]
      <4>1. [call[c] EXCEPT !.task = "done"]
              = [call[c] EXCEPT !.task = "done", !.runs = call[c].runs,
                                !.reply = call[c].reply]
        BY <1>1 DEF WarmCall
      <4>2. QED  BY <3>2, <4>1
    <3>3. CASE call' = [call EXCEPT ![c].task = "done", ![c].reply = "ok"]
               /\ slots' = [slots EXCEPT ![call[c].session] = @ + 1]
      <4>1. [call[c] EXCEPT !.task = "done", !.reply = "ok"]
              = [call[c] EXCEPT !.task = "done", !.runs = call[c].runs,
                                !.reply = "ok"]
        BY <1>1 DEF WarmCall
      <4>2. QED  BY ZenonT(60), <3>3, <4>1
    <3>4. QED  BY <1>5, <3>1, <3>2, <3>3 DEF Runs, Replies
  <2> DEFINE e == [call[c] EXCEPT !.task = task, !.runs = runs, !.reply = reply]
  <2>2. /\ call[c].task \in {"admitted", "running"}
        /\ UNCHANGED <<current, last, session, lock, stream>>
    BY <1>5 DEF Runs, Replies
  <2>3. call[c].task = "admitted" => call[c].runs = 0
    BY DEF RequestShape
  <2>4. runs \in 0..2
    BY <1>1, <2>1, <2>3 DEF WarmCall
  <2>5. /\ e \in WarmCall /\ e.task = task /\ e.runs = runs
        /\ e.pc = call[c].pc /\ e.session = call[c].session
    BY <1>1, <2>4 DEF WarmCall
  <2>6. call' = [call EXCEPT ![c] = e]
    BY <2>1
  <2>7. e.session \in Sessions /\ e.pc \notin {"session", "start", "send"}
    BY <2>2, <2>5 DEF RequestShape
  <2> HIDE DEF e
  <2>8. RequestShape' /\ StreamShape' /\ SlotsCounted'
    BY <2>1, <2>2, <2>5, <2>6, <2>7, OneCall
  <2>9. slots' \in [Sessions -> Int]
    BY <2>1 DEF WarmKinds
  <2>10. WarmKinds' /\ DeadSessionIsDropped' /\ StartsLocked'
    BY <1>1, <2>2, <2>5, <2>6, <2>9 DEF WarmKinds, DeadSessionIsDropped, StartsLocked
  <2>11. QED  BY <2>8, <2>10
<1>6. CASE TimesOut(c)
  <2> USE DEF TimesOut
  <2>1. PICK task \in {"done", call[c].task} :
          /\ call' = [call EXCEPT ![c] = [@ EXCEPT !.pc = "lost", !.task = task]]
          /\ task # call[c].task => call[c].task = "running"
          /\ call[c].task = "running" => task = "done"
    BY <1>6
  <2> DEFINE e == [call[c] EXCEPT !.pc = "lost", !.task = task]
  <2>2. /\ e \in WarmCall /\ e.task = task /\ e.runs = call[c].runs
        /\ e.pc = "lost" /\ e.session = call[c].session
    BY <1>1, <2>1 DEF WarmCall
  <2>3. call' = [call EXCEPT ![c] = e]
    BY <2>1
  <2>4. /\ e.task # "none" => e.session \in Sessions
        /\ e.task \in {"none", "queued", "admitted"} => e.runs = 0
    BY <2>1, <2>2 DEF RequestShape
  <2>5. \/ call[c].task # "running" /\ UNCHANGED slots
        \/ /\ call[c].task = "running" /\ e.task = "done"
           /\ slots' = [slots EXCEPT ![call[c].session] = @ + 1]
    BY <1>6, <2>1, <2>2
  <2>6. /\ e.session = call[c].session /\ (call[c].task = "queued" => e.task = "queued")
        /\ e.task \in {"admitted", "running"} => call[c].task \in {"admitted", "running"}
        /\ UNCHANGED stream
    BY <1>6, <2>1, <2>2
  <2> HIDE DEF e, TimesOut
  <2>7. RequestShape' /\ StreamShape' /\ SlotsCounted'
    BY <2>2, <2>3, <2>4, <2>5, <2>6, OneCall
  <2>8. slots' \in [Sessions -> Int]
    BY <2>5 DEF WarmKinds
  <2>9. /\ UNCHANGED <<current, last, stream>>
        /\ \/ call[c].pc # "start" /\ UNCHANGED <<lock, session>>
           \/ /\ call[c].pc = "start" /\ lock' = Nobody
              /\ session' = [session EXCEPT ![call[c].session] = "refused"]
    BY <1>6 DEF TimesOut
  <2>10. WarmKinds' /\ DeadSessionIsDropped'
    BY <1>1, <2>2, <2>3, <2>8, <2>9 DEF WarmKinds, DeadSessionIsDropped
  <2>11. StartsLocked'
    BY <1>1, <2>2, <2>3, <2>9 DEF StartsLocked
  <2>12. QED  BY <2>7, <2>10, <2>11
<1>7. QED  BY <1>2, <1>3, <1>4, <1>5, <1>6

LEMMA SendsWarm ==
  ASSUME WarmInv, MaxSessions \in Nat, Slots \in Nat, Nobody \notin Calls,
         NEW c \in Calls, Sends(c)
  PROVE  WarmInv'
<1> USE DEF WarmInv
<1>1. /\ call[c] \in WarmCall /\ call \in [Calls -> WarmCall]
      /\ call[c].session \in Sessions /\ call[c].pc = "send"
      /\ call[c].task = "none" /\ call[c].runs = 0
      /\ UNCHANGED <<current, last, session, lock, slots>>
  BY DEF Sends, WarmKinds, RequestShape
<1>2. ASSUME NEW pc \in {"lost", "discard"}, Goes(c, pc), UNCHANGED stream
      PROVE  WarmInv'
  <2> DEFINE e == [call[c] EXCEPT !.pc = pc]
  <2>1. /\ e \in WarmCall /\ e.pc = pc /\ e.session = call[c].session
        /\ e.task = "none" /\ e.runs = 0
    BY <1>1 DEF WarmCall
  <2>2. call' = [call EXCEPT ![c] = e]
    BY <1>2 DEF Goes
  <2> HIDE DEF e
  <2>3. RequestShape' /\ StreamShape' /\ SlotsCounted'
    BY <1>1, <1>2, <2>1, <2>2, OneCall
  <2>4. WarmKinds' /\ DeadSessionIsDropped' /\ StartsLocked'
    BY <1>1, <1>2, <2>1, <2>2 DEF WarmKinds, DeadSessionIsDropped, StartsLocked
  <2>5. QED  BY <2>3, <2>4
<1>3. ASSUME stream' = [stream EXCEPT ![call[c].session] = Append(@, c)],
             call' = [call EXCEPT ![c].pc = "wait", ![c].task = "queued"]
      PROVE  WarmInv'
  <2> DEFINE t == call[c].session
             e == [call[c] EXCEPT !.pc = "wait", !.task = "queued"]
  <2>1. /\ e \in WarmCall /\ e.pc = "wait" /\ e.session = t
        /\ e.task = "queued" /\ e.runs = 0
    BY <1>1 DEF WarmCall
  <2>2. call' = [call EXCEPT ![c] = e] /\ t \in Sessions
    BY <1>1, <1>3
  <2>3. call'[c] = e /\ \A d \in Calls \ {c} : call'[d] = call[d]
    BY <1>1, <2>2
  <2> HIDE DEF e
  <2>4. RequestShape'
    BY <2>1, <2>2, <2>3 DEF RequestShape
  <2>5. StreamShape'
    <3> SUFFICES ASSUME NEW s \in Sessions
                 PROVE  /\ stream'[s] \in Seq(Calls)
                        /\ \A i \in 1..Len(stream'[s]) :
                             /\ call'[stream'[s][i]].task = "queued"
                             /\ call'[stream'[s][i]].session = s
                        /\ \A i, j \in 1..Len(stream'[s]) :
                             stream'[s][i] = stream'[s][j] => i = j
      BY DEF StreamShape
    <3>1. /\ stream[s] \in Seq(Calls)
          /\ \A i \in 1..Len(stream[s]) :
               /\ stream[s][i] \in Calls /\ stream[s][i] # c
               /\ call[stream[s][i]].task = "queued" /\ call[stream[s][i]].session = s
          /\ \A i, j \in 1..Len(stream[s]) : stream[s][i] = stream[s][j] => i = j
      BY <1>1 DEF StreamShape
    <3>2. CASE s # t
      <4>1. stream'[s] = stream[s]
        BY <1>3, <3>2 DEF WarmKinds
      <4>2. QED  BY <2>3, <3>1, <4>1
    <3>3. CASE s = t
      <4>1. stream'[s] = Append(stream[s], c)
        BY <1>3, <3>3 DEF WarmKinds
      <4>2. /\ stream'[s] \in Seq(Calls) /\ Len(stream'[s]) = Len(stream[s]) + 1
            /\ Len(stream[s]) \in Nat
            /\ stream'[s][Len(stream[s]) + 1] = c
            /\ \A i \in 1..Len(stream[s]) : stream'[s][i] = stream[s][i]
        BY <3>1, <4>1
      <4>3. \A i \in 1..Len(stream'[s]) : i \in 1..Len(stream[s]) \/ i = Len(stream[s]) + 1
        BY <4>2
      <4>4. \A i \in 1..Len(stream'[s]) :
              call'[stream'[s][i]].task = "queued" /\ call'[stream'[s][i]].session = s
        <5> SUFFICES ASSUME NEW i \in 1..Len(stream'[s])
                     PROVE  /\ call'[stream'[s][i]].task = "queued"
                            /\ call'[stream'[s][i]].session = s
          OBVIOUS
        <5>1. CASE i \in 1..Len(stream[s])
          BY <2>3, <3>1, <4>2, <5>1
        <5>2. CASE i = Len(stream[s]) + 1
          BY <2>1, <2>3, <3>3, <4>2, <5>2
        <5>3. QED  BY <4>3, <5>1, <5>2
      <4>5. \A i, j \in 1..Len(stream'[s]) : stream'[s][i] = stream'[s][j] => i = j
        BY <3>1, <4>2, <4>3
      <4>6. QED  BY <4>2, <4>4, <4>5
    <3>4. QED  BY <3>2, <3>3
  <2>6. SlotsCounted'
    <3>1. \A s \in Sessions : Admitted(s)' = Admitted(s)
      BY <1>1, <2>1, <2>3 DEF Admitted
    <3>2. QED  BY <1>1, <3>1 DEF SlotsCounted
  <2>7. WarmKinds' /\ DeadSessionIsDropped' /\ StartsLocked'
    BY ZenonT(60), <1>1, <1>3, <2>1, <2>2 DEF WarmKinds, DeadSessionIsDropped, StartsLocked
  <2>8. QED  BY <2>4, <2>5, <2>6, <2>7
<1>4. QED  BY <1>2, <1>3 DEF Sends

LEMMA AdmitsWarm ==
  ASSUME WarmInv, MaxSessions \in Nat, Slots \in Nat, NEW t \in Sessions, Admits(t)
  PROVE  WarmInv'
<1> USE DEF WarmInv
<1> DEFINE c == Head(stream[t])
           e == [call[c] EXCEPT !.task = "admitted"]
<1>1. /\ stream[t] # <<>> /\ stream[t] \in Seq(Calls) /\ slots[t] > 0
      /\ UNCHANGED <<current, last, session, lock>>
      /\ stream' = [stream EXCEPT ![t] = Tail(@)]
      /\ slots' = [slots EXCEPT ![t] = @ - 1]
      /\ call' = [call EXCEPT ![c].task = "admitted"]
  BY DEF Admits, StreamShape
<1>2. c \in Calls /\ c = stream[t][1] /\ 1 \in 1..Len(stream[t])
  BY <1>1
<1>3. call[c].task = "queued" /\ call[c].session = t /\ call[c].runs = 0
  BY <1>2 DEF StreamShape, RequestShape
<1>4. call[c].pc \notin {"session", "start", "send"}
  BY <1>2, <1>3 DEF RequestShape
<1>5. call[c] \in WarmCall /\ call \in [Calls -> WarmCall]
  BY <1>2 DEF WarmKinds
<1>6. /\ e \in WarmCall /\ e.pc = call[c].pc /\ e.session = t
      /\ e.task = "admitted" /\ e.runs = 0
  BY <1>3, <1>5 DEF WarmCall
<1>7. /\ call' = [call EXCEPT ![c] = e]
      /\ call'[c] = e /\ \A d \in Calls \ {c} : call'[d] = call[d]
  BY <1>1, <1>2, <1>5
<1> HIDE DEF e, c
<1>8. RequestShape'
  BY <1>2, <1>3, <1>4, <1>6, <1>7 DEF RequestShape
<1>9. StreamShape'
  <2> SUFFICES ASSUME NEW s \in Sessions
               PROVE  /\ stream'[s] \in Seq(Calls)
                      /\ \A i \in 1..Len(stream'[s]) :
                           /\ call'[stream'[s][i]].task = "queued"
                           /\ call'[stream'[s][i]].session = s
                      /\ \A i, j \in 1..Len(stream'[s]) :
                           stream'[s][i] = stream'[s][j] => i = j
    BY DEF StreamShape
  <2>1. /\ stream[s] \in Seq(Calls)
        /\ \A i \in 1..Len(stream[s]) :
             /\ stream[s][i] \in Calls
             /\ call[stream[s][i]].task = "queued" /\ call[stream[s][i]].session = s
        /\ \A i, j \in 1..Len(stream[s]) : stream[s][i] = stream[s][j] => i = j
    BY DEF StreamShape
  <2>2. CASE s # t
    <3>1. stream'[s] = stream[s] /\ \A i \in 1..Len(stream[s]) : stream[s][i] # c
      BY <1>1, <1>3, <2>1, <2>2 DEF WarmKinds
    <3>2. QED  BY <1>7, <2>1, <3>1
  <2>3. CASE s = t
    <3>1. stream'[s] = Tail(stream[s])
      BY <1>1, <2>3 DEF WarmKinds
    <3>2. /\ stream'[s] \in Seq(Calls) /\ Len(stream'[s]) = Len(stream[s]) - 1
          /\ Len(stream[s]) \in Nat
          /\ \A i \in 1..Len(stream'[s]) :
               stream'[s][i] = stream[s][i + 1] /\ i + 1 \in 1..Len(stream[s])
      <4> DEFINE q == stream[s]
      <4>1. q # <<>> /\ q \in Seq(Calls)
        BY <1>1, <2>3
      <4> HIDE DEF q
      <4>2. /\ Tail(q) \in Seq(Calls) /\ Len(Tail(q)) = Len(q) - 1 /\ Len(q) \in Nat
            /\ \A i \in 1..Len(Tail(q)) : Tail(q)[i] = q[i + 1] /\ i + 1 \in 1..Len(q)
        BY <4>1
      <4>3. QED  BY <3>1, <4>2 DEF q
    <3>3. \A i \in 1..Len(stream'[s]) : stream'[s][i] # c
      BY <1>2, <2>1, <2>3, <3>2
    <3>4. \A i \in 1..Len(stream'[s]) :
            call'[stream'[s][i]].task = "queued" /\ call'[stream'[s][i]].session = s
      BY <1>7, <2>1, <3>2, <3>3
    <3>5. \A i, j \in 1..Len(stream'[s]) : stream'[s][i] = stream'[s][j] => i = j
      BY <2>1, <3>2
    <3>6. QED  BY <3>2, <3>4, <3>5
  <2>4. QED  BY <2>2, <2>3
<1>10. SlotsCounted'
  <2> SUFFICES ASSUME NEW s \in Sessions
               PROVE  /\ IsFiniteSet(Admitted(s)') /\ slots'[s] >= 0
                      /\ slots'[s] + Cardinality(Admitted(s)') <= Slots
    BY DEF SlotsCounted
  <2>1. /\ IsFiniteSet(Admitted(s)) /\ slots[s] \in Int /\ slots[s] >= 0
        /\ slots[s] + Cardinality(Admitted(s)) <= Slots
        /\ Cardinality(Admitted(s)) \in Nat
    BY FS_CardinalityType DEF SlotsCounted, WarmKinds
  <2>2. CASE s # t
    <3>1. slots'[s] = slots[s] /\ Admitted(s)' = Admitted(s)
      BY <1>1, <1>3, <1>6, <1>7, <2>2 DEF Admitted, WarmKinds
    <3>2. QED  BY <2>1, <3>1
  <2>3. CASE s = t
    <3>1. slots'[s] = slots[s] - 1 /\ slots[s] > 0
      BY <1>1, <2>3 DEF WarmKinds
    <3>2. c \notin Admitted(s) /\ Admitted(s)' = Admitted(s) \cup {c}
      BY <1>2, <1>3, <1>6, <1>7, <2>3 DEF Admitted
    <3>3. /\ IsFiniteSet(Admitted(s)')
          /\ Cardinality(Admitted(s)') = Cardinality(Admitted(s)) + 1
      BY <2>1, <3>2, FS_AddElement
    <3>4. QED  BY <2>1, <3>1, <3>3
  <2>4. QED  BY <2>2, <2>3
<1>11. WarmKinds'
  <2>1. slots' \in [Sessions -> Int] /\ DOMAIN stream' = Sessions
    BY <1>1 DEF WarmKinds
  <2>2. QED  BY <1>1, <1>6, <1>7, <2>1 DEF WarmKinds
<1>12. DeadSessionIsDropped' /\ StartsLocked'
  BY <1>1, <1>6, <1>7, <1>3, <1>2 DEF DeadSessionIsDropped, StartsLocked
<1>13. QED  BY <1>8, <1>9, <1>10, <1>11, <1>12

\* The steps of a session that leave the stream and the slots alone.
LEMMA SessionWarm ==
  ASSUME WarmInv, MaxSessions \in Nat, Slots \in Nat, Nobody \notin Calls,
         NEW t \in Sessions, Serves(t) \/ Breaks(t) \/ Tells(t) \/ SessionEnds(t)
  PROVE  WarmInv'
<1> USE DEF WarmInv
<1>1. call \in [Calls -> WarmCall] /\ t # None
  BY SessionNumbers DEF WarmKinds
<1>2. /\ UNCHANGED <<last, lock, stream, slots>> /\ current' \in {current, None}
      /\ \E state \in {"up", "refused", "closing", "failed", "ended"} :
           session' = [session EXCEPT ![t] = state]
      /\ session'[t] = "ended" => lock = Nobody /\ current' # t
      /\ session'[t] # "ended" => current' = current
  BY <1>1 DEF Serves, Breaks, Tells, SessionEnds, Frees, WarmKinds
<1>3. /\ call' \in [Calls -> WarmCall]
      /\ \A c \in Calls :
           /\ call'[c].pc = call[c].pc /\ call'[c].session = call[c].session
           /\ call'[c].runs = call[c].runs
           /\ \/ call'[c].task = call[c].task
              \/ call[c].task \in {"admitted", "running"} /\ call'[c].task = "done"
  <2>1. CASE UNCHANGED call
    BY <1>1, <2>1
  <2>2. CASE call' = [c \in Calls |->
                        IF call[c].session = t /\ call[c].task \in {"admitted", "running"}
                        THEN [call[c] EXCEPT !.task = "done"] ELSE call[c]]
    BY <1>1, <2>2 DEF WarmCall
  <2>3. CASE call' = [c \in Calls |->
                        IF /\ call[c].session = t /\ call[c].pc = "wait"
                           /\ call[c].reply = "none"
                        THEN [call[c] EXCEPT !.reply = "failed"] ELSE call[c]]
    BY <1>1, <2>3 DEF WarmCall
  <2>4. QED  BY <2>1, <2>2, <2>3 DEF Serves, Breaks, Tells, SessionEnds
<1>4. RequestShape'
  BY <1>3 DEF RequestShape
<1>5. StreamShape'
  <2> SUFFICES ASSUME NEW s \in Sessions, NEW i \in 1..Len(stream[s])
               PROVE  call'[stream[s][i]].task = "queued" /\ call'[stream[s][i]].session = s
    BY <1>2 DEF StreamShape
  <2>1. /\ stream[s][i] \in Calls /\ call[stream[s][i]].task = "queued"
        /\ call[stream[s][i]].session = s
    BY DEF StreamShape
  <2>2. QED  BY <1>3, <2>1
<1>6. SlotsCounted'
  <2> SUFFICES ASSUME NEW s \in Sessions
               PROVE  /\ IsFiniteSet(Admitted(s)') /\ slots'[s] >= 0
                      /\ slots'[s] + Cardinality(Admitted(s)') <= Slots
    BY DEF SlotsCounted
  <2>1. /\ IsFiniteSet(Admitted(s)) /\ slots[s] \in Int /\ slots[s] >= 0
        /\ slots[s] + Cardinality(Admitted(s)) <= Slots
        /\ Cardinality(Admitted(s)) \in Nat
    BY FS_CardinalityType DEF SlotsCounted, WarmKinds
  <2>2. Admitted(s)' \subseteq Admitted(s)
    BY <1>3 DEF Admitted
  <2>3. /\ IsFiniteSet(Admitted(s)') /\ Cardinality(Admitted(s)') \in Nat
        /\ Cardinality(Admitted(s)') <= Cardinality(Admitted(s))
    BY <2>1, <2>2, FS_Subset, FS_CardinalityType
  <2>4. QED  BY <1>2, <2>1, <2>3
<1>7. WarmKinds'
  BY <1>2, <1>3 DEF WarmKinds
<1>8. DeadSessionIsDropped'
  BY <1>2 DEF DeadSessionIsDropped, WarmKinds
<1>9. StartsLocked'
  BY <1>2, <1>3 DEF StartsLocked, WarmKinds
<1>10. QED  BY <1>4, <1>5, <1>6, <1>7, <1>8, <1>9

LEMMA NextWarm ==
  ASSUME MaxSessions \in Nat, Slots \in Nat, Nobody \notin Calls,
         WarmInv, [Next]_vars
  PROVE  WarmInv'
<1>1. ASSUME NEW c \in Calls, CallStep(c) \/ TimesOut(c)
      PROVE  WarmInv'
  BY <1>1, StepsWarm, SendsWarm DEF CallStep
<1>2. ASSUME NEW s \in Sessions, SessionStep(s) \/ Breaks(s)
      PROVE  WarmInv'
  BY <1>2, AdmitsWarm, SessionWarm DEF SessionStep
<1>3. CASE UNCHANGED vars
  BY <1>3 DEF vars, WarmInv, WarmKinds, DeadSessionIsDropped, StartsLocked, RequestShape,
              StreamShape, SlotsCounted, Admitted
<1>4. QED  BY <1>1, <1>2, <1>3 DEF Next, AtRest, OutOfSessions

LEMMA WarmTypes == ASSUME WarmInv, Slots \in Nat PROVE TypeOK
<1>1. \A s \in Sessions : slots[s] \in 0..Slots
  BY FS_CardinalityType DEF WarmInv, WarmKinds, SlotsCounted
<1>2. \A s \in Sessions : \A i \in DOMAIN stream[s] : stream[s][i] \in Calls
  BY DEF WarmInv, StreamShape
<1>3. QED  BY <1>1, <1>2 DEF WarmInv, WarmKinds, WarmCall, TypeOK

\* A request is begun once, and while its call waits for it.
LEMMA BegunWhileWanted ==
  ASSUME MaxSessions \in Nat, Nobody \notin Calls, WarmInv, [Next]_vars,
         NEW d \in Calls, call'[d].runs # call[d].runs
  PROVE  call[d].runs = 0 /\ call[d].pc = "wait"
<1>1. call \in [Calls -> WarmCall]
  BY DEF WarmInv, WarmKinds
<1>2. ASSUME NEW c \in Calls, Runs(c)
      PROVE  call[d].runs = 0 /\ call[d].pc = "wait"
  BY <1>1, <1>2 DEF Runs, WarmCall, WarmInv, RequestShape
<1>3. ASSUME NEW c \in Calls,
             \/ TakesSession(c) \/ Started(c) \/ Sends(c) \/ Hears(c) \/ Discards(c)
             \/ Replies(c) \/ TimesOut(c)
      PROVE  FALSE
  BY <1>1, <1>3 DEF TakesSession, Started, Sends, Hears, Discards, Replies, TimesOut,
                    Goes, WarmCall
<1>4. ASSUME NEW s \in Sessions, SessionStep(s) \/ Breaks(s)
      PROVE  FALSE
  <2>1. CASE Admits(s)
    <3>1. Head(stream[s]) \in Calls
      BY <2>1 DEF Admits, WarmInv, StreamShape
    <3>2. QED  BY <1>1, <2>1, <3>1 DEF Admits, WarmCall
  <2>2. CASE Serves(s) \/ SessionEnds(s)
    BY <2>2 DEF Serves, SessionEnds
  <2>3. CASE Breaks(s) \/ Tells(s)
    BY <1>1, <2>3 DEF Breaks, Tells, WarmCall
  <2>4. QED  BY <1>4, <2>1, <2>2, <2>3 DEF SessionStep
<1>5. QED
  BY <1>2, <1>3, <1>4 DEF Next, CallStep, AtRest, OutOfSessions, vars

-----------------------------------------------------------------------------
(* What the calls may rely on.                                             *)

\* No session hands out more slots than it has, and none twice.
THEOREM TypesOfTheSession ==
  ASSUME Assumed
  PROVE  Spec => []TypeOK
<1>1. Init => WarmInv
  BY WarmInit DEF Assumed
<1>2. WarmInv /\ [Next]_vars => WarmInv'
  BY NextWarm DEF Assumed
<1>3. WarmInv => TypeOK
  BY WarmTypes DEF Assumed
<1>4. QED  BY <1>1, <1>2, <1>3, PTL DEF Spec

\* A session that has ended does not keep the server's name, although a session
\* is named by the call that starts it and its name is freed by others.
THEOREM DeadDropped ==
  ASSUME Assumed
  PROVE  Spec => []DeadSessionIsDropped
<1>1. Init => WarmInv
  BY WarmInit DEF Assumed
<1>2. WarmInv /\ [Next]_vars => WarmInv'
  BY NextWarm DEF Assumed
<1>3. WarmInv => DeadSessionIsDropped
  BY DEF WarmInv
<1>4. QED  BY <1>1, <1>2, <1>3, PTL DEF Spec

\* A request is carried out once at most, and is begun only while its call waits.
THEOREM RunOnceWhileWanted ==
  ASSUME Assumed
  PROVE  Spec => RunsWhileWanted
<1>1. Init => WarmInv
  BY WarmInit DEF Assumed
<1>2. WarmInv /\ [Next]_vars => WarmInv'
  BY NextWarm DEF Assumed
<1>3. WarmInv /\ [Next]_vars =>
        [\A c \in Calls :
           call'[c].runs # call[c].runs => call[c].runs = 0 /\ call[c].pc = "wait"]_vars
  BY BegunWhileWanted DEF Assumed
<1>4. QED  BY <1>1, <1>2, <1>3, PTL DEF Spec, RunsWhileWanted
=============================================================================
