------------------------- MODULE GatewayCalls_proofs -------------------------
(***************************************************************************)
(* What holds of GatewayCalls for all callers, requests, retries, readers  *)
(* and restarts: the job owner is called once for a key, what is answered  *)
(* is true of the queue, and every answer to the key is the same.          *)
(***************************************************************************)
EXTENDS GatewayCalls, TLAPS

\* What is proved of the launch that a call makes.
Key == INSTANCE KeyedLaunch_proofs

\* A caller is no request, and none of the values that stand for nothing.
Distinct ==
  /\ Nobody \notin Callers /\ Reader \notin Callers \cup {Nobody}
  /\ NoRequest \notin Requests

\* Types, but for the requests, reads and restarts there are.
Kinds ==
  /\ row \in Row
  /\ claim \in Callers \cup {Nobody, Reader}
  /\ gate \in [Callers -> Gate]
  /\ reader \in Read

Busy(g) == gate[g].pc \in {"run", "running", "settle"}
Recovers(g) == gate[g].pc \in {"recover", "look", "evidence", "recovered"}

RowShape ==
  /\ row = NoRow \/ (row.request \in Requests /\ row.state # "absent")
  /\ row.state = "confirmed" => row.answer.verdict \in {"ok", "refused"}
  /\ row.state # "confirmed" => row.answer = NoAnswer

GateShape ==
  \A g \in Callers :
    /\ gate[g].pc \notin {"idle", "told"} => gate[g].request \in Requests
    /\ gate[g].pc = "settle" => gate[g].verdict # "none"

Claimed ==
  /\ \A g \in Callers :
       /\ Busy(g) => /\ claim = g /\ row.state = "pending"
                     /\ gate[g].request = row.request
                     /\ \A h \in Callers : ~Recovers(h)
       /\ Recovers(g) => row # NoRow
  /\ reader.pc = "unlock" => claim = Reader

Owned ==
  \A g \in Callers :
    /\ call[g].pc # "idle" <=> gate[g].pc = "running"
    /\ call[g].request \in {NoRequest, row.request}

Once ==
  /\ calls \in 0..1
  /\ row = NoRow => calls = 0
  /\ row.answer.verdict = "refused" => calls = 0
  /\ \A g \in Callers :
       /\ gate[g].pc = "run" => calls = 0
       /\ gate[g].pc = "running" => calls = 1
       /\ gate[g].pc = "settle" /\ gate[g].verdict = "refused" => calls = 0

Sent ==
  /\ input.request \in {NoRequest, row.request}
  /\ calls = 0 => /\ adds = 0 /\ wire = {} /\ tasks = {}
                  /\ input = Launcher!NoInput

Seen ==
  /\ row.answer.verdict = "ok" => tasks # {}
  /\ \A g \in Callers :
       /\ call[g].result \in {"started", "reused"} => tasks # {}
       /\ gate[g].acked \/ gate[g].pc = "recovered" => tasks # {}
       /\ gate[g].verdict = "ok" => tasks # {}

Given ==
  \A g \in Callers :
    gate[g].reply.verdict \in {"ok", "refused"} =>
      row.state = "confirmed" /\ gate[g].reply = row.answer

Inv ==
  /\ Kinds /\ Key!Inv
  /\ RowShape /\ GateShape /\ Claimed /\ Owned /\ Once /\ Sent /\ Seen /\ Given

-----------------------------------------------------------------------------
(* The launch under the key.                                               *)

LEMMA SameQueue == Launcher!QueueStep <=> Key!QueueStep
BY DEF Launcher!QueueStep, Key!QueueStep, Launcher!Adds, Key!Adds,
   Launcher!DaemonAdds, Key!DaemonAdds, Launcher!JobRemoved, Key!JobRemoved,
   Launcher!JobBegins, Key!JobBegins, Launcher!NoInput, Key!NoInput

LEMMA SameSteps ==
  ASSUME NEW g \in Callers
  PROVE  /\ Launcher!Init <=> Key!Init
         /\ \A r \in Requests : Launcher!Calls(g, r) <=> Key!Calls(g, r)
         /\ Launcher!LaunchStep(g) <=> Key!LaunchStep(g)
         /\ Launcher!Returns(g) <=> Key!Returns(g)
         /\ Launcher!Die(Callers) <=> Key!Die(Callers)
<1>1. /\ Launcher!Init <=> Key!Init
      /\ \A r \in Requests : Launcher!Calls(g, r) <=> Key!Calls(g, r)
      /\ Launcher!Returns(g) <=> Key!Returns(g)
      /\ Launcher!Die(Callers) <=> Key!Die(Callers)
  BY DEF Launcher!Init, Key!Init, Launcher!NoInput, Key!NoInput, Launcher!NoCall,
     Key!NoCall, Launcher!Calls, Key!Calls, Launcher!Returns, Key!Returns,
     Launcher!Die, Key!Die, Launcher!queueVars, Key!queueVars
<1>2. Launcher!LaunchStep(g) <=> Key!LaunchStep(g)
  <2> USE DEF Launcher!queueVars, Key!queueVars, Launcher!Goes, Key!Goes,
      Launcher!Ends, Key!Ends, Launcher!NoInput, Key!NoInput
  <2>1. Launcher!Locks(g) <=> Key!Locks(g)
    BY DEF Launcher!Locks, Key!Locks
  <2>2. Launcher!ReadsInput(g) <=> Key!ReadsInput(g)
    BY DEF Launcher!ReadsInput, Key!ReadsInput
  <2>3. Launcher!LooksAtQueue(g) <=> Key!LooksAtQueue(g)
    BY DEF Launcher!LooksAtQueue, Key!LooksAtQueue
  <2>4. Launcher!LooksAtEvidence(g) <=> Key!LooksAtEvidence(g)
    BY DEF Launcher!LooksAtEvidence, Key!LooksAtEvidence
  <2>5. Launcher!WritesInput(g) <=> Key!WritesInput(g)
    BY DEF Launcher!WritesInput, Key!WritesInput
  <2>6. Launcher!SendsAdd(g) <=> Key!SendsAdd(g)
    BY DEF Launcher!SendsAdd, Key!SendsAdd
  <2>7. Launcher!AddAnswered(g) <=> Key!AddAnswered(g)
    BY DEF Launcher!AddAnswered, Key!AddAnswered
  <2>8. Launcher!AddFails(g) <=> Key!AddFails(g)
    BY DEF Launcher!AddFails, Key!AddFails
  <2>9. Launcher!Acks(g) <=> Key!Acks(g)
    BY DEF Launcher!Acks, Key!Acks
  <2>10. QED
    BY <2>1, <2>2, <2>3, <2>4, <2>5, <2>6, <2>7, <2>8, <2>9
       DEF Launcher!LaunchStep, Key!LaunchStep
<1>3. QED  BY <1>1, <1>2

\* What leaves the launch alone.
LEMMA KeyRests == ASSUME Distinct, Key!Inv, UNCHANGED launchVars PROVE Key!Inv'
<1>1. Key!Distinct
  BY DEF Distinct, Key!Distinct
<1>2. UNCHANGED Key!vars
  BY DEF launchVars, Key!vars, Key!queueVars
<1>3. QED  BY <1>1, <1>2, Key!NextInv

-----------------------------------------------------------------------------
(* The calls, but for what they have the job owner do.                     *)

\* A call that goes anywhere but to its run, and that changes the row, if at
\* all, where there is no answer yet and no other call runs.
LEMMA MovesInv ==
  ASSUME Distinct, Inv, NEW g \in Callers, NEW e \in Gate,
         gate' = [gate EXCEPT ![g] = e], gate[g].pc # "running", ~(e.pc \in {"run", "running", "settle"}),
         e.pc \notin {"idle", "told"} => e.request \in Requests,
         e.pc \in {"recover", "look", "evidence", "recovered"} =>
           row # NoRow /\ \A h \in Callers \ {g} : ~Busy(h),
         e.acked \/ e.pc = "recovered" \/ e.verdict = "ok" => tasks # {},
         e.reply.verdict \in {"ok", "refused"} =>
           row'.state = "confirmed" /\ e.reply = row'.answer,
         claim' \in Callers \cup {Nobody, Reader},
         claim' # claim => claim \in {g, Nobody},
         \/ row' = row
         \/ /\ row # NoRow /\ row.state # "confirmed" /\ RowShape' /\ row' \in Row
            /\ row'.request = row.request
            /\ \A h \in Callers \ {g} : ~Busy(h)
            /\ row'.answer.verdict = "ok" => tasks # {}
            /\ row'.answer.verdict = "refused" => calls = 0,
         UNCHANGED <<launchVars, reader>>
  PROVE  Inv'
<1> USE DEF Inv
<1>1. /\ gate'[g] = e
      /\ \A h \in Callers \ {g} : gate'[h] = gate[h]
  BY DEF Kinds
<1>2. Key!Inv'
  BY KeyRests
<1>3. Kinds'
  BY DEF Kinds
<1>4. RowShape'
  BY DEF RowShape
<1>5. GateShape'
  BY <1>1 DEF GateShape
<1>6. \A h \in Callers : Busy(h)' => Busy(h) /\ h # g
  BY <1>1 DEF Busy
<1>7. row' = NoRow <=> row = NoRow
  BY DEF RowShape, NoRow, Distinct
<1>8. Claimed'
  <2>1. reader'.pc = "unlock" => claim' = Reader
    BY DEF Claimed, Distinct
  <2>2. ASSUME NEW h \in Callers, Busy(h)'
        PROVE  /\ claim' = h /\ row'.state = "pending"
               /\ gate'[h].request = row'.request
               /\ \A i \in Callers : ~Recovers(i)'
    <3>1. claim' = h /\ row' = row /\ gate'[h] = gate[h]
      BY <1>1, <1>6, <2>2 DEF Claimed, Distinct
    <3>2. \A i \in Callers : ~Recovers(i)'
      BY <1>1, <1>6, <2>2 DEF Claimed, Recovers
    <3>3. QED  BY <1>6, <2>2, <3>1, <3>2 DEF Claimed
  <2>3. ASSUME NEW h \in Callers, Recovers(h)' PROVE row' # NoRow
    BY <1>1, <1>7, <2>3 DEF Claimed, Recovers
  <2>4. QED  BY <2>1, <2>2, <2>3 DEF Claimed
<1>9. Owned'
  BY <1>1 DEF Owned, launchVars
<1>10. Once'
  BY <1>1, <1>7 DEF Once, launchVars
<1>11. Sent'
  BY DEF Sent, launchVars
<1>12. Seen'
  BY <1>1 DEF Seen, launchVars
<1>13. Given'
  BY <1>1 DEF Given
<1>14. QED
  BY <1>2, <1>3, <1>4, <1>5, <1>8, <1>9, <1>10, <1>11, <1>12, <1>13

\* The end of a call, with an answer that is everyone's or is none.
LEMMA RepliesInv ==
  ASSUME Distinct, Inv, NEW g \in Callers, NEW answer \in Answer, Replies(g, answer),
         gate[g].pc # "running",
         answer.verdict \in {"ok", "refused"} =>
           row'.state = "confirmed" /\ answer = row'.answer,
         \/ row' = row
         \/ /\ row # NoRow /\ row.state # "confirmed" /\ RowShape' /\ row' \in Row
            /\ row'.request = row.request
            /\ \A h \in Callers \ {g} : ~Busy(h)
            /\ row'.answer.verdict = "ok" => tasks # {}
            /\ row'.answer.verdict = "refused" => calls = 0,
         UNCHANGED <<launchVars, reader>>
  PROVE  Inv'
<1> DEFINE e == [gate[g] EXCEPT !.pc = "told", !.reply = answer]
<1>1. gate[g] \in Gate
  BY DEF Inv, Kinds
<1>2. /\ e \in Gate /\ e.pc = "told" /\ e.reply = answer
      /\ e.acked = gate[g].acked /\ e.verdict = gate[g].verdict
  BY <1>1 DEF Gate
<1>3. gate' = [gate EXCEPT ![g] = e]
  BY DEF Replies
<1>4. e.acked \/ e.verdict = "ok" => tasks # {}
  BY <1>2 DEF Inv, Seen
<1>5. claim' \in Callers \cup {Nobody, Reader} /\ (claim' # claim => claim = g)
  BY DEF Replies, Inv, Kinds
<1> HIDE DEF e
<1>6. QED  BY <1>2, <1>3, <1>4, <1>5, MovesInv

\* A move of a call's to another place of the same kind.
LEMMA GoesInv ==
  ASSUME Distinct, Inv, NEW g \in Callers,
         NEW pc \in {"lock", "claim", "recover", "look", "evidence", "recovered"},
         Goes(g, pc), gate[g].pc \notin {"running", "idle", "told"},
         pc \in {"recover", "look", "evidence", "recovered"} =>
           row # NoRow /\ \A h \in Callers \ {g} : ~Busy(h),
         pc = "recovered" => tasks # {},
         claim' \in Callers \cup {Nobody, Reader},
         claim' # claim => claim \in {g, Nobody},
         \/ row' = row
         \/ /\ row # NoRow /\ row.state # "confirmed" /\ RowShape' /\ row' \in Row
            /\ row'.request = row.request
            /\ \A h \in Callers \ {g} : ~Busy(h)
            /\ row'.answer.verdict = "ok" => tasks # {}
            /\ row'.answer.verdict = "refused" => calls = 0,
         gate[g].reply.verdict \in {"ok", "refused"} => row' = row,
         UNCHANGED <<launchVars, reader>>
  PROVE  Inv'
<1> DEFINE e == [gate[g] EXCEPT !.pc = pc]
<1>1. gate[g] \in Gate
  BY DEF Inv, Kinds
<1>2. /\ e \in Gate /\ e.pc = pc /\ e.reply = gate[g].reply
      /\ e.acked = gate[g].acked /\ e.verdict = gate[g].verdict
      /\ e.request = gate[g].request
  BY <1>1 DEF Gate
<1>3. gate' = [gate EXCEPT ![g] = e]
  BY DEF Goes
<1>4. e.acked \/ e.verdict = "ok" => tasks # {}
  BY <1>2 DEF Inv, Seen
<1>5. e.request \in Requests
  BY <1>2 DEF Inv, GateShape
<1>6. e.reply.verdict \in {"ok", "refused"} =>
        row'.state = "confirmed" /\ e.reply = row'.answer
  BY <1>2 DEF Inv, Given
<1> HIDE DEF e
<1>7. QED  BY <1>2, <1>3, <1>4, <1>5, <1>6, MovesInv

LEMMA SaysNothing ==
  ASSUME NEW verdict \in {"pending", "conflict", "indeterminate", "failed"}
  PROVE  Says(verdict) \in Answer /\ Says(verdict).verdict \notin {"ok", "refused"}
BY DEF Says, Answer

LEMMA BeginsInv ==
  ASSUME Distinct, Inv, NEW g \in Callers,
         (\E r \in Requests : Request(g, r)) \/ TriesLock(g) \/ Returns(g)
  PROVE  Inv'
<1> USE DEF NoGate, NoAnswer
<1>1. CASE \E r \in Requests : Request(g, r)
  <2>1. PICK r \in Requests : Request(g, r)
    BY <1>1
  <2> DEFINE e == [NoGate EXCEPT !.pc = "lock", !.request = r]
  <2>2. /\ e \in Gate /\ e.pc = "lock" /\ e.request \in Requests
        /\ ~e.acked /\ e.verdict = "none" /\ e.reply.verdict = "none"
    BY DEF Gate, Answer
  <2>3. /\ gate' = [gate EXCEPT ![g] = e] /\ gate[g].pc = "idle"
        /\ UNCHANGED <<launchVars, row, claim, reader>>
    BY <2>1 DEF Request
  <2>4. claim' \in Callers \cup {Nobody, Reader}
    BY <2>3 DEF Inv, Kinds
  <2> HIDE DEF e, NoGate
  <2>5. QED  BY <2>2, <2>3, <2>4, MovesInv
<1>2. CASE TriesLock(g)
  <2>1. claim' \in Callers \cup {Nobody, Reader} /\ (claim' # claim => claim = Nobody)
    BY <1>2 DEF TriesLock, Inv, Kinds
  <2>2. QED  BY <1>2, <2>1, GoesInv DEF TriesLock
<1>3. CASE Returns(g)
  <2>1. /\ NoGate \in Gate /\ NoGate.pc = "idle" /\ ~NoGate.acked
        /\ NoGate.verdict = "none" /\ NoGate.reply.verdict = "none"
    BY DEF Gate, Answer
  <2>2. claim' \in Callers \cup {Nobody, Reader}
    BY <1>3 DEF Returns, Inv, Kinds
  <2> HIDE DEF NoGate
  <2>3. QED  BY <1>3, <2>1, <2>2, MovesInv DEF Returns
<1>4. QED  BY <1>1, <1>2, <1>3

\* A claim: a new key is run, and none that was claimed before is run again.
LEMMA ClaimsInv ==
  ASSUME Distinct, Inv, NEW g \in Callers, Claims(g)
  PROVE  Inv'
<1> USE DEF Claims
<1>1. /\ gate[g] \in Gate /\ row \in Row
      /\ claim' \in Callers \cup {Nobody, Reader}
  BY DEF Inv, Kinds, Replies
<1>2. CASE row = NoRow /\ claim = g /\ Goes(g, "run") /\ UNCHANGED claim
           /\ row' = [request |-> gate[g].request, state |-> "pending",
                      answer |-> NoAnswer]
  <2>1. /\ gate'[g] = [gate[g] EXCEPT !.pc = "run"]
        /\ \A h \in Callers \ {g} : gate'[h] = gate[h]
    BY <1>2 DEF Goes, Inv, Kinds
  <2>2. /\ gate'[g] \in Gate /\ gate'[g].pc = "run"
        /\ gate'[g].request = gate[g].request /\ gate'[g].verdict = gate[g].verdict
        /\ gate'[g].acked = gate[g].acked /\ gate'[g].reply = gate[g].reply
    BY <1>1, <2>1 DEF Gate
  <2>3. /\ row.state = "absent" /\ row.request = NoRequest /\ calls = 0
        /\ row'.request = gate[g].request /\ row'.state = "pending"
        /\ row'.answer = NoAnswer /\ NoAnswer.verdict = "none"
        /\ gate[g].request \in Requests
    BY <1>2 DEF NoRow, NoAnswer, Inv, Once, GateShape
  <2>4. Key!Inv'
    BY KeyRests DEF Inv
  <2>5. Kinds'
    BY <1>1, <1>2, <2>2, <2>3 DEF Inv, Kinds, Goes, Row, Answer, NoAnswer
  <2>6. RowShape' /\ GateShape'
    BY <2>1, <2>2, <2>3 DEF Inv, RowShape, GateShape
  <2>7. \A h \in Callers : ~Busy(h) /\ ~Recovers(h)
    BY <1>2, <2>3 DEF Inv, Claimed
  <2>8. Claimed'
    BY ZenonT(60), <1>2, <2>1, <2>2, <2>3, <2>7 DEF Inv, Claimed, Busy, Recovers, NoRow
  <2>9. UNCHANGED <<call, calls, adds, wire, tasks, input>> /\ gate[g].pc = "claim"
    BY DEF launchVars
  <2> HIDE DEF Claims
  <2>10. Owned'
    <3>1. \A h \in Callers : gate'[h].pc = "running" <=> gate[h].pc = "running"
      BY <2>1, <2>2, <2>9
    <3>2. \A h \in Callers : call[h].request = NoRequest
      BY <2>3 DEF Inv, Owned
    <3>3. QED  BY <2>9, <3>1, <3>2 DEF Inv, Owned
  <2>11. Once'
    BY <2>1, <2>2, <2>3, <2>9 DEF Inv, Once
  <2>12. Sent'
    BY <2>3, <2>9 DEF Inv, Sent
  <2>13. Seen' /\ Given'
    <3>1. \A h \in Callers : gate[h].reply.verdict \notin {"ok", "refused"}
      BY <2>3 DEF Inv, Given
    <3>2. Given'
      BY <2>1, <2>2, <3>1 DEF Given
    <3>3. row'.answer.verdict # "ok"
      BY <2>3
    <3>4. ASSUME NEW h \in Callers
          PROVE  /\ gate'[h].acked = gate[h].acked /\ gate'[h].verdict = gate[h].verdict
                 /\ gate'[h].pc = "recovered" => gate[h].pc = "recovered"
      BY <2>1, <2>2
    <3>5. Seen'
      BY <2>9, <3>3, <3>4 DEF Inv, Seen
    <3>6. QED  BY <3>2, <3>5
  <2>14. QED
    BY <2>4, <2>5, <2>6, <2>8, <2>10, <2>11, <2>12, <2>13 DEF Inv
<1>3. CASE UNCHANGED row /\ (Replies(g, Says("pending")) \/ Replies(g, Says("conflict")))
  BY <1>3, SaysNothing, RepliesInv
<1>4. CASE /\ row.request = gate[g].request /\ row.state # "confirmed"
           /\ claim = g /\ claim' = Nobody /\ Goes(g, "recover")
           /\ row' = [row EXCEPT !.state = "indeterminate"]
  <2>1. row # NoRow /\ gate[g].request \in Requests
    BY <1>4 DEF Inv, GateShape, NoRow, Distinct
  <2>2. \A h \in Callers \ {g} : ~Busy(h)
    BY <1>4 DEF Inv, Claimed
  <2>3. /\ row' \in Row /\ row'.request = row.request /\ row'.answer = row.answer
        /\ row'.state = "indeterminate" /\ row.answer.verdict = "none" /\ RowShape'
    BY <1>1, <1>4, <2>1 DEF Row, Inv, RowShape, NoAnswer
  <2>4. gate[g].reply.verdict \notin {"ok", "refused"}
    BY <1>4 DEF Inv, Given
  <2>5. QED
    BY <1>1, <1>4, <2>1, <2>2, <2>3, <2>4, GoesInv
<1>5. CASE row.state = "confirmed" /\ Replies(g, row.answer) /\ UNCHANGED row
  BY <1>1, <1>5, RepliesInv DEF Row
<1>6. QED  BY <1>2, <1>3, <1>4, <1>5

LEMMA CompletesInv ==
  ASSUME Distinct, Inv, NEW g \in Callers, NEW verdict \in {"ok", "refused"},
         Completes(g, verdict), row # NoRow,
         gate[g].pc # "running", \A h \in Callers \ {g} : ~Busy(h),
         verdict = "ok" => tasks # {}, verdict = "refused" => calls = 0,
         UNCHANGED <<launchVars, reader>>
  PROVE  Inv'
<1> DEFINE answer == [verdict |-> verdict, by |-> g]
<1>1. answer \in Answer /\ answer.verdict = verdict
  BY DEF Answer
<1>2. row \in Row /\ row.answer \in Answer
  BY DEF Inv, Kinds, Row
<1> HIDE DEF answer
<1>3. Replies(g, row'.answer)
  BY DEF Completes
<1>4. CASE row.state = "confirmed"
  <2>1. row' = row
    BY <1>4 DEF Completes
  <2>2. QED  BY <1>2, <1>3, <1>4, <2>1, RepliesInv
<1>5. CASE row.state # "confirmed"
  <2>1. row' = [row EXCEPT !.state = "confirmed", !.answer = answer]
    BY <1>5 DEF Completes, answer
  <2>2. /\ row' \in Row /\ row'.request = row.request /\ row'.answer = answer
        /\ row'.state = "confirmed"
    BY <1>1, <1>2, <2>1 DEF Row
  <2>3. RowShape'
    BY <1>1, <2>2 DEF Inv, RowShape, NoRow
  <2>4. QED  BY <1>1, <1>3, <1>5, <2>2, <2>3, RepliesInv
<1>6. QED  BY <1>4, <1>5

LEMMA SettlesInv ==
  ASSUME Distinct, Inv, NEW g \in Callers, Settles(g)
  PROVE  Inv'
<1> USE DEF Settles
<1>1. /\ row # NoRow /\ row.state = "pending" /\ row \in Row
      /\ \A h \in Callers \ {g} : ~Busy(h)
  BY DEF Inv, Claimed, Busy, NoRow, Kinds
<1>2. CASE gate[g].verdict = "unknown" /\ Abandons /\ Replies(g, Says("indeterminate"))
  <2>1. /\ row' \in Row /\ row'.request = row.request /\ row'.answer = row.answer
        /\ row'.state = "indeterminate"
    BY <1>1, <1>2 DEF Abandons, Row
  <2>2. RowShape' /\ row.answer.verdict = "none"
    BY <1>1, <2>1 DEF Inv, RowShape, NoAnswer
  <2>3. QED  BY <1>1, <1>2, <2>1, <2>2, SaysNothing, RepliesInv
<1>3. CASE gate[g].verdict # "unknown" /\ Completes(g, gate[g].verdict)
  <2>1. gate[g].verdict \in {"ok", "refused"}
    BY <1>3 DEF Inv, Kinds, Gate, GateShape
  <2>2. /\ gate[g].verdict = "ok" => tasks # {}
        /\ gate[g].verdict = "refused" => calls = 0
    BY DEF Inv, Seen, Once
  <2>3. QED  BY <1>1, <1>3, <2>1, <2>2, CompletesInv
<1>4. CASE Replies(g, Says("failed")) /\ UNCHANGED row
  BY <1>4, SaysNothing, RepliesInv
<1>5. QED  BY <1>2, <1>3, <1>4

LEMMA RecoversInv ==
  ASSUME Distinct, Inv, NEW g \in Callers,
         \/ RecoverReads(g) \/ RecoverLooks(g) \/ RecoverJudges(g)
         \/ RecoverCompletes(g)
  PROVE  Inv'
<1>1. /\ Recovers(g) /\ gate[g].pc # "running" /\ row # NoRow
      /\ \A h \in Callers : ~Busy(h)
      /\ UNCHANGED <<launchVars, reader>>
  BY DEF RecoverReads, RecoverLooks, RecoverJudges, RecoverCompletes, Inv, Claimed,
         Recovers
<1>2. claim' \in Callers \cup {Nobody, Reader} /\ gate[g] \in Gate
  BY DEF RecoverReads, RecoverLooks, RecoverJudges, RecoverCompletes, Completes,
         Replies, Inv, Kinds
<1>3. input.acked \/ attempts \/ queued # {} => tasks # {}
  BY DEF Inv, Key!Inv, Key!Evidence, Key!Types
<1>4. CASE UNCHANGED row /\ (\/ Replies(g, Says("indeterminate"))
                             \/ Replies(g, Says("failed")))
  BY <1>1, <1>4, SaysNothing, RepliesInv
<1>5. CASE /\ RecoverReads(g) /\ UNCHANGED claim
           /\ gate' = [gate EXCEPT ![g].pc = "look", ![g].acked = input.acked]
  <2> DEFINE e == [gate[g] EXCEPT !.pc = "look", !.acked = input.acked]
  <2>1. input.acked \in BOOLEAN
    BY DEF Inv, Key!Inv, Key!Types, Key!Input
  <2>2. /\ e \in Gate /\ e.pc = "look" /\ e.acked = input.acked
        /\ e.request = gate[g].request /\ e.verdict = gate[g].verdict
        /\ e.reply = gate[g].reply
    BY <1>2, <2>1 DEF Gate
  <2>3. gate' = [gate EXCEPT ![g] = e] /\ UNCHANGED row
    BY <1>5 DEF RecoverReads
  <2>4. e.request \in Requests /\ (e.verdict = "ok" => tasks # {})
    BY <1>1, <2>2 DEF Inv, GateShape, Seen, Recovers
  <2>5. e.reply.verdict \in {"ok", "refused"} =>
          row.state = "confirmed" /\ e.reply = row.answer
    BY <2>2 DEF Inv, Given
  <2> HIDE DEF e
  <2>6. QED  BY <1>1, <1>2, <1>3, <1>5, <2>2, <2>3, <2>4, <2>5, MovesInv
<1>6. CASE RecoverLooks(g) /\ ~Replies(g, Says("indeterminate"))
  <2>1. /\ UNCHANGED <<claim, row>>
        /\ \/ Goes(g, "recovered") /\ tasks # {}
           \/ Goes(g, "evidence")
    BY <1>3, <1>6 DEF RecoverLooks
  <2>2. QED  BY <1>1, <1>2, <2>1, GoesInv DEF Recovers
<1>7. CASE RecoverJudges(g) /\ ~Replies(g, Says("indeterminate"))
  <2>1. UNCHANGED <<claim, row>> /\ Goes(g, "recovered") /\ tasks # {}
    BY <1>3, <1>7 DEF RecoverJudges, Inv, Seen
  <2>2. QED  BY <1>1, <1>2, <2>1, GoesInv DEF Recovers
<1>8. CASE gate[g].pc = "recovered" /\ Completes(g, "ok")
  <2>1. tasks # {}
    BY <1>8 DEF Inv, Seen
  <2>2. QED  BY <1>1, <1>8, <2>1, CompletesInv
<1>9. QED
  BY <1>4, <1>5, <1>6, <1>7, <1>8
     DEF RecoverReads, RecoverLooks, RecoverJudges, RecoverCompletes

LEMMA ReaderInv ==
  ASSUME Distinct, Inv, ReadsRow \/ Probes \/ ProbeEnds \/ ReadReturns
  PROVE  Inv'
<1> USE DEF ReadsRow, Probes, ProbeEnds, ReadReturns
<1>1. Key!Inv' /\ UNCHANGED <<launchVars, row, gate>>
  BY KeyRests DEF Inv
<1>2. Kinds'
  <2>1. row.state \in {"absent", "pending", "indeterminate", "confirmed"}
    BY DEF Inv, Kinds, Row
  <2>2. CASE ReadsRow
    BY <1>1, <2>1, <2>2 DEF Inv, Kinds, Read
  <2>3. CASE Probes \/ ProbeEnds
    BY <1>1, <2>3 DEF Inv, Kinds, Read
  <2>4. CASE ReadReturns
    BY <1>1, <2>4 DEF Inv, Kinds, Read, NoRead
  <2>5. QED  BY <2>2, <2>3, <2>4
<1>3. claim' = claim \/ claim = Nobody \/ claim = Reader
  BY DEF Inv, Claimed
<1>4. reader'.pc = "unlock" => claim' = Reader
  <2>1. CASE ReadsRow \/ ReadReturns
    BY <2>1 DEF NoRead
  <2>2. CASE Probes \/ ProbeEnds
    BY <2>2 DEF Inv, Kinds, Read
  <2>3. QED  BY <2>1, <2>2
<1>5. Claimed'
  BY <1>1, <1>3, <1>4 DEF Inv, Claimed, Distinct, Busy, Recovers
<1>6. RowShape' /\ GateShape' /\ Owned' /\ Once' /\ Sent' /\ Seen' /\ Given'
  BY <1>1 DEF Inv, RowShape, GateShape, Owned, Once, Sent, Seen, Given, launchVars
<1>7. QED  BY <1>1, <1>2, <1>5, <1>6 DEF Inv

-----------------------------------------------------------------------------
(* What the job owner does for a call, and what the queue does.            *)

LEMMA KeySteps ==
  ASSUME Distinct, Key!Inv, NEW g \in Callers,
         \/ \E r \in Requests : Launcher!Calls(g, r)
         \/ Launcher!LaunchStep(g) \/ Launcher!Returns(g)
         \/ Launcher!Die(Callers)
  PROVE  Key!Inv'
<1>1. Key!Distinct
  BY DEF Distinct, Key!Distinct
<1>2. CASE \E r \in Requests : Key!Calls(g, r)
  BY <1>1, <1>2, Key!CallsInv
<1>3. CASE Key!LaunchStep(g)
  BY <1>1, <1>3, Key!NextInv DEF Key!Next, Key!CallStep
<1>4. CASE Key!Returns(g)
  BY <1>1, <1>4, Key!ReturnsInv
<1>5. CASE Key!Die(Callers)
  BY <1>1, <1>5, Key!DieInv
<1>6. QED  BY <1>2, <1>3, <1>4, <1>5, SameSteps

\* What a step of the job owner for a call changes, and what it tells.
LEMMA OwnerTells ==
  ASSUME Key!Inv, NEW g \in Callers, Key!LaunchStep(g)
  PROVE  /\ call[g].pc # "idle" /\ call'[g].pc # "idle"
         /\ call'[g].request = call[g].request
         /\ \A h \in Callers \ {g} : call'[h] = call[h]
         /\ calls' = calls /\ tasks' = tasks
         /\ input'.request \in {NoRequest, input.request, call[g].request}
         /\ call'[g].result \in {"started", "reused"} => tasks # {}
<1> USE DEF Key!Inv
<1>1. /\ call \in [Callers -> Key!AnyCall] /\ call[g] \in Key!AnyCall
      /\ queued \subseteq tasks
  BY DEF Key!Types
<1>2. ASSUME NEW pc \in Key!Held, Key!Goes(g, pc), call[g].pc \in Key!Held \cup {"lock"}
      PROVE  /\ call[g].pc # "idle" /\ call'[g].pc # "idle"
             /\ call'[g].request = call[g].request
             /\ call'[g].result = "none"
             /\ \A h \in Callers \ {g} : call'[h] = call[h]
  BY <1>1, <1>2 DEF Key!Goes, Key!Held, Key!AnyCall, Key!CallShape
<1>3. ASSUME NEW result, Key!Ends(g, result), call[g].pc \in Key!Held
      PROVE  /\ call[g].pc # "idle" /\ call'[g].pc # "idle"
             /\ call'[g].request = call[g].request
             /\ call'[g].result = result
             /\ \A h \in Callers \ {g} : call'[h] = call[h]
  BY <1>1, <1>3 DEF Key!Ends, Key!Held, Key!AnyCall
<1> USE DEF Key!Held, Key!queueVars
<1>4. CASE Key!Locks(g)
  BY <1>2, <1>4 DEF Key!Locks
<1>5. CASE Key!ReadsInput(g)
  BY <1>2, <1>3, <1>5 DEF Key!ReadsInput
<1>6. CASE Key!LooksAtQueue(g)
  BY <1>1, <1>2, <1>3, <1>6 DEF Key!LooksAtQueue
<1>7. CASE Key!LooksAtEvidence(g)
  BY <1>3, <1>7 DEF Key!LooksAtEvidence, Key!Evidence
<1>8. CASE Key!WritesInput(g)
  BY <1>2, <1>3, <1>8 DEF Key!WritesInput
<1>9. CASE Key!SendsAdd(g)
  <2>1. /\ call[g].pc # "idle" /\ call'[g].pc # "idle"
        /\ call'[g].request = call[g].request /\ call'[g].result = "none"
        /\ \A h \in Callers \ {g} : call'[h] = call[h]
    BY <1>1, <1>9 DEF Key!SendsAdd, Key!AnyCall, Key!CallShape
  <2>2. QED  BY <1>9, <2>1 DEF Key!SendsAdd
<1>10. CASE Key!AddAnswered(g)
  BY <1>2, <1>10 DEF Key!AddAnswered
<1>11. CASE Key!AddFails(g)
  BY <1>3, <1>11 DEF Key!AddFails, Key!NoInput
<1>12. CASE Key!Acks(g)
  BY <1>3, <1>12 DEF Key!Acks, Key!Knows
<1>13. QED
  BY <1>4, <1>5, <1>6, <1>7, <1>8, <1>9, <1>10, <1>11, <1>12 DEF Key!LaunchStep

LEMMA OwnerStepsInv ==
  ASSUME Distinct, Inv, NEW g \in Callers, OwnerSteps(g)
  PROVE  Inv'
<1> USE DEF Inv
<1>1. /\ Launcher!LaunchStep(g) /\ UNCHANGED <<row, claim, gate, reader>>
  BY DEF OwnerSteps
<1>2. Key!LaunchStep(g)
  BY <1>1, SameSteps
<1>3. /\ call[g].pc # "idle" /\ call'[g].pc # "idle"
      /\ call'[g].request = call[g].request
      /\ \A h \in Callers \ {g} : call'[h] = call[h]
      /\ calls' = calls /\ tasks' = tasks
      /\ input'.request \in {NoRequest, input.request, call[g].request}
      /\ call'[g].result \in {"started", "reused"} => tasks # {}
  BY <1>2, OwnerTells
<1>4. calls = 1
  BY <1>3 DEF Owned, Once
<1>5. Key!Inv'
  BY <1>1, KeySteps
<1>6. Kinds' /\ RowShape' /\ GateShape' /\ Claimed' /\ Given'
  BY <1>1 DEF Kinds, RowShape, GateShape, Claimed, Busy, Recovers, Given
<1>7. Owned'
  BY <1>1, <1>3 DEF Owned
<1>8. Once'
  BY <1>1, <1>3 DEF Once
<1>9. Sent'
  BY <1>1, <1>3, <1>4 DEF Sent, Owned
<1>10. Seen'
  BY <1>1, <1>3 DEF Seen
<1>11. QED  BY <1>5, <1>6, <1>7, <1>8, <1>9, <1>10

\* The job owner is called, where it has not been.
LEMMA RunsInv ==
  ASSUME Distinct, Inv, NEW g \in Callers, Runs(g)
  PROVE  Inv'
<1> USE DEF Inv
<1>1. /\ gate[g].pc = "run" /\ gate[g] \in Gate /\ call[g] \in Key!AnyCall
      /\ UNCHANGED <<row, claim, reader>>
  BY DEF Runs, Kinds, Key!Inv, Key!Types
<1>2. /\ calls = 0 /\ call[g].pc = "idle" /\ gate[g].request \in Requests
      /\ claim = g /\ row.state = "pending" /\ row # NoRow
      /\ gate[g].request = row.request /\ \A h \in Callers : ~Recovers(h)
  BY <1>1 DEF Once, Owned, GateShape, Claimed, Busy, NoRow
<1>3. row.answer.verdict = "none"
  BY <1>2 DEF RowShape, NoAnswer
<1>4. PICK pc \in {"settle", "running"}, verdict \in {gate[g].verdict, "refused"} :
        /\ gate'[g] = [gate[g] EXCEPT !.pc = pc, !.verdict = verdict]
        /\ pc = "settle" => verdict = "refused" /\ UNCHANGED launchVars
        /\ pc = "running" => /\ Launcher!Calls(g, gate[g].request)
                             /\ verdict = gate[g].verdict
  <2>1. CASE gate' = [gate EXCEPT ![g].pc = "settle", ![g].verdict = "refused"]
             /\ UNCHANGED launchVars
    <3>1. gate'[g] = [gate[g] EXCEPT !.pc = "settle", !.verdict = "refused"]
      BY <2>1 DEF Kinds
    <3>2. QED  BY <2>1, <3>1
  <2>2. CASE Launcher!Calls(g, gate[g].request) /\ Goes(g, "running")
    <3>1. gate'[g] = [gate[g] EXCEPT !.pc = "running"]
      BY <2>2 DEF Goes, Kinds
    <3>2. [gate[g] EXCEPT !.pc = "running"]
            = [gate[g] EXCEPT !.pc = "running", !.verdict = gate[g].verdict]
      BY <1>1 DEF Gate
    <3>3. QED  BY <2>2, <3>1, <3>2
  <2>3. QED  BY <2>1, <2>2 DEF Runs
<1>5. /\ gate'[g] \in Gate /\ gate'[g].pc = pc /\ gate'[g].verdict = verdict
      /\ gate'[g].request = gate[g].request /\ gate'[g].acked = gate[g].acked
      /\ gate'[g].reply = gate[g].reply
  BY <1>1, <1>4 DEF Gate
<1>6. /\ gate' \in [Callers -> Gate]
      /\ \A h \in Callers \ {g} : gate'[h] = gate[h]
  <2>1. \E e : gate' = [gate EXCEPT ![g] = e]
    BY DEF Runs, Goes
  <2>2. QED  BY <1>5, <2>1 DEF Kinds
<1>7. pc = "running" => /\ call' = [call EXCEPT ![g] =
                                      [pc |-> "lock", request |-> gate[g].request,
                                       add |-> 0, result |-> "none"]]
                        /\ calls' = 1
                        /\ UNCHANGED <<lock, input, wire, tasks, queued, attempts,
                                       group, adds>>
  BY <1>2, <1>4 DEF Launcher!Calls, Launcher!queueVars
<1>8. /\ \A h \in Callers \ {g} : call'[h] = call[h]
      /\ call'[g].pc # "idle" <=> pc = "running"
      /\ call'[g].request \in {NoRequest, row.request}
      /\ call'[g].result \in {"started", "reused"} =>
           call[g].result \in {"started", "reused"}
      /\ calls' = IF pc = "running" THEN 1 ELSE 0
      /\ UNCHANGED <<input, wire, tasks, adds>>
  <2>1. call \in [Callers -> Key!AnyCall]
    BY DEF Key!Inv, Key!Types
  <2>2. CASE pc = "running"
    BY <1>2, <1>7, <2>1, <2>2
  <2>3. CASE pc = "settle"
    BY <1>2, <1>4, <2>3 DEF launchVars, Owned
  <2>4. QED  BY <2>2, <2>3
<1>9. Key!Inv'
  BY <1>2, <1>4, KeySteps, KeyRests
<1>10. Kinds' /\ RowShape' /\ GateShape'
  <2>1. Kinds' /\ RowShape'
    BY <1>1, <1>6 DEF Kinds, RowShape
  <2>2. GateShape'
    BY ZenonT(60), <1>2, <1>4, <1>5, <1>6 DEF GateShape
  <2>3. QED  BY <2>1, <2>2
<1>11. Claimed'
  BY <1>1, <1>2, <1>5, <1>6 DEF Claimed, Busy, Recovers
<1>12. Owned'
  BY <1>1, <1>5, <1>6, <1>8 DEF Owned
<1>13. Once'
  <2>1. \A h \in Callers \ {g} : ~Busy(h)
    BY <1>2 DEF Claimed
  <2>2. QED  BY <1>1, <1>2, <1>3, <1>5, <1>6, <1>8, <2>1 DEF Once, Busy
<1>14. Sent'
  BY <1>1, <1>2, <1>8 DEF Sent
<1>15. Seen' /\ Given'
  <2>1. Given'
    BY <1>1, <1>5, <1>6 DEF Given
  <2>2. ASSUME NEW h \in Callers
        PROVE  /\ gate'[h].acked = gate[h].acked
               /\ gate'[h].verdict = "ok" => gate[h].verdict = "ok"
               /\ gate'[h].pc = "recovered" => gate[h].pc = "recovered"
               /\ call'[h].result \in {"started", "reused"} =>
                    call[h].result \in {"started", "reused"}
    BY <1>5, <1>6, <1>8
  <2>3. Seen'
    BY <1>1, <1>8, <2>2 DEF Seen
  <2>4. QED  BY <2>1, <2>3
<1>16. QED
  BY <1>9, <1>10, <1>11, <1>12, <1>13, <1>14, <1>15

\* A call whose owner has returned is settled, or is let go of.
LEMMA LeavesInv ==
  ASSUME Distinct, Inv, NEW g \in Callers, NEW e \in Gate, Busy(g),
         gate' = [gate EXCEPT ![g] = e], ~(e.pc \in {"run", "running"}), ~Recovers(g)',
         e.pc \notin {"idle", "told"} => e.request = gate[g].request,
         e.pc = "settle" => /\ e.verdict \in {"ok", "unknown"}
                            /\ claim' = claim /\ row' = row,
         e.acked => gate[g].acked,
         e.verdict = "ok" => tasks # {},
         e.reply.verdict \in {"ok", "refused"} => e.reply = gate[g].reply,
         claim' \in {claim, Nobody}, UNCHANGED reader,
         row' = row \/ Abandons,
         UNCHANGED launchVars \/ (gate[g].pc = "running" /\ Launcher!Returns(g)),
         UNCHANGED launchVars => gate[g].pc = "run"
  PROVE  Inv'
<1> USE DEF Inv
<1>1. /\ gate'[g] = e
      /\ \A h \in Callers \ {g} : gate'[h] = gate[h]
  BY DEF Kinds
<1>2. /\ claim = g /\ row.state = "pending" /\ gate[g].request = row.request
      /\ gate[g].request \in Requests
      /\ \A h \in Callers : ~Recovers(h) /\ (h # g => ~Busy(h))
  BY DEF Claimed, Busy, GateShape
<1>3. row \in Row /\ row # NoRow /\ row.answer = NoAnswer
  BY <1>2 DEF Kinds, RowShape, NoRow
<1>4. /\ row' \in Row /\ row' # NoRow /\ row'.answer = NoAnswer
      /\ row'.request = row.request /\ row'.state \in {"pending", "indeterminate"}
  BY <1>2, <1>3 DEF Abandons, Row, NoRow
<1>5. NoAnswer.verdict = "none"
  BY DEF NoAnswer
<1>6. Key!Inv'
  BY KeyRests, KeySteps
<1>7. Kinds'
  BY <1>4 DEF Kinds
<1>8. RowShape'
  BY <1>2, <1>4 DEF RowShape
<1>9. GateShape'
  BY <1>1, <1>2 DEF GateShape
<1>10. Claimed'
  <2>1. \A h \in Callers : ~Recovers(h)'
    BY <1>1, <1>2 DEF Recovers
  <2>2. \A h \in Callers : Busy(h)' => h = g /\ e.pc = "settle"
    BY <1>1, <1>2 DEF Busy
  <2>3. reader'.pc # "unlock"
    BY <1>2 DEF Claimed, Distinct
  <2>4. QED  BY <1>1, <1>2, <2>1, <2>2, <2>3 DEF Claimed
<1>11. /\ \A h \in Callers \ {g} : call'[h] = call[h]
       /\ call'[g].pc = "idle" /\ call'[g].request = NoRequest
       /\ call'[g].result \notin {"started", "reused"}
       /\ UNCHANGED <<calls, adds, wire, tasks, input>>
  <2>1. call \in [Callers -> Key!AnyCall]
    BY DEF Key!Inv, Key!Types
  <2>2. CASE UNCHANGED launchVars
    <3>1. call[g].pc = "idle"
      BY <2>2 DEF Owned
    <3>2. QED  BY <2>2, <3>1 DEF launchVars, Key!Inv, Key!CallShape
  <2>3. CASE Launcher!Returns(g)
    BY <2>1, <2>3 DEF Launcher!Returns, Launcher!NoCall, Launcher!queueVars
  <2>4. QED  BY <2>2, <2>3
<1>12. Owned'
  BY <1>1, <1>4, <1>11 DEF Owned
<1>13. Once'
  BY <1>1, <1>2, <1>4, <1>5, <1>11 DEF Once, Busy
<1>14. Sent'
  BY <1>4, <1>11 DEF Sent
<1>15. Seen'
  <2>1. e.pc # "recovered" /\ row'.answer.verdict # "ok"
    BY <1>1, <1>4, <1>5 DEF Recovers
  <2>2. QED  BY <1>1, <1>11, <2>1 DEF Seen
<1>16. Given'
  BY <1>1, <1>2 DEF Given
<1>17. QED
  BY <1>6, <1>7, <1>8, <1>9, <1>10, <1>12, <1>13, <1>14, <1>15, <1>16

LEMMA OwnerReturnsInv ==
  ASSUME Distinct, Inv, NEW g \in Callers, OwnerReturns(g) \/ CallCancelled(g)
  PROVE  Inv'
<1>1. gate[g] \in Gate /\ gate \in [Callers -> Gate]
  BY DEF Inv, Kinds
<1>2. CASE OwnerReturns(g)
  <2>1. PICK verdict \in {"ok", "unknown"} :
          /\ verdict = "ok" => tasks # {}
          /\ gate' = [gate EXCEPT ![g].pc = "settle", ![g].verdict = verdict]
    BY <1>2 DEF OwnerReturns, Inv, Seen
  <2> DEFINE e == [gate[g] EXCEPT !.pc = "settle", !.verdict = verdict]
  <2>2. /\ e \in Gate /\ e.pc = "settle" /\ e.verdict = verdict
        /\ e.request = gate[g].request /\ e.acked = gate[g].acked
        /\ e.reply = gate[g].reply
    BY <1>1 DEF Gate
  <2>3. gate' = [gate EXCEPT ![g] = e]
    BY <2>1
  <2> HIDE DEF e
  <2>4. ~Recovers(g)' /\ Busy(g)
    BY <1>1, <1>2, <2>2, <2>3 DEF Recovers, Busy, OwnerReturns
  <2>5. /\ gate[g].pc = "running" /\ Launcher!Returns(g)
        /\ UNCHANGED <<row, claim, reader>>
    BY <1>2 DEF OwnerReturns
  <2>6. call'[g] # call[g]
    <3>1. call \in [Callers -> Key!AnyCall] /\ call[g].pc # "idle"
      BY <2>5 DEF Inv, Key!Inv, Key!Types, Owned
    <3>2. QED  BY <2>5, <3>1 DEF Launcher!Returns, Launcher!NoCall
  <2>7. ~UNCHANGED launchVars
    BY <2>6 DEF launchVars
  <2>8. QED  BY <2>1, <2>2, <2>3, <2>4, <2>5, <2>7, LeavesInv
<1>3. CASE CallCancelled(g)
  <2>1. /\ NoGate \in Gate /\ NoGate.pc = "idle" /\ ~NoGate.acked
        /\ NoGate.verdict = "none" /\ NoGate.reply.verdict = "none"
    BY DEF Gate, Answer, NoGate, NoAnswer
  <2>2. /\ gate' = [gate EXCEPT ![g] = NoGate] /\ claim' = Nobody
        /\ Abandons /\ UNCHANGED reader
    BY <1>3 DEF CallCancelled
  <2>3. ~Recovers(g)' /\ Busy(g)
    BY <1>1, <1>3, <2>1, <2>2 DEF Recovers, Busy, CallCancelled
  <2>4. /\ UNCHANGED launchVars \/ (gate[g].pc = "running" /\ Launcher!Returns(g))
        /\ UNCHANGED launchVars => gate[g].pc = "run"
    <3>1. CASE gate[g].pc = "run" /\ UNCHANGED launchVars
      BY <3>1
    <3>2. CASE gate[g].pc = "running" /\ Launcher!Returns(g)
      <4>1. call \in [Callers -> Key!AnyCall] /\ call[g].pc # "idle"
        BY <3>2 DEF Inv, Key!Inv, Key!Types, Owned
      <4>2. call'[g] # call[g]
        BY <3>2, <4>1 DEF Launcher!Returns, Launcher!NoCall
      <4>3. QED  BY <3>2, <4>2 DEF launchVars
    <3>3. QED  BY <1>3, <3>1, <3>2 DEF CallCancelled
  <2> HIDE DEF NoGate
  <2>5. QED  BY <2>1, <2>2, <2>3, <2>4, LeavesInv
<1>4. QED  BY <1>2, <1>3

LEMMA QueueMovesInv ==
  ASSUME Distinct, Inv, QueueMoves
  PROVE  Inv'
<1> USE DEF Inv
<1>1. Launcher!QueueStep /\ UNCHANGED <<row, claim, gate, reader>>
  BY DEF QueueMoves
<1>2. Key!Inv'
  BY <1>1, SameQueue, Key!QueueInv DEF Distinct, Key!Distinct
<1>3. /\ UNCHANGED <<call, calls, adds, input>>
      /\ tasks \subseteq tasks' /\ wire' \subseteq wire
      /\ wire = {} => tasks' = tasks
  BY <1>1 DEF Launcher!QueueStep, Launcher!DaemonAdds, Launcher!JobRemoved,
              Launcher!JobBegins
<1>4. Kinds' /\ RowShape' /\ GateShape' /\ Claimed' /\ Given'
  BY <1>1 DEF Kinds, RowShape, GateShape, Claimed, Busy, Recovers, Given
<1>5. Owned' /\ Once' /\ Sent' /\ Seen'
  BY <1>1, <1>3 DEF Owned, Once, Sent, Seen
<1>6. QED  BY <1>2, <1>4, <1>5

\* The row outlives the gateway, and so does what the job owner was told.
LEMMA RestartsInv ==
  ASSUME Distinct, Inv, Restarts
  PROVE  Inv'
<1> USE DEF Inv
<1>1. PICK h \in Callers : gate[h].pc # "idle"
  BY DEF Restarts
<1>2. /\ Launcher!Die(Callers) /\ row' = row /\ claim' = Nobody /\ reader' = NoRead
      /\ gate' = [g \in Callers |-> NoGate]
  BY DEF Restarts
<1>3. /\ \A g \in Callers : call'[g] = Launcher!NoCall
      /\ UNCHANGED <<calls, adds, wire, tasks, input>>
  BY <1>2 DEF Launcher!Die, Launcher!queueVars
<1>4. Key!Inv'
  BY <1>1, <1>2, KeySteps
<1>5. /\ NoGate \in Gate /\ NoGate.pc = "idle" /\ ~NoGate.acked
      /\ NoGate.verdict = "none" /\ NoGate.reply.verdict = "none"
      /\ NoRead \in Read /\ NoRead.pc = "idle"
      /\ Launcher!NoCall.pc = "idle" /\ Launcher!NoCall.request = NoRequest
      /\ Launcher!NoCall.result = "none"
  BY DEF Gate, Answer, NoGate, NoAnswer, NoRead, Read, Launcher!NoCall
<1>6. \A g \in Callers : gate'[g] = NoGate
  BY <1>2
<1> HIDE DEF NoGate, NoRead
<1>7. Kinds' /\ RowShape' /\ GateShape'
  BY <1>2, <1>5, <1>6 DEF Kinds, RowShape, GateShape
<1>8. Claimed' /\ Owned'
  BY <1>2, <1>3, <1>5, <1>6 DEF Claimed, Owned, Busy, Recovers
<1>9. Once' /\ Sent'
  BY <1>2, <1>3, <1>5, <1>6 DEF Once, Sent
<1>10. Seen' /\ Given'
  BY <1>2, <1>3, <1>5, <1>6 DEF Seen, Given
<1>11. QED  BY <1>4, <1>7, <1>8, <1>9, <1>10

-----------------------------------------------------------------------------
(* The invariant, and what it promises.                                    *)

LEMMA InitInv == ASSUME Distinct, Init PROVE Inv
<1>1. /\ NoGate \in Gate /\ NoGate.pc = "idle" /\ ~NoGate.acked
      /\ NoGate.verdict = "none" /\ NoGate.reply.verdict = "none"
      /\ NoRead \in Read /\ NoRead.pc = "idle" /\ NoRow \in Row
      /\ NoRow.request = NoRequest /\ NoRow.state = "absent"
      /\ NoRow.answer = NoAnswer /\ NoAnswer.verdict = "none"
  BY DEF Gate, Answer, NoGate, NoAnswer, NoRead, Read, NoRow, Row
<1>2. /\ row = NoRow /\ claim = Nobody /\ reader = NoRead
      /\ \A g \in Callers : gate[g] = NoGate
      /\ gate = [g \in Callers |-> NoGate]
      /\ \A g \in Callers : call[g] = Launcher!NoCall
      /\ calls = 0 /\ adds = 0 /\ wire = {} /\ tasks = {} /\ input = Launcher!NoInput
  BY DEF Init, Launcher!Init
<1>3. Key!Inv
  <2>1. Key!Init /\ Key!Distinct
    BY DEF Init, Launcher!Init, Key!Init, Launcher!NoInput, Key!NoInput,
           Launcher!NoCall, Key!NoCall, Distinct, Key!Distinct
  <2>2. QED  BY <2>1, Key!InitInv
<1> HIDE DEF NoGate, NoRead, NoRow
<1>4. Kinds /\ RowShape /\ GateShape /\ Claimed
  BY <1>1, <1>2 DEF Kinds, RowShape, GateShape, Claimed, Busy, Recovers
<1>5. Owned /\ Once /\ Sent
  BY <1>1, <1>2 DEF Owned, Once, Sent, Launcher!NoCall, Launcher!NoInput
<1>6. Seen /\ Given
  BY <1>1, <1>2 DEF Seen, Given, Launcher!NoCall
<1>7. QED  BY <1>3, <1>4, <1>5, <1>6 DEF Inv

LEMMA NextInv == ASSUME Distinct, Inv, [Next]_vars PROVE Inv'
<1>1. ASSUME NEW g \in Callers,
             (\E r \in Requests : Request(g, r)) \/ CallStep(g) \/ CallCancelled(g)
      PROVE  Inv'
  BY <1>1, BeginsInv, ClaimsInv, RunsInv, OwnerStepsInv, OwnerReturnsInv,
     SettlesInv, RecoversInv DEF CallStep
<1>2. CASE ReadsRow \/ Probes \/ ProbeEnds \/ ReadReturns
  BY <1>2, ReaderInv
<1>3. CASE QueueMoves
  BY <1>3, QueueMovesInv
<1>4. CASE Restarts
  BY <1>4, RestartsInv
<1>5. CASE UNCHANGED vars
  <2>1. UNCHANGED launchVars /\ UNCHANGED <<row, claim, gate, reader>>
    BY <1>5 DEF vars
  <2>2. Key!Inv'
    BY <2>1, KeyRests DEF Inv
  <2>3. QED
    BY <2>1, <2>2 DEF launchVars, Inv, Kinds, RowShape, GateShape, Claimed, Busy,
                      Recovers, Owned, Once, Sent, Seen, Given
<1>6. QED  BY <1>1, <1>2, <1>3, <1>4, <1>5 DEF Next, AtRest

\* The row of an answered key is never written again.
LEMMA RowStays ==
  ASSUME Distinct, Inv, [Next]_vars, row.state = "confirmed"
  PROVE  row' = row
<1>1. row # NoRow /\ \A g \in Callers : ~Busy(g)
  BY DEF Inv, Claimed, NoRow
<1>2. ASSUME NEW g \in Callers, CallStep(g) \/ CallCancelled(g)
      PROVE  row' = row
  <2>1. CASE Claims(g)
    BY <1>1, <2>1 DEF Claims
  <2>2. CASE Settles(g) \/ RecoverCompletes(g)
    BY <2>2 DEF Settles, RecoverCompletes, Completes, Abandons
  <2>3. CASE CallCancelled(g)
    BY <2>3 DEF CallCancelled, Abandons
  <2>4. QED
    BY <1>2, <2>1, <2>2, <2>3
       DEF CallStep, TriesLock, Runs, OwnerSteps, OwnerReturns, RecoverReads,
           RecoverLooks, RecoverJudges, Returns
<1>3. QED
  BY <1>2 DEF Next, Request, ReadsRow, Probes, ProbeEnds, ReadReturns, QueueMoves,
              Restarts, AtRest, vars

LEMMA TrueAnswers == ASSUME Inv PROVE ExecutesOnce /\ AnswersAreTrue
<1> USE DEF Inv
<1>1. calls \in 0..1
  BY DEF Once
<1>2. tasks # {} => input.request = row.request
  BY DEF Key!Inv, Key!OneSent, Key!Sent, Sent
<1>3. calls = 0 => adds = 0
  BY DEF Sent
<1>4. ASSUME NEW answer, answer = row.answer
      PROVE  /\ answer.verdict = "ok" => tasks # {} /\ input.request = row.request
             /\ answer.verdict = "refused" => adds = 0 /\ calls = 0
  BY <1>2, <1>3, <1>4 DEF Seen, Once
<1>5. ASSUME NEW g \in Callers
      PROVE  /\ gate[g].reply.verdict = "ok" =>
                  tasks # {} /\ input.request = row.request
             /\ gate[g].reply.verdict = "refused" => adds = 0 /\ calls = 0
  BY <1>4 DEF Given
<1>6. QED  BY <1>1, <1>4, <1>5 DEF ExecutesOnce, AnswersAreTrue

LEMMA AnswersAgree ==
  ASSUME Distinct, Inv, [Next]_vars
  PROVE  /\ row.state = "confirmed" => row' = row
         /\ \A g \in Callers :
              gate'[g].reply.verdict \in {"ok", "refused"}
                => gate'[g].reply = row'.answer
BY NextInv, RowStays DEF Inv, Given

\* For all callers, requests, retries and restarts: the job owner is called
\* once for a key of the gateway.
THEOREM ExecutedOnce ==
  ASSUME Distinct
  PROVE  Spec => []ExecutesOnce
<1>1. Init => Inv
  BY InitInv
<1>2. Inv /\ [Next]_vars => Inv'
  BY NextInv
<1>3. Inv => ExecutesOnce
  BY TrueAnswers
<1>4. QED  BY <1>1, <1>2, <1>3, PTL DEF Spec

\* An "ok" names a job of the very request, and after a refusal nothing was
\* sent or will be, whatever settled the key: its call or a later one.
THEOREM TruthfulAnswers ==
  ASSUME Distinct
  PROVE  Spec => []AnswersAreTrue
<1>1. Init => Inv
  BY InitInv
<1>2. Inv /\ [Next]_vars => Inv'
  BY NextInv
<1>3. Inv => AnswersAreTrue
  BY TrueAnswers
<1>4. QED  BY <1>1, <1>2, <1>3, PTL DEF Spec

\* The first answer stays, and every caller that is given one is given it.
THEOREM SameAnswer ==
  ASSUME Distinct
  PROVE  Spec => OneAnswer
<1>1. Init => Inv
  BY InitInv
<1>2. Inv /\ [Next]_vars => Inv'
  BY NextInv
<1>3. Inv /\ [Next]_vars =>
        [/\ row.state = "confirmed" => row' = row
         /\ \A g \in Callers :
              gate'[g].reply.verdict \in {"ok", "refused"}
                => gate'[g].reply = row'.answer]_vars
  BY AnswersAgree
<1>4. QED  BY <1>1, <1>2, <1>3, PTL DEF Spec, OneAnswer

-----------------------------------------------------------------------------
(* The types, and the promise of KeyedLaunch under the gateway.            *)

Bounds == MaxCalls \in Nat /\ MaxRequests \in Nat /\ MaxReads \in Nat /\ MaxRestarts \in Nat

Bounded ==
  /\ Key!Counted
  /\ bounds \in [requests : 0..MaxRequests, reads : 0..MaxReads,
                 restarts : 0..MaxRestarts]

\* What a step of the gateway's is to the launch under the key.
LEMMA LaunchPart ==
  ASSUME Distinct, Inv, [Next]_vars
  PROVE  \/ [Key!Next]_(Key!vars)
         \/ Key!Die(Callers)
<1>1. UNCHANGED launchVars => UNCHANGED Key!vars
  BY DEF launchVars, Key!vars, Key!queueVars
<1>2. ASSUME NEW g \in Callers,
             \/ \E r \in Requests : Launcher!Calls(g, r)
             \/ Launcher!LaunchStep(g) \/ Launcher!Returns(g)
      PROVE  Key!Next
  BY <1>2, SameSteps DEF Key!Next, Key!CallStep
<1>3. ASSUME NEW g \in Callers, CallStep(g) \/ CallCancelled(g)
      PROVE  Key!Next \/ UNCHANGED launchVars
  <2>1. CASE Runs(g)
    <3>1. gate[g].request \in Requests
      BY <2>1 DEF Runs, Inv, GateShape
    <3>2. QED  BY <1>2, <2>1, <3>1 DEF Runs
  <2>2. CASE OwnerSteps(g) \/ OwnerReturns(g) \/ CallCancelled(g)
    BY <1>2, <2>2 DEF OwnerSteps, OwnerReturns, CallCancelled
  <2>3. QED
    BY <1>3, <2>1, <2>2
       DEF CallStep, TriesLock, Claims, Settles, RecoverReads, RecoverLooks,
           RecoverJudges, RecoverCompletes, Returns
<1>4. CASE QueueMoves
  BY <1>4, SameQueue DEF QueueMoves, Key!Next
<1>5. CASE Restarts
  <2>1. PICK g \in Callers : gate[g].pc # "idle"
    BY <1>5 DEF Restarts
  <2>2. QED  BY <1>5, <2>1, SameSteps DEF Restarts
<1>6. CASE UNCHANGED vars
  BY <1>1, <1>6 DEF vars
<1>7. QED
  BY <1>1, <1>3, <1>4, <1>5, <1>6
     DEF Next, Request, ReadsRow, Probes, ProbeEnds, ReadReturns, AtRest

LEMMA NextBounded ==
  ASSUME Distinct, Bounds, Inv, Bounded, [Next]_vars
  PROVE  Bounded'
<1> USE DEF Bounded, Bounds, Inv
<1>1. Key!Counted'
  <2>1. CASE [Key!Next]_(Key!vars)
    BY <2>1, Key!NextCounted
  <2>2. CASE Key!Die(Callers)
    BY <2>2, Key!DieCounted
  <2>3. QED  BY <2>1, <2>2, LaunchPart
<1>2. CASE UNCHANGED bounds
  BY <1>1, <1>2
<1>3. CASE \E g \in Callers, r \in Requests : Request(g, r)
  BY <1>1, <1>3 DEF Request
<1>4. CASE ReadsRow
  BY <1>1, <1>4 DEF ReadsRow
<1>5. CASE Restarts
  BY <1>1, <1>5 DEF Restarts
<1>6. QED
  BY <1>2, <1>3, <1>4, <1>5
     DEF Next, CallStep, TriesLock, Claims, Runs, OwnerSteps, OwnerReturns,
         CallCancelled, Settles, RecoverReads, RecoverLooks, RecoverJudges,
         RecoverCompletes, Returns, Probes, ProbeEnds, ReadReturns, QueueMoves, AtRest,
         vars

LEMMA BoundedTypes == ASSUME Bounds, Inv, Bounded PROVE TypeOK
<1>1. Key!TypeOK
  BY Key!CountedTypes DEF Inv, Bounds, Bounded
<1>2. Launcher!TypeOK
  BY <1>1 DEF Key!TypeOK, Launcher!TypeOK, Key!Input, Launcher!Input, Key!Call,
              Launcher!Call, Key!Adds, Launcher!Adds
<1>3. QED  BY <1>2 DEF TypeOK, Inv, Kinds, Bounded

LEMMA InitBounded == ASSUME Bounds, Init PROVE Bounded
<1>1. Key!Init
  BY DEF Init, Launcher!Init, Key!Init, Launcher!NoInput, Key!NoInput,
         Launcher!NoCall, Key!NoCall
<1>2. QED  BY <1>1, Key!InitCounted DEF Init, Bounds, Bounded

\* The variables have their types, within the bounds.
THEOREM TypesOfTheGateway ==
  ASSUME Distinct, Bounds
  PROVE  Spec => []TypeOK
<1>1. Init => Inv /\ Bounded
  BY InitInv, InitBounded
<1>2. Inv /\ Bounded /\ [Next]_vars => Inv' /\ Bounded'
  BY NextInv, NextBounded
<1>3. Inv /\ Bounded => TypeOK
  BY BoundedTypes
<1>4. QED  BY <1>1, <1>2, <1>3, PTL DEF Spec

\* The calls of a gateway, and its restarts, are to the abstract launch what
\* the processes of KeyedLaunch and their deaths are.
LEMMA PromiseStep ==
  ASSUME Distinct, Inv, [Next]_vars
  PROVE  [Key!Promise!Next]_(Key!Promise!vars)
<1>1. Key!Distinct /\ Key!Inv
  BY DEF Distinct, Key!Distinct, Inv
<1>2. CASE [Key!Next]_(Key!vars)
  BY <1>1, <1>2, Key!StepRefines
<1>3. CASE Key!Die(Callers)
  <2>1. Key!Promise!Forget(Callers)
    BY <1>1, <1>3, Key!Forgets DEF Key!Die, Key!queueVars
  <2>2. QED  BY <2>1 DEF Key!Promise!Next
<1>4. QED  BY <1>2, <1>3, LaunchPart
=============================================================================
