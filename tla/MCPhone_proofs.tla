---------------------------- MODULE MCPhone_proofs ----------------------------
(***************************************************************************)
(* What holds of PhoneIntents for all threads, contents and bounds, of the *)
(* uploads and the confirmations that MCPhone puts beside it for all       *)
(* threads, contents, messages and faults, and what is then true of the    *)
(* whole dispatcher, with what is proved of the log of a day.              *)
(***************************************************************************)
EXTENDS MCPhone, TLAPS

Held == {"check", "act", "receipt", "trigger", "record"}
Acted == {"receipt", "trigger", "record"}

\* The effect was brought about, or is known to have been.
Done == kind = "trace" \/ effect.done = 1 \/ effect.lost

\* Who is past the lock has it.
OneRunner == \A r \in Runners : run[r].pc \in Held => lock = r

\* What is executed is of the token, and the sweep executes what is in the file.
OwnContent ==
  /\ \A r \in Runners : run[r].pc # "idle" => run[r].content \in Contents
  /\ run[Sweep].pc # "idle" => run[Sweep].content = Queued

\* A record that lets it be done again is of what was not done; one that says
\* that it was, of what was.
Truthful(t) ==
  /\ t.outcome \in {"absent", "failed"} => effect.done = 0
  /\ t.outcome = "completed" => Done

\* What is on record, now or after a power cut, is true.
Record == token \in durable /\ \A t \in durable : Truthful(t)

\* What is completed may at most be in flight again after a power cut.
Settled ==
  token.outcome = "completed" =>
    \A t \in durable :
      t.content = token.content /\ t.outcome \in {"completed", "in_flight"}

\* While it is executed the record is in flight, durably.
Executing ==
  \A r \in Runners :
    /\ run[r].pc \in Acted \cup {"act"} =>
         durable = {[content |-> run[r].content, outcome |-> "in_flight"]}
    /\ run[r].pc = "act" => effect.done = 0
    /\ run[r].pc \in Acted =>
         /\ run[r].outcome \in Outcomes
         /\ run[r].outcome = "failed" => effect.done = 0
         /\ run[r].outcome = "completed" => Done

\* An ok is said of what is on record.
OkRecorded ==
  \A r \in Runners :
    run[r].pc = "told" /\ Ok(r) =>
      token = [content |-> run[r].content, outcome |-> "completed"]

Forgotten(c) == c \notin held \/ (c = Queued /\ file = NoContent)

\* Of what was forgotten something is on record that forbids another execution,
\* whatever the power takes, and none is under way.
Remembered ==
  \A c \in Contents : Forgotten(c) =>
    /\ \A t \in durable :
         t.content = c /\ t.outcome \in {"completed", "in_flight"}
    /\ \A r \in Runners : run[r].pc \notin Acted \cup {"act"}

Inv == /\ TypeOK /\ OneRunner /\ OwnContent /\ Record /\ Settled /\ Executing
       /\ OkRecorded /\ Remembered /\ ActsOnce /\ ForgottenWasDone

PcType == {"idle", "lock", "check", "act", "receipt", "trigger", "record", "told"}
OutcomeType == Outcomes \cup {"none", "conflict", "duplicate"}
RunType == [pc : PcType, content : Contents \cup {NoContent}, outcome : OutcomeType]
ScoreType == [pending : BOOLEAN, running : BOOLEAN, pass : BOOLEAN]
EffectType == [done : 0..3, synced : BOOLEAN, lost : BOOLEAN]

LEMMA NoRunType == NoRun = [pc |-> "idle", content |-> NoContent, outcome |-> "none"]
                   /\ NoRun \in RunType
  BY DEF NoRun, RunType, PcType, OutcomeType, Outcomes

LEMMA RunUpdated ==
  ASSUME run \in [Runners -> RunType], NEW r \in Runners, NEW pc \in PcType,
         NEW outcome \in OutcomeType,
         run' = [run EXCEPT ![r].pc = pc, ![r].outcome = outcome]
  PROVE  run' \in [Runners -> RunType]
<1> DEFINE one == [run EXCEPT ![r].pc = pc]
<1>1. one \in [Runners -> RunType]
  BY DEF RunType
<1>2. [one EXCEPT ![r].outcome = outcome] \in [Runners -> RunType]
  <2> HIDE DEF one
  <2> QED BY <1>1 DEF RunType
<1>3. QED  BY <1>2

LEMMA ScoreField ==
  ASSUME NEW f \in [Processes -> ScoreType], NEW p \in Processes, NEW v \in BOOLEAN
  PROVE  /\ [f EXCEPT ![p].pending = v] \in [Processes -> ScoreType]
         /\ [f EXCEPT ![p].running = v] \in [Processes -> ScoreType]
         /\ [f EXCEPT ![p].pass = v] \in [Processes -> ScoreType]
<1>1. [f EXCEPT ![p].pending = v] \in [Processes -> ScoreType]
 BY DEF ScoreType
<1>2. [f EXCEPT ![p].running = v] \in [Processes -> ScoreType]
 BY DEF ScoreType
<1>3. [f EXCEPT ![p].pass = v] \in [Processes -> ScoreType]
 BY DEF ScoreType
<1>4. QED  BY <1>1, <1>2, <1>3

LEMMA Scored ==
  ASSUME NEW f \in [Processes -> ScoreType], NEW p \in Processes
  PROVE  /\ [f EXCEPT ![p].pending = TRUE, ![p].running = TRUE] \in [Processes -> ScoreType]
         /\ [f EXCEPT ![p].pending = FALSE, ![p].pass = TRUE] \in [Processes -> ScoreType]
<1>1. [f EXCEPT ![p].pending = TRUE, ![p].running = TRUE] \in [Processes -> ScoreType]
  <2> DEFINE g == [f EXCEPT ![p].pending = TRUE]
  <2>1. g \in [Processes -> ScoreType]  BY ScoreField
  <2> HIDE DEF g
  <2>2. [g EXCEPT ![p].running = TRUE] \in [Processes -> ScoreType] BY <2>1, ScoreField
  <2> QED  BY <2>2 DEF g
<1>2. [f EXCEPT ![p].pending = FALSE, ![p].pass = TRUE] \in [Processes -> ScoreType]
  <2> DEFINE g == [f EXCEPT ![p].pending = FALSE]
  <2>1. g \in [Processes -> ScoreType]  BY ScoreField
  <2> HIDE DEF g
  <2>2. [g EXCEPT ![p].pass = TRUE] \in [Processes -> ScoreType] BY <2>1, ScoreField
  <2> QED  BY <2>2 DEF g
<1>3. QED BY <1>1, <1>2

LEMMA EffectFields ==
  ASSUME NEW e \in EffectType
  PROVE  /\ [e EXCEPT !.done = 0, !.lost = TRUE] \in EffectType
         /\ [e EXCEPT !.done = 0, !.lost = TRUE].done = 0
         /\ [e EXCEPT !.done = 0, !.lost = TRUE].lost
         /\ e.done = 0 =>
              /\ [e EXCEPT !.done = @ + 1] \in EffectType
              /\ [e EXCEPT !.done = @ + 1].done = 1
              /\ [e EXCEPT !.done = @ + 1, !.synced = FALSE] \in EffectType
              /\ [e EXCEPT !.done = @ + 1, !.synced = FALSE].done = 1
<1>1. /\ [e EXCEPT !.done = 0, !.lost = TRUE] \in EffectType
      /\ [e EXCEPT !.done = 0, !.lost = TRUE].done = 0
      /\ [e EXCEPT !.done = 0, !.lost = TRUE].lost
  <2> DEFINE g == [e EXCEPT !.done = 0]
  <2>1. g \in EffectType /\ g.done = 0  BY DEF EffectType
  <2> HIDE DEF g
  <2>2. /\ [g EXCEPT !.lost = TRUE] \in EffectType
        /\ [g EXCEPT !.lost = TRUE].done = 0 /\ [g EXCEPT !.lost = TRUE].lost
    BY <2>1 DEF EffectType
  <2>3. QED  BY <2>2 DEF g
<1>2. ASSUME e.done = 0
      PROVE  /\ [e EXCEPT !.done = @ + 1] \in EffectType
             /\ [e EXCEPT !.done = @ + 1].done = 1
             /\ [e EXCEPT !.done = @ + 1, !.synced = FALSE] \in EffectType
             /\ [e EXCEPT !.done = @ + 1, !.synced = FALSE].done = 1
  <2> DEFINE g == [e EXCEPT !.done = @ + 1]
  <2>1. g \in EffectType /\ g.done = 1  BY <1>2 DEF EffectType
  <2> HIDE DEF g
  <2>2. /\ [g EXCEPT !.synced = FALSE] \in EffectType
        /\ [g EXCEPT !.synced = FALSE].done = 1
    BY <2>1 DEF EffectType
  <2>3. QED  BY <2>1, <2>2 DEF g
<1>3. QED  BY <1>1, <1>2

LEMMA InitInv == Init => Inv
<1> SUFFICES ASSUME Init PROVE Inv
  OBVIOUS
<1>1. TypeOK
  <2>1. token \in TokenRecord
    BY DEF Init, NoToken, TokenRecord
  <2>2. run \in [Runners -> RunType]
    BY NoRunType DEF Init
  <2>3. score \in [Processes -> ScoreType]
    BY DEF Init, NoScore, ScoreType
  <2>4. bounds \in [posts : 0..MaxPosts, sweeps : 0..MaxSweeps,
                    traces : 0..MaxTraces, losses : 0..MaxLosses]
    BY BoundsAssumption DEF Init
  <2>5. QED
    BY <2>1, <2>2, <2>3, <2>4, ValuesAssumption
       DEF Init, TypeOK, RunType, PcType, OutcomeType, ScoreType, EffectType
<1>2. \A r \in Runners : run[r].pc = "idle"
  BY NoRunType DEF Init
<1>3. token.outcome \in {"absent", "unreadable"}
  BY DEF Init, NoToken
<1>4. OneRunner /\ OwnContent /\ Executing /\ OkRecorded
  BY <1>2 DEF OneRunner, OwnContent, Executing, OkRecorded, Held, Acted, Runners
<1>5. Record /\ Settled /\ ActsOnce
  BY <1>3 DEF Init, Record, Truthful, Settled, ActsOnce
<1>6. Remembered /\ ForgottenWasDone
  BY ValuesAssumption DEF Init, Remembered, Forgotten, ForgottenWasDone
<1>7. QED  BY <1>1, <1>4, <1>5, <1>6 DEF Inv

-----------------------------------------------------------------------------
(* An intent arrives.                                                      *)

LEMMA PostsInv ==
  ASSUME Inv, NEW t \in Threads, NEW c \in Contents, Posts(t, c)
  PROVE  Inv'
<1> USE ValuesAssumption, BoundsAssumption DEF Posts, Inv, Runners
<1>1. TypeOK'
  BY DEF TypeOK, Outcomes
<1>2. OneRunner' /\ OwnContent'
  BY DEF TypeOK, OneRunner, OwnContent, Held
<1>3. Record' /\ Settled' /\ Executing' /\ OkRecorded'
  BY DEF TypeOK, Record, Truthful, Settled, Executing, OkRecorded, Acted, Done, Ok
<1>4. Remembered' /\ ActsOnce' /\ ForgottenWasDone'
  BY DEF TypeOK, Remembered, Forgotten, Acted, ActsOnce, ForgottenWasDone
<1>5. QED  BY <1>1, <1>2, <1>3, <1>4

LEMMA SweepReadsInv == ASSUME Inv, SweepReads PROVE Inv'
<1> USE ValuesAssumption, BoundsAssumption DEF SweepReads, Inv, Runners
<1>1. TypeOK' /\ file = Queued
  BY DEF TypeOK, Outcomes
<1>2. OneRunner' /\ OwnContent'
  BY <1>1 DEF TypeOK, OneRunner, OwnContent, Held
<1>3. Record' /\ Settled' /\ Executing' /\ OkRecorded'
  BY DEF TypeOK, Record, Truthful, Settled, Executing, OkRecorded, Acted, Done, Ok
<1>4. Remembered' /\ ActsOnce' /\ ForgottenWasDone'
  BY DEF TypeOK, Remembered, Forgotten, Acted, ActsOnce, ForgottenWasDone
<1>5. QED  BY <1>1, <1>2, <1>3, <1>4

-----------------------------------------------------------------------------
(* execute().                                                              *)

LEMMA LocksInv == ASSUME Inv, NEW r \in Runners, Locks(r) PROVE Inv'
<1> USE ValuesAssumption DEF Locks, Goes, Inv
<1>1. \A q \in Runners : run[q].pc \notin Held
  BY DEF OneRunner
<1>2. TypeOK'
  BY DEF TypeOK
<1>3. OneRunner' /\ OwnContent'
  BY <1>1 DEF TypeOK, OneRunner, OwnContent, Held, Runners
<1>4. Record' /\ Settled' /\ Executing' /\ OkRecorded'
  BY <1>1 DEF TypeOK, Record, Truthful, Settled, Executing, OkRecorded, Held, Acted, Done, Ok
<1>5. Remembered' /\ ActsOnce' /\ ForgottenWasDone'
  BY DEF TypeOK, Remembered, Forgotten, Acted, ActsOnce, ForgottenWasDone
<1>6. QED  BY <1>2, <1>3, <1>4, <1>5

\* An execution that has the lock writes what is new on record: that it is in
\* flight, if it may be run, or what came of it.
Writes(r, record) ==
  /\ record.content = run[r].content
  /\ \/ /\ run[r].pc = "check" /\ record.outcome = "in_flight"
        /\ token.outcome \in {"absent", "failed"}
     \/ run[r].pc = "record" /\ record.outcome = run[r].outcome

\* What is forgotten is not written again, what is written is true, and what is
\* completed was in flight, and nothing else, before.
LEMMA WritesFacts ==
  ASSUME Inv, NEW r \in Runners, NEW record, Writes(r, record),
         record = [content |-> record.content, outcome |-> record.outcome]
  PROVE  /\ record \in TokenRecord /\ Truthful(record)
         /\ token.outcome \in {"absent", "failed", "in_flight"}
         /\ \A c \in Contents : ~Forgotten(c)
         /\ record.outcome = "completed" =>
              durable = {[content |-> record.content, outcome |-> "in_flight"]}
<1> USE DEF Writes, Inv
<1>1. CASE run[r].pc = "check"
  <2>1. record \in TokenRecord
    BY <1>1 DEF OwnContent, TokenRecord
  <2>2. \A c \in Contents : ~Forgotten(c)
    BY <1>1 DEF Record, Remembered
  <2>3. QED  BY <1>1, <2>1, <2>2 DEF Truthful
<1>2. CASE run[r].pc = "record"
  <2>1. /\ durable = {[content |-> run[r].content, outcome |-> "in_flight"]}
        /\ record.outcome \in Outcomes /\ Truthful(record)
        /\ \A c \in Contents : ~Forgotten(c)
    BY <1>2 DEF Executing, Acted, Truthful, Outcomes, Remembered
  <2>2. record \in TokenRecord
    BY <1>2, <2>1 DEF OwnContent, TokenRecord
  <2>3. token.outcome = "in_flight"
    BY <2>1 DEF Record
  <2>4. QED  BY <1>2, <2>1, <2>2, <2>3
<1>3. QED  BY <1>1, <1>2

\* What is on record is written, synced or not; the rest of the invariant is left.
LEMMA WrittenInv ==
  ASSUME Inv, NEW r \in Runners, NEW record, Writes(r, record),
         record = [content |-> record.content, outcome |-> record.outcome],
         token' = record, durable' \in {{record}, durable \cup {record}},
         UNCHANGED <<kind, effect, held, file>>
  PROVE  /\ token' \in TokenRecord /\ durable' \subseteq TokenRecord
         /\ Record' /\ Settled' /\ Remembered' /\ ActsOnce' /\ ForgottenWasDone'
         /\ \A q \in Runners : ~(run[q].pc = "told" /\ Ok(q))
<1> USE DEF Inv
<1>1. /\ record \in TokenRecord /\ Truthful(record)
      /\ token.outcome \in {"absent", "failed", "in_flight"}
      /\ \A c \in Contents : ~Forgotten(c)
      /\ record.outcome = "completed" =>
           durable = {[content |-> record.content, outcome |-> "in_flight"]}
  BY WritesFacts
<1>2. token' \in TokenRecord /\ durable' \subseteq TokenRecord
  BY <1>1 DEF TypeOK
<1>3. Record'
  BY <1>1 DEF Record, Truthful, Done
<1>4. Settled'
  BY <1>1 DEF Settled
<1>5. \A c \in Contents : ~Forgotten(c)'
  BY <1>1 DEF Forgotten
<1>6. Remembered' /\ ActsOnce' /\ ForgottenWasDone'
  BY <1>5 DEF Remembered, Forgotten, ActsOnce, ForgottenWasDone
<1>7. \A q \in Runners : ~(run[q].pc = "told" /\ Ok(q))
  BY <1>1 DEF OkRecorded
<1>8. QED  BY <1>2, <1>3, <1>4, <1>6, <1>7

\* The end of an execution that has the lock: with the record as it was, or
\* with one that it writes.
LEMMA AnswersInv ==
  ASSUME Inv, NEW r \in Runners, run[r].pc \in Held,
         NEW outcome \in Outcomes \cup {"none", "conflict", "duplicate"},
         Answers(r, outcome),
         \/ UNCHANGED <<token, durable>>
         \/ \E record \in {[content |-> run[r].content, outcome |-> o] :
                             o \in Outcomes \cup {"in_flight"}} :
              /\ Writes(r, record) /\ token' = record
              /\ durable' \in {{record}, durable \cup {record}},
         outcome \in {"completed", "duplicate"} =>
           token' = [content |-> run[r].content, outcome |-> "completed"],
         UNCHANGED <<kind, effect, held, file, score, unseen, bounds>>
  PROVE  Inv'
<1> USE DEF Answers, Inv
<1>1. \A q \in Runners \ {r} : run[q].pc \notin Held
  BY ValuesAssumption DEF OneRunner
<1>2. \/ UNCHANGED <<token, durable>>
      \/ /\ token' \in TokenRecord /\ durable' \subseteq TokenRecord
         /\ Record' /\ Settled' /\ Remembered' /\ ActsOnce' /\ ForgottenWasDone'
         /\ \A q \in Runners : ~(run[q].pc = "told" /\ Ok(q))
  BY WrittenInv
<1>3. TypeOK'
  <2>1. token' \in TokenRecord /\ durable' \subseteq TokenRecord
    BY <1>2 DEF TypeOK
  <2>2. run \in [Runners -> RunType]
    BY DEF TypeOK, RunType, PcType, OutcomeType
  <2>3. run' \in [Runners -> RunType]
    BY <2>2, RunUpdated DEF PcType, OutcomeType
  <2>4. QED  BY <2>1, <2>3 DEF TypeOK, RunType, PcType, OutcomeType
<1>4. OneRunner' /\ OwnContent'
  BY <1>1 DEF TypeOK, OneRunner, OwnContent, Held, Runners
<1>5. \A q \in Runners : run'[q].pc \notin Acted \cup {"act"}
  BY <1>1 DEF TypeOK, Held, Acted
<1>6. Executing'
  BY <1>5 DEF Executing, Acted
<1>7. Record' /\ Settled' /\ Remembered' /\ ActsOnce' /\ ForgottenWasDone'
  <2>1. CASE UNCHANGED <<token, durable>>
    BY <1>5, <2>1 DEF Record, Truthful, Done, Settled, Remembered, Forgotten, ActsOnce,
                      ForgottenWasDone
  <2>2. QED  BY <1>2, <2>1
<1>8. OkRecorded'
  BY <1>2 DEF TypeOK, OkRecorded, Ok
<1>9. QED  BY <1>3, <1>4, <1>6, <1>7, <1>8

LEMMA BeginsInv ==
  ASSUME Inv, NEW r \in Runners, Checks(r),
         token.outcome \in {"absent", "failed"}, Goes(r, "act"), UNCHANGED lock,
         Publishes([content |-> run[r].content, outcome |-> "in_flight"])
  PROVE  Inv'
<1> DEFINE record == [content |-> run[r].content, outcome |-> "in_flight"]
<1> USE DEF Checks, Goes, Publishes, Inv
<1>1. \A q \in Runners \ {r} : run[q].pc \notin Held
  BY ValuesAssumption DEF OneRunner, Held
<1>2. /\ token' \in TokenRecord /\ durable' \subseteq TokenRecord
      /\ Record' /\ Settled' /\ ActsOnce' /\ ForgottenWasDone'
      /\ \A q \in Runners : ~(run[q].pc = "told" /\ Ok(q))
  BY WrittenInv DEF Writes
<1>3. \A c \in Contents : ~Forgotten(c)
  BY WritesFacts DEF Writes
<1>4. TypeOK'
  BY <1>2 DEF TypeOK
<1>5. OneRunner' /\ OwnContent'
  BY DEF TypeOK, OneRunner, OwnContent, Held, Runners
<1>6. Executing'
  BY <1>1 DEF TypeOK, Record, Truthful, Executing, Held, Acted
<1>7. OkRecorded'
  BY <1>2 DEF TypeOK, OkRecorded, Ok
<1>8. Remembered'
  BY <1>3 DEF Remembered, Forgotten
<1>9. QED  BY <1>2, <1>4, <1>5, <1>6, <1>7, <1>8

LEMMA ChecksInv == ASSUME Inv, NEW r \in Runners, Checks(r) PROVE Inv'
<1> DEFINE record == [content |-> run[r].content, outcome |-> "in_flight"]
<1>1. UNCHANGED <<kind, effect, held, file, score, unseen, bounds>>
      /\ run[r].pc \in Held /\ run[r].pc = "check"
  BY DEF Checks, Held
<1>2. CASE /\ token.outcome \in {"absent", "failed"}
           /\ Goes(r, "act") /\ UNCHANGED lock /\ Publishes(record)
  BY <1>2, BeginsInv
<1>3. CASE /\ token.outcome \in {"absent", "failed"}
           /\ Answers(r, "none") /\ PublishFails(record)
  <2>1. Writes(r, record)
    BY <1>1, <1>3 DEF Writes
  <2>2. QED  BY <1>1, <1>3, <2>1, AnswersInv DEF PublishFails
<1>4. ASSUME NEW outcome \in {"indeterminate", "conflict"},
             Answers(r, outcome), UNCHANGED <<token, durable>>
      PROVE  Inv'
  BY <1>1, <1>4, AnswersInv DEF Outcomes
<1>5. CASE Answers(r, "duplicate") /\ UNCHANGED <<token, durable>>
           /\ token.outcome = "completed" /\ token.content = run[r].content
  <2>1. token' = [content |-> run[r].content, outcome |-> "completed"]
    BY <1>5 DEF Inv, TypeOK, TokenRecord
  <2>2. QED  BY <1>1, <1>5, <2>1, AnswersInv DEF Outcomes
<1>6. QED  BY <1>2, <1>3, <1>4, <1>5 DEF Checks, Begins

LEMMA ActsInv == ASSUME Inv, NEW r \in Runners, Acts(r) PROVE Inv'
<1> USE DEF Acts, Inv
<1>1. /\ \A q \in Runners \ {r} : run[q].pc \notin Held
      /\ durable = {[content |-> run[r].content, outcome |-> "in_flight"]}
      /\ token.outcome = "in_flight" /\ effect.done = 0
      /\ \A c \in Contents : ~Forgotten(c)
  BY ValuesAssumption DEF OneRunner, Held, Executing, Record, Remembered
<1>2. /\ effect' \in EffectType /\ effect'.done \in {0, 1}
      /\ \E pc \in Acted, outcome \in {"completed", "failed"} :
           /\ run' = [run EXCEPT ![r].pc = pc, ![r].outcome = outcome]
           /\ outcome = "failed" => effect'.done = 0
           /\ outcome = "completed" => kind = "trace" \/ effect'.done = 1
  <2> DEFINE Went(pc, outcome) ==
        run' = [run EXCEPT ![r].pc = pc, ![r].outcome = outcome]
  <2>1. effect \in EffectType
    BY DEF TypeOK, EffectType
  <2>2. \/ Went("receipt", "completed") /\ effect' = [effect EXCEPT !.done = @ + 1]
        \/ Went("receipt", "failed") /\ effect' = effect
        \/ /\ Went("record", "completed")
           /\ effect' = [effect EXCEPT !.done = @ + 1, !.synced = FALSE]
        \/ Went("record", "failed") /\ effect' = effect
        \/ Went("trigger", "completed") /\ effect' = effect /\ kind = "trace"
    OBVIOUS
  <2>3. CASE effect' = [effect EXCEPT !.done = @ + 1]
             /\ Went("receipt", "completed")
    <3>1. effect' \in EffectType /\ effect'.done = 1
      BY <1>1, <2>1, <2>3, EffectFields
    <3>2. QED  BY <2>3, <3>1 DEF Acted
  <2>4. CASE effect' = [effect EXCEPT !.done = @ + 1, !.synced = FALSE]
             /\ Went("record", "completed")
    <3>1. effect' \in EffectType /\ effect'.done = 1
      BY <1>1, <2>1, <2>4, EffectFields
    <3>2. QED  BY <2>4, <3>1 DEF Acted
  <2>5. CASE effect' = effect /\ (Went("receipt", "failed") \/ Went("record", "failed"))
    BY <1>1, <2>1, <2>5 DEF Acted
  <2>6. CASE effect' = effect /\ kind = "trace" /\ Went("trigger", "completed")
    BY <1>1, <2>1, <2>6 DEF Acted
  <2>7. QED  BY <2>2, <2>3, <2>4, <2>5, <2>6
<1>3. TypeOK'
  <2>1. run \in [Runners -> RunType]
    BY DEF TypeOK, RunType, PcType, OutcomeType
  <2>2. run' \in [Runners -> RunType]
    BY <1>2, <2>1, RunUpdated DEF PcType, OutcomeType, Acted, Outcomes
  <2>3. QED  BY <1>2, <2>2 DEF TypeOK, RunType, PcType, OutcomeType, EffectType
<1>4. OneRunner' /\ OwnContent'
  BY <1>2 DEF TypeOK, OneRunner, OwnContent, Held, Acted, Runners
<1>5. Record' /\ Settled' /\ OkRecorded'
  BY <1>1, <1>2 DEF TypeOK, Record, Truthful, Settled, OkRecorded, Ok, Acted
<1>6. Remembered' /\ ActsOnce' /\ ForgottenWasDone'
  BY <1>1, <1>2 DEF Remembered, Forgotten, ActsOnce, ForgottenWasDone
<1>7. Executing'
  BY <1>1, <1>2 DEF TypeOK, Executing, Held, Acted, Done, Outcomes
<1>8. QED  BY <1>3, <1>4, <1>5, <1>6, <1>7

\* What comes after the effect and before the record: the outcome stays, or
\* nothing is said of it.
LEMMA FollowsInv ==
  ASSUME Inv, NEW r \in Runners, run[r].pc \in Acted,
         NEW outcome \in {run[r].outcome, "indeterminate"},
         run' = [run EXCEPT ![r].pc = "record", ![r].outcome = outcome],
         score' \in [Processes -> ScoreType],
         UNCHANGED <<kind, token, durable, lock, effect, held, file, unseen, bounds>>
  PROVE  Inv'
<1> USE DEF Inv
<1>1. outcome \in Outcomes
  BY DEF Executing, Outcomes
<1>2. TypeOK'
  <2>1. run \in [Runners -> RunType]
    BY DEF TypeOK, RunType, PcType, OutcomeType
  <2>2. run' \in [Runners -> RunType]
    BY <1>1, <2>1, RunUpdated DEF PcType, OutcomeType
  <2>3. QED  BY <2>2 DEF TypeOK, RunType, PcType, OutcomeType, ScoreType
<1>3. OneRunner' /\ OwnContent'
  BY DEF TypeOK, OneRunner, OwnContent, Held, Acted, Runners
<1>4. Record' /\ Settled' /\ Remembered' /\ ActsOnce' /\ ForgottenWasDone'
  BY DEF TypeOK, Record, Truthful, Done, Settled, Remembered, Forgotten, Acted, ActsOnce,
         ForgottenWasDone
<1>5. Executing'
  BY <1>1 DEF TypeOK, Executing, Acted, Done
<1>6. OkRecorded'
  BY DEF TypeOK, OkRecorded, Ok
<1>7. QED  BY <1>2, <1>3, <1>4, <1>5, <1>6

LEMMA ReceiptsInv == ASSUME Inv, NEW r \in Runners, Receipts(r) PROVE Inv'
<1>1. PICK outcome \in {run[r].outcome, "indeterminate"} :
        run' = [run EXCEPT ![r].pc = "record", ![r].outcome = outcome]
  BY DEF Receipts, Goes, Inv, TypeOK
<1>2. QED  BY <1>1, FollowsInv DEF Receipts, Acted, ScoreType, Inv, TypeOK

LEMMA TriggersInv == ASSUME Inv, NEW r \in Runners, Triggers(r) PROVE Inv'
<1>1. PICK outcome \in {run[r].outcome, "indeterminate"} :
        run' = [run EXCEPT ![r].pc = "record", ![r].outcome = outcome]
  BY DEF Triggers, Goes, Inv, TypeOK
<1>2. score' \in [Processes -> ScoreType]
  <2> DEFINE p == ProcessOf(r)
  <2>1. p \in Processes /\ score \in [Processes -> ScoreType]
    BY DEF ProcessOf, Processes, ScoreType, Inv, TypeOK
  <2>2. \/ score' = [score EXCEPT ![p].pending = TRUE, ![p].running = TRUE]
        \/ score' = [score EXCEPT ![p].pending = TRUE]
    BY DEF Triggers, Scores
  <2> HIDE DEF p
  <2>3. [score EXCEPT ![p].pending = TRUE, ![p].running = TRUE] \in [Processes -> ScoreType]
    BY <2>1, Scored
  <2>4. [score EXCEPT ![p].pending = TRUE] \in [Processes -> ScoreType]
    BY <2>1, ScoreField
  <2>5. QED  BY <2>2, <2>3, <2>4
<1>3. QED  BY <1>1, <1>2, FollowsInv DEF Triggers, Acted

LEMMA RecordsInv == ASSUME Inv, NEW r \in Runners, Records(r) PROVE Inv'
<1> DEFINE record == [content |-> run[r].content, outcome |-> run[r].outcome]
<1>1. UNCHANGED <<kind, effect, held, file, score, unseen, bounds>>
      /\ run[r].pc \in Held /\ run[r].pc = "record" /\ run[r].outcome \in Outcomes
      /\ Writes(r, record)
  BY DEF Records, Held, Inv, Executing, Acted, Writes
<1>2. CASE Publishes(record) /\ Answers(r, run[r].outcome)
  BY <1>1, <1>2, AnswersInv DEF Publishes, Outcomes
<1>3. CASE PublishFails(record) /\ Answers(r, "none")
  BY <1>1, <1>3, AnswersInv DEF PublishFails
<1>4. QED  BY <1>2, <1>3 DEF Records

-----------------------------------------------------------------------------
(* What is done with the answer, and the scoring.                          *)

LEMMA OkMeansDone ==
  ASSUME Inv, NEW r \in Runners, run[r].pc = "told", Ok(r)
  PROVE  /\ Done /\ token = [content |-> run[r].content, outcome |-> "completed"]
         /\ \A t \in durable : /\ t.content = run[r].content
                              /\ t.outcome \in {"completed", "in_flight"}
         /\ \A q \in Runners : run[q].pc \notin Acted \cup {"act"}
<1>1. token = [content |-> run[r].content, outcome |-> "completed"]
  BY DEF Inv, OkRecorded
<1>2. Done
  BY <1>1 DEF Inv, Record, Truthful
<1>3. \A q \in Runners : run[q].pc \notin Acted \cup {"act"}
  BY <1>1 DEF Inv, Record, Executing
<1>4. QED  BY <1>1, <1>2, <1>3 DEF Inv, Settled

LEMMA ToldInv == ASSUME Inv, NEW t \in Threads, Told(t) PROVE Inv'
<1> USE DEF Told, Inv
<1>1. TypeOK'
  BY NoRunType DEF TypeOK, RunType, PcType, OutcomeType, ScoreType, EffectType, Runners
<1>2. OneRunner' /\ OwnContent'
  BY NoRunType DEF TypeOK, OneRunner, OwnContent, Held, Runners
<1>3. Record' /\ Settled' /\ Executing' /\ OkRecorded' /\ ActsOnce'
  BY NoRunType DEF TypeOK, Record, Truthful, Settled, Executing, OkRecorded, ActsOnce,
                   Acted, Done, Ok, Runners
<1>4. ForgottenWasDone'
  BY OkMeansDone DEF ForgottenWasDone, Done, Runners
<1>5. Remembered'
  BY OkMeansDone, NoRunType DEF TypeOK, Remembered, Forgotten, Acted, Runners
<1>6. QED  BY <1>1, <1>2, <1>3, <1>4, <1>5

LEMMA SweepEndsInv == ASSUME Inv, SweepEnds PROVE Inv'
<1> USE DEF SweepEnds, Inv
<1>1. TypeOK'
  <2>1. score' \in [Processes -> ScoreType]
    BY DEF TypeOK, NoScore, ScoreType, Processes
  <2>2. run' \in [Runners -> RunType]
    BY NoRunType DEF TypeOK, RunType, PcType, OutcomeType, ScoreType, EffectType
  <2>3. QED  BY <2>1, <2>2 DEF TypeOK, RunType, PcType, OutcomeType, ScoreType, EffectType
<1>2. OneRunner' /\ OwnContent'
  BY NoRunType DEF TypeOK, OneRunner, OwnContent, Held, Runners
<1>3. Record' /\ Settled' /\ Executing' /\ OkRecorded' /\ ActsOnce'
  BY NoRunType DEF TypeOK, Record, Truthful, Settled, Executing, OkRecorded, ActsOnce,
                   Acted, Done, Ok, Runners
<1>4. Sweep \in Runners /\ run[Sweep].content = Queued
  BY DEF OwnContent, Runners
<1>5. ForgottenWasDone'
  BY <1>4, OkMeansDone, ValuesAssumption DEF ForgottenWasDone, Done
<1>6. Remembered'
  BY <1>4, OkMeansDone, NoRunType DEF TypeOK, Remembered, Forgotten, Acted, Runners
<1>7. QED  BY <1>1, <1>2, <1>3, <1>5, <1>6

\* Nothing of the invariant but types is about the scoring and the bounds.
LEMMA ScoringInv ==
  ASSUME Inv, TypeOK', bounds'.losses >= bounds.losses,
         UNCHANGED <<kind, token, durable, lock, run, effect, held, file>>
  PROVE  Inv'
<1>1. ForgottenWasDone'
  BY BoundsAssumption DEF Inv, TypeOK, ForgottenWasDone
<1>2. QED
  BY <1>1 DEF Inv, OneRunner, OwnContent, Record, Truthful, Settled, Executing, OkRecorded,
              Remembered, Forgotten, ActsOnce, Done, Ok

LEMMA OtherTraceInv == ASSUME Inv, OtherTrace PROVE Inv'
<1>1. score' \in [Processes -> ScoreType]
  BY Scored DEF OtherTrace, Scores, ScoreType, Processes, Inv, TypeOK
<1>2. TypeOK'
  BY <1>1, BoundsAssumption DEF OtherTrace, ScoreType, Inv, TypeOK
<1>3. bounds'.losses >= bounds.losses
  BY BoundsAssumption DEF OtherTrace, Inv, TypeOK
<1>4. QED  BY <1>2, <1>3, ScoringInv DEF OtherTrace

LEMMA LoopTurnsInv ==
  ASSUME Inv, NEW p \in Processes, LoopTurns(p) \/ PassEnds(p)
  PROVE  Inv'
<1>1. score' \in [Processes -> ScoreType]
  <2>1. score \in [Processes -> ScoreType]
    BY DEF ScoreType, Inv, TypeOK
  <2>2. \/ score' = [score EXCEPT ![p].pending = FALSE, ![p].pass = TRUE]
        \/ score' = [score EXCEPT ![p].running = FALSE]
        \/ score' = [score EXCEPT ![p].pass = FALSE]
    BY DEF LoopTurns, PassEnds
  <2>3. [score EXCEPT ![p].pending = FALSE, ![p].pass = TRUE] \in [Processes -> ScoreType]
    BY <2>1, Scored
  <2>4. /\ [score EXCEPT ![p].running = FALSE] \in [Processes -> ScoreType]
        /\ [score EXCEPT ![p].pass = FALSE] \in [Processes -> ScoreType]
    BY <2>1, ScoreField
  <2>5. QED  BY <2>2, <2>3, <2>4
<1>2. TypeOK'
  BY <1>1 DEF LoopTurns, PassEnds, ScoreType, Inv, TypeOK
<1>3. bounds'.losses >= bounds.losses
  BY BoundsAssumption DEF LoopTurns, PassEnds, Inv, TypeOK
<1>4. QED  BY <1>2, <1>3, ScoringInv DEF LoopTurns, PassEnds

-----------------------------------------------------------------------------
(* Losses.                                                                 *)

LEMMA DieFacts ==
  ASSUME Inv, NEW S, Die(S)
  PROVE  /\ run' \in [Runners -> RunType]
         /\ \A r \in Runners : run'[r] = NoRun \/ (run'[r] = run[r] /\ ProcessOf(r) \notin S)
         /\ lock' \in {lock, NoContent}
         /\ \A r \in Runners : lock = r /\ ProcessOf(r) \notin S => lock' = lock
         /\ score' \in [Processes -> ScoreType]
<1> DEFINE dead == {r \in Runners : ProcessOf(r) \in S}
<1>1. run' = [r \in Runners |-> IF r \in dead THEN NoRun ELSE run[r]]
  BY DEF Die
<1>2. run \in [Runners -> RunType]
  BY DEF Inv, TypeOK, RunType, PcType, OutcomeType, ScoreType, EffectType
<1>3. NoRun \in RunType
  BY NoRunType
<1>4. run' \in [Runners -> RunType]
      /\ \A r \in Runners : run'[r] = NoRun \/ (run'[r] = run[r] /\ ProcessOf(r) \notin S)
  BY <1>1, <1>2, <1>3
<1>5. /\ lock' \in {lock, NoContent}
      /\ \A r \in Runners : lock = r /\ ProcessOf(r) \notin S => lock' = lock
  BY DEF Die
<1>6. score' \in [Processes -> ScoreType]
  BY DEF Die, NoScore, ScoreType, Inv, TypeOK
<1>7. QED  BY <1>4, <1>5, <1>6

LEMMA LossType ==
  ASSUME Inv, Loses, run' \in [Runners -> RunType], lock' \in {lock, NoContent},
         score' \in [Processes -> ScoreType],
         effect' \in EffectType,
         token' \in durable, durable' \subseteq durable,
         UNCHANGED <<kind, held, file, unseen>>
  PROVE  TypeOK' /\ bounds'.losses > 0
<1>1. bounds' \in [posts : 0..MaxPosts, sweeps : 0..MaxSweeps,
                   traces : 0..MaxTraces, losses : 0..MaxLosses]
      /\ bounds'.losses > 0
  BY BoundsAssumption DEF Loses, Inv, TypeOK
<1>2. QED  BY <1>1 DEF Inv, TypeOK, RunType, PcType, OutcomeType, ScoreType, EffectType

LEMMA KilledInv == ASSUME Inv, NEW p \in Processes, Killed(p) PROVE Inv'
<1> USE DEF Killed, Inv
<1>1. /\ run' \in [Runners -> RunType] /\ lock' \in {lock, NoContent}
      /\ \A r \in Runners : run'[r] = NoRun \/ (run'[r] = run[r] /\ ProcessOf(r) \notin {p})
      /\ \A r \in Runners : lock = r /\ ProcessOf(r) \notin {p} => lock' = lock
      /\ score' \in [Processes -> ScoreType]
  BY DieFacts
<1>2. TypeOK' /\ bounds'.losses > 0
  BY <1>1, LossType DEF TypeOK, EffectType, Record
<1>3. OneRunner' /\ OwnContent'
  BY <1>1, NoRunType DEF OneRunner, OwnContent, Held, Runners
<1>4. Record' /\ Settled' /\ ActsOnce' /\ ForgottenWasDone'
  BY <1>2 DEF Record, Truthful, Settled, ActsOnce, ForgottenWasDone, Done
<1>5. Executing' /\ OkRecorded' /\ Remembered'
  BY <1>1, NoRunType DEF Executing, OkRecorded, Remembered, Forgotten, Acted, Done, Ok
<1>6. QED  BY <1>2, <1>3, <1>4, <1>5

LEMMA PowerLostInv == ASSUME Inv, PowerLost PROVE Inv'
<1> USE DEF PowerLost, Inv
<1>1. /\ run' \in [Runners -> RunType] /\ lock' \in {lock, NoContent}
      /\ \A r \in Runners : run'[r] = NoRun
      /\ score' \in [Processes -> ScoreType]
  BY DieFacts DEF ProcessOf, Processes
<1>2. /\ effect' \in EffectType
      /\ effect' = effect \/ (effect'.done = 0 /\ effect'.lost)
  <2>1. effect \in EffectType
    BY DEF TypeOK, EffectType
  <2>2. QED  BY <2>1, EffectFields
<1>3. TypeOK' /\ bounds'.losses > 0
  BY <1>1, <1>2, LossType
<1>4. OneRunner' /\ OwnContent' /\ Executing' /\ OkRecorded'
  BY <1>1, NoRunType DEF OneRunner, OwnContent, Executing, OkRecorded, Held, Acted, Runners
<1>5. Record' /\ Settled' /\ ActsOnce'
  BY <1>2 DEF Record, Truthful, Settled, ActsOnce, Done
<1>6. Remembered'
  BY <1>1, NoRunType DEF Remembered, Forgotten, Acted
<1>7. ForgottenWasDone'
  BY <1>2, <1>3 DEF Remembered, Forgotten, ForgottenWasDone
<1>8. QED  BY <1>3, <1>4, <1>5, <1>6, <1>7

-----------------------------------------------------------------------------

LEMMA NextInv == ASSUME Inv, [Next]_vars PROVE Inv'
<1>1. ASSUME NEW t \in Threads, NEW c \in Contents, Posts(t, c) PROVE Inv'
  BY <1>1, PostsInv
<1>2. ASSUME NEW t \in Threads, Told(t) PROVE Inv'
  BY <1>2, ToldInv
<1>3. CASE SweepReads  BY <1>3, SweepReadsInv
<1>4. CASE SweepEnds  BY <1>4, SweepEndsInv
<1>5. CASE OtherTrace  BY <1>5, OtherTraceInv
<1>6. ASSUME NEW r \in Runners, Executes(r) PROVE Inv'
  BY <1>6, LocksInv, ChecksInv, ActsInv, ReceiptsInv, TriggersInv, RecordsInv
     DEF Executes
<1>7. ASSUME NEW p \in Processes, LoopTurns(p) \/ PassEnds(p) \/ Killed(p) PROVE Inv'
  BY <1>7, LoopTurnsInv, KilledInv
<1>8. CASE PowerLost  BY <1>8, PowerLostInv
<1>9. CASE UNCHANGED vars
  <2>1. /\ UNCHANGED <<kind, token, durable, lock, run, effect, held, file>>
        /\ TypeOK' /\ bounds'.losses >= bounds.losses
    BY <1>9, BoundsAssumption DEF vars, Inv, TypeOK
  <2>2. QED  BY <2>1, ScoringInv
<1>10. QED
  BY <1>1, <1>2, <1>3, <1>4, <1>5, <1>6, <1>7, <1>8, <1>9 DEF Next, AtRest

\* Whatever threads, contents and bounds there are, of all the ways in which an
\* intent comes and comes again, across kills and power cuts, one at most
\* brings its effect about.
THEOREM EffectOnce == Spec => []ActsOnce
<1>1. Init => Inv  BY InitInv
<1>2. Inv /\ [Next]_vars => Inv'  BY NextInv
<1>3. Inv => ActsOnce  BY DEF Inv
<1>4. QED  BY <1>1, <1>2, <1>3, PTL DEF Spec

\* Whatever threads, contents and bounds there are, what the phone and the
\* outbox have forgotten was done, under the content that they held, and is on
\* record: as completed, or, when a record that could not be synced went with
\* the power, in flight.
THEOREM NothingForgotten == Spec => []ForgottenWasDone
<1>1. Init => Inv  BY InitInv
<1>2. Inv /\ [Next]_vars => Inv'  BY NextInv
<1>3. Inv => ForgottenWasDone  BY DEF Inv
<1>4. QED  BY <1>1, <1>2, <1>3, PTL DEF Spec

-----------------------------------------------------------------------------
(* The confirmations of one name of the inbox.                             *)

\* The values that stand for no message, and for the file of a claim that has
\* none yet, are two, and no messages.
InboxDistinct ==
  /\ NoContent \notin Messages /\ Empty \notin Messages /\ NoContent # Empty
  /\ MaxInboxFaults \in Nat

\* What a claim holds, at each place of a confirmation, and that the phone has
\* landed what it confirms.
Claims ==
  \A c \in Threads :
    /\ confirmer[c].pc \in {"idle", "inspect", "reserve"} => claims[c] = NoContent
    /\ confirmer[c].pc = "rename" => claims[c] = Empty
    /\ confirmer[c].pc = "unrename" => claims[c] \in Messages \cup {Empty}
    /\ confirmer[c].pc \in {"look", "preserve"} => claims[c] \in Messages
    /\ confirmer[c].pc = "unlink" => claims[c] = confirmer[c].digest
    /\ confirmer[c].pc # "idle" => confirmer[c].digest \in landed

InboxInv == Inbox!TypeOK /\ Claims

InboxPc == {"idle", "inspect", "reserve", "rename", "unrename", "look", "unlink",
           "preserve"}
ConfirmType == [pc : InboxPc, digest : Messages \cup {NoContent}]
ClaimType == Messages \cup {NoContent, Empty}

LEMMA InboxIdle == Inbox!NoConfirm \in ConfirmType /\ Inbox!NoConfirm.pc = "idle"
  BY DEF Inbox!NoConfirm, ConfirmType, InboxPc

LEMMA InboxStarts == ASSUME InboxDistinct, Inbox!Init PROVE InboxInv
<1>1. Inbox!TypeOK
  BY InboxIdle DEF InboxDistinct, Inbox!Init, Inbox!TypeOK, ConfirmType, InboxPc
<1>2. Claims
  BY InboxIdle DEF Inbox!Init, Claims
<1>3. QED  BY <1>1, <1>2 DEF InboxInv

\* A step of one thread: what it and its claim are afterwards is said.
LEMMA OneConfirms ==
  ASSUME InboxInv, NEW c \in Threads, NEW new \in ConfirmType, NEW claim \in ClaimType,
         confirmer' = [confirmer EXCEPT ![c] = new],
         claims' = [claims EXCEPT ![c] = claim],
         entry' \in Messages \cup {NoContent}, left' \subseteq Messages,
         inboxFaults' \in 0..MaxInboxFaults, UNCHANGED <<unpublished, landed>>,
         new.pc \in {"idle", "inspect", "reserve"} => claim = NoContent,
         new.pc = "rename" => claim = Empty,
         new.pc = "unrename" => claim \in Messages \cup {Empty},
         new.pc \in {"look", "preserve"} => claim \in Messages,
         new.pc = "unlink" => claim = new.digest,
         new.pc # "idle" => new.digest \in landed
  PROVE  InboxInv'
<1>1. /\ confirmer \in [Threads -> ConfirmType] /\ claims \in [Threads -> ClaimType]
      /\ unpublished \subseteq Messages /\ landed \subseteq Messages
  BY DEF InboxInv, Inbox!TypeOK, ConfirmType, InboxPc, ClaimType
<1>2. /\ confirmer' \in [Threads -> ConfirmType] /\ claims' \in [Threads -> ClaimType]
      /\ confirmer'[c] = new /\ claims'[c] = claim
      /\ \A d \in Threads \ {c} : confirmer'[d] = confirmer[d] /\ claims'[d] = claims[d]
  BY <1>1
<1>3. Inbox!TypeOK'
  BY <1>1, <1>2 DEF Inbox!TypeOK, ConfirmType, InboxPc, ClaimType
<1>4. Claims'
  BY <1>2 DEF InboxInv, Claims
<1>5. QED  BY <1>3, <1>4 DEF InboxInv

LEMMA InboxParts ==
  ASSUME InboxInv
  PROVE  /\ confirmer \in [Threads -> ConfirmType] /\ claims \in [Threads -> ClaimType]
         /\ unpublished \subseteq Messages /\ landed \subseteq Messages
         /\ left \subseteq Messages /\ inboxFaults \in 0..MaxInboxFaults
         /\ entry \in Messages \cup {NoContent}
  BY DEF InboxInv, Inbox!TypeOK, ConfirmType, InboxPc, ClaimType

LEMMA ConfirmGoes ==
  ASSUME InboxInv, NEW c \in Threads, NEW pc \in InboxPc, Inbox!Goes(c, pc)
  PROVE  /\ confirmer' = [confirmer EXCEPT
                            ![c] = [pc |-> pc, digest |-> confirmer[c].digest]]
         /\ [pc |-> pc, digest |-> confirmer[c].digest] \in ConfirmType
<1>1. confirmer[c] \in ConfirmType
  BY InboxParts
<1>2. [confirmer[c] EXCEPT !.pc = pc] = [pc |-> pc, digest |-> confirmer[c].digest]
  BY <1>1 DEF ConfirmType
<1>3. QED  BY <1>1, <1>2 DEF Inbox!Goes, ConfirmType

\* Only the place of a confirmation changes.
LEMMA GoesKeeps ==
  ASSUME InboxInv, NEW c \in Threads, NEW pc \in InboxPc, Inbox!Goes(c, pc),
         NEW claim \in ClaimType, claims' = [claims EXCEPT ![c] = claim],
         entry' \in Messages \cup {NoContent}, left' = left,
         inboxFaults' \in 0..MaxInboxFaults, UNCHANGED <<unpublished, landed>>,
         pc \notin {"idle", "inspect"}, confirmer[c].pc # "idle",
         pc = "reserve" => claim = NoContent,
         pc = "rename" => claim = Empty,
         pc = "unrename" => claim \in Messages \cup {Empty},
         pc \in {"look", "preserve"} => claim \in Messages,
         pc = "unlink" => claim = confirmer[c].digest
  PROVE  InboxInv'
<1>1. confirmer[c].digest \in landed
  BY DEF InboxInv, Claims
<1> DEFINE new == [pc |-> pc, digest |-> confirmer[c].digest]
<1>2. new \in ConfirmType /\ confirmer' = [confirmer EXCEPT ![c] = new]
  BY ConfirmGoes
<1>3. new.pc = pc /\ new.digest = confirmer[c].digest
  OBVIOUS
<1> HIDE DEF new
<1>4. left' \subseteq Messages
  BY InboxParts
<1>5. QED  BY <1>1, <1>2, <1>3, <1>4, OneConfirms

\* A confirmation ends.
LEMMA IdleKeeps ==
  ASSUME InboxInv, NEW c \in Threads,
         confirmer' = [confirmer EXCEPT ![c] = Inbox!NoConfirm],
         claims' = [claims EXCEPT ![c] = NoContent],
         entry' \in Messages \cup {NoContent}, left' \subseteq Messages,
         inboxFaults' \in 0..MaxInboxFaults, UNCHANGED <<unpublished, landed>>
  PROVE  InboxInv'
BY InboxIdle, OneConfirms DEF ClaimType

-----------------------------------------------------------------------------
(* The steps: each keeps the invariant, and deletes nothing but what was    *)
(* landed.                                                                 *)

Deletes == \A m \in Messages \cap Inbox!Kept :
  m \in Inbox!Kept' \/ m \in landed \/ (m = entry /\ unpublished' # unpublished)

\* Where one claim changes, what it had must be found elsewhere.
LEMMA OneClaim ==
  ASSUME InboxInv, NEW c \in Threads, NEW claim \in ClaimType,
         claims' = [claims EXCEPT ![c] = claim], left \subseteq left',
         claims[c] \in Messages => claims[c] \in {entry', claim} \cup left' \cup landed,
         entry \in Messages => entry \in {entry', claim} \cup left'
  PROVE  Deletes
<1>1. claims \in [Threads -> ClaimType]
  BY InboxParts
<1>2. claims'[c] = claim /\ \A d \in Threads \ {c} : claims'[d] = claims[d]
  BY <1>1
<1>3. QED  BY <1>2 DEF Deletes, Inbox!Kept

LEMMA SameKept ==
  ASSUME UNCHANGED <<entry, claims, left>> PROVE Deletes
BY DEF Deletes, Inbox!Kept

LEMMA PublishSafe ==
  ASSUME InboxInv, NEW m \in Messages, Inbox!Publish(m) PROVE InboxInv' /\ Deletes
<1>1. InboxInv'
  BY DEF Inbox!Publish, InboxInv, Inbox!TypeOK, Claims
<1>2. unpublished' # unpublished /\ UNCHANGED <<claims, left>>
  BY DEF Inbox!Publish
<1>3. Deletes
  BY <1>2 DEF Deletes, Inbox!Kept
<1>4. QED  BY <1>1, <1>3

LEMMA PhoneLandsSafe == ASSUME InboxInv, Inbox!PhoneLands PROVE InboxInv' /\ Deletes
<1>1. InboxInv'
  BY DEF Inbox!PhoneLands, InboxInv, Inbox!TypeOK, Claims
<1>2. QED  BY <1>1, SameKept DEF Inbox!PhoneLands

LEMMA PhoneConfirmsSafe ==
  ASSUME InboxInv, NEW c \in Threads, NEW m \in Messages, Inbox!PhoneConfirms(c, m)
  PROVE  InboxInv' /\ Deletes
<1> DEFINE new == [pc |-> "inspect", digest |-> m]
<1>1. new \in ConfirmType /\ new.pc = "inspect" /\ new.digest = m
  BY DEF ConfirmType, InboxPc
<1>2. claims[c] = NoContent /\ claims' = [claims EXCEPT ![c] = NoContent]
  BY InboxParts DEF Inbox!PhoneConfirms, InboxInv, Claims
<1>3. confirmer' = [confirmer EXCEPT ![c] = new] /\ m \in landed
      /\ UNCHANGED <<entry, claims, left, unpublished, landed, inboxFaults>>
  BY DEF Inbox!PhoneConfirms
<1> HIDE DEF new
<1>4. InboxInv'
  BY <1>1, <1>2, <1>3, InboxParts, OneConfirms DEF ClaimType
<1>5. QED  BY <1>3, <1>4, SameKept

LEMMA InspectsSafe ==
  ASSUME InboxInv, NEW c \in Threads, Inbox!Inspects(c) PROVE InboxInv' /\ Deletes
<1>1. claims[c] = NoContent /\ claims' = [claims EXCEPT ![c] = NoContent]
      /\ UNCHANGED <<entry, claims, left, unpublished, landed, inboxFaults>>
      /\ confirmer[c].pc # "idle"
  BY InboxParts DEF Inbox!Inspects, InboxInv, Claims
<1>2. CASE Inbox!Goes(c, "reserve")
  <2>1. InboxInv'
    BY <1>1, <1>2, InboxParts, GoesKeeps DEF ClaimType, InboxPc
  <2>2. QED  BY <1>1, <2>1, SameKept
<1>3. CASE confirmer' = [confirmer EXCEPT ![c] = Inbox!NoConfirm]
  <2>1. InboxInv'
    BY <1>1, <1>3, InboxParts, IdleKeeps
  <2>2. QED  BY <1>1, <2>1, SameKept
<1>4. QED  BY <1>1, <1>2, <1>3 DEF Inbox!Inspects

LEMMA ReservesSafe ==
  ASSUME InboxInv, InboxDistinct, NEW c \in Threads, Inbox!Reserves(c)
  PROVE  InboxInv' /\ Deletes
<1>1. claims[c] = NoContent /\ Inbox!Goes(c, "rename") /\ confirmer[c].pc # "idle"
      /\ claims' = [claims EXCEPT ![c] = Empty]
      /\ UNCHANGED <<entry, left, unpublished, landed, inboxFaults>>
  BY DEF Inbox!Reserves, InboxInv, Claims
<1>2. InboxInv'
  BY <1>1, InboxParts, GoesKeeps DEF ClaimType, InboxPc
<1>3. Deletes
  BY <1>1, OneClaim DEF InboxDistinct, ClaimType
<1>4. QED  BY <1>2, <1>3

LEMMA RenamesSafe ==
  ASSUME InboxInv, InboxDistinct, NEW c \in Threads, Inbox!Renames(c)
  PROVE  InboxInv' /\ Deletes
<1>1. claims[c] = Empty /\ confirmer[c].pc # "idle" /\ claims[c] \in ClaimType
      /\ UNCHANGED <<left, unpublished, landed>> /\ inboxFaults' \in 0..MaxInboxFaults
      /\ claims = [claims EXCEPT ![c] = Empty]
  BY InboxParts DEF Inbox!Renames, Inbox!Fault, InboxDistinct, InboxInv, Claims
<1>2. CASE entry' = NoContent /\ claims' = [claims EXCEPT ![c] = entry]
           /\ entry # NoContent /\ (Inbox!Goes(c, "look") \/ Inbox!Goes(c, "unrename"))
  <2>1. InboxInv'
    BY <1>1, <1>2, InboxParts, GoesKeeps DEF ClaimType, InboxPc
  <2>2. Deletes
    BY <1>1, <1>2, InboxParts, OneClaim DEF InboxDistinct, ClaimType
  <2>3. QED  BY <2>1, <2>2
<1>3. CASE UNCHANGED <<entry, claims>> /\ Inbox!Goes(c, "unrename")
  <2>1. InboxInv'
    BY <1>1, <1>3, InboxParts, GoesKeeps DEF ClaimType, InboxPc
  <2>2. QED  BY <1>1, <1>3, <2>1, SameKept
<1>4. QED  BY <1>2, <1>3 DEF Inbox!Renames

LEMMA UndoesSafe ==
  ASSUME InboxInv, InboxDistinct, NEW c \in Threads, Inbox!Undoes(c)
  PROVE  InboxInv' /\ Deletes
<1>1. /\ UNCHANGED <<entry, left, unpublished, landed, inboxFaults>>
      /\ confirmer[c].pc # "idle"
      /\ claims[c] \in Messages \cup {Empty}
  BY DEF Inbox!Undoes, InboxInv, Claims
<1>2. CASE claims[c] = Empty /\ confirmer' = [confirmer EXCEPT ![c] = Inbox!NoConfirm]
           /\ claims' = [claims EXCEPT ![c] = NoContent]
  <2>1. InboxInv'
    BY <1>1, <1>2, InboxParts, IdleKeeps
  <2>2. Deletes
    BY <1>1, <1>2, OneClaim DEF InboxDistinct, ClaimType
  <2>3. QED  BY <2>1, <2>2
<1>3. CASE claims[c] # Empty /\ Inbox!Goes(c, "preserve") /\ UNCHANGED claims
  <2>1. claims' = [claims EXCEPT ![c] = claims[c]] /\ claims[c] \in ClaimType
    BY <1>3, InboxParts
  <2>2. InboxInv'
    BY <1>1, <1>3, <2>1, InboxParts, GoesKeeps DEF InboxPc
  <2>3. QED  BY <1>1, <1>3, <2>2, SameKept
<1>4. QED  BY <1>2, <1>3 DEF Inbox!Undoes

LEMMA LooksSafe ==
  ASSUME InboxInv, InboxDistinct, NEW c \in Threads, Inbox!Looks(c)
  PROVE  InboxInv' /\ Deletes
<1>1. UNCHANGED <<entry, claims, left, unpublished, landed>> /\ confirmer[c].pc # "idle"
      /\ claims[c] \in Messages /\ inboxFaults' \in 0..MaxInboxFaults
      /\ claims' = [claims EXCEPT ![c] = claims[c]] /\ claims[c] \in ClaimType
  BY InboxParts DEF Inbox!Looks, Inbox!Fault, InboxDistinct, InboxInv, Claims
<1>2. CASE Inbox!Goes(c, "unlink") /\ claims[c] = confirmer[c].digest
  BY <1>1, <1>2, InboxParts, GoesKeeps, SameKept DEF InboxPc
<1>3. CASE Inbox!Goes(c, "preserve")
  BY <1>1, <1>3, InboxParts, GoesKeeps, SameKept DEF InboxPc
<1>4. QED  BY <1>2, <1>3 DEF Inbox!Looks

LEMMA UnlinksSafe ==
  ASSUME InboxInv, InboxDistinct, NEW c \in Threads, Inbox!Unlinks(c)
  PROVE  InboxInv' /\ Deletes
<1>1. UNCHANGED <<entry, left, unpublished, landed>> /\ confirmer[c].pc # "idle"
      /\ claims[c] \in landed /\ claims[c] \in Messages
      /\ inboxFaults' \in 0..MaxInboxFaults
  BY InboxParts DEF Inbox!Unlinks, Inbox!Fault, InboxDistinct, InboxInv, Claims
<1>2. CASE confirmer' = [confirmer EXCEPT ![c] = Inbox!NoConfirm]
           /\ claims' = [claims EXCEPT ![c] = NoContent]
  <2>1. InboxInv'
    BY <1>1, <1>2, InboxParts, IdleKeeps
  <2>2. Deletes
    BY <1>1, <1>2, OneClaim DEF ClaimType
  <2>3. QED  BY <2>1, <2>2
<1>3. CASE Inbox!Goes(c, "preserve") /\ UNCHANGED claims
  <2>1. claims' = [claims EXCEPT ![c] = claims[c]] /\ claims[c] \in ClaimType
    BY <1>3, InboxParts
  <2>2. InboxInv'
    BY <1>1, <1>3, <2>1, InboxParts, GoesKeeps DEF InboxPc
  <2>3. QED  BY <1>1, <1>3, <2>2, SameKept
<1>4. QED  BY <1>2, <1>3 DEF Inbox!Unlinks

LEMMA PreservesSafe ==
  ASSUME InboxInv, InboxDistinct, NEW c \in Threads, Inbox!Preserves(c)
  PROVE  InboxInv' /\ Deletes
<1>1. /\ UNCHANGED <<unpublished, landed>> /\ claims[c] \in Messages
      /\ inboxFaults' \in 0..MaxInboxFaults
      /\ entry' \in {entry, IF entry = NoContent THEN claims[c] ELSE entry}
      /\ confirmer' = [confirmer EXCEPT ![c] = Inbox!NoConfirm]
      /\ claims' = [claims EXCEPT ![c] = NoContent]
      /\ left' = left \cup ({claims[c]} \cap Messages)
  BY InboxParts DEF Inbox!Preserves, Inbox!Ends, Inbox!Fault, InboxDistinct,
                    InboxInv, Claims
<1>2. InboxInv'
  BY <1>1, InboxParts, IdleKeeps
<1>3. Deletes
  BY <1>1, InboxParts, OneClaim DEF InboxDistinct, ClaimType
<1>4. QED  BY <1>2, <1>3

LEMMA InboxKilledSafe ==
  ASSUME InboxInv, InboxDistinct, Inbox!Killed
  PROVE  InboxInv' /\ Deletes
<1>1. /\ confirmer' = [c \in Threads |-> Inbox!NoConfirm]
      /\ claims' = [c \in Threads |-> NoContent]
      /\ left' = left \cup ({claims[c] : c \in Threads} \cap Messages)
      /\ UNCHANGED <<unpublished, entry, landed>> /\ inboxFaults' \in 0..MaxInboxFaults
  BY InboxParts DEF Inbox!Killed, Inbox!Fault, InboxDistinct
<1>2. Inbox!TypeOK'
  BY <1>1, InboxParts, InboxIdle DEF Inbox!TypeOK, ConfirmType, InboxPc
<1>3. Claims'
  BY <1>1, InboxIdle DEF Claims
<1>4. Deletes
  BY <1>1 DEF Deletes, Inbox!Kept
<1>5. QED  BY <1>2, <1>3, <1>4 DEF InboxInv

LEMMA InboxSafe ==
  ASSUME InboxInv, InboxDistinct, [Inbox!Next]_(Inbox!vars)
  PROVE  InboxInv' /\ (Inbox!vars' # Inbox!vars => Deletes)
<1>1. ASSUME NEW m \in Messages, Inbox!Publish(m) PROVE InboxInv' /\ Deletes
  BY <1>1, PublishSafe
<1>2. CASE Inbox!PhoneLands  BY <1>2, PhoneLandsSafe
<1>3. ASSUME NEW c \in Threads, NEW m \in Messages, Inbox!PhoneConfirms(c, m)
      PROVE  InboxInv' /\ Deletes
  BY <1>3, PhoneConfirmsSafe
<1>4. ASSUME NEW c \in Threads, Inbox!ConfirmStep(c) PROVE InboxInv' /\ Deletes
  BY <1>4, InspectsSafe, ReservesSafe, RenamesSafe, UndoesSafe, LooksSafe,
     UnlinksSafe, PreservesSafe
     DEF Inbox!ConfirmStep
<1>5. CASE Inbox!Killed  BY <1>5, InboxKilledSafe
<1>6. CASE UNCHANGED Inbox!vars
  BY <1>6 DEF Inbox!vars, InboxInv, Inbox!TypeOK, Claims
<1>7. QED  BY <1>1, <1>2, <1>3, <1>4, <1>5, <1>6 DEF Inbox!Next, Inbox!AtRest

\* Whatever threads, messages and faults there are, only a message that the
\* phone has landed is deleted, or one that its publisher replaces.
THEOREM OnlyLandedGoes ==
  ASSUME InboxDistinct
  PROVE  Inbox!Spec => Inbox!OnlyLandedIsDeleted
<1>1. Inbox!Init => InboxInv  BY InboxStarts
<1>2. InboxInv /\ [Inbox!Next]_(Inbox!vars) => InboxInv' /\ [Deletes]_(Inbox!vars)
  BY InboxSafe
<1>3. [Deletes]_(Inbox!vars) =>
        [\A m \in Messages \cap Inbox!Kept :
           m \in Inbox!Kept' \/ m \in landed \/
             (m = entry /\ unpublished' # unpublished)]_(Inbox!vars)
  BY DEF Deletes
<1>4. QED  BY <1>1, <1>2, <1>3, PTL DEF Inbox!Spec, Inbox!OnlyLandedIsDeleted

-----------------------------------------------------------------------------
(* The uploads under one name.                                             *)

\* The values that stand for nothing, and for the name, are no contents.
UploadsDistinct ==
  /\ NoContent \notin Threads \cup Contents /\ Main \notin Contents
  /\ MaxUploadFaults \in Nat

Busy == {"look", "publish", "verify", "mark"}
Disk == [Uploads!Names -> [content : Contents \cup {NoContent}, synced : BOOLEAN]]

\* A content that is there to stay.
Synced(c) == [content |-> c, synced |-> TRUE]

\* What is there to stay, under the name or the name of its digest.
Kept(d, c) == \E n \in {Main, c} : d[n] = Synced(c)

\* Who works on the names has the lock.
OneWriter == \A h \in Threads : upload[h].pc \in Busy => uploadLock = h

\* A thread works for a content, under one of its names.
OwnName ==
  \A h \in Threads :
    /\ upload[h].pc # "idle" =>
         upload[h].content \in Contents /\ upload[h].name \in {Main, upload[h].content}
    /\ upload[h].pc # "told" => upload[h].answer = "none"

\* What a thread knows of its name, and what an ok says.
Knows ==
  \A h \in Threads :
    /\ upload[h].pc = "publish" => disk[upload[h].name].content = NoContent
    /\ upload[h].pc \in {"verify", "mark"} =>
         disk[upload[h].name] = Synced(upload[h].content)
    /\ upload[h].answer = "ok" => Kept(disk, upload[h].content)

\* Nothing that the phone has deleted is missing.
Safe == \A c \in Contents \ photos : Kept(disk, c)

UploadsInv == Uploads!TypeOK /\ OneWriter /\ OwnName /\ Knows /\ Safe

HandlerType ==
  [pc : {"idle", "lock", "look", "publish", "verify", "mark", "told"},
   content : Contents \cup {NoContent}, name : Uploads!Names,
   answer : {"none", "ok", "error"}]

LEMMA UploadIdle == Uploads!NoRequest \in HandlerType /\ Uploads!NoRequest.pc = "idle"
              /\ Uploads!NoRequest.answer = "none" /\ Uploads!NoRequest.name = Main
  BY DEF Uploads!NoRequest, HandlerType, Uploads!Names

LEMMA UploadsStart == ASSUME UploadsDistinct, Uploads!Init PROVE UploadsInv
<1>1. upload \in [Threads -> HandlerType]
      /\ \A h \in Threads : upload[h].pc = "idle" /\ upload[h].answer = "none"
  BY UploadIdle DEF Uploads!Init
<1>2. disk \in Disk
  <2>1. PICK c \in Contents \cup {NoContent} :
          disk = [[n \in Uploads!Names |-> Uploads!NoFile] EXCEPT ![Main].content = c]
    BY DEF Uploads!Init
  <2>2. Uploads!NoFile \in [content : Contents \cup {NoContent}, synced : BOOLEAN]
    BY DEF Uploads!NoFile
  <2> DEFINE f == [n \in Uploads!Names |-> Uploads!NoFile]
  <2>3. f \in Disk
    BY <2>2 DEF Disk
  <2> HIDE DEF f
  <2>4. [f EXCEPT ![Main].content = c] \in Disk
    BY <2>3 DEF Disk
  <2>5. QED  BY <2>1, <2>4 DEF f
<1>3. Uploads!TypeOK
  <2>1. /\ photos = Contents /\ uploadLock = NoContent /\ uploadFaults = 0
        /\ 0 \in 0..MaxUploadFaults
    BY DEF UploadsDistinct, Uploads!Init
  <2>2. QED
    BY <1>1, <1>2, <2>1 DEF Uploads!TypeOK, HandlerType, Disk
<1>4. OneWriter /\ OwnName /\ Knows
  BY <1>1 DEF OneWriter, OwnName, Knows, Busy
<1>5. Safe
  BY DEF Uploads!Init, Safe
<1>6. QED  BY <1>3, <1>4, <1>5 DEF UploadsInv

-----------------------------------------------------------------------------
(* What is kept stays.                                                     *)

LEMMA SyncedFile ==
  ASSUME NEW f \in [content : Contents \cup {NoContent}, synced : BOOLEAN]
  PROVE  /\ [f EXCEPT !.synced = TRUE] = Synced(f.content)
         /\ [f EXCEPT !.synced = TRUE] \in
              [content : Contents \cup {NoContent}, synced : BOOLEAN]
<1> DEFINE new == [f EXCEPT !.synced = TRUE]
<1>1. /\ new \in [content : Contents \cup {NoContent}, synced : BOOLEAN]
      /\ new.content = f.content
  OBVIOUS
<1>2. new.synced = TRUE
  OBVIOUS
<1> HIDE DEF new
<1>3. new = [content |-> new.content, synced |-> new.synced]
  BY <1>1
<1>4. QED  BY <1>1, <1>2, <1>3 DEF Synced, new

\* Syncing a name.
LEMMA SyncKeeps ==
  ASSUME disk \in Disk, NEW name \in Uploads!Names,
         disk' = [disk EXCEPT ![name].synced = TRUE]
  PROVE  /\ disk' \in Disk
         /\ disk'[name] = Synced(disk[name].content)
         /\ \A c \in Contents : Kept(disk, c) => Kept(disk', c)
<1> DEFINE new == [disk[name] EXCEPT !.synced = TRUE]
<1>1. disk[name] \in [content : Contents \cup {NoContent}, synced : BOOLEAN]
  BY DEF Disk
<1>2. new \in [content : Contents \cup {NoContent}, synced : BOOLEAN]
      /\ new = Synced(disk[name].content)
  BY <1>1, SyncedFile
<1>3. disk' = [disk EXCEPT ![name] = new]
  OBVIOUS
<1> HIDE DEF new
<1>4. disk' \in Disk /\ disk'[name] = new
      /\ \A n \in Uploads!Names \ {name} : disk'[n] = disk[n]
  BY <1>2, <1>3 DEF Disk
<1>5. ASSUME NEW c \in Contents, NEW n \in {Main, c}, disk[n] = Synced(c)
      PROVE  disk'[n] = Synced(c)
  <2>1. CASE n = name
    <3>1. disk[name].content = c
      BY <1>5, <2>1 DEF Synced
    <3>2. QED  BY <1>2, <1>4, <2>1, <3>1
  <2>2. CASE n # name
    BY <1>4, <1>5, <2>2 DEF Uploads!Names
  <2>3. QED  BY <2>1, <2>2
<1>6. QED  BY <1>2, <1>4, <1>5 DEF Kept

\* Putting a file where none was.
LEMMA PutKeeps ==
  ASSUME disk \in Disk, UploadsDistinct, NEW name \in Uploads!Names, NEW c \in Contents,
         NEW synced \in BOOLEAN, disk[name].content = NoContent,
         disk' = [disk EXCEPT ![name] = [content |-> c, synced |-> synced]]
  PROVE  /\ disk' \in Disk
         /\ disk'[name] = [content |-> c, synced |-> synced]
         /\ \A x \in Contents : Kept(disk, x) => Kept(disk', x)
<1>1. disk' \in Disk /\ disk'[name] = [content |-> c, synced |-> synced]
      /\ \A n \in Uploads!Names \ {name} : disk'[n] = disk[n]
  BY DEF Disk
<1>2. ASSUME NEW x \in Contents, NEW n \in {Main, x}, disk[n] = Synced(x)
      PROVE  disk'[n] = Synced(x)
  <2>1. disk[n].content = x
    BY <1>2 DEF Synced
  <2>2. n # name
    BY <2>1 DEF UploadsDistinct
  <2>3. QED  BY <1>1, <1>2, <2>2 DEF Uploads!Names
<1>3. QED  BY <1>1, <1>2 DEF Kept

\* One thread that works on the names moves; what it knows afterwards is said.
LEMMA OneUploads ==
  ASSUME UploadsInv, UploadsDistinct, NEW h \in Threads, upload[h].pc \in Busy,
         NEW pc \in {"look", "publish", "verify", "mark", "told"},
         NEW name \in {Main, upload[h].content}, NEW answer \in {"none", "ok", "error"},
         upload' = [upload EXCEPT ![h] = [pc |-> pc, content |-> upload[h].content,
                                            name |-> name, answer |-> answer]],
         uploadLock' = IF pc = "told" THEN NoContent ELSE uploadLock,
         disk' \in Disk, uploadFaults' \in 0..MaxUploadFaults, UNCHANGED photos,
         \A c \in Contents : Kept(disk, c) => Kept(disk', c),
         pc = "publish" => disk'[name].content = NoContent,
         pc \in {"verify", "mark"} => disk'[name] = Synced(upload[h].content),
         answer = "ok" => pc = "told" /\ Kept(disk', upload[h].content),
         answer = "error" => pc = "told"
  PROVE  UploadsInv'
<1> DEFINE new == [pc |-> pc, content |-> upload[h].content, name |-> name,
                   answer |-> answer]
<1>1. /\ upload[h].content \in Contents /\ uploadLock = h
      /\ upload \in [Threads -> HandlerType] /\ disk \in Disk
  BY DEF UploadsInv, Uploads!TypeOK, OwnName, OneWriter, Busy, HandlerType, Disk
<1>2. /\ upload'[h] = new
      /\ \A g \in Threads \ {h} : upload'[g] = upload[g] /\ upload[g].pc \notin Busy
  BY <1>1 DEF UploadsInv, OneWriter
<1>3. Uploads!TypeOK'
  <2>1. new \in HandlerType
    BY <1>1 DEF HandlerType, Uploads!Names
  <2>2. upload' \in [Threads -> HandlerType]
    BY <1>1, <2>1
  <2>3. QED  BY <1>1, <2>2 DEF UploadsInv, Uploads!TypeOK, HandlerType, Disk
<1>4. OneWriter'
  BY <1>1, <1>2 DEF OneWriter, Busy
<1>5. OwnName'
  BY <1>1, <1>2 DEF UploadsInv, OwnName
<1>6. Knows'
  <2>1. ASSUME NEW g \in Threads \ {h}
        PROVE  /\ upload'[g].pc \notin {"publish", "verify", "mark"}
               /\ upload'[g].answer = "ok" => Kept(disk', upload'[g].content)
    <3>1. upload'[g].pc \notin {"publish", "verify", "mark"}
      BY <1>2 DEF Busy
    <3>2. ASSUME upload[g].answer = "ok" PROVE Kept(disk', upload[g].content)
      <4>1. upload[g].pc = "told" /\ upload[g].content \in Contents
        BY <3>2 DEF UploadsInv, OwnName
      <4>2. QED  BY <3>2, <4>1 DEF UploadsInv, Knows
    <3>3. QED  BY <1>2, <3>1, <3>2
  <2>2. /\ upload'[h].pc = "publish" => disk'[upload'[h].name].content = NoContent
        /\ upload'[h].pc \in {"verify", "mark"} =>
             disk'[upload'[h].name] = Synced(upload'[h].content)
        /\ upload'[h].answer = "ok" => Kept(disk', upload'[h].content)
    BY <1>2
  <2>3. QED  BY <2>1, <2>2 DEF Knows
<1>7. Safe'
  BY DEF UploadsInv, Safe
<1>8. QED  BY <1>3, <1>4, <1>5, <1>6, <1>7 DEF UploadsInv

\* What the updates of a thread are.
LEMMA UploadFields ==
  ASSUME NEW f \in HandlerType, NEW pc, NEW v
  PROVE  /\ [f EXCEPT !.pc = pc] = [pc |-> pc, content |-> f.content, name |-> f.name,
                                    answer |-> f.answer]
         /\ [f EXCEPT !.name = v] = [pc |-> f.pc, content |-> f.content, name |-> v,
                                     answer |-> f.answer]
<1>1. f = [pc |-> f.pc, content |-> f.content, name |-> f.name, answer |-> f.answer]
  BY DEF HandlerType
<1>2. [f EXCEPT !.pc = pc] = [pc |-> pc, content |-> f.content, name |-> f.name,
                              answer |-> f.answer]
  BY <1>1
<1>3. [f EXCEPT !.name = v] = [pc |-> f.pc, content |-> f.content, name |-> v,
                               answer |-> f.answer]
  BY <1>1
<1>4. QED  BY <1>2, <1>3

LEMMA UploadUpdated ==
  ASSUME upload \in [Threads -> HandlerType], NEW h \in Threads, NEW pc, NEW v
  PROVE  /\ [upload EXCEPT ![h].pc = pc]
              = [upload EXCEPT ![h] = [pc |-> pc, content |-> upload[h].content,
                                        name |-> upload[h].name,
                                        answer |-> upload[h].answer]]
         /\ [upload EXCEPT ![h].name = v]
              = [upload EXCEPT ![h] = [pc |-> upload[h].pc,
                                        content |-> upload[h].content,
                                        name |-> v, answer |-> upload[h].answer]]
BY UploadFields

LEMMA UploadAnswered ==
  ASSUME upload \in [Threads -> HandlerType], NEW h \in Threads, NEW v
  PROVE  [upload EXCEPT ![h].pc = "told", ![h].answer = v]
           = [upload EXCEPT ![h] = [pc |-> "told", content |-> upload[h].content,
                                     name |-> upload[h].name, answer |-> v]]
<1>1. [upload EXCEPT ![h].pc = "told", ![h].answer = v]
        = [upload EXCEPT ![h] = [upload[h] EXCEPT !.pc = "told", !.answer = v]]
  OBVIOUS
<1> DEFINE g == [upload[h] EXCEPT !.pc = "told"]
<1>2. g = [pc |-> "told", content |-> upload[h].content, name |-> upload[h].name,
           answer |-> upload[h].answer]
  BY UploadFields
<1> HIDE DEF g
<1>3. [g EXCEPT !.answer = v]
        = [pc |-> "told", content |-> upload[h].content, name |-> upload[h].name,
           answer |-> v]
  BY <1>2
<1>4. QED  BY <1>1, <1>3 DEF g

-----------------------------------------------------------------------------
(* The steps.                                                              *)

LEMMA UploadParts ==
  ASSUME UploadsInv
  PROVE  /\ upload \in [Threads -> HandlerType] /\ disk \in Disk
         /\ uploadFaults \in 0..MaxUploadFaults
         /\ \A h \in Threads : upload[h].pc \in Busy =>
              /\ upload[h].answer = "none" /\ upload[h].content \in Contents
              /\ upload[h].name \in {Main, upload[h].content}
              /\ upload[h].name \in Uploads!Names
  BY DEF UploadsInv, Uploads!TypeOK, OwnName, HandlerType, Disk, Busy

\* Work goes on without an answer, the names being as they were.
LEMMA UploadGoes ==
  ASSUME UploadsInv, UploadsDistinct, NEW h \in Threads, upload[h].pc \in Busy,
         NEW pc \in {"look", "publish", "verify", "mark"},
         upload' = [upload EXCEPT ![h].pc = pc],
         disk' \in Disk, \A c \in Contents : Kept(disk, c) => Kept(disk', c),
         pc = "publish" => disk'[upload[h].name].content = NoContent,
         pc \in {"verify", "mark"} =>
           disk'[upload[h].name] = Synced(upload[h].content),
         UNCHANGED <<photos, uploadLock, uploadFaults>>
  PROVE  UploadsInv'
<1>1. upload' = [upload EXCEPT ![h] = [pc |-> pc, content |-> upload[h].content,
                                         name |-> upload[h].name, answer |-> "none"]]
  <2>1. upload \in [Threads -> HandlerType] /\ upload[h].answer = "none"
    BY UploadParts
  <2>2. [upload EXCEPT ![h].pc = pc]
          = [upload EXCEPT ![h] = [pc |-> pc, content |-> upload[h].content,
                                    name |-> upload[h].name,
                                    answer |-> upload[h].answer]]
    BY <2>1, UploadUpdated
  <2>3. QED  BY <2>1, <2>2
<1>2. QED  BY <1>1, UploadParts, OneUploads

\* An answer is given, ok only of what is there to stay.
LEMMA UploadAnswers ==
  ASSUME UploadsInv, UploadsDistinct, NEW h \in Threads, upload[h].pc \in Busy,
         NEW answer \in {"ok", "error"}, Uploads!Answers(h, answer),
         disk' \in Disk, \A c \in Contents : Kept(disk, c) => Kept(disk', c),
         answer = "ok" => Kept(disk', upload[h].content),
         uploadFaults' \in 0..MaxUploadFaults, UNCHANGED photos
  PROVE  UploadsInv'
<1>1. upload' = [upload EXCEPT ![h] = [pc |-> "told", content |-> upload[h].content,
                                         name |-> upload[h].name, answer |-> answer]]
      /\ uploadLock' = NoContent
  <2>1. upload \in [Threads -> HandlerType]
    BY UploadParts
  <2>2. QED  BY <2>1, UploadAnswered DEF Uploads!Answers
<1>2. QED  BY <1>1, UploadParts, OneUploads

LEMMA UploadFails ==
  ASSUME UploadsInv, UploadsDistinct, NEW h \in Threads, upload[h].pc \in Busy,
         Uploads!Fails(h),
         disk' \in Disk, \A c \in Contents : Kept(disk, c) => Kept(disk', c),
         UNCHANGED photos
  PROVE  UploadsInv'
<1>1. Uploads!Answers(h, "error") /\ uploadFaults' \in 0..MaxUploadFaults
  BY UploadParts DEF Uploads!Fails, Uploads!Fault, UploadsDistinct
<1>2. QED  BY <1>1, UploadAnswers

LEMMA UploadBegins ==
  ASSUME UploadsInv, UploadsDistinct, NEW h \in Threads, NEW c \in Contents,
         Uploads!Uploads(h, c)
  PROVE  UploadsInv'
<1> DEFINE new == [pc |-> "lock", content |-> c, name |-> Main, answer |-> "none"]
<1>1. upload' = [upload EXCEPT ![h] = new]
  BY DEF Uploads!Uploads
<1>2. new \in HandlerType
  BY DEF HandlerType, Uploads!Names
<1>3. upload' \in [Threads -> HandlerType] /\ upload'[h] = new
      /\ \A g \in Threads \ {h} : upload'[g] = upload[g]
  BY <1>1, <1>2, UploadParts
<1>4. Uploads!TypeOK'
  BY <1>3 DEF Uploads!Uploads, UploadsInv, Uploads!TypeOK, HandlerType
<1>5. OneWriter' /\ OwnName' /\ Knows'
  <2>1. OneWriter'
    BY <1>3 DEF Uploads!Uploads, UploadsInv, OneWriter, Busy
  <2>2. OwnName'
    BY <1>3 DEF UploadsInv, OwnName
  <2>3. Knows'
    BY <1>3 DEF Uploads!Uploads, UploadsInv, Knows
  <2>4. QED  BY <2>1, <2>2, <2>3
<1>6. Safe'
  BY DEF Uploads!Uploads, UploadsInv, Safe
<1>7. QED  BY <1>4, <1>5, <1>6 DEF UploadsInv

LEMMA UploadLocks ==
  ASSUME UploadsInv, UploadsDistinct, NEW h \in Threads, Uploads!Locks(h)
  PROVE  UploadsInv'
<1>1. \A g \in Threads : upload[g].pc \notin Busy
  BY DEF Uploads!Locks, UploadsInv, OneWriter, UploadsDistinct
<1>2. upload' \in [Threads -> HandlerType]
      /\ upload'[h] = [pc |-> "look", content |-> upload[h].content,
                        name |-> upload[h].name, answer |-> upload[h].answer]
      /\ \A g \in Threads \ {h} : upload'[g] = upload[g]
  BY UploadParts, UploadUpdated DEF Uploads!Locks, HandlerType
<1>3. Uploads!TypeOK'
  BY <1>2 DEF Uploads!Locks, UploadsInv, Uploads!TypeOK, HandlerType
<1>4. OneWriter' /\ OwnName' /\ Knows'
  <2>1. OneWriter'
    BY <1>1, <1>2 DEF Uploads!Locks, OneWriter
  <2>2. OwnName'
    BY ZenonT(60), <1>2 DEF Uploads!Locks, UploadsInv, OwnName
  <2>3. Knows'
    BY ZenonT(60), <1>2 DEF Uploads!Locks, UploadsInv, Knows
  <2>4. QED  BY <2>1, <2>2, <2>3
<1>5. Safe'
  BY DEF Uploads!Locks, UploadsInv, Safe
<1>6. QED  BY <1>3, <1>4, <1>5 DEF UploadsInv

LEMMA UploadLooks ==
  ASSUME UploadsInv, UploadsDistinct, NEW h \in Threads, Uploads!Looks(h)
  PROVE  UploadsInv'
<1> DEFINE name == upload[h].name
           content == upload[h].content
<1>1. upload[h].pc = "look" /\ upload[h].pc \in Busy /\ UNCHANGED photos
      /\ disk \in Disk /\ name \in Uploads!Names /\ content \in Contents
      /\ name \in {Main, content}
  BY UploadParts DEF Uploads!Looks, Busy
<1>2. CASE disk[name].content = NoContent /\ UNCHANGED <<disk, uploadLock, uploadFaults>>
           /\ upload' = [upload EXCEPT ![h].pc = "publish"]
  BY <1>1, <1>2, UploadGoes
<1>3. CASE /\ disk[name].content = content
           /\ Uploads!Answers(h, "ok") /\ UNCHANGED uploadFaults
           /\ disk' = [disk EXCEPT ![name].synced = TRUE]
  <2>1. disk' \in Disk /\ disk'[name] = Synced(content)
        /\ \A c \in Contents : Kept(disk, c) => Kept(disk', c)
    BY <1>1, <1>3, SyncKeeps
  <2>2. Kept(disk', content)
    BY <1>1, <2>1 DEF Kept
  <2>3. QED  BY <1>1, <1>3, <2>1, <2>2, UploadParts, UploadAnswers
<1>4. CASE disk' = [disk EXCEPT ![name].synced = TRUE] /\ UNCHANGED uploadFaults
           /\ Uploads!Answers(h, "error")
  <2>1. disk' \in Disk /\ \A c \in Contents : Kept(disk, c) => Kept(disk', c)
    BY <1>1, <1>4, SyncKeeps
  <2>2. QED  BY <1>1, <1>4, <2>1, UploadParts, UploadAnswers
<1>5. CASE /\ disk' = [disk EXCEPT ![name].synced = TRUE]
           /\ UNCHANGED <<uploadFaults, uploadLock>>
           /\ upload' = [upload EXCEPT ![h].name = content]
  <2>1. disk' \in Disk /\ \A c \in Contents : Kept(disk, c) => Kept(disk', c)
    BY <1>1, <1>5, SyncKeeps
  <2>2. upload' = [upload EXCEPT ![h] = [pc |-> "look", content |-> content,
                                           name |-> content, answer |-> "none"]]
    <3>1. upload \in [Threads -> HandlerType] /\ upload[h].answer = "none"
      BY <1>1, UploadParts
    <3>2. [upload EXCEPT ![h].name = content]
            = [upload EXCEPT ![h] = [pc |-> upload[h].pc, content |-> content,
                                      name |-> content, answer |-> upload[h].answer]]
      BY <3>1, UploadUpdated
    <3>3. QED  BY <1>1, <1>5, <3>1, <3>2
  <2>3. QED  BY <1>1, <1>5, <2>1, <2>2, UploadParts, OneUploads
<1>6. CASE Uploads!Fails(h) /\ UNCHANGED disk
  BY <1>1, <1>6, UploadFails
<1>7. QED  BY <1>2, <1>3, <1>4, <1>5, <1>6 DEF Uploads!Looks, Uploads!Holds

LEMMA UploadPublishes ==
  ASSUME UploadsInv, UploadsDistinct, NEW h \in Threads, Uploads!Publishes(h)
  PROVE  UploadsInv'
<1> DEFINE name == upload[h].name
           content == upload[h].content
<1>1. upload[h].pc = "publish" /\ upload[h].pc \in Busy /\ UNCHANGED photos
      /\ disk \in Disk /\ name \in Uploads!Names /\ content \in Contents
      /\ disk[name].content = NoContent
  BY UploadParts DEF Uploads!Publishes, Busy, UploadsInv, Knows
<1>2. ASSUME NEW synced \in BOOLEAN,
             disk' = [disk EXCEPT ![name] = [content |-> content, synced |-> synced]]
      PROVE  /\ disk' \in Disk
             /\ disk'[name] = [content |-> content, synced |-> synced]
             /\ \A c \in Contents : Kept(disk, c) => Kept(disk', c)
  BY <1>1, <1>2, PutKeeps
<1>3. CASE disk' = [disk EXCEPT ![name] = [content |-> content, synced |-> TRUE]]
           /\ upload' = [upload EXCEPT ![h].pc = "verify"]
           /\ UNCHANGED <<uploadLock, uploadFaults>>
  <2>1. disk' \in Disk /\ disk'[name] = Synced(content)
        /\ \A c \in Contents : Kept(disk, c) => Kept(disk', c)
    BY <1>2, <1>3 DEF Synced
  <2>2. QED  BY <1>1, <1>3, <2>1, UploadGoes
<1>4. CASE Uploads!Fails(h)
           /\ \/ UNCHANGED disk
              \/ disk' = [disk EXCEPT ![name] = [content |-> content, synced |-> FALSE]]
  <2>1. disk' \in Disk /\ \A c \in Contents : Kept(disk, c) => Kept(disk', c)
    BY <1>1, <1>2, <1>4
  <2>2. QED  BY <1>1, <1>4, <2>1, UploadFails
<1>5. QED  BY <1>3, <1>4 DEF Uploads!Publishes

LEMMA UploadVerifies ==
  ASSUME UploadsInv, UploadsDistinct, NEW h \in Threads,
         Uploads!Verifies(h) \/ Uploads!Marks(h)
  PROVE  UploadsInv'
<1>1. upload[h].pc \in {"verify", "mark"} /\ upload[h].pc \in Busy
      /\ disk' = disk /\ disk \in Disk /\ UNCHANGED photos
      /\ disk[upload[h].name] = Synced(upload[h].content)
      /\ upload[h].name \in {Main, upload[h].content}
  BY UploadParts DEF Uploads!Verifies, Uploads!Marks, Busy, UploadsInv, Knows
<1>2. Kept(disk', upload[h].content)
  BY <1>1 DEF Kept
<1>3. CASE /\ upload' = [upload EXCEPT ![h].pc = "mark"]
           /\ UNCHANGED <<uploadLock, uploadFaults>>
  BY <1>1, <1>3, UploadGoes
<1>4. CASE /\ Uploads!Answers(h, "error") \/ Uploads!Answers(h, "ok")
           /\ UNCHANGED uploadFaults
  BY <1>1, <1>2, <1>4, UploadParts, UploadAnswers
<1>5. CASE Uploads!Fails(h)
  BY <1>1, <1>5, UploadFails
<1>6. QED  BY <1>3, <1>4, <1>5 DEF Uploads!Verifies, Uploads!Marks

\* Threads become idle, and what they know with them.
LEMMA BecomesIdle ==
  ASSUME UploadsInv, upload' \in [Threads -> HandlerType],
         \A h \in Threads : upload'[h] = upload[h] \/ upload'[h] = Uploads!NoRequest,
         \A h \in Threads :
           upload'[h].pc \in Busy => uploadLock' = uploadLock /\ disk' = disk,
         \A h \in Threads :
           upload'[h] = upload[h] => disk' = disk \/ upload[h] = Uploads!NoRequest,
         uploadLock' \in {uploadLock, NoContent},
         uploadFaults' \in 0..MaxUploadFaults, disk' \in Disk,
         photos' \subseteq photos, Safe'
  PROVE  UploadsInv'
<1>1. Uploads!TypeOK'
  BY DEF UploadsInv, Uploads!TypeOK, HandlerType, Disk
<1>2. OneWriter' /\ OwnName'
  BY UploadIdle DEF UploadsInv, OneWriter, OwnName, Busy
<1>3. Knows'
  BY UploadIdle DEF UploadsInv, Knows, Busy
<1>4. QED  BY <1>1, <1>2, <1>3 DEF UploadsInv

LEMMA UploadHears ==
  ASSUME UploadsInv, UploadsDistinct, NEW h \in Threads, Uploads!Hears(h)
  PROVE  UploadsInv'
<1>1. upload' \in [Threads -> HandlerType]
      /\ \A g \in Threads : upload'[g] = upload[g] \/ upload'[g] = Uploads!NoRequest
  BY UploadParts, UploadIdle DEF Uploads!Hears
<1>2. uploadFaults' \in 0..MaxUploadFaults
  BY UploadParts DEF Uploads!Hears, Uploads!Fault, UploadsDistinct
<1>3. Safe'
  BY DEF Uploads!Hears, UploadsInv, Safe, Knows
<1>4. photos' \subseteq photos
  BY DEF Uploads!Hears
<1>5. QED  BY <1>1, <1>2, <1>3, <1>4, UploadParts, BecomesIdle DEF Uploads!Hears

LEMMA UploadsKilled ==
  ASSUME UploadsInv, UploadsDistinct, Uploads!Killed
  PROVE  UploadsInv'
<1>1. upload' = [h \in Threads |-> Uploads!NoRequest] /\ uploadLock' = NoContent
      /\ uploadFaults' \in 0..MaxUploadFaults /\ UNCHANGED <<photos, disk>>
  BY UploadParts DEF Uploads!Killed, Uploads!ServerDies, Uploads!Fault, UploadsDistinct
<1>2. Safe'
  BY <1>1 DEF UploadsInv, Safe
<1>3. QED  BY <1>1, <1>2, UploadParts, UploadIdle, BecomesIdle DEF Busy

LEMMA UploadsPowerLost ==
  ASSUME UploadsInv, UploadsDistinct, Uploads!PowerLost
  PROVE  UploadsInv'
<1>1. upload' = [h \in Threads |-> Uploads!NoRequest] /\ uploadLock' = NoContent
      /\ uploadFaults' \in 0..MaxUploadFaults /\ UNCHANGED photos
  BY UploadParts DEF Uploads!PowerLost, Uploads!ServerDies, Uploads!Fault,
                     UploadsDistinct
<1>2. PICK lost \in SUBSET {n \in Uploads!Names : ~disk[n].synced} :
        disk' = [n \in Uploads!Names |-> IF n \in lost THEN Uploads!NoFile
                                 ELSE [disk[n] EXCEPT !.synced = TRUE]]
  BY DEF Uploads!PowerLost
<1>3. Uploads!NoFile \in [content : Contents \cup {NoContent}, synced : BOOLEAN]
  BY DEF Uploads!NoFile
<1>4. \A n \in Uploads!Names : [disk[n] EXCEPT !.synced = TRUE]
                         \in [content : Contents \cup {NoContent}, synced : BOOLEAN]
  BY UploadParts DEF Disk
<1>5. disk' \in Disk
  BY <1>2, <1>3, <1>4 DEF Disk
<1>6. ASSUME NEW n \in Uploads!Names, NEW c, disk[n] = Synced(c)
      PROVE  disk'[n] = Synced(c)
  <2>1. n \notin lost
    BY <1>6 DEF Synced
  <2>2. disk'[n] = [disk[n] EXCEPT !.synced = TRUE]
    BY <1>2, <2>1
  <2>3. disk[n].content = c
        /\ disk[n] \in [content : Contents \cup {NoContent}, synced : BOOLEAN]
    BY <1>6, UploadParts DEF Synced, Disk
  <2>4. QED  BY <2>2, <2>3, SyncedFile
<1>7. \A c \in Contents : Kept(disk, c) => Kept(disk', c)
  BY <1>6 DEF Kept, Uploads!Names
<1>8. Safe'
  BY <1>1, <1>7 DEF UploadsInv, Safe
<1>9. QED  BY <1>1, <1>5, <1>8, UploadIdle, BecomesIdle DEF Busy

LEMMA UploadsNext ==
  ASSUME UploadsInv, UploadsDistinct, [Uploads!Next]_(Uploads!vars)
  PROVE  UploadsInv'
<1>1. ASSUME NEW h \in Threads, NEW c \in Contents, Uploads!Uploads(h, c)
      PROVE  UploadsInv'
  BY <1>1, UploadBegins
<1>2. ASSUME NEW h \in Threads, Uploads!HandlerStep(h) PROVE UploadsInv'
  BY <1>2, UploadLocks, UploadLooks, UploadPublishes, UploadVerifies, UploadHears
     DEF Uploads!HandlerStep
<1>3. CASE Uploads!Killed \/ Uploads!PowerLost
  BY <1>3, UploadsKilled, UploadsPowerLost
<1>4. CASE UNCHANGED Uploads!vars
  BY <1>4 DEF Uploads!vars, UploadsInv, Uploads!TypeOK, OneWriter, OwnName, Knows, Safe
<1>5. QED  BY <1>1, <1>2, <1>3, <1>4 DEF Uploads!Next, Uploads!AtRest

\* Whatever threads, contents and faults there are, what the phone has deleted
\* is on prime, synced, under the name or the name of its digest.
THEOREM NothingLost ==
  ASSUME UploadsDistinct
  PROVE  Uploads!Spec => []Uploads!DeletedIsKept
<1>1. Uploads!Init => UploadsInv  BY UploadsStart
<1>2. UploadsInv /\ [Uploads!Next]_(Uploads!vars) => UploadsInv'  BY UploadsNext
<1>3. UploadsInv => Uploads!DeletedIsKept
  BY DEF UploadsInv, Safe, Kept, Synced, Uploads!DeletedIsKept
<1>4. QED  BY <1>1, <1>2, <1>3, PTL DEF Uploads!Spec

-----------------------------------------------------------------------------
(* The log of a day, and the whole dispatcher.                             *)

Logged == INSTANCE PhoneEvents_proofs WITH
  Handlers <- Threads, Nobody <- NoContent, file <- dayFile, lock <- writeLock,
  bounds <- eventBounds

Apart == Logged!Distinct /\ UploadsDistinct /\ InboxDistinct

\* The definitions of a module are those of the module its theorems are about.
LEMMA SameHandlers ==
  ASSUME NEW h \in Threads
  PROVE  /\ Events!PhoneAsks(h) <=> Logged!PhoneAsks(h)
         /\ Events!PhoneSends(h) <=> Logged!PhoneSends(h)
         /\ Events!PhoneHears(h) <=> Logged!PhoneHears(h)
         /\ Events!HandlerStep(h) <=> Logged!HandlerStep(h)
<1> USE DEF Events!NoRequest, Logged!NoRequest, Events!Goes, Logged!Goes,
            Events!Answers, Logged!Answers, Events!Synced, Logged!Synced,
            Events!File, Logged!File, Events!Fault, Logged!Fault, Events!Counts,
            Logged!Counts
<1>1. Events!PhoneAsks(h) <=> Logged!PhoneAsks(h)
  BY DEF Events!PhoneAsks, Logged!PhoneAsks
<1>2. Events!PhoneSends(h) <=> Logged!PhoneSends(h)
  BY DEF Events!PhoneSends, Logged!PhoneSends
<1>3. Events!PhoneHears(h) <=> Logged!PhoneHears(h)
  BY DEF Events!PhoneHears, Logged!PhoneHears
<1>4. Events!LocksForCursor(h) <=> Logged!LocksForCursor(h)
  BY DEF Events!LocksForCursor, Logged!LocksForCursor
<1>5. Events!LocksForAppend(h) <=> Logged!LocksForAppend(h)
  BY DEF Events!LocksForAppend, Logged!LocksForAppend, Events!Behind,
         Logged!Behind
<1>6. Events!Writes(h) <=> Logged!Writes(h)
  BY DEF Events!Writes, Logged!Writes
<1>7. Events!Syncs(h) <=> Logged!Syncs(h)
  BY DEF Events!Syncs, Logged!Syncs, Events!Told, Logged!Told
<1>8. Events!Mirrors(h) <=> Logged!Mirrors(h)
  BY DEF Events!Mirrors, Logged!Mirrors, Events!NewRecords, Logged!NewRecords,
         Events!Records, Logged!Records
<1>9. QED
  BY <1>1, <1>2, <1>3, <1>4, <1>5, <1>6, <1>7, <1>8
     DEF Events!HandlerStep, Logged!HandlerStep

LEMMA SameRepair ==
  /\ Events!RepairBegins <=> Logged!RepairBegins
  /\ Events!RepairStep <=> Logged!RepairStep
<1> USE DEF Events!RepairStops, Logged!RepairStops, Events!NoRepair,
            Logged!NoRepair, Events!Synced, Logged!Synced, Events!File,
            Logged!File
<1>1. Events!RepairBegins <=> Logged!RepairBegins
  BY DEF Events!RepairBegins, Logged!RepairBegins, Events!Counts, Logged!Counts,
         Events!Records, Logged!Records
<1>2. Events!RepairLocks <=> Logged!RepairLocks
  BY DEF Events!RepairLocks, Logged!RepairLocks
<1>3. Events!RepairSetsAside <=> Logged!RepairSetsAside
  BY DEF Events!RepairSetsAside, Logged!RepairSetsAside
<1>4. Events!RepairStages <=> Logged!RepairStages
  BY DEF Events!RepairStages, Logged!RepairStages
<1>5. Events!RepairReplaces <=> Logged!RepairReplaces
  BY DEF Events!RepairReplaces, Logged!RepairReplaces
<1>6. Events!RepairVerifies <=> Logged!RepairVerifies
  BY DEF Events!RepairVerifies, Logged!RepairVerifies
<1>7. QED
  BY <1>1, <1>2, <1>3, <1>4, <1>5, <1>6 DEF Events!RepairStep, Logged!RepairStep

LEMMA SameEvents == Events!Next <=> Logged!Next
<1> USE DEF Events!Fault, Logged!Fault, Events!Counts, Logged!Counts,
            Events!NoRequest, Logged!NoRequest, Events!NoRepair, Logged!NoRepair,
            Events!File, Logged!File, Events!ServerDies, Logged!ServerDies
<1>1. Events!PhoneRecords <=> Logged!PhoneRecords
  BY DEF Events!PhoneRecords, Logged!PhoneRecords
<1>2. Events!PhoneGivesUp <=> Logged!PhoneGivesUp
  BY DEF Events!PhoneGivesUp, Logged!PhoneGivesUp
<1>3. Events!Restores <=> Logged!Restores
  BY DEF Events!Restores, Logged!Restores, Events!Units, Logged!Units
<1>4. Events!Killed <=> Logged!Killed
  BY DEF Events!Killed, Logged!Killed
<1>5. Events!PowerLost <=> Logged!PowerLost
  BY DEF Events!PowerLost, Logged!PowerLost
<1>6. Events!AtRest <=> Logged!AtRest
  BY DEF Events!AtRest, Logged!AtRest, Events!vars, Logged!vars
<1>7. Events!PhoneStep <=> Logged!PhoneStep
  BY <1>1, SameHandlers DEF Events!PhoneStep, Logged!PhoneStep
<1>8. QED
  BY <1>2, <1>3, <1>4, <1>5, <1>6, <1>7, SameHandlers, SameRepair
     DEF Events!Next, Logged!Next

\* What holds of the four parts, which never touch each other's state.
PhoneInv == Inv /\ Logged!Inv /\ UploadsInv /\ InboxInv

LEMMA PhoneStarts == ASSUME Apart, PhoneInit PROVE PhoneInv
<1>1. Logged!Init
  BY DEF PhoneInit, Events!Init, Logged!Init, Events!File, Logged!File,
         Events!NoRequest, Logged!NoRequest, Events!NoRepair, Logged!NoRepair,
         Events!Records, Logged!Records
<1>2. QED
  BY <1>1, Logged!InitInv, InitInv, UploadsStart, InboxStarts
     DEF Apart, PhoneInit, PhoneInv

LEMMA PhoneParts ==
  ASSUME PhoneNext \/ UNCHANGED phoneVars
  PROVE  /\ [Next]_vars /\ [Logged!Next]_(Logged!vars)
         /\ [Uploads!Next]_(Uploads!vars) /\ [Inbox!Next]_(Inbox!vars)
<1>1. CASE OfIntents(Next) \/ UNCHANGED phoneVars
  BY <1>1 DEF OfIntents, phoneVars, eventVars, uploadVars, inboxVars, Logged!vars,
              Uploads!vars, Inbox!vars
<1>2. CASE OfEvents(Events!Next)
  BY <1>2, SameEvents DEF OfEvents, uploadVars, inboxVars, Uploads!vars, Inbox!vars
<1>3. CASE OfUploads(Uploads!Next)
  BY <1>3 DEF OfUploads, eventVars, inboxVars, Logged!vars, Inbox!vars
<1>4. CASE OfInbox(Inbox!Next)
  BY <1>4 DEF OfInbox, eventVars, uploadVars, Logged!vars, Uploads!vars
<1>5. QED  BY <1>1, <1>2, <1>3, <1>4 DEF PhoneNext

LEMMA PhoneKept ==
  ASSUME Apart, PhoneInv, PhoneNext \/ UNCHANGED phoneVars
  PROVE  PhoneInv'
<1> USE PhoneParts DEF Apart, PhoneInv
<1>1. Inv'  BY NextInv
<1>2. Logged!Inv'  BY Logged!NextSafe DEF Logged!Safe
<1>3. UploadsInv'  BY UploadsNext
<1>4. InboxInv'  BY InboxSafe
<1>5. QED  BY <1>1, <1>2, <1>3, <1>4

\* All variables of the dispatcher keep their types.
THEOREM TypesOfTheDispatcher ==
  ASSUME Apart
  PROVE  PhoneSpec => []Types
<1>1. PhoneInit => PhoneInv
  BY PhoneStarts
<1>2. PhoneInv /\ [PhoneNext]_phoneVars => PhoneInv'
  BY PhoneKept
<1>3. PhoneInv => Types
  <2>1. PhoneInv => Events!TypeOK
    BY Logged!ShownEnough
       DEF PhoneInv, Apart, Events!TypeOK, Logged!TypeOK, Events!Units, Logged!Units,
           Events!Records, Logged!Records
  <2>2. QED  BY <2>1 DEF PhoneInv, Inv, UploadsInv, InboxInv, Types
<1>4. QED  BY <1>1, <1>2, <1>3, PTL DEF PhoneSpec

\* A record of the day is shown on the desktop once, and once more at most for
\* each time that its file was put back or replaced.
THEOREM DayShownOnce ==
  ASSUME Apart
  PROVE  PhoneSpec => []MirroredOnce
<1>1. PhoneInit => PhoneInv
  BY PhoneStarts
<1>2. PhoneInv /\ [PhoneNext]_phoneVars => PhoneInv'
  BY PhoneKept
<1>3. PhoneInv => MirroredOnce
  BY Logged!ShownEnough
     DEF PhoneInv, Apart, MirroredOnce, Events!MirroredOnce, Logged!MirroredOnce,
         Events!Records, Logged!Records
<1>4. QED  BY <1>1, <1>2, <1>3, PTL DEF PhoneSpec

\* Whoever is told ok is told of bytes that neither a kill nor a power cut takes.
THEOREM DayOkIsDurable ==
  ASSUME Apart
  PROVE  PhoneSpec => OkIsDurable
<1>1. PhoneInit => PhoneInv
  BY PhoneStarts
<1>2. PhoneInv /\ [PhoneNext]_phoneVars => PhoneInv'
  BY PhoneKept
<1>3. PhoneInv /\ [PhoneNext]_phoneVars =>
        [\A h \in Threads :
           /\ handler[h].pc \notin {"mirror", "told"}
           /\ handler'[h].pc = "mirror" \/ handler'[h].answer = "ok"
           => Events!Durable(dayFile') >=
                IF handler'[h].pc = "mirror" THEN handler[h].to
                ELSE handler'[h].cursor]_(Events!vars)
  BY PhoneParts, Logged!NextSafe
     DEF PhoneInv, Apart, Logged!Safe, Logged!OkStep, Logged!Durable, Events!Durable
<1>4. QED
  BY <1>1, <1>2, <1>3, PTL DEF PhoneSpec, OkIsDurable, Events!OkIsDurable

\* What is durable of the day stays, or is in what a repair has set aside, unless
\* the operator puts an older copy back.
THEOREM DayStays ==
  ASSUME Apart
  PROVE  PhoneSpec => DurableStays
<1>1. PhoneInit => PhoneInv
  BY PhoneStarts
<1>2. PhoneInv /\ [PhoneNext]_phoneVars => PhoneInv'
  BY PhoneKept
<1>3. PhoneInv /\ [PhoneNext]_phoneVars =>
        [\/ Events!Durable(dayFile') >= Events!Durable(dayFile)
         \/ backup' >= Events!Durable(dayFile)
         \/ eventBounds'.restores # eventBounds.restores]_(Events!vars)
  BY PhoneParts, Logged!NextSafe
     DEF PhoneInv, Apart, Logged!Safe, Logged!KeptStep, Logged!Durable, Events!Durable
<1>4. QED
  BY <1>1, <1>2, <1>3, PTL DEF PhoneSpec, DurableStays, Events!DurableStays

\* What the phone has deleted is on prime, synced, under its name or the name of
\* its digest.
THEOREM HandedOverIsKept ==
  ASSUME Apart
  PROVE  PhoneSpec => []DeletedIsKept
<1>1. PhoneInit => PhoneInv
  BY PhoneStarts
<1>2. PhoneInv /\ [PhoneNext]_phoneVars => PhoneInv'
  BY PhoneKept
<1>3. PhoneInv => DeletedIsKept
  BY DEF PhoneInv, UploadsInv, Safe, Kept, Synced, DeletedIsKept,
         Uploads!DeletedIsKept
<1>4. QED  BY <1>1, <1>2, <1>3, PTL DEF PhoneSpec

\* Only a message that the phone has landed is deleted, or one that its
\* publisher replaces.
THEOREM OnlyLandedIsGone ==
  ASSUME Apart
  PROVE  PhoneSpec => OnlyLandedIsDeleted
<1>1. PhoneInit => PhoneInv
  BY PhoneStarts
<1>2. PhoneInv /\ [PhoneNext]_phoneVars => PhoneInv'
  BY PhoneKept
<1>3. PhoneInv /\ [PhoneNext]_phoneVars =>
        [\A m \in Messages \cap Inbox!Kept :
           m \in Inbox!Kept' \/ m \in landed \/
             (m = entry /\ unpublished' # unpublished)]_(Inbox!vars)
  BY PhoneParts, InboxSafe DEF PhoneInv, Apart, Deletes
<1>4. QED
  BY <1>1, <1>2, <1>3, PTL DEF PhoneSpec, OnlyLandedIsDeleted, Inbox!OnlyLandedIsDeleted
=============================================================================
