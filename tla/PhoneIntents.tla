----------------------------- MODULE PhoneIntents -----------------------------
(***************************************************************************)
(* Intents of the phone.  The same intent reaches prime as a live post,    *)
(* which the phone repeats, and as a file of the outbox, which the         *)
(* `dispatch` verb sweeps in a process of its own.  Either way execute()   *)
(* runs it under the lock of its token and records in the token's ledger   *)
(* what came of it; only an `ok` lets the phone, or the sweep, forget it.  *)
(* Processes are killed at any point, and power may go.                    *)
(*                                                                         *)
(* One token, two contents of one kind: a job answer, a shared text, a     *)
(* trace, or a kind that nobody knows.  A trace also asks for a scoring    *)
(* pass, as do traces under other tokens.  Consuming a file is atomic here;*)
(* how it is done is PhoneInbox.                                           *)
(***************************************************************************)
EXTENDS Naturals

CONSTANTS
  Threads,   \* the server's request threads
  Sweep,     \* the process of the `dispatch` verb
  Contents,  \* what is sent under the token
  Queued,    \* the one that is also a file of the outbox
  NoContent, \* none
  MaxPosts,  \* live posts: a bound
  MaxSweeps, \* sweeps: a bound
  MaxTraces, \* traces under other tokens: a bound
  MaxLosses  \* processes killed and power cuts: a bound

Runners == Threads \cup {Sweep}

ASSUME ValuesAssumption ==
  /\ NoContent \notin Contents \cup Runners
  /\ Sweep \notin Threads
  /\ Queued \in Contents
ASSUME BoundsAssumption ==
  MaxPosts \in Nat /\ MaxSweeps \in Nat /\ MaxTraces \in Nat /\ MaxLosses \in Nat

Processes == {"server", "sweep"}
ProcessOf(r) == IF r = Sweep THEN "sweep" ELSE "server"

VARIABLES
  kind,    \* the kind of the intents
  token,   \* the record of the token
  durable, \* what a power cut may leave of it: what was synced last, and what
           \* was put in its place since then without a sync of the name
  lock,    \* who has the lock of the token
  run,     \* the execution of each runner
  effect,  \* what the effect has left: how often it was done, whether that is
           \* synced, and whether it was lost with the power
  held,    \* what the phone still holds
  file,    \* the file of the outbox
  score,   \* the scoring of each process: _score_pending, _score_running,
           \* and whether a pass is under way
  unseen,  \* whether the outbox has a blob that no pass has scanned
  bounds   \* posts, sweeps, other traces and losses so far

vars == <<kind, token, durable, lock, run, effect, held, file, score, unseen, bounds>>

NoToken == [content |-> NoContent, outcome |-> "absent"]
NoRun == [pc |-> "idle", content |-> NoContent, outcome |-> "none"]
NoScore == [pending |-> FALSE, running |-> FALSE, pass |-> FALSE]

Outcomes == {"completed", "failed", "indeterminate"}
TokenRecord == [content : Contents \cup {NoContent},
                outcome : Outcomes \cup {"absent", "in_flight", "unreadable"}]

TypeOK ==
  /\ kind \in {"job_answer", "shared_text", "trace", "unknown"}
  /\ token \in TokenRecord
  /\ durable \subseteq TokenRecord
  /\ lock \in Runners \cup {NoContent}
  /\ run \in [Runners ->
               [pc : {"idle", "lock", "check", "act", "receipt", "trigger",
                      "record", "told"},
                content : Contents \cup {NoContent},
                outcome : Outcomes \cup {"none", "conflict", "duplicate"}]]
  /\ effect \in [done : 0..3, synced : BOOLEAN, lost : BOOLEAN]
  /\ held \subseteq Contents
  /\ file \in {Queued, NoContent}
  /\ score \in [Processes ->
                 [pending : BOOLEAN, running : BOOLEAN, pass : BOOLEAN]]
  /\ unseen \in BOOLEAN
  /\ bounds \in [posts : 0..MaxPosts, sweeps : 0..MaxSweeps,
                 traces : 0..MaxTraces, losses : 0..MaxLosses]

\* A record of an older version, or one that was damaged, may be there.
Init ==
  /\ kind \in {"job_answer", "shared_text", "trace", "unknown"}
  /\ token \in {NoToken, [content |-> NoContent, outcome |-> "unreadable"]}
  /\ durable = {token}
  /\ lock = NoContent
  /\ run = [r \in Runners |-> NoRun]
  /\ effect = [done |-> 0, synced |-> TRUE, lost |-> FALSE]
  /\ held = Contents
  /\ file = Queued
  /\ score = [p \in Processes |-> NoScore]
  /\ unseen = (kind = "trace")
  /\ bounds = [posts |-> 0, sweeps |-> 0, traces |-> 0, losses |-> 0]

Goes(r, pc) == run' = [run EXCEPT ![r].pc = pc]

\* execute returns, and the lock is let go of.
Answers(r, outcome) ==
  /\ run' = [run EXCEPT ![r].pc = "told", ![r].outcome = outcome]
  /\ lock' = NoContent

-----------------------------------------------------------------------------
(* An intent arrives.                                                      *)

Posts(t, c) ==
  /\ t \in Threads /\ run[t].pc = "idle"
  /\ c \in held
  /\ bounds.posts < MaxPosts
  /\ bounds' = [bounds EXCEPT !.posts = @ + 1]
  /\ run' = [run EXCEPT ![t] = [pc |-> "lock", content |-> c, outcome |-> "none"]]
  /\ UNCHANGED <<kind, token, durable, lock, effect, held, file, score, unseen>>

SweepReads ==
  /\ run[Sweep].pc = "idle"
  /\ file # NoContent
  /\ bounds.sweeps < MaxSweeps
  /\ bounds' = [bounds EXCEPT !.sweeps = @ + 1]
  /\ run' = [run EXCEPT ![Sweep] =
                        [pc |-> "lock", content |-> file, outcome |-> "none"]]
  /\ UNCHANGED <<kind, token, durable, lock, effect, held, file, score, unseen>>

-----------------------------------------------------------------------------
(* execute().                                                              *)

Locks(r) ==
  /\ run[r].pc = "lock"
  /\ lock = NoContent
  /\ lock' = r
  /\ Goes(r, "check")
  /\ UNCHANGED <<kind, token, durable, effect, held, file, score, unseen, bounds>>

\* _record: the new record takes the name of the old one and is synced there.
Publishes(record) == token' = record /\ durable' = {record}

\* atomic_publish raises before the new record is in place, or after it, when
\* the directory cannot be synced.
PublishFails(record) ==
  \/ UNCHANGED <<token, durable>>
  \/ token' = record /\ durable' = durable \cup {record}

\* The execution begins: the token is in flight, durably, before it acts.  If
\* that cannot be written, nothing is done.
Begins(r) ==
  LET record == [content |-> run[r].content, outcome |-> "in_flight"]
  IN \/ /\ Publishes(record)
        /\ Goes(r, "act")
        /\ UNCHANGED lock
     \/ Answers(r, "none") /\ PublishFails(record)

\* Slip: what a dead process left in flight may be run again.
ChecksInFlightAgain(r) ==
  /\ run[r].pc = "check"
  /\ \/ token.outcome \in {"absent", "failed", "in_flight"} /\ Begins(r)
     \/ /\ token.outcome \in {"indeterminate", "unreadable", "completed"}
        /\ Answers(r, IF token.outcome # "completed" THEN "indeterminate"
                      ELSE IF token.content = run[r].content
                      THEN "duplicate" ELSE "conflict")
        /\ UNCHANGED <<token, durable>>
  /\ UNCHANGED <<kind, effect, held, file, score, unseen, bounds>>

\* Slip: the outcome of a record is not bound to its content.
ChecksOutcomeOnly(r) ==
  /\ run[r].pc = "check"
  /\ \/ token.outcome \in {"absent", "failed"} /\ Begins(r)
     \/ /\ token.outcome \notin {"absent", "failed"}
        /\ Answers(r, IF token.outcome = "completed"
                      THEN "duplicate" ELSE "indeterminate")
        /\ UNCHANGED <<token, durable>>
  /\ UNCHANGED <<kind, effect, held, file, score, unseen, bounds>>

\* Of what is on record, only a failure of the same content may run again.
Checks(r) ==
  /\ run[r].pc = "check"
  /\ \/ /\ \/ token.outcome = "absent"
           \/ token.outcome = "failed" /\ token.content = run[r].content
        /\ Begins(r)
     \/ /\ \/ token.outcome = "unreadable"
           \/ /\ token.outcome \in {"in_flight", "indeterminate"}
              /\ token.content = run[r].content
        /\ Answers(r, "indeterminate")
        /\ UNCHANGED <<token, durable>>
     \/ /\ token.content \notin {NoContent, run[r].content}
        /\ Answers(r, "conflict")
        /\ UNCHANGED <<token, durable>>
     \/ /\ token.outcome = "completed" /\ token.content = run[r].content
        /\ Answers(r, "duplicate")
        /\ UNCHANGED <<token, durable>>
  /\ UNCHANGED <<kind, effect, held, file, score, unseen, bounds>>

\* deliver_job_answer publishes a file in the session's tmpfs, where the sync of
\* its name cannot fail: done, or not at all.
\* land_shared appends a line that nobody syncs; one that stops halfway has not
\* done it.  A trace is acknowledged, and an unknown kind fails.
Acts(r) ==
  /\ run[r].pc = "act"
  /\ LET went(pc, outcome) ==
           run' = [run EXCEPT ![r].pc = pc, ![r].outcome = outcome]
     IN \/ /\ kind = "job_answer"
           /\ \/ /\ effect' = [effect EXCEPT !.done = @ + 1]
                 /\ went("receipt", "completed")
              \/ UNCHANGED effect /\ went("receipt", "failed")
        \/ /\ kind = "shared_text"
           /\ \/ /\ effect' = [effect EXCEPT !.done = @ + 1, !.synced = FALSE]
                 /\ went("record", "completed")
              \/ UNCHANGED effect /\ went("record", "failed")
        \/ /\ kind = "trace"
           /\ UNCHANGED effect /\ went("trigger", "completed")
        \/ /\ kind = "unknown"
           /\ UNCHANGED effect /\ went("record", "failed")
  /\ UNCHANGED <<kind, token, durable, lock, held, file, score, unseen, bounds>>

\* The receipt of a job answer, delivered or not, may raise.
Receipts(r) ==
  /\ run[r].pc = "receipt"
  /\ \/ Goes(r, "record")
     \/ run' = [run EXCEPT ![r].pc = "record", ![r].outcome = "indeterminate"]
  /\ UNCHANGED <<kind, token, durable, lock, effect, held, file, score, unseen, bounds>>

\* Slip: a trigger that finds the scoring thread running leaves it at that.
ScoresUnlessRunning(p) ==
  score' = [score EXCEPT ![p] =
              IF score[p].running THEN score[p]
              ELSE [@ EXCEPT !.pending = TRUE, !.running = TRUE]]

\* trigger_score, under its lock: a pass is pending, and the thread runs.
Scores(p) == score' = [score EXCEPT ![p].pending = TRUE, ![p].running = TRUE]

\* A trace asks for a pass; the thread may fail to start, and that raises.
Triggers(r) ==
  LET p == ProcessOf(r)
  IN /\ run[r].pc = "trigger"
     /\ \/ Scores(p) /\ Goes(r, "record")
        \/ /\ ~score[p].running
           /\ score' = [score EXCEPT ![p].pending = TRUE]
           /\ run' = [run EXCEPT ![r].pc = "record",
                                 ![r].outcome = "indeterminate"]
     /\ UNCHANGED <<kind, token, durable, lock, effect, held, file, unseen, bounds>>

\* A trace under a token of its own reaches the outbox and the server.
OtherTrace ==
  /\ kind = "trace"
  /\ bounds.traces < MaxTraces
  /\ bounds' = [bounds EXCEPT !.traces = @ + 1]
  /\ unseen' = TRUE
  /\ Scores("server")
  /\ UNCHANGED <<kind, token, durable, lock, run, effect, held, file>>

\* The record is published and synced before the caller is told; if that
\* fails, nothing is said of the outcome, though it may be there to read.
Records(r) ==
  LET record == [content |-> run[r].content, outcome |-> run[r].outcome]
  IN /\ run[r].pc = "record"
     /\ \/ Publishes(record) /\ Answers(r, run[r].outcome)
        \/ PublishFails(record) /\ Answers(r, "none")
     /\ UNCHANGED <<kind, effect, held, file, score, unseen, bounds>>

-----------------------------------------------------------------------------
(* What is done with the answer.                                           *)

Ok(r) == run[r].outcome \in {"completed", "duplicate"}

\* The phone forgets an intent that was answered ok, if the answer comes.
Told(t) ==
  /\ t \in Threads /\ run[t].pc = "told"
  /\ held' \in {held, IF Ok(t) THEN held \ {run[t].content} ELSE held}
  /\ run' = [run EXCEPT ![t] = NoRun]
  /\ UNCHANGED <<kind, token, durable, lock, effect, file, score, unseen, bounds>>

\* The sweep consumes what was answered ok, if it can, and ends; a scoring
\* thread of its process, a daemon thread, ends with it.
SweepEnds ==
  /\ run[Sweep].pc = "told"
  /\ file' \in {file, IF Ok(Sweep) THEN NoContent ELSE file}
  /\ run' = [run EXCEPT ![Sweep] = NoRun]
  /\ score' = [score EXCEPT !["sweep"] = NoScore]
  /\ UNCHANGED <<kind, token, durable, lock, effect, held, unseen, bounds>>

-----------------------------------------------------------------------------
(* _score_loop of each process.                                            *)

\* The thread takes what is pending and scans the outbox, or ends.
LoopTurns(p) ==
  /\ score[p].running /\ ~score[p].pass
  /\ \/ /\ score[p].pending
        /\ score' = [score EXCEPT ![p].pending = FALSE, ![p].pass = TRUE]
        /\ unseen' = FALSE
     \/ /\ ~score[p].pending
        /\ score' = [score EXCEPT ![p].running = FALSE]
        /\ UNCHANGED unseen
  /\ UNCHANGED <<kind, token, durable, lock, run, effect, held, file, bounds>>

PassEnds(p) ==
  /\ score[p].pass
  /\ score' = [score EXCEPT ![p].pass = FALSE]
  /\ UNCHANGED <<kind, token, durable, lock, run, effect, held, file, unseen, bounds>>

-----------------------------------------------------------------------------
(* Losses.                                                                 *)

Loses == bounds.losses < MaxLosses
         /\ bounds' = [bounds EXCEPT !.losses = @ + 1]

Die(processes) ==
  LET dead == {r \in Runners : ProcessOf(r) \in processes}
  IN /\ run' = [r \in Runners |-> IF r \in dead THEN NoRun ELSE run[r]]
     /\ lock' = IF lock \in dead THEN NoContent ELSE lock
     /\ score' = [p \in Processes |->
                    IF p \in processes THEN NoScore ELSE score[p]]

Killed(p) ==
  /\ Loses
  /\ \E r \in Runners : ProcessOf(r) = p /\ run[r].pc # "idle"
  /\ Die({p})
  /\ UNCHANGED <<kind, token, durable, effect, held, file, unseen>>

\* What was not synced may be gone after the power was, and so may an answer,
\* whose directory is one of the session.
PowerLost ==
  /\ Loses
  /\ Die(Processes)
  /\ token' \in durable
  /\ durable' = {token'}
  /\ effect' \in {effect,
                  IF effect.synced /\ kind # "job_answer" THEN effect
                  ELSE [effect EXCEPT !.done = 0, !.lost = TRUE]}
  /\ UNCHANGED <<kind, held, file, unseen>>

Executes(r) ==
  \/ Locks(r) \/ Checks(r) \/ Acts(r) \/ Receipts(r) \/ Triggers(r)
  \/ Records(r)

AtRest ==
  /\ \A r \in Runners : run[r].pc = "idle"
  /\ UNCHANGED vars

Next ==
  \/ \E t \in Threads : (\E c \in Contents : Posts(t, c)) \/ Told(t)
  \/ SweepReads \/ SweepEnds \/ OtherTrace
  \/ \E r \in Runners : Executes(r)
  \/ \E p \in Processes : LoopTurns(p) \/ PassEnds(p) \/ Killed(p)
  \/ PowerLost
  \/ AtRest

Spec == Init /\ [][Next]_vars

\* Threads run; a scoring pass has a time limit.
FairSpec ==
  Spec /\ \A p \in Processes : WF_vars(LoopTurns(p)) /\ WF_vars(PassEnds(p))

-----------------------------------------------------------------------------
(* Properties.                                                             *)

\* However often and on whatever way an intent comes, and whoever dies, its
\* effect is brought about once.
ActsOnce == effect.done <= 1

\* What the phone and the outbox have forgotten was done, under the content
\* that they held: at most the power has taken it again.  It stays on record as
\* completed; a power cut may put the record back in flight, which forbids
\* another execution as well.
ForgottenWasDone ==
  \A c \in Contents :
    c \notin held \/ (c = Queued /\ file = NoContent)
      => /\ token.content = c
         /\ \/ token.outcome = "completed"
            \/ token.outcome = "in_flight" /\ bounds.losses > 0
         /\ kind = "trace" \/ effect.done = 1 \/ effect.lost

\* A trace whose trigger found or started the scoring thread of the server is
\* scanned by a pass that begins after it came, unless the server is killed: a
\* trigger that arrives as a pass ends is not lost.
TraceIsScanned ==
  unseen /\ score["server"].running ~> ~unseen \/ bounds.losses > 0
=============================================================================
