-------------------------- MODULE KeyedLaunch_proofs --------------------------
(***************************************************************************)
(* What holds of KeyedLaunch for all callers, requests and calls: it       *)
(* implements LaunchOnce.                                                  *)
(***************************************************************************)
EXTENDS KeyedLaunch, FiniteSetTheorems, TLAPS

\* A caller is no request, and none of the values that stand for nothing.
Distinct == Nobody \notin Callers /\ NoRequest \notin Requests

AnyCall == [pc : {"idle", "lock", "read", "look", "evidence", "write", "add",
                  "sent", "ack", "told"},
            request : Requests \cup {NoRequest},
            add : Nat,
            result : {"none", "started", "reused", "mismatch", "uncertain",
                      "no_group", "unavailable"}]

\* Types, but for how many calls and adds there are.
Types ==
  /\ lock \in Callers \cup {Nobody}
  /\ input \in Input
  /\ call \in [Callers -> AnyCall]
  /\ wire \subseteq Nat /\ tasks \subseteq Nat /\ queued \subseteq tasks
  /\ attempts \in BOOLEAN /\ group \in BOOLEAN
  /\ calls \in Nat /\ adds \in Nat

Held == {"read", "look", "evidence", "write", "add", "sent", "ack"}
Sent == wire \cup tasks

\* Who is past the lock has it.
OneHolder == \A c \in Callers : call[c].pc \in Held => lock = c

\* A caller has a request while it calls, and an answer at the end.
CallShape ==
  \A c \in Callers :
    /\ call[c].pc # "told" => call[c].result = "none"
    /\ call[c].pc = "idle" <=> call[c].request = NoRequest

\* Where there is a pool, one add at most was sent, and the input is of it.
OneSent ==
  /\ ~group => tasks = {}
  /\ group => \A a, b \in Sent : a = b
  /\ group /\ Sent # {} => input.request # NoRequest

\* A number or an attempt is evidence of a task.
Evidence == input.acked \/ attempts => tasks # {}

\* What a caller that has the lock knows of the input and of the adds.
Knows ==
  \A c \in Callers :
    /\ call[c].pc \in {"write", "add"} /\ group => Sent = {}
    /\ call[c].pc \in {"write", "add"} => ~input.acked
    /\ call[c].pc \in {"look", "evidence", "add", "sent", "ack"} =>
         input.request = call[c].request
    /\ call[c].pc = "ack" => call[c].add \in tasks

Inv == Types /\ OneHolder /\ CallShape /\ OneSent /\ Evidence /\ Knows

-----------------------------------------------------------------------------
(* The invariant.                                                          *)

LEMMA InitInv == ASSUME Distinct, Init PROVE Inv
<1>1. Types
  BY DEF Distinct, Init, Types, AnyCall, NoInput, Input, NoCall
<1>2. QED
  BY <1>1 DEF Distinct, Init, Inv, OneHolder, CallShape, OneSent, Evidence,
              Knows, Held, Sent, NoInput, NoCall

LEMMA CallsInv ==
  ASSUME Distinct, Inv, NEW c \in Callers, NEW r \in Requests, Calls(c, r)
  PROVE  Inv'
<1> USE DEF Calls, queueVars, Inv
<1>1. Types'
  BY DEF Types, AnyCall
<1>2. OneHolder' /\ CallShape'
  BY DEF Types, AnyCall, Distinct, OneHolder, CallShape, Held
<1>3. OneSent' /\ Evidence' /\ Knows'
  BY DEF Types, AnyCall, OneSent, Evidence, Knows, Sent
<1>4. QED  BY <1>1, <1>2, <1>3

\* A step of one caller's from one place to another, with the lock.
LEMMA MovesInv ==
  ASSUME Inv, NEW c \in Callers, NEW pc \in Held \ {"ack"},
         call[c].pc \in Held, Goes(c, pc),
         pc \in {"write", "add"} => (group => Sent = {}) /\ ~input.acked,
         pc \in {"look", "evidence", "add", "sent"} => input.request = call[c].request,
         UNCHANGED <<lock, input, queueVars, group, calls, adds>>
  PROVE  Inv'
<1> USE DEF Goes, queueVars, Inv, Held
<1>1. Types'
  BY DEF Types, AnyCall
<1>2. OneHolder' /\ CallShape'
  BY DEF Types, AnyCall, OneHolder, CallShape
<1>3. OneSent' /\ Evidence' /\ Knows'
  BY DEF Types, AnyCall, OneSent, Evidence, Knows, Sent
<1>4. QED  BY <1>1, <1>2, <1>3

\* A call that ends, and leaves an input that is as good as the one before.
LEMMA EndsInv ==
  ASSUME Distinct, Inv, NEW c \in Callers, call[c].pc \in Held,
         NEW result \in {"started", "reused", "mismatch", "uncertain",
                         "no_group", "unavailable"},
         Ends(c, result),
         input' \in Input, input'.acked => tasks # {},
         group /\ Sent # {} => input'.request # NoRequest,
         UNCHANGED <<queueVars, group, calls, adds>>
  PROVE  Inv'
<1> USE DEF Ends, queueVars, Inv, Held
<1>1. \A d \in Callers : call'[d].pc \notin Held
  BY DEF Types, AnyCall, OneHolder
<1>2. Types'
  BY ZenonT(60) DEF Types, AnyCall
<1>3. OneHolder' /\ CallShape'
  BY <1>1 DEF Types, AnyCall, OneHolder, CallShape
<1>4. OneSent' /\ Evidence'
  BY DEF Types, AnyCall, OneSent, Evidence, Sent
<1>5. Knows'
  BY <1>1 DEF Knows
<1>6. QED  BY <1>2, <1>3, <1>4, <1>5

LEMMA LocksInv ==
  ASSUME Distinct, Inv, NEW c \in Callers, Locks(c)
  PROVE  Inv'
<1> USE DEF Locks, Goes, queueVars, Inv, Held
<1>1. \A d \in Callers : call[d].pc \notin Held
  BY DEF Distinct, OneHolder
<1>2. Types'
  BY DEF Types, AnyCall
<1>3. OneHolder' /\ CallShape'
  BY <1>1 DEF Types, AnyCall, OneHolder, CallShape
<1>4. OneSent' /\ Evidence' /\ Knows'
  BY <1>1 DEF Types, AnyCall, OneSent, Evidence, Knows, Sent
<1>5. QED  BY <1>2, <1>3, <1>4

LEMMA ReadsInv ==
  ASSUME Distinct, Inv, NEW c \in Callers,
         ReadsInput(c) \/ LooksAtQueue(c) \/ LooksAtEvidence(c)
  PROVE  Inv'
<1> USE DEF Held
<1>1. CASE Ends(c, "mismatch") \/ Ends(c, "reused") \/ Ends(c, "unavailable")
           \/ Ends(c, "uncertain")
  <2>1. /\ input' = input /\ call[c].pc \in Held
        /\ UNCHANGED <<queueVars, group, calls, adds>>
    BY DEF ReadsInput, LooksAtQueue, LooksAtEvidence
  <2>2. /\ input' \in Input /\ (input'.acked => tasks # {})
        /\ group /\ Sent # {} => input'.request # NoRequest
    BY <2>1 DEF Inv, Types, AnyCall, OneSent, Evidence
  <2>3. PICK result \in {"mismatch", "reused", "unavailable", "uncertain"} :
          Ends(c, result)
    BY <1>1
  <2>4. QED  BY <2>1, <2>2, <2>3, EndsInv
<1>2. CASE ReadsInput(c) /\ input = NoInput /\ Goes(c, "write") /\ UNCHANGED lock
  <2>1. (group => Sent = {}) /\ ~input.acked
    BY <1>2 DEF Inv, OneSent, NoInput
  <2>2. QED  BY <1>2, <2>1, MovesInv DEF ReadsInput
<1>3. CASE /\ ReadsInput(c) /\ input.request = call[c].request
           /\ Goes(c, "look") /\ UNCHANGED lock
  BY <1>3, MovesInv DEF ReadsInput
<1>4. CASE LooksAtQueue(c) /\ Goes(c, "evidence") /\ UNCHANGED lock
  <2>1. input.request = call[c].request
    BY <1>4 DEF LooksAtQueue, Inv, Knows
  <2>2. QED  BY <1>4, <2>1, MovesInv DEF LooksAtQueue
<1>5. QED  BY <1>1, <1>2, <1>3, <1>4 DEF ReadsInput, LooksAtQueue, LooksAtEvidence

LEMMA WritesInv ==
  ASSUME Distinct, Inv, NEW c \in Callers, WritesInput(c)
  PROVE  Inv'
<1> USE DEF WritesInput, Held
<1>1. /\ (group => Sent = {}) /\ ~input.acked
      /\ call[c].request \in Requests
      /\ \A d \in Callers \ {c} : call[d].pc \notin Held
  BY DEF Distinct, Inv, Types, AnyCall, OneHolder, CallShape, Knows
<1>2. CASE Ends(c, "unavailable")
  <2>1. CASE UNCHANGED input
    BY <1>1, <1>2, <2>1, EndsInv DEF Inv, Types, AnyCall
  <2>2. CASE input' = [request |-> call[c].request, acked |-> FALSE]
    <3>1. input' \in Input /\ ~input'.acked
      BY <1>1, <2>2 DEF Input
    <3>2. QED  BY <1>1, <1>2, <3>1, EndsInv
  <2>3. QED  BY <1>2, <2>1, <2>2
<1>3. CASE /\ input' = [request |-> call[c].request, acked |-> FALSE]
           /\ Goes(c, "add") /\ UNCHANGED lock
  <2> USE <1>1, <1>3 DEF Goes, queueVars, Inv
  <2>1. Types'
    BY DEF Types, AnyCall, Input
  <2>2. OneHolder' /\ CallShape'
    BY DEF Types, AnyCall, OneHolder, CallShape
  <2>3. OneSent'
    BY DEF OneSent, Sent
  <2>4. Evidence'
    BY DEF Evidence, Knows, Sent
  <2>5. Knows'
    BY DEF Types, AnyCall, Knows, Sent
  <2>6. QED  BY <2>1, <2>2, <2>3, <2>4, <2>5
<1>4. QED  BY <1>2, <1>3

\* The wrapper of pueue sends the add, and hears of it or not.
LEMMA AddInv ==
  ASSUME Distinct, Inv, NEW c \in Callers, SendsAdd(c) \/ AddAnswered(c)
  PROVE  Inv'
<1> USE DEF Held, queueVars
<1>1. \A d \in Callers \ {c} : call[d].pc \notin Held
  BY DEF Inv, OneHolder, SendsAdd, AddAnswered
<1>2. CASE SendsAdd(c)
  <2> USE <1>1, <1>2 DEF SendsAdd, Inv
  <2>1. /\ group => Sent = {}
        /\ input.request = call[c].request /\ call[c].request # NoRequest
        /\ ~input.acked
    BY DEF Knows, CallShape
  <2>2. Types'
    <3>1. adds + 1 \in Nat /\ wire' \subseteq Nat
      BY DEF Types, AnyCall
    <3>2. call[c] \in AnyCall
      BY DEF Types, AnyCall
    <3>3. QED  BY <3>1, <3>2 DEF Types, AnyCall
  <2>3. OneHolder' /\ CallShape'
    BY DEF Types, AnyCall, OneHolder, CallShape
  <2>4. OneSent' /\ Evidence'
    BY <2>1 DEF OneSent, Evidence, Sent
  <2>5. Knows'
    BY <2>1 DEF Types, AnyCall, Knows, Sent
  <2>6. QED  BY <2>2, <2>3, <2>4, <2>5
<1>3. CASE AddAnswered(c)
  <2> USE <1>1, <1>3 DEF AddAnswered, Goes, Inv
  <2>1. Types'
    BY DEF Types, AnyCall
  <2>2. OneHolder' /\ CallShape'
    BY DEF Types, AnyCall, OneHolder, CallShape
  <2>3. OneSent' /\ Evidence' /\ Knows'
    BY DEF Types, AnyCall, OneSent, Evidence, Knows, Sent
  <2>4. QED  BY <2>1, <2>2, <2>3
<1>4. QED  BY <1>2, <1>3

LEMMA AddFailsInv ==
  ASSUME Distinct, Inv, NEW c \in Callers, AddFails(c)
  PROVE  Inv'
<1> USE DEF AddFails, Held
<1>1. CASE UNCHANGED input
  <2>1. /\ input' \in Input /\ (input'.acked => tasks # {})
        /\ group /\ Sent # {} => input'.request # NoRequest
    BY <1>1 DEF Inv, Types, AnyCall, OneSent, Evidence
  <2>2. PICK result \in {"no_group", "uncertain"} : Ends(c, result)
    OBVIOUS
  <2>3. QED  BY <2>1, <2>2, EndsInv
<1>2. CASE ~group /\ Ends(c, "no_group") /\ input' = NoInput
  <2>1. input' \in Input /\ ~input'.acked
    BY <1>2 DEF NoInput, Input
  <2>2. QED  BY <1>2, <2>1, EndsInv
<1>3. QED  BY <1>1, <1>2

LEMMA AcksInv ==
  ASSUME Distinct, Inv, NEW c \in Callers, Acks(c)
  PROVE  Inv'
<1> USE DEF Acks, Held
<1>1. /\ tasks # {} /\ call[c].request \in Requests
      /\ call[c].request # NoRequest
  BY DEF Distinct, Inv, Types, AnyCall, CallShape, Knows
<1>2. input' \in Input /\ input'.request # NoRequest
  <2>1. CASE UNCHANGED input
    BY <1>1, <2>1 DEF Inv, Types, AnyCall, Knows
  <2>2. CASE input' = [request |-> call[c].request, acked |-> TRUE]
    BY <1>1, <2>2 DEF Input
  <2>3. QED  BY <2>1, <2>2
<1>3. PICK result \in {"started", "unavailable"} : Ends(c, result)
  OBVIOUS
<1>4. QED  BY <1>1, <1>2, <1>3, EndsInv

\* Callers are forgotten, at the end of a call or of their process.
LEMMA ForgetsInv ==
  ASSUME Distinct, Inv, NEW dead \in SUBSET Callers,
         call' = [c \in Callers |-> IF c \in dead THEN NoCall ELSE call[c]],
         \A c \in Callers \ dead : call[c].pc \in Held => lock' = lock,
         lock' \in {lock, Nobody},
         UNCHANGED <<input, queueVars, group, calls, adds>>
  PROVE  Inv'
<1> USE DEF Inv, queueVars
<1>1. NoCall = [pc |-> "idle", request |-> NoRequest, add |-> 0, result |-> "none"]
  BY DEF NoCall
<1>2. Types'
  BY <1>1 DEF Types, AnyCall
<1>3. OneHolder'
  BY <1>1 DEF OneHolder, Held
<1>4. CallShape'
  BY <1>1 DEF CallShape
<1>5. OneSent' /\ Evidence' /\ Knows'
  BY <1>1 DEF OneSent, Evidence, Knows, Sent
<1>6. QED  BY <1>2, <1>3, <1>4, <1>5

LEMMA ReturnsInv ==
  ASSUME Distinct, Inv, NEW c \in Callers, Returns(c)
  PROVE  Inv'
<1>1. call' = [d \in Callers |-> IF d \in {c} THEN NoCall ELSE call[d]]
  BY DEF Returns, Inv, Types, AnyCall
<1>2. QED  BY <1>1, ForgetsInv DEF Returns

LEMMA DieInv ==
  ASSUME Distinct, Inv, NEW dead \in SUBSET Callers, Die(dead)
  PROVE  Inv'
<1>1. \A c \in Callers \ dead : call[c].pc \in Held => lock' = lock
  BY DEF Die, Inv, OneHolder
<1>2. lock' \in {lock, Nobody}
  BY DEF Die
<1>3. QED  BY <1>1, <1>2, ForgetsInv DEF Die

LEMMA QueueInv ==
  ASSUME Distinct, Inv, QueueStep
  PROVE  Inv'
<1> USE DEF Inv, queueVars
<1>1. CASE \E a \in Adds : DaemonAdds(a)
  <2>1. PICK a \in Adds : DaemonAdds(a)
    BY <1>1
  <2> USE <2>1 DEF DaemonAdds
  <2>2. Sent' \subseteq Sent /\ tasks \subseteq tasks' /\ (~group => tasks' = tasks)
    BY DEF Sent
  <2>3. Types'
    BY DEF Types, AnyCall, Adds
  <2>4. OneHolder' /\ CallShape'
    BY DEF OneHolder, CallShape
  <2>5. OneSent' /\ Evidence'
    BY <2>2 DEF OneSent, Evidence
  <2>6. Knows'
    BY <2>2 DEF Knows
  <2>7. QED  BY <2>3, <2>4, <2>5, <2>6
<1>2. CASE (\E t \in Adds : JobRemoved(t)) \/ JobBegins
  <2> USE <1>2 DEF JobRemoved, JobBegins
  <2>1. Types'
    BY DEF Types, AnyCall
  <2>2. OneHolder' /\ CallShape' /\ OneSent' /\ Knows'
    BY DEF OneHolder, CallShape, OneSent, Knows, Sent
  <2>3. Evidence'
    BY DEF Types, AnyCall, Evidence
  <2>4. QED  BY <2>1, <2>2, <2>3
<1>3. QED  BY <1>1, <1>2 DEF QueueStep

LEMMA NextInv == ASSUME Distinct, Inv, [Next]_vars PROVE Inv'
<1>1. ASSUME NEW c \in Callers, NEW r \in Requests, Calls(c, r)
      PROVE  Inv'
  BY <1>1, CallsInv
<1>2. ASSUME NEW c \in Callers, CallStep(c)
      PROVE  Inv'
  BY <1>2, LocksInv, ReadsInv, WritesInv, AddInv, AddFailsInv, AcksInv,
     ReturnsInv DEF CallStep, LaunchStep
<1>3. ASSUME NEW c \in Callers, Dies(c)
      PROVE  Inv'
  BY <1>3, DieInv DEF Dies
<1>4. CASE QueueStep
  BY <1>4, QueueInv
<1>5. CASE UNCHANGED vars
  BY <1>5 DEF vars, queueVars, Inv, Types, AnyCall, OneHolder, CallShape, OneSent,
              Evidence, Knows, Sent
<1>6. QED  BY <1>1, <1>2, <1>3, <1>4, <1>5 DEF Next, AtRest

-----------------------------------------------------------------------------
(* The types: no more adds are sent than there are calls.                  *)

\* The calls that have not sent their add.
Ahead ==
  {c \in Callers :
     call[c].pc \in {"lock", "read", "look", "evidence", "write", "add"}}

\* Each call sends one add at most, and the queue has no other.
Counted ==
  /\ IsFiniteSet(Ahead) /\ adds + Cardinality(Ahead) <= calls /\ calls <= MaxCalls
  /\ wire \subseteq 1..adds /\ tasks \subseteq 1..adds
  /\ \A c \in Callers : call[c].add <= adds

LEMMA CountedTypes == ASSUME MaxCalls \in Nat, Inv, Counted PROVE TypeOK
<1>1. /\ Types /\ IsFiniteSet(Ahead) /\ Cardinality(Ahead) \in Nat
  BY FS_CardinalityType DEF Inv, Counted
<1>2. calls \in 0..MaxCalls /\ adds \in 0..MaxCalls
  BY <1>1 DEF Counted, Types
<1>3. ASSUME NEW c \in Callers
      PROVE  call[c].add \in 0..MaxCalls
  <2>1. call[c] \in AnyCall
    BY <1>1 DEF Types
  <2>2. call[c].add \in Nat
    BY <2>1 DEF AnyCall
  <2>3. call[c].add <= adds
    BY DEF Counted
  <2>4. QED  BY <1>2, <2>2, <2>3
<1>4. call \in [Callers -> Call]
  BY <1>1, <1>3 DEF Types, AnyCall, Call
<1>5. wire \subseteq Adds /\ tasks \subseteq Adds
  BY <1>2 DEF Counted, Adds
<1>6. QED  BY <1>1, <1>2, <1>4, <1>5 DEF Types, TypeOK

\* A call gets no nearer to its add, or past it.
LEMMA CountedShrinks ==
  ASSUME Inv, Counted, Ahead' \subseteq Ahead, UNCHANGED <<adds, calls>>,
         wire' \subseteq wire, tasks' \subseteq tasks \cup wire,
         \A c \in Callers : call'[c].add \in {0, call[c].add}
  PROVE  Counted'
<1>1. /\ IsFiniteSet(Ahead') /\ Cardinality(Ahead') <= Cardinality(Ahead)
      /\ Cardinality(Ahead) \in Nat /\ Cardinality(Ahead') \in Nat
  BY FS_Subset, FS_CardinalityType DEF Counted
<1>2. adds \in Nat /\ calls \in Nat
  BY DEF Inv, Types
<1>3. QED  BY <1>1, <1>2 DEF Counted

LEMMA CallsCounted ==
  ASSUME MaxCalls \in Nat, Inv, Counted, NEW c \in Callers, NEW r \in Requests,
         Calls(c, r)
  PROVE  Counted'
<1>1. /\ call' = [call EXCEPT ![c] = [pc |-> "lock", request |-> r, add |-> 0,
                                      result |-> "none"]]
      /\ call \in [Callers -> AnyCall] /\ calls' = calls + 1 /\ calls < MaxCalls
      /\ UNCHANGED <<wire, tasks, adds>> /\ adds \in Nat /\ calls \in Nat
      /\ call[c].pc = "idle"
  BY DEF Calls, queueVars, Inv, Types
<1>2. Ahead' = Ahead \cup {c} /\ c \notin Ahead
  BY <1>1 DEF Ahead
<1>3. /\ IsFiniteSet(Ahead') /\ Cardinality(Ahead') = Cardinality(Ahead) + 1
      /\ Cardinality(Ahead) \in Nat
  BY <1>2, FS_AddElement, FS_CardinalityType DEF Counted
<1>4. \A d \in Callers : call'[d].add <= adds
  BY <1>1 DEF Counted
<1>5. calls + 1 <= MaxCalls
  BY <1>1 DEF Counted
<1>6. QED  BY <1>1, <1>3, <1>4, <1>5 DEF Counted

LEMMA LaunchCounted ==
  ASSUME Inv, Counted, NEW c \in Callers, LaunchStep(c)
  PROVE  Counted'
<1>1. call \in [Callers -> AnyCall] /\ adds \in Nat /\ calls \in Nat
  BY DEF Inv, Types
<1>2. CASE SendsAdd(c)
  <2>1. /\ call' = [call EXCEPT ![c].pc = "sent", ![c].add = adds + 1]
        /\ call[c].pc = "add" /\ adds' = adds + 1 /\ wire' = wire \cup {adds + 1}
        /\ UNCHANGED <<tasks, calls>>
    BY <1>2 DEF SendsAdd
  <2>2. call[c] \in AnyCall
    BY <1>1
  <2>3. /\ \A d \in Callers \ {c} : call'[d] = call[d]
        /\ call'[c].pc = "sent" /\ call'[c].add = adds + 1
    BY <1>1, <2>1, <2>2 DEF AnyCall
  <2>4. Ahead' = Ahead \ {c} /\ c \in Ahead
    BY <2>1, <2>3 DEF Ahead
  <2>5. /\ IsFiniteSet(Ahead') /\ Cardinality(Ahead') = Cardinality(Ahead) - 1
        /\ Cardinality(Ahead) \in Nat
    BY <2>4, FS_RemoveElement, FS_CardinalityType DEF Counted
  <2>6. \A d \in Callers : call'[d].add <= adds'
    BY <1>1, <2>1, <2>3 DEF Counted, AnyCall
  <2>7. adds' + Cardinality(Ahead') <= calls'
    BY <1>1, <2>1, <2>5 DEF Counted
  <2>8. QED  BY <1>1, <2>1, <2>5, <2>6, <2>7 DEF Counted
<1>3. CASE ~SendsAdd(c)
  <2>1. UNCHANGED <<wire, tasks, adds, calls>>
    BY <1>3 DEF LaunchStep, Locks, ReadsInput, LooksAtQueue, LooksAtEvidence,
                WritesInput, AddAnswered, AddFails, Acks, queueVars
  <2>2. ASSUME NEW pc, Goes(c, pc), c \in Ahead \/ pc = "ack"
        PROVE  Counted'
    <3>1. /\ Ahead' \subseteq Ahead
          /\ \A d \in Callers : call'[d].add \in {0, call[d].add}
      BY <1>1, <2>2 DEF Goes, Ahead, AnyCall
    <3>2. QED  BY <2>1, <3>1, CountedShrinks
  <2>3. ASSUME NEW result, Ends(c, result)
        PROVE  Counted'
    <3>1. /\ Ahead' \subseteq Ahead
          /\ \A d \in Callers : call'[d].add \in {0, call[d].add}
      BY <1>1, <2>3 DEF Ends, Ahead, AnyCall
    <3>2. QED  BY <2>1, <3>1, CountedShrinks
  <2>4. QED
    BY <1>3, <2>2, <2>3
       DEF LaunchStep, Locks, ReadsInput, LooksAtQueue, LooksAtEvidence,
           WritesInput, AddAnswered, AddFails, Acks, Ahead
<1>4. QED  BY <1>2, <1>3

LEMMA ForgetsCounted ==
  ASSUME Inv, Counted, NEW dead \in SUBSET Callers,
         call' = [c \in Callers |-> IF c \in dead THEN NoCall ELSE call[c]],
         UNCHANGED <<queueVars, calls, adds>>
  PROVE  Counted'
<1>1. /\ Ahead' \subseteq Ahead
      /\ \A d \in Callers : call'[d].add \in {0, call[d].add}
  BY DEF Ahead, NoCall
<1>2. QED  BY <1>1, CountedShrinks DEF queueVars

LEMMA ReturnsCounted ==
  ASSUME Inv, Counted, NEW c \in Callers, Returns(c)
  PROVE  Counted'
<1>1. call' = [d \in Callers |-> IF d \in {c} THEN NoCall ELSE call[d]]
  BY DEF Returns, Inv, Types, AnyCall
<1>2. QED  BY <1>1, ForgetsCounted DEF Returns

LEMMA DieCounted ==
  ASSUME Inv, Counted, NEW dead \in SUBSET Callers, Die(dead)
  PROVE  Counted'
BY ForgetsCounted DEF Die

LEMMA QueueCounted ==
  ASSUME Inv, Counted, QueueStep
  PROVE  Counted'
<1>1. /\ UNCHANGED <<call, calls, adds>>
      /\ wire' \subseteq wire /\ tasks' \subseteq tasks \cup wire
  BY DEF QueueStep, DaemonAdds, JobRemoved, JobBegins
<1>2. Ahead' = Ahead /\ \A d \in Callers : call'[d].add \in {0, call[d].add}
  BY <1>1 DEF Ahead
<1>3. QED  BY <1>1, <1>2, CountedShrinks

LEMMA RestsCounted == ASSUME Inv, Counted, UNCHANGED vars PROVE Counted'
BY DEF vars, queueVars, Counted, Ahead

LEMMA InitCounted == ASSUME MaxCalls \in Nat, Init PROVE Counted
<1>1. Ahead = {} /\ \A c \in Callers : call[c].add = 0
  BY DEF Init, Ahead, NoCall
<1>2. IsFiniteSet(Ahead) /\ Cardinality(Ahead) = 0
  BY <1>1, FS_EmptySet
<1>3. QED  BY <1>1, <1>2 DEF Init, Counted

LEMMA NextCounted ==
  ASSUME MaxCalls \in Nat, Inv, Counted, [Next]_vars
  PROVE  Counted'
<1>1. ASSUME NEW c \in Callers, Dies(c) PROVE Counted'
  BY <1>1, DieCounted DEF Dies
<1>2. QED
  BY <1>1, CallsCounted, LaunchCounted, ReturnsCounted, QueueCounted, RestsCounted
     DEF Next, CallStep, AtRest

\* The variables have their types: in the bounds of the calls, whoever dies.
THEOREM TypesOfTheLaunch ==
  ASSUME Distinct, MaxCalls \in Nat
  PROVE  Spec => []TypeOK
<1>1. Init => Inv /\ Counted
  BY InitInv, InitCounted
<1>2. Inv /\ Counted /\ [Next]_vars => Inv' /\ Counted'
  BY NextInv, NextCounted
<1>3. Inv /\ Counted => TypeOK
  BY CountedTypes
<1>4. QED  BY <1>1, <1>2, <1>3, PTL DEF Spec

-----------------------------------------------------------------------------
(* The refinement.                                                         *)

\* Only where tasks are there is something launched: the request of the input.
Launched == IF tasks = {} THEN NoRequest ELSE input.request
Asked == [c \in Callers |-> call[c].request]
Told == [c \in Callers |-> call[c].result \in {"started", "reused"}]

\* The end of a call that tells of the job, or of nothing.
LEMMA EndsTells ==
  ASSUME Distinct, Inv, NEW c \in Callers, call[c].pc \in Held,
         NEW result \in {"started", "reused", "mismatch", "uncertain",
                         "no_group", "unavailable"},
         Ends(c, result),
         result \in {"started", "reused"} =>
           tasks # {} /\ input.request = call[c].request,
         UNCHANGED tasks,
         tasks # {} => input'.request = input.request
  PROVE  Promise!Tell(c) \/ UNCHANGED Promise!vars
<1>1. Launched' = Launched
  BY DEF Launched
<1>2. Asked' = Asked
  BY DEF Ends, Asked, Inv, Types, AnyCall
<1>3. call[c].result = "none" /\ call[c].request # NoRequest
  BY DEF Inv, CallShape, Held
<1>4. CASE result \in {"started", "reused"}
  <2>1. Told' = [Told EXCEPT ![c] = TRUE]
    BY <1>4 DEF Ends, Told, Inv, Types, AnyCall
  <2>2. Asked[c] = Launched /\ Asked[c] # NoRequest
    BY <1>3, <1>4 DEF Asked, Launched
  <2>3. QED
    BY <1>1, <1>2, <2>1, <2>2 DEF Promise!Tell, Launched, Asked, Told
<1>5. CASE result \notin {"started", "reused"}
  <2>1. Told' = Told
    BY <1>3, <1>5 DEF Ends, Told, Inv, Types, AnyCall
  <2>2. QED  BY <1>1, <1>2, <2>1 DEF Promise!vars, Launched, Asked, Told
<1>6. QED  BY <1>4, <1>5

\* A move of a caller's is seen by nobody.
LEMMA GoesUnseen ==
  ASSUME Inv, NEW c \in Callers, NEW pc, Goes(c, pc), UNCHANGED tasks,
         tasks # {} => input'.request = input.request
  PROVE  UNCHANGED Promise!vars
<1>1. Asked' = Asked /\ Told' = Told
  BY DEF Goes, Asked, Told, Inv, Types, AnyCall
<1>2. Launched' = Launched
  BY DEF Launched
<1>3. QED  BY <1>1, <1>2 DEF Promise!vars, Launched, Asked, Told

LEMMA CallerRefines ==
  ASSUME Distinct, Inv, NEW c \in Callers, LaunchStep(c)
  PROVE  Promise!Tell(c) \/ UNCHANGED Promise!vars
<1> USE DEF Held, queueVars
<1>1. CASE Locks(c)
  BY <1>1, GoesUnseen DEF Locks
<1>2. CASE ReadsInput(c)
  BY <1>2, GoesUnseen, EndsTells DEF ReadsInput
<1>3. CASE LooksAtQueue(c)
  <2>1. queued # {} => tasks # {} /\ input.request = call[c].request
    BY <1>3 DEF LooksAtQueue, Inv, Types, AnyCall, Knows
  <2>2. QED  BY <1>3, <2>1, GoesUnseen, EndsTells DEF LooksAtQueue
<1>4. CASE LooksAtEvidence(c)
  <2>1. input.acked \/ attempts => tasks # {} /\ input.request = call[c].request
    BY <1>4 DEF LooksAtEvidence, Inv, Evidence, Knows
  <2>2. QED  BY <1>4, <2>1, EndsTells DEF LooksAtEvidence
<1>5. CASE WritesInput(c)
  <2>1. tasks = {}
    BY <1>5 DEF WritesInput, Inv, Knows, OneSent, Sent
  <2>2. QED  BY <1>5, <2>1, GoesUnseen, EndsTells DEF WritesInput
<1>6. CASE SendsAdd(c)
  <2>1. Asked' = Asked /\ Told' = Told /\ Launched' = Launched
    BY <1>6 DEF SendsAdd, Asked, Told, Launched, Inv, Types, AnyCall
  <2>2. QED  BY <2>1 DEF Promise!vars, Launched, Asked, Told
<1>7. CASE AddAnswered(c)
  BY <1>7, GoesUnseen DEF AddAnswered
<1>8. CASE AddFails(c)
  <2>1. ~group => tasks = {}
    BY DEF Inv, OneSent
  <2>2. QED  BY <1>8, <2>1, EndsTells DEF AddFails
<1>9. CASE Acks(c)
  <2>1. tasks # {} /\ input.request = call[c].request
    BY <1>9 DEF Acks, Inv, Knows
  <2>2. QED  BY <1>9, <2>1, EndsTells DEF Acks
<1>10. QED  BY <1>1, <1>2, <1>3, <1>4, <1>5, <1>6, <1>7, <1>8, <1>9 DEF LaunchStep

LEMMA Forgets ==
  ASSUME Inv, NEW dead \in SUBSET Callers, UNCHANGED <<tasks, input>>,
         call' = [c \in Callers |-> IF c \in dead THEN NoCall ELSE call[c]]
  PROVE  Promise!Forget(dead)
<1>1. Asked' = [c \in Callers |-> IF c \in dead THEN NoRequest ELSE Asked[c]]
  BY DEF Asked, NoCall
<1>2. Told' = [c \in Callers |-> Told[c] /\ c \notin dead]
  <2>1. ASSUME NEW c \in Callers
        PROVE  (call'[c].result \in {"started", "reused"})
                 = (call[c].result \in {"started", "reused"} /\ c \notin dead)
    BY DEF NoCall
  <2>2. QED  BY <2>1, Zenon DEF Told
<1>3. Launched' = Launched
  BY DEF Launched
<1>4. QED  BY <1>1, <1>2, <1>3 DEF Promise!Forget, Launched, Asked, Told

LEMMA QueueRefines ==
  ASSUME Distinct, Inv, QueueStep
  PROVE  (\E r \in Requests : Promise!Launch(r)) \/ UNCHANGED Promise!vars
<1>1. Asked' = Asked /\ Told' = Told /\ UNCHANGED input
  BY DEF QueueStep, DaemonAdds, JobRemoved, JobBegins, Asked, Told
<1>2. CASE tasks' = tasks
  BY <1>1, <1>2 DEF Promise!vars, Asked, Told
<1>3. CASE tasks' # tasks
  <2>1. PICK a \in Adds : /\ a \in wire /\ group
                          /\ tasks' = tasks \cup {a}
    BY <1>3 DEF QueueStep, DaemonAdds, JobRemoved, JobBegins
  <2>2. tasks = {}
    BY <1>3, <2>1 DEF Inv, OneSent, Sent
  <2>3. input.request \in Requests
    BY <2>1 DEF Inv, OneSent, Sent, Types, AnyCall, Input
  <2>4. Launched = NoRequest /\ Launched' = input.request
    BY <1>1, <2>1, <2>2 DEF Launched
  <2>5. Promise!Launch(input.request)
    BY <1>1, <2>4 DEF Promise!Launch, Launched, Asked, Told
  <2>6. QED  BY <2>3, <2>5
<1>4. QED  BY <1>2, <1>3

LEMMA StepRefines ==
  ASSUME Distinct, Inv, [Next]_vars
  PROVE  [Promise!Next]_(Promise!vars)
<1>1. ASSUME NEW c \in Callers, NEW r \in Requests, Calls(c, r)
      PROVE  Promise!Ask(c, r)
  <2>1. call[c].request = NoRequest /\ call[c].result = "none"
    BY <1>1 DEF Calls, Inv, CallShape
  <2>2. Asked' = [Asked EXCEPT ![c] = r] /\ Told' = Told
    BY <1>1, <2>1 DEF Calls, Asked, Told, Inv, Types, AnyCall
  <2>3. Asked[c] = NoRequest /\ Launched' = Launched
    BY <1>1, <2>1 DEF Calls, queueVars, Asked, Launched
  <2>4. QED  BY <2>2, <2>3 DEF Promise!Ask, Launched, Asked, Told
<1>2. ASSUME NEW c \in Callers, Returns(c)
      PROVE  Promise!Forget({c})
  <2>1. call' = [d \in Callers |-> IF d \in {c} THEN NoCall ELSE call[d]]
    BY <1>2 DEF Returns, Inv, Types, AnyCall
  <2>2. QED  BY <1>2, <2>1, Forgets DEF Returns, queueVars
<1>3. ASSUME NEW c \in Callers, Dies(c)
      PROVE  Promise!Forget({c})
  BY <1>3, Forgets DEF Dies, Die, queueVars
<1>4. CASE UNCHANGED vars
  BY <1>4 DEF vars, queueVars, Promise!vars
<1>5. QED
  BY <1>1, <1>2, <1>3, <1>4, CallerRefines, QueueRefines
     DEF Next, CallStep, AtRest, Promise!Next

LEMMA OneTask == ASSUME Inv PROVE \A a, b \in tasks : a = b
BY DEF Inv, OneSent, Sent

\* For all callers, requests and calls of a key, whoever dies and whenever the
\* daemon takes an add: one job at most, for the request that came first, and
\* whoever is told of a job asked for that one.
THEOREM OneJobForAKey ==
  ASSUME Distinct
  PROVE  Spec => KeepsPromise
<1>1. Init => Inv /\ Promise!Init
  <2> SUFFICES ASSUME Init PROVE Inv /\ Promise!Init
    OBVIOUS
  <2>1. Promise!Init
    <3>1. Launched = NoRequest /\ Asked = [c \in Callers |-> NoRequest]
      BY DEF Init, NoCall, Launched, Asked
    <3>2. \A c \in Callers : (call[c].result \in {"started", "reused"}) = FALSE
      <4> TAKE c \in Callers
      <4>1. call[c].result = "none"
        BY DEF Init, NoCall
      <4>2. "none" \notin {"started", "reused"}
        OBVIOUS
      <4>3. QED  BY <4>1, <4>2
    <3>3. Told = [c \in Callers |-> FALSE]
      BY <3>2, Zenon DEF Told
    <3>4. QED  BY <3>1, <3>3 DEF Promise!Init, Launched, Asked, Told
  <2>2. QED  BY <2>1, InitInv
<1>2. Inv /\ [Next]_vars => Inv' /\ [Promise!Next]_(Promise!vars)
  BY NextInv, StepRefines
<1>3. Inv => \A a, b \in tasks : a = b
  BY OneTask
<1>4. QED
  BY <1>1, <1>2, <1>3, PTL DEF Spec, KeepsPromise, Promise!Spec
=============================================================================
