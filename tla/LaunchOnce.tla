------------------------------ MODULE LaunchOnce ------------------------------
(***************************************************************************)
(* What a keyed launch promises its callers: however often the same key is *)
(* used, by whomever and over whatever crashes, one job is launched for    *)
(* it, for the request that came first, and a caller that is told of a job *)
(* is told of that one and asked for it.  It may always be told nothing.   *)
(***************************************************************************)
CONSTANTS
  Callers,    \* who may use the key
  Requests,   \* what may be asked for
  NoRequest   \* nothing asked for or launched

VARIABLES
  launched,   \* the request whose job was launched
  asked,      \* the request of each caller's call, NoRequest between calls
  told        \* whether the call has been told of the job

vars == <<launched, asked, told>>

Init ==
  /\ launched = NoRequest
  /\ asked = [c \in Callers |-> NoRequest]
  /\ told = [c \in Callers |-> FALSE]

Ask(c, r) ==
  /\ asked[c] = NoRequest
  /\ asked' = [asked EXCEPT ![c] = r]
  /\ UNCHANGED <<launched, told>>

\* A request that some caller makes, or made before it died.
Launch(r) ==
  /\ launched = NoRequest
  /\ launched' = r
  /\ UNCHANGED <<asked, told>>

Tell(c) ==
  /\ asked[c] # NoRequest
  /\ launched = asked[c]
  /\ told' = [told EXCEPT ![c] = TRUE]
  /\ UNCHANGED <<launched, asked>>

Forget(callers) ==
  /\ asked' = [c \in Callers |-> IF c \in callers THEN NoRequest ELSE asked[c]]
  /\ told' = [c \in Callers |-> told[c] /\ c \notin callers]
  /\ UNCHANGED launched

Next ==
  \/ \E c \in Callers : (\E r \in Requests : Ask(c, r)) \/ Tell(c)
  \/ \E r \in Requests : Launch(r)
  \/ \E callers \in SUBSET Callers : Forget(callers)

Spec == Init /\ [][Next]_vars
=============================================================================
