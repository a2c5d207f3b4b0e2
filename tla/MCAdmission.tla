----------------------------- MODULE MCAdmission -----------------------------
(* Instances of Admission for TLC: the pools of the host's declaration that  *)
(* exclude each other, and one that excludes nothing.                        *)
EXTENDS Admission, TLC

CONSTANTS a1, a2, h1, h2, n1

HostPools == {"agent", "pytest-heavy", "normal"}
HostExclusions == {<<"pytest-heavy", "agent">>}
HostPoolOf ==
  [j \in Jobs |-> CASE j \in {a1, a2} -> "agent"
                    [] j \in {h1, h2} -> "pytest-heavy"
                    [] OTHER          -> "normal"]
NoParents == [j \in Jobs |-> NoJob]
\* The command of a1 launches h1, its exclusive partner, and n1.
Nested == [j \in Jobs |-> IF j \in {h1, n1} THEN a1 ELSE NoJob]
\* Without parents, the two jobs of one pool are interchangeable.
Agents == Permutations({a1, a2})
=============================================================================
