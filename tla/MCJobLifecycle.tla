--------------------------- MODULE MCJobLifecycle ---------------------------
(* Instances of JobLifecycle for TLC: the configurations choose Cancellers  *)
(* and Guarded among c1 and c2.  The two are not symmetric when only one of *)
(* them is guarded, so no symmetry is declared.                             *)
EXTENDS JobLifecycle

CONSTANTS c1, c2
=============================================================================
