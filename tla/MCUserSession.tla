--------------------------- MODULE MCUserSession ---------------------------
(***************************************************************************)
(* Users and streams on which TLC checks UserSession.                      *)
(***************************************************************************)
EXTENDS UserSession

CONSTANTS u1, u2, s1, s2, s3

(* u1 comes back with a second stream.                                     *)
Owners == [s \in {s1, s2, s3} |-> IF s = s3 THEN u2 ELSE u1]

=============================================================================
