--------------------------- MODULE MCCredentials ---------------------------
(* Instances of Credentials for TLC. *)
EXTENDS Credentials, TLC

\* Administrators are interchangeable.
MCSymmetry == Permutations(Admins)
=============================================================================
