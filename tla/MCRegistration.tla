--------------------------- MODULE MCRegistration ---------------------------
(* Two bundle versions, three attempts.                                    *)
EXTENDS Registration
=============================================================================
