---------------------------- MODULE MCConnection ----------------------------
(* Both ends of one control connection.                                    *)
EXTENDS Connection
=============================================================================
