--------------------------- MODULE MCTermSession ---------------------------
(* Small instances of TermSession.                                         *)
EXTENDS TermSession
=============================================================================
