----------------------------- MODULE MCSession -----------------------------
(* Model-checking instances of Session; the configurations choose which    *)
(* environment events may happen.                                          *)
EXTENDS Session
=============================================================================
