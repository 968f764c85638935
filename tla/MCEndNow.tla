------------------------------ MODULE MCEndNow ------------------------------
(* One window over one fault, for End now. *)
EXTENDS Windows

MCSpans == {<<1, 3>>}
=============================================================================
