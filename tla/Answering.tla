------------------------------ MODULE Answering ------------------------------
(***************************************************************************)
(* A command that only reads: asked once, it answers once.                 *)
(***************************************************************************)
CONSTANT Unanswered

VARIABLES cmd, question, answer

vars == <<cmd, question, answer>>

Answer(c, a) ==
    /\ cmd = c /\ answer = Unanswered
    /\ answer' = a
    /\ UNCHANGED <<cmd, question>>

Answered(c) == cmd = c /\ answer # Unanswered
=============================================================================
