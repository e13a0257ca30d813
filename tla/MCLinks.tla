------------------------------- MODULE MCLinks -------------------------------
(***************************************************************************)
(* Transport over several connections, and the frames they carry, for TLC. *)
(* The addresses are those of a coil, a dimmer register, a Cover's pulse   *)
(* and the reports of an S402; as the head of an answer they count 0, 1,   *)
(* 2, 8, 250 and 252 bytes.  That answers arrive is about constants alone: *)
(* TLC evaluates it once, at the start of the run.                         *)
(***************************************************************************)
EXTENDS MCTransport, Frames

MCFunctions == 1 .. 7 \cup 129 .. 135
MCAddresses == {0, 256, 512, 411, 416, 2090, 64000, 64512}

ASSUME AnswersArrive
=============================================================================
