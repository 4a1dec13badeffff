------------------------------ MODULE MCResend ------------------------------
(***************************************************************************)
(* Two fragments, writer queues of one frame, a run of a few steps.        *)
(***************************************************************************)
EXTENDS Resend

=============================================================================
