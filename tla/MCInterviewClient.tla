------------------------- MODULE MCInterviewClient -------------------------
(* Small instances of InterviewClient. *)
EXTENDS InterviewClient
=============================================================================
