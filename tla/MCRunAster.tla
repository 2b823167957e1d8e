----------------------------- MODULE MCRunAster -----------------------------
(***************************************************************************)
(* Instances of RunAster: the marks the messages may have and the values   *)
(* of expected_diag.                                                       *)
(***************************************************************************)
EXTENDS RunAster

MCMarks == {"Nook"}
MCExpected == {{}, {"CpuLimit"}}
=============================================================================
