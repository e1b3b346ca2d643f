------------------------ MODULE MCCorrectionPipeline ------------------------
(* One run of math.correction over every turn the router can produce and   *)
(* every combination of skill results, failures and the deadline.          *)
EXTENDS CorrectionPipeline
=============================================================================
