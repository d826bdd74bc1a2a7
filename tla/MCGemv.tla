------------------------------- MODULE MCGemv -------------------------------
(***************************************************************************)
(* The jobs of one to three matrices with up to MaxRows rows in all.       *)
(***************************************************************************)
EXTENDS Gemv

CONSTANT MaxRows

MCJobs == {job \in UNION {[1..m -> 0..MaxRows] : m \in 2..4} : IsJob(job)}
=============================================================================
