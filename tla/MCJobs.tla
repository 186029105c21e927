------------------------------- MODULE MCJobs -------------------------------
(* Instances of module Jobs for TLC.                                       *)
EXTENDS Jobs, TLC

(* Request handlers are interchangeable; only safety runs may use this.    *)
ReqSymmetry == Permutations(Reqs)
=============================================================================
