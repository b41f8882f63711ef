--------------------------- MODULE MCImageResolve ---------------------------
(* Instances of ImageResolve for TLC. *)
EXTENDS ImageResolve, TLC

(* Processes, projects and Dockerfiles are interchangeable (safety only). *)
Symmetry == Permutations(Procs) \cup Permutations(Projects) \cup Permutations(Dockerfiles)
=============================================================================
