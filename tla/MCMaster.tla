------------------------------ MODULE MCMaster ------------------------------
(***************************************************************************)
(* Constants for model checking Master.                                    *)
(***************************************************************************)
EXTENDS Master, TLC

\* All targets in one file, as for names that differ only in characters
\* sanitizeName replaces.
OneFile == CHOOSE f \in Files : TRUE

SharedFile == [t \in Targets |-> OneFile]

\* Sound because the targets share their file.
Symmetry == Permutations(Procs) \cup Permutations(Serials) \cup Permutations(Targets)

=============================================================================
