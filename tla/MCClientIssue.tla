---------------------------- MODULE MCClientIssue ----------------------------
(* Small instances of ClientIssue. *)
EXTENDS ClientIssue, TLC

ProcSymmetry == Permutations(Procs)

\* Loopback subjects with a padded and an upper-case one, and two others.
MCSpellings ==
    {Plain("localhost"), Name("localhost", FALSE, TRUE), Name("localhost", TRUE, FALSE),
     Plain("127.0.0.2"), Plain("192.168.0.1"), Plain("app.internal")}

=============================================================================
