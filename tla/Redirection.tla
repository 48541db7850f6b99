---------------------------- MODULE Redirection ----------------------------
(***************************************************************************)
(* What a client's master_address may do: it names a master, counted in    *)
(* the order of their promotions, and only ever moves to a later one that  *)
(* has been promoted.  Module Replication redirects clients in this way;   *)
(* module Migration delivers the announcements that do it.                 *)
(***************************************************************************)
EXTENDS Naturals

VARIABLES epoch,    \* the masters promoted so far; 0 is the first master
          address   \* the one the client's configuration names

Init == epoch = 0 /\ address = 0

Promote == epoch' = epoch + 1 /\ UNCHANGED address

Redirect == address' \in (address + 1) .. epoch /\ UNCHANGED epoch

Spec == Init /\ [][Promote \/ Redirect]_<<epoch, address>>

=============================================================================
