---------------------------- MODULE MCInvitations ---------------------------
(* Invitations for TLC.                                                    *)
EXTENDS Invitations, TLC

(* Clients are interchangeable, and so are invitations.                    *)
Symmetry == Permutations(Clients) \cup Permutations(Invs)
=============================================================================
