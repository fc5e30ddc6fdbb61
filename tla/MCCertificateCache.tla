------------------------- MODULE MCCertificateCache -------------------------
(***************************************************************************)
(* CertificateCache on small instances: an admin and a user, each with one *)
(* certificate, so that the list of all has two and those of the users one. *)
(***************************************************************************)
EXTENDS CertificateCache, TLC

CONSTANTS ann, bob, c1, c2

MCUsers == {ann, bob}
MCAdmins == {ann}
MCCerts == {c1, c2}
MCClearable == {<<bob, All>>}
MCOwner == c1 :> ann @@ c2 :> bob

\* Requests differ in nothing but their name.
Symmetry == Permutations(Requests)
=============================================================================
