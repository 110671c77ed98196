--------------------------- MODULE MCProvisioning ---------------------------
(***************************************************************************)
(* Provisioning with a GiB of 2 units; volumes have 1 to 4 GiB, 2 by       *)
(* default.                                                                *)
(***************************************************************************)
EXTENDS Provisioning

WholeGiB == {-2, 0, 2, 4, 6, 10}

\* GetVolume as the client documents it, by identity.
ByIdentity == {FALSE}

\* A plain request: RequiredBytes, no volume-identity and no snapshot.
PlainInit ==
  Init /\ req.required > 0 /\ req.limit = 0 /\ req.known /\ ~req.adopt /\ ~req.restore

PlainSpec == PlainInit /\ [][Next]_vars
=============================================================================
