----------------------------- MODULE MCListing -----------------------------
(***************************************************************************)
(* Listing with identities of two source volumes that alternate in order.  *)
(***************************************************************************)
EXTENDS Listing

CONSTANTS v1, v2

MCSourceOf == [x \in Ids |-> IF x % 2 = 0 THEN v2 ELSE v1]
=============================================================================
