----------------------------- MODULE MCListing -----------------------------
(***************************************************************************)
(* Listing for TLC.                                                        *)
(***************************************************************************)
EXTENDS Listing

Both == {"docdb", "memory"}
DocDB == {"docdb"}

\* No page size, and one that is too large: each clamp of each call.
AskedSizes == {0, 3}
=============================================================================
