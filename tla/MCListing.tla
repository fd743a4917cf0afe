------------------------------ MODULE MCListing ------------------------------
(***************************************************************************)
(* Listing on five rows, two of which one transaction has written.         *)
(***************************************************************************)
EXTENDS Listing

MCRows  == 1..5
MCStamp == <<1, 2, 2, 3, 4>>
=============================================================================
