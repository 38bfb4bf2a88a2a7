----------------------------- MODULE MCListings -----------------------------
(***************************************************************************)
(* Listings with up to four rows of two groups.  Every limit is scaled     *)
(* down (1..3 accepted, 2 by default), the log budget to four bytes against *)
(* rows of one, three or five: rows that fit, fit once, and never fit.      *)
(***************************************************************************)
EXTENDS Listings

MCGroups  == {"a", "b"}
MCStores  == UNION {[1..n -> [group : MCGroups, size : {1, 3, 5}]] : n \in 0..4}
MCMax     == [t \in ListTools |-> 3]
MCDefault == [t \in ListTools |-> 2]
MCLimits  == 0..4
=============================================================================
