------------------------- MODULE MCV2xNetworkAdapter -------------------------
(***************************************************************************)
(* The certificates of the run: an authority that ends while a pseudonym   *)
(* of its still runs, one of a foreign root, one with a damaged window; a  *)
(* pseudonym of each, one that ends early, and one with a damaged key.     *)
(***************************************************************************)
EXTENDS V2xNetworkAdapter

Issue(issuer, key, from, until) ==
  [subject_public_key |-> key,
   valid_from_epoch_s |-> from, valid_until_epoch_s |-> until,
   issuer_signature |-> Signed(issuer, <<key, from, until>>)]

SomeAuthorities ==
  {Issue("root", "ca", 1, 3), Issue("foreign root", "foreign ca", 0, 4),
   [Issue("root", "ca", 1, 3) EXCEPT !.valid_until_epoch_s = 4]}

SomePseudonyms ==
  {Issue("ca", "p1", 0, 2), Issue("ca", "p2", 1, 4), Issue("foreign ca", "p1", 0, 4),
   [Issue("ca", "p1", 0, 2) EXCEPT !.subject_public_key = "p2"]}
==============================================================================
