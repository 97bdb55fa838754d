--------------------------- MODULE MCOrganizations ---------------------------
(* One organization and the accounts in it, or two organizations and a key.  *)
EXTENDS Organizations, TLC

MCSymmetry ==
    Permutations(Request) \union Permutations(Account) \union Permutations(Org)
=============================================================================
