----------------------------- MODULE MCAccounts -----------------------------
(* Two persons with Zitadel logins and one WeChat user at most.              *)
EXTENDS Accounts, TLC

MCCalls == Permutations(Request)
=============================================================================
