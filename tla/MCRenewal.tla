------------------------------ MODULE MCRenewal ------------------------------
(* One account, its subscription with auto_renew and the ones that renewals    *)
(* insert.                                                                     *)
EXTENDS Renewal, TLC

CONSTANTS alice

MCOwner == [s \in Sub |-> alice]
MCNone == [c \in {} |-> 0]
MCMaxEntries == [a \in Account |-> 8]
=============================================================================
