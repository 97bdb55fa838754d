---------------------------- MODULE Organizations ----------------------------
(***************************************************************************)
(* OrganizationService: organizations, their members and their API keys.   *)
(* Permissions are read in one database call and used in a later one, so   *)
(* each call is a step.  An organization is known by its slug; its status  *)
(* and its wallet's balance are left out, no decision reads them.          *)
(***************************************************************************)
EXTENDS Integers, FiniteSets

CONSTANTS
    Org,      \* slugs
    Account,
    Key,      \* API keys that may be made
    Request,  \* calls being served
    NoOrg, NoAccount, NoKey,
    MaxOrgFaults \* bound of the model: failures of calls

ASSUME OrganizationAssumption ==
    /\ NoOrg \notin Org
    /\ NoAccount \notin Account
    /\ NoKey \notin Key
    /\ MaxOrgFaults \in Nat

VARIABLES
    orgs,      \* organizations that exist
    role,      \* Org -> Account -> org_members.role, "none" without a row
    orgWallet, \* organizations with a billing.org_wallets row
    keyOrg,    \* Key -> org_api_keys.org_id, or NoOrg
    keyStatus, \* Key -> org_api_keys.status
    request,   \* Request -> the call it serves
    orgFaults  \* failures so far

keyVars == <<keyOrg, keyStatus>>
orgsVars == <<orgs, role, orgWallet, keyVars, request, orgFaults>>

\* AddMember takes any string for a role; the others are as "member".
Role == {"owner", "admin", "member"}

Free == [pc |-> "free", org |-> NoOrg, who |-> NoAccount, role |-> "none", key |-> NoKey]
OrgCall == [pc : {"addOwner", "wallet", "add", "insert", "update", "target", "owners", "remove",
                  "createKey", "revoke", "touch"},
            org : Org \union {NoOrg}, who : Account \union {NoAccount},
            role : Role \union {"none"}, key : Key \union {NoKey}]

OrganizationsTypeOK ==
    /\ orgs \subseteq Org
    /\ role \in [Org -> [Account -> Role \union {"none"}]]
    /\ orgWallet \subseteq orgs
    /\ keyOrg \in [Key -> orgs \union {NoOrg}]
    /\ keyStatus \in [Key -> {"none", "active", "revoked"}]
    /\ request \in [Request -> OrgCall \union {Free}]
    /\ orgFaults \in Nat

OrgsInit ==
    /\ orgs = {}
    /\ role = [o \in Org |-> [a \in Account |-> "none"]]
    /\ orgWallet = {}
    /\ keyOrg = [k \in Key |-> NoOrg]
    /\ keyStatus = [k \in Key |-> "none"]
    /\ request = [q \in Request |-> Free]
    /\ orgFaults = 0

Owners(o) == {a \in Account : role[o][a] = "owner"}
IsManager(o, a) == role[o][a] \in {"owner", "admin"}

Finish(q) == request' = [request EXCEPT ![q] = Free]
Goto(q, pc) == request' = [request EXCEPT ![q].pc = pc]

Begin(q, pc, o, a, r, k) ==
    /\ request[q] = Free
    /\ request' = [request EXCEPT ![q] = [pc |-> pc, org |-> o, who |-> a, role |-> r, key |-> k]]
    /\ UNCHANGED <<orgs, role, orgWallet, keyVars, orgFaults>>

-----------------------------------------------------------------------------
(* Organizations and members *)

\* Create, the INSERT; the unique slug refuses a second one.
CreateOrg(q, o, owner) ==
    /\ request[q] = Free
    /\ o \notin orgs
    /\ orgs' = orgs \union {o}
    /\ request' = [request EXCEPT ![q] = [Free EXCEPT !.pc = "addOwner", !.org = o, !.who = owner]]
    /\ UNCHANGED <<role, orgWallet, keyVars, orgFaults>>

\* Mutant: the wallet is left to the first GetWallet.
AddOwner_Last(q) ==
    /\ request[q].pc = "addOwner"
    /\ role' = [role EXCEPT ![request[q].org][request[q].who] = "owner"]
    /\ Finish(q)
    /\ UNCHANGED <<orgs, orgWallet, keyVars, orgFaults>>

AddOwner(q) ==
    /\ request[q].pc = "addOwner"
    /\ role' = [role EXCEPT ![request[q].org][request[q].who] = "owner"]
    /\ Goto(q, "wallet")
    /\ UNCHANGED <<orgs, orgWallet, keyVars, orgFaults>>

CreateOrgWallet(q) ==
    /\ request[q].pc = "wallet"
    /\ orgWallet' = orgWallet \union {request[q].org}
    /\ Finish(q)
    /\ UNCHANGED <<orgs, role, keyVars, orgFaults>>

\* GetWallet makes the row when it is missing; the foreign key asks for the
\* organization.
GetWallet(o) ==
    /\ o \in orgs \ orgWallet
    /\ orgWallet' = orgWallet \union {o}
    /\ UNCHANGED <<orgs, role, keyVars, request, orgFaults>>

\* AddMember reads the caller's role ...
BeginAddMember(q, o, caller, target, r) ==
    /\ IsManager(o, caller)
    /\ Begin(q, "add", o, target, r, NoKey)

\* ... then the target's row: FirstOrCreate inserts the one it did not find, or
\* updates the role of the one it found.
ReadMember(q) ==
    /\ request[q].pc = "add"
    /\ Goto(q, IF role[request[q].org][request[q].who] = "none" THEN "insert" ELSE "update")
    /\ UNCHANGED <<orgs, role, orgWallet, keyVars, orgFaults>>

\* A row inserted since refuses the INSERT; one deleted since is not updated.
AddMember(q) ==
    LET exists == role[request[q].org][request[q].who] # "none"
    IN /\ request[q].pc \in {"insert", "update"}
       /\ \/ /\ exists = (request[q].pc = "update")
             /\ role' = [role EXCEPT ![request[q].org][request[q].who] = request[q].role]
          \/ /\ exists # (request[q].pc = "update")
             /\ UNCHANGED role
       /\ Finish(q)
       /\ UNCHANGED <<orgs, orgWallet, keyVars, orgFaults>>

\* RemoveMember reads the caller's role, the target's, and for an owner counts
\* the owners.
BeginRemoveMember(q, o, caller, target) ==
    /\ IsManager(o, caller)
    /\ Begin(q, "target", o, target, "none", NoKey)

ReadTarget(q) ==
    LET r == role[request[q].org][request[q].who]
    IN /\ request[q].pc = "target"
       /\ \/ r = "none" /\ Finish(q)
          \/ r = "owner" /\ Goto(q, "owners")
          \/ r \in {"admin", "member"} /\ Goto(q, "remove")
       /\ UNCHANGED <<orgs, role, orgWallet, keyVars, orgFaults>>

IsLastOwner(o) == Cardinality(Owners(o)) <= 1

CountOwners(q) ==
    /\ request[q].pc = "owners"
    /\ \/ IsLastOwner(request[q].org) /\ Finish(q)
       \/ ~ IsLastOwner(request[q].org) /\ Goto(q, "remove")
    /\ UNCHANGED <<orgs, role, orgWallet, keyVars, orgFaults>>

\* The DELETE, whatever the target's role is by now.
RemoveMember(q) ==
    /\ request[q].pc = "remove"
    /\ role' = [role EXCEPT ![request[q].org][request[q].who] = "none"]
    /\ Finish(q)
    /\ UNCHANGED <<orgs, orgWallet, keyVars, orgFaults>>

-----------------------------------------------------------------------------
(* API keys *)

\* CreateAPIKey reads the caller's membership, then inserts the key.
BeginCreateKey(q, o, caller) ==
    /\ role[o][caller] # "none"
    /\ Begin(q, "createKey", o, NoAccount, "none", NoKey)

CreateKey(q, k) ==
    /\ request[q].pc = "createKey"
    /\ keyStatus[k] = "none"
    /\ keyOrg' = [keyOrg EXCEPT ![k] = request[q].org]
    /\ keyStatus' = [keyStatus EXCEPT ![k] = "active"]
    /\ Finish(q)
    /\ UNCHANGED <<orgs, role, orgWallet, orgFaults>>

\* RevokeAPIKey reads the caller's role, then updates the row with the key's id.
BeginRevoke(q, o, caller, k) ==
    /\ IsManager(o, caller)
    /\ keyStatus[k] # "none"
    /\ Begin(q, "revoke", o, NoAccount, "none", k)

Revoke(q) ==
    /\ request[q].pc = "revoke"
    /\ keyStatus' = [keyStatus EXCEPT ![request[q].key] = "revoked"]
    /\ Finish(q)
    /\ UNCHANGED <<orgs, role, orgWallet, keyOrg, orgFaults>>

\* ResolveAPIKey reads an active key, touches last_used_at and answers with the
\* key's organization.
ReadKey(q, k) ==
    /\ keyStatus[k] = "active"
    /\ Begin(q, "touch", NoOrg, NoAccount, "none", k)

\* Mutant: the touch saves the row that was read.
TouchKey_SavesRow(q) ==
    /\ request[q].pc = "touch"
    /\ keyStatus' = [keyStatus EXCEPT ![request[q].key] = "active"]
    /\ Finish(q)
    /\ UNCHANGED <<orgs, role, orgWallet, keyOrg, orgFaults>>

TouchKey(q) ==
    /\ request[q].pc = "touch"
    /\ Finish(q)
    /\ UNCHANGED <<orgs, role, orgWallet, keyVars, orgFaults>>

\* A call fails or the pod dies.
CallFails(q) ==
    /\ request[q] # Free
    /\ orgFaults < MaxOrgFaults
    /\ orgFaults' = orgFaults + 1
    /\ Finish(q)
    /\ UNCHANGED <<orgs, role, orgWallet, keyVars>>

OrgsNext ==
    \/ \E q \in Request, o \in Org, a \in Account :
        \/ CreateOrg(q, o, a)
        \/ BeginCreateKey(q, o, a)
        \/ \E target \in Account :
            \/ \E r \in Role : BeginAddMember(q, o, a, target, r)
            \/ BeginRemoveMember(q, o, a, target)
        \/ \E k \in Key : BeginRevoke(q, o, a, k)
    \/ \E q \in Request :
        \/ AddOwner(q) \/ CreateOrgWallet(q)
        \/ ReadMember(q) \/ AddMember(q) \/ ReadTarget(q) \/ CountOwners(q) \/ RemoveMember(q)
        \/ \E k \in Key : CreateKey(q, k) \/ ReadKey(q, k)
        \/ Revoke(q) \/ TouchKey(q) \/ CallFails(q)
    \/ \E o \in Org : GetWallet(o)

OrgsSpec == OrgsInit /\ [][OrgsNext]_orgsVars

-----------------------------------------------------------------------------
(* Properties *)

\* RemoveMember, "the last owner cannot be removed".
LastOwnerNotRemoved ==
    [][\A o \in Org, a \in Account :
        role[o][a] = "owner" /\ role'[o][a] = "none" => \E b \in Account : role'[o][b] = "owner"]_role

\* A revoked key stays revoked, although a call that resolved it before may
\* still touch its row after the revocation.
RevokedForGood ==
    [][\A k \in Key : keyStatus[k] = "revoked" => keyStatus'[k] = "revoked"]_keyStatus

\* Create "bootstraps owner membership and wallet": unless a call failed, an
\* organization that nobody is creating has its wallet.
OrganizationsComplete ==
    orgFaults = 0 =>
        \A o \in orgs :
            (\A q \in Request : request[q].pc \in {"addOwner", "wallet"} => request[q].org # o)
                => o \in orgWallet

\* The invariant of organizations: what they hold, and that it is complete.
OrganizationsInv ==
    /\ OrganizationsTypeOK
    /\ OrganizationsComplete
=============================================================================
