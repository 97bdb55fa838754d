------------------------------ MODULE Accounts ------------------------------
(***************************************************************************)
(* How accounts come to be: AccountService.UpsertByZitadelSub (every login *)
(* with a Zitadel token whose sub is not cached), UpsertByWechat and       *)
(* RegistrationService.Register, with the edits that save a whole row      *)
(* (UpdateMe, VerifyAndBindPhone).  An account takes several database      *)
(* calls and no transaction; each call is a step.                          *)
(*                                                                         *)
(* An identity stands for one person's Zitadel sub, email, username and    *)
(* phone, so a column holds the identity its value belongs to; a WeChat    *)
(* identity's sub and email are the placeholders made from its openid, and *)
(* it brings neither username nor phone.                                   *)
(***************************************************************************)
EXTENDS Integers, Sequences, FiniteSets

CONSTANTS
    Identity,
    Wechat,      \* the identities that log in by WeChat
    Empty,       \* the empty string; columns are strings, never NULL
    WithZitadel, \* whether the registration service has a Zitadel client
    Parallel,    \* bound of the model: identities with calls side by side
    Request,     \* calls being served
    MaxAccounts, \* bound of the model: rows
    MaxFaults    \* bound of the model: failures of calls

ASSUME AccountAssumption ==
    /\ Empty \notin Identity
    /\ Wechat \subseteq Identity
    /\ Parallel \subseteq Identity
    /\ WithZitadel \in BOOLEAN
    /\ {MaxAccounts, MaxFaults} \subseteq Nat

VARIABLES
    rows,     \* identity.accounts, in id order
    binding,  \* Wechat -> account_id of its account_oauth_bindings row, or 0
    wallets,  \* accounts with a wallet row
    vips,     \* accounts with an account_vip row
    zitadel,  \* usernames Register has created in Zitadel
    known,    \* accounts whose id some call has returned
    request,  \* Request -> the call it serves
    refusals, \* columns whose empty value made an INSERT or a save fail
    faults    \* failures so far

bootVars == <<binding, wallets, vips>>
vars == <<rows, bootVars, zitadel, known, request, refusals, faults>>

Column == {"lurusID", "sub", "email", "username", "phone"}
Text == Identity \union {Empty}

\* lurusID tells whether lurus_id has been set; it is made from the id.
Account == [lurusID : BOOLEAN, sub : Text, email : Text, username : Text, phone : Text]
NewRow(sub, email, username, phone) ==
    [lurusID |-> FALSE, sub |-> sub, email |-> email, username |-> username, phone |-> phone]
Blank == NewRow(Empty, Empty, Empty, Empty)

Free == [pc |-> "free", who |-> Empty, id |-> 0, copy |-> Blank]
Call == [pc : {"sub", "email", "save", "binding", "check", "zitadel", "insert",
               "lurusID", "bind", "wallet", "vip", "referrer", "edit"},
         who : Text, id : 0 .. MaxAccounts, copy : Account]

AccountsTypeOK ==
    /\ rows \in Seq(Account)
    /\ binding \in [Wechat -> 0 .. Len(rows)]
    /\ wallets \subseteq DOMAIN rows
    /\ vips \subseteq DOMAIN rows
    /\ zitadel \subseteq Identity
    /\ known \subseteq DOMAIN rows
    /\ request \in [Request -> Call \union {Free}]
    /\ \A q \in Request : request[q].id \in 0 .. Len(rows)
    /\ refusals \subseteq Column
    /\ faults \in Nat

Init ==
    /\ rows = <<>>
    /\ binding = [w \in Wechat |-> 0]
    /\ wallets = {} /\ vips = {} /\ zitadel = {} /\ known = {}
    /\ request = [q \in Request |-> Free]
    /\ refusals = {}
    /\ faults = 0

-----------------------------------------------------------------------------
(* The accounts table *)

\* Is the column empty in a row?
IsEmpty(row, c) == row[c] = (IF c = "lurusID" THEN FALSE ELSE Empty)

\* Does the unique index of a column cover this row?  lurus_id, zitadel_sub and
\* email are unique as they stand, the empty string included; the indexes of
\* username and phone leave it out.  Mutant: zitadel_sub has no unique index.
Indexed_SubNot(row, c) == c \in {"lurusID", "email"} \/ (c # "sub" /\ ~ IsEmpty(row, c))

Indexed(row, c) == c \in {"lurusID", "sub", "email"} \/ ~ IsEmpty(row, c)

\* Set LurusIDs differ, since ids do.
Clashes(row, id) ==
    {c \in Column : /\ Indexed(row, c)
                    /\ c = "lurusID" => IsEmpty(row, c)
                    /\ \E j \in DOMAIN rows \ {id} : rows[j][c] = row[c]}

Matching(c, v) == {j \in DOMAIN rows : rows[j][c] = v}

Finish(q) == request' = [request EXCEPT ![q] = Free]
Goto(q, pc) == request' = [request EXCEPT ![q].pc = pc]

\* A unique index refuses the statement; the call fails.
Refused(q, row, id) ==
    /\ Clashes(row, id) # {}
    /\ refusals' = IF \A c \in Clashes(row, id) : IsEmpty(row, c)
                   THEN refusals \union Clashes(row, id) ELSE refusals
    /\ Finish(q)
    /\ UNCHANGED <<rows, known>>

\* AccountRepo.Update saves every column of the caller's copy; the caller then
\* goes on at pc, or has finished.
SaveRow(q, row, pc) ==
    LET id == request[q].id
    IN \/ /\ Clashes(row, id) = {}
          /\ rows' = [rows EXCEPT ![id] = row]
          /\ \/ /\ pc # "done"
                /\ request' = [request EXCEPT ![q].pc = pc, ![q].copy = row]
                /\ UNCHANGED known
             \/ /\ pc = "done"
                /\ known' = known \union {id}
                /\ Finish(q)
          /\ UNCHANGED refusals
       \/ Refused(q, row, id)

-----------------------------------------------------------------------------
(* The beginning of a call *)

Serving(i) == {q \in Request : request[q].who = i}

Begin(q, i, pc, copy) ==
    /\ request[q] = Free
    /\ i \in Parallel \/ Serving(i) = {}
    /\ request' = [request EXCEPT ![q] = [pc |-> pc, who |-> i, id |-> 0, copy |-> copy]]
    /\ UNCHANGED <<rows, bootVars, zitadel, known, refusals, faults>>

Login(q, i) == i \notin Wechat /\ Begin(q, i, "sub", NewRow(i, i, Empty, Empty))

\* Mutant: without a placeholder sub.
LoginByWechat_NoSub(q, i) ==
    i \in Wechat /\ Begin(q, i, "binding", NewRow(Empty, i, Empty, Empty))

LoginByWechat(q, i) == i \in Wechat /\ Begin(q, i, "binding", NewRow(i, i, Empty, Empty))

\* Email and phone are optional.
Register(q, i) ==
    /\ i \notin Wechat
    /\ \E email, phone \in {i, Empty} :
        Begin(q, i, "check", NewRow(Empty, email, i, phone))

\* GetByZitadelSub.
LookupBySub(q) ==
    /\ request[q].pc = "sub"
    /\ \/ Matching("sub", request[q].who) = {} /\ Goto(q, "email")
       \/ \E j \in Matching("sub", request[q].who) :
            request' = [request EXCEPT ![q].pc = "save", ![q].id = j, ![q].copy = rows[j]]
    /\ UNCHANGED <<rows, bootVars, zitadel, known, refusals, faults>>

\* GetByEmail; a row found is to be linked to the sub.
LookupByEmail(q) ==
    LET i == request[q].who
    IN /\ request[q].pc = "email"
       /\ \/ Matching("email", i) = {} /\ Goto(q, "insert")
          \/ \E j \in Matching("email", i) :
                request' = [request EXCEPT ![q].pc = "save", ![q].id = j,
                                           ![q].copy = [rows[j] EXCEPT !.sub = i]]
       /\ UNCHANGED <<rows, bootVars, zitadel, known, refusals, faults>>

\* The save of a row that was there; the login returns, or first goes on to
\* link a referrer.
SaveFound(q) ==
    /\ request[q].pc = "save"
    /\ \E pc \in {"done", "referrer"} : SaveRow(q, request[q].copy, pc)
    /\ UNCHANGED <<bootVars, zitadel, faults>>

\* GetByOAuthBinding.
LookupBinding(q) ==
    LET id == binding[request[q].who]
    IN /\ request[q].pc = "binding"
       /\ \/ id = 0 /\ Goto(q, "insert") /\ UNCHANGED known
          \/ id # 0 /\ Finish(q) /\ known' = known \union {id}
       /\ UNCHANGED <<rows, bootVars, zitadel, refusals, faults>>

\* Register's reads of username, email and phone, taken together: the unique
\* indexes ask again.  The phone is looked up only when the request names one.
CheckRegistration(q) ==
    LET row == request[q].copy
        taken == {c \in {"username", "email", "phone"} :
                    ~ IsEmpty(row, c) /\ Matching(c, row[c]) # {}}
    IN /\ request[q].pc = "check"
       /\ \/ taken = {} /\ Goto(q, IF WithZitadel THEN "zitadel" ELSE "insert")
          \/ taken # {} /\ Finish(q)
       /\ UNCHANGED <<rows, bootVars, zitadel, known, refusals, faults>>

\* CreateHumanUserWithUsername; Zitadel refuses a username it has.
CreateZitadelUser(q) ==
    LET i == request[q].who
    IN /\ request[q].pc = "zitadel"
       /\ \/ /\ i \notin zitadel
             /\ zitadel' = zitadel \union {i}
             /\ request' = [request EXCEPT ![q].pc = "insert", ![q].copy.sub = i]
          \/ i \in zitadel /\ Finish(q) /\ UNCHANGED zitadel
       /\ UNCHANGED <<rows, bootVars, known, refusals, faults>>

-----------------------------------------------------------------------------
(* The creation of an account *)

\* INSERT, with an empty lurus_id.
Insert(q) ==
    LET row == request[q].copy
        id == Len(rows) + 1
    IN /\ request[q].pc = "insert"
       /\ \/ /\ Clashes(row, id) = {}
             /\ id <= MaxAccounts
             /\ rows' = Append(rows, row)
             /\ request' = [request EXCEPT ![q].pc = "lurusID", ![q].id = id]
             /\ UNCHANGED <<known, refusals>>
          \/ Refused(q, row, id)
       /\ UNCHANGED <<bootVars, zitadel, faults>>

\* Mutant: the LurusID is set on the copy only.
SetLurusID_OnCopy(q) ==
    /\ request[q].pc = "lurusID"
    /\ request' = [request EXCEPT ![q].pc = IF request[q].who \in Wechat THEN "bind" ELSE "wallet",
                                  ![q].copy.lurusID = TRUE]
    /\ UNCHANGED <<rows, bootVars, zitadel, known, refusals, faults>>

\* The save that sets lurus_id.
SetLurusID(q) ==
    /\ request[q].pc = "lurusID"
    /\ SaveRow(q, [request[q].copy EXCEPT !.lurusID = TRUE],
               IF request[q].who \in Wechat THEN "bind" ELSE "wallet")
    /\ UNCHANGED <<bootVars, zitadel, faults>>

BindWechat(q) ==
    /\ request[q].pc = "bind"
    /\ binding' = [binding EXCEPT ![request[q].who] = request[q].id]
    /\ Goto(q, "wallet")
    /\ UNCHANGED <<rows, wallets, vips, zitadel, known, refusals, faults>>

CreateWallet(q) ==
    /\ request[q].pc = "wallet"
    /\ wallets' = wallets \union {request[q].id}
    /\ Goto(q, "vip")
    /\ UNCHANGED <<rows, binding, vips, zitadel, known, refusals, faults>>

\* The last row; a call with an aff_code goes on to link the referrer.
CreateVIP(q) ==
    /\ request[q].pc = "vip"
    /\ vips' = vips \union {request[q].id}
    /\ \/ Goto(q, "referrer") /\ request[q].who \notin Wechat /\ UNCHANGED known
       \/ Finish(q) /\ known' = known \union {request[q].id}
    /\ UNCHANGED <<rows, binding, wallets, zitadel, refusals, faults>>

\* The whole row again, with referrer_id (a column left out here); the signup
\* reward that follows is in Rewards.
LinkReferrer(q) ==
    /\ request[q].pc = "referrer"
    /\ SaveRow(q, request[q].copy, "done")
    /\ UNCHANGED <<bootVars, zitadel, faults>>

-----------------------------------------------------------------------------
(* Edits, failures *)

\* UpdateMe and VerifyAndBindPhone read the row, change a column ...
ReadForEdit(q, id) ==
    /\ request[q] = Free
    /\ id \in known
    /\ \E i \in Identity \ Wechat :
        \E copy \in {[rows[id] EXCEPT !.username = i], [rows[id] EXCEPT !.phone = i]} :
            request' = [request EXCEPT ![q] =
                          [pc |-> "edit", who |-> Empty, id |-> id, copy |-> copy]]
    /\ UNCHANGED <<rows, bootVars, zitadel, known, refusals, faults>>

\* ... and save the row.
SaveEdit(q) ==
    /\ request[q].pc = "edit"
    /\ SaveRow(q, request[q].copy, "done")
    /\ UNCHANGED <<bootVars, zitadel, faults>>

\* A call fails or the pod dies; what was done stays.
CallFails(q) ==
    /\ request[q] # Free
    /\ faults < MaxFaults
    /\ faults' = faults + 1
    /\ Finish(q)
    /\ UNCHANGED <<rows, bootVars, zitadel, known, refusals>>

Next ==
    \E q \in Request :
        \/ \E i \in Identity : Login(q, i) \/ LoginByWechat(q, i) \/ Register(q, i)
        \/ LookupBySub(q) \/ LookupByEmail(q) \/ SaveFound(q)
        \/ LookupBinding(q) \/ CheckRegistration(q) \/ CreateZitadelUser(q)
        \/ Insert(q) \/ SetLurusID(q) \/ BindWechat(q) \/ CreateWallet(q)
        \/ CreateVIP(q) \/ LinkReferrer(q)
        \/ \E id \in known : ReadForEdit(q, id)
        \/ SaveEdit(q) \/ CallFails(q)

Spec == Init /\ [][Next]_vars

-----------------------------------------------------------------------------
(* Properties *)

\* The account a login of identity i is led to: by its sub, else by its email.
Resolved(i) ==
    IF Matching("sub", i) # {} THEN Matching("sub", i) ELSE Matching("email", i)

\* A person has one account (FR-ACC-002, "concurrent requests for one sub create
\* one account"): no login, registration or edit, in whatever order their calls
\* interleave and fail, makes a later login of the same person arrive at
\* another account than an earlier one would have.
OneAccountForGood ==
    [][\A i \in Identity : Resolved(i) # {} => Resolved(i)' = Resolved(i)]_rows

\* Calls hold rows that exist and are of their own identity; a WeChat binding
\* leads to the account made for it.
CallsHoldRows ==
    /\ \A q \in Request :
        /\ request[q].pc \in {"save", "lurusID", "bind", "wallet", "vip", "referrer", "edit"}
            => request[q].id # 0
        /\ request[q].pc \in {"bind", "lurusID"} /\ request[q].who \in Wechat
            => Matching("sub", request[q].who) = {request[q].id}
    /\ \A w \in Wechat : binding[w] # 0 => Matching("sub", w) = {binding[w]}

\* When no call fails and the calls of a person come one after the other, the
\* person's account is complete as soon as nobody is working on it: it has its
\* LurusID, a wallet, a VIP row and its WeChat binding (FR-ACC-002), whatever the
\* racing calls of other persons do.
Working(id) == {q \in Request : request[q].id = id}

AccountsComplete ==
    faults = 0 =>
        \A i \in Identity \ Parallel :
            \A id \in Matching("sub", i) :
                Working(id) = {} =>
                    /\ rows[id].lurusID
                    /\ id \in wallets \intersect vips
                    /\ i \in Wechat => binding[i] = id

\* One account per identity, and complete.
AccountsInv ==
    /\ AccountsTypeOK
    /\ CallsHoldRows
    /\ \A i \in Identity : Cardinality(Resolved(i)) <= 1
    /\ AccountsComplete

\* Story 1.1: an account has a LurusID, once it has been set.
LurusIDStays ==
    [][\A id \in DOMAIN rows : rows[id].lurusID => rows'[id].lurusID]_rows

\* buildAccountLookup: "a valid Zitadel JWT never produces a 401 due to a missing
\* local record" -- no first login fails because another account is between its
\* INSERT and its LurusID.
LoginNotRefused == "lurusID" \notin refusals

\* Migration 012, "email/phone optional": leaving the email out is no reason to
\* be refused.
EmailIsOptional == "email" \notin refusals
=============================================================================
