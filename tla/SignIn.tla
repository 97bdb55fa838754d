------------------------------- MODULE SignIn -------------------------------
(***************************************************************************)
(* Signing in: with a password or a WeChat session (ZLoginHandler), and    *)
(* through the bridge that makes WeChat an identity provider of Zitadel    *)
(* (WechatOAuthHandler).  Zitadel and the WeChat proxy are external:       *)
(* Zitadel takes a login name with its password and exchanges the code of  *)
(* an attempt once, WeChat a code of its own once.                         *)
(*                                                                         *)
(* Logins and the bridge share nothing but Zitadel: each has its variables *)
(* and its next-state relation.  Of an account row what a login looks up   *)
(* is kept; every call that changes a row read it before and saves all of  *)
(* it.  Accounts has the other ways to log in.                             *)
(***************************************************************************)
EXTENDS Integers, FiniteSets

CONSTANTS
    User,        \* people
    LoginName,   \* User -> its login name, which Zitadel keeps unique
    MailAddress, PhoneNumber, \* the identifiers that look like one
    NewName,     \* what people may set as their username
    AccountID,   \* account ids; bound of the model: rows
    LoginRequest,
    Edit,        \* requests that register or edit an account
    Attempt,     \* attempts to sign in through WeChat, each with its state
    BridgeCall,  \* Callback requests being served
    NoAccountRow, NoName, NoUser, NoAttempt,
    MaxLoginFaults, MaxBridgeFaults \* bounds of the model: failures

Named == {LoginName[u] : u \in User}
Identifier == Named \union MailAddress \union PhoneNumber \union NewName

AccountRow == [sub : User, username : Identifier \union {NoName},
               email : Identifier \union {NoName}, phone : PhoneNumber \union {NoName},
               lurus : BOOLEAN] \* whether lurus_id is set

ASSUME SignInAssumption ==
    /\ \A u, v \in User : LoginName[u] = LoginName[v] => u = v
    /\ NoName \notin Identifier /\ NoUser \notin User /\ NoAttempt \notin Attempt
    /\ MailAddress \intersect PhoneNumber = {}
    /\ AccountID \subseteq Nat \ {0}
    /\ NoAccountRow \notin AccountRow /\ IsFiniteSet(Attempt)
    /\ MaxLoginFaults \in Nat /\ MaxBridgeFaults \in Nat

VARIABLES
    accounts,  \* identity.accounts: AccountID -> its row, or NoAccountRow
    zitadel,   \* the people with a Zitadel user
    login,     \* LoginRequest -> the request it is at
    edit,      \* Edit -> the request it is at, with the row it will write
    loginFaults,
    opened,    \* attempts whose QR page was opened
    stateKey,  \* the Redis keys wechat_oauth_state:<state> that exist
    scanned,   \* Attempt -> who scanned its QR code
    spent,     \* attempts whose WeChat code is used up
    callback,  \* BridgeCall -> the Callback it is at
    codeKey,   \* the Redis keys wechat_oauth_code:<code> -> the openid
    exchange,  \* Attempt -> Zitadel's calls of Token and UserInfo
    bridgeFaults

loginVars == <<accounts, zitadel, login, edit, loginFaults>>
bridgeVars == <<opened, stateKey, scanned, spent, callback, codeKey, exchange, bridgeFaults>>

FreeLogin == [pc |-> "free", user |-> NoUser, name |-> NoName, direct |-> FALSE, due |-> FALSE,
              at |-> 0, copy |-> NoAccountRow]
FreeEdit == [pc |-> "free", at |-> 0, copy |-> NoAccountRow]
FreeCall == [pc |-> "free", at |-> NoAttempt]
NoExchange == [pc |-> "none", code |-> 0, openid |-> NoUser]
AuthCode == 1 .. Cardinality(Attempt)

MaybeRow == AccountRow \union {NoAccountRow}

LoginTypeOK ==
    /\ accounts \in [AccountID -> MaybeRow] /\ zitadel \subseteq User
    /\ login \in [LoginRequest ->
            [pc : {"free", "email", "phone", "account", "session", "upsert", "link", "create",
                   "save", "callback", "in", "refused"},
             user : User \union {NoUser}, name : Identifier \union {NoName},
             direct : BOOLEAN, due : BOOLEAN, at : AccountID \union {0}, copy : MaybeRow]]
    /\ edit \in [Edit -> [pc : {"free", "insert", "save"}, at : AccountID \union {0},
                          copy : MaybeRow]]
    /\ loginFaults \in 0 .. MaxLoginFaults

BridgeTypeOK ==
    /\ opened \subseteq Attempt /\ stateKey \subseteq opened /\ spent \subseteq Attempt
    /\ scanned \in [Attempt -> User \union {NoUser}]
    /\ callback \in [BridgeCall -> [pc : {"free", "state", "drop", "fetch", "code"},
                                    at : Attempt \union {NoAttempt}]]
    /\ codeKey \in [AuthCode -> User \union {NoUser}]
    /\ exchange \in [Attempt -> [pc : {"none", "get", "drop", "info", "done", "failed"},
                                 code : AuthCode \union {0}, openid : User \union {NoUser}]]
    /\ bridgeFaults \in 0 .. MaxBridgeFaults

\* Nobody has an account; some have a Zitadel user, as those whose login name
\* ValidateUsername does not admit.
LoginInit ==
    /\ accounts = [i \in AccountID |-> NoAccountRow]
    /\ zitadel \in SUBSET User /\ \A u \in User : LoginName[u] \in MailAddress => u \in zitadel
    /\ login = [q \in LoginRequest |-> FreeLogin] /\ edit = [e \in Edit |-> FreeEdit]
    /\ loginFaults = 0

BridgeInit ==
    /\ opened = {} /\ stateKey = {} /\ spent = {} /\ bridgeFaults = 0
    /\ scanned = [s \in Attempt |-> NoUser]
    /\ callback = [k \in BridgeCall |-> FreeCall]
    /\ codeKey = [c \in AuthCode |-> NoUser]
    /\ exchange = [s \in Attempt |-> NoExchange]

-----------------------------------------------------------------------------
(* The accounts table *)

\* The accounts that stand in the way of row a under id i: zitadel_sub and email
\* are unique as they stand, username and phone if set, lurus_id is while it is
\* empty.
Clashes(i, a) ==
    {j \in AccountID \ {i} :
        /\ accounts[j] # NoAccountRow
        /\ \/ accounts[j].sub = a.sub \/ accounts[j].email = a.email
           \/ ~accounts[j].lurus /\ ~a.lurus
           \/ a.username # NoName /\ accounts[j].username = a.username
           \/ a.phone # NoName /\ accounts[j].phone = a.phone}

\* The login name an account leads to, and whether it answers to an identifier: a
\* phone without a username leads nowhere.
Home(a) == IF a.username # NoName THEN a.username ELSE a.email
Has(a, id) ==
    \/ id \in MailAddress /\ a.email = id
    \/ id \in PhoneNumber /\ a.phone = id /\ a.username # NoName
Found(id) == {i \in AccountID : accounts[i] # NoAccountRow /\ Has(accounts[i], id)}

\* Row a is written under i; l is where the logins are then.  A login that has yet
\* to look its identifier up is not due any more if i is the account that had it,
\* or nobody had it, and it does not lead home now.
Write(i, a, l) ==
    /\ accounts' = [accounts EXCEPT ![i] = a]
    /\ login' = [q \in LoginRequest |->
            IF /\ l[q].pc \in {"email", "phone"} /\ Found(l[q].name) \subseteq {i}
               /\ LoginName[l[q].user] # IF Has(a, l[q].name) THEN Home(a) ELSE l[q].name
            THEN [l[q] EXCEPT !.due = FALSE] ELSE l[q]]

FirstFree(i) ==
    accounts[i] = NoAccountRow /\ \A j \in AccountID : j < i => accounts[j] # NoAccountRow

-----------------------------------------------------------------------------
(* Registering and editing *)

\* Register creates the Zitadel user; nothing verifies the address m and the
\* phone p, which may be anybody's.
Register(e, u, m, p) ==
    /\ edit[e].pc = "free" /\ u \notin zitadel
    /\ zitadel' = zitadel \union {u}
    /\ edit' = [edit EXCEPT ![e] = [pc |-> "insert", at |-> 0, copy |->
            [sub |-> u, username |-> LoginName[u], email |-> m, lurus |-> FALSE,
             phone |-> IF p = NoName /\ LoginName[u] \in PhoneNumber THEN LoginName[u] ELSE p]]]
    /\ UNCHANGED <<accounts, login, loginFaults>>

\* The row is inserted, unless an index refuses it, and saved again with its
\* lurus_id.
InsertRegistered(e, i) ==
    LET a == edit[e].copy
    IN /\ edit[e].pc = "insert" /\ FirstFree(i)
       /\ \/ /\ Clashes(i, a) = {}
             /\ Write(i, a, login)
             /\ edit' = [edit EXCEPT ![e] =
                    [pc |-> "save", at |-> i, copy |-> [a EXCEPT !.lurus = TRUE]]]
          \/ /\ Clashes(i, a) # {}
             /\ edit' = [edit EXCEPT ![e] = FreeEdit]
             /\ UNCHANGED <<accounts, login>>
       /\ UNCHANGED <<zitadel, loginFaults>>

ReadRow(e, i, a) ==
    /\ edit[e].pc = "free" /\ accounts[i] # NoAccountRow
    /\ edit' = [edit EXCEPT ![e] = [pc |-> "save", at |-> i, copy |-> a]]
    /\ UNCHANGED <<accounts, zitadel, login, loginFaults>>

\* UpdateMe sets the username, if one is given, here and not at Zitadel.
UpdateMe(e, i, n) ==
    ReadRow(e, i, IF n = NoName THEN accounts[i] ELSE [accounts[i] EXCEPT !.username = n])

\* VerifyAndBindPhone, after the code.
BindPhoneOf(e, i, p) == ReadRow(e, i, [accounts[i] EXCEPT !.phone = p])

\* Mutant: the indexes of migration 012 are missing.
SaveEdit_NoIndex(e) ==
    /\ edit[e].pc = "save"
    /\ Write(edit[e].at, edit[e].copy, login)
    /\ edit' = [edit EXCEPT ![e] = FreeEdit]
    /\ UNCHANGED <<zitadel, loginFaults>>

\* AccountRepo.Update saves the whole row, unless an index refuses it.
SaveEdit(e) ==
    /\ edit[e].pc = "save"
    /\ IF Clashes(edit[e].at, edit[e].copy) = {} THEN Write(edit[e].at, edit[e].copy, login)
       ELSE UNCHANGED <<accounts, login>>
    /\ edit' = [edit EXCEPT ![e] = FreeEdit]
    /\ UNCHANGED <<zitadel, loginFaults>>

EditFails(e) ==
    /\ edit[e].pc # "free" /\ loginFaults < MaxLoginFaults
    /\ loginFaults' = loginFaults + 1
    /\ edit' = [edit EXCEPT ![e] = FreeEdit]
    /\ UNCHANGED <<accounts, zitadel, login>>

-----------------------------------------------------------------------------
(* Logins *)

LoginAt(q, pc) == login' = [login EXCEPT ![q].pc = pc]
LoginRefused(q, due) == login' = [login EXCEPT ![q] = [FreeLogin EXCEPT !.pc = "refused", !.due = due]]
\* Zitadel will be asked for a login name; all but the own one are alike.
Asked(u, name) == IF name = LoginName[u] THEN name ELSE NoName
Resolved(q, name) ==
    login' = [login EXCEPT ![q].pc = "session", ![q].name = Asked(login[q].user, name)]
othersVars == <<accounts, zitadel, edit, loginFaults>>

\* Whether identifier id should let user u in: the account that has it leads to
\* the login name of u, or no account has it and it is that name.
Due(u, id) ==
    /\ u \in zitadel
    /\ \/ Found(id) = {} /\ id = LoginName[u]
       \/ \E i \in Found(id) : Home(accounts[i]) = LoginName[u]

\* DirectLogin: user u types its password and identifier id.  What is neither an
\* address nor a number is a username, the login name, known here or not.
DirectLogin(q, u, id) ==
    /\ login[q].pc = "free"
    /\ login' = [login EXCEPT ![q] = [FreeLogin EXCEPT
            !.pc = IF id \in MailAddress THEN "email"
                   ELSE IF id \in PhoneNumber THEN "phone" ELSE "session",
            !.user = u, !.direct = TRUE, !.due = Due(u, id),
            !.name = IF id \in MailAddress \union PhoneNumber THEN id ELSE Asked(u, id)]]
    /\ UNCHANGED othersVars

\* SubmitPassword takes what was typed for the login name.
SubmitPassword(q, u, id) ==
    /\ login[q].pc = "free"
    /\ login' = [login EXCEPT ![q] = [FreeLogin EXCEPT !.pc = "session", !.user = u,
            !.name = Asked(u, id), !.due = u \in zitadel /\ id = LoginName[u]]]
    /\ UNCHANGED othersVars

\* LinkWechatAndComplete: somebody has a session of this service for account i.
LinkWechatAndComplete(q, i) ==
    /\ login[q].pc = "free"
    /\ login' = [login EXCEPT ![q] = [FreeLogin EXCEPT !.pc = "account", !.at = i]]
    /\ UNCHANGED othersVars

\* It needs an account with a zitadel_sub, for which Zitadel opens a session.
ReadLinkedAccount(q) ==
    /\ login[q].pc = "account"
    /\ \/ accounts[login[q].at] # NoAccountRow /\ LoginAt(q, "callback")
       \/ LoginRefused(q, FALSE)
    /\ UNCHANGED othersVars

\* resolveLoginName: by email, the username if there is one, else the email.
ResolveEmail(q) ==
    /\ login[q].pc = "email"
    /\ \/ Found(login[q].name) = {} /\ Resolved(q, login[q].name)
       \/ \E i \in Found(login[q].name) : Resolved(q, Home(accounts[i]))
    /\ UNCHANGED othersVars

\* By phone, the username if there is one, else what was typed is the username.
ResolvePhone(q) ==
    /\ login[q].pc = "phone"
    /\ \/ Found(login[q].name) = {} /\ Resolved(q, login[q].name)
       \/ \E i \in Found(login[q].name) : Resolved(q, accounts[i].username)
    /\ UNCHANGED othersVars

\* createSessionByCredentials and, for DirectLogin, getSessionUser.
CheckPassword(q) ==
    /\ login[q].pc = "session"
    /\ IF login[q].user \notin zitadel \/ login[q].name # LoginName[login[q].user]
       THEN LoginRefused(q, login[q].due)
       ELSE LoginAt(q, IF login[q].direct THEN "upsert" ELSE "callback")
    /\ UNCHANGED othersVars

\* The login has read account i and will save copy a of its row.
WillSave(q, i, a) ==
    login' = [login EXCEPT ![q].pc = "save", ![q].at = i, ![q].copy = a]

Accounted(column, x) ==
    {i \in AccountID : accounts[i] # NoAccountRow /\ accounts[i][column] = x}

\* UpsertByZitadelSub looks for the sub and then for the login name as an email,
\* whose account becomes that of this sub.
FindBySub(q) ==
    LET own == Accounted("sub", login[q].user)
    IN /\ login[q].pc = "upsert"
       /\ \/ own = {} /\ LoginAt(q, "link")
          \/ \E i \in own : WillSave(q, i, accounts[i])
       /\ UNCHANGED othersVars

FindByMail(q) ==
    LET u == login[q].user  found == Accounted("email", LoginName[u])
    IN /\ login[q].pc = "link"
       /\ \/ found = {} /\ LoginAt(q, "create")
          \/ \E i \in found : WillSave(q, i, [accounts[i] EXCEPT !.sub = u])
       /\ UNCHANGED othersVars

\* Else it inserts an account, with the login name for an email.  An index refuses
\* it only if there is one by now, or while another row has no lurus_id: then the
\* login is no longer due.
CreateAccount(q, i) ==
    LET u == login[q].user
        a == [sub |-> u, username |-> NoName, email |-> LoginName[u], phone |-> NoName,
              lurus |-> FALSE]
    IN /\ login[q].pc = "create" /\ FirstFree(i)
       /\ \/ /\ Clashes(i, a) = {}
             /\ Write(i, a, [login EXCEPT ![q].pc = "save", ![q].at = i,
                                          ![q].copy = [a EXCEPT !.lurus = TRUE]])
          \/ /\ Clashes(i, a) # {}
             /\ LoginRefused(q, FALSE)
             /\ UNCHANGED accounts
       /\ UNCHANGED <<zitadel, edit, loginFaults>>

\* Whether row i is not the one login q read, or its user has another by now.
Overtaken(q) ==
    LET i == login[q].at  a == login[q].copy
    IN \/ [accounts[i] EXCEPT !.sub = a.sub, !.lurus = a.lurus] # a
       \/ accounts[i].lurus /\ ~a.lurus
       \/ Accounted("sub", a.sub) \ {i} # {}

\* It saves the row, and the session token is issued.
SaveAndIssue(q) ==
    LET i == login[q].at  a == login[q].copy
    IN /\ login[q].pc = "save"
       /\ \/ /\ Clashes(i, a) = {}
             /\ Write(i, a, [login EXCEPT ![q] = [FreeLogin EXCEPT
                    !.pc = "in", !.user = login[q].user, !.direct = TRUE, !.at = i]])
          \/ /\ Clashes(i, a) # {}
             /\ LoginRefused(q, login[q].due /\ ~Overtaken(q))
             /\ UNCHANGED accounts
       /\ UNCHANGED <<zitadel, edit, loginFaults>>

\* createCallback.
CreateCallback(q) ==
    /\ login[q].pc = "callback"
    /\ login' = [login EXCEPT ![q] = [FreeLogin EXCEPT !.pc = "in"]]
    /\ UNCHANGED othersVars

\* A call fails or times out: the login is refused.
LoginFails(q) ==
    /\ login[q].pc \notin {"free", "in", "refused"} /\ loginFaults < MaxLoginFaults
    /\ loginFaults' = loginFaults + 1
    /\ LoginRefused(q, FALSE)
    /\ UNCHANGED <<accounts, zitadel, edit>>

LoginAnswered(q) ==
    /\ login[q].pc \in {"in", "refused"}
    /\ login' = [login EXCEPT ![q] = FreeLogin]
    /\ UNCHANGED othersVars

LoginNext ==
    \/ \E e \in Edit :
        \/ \E u \in User, m \in MailAddress \union {NoName}, p \in PhoneNumber \union {NoName} :
                Register(e, u, m, p)
        \/ \E i \in AccountID : \/ InsertRegistered(e, i)
                                \/ \E n \in NewName \union {NoName} : UpdateMe(e, i, n)
                                \/ \E p \in PhoneNumber : BindPhoneOf(e, i, p)
        \/ SaveEdit(e) \/ EditFails(e)
    \/ \E q \in LoginRequest :
        \/ \E u \in User, id \in Identifier : DirectLogin(q, u, id) \/ SubmitPassword(q, u, id)
        \/ \E i \in AccountID : LinkWechatAndComplete(q, i) \/ CreateAccount(q, i)
        \/ ReadLinkedAccount(q) \/ ResolveEmail(q) \/ ResolvePhone(q) \/ CheckPassword(q)
        \/ FindBySub(q) \/ FindByMail(q)
        \/ SaveAndIssue(q) \/ CreateCallback(q) \/ LoginFails(q) \/ LoginAnswered(q)

LoginSpec == LoginInit /\ [][LoginNext]_loginVars

-----------------------------------------------------------------------------
(* The WeChat bridge *)

\* Authorize keeps the state for ten minutes and shows the QR page.
Authorize(s) ==
    /\ scanned[s] = NoUser
    /\ opened' = opened \union {s} /\ stateKey' = stateKey \union {s}
    /\ UNCHANGED <<scanned, spent, callback, codeKey, exchange, bridgeFaults>>

\* Somebody scans it: WeChat sends the browser to Callback.
Scan(k, s, u) ==
    /\ callback[k].pc = "free" /\ s \in opened /\ scanned[s] = NoUser
    /\ scanned' = [scanned EXCEPT ![s] = u]
    /\ callback' = [callback EXCEPT ![k] = [pc |-> "state", at |-> s]]
    /\ UNCHANGED <<opened, stateKey, spent, codeKey, exchange, bridgeFaults>>

\* The browser repeats the request.
Reload(k, s) ==
    /\ callback[k].pc = "free" /\ scanned[s] # NoUser /\ bridgeFaults < MaxBridgeFaults
    /\ bridgeFaults' = bridgeFaults + 1
    /\ callback' = [callback EXCEPT ![k] = [pc |-> "state", at |-> s]]
    /\ UNCHANGED <<opened, stateKey, scanned, spent, codeKey, exchange>>

\* Nobody looks whether a DEL worked.
UnnoticedFault == bridgeFaults < MaxBridgeFaults /\ bridgeFaults' = bridgeFaults + 1

\* Callback looks for the state and deletes it, two calls.
RecoverState(k) ==
    /\ callback[k].pc = "state"
    /\ callback' = [callback EXCEPT ![k] =
            IF @.at \in stateKey THEN [@ EXCEPT !.pc = "drop"] ELSE FreeCall]
    /\ UNCHANGED <<opened, stateKey, scanned, spent, codeKey, exchange, bridgeFaults>>

DropState(k) ==
    /\ callback[k].pc = "drop"
    /\ \/ stateKey' = stateKey \ {callback[k].at} /\ UNCHANGED bridgeFaults
       \/ UnnoticedFault /\ UNCHANGED stateKey
    /\ callback' = [callback EXCEPT ![k].pc = "fetch"]
    /\ UNCHANGED <<opened, scanned, spent, codeKey, exchange>>

\* fetchWechatOpenID.
FetchOpenID(k) ==
    /\ callback[k].pc = "fetch"
    /\ spent' = spent \union {callback[k].at}
    /\ callback' = [callback EXCEPT ![k] =
            IF @.at \in spent THEN FreeCall ELSE [@ EXCEPT !.pc = "code"]]
    /\ UNCHANGED <<opened, stateKey, scanned, codeKey, exchange, bridgeFaults>>

Issued == {exchange[s].code : s \in Attempt} \ {0}

\* Code c is stored for whoever scanned and sent to Zitadel with the state.
StoreCode(k, c) ==
    LET s == callback[k].at
    IN /\ callback[k].pc = "code"
       /\ codeKey' = [codeKey EXCEPT ![c] = scanned[s]]
       /\ exchange' = [exchange EXCEPT ![s] = [NoExchange EXCEPT !.pc = "get", !.code = c]]
       /\ callback' = [callback EXCEPT ![k] = FreeCall]
       /\ UNCHANGED <<opened, stateKey, scanned, spent, bridgeFaults>>

\* Mutant: the code is not random.
IssueAuthCode_Fixed(k) == StoreCode(k, 1)

\* generateOAuthCode: a new code.
IssueAuthCode(k) ==
    \E c \in AuthCode \ Issued : (\A d \in AuthCode \ Issued : c <= d) /\ StoreCode(k, c)

\* Token: GET of the code and DEL, two calls; the openid is the access token.
ReadAuthCode(s) ==
    /\ exchange[s].pc = "get"
    /\ exchange' = [exchange EXCEPT ![s] =
            IF codeKey[@.code] = NoUser THEN [@ EXCEPT !.pc = "failed"]
            ELSE [@ EXCEPT !.pc = "drop", !.openid = codeKey[exchange[s].code]]]
    /\ UNCHANGED <<opened, stateKey, scanned, spent, callback, codeKey, bridgeFaults>>

DropAuthCode(s) ==
    /\ exchange[s].pc = "drop"
    /\ \/ codeKey' = [codeKey EXCEPT ![exchange[s].code] = NoUser] /\ UNCHANGED bridgeFaults
       \/ UnnoticedFault /\ UNCHANGED codeKey
    /\ exchange' = [exchange EXCEPT ![s].pc = "info"]
    /\ UNCHANGED <<opened, stateKey, scanned, spent, callback>>

\* UserInfo answers with the openid it is given: the attempt is over.
UserInfo(s) ==
    /\ exchange[s].pc = "info"
    /\ exchange' = [exchange EXCEPT ![s].pc = "done"]
    /\ UNCHANGED <<opened, stateKey, scanned, spent, callback, codeKey, bridgeFaults>>

\* A call fails, the request with it, or a key expires.
BridgeFails ==
    /\ bridgeFaults < MaxBridgeFaults
    /\ bridgeFaults' = bridgeFaults + 1
    /\ \/ /\ \E k \in BridgeCall :
                callback[k].pc # "free" /\ callback' = [callback EXCEPT ![k] = FreeCall]
          /\ UNCHANGED <<stateKey, exchange, codeKey>>
       \/ /\ \E s \in Attempt : /\ exchange[s].pc \in {"get", "drop", "info"}
                                /\ exchange' = [exchange EXCEPT ![s].pc = "failed"]
          /\ UNCHANGED <<stateKey, callback, codeKey>>
       \/ /\ \E s \in stateKey : stateKey' = stateKey \ {s}
          /\ UNCHANGED <<callback, exchange, codeKey>>
       \/ /\ \E c \in AuthCode : codeKey[c] # NoUser /\ codeKey' = [codeKey EXCEPT ![c] = NoUser]
          /\ UNCHANGED <<stateKey, callback, exchange>>
    /\ UNCHANGED <<opened, scanned, spent>>

BridgeNext ==
    \/ \E s \in Attempt :
        \/ Authorize(s) \/ ReadAuthCode(s) \/ DropAuthCode(s) \/ UserInfo(s)
        \/ \E k \in BridgeCall : Reload(k, s) \/ \E u \in User : Scan(k, s, u)
    \/ \E k \in BridgeCall :
        RecoverState(k) \/ DropState(k) \/ FetchOpenID(k) \/ IssueAuthCode(k)
    \/ BridgeFails

BridgeSpec == BridgeInit /\ [][BridgeNext]_bridgeVars

-----------------------------------------------------------------------------
(* Properties *)

\* Whoever has the password gets in by an identifier that led to its login name
\* when it was typed, whatever other people register, name themselves and bind
\* between the lookups and whatever rows are saved late, as long as no call fails.
\* What may spoil it is another request for the own account: one that takes the
\* identifier out of the row, a late save of an older copy included, or one that
\* overlaps the upsert; somebody who takes an identifier no account had; or, for a
\* first login, a row that has no lurus_id yet.  The token is for the own account,
\* or for one registered with an address that is the login name of the one or the
\* other.
LoginsAnswer ==
    \A q \in LoginRequest :
        /\ login[q].pc = "refused" => ~login[q].due
        /\ login[q].pc = "in" /\ login[q].direct =>
            LET a == accounts[login[q].at]  u == login[q].user
            IN a # NoAccountRow /\ (a.sub = u \/ a.email \in {LoginName[a.sub], LoginName[u]})

\* An attempt ends as the person who scanned its code, though attempts, reloads
\* and exchanges share the keys in Redis and nothing is deleted where it is read;
\* and, without a failure, it does end once everything is quiet.
ScansArrive ==
    /\ \A s \in Attempt : exchange[s].openid \in {NoUser, scanned[s]}
    /\ \A s, t \in Attempt : exchange[s].code = exchange[t].code /\ s # t => exchange[s].code = 0
    /\ bridgeFaults = 0 /\ (\A k \in BridgeCall : callback[k].pc = "free") =>
        \A s \in Attempt : scanned[s] # NoUser => exchange[s].pc \notin {"none", "failed"}

SignInInv == LoginTypeOK /\ BridgeTypeOK /\ LoginsAnswer /\ ScansArrive
=============================================================================
