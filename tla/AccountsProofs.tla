--------------------------- MODULE AccountsProofs ---------------------------
(***************************************************************************)
(* Proofs about accounts: how they come to be (Accounts), and the codes    *)
(* that reset a password and bind a phone (VerificationCodes).             *)
(***************************************************************************)
EXTENDS Accounts, VerificationCodes, FiniteSetTheorems, TLAPS

-----------------------------------------------------------------------------
(* Accounts: the inductive invariant *)

\* What tells a person's row from the others': the sub where Register makes it,
\* else the email.  No statement changes it.
Owner(row) == IF WithZitadel THEN row.sub ELSE row.email

\* A row's sub and email are of one person, and a WeChat user's row has its sub.
OfOnePerson(row) ==
    /\ row.sub # Empty => row.email = row.sub \/ (WithZitadel /\ row.email = Empty)
    /\ row.sub = Empty => ~ WithZitadel /\ row.email \notin Wechat

\* What the unique indexes keep apart.
Apart(r, s) ==
    /\ r.sub # s.sub
    /\ r.email # s.email
    /\ r.username = s.username => r.username = Empty
    /\ r.phone = s.phone => r.phone = Empty
    /\ r.lurusID \/ s.lurusID

RowsDiffer == \A j, k \in DOMAIN rows : j # k => Apart(rows[j], rows[k])

Creating == {"lurusID", "bind", "wallet", "vip"}
Holding == Creating \union {"save", "referrer", "edit"}
Searching == {"sub", "email", "binding", "check", "zitadel", "insert"}

\* What a call carries: the row it is going to insert ...
SearchOK(c) ==
    /\ c.id = 0 /\ c.who \in Identity /\ ~ c.copy.lurusID
    /\ {c.copy.sub, c.copy.email} \subseteq {c.who, Empty}
    /\ c.pc \in {"sub", "email", "binding"} => c.copy.sub = c.who /\ c.copy.email = c.who
    /\ c.who \in Wechat => c.copy.sub = c.who /\ c.copy.email = c.who /\ c.pc \in {"binding", "insert"}
    /\ c.pc \in {"check", "zitadel"} => c.copy.sub = Empty
    /\ c.pc = "binding" => c.who \in Wechat
    /\ c.pc = "zitadel" => WithZitadel
    /\ c.pc = "insert" => OfOnePerson(c.copy)

\* ... or a copy of the row it holds, which is the caller's own.
HoldOK(c) ==
    /\ c.id \in DOMAIN rows
    /\ OfOnePerson(c.copy)
    /\ Owner(c.copy) = Owner(rows[c.id])
    /\ c.pc = "edit" => c.who = Empty
    /\ c.pc # "edit" => c.who \in Identity /\ Owner(c.copy) \in {c.who, Empty}
    /\ c.pc \in Creating /\ c.who \in Wechat => rows[c.id].sub = c.who
    /\ c.pc = "bind" => c.who \in Wechat

CallOK(c) ==
    /\ c.pc \in Searching => SearchOK(c)
    /\ c.pc \in Holding => HoldOK(c)
    /\ c.pc = "free" => c = Free

\* The part of the invariant that needs no assumption on failures.
RowsInv ==
    /\ Len(rows) <= MaxAccounts
    /\ RowsDiffer
    /\ \A j \in DOMAIN rows : OfOnePerson(rows[j])
    /\ \A q \in Request : CallOK(request[q])
    /\ \A w \in Wechat : binding[w] # 0 => rows[binding[w]].sub = w

\* A person whose calls come one after the other.
Alone(i) == i \in Identity \ Parallel
OneByOne ==
    \A p, q \in Request : request[p].who = request[q].who /\ Alone(request[p].who) => p = q

\* Is call c making the row of such a person?
Builds(c) == c.pc \in Creating /\ Alone(Owner(rows[c.id]))

Built(i, id) ==
    /\ rows[id].lurusID
    /\ id \in wallets \intersect vips
    /\ i \in Wechat => binding[i] = id

\* Nobody else has the row a call is making, and it is as far as the call says.
Progress(c) ==
    /\ c.id \notin known
    /\ rows[c.id] = c.copy
    /\ c.pc # "lurusID" => c.copy.lurusID
    /\ c.pc = "vip" => c.id \in wallets
    /\ c.who \in Wechat /\ c.pc \in {"wallet", "vip"} => binding[c.who] = c.id

BuildersAreAlone ==
    \A q \in Request : Builds(request[q]) =>
        /\ Progress(request[q])
        /\ \A p \in Request \ {q} : request[p].id # request[q].id

\* No copy of a complete row lacks the LurusID.
CopiesAreComplete ==
    \A q \in Request :
        request[q].pc \in {"save", "referrer", "edit"} /\ Alone(Owner(rows[request[q].id]))
            => request[q].copy.lurusID

RowsAreBuilt ==
    \A id \in DOMAIN rows : Alone(Owner(rows[id])) =>
        \/ Built(Owner(rows[id]), id)
        \/ \E q \in Request : request[q].pc \in Creating /\ request[q].id = id

CompleteInv ==
    /\ OneByOne
    /\ faults = 0 => BuildersAreAlone /\ CopiesAreComplete /\ RowsAreBuilt

AccountsIInv == AccountsTypeOK /\ RowsInv /\ CompleteInv

LEMMA AccountsInitially == Init => AccountsIInv
<1> SUFFICES ASSUME Init
             PROVE  AccountsIInv
  OBVIOUS
<1>1. rows = <<>> /\ DOMAIN rows = {} /\ Len(rows) = 0 /\ rows \in Seq(Account)
  BY DEF Init
<1>2. AccountsTypeOK
  BY <1>1 DEF Init, AccountsTypeOK, Free
<1>3. RowsInv
  BY <1>1, AccountAssumption DEF Init, RowsInv, RowsDiffer, CallOK, Free, Searching, Holding, Creating
<1>4. CompleteInv
  BY <1>1, AccountAssumption DEF Init, CompleteInv, OneByOne, Alone, BuildersAreAlone, Builds, Creating,
     CopiesAreComplete, RowsAreBuilt, Free
<1> QED
  BY <1>2, <1>3, <1>4 DEF AccountsIInv

-----------------------------------------------------------------------------
(* Accounts: the table *)

\* What the unique indexes have let through is apart from the other rows.
LEMMA NoClash ==
    ASSUME AccountsTypeOK, NEW row \in Account, NEW id, Clashes(row, id) = {}
    PROVE  \A j \in DOMAIN rows \ {id} : Apart(rows[j], row) /\ Apart(row, rows[j])
<1> SUFFICES ASSUME NEW j \in DOMAIN rows \ {id}
             PROVE  Apart(rows[j], row) /\ Apart(row, rows[j])
  OBVIOUS
<1>1. rows[j] \in Account
  BY DEF AccountsTypeOK
<1>2. \A c \in Column : /\ Indexed(row, c)
                        /\ c = "lurusID" => IsEmpty(row, c)
                        => rows[j][c] # row[c]
  BY DEF Clashes
<1>3. row.sub # rows[j].sub /\ row.email # rows[j].email
  BY <1>2 DEF Column, Indexed
<1>4. row.username # Empty => row.username # rows[j].username
  BY <1>2 DEF Column, Indexed, IsEmpty
<1>5. row.phone # Empty => row.phone # rows[j].phone
  BY <1>2 DEF Column, Indexed, IsEmpty
<1>6. row.lurusID \/ rows[j].lurusID
  BY <1>1, <1>2 DEF Column, Indexed, IsEmpty, Account
<1> QED
  BY <1>3, <1>4, <1>5, <1>6 DEF Apart

LEMMA WithLurusID ==
    ASSUME NEW r \in Account
    PROVE  LET row == [r EXCEPT !.lurusID = TRUE]
           IN  /\ row \in Account /\ row.lurusID
               /\ row.sub = r.sub /\ row.email = r.email
               /\ row.username = r.username /\ row.phone = r.phone
BY DEF Account

\* A row that is its own copy but for the LurusID, which it gets, is let through.
LEMMA LurusIDIsLetThrough ==
    ASSUME AccountsTypeOK, RowsDiffer, NEW id \in DOMAIN rows
    PROVE  Clashes([rows[id] EXCEPT !.lurusID = TRUE], id) = {}
<1> DEFINE row == [rows[id] EXCEPT !.lurusID = TRUE]
<1>0. rows[id] \in Account
  BY DEF AccountsTypeOK
<1>1. /\ row.lurusID
      /\ row.sub = rows[id].sub /\ row.email = rows[id].email
      /\ row.username = rows[id].username /\ row.phone = rows[id].phone
  BY <1>0, WithLurusID
<1> HIDE DEF row
<1> SUFFICES ASSUME NEW c \in Column, NEW j \in DOMAIN rows \ {id},
                    Indexed(row, c), c = "lurusID" => IsEmpty(row, c), rows[j][c] = row[c]
             PROVE  FALSE
  BY DEF Clashes, row
<1>2. Apart(rows[j], rows[id])
  BY DEF RowsDiffer
<1>3. c # "lurusID"
  BY <1>1 DEF IsEmpty
<1>4. CASE c \in {"sub", "email"}
  BY <1>1, <1>2, <1>4 DEF Apart
<1>5. CASE c = "username"
  BY <1>1, <1>2, <1>5 DEF Apart, Indexed, IsEmpty
<1>6. CASE c = "phone"
  BY <1>1, <1>2, <1>6 DEF Apart, Indexed, IsEmpty
<1> QED
  BY <1>3, <1>4, <1>5, <1>6 DEF Column

\* The rows of persons stay theirs.
Kept ==
    /\ DOMAIN rows \subseteq DOMAIN rows'
    /\ \A j \in DOMAIN rows :
        /\ Owner(rows'[j]) = Owner(rows[j])
        /\ \A w \in Wechat : rows[j].sub = w => rows'[j].sub = w

GoodRows ==
    /\ rows' \in Seq(Account)
    /\ Len(rows') <= MaxAccounts
    /\ RowsDiffer'
    /\ \A j \in DOMAIN rows' : OfOnePerson(rows'[j])
    /\ Kept

LEMMA RowsStay ==
    ASSUME AccountsTypeOK, RowsInv, rows' = rows
    PROVE  GoodRows
BY DEF AccountsTypeOK, RowsInv, GoodRows, Kept, RowsDiffer

LEMMA RowSaved ==
    ASSUME AccountsTypeOK, RowsInv, NEW id \in DOMAIN rows, NEW row \in Account,
           Clashes(row, id) = {}, OfOnePerson(row), Owner(row) = Owner(rows[id]),
           rows' = [rows EXCEPT ![id] = row]
    PROVE  /\ GoodRows
           /\ DOMAIN rows' = DOMAIN rows /\ rows'[id] = row
           /\ \A j \in DOMAIN rows \ {id} : rows'[j] = rows[j]
<1>1. /\ rows' \in Seq(Account) /\ Len(rows') = Len(rows) /\ DOMAIN rows' = DOMAIN rows
      /\ rows'[id] = row
      /\ \A j \in DOMAIN rows \ {id} : rows'[j] = rows[j]
  BY DEF AccountsTypeOK
<1>2. RowsDiffer'
  <2>1. \A j \in DOMAIN rows \ {id} : Apart(rows[j], row) /\ Apart(row, rows[j])
    BY NoClash
  <2>2. \A j, k \in DOMAIN rows' : j # k => Apart(rows'[j], rows'[k])
    BY <1>1, <2>1 DEF RowsInv, RowsDiffer
  <2> QED
    BY <2>2 DEF RowsDiffer, Apart
<1>3. \A w \in Wechat : rows[id].sub = w => row.sub = w
  BY AccountAssumption DEF RowsInv, OfOnePerson, Owner
<1>4. \A j \in DOMAIN rows' : OfOnePerson(rows'[j])
  BY <1>1 DEF RowsInv
<1>5. Kept
  BY <1>1, <1>3 DEF Kept
<1> QED
  BY <1>1, <1>2, <1>4, <1>5 DEF GoodRows, RowsInv

LEMMA RowInserted ==
    ASSUME AccountsTypeOK, RowsInv, NEW row \in Account,
           Clashes(row, Len(rows) + 1) = {}, OfOnePerson(row), Len(rows) + 1 <= MaxAccounts,
           rows' = Append(rows, row)
    PROVE  /\ GoodRows
           /\ Len(rows) + 1 \notin DOMAIN rows /\ Len(rows) + 1 \in Nat
           /\ DOMAIN rows' = DOMAIN rows \union {Len(rows) + 1} /\ rows'[Len(rows) + 1] = row
           /\ \A j \in DOMAIN rows : rows'[j] = rows[j]
<1> DEFINE id == Len(rows) + 1
<1>1. /\ rows' \in Seq(Account) /\ Len(rows') = id /\ DOMAIN rows' = DOMAIN rows \union {id}
      /\ id \notin DOMAIN rows /\ id \in Nat
      /\ rows'[id] = row
      /\ \A j \in DOMAIN rows : rows'[j] = rows[j]
  BY DEF AccountsTypeOK
<1> HIDE DEF id
<1>2. RowsDiffer'
  <2>1. \A j \in DOMAIN rows \ {id} : Apart(rows[j], row) /\ Apart(row, rows[j])
    BY NoClash DEF id
  <2>2. \A j, k \in DOMAIN rows' : j # k => Apart(rows'[j], rows'[k])
    BY <1>1, <2>1 DEF RowsInv, RowsDiffer
  <2> QED
    BY <2>2 DEF RowsDiffer, Apart
<1>3. \A j \in DOMAIN rows' : OfOnePerson(rows'[j])
  BY <1>1 DEF RowsInv
<1>4. Kept
  BY <1>1 DEF Kept
<1> QED
  BY <1>1, <1>2, <1>3, <1>4 DEF GoodRows, id

-----------------------------------------------------------------------------
(* Accounts: what a step of a call has to show *)

LEMMA CallMovesOn ==
    ASSUME AccountsTypeOK, RowsInv, GoodRows,
           NEW q \in Request, NEW c \in Call \union {Free}, request' = [request EXCEPT ![q] = c],
           CallOK(c)',
           binding' \in [Wechat -> 0 .. Len(rows')],
           \A w \in Wechat : binding'[w] # binding[w] => rows'[binding'[w]].sub = w,
           wallets' \subseteq DOMAIN rows', vips' \subseteq DOMAIN rows', known' \subseteq DOMAIN rows',
           zitadel' \subseteq Identity, refusals' \subseteq Column, faults' \in Nat
    PROVE  AccountsTypeOK' /\ RowsInv'
<1>1. /\ request'[q] = c
      /\ \A p \in Request \ {q} : request'[p] = request[p]
      /\ request' \in [Request -> Call \union {Free}]
  BY DEF AccountsTypeOK
<1>2. /\ rows \in Seq(Account) /\ DOMAIN rows = 1 .. Len(rows) /\ Len(rows) \in Nat
      /\ rows' \in Seq(Account) /\ DOMAIN rows' = 1 .. Len(rows') /\ Len(rows') \in Nat
      /\ DOMAIN rows \subseteq DOMAIN rows' /\ Len(rows) <= Len(rows')
  BY DEF AccountsTypeOK, GoodRows, Kept
<1>3. c.id \in 0 .. Len(rows')
  <2>1. c.pc \in Searching \union Holding \/ c = Free
    BY DEF Call, Searching, Holding, Creating
  <2> QED
    BY <1>2, <2>1 DEF CallOK, SearchOK, HoldOK, Free
<1>4. AccountsTypeOK'
  BY <1>1, <1>2, <1>3 DEF AccountsTypeOK
<1>5. ASSUME NEW p \in Request
      PROVE  CallOK(request[p])'
  <2>1. CASE p = q
    BY <1>1, <2>1 DEF CallOK, SearchOK, HoldOK
  <2>2. CASE p # q
    <3>1. PICK d : d = request[p]
      OBVIOUS
    <3>2. CallOK(d)
      BY <3>1 DEF RowsInv
    <3>3. CallOK(d)'
      BY <3>2 DEF CallOK, HoldOK, GoodRows, Kept
    <3> QED
      BY <1>1, <2>2, <3>1, <3>3 DEF CallOK, SearchOK, HoldOK
  <2> QED
    BY <2>1, <2>2
<1>6. ASSUME NEW w \in Wechat, binding'[w] # 0
      PROVE  rows'[binding'[w]].sub = w
  <2>1. binding[w] \in 0 .. Len(rows)
    BY DEF AccountsTypeOK
  <2> QED
    BY <1>2, <1>6, <2>1 DEF RowsInv, GoodRows, Kept
<1> QED
  BY <1>4, <1>5, <1>6 DEF RowsInv, GoodRows

\* Is a row one that no other call is making?
Spare(q, id) == \A p \in Request \ {q} : Builds(request[p]) => request[p].id # id

\* A step of call q, which is c afterwards, leaves alone what others are making
\* and loses nothing of what is complete.
Sound(q, c) ==
    /\ \A n \in known' \ known : Spare(q, n)
    /\ IF c.pc \in Holding THEN Spare(q, c.id) ELSE c.id = 0
    /\ \A id \in DOMAIN rows : rows'[id] # rows[id] => Spare(q, id)
    /\ \A id \in DOMAIN rows :
        Alone(Owner(rows[id])) /\ rows[id].lurusID => rows'[id].lurusID
    /\ wallets \subseteq wallets' /\ vips \subseteq vips'
    /\ \A w \in Wechat : binding'[w] # binding[w] =>
        w = request[q].who /\ binding'[w] \in DOMAIN rows /\ rows[binding'[w]].sub = w
    /\ c.pc \in Creating /\ Alone(Owner(rows'[c.id])) =>
        Progress(c)' /\ \A p \in Request \ {q} : request[p].id # c.id
    /\ c.pc \in Holding \ Creating /\ Alone(Owner(rows'[c.id])) => c.copy.lurusID
    /\ Builds(request[q]) =>
        \/ c.pc \in Creating /\ c.id = request[q].id
        \/ \A id, o : id = request[q].id /\ o = Owner(rows[id]) => Built(o, id)'
    /\ \A id \in DOMAIN rows' \ DOMAIN rows : c.pc \in Creating /\ c.id = id

\* The person a call is making a row for is the caller.
LEMMA BuildersOwn ==
    ASSUME AccountsTypeOK, RowsInv, NEW q \in Request, Builds(request[q])
    PROVE  /\ request[q].id \in DOMAIN rows
           /\ request[q].who = Owner(rows[request[q].id])
           /\ Alone(request[q].who)
BY AccountAssumption DEF RowsInv, CallOK, HoldOK, Holding, Creating, Builds, Alone

LEMMA WechatOwns ==
    ASSUME NEW r, OfOnePerson(r), Owner(r) \in Wechat
    PROVE  r.sub = Owner(r)
BY AccountAssumption DEF OfOnePerson, Owner

LEMMA CompleteMovesOn ==
    ASSUME AccountsTypeOK, RowsInv, CompleteInv, Kept,
           NEW q \in Request, NEW c, request' = [request EXCEPT ![q] = c],
           \/ c.who = request[q].who
           \/ c.who \notin Identity \ Parallel
           \/ Serving(c.who) = {},
           faults' = 0 => faults = 0 /\ Sound(q, c)
    PROVE  CompleteInv'
<1>1. /\ request'[q] = c
      /\ \A p \in Request \ {q} : request'[p] = request[p]
  BY DEF AccountsTypeOK
<1>2. OneByOne'
  BY <1>1 DEF CompleteInv, OneByOne, Alone, Serving
<1> SUFFICES ASSUME faults' = 0
             PROVE  BuildersAreAlone' /\ CopiesAreComplete' /\ RowsAreBuilt'
  BY <1>2 DEF CompleteInv
<1>3. Sound(q, c) /\ BuildersAreAlone /\ CopiesAreComplete /\ RowsAreBuilt /\ OneByOne
  BY DEF CompleteInv
<1>4. \A p \in Request : request[p].pc \in Holding => request[p].id \in DOMAIN rows
  BY DEF RowsInv, CallOK, HoldOK
<1>5. BuildersAreAlone'
  <2> SUFFICES ASSUME NEW p \in Request, Builds(request[p])'
               PROVE  /\ Progress(request[p])'
                      /\ \A r \in Request \ {p} : request'[r].id # request'[p].id
    BY DEF BuildersAreAlone
  <2>1. CASE p = q
    BY <1>1, <1>3, <2>1 DEF Sound, Builds, Progress, Owner
  <2>2. CASE p # q
    <3>1. PICK d : d = request[p] /\ d = request'[p]
      BY <1>1, <2>2
    <3>2. d.id \in DOMAIN rows /\ Owner(rows'[d.id]) = Owner(rows[d.id])
      BY <1>4, <3>1 DEF Builds, Holding, Kept
    <3>3. Builds(d)
      BY <3>1, <3>2 DEF Builds, Owner
    <3>4. Progress(d) /\ \A r \in Request \ {p} : request[r].id # d.id
      BY <1>3, <3>1, <3>3 DEF BuildersAreAlone
    <3>5. d.who # request[q].who
      BY <1>3, <2>2, <3>1, <3>3, BuildersOwn DEF OneByOne
    <3>6. /\ rows'[d.id] = rows[d.id] /\ d.id \notin known' /\ c.id # d.id
          /\ wallets \subseteq wallets'
          /\ d.who \in Wechat => binding'[d.who] = binding[d.who]
      <4>1. ~ Spare(q, d.id)
        BY <2>2, <3>1, <3>3 DEF Spare
      <4>2. d.id # 0
        BY <3>2 DEF AccountsTypeOK
      <4> QED
        BY <1>3, <3>2, <3>4, <3>5, <4>1, <4>2 DEF Sound, Progress
    <3>7. Progress(d)'
      BY <3>4, <3>6 DEF Progress
    <3>8. \A r \in Request \ {p} : request'[r].id # d.id
      BY <1>1, <3>4, <3>6
    <3> QED
      BY <3>1, <3>7, <3>8 DEF Progress
  <2> QED
    BY <2>1, <2>2
<1>6. CopiesAreComplete'
  <2> SUFFICES ASSUME NEW p \in Request, request'[p].pc \in {"save", "referrer", "edit"},
                      Alone(Owner(rows'[request'[p].id]))
               PROVE  request'[p].copy.lurusID
    BY DEF CopiesAreComplete, Owner, Alone
  <2>1. CASE p = q
    BY <1>1, <1>3, <2>1 DEF Sound, Holding, Creating
  <2>2. CASE p # q
    BY <1>1, <1>3, <1>4, <2>2 DEF CopiesAreComplete, Holding, Kept
  <2> QED
    BY <2>1, <2>2
<1>7. RowsAreBuilt'
  <2> SUFFICES ASSUME NEW id \in DOMAIN rows', Alone(Owner(rows'[id])),
                      ~ \E p \in Request : request'[p].pc \in Creating /\ request'[p].id = id
               PROVE  Built(Owner(rows[id]), id)'
    BY DEF RowsAreBuilt, Owner, Alone
  <2>1. id \in DOMAIN rows
    BY <1>1, <1>3 DEF Sound
  <2>2. PICK o : o = Owner(rows[id]) /\ o = Owner(rows'[id])
    BY <2>1 DEF Kept
  <2>3. CASE Built(o, id)
    <3>1. rows'[id].lurusID /\ id \in wallets' \intersect vips'
      BY <1>3, <2>1, <2>2, <2>3 DEF Sound, Built
    <3>2. ASSUME o \in Wechat
          PROVE  binding'[o] = id
      <4>1. binding[o] = id /\ rows[id].sub = o
        BY <2>1, <2>2, <2>3, <3>2, WechatOwns DEF Built, RowsInv
      <4>2. CASE binding'[o] # binding[o]
        BY <1>3, <2>1, <3>2, <4>1, <4>2 DEF Sound, RowsInv, RowsDiffer, Apart
      <4> QED
        BY <4>1, <4>2
    <3> QED
      BY <2>2, <3>1, <3>2 DEF Built, Owner
  <2>4. CASE ~ Built(o, id)
    <3>1. PICK p \in Request : request[p].pc \in Creating /\ request[p].id = id
      BY <1>3, <2>1, <2>2, <2>4 DEF RowsAreBuilt
    <3>2. p = q /\ Builds(request[q])
      BY <1>1, <2>2, <3>1 DEF Builds
    <3>3. Built(o, id)'
      BY <1>1, <1>3, <2>2, <3>1, <3>2 DEF Sound
    <3> QED
      BY <2>2, <3>3 DEF Built, Owner
  <2> QED
    BY <2>3, <2>4
<1> QED
  BY <1>5, <1>6, <1>7

-----------------------------------------------------------------------------
(* Accounts: the steps *)

LEMMA HeldIsSpare ==
    ASSUME BuildersAreAlone, NEW q \in Request
    PROVE  Spare(q, request[q].id)
BY DEF BuildersAreAlone, Spare

LEMMA KnownIsSpare ==
    ASSUME AccountsTypeOK, BuildersAreAlone, RowsAreBuilt, NEW q \in Request, NEW id \in known
    PROVE  Spare(q, id) /\ (Alone(Owner(rows[id])) => rows[id].lurusID)
BY DEF AccountsTypeOK, BuildersAreAlone, Builds, Progress, Spare, RowsAreBuilt, Built

LEMMA OwnIsSpare ==
    ASSUME AccountsTypeOK, RowsInv, OneByOne, RowsAreBuilt, NEW q \in Request,
           request[q].pc \in Searching,
           NEW id \in DOMAIN rows, Owner(rows[id]) = request[q].who
    PROVE  Spare(q, id) /\ (Alone(Owner(rows[id])) => rows[id].lurusID)
<1>1. \A p \in Request : request[p].id = id /\ Builds(request[p]) => p = q
  BY BuildersOwn DEF OneByOne
<1>2. ~ Builds(request[q])
  BY DEF Builds, Creating, Searching
<1> QED
  BY <1>1, <1>2 DEF Spare, RowsAreBuilt, Built, Builds

\* A call moves on, or ends, without a row of its own and changes no row.
LEMMA Quiet ==
    ASSUME AccountsIInv, rows' = rows, bootVars' = bootVars,
           NEW q \in Request, NEW c \in Call \union {Free}, request' = [request EXCEPT ![q] = c],
           c = Free \/ (c.pc \in Searching /\ SearchOK(c)),
           \/ c.who \in {request[q].who, Empty}
           \/ c.who \in Parallel
           \/ Serving(c.who) = {},
           zitadel' \subseteq Identity, refusals' \subseteq Column,
           known' \subseteq DOMAIN rows,
           faults' \in Nat,
           faults' = 0 =>
            /\ faults = 0
            /\ ~ Builds(request[q])
            /\ \A n \in known' \ known : Spare(q, n)
    PROVE  AccountsIInv'
<1>1. CallOK(c)' /\ c.pc \notin Holding /\ c.id = 0
  BY DEF CallOK, SearchOK, Searching, Holding, Creating, Free
<1>2. GoodRows
  BY RowsStay DEF AccountsIInv
<1>3. AccountsTypeOK' /\ RowsInv'
  <2>1. /\ binding' = binding /\ binding \in [Wechat -> 0 .. Len(rows)]
        /\ wallets' \subseteq DOMAIN rows' /\ vips' \subseteq DOMAIN rows'
        /\ known' \subseteq DOMAIN rows'
    BY DEF AccountsIInv, AccountsTypeOK, bootVars
  <2>2. binding' \in [Wechat -> 0 .. Len(rows')]
    BY <2>1
  <2> QED
    BY <1>1, <1>2, <2>1, <2>2, CallMovesOn DEF AccountsIInv
<1>4. faults' = 0 => Sound(q, c)
  BY <1>1 DEF Sound, bootVars, Holding, Builds
<1>5. c.who = request[q].who \/ c.who \notin Identity \ Parallel \/ Serving(c.who) = {}
  BY AccountAssumption
<1>6. CompleteInv'
  BY <1>2, <1>4, <1>5, CompleteMovesOn DEF GoodRows, AccountsIInv
<1> QED
  BY <1>3, <1>6 DEF AccountsIInv

LEMMA BeginStep ==
    ASSUME AccountsIInv, NEW q \in Request, NEW i \in Identity,
           Login(q, i) \/ LoginByWechat(q, i) \/ Register(q, i)
    PROVE  AccountsIInv'
<1>1. PICK pc \in {"sub", "binding", "check"}, sub \in {i, Empty}, email \in {i, Empty},
           name \in {i, Empty}, number \in {i, Empty} :
        /\ Begin(q, i, pc, NewRow(sub, email, name, number))
        /\ pc = "binding" <=> i \in Wechat
        /\ IF pc = "check" THEN sub = Empty ELSE sub = i /\ email = i
  BY DEF Login, LoginByWechat, Register
<1> DEFINE row == NewRow(sub, email, name, number)
           c == [pc |-> pc, who |-> i, id |-> 0, copy |-> row]
<1>2. row \in Account /\ row.sub = sub /\ row.email = email /\ ~ row.lurusID
  BY AccountAssumption DEF NewRow, Account, Text
<1>3. Begin(q, i, pc, row)
  BY <1>1
<1> HIDE DEF row
<1>4. c \in Call
  BY <1>2, AccountAssumption DEF Call, Text
<1>5. SearchOK(c)
  BY <1>1, <1>2 DEF SearchOK
<1>6. /\ request' = [request EXCEPT ![q] = c] /\ request[q] = Free
      /\ i \in Parallel \/ Serving(i) = {}
      /\ UNCHANGED <<rows, bootVars, zitadel, known, refusals, faults>>
  BY <1>3 DEF Begin
<1>7. c.pc \in Searching /\ c.who = i /\ ~ Builds(request[q])
  BY <1>6 DEF Searching, Builds, Creating, Free
<1> HIDE DEF c
<1> QED
  BY <1>4, <1>5, <1>6, <1>7, Quiet DEF AccountsIInv, AccountsTypeOK

\* The call a move of call q leaves it at.
CallAt(c, q, pc, id, copy) ==
    /\ c \in Call
    /\ c.pc = pc /\ c.who = request[q].who /\ c.id = id /\ c.copy = copy

MovesTo(q, pc, id, copy) ==
    \/ request' = [request EXCEPT ![q].pc = pc, ![q].id = id, ![q].copy = copy]
    \/ request' = [request EXCEPT ![q].pc = pc, ![q].copy = copy] /\ id = request[q].id
    \/ request' = [request EXCEPT ![q].pc = pc, ![q].id = id] /\ copy = request[q].copy
    \/ Goto(q, pc) /\ id = request[q].id /\ copy = request[q].copy

Becomes(q, c) == request' = [request EXCEPT ![q] = c]

LEMMA CallMoved ==
    ASSUME AccountsTypeOK, NEW q \in Request, request[q] # Free,
           NEW pc \in Searching \union Holding, NEW id \in 0 .. MaxAccounts, NEW copy \in Account,
           MovesTo(q, pc, id, copy)
    PROVE  \E c : CallAt(c, q, pc, id, copy) /\ Becomes(q, c)
<1>1. request \in [Request -> Call \union {Free}] /\ request[q] \in Call
  BY DEF AccountsTypeOK
<1>2. PICK r \in Call : r = request[q]
  BY <1>1
<1>3. pc \in {"sub", "email", "save", "binding", "check", "zitadel", "insert",
              "lurusID", "bind", "wallet", "vip", "referrer", "edit"}
  BY DEF Searching, Holding, Creating
<1>4. ASSUME NEW c, c = [r EXCEPT !.pc = pc, !.id = id, !.copy = copy]
      PROVE  CallAt(c, q, pc, id, copy)
  BY <1>2, <1>3, <1>4 DEF CallAt, Call
<1>5. ASSUME NEW c, c = [r EXCEPT !.pc = pc, !.copy = copy]
      PROVE  CallAt(c, q, pc, r.id, copy)
  BY <1>2, <1>3, <1>5 DEF CallAt, Call
<1>6. ASSUME NEW c, c = [r EXCEPT !.pc = pc, !.id = id]
      PROVE  CallAt(c, q, pc, id, r.copy)
  BY <1>2, <1>3, <1>6 DEF CallAt, Call
<1>7. ASSUME NEW c, c = [r EXCEPT !.pc = pc]
      PROVE  CallAt(c, q, pc, r.id, r.copy)
  BY <1>2, <1>3, <1>7 DEF CallAt, Call
<1>8. /\ [request EXCEPT ![q].pc = pc, ![q].id = id, ![q].copy = copy]
            = [request EXCEPT ![q] = [r EXCEPT !.pc = pc, !.id = id, !.copy = copy]]
      /\ [request EXCEPT ![q].pc = pc, ![q].copy = copy]
            = [request EXCEPT ![q] = [r EXCEPT !.pc = pc, !.copy = copy]]
  BY <1>1, <1>2
<1>9. /\ [request EXCEPT ![q].pc = pc, ![q].id = id]
            = [request EXCEPT ![q] = [r EXCEPT !.pc = pc, !.id = id]]
      /\ [request EXCEPT ![q].pc = pc] = [request EXCEPT ![q] = [r EXCEPT !.pc = pc]]
  BY <1>1, <1>2
<1>10. CASE request' = [request EXCEPT ![q].pc = pc, ![q].id = id, ![q].copy = copy]
  BY <1>4, <1>8, <1>10 DEF Becomes
<1>11. CASE request' = [request EXCEPT ![q].pc = pc, ![q].copy = copy] /\ id = request[q].id
  BY <1>2, <1>5, <1>8, <1>11 DEF Becomes
<1>12. CASE request' = [request EXCEPT ![q].pc = pc, ![q].id = id] /\ copy = request[q].copy
  BY <1>2, <1>6, <1>9, <1>12 DEF Becomes
<1>13. CASE Goto(q, pc) /\ id = request[q].id /\ copy = request[q].copy
  BY <1>2, <1>7, <1>9, <1>13 DEF Becomes, Goto
<1> QED
  BY <1>10, <1>11, <1>12, <1>13 DEF MovesTo

\* A search goes on at another call of the database, or ends.
LEMMA SearchGoesOn ==
    ASSUME AccountsIInv, NEW q \in Request, request[q].pc \in Searching,
           NEW pc \in Searching, NEW copy \in Account,
           \/ /\ copy = request[q].copy
              /\ Goto(q, pc)
           \/ request' = [request EXCEPT ![q].pc = pc, ![q].copy = copy],
           \A c : CallAt(c, q, pc, request[q].id, copy) => SearchOK(c),
           rows' = rows, bootVars' = bootVars, zitadel' \subseteq Identity,
           known' = known, refusals' = refusals, faults' = faults
    PROVE  AccountsIInv'
<1>1. request[q] # Free /\ request[q].id = 0 /\ 0 \in 0 .. MaxAccounts /\ pc \in Searching \union Holding
  BY AccountAssumption
  DEF Free, Searching, Holding, Creating, AccountsIInv, RowsInv, CallOK, SearchOK
<1>2. PICK c : CallAt(c, q, pc, 0, copy) /\ Becomes(q, c)
  <2>1. MovesTo(q, pc, 0, copy) /\ AccountsTypeOK
    BY <1>1 DEF MovesTo, AccountsIInv
  <2> QED
    BY <1>1, <2>1, CallMoved
<1>3. SearchOK(c) /\ c \in Call \union {Free} /\ c.pc \in Searching /\ c.who = request[q].who
  BY <1>1, <1>2 DEF CallAt
<1>4. /\ ~ Builds(request[q]) /\ refusals' \subseteq Column /\ known' \subseteq DOMAIN rows
      /\ faults' \in Nat
  BY DEF Builds, Creating, Searching, AccountsIInv, AccountsTypeOK
<1> QED
  BY <1>2, <1>3, <1>4, Quiet DEF Becomes

LEMMA SearchEnds ==
    ASSUME AccountsIInv, NEW q \in Request, request[q].pc \in Searching, Finish(q),
           rows' = rows, bootVars' = bootVars, zitadel' = zitadel,
           refusals' \subseteq Column, known' \subseteq DOMAIN rows,
           faults' = faults, faults = 0 => \A n \in known' \ known : Spare(q, n)
    PROVE  AccountsIInv'
<1>1. /\ ~ Builds(request[q]) /\ zitadel' \subseteq Identity /\ faults' \in Nat
      /\ Free.who \in {request[q].who, Empty}
  BY DEF Builds, Creating, Searching, AccountsIInv, AccountsTypeOK, Free
<1> QED
  BY <1>1, Quiet DEF Finish

LEMMA SearchOf ==
    ASSUME AccountsIInv, NEW q \in Request, request[q].pc \in Searching
    PROVE  /\ SearchOK(request[q]) /\ request[q] \in Call /\ request[q].copy \in Account
           /\ request[q].who \in Identity /\ refusals \subseteq Column /\ zitadel \subseteq Identity
<1>1. /\ request[q] \in Call \union {Free} /\ request[q] # Free /\ CallOK(request[q])
      /\ refusals \subseteq Column /\ zitadel \subseteq Identity
  BY DEF AccountsIInv, AccountsTypeOK, RowsInv, Searching, Free
<1>2. request[q] \in Call /\ request[q].copy \in Account
  BY <1>1 DEF Call
<1>3. SearchOK(request[q]) /\ request[q].who \in Identity
  BY <1>1 DEF CallOK, SearchOK
<1> QED
  BY <1>1, <1>2, <1>3

LEMMA CheckRegistrationStep ==
    ASSUME AccountsIInv, NEW q \in Request, CheckRegistration(q)
    PROVE  AccountsIInv'
<1>1. /\ request[q].pc = "check" /\ request[q].pc \in Searching
      /\ UNCHANGED <<rows, bootVars, zitadel, known, refusals, faults>>
  BY DEF CheckRegistration, Searching
<1>2. known \subseteq DOMAIN rows
  BY DEF AccountsIInv, AccountsTypeOK
<1>3. CASE Finish(q)
  BY <1>1, <1>2, <1>3, SearchOf, SearchEnds
<1>4. CASE Goto(q, IF WithZitadel THEN "zitadel" ELSE "insert")
  <2> DEFINE pc == IF WithZitadel THEN "zitadel" ELSE "insert"
  <2>1. pc \in Searching
    BY DEF Searching
  <2>2. ASSUME NEW c, CallAt(c, q, pc, request[q].id, request[q].copy)
        PROVE  SearchOK(c)
    BY <1>1, <2>2, SearchOf, AccountAssumption DEF CallAt, SearchOK, OfOnePerson
  <2> HIDE DEF pc
  <2>3. Goto(q, pc)
    BY <1>4 DEF pc
  <2> QED
    BY <1>1, <2>1, <2>2, <2>3, SearchOf, SearchGoesOn
<1> QED
  BY <1>3, <1>4 DEF CheckRegistration

LEMMA CreateZitadelUserStep ==
    ASSUME AccountsIInv, NEW q \in Request, CreateZitadelUser(q)
    PROVE  AccountsIInv'
<1>1. /\ request[q].pc = "zitadel" /\ request[q].pc \in Searching /\ "insert" \in Searching
      /\ UNCHANGED <<rows, bootVars, known, refusals, faults>>
  BY DEF CreateZitadelUser, Searching
<1>2. known \subseteq DOMAIN rows
  BY DEF AccountsIInv, AccountsTypeOK
<1>3. CASE Finish(q) /\ UNCHANGED zitadel
  BY <1>1, <1>2, <1>3, SearchOf, SearchEnds
<1>4. CASE /\ zitadel' = zitadel \union {request[q].who}
           /\ request' = [request EXCEPT ![q].pc = "insert", ![q].copy.sub = request[q].who]
  <2> DEFINE copy == [request[q].copy EXCEPT !.sub = request[q].who]
  <2>1. /\ copy \in Account /\ copy.sub = request[q].who
        /\ copy.email = request[q].copy.email /\ copy.lurusID = request[q].copy.lurusID
    BY <1>1, SearchOf DEF Account, Text
  <2>2. request' = [request EXCEPT ![q].pc = "insert", ![q].copy = copy]
    BY <1>1, <1>4, SearchOf DEF Call, AccountsIInv, AccountsTypeOK
  <2> HIDE DEF copy
  <2>3. ASSUME NEW c, CallAt(c, q, "insert", request[q].id, copy)
        PROVE  SearchOK(c)
    BY <1>1, <2>1, <2>3, SearchOf, AccountAssumption DEF CallAt, SearchOK, OfOnePerson
  <2>4. zitadel' \subseteq Identity
    BY <1>1, <1>4, SearchOf
  <2> QED
    BY <1>1, <2>1, <2>2, <2>3, <2>4, SearchGoesOn
<1> QED
  BY <1>3, <1>4 DEF CreateZitadelUser

LEMMA LookupBindingStep ==
    ASSUME AccountsIInv, NEW q \in Request, LookupBinding(q)
    PROVE  AccountsIInv'
<1> DEFINE id == binding[request[q].who]
<1>1. /\ request[q].pc = "binding" /\ request[q].pc \in Searching /\ "insert" \in Searching
      /\ UNCHANGED <<rows, bootVars, zitadel, refusals, faults>>
  BY DEF LookupBinding, Searching
<1>2. CASE id = 0 /\ Goto(q, "insert") /\ UNCHANGED known
  <2>1. ASSUME NEW c, CallAt(c, q, "insert", request[q].id, request[q].copy)
        PROVE  SearchOK(c)
    BY <1>1, <2>1, SearchOf, AccountAssumption DEF CallAt, SearchOK, OfOnePerson
  <2> QED
    BY <1>1, <1>2, <2>1, SearchOf, SearchGoesOn
<1>3. CASE id # 0 /\ Finish(q) /\ known' = known \union {id}
  <2>1. request[q].who \in Wechat
    BY <1>1, SearchOf DEF AccountsIInv, RowsInv, CallOK, SearchOK
  <2>2. id \in DOMAIN rows /\ rows[id].sub = request[q].who
    BY <1>3, <2>1 DEF AccountsIInv, AccountsTypeOK, RowsInv
  <2>3. OfOnePerson(rows[id])
    BY <2>2 DEF AccountsIInv, RowsInv
  <2>4. Owner(rows[id]) = request[q].who
    BY <2>1, <2>2, <2>3, AccountAssumption DEF OfOnePerson, Owner
  <2> HIDE DEF id
  <2>5. faults = 0 => Spare(q, id)
    BY <1>1, <2>2, <2>4, OwnIsSpare DEF AccountsIInv, CompleteInv
  <2>6. known' \subseteq DOMAIN rows /\ refusals' \subseteq Column
    BY <1>1, <1>3, <2>2 DEF AccountsIInv, AccountsTypeOK
  <2> QED
    BY <1>1, <1>3, <2>5, <2>6, SearchEnds
<1> QED
  BY <1>2, <1>3 DEF LookupBinding

\* A call takes a row, or goes on with the row it has.
LEMMA HoldGoesOn ==
    ASSUME AccountsIInv, GoodRows,
           NEW q \in Request, NEW c \in Call, Becomes(q, c), c.pc \in Holding, HoldOK(c)',
           c.who \in {request[q].who, Empty},
           binding' \in [Wechat -> 0 .. Len(rows')],
           \A w \in Wechat : binding'[w] # binding[w] => rows'[binding'[w]].sub = w,
           wallets' \subseteq DOMAIN rows', vips' \subseteq DOMAIN rows', known' \subseteq DOMAIN rows',
           zitadel' = zitadel, refusals' = refusals, faults' = faults,
           faults = 0 => Sound(q, c)
    PROVE  AccountsIInv'
<1>1. CallOK(c)'
  BY DEF CallOK, Searching, Holding, Creating
<1>2. AccountsTypeOK' /\ RowsInv'
  <2>1. zitadel' \subseteq Identity /\ refusals' \subseteq Column /\ faults' \in Nat
    BY DEF AccountsIInv, AccountsTypeOK
  <2> QED
    BY <1>1, <2>1, CallMovesOn DEF AccountsIInv, Becomes
<1>3. c.who = request[q].who \/ c.who \notin Identity \ Parallel \/ Serving(c.who) = {}
  BY AccountAssumption
<1>4. CompleteInv'
  BY <1>3, CompleteMovesOn DEF AccountsIInv, GoodRows, Becomes
<1> QED
  BY <1>2, <1>4 DEF AccountsIInv

\* A call that holds a row ends; the row is known to somebody from then on.
LEMMA HoldEnds ==
    ASSUME AccountsIInv, GoodRows, NEW q \in Request, request[q].pc \in Holding, Finish(q),
           binding' = binding, wallets' \subseteq DOMAIN rows', vips' \subseteq DOMAIN rows',
           known' = known \union {request[q].id},
           zitadel' = zitadel, refusals' = refusals, faults' = faults,
           faults = 0 => Sound(q, Free)
    PROVE  AccountsIInv'
<1>1. CallOK(Free)' /\ Free.who = Empty /\ Free \in Call \union {Free}
  BY DEF CallOK, Free, Searching, Holding, Creating
<1>2. /\ zitadel' \subseteq Identity /\ refusals' \subseteq Column /\ faults' \in Nat
      /\ DOMAIN rows \subseteq DOMAIN rows' /\ known \subseteq DOMAIN rows
      /\ binding' \in [Wechat -> 0 .. Len(rows)]
      /\ Len(rows) \in Nat /\ DOMAIN rows = 1 .. Len(rows)
      /\ Len(rows') \in Nat /\ DOMAIN rows' = 1 .. Len(rows')
  BY DEF AccountsIInv, AccountsTypeOK, GoodRows, Kept
<1>3. request[q].id \in DOMAIN rows
  BY DEF AccountsIInv, RowsInv, CallOK, HoldOK
<1>4. binding' \in [Wechat -> 0 .. Len(rows')] /\ known' \subseteq DOMAIN rows'
  BY <1>2, <1>3
<1>5. AccountsTypeOK' /\ RowsInv'
  BY <1>1, <1>2, <1>4, CallMovesOn DEF AccountsIInv, Finish
<1>6. CompleteInv'
  BY <1>1, AccountAssumption, CompleteMovesOn DEF AccountsIInv, GoodRows, Finish
<1> QED
  BY <1>5, <1>6 DEF AccountsIInv

LEMMA HoldOf ==
    ASSUME AccountsIInv, NEW q \in Request, request[q].pc \in Holding
    PROVE  /\ HoldOK(request[q]) /\ request[q] \in Call /\ request[q].copy \in Account
           /\ request[q] # Free /\ request[q].id \in DOMAIN rows
           /\ request[q].id \in 0 .. MaxAccounts /\ OfOnePerson(request[q].copy)
<1>1. request[q] \in Call \union {Free} /\ request[q] # Free /\ CallOK(request[q])
  BY DEF AccountsIInv, AccountsTypeOK, RowsInv, Holding, Creating, Free
<1>2. request[q] \in Call /\ request[q].copy \in Account /\ request[q].id \in 0 .. MaxAccounts
  BY <1>1 DEF Call
<1>3. HoldOK(request[q])
  BY <1>1 DEF CallOK
<1> QED
  BY <1>1, <1>2, <1>3 DEF HoldOK

\* Facts about the table that every step needs.
LEMMA TableOK ==
    ASSUME AccountsIInv
    PROVE  /\ AccountsTypeOK /\ RowsInv
           /\ rows \in Seq(Account) /\ DOMAIN rows = 1 .. Len(rows) /\ Len(rows) \in Nat
           /\ Len(rows) <= MaxAccounts
           /\ binding \in [Wechat -> 0 .. Len(rows)]
           /\ wallets \subseteq DOMAIN rows /\ vips \subseteq DOMAIN rows /\ known \subseteq DOMAIN rows
           /\ faults = 0 =>
                BuildersAreAlone /\ CopiesAreComplete /\ RowsAreBuilt /\ OneByOne
BY DEF AccountsIInv, AccountsTypeOK, RowsInv, CompleteInv

\* A login finds the caller's row.
LEMMA FoundStep ==
    ASSUME AccountsIInv, NEW q \in Request, request[q].pc \in {"sub", "email"},
           NEW j \in DOMAIN rows, NEW copy \in Account,
           request' = [request EXCEPT ![q].pc = "save", ![q].id = j, ![q].copy = copy],
           OfOnePerson(copy), Owner(copy) = request[q].who, Owner(rows[j]) = request[q].who,
           copy.lurusID = rows[j].lurusID,
           UNCHANGED <<rows, bootVars, zitadel, known, refusals, faults>>
    PROVE  AccountsIInv'
<1>1. request[q].pc \in Searching /\ request[q] # Free /\ ~ Builds(request[q])
  BY DEF Searching, Builds, Creating, Free
<1>2. /\ j \in 0 .. MaxAccounts /\ "save" \in Searching \union Holding /\ GoodRows
      /\ "save" \in Holding \ Creating
  BY TableOK, RowsStay, AccountAssumption DEF Holding, Creating
<1>3. PICK c : CallAt(c, q, "save", j, copy) /\ Becomes(q, c)
  <2>1. MovesTo(q, "save", j, copy) /\ AccountsTypeOK
    BY TableOK DEF MovesTo
  <2> QED
    BY <1>1, <1>2, <2>1, CallMoved
<1>4. /\ c \in Call /\ c.pc = "save" /\ c.who = request[q].who /\ c.id = j /\ c.copy = copy
      /\ c.who \in Identity
  BY <1>1, <1>3, SearchOf DEF CallAt
<1>5. HoldOK(c)'
  BY <1>2, <1>4 DEF HoldOK, Creating
<1>6. faults = 0 => Spare(q, j) /\ (Alone(Owner(rows[j])) => copy.lurusID)
  BY <1>1, TableOK, OwnIsSpare
<1>7. faults = 0 => Sound(q, c)
  BY <1>1, <1>2, <1>4, <1>6 DEF Sound, bootVars
<1> QED
  BY <1>2, <1>3, <1>4, <1>5, <1>7, HoldGoesOn, TableOK DEF bootVars

LEMMA LookupStep ==
    ASSUME AccountsIInv, NEW q \in Request, LookupBySub(q) \/ LookupByEmail(q)
    PROVE  AccountsIInv'
<1>1. /\ request[q].pc \in {"sub", "email"} /\ request[q].pc \in Searching
      /\ "email" \in Searching /\ "insert" \in Searching
      /\ UNCHANGED <<rows, bootVars, zitadel, known, refusals, faults>>
  BY DEF LookupBySub, LookupByEmail, Searching
<1>2. CASE \/ request[q].pc = "sub" /\ Goto(q, "email")
           \/ request[q].pc = "email" /\ Goto(q, "insert")
  <2>1. PICK pc \in {"email", "insert"} : Goto(q, pc) /\ (pc = "email" => request[q].pc = "sub")
    BY <1>2
  <2>2. ASSUME NEW c, CallAt(c, q, pc, request[q].id, request[q].copy)
        PROVE  SearchOK(c)
    BY <1>1, <2>1, <2>2, SearchOf, AccountAssumption DEF CallAt, SearchOK, OfOnePerson
  <2>3. pc \in Searching
    BY <1>1
  <2> QED
    BY <1>1, <2>1, <2>2, <2>3, SearchOf, SearchGoesOn
<1>3. ASSUME NEW j \in Matching("sub", request[q].who),
             request' = [request EXCEPT ![q].pc = "save", ![q].id = j, ![q].copy = rows[j]]
      PROVE  AccountsIInv'
  <2>1. j \in DOMAIN rows /\ rows[j].sub = request[q].who /\ rows[j] \in Account
    BY <1>3, TableOK DEF Matching
  <2>2. OfOnePerson(rows[j]) /\ Owner(rows[j]) = request[q].who
    BY <1>1, <2>1, SearchOf, AccountAssumption DEF AccountsIInv, RowsInv, OfOnePerson, Owner
  <2> QED
    BY <1>1, <1>3, <2>1, <2>2, FoundStep
<1>4. ASSUME NEW j \in Matching("email", request[q].who),
             request' = [request EXCEPT ![q].pc = "save", ![q].id = j,
                                        ![q].copy = [rows[j] EXCEPT !.sub = request[q].who]]
      PROVE  AccountsIInv'
  <2> DEFINE copy == [rows[j] EXCEPT !.sub = request[q].who]
  <2>1. j \in DOMAIN rows /\ rows[j].email = request[q].who /\ rows[j] \in Account
    BY <1>4, TableOK DEF Matching
  <2>2. /\ copy \in Account /\ copy.sub = request[q].who /\ copy.email = request[q].who
        /\ copy.lurusID = rows[j].lurusID
    BY <1>1, <2>1, SearchOf DEF Account, Text
  <2> HIDE DEF copy
  <2>3. /\ OfOnePerson(copy) /\ Owner(copy) = request[q].who
        /\ OfOnePerson(rows[j]) /\ Owner(rows[j]) = request[q].who
    BY <1>1, <2>1, <2>2, SearchOf, AccountAssumption
    DEF AccountsIInv, RowsInv, OfOnePerson, Owner
  <2>4. request' = [request EXCEPT ![q].pc = "save", ![q].id = j, ![q].copy = copy]
    BY <1>4 DEF copy
  <2> QED
    BY <1>1, <2>1, <2>2, <2>3, <2>4, FoundStep
<1> QED
  BY <1>2, <1>3, <1>4 DEF LookupBySub, LookupByEmail

\* A whole row is saved: what a call may save is its copy, or the copy with the
\* LurusID.
MaySave(q, row, pc) ==
    /\ row \in Account
    /\ row.sub = request[q].copy.sub /\ row.email = request[q].copy.email
    /\ request[q].copy.lurusID => row.lurusID
    /\ \/ request[q].pc \in {"save", "referrer", "edit"} /\ pc \in {"done", "referrer"}
       \/ /\ request[q].pc = "lurusID" /\ row = [request[q].copy EXCEPT !.lurusID = TRUE]
          /\ row.lurusID
          /\ pc = (IF request[q].who \in Wechat THEN "bind" ELSE "wallet")
    /\ pc = "referrer" => request[q].pc # "edit"

LEMMA RowIsSaved ==
    ASSUME AccountsIInv, NEW q \in Request, request[q].pc \in Holding, NEW row, NEW pc,
           MaySave(q, row, pc),
           Clashes(row, request[q].id) = {}, rows' = [rows EXCEPT ![request[q].id] = row]
    PROVE  /\ GoodRows /\ rows'[request[q].id] = row
           /\ OfOnePerson(row) /\ Owner(row) = Owner(request[q].copy)
           /\ DOMAIN rows' = DOMAIN rows
           /\ \A j \in DOMAIN rows \ {request[q].id} : rows'[j] = rows[j]
           /\ faults = 0 /\ Alone(Owner(rows[request[q].id])) =>
                row.lurusID /\ Spare(q, request[q].id)
<1>1. /\ OfOnePerson(row) /\ Owner(row) = Owner(request[q].copy)
      /\ Owner(row) = Owner(rows[request[q].id]) /\ request[q].id \in DOMAIN rows
  BY HoldOf DEF MaySave, OfOnePerson, Owner, HoldOK
<1>2. faults = 0 /\ Alone(Owner(rows[request[q].id])) => row.lurusID
  BY TableOK DEF MaySave, CopiesAreComplete
<1> QED
  BY <1>1, <1>2, RowSaved, TableOK, HeldIsSpare DEF MaySave

LEMMA SaveGoesOn ==
    ASSUME AccountsIInv, NEW q \in Request, request[q].pc \in Holding, NEW row, NEW pc,
           MaySave(q, row, pc), pc # "done",
           Clashes(row, request[q].id) = {}, rows' = [rows EXCEPT ![request[q].id] = row],
           request' = [request EXCEPT ![q].pc = pc, ![q].copy = row],
           UNCHANGED <<bootVars, zitadel, known, refusals, faults>>
    PROVE  AccountsIInv'
<1> DEFINE id == request[q].id
<1>1. /\ pc \in {"referrer", "bind", "wallet"} /\ pc \in Searching \union Holding
      /\ pc \in Holding /\ row \in Account
  BY DEF MaySave, Holding, Creating
<1>2. PICK c : CallAt(c, q, pc, id, row) /\ Becomes(q, c)
  <2>1. MovesTo(q, pc, id, row) /\ AccountsTypeOK
    BY TableOK DEF MovesTo
  <2> QED
    BY <1>1, <2>1, HoldOf, CallMoved
<1>3. /\ c \in Call /\ c.pc = pc /\ c.who = request[q].who /\ c.id = id /\ c.copy = row
  BY <1>2 DEF CallAt
<1>4. /\ GoodRows /\ rows'[id] = row /\ DOMAIN rows' = DOMAIN rows
      /\ OfOnePerson(row) /\ Owner(row) = Owner(request[q].copy) /\ id \in DOMAIN rows
      /\ \A j \in DOMAIN rows \ {id} : rows'[j] = rows[j]
      /\ faults = 0 /\ Alone(Owner(rows[id])) => row.lurusID
  BY RowIsSaved, HoldOf
<1> HIDE DEF id
<1>5. HoldOK(request[q])
  BY HoldOf
<1>6. HoldOK(c)'
  <2>1. c.who \in Wechat /\ pc \in Creating => rows'[id].sub = c.who
    BY <1>3, <1>4, <1>5 DEF HoldOK, GoodRows, Kept, MaySave, Creating, id
  <2>2. /\ c.who \in Identity /\ Owner(row) \in {c.who, Empty}
        /\ pc = "bind" => c.who \in Wechat
    BY <1>1, <1>3, <1>4, <1>5 DEF HoldOK, MaySave
  <2> QED
    BY <1>1, <1>3, <1>4, <2>1, <2>2 DEF HoldOK
<1>7. ASSUME faults = 0
      PROVE  Sound(q, c)
  <2>1. BuildersAreAlone /\ Spare(q, id) /\ Owner(rows'[id]) = Owner(rows[id])
    BY <1>4, <1>7, TableOK, HeldIsSpare DEF id, GoodRows, Kept
  <2>2. pc \in Creating /\ Alone(Owner(rows'[id])) =>
            Progress(c)' /\ \A p \in Request \ {q} : request[p].id # id
    <3> SUFFICES ASSUME pc \in Creating, Alone(Owner(rows'[id]))
                 PROVE  Progress(c)' /\ \A p \in Request \ {q} : request[p].id # id
      OBVIOUS
    <3>1. Builds(request[q]) /\ request[q].pc = "lurusID"
      BY <2>1 DEF Builds, Creating, MaySave, id
    <3>2. id \notin known /\ \A p \in Request \ {q} : request[p].id # id
      BY <2>1, <3>1 DEF BuildersAreAlone, Progress, id
    <3>3. row.lurusID /\ pc \in {"bind", "wallet"} /\ (pc = "wallet" => c.who \notin Wechat)
      BY <1>3, <3>1 DEF MaySave
    <3> QED
      BY <1>3, <1>4, <3>2, <3>3 DEF Progress
  <2>3. Builds(request[q]) => pc \in Creating
    BY DEF Builds, Creating, MaySave
  <2> QED
    BY <1>1, <1>3, <1>4, <1>7, <2>1, <2>2, <2>3 DEF Sound, bootVars, id
<1>8. /\ binding' = binding /\ binding' \in [Wechat -> 0 .. Len(rows')]
      /\ wallets' \subseteq DOMAIN rows' /\ vips' \subseteq DOMAIN rows' /\ known' \subseteq DOMAIN rows'
  <2>1. Len(rows') = Len(rows)
    BY <1>4, TableOK DEF GoodRows
  <2> QED
    BY <1>4, <2>1, TableOK DEF bootVars
<1> QED
  BY <1>1, <1>2, <1>3, <1>4, <1>6, <1>7, <1>8, HoldGoesOn

LEMMA SaveEnds ==
    ASSUME AccountsIInv, NEW q \in Request, request[q].pc \in Holding, NEW row,
           MaySave(q, row, "done"),
           Clashes(row, request[q].id) = {}, rows' = [rows EXCEPT ![request[q].id] = row],
           known' = known \union {request[q].id}, Finish(q),
           UNCHANGED <<bootVars, zitadel, refusals, faults>>
    PROVE  AccountsIInv'
<1> DEFINE id == request[q].id
<1>1. /\ GoodRows /\ rows'[id] = row /\ DOMAIN rows' = DOMAIN rows /\ id \in DOMAIN rows
      /\ \A j \in DOMAIN rows \ {id} : rows'[j] = rows[j]
      /\ faults = 0 /\ Alone(Owner(rows[id])) => row.lurusID
  BY RowIsSaved, HoldOf
<1>2. faults = 0 => Sound(q, Free)
  <2>1. ~ Builds(request[q])
    BY DEF Builds, Creating, MaySave
  <2>2. faults = 0 => Spare(q, id)
    BY TableOK, HeldIsSpare
  <2> HIDE DEF id
  <2>3. Free.pc \notin Holding /\ Free.id = 0
    BY DEF Free, Holding, Creating
  <2> QED
    BY <1>1, <2>1, <2>2, <2>3 DEF Sound, bootVars, id, Holding
<1> QED
  BY <1>1, <1>2, HoldEnds, TableOK DEF bootVars

LEMMA SaveRefused ==
    ASSUME AccountsIInv, NEW q \in Request, request[q].pc \in Holding, NEW row, NEW pc,
           MaySave(q, row, pc), Refused(q, row, request[q].id),
           UNCHANGED <<bootVars, zitadel, faults>>
    PROVE  AccountsIInv'
<1>1. /\ refusals' \subseteq Column /\ Free.who = Empty /\ rows' = rows /\ known' = known
      /\ request' = [request EXCEPT ![q] = Free]
      /\ zitadel' \subseteq Identity /\ faults' \in Nat /\ known' \subseteq DOMAIN rows
  BY DEF Refused, Finish, Clashes, AccountsIInv, AccountsTypeOK, Free
<1>2. ASSUME faults = 0, Builds(request[q])
      PROVE  FALSE
  <2>1. /\ request[q].pc = "lurusID" /\ row = [request[q].copy EXCEPT !.lurusID = TRUE]
        /\ rows[request[q].id] = request[q].copy
    BY <1>2, TableOK DEF MaySave, Builds, Creating, BuildersAreAlone, Progress
  <2>2. Clashes(row, request[q].id) = {}
    BY <2>1, HoldOf, TableOK, LurusIDIsLetThrough DEF RowsInv
  <2> QED
    BY <2>2 DEF Refused
<1> QED
  BY <1>1, <1>2, Quiet

LEMMA SavesARow ==
    ASSUME AccountsIInv, NEW q \in Request,
           SaveFound(q) \/ SetLurusID(q) \/ LinkReferrer(q) \/ SaveEdit(q)
    PROVE  /\ request[q].pc \in Holding
           /\ \E row, pc : MaySave(q, row, pc) /\ SaveRow(q, row, pc)
<1>1. request[q].pc \in Holding
  BY DEF SaveFound, SetLurusID, LinkReferrer, SaveEdit, Holding, Creating
<1>2. CASE SetLurusID(q)
  BY <1>1, <1>2, HoldOf, WithLurusID DEF SetLurusID, MaySave
<1>3. CASE SaveFound(q) \/ LinkReferrer(q) \/ SaveEdit(q)
  BY <1>1, <1>3, HoldOf DEF SaveFound, LinkReferrer, SaveEdit, MaySave
<1> QED
  BY <1>1, <1>2, <1>3

LEMMA SaveStep ==
    ASSUME AccountsIInv, NEW q \in Request,
           SaveFound(q) \/ SetLurusID(q) \/ LinkReferrer(q) \/ SaveEdit(q)
    PROVE  AccountsIInv'
<1>1. /\ request[q].pc \in {"save", "lurusID", "referrer", "edit"}
      /\ request[q].pc \in Holding
      /\ UNCHANGED <<bootVars, zitadel, faults>>
  BY DEF SaveFound, SetLurusID, LinkReferrer, SaveEdit, Holding, Creating
<1>2. PICK row, pc : MaySave(q, row, pc) /\ SaveRow(q, row, pc)
  BY SavesARow
<1>3. CASE Refused(q, row, request[q].id)
  BY <1>1, <1>2, <1>3, SaveRefused
<1>4. CASE ~ Refused(q, row, request[q].id)
  <2>1. /\ Clashes(row, request[q].id) = {} /\ rows' = [rows EXCEPT ![request[q].id] = row]
        /\ UNCHANGED refusals
        /\ \/ /\ pc # "done"
              /\ request' = [request EXCEPT ![q].pc = pc, ![q].copy = row]
              /\ UNCHANGED known
           \/ /\ pc = "done"
              /\ known' = known \union {request[q].id}
              /\ Finish(q)
    BY <1>2, <1>4 DEF SaveRow
  <2> QED
    BY <1>1, <1>2, <2>1, SaveGoesOn, SaveEnds
<1> QED
  BY <1>3, <1>4

\* The INSERT gives a row a number that nobody has.
LEMMA InsertStep ==
    ASSUME AccountsIInv, NEW q \in Request, Insert(q)
    PROVE  AccountsIInv'
<1> DEFINE row == request[q].copy
           id == Len(rows) + 1
<1>1. /\ request[q].pc = "insert" /\ request[q].pc \in Searching /\ request[q] # Free
      /\ UNCHANGED <<bootVars, zitadel, faults>>
  BY DEF Insert, Searching, Free
<1>2. CASE Refused(q, row, id)
  <2>1. Finish(q) /\ UNCHANGED <<rows, known>> /\ refusals' \subseteq Column
    BY <1>1, <1>2, SearchOf DEF Refused, Clashes
  <2> QED
    BY <1>1, <2>1, SearchEnds, TableOK
<1>3. CASE /\ Clashes(row, id) = {}
           /\ id <= MaxAccounts
           /\ rows' = Append(rows, row)
           /\ request' = [request EXCEPT ![q].pc = "lurusID", ![q].id = id]
           /\ UNCHANGED <<known, refusals>>
  <2>1. /\ SearchOK(request[q]) /\ row \in Account /\ OfOnePerson(row)
        /\ request[q].who \in Identity
    BY <1>1, SearchOf DEF SearchOK
  <2>2. /\ GoodRows /\ id \notin DOMAIN rows /\ id \in Nat
        /\ DOMAIN rows' = DOMAIN rows \union {id} /\ rows'[id] = row
        /\ \A j \in DOMAIN rows : rows'[j] = rows[j]
    BY <1>3, <2>1, RowInserted, TableOK
  <2>3. id \in 0 .. MaxAccounts /\ "lurusID" \in Searching \union Holding
    BY <1>3, <2>2, AccountAssumption DEF Holding, Creating
  <2> HIDE DEF id, row
  <2>4. PICK c : CallAt(c, q, "lurusID", id, row) /\ Becomes(q, c)
    <3>1. MovesTo(q, "lurusID", id, row) /\ AccountsTypeOK
      BY <1>3, TableOK DEF MovesTo, row
    <3> QED
      BY <1>1, <2>1, <2>3, <3>1, CallMoved
  <2>5. /\ c \in Call /\ c.pc = "lurusID" /\ c.who = request[q].who /\ c.id = id /\ c.copy = row
        /\ c.pc \in Creating /\ c.pc \in Holding
    BY <2>4 DEF CallAt, Holding, Creating
  <2>6. HoldOK(c)'
    BY <2>1, <2>2, <2>5 DEF HoldOK, SearchOK, Owner, row
  <2>7. /\ \A p \in Request : request[p].id # id
        /\ id \notin known
    <3>1. id = Len(rows) + 1 /\ Len(rows) \in Nat
      BY TableOK DEF id
    <3>2. \A p \in Request : request[p].id \in 0 .. Len(rows)
      BY TableOK DEF AccountsTypeOK
    <3> QED
      BY <2>2, <3>1, <3>2, TableOK
  <2>8. Progress(c)'
    BY <1>1, <1>3, <2>2, <2>5, <2>7 DEF Progress
  <2>9. ~ Builds(request[q])
    BY <1>1 DEF Builds, Creating
  <2>10. Sound(q, c)
    BY <1>1, <1>3, <2>2, <2>5, <2>7, <2>8, <2>9 DEF Sound, bootVars, Spare
  <2>11. /\ binding' = binding /\ binding' \in [Wechat -> 0 .. Len(rows')]
         /\ wallets' \subseteq DOMAIN rows' /\ vips' \subseteq DOMAIN rows' /\ known' \subseteq DOMAIN rows'
    <3>1. Len(rows') \in Nat /\ Len(rows) <= Len(rows')
      BY <1>3, <2>1, TableOK DEF row
    <3> QED
      BY <1>1, <1>3, <2>2, <3>1, TableOK DEF bootVars
  <2> QED
    BY <1>1, <1>3, <2>2, <2>4, <2>5, <2>6, <2>10, <2>11, HoldGoesOn
<1> QED
  BY <1>2, <1>3 DEF Insert

\* The other rows of an account.
LEMMA BootStep ==
    ASSUME AccountsIInv, NEW q \in Request, NEW pc \in {"wallet", "vip", "referrer"},
           \/ BindWechat(q) /\ pc = "wallet"
           \/ CreateWallet(q) /\ pc = "vip"
           \/ CreateVIP(q) /\ Goto(q, pc) /\ pc = "referrer",
           Goto(q, pc)
    PROVE  AccountsIInv'
<1> DEFINE id == request[q].id
<1>1. /\ request[q].pc \in {"bind", "wallet", "vip"} /\ request[q].pc \in Creating
      /\ request[q].pc \in Holding /\ pc \in Searching \union Holding /\ pc \in Holding
      /\ pc = "wallet" <=> request[q].pc = "bind"
      /\ pc = "vip" <=> request[q].pc = "wallet"
      /\ pc \in Creating <=> request[q].pc # "vip"
      /\ UNCHANGED <<rows, zitadel, refusals, faults>>
      /\ known' = known
  <2>1. CASE BindWechat(q) /\ pc = "wallet"
    BY <2>1 DEF BindWechat, Holding, Creating
  <2>3. CASE CreateWallet(q) /\ pc = "vip"
    BY <2>3 DEF CreateWallet, Holding, Creating
  <2>2. CASE CreateVIP(q) /\ Goto(q, pc) /\ pc = "referrer"
    <3>1. request[q].pc = "vip" /\ UNCHANGED <<rows, zitadel, refusals, faults>>
      BY <2>2 DEF CreateVIP
    <3>2. request'[q].pc = "referrer"
      BY <2>2, <3>1, HoldOf DEF Goto, AccountsIInv, AccountsTypeOK, Holding, Creating, Call
    <3>3. ~ Finish(q)
      BY <3>2 DEF Finish, Free, AccountsIInv, AccountsTypeOK
    <3> QED
      BY <2>2, <3>1, <3>3 DEF CreateVIP, Holding, Creating
  <2> QED
    BY <2>1, <2>2, <2>3
<1>2. /\ HoldOK(request[q]) /\ id \in DOMAIN rows /\ request[q] # Free
      /\ id \in 0 .. MaxAccounts /\ request[q].copy \in Account
      /\ request[q].pc = "bind" => request[q].who \in Wechat
  BY <1>1, HoldOf DEF HoldOK
<1>3. PICK c : CallAt(c, q, pc, id, request[q].copy) /\ Becomes(q, c)
  <2>1. MovesTo(q, pc, id, request[q].copy) /\ AccountsTypeOK
    BY TableOK DEF MovesTo
  <2> QED
    BY <1>1, <1>2, <2>1, CallMoved
<1>4. /\ c \in Call /\ c.pc = pc /\ c.who = request[q].who /\ c.id = id
      /\ c.copy = request[q].copy
  BY <1>3 DEF CallAt
<1>5. GoodRows
  BY <1>1, RowsStay, TableOK
<1>6. HoldOK(c)'
  BY <1>1, <1>2, <1>4 DEF HoldOK, Creating
<1>7. /\ wallets' = IF pc = "vip" THEN wallets \union {id} ELSE wallets
      /\ vips' = IF pc = "referrer" THEN vips \union {id} ELSE vips
      /\ binding' = IF pc = "wallet" THEN [binding EXCEPT ![request[q].who] = id] ELSE binding
  BY <1>1 DEF BindWechat, CreateWallet, CreateVIP
<1> HIDE DEF id
<1>8. /\ wallets' \subseteq DOMAIN rows' /\ vips' \subseteq DOMAIN rows' /\ known' \subseteq DOMAIN rows'
      /\ binding' \in [Wechat -> 0 .. Len(rows')]
      /\ \A w \in Wechat : binding'[w] # binding[w] =>
            w = request[q].who /\ binding'[w] = id /\ rows[id].sub = w
  BY <1>1, <1>2, <1>7, TableOK DEF HoldOK, id
<1>9. ASSUME faults = 0
      PROVE  Sound(q, c)
  <2>1. BuildersAreAlone /\ Spare(q, id)
    BY <1>9, TableOK, HeldIsSpare DEF id
  <2>2. ASSUME Alone(Owner(rows[id]))
        PROVE  /\ Progress(request[q]) /\ request[q].copy.lurusID
               /\ \A p \in Request \ {q} : request[p].id # id
               /\ request[q].who = Owner(rows[id])
    <3>1. Builds(request[q])
      BY <1>1, <2>2 DEF Builds, id
    <3> QED
      BY <1>1, <2>1, <3>1, BuildersOwn, TableOK DEF BuildersAreAlone, Progress, id
  <2>3. ASSUME Alone(Owner(rows[id])), pc \in Creating
        PROVE  Progress(c)' /\ \A p \in Request \ {q} : request[p].id # id
    <3>1. c.who \in Wechat /\ c.pc \in {"wallet", "vip"} => binding'[c.who] = id
      BY <1>1, <1>4, <1>7, <2>2, <2>3, TableOK DEF Progress, id
    <3> QED
      BY <1>1, <1>4, <1>7, <2>2, <2>3, <3>1 DEF Progress, id
  <2>4. ASSUME Builds(request[q]), pc \notin Creating,
               NEW n, n = id, NEW o, o = Owner(rows[n])
        PROVE  Built(o, n)'
    BY <1>1, <1>7, <2>2, <2>4 DEF Builds, Built, Progress, id
  <2> QED
    BY <1>1, <1>2, <1>4, <1>7, <1>8, <2>1, <2>2, <2>3, <2>4 DEF Sound, id
<1> QED
  BY <1>1, <1>3, <1>4, <1>5, <1>6, <1>8, <1>9, HoldGoesOn

\* The last row ends the call of a WeChat user, or of one without an aff_code.
LEMMA CreateVIPEnds ==
    ASSUME AccountsIInv, NEW q \in Request, CreateVIP(q), Finish(q),
           known' = known \union {request[q].id}
    PROVE  AccountsIInv'
<1> DEFINE id == request[q].id
<1>1. /\ request[q].pc = "vip" /\ request[q].pc \in Creating /\ request[q].pc \in Holding
      /\ vips' = vips \union {id}
      /\ UNCHANGED <<rows, binding, wallets, zitadel, refusals, faults>>
  BY DEF CreateVIP, Holding, Creating
<1>2. id \in DOMAIN rows /\ GoodRows
  BY <1>1, HoldOf, RowsStay, TableOK
<1> HIDE DEF id
<1>3. ASSUME faults = 0
      PROVE  Sound(q, Free)
  <2>1. BuildersAreAlone /\ Spare(q, id)
    BY <1>3, TableOK, HeldIsSpare DEF id
  <2>2. ASSUME Builds(request[q]), NEW n, n = id, NEW o, o = Owner(rows[n])
        PROVE  Built(o, n)'
    <3>1. Progress(request[q]) /\ request[q].copy.lurusID /\ request[q].who = o
      BY <1>1, <2>1, <2>2, BuildersOwn, TableOK DEF BuildersAreAlone, Progress, id
    <3> QED
      BY <1>1, <2>2, <3>1 DEF Built, Progress, id
  <2>3. Free.pc \notin Holding /\ Free.id = 0
    BY DEF Free, Holding, Creating
  <2> QED
    BY <1>1, <2>1, <2>2, <2>3 DEF Sound, Holding, id
<1> QED
  BY <1>1, <1>2, <1>3, HoldEnds, TableOK DEF id

\* An edit takes a row that some call has returned.
LEMMA ReadForEditStep ==
    ASSUME AccountsIInv, NEW q \in Request, NEW id \in known, ReadForEdit(q, id)
    PROVE  AccountsIInv'
<1>1. /\ request[q] = Free
      /\ UNCHANGED <<rows, bootVars, zitadel, known, refusals, faults>>
  BY DEF ReadForEdit
<1>2. id \in DOMAIN rows /\ rows[id] \in Account /\ id \in 0 .. MaxAccounts /\ GoodRows
  <2>1. id \in DOMAIN rows /\ rows[id] \in Account /\ GoodRows
    BY <1>1, TableOK, RowsStay
  <2> QED
    BY <2>1, TableOK, AccountAssumption
<1>3. PICK copy \in Account :
        /\ request' = [request EXCEPT ![q] = [pc |-> "edit", who |-> Empty, id |-> id, copy |-> copy]]
        /\ copy.sub = rows[id].sub /\ copy.email = rows[id].email
        /\ copy.lurusID = rows[id].lurusID
  <2>1. PICK i \in Identity \ Wechat :
          \E copy \in {[rows[id] EXCEPT !.username = i], [rows[id] EXCEPT !.phone = i]} :
            request' = [request EXCEPT ![q] = [pc |-> "edit", who |-> Empty, id |-> id, copy |-> copy]]
    BY DEF ReadForEdit
  <2>. PICK copy \in {[rows[id] EXCEPT !.username = i], [rows[id] EXCEPT !.phone = i]} :
          request' = [request EXCEPT ![q] = [pc |-> "edit", who |-> Empty, id |-> id, copy |-> copy]]
    BY <2>1
  <2>2. /\ copy \in Account /\ copy.sub = rows[id].sub /\ copy.email = rows[id].email
        /\ copy.lurusID = rows[id].lurusID
    BY <1>2, <2>1 DEF Account, Text
  <2> QED
    BY <2>1, <2>2
<1> DEFINE c == [pc |-> "edit", who |-> Empty, id |-> id, copy |-> copy]
<1>4. /\ c \in Call /\ c.pc = "edit" /\ c.who = Empty /\ c.id = id /\ c.copy = copy
      /\ Becomes(q, c)
  BY <1>2, <1>3 DEF Call, Text, Becomes
<1> HIDE DEF c
<1>5. c.pc \in Holding /\ c.pc \notin Creating /\ ~ Builds(request[q])
  BY <1>1, <1>4 DEF Holding, Creating, Builds, Free
<1>6. HoldOK(c)'
  BY <1>1, <1>2, <1>3, <1>4, TableOK DEF HoldOK, RowsInv, OfOnePerson, Owner, Creating
<1>7. faults = 0 => Spare(q, id) /\ (Alone(Owner(rows[id])) => copy.lurusID)
  BY <1>3, TableOK, KnownIsSpare
<1>8. faults = 0 => Sound(q, c)
  BY <1>1, <1>4, <1>5, <1>7 DEF Sound, bootVars
<1> QED
  BY <1>1, <1>2, <1>4, <1>5, <1>6, <1>8, HoldGoesOn, TableOK DEF bootVars

LEMMA CallFailsStep ==
    ASSUME AccountsIInv, NEW q \in Request, CallFails(q)
    PROVE  AccountsIInv'
<1>1. /\ request' = [request EXCEPT ![q] = Free] /\ Free.who = Empty
      /\ faults \in Nat /\ faults' = faults + 1
      /\ UNCHANGED <<rows, bootVars, zitadel, known, refusals>>
      /\ zitadel' \subseteq Identity /\ refusals' \subseteq Column /\ known' \subseteq DOMAIN rows
  BY DEF CallFails, Finish, Free, AccountsIInv, AccountsTypeOK
<1>2. faults' # 0 /\ faults' \in Nat /\ rows' = rows /\ bootVars' = bootVars
  BY <1>1
<1>3. Free \in Call \union {Free}
  OBVIOUS
<1> QED
  BY <1>1, <1>2, <1>3, Quiet

LEMMA AccountsStep == AccountsIInv /\ [Next]_vars => AccountsIInv'
<1> SUFFICES ASSUME AccountsIInv, [Next]_vars
             PROVE  AccountsIInv'
  OBVIOUS
<1>1. CASE UNCHANGED vars
  BY <1>1
  DEF vars, bootVars, AccountsIInv, AccountsTypeOK, RowsInv, RowsDiffer, CallOK, HoldOK,
      CompleteInv, OneByOne, BuildersAreAlone, Builds, Progress, CopiesAreComplete, RowsAreBuilt,
      Built
<1>2. ASSUME NEW q \in Request, BindWechat(q) \/ CreateWallet(q) \/ CreateVIP(q)
      PROVE  AccountsIInv'
  <2>1. CASE BindWechat(q)
    BY <2>1, BootStep DEF BindWechat
  <2>2. CASE CreateWallet(q)
    BY <2>2, BootStep DEF CreateWallet
  <2>3. CASE CreateVIP(q)
    <3>1. \/ Goto(q, "referrer")
          \/ Finish(q) /\ known' = known \union {request[q].id}
      BY <2>3 DEF CreateVIP
    <3> QED
      BY <2>3, <3>1, BootStep, CreateVIPEnds
  <2> QED
    BY <1>2, <2>1, <2>2, <2>3
<1> QED
  BY <1>1, <1>2, BeginStep, LookupStep, SaveStep, LookupBindingStep, CheckRegistrationStep,
     CreateZitadelUserStep, InsertStep, ReadForEditStep, CallFailsStep
  DEF Next

-----------------------------------------------------------------------------
(* Accounts: what the invariant is for *)

RowsOf(i) == {j \in DOMAIN rows : Owner(rows[j]) = i}

\* The account a login is led to is the one row of its person.
ResolvedToOwn(i) ==
    /\ Resolved(i) = RowsOf(i)
    /\ \A j, k \in RowsOf(i) : j = k

LEMMA ResolvedIsOwned ==
    ASSUME RowsInv, NEW i \in Identity
    PROVE  ResolvedToOwn(i)
<1>1. \A j \in DOMAIN rows : rows[j].sub = i => Owner(rows[j]) = i
  BY AccountAssumption DEF RowsInv, OfOnePerson, Owner
<1>2. \A j \in DOMAIN rows : rows[j].email = i => Owner(rows[j]) = i
  BY AccountAssumption DEF RowsInv, OfOnePerson, Owner
<1>3. \A j, k \in DOMAIN rows : Owner(rows[j]) = i /\ Owner(rows[k]) = i => j = k
  BY DEF RowsInv, RowsDiffer, Apart, Owner
<1>4. Resolved(i) = RowsOf(i)
  <2>1. CASE Matching("sub", i) # {}
    BY <1>1, <1>3, <2>1 DEF Resolved, Matching, RowsOf
  <2>2. CASE Matching("sub", i) = {}
    BY <1>2, <2>2 DEF Resolved, Matching, Owner, RowsOf
  <2> QED
    BY <2>1, <2>2
<1> QED
  BY <1>3, <1>4 DEF ResolvedToOwn, RowsOf

LEMMA AccountsIInvImplies == AccountsIInv => AccountsInv
<1> SUFFICES ASSUME AccountsIInv
             PROVE  AccountsInv
  OBVIOUS
<1> USE TableOK
<1>1. CallsHoldRows
  <2>1. ASSUME NEW j \in DOMAIN rows, NEW w \in Wechat, rows[j].sub = w
        PROVE  Matching("sub", w) = {j}
    BY <2>1 DEF Matching, RowsInv, RowsDiffer, Apart
  <2>2. ASSUME NEW w \in Wechat, binding[w] # 0
        PROVE  Matching("sub", w) = {binding[w]}
    BY SMTT(30), <2>1, <2>2 DEF RowsInv
  <2>3. ASSUME NEW q \in Request,
               request[q].pc \in {"save", "lurusID", "bind", "wallet", "vip", "referrer", "edit"}
        PROVE  request[q].id # 0
    BY <2>3, HoldOf DEF Holding, Creating
  <2>4. ASSUME NEW q \in Request, request[q].pc \in {"bind", "lurusID"}, request[q].who \in Wechat
        PROVE  Matching("sub", request[q].who) = {request[q].id}
    BY <2>1, <2>4, HoldOf DEF HoldOK, Holding, Creating
  <2> QED
    BY <2>2, <2>3, <2>4 DEF CallsHoldRows
<1>2. ASSUME NEW i \in Identity
      PROVE  Cardinality(Resolved(i)) <= 1
  <2>1. CASE Resolved(i) = {}
    BY <2>1, FS_EmptySet
  <2>2. CASE Resolved(i) # {}
    <3>1. \A j, k \in Resolved(i) : j = k
      BY ResolvedIsOwned DEF ResolvedToOwn
    <3>2. PICK j : Resolved(i) = {j}
      BY <2>2, <3>1
    <3>3. Cardinality(Resolved(i)) = 1
      BY <3>2, FS_Singleton
    <3> QED
      BY <3>3
  <2> QED
    BY <2>1, <2>2
<1>3. AccountsComplete
  <2> SUFFICES ASSUME faults = 0, NEW i \in Identity \ Parallel, NEW id \in Matching("sub", i),
                      Working(id) = {}
               PROVE  /\ rows[id].lurusID
                      /\ id \in wallets \intersect vips
                      /\ i \in Wechat => binding[i] = id
    BY DEF AccountsComplete
  <2>1. id \in DOMAIN rows /\ Owner(rows[id]) = i
    BY AccountAssumption DEF Matching, RowsInv, OfOnePerson, Owner
  <2>2. Built(i, id)
    BY <2>1 DEF RowsAreBuilt, Alone, Working
  <2> QED
    BY <2>2 DEF Built
<1> QED
  BY <1>1, <1>2, <1>3 DEF AccountsInv

\* What an account is found by stays.
LEMMA RowsAreKept == AccountsIInv /\ [Next]_vars => Kept
<1> SUFFICES ASSUME AccountsIInv, [Next]_vars, rows' # rows
             PROVE  Kept
  BY DEF Kept
<1>1. ASSUME NEW q \in Request, SaveFound(q) \/ SetLurusID(q) \/ LinkReferrer(q) \/ SaveEdit(q)
      PROVE  Kept
  <2>1. request[q].pc \in Holding
    BY <1>1, SavesARow
  <2>2. PICK row, pc : MaySave(q, row, pc) /\ SaveRow(q, row, pc)
    BY <1>1, SavesARow
  <2>3. Clashes(row, request[q].id) = {} /\ rows' = [rows EXCEPT ![request[q].id] = row]
    BY <2>2 DEF SaveRow, Refused
  <2> QED
    BY <2>1, <2>2, <2>3, RowIsSaved DEF GoodRows
<1>2. ASSUME NEW q \in Request, Insert(q)
      PROVE  Kept
  <2>1. /\ request[q].pc \in Searching
        /\ rows' = Append(rows, request[q].copy)
    BY <1>2 DEF Insert, Refused, Searching
  <2>2. rows \in Seq(Account) /\ request[q].copy \in Account
    BY <2>1, TableOK, SearchOf
  <2>3. DOMAIN rows \subseteq DOMAIN rows' /\ \A j \in DOMAIN rows : rows'[j] = rows[j]
    BY <2>1, <2>2
  <2> QED
    BY <2>3 DEF Kept
<1> QED
  BY ZenonT(60), <1>1, <1>2
  DEF Next, vars, bootVars, Login, LoginByWechat, Register, Begin, LookupBySub, LookupByEmail,
      LookupBinding, CheckRegistration, CreateZitadelUser, BindWechat, CreateWallet, CreateVIP,
      ReadForEdit, CallFails

\* A person has one account at most, a WeChat binding leads to the account made
\* for it, and, when no call fails and the person's calls come one after the
\* other, the account is complete as soon as nobody works on it -- for any number
\* of persons and calls, with and without a Zitadel client.
THEOREM AccountsCorrect == Spec => []AccountsInv
BY AccountsInitially, AccountsStep, AccountsIInvImplies, PTL DEF Spec

\* Once a login of a person would arrive at an account, every later login does,
\* however registrations, logins and whole-row saves interleave and fail.
THEOREM OneAccount == Spec => OneAccountForGood
<1>0. (RowsInv => \A i \in Identity : ResolvedToOwn(i))'
  <2>1. RowsInv => \A i \in Identity : ResolvedToOwn(i)
    BY ResolvedIsOwned
  <2> QED
    BY <2>1, PTL
<1>1. AccountsIInv /\ [Next]_vars
        => [\A i \in Identity : Resolved(i) # {} => Resolved(i)' = Resolved(i)]_rows
  <2> SUFFICES ASSUME AccountsIInv, AccountsIInv', Kept, NEW i \in Identity, Resolved(i) # {}
               PROVE  Resolved(i)' = Resolved(i)
    BY AccountsStep, RowsAreKept
  <2>1. ResolvedToOwn(i)
    BY ResolvedIsOwned, TableOK
  <2>2. ResolvedToOwn(i)'
    BY <1>0 DEF AccountsIInv
  <2>3. RowsOf(i) \subseteq RowsOf(i)'
    BY DEF Kept, RowsOf, Owner
  <2> QED
    BY <2>1, <2>2, <2>3 DEF ResolvedToOwn
<1> QED
  BY <1>1, AccountsInitially, AccountsStep, PTL DEF Spec, OneAccountForGood

-----------------------------------------------------------------------------
(* Verification codes: the inductive invariant *)

Mailed == {c \in Code : sent[c] = Mail}
HasCode(r) == r.pc \in {"store", "storeBind", "send"}

\* A code on its way to an address is stored under no other, and is Zitadel's
\* only if it goes by mail; a newer one may have taken its place there.
OnItsWay(r) ==
    /\ r.pc = "storeBind" => r.to \in Phone
    /\ HasCode(r) =>
        /\ r.code \in Code /\ sent[r.code] = NoPhone
        /\ \A p \in Phone : bindCode[p] = r.code => p = r.to
        /\ \A a \in Address : resetCode[a] = r.code => a = r.to
        /\ accepted = r.code => r.to = Mail
        /\ r.to = Mail => accepted = 0 \/ r.code <= accepted

\* Somebody who enters a code has received one; a phone is bound only with the
\* code that went there.
Entered(r) ==
    /\ r.pc # "free" => r.code \in Received
    /\ r.pc \in {"bindKey", "bind", "cleanBind"} => r.at \in Phone
    /\ r.pc = "bind" => sent[r.code] = r.at

\* What is stored and what Zitadel accepts went where it belongs, or is on its way.
StoredRight ==
    /\ \A c \in Code : sent[c] # NoPhone => c <= issued
    /\ \A p \in Phone : bindCode[p] # 0 => sent[bindCode[p]] \in {p, NoPhone}
    /\ \A a \in Address : resetCode[a] # 0 => sent[resetCode[a]] \in {a, NoPhone}
    /\ accepted # 0 => sent[accepted] \in {Mail, NoPhone} /\ \A c \in Mailed : c <= accepted

\* As long as no request overlaps another or fails: which step the one under way
\* is at says how Redis and Zitadel differ from the last mail.
LastMailHolds ==
    \A c \in Mailed : (\A d \in Mailed : d <= c) =>
        IF c \in resets THEN resetCode[Mail] = 0 /\ accepted = 0
        ELSE resetCode[Mail] = c /\ accepted = c

Mailing(r) == r.pc \in {"store", "send"} /\ r.to = Mail

OneAtATime ==
    /\ \A q, s \in Asker : q # s => asker[q].pc = "free" \/ asker[s].pc = "free"
    /\ \A q, s \in Enterer : q # s => enterer[q].pc = "free" \/ enterer[s].pc = "free"
    /\ \A q \in Asker, s \in Enterer : asker[q].pc = "free" \/ enterer[s].pc = "free"

Untangled ==
    /\ OneAtATime
    /\ \A q \in Asker : Mailing(asker[q]) =>
        accepted = asker[q].code /\ (asker[q].pc = "send" => resetCode[Mail] = asker[q].code)
    /\ \A q \in Enterer :
        /\ enterer[q].pc = "set" => resetCode[enterer[q].at] = enterer[q].code
        /\ enterer[q].pc = "clean" =>
            /\ enterer[q].at = Mail /\ enterer[q].code \in resets /\ accepted = 0
            /\ \A c \in Mailed : c <= enterer[q].code
    /\ \/ \E q \in Asker : Mailing(asker[q])
       \/ \E q \in Enterer : enterer[q].pc = "clean"
       \/ LastMailHolds

CodesIInv ==
    /\ CodesTypeOK
    /\ PhoneIsProven
    /\ \A c \in resets : sent[c] = Mail /\ accepted \notin 1 .. c
    /\ StoredRight
    /\ \A q \in Asker : OnItsWay(asker[q])
    /\ \A q, s \in Asker :
        q # s /\ HasCode(asker[q]) /\ HasCode(asker[s]) => asker[q].code # asker[s].code
    /\ \A q \in Enterer : Entered(enterer[q])
    /\ ~tangled /\ codeFaults = 0 => Untangled

AskerRec(n) == [pc : {"free", "zitadel", "store", "storeBind", "send"}, to : Address, code : 0 .. n]
EntererRec(n) == [pc : {"free", "phoneKey", "mailKey", "set", "clean", "bindKey", "bind", "cleanBind"},
                  at : Address, code : 0 .. n]
AskerMoves(q, c) == asker' = [asker EXCEPT ![q] = c]
EntererMoves(q, c) == enterer' = [enterer EXCEPT ![q] = c]

LEMMA CodesInitially == CodesInit => CodesIInv
<1> SUFFICES ASSUME CodesInit
             PROVE  CodesIInv
  OBVIOUS
<1>1. /\ \A q \in Asker : asker[q] = FreeAsker
      /\ \A q \in Enterer : enterer[q] = FreeEnterer
      /\ \A c \in Code : sent[c] = NoPhone
      /\ phone = typed /\ hadPhone = {typed} /\ accepted = 0 /\ resets = {}
      /\ \A p \in Phone : bindCode[p] = 0
      /\ \A a \in Address : resetCode[a] = 0
  BY DEF CodesInit
<1>2. CodesTypeOK
  <2>1. FreeAsker \in AskerRec(issued) /\ FreeEnterer \in EntererRec(issued)
    BY CodesAssumption DEF CodesInit, FreeAsker, FreeEnterer, AskerRec, EntererRec, Address
  <2>2. asker \in [Asker -> AskerRec(issued)] /\ enterer \in [Enterer -> EntererRec(issued)]
    BY <2>1 DEF CodesInit
  <2>3. issued \in 0 .. MaxCodes /\ accepted \in 0 .. issued /\ codeFaults \in 0 .. MaxCodeFaults
    BY CodesAssumption DEF CodesInit
  <2>4. /\ resetCode \in [Address -> 0 .. issued] /\ bindCode \in [Phone -> 0 .. issued]
        /\ sent \in [Code -> Address \union {NoPhone}]
    BY <2>3 DEF CodesInit
  <2> QED
    BY <2>2, <2>3, <2>4 DEF CodesInit, CodesTypeOK, AskerRec, EntererRec
<1>3. Mailed = {}
  BY <1>1, CodesAssumption DEF Mailed
<1> QED
  BY <1>1, <1>2, <1>3
  DEF CodesIInv, PhoneIsProven, StoredRight, OnItsWay, HasCode, Entered, Untangled, OneAtATime,
      LastMailHolds, FreeAsker, FreeEnterer

-----------------------------------------------------------------------------
(* Verification codes: types *)

LEMMA CodesKeepTypes ==
    ASSUME CodesTypeOK, issued' \in {issued, issued + 1}, issued' <= MaxCodes,
           phone' \in hadPhone' \union {phone}, hadPhone' = hadPhone \/ hadPhone' \subseteq hadPhone \union Phone,
           typed' = typed, accepted' \in {0, accepted, issued'},
           \/ resetCode' = resetCode
           \/ \E a \in Address, n \in 0 .. issued' : resetCode' = [resetCode EXCEPT ![a] = n],
           \/ bindCode' = bindCode
           \/ \E p \in Phone, n \in 0 .. issued' : bindCode' = [bindCode EXCEPT ![p] = n],
           \/ sent' = sent
           \/ \E c \in Code, a \in Address : sent' = [sent EXCEPT ![c] = a],
           resets' \subseteq resets \union 1 .. issued',
           asker' = asker \/ \E q \in Asker, c \in AskerRec(issued') : AskerMoves(q, c),
           enterer' = enterer \/ \E q \in Enterer, c \in EntererRec(issued') : EntererMoves(q, c),
           codeFaults' = codeFaults \/ codeFaults' \in 0 .. MaxCodeFaults, tangled' \in BOOLEAN
    PROVE  CodesTypeOK'
<1>1. issued \in Nat /\ issued' \in Nat /\ MaxCodes \in Nat /\ issued <= issued'
  BY CodesAssumption DEF CodesTypeOK
<1>2. 0 .. issued \subseteq 0 .. issued' /\ 1 .. issued \subseteq 1 .. issued'
  BY <1>1
<1>3. AskerRec(issued) \subseteq AskerRec(issued') /\ EntererRec(issued) \subseteq EntererRec(issued')
  BY <1>2 DEF AskerRec, EntererRec
<1>4. asker' \in [Asker -> AskerRec(issued')]
  <2>1. asker \in [Asker -> AskerRec(issued')]
    BY <1>3 DEF CodesTypeOK, AskerRec
  <2> QED
    BY <2>1 DEF AskerMoves
<1>5. enterer' \in [Enterer -> EntererRec(issued')]
  <2>1. enterer \in [Enterer -> EntererRec(issued')]
    BY <1>3 DEF CodesTypeOK, EntererRec
  <2> QED
    BY <2>1 DEF EntererMoves
<1>6. resetCode' \in [Address -> 0 .. issued'] /\ bindCode' \in [Phone -> 0 .. issued']
  <2>1. resetCode \in [Address -> 0 .. issued'] /\ bindCode \in [Phone -> 0 .. issued']
    BY <1>2 DEF CodesTypeOK
  <2> QED
    BY <2>1
<1>7. /\ sent' \in [Code -> Address \union {NoPhone}] /\ resets' \subseteq 1 .. issued'
      /\ accepted' \in 0 .. issued' /\ issued' \in 0 .. MaxCodes
      /\ codeFaults' \in 0 .. MaxCodeFaults
      /\ {typed', phone'} \subseteq Phone \union {NoPhone} /\ hadPhone' \subseteq Phone \union {NoPhone}
  BY <1>1, <1>2 DEF CodesTypeOK
<1> QED
  BY <1>4, <1>5, <1>6, <1>7 DEF CodesTypeOK, AskerRec, EntererRec

LEMMA CodesTyped == CodesIInv /\ [CodesNext]_codesVars => CodesTypeOK'
<1> SUFFICES ASSUME CodesIInv, [CodesNext]_codesVars
             PROVE  CodesTypeOK'
  OBVIOUS
<1>0. CodesTypeOK /\ \A q \in Enterer : Entered(enterer[q])
  BY DEF CodesIInv
<1>1. /\ issued \in Nat /\ MaxCodes \in Nat /\ issued <= MaxCodes /\ accepted \in 0 .. issued
      /\ tangled \in BOOLEAN /\ phone \in Phone \union {NoPhone}
      /\ codeFaults < MaxCodeFaults => codeFaults + 1 \in 0 .. MaxCodeFaults
      /\ \A q \in Asker : asker[q] \in AskerRec(issued)
      /\ \A q \in Enterer : enterer[q] \in EntererRec(issued)
  BY <1>0, CodesAssumption DEF CodesTypeOK, AskerRec, EntererRec
<1>2. FreeAsker \in AskerRec(issued) /\ FreeEnterer \in EntererRec(issued)
  BY <1>1 DEF FreeAsker, FreeEnterer, AskerRec, EntererRec, Address
<1>3. ASSUME NEW q \in Asker, NEW pc \in {"zitadel", "send"}, AskerAt(q, pc)
      PROVE  \E c \in AskerRec(issued) : AskerMoves(q, c)
  <2>1. [asker[q] EXCEPT !.pc = pc] \in AskerRec(issued)
    BY <1>1 DEF AskerRec
  <2> QED
    BY <1>3, <2>1 DEF AskerAt, AskerMoves
<1>4. ASSUME NEW q \in Enterer, NEW pc \in {"bind", "clean", "cleanBind", "set"}, EntererAt(q, pc)
      PROVE  \E c \in EntererRec(issued) : EntererMoves(q, c)
  <2>1. [enterer[q] EXCEPT !.pc = pc] \in EntererRec(issued)
    BY <1>1 DEF EntererRec
  <2> QED
    BY <1>4, <2>1 DEF EntererAt, EntererMoves
<1>5. ASSUME NEW q \in Asker, ForgotPassword(q) \/ RequestPasswordReset(q)
                              \/ \E p \in Phone : SendPhoneCode(q, p)
      PROVE  CodesTypeOK'
  <2>1. issued' \in {issued, issued + 1} /\ issued' <= MaxCodes /\ accepted' \in {accepted, issued'}
    BY <1>1, <1>5 DEF ForgotPassword, RequestPasswordReset, SendPhoneCode
  <2>4. tangled' \in BOOLEAN
    <3>1. Starts \/ tangled' = tangled
      BY <1>5 DEF ForgotPassword, RequestPasswordReset, SendPhoneCode
    <3> QED
      BY <1>1, <3>1 DEF Starts, AllFree
  <2>2. ASSUME NEW pc \in {"store", "storeBind"}, NEW a \in Address, issued' = issued + 1
        PROVE  [pc |-> pc, to |-> a, code |-> issued + 1] \in AskerRec(issued')
    BY <1>1, <2>2 DEF AskerRec
  <2>3. \E c \in AskerRec(issued') : AskerMoves(q, c)
    BY <1>1, <1>3, <1>5, <2>2
    DEF ForgotPassword, RequestPasswordReset, SendPhoneCode, AskerMoves, Address
  <2> QED
    BY <1>0, <1>5, <2>1, <2>3, <2>4, CodesKeepTypes DEF rowVars, ForgotPassword, RequestPasswordReset, SendPhoneCode
<1>6. ASSUME NEW q \in Asker, StoreReset(q) \/ StoreBind(q)
      PROVE  CodesTypeOK'
  <2>1. asker[q].code \in 0 .. issued /\ asker[q].to \in Address
    BY <1>1 DEF AskerRec
  <2>2. asker[q].pc = "storeBind" => asker[q].to \in Phone
    BY DEF CodesIInv, OnItsWay
  <2>3. \E c \in AskerRec(issued) : AskerMoves(q, c)
    BY <1>3, <1>6 DEF StoreReset, StoreBind
  <2>4. \/ resetCode' = resetCode
        \/ \E a \in Address, n \in 0 .. issued : resetCode' = [resetCode EXCEPT ![a] = n]
    BY <1>6, <2>1 DEF StoreReset, StoreBind
  <2>5. \/ bindCode' = bindCode
        \/ \E p \in Phone, n \in 0 .. issued : bindCode' = [bindCode EXCEPT ![p] = n]
    BY <1>6, <2>1, <2>2 DEF StoreReset, StoreBind
  <2> QED
    BY <1>0, <1>1, <1>6, <2>3, <2>4, <2>5, CodesKeepTypes DEF rowVars, StoreReset, StoreBind
<1>7. ASSUME NEW q \in Asker, SendCode(q) \/ AskingFails(q)
      PROVE  CodesTypeOK'
  <2>1. asker[q].pc = "send" => asker[q].code \in Code /\ asker[q].to \in Address
    BY <1>1 DEF CodesIInv, OnItsWay, HasCode, AskerRec
  <2>2. AskerMoves(q, FreeAsker)
    BY <1>7 DEF SendCode, AskingFails, AskerDone, AskerMoves
  <2>3. \/ sent' = sent
        \/ \E c \in Code, a \in Address : sent' = [sent EXCEPT ![c] = a]
    BY <1>7, <2>1 DEF SendCode, AskingFails
  <2> QED
    BY <1>0, <1>1, <1>2, <1>7, <2>2, <2>3, CodesKeepTypes DEF rowVars, SendCode, AskingFails
<1>8. ASSUME NEW q \in Enterer, ResetPassword(q) \/ \E p \in Phone : VerifyPhone(q, p)
      PROVE  CodesTypeOK'
  <2>1. Received \subseteq 0 .. issued
    BY <1>1, CodesAssumption DEF CodesIInv, StoredRight, Received, Code
  <2>2. ASSUME NEW pc \in {"phoneKey", "mailKey", "bindKey"}, NEW a \in Address, NEW c \in Received
        PROVE  [pc |-> pc, at |-> a, code |-> c] \in EntererRec(issued)
    BY <1>1, <2>1 DEF EntererRec
  <2>3. \E c \in EntererRec(issued) : EntererMoves(q, c)
    BY <1>1, <1>8, <2>2 DEF ResetPassword, VerifyPhone, EntererMoves, Address
  <2> QED
    BY <1>0, <1>1, <1>8, <2>3, CodesKeepTypes DEF rowVars, ResetPassword, VerifyPhone, Starts
<1>9. ASSUME NEW q \in Enterer, ReadResetKey(q) \/ EnteringFails(q)
      PROVE  CodesTypeOK'
  <2>1. /\ [enterer[q] EXCEPT !.pc = "set"] \in EntererRec(issued)
        /\ [enterer[q] EXCEPT !.pc = "mailKey", !.at = Mail] \in EntererRec(issued)
    BY <1>1 DEF EntererRec, Address
  <2>2. \E c \in EntererRec(issued) : EntererMoves(q, c)
    <3>1. \/ EntererMoves(q, [enterer[q] EXCEPT !.pc = "set"])
          \/ EntererMoves(q, [enterer[q] EXCEPT !.pc = "mailKey", !.at = Mail])
          \/ EntererMoves(q, FreeEnterer)
      BY <1>9 DEF ReadResetKey, EnteringFails, EntererDone, EntererMoves
    <3> QED
      BY <1>2, <2>1, <3>1
  <2> QED
    BY <1>0, <1>1, <1>9, <2>2, CodesKeepTypes DEF rowVars, ReadResetKey, EnteringFails
<1>10. ASSUME NEW q \in Enterer, SetNewPassword(q)
       PROVE  CodesTypeOK'
  <2>1. enterer[q].code \in 1 .. issued
    BY <1>1, <1>10 DEF CodesIInv, Entered, Received, Code, EntererRec, SetNewPassword
  <2>2. \E c \in EntererRec(issued) : EntererMoves(q, c)
    BY <1>2, <1>4, <1>10 DEF SetNewPassword, EntererDone, EntererMoves
  <2> QED
    BY <1>0, <1>1, <1>10, <2>1, <2>2, CodesKeepTypes DEF rowVars, SetNewPassword
<1>11. ASSUME NEW q \in Enterer, CleanReset(q) \/ CleanBind(q)
       PROVE  CodesTypeOK'
  <2>1. EntererMoves(q, FreeEnterer)
    BY <1>11 DEF CleanReset, CleanBind, EntererDone, EntererMoves
  <2>2. enterer[q].at \in Address /\ (enterer[q].pc = "cleanBind" => enterer[q].at \in Phone)
    BY <1>0, <1>1 DEF Entered, EntererRec
  <2> QED
    BY <1>0, <1>1, <1>2, <1>11, <2>1, <2>2, CodesKeepTypes DEF rowVars, CleanReset, CleanBind
<1>12. ASSUME NEW q \in Enterer, ReadBindKey(q) \/ BindPhone(q)
       PROVE  CodesTypeOK'
  <2>1. \E c \in EntererRec(issued) : EntererMoves(q, c)
    BY <1>2, <1>4, <1>12 DEF ReadBindKey, BindPhone, EntererDone, EntererMoves
  <2>2. /\ phone' \in hadPhone' \union {phone}
        /\ hadPhone' = hadPhone \/ hadPhone' \subseteq hadPhone \union Phone
    BY <1>0, <1>12 DEF ReadBindKey, BindPhone, Entered, rowVars
  <2> QED
    BY <1>0, <1>1, <1>12, <2>1, <2>2, CodesKeepTypes DEF ReadBindKey, BindPhone, rowVars
<1>13. CASE CodeExpires
  <2>1. \/ resetCode' = resetCode
        \/ \E a \in Address, n \in 0 .. issued : resetCode' = [resetCode EXCEPT ![a] = n]
    BY <1>1, <1>13 DEF CodeExpires
  <2>2. \/ bindCode' = bindCode
        \/ \E p \in Phone, n \in 0 .. issued : bindCode' = [bindCode EXCEPT ![p] = n]
    BY <1>1, <1>13 DEF CodeExpires
  <2> QED
    BY <1>0, <1>1, <1>13, <2>1, <2>2, CodesKeepTypes DEF rowVars, CodeExpires
<1>15. ASSUME NEW p \in Phone \union {NoPhone}, SaveOldCopy(p)
       PROVE  CodesTypeOK'
  BY <1>0, <1>1, <1>15, CodesKeepTypes DEF SaveOldCopy
<1>14. CASE UNCHANGED codesVars
  BY <1>0, <1>14 DEF codesVars, CodesTypeOK
<1> QED
  BY <1>5, <1>6, <1>7, <1>8, <1>9, <1>10, <1>11, <1>12, <1>13, <1>14, <1>15 DEF CodesNext

LEMMA CodesStored ==
    CodesIInv /\ [CodesNext]_codesVars =>
        /\ PhoneIsProven' /\ StoredRight'
        /\ \A c \in resets' : sent'[c] = Mail /\ accepted' \notin 1 .. c
<1> SUFFICES ASSUME CodesIInv, [CodesNext]_codesVars
             PROVE  /\ PhoneIsProven' /\ StoredRight'
                    /\ \A c \in resets' : sent'[c] = Mail /\ accepted' \notin 1 .. c
  OBVIOUS
<1> DEFINE Goal == /\ PhoneIsProven' /\ StoredRight'
                   /\ \A c \in resets' : sent'[c] = Mail /\ accepted' \notin 1 .. c
<1> USE DEF Address, PhoneIsProven, StoredRight, Mailed, rowVars
<1>0. /\ PhoneIsProven /\ StoredRight
      /\ issued \in Nat /\ accepted \in 0 .. issued /\ resets \subseteq 1 .. issued
      /\ Mail \notin Phone /\ NoPhone \notin Phone /\ NoPhone # Mail
      /\ resetCode \in [Phone \union {Mail} -> 0 .. issued] /\ bindCode \in [Phone -> 0 .. issued]
      /\ Code \subseteq Nat /\ sent \in [Code -> Phone \union {Mail, NoPhone}]
      /\ 1 .. issued \subseteq Code /\ 0 \notin Code /\ (issued < MaxCodes => issued + 1 \in Code)
      /\ \A q \in Asker : asker[q].code \in 0 .. issued
      /\ \A q \in Enterer : enterer[q].at \in Phone \union {Mail}
      /\ \A c \in resets : sent[c] = Mail /\ accepted \notin 1 .. c
      /\ \A q \in Asker : OnItsWay(asker[q])
      /\ \A q \in Enterer : Entered(enterer[q])
  BY CodesAssumption DEF CodesIInv, CodesTypeOK, Code
<1>1. ASSUME NEW q \in Asker, ForgotPassword(q)
      PROVE  Goal
  <2>1. /\ issued' \in {issued, issued + 1}
        /\ UNCHANGED <<typed, phone, hadPhone, accepted, sent, resets, resetCode, bindCode>>
    BY <1>1 DEF ForgotPassword
  <2>2. \A c \in Code : sent[c] # NoPhone => c <= issued'
    BY <1>0, <2>1
  <2>3. PhoneIsProven'
    BY <1>0, <2>1
  <2>4. StoredRight'
    BY <1>0, <2>1, <2>2
  <2> QED
    BY <1>0, <2>1, <2>3, <2>4
<1>2. ASSUME NEW q \in Asker, RequestPasswordReset(q)
      PROVE  Goal
  <2>1. /\ issued' = issued + 1 /\ accepted' = issued + 1 /\ issued + 1 \in Code
        /\ UNCHANGED <<typed, phone, hadPhone, sent, resets, resetCode, bindCode>>
    BY <1>0, <1>2 DEF RequestPasswordReset
  <2>2. sent[issued + 1] = NoPhone
    BY <1>0, <2>1
  <2>3. \A c \in resets : issued + 1 \notin 1 .. c
    BY <1>0
  <2>4. \A c \in Code : sent[c] # NoPhone => c <= issued + 1
    BY <1>0
  <2>5. PhoneIsProven'
    BY <1>0, <2>1
  <2>6. StoredRight'
    BY <1>0, <2>1, <2>2, <2>4
  <2> QED
    BY <1>0, <2>1, <2>3, <2>5, <2>6
<1>3. ASSUME NEW q \in Asker, StoreReset(q)
      PROVE  Goal
  BY <1>0, <1>3 DEF StoreReset, OnItsWay, HasCode
<1>4. ASSUME NEW q \in Asker, NEW p \in Phone, SendPhoneCode(q, p)
      PROVE  Goal
  BY <1>0, <1>4 DEF SendPhoneCode
<1>5. ASSUME NEW q \in Asker, StoreBind(q)
      PROVE  Goal
  BY <1>0, <1>5 DEF StoreBind, OnItsWay, HasCode
<1>6. ASSUME NEW q \in Asker, SendCode(q)
      PROVE  Goal
  BY <1>0, <1>6 DEF SendCode, OnItsWay, HasCode
<1>7. ASSUME NEW q \in Asker, AskingFails(q)
      PROVE  Goal
  BY <1>0, <1>7 DEF AskingFails
<1>8. ASSUME NEW q \in Enterer, ResetPassword(q) \/ ReadResetKey(q) \/ ReadBindKey(q) \/ EnteringFails(q)
      PROVE  Goal
  BY <1>0, <1>8 DEF ResetPassword, ReadResetKey, ReadBindKey, EnteringFails
<1>9. ASSUME NEW q \in Enterer, SetNewPassword(q)
      PROVE  Goal
  <2>1. UNCHANGED <<typed, phone, hadPhone, issued, resetCode, bindCode, sent>>
    BY <1>9 DEF SetNewPassword
  <2>2. CASE UNCHANGED <<accepted, resets>>
    BY <1>0, <2>1, <2>2
  <2>3. CASE accepted = enterer[q].code /\ accepted' = 0 /\ resets' = resets \union {enterer[q].code}
    <3>1. accepted \in Code /\ sent[accepted] # NoPhone
      BY <1>0, <1>9, <2>3 DEF SetNewPassword, Entered, Received
    <3>2. sent[accepted] = Mail
      BY <1>0, <3>1
    <3>3. \A c \in resets' : sent'[c] = Mail /\ accepted' \notin 1 .. c
      <4>1. resets' \subseteq Nat
        BY <1>0, <2>3, <3>1
      <4>3. \A c \in Nat : 0 \notin 1 .. c
        OBVIOUS
      <4>2. \A c \in resets' : sent[c] = Mail
        BY <1>0, <2>3, <3>2
      <4> QED
        BY <2>1, <2>3, <4>1, <4>2, <4>3
    <3> QED
      BY <1>0, <2>1, <2>3, <3>3
  <2> QED
    BY <1>9, <2>2, <2>3 DEF SetNewPassword
<1>10. ASSUME NEW q \in Enterer, CleanReset(q) \/ CleanBind(q)
       PROVE  Goal
  <2>1. UNCHANGED <<typed, phone, hadPhone, issued, accepted, sent, resets>>
    BY <1>10 DEF CleanReset, CleanBind
  <2>2. enterer[q].at \in Phone \union {Mail} /\ (enterer[q].pc = "cleanBind" => enterer[q].at \in Phone)
    BY <1>0 DEF Entered
  <2>3. /\ \A p \in Phone : bindCode'[p] \in {0, bindCode[p]}
        /\ \A a \in Phone \union {Mail} : resetCode'[a] \in {0, resetCode[a]}
    BY <1>0, <1>10, <2>2 DEF CleanReset, CleanBind
  <2> QED
    BY <1>0, <2>1, <2>3
<1>11. ASSUME NEW q \in Enterer, NEW p \in Phone, VerifyPhone(q, p)
       PROVE  Goal
  BY <1>0, <1>11 DEF VerifyPhone
<1>12. ASSUME NEW q \in Enterer, BindPhone(q)
       PROVE  Goal
  <2>1. /\ phone' = enterer[q].at /\ hadPhone' = hadPhone \union {phone'}
        /\ UNCHANGED <<typed, issued, accepted, sent, resets, resetCode, bindCode>>
    BY <1>12 DEF BindPhone
  <2>2. /\ enterer[q].code \in Code
        /\ sent[enterer[q].code] = enterer[q].at
    BY <1>0, <1>12 DEF BindPhone, Entered, Received
  <2>3. PhoneIsProven'
    BY <1>0, <2>1, <2>2
  <2>4. StoredRight'
    BY <1>0, <2>1
  <2> QED
    BY <1>0, <2>1, <2>3, <2>4
<1>13. CASE CodeExpires
  <2>1. UNCHANGED <<typed, phone, hadPhone, issued, sent, resets>> /\ accepted' \in {0, accepted}
    BY <1>13 DEF CodeExpires
  <2>2. /\ \A p \in Phone : bindCode'[p] \in {0, bindCode[p]}
        /\ \A a \in Phone \union {Mail} : resetCode'[a] \in {0, resetCode[a]}
    BY <1>0, <1>13 DEF CodeExpires
  <2>3. \A c \in resets : 0 \notin 1 .. c /\ accepted' \notin 1 .. c
    <3>1. resets \subseteq Nat /\ \A c \in Nat : 0 \notin 1 .. c
      BY <1>0
    <3> QED
      BY <1>0, <2>1, <3>1
  <2>4. PhoneIsProven'
    BY <1>0, <2>1
  <2>5. StoredRight'
    BY <1>0, <2>1, <2>2
  <2> QED
    BY <1>0, <2>1, <2>3, <2>4, <2>5
<1>15. ASSUME NEW p \in Phone \union {NoPhone}, SaveOldCopy(p)
       PROVE  Goal
  BY <1>0, <1>15 DEF SaveOldCopy
<1>14. CASE UNCHANGED codesVars
  BY <1>0, <1>14 DEF codesVars
<1> QED
  BY <1>1, <1>2, <1>3, <1>4, <1>5, <1>7, <1>8, <1>9, <1>10, <1>11, <1>12, <1>13, <1>14, <1>15, <1>6
  DEF CodesNext

-----------------------------------------------------------------------------
(* Verification codes: codes on their way *)

\* What a step may not do to a code that somebody holds, or has received.
LeavesCode(n) ==
    /\ sent'[n] = sent[n]
    /\ \A p \in Phone : bindCode'[p] = n => bindCode[p] = n
    /\ \A a \in Address : resetCode'[a] = n => resetCode[a] = n
    /\ accepted' \in {0, accepted} \/ (accepted' \in Nat /\ n < accepted')

LEMMA OthersOnTheirWay ==
    ASSUME CodesIInv, NEW Q \in SUBSET Asker, \A q \in Q : asker'[q] = asker[q],
           \A q \in Q : HasCode(asker[q]) => LeavesCode(asker[q].code)
    PROVE  \A q \in Q : OnItsWay(asker[q])'
<1> SUFFICES ASSUME NEW q \in Q
             PROVE  OnItsWay(asker[q])'
  OBVIOUS
<1>1. PICK r : r = asker[q]
  OBVIOUS
<1>2. asker'[q] = r /\ OnItsWay(r) /\ (HasCode(r) => LeavesCode(r.code))
  BY <1>1 DEF CodesIInv
<1>3. HasCode(r) => r.code \in Nat /\ r.code # 0 /\ accepted \in Nat
  BY <1>2, CodesAssumption DEF OnItsWay, Code, CodesIInv, CodesTypeOK
<1> QED
  BY <1>2, <1>3 DEF OnItsWay, HasCode, LeavesCode

LEMMA CodesCarried ==
    CodesIInv /\ [CodesNext]_codesVars =>
        /\ \A q \in Asker : OnItsWay(asker[q])'
        /\ \A q, s \in Asker :
            q # s /\ HasCode(asker'[q]) /\ HasCode(asker'[s]) => asker'[q].code # asker'[s].code
<1> SUFFICES ASSUME CodesIInv, [CodesNext]_codesVars
             PROVE  /\ \A q \in Asker : OnItsWay(asker[q])'
                    /\ \A q, s \in Asker :
                        q # s /\ HasCode(asker'[q]) /\ HasCode(asker'[s])
                            => asker'[q].code # asker'[s].code
  OBVIOUS
<1> DEFINE CodesApart == \A q, s \in Asker :
                        q # s /\ HasCode(asker'[q]) /\ HasCode(asker'[s])
                            => asker'[q].code # asker'[s].code
<1>1. /\ issued \in Nat /\ accepted \in 0 .. issued /\ (issued < MaxCodes => issued + 1 \in Code)
      /\ \A p \in Phone : bindCode[p] \in 0 .. issued
      /\ \A a \in Address : resetCode[a] \in 0 .. issued
      /\ \A c \in Code : sent[c] # NoPhone => c <= issued
      /\ DOMAIN asker = Asker /\ \A q \in Asker : asker[q].code \in 0 .. issued /\ asker[q].to \in Address
      /\ bindCode \in [Phone -> Nat] /\ resetCode \in [Address -> Nat] /\ DOMAIN sent = Code
  BY CodesAssumption DEF CodesIInv, CodesTypeOK, Code, StoredRight
<1>2. /\ \A q \in Asker : OnItsWay(asker[q])
      /\ \A q, s \in Asker :
            q # s /\ HasCode(asker[q]) /\ HasCode(asker[s]) => asker[q].code # asker[s].code
  BY DEF CodesIInv
<1>3. \A q \in Asker : HasCode(asker[q]) => asker[q].code \in Code /\ sent[asker[q].code] = NoPhone
  BY <1>2 DEF OnItsWay
<1>4. ~ HasCode(FreeAsker) /\ FreeAsker.pc # "storeBind"
  BY DEF HasCode, FreeAsker
<1>5. ASSUME NEW q \in Asker, NEW c, AskerMoves(q, c),
             HasCode(c) => c.code = issued + 1 \/ (HasCode(asker[q]) /\ c.code = asker[q].code)
      PROVE  CodesApart
  <2>1. asker'[q] = c /\ \A s \in Asker \ {q} : asker'[s] = asker[s]
    BY <1>1, <1>5 DEF AskerMoves
  <2>2. \A s \in Asker : asker[s].code # issued + 1
    BY <1>1
  <2>3. ASSUME NEW s \in Asker, s # q, HasCode(c), HasCode(asker[s])
        PROVE  c.code # asker[s].code
    BY <1>2, <1>5, <2>2, <2>3
  <2> QED
    BY <1>2, <2>1, <2>3
<1>6. ASSUME NEW q \in Asker, NEW c, AskerMoves(q, c), c.pc = "zitadel" \/ c = FreeAsker,
             \A s \in Asker \ {q} : HasCode(asker[s]) => LeavesCode(asker[s].code)
      PROVE  (\A s \in Asker : OnItsWay(asker[s])') /\ CodesApart
  <2>1. asker'[q] = c /\ \A s \in Asker \ {q} : asker'[s] = asker[s]
    BY <1>1, <1>6 DEF AskerMoves
  <2>2. \A s \in Asker \ {q} : OnItsWay(asker[s])'
    BY <1>6, <2>1, OthersOnTheirWay
  <2>3. OnItsWay(asker[q])'
    BY <1>4, <1>6, <2>1 DEF OnItsWay, HasCode
  <2> QED
    BY <1>4, <1>5, <1>6, <2>2, <2>3 DEF HasCode
<1>7. ASSUME NEW q \in Asker, NEW pc \in {"store", "storeBind"}, NEW to \in Address,
             pc = "storeBind" => to \in Phone, issued < MaxCodes,
             asker' = [asker EXCEPT ![q] = [pc |-> pc, to |-> to, code |-> issued + 1]],
             UNCHANGED <<resetCode, bindCode, sent>>,
             \/ to # Mail /\ accepted' = accepted
             \/ to = Mail /\ accepted' = issued + 1
      PROVE  (\A s \in Asker : OnItsWay(asker[s])') /\ CodesApart
  <2>1. PICK c : c = [pc |-> pc, to |-> to, code |-> issued + 1]
    OBVIOUS
  <2>2. AskerMoves(q, c) /\ c.code = issued + 1 /\ c.pc = pc /\ c.to = to
    BY <1>7, <2>1 DEF AskerMoves
  <2>3. asker'[q] = c /\ \A s \in Asker \ {q} : asker'[s] = asker[s]
    BY <1>1, <2>2 DEF AskerMoves
  <2>4. \A s \in Asker \ {q} : HasCode(asker[s]) => LeavesCode(asker[s].code)
    BY <1>1, <1>7 DEF LeavesCode
  <2>5. \A s \in Asker \ {q} : OnItsWay(asker[s])'
    BY <2>3, <2>4, OthersOnTheirWay
  <2>6. OnItsWay(asker[q])'
    <3>1. sent[issued + 1] = NoPhone /\ issued + 1 \in Code
      BY <1>1, <1>7
    <3>2. /\ \A p \in Phone : bindCode[p] # issued + 1
          /\ \A a \in Address : resetCode[a] # issued + 1
          /\ accepted # issued + 1
      BY <1>1
    <3> QED
      BY <1>1, <1>7, <2>2, <2>3, <3>1, <3>2 DEF OnItsWay, HasCode
  <2> QED
    BY <1>5, <2>2, <2>5, <2>6
<1>8. ASSUME NEW q \in Asker, ForgotPassword(q)
      PROVE  (\A s \in Asker : OnItsWay(asker[s])') /\ CodesApart
  <2>1. CASE SMS /\ phone # NoPhone
    <3>1. phone \in Phone /\ phone \in Address /\ phone # Mail
      BY <2>1, CodesAssumption DEF CodesIInv, CodesTypeOK, Address
    <3> QED
      BY <1>7, <1>8, <2>1, <3>1 DEF ForgotPassword
  <2>2. CASE ~ (SMS /\ phone # NoPhone)
    <3>1. PICK c : c = [asker[q] EXCEPT !.pc = "zitadel"]
      OBVIOUS
    <3>2. AskerMoves(q, c) /\ c.pc = "zitadel"
      BY <1>8, <2>2, <3>1 DEF ForgotPassword, AskerAt, AskerMoves, CodesIInv, CodesTypeOK
    <3>3. \A s \in Asker \ {q} : HasCode(asker[s]) => LeavesCode(asker[s].code)
      BY <1>8 DEF ForgotPassword, LeavesCode
    <3> QED
      BY <1>6, <3>2, <3>3
  <2> QED
    BY <2>1, <2>2
<1>9. ASSUME NEW q \in Asker, RequestPasswordReset(q) \/ \E p \in Phone : SendPhoneCode(q, p)
      PROVE  (\A s \in Asker : OnItsWay(asker[s])') /\ CodesApart
  BY <1>7, <1>9, CodesAssumption DEF RequestPasswordReset, SendPhoneCode, Address
<1>10. ASSUME NEW q \in Asker, StoreReset(q) \/ StoreBind(q)
       PROVE  (\A s \in Asker : OnItsWay(asker[s])') /\ CodesApart
  <2>1. PICK c : c = [asker[q] EXCEPT !.pc = "send"]
    OBVIOUS
  <2>2. /\ AskerMoves(q, c) /\ c.pc = "send" /\ c.code = asker[q].code /\ c.to = asker[q].to
        /\ HasCode(asker[q]) /\ c.to \in Address
    BY <1>1, <1>10, <2>1
    DEF StoreReset, StoreBind, AskerAt, AskerMoves, CodesIInv, CodesTypeOK, HasCode
  <2>3. asker'[q] = c /\ \A s \in Asker \ {q} : asker'[s] = asker[s]
    BY <1>1, <2>2 DEF AskerMoves
  <2>4. /\ UNCHANGED <<sent, accepted>>
        /\ \A a \in Address : resetCode'[a] = resetCode[a] \/ (a = c.to /\ resetCode'[a] = c.code)
        /\ \A p \in Phone : bindCode'[p] = bindCode[p] \/ (p = c.to /\ bindCode'[p] = c.code)
    BY <1>1, <1>10, <2>2 DEF StoreReset, StoreBind
  <2>5. \A s \in Asker \ {q} : HasCode(asker[s]) => LeavesCode(asker[s].code)
    BY <1>2, <2>2, <2>4 DEF LeavesCode
  <2>6. \A s \in Asker \ {q} : OnItsWay(asker[s])'
    BY <2>3, <2>5, OthersOnTheirWay
  <2>7. OnItsWay(asker[q])'
    <3>1. /\ c.code \in Code /\ sent[c.code] = NoPhone
          /\ \A p \in Phone : bindCode[p] = c.code => p = c.to
          /\ \A a \in Address : resetCode[a] = c.code => a = c.to
          /\ accepted = c.code => c.to = Mail
          /\ c.to = Mail => accepted = 0 \/ c.code <= accepted
      BY <1>2, <2>2 DEF OnItsWay
    <3> QED
      BY <2>2, <2>3, <2>4, <3>1 DEF OnItsWay, HasCode
  <2> QED
    BY <1>5, <2>2, <2>6, <2>7
<1>11. ASSUME NEW q \in Asker, SendCode(q) \/ AskingFails(q)
       PROVE  (\A s \in Asker : OnItsWay(asker[s])') /\ CodesApart
  <2>1. AskerMoves(q, FreeAsker)
    BY <1>11 DEF SendCode, AskingFails, AskerDone, AskerMoves
  <2>2. /\ UNCHANGED <<resetCode, bindCode, accepted>>
        /\ sent' = sent \/ (HasCode(asker[q]) /\ sent' = [sent EXCEPT ![asker[q].code] = asker[q].to])
    BY <1>11 DEF SendCode, AskingFails, HasCode
  <2>3. \A s \in Asker \ {q} : HasCode(asker[s]) => LeavesCode(asker[s].code)
    BY <1>1, <1>2, <1>3, <2>2 DEF LeavesCode
  <2> QED
    BY <1>6, <2>1, <2>3
<1>12. ASSUME asker' = asker, sent' = sent, accepted' \in {0, accepted},
              \A p \in Phone : bindCode'[p] \in {0, bindCode[p]},
              \A a \in Address : resetCode'[a] \in {0, resetCode[a]}
       PROVE  (\A s \in Asker : OnItsWay(asker[s])') /\ CodesApart
  <2>1. \A q \in Asker : HasCode(asker[q]) => asker[q].code # 0
    BY <1>3, CodesAssumption DEF Code
  <2>2. \A q \in Asker : HasCode(asker[q]) => LeavesCode(asker[q].code)
    BY <1>12, <2>1 DEF LeavesCode
  <2>3. \A q \in Asker : OnItsWay(asker[q])'
    BY <1>12, <2>2, OthersOnTheirWay
  <2> QED
    BY <1>2, <1>12, <2>3
<1>13. ASSUME NEW q \in Enterer,
              \/ ResetPassword(q) \/ ReadResetKey(q) \/ SetNewPassword(q) \/ CleanReset(q)
              \/ \E p \in Phone : VerifyPhone(q, p)
              \/ ReadBindKey(q) \/ BindPhone(q) \/ CleanBind(q) \/ EnteringFails(q)
       PROVE  (\A s \in Asker : OnItsWay(asker[s])') /\ CodesApart
  <2>1. asker' = asker /\ sent' = sent /\ accepted' \in {0, accepted}
    BY <1>13
    DEF ResetPassword, ReadResetKey, SetNewPassword, CleanReset, VerifyPhone, ReadBindKey,
        BindPhone, CleanBind, EnteringFails
  <2>2. \A p \in Phone : bindCode'[p] \in {0, bindCode[p]}
    BY <1>1, <1>13
    DEF ResetPassword, ReadResetKey, SetNewPassword, CleanReset, VerifyPhone, ReadBindKey,
        BindPhone, CleanBind, EnteringFails
  <2>3. \A a \in Address : resetCode'[a] \in {0, resetCode[a]}
    BY <1>1, <1>13
    DEF ResetPassword, ReadResetKey, SetNewPassword, CleanReset, VerifyPhone, ReadBindKey,
        BindPhone, CleanBind, EnteringFails
  <2> QED
    BY <1>12, <2>1, <2>2, <2>3
<1>14. CASE CodeExpires
  BY <1>1, <1>12, <1>14 DEF CodeExpires
<1>15. ASSUME NEW p \in Phone \union {NoPhone}, SaveOldCopy(p)
       PROVE  (\A s \in Asker : OnItsWay(asker[s])') /\ CodesApart
  BY <1>1, <1>12, <1>15 DEF SaveOldCopy
<1>16. CASE UNCHANGED codesVars
  BY <1>1, <1>12, <1>16 DEF codesVars
<1> QED
  BY <1>8, <1>9, <1>10, <1>11, <1>13, <1>14, <1>15, <1>16 DEF CodesNext

-----------------------------------------------------------------------------
(* Verification codes: what is entered *)

LEMMA CodesEntered ==
    CodesIInv /\ [CodesNext]_codesVars => \A q \in Enterer : Entered(enterer[q])'
<1> SUFFICES ASSUME CodesIInv, [CodesNext]_codesVars
             PROVE  \A q \in Enterer : Entered(enterer[q])'
  OBVIOUS
<1>1. /\ \A q \in Enterer : Entered(enterer[q])
      /\ \A q \in Asker : OnItsWay(asker[q])
      /\ \A p \in Phone : bindCode[p] # 0 => sent[bindCode[p]] \in {p, NoPhone}
      /\ Mail \notin Phone /\ NoPhone \notin Phone /\ 0 \notin Code
      /\ DOMAIN enterer = Enterer /\ DOMAIN sent = Code
  BY CodesAssumption DEF CodesIInv, CodesTypeOK, StoredRight, Code
<1>2. ~ FreeEnterer.pc # "free" /\ FreeEnterer.pc \notin {"bindKey", "bind", "cleanBind"}
  BY DEF FreeEnterer
<1>3. ASSUME NEW q \in Enterer, NEW c, EntererMoves(q, c), sent' = sent, Entered(c)
      PROVE  \A e \in Enterer : Entered(enterer[e])'
  <2>1. enterer'[q] = c /\ \A e \in Enterer \ {q} : enterer'[e] = enterer[e]
    BY <1>1, <1>3 DEF EntererMoves
  <2>2. \A e \in Enterer : Entered(enterer'[e])
    BY <1>1, <1>3, <2>1
  <2> QED
    BY <1>3, <2>2 DEF Entered, Received
<1>4. Entered(FreeEnterer)
  BY <1>2 DEF Entered
<1>5. ASSUME enterer' = enterer, \A c \in Code : sent[c] # NoPhone => sent'[c] = sent[c]
      PROVE  \A e \in Enterer : Entered(enterer[e])'
  BY <1>1, <1>5 DEF Entered, Received
<1>6. ASSUME NEW q \in Asker,
             \/ ForgotPassword(q) \/ RequestPasswordReset(q) \/ StoreReset(q) \/ StoreBind(q)
             \/ \E p \in Phone : SendPhoneCode(q, p)
             \/ SendCode(q) \/ AskingFails(q)
      PROVE  \A e \in Enterer : Entered(enterer[e])'
  <2>1. enterer' = enterer
    BY <1>6
    DEF ForgotPassword, RequestPasswordReset, StoreReset, StoreBind, SendPhoneCode, SendCode,
        AskingFails
  <2>2. \/ sent' = sent
        \/ /\ sent' = [sent EXCEPT ![asker[q].code] = asker[q].to]
           /\ sent[asker[q].code] = NoPhone
    BY <1>1, <1>6
    DEF ForgotPassword, RequestPasswordReset, StoreReset, StoreBind, SendPhoneCode, SendCode,
        AskingFails, OnItsWay, HasCode
  <2>3. \A c \in Code : sent[c] # NoPhone => sent'[c] = sent[c]
    BY <1>1, <2>2
  <2> QED
    BY <1>5, <2>1, <2>3
<1>7. ASSUME NEW q \in Enterer, ResetPassword(q) \/ \E p \in Phone : VerifyPhone(q, p)
      PROVE  \A e \in Enterer : Entered(enterer[e])'
  <2>1. ASSUME NEW pc \in {"phoneKey", "mailKey", "bindKey"}, NEW a, NEW c \in Received,
               pc = "bindKey" => a \in Phone
        PROVE  Entered([pc |-> pc, at |-> a, code |-> c])
    BY <2>1 DEF Entered
  <2>2. \E c : EntererMoves(q, c) /\ Entered(c)
    BY <1>7, <2>1 DEF ResetPassword, VerifyPhone, EntererMoves
  <2> QED
    BY <1>3, <1>7, <2>2 DEF ResetPassword, VerifyPhone
<1>8. ASSUME NEW q \in Enterer, ReadResetKey(q) \/ EnteringFails(q) \/ SetNewPassword(q)
      PROVE  \A e \in Enterer : Entered(enterer[e])'
  <2>1. PICK r : r = enterer[q]
    OBVIOUS
  <2>2. /\ r.pc # "free" => Entered([r EXCEPT !.pc = "set"]) /\ Entered([r EXCEPT !.pc = "clean"])
        /\ r.pc # "free" => Entered([r EXCEPT !.pc = "mailKey", !.at = Mail])
    <3>1. r.pc # "free" => r.code \in Received
      BY <1>1, <2>1 DEF Entered
    <3>2. \E pc, at, code : r = [pc |-> pc, at |-> at, code |-> code]
      BY <2>1 DEF CodesIInv, CodesTypeOK
    <3> QED
      BY <3>1, <3>2 DEF Entered
  <2>3. \/ EntererMoves(q, [r EXCEPT !.pc = "set"]) \/ EntererMoves(q, [r EXCEPT !.pc = "clean"])
        \/ EntererMoves(q, [r EXCEPT !.pc = "mailKey", !.at = Mail])
        \/ EntererMoves(q, FreeEnterer)
    BY <1>8, <2>1
    DEF ReadResetKey, EnteringFails, SetNewPassword, EntererAt, EntererDone, EntererMoves
  <2>4. r.pc # "free" /\ sent' = sent
    BY <1>8, <2>1 DEF ReadResetKey, EnteringFails, SetNewPassword
  <2> QED
    BY <1>3, <1>4, <2>2, <2>3, <2>4
<1>9. ASSUME NEW q \in Enterer, CleanReset(q) \/ CleanBind(q)
      PROVE  \A e \in Enterer : Entered(enterer[e])'
  <2>1. EntererMoves(q, FreeEnterer) /\ sent' = sent
    BY <1>9 DEF CleanReset, CleanBind, EntererDone, EntererMoves
  <2> QED
    BY <1>3, <1>4, <2>1
<1>10. ASSUME NEW q \in Enterer, ReadBindKey(q) \/ BindPhone(q)
       PROVE  \A e \in Enterer : Entered(enterer[e])'
  <2>1. PICK r : r = enterer[q]
    OBVIOUS
  <2>2. r.code \in Received /\ r.at \in Phone /\ r.pc \in {"bindKey", "bind"} /\ sent' = sent
    BY <1>1, <1>10, <2>1 DEF Entered, ReadBindKey, BindPhone
  <2>3. \E pc, at, code : r = [pc |-> pc, at |-> at, code |-> code]
    BY <2>1 DEF CodesIInv, CodesTypeOK
  <2>4. Entered([r EXCEPT !.pc = "cleanBind"])
    BY <2>2, <2>3 DEF Entered
  <2>5. bindCode[r.at] = r.code => Entered([r EXCEPT !.pc = "bind"])
    <3>1. bindCode[r.at] = r.code => sent[r.code] = r.at
      BY <1>1, <2>2 DEF Received
    <3> QED
      BY <2>2, <2>3, <3>1 DEF Entered
  <2>6. \/ bindCode[r.at] = r.code /\ EntererMoves(q, [r EXCEPT !.pc = "bind"])
        \/ EntererMoves(q, FreeEnterer) \/ EntererMoves(q, [r EXCEPT !.pc = "cleanBind"])
    BY <1>10, <2>1 DEF ReadBindKey, BindPhone, EntererAt, EntererDone, EntererMoves
  <2> QED
    BY <1>3, <1>4, <2>2, <2>4, <2>5, <2>6
<1>11. CASE CodeExpires
  BY <1>5, <1>11 DEF CodeExpires
<1>12. ASSUME NEW p \in Phone \union {NoPhone}, SaveOldCopy(p)
       PROVE  \A e \in Enterer : Entered(enterer[e])'
  BY <1>5, <1>12 DEF SaveOldCopy
<1>13. CASE UNCHANGED codesVars
  BY <1>5, <1>13 DEF codesVars
<1> QED
  BY <1>6, <1>7, <1>8, <1>9, <1>10, <1>11, <1>12, <1>13 DEF CodesNext

-----------------------------------------------------------------------------
(* Verification codes: requests that come one after the other *)

LEMMA LastMailKept ==
    ASSUME LastMailHolds, sent' = sent, resets' = resets, accepted' = accepted,
           resetCode'[Mail] = resetCode[Mail]
    PROVE  LastMailHolds'
BY DEF LastMailHolds, Mailed

LEMMA UntangledAsker ==
    ASSUME NEW q \in Asker, \A s \in Asker \ {q} : asker'[s].pc = "free",
           \A e \in Enterer : enterer'[e].pc = "free",
           \/ /\ Mailing(asker[q])' /\ accepted' = asker'[q].code
              /\ asker'[q].pc = "send" => resetCode'[Mail] = asker'[q].code
           \/ ~ Mailing(asker[q])' /\ LastMailHolds'
    PROVE  Untangled'
<1>1. \A s \in Asker \ {q} : ~ Mailing(asker[s])'
  BY DEF Mailing
<1> QED
  BY <1>1 DEF Untangled, OneAtATime

LEMMA UntangledEnterer ==
    ASSUME NEW q \in Enterer, \A s \in Enterer \ {q} : enterer'[s].pc = "free",
           \A a \in Asker : asker'[a].pc = "free",
           enterer'[q].pc = "set" => resetCode'[enterer'[q].at] = enterer'[q].code,
           IF enterer'[q].pc = "clean"
           THEN /\ enterer'[q].at = Mail /\ enterer'[q].code \in resets' /\ accepted' = 0
                /\ \A c \in Mailed' : c <= enterer'[q].code
           ELSE LastMailHolds'
    PROVE  Untangled'
<1>1. \A a \in Asker : ~ Mailing(asker[a])'
  BY DEF Mailing
<1> QED
  BY <1>1 DEF Untangled, OneAtATime

LEMMA CodesUntangled ==
    CodesIInv /\ [CodesNext]_codesVars => (~ tangled' /\ codeFaults' = 0 => Untangled')
<1> SUFFICES ASSUME CodesIInv, [CodesNext]_codesVars, ~ tangled', codeFaults' = 0
             PROVE  Untangled'
  OBVIOUS
<1>1. /\ DOMAIN asker = Asker /\ DOMAIN enterer = Enterer /\ DOMAIN sent = Code
      /\ codeFaults \in Nat /\ DOMAIN resetCode = Address /\ Mail \in Address
      /\ Mail \notin Phone /\ NoPhone \notin Phone /\ NoPhone # Mail
      /\ Code \subseteq Nat
  BY CodesAssumption DEF CodesIInv, CodesTypeOK, Code, Address
<1>2. /\ StoredRight
      /\ \A c \in resets : c \in Code /\ sent[c] = Mail /\ accepted \notin 1 .. c
      /\ \A q \in Asker : OnItsWay(asker[q])
      /\ \A q \in Enterer : Entered(enterer[q])
      /\ \A q \in Asker : asker[q].pc = "storeBind" => asker[q].to \in Phone
      /\ \A q \in Enterer : enterer[q].at \in Address
      /\ \A q \in Asker : asker[q].to \in Address
  <2>1. 1 .. issued \subseteq Code
    BY CodesAssumption DEF CodesIInv, CodesTypeOK, Code
  <2> QED
    BY <2>1 DEF CodesIInv, CodesTypeOK, OnItsWay
<1>3. ~ tangled /\ codeFaults = 0 => Untangled
  BY DEF CodesIInv
<1>4. ASSUME NEW q \in Asker, Untangled, asker[q].pc # "free"
      PROVE  /\ \A s \in Asker \ {q} : asker[s].pc = "free"
             /\ \A e \in Enterer : enterer[e].pc = "free"
             /\ Mailing(asker[q]) \/ LastMailHolds
  <2>1. \A s \in Asker \ {q} : asker[s].pc = "free"
    BY <1>4 DEF Untangled, OneAtATime
  <2>2. \A e \in Enterer : enterer[e].pc = "free"
    BY <1>4 DEF Untangled, OneAtATime
  <2> QED
    BY <1>4, <2>1, <2>2 DEF Untangled, Mailing
<1>5. ASSUME NEW q \in Enterer, Untangled, enterer[q].pc # "free"
      PROVE  /\ \A s \in Enterer \ {q} : enterer[s].pc = "free"
             /\ \A a \in Asker : asker[a].pc = "free"
             /\ enterer[q].pc = "clean" \/ LastMailHolds
  <2>1. \A s \in Enterer \ {q} : enterer[s].pc = "free"
    BY <1>5 DEF Untangled, OneAtATime
  <2>2. \A a \in Asker : asker[a].pc = "free"
    BY <1>5 DEF Untangled, OneAtATime
  <2> QED
    BY <1>5, <2>1, <2>2 DEF Untangled, Mailing
<1>6. ASSUME AllFree, Untangled
      PROVE  LastMailHolds
  BY <1>6 DEF AllFree, Untangled, Mailing
<1>7. ASSUME NEW q \in Asker, NEW c, AskerMoves(q, c)
      PROVE  asker'[q] = c /\ \A s \in Asker \ {q} : asker'[s] = asker[s]
  BY <1>1, <1>7 DEF AskerMoves
<1>8. ASSUME NEW q \in Enterer, NEW c, EntererMoves(q, c)
      PROVE  enterer'[q] = c /\ \A s \in Enterer \ {q} : enterer'[s] = enterer[s]
  BY <1>1, <1>8 DEF EntererMoves
<1>9. ASSUME NEW q \in Asker, ForgotPassword(q) \/ \E p \in Phone : SendPhoneCode(q, p)
       PROVE  Untangled'
  <2>1. AllFree /\ ~ tangled /\ codeFaults = 0
    BY <1>9 DEF ForgotPassword, SendPhoneCode, Starts
  <2>2. LastMailHolds
    BY <1>3, <1>6, <2>1
  <2>3. \E c : AskerMoves(q, c) /\ (c.pc \in {"zitadel", "storeBind"} \/ c.to # Mail)
    <3>1. phone # NoPhone => phone # Mail
      BY <1>1 DEF CodesIInv, CodesTypeOK
    <3>2. [asker[q] EXCEPT !.pc = "zitadel"].pc = "zitadel"
      BY DEF CodesIInv, CodesTypeOK
    <3> QED
      BY ZenonT(60), <1>9, <3>1, <3>2 DEF ForgotPassword, SendPhoneCode, AskerAt, AskerMoves
  <2>4. PICK c : AskerMoves(q, c) /\ (c.pc \in {"zitadel", "storeBind"} \/ c.to # Mail)
    BY <2>3
  <2>5. asker'[q] = c /\ ~ Mailing(c)
    BY <1>7, <2>4 DEF Mailing
  <2>6. LastMailHolds' /\ enterer' = enterer
    BY <1>9, <2>2, LastMailKept DEF ForgotPassword, SendPhoneCode
  <2>7. ~ Mailing(asker[q])'
    BY <2>5 DEF Mailing
  <2>8. /\ \A s \in Asker \ {q} : asker'[s].pc = "free"
        /\ \A e \in Enterer : enterer'[e].pc = "free"
    BY <1>7, <2>1, <2>4, <2>6 DEF AllFree
  <2> QED
    BY <2>6, <2>7, <2>8, UntangledAsker
<1>10. ASSUME NEW q \in Asker, RequestPasswordReset(q)
       PROVE  Untangled'
  <2>1. Untangled /\ asker[q].pc # "free" /\ enterer' = enterer
    BY <1>3, <1>10 DEF RequestPasswordReset
  <2>2. PICK c : c = [pc |-> "store", to |-> Mail, code |-> issued + 1]
    OBVIOUS
  <2>3. AskerMoves(q, c) /\ accepted' = c.code
    BY <1>10, <2>2 DEF RequestPasswordReset, AskerMoves
  <2>4. asker'[q] = c /\ \A s \in Asker \ {q} : asker'[s] = asker[s]
    BY <1>7, <2>3
  <2>5. Mailing(asker[q])' /\ asker'[q].pc # "send"
    BY <2>2, <2>4 DEF Mailing
  <2> QED
    BY <1>4, <2>1, <2>3, <2>4, <2>5, UntangledAsker
<1>11. ASSUME NEW q \in Asker, StoreReset(q) \/ StoreBind(q)
       PROVE  Untangled'
  <2>1. Untangled /\ asker[q].pc # "free" /\ enterer' = enterer /\ UNCHANGED <<sent, resets, accepted>>
    BY <1>3, <1>11 DEF StoreReset, StoreBind
  <2>2. PICK c : c = [asker[q] EXCEPT !.pc = "send"]
    OBVIOUS
  <2>3. AskerMoves(q, c) /\ c.pc = "send" /\ c.to = asker[q].to /\ c.code = asker[q].code
    BY <1>11, <2>2 DEF StoreReset, StoreBind, AskerAt, AskerMoves, CodesIInv, CodesTypeOK
  <2>4. asker'[q] = c /\ \A s \in Asker \ {q} : asker'[s] = asker[s]
    BY <1>7, <2>3
  <2>5. /\ \A s \in Asker \ {q} : asker'[s].pc = "free"
        /\ \A e \in Enterer : enterer'[e].pc = "free"
    BY <1>4, <2>1, <2>4
  <2>6. CASE asker[q].to = Mail
    <3>1. asker[q].pc = "store" /\ resetCode' = [resetCode EXCEPT ![Mail] = asker[q].code]
      BY <1>1, <1>2, <1>11, <2>6 DEF StoreReset, StoreBind
    <3>2. accepted = asker[q].code /\ resetCode'[Mail] = asker[q].code
      BY <1>1, <2>1, <2>6, <3>1 DEF Untangled, Mailing
    <3>3. Mailing(asker[q])'
      BY <2>3, <2>4, <2>6 DEF Mailing
    <3> QED
      BY <2>1, <2>3, <2>4, <2>5, <3>2, <3>3, UntangledAsker
  <2>7. CASE asker[q].to # Mail
    <3>1. LastMailHolds
      BY <1>4, <2>1, <2>7 DEF Mailing
    <3>2. resetCode'[Mail] = resetCode[Mail]
      BY <1>1, <1>11, <2>7 DEF StoreReset, StoreBind
    <3>3. LastMailHolds'
      BY <2>1, <3>1, <3>2, LastMailKept
    <3>4. ~ Mailing(asker[q])'
      BY <2>3, <2>4, <2>7 DEF Mailing
    <3> QED
      BY <2>5, <3>3, <3>4, UntangledAsker
  <2> QED
    BY <2>6, <2>7
<1>12. ASSUME NEW q \in Asker, SendCode(q)
       PROVE  Untangled'
  <2>1. /\ Untangled /\ asker[q].pc = "send" /\ enterer' = enterer
        /\ UNCHANGED <<resetCode, resets, accepted>>
        /\ sent' = [sent EXCEPT ![asker[q].code] = asker[q].to]
        /\ AskerMoves(q, FreeAsker)
    BY <1>3, <1>12 DEF SendCode, AskerDone, AskerMoves
  <2>2. /\ asker'[q].pc = "free" /\ \A s \in Asker \ {q} : asker'[s] = asker[s]
    BY <1>7, <2>1 DEF FreeAsker
  <2>3. asker[q].code \in Code /\ sent[asker[q].code] = NoPhone
    BY <1>2, <2>1 DEF OnItsWay, HasCode
  <2>4. LastMailHolds'
    <3>1. CASE asker[q].to = Mail
      <4>1. PICK n : n = asker[q].code
        OBVIOUS
      <4>2. n \in Code /\ n \notin resets /\ accepted = n /\ resetCode[Mail] = n
        BY <1>1, <1>2, <2>1, <2>3, <3>1, <4>1 DEF Untangled, Mailing
      <4>3. Mailed' = Mailed \union {n}
        BY <1>1, <2>1, <2>3, <3>1, <4>1 DEF Mailed
      <4>4. \A c \in Mailed : c <= n
        BY <1>2, <4>2, CodesAssumption DEF StoredRight, Code
      <4>5. ASSUME NEW c \in Mailed', \A d \in Mailed' : d <= c
            PROVE  c = n
        <5>1. n <= c /\ c \in Nat /\ n \in Nat
          BY <1>1, <4>2, <4>3, <4>5 DEF Mailed
        <5> QED
          BY <4>3, <4>4, <5>1
      <4> QED
        BY <2>1, <4>2, <4>5 DEF LastMailHolds
    <3>2. CASE asker[q].to # Mail
      <4>1. LastMailHolds
        BY <1>4, <2>1, <3>2 DEF Mailing
      <4>2. Mailed' = Mailed
        BY <1>1, <2>1, <2>3, <3>2 DEF Mailed
      <4> QED
        BY <2>1, <4>1, <4>2 DEF LastMailHolds
    <3> QED
      BY <3>1, <3>2
  <2>5. ~ Mailing(asker[q])'
    BY <2>2 DEF Mailing
  <2> QED
    BY <1>4, <2>1, <2>2, <2>4, <2>5, UntangledAsker
<1>13. ASSUME NEW q \in Enterer, ResetPassword(q) \/ \E p \in Phone : VerifyPhone(q, p)
       PROVE  Untangled'
  <2>1. AllFree /\ ~ tangled /\ codeFaults = 0
    BY <1>13 DEF ResetPassword, VerifyPhone, Starts
  <2>2. LastMailHolds
    BY <1>3, <1>6, <2>1
  <2>3. ASSUME NEW pc \in {"phoneKey", "mailKey", "bindKey"}, NEW a, NEW c,
               EntererMoves(q, [pc |-> pc, at |-> a, code |-> c])
        PROVE  /\ enterer'[q].pc \notin {"set", "clean"}
               /\ \A s \in Enterer \ {q} : enterer'[s] = enterer[s]
    BY <1>8, <2>3
  <2>4. /\ enterer'[q].pc \notin {"set", "clean"}
        /\ \A s \in Enterer \ {q} : enterer'[s] = enterer[s]
    <3>1. CASE ResetPassword(q)
      BY <2>3, <3>1 DEF ResetPassword, EntererMoves
    <3>2. CASE \E p \in Phone : VerifyPhone(q, p)
      BY <2>3, <3>2 DEF VerifyPhone, EntererMoves
    <3> QED
      BY <1>13, <3>1, <3>2
  <2>5. LastMailHolds' /\ asker' = asker
    BY <1>13, <2>2, LastMailKept DEF ResetPassword, VerifyPhone
  <2> QED
    BY <2>1, <2>4, <2>5, UntangledEnterer DEF AllFree
<1>14. ASSUME NEW q \in Enterer, ReadResetKey(q) \/ ReadBindKey(q) \/ BindPhone(q) \/ CleanBind(q)
       PROVE  Untangled'
  <2>1. /\ Untangled /\ enterer[q].pc \notin {"free", "clean"}
        /\ UNCHANGED <<asker, resetCode, sent, resets, accepted>>
    BY <1>3, <1>14 DEF ReadResetKey, ReadBindKey, BindPhone, CleanBind
  <2>2. PICK r : r = enterer[q]
    OBVIOUS
  <2>3. \E pc, at, code : r = [pc |-> pc, at |-> at, code |-> code]
    BY <2>2 DEF CodesIInv, CodesTypeOK
  <2>4. \/ resetCode[r.at] = r.code /\ EntererMoves(q, [r EXCEPT !.pc = "set"])
        \/ EntererMoves(q, [r EXCEPT !.pc = "mailKey", !.at = Mail])
        \/ EntererMoves(q, [r EXCEPT !.pc = "bind"])
        \/ EntererMoves(q, [r EXCEPT !.pc = "cleanBind"])
        \/ EntererMoves(q, FreeEnterer)
    BY <1>14, <2>2
    DEF ReadResetKey, ReadBindKey, BindPhone, CleanBind, EntererAt, EntererDone, EntererMoves
  <2>5. \E c : /\ EntererMoves(q, c) /\ c.pc # "clean"
               /\ c.pc = "set" => resetCode[c.at] = c.code
    <3>1. /\ [r EXCEPT !.pc = "set"].at = r.at /\ [r EXCEPT !.pc = "set"].code = r.code
          /\ [r EXCEPT !.pc = "set"].pc = "set"
          /\ [r EXCEPT !.pc = "mailKey", !.at = Mail].pc = "mailKey"
          /\ [r EXCEPT !.pc = "bind"].pc = "bind" /\ [r EXCEPT !.pc = "cleanBind"].pc = "cleanBind"
          /\ FreeEnterer.pc = "free"
      BY <2>3 DEF FreeEnterer
    <3>2. ASSUME NEW c, EntererMoves(q, c), c.pc # "clean", c.pc = "set" => resetCode[c.at] = c.code
          PROVE  \E d : EntererMoves(q, d) /\ d.pc # "clean" /\ (d.pc = "set" => resetCode[d.at] = d.code)
      BY <3>2
    <3> QED
      BY <2>4, <3>1, <3>2
  <2>6. /\ enterer'[q].pc # "clean"
        /\ enterer'[q].pc = "set" => resetCode[enterer'[q].at] = enterer'[q].code
        /\ \A s \in Enterer \ {q} : enterer'[s] = enterer[s]
    BY <1>8, <2>5
  <2>7. LastMailHolds'
    BY <1>5, <2>1, LastMailKept
  <2> QED
    BY <1>5, <2>1, <2>6, <2>7, UntangledEnterer
<1>15. ASSUME NEW q \in Enterer, SetNewPassword(q)
       PROVE  Untangled'
  <2>1. Untangled /\ enterer[q].pc = "set" /\ UNCHANGED <<asker, resetCode, sent>>
    BY <1>3, <1>15 DEF SetNewPassword
  <2>2. LastMailHolds /\ resetCode[enterer[q].at] = enterer[q].code
    BY <1>5, <2>1 DEF Untangled
  <2>3. CASE EntererDone(q) /\ UNCHANGED <<accepted, resets>>
    <3>1. EntererMoves(q, FreeEnterer)
      BY <2>3 DEF EntererDone, EntererMoves
    <3>2. enterer'[q].pc = "free" /\ \A s \in Enterer \ {q} : enterer'[s] = enterer[s]
      BY <1>8, <3>1 DEF FreeEnterer
    <3>3. LastMailHolds'
      BY <2>1, <2>2, <2>3, LastMailKept
    <3> QED
      BY <1>5, <2>1, <3>2, <3>3, UntangledEnterer
  <2>4. CASE /\ accepted = enterer[q].code /\ accepted' = 0
             /\ resets' = resets \union {enterer[q].code} /\ EntererAt(q, "clean")
    <3>1. PICK c : c = [enterer[q] EXCEPT !.pc = "clean"]
      OBVIOUS
    <3>2. EntererMoves(q, c) /\ c.pc = "clean" /\ c.at = enterer[q].at /\ c.code = enterer[q].code
      BY <2>4, <3>1 DEF EntererAt, EntererMoves, CodesIInv, CodesTypeOK
    <3>3. enterer'[q] = c /\ \A s \in Enterer \ {q} : enterer'[s] = enterer[s]
      BY <1>8, <3>2
    <3>4. c.code \in Code /\ sent[c.code] # NoPhone /\ c.code = accepted /\ c.code # 0
      BY <1>2, <2>1, <2>4, <3>2, CodesAssumption DEF Entered, Received, Code
    <3>5. sent[c.code] = Mail /\ \A d \in Mailed : d <= c.code
      BY <3>4 DEF CodesIInv, StoredRight
    <3>6. c.at = Mail
      <4>1. c.at \in Address /\ resetCode[c.at] = c.code
        BY <1>2, <2>2, <3>2
      <4> QED
        BY <1>1, <1>2, <3>4, <3>5, <4>1 DEF StoredRight
    <3>7. Mailed' = Mailed /\ c.code \in resets'
      BY <2>1, <2>4, <3>2 DEF Mailed
    <3> QED
      BY <1>5, <2>1, <2>4, <3>2, <3>3, <3>5, <3>6, <3>7, UntangledEnterer
  <2> QED
    BY <1>15, <2>3, <2>4 DEF SetNewPassword
<1>16. ASSUME NEW q \in Enterer, CleanReset(q)
       PROVE  Untangled'
  <2>1. /\ Untangled /\ enterer[q].pc = "clean" /\ UNCHANGED <<asker, sent, resets, accepted>>
        /\ EntererMoves(q, FreeEnterer)
        /\ resetCode' = [resetCode EXCEPT ![enterer[q].at] = 0]
    BY <1>3, <1>16 DEF CleanReset, EntererDone, EntererMoves
  <2>2. enterer'[q].pc = "free" /\ \A s \in Enterer \ {q} : enterer'[s] = enterer[s]
    BY <1>8, <2>1 DEF FreeEnterer
  <2>3. PICK n : n = enterer[q].code
    OBVIOUS
  <2>4. /\ enterer[q].at = Mail /\ n \in resets /\ accepted = 0
        /\ \A c \in Mailed : c <= n
    BY <2>1, <2>3 DEF Untangled
  <2>5. n \in Mailed /\ resetCode'[Mail] = 0
    BY <1>1, <1>2, <2>1, <2>4 DEF Mailed
  <2>6. \A c \in Mailed : (\A d \in Mailed : d <= c) => c = n
    <3>1. \A c \in Mailed : c \in Nat
      BY <1>1 DEF Mailed
    <3> QED
      BY <2>4, <2>5, <3>1
  <2>7. LastMailHolds'
    BY <2>1, <2>4, <2>5, <2>6 DEF LastMailHolds, Mailed
  <2> QED
    BY <1>5, <2>1, <2>2, <2>7, UntangledEnterer
<1>17. CASE (\E q \in Asker : AskingFails(q)) \/ (\E q \in Enterer : EnteringFails(q)) \/ CodeExpires
  <2>1. codeFaults' = codeFaults + 1
    BY <1>17 DEF AskingFails, EnteringFails, CodeExpires
  <2> QED
    BY <1>1, <2>1
<1>18. CASE (\E p \in Phone \union {NoPhone} : SaveOldCopy(p)) \/ UNCHANGED codesVars
  <2>1. UNCHANGED <<issued, resetCode, bindCode, accepted, sent, resets, asker, enterer, codeFaults,
                    tangled>>
    BY <1>18 DEF SaveOldCopy, codesVars
  <2> QED
    BY <1>3, <2>1
    DEF Untangled, OneAtATime, LastMailHolds, Mailed, Mailing
<1> QED
  BY <1>9, <1>10, <1>11, <1>12, <1>13, <1>14, <1>15, <1>16, <1>17, <1>18 DEF CodesNext

\* A code sets a password at most once and none after a later one did; the account
\* has only the phone it registered with or one on which a code arrived, whatever
\* copy of its row is saved late; and unless requests overlap or fail the last code
\* that went by mail works, but while a code that went by short message hides it.
THEOREM CodesCorrect == CodesSpec => []CodesInv
<1>1. CodesIInv /\ [CodesNext]_codesVars => CodesIInv'
  BY CodesTyped, CodesStored, CodesCarried, CodesEntered, CodesUntangled DEF CodesIInv
<1>2. CodesIInv => CodesInv
  <2> SUFFICES ASSUME CodesIInv, AllFree, ~ tangled, codeFaults = 0
               PROVE  LastCodeWorks
    BY DEF CodesIInv, CodesInv, LastCodeWorks
  <2>1. LastMailHolds
    BY DEF CodesIInv, Untangled, AllFree, Mailing
  <2>2. /\ phone # NoPhone => phone \in Address \ {Mail}
        /\ 0 \notin Code /\ StoredRight
    BY CodesAssumption DEF CodesIInv, CodesTypeOK, Address, Code
  <2>3. ASSUME NEW c \in Mailed, \A d \in Mailed : d <= c
        PROVE  IF c \in resets THEN resetCode[Mail] = 0 /\ \A d \in Code : ~Works(d)
               ELSE resetCode[Mail] = c /\ accepted = c /\ (Works(c) <=> Shadow = 0)
    <3>1. CASE c \in resets
      BY <2>1, <2>2, <2>3, <3>1 DEF LastMailHolds, Works
    <3>2. CASE c \notin resets
      <4>1. resetCode[Mail] = c /\ accepted = c
        BY <2>1, <2>3, <3>2 DEF LastMailHolds
      <4>2. Shadow # 0 => Shadow # c
        BY <2>2, <2>3, CodesAssumption DEF Shadow, StoredRight, Mailed, Address
      <4> QED
        BY <3>2, <4>1, <4>2 DEF Works, Compared
    <3> QED
      BY <3>1, <3>2
  <2> QED
    BY <2>3 DEF LastCodeWorks, Mailed
<1> QED
  BY <1>1, <1>2, CodesInitially, PTL DEF CodesSpec
=============================================================================
