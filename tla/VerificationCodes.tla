------------------------- MODULE VerificationCodes -------------------------
(***************************************************************************)
(* The one-time codes of RegistrationService for one account: the reset    *)
(* code of ForgotPassword and ResetPassword and the phone code of          *)
(* SendPhoneVerificationCode and VerifyAndBindPhone.                       *)
(*                                                                         *)
(* A code lives in Redis under the address it goes to; the reset code that *)
(* goes by mail is issued by Zitadel, which accepts only the last one it   *)
(* issued and only once (external).  Every call is a step.  A code is the  *)
(* number of its issue: that two random codes are equal is left out.       *)
(***************************************************************************)
EXTENDS Integers, FiniteSets

CONSTANTS
    Phone,      \* phone numbers the person may name
    Registered, \* those that belong to other accounts
    SMS,        \* whether an SMS provider is configured
    Asker,      \* requests for a code being served
    Enterer,    \* requests that bring a code being served
    Mail, NoPhone,
    MaxCodes,   \* bound of the model: codes issued
    MaxCodeFaults \* bound of the model: failing calls and expired codes

ASSUME CodesAssumption ==
    /\ Registered \subseteq Phone /\ SMS \in BOOLEAN
    /\ Mail \notin Phone /\ NoPhone \notin Phone \union {Mail}
    /\ MaxCodes \in Nat /\ MaxCodeFaults \in Nat

VARIABLES
    typed,      \* the phone given at registration, which nothing verifies, or NoPhone
    phone,      \* accounts.phone
    hadPhone,   \* the phones it has had: other requests may hold copies of such rows
    issued,     \* codes issued so far
    resetCode,  \* the Redis keys pwd_reset:<address>, 0 for none
    bindCode,   \* the Redis keys phone_verify:<account>:<phone>, 0 for none
    accepted,   \* the code Zitadel accepts, 0 for none
    sent,       \* code -> where it was sent, or NoPhone
    resets,     \* the codes that set a password
    asker, enterer,
    codeFaults, \* failures so far
    tangled     \* some request began while another was under way

codesVars == <<typed, phone, hadPhone, issued, resetCode, bindCode, accepted, sent, resets,
               asker, enterer, codeFaults, tangled>>
rowVars == <<typed, phone, hadPhone>>

Code == 1 .. MaxCodes
Address == Phone \union {Mail}
FreeAsker == [pc |-> "free", to |-> Mail, code |-> 0]
FreeEnterer == [pc |-> "free", at |-> Mail, code |-> 0]

CodesTypeOK ==
    /\ {typed, phone} \subseteq Phone \union {NoPhone} /\ hadPhone \subseteq Phone \union {NoPhone}
    /\ issued \in 0 .. MaxCodes /\ accepted \in 0 .. issued
    /\ resetCode \in [Address -> 0 .. issued]
    /\ bindCode \in [Phone -> 0 .. issued]
    /\ sent \in [Code -> Address \union {NoPhone}]
    /\ resets \subseteq 1 .. issued
    /\ asker \in [Asker -> [pc : {"free", "zitadel", "store", "storeBind", "send"},
                            to : Address, code : 0 .. issued]]
    /\ enterer \in [Enterer -> [pc : {"free", "phoneKey", "mailKey", "set", "clean",
                                      "bindKey", "bind", "cleanBind"},
                                at : Address, code : 0 .. issued]]
    /\ codeFaults \in 0 .. MaxCodeFaults /\ tangled \in BOOLEAN

\* Register takes a phone of nobody else and sends no code to it.
CodesInit ==
    /\ typed \in (Phone \ Registered) \union {NoPhone}
    /\ phone = typed /\ hadPhone = {typed} /\ issued = 0 /\ accepted = 0 /\ resets = {}
    /\ resetCode = [a \in Address |-> 0] /\ bindCode = [p \in Phone |-> 0]
    /\ sent = [c \in Code |-> NoPhone]
    /\ asker = [q \in Asker |-> FreeAsker] /\ enterer = [q \in Enterer |-> FreeEnterer]
    /\ codeFaults = 0 /\ tangled = FALSE

AllFree == (\A q \in Asker : asker[q].pc = "free") /\ (\A q \in Enterer : enterer[q].pc = "free")
Starts == tangled' = (tangled \/ ~AllFree)

\* The pc of an asker, and of an enterer, moves on.
AskerAt(q, pc) == asker' = [asker EXCEPT ![q].pc = pc]
AskerDone(q) == asker' = [asker EXCEPT ![q] = FreeAsker]
EntererAt(q, pc) == enterer' = [enterer EXCEPT ![q].pc = pc]
EntererDone(q) == enterer' = [enterer EXCEPT ![q] = FreeEnterer]

-----------------------------------------------------------------------------
(* Asking for a code *)

\* ForgotPassword, and SendSMSCode which calls it, look the account up and
\* choose the channel.
ForgotPassword(q) ==
    /\ asker[q].pc = "free" /\ issued < MaxCodes
    /\ IF SMS /\ phone # NoPhone
       THEN /\ issued' = issued + 1
            /\ asker' = [asker EXCEPT ![q] = [pc |-> "store", to |-> phone, code |-> issued + 1]]
       ELSE AskerAt(q, "zitadel") /\ UNCHANGED issued
    /\ Starts
    /\ UNCHANGED <<rowVars, resetCode, bindCode, accepted, sent, resets, enterer, codeFaults>>

\* Client.RequestPasswordReset.
RequestPasswordReset(q) ==
    /\ asker[q].pc = "zitadel" /\ issued < MaxCodes
    /\ issued' = issued + 1 /\ accepted' = issued + 1
    /\ asker' = [asker EXCEPT ![q] = [pc |-> "store", to |-> Mail, code |-> issued + 1]]
    /\ UNCHANGED <<rowVars, resetCode, bindCode, sent, resets, enterer, codeFaults, tangled>>

\* Mutant: SET NX.
StoreReset_Absent(q) ==
    /\ asker[q].pc = "store"
    /\ resetCode' = [resetCode EXCEPT ![asker[q].to] = IF @ = 0 THEN asker[q].code ELSE @]
    /\ AskerAt(q, "send")
    /\ UNCHANGED <<rowVars, issued, bindCode, accepted, sent, resets, enterer, codeFaults, tangled>>

StoreReset(q) ==
    /\ asker[q].pc = "store"
    /\ resetCode' = [resetCode EXCEPT ![asker[q].to] = asker[q].code]
    /\ AskerAt(q, "send")
    /\ UNCHANGED <<rowVars, issued, bindCode, accepted, sent, resets, enterer, codeFaults, tangled>>

\* SendPhoneVerificationCode refuses the phone of another account.
SendPhoneCode(q, p) ==
    /\ asker[q].pc = "free" /\ issued < MaxCodes
    /\ p \notin Registered
    /\ issued' = issued + 1
    /\ asker' = [asker EXCEPT ![q] = [pc |-> "storeBind", to |-> p, code |-> issued + 1]]
    /\ Starts
    /\ UNCHANGED <<rowVars, resetCode, bindCode, accepted, sent, resets, enterer, codeFaults>>

StoreBind(q) ==
    /\ asker[q].pc = "storeBind"
    /\ bindCode' = [bindCode EXCEPT ![asker[q].to] = asker[q].code]
    /\ AskerAt(q, "send")
    /\ UNCHANGED <<rowVars, issued, resetCode, accepted, sent, resets, enterer, codeFaults, tangled>>

\* Sender.Send of the mail or the short message.
SendCode(q) ==
    /\ asker[q].pc = "send"
    /\ sent' = [sent EXCEPT ![asker[q].code] = asker[q].to]
    /\ AskerDone(q)
    /\ UNCHANGED <<rowVars, issued, resetCode, bindCode, accepted, resets, enterer, codeFaults,
                   tangled>>

\* A failing call ends the request where it is.
AskingFails(q) ==
    /\ asker[q].pc # "free" /\ codeFaults < MaxCodeFaults
    /\ codeFaults' = codeFaults + 1
    /\ AskerDone(q)
    /\ UNCHANGED <<rowVars, issued, resetCode, bindCode, accepted, sent, resets, enterer, tangled>>

-----------------------------------------------------------------------------
(* Entering a code *)

Received == {c \in Code : sent[c] # NoPhone}

\* ResetPassword resolves the account.
ResetPassword(q) ==
    /\ enterer[q].pc = "free"
    /\ \E c \in Received :
        enterer' = [enterer EXCEPT ![q] =
            IF phone # NoPhone THEN [pc |-> "phoneKey", at |-> phone, code |-> c]
            ELSE [pc |-> "mailKey", at |-> Mail, code |-> c]]
    /\ Starts
    /\ UNCHANGED <<rowVars, issued, resetCode, bindCode, accepted, sent, resets, asker, codeFaults>>

\* It asks for the code under the phone, if the account has one, then under the
\* mail address if there was none (or Redis failed), and compares.
ReadResetKey(q) ==
    LET r == enterer[q]  stored == resetCode[r.at]
    IN /\ r.pc \in {"phoneKey", "mailKey"}
       /\ enterer' = [enterer EXCEPT ![q] =
            IF stored = r.code THEN [r EXCEPT !.pc = "set"]
            ELSE IF stored = 0 /\ r.pc = "phoneKey" THEN [r EXCEPT !.pc = "mailKey", !.at = Mail]
            ELSE FreeEnterer]
       /\ UNCHANGED <<rowVars, issued, resetCode, bindCode, accepted, sent, resets, asker,
                      codeFaults, tangled>>

\* Client.SetNewPassword: Zitadel takes its own last code, once.
SetNewPassword(q) ==
    /\ enterer[q].pc = "set"
    /\ \/ /\ accepted = enterer[q].code
          /\ accepted' = 0
          /\ resets' = resets \union {enterer[q].code}
          /\ EntererAt(q, "clean")
       \/ /\ accepted # enterer[q].code
          /\ EntererDone(q)
          /\ UNCHANGED <<accepted, resets>>
    /\ UNCHANGED <<rowVars, issued, resetCode, bindCode, sent, asker, codeFaults, tangled>>

\* The key goes, whatever code it holds by now.
CleanReset(q) ==
    /\ enterer[q].pc = "clean"
    /\ resetCode' = [resetCode EXCEPT ![enterer[q].at] = 0]
    /\ EntererDone(q)
    /\ UNCHANGED <<rowVars, issued, bindCode, accepted, sent, resets, asker, codeFaults, tangled>>

VerifyPhone(q, p) ==
    /\ enterer[q].pc = "free"
    /\ \E c \in Received : enterer' = [enterer EXCEPT ![q] = [pc |-> "bindKey", at |-> p, code |-> c]]
    /\ Starts
    /\ UNCHANGED <<rowVars, issued, resetCode, bindCode, accepted, sent, resets, asker, codeFaults>>

\* Mutant: one key per account, whatever the phone.
ReadBindKey_AnyPhone(q) ==
    /\ enterer[q].pc = "bindKey"
    /\ IF \E p \in Phone : bindCode[p] = enterer[q].code THEN EntererAt(q, "bind")
       ELSE EntererDone(q)
    /\ UNCHANGED <<rowVars, issued, resetCode, bindCode, accepted, sent, resets, asker, codeFaults,
                   tangled>>

ReadBindKey(q) ==
    /\ enterer[q].pc = "bindKey"
    /\ IF bindCode[enterer[q].at] = enterer[q].code THEN EntererAt(q, "bind")
       ELSE EntererDone(q)
    /\ UNCHANGED <<rowVars, issued, resetCode, bindCode, accepted, sent, resets, asker, codeFaults,
                   tangled>>

\* The account row is read and saved; Accounts has the rest of the row.
BindPhone(q) ==
    /\ enterer[q].pc = "bind"
    /\ phone' = enterer[q].at
    /\ hadPhone' = hadPhone \union {phone'}
    /\ EntererAt(q, "cleanBind")
    /\ UNCHANGED <<typed, issued, resetCode, bindCode, accepted, sent, resets, asker, codeFaults, tangled>>

CleanBind(q) ==
    /\ enterer[q].pc = "cleanBind"
    /\ bindCode' = [bindCode EXCEPT ![enterer[q].at] = 0]
    /\ EntererDone(q)
    /\ UNCHANGED <<rowVars, issued, resetCode, accepted, sent, resets, asker, codeFaults, tangled>>

\* A failing call ends the request; a failing GET of the phone key only moves
\* it on to the mail key.
EnteringFails(q) ==
    /\ enterer[q].pc # "free" /\ codeFaults < MaxCodeFaults
    /\ codeFaults' = codeFaults + 1
    /\ \/ EntererDone(q)
       \/ /\ enterer[q].pc = "phoneKey"
          /\ enterer' = [enterer EXCEPT ![q].pc = "mailKey", ![q].at = Mail]
    /\ UNCHANGED <<rowVars, issued, resetCode, bindCode, accepted, sent, resets, asker, tangled>>

\* A request of another kind, such as UpdateMe or UpsertByZitadelSub, saves the
\* whole row it read before.
SaveOldCopy(p) ==
    /\ p \in hadPhone
    /\ phone' = p
    /\ UNCHANGED <<typed, hadPhone, issued, resetCode, bindCode, accepted, sent, resets, asker,
                   enterer, codeFaults, tangled>>

\* The ten minutes of a code are over, in Redis or at Zitadel.
CodeExpires ==
    /\ codeFaults < MaxCodeFaults
    /\ codeFaults' = codeFaults + 1
    /\ \/ /\ \E a \in Address : resetCode[a] # 0 /\ resetCode' = [resetCode EXCEPT ![a] = 0]
          /\ UNCHANGED <<bindCode, accepted>>
       \/ /\ \E p \in Phone : bindCode[p] # 0 /\ bindCode' = [bindCode EXCEPT ![p] = 0]
          /\ UNCHANGED <<resetCode, accepted>>
       \/ accepted # 0 /\ accepted' = 0 /\ UNCHANGED <<resetCode, bindCode>>
    /\ UNCHANGED <<rowVars, issued, sent, resets, asker, enterer, tangled>>

CodesNext ==
    \/ \E q \in Asker :
        \/ ForgotPassword(q) \/ RequestPasswordReset(q) \/ StoreReset(q)
        \/ \E p \in Phone : SendPhoneCode(q, p)
        \/ StoreBind(q) \/ SendCode(q) \/ AskingFails(q)
    \/ \E q \in Enterer :
        \/ ResetPassword(q) \/ ReadResetKey(q) \/ SetNewPassword(q) \/ CleanReset(q)
        \/ \E p \in Phone : VerifyPhone(q, p)
        \/ ReadBindKey(q) \/ BindPhone(q) \/ CleanBind(q) \/ EnteringFails(q)
    \/ \E p \in Phone \union {NoPhone} : SaveOldCopy(p)
    \/ CodeExpires

CodesSpec == CodesInit /\ [][CodesNext]_codesVars

-----------------------------------------------------------------------------
(* Properties *)

\* Whatever row a request read and saves late, the account has only the phone it
\* named at registration, which nobody proves, or one on which its owner received
\* a code, although several numbers may be waiting for theirs and requests overlap.
PhoneIsProven ==
    /\ phone \in hadPhone
    /\ \A p \in hadPhone \ {typed, NoPhone} : \E c \in Code : sent[c] = p

\* The code under the phone, and the one ResetPassword compares with; a code sets
\* a password if Zitadel takes it too.
Shadow == IF phone = NoPhone THEN 0 ELSE resetCode[phone]
Compared == IF Shadow # 0 THEN Shadow ELSE resetCode[Mail]
Works(c) == Compared = c /\ accepted = c

\* After requests that did not overlap or fail, the code that came last by mail
\* is in Redis and Zitadel's until it was used, and then none works.  It works
\* unless a code that went by short message still lies under the phone: that one
\* is asked for first, works never, and hides a mailed one, older or newer, until
\* it expires.
LastCodeWorks ==
    LET mailed == {c \in Code : sent[c] = Mail}
    IN AllFree /\ ~tangled /\ codeFaults = 0 =>
        \A c \in mailed : (\A d \in mailed : d <= c) =>
            IF c \in resets THEN resetCode[Mail] = 0 /\ \A d \in Code : ~Works(d)
            ELSE resetCode[Mail] = c /\ accepted = c /\ (Works(c) <=> Shadow = 0)

\* A mailed code sets at most one password, and never after a later one did:
\* once a code was used, whatever is stored belongs to a later request.
CodesInv ==
    /\ CodesTypeOK
    /\ PhoneIsProven
    /\ LastCodeWorks
    /\ \A c \in resets : sent[c] = Mail /\ accepted \notin 1 .. c
=============================================================================
