----------------------------- MODULE MCServices -----------------------------
(***************************************************************************)
(* TLC: the small components.  They share no state: the initial state      *)
(* chooses which of them runs, the others stand still.                     *)
(***************************************************************************)
EXTENDS VerificationCodes, TokenKeys, Reminders, Invoices, BillingCycle,
        WalletCheckout, RateLimiter, SignIn

CONSTANTS x1, x2, u1, k1, k2, p1, ann, bob, annName, annMail, bobMail, f1, MaxBegun

VARIABLES part, begun

vars == <<part, begun, codesVars, keysVars, remindersVars, invoicesVars, date,
          checkoutVars, limiterVars, loginVars, bridgeVars>>

MCPublished == [v \in 0 .. 1 |-> IF v = 0 THEN {k1} ELSE {k2}]
MCReminderDays == <<2, 1>>
MCDaysAtStart == [s \in Expiring |-> IF s = x1 THEN 3 ELSE 2]
MCBuyer == [o \in Billed |-> u1]

\* An administrator's token by the old key, a customer's by the new one, which
\* expires, and a session.
Bearer(key, iss, exp, admin) ==
    [key |-> key, iss |-> iss, aud |-> iss = Issuer, exp |-> exp, role |-> admin, admin |-> admin]
MCCall == {Bearer(k1, Issuer, MaxTime, TRUE), Bearer(k2, Issuer, 2, FALSE),
           Bearer(Secret, SessionIssuer, 0, FALSE)}

\* ann's login name is a username, bob's his mail address.
MCLoginName == [u \in User |-> IF u = ann THEN annName ELSE bobMail]

Init ==
    /\ part \in {"codes", "keys", "reminders", "invoices", "cycle", "checkout", "limiter", "login",
               "bridge"}
    /\ typed \in (IF part = "codes" THEN {NoPhone, p1} ELSE {NoPhone})
    /\ CodesInit /\ KeysInit /\ RemindersInit /\ InvoicesInit /\ CheckoutInit
    /\ LimiterInit /\ BridgeInit
    /\ begun = 0 /\ LoginInit /\ (part # "login" => zitadel = User)
    /\ IF part = "cycle" THEN CycleInit
       ELSE date = [y |-> CHOOSE y \in Years : TRUE, m |-> 1, d |-> 1]

\* At most MaxBegun requests of SignIn's logins, those that left "free", begin or fail.
Begins ==
    /\ begun' = begun + Cardinality({q \in LoginRequest : login[q].pc = "free" /\ login'[q].pc # "free"})
                     + Cardinality({e \in Edit : edit[e].pc = "free" /\ edit'[e].pc # "free"})
    /\ begun' + loginFaults' <= MaxBegun

\* All but the running part stand still.
Still ==
    /\ UNCHANGED part
    /\ IF part = "login" THEN Begins ELSE UNCHANGED begun
    /\ IF part = "codes" THEN TRUE ELSE UNCHANGED codesVars
    /\ IF part = "keys" THEN TRUE ELSE UNCHANGED keysVars
    /\ IF part = "reminders" THEN TRUE ELSE UNCHANGED remindersVars
    /\ IF part = "invoices" THEN TRUE ELSE UNCHANGED invoicesVars
    /\ IF part = "cycle" THEN TRUE ELSE UNCHANGED date
    /\ IF part = "checkout" THEN TRUE ELSE UNCHANGED checkoutVars
    /\ IF part = "limiter" THEN TRUE ELSE UNCHANGED limiterVars
    /\ IF part = "login" THEN TRUE ELSE UNCHANGED loginVars
    /\ IF part = "bridge" THEN TRUE ELSE UNCHANGED bridgeVars

Next ==
    \/ part = "codes" /\ CodesNext /\ Still
    \/ part = "keys" /\ KeysNext /\ Still
    \/ part = "reminders" /\ RemindersNext /\ Still
    \/ part = "invoices" /\ InvoicesNext /\ Still
    \/ part = "cycle" /\ PassDay /\ Still
    \/ part = "checkout" /\ CheckoutNext /\ Still
    \/ part = "limiter" /\ LimiterNext /\ Still
    \/ part = "login" /\ LoginNext /\ Still
    \/ part = "bridge" /\ BridgeNext /\ Still

Spec == Init /\ [][Next]_vars
=============================================================================
