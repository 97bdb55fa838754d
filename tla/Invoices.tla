------------------------------ MODULE Invoices ------------------------------
(***************************************************************************)
(* Invoices of payment orders: InvoiceService.Generate looks for one,      *)
(* reads the order and inserts the row, three calls outside a transaction  *)
(* that the unique indexes on order_no and invoice_no back up.             *)
(*                                                                         *)
(* An order is its buyer and whether it is paid; the amount is copied from *)
(* it.  An invoice number is taken from the clock in nanoseconds: any      *)
(* number of a small set, so two requests may draw the same.               *)
(***************************************************************************)
EXTENDS Integers, FiniteSets

CONSTANTS
    Billed,    \* payment orders
    Buyer,     \* Billed -> payment_orders.account_id
    Customer,  \* accounts that ask for invoices
    Biller,    \* requests being served
    InvoiceNo, \* numbers the clock may give
    NoOrder, NoCustomer

ASSUME InvoicesAssumption ==
    /\ Buyer \in [Billed -> Customer]
    /\ NoOrder \notin Billed /\ NoCustomer \notin Customer

VARIABLES
    paid,     \* orders whose status is paid
    invoices, \* rows of billing.invoices
    biller,   \* Biller -> the request it is at
    handed    \* invoices handed out: to whom, for which order, which number

invoicesVars == <<paid, invoices, biller, handed>>

Row == [order : Billed, account : Customer, no : InvoiceNo]
FreeBiller == [pc |-> "free", account |-> NoCustomer, order |-> NoOrder]

InvoicesTypeOK ==
    /\ paid \subseteq Billed
    /\ invoices \subseteq Row
    /\ biller \in [Biller -> [pc : {"free", "order", "insert"}, account : Customer \union {NoCustomer},
                              order : Billed \union {NoOrder}]]
    /\ handed \subseteq Row

InvoicesInit ==
    /\ paid = {} /\ invoices = {} /\ handed = {}
    /\ biller = [q \in Biller |-> FreeBiller]

\* An order is paid, and stays so (see Payments).
PayOrder(o) ==
    /\ o \notin paid
    /\ paid' = paid \union {o}
    /\ UNCHANGED <<invoices, biller, handed>>

\* Generate looks for the invoice of the order and hands it to its owner only.
Generate(q, a, o) ==
    /\ biller[q].pc = "free"
    /\ IF \E i \in invoices : i.order = o
       THEN /\ handed' = handed \union {i \in invoices : i.order = o /\ i.account = a}
            /\ UNCHANGED biller
       ELSE /\ biller' = [biller EXCEPT ![q] = [pc |-> "order", account |-> a, order |-> o]]
            /\ UNCHANGED handed
    /\ UNCHANGED <<paid, invoices>>

\* The order must be the caller's and paid.
ReadBilledOrder(q) ==
    LET r == biller[q]
    IN /\ r.pc = "order"
       /\ biller' = [biller EXCEPT ![q] =
            IF Buyer[r.order] = r.account /\ r.order \in paid THEN [r EXCEPT !.pc = "insert"]
            ELSE FreeBiller]
       /\ UNCHANGED <<paid, invoices, handed>>

\* Mutant: no unique index on order_no.
InsertInvoice_NumberOnly(q, n) ==
    LET row == [order |-> biller[q].order, account |-> biller[q].account, no |-> n]
    IN /\ biller[q].pc = "insert"
       /\ \/ /\ \A i \in invoices : i.no # n
             /\ invoices' = invoices \union {row} /\ handed' = handed \union {row}
          \/ /\ \E i \in invoices : i.no = n
             /\ UNCHANGED <<invoices, handed>>
       /\ biller' = [biller EXCEPT ![q] = FreeBiller]
       /\ UNCHANGED paid

\* The INSERT, which either unique index may refuse: the request fails.
InsertInvoice(q, n) ==
    LET row == [order |-> biller[q].order, account |-> biller[q].account, no |-> n]
    IN /\ biller[q].pc = "insert"
       /\ \/ /\ \A i \in invoices : i.order # row.order /\ i.no # n
             /\ invoices' = invoices \union {row} /\ handed' = handed \union {row}
          \/ /\ \E i \in invoices : i.order = row.order \/ i.no = n
             /\ UNCHANGED <<invoices, handed>>
       /\ biller' = [biller EXCEPT ![q] = FreeBiller]
       /\ UNCHANGED paid

\* A call fails.
BillingFails(q) ==
    /\ biller[q].pc # "free"
    /\ biller' = [biller EXCEPT ![q] = FreeBiller]
    /\ UNCHANGED <<paid, invoices, handed>>

InvoicesNext ==
    \/ \E o \in Billed : PayOrder(o)
    \/ \E q \in Biller :
        \/ \E a \in Customer, o \in Billed : Generate(q, a, o)
        \/ ReadBilledOrder(q) \/ BillingFails(q)
        \/ \E n \in InvoiceNo : InsertInvoice(q, n)

InvoicesSpec == InvoicesInit /\ [][InvoicesNext]_invoicesVars

-----------------------------------------------------------------------------
(* Properties *)

\* An order has at most one invoice, once it is paid, made out to its buyer, with
\* a number of its own; and whoever asks, however often and at the same time, is
\* handed that one or none.
InvoicesInv ==
    /\ InvoicesTypeOK
    /\ \A i, j \in invoices : i.order = j.order \/ i.no = j.no => i = j
    /\ \A i \in invoices : i.order \in paid /\ i.account = Buyer[i.order]
    /\ handed \subseteq invoices
=============================================================================
