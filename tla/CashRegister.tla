---------------------------- MODULE CashRegister ----------------------------
(***************************************************************************)
(* The cash register of one salon: the movements that are written by hand, *)
(* the charges of the appointments and the direct sales, the closing of a  *)
(* day, the lock that a closed day puts on its movements, and the stock of *)
(* one product.                                                            *)
(*                                                                         *)
(* A request looks at the lock and the rows first and writes later, and    *)
(* the steps of the requests interleave.  The queries that computeExpected *)
(* sends at once are one reading.                                          *)
(***************************************************************************)
EXTENDS Integers, Sequences, FiniteSets, FiniteSetsExt, Functions

CONSTANTS
  Cashier,   \* requests that may be in progress at once
  Manual, Charge, Sale,  \* movements: by hand, of an appointment, direct sales
  Money,                 \* Movement -> what it may be: method, currency, amount, bs
  Tip,                   \* the tip a direct sale may leave
  MaxDay, MaxStarted, MaxClosings,  \* bounds
  Delta,                 \* adjustments of the stock
  InitialStock

Movement == Manual \cup Charge \cup Sale
Currency == {"VES", "USD"}
Method == {"cash", "cash_bs", "card"}
Amount == [method: Method, currency: Currency, amount: Int, bs: Int]

ASSUME CashAssumption ==
  /\ IsFiniteSet(Movement) /\ Tip \in Amount /\ \A e \in Movement : Money[e] \subseteq Amount
  /\ Manual \cap Charge = {} /\ Manual \cap Sale = {} /\ Charge \cap Sale = {}
  /\ MaxDay \in Nat \ {0} /\ MaxStarted \in Nat /\ MaxClosings \in Nat
  /\ InitialStock \in Nat /\ Delta \subseteq Int

VARIABLES
  today,
  books,     \* cash_transaction, session_payments and direct_sale rows
  closings,  \* cash_closing rows, in the order of their ids
  till,     \* what each request has read and means to write
  sold,      \* the charges and sales with session_product rows
  stock,     \* product.stock
  adjusted,  \* the sum of the adjustments of the stock
  raced,     \* two requests had read the stock before either wrote it
  started

cashVars == <<today, books, closings, till, sold, stock, adjusted, raced, started>>

Day == 1..MaxDay
Owed == 0       \* collected_at is null
Absent == [absent |-> TRUE]
AtRest == [op |-> "idle"]
Unread == <<>>  \* or <<the stock that was read>>
BOLIVAR_METHODS == {"cash_bs", "card"}

-----------------------------------------------------------------------------
(* What a day should hold *)

\* Paid in another currency with a method of bolivars, it is counted in them.
PaidEntry(money) ==
  IF money.currency # "VES" /\ money.method \in BOLIVAR_METHODS
  THEN [currency |-> "VES", method |-> money.method, amount |-> money.bs]
  ELSE [currency |-> money.currency, method |-> money.method, amount |-> money.amount]

\* A tip that no worker has yet is what the total exceeds the lines by, in
\* bolivars; then it is a payroll concept in its own currency.
Tips(row) ==
  CASE row.tip = "leftover" ->
         {[PaidEntry([Tip EXCEPT !.currency = "VES"]) EXCEPT !.amount = Tip.bs]}
    [] row.tip = "recorded" -> {PaidEntry(Tip)}
    [] OTHER -> {}

CellOf(entry) ==
  <<entry.currency,
    IF entry.method = "cash" /\ entry.currency = "VES" THEN "cash_bs" ELSE entry.method>>

OnDay(row, d) == IF row # Absent /\ row.date = d THEN row ELSE Absent
BookedOn(d) == [e \in Movement |-> OnDay(books[e], d)]

\* The movements of a day, each with what it comes from.
EntriesOf(booked) ==
  LET present == {e \in Movement : booked[e] # Absent} IN
  {<<e, "line", IF e \in Manual THEN booked[e].money ELSE PaidEntry(booked[e].money)>> :
     e \in present}
  \cup UNION {{<<e, "tip", t>> : t \in Tips(booked[e])} : e \in present}

\* Mutant: an entry takes the place of the one before it in its cell.
LastOfEachCell(entries, opening) ==
  [cell \in {CellOf(x[3]) : x \in entries} |->
     (CHOOSE x \in entries : CellOf(x[3]) = cell)[3].amount]

AggregateExpected(entries, opening) ==
  LET fund(c) == CellOf([currency |-> c, method |-> "cash", amount |-> opening[c]])
      cells == {CellOf(x[3]) : x \in entries}
               \cup {fund(c) : c \in {c \in Currency : opening[c] # 0}}
  IN [cell \in cells |->
        SumFunctionOnSet([x \in entries |-> x[3].amount], {x \in entries : CellOf(x[3]) = cell})
        + SumFunctionOnSet(opening, {c \in Currency : fund(c) = cell})]

ActiveOn(d) == {k \in DOMAIN closings : closings[k].date = d /\ closings[k].status = "closed"}
DayOpen(d) == ActiveOn(d) = {}

\* The cash that the last closed day before this one kept.
OpeningCash(d) ==
  LET before == {k \in DOMAIN closings : closings[k].date < d /\ closings[k].status = "closed"}
  IN IF before = {} THEN [c \in Currency |-> 0]
     ELSE closings[CHOOSE k \in before :
                     \A j \in before : closings[j].date <= closings[k].date].retained

CountedCash(counted) ==
  [c \in Currency |->
     LET cell == CellOf([currency |-> c, method |-> "cash", amount |-> 0])
     IN IF cell \in DOMAIN counted THEN counted[cell] ELSE 0]

-----------------------------------------------------------------------------
(* Requests *)

Begin(p, l) ==
  /\ till[p] = AtRest /\ started < MaxStarted
  /\ till' = [till EXCEPT ![p] = l] /\ started' = started + 1

InFlight == {till[p].entry : p \in {p \in Cashier : till[p].op \in {"put", "tip"}}}
Puts(e, row, kind) == [op |-> "put", entry |-> e, row |-> row, kind |-> kind, stock |-> Unread]
\* id tells apart the charges that one appointment has had.
Row(e, money, date, tip) ==
  [id |-> IF e \in Charge THEN started ELSE 0, money |-> money, date |-> date, tip |-> tip]

\* Mutant: the day it goes to is not looked at.
MayMove(from, to) == DayOpen(from)
MayChange(from, to) == DayOpen(from) /\ DayOpen(to)

CreateTransaction(p, e, money, d) ==
  /\ books[e] = Absent /\ e \notin InFlight /\ MayChange(d, d)
  /\ Begin(p, Puts(e, Row(e, money, d, "none"), "create"))
  /\ UNCHANGED <<today, books, closings, sold, stock, adjusted, raced>>

UpdateTransaction(p, e, money, d) ==
  /\ books[e] # Absent /\ MayChange(books[e].date, d)
  /\ Begin(p, Puts(e, Row(e, money, d, "none"), "update"))
  /\ UNCHANGED <<today, books, closings, sold, stock, adjusted, raced>>

RemoveTransaction(p, e) ==
  /\ books[e] # Absent /\ DayOpen(books[e].date)
  /\ Begin(p, Puts(e, Absent, "remove"))
  /\ UNCHANGED <<today, books, closings, sold, stock, adjusted, raced>>

\* An appointment is charged with the date it was paid, or left owed.
RegisterSessionPayment(p, e, money, d) ==
  /\ books[e] = Absent
  /\ d # Owed => d <= today /\ DayOpen(d)
  /\ Begin(p, Puts(e, Row(e, money, d, "none"), "create"))
  /\ UNCHANGED <<today, books, closings, sold, stock, adjusted, raced>>

RevertPayment(p, e) ==
  /\ books[e] # Absent
  /\ books[e].date # Owed => DayOpen(books[e].date)
  /\ Begin(p, Puts(e, books[e], "revert"))
  /\ UNCHANGED <<today, books, closings, sold, stock, adjusted, raced>>

CreateDirectSale(p, e, money, d, tip) ==
  /\ books[e] = Absent /\ e \notin InFlight
  /\ d \in {today, Owed}
  /\ d # Owed => DayOpen(d)
  /\ Begin(p, Puts(e, Row(e, money, d, tip), "create"))
  /\ UNCHANGED <<today, books, closings, sold, stock, adjusted, raced>>

\* markPaymentCollected and markCollected.
MarkCollected(p, e) ==
  /\ books[e] # Absent /\ books[e].date = Owed /\ DayOpen(today)
  /\ Begin(p, Puts(e, [books[e] EXCEPT !.date = today], "collect"))
  /\ UNCHANGED <<today, books, closings, sold, stock, adjusted, raced>>

TouchesStock(l) == l.op = "put" /\ l.entry \notin Manual /\ l.kind \in {"create", "revert"}
OthersRead(p) == \E q \in Cashier \ {p} :
                   till[q].op \in {"put", "adjust"} /\ till[q].stock # Unread

\* In the transaction of the charge or the sale, without a lock; a revert reads
\* the product rows of the appointment, whichever charge sold them.
ReadStock(p) ==
  LET l == till[p]
      gone == l.kind = "revert" /\ l.entry \notin sold
  IN /\ TouchesStock(l) /\ l.stock = Unread
     /\ l.kind = "create" => stock > 0
     /\ till' = [till EXCEPT ![p] = IF gone THEN [l EXCEPT !.kind = "erase"]
                                      ELSE [l EXCEPT !.stock = <<stock>>]]
     /\ raced' = (raced \/ (~gone /\ OthersRead(p)))
     /\ UNCHANGED <<today, books, closings, sold, stock, adjusted, started>>

StockAfter(l) == IF l.kind = "create" THEN l.stock[1] - 1 ELSE l.stock[1] + 1

\* UNIQUE(session_id): there is one charge of an appointment, so a second one
\* fails, and so does collecting one that was undone and made again.
Refused(l) ==
  /\ l.entry \notin Manual /\ books[l.entry] # Absent
  /\ \/ l.kind = "create"
     \/ l.kind = "collect" /\ books[l.entry].id # l.row.id

\* Collecting a charge that was undone meanwhile writes its row again, without
\* its lines; undoing a charge deletes the one that was read.
NoLines == [method |-> "cash", currency |-> "VES", amount |-> 0, bs |-> 0]
Written(l) ==
  CASE l.kind = "collect" /\ books[l.entry] = Absent -> [l.row EXCEPT !.money = NoLines]
    [] l.kind \in {"revert", "erase"} ->
         IF books[l.entry] # Absent /\ books[l.entry].id = l.row.id THEN Absent
         ELSE books[l.entry]
    [] OTHER -> l.row

Put(p) ==
  LET l == till[p]
      done == ~Refused(l)
      tips == l.kind = "create" /\ l.row.tip = "leftover"
  IN /\ l.op = "put" /\ (TouchesStock(l) => l.stock # Unread)
     /\ books' = IF done THEN [books EXCEPT ![l.entry] = Written(l)] ELSE books
     /\ stock' = IF done /\ TouchesStock(l) THEN StockAfter(l) ELSE stock
     /\ sold' = IF ~done \/ ~TouchesStock(l) THEN sold
                ELSE IF l.kind = "create" THEN sold \cup {l.entry} ELSE sold \ {l.entry}
     /\ till' = [till EXCEPT ![p] = IF tips /\ done THEN [op |-> "tip", entry |-> l.entry]
                                      ELSE AtRest]
     /\ UNCHANGED <<today, closings, adjusted, raced, started>>

\* After the sale is saved, and not in its transaction.
RecordTip(p) ==
  /\ till[p].op = "tip"
  /\ books' = [books EXCEPT ![till[p].entry].tip = "recorded"]
  /\ till' = [till EXCEPT ![p] = AtRest]
  /\ UNCHANGED <<today, closings, sold, stock, adjusted, raced, started>>

AdjustStock(p, delta) ==
  /\ Begin(p, [op |-> "adjust", delta |-> delta, stock |-> <<stock>>])
  /\ raced' = (raced \/ OthersRead(p))
  /\ UNCHANGED <<today, books, closings, sold, stock, adjusted>>

SaveStock(p) ==
  /\ till[p].op = "adjust"
  /\ stock' = till[p].stock[1] + till[p].delta /\ adjusted' = adjusted + till[p].delta
  /\ till' = [till EXCEPT ![p] = AtRest]
  /\ UNCHANGED <<today, books, closings, sold, raced, started>>

-----------------------------------------------------------------------------
(* Closing a day *)

Closable(d) == d <= today /\ DayOpen(d)

BeginClosing(p, d) ==
  /\ Closable(d)
  /\ Begin(p, [op |-> "close", date |-> d, opening |-> OpeningCash(d), booked |-> BookedOn(d),
               expected |-> AggregateExpected(EntriesOf(BookedOn(d)), OpeningCash(d))])
  /\ UNCHANGED <<today, books, closings, sold, stock, adjusted, raced>>

\* What is counted: every expected cell, one of them off or none.
Counts(expected) ==
  LET exact == [cell \in DOMAIN expected |-> Max({0, expected[cell]})]
  IN {exact} \cup {[exact EXCEPT ![cell] = @ + 1] : cell \in DOMAIN expected}

\* The fund for the next day: all the cash, or a part of it.
RetainedCash(cash) ==
  {cash} \cup {fund \in [Currency -> 0..1] : \A c \in Currency : fund[c] <= cash[c]}

\* Mutant: there is no unique index.
NoIndex(d) == TRUE
\* The unique index over the active closings.
UniqueActive(d) == ActiveOn(d) = {}

\* late is what was written since the day was read, or is still to be written.
SaveClosing(p) ==
  LET l == till[p]
      late == {e \in Movement : BookedOn(l.date)[e] # l.booked[e]} \cup InFlight
  IN /\ l.op = "close"
     /\ IF ~UniqueActive(l.date) THEN UNCHANGED closings
        ELSE /\ Len(closings) < MaxClosings
             /\ \E counted \in Counts(l.expected) : \E fund \in RetainedCash(CountedCash(counted)) :
                  closings' = Append(closings,
                    [date |-> l.date, status |-> "closed", opening |-> l.opening,
                     expected |-> l.expected, counted |-> counted, retained |-> fund,
                     booked |-> l.booked, late |-> late])
     /\ till' = [till EXCEPT ![p] = AtRest]
     /\ UNCHANGED <<today, books, sold, stock, adjusted, raced, started>>

RevertClosing(k) ==
  /\ closings[k].status = "closed"
  /\ closings' = [closings EXCEPT ![k].status = "reverted"]
  /\ UNCHANGED <<today, books, till, sold, stock, adjusted, raced, started>>

-----------------------------------------------------------------------------
\* The request dies, or what it was about to write fails.
Fail(p) ==
  /\ till[p] # AtRest
  /\ till' = [till EXCEPT ![p] = AtRest]
  /\ UNCHANGED <<today, books, closings, sold, stock, adjusted, raced, started>>

NextDay ==
  /\ today < MaxDay /\ today' = today + 1
  /\ UNCHANGED <<books, closings, till, sold, stock, adjusted, raced, started>>

CashInit ==
  /\ today = 1 /\ books = [e \in Movement |-> Absent] /\ closings = <<>>
  /\ till = [p \in Cashier |-> AtRest]
  /\ sold = {} /\ stock = InitialStock /\ adjusted = 0 /\ raced = FALSE
  /\ started = 0

CashRequest(p) ==
  \/ \E e \in Manual, d \in Day : \E money \in Money[e] :
       CreateTransaction(p, e, money, d) \/ UpdateTransaction(p, e, money, d)
  \/ \E e \in Manual : RemoveTransaction(p, e)
  \/ \E e \in Charge : RevertPayment(p, e)
  \/ \E e \in Charge, d \in Day \cup {Owed} : \E money \in Money[e] :
       RegisterSessionPayment(p, e, money, d)
  \/ \E e \in Sale, d \in Day \cup {Owed}, tip \in {"none", "leftover"} : \E money \in Money[e] :
       CreateDirectSale(p, e, money, d, tip)
  \/ \E e \in Charge \cup Sale : MarkCollected(p, e)
  \/ \E delta \in Delta : AdjustStock(p, delta)
  \/ \E d \in Day : BeginClosing(p, d)

CashNext ==
  \/ \E p \in Cashier : \/ CashRequest(p) \/ ReadStock(p) \/ Put(p) \/ RecordTip(p)
                        \/ SaveStock(p) \/ SaveClosing(p) \/ Fail(p)
  \/ \E k \in DOMAIN closings : RevertClosing(k)
  \/ NextDay

CashSpec == CashInit /\ [][CashNext]_cashVars

-----------------------------------------------------------------------------
(* Properties *)

Fund == [Currency -> Nat]
Cell == Currency \X Method
RowOf(e) ==
  [id: 0..MaxStarted, money: Money[e] \cup {NoLines}, date: Day \cup {Owed}, tip: {"none", "leftover", "recorded"}]

CashTypeOK ==
  /\ today \in Day /\ started \in 0..MaxStarted
  /\ DOMAIN books = Movement /\ \A e \in Movement : books[e] \in RowOf(e) \cup {Absent}
  /\ \A e \in Manual : books[e] # Absent => books[e].date # Owed
  /\ sold \subseteq Charge \cup Sale /\ stock \in Int /\ adjusted \in Int /\ raced \in BOOLEAN
  /\ Len(closings) <= MaxClosings
  /\ \A k \in DOMAIN closings :
       /\ closings[k].date \in Day /\ closings[k].date <= today
       /\ closings[k].status \in {"closed", "reverted"}
       /\ closings[k].opening \in Fund /\ closings[k].retained \in Fund
       /\ DOMAIN closings[k].expected \subseteq Cell
       /\ DOMAIN closings[k].counted = DOMAIN closings[k].expected

\* However many requests close a day, one closing of it stands.
OneClosingPerDay == \A d \in Day : Cardinality(ActiveOn(d)) <= 1

\* While a day is closed its books are what the closing counted, but for what was
\* being written when it was closed: no operation that begins later changes them.
OnlyLateWritesAreMissed ==
  \A k \in DOMAIN closings : closings[k].status = "closed" =>
    \A e \in Movement \ closings[k].late :
      OnDay(books[e], closings[k].date) = closings[k].booked[e]

\* What an entry of the books brings in one currency.
Worth(money, c) ==
  IF money.currency # "VES" /\ money.method \in BOLIVAR_METHODS
  THEN IF c = "VES" THEN money.bs ELSE 0
  ELSE IF c = money.currency THEN money.amount ELSE 0
RowWorth(e, row, c) ==
  (IF e \in Manual THEN IF c = row.money.currency THEN row.money.amount ELSE 0
   ELSE Worth(row.money, c))
  + (CASE row.tip = "leftover" -> IF c = "VES" THEN Tip.bs ELSE 0
       [] row.tip = "recorded" -> Worth(Tip, c)
       [] OTHER -> 0)

\* The cells of a closing add up, in each currency, to the opening cash and every
\* movement of the day: none is lost between the cells and none is in two.
LinesAddUp ==
  \A k \in DOMAIN closings : \A c \in Currency :
    LET closing == closings[k]
        counted == {e \in Movement : closing.booked[e] # Absent}
    IN SumFunctionOnSet(closing.expected, {cell \in DOMAIN closing.expected : cell[1] = c})
       = closing.opening[c]
         + SumFunctionOnSet([e \in counted |-> RowWorth(e, closing.booked[e], c)], counted)

\* The fund a day opens with was counted in cash when an earlier day was closed.
OpeningWasCounted ==
  \A k \in DOMAIN closings : \A c \in Currency : closings[k].opening[c] > 0 =>
    \E j \in DOMAIN closings :
      /\ closings[j].date < closings[k].date
      /\ closings[k].opening[c] <= CountedCash(closings[j].counted)[c]

\* The stock is what was adjusted less what is sold, unless two requests had read
\* it before either wrote it.
StockIsExact ==
  ~raced => stock = InitialStock + adjusted - Cardinality(sold)

\* The books add up: the lines of every closing, its opening fund and the stock
\* (cash-closing.service.ts, product.service.ts).
BooksAddUp == CashTypeOK /\ LinesAddUp /\ OpeningWasCounted /\ StockIsExact

=============================================================================
