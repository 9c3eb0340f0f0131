-------------------------- MODULE SalonDeskProofs --------------------------
(***************************************************************************)
(* Theorems about CashRegister, for every set of movements and every       *)
(* number of requests; about BillingReminders, for every number of sweeps, *)
(* payments and failures and any length of the periods; and about          *)
(* ClientsReport, for every calendar, windows and days of the client.      *)
(***************************************************************************)
EXTENDS SalonDesk, FiniteData

-----------------------------------------------------------------------------
(* The movements of a day *)

BookedOK(booked) ==
  /\ DOMAIN booked = Movement
  /\ \A e \in Movement : booked[e] \in RowOf(e) \cup {Absent}

LineOf(e, row) == <<e, "line", IF e \in Manual THEN row.money ELSE PaidEntry(row.money)>>
TipLine(e, t) == <<e, "tip", t>>
TheTip(row) == CHOOSE t \in Tips(row) : TRUE

LEMMA RowIsNotAbsent ==
  ASSUME NEW e, NEW row \in RowOf(e)
  PROVE  row # Absent
<1>1. "id" \in DOMAIN row
  BY DEF RowOf
<1>2. "id" \notin DOMAIN Absent
  BY DEF Absent
<1>. QED BY <1>1, <1>2

LEMMA RowFields ==
  ASSUME NEW e \in Movement, NEW row \in RowOf(e)
  PROVE  /\ row = [id |-> row.id, money |-> row.money, date |-> row.date, tip |-> row.tip]
         /\ row.money \in Amount /\ row.date \in Day \cup {Owed}
         /\ row.tip \in {"none", "leftover", "recorded"} /\ row.id \in 0..MaxStarted
<1>1. Money[e] \subseteq Amount /\ NoLines \in Amount
  BY CashAssumption DEF NoLines, Amount, Method, Currency
<1>. QED BY <1>1 DEF RowOf

\* What a row brings has a cell.
Enters(x) ==
  /\ x.currency \in Currency /\ x.method \in Method /\ x.amount \in Int

LEMMA EntersHasCell ==
  ASSUME NEW x, Enters(x)
  PROVE  CellOf(x) \in Cell /\ CellOf(x)[1] = x.currency
BY DEF Enters, CellOf, Cell, Currency, Method

LEMMA PaidEntryEnters ==
  ASSUME NEW money \in Amount
  PROVE  /\ Enters(PaidEntry(money))
         /\ \A c \in Currency :
              Worth(money, c) = IF PaidEntry(money).currency = c THEN PaidEntry(money).amount ELSE 0
<1>1. /\ money.currency \in Currency /\ money.method \in Method
      /\ money.amount \in Int /\ money.bs \in Int
  BY DEF Amount
<1>. QED BY <1>1 DEF PaidEntry, Enters, Worth, Currency

LEMMA TipsAreOne ==
  ASSUME NEW e \in Movement, NEW row \in RowOf(e)
  PROVE  /\ \/ Tips(row) = {} /\ row.tip = "none"
            \/ Tips(row) = {TheTip(row)} /\ row.tip \in {"leftover", "recorded"}
         /\ Tips(row) # {} => Enters(TheTip(row))
         /\ \A c \in Currency :
              (CASE row.tip = "leftover" -> IF c = "VES" THEN Tip.bs ELSE 0
                 [] row.tip = "recorded" -> Worth(Tip, c)
                 [] OTHER -> 0)
              = IF Tips(row) # {} /\ TheTip(row).currency = c THEN TheTip(row).amount ELSE 0
<1>1. Tip \in Amount /\ row.tip \in {"none", "leftover", "recorded"}
  BY CashAssumption, RowFields
<1>2. CASE row.tip = "none"
  BY <1>2 DEF Tips
<1>3. CASE row.tip = "recorded"
  <2>1. Tips(row) = {PaidEntry(Tip)}
    BY <1>3 DEF Tips
  <2>2. TheTip(row) = PaidEntry(Tip)
    BY <2>1 DEF TheTip
  <2>3. \A c \in Currency :
          Worth(Tip, c) = IF PaidEntry(Tip).currency = c THEN PaidEntry(Tip).amount ELSE 0
    BY <1>1, PaidEntryEnters
  <2>4. Enters(PaidEntry(Tip))
    BY <1>1, PaidEntryEnters
  <2>5. row.tip # "leftover"
    BY <1>3
  <2>. QED BY <1>3, <2>1, <2>2, <2>3, <2>4, <2>5
<1>4. CASE row.tip = "leftover"
  <2>. DEFINE inBs == [Tip EXCEPT !.currency = "VES"]
              t == [PaidEntry(inBs) EXCEPT !.amount = Tip.bs]
  <2>1. inBs \in Amount /\ inBs.currency = "VES"
    BY <1>1 DEF Amount, Currency
  <2>2. PaidEntry(inBs) = [currency |-> "VES", method |-> inBs.method, amount |-> inBs.amount]
    BY <2>1 DEF PaidEntry
  <2>3. t.currency = "VES" /\ t.amount = Tip.bs /\ t.method \in Method
    BY <2>1, <2>2 DEF Amount
  <2>4. Tip.bs \in Int
    BY <1>1 DEF Amount
  <2>5. Enters(t)
    BY <2>3, <2>4 DEF Enters, Currency
  <2>6. Tips(row) = {t}
    BY <1>4 DEF Tips
  <2>7. TheTip(row) = t
    BY <2>6 DEF TheTip
  <2>. HIDE DEF t
  <2>8. \A c \in Currency : (IF c = "VES" THEN Tip.bs ELSE 0) = IF t.currency = c THEN t.amount ELSE 0
    BY <2>3
  <2>. QED BY <1>4, <2>5, <2>6, <2>7, <2>8
<1>. QED BY <1>1, <1>2, <1>3, <1>4

\* The movements of a day: a line of each, and a tip of some.
LEMMA EntriesAreLines ==
  ASSUME NEW booked, BookedOK(booked)
  PROVE  \A x : x \in EntriesOf(booked) <=>
           \E e \in Movement : /\ booked[e] # Absent
                               /\ \/ x = LineOf(e, booked[e])
                                  \/ Tips(booked[e]) # {} /\ x = TipLine(e, TheTip(booked[e]))
<1>. DEFINE present == {e \in Movement : booked[e] # Absent}
            lines == {<<e, "line", IF e \in Manual THEN booked[e].money
                                   ELSE PaidEntry(booked[e].money)>> : e \in present}
            tips == UNION {{<<e, "tip", t>> : t \in Tips(booked[e])} : e \in present}
<1>1. EntriesOf(booked) = lines \cup tips
  BY DEF EntriesOf
<1>2. \A x : x \in lines <=> \E e \in present : x = LineOf(e, booked[e])
  BY DEF LineOf
<1>3. \A x : x \in tips <=> \E e \in present : \E t \in Tips(booked[e]) : x = TipLine(e, t)
  BY DEF TipLine
<1>4. \A e \in present : Tips(booked[e]) = {} \/ Tips(booked[e]) = {TheTip(booked[e])}
  BY TipsAreOne DEF BookedOK
<1>. HIDE DEF lines, tips
<1>5. \A x : x \in tips <=> \E e \in present :
                Tips(booked[e]) # {} /\ x = TipLine(e, TheTip(booked[e]))
  <2>. TAKE x
  <2>1. ASSUME NEW e \in present
        PROVE  (\E t \in Tips(booked[e]) : x = TipLine(e, t))
               <=> (Tips(booked[e]) # {} /\ x = TipLine(e, TheTip(booked[e])))
    BY <1>4
  <2>2. x \in tips <=> \E e \in present : \E t \in Tips(booked[e]) : x = TipLine(e, t)
    BY <1>3
  <2>. HIDE DEF present
  <2>. QED BY <2>1, <2>2, Zenon
<1>. QED BY <1>1, <1>2, <1>5

LEMMA EntriesEnter ==
  ASSUME NEW booked, BookedOK(booked), NEW x \in EntriesOf(booked)
  PROVE  /\ x[1] \in Movement /\ booked[x[1]] # Absent
         /\ Enters(x[3])
         /\ \/ x = LineOf(x[1], booked[x[1]])
            \/ Tips(booked[x[1]]) # {} /\ x = TipLine(x[1], TheTip(booked[x[1]]))
<1>1. PICK e \in Movement : /\ booked[e] # Absent
                            /\ \/ x = LineOf(e, booked[e])
                               \/ Tips(booked[e]) # {} /\ x = TipLine(e, TheTip(booked[e]))
  BY EntriesAreLines
<1>2. booked[e] \in RowOf(e)
  BY <1>1 DEF BookedOK
<1>3. CASE x = LineOf(e, booked[e])
  <2>1. x[1] = e /\ x[3] = IF e \in Manual THEN booked[e].money ELSE PaidEntry(booked[e].money)
    BY <1>3 DEF LineOf
  <2>2. booked[e].money \in Amount
    BY <1>2, RowFields
  <2>3. Enters(booked[e].money)
    BY <2>2 DEF Enters, Amount
  <2>4. Enters(PaidEntry(booked[e].money))
    BY <2>2, PaidEntryEnters
  <2>. QED BY <1>1, <1>3, <2>1, <2>3, <2>4
<1>4. CASE Tips(booked[e]) # {} /\ x = TipLine(e, TheTip(booked[e]))
  <2>1. x[1] = e /\ x[3] = TheTip(booked[e])
    BY <1>4 DEF TipLine
  <2>. QED BY <1>1, <1>2, <1>4, <2>1, TipsAreOne
<1>. QED BY <1>1, <1>3, <1>4

LEMMA EntriesAreFinite ==
  ASSUME NEW booked, BookedOK(booked)
  PROVE  IsFiniteSet(EntriesOf(booked))
<1>. DEFINE line == [e \in Movement |-> LineOf(e, booked[e])]
            tip == [e \in Movement |-> TipLine(e, TheTip(booked[e]))]
            both == {line[e] : e \in Movement} \cup {tip[e] : e \in Movement}
<1>1. IsFiniteSet(Movement)
  BY CashAssumption
<1>2. IsFiniteSet(both)
  <2>. HIDE DEF line, tip
  <2>1. IsFiniteSet({line[e] : e \in Movement}) /\ IsFiniteSet({tip[e] : e \in Movement})
    BY <1>1, FiniteImage
  <2>. QED BY <2>1, FS_Union
<1>3. EntriesOf(booked) \subseteq both
  <2>. SUFFICES ASSUME NEW x \in EntriesOf(booked) PROVE x \in both
    OBVIOUS
  <2>1. x[1] \in Movement /\ (x = LineOf(x[1], booked[x[1]]) \/ x = TipLine(x[1], TheTip(booked[x[1]])))
    BY EntriesEnter
  <2>2. x = line[x[1]] \/ x = tip[x[1]]
    BY <2>1
  <2>. QED BY <2>1, <2>2
<1>. HIDE DEF both
<1>. QED BY <1>2, <1>3, FS_Subset

-----------------------------------------------------------------------------
(* The cells of a closing *)

FundOf(opening, c) == CellOf([currency |-> c, method |-> "cash", amount |-> opening[c]])
CellsOf(booked, opening) ==
  {CellOf(x[3]) : x \in EntriesOf(booked)}
  \cup {FundOf(opening, c) : c \in {c \in Currency : opening[c] # 0}}
AmountsOf(entries) == [x \in entries |-> x[3].amount]
InCell(entries, cell) == {x \in entries : CellOf(x[3]) = cell}
FundIn(opening, cell) == {c \in Currency : FundOf(opening, c) = cell}

LEMMA CurrencyIsFinite == IsFiniteSet(Currency)
<1>1. IsFiniteSet({"VES"})
  BY FS_Singleton
<1>2. IsFiniteSet({"VES"} \cup {"USD"})
  BY <1>1, FS_AddElement
<1>3. Currency = {"VES"} \cup {"USD"}
  BY DEF Currency
<1>. QED BY <1>2, <1>3

LEMMA FundHasCell ==
  ASSUME NEW opening, NEW c \in Currency
  PROVE  FundOf(opening, c) \in Cell /\ FundOf(opening, c)[1] = c
BY DEF FundOf, CellOf, Cell, Currency, Method

LEMMA AggregateIs ==
  ASSUME NEW booked, BookedOK(booked), NEW opening \in Fund
  PROVE  LET expected == AggregateExpected(EntriesOf(booked), opening)
             entries == EntriesOf(booked)
         IN /\ DOMAIN expected = CellsOf(booked, opening)
            /\ CellsOf(booked, opening) \subseteq Cell
            /\ \A cell \in CellsOf(booked, opening) :
                 expected[cell] = SumFunctionOnSet(AmountsOf(entries), InCell(entries, cell))
                                  + SumFunctionOnSet(opening, FundIn(opening, cell))
<1>. DEFINE entries == EntriesOf(booked)
            fund(c) == CellOf([currency |-> c, method |-> "cash", amount |-> opening[c]])
            cells == {CellOf(x[3]) : x \in entries}
                     \cup {fund(c) : c \in {c \in Currency : opening[c] # 0}}
<1>1. AggregateExpected(entries, opening) =
        [cell \in cells |->
           SumFunctionOnSet([x \in entries |-> x[3].amount], {x \in entries : CellOf(x[3]) = cell})
           + SumFunctionOnSet(opening, {c \in Currency : fund(c) = cell})]
  BY DEF AggregateExpected
<1>2. cells = CellsOf(booked, opening)
  BY DEF CellsOf, FundOf
<1>3. CellsOf(booked, opening) \subseteq Cell
  BY EntriesEnter, EntersHasCell, FundHasCell DEF CellsOf
<1>. QED BY <1>1, <1>2, <1>3 DEF AmountsOf, InCell, FundIn, FundOf

LEMMA AggregateIsInt ==
  ASSUME NEW booked, BookedOK(booked), NEW opening \in Fund
  PROVE  LET expected == AggregateExpected(EntriesOf(booked), opening)
         IN /\ DOMAIN expected \subseteq Cell
            /\ \A cell \in DOMAIN expected : expected[cell] \in Int
<1>. DEFINE entries == EntriesOf(booked)
<1>1. ASSUME NEW cell
      PROVE  /\ SumFunctionOnSet(AmountsOf(entries), InCell(entries, cell)) \in Int
             /\ SumFunctionOnSet(opening, FundIn(opening, cell)) \in Int
  <2>1. InCell(entries, cell) \subseteq entries /\ IsFiniteSet(InCell(entries, cell))
    BY EntriesAreFinite, FS_Subset DEF InCell
  <2>2. \A x \in InCell(entries, cell) : AmountsOf(entries)[x] \in Int
    BY <2>1, EntriesEnter DEF AmountsOf, Enters
  <2>3. FundIn(opening, cell) \subseteq Currency /\ IsFiniteSet(Currency)
    BY CurrencyIsFinite DEF FundIn
  <2>4. IsFiniteSet(FundIn(opening, cell)) /\ \A c \in FundIn(opening, cell) : opening[c] \in Int
    BY <2>3, FS_Subset DEF Fund
  <2>. QED BY <2>1, <2>2, <2>4, SumIsInt
<1>. QED BY <1>1, AggregateIs

\* The part of a day's worth that is in one currency.
OfCurrency(entries, c) == {x \in entries : x[3].currency = c}
WorthOf(booked, c) ==
  [e \in {e \in Movement : booked[e] # Absent} |-> RowWorth(e, booked[e], c)]

\* One movement brings what its line and its tip bring.
LEMMA RowBrings ==
  ASSUME NEW booked, BookedOK(booked), NEW c \in Currency,
         NEW e \in Movement, booked[e] # Absent
  PROVE  LET entries == EntriesOf(booked)
         IN SumFunctionOnSet(AmountsOf(entries), {x \in OfCurrency(entries, c) : x[1] = e})
            = RowWorth(e, booked[e], c)
<1>. DEFINE entries == EntriesOf(booked)
            f == AmountsOf(entries)
            row == booked[e]
            line == LineOf(e, row)
            tip == TipLine(e, TheTip(row))
            S == {x \in OfCurrency(entries, c) : x[1] = e}
            hasLine == line[3].currency = c
            hasTip == Tips(row) # {} /\ TheTip(row).currency = c
            lineWorth == IF hasLine THEN line[3].amount ELSE 0
            tipWorth == IF hasTip THEN TheTip(row).amount ELSE 0
<1>1. row \in RowOf(e)
  BY DEF BookedOK
<1>2. line \in entries /\ (Tips(row) # {} => tip \in entries)
  BY EntriesAreLines
<1>3. line[1] = e /\ tip[1] = e /\ tip[3] = TheTip(row) /\ line # tip
  BY DEF LineOf, TipLine
<1>4. Enters(line[3])
  BY <1>2, EntriesEnter
<1>5. \A x \in entries : x[1] = e => x = line \/ (Tips(row) # {} /\ x = tip)
  BY EntriesEnter
<1>6. RowWorth(e, row, c) = lineWorth + tipWorth
  <2>1. (IF e \in Manual THEN IF c = row.money.currency THEN row.money.amount ELSE 0
         ELSE Worth(row.money, c)) = lineWorth
    <3>1. row.money \in Amount
      BY <1>1, RowFields
    <3>2. CASE e \in Manual
      BY <3>2 DEF LineOf
    <3>3. CASE e \notin Manual
      BY <3>1, <3>3, PaidEntryEnters DEF LineOf
    <3>. QED BY <3>2, <3>3
  <2>2. (CASE row.tip = "leftover" -> IF c = "VES" THEN Tip.bs ELSE 0
           [] row.tip = "recorded" -> Worth(Tip, c)
           [] OTHER -> 0) = tipWorth
    BY <1>1, TipsAreOne
  <2>. HIDE DEF lineWorth, tipWorth
  <2>. QED BY <2>1, <2>2 DEF RowWorth
<1>7. /\ f[line] = line[3].amount /\ f[line] \in Int
      /\ Tips(row) # {} => f[tip] = TheTip(row).amount /\ f[tip] \in Int
  BY <1>2, <1>3, EntriesEnter DEF AmountsOf, Enters
<1>8. S = (IF hasLine THEN {line} ELSE {}) \cup (IF hasTip THEN {tip} ELSE {})
  BY <1>2, <1>3, <1>5 DEF OfCurrency
<1>. HIDE DEF f, row, line, tip, S
<1>9. /\ SumFunctionOnSet(f, {}) = 0
      /\ hasLine => SumFunctionOnSet(f, {line}) = f[line]
      /\ hasTip => SumFunctionOnSet(f, {tip}) = f[tip]
      /\ hasLine /\ hasTip => SumFunctionOnSet(f, {line} \cup {tip}) = f[line] + f[tip]
  <2>1. SumFunctionOnSet(f, {}) = 0 /\ IsFiniteSet({}) /\ IsFiniteSet({line})
    BY SumEmpty, FS_EmptySet, FS_Singleton
  <2>2. SumFunctionOnSet(f, {} \cup {line}) = f[line] + 0
    BY <2>1, <1>7, SumAdd
  <2>3. hasTip => SumFunctionOnSet(f, {} \cup {tip}) = f[tip] + 0
    BY <2>1, <1>7, SumAdd
  <2>4. hasTip => SumFunctionOnSet(f, {line} \cup {tip}) = f[tip] + SumFunctionOnSet(f, {line})
    BY <2>1, <1>3, <1>7, SumAdd
  <2>5. {} \cup {line} = {line} /\ {} \cup {tip} = {tip}
    OBVIOUS
  <2>. QED BY <2>1, <2>2, <2>3, <2>4, <2>5, <1>7
<1>10. SumFunctionOnSet(f, S) = lineWorth + tipWorth
  <2>1. CASE hasLine /\ hasTip
    BY <2>1, <1>7, <1>8, <1>9
  <2>2. CASE hasLine /\ ~hasTip
    <3>1. S = {line}
      BY <2>2, <1>8
    <3>. QED BY <2>2, <3>1, <1>7, <1>9
  <2>3. CASE ~hasLine /\ hasTip
    <3>1. S = {tip}
      BY <2>3, <1>8
    <3>. QED BY <2>3, <3>1, <1>7, <1>9
  <2>4. CASE ~hasLine /\ ~hasTip
    <3>1. S = {}
      BY <2>4, <1>8
    <3>. QED BY <2>4, <3>1, <1>9
  <2>. QED BY <2>1, <2>2, <2>3, <2>4
<1>. QED BY <1>6, <1>10 DEF S, f, row

\* The movements of a currency add up to what each brings.
LEMMA EntriesAddUp ==
  ASSUME NEW booked, BookedOK(booked), NEW c \in Currency
  PROVE  LET entries == EntriesOf(booked)
             present == {e \in Movement : booked[e] # Absent}
         IN SumFunctionOnSet(AmountsOf(entries), OfCurrency(entries, c))
            = SumFunctionOnSet(WorthOf(booked, c), present)
<1>. DEFINE entries == EntriesOf(booked)
            present == {e \in Movement : booked[e] # Absent}
            E == OfCurrency(entries, c)
            f == AmountsOf(entries)
            of == [x \in entries |-> x[1]]
            g == Parts(f, E, of, present)
<1>1. IsFiniteSet(E) /\ E \subseteq entries
  BY EntriesAreFinite, FS_Subset DEF OfCurrency
<1>2. IsFiniteSet(present)
  BY CashAssumption, FS_Subset
<1>3. \A x \in E : of[x] \in present /\ f[x] \in Int
  BY <1>1, EntriesEnter DEF AmountsOf, Enters
<1>4. SumFunctionOnSet(g, present) = SumFunctionOnSet(f, E)
  <2>. HIDE DEF E, f, of, present
  <2>. QED BY <1>1, <1>2, <1>3, SumByParts
<1>5. ASSUME NEW e \in present PROVE g[e] = WorthOf(booked, c)[e] /\ g[e] \in Int
  <2>1. {x \in E : of[x] = e} = {x \in E : x[1] = e}
    BY <1>1
  <2>2. g[e] = SumFunctionOnSet(f, {x \in E : of[x] = e})
    BY DEF Parts
  <2>3. g[e] = RowWorth(e, booked[e], c)
    BY <2>1, <2>2, RowBrings
  <2>4. IsFiniteSet({x \in E : of[x] = e}) /\ \A x \in {x \in E : of[x] = e} : f[x] \in Int
    BY <1>1, <1>3, FS_Subset
  <2>5. g[e] \in Int
    <3>. HIDE DEF f
    <3>. QED BY <2>2, <2>4, SumIsInt
  <2>. QED BY <2>3, <2>5 DEF WorthOf
<1>6. SumFunctionOnSet(WorthOf(booked, c), present) = SumFunctionOnSet(g, present)
  <2>. HIDE DEF g, present
  <2>. QED BY <1>2, <1>5, SumSame
<1>. QED BY <1>4, <1>6

LEMMA CellsAddUp ==
  ASSUME NEW booked, BookedOK(booked), NEW opening \in Fund, NEW c \in Currency
  PROVE  LET expected == AggregateExpected(EntriesOf(booked), opening)
             present == {e \in Movement : booked[e] # Absent}
         IN SumFunctionOnSet(expected, {cell \in DOMAIN expected : cell[1] = c})
            = opening[c] + SumFunctionOnSet(WorthOf(booked, c), present)
<1>. DEFINE entries == EntriesOf(booked)
            expected == AggregateExpected(entries, opening)
            C == {cell \in CellsOf(booked, opening) : cell[1] = c}
            E == OfCurrency(entries, c)
            f == AmountsOf(entries)
            at == [x \in entries |-> CellOf(x[3])]
            lines == Parts(f, E, at, C)
            fund == [cell \in C |-> SumFunctionOnSet(opening, FundIn(opening, cell))]
            own == FundOf(opening, c)
<1>1. IsFiniteSet(C)
  <2>1. IsFiniteSet(Cell)
    <3>1. IsFiniteSet({"cash", "cash_bs", "card"})
      <4>1. IsFiniteSet(({"cash"} \cup {"cash_bs"}) \cup {"card"})
        BY FS_Singleton, FS_AddElement, ZenonT(30)
      <4>2. ({"cash"} \cup {"cash_bs"}) \cup {"card"} = {"cash", "cash_bs", "card"}
        OBVIOUS
      <4>. QED BY <4>1, <4>2
    <3>. QED BY <3>1, CurrencyIsFinite, FS_Product DEF Cell, Method
  <2>2. C \subseteq Cell
    BY AggregateIs
  <2>. QED BY <2>1, <2>2, FS_Subset
<1>2. E \subseteq entries /\ IsFiniteSet(E)
  BY EntriesAreFinite, FS_Subset DEF OfCurrency
<1>3. \A x \in E : at[x] \in C /\ f[x] \in Int
  <2>. TAKE x \in E
  <2>1. x \in entries /\ x[3].currency = c /\ Enters(x[3])
    BY EntriesEnter DEF OfCurrency
  <2>2. CellOf(x[3]) \in CellsOf(booked, opening) /\ CellOf(x[3])[1] = c
    BY <2>1, EntersHasCell DEF CellsOf
  <2>. QED BY <2>1, <2>2 DEF AmountsOf, Enters
<1>4. ASSUME NEW cell \in C
      PROVE  /\ expected[cell] = lines[cell] + fund[cell]
             /\ lines[cell] \in Int
             /\ fund[cell] = IF cell = own THEN opening[c] ELSE 0
  <2>1. InCell(entries, cell) = {x \in E : at[x] = cell}
    <3>1. \A x \in entries : CellOf(x[3])[1] = x[3].currency
      BY EntriesEnter, EntersHasCell
    <3>. QED BY <3>1 DEF InCell, OfCurrency
  <2>2. expected[cell] = SumFunctionOnSet(f, InCell(entries, cell))
                         + SumFunctionOnSet(opening, FundIn(opening, cell))
    BY AggregateIs
  <2>3. lines[cell] = SumFunctionOnSet(f, {x \in E : at[x] = cell})
    BY DEF Parts
  <2>4. IsFiniteSet({x \in E : at[x] = cell}) /\ \A x \in {x \in E : at[x] = cell} : f[x] \in Int
    BY <1>2, <1>3, FS_Subset
  <2>5. lines[cell] \in Int
    <3>. HIDE DEF f, lines
    <3>. QED BY <2>3, <2>4, SumIsInt
  <2>6. fund[cell] = SumFunctionOnSet(opening, FundIn(opening, cell))
    OBVIOUS
  <2>7. expected[cell] = lines[cell] + fund[cell]
    <3>. HIDE DEF f, lines, fund, expected, at, E, entries
    <3>. QED BY <2>1, <2>2, <2>3, <2>6
  <2>8. opening[c] \in Int
    BY DEF Fund
  <2>9. fund[cell] = IF cell = own THEN opening[c] ELSE 0
    <3>1. cell = own => FundIn(opening, cell) = {} \cup {c}
      BY FundHasCell DEF FundIn
    <3>2. cell # own => FundIn(opening, cell) = {}
      BY FundHasCell DEF FundIn
    <3>3. SumFunctionOnSet(opening, {} \cup {c}) = opening[c] + 0 /\ SumFunctionOnSet(opening, {}) = 0
      BY <2>8, SumAdd, SumEmpty, FS_EmptySet
    <3>. HIDE DEF fund, own
    <3>4. CASE cell = own
      <4>1. SumFunctionOnSet(opening, FundIn(opening, cell))
              = SumFunctionOnSet(opening, {} \cup {c})
        BY <3>1, <3>4
      <4>. QED BY <2>6, <2>8, <3>3, <3>4, <4>1
    <3>5. CASE cell # own
      <4>1. SumFunctionOnSet(opening, FundIn(opening, cell)) = SumFunctionOnSet(opening, {})
        BY <3>2, <3>5
      <4>. QED BY <2>6, <3>3, <3>5, <4>1
    <3>. QED BY <3>4, <3>5
  <2>. QED BY <2>5, <2>7, <2>9
<1>5. SumFunctionOnSet(expected, C) = SumFunctionOnSet(lines, C) + SumFunctionOnSet(fund, C)
  <2>1. opening[c] \in Int
    BY DEF Fund
  <2>2. \A cell \in C : lines[cell] \in Int /\ fund[cell] \in Int
                        /\ expected[cell] = lines[cell] + fund[cell]
    <3>. HIDE DEF lines, fund, expected, C, own
    <3>. QED BY <1>4, <2>1
  <2>. HIDE DEF lines, fund, expected, C
  <2>. QED BY <1>1, <2>2, SumPlus
<1>6. SumFunctionOnSet(lines, C) = SumFunctionOnSet(f, E)
  <2>. HIDE DEF C, E, f, at
  <2>. QED BY <1>1, <1>2, <1>3, SumByParts
<1>7. SumFunctionOnSet(fund, C) = opening[c]
  <2>1. opening[c] \in Int
    BY DEF Fund
  <2>2. own \in C \/ opening[c] = 0
    BY FundHasCell DEF CellsOf
  <2>3. CASE opening[c] = 0
    <3>1. \A cell \in C : fund[cell] = 0
      BY <1>4, <2>3
    <3>. HIDE DEF fund, C
    <3>. QED BY <1>1, <2>3, <3>1, SumZero
  <2>4. CASE own \in C
    <3>1. \A cell \in C : fund[cell] \in Int /\ (cell # own => fund[cell] = 0)
      <4>. HIDE DEF fund, lines, expected, C, own
      <4>. QED BY <1>4, <2>1
    <3>2. fund[own] = opening[c]
      BY <1>4, <2>4
    <3>. HIDE DEF fund, C, own
    <3>3. SumFunctionOnSet(fund, C) = fund[own] + SumFunctionOnSet(fund, C \ {own})
      BY <1>1, <2>4, <3>1, SumOneTerm
    <3>4. SumFunctionOnSet(fund, C \ {own}) = 0
      BY <1>1, <3>1, FS_RemoveElement, SumZero
    <3>. QED BY <2>1, <3>2, <3>3, <3>4
  <2>. QED BY <2>2, <2>3, <2>4
<1>8. {cell \in DOMAIN expected : cell[1] = c} = C
  BY AggregateIs
<1>9. SumFunctionOnSet(WorthOf(booked, c), {e \in Movement : booked[e] # Absent}) \in Int
  <2>1. SumFunctionOnSet(f, E) \in Int
    <3>. HIDE DEF f, E
    <3>. QED BY <1>2, <1>3, SumIsInt
  <2>. QED BY <2>1, EntriesAddUp
<1>10. SumFunctionOnSet(f, E)
         = SumFunctionOnSet(WorthOf(booked, c), {e \in Movement : booked[e] # Absent})
  BY EntriesAddUp
<1>11. opening[c] \in Int
  BY DEF Fund
<1>12. SumFunctionOnSet(expected, C) = opening[c]
         + SumFunctionOnSet(WorthOf(booked, c), {e \in Movement : booked[e] # Absent})
  <2>. HIDE DEF C, expected, lines, fund, f, E
  <2>. QED BY <1>5, <1>6, <1>7, <1>9, <1>10, <1>11
<1>. QED
  <2>. HIDE DEF C
  <2>. QED BY <1>8, <1>12

-----------------------------------------------------------------------------
(* What the requests hold and the closings keep *)

Kind == {"create", "update", "remove", "revert", "collect", "erase"}

\* What a request means to write: the row of an entry, and the stock it read.
PutOK(l) ==
  /\ l = [op |-> "put", entry |-> l.entry, row |-> l.row, kind |-> l.kind, stock |-> l.stock]
  /\ l.entry \in Movement /\ l.kind \in Kind
  /\ IF l.kind = "remove" THEN l.row = Absent ELSE l.row \in RowOf(l.entry)
  /\ l.kind \in {"update", "remove"} => l.entry \in Manual
  /\ l.kind \in {"revert", "erase"} => l.entry \in Charge
  /\ l.kind = "collect" => l.entry \in Charge \cup Sale
  /\ l.entry \in Manual /\ l.kind # "remove" => l.row.date # Owed
  /\ l.kind = "create" /\ l.row.tip = "leftover" => l.entry \in Sale
  /\ l.stock # Unread => TouchesStock(l) /\ l.stock[1] \in Int

\* The cells of a day are what its movements and its opening cash add up to.
DayOK(l, now) ==
  /\ l.date \in Day /\ l.date <= now /\ l.opening \in Fund
  /\ BookedOK(l.booked)
  /\ l.expected = AggregateExpected(EntriesOf(l.booked), l.opening)

TillOK(l, rows, now) ==
  /\ l.op \in {"idle", "put", "tip", "adjust", "close"}
  /\ l.op = "idle" => l = AtRest
  /\ l.op = "put" => PutOK(l)
  /\ l.op = "tip" => l.entry \in Sale /\ rows[l.entry] # Absent
  /\ l.op = "adjust" => l.delta \in Int /\ l.stock # Unread /\ l.stock[1] \in Int
  /\ l.op = "close" => DayOK(l, now)

\* No more is kept for the next day than the cash that was counted.
ClosingOK(l, now) ==
  /\ l = [date |-> l.date, status |-> l.status, opening |-> l.opening, expected |-> l.expected,
          counted |-> l.counted, retained |-> l.retained, booked |-> l.booked, late |-> l.late]
  /\ DayOK(l, now)
  /\ l.status \in {"closed", "reverted"} /\ l.retained \in Fund
  /\ DOMAIN l.counted = DOMAIN l.expected
  /\ \A c \in Currency : l.retained[c] <= CountedCash(l.counted)[c]

RowsTyped ==
  /\ today \in Day /\ started \in 0..MaxStarted
  /\ BookedOK(books)
  /\ \A e \in Manual : books[e] # Absent => books[e].date # Owed
  /\ sold \subseteq Charge \cup Sale /\ stock \in Int /\ adjusted \in Int /\ raced \in BOOLEAN
TillTyped == DOMAIN till = Cashier /\ \A p \in Cashier : TillOK(till[p], books, today)
ClosingsTyped ==
  /\ IsSequence(closings) /\ Len(closings) <= MaxClosings
  /\ \A k \in DOMAIN closings : ClosingOK(closings[k], today)

CashTyped == RowsTyped /\ TillTyped /\ ClosingsTyped

-----------------------------------------------------------------------------
(* A closed day *)

OneClosing ==
  \A j, k \in DOMAIN closings :
    closings[j].status = "closed" /\ closings[k].status = "closed"
    /\ closings[j].date = closings[k].date => j = k

\* A write that began after the day was closed is of a movement that the closing
\* did not count, and is for another day.
WritesElsewhere(l, closing) ==
  /\ l.op = "put" => /\ closing.booked[l.entry] = Absent
                     /\ l.row # Absent => l.row.date # closing.date
  /\ l.op = "tip" => closing.booked[l.entry] = Absent

Sealed ==
  \A k \in DOMAIN closings : closings[k].status = "closed" =>
    \A p \in Cashier :
      till[p].op \in {"put", "tip"} /\ till[p].entry \notin closings[k].late
      => WritesElsewhere(till[p], closings[k])

-----------------------------------------------------------------------------
(* The stock *)

Reads(p) == till[p].op \in {"put", "adjust"} /\ till[p].stock # Unread
SellsOut(p) == till[p].op = "put" /\ till[p].kind = "revert" /\ till[p].stock # Unread

OneReader == ~raced => \A p, q \in Cashier : Reads(p) /\ Reads(q) => p = q
ReadsTheStock == ~raced => \A p \in Cashier : Reads(p) => till[p].stock[1] = stock
SoldIsBooked == \A e \in sold : books[e] # Absent
UndoesTheSold == ~raced => \A p \in Cashier : SellsOut(p) => till[p].entry \in sold

\* A charge has an id that no earlier one of the same appointment had.
Differs(p, e, id) ==
  /\ books[e] # Absent => books[e].id # id
  /\ \A q \in Cashier \ {p} : till[q].op = "put" /\ till[q].entry = e /\ till[q].kind # "remove"
                              => till[q].row.id # id
NewIsNew ==
  \A p \in Cashier :
    till[p].op = "put" /\ till[p].kind = "create" /\ till[p].entry \in Charge
    => Differs(p, till[p].entry, till[p].row.id)
IdsAreStarts ==
  /\ \A e \in Charge : books[e] # Absent => books[e].id < started
  /\ \A p \in Cashier : till[p].op = "put" /\ till[p].entry \in Charge => till[p].row.id < started
ErasesAnother ==
  \A p \in Cashier :
    till[p].op = "put" /\ till[p].kind = "erase" /\ till[p].entry \in sold
    => books[till[p].entry].id # till[p].row.id

Stocked ==
  /\ OneReader /\ ReadsTheStock /\ SoldIsBooked /\ UndoesTheSold
  /\ NewIsNew /\ IdsAreStarts /\ ErasesAnother
  /\ StockIsExact

-----------------------------------------------------------------------------
(* The fund *)

\* One of the closings of an earlier day counted that much cash.
Counted(rows, d, opening) ==
  \A c \in Currency : opening[c] > 0 =>
    \E j \in DOMAIN rows :
      rows[j].date < d /\ opening[c] <= CountedCash(rows[j].counted)[c]

Funded ==
  /\ \A k \in DOMAIN closings : Counted(closings, closings[k].date, closings[k].opening)
  /\ \A p \in Cashier : till[p].op = "close" => Counted(closings, till[p].date, till[p].opening)

-----------------------------------------------------------------------------
(* The steps *)

\* A request begins that will write row for the movement e.
NewPut(p, e, row, kind) ==
  /\ Begin(p, Puts(e, row, kind))
  /\ UNCHANGED <<today, books, closings, sold, stock, adjusted, raced>>
  /\ \/ /\ kind = "create" /\ e \in Movement /\ books[e] = Absent
        /\ row \in RowOf(e) /\ (e \in Charge => row.id = started)
        /\ row.tip = "leftover" => e \in Sale
        /\ row.date # Owed => DayOpen(row.date)
        /\ e \in Manual => row.date # Owed
     \/ /\ kind = "update" /\ e \in Manual /\ books[e] # Absent
        /\ row \in RowOf(e) /\ row.date # Owed
        /\ DayOpen(books[e].date) /\ DayOpen(row.date)
     \/ /\ kind = "remove" /\ e \in Manual /\ books[e] # Absent /\ row = Absent
        /\ DayOpen(books[e].date)
     \/ /\ kind = "revert" /\ e \in Charge /\ books[e] # Absent /\ row = books[e]
        /\ row.date # Owed => DayOpen(row.date)
     \/ /\ kind = "collect" /\ e \in Charge \cup Sale /\ books[e] # Absent
        /\ books[e].date = Owed /\ row = [books[e] EXCEPT !.date = today] /\ DayOpen(today)

LEMMA RequestCases ==
  ASSUME CashTyped, NEW p \in Cashier, CashRequest(p)
  PROVE  \/ \E e, row, kind : NewPut(p, e, row, kind)
         \/ \E delta \in Delta : AdjustStock(p, delta)
         \/ \E d \in Day : BeginClosing(p, d)
<1>1. /\ started \in 0..MaxStarted /\ MaxStarted \in Nat /\ Owed \notin Day
      /\ \A e \in Manual : books[e] # Absent => books[e].date # Owed
      /\ started \in Nat
  BY CashAssumption DEF CashTyped, RowsTyped, Owed, Day
<1>2. ASSUME NEW e \in Movement, NEW money \in Money[e], NEW d \in Day \cup {Owed},
             NEW tip \in {"none", "leftover"}
      PROVE  /\ Row(e, money, d, tip) \in RowOf(e)
             /\ e \in Charge => Row(e, money, d, tip).id = started
             /\ Row(e, money, d, tip).date = d /\ Row(e, money, d, tip).tip = tip
  BY <1>1 DEF Row, RowOf
<1>3. Manual \subseteq Movement /\ Charge \subseteq Movement /\ Sale \subseteq Movement
  BY DEF Movement
<1>4. CASE \E e \in Manual, d \in Day : \E money \in Money[e] : CreateTransaction(p, e, money, d)
  <2>1. PICK e \in Manual, d \in Day : \E money \in Money[e] : CreateTransaction(p, e, money, d)
    BY <1>4
  <2>2. PICK money \in Money[e] : CreateTransaction(p, e, money, d)
    BY <2>1
  <2>3. NewPut(p, e, Row(e, money, d, "none"), "create")
    BY <1>1, <1>2, <1>3, <2>2 DEF CreateTransaction, NewPut, MayChange
  <2>. QED BY <2>3
<1>5. CASE \E e \in Manual, d \in Day : \E money \in Money[e] : UpdateTransaction(p, e, money, d)
  <2>1. PICK e \in Manual, d \in Day : \E money \in Money[e] : UpdateTransaction(p, e, money, d)
    BY <1>5
  <2>2. PICK money \in Money[e] : UpdateTransaction(p, e, money, d)
    BY <2>1
  <2>3. NewPut(p, e, Row(e, money, d, "none"), "update")
    BY <1>1, <1>2, <1>3, <2>2 DEF UpdateTransaction, NewPut, MayChange
  <2>. QED BY <2>3
<1>6. CASE \E e \in Manual : RemoveTransaction(p, e)
  <2>1. PICK e \in Manual : RemoveTransaction(p, e)
    BY <1>6
  <2>2. NewPut(p, e, Absent, "remove")
    BY <2>1 DEF RemoveTransaction, NewPut
  <2>. QED BY <2>2
<1>7. CASE \E e \in Charge : RevertPayment(p, e)
  <2>1. PICK e \in Charge : RevertPayment(p, e)
    BY <1>7
  <2>2. NewPut(p, e, books[e], "revert")
    BY <2>1 DEF RevertPayment, NewPut
  <2>. QED BY <2>2
<1>8. CASE \E e \in Charge, d \in Day \cup {Owed} : \E money \in Money[e] :
             RegisterSessionPayment(p, e, money, d)
  <2>1. PICK e \in Charge, d \in Day \cup {Owed} : \E money \in Money[e] :
          RegisterSessionPayment(p, e, money, d)
    BY <1>8
  <2>2. PICK money \in Money[e] : RegisterSessionPayment(p, e, money, d)
    BY <2>1
  <2>3. NewPut(p, e, Row(e, money, d, "none"), "create")
    BY <1>1, <1>2, <1>3, <2>2, CashAssumption DEF RegisterSessionPayment, NewPut
  <2>. QED BY <2>3
<1>9. CASE \E e \in Sale, d \in Day \cup {Owed}, tip \in {"none", "leftover"} :
             \E money \in Money[e] : CreateDirectSale(p, e, money, d, tip)
  <2>1. PICK e \in Sale, d \in Day \cup {Owed}, tip \in {"none", "leftover"} :
          \E money \in Money[e] : CreateDirectSale(p, e, money, d, tip)
    BY <1>9
  <2>2. PICK money \in Money[e] : CreateDirectSale(p, e, money, d, tip)
    BY <2>1
  <2>3. NewPut(p, e, Row(e, money, d, tip), "create")
    BY <1>1, <1>2, <1>3, <2>2, CashAssumption DEF CreateDirectSale, NewPut
  <2>. QED BY <2>3
<1>10. CASE \E e \in Charge \cup Sale : MarkCollected(p, e)
  <2>1. PICK e \in Charge \cup Sale : MarkCollected(p, e)
    BY <1>10
  <2>2. NewPut(p, e, [books[e] EXCEPT !.date = today], "collect")
    BY <2>1 DEF MarkCollected, NewPut
  <2>. QED BY <2>2
<1>. QED
  BY <1>4, <1>5, <1>6, <1>7, <1>8, <1>9, <1>10 DEF CashRequest

-----------------------------------------------------------------------------
(* Types *)

LEMMA TypedIsTypeOK ==
  ASSUME CashTyped
  PROVE  CashTypeOK /\ LinesAddUp
<1>1. ASSUME NEW k \in DOMAIN closings
      PROVE  /\ closings[k].date \in Day /\ closings[k].date <= today
             /\ closings[k].status \in {"closed", "reverted"}
             /\ closings[k].opening \in Fund /\ closings[k].retained \in Fund
             /\ DOMAIN closings[k].expected \subseteq Cell
             /\ DOMAIN closings[k].counted = DOMAIN closings[k].expected
  BY AggregateIsInt DEF CashTyped, ClosingsTyped, ClosingOK, DayOK
<1>2. CashTypeOK
  BY <1>1 DEF CashTyped, RowsTyped, ClosingsTyped, CashTypeOK, BookedOK
<1>3. ASSUME NEW k \in DOMAIN closings, NEW c \in Currency
      PROVE  SumFunctionOnSet(closings[k].expected,
                              {cell \in DOMAIN closings[k].expected : cell[1] = c})
             = closings[k].opening[c]
               + SumFunctionOnSet(WorthOf(closings[k].booked, c),
                                  {e \in Movement : closings[k].booked[e] # Absent})
  BY CellsAddUp DEF CashTyped, ClosingsTyped, ClosingOK, DayOK
<1>4. LinesAddUp
  BY <1>3 DEF LinesAddUp, WorthOf
<1>. QED BY <1>2, <1>4

LEMMA TypedInitially == CashInit => CashTyped
<1>. SUFFICES ASSUME CashInit PROVE CashTyped
  OBVIOUS
<1>1. 1 \in Day /\ 0 \in 0..MaxStarted /\ InitialStock \in Int /\ MaxClosings \in Nat
  BY CashAssumption DEF Day
<1>2. RowsTyped
  <2>1. BookedOK(books) /\ \A e \in Manual : books[e] = Absent
    BY DEF CashInit, BookedOK, Movement
  <2>2. raced \in BOOLEAN
    BY DEF CashInit
  <2>3. /\ today \in Day /\ started \in 0..MaxStarted
        /\ sold \subseteq Charge \cup Sale /\ stock \in Int /\ adjusted \in Int
    BY <1>1 DEF CashInit
  <2>. QED BY <2>1, <2>2, <2>3 DEF RowsTyped
<1>3. TillTyped
  BY DEF CashInit, TillTyped, TillOK, AtRest
<1>4. ClosingsTyped
  <2>1. IsSequence(closings) /\ Len(closings) = 0 /\ DOMAIN closings = {}
    BY DEF CashInit, IsSequence
  <2>. QED BY <1>1, <2>1 DEF ClosingsTyped
<1>. QED BY <1>2, <1>3, <1>4 DEF CashTyped

\* A request goes on to something that is well formed, and the rest stays.
LEMMA TillGoesOn ==
  ASSUME TillTyped, NEW p \in Cashier, NEW l, till' = [till EXCEPT ![p] = l],
         TillOK(l, books', today'),
         \A e \in Sale : books[e] # Absent => books'[e] # Absent, UNCHANGED today
  PROVE  TillTyped'
<1>1. DOMAIN till' = Cashier /\ \A q \in Cashier : till'[q] = IF q = p THEN l ELSE till[q]
  BY DEF TillTyped
<1>2. ASSUME NEW q \in Cashier, q # p PROVE TillOK(till'[q], books', today')
  <2>1. till'[q] = till[q] /\ TillOK(till[q], books, today)
    BY <1>1, <1>2 DEF TillTyped
  <2>. QED BY <2>1 DEF TillOK, DayOK
<1>3. TillOK(till'[p], books', today')
  BY <1>1
<1>. QED BY <1>1, <1>2, <1>3 DEF TillTyped

LEMMA ClosingsStay ==
  ASSUME ClosingsTyped, UNCHANGED closings, today \in Int, today' \in Int, today <= today'
  PROVE  ClosingsTyped'
BY DEF ClosingsTyped, ClosingOK, DayOK, Day

LEMMA NewPutIsTyped ==
  ASSUME CashTyped, NEW p \in Cashier, NEW e, NEW row, NEW kind, NewPut(p, e, row, kind)
  PROVE  CashTyped' /\ PutOK(Puts(e, row, kind)) /\ (kind # "remove" => row \in RowOf(e))
<1>. DEFINE l == Puts(e, row, kind)
<1>1. /\ till' = [till EXCEPT ![p] = l] /\ started' = started + 1 /\ started < MaxStarted
      /\ UNCHANGED <<today, books, closings, sold, stock, adjusted, raced>>
  BY DEF NewPut, Begin
<1>2. Manual \subseteq Movement /\ Charge \subseteq Movement /\ Sale \subseteq Movement
  BY DEF Movement
<1>3. e \in Movement /\ kind \in Kind
  BY <1>2 DEF NewPut, Kind
<1>4. BookedOK(books) /\ today \in Day
  BY DEF CashTyped, RowsTyped
<1>5. kind # "remove" => row \in RowOf(e)
  <2>1. kind \in {"create", "update"} => row \in RowOf(e)
    BY DEF NewPut
  <2>2. kind = "revert" => row \in RowOf(e)
    BY <1>3, <1>4 DEF NewPut, BookedOK
  <2>3. kind = "collect" => row \in RowOf(e)
    <3>. SUFFICES ASSUME kind = "collect" PROVE row \in RowOf(e)
      OBVIOUS
    <3>. DEFINE old == books[e]
    <3>1. old \in RowOf(e) /\ row = [old EXCEPT !.date = today]
      BY <1>3, <1>4 DEF NewPut, BookedOK
    <3>. HIDE DEF old
    <3>. QED BY <1>4, <3>1 DEF RowOf
  <2>4. kind # "erase"
    BY DEF NewPut
  <2>. QED BY <1>3, <2>1, <2>2, <2>3, <2>4 DEF Kind
<1>6. kind = "remove" => row = Absent
  BY DEF NewPut
<1>7. e \in Manual /\ kind # "remove" => row.date # Owed
  BY CashAssumption DEF NewPut
<1>8. /\ kind \in {"update", "remove"} => e \in Manual
      /\ kind \in {"revert", "erase"} => e \in Charge
      /\ kind = "collect" => e \in Charge \cup Sale
      /\ kind = "create" /\ row.tip = "leftover" => e \in Sale
  BY DEF NewPut
<1>9. PutOK(l)
  BY <1>3, <1>5, <1>6, <1>7, <1>8 DEF PutOK, Puts
<1>10. TillTyped'
  <2>1. TillOK(l, books', today')
    BY <1>9 DEF TillOK, Puts, PutOK, TouchesStock
  <2>. QED BY <1>1, <2>1, TillGoesOn DEF CashTyped
<1>11. RowsTyped'
  BY <1>1, CashAssumption DEF CashTyped, RowsTyped
<1>12. ClosingsTyped'
  BY <1>1, <1>4, ClosingsStay DEF CashTyped, Day
<1>. QED BY <1>5, <1>9, <1>10, <1>11, <1>12 DEF CashTyped

LEMMA AdjustIsTyped ==
  ASSUME CashTyped, NEW p \in Cashier, NEW delta \in Delta, AdjustStock(p, delta)
  PROVE  CashTyped'
<1>. DEFINE l == [op |-> "adjust", delta |-> delta, stock |-> <<stock>>]
<1>1. /\ till' = [till EXCEPT ![p] = l] /\ started' = started + 1 /\ started < MaxStarted
      /\ raced' = (raced \/ OthersRead(p))
      /\ UNCHANGED <<today, books, closings, sold, stock, adjusted>>
  BY DEF AdjustStock, Begin
<1>2. stock \in Int /\ delta \in Int /\ today \in Day
  BY CashAssumption DEF CashTyped, RowsTyped
<1>3. TillOK(l, books', today')
  BY <1>1, <1>2 DEF TillOK, Unread
<1>4. TillTyped'
  BY <1>1, <1>3, TillGoesOn DEF CashTyped
<1>5. RowsTyped'
  <2>1. raced' \in BOOLEAN
    BY <1>1
  <2>2. started' \in 0..MaxStarted
    BY <1>1, CashAssumption DEF CashTyped, RowsTyped
  <2>. QED BY <1>1, <2>1, <2>2 DEF CashTyped, RowsTyped
<1>6. ClosingsTyped'
  BY <1>1, <1>2, ClosingsStay DEF CashTyped, Day
<1>. QED BY <1>4, <1>5, <1>6 DEF CashTyped

LEMMA LastBefore ==
  ASSUME CashTyped, NEW S \in SUBSET (DOMAIN closings), S # {}
  PROVE  \E k \in S : \A j \in S : closings[j].date <= closings[k].date
<1>. DEFINE T == {MaxDay - closings[j].date : j \in S}
<1>1. \A j \in S : closings[j].date \in 1..MaxDay /\ MaxDay \in Nat
  BY CashAssumption DEF CashTyped, ClosingsTyped, ClosingOK, DayOK, Day
<1>2. T \in SUBSET Nat /\ T # {}
  BY <1>1
<1>3. PICK n \in T : \A m \in T : n <= m
  BY <1>2, LeastNat
<1>4. PICK k \in S : n = MaxDay - closings[k].date
  OBVIOUS
<1>5. ASSUME NEW j \in S PROVE closings[j].date <= closings[k].date
  <2>1. n <= MaxDay - closings[j].date
    BY <1>3
  <2>. QED BY <1>1, <1>4, <2>1
<1>. QED BY <1>5

LEMMA OpeningIsTyped ==
  ASSUME CashTyped, NEW d \in Day
  PROVE  OpeningCash(d) \in Fund
<1>. DEFINE before == {k \in DOMAIN closings : closings[k].date < d /\ closings[k].status = "closed"}
            last == CHOOSE k \in before : \A j \in before : closings[j].date <= closings[k].date
<1>1. CASE before = {}
  BY <1>1 DEF OpeningCash, Fund
<1>2. CASE before # {}
  <2>1. PICK k \in before : \A j \in before : closings[j].date <= closings[k].date
    BY <1>2, LastBefore
  <2>2. last \in before
    BY <2>1
  <2>3. closings[last].retained \in Fund
    BY <2>2 DEF CashTyped, ClosingsTyped, ClosingOK
  <2>4. OpeningCash(d) = closings[last].retained
    BY <1>2 DEF OpeningCash
  <2>. QED BY <2>3, <2>4
<1>. QED BY <1>1, <1>2

LEMMA BeginClosingIsTyped ==
  ASSUME CashTyped, NEW p \in Cashier, NEW d \in Day, BeginClosing(p, d)
  PROVE  CashTyped'
<1>. DEFINE l == [op |-> "close", date |-> d, opening |-> OpeningCash(d), booked |-> BookedOn(d),
               expected |-> AggregateExpected(EntriesOf(BookedOn(d)), OpeningCash(d))]
<1>1. /\ till' = [till EXCEPT ![p] = l] /\ started' = started + 1 /\ started < MaxStarted
      /\ UNCHANGED <<today, books, closings, sold, stock, adjusted, raced>>
      /\ d <= today
  BY DEF BeginClosing, Begin, Closable
<1>2. today \in Day /\ BookedOK(books)
  BY DEF CashTyped, RowsTyped
<1>3. BookedOK(BookedOn(d))
  BY <1>2 DEF BookedOK, BookedOn, OnDay
<1>4. OpeningCash(d) \in Fund
  BY OpeningIsTyped
<1>5. l.op = "close" /\ l.date = d /\ l.opening = OpeningCash(d) /\ l.booked = BookedOn(d)
      /\ l.expected = AggregateExpected(EntriesOf(BookedOn(d)), OpeningCash(d))
  OBVIOUS
<1>6. TillOK(l, books', today')
  <2>. HIDE DEF l
  <2>. QED BY <1>1, <1>3, <1>4, <1>5 DEF TillOK, DayOK
<1>7. TillTyped'
  <2>. HIDE DEF l
  <2>. QED BY <1>1, <1>6, TillGoesOn DEF CashTyped
<1>8. RowsTyped'
  BY <1>1, CashAssumption DEF CashTyped, RowsTyped
<1>9. ClosingsTyped'
  BY <1>1, <1>2, ClosingsStay DEF CashTyped, Day
<1>. QED BY <1>7, <1>8, <1>9 DEF CashTyped

LEMMA ReadStockIsTyped ==
  ASSUME CashTyped, NEW p \in Cashier, ReadStock(p)
  PROVE  CashTyped'
<1>. DEFINE l == till[p]
            gone == l.kind = "revert" /\ l.entry \notin sold
            m == IF gone THEN [l EXCEPT !.kind = "erase"] ELSE [l EXCEPT !.stock = <<stock>>]
<1>1. /\ till' = [till EXCEPT ![p] = m] /\ TouchesStock(l) /\ l.stock = Unread
      /\ raced' = (raced \/ (~gone /\ OthersRead(p)))
      /\ UNCHANGED <<today, books, closings, sold, stock, adjusted, started>>
  BY DEF ReadStock
<1>2. stock \in Int /\ today \in Day
  BY DEF CashTyped, RowsTyped
<1>3. PutOK(l) /\ l.op = "put"
  BY <1>1 DEF TouchesStock, CashTyped, TillTyped, TillOK
<1>4. PutOK(m) /\ m.op = "put"
  <2>1. CASE gone
    <3>1. m = [op |-> "put", entry |-> l.entry, row |-> l.row, kind |-> "erase", stock |-> l.stock]
      BY <1>3, <2>1 DEF PutOK
    <3>2. l.kind = "revert" /\ l.entry \in Charge /\ l.row \in RowOf(l.entry) /\ l.entry \in Movement
          /\ (l.entry \in Manual => l.row.date # Owed)
      BY <1>3, <2>1 DEF PutOK
    <3>. HIDE DEF m, l
    <3>. QED BY <1>1, <3>1, <3>2 DEF PutOK, Kind
  <2>2. CASE ~gone
    <3>1. m = [op |-> "put", entry |-> l.entry, row |-> l.row, kind |-> l.kind, stock |-> <<stock>>]
      BY <1>3, <2>2 DEF PutOK
    <3>. HIDE DEF m, l
    <3>. QED BY <1>1, <1>2, <1>3, <3>1 DEF PutOK, TouchesStock
  <2>. QED BY <2>1, <2>2
<1>5. TillOK(m, books', today')
  BY <1>4 DEF TillOK, PutOK, TouchesStock
<1>6. TillTyped'
  <2>. HIDE DEF m
  <2>. QED BY <1>1, <1>5, TillGoesOn DEF CashTyped
<1>7. RowsTyped'
  <2>1. raced' \in BOOLEAN
    BY <1>1
  <2>. QED BY <1>1, <2>1 DEF CashTyped, RowsTyped
<1>8. ClosingsTyped'
  BY <1>1, <1>2, ClosingsStay DEF CashTyped, Day
<1>. QED BY <1>6, <1>7, <1>8 DEF CashTyped

\* What a request writes: a row of its entry, or none.
WrittenBy(l) == IF Refused(l) THEN books[l.entry] ELSE Written(l)

LEMMA PutWrites ==
  ASSUME CashTyped, NEW p \in Cashier, Put(p)
  PROVE  LET l == till[p] IN
         /\ PutOK(l) /\ l.op = "put"
         /\ \A e \in Movement : books'[e] = IF e = l.entry THEN WrittenBy(l) ELSE books[e]
         /\ WrittenBy(l) \in RowOf(l.entry) \cup {Absent}
         /\ l.entry \in Manual /\ WrittenBy(l) # Absent => WrittenBy(l).date # Owed
         /\ l.entry \in Sale /\ books[l.entry] # Absent => WrittenBy(l) # Absent
         /\ l.kind = "collect" => WrittenBy(l) # Absent
         /\ l.kind = "create" => WrittenBy(l) # Absent
<1>. DEFINE l == till[p]
            w == WrittenBy(l)
            e == l.entry
<1>1. PutOK(l) /\ l.op = "put"
  BY DEF Put, CashTyped, TillTyped, TillOK
<1>2. e \in Movement /\ BookedOK(books)
  BY <1>1 DEF PutOK, CashTyped, RowsTyped
<1>3. \A d \in Movement : books'[d] = IF d = e THEN w ELSE books[d]
  <2>1. books' = IF ~Refused(l) THEN [books EXCEPT ![e] = Written(l)] ELSE books
    BY DEF Put
  <2>. QED BY <1>2, <2>1 DEF WrittenBy, BookedOK
<1>4. books[e] \in RowOf(e) \cup {Absent} /\ (e \in Manual /\ books[e] # Absent => books[e].date # Owed)
  BY <1>2 DEF CashTyped, RowsTyped, BookedOK
<1>5. l.kind # "remove" => l.row \in RowOf(e) /\ l.row # Absent
  BY <1>1, RowIsNotAbsent DEF PutOK
<1>6. CASE Refused(l)
  <2>1. w = books[e] /\ e \notin Manual /\ books[e] # Absent
    BY <1>6 DEF WrittenBy, Refused
  <2>. QED BY <1>1, <1>3, <1>4, <2>1
<1>7. CASE ~Refused(l) /\ l.kind = "collect" /\ books[e] = Absent
  <2>. DEFINE row == l.row
  <2>1. row \in RowOf(e) /\ e \notin Manual
    BY <1>1, <1>5, <1>7, CashAssumption DEF PutOK
  <2>2. w = [row EXCEPT !.money = NoLines]
    BY <1>7 DEF WrittenBy, Written
  <2>. HIDE DEF row
  <2>3. w \in RowOf(e)
    BY <2>1, <2>2 DEF RowOf
  <2>4. w # Absent
    BY <2>3, RowIsNotAbsent
  <2>. QED BY <1>1, <1>3, <2>1, <2>3, <2>4
<1>8. CASE ~Refused(l) /\ l.kind \in {"revert", "erase"}
  <2>1. w \in {Absent, books[e]}
    BY <1>8 DEF WrittenBy, Written
  <2>2. e \in Charge /\ e \notin Sale /\ e \notin Manual
    BY <1>1, <1>8, CashAssumption DEF PutOK
  <2>. QED BY <1>1, <1>3, <1>4, <1>8, <2>1, <2>2
<1>9. CASE ~Refused(l) /\ ~(l.kind = "collect" /\ books[e] = Absent)
           /\ l.kind \notin {"revert", "erase"}
  <2>1. w = l.row
    BY <1>9 DEF WrittenBy, Written
  <2>2. l.kind = "remove" => l.row = Absent /\ e \notin Sale
    BY <1>1, CashAssumption DEF PutOK
  <2>3. e \in Manual /\ l.kind # "remove" => l.row.date # Owed
    BY <1>1 DEF PutOK
  <2>. QED BY <1>1, <1>3, <1>5, <2>1, <2>2, <2>3
<1>. QED BY <1>6, <1>7, <1>8, <1>9

LEMMA PutIsTyped ==
  ASSUME CashTyped, NEW p \in Cashier, Put(p)
  PROVE  CashTyped'
<1>. DEFINE l == till[p]
            done == ~Refused(l)
            m == IF (l.kind = "create" /\ l.row.tip = "leftover") /\ done
                 THEN [op |-> "tip", entry |-> l.entry] ELSE AtRest
<1>1. /\ till' = [till EXCEPT ![p] = m]
      /\ UNCHANGED <<today, closings, adjusted, raced, started>>
      /\ stock' = IF done /\ TouchesStock(l) THEN StockAfter(l) ELSE stock
      /\ sold' = IF ~done \/ ~TouchesStock(l) THEN sold
                 ELSE IF l.kind = "create" THEN sold \cup {l.entry} ELSE sold \ {l.entry}
      /\ TouchesStock(l) => l.stock # Unread
      /\ DOMAIN books' = DOMAIN books
  BY DEF Put
<1>2. /\ PutOK(l) /\ l.op = "put"
      /\ \A e \in Movement : books'[e] = IF e = l.entry THEN WrittenBy(l) ELSE books[e]
      /\ WrittenBy(l) \in RowOf(l.entry) \cup {Absent}
      /\ l.entry \in Manual /\ WrittenBy(l) # Absent => WrittenBy(l).date # Owed
      /\ l.entry \in Sale /\ books[l.entry] # Absent => WrittenBy(l) # Absent
      /\ l.kind = "create" => WrittenBy(l) # Absent
  BY PutWrites
<1>3. today \in Day /\ BookedOK(books)
  BY DEF CashTyped, RowsTyped
<1>4. l.entry \in Movement /\ Manual \subseteq Movement /\ Sale \subseteq Movement
  BY <1>2 DEF PutOK, Movement
<1>. HIDE DEF l
<1>5. BookedOK(books')
  BY <1>1, <1>2, <1>3 DEF BookedOK
<1>6. \A e \in Manual : books'[e] # Absent => books'[e].date # Owed
  BY <1>2, <1>4 DEF CashTyped, RowsTyped
<1>7. \A e \in Sale : books[e] # Absent => books'[e] # Absent
  BY <1>2, <1>4
<1>8. sold' \subseteq Charge \cup Sale
  BY <1>1, <1>4 DEF CashTyped, RowsTyped, TouchesStock, Movement
<1>9. stock' \in Int
  <2>1. TouchesStock(l) => l.stock[1] \in Int
    BY <1>1, <1>2 DEF PutOK
  <2>. QED BY <1>1, <2>1 DEF StockAfter, CashTyped, RowsTyped
<1>10. RowsTyped'
  BY <1>1, <1>5, <1>6, <1>8, <1>9 DEF CashTyped, RowsTyped
<1>11. TillTyped'
  <2>1. m.op = "tip" => l.entry \in Sale /\ books'[l.entry] # Absent
    <3>. SUFFICES ASSUME m.op = "tip" PROVE l.entry \in Sale /\ books'[l.entry] # Absent
      OBVIOUS
    <3>1. l.kind = "create" /\ l.row.tip = "leftover" /\ done
      BY DEF AtRest
    <3>2. l.entry \in Sale
      BY <1>2, <3>1 DEF PutOK
    <3>. QED BY <1>2, <1>4, <3>1, <3>2
  <2>2. TillOK(m, books', today')
    BY <2>1 DEF TillOK, AtRest
  <2>. HIDE DEF m
  <2>. QED BY <1>1, <1>7, <2>2, TillGoesOn DEF CashTyped
<1>12. ClosingsTyped'
  BY <1>1, <1>3, ClosingsStay DEF CashTyped, Day
<1>. QED BY <1>10, <1>11, <1>12 DEF CashTyped

LEMMA RecordTipIsTyped ==
  ASSUME CashTyped, NEW p \in Cashier, RecordTip(p)
  PROVE  /\ CashTyped'
         /\ till[p].entry \in Sale /\ books[till[p].entry] # Absent
         /\ \A e \in Movement :
              /\ e # till[p].entry => books'[e] = books[e]
              /\ books'[e] # Absent <=> books[e] # Absent
              /\ books[e] # Absent => books'[e].date = books[e].date /\ books'[e].id = books[e].id
<1>. DEFINE e == till[p].entry
            row == books[e]
            new == [row EXCEPT !.tip = "recorded"]
<1>1. /\ till[p].op = "tip"
      /\ books' = [books EXCEPT ![e].tip = "recorded"]
      /\ till' = [till EXCEPT ![p] = AtRest]
      /\ UNCHANGED <<today, closings, sold, stock, adjusted, raced, started>>
  BY DEF RecordTip
<1>2. e \in Sale /\ row # Absent /\ e \in Movement /\ e \notin Manual
  BY <1>1, CashAssumption DEF CashTyped, TillTyped, TillOK, Movement
<1>3. today \in Day /\ BookedOK(books) /\ row \in RowOf(e)
  BY <1>2 DEF CashTyped, RowsTyped, BookedOK
<1>4. DOMAIN books' = Movement /\ \A d \in Movement : books'[d] = IF d = e THEN new ELSE books[d]
  BY <1>1, <1>2, <1>3 DEF BookedOK
<1>5. new \in RowOf(e) /\ new.date = row.date /\ new.id = row.id
  <2>. HIDE DEF row
  <2>. QED BY <1>3 DEF RowOf
<1>6. new # Absent
  BY <1>5, RowIsNotAbsent
<1>. HIDE DEF new
<1>7. \A d \in Movement :
        /\ d # e => books'[d] = books[d]
        /\ books'[d] # Absent <=> books[d] # Absent
        /\ books[d] # Absent => books'[d].date = books[d].date /\ books'[d].id = books[d].id
  BY <1>2, <1>4, <1>5, <1>6
<1>8. BookedOK(books')
  BY <1>3, <1>4, <1>5 DEF BookedOK
<1>9. RowsTyped'
  BY <1>1, <1>2, <1>7, <1>8 DEF CashTyped, RowsTyped, Movement
<1>10. TillTyped'
  <2>1. TillOK(AtRest, books', today')
    BY DEF TillOK, AtRest
  <2>2. \A d \in Sale : books[d] # Absent => books'[d] # Absent
    BY <1>7 DEF Movement
  <2>. QED BY <1>1, <2>1, <2>2, TillGoesOn DEF CashTyped
<1>11. ClosingsTyped'
  BY <1>1, <1>3, ClosingsStay DEF CashTyped, Day
<1>. QED BY <1>2, <1>7, <1>9, <1>10, <1>11 DEF CashTyped

LEMMA SaveStockIsTyped ==
  ASSUME CashTyped, NEW p \in Cashier, SaveStock(p)
  PROVE  CashTyped'
<1>1. /\ till[p].op = "adjust"
      /\ stock' = till[p].stock[1] + till[p].delta /\ adjusted' = adjusted + till[p].delta
      /\ till' = [till EXCEPT ![p] = AtRest]
      /\ UNCHANGED <<today, books, closings, sold, raced, started>>
  BY DEF SaveStock
<1>2. till[p].stock[1] \in Int /\ till[p].delta \in Int /\ today \in Day
  BY <1>1 DEF CashTyped, TillTyped, TillOK, RowsTyped
<1>3. RowsTyped'
  BY <1>1, <1>2 DEF CashTyped, RowsTyped
<1>4. TillOK(AtRest, books', today')
  BY DEF TillOK, AtRest
<1>5. TillTyped'
  BY <1>1, <1>4, TillGoesOn DEF CashTyped
<1>6. ClosingsTyped'
  BY <1>1, <1>2, ClosingsStay DEF CashTyped, Day
<1>. QED BY <1>3, <1>5, <1>6 DEF CashTyped

LEMMA FailIsTyped ==
  ASSUME CashTyped, NEW p \in Cashier, Fail(p)
  PROVE  CashTyped'
<1>1. /\ till' = [till EXCEPT ![p] = AtRest]
      /\ UNCHANGED <<today, books, closings, sold, stock, adjusted, raced, started>>
  BY DEF Fail
<1>2. TillOK(AtRest, books', today') /\ today \in Day
  BY DEF TillOK, AtRest, CashTyped, RowsTyped
<1>3. TillTyped'
  BY <1>1, <1>2, TillGoesOn DEF CashTyped
<1>4. ClosingsTyped'
  BY <1>1, <1>2, ClosingsStay DEF CashTyped, Day
<1>. QED BY <1>1, <1>3, <1>4 DEF CashTyped, RowsTyped

LEMMA NextDayIsTyped ==
  ASSUME CashTyped, NextDay
  PROVE  CashTyped'
<1>1. /\ today \in Day /\ today' = today + 1 /\ today' \in Day
      /\ UNCHANGED <<books, closings, till, sold, stock, adjusted, raced, started>>
  BY CashAssumption DEF CashTyped, RowsTyped, NextDay, Day
<1>2. RowsTyped'
  BY <1>1 DEF CashTyped, RowsTyped
<1>3. TillTyped'
  <2>1. ASSUME NEW q \in Cashier PROVE TillOK(till'[q], books', today')
    BY <1>1 DEF CashTyped, TillTyped, TillOK, DayOK, Day
  <2>. QED BY <1>1, <2>1 DEF CashTyped, TillTyped
<1>4. ClosingsTyped'
  BY <1>1, ClosingsStay DEF CashTyped, Day
<1>. QED BY <1>2, <1>3, <1>4 DEF CashTyped

LEMMA CountsAreNatural ==
  ASSUME NEW expected, \A cell \in DOMAIN expected : expected[cell] \in Int,
         NEW counted \in Counts(expected)
  PROVE  /\ DOMAIN counted = DOMAIN expected
         /\ \A cell \in DOMAIN expected : counted[cell] \in Nat
         /\ CountedCash(counted) \in Fund
<1>. DEFINE exact == [cell \in DOMAIN expected |-> Max({0, expected[cell]})]
<1>1. ASSUME NEW n \in Int PROVE Max({0, n}) \in Nat
  <2>1. \E x \in {0, n} : \A y \in {0, n} : x >= y
    <3>1. CASE n >= 0
      BY <3>1
    <3>2. CASE ~(n >= 0)
      BY <3>2
    <3>. QED BY <3>1, <3>2
  <2>2. Max({0, n}) \in {0, n} /\ \A y \in {0, n} : Max({0, n}) >= y
    BY <2>1 DEF Max
  <2>. QED BY <2>2
<1>2. \A cell \in DOMAIN expected : exact[cell] \in Nat
  BY <1>1
<1>3. counted = exact \/ \E cell \in DOMAIN expected : counted = [exact EXCEPT ![cell] = @ + 1]
  BY DEF Counts
<1>4. DOMAIN exact = DOMAIN expected
  OBVIOUS
<1>. HIDE DEF exact
<1>5. /\ DOMAIN counted = DOMAIN expected
      /\ \A cell \in DOMAIN expected : counted[cell] \in Nat
  BY <1>2, <1>3, <1>4
<1>6. CountedCash(counted) \in Fund
  BY <1>5 DEF CountedCash, Fund
<1>. QED BY <1>5, <1>6

LEMMA RetainedIsLess ==
  ASSUME NEW cash \in Fund, NEW fund \in RetainedCash(cash)
  PROVE  fund \in Fund /\ \A c \in Currency : fund[c] <= cash[c]
BY DEF RetainedCash, Fund

\* What a closing records of the day that was read.
Closes(new, l) ==
  /\ ClosingOK(new, today) /\ new.status = "closed"
  /\ new.date = l.date /\ new.opening = l.opening /\ new.booked = l.booked
  /\ new.late = {e \in Movement : BookedOn(l.date)[e] # l.booked[e]} \cup InFlight

LEMMA SaveClosingAppends ==
  ASSUME CashTyped, NEW p \in Cashier, SaveClosing(p)
  PROVE  /\ till[p].op = "close" /\ DayOK(till[p], today)
         /\ till' = [till EXCEPT ![p] = AtRest]
         /\ UNCHANGED <<today, books, sold, stock, adjusted, raced, started>>
         /\ \/ UNCHANGED closings
            \/ /\ ActiveOn(till[p].date) = {}
               /\ Len(closings) < MaxClosings
               /\ \E new : Closes(new, till[p]) /\ closings' = Append(closings, new)
<1>. DEFINE l == till[p]
            late == {e \in Movement : BookedOn(l.date)[e] # l.booked[e]} \cup InFlight
<1>1. l.op = "close" /\ DayOK(l, today)
  BY DEF SaveClosing, CashTyped, TillTyped, TillOK
<1>2. /\ till' = [till EXCEPT ![p] = AtRest]
      /\ UNCHANGED <<today, books, sold, stock, adjusted, raced, started>>
  BY DEF SaveClosing
<1>3. CASE UNCHANGED closings
  BY <1>1, <1>2, <1>3
<1>4. CASE ~UNCHANGED closings
  <2>1. UniqueActive(l.date) /\ Len(closings) < MaxClosings
    BY <1>4 DEF SaveClosing
  <2>2. PICK counted \in Counts(l.expected) : \E fund \in RetainedCash(CountedCash(counted)) :
               closings' = Append(closings,
                    [date |-> l.date, status |-> "closed", opening |-> l.opening,
                     expected |-> l.expected, counted |-> counted, retained |-> fund,
                     booked |-> l.booked, late |-> late])
    BY <1>4 DEF SaveClosing
  <2>3. PICK fund \in RetainedCash(CountedCash(counted)) :
               closings' = Append(closings,
                    [date |-> l.date, status |-> "closed", opening |-> l.opening,
                     expected |-> l.expected, counted |-> counted, retained |-> fund,
                     booked |-> l.booked, late |-> late])
    BY <2>2
  <2>. DEFINE new == [date |-> l.date, status |-> "closed", opening |-> l.opening,
                     expected |-> l.expected, counted |-> counted, retained |-> fund,
                     booked |-> l.booked, late |-> late]
  <2>4. \A cell \in DOMAIN l.expected : l.expected[cell] \in Int
    BY <1>1, AggregateIsInt DEF DayOK
  <2>5. DOMAIN counted = DOMAIN l.expected /\ CountedCash(counted) \in Fund
    BY <2>4, CountsAreNatural
  <2>6. fund \in Fund /\ \A c \in Currency : fund[c] <= CountedCash(counted)[c]
    BY <2>5, RetainedIsLess
  <2>7. /\ new.date = l.date /\ new.status = "closed" /\ new.opening = l.opening
        /\ new.expected = l.expected /\ new.counted = counted /\ new.retained = fund
        /\ new.booked = l.booked /\ new.late = late
        /\ new = [date |-> new.date, status |-> new.status, opening |-> new.opening,
                  expected |-> new.expected, counted |-> new.counted,
                  retained |-> new.retained, booked |-> new.booked, late |-> new.late]
    OBVIOUS
  <2>8. closings' = Append(closings, new)
    BY <2>3
  <2>. HIDE DEF new
  <2>9. ClosingOK(new, today)
    BY <1>1, <2>5, <2>6, <2>7 DEF ClosingOK, DayOK
  <2>10. Closes(new, l)
    BY <2>7, <2>9 DEF Closes
  <2>. QED BY <1>1, <1>2, <2>1, <2>8, <2>10 DEF UniqueActive
<1>. QED BY <1>3, <1>4

LEMMA SaveClosingIsTyped ==
  ASSUME CashTyped, NEW p \in Cashier, SaveClosing(p)
  PROVE  CashTyped'
<1>1. /\ till' = [till EXCEPT ![p] = AtRest]
      /\ UNCHANGED <<today, books, sold, stock, adjusted, raced, started>>
      /\ \/ UNCHANGED closings
         \/ /\ Len(closings) < MaxClosings
            /\ \E new : Closes(new, till[p]) /\ closings' = Append(closings, new)
  BY SaveClosingAppends
<1>2. TillOK(AtRest, books', today') /\ today \in Day
  BY DEF TillOK, AtRest, CashTyped, RowsTyped
<1>3. TillTyped'
  BY <1>1, <1>2, TillGoesOn DEF CashTyped
<1>4. ClosingsTyped'
  <2>1. CASE UNCHANGED closings
    BY <1>1, <1>2, <2>1, ClosingsStay DEF CashTyped, Day
  <2>2. CASE ~UNCHANGED closings
    <3>1. PICK new : Closes(new, till[p]) /\ closings' = Append(closings, new)
      BY <1>1, <2>2
    <3>2. IsSequence(closings)
      BY DEF CashTyped, ClosingsTyped
    <3>3. /\ IsSequence(closings')
          /\ Len(closings) \in Nat /\ DOMAIN closings = 1..Len(closings)
          /\ Len(closings') = Len(closings) + 1 /\ DOMAIN closings' = 1..(Len(closings) + 1)
          /\ \A k \in DOMAIN closings : closings'[k] = closings[k]
          /\ closings'[Len(closings) + 1] = new
      <4>1. Appended(closings', closings, new)
        BY <3>1, <3>2, AppendShape
      <4>. QED BY <4>1 DEF Appended
    <3>4. Len(closings') <= MaxClosings
      BY <1>1, <2>2, <3>3, CashAssumption
    <3>5. ASSUME NEW k \in DOMAIN closings' PROVE ClosingOK(closings'[k], today')
      <4>1. k \in DOMAIN closings \/ k = Len(closings) + 1
        BY <3>3
      <4>. QED BY <1>1, <3>1, <3>3, <4>1 DEF Closes, CashTyped, ClosingsTyped
    <3>. QED BY <3>3, <3>4, <3>5 DEF ClosingsTyped
  <2>. QED BY <2>1, <2>2
<1>. QED BY <1>1, <1>3, <1>4 DEF CashTyped, RowsTyped

\* A closing that is reverted keeps what it recorded.
LEMMA RevertClosingChanges ==
  ASSUME CashTyped, NEW k \in DOMAIN closings, RevertClosing(k)
  PROVE  /\ CashTyped'
         /\ UNCHANGED <<today, books, till, sold, stock, adjusted, raced, started>>
         /\ DOMAIN closings' = DOMAIN closings
         /\ closings'[k].status = "reverted"
         /\ \A j \in DOMAIN closings :
              /\ j # k => closings'[j] = closings[j]
              /\ closings'[j].date = closings[j].date
              /\ closings'[j].opening = closings[j].opening
              /\ closings'[j].counted = closings[j].counted
              /\ closings'[j].booked = closings[j].booked
              /\ closings'[j].late = closings[j].late
<1>. DEFINE old == closings[k]
            new == [old EXCEPT !.status = "reverted"]
<1>1. closings' = [closings EXCEPT ![k] = new]
      /\ UNCHANGED <<today, books, till, sold, stock, adjusted, raced, started>>
  BY DEF RevertClosing
<1>2. IsSequence(closings)
  BY DEF CashTyped, ClosingsTyped
<1>3. /\ IsSequence(closings')
      /\ Len(closings') = Len(closings) /\ DOMAIN closings' = DOMAIN closings
      /\ \A j \in DOMAIN closings : closings'[j] = IF j = k THEN new ELSE closings[j]
  <2>. HIDE DEF new
  <2>1. Replaced(closings', closings, k, new)
    BY <1>1, <1>2, ExceptShape
  <2>. QED BY <2>1 DEF Replaced
<1>4. ClosingOK(old, today)
  BY DEF CashTyped, ClosingsTyped
<1>5. new = [date |-> old.date, status |-> "reverted", opening |-> old.opening,
             expected |-> old.expected, counted |-> old.counted, retained |-> old.retained,
             booked |-> old.booked, late |-> old.late]
  <2>. HIDE DEF old
  <2>. QED BY <1>4 DEF ClosingOK
<1>6. /\ new.date = old.date /\ new.status = "reverted" /\ new.opening = old.opening
      /\ new.expected = old.expected /\ new.counted = old.counted
      /\ new.retained = old.retained /\ new.booked = old.booked /\ new.late = old.late
  <2>. HIDE DEF new
  <2>. QED BY <1>5
<1>7. ClosingOK(new, today)
  <2>. HIDE DEF new
  <2>. QED BY <1>4, <1>5, <1>6 DEF ClosingOK, DayOK
<1>8. CashTyped'
  <2>. HIDE DEF new
  <2>1. ClosingsTyped'
    BY <1>1, <1>3, <1>7 DEF CashTyped, ClosingsTyped
  <2>2. TillTyped'
    BY <1>1 DEF CashTyped, TillTyped
  <2>. QED BY <1>1, <2>1, <2>2 DEF CashTyped, RowsTyped
<1>. HIDE DEF new
<1>. QED BY <1>1, <1>3, <1>6, <1>8

\* Every step, with what begins a write in one form.
LEMMA CashSteps ==
  ASSUME CashTyped, CashNext
  PROVE  \/ \E p \in Cashier :
              \/ \E e, row, kind : NewPut(p, e, row, kind)
              \/ \E delta \in Delta : AdjustStock(p, delta)
              \/ \E d \in Day : BeginClosing(p, d)
              \/ ReadStock(p) \/ Put(p) \/ RecordTip(p) \/ SaveStock(p) \/ SaveClosing(p) \/ Fail(p)
         \/ \E k \in DOMAIN closings : RevertClosing(k)
         \/ NextDay
<1>1. ASSUME NEW p \in Cashier, CashRequest(p)
      PROVE  \/ \E e, row, kind : NewPut(p, e, row, kind)
             \/ \E delta \in Delta : AdjustStock(p, delta)
             \/ \E d \in Day : BeginClosing(p, d)
  BY <1>1, RequestCases
<1>. QED BY <1>1, Zenon DEF CashNext

LEMMA TypedStep == CashTyped /\ [CashNext]_cashVars => CashTyped'
<1>. SUFFICES ASSUME CashTyped, [CashNext]_cashVars PROVE CashTyped'
  OBVIOUS
<1>1. CASE UNCHANGED cashVars
  BY <1>1 DEF cashVars, CashTyped, RowsTyped, TillTyped, ClosingsTyped
<1>2. CASE CashNext
  BY <1>2, CashSteps, NewPutIsTyped, AdjustIsTyped, BeginClosingIsTyped, ReadStockIsTyped,
     PutIsTyped, RecordTipIsTyped, SaveStockIsTyped, SaveClosingIsTyped, FailIsTyped,
     RevertClosingChanges, NextDayIsTyped, Zenon
<1>. QED BY <1>1, <1>2

\* Whatever the requests do, the rows, what the requests hold and the closings are
\* well formed, and the cells of every closing are those of the movements and the
\* opening cash that it read (computeExpected, cash-closing.service.ts).
THEOREM CashTypes == CashSpec => []CashTyped
<1>1. CashInit => CashTyped
  BY TypedInitially
<1>2. CashTyped /\ [CashNext]_cashVars => CashTyped'
  BY TypedStep
<1>. QED BY <1>1, <1>2, PTL DEF CashSpec

-----------------------------------------------------------------------------
(* A day is closed once *)

LEMMA OneClosingStep ==
  ASSUME CashTyped, OneClosing, [CashNext]_cashVars
  PROVE  OneClosing'
<1>1. CASE UNCHANGED closings
  BY <1>1 DEF OneClosing
<1>2. CASE \E p \in Cashier : SaveClosing(p) /\ ~UNCHANGED closings
  <2>1. PICK p \in Cashier : SaveClosing(p)
    BY <1>2
  <2>2. ActiveOn(till[p].date) = {}
        /\ \E new : Closes(new, till[p]) /\ closings' = Append(closings, new)
    BY <1>2, <2>1, SaveClosingAppends
  <2>3. PICK new : Closes(new, till[p]) /\ closings' = Append(closings, new)
    BY <2>2
  <2>4. Appended(closings', closings, new)
    BY <2>3, AppendShape DEF CashTyped, ClosingsTyped
  <2>5. \A k \in DOMAIN closings' : k \in DOMAIN closings \/ k = Len(closings) + 1
    BY <2>4 DEF Appended
  <2>6. \A k \in DOMAIN closings : closings[k].status = "closed" => closings[k].date # new.date
    BY <2>2, <2>3 DEF ActiveOn, Closes
  <2>. QED BY <2>4, <2>5, <2>6 DEF OneClosing, Appended
<1>3. CASE \E k \in DOMAIN closings : RevertClosing(k)
  <2>1. PICK k \in DOMAIN closings : RevertClosing(k)
    BY <1>3
  <2>2. /\ DOMAIN closings' = DOMAIN closings /\ closings'[k].status = "reverted"
        /\ \A j \in DOMAIN closings : j # k => closings'[j] = closings[j]
    BY <2>1, RevertClosingChanges
  <2>. QED BY <2>2 DEF OneClosing
<1>4. UNCHANGED closings \/ (\E p \in Cashier : SaveClosing(p) /\ ~UNCHANGED closings)
      \/ (\E k \in DOMAIN closings : RevertClosing(k))
  <2>1. CASE UNCHANGED cashVars
    BY <2>1 DEF cashVars
  <2>2. CASE CashNext
    BY <2>2, CashSteps, ZenonT(30)
       DEF NewPut, AdjustStock, BeginClosing, ReadStock, Put, RecordTip, SaveStock, Fail, NextDay
  <2>. QED BY <2>1, <2>2
<1>. QED BY <1>1, <1>2, <1>3, <1>4

LEMMA OneClosingIsOne == OneClosing => OneClosingPerDay
<1>. SUFFICES ASSUME OneClosing, NEW d \in Day PROVE Cardinality(ActiveOn(d)) <= 1
  BY DEF OneClosingPerDay
<1>1. CASE ActiveOn(d) = {}
  BY <1>1, FS_EmptySet
<1>2. CASE ActiveOn(d) # {}
  <2>1. PICK k \in ActiveOn(d) : TRUE
    BY <1>2
  <2>2. ActiveOn(d) = {k}
    BY <2>1 DEF OneClosing, ActiveOn
  <2>3. Cardinality({k}) = 1
    BY FS_Singleton
  <2>. QED BY <2>2, <2>3
<1>. QED BY <1>1, <1>2

\* However many requests close a day, one closing of it stands: the unique index
\* over the active closings (cash-closing.service.ts, create).
THEOREM AtMostOneClosing == CashSpec => []OneClosingPerDay
<1>1. CashInit => OneClosing
  BY DEF CashInit, OneClosing
<1>2. CashTyped /\ OneClosing /\ [CashNext]_cashVars => OneClosing'
  BY OneClosingStep
<1>3. OneClosing => OneClosingPerDay
  BY OneClosingIsOne
<1>. QED BY <1>1, <1>2, <1>3, CashTypes, PTL DEF CashSpec

-----------------------------------------------------------------------------
(* The books of a closed day *)

SealedInv == Sealed /\ OnlyLateWritesAreMissed

\* A closed day is not open, and no date is missing from it.
LEMMA ClosedDay ==
  ASSUME CashTyped, NEW k \in DOMAIN closings, closings[k].status = "closed"
  PROVE  closings[k].date \in Day /\ ~DayOpen(closings[k].date) /\ closings[k].date # Owed
<1>1. closings[k].date \in Day
  BY DEF CashTyped, ClosingsTyped, ClosingOK, DayOK
<1>. QED BY <1>1 DEF DayOpen, ActiveOn, Day, Owed

LEMMA NewPutKeepsSealed ==
  ASSUME CashTyped, SealedInv, NEW p \in Cashier, NEW e, NEW row, NEW kind,
         NewPut(p, e, row, kind)
  PROVE  SealedInv'
<1>1. /\ till' = [till EXCEPT ![p] = Puts(e, row, kind)]
      /\ UNCHANGED <<books, closings>>
  BY DEF NewPut, Begin
<1>2. \A q \in Cashier : till'[q] = IF q = p THEN Puts(e, row, kind) ELSE till[q]
  BY <1>1 DEF CashTyped, TillTyped
<1>3. e \in Movement
  BY DEF NewPut, Movement
<1>4. today \in Day /\ BookedOK(books)
  BY DEF CashTyped, RowsTyped
<1>5. kind = "collect" => row.date = today
  <2>. DEFINE old == books[e]
  <2>1. kind = "collect" => old # Absent /\ row = [old EXCEPT !.date = today]
    BY DEF NewPut
  <2>2. old # Absent => old \in RowOf(e)
    BY <1>3, <1>4 DEF BookedOK
  <2>. HIDE DEF old
  <2>. QED BY <2>1, <2>2 DEF RowOf
<1>6. ASSUME NEW k \in DOMAIN closings, closings[k].status = "closed", e \notin closings[k].late
      PROVE  WritesElsewhere(Puts(e, row, kind), closings[k])
  <2>1. ~DayOpen(closings[k].date) /\ closings[k].date # Owed
    BY <1>6, ClosedDay
  <2>2. OnDay(books[e], closings[k].date) = closings[k].booked[e]
    BY <1>3, <1>6 DEF SealedInv, OnlyLateWritesAreMissed
  <2>3. books[e] = Absent \/ books[e].date # closings[k].date
    BY <2>1 DEF NewPut
  <2>4. row # Absent => row.date # closings[k].date
    BY <1>5, <2>1 DEF NewPut
  <2>. QED BY <2>2, <2>3, <2>4 DEF WritesElsewhere, Puts, OnDay
<1>7. Sealed'
  <2>. SUFFICES ASSUME NEW k \in DOMAIN closings, closings[k].status = "closed", NEW q \in Cashier,
                       till'[q].op \in {"put", "tip"}, till'[q].entry \notin closings[k].late
                PROVE  WritesElsewhere(till'[q], closings[k])
    BY <1>1 DEF Sealed, WritesElsewhere
  <2>1. CASE q = p
    BY <1>2, <1>6, <2>1 DEF Puts
  <2>2. CASE q # p
    BY <1>2, <2>2 DEF SealedInv, Sealed
  <2>. QED BY <2>1, <2>2
<1>. QED BY <1>1, <1>7 DEF SealedInv, OnlyLateWritesAreMissed

\* A step that leaves the books and the closings alone and begins no write.
LEMMA NoWriteKeepsSealed ==
  ASSUME SealedInv, UNCHANGED <<books, closings>>,
         \A q \in Cashier : \/ till'[q].op \notin {"put", "tip"}
                            \/ /\ till'[q].op = till[q].op /\ till'[q].entry = till[q].entry
                               /\ till[q].op = "put" => till'[q].row = till[q].row
  PROVE  SealedInv'
BY DEF SealedInv, Sealed, OnlyLateWritesAreMissed, WritesElsewhere

LEMMA PutKeepsSealed ==
  ASSUME CashTyped, SealedInv, NEW p \in Cashier, Put(p)
  PROVE  SealedInv'
<1>. DEFINE l == till[p]
            e == l.entry
<1>1. /\ l.op = "put" /\ PutOK(l)
      /\ \A d \in Movement : books'[d] = IF d = e THEN WrittenBy(l) ELSE books[d]
  BY PutWrites
<1>2. /\ UNCHANGED closings
      /\ \E m : /\ till' = [till EXCEPT ![p] = m]
                /\ m = AtRest \/ m = [op |-> "tip", entry |-> e]
  BY DEF Put
<1>3. PICK m : /\ till' = [till EXCEPT ![p] = m]
               /\ m = AtRest \/ m = [op |-> "tip", entry |-> e]
  BY <1>2
<1>4. \A q \in Cashier : till'[q] = IF q = p THEN m ELSE till[q]
  BY <1>3 DEF CashTyped, TillTyped
<1>5. e \in Movement
  BY <1>1 DEF PutOK
<1>6. \/ WrittenBy(l) = books[e] \/ WrittenBy(l) = Absent
      \/ l.row # Absent /\ WrittenBy(l).date = l.row.date
  <2>1. CASE l.kind = "collect" /\ books[e] = Absent
    <3>. DEFINE row == l.row
    <3>1. row \in RowOf(e)
      BY <1>1, <2>1 DEF PutOK
    <3>2. WrittenBy(l) = [row EXCEPT !.money = NoLines] \/ WrittenBy(l) = books[e]
      BY <2>1 DEF WrittenBy, Written
    <3>3. row # Absent
      BY <3>1, RowIsNotAbsent
    <3>. HIDE DEF row
    <3>4. [row EXCEPT !.money = NoLines].date = row.date
      BY <3>1 DEF RowOf
    <3>. QED BY <3>2, <3>3, <3>4 DEF row
  <2>2. CASE ~(l.kind = "collect" /\ books[e] = Absent)
    BY <2>2 DEF WrittenBy, Written
  <2>. QED BY <2>1, <2>2
<1>. HIDE DEF l
<1>7. ASSUME NEW k \in DOMAIN closings, closings[k].status = "closed", e \notin closings[k].late
      PROVE  closings[k].booked[e] = Absent /\ OnDay(WrittenBy(l), closings[k].date) = Absent
  <2>1. closings[k].booked[e] = Absent /\ (l.row # Absent => l.row.date # closings[k].date)
    BY <1>1, <1>7 DEF SealedInv, Sealed, WritesElsewhere, l
  <2>2. OnDay(books[e], closings[k].date) = Absent
    BY <1>5, <1>7, <2>1 DEF SealedInv, OnlyLateWritesAreMissed
  <2>. QED BY <1>6, <2>1, <2>2 DEF OnDay
<1>8. OnlyLateWritesAreMissed'
  <2>. SUFFICES ASSUME NEW k \in DOMAIN closings, closings[k].status = "closed",
                       NEW d \in Movement \ closings[k].late
                PROVE  OnDay(books'[d], closings[k].date) = closings[k].booked[d]
    BY <1>2 DEF OnlyLateWritesAreMissed, OnDay
  <2>1. CASE d = e
    BY <1>1, <1>7, <2>1
  <2>2. CASE d # e
    BY <1>1, <2>2 DEF SealedInv, OnlyLateWritesAreMissed
  <2>. QED BY <2>1, <2>2
<1>9. Sealed'
  <2>. SUFFICES ASSUME NEW k \in DOMAIN closings, closings[k].status = "closed", NEW q \in Cashier,
                       till'[q].op \in {"put", "tip"}, till'[q].entry \notin closings[k].late
                PROVE  WritesElsewhere(till'[q], closings[k])
    BY <1>2 DEF Sealed, WritesElsewhere
  <2>1. CASE q = p
    BY <1>3, <1>4, <1>7, <2>1 DEF WritesElsewhere, AtRest
  <2>2. CASE q # p
    BY <1>4, <2>2 DEF SealedInv, Sealed
  <2>. QED BY <2>1, <2>2
<1>. QED BY <1>8, <1>9 DEF SealedInv

LEMMA RecordTipKeepsSealed ==
  ASSUME CashTyped, SealedInv, NEW p \in Cashier, RecordTip(p)
  PROVE  SealedInv'
<1>. DEFINE e == till[p].entry
<1>1. /\ till[p].op = "tip" /\ UNCHANGED closings
      /\ till' = [till EXCEPT ![p] = AtRest]
  BY DEF RecordTip
<1>2. /\ e \in Sale /\ books[e] # Absent
      /\ \A d \in Movement : /\ d # e => books'[d] = books[d]
                             /\ books'[d] # Absent <=> books[d] # Absent
                             /\ books[d] # Absent => books'[d].date = books[d].date
  BY RecordTipIsTyped
<1>3. \A q \in Cashier : till'[q] = IF q = p THEN AtRest ELSE till[q]
  BY <1>1 DEF CashTyped, TillTyped
<1>4. OnlyLateWritesAreMissed'
  <2>. SUFFICES ASSUME NEW k \in DOMAIN closings, closings[k].status = "closed",
                       NEW d \in Movement \ closings[k].late
                PROVE  OnDay(books'[d], closings[k].date) = closings[k].booked[d]
    BY <1>1 DEF OnlyLateWritesAreMissed, OnDay
  <2>1. OnDay(books[d], closings[k].date) = closings[k].booked[d]
    BY DEF SealedInv, OnlyLateWritesAreMissed
  <2>2. CASE d = e
    <3>1. closings[k].booked[d] = Absent
      BY <1>1, <2>2 DEF SealedInv, Sealed, WritesElsewhere
    <3>. QED BY <1>2, <2>1, <3>1 DEF OnDay
  <2>3. CASE d # e
    BY <1>2, <2>1, <2>3
  <2>. QED BY <2>2, <2>3
<1>5. Sealed'
  <2>. SUFFICES ASSUME NEW k \in DOMAIN closings, closings[k].status = "closed", NEW q \in Cashier,
                       till'[q].op \in {"put", "tip"}, till'[q].entry \notin closings[k].late
                PROVE  WritesElsewhere(till'[q], closings[k])
    BY <1>1 DEF Sealed, WritesElsewhere
  <2>. QED BY <1>3 DEF AtRest, SealedInv, Sealed
<1>. QED BY <1>4, <1>5 DEF SealedInv

LEMMA SaveClosingKeepsSealed ==
  ASSUME CashTyped, SealedInv, NEW p \in Cashier, SaveClosing(p)
  PROVE  SealedInv'
<1>1. /\ till' = [till EXCEPT ![p] = AtRest] /\ UNCHANGED books
      /\ \/ UNCHANGED closings
         \/ \E new : Closes(new, till[p]) /\ closings' = Append(closings, new)
  BY SaveClosingAppends
<1>2. \A q \in Cashier : till'[q] = IF q = p THEN AtRest ELSE till[q]
  BY <1>1 DEF CashTyped, TillTyped
<1>3. CASE UNCHANGED closings
  BY <1>1, <1>2, <1>3, NoWriteKeepsSealed DEF AtRest
<1>4. CASE ~UNCHANGED closings
  <2>1. PICK new : Closes(new, till[p]) /\ closings' = Append(closings, new)
    BY <1>1, <1>4
  <2>2. Appended(closings', closings, new)
    BY <2>1, AppendShape DEF CashTyped, ClosingsTyped
  <2>3. ASSUME NEW e \in Movement \ new.late
        PROVE  OnDay(books[e], new.date) = new.booked[e]
    <3>1. BookedOn(new.date)[e] = new.booked[e]
      BY <2>1 DEF Closes
    <3>. QED BY <3>1 DEF BookedOn
  <2>4. \A q \in Cashier : till[q].op \in {"put", "tip"} => till[q].entry \in new.late
    BY <2>1 DEF Closes, InFlight
  <2>5. ASSUME NEW k \in DOMAIN closings', closings'[k].status = "closed"
        PROVE  /\ \A e \in Movement \ closings'[k].late :
                    OnDay(books[e], closings'[k].date) = closings'[k].booked[e]
               /\ \A q \in Cashier :
                    till[q].op \in {"put", "tip"} /\ till[q].entry \notin closings'[k].late
                    => WritesElsewhere(till[q], closings'[k])
    <3>1. CASE k \in DOMAIN closings
      BY <2>2, <2>5, <3>1 DEF Appended, SealedInv, Sealed, OnlyLateWritesAreMissed
    <3>2. CASE k = Len(closings) + 1
      BY <2>2, <2>3, <2>4, <3>2 DEF Appended
    <3>. QED BY <2>2, <3>1, <3>2 DEF Appended
  <2>6. OnlyLateWritesAreMissed'
    BY <1>1, <2>5 DEF OnlyLateWritesAreMissed, OnDay
  <2>7. Sealed'
    <3>. SUFFICES ASSUME NEW k \in DOMAIN closings', closings'[k].status = "closed",
                         NEW q \in Cashier, till'[q].op \in {"put", "tip"},
                         till'[q].entry \notin closings'[k].late
                  PROVE  WritesElsewhere(till'[q], closings'[k])
      BY DEF Sealed, WritesElsewhere
    <3>. QED BY <1>2, <2>5 DEF AtRest
  <2>. QED BY <2>6, <2>7 DEF SealedInv
<1>. QED BY <1>3, <1>4

LEMMA SealedStep ==
  ASSUME CashTyped, SealedInv, [CashNext]_cashVars
  PROVE  SealedInv'
<1>1. CASE UNCHANGED cashVars
  BY <1>1, NoWriteKeepsSealed DEF cashVars
<1>2. ASSUME NEW p \in Cashier,
             (\E delta \in Delta : AdjustStock(p, delta))
             \/ (\E d \in Day : BeginClosing(p, d)) \/ SaveStock(p) \/ Fail(p)
      PROVE  SealedInv'
  <2>1. UNCHANGED <<books, closings>>
        /\ \E m : till' = [till EXCEPT ![p] = m] /\ m.op \notin {"put", "tip"}
    BY <1>2 DEF AdjustStock, BeginClosing, SaveStock, Fail, Begin, AtRest
  <2>2. PICK m : till' = [till EXCEPT ![p] = m] /\ m.op \notin {"put", "tip"}
    BY <2>1
  <2>3. \A q \in Cashier : till'[q] = IF q = p THEN m ELSE till[q]
    BY <2>2 DEF CashTyped, TillTyped
  <2>. QED BY <2>1, <2>2, <2>3, NoWriteKeepsSealed
<1>3. ASSUME NEW p \in Cashier, ReadStock(p) PROVE SealedInv'
  <2>. DEFINE l == till[p]
  <2>1. PutOK(l) /\ UNCHANGED <<books, closings>>
    BY <1>3 DEF ReadStock, TouchesStock, CashTyped, TillTyped, TillOK
  <2>2. \E m : /\ till' = [till EXCEPT ![p] = m]
               /\ m = [l EXCEPT !.kind = "erase"] \/ m = [l EXCEPT !.stock = <<stock>>]
    BY <1>3 DEF ReadStock
  <2>3. PICK m : /\ till' = [till EXCEPT ![p] = m]
                 /\ m = [l EXCEPT !.kind = "erase"] \/ m = [l EXCEPT !.stock = <<stock>>]
    BY <2>2
  <2>4. \A q \in Cashier : till'[q] = IF q = p THEN m ELSE till[q]
    BY <2>3 DEF CashTyped, TillTyped
  <2>5. m.op = l.op /\ m.entry = l.entry /\ m.row = l.row
    <3>. HIDE DEF l
    <3>. QED BY <2>1, <2>3 DEF PutOK
  <2>. QED BY <2>1, <2>4, <2>5, NoWriteKeepsSealed
<1>4. ASSUME NEW k \in DOMAIN closings, RevertClosing(k) PROVE SealedInv'
  <2>1. /\ UNCHANGED <<books, till>>
        /\ DOMAIN closings' = DOMAIN closings /\ closings'[k].status = "reverted"
        /\ \A j \in DOMAIN closings : j # k => closings'[j] = closings[j]
    BY <1>4, RevertClosingChanges
  <2>2. \A j \in DOMAIN closings' : closings'[j].status = "closed" =>
          j \in DOMAIN closings /\ closings'[j] = closings[j]
    BY <2>1
  <2>. QED BY <2>1, <2>2 DEF SealedInv, Sealed, OnlyLateWritesAreMissed, WritesElsewhere, OnDay
<1>5. CASE NextDay
  BY <1>5, NoWriteKeepsSealed DEF NextDay
<1>6. CASE CashNext
  BY <1>2, <1>3, <1>4, <1>5, <1>6, CashSteps, NewPutKeepsSealed, PutKeepsSealed,
     RecordTipKeepsSealed, SaveClosingKeepsSealed, Zenon
<1>. QED BY <1>1, <1>6

\* While a day is closed its books are what the closing counted, but for what was
\* being written when it was closed (assertDayOpen, cash-lock.service.ts).
THEOREM ClosedBooksStay == CashSpec => []OnlyLateWritesAreMissed
<1>1. CashInit => SealedInv
  BY DEF CashInit, SealedInv, Sealed, OnlyLateWritesAreMissed
<1>2. CashTyped /\ SealedInv /\ [CashNext]_cashVars => SealedInv'
  BY SealedStep
<1>3. SealedInv => OnlyLateWritesAreMissed
  BY DEF SealedInv
<1>. QED BY <1>1, <1>2, <1>3, CashTypes, PTL DEF CashSpec

-----------------------------------------------------------------------------
(* The fund of a day *)

\* What an opening fund was counted in stays while closings are only added or
\* reverted.
LEMMA CountedStays ==
  ASSUME NEW rows, NEW later, NEW d, NEW opening, Counted(rows, d, opening),
         \A j \in DOMAIN rows : /\ j \in DOMAIN later
                                /\ later[j].date = rows[j].date
                                /\ later[j].counted = rows[j].counted
  PROVE  Counted(later, d, opening)
<1>. SUFFICES ASSUME NEW c \in Currency, opening[c] > 0
              PROVE  \E j \in DOMAIN later :
                       later[j].date < d /\ opening[c] <= CountedCash(later[j].counted)[c]
  BY DEF Counted
<1>1. PICK j \in DOMAIN rows :
        rows[j].date < d /\ opening[c] <= CountedCash(rows[j].counted)[c]
  BY DEF Counted
<1>2. later[j].date < d /\ opening[c] <= CountedCash(later[j].counted)[c]
  BY <1>1
<1>. QED BY <1>1, <1>2

\* A day opens with what the last closed day before it kept, which is no more than
\* it had counted.
LEMMA OpeningIsCounted ==
  ASSUME CashTyped, NEW d \in Day
  PROVE  Counted(closings, d, OpeningCash(d))
<1>. DEFINE before == {k \in DOMAIN closings : closings[k].date < d /\ closings[k].status = "closed"}
            last == CHOOSE k \in before : \A j \in before : closings[j].date <= closings[k].date
<1>1. CASE before = {}
  <2>1. OpeningCash(d) = [c \in Currency |-> 0]
    BY <1>1 DEF OpeningCash
  <2>. QED BY <2>1 DEF Counted
<1>2. CASE before # {}
  <2>1. PICK k \in before : \A j \in before : closings[j].date <= closings[k].date
    BY <1>2, LastBefore
  <2>2. last \in before
    BY <2>1
  <2>3. OpeningCash(d) = closings[last].retained
    BY <1>2 DEF OpeningCash
  <2>4. /\ last \in DOMAIN closings /\ closings[last].date < d
        /\ \A c \in Currency : closings[last].retained[c] <= CountedCash(closings[last].counted)[c]
    BY <2>2 DEF CashTyped, ClosingsTyped, ClosingOK
  <2>. HIDE DEF last
  <2>. QED BY <2>3, <2>4 DEF Counted
<1>. QED BY <1>1, <1>2

\* A step that leaves every closing's date and cash alone, and closes nothing new.
LEMMA FundedStays ==
  ASSUME Funded, UNCHANGED closings,
         \A q \in Cashier : till'[q].op = "close" =>
           till'[q] = till[q] \/ Counted(closings, till'[q].date, till'[q].opening)
  PROVE  Funded'
<1>1. \A k \in DOMAIN closings' : Counted(closings', closings'[k].date, closings'[k].opening)
  BY DEF Funded
<1>2. ASSUME NEW q \in Cashier, till'[q].op = "close"
      PROVE  Counted(closings', till'[q].date, till'[q].opening)
  BY <1>2 DEF Funded
<1>. QED BY <1>1, <1>2 DEF Funded

LEMMA SaveClosingKeepsFunded ==
  ASSUME CashTyped, Funded, NEW p \in Cashier, SaveClosing(p)
  PROVE  Funded'
<1>1. /\ till[p].op = "close" /\ till' = [till EXCEPT ![p] = AtRest]
      /\ \/ UNCHANGED closings
         \/ \E new : Closes(new, till[p]) /\ closings' = Append(closings, new)
  BY SaveClosingAppends
<1>2. \A q \in Cashier : till'[q] = IF q = p THEN AtRest ELSE till[q]
  BY <1>1 DEF CashTyped, TillTyped
<1>3. CASE UNCHANGED closings
  BY <1>2, <1>3, FundedStays DEF AtRest
<1>4. CASE ~UNCHANGED closings
  <2>1. PICK new : Closes(new, till[p]) /\ closings' = Append(closings, new)
    BY <1>1, <1>4
  <2>2. Appended(closings', closings, new)
    BY <2>1, AppendShape DEF CashTyped, ClosingsTyped
  <2>3. ASSUME NEW d, NEW opening, Counted(closings, d, opening)
        PROVE  Counted(closings', d, opening)
    <3>1. \A j \in DOMAIN closings : j \in DOMAIN closings' /\ closings'[j] = closings[j]
      BY <2>2 DEF Appended
    <3>. QED BY <2>3, <3>1, CountedStays
  <2>4. Counted(closings, new.date, new.opening)
    BY <1>1, <2>1 DEF Funded, Closes
  <2>5. \A k \in DOMAIN closings' : Counted(closings', closings'[k].date, closings'[k].opening)
    <3>. TAKE k \in DOMAIN closings'
    <3>1. \/ k \in DOMAIN closings /\ closings'[k] = closings[k]
          \/ closings'[k] = new
      BY <2>2 DEF Appended
    <3>. QED BY <2>3, <2>4, <3>1 DEF Funded
  <2>6. ASSUME NEW q \in Cashier, till'[q].op = "close"
        PROVE  Counted(closings', till'[q].date, till'[q].opening)
    <3>1. till'[q] = till[q]
      BY <1>2, <2>6 DEF AtRest
    <3>. QED BY <2>3, <2>6, <3>1 DEF Funded
  <2>. QED BY <2>5, <2>6 DEF Funded
<1>. QED BY <1>3, <1>4

LEMMA FundedStep ==
  ASSUME CashTyped, Funded, [CashNext]_cashVars
  PROVE  Funded'
<1>1. CASE UNCHANGED cashVars
  BY <1>1, FundedStays DEF cashVars
<1>2. ASSUME NEW p \in Cashier,
             (\E e, row, kind : NewPut(p, e, row, kind))
             \/ (\E delta \in Delta : AdjustStock(p, delta))
             \/ ReadStock(p) \/ Put(p) \/ RecordTip(p) \/ SaveStock(p) \/ Fail(p)
      PROVE  Funded'
  <2>1. UNCHANGED closings
        /\ \E m : till' = [till EXCEPT ![p] = m] /\ m.op # "close"
    <3>1. CASE ReadStock(p)
      <4>. DEFINE l == till[p]
      <4>1. PutOK(l) /\ UNCHANGED closings
        BY <3>1 DEF ReadStock, TouchesStock, CashTyped, TillTyped, TillOK
      <4>2. \E m : /\ till' = [till EXCEPT ![p] = m]
                   /\ m = [l EXCEPT !.kind = "erase"] \/ m = [l EXCEPT !.stock = <<stock>>]
        BY <3>1 DEF ReadStock
      <4>3. PICK m : /\ till' = [till EXCEPT ![p] = m]
                     /\ m = [l EXCEPT !.kind = "erase"] \/ m = [l EXCEPT !.stock = <<stock>>]
        BY <4>2
      <4>4. m.op = "put"
        <5>. HIDE DEF l
        <5>. QED BY <4>1, <4>3 DEF PutOK
      <4>. QED BY <4>1, <4>3, <4>4
    <3>2. CASE ~ReadStock(p)
      BY <1>2, <3>2
         DEF NewPut, Puts, AdjustStock, Put, RecordTip, SaveStock, Fail, Begin, AtRest
    <3>. QED BY <3>1, <3>2
  <2>2. PICK m : till' = [till EXCEPT ![p] = m] /\ m.op # "close"
    BY <2>1
  <2>3. \A q \in Cashier : till'[q] = IF q = p THEN m ELSE till[q]
    BY <2>2 DEF CashTyped, TillTyped
  <2>. QED BY <2>1, <2>2, <2>3, FundedStays
<1>3. ASSUME NEW p \in Cashier, NEW d \in Day, BeginClosing(p, d) PROVE Funded'
  <2>1. UNCHANGED closings
        /\ \E m : till' = [till EXCEPT ![p] = m] /\ m.date = d /\ m.opening = OpeningCash(d)
    <3>. DEFINE l == [op |-> "close", date |-> d, opening |-> OpeningCash(d),
                      booked |-> BookedOn(d),
                      expected |-> AggregateExpected(EntriesOf(BookedOn(d)), OpeningCash(d))]
    <3>1. UNCHANGED closings /\ till' = [till EXCEPT ![p] = l]
      BY <1>3 DEF BeginClosing, Begin
    <3>2. l.date = d /\ l.opening = OpeningCash(d)
      OBVIOUS
    <3>. HIDE DEF l
    <3>. QED BY <3>1, <3>2
  <2>2. PICK m : till' = [till EXCEPT ![p] = m] /\ m.date = d /\ m.opening = OpeningCash(d)
    BY <2>1
  <2>3. \A q \in Cashier : till'[q] = IF q = p THEN m ELSE till[q]
    BY <2>2 DEF CashTyped, TillTyped
  <2>4. Counted(closings, m.date, m.opening)
    BY <2>2, OpeningIsCounted
  <2>. QED BY <2>1, <2>3, <2>4, FundedStays
<1>4. ASSUME NEW k \in DOMAIN closings, RevertClosing(k) PROVE Funded'
  <2>1. /\ UNCHANGED till /\ DOMAIN closings' = DOMAIN closings
        /\ \A j \in DOMAIN closings :
             /\ closings'[j].date = closings[j].date
             /\ closings'[j].opening = closings[j].opening
             /\ closings'[j].counted = closings[j].counted
    BY <1>4, RevertClosingChanges
  <2>2. ASSUME NEW d, NEW opening, Counted(closings, d, opening)
        PROVE  Counted(closings', d, opening)
    BY <2>1, <2>2, CountedStays
  <2>3. \A j \in DOMAIN closings' : Counted(closings', closings'[j].date, closings'[j].opening)
    BY <2>1, <2>2 DEF Funded
  <2>4. \A q \in Cashier : till'[q].op = "close" => Counted(closings', till'[q].date, till'[q].opening)
    BY <2>1, <2>2 DEF Funded
  <2>. QED BY <2>3, <2>4 DEF Funded
<1>5. CASE NextDay
  BY <1>5, FundedStays DEF NextDay
<1>6. CASE CashNext
  BY <1>2, <1>3, <1>4, <1>5, <1>6, CashSteps, SaveClosingKeepsFunded, Zenon
<1>. QED BY <1>1, <1>6

LEMMA FundedIsCounted ==
  ASSUME CashTyped, Funded
  PROVE  OpeningWasCounted
BY DEF Funded, Counted, OpeningWasCounted

-----------------------------------------------------------------------------
(* The stock *)

\* What is to be written for an appointment is a row with an id.
LEMMA ChargeHasId ==
  ASSUME NEW l, PutOK(l), l.entry \in Charge
  PROVE  l.kind # "remove" /\ l.row \in RowOf(l.entry) /\ l.row # Absent /\ l.row.id \in Int
<1>1. l.entry \in Movement /\ l.kind # "remove"
  BY CashAssumption DEF PutOK
<1>2. l.row \in RowOf(l.entry)
  BY <1>1 DEF PutOK
<1>3. l.row.id \in 0..MaxStarted
  BY <1>1, <1>2, RowFields
<1>. QED BY <1>1, <1>2, <1>3, RowIsNotAbsent

\* A step of no request that touches the stock.
LEMMA QuietKeepsStocked ==
  ASSUME CashTyped, CashTyped', Stocked,
         UNCHANGED <<sold, stock, adjusted, raced>>, started <= started',
         \A e \in Movement : /\ books'[e] # Absent <=> books[e] # Absent
                             /\ books[e] # Absent => books'[e].id = books[e].id,
         \A q \in Cashier : till'[q] = till[q] \/ till'[q].op \notin {"put", "adjust"}
  PROVE  Stocked'
<1>1. started \in Int /\ started' \in Int /\ sold \subseteq Movement /\ Charge \subseteq Movement
  BY CashAssumption DEF CashTyped, RowsTyped, Movement
<1>2. /\ \A q \in Cashier : till'[q].op \in {"put", "adjust"} => till'[q] = till[q]
      /\ \A q \in Cashier : till'[q].op = "put" => PutOK(till[q])
  BY DEF CashTyped, TillTyped, TillOK
<1>3. OneReader' /\ ReadsTheStock' /\ UndoesTheSold'
  BY <1>2 DEF Stocked, OneReader, ReadsTheStock, UndoesTheSold, Reads, SellsOut
<1>4. SoldIsBooked' /\ StockIsExact'
  BY <1>1 DEF Stocked, SoldIsBooked, StockIsExact
<1>5. NewIsNew'
  BY <1>1, <1>2 DEF Stocked, NewIsNew, Differs
<1>6. IdsAreStarts'
  <2>1. \A e \in Charge : books[e] # Absent => books[e].id \in Int
    BY <1>1, RowFields DEF CashTyped, RowsTyped, BookedOK
  <2>2. ASSUME NEW e \in Charge, books'[e] # Absent PROVE books'[e].id < started'
    BY <1>1, <2>1, <2>2 DEF Stocked, IdsAreStarts
  <2>3. ASSUME NEW q \in Cashier, till'[q].op = "put", till'[q].entry \in Charge
        PROVE  till'[q].row.id < started'
    <3>1. till'[q] = till[q] /\ PutOK(till[q])
      BY <1>2, <2>3
    <3>2. till[q].row.id < started
      BY <2>3, <3>1 DEF Stocked, IdsAreStarts
    <3>3. till[q].row.id \in Int
      BY <2>3, <3>1, ChargeHasId
    <3>. QED BY <1>1, <3>1, <3>2, <3>3
  <2>. QED BY <2>2, <2>3 DEF IdsAreStarts
<1>7. ErasesAnother'
  <2>. SUFFICES ASSUME NEW q \in Cashier, till'[q].op = "put", till'[q].kind = "erase",
                       till'[q].entry \in sold'
                PROVE  books'[till'[q].entry].id # till'[q].row.id
    BY DEF ErasesAnother
  <2>1. till'[q] = till[q] /\ till[q].entry \in Movement /\ till[q].entry \in sold
    BY <1>1, <1>2
  <2>2. books[till[q].entry] # Absent /\ books[till[q].entry].id # till[q].row.id
    BY <2>1 DEF Stocked, ErasesAnother, SoldIsBooked
  <2>. QED BY <2>1, <2>2
<1>. QED BY <1>3, <1>4, <1>5, <1>6, <1>7 DEF Stocked

LEMMA NewPutKeepsStocked ==
  ASSUME CashTyped, Stocked, NEW p \in Cashier, NEW e, NEW row, NEW kind,
         NewPut(p, e, row, kind)
  PROVE  Stocked'
<1>. DEFINE l == Puts(e, row, kind)
<1>1. /\ till' = [till EXCEPT ![p] = l] /\ started' = started + 1
      /\ UNCHANGED <<today, books, closings, sold, stock, adjusted, raced>>
  BY DEF NewPut, Begin
<1>2. \A q \in Cashier : till'[q] = IF q = p THEN l ELSE till[q]
  BY <1>1 DEF CashTyped, TillTyped
<1>3. /\ l.op = "put" /\ l.entry = e /\ l.row = row /\ l.kind = kind /\ l.stock = Unread
      /\ l.kind # "erase" /\ started \in Int
  BY CashAssumption DEF Puts, NewPut, CashTyped, RowsTyped
<1>4. OneReader' /\ ReadsTheStock' /\ UndoesTheSold'
  BY <1>1, <1>2, <1>3 DEF Stocked, OneReader, ReadsTheStock, UndoesTheSold, Reads, SellsOut
<1>5. SoldIsBooked' /\ StockIsExact'
  BY <1>1 DEF Stocked, SoldIsBooked, StockIsExact
<1>6. ErasesAnother'
  BY <1>1, <1>2, <1>3 DEF Stocked, ErasesAnother
<1>7. e \in Charge =>
        \/ kind = "create" /\ books[e] = Absent /\ row.id = started
        \/ kind \in {"revert", "collect"} /\ books[e] # Absent /\ row.id = books[e].id
  <2>. SUFFICES ASSUME e \in Charge
                PROVE  \/ kind = "create" /\ books[e] = Absent /\ row.id = started
                       \/ kind \in {"revert", "collect"} /\ books[e] # Absent /\ row.id = books[e].id
    OBVIOUS
  <2>. DEFINE old == books[e]
  <2>1. kind \notin {"update", "remove"}
    BY CashAssumption DEF NewPut
  <2>2. kind = "collect" => old # Absent /\ row = [old EXCEPT !.date = today]
    BY DEF NewPut
  <2>3. old # Absent => old \in RowOf(e)
    BY DEF CashTyped, RowsTyped, BookedOK, Movement
  <2>4. kind = "collect" => old # Absent /\ row.id = old.id
    <3>. HIDE DEF old
    <3>. QED BY <2>2, <2>3 DEF RowOf
  <2>. QED BY <2>1, <2>4 DEF NewPut
<1>8. \A q \in Cashier : till[q].op = "put" /\ till[q].entry \in Charge => till[q].row.id < started
  BY DEF Stocked, IdsAreStarts
<1>9. \A d \in Charge : books[d] # Absent => books[d].id < started
  BY DEF Stocked, IdsAreStarts
<1>10. \A q \in Cashier : till[q].op = "put" /\ till[q].entry \in Charge => till[q].row.id \in Int
  <2>1. \A q \in Cashier : till[q].op = "put" => PutOK(till[q])
    BY DEF CashTyped, TillTyped, TillOK
  <2>. QED BY <2>1, ChargeHasId
<1>11. \A d \in Charge : books[d] # Absent => books[d].id \in Int
  BY RowFields DEF CashTyped, RowsTyped, BookedOK, Movement
<1>. HIDE DEF l
<1>12. NewIsNew'
  <2>. SUFFICES ASSUME NEW q \in Cashier, till'[q].op = "put", till'[q].kind = "create",
                       till'[q].entry \in Charge
                PROVE  /\ books[till'[q].entry] # Absent =>
                             books[till'[q].entry].id # till'[q].row.id
                       /\ \A r \in Cashier \ {q} :
                            till'[r].op = "put" /\ till'[r].entry = till'[q].entry
                            /\ till'[r].kind # "remove" => till'[r].row.id # till'[q].row.id
    BY <1>1 DEF NewIsNew, Differs
  <2>1. CASE q = p
    <3>1. till'[q] = l /\ kind = "create" /\ books[e] = Absent /\ row.id = started /\ e \in Charge
      BY <1>2, <1>3, <1>7, <2>1
    <3>2. ASSUME NEW r \in Cashier \ {q}, till[r].op = "put", till[r].entry = e
          PROVE  till[r].row.id # started
      BY <1>3, <1>8, <1>10, <3>1, <3>2
    <3>. QED BY <1>2, <1>3, <2>1, <3>1, <3>2
  <2>2. CASE q # p
    <3>1. till'[q] = till[q]
      BY <1>2, <2>2
    <3>2. Differs(q, till[q].entry, till[q].row.id)
      BY <3>1 DEF Stocked, NewIsNew
    <3>3. e = till[q].entry => row.id # till[q].row.id
      BY <1>3, <1>7, <1>8, <1>10, <3>1, <3>2 DEF Differs
    <3>4. \A r \in Cashier \ {q} :
            till'[r].op = "put" /\ till'[r].entry = till[q].entry
            /\ till'[r].kind # "remove" => till'[r].row.id # till[q].row.id
      BY <1>2, <1>3, <3>2, <3>3 DEF Differs
    <3>. QED BY <3>1, <3>2, <3>4 DEF Differs
  <2>. QED BY <2>1, <2>2
<1>13. IdsAreStarts'
  <2>1. ASSUME NEW d \in Charge, books'[d] # Absent PROVE books'[d].id < started'
    BY <1>1, <1>3, <1>9, <1>11, <2>1
  <2>2. ASSUME NEW q \in Cashier, till'[q].op = "put", till'[q].entry \in Charge
        PROVE  till'[q].row.id < started'
    <3>1. CASE q = p
      BY <1>1, <1>2, <1>3, <1>7, <1>9, <1>11, <2>2, <3>1
    <3>2. CASE q # p
      BY <1>1, <1>2, <1>3, <1>8, <1>10, <2>2, <3>2
    <3>. QED BY <3>1, <3>2
  <2>. QED BY <2>1, <2>2 DEF IdsAreStarts
<1>. QED BY <1>4, <1>5, <1>6, <1>12, <1>13 DEF Stocked

LEMMA AdjustKeepsStocked ==
  ASSUME CashTyped, Stocked, NEW p \in Cashier, NEW delta \in Delta, AdjustStock(p, delta)
  PROVE  Stocked'
<1>. DEFINE l == [op |-> "adjust", delta |-> delta, stock |-> <<stock>>]
<1>1. /\ till' = [till EXCEPT ![p] = l] /\ started' = started + 1
      /\ raced' = (raced \/ OthersRead(p))
      /\ UNCHANGED <<books, sold, stock, adjusted>>
  BY DEF AdjustStock, Begin
<1>2. \A q \in Cashier : till'[q] = IF q = p THEN l ELSE till[q]
  BY <1>1 DEF CashTyped, TillTyped
<1>3. l.op = "adjust" /\ l.stock[1] = stock /\ started \in Int
  BY CashAssumption DEF CashTyped, RowsTyped
<1>. HIDE DEF l
<1>4. ~raced' => ~raced /\ \A q \in Cashier \ {p} : ~Reads(q)
  BY <1>1 DEF OthersRead, Reads
<1>5. \A q \in Cashier \ {p} : Reads(q)' <=> Reads(q)
  BY <1>2 DEF Reads
<1>6. OneReader'
  BY <1>4, <1>5 DEF OneReader
<1>7. ReadsTheStock'
  BY <1>1, <1>2, <1>3, <1>4, <1>5 DEF ReadsTheStock
<1>8. UndoesTheSold'
  BY <1>1, <1>2, <1>3, <1>4 DEF Stocked, UndoesTheSold, SellsOut
<1>9. SoldIsBooked' /\ StockIsExact'
  BY <1>1, <1>4 DEF Stocked, SoldIsBooked, StockIsExact
<1>10. NewIsNew'
  BY <1>1, <1>2, <1>3 DEF Stocked, NewIsNew, Differs
<1>11. ErasesAnother'
  BY <1>1, <1>2, <1>3 DEF Stocked, ErasesAnother
<1>12. IdsAreStarts'
  <2>1. \A e \in Charge : books[e] # Absent => books[e].id \in Int
    BY RowFields DEF CashTyped, RowsTyped, BookedOK, Movement
  <2>2. \A q \in Cashier : till[q].op = "put" /\ till[q].entry \in Charge => till[q].row.id \in Int
    BY ChargeHasId DEF CashTyped, TillTyped, TillOK
  <2>. QED BY <1>1, <1>2, <1>3, <2>1, <2>2 DEF Stocked, IdsAreStarts
<1>. QED BY <1>6, <1>7, <1>8, <1>9, <1>10, <1>11, <1>12 DEF Stocked

LEMMA ReadStockKeepsStocked ==
  ASSUME CashTyped, Stocked, NEW p \in Cashier, ReadStock(p)
  PROVE  Stocked'
<1>. DEFINE l == till[p]
            gone == l.kind = "revert" /\ l.entry \notin sold
            m == IF gone THEN [l EXCEPT !.kind = "erase"] ELSE [l EXCEPT !.stock = <<stock>>]
<1>1. /\ till' = [till EXCEPT ![p] = m] /\ TouchesStock(l) /\ l.stock = Unread
      /\ raced' = (raced \/ (~gone /\ OthersRead(p)))
      /\ UNCHANGED <<books, sold, stock, adjusted, started>>
  BY DEF ReadStock
<1>2. PutOK(l) /\ l.op = "put" /\ l.kind \in {"create", "revert"}
  BY <1>1 DEF TouchesStock, CashTyped, TillTyped, TillOK
<1>3. \A q \in Cashier : till'[q] = IF q = p THEN m ELSE till[q]
  BY <1>1 DEF CashTyped, TillTyped
<1>4. /\ m.op = "put" /\ m.entry = l.entry /\ m.row = l.row
      /\ IF gone THEN m.kind = "erase" /\ m.stock = Unread
         ELSE m.kind = l.kind /\ m.stock = <<stock>>
  <2>. HIDE DEF l
  <2>. QED BY <1>1, <1>2 DEF PutOK
<1>. HIDE DEF m
<1>5. ~raced' => ~raced /\ (~gone => \A q \in Cashier \ {p} : ~Reads(q))
  BY <1>1 DEF OthersRead, Reads
<1>6. \A q \in Cashier \ {p} : (Reads(q)' <=> Reads(q)) /\ (SellsOut(q)' <=> SellsOut(q))
  BY <1>3 DEF Reads, SellsOut
<1>7. Reads(p)' <=> ~gone
  BY <1>3, <1>4 DEF Reads, Unread
<1>8. OneReader'
  BY <1>5, <1>6, <1>7 DEF Stocked, OneReader
<1>9. ReadsTheStock'
  <2>. SUFFICES ASSUME ~raced', NEW q \in Cashier, Reads(q)' PROVE till'[q].stock[1] = stock'
    BY DEF ReadsTheStock
  <2>1. CASE q = p
    BY <1>1, <1>3, <1>4, <1>7, <2>1
  <2>2. CASE q # p
    BY <1>1, <1>3, <1>5, <1>6, <2>2 DEF Stocked, ReadsTheStock
  <2>. QED BY <2>1, <2>2
<1>10. UndoesTheSold'
  <2>. SUFFICES ASSUME ~raced', NEW q \in Cashier, SellsOut(q)' PROVE till'[q].entry \in sold'
    BY DEF UndoesTheSold
  <2>1. CASE q = p
    <3>1. ~gone /\ l.kind = "revert"
      BY <1>3, <1>4, <2>1 DEF SellsOut
    <3>. QED BY <1>1, <1>3, <1>4, <2>1, <3>1
  <2>2. CASE q # p
    BY <1>1, <1>3, <1>5, <1>6, <2>2 DEF Stocked, UndoesTheSold
  <2>. QED BY <2>1, <2>2
<1>11. SoldIsBooked' /\ StockIsExact'
  BY <1>1, <1>5 DEF Stocked, SoldIsBooked, StockIsExact
<1>12. \A q \in Cashier : /\ till'[q].op = till[q].op
                          /\ till[q].op = "put" => /\ till'[q].entry = till[q].entry
                                                   /\ till'[q].row = till[q].row
                          /\ till'[q].op = "put" /\ till'[q].kind = "create" => till[q].kind = "create"
                          /\ till'[q].op = "put" /\ till'[q].kind # "remove" => till[q].kind # "remove"
  BY <1>2, <1>3, <1>4
<1>13. NewIsNew'
  BY <1>1, <1>12 DEF Stocked, NewIsNew, Differs
<1>14. IdsAreStarts'
  BY <1>1, <1>12 DEF Stocked, IdsAreStarts
<1>15. ErasesAnother'
  <2>. SUFFICES ASSUME NEW q \in Cashier, till'[q].op = "put", till'[q].kind = "erase",
                       till'[q].entry \in sold'
                PROVE  books[till'[q].entry].id # till'[q].row.id
    BY <1>1 DEF ErasesAnother
  <2>1. CASE q = p
    BY <1>1, <1>2, <1>3, <1>4, <2>1
  <2>2. CASE q # p
    BY <1>1, <1>3, <2>2 DEF Stocked, ErasesAnother
  <2>. QED BY <2>1, <2>2
<1>. QED BY <1>8, <1>9, <1>10, <1>11, <1>13, <1>14, <1>15 DEF Stocked

LEMMA SaveStockKeepsStocked ==
  ASSUME CashTyped, Stocked, NEW p \in Cashier, SaveStock(p)
  PROVE  Stocked'
<1>1. /\ till[p].op = "adjust"
      /\ stock' = till[p].stock[1] + till[p].delta /\ adjusted' = adjusted + till[p].delta
      /\ till' = [till EXCEPT ![p] = AtRest]
      /\ UNCHANGED <<books, sold, raced, started>>
  BY DEF SaveStock
<1>2. \A q \in Cashier : till'[q] = IF q = p THEN AtRest ELSE till[q]
  BY <1>1 DEF CashTyped, TillTyped
<1>3. Reads(p) /\ till[p].delta \in Int /\ stock \in Int /\ adjusted \in Int
  BY <1>1 DEF Reads, CashTyped, TillTyped, TillOK, RowsTyped
<1>4. AtRest.op = "idle"
  BY DEF AtRest
<1>5. \A q \in Cashier : Reads(q)' => q # p /\ Reads(q)
  BY <1>2, <1>4 DEF Reads
<1>6. \A q \in Cashier : Reads(q)' => raced
  BY <1>3, <1>5 DEF Stocked, OneReader
<1>7. OneReader' /\ ReadsTheStock'
  BY <1>1, <1>6 DEF OneReader, ReadsTheStock
<1>8. UndoesTheSold'
  BY <1>1, <1>2, <1>4 DEF Stocked, UndoesTheSold, SellsOut
<1>9. SoldIsBooked' /\ NewIsNew' /\ IdsAreStarts' /\ ErasesAnother'
  BY <1>1, <1>2, <1>4
     DEF Stocked, SoldIsBooked, NewIsNew, Differs, IdsAreStarts, ErasesAnother
<1>10. StockIsExact'
  <2>1. Cardinality(sold) \in Int
    <3>1. IsFiniteSet(sold)
      BY CashAssumption, FS_Subset DEF CashTyped, RowsTyped, Movement
    <3>. QED BY <3>1, FS_CardinalityType
  <2>. QED BY <1>1, <1>3, <2>1, CashAssumption DEF Stocked, ReadsTheStock, StockIsExact
<1>. QED BY <1>7, <1>8, <1>9, <1>10 DEF Stocked

\* A write of a charge or a sale: what becomes of its row and its id.
LEMMA PutOfASale ==
  ASSUME CashTyped, Stocked, NEW p \in Cashier, Put(p), till[p].entry \notin Manual
  PROVE  LET l == till[p]
             w == WrittenBy(l)
         IN /\ w \in {Absent, books[l.entry]} \/ (w # Absent /\ l.row # Absent /\ w.id = l.row.id)
            /\ l.kind # "remove"
            /\ w = Absent => books[l.entry] = Absent \/ l.kind \in {"revert", "erase"}
            /\ l.kind = "erase" /\ l.entry \in sold => w = books[l.entry]
            /\ ~Refused(l) /\ l.kind = "create" => books[l.entry] = Absent
            /\ ~Refused(l) /\ l.kind = "create" => w = l.row /\ w # Absent
            /\ l.kind = "collect" /\ books[l.entry] # Absent => w # Absent /\ w.id = books[l.entry].id
<1>. DEFINE l == till[p]
            e == l.entry
            w == WrittenBy(l)
<1>1. PutOK(l) /\ l.op = "put"
  BY PutWrites
<1>2. l.kind # "remove" /\ l.kind # "update" /\ l.row \in RowOf(e) /\ l.row # Absent
  BY <1>1, RowIsNotAbsent DEF PutOK
<1>3. l.kind = "erase" /\ e \in sold => books[e] # Absent /\ books[e].id # l.row.id
  BY <1>1 DEF Stocked, ErasesAnother, SoldIsBooked
<1>4. CASE Refused(l)
  BY <1>1, <1>2, <1>3, <1>4 DEF WrittenBy, Refused
<1>5. CASE ~Refused(l) /\ l.kind = "create"
  <2>1. w = l.row
    BY <1>5 DEF WrittenBy, Written
  <2>2. books[e] = Absent
    BY <1>5 DEF Refused
  <2>. QED BY <1>2, <1>5, <2>1, <2>2
<1>6. CASE ~Refused(l) /\ l.kind = "collect"
  <2>. DEFINE row == l.row
  <2>1. books[e] # Absent => row.id = books[e].id
    BY <1>6 DEF Refused
  <2>2. w = [row EXCEPT !.money = NoLines] \/ w = row
    BY <1>6 DEF WrittenBy, Written
  <2>3. row \in RowOf(e)
    BY <1>2
  <2>4. w.id = row.id /\ w # Absent
    <3>1. CASE w = row
      BY <1>2, <3>1
    <3>2. CASE w = [row EXCEPT !.money = NoLines]
      <4>. HIDE DEF row
      <4>1. w \in RowOf(e) /\ w.id = row.id
        BY <2>3, <3>2 DEF RowOf
      <4>. QED BY <4>1, RowIsNotAbsent
    <3>. QED BY <2>2, <3>1, <3>2
  <2>. QED BY <1>2, <1>6, <2>1, <2>4
<1>7. CASE ~Refused(l) /\ l.kind \in {"revert", "erase"}
  <2>1. w = IF books[e] # Absent /\ books[e].id = l.row.id THEN Absent ELSE books[e]
    BY <1>7 DEF WrittenBy, Written
  <2>. QED BY <1>2, <1>3, <1>7, <2>1
<1>. QED BY <1>1, <1>2, <1>4, <1>5, <1>6, <1>7 DEF PutOK, Kind

LEMMA PutKeepsStocked ==
  ASSUME CashTyped, Stocked, NEW p \in Cashier, Put(p)
  PROVE  Stocked'
<1>. DEFINE l == till[p]
            e == l.entry
            w == WrittenBy(l)
            done == ~Refused(l)
            sells == done /\ TouchesStock(l)
<1>1. /\ \E m : till' = [till EXCEPT ![p] = m] /\ m.op \notin {"put", "adjust"}
      /\ UNCHANGED <<adjusted, raced, started>>
      /\ stock' = IF sells THEN StockAfter(l) ELSE stock
      /\ sold' = IF ~sells THEN sold
                 ELSE IF l.kind = "create" THEN sold \cup {e} ELSE sold \ {e}
      /\ TouchesStock(l) => l.stock # Unread
  <2>. DEFINE m == IF (l.kind = "create" /\ l.row.tip = "leftover") /\ done
                   THEN [op |-> "tip", entry |-> l.entry] ELSE AtRest
  <2>1. till' = [till EXCEPT ![p] = m]
    BY DEF Put
  <2>2. m.op \notin {"put", "adjust"}
    BY DEF AtRest
  <2>3. UNCHANGED <<adjusted, raced, started>> /\ (TouchesStock(l) => l.stock # Unread)
    BY DEF Put
  <2>4. stock' = IF sells THEN StockAfter(l) ELSE stock
    BY DEF Put
  <2>5. sold' = IF ~sells THEN sold
                ELSE IF l.kind = "create" THEN sold \cup {e} ELSE sold \ {e}
    BY DEF Put
  <2>. HIDE DEF m, sells, l
  <2>. QED BY <2>1, <2>2, <2>3, <2>4, <2>5
<1>2. PICK m : till' = [till EXCEPT ![p] = m] /\ m.op \notin {"put", "adjust"}
  BY <1>1
<1>3. \A q \in Cashier : till'[q] = IF q = p THEN m ELSE till[q]
  BY <1>2 DEF CashTyped, TillTyped
<1>4. \A q \in Cashier : till'[q].op \in {"put", "adjust"} => q # p /\ till'[q] = till[q]
  BY <1>2, <1>3
<1>5. /\ PutOK(l) /\ l.op = "put"
      /\ \A d \in Movement : books'[d] = IF d = e THEN w ELSE books[d]
  BY PutWrites
<1>6. e \in Movement /\ sold \subseteq Movement /\ sold \subseteq Charge \cup Sale
      /\ (e \in Manual => e \notin sold /\ e \notin Charge)
      /\ Charge \subseteq Movement
  BY <1>5, CashAssumption DEF PutOK, CashTyped, RowsTyped, Movement
<1>7. sells => e \notin Manual /\ l.kind \in {"create", "revert"} /\ Reads(p)
               /\ (l.kind = "revert" => SellsOut(p))
  BY <1>1, <1>5 DEF TouchesStock, Reads, SellsOut
<1>8. e \notin Manual =>
        /\ w \in {Absent, books[e]} \/ (w # Absent /\ l.row # Absent /\ w.id = l.row.id)
        /\ l.kind # "remove"
        /\ w = Absent => books[e] = Absent \/ l.kind \in {"revert", "erase"}
        /\ l.kind = "erase" /\ e \in sold => w = books[e]
        /\ done /\ l.kind = "create" => books[e] = Absent
        /\ done /\ l.kind = "create" => w = l.row /\ w # Absent
        /\ l.kind = "collect" /\ books[e] # Absent => w # Absent /\ w.id = books[e].id
  BY PutOfASale
<1>. HIDE DEF w, done, sells
<1>9. /\ sells /\ ~raced => l.stock[1] = stock
      /\ sells /\ ~raced /\ l.kind = "revert" => e \in sold
      /\ sells /\ ~raced /\ l.kind = "create" => e \notin sold
  <2>1. sells /\ ~raced => l.stock[1] = stock
    BY <1>7 DEF Stocked, ReadsTheStock
  <2>2. sells /\ ~raced /\ l.kind = "revert" => e \in sold
    BY <1>7 DEF Stocked, UndoesTheSold
  <2>3. sells /\ l.kind = "create" => e \notin sold
    BY <1>7, <1>8 DEF Stocked, SoldIsBooked, sells
  <2>. QED BY <2>1, <2>2, <2>3
<1>10. ASSUME sells, ~raced, NEW q \in Cashier PROVE ~Reads(q)'
  <2>1. Reads(q)' => q # p /\ Reads(q)
    BY <1>4 DEF Reads
  <2>2. Reads(q) => q = p
    BY <1>7, <1>10 DEF Stocked, OneReader
  <2>. QED BY <2>1, <2>2
<1>11. OneReader'
  BY <1>1, <1>4 DEF Stocked, OneReader, Reads
<1>12. ReadsTheStock'
  <2>1. CASE sells
    BY <1>1, <1>10, <2>1 DEF ReadsTheStock
  <2>2. CASE ~sells
    BY <1>1, <1>4, <2>2 DEF Stocked, ReadsTheStock, Reads
  <2>. QED BY <2>1, <2>2
<1>13. UndoesTheSold'
  <2>1. \A q \in Cashier : SellsOut(q)' => Reads(q)' /\ SellsOut(q) /\ till'[q] = till[q]
    BY <1>4 DEF SellsOut, Reads
  <2>2. CASE sells
    BY <1>1, <1>10, <2>1, <2>2 DEF UndoesTheSold
  <2>3. CASE ~sells
    BY <1>1, <2>1, <2>3 DEF Stocked, UndoesTheSold
  <2>. QED BY <2>2, <2>3
<1>14. SoldIsBooked'
  <2>. SUFFICES ASSUME NEW d \in sold' PROVE books'[d] # Absent
    BY DEF SoldIsBooked
  <2>1. d \in sold \/ (d = e /\ sells /\ l.kind = "create")
    BY <1>1
  <2>2. CASE d # e
    BY <1>5, <1>6, <2>1, <2>2 DEF Stocked, SoldIsBooked
  <2>3. CASE d = e /\ sells
    <3>1. l.kind = "create" /\ done /\ e \notin Manual
      BY <1>1, <1>7, <2>3 DEF sells
    <3>. QED BY <1>5, <1>6, <1>8, <2>3, <3>1
  <2>4. CASE d = e /\ ~sells
    <3>1. d \in sold /\ e \notin Manual /\ books[e] # Absent
      BY <1>6, <2>1, <2>4 DEF Stocked, SoldIsBooked
    <3>2. l.kind = "revert" => w = books[e]
      BY <1>5, <2>4, <3>1 DEF sells, TouchesStock, done, w, WrittenBy
    <3>. QED BY <1>5, <1>6, <1>8, <2>4, <3>1, <3>2
  <2>. QED BY <2>2, <2>3, <2>4
<1>15. ASSUME NEW q \in Cashier, q # p, till[q].op = "put", till[q].kind = "create",
              till[q].entry \in Charge
       PROVE  Differs(q, till[q].entry, till[q].row.id)'
  <2>1. Differs(q, till[q].entry, till[q].row.id)
    BY <1>15 DEF Stocked, NewIsNew
  <2>2. ASSUME books'[till[q].entry] # Absent PROVE books'[till[q].entry].id # till[q].row.id
    <3>1. CASE till[q].entry # e
      BY <1>5, <1>6, <1>15, <2>1, <2>2, <3>1 DEF Differs
    <3>2. CASE till[q].entry = e
      <4>1. l.row.id # till[q].row.id /\ w # Absent /\ books'[till[q].entry] = w
        BY <1>5, <1>6, <1>8, <1>15, <2>1, <2>2, <3>2, CashAssumption DEF Differs
      <4>2. w = books[e] \/ w.id = l.row.id
        BY <1>6, <1>8, <1>15, <3>2, <4>1
      <4>. QED BY <2>1, <3>2, <4>1, <4>2 DEF Differs
    <3>. QED BY <3>1, <3>2
  <2>3. \A r \in Cashier \ {q} : till'[r].op = "put" => till'[r] = till[r]
    BY <1>4
  <2>4. till'[q] = till[q]
    BY <1>3, <1>15
  <2>. QED BY <2>1, <2>2, <2>3, <2>4 DEF Differs
<1>16. NewIsNew'
  BY <1>4, <1>15 DEF NewIsNew
<1>17. IdsAreStarts'
  <2>1. ASSUME NEW d \in Charge, books'[d] # Absent PROVE books'[d].id < started
    <3>1. CASE d # e
      BY <1>5, <1>6, <2>1, <3>1 DEF Stocked, IdsAreStarts
    <3>2. CASE d = e
      <4>1. w # Absent /\ e \notin Manual /\ books'[d] = w
        BY <1>5, <1>6, <2>1, <3>2
      <4>. QED BY <1>5, <1>8, <2>1, <3>2, <4>1 DEF Stocked, IdsAreStarts
    <3>. QED BY <3>1, <3>2
  <2>. QED BY <1>1, <1>4, <2>1 DEF Stocked, IdsAreStarts
<1>18. ErasesAnother'
  <2>. SUFFICES ASSUME NEW q \in Cashier, till'[q].op = "put", till'[q].kind = "erase",
                       till'[q].entry \in sold'
                PROVE  books'[till'[q].entry].id # till'[q].row.id
    BY DEF ErasesAnother
  <2>1. q # p /\ till'[q] = till[q]
    BY <1>4
  <2>2. CASE till[q].entry # e
    <3>1. till[q].entry \in sold
      BY <1>1, <2>1, <2>2
    <3>. QED BY <1>5, <1>6, <2>1, <2>2, <3>1 DEF Stocked, ErasesAnother
  <2>3. CASE till[q].entry = e
    <3>1. e \in Charge /\ e \notin Manual
      BY <1>6, <2>1, <2>3 DEF CashTyped, TillTyped, TillOK, PutOK
    <3>2. CASE sells
      <4>1. l.kind = "create" /\ done
        BY <1>1, <1>7, <2>1, <2>3, <3>2 DEF sells
      <4>2. l.row.id # till[q].row.id
        BY <1>5, <2>1, <2>3, <3>1, <4>1 DEF Stocked, NewIsNew, Differs
      <4>. QED BY <1>5, <1>6, <1>8, <2>1, <2>3, <3>1, <4>1, <4>2
    <3>3. CASE ~sells
      <4>1. e \in sold /\ books[e] # Absent /\ books[e].id # till[q].row.id
        BY <1>1, <2>1, <2>3, <3>3 DEF Stocked, ErasesAnother, SoldIsBooked
      <4>2. w = books[e] \/ (w # Absent /\ w.id = books[e].id)
        <5>1. l.kind \in {"create", "revert"} => w = books[e]
          BY <1>5, <3>1, <3>3, <4>1 DEF sells, TouchesStock, done, w, WrittenBy
        <5>2. l.kind \in {"create", "update", "revert", "collect", "erase"} /\ l.kind # "update"
          BY <1>5, <1>8, <3>1 DEF PutOK, Kind
        <5>. QED BY <1>8, <3>1, <4>1, <5>1, <5>2
      <4>. QED BY <1>5, <1>6, <2>1, <2>3, <4>1, <4>2
    <3>. QED BY <3>2, <3>3
  <2>. QED BY <2>2, <2>3
<1>19. StockIsExact'
  <2>. SUFFICES ASSUME ~raced
                PROVE  stock' = InitialStock + adjusted - Cardinality(sold')
    BY <1>1 DEF StockIsExact
  <2>1. IsFiniteSet(sold) /\ Cardinality(sold) \in Nat
    BY <1>6, CashAssumption, FS_Subset, FS_CardinalityType
  <2>2. stock = InitialStock + adjusted - Cardinality(sold)
    BY DEF Stocked, StockIsExact
  <2>3. CASE ~sells
    BY <1>1, <2>2, <2>3
  <2>. HIDE DEF l, e
  <2>4. CASE sells /\ l.kind = "create"
    <3>1. e \notin sold /\ l.stock[1] = stock
      BY <1>9, <2>4
    <3>2. Cardinality(sold') = Cardinality(sold) + 1
      BY <1>1, <2>1, <2>4, <3>1, FS_AddElement
    <3>3. stock' = stock - 1
      BY <1>1, <2>4, <3>1 DEF StockAfter
    <3>. QED BY <2>1, <2>2, <3>2, <3>3, CashAssumption DEF CashTyped, RowsTyped
  <2>5. CASE sells /\ l.kind = "revert"
    <3>1. e \in sold /\ l.stock[1] = stock
      BY <1>9, <2>5
    <3>2. Cardinality(sold') = Cardinality(sold) - 1
      BY <1>1, <2>1, <2>5, <3>1, FS_RemoveElement
    <3>3. stock' = stock + 1
      BY <1>1, <2>5, <3>1 DEF StockAfter
    <3>. QED BY <2>1, <2>2, <3>2, <3>3, CashAssumption DEF CashTyped, RowsTyped
  <2>. QED BY <1>7, <2>3, <2>4, <2>5
<1>. QED BY <1>11, <1>12, <1>13, <1>14, <1>16, <1>17, <1>18, <1>19 DEF Stocked

LEMMA StockedStep ==
  ASSUME CashTyped, Stocked, [CashNext]_cashVars
  PROVE  Stocked'
<1>1. CashTyped'
  BY TypedStep
<1>2. started \in Int
  BY CashAssumption DEF CashTyped, RowsTyped
<1>3. CASE UNCHANGED cashVars
  BY <1>1, <1>2, <1>3, QuietKeepsStocked DEF cashVars
<1>4. ASSUME NEW p \in Cashier,
             (\E d \in Day : BeginClosing(p, d)) \/ Fail(p) \/ SaveClosing(p)
      PROVE  Stocked'
  <2>1. /\ UNCHANGED <<books, sold, stock, adjusted, raced>>
        /\ started' \in {started, started + 1}
        /\ \E m : till' = [till EXCEPT ![p] = m] /\ m.op \notin {"put", "adjust"}
    BY <1>4, SaveClosingAppends DEF BeginClosing, Fail, Begin, AtRest
  <2>2. PICK m : till' = [till EXCEPT ![p] = m] /\ m.op \notin {"put", "adjust"}
    BY <2>1
  <2>3. \A q \in Cashier : till'[q] = IF q = p THEN m ELSE till[q]
    BY <2>2 DEF CashTyped, TillTyped
  <2>. QED BY <1>1, <1>2, <2>1, <2>2, <2>3, QuietKeepsStocked
<1>5. ASSUME NEW p \in Cashier, RecordTip(p) PROVE Stocked'
  <2>1. /\ till' = [till EXCEPT ![p] = AtRest]
        /\ UNCHANGED <<sold, stock, adjusted, raced, started>>
    BY <1>5 DEF RecordTip
  <2>2. \A e \in Movement : /\ books'[e] # Absent <=> books[e] # Absent
                            /\ books[e] # Absent => books'[e].id = books[e].id
    BY <1>5, RecordTipIsTyped
  <2>3. \A q \in Cashier : till'[q] = IF q = p THEN AtRest ELSE till[q]
    BY <2>1 DEF CashTyped, TillTyped
  <2>. QED BY <1>1, <1>2, <2>1, <2>2, <2>3, QuietKeepsStocked DEF AtRest
<1>6. CASE (\E k \in DOMAIN closings : RevertClosing(k)) \/ NextDay
  <2>1. UNCHANGED <<books, till, sold, stock, adjusted, raced, started>>
    BY <1>6 DEF RevertClosing, NextDay
  <2>. QED BY <1>1, <1>2, <2>1, QuietKeepsStocked
<1>7. CASE CashNext
  BY <1>4, <1>5, <1>6, <1>7, CashSteps, NewPutKeepsStocked, AdjustKeepsStocked,
     ReadStockKeepsStocked, PutKeepsStocked, SaveStockKeepsStocked, Zenon
<1>. QED BY <1>3, <1>7

LEMMA StockedInitially == CashInit => Stocked
<1>. SUFFICES ASSUME CashInit PROVE Stocked
  OBVIOUS
<1>1. \A q \in Cashier : till[q].op = "idle"
  BY DEF CashInit, AtRest
<1>2. sold = {} /\ stock = InitialStock /\ adjusted = 0 /\ \A e \in Charge : books[e] = Absent
  BY DEF CashInit, Movement
<1>3. OneReader /\ ReadsTheStock /\ UndoesTheSold
  BY <1>1 DEF OneReader, ReadsTheStock, UndoesTheSold, Reads, SellsOut
<1>4. SoldIsBooked /\ NewIsNew /\ IdsAreStarts /\ ErasesAnother
  BY <1>1, <1>2 DEF SoldIsBooked, NewIsNew, IdsAreStarts, ErasesAnother
<1>5. StockIsExact
  BY <1>2, FS_EmptySet, CashAssumption DEF StockIsExact
<1>. QED BY <1>3, <1>4, <1>5 DEF Stocked

\* The books add up: the cells of every closing hold every movement of its day and its
\* opening fund, that fund was counted in cash when an earlier day was closed
\* (cash-closing.service.ts), and the stock is what was adjusted less what is sold,
\* unless two requests had read it before either wrote it (product.service.ts).
THEOREM TheBooksAddUp == CashSpec => []BooksAddUp
<1>1. CashInit => Stocked /\ Funded
  BY StockedInitially DEF CashInit, Funded, AtRest
<1>2. CashTyped /\ Stocked /\ Funded /\ [CashNext]_cashVars => (Stocked /\ Funded)'
  BY StockedStep, FundedStep
<1>3. CashTyped /\ Stocked /\ Funded => BooksAddUp
  BY TypedIsTypeOK, FundedIsCounted DEF Stocked, BooksAddUp
<1>. QED BY <1>1, <1>2, <1>3, CashTypes, PTL DEF CashSpec

-----------------------------------------------------------------------------
(* The reminders: what a sweep holds *)

Awake(p) == sweeping[p] # Asleep
Delivering(p) == sweeping[p].pc = "deliver"
Announced(l) == Delivered(l.due, l.done)

\* What a sweep holds, field by field.
Holds(l) ==
  /\ l.pc \in {"pending", "covered", "sent", "deliver"} /\ l.due \in Due /\ l.waited \in Nat
  /\ l.pc = "deliver" =>
       l = [pc |-> "deliver", due |-> l.due, waited |-> l.waited, todo |-> l.todo, done |-> l.done]
       /\ l.todo \in SUBSET Channel /\ l.done \in SUBSET Channel
  /\ l.pc # "deliver" => l = [pc |-> l.pc, due |-> l.due, waited |-> l.waited]

LEMMA SweepFields ==
  ASSUME NEW l
  PROVE  l \in SweepState <=> (l = Asleep \/ Holds(l))
<1>1. ASSUME l \in [pc : {"pending", "covered", "sent"}, due : Due, waited : Nat]
      PROVE  Holds(l)
  BY <1>1 DEF Holds
<1>2. ASSUME l \in [pc : {"deliver"}, due : Due, waited : Nat,
                    todo : SUBSET Channel, done : SUBSET Channel]
      PROVE  Holds(l)
  BY <1>2 DEF Holds
<1>3. ASSUME Holds(l), l.pc = "deliver"
      PROVE  l \in [pc : {"deliver"}, due : Due, waited : Nat,
                    todo : SUBSET Channel, done : SUBSET Channel]
  BY <1>3 DEF Holds
<1>4. ASSUME Holds(l), l.pc # "deliver"
      PROVE  l \in [pc : {"pending", "covered", "sent"}, due : Due, waited : Nat]
  BY <1>4 DEF Holds
<1>. QED BY <1>1, <1>2, <1>3, <1>4 DEF SweepState

LEMMA AsleepIsNoStep ==
  /\ Asleep.pc = "asleep" /\ Asleep \in SweepState
  /\ \A l : Holds(l) => l # Asleep
<1>1. Asleep.pc = "asleep"
  BY DEF Asleep
<1>. QED BY <1>1, SweepFields DEF Holds

-----------------------------------------------------------------------------
(* The inductive invariant of the reminders *)

ClaimRow == [status : {"none", "reported", "verified", "granted", "rejected"},
             declined : BOOLEAN, verifiedAt : Nat]
NoticeRow == [tier : Tier, periodEnd : Nat, channel : Channel]

RemindersTyped ==
  /\ half \in Nat /\ silenced \in BOOLEAN
  /\ account \in Terms!SubscriptionRow
  /\ account.status \in {"trialing", "active"} /\ account.graceEndsAt = Never
  /\ claim \in ClaimRow /\ payments \in Nat
  /\ claim.status = "reported" => payments >= 1
  /\ log \in SUBSET NoticeRow /\ told \in SUBSET NoticeRow
  /\ sweeping \in [Sweeper -> SweepState]

\* A sweep that goes on read a row from which the present one is a payment away,
\* and a report that waited when it began is not waiting any more.
ReadRight(l) ==
  /\ l.due.periodEnd <= PeriodEndOf(account)
  /\ l.due.periodEnd = PeriodEndOf(account) => l.due = DueReminder(account, half)
  /\ l.waited <= payments
  /\ l.pc # "pending" => ~(Waiting /\ l.waited = payments)

Unlogged(l) == l.todo \cap l.done = {} /\ Announced(l) \subseteq told

\* With one sweep at a time, a notice that went out is in the log or is being
\* delivered, and what is being delivered was not in it.
OneByOne ==
  /\ \A p, q \in Sweeper : Awake(p) /\ Awake(q) => p = q
  /\ \A n \in told : n \in log \/ \E p \in Sweeper : Delivering(p) /\ n \in Announced(sweeping[p])
  /\ \A p \in Sweeper : Delivering(p) => ~AlreadySent(sweeping[p].due)
  /\ ~twice

RemindersInv ==
  /\ RemindersTyped
  /\ \A p \in Sweeper : Awake(p) => ReadRight(sweeping[p])
  /\ log \subseteq told /\ \A p \in Sweeper : Delivering(p) => Unlogged(sweeping[p])
  /\ ~crossed => OneByOne
-----------------------------------------------------------------------------
(* What is due *)

LEMMA TiersAre ==
  /\ DOMAIN PRE_TIERS = {7, 3, 1, 0}
  /\ PRE_TIERS[7] = "d-7" /\ PRE_TIERS[3] = "d-3" /\ PRE_TIERS[1] = "d-1" /\ PRE_TIERS[0] = "d0"
BY DEF PRE_TIERS

LEMMA AccountFields ==
  ASSUME RemindersTyped
  PROVE  /\ half \in Nat /\ Never = 0 /\ Never \in Nat
         /\ account.trialEndsAt \in Nat /\ account.currentPeriodEnd \in Nat
         /\ account.billingExempt \in BOOLEAN /\ account.graceEndsAt = Never
         /\ account.status \in {"trialing", "active"}
         /\ Cycle \in Nat \ {0} /\ Courtesy \in Nat
BY RemindersAssumption DEF RemindersTyped, Terms!SubscriptionRow, Terms!Date, Never, Terms!NoDate

LEMMA PeriodEndIs ==
  ASSUME RemindersTyped
  PROVE  /\ PeriodEndOf(account) \in Nat
         /\ PeriodEndOf(account) \in {account.currentPeriodEnd, account.trialEndsAt}
         /\ PeriodEndOf(account) >= account.currentPeriodEnd
         /\ PeriodEndOf(account) >= account.trialEndsAt
BY AccountFields DEF PeriodEndOf, Terms!AccessEndOf, Terms!Later

LEMMA CourtesyEndIs ==
  ASSUME RemindersTyped
  PROVE  /\ CourtesyEnd(account) \in Nat
         /\ account.currentPeriodEnd # Never => CourtesyEnd(account) = PeriodEndOf(account) + Courtesy
         /\ account.currentPeriodEnd = Never => CourtesyEnd(account) = PeriodEndOf(account)
BY AccountFields, PeriodEndIs DEF CourtesyEnd

\* What a tier says of the days that are left.
LEMMA DueIs ==
  ASSUME RemindersTyped, NEW due, due = DueReminder(account, half), due # Nothing
  PROVE  /\ due \in Due /\ due.periodEnd = PeriodEndOf(account) /\ PeriodEndOf(account) # Never
         /\ \/ \E left \in DOMAIN PRE_TIERS :
                 due.tier = PRE_TIERS[left] /\ DaysUntil(PeriodEndOf(account), half) = left
            \/ /\ DaysUntil(PeriodEndOf(account), half) < 0
               /\ due.tier = IF DaysUntil(CourtesyEnd(account), half) > 0 THEN "grace" ELSE "blocked"
<1>. DEFINE left == DaysUntil(PeriodEndOf(account), half)
            late == IF DaysUntil(CourtesyEnd(account), half) > 0 THEN "grace" ELSE "blocked"
<1>1. /\ PeriodEndOf(account) # Never /\ (left >= 0 => left \in DOMAIN PRE_TIERS)
      /\ due = IF left >= 0 THEN [tier |-> PRE_TIERS[left], periodEnd |-> PeriodEndOf(account)]
               ELSE [tier |-> late, periodEnd |-> PeriodEndOf(account)]
  BY DEF DueReminder
<1>2. PeriodEndOf(account) \in Nat /\ left \in Int
  BY PeriodEndIs, AccountFields DEF DaysUntil, DayOf
<1>3. late \in {"grace", "blocked"}
  OBVIOUS
<1>. HIDE DEF left, late
<1>4. CASE left >= 0
  <2>1. PRE_TIERS[left] \in Tier
    BY <1>1, <1>4, TiersAre DEF Tier
  <2>2. due.tier = PRE_TIERS[left] /\ due.periodEnd = PeriodEndOf(account) /\ due \in Due
    BY <1>1, <1>2, <1>4, <2>1 DEF Due
  <2>. QED BY <1>1, <1>4, <2>2 DEF left
<1>5. CASE ~(left >= 0)
  <2>1. left < 0
    BY <1>2, <1>5
  <2>2. due.tier = late /\ due.periodEnd = PeriodEndOf(account) /\ due \in Due
    BY <1>1, <1>2, <1>3, <1>5 DEF Due, Tier
  <2>. QED BY <1>1, <2>1, <2>2 DEF left, late
<1>. QED BY <1>4, <1>5

LEMMA DaysAre ==
  ASSUME NEW t \in Nat, NEW at \in Nat
  PROVE  /\ DaysUntil(t, at) \in Int
         /\ DaysUntil(t, at) < 0 => t < at
         /\ DaysUntil(t, at) > 0 => t > at
         /\ DaysUntil(t, at) <= 7 => t <= at + 15
         /\ DaysUntil(t, at) <= 0 => t < 2 * DayOf(at) + 2
         /\ at < 2 * DayOf(at) + 2
         /\ \A left \in Int : DaysUntil(t, at) = left => DayOf(t) = DayOf(at) + left
BY DEF DaysUntil, DayOf

\* The window of the query reaches whoever has a notice due.
LEMMA TheDueAreCandidates ==
  ASSUME RemindersTyped
  PROVE  DueIsCandidate
<1>. DEFINE pe == PeriodEndOf(account)
<1>. SUFFICES ASSUME DueReminder(account, half) # Nothing, half <= CourtesyEnd(account) + 14,
                     ~account.billingExempt, ~silenced
              PROVE  Candidate(account, half)
  BY DEF DueIsCandidate
<1>1. pe # Never /\ pe \in Nat /\ pe \in {account.currentPeriodEnd, account.trialEndsAt}
  BY DueIs, PeriodEndIs
<1>2. half \in Nat /\ Courtesy \in Nat /\ CourtesyEnd(account) \in Nat
      /\ CourtesyEnd(account) <= pe + Courtesy
  BY AccountFields, CourtesyEndIs, PeriodEndIs
<1>3. pe <= half + 15
  <2>1. DaysUntil(pe, half) <= 7
    <3>1. DaysUntil(pe, half) < 0 \/ DaysUntil(pe, half) \in DOMAIN PRE_TIERS
      BY DueIs
    <3>2. DaysUntil(pe, half) \in Int
      BY <1>1, <1>2, DaysAre
    <3>. HIDE DEF pe
    <3>. QED BY <3>1, <3>2, TiersAre
  <2>. QED BY <1>1, <1>2, <2>1, DaysAre
<1>. HIDE DEF pe
<1>4. pe \in (half - Courtesy - 14)..(half + 16)
  BY <1>1, <1>2, <1>3
<1>. QED BY <1>1, <1>4 DEF Candidate

LEMMA AccessStateIs ==
  ASSUME NEW status, NEW cause, NEW accessEnd, NEW graceEnd
  PROVE  Terms!AccessState(status, cause, accessEnd, graceEnd).canOperate = (status # "blocked")
BY DEF Terms!AccessState

LEMMA TiersDiffer ==
  \A left, more \in DOMAIN PRE_TIERS : PRE_TIERS[left] = PRE_TIERS[more] => left = more
<1>. SUFFICES ASSUME NEW left \in {7, 3, 1, 0}, NEW more \in {7, 3, 1, 0},
                     PRE_TIERS[left] = PRE_TIERS[more]
              PROVE  left = more
  BY TiersAre
<1>1. left = 7 \/ left = 3 \/ left = 1 \/ left = 0
  OBVIOUS
<1>2. more = 7 \/ more = 3 \/ more = 1 \/ more = 0
  OBVIOUS
<1>. QED BY <1>1, <1>2, TiersAre

\* What is due of a row is true of it.
LEMMA DueIsTrue ==
  ASSUME RemindersTyped, NEW due, due = DueReminder(account, half), due # Nothing,
         ~account.billingExempt
  PROVE  /\ due.tier = "grace" => Access(half).canOperate
         /\ due.tier = "blocked" => ~Access(2 * DayOf(half) + 2).canOperate
         /\ \A left \in DOMAIN PRE_TIERS :
              due.tier = PRE_TIERS[left] => DayOf(due.periodEnd) = DayOf(half) + left
<1>. DEFINE pe == PeriodEndOf(account)
            ce == CourtesyEnd(account)
            ge == Terms!GraceEnd(account)
            night == 2 * DayOf(half) + 2
<1>1. /\ due.periodEnd = pe /\ pe # 0 /\ pe \in Nat /\ ce \in Nat /\ half \in Nat
      /\ \/ \E left \in DOMAIN PRE_TIERS :
              due.tier = PRE_TIERS[left] /\ DaysUntil(pe, half) = left
         \/ /\ DaysUntil(pe, half) < 0
            /\ due.tier = IF DaysUntil(ce, half) > 0 THEN "grace" ELSE "blocked"
  BY DueIs, PeriodEndIs, CourtesyEndIs, AccountFields
<1>2. pe = Terms!AccessEndOf(account.trialEndsAt, account.currentPeriodEnd)
  BY DEF PeriodEndOf
<1>3. ge = IF account.currentPeriodEnd # 0 THEN pe + Courtesy ELSE 0
  BY <1>2, AccountFields DEF Terms!GraceEnd, Terms!NoDate, Never
<1>4. /\ account.currentPeriodEnd # 0 => ce = pe + Courtesy
      /\ account.currentPeriodEnd = 0 => ce = pe
      /\ Courtesy \in Nat
  BY CourtesyEndIs, AccountFields
<1>5. \A at : Access(at) =
        IF pe = 0 \/ pe > at
        THEN Terms!AccessState(IF Terms!OnTrial(account) THEN "trialing" ELSE "active", "none", pe, 0)
        ELSE IF ge > at THEN Terms!AccessState("grace", "expired", pe, ge)
        ELSE Terms!AccessState("blocked", "none", pe, ge)
  BY <1>2, AccountFields DEF Access, Terms!ResolveAccess, Terms!NoDate, Never
<1>. HIDE DEF pe, ce, ge
<1>6. CASE DaysUntil(pe, half) < 0
  <2>1. pe < half /\ (DaysUntil(ce, half) > 0 => ce > half)
        /\ (~(DaysUntil(ce, half) > 0) => ce < night) /\ half < night
    <3>1. pe < half
      BY <1>1, <1>6, DaysAre
    <3>2. /\ DaysUntil(ce, half) \in Int
          /\ DaysUntil(ce, half) > 0 => ce > half
          /\ DaysUntil(ce, half) <= 0 => ce < night
          /\ half < night
      BY <1>1, DaysAre
    <3>3. ~(DaysUntil(ce, half) > 0) => DaysUntil(ce, half) <= 0
      <4>. DEFINE u == DaysUntil(ce, half)
      <4>1. u \in Int
        BY <3>2
      <4>. HIDE DEF u
      <4>2. ~(u > 0) => u <= 0
        BY <4>1
      <4>. QED BY <4>2 DEF u
    <3>. QED BY <3>1, <3>2, <3>3
  <2>2. due.tier = IF DaysUntil(ce, half) > 0 THEN "grace" ELSE "blocked"
    <3>1. ~\E left \in DOMAIN PRE_TIERS : DaysUntil(pe, half) = left
      BY <1>6, TiersAre
    <3>. QED BY <1>1, <3>1
  <2>3. night \in Nat
    BY <1>1 DEF DayOf
  <2>. HIDE DEF night
  <2>4. due.tier = "grace" => Access(half).canOperate
    <3>. SUFFICES ASSUME due.tier = "grace" PROVE Access(half).canOperate
      OBVIOUS
    <3>1. ce > half
      BY <2>1, <2>2
    <3>2. ge > half /\ ~(pe > half)
      BY <1>1, <1>3, <1>4, <2>1, <3>1
    <3>3. Access(half) = Terms!AccessState("grace", "expired", pe, ge)
      BY <1>1, <1>5, <3>2
    <3>4. Terms!AccessState("grace", "expired", pe, ge).canOperate = ("grace" # "blocked")
      BY AccessStateIs
    <3>. QED BY <3>3, <3>4
  <2>5. due.tier = "blocked" => ~Access(night).canOperate
    <3>. SUFFICES ASSUME due.tier = "blocked" PROVE ~Access(night).canOperate
      OBVIOUS
    <3>1. ce < night /\ pe < night
      BY <1>1, <2>1, <2>2, <2>3
    <3>2. ~(ge > night) /\ ~(pe > night)
      BY <1>1, <1>3, <1>4, <2>3, <3>1
    <3>3. Access(night) = Terms!AccessState("blocked", "none", pe, ge)
      BY <1>1, <1>5, <3>2
    <3>4. Terms!AccessState("blocked", "none", pe, ge).canOperate = ("blocked" # "blocked")
      BY AccessStateIs
    <3>. QED BY <3>3, <3>4
  <2>6. \A left \in DOMAIN PRE_TIERS : due.tier # PRE_TIERS[left]
    BY <2>2, TiersAre
  <2>. QED BY <2>4, <2>5, <2>6 DEF night
<1>7. CASE ~(DaysUntil(pe, half) < 0)
  <2>1. PICK left \in DOMAIN PRE_TIERS :
          due.tier = PRE_TIERS[left] /\ DaysUntil(pe, half) = left
    BY <1>1, <1>7
  <2>2. DayOf(pe) = DayOf(half) + left
    BY <1>1, <2>1, DaysAre, TiersAre
  <2>3. \A more \in DOMAIN PRE_TIERS : due.tier = PRE_TIERS[more] => more = left
    BY <2>1, TiersDiffer
  <2>4. due.tier # "grace" /\ due.tier # "blocked"
    BY <2>1, TiersAre
  <2>. QED BY <1>1, <2>2, <2>3, <2>4
<1>. QED BY <1>6, <1>7

-----------------------------------------------------------------------------
(* The steps of a sweep *)

LEMMA ItsSweep ==
  ASSUME RemindersTyped, NEW p \in Sweeper
  PROVE  /\ sweeping[p] \in SweepState /\ (Delivering(p) => Awake(p))
         /\ Awake(p) => Holds(sweeping[p])
<1>1. sweeping[p] \in SweepState
  BY DEF RemindersTyped
<1>. QED BY <1>1, SweepFields, AsleepIsNoStep DEF Awake, Delivering

LEMMA SweepMoves ==
  ASSUME RemindersTyped, NEW p \in Sweeper, NEW l \in SweepState, SweepAt(p, l)
  PROVE  /\ sweeping' \in [Sweeper -> SweepState] /\ sweeping'[p] = l
         /\ \A q \in Sweeper : q # p => sweeping'[q] = sweeping[q]
BY DEF SweepAt, RemindersTyped

LEMMA SameRead ==
  ASSUME half' = half, account' = account, claim' = claim, payments' = payments,
         NEW l, ReadRight(l)
  PROVE  /\ l.due.periodEnd <= PeriodEndOf(account')
         /\ l.due.periodEnd = PeriodEndOf(account') => l.due = DueReminder(account', half')
         /\ l.waited <= payments'
         /\ l.pc # "pending" => ~(Waiting' /\ l.waited = payments')
BY DEF ReadRight, Waiting

\* A sweep that lets go of its salon, or goes on to a step before the deliveries.
LEMMA SweepGoesOn ==
  ASSUME RemindersInv, NEW p \in Sweeper, NEW l \in SweepState, SweepAt(p, l),
         UNCHANGED <<quiet, log, told, twice>>, crossed => crossed',
         Delivering(p) => crossed',
         l # Asleep => ReadRight(l) /\ (Awake(p) \/ crossed' \/ \A q \in Sweeper : ~Awake(q)),
         l.pc = "deliver" => Unlogged(l) /\ (crossed' \/ ~AlreadySent(l.due))
  PROVE  RemindersInv'
<1>1. /\ RemindersTyped /\ \A q \in Sweeper : Awake(q) => ReadRight(sweeping[q])
      /\ log \subseteq told /\ \A q \in Sweeper : Delivering(q) => Unlogged(sweeping[q])
      /\ ~crossed => OneByOne
  BY DEF RemindersInv
<1>2. /\ half' = half /\ account' = account /\ claim' = claim /\ silenced' = silenced
      /\ payments' = payments /\ log' = log /\ told' = told /\ twice' = twice
  BY DEF quiet
<1>3. /\ sweeping' \in [Sweeper -> SweepState] /\ sweeping'[p] = l
      /\ \A q \in Sweeper : q # p => sweeping'[q] = sweeping[q]
  BY <1>1, SweepMoves
<1>4. RemindersTyped'
  BY <1>1, <1>2, <1>3 DEF RemindersTyped
<1>5. ASSUME NEW q \in Sweeper, Awake(q)'
      PROVE  ReadRight(sweeping[q])'
  <2>1. ReadRight(sweeping'[q])
    <3>1. CASE q = p
      BY <1>3, <1>5, <3>1 DEF Awake
    <3>2. CASE q # p
      BY <1>1, <1>3, <1>5, <3>2 DEF Awake
    <3>. QED BY <3>1, <3>2
  <2>. QED BY <1>2, <2>1, SameRead DEF ReadRight
<1>6. ASSUME NEW q \in Sweeper, Delivering(q)'
      PROVE  Unlogged(sweeping[q])'
  <2>1. Unlogged(sweeping'[q])
    <3>1. CASE q = p
      BY <1>3, <1>6, <3>1 DEF Delivering
    <3>2. CASE q # p
      BY <1>1, <1>3, <1>6, <3>2 DEF Delivering
    <3>. QED BY <3>1, <3>2
  <2>. QED BY <1>2, <2>1 DEF Unlogged, Announced
<1>7. ASSUME ~crossed'
      PROVE  OneByOne'
  <2>1. OneByOne /\ ~Delivering(p)
    BY <1>1, <1>7
  <2>2. ASSUME NEW q \in Sweeper, NEW r \in Sweeper, Awake(q)', Awake(r)'
        PROVE  q = r
    <3>1. l # Asleep => Awake(p) \/ \A x \in Sweeper : ~Awake(x)
      BY <1>7
    <3>2. \A x, y \in Sweeper : Awake(x) /\ Awake(y) => x = y
      BY <2>1 DEF OneByOne
    <3>3. \A x \in {q, r} : x # p => Awake(x)
      BY <1>3, <2>2 DEF Awake
    <3>4. \A x \in {q, r} : x = p => l # Asleep
      BY <1>3, <2>2 DEF Awake
    <3>. QED BY <3>1, <3>2, <3>3, <3>4
  <2>3. ASSUME NEW n \in told'
        PROVE  n \in log' \/ \E q \in Sweeper : Delivering(q)' /\ n \in Announced(sweeping[q])'
    <3>1. CASE n \in log
      BY <1>2, <3>1
    <3>2. CASE n \notin log
      <4>1. PICK q \in Sweeper : Delivering(q) /\ n \in Announced(sweeping[q])
        BY <1>2, <2>1, <2>3, <3>2 DEF OneByOne
      <4>2. q # p /\ sweeping'[q] = sweeping[q]
        BY <1>3, <2>1, <4>1
      <4>. QED BY <4>1, <4>2 DEF Delivering, Announced
    <3>. QED BY <3>1, <3>2
  <2>4. ASSUME NEW q \in Sweeper, Delivering(q)'
        PROVE  ~AlreadySent(sweeping[q].due)'
    <3>1. ~AlreadySent(sweeping'[q].due)
      <4>1. CASE q = p
        BY <1>3, <1>7, <2>4, <4>1 DEF Delivering
      <4>2. CASE q # p
        BY <1>3, <2>1, <2>4, <4>2 DEF Delivering, OneByOne
      <4>. QED BY <4>1, <4>2
    <3>. QED BY <1>2, <3>1 DEF AlreadySent
  <2>5. ~twice'
    BY <1>2, <2>1 DEF OneByOne
  <2>. QED BY <2>2, <2>3, <2>4, <2>5 DEF OneByOne
<1>8. log' \subseteq told'
  BY <1>1, <1>2
<1>. QED BY <1>4, <1>5, <1>6, <1>7, <1>8 DEF RemindersInv

LEMMA SweepKeeps ==
  ASSUME RemindersInv, NEW p \in Sweeper, Sweep(p)
  PROVE  RemindersInv'
<1>. DEFINE due == DueReminder(account, half)
            l == [pc |-> "pending", due |-> due, waited |-> IF Waiting THEN payments ELSE 0]
<1>1. /\ sweeping[p] = Asleep /\ due # Nothing /\ SweepAt(p, l)
      /\ crossed' = (crossed \/ \E q \in Sweeper : sweeping[q] # Asleep)
      /\ UNCHANGED <<quiet, log, told, twice>>
  BY DEF Sweep, HasSomethingToHear
<1>2. RemindersTyped
  BY DEF RemindersInv
<1>3. due \in Due /\ due.periodEnd = PeriodEndOf(account) /\ PeriodEndOf(account) \in Nat
  BY <1>1, <1>2, DueIs, PeriodEndIs
<1>4. payments \in Nat
  BY <1>2 DEF RemindersTyped
<1>. HIDE DEF due
<1>5. Holds(l) /\ l \in SweepState /\ l.pc = "pending"
  <2>1. Holds(l) /\ l.pc = "pending"
    BY <1>3, <1>4 DEF Holds
  <2>. QED BY <2>1, SweepFields
<1>6. ReadRight(l)
  BY <1>3, <1>4 DEF ReadRight, due
<1>7. ~Delivering(p)
  BY <1>1, <1>2, ItsSweep DEF Awake
<1>8. crossed' \/ \A q \in Sweeper : ~Awake(q)
  BY <1>1 DEF Awake
<1>9. crossed => crossed'
  BY <1>1
<1>. HIDE DEF l
<1>. QED BY <1>1, <1>5, <1>6, <1>7, <1>8, <1>9, SweepGoesOn

\* What a sweep holds when it goes from one question to the next.
LEMMA Onward ==
  ASSUME RemindersInv, NEW p \in Sweeper, Awake(p), ~Delivering(p),
         NEW next \in {"covered", "sent"}, ~(Waiting /\ sweeping[p].waited = payments)
  PROVE  LET l == [sweeping[p] EXCEPT !.pc = next] IN
         l \in SweepState /\ ReadRight(l) /\ l.pc = next
<1>. DEFINE h == sweeping[p]
            l == [h EXCEPT !.pc = next]
<1>1. Holds(h) /\ h.pc # "deliver" /\ ReadRight(h)
  BY ItsSweep DEF RemindersInv, Delivering
<1>2. ~(Waiting /\ h.waited = payments)
  OBVIOUS
<1>. HIDE DEF h
<1>3. h = [pc |-> h.pc, due |-> h.due, waited |-> h.waited] /\ h.due \in Due /\ h.waited \in Nat
  BY <1>1 DEF Holds
<1>4. l = [pc |-> next, due |-> h.due, waited |-> h.waited]
  BY <1>3
<1>. HIDE DEF l
<1>5. /\ l.pc = next /\ l.due = h.due /\ l.waited = h.waited
      /\ l = [pc |-> l.pc, due |-> l.due, waited |-> l.waited]
  BY <1>4
<1>6. Holds(l)
  BY <1>3, <1>5 DEF Holds
<1>7. ReadRight(l)
  BY <1>1, <1>2, <1>5 DEF ReadRight
<1>. QED BY <1>5, <1>6, <1>7, SweepFields DEF l, h

LEMMA AskPendingKeeps ==
  ASSUME RemindersInv, NEW p \in Sweeper, AskPending(p)
  PROVE  RemindersInv'
<1>1. sweeping[p].pc = "pending" /\ Goes(p, Waiting, "covered")
  BY DEF AskPending, StillWaits
<1>2. Awake(p) /\ ~Delivering(p)
  BY <1>1, AsleepIsNoStep DEF Awake, Delivering
<1>3. UNCHANGED <<quiet, log, told, twice, crossed>>
  BY <1>1 DEF Goes
<1>4. CASE Waiting
  <2>1. SweepAt(p, Asleep)
    BY <1>1, <1>4 DEF Goes
  <2>. QED BY <1>2, <1>3, <2>1, AsleepIsNoStep, SweepGoesOn
<1>5. CASE ~Waiting
  <2>. DEFINE l == [sweeping[p] EXCEPT !.pc = "covered"]
  <2>1. SweepAt(p, l)
    BY <1>1, <1>5 DEF Goes
  <2>2. l \in SweepState /\ ReadRight(l) /\ l.pc = "covered"
    BY <1>2, <1>5, Onward
  <2>. HIDE DEF l
  <2>. QED BY <1>2, <1>3, <2>1, <2>2, SweepGoesOn
<1>. QED BY <1>4, <1>5

LEMMA AskCoveredKeeps ==
  ASSUME RemindersInv, NEW p \in Sweeper, AskCovered(p)
  PROVE  RemindersInv'
<1>. DEFINE paid == claim.status = "verified" /\ claim.verifiedAt >= sweeping[p].due.periodEnd
<1>1. sweeping[p].pc = "covered" /\ Goes(p, paid, "sent")
  BY DEF AskCovered
<1>. HIDE DEF paid
<1>2. Awake(p) /\ ~Delivering(p)
  BY <1>1, AsleepIsNoStep DEF Awake, Delivering
<1>3. UNCHANGED <<quiet, log, told, twice, crossed>>
  BY <1>1 DEF Goes
<1>4. CASE paid
  <2>1. SweepAt(p, Asleep)
    BY <1>1, <1>4 DEF Goes
  <2>. QED BY <1>2, <1>3, <2>1, AsleepIsNoStep, SweepGoesOn
<1>5. CASE ~paid
  <2>. DEFINE l == [sweeping[p] EXCEPT !.pc = "sent"]
  <2>1. SweepAt(p, l)
    BY <1>1, <1>5 DEF Goes
  <2>2. ~(Waiting /\ sweeping[p].waited = payments)
    BY <1>1, <1>2 DEF RemindersInv, ReadRight
  <2>3. l \in SweepState /\ ReadRight(l) /\ l.pc = "sent"
    BY <1>2, <2>2, Onward
  <2>. HIDE DEF l
  <2>. QED BY <1>2, <1>3, <2>1, <2>3, SweepGoesOn
<1>. QED BY <1>4, <1>5

LEMMA AskSentKeeps ==
  ASSUME RemindersInv, NEW p \in Sweeper, AskSent(p)
  PROVE  RemindersInv'
<1>. DEFINE h == sweeping[p]
            l == [pc |-> "deliver", due |-> h.due, waited |-> h.waited,
                  todo |-> Channel, done |-> {}]
<1>1. h.pc = "sent" /\ SweepAt(p, IF AlreadySent(h.due) THEN Asleep ELSE l)
  BY DEF AskSent
<1>2. UNCHANGED <<quiet, log, told, twice, crossed>>
  BY DEF AskSent
<1>3. Awake(p) /\ ~Delivering(p)
  BY <1>1, AsleepIsNoStep DEF Awake, Delivering
<1>4. CASE AlreadySent(h.due)
  <2>1. SweepAt(p, Asleep)
    BY <1>1, <1>4
  <2>. QED BY <1>2, <1>3, <2>1, AsleepIsNoStep, SweepGoesOn
<1>5. CASE ~AlreadySent(h.due)
  <2>1. SweepAt(p, l)
    BY <1>1, <1>5
  <2>2. Holds(h) /\ ReadRight(h)
    BY <1>3, ItsSweep DEF RemindersInv
  <2>. HIDE DEF h
  <2>3. /\ l.pc = "deliver" /\ l.due = h.due /\ l.waited = h.waited
        /\ l.todo = Channel /\ l.done = {}
        /\ l = [pc |-> "deliver", due |-> l.due, waited |-> l.waited,
                todo |-> l.todo, done |-> l.done]
    OBVIOUS
  <2>. HIDE DEF l
  <2>4. Holds(l)
    BY <2>2, <2>3 DEF Holds
  <2>5. ReadRight(l)
    BY <1>1, <2>2, <2>3 DEF ReadRight
  <2>6. Unlogged(l) /\ ~AlreadySent(l.due)
    BY <1>5, <2>3 DEF Unlogged, Announced, Delivered
  <2>7. l \in SweepState
    BY <2>4, SweepFields
  <2>. QED BY <1>2, <1>3, <2>1, <2>5, <2>6, <2>7, SweepGoesOn
<1>. QED BY <1>4, <1>5

LEMMA SweepFailsKeeps ==
  ASSUME RemindersInv, NEW p \in Sweeper, SweepFails(p)
  PROVE  RemindersInv'
<1>1. /\ SweepAt(p, Asleep) /\ UNCHANGED <<quiet, log, told, twice>>
      /\ crossed => crossed'
      /\ Delivering(p) => crossed'
  BY DEF SweepFails, Delivering
<1>. QED BY <1>1, AsleepIsNoStep, SweepGoesOn

DeliverState ==
  [pc : {"deliver"}, due : Due, waited : Nat, todo : SUBSET Channel, done : SUBSET Channel]

\* What a sweep holds after one channel.
AfterChannel(h, todo, done) == [h EXCEPT !.todo = todo, !.done = done]

LEMMA ChannelDone ==
  ASSUME NEW h \in DeliverState, NEW todo \in SUBSET Channel, NEW done \in SUBSET Channel,
         NEW l, l = AfterChannel(h, todo, done)
  PROVE  /\ l \in DeliverState /\ l.pc = "deliver" /\ l.due = h.due /\ l.waited = h.waited
         /\ l.todo = todo /\ l.done = done
BY DEF DeliverState, AfterChannel

LEMMA DeliverStates ==
  ASSUME NEW h, Holds(h), h.pc = "deliver"
  PROVE  h \in DeliverState
BY DEF Holds, DeliverState

LEMMA DeliverKeeps ==
  ASSUME RemindersInv, NEW p \in Sweeper, NEW c \in Channel, NEW ok \in BOOLEAN,
         Deliver(p, c, ok)
  PROVE  RemindersInv'
<1>. DEFINE h == sweeping[p]
            l == [h EXCEPT !.todo = @ \ {c}, !.done = IF ok THEN @ \cup {c} ELSE @]
            row == LogRow(h.due, c)
<1>1. /\ h.pc = "deliver" /\ c \in h.todo /\ SweepAt(p, l)
      /\ told' = IF ok THEN told \cup {row} ELSE told
      /\ twice' = (twice \/ (ok /\ row \in told))
      /\ log' = log /\ crossed' = crossed
  BY DEF Deliver
<1>2. /\ half' = half /\ account' = account /\ claim' = claim /\ silenced' = silenced
      /\ payments' = payments
  BY DEF Deliver, quiet
<1>3. /\ RemindersTyped /\ \A q \in Sweeper : Awake(q) => ReadRight(sweeping[q])
      /\ log \subseteq told /\ \A q \in Sweeper : Delivering(q) => Unlogged(sweeping[q])
      /\ ~crossed => OneByOne
  BY DEF RemindersInv
<1>4. Awake(p) /\ Delivering(p) /\ Holds(h) /\ ReadRight(h) /\ Unlogged(h)
  BY <1>1, <1>3, ItsSweep DEF Delivering
<1>. HIDE DEF h
<1>5. h \in DeliverState
  BY <1>1, <1>4, DeliverStates
<1>6. /\ h.due \in Due /\ h.todo \in SUBSET Channel /\ h.done \in SUBSET Channel
  BY <1>5 DEF DeliverState
<1>7. /\ l \in DeliverState
      /\ l.pc = "deliver" /\ l.due = h.due /\ l.waited = h.waited /\ l.todo = h.todo \ {c}
      /\ l.done = IF ok THEN h.done \cup {c} ELSE h.done
  <2>. DEFINE todo == h.todo \ {c}
              done == IF ok THEN h.done \cup {c} ELSE h.done
  <2>1. todo \in SUBSET Channel /\ done \in SUBSET Channel
    BY <1>6
  <2>2. l = AfterChannel(h, todo, done)
    BY DEF AfterChannel
  <2>. HIDE DEF l, todo, done
  <2>3. /\ l \in DeliverState
        /\ l.pc = "deliver" /\ l.due = h.due /\ l.waited = h.waited
        /\ l.todo = todo /\ l.done = done
    BY <1>5, <2>1, <2>2, ChannelDone
  <2>. QED BY <2>3 DEF todo, done
<1>. HIDE DEF l
<1>8. l \in SweepState /\ l # Asleep
  <2>1. l \in SweepState
    BY <1>7 DEF SweepState, DeliverState
  <2>. QED BY <1>7, <2>1, AsleepIsNoStep
<1>9. ReadRight(l)
  BY <1>1, <1>4, <1>7 DEF ReadRight
<1>10. /\ sweeping' \in [Sweeper -> SweepState] /\ sweeping'[p] = l
       /\ \A q \in Sweeper : q # p => sweeping'[q] = sweeping[q]
  BY <1>1, <1>3, <1>8, SweepMoves
<1>11. row \in NoticeRow /\ row.channel = c
  BY <1>6 DEF LogRow, NoticeRow, Due
<1>12. Announced(l) = IF ok THEN Announced(h) \cup {row} ELSE Announced(h)
  BY <1>7 DEF Announced, Delivered
<1>13. told \subseteq told' /\ (ok => told' = told \cup {row}) /\ (~ok => told' = told)
  BY <1>1
<1>. HIDE DEF row
<1>14. RemindersTyped'
  <2>1. told' \in SUBSET NoticeRow
    BY <1>3, <1>11, <1>13 DEF RemindersTyped
  <2>. QED BY <1>1, <1>2, <1>3, <1>10, <2>1 DEF RemindersTyped
<1>15. ASSUME NEW q \in Sweeper, Awake(q)'
       PROVE  ReadRight(sweeping[q])'
  <2>1. ReadRight(sweeping'[q])
    <3>1. CASE q = p
      BY <1>9, <1>10, <3>1
    <3>2. CASE q # p
      BY <1>3, <1>10, <1>15, <3>2 DEF Awake
    <3>. QED BY <3>1, <3>2
  <2>. QED BY <1>2, <2>1, SameRead DEF ReadRight
<1>16. ASSUME NEW q \in Sweeper, Delivering(q)'
       PROVE  Unlogged(sweeping[q])'
  <2>1. CASE q = p
    <3>1. l.todo \cap l.done = {}
      BY <1>4, <1>7 DEF Unlogged
    <3>2. Announced(h) \subseteq told
      BY <1>4 DEF Unlogged
    <3>3. Announced(l) \subseteq told'
      BY <1>12, <1>13, <3>2
    <3>. QED BY <1>10, <2>1, <3>1, <3>3 DEF Unlogged, Announced
  <2>2. CASE q # p
    <3>1. Delivering(q) /\ sweeping'[q] = sweeping[q]
      BY <1>10, <1>16, <2>2 DEF Delivering
    <3>2. sweeping[q].todo \cap sweeping[q].done = {} /\ Announced(sweeping[q]) \subseteq told
      BY <1>3, <3>1 DEF Unlogged
    <3>. QED BY <1>13, <3>1, <3>2 DEF Unlogged, Announced
  <2>. QED BY <2>1, <2>2
<1>17. ASSUME ~crossed'
       PROVE  OneByOne'
  <2>1. OneByOne
    BY <1>1, <1>3, <1>17
  <2>2. \A q \in Sweeper : Awake(q)' => q = p
    <3>1. \A q \in Sweeper : q # p => ~Awake(q)
      BY <1>4, <2>1 DEF OneByOne
    <3>. QED BY <1>10, <3>1 DEF Awake
  <2>3. \A n \in told : n \in log \/ n \in Announced(h)
    <3>. SUFFICES ASSUME NEW n \in told, n \notin log PROVE n \in Announced(h)
      OBVIOUS
    <3>1. PICK q \in Sweeper : Delivering(q) /\ n \in Announced(sweeping[q])
      BY <2>1 DEF OneByOne
    <3>2. q = p
      BY <1>3, <1>4, <2>1, <3>1, ItsSweep DEF OneByOne
    <3>. QED BY <3>1, <3>2 DEF h
  <2>4. row \notin told
    <3>1. ~AlreadySent(h.due)
      BY <1>4, <2>1 DEF OneByOne, h
    <3>2. row.tier = h.due.tier /\ row.periodEnd = h.due.periodEnd
      BY DEF row, LogRow
    <3>3. row \notin log
      BY <3>1, <3>2 DEF AlreadySent
    <3>4. row \notin Announced(h)
      <4>1. c \notin h.done
        BY <1>1, <1>4 DEF Unlogged
      <4>2. \A x \in h.done : LogRow(h.due, x).channel = x
        BY DEF LogRow
      <4>. QED BY <1>11, <4>1, <4>2 DEF Announced, Delivered
    <3>. QED BY <2>3, <3>3, <3>4
  <2>5. ~twice'
    BY <1>1, <2>1, <2>4 DEF OneByOne
  <2>6. \A n \in told' : n \in log' \/ n \in Announced(l)
    BY <1>1, <1>12, <1>13, <2>3
  <2>7. Delivering(p)' /\ Announced(sweeping[p])' = Announced(l)
    BY <1>7, <1>10 DEF Delivering, Announced
  <2>8. \A n \in told' :
           n \in log' \/ \E q \in Sweeper : Delivering(q)' /\ n \in Announced(sweeping[q])'
    BY <2>6, <2>7
  <2>9. ASSUME NEW q \in Sweeper, Delivering(q)'
        PROVE  ~AlreadySent(sweeping[q].due)'
    <3>1. q = p
      <4>1. Awake(q)'
        BY <1>10, <1>8, <2>9, AsleepIsNoStep DEF Awake, Delivering
      <4>. QED BY <2>2, <4>1
    <3>2. ~AlreadySent(h.due)
      BY <1>4, <2>1 DEF OneByOne, h
    <3>. QED BY <1>1, <1>7, <1>10, <3>1, <3>2 DEF AlreadySent
  <2>10. \A q, r \in Sweeper : Awake(q)' /\ Awake(r)' => q = r
    BY <2>2
  <2>. QED BY <2>5, <2>8, <2>9, <2>10 DEF OneByOne
<1>18. log' \subseteq told'
  BY <1>1, <1>3, <1>13
<1>. QED BY <1>14, <1>15, <1>16, <1>17, <1>18 DEF RemindersInv

LEMMA SaveLogKeeps ==
  ASSUME RemindersInv, NEW p \in Sweeper, SaveLog(p)
  PROVE  RemindersInv'
<1>. DEFINE h == sweeping[p]
<1>1. /\ h.pc = "deliver" /\ SweepAt(p, Asleep) /\ log' = log \cup Announced(h)
      /\ told' = told /\ twice' = twice /\ crossed' = crossed
  BY DEF SaveLog, Announced
<1>2. /\ half' = half /\ account' = account /\ claim' = claim /\ silenced' = silenced
      /\ payments' = payments
  BY DEF SaveLog, quiet
<1>3. /\ RemindersTyped /\ \A q \in Sweeper : Awake(q) => ReadRight(sweeping[q])
      /\ log \subseteq told /\ \A q \in Sweeper : Delivering(q) => Unlogged(sweeping[q])
      /\ ~crossed => OneByOne
  BY DEF RemindersInv
<1>4. Awake(p) /\ Delivering(p) /\ Announced(h) \subseteq told
  BY <1>1, <1>3, ItsSweep DEF Delivering, Unlogged
<1>. HIDE DEF h
<1>5. /\ sweeping' \in [Sweeper -> SweepState] /\ sweeping'[p] = Asleep
      /\ \A q \in Sweeper : q # p => sweeping'[q] = sweeping[q]
  BY <1>1, <1>3, SweepMoves, AsleepIsNoStep
<1>6. log' \subseteq told'
  BY <1>1, <1>3, <1>4
<1>7. RemindersTyped'
  <2>1. log' \in SUBSET NoticeRow
    BY <1>1, <1>3, <1>6 DEF RemindersTyped
  <2>. QED BY <1>1, <1>2, <1>3, <1>5, <2>1 DEF RemindersTyped
<1>8. \A q \in Sweeper : Awake(q)' => q # p
  BY <1>5 DEF Awake
<1>9. \A q \in Sweeper : Delivering(q)' => q # p
  BY <1>5, AsleepIsNoStep DEF Delivering
<1>10. ASSUME NEW q \in Sweeper, Awake(q)'
       PROVE  ReadRight(sweeping[q])'
  <2>1. ReadRight(sweeping'[q])
    BY <1>3, <1>5, <1>8, <1>10 DEF Awake
  <2>. QED BY <1>2, <2>1, SameRead DEF ReadRight
<1>11. ASSUME NEW q \in Sweeper, Delivering(q)'
       PROVE  Unlogged(sweeping[q])'
  <2>1. Unlogged(sweeping'[q])
    BY <1>3, <1>5, <1>9, <1>11 DEF Delivering
  <2>. QED BY <1>1, <2>1 DEF Unlogged, Announced
<1>12. ASSUME ~crossed'
       PROVE  OneByOne'
  <2>1. OneByOne
    BY <1>1, <1>3, <1>12
  <2>2. \A q \in Sweeper : ~Awake(q)' /\ ~Delivering(q)'
    <3>1. \A q \in Sweeper : q # p => ~Awake(q)
      BY <1>4, <2>1 DEF OneByOne
    <3>2. \A q \in Sweeper : q # p => ~Delivering(q)
      BY <1>3, <3>1, ItsSweep
    <3>. QED BY <1>5, <1>8, <1>9, <3>1, <3>2 DEF Awake, Delivering
  <2>3. ASSUME NEW n \in told'
        PROVE  n \in log'
    <3>1. CASE n \in log
      BY <1>1, <3>1
    <3>2. CASE n \notin log
      <4>1. PICK q \in Sweeper : Delivering(q) /\ n \in Announced(sweeping[q])
        BY <1>1, <2>1, <2>3, <3>2 DEF OneByOne
      <4>2. q = p
        BY <1>3, <1>4, <2>1, <4>1, ItsSweep DEF OneByOne
      <4>. QED BY <1>1, <4>1, <4>2 DEF h
    <3>. QED BY <3>1, <3>2
  <2>4. ~twice'
    BY <1>1, <2>1 DEF OneByOne
  <2>. QED BY <2>2, <2>3, <2>4 DEF OneByOne
<1>. QED BY <1>6, <1>7, <1>10, <1>11, <1>12 DEF RemindersInv

-----------------------------------------------------------------------------
(* The steps of the other components *)

\* The rows change and no sweep moves.
LEMMA RowsChange ==
  ASSUME RemindersInv, UNCHANGED alone, RemindersTyped',
         \A p \in Sweeper : Awake(p) /\ ReadRight(sweeping[p]) => ReadRight(sweeping[p])'
  PROVE  RemindersInv'
<1>1. /\ log' = log /\ sweeping' = sweeping /\ told' = told /\ twice' = twice
      /\ crossed' = crossed
  BY DEF alone
<1>2. /\ \A p \in Sweeper : Awake(p) => ReadRight(sweeping[p])
      /\ log \subseteq told /\ \A p \in Sweeper : Delivering(p) => Unlogged(sweeping[p])
      /\ ~crossed => OneByOne
  BY DEF RemindersInv
<1>3. \A p \in Sweeper : Awake(p)' = Awake(p) /\ Delivering(p)' = Delivering(p)
  BY <1>1 DEF Awake, Delivering
<1>4. \A p \in Sweeper : Awake(p)' => ReadRight(sweeping[p])'
  BY <1>2, <1>3
<1>5. \A p \in Sweeper : Delivering(p)' => Unlogged(sweeping[p])'
  BY <1>1, <1>2, <1>3 DEF Unlogged, Announced
<1>6. ~crossed' => OneByOne'
  BY <1>1, <1>2 DEF OneByOne, Awake, Delivering, Announced, AlreadySent
<1>. QED BY <1>1, <1>2, <1>4, <1>5, <1>6 DEF RemindersInv

\* The report that is read, and nothing else that a sweep read.
LEMMA ClaimChanges ==
  ASSUME RemindersInv, UNCHANGED alone, half' = half, account' = account,
         silenced' = silenced, claim' \in ClaimRow, payments' \in Nat, payments' >= payments,
         claim'.status = "reported" => payments' >= 1,
         \A n \in Nat : n <= payments /\ ~(Waiting /\ n = payments) => ~(Waiting' /\ n = payments')
  PROVE  RemindersInv'
<1>1. RemindersTyped'
  BY DEF RemindersInv, RemindersTyped, alone
<1>2. ASSUME NEW p \in Sweeper, Awake(p), ReadRight(sweeping[p])
      PROVE  ReadRight(sweeping[p])'
  <2>. DEFINE l == sweeping[p]
  <2>1. Holds(l) /\ sweeping' = sweeping /\ payments \in Nat
    BY <1>2, ItsSweep DEF RemindersInv, RemindersTyped, alone
  <2>2. l.waited \in Nat /\ l.waited <= payments
    BY <1>2, <2>1 DEF Holds, ReadRight
  <2>3. l.waited <= payments'
    BY <2>1, <2>2
  <2>4. l.pc # "pending" => ~(Waiting' /\ l.waited = payments')
    BY <1>2, <2>2 DEF ReadRight
  <2>. QED BY <1>2, <2>1, <2>3, <2>4 DEF ReadRight
<1>. QED BY <1>1, <1>2, RowsChange

LEMMA ReportPaidKeeps ==
  ASSUME RemindersInv, ReportPaid
  PROVE  RemindersInv'
<1>1. payments \in Nat
  BY DEF RemindersInv, RemindersTyped
<1>2. /\ payments' = payments + 1 /\ half' = half /\ account' = account
      /\ silenced' = silenced /\ UNCHANGED alone
  BY DEF ReportPaid
<1>3. claim' \in ClaimRow
  BY AccountFields DEF ReportPaid, RemindersInv, ClaimRow
<1>4. \A n \in Nat : n <= payments => n # payments'
  BY <1>1, <1>2
<1>5. payments' \in Nat /\ payments' >= payments /\ payments' >= 1
  BY <1>1, <1>2
<1>. QED BY <1>2, <1>3, <1>4, <1>5, ClaimChanges

LEMMA DecideKeeps ==
  ASSUME RemindersInv, NEW status \in {"reported", "rejected", "verified"},
         NEW declined \in BOOLEAN, Decide(status, declined), status = "reported" => declined
  PROVE  RemindersInv'
<1>1. /\ claim' = [status |-> status, declined |-> declined,
                   verifiedAt |-> IF status = "verified" THEN half ELSE Never]
      /\ claim.status = "reported" /\ half' = half /\ account' = account
      /\ silenced' = silenced /\ payments' = payments /\ UNCHANGED alone
  BY DEF Decide
<1>2. payments \in Nat /\ payments >= 1 /\ half \in Nat /\ Never \in Nat
  BY <1>1, AccountFields DEF RemindersInv, RemindersTyped
<1>3. claim' \in ClaimRow
  BY <1>1, <1>2 DEF ClaimRow
<1>4. ~Waiting'
  BY <1>1 DEF Waiting
<1>5. payments' \in Nat /\ payments' >= payments /\ payments' >= 1
  BY <1>1, <1>2
<1>. QED BY <1>1, <1>3, <1>4, <1>5, ClaimChanges

LEMMA VerdictsKeep ==
  ASSUME RemindersInv, Decline \/ Reject \/ Verify
  PROVE  RemindersInv'
<1>1. claim.declined \in BOOLEAN
  BY DEF RemindersInv, RemindersTyped, ClaimRow
<1>2. CASE Decline
  BY <1>2, DecideKeeps DEF Decline
<1>3. CASE Reject
  BY <1>1, <1>3, DecideKeeps DEF Reject
<1>4. CASE Verify
  BY <1>1, <1>4, DecideKeeps DEF Verify
<1>. QED BY <1>2, <1>3, <1>4

\* The period that a payment buys ends after the one the sweeps read.
LEMMA AdvanceKeeps ==
  ASSUME RemindersInv, Advance
  PROVE  RemindersInv'
<1>. DEFINE base == Terms!Later(Terms!Later(half, account.currentPeriodEnd),
                                account.trialEndsAt)
            until == Terms!PeriodCoverage(half, account.currentPeriodEnd,
                                          account.trialEndsAt).to
<1>1. /\ account' = [account EXCEPT !.status = "active", !.currentPeriodEnd = until,
                                    !.graceEndsAt = Never]
      /\ claim' = [claim EXCEPT !.status = "granted"]
      /\ half' = half /\ silenced' = silenced /\ payments' = payments /\ UNCHANGED alone
  BY DEF Advance
<1>2. RemindersTyped
  BY DEF RemindersInv
<1>3. /\ account \in Terms!SubscriptionRow /\ claim \in ClaimRow
      /\ half \in Nat /\ account.currentPeriodEnd \in Nat /\ account.trialEndsAt \in Nat
      /\ Cycle \in Nat \ {0} /\ Never \in Nat
  BY <1>2, AccountFields DEF RemindersTyped
<1>4. until = base + Cycle
  BY DEF Terms!PeriodCoverage, Terms!AddMonth
<1>5. base \in Nat /\ base >= account.currentPeriodEnd /\ base >= account.trialEndsAt
  BY <1>3 DEF Terms!Later
<1>. HIDE DEF base, until
<1>6. until \in Nat /\ until > account.currentPeriodEnd /\ until > account.trialEndsAt
  BY <1>3, <1>4, <1>5
<1>7. /\ account' \in Terms!SubscriptionRow /\ account'.status = "active"
      /\ account'.graceEndsAt = Never /\ account'.currentPeriodEnd = until
      /\ account'.trialEndsAt = account.trialEndsAt
  BY <1>1, <1>3, <1>6 DEF Terms!SubscriptionRow, Terms!Date
<1>8. claim' \in ClaimRow /\ claim'.status = "granted"
  BY <1>1, <1>3 DEF ClaimRow
<1>9. RemindersTyped'
  BY <1>1, <1>2, <1>7, <1>8 DEF RemindersTyped, alone
<1>10. PeriodEndOf(account') >= until
  BY <1>3, <1>6, <1>7 DEF PeriodEndOf, Terms!AccessEndOf, Terms!Later
<1>11. PeriodEndOf(account) \in Nat /\ PeriodEndOf(account) < until
  BY <1>2, <1>6, PeriodEndIs
<1>12. PeriodEndOf(account') \in Nat
  BY <1>9, <1>7, <1>6, <1>3 DEF PeriodEndOf, Terms!AccessEndOf, Terms!Later
<1>13. ASSUME NEW p \in Sweeper, Awake(p), ReadRight(sweeping[p])
       PROVE  ReadRight(sweeping[p])'
  <2>. DEFINE l == sweeping[p]
  <2>1. Holds(l) /\ sweeping' = sweeping
    BY <1>1, <1>2, <1>13, ItsSweep DEF alone
  <2>2. l.due.periodEnd \in Nat
    BY <2>1 DEF Holds, Due
  <2>3. l.due.periodEnd <= PeriodEndOf(account) /\ l.waited <= payments
    BY <1>13 DEF ReadRight
  <2>4. l.due.periodEnd < PeriodEndOf(account')
    BY <1>6, <1>10, <1>11, <1>12, <2>2, <2>3
  <2>5. ~Waiting'
    BY <1>8 DEF Waiting
  <2>6. l.due.periodEnd <= PeriodEndOf(account') /\ l.due.periodEnd # PeriodEndOf(account')
    BY <1>12, <2>2, <2>4
  <2>. QED BY <1>1, <2>1, <2>3, <2>5, <2>6 DEF ReadRight
<1>. QED BY <1>1, <1>9, <1>13, RowsChange

LEMMA ExemptKeeps ==
  ASSUME RemindersInv, Exempt
  PROVE  RemindersInv'
<1>1. /\ account' = [account EXCEPT !.billingExempt = ~@]
      /\ half' = half /\ claim' = claim /\ silenced' = silenced /\ payments' = payments
      /\ UNCHANGED alone
  BY DEF Exempt
<1>2. account \in Terms!SubscriptionRow
  BY DEF RemindersInv, RemindersTyped
<1>3. /\ account' \in Terms!SubscriptionRow /\ account'.status = account.status
      /\ account'.currentPeriodEnd = account.currentPeriodEnd
      /\ account'.trialEndsAt = account.trialEndsAt
      /\ account'.graceEndsAt = account.graceEndsAt
  BY <1>1, <1>2 DEF Terms!SubscriptionRow
<1>4. PeriodEndOf(account') = PeriodEndOf(account)
  BY <1>3 DEF PeriodEndOf
<1>5. CourtesyEnd(account') = CourtesyEnd(account)
  BY <1>3, <1>4 DEF CourtesyEnd
<1>6. DueReminder(account', half') = DueReminder(account, half)
  BY <1>1, <1>4, <1>5 DEF DueReminder
<1>7. RemindersTyped'
  BY <1>1, <1>3 DEF RemindersInv, RemindersTyped, alone
<1>8. ASSUME NEW p \in Sweeper, ReadRight(sweeping[p])
      PROVE  ReadRight(sweeping[p])'
  BY <1>1, <1>4, <1>6, <1>8 DEF ReadRight, Waiting, alone
<1>. QED BY <1>1, <1>7, <1>8, RowsChange

LEMMA SilenceKeeps ==
  ASSUME RemindersInv, Silence
  PROVE  RemindersInv'
<1>1. /\ silenced' = ~silenced /\ half' = half /\ account' = account /\ claim' = claim
      /\ payments' = payments /\ UNCHANGED alone
  BY DEF Silence
<1>2. RemindersTyped'
  BY <1>1 DEF RemindersInv, RemindersTyped, alone
<1>3. ASSUME NEW p \in Sweeper, ReadRight(sweeping[p])
      PROVE  ReadRight(sweeping[p])'
  BY <1>1, <1>3 DEF ReadRight, Waiting, alone
<1>. QED BY <1>1, <1>2, <1>3, RowsChange

LEMMA HalfDayKeeps ==
  ASSUME RemindersInv, HalfDay
  PROVE  RemindersInv'
<1>1. /\ half' = half + 1 /\ \A p \in Sweeper : sweeping[p] = Asleep
      /\ account' = account /\ claim' = claim /\ silenced' = silenced
      /\ payments' = payments /\ UNCHANGED alone
  BY DEF HalfDay
<1>2. RemindersTyped'
  BY <1>1 DEF RemindersInv, RemindersTyped, alone
<1>3. \A p \in Sweeper : ~Awake(p)
  BY <1>1 DEF Awake
<1>. QED BY <1>1, <1>2, <1>3, RowsChange

-----------------------------------------------------------------------------
(* The theorem of the reminders *)

LEMMA RemindersStart ==
  ASSUME RemindersInit
  PROVE  RemindersInv
<1>1. TrialEnd \in Nat /\ Never = 0
  BY RemindersAssumption DEF Never, Terms!NoDate
<1>2. \A p \in Sweeper : sweeping[p] = Asleep /\ ~Awake(p) /\ ~Delivering(p)
  BY AsleepIsNoStep DEF RemindersInit, Awake, Delivering
<1>3. account \in Terms!SubscriptionRow /\ account.status = "trialing"
      /\ account.graceEndsAt = Never
  BY <1>1 DEF RemindersInit, Terms!SubscriptionRow, Terms!Date, Terms!Plan
<1>4. claim \in ClaimRow /\ claim.status = "none"
  BY <1>1 DEF RemindersInit, ClaimRow
<1>5. sweeping \in [Sweeper -> SweepState]
  BY AsleepIsNoStep DEF RemindersInit
<1>6. RemindersTyped
  BY <1>3, <1>4, <1>5 DEF RemindersTyped, RemindersInit
<1>. QED BY <1>2, <1>6 DEF RemindersInv, OneByOne, RemindersInit

LEMMA RemindersKeepOn ==
  ASSUME RemindersInv, [RemindersNext]_reminderVars
  PROVE  RemindersInv'
<1>1. CASE UNCHANGED reminderVars
  <2>1. /\ UNCHANGED alone /\ half' = half /\ account' = account /\ claim' = claim
        /\ silenced' = silenced /\ payments' = payments
    BY <1>1 DEF reminderVars, alone
  <2>2. RemindersTyped'
    BY <2>1 DEF RemindersInv, RemindersTyped, alone
  <2>3. \A p \in Sweeper : ReadRight(sweeping[p]) => ReadRight(sweeping[p])'
    BY <2>1 DEF ReadRight, Waiting, alone
  <2>. QED BY <2>1, <2>2, <2>3, RowsChange
<1>2. ASSUME NEW p \in Sweeper, Sweep(p) PROVE RemindersInv'
  BY <1>2, SweepKeeps
<1>3. ASSUME NEW p \in Sweeper, AskPending(p) PROVE RemindersInv'
  BY <1>3, AskPendingKeeps
<1>4. ASSUME NEW p \in Sweeper, AskCovered(p) PROVE RemindersInv'
  BY <1>4, AskCoveredKeeps
<1>5. ASSUME NEW p \in Sweeper, AskSent(p) PROVE RemindersInv'
  BY <1>5, AskSentKeeps
<1>6. ASSUME NEW p \in Sweeper, NEW c \in Channel, NEW ok \in BOOLEAN, Deliver(p, c, ok)
      PROVE  RemindersInv'
  BY <1>6, DeliverKeeps
<1>7. ASSUME NEW p \in Sweeper, SaveLog(p) PROVE RemindersInv'
  BY <1>7, SaveLogKeeps
<1>8. ASSUME NEW p \in Sweeper, SweepFails(p) PROVE RemindersInv'
  BY <1>8, SweepFailsKeeps
<1>9. CASE ReportPaid
  BY <1>9, ReportPaidKeeps
<1>10. CASE Decline \/ Reject \/ Verify
  BY <1>10, VerdictsKeep
<1>11. CASE Advance
  BY <1>11, AdvanceKeeps
<1>12. CASE Exempt
  BY <1>12, ExemptKeeps
<1>13. CASE Silence
  BY <1>13, SilenceKeeps
<1>14. CASE HalfDay
  BY <1>14, HalfDayKeeps
<1>. QED BY <1>1, <1>2, <1>3, <1>4, <1>5, <1>6, <1>7, <1>8, <1>9, <1>10, <1>11, <1>12,
            <1>13, <1>14 DEF RemindersNext

LEMMA InvIsSound ==
  ASSUME RemindersInv
  PROVE  RemindersSound
<1>1. RemindersTyped /\ log \subseteq told /\ (~crossed => OneByOne)
  BY DEF RemindersInv
<1>2. RemindersTypeOK
  BY <1>1 DEF RemindersTyped, RemindersTypeOK, NoticeRow
<1>3. RemindedOnce
  BY <1>1 DEF RemindedOnce, OneByOne
<1>4. LogIsTrue
  <2>1. ASSUME ~crossed, NEW n \in told, n \notin log
        PROVE  \E p \in Sweeper : sweeping[p] # Asleep /\ sweeping[p].pc = "deliver"
    <3>1. PICK p \in Sweeper : Delivering(p)
      BY <1>1, <2>1 DEF OneByOne
    <3>2. Awake(p)
      BY <1>1, <3>1, ItsSweep
    <3>. QED BY <3>1, <3>2 DEF Awake, Delivering
  <2>. QED BY <1>1, <2>1 DEF LogIsTrue
<1>5. DueIsCandidate
  BY <1>1, TheDueAreCandidates
<1>. QED BY <1>2, <1>3, <1>4, <1>5 DEF RemindersSound

\* Only a delivery tells, and what it tells is what is due of the row it read.
LEMMA WhatIsToldIsDue ==
  ASSUME RemindersInv, [RemindersNext]_reminderVars, NEW n \in told' \ told
  PROVE  \E p \in Sweeper :
           /\ Delivering(p) /\ Awake(p) /\ ReadRight(sweeping[p])
           /\ sweeping[p].due \in Due
           /\ n.tier = sweeping[p].due.tier /\ n.periodEnd = sweeping[p].due.periodEnd
           /\ \A q \in Sweeper : q # p => sweeping'[q] = sweeping[q]
<1>1. told' # told
  OBVIOUS
<1>2. PICK p \in Sweeper, c \in Channel, ok \in BOOLEAN : Deliver(p, c, ok)
  BY <1>1 DEF RemindersNext, reminderVars, Sweep, AskPending, AskCovered, AskSent, Goes,
              SaveLog, SweepFails, ReportPaid, Decline, Reject, Verify, Decide, Advance,
              Exempt, Silence, HalfDay, alone
<1>3. /\ sweeping[p].pc = "deliver"
      /\ told' = IF ok THEN told \cup {LogRow(sweeping[p].due, c)} ELSE told
  BY <1>2 DEF Deliver
<1>4. n = LogRow(sweeping[p].due, c)
  BY <1>3
<1>5. Delivering(p) /\ RemindersTyped
  BY <1>3 DEF Delivering, RemindersInv
<1>6. Awake(p) /\ Holds(sweeping[p])
  BY <1>5, ItsSweep
<1>7. ReadRight(sweeping[p])
  BY <1>6 DEF RemindersInv
<1>8. \A q \in Sweeper : q # p => sweeping'[q] = sweeping[q]
  BY <1>2, <1>5 DEF Deliver, SweepAt, RemindersTyped
<1>. QED BY <1>4, <1>5, <1>6, <1>7, <1>8 DEF LogRow, Holds

LEMMA WhatIsToldIsTrue ==
  ASSUME RemindersInv, [RemindersNext]_reminderVars, NEW n \in told' \ told
  PROVE  /\ n.periodEnd = PeriodEndOf(account) /\ ~account.billingExempt =>
              /\ n.tier = "grace" => Access(half).canOperate
              /\ n.tier = "blocked" => ~Access(2 * DayOf(half) + 2).canOperate
              /\ \A left \in DOMAIN PRE_TIERS :
                   n.tier = PRE_TIERS[left] => DayOf(n.periodEnd) = DayOf(half) + left
         /\ \A p \in Sweeper :
              sweeping[p] # sweeping'[p] => ~(Waiting /\ sweeping[p].waited = payments)
<1>1. PICK p \in Sweeper :
        /\ Delivering(p) /\ Awake(p) /\ ReadRight(sweeping[p])
        /\ sweeping[p].due \in Due
        /\ n.tier = sweeping[p].due.tier /\ n.periodEnd = sweeping[p].due.periodEnd
        /\ \A q \in Sweeper : q # p => sweeping'[q] = sweeping[q]
  BY WhatIsToldIsDue
<1>2. \A q \in Sweeper : sweeping[q] # sweeping'[q] => ~(Waiting /\ sweeping[q].waited = payments)
  <2>1. ~(Waiting /\ sweeping[p].waited = payments)
    BY <1>1 DEF ReadRight, Delivering
  <2>. QED BY <1>1, <2>1
<1>3. ASSUME n.periodEnd = PeriodEndOf(account), ~account.billingExempt
      PROVE  /\ n.tier = "grace" => Access(half).canOperate
             /\ n.tier = "blocked" => ~Access(2 * DayOf(half) + 2).canOperate
             /\ \A left \in DOMAIN PRE_TIERS :
                  n.tier = PRE_TIERS[left] => DayOf(n.periodEnd) = DayOf(half) + left
  <2>. DEFINE due == sweeping[p].due
  <2>1. due = DueReminder(account, half)
    BY <1>1, <1>3 DEF ReadRight
  <2>2. due # Nothing
    <3>1. due.tier \in Tier
      BY <1>1 DEF Due
    <3>2. Nothing.tier = "none"
      BY DEF Nothing
    <3>. QED BY <3>1, <3>2 DEF Tier
  <2>3. RemindersTyped
    BY DEF RemindersInv
  <2>4. n.tier = due.tier /\ n.periodEnd = due.periodEnd
    BY <1>1
  <2>. HIDE DEF due
  <2>5. /\ due.tier = "grace" => Access(half).canOperate
        /\ due.tier = "blocked" => ~Access(2 * DayOf(half) + 2).canOperate
        /\ \A left \in DOMAIN PRE_TIERS :
             due.tier = PRE_TIERS[left] => DayOf(due.periodEnd) = DayOf(half) + left
    BY <1>3, <2>1, <2>2, <2>3, DueIsTrue
  <2>. QED BY <2>4, <2>5
<1>. QED BY <1>2, <1>3

\* The sweep of the reminders keeps its books in any number of sweeps, payments
\* and failures: a tier of a period goes out once by a channel unless two sweeps
\* overlap or one dies, the log says what went out, whoever has a notice due is
\* in the window of the query, and what goes out is true of the row it was read of.
THEOREM RemindersStayTrue == RemindersSpec => RemindersAreTrue
<1>1. RemindersInit => RemindersInv
  BY RemindersStart
<1>2. RemindersInv /\ [RemindersNext]_reminderVars => RemindersInv'
  BY RemindersKeepOn
<1>3. RemindersInv => RemindersSound
  BY InvIsSound
<1>4. RemindersInv /\ [RemindersNext]_reminderVars =>
        [\A n \in told' \ told :
           /\ n.periodEnd = PeriodEndOf(account) /\ ~account.billingExempt =>
                /\ n.tier = "grace" => Access(half).canOperate
                /\ n.tier = "blocked" => ~Access(2 * DayOf(half) + 2).canOperate
                /\ \A left \in DOMAIN PRE_TIERS :
                     n.tier = PRE_TIERS[left] => DayOf(n.periodEnd) = DayOf(half) + left
           /\ \A p \in Sweeper :
                sweeping[p] # sweeping'[p] => ~(Waiting /\ sweeping[p].waited = payments)
        ]_reminderVars
  BY WhatIsToldIsTrue
<1>. QED BY <1>1, <1>2, <1>3, <1>4, PTL
         DEF RemindersSpec, RemindersAreTrue, RemindersTellTheTruth

-----------------------------------------------------------------------------
(* The calendar of the report of the clients *)

Months == 12 * Years
InCalendar == {d \in Nat : d < FirstOf[Months]}

LEMMA Calendar ==
  /\ Months \in Nat /\ DOMAIN FirstOf = 0..Months /\ FirstOf[0] = 0
  /\ HalfMonth \in Nat \ {0}
  /\ \A m \in 0..Months : FirstOf[m] \in Nat
  /\ \A m \in 1..Months : FirstOf[m] > FirstOf[m - 1] + HalfMonth
<1>1. /\ Months \in Nat /\ DOMAIN FirstOf = 0..Months /\ FirstOf[0] = 0
      /\ HalfMonth \in Nat \ {0}
      /\ \A m \in 1..Months : FirstOf[m] \in Nat /\ FirstOf[m] > FirstOf[m - 1] + HalfMonth
  BY ClientsReportAssumption DEF Months
<1>2. ASSUME NEW m \in 0..Months
      PROVE  FirstOf[m] \in Nat
  <2>1. m = 0 \/ m \in 1..Months
    BY <1>1
  <2>. QED BY <1>1, <2>1
<1>. QED BY <1>1, <1>2

\* The months follow one another.
LEMMA MonthsFollow ==
  ASSUME NEW m \in 0..Months, NEW n \in 0..Months, m <= n
  PROVE  FirstOf[m] + (n - m) <= FirstOf[n]
<1>. DEFINE Good == {k \in Nat : m + k <= Months => FirstOf[m] + k <= FirstOf[m + k]}
<1>1. Months \in Nat /\ m \in Nat /\ FirstOf[m] \in Nat
  BY Calendar
<1>2. 0 \in Good
  BY <1>1
<1>3. ASSUME NEW k \in Good
      PROVE  k + 1 \in Good
  <2>. SUFFICES ASSUME m + (k + 1) <= Months
                PROVE  FirstOf[m] + (k + 1) <= FirstOf[m + (k + 1)]
    OBVIOUS
  <2>. DEFINE j == m + (k + 1)
  <2>1. j \in 1..Months /\ j - 1 \in 0..Months /\ j - 1 = m + k
    BY <1>1
  <2>2. FirstOf[m] + k <= FirstOf[j - 1]
    BY <1>1, <2>1
  <2>. HIDE DEF j
  <2>3. /\ FirstOf[j] \in Nat /\ FirstOf[j - 1] \in Nat /\ HalfMonth \in Nat
        /\ FirstOf[j] > FirstOf[j - 1] + HalfMonth
    BY <2>1, Calendar
  <2>4. FirstOf[m] + (k + 1) <= FirstOf[j]
    BY <1>1, <2>2, <2>3
  <2>. QED BY <2>4 DEF j
<1>4. Good = Nat
  <2>. HIDE DEF Good
  <2>1. Good \in SUBSET Nat
    BY DEF Good
  <2>. QED BY <1>2, <1>3, <2>1, NatSteps
<1>5. n - m \in Good /\ m + (n - m) = n
  BY <1>1, <1>4
<1>. QED BY <1>1, <1>5

LEMMA MonthIs ==
  ASSUME NEW d \in InCalendar
  PROVE  /\ MonthOf(d) \in 0..(Months - 1) /\ MonthOf(d) + 1 \in 0..Months
         /\ FirstOf[MonthOf(d)] <= d /\ d < FirstOf[MonthOf(d) + 1]
<1>. DEFINE Past == {m \in 0..Months : d < FirstOf[m]}
            Its(m) == m \in DOMAIN FirstOf /\ FirstOf[m] <= d /\ d <= lastDayOfMonth(m)
<1>1. d \in Nat /\ d < FirstOf[Months] /\ Months \in Nat /\ DOMAIN FirstOf = 0..Months
      /\ FirstOf[0] = 0
  BY Calendar DEF InCalendar
<1>2. PICK n \in Past : \A m \in Past : n <= m
  <2>1. Past \in SUBSET Nat /\ Months \in Past
    BY <1>1
  <2>. HIDE DEF Past
  <2>. QED BY <2>1, LeastNat
<1>3. n \in 1..Months /\ n - 1 \in 0..Months /\ ~(d < FirstOf[n - 1]) /\ d < FirstOf[n]
  BY <1>1, <1>2
<1>4. Its(n - 1)
  <2>1. FirstOf[n - 1] \in Nat /\ FirstOf[n] \in Nat /\ (n - 1) + 1 = n
    BY <1>3, Calendar
  <2>. QED BY <1>1, <1>3, <2>1 DEF lastDayOfMonth
<1>5. Its(MonthOf(d))
  <2>1. MonthOf(d) = CHOOSE m \in DOMAIN FirstOf : FirstOf[m] <= d /\ d <= lastDayOfMonth(m)
    BY DEF MonthOf
  <2>. QED BY <1>4, <2>1
<1>. DEFINE k == MonthOf(d)
<1>. HIDE DEF k
<1>6. k \in 0..Months /\ FirstOf[k] <= d /\ d <= FirstOf[k + 1] - 1
  BY <1>1, <1>5 DEF k, lastDayOfMonth
<1>7. k # Months
  <2>1. FirstOf[Months] \in Nat
    BY <1>1, Calendar
  <2>. QED BY <1>1, <1>6, <2>1
<1>8. k \in 0..(Months - 1) /\ k + 1 \in 0..Months
  BY <1>1, <1>6, <1>7
<1>9. FirstOf[k + 1] \in Nat
  BY <1>8, Calendar
<1>10. d < FirstOf[k + 1]
  BY <1>1, <1>6, <1>9
<1>. QED BY <1>6, <1>8, <1>10 DEF k

LEMMA MonthIsOne ==
  ASSUME NEW d \in InCalendar, NEW m \in 0..Months, m + 1 \in 0..Months,
         FirstOf[m] <= d, d < FirstOf[m + 1]
  PROVE  m = MonthOf(d)
<1>. DEFINE k == MonthOf(d)
<1>1. /\ k \in 0..(Months - 1) /\ k + 1 \in 0..Months
      /\ FirstOf[k] <= d /\ d < FirstOf[k + 1]
  BY MonthIs
<1>. HIDE DEF k
<1>2. Months \in Nat /\ d \in Nat
  BY Calendar DEF InCalendar
<1>3. FirstOf[m] \in Nat /\ FirstOf[m + 1] \in Nat /\ FirstOf[k] \in Nat /\ FirstOf[k + 1] \in Nat
  BY <1>1, <1>2, Calendar
<1>4. ~(m < k)
  <2>. SUFFICES ASSUME m < k PROVE FALSE
    OBVIOUS
  <2>1. m + 1 <= k /\ k \in 0..Months
    BY <1>1, <1>2
  <2>2. FirstOf[m + 1] <= FirstOf[k]
    BY <1>2, <1>3, <2>1, MonthsFollow
  <2>. QED BY <1>1, <1>2, <1>3, <2>2
<1>5. ~(k < m)
  <2>. SUFFICES ASSUME k < m PROVE FALSE
    OBVIOUS
  <2>1. k + 1 <= m
    BY <1>1, <1>2
  <2>2. FirstOf[k + 1] <= FirstOf[m]
    BY <1>1, <1>2, <1>3, <2>1, MonthsFollow
  <2>. QED BY <1>1, <1>2, <1>3, <2>2
<1>. QED BY <1>1, <1>2, <1>4, <1>5 DEF k

\* A later day is of a later month, or of the same.
LEMMA MonthsGrow ==
  ASSUME NEW d \in InCalendar, NEW e \in InCalendar, d <= e
  PROVE  MonthOf(d) <= MonthOf(e)
<1>. DEFINE k == MonthOf(d)
            l == MonthOf(e)
<1>1. /\ k \in 0..(Months - 1) /\ l \in 0..(Months - 1) /\ l + 1 \in 0..Months
      /\ FirstOf[k] <= d /\ e < FirstOf[l + 1]
  BY MonthIs
<1>. HIDE DEF k, l
<1>2. Months \in Nat /\ d \in Nat /\ e \in Nat
  BY Calendar DEF InCalendar
<1>3. k \in 0..Months /\ FirstOf[k] \in Nat /\ FirstOf[l + 1] \in Nat
  BY <1>1, <1>2, Calendar
<1>4. ~(l < k)
  <2>. SUFFICES ASSUME l < k PROVE FALSE
    OBVIOUS
  <2>1. l + 1 <= k
    BY <1>1, <1>2
  <2>2. FirstOf[l + 1] <= FirstOf[k]
    BY <1>1, <1>2, <1>3, <2>1, MonthsFollow
  <2>. QED BY <1>1, <1>2, <1>3, <2>2
<1>. QED BY <1>1, <1>2, <1>4 DEF k, l

\* The blocks of some months that the calendar is cut in.
LEMMA BlocksAre ==
  ASSUME NEW b \in DOMAIN MonthsIn, NEW m \in 0..(Months - 1)
  PROVE  LET n == MonthsIn[b]
             first == (m \div n) * n
         IN /\ n \in {1, 3, 6, 12} /\ first \in 0..m /\ m < first + n
            /\ first + n \in 0..Months /\ first % n = 0 /\ (first + n) % n = 0
            /\ m \div n \in Nat
<1>1. MonthsIn[b] \in {1, 3, 6, 12}
  BY DEF MonthsIn
<1>2. Months = 12 * Years /\ Years \in Nat /\ m \in Nat /\ m < 12 * Years
  BY ClientsReportAssumption, Calendar DEF Months
<1>3. CASE MonthsIn[b] = 1
  BY <1>2, <1>3
<1>4. CASE MonthsIn[b] = 3
  BY <1>2, <1>4
<1>5. CASE MonthsIn[b] = 6
  BY <1>2, <1>5
<1>6. CASE MonthsIn[b] = 12
  BY <1>2, <1>6
<1>. QED BY <1>1, <1>3, <1>4, <1>5, <1>6


-----------------------------------------------------------------------------
(* The periods that cover a range *)

LEMMA LesserOf ==
  ASSUME NEW a \in Int, NEW b \in Int
  PROVE  Min({a, b}) = IF a <= b THEN a ELSE b
BY DEF Min

LEMMA PutFirst ==
  ASSUME NEW S, NEW x \in S, NEW t \in Seq(S), NEW s, s = <<x>> \o t
  PROVE  /\ s \in Seq(S) /\ Len(s) = Len(t) + 1 /\ Len(t) \in Nat /\ s[1] = x
         /\ \A i \in 1..Len(t) : s[i + 1] = t[i]
OBVIOUS

EndAt(cut, d, to) == Min({cut[d].end, to})
NextAt(cut, d, to) == Min({cut[d].next, to + 1})
PeriodAt(cut, d, to) == Period(d, EndAt(cut, d, to))

IsRest(g, cut, from, to) ==
  g = [d \in from..(to + 1) |->
         IF d > to THEN <<>>
         ELSE <<PeriodAt(cut, d, to)>> \o g[NextAt(cut, d, to)]]

\* Where each period ends, and that the next one starts the day after.
CutsOn(cut, from, to) ==
  \A d \in from..to :
    cut[d].end \in Int /\ d <= cut[d].end /\ cut[d].next = cut[d].end + 1

LEMMA NextCut ==
  ASSUME NEW from \in Int, NEW to \in Int, NEW cut, CutsOn(cut, from, to),
         NEW d \in from..to
  PROVE  /\ d \in Int /\ d <= to
         /\ EndAt(cut, d, to) = (IF cut[d].end <= to THEN cut[d].end ELSE to)
         /\ NextAt(cut, d, to) = (IF cut[d].end <= to THEN cut[d].end + 1 ELSE to + 1)
         /\ NextAt(cut, d, to) \in (d + 1)..(to + 1)
<1>1. /\ cut[d].end \in Int /\ d <= cut[d].end /\ cut[d].next = cut[d].end + 1
      /\ cut[d].next \in Int /\ to + 1 \in Int /\ d \in Int
  BY DEF CutsOn
<1>2. EndAt(cut, d, to) = (IF cut[d].end <= to THEN cut[d].end ELSE to)
  BY <1>1, LesserOf DEF EndAt
<1>3. NextAt(cut, d, to) = (IF cut[d].next <= to + 1 THEN cut[d].next ELSE to + 1)
  BY <1>1, LesserOf DEF NextAt
<1>. QED BY <1>1, <1>2, <1>3

\* The recursion from the last day back to the first.
LEMMA RestExists ==
  ASSUME NEW from \in Int, NEW to \in Int, from <= to + 1, NEW cut, CutsOn(cut, from, to)
  PROVE  \E g : IsRest(g, cut, from, to)
<1>. DEFINE Good == {k \in Nat : to + 1 - k >= from => \E g : IsRest(g, cut, to + 1 - k, to)}
<1>1. 0 \in Good
  <2>. DEFINE g == [d \in (to + 1)..(to + 1) |-> <<>>]
  <2>1. \A d \in (to + 1)..(to + 1) : d > to
    OBVIOUS
  <2>2. g = [d \in (to + 1)..(to + 1) |->
               IF d > to THEN <<>>
               ELSE <<PeriodAt(cut, d, to)>> \o g[NextAt(cut, d, to)]]
    BY <2>1
  <2>3. IsRest(g, cut, to + 1, to)
    BY <2>2 DEF IsRest
  <2>4. to + 1 - 0 = to + 1
    OBVIOUS
  <2>. QED BY <2>3, <2>4
<1>2. ASSUME NEW k \in Good
      PROVE  k + 1 \in Good
  <2>. DEFINE a == to + 1 - (k + 1)
  <2>1. k \in Nat /\ a \in Int /\ a + 1 = to + 1 - k /\ a <= to
    OBVIOUS
  <2>. SUFFICES ASSUME a >= from
                PROVE  \E h : IsRest(h, cut, a, to)
    BY <2>1
  <2>2. PICK g : IsRest(g, cut, a + 1, to)
    BY <2>1
  <2>. HIDE DEF a, Good
  <2>. DEFINE nx(d) == NextAt(cut, d, to)
              head(d) == <<PeriodAt(cut, d, to)>>
              h == [d \in a..(to + 1) |-> IF d = a THEN head(a) \o g[nx(a)] ELSE g[d]]
  <2>3. \A d \in a..to : nx(d) \in (d + 1)..(to + 1)
    BY <2>1, NextCut
  <2>4. g = [d \in (a + 1)..(to + 1) |-> IF d > to THEN <<>> ELSE head(d) \o g[nx(d)]]
    BY <2>2 DEF IsRest
  <2>. HIDE DEF nx, head
  <2>5. \A d \in a..to : h[nx(d)] = g[nx(d)]
    BY <2>1, <2>3
  <2>6. ASSUME NEW d \in a..(to + 1)
        PROVE  h[d] = IF d > to THEN <<>> ELSE head(d) \o h[nx(d)]
    <3>1. CASE d = a
      <4>1. a \in a..to /\ a \in a..(to + 1) /\ ~(a > to)
        BY <2>1
      <4>. DEFINE first == head(a) \o g[nx(a)]
      <4>. HIDE DEF first
      <4>2. h = [x \in a..(to + 1) |-> IF x = a THEN first ELSE g[x]]
        BY DEF first
      <4>. HIDE DEF h
      <4>3. h[a] = first
        BY <4>1, <4>2
      <4>4. h[nx(a)] = g[nx(a)]
        BY <2>5, <4>1
      <4>. QED BY <3>1, <4>1, <4>3, <4>4 DEF first
    <3>2. CASE d # a
      <4>1. d \in (a + 1)..(to + 1) /\ h[d] = g[d]
        BY <2>1, <3>2
      <4>. HIDE DEF h
      <4>2. g[d] = IF d > to THEN <<>> ELSE head(d) \o g[nx(d)]
        BY <2>4, <4>1
      <4>3. d <= to => h[nx(d)] = g[nx(d)]
        BY <2>1, <2>5
      <4>4. d > to \/ d <= to
        BY <2>1
      <4>. QED BY <4>1, <4>2, <4>3, <4>4
    <3>. QED BY <3>1, <3>2
  <2>7. h = [d \in a..(to + 1) |-> h[d]]
    OBVIOUS
  <2>. HIDE DEF h
  <2>8. h = [d \in a..(to + 1) |-> IF d > to THEN <<>> ELSE head(d) \o h[nx(d)]]
    BY <2>6, <2>7
  <2>. QED BY <2>8 DEF IsRest, head, nx
<1>3. Good = Nat
  <2>. HIDE DEF Good
  <2>1. Good \in SUBSET Nat
    BY DEF Good
  <2>. QED BY <1>1, <1>2, <2>1, NatSteps
<1>. HIDE DEF Good
<1>4. to + 1 - from \in Good /\ to + 1 - (to + 1 - from) = from
  BY <1>3
<1>. QED BY <1>4 DEF Good

LEMMA RestIs ==
  ASSUME NEW from \in Int, NEW to \in Int, NEW cut, NEW g, IsRest(g, cut, from, to)
  PROVE  /\ \A d \in from..to : g[d] = <<PeriodAt(cut, d, to)>> \o g[NextAt(cut, d, to)]
         /\ from <= to + 1 => g[to + 1] = <<>>
<1>. DEFINE more(d) == <<PeriodAt(cut, d, to)>> \o g[NextAt(cut, d, to)]
<1>1. g = [d \in from..(to + 1) |-> IF d > to THEN <<>> ELSE more(d)]
  BY DEF IsRest
<1>. HIDE DEF more
<1>2. \A d \in from..(to + 1) : g[d] = IF d > to THEN <<>> ELSE more(d)
  BY <1>1
<1>3. \A d \in from..to : g[d] = more(d)
  BY <1>2
<1>4. from <= to + 1 => g[to + 1] = <<>>
  BY <1>2
<1>. QED BY <1>3, <1>4 DEF more

\* One period after the other, each but the first where a cut says.
PeriodRow == [start : Int, end : Int]
Covers(s, cut, from, to) ==
  /\ s \in Seq(PeriodRow) /\ Len(s) \in Nat \ {0}
  /\ s[1].start = from /\ s[Len(s)].end = to
  /\ \A i \in 1..Len(s) :
       from <= s[i].start /\ s[i].start <= s[i].end /\ s[i].end <= to
  /\ \A i \in 2..Len(s) :
       /\ s[i].start = s[i - 1].end + 1
       /\ \E d \in from..to : s[i].start = cut[d].next

LEMMA CoversMore ==
  ASSUME NEW from \in Int, NEW to \in Int, NEW cut, CutsOn(cut, from, to), NEW d \in from..to,
         NEW t, NEW p, p = PeriodAt(cut, d, to), NEW s, s = <<p>> \o t,
         cut[d].end < to => Covers(t, cut, cut[d].end + 1, to),
         cut[d].end >= to => t = <<>>
  PROVE  Covers(s, cut, d, to)
<1>. DEFINE e == EndAt(cut, d, to)
<1>1. /\ cut[d].end \in Int /\ d <= cut[d].end /\ cut[d].next = cut[d].end + 1
      /\ d \in Int /\ d <= to /\ from <= d
  BY DEF CutsOn
<1>2. e = (IF cut[d].end <= to THEN cut[d].end ELSE to)
  BY NextCut
<1>. HIDE DEF e
<1>3. p \in PeriodRow /\ p.start = d /\ p.end = e /\ d <= e /\ e <= to
  <2>1. p = [start |-> d, end |-> e]
    BY DEF PeriodAt, Period, e
  <2>. QED BY <1>1, <1>2, <2>1 DEF PeriodRow
<1>4. CASE cut[d].end >= to
  <2>1. t = <<>> /\ e = to
    BY <1>1, <1>2, <1>4
  <2>2. t \in Seq(PeriodRow) /\ Len(t) = 0
    BY <2>1
  <2>3. s \in Seq(PeriodRow) /\ Len(s) = 1 /\ s[1] = p
    BY <1>3, <2>2, PutFirst
  <2>. QED BY <1>1, <1>3, <2>1, <2>3 DEF Covers
<1>5. CASE cut[d].end < to
  <2>1. Covers(t, cut, cut[d].end + 1, to) /\ e = cut[d].end
    BY <1>1, <1>2, <1>5
  <2>2. /\ t \in Seq(PeriodRow) /\ Len(t) \in Nat \ {0}
        /\ t[1].start = e + 1 /\ t[Len(t)].end = to
        /\ \A i \in 1..Len(t) : e + 1 <= t[i].start /\ t[i].start <= t[i].end /\ t[i].end <= to
        /\ \A i \in 2..Len(t) :
             /\ t[i].start = t[i - 1].end + 1
             /\ \E x \in (e + 1)..to : t[i].start = cut[x].next
    BY <2>1 DEF Covers
  <2>3. /\ s \in Seq(PeriodRow) /\ Len(s) = Len(t) + 1 /\ s[1] = p
        /\ \A i \in 1..Len(t) : s[i + 1] = t[i]
    BY <1>3, <2>2, PutFirst
  <2>4. \A i \in 2..Len(s) : i - 1 \in 1..Len(t) /\ s[i] = t[i - 1]
    <3>. TAKE i \in 2..Len(s)
    <3>1. i - 1 \in 1..Len(t) /\ (i - 1) + 1 = i
      BY <2>2, <2>3
    <3>. QED BY <2>3, <3>1
  <2>5. s[1].start = d /\ s[Len(s)].end = to
    <3>1. Len(s) \in 2..Len(s) /\ Len(s) - 1 = Len(t)
      BY <2>2, <2>3
    <3>. QED BY <1>3, <2>2, <2>3, <2>4, <3>1
  <2>6. ASSUME NEW i \in 1..Len(s)
        PROVE  d <= s[i].start /\ s[i].start <= s[i].end /\ s[i].end <= to
    <3>1. CASE i = 1
      BY <1>3, <2>3, <3>1
    <3>2. CASE i # 1
      <4>1. i \in 2..Len(s)
        BY <2>2, <2>3, <3>2
      <4>. DEFINE q == t[i - 1]
      <4>2. i - 1 \in 1..Len(t) /\ s[i] = q
        BY <2>4, <4>1
      <4>3. q \in PeriodRow
        BY <2>2, <4>2
      <4>4. e + 1 <= q.start /\ q.start <= q.end /\ q.end <= to
        BY <2>2, <4>2
      <4>. HIDE DEF q
      <4>5. q.start \in Int /\ e \in Int
        BY <1>1, <2>1, <4>3 DEF PeriodRow
      <4>. QED BY <1>1, <1>3, <4>2, <4>4, <4>5
    <3>. QED BY <3>1, <3>2
  <2>7. ASSUME NEW i \in 2..Len(s)
        PROVE  /\ s[i].start = s[i - 1].end + 1
               /\ \E x \in d..to : s[i].start = cut[x].next
    <3>1. i - 1 \in 1..Len(t) /\ s[i] = t[i - 1]
      BY <2>4
    <3>2. CASE i = 2
      <4>1. s[i].start = e + 1 /\ s[i - 1] = p
        BY <2>2, <2>3, <3>1, <3>2
      <4>2. d \in d..to /\ s[i].start = cut[d].next
        BY <1>1, <2>1, <4>1
      <4>. QED BY <1>3, <4>1, <4>2
    <3>3. CASE i # 2
      <4>. DEFINE j == i - 1
      <4>1. j \in 2..Len(t) /\ i - 1 \in 2..Len(s) /\ j \in 1..Len(t)
        BY <2>2, <2>3, <3>1, <3>3
      <4>2. s[i - 1] = t[j - 1] /\ s[i] = t[j]
        BY <2>4, <3>1, <4>1
      <4>3. t[j].start = t[j - 1].end + 1 /\ \E x \in (e + 1)..to : t[j].start = cut[x].next
        BY <2>2, <4>1
      <4>4. (e + 1)..to \subseteq d..to
        BY <1>1, <2>1
      <4>. QED BY <4>2, <4>3, <4>4
    <3>. QED BY <3>2, <3>3
  <2>8. Len(s) \in Nat \ {0}
    BY <2>2, <2>3
  <2>. QED BY <2>3, <2>5, <2>6, <2>7, <2>8 DEF Covers
<1>. QED BY <1>1, <1>4, <1>5

LEMMA CoverCovers ==
  ASSUME NEW from \in Int, NEW to \in Int, from <= to, NEW cut, CutsOn(cut, from, to)
  PROVE  Covers(Cover(cut, from, to), cut, from, to)
<1>. DEFINE rest == CHOOSE g : IsRest(g, cut, from, to)
<1>1. Cover(cut, from, to) = rest[from]
  BY DEF Cover, IsRest, PeriodAt, EndAt, NextAt
<1>2. IsRest(rest, cut, from, to)
  <2>1. \E g : IsRest(g, cut, from, to)
    BY RestExists
  <2>. QED BY <2>1
<1>. HIDE DEF rest
<1>3. /\ \A d \in from..to :
           rest[d] = <<PeriodAt(cut, d, to)>> \o rest[NextAt(cut, d, to)]
      /\ rest[to + 1] = <<>>
  BY <1>2, RestIs
<1>. DEFINE Good == {k \in Nat : \A j \in 0..k : to - j >= from => Covers(rest[to - j], cut, to - j, to)}
<1>4. ASSUME NEW d \in from..to, \A x \in (d + 1)..to : Covers(rest[x], cut, x, to)
      PROVE  Covers(rest[d], cut, d, to)
  <2>. DEFINE t == rest[NextAt(cut, d, to)]
              p == PeriodAt(cut, d, to)
  <2>1. rest[d] = <<p>> \o t
    BY <1>3
  <2>2. cut[d].end \in Int /\ d <= cut[d].end /\ cut[d].next = cut[d].end + 1
    BY DEF CutsOn
  <2>3. NextAt(cut, d, to) = IF cut[d].end <= to THEN cut[d].end + 1 ELSE to + 1
    BY NextCut
  <2>4. cut[d].end < to => Covers(t, cut, cut[d].end + 1, to)
    <3>. SUFFICES ASSUME cut[d].end < to PROVE Covers(t, cut, cut[d].end + 1, to)
      OBVIOUS
    <3>1. t = rest[cut[d].end + 1]
      BY <2>2, <2>3
    <3>2. cut[d].end + 1 \in (d + 1)..to
      BY <2>2
    <3>. QED BY <1>4, <3>1, <3>2
  <2>5. cut[d].end >= to => t = <<>>
    <3>. SUFFICES ASSUME cut[d].end >= to PROVE t = <<>>
      OBVIOUS
    <3>1. t = rest[to + 1]
      BY <2>2, <2>3
    <3>. QED BY <1>3, <3>1
  <2>. HIDE DEF t
  <2>. QED BY <2>1, <2>4, <2>5, CoversMore
<1>5. 0 \in Good
  <2>1. \A x \in (to + 1)..to : FALSE
    OBVIOUS
  <2>2. Covers(rest[to], cut, to, to)
    BY <1>4, <2>1
  <2>3. \A j \in 0..0 : to - j = to
    OBVIOUS
  <2>. QED BY <2>2, <2>3
<1>6. ASSUME NEW k \in Good
      PROVE  k + 1 \in Good
  <2>1. \A j \in 0..k : to - j >= from => Covers(rest[to - j], cut, to - j, to)
    OBVIOUS
  <2>2. k \in Nat
    OBVIOUS
  <2>3. ASSUME NEW j \in 0..(k + 1), to - j >= from
        PROVE  Covers(rest[to - j], cut, to - j, to)
    <3>1. CASE j \in 0..k
      BY <2>1, <2>3, <3>1
    <3>2. CASE j = k + 1
      <4>. DEFINE d == to - j
      <4>1. d \in from..to
        BY <2>2, <2>3, <3>2
      <4>2. ASSUME NEW x \in (d + 1)..to
            PROVE  Covers(rest[x], cut, x, to)
        <5>1. to - x \in 0..k /\ to - (to - x) = x /\ x >= from
          BY <2>2, <2>3, <3>2
        <5>. QED BY <2>1, <5>1
      <4>. HIDE DEF d
      <4>3. Covers(rest[d], cut, d, to)
        BY <1>4, <4>1, <4>2
      <4>. QED BY <4>3 DEF d
    <3>. QED BY <2>2, <3>1, <3>2
  <2>. HIDE DEF Covers
  <2>. QED BY <2>2, <2>3
<1>7. Good = Nat
  <2>. HIDE DEF Good
  <2>1. Good \in SUBSET Nat
    BY DEF Good
  <2>. QED BY <1>5, <1>6, <2>1, NatSteps
<1>. HIDE DEF Good
<1>8. to - from \in Good /\ to - from \in 0..(to - from) /\ to - (to - from) = from
  BY <1>7
<1>. QED BY <1>1, <1>8 DEF Good


\* A period starts after the ones before it end.
LEMMA CoversOrder ==
  ASSUME NEW s, NEW cut, NEW from \in Int, NEW to \in Int, Covers(s, cut, from, to),
         NEW i \in 1..Len(s), NEW j \in 1..Len(s), i < j
  PROVE  s[i].end < s[j].start
<1>. DEFINE n == Len(s)
            Good == {k \in Nat : i + k + 1 <= n => s[i].end < s[i + k + 1].start}
<1>1. n \in Nat \ {0} /\ i \in 1..n /\ j \in 1..n
  BY DEF Covers
<1>2. \A k \in 1..n : /\ s[k].start \in Int /\ s[k].end \in Int /\ s[k].start <= s[k].end
                      /\ k # 1 => s[k].start = s[k - 1].end + 1
  <2>. SUFFICES ASSUME NEW k \in 1..n
                PROVE  /\ s[k].start \in Int /\ s[k].end \in Int /\ s[k].start <= s[k].end
                       /\ k # 1 => s[k].start = s[k - 1].end + 1
    OBVIOUS
  <2>1. s[k] \in PeriodRow
    BY <1>1 DEF Covers
  <2>2. s[k].start <= s[k].end
    BY DEF Covers
  <2>3. k # 1 => s[k].start = s[k - 1].end + 1
    <3>1. k # 1 => k \in 2..n
      BY <1>1
    <3>. QED BY <3>1 DEF Covers
  <2>. QED BY <2>1, <2>2, <2>3 DEF PeriodRow
<1>. HIDE DEF n
<1>3. 0 \in Good
  <2>. SUFFICES ASSUME i + 1 <= n PROVE s[i].end < s[i + 1].start
    BY <1>1
  <2>1. i + 1 \in 1..n /\ i + 1 # 1 /\ (i + 1) - 1 = i
    BY <1>1
  <2>2. s[i + 1].start = s[(i + 1) - 1].end + 1
    BY <1>2, <2>1
  <2>. QED BY <1>1, <1>2, <2>1, <2>2
<1>4. ASSUME NEW k \in Good
      PROVE  k + 1 \in Good
  <2>. DEFINE a == i + k + 1
  <2>1. k \in Nat /\ a \in Nat /\ i + (k + 1) + 1 = a + 1
    BY <1>1
  <2>. SUFFICES ASSUME a + 1 <= n PROVE s[i].end < s[a + 1].start
    BY <2>1
  <2>2. s[i].end < s[a].start
    BY <1>1, <2>1
  <2>3. a \in 1..n /\ a + 1 \in 1..n /\ a + 1 # 1 /\ (a + 1) - 1 = a
    BY <1>1, <2>1
  <2>. HIDE DEF a
  <2>4. s[a + 1].start = s[a].end + 1
    BY <1>2, <2>3
  <2>5. /\ s[i].end \in Int /\ s[a].start \in Int /\ s[a].end \in Int
        /\ s[a].start <= s[a].end
    BY <1>1, <1>2, <2>3
  <2>. HIDE DEF Good
  <2>. QED BY <2>2, <2>4, <2>5
<1>5. Good = Nat
  <2>. HIDE DEF Good
  <2>1. Good \in SUBSET Nat
    BY DEF Good
  <2>. QED BY <1>3, <1>4, <2>1, NatSteps
<1>6. j - i - 1 \in Good /\ i + (j - i - 1) + 1 = j
  <2>. HIDE DEF Good
  <2>. QED BY <1>1, <1>5
<1>. QED BY <1>1, <1>6

LEMMA CoversTile ==
  ASSUME NEW s, NEW cut, NEW from \in Int, NEW to \in Int, Covers(s, cut, from, to)
  PROVE  Tiles(s, from, to)
<1>1. DOMAIN s = 1..Len(s)
  BY DEF Covers
<1>. QED BY <1>1 DEF Covers, Tiles

-----------------------------------------------------------------------------
(* The binary search of the bucket of a charge *)

\* A function that goes from an element to another one, and every time weighs less.
IsTail(f, D, stop, base, next) == f = [x \in D |-> IF stop[x] THEN base[x] ELSE f[next[x]]]

LEMMA TailRecursion ==
  ASSUME NEW D, NEW w, NEW bound \in Nat, NEW stop, NEW base, NEW next,
         \A x \in D : w[x] \in 0..bound,
         \A x \in D : stop[x] \/ (next[x] \in D /\ w[next[x]] < w[x])
  PROVE  \E f : IsTail(f, D, stop, base, next)
<1>. DEFINE Ok(f, x) == f[x] = IF stop[x] THEN base[x] ELSE f[next[x]]
            Good == {k \in Nat : \E f : \A x \in D : w[x] < k => Ok(f, x)}
<1>1. 0 \in Good
  <2>1. \A x \in D : ~(w[x] < 0)
    OBVIOUS
  <2>. QED BY <2>1
<1>2. ASSUME NEW k \in Good
      PROVE  k + 1 \in Good
  <2>1. k \in Nat
    OBVIOUS
  <2>2. PICK f : \A x \in D : w[x] < k => Ok(f, x)
    OBVIOUS
  <2>. DEFINE h == [x \in D |-> IF w[x] < k THEN f[x]
                                ELSE IF stop[x] THEN base[x] ELSE f[next[x]]]
  <2>3. ASSUME NEW x \in D, w[x] < k + 1
        PROVE  Ok(h, x)
    <3>1. w[x] \in Int /\ (~stop[x] => next[x] \in D /\ w[next[x]] < k)
      BY <2>1, <2>3
    <3>2. ~stop[x] => h[next[x]] = f[next[x]]
      BY <3>1
    <3>3. h[x] = IF stop[x] THEN base[x] ELSE f[next[x]]
      BY <2>2, <3>1
    <3>. HIDE DEF h
    <3>. QED BY <3>2, <3>3
  <2>. HIDE DEF h, Ok
  <2>. QED BY <2>1, <2>3
<1>3. Good = Nat
  <2>. HIDE DEF Good
  <2>1. Good \in SUBSET Nat
    BY DEF Good
  <2>. QED BY <1>1, <1>2, <2>1, NatSteps
<1>4. bound + 1 \in Good
  <2>. HIDE DEF Good
  <2>. QED BY <1>3
<1>5. PICK f : \A x \in D : w[x] < bound + 1 => Ok(f, x)
  BY <1>4
<1>6. \A x \in D : f[x] = IF stop[x] THEN base[x] ELSE f[next[x]]
  BY <1>5
<1>. DEFINE g == [x \in D |-> f[x]]
<1>7. \A x \in D : g[x] = IF stop[x] THEN base[x] ELSE g[next[x]]
  <2>. SUFFICES ASSUME NEW x \in D PROVE g[x] = IF stop[x] THEN base[x] ELSE g[next[x]]
    OBVIOUS
  <2>1. ~stop[x] => next[x] \in D
    OBVIOUS
  <2>2. ~stop[x] => g[next[x]] = f[next[x]]
    BY <2>1
  <2>3. g[x] = f[x]
    OBVIOUS
  <2>. HIDE DEF g
  <2>. QED BY <1>6, <2>2, <2>3
<1>8. g = [x \in D |-> g[x]]
  OBVIOUS
<1>. HIDE DEF g
<1>9. IsTail(g, D, stop, base, next)
  BY <1>7, <1>8 DEF IsTail
<1>. QED BY <1>9

BoundsOf(n) == [lo : 1..(n + 1), hi : 0..n, idx : 0..n]
MidOf(at) == (at.lo + at.hi) \div 2
After(at) == [lo |-> MidOf(at) + 1, hi |-> at.hi, idx |-> MidOf(at)]
Before(at) == [lo |-> at.lo, hi |-> MidOf(at) - 1, idx |-> at.idx]
StartsBy(s, i, t) == Morning(s[i].start) <= t
IsBinary(f, s, t) ==
  f = [at \in BoundsOf(Len(s)) |->
         IF at.lo > at.hi THEN at.idx
         ELSE IF StartsBy(s, MidOf(at), t) THEN f[After(at)] ELSE f[Before(at)]]

LEMMA Halves ==
  ASSUME NEW n \in Nat, NEW at \in BoundsOf(n), ~(at.lo > at.hi)
  PROVE  /\ at.lo \in Nat /\ at.hi \in Nat /\ at.lo <= at.hi /\ at.hi <= n /\ at.lo >= 1
         /\ MidOf(at) \in at.lo..at.hi
         /\ After(at) \in BoundsOf(n) /\ Before(at) \in BoundsOf(n)
         /\ After(at).lo = MidOf(at) + 1 /\ After(at).hi = at.hi /\ After(at).idx = MidOf(at)
         /\ Before(at).lo = at.lo /\ Before(at).hi = MidOf(at) - 1 /\ Before(at).idx = at.idx
<1>1. /\ at.lo \in 1..(n + 1) /\ at.hi \in 0..n /\ at.idx \in 0..n
  BY DEF BoundsOf
<1>2. MidOf(at) \in at.lo..at.hi
  BY <1>1 DEF MidOf
<1>3. /\ After(at).lo = MidOf(at) + 1 /\ After(at).hi = at.hi /\ After(at).idx = MidOf(at)
      /\ Before(at).lo = at.lo /\ Before(at).hi = MidOf(at) - 1 /\ Before(at).idx = at.idx
  BY DEF After, Before
<1>4. MidOf(at) + 1 \in 1..(n + 1) /\ MidOf(at) \in 0..n /\ MidOf(at) - 1 \in 0..n
  BY <1>1, <1>2
<1>5. After(at) \in BoundsOf(n)
  BY <1>1, <1>4 DEF After, BoundsOf
<1>6. Before(at) \in BoundsOf(n)
  BY <1>1, <1>4 DEF Before, BoundsOf
<1>. QED BY <1>1, <1>2, <1>3, <1>5, <1>6

LEMMA BinaryExists ==
  ASSUME NEW s, Len(s) \in Nat, NEW t
  PROVE  \E f : IsBinary(f, s, t)
<1>. DEFINE n == Len(s)
            D == BoundsOf(n)
            stop == [at \in D |-> at.lo > at.hi]
            base == [at \in D |-> at.idx]
            next == [at \in D |-> IF StartsBy(s, MidOf(at), t) THEN After(at) ELSE Before(at)]
            w == [at \in D |-> IF at.lo > at.hi THEN 0 ELSE at.hi - at.lo + 1]
<1>1. n \in Nat
  OBVIOUS
<1>2. \A at \in D : at.lo \in 1..(n + 1) /\ at.hi \in 0..n
  BY DEF BoundsOf
<1>3. \A at \in D : w[at] \in 0..n
  BY <1>1, <1>2
<1>4. ASSUME NEW at \in D, ~(at.lo > at.hi)
      PROVE  next[at] \in D /\ w[next[at]] < w[at]
  <2>. DEFINE a == After(at)
              b == Before(at)
  <2>1. /\ at.lo \in Nat /\ at.hi \in Nat /\ at.lo <= at.hi
        /\ MidOf(at) \in at.lo..at.hi
        /\ a \in D /\ b \in D
        /\ a.lo = MidOf(at) + 1 /\ a.hi = at.hi
        /\ b.lo = at.lo /\ b.hi = MidOf(at) - 1
    BY <1>1, <1>4, Halves
  <2>2. w[at] = at.hi - at.lo + 1
    BY <1>4
  <2>3. w[a] = IF a.lo > a.hi THEN 0 ELSE a.hi - a.lo + 1
    BY <2>1
  <2>4. w[b] = IF b.lo > b.hi THEN 0 ELSE b.hi - b.lo + 1
    BY <2>1
  <2>5. next[at] = a \/ next[at] = b
    OBVIOUS
  <2>. HIDE DEF w, a, b, D, next
  <2>6. w[a] < w[at] /\ w[b] < w[at]
    BY <2>1, <2>2, <2>3, <2>4
  <2>. QED BY <2>1, <2>5, <2>6
<1>5. \A at \in D : stop[at] \/ (next[at] \in D /\ w[next[at]] < w[at])
  <2>1. \A at \in D : stop[at] = (at.lo > at.hi)
    OBVIOUS
  <2>. HIDE DEF stop, next, w, D
  <2>. QED BY <1>4, <2>1
<1>6. PICK f : IsTail(f, D, stop, base, next)
  <2>. HIDE DEF stop, base, next, w, D, n
  <2>. QED BY <1>1, <1>3, <1>5, TailRecursion
<1>7. ASSUME NEW at \in D
      PROVE  f[at] = IF at.lo > at.hi THEN at.idx
                     ELSE IF StartsBy(s, MidOf(at), t) THEN f[After(at)] ELSE f[Before(at)]
  <2>1. f[at] = IF stop[at] THEN base[at] ELSE f[next[at]]
    <3>. HIDE DEF stop, base, next, D
    <3>. QED BY <1>6 DEF IsTail
  <2>2. stop[at] = (at.lo > at.hi) /\ base[at] = at.idx
        /\ next[at] = IF StartsBy(s, MidOf(at), t) THEN After(at) ELSE Before(at)
    OBVIOUS
  <2>. HIDE DEF stop, base, next, D
  <2>. QED BY <2>1, <2>2
<1>8. f = [at \in D |-> f[at]]
  <2>. HIDE DEF stop, base, next, D
  <2>. QED BY <1>6 DEF IsTail
<1>. HIDE DEF stop, base, next
<1>9. IsBinary(f, s, t)
  BY <1>7, <1>8 DEF IsBinary
<1>. QED BY <1>9

\* Up to some period they all start by then, and after it none does.
LEMMA SearchFinds ==
  ASSUME NEW s, Len(s) \in Nat, NEW t,
         \A i, j \in 1..Len(s) : i < j /\ StartsBy(s, j, t) => StartsBy(s, i, t)
  PROVE  /\ bucketIndexOf(s, t) \in 0..Len(s)
         /\ \A i \in 1..Len(s) : StartsBy(s, i, t) <=> i <= bucketIndexOf(s, t)
<1>. DEFINE n == Len(s)
            search == CHOOSE f : IsBinary(f, s, t)
            Start == [lo |-> 1, hi |-> n, idx |-> 0]
            Right(k) == k \in 0..n /\ \A i \in 1..n : StartsBy(s, i, t) <=> i <= k
            Within(at) == /\ at.lo <= at.hi + 1 /\ at.idx = at.lo - 1
                          /\ \A i \in 1..n : (i < at.lo => StartsBy(s, i, t))
                                             /\ (i > at.hi => ~StartsBy(s, i, t))
            Wide(at, k) == at.hi - at.lo + 1 <= k
            Good == {k \in Nat : \A at \in BoundsOf(n) :
                                   Within(at) /\ Wide(at, k) => Right(search[at])}
<1>1. bucketIndexOf(s, t) = search[Start]
  BY DEF bucketIndexOf, IsBinary, BoundsOf, MidOf, After, Before, StartsBy
<1>2. IsBinary(search, s, t)
  <2>1. \E f : IsBinary(f, s, t)
    BY BinaryExists
  <2>. QED BY <2>1
<1>. HIDE DEF search
<1>3. \A at \in BoundsOf(n) :
         search[at] = IF at.lo > at.hi THEN at.idx
                      ELSE IF StartsBy(s, MidOf(at), t) THEN search[After(at)]
                      ELSE search[Before(at)]
  BY <1>2 DEF IsBinary
<1>4. n \in Nat
  OBVIOUS
<1>5. ASSUME NEW at \in BoundsOf(n), Within(at), at.lo > at.hi
      PROVE  Right(search[at])
  <2>1. at.lo \in 1..(n + 1) /\ at.hi \in 0..n /\ at.idx \in 0..n
    BY DEF BoundsOf
  <2>2. search[at] = at.idx
    BY <1>3, <1>5
  <2>3. at.idx = at.hi /\ at.lo = at.hi + 1
    BY <1>5, <2>1
  <2>. QED BY <1>4, <1>5, <2>1, <2>2, <2>3
<1>. HIDE DEF n, Right
<1>6. ASSUME NEW at \in BoundsOf(n), Within(at), ~(at.lo > at.hi), NEW k \in Good, Wide(at, k + 1)
      PROVE  Right(search[at])
  <2>. DEFINE m == MidOf(at)
              a == After(at)
              b == Before(at)
  <2>1. /\ at.lo \in Nat /\ at.hi \in Nat /\ at.lo <= at.hi /\ at.hi <= n /\ at.lo >= 1
        /\ m \in at.lo..at.hi
        /\ a \in BoundsOf(n) /\ b \in BoundsOf(n)
        /\ a.lo = m + 1 /\ a.hi = at.hi /\ a.idx = m
        /\ b.lo = at.lo /\ b.hi = m - 1 /\ b.idx = at.idx
    BY <1>4, <1>6, Halves
  <2>2. search[at] = IF StartsBy(s, m, t) THEN search[a] ELSE search[b]
    BY <1>3, <1>6
  <2>. HIDE DEF m, a, b
  <2>3. m \in 1..n /\ m \in Nat /\ k \in Nat
    BY <1>4, <2>1
  <2>4. CASE StartsBy(s, m, t)
    <3>1. \A i \in 1..n : i < a.lo => StartsBy(s, i, t)
      BY <2>1, <2>3, <2>4 DEF n
    <3>2. Within(a)
      BY <1>6, <2>1, <2>3, <3>1
    <3>3. Wide(a, k)
      BY <1>6, <2>1, <2>3
    <3>4. Right(search[a])
      BY <2>1, <3>2, <3>3
    <3>. QED BY <2>2, <2>4, <3>4
  <2>5. CASE ~StartsBy(s, m, t)
    <3>1. \A i \in 1..n : i > b.hi => ~StartsBy(s, i, t)
      BY <2>1, <2>3, <2>5 DEF n
    <3>2. Within(b)
      BY <1>6, <2>1, <2>3, <3>1
    <3>3. Wide(b, k)
      BY <1>6, <2>1, <2>3
    <3>4. Right(search[b])
      BY <2>1, <3>2, <3>3
    <3>. QED BY <2>2, <2>5, <3>4
  <2>. QED BY <2>4, <2>5
<1>7. 0 \in Good
  <2>. SUFFICES ASSUME NEW at \in BoundsOf(n), Within(at), Wide(at, 0)
                PROVE  Right(search[at])
    OBVIOUS
  <2>1. at.lo \in 1..(n + 1) /\ at.hi \in 0..n
    BY DEF BoundsOf
  <2>2. at.lo > at.hi
    BY <1>4, <2>1
  <2>. QED BY <1>5, <2>2
<1>8. ASSUME NEW k \in Good
      PROVE  k + 1 \in Good
  <2>1. \A at \in BoundsOf(n) : Within(at) /\ Wide(at, k + 1) => Right(search[at])
    <3>. HIDE DEF Good, Within, Wide
    <3>. QED BY <1>5, <1>6
  <2>2. k + 1 \in Nat
    OBVIOUS
  <2>. QED BY <2>1, <2>2
<1>9. Good = Nat
  <2>. HIDE DEF Good
  <2>1. Good \in SUBSET Nat
    BY DEF Good
  <2>. QED BY <1>7, <1>8, <2>1, NatSteps
<1>10. Right(search[Start])
  <2>1. Start \in BoundsOf(n) /\ Start.lo = 1 /\ Start.hi = n /\ Start.idx = 0
    BY <1>4 DEF BoundsOf
  <2>2. n \in Good
    <3>. HIDE DEF Good
    <3>. QED BY <1>4, <1>9
  <2>. HIDE DEF Start
  <2>3. Within(Start) /\ Wide(Start, n)
    BY <1>4, <2>1
  <2>. QED BY <2>1, <2>2, <2>3
<1>. QED BY <1>1, <1>10 DEF Right, n


-----------------------------------------------------------------------------
(* The buckets of a range *)

LEMMA DatesAre ==
  ASSUME NEW from \in DateWindow, NEW to \in DateWindow
  PROVE  /\ from \in Nat /\ to \in Nat /\ from \in Int /\ to \in Int
         /\ \A d \in from..to : d \in InCalendar
<1>1. from \in Nat /\ to \in Nat /\ to < FirstOf[Months]
  BY ClientsReportAssumption DEF Months
<1>2. FirstOf[Months] \in Nat
  BY Calendar
<1>. QED BY <1>1, <1>2 DEF InCalendar

LEMMA BlockEnds ==
  ASSUME NEW b, NEW d, b # "day", b # "week"
  PROVE  TimelineCut(b, d) =
           [end |-> lastDayOfMonth(BlockOf(d, MonthsIn[b]) + MonthsIn[b] - 1),
            next |-> FirstOf[BlockOf(d, MonthsIn[b]) + MonthsIn[b]]]
BY DEF TimelineCut

LEMMA BlockCut ==
  ASSUME NEW d \in InCalendar, NEW b \in DOMAIN MonthsIn
  PROVE  \E f \in 0..Months :
           /\ TimelineCut(b, d).end = FirstOf[f] - 1 /\ TimelineCut(b, d).next = FirstOf[f]
           /\ d < FirstOf[f] /\ f % MonthsIn[b] = 0
<1>. DEFINE n == MonthsIn[b]
            m == MonthOf(d)
            first == BlockOf(d, n)
            f == first + n
<1>1. /\ m \in 0..(Months - 1) /\ m + 1 \in 0..Months /\ d < FirstOf[m + 1]
  BY MonthIs
<1>2. /\ n \in {1, 3, 6, 12} /\ first \in 0..m /\ m < f /\ f \in 0..Months /\ f % n = 0
  BY <1>1, BlocksAre DEF BlockOf
<1>3. b # "day" /\ b # "week"
  BY DEF MonthsIn
<1>4. TimelineCut(b, d) = [end |-> lastDayOfMonth(first + n - 1), next |-> FirstOf[f]]
  BY <1>3, BlockEnds
<1>8. f = first + n
  OBVIOUS
<1>. HIDE DEF n, m, f, first
<1>5. Months \in Nat /\ m \in Nat /\ f \in Nat /\ d \in Nat /\ m + 1 <= f
      /\ first + n - 1 = f - 1
  BY <1>1, <1>2, <1>8, Calendar DEF InCalendar
<1>6. lastDayOfMonth(first + n - 1) = FirstOf[f] - 1
  <2>1. (f - 1) + 1 = f
    BY <1>5
  <2>. QED BY <1>5, <2>1 DEF lastDayOfMonth
<1>7. d < FirstOf[f]
  <2>1. FirstOf[m + 1] \in Nat /\ FirstOf[f] \in Nat
    BY <1>1, <1>2, Calendar
  <2>2. FirstOf[m + 1] <= FirstOf[f]
    BY <1>1, <1>2, <1>5, <2>1, MonthsFollow
  <2>. QED BY <1>1, <1>5, <2>1, <2>2
<1>. QED BY <1>2, <1>4, <1>6, <1>7 DEF n

TimelineCuts(from, to, b) == [d \in from..to |-> TimelineCut(b, d)]
PeriodCuts(from, to, b) == [d \in from..to |-> PeriodCut(b, d)]

LEMMA TimelineCutsOn ==
  ASSUME NEW from \in DateWindow, NEW to \in DateWindow,
         NEW b \in {"day", "week"} \cup DOMAIN MonthsIn
  PROVE  CutsOn(TimelineCuts(from, to, b), from, to)
<1>. SUFFICES ASSUME NEW d \in from..to
              PROVE  LET c == TimelineCut(b, d)
                     IN c.end \in Int /\ d <= c.end /\ c.next = c.end + 1
  BY DEF CutsOn, TimelineCuts
<1>1. d \in InCalendar /\ d \in Nat
  BY DatesAre DEF InCalendar
<1>2. CASE b = "day"
  <2>1. TimelineCut(b, d) = [end |-> d, next |-> d + 1]
    BY <1>2 DEF TimelineCut
  <2>. QED BY <1>1, <2>1
<1>3. CASE b = "week"
  <2>1. TimelineCut(b, d) = [end |-> d + 6, next |-> d + 7]
    BY <1>3 DEF TimelineCut
  <2>. QED BY <1>1, <2>1
<1>4. CASE b \in DOMAIN MonthsIn
  <2>1. PICK f \in 0..Months :
          /\ TimelineCut(b, d).end = FirstOf[f] - 1 /\ TimelineCut(b, d).next = FirstOf[f]
          /\ d < FirstOf[f]
    BY <1>1, <1>4, BlockCut
  <2>2. FirstOf[f] \in Nat
    BY Calendar
  <2>. QED BY <1>1, <2>1, <2>2
<1>. QED BY <1>2, <1>3, <1>4

LEMMA PeriodCutsOn ==
  ASSUME NEW from \in DateWindow, NEW to \in DateWindow, NEW b \in {"week", "half", "month"}
  PROVE  CutsOn(PeriodCuts(from, to, b), from, to)
<1>. SUFFICES ASSUME NEW d \in from..to
              PROVE  LET c == PeriodCut(b, d)
                     IN c.end \in Int /\ d <= c.end /\ c.next = c.end + 1
  BY DEF CutsOn, PeriodCuts
<1>1. d \in InCalendar /\ d \in Nat
  BY DatesAre DEF InCalendar
<1>2. CASE b = "week"
  <2>1. PeriodCut(b, d) = [end |-> d + 6, next |-> d + 7]
    BY <1>2 DEF PeriodCut, TimelineCut
  <2>. QED BY <1>1, <2>1
<1>3. CASE b # "week"
  <2>. DEFINE m == MonthOf(d)
              half_ == b = "half" /\ DayOfMonth(d) <= HalfMonth
              last == IF half_ THEN FirstOf[m] + HalfMonth - 1 ELSE lastDayOfMonth(m)
  <2>1. PeriodCut(b, d) = [end |-> last, next |-> last + 1]
    BY <1>3 DEF PeriodCut
  <2>2. /\ m \in 0..(Months - 1) /\ m + 1 \in 0..Months
        /\ FirstOf[m] <= d /\ d < FirstOf[m + 1]
    BY <1>1, MonthIs
  <2>3. FirstOf[m] \in Nat /\ FirstOf[m + 1] \in Nat /\ HalfMonth \in Nat
    <3>1. m \in 0..Months
      BY <2>2, Calendar
    <3>. QED BY <2>2, <3>1, Calendar
  <2>4. half_ => d - FirstOf[m] + 1 <= HalfMonth
    BY DEF DayOfMonth
  <2>5. lastDayOfMonth(m) = FirstOf[m + 1] - 1
    BY DEF lastDayOfMonth
  <2>. HIDE DEF m, half_
  <2>6. last \in Int /\ d <= last
    BY <1>1, <2>2, <2>3, <2>4, <2>5
  <2>. HIDE DEF last
  <2>. QED BY <2>1, <2>6
<1>. QED BY <1>2, <1>3

\* The bucket that the search finds for something of a day is the one of that day.
LEMMA BucketOfDay ==
  ASSUME NEW s, NEW cut, NEW from \in Int, NEW to \in Int, Covers(s, cut, from, to),
         NEW d \in from..to, NEW t \in {Morning(d), Night(d)}
  PROVE  d \in DaysOf(s[bucketIndexOf(s, t)])
<1>. DEFINE n == Len(s)
            r == bucketIndexOf(s, t)
<1>1. n \in Nat \ {0} /\ d \in Int /\ from <= d /\ d <= to
  BY DEF Covers
<1>2. \A i \in 1..n : s[i].start \in Int /\ s[i].end \in Int /\ s[i].start <= s[i].end
  <2>. SUFFICES ASSUME NEW i \in 1..n
                PROVE  s[i].start \in Int /\ s[i].end \in Int /\ s[i].start <= s[i].end
    OBVIOUS
  <2>1. s[i] \in PeriodRow /\ s[i].start <= s[i].end
    BY <1>1 DEF Covers
  <2>. QED BY <2>1 DEF PeriodRow
<1>3. \A i \in 1..n : StartsBy(s, i, t) <=> s[i].start <= d
  <2>. SUFFICES ASSUME NEW i \in 1..n PROVE StartsBy(s, i, t) <=> s[i].start <= d
    OBVIOUS
  <2>1. s[i].start \in Int
    BY <1>2
  <2>2. t = 3 * d \/ t = 3 * d + 2
    BY DEF Morning, Night
  <2>. QED BY <1>1, <2>1, <2>2 DEF StartsBy, Morning
<1>4. ASSUME NEW i \in 1..n, NEW j \in 1..n, i < j, StartsBy(s, j, t)
      PROVE  StartsBy(s, i, t)
  <2>1. s[i].end < s[j].start
    BY <1>4, CoversOrder
  <2>2. s[j].start <= d
    BY <1>3, <1>4
  <2>3. /\ s[i].start \in Int /\ s[i].end \in Int /\ s[i].start <= s[i].end
        /\ s[j].start \in Int
    BY <1>2
  <2>4. s[i].start <= d
    BY <1>1, <2>1, <2>2, <2>3
  <2>. QED BY <1>3, <2>4
<1>5. r \in 0..n /\ \A i \in 1..n : StartsBy(s, i, t) <=> i <= r
  BY <1>1, <1>4, SearchFinds
<1>. HIDE DEF r
<1>6. /\ s[1].start = from /\ s[n].end = to
      /\ \A i \in 2..n : s[i].start = s[i - 1].end + 1
  BY DEF Covers
<1>. HIDE DEF n
<1>7. r \in 1..n /\ s[r].start <= d
  <2>1. 1 \in 1..n /\ StartsBy(s, 1, t)
    BY <1>1, <1>3, <1>6
  <2>2. r \in 1..n
    BY <1>1, <1>5, <2>1
  <2>. QED BY <1>3, <1>5, <2>2
<1>8. d <= s[r].end
  <2>1. CASE r = n
    BY <1>1, <1>6, <2>1
  <2>2. CASE r # n
    <3>. DEFINE k == r + 1
    <3>1. k \in 1..n /\ k \in 2..n /\ k - 1 = r /\ ~(k <= r)
      BY <1>1, <1>7, <2>2
    <3>. HIDE DEF k
    <3>2. ~(s[k].start <= d) /\ s[k].start = s[r].end + 1
      BY <1>3, <1>5, <1>6, <3>1
    <3>. QED BY <1>1, <1>2, <1>7, <3>1, <3>2
  <2>. QED BY <2>1, <2>2
<1>9. s[r].start \in Int /\ s[r].end \in Int
  BY <1>2, <1>7
<1>. QED BY <1>1, <1>7, <1>8, <1>9 DEF DaysOf, r

\* A bucket of months starts with the first day of one of its blocks.
LEMMA BlocksStart ==
  ASSUME NEW from \in DateWindow, NEW to \in DateWindow, NEW b \in DOMAIN MonthsIn,
         NEW x \in from..to, NEW start, start <= to, start = TimelineCut(b, x).next
  PROVE  DayOfMonth(start) = 1 /\ MonthOf(start) % MonthsIn[b] = 0
<1>1. x \in InCalendar /\ to \in Nat /\ to < FirstOf[Months] /\ Months \in Nat
  BY DatesAre, ClientsReportAssumption, Calendar DEF Months
<1>2. PICK f \in 0..Months : start = FirstOf[f] /\ f % MonthsIn[b] = 0
  BY <1>1, BlockCut
<1>3. FirstOf[f] \in Nat /\ FirstOf[Months] \in Nat
  BY <1>1, Calendar
<1>4. start \in InCalendar /\ f # Months
  BY <1>1, <1>2, <1>3 DEF InCalendar
<1>5. f + 1 \in 0..Months /\ f + 1 \in 1..Months /\ (f + 1) - 1 = f
  BY <1>1, <1>4
<1>6. FirstOf[f] < FirstOf[f + 1]
  <2>1. FirstOf[f + 1] > FirstOf[(f + 1) - 1] + HalfMonth /\ HalfMonth \in Nat
    BY <1>5, Calendar
  <2>2. FirstOf[f + 1] \in Nat
    BY <1>5, Calendar
  <2>. QED BY <1>3, <1>5, <2>1, <2>2
<1>7. FirstOf[f] <= start /\ start < FirstOf[f + 1]
  BY <1>2, <1>3, <1>6
<1>8. f = MonthOf(start)
  BY <1>4, <1>5, <1>7, MonthIsOne
<1>9. start - FirstOf[f] + 1 = 1
  BY <1>2, <1>3
<1>. QED BY <1>2, <1>8, <1>9 DEF DayOfMonth

LEMMA BucketsDoTile ==
  BucketsTile
<1>. SUFFICES ASSUME NEW from \in DateWindow, NEW to \in DateWindow, to >= from
              PROVE  /\ \A b \in {"day", "week"} \cup DOMAIN MonthsIn :
                          LET buckets == generateTimelineBuckets(from, to, b) IN
                          /\ Tiles(buckets, from, to)
                          /\ \A d \in from..to : \A t \in {Morning(d), Night(d)} :
                               d \in DaysOf(buckets[bucketIndexOf(buckets, t)])
                          /\ b \in DOMAIN MonthsIn => \A i \in 2..Len(buckets) :
                               DayOfMonth(buckets[i].start) = 1
                               /\ MonthOf(buckets[i].start) % MonthsIn[b] = 0
                     /\ \A b \in {"week", "half", "month"} :
                          Tiles(generateBucketPeriods(from, to, b), from, to)
  BY DEF BucketsTile
<1>1. from \in Int /\ to \in Int /\ from <= to
  BY DatesAre
<1>2. ASSUME NEW b \in {"day", "week"} \cup DOMAIN MonthsIn
      PROVE  LET buckets == generateTimelineBuckets(from, to, b) IN
             /\ Tiles(buckets, from, to)
             /\ \A d \in from..to : \A t \in {Morning(d), Night(d)} :
                  d \in DaysOf(buckets[bucketIndexOf(buckets, t)])
             /\ b \in DOMAIN MonthsIn => \A i \in 2..Len(buckets) :
                  DayOfMonth(buckets[i].start) = 1
                  /\ MonthOf(buckets[i].start) % MonthsIn[b] = 0
  <2>. DEFINE cut == TimelineCuts(from, to, b)
              s == generateTimelineBuckets(from, to, b)
  <2>1. s = Cover(cut, from, to)
    BY DEF generateTimelineBuckets, TimelineCuts
  <2>2. CutsOn(cut, from, to)
    BY TimelineCutsOn
  <2>3. \A d \in from..to : cut[d] = TimelineCut(b, d)
    BY DEF TimelineCuts
  <2>. HIDE DEF cut, s
  <2>4. Covers(s, cut, from, to)
    BY <1>1, <2>1, <2>2, CoverCovers
  <2>5. Tiles(s, from, to)
    BY <1>1, <2>4, CoversTile
  <2>6. \A d \in from..to : \A t \in {Morning(d), Night(d)} : d \in DaysOf(s[bucketIndexOf(s, t)])
    BY <1>1, <2>4, BucketOfDay
  <2>7. ASSUME b \in DOMAIN MonthsIn, NEW i \in 2..Len(s)
        PROVE  DayOfMonth(s[i].start) = 1 /\ MonthOf(s[i].start) % MonthsIn[b] = 0
    <3>1. PICK x \in from..to : s[i].start = cut[x].next
      BY <2>4 DEF Covers
    <3>2. s[i].start <= to
      <4>1. Len(s) \in Nat /\ i \in 1..Len(s)
        BY <2>4 DEF Covers
      <4>2. /\ s[i] \in PeriodRow /\ s[i].start <= s[i].end /\ s[i].end <= to
        BY <2>4, <4>1 DEF Covers
      <4>3. s[i].start \in Int /\ s[i].end \in Int
        BY <4>2 DEF PeriodRow
      <4>. QED BY <1>1, <4>2, <4>3
    <3>3. s[i].start = TimelineCut(b, x).next
      BY <2>3, <3>1
    <3>. QED BY <2>7, <3>2, <3>3, BlocksStart
  <2>. QED BY <2>5, <2>6, <2>7 DEF s
<1>3. ASSUME NEW b \in {"week", "half", "month"}
      PROVE  Tiles(generateBucketPeriods(from, to, b), from, to)
  <2>. DEFINE cut == PeriodCuts(from, to, b)
  <2>1. generateBucketPeriods(from, to, b) = Cover(cut, from, to)
    BY DEF generateBucketPeriods, PeriodCuts
  <2>2. CutsOn(cut, from, to)
    BY PeriodCutsOn
  <2>. HIDE DEF cut
  <2>3. Covers(Cover(cut, from, to), cut, from, to)
    BY <1>1, <2>2, CoverCovers
  <2>. QED BY <1>1, <2>1, <2>3, CoversTile
<1>. QED BY <1>2, <1>3


-----------------------------------------------------------------------------
(* The periods of a granularity *)

LEMMA MonthsInOrder ==
  ASSUME NEW m \in 0..Months, NEW n \in 0..Months, m <= n
  PROVE  FirstOf[m] <= FirstOf[n]
<1>1. FirstOf[m] + (n - m) <= FirstOf[n] /\ FirstOf[m] \in Nat /\ FirstOf[n] \in Nat
  BY MonthsFollow, Calendar
<1>2. n - m \in Nat
  OBVIOUS
<1>. QED BY <1>1, <1>2

LEMMA RowsAreSequences ==
  ASSUME NEW S, NEW n \in Nat, NEW f \in [1..n -> S]
  PROVE  f \in Seq(S) /\ Len(f) = n /\ DOMAIN f = 1..n
<1>1. f \in Seq(S)
  BY SeqDef
<1>2. DOMAIN f = 1..n
  OBVIOUS
<1>. QED BY <1>1, <1>2, LenProperties

\* Each starts the day after the one before.
InARow(f, n) ==
  /\ f \in [1..n -> PeriodRow]
  /\ \A i \in 1..n : f[i].start <= f[i].end
  /\ \A i \in 2..n : f[i].start = f[i - 1].end + 1

LEMMA RowsTile ==
  ASSUME NEW n \in Nat \ {0}, NEW f, InARow(f, n)
  PROVE  Len(f) = n /\ Tiles(f, f[1].start, f[n].end)
<1>1. Len(f) = n /\ DOMAIN f = 1..n
  BY RowsAreSequences DEF InARow
<1>. QED BY <1>1 DEF InARow, Tiles

Today == day \in FirstDay..LastDay

LEMMA TodayIs ==
  ASSUME Today
  PROVE  /\ day \in InCalendar /\ day \in Nat /\ FirstDay \in InCalendar
         /\ MonthOf(FirstDay) <= MonthOf(day)
         /\ MonthOf(FirstDay) \in 0..(Months - 1)
<1>1. /\ day \in Nat /\ FirstDay \in Nat /\ FirstDay <= day /\ day <= LastDay
      /\ LastDay \in Nat /\ LastDay < FirstOf[Months] /\ FirstOf[Months] \in Nat
  BY ClientsReportAssumption, Calendar DEF Today, Months
<1>2. day \in InCalendar /\ FirstDay \in InCalendar
  BY <1>1 DEF InCalendar
<1>. QED BY <1>1, <1>2, MonthsGrow, MonthIs

\* The arithmetic of the blocks, whose lengths are four.
LEMMA BlockNumbers ==
  ASSUME NEW n \in {1, 3, 6, 12}, NEW j \in Nat, NEW q \in Nat, j <= q
  PROVE  /\ j * n \in Nat /\ (j + 1) * n = j * n + n
         /\ j * n + n <= q * n + n /\ n \in Nat \ {0}
<1>1. CASE n = 1
  BY <1>1
<1>2. CASE n = 3
  BY <1>2
<1>3. CASE n = 6
  BY <1>3
<1>4. CASE n = 12
  BY <1>4
<1>. QED BY <1>1, <1>2, <1>3, <1>4

LEMMA BlocksReach ==
  ASSUME NEW n \in {1, 3, 6, 12}, NEW m \in Nat, NEW count \in Nat, (count - 1) * n <= m
  PROVE  count - 1 <= m \div n
<1>1. CASE n = 1
  BY <1>1
<1>2. CASE n = 3
  BY <1>2
<1>3. CASE n = 6
  BY <1>3
<1>4. CASE n = 12
  BY <1>4
<1>. QED BY <1>1, <1>2, <1>3, <1>4

LEMMA BlocksInARow ==
  ASSUME Today, NEW g \in DOMAIN MonthsIn
  PROVE  LET n == GRANULARITY_COUNT[g]
             f == MonthBlocks(g, MonthsIn[g])
         IN n \in Nat \ {0} /\ InARow(f, n) /\ f[n].start <= day /\ day <= f[n].end
<1>. DEFINE count == GRANULARITY_COUNT[g]
            n == MonthsIn[g]
            m == MonthOf(day)
            q == m \div n
            first(i) == (q - (count - i)) * n
            f == MonthBlocks(g, n)
<1>1. /\ count \in Nat \ {0} /\ (count - 1) * n <= MonthOf(FirstDay)
  BY ClientsReportAssumption
<1>2. /\ m \in 0..(Months - 1) /\ m + 1 \in 0..Months /\ MonthOf(FirstDay) <= m
      /\ FirstOf[m] <= day /\ day < FirstOf[m + 1] /\ day \in Nat
      /\ MonthOf(FirstDay) \in 0..(Months - 1) /\ Months \in Nat
  BY TodayIs, MonthIs, Calendar
<1>3. /\ n \in {1, 3, 6, 12} /\ q * n \in 0..m /\ m < q * n + n /\ q * n + n \in 0..Months
      /\ q \in Nat
  BY <1>2, BlocksAre
<1>4. f = [i \in 1..count |-> Period(FirstOf[first(i)], lastDayOfMonth(first(i) + n - 1))]
  BY DEF MonthBlocks
<1>. HIDE DEF f, q, n, m, count
<1>5. count - 1 <= q
  <2>1. (count - 1) * n <= m
    <3>1. (count - 1) * n \in Int
      BY <1>1, <1>3
    <3>. QED BY <1>1, <1>2, <3>1
  <2>. QED BY <1>1, <1>2, <1>3, <2>1, BlocksReach DEF q
<1>6. ASSUME NEW i \in 1..count
      PROVE  /\ first(i) \in Nat /\ first(i) \in 0..Months /\ first(i) + n \in 0..Months
             /\ FirstOf[first(i)] \in Nat /\ FirstOf[first(i) + n] \in Nat
             /\ FirstOf[first(i)] < FirstOf[first(i) + n]
             /\ f[i] = [start |-> FirstOf[first(i)], end |-> FirstOf[first(i) + n] - 1]
             /\ i # 1 => first(i) = first(i - 1) + n
  <2>. DEFINE j == q - (count - i)
              a == j * n
  <2>1. j \in Nat /\ j <= q
    BY <1>1, <1>3, <1>5
  <2>2. a \in Nat /\ a + n <= q * n + n /\ n \in Nat \ {0}
    BY <1>3, <2>1, BlockNumbers
  <2>3. i # 1 => first(i) = first(i - 1) + n
    <3>. SUFFICES ASSUME i # 1 PROVE first(i) = first(i - 1) + n
      OBVIOUS
    <3>. DEFINE h == q - (count - (i - 1))
    <3>1. h \in Nat /\ h <= q /\ j = h + 1
      BY <1>1, <1>3, <1>5
    <3>. HIDE DEF h, j
    <3>2. (h + 1) * n = h * n + n
      BY <1>3, <3>1, BlockNumbers
    <3>. QED BY <3>1, <3>2 DEF h, j
  <2>4. first(i) = a
    OBVIOUS
  <2>. HIDE DEF j, a, first
  <2>5. a \in 0..Months /\ a + n \in 0..Months /\ a < a + n
    BY <1>2, <1>3, <2>2
  <2>6. FirstOf[a] \in Nat /\ FirstOf[a + n] \in Nat
    BY <2>5, Calendar
  <2>7. FirstOf[a] < FirstOf[a + n]
    <3>1. FirstOf[a] + (a + n - a) <= FirstOf[a + n]
      BY <2>5, MonthsFollow, <2>2
    <3>. QED BY <2>2, <2>6, <3>1
  <2>8. lastDayOfMonth(a + n - 1) = FirstOf[a + n] - 1
    <3>1. (a + n - 1) + 1 = a + n
      BY <2>2
    <3>. QED BY <3>1 DEF lastDayOfMonth
  <2>9. f[i] = [start |-> FirstOf[a], end |-> FirstOf[a + n] - 1]
    BY <1>4, <2>4, <2>8 DEF Period
  <2>. QED BY <2>2, <2>3, <2>4, <2>5, <2>6, <2>7, <2>9
<1>9. ASSUME NEW i \in 1..count
      PROVE  /\ f[i].start = FirstOf[first(i)] /\ f[i].end = FirstOf[first(i) + n] - 1
             /\ FirstOf[first(i) + n] \in Nat /\ (i # 1 => first(i) = first(i - 1) + n)
  <2>1. /\ f[i] = [start |-> FirstOf[first(i)], end |-> FirstOf[first(i) + n] - 1]
        /\ FirstOf[first(i) + n] \in Nat /\ (i # 1 => first(i) = first(i - 1) + n)
    BY <1>6
  <2>. HIDE DEF first
  <2>. QED BY <2>1
<1>7. InARow(f, count)
  <2>1. \A i \in 1..count : f[i] \in PeriodRow /\ f[i].start <= f[i].end
    <3>. SUFFICES ASSUME NEW i \in 1..count PROVE f[i] \in PeriodRow /\ f[i].start <= f[i].end
      OBVIOUS
    <3>. DEFINE x == FirstOf[first(i)]
                y == FirstOf[first(i) + n]
    <3>1. x \in Nat /\ y \in Nat /\ x < y /\ f[i] = [start |-> x, end |-> y - 1]
      BY <1>6
    <3>. HIDE DEF x, y
    <3>. QED BY <3>1 DEF PeriodRow
  <2>2. ASSUME NEW i \in 2..count
        PROVE  f[i].start = f[i - 1].end + 1
    <3>. DEFINE h == i - 1
                x == FirstOf[first(i)]
                y == FirstOf[first(h) + n]
    <3>1. i \in 1..count /\ h \in 1..count /\ i # 1
      BY <1>1
    <3>. HIDE DEF first
    <3>2. f[i].start = x /\ first(i) = first(i - 1) + n
      BY <1>9, <3>1
    <3>. HIDE DEF h
    <3>3. f[h].end = y - 1 /\ y \in Nat
      BY <1>9, <3>1
    <3>4. x = y
      BY <3>2 DEF h
    <3>. HIDE DEF x, y
    <3>. QED BY <3>2, <3>3, <3>4 DEF h
  <2>3. f \in [1..count -> PeriodRow]
    <3>1. f = [i \in 1..count |-> f[i]]
      BY <1>4
    <3>. HIDE DEF first
    <3>. QED BY <2>1, <3>1
  <2>. QED BY <2>1, <2>2, <2>3 DEF InARow
<1>8. f[count].start <= day /\ day <= f[count].end
  <2>. DEFINE a == first(count)
  <2>1. a = q * n /\ count \in 1..count
    BY <1>1, <1>3
  <2>2. /\ a \in Nat /\ a \in 0..Months /\ a + n \in 0..Months
        /\ FirstOf[a] \in Nat /\ FirstOf[a + n] \in Nat
        /\ f[count] = [start |-> FirstOf[a], end |-> FirstOf[a + n] - 1]
    BY <1>6, <2>1
  <2>. HIDE DEF a
  <2>3. /\ a <= m /\ m + 1 <= a + n /\ m \in 0..Months
        /\ FirstOf[m] \in Nat /\ FirstOf[m + 1] \in Nat
    <3>1. m \in 0..Months
      BY <1>2
    <3>. QED BY <1>2, <1>3, <2>1, <3>1, Calendar
  <2>4. FirstOf[a] <= FirstOf[m]
    <3>1. FirstOf[a] + (m - a) <= FirstOf[m]
      BY <2>2, <2>3, MonthsFollow
    <3>. QED BY <1>2, <2>2, <2>3, <3>1
  <2>5. FirstOf[m + 1] <= FirstOf[a + n]
    BY <1>2, <2>2, <2>3, MonthsInOrder
  <2>. QED BY <1>2, <2>2, <2>3, <2>4, <2>5
<1>. QED BY <1>1, <1>7, <1>8 DEF f, count, n


\* The half months, numbered from the first of the calendar.
HalfStart(k) == FirstOf[k \div 2] + (IF k % 2 = 0 THEN 0 ELSE HalfMonth)
HalfOf(k) == [m |-> k \div 2, half |-> (k % 2) + 1]
HalfPeriod(b) ==
  IF b.half = 1 THEN Period(FirstOf[b.m], FirstOf[b.m] + HalfMonth - 1)
  ELSE Period(FirstOf[b.m] + HalfMonth, lastDayOfMonth(b.m))
HalfToday ==
  [m |-> MonthOf(day), half |-> IF DayOfMonth(day) <= HalfMonth THEN 1 ELSE 2]
HalfBefore(later) == [m |-> later.m - (later.half % 2), half |-> 3 - later.half]
IsBack(f, first, count) ==
  f = [i \in 0..count |-> IF i = 0 THEN first ELSE HalfBefore(f[i - 1])]

LEMMA HalvesGoBack ==
  ASSUME NEW k \in Int
  PROVE  HalfBefore(HalfOf(k)) = HalfOf(k - 1)
<1>1. CASE k % 2 = 0
  <2>1. (k - 1) \div 2 = k \div 2 - 1 /\ (k - 1) % 2 = 1 /\ k \div 2 \in Int
    BY <1>1
  <2>. QED BY <1>1, <2>1 DEF HalfBefore, HalfOf
<1>2. CASE k % 2 = 1
  <2>1. (k - 1) \div 2 = k \div 2 /\ (k - 1) % 2 = 0 /\ k \div 2 \in Int
    BY <1>2
  <2>. QED BY <1>2, <2>1 DEF HalfBefore, HalfOf
<1>. QED BY <1>1, <1>2

LEMMA BackIs ==
  ASSUME NEW last \in Int, NEW count \in Nat, NEW f, f = CHOOSE g : IsBack(g, HalfOf(last), count)
  PROVE  \A i \in 0..count : f[i] = HalfOf(last - i)
<1>. DEFINE g == [i \in 0..count |-> HalfOf(last - i)]
            Good == {i \in Nat : i <= count => f[i] = HalfOf(last - i)}
<1>1. IsBack(g, HalfOf(last), count)
  <2>1. \A i \in 0..count : g[i] = IF i = 0 THEN HalfOf(last) ELSE HalfBefore(g[i - 1])
    <3>. SUFFICES ASSUME NEW i \in 0..count
                  PROVE  g[i] = IF i = 0 THEN HalfOf(last) ELSE HalfBefore(g[i - 1])
      OBVIOUS
    <3>1. CASE i = 0
      <4>1. last - 0 = last /\ g[0] = HalfOf(last - 0)
        OBVIOUS
      <4>. QED BY <3>1, <4>1
    <3>2. CASE i # 0
      <4>1. i - 1 \in 0..count /\ last - (i - 1) \in Int /\ last - (i - 1) - 1 = last - i
        BY <3>2
      <4>2. g[i] = HalfOf(last - i) /\ g[i - 1] = HalfOf(last - (i - 1))
        BY <4>1
      <4>. HIDE DEF g
      <4>3. HalfBefore(HalfOf(last - (i - 1))) = HalfOf(last - (i - 1) - 1)
        BY <4>1, HalvesGoBack
      <4>. QED BY <3>2, <4>1, <4>2, <4>3
    <3>. QED BY <3>1, <3>2
  <2>2. g = [i \in 0..count |-> g[i]]
    OBVIOUS
  <2>. HIDE DEF g
  <2>. QED BY <2>1, <2>2 DEF IsBack
<1>2. IsBack(f, HalfOf(last), count)
  BY <1>1
<1>. HIDE DEF g
<1>3. \A i \in 0..count : f[i] = IF i = 0 THEN HalfOf(last) ELSE HalfBefore(f[i - 1])
  BY <1>2 DEF IsBack
<1>4. 0 \in Good
  <2>1. last - 0 = last
    OBVIOUS
  <2>. QED BY <1>3, <2>1
<1>5. ASSUME NEW k \in Good
      PROVE  k + 1 \in Good
  <2>1. k \in Nat
    OBVIOUS
  <2>. SUFFICES ASSUME k + 1 <= count PROVE f[k + 1] = HalfOf(last - (k + 1))
    BY <2>1
  <2>2. f[k] = HalfOf(last - k)
    BY <2>1
  <2>3. k + 1 \in 0..count /\ k + 1 # 0 /\ (k + 1) - 1 = k /\ last - k \in Int
        /\ last - k - 1 = last - (k + 1)
    BY <2>1
  <2>4. f[k + 1] = HalfBefore(f[k])
    BY <1>3, <2>3
  <2>5. HalfBefore(HalfOf(last - k)) = HalfOf(last - k - 1)
    BY <2>3, HalvesGoBack
  <2>. QED BY <2>2, <2>3, <2>4, <2>5
<1>6. Good = Nat
  <2>. HIDE DEF Good
  <2>1. Good \in SUBSET Nat
    BY DEF Good
  <2>. QED BY <1>4, <1>5, <2>1, NatSteps
<1>. QED BY <1>6

LEMMA HalfPeriodIs ==
  ASSUME NEW k \in Nat, k \div 2 \in 0..(Months - 1)
  PROVE  /\ HalfPeriod(HalfOf(k)) = [start |-> HalfStart(k), end |-> HalfStart(k + 1) - 1]
         /\ HalfStart(k) \in Nat /\ HalfStart(k + 1) \in Nat /\ HalfStart(k) < HalfStart(k + 1)
<1>. DEFINE m == k \div 2
<1>1. m \in Nat /\ m \in 0..Months /\ m + 1 \in 0..Months /\ m + 1 \in 1..Months /\ (m + 1) - 1 = m
  BY Calendar
<1>2. /\ FirstOf[m] \in Nat /\ FirstOf[m + 1] \in Nat /\ HalfMonth \in Nat \ {0}
      /\ FirstOf[m + 1] > FirstOf[(m + 1) - 1] + HalfMonth
  BY <1>1, Calendar
<1>3. FirstOf[m + 1] > FirstOf[m] + HalfMonth
  BY <1>1, <1>2
<1>4. HalfOf(k).m = m /\ HalfOf(k).half = (k % 2) + 1
  BY DEF HalfOf
<1>5. lastDayOfMonth(m) = FirstOf[m + 1] - 1
  BY DEF lastDayOfMonth
<1>6. CASE k % 2 = 0
  <2>1. (k + 1) \div 2 = m /\ (k + 1) % 2 = 1
    BY <1>6
  <2>. HIDE DEF m
  <2>2. HalfStart(k) = FirstOf[m] /\ HalfStart(k + 1) = FirstOf[m] + HalfMonth
    BY <1>2, <1>6, <2>1 DEF HalfStart, m
  <2>3. HalfPeriod(HalfOf(k)) = [start |-> FirstOf[m], end |-> FirstOf[m] + HalfMonth - 1]
    BY <1>4, <1>6 DEF HalfPeriod, Period
  <2>. QED BY <1>2, <2>2, <2>3
<1>7. CASE k % 2 = 1
  <2>1. (k + 1) \div 2 = m + 1 /\ (k + 1) % 2 = 0
    BY <1>7
  <2>. HIDE DEF m
  <2>2. HalfStart(k) = FirstOf[m] + HalfMonth /\ HalfStart(k + 1) = FirstOf[m + 1]
    BY <1>2, <1>7, <2>1 DEF HalfStart, m
  <2>3. HalfPeriod(HalfOf(k)) = [start |-> FirstOf[m] + HalfMonth, end |-> FirstOf[m + 1] - 1]
    BY <1>4, <1>5, <1>7 DEF HalfPeriod, Period
  <2>. QED BY <1>2, <1>3, <2>2, <2>3
<1>. QED BY <1>6, <1>7

LEMMA HalvesInARow ==
  ASSUME Today
  PROVE  LET n == GRANULARITY_COUNT["half"]
         IN /\ n \in Nat \ {0} /\ InARow(HalfMonths, n)
            /\ HalfMonths[n].start <= day /\ day <= HalfMonths[n].end
<1>. DEFINE count == GRANULARITY_COUNT["half"]
            m == MonthOf(day)
            last == 2 * m + (IF DayOfMonth(day) <= HalfMonth THEN 0 ELSE 1)
            back == CHOOSE g : IsBack(g, HalfToday, count)
            f == HalfMonths
<1>1. /\ count \in Nat \ {0} /\ count - 1 <= 2 * MonthOf(FirstDay)
  BY ClientsReportAssumption
<1>2. /\ m \in 0..(Months - 1) /\ m + 1 \in 0..Months /\ MonthOf(FirstDay) <= m
      /\ FirstOf[m] <= day /\ day < FirstOf[m + 1] /\ day \in Nat
      /\ MonthOf(FirstDay) \in 0..(Months - 1) /\ Months \in Nat
  BY TodayIs, MonthIs, Calendar
<1>3. f = [i \in 1..count |-> HalfPeriod(back[count - i])]
  BY DEF HalfMonths, HalfPeriod, IsBack, HalfToday, HalfBefore
<1>4. DayOfMonth(day) = day - FirstOf[m] + 1 /\ FirstOf[m] \in Nat /\ HalfMonth \in Nat
  <2>1. m \in 0..Months
    BY <1>2
  <2>. QED BY <2>1, Calendar DEF DayOfMonth
<1>. HIDE DEF m
<1>5. last \in Nat /\ last \div 2 = m /\ last % 2 = (IF DayOfMonth(day) <= HalfMonth THEN 0 ELSE 1)
  BY <1>2
<1>. HIDE DEF last
<1>6. HalfToday = HalfOf(last)
  BY <1>5 DEF HalfToday, HalfOf, m
<1>7. \A i \in 0..count : back[i] = HalfOf(last - i)
  <2>1. back = CHOOSE g : IsBack(g, HalfOf(last), count)
    BY <1>6
  <2>. HIDE DEF back, count
  <2>. QED BY <1>1, <1>5, <2>1, BackIs
<1>. HIDE DEF back, f, count
<1>8. ASSUME NEW i \in 1..count
      PROVE  LET k == last - (count - i)
             IN /\ k \in Nat /\ k <= last /\ HalfStart(k) \in Nat /\ HalfStart(k + 1) \in Nat
                /\ HalfStart(k) < HalfStart(k + 1)
                /\ f[i] = [start |-> HalfStart(k), end |-> HalfStart(k + 1) - 1]
  <2>. DEFINE k == last - (count - i)
  <2>1. count - i \in 0..count /\ last >= count - 1 /\ k \in Nat /\ k <= last
    <3>1. last >= 2 * m
      BY <1>2, <1>5 DEF last
    <3>. QED BY <1>1, <1>2, <1>5, <3>1
  <2>2. f[i] = HalfPeriod(HalfOf(k))
    BY <1>3, <1>7, <2>1
  <2>. HIDE DEF k
  <2>3. k \div 2 \in 0..(Months - 1)
    BY <1>2, <1>5, <2>1
  <2>4. /\ HalfPeriod(HalfOf(k)) = [start |-> HalfStart(k), end |-> HalfStart(k + 1) - 1]
        /\ HalfStart(k) \in Nat /\ HalfStart(k + 1) \in Nat /\ HalfStart(k) < HalfStart(k + 1)
    BY <2>1, <2>3, HalfPeriodIs
  <2>. QED BY <2>1, <2>2, <2>4 DEF k
<1>9. ASSUME NEW i \in 1..count
      PROVE  /\ f[i].start = HalfStart(last - (count - i))
             /\ f[i].end = HalfStart(last - (count - i) + 1) - 1
             /\ f[i].start \in Int /\ f[i].end \in Int /\ f[i].start <= f[i].end
             /\ f[i] \in PeriodRow
  <2>. DEFINE x == HalfStart(last - (count - i))
              y == HalfStart(last - (count - i) + 1)
  <2>1. x \in Nat /\ y \in Nat /\ x < y /\ f[i] = [start |-> x, end |-> y - 1]
    BY <1>8
  <2>. HIDE DEF x, y
  <2>2. /\ f[i].start = x /\ f[i].end = y - 1 /\ f[i].start \in Int /\ f[i].end \in Int
        /\ f[i].start <= f[i].end /\ f[i] \in PeriodRow
    BY <2>1 DEF PeriodRow
  <2>. QED BY <2>2 DEF x, y
<1>10. InARow(f, count)
  <2>1. ASSUME NEW i \in 2..count
        PROVE  f[i].start = f[i - 1].end + 1
    <3>. DEFINE h == i - 1
                x == HalfStart(last - (count - i))
    <3>1. i \in 1..count /\ h \in 1..count /\ last - (count - h) + 1 = last - (count - i)
      BY <1>1, <1>5
    <3>. HIDE DEF h
    <3>2. f[i].start = x /\ f[i].start \in Int
      BY <1>9, <3>1
    <3>3. f[h].end = HalfStart(last - (count - h) + 1) - 1
      BY <1>9, <3>1
    <3>4. f[h].end = x - 1
      BY <3>1, <3>3
    <3>. HIDE DEF x
    <3>5. f[i].start = f[h].end + 1
      BY <3>2, <3>4
    <3>. QED BY <3>5 DEF h
  <2>2. f \in [1..count -> PeriodRow]
    <3>1. f = [i \in 1..count |-> f[i]]
      BY <1>3
    <3>. QED BY <1>9, <3>1
  <2>. QED BY <1>9, <2>1, <2>2 DEF InARow
<1>11. f[count].start <= day /\ day <= f[count].end
  <2>1. count \in 1..count /\ last - (count - count) = last
    BY <1>1, <1>5
  <2>2. f[count].start = HalfStart(last) /\ f[count].end = HalfStart(last + 1) - 1
    BY <1>9, <2>1
  <2>3. FirstOf[m + 1] \in Nat
    BY <1>2, Calendar
  <2>4. CASE DayOfMonth(day) <= HalfMonth
    <3>1. last % 2 = 0 /\ (last + 1) \div 2 = m /\ (last + 1) % 2 = 1
      BY <1>5, <2>4
    <3>2. HalfStart(last) = FirstOf[m] /\ HalfStart(last + 1) = FirstOf[m] + HalfMonth
      BY <1>4, <1>5, <3>1 DEF HalfStart
    <3>. QED BY <1>2, <1>4, <2>2, <2>4, <3>2
  <2>5. CASE ~(DayOfMonth(day) <= HalfMonth)
    <3>1. last % 2 = 1 /\ (last + 1) \div 2 = m + 1 /\ (last + 1) % 2 = 0
      BY <1>5, <2>5
    <3>2. HalfStart(last) = FirstOf[m] + HalfMonth /\ HalfStart(last + 1) = FirstOf[m + 1]
      BY <1>4, <1>5, <2>3, <3>1 DEF HalfStart
    <3>. QED BY <1>2, <1>4, <2>2, <2>3, <2>5, <3>2
  <2>. QED BY <2>4, <2>5
<1>. QED BY <1>1, <1>10, <1>11 DEF f, count

\* The periods that a report shows are in a row and the last one has today.
LEMMA PeriodsAreInARow ==
  ASSUME Today, NEW g \in Granularity
  PROVE  LET periods == generateGranularityPeriods(g)
             n == Len(periods)
         IN /\ n \in Nat \ {0} /\ InARow(periods, n)
            /\ periods[n].start <= day /\ day <= periods[n].end
<1>. DEFINE periods == generateGranularityPeriods(g)
            n == GRANULARITY_COUNT[g]
<1>1. g = "half" \/ g \in DOMAIN MonthsIn
  BY ClientsReportAssumption DEF Granularity
<1>2. "half" \notin DOMAIN MonthsIn
  BY DEF MonthsIn
<1>3. n \in Nat \ {0} /\ InARow(periods, n) /\ periods[n].start <= day /\ day <= periods[n].end
  <2>1. CASE g = "half"
    <3>1. periods = HalfMonths
      BY <2>1 DEF generateGranularityPeriods
    <3>. HIDE DEF periods
    <3>. QED BY <2>1, <3>1, HalvesInARow
  <2>2. CASE g \in DOMAIN MonthsIn
    <3>1. periods = MonthBlocks(g, MonthsIn[g])
      BY <1>2, <2>2 DEF generateGranularityPeriods
    <3>. HIDE DEF periods
    <3>. QED BY <2>2, <3>1, BlocksInARow
  <2>. QED BY <1>1, <2>1, <2>2
<1>. HIDE DEF periods, n
<1>4. Len(periods) = n
  BY <1>3, RowsTile
<1>. QED BY <1>3, <1>4 DEF periods

LEMMA TheyReachToday ==
  ASSUME Today
  PROVE  PeriodsReachToday
<1>. SUFFICES ASSUME NEW g \in Granularity
              PROVE  LET periods == generateGranularityPeriods(g)
                         last == periods[Len(periods)]
                     IN Tiles(periods, periods[1].start, last.end) /\ day \in DaysOf(last)
  BY DEF PeriodsReachToday
<1>. DEFINE periods == generateGranularityPeriods(g)
            n == Len(periods)
<1>1. /\ n \in Nat \ {0} /\ InARow(periods, n)
      /\ periods[n].start <= day /\ day <= periods[n].end
  BY PeriodsAreInARow
<1>. HIDE DEF periods
<1>2. Tiles(periods, periods[1].start, periods[n].end)
  BY <1>1, RowsTile
<1>3. periods[n] \in PeriodRow /\ day \in Nat
  BY <1>1, TodayIs DEF InARow
<1>4. day \in DaysOf(periods[n])
  BY <1>1, <1>3 DEF DaysOf, PeriodRow
<1>. QED BY <1>2, <1>4 DEF periods

-----------------------------------------------------------------------------
(* Who is lost, and who joined *)

\* The last appointment by an instant is the greatest of those.
LEMMA LastAppointmentIs ==
  ASSUME visits \subseteq Nat, NEW at \in Int,
         NEW relevant, relevant = {t \in appointments : t <= at}, relevant # {}
  PROVE  Max(relevant) \in relevant /\ \A t \in relevant : t <= Max(relevant)
<1>. DEFINE Distances == {n \in Nat : \E t \in relevant : n = at - t}
<1>1. \A t \in relevant : t \in Int /\ t <= at
  BY DEF appointments, During
<1>2. Distances \in SUBSET Nat /\ Distances # {}
  <2>1. PICK t \in relevant : TRUE
    OBVIOUS
  <2>2. at - t \in Distances
    BY <1>1, <2>1
  <2>. QED BY <2>2
<1>3. PICK n \in Distances : \A k \in Distances : n <= k
  <2>. HIDE DEF Distances
  <2>. QED BY <1>2, LeastNat
<1>4. PICK t \in relevant : n = at - t
  BY <1>3
<1>5. \A u \in relevant : t >= u
  <2>. TAKE u \in relevant
  <2>1. at - u \in Distances /\ u \in Int /\ t \in Int
    BY <1>1
  <2>. HIDE DEF Distances
  <2>. QED BY <1>1, <1>3, <1>4, <2>1
<1>6. \E x \in relevant : \A u \in relevant : x >= u
  BY <1>5
<1>7. Max(relevant) \in relevant /\ \A u \in relevant : Max(relevant) >= u
  BY <1>6 DEF Max
<1>. QED BY <1>1, <1>7

\* A client is lost when it had appointments, the last of them too long ago.
LEMMA WhoIsLost ==
  ASSUME visits \subseteq Nat, NEW at \in Int
  PROVE  isChurnedAt(at) <=>
           /\ \E t \in appointments : t <= at
           /\ \A t \in appointments : t <= at => t < at - ChurnWindow
<1>. DEFINE relevant == {t \in appointments : t <= at}
            last == Max(relevant)
<1>1. /\ ChurnWindow \in Int
      /\ \A t \in appointments : t \in Int
  BY ClientsReportAssumption DEF ChurnWindow, appointments, During
<1>2. CASE relevant = {}
  <2>1. ~isChurnedAt(at)
    BY <1>2 DEF isChurnedAt
  <2>. QED BY <1>2, <2>1
<1>3. CASE relevant # {}
  <2>1. last \in relevant /\ \A t \in relevant : t <= last
    <3>1. relevant = {t \in appointments : t <= at}
      OBVIOUS
    <3>. HIDE DEF relevant
    <3>. QED BY <1>3, <3>1, LastAppointmentIs
  <2>2. isChurnedAt(at) <=> last < at - ChurnWindow
    BY <1>3 DEF isChurnedAt
  <2>. HIDE DEF last
  <2>3. last \in appointments /\ last <= at /\ last \in Int
    BY <1>1, <2>1
  <2>4. ASSUME last < at - ChurnWindow, NEW t \in appointments, t <= at
        PROVE  t < at - ChurnWindow
    <3>1. t <= last /\ t \in Int
      BY <1>1, <2>1, <2>4
    <3>. QED BY <1>1, <2>3, <2>4, <3>1
  <2>. QED BY <2>2, <2>3, <2>4
<1>. QED BY <1>2, <1>3

\* The appointment that a client was lost after is the end of a streak.
LEMMA LostOnADay ==
  ASSUME visits \subseteq Nat, NEW a \in Int, NEW b \in Int
  PROVE  churnedInPeriod(Morning(a), Night(b)) <=>
           \E d \in a..b : ~isChurnedAt(Night(d - 1)) /\ isChurnedAt(Night(d))
<1>. DEFINE K == CHURN_WINDOW_DAYS
<1>1. /\ K \in Nat /\ K >= 1
      /\ ChurnWindow = 3 * K
  BY ClientsReportAssumption DEF ChurnWindow
<1>2. \A t \in appointments : \E v \in Nat : t = 3 * v + 1
  BY DEF appointments, During
<1>. HIDE DEF K
<1>3. ASSUME churnedInPeriod(Morning(a), Night(b))
      PROVE  \E d \in a..b : ~isChurnedAt(Night(d - 1)) /\ isChurnedAt(Night(d))
  <2>1. PICK t \in appointments :
          /\ \A u \in appointments : u > t => u > t + 3 * K
          /\ 3 * a <= t + 3 * K /\ t + 3 * K <= 3 * b + 2
    BY <1>1, <1>3 DEF churnedInPeriod, Morning, Night
  <2>2. PICK v \in Nat : t = 3 * v + 1
    BY <1>2
  <2>. DEFINE d == v + K
  <2>3. d \in a..b /\ d \in Int /\ d - 1 \in Int
    BY <1>1, <2>1, <2>2
  <2>4. /\ Night(d) = 3 * d + 2 /\ Night(d - 1) = 3 * d - 1
        /\ Night(d) \in Int /\ Night(d - 1) \in Int
    BY <2>3 DEF Night
  <2>5. isChurnedAt(Night(d))
    <3>1. t <= Night(d)
      BY <1>1, <2>2, <2>4
    <3>2. ASSUME NEW u \in appointments, u <= Night(d)
          PROVE  u < Night(d) - 3 * K
      <4>1. PICK w \in Nat : u = 3 * w + 1
        BY <1>2
      <4>2. u > t => u > t + 3 * K
        BY <2>1
      <4>. QED BY <1>1, <2>2, <2>4, <3>2, <4>1, <4>2
    <3>. HIDE DEF d
    <3>. QED BY <1>1, <2>4, <3>1, <3>2, WhoIsLost
  <2>6. ~isChurnedAt(Night(d - 1))
    <3>1. t <= Night(d - 1) /\ ~(t < Night(d - 1) - 3 * K)
      BY <1>1, <2>2, <2>4
    <3>. HIDE DEF d
    <3>. QED BY <1>1, <2>4, <3>1, WhoIsLost
  <2>. HIDE DEF d
  <2>. QED BY <2>3, <2>5, <2>6
<1>4. ASSUME NEW d \in a..b, ~isChurnedAt(Night(d - 1)), isChurnedAt(Night(d))
      PROVE  churnedInPeriod(Morning(a), Night(b))
  <2>1. /\ Night(d) = 3 * d + 2 /\ Night(d - 1) = 3 * d - 1
        /\ Night(d) \in Int /\ Night(d - 1) \in Int /\ d \in Int
    BY DEF Night
  <2>2. /\ \E t \in appointments : t <= 3 * d + 2
        /\ \A t \in appointments : t <= 3 * d + 2 => t < 3 * d + 2 - 3 * K
    BY <1>1, <1>4, <2>1, WhoIsLost
  <2>3. ~( /\ \E t \in appointments : t <= 3 * d - 1
           /\ \A t \in appointments : t <= 3 * d - 1 => t < 3 * d - 1 - 3 * K)
    BY <1>1, <1>4, <2>1, WhoIsLost
  <2>4. PICK x \in appointments : x <= 3 * d + 2
    BY <2>2
  <2>5. x <= 3 * d - 1
    <3>1. x < 3 * d + 2 - 3 * K /\ x \in Int
      BY <1>2, <2>2, <2>4
    <3>. QED BY <1>1, <2>1, <3>1
  <2>6. PICK t \in appointments : t <= 3 * d - 1 /\ ~(t < 3 * d - 1 - 3 * K)
    BY <2>3, <2>5
  <2>7. PICK v \in Nat : t = 3 * v + 1
    BY <1>2
  <2>8. t < 3 * d + 2 - 3 * K
    BY <2>1, <2>2, <2>6, <2>7
  <2>9. v + K = d
    BY <1>1, <2>1, <2>6, <2>7, <2>8
  <2>10. ASSUME NEW u \in appointments, u > t
         PROVE  u > t + 3 * K
    <3>1. PICK w \in Nat : u = 3 * w + 1
      BY <1>2
    <3>2. u <= 3 * d + 2 => u < 3 * d + 2 - 3 * K
      BY <2>2
    <3>. QED BY <1>1, <2>1, <2>7, <2>9, <2>10, <3>1, <3>2
  <2>11. 3 * a <= t + 3 * K /\ t + 3 * K <= 3 * b + 2
    BY <1>1, <2>1, <2>7, <2>9
  <2>. QED BY <1>1, <2>10, <2>11 DEF churnedInPeriod, Morning, Night
<1>. QED BY <1>3, <1>4

LEMMA NotActiveAndLost ==
  ASSUME visits \subseteq Nat, NEW at \in Int
  PROVE  ~(isActiveAt(at) /\ isChurnedAt(at))
<1>. SUFFICES ASSUME isActiveAt(at), isChurnedAt(at) PROVE FALSE
  OBVIOUS
<1>1. /\ ActiveWindow \in Int /\ ChurnWindow \in Int /\ ActiveWindow <= ChurnWindow
  BY ClientsReportAssumption DEF ActiveWindow, ChurnWindow
<1>2. PICK t \in appointments : at - ActiveWindow < t /\ t <= at
  BY DEF isActiveAt
<1>3. t < at - ChurnWindow /\ t \in Int
  BY <1>2, WhoIsLost DEF appointments, During
<1>. QED BY <1>1, <1>2, <1>3

\* A day between the first and the last of some periods in a row is in one of them.
LEMMA RowHas ==
  ASSUME NEW n \in Nat \ {0}, NEW f, InARow(f, n),
         NEW v \in Int, f[1].start <= v, v <= f[n].end
  PROVE  \E i \in 1..n : f[i].start <= v /\ v <= f[i].end
<1>. DEFINE Reaches == {i \in Nat : i \in 1..n /\ v <= f[i].end}
<1>1. PICK i \in Reaches : \A j \in Reaches : i <= j
  <2>1. Reaches \in SUBSET Nat /\ n \in Reaches
    OBVIOUS
  <2>. HIDE DEF Reaches
  <2>. QED BY <2>1, LeastNat
<1>2. CASE i = 1
  BY <1>1, <1>2
<1>3. CASE i # 1
  <2>1. i \in 2..n /\ i - 1 \in 1..n /\ ~(i <= i - 1)
    BY <1>3
  <2>2. i - 1 \notin Reaches
    BY <1>1, <2>1
  <2>3. ~(v <= f[i - 1].end) /\ f[i].start = f[i - 1].end + 1 /\ f[i - 1] \in PeriodRow
    BY <2>1, <2>2 DEF InARow
  <2>4. f[i].start <= v
    BY <2>3 DEF PeriodRow
  <2>. QED BY <2>1, <2>4
<1>. QED BY <1>2, <1>3

LEMMA JoinedOnADay ==
  ASSUME ReportsTypeOK, NEW t \in {firstAppointment, registered} \ {Unset}
  PROVE  \E v \in Nat : t = During(v)
<1>1. Birth \subseteq Nat /\ visits \subseteq Nat /\ since \in Birth
      /\ firstVisit \in Nat \cup {Unset}
  BY ClientsReportAssumption DEF ReportsTypeOK
<1>2. CASE t = registered
  BY <1>1, <1>2 DEF registered
<1>3. CASE t = firstAppointment /\ firstVisit # Unset
  BY <1>1, <1>3 DEF firstAppointment
<1>4. CASE t = firstAppointment /\ firstVisit = Unset
  <2>1. visits # {} /\ t = Min(appointments)
    BY <1>4 DEF firstAppointment
  <2>2. appointments \in SUBSET Nat /\ appointments # {}
    <3>1. \A d \in visits : During(d) \in Nat
      BY <1>1 DEF During
    <3>2. PICK d \in visits : TRUE
      BY <2>1
    <3>. QED BY <3>1, <3>2 DEF appointments
  <2>3. PICK n \in appointments : \A k \in appointments : n <= k
    BY <2>2, LeastNat
  <2>4. Min(appointments) \in appointments
    BY <2>3 DEF Min
  <2>. QED BY <1>1, <2>1, <2>4 DEF appointments
<1>. QED BY <1>2, <1>3, <1>4

LEMMA NewAreJoined ==
  ASSUME ReportsTypeOK, NEW n \in Nat \ {0}, NEW f, InARow(f, n), day <= f[n].end,
         isNewAt(During(day)), Morning(f[1].start) <= During(day) - ActiveWindow
  PROVE  \E i \in 1..n : joinedInPeriod(Morning(f[i].start), Night(f[i].end))
<1>1. PICK t \in {firstAppointment, registered} \ {Unset} :
        During(day) - ActiveWindow < t /\ t <= During(day)
  BY DEF isNewAt
<1>2. PICK v \in Nat : t = During(v)
  BY JoinedOnADay
<1>3. day \in Int /\ \A i \in 1..n : f[i] \in PeriodRow /\ f[i].start \in Int /\ f[i].end \in Int
  BY TodayIs DEF ReportsTypeOK, Today, InARow, PeriodRow
<1>4. 1 \in 1..n /\ n \in 1..n /\ ActiveWindow \in Int
  BY ClientsReportAssumption DEF ActiveWindow
<1>5. f[1].start <= v /\ v <= f[n].end
  <2>1. f[1].start \in Int /\ f[n].end \in Int
    BY <1>3, <1>4
  <2>2. 3 * f[1].start <= (3 * day + 1) - ActiveWindow
    BY DEF Morning, During
  <2>3. (3 * day + 1) - ActiveWindow < 3 * v + 1 /\ 3 * v + 1 <= 3 * day + 1
    BY <1>1, <1>2 DEF During
  <2>4. f[1].start <= v
    BY <1>3, <1>4, <2>1, <2>2, <2>3
  <2>5. v <= day
    BY <1>3, <2>3
  <2>. QED BY <1>3, <2>1, <2>4, <2>5
<1>6. PICK i \in 1..n : f[i].start <= v /\ v <= f[i].end
  BY <1>5, RowHas
<1>7. Morning(f[i].start) <= t /\ t <= Night(f[i].end)
  <2>1. f[i].start \in Int /\ f[i].end \in Int
    BY <1>3
  <2>. QED BY <1>2, <1>6, <2>1 DEF Morning, Night, During
<1>. QED BY <1>7 DEF joinedInPeriod

LEMMA TheTrendIsTrue ==
  ASSUME ReportsTypeOK
  PROVE  TrendIsTrue
<1>1. visits \subseteq Nat /\ Today /\ day \in Int
  BY ClientsReportAssumption DEF ReportsTypeOK, Today
<1>2. ~(isActiveAt(During(day)) /\ isChurnedAt(During(day)))
  BY <1>1, NotActiveAndLost DEF During
<1>3. ASSUME NEW g \in Granularity
      PROVE  LET periods == generateGranularityPeriods(g)
                 trend == Trend(periods)
             IN /\ \A i \in DOMAIN periods :
                     trend[i].churned =
                       \E d \in DaysOf(periods[i]) :
                         ~isChurnedAt(Night(d - 1)) /\ isChurnedAt(Night(d))
                /\ isNewAt(During(day)) /\ Morning(periods[1].start) <= During(day) - ActiveWindow =>
                     \E i \in DOMAIN periods : trend[i].joined
  <2>. DEFINE periods == generateGranularityPeriods(g)
              n == Len(periods)
              from(i) == Morning(periods[i].start)
              to(i) == Night(periods[i].end)
              trend == Trend(periods)
  <2>1. n \in Nat \ {0} /\ InARow(periods, n) /\ day <= periods[n].end
    BY <1>1, PeriodsAreInARow
  <2>. HIDE DEF periods, n
  <2>2. /\ DOMAIN periods = 1..n
        /\ \A i \in 1..n : periods[i].start \in Int /\ periods[i].end \in Int
    BY <2>1 DEF InARow, PeriodRow
  <2>3. \A i \in 1..n :
          /\ trend[i].churned = churnedInPeriod(from(i), to(i))
          /\ trend[i].joined = joinedInPeriod(from(i), to(i))
    BY <2>2 DEF Trend
  <2>4. ASSUME NEW i \in 1..n
        PROVE  trend[i].churned =
                 \E d \in DaysOf(periods[i]) : ~isChurnedAt(Night(d - 1)) /\ isChurnedAt(Night(d))
    <3>. DEFINE a == periods[i].start
                b == periods[i].end
                becomes == \E d \in a..b : ~isChurnedAt(Night(d - 1)) /\ isChurnedAt(Night(d))
    <3>1. a \in Int /\ b \in Int
      BY <2>2
    <3>. HIDE DEF a, b
    <3>2. churnedInPeriod(Morning(a), Night(b)) <=> becomes
      BY <1>1, <3>1, LostOnADay
    <3>3. churnedInPeriod(Morning(a), Night(b)) \in BOOLEAN /\ becomes \in BOOLEAN
      BY DEF churnedInPeriod
    <3>4. trend[i].churned = churnedInPeriod(Morning(a), Night(b))
      BY <2>3 DEF a, b
    <3>. HIDE DEF trend
    <3>5. trend[i].churned = becomes
      BY <3>2, <3>3, <3>4
    <3>. QED BY <3>5 DEF DaysOf, a, b
  <2>5. ASSUME isNewAt(During(day)), Morning(periods[1].start) <= During(day) - ActiveWindow
        PROVE  \E i \in 1..n : trend[i].joined
    <3>1. PICK i \in 1..n : joinedInPeriod(from(i), to(i))
      BY <2>1, <2>5, NewAreJoined
    <3>2. trend[i].joined
      BY <2>3, <3>1
    <3>. QED BY <3>2
  <2>. HIDE DEF trend
  <2>6. QED
    BY <2>2, <2>4, <2>5 DEF trend, periods
<1>. QED BY <1>2, <1>3 DEF TrendIsTrue

LEMMA TypeIsAgreement == ReportsTypeOK => ClientsReportAgrees
<1>. SUFFICES ASSUME ReportsTypeOK PROVE ClientsReportAgrees
  OBVIOUS
<1>1. Today
  BY DEF ReportsTypeOK, Today
<1>. QED BY <1>1, BucketsDoTile, TheyReachToday, TheTrendIsTrue DEF ClientsReportAgrees

LEMMA ReportsStart == ReportsInit => ReportsTypeOK
BY ClientsReportAssumption DEF ReportsInit, ReportsTypeOK

LEMMA ReportsKeepOn == ReportsTypeOK /\ [ReportsNext]_clientVars => ReportsTypeOK'
<1>. SUFFICES ASSUME ReportsTypeOK, [ReportsNext]_clientVars PROVE ReportsTypeOK'
  OBVIOUS
<1>. USE DEF ReportsTypeOK
<1>1. ASSUME NEW d \in DateWindow, BookVisit(d)
      PROVE  ReportsTypeOK'
  BY <1>1 DEF BookVisit
<1>2. ASSUME NEW d \in DateWindow, RemoveVisit(d)
      PROVE  ReportsTypeOK'
  BY <1>2 DEF RemoveVisit
<1>3. CASE PassDay
  BY <1>3, ClientsReportAssumption DEF PassDay
<1>4. CASE UNCHANGED clientVars
  BY <1>4 DEF clientVars
<1>. QED BY <1>1, <1>2, <1>3, <1>4 DEF ReportsNext

\* What the owner reads of the clients agrees with itself, whatever the calendar,
\* the windows and the appointments are: the buckets of a range and the periods of
\* a granularity tile the days, the search finds the bucket of a charge, the last
\* period has today, and the trend counts as lost and as joined whom the cards do.
THEOREM ReportsStayTrue == DeskSpec => []ReportsAgree
<1>1. DeskInit => ReportsTypeOK
  BY ReportsStart DEF DeskInit
<1>2. ReportsTypeOK /\ [DeskNext]_deskVars => ReportsTypeOK'
  <2>1. [DeskNext]_deskVars => [ReportsNext]_clientVars
    BY DEF DeskNext, deskVars
  <2>. QED BY <2>1, ReportsKeepOn
<1>3. ReportsTypeOK => ReportsAgree
  BY TypeIsAgreement DEF ReportsAgree
<1>. QED BY <1>1, <1>2, <1>3, PTL DEF DeskSpec

=============================================================================
