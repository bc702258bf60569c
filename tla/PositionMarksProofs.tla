------------------------- MODULE PositionMarksProofs -------------------------
(***************************************************************************)
(* What holds of PositionMarks.tla for any positions, prices, limits,      *)
(* handlers under way at a time, and bounds.                               *)
(***************************************************************************)
EXTENDS PositionMarks, TLAPS

-----------------------------------------------------------------------------
(* Types *)

(* A handler that holds a row has seen it in the table, and a reconciliation *)
(* about to create one has read a price.                                     *)
HeldInv ==
  \A h \in Handlers :
    /\ call[h].id # NoRow => rows[call[h].id].status # "none"
    /\ call[h].op \in {"sell", "reconcile"} /\ call[h].at \notin {"quote", "decide"}
       => call[h].quote # 0
    /\ call[h].at = "insert" => call[h].op = "reconcile"
    /\ call[h].at = "price" => call[h].op \notin {"sell", "reconcile"}
    /\ call[h].at = "quote" => call[h].op # "sell"

TypeInv == TypeOK /\ HeldInv

Holding == {"price", "trade", "close"}

Begins(h) == Refresh(h) \/ CloseOne(h) \/ Sell(h) \/ Reconcile(h)

(* An idle handler is at no point of a request. *)
LEMMA IdleIs ==
  /\ Idle \in Call
  /\ Idle.at = "idle" /\ Idle.op = "none" /\ Idle.todo = {} /\ Idle.id = NoRow
  /\ Idle.alone = FALSE
  BY MarksAssumption DEF Idle, Call, Quotes

(* Going on to the next row gives up the one in hand, and ends the handler's *)
(* work, or its reconciliation's closing, after the last; only automatic     *)
(* closing forgets the price.                                                *)
LEMMA NextRowIs ==
  ASSUME NEW c \in Call
  PROVE  /\ NextRow(c) \in Call /\ NextRow(c).id = NoRow
         /\ \/ NextRow(c) = Idle
            \/ /\ NextRow(c).at \in {"pick", "insert"}
               /\ NextRow(c).at = "insert" => c.op = "reconcile"
               /\ NextRow(c).todo = c.todo /\ NextRow(c).op = c.op /\ NextRow(c).by = c.by
               /\ NextRow(c).alone = c.alone
               /\ c.op # "auto" => NextRow(c).quote = c.quote
<1>1. CASE c.todo = {} /\ c.op # "reconcile"
  BY <1>1, IdleIs DEF NextRow
<1>2. CASE ~(c.todo = {} /\ c.op # "reconcile")
  <2>1. NextRow(c) = [c EXCEPT !.at = IF c.todo = {} THEN "insert" ELSE "pick", !.id = NoRow,
                               !.quote = IF c.op = "auto" THEN 0 ELSE c.quote]
    BY <1>2 DEF NextRow, Call
  <2> QED
    BY <1>2, <2>1 DEF Call, Quotes
<1> QED
  BY <1>1, <1>2

(* After the marks, automatic closing looks at the rows and repricing ends. *)
LEMMA MarkedIs ==
  ASSUME NEW c \in Call, NEW done \in BOOLEAN
  PROVE  /\ Marked(c, done) \in Call
         /\ \/ Marked(c, done) = Idle
            \/ /\ Marked(c, done).at = "criteria" /\ Marked(c, done).todo = {}
               /\ Marked(c, done).op = c.op /\ c.op = "auto" /\ Marked(c, done).id = c.id
               /\ Marked(c, done).alone = c.alone /\ Marked(c, done).quote = c.quote
               /\ Marked(c, done).fresh = done
<1>1. CASE c.op # "auto"
  BY <1>1, IdleIs DEF Marked
<1>2. CASE c.op = "auto"
  BY <1>2 DEF Marked, Call
<1> QED
  BY <1>1, <1>2

(* A step of one handler leaves the others where they are. *)
LEMMA BecomesIs ==
  ASSUME TypeOK, NEW h \in Handlers, NEW c, Becomes(h, c)
  PROVE  /\ call'[h] = c
         /\ \A g \in Handlers \ {h} : call'[g] = call[g]
         /\ c \in Call => call' \in [Handlers -> Call]
  BY DEF TypeOK, Becomes

(* What a handler holds is a row of the table. *)
LEMMA HandIs ==
  ASSUME TypeInv, NEW h \in Handlers
  PROVE  /\ call[h] \in Call
         /\ call[h].at \in Holding <=> call[h].id # NoRow
         /\ call[h].at \in Holding => /\ call[h].id \in RowIds
                                      /\ rows[call[h].id].status # "none"
<1>1. call[h] \in Call /\ (call[h].at \in Holding <=> call[h].id # NoRow)
  BY DEF TypeInv, TypeOK, Holding
<1> QED
  BY <1>1 DEF TypeInv, HeldInv, Call

(* Where work begins: at its first await, without a row, and alone if no     *)
(* other handler is under way; the others learn that they are not.           *)
LEMMA BeginningIs ==
  ASSUME TypeInv, NEW h \in Handlers, Begins(h)
  PROVE  /\ call' \in [Handlers -> Call]
         /\ call[h] = Idle /\ call'[h].alone = (Busy = {}) /\ call'[h].id = NoRow
         /\ call'[h].at \in {"quote", "pick", "sale"}
         /\ call'[h].op = "reconcile" => call'[h].at = "quote"
         /\ call'[h].op = "sell" => call'[h].at = "sale" /\ call'[h].quote # 0
         /\ \A g \in Handlers \ {h} :
              /\ ~call'[g].alone
              /\ call[g] = Idle => call'[g] = Idle
              /\ call'[g].at = call[g].at /\ call'[g].op = call[g].op /\ call'[g].id = call[g].id
              /\ call'[g].todo = call[g].todo /\ call'[g].quote = call[g].quote
         /\ calls' \in 0 .. MaxCalls
         /\ UNCHANGED <<price, rows, faults>>
<1>1. PICK c \in Call : /\ Begin(h, c)
                        /\ c.id = NoRow /\ c.at \in {"quote", "pick", "sale"}
                        /\ c.op = "reconcile" => c.at = "quote"
                        /\ c.op = "sell" => c.at = "sale" /\ c.quote # 0
  <2>1. CASE Refresh(h)
    <3> DEFINE r     == [Idle EXCEPT !.at = "quote", !.op = "reprice"]
               c(by) == [Idle EXCEPT !.at = "quote", !.op = "auto", !.by = by]
    <3>1. r \in Call /\ r.id = NoRow /\ r.at = "quote" /\ r.op = "reprice"
      BY MarksAssumption DEF Idle, Call, Quotes
    <3>2. ASSUME NEW by \in Asked
          PROVE  c(by) \in Call /\ c(by).id = NoRow /\ c(by).at = "quote" /\ c(by).op = "auto"
      <4>1. by \in SUBSET {"loss", "profit", "days"}
        BY MarksAssumption
      <4> QED
        BY <4>1, MarksAssumption DEF Idle, Call, Quotes
    <3>3. Begin(h, r) \/ \E by \in Asked : Begin(h, c(by))
      BY <2>1 DEF Refresh
    <3> HIDE DEF r, c
    <3> QED
      BY <3>1, <3>2, <3>3
  <2>2. CASE CloseOne(h)
    <3>1. PICK id \in RowIds, given \in Quotes :
            Begin(h, [Idle EXCEPT !.at = "pick", !.op = "close", !.todo = {id}, !.quote = given])
      BY <2>2 DEF CloseOne, Having
    <3> DEFINE c == [Idle EXCEPT !.at = "pick", !.op = "close", !.todo = {id}, !.quote = given]
    <3>2. c \in Call /\ c.id = NoRow /\ c.at = "pick" /\ c.op = "close"
      BY MarksAssumption DEF Idle, Call
    <3>3. Begin(h, c)
      BY <3>1
    <3> HIDE DEF c
    <3> QED
      BY <3>2, <3>3
  <2>3. CASE Sell(h)
    <3>1. PICK signal \in Prices :
            Begin(h, [Idle EXCEPT !.at = "sale", !.op = "sell", !.quote = signal])
      BY <2>3 DEF Sell
    <3> DEFINE c == [Idle EXCEPT !.at = "sale", !.op = "sell", !.quote = signal]
    <3>2. c \in Call /\ c.id = NoRow /\ c.at = "sale" /\ c.op = "sell" /\ c.quote = signal
      BY MarksAssumption DEF Idle, Call, Quotes
    <3>3. Begin(h, c) /\ signal # 0
      BY <3>1, MarksAssumption
    <3> HIDE DEF c
    <3> QED
      BY <3>2, <3>3
  <2>4. CASE Reconcile(h)
    <3> DEFINE c == [Idle EXCEPT !.at = "quote", !.op = "reconcile", !.todo = Having("open")]
    <3>1. Begin(h, c)
      BY <2>4 DEF Reconcile
    <3>2. c \in Call /\ c.id = NoRow /\ c.at = "quote" /\ c.op = "reconcile"
      BY MarksAssumption DEF Idle, Call, Quotes, Having
    <3> HIDE DEF c
    <3> QED
      BY <3>1, <3>2
  <2> QED
    BY <2>1, <2>2, <2>3, <2>4 DEF Begins
<1> DEFINE b == (Busy = {})
           d == [c EXCEPT !.alone = b]
<1>2. b \in BOOLEAN
  OBVIOUS
<1>3. call' = [g \in Handlers |->
                 IF g = h THEN d
                 ELSE IF g \in Busy THEN [call[g] EXCEPT !.alone = FALSE] ELSE call[g]]
  BY <1>1 DEF Begin
<1> HIDE DEF b
<1>4. /\ d \in Call /\ d.alone = b /\ d.at = c.at /\ d.op = c.op /\ d.id = c.id
      /\ d.quote = c.quote
  BY <1>2 DEF Call
<1> HIDE DEF d
<1>5. \A g \in Handlers : call[g] \in Call
  BY DEF TypeInv, TypeOK
<1>6. ASSUME NEW g \in Handlers \ {h}
      PROVE  /\ call'[g] \in Call /\ ~call'[g].alone
             /\ call[g] = Idle => call'[g] = Idle
             /\ call'[g].at = call[g].at /\ call'[g].op = call[g].op /\ call'[g].id = call[g].id
             /\ call'[g].todo = call[g].todo /\ call'[g].quote = call[g].quote
  <2>1. CASE call[g] = Idle
    BY <1>3, <2>1, IdleIs DEF Busy
  <2>2. CASE call[g] # Idle
    <3>1. call'[g] = [call[g] EXCEPT !.alone = FALSE]
      BY <1>3, <2>2 DEF Busy
    <3> QED
      BY <1>5, <2>2, <3>1 DEF Call
  <2> QED
    BY <2>1, <2>2
<1>7. call'[h] = d
  BY <1>3
<1>8. call' \in [Handlers -> Call]
  <2>1. DOMAIN call' = Handlers /\ call' = [g \in Handlers |-> call'[g]]
    BY <1>3, Zenon
  <2> QED
    BY <1>4, <1>6, <1>7, <2>1
<1>9. calls' \in 0 .. MaxCalls
  BY <1>1, MarksAssumption DEF Begin, TypeInv, TypeOK
<1>10. call[h] = Idle /\ UNCHANGED <<price, rows, faults>>
  BY <1>1 DEF Begin
<1> QED
  BY <1>1, <1>4, <1>6, <1>7, <1>8, <1>9, <1>10 DEF b

(* The budget of failures *)
LEMMA FaultIs ==
  ASSUME TypeInv, [Next]_vars
  PROVE  price' \in Prices /\ calls' \in 0 .. MaxCalls /\ faults' \in 0 .. MaxFaults
<1>1. price \in Prices /\ calls \in 0 .. MaxCalls /\ faults \in 0 .. MaxFaults
  BY DEF TypeInv, TypeOK
<1>2. ASSUME NEW h \in Handlers, Begins(h)
      PROVE  price' \in Prices /\ calls' \in 0 .. MaxCalls /\ faults' \in 0 .. MaxFaults
  BY <1>1, <1>2, BeginningIs
<1>3. ASSUME NEW h \in Handlers, Serve(h)
      PROVE  /\ UNCHANGED <<price, calls>>
             /\ faults' = faults \/ (faults < MaxFaults /\ faults' = faults + 1)
  BY <1>3 DEF Serve, ReadPrice, SelectOpen, MarkRow, Criteria, Sale, SelectRows, Decide, Insert,
              PickRow, Trade, CloseRow, Fails
<1>4. CASE \E h \in Handlers : Serve(h)
  BY <1>1, <1>3, <1>4, MarksAssumption
<1>5. CASE PriceMoves \/ (\E id \in RowIds : Open(id) \/ GrowsOld(id)) \/ UNCHANGED vars
  BY <1>1, <1>5 DEF PriceMoves, Open, GrowsOld, vars
<1> QED
  BY <1>2, <1>4, <1>5 DEF Next, Begins

(* What the steps that touch the table do to it: one row is marked, is       *)
(* closed, grows old, or is created.                                         *)
LEMMA RowsBecome ==
  ASSUME TypeInv, [Next]_vars
  PROVE  \/ UNCHANGED rows
         \/ \E id \in RowIds, entry, cost \in Prices : Created(id, entry, cost) /\ UNCHANGED call
         \/ \E id \in RowIds : GrowsOld(id) /\ UNCHANGED call
         \/ \E h \in Handlers : MarkRow(h) \/ CloseRow(h)
         \/ \E h \in Handlers, id \in RowIds :
              Insert(h) /\ call[h].quote \in Prices /\ Created(id, call[h].quote, call[h].quote)
<1>1. ASSUME NEW h \in Handlers, Insert(h)
      PROVE  \/ UNCHANGED rows
             \/ \E id \in RowIds :
                  Insert(h) /\ call[h].quote \in Prices /\ Created(id, call[h].quote, call[h].quote)
  <2>1. call[h].quote \in Quotes /\ call[h].quote # 0
    BY <1>1, HandIs DEF Insert, TypeInv, HeldInv, Call
  <2> QED
    BY <1>1, <2>1 DEF Insert, Quotes
<1>2. ASSUME NEW h \in Handlers, Begins(h) PROVE UNCHANGED rows
  BY <1>2, BeginningIs
<1>3. ASSUME NEW h \in Handlers, Serve(h), ~Insert(h), ~MarkRow(h), ~CloseRow(h)
      PROVE  UNCHANGED rows
  BY <1>3 DEF Serve, ReadPrice, SelectOpen, Criteria, Sale, SelectRows, Decide, PickRow, Trade, Fails
<1>4. CASE PriceMoves \/ UNCHANGED vars
  BY <1>4 DEF PriceMoves, vars
<1>5. CASE \E id \in RowIds : Open(id) \/ GrowsOld(id)
  BY <1>5 DEF Open, GrowsOld
<1> QED
  BY <1>1, <1>2, <1>3, <1>4, <1>5 DEF Next, Begins

(* A row never leaves the table, and what is entered is in whole prices. *)
LEMMA RowStep ==
  ASSUME TypeInv, [Next]_vars
  PROVE  /\ rows' \in [RowIds -> Row]
         /\ \A id \in RowIds :
              /\ rows[id].status # "none" => rows'[id].status # "none"
              /\ rows'[id].status # "none" => {rows'[id].entry, rows'[id].cost} \subseteq Prices
<1>1. /\ rows \in [RowIds -> Row] /\ price \in Prices
      /\ \A id \in RowIds :
           rows[id].status # "none" => {rows[id].entry, rows[id].cost} \subseteq Prices
  BY DEF TypeInv, TypeOK, Having, Row
<1> DEFINE Same(j) == /\ rows'[j].entry = rows[j].entry /\ rows'[j].cost = rows[j].cost
                      /\ rows'[j].status # "none" <=> rows[j].status # "none"
           New(j)  == /\ rows[j].status = "none"
                      /\ rows'[j].entry \in Prices /\ rows'[j].cost \in Prices
           Fine == rows' \in [RowIds -> Row] /\ \A j \in RowIds : Same(j) \/ New(j)
<1>2. ASSUME NEW id \in RowIds, NEW entry \in Prices, NEW cost \in Prices, Created(id, entry, cost)
      PROVE  Fine
  <2> DEFINE r == [status |-> "open", entry |-> entry, cost |-> cost,
                   current |-> entry, old |-> FALSE]
  <2>1. r \in Row /\ r.entry \in Prices /\ r.cost \in Prices
    BY DEF Row, Quotes
  <2>2. rows[id].status = "none" /\ rows' = [rows EXCEPT ![id] = r]
    BY <1>2 DEF Created
  <2> HIDE DEF r
  <2>3. rows' \in [RowIds -> Row] /\ \A j \in RowIds : rows'[j] = IF j = id THEN r ELSE rows[j]
    BY <1>1, <2>1, <2>2
  <2> QED
    BY <2>1, <2>2, <2>3
<1>3. ASSUME NEW id \in RowIds, GrowsOld(id) PROVE Fine
  BY <1>1, <1>3 DEF GrowsOld, Row
<1>4. ASSUME NEW h \in Handlers, MarkRow(h) PROVE Fine
  <2>1. PICK id \in call[h].todo : rows' = [rows EXCEPT ![id].current = call[h].quote]
    BY <1>4 DEF MarkRow
  <2>2. id \in RowIds /\ call[h].quote \in Quotes
    BY HandIs DEF Call
  <2> QED
    BY <1>1, <2>1, <2>2 DEF Row
<1>5. ASSUME NEW h \in Handlers, CloseRow(h) PROVE Fine
  <2>1. call[h].at = "close" /\ call[h].id \in RowIds /\ call[h].quote \in Quotes
        /\ rows[call[h].id].status # "none"
    BY <1>5, HandIs DEF CloseRow, Holding, Call
  <2>2. rows' = [rows EXCEPT ![call[h].id].status = "closed", ![call[h].id].current = call[h].quote]
    BY <1>5 DEF CloseRow
  <2> QED
    BY <1>1, <2>1, <2>2 DEF Row
<1>6. ASSUME UNCHANGED rows PROVE Fine
  BY <1>1, <1>6
<1>7. Fine
  <2>1. CASE \E id \in RowIds, entry, cost \in Prices : Created(id, entry, cost)
    <3>1. PICK id \in RowIds, entry \in Prices, cost \in Prices : Created(id, entry, cost)
      BY <2>1
    <3> QED
      BY <1>2, <3>1
  <2>2. CASE \E h \in Handlers, id \in RowIds :
               call[h].quote \in Prices /\ Created(id, call[h].quote, call[h].quote)
    BY <2>1, <2>2
  <2>3. CASE \E id \in RowIds : GrowsOld(id)
    BY <1>3, <2>3
  <2>4. CASE \E h \in Handlers : MarkRow(h) \/ CloseRow(h)
    BY <1>4, <1>5, <2>4
  <2>5. \/ UNCHANGED rows
        \/ \E id \in RowIds, entry, cost \in Prices : Created(id, entry, cost)
        \/ \E id \in RowIds : GrowsOld(id)
        \/ \E h \in Handlers : MarkRow(h) \/ CloseRow(h)
        \/ \E h \in Handlers, id \in RowIds :
             call[h].quote \in Prices /\ Created(id, call[h].quote, call[h].quote)
    BY RowsBecome
  <2> HIDE DEF Fine
  <2> QED
    BY <1>6, <2>1, <2>2, <2>3, <2>4, <2>5
<1> QED
  BY <1>1, <1>7

-----------------------------------------------------------------------------
(* Where the steps of a handler lead, read off its call *)

Ends(h) == call'[h] = Idle
Goes(h, at, todo, id) ==
  /\ call'[h] \in Call
  /\ call'[h].at = at /\ call'[h].todo = todo /\ call'[h].id = id
  /\ call'[h].op = call[h].op /\ call'[h].by = call[h].by /\ call'[h].alone = call[h].alone
  /\ at \notin {"select", "trade", "decide"} => call'[h].quote = call[h].quote
NextUp(h, todo) ==
  \/ Ends(h)
  \/ /\ call'[h] \in Call
     /\ call'[h].at \in {"pick", "insert"} /\ call'[h].todo = todo /\ call'[h].id = NoRow
     /\ call'[h].at = "insert" => call[h].op = "reconcile"
     /\ call'[h].op = call[h].op /\ call'[h].by = call[h].by /\ call'[h].alone = call[h].alone
     /\ call[h].op # "auto" => call'[h].quote = call[h].quote

(* Going on to the rows of a set *)
LEMMA NextUpIs ==
  ASSUME TypeInv, NEW h \in Handlers, NEW c \in Call,
         c.op = call[h].op, c.by = call[h].by, c.alone = call[h].alone, c.quote = call[h].quote,
         Becomes(h, NextRow(c))
  PROVE  NextUp(h, c.todo)
<1>1. call'[h] = NextRow(c)
  BY BecomesIs DEF TypeInv
<1> QED
  BY <1>1, NextRowIs DEF NextUp, Ends

(* Done with the marks, or giving them up *)
LEMMA MarkedLeads ==
  ASSUME TypeInv, NEW h \in Handlers, NEW done \in BOOLEAN, Becomes(h, Marked(call[h], done)),
         call[h].at \in {"select", "mark"}
  PROVE  \/ Ends(h)
         \/ /\ call'[h] \in Call
            /\ call'[h].at = "criteria" /\ call'[h].todo = {} /\ call'[h].id = NoRow
            /\ call'[h].op = "auto" /\ call'[h].alone = call[h].alone
            /\ call'[h].quote = call[h].quote /\ call'[h].fresh = done
<1>1. call[h] \in Call /\ call[h].id = NoRow
  BY HandIs DEF Holding
<1>2. call'[h] = Marked(call[h], done)
  BY BecomesIs DEF TypeInv
<1> QED
  BY <1>1, <1>2, MarkedIs DEF Ends

(* get_current_price *)
LEMMA ReadPriceIs ==
  ASSUME TypeInv, NEW h \in Handlers, ReadPrice(h)
  PROVE  /\ UNCHANGED rows
         /\ \/ call[h].at = "price" /\ Goes(h, "trade", call[h].todo, call[h].id)
            \/ /\ call[h].at = "quote" /\ call[h].id = NoRow
               /\ \/ call[h].op = "reconcile" /\ Goes(h, "decide", call[h].todo, NoRow)
                  \/ call[h].op # "reconcile" /\ Goes(h, "select", call[h].todo, NoRow)
<1> DEFINE next == IF call[h].at = "price" THEN "trade"
                   ELSE IF call[h].op = "reconcile" THEN "decide" ELSE "select"
<1>1. PICK q \in Quotes : Becomes(h, [call[h] EXCEPT !.quote = q, !.at = next])
  BY DEF ReadPrice, Quotes, TypeInv, TypeOK
<1>2. call'[h] = [call[h] EXCEPT !.quote = q, !.at = next]
  BY <1>1, BecomesIs DEF TypeInv
<1>3. call[h] \in Call /\ call[h].at \in {"quote", "price"} /\ UNCHANGED rows
      /\ (call[h].at = "quote" => call[h].id = NoRow)
  BY HandIs DEF ReadPrice, Holding
<1>4. Goes(h, next, call[h].todo, call[h].id)
  BY <1>2, <1>3 DEF Goes, Call
<1> QED
  BY <1>3, <1>4

(* update_open_position_prices: the SELECT *)
LEMMA SelectOpenIs ==
  ASSUME TypeInv, NEW h \in Handlers, SelectOpen(h)
  PROVE  /\ call[h].at = "select" /\ call[h].id = NoRow
         /\ UNCHANGED <<rows, faults>>
         /\ \/ Goes(h, "mark", Having("open"), NoRow)
            \/ Having("open") = {} /\ Becomes(h, Marked(call[h], TRUE))
<1>1. call[h] \in Call /\ call[h].at = "select" /\ call[h].id = NoRow
  BY HandIs DEF SelectOpen, Holding
<1> DEFINE c == [call[h] EXCEPT !.at = "mark", !.todo = Having("open")]
<1>2. Becomes(h, c) => Goes(h, "mark", Having("open"), NoRow)
  <2> SUFFICES ASSUME Becomes(h, c) PROVE Goes(h, "mark", Having("open"), NoRow)
    OBVIOUS
  <2>1. call'[h] = c
    BY BecomesIs DEF TypeInv
  <2>2. Having("open") \subseteq RowIds
    BY DEF Having
  <2> QED
    BY <1>1, <2>1, <2>2 DEF Goes, Call
<1>3. Becomes(h, c) \/ (Having("open") = {} /\ Becomes(h, Marked(call[h], TRUE)))
  BY DEF SelectOpen
<1> QED
  BY <1>1, <1>2, <1>3 DEF SelectOpen

(* update_open_position_prices: one UPDATE *)
LEMMA MarkRowIs ==
  ASSUME TypeInv, NEW h \in Handlers, MarkRow(h)
  PROVE  /\ call[h].at = "mark" /\ call[h].id = NoRow /\ UNCHANGED faults
         /\ \E id \in call[h].todo :
              /\ rows' = [rows EXCEPT ![id].current = call[h].quote]
              /\ \/ Goes(h, "mark", call[h].todo \ {id}, NoRow) /\ call'[h].fresh = call[h].fresh
                 \/ call[h].todo = {id} /\ Becomes(h, Marked(call[h], TRUE))
<1>1. PICK id \in call[h].todo :
        /\ rows' = [rows EXCEPT ![id].current = call[h].quote]
        /\ Becomes(h, IF call[h].todo = {id} THEN Marked(call[h], TRUE)
                      ELSE [call[h] EXCEPT !.todo = @ \ {id}])
  BY DEF MarkRow
<1>2. call[h] \in Call /\ call[h].at = "mark" /\ call[h].id = NoRow
  BY HandIs DEF MarkRow, Holding
<1>3. CASE call[h].todo # {id}
  <2>1. call'[h] = [call[h] EXCEPT !.todo = @ \ {id}]
    BY <1>1, <1>3, BecomesIs DEF TypeInv
  <2>2. Goes(h, "mark", call[h].todo \ {id}, NoRow) /\ call'[h].fresh = call[h].fresh
    BY <1>2, <2>1 DEF Goes, Call
  <2> QED
    BY <1>1, <1>2, <2>2 DEF MarkRow
<1>4. CASE call[h].todo = {id}
  BY <1>1, <1>2, <1>4 DEF MarkRow
<1> QED
  BY <1>3, <1>4

(* auto_close_positions_by_criteria *)
LEMMA CriteriaIs ==
  ASSUME TypeInv, NEW h \in Handlers, Criteria(h)
  PROVE  /\ call[h].at = "criteria" /\ UNCHANGED rows
         /\ NextUp(h, {id \in Having("open") : Meets(call[h].by, rows[id])})
<1> DEFINE todo == {id \in Having("open") : Meets(call[h].by, rows[id])}
           c == [call[h] EXCEPT !.todo = todo]
<1>1. Becomes(h, NextRow(c))
  BY DEF Criteria
<1>2. todo \in SUBSET RowIds /\ call[h] \in Call
  BY HandIs DEF Having
<1> HIDE DEF todo
<1>3. /\ c \in Call /\ c.todo = todo /\ c.op = call[h].op /\ c.by = call[h].by
      /\ c.alone = call[h].alone /\ c.quote = call[h].quote
  BY <1>2 DEF Call
<1> HIDE DEF c
<1>4. NextUp(h, todo)
  BY <1>1, <1>3, NextUpIs
<1> QED
  BY <1>4 DEF todo, Criteria

(* execute_sell: the order, and the rows to close *)
LEMMA SaleIs ==
  ASSUME TypeInv, NEW h \in Handlers, Sale(h) \/ SelectRows(h)
  PROVE  /\ UNCHANGED rows
         /\ Ends(h) \/ Goes(h, "rows", call[h].todo, NoRow) \/ NextUp(h, Having("open"))
<1>1. CASE Sale(h)
  <2>1. call[h] \in Call /\ call[h].id = NoRow /\ UNCHANGED rows
    BY <1>1, HandIs DEF Sale, Holding
  <2>2. call'[h] = Idle \/ call'[h] = [call[h] EXCEPT !.at = "rows"]
    BY <1>1, BecomesIs DEF Sale, TypeInv
  <2> QED
    BY <2>1, <2>2 DEF Ends, Goes, Call
<1>2. CASE SelectRows(h)
  <2> DEFINE c == [call[h] EXCEPT !.todo = Having("open")]
  <2>1. call[h] \in Call /\ Having("open") \in SUBSET RowIds
    BY HandIs DEF Having
  <2>2. /\ c \in Call /\ c.todo = Having("open") /\ c.op = call[h].op /\ c.by = call[h].by
        /\ c.alone = call[h].alone /\ c.quote = call[h].quote
    BY <2>1 DEF Call
  <2>3. Becomes(h, NextRow(c)) /\ UNCHANGED rows
    BY <1>2 DEF SelectRows
  <2> HIDE DEF c
  <2> QED
    BY <2>2, <2>3, NextUpIs
<1> QED
  BY <1>1, <1>2

(* reconcile: what it decides, and the row it may create *)
LEMMA DecideIs ==
  ASSUME TypeInv, NEW h \in Handlers, Decide(h) \/ Insert(h)
  PROVE  \/ Ends(h)
         \/ /\ Decide(h) /\ UNCHANGED rows /\ call[h].quote # 0
            /\ NextUp(h, call[h].todo)
<1>1. Becomes(h, Idle) => Ends(h)
  BY BecomesIs DEF TypeInv, Ends
<1>2. Becomes(h, NextRow(call[h])) => NextUp(h, call[h].todo)
  BY HandIs, NextUpIs
<1> QED
  BY <1>1, <1>2 DEF Decide, Insert

(* close_position: the look at the row *)
LEMMA PickRowIs ==
  ASSUME TypeInv, NEW h \in Handlers, PickRow(h)
  PROVE  /\ call[h].at = "pick" /\ UNCHANGED rows
         /\ \E id \in call[h].todo :
              \/ /\ id \in Having("open")
                 /\ \E at \in Holding : /\ Goes(h, at, call[h].todo \ {id}, id)
                                        /\ call'[h].quote = call[h].quote
                                        /\ at = "price" => call[h].op \notin {"sell", "reconcile"}
              \/ NextUp(h, call[h].todo \ {id})
<1>1. PICK id \in call[h].todo :
        LET c    == [call[h] EXCEPT !.todo = @ \ {id}]
            next == IF c.op \in {"sell", "reconcile"} THEN "close"
                    ELSE IF c.quote = 0 THEN "price" ELSE "trade"
        IN  Becomes(h, IF rows[id].status = "open" THEN [c EXCEPT !.at = next, !.id = id]
                       ELSE NextRow(c))
  BY DEF PickRow
<1> DEFINE c == [call[h] EXCEPT !.todo = @ \ {id}]
           next == IF c.op \in {"sell", "reconcile"} THEN "close"
                   ELSE IF c.quote = 0 THEN "price" ELSE "trade"
           d == [c EXCEPT !.at = next, !.id = id]
<1>2. Becomes(h, IF rows[id].status = "open" THEN d ELSE NextRow(c))
  BY <1>1
<1>3. call[h] \in Call /\ id \in RowIds
  BY HandIs DEF Call
<1>4. /\ c \in Call /\ c.todo = call[h].todo \ {id} /\ c.op = call[h].op /\ c.by = call[h].by
      /\ c.alone = call[h].alone /\ c.quote = call[h].quote
  BY <1>3 DEF Call
<1>5. next \in Holding /\ (next = "price" => c.op \notin {"sell", "reconcile"})
  BY DEF Holding
<1>6. /\ d \in Call /\ d.todo = c.todo /\ d.op = c.op /\ d.by = c.by /\ d.id = id
      /\ d.alone = c.alone /\ d.quote = c.quote /\ d.at = next
  <2> HIDE DEF c, next
  <2> QED
    BY <1>3, <1>4, <1>5 DEF Call, Holding
<1> HIDE DEF c, d, next
<1>7. CASE rows[id].status = "open"
  <2>1. call'[h] = d
    BY <1>2, <1>7, BecomesIs DEF TypeInv
  <2>2. Goes(h, next, call[h].todo \ {id}, id) /\ call'[h].quote = call[h].quote
    BY <1>4, <1>6, <2>1 DEF Goes
  <2> QED
    BY <1>3, <1>4, <1>5, <1>7, <2>2 DEF PickRow, Having
<1>8. CASE rows[id].status # "open"
  <2>1. NextUp(h, c.todo)
    BY <1>2, <1>4, <1>8, NextUpIs
  <2> QED
    BY <1>4, <2>1 DEF PickRow
<1> QED
  BY <1>7, <1>8

(* close_position: its order and the second look, and the UPDATE *)
LEMMA TradeIs ==
  ASSUME TypeInv, NEW h \in Handlers, Trade(h) \/ CloseRow(h)
  PROVE  /\ call[h].id \in RowIds /\ call[h].id # NoRow
         /\ \/ NextUp(h, call[h].todo)
            \/ /\ Trade(h) /\ UNCHANGED rows /\ call[h].id \in Having("open")
               /\ Goes(h, "close", call[h].todo, call[h].id)
<1>1. call[h] \in Call /\ call[h].id \in RowIds /\ call[h].id # NoRow
  BY HandIs DEF Trade, CloseRow, Holding
<1>2. Becomes(h, NextRow(call[h])) => NextUp(h, call[h].todo)
  BY <1>1, NextUpIs
<1>3. Becomes(h, [call[h] EXCEPT !.at = "close"]) => Goes(h, "close", call[h].todo, call[h].id)
  <2> SUFFICES ASSUME Becomes(h, [call[h] EXCEPT !.at = "close"])
               PROVE  Goes(h, "close", call[h].todo, call[h].id)
    OBVIOUS
  <2>1. call'[h] = [call[h] EXCEPT !.at = "close"]
    BY BecomesIs DEF TypeInv
  <2> QED
    BY <1>1, <2>1 DEF Goes, Call
<1> QED
  BY <1>1, <1>2, <1>3 DEF Trade, CloseRow, Having

(* A call that fails *)
LEMMA FailsIs ==
  ASSUME TypeInv, NEW h \in Handlers, Fails(h)
  PROVE  /\ UNCHANGED rows
         /\ \/ Ends(h) \/ NextUp(h, call[h].todo)
            \/ call[h].at \in {"select", "mark"} /\ Becomes(h, Marked(call[h], FALSE))
<1>1. Becomes(h, Idle) => Ends(h)
  BY BecomesIs DEF TypeInv, Ends
<1>2. Becomes(h, NextRow(call[h])) => NextUp(h, call[h].todo)
  BY HandIs, NextUpIs
<1> QED
  BY <1>1, <1>2 DEF Fails

(* Every step of a handler is one of these. *)
LEMMA ServeIs ==
  ASSUME TypeInv, NEW h \in Handlers, Serve(h)
  PROVE  /\ h \in Busy
         /\ \A g \in Handlers \ {h} : call'[g] = call[g]
         /\ call' \in [Handlers -> Call]
         /\ Ends(h) \/ call'[h].alone = call[h].alone
<1>1. call[h].at # "idle"
  BY DEF Serve, ReadPrice, SelectOpen, MarkRow, Criteria, Sale, SelectRows, Decide, Insert,
         PickRow, Trade, CloseRow, Fails
<1>2. \E c : Becomes(h, c)
  BY Zenon DEF Serve, ReadPrice, SelectOpen, MarkRow, Criteria, Sale, SelectRows, Decide, Insert,
               PickRow, Trade, CloseRow, Fails
<1> DEFINE Fine == call'[h] \in Call /\ (Ends(h) \/ call'[h].alone = call[h].alone)
<1>3. Ends(h) => Fine
  BY IdleIs DEF Ends
<1>4. \A at, todo, id : Goes(h, at, todo, id) => Fine
  BY DEF Goes
<1>5. \A todo : NextUp(h, todo) => Fine
  BY IdleIs DEF NextUp, Ends
<1>6. ASSUME NEW done \in BOOLEAN, Becomes(h, Marked(call[h], done)),
             call[h].at \in {"select", "mark"}
      PROVE  Fine
  BY <1>3, <1>6, MarkedLeads
<1> HIDE DEF Fine
<1>7. Fine
  <2>1. CASE ReadPrice(h) \/ Sale(h) \/ SelectRows(h)
    BY <1>3, <1>4, <1>5, <2>1, ReadPriceIs, SaleIs
  <2>2. CASE SelectOpen(h)
    BY <1>4, <1>6, <2>2, SelectOpenIs
  <2>3. CASE MarkRow(h)
    BY <1>4, <1>6, <2>3, MarkRowIs
  <2>4. CASE Criteria(h) \/ Decide(h) \/ Insert(h)
    BY <1>3, <1>5, <2>4, CriteriaIs, DecideIs
  <2>5. CASE PickRow(h)
    BY <1>4, <1>5, <2>5, PickRowIs
  <2>6. CASE Trade(h) \/ CloseRow(h)
    BY <1>4, <1>5, <2>6, TradeIs
  <2>7. CASE Fails(h)
    BY <1>3, <1>5, <1>6, <2>7, FailsIs
  <2> QED
    BY <2>1, <2>2, <2>3, <2>4, <2>5, <2>6, <2>7 DEF Serve
<1>8. \A g \in Handlers \ {h} : call'[g] = call[g]
  BY <1>2, BecomesIs DEF TypeInv
<1>9. call' \in [Handlers -> Call]
  <2>1. call'[h] \in Call
    BY <1>7 DEF Fine
  <2>2. PICK c : Becomes(h, c)
    BY <1>2
  <2> QED
    BY <2>1, <2>2, BecomesIs DEF TypeInv
<1> QED
  BY <1>1, <1>7, <1>8, <1>9, IdleIs DEF Fine, Busy

-----------------------------------------------------------------------------
(* The types hold *)

(* A handler's own step leaves it with a row of the table in hand exactly    *)
(* where it should have one, and with the price it needs.                    *)
LEMMA HeldServe ==
  ASSUME TypeInv, NEW h \in Handlers, Serve(h)
  PROVE  /\ call'[h].id # NoRow <=> call'[h].at \in Holding
         /\ call'[h].id # NoRow => rows[call'[h].id].status # "none"
         /\ call'[h].op \in {"sell", "reconcile"} /\ call'[h].at \notin {"quote", "decide"}
            => call'[h].quote # 0
         /\ call'[h].at = "insert" => call'[h].op = "reconcile"
         /\ call'[h].at = "price" => call'[h].op \notin {"sell", "reconcile"}
         /\ call'[h].at = "quote" => call'[h].op # "sell"
<1> DEFINE Fine ==
         /\ call'[h].id # NoRow <=> call'[h].at \in Holding
         /\ call'[h].id # NoRow => rows[call'[h].id].status # "none"
         /\ call'[h].op \in {"sell", "reconcile"} /\ call'[h].at \notin {"quote", "decide"}
            => call'[h].quote # 0
         /\ call'[h].at = "insert" => call'[h].op = "reconcile"
         /\ call'[h].at = "price" => call'[h].op \notin {"sell", "reconcile"}
         /\ call'[h].at = "quote" => call'[h].op # "sell"
<1>1. /\ call[h] \in Call
      /\ call[h].at \in Holding <=> call[h].id # NoRow
      /\ call[h].at \in Holding => /\ call[h].id \in RowIds
                                   /\ rows[call[h].id].status # "none"
      /\ call[h].op \in {"sell", "reconcile"} /\ call[h].at \notin {"quote", "decide"}
         => call[h].quote # 0
      /\ call[h].at = "price" => call[h].op \notin {"sell", "reconcile"}
      /\ call[h].at = "quote" => call[h].op # "sell"
  BY HandIs DEF TypeInv, HeldInv
<1>2. Ends(h) => Fine
  BY IdleIs DEF Ends, Holding
<1>3. ASSUME NEW todo, NextUp(h, todo), call[h].at \notin {"quote", "decide"} \/ call[h].quote # 0
      PROVE  Fine
  <2>1. CASE ~Ends(h)
    BY <1>1, <1>3, <2>1 DEF NextUp, Holding
  <2> QED
    BY <1>2, <2>1
<1>4. ASSUME NEW done \in BOOLEAN, Becomes(h, Marked(call[h], done)),
             call[h].at \in {"select", "mark"}
      PROVE  Fine
  <2>1. CASE ~Ends(h)
    BY <1>4, <2>1, MarkedLeads DEF Holding
  <2> QED
    BY <1>2, <2>1
<1>5. ASSUME ReadPrice(h) PROVE Fine
  <2>1. CASE call[h].at = "price" /\ Goes(h, "trade", call[h].todo, call[h].id)
    BY <1>1, <2>1 DEF Goes, Holding
  <2>2. CASE call[h].op = "reconcile" /\ Goes(h, "decide", call[h].todo, NoRow)
    BY <2>2 DEF Goes, Holding
  <2>3. CASE call[h].at = "quote" /\ call[h].op # "reconcile"
             /\ Goes(h, "select", call[h].todo, NoRow)
    BY <1>1, <2>3 DEF Goes, Holding
  <2> QED
    BY <1>5, <2>1, <2>2, <2>3, ReadPriceIs
<1>6. ASSUME SelectOpen(h) PROVE Fine
  <2>1. CASE Goes(h, "mark", Having("open"), NoRow)
    BY <1>1, <1>6, <2>1, SelectOpenIs DEF Goes, Holding
  <2> QED
    BY <1>4, <1>6, <2>1, SelectOpenIs
<1>7. ASSUME MarkRow(h) PROVE Fine
  <2>1. ASSUME NEW todo, Goes(h, "mark", todo, NoRow) PROVE Fine
    BY <1>1, <1>7, <2>1, MarkRowIs DEF Goes, Holding
  <2> HIDE DEF Fine
  <2> QED
    BY <1>4, <1>7, <2>1, MarkRowIs
<1>8. ASSUME Sale(h) \/ SelectRows(h) PROVE Fine
  <2>1. call[h].at \in {"sale", "rows"}
    BY <1>8 DEF Sale, SelectRows
  <2>2. CASE Goes(h, "rows", call[h].todo, NoRow)
    BY <1>1, <2>1, <2>2 DEF Goes, Holding
  <2> HIDE DEF Fine
  <2> QED
    BY <1>2, <1>3, <1>8, <2>1, <2>2, SaleIs
<1>9. ASSUME PickRow(h) PROVE Fine
  <2>1. PICK id \in call[h].todo :
          \/ /\ id \in Having("open")
             /\ \E at \in Holding : /\ Goes(h, at, call[h].todo \ {id}, id)
                                    /\ call'[h].quote = call[h].quote
                                    /\ at = "price" => call[h].op \notin {"sell", "reconcile"}
          \/ NextUp(h, call[h].todo \ {id})
    BY <1>9, PickRowIs
  <2>2. call[h].at = "pick" /\ id \in RowIds /\ id # NoRow
    BY <1>1, <1>9, PickRowIs, MarksAssumption DEF Call
  <2>3. CASE id \in Having("open") /\ ~NextUp(h, call[h].todo \ {id})
    BY <1>1, <2>1, <2>2, <2>3 DEF Goes, Holding, Having
  <2> HIDE DEF Fine
  <2> QED
    BY <1>3, <2>1, <2>2, <2>3
<1>10. ASSUME Trade(h) \/ CloseRow(h) PROVE Fine
  <2>1. call[h].at \in {"trade", "close"}
    BY <1>10 DEF Trade, CloseRow
  <2>2. CASE Goes(h, "close", call[h].todo, call[h].id)
    BY <1>1, <2>1, <2>2 DEF Goes, Holding
  <2> HIDE DEF Fine
  <2> QED
    BY <1>3, <1>10, <2>1, <2>2, TradeIs
<1>11. ASSUME Criteria(h) \/ Decide(h) \/ Insert(h) PROVE Fine
  BY <1>2, <1>3, <1>11, CriteriaIs, DecideIs
<1>12. ASSUME Fails(h) PROVE Fine
  <2>1. call[h].at \notin {"quote", "decide"}
    BY <1>12 DEF Fails
  <2> HIDE DEF Fine
  <2> QED
    BY <1>2, <1>3, <1>4, <1>12, <2>1, FailsIs
<1> HIDE DEF Fine
<1>13. Fine
  BY <1>5, <1>6, <1>7, <1>8, <1>9, <1>10, <1>11, <1>12 DEF Serve
<1> QED
  BY <1>13 DEF Fine

(* Every step keeps every type. *)
LEMMA TypeStep == TypeInv /\ [Next]_vars => TypeInv'
<1> SUFFICES ASSUME TypeInv, [Next]_vars PROVE TypeInv'
  OBVIOUS
<1> DEFINE Fine(g) ==
         /\ call'[g].id # NoRow <=> call'[g].at \in Holding
         /\ call'[g].id # NoRow => rows[call'[g].id].status # "none"
         /\ call'[g].op \in {"sell", "reconcile"} /\ call'[g].at \notin {"quote", "decide"}
            => call'[g].quote # 0
         /\ call'[g].at = "insert" => call'[g].op = "reconcile"
         /\ call'[g].at = "price" => call'[g].op \notin {"sell", "reconcile"}
         /\ call'[g].at = "quote" => call'[g].op # "sell"
<1>1. ASSUME NEW g \in Handlers,
             /\ call'[g].at = call[g].at /\ call'[g].op = call[g].op
             /\ call'[g].id = call[g].id /\ call'[g].quote = call[g].quote
      PROVE  Fine(g)
  BY <1>1, HandIs DEF TypeInv, HeldInv
<1>2. call' \in [Handlers -> Call] /\ \A g \in Handlers : Fine(g)
  <2>1. ASSUME NEW h \in Handlers, Serve(h)
        PROVE  call' \in [Handlers -> Call] /\ \A g \in Handlers : Fine(g)
    <3>1. \A g \in Handlers \ {h} : Fine(g)
      BY <1>1, <2>1, ServeIs
    <3>2. Fine(h)
      BY <2>1, HeldServe
    <3> HIDE DEF Fine
    <3> QED
      BY <2>1, <3>1, <3>2, ServeIs
  <2>2. ASSUME NEW h \in Handlers, Begins(h)
        PROVE  call' \in [Handlers -> Call] /\ \A g \in Handlers : Fine(g)
    <3>1. \A g \in Handlers \ {h} : Fine(g)
      BY <1>1, <2>2, BeginningIs
    <3>2. Fine(h)
      BY <2>2, BeginningIs DEF Holding
    <3> HIDE DEF Fine
    <3> QED
      BY <2>2, <3>1, <3>2, BeginningIs
  <2>3. ASSUME UNCHANGED call
        PROVE  call' \in [Handlers -> Call] /\ \A g \in Handlers : Fine(g)
    BY <1>1, <2>3 DEF TypeInv, TypeOK
  <2> HIDE DEF Fine
  <2> QED
    BY <2>1, <2>2, <2>3 DEF Next, Begins, PriceMoves, Open, GrowsOld, vars
<1>3. HeldInv'
  <2>1. \A g \in Handlers : call'[g].id # NoRow => call'[g].id \in RowIds
    BY <1>2 DEF Call
  <2> QED
    BY <1>2, <2>1, RowStep DEF HeldInv
<1>4. TypeOK'
  BY <1>2, RowStep, FaultIs DEF TypeOK, Having, Holding
<1> QED
  BY <1>3, <1>4 DEF TypeInv

(* TypeInv holds in every reachable state. *)
LEMMA TypeKnown == Spec => []TypeInv
<1>1. Init => TypeInv
  <2> SUFFICES ASSUME Init PROVE TypeInv
    OBVIOUS
  <2>1. /\ call \in [Handlers -> Call]
        /\ \A h \in Handlers : call[h].id = NoRow /\ call[h].at = "idle" /\ call[h].op = "none"
    BY IdleIs DEF Init
  <2>2. rows \in [RowIds -> Row] /\ \A id \in RowIds : rows[id].status = "none"
    BY DEF Init, NoPos, Row, Quotes
  <2>3. calls \in 0 .. MaxCalls /\ faults \in 0 .. MaxFaults
    BY MarksAssumption DEF Init
  <2> QED
    BY <2>1, <2>2, <2>3 DEF Init, TypeInv, TypeOK, HeldInv, Having
<1> QED
  BY <1>1, TypeStep, PTL DEF Spec

(* Type correctness of PositionMarks.tla: every row was opened at a price    *)
(* and for an amount, and a handler holds a row exactly from the moment it   *)
(* has picked one until it lets go of it.                                    *)
THEOREM TypeCorrect == Spec => []TypeOK
<1>1. TypeInv => TypeOK
  BY DEF TypeInv
<1> QED
  BY <1>1, TypeKnown, PTL

-----------------------------------------------------------------------------
(* Closed positions are final *)

(* A handler that has been alone so far still is, and the rows it is about   *)
(* to mark or holds are open: nobody else could have closed them.            *)
AloneInv ==
  \A h \in Handlers :
    call[h].alone =>
      /\ Busy = {h}
      /\ call[h].at = "mark" => call[h].todo \subseteq Having("open")
      /\ call[h].id # NoRow  => call[h].id \in Having("open")

(* A handler that is alone after its step was so before, and what it holds   *)
(* or is about to mark is open.                                              *)
LEMMA AloneServe ==
  ASSUME TypeInv, AloneInv, NEW h \in Handlers, Serve(h), call'[h].alone
  PROVE  /\ call[h].alone /\ ~Ends(h)
         /\ call'[h].at = "mark" => call'[h].todo \subseteq Having("open")'
         /\ call'[h].id # NoRow  => call'[h].id \in Having("open")'
<1> DEFINE Fine == /\ call'[h].at = "mark" => call'[h].todo \subseteq Having("open")'
                   /\ call'[h].id # NoRow  => call'[h].id \in Having("open")'
<1>1. call[h].alone /\ ~Ends(h)
  BY ServeIs, IdleIs DEF Ends
<1>2. /\ call[h].at = "mark" => call[h].todo \subseteq Having("open")
      /\ call[h].id # NoRow  => call[h].id \in Having("open")
  BY <1>1 DEF AloneInv
<1>3. UNCHANGED rows => Having("open")' = Having("open")
  BY DEF Having
<1>4. \A todo : NextUp(h, todo) => Fine
  BY <1>1 DEF NextUp
<1>5. ASSUME NEW done \in BOOLEAN, Becomes(h, Marked(call[h], done)),
             call[h].at \in {"select", "mark"}
      PROVE  Fine
  BY <1>1, <1>5, MarkedLeads
<1>6. ASSUME ReadPrice(h) PROVE Fine
  BY <1>2, <1>3, <1>6, ReadPriceIs DEF Goes
<1>7. ASSUME SelectOpen(h) PROVE Fine
  <2>1. CASE Goes(h, "mark", Having("open"), NoRow)
    BY <1>3, <1>7, <2>1, SelectOpenIs DEF Goes
  <2> HIDE DEF Fine
  <2> QED
    BY <1>5, <1>7, <2>1, SelectOpenIs
<1>8. ASSUME MarkRow(h) PROVE Fine
  <2>1. PICK id \in call[h].todo :
          /\ rows' = [rows EXCEPT ![id].current = call[h].quote]
          /\ \/ Goes(h, "mark", call[h].todo \ {id}, NoRow)
             \/ Becomes(h, Marked(call[h], TRUE))
    BY <1>8, MarkRowIs
  <2>2. Having("open")' = Having("open")
    <3>1. rows \in [RowIds -> Row] /\ id \in RowIds
      BY HandIs DEF Call, TypeInv, TypeOK
    <3> QED
      BY <2>1, <3>1 DEF Having, Row
  <2>3. CASE Goes(h, "mark", call[h].todo \ {id}, NoRow)
    BY <1>2, <1>8, <2>2, <2>3, MarkRowIs DEF Goes
  <2> HIDE DEF Fine
  <2> QED
    BY <1>5, <1>8, <2>1, <2>3, MarkRowIs
<1>9. ASSUME Sale(h) \/ SelectRows(h) PROVE Fine
  <2>1. CASE Goes(h, "rows", call[h].todo, NoRow)
    BY <2>1 DEF Goes
  <2> HIDE DEF Fine
  <2> QED
    BY <1>1, <1>4, <1>9, <2>1, SaleIs
<1>10. ASSUME PickRow(h) PROVE Fine
  <2>1. UNCHANGED rows
        /\ \E id \in call[h].todo :
             \/ id \in Having("open") /\ \E at \in Holding : Goes(h, at, call[h].todo \ {id}, id)
             \/ NextUp(h, call[h].todo \ {id})
    BY <1>10, PickRowIs
  <2>2. ASSUME NEW id \in Having("open"), NEW at \in Holding, NEW todo, Goes(h, at, todo, id)
        PROVE  Fine
    BY <1>3, <2>1, <2>2 DEF Goes, Holding
  <2> HIDE DEF Fine
  <2> QED
    BY <1>4, <2>1, <2>2
<1>11. ASSUME Trade(h) \/ CloseRow(h) PROVE Fine
  <2>1. CASE UNCHANGED rows /\ Goes(h, "close", call[h].todo, call[h].id)
    BY <1>2, <1>3, <2>1 DEF Goes
  <2> HIDE DEF Fine
  <2> QED
    BY <1>4, <1>11, <2>1, TradeIs
<1> HIDE DEF Fine
<1>12. ASSUME Criteria(h) \/ Decide(h) \/ Insert(h) PROVE Fine
  BY <1>1, <1>4, <1>12, CriteriaIs, DecideIs
<1>13. ASSUME Fails(h) PROVE Fine
  BY <1>1, <1>4, <1>5, <1>13, FailsIs
<1>14. Fine
  BY <1>6, <1>7, <1>8, <1>9, <1>10, <1>11, <1>12, <1>13 DEF Serve
<1> QED
  BY <1>1, <1>14 DEF Fine

(* AloneInv is kept by every step. *)
LEMMA AloneStep == TypeInv /\ AloneInv /\ [Next]_vars => AloneInv'
<1> SUFFICES ASSUME TypeInv, AloneInv, [Next]_vars, NEW h \in Handlers, call'[h].alone
             PROVE  /\ Busy' = {h}
                    /\ call'[h].at = "mark" => call'[h].todo \subseteq Having("open")'
                    /\ call'[h].id # NoRow  => call'[h].id \in Having("open")'
  BY DEF AloneInv
<1>1. ASSUME NEW g \in Handlers, Serve(g)
      PROVE  /\ Busy' = {h}
             /\ call'[h].at = "mark" => call'[h].todo \subseteq Having("open")'
             /\ call'[h].id # NoRow  => call'[h].id \in Having("open")'
  <2>1. g \in Busy /\ \A k \in Handlers \ {g} : call'[k] = call[k]
    BY <1>1, ServeIs
  <2>2. g = h
    BY <2>1 DEF AloneInv
  <2>3. /\ call[h].alone /\ ~Ends(h)
        /\ call'[h].at = "mark" => call'[h].todo \subseteq Having("open")'
        /\ call'[h].id # NoRow  => call'[h].id \in Having("open")'
    BY <1>1, <2>2, AloneServe
  <2>4. Busy = {h}
    BY <2>3 DEF AloneInv
  <2>5. Busy' = {h}
    BY <2>1, <2>2, <2>3, <2>4 DEF Busy, Ends
  <2> QED
    BY <2>3, <2>5
<1>2. ASSUME NEW g \in Handlers, Begins(g)
      PROVE  /\ Busy' = {h}
             /\ call'[h].at = "mark" => call'[h].todo \subseteq Having("open")'
             /\ call'[h].id # NoRow  => call'[h].id \in Having("open")'
  <2>1. g = h
    BY <1>2, BeginningIs
  <2>2. Busy = {} /\ call'[h].id = NoRow /\ call'[h].at # "mark" /\ call'[h].at # "idle"
    BY <1>2, <2>1, BeginningIs
  <2>3. \A k \in Handlers \ {h} : call'[k] = Idle
    BY <1>2, <2>1, <2>2, BeginningIs DEF Busy
  <2>4. Busy' = {h}
    BY <2>2, <2>3, IdleIs DEF Busy
  <2> QED
    BY <2>2, <2>4
<1>3. CASE PriceMoves \/ (\E id \in RowIds : Open(id) \/ GrowsOld(id)) \/ UNCHANGED vars
  <2>1. UNCHANGED call
    BY <1>3 DEF PriceMoves, Open, GrowsOld, vars
  <2>2. Busy' = Busy
    BY <2>1 DEF Busy
  <2>3. Having("open") \subseteq Having("open")'
    <3>1. CASE UNCHANGED rows
      BY <3>1 DEF Having
    <3>2. CASE \E id \in RowIds : Open(id) \/ GrowsOld(id)
      BY <3>2 DEF Open, GrowsOld, Created, Having, Row, TypeInv, TypeOK
    <3> QED
      BY <1>3, <3>1, <3>2 DEF PriceMoves, vars
  <2> QED
    BY <2>1, <2>2, <2>3 DEF AloneInv
<1> QED
  BY <1>1, <1>2, <1>3 DEF Next, Begins

(* AloneInv holds in every reachable state. *)
LEMMA AloneKnown == Spec => [](TypeInv /\ AloneInv)
<1>1. Init => AloneInv
  BY IdleIs DEF Init, AloneInv
<1> QED
  BY <1>1, AloneStep, TypeKnown, PTL DEF Spec

(* The UPDATEs of a repricing and of a close go by the id alone; still a     *)
(* closed position never reopens, and only its price changes, and that only  *)
(* while two requests, sales or reconciliations overlap, one of which writes *)
(* to a row the other has closed.                                            *)
THEOREM ClosedRowsAreFinal == Spec => ClosedIsFinal
<1>1. TypeInv /\ AloneInv /\ [Next]_vars =>
        [\A id \in Having("closed") :
           rows'[id] # rows[id] =>
             /\ rows'[id] = [rows[id] EXCEPT !.current = rows'[id].current]
             /\ \E h \in Busy : ~call[h].alone]_vars
  <2> SUFFICES ASSUME TypeInv, AloneInv, [Next]_vars,
                      NEW id \in Having("closed"), rows'[id] # rows[id]
               PROVE  /\ rows'[id] = [rows[id] EXCEPT !.current = rows'[id].current]
                      /\ \E h \in Busy : ~call[h].alone
    OBVIOUS
  <2>1. /\ rows \in [RowIds -> Row] /\ id \in RowIds /\ id \notin Having("open")
        /\ rows[id].status = "closed" /\ rows[id] \in Row
    BY DEF TypeInv, TypeOK, Having
  <2>2. ASSUME NEW h \in Handlers, MarkRow(h)
        PROVE  /\ rows'[id] = [rows[id] EXCEPT !.current = rows'[id].current]
               /\ \E g \in Busy : ~call[g].alone
    <3>1. PICK j \in call[h].todo : rows' = [rows EXCEPT ![j].current = call[h].quote]
      BY <2>2, MarkRowIs
    <3>2. j = id /\ rows'[id] = [rows[id] EXCEPT !.current = call[h].quote]
      BY <2>1, <3>1
    <3>3. ~call[h].alone
      BY <2>1, <2>2, <3>2, MarkRowIs DEF AloneInv
    <3>4. rows'[id].current = call[h].quote
      BY <2>1, <3>2 DEF Row
    <3> QED
      BY <2>2, <3>2, <3>3, <3>4, ServeIs DEF Serve
  <2>3. ASSUME NEW h \in Handlers, CloseRow(h)
        PROVE  /\ rows'[id] = [rows[id] EXCEPT !.current = rows'[id].current]
               /\ \E g \in Busy : ~call[g].alone
    <3>1. rows' = [rows EXCEPT ![call[h].id].status = "closed", ![call[h].id].current = call[h].quote]
      BY <2>3 DEF CloseRow
    <3>2. call[h].id = id
      BY <2>1, <2>3, <3>1, TradeIs
    <3>3. ~call[h].alone
      BY <2>1, <2>3, <3>2, TradeIs DEF AloneInv
    <3>4. rows'[id] = [rows[id] EXCEPT !.status = "closed", !.current = call[h].quote]
      BY <2>1, <3>1, <3>2
    <3>5. rows'[id] = [rows[id] EXCEPT !.current = rows'[id].current]
      BY <2>1, <3>4 DEF Row
    <3> QED
      BY <2>3, <3>3, <3>5, ServeIs DEF Serve
  <2>4. ASSUME NEW j \in RowIds, NEW entry, NEW cost, Created(j, entry, cost) PROVE FALSE
    BY <2>1, <2>4 DEF Created
  <2>5. ASSUME NEW j \in RowIds, GrowsOld(j) PROVE FALSE
    BY <2>1, <2>5 DEF GrowsOld
  <2>6. \/ \E j \in RowIds, entry, cost \in Prices : Created(j, entry, cost)
        \/ \E j \in RowIds : GrowsOld(j)
        \/ \E h \in Handlers : MarkRow(h) \/ CloseRow(h)
        \/ \E h \in Handlers, j \in RowIds : Created(j, call[h].quote, call[h].quote)
    BY RowsBecome
  <2> QED
    BY <2>2, <2>3, <2>4, <2>5, <2>6
<1> QED
  BY <1>1, AloneKnown, PTL DEF Spec, ClosedIsFinal

-----------------------------------------------------------------------------
(* Automatic closing goes by the price it has read *)

(* The marks a handler has made, or the price a row was opened at *)
TrueMarks(quote, todo) ==
  \A id \in Having("open") \ todo : rows[id].current \in {quote, rows[id].entry}

(* While a handler is alone, every open row that it has marked carries the   *)
(* price it read, and every row opened meanwhile the price it was opened at. *)
QuoteInv ==
  \A h \in Handlers :
    /\ call[h].at = "criteria" => call[h].todo = {}
    /\ call[h].alone /\ (call[h].at = "mark" \/ (call[h].at = "criteria" /\ call[h].fresh))
       => TrueMarks(call[h].quote, call[h].todo)

(* The marks stay true to the quote while nobody else is under way. *)
LEMMA QuoteServe ==
  ASSUME TypeInv, QuoteInv, NEW h \in Handlers, Serve(h)
  PROVE  /\ call'[h].at = "criteria" => call'[h].todo = {}
         /\ call'[h].alone /\ (call'[h].at = "mark" \/ (call'[h].at = "criteria" /\ call'[h].fresh))
            => TrueMarks(call[h].quote, call[h].todo)' 
<1> DEFINE Fine ==
         /\ call'[h].at = "criteria" => call'[h].todo = {}
         /\ call'[h].alone /\ (call'[h].at = "mark" \/ (call'[h].at = "criteria" /\ call'[h].fresh))
            => TrueMarks(call[h].quote, call[h].todo)'
<1>1. call'[h].at \notin {"mark", "criteria"} => Fine
  OBVIOUS
<1>2. Ends(h) => Fine
  BY IdleIs DEF Ends
<1>3. \A todo : NextUp(h, todo) => Fine
  BY <1>1, <1>2 DEF NextUp
<1>4. ASSUME NEW at, NEW todo, NEW id, Goes(h, at, todo, id), at \notin {"mark", "criteria"}
      PROVE  Fine
  BY <1>1, <1>4 DEF Goes
<1>5. ASSUME SelectOpen(h) PROVE Fine
  <2>1. Having("open")' = Having("open")
    BY <1>5, SelectOpenIs DEF Having
  <2>2. CASE Goes(h, "mark", Having("open"), NoRow)
    BY <2>1, <2>2 DEF Goes, TrueMarks
  <2>3. CASE Having("open") = {} /\ Becomes(h, Marked(call[h], TRUE))
    <3>1. Having("open")' = {}
      BY <2>1, <2>3
    <3>2. Ends(h) \/ call'[h].todo = {}
      BY <1>5, <2>3, MarkedLeads, SelectOpenIs
    <3> QED
      BY <1>2, <3>1, <3>2 DEF TrueMarks
  <2> QED
    BY <1>5, <2>2, <2>3, SelectOpenIs
<1>6. ASSUME MarkRow(h) PROVE Fine
  <2>1. PICK id \in call[h].todo :
          /\ rows' = [rows EXCEPT ![id].current = call[h].quote]
          /\ \/ Goes(h, "mark", call[h].todo \ {id}, NoRow)
             \/ call[h].todo = {id} /\ Becomes(h, Marked(call[h], TRUE))
    BY <1>6, MarkRowIs
  <2>2. call[h].at = "mark" /\ rows \in [RowIds -> Row] /\ id \in RowIds
    BY <1>6, MarkRowIs, HandIs DEF Call, TypeInv, TypeOK
  <2>3. /\ Having("open")' = Having("open")
        /\ \A j \in RowIds : rows'[j].current = IF j = id THEN call[h].quote ELSE rows[j].current
        /\ \A j \in RowIds : rows'[j].entry = rows[j].entry
    BY <2>1, <2>2 DEF Having, Row
  <2>4. Ends(h) \/ /\ call'[h].alone = call[h].alone /\ call'[h].quote = call[h].quote
                   /\ call'[h].todo = call[h].todo \ {id}
                   /\ call'[h].at = "criteria" => call'[h].todo = {}
    <3>1. CASE Goes(h, "mark", call[h].todo \ {id}, NoRow)
      BY <3>1 DEF Goes
    <3>2. CASE call[h].todo = {id} /\ Becomes(h, Marked(call[h], TRUE))
      BY <2>2, <3>2, MarkedLeads
    <3> QED
      BY <2>1, <3>1, <3>2
  <2>5. ASSUME call[h].alone, NEW j \in Having("open")', j \notin call[h].todo \ {id}
        PROVE  rows'[j].current \in {call[h].quote, rows'[j].entry}
    <3>1. j \in RowIds /\ j \in Having("open")
      BY <2>3 DEF Having
    <3>2. CASE j = id
      BY <2>3, <3>1, <3>2
    <3>3. CASE j # id
      BY <2>2, <2>3, <2>5, <3>1, <3>3 DEF QuoteInv, TrueMarks
    <3> QED
      BY <3>2, <3>3
  <2>6. CASE ~Ends(h)
    BY <2>4, <2>5, <2>6 DEF TrueMarks
  <2> QED
    BY <1>2, <2>6
<1>7. ASSUME Fails(h) PROVE Fine
  <2>1. CASE call[h].at \in {"select", "mark"} /\ Becomes(h, Marked(call[h], FALSE)) /\ ~Ends(h)
    BY <2>1, MarkedLeads
  <2> HIDE DEF Fine
  <2> QED
    BY <1>2, <1>3, <1>7, <2>1, FailsIs
<1> HIDE DEF Fine
<1>8. ASSUME ReadPrice(h) \/ Sale(h) \/ SelectRows(h) PROVE Fine
  BY <1>2, <1>3, <1>4, <1>8, ReadPriceIs, SaleIs
<1>9. ASSUME PickRow(h) \/ Trade(h) \/ CloseRow(h) PROVE Fine
  BY <1>3, <1>4, <1>9, PickRowIs, TradeIs DEF Holding
<1>10. ASSUME Criteria(h) \/ Decide(h) \/ Insert(h) PROVE Fine
  BY <1>2, <1>3, <1>10, CriteriaIs, DecideIs
<1>11. Fine
  BY <1>5, <1>6, <1>7, <1>8, <1>9, <1>10 DEF Serve
<1> QED
  BY <1>11 DEF Fine

(* QuoteInv is kept by every step. *)
LEMMA QuoteStep == TypeInv /\ AloneInv /\ QuoteInv /\ [Next]_vars => QuoteInv'
<1> SUFFICES ASSUME TypeInv, AloneInv, QuoteInv, [Next]_vars, NEW h \in Handlers
             PROVE  /\ call'[h].at = "criteria" => call'[h].todo = {}
                    /\ call'[h].alone
                       /\ (call'[h].at = "mark" \/ (call'[h].at = "criteria" /\ call'[h].fresh))
                       => TrueMarks(call[h].quote, call[h].todo)'
  BY DEF QuoteInv
<1>1. CASE Serve(h)
  BY <1>1, QuoteServe
<1>2. ASSUME NEW g \in Handlers \ {h}, Serve(g)
      PROVE  /\ ~call'[h].alone
             /\ call'[h].at = "criteria" => call'[h].todo = {}
  <2>1. g \in Busy /\ call'[h] = call[h]
    BY <1>2, ServeIs
  <2>2. ~call[h].alone
    BY <1>2, <2>1 DEF AloneInv
  <2> QED
    BY <2>1, <2>2 DEF QuoteInv
<1>3. ASSUME NEW g \in Handlers, Begins(g)
      PROVE  /\ call'[h].at \in {"mark", "criteria"} => ~call'[h].alone
             /\ call'[h].at = "criteria" => call'[h].todo = {}
  <2>1. CASE g = h
    BY <1>3, <2>1, BeginningIs
  <2>2. CASE g # h
    BY <1>3, <2>2, BeginningIs DEF QuoteInv
  <2> QED
    BY <2>1, <2>2
<1>4. CASE PriceMoves \/ UNCHANGED vars
  <2>1. UNCHANGED <<rows, call>>
    BY <1>4 DEF PriceMoves, vars
  <2> QED
    BY <2>1 DEF QuoteInv, TrueMarks, Having
<1>5. CASE \E id \in RowIds : Open(id) \/ GrowsOld(id)
  <2>1. UNCHANGED call
    BY <1>5 DEF Open, GrowsOld
  <2>2. \A j \in RowIds : \/ rows'[j].current = rows'[j].entry
                          \/ /\ rows'[j].current = rows[j].current
                             /\ rows'[j].entry = rows[j].entry
                             /\ rows'[j].status = rows[j].status
    <3>1. rows \in [RowIds -> Row]
      BY DEF TypeInv, TypeOK
    <3>2. ASSUME NEW id \in RowIds, Open(id)
          PROVE  \A j \in RowIds : rows'[j].current = rows'[j].entry \/ rows'[j] = rows[j]
      BY <3>1, <3>2 DEF Open, Created
    <3>3. ASSUME NEW id \in RowIds, GrowsOld(id)
          PROVE  \A j \in RowIds : /\ rows'[j].current = rows[j].current
                                   /\ rows'[j].entry = rows[j].entry
                                   /\ rows'[j].status = rows[j].status
      BY <3>1, <3>3 DEF GrowsOld, Row
    <3> QED
      BY <1>5, <3>2, <3>3
  <2> QED
    BY <2>1, <2>2 DEF QuoteInv, TrueMarks, Having
<1> QED
  BY <1>1, <1>2, <1>3, <1>4, <1>5 DEF Next, Begins

(* A row with its own opening price for a mark meets no limit, so it is      *)
(* closed for its age.                                                       *)
LEMMA FreshMeets ==
  ASSUME NEW r \in Row, r.current = r.entry, r.entry \in Nat, r.cost \in Nat \ {0},
         NEW by, Meets(by, r)
  PROVE  "days" \in by /\ r.old
<1> DEFINE c == r.cost
           b == Limit * c
<1>1. Limit \in Nat \ {0} /\ c \in Nat \ {0}
  BY MarksAssumption
<1>2. b \in Nat \ {0}
  <2> HIDE DEF c
  <2> QED
    BY <1>1
<1> DEFINE loss == -Limit
<1>3. loss * c = -b
  BY <1>1
<1>4. AtMost(r, loss) => 0 <= -b
  <2>1. AtMost(r, loss) => 100 * (r.current - r.entry) <= loss * c
    BY DEF AtMost, Pnl
  <2>2. 100 * (r.current - r.entry) = 0
    OBVIOUS
  <2> HIDE DEF loss, b
  <2> QED
    BY <1>3, <2>1, <2>2
<1>5. AtLeast(r, Limit) => 0 >= b
  BY DEF AtLeast, Pnl
<1> HIDE DEF b
<1> QED
  BY <1>2, <1>4, <1>5 DEF Meets

(* Automatic closing picks a position only for its age or a limit met at the *)
(* price it has just read, never for a mark an earlier request has left, as  *)
(* long as it is alone and its update of the rows has not failed.            *)
THEOREM PickedForItsQuote == Spec => ClosedForItsQuote
<1>1. TypeInv /\ AloneInv /\ QuoteInv /\ [Next]_vars =>
        [\A h \in Busy :
           call[h].at = "criteria" /\ call[h].alone /\ call[h].fresh
           => \A id \in call'[h].todo :
                Meets(call[h].by, [rows[id] EXCEPT !.current = call[h].quote])]_vars
  <2> SUFFICES ASSUME TypeInv, AloneInv, QuoteInv, [Next]_vars,
                      NEW h \in Busy, call[h].at = "criteria", call[h].alone, call[h].fresh,
                      NEW id \in call'[h].todo
               PROVE  Meets(call[h].by, [rows[id] EXCEPT !.current = call[h].quote])
    OBVIOUS
  <2>1. h \in Handlers /\ call[h].todo = {} /\ TrueMarks(call[h].quote, {})
    BY DEF Busy, QuoteInv
  <2>2. Criteria(h)
    <3>1. call'[h].todo # call[h].todo
      BY <2>1
    <3>2. ASSUME NEW g \in Handlers, Begins(g) PROVE FALSE
      BY <2>1, <3>1, <3>2, BeginningIs DEF Busy
    <3>3. ASSUME NEW g \in Handlers \ {h}, Serve(g) PROVE FALSE
      BY <2>1, <3>1, <3>3, ServeIs
    <3>4. Serve(h)
      BY <3>1, <3>2, <3>3 DEF Next, Begins, PriceMoves, Open, GrowsOld, vars
    <3>5. ~Fails(h)
      <4> SUFFICES ASSUME Fails(h) PROVE FALSE
        OBVIOUS
      <4>1. Ends(h) \/ NextUp(h, {})
        BY <2>1, FailsIs
      <4> QED
        BY <2>1, <3>1, <4>1, IdleIs DEF Ends, NextUp
    <3> QED
      BY <3>4, <3>5 DEF Serve, ReadPrice, SelectOpen, MarkRow, Sale, SelectRows, Decide, Insert,
                        PickRow, Trade, CloseRow
  <2>3. id \in Having("open") /\ Meets(call[h].by, rows[id])
    BY <2>1, <2>2, CriteriaIs, IdleIs DEF NextUp, Ends
  <2>4. /\ rows[id] \in Row /\ rows[id].entry \in Nat /\ rows[id].cost \in Nat \ {0}
        /\ rows[id].current \in {call[h].quote, rows[id].entry}
    BY <2>1, <2>3, MarksAssumption DEF TypeInv, TypeOK, TrueMarks, Having
  <2> DEFINE r == [rows[id] EXCEPT !.current = call[h].quote]
  <2>5. CASE rows[id].current = call[h].quote
    <3>1. r = rows[id]
      BY <2>4, <2>5 DEF Row
    <3> QED
      BY <2>3, <3>1
  <2>6. CASE rows[id].current = rows[id].entry
    <3>1. "days" \in call[h].by /\ rows[id].old
      BY <2>3, <2>4, <2>6, FreshMeets
    <3>2. r.old = rows[id].old
      BY <2>4 DEF Row
    <3> HIDE DEF r
    <3>3. Meets(call[h].by, r)
      BY <3>1, <3>2 DEF Meets
    <3> QED
      BY <3>3 DEF r
  <2> QED
    BY <2>4, <2>5, <2>6
<1>2. Init => QuoteInv
  BY IdleIs DEF Init, QuoteInv
<1> QED
  BY <1>1, <1>2, QuoteStep, AloneKnown, PTL DEF Spec, ClosedForItsQuote

=============================================================================
