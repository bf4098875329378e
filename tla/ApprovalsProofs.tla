---------------------------- MODULE ApprovalsProofs ----------------------------
(***************************************************************************)
(* Proofs about Approvals for any jobs, machines, owners, forbidden actions *)
(* and limits.  What is true of an order, of its row and of what Studio is  *)
(* told rests on how the three kinds of handler and the agent share the     *)
(* order, so the invariant is built in layers: who knows of which order,    *)
(* what each of them may believe about it, and what a press or a report in  *)
(* the middle still owes to the job.                                        *)
(***************************************************************************)
EXTENDS Approvals, SequenceTheorems, FiniteSetTheorems, TLAPS

-------------------------------------------------------------------------------
(***************************************************************************)
(* Presses and the orders they create.  That the table never holds more     *)
(* orders than there were presses needs that every order has a press of its *)
(* own.                                                                     *)
(***************************************************************************)
Pressed == {p \in DOMAIN presses : presses[p].order # 0}

PressesCounted == IsFiniteSet(Pressed) /\ Cardinality(Pressed) = Len(orders)

PressKnows(h) ==
    /\ h.step = "create" => h.order = 0
    /\ h.step \in {"resolve", "note", "wait"} => h.order # 0
    /\ h.step = "note" => h.job \in StudioJob
    /\ h.order # 0 => h.order \in DOMAIN orders /\ JobOf(h.order) = h.job
    /\ h.step = "resolve" => orders[h.order].status = "pending"

PressesOwn ==
    /\ \A p \in DOMAIN presses : PressKnows(presses[p])
    /\ \A p, q \in DOMAIN presses :
          presses[p].order = presses[q].order /\ presses[p].order # 0 => p = q

PressInv == TypeOK /\ PressesCounted /\ PressesOwn

LEMMA TableIndexes ==
    ASSUME NEW table \in Seq(OrderRow), Len(table) <= MaxPresses, NEW o \in DOMAIN table
    PROVE  o \in Order /\ table[o] \in OrderRow
<1>1. DOMAIN table = 1..Len(table) /\ Len(table) \in Nat
  BY LenProperties
<1> QED
  BY <1>1, LimitsAssumption DEF Order

LEMMA Indexes ==
    ASSUME TypeOK
    PROVE  /\ DOMAIN orders = 1..Len(orders)
           /\ DOMAIN presses = 1..Len(presses)
           /\ Len(orders) \in 0..MaxPresses
           /\ Len(presses) \in 0..MaxPresses
           /\ DOMAIN orders \subseteq Order
           /\ \A o \in DOMAIN orders : /\ orders[o] \in OrderRow
                                       /\ JobOf(o) \in Job
                                       /\ Holder(o) \in Machine
           /\ \A p \in DOMAIN presses : presses[p] \in PressHandler
<1>1. /\ DOMAIN orders = 1..Len(orders)
      /\ Len(orders) \in Nat
      /\ \A o \in DOMAIN orders : orders[o] \in OrderRow
  BY LenProperties DEF TypeOK
<1>2. /\ DOMAIN presses = 1..Len(presses)
      /\ Len(presses) \in Nat
      /\ \A p \in DOMAIN presses : presses[p] \in PressHandler
  BY LenProperties DEF TypeOK
<1>3. \A o \in DOMAIN orders : JobOf(o) \in Job /\ Holder(o) \in Machine
  BY <1>1, JobsAssumption DEF JobOf, Holder, OrderRow
<1> QED
  BY <1>1, <1>2, <1>3, LimitsAssumption DEF TypeOK, Order

\* What a statement on the approvals table does to it.
LEMMA StatusWritten ==
    ASSUME TypeOK, NEW o \in DOMAIN orders,
           NEW s \in {"pending", "approved", "expired", "rejected"}, SetStatus(o, s)
    PROVE  /\ orders' \in Seq(OrderRow)
           /\ Len(orders') = Len(orders)
           /\ DOMAIN orders' = DOMAIN orders
           /\ \A q \in DOMAIN orders :
                 /\ orders'[q].job = orders[q].job
                 /\ orders'[q].action = orders[q].action
                 /\ orders'[q].status = IF q = o THEN s ELSE orders[q].status
<1> DEFINE row == [orders[o] EXCEPT !.status = s]
<1>1. orders \in Seq(OrderRow) /\ DOMAIN orders = 1..Len(orders) /\ orders[o] \in OrderRow
  BY Indexes DEF TypeOK
<1>2. row \in OrderRow
  BY <1>1 DEF OrderRow
<1>3. orders' = [orders EXCEPT ![o] = row]
  BY <1>1 DEF SetStatus
<1>4. /\ [orders EXCEPT ![o] = row] \in Seq(OrderRow)
      /\ Len([orders EXCEPT ![o] = row]) = Len(orders)
      /\ \A q \in 1..Len(orders) :
            [orders EXCEPT ![o] = row][q] = IF q = o THEN row ELSE orders[q]
  BY <1>1, <1>2, ExceptSeq
<1>5. DOMAIN orders' = DOMAIN orders
  BY <1>1, <1>3
<1>6. row.job = orders[o].job /\ row.action = orders[o].action /\ row.status = s
  BY <1>1 DEF OrderRow
<1> QED
  BY <1>1, <1>3, <1>4, <1>5, <1>6

\* A press goes on and stays the press of its order.
LEMMA PressWritten ==
    ASSUME TypeOK, NEW p \in DOMAIN presses, NEW h \in PressHandler,
           presses' = [presses EXCEPT ![p] = h]
    PROVE  /\ presses' \in Seq(PressHandler)
           /\ Len(presses') = Len(presses)
           /\ DOMAIN presses' = DOMAIN presses
           /\ \A q \in DOMAIN presses : presses'[q] = IF q = p THEN h ELSE presses[q]
<1>1. presses \in Seq(PressHandler) /\ DOMAIN presses = 1..Len(presses)
  BY Indexes DEF TypeOK
<1> QED
  BY <1>1, ExceptSeq

LEMMA PressAdvanced ==
    ASSUME TypeOK, NEW p \in DOMAIN presses,
           NEW step \in {"create", "resolve", "note", "wait", "ended"},
           Advance(p, step)
    PROVE  /\ presses' \in Seq(PressHandler)
           /\ Len(presses') = Len(presses)
           /\ DOMAIN presses' = DOMAIN presses
           /\ \A q \in DOMAIN presses :
                 /\ q # p => presses'[q] = presses[q]
                 /\ presses'[q].order = presses[q].order
                 /\ presses'[q].job = presses[q].job
                 /\ presses'[q].action = presses[q].action
                 /\ presses'[q].step = IF q = p THEN step ELSE presses[q].step
<1>1. presses[p] \in PressHandler
  BY Indexes
<1>2. [presses[p] EXCEPT !.step = step] \in PressHandler
  BY <1>1 DEF PressHandler
<1>3. presses' = [presses EXCEPT ![p] = [presses[p] EXCEPT !.step = step]]
  BY DEF Advance
<1> QED
  BY <1>1, <1>2, <1>3, PressWritten DEF PressHandler

(***************************************************************************)
(* An order only goes forward: from pending to approved and from there to   *)
(* settled, and it stays the order of its job.                              *)
(***************************************************************************)
RowMoves(old, new) ==
    /\ new.job = old.job
    /\ new.action = old.action
    /\ \/ new.status = old.status
       \/ old.status = "pending" /\ new.status = "approved"
       \/ old.status = "approved" /\ new.status \in {"expired", "rejected"}

RowsGrow ==
    /\ DOMAIN orders \subseteq DOMAIN orders'
    /\ \A o \in DOMAIN orders : RowMoves(orders[o], orders'[o])
    /\ \A o \in DOMAIN orders' \ DOMAIN orders : orders'[o].status = "pending"

\* What the presses and the table have to show after a step.
TablesTyped ==
    /\ orders \in Seq(OrderRow) /\ Len(orders) <= MaxPresses
    /\ presses \in Seq(PressHandler) /\ Len(presses) <= MaxPresses

PressGood == TablesTyped' /\ PressesCounted' /\ PressesOwn' /\ RowsGrow

LEMMA TablesUntouched ==
    ASSUME PressInv, UNCHANGED <<orders, presses>>
    PROVE  PressGood
<1>1. TablesTyped' /\ PressesCounted'
  BY DEF PressInv, TypeOK, TablesTyped, PressesCounted, Pressed
<1>2. PressesOwn'
  BY DEF PressInv, PressesOwn, PressKnows, JobOf
<1>3. RowsGrow
  BY DEF RowsGrow, RowMoves
<1> QED
  BY <1>1, <1>2, <1>3 DEF PressGood

\* The button is pressed.
LEMMA PressEntered ==
    ASSUME PressInv, NEW j \in Job, NEW a \in Actions, Entered(j, a), orders' = orders
    PROVE  PressGood
<1> DEFINE new == [step |-> "create", job |-> j, action |-> a, order |-> 0]
<1>1. presses \in Seq(PressHandler) /\ new \in PressHandler
  BY DEF PressInv, TypeOK, PressHandler
<1>2. /\ presses' \in Seq(PressHandler)
      /\ Len(presses') = Len(presses) + 1
      /\ \A p \in 1..Len(presses) : presses'[p] = presses[p]
      /\ presses'[Len(presses) + 1] = new
  BY <1>1, AppendProperties DEF Entered
<1>3. /\ DOMAIN presses = 1..Len(presses)
      /\ DOMAIN presses' = 1..(Len(presses) + 1)
      /\ Len(presses) \in Nat
  BY <1>1, <1>2, LenProperties
<1>4. TablesTyped'
  BY <1>2, <1>3, LimitsAssumption DEF PressInv, TypeOK, TablesTyped, Entered
<1>5. Pressed' = Pressed
  BY <1>2, <1>3 DEF Pressed
<1>6. PressesOwn'
  <2>1. \A p \in DOMAIN presses : presses'[p] = presses[p]
    BY <1>2, <1>3
  <2>2. \A p \in DOMAIN presses' : p \in DOMAIN presses \/ presses'[p] = new
    BY <1>2, <1>3
  <2>3. \A h : PressKnows(h)' <=> PressKnows(h)
    BY DEF PressKnows, JobOf
  <2>4. PressKnows(new)
    BY DEF PressKnows
  <2> QED
    BY <2>1, <2>2, <2>3, <2>4 DEF PressInv, PressesOwn
<1>7. PressesCounted' /\ RowsGrow
  BY <1>5 DEF PressInv, PressesCounted, RowsGrow, RowMoves
<1> QED
  BY <1>4, <1>6, <1>7 DEF PressGood

\* createApproval: there is a press for the order, so there is room for it.
LEMMA OrderCreated ==
    ASSUME PressInv, NEW p \in DOMAIN presses, CreateOrder(p)
    PROVE  /\ PressGood
           /\ DOMAIN orders' = DOMAIN orders \cup {Len(orders) + 1}
           /\ \A o \in DOMAIN orders : orders'[o] = orders[o]
           /\ Len(orders) + 1 \notin DOMAIN orders
           /\ orders'[Len(orders) + 1].status = "pending"
           /\ orders'[Len(orders) + 1].job = presses[p].job
           /\ orders'[Len(orders) + 1].action = presses[p].action
           /\ DOMAIN presses' = DOMAIN presses
           /\ \A q \in DOMAIN presses : q # p => presses'[q] = presses[q]
           /\ presses'[p].step = "resolve"
           /\ presses'[p].order = Len(orders) + 1
           /\ presses'[p].job = presses[p].job
           /\ presses'[p].action = presses[p].action
<1> DEFINE h   == presses[p]
           new == [job |-> h.job, action |-> h.action, status |-> "pending"]
           o   == Len(orders) + 1
<1>1. /\ h \in PressHandler
      /\ h.step = "create"
      /\ h.order = 0
      /\ orders \in Seq(OrderRow)
      /\ new \in OrderRow
  BY Indexes DEF PressInv, TypeOK, CreateOrder, PressesOwn, PressKnows, PressHandler,
                 OrderRow
<1>2. /\ orders' \in Seq(OrderRow)
      /\ Len(orders') = o
      /\ \A q \in 1..Len(orders) : orders'[q] = orders[q]
      /\ orders'[o] = new
  BY <1>1, AppendProperties DEF CreateOrder
<1>3. /\ DOMAIN orders = 1..Len(orders)
      /\ DOMAIN orders' = 1..o
      /\ Len(orders) \in Nat
      /\ DOMAIN presses = 1..Len(presses)
      /\ Len(presses) \in 0..MaxPresses
  BY <1>1, <1>2, LenProperties, Indexes DEF PressInv
<1>4. o <= MaxPresses
  <2>1. Pressed \cup {p} \subseteq 1..Len(presses)
    BY <1>3 DEF Pressed
  <2>2. p \notin Pressed
    BY <1>1 DEF Pressed
  <2>3. Cardinality(Pressed \cup {p}) = o
    BY <2>2, FS_AddElement DEF PressInv, PressesCounted
  <2>4. IsFiniteSet(1..Len(presses)) /\ Cardinality(1..Len(presses)) = Len(presses)
    <3>1. 1 \in Int /\ Len(presses) \in Int /\ Len(presses) >= 0
      BY <1>3, LimitsAssumption
    <3>2. /\ IsFiniteSet(1..Len(presses))
          /\ Cardinality(1..Len(presses))
                = IF 1 > Len(presses) THEN 0 ELSE Len(presses) - 1 + 1
      BY <3>1, FS_Interval
    <3> QED
      BY <3>1, <3>2
  <2>5. Cardinality(Pressed \cup {p}) <= Len(presses)
    BY <2>1, <2>4, FS_Subset
  <2> QED
    BY <1>3, <2>3, <2>5, LimitsAssumption
<1>5. o \in Order
  BY <1>3, <1>4, LimitsAssumption DEF Order
<1>6. [h EXCEPT !.step = "resolve", !.order = o] \in PressHandler
  BY <1>1, <1>5 DEF PressHandler
<1>7. presses' = [presses EXCEPT ![p] = [h EXCEPT !.step = "resolve", !.order = o]]
  BY <1>2 DEF CreateOrder
<1>8. /\ presses' \in Seq(PressHandler)
      /\ Len(presses') = Len(presses)
      /\ DOMAIN presses' = DOMAIN presses
      /\ \A q \in DOMAIN presses :
            presses'[q] = IF q = p THEN [h EXCEPT !.step = "resolve", !.order = o]
                          ELSE presses[q]
  BY <1>6, <1>7, PressWritten DEF PressInv
<1>9. /\ presses'[p].step = "resolve"
      /\ presses'[p].order = o
      /\ presses'[p].job = h.job
      /\ presses'[p].action = h.action
      /\ \A q \in DOMAIN presses : q # p => presses'[q] = presses[q]
  BY <1>1, <1>8 DEF PressHandler
<1>10. TablesTyped'
  BY <1>2, <1>4, <1>8 DEF PressInv, TypeOK, TablesTyped
<1>11. PressesCounted'
  <2>1. Pressed' = Pressed \cup {p}
    BY <1>3, <1>8, <1>9 DEF Pressed
  <2>2. p \notin Pressed
    BY <1>1 DEF Pressed
  <2> QED
    BY <1>2, <2>1, <2>2, FS_AddElement DEF PressInv, PressesCounted
<1>12. PressesOwn'
  <2>1. ASSUME NEW q \in DOMAIN presses'
        PROVE  PressKnows(presses[q])'
    <3>1. CASE q = p
      BY <1>2, <1>3, <1>9, <3>1 DEF PressKnows, JobOf
    <3>2. CASE q # p
      BY <1>2, <1>3, <1>8, <1>9, <2>1, <3>2 DEF PressInv, PressesOwn, PressKnows, JobOf
    <3> QED
      BY <3>1, <3>2
  <2>2. \A q \in DOMAIN presses : q # p => presses[q].order # o
    BY <1>3 DEF PressInv, PressesOwn, PressKnows
  <2>3. \A q, r \in DOMAIN presses :
            presses'[q].order = presses'[r].order /\ presses'[q].order # 0 => q = r
    BY <1>8, <1>9, <2>2 DEF PressInv, PressesOwn
  <2> QED
    BY <1>8, <2>1, <2>3 DEF PressesOwn
<1>13. RowsGrow
  BY <1>2, <1>3 DEF RowsGrow, RowMoves
<1>14. /\ DOMAIN orders' = DOMAIN orders \cup {o}
       /\ \A q \in DOMAIN orders : orders'[q] = orders[q]
       /\ o \notin DOMAIN orders
  BY <1>2, <1>3
<1> QED
  BY <1>2, <1>8, <1>9, <1>10, <1>11, <1>12, <1>13, <1>14 DEF PressGood

\* resolveApproval: the row is still as createApproval left it.
LEMMA OrderApproved ==
    ASSUME PressInv, NEW p \in DOMAIN presses, ApproveOrder(p)
    PROVE  /\ PressGood
           /\ DOMAIN orders' = DOMAIN orders
           /\ presses[p].order \in DOMAIN orders
           /\ orders[presses[p].order].status = "pending"
           /\ orders'[presses[p].order].status = "approved"
           /\ \A q \in DOMAIN orders :
                 q # presses[p].order => orders'[q].status = orders[q].status
<1> DEFINE h == presses[p]
           o == h.order
           step == IF h.job \in StudioJob THEN "note" ELSE "wait"
<1>1. /\ h \in PressHandler
      /\ h.step = "resolve"
      /\ o # 0
      /\ o \in DOMAIN orders
      /\ orders[o].status = "pending"
      /\ JobOf(o) = h.job
  BY Indexes DEF PressInv, ApproveOrder, PressesOwn, PressKnows
<1>2. /\ orders' \in Seq(OrderRow)
      /\ Len(orders') = Len(orders)
      /\ DOMAIN orders' = DOMAIN orders
      /\ \A q \in DOMAIN orders :
            /\ orders'[q].job = orders[q].job
            /\ orders'[q].action = orders[q].action
            /\ orders'[q].status = IF q = o THEN "approved" ELSE orders[q].status
  BY <1>1, StatusWritten DEF PressInv, ApproveOrder
<1>3. step \in {"create", "resolve", "note", "wait", "ended"} /\ Advance(p, step)
  BY DEF ApproveOrder
<1>4. /\ presses' \in Seq(PressHandler)
      /\ Len(presses') = Len(presses)
      /\ DOMAIN presses' = DOMAIN presses
      /\ \A q \in DOMAIN presses :
            /\ q # p => presses'[q] = presses[q]
            /\ presses'[q].order = presses[q].order
            /\ presses'[q].job = presses[q].job
            /\ presses'[q].step = IF q = p THEN step ELSE presses[q].step
  BY <1>3, PressAdvanced DEF PressInv
<1>5. TablesTyped'
  BY <1>2, <1>4 DEF PressInv, TypeOK, TablesTyped
<1>6. PressesCounted'
  <2>1. Pressed' = Pressed
    BY <1>4 DEF Pressed
  <2> QED
    BY <1>2, <2>1 DEF PressInv, PressesCounted
<1>7. PressesOwn'
  <2>1. ASSUME NEW q \in DOMAIN presses'
        PROVE  PressKnows(presses[q])'
    <3>1. CASE q = p
      BY <1>1, <1>2, <1>4, <3>1 DEF PressKnows, JobOf
    <3>2. CASE q # p
      BY <1>1, <1>2, <1>4, <2>1, <3>2 DEF PressInv, PressesOwn, PressKnows, JobOf
    <3> QED
      BY <3>1, <3>2
  <2> QED
    BY <1>4, <2>1 DEF PressInv, PressesOwn
<1>8. RowsGrow
  BY <1>1, <1>2 DEF RowsGrow, RowMoves
<1> QED
  BY <1>1, <1>2, <1>5, <1>6, <1>7, <1>8 DEF PressGood

\* The rest of a press writes the job's row.
LEMMA PressGoesOn ==
    ASSUME PressInv, NEW p \in DOMAIN presses, orders' = orders,
           \/ presses[p].step = "note" /\ Advance(p, "wait")
           \/ Advance(p, "ended")
    PROVE  PressGood
<1>1. PICK step \in {"wait", "ended"} : /\ Advance(p, step)
                                        /\ step = "wait" => presses[p].step = "note"
  OBVIOUS
<1>2. /\ presses' \in Seq(PressHandler)
      /\ Len(presses') = Len(presses)
      /\ DOMAIN presses' = DOMAIN presses
      /\ \A q \in DOMAIN presses :
            /\ q # p => presses'[q] = presses[q]
            /\ presses'[q].order = presses[q].order
            /\ presses'[q].job = presses[q].job
            /\ presses'[q].step = IF q = p THEN step ELSE presses[q].step
  BY <1>1, PressAdvanced DEF PressInv
<1>3. TablesTyped'
  BY <1>2 DEF PressInv, TypeOK, TablesTyped
<1>4. PressesCounted'
  <2>1. Pressed' = Pressed
    BY <1>2 DEF Pressed
  <2> QED
    BY <2>1 DEF PressInv, PressesCounted
<1>5. PressesOwn'
  <2>1. ASSUME NEW q \in DOMAIN presses
        PROVE  PressKnows(presses[q])'
    <3>1. CASE q = p
      BY <1>1, <1>2, <3>1 DEF PressInv, PressesOwn, PressKnows, JobOf
    <3>2. CASE q # p
      BY <1>2, <3>2 DEF PressInv, PressesOwn, PressKnows, JobOf
    <3> QED
      BY <3>1, <3>2
  <2>2. \A q, r \in DOMAIN presses :
            presses'[q].order = presses'[r].order /\ presses'[q].order # 0 => q = r
    BY <1>2 DEF PressInv, PressesOwn
  <2> QED
    BY <1>2, <2>1, <2>2 DEF PressesOwn
<1>6. RowsGrow
  BY DEF RowsGrow, RowMoves
<1> QED
  BY <1>3, <1>4, <1>5, <1>6 DEF PressGood

\* completeApproval settles an approved row and no other.
LEMMA OrderSettled ==
    ASSUME PressInv, NEW o \in DOMAIN orders, NEW ok \in BOOLEAN, Consumed(o, ok),
           presses' = presses
    PROVE  /\ PressGood
           /\ DOMAIN orders' = DOMAIN orders
           /\ \A q \in DOMAIN orders :
                 orders'[q].status =
                    IF q = o /\ Open(o) THEN (IF ok THEN "expired" ELSE "rejected")
                    ELSE orders[q].status
<1>1. CASE ~Open(o)
  <2>1. orders' = orders
    BY <1>1 DEF Consumed
  <2> QED
    BY <1>1, <2>1, TablesUntouched
<1>2. CASE Open(o)
  <2>1. SetStatus(o, IF ok THEN "expired" ELSE "rejected")
    BY <1>2 DEF Consumed
  <2>2. /\ orders' \in Seq(OrderRow)
        /\ Len(orders') = Len(orders)
        /\ DOMAIN orders' = DOMAIN orders
        /\ \A q \in DOMAIN orders :
              /\ orders'[q].job = orders[q].job
              /\ orders'[q].action = orders[q].action
              /\ orders'[q].status = IF q = o THEN (IF ok THEN "expired" ELSE "rejected")
                                     ELSE orders[q].status
    BY <2>1, StatusWritten DEF PressInv
  <2>3. TablesTyped'
    BY <2>2 DEF PressInv, TypeOK, TablesTyped
  <2>4. PressesCounted'
    BY <2>2 DEF PressInv, PressesCounted, Pressed
  <2>5. PressesOwn'
    BY <1>2, <2>2 DEF PressInv, PressesOwn, PressKnows, JobOf, Open
  <2>6. RowsGrow
    BY <1>2, <2>2 DEF RowsGrow, RowMoves, Open
  <2> QED
    BY <1>2, <2>2, <2>3, <2>4, <2>5, <2>6 DEF PressGood
<1> QED
  BY <1>1, <1>2

-------------------------------------------------------------------------------
(* Type correctness *)

\* The state outside the presses and the approvals table.
RestTyped ==
    /\ status \in [Job -> {"completed", "waiting_for_approval", "interrupted"}]
    /\ decision \in [Job -> Decisions]
    /\ completions \subseteq CompletionHandler
    /\ results \subseteq [job : Job, decision : Decisions]
    /\ page \in [Machine -> SUBSET Order]
    /\ outcome \in [Machine -> [Order -> {"none", "ok", "failed"}]]
    /\ consumed \in [Machine -> SUBSET Order]
    /\ worktree \in [Job -> {"dirty", "committed", "gone"}]
    /\ past \in [Order -> Past]
    /\ faults \in 0..MaxFaults

LEMMA TypeParts == TypeOK <=> TablesTyped /\ RestTyped
  BY DEF TypeOK, TablesTyped, RestTyped

LEMMA PressActions ==
    ASSUME PressInv,
           \/ \E b \in Offered : StudioPress(b[1], b[2]) \/ TelegramPress(b[1], b[2])
           \/ \E p \in DOMAIN presses : PressStep(p) \/ LosePress(p)
    PROVE  PressGood /\ RestTyped'
<1>1. RestTyped
  BY TypeParts DEF PressInv
<1>2. ASSUME NEW b \in Offered, StudioPress(b[1], b[2]) \/ TelegramPress(b[1], b[2])
      PROVE  PressGood /\ RestTyped'
  <2>1. b[1] \in Job /\ b[2] \in Actions
    BY OfferedAssumption
  <2>2. /\ Entered(b[1], b[2])
        /\ UNCHANGED <<rowVars, completions, results, agentVars, past, faults>>
    BY <1>2 DEF StudioPress, TelegramPress
  <2>3. PressGood
    BY <2>1, <2>2, PressEntered DEF rowVars
  <2> QED
    BY <1>1, <2>2, <2>3 DEF RestTyped, rowVars, agentVars
<1>3. ASSUME NEW p \in DOMAIN presses, CreateOrder(p)
      PROVE  PressGood /\ RestTyped'
  BY <1>1, <1>3, OrderCreated DEF CreateOrder, RestTyped, agentVars
<1>4. ASSUME NEW p \in DOMAIN presses, ApproveOrder(p)
      PROVE  PressGood /\ RestTyped'
  BY <1>1, <1>4, OrderApproved DEF ApproveOrder, RestTyped, agentVars
<1>5. ASSUME NEW p \in DOMAIN presses, NoteDecision(p)
      PROVE  PressGood /\ RestTyped'
  <2>1. PressGood
    BY <1>5, PressGoesOn DEF NoteDecision
  <2>2. decision' \in [Job -> Decisions]
    BY <1>1, <1>5 DEF NoteDecision, RestTyped, Decisions
  <2> QED
    BY <1>1, <1>5, <2>1, <2>2 DEF NoteDecision, RestTyped, agentVars
<1>6. ASSUME NEW p \in DOMAIN presses, AwaitApproval(p)
      PROVE  PressGood /\ RestTyped'
  <2>1. PressGood
    BY <1>6, PressGoesOn DEF AwaitApproval
  <2> QED
    BY <1>1, <1>6, <2>1 DEF AwaitApproval, RestTyped, agentVars
<1>7. ASSUME NEW p \in DOMAIN presses, LosePress(p)
      PROVE  PressGood /\ RestTyped'
  <2>1. PressGood
    BY <1>7, PressGoesOn DEF LosePress, rowVars
  <2>2. faults' \in 0..MaxFaults
    BY <1>1, <1>7, LimitsAssumption DEF LosePress, Fault, RestTyped
  <2> QED
    BY <1>1, <1>7, <2>1, <2>2 DEF LosePress, RestTyped, rowVars, agentVars
<1> QED
  BY <1>2, <1>3, <1>4, <1>5, <1>6, <1>7 DEF PressStep

(***************************************************************************)
(* Who knows of an order: an agent and the handlers of its reports only     *)
(* ever name orders that were approved.                                     *)
(***************************************************************************)
Known(o) == o \in DOMAIN orders /\ orders[o].status # "pending"

AgentKnows(m) ==
    /\ \A o \in page[m] : Known(o) /\ Holder(o) = m
    /\ \A o \in Order : outcome[m][o] # "none" => Known(o) /\ Holder(o) = m
    /\ \A o \in consumed[m] : Known(o) /\ Holder(o) = m /\ past[o].runs > 0

HandlerKnows(c) ==
    /\ Known(c.order)
    /\ c.step = "note" => JobOf(c.order) \in StudioJob

KnownInv ==
    /\ \A m \in Machine : AgentKnows(m)
    /\ \A c \in completions : HandlerKnows(c)

\* git is asked and its answer remembered.
LEMMA RunRecorded ==
    ASSUME TypeOK, NEW o \in Order, NEW ok \in BOOLEAN,
           past' = [past EXCEPT ![o].runs = @ + 1, ![o].done = @ \/ ok]
    PROVE  /\ past' \in [Order -> Past]
           /\ \A q \in Order : q # o => past'[q] = past[q]
           /\ past'[o].runs = past[o].runs + 1
           /\ past'[o].done <=> past[o].done \/ ok
           /\ past'[o].crashed = past[o].crashed
           /\ past'[o].unlisted = past[o].unlisted
           /\ past'[o].raced = past[o].raced
<1>1. past \in [Order -> Past] /\ past[o] \in Past
  BY DEF TypeOK
<1>2. (past[o].done \/ ok) \in BOOLEAN /\ past[o].runs + 1 \in Nat
  BY <1>1 DEF Past
<1>3. PICK d \in BOOLEAN : d <=> past[o].done \/ ok
  BY <1>2
<1>4. d = (past[o].done \/ ok)
  BY <1>2, <1>3
<1> DEFINE row == [past[o] EXCEPT !.runs = @ + 1, !.done = d]
<1>5. past' = [past EXCEPT ![o] = row]
  BY <1>4
<1>6. /\ row \in Past
      /\ row.runs = past[o].runs + 1
      /\ row.done = d
      /\ row.crashed = past[o].crashed
      /\ row.unlisted = past[o].unlisted
      /\ row.raced = past[o].raced
  BY <1>1, <1>2 DEF Past
<1> HIDE DEF row
<1>7. past' \in [Order -> Past] /\ past'[o] = row /\ \A q \in Order : q # o => past'[q] = past[q]
  BY <1>1, <1>5, <1>6
<1> QED
  BY <1>3, <1>6, <1>7

LEMMA AgentActions ==
    ASSUME PressInv, KnownInv, NEW m \in Machine, AgentStep(m) \/ GiveUp(m) \/ Restart(m)
    PROVE  PressGood /\ RestTyped'
<1>1. RestTyped
  BY TypeParts DEF PressInv
<1>2. PressGood
  BY TablesUntouched
     DEF AgentStep, List, Refuse, CarryOut, Report, GiveUp, Restart, rowVars, handlerVars
<1>3. CASE List(m)
  <2>1. Listed \cap Mine(m) \subseteq Order
    BY Indexes DEF Listed, PressInv
  <2>2. page' \in [Machine -> SUBSET Order]
    BY <1>1, <1>3, <2>1 DEF List, RestTyped
  <2>3. outcome' \in [Machine -> [Order -> {"none", "ok", "failed"}]]
    BY <1>1, <1>3 DEF List, RestTyped
  <2>4. past' \in [Order -> Past]
    BY <1>1, <1>3 DEF List, RestTyped, Past
  <2> QED
    BY <1>1, <1>2, <1>3, <2>2, <2>3, <2>4 DEF List, RestTyped, rowVars, handlerVars
<1>4. ASSUME NEW o \in Order, Refuse(m, o)
      PROVE  PressGood /\ RestTyped'
  BY <1>1, <1>2, <1>4 DEF Refuse, Remember, RestTyped, rowVars, handlerVars
<1>5. ASSUME NEW o \in Order, CarryOut(m, o)
      PROVE  PressGood /\ RestTyped'
  <2>1. PICK ok \in BOOLEAN :
          /\ worktree' = IF ok THEN [worktree EXCEPT ![JobOf(o)] = AfterGit(o)]
                         ELSE worktree
          /\ past' = [past EXCEPT ![o].runs = @ + 1, ![o].done = @ \/ ok]
          /\ Remember(m, o, IF ok THEN "ok" ELSE "failed")
          /\ ok => Feasible(o)
    BY <1>5 DEF CarryOut, Feasible
  <2>2. o \in DOMAIN orders /\ JobOf(o) \in Job /\ orders[o].action \in Actions
    BY <1>5, Indexes DEF CarryOut, Due, KnownInv, AgentKnows, Known, PressInv, OrderRow
  <2>3. worktree' \in [Job -> {"dirty", "committed", "gone"}]
    <3>1. AfterGit(o) \in {"dirty", "committed", "gone"}
      BY <1>1, <2>2 DEF AfterGit, Actions, RestTyped
    <3> QED
      BY <1>1, <2>1, <2>2, <3>1 DEF RestTyped
  <2>4. past' \in [Order -> Past]
    BY <2>1, RunRecorded DEF PressInv
  <2>5. outcome' \in [Machine -> [Order -> {"none", "ok", "failed"}]]
    BY <1>1, <2>1 DEF Remember, RestTyped
  <2>6. consumed' \in [Machine -> SUBSET Order]
    BY <1>1, <1>5 DEF CarryOut, RestTyped
  <2> QED
    BY <1>1, <1>2, <1>5, <2>3, <2>4, <2>5, <2>6 DEF CarryOut, RestTyped, rowVars, handlerVars
<1>6. ASSUME NEW o \in Order, Report(m, o)
      PROVE  PressGood /\ RestTyped'
  <2>1. PICK ok \in BOOLEAN : ok = (outcome[m][o] = "ok")
    OBVIOUS
  <2>2. [ step |-> "read", order |-> o, ok |-> ok, client |-> "waiting",
          sent |-> faults ] \in CompletionHandler
    BY <1>1 DEF RestTyped, CompletionHandler
  <2>3. completions' \subseteq CompletionHandler
    BY <1>1, <1>6, <2>1, <2>2 DEF Report, RestTyped
  <2> QED
    BY <1>1, <1>2, <1>6, <2>3 DEF Report, RestTyped, rowVars, agentVars
<1>7. CASE GiveUp(m)
  <2>1. PICK c \in Reporting(m) :
          /\ completions' \in { completions \ {c},
                                (completions \ {c}) \cup {[c EXCEPT !.client = "gone"]} }
          /\ Remember(m, c.order, KeptAfterFailure(m, c.order))
          /\ page' = [page EXCEPT ![m] = @ \ {c.order}]
    BY <1>7 DEF GiveUp
  <2>2. c \in completions /\ c \in CompletionHandler /\ c.order \in Order
    BY <1>1 DEF Reporting, RestTyped, CompletionHandler
  <2>3. [c EXCEPT !.client = "gone"] \in CompletionHandler
    BY <2>2 DEF CompletionHandler
  <2>4. completions' \subseteq CompletionHandler
    BY <1>1, <2>1, <2>3 DEF RestTyped
  <2>5. outcome' \in [Machine -> [Order -> {"none", "ok", "failed"}]]
    BY <1>1, <2>1, <2>2 DEF Remember, KeptAfterFailure, RestTyped
  <2>6. page' \in [Machine -> SUBSET Order]
    BY <1>1, <2>1 DEF RestTyped
  <2>7. faults' \in 0..MaxFaults
    BY <1>1, <1>7, LimitsAssumption DEF GiveUp, Fault, RestTyped
  <2> QED
    BY <1>1, <1>2, <1>7, <2>4, <2>5, <2>6, <2>7 DEF GiveUp, RestTyped, rowVars
<1>8. CASE Restart(m)
  <2>1. \A c \in completions : [c EXCEPT !.client = "gone"] \in CompletionHandler
    BY <1>1 DEF RestTyped, CompletionHandler
  <2>2. completions' \subseteq CompletionHandler
    BY <1>1, <1>8, <2>1 DEF Restart, RestTyped
  <2>3. past' \in [Order -> Past]
    BY <1>1, <1>8 DEF Restart, RestTyped, Past
  <2>4. faults' \in 0..MaxFaults
    BY <1>1, <1>8, LimitsAssumption DEF Restart, Fault, RestTyped
  <2> QED
    BY <1>1, <1>2, <1>8, <2>2, <2>3, <2>4 DEF Restart, RestTyped, rowVars
<1> QED
  BY <1>3, <1>4, <1>5, <1>6, <1>7, <1>8 DEF AgentStep

LEMMA CompletionActions ==
    ASSUME PressInv, KnownInv, NEW c \in completions,
           \/ AnswerRepeated(c) \/ AcceptReport(c) \/ NoteVerdict(c)
           \/ RestoreJob(c)     \/ Consume(c)
    PROVE  PressGood /\ RestTyped'
<1>1. RestTyped
  BY TypeParts DEF PressInv
<1>2. /\ c \in CompletionHandler
      /\ c.order \in DOMAIN orders
      /\ c.order \in Order
      /\ JobOf(c.order) \in Job
      /\ c.ok \in BOOLEAN
  BY <1>1, Indexes DEF RestTyped, CompletionHandler, KnownInv, HandlerKnows, Known, PressInv
<1>3. \A step \in {"note", "restore", "consume"} :
          CompletionTo(c, step) => completions' \subseteq CompletionHandler
  <2>1. \A step \in {"note", "restore", "consume"} :
            [c EXCEPT !.step = step] \in CompletionHandler
    BY <1>2 DEF CompletionHandler
  <2> QED
    BY <1>1, <2>1 DEF CompletionTo, RestTyped
<1>4. Answer(c) => /\ completions' \subseteq CompletionHandler
                   /\ outcome' \in [Machine -> [Order -> {"none", "ok", "failed"}]]
                   /\ page' \in [Machine -> SUBSET Order]
  <2> SUFFICES ASSUME Answer(c)
               PROVE  /\ completions' \subseteq CompletionHandler
                      /\ outcome' \in [Machine -> [Order -> {"none", "ok", "failed"}]]
                      /\ page' \in [Machine -> SUBSET Order]
    OBVIOUS
  <2>1. completions' \subseteq CompletionHandler
    BY <1>1 DEF Answer, RestTyped
  <2>2. outcome' \in [Machine -> [Order -> {"none", "ok", "failed"}]]
    <3>1. outcome \in [Machine -> [Order -> {"none", "ok", "failed"}]]
      BY <1>1 DEF RestTyped
    <3>2. CASE c.client = "waiting"
      <4>1. PICK m : outcome' = [outcome EXCEPT ![m][c.order] = "none"]
        BY <3>2 DEF Answer, Remember
      <4> QED
        BY <3>1, <4>1
    <3>3. CASE c.client # "waiting"
      BY <3>1, <3>3 DEF Answer
    <3> QED
      BY <3>2, <3>3
  <2>3. page' \in [Machine -> SUBSET Order]
    BY <1>1 DEF Answer, RestTyped
  <2> QED
    BY <2>1, <2>2, <2>3
<1>5. CASE AnswerRepeated(c)
  BY <1>1, <1>4, <1>5, TablesUntouched DEF AnswerRepeated, RestTyped, rowVars
<1>6. CASE AcceptReport(c)
  <2>1. completions' \subseteq CompletionHandler
    BY <1>3, <1>6 DEF AcceptReport
  <2>2. past' \in [Order -> Past]
    <3>1. PICK r \in BOOLEAN : r = (past[c.order].raced \/ Unfinished(c.order))
      OBVIOUS
    <3>2. past' = [past EXCEPT ![c.order].raced = r]
      BY <1>6, <3>1 DEF AcceptReport
    <3> QED
      BY <1>1, <1>2, <3>2 DEF RestTyped, Past
  <2>3. PressGood
    BY <1>6, TablesUntouched DEF AcceptReport, rowVars
  <2> QED
    BY <1>1, <1>6, <2>1, <2>2, <2>3 DEF AcceptReport, RestTyped, rowVars, agentVars
<1>7. CASE NoteVerdict(c)
  <2>1. Verdict(c.order, c.ok) \in Decisions
    BY DEF Verdict, Decisions
  <2>2. decision' \in [Job -> Decisions]
    BY <1>1, <1>7, <2>1 DEF NoteVerdict, RestTyped
  <2>3. completions' \subseteq CompletionHandler
    BY <1>3, <1>7 DEF NoteVerdict
  <2>4. PressGood
    BY <1>7, TablesUntouched DEF NoteVerdict
  <2> QED
    BY <1>1, <1>7, <2>2, <2>3, <2>4 DEF NoteVerdict, RestTyped, agentVars
<1>8. CASE RestoreJob(c)
  <2>1. status' \in [Job -> {"completed", "waiting_for_approval", "interrupted"}]
    BY <1>1, <1>8 DEF RestoreJob, Restored, RestTyped
  <2>2. completions' \subseteq CompletionHandler
    BY <1>3, <1>8 DEF RestoreJob
  <2>3. PressGood
    BY <1>8, TablesUntouched DEF RestoreJob
  <2> QED
    BY <1>1, <1>8, <2>1, <2>2, <2>3 DEF RestoreJob, RestTyped, agentVars
<1>9. CASE Consume(c)
  <2>1. PressGood
    BY <1>2, <1>9, OrderSettled DEF Consume
  <2> QED
    BY <1>1, <1>4, <1>9, <2>1 DEF Consume, RestTyped
<1> QED
  BY <1>5, <1>6, <1>7, <1>8, <1>9

LEMMA RowActions ==
    ASSUME PressInv,
           \/ \E j \in Job : RepeatResult(j) \/ Sweep(j)
           \/ \E r \in results : WriteResult(r)
           \/ UNCHANGED vars
    PROVE  PressGood /\ RestTyped'
<1>1. RestTyped
  BY TypeParts DEF PressInv
<1>2. PressGood
  BY TablesUntouched DEF RepeatResult, Sweep, WriteResult, rowVars, handlerVars, vars
<1>3. ASSUME NEW j \in Job, RepeatResult(j)
      PROVE  RestTyped'
  <2>1. [job |-> j, decision |-> decision[j]] \in [job : Job, decision : Decisions]
    BY <1>1 DEF RestTyped
  <2>2. faults' \in 0..MaxFaults
    BY <1>1, <1>3, LimitsAssumption DEF RepeatResult, Fault, RestTyped
  <2> QED
    BY <1>1, <1>3, <2>1, <2>2 DEF RepeatResult, RestTyped, rowVars, agentVars
<1>4. ASSUME NEW j \in Job, Sweep(j)
      PROVE  RestTyped'
  <2>1. faults' \in 0..MaxFaults
    BY <1>1, <1>4, LimitsAssumption DEF Sweep, Fault, RestTyped
  <2>2. status' \in [Job -> {"completed", "waiting_for_approval", "interrupted"}]
    BY <1>1, <1>4 DEF Sweep, RestTyped
  <2> QED
    BY <1>1, <1>4, <2>1, <2>2 DEF Sweep, RestTyped, handlerVars, agentVars
<1>5. ASSUME NEW r \in results, WriteResult(r)
      PROVE  RestTyped'
  <2>1. past' \in [Order -> Past]
    BY <1>1, <1>5 DEF WriteResult, RestTyped, Past
  <2>2. r.decision \in Decisions
    BY <1>1 DEF RestTyped
  <2>3. decision' \in [Job -> Decisions]
    BY <1>1, <1>5, <2>2 DEF WriteResult, RestTyped
  <2>4. status' \in [Job -> {"completed", "waiting_for_approval", "interrupted"}]
    BY <1>1, <1>5 DEF WriteResult, RestTyped
  <2> QED
    BY <1>1, <1>5, <2>1, <2>3, <2>4 DEF WriteResult, RestTyped, agentVars
<1>6. CASE UNCHANGED vars
  BY <1>1, <1>2, <1>6 DEF vars, rowVars, handlerVars, agentVars, RestTyped
<1> QED
  BY <1>2, <1>3, <1>4, <1>5, <1>6

\* The disjuncts of Next, as the lemmas about steps take them.
LEMMA Steps ==
    ASSUME [Next]_vars, PressInv
    PROVE  \/ \E b \in Offered : StudioPress(b[1], b[2]) \/ TelegramPress(b[1], b[2])
           \/ \E p \in DOMAIN presses : PressStep(p) \/ LosePress(p)
           \/ \E m \in Machine : AgentStep(m) \/ GiveUp(m) \/ Restart(m)
           \/ \E c \in completions :
                 \/ AnswerRepeated(c) \/ AcceptReport(c) \/ NoteVerdict(c)
                 \/ RestoreJob(c)     \/ Consume(c)
           \/ \E j \in Job : RepeatResult(j) \/ Sweep(j)
           \/ \E r \in results : WriteResult(r)
           \/ UNCHANGED vars
  BY DEF Next, CompletionStep

LEMMA PressInvStep ==
    ASSUME PressInv, KnownInv, [Next]_vars
    PROVE  PressInv' /\ RowsGrow
<1>1. PressGood /\ RestTyped'
  BY Steps, PressActions, AgentActions, CompletionActions, RowActions
<1>2. TypeOK' <=> TablesTyped' /\ RestTyped'
  BY DEF TypeOK, TablesTyped, RestTyped
<1> QED
  BY <1>1, <1>2 DEF PressGood, PressInv

-------------------------------------------------------------------------------
(* What never changes of an order, and what is never forgotten of it *)

LEMMA OrdersStay ==
    ASSUME RowsGrow
    PROVE  /\ \A o : o \in DOMAIN orders => o \in DOMAIN orders'
           /\ \A o : Known(o) => Known(o)'
           /\ \A o \in DOMAIN orders : /\ JobOf(o)' = JobOf(o)
                                       /\ Holder(o)' = Holder(o)
                                       /\ orders'[o].action = orders[o].action
                                       /\ Settled(o) => orders'[o].status = orders[o].status
                                       /\ Open(o) => Open(o)' \/ Settled(o)'
  BY DEF RowsGrow, RowMoves, Known, JobOf, Holder, Settled, Open

PastGrows ==
    \A o \in Order :
        /\ past[o].runs > 0 => past'[o].runs > 0
        /\ past[o].done => past'[o].done
        /\ past[o].crashed => past'[o].crashed
        /\ past[o].unlisted => past'[o].unlisted
        /\ past[o].raced => past'[o].raced

LEMMA PastStays ==
    ASSUME TypeOK, past' = past
    PROVE  PastGrows
  BY DEF PastGrows, TypeOK, Past

LEMMA PastIsKept ==
    ASSUME PressInv, KnownInv, [Next]_vars
    PROVE  PastGrows
<1>1. TypeOK /\ past \in [Order -> Past]
  BY DEF PressInv, TypeOK
<1>2. ASSUME NEW m \in Machine, AgentStep(m) \/ GiveUp(m) \/ Restart(m)
      PROVE  PastGrows
  <2>1. CASE List(m)
    BY <1>1, <2>1 DEF List, PastGrows, Past
  <2>2. ASSUME NEW o \in Order, CarryOut(m, o)
        PROVE  PastGrows
    <3>1. PICK ok \in BOOLEAN : past' = [past EXCEPT ![o].runs = @ + 1, ![o].done = @ \/ ok]
      BY <2>2 DEF CarryOut, Feasible
    <3>2. /\ \A q \in Order : q # o => past'[q] = past[q]
          /\ past'[o].runs = past[o].runs + 1
          /\ past[o].done => past'[o].done
          /\ past'[o].crashed = past[o].crashed
          /\ past'[o].unlisted = past[o].unlisted
          /\ past'[o].raced = past[o].raced
      BY <1>1, <3>1, RunRecorded
    <3>3. \A q \in Order : past[q].runs \in Nat
      BY <1>1 DEF Past
    <3> QED
      BY <3>2, <3>3 DEF PastGrows
  <2>3. CASE Restart(m)
    BY <1>1, <2>3 DEF Restart, PastGrows, Past
  <2>4. ASSUME NEW o \in Order, Refuse(m, o) \/ Report(m, o)
        PROVE  PastGrows
    BY <1>1, <2>4, PastStays DEF Refuse, Report
  <2>5. CASE GiveUp(m)
    BY <1>1, <2>5, PastStays DEF GiveUp
  <2> QED
    BY <1>2, <2>1, <2>2, <2>3, <2>4, <2>5 DEF AgentStep
<1>3. ASSUME NEW c \in completions, AcceptReport(c)
      PROVE  PastGrows
  <2>1. PICK r \in BOOLEAN : r = (past[c.order].raced \/ Unfinished(c.order))
    OBVIOUS
  <2>2. past' = [past EXCEPT ![c.order].raced = r]
    BY <1>3, <2>1 DEF AcceptReport
  <2>3. past[c.order].raced => r
    BY <2>1
  <2> QED
    BY <1>1, <2>2, <2>3 DEF PastGrows, Past
<1>4. ASSUME NEW r \in results, WriteResult(r)
      PROVE  PastGrows
  BY <1>1, <1>4 DEF WriteResult, PastGrows, Past
<1>5. past' = past => PastGrows
  BY <1>1, PastStays
<1> QED
  BY <1>2, <1>3, <1>4, <1>5, Steps
     DEF StudioPress, TelegramPress, PressStep, CreateOrder, ApproveOrder, NoteDecision,
         AwaitApproval, LosePress, AnswerRepeated, NoteVerdict, RestoreJob, Consume,
         RepeatResult, Sweep, vars

\* What an agent remembers of an order it knew already stays about that order.
LEMMA AgentStillKnows ==
    ASSUME PressInv, RowsGrow, PastGrows, NEW m \in Machine, AgentKnows(m),
           \A o \in page'[m] : o \in page[m] \/ (Known(o) /\ Holder(o) = m),
           \A o \in Order : outcome'[m][o] # "none" =>
               outcome[m][o] # "none" \/ (Known(o) /\ Holder(o) = m),
           \A o \in consumed'[m] :
               o \in consumed[m] \/ (Known(o) /\ Holder(o) = m /\ past'[o].runs > 0)
    PROVE  AgentKnows(m)'
<1>1. \A o : Known(o) => Known(o)' /\ Holder(o)' = Holder(o)
  BY OrdersStay DEF Known
<1>2. \A o : Known(o) => o \in Order
  BY Indexes DEF PressInv, Known
<1>3. \A o \in Order : past[o].runs > 0 => past'[o].runs > 0
  BY DEF PastGrows, PressInv, TypeOK, Past
<1>4. \A o \in page'[m] : Known(o)' /\ Holder(o)' = m
  BY <1>1 DEF AgentKnows
<1>5. \A o \in Order : outcome'[m][o] # "none" => Known(o)' /\ Holder(o)' = m
  BY <1>1 DEF AgentKnows
<1>6. \A o \in consumed'[m] : Known(o)' /\ Holder(o)' = m /\ past'[o].runs > 0
  BY <1>1, <1>2, <1>3 DEF AgentKnows
<1> QED
  BY <1>4, <1>5, <1>6 DEF AgentKnows

\* A handler that names a known order, and does not note it for another's job.
LEMMA HandlersStillKnow ==
    ASSUME PressInv, RowsGrow, KnownInv,
           \A c \in completions' :
               /\ Known(c.order)
               /\ c.step = "note" => JobOf(c.order) \in StudioJob
    PROVE  \A c \in completions' : HandlerKnows(c)'
  BY OrdersStay DEF HandlerKnows, Known

LEMMA KnownUntouched ==
    ASSUME PressInv, KnownInv, RowsGrow, PastGrows,
           UNCHANGED <<page, outcome, consumed, completions>>
    PROVE  KnownInv'
<1>1. \A m \in Machine : AgentKnows(m)'
  BY AgentStillKnows DEF KnownInv
<1>2. \A c \in completions' : HandlerKnows(c)'
  BY HandlersStillKnow DEF KnownInv, HandlerKnows
<1> QED
  BY <1>1, <1>2 DEF KnownInv

LEMMA KnownByAgents ==
    ASSUME PressInv, KnownInv, RowsGrow, PastGrows, NEW m \in Machine,
           AgentStep(m) \/ GiveUp(m) \/ Restart(m)
    PROVE  KnownInv'
<1>1. /\ page \in [Machine -> SUBSET Order]
      /\ outcome \in [Machine -> [Order -> {"none", "ok", "failed"}]]
      /\ consumed \in [Machine -> SUBSET Order]
      /\ completions \subseteq CompletionHandler
      /\ past \in [Order -> Past]
  BY DEF PressInv, TypeOK
<1>2. \A n \in Machine : AgentKnows(n)
  BY DEF KnownInv
<1>3. \A c \in completions : Known(c.order) /\ (c.step = "note" => JobOf(c.order) \in StudioJob)
  BY DEF KnownInv, HandlerKnows
<1>4. \A c \in completions : [c EXCEPT !.client = "gone"].order = c.order
                          /\ [c EXCEPT !.client = "gone"].step = c.step
  BY <1>1 DEF CompletionHandler
<1>5. CASE List(m)
  <2>1. ASSUME NEW n \in Machine
        PROVE  AgentKnows(n)'
    <3>1. \A o \in page'[n] : o \in page[n] \/ (Known(o) /\ Holder(o) = n)
      BY <1>1, <1>5 DEF List, Listed, Mine, Known, Open
    <3>2. \A o \in Order : outcome'[n][o] # "none" => outcome[n][o] # "none"
      BY <1>1, <1>5 DEF List
    <3>3. consumed' = consumed
      BY <1>5 DEF List
    <3> QED
      BY <1>2, <3>1, <3>2, <3>3, AgentStillKnows
  <2>2. completions' = completions
    BY <1>5 DEF List, handlerVars
  <2> QED
    BY <1>3, <2>1, <2>2, HandlersStillKnow DEF KnownInv
<1>6. ASSUME NEW o \in Order, Refuse(m, o) \/ CarryOut(m, o)
      PROVE  KnownInv'
  <2>1. Known(o) /\ Holder(o) = m
    BY <1>2, <1>6 DEF Refuse, CarryOut, Due, AgentKnows
  <2>2. page' = page /\ completions' = completions
    BY <1>6 DEF Refuse, CarryOut, handlerVars
  <2>3. \A n \in Machine, q \in Order :
            outcome'[n][q] # "none" => outcome[n][q] # "none" \/ (n = m /\ q = o)
    BY <1>1, <1>6 DEF Refuse, CarryOut, Remember, Feasible
  <2>4. \A n \in Machine : \A q \in consumed'[n] :
            q \in consumed[n] \/ (n = m /\ q = o /\ past'[o].runs > 0)
    <3>1. CASE Refuse(m, o)
      BY <3>1 DEF Refuse
    <3>2. CASE CarryOut(m, o)
      <4>1. PICK ok \in BOOLEAN :
                past' = [past EXCEPT ![o].runs = @ + 1, ![o].done = @ \/ ok]
        BY <3>2 DEF CarryOut, Feasible
      <4>2. past'[o].runs = past[o].runs + 1 /\ past[o].runs \in Nat
        BY <1>1, <4>1, RunRecorded DEF PressInv, Past
      <4> QED
        BY <1>1, <3>2, <4>2 DEF CarryOut
    <3> QED
      BY <1>6, <3>1, <3>2
  <2>5. ASSUME NEW n \in Machine
        PROVE  AgentKnows(n)'
    BY <1>2, <2>1, <2>2, <2>3, <2>4, AgentStillKnows
  <2> QED
    BY <1>3, <2>2, <2>5, HandlersStillKnow DEF KnownInv
<1>7. ASSUME NEW o \in Order, Report(m, o)
      PROVE  KnownInv'
  <2>1. Known(o)
    BY <1>2, <1>7 DEF Report, Due, AgentKnows
  <2>2. UNCHANGED <<page, outcome, consumed>>
    BY <1>7 DEF Report, agentVars
  <2>3. \A c \in completions' : c \in completions \/ (c.order = o /\ c.step = "read")
    BY <1>7 DEF Report
  <2>4. \A n \in Machine : AgentKnows(n)'
    BY <1>2, <2>2, AgentStillKnows
  <2> QED
    BY <1>3, <2>1, <2>3, <2>4, HandlersStillKnow DEF KnownInv
<1>8. CASE GiveUp(m)
  <2>1. PICK c \in Reporting(m) :
          /\ completions' \in { completions \ {c},
                                (completions \ {c}) \cup {[c EXCEPT !.client = "gone"]} }
          /\ Remember(m, c.order, KeptAfterFailure(m, c.order))
          /\ page' = [page EXCEPT ![m] = @ \ {c.order}]
    BY <1>8 DEF GiveUp
  <2>2. \A n \in Machine, q \in Order : outcome'[n][q] = outcome[n][q]
    BY <1>1, <2>1 DEF Remember, KeptAfterFailure
  <2>3. \A n \in Machine : page'[n] \subseteq page[n]
    BY <1>1, <2>1
  <2>4. consumed' = consumed
    BY <1>8 DEF GiveUp
  <2>5. \A n \in Machine : AgentKnows(n)'
    BY <1>2, <2>2, <2>3, <2>4, AgentStillKnows
  <2>6. c \in completions
    BY DEF Reporting
  <2> QED
    BY <1>3, <1>4, <2>1, <2>5, <2>6, HandlersStillKnow DEF KnownInv
<1>9. CASE Restart(m)
  <2>1. \A n \in Machine : /\ page'[n] \subseteq page[n]
                           /\ consumed'[n] \subseteq consumed[n]
                           /\ \A q \in Order : outcome'[n][q] # "none" => outcome[n][q] # "none"
    BY <1>1, <1>9 DEF Restart
  <2>2. \A n \in Machine : AgentKnows(n)'
    BY <1>2, <2>1, AgentStillKnows
  <2>3. ASSUME NEW c \in completions'
        PROVE  \E d \in completions : c.order = d.order /\ c.step = d.step
    <3>1. PICK d \in completions :
              c = IF d \in Reporting(m) THEN [d EXCEPT !.client = "gone"] ELSE d
      BY <1>9 DEF Restart
    <3> QED
      BY <1>4, <3>1
  <2> QED
    BY <1>3, <2>2, <2>3, HandlersStillKnow DEF KnownInv
<1> QED
  BY <1>5, <1>6, <1>7, <1>8, <1>9 DEF AgentStep

LEMMA KnownByHandlers ==
    ASSUME PressInv, KnownInv, RowsGrow, PastGrows, NEW c \in completions,
           \/ AnswerRepeated(c) \/ AcceptReport(c) \/ NoteVerdict(c)
           \/ RestoreJob(c)     \/ Consume(c)
    PROVE  KnownInv'
<1>1. /\ page \in [Machine -> SUBSET Order]
      /\ outcome \in [Machine -> [Order -> {"none", "ok", "failed"}]]
      /\ c \in CompletionHandler
  BY DEF PressInv, TypeOK
<1>2. \A m \in Machine : /\ page'[m] \subseteq page[m]
                         /\ \A q \in Order : outcome'[m][q] # "none" => outcome[m][q] # "none"
  BY <1>1 DEF AnswerRepeated, AcceptReport, NoteVerdict, RestoreJob, Consume, Answer,
              Remember, agentVars
<1>3. consumed' = consumed
  BY DEF AnswerRepeated, AcceptReport, NoteVerdict, RestoreJob, Consume, agentVars
<1>4. \A m \in Machine : AgentKnows(m)'
  BY <1>2, <1>3, AgentStillKnows DEF KnownInv
<1>5. \A step \in {"note", "restore", "consume"} :
          [c EXCEPT !.step = step].order = c.order /\ [c EXCEPT !.step = step].step = step
  BY <1>1 DEF CompletionHandler
<1>6. \A d \in completions' :
          \/ d \in completions
          \/ d.order = c.order /\ (d.step = "note" => JobOf(c.order) \in StudioJob)
  BY <1>5 DEF AnswerRepeated, AcceptReport, NoteVerdict, RestoreJob, Consume, Answer,
              CompletionTo
<1>7. \A d \in completions' : HandlerKnows(d)'
  BY <1>6, HandlersStillKnow DEF KnownInv, HandlerKnows
<1> QED
  BY <1>4, <1>7 DEF KnownInv

LEMMA KnownStep ==
    ASSUME PressInv, KnownInv, [Next]_vars
    PROVE  KnownInv'
<1>1. RowsGrow /\ PastGrows
  BY PressInvStep, PastIsKept
<1>2. UNCHANGED <<page, outcome, consumed, completions>> => KnownInv'
  BY <1>1, KnownUntouched
<1> QED
  BY <1>1, <1>2, Steps, KnownByAgents, KnownByHandlers
     DEF StudioPress, TelegramPress, PressStep, CreateOrder, ApproveOrder, NoteDecision,
         AwaitApproval, LosePress, RepeatResult, Sweep, WriteResult, vars, agentVars,
         handlerVars

BaseInv == PressInv /\ KnownInv

LEMMA BaseStep ==
    ASSUME BaseInv, [Next]_vars
    PROVE  BaseInv' /\ RowsGrow /\ PastGrows
  BY PressInvStep, PastIsKept, KnownStep DEF BaseInv

LEMMA BaseInit == Init => BaseInv
<1> SUFFICES ASSUME Init
             PROVE  BaseInv
  OBVIOUS
<1>1. orders = <<>> /\ presses = <<>>
  BY DEF Init
<1>2. TablesTyped
  BY <1>1, EmptySeq, LimitsAssumption DEF TablesTyped
<1>3. RestTyped
  <2>1. results \subseteq [job : Job, decision : Decisions]
    BY DEF Init, Decisions
  <2>2. faults \in 0..MaxFaults
    <3>1. faults \in Nat
      <4>1. Cardinality({}) = 0 /\ \A x : Cardinality({x}) = 1
        BY FS_EmptySet, FS_Singleton
      <4>2. results = {} \/ \E x : results = {x}
        BY DEF Init
      <4>3. Cardinality(results) = 0 \/ Cardinality(results) = 1
        BY <4>1, <4>2
      <4> QED
        BY <4>3 DEF Init
    <3> QED
      BY <3>1, LimitsAssumption DEF Init
  <2> QED
    BY <2>1, <2>2 DEF Init, RestTyped, Decisions, Past
<1>4. TypeOK
  BY <1>2, <1>3, TypeParts
<1>5. DOMAIN presses = {} /\ Pressed = {}
  BY <1>1 DEF Pressed
<1>6. PressesCounted /\ PressesOwn
  BY <1>1, <1>5, FS_EmptySet DEF PressesCounted, PressesOwn
<1>7. KnownInv
  BY DEF Init, KnownInv, AgentKnows
<1> QED
  BY <1>4, <1>6, <1>7 DEF BaseInv, PressInv

LEMMA AlwaysBase == Spec => []BaseInv
<1>1. BaseInv /\ [Next]_vars => BaseInv'
  BY BaseStep
<1> QED
  BY <1>1, BaseInit, PTL DEF Spec

\* The tables, the handlers and the agents always have their types: above all, a
\* row ends with one of its two verdicts and there is never an order too many.
THEOREM ApprovalsTypeCorrect == Spec => []TypeOK
<1>1. BaseInv => TypeOK
  BY DEF BaseInv, PressInv
<1> QED
  BY <1>1, AlwaysBase, PTL

-------------------------------------------------------------------------------
(***************************************************************************)
(* What is known of an order.  The report of a handler may be older than    *)
(* what the agent remembers, and the row settled by a report the agent has  *)
(* given up on.  So whatever any of them says of an order has to stay true: *)
(* git was asked for it or it is forbidden, it was done if they say so, and *)
(* if they say it was not although it was, the agent crashed or lost sight  *)
(* of the order.  An agent that has neither crashed nor settled an order it *)
(* ran still has it in its consumed set, which is what keeps git from being *)
(* asked twice.                                                             *)
(***************************************************************************)
Banned(o) == <<JobOf(o), orders[o].action>> \in Forbidden

Excused(o) == past[o].crashed \/ past[o].unlisted

AnswerTrue(o, ok) ==
    /\ past[o].runs > 0 \/ Banned(o)
    /\ ok => past[o].done
    /\ ~ok /\ past[o].done => Excused(o)

\* the row is settled and the agent will not come to the order again
Over(o) == Settled(o) /\ o \notin page[Holder(o)]

Accounted(o) ==
    /\ past[o].runs > 1 => past[o].crashed
    /\ past[o].done => past[o].runs > 0 /\ ~Banned(o)
    /\ past[o].runs > 0 => o \in consumed[Holder(o)] \/ past[o].crashed \/ Over(o)
    /\ past[o].done /\ outcome[Holder(o)][o] = "none" => Excused(o) \/ Over(o)
    /\ outcome[Holder(o)][o] # "none" => AnswerTrue(o, outcome[Holder(o)][o] = "ok")
    /\ Settled(o) => AnswerTrue(o, orders[o].status = "expired")

AccountInv ==
    /\ \A o \in Order \ DOMAIN orders : past[o].runs = 0 /\ ~past[o].done
    /\ \A o \in DOMAIN orders : Accounted(o)
    /\ \A c \in completions : AnswerTrue(c.order, c.ok)

\* A step that asks nothing of git.
NothingRun ==
    \A o \in Order : past'[o].runs = past[o].runs /\ past'[o].done = past[o].done

LEMMA AnswerStaysTrue ==
    ASSUME BaseInv, RowsGrow, PastGrows, NothingRun, NEW o \in DOMAIN orders,
           NEW ok \in BOOLEAN, AnswerTrue(o, ok)
    PROVE  AnswerTrue(o, ok)'
<1>1. o \in Order
  BY Indexes DEF BaseInv, PressInv
<1>2. Banned(o)' <=> Banned(o)
  BY OrdersStay DEF Banned
<1>3. Excused(o) => Excused(o)'
  BY <1>1 DEF Excused, PastGrows
<1> QED
  BY <1>1, <1>2, <1>3 DEF AnswerTrue, NothingRun

\* What a step that asks nothing of git has to show.
LEMMA AccountsFrame ==
    ASSUME BaseInv, BaseInv', AccountInv, RowsGrow, PastGrows, NothingRun,
           \A o \in DOMAIN orders :
              /\ o \in consumed[Holder(o)] /\ o \notin consumed'[Holder(o)]
                    => past'[o].crashed \/ Over(o)'
              /\ Over(o) => Over(o)'
              /\ past[o].done /\ outcome[Holder(o)][o] # "none"
                 /\ outcome'[Holder(o)][o] = "none" => Excused(o)' \/ Over(o)'
              /\ outcome'[Holder(o)][o] # "none" =>
                    \/ outcome'[Holder(o)][o] = outcome[Holder(o)][o]
                    \/ AnswerTrue(o, outcome'[Holder(o)][o] = "ok")
              /\ Settled(o)' /\ ~Settled(o) =>
                    AnswerTrue(o, orders'[o].status = "expired"),
           \A c \in completions' : Known(c.order) /\ AnswerTrue(c.order, c.ok)
    PROVE  AccountInv'
<1>1. /\ past \in [Order -> Past]
      /\ past' \in [Order -> Past]
      /\ outcome \in [Machine -> [Order -> {"none", "ok", "failed"}]]
      /\ completions' \subseteq CompletionHandler
  BY DEF BaseInv, PressInv, TypeOK
<1>2. DOMAIN orders \subseteq Order /\ \A o \in DOMAIN orders : Holder(o) \in Machine
  BY Indexes DEF BaseInv, PressInv
<1>3. \A o \in DOMAIN orders : o \in DOMAIN orders' /\ Holder(o)' = Holder(o)
  BY OrdersStay
<1>4. \A o \in Order \ DOMAIN orders : past'[o].runs = 0 /\ ~past'[o].done
  BY DEF AccountInv, NothingRun
<1>5. ASSUME NEW o \in DOMAIN orders
      PROVE  Accounted(o)'
  <2>1. o \in Order /\ Accounted(o) /\ Holder(o)' = Holder(o) /\ Holder(o) \in Machine
    BY <1>2, <1>3 DEF AccountInv
  <2>2. /\ past'[o].runs = past[o].runs
        /\ past'[o].done = past[o].done
        /\ past[o].crashed => past'[o].crashed
        /\ Excused(o) => Excused(o)'
    BY <2>1 DEF NothingRun, PastGrows, Excused
  <2>3. Banned(o)' <=> Banned(o)
    BY OrdersStay DEF Banned
  <2>4. past'[o].runs > 1 => past'[o].crashed
    BY <2>1, <2>2 DEF Accounted
  <2>5. past'[o].done => past'[o].runs > 0 /\ ~Banned(o)'
    BY <2>1, <2>2, <2>3 DEF Accounted
  <2>6. past'[o].runs > 0 => o \in consumed'[Holder(o)] \/ past'[o].crashed \/ Over(o)'
    BY <2>1, <2>2 DEF Accounted
  <2>7. past'[o].done /\ outcome'[Holder(o)][o] = "none" => Excused(o)' \/ Over(o)'
    BY <2>1, <2>2 DEF Accounted
  <2>8. ASSUME outcome'[Holder(o)][o] # "none"
        PROVE  AnswerTrue(o, outcome[Holder(o)][o] = "ok")'
    <3>1. PICK ok \in BOOLEAN : ok = (outcome'[Holder(o)][o] = "ok")
      OBVIOUS
    <3>2. AnswerTrue(o, ok)
      BY <2>1, <2>8, <3>1 DEF Accounted
    <3>3. AnswerTrue(o, ok)'
      BY <3>2, AnswerStaysTrue
    <3> QED
      BY <2>1, <3>1, <3>3
  <2>9. ASSUME Settled(o)'
        PROVE  AnswerTrue(o, orders[o].status = "expired")'
    <3>1. PICK ok \in BOOLEAN : ok = (orders'[o].status = "expired")
      OBVIOUS
    <3>2. AnswerTrue(o, ok)
      BY <2>1, <2>9, <3>1, OrdersStay DEF Accounted
    <3>3. AnswerTrue(o, ok)'
      BY <3>2, AnswerStaysTrue
    <3> QED
      BY <3>1, <3>3
  <2> QED
    BY <2>1, <2>4, <2>5, <2>6, <2>7, <2>8, <2>9 DEF Accounted
<1>6. ASSUME NEW o \in DOMAIN orders', o \notin DOMAIN orders
      PROVE  Accounted(o)'
  <2>1. o \in Order /\ Holder(o)' \in Machine
    <3>1. o \in Order /\ orders'[o] \in OrderRow
      BY <1>6, TableIndexes DEF BaseInv, PressInv, TypeOK
    <3> QED
      BY <3>1, JobsAssumption DEF Holder, JobOf, OrderRow
  <2>2. past'[o].runs = 0 /\ ~past'[o].done
    BY <1>4, <1>6, <2>1
  <2>3. ~Settled(o)'
    BY <1>6 DEF RowsGrow, Settled
  <2>4. outcome'[Holder(o)'][o] = "none"
    BY <1>6, <2>1 DEF RowsGrow, BaseInv, KnownInv, AgentKnows, Known
  <2> QED
    BY <2>2, <2>3, <2>4 DEF Accounted
<1>7. \A c \in completions' : AnswerTrue(c.order, c.ok)'
  BY <1>1, AnswerStaysTrue DEF Known, CompletionHandler
<1>8. \A o \in Order \ DOMAIN orders' : past'[o].runs = 0 /\ ~past'[o].done
  BY <1>3, <1>4
<1> QED
  BY <1>5, <1>6, <1>7, <1>8 DEF AccountInv

\* A step that leaves the agents and the reports alone and settles nothing.
LEMMA AccountsUntouched ==
    ASSUME BaseInv, BaseInv', AccountInv, RowsGrow, PastGrows, NothingRun,
           UNCHANGED <<page, outcome, consumed, completions>>,
           \A o \in DOMAIN orders : Settled(o)' => Settled(o)
    PROVE  AccountInv'
<1>1. \A o \in DOMAIN orders : Over(o) => Over(o)'
  BY OrdersStay DEF Over, Settled
<1>2. \A c \in completions' : Known(c.order) /\ AnswerTrue(c.order, c.ok)
  BY DEF BaseInv, KnownInv, HandlerKnows, AccountInv
<1> QED
  BY <1>1, <1>2, AccountsFrame

LEMMA AccountsOfPresses ==
    ASSUME BaseInv, BaseInv', AccountInv, RowsGrow, PastGrows,
           \/ \E b \in Offered : StudioPress(b[1], b[2]) \/ TelegramPress(b[1], b[2])
           \/ \E p \in DOMAIN presses : PressStep(p) \/ LosePress(p)
    PROVE  AccountInv'
<1>1. UNCHANGED <<page, outcome, consumed, completions, past>>
  BY DEF StudioPress, TelegramPress, PressStep, CreateOrder, ApproveOrder, NoteDecision,
         AwaitApproval, LosePress, agentVars
<1>2. NothingRun
  BY <1>1 DEF NothingRun
<1>3. ASSUME NEW p \in DOMAIN presses, CreateOrder(p)
      PROVE  \A o \in DOMAIN orders : Settled(o)' => Settled(o)
  BY <1>3, OrderCreated DEF BaseInv, Settled
<1>4. ASSUME NEW p \in DOMAIN presses, ApproveOrder(p)
      PROVE  \A o \in DOMAIN orders : Settled(o)' => Settled(o)
  BY <1>4, OrderApproved DEF BaseInv, Settled
<1>5. \A o \in DOMAIN orders : Settled(o)' => Settled(o)
  BY <1>3, <1>4
     DEF StudioPress, TelegramPress, PressStep, NoteDecision, AwaitApproval, LosePress,
         rowVars, Settled
<1> QED
  BY <1>1, <1>2, <1>5, AccountsUntouched

LEMMA AccountsOfRows ==
    ASSUME BaseInv, BaseInv', AccountInv, RowsGrow, PastGrows,
           \/ \E j \in Job : RepeatResult(j) \/ Sweep(j)
           \/ \E r \in results : WriteResult(r)
           \/ UNCHANGED vars
    PROVE  AccountInv'
<1>1. UNCHANGED <<page, outcome, consumed, completions, orders>>
  BY DEF RepeatResult, Sweep, WriteResult, vars, rowVars, handlerVars, agentVars
<1>2. past \in [Order -> Past]
  BY DEF BaseInv, PressInv, TypeOK
<1>3. ASSUME NEW r \in results, WriteResult(r)
      PROVE  NothingRun
  BY <1>2, <1>3 DEF WriteResult, NothingRun, Past
<1>4. NothingRun
  BY <1>3 DEF RepeatResult, Sweep, vars, NothingRun
<1>5. \A o \in DOMAIN orders : Settled(o)' => Settled(o)
  BY <1>1 DEF Settled
<1> QED
  BY <1>1, <1>4, <1>5, AccountsUntouched

\* The handler of a report writes the row only with what the report said, and
\* the agent lets go of the order once the row is settled.
LEMMA AccountsOfReports ==
    ASSUME BaseInv, BaseInv', AccountInv, RowsGrow, PastGrows, NEW c \in completions,
           \/ AnswerRepeated(c) \/ AcceptReport(c) \/ NoteVerdict(c)
           \/ RestoreJob(c)     \/ Consume(c)
    PROVE  AccountInv'
<1>1. /\ page \in [Machine -> SUBSET Order]
      /\ outcome \in [Machine -> [Order -> {"none", "ok", "failed"}]]
      /\ past \in [Order -> Past]
      /\ c \in CompletionHandler
      /\ c.order \in DOMAIN orders
      /\ c.ok \in BOOLEAN
      /\ Known(c.order)
      /\ AnswerTrue(c.order, c.ok)
      /\ Holder(c.order) \in Machine
      /\ DOMAIN orders \subseteq Order
      /\ \A o \in DOMAIN orders : Holder(o) \in Machine
  BY Indexes DEF BaseInv, PressInv, TypeOK, KnownInv, HandlerKnows, Known, AccountInv,
                 CompletionHandler
<1>2. \A d \in completions : Known(d.order) /\ AnswerTrue(d.order, d.ok)
  BY DEF BaseInv, KnownInv, HandlerKnows, AccountInv
<1>3. \A step \in {"note", "restore", "consume"} :
          [c EXCEPT !.step = step].order = c.order /\ [c EXCEPT !.step = step].ok = c.ok
  BY <1>1 DEF CompletionHandler
<1>4. CASE AcceptReport(c) \/ NoteVerdict(c) \/ RestoreJob(c)
  <2>1. UNCHANGED <<orders, page, outcome, consumed>>
    BY <1>4 DEF AcceptReport, NoteVerdict, RestoreJob, rowVars, agentVars
  <2>2. \A d \in completions' : Known(d.order) /\ AnswerTrue(d.order, d.ok)
    BY <1>1, <1>2, <1>3, <1>4 DEF AcceptReport, NoteVerdict, RestoreJob, CompletionTo
  <2>3. NothingRun
    <3>1. CASE AcceptReport(c)
      BY <1>1, <3>1 DEF AcceptReport, NothingRun, Past
    <3>2. CASE NoteVerdict(c) \/ RestoreJob(c)
      BY <3>2 DEF NoteVerdict, RestoreJob, NothingRun
    <3> QED
      BY <1>4, <3>1, <3>2
  <2>4. \A o \in DOMAIN orders : (Over(o) <=> Over(o)') /\ (Settled(o) <=> Settled(o)')
    BY <2>1 DEF Over, Settled, Holder, JobOf
  <2> QED
    BY <2>1, <2>2, <2>3, <2>4, AccountsFrame
<1>5. CASE AnswerRepeated(c) \/ Consume(c)
  <2>1. Answer(c) /\ past' = past /\ consumed' = consumed
    BY <1>5 DEF AnswerRepeated, Consume
  <2>2. Settled(c.order)'
    <3>1. CASE AnswerRepeated(c)
      BY <1>1, <3>1, OrdersStay DEF AnswerRepeated, Settled
    <3>2. CASE Consume(c)
      <4>1. orders'[c.order].status =
                IF Open(c.order) THEN (IF c.ok THEN "expired" ELSE "rejected")
                ELSE orders[c.order].status
        BY <1>1, <3>2, OrderSettled DEF BaseInv, Consume
      <4>2. orders[c.order].status \in {"approved", "expired", "rejected"}
        BY <1>1, Indexes DEF BaseInv, PressInv, Known, OrderRow
      <4> QED
        BY <4>1, <4>2 DEF Open, Settled
    <3> QED
      BY <1>5, <3>1, <3>2
  <2>3. \A o \in DOMAIN orders : Settled(o)' /\ ~Settled(o) =>
            o = c.order /\ c.ok = (orders'[o].status = "expired")
    <3>1. CASE AnswerRepeated(c)
      BY <3>1 DEF AnswerRepeated, rowVars, Settled
    <3>2. CASE Consume(c)
      <4>1. \A o \in DOMAIN orders :
                orders'[o].status =
                    IF o = c.order /\ Open(o) THEN (IF c.ok THEN "expired" ELSE "rejected")
                    ELSE orders[o].status
        BY <1>1, <3>2, OrderSettled DEF BaseInv, Consume
      <4> QED
        BY <1>1, <4>1 DEF Settled
    <3> QED
      BY <1>5, <3>1, <3>2
  <2>4. NothingRun
    BY <2>1 DEF NothingRun
  <2>5. \A d \in completions' : Known(d.order) /\ AnswerTrue(d.order, d.ok)
    BY <1>2, <2>1 DEF Answer
  <2>6. \A m \in Machine : page'[m] \subseteq page[m]
    BY <1>1, <2>1 DEF Answer
  <2>7. \A o \in DOMAIN orders : Over(o) => Over(o)'
    BY <1>1, <2>6, OrdersStay DEF Over, Settled
  <2>8. \A o \in DOMAIN orders : outcome'[Holder(o)][o] # outcome[Holder(o)][o] =>
            o = c.order /\ outcome'[Holder(o)][o] = "none" /\ o \notin page'[Holder(o)]
    BY <1>1, <2>1 DEF Answer, Remember
  <2>9. Holder(c.order)' = Holder(c.order)
    BY <1>1, OrdersStay
  <2> QED
    BY <1>1, <2>1, <2>2, <2>3, <2>4, <2>5, <2>7, <2>8, <2>9, AccountsFrame DEF Over
<1> QED
  BY <1>4, <1>5

\* Git is asked.  The agent has no answer for the order and has not consumed it,
\* so if git was asked before, the agent has crashed since.
LEMMA AccountsOfGit ==
    ASSUME BaseInv, BaseInv', AccountInv, RowsGrow, PastGrows, NEW m \in Machine,
           NEW o \in Order, CarryOut(m, o)
    PROVE  AccountInv'
<1>1. /\ outcome \in [Machine -> [Order -> {"none", "ok", "failed"}]]
      /\ consumed \in [Machine -> SUBSET Order]
      /\ past \in [Order -> Past]
      /\ completions \subseteq CompletionHandler
  BY DEF BaseInv, PressInv, TypeOK
<1>2. /\ o \in page[m]
      /\ outcome[m][o] = "none"
      /\ o \notin consumed[m]
      /\ ~Banned(o)
      /\ o \in DOMAIN orders
      /\ Holder(o) = m
      /\ ~Over(o)
      /\ Accounted(o)
  BY DEF CarryOut, Due, Denied, Banned, BaseInv, KnownInv, AgentKnows, Known, Over,
         AccountInv
<1>3. PICK ok \in BOOLEAN :
        /\ past' = [past EXCEPT ![o].runs = @ + 1, ![o].done = @ \/ ok]
        /\ Remember(m, o, IF ok THEN "ok" ELSE "failed")
  BY DEF CarryOut, Feasible
<1>4. /\ \A q \in Order : q # o => past'[q] = past[q]
      /\ past'[o].runs = past[o].runs + 1
      /\ past'[o].done <=> past[o].done \/ ok
      /\ past'[o].crashed = past[o].crashed
      /\ past'[o].unlisted = past[o].unlisted
  BY <1>3, RunRecorded DEF BaseInv, PressInv
<1>5. UNCHANGED <<orders, completions, page>>
  BY DEF CarryOut, rowVars, handlerVars
<1>6. /\ \A q : q # o => outcome'[m][q] = outcome[m][q]
      /\ \A n \in Machine : n # m => outcome'[n] = outcome[n] /\ consumed'[n] = consumed[n]
      /\ outcome'[m][o] = IF ok THEN "ok" ELSE "failed"
      /\ consumed'[m] = consumed[m] \cup {o}
  BY <1>1, <1>3 DEF CarryOut, Remember
<1>7. past[o].runs \in Nat /\ (past[o].runs > 0 => past[o].crashed)
  BY <1>1, <1>2 DEF Accounted, Past
<1>8. past[o].done => Excused(o)
  BY <1>2 DEF Accounted
<1>9. ASSUME NEW q \in Order, q # o
      PROVE  \A answer : AnswerTrue(q, answer) <=> AnswerTrue(q, answer)'
  BY <1>4, <1>5, <1>9 DEF AnswerTrue, Excused, Banned, JobOf
<1>10. ASSUME NEW answer \in BOOLEAN, AnswerTrue(o, answer)
       PROVE  AnswerTrue(o, answer)'
  BY <1>2, <1>4, <1>5, <1>7, <1>10 DEF AnswerTrue, Excused, Banned, JobOf
<1>11. AnswerTrue(o, ok)'
  BY <1>4, <1>7, <1>8 DEF AnswerTrue, Excused
<1>12. \A q \in Order \ DOMAIN orders' : past'[q].runs = 0 /\ ~past'[q].done
  BY <1>2, <1>4, <1>5 DEF AccountInv
<1>13. ASSUME NEW q \in DOMAIN orders, q # o
       PROVE  Accounted(q)'
  <2>1. q \in Order /\ Accounted(q) /\ Holder(q) \in Machine
    BY Indexes DEF BaseInv, PressInv, AccountInv
  <2>2. /\ past'[q] = past[q]
        /\ (q \in consumed'[Holder(q)] <=> q \in consumed[Holder(q)])
        /\ outcome'[Holder(q)][q] = outcome[Holder(q)][q]
    BY <1>4, <1>6, <1>13, <2>1
  <2>3. /\ Holder(q)' = Holder(q)
        /\ (Over(q)' <=> Over(q))
        /\ (Banned(q)' <=> Banned(q))
        /\ (Settled(q)' <=> Settled(q))
        /\ orders' = orders
    BY <1>5 DEF Over, Banned, Settled, Holder, JobOf
  <2>4. Excused(q)' <=> Excused(q)
    BY <2>2 DEF Excused
  <2> QED
    BY <1>9, <1>13, <2>1, <2>2, <2>3, <2>4 DEF Accounted
<1>14. Accounted(o)'
  <2>1. Holder(o)' = m /\ orders' = orders /\ (Settled(o)' <=> Settled(o))
        /\ (Banned(o)' <=> Banned(o))
    BY <1>2, <1>5 DEF Holder, JobOf, Settled, Banned
  <2>2. past'[o].runs > 1 => past'[o].crashed
    BY <1>4, <1>7
  <2>3. past'[o].done => past'[o].runs > 0 /\ ~Banned(o)'
    BY <1>2, <1>4, <1>7, <2>1
  <2>4. o \in consumed'[Holder(o)']
    BY <1>6, <2>1
  <2>5. outcome'[Holder(o)'][o] # "none" /\ ok = (outcome'[Holder(o)'][o] = "ok")
    BY <1>6, <2>1
  <2>6. AnswerTrue(o, outcome[Holder(o)][o] = "ok")'
    BY <1>11, <2>5
  <2>7. ASSUME Settled(o)'
        PROVE  AnswerTrue(o, orders[o].status = "expired")'
    <3>1. PICK answer \in BOOLEAN : answer = (orders[o].status = "expired")
      OBVIOUS
    <3>2. AnswerTrue(o, answer)
      BY <1>2, <2>1, <2>7, <3>1 DEF Accounted
    <3> QED
      BY <1>10, <2>1, <3>1, <3>2
  <2> QED
    BY <2>2, <2>3, <2>4, <2>5, <2>6, <2>7 DEF Accounted
<1>15. ASSUME NEW c \in completions'
       PROVE  AnswerTrue(c.order, c.ok)'
  <2>1. c.order \in Order /\ c.ok \in BOOLEAN /\ AnswerTrue(c.order, c.ok)
    BY <1>1, <1>5 DEF CompletionHandler, AccountInv
  <2> QED
    BY <1>9, <1>10, <2>1
<1> QED
  BY <1>5, <1>12, <1>13, <1>14, <1>15 DEF AccountInv

\* A new list, from which the outcome of an order may have disappeared.
LEMMA AccountsOfLists ==
    ASSUME BaseInv, BaseInv', AccountInv, RowsGrow, PastGrows, NEW m \in Machine, List(m)
    PROVE  AccountInv'
<1>1. /\ page \in [Machine -> SUBSET Order]
      /\ outcome \in [Machine -> [Order -> {"none", "ok", "failed"}]]
      /\ past \in [Order -> Past]
      /\ \A o \in DOMAIN orders : o \in Order /\ Holder(o) \in Machine
  BY Indexes DEF BaseInv, PressInv, TypeOK
<1>2. UNCHANGED <<orders, completions, consumed>>
  BY DEF List, rowVars, handlerVars
<1>3. NothingRun
  BY <1>1 DEF List, NothingRun, Past
<1>4. \A n \in Machine : n # m => page'[n] = page[n] /\ outcome'[n] = outcome[n]
  BY <1>1 DEF List
<1>5. \A o \in DOMAIN orders : o \in page'[m] => Open(o)
  BY <1>1 DEF List, Listed
<1>6. \A o \in DOMAIN orders : Over(o) => Over(o)'
  BY <1>1, <1>2, <1>4, <1>5 DEF Over, Settled, Open, Holder, JobOf
<1>7. ASSUME NEW o \in DOMAIN orders, outcome[Holder(o)][o] # "none",
             outcome'[Holder(o)][o] = "none"
      PROVE  Excused(o)' \/ Over(o)'
  <2>1. Holder(o) = m /\ o \in Order
    BY <1>1, <1>4, <1>7
  <2>2. o \notin Listed \cap Mine(m)
    BY <1>1, <1>7, <2>1 DEF List
  <2>3. Known(o) /\ orders[o] \in OrderRow
    BY <1>1, <1>7, <2>1, Indexes DEF BaseInv, KnownInv, AgentKnows, PressInv
  <2>4. CASE Open(o)
    BY <1>1, <1>7, <2>1, <2>2, <2>4 DEF List, Excused, Past
  <2>5. CASE ~Open(o)
    <3>1. Settled(o)
      BY <2>3, <2>5 DEF Known, Open, Settled, OrderRow
    <3>2. o \notin page'[m]
      BY <1>5, <2>5
    <3> QED
      BY <1>2, <2>1, <3>1, <3>2 DEF Over, Settled, Holder, JobOf
  <2> QED
    BY <2>4, <2>5
<1>8. \A o \in DOMAIN orders :
          outcome'[Holder(o)][o] # "none" => outcome'[Holder(o)][o] = outcome[Holder(o)][o]
  BY <1>1 DEF List
<1>9. \A o \in DOMAIN orders : Settled(o)' <=> Settled(o)
  BY <1>2 DEF Settled
<1>10. \A c \in completions' : Known(c.order) /\ AnswerTrue(c.order, c.ok)
  BY <1>2 DEF BaseInv, KnownInv, HandlerKnows, AccountInv
<1> QED
  BY <1>2, <1>3, <1>6, <1>7, <1>8, <1>9, <1>10, AccountsFrame

\* The rest of what an agent does: an order denied has been run or never will be,
\* a report says what the agent remembers, and a crash takes the consumed set.
LEMMA AccountsOfAgents ==
    ASSUME BaseInv, BaseInv', AccountInv, RowsGrow, PastGrows, NEW m \in Machine,
           AgentStep(m) \/ GiveUp(m) \/ Restart(m)
    PROVE  AccountInv'
<1>1. /\ page \in [Machine -> SUBSET Order]
      /\ outcome \in [Machine -> [Order -> {"none", "ok", "failed"}]]
      /\ consumed \in [Machine -> SUBSET Order]
      /\ past \in [Order -> Past]
      /\ completions \subseteq CompletionHandler
      /\ \A o \in DOMAIN orders : o \in Order /\ Holder(o) \in Machine /\ Accounted(o)
  BY Indexes DEF BaseInv, PressInv, TypeOK, AccountInv
<1>2. \A c \in completions : Known(c.order) /\ AnswerTrue(c.order, c.ok)
  BY DEF BaseInv, KnownInv, HandlerKnows, AccountInv
<1>3. \A c \in completions : [c EXCEPT !.client = "gone"].order = c.order
                          /\ [c EXCEPT !.client = "gone"].ok = c.ok
  BY <1>1 DEF CompletionHandler
<1>4. orders' = orders
  BY DEF AgentStep, List, Refuse, CarryOut, Report, GiveUp, Restart, rowVars
<1>5. \A o \in DOMAIN orders : Settled(o)' <=> Settled(o)
  BY <1>4 DEF Settled
<1>6. (\A n \in Machine : page'[n] \subseteq page[n]) =>
          \A o \in DOMAIN orders : Over(o) => Over(o)'
  BY <1>1, <1>4 DEF Over, Settled, Holder, JobOf
<1>7. ASSUME NEW o \in Order, Refuse(m, o)
      PROVE  AccountInv'
  <2>1. /\ o \in page[m]
        /\ outcome[m][o] = "none"
        /\ o \in consumed[m] \/ Banned(o)
        /\ o \in DOMAIN orders
        /\ Holder(o) = m
        /\ ~Over(o)
        /\ o \in consumed[m] => past[o].runs > 0
    BY <1>7 DEF Refuse, Due, Denied, Banned, BaseInv, KnownInv, AgentKnows, Known, Over
  <2>2. AnswerTrue(o, FALSE)
    BY <1>1, <2>1 DEF AnswerTrue, Accounted
  <2>3. UNCHANGED <<page, consumed, past, completions>>
    BY <1>7 DEF Refuse, handlerVars
  <2>4. NothingRun
    BY <2>3 DEF NothingRun
  <2>5. \A q \in DOMAIN orders :
            \/ outcome'[Holder(q)][q] = outcome[Holder(q)][q]
            \/ q = o /\ outcome'[Holder(q)][q] = "failed"
    BY <1>1, <1>7 DEF Refuse, Remember
  <2>6. \A q \in DOMAIN orders :
            \/ outcome'[Holder(q)][q] = outcome[Holder(q)][q]
            \/ /\ outcome'[Holder(q)][q] # "none"
               /\ AnswerTrue(q, outcome'[Holder(q)][q] = "ok")
    BY <2>2, <2>5
  <2> QED
    BY <1>2, <1>5, <1>6, <2>3, <2>4, <2>6, AccountsFrame
<1>8. ASSUME NEW o \in Order, Report(m, o)
      PROVE  AccountInv'
  <2>1. o \in page[m] /\ outcome[m][o] # "none"
    BY <1>8 DEF Report, Due
  <2>2. Known(o) /\ Holder(o) = m /\ o \in DOMAIN orders
    BY <2>1 DEF BaseInv, KnownInv, AgentKnows, Known
  <2>3. PICK ok \in BOOLEAN : ok = (outcome[m][o] = "ok")
    OBVIOUS
  <2>4. AnswerTrue(o, ok)
    BY <1>1, <2>1, <2>2, <2>3 DEF Accounted
  <2>5. UNCHANGED <<page, consumed, past, outcome>>
    BY <1>8 DEF Report, agentVars
  <2>6. \A c \in completions' : c \in completions \/ (c.order = o /\ c.ok = ok)
    BY <1>8, <2>3 DEF Report
  <2>7. \A c \in completions' : Known(c.order) /\ AnswerTrue(c.order, c.ok)
    BY <1>2, <2>2, <2>4, <2>6
  <2>8. NothingRun
    BY <2>5 DEF NothingRun
  <2> QED
    BY <1>5, <1>6, <2>5, <2>7, <2>8, AccountsFrame
<1>9. CASE GiveUp(m)
  <2>1. PICK c \in Reporting(m) :
          /\ completions' \in { completions \ {c},
                                (completions \ {c}) \cup {[c EXCEPT !.client = "gone"]} }
          /\ Remember(m, c.order, KeptAfterFailure(m, c.order))
          /\ page' = [page EXCEPT ![m] = @ \ {c.order}]
    BY <1>9 DEF GiveUp
  <2>2. \A n \in Machine, q \in Order : outcome'[n][q] = outcome[n][q]
    BY <1>1, <2>1 DEF Remember, KeptAfterFailure
  <2>3. \A n \in Machine : page'[n] \subseteq page[n]
    BY <1>1, <2>1
  <2>4. UNCHANGED <<consumed, past>>
    BY <1>9 DEF GiveUp
  <2>5. \A d \in completions' : Known(d.order) /\ AnswerTrue(d.order, d.ok)
    BY <1>2, <1>3, <2>1 DEF Reporting
  <2>6. NothingRun
    BY <2>4 DEF NothingRun
  <2>7. \A q \in DOMAIN orders : outcome'[Holder(q)][q] = outcome[Holder(q)][q]
    BY <1>1, <2>2
  <2> QED
    BY <1>5, <1>6, <2>3, <2>4, <2>5, <2>6, <2>7, AccountsFrame
<1>10. CASE Restart(m)
  <2>1. NothingRun
    BY <1>1, <1>10 DEF Restart, NothingRun, Past
  <2>2. \A n \in Machine : page'[n] \subseteq page[n]
    BY <1>1, <1>10 DEF Restart
  <2>3. page'[m] = {} /\ consumed'[m] = {} /\ \A q \in Order : outcome'[m][q] = "none"
    BY <1>1, <1>10 DEF Restart
  <2>4. \A n \in Machine : n # m => consumed'[n] = consumed[n] /\ outcome'[n] = outcome[n]
    BY <1>1, <1>10 DEF Restart
  <2>5. \A q \in consumed[m] : ~Settled(q) => past'[q].crashed
    BY <1>1, <1>10 DEF Restart, Past
  <2>6. ASSUME NEW d \in completions'
        PROVE  \E c \in completions : d.order = c.order /\ d.ok = c.ok
    <3>1. PICK c \in completions :
              d = IF c \in Reporting(m) THEN [c EXCEPT !.client = "gone"] ELSE c
      BY <1>10 DEF Restart
    <3> QED
      BY <1>3, <3>1
  <2>7. \A d \in completions' : Known(d.order) /\ AnswerTrue(d.order, d.ok)
    BY <1>2, <2>6
  <2>8. \A o \in DOMAIN orders : Settled(o) /\ Holder(o) = m => Over(o)'
    BY <1>4, <1>5, <2>3 DEF Over, Holder, JobOf
  <2>9. ASSUME NEW o \in DOMAIN orders, o \in consumed[Holder(o)],
               o \notin consumed'[Holder(o)]
        PROVE  past'[o].crashed \/ Over(o)'
    BY <1>1, <2>4, <2>5, <2>8, <2>9
  <2>10. ASSUME NEW o \in DOMAIN orders, past[o].done, outcome[Holder(o)][o] # "none",
                outcome'[Holder(o)][o] = "none"
         PROVE  Excused(o)' \/ Over(o)'
    <3>1. Holder(o) = m
      BY <1>1, <2>4, <2>10
    <3>2. past[o].runs > 0
      BY <1>1, <2>10 DEF Accounted
    <3>3. o \in consumed[m] \/ past[o].crashed \/ Over(o)
      BY <1>1, <3>1, <3>2 DEF Accounted
    <3>4. past[o].crashed => past'[o].crashed
      BY <1>1 DEF PastGrows
    <3> QED
      BY <2>5, <2>8, <3>1, <3>3, <3>4 DEF Excused, Over
  <2>11. \A o \in DOMAIN orders :
            outcome'[Holder(o)][o] # "none" => outcome'[Holder(o)][o] = outcome[Holder(o)][o]
    BY <1>1, <2>3, <2>4
  <2> QED
    BY <1>5, <1>6, <2>1, <2>2, <2>7, <2>9, <2>10, <2>11, AccountsFrame
<1> QED
  BY <1>7, <1>8, <1>9, <1>10, AccountsOfGit, AccountsOfLists DEF AgentStep

LEMMA AccountStep ==
    ASSUME BaseInv, AccountInv, [Next]_vars
    PROVE  AccountInv'
<1>1. BaseInv' /\ RowsGrow /\ PastGrows
  BY BaseStep
<1> QED
  BY <1>1, Steps, AccountsOfPresses, AccountsOfRows, AccountsOfReports, AccountsOfAgents
     DEF BaseInv

LEMMA AccountInit == Init => AccountInv
<1> SUFFICES ASSUME Init
             PROVE  AccountInv
  OBVIOUS
<1>1. DOMAIN orders = {} /\ completions = {}
  BY DEF Init
<1> QED
  BY <1>1 DEF Init, AccountInv

LEMMA AlwaysAccounted == Spec => [](BaseInv /\ AccountInv)
<1>1. Init => BaseInv /\ AccountInv
  BY BaseInit, AccountInit
<1>2. BaseInv /\ AccountInv /\ [Next]_vars => BaseInv' /\ AccountInv'
  BY BaseStep, AccountStep
<1> QED
  BY <1>1, <1>2, PTL DEF Spec

\* git is asked twice to carry an order out only if the agent died in between,
\* whatever becomes of its reports and lists.
THEOREM OrdersAreCarriedOutOnce == Spec => []OnceUnlessCrashed
<1>1. BaseInv /\ AccountInv => OnceUnlessCrashed
  <2> SUFFICES ASSUME BaseInv, AccountInv, NEW o \in Order
               PROVE  past[o].runs > 1 => past[o].crashed
    BY DEF OnceUnlessCrashed
  <2>1. CASE o \in DOMAIN orders
    BY <2>1 DEF AccountInv, Accounted
  <2>2. CASE o \notin DOMAIN orders
    BY <2>2 DEF AccountInv
  <2> QED
    BY <2>1, <2>2
<1> QED
  BY <1>1, AlwaysAccounted, PTL

\* A row ends as expired only if git did what was ordered, and as rejected only
\* if it did not, unless the agent crashed or lost sight of the order.
THEOREM RowsTellTheTruth == Spec => []VerdictIsTrue
<1>1. AccountInv => VerdictIsTrue
  <2> SUFFICES ASSUME AccountInv, NEW o \in DOMAIN orders
               PROVE  /\ orders[o].status = "expired" => past[o].done
                      /\ orders[o].status = "rejected" /\ past[o].done
                            => past[o].crashed \/ past[o].unlisted
    BY DEF VerdictIsTrue
  <2>1. Accounted(o)
    BY DEF AccountInv
  <2>2. CASE orders[o].status = "expired"
    BY <2>1, <2>2 DEF Accounted, Settled, AnswerTrue
  <2>3. CASE orders[o].status = "rejected"
    BY <2>1, <2>3 DEF Accounted, Settled, AnswerTrue, Excused
  <2> QED
    BY <2>2, <2>3
<1> QED
  BY <1>1, AlwaysAccounted, PTL

-------------------------------------------------------------------------------
(***************************************************************************)
(* What a press and a report still owe to the job.  A press that has yet to *)
(* write the job's row does it for an order that is still approved, or the  *)
(* order was raced; a report gives the job back before it settles the row.  *)
(* So whenever the row waits or is undecided there is an approved order     *)
(* whose report has not yet passed that point, and will.                    *)
(***************************************************************************)
Raced(o) == past[o].raced

\* no report of the order has reached one of these steps
Before(steps, o) == \A c \in completions : c.order = o => c.step \notin steps

RowAwaits(o) == Raced(o) \/ (Open(o) /\ Before({"consume"}, o))

VerdictAwaits(o) == Raced(o) \/ (Open(o) /\ Before({"restore", "consume"}, o))

PressesOwe ==
    \A p \in DOMAIN presses :
        presses[p].step \in {"note", "wait"} =>
            Open(presses[p].order) \/ Raced(presses[p].order)

ReportsRace ==
    \A c \in completions : c.step # "read" /\ Unfinished(c.order) => Raced(c.order)

WaitsForAnOrder ==
    \A j \in Job : status[j] # "completed" =>
        \E o \in DOMAIN orders : JobOf(o) = j /\ RowAwaits(o)

PendingForAnOrder ==
    \A j \in Job : decision[j] = "pending" =>
        \E o \in DOMAIN orders : JobOf(o) = j /\ VerdictAwaits(o)

\* a repeated result that puts back a pending decision read it for some order
ResultsHaveOrders ==
    \A r \in results : r.decision = "pending" => \E o \in DOMAIN orders : JobOf(o) = r.job

OnlyStudioDecides ==
    /\ \A j \in Job \ StudioJob : decision[j] = "none"
    /\ \A r \in results : r.job \notin StudioJob => r.decision = "none"

HandlersOwe == PressesOwe /\ ReportsRace

WaitingInv ==
    /\ HandlersOwe
    /\ WaitsForAnOrder
    /\ PendingForAnOrder
    /\ ResultsHaveOrders
    /\ OnlyStudioDecides

\* An order whose press is about to write the job's row still awaits its report.
LEMMA PressAwaits ==
    ASSUME BaseInv, HandlersOwe, NEW p \in DOMAIN presses,
           presses[p].step \in {"note", "wait"}
    PROVE  /\ presses[p].order \in DOMAIN orders
           /\ JobOf(presses[p].order) = presses[p].job
           /\ RowAwaits(presses[p].order)
           /\ VerdictAwaits(presses[p].order)
<1>1. presses[p].order \in DOMAIN orders /\ JobOf(presses[p].order) = presses[p].job
  BY DEF BaseInv, PressInv, PressesOwn, PressKnows
<1>2. Open(presses[p].order) \/ Raced(presses[p].order)
  BY DEF HandlersOwe, PressesOwe
<1>3. Unfinished(presses[p].order)
  BY DEF Unfinished
<1>4. \A c \in completions : c.order = presses[p].order =>
          c.step = "read" \/ Raced(presses[p].order)
  BY <1>3 DEF HandlersOwe, ReportsRace
<1> QED
  BY <1>1, <1>2, <1>4 DEF RowAwaits, VerdictAwaits, Before

\* What a step has to show of the rows when every order that was awaited is.
LEMMA RowsOwed ==
    ASSUME BaseInv, WaitingInv, RowsGrow,
           \A o \in DOMAIN orders : RowAwaits(o) => RowAwaits(o)',
           \A o \in DOMAIN orders :
               JobOf(o) \in StudioJob /\ VerdictAwaits(o) => VerdictAwaits(o)',
           \A j \in Job : \/ status'[j] = "completed"
                          \/ status[j] # "completed"
                          \/ \E o \in DOMAIN orders : JobOf(o) = j /\ RowAwaits(o),
           \A j \in Job : \/ decision'[j] # "pending"
                          \/ decision[j] = "pending"
                          \/ /\ j \in StudioJob
                             /\ \E o \in DOMAIN orders : JobOf(o) = j /\ VerdictAwaits(o)
    PROVE  WaitsForAnOrder' /\ PendingForAnOrder'
<1>1. \A o \in DOMAIN orders : o \in DOMAIN orders' /\ JobOf(o)' = JobOf(o)
  BY OrdersStay
<1>2. WaitsForAnOrder'
  BY <1>1 DEF WaitingInv, WaitsForAnOrder
<1>3. \A j \in Job : decision[j] = "pending" => j \in StudioJob
  BY DEF WaitingInv, OnlyStudioDecides
<1>4. PendingForAnOrder'
  <2> SUFFICES ASSUME NEW j \in Job, decision'[j] = "pending"
               PROVE  \E o \in DOMAIN orders' : JobOf(o)' = j /\ VerdictAwaits(o)'
    BY DEF PendingForAnOrder
  <2>1. j \in StudioJob /\ \E o \in DOMAIN orders : JobOf(o) = j /\ VerdictAwaits(o)
    BY <1>3 DEF WaitingInv, PendingForAnOrder
  <2> QED
    BY <1>1, <2>1
<1> QED
  BY <1>2, <1>4

LEMMA ResultsStill ==
    ASSUME WaitingInv, RowsGrow, results' \subseteq results
    PROVE  /\ ResultsHaveOrders'
           /\ \A r \in results' : r.job \notin StudioJob => r.decision = "none"
<1>1. \A o \in DOMAIN orders : o \in DOMAIN orders' /\ JobOf(o)' = JobOf(o)
  BY OrdersStay
<1> QED
  BY <1>1 DEF WaitingInv, ResultsHaveOrders, OnlyStudioDecides

\* The presses and the table stay, and no report goes further.
LEMMA OwedStill ==
    ASSUME BaseInv, WaitingInv, PastGrows, UNCHANGED <<orders, presses>>,
           \A c \in completions' :
               \/ c.step = "read"
               \/ \E d \in completions : d.order = c.order /\ d.step = c.step
    PROVE  /\ HandlersOwe'
           /\ \A o \in DOMAIN orders : RowAwaits(o) => RowAwaits(o)'
           /\ \A o \in DOMAIN orders : VerdictAwaits(o) => VerdictAwaits(o)'
<1>1. \A o \in DOMAIN orders : Raced(o) => Raced(o)'
  BY Indexes DEF Raced, PastGrows, BaseInv, PressInv
<1>2. \A p \in DOMAIN presses :
          presses[p].step \in {"note", "wait"} => presses[p].order \in DOMAIN orders
  BY DEF BaseInv, PressInv, PressesOwn, PressKnows
<1>3. \A d \in completions : d.order \in DOMAIN orders
  BY DEF BaseInv, KnownInv, HandlerKnows, Known
<1>4. PressesOwe'
  BY <1>1, <1>2 DEF WaitingInv, HandlersOwe, PressesOwe, Open
<1>5. ReportsRace'
  BY <1>1, <1>3 DEF WaitingInv, HandlersOwe, ReportsRace, Unfinished
<1>6. \A o \in DOMAIN orders : RowAwaits(o) => RowAwaits(o)'
  BY <1>1 DEF RowAwaits, Before, Open
<1>7. \A o \in DOMAIN orders : VerdictAwaits(o) => VerdictAwaits(o)'
  BY <1>1 DEF VerdictAwaits, Before, Open
<1> QED
  BY <1>4, <1>5, <1>6, <1>7 DEF HandlersOwe

LEMMA WaitingByAgents ==
    ASSUME BaseInv, WaitingInv, RowsGrow, PastGrows, NEW m \in Machine,
           AgentStep(m) \/ GiveUp(m) \/ Restart(m)
    PROVE  WaitingInv'
<1>1. UNCHANGED <<orders, status, decision, presses, results>>
  BY DEF AgentStep, List, Refuse, CarryOut, Report, GiveUp, Restart, rowVars, handlerVars
<1>2. \A c \in completions : [c EXCEPT !.client = "gone"].order = c.order
                          /\ [c EXCEPT !.client = "gone"].step = c.step
  BY DEF BaseInv, PressInv, TypeOK, CompletionHandler
<1>3. ASSUME NEW c \in completions'
      PROVE  \/ c.step = "read"
             \/ \E d \in completions : d.order = c.order /\ d.step = c.step
  <2>1. CASE GiveUp(m)
    BY <1>2, <2>1 DEF GiveUp, Reporting
  <2>2. CASE Restart(m)
    <3>1. PICK d \in completions :
              c = IF d \in Reporting(m) THEN [d EXCEPT !.client = "gone"] ELSE d
      BY <2>2 DEF Restart
    <3> QED
      BY <1>2, <3>1
  <2>3. CASE AgentStep(m)
    <3>1. CASE List(m) \/ \E o \in Order : Refuse(m, o) \/ CarryOut(m, o)
      <4>1. completions' = completions
        BY <3>1 DEF List, Refuse, CarryOut, handlerVars
      <4> QED
        BY <4>1
    <3>2. ASSUME NEW o \in Order, Report(m, o)
          PROVE  c \in completions \/ c.step = "read"
      BY <3>2 DEF Report
    <3> QED
      BY <2>3, <3>1, <3>2 DEF AgentStep
  <2> QED
    BY <2>1, <2>2, <2>3
<1>4. /\ HandlersOwe'
      /\ \A o \in DOMAIN orders : RowAwaits(o) => RowAwaits(o)'
      /\ \A o \in DOMAIN orders : VerdictAwaits(o) => VerdictAwaits(o)'
  BY <1>1, <1>3, OwedStill
<1>5. WaitsForAnOrder' /\ PendingForAnOrder'
  BY <1>1, <1>4, RowsOwed
<1>6. ResultsHaveOrders' /\ OnlyStudioDecides'
  BY <1>1, ResultsStill DEF OnlyStudioDecides, WaitingInv
<1> QED
  BY <1>4, <1>5, <1>6 DEF WaitingInv

LEMMA WaitingByRows ==
    ASSUME BaseInv, WaitingInv, RowsGrow, PastGrows,
           \/ \E j \in Job : RepeatResult(j) \/ Sweep(j)
           \/ \E r \in results : WriteResult(r)
           \/ UNCHANGED vars
    PROVE  WaitingInv'
<1>1. UNCHANGED <<orders, presses, completions>>
  BY DEF RepeatResult, Sweep, WriteResult, rowVars, handlerVars, vars
<1>2. /\ status \in [Job -> {"completed", "waiting_for_approval", "interrupted"}]
      /\ decision \in [Job -> Decisions]
      /\ results \subseteq [job : Job, decision : Decisions]
      /\ past \in [Order -> Past]
      /\ DOMAIN orders \subseteq Order
  BY Indexes DEF BaseInv, PressInv, TypeOK
<1>3. /\ HandlersOwe'
      /\ \A o \in DOMAIN orders : RowAwaits(o) => RowAwaits(o)'
      /\ \A o \in DOMAIN orders : VerdictAwaits(o) => VerdictAwaits(o)'
  BY <1>1, OwedStill
<1>4. ASSUME NEW j \in Job, RepeatResult(j)
      PROVE  WaitingInv'
  <2>1. status' = status /\ decision' = decision
    BY <1>4 DEF RepeatResult, rowVars
  <2>2. WaitsForAnOrder' /\ PendingForAnOrder'
    BY <1>3, <2>1, RowsOwed
  <2>3. \A r \in results' : r \in results \/ (r.job = j /\ r.decision = decision[j])
    BY <1>4 DEF RepeatResult
  <2>4. ResultsHaveOrders'
    BY <1>1, <2>3 DEF ResultsHaveOrders, WaitingInv, PendingForAnOrder, JobOf
  <2>5. OnlyStudioDecides'
    BY <2>1, <2>3 DEF OnlyStudioDecides, WaitingInv
  <2> QED
    BY <1>3, <2>2, <2>4, <2>5 DEF WaitingInv
<1>5. ASSUME NEW j \in Job, Sweep(j)
      PROVE  WaitingInv'
  <2>1. /\ decision' = decision
        /\ results' = results
        /\ \A i \in Job : status'[i] = status[i] \/ status[i] # "completed"
    BY <1>2, <1>5 DEF Sweep, handlerVars
  <2>2. WaitsForAnOrder' /\ PendingForAnOrder'
    BY <1>3, <2>1, RowsOwed
  <2>3. ResultsHaveOrders' /\ OnlyStudioDecides'
    BY <2>1, ResultsStill DEF OnlyStudioDecides, WaitingInv
  <2> QED
    BY <1>3, <2>2, <2>3 DEF WaitingInv
<1>6. ASSUME NEW r \in results, WriteResult(r)
      PROVE  WaitingInv'
  <2>1. r.job \in Job /\ r.decision \in Decisions
    BY <1>2
  <2>2. /\ \A i \in Job : i # r.job => status'[i] = status[i] /\ decision'[i] = decision[i]
        /\ status'[r.job] = "completed"
        /\ decision'[r.job] = r.decision
        /\ results' \subseteq results
    BY <1>2, <1>6, <2>1 DEF WriteResult
  <2>3. \A o \in DOMAIN orders : JobOf(o) = r.job => Raced(o)'
    BY <1>2, <1>6 DEF WriteResult, Raced, Past
  <2>4. WaitsForAnOrder'
    BY <1>1, <1>3, <2>2 DEF WaitsForAnOrder, WaitingInv, JobOf
  <2>5. PendingForAnOrder'
    <3> SUFFICES ASSUME NEW j \in Job, decision'[j] = "pending"
                 PROVE  \E o \in DOMAIN orders : JobOf(o) = j /\ VerdictAwaits(o)'
      BY <1>1 DEF PendingForAnOrder, JobOf
    <3>1. CASE j = r.job
      <4>1. PICK o \in DOMAIN orders : JobOf(o) = r.job
        BY <2>2, <3>1 DEF WaitingInv, ResultsHaveOrders
      <4> QED
        BY <2>3, <3>1, <4>1 DEF VerdictAwaits
    <3>2. CASE j # r.job
      BY <1>3, <2>2, <3>2 DEF WaitingInv, PendingForAnOrder
    <3> QED
      BY <3>1, <3>2
  <2>6. ResultsHaveOrders' /\ \A s \in results' : s.job \notin StudioJob => s.decision = "none"
    BY <2>2, ResultsStill
  <2>7. OnlyStudioDecides'
    BY <2>2, <2>6 DEF OnlyStudioDecides, WaitingInv
  <2> QED
    BY <1>3, <2>4, <2>5, <2>6, <2>7 DEF WaitingInv
<1>7. CASE UNCHANGED vars
  <2>1. status' = status /\ decision' = decision /\ results' = results
    BY <1>7 DEF vars, rowVars, handlerVars
  <2>2. WaitsForAnOrder' /\ PendingForAnOrder'
    BY <1>3, <2>1, RowsOwed
  <2>3. ResultsHaveOrders' /\ OnlyStudioDecides'
    BY <2>1, ResultsStill DEF OnlyStudioDecides, WaitingInv
  <2> QED
    BY <1>3, <2>2, <2>3 DEF WaitingInv
<1> QED
  BY <1>4, <1>5, <1>6, <1>7

\* A report goes on.  The next step it takes is one that a Studio order whose
\* verdict is awaited has not yet come to, or the row is given back with it.
LEMMA WaitingByReports ==
    ASSUME BaseInv, BaseInv', WaitingInv, RowsGrow, PastGrows, NEW c \in completions,
           \/ AnswerRepeated(c) \/ AcceptReport(c) \/ NoteVerdict(c)
           \/ RestoreJob(c)     \/ Consume(c)
    PROVE  WaitingInv'
<1>1. /\ status \in [Job -> {"completed", "waiting_for_approval", "interrupted"}]
      /\ decision \in [Job -> Decisions]
      /\ past \in [Order -> Past]
      /\ c \in CompletionHandler
      /\ c.order \in DOMAIN orders
      /\ c.order \in Order
      /\ JobOf(c.order) \in Job
      /\ c.step = "note" => JobOf(c.order) \in StudioJob
      /\ \A o \in DOMAIN orders : JobOf(o) \in Job
  BY Indexes DEF BaseInv, PressInv, TypeOK, KnownInv, HandlerKnows, Known, CompletionHandler
<1>2. presses' = presses /\ results' = results
  BY DEF AnswerRepeated, AcceptReport, NoteVerdict, RestoreJob, Consume
<1>3. ResultsHaveOrders' /\ \A r \in results' : r.job \notin StudioJob => r.decision = "none"
  BY <1>2, ResultsStill
<1>4. \A step \in {"note", "restore", "consume"} :
          [c EXCEPT !.step = step].order = c.order /\ [c EXCEPT !.step = step].step = step
  BY <1>1 DEF CompletionHandler
<1>5. CASE AnswerRepeated(c)
  <2>1. UNCHANGED <<orders, status, decision>> /\ completions' \subseteq completions
    BY <1>5 DEF AnswerRepeated, Answer, rowVars
  <2>2. /\ HandlersOwe'
        /\ \A o \in DOMAIN orders : RowAwaits(o) => RowAwaits(o)'
        /\ \A o \in DOMAIN orders : VerdictAwaits(o) => VerdictAwaits(o)'
    BY <1>2, <2>1, OwedStill
  <2>3. WaitsForAnOrder' /\ PendingForAnOrder'
    BY <2>1, <2>2, RowsOwed
  <2> QED
    BY <1>3, <2>1, <2>2, <2>3 DEF WaitingInv, OnlyStudioDecides
<1>6. CASE AcceptReport(c) \/ NoteVerdict(c) \/ RestoreJob(c)
  <2>1. PICK next \in {"note", "restore", "consume"} :
          /\ CompletionTo(c, next)
          /\ \/ /\ AcceptReport(c)
                /\ next = IF JobOf(c.order) \in StudioJob THEN "note" ELSE "restore"
             \/ NoteVerdict(c) /\ next = "restore"
             \/ RestoreJob(c) /\ next = "consume"
    BY <1>6 DEF AcceptReport, NoteVerdict, RestoreJob
  <2>2. /\ orders' = orders
        /\ \A d \in completions' :
              d \in completions \/ (d.order = c.order /\ d.step = next)
    BY <1>4, <1>6, <2>1 DEF AcceptReport, NoteVerdict, RestoreJob, CompletionTo, rowVars
  <2>3. \A o \in DOMAIN orders : Raced(o) => Raced(o)'
    BY Indexes DEF Raced, PastGrows, BaseInv, PressInv
  <2>4. PressesOwe'
    <3>1. \A p \in DOMAIN presses :
            presses[p].step \in {"note", "wait"} => presses[p].order \in DOMAIN orders
      BY DEF BaseInv, PressInv, PressesOwn, PressKnows
    <3> QED
      BY <1>2, <2>2, <2>3, <3>1 DEF WaitingInv, HandlersOwe, PressesOwe, Open
  <2>5. Unfinished(c.order) => Raced(c.order)'
    <3>1. CASE AcceptReport(c)
      <4>1. PICK r \in BOOLEAN : r = (past[c.order].raced \/ Unfinished(c.order))
        OBVIOUS
      <4>2. past' = [past EXCEPT ![c.order].raced = r]
        BY <3>1, <4>1 DEF AcceptReport
      <4>3. past'[c.order].raced = r
        BY <1>1, <4>2 DEF Past
      <4> QED
        BY <4>1, <4>3 DEF Raced
    <3>2. CASE NoteVerdict(c) \/ RestoreJob(c)
      BY <1>1, <2>3, <3>2 DEF NoteVerdict, RestoreJob, WaitingInv, HandlersOwe, ReportsRace
    <3> QED
      BY <1>6, <3>1, <3>2
  <2>6. ReportsRace'
    <3>1. \A d \in completions : d.order \in DOMAIN orders
      BY DEF BaseInv, KnownInv, HandlerKnows, Known
    <3> QED
      BY <1>2, <2>2, <2>3, <2>5, <3>1 DEF WaitingInv, HandlersOwe, ReportsRace, Unfinished
  <2>7. \A o \in DOMAIN orders : RowAwaits(o) /\ (o = c.order => next # "consume") => RowAwaits(o)'
    BY <2>2, <2>3 DEF RowAwaits, Before, Open
  <2>8. \A o \in DOMAIN orders :
            VerdictAwaits(o) /\ (o = c.order => next = "note" \/ c.step = "restore")
               => VerdictAwaits(o)'
    BY <2>2, <2>3 DEF VerdictAwaits, Before, Open
  <2>9. CASE AcceptReport(c) /\ next = (IF JobOf(c.order) \in StudioJob THEN "note" ELSE "restore")
    <3>1. status' = status /\ decision' = decision
      BY <2>9 DEF AcceptReport, rowVars
    <3>2. WaitsForAnOrder' /\ PendingForAnOrder'
      BY <2>7, <2>8, <2>9, <3>1, RowsOwed
    <3> QED
      BY <1>3, <2>4, <2>6, <3>1, <3>2 DEF WaitingInv, HandlersOwe, OnlyStudioDecides
  <2>10. CASE NoteVerdict(c) /\ next = "restore"
    <3>1. /\ status' = status
          /\ \A j \in Job : j # JobOf(c.order) => decision'[j] = decision[j]
          /\ decision'[JobOf(c.order)] # "pending"
          /\ JobOf(c.order) \in StudioJob
      BY <1>1, <2>10 DEF NoteVerdict, Verdict
    <3>2. WaitsForAnOrder'
      BY <2>2, <2>7, <2>10, <3>1 DEF WaitingInv, WaitsForAnOrder, JobOf
    <3>3. PendingForAnOrder'
      BY <2>2, <2>8, <3>1 DEF WaitingInv, PendingForAnOrder, JobOf
    <3>4. OnlyStudioDecides'
      BY <1>3, <3>1 DEF WaitingInv, OnlyStudioDecides
    <3> QED
      BY <1>3, <2>4, <2>6, <3>2, <3>3, <3>4 DEF WaitingInv, HandlersOwe
  <2>11. CASE RestoreJob(c) /\ next = "consume"
    <3>1. /\ decision' = decision
          /\ \A j \in Job : j # JobOf(c.order) => status'[j] = status[j]
          /\ status'[JobOf(c.order)] = "completed"
          /\ c.step = "restore"
      BY <1>1, <2>11 DEF RestoreJob, Restored
    <3>2. WaitsForAnOrder'
      BY <2>2, <2>7, <3>1 DEF WaitingInv, WaitsForAnOrder, JobOf
    <3>3. PendingForAnOrder'
      BY <2>2, <2>8, <3>1 DEF WaitingInv, PendingForAnOrder, JobOf
    <3>4. OnlyStudioDecides'
      BY <1>3, <3>1 DEF WaitingInv, OnlyStudioDecides
    <3> QED
      BY <1>3, <2>4, <2>6, <3>2, <3>3, <3>4 DEF WaitingInv, HandlersOwe
  <2> QED
    BY <2>1, <2>9, <2>10, <2>11
<1>7. CASE Consume(c)
  <2>1. /\ UNCHANGED <<status, decision, past>>
        /\ completions' \subseteq completions
        /\ c.step = "consume"
    BY <1>7 DEF Consume, Answer
  <2>2. \A o \in DOMAIN orders : o # c.order /\ Open(o) => Open(o)'
    BY <1>1, <1>7, OrderSettled DEF BaseInv, Consume, Open, CompletionHandler
  <2>3. Unfinished(c.order) => Raced(c.order)
    BY <2>1 DEF WaitingInv, HandlersOwe, ReportsRace
  <2>4. PressesOwe'
    <3> SUFFICES ASSUME NEW p \in DOMAIN presses, presses[p].step \in {"note", "wait"}
                 PROVE  Open(presses[p].order)' \/ Raced(presses[p].order)
      BY <1>2, <2>1 DEF PressesOwe, Raced
    <3>1. /\ presses[p].order \in DOMAIN orders
          /\ Unfinished(presses[p].order)
          /\ Open(presses[p].order) \/ Raced(presses[p].order)
      <4>1. presses[p].order \in DOMAIN orders
        BY PressAwaits DEF WaitingInv
      <4>2. Unfinished(presses[p].order)
        BY DEF Unfinished
      <4>3. Open(presses[p].order) \/ Raced(presses[p].order)
        BY DEF WaitingInv, HandlersOwe, PressesOwe
      <4> QED
        BY <4>1, <4>2, <4>3
    <3> QED
      BY <1>2, <2>2, <2>3, <3>1
  <2>5. ReportsRace'
    BY <1>2, <2>1 DEF WaitingInv, HandlersOwe, ReportsRace, Unfinished, Raced
  <2>6. RowAwaits(c.order) => Raced(c.order)
    BY <2>1 DEF RowAwaits, Before
  <2>7. VerdictAwaits(c.order) => Raced(c.order)
    BY <2>1 DEF VerdictAwaits, Before
  <2>8. \A o \in DOMAIN orders : RowAwaits(o) => RowAwaits(o)'
    BY <2>1, <2>2, <2>6 DEF RowAwaits, Raced, Before
  <2>9. \A o \in DOMAIN orders : VerdictAwaits(o) => VerdictAwaits(o)'
    BY <2>1, <2>2, <2>7 DEF VerdictAwaits, Raced, Before
  <2>10. WaitsForAnOrder' /\ PendingForAnOrder'
    BY <2>1, <2>8, <2>9, RowsOwed
  <2> QED
    BY <1>3, <2>1, <2>4, <2>5, <2>10 DEF WaitingInv, HandlersOwe, OnlyStudioDecides
<1> QED
  BY <1>5, <1>6, <1>7

\* A press goes on: it never settles an order, and it writes the row only while
\* its order is awaited.
LEMMA WaitingByPresses ==
    ASSUME BaseInv, WaitingInv, RowsGrow, PastGrows,
           \/ \E b \in Offered : StudioPress(b[1], b[2]) \/ TelegramPress(b[1], b[2])
           \/ \E p \in DOMAIN presses : PressStep(p) \/ LosePress(p)
    PROVE  WaitingInv'
<1>1. UNCHANGED <<completions, results, past>>
  BY DEF StudioPress, TelegramPress, PressStep, CreateOrder, ApproveOrder, NoteDecision,
         AwaitApproval, LosePress
<1>2. /\ status \in [Job -> {"completed", "waiting_for_approval", "interrupted"}]
      /\ decision \in [Job -> Decisions]
      /\ \A p \in DOMAIN presses : presses[p] \in PressHandler /\ presses[p].job \in Job
      /\ \A p \in DOMAIN presses : PressKnows(presses[p])
      /\ \A d \in completions : d.order \in DOMAIN orders
  BY Indexes
     DEF BaseInv, PressInv, TypeOK, PressHandler, PressesOwn, KnownInv, HandlerKnows, Known
<1>3. ResultsHaveOrders' /\ \A r \in results' : r.job \notin StudioJob => r.decision = "none"
  BY <1>1, ResultsStill
<1>4. ASSUME \A o \in DOMAIN orders : Open(o) => Open(o)',
             \A o \in DOMAIN orders : Unfinished(o)' => Unfinished(o)
      PROVE  /\ ReportsRace'
             /\ \A o \in DOMAIN orders : RowAwaits(o) => RowAwaits(o)'
             /\ \A o \in DOMAIN orders : VerdictAwaits(o) => VerdictAwaits(o)'
  <2>1. ReportsRace'
    BY <1>1, <1>2, <1>4 DEF WaitingInv, HandlersOwe, ReportsRace, Raced
  <2>2. \A o \in DOMAIN orders : RowAwaits(o) => RowAwaits(o)'
    BY <1>1, <1>4 DEF RowAwaits, Raced, Before
  <2>3. \A o \in DOMAIN orders : VerdictAwaits(o) => VerdictAwaits(o)'
    BY <1>1, <1>4 DEF VerdictAwaits, Raced, Before
  <2> QED
    BY <2>1, <2>2, <2>3
<1>5. ASSUME NEW b \in Offered, StudioPress(b[1], b[2]) \/ TelegramPress(b[1], b[2])
      PROVE  WaitingInv'
  <2> DEFINE new == [step |-> "create", job |-> b[1], action |-> b[2], order |-> 0]
  <2>1. orders' = orders /\ status' = status /\ decision' = decision
    BY <1>5 DEF StudioPress, TelegramPress, rowVars
  <2>2. presses' = Append(presses, new)
    BY <1>5 DEF StudioPress, TelegramPress, Entered
  <2>3. presses \in Seq(PressHandler) /\ new \in PressHandler
    BY OfferedAssumption DEF BaseInv, PressInv, TypeOK, PressHandler
  <2>4. /\ presses' \in Seq(PressHandler)
        /\ Len(presses') = Len(presses) + 1
        /\ \A p \in 1..Len(presses) : presses'[p] = presses[p]
        /\ presses'[Len(presses) + 1] = new
    BY <2>2, <2>3, AppendProperties
  <2>5. /\ DOMAIN presses = 1..Len(presses)
        /\ DOMAIN presses' = 1..(Len(presses) + 1)
        /\ Len(presses) \in Nat
    BY <2>3, <2>4, LenProperties
  <2>6. \A p \in DOMAIN presses' : \/ p \in DOMAIN presses /\ presses'[p] = presses[p]
                                   \/ presses'[p] = new
    BY <2>4, <2>5
  <2>7. PressesOwe'
    BY <1>1, <2>1, <2>6 DEF PressesOwe, WaitingInv, HandlersOwe, Open, Raced
  <2>8. \A o \in DOMAIN orders : Unfinished(o)' => Unfinished(o)
    <3>1. \A o \in DOMAIN orders : o # 0
      BY Indexes DEF BaseInv, PressInv, Order
    <3> QED
      BY <2>6, <3>1 DEF Unfinished
  <2>9. WaitsForAnOrder' /\ PendingForAnOrder' /\ ReportsRace'
    BY <1>4, <2>1, <2>8, RowsOwed DEF Open
  <2> QED
    BY <1>3, <2>1, <2>7, <2>9 DEF WaitingInv, HandlersOwe, OnlyStudioDecides
<1>6. ASSUME NEW p \in DOMAIN presses, CreateOrder(p)
      PROVE  WaitingInv'
  <2>1. /\ \A o \in DOMAIN orders : orders'[o] = orders[o]
        /\ Len(orders) + 1 \notin DOMAIN orders
        /\ DOMAIN presses' = DOMAIN presses
        /\ \A q \in DOMAIN presses : q # p => presses'[q] = presses[q]
        /\ presses'[p].step = "resolve"
        /\ presses'[p].order = Len(orders) + 1
    BY <1>6, OrderCreated DEF BaseInv
  <2>2. status' = status /\ decision' = decision
    BY <1>6 DEF CreateOrder
  <2>3. \A o \in DOMAIN orders : Open(o) => Open(o)'
    BY <2>1 DEF Open
  <2>4. \A o \in DOMAIN orders : Unfinished(o)' => Unfinished(o)
    BY <2>1 DEF Unfinished
  <2>5. PressesOwe'
    <3> SUFFICES ASSUME NEW q \in DOMAIN presses, presses'[q].step \in {"note", "wait"}
                 PROVE  Open(presses[q].order)' \/ Raced(presses[q].order)'
      BY <2>1 DEF PressesOwe
    <3>1. presses'[q] = presses[q]
      BY <2>1
    <3>2. presses[q].order \in DOMAIN orders
      BY <1>2, <3>1 DEF PressKnows
    <3>3. Open(presses[q].order) \/ Raced(presses[q].order)
      BY <3>1 DEF WaitingInv, HandlersOwe, PressesOwe
    <3> QED
      BY <1>1, <2>3, <3>1, <3>2, <3>3 DEF Raced, Open
  <2>6. WaitsForAnOrder' /\ PendingForAnOrder' /\ ReportsRace'
    BY <1>4, <2>2, <2>3, <2>4, RowsOwed
  <2> QED
    BY <1>3, <2>2, <2>5, <2>6 DEF WaitingInv, HandlersOwe, OnlyStudioDecides
<1>7. ASSUME NEW p \in DOMAIN presses, ApproveOrder(p)
      PROVE  WaitingInv'
  <2> DEFINE h == presses[p]
             step == IF h.job \in StudioJob THEN "note" ELSE "wait"
  <2>1. /\ DOMAIN orders' = DOMAIN orders
        /\ h.order \in DOMAIN orders
        /\ orders'[h.order].status = "approved"
        /\ \A q \in DOMAIN orders : q # h.order => orders'[q].status = orders[q].status
    BY <1>7, OrderApproved DEF BaseInv
  <2>2. step \in {"create", "resolve", "note", "wait", "ended"} /\ Advance(p, step)
    BY <1>7 DEF ApproveOrder
  <2>3. /\ DOMAIN presses' = DOMAIN presses
        /\ \A q \in DOMAIN presses :
              /\ q # p => presses'[q] = presses[q]
              /\ presses'[q].order = presses[q].order
              /\ presses'[q].step = IF q = p THEN step ELSE presses[q].step
    BY <2>2, PressAdvanced DEF BaseInv, PressInv
  <2>4. status' = status /\ decision' = decision /\ h.step = "resolve"
    BY <1>7 DEF ApproveOrder
  <2>5. \A o \in DOMAIN orders : Open(o) => Open(o)'
    BY <2>1 DEF Open
  <2>6. \A o \in DOMAIN orders : Unfinished(o)' => Unfinished(o)
    BY <2>3, <2>4 DEF Unfinished
  <2>7. PressesOwe'
    <3> SUFFICES ASSUME NEW q \in DOMAIN presses, presses'[q].step \in {"note", "wait"}
                 PROVE  Open(presses[q].order)' \/ Raced(presses[q].order)'
      BY <2>3 DEF PressesOwe
    <3>1. CASE q = p
      BY <2>1, <2>3, <3>1 DEF Open
    <3>2. CASE q # p
      BY <1>1, <1>2, <2>3, <2>5, <3>2
         DEF WaitingInv, HandlersOwe, PressesOwe, PressKnows, Raced
    <3> QED
      BY <3>1, <3>2
  <2>8. WaitsForAnOrder' /\ PendingForAnOrder' /\ ReportsRace'
    BY <1>4, <2>4, <2>5, <2>6, RowsOwed
  <2> QED
    BY <1>3, <2>4, <2>7, <2>8 DEF WaitingInv, HandlersOwe, OnlyStudioDecides
<1>8. ASSUME NEW p \in DOMAIN presses, NoteDecision(p) \/ AwaitApproval(p) \/ LosePress(p)
      PROVE  WaitingInv'
  <2> DEFINE h == presses[p]
  <2>1. PICK step \in {"wait", "ended"} :
          Advance(p, step) /\ (step = "wait" => h.step = "note") /\ h.step # "ended"
    BY <1>8 DEF NoteDecision, AwaitApproval, LosePress
  <2>2. /\ DOMAIN presses' = DOMAIN presses
        /\ \A q \in DOMAIN presses :
              /\ presses'[q].order = presses[q].order
              /\ presses'[q].step = IF q = p THEN step ELSE presses[q].step
    BY <2>1, PressAdvanced DEF BaseInv, PressInv
  <2>3. orders' = orders
    BY <1>8 DEF NoteDecision, AwaitApproval, LosePress, rowVars
  <2>4. \A o \in DOMAIN orders : Open(o) => Open(o)'
    BY <2>3 DEF Open
  <2>5. \A o \in DOMAIN orders : Unfinished(o)' => Unfinished(o)
    BY <2>1, <2>2 DEF Unfinished
  <2>6. PressesOwe'
    BY <1>1, <2>1, <2>2, <2>3 DEF PressesOwe, WaitingInv, HandlersOwe, Open, Raced
  <2>7. h.step \in {"note", "wait"} =>
            \E o \in DOMAIN orders : JobOf(o) = h.job /\ RowAwaits(o) /\ VerdictAwaits(o)
    BY PressAwaits DEF WaitingInv
  <2>8. \A j \in Job : \/ status'[j] = status[j]
                       \/ h.step = "wait" /\ j = h.job
    BY <1>2, <1>8 DEF NoteDecision, AwaitApproval, LosePress, rowVars
  <2>9. \A j \in Job : \/ decision'[j] = decision[j]
                       \/ h.step = "note" /\ j = h.job
    BY <1>2, <1>8 DEF NoteDecision, AwaitApproval, LosePress, rowVars
  <2>10. h.step = "note" => h.job \in StudioJob
    BY <1>2 DEF PressKnows
  <2>11. ReportsRace'
         /\ (\A o \in DOMAIN orders : RowAwaits(o) => RowAwaits(o)')
         /\ (\A o \in DOMAIN orders : VerdictAwaits(o) => VerdictAwaits(o)')
    BY <1>4, <2>4, <2>5
  <2>12. WaitsForAnOrder' /\ PendingForAnOrder'
    BY <2>7, <2>8, <2>9, <2>10, <2>11, RowsOwed
  <2>13. OnlyStudioDecides'
    BY <1>3, <2>9, <2>10 DEF WaitingInv, OnlyStudioDecides
  <2> QED
    BY <1>3, <2>6, <2>11, <2>12, <2>13 DEF WaitingInv, HandlersOwe
<1> QED
  BY <1>5, <1>6, <1>7, <1>8 DEF PressStep

LEMMA WaitingStep ==
    ASSUME BaseInv, WaitingInv, [Next]_vars
    PROVE  WaitingInv'
<1>1. BaseInv' /\ RowsGrow /\ PastGrows
  BY BaseStep
<1> QED
  BY <1>1, Steps, WaitingByPresses, WaitingByAgents, WaitingByReports, WaitingByRows
     DEF BaseInv

LEMMA WaitingInit == Init => WaitingInv
<1> SUFFICES ASSUME Init
             PROVE  WaitingInv
  OBVIOUS
<1>1. DOMAIN presses = {} /\ completions = {}
  BY DEF Init
<1>2. \A r \in results : r.decision = "none"
  BY DEF Init
<1>3. \A j \in Job : status[j] = "completed" /\ decision[j] = "none"
  BY DEF Init
<1> QED
  BY <1>1, <1>2, <1>3
     DEF WaitingInv, HandlersOwe, PressesOwe, ReportsRace, WaitsForAnOrder,
         PendingForAnOrder, ResultsHaveOrders, OnlyStudioDecides

\* A job that waits, was swept or is undecided still has an approved order whose
\* report will give it back, wherever handlers and agents were cut off, except
\* where an order was raced.
THEOREM WaitingJobsAreServed == Spec => []NoJobLeftWaiting
<1>1. Init => BaseInv /\ WaitingInv
  BY BaseInit, WaitingInit
<1>2. BaseInv /\ WaitingInv /\ [Next]_vars => BaseInv' /\ WaitingInv'
  BY BaseStep, WaitingStep
<1>3. WaitingInv => NoJobLeftWaiting
  BY DEF WaitingInv, WaitsForAnOrder, PendingForAnOrder, RowAwaits, VerdictAwaits, Raced,
         NoJobLeftWaiting
<1> QED
  BY <1>1, <1>2, <1>3, PTL DEF Spec

-------------------------------------------------------------------------------
(***************************************************************************)
(* What Studio is told of the only order of a job.  The users have no       *)
(* button for a push there, so what was done can be read off the worktree;  *)
(* and once the report has noted its verdict nothing writes it again: the   *)
(* press was over before, or the order was raced.                           *)
(***************************************************************************)
PressesOffered ==
    /\ \A p \in DOMAIN presses : <<presses[p].job, presses[p].action>> \in Offered
    /\ \A o \in DOMAIN orders : <<JobOf(o), orders[o].action>> \in Offered

Alone(o) ==
    /\ JobOf(o) \in StudioJob
    /\ \A q \in DOMAIN orders : JobOf(q) = JobOf(o) => q = o

WorktreeShows(o) == Alone(o) /\ past[o].done => worktree[JobOf(o)] = AfterGit(o)

\* a report of the order has noted its verdict
Decided(o) == Settled(o) \/ ~Before({"restore", "consume"}, o)

Told(o) == Alone(o) /\ Decided(o) /\ ~Raced(o) /\ ~Excused(o)

StudioShows(o) == Told(o) => decision[JobOf(o)] = Verdict(o, past[o].done)

TruthInv ==
    /\ PressesOffered
    /\ \A o \in DOMAIN orders : WorktreeShows(o) /\ StudioShows(o)

SureInv == BaseInv /\ AccountInv /\ WaitingInv

LEMMA AloneBefore ==
    ASSUME RowsGrow, NEW o \in DOMAIN orders, Alone(o)'
    PROVE  Alone(o)
<1>1. \A q \in DOMAIN orders : q \in DOMAIN orders' /\ JobOf(q)' = JobOf(q)
  BY OrdersStay
<1> QED
  BY <1>1 DEF Alone

\* What the only order of a Studio job leaves in the worktree.
LEMMA StudioActions ==
    ASSUME SureInv, PressesOffered, NEW o \in DOMAIN orders, Alone(o)
    PROVE  /\ orders[o].action \in {"commit", "discard"}
           /\ AfterGit(o) = IF orders[o].action = "commit" THEN "committed" ELSE "gone"
<1>1. orders[o].action \in Actions
  BY Indexes DEF SureInv, BaseInv, PressInv, OrderRow
<1>2. orders[o].action # "push"
  BY OfferedAssumption DEF PressesOffered, Alone
<1> QED
  BY <1>1, <1>2 DEF Actions, AfterGit

\* The table of the orders offered grows by what a press asks for.
LEMMA OfferedStep ==
    ASSUME SureInv, PressesOffered, RowsGrow, [Next]_vars
    PROVE  PressesOffered'
<1>1. \A o \in DOMAIN orders : JobOf(o)' = JobOf(o) /\ orders'[o].action = orders[o].action
  BY OrdersStay
<1>2. PressInv
  BY DEF SureInv, BaseInv
<1>3. ASSUME presses' = presses, DOMAIN orders' \subseteq DOMAIN orders
      PROVE  PressesOffered'
  BY <1>1, <1>3 DEF PressesOffered
<1>4. ASSUME NEW b \in Offered, StudioPress(b[1], b[2]) \/ TelegramPress(b[1], b[2])
      PROVE  PressesOffered'
  <2> DEFINE new == [step |-> "create", job |-> b[1], action |-> b[2], order |-> 0]
  <2>1. orders' = orders /\ presses' = Append(presses, new)
    BY <1>4 DEF StudioPress, TelegramPress, Entered, rowVars
  <2>2. presses \in Seq(PressHandler) /\ new \in PressHandler
    BY OfferedAssumption DEF SureInv, BaseInv, PressInv, TypeOK, PressHandler
  <2>3. /\ presses' \in Seq(PressHandler)
        /\ Len(presses') = Len(presses) + 1
        /\ \A p \in 1..Len(presses) : presses'[p] = presses[p]
        /\ presses'[Len(presses) + 1] = new
    BY <2>1, <2>2, AppendProperties
  <2>4. /\ DOMAIN presses = 1..Len(presses)
        /\ DOMAIN presses' = 1..(Len(presses) + 1)
        /\ Len(presses) \in Nat
    BY <2>2, <2>3, LenProperties
  <2>5. \A p \in DOMAIN presses' : \/ p \in DOMAIN presses /\ presses'[p] = presses[p]
                                   \/ presses'[p] = new
    BY <2>3, <2>4
  <2>6. <<b[1], b[2]>> = b
    BY OfferedAssumption
  <2> QED
    BY <2>1, <2>5, <2>6 DEF PressesOffered, JobOf
<1>5. ASSUME NEW p \in DOMAIN presses, CreateOrder(p)
      PROVE  PressesOffered'
  <2>1. /\ DOMAIN orders' = DOMAIN orders \cup {Len(orders) + 1}
        /\ orders'[Len(orders) + 1].job = presses[p].job
        /\ orders'[Len(orders) + 1].action = presses[p].action
        /\ DOMAIN presses' = DOMAIN presses
        /\ \A q \in DOMAIN presses : q # p => presses'[q] = presses[q]
        /\ presses'[p].job = presses[p].job
        /\ presses'[p].action = presses[p].action
    BY <1>2, <1>5, OrderCreated
  <2>2. \A q \in DOMAIN presses' : <<presses'[q].job, presses'[q].action>> \in Offered
    BY <2>1 DEF PressesOffered
  <2>3. \A o \in DOMAIN orders' : <<JobOf(o)', orders'[o].action>> \in Offered
    BY <1>1, <2>1 DEF PressesOffered, JobOf
  <2> QED
    BY <2>2, <2>3 DEF PressesOffered
<1>6. ASSUME NEW p \in DOMAIN presses,
             ApproveOrder(p) \/ NoteDecision(p) \/ AwaitApproval(p) \/ LosePress(p)
      PROVE  PressesOffered'
  <2>1. DOMAIN orders' = DOMAIN orders
    BY <1>2, <1>6, OrderApproved DEF NoteDecision, AwaitApproval, LosePress, rowVars
  <2>2. PICK step \in {"note", "wait", "ended"} : Advance(p, step)
    BY <1>6 DEF ApproveOrder, NoteDecision, AwaitApproval, LosePress
  <2>3. /\ DOMAIN presses' = DOMAIN presses
        /\ \A q \in DOMAIN presses :
              presses'[q].job = presses[q].job /\ presses'[q].action = presses[q].action
    BY <1>2, <2>2, PressAdvanced DEF PressInv
  <2> QED
    BY <1>1, <2>1, <2>3 DEF PressesOffered
<1>7. ASSUME NEW c \in completions, Consume(c)
      PROVE  PressesOffered'
  <2>1. c.order \in DOMAIN orders /\ c.ok \in BOOLEAN
    BY DEF SureInv, BaseInv, PressInv, TypeOK, KnownInv, HandlerKnows, Known,
           CompletionHandler
  <2>2. DOMAIN orders' = DOMAIN orders /\ presses' = presses
    BY <1>2, <1>7, <2>1, OrderSettled DEF Consume
  <2> QED
    BY <1>3, <2>2
<1>8. ASSUME NEW c \in completions,
             AnswerRepeated(c) \/ AcceptReport(c) \/ NoteVerdict(c) \/ RestoreJob(c)
      PROVE  PressesOffered'
  BY <1>3, <1>8 DEF AnswerRepeated, AcceptReport, NoteVerdict, RestoreJob, rowVars
<1>9. ASSUME NEW m \in Machine, AgentStep(m) \/ GiveUp(m) \/ Restart(m)
      PROVE  PressesOffered'
  BY <1>3, <1>9 DEF AgentStep, List, Refuse, CarryOut, Report, GiveUp, Restart, rowVars,
                    handlerVars
<1>10. ASSUME \/ \E j \in Job : RepeatResult(j) \/ Sweep(j)
              \/ \E r \in results : WriteResult(r)
              \/ UNCHANGED vars
       PROVE  PressesOffered'
  BY <1>3, <1>10 DEF RepeatResult, Sweep, WriteResult, rowVars, handlerVars, vars
<1> QED
  BY <1>2, <1>4, <1>5, <1>6, <1>7, <1>8, <1>9, <1>10, Steps DEF PressStep

\* An order that was there before, when the step asks nothing of git.
LEMMA ShownStill ==
    ASSUME SureInv, TruthInv, RowsGrow, PastGrows, NEW o \in DOMAIN orders,
           past'[o].done = past[o].done,
           worktree' = worktree,
           Told(o)' => \/ Decided(o) /\ decision'[JobOf(o)] = decision[JobOf(o)]
                       \/ decision'[JobOf(o)] = Verdict(o, past[o].done)
    PROVE  WorktreeShows(o)' /\ StudioShows(o)'
<1>1. /\ JobOf(o)' = JobOf(o)
      /\ orders'[o].action = orders[o].action
      /\ o \in Order
  BY OrdersStay, Indexes DEF SureInv, BaseInv, PressInv
<1>2. Alone(o)' => Alone(o)
  BY AloneBefore
<1>3. (Raced(o) => Raced(o)') /\ (Excused(o) => Excused(o)')
  BY <1>1 DEF Raced, Excused, PastGrows
<1>4. WorktreeShows(o)'
  <2>1. Alone(o) => AfterGit(o)' = AfterGit(o)
    BY <1>1, StudioActions DEF AfterGit, TruthInv
  <2> QED
    BY <1>1, <1>2, <2>1 DEF TruthInv, WorktreeShows
<1>5. StudioShows(o)'
  <2> SUFFICES ASSUME Told(o)'
               PROVE  decision'[JobOf(o)] = Verdict(o, past[o].done)
    BY <1>1 DEF StudioShows, Verdict
  <2>1. Decided(o) => Told(o)
    BY <1>2, <1>3 DEF Told
  <2> QED
    BY <2>1 DEF TruthInv, StudioShows
<1> QED
  BY <1>4, <1>5

LEMMA TruthByPresses ==
    ASSUME SureInv, SureInv', TruthInv, RowsGrow, PastGrows,
           \/ \E b \in Offered : StudioPress(b[1], b[2]) \/ TelegramPress(b[1], b[2])
           \/ \E p \in DOMAIN presses : PressStep(p) \/ LosePress(p),
           NEW o \in DOMAIN orders
    PROVE  WorktreeShows(o)' /\ StudioShows(o)'
<1>1. UNCHANGED <<completions, past, worktree>>
  BY DEF StudioPress, TelegramPress, PressStep, CreateOrder, ApproveOrder, NoteDecision,
         AwaitApproval, LosePress, agentVars
<1>2. Settled(o)' => Settled(o)
  <2>1. ASSUME NEW p \in DOMAIN presses, CreateOrder(p)
        PROVE  Settled(o)' => Settled(o)
    BY <2>1, OrderCreated DEF SureInv, BaseInv, Settled
  <2>2. ASSUME NEW p \in DOMAIN presses, ApproveOrder(p)
        PROVE  Settled(o)' => Settled(o)
    BY <2>2, OrderApproved DEF SureInv, BaseInv, Settled
  <2> QED
    BY <2>1, <2>2 DEF StudioPress, TelegramPress, PressStep, NoteDecision, AwaitApproval,
                      LosePress, rowVars, Settled
<1>3. Decided(o)' => Decided(o)
  BY <1>1, <1>2 DEF Decided, Before
<1>4. decision \in [Job -> Decisions]
  BY DEF SureInv, BaseInv, PressInv, TypeOK
<1>5. ASSUME NEW p \in DOMAIN presses, NoteDecision(p), Told(o)'
      PROVE  decision'[JobOf(o)] = decision[JobOf(o)]
  <2>1. /\ presses[p].order \in DOMAIN orders
        /\ JobOf(presses[p].order) = presses[p].job
    BY <1>5, PressAwaits DEF SureInv, WaitingInv, NoteDecision
  <2>2. CASE presses[p].job = JobOf(o)
    <3>1. presses[p].order = o
      BY <1>5, <2>1, <2>2, AloneBefore DEF Told, Alone
    <3>2. RowAwaits(o) /\ VerdictAwaits(o)
      BY <1>5, <3>1, PressAwaits DEF SureInv, WaitingInv, NoteDecision
    <3>3. ~Raced(o)
      BY <1>1, <1>5 DEF Told, Raced
    <3>4. ~Decided(o)
      BY <3>2, <3>3 DEF VerdictAwaits, Decided, Open, Settled
    <3> QED
      BY <1>3, <1>5, <3>4 DEF Told
  <2>3. CASE presses[p].job # JobOf(o)
    BY <1>4, <1>5, <2>3 DEF NoteDecision
  <2> QED
    BY <2>2, <2>3
<1>6. Told(o)' => decision'[JobOf(o)] = decision[JobOf(o)]
  BY <1>5 DEF StudioPress, TelegramPress, PressStep, CreateOrder, ApproveOrder,
              AwaitApproval, LosePress, rowVars
<1>7. Told(o)' => Decided(o)
  BY <1>3 DEF Told
<1> QED
  BY <1>1, <1>6, <1>7, ShownStill

LEMMA TruthByRows ==
    ASSUME SureInv, SureInv', TruthInv, RowsGrow, PastGrows,
           \/ \E j \in Job : RepeatResult(j) \/ Sweep(j)
           \/ \E r \in results : WriteResult(r)
           \/ UNCHANGED vars,
           NEW o \in DOMAIN orders
    PROVE  WorktreeShows(o)' /\ StudioShows(o)'
<1>1. UNCHANGED <<orders, completions, worktree>>
  BY DEF RepeatResult, Sweep, WriteResult, rowVars, handlerVars, agentVars, vars
<1>2. /\ o \in Order
      /\ past \in [Order -> Past]
      /\ decision \in [Job -> Decisions]
  BY Indexes DEF SureInv, BaseInv, PressInv, TypeOK
<1>3. Decided(o)' => Decided(o)
  BY <1>1 DEF Decided, Before, Settled
<1>4. ASSUME NEW r \in results, WriteResult(r)
      PROVE  /\ past'[o].done = past[o].done
             /\ Told(o)' => decision'[JobOf(o)] = decision[JobOf(o)]
  <2>1. past'[o].done = past[o].done /\ (JobOf(o) = r.job => Raced(o)')
    BY <1>2, <1>4 DEF WriteResult, Raced, Past
  <2>2. JobOf(o) # r.job => decision'[JobOf(o)] = decision[JobOf(o)]
    BY <1>2, <1>4 DEF WriteResult
  <2> QED
    BY <2>1, <2>2 DEF Told
<1>5. /\ past'[o].done = past[o].done
      /\ Told(o)' => decision'[JobOf(o)] = decision[JobOf(o)]
  BY <1>4 DEF RepeatResult, Sweep, rowVars, vars
<1>6. Told(o)' => Decided(o)
  BY <1>3 DEF Told
<1> QED
  BY <1>1, <1>5, <1>6, ShownStill

\* A report notes what git did, for the only order of the job.
LEMMA TruthByReports ==
    ASSUME SureInv, SureInv', TruthInv, RowsGrow, PastGrows, NEW c \in completions,
           \/ AnswerRepeated(c) \/ AcceptReport(c) \/ NoteVerdict(c)
           \/ RestoreJob(c)     \/ Consume(c),
           NEW o \in DOMAIN orders
    PROVE  WorktreeShows(o)' /\ StudioShows(o)'
<1>1. /\ decision \in [Job -> Decisions]
      /\ past \in [Order -> Past]
      /\ o \in Order
      /\ c \in CompletionHandler
      /\ c.order \in DOMAIN orders
      /\ AnswerTrue(c.order, c.ok)
      /\ c.ok \in BOOLEAN
  BY Indexes DEF SureInv, BaseInv, PressInv, TypeOK, KnownInv, HandlerKnows, Known,
                 AccountInv, CompletionHandler
<1>2. worktree' = worktree
  BY DEF AnswerRepeated, AcceptReport, NoteVerdict, RestoreJob, Consume, agentVars
<1>3. past'[o].done = past[o].done
  <2>1. CASE AcceptReport(c)
    BY <1>1, <2>1 DEF AcceptReport, Past
  <2>2. CASE ~AcceptReport(c)
    BY <2>2 DEF AnswerRepeated, NoteVerdict, RestoreJob, Consume
  <2> QED
    BY <2>1, <2>2
<1>4. \A step \in {"note", "restore", "consume"} :
          [c EXCEPT !.step = step].order = c.order /\ [c EXCEPT !.step = step].step = step
  BY <1>1 DEF CompletionHandler
<1>5. CASE AnswerRepeated(c)
  <2>1. /\ UNCHANGED <<orders, decision>>
        /\ completions' \subseteq completions
    BY <1>5 DEF AnswerRepeated, Answer, rowVars
  <2>2. Told(o)' => Decided(o)
    BY <2>1 DEF Told, Decided, Before, Settled
  <2> QED
    BY <1>2, <1>3, <2>1, <2>2, ShownStill
<1>6. CASE AcceptReport(c)
  <2>1. UNCHANGED <<orders, decision>>
    BY <1>6 DEF AcceptReport, rowVars
  <2>2. \A d \in completions' :
            \/ d \in completions
            \/ d.order = c.order /\ (JobOf(c.order) \in StudioJob => d.step = "note")
    BY <1>4, <1>6 DEF AcceptReport, CompletionTo
  <2>3. Told(o)' => Alone(o)
    BY AloneBefore DEF Told
  <2>4. Told(o)' => Decided(o)
    BY <2>1, <2>2, <2>3 DEF Told, Decided, Before, Settled, Alone
  <2> QED
    BY <1>2, <1>3, <2>1, <2>4, ShownStill
<1>7. CASE NoteVerdict(c)
  <2>1. /\ orders' = orders
        /\ past' = past
        /\ decision' = [decision EXCEPT ![JobOf(c.order)] = Verdict(c.order, c.ok)]
        /\ \A d \in completions' : d \in completions \/ d.order = c.order
    BY <1>4, <1>7 DEF NoteVerdict, CompletionTo
  <2>2. Told(o)' => Alone(o) /\ ~Excused(o)
    BY <2>1, AloneBefore DEF Told, Excused
  <2>3. ASSUME Told(o)', JobOf(o) = JobOf(c.order)
        PROVE  decision'[JobOf(o)] = Verdict(o, past[o].done)
    <3>1. c.order = o
      BY <1>1, <2>2, <2>3 DEF Alone
    <3>2. c.ok = past[o].done
      BY <1>1, <2>2, <2>3, <3>1 DEF AnswerTrue, Past
    <3>3. JobOf(o) \in Job
      BY Indexes DEF SureInv, BaseInv, PressInv
    <3>4. decision'[JobOf(o)] = Verdict(o, c.ok)
      BY <1>1, <2>1, <3>1, <3>3
    <3> QED
      BY <3>2, <3>4
  <2>4. ASSUME Told(o)', JobOf(o) # JobOf(c.order)
        PROVE  Decided(o) /\ decision'[JobOf(o)] = decision[JobOf(o)]
    <3>1. decision'[JobOf(o)] = decision[JobOf(o)]
      BY <1>1, <2>1, <2>4
    <3>2. Decided(o)
      BY <2>1, <2>4 DEF Told, Decided, Before, Settled
    <3> QED
      BY <3>1, <3>2
  <2> QED
    BY <1>2, <1>3, <2>3, <2>4, ShownStill
<1>8. CASE RestoreJob(c)
  <2>1. /\ UNCHANGED <<orders, decision>>
        /\ c.step = "restore"
        /\ \A d \in completions' : d \in completions \/ d.order = c.order
    BY <1>4, <1>8 DEF RestoreJob, CompletionTo
  <2>2. Told(o)' => Decided(o)
    BY <2>1 DEF Told, Decided, Before, Settled
  <2> QED
    BY <1>2, <1>3, <2>1, <2>2, ShownStill
<1>9. CASE Consume(c)
  <2>1. /\ decision' = decision
        /\ c.step = "consume"
        /\ completions' \subseteq completions
    BY <1>9 DEF Consume, Answer
  <2>2. o # c.order => orders'[o].status = orders[o].status
    BY <1>1, <1>9, OrderSettled DEF Consume, SureInv, BaseInv
  <2>3. Told(o)' => Decided(o)
    BY <2>1, <2>2 DEF Told, Decided, Before, Settled
  <2> QED
    BY <1>2, <1>3, <2>1, <2>3, ShownStill
<1> QED
  BY <1>5, <1>6, <1>7, <1>8, <1>9

\* Git is asked for an order that nobody can have noted or settled, unless the
\* agent crashed.
LEMMA TruthByGit ==
    ASSUME SureInv, SureInv', TruthInv, RowsGrow, PastGrows, NEW m \in Machine,
           NEW q \in Order, CarryOut(m, q), NEW o \in DOMAIN orders
    PROVE  WorktreeShows(o)' /\ StudioShows(o)'
<1>1. /\ worktree \in [Job -> {"dirty", "committed", "gone"}]
      /\ past \in [Order -> Past]
      /\ completions \subseteq CompletionHandler
      /\ JobOf(o) \in Job
      /\ o \in Order
  BY Indexes DEF SureInv, BaseInv, PressInv, TypeOK
<1>2. /\ q \in page[m]
      /\ q \notin consumed[m]
      /\ ~Banned(q)
      /\ q \in DOMAIN orders
      /\ Holder(q) = m
      /\ ~Over(q)
      /\ Accounted(q)
  BY DEF CarryOut, Due, Denied, Banned, SureInv, BaseInv, KnownInv, AgentKnows, Known, Over,
         AccountInv
<1>3. PICK ok \in BOOLEAN :
        /\ worktree' = IF ok THEN [worktree EXCEPT ![JobOf(q)] = AfterGit(q)] ELSE worktree
        /\ past' = [past EXCEPT ![q].runs = @ + 1, ![q].done = @ \/ ok]
  BY DEF CarryOut, Feasible
<1>4. /\ \A r \in Order : r # q => past'[r] = past[r]
      /\ past'[q].done <=> past[q].done \/ ok
      /\ past'[q].crashed = past[q].crashed
  BY <1>3, RunRecorded DEF SureInv, BaseInv, PressInv
<1>5. UNCHANGED <<orders, completions, decision>>
  BY DEF CarryOut, rowVars, handlerVars
<1>6. Decided(o)' <=> Decided(o)
  BY <1>5 DEF Decided, Before, Settled
<1>7. Alone(o)' <=> Alone(o)
  BY <1>5 DEF Alone, JobOf
<1>8. AfterGit(o)' = AfterGit(o) \/ ~Alone(o)
  BY <1>5, StudioActions DEF AfterGit, TruthInv
<1>9. CASE q # o
  <2>1. Alone(o) => worktree'[JobOf(o)] = worktree[JobOf(o)]
    BY <1>1, <1>2, <1>3, <1>9 DEF Alone
  <2>2. past'[o] = past[o]
    BY <1>1, <1>4, <1>9
  <2>3. WorktreeShows(o)'
    BY <1>5, <1>7, <1>8, <2>1, <2>2 DEF TruthInv, WorktreeShows, JobOf
  <2>4. Told(o)' <=> Told(o)
    BY <1>6, <1>7, <2>2 DEF Told, Raced, Excused
  <2>5. StudioShows(o)'
    BY <1>5, <2>2, <2>4 DEF TruthInv, StudioShows, Verdict, JobOf
  <2> QED
    BY <2>3, <2>5
<1>10. CASE q = o
  <2>1. WorktreeShows(o)'
    <3>1. ok => worktree'[JobOf(o)] = AfterGit(o)
      BY <1>1, <1>3, <1>10
    <3>2. ~ok => worktree' = worktree
      BY <1>3
    <3>3. JobOf(o)' = JobOf(o)
      BY <1>5 DEF JobOf
    <3> QED
      BY <1>4, <1>7, <1>8, <1>10, <3>1, <3>2, <3>3 DEF TruthInv, WorktreeShows
  <2>2. ~Told(o)'
    <3> SUFFICES ASSUME Decided(o)
                 PROVE  past[o].crashed
      BY <1>4, <1>6, <1>10 DEF Told, Excused
    <3>1. past[o].runs > 0 \/ Banned(o)
      <4>1. CASE Settled(o)
        BY <1>2, <1>10, <4>1 DEF Accounted, AnswerTrue
      <4>2. CASE ~Settled(o)
        <5>1. PICK c \in completions : c.order = o
          BY <4>2 DEF Decided, Before
        <5> QED
          BY <5>1 DEF SureInv, AccountInv, AnswerTrue
      <4> QED
        BY <4>1, <4>2
    <3> QED
      BY <1>2, <1>10, <3>1 DEF Accounted
  <2> QED
    BY <2>1, <2>2 DEF StudioShows
<1> QED
  BY <1>9, <1>10

LEMMA TruthByAgents ==
    ASSUME SureInv, SureInv', TruthInv, RowsGrow, PastGrows, NEW m \in Machine,
           AgentStep(m) \/ GiveUp(m) \/ Restart(m), NEW o \in DOMAIN orders
    PROVE  WorktreeShows(o)' /\ StudioShows(o)'
<1>1. past \in [Order -> Past] /\ o \in Order
  BY Indexes DEF SureInv, BaseInv, PressInv, TypeOK
<1>2. \A c \in completions : [c EXCEPT !.client = "gone"].order = c.order
                          /\ [c EXCEPT !.client = "gone"].step = c.step
  BY DEF SureInv, BaseInv, PressInv, TypeOK, CompletionHandler
<1>3. UNCHANGED <<orders, decision>>
  BY DEF AgentStep, List, Refuse, CarryOut, Report, GiveUp, Restart, rowVars
<1>4. ASSUME past'[o].done = past[o].done, worktree' = worktree,
             \A c \in completions' :
                 \/ c.step = "read"
                 \/ \E d \in completions : d.order = c.order /\ d.step = c.step
      PROVE  WorktreeShows(o)' /\ StudioShows(o)'
  <2>1. Told(o)' => Decided(o)
    BY <1>3, <1>4 DEF Told, Decided, Before, Settled
  <2> QED
    BY <1>3, <1>4, <2>1, ShownStill
<1>5. CASE List(m)
  <2>1. past'[o].done = past[o].done
    BY <1>1, <1>5 DEF List, Past
  <2>2. worktree' = worktree /\ completions' = completions
    BY <1>5 DEF List, handlerVars
  <2> QED
    BY <1>4, <2>1, <2>2
<1>6. ASSUME NEW q \in Order, Refuse(m, q) \/ Report(m, q)
      PROVE  WorktreeShows(o)' /\ StudioShows(o)'
  <2>1. past' = past /\ worktree' = worktree
    BY <1>6 DEF Refuse, Report, agentVars
  <2>2. \A c \in completions' : c \in completions \/ c.step = "read"
    BY <1>6 DEF Refuse, Report, handlerVars
  <2> QED
    BY <1>4, <2>1, <2>2
<1>7. CASE GiveUp(m)
  <2>1. past' = past /\ worktree' = worktree
    BY <1>7 DEF GiveUp
  <2>2. \A c \in completions' : \E d \in completions : d.order = c.order /\ d.step = c.step
    BY <1>2, <1>7 DEF GiveUp, Reporting
  <2> QED
    BY <1>4, <2>1, <2>2
<1>8. CASE Restart(m)
  <2>1. past'[o].done = past[o].done /\ worktree' = worktree
    BY <1>1, <1>8 DEF Restart, Past
  <2>2. ASSUME NEW c \in completions'
        PROVE  \E d \in completions : d.order = c.order /\ d.step = c.step
    <3>1. PICK d \in completions :
              c = IF d \in Reporting(m) THEN [d EXCEPT !.client = "gone"] ELSE d
      BY <1>8 DEF Restart
    <3> QED
      BY <1>2, <3>1
  <2> QED
    BY <1>4, <2>1, <2>2
<1> QED
  BY <1>5, <1>6, <1>7, <1>8, TruthByGit DEF AgentStep

\* A new order comes from a press, which leaves the past alone.
LEMMA NewByPress ==
    ASSUME BaseInv, [Next]_vars, NEW o \in DOMAIN orders', o \notin DOMAIN orders
    PROVE  past' = past
<1>1. PressInv
  BY DEF BaseInv
<1>2. ASSUME NEW c \in completions, Consume(c)
      PROVE  DOMAIN orders' = DOMAIN orders
  <2>1. c.order \in DOMAIN orders /\ c.ok \in BOOLEAN
    BY DEF BaseInv, PressInv, TypeOK, KnownInv, HandlerKnows, Known, CompletionHandler
  <2> QED
    BY <1>1, <1>2, <2>1, OrderSettled DEF Consume
<1>3. \/ \E b \in Offered : StudioPress(b[1], b[2]) \/ TelegramPress(b[1], b[2])
      \/ \E p \in DOMAIN presses : PressStep(p) \/ LosePress(p)
  BY <1>1, <1>2, Steps
     DEF AgentStep, List, Refuse, CarryOut, Report, GiveUp, Restart, AnswerRepeated,
         AcceptReport, NoteVerdict, RestoreJob, RepeatResult, Sweep, WriteResult, rowVars,
         vars
<1> QED
  BY <1>3 DEF StudioPress, TelegramPress, PressStep, CreateOrder, ApproveOrder,
              NoteDecision, AwaitApproval, LosePress

LEMMA TruthStep ==
    ASSUME SureInv, SureInv', TruthInv, [Next]_vars
    PROVE  TruthInv'
<1>1. RowsGrow /\ PastGrows /\ BaseInv
  BY BaseStep DEF SureInv
<1>2. PressesOffered'
  BY <1>1, OfferedStep DEF TruthInv
<1>3. ASSUME NEW o \in DOMAIN orders
      PROVE  WorktreeShows(o)' /\ StudioShows(o)'
  BY <1>1, Steps, TruthByPresses, TruthByRows, TruthByReports, TruthByAgents DEF BaseInv
<1>4. ASSUME NEW o \in DOMAIN orders', o \notin DOMAIN orders
      PROVE  WorktreeShows(o)' /\ StudioShows(o)'
  <2>1. orders'[o].status = "pending"
    BY <1>1, <1>4 DEF RowsGrow
  <2>2. ~past'[o].done
    <3>1. o \in Order
      BY <1>4, TableIndexes DEF SureInv, BaseInv, PressInv, TypeOK
    <3>2. past \in [Order -> Past] /\ ~past[o].done
      BY <1>4, <3>1 DEF SureInv, BaseInv, PressInv, TypeOK, AccountInv
    <3>3. past' = past
      BY <1>1, <1>4, NewByPress
    <3> QED
      BY <3>2, <3>3
  <2>3. ~Decided(o)'
    <3>1. ~Settled(o)'
      BY <2>1 DEF Settled
    <3>2. \A c \in completions' : c.order # o
      BY <2>1 DEF SureInv, BaseInv, KnownInv, HandlerKnows, Known
    <3> QED
      BY <3>1, <3>2 DEF Decided, Before
  <2> QED
    BY <2>2, <2>3 DEF WorktreeShows, StudioShows, Told
<1> QED
  BY <1>2, <1>3, <1>4 DEF TruthInv

LEMMA TruthInit == Init => TruthInv
<1> SUFFICES ASSUME Init
             PROVE  TruthInv
  OBVIOUS
<1>1. DOMAIN orders = {} /\ DOMAIN presses = {}
  BY DEF Init
<1> QED
  BY <1>1 DEF TruthInv, PressesOffered

\* What Studio shows of a job with one order is what was done to its worktree,
\* unless the order was raced, its agent crashed or a list hid it.
THEOREM StudioShowsWhatWasDone == Spec => []StudioIsToldTheTruth
<1> DEFINE Inv == SureInv /\ TruthInv
<1>1. Init => Inv
  BY BaseInit, AccountInit, WaitingInit, TruthInit DEF SureInv
<1>2. Inv /\ [Next]_vars => Inv'
  <2> SUFFICES ASSUME Inv, [Next]_vars
               PROVE  Inv'
    OBVIOUS
  <2>1. SureInv'
    BY BaseStep, AccountStep, WaitingStep DEF SureInv
  <2> QED
    BY <2>1, TruthStep
<1>3. Inv => StudioIsToldTheTruth
  <2> SUFFICES ASSUME Inv, NEW o \in DOMAIN orders,
                      JobOf(o) \in StudioJob, Settled(o),
                      \A q \in DOMAIN orders : JobOf(q) = JobOf(o) => q = o,
                      ~past[o].raced, ~past[o].crashed, ~past[o].unlisted
               PROVE  decision[JobOf(o)] =
                        CASE ~past[o].done                                    -> "failed"
                          [] past[o].done /\ worktree[JobOf(o)] = "committed" -> "applied"
                          [] past[o].done /\ worktree[JobOf(o)] = "gone"      -> "discarded"
    BY DEF StudioIsToldTheTruth
  <2>1. Alone(o) /\ Told(o)
    BY DEF Told, Alone, Decided, Raced, Excused
  <2>2. decision[JobOf(o)] = Verdict(o, past[o].done)
    BY <2>1 DEF TruthInv, StudioShows
  <2>3. /\ orders[o].action \in {"commit", "discard"}
        /\ AfterGit(o) = IF orders[o].action = "commit" THEN "committed" ELSE "gone"
    BY <2>1, StudioActions DEF TruthInv
  <2>4. past[o].done => worktree[JobOf(o)] = AfterGit(o)
    BY <2>1 DEF TruthInv, WorktreeShows
  <2> QED
    BY <2>2, <2>3, <2>4 DEF Verdict
<1> QED
  BY <1>1, <1>2, <1>3, PTL DEF Spec
===============================================================================
