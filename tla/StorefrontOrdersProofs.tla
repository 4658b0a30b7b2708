------------------------- MODULE StorefrontOrdersProofs -------------------------
(***************************************************************************)
(* Proofs about the checkout: its types and amounts, how far the usage     *)
(* limit of a promotion can be overrun, and the limit of one use per       *)
(* customer, for any number of checkouts, customers, baskets and           *)
(* promotions.                                                             *)
(***************************************************************************)
EXTENDS StorefrontOrders, FiniteSetTheorems, TLAPS

Calls == {NoCheckout} \cup ReadCheckout \cup AskedCheckout \cup PricedCheckout

\* The amounts of one priced checkout agree, as OrderTotals asks of an order.
Agree(order) ==
  /\ order.discount <= order.subtotal
  /\ \/ order.total + order.discount = order.subtotal + order.fee
     \/ order.discount = order.subtotal /\ order.total = order.subtotal + order.fee
  /\ order.fee > 0 => order.subtotal >= MinimumOrder

PricedInv == \A c \in Checkouts :
  checkout[c].at \in {"priced", "created"} => Agree(checkout[c])

\* A discount is a natural number and never above the subtotal.
LEMMA DiscountBounded ==
  ASSUME NEW offer \in Promotions, NEW basket \in Baskets
  PROVE  /\ Discount(offer, basket.subtotal) \in Nat
         /\ Discount(offer, basket.subtotal) <= basket.subtotal
<1>1. basket.subtotal \in Nat /\ offer.value \in Nat
  BY OrderConstants
<1>2. \A p \in Nat : (p + 50) \div 100 \in Nat
  OBVIOUS
<1>3. basket.subtotal * offer.value \in Nat
  BY <1>1
<1>4. (basket.subtotal * offer.value + 50) \div 100 \in Nat
  BY <1>2, <1>3
<1>5. \A p, s \in Nat : Least(s, p) \in Nat /\ Least(s, p) <= s
  BY DEF Least
<1>. QED
  BY <1>1, <1>4, <1>5 DEF Discount

\* What Priced returns: no checkout, or one whose amounts agree.
LEMMA PricedAgrees ==
  ASSUME NEW who \in Customers, NEW basket \in Baskets, NEW redeems \in BOOLEAN,
         NEW offer \in Promotions
  PROVE  LET call == Priced(who, basket, redeems, offer) IN
         \/ call = NoCheckout
         \/ /\ call \in PricedCheckout /\ Agree(call)
            /\ call.at = "priced" /\ call.who = who /\ call.redeems = redeems
<1>. DEFINE amount == IF redeems THEN Discount(offer, basket.subtotal) ELSE 0
            call == [at |-> "priced", who |-> who, redeems |-> redeems,
                     subtotal |-> basket.subtotal, discount |-> amount,
                     fee |-> Fee(basket),
                     total |-> Charged(basket.subtotal, amount) + Fee(basket)]
<1>1. basket.subtotal \in Nat /\ MinimumOrder \in Nat /\ DeliveryFee \in Nat
  BY OrderConstants
<1>2. amount \in Nat /\ amount <= basket.subtotal
  BY <1>1, DiscountBounded
<1>3. Fee(basket) \in Nat
  BY <1>1 DEF Fee
<1>4. /\ Charged(basket.subtotal, amount) \in Nat
      /\ \/ Charged(basket.subtotal, amount) + amount = basket.subtotal
         \/ amount = basket.subtotal /\ Charged(basket.subtotal, amount) = basket.subtotal
  <2>. HIDE DEF amount
  <2>. QED  BY <1>1, <1>2 DEF Charged
<1>5. Deliverable(basket) => (Fee(basket) > 0 => basket.subtotal >= MinimumOrder)
  BY <1>1 DEF Deliverable, Fee
<1>6. Priced(who, basket, redeems, offer) \in {call, NoCheckout}
  BY DEF Priced
<1>7. Priced(who, basket, redeems, offer) = call => Deliverable(basket)
  BY DEF Priced, NoCheckout
<1>8. call \in PricedCheckout
  <2>. HIDE DEF amount
  <2>. QED  BY <1>1, <1>2, <1>3, <1>4 DEF PricedCheckout
<1>9. Deliverable(basket) => Agree(call)
  <2>. HIDE DEF amount
  <2>. QED  BY <1>1, <1>2, <1>3, <1>4, <1>5 DEF Agree
<1>. QED
  BY <1>6, <1>7, <1>8, <1>9
-----------------------------------------------------------------------------
\* Types and amounts hold at first.
LEMMA TypesBegin == OrdersInit => OrdersTypeOK /\ PricedInv
<1>. SUFFICES ASSUME OrdersInit PROVE OrdersTypeOK /\ PricedInv
  OBVIOUS
<1>1. promotion.usageLimit \in Nat /\ MaxRedemptions \in Nat /\ MaxPromotionEdits \in Nat
  BY OrderConstants DEF OrdersInit
<1>2. checkout \in [Checkouts -> Calls]
  BY DEF OrdersInit, Calls
<1>3. oncePerCustomer \in BOOLEAN /\ countsRaced \in BOOLEAN
  BY DEF OrdersInit
<1>4. promotion \in Promotions /\ redeemed \in [Customers -> Nat]
  BY DEF OrdersInit
<1>5. /\ usageCount \in 0..MaxRedemptions /\ promotionEdits \in 0..MaxPromotionEdits
      /\ highestLimit \in Nat
  BY <1>1 DEF OrdersInit
<1>6. PricedInv
  BY DEF OrdersInit, PricedInv, NoCheckout
<1>. QED
  BY <1>2, <1>3, <1>4, <1>5, <1>6 DEF OrdersTypeOK, Calls

\* Types and amounts are kept when one checkout is replaced by a good one.
LEMMA CallReplaced ==
  ASSUME checkout \in [Checkouts -> Calls], PricedInv, NEW c \in Checkouts,
         NEW call \in Calls,
         call.at \in {"priced", "created"} => Agree(call),
         checkout' = [checkout EXCEPT ![c] = call]
  PROVE  checkout' \in [Checkouts -> Calls] /\ PricedInv'
<1>1. checkout' \in [Checkouts -> Calls]
  OBVIOUS
<1>2. \A d \in Checkouts : checkout'[d] = IF d = c THEN call ELSE checkout[d]
  OBVIOUS
<1>. QED
  BY <1>1, <1>2 DEF PricedInv

\* The stage of a checkout says which record it is.
LEMMA CallKinds ==
  ASSUME NEW call \in Calls
  PROVE  /\ call.at \in {"priced", "created"} => call \in PricedCheckout
         /\ call.at = "read" => call \in ReadCheckout
         /\ call.at = "asked" => call \in AskedCheckout
<1>1. call = NoCheckout => call.at = "idle"
  BY DEF NoCheckout
<1>2. call \in ReadCheckout => call.at = "read"
  BY DEF ReadCheckout
<1>3. call \in AskedCheckout => call.at = "asked"
  BY DEF AskedCheckout
<1>4. call \in PricedCheckout => call.at \in {"priced", "created"}
  BY DEF PricedCheckout
<1>5. call = NoCheckout \/ call \in ReadCheckout \/ call \in AskedCheckout
        \/ call \in PricedCheckout
  BY DEF Calls
<1>. QED
  BY <1>1, <1>2, <1>3, <1>4, <1>5

\* The record with which a checkout begins.
LEMMA CallBegun ==
  ASSUME OrdersTypeOK, NEW c \in Checkouts, NEW who \in Customers,
         NEW basket \in Baskets, NEW redeems \in BOOLEAN,
         BeginCheckout(c, who, basket, redeems)
  PROVE  \E call \in Calls :
           /\ checkout' = [checkout EXCEPT ![c] = call]
           /\ call.at \in {"idle", "read", "priced"}
           /\ call.at = "priced" => /\ Agree(call) /\ call.redeems = redeems
                                    /\ ~(redeems /\ promotion.perCustomer > 0)
           /\ call.at = "read" => /\ redeems /\ call.offer = promotion
           /\ redeems => Redeemable(promotion, usageCount, basket)
<1>. DEFINE read == [at |-> "read", who |-> who, basket |-> basket, offer |-> promotion]
<1>1. promotion \in Promotions
  BY DEF OrdersTypeOK
<1>2. redeems => Redeemable(promotion, usageCount, basket)
  BY DEF BeginCheckout
<1>3. CASE redeems /\ promotion.perCustomer > 0
  <2>1. checkout' = [checkout EXCEPT ![c] = read]
    BY <1>3 DEF BeginCheckout
  <2>2. read \in Calls
    BY <1>1 DEF Calls, ReadCheckout
  <2>3. read.at = "read" /\ read.offer = promotion
    OBVIOUS
  <2>. QED
    BY <1>2, <1>3, <2>1, <2>2, <2>3
<1>4. CASE ~(redeems /\ promotion.perCustomer > 0)
  <2>. DEFINE call == Priced(who, basket, redeems, promotion)
  <2>1. checkout' = [checkout EXCEPT ![c] = call]
    BY <1>4 DEF BeginCheckout
  <2>2. \/ call = NoCheckout
        \/ /\ call \in PricedCheckout /\ Agree(call)
           /\ call.at = "priced" /\ call.who = who /\ call.redeems = redeems
    BY <1>1, PricedAgrees
  <2>3. call \in Calls /\ call.at \in {"idle", "priced"}
    <3>. HIDE DEF call
    <3>. QED  BY <2>2 DEF Calls, NoCheckout
  <2>4. call.at = "priced" => Agree(call) /\ call.redeems = redeems
    <3>. HIDE DEF call
    <3>. QED  BY <2>2 DEF NoCheckout
  <2>. HIDE DEF call
  <2>. QED
    BY <1>2, <1>4, <2>1, <2>3, <2>4
<1>. QED
  BY <1>3, <1>4

\* The record that a count by account and address leaves.
LEMMA CallCounted ==
  ASSUME OrdersTypeOK, NEW c \in Checkouts, CountByAccount(c)
  PROVE  LET used == Uses({w \in Customers : SharesAccount(w, checkout[c].who)}) IN
         /\ checkout[c] \in ReadCheckout
         /\ \E call \in Calls :
              /\ checkout' = [checkout EXCEPT ![c] = call]
              /\ call.at \in {"idle", "asked", "priced"}
              /\ call.at = "priced" => /\ Agree(call) /\ call.redeems
                                       /\ ~(used >= checkout[c].offer.perCustomer)
                                       /\ used # 0
              /\ call.at = "asked" => /\ call.offer = checkout[c].offer
                                      /\ call.redeems /\ used = 0
              /\ call.at # "idle" => call.who = checkout[c].who
<1>. DEFINE used == Uses({w \in Customers : SharesAccount(w, checkout[c].who)})
            asked == [at |-> "asked", who |-> checkout[c].who,
                      basket |-> checkout[c].basket, offer |-> checkout[c].offer,
                      redeems |-> TRUE]
            priced == Priced(checkout[c].who, checkout[c].basket, TRUE, checkout[c].offer)
<1>1. checkout[c] \in ReadCheckout
  BY CallKinds DEF OrdersTypeOK, CountByAccount, Calls
<1>2. /\ checkout[c].who \in Customers /\ checkout[c].basket \in Baskets
      /\ checkout[c].offer \in Promotions
  BY <1>1 DEF ReadCheckout
<1>3. checkout' = [checkout EXCEPT ![c] =
        IF used >= checkout[c].offer.perCustomer THEN NoCheckout
        ELSE IF used = 0 THEN asked ELSE priced]
  BY DEF CountByAccount
<1>4. asked \in Calls
  BY <1>2 DEF Calls, AskedCheckout
<1>5. \/ priced = NoCheckout
      \/ /\ priced \in PricedCheckout /\ Agree(priced)
         /\ priced.at = "priced" /\ priced.who = checkout[c].who /\ priced.redeems = TRUE
  BY <1>2, PricedAgrees
<1>6. /\ asked.at = "asked" /\ asked.offer = checkout[c].offer
      /\ asked.redeems /\ asked.who = checkout[c].who
  OBVIOUS
<1>7. NoCheckout \in Calls /\ NoCheckout.at = "idle"
  BY DEF Calls, NoCheckout
<1>. HIDE DEF used, asked, priced
<1>8. priced \in Calls /\ priced.at \in {"idle", "priced"}
  BY <1>5, <1>7 DEF Calls
<1>9. CASE used >= checkout[c].offer.perCustomer
  <2>1. checkout' = [checkout EXCEPT ![c] = NoCheckout]
    BY <1>3, <1>9
  <2>. QED  BY <1>1, <1>7, <2>1
<1>10. CASE ~(used >= checkout[c].offer.perCustomer) /\ used = 0
  <2>1. checkout' = [checkout EXCEPT ![c] = asked]
    BY <1>3, <1>10
  <2>. QED  BY <1>1, <1>4, <1>6, <1>10, <2>1 DEF used
<1>11. CASE ~(used >= checkout[c].offer.perCustomer) /\ used # 0
  <2>1. checkout' = [checkout EXCEPT ![c] = priced]
    BY <1>3, <1>11
  <2>2. priced.at = "priced" => Agree(priced) /\ priced.redeems
    BY <1>5, <1>7
  <2>3. priced.at # "idle" => priced.who = checkout[c].who
    BY <1>5, <1>7
  <2>. QED  BY <1>1, <1>8, <1>11, <2>1, <2>2, <2>3 DEF used
<1>. QED
  BY <1>9, <1>10, <1>11

\* The record that a count by telephone leaves.
LEMMA CallCountedAgain ==
  ASSUME OrdersTypeOK, NEW c \in Checkouts, CountByPhone(c)
  PROVE  LET used == Uses({w \in Customers : SamePhone(w, checkout[c].who)}) IN
         /\ checkout[c] \in AskedCheckout
         /\ \E call \in Calls :
              /\ checkout' = [checkout EXCEPT ![c] = call]
              /\ call.at \in {"idle", "priced"}
              /\ call.at = "priced" => /\ Agree(call) /\ call.redeems
                                       /\ call.who = checkout[c].who
                                       /\ ~(used >= checkout[c].offer.perCustomer)
<1>. DEFINE used == Uses({w \in Customers : SamePhone(w, checkout[c].who)})
            priced == Priced(checkout[c].who, checkout[c].basket, TRUE, checkout[c].offer)
<1>1. checkout[c] \in AskedCheckout
  BY CallKinds DEF OrdersTypeOK, CountByPhone, Calls
<1>2. /\ checkout[c].who \in Customers /\ checkout[c].basket \in Baskets
      /\ checkout[c].offer \in Promotions
  BY <1>1 DEF AskedCheckout
<1>3. checkout' = [checkout EXCEPT ![c] =
        IF used >= checkout[c].offer.perCustomer THEN NoCheckout ELSE priced]
  BY DEF CountByPhone
<1>4. \/ priced = NoCheckout
      \/ /\ priced \in PricedCheckout /\ Agree(priced)
         /\ priced.at = "priced" /\ priced.who = checkout[c].who /\ priced.redeems = TRUE
  BY <1>2, PricedAgrees
<1>5. NoCheckout \in Calls /\ NoCheckout.at = "idle"
  BY DEF Calls, NoCheckout
<1>. HIDE DEF used, priced
<1>6. priced \in Calls /\ priced.at \in {"idle", "priced"}
  BY <1>4, <1>5 DEF Calls
<1>7. CASE used >= checkout[c].offer.perCustomer
  <2>1. checkout' = [checkout EXCEPT ![c] = NoCheckout]
    BY <1>3, <1>7
  <2>. QED  BY <1>1, <1>5, <2>1
<1>8. CASE ~(used >= checkout[c].offer.perCustomer)
  <2>1. checkout' = [checkout EXCEPT ![c] = priced]
    BY <1>3, <1>8
  <2>2. priced.at = "priced" => /\ Agree(priced) /\ priced.redeems
                                /\ priced.who = checkout[c].who
    BY <1>4, <1>5
  <2>. QED  BY <1>1, <1>6, <1>8, <2>1, <2>2 DEF used
<1>. QED
  BY <1>7, <1>8

\* The record of an order that has been made.
LEMMA CallCreated ==
  ASSUME OrdersTypeOK, NEW c \in Checkouts, CreateOrder(c)
  PROVE  /\ checkout[c] \in PricedCheckout /\ checkout[c].at = "priced"
         /\ LET call == [checkout[c] EXCEPT !.at = "created"] IN
            /\ checkout' = [checkout EXCEPT ![c] = call]
            /\ call \in PricedCheckout /\ call.at = "created"
            /\ Agree(checkout[c]) => Agree(call)
<1>1. checkout[c] \in PricedCheckout /\ checkout[c].at = "priced"
  BY CallKinds DEF OrdersTypeOK, CreateOrder, Calls
<1>2. checkout' = [checkout EXCEPT ![c] = [checkout[c] EXCEPT !.at = "created"]]
  BY DEF CreateOrder
<1>. DEFINE call == [checkout[c] EXCEPT !.at = "created"]
<1>3. call \in PricedCheckout /\ call.at = "created"
  BY <1>1 DEF PricedCheckout
<1>4. /\ call.subtotal = checkout[c].subtotal /\ call.discount = checkout[c].discount
      /\ call.fee = checkout[c].fee /\ call.total = checkout[c].total
  BY <1>1 DEF PricedCheckout
<1>5. Agree(checkout[c]) => Agree(call)
  <2>. HIDE DEF call
  <2>. QED  BY <1>4 DEF Agree
<1>. QED
  BY <1>1, <1>2, <1>3, <1>5
-----------------------------------------------------------------------------
\* Every step keeps the types and the amounts.
LEMMA TypesStep ==
  ASSUME OrdersTypeOK, PricedInv, [OrdersNext]_orderVars
  PROVE  OrdersTypeOK' /\ PricedInv'
<1>. USE DEF OrdersTypeOK
<1>1. checkout \in [Checkouts -> Calls]
  BY DEF Calls
<1>2. MaxRedemptions \in Nat /\ MaxPromotionEdits \in Nat
  BY OrderConstants
<1>3. ASSUME NEW c \in Checkouts, NEW who \in Customers, NEW basket \in Baskets,
             NEW redeems \in BOOLEAN, BeginCheckout(c, who, basket, redeems)
      PROVE  OrdersTypeOK' /\ PricedInv'
  <2>1. checkout' \in [Checkouts -> Calls] /\ PricedInv'
    BY <1>1, <1>3, CallBegun, CallReplaced DEF PricedInv
  <2>2. UNCHANGED <<promotion, usageCount, redeemed, promotionEdits, highestLimit,
                    oncePerCustomer, countsRaced>>
    BY <1>3 DEF BeginCheckout
  <2>. QED  BY <2>1, <2>2 DEF Calls
<1>4. ASSUME NEW c \in Checkouts, CountByAccount(c) PROVE OrdersTypeOK' /\ PricedInv'
  <2>1. checkout' \in [Checkouts -> Calls] /\ PricedInv'
    BY <1>1, <1>4, CallCounted, CallReplaced
  <2>2. UNCHANGED <<promotion, usageCount, redeemed, promotionEdits, highestLimit,
                    oncePerCustomer>>
    BY <1>4 DEF CountByAccount
  <2>3. countsRaced' \in BOOLEAN
    BY <1>4 DEF CountByAccount
  <2>. QED  BY <2>1, <2>2, <2>3 DEF Calls
<1>5. ASSUME NEW c \in Checkouts, CountByPhone(c) PROVE OrdersTypeOK' /\ PricedInv'
  <2>1. checkout' \in [Checkouts -> Calls] /\ PricedInv'
    BY <1>1, <1>5, CallCountedAgain, CallReplaced
  <2>2. UNCHANGED <<promotion, usageCount, redeemed, promotionEdits, highestLimit,
                    oncePerCustomer, countsRaced>>
    BY <1>5 DEF CountByPhone
  <2>. QED  BY <2>1, <2>2 DEF Calls
<1>6. ASSUME NEW c \in Checkouts, CreateOrder(c) PROVE OrdersTypeOK' /\ PricedInv'
  <2>1. /\ checkout[c] \in PricedCheckout /\ checkout[c].at = "priced"
        /\ LET call == [checkout[c] EXCEPT !.at = "created"] IN
           /\ checkout' = [checkout EXCEPT ![c] = call]
           /\ call \in PricedCheckout /\ call.at = "created"
           /\ Agree(checkout[c]) => Agree(call)
    BY <1>6, CallCreated
  <2>2. Agree(checkout[c])
    BY <2>1 DEF PricedInv
  <2>. DEFINE call == [checkout[c] EXCEPT !.at = "created"]
  <2>3. call \in Calls /\ Agree(call) /\ checkout' = [checkout EXCEPT ![c] = call]
    BY <2>1, <2>2 DEF Calls
  <2>. HIDE DEF call
  <2>4. checkout' \in [Checkouts -> Calls] /\ PricedInv'
    BY <1>1, <2>3, CallReplaced
  <2>5. usageCount' \in 0..MaxRedemptions /\ redeemed' \in [Customers -> Nat]
    <3>1. checkout[c].who \in Customers
      BY <2>1 DEF PricedCheckout
    <3>. QED  BY <1>2, <1>6, <3>1 DEF CreateOrder
  <2>6. UNCHANGED <<promotion, promotionEdits, highestLimit, oncePerCustomer, countsRaced>>
    BY <1>6 DEF CreateOrder
  <2>. QED  BY <2>4, <2>5, <2>6 DEF Calls
<1>7. ASSUME NEW c \in Checkouts, AnswerCheckout(c) \/ CheckoutFails(c)
      PROVE  OrdersTypeOK' /\ PricedInv'
  <2>1. checkout' = [checkout EXCEPT ![c] = NoCheckout]
    BY <1>7 DEF AnswerCheckout, CheckoutFails
  <2>2. NoCheckout \in Calls /\ NoCheckout.at = "idle"
    BY DEF Calls, NoCheckout
  <2>3. checkout' \in [Checkouts -> Calls] /\ PricedInv'
    BY <1>1, <2>1, <2>2, CallReplaced
  <2>4. UNCHANGED <<promotion, usageCount, redeemed, promotionEdits, highestLimit,
                    oncePerCustomer, countsRaced>>
    BY <1>7 DEF AnswerCheckout, CheckoutFails
  <2>. QED  BY <2>3, <2>4 DEF Calls
<1>8. ASSUME NEW row \in Promotions, UpdatePromotion(row)
      PROVE  OrdersTypeOK' /\ PricedInv'
  <2>1. row.usageLimit \in Nat
    BY OrderConstants
  <2>2. promotion' \in Promotions /\ promotionEdits' \in 0..MaxPromotionEdits
    BY <1>2, <1>8 DEF UpdatePromotion
  <2>3. highestLimit' \in Nat
    BY <1>8, <2>1 DEF UpdatePromotion
  <2>4. oncePerCustomer' \in BOOLEAN
    BY <1>8 DEF UpdatePromotion
  <2>5. UNCHANGED <<usageCount, redeemed, checkout, countsRaced>>
    BY <1>8 DEF UpdatePromotion
  <2>6. PricedInv'
    BY <2>5 DEF PricedInv
  <2>. QED  BY <2>2, <2>3, <2>4, <2>5, <2>6, <1>1 DEF Calls
<1>9. CASE UNCHANGED orderVars
  BY <1>9 DEF orderVars, PricedInv, Calls
<1>. QED
  BY <1>3, <1>4, <1>5, <1>6, <1>7, <1>8, <1>9 DEF OrdersNext

\* The types of the checkout, for every value of the constants.
THEOREM OrdersTyped == OrdersSpec => []OrdersTypeOK
<1>1. OrdersInit => OrdersTypeOK /\ PricedInv
  BY TypesBegin
<1>2. (OrdersTypeOK /\ PricedInv) /\ [OrdersNext]_orderVars => (OrdersTypeOK /\ PricedInv)'
  BY TypesStep
<1>. QED
  BY <1>1, <1>2, PTL DEF OrdersSpec

\* The amounts of every order agree: its discount is within the subtotal, the
\* customer pays the rest and the delivery or the whole, and what is delivered
\* reaches the minimum of its zone.
THEOREM AmountsAgree == OrdersSpec => []OrderTotals
<1>1. OrdersInit => OrdersTypeOK /\ PricedInv
  BY TypesBegin
<1>2. (OrdersTypeOK /\ PricedInv) /\ [OrdersNext]_orderVars => (OrdersTypeOK /\ PricedInv)'
  BY TypesStep
<1>3. PricedInv => OrderTotals
  BY DEF PricedInv, Agree, OrderTotals
<1>. QED
  BY <1>1, <1>2, <1>3, PTL DEF OrdersSpec
-----------------------------------------------------------------------------
(***************************************************************************)
(* The usage limit.  Checkouts that have passed it and not yet used it     *)
(* count as well.                                                          *)
(***************************************************************************)
Redeeming(call) ==
  call.at = "read" \/ (call.at \in {"asked", "priced"} /\ call.redeems)

Redeemers == {c \in Checkouts : Redeeming(checkout[c])}

LimitInv == highestLimit > 0 =>
  /\ promotion.usageLimit \in 1..highestLimit
  /\ usageCount + Cardinality(Redeemers) < highestLimit + Cardinality(Checkouts)

\* The redeemers are some of the checkouts.
LEMMA RedeemersFinite ==
  /\ IsFiniteSet(Redeemers) /\ Cardinality(Redeemers) \in Nat
  /\ Cardinality(Checkouts) \in Nat /\ Cardinality(Redeemers) <= Cardinality(Checkouts)
<1>1. IsFiniteSet(Checkouts)
  BY OrderConstants
<1>2. Redeemers \in SUBSET Checkouts
  BY DEF Redeemers
<1>. QED
  BY <1>1, <1>2, FS_Subset, FS_CardinalityType

\* The same after a step.
LEMMA RedeemersFiniteNext ==
  IsFiniteSet(Redeemers') /\ Cardinality(Redeemers') \in Nat
  /\ Cardinality(Redeemers') <= Cardinality(Checkouts)
<1>1. IsFiniteSet(Checkouts)
  BY OrderConstants
<1>2. Redeemers' \in SUBSET Checkouts
  BY DEF Redeemers
<1>. QED
  BY <1>1, <1>2, FS_Subset, FS_CardinalityType

\* A step that makes nobody a redeemer does not raise their number.
LEMMA RedeemersShrink ==
  ASSUME checkout \in [Checkouts -> Calls], NEW c \in Checkouts, NEW call \in Calls,
         checkout' = [checkout EXCEPT ![c] = call],
         Redeeming(call) => Redeeming(checkout[c])
  PROVE  Cardinality(Redeemers') <= Cardinality(Redeemers)
<1>1. Redeemers' \in SUBSET Redeemers
  BY DEF Redeemers
<1>. QED
  BY <1>1, RedeemersFinite, FS_Subset

\* A step that ends the redemption of c takes it out.
LEMMA RedeemersLose ==
  ASSUME checkout \in [Checkouts -> Calls], NEW c \in Checkouts, NEW call \in Calls,
         checkout' = [checkout EXCEPT ![c] = call],
         Redeeming(checkout[c]), ~Redeeming(call)
  PROVE  Cardinality(Redeemers') + 1 = Cardinality(Redeemers)
<1>1. Redeemers' = Redeemers \ {c} /\ c \in Redeemers
  BY DEF Redeemers
<1>. HIDE DEF Redeemers
<1>2. Cardinality(Redeemers \ {c}) = Cardinality(Redeemers) - 1
  BY <1>1, RedeemersFinite, FS_RemoveElement
<1>3. Cardinality(Redeemers') = Cardinality(Redeemers) - 1
  BY <1>1, <1>2
<1>. QED
  BY <1>3, RedeemersFinite

\* Nothing is redeemed at first, and there is a checkout to come.
LEMMA LimitBegins == OrdersInit => LimitInv
<1>. SUFFICES ASSUME OrdersInit PROVE LimitInv
  OBVIOUS
<1>1. promotion.usageLimit \in Nat
  BY OrderConstants DEF OrdersInit
<1>2. Redeemers = {}
  BY DEF OrdersInit, Redeemers, Redeeming, NoCheckout
<1>3. Cardinality(Redeemers) = 0
  BY <1>2, FS_EmptySet
<1>4. Cardinality(Checkouts) \in Nat /\ Cardinality(Checkouts) # 0
  BY OrderConstants, FS_CardinalityType, FS_EmptySet
<1>. HIDE DEF Redeemers
<1>. QED
  BY <1>1, <1>3, <1>4 DEF OrdersInit, LimitInv

\* A redemption is allowed while the count is below a limit, and nothing that
\* happens to it later makes room for another.
LEMMA LimitStep ==
  ASSUME OrdersTypeOK, LimitInv, [OrdersNext]_orderVars
  PROVE  LimitInv'
<1>. HIDE DEF Redeemers
<1>1. checkout \in [Checkouts -> Calls]
  BY DEF OrdersTypeOK, Calls
<1>2. usageCount \in Nat /\ highestLimit \in Nat /\ promotion.usageLimit \in Nat
  BY OrderConstants DEF OrdersTypeOK
<1>3. ASSUME UNCHANGED <<promotion, usageCount, highestLimit>>,
             Cardinality(Redeemers') <= Cardinality(Redeemers)
      PROVE  LimitInv'
  BY <1>2, <1>3, RedeemersFinite, RedeemersFiniteNext DEF LimitInv
<1>4. ASSUME NEW c \in Checkouts, NEW who \in Customers, NEW basket \in Baskets,
             NEW redeems \in BOOLEAN, BeginCheckout(c, who, basket, redeems)
      PROVE  LimitInv'
  <2>1. UNCHANGED <<promotion, usageCount, highestLimit>>
    BY <1>4 DEF BeginCheckout
  <2>2. PICK call \in Calls :
           /\ checkout' = [checkout EXCEPT ![c] = call]
           /\ call.at \in {"idle", "read", "priced"}
           /\ call.at = "priced" => /\ Agree(call) /\ call.redeems = redeems
                                    /\ ~(redeems /\ promotion.perCustomer > 0)
           /\ call.at = "read" => /\ redeems /\ call.offer = promotion
           /\ redeems => Redeemable(promotion, usageCount, basket)
    BY <1>4, CallBegun
  <2>3. CASE redeems
    <3>1. promotion.usageLimit > 0 => usageCount < promotion.usageLimit
      BY <2>2, <2>3 DEF Redeemable
    <3>. QED
      BY <1>2, <2>1, <3>1, RedeemersFinite, RedeemersFiniteNext DEF LimitInv
  <2>4. CASE ~redeems
    <3>1. ~Redeeming(call)
      BY <2>2, <2>4 DEF Redeeming
    <3>. QED
      BY <1>1, <1>3, <2>1, <2>2, <3>1, RedeemersShrink
  <2>. QED  BY <2>3, <2>4
<1>5. ASSUME NEW c \in Checkouts, CountByAccount(c) PROVE LimitInv'
  <2>1. UNCHANGED <<promotion, usageCount, highestLimit>>
    BY <1>5 DEF CountByAccount
  <2>2. Redeeming(checkout[c])
    BY <1>5 DEF CountByAccount, Redeeming
  <2>3. Cardinality(Redeemers') <= Cardinality(Redeemers)
    BY <1>1, <1>5, <2>2, CallCounted, RedeemersShrink
  <2>. QED  BY <1>3, <2>1, <2>3
<1>6. ASSUME NEW c \in Checkouts, CountByPhone(c) PROVE LimitInv'
  <2>1. UNCHANGED <<promotion, usageCount, highestLimit>>
    BY <1>6 DEF CountByPhone
  <2>2. Redeeming(checkout[c])
    BY <1>6, CallCountedAgain DEF Redeeming, AskedCheckout
  <2>3. Cardinality(Redeemers') <= Cardinality(Redeemers)
    BY <1>1, <1>6, <2>2, CallCountedAgain, RedeemersShrink
  <2>. QED  BY <1>3, <2>1, <2>3
<1>7. ASSUME NEW c \in Checkouts, CreateOrder(c) PROVE LimitInv'
  <2>. DEFINE call == [checkout[c] EXCEPT !.at = "created"]
  <2>1. /\ checkout' = [checkout EXCEPT ![c] = call] /\ call \in Calls
        /\ call.at = "created" /\ checkout[c].at = "priced"
    BY <1>7, CallCreated DEF Calls
  <2>2. UNCHANGED <<promotion, highestLimit>>
    BY <1>7 DEF CreateOrder
  <2>. HIDE DEF call
  <2>3. ~Redeeming(call)
    BY <2>1 DEF Redeeming
  <2>4. CASE checkout[c].redeems
    <3>1. usageCount' = usageCount + 1
      BY <1>7, <2>4 DEF CreateOrder
    <3>2. Cardinality(Redeemers') + 1 = Cardinality(Redeemers)
      BY <1>1, <2>1, <2>3, <2>4, RedeemersLose DEF Redeeming
    <3>. QED
      BY <1>2, <2>2, <3>1, <3>2, RedeemersFinite, RedeemersFiniteNext DEF LimitInv
  <2>5. CASE ~checkout[c].redeems
    <3>1. usageCount' = usageCount
      BY <1>7, <2>5 DEF CreateOrder
    <3>. QED
      BY <1>1, <1>3, <2>1, <2>2, <2>3, <3>1, RedeemersShrink
  <2>. QED  BY <2>4, <2>5
<1>8. ASSUME NEW c \in Checkouts, AnswerCheckout(c) \/ CheckoutFails(c)
      PROVE  LimitInv'
  <2>1. checkout' = [checkout EXCEPT ![c] = NoCheckout] /\ NoCheckout \in Calls
    BY <1>8 DEF AnswerCheckout, CheckoutFails, Calls
  <2>2. UNCHANGED <<promotion, usageCount, highestLimit>>
    BY <1>8 DEF AnswerCheckout, CheckoutFails
  <2>3. ~Redeeming(NoCheckout)
    BY DEF Redeeming, NoCheckout
  <2>. QED  BY <1>1, <1>3, <2>1, <2>2, <2>3, RedeemersShrink
<1>9. ASSUME NEW row \in Promotions, UpdatePromotion(row) PROVE LimitInv'
  <2>1. row.usageLimit \in Nat
    BY OrderConstants
  <2>2. promotion' = row /\ UNCHANGED <<usageCount, checkout>>
    BY <1>9 DEF UpdatePromotion
  <2>3. Redeemers' = Redeemers
    BY <2>2 DEF Redeemers
  <2>4. highestLimit' = IF highestLimit = 0 \/ row.usageLimit = 0 THEN 0
                        ELSE IF row.usageLimit > highestLimit THEN row.usageLimit
                        ELSE highestLimit
    BY <1>9 DEF UpdatePromotion
  <2>. QED
    BY <1>2, <2>1, <2>2, <2>3, <2>4, RedeemersFinite DEF LimitInv
<1>10. CASE UNCHANGED orderVars
  <2>1. UNCHANGED <<promotion, usageCount, highestLimit, checkout>>
    BY <1>10 DEF orderVars
  <2>2. Redeemers' = Redeemers
    BY <2>1 DEF Redeemers
  <2>. QED  BY <2>1, <2>2 DEF LimitInv
<1>. QED
  BY <1>4, <1>5, <1>6, <1>7, <1>8, <1>9, <1>10 DEF OrdersNext

\* The usage limit of a promotion is overrun by less than the number of
\* checkouts that run at once, however staff change it meanwhile.
THEOREM OverrunsBounded == OrdersSpec => []OverrunBounded
<1>1. OrdersInit => OrdersTypeOK /\ LimitInv
  BY TypesBegin, LimitBegins
<1>2. (OrdersTypeOK /\ PricedInv /\ LimitInv) /\ [OrdersNext]_orderVars
        => (OrdersTypeOK /\ PricedInv /\ LimitInv)'
  BY TypesStep, LimitStep
<1>3. OrdersTypeOK /\ LimitInv => OverrunBounded
  BY RedeemersFinite DEF OrdersTypeOK, LimitInv, OverrunBounded
<1>4. OrdersInit => PricedInv
  BY TypesBegin
<1>. QED
  BY <1>1, <1>2, <1>3, <1>4, PTL DEF OrdersSpec
-----------------------------------------------------------------------------
(***************************************************************************)
(* One use per customer: what two checkouts, and a checkout and an order,  *)
(* may have in common while no counts have raced.                          *)
(***************************************************************************)
Calm == oncePerCustomer /\ ~countsRaced

\* The limit of one is the one every checkout under way has read.
OneEach ==
  /\ promotion.perCustomer = 1
  /\ \A c \in Checkouts : checkout[c].at \in {"read", "asked"} =>
       checkout[c].offer.perCustomer = 1

\* Checkouts past their first count belong to different customers.
CountedApart == \A c, d \in Checkouts :
  c # d /\ Counting(c) /\ Counting(d) => ~Shares(checkout[c].who, checkout[d].who)

\* Such a customer has not used the promotion by account or address ...
AccountUnused == \A c \in Checkouts : Counting(c) =>
  \A w \in Customers : redeemed[w] > 0 => ~SharesAccount(w, checkout[c].who)

\* ... and, after the second count, not by telephone either.
PhoneUnused == \A c \in Checkouts : checkout[c].at = "priced" /\ checkout[c].redeems =>
  \A w \in Customers : redeemed[w] > 0 => ~SamePhone(w, checkout[c].who)

UsedOnce == \A v, w \in Customers :
  redeemed[v] > 0 /\ redeemed[w] > 0 /\ Shares(v, w) => v = w /\ redeemed[v] = 1

OnceInv ==
  /\ oncePerCustomer => OneEach
  /\ Calm => CountedApart /\ AccountUnused /\ PhoneUnused /\ UsedOnce

\* A count of zero means that nobody of the set has used the promotion.
LEMMA NoneUsed ==
  ASSUME redeemed \in [Customers -> Nat], NEW S \in SUBSET Customers
  PROVE  /\ Uses(S) \in Nat
         /\ Uses(S) = 0 => \A w \in S : ~(redeemed[w] > 0)
<1>. DEFINE uses == {p \in S \X (1..MaxRedemptions) : p[2] <= redeemed[p[1]]}
<1>1. IsFiniteSet(S) /\ IsFiniteSet(1..MaxRedemptions) /\ 1 \in 1..MaxRedemptions
  BY OrderConstants, FS_Subset, FS_Interval
<1>2. IsFiniteSet(S \X (1..MaxRedemptions))
  BY <1>1, FS_Product
<1>3. IsFiniteSet(uses) /\ Uses(S) = Cardinality(uses)
  BY <1>2, FS_Subset DEF Uses
<1>4. Uses(S) \in Nat /\ (Uses(S) = 0 => uses = {})
  <2>. HIDE DEF uses
  <2>. QED  BY <1>3, FS_CardinalityType, FS_EmptySet
<1>5. ASSUME uses = {}, NEW w \in S PROVE ~(redeemed[w] > 0)
  <2>1. <<w, 1>> \notin uses /\ <<w, 1>> \in S \X (1..MaxRedemptions)
    BY <1>1, <1>5
  <2>2. ~(1 <= redeemed[w])
    BY <2>1
  <2>3. redeemed[w] \in Nat
    OBVIOUS
  <2>. QED  BY <2>2, <2>3
<1>. HIDE DEF uses
<1>. QED
  BY <1>4, <1>5

\* Sharing is symmetric.
LEMMA SharesBothWays ==
  ASSUME NEW v \in Customers, NEW w \in Customers
  PROVE  Shares(v, w) <=> Shares(w, v)
BY DEF Shares, SharesAccount, Same

\* A checkout that counts has a customer.
LEMMA CounterKnown ==
  ASSUME checkout \in [Checkouts -> Calls], NEW c \in Checkouts, Counting(c)
  PROVE  checkout[c].who \in Customers
<1>1. checkout[c] \in AskedCheckout \cup PricedCheckout
  BY CallKinds DEF Counting
<1>. QED
  BY <1>1 DEF AskedCheckout, PricedCheckout

\* Nobody has used the promotion at first.
LEMMA OnceBegins == OrdersInit => OnceInv
<1>. SUFFICES ASSUME OrdersInit PROVE OnceInv
  OBVIOUS
<1>1. \A c \in Checkouts : checkout[c].at = "idle"
  BY DEF OrdersInit, NoCheckout
<1>2. \A w \in Customers : redeemed[w] = 0
  BY DEF OrdersInit
<1>3. oncePerCustomer => OneEach
  BY <1>1 DEF OrdersInit, OneEach
<1>4. CountedApart /\ AccountUnused /\ PhoneUnused
  BY <1>1 DEF CountedApart, AccountUnused, PhoneUnused, Counting
<1>5. UsedOnce
  BY <1>2 DEF UsedOnce
<1>. QED
  BY <1>3, <1>4, <1>5 DEF OnceInv

\* A checkout that is replaced by one that has not counted leaves the others.
LEMMA OnceKept ==
  ASSUME checkout \in [Checkouts -> Calls], OnceInv, NEW c \in Checkouts,
         NEW call \in Calls, checkout' = [checkout EXCEPT ![c] = call],
         UNCHANGED <<promotion, redeemed, oncePerCustomer, countsRaced>>,
         call.at = "priced" => ~call.redeems \/ ~oncePerCustomer,
         call.at # "asked",
         oncePerCustomer /\ call.at = "read" => call.offer.perCustomer = 1
  PROVE  OnceInv'
<1>1. \A d \in Checkouts : checkout'[d] = IF d = c THEN call ELSE checkout[d]
  OBVIOUS
<1>2. oncePerCustomer => OneEach'
  BY <1>1 DEF OnceInv, OneEach
<1>3. ASSUME Calm PROVE (CountedApart /\ AccountUnused /\ PhoneUnused /\ UsedOnce)'
  <2>1. ~(call.at \in {"asked", "priced"} /\ call.redeems)
    BY <1>3 DEF Calm
  <2>2. \A d \in Checkouts : Counting(d)' => d # c /\ Counting(d) /\ checkout'[d] = checkout[d]
    BY <1>1, <2>1 DEF Counting
  <2>3. CountedApart /\ AccountUnused /\ PhoneUnused /\ UsedOnce
    BY <1>3 DEF OnceInv
  <2>4. CountedApart' /\ AccountUnused'
    BY <2>2, <2>3 DEF CountedApart, AccountUnused
  <2>5. PhoneUnused'
    BY <1>1, <2>1, <2>3 DEF PhoneUnused
  <2>6. UsedOnce'
    BY <2>3 DEF UsedOnce
  <2>. QED  BY <2>4, <2>5, <2>6
<1>. QED
  BY <1>2, <1>3 DEF OnceInv, Calm

\* The first count keeps the promise: it found no use by account or address.
LEMMA OnceCounted ==
  ASSUME OrdersTypeOK, OnceInv, NEW c \in Checkouts, CountByAccount(c)
  PROVE  OnceInv'
<1>. DEFINE used == Uses({w \in Customers : SharesAccount(w, checkout[c].who)})
<1>1. checkout \in [Checkouts -> Calls] /\ redeemed \in [Customers -> Nat]
  BY DEF OrdersTypeOK, Calls
<1>2. checkout[c] \in ReadCheckout /\ checkout[c].at = "read"
  BY CallCounted DEF CountByAccount
<1>3. PICK call \in Calls :
        /\ checkout' = [checkout EXCEPT ![c] = call]
        /\ call.at \in {"idle", "asked", "priced"}
        /\ call.at = "priced" => /\ Agree(call) /\ call.redeems
                                 /\ ~(used >= checkout[c].offer.perCustomer)
                                 /\ used # 0
        /\ call.at = "asked" => /\ call.offer = checkout[c].offer
                                /\ call.redeems /\ used = 0
        /\ call.at # "idle" => call.who = checkout[c].who
  BY CallCounted
<1>4. UNCHANGED <<promotion, redeemed, oncePerCustomer>>
  BY DEF CountByAccount
<1>5. countsRaced' = (countsRaced \/ \E d \in Checkouts \ {c} :
                        Counting(d) /\ Shares(checkout[d].who, checkout[c].who))
  BY DEF CountByAccount
<1>6. /\ used \in Nat
      /\ used = 0 => \A w \in Customers : SharesAccount(w, checkout[c].who)
                                            => ~(redeemed[w] > 0)
  BY <1>1, NoneUsed
<1>. HIDE DEF used
<1>7. \A d \in Checkouts : checkout'[d] = IF d = c THEN call ELSE checkout[d]
  BY <1>1, <1>3
<1>8. oncePerCustomer' => OneEach'
  <2>. SUFFICES ASSUME oncePerCustomer PROVE OneEach'
    BY <1>4
  <2>1. OneEach /\ checkout[c].offer.perCustomer = 1
    BY <1>2 DEF OnceInv, OneEach
  <2>. QED  BY <1>3, <1>4, <1>7, <2>1 DEF OneEach
<1>9. ASSUME Calm' PROVE (CountedApart /\ AccountUnused /\ PhoneUnused /\ UsedOnce)'
  <2>1. Calm /\ ~ \E d \in Checkouts \ {c} :
                      Counting(d) /\ Shares(checkout[d].who, checkout[c].who)
    BY <1>4, <1>5, <1>9 DEF Calm
  <2>2. /\ OneEach /\ CountedApart /\ AccountUnused /\ PhoneUnused /\ UsedOnce
        /\ checkout[c].offer.perCustomer = 1
    BY <1>2, <2>1 DEF OnceInv, OneEach, Calm
  <2>3. call.at # "priced"
    BY <1>3, <1>6, <2>2
  <2>4. \A d \in Checkouts : d # c => (Counting(d)' <=> Counting(d))
    BY <1>7 DEF Counting
  <2>5. Counting(c)' => call.who = checkout[c].who /\ used = 0
    BY <1>3, <1>7, <2>3 DEF Counting
  <2>6. AccountUnused'
    BY <1>4, <1>6, <1>7, <2>2, <2>4, <2>5 DEF AccountUnused
  <2>7. CountedApart'
    <3>. SUFFICES ASSUME NEW d \in Checkouts, NEW e \in Checkouts, d # e,
                         Counting(d)', Counting(e)'
                  PROVE  ~Shares(checkout'[d].who, checkout'[e].who)
      BY DEF CountedApart
    <3>1. CASE d # c /\ e # c
      BY <1>7, <2>2, <2>4, <3>1 DEF CountedApart
    <3>2. CASE d = c
      <4>1. Counting(e) /\ checkout'[e] = checkout[e] /\ checkout'[d].who = checkout[c].who
        BY <1>7, <2>4, <2>5, <3>2
      <4>2. checkout[e].who \in Customers /\ checkout[c].who \in Customers
        BY <1>1, <1>2, <4>1, CounterKnown DEF ReadCheckout
      <4>3. ~Shares(checkout[e].who, checkout[c].who)
        BY <2>1, <3>2, <4>1
      <4>. QED  BY <4>1, <4>2, <4>3, SharesBothWays
    <3>3. CASE e = c
      <4>1. Counting(d) /\ checkout'[d] = checkout[d] /\ checkout'[e].who = checkout[c].who
        BY <1>7, <2>4, <2>5, <3>3
      <4>. QED  BY <2>1, <3>3, <4>1
    <3>. QED  BY <3>1, <3>2, <3>3
  <2>8. PhoneUnused'
    BY <1>4, <1>7, <2>2, <2>3 DEF PhoneUnused
  <2>9. UsedOnce'
    BY <1>4, <2>2 DEF UsedOnce
  <2>. QED  BY <2>6, <2>7, <2>8, <2>9
<1>. QED
  BY <1>8, <1>9 DEF OnceInv

\* The second count keeps it: it found no use by telephone.
LEMMA OnceCountedAgain ==
  ASSUME OrdersTypeOK, OnceInv, NEW c \in Checkouts, CountByPhone(c)
  PROVE  OnceInv'
<1>. DEFINE used == Uses({w \in Customers : SamePhone(w, checkout[c].who)})
<1>1. checkout \in [Checkouts -> Calls] /\ redeemed \in [Customers -> Nat]
  BY DEF OrdersTypeOK, Calls
<1>2. checkout[c] \in AskedCheckout /\ checkout[c].at = "asked" /\ Counting(c)
  BY CallCountedAgain DEF CountByPhone, Counting, AskedCheckout
<1>3. PICK call \in Calls :
        /\ checkout' = [checkout EXCEPT ![c] = call]
        /\ call.at \in {"idle", "priced"}
        /\ call.at = "priced" => /\ Agree(call) /\ call.redeems
                                 /\ call.who = checkout[c].who
                                 /\ ~(used >= checkout[c].offer.perCustomer)
  BY CallCountedAgain
<1>4. UNCHANGED <<promotion, redeemed, oncePerCustomer, countsRaced>>
  BY DEF CountByPhone
<1>5. /\ used \in Nat
      /\ used = 0 => \A w \in Customers : SamePhone(w, checkout[c].who)
                                            => ~(redeemed[w] > 0)
  BY <1>1, NoneUsed
<1>. HIDE DEF used
<1>6. \A d \in Checkouts : checkout'[d] = IF d = c THEN call ELSE checkout[d]
  BY <1>1, <1>3
<1>7. oncePerCustomer' => OneEach'
  BY <1>3, <1>4, <1>6 DEF OnceInv, OneEach
<1>8. ASSUME Calm' PROVE (CountedApart /\ AccountUnused /\ PhoneUnused /\ UsedOnce)'
  <2>1. /\ OneEach /\ CountedApart /\ AccountUnused /\ PhoneUnused /\ UsedOnce
        /\ checkout[c].offer.perCustomer = 1
    BY <1>2, <1>4, <1>8 DEF OnceInv, OneEach, Calm
  <2>2. \A d \in Checkouts : Counting(d)' => Counting(d) /\ checkout'[d].who = checkout[d].who
    BY <1>2, <1>3, <1>6 DEF Counting
  <2>3. CountedApart' /\ AccountUnused'
    BY <1>4, <2>1, <2>2 DEF CountedApart, AccountUnused
  <2>4. call.at = "priced" => used = 0 /\ call.who = checkout[c].who
    BY <1>3, <1>5, <2>1
  <2>5. PhoneUnused'
    BY <1>4, <1>5, <1>6, <2>1, <2>4 DEF PhoneUnused
  <2>6. UsedOnce'
    BY <1>4, <2>1 DEF UsedOnce
  <2>. QED  BY <2>3, <2>5, <2>6
<1>. QED
  BY <1>7, <1>8 DEF OnceInv

\* An order of a customer who has not used the promotion keeps it.
LEMMA OnceCreated ==
  ASSUME OrdersTypeOK, OnceInv, NEW c \in Checkouts, CreateOrder(c)
  PROVE  OnceInv'
<1>. DEFINE call == [checkout[c] EXCEPT !.at = "created"]
<1>1. checkout \in [Checkouts -> Calls] /\ redeemed \in [Customers -> Nat]
  BY DEF OrdersTypeOK, Calls
<1>2. /\ checkout' = [checkout EXCEPT ![c] = call] /\ call \in Calls
      /\ call.at = "created" /\ checkout[c].at = "priced"
      /\ checkout[c] \in PricedCheckout
  BY CallCreated DEF Calls
<1>3. UNCHANGED <<promotion, oncePerCustomer, countsRaced>>
  BY DEF CreateOrder
<1>. HIDE DEF call
<1>4. CASE ~checkout[c].redeems
  <2>1. redeemed' = redeemed
    BY <1>4 DEF CreateOrder
  <2>. QED  BY <1>1, <1>2, <1>3, <2>1, OnceKept
<1>5. CASE checkout[c].redeems
  <2>. DEFINE who == checkout[c].who
  <2>1. who \in Customers /\ redeemed' = [redeemed EXCEPT ![who] = @ + 1]
    BY <1>2, <1>5 DEF CreateOrder, PricedCheckout
  <2>2. Counting(c)
    BY <1>2, <1>5 DEF Counting
  <2>. HIDE DEF who
  <2>3. \A d \in Checkouts : checkout'[d] = IF d = c THEN call ELSE checkout[d]
    BY <1>1, <1>2
  <2>4. oncePerCustomer' => OneEach'
    BY <1>2, <1>3, <2>3 DEF OnceInv, OneEach
  <2>5. ASSUME Calm' PROVE (CountedApart /\ AccountUnused /\ PhoneUnused /\ UsedOnce)'
    <3>1. CountedApart /\ AccountUnused /\ PhoneUnused /\ UsedOnce
      BY <1>3, <2>5 DEF OnceInv, Calm
    <3>2. \A w \in Customers : redeemed[w] > 0 => ~Shares(w, who)
      BY <1>2, <1>5, <2>2, <3>1 DEF AccountUnused, PhoneUnused, Shares, SamePhone, who
    <3>3. redeemed[who] = 0
      <4>1. Shares(who, who)
        BY DEF Shares
      <4>2. redeemed[who] \in Nat
        BY <1>1, <2>1
      <4>. QED  BY <2>1, <3>2, <4>1, <4>2
    <3>4. \A w \in Customers : redeemed'[w] = IF w = who THEN 1 ELSE redeemed[w]
      BY <1>1, <2>1, <3>3
    <3>5. \A d \in Checkouts : Counting(d)' => d # c /\ Counting(d) /\ checkout'[d] = checkout[d]
      BY <1>2, <2>3 DEF Counting
    <3>6. CountedApart'
      BY <3>1, <3>5 DEF CountedApart
    <3>7. ASSUME NEW d \in Checkouts, Counting(d)', NEW w \in Customers, redeemed'[w] > 0,
                 Shares(w, checkout'[d].who)
          PROVE  redeemed[w] > 0 /\ Counting(d) /\ checkout'[d] = checkout[d]
      <4>1. d # c /\ Counting(d) /\ checkout'[d] = checkout[d]
        BY <3>5, <3>7
      <4>2. ~Shares(who, checkout[d].who)
        BY <2>2, <3>1, <4>1 DEF CountedApart, who
      <4>3. w # who
        BY <3>7, <4>1, <4>2
      <4>. QED  BY <3>4, <3>7, <4>1, <4>3
    <3>8. AccountUnused'
      <4>. SUFFICES ASSUME NEW d \in Checkouts, Counting(d)', NEW w \in Customers,
                           redeemed'[w] > 0, SharesAccount(w, checkout'[d].who)
                    PROVE  FALSE
        BY DEF AccountUnused
      <4>1. redeemed[w] > 0 /\ Counting(d) /\ checkout'[d] = checkout[d]
        BY <3>7 DEF Shares
      <4>. QED  BY <3>1, <4>1 DEF AccountUnused
    <3>9. PhoneUnused'
      <4>. SUFFICES ASSUME NEW d \in Checkouts, checkout'[d].at = "priced",
                           checkout'[d].redeems, NEW w \in Customers,
                           redeemed'[w] > 0, SamePhone(w, checkout'[d].who)
                    PROVE  FALSE
        BY DEF PhoneUnused
      <4>1. Counting(d)'
        BY DEF Counting
      <4>2. redeemed[w] > 0 /\ Counting(d) /\ checkout'[d] = checkout[d]
        BY <3>7, <4>1 DEF Shares, SamePhone
      <4>. QED  BY <3>1, <4>2 DEF PhoneUnused
    <3>10. UsedOnce'
      <4>. SUFFICES ASSUME NEW v \in Customers, NEW w \in Customers,
                           redeemed'[v] > 0, redeemed'[w] > 0, Shares(v, w)
                    PROVE  v = w /\ redeemed'[v] = 1
        BY DEF UsedOnce
      <4>1. CASE v # who /\ w # who
        BY <3>1, <3>4, <4>1 DEF UsedOnce
      <4>2. CASE v = who /\ w # who
        BY <2>1, <3>2, <3>4, <4>2, SharesBothWays
      <4>3. CASE v # who /\ w = who
        BY <3>2, <3>4, <4>3
      <4>4. CASE v = who /\ w = who
        BY <3>4, <4>4
      <4>. QED  BY <4>1, <4>2, <4>3, <4>4
    <3>. QED  BY <3>6, <3>8, <3>9, <3>10
  <2>. QED  BY <2>4, <2>5 DEF OnceInv
<1>. QED
  BY <1>4, <1>5

\* Every step keeps the promise.
LEMMA OnceStep ==
  ASSUME OrdersTypeOK, OnceInv, [OrdersNext]_orderVars
  PROVE  OnceInv'
<1>1. checkout \in [Checkouts -> Calls]
  BY DEF OrdersTypeOK, Calls
<1>2. ASSUME NEW c \in Checkouts, NEW who \in Customers, NEW basket \in Baskets,
             NEW redeems \in BOOLEAN, BeginCheckout(c, who, basket, redeems)
      PROVE  OnceInv'
  <2>1. PICK call \in Calls :
           /\ checkout' = [checkout EXCEPT ![c] = call]
           /\ call.at \in {"idle", "read", "priced"}
           /\ call.at = "priced" => /\ Agree(call) /\ call.redeems = redeems
                                    /\ ~(redeems /\ promotion.perCustomer > 0)
           /\ call.at = "read" => /\ redeems /\ call.offer = promotion
           /\ redeems => Redeemable(promotion, usageCount, basket)
    BY <1>2, CallBegun
  <2>2. UNCHANGED <<promotion, redeemed, oncePerCustomer, countsRaced>>
    BY <1>2 DEF BeginCheckout
  <2>3. oncePerCustomer => promotion.perCustomer = 1
    BY DEF OnceInv, OneEach
  <2>4. call.at = "priced" => ~call.redeems \/ ~oncePerCustomer
    BY <2>1, <2>3
  <2>. QED  BY <1>1, <2>1, <2>2, <2>3, <2>4, OnceKept
<1>3. ASSUME NEW c \in Checkouts, AnswerCheckout(c) \/ CheckoutFails(c)
      PROVE  OnceInv'
  <2>1. checkout' = [checkout EXCEPT ![c] = NoCheckout]
    BY <1>3 DEF AnswerCheckout, CheckoutFails
  <2>2. NoCheckout \in Calls /\ NoCheckout.at = "idle"
    BY DEF Calls, NoCheckout
  <2>3. UNCHANGED <<promotion, redeemed, oncePerCustomer, countsRaced>>
    BY <1>3 DEF AnswerCheckout, CheckoutFails
  <2>. QED  BY <1>1, <2>1, <2>2, <2>3, OnceKept
<1>4. ASSUME NEW row \in Promotions, UpdatePromotion(row) PROVE OnceInv'
  <2>1. /\ promotion' = row /\ UNCHANGED <<redeemed, checkout, countsRaced>>
        /\ oncePerCustomer' = (oncePerCustomer /\ row.perCustomer = 1)
    BY <1>4 DEF UpdatePromotion
  <2>2. oncePerCustomer' => OneEach'
    BY <2>1 DEF OnceInv, OneEach
  <2>3. Calm' => Calm
    BY <2>1 DEF Calm
  <2>4. Calm => (CountedApart /\ AccountUnused /\ PhoneUnused /\ UsedOnce)'
    BY <2>1 DEF OnceInv, CountedApart, AccountUnused, PhoneUnused, UsedOnce, Counting
  <2>. QED  BY <2>2, <2>3, <2>4 DEF OnceInv
<1>5. CASE UNCHANGED orderVars
  BY <1>5 DEF orderVars, OnceInv, OneEach, Calm, CountedApart, AccountUnused, PhoneUnused,
              UsedOnce, Counting
<1>. QED
  BY <1>2, <1>3, <1>4, <1>5, OnceCounted, OnceCountedAgain, OnceCreated DEF OrdersNext

\* A promotion limited to one use per customer is used once by each account,
\* address and telephone, as long as no two counts of one customer have raced.
THEOREM UsesOncePerCustomer == OrdersSpec => []OncePerCustomer
<1>1. OrdersInit => OrdersTypeOK /\ PricedInv /\ OnceInv
  BY TypesBegin, OnceBegins
<1>2. (OrdersTypeOK /\ PricedInv /\ OnceInv) /\ [OrdersNext]_orderVars
        => (OrdersTypeOK /\ PricedInv /\ OnceInv)'
  BY TypesStep, OnceStep
<1>3. OnceInv => OncePerCustomer
  BY DEF OnceInv, Calm, UsedOnce, OncePerCustomer
<1>. QED
  BY <1>1, <1>2, <1>3, PTL DEF OrdersSpec

\* Both limits of a promotion hold, in all and for each customer, up to what
\* checkouts that run at once can overrun (validateWebPromotionForOrder).
THEOREM PromotionIsKept == OrdersSpec => []PromotionKept
BY OverrunsBounded, UsesOncePerCustomer, PTL DEF PromotionKept
=============================================================================
