---------------------------- MODULE StorefrontOrders ----------------------------
(***************************************************************************)
(* The checkout of the storefront (orders.service.ts,                      *)
(* createStorefrontOrder) and the promotion it redeems                     *)
(* (admin-marketing.service.ts).                                           *)
(*                                                                         *)
(* A checkout reads the promotion, counts the orders of the customer that  *)
(* used it -- by account and address first, by telephone when there are    *)
(* none --, prices the basket, and then writes the order and the usage     *)
(* count in one transaction that repeats none of these checks.  Checkouts  *)
(* run at once, and staff edit the promotion between the steps.            *)
(*                                                                         *)
(* There is one promotion.  Of the orders only those that used it are      *)
(* kept, as a bag of customers: the others change nothing a checkout       *)
(* reads.  Fewer than 500 orders use it (the telephone search stops there).*)
(* A limit of 0 is no limit.  Amounts are whole numbers of one unit.       *)
(***************************************************************************)
EXTENDS Integers, FiniteSets

CONSTANTS
  Checkouts,     \* calls of createStorefrontOrder that may run at once
  Customers,     \* who orders: records [account, address, phone]
  Guest,         \* the account or the address of those who have none
  Baskets,       \* records [subtotal, to]
  Promotions,    \* what staff save: [live, kind, value, usageLimit, perCustomer]
  MinimumOrder, DeliveryFee,  \* the rule of the one zone that is delivered to
  MaxRedemptions, \* orders that use the promotion; bounds the model
  MaxPromotionEdits

ASSUME OrderConstants ==
  /\ IsFiniteSet(Checkouts) /\ Checkouts # {} /\ IsFiniteSet(Customers)
  /\ Baskets \subseteq [subtotal : Nat, to : {"takeaway", "zone", "elsewhere"}]
  /\ Promotions \subseteq [live : BOOLEAN, kind : {"percentage", "fixed_amount"},
                           value : Nat, usageLimit : Nat, perCustomer : Nat]
  /\ MinimumOrder \in Nat /\ DeliveryFee \in Nat
  /\ MaxRedemptions \in Nat \ {0} /\ MaxPromotionEdits \in Nat

VARIABLES
  promotion,    \* the row without its counter
  usageCount,
  redeemed,     \* how often each customer's orders used the promotion
  checkout,     \* the call of each slot
  promotionEdits,
  highestLimit, \* history: the highest usage limit so far, 0 once there was none
  oncePerCustomer, \* history: the limit per customer has always been one
  countsRaced         \* history: a count ran while another checkout had counted

orderVars == <<promotion, usageCount, redeemed, checkout, promotionEdits,
               highestLimit, oncePerCustomer, countsRaced>>

Same(a, b) == a = b /\ a # Guest
SharesAccount(a, b) == Same(a.account, b.account) \/ Same(a.address, b.address)
Shares(a, b) == SharesAccount(a, b) \/ a.phone = b.phone

NoCheckout == [at |-> "idle"]
Busy(c) == checkout[c] # NoCheckout
Counting(c) == checkout[c].at \in {"asked", "priced"} /\ checkout[c].redeems

OrdersInit ==
  /\ promotion \in Promotions
  /\ usageCount = 0 /\ redeemed = [w \in Customers |-> 0]
  /\ checkout = [c \in Checkouts |-> NoCheckout] /\ promotionEdits = 0
  /\ highestLimit = promotion.usageLimit
  /\ oncePerCustomer = (promotion.perCustomer = 1) /\ countsRaced = FALSE
-----------------------------------------------------------------------------
Least(a, b) == IF a < b THEN a ELSE b

\* Mutant of Discount: it is not capped.
DiscountUncapped(offer, subtotal) ==
  IF offer.kind = "percentage" THEN (subtotal * offer.value + 50) \div 100 ELSE offer.value

\* resolvePromotionForOrder: rounded, and never above the subtotal.
Discount(offer, subtotal) ==
  Least(subtotal, IF offer.kind = "percentage"
                  THEN (subtotal * offer.value + 50) \div 100 ELSE offer.value)

\* A discounted basket that costs nothing is charged in full: its total of 0
\* counts as missing.
Charged(subtotal, discount) ==
  IF subtotal - discount = 0 THEN subtotal ELSE subtotal - discount

\* Mutant of Deliverable: the fee counts towards the minimum.
DeliverableWithFee(basket) ==
  \/ basket.to = "takeaway"
  \/ basket.to = "zone" /\ basket.subtotal + DeliveryFee >= MinimumOrder

Deliverable(basket) ==
  \/ basket.to = "takeaway"
  \/ basket.to = "zone" /\ basket.subtotal >= MinimumOrder

Fee(basket) == IF basket.to = "zone" THEN DeliveryFee ELSE 0

\* The checkout with its amounts, or none when the pricing refuses it.
Priced(who, basket, redeems, offer) ==
  LET discount == IF redeems THEN Discount(offer, basket.subtotal) ELSE 0 IN
  IF Deliverable(basket) /\ (redeems => discount > 0)
  THEN [at |-> "priced", who |-> who, redeems |-> redeems,
        subtotal |-> basket.subtotal, discount |-> discount, fee |-> Fee(basket),
        total |-> Charged(basket.subtotal, discount) + Fee(basket)]
  ELSE NoCheckout
-----------------------------------------------------------------------------
\* Mutant of Redeemable: a limit that is reached still lets one through.
RedeemableOnceMore(row, count, basket) ==
  /\ basket.subtotal > 0 /\ row.live
  /\ row.usageLimit > 0 => count <= row.usageLimit

Redeemable(row, count, basket) ==
  /\ basket.subtotal > 0 /\ row.live
  /\ row.usageLimit > 0 => count < row.usageLimit

\* The restaurant and the promotion are read.  A code that cannot be redeemed
\* ends the call.
BeginCheckout(c, who, basket, redeems) ==
  /\ ~Busy(c) /\ c = (CHOOSE d \in Checkouts : ~Busy(d))
  /\ redeems => Redeemable(promotion, usageCount, basket)
  /\ checkout' = [checkout EXCEPT ![c] =
       IF redeems /\ promotion.perCustomer > 0
       THEN [at |-> "read", who |-> who, basket |-> basket, offer |-> promotion]
       ELSE Priced(who, basket, redeems, promotion)]
  /\ UNCHANGED <<promotion, usageCount, redeemed, promotionEdits, highestLimit,
                 oncePerCustomer, countsRaced>>

\* Orders that used the promotion and belong to a customer of set S; every
\* customer has a bounded number of them.
Uses(S) == Cardinality({p \in S \X (1..MaxRedemptions) : p[2] <= redeemed[p[1]]})

\* countPromotionUsageForCustomer, by account and address.
CountByAccount(c) ==
  LET call == checkout[c]
      used == Uses({w \in Customers : SharesAccount(w, call.who)}) IN
  /\ call.at = "read"
  /\ checkout' = [checkout EXCEPT ![c] =
       IF used >= call.offer.perCustomer THEN NoCheckout
       ELSE IF used = 0
            THEN [at |-> "asked", who |-> call.who, basket |-> call.basket,
                  offer |-> call.offer, redeems |-> TRUE]
            ELSE Priced(call.who, call.basket, TRUE, call.offer)]
  /\ countsRaced' = (countsRaced \/ \E d \in Checkouts \ {c} :
                          Counting(d) /\ Shares(checkout[d].who, call.who))
  /\ UNCHANGED <<promotion, usageCount, redeemed, promotionEdits, highestLimit,
                 oncePerCustomer>>

\* Mutant of SamePhone: the telephone is compared only for those without account.
SamePhoneOfGuest(a, b) == a.phone = b.phone /\ a.account = Guest

SamePhone(a, b) == a.phone = b.phone

\* The second query, by telephone.
CountByPhone(c) ==
  LET call == checkout[c]
      used == Uses({w \in Customers : SamePhone(w, call.who)}) IN
  /\ call.at = "asked"
  /\ checkout' = [checkout EXCEPT ![c] =
       IF used >= call.offer.perCustomer THEN NoCheckout
       ELSE Priced(call.who, call.basket, TRUE, call.offer)]
  /\ UNCHANGED <<promotion, usageCount, redeemed, promotionEdits, highestLimit,
                 oncePerCustomer, countsRaced>>

\* The transaction: the usage count and the order.
CreateOrder(c) ==
  /\ checkout[c].at = "priced"
  /\ IF checkout[c].redeems
     THEN /\ usageCount < MaxRedemptions /\ usageCount' = usageCount + 1
          /\ redeemed' = [redeemed EXCEPT ![checkout[c].who] = @ + 1]
     ELSE UNCHANGED <<usageCount, redeemed>>
  /\ checkout' = [checkout EXCEPT ![c].at = "created"]
  /\ UNCHANGED <<promotion, promotionEdits, highestLimit, oncePerCustomer, countsRaced>>

\* publish is waited for; the call answers with the order, or with an error when
\* the restaurant's details cannot be read: the order stays.
AnswerCheckout(c) ==
  /\ checkout[c].at = "created"
  /\ checkout' = [checkout EXCEPT ![c] = NoCheckout]
  /\ UNCHANGED <<promotion, usageCount, redeemed, promotionEdits, highestLimit,
                 oncePerCustomer, countsRaced>>

\* A query or the transaction fails.
CheckoutFails(c) ==
  /\ checkout[c].at \in {"read", "asked", "priced"}
  /\ checkout' = [checkout EXCEPT ![c] = NoCheckout]
  /\ UNCHANGED <<promotion, usageCount, redeemed, promotionEdits, highestLimit,
                 oncePerCustomer, countsRaced>>

\* updatePromotion replaces everything but the counter.
UpdatePromotion(row) ==
  /\ promotionEdits < MaxPromotionEdits /\ promotionEdits' = promotionEdits + 1
  /\ promotion' = row
  /\ highestLimit' = IF highestLimit = 0 \/ row.usageLimit = 0 THEN 0
                     ELSE IF row.usageLimit > highestLimit THEN row.usageLimit
                     ELSE highestLimit
  /\ oncePerCustomer' = (oncePerCustomer /\ row.perCustomer = 1)
  /\ UNCHANGED <<usageCount, redeemed, checkout, countsRaced>>
-----------------------------------------------------------------------------
OrdersNext ==
  \/ \E c \in Checkouts :
       \/ \E who \in Customers, basket \in Baskets, redeems \in BOOLEAN :
            BeginCheckout(c, who, basket, redeems)
       \/ CountByAccount(c) \/ CountByPhone(c) \/ CreateOrder(c)
       \/ AnswerCheckout(c) \/ CheckoutFails(c)
  \/ \E row \in Promotions : UpdatePromotion(row)

OrdersSpec == OrdersInit /\ [][OrdersNext]_orderVars
-----------------------------------------------------------------------------
AskedCheckout == [at : {"asked"}, who : Customers, basket : Baskets,
                  offer : Promotions, redeems : {TRUE}]
ReadCheckout == [at : {"read"}, who : Customers, basket : Baskets, offer : Promotions]
PricedCheckout == [at : {"priced", "created"}, who : Customers, redeems : BOOLEAN,
                   subtotal : Nat, discount : Nat, fee : Nat, total : Nat]

OrdersTypeOK ==
  /\ promotion \in Promotions /\ usageCount \in 0..MaxRedemptions
  /\ redeemed \in [Customers -> Nat]
  /\ checkout \in [Checkouts -> {NoCheckout} \cup ReadCheckout \cup AskedCheckout
                                  \cup PricedCheckout]
  /\ promotionEdits \in 0..MaxPromotionEdits /\ highestLimit \in Nat
  /\ oncePerCustomer \in BOOLEAN /\ countsRaced \in BOOLEAN

\* The usage limit can be overrun, since the transaction does not check it
\* again, but never by more than the checkouts that run at once less one: each
\* order was allowed while the count was below a limit that staff had set.
OverrunBounded ==
  highestLimit > 0 => usageCount <= highestLimit + Cardinality(Checkouts) - 1

\* A promotion limited to one use per customer is used once by each account,
\* each address and each telephone, whatever the customer leaves out, unless
\* two checkouts of that customer counted at once.
OncePerCustomer ==
  oncePerCustomer /\ ~countsRaced =>
    \A v, w \in Customers : redeemed[v] > 0 /\ redeemed[w] > 0 /\ Shares(v, w)
                              => v = w /\ redeemed[v] = 1

\* Both limits of a promotion.
PromotionKept == OverrunBounded /\ OncePerCustomer

\* The amounts of an order agree: the discount is within the subtotal and the
\* customer pays the rest and the delivery, or, when nothing would be left, the
\* whole subtotal; what is delivered reaches the minimum of its zone.
OrderTotals == \A c \in Checkouts : checkout[c].at = "created" =>
  LET order == checkout[c] IN
  /\ order.discount <= order.subtotal
  /\ \/ order.total + order.discount = order.subtotal + order.fee
     \/ order.discount = order.subtotal /\ order.total = order.subtotal + order.fee
  /\ order.fee > 0 => order.subtotal >= MinimumOrder
=============================================================================
