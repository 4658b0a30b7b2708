------------------------------ MODULE CustomerCart ------------------------------
(***************************************************************************)
(* The cart of the customers' app, from the menu to the order: its lines   *)
(* (CartContext.tsx), the promotion the server has priced for them         *)
(* (CartScreen.tsx), and the screen that sends the order                   *)
(* (CheckoutScreen.tsx), which shows the total it was opened with and      *)
(* sends the lines there are when the button is pressed.                   *)
(*                                                                         *)
(* A preview and an order are answered whenever the server likes: the cart *)
(* may have changed, or the checkout been left and opened again.  The      *)
(* screen on top has the touches.                                          *)
(*                                                                         *)
(* Every product costs 1, a promotion is abstracted to the cart it was     *)
(* priced for, and the delivery zones to one with a minimum order.         *)
(***************************************************************************)
EXTENDS Naturals, FiniteSets, FiniteSetsExt

CONSTANTS
  Products,
  MaxQuantity,   \* of a line; bounds the model
  MinimumOrder,  \* of a delivery
  Sends,         \* orders that may be in flight at once
  MaxPreviews    \* previews that may be in flight at once; bounds the model

ASSUME CartConstants ==
  /\ IsFiniteSet(Products) /\ MaxQuantity \in Nat
  /\ MinimumOrder \in Nat /\ MaxPreviews \in Nat

VARIABLES
  cart,      \* quantity of each product
  way,       \* how the order reaches the customer, and whether that zone is served
  applied,   \* the promotion of the cart
  previews,  \* the carts of the previews in flight
  checkout,  \* the checkout screen
  orders     \* the orders in flight

cartVars == <<cart, way, applied, previews, checkout, orders>>

Carts == [Products -> 0..MaxQuantity]
EmptyCart == [p \in Products |-> 0]
Subtotal(c) == MapThenSumSet(LAMBDA p : c[p], Products)

Ways == {"takeaway", "delivery", "unserved"}

\* late: the cart had changed when the preview was answered.
NoPromotion == [for |-> EmptyCart, late |-> FALSE]

NoCheckout == [open |-> FALSE, lines |-> EmptyCart, way |-> "takeaway",
               promotion |-> NoPromotion, submitting |-> FALSE]

\* here: the screen it was sent from is still open.
NoOrder == [at |-> "none", lines |-> EmptyCart, shown |-> EmptyCart,
            way |-> "takeaway", promotion |-> NoPromotion, here |-> FALSE]

CartInit ==
  /\ cart = EmptyCart /\ way = "takeaway" /\ applied = NoPromotion /\ previews = {}
  /\ checkout = NoCheckout /\ orders = [s \in Sends |-> NoOrder]
-----------------------------------------------------------------------------
\* Mutant of AfterChange: a change of the cart keeps the promotion.
AfterChangeKept(promotion) == promotion

\* The effect of CartScreen on a change of the lines, whatever it is.
AfterChange(promotion) == NoPromotion

LinesBecome(lines) == cart' = lines /\ applied' = AfterChange(applied)

\* addLine, and updateQty by one.
AddLine(p) ==
  /\ ~checkout.open /\ cart[p] < MaxQuantity
  /\ LinesBecome([cart EXCEPT ![p] = @ + 1])
  /\ UNCHANGED <<way, previews, checkout, orders>>

\* updateQty by minus one, which leaves one.
TakeOne(p) ==
  /\ ~checkout.open /\ cart[p] > 0
  /\ LinesBecome([cart EXCEPT ![p] = IF @ > 1 THEN @ - 1 ELSE 1])
  /\ UNCHANGED <<way, previews, checkout, orders>>

RemoveLine(p) ==
  /\ ~checkout.open /\ cart[p] > 0
  /\ LinesBecome([cart EXCEPT ![p] = 0])
  /\ UNCHANGED <<way, previews, checkout, orders>>

\* The type of the order and the postal code.
ChooseWay(w) ==
  /\ ~checkout.open /\ w # way /\ way' = w
  /\ UNCHANGED <<cart, applied, previews, checkout, orders>>

\* applyPromotion; the button stays alive while a preview is in flight.
AskPreview ==
  /\ ~checkout.open /\ cart # EmptyCart /\ Cardinality(previews) < MaxPreviews
  /\ previews' = previews \cup {cart}
  /\ UNCHANGED <<cart, way, applied, checkout, orders>>

PreviewAnswered(c) ==
  /\ c \in previews /\ previews' = previews \ {c}
  /\ applied' = [for |-> c, late |-> c # cart]
  /\ UNCHANGED <<cart, way, checkout, orders>>

\* The code is refused, or the request fails.
PreviewFails(c) ==
  /\ c \in previews /\ previews' = previews \ {c} /\ applied' = NoPromotion
  /\ UNCHANGED <<cart, way, checkout, orders>>

RemovePromotion ==
  /\ ~checkout.open /\ applied # NoPromotion /\ applied' = NoPromotion
  /\ UNCHANGED <<cart, way, previews, checkout, orders>>
-----------------------------------------------------------------------------
CanCheckout ==
  /\ cart # EmptyCart /\ way # "unserved"
  /\ way = "delivery" => Subtotal(cart) >= MinimumOrder

\* "Continue" opens the checkout with what the cart screen shows.
Continue ==
  /\ ~checkout.open /\ CanCheckout
  /\ checkout' = [open |-> TRUE, lines |-> cart, way |-> way, promotion |-> applied,
                  submitting |-> FALSE]
  /\ UNCHANGED <<cart, way, applied, previews, orders>>

\* The orders in flight, once the checkout screen is closed.
Left(os) == [s \in Sends |-> IF os[s] = NoOrder THEN NoOrder
                             ELSE [os[s] EXCEPT !.here = FALSE]]

\* The customer goes back to the cart, with or without an order in flight.
BackToCart ==
  /\ checkout.open /\ checkout' = NoCheckout /\ orders' = Left(orders)
  /\ UNCHANGED <<cart, way, applied, previews>>

\* The button of the checkout, with its fields filled.
SubmitOrder(s) ==
  /\ checkout.open /\ ~checkout.submitting /\ orders[s] = NoOrder
  /\ checkout' = [checkout EXCEPT !.submitting = TRUE]
  /\ orders' = [orders EXCEPT ![s] =
       [at |-> "sent", lines |-> cart, shown |-> checkout.lines, way |-> checkout.way,
        promotion |-> checkout.promotion, here |-> TRUE]]
  /\ UNCHANGED <<cart, way, applied, previews>>

\* The order is accepted: the cart is cleared as it is now, and the list of orders
\* shown, which closes the checkout that is open now.
OrderAccepted(s) ==
  /\ orders[s].at = "sent" /\ orders[s].lines # EmptyCart
  /\ LinesBecome(EmptyCart) /\ checkout' = NoCheckout
  /\ orders' = Left([orders EXCEPT ![s] = NoOrder])
  /\ UNCHANGED <<way, previews>>

\* It is refused, as one without lines always is, or its answer is lost.
OrderFails(s) ==
  /\ orders[s].at = "sent" /\ orders' = [orders EXCEPT ![s] = NoOrder]
  /\ checkout' = IF orders[s].here THEN [checkout EXCEPT !.submitting = FALSE]
                 ELSE checkout
  /\ UNCHANGED <<cart, way, applied, previews>>

\* The app is closed and started.
CartLost ==
  /\ cart' = EmptyCart /\ way' = "takeaway" /\ applied' = NoPromotion
  /\ previews' = {} /\ checkout' = NoCheckout /\ orders' = [s \in Sends |-> NoOrder]
-----------------------------------------------------------------------------
CartNext ==
  \/ \E p \in Products : AddLine(p) \/ TakeOne(p) \/ RemoveLine(p)
  \/ \E w \in Ways : ChooseWay(w)
  \/ AskPreview \/ RemovePromotion \/ Continue \/ BackToCart \/ CartLost
  \/ \E c \in previews : PreviewAnswered(c) \/ PreviewFails(c)
  \/ \E s \in Sends : SubmitOrder(s) \/ OrderAccepted(s) \/ OrderFails(s)

CartSpec == CartInit /\ [][CartNext]_cartVars
-----------------------------------------------------------------------------
PromotionType == [for : Carts, late : BOOLEAN]

CartTypeOK ==
  /\ cart \in Carts /\ way \in Ways /\ applied \in PromotionType
  /\ previews \subseteq Carts
  /\ checkout \in [open : BOOLEAN, lines : Carts, way : Ways, promotion : PromotionType,
                   submitting : BOOLEAN]
  /\ orders \in [Sends -> [at : {"none", "sent"}, lines : Carts, shown : Carts,
                   way : Ways, promotion : PromotionType, here : BOOLEAN]]

\* What is sent is what the total on the screen was made of: the lines, at least
\* the minimum of a delivery, with a promotion priced for these very lines, however
\* the customer went back and forth and whatever was answered in between.  Two
\* exceptions: a promotion whose preview the cart had overtaken, and an order
\* without lines, when an earlier one was accepted meanwhile; the server prices
\* the first again and refuses the second.
OrderedAsShown == \A s \in Sends : orders[s].at = "sent" =>
  \/ orders[s].lines = EmptyCart
  \/ /\ orders[s].lines = orders[s].shown
     /\ orders[s].way = "delivery" => Subtotal(orders[s].lines) >= MinimumOrder
     /\ orders[s].promotion \in {NoPromotion, [for |-> orders[s].lines, late |-> FALSE]}
        \/ orders[s].promotion.late
=============================================================================
