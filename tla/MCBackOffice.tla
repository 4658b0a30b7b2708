------------------------------ MODULE MCBackOffice ------------------------------
(***************************************************************************)
(* TLC instance of the parts of the back end that customers and staff      *)
(* share: settings and their cache, checkouts, rate limits, accounts, mail *)
(* and the lists of the staff.  They share no state; a behaviour follows   *)
(* the one that focus names.                                               *)
(***************************************************************************)
EXTENDS RestaurantSettings, StorefrontOrders, RateLimitWindow, CustomerAccounts,
        MailDelivery, OrderDesk

VARIABLE focus

backOfficeVars ==
  <<settingsVars, orderVars, limitVars, accountVars, mailVars, deskVars, focus>>

BackOfficeInit ==
  /\ SettingsInit /\ OrdersInit /\ LimitInit /\ AccountsInit /\ MailInit
  /\ DeskInit
  /\ focus \in {"settings", "orders", "limit", "accounts", "mail", "desk"}
  /\ focus # "orders" => promotion = CHOOSE p \in Promotions : TRUE
  /\ focus # "desk" => \A i \in Items : item[i].hidden

Edits(A) ==
  /\ focus = "settings" /\ A
  /\ UNCHANGED <<orderVars, limitVars, accountVars, mailVars, deskVars, focus>>
Buys(A) ==
  /\ focus = "orders" /\ A
  /\ UNCHANGED <<settingsVars, limitVars, accountVars, mailVars, deskVars, focus>>
Limits(A) ==
  /\ focus = "limit" /\ A
  /\ UNCHANGED <<settingsVars, orderVars, accountVars, mailVars, deskVars, focus>>
Manages(A) ==
  /\ focus = "accounts" /\ A
  /\ UNCHANGED <<settingsVars, orderVars, limitVars, mailVars, deskVars, focus>>
Sends(A) ==
  /\ focus = "mail" /\ A
  /\ UNCHANGED <<settingsVars, orderVars, limitVars, accountVars, deskVars, focus>>
Serves(A) ==
  /\ focus = "desk" /\ A
  /\ UNCHANGED <<settingsVars, orderVars, limitVars, accountVars, mailVars, focus>>

BackOfficeNext ==
  \/ \E e \in Editors : \/ Edits(\E op \in Operations : BeginEdit(e, op))
                        \/ Edits(WriteEdit(e) \/ Invalidate(e) \/ EditFails(e))
  \/ Edits(\E r \in Readers : (\E k \in Keys : Miss(r, k)) \/ Load(r) \/ Store(r))
  \/ Edits(\E k \in Keys : Expire(k))
  \/ \E c \in Checkouts :
       \/ Buys(\E who \in Customers, basket \in Baskets, redeems \in BOOLEAN :
                 BeginCheckout(c, who, basket, redeems))
       \/ Buys(CountByAccount(c) \/ CountByPhone(c) \/ CreateOrder(c))
       \/ Buys(AnswerCheckout(c) \/ CheckoutFails(c))
  \/ Buys(\E p \in Promotions : UpdatePromotion(p))
  \/ Limits(WindowEnds)
  \/ Limits(\E c \in Callers : Count(c) \/ SetExpiry(c) \/ RedisFails(c) \/ EndCall(c))
  \/ \E t \in Tasks :
       \/ Manages(\E op \in {"signup", "staffCreate"}, address \in Addresses :
                    BeginSignup(t, op, address))
       \/ Manages(FinishSignup(t) \/ FinishProfile(t) \/ FinishDelete(t))
       \/ Manages(FinishVerify(t) \/ FinishRequest(t) \/ FinishReset(t))
       \/ Manages(FinishStaffUpdate(t) \/ TaskFails(t))
       \/ Manages(\E a \in Accounts, op \in {"profile", "delete"} : BeginOwn(t, op, a))
       \/ Manages(\E a \in Accounts : BeginVerify(t, a) \/ BeginRequest(t, a))
       \/ Manages(\E a \in Accounts : BeginReset(t, a))
       \/ Manages(\E a \in Accounts, address \in Addresses :
                    BeginStaffUpdate(t, a, address))
  \/ Manages(\E a \in Accounts : Login(a) \/ SignOut(a) \/ StaffDelete(a))
  \/ Sends(AbandonedFails)
  \/ \E e \in Events :
       \/ Sends(Publish(e) \/ SendVerification(e) \/ SendReset(e))
       \/ Sends(StartSending(e) \/ Connected(e))
       \/ Sends(ConnectFails(e) \/ LineWritten(e) \/ WriteLost(e) \/ Heard(e) \/ Refused(e) \/ Upgraded(e))
       \/ Sends(Answers(e) \/ Breaks(e))
  \/ Serves(StaffLogin \/ StaffLoginEnds \/ StaffLogout \/ StaffLogoutEnds)
  \/ Serves(Restart \/ Act)
  \/ Serves(\E s \in 1..MaxSessions : SessionExpires(s))
  \/ \E f \in Refreshes :
       \/ Serves(Refresh(f) \/ RefreshEnds(f) \/ RefreshRefused(f))
       \/ Serves(RefreshLeaves(f) \/ RefreshFails(f))
       \/ Serves(\E list \in refresh[f].unread : ReadList(f, list))
       \/ Serves(\E i \in Items, r \in SomeRow : ActionWritten(i, r, f))
  \/ Serves(\E i \in Items, r \in SomeRow :
              ChangeElsewhere(i, r) \/ ActionFails(i, r))

\* In the initial states no fairness asks for a step, so that each binds the
\* behaviours of its own part only.
BackOfficeSpec ==
  /\ BackOfficeInit /\ [][BackOfficeNext]_backOfficeVars
  /\ SettingsFairness /\ LimitFairness /\ MailFairness
  /\ DeskFairness

\* Every module keeps its types.
BackOfficeTypeOK ==
  /\ SettingsTypeOK /\ OrdersTypeOK /\ LimitTypeOK /\ AccountsTypeOK /\ MailTypeOK
  /\ DeskTypeOK
-----------------------------------------------------------------------------
\* The copies of the back end come to agree with it: the cache with the settings
\* (public-config.service.ts) and the lists of the staff with the rows (App.js),
\* each as its module states.
CopiesConverge == CacheConverges /\ ListConverges

\* Waits end: a caller that was limited is served again, and a mail server that
\* answers slowly or not at all ends its event.
WaitsEnd == BlockEnds /\ SendEnds
-----------------------------------------------------------------------------
\* Three customers: one with an account; a guest who gives the same address; a
\* guest who gives only the same telephone.
SomeCustomers ==
  { [account |-> "u", address |-> "m", phone |-> "p"],
    [account |-> Guest, address |-> "m", phone |-> "q"],
    [account |-> Guest, address |-> Guest, phone |-> "p"] }

\* Below and above the minimum order of 5.
SomeBaskets == { [subtotal |-> 4, to |-> "zone"], [subtotal |-> 6, to |-> "zone"] }

\* A promotion that makes the basket free and is redeemed once in all, and one
\* that is not limited in all.
SomePromotions ==
  { [live |-> TRUE, kind |-> "fixed_amount", value |-> 8, usageLimit |-> 1,
     perCustomer |-> 1],
    [live |-> TRUE, kind |-> "percentage", value |-> 50, usageLimit |-> 0,
     perCustomer |-> 1] }

\* One list of one order.
SomeLists == {{"o"}}
=============================================================================
