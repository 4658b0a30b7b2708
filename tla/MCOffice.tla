-------------------------------- MODULE MCOffice --------------------------------
(***************************************************************************)
(* TLC instance of what the staff do in the web back office, the mails it  *)
(* makes the server send, and the customers' app: campaigns, the codes     *)
(* joined to them, the changes of an order or a reservation, the session   *)
(* and the cart of the app.  The parts share no state; a behaviour follows *)
(* the one that focus names.                                               *)
(***************************************************************************)
EXTENDS MarketingCampaign, PromotionCodes, OrderMails, CustomerSession, CustomerCart

VARIABLE focus

officeVars ==
  <<campaignVars, codeVars, orderMailVars, sessionVars, cartVars, focus>>

OfficeInit ==
  /\ CampaignInit /\ CodesInit /\ OrderMailsInit /\ SessionInit /\ CartInit
  /\ focus \in {"campaign", "codes", "mails", "session", "cart"}
  /\ focus # "campaign" => \A c \in Clients : consent[c] = "unknown"
  /\ focus # "codes" => \A k \in Codes : code[k] = "absent"
  /\ focus # "session" => pushTo = Nobody

OfficeNext ==
  \/ /\ focus = "campaign" /\ CampaignNext
     /\ UNCHANGED <<codeVars, orderMailVars, sessionVars, cartVars, focus>>
  \/ /\ focus = "codes" /\ CodesNext
     /\ UNCHANGED <<campaignVars, orderMailVars, sessionVars, cartVars, focus>>
  \/ /\ focus = "mails" /\ OrderMailsNext
     /\ UNCHANGED <<campaignVars, codeVars, sessionVars, cartVars, focus>>
  \/ /\ focus = "session" /\ SessionNext
     /\ UNCHANGED <<campaignVars, codeVars, orderMailVars, cartVars, focus>>
  \/ /\ focus = "cart" /\ CartNext
     /\ UNCHANGED <<campaignVars, codeVars, orderMailVars, sessionVars, focus>>

OfficeSpec == OfficeInit /\ [][OfficeNext]_officeVars

\* Every module keeps its types.
OfficeTypeOK ==
  /\ CampaignTypeOK /\ CodesTypeOK /\ OrderMailsTypeOK /\ SessionTypeOK /\ CartTypeOK
-----------------------------------------------------------------------------
\* The mails tell what happened and the row keeps what no change named: the hour
\* mailed is the one of the row (orders.service.ts, reservations.service.ts).
ChangesKept == MailsMatchChanges /\ PrepKept

\* The customers' app keeps the copies of its session together (AuthContext.tsx)
\* and orders what it showed (CartScreen.tsx, CheckoutScreen.tsx).
AppKept == SessionAgrees /\ OrderedAsShown
=============================================================================
