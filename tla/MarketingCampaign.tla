--------------------------- MODULE MarketingCampaign ---------------------------
(***************************************************************************)
(* The marketing page of the back office (AdminMarketing.jsx): its         *)
(* audience, the customers the staff exclude, and a campaign from the      *)
(* press of the button to the last mail (admin-marketing.service.ts,       *)
(* sendMarketingBulkEmail of notification.service.ts).                     *)
(*                                                                         *)
(* The page reads subscribed and other customers by two requests, and the  *)
(* server reads the customers again when it sends: consents change in      *)
(* between.  The mails are sent one after the other inside the request; a  *)
(* mail the provider refuses is left out, one it cannot be asked for fails *)
(* the request with the earlier mails gone.                                *)
(*                                                                         *)
(* The text of a campaign is its number; the provider is configured; fewer *)
(* than 5000 customers.  The code joined to a campaign is in               *)
(* PromotionCodes.                                                         *)
(***************************************************************************)
EXTENDS Naturals, FiniteSets

CONSTANTS
  Clients,            \* customers of the restaurant
  MaxPresses,         \* presses of the button; bounds the model
  MaxConsents,        \* changes of the customers' rows; bounds the model
  MaxCampaignFaults

ASSUME CampaignConstants ==
  /\ IsFiniteSet(Clients)
  /\ MaxPresses \in Nat /\ MaxConsents \in Nat /\ MaxCampaignFaults \in Nat

Presses == 1..MaxPresses

VARIABLES
  consent,   \* rows: "unknown", "yes", "no" or "gone"
  consents,
  listed,    \* the lists of the page that name the customer, "yes" and "no"
  excluded,
  loading,   \* the load of the audience: requests to be answered and answers
  draft,     \* the number of the campaign being written, 0 before it is
  drafts,
  waiting,   \* the press the page waits for, 0 for none
  press,
  mailed,    \* mails the provider took
  stale,     \* history: customers changed since the page began to read its lists
  campaignFaults

audienceVars == <<listed, excluded, loading, stale>>
campaignVars == <<consent, consents, audienceVars, draft, drafts, waiting, press, mailed,
                  campaignFaults>>

Unlisted == [c \in Clients |-> {}]
NoLoad == [at |-> "idle", unread |-> {}, rows |-> Unlisted, changed |-> {}]
BeginLoad == [at |-> "reading", unread |-> {"yes", "no"}, rows |-> Unlisted, changed |-> {}]

\* shown, changed and owed are history: the customers the button promised to mail,
\* those changed since the page read its lists, and those found by the server.
NoPress == [at |-> "unused", draft |-> 0, excluded |-> {}, left |-> {}, accepted |-> 0,
            result |-> "none", shown |-> {}, changed |-> {}, owed |-> {}, refused |-> {}]

CampaignInit ==
  /\ consent \in [Clients -> {"unknown", "yes", "no"}] /\ consents = 0
  /\ listed = Unlisted /\ excluded = {} /\ loading = BeginLoad /\ stale = {}
  /\ draft = 0 /\ drafts = 0 /\ waiting = 0
  /\ press = [p \in Presses |-> NoPress] /\ mailed = {} /\ campaignFaults = 0

CampaignFault == campaignFaults < MaxCampaignFaults /\ campaignFaults' = campaignFaults + 1
-----------------------------------------------------------------------------
\* Staff create or update a customer in another tab, a customer signs up or
\* deletes the account; a deleted one stays so.
ConsentChanges(c, to) ==
  /\ consents < MaxConsents /\ consents' = consents + 1
  /\ consent[c] \notin {to, "gone"} /\ (to = "gone" => consent[c] # "unknown")
  /\ consent' = [consent EXCEPT ![c] = to]
  /\ stale' = stale \cup {c}
  /\ loading' = [loading EXCEPT !.changed = @ \cup {c}]
  /\ press' = [p \in Presses |-> IF press[p].at = "asked"
                 THEN [press[p] EXCEPT !.changed = @ \cup {c}] ELSE press[p]]
  /\ UNCHANGED <<listed, excluded, draft, drafts, waiting, mailed, campaignFaults>>

\* listRecipients answers one of the two requests.
ReadRecipients(which) ==
  /\ loading.at = "reading" /\ which \in loading.unread
  /\ loading' = [loading EXCEPT !.unread = @ \ {which},
       !.rows = [c \in Clients |-> @[c] \cup (IF consent[c] = which THEN {which} ELSE {})]]
  /\ UNCHANGED <<consent, consents, listed, excluded, stale, draft, drafts, waiting, press,
                 mailed, campaignFaults>>

\* Others than subscribers are excluded; so stay those who were.
Excluding(rows, before) ==
  {c \in Clients : "no" \in rows[c] \/ (c \in before /\ "yes" \in rows[c])}

\* The load is over, and with it the campaign it followed.
LoadEnds ==
  /\ loading.at = "reading" /\ loading.unread = {}
  /\ listed' = loading.rows /\ excluded' = Excluding(loading.rows, excluded)
  /\ stale' = loading.changed /\ loading' = NoLoad /\ waiting' = 0
  /\ UNCHANGED <<consent, consents, draft, drafts, press, mailed, campaignFaults>>

\* One of its requests fails: the page keeps what it shows.
LoadFails ==
  /\ loading.at = "reading" /\ CampaignFault /\ loading' = NoLoad /\ waiting' = 0
  /\ UNCHANGED <<consent, consents, listed, excluded, stale, draft, drafts, press, mailed>>

\* toggleExcludedRecipient; the list is hidden while it is read.
ToggleExcluded(c) ==
  /\ loading.at = "idle" /\ "yes" \in listed[c]
  /\ excluded' = IF c \in excluded THEN excluded \ {c} ELSE excluded \cup {c}
  /\ UNCHANGED <<consent, consents, listed, loading, stale, draft, drafts, waiting, press,
                 mailed, campaignFaults>>

ResetExclusions ==
  /\ excluded # {} /\ excluded' = {}
  /\ UNCHANGED <<consent, consents, listed, loading, stale, draft, drafts, waiting, press,
                 mailed, campaignFaults>>

\* The page is left and opened again: its requests go on unheard.
OpenPage ==
  /\ CampaignFault /\ listed' = Unlisted /\ excluded' = {} /\ loading' = BeginLoad
  /\ stale' = {} /\ draft' = 0 /\ waiting' = 0
  /\ press' = [p \in Presses |-> IF p = waiting /\ press[p].result = "none"
                 THEN [press[p] EXCEPT !.result = "unheard"] ELSE press[p]]
  /\ UNCHANGED <<consent, consents, drafts, mailed>>
-----------------------------------------------------------------------------
WriteDraft ==
  /\ draft = 0 /\ drafts < MaxPresses /\ drafts' = drafts + 1 /\ draft' = drafts'
  /\ UNCHANGED <<consent, consents, audienceVars, waiting, press, mailed, campaignFaults>>

\* targetedCount: those the button counts.
Targeted == {c \in Clients : "yes" \in listed[c] /\ c \notin excluded}

\* sendBulkEmail of the page.
PressSend(p) ==
  /\ draft # 0 /\ waiting = 0 /\ Targeted # {}
  /\ press[p].at = "unused" /\ \A q \in 1..p - 1 : press[q].at # "unused"
  /\ waiting' = p
  /\ press' = [press EXCEPT ![p] = [NoPress EXCEPT !.at = "asked", !.draft = draft,
       !.excluded = excluded, !.shown = Targeted, !.changed = stale]]
  /\ UNCHANGED <<consent, consents, audienceVars, draft, drafts, mailed, campaignFaults>>

\* Mutant of Matching: the exclusions are forgotten.
MatchingAll(without) == {c \in Clients : consent[c] = "yes"}

Matching(without) == {c \in Clients : consent[c] = "yes"} \ without

\* sendBulkEmail of the server reads the customers.
ReadAudience(p) ==
  /\ press[p].at = "asked"
  /\ press' = [press EXCEPT ![p].at = "sending", ![p].left = Matching(press[p].excluded),
                            ![p].owed = Matching(press[p].excluded)]
  /\ UNCHANGED <<consent, consents, audienceVars, draft, drafts, waiting, mailed,
                 campaignFaults>>

\* buildMarketingEmail: the text as it was sent; its layout and the restaurant's
\* own data are left out.
Text(p) == press[p].draft
CampaignMail(p, c) == [press |-> p, to |-> c, text |-> Text(p)]

\* One mail: the provider takes it or refuses it, and the next one follows.
SendCampaignMail(p, c) ==
  /\ press[p].at = "sending" /\ c \in press[p].left
  /\ \/ /\ mailed' = mailed \cup {CampaignMail(p, c)}
        /\ press' = [press EXCEPT ![p].left = @ \ {c}, ![p].accepted = @ + 1]
        /\ UNCHANGED campaignFaults
     \/ /\ CampaignFault /\ UNCHANGED mailed
        /\ press' = [press EXCEPT ![p].left = @ \ {c}, ![p].refused = @ \cup {c}]
  /\ UNCHANGED <<consent, consents, audienceVars, draft, drafts, waiting>>

\* What the page does with a request that failed: all is kept for another press.
Heard(p, result) ==
  press' = [press EXCEPT ![p].result = IF waiting = p THEN result ELSE @,
                         ![p].at = "over"]

KeptDraft == waiting' = 0 /\ UNCHANGED <<draft, excluded, loading>>

\* Before the first mail, or at a mail the provider could not be asked for or did
\* not confirm; the server ends the request.
CampaignFails(p) ==
  /\ press[p].at \in {"asked", "sending"} /\ CampaignFault
  /\ \/ UNCHANGED mailed
     \/ \E c \in press[p].left : mailed' = mailed \cup {CampaignMail(p, c)}
  /\ Heard(p, "failed")
  /\ IF waiting = p THEN KeptDraft ELSE UNCHANGED <<waiting, draft, excluded, loading>>
  /\ UNCHANGED <<consent, consents, listed, stale, drafts>>

\* The answer is lost, and the server goes on.
AnswerIsLost(p) ==
  /\ waiting = p /\ press[p].at \in {"asked", "sending"} /\ CampaignFault
  /\ press' = [press EXCEPT ![p].result = "failed"] /\ KeptDraft
  /\ UNCHANGED <<consent, consents, listed, stale, drafts, mailed>>

\* Mutant of NextDraft: the text stays in the form.
SameDraft == draft

NextDraft == 0

\* The last mail has been tried.  No mail taken is an error; else the page forgets
\* text and exclusions, and waits for its lists.
CampaignAnswered(p) ==
  LET none == press[p].accepted = 0 /\ press[p].owed # {} IN
  /\ press[p].at = "sending" /\ press[p].left = {}
  /\ Heard(p, IF none THEN "failed" ELSE "sent")
  /\ IF waiting # p THEN UNCHANGED <<waiting, draft, excluded, loading>>
     ELSE IF none THEN KeptDraft
     ELSE draft' = NextDraft /\ excluded' = {} /\ loading' = BeginLoad /\ UNCHANGED waiting
  /\ UNCHANGED <<consent, consents, listed, stale, drafts, mailed, campaignFaults>>
-----------------------------------------------------------------------------
CampaignNext ==
  \/ \E c \in Clients : \/ \E to \in {"yes", "no", "gone"} : ConsentChanges(c, to)
                        \/ ToggleExcluded(c)
  \/ \E which \in {"yes", "no"} : ReadRecipients(which)
  \/ LoadEnds \/ LoadFails \/ ResetExclusions \/ OpenPage \/ WriteDraft
  \/ \E p \in Presses :
       \/ PressSend(p) \/ ReadAudience(p) \/ CampaignFails(p) \/ AnswerIsLost(p)
       \/ CampaignAnswered(p) \/ \E c \in Clients : SendCampaignMail(p, c)

CampaignSpec == CampaignInit /\ [][CampaignNext]_campaignVars
-----------------------------------------------------------------------------
CampaignTypeOK ==
  /\ consent \in [Clients -> {"unknown", "yes", "no", "gone"}]
  /\ consents \in 0..MaxConsents
  /\ listed \in [Clients -> SUBSET {"yes", "no"}] /\ excluded \subseteq Clients
  /\ loading \in [at : {"idle", "reading"}, unread : SUBSET {"yes", "no"},
                  rows : [Clients -> SUBSET {"yes", "no"}], changed : SUBSET Clients]
  /\ {draft, drafts, waiting} \subseteq 0..MaxPresses /\ stale \subseteq Clients
  /\ press \in [Presses -> [at : {"unused", "asked", "sending", "over"},
       draft : 0..MaxPresses, excluded : SUBSET Clients, left : SUBSET Clients,
       accepted : 0..Cardinality(Clients), result : {"none", "sent", "failed", "unheard"},
       shown : SUBSET Clients, changed : SUBSET Clients, owed : SUBSET Clients,
       refused : SUBSET Clients]]
  /\ mailed \subseteq [press : Presses, to : Clients, text : 1..MaxPresses]
  /\ campaignFaults \in 0..MaxCampaignFaults

Reached(p) == {m.to : m \in {n \in mailed : n.press = p}}

\* A campaign is mailed to those the button promised, up to customers who changed
\* their consent since the page began to read it, although the page may exclude by
\* an older answer and the server reads the customers again; and one that ended
\* without failing has tried each of them.
ReachesTheAudience == \A p \in Presses : press[p].at # "unused" =>
  /\ Reached(p) \ press[p].shown \subseteq press[p].changed
  /\ press[p].result = "sent" =>
       press[p].shown \ Reached(p) \subseteq press[p].changed \cup press[p].refused

\* Nobody gets one text twice, unless the first press ended with an error on
\* the page, which cannot know whether mails were sent; and a press that is
\* reported as sent has sent the mails it reports.
RepeatedAfterErrors ==
  /\ \A m, n \in mailed : m.to = n.to /\ m.text = n.text /\ m.press < n.press =>
       press[m.press].result = "failed"
  /\ \A p \in Presses : press[p].result = "sent" =>
       press[p].accepted = Cardinality(Reached(p))
=============================================================================
