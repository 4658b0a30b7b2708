----------------------------- MODULE PromotionCodes -----------------------------
(***************************************************************************)
(* The promotion codes of the marketing page (AdminMarketing.jsx,          *)
(* admin-marketing.service.ts): their filtered list, the form that creates *)
(* and changes them, and the code joined to a campaign.                    *)
(*                                                                         *)
(* A change of the filter reads the list a quarter of a second later; a    *)
(* code saved and a campaign sent read it too, with the filter there was   *)
(* when their button was pressed.  Reads overtake each other and each      *)
(* answer is shown.                                                        *)
(*                                                                         *)
(* A code is abstracted to its status, and the search to the filter by     *)
(* status.  Nothing deletes a code.                                        *)
(***************************************************************************)
EXTENDS Naturals

CONSTANTS
  Codes, NoCode,
  Filters,        \* the filters used, of "all", "active" and "inactive"
  ListReads,      \* reads of the list that may be in flight at once
  MaxFilters,     \* changes of the filter; bounds the model
  MaxCodeWrites,  \* writes of codes and campaigns; bounds the model
  MaxCodeFaults   \* requests that fail

ASSUME CodeConstants ==
  /\ NoCode \notin Codes /\ "all" \in Filters
  /\ Filters \subseteq {"all", "active", "inactive"}
  /\ MaxFilters \in Nat /\ MaxCodeWrites \in Nat /\ MaxCodeFaults \in Nat

Statuses == {"absent", "inactive", "active", "ended"}

VARIABLES
  code,      \* rows: "ended" is active with an end that has passed
  writes,
  filter,
  filters,
  due,       \* the timer of the filter runs
  listRead,  \* the reads in flight
  codes,     \* the list shown
  selected,  \* the code to join to the campaign
  form,      \* the form of a code, and its request
  sending,   \* the campaign: its code and the filter at its press
  origin,    \* history: the filter of the list shown, and who read it
  missed,    \* history: the newest answer failed, or an older one came after it
  codeFaults

pageVars == <<filter, filters, due, listRead, codes, origin, missed>>
codeVars == <<code, writes, pageVars, selected, form, sending, codeFaults>>

ReadersOfCodes == {"timer", "form", "campaign"}
NoRead == [at |-> "idle", filter |-> "all", rows |-> {}, by |-> "timer", last |-> FALSE]
NoForm == [at |-> "closed", code |-> NoCode, saved |-> NoCode, attach |-> FALSE,
           filter |-> "all"]
NoSending == [at |-> "idle", code |-> NoCode, filter |-> "all"]

CodesInit ==
  /\ code \in [Codes -> {"absent", "active"}] /\ writes = 0
  /\ filter = "all" /\ filters = 0 /\ due = TRUE
  /\ listRead = [r \in ListReads |-> NoRead] /\ codes = {}
  /\ selected = NoCode /\ form = NoForm /\ sending = NoSending
  /\ origin = [filter |-> "all", by |-> "timer"] /\ missed = FALSE /\ codeFaults = 0

CodeFault == codeFaults < MaxCodeFaults /\ codeFaults' = codeFaults + 1
CodeWrite == writes < MaxCodeWrites /\ writes' = writes + 1

IdleRead(r) ==
  LET idle(s) == listRead[s].at = "idle" IN idle(r) /\ r = CHOOSE s \in ListReads : idle(s)

\* loadPromotions is called, with the filter that its caller knows.
BeginRead(r, by, known) ==
  /\ IdleRead(r)
  /\ listRead' = [s \in ListReads |-> IF s = r
       THEN [at |-> "sent", filter |-> known, rows |-> {}, by |-> by, last |-> TRUE]
       ELSE [listRead[s] EXCEPT !.last = FALSE]]
-----------------------------------------------------------------------------
\* Mutant of Rearmed: the timer depends on the search alone.
RearmedBySearch == due

\* The effect of the filter sets its timer anew.
Rearmed == TRUE

ChangeFilter(to) ==
  /\ filters < MaxFilters /\ filters' = filters + 1 /\ to # filter /\ filter' = to
  /\ due' = Rearmed
  /\ UNCHANGED <<code, writes, listRead, codes, selected, form, sending, origin, missed,
                 codeFaults>>

TimerFires(r) ==
  /\ due /\ due' = FALSE /\ BeginRead(r, "timer", filter)
  /\ UNCHANGED <<code, writes, filter, filters, codes, selected, form, sending, origin,
                 missed, codeFaults>>

\* The codes that a filter lets through; their dates do not count.
Passes(k, known) ==
  \/ known = "all" /\ code[k] # "absent"
  \/ known = "active" /\ code[k] \in {"active", "ended"}
  \/ known = "inactive" /\ code[k] = "inactive"

\* listPromotions.
ReadCodes(r) ==
  /\ listRead[r].at = "sent"
  /\ listRead' = [listRead EXCEPT ![r].at = "read",
                    ![r].rows = {k \in Codes : Passes(k, listRead[r].filter)}]
  /\ UNCHANGED <<code, writes, filter, filters, due, codes, selected, form, sending, origin,
                 missed, codeFaults>>

\* The read ends: a form that waited for it joins its code and closes, a campaign
\* is over.
AfterRead(r, kept) ==
  LET by == listRead[r].by IN
  /\ listRead' = [listRead EXCEPT ![r] = NoRead]
  /\ selected' = IF by = "form" /\ form.attach THEN form.saved ELSE kept
  /\ form' = IF by = "form" THEN NoForm ELSE form
  /\ sending' = IF by = "campaign" THEN NoSending ELSE sending

\* Mutant of Kept: the selection outlives the list that named it.
KeptAnyway(rows) == selected

\* A selection that is not listed any more is dropped.
Kept(rows) == IF selected \in rows THEN selected ELSE NoCode

ShowCodes(r) ==
  LET read == listRead[r] IN
  /\ read.at = "read" /\ AfterRead(r, Kept(read.rows))
  /\ codes' = read.rows /\ origin' = [filter |-> read.filter, by |-> read.by]
  /\ missed' = ~read.last
  /\ UNCHANGED <<code, writes, filter, filters, due, codeFaults>>

ReadFails(r) ==
  /\ listRead[r].at = "sent" /\ CodeFault /\ AfterRead(r, selected)
  /\ missed' = TRUE
  /\ UNCHANGED <<code, writes, filter, filters, due, codes, origin>>
-----------------------------------------------------------------------------
\* For a code of the list, or for a new one, which may join the campaign.
OpenForm(k, attach) ==
  /\ form.at = "closed" /\ k \in codes \cup {NoCode} /\ (attach => k = NoCode)
  /\ form' = [NoForm EXCEPT !.at = "open", !.code = k, !.attach = attach]
  /\ UNCHANGED <<code, writes, pageVars, selected, sending, codeFaults>>

CloseForm ==
  /\ form.at = "open" /\ form' = NoForm
  /\ UNCHANGED <<code, writes, pageVars, selected, sending, codeFaults>>

SubmitForm ==
  /\ form.at = "open" /\ form' = [form EXCEPT !.at = "saving", !.filter = filter]
  /\ UNCHANGED <<code, writes, pageVars, selected, sending, codeFaults>>

\* createPromotion or updatePromotion.
WriteCode(k, status) ==
  /\ form.at = "saving" /\ CodeWrite
  /\ k = form.code \/ (form.code = NoCode /\ code[k] = "absent")
  /\ code' = [code EXCEPT ![k] = status]
  /\ form' = [form EXCEPT !.at = "written", !.saved = k]
  /\ UNCHANGED <<pageVars, selected, sending, codeFaults>>

SaveAnswered(r) ==
  /\ form.at = "written" /\ form' = [form EXCEPT !.at = "listing"]
  /\ BeginRead(r, "form", form.filter)
  /\ UNCHANGED <<code, writes, filter, filters, due, codes, origin, missed, selected,
                 sending, codeFaults>>

\* normalizePromotionInput or the name of another code refuses it, or the request
\* fails before the row is written or after: the form stays as it was opened.
SaveFails ==
  /\ form.at \in {"saving", "written"} /\ CodeFault
  /\ form' = [form EXCEPT !.at = "open", !.saved = NoCode]
  /\ UNCHANGED <<code, writes, pageVars, selected, sending>>

\* Other staff write a code.
WriteElsewhere(k, status) ==
  /\ CodeWrite /\ status # code[k] /\ code' = [code EXCEPT ![k] = status]
  /\ UNCHANGED <<pageVars, selected, form, sending, codeFaults>>
-----------------------------------------------------------------------------
\* A code that is listed, or none.
SelectCode(k) ==
  /\ k \in codes \cup {NoCode} /\ k # selected /\ selected' = k
  /\ UNCHANGED <<code, writes, pageVars, form, sending, codeFaults>>

\* sendBulkEmail of the page.
PressCampaign ==
  /\ sending.at = "idle" /\ CodeWrite
  /\ sending' = [at |-> "asked", code |-> selected, filter |-> filter]
  /\ UNCHANGED <<code, pageVars, selected, form, codeFaults>>

\* getPromotionForCampaign.
Joinable(k) == k \in {NoCode} \cup {l \in Codes : code[l] = "active"}

CampaignJoins ==
  /\ sending.at = "asked" /\ Joinable(sending.code)
  /\ sending' = [sending EXCEPT !.at = "sent"]
  /\ UNCHANGED <<code, writes, pageVars, selected, form, codeFaults>>

\* The code is refused, or the request fails.
CampaignRefused ==
  /\ \/ sending.at = "asked" /\ ~Joinable(sending.code) /\ UNCHANGED codeFaults
     \/ sending.at \in {"asked", "sent"} /\ CodeFault
  /\ sending' = NoSending
  /\ UNCHANGED <<code, writes, pageVars, selected, form>>

\* The campaign is answered: the page forgets its code, and reads the list.
CampaignReported(r) ==
  /\ sending.at = "sent" /\ sending' = [sending EXCEPT !.at = "listing"]
  /\ selected' = NoCode /\ BeginRead(r, "campaign", sending.filter)
  /\ UNCHANGED <<code, writes, filter, filters, due, codes, origin, missed, form, codeFaults>>
-----------------------------------------------------------------------------
CodesNext ==
  \/ \E to \in Filters : ChangeFilter(to)
  \/ \E r \in ListReads : \/ TimerFires(r) \/ ReadCodes(r) \/ ShowCodes(r) \/ ReadFails(r)
                          \/ SaveAnswered(r) \/ CampaignReported(r)
  \/ \E k \in Codes \cup {NoCode} :
       SelectCode(k) \/ \E attach \in BOOLEAN : OpenForm(k, attach)
  \/ \E k \in Codes, status \in Statuses \ {"absent"} :
       WriteCode(k, status) \/ WriteElsewhere(k, status)
  \/ CloseForm \/ SubmitForm \/ SaveFails
  \/ PressCampaign \/ CampaignJoins \/ CampaignRefused

CodesSpec == CodesInit /\ [][CodesNext]_codeVars
-----------------------------------------------------------------------------
CodesTypeOK ==
  /\ code \in [Codes -> Statuses] /\ writes \in 0..MaxCodeWrites
  /\ filter \in Filters /\ filters \in 0..MaxFilters /\ due \in BOOLEAN
  /\ listRead \in [ListReads -> [at : {"idle", "sent", "read"}, filter : Filters,
       rows : SUBSET Codes, by : ReadersOfCodes, last : BOOLEAN]]
  /\ codes \subseteq Codes /\ selected \in Codes \cup {NoCode}
  /\ form \in [at : {"closed", "open", "saving", "written", "listing"},
               code : Codes \cup {NoCode}, saved : Codes \cup {NoCode},
               attach : BOOLEAN, filter : Filters]
  /\ sending \in [at : {"idle", "asked", "sent", "listing"}, code : Codes \cup {NoCode},
                  filter : Filters]
  /\ origin \in [filter : Filters, by : ReadersOfCodes] /\ missed \in BOOLEAN
  /\ codeFaults \in 0..MaxCodeFaults

\* When nothing is under way, the list was read with the filter the page shows,
\* unless its newest read failed or was overtaken, or it was read for a code or a
\* campaign whose button was pressed under another filter; and the code that the
\* next campaign will join is on the list, with the same exceptions.
PageIsCurrent ==
  ~due /\ (\A r \in ListReads : listRead[r].at = "idle") /\ ~missed =>
    /\ origin.by = "timer" => origin.filter = filter
    /\ origin.by # "form" => selected \in codes \cup {NoCode}
=============================================================================
