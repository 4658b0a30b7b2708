--------------------------- MODULE RestaurantSettings ---------------------------
(***************************************************************************)
(* The settings document of a restaurant (admin-settings.service.ts,       *)
(* admin-menu-catalog.service.ts) and the Redis cache in front of its      *)
(* public readers (public-config.service.ts, redis.service.ts).            *)
(*                                                                         *)
(* An editor reads the row, changes its parts of one JSON column, writes   *)
(* the whole column back and deletes the cached copies, without a          *)
(* transaction.  A reader that misses the cache loads the row and stores   *)
(* what it has loaded, however long ago.  Redis may fail: the call is then *)
(* skipped.                                                                *)
(*                                                                         *)
(* A part is abstracted to the number of edits it holds.                   *)
(***************************************************************************)
EXTENDS Naturals

CONSTANTS
  Editors,     \* calls of the back office that may run at once
  Readers,     \* cache fills that may run at once
  MaxEdits,    \* edits begun; bounds the model
  MaxOutages   \* failed calls of Redis and calls that stop; bounds the model

ASSUME SettingsConstants == MaxEdits \in Nat /\ MaxOutages \in Nat

\* The parts of the orderingSettings column, and the branding column; "orders"
\* stands for categoryOrder and productOrderByCategory.
OrderingParts == {"menuCatalog", "orders", "printerSettings", "storefrontAnnouncement"}
Parts == OrderingParts \cup {"branding"}

\* What each operation changes, and whether it drops the cached catalogue too.
Operations ==
  { [changes |-> {"menuCatalog"},            catalogue |-> TRUE],
    [changes |-> {"orders"},                 catalogue |-> TRUE],
    [changes |-> {"menuCatalog", "orders"},  catalogue |-> TRUE],
    [changes |-> {"printerSettings"},        catalogue |-> FALSE],
    [changes |-> {"storefrontAnnouncement"}, catalogue |-> FALSE],
    [changes |-> {"branding"},               catalogue |-> FALSE] }

Column(p) == IF p = "branding" THEN {"branding"} ELSE OrderingParts

Keys == {"menu-catalog", "restaurant-config"}

\* What a cached copy shows.
Shows(k) == IF k = "menu-catalog" THEN {"menuCatalog"} ELSE Parts

VARIABLES
  settings,    \* the row: edits held by each part
  edits,       \* edits acknowledged or written for each part
  editor,      \* the call each editor is running
  begun,       \* edits begun
  cache,       \* Redis
  fill,        \* the fill each reader is running
  outages,
  overlapped   \* history: columns that two calls edited at once

settingsVars == <<settings, edits, editor, begun, cache, fill, outages, overlapped>>

Absent == [there |-> FALSE, copy |-> [p \in Parts |-> 0], expires |-> FALSE]
NoEdit == [at |-> "idle", changes |-> {}, catalogue |-> FALSE,
           read |-> [p \in Parts |-> 0]]
NoFill == [at |-> "idle", key |-> "menu-catalog", read |-> [p \in Parts |-> 0]]

SettingsInit ==
  /\ settings = [p \in Parts |-> 0] /\ edits = [p \in Parts |-> 0]
  /\ editor = [e \in Editors |-> NoEdit] /\ begun = 0
  /\ cache = [k \in Keys |-> Absent] /\ fill = [r \in Readers |-> NoFill]
  /\ outages = 0 /\ overlapped = {}

Outage == outages < MaxOutages /\ outages' = outages + 1

Editing(column) == \E e \in Editors :
  editor[e].at = "read" /\ editor[e].changes \subseteq column
-----------------------------------------------------------------------------
\* The row is read; what is not found or not valid ends the call here.
BeginEdit(e, op) ==
  /\ editor[e] = NoEdit /\ e = (CHOOSE f \in Editors : editor[f] = NoEdit)
  /\ begun < MaxEdits /\ begun' = begun + 1
  /\ editor' = [editor EXCEPT ![e] = [at |-> "read", changes |-> op.changes,
                                      catalogue |-> op.catalogue, read |-> settings]]
  /\ overlapped' = overlapped \cup
       UNION {Column(p) : p \in {q \in op.changes : Editing(Column(q))}}
  /\ UNCHANGED <<settings, edits, cache, fill, outages>>

\* Mutant of Written: only the parts that are edited are written back.
WrittenAlone(row, call, p) ==
  IF p \in call.changes THEN call.read[p] + 1
  ELSE IF call.changes \subseteq Column(p) THEN 0 ELSE row[p]

\* What a call leaves in part p: the whole column is written back.
Written(row, call, p) ==
  IF p \in call.changes THEN call.read[p] + 1
  ELSE IF call.changes \subseteq Column(p) THEN call.read[p] ELSE row[p]

WriteEdit(e) ==
  /\ editor[e].at = "read"
  /\ settings' = [p \in Parts |-> Written(settings, editor[e], p)]
  /\ edits' = [p \in Parts |-> edits[p] + IF p \in editor[e].changes THEN 1 ELSE 0]
  /\ editor' = [editor EXCEPT ![e].at = "written"]
  /\ UNCHANGED <<begun, cache, fill, outages, overlapped>>

\* invalidateRestaurantConfigCache or invalidateMenuCatalogCache.
Invalidate(e) ==
  /\ editor[e].at = "written"
  /\ \/ /\ cache' = [k \in Keys |-> IF k = "restaurant-config" \/ editor[e].catalogue
                                    THEN Absent ELSE cache[k]]
        /\ UNCHANGED outages
     \/ Outage /\ UNCHANGED cache
  /\ editor' = [editor EXCEPT ![e] = NoEdit]
  /\ UNCHANGED <<settings, edits, begun, fill, overlapped>>

\* The call fails before it writes: bad input, or the database.
EditFails(e) ==
  /\ editor[e].at = "read"
  /\ editor' = [editor EXCEPT ![e] = NoEdit]
  /\ UNCHANGED <<settings, edits, begun, cache, fill, outages, overlapped>>
-----------------------------------------------------------------------------
\* getMenuCatalog or getRestaurantConfig finds nothing, or cannot read.
Miss(r, k) ==
  /\ fill[r] = NoFill
  /\ \/ ~cache[k].there /\ UNCHANGED outages
     \/ Outage
  /\ fill' = [fill EXCEPT ![r].at = "missed", ![r].key = k]
  /\ UNCHANGED <<settings, edits, editor, begun, cache, overlapped>>

Load(r) ==
  /\ fill[r].at = "missed"
  /\ fill' = [fill EXCEPT ![r].at = "loaded", ![r].read = settings]
  /\ UNCHANGED <<settings, edits, editor, begun, cache, outages, overlapped>>

\* Mutant of Copy: the copy is stored without a time to live.
CopyForGood(row) == [there |-> TRUE, copy |-> row, expires |-> FALSE]

Copy(row) == [there |-> TRUE, copy |-> row, expires |-> TRUE]

Store(r) ==
  /\ fill[r].at = "loaded"
  /\ \/ /\ cache' = [cache EXCEPT ![fill[r].key] = Copy(fill[r].read)]
        /\ UNCHANGED outages
     \/ Outage /\ UNCHANGED cache
  /\ fill' = [fill EXCEPT ![r] = NoFill]
  /\ UNCHANGED <<settings, edits, editor, begun, overlapped>>

\* The sixty seconds of a copy are over.
Expire(k) ==
  /\ cache[k].there /\ cache[k].expires
  /\ cache' = [cache EXCEPT ![k] = Absent]
  /\ UNCHANGED <<settings, edits, editor, begun, fill, outages, overlapped>>
-----------------------------------------------------------------------------
SettingsNext ==
  \/ \E e \in Editors : \/ \E op \in Operations : BeginEdit(e, op)
                        \/ WriteEdit(e) \/ Invalidate(e) \/ EditFails(e)
  \/ \E r \in Readers : (\E k \in Keys : Miss(r, k)) \/ Load(r) \/ Store(r)
  \/ \E k \in Keys : Expire(k)

SettingsSpec == SettingsInit /\ [][SettingsNext]_settingsVars

\* Calls that have begun go on, and copies expire.
SettingsFairness ==
  /\ WF_settingsVars(\E e \in Editors : WriteEdit(e) \/ Invalidate(e))
  /\ WF_settingsVars(\E r \in Readers : Load(r) \/ Store(r))
  /\ \A k \in Keys : WF_settingsVars(Expire(k))

SettingsFairSpec == SettingsSpec /\ SettingsFairness
-----------------------------------------------------------------------------
Row == [Parts -> 0..MaxEdits]

SettingsTypeOK ==
  /\ settings \in Row /\ edits \in Row /\ begun \in 0..MaxEdits
  /\ editor \in [Editors -> [at : {"idle", "read", "written"}, changes : SUBSET Parts,
                             catalogue : BOOLEAN, read : Row]]
  /\ cache \in [Keys -> [there : BOOLEAN, copy : Row, expires : BOOLEAN]]
  /\ fill \in [Readers -> [at : {"idle", "missed", "loaded"}, key : Keys, read : Row]]
  /\ outages \in 0..MaxOutages /\ overlapped \subseteq Parts

\* No acknowledged edit of a column is lost unless two calls edited that column
\* at once: an operation hands on every part it does not change.  (Two editors
\* of one column do lose an edit.)
NoLostEdit == \A p \in Parts \ overlapped : settings[p] = edits[p]

\* Once the edits are over the storefront comes to see them, although a slow
\* fill may store an old copy after the invalidation, and invalidations fail.
CacheConverges ==
  <>[](\A k \in Keys : cache[k].there => \A p \in Shows(k) : cache[k].copy[p] = settings[p])
=============================================================================
