# Verification of À la Louche

TLA+ specifications of the À la Louche restaurant system, the TLC configurations
that check them on small instances, and proofs that TLAPS checks for every value
of the constants. Definitions are translated from the source; `PROJECT.json`
("map") gives the lines of each.

The project starts from the path on which a restaurant loses or doubles an order —
*order placed → alert on the terminal → confirmation → ticket* — that is the
terminal's receiver page (`src/sunmi/src`) and the two print queues of the Android
application around it (`src/native/android`), down to the calls to the printer. Around it
stand the parts of the back end that keep state (`src/backend/src`: pairing, checkout,
accounts, settings, rate limits, mail), the staff's operations app, the
marketing page of the web back office and the customers' mobile app.

## 1. Inventory

| component | where | state it keeps | operations | interacts with |
|---|---|---|---|---|
| native print queue | `native/android/.../nativeprint/` | table `native_print_jobs` (on disk); per manager: `draining` flag, single-thread executor | submit, retry, drain, dispatch, start-up reconciliation, release | bridge calls it; it calls the worker |
| native printer worker | `.../nativeprint/NativePrinterWorker.kt`, `OfficialLibraryPrinterProbe.kt`, `NativePrinterServiceConnector.kt` | one service connection per dispatch | dispatch one command on one of two printer paths | printer service and its callbacks |
| legacy print queue | `.../printservice/`, `SunmiPrinterManager.kt` | table `print_jobs` (on disk); per orchestrator: `draining`, executor; per process: `PRINT_IN_PROGRESS` | printReceipt, retryPrint, drain, print over AIDL | bridge; printer service |
| print bridge and activity | `SunmiJsBridge.kt`, `MainActivity.kt` | the current manager | JavaBridge thread runs one page call at a time; the activity is recreated | both queues |
| receiver session | `sunmi/src/main.js`, `services/` | mode, token, polls in flight | boot, validate, pair, unpair, poll, expire | back end; alerts |
| attention alerts | `sunmi/src/alerts/`, `main.js` | alert queue, seen records, beep loop, confirmation mark, settings | detect, enqueue, acknowledge, remove, reset, confirm, toggle | session; back end |
| receiver print tracking | `sunmi/src/main.js`, `boundaries/` | what the page believes of each print job | dispatch, poll status, retry, reconcile at boot | native queue |
| device pairing | `backend/src/device-pairing/` | codes, requests, devices, token hashes | create, request, confirm, verify, revoke | session |
| orders, promotions | `backend/src/orders/`, `admin/admin-marketing.service.ts` | orders, promotion counters | place, list, change status; create, change codes | storefront, terminal, staff |
| reservations | `backend/src/reservations/` | reservations | place, change status, civil time to instant | storefront, terminal |
| customer accounts | `backend/src/auth/` | customers, sessions, verification and reset links | sign-up, verify, reset, update, delete | storefront, staff |
| settings and catalogue | `backend/src/admin/`, `public-config/` | one `orderingSettings` document, its cached copies | read-modify-write, invalidate, read through the cache | back office, storefront |
| redis, rate limiting | `backend/src/redis/` | counters with expiry | consume | every public endpoint |
| notifications, marketing | `backend/src/notifications/`, `frontend/.../AdminMarketing.jsx` | connections; the page's lists, selection and form | publish, mail a link, mail a campaign, manage codes | orders, reservations, accounts |
| operations app | `operations-app/App.js` | session, lists shown | log in and out, refresh, act | orders, reservations |
| customer mobile app | `mobile/src/` | session on the screen, in AsyncStorage and at OneSignal; cart, promotion, checkout | log in and out, edit, delete; fill the cart, preview, order | accounts, orders |
| tenants, admin API plumbing, media, analytics, other web pages, schema, seeds, deployment | see `PROJECT.json` | views, I/O or declarations | | |

What is hard in each, and what makes it correct:

* **Print queues and transports.** Three kinds of thread (executor, JavaBridge, UI), a
  flag that suppresses wake-ups, separate database statements, paper that comes
  out before the row is written, a printer service that throws, disconnects or
  reports late, crashes at any point, and managers that survive their activity.
  Correct: no wake-up is lost; no row is left in execution without an executor;
  one clean print per request; a report that never says "nothing attempted" about
  paper that is out; one ticket at a time.
* **Receiver session, alerts, tracking.** Every request is awaited and its answer is
  handled in whatever state the page has reached; sessions end in many ways while
  requests are in flight; one confirmation mark stands for successive alerts;
  what the page knows of a ticket survives reloads and reprints. Correct: first in, first
  out, no record twice, none lost while open; the beep exactly while there is
  something to announce; the button comes back; every arrival is announced; an alarm of the
  printer is true and comes to be shown.
* **Device pairing.** Handlers of several statements without a transaction,
  verification that gives the token once, a page that cancels and times out.
  Correct: no token without an approval; a revoked device stays revoked; one
  active device per installation; no dialogue hangs.
* **Orders and promotions.** Check-then-act on limits; arithmetic at zero;
  unconditional writes. Correct: limits hold, or are overrun by a known amount; the total is
  subtotal − discount + delivery; a preparation time is not lost.
* **Accounts, settings, rate limits.** Concurrent read-modify-write, cache
  fills that outlive an invalidation, two commands where one is needed. Correct:
  no lost edit, the cache converges, a refused client is let in again, nothing
  personal is left after a deletion, a reset link works once.
* **Mail and marketing.** A dialogue with a server that may stop at any line, mails built
  from rows that change meanwhile, an audience read twice, lists read under a
  filter of some time ago. Correct: a caller gets its answer; a mail logged as sent was taken;
  a campaign reaches those it promised; what a page shows is what it was asked for.
* **Customers' app.** A session in three places that are written one after the other by
  callers who do not wait for each other; previews and orders answered when the cart or the
  screen is another. Correct: the three places agree in the end; what is ordered is
  what was shown.

The concrete list, with lines, is `PROJECT.json` "hazards".

## 2. Plan and state

| order | module | what | state |
|---|---|---|---|
| 1 | `PrintCommandLifecycle` | abstract life of one print command | done |
| 2 | `NativePrintQueue`, `…Proofs` | the native queue, implementing 1 | done, proved |
| 3 | `LegacyPrintQueue`, `…Proofs` | the older queue with conditional updates | done, proved |
| 4 | `AttentionQueue` | abstract alert queue | done |
| 5 | `AttentionAlerts`, `SequenceFilter`, `…Proofs` | session, polls, alerts, confirmation, implementing 4 | done, proved |
| 6 | `DevicePairing`, `TerminalProofs` | codes, requests, devices statement by statement, with the dialogue of the page | done, proved |
| 7 | `PrintTracking`, `TerminalProofs` | the page's beliefs over 1 | done, proved |
| 8 | `StorefrontOrders`, `…Proofs` | promotions under concurrent checkouts, amounts | done, proved |
| 9 | `RestaurantSettings`, `BackOfficeProofs`; `RateLimitWindow`; `CustomerAccounts`, `…Proofs` | read-modify-write, cache, two commands | done, proved |
| 10 | `DispatchReports`, `PrinterTransport` (proofs with 2); `ReceiptTransport` (proofs with 3) | what happens under the two queues, call by call | done, proved |
| 11 | `MailDelivery`, `BackOfficeProofs`; `OrderMails`, `OfficeProofs` | the SMTP dialogue; which mails a change causes and what they tell | done, proved |
| 12 | `OrderDesk`, `BackOfficeProofs` | the staff's lists | done, types proved |
| 13 | `MarketingCampaign`, `PromotionCodes`, `OfficeProofs` | the marketing page | done, proved |
| 14 | menu editor and its images (`AdminDashboard.jsx`, `admin-media-storage.service.ts`) | an image whose item goes, an item whose image fails | left |
| 15 | `CustomerSession`, `CustomerCart`, proofs in `OfficeProofs` | the copies of the session; from the cart to the order | done, proved |

Theorems left: none for a safety property of the passing runs. Liveness stays with TLC; lemmas
that would sharpen the theorems further (what `CopiesConverge` rests on, for one) come with the next
component, 14.

## 3. The modules and the code

`MC` modules put components next to each other that share no state. Such a run has
a variable `focus`, chosen in the initial state, and a behaviour takes the steps of that
component only: each is explored with its own bounds, and the interleavings of components
that cannot see each other are not. The components that do interact are composed in the
modules themselves: the page with the pairing handlers (`DevicePairing`), the page with the life cycle
that the native queue implements (`PrintTracking`), editors with cache and readers,
staff with checkouts, the app with its lists. For each `MC` specification a lemma of the proofs
(`NativeParts`, `LegacyParts`, `TerminalParts`, `BackOfficeParts`, `OfficeParts`) shows that its behaviours are behaviours of
each of its parts, so that what is proved of the parts holds of it too.

### NativePrintQueue

| model | code |
|---|---|
| `job` | the rows of `native_print_jobs`: state, attempts, retryable, `next_attempt_at_ms` |
| `draining`, `pending`, `pc`, `cmd`, `row` (per manager) | the `AtomicBoolean`, the task waiting in the executor, the executor thread with its local row |
| `bridge` | the JavaBridge thread inside `submitPrintCommand` or `retry` |
| `recon`, `snap` | `reconcileUnfinishedOnStartup` and the rows it has read |
| `cur`, `up` | the manager behind the page; the process |
| `printed` | history: clean prints since the operator last asked (capped at 2) |

One action is one database statement or one atomic operation, so that two
threads interleave as in the code: `PickJob` (read), `MarkDispatching` (write),
`Dispatch` (paper), `PersistResult` (write), `FinishDrain` (flag), `Recheck`,
`Reschedule`; `RetryRead`, `RetryWrite`, `BridgeSchedule`; `ConstructManager`
and `ReconcileJob`, `ReconcileResume`. `Crash` can fall between any two;
`RecreateActivity` starts another manager beside a draining one, because
`release()` does not stop its executor. `Reports` is the set of results the
worker can return on each printer path (`DispatchReports`) and `Verdict`/`Outcome` the
`when` of the drain loop over them.

Abstractions: created_at is the submission order (no ties, no clock jumps); the
3 s back-off is "later" until `BackoffElapses`; a database exception on the
executor kills the process (`Crash`); an upgrade of the database, which drops
the table, is left out. Facts met on the way: `PRINTED_IF_CONFIRMABLE` is never
reached, because no printer confirms; on the official path `FAILED` is not
reached either and a callback error that comes after the 1 s wait is lost and
the command reported as accepted, which the model counts as clean because the
queue cannot tell; a retry after a callback error may bring out paper again,
which is why the promise is about *clean* prints.

### DispatchReports and PrinterTransport

`DispatchReports` names what a dispatch may tell the queue; both the queue and the
transport use it, and `TransportContract` is what joins them: every report the transport
ends with is among those the queue is checked against.

In `PrinterTransport` `at` is where the executor is between `dispatch` and its report,
`family` the service family it tries, `bound`, `live` and `ready` the connection, `todo`
and `legs` the calls that remain. A *plan* is the class of jobs that make the same calls
under one setting of the build's switches: 23 of them cover the strategies,
the test modes and the probes of both paths. An action is one bind, one callback or one call;
a call returns, throws, or reports an error later, and the service goes at any step.
What is drawn, the waits, and texts are left out.

### LegacyPrintQueue and ReceiptTransport

The queue has the same structure over `print_jobs`, where every write names the
state it expects (`Updates`, `CanTransition`): `LockJob`/`LockLost` are the two
outcomes of the locking update, `fresh` is a history variable (jobs queued in this
life of the process). The transport succeeds or fails nondeterministically, and an
attempt that fails may have brought its ticket out: `printed` counts the executions that
succeeded, `paper` the tickets. The model is of the devices on which `printReceipt` and `retryPrint` are not refused
by the V2s classification.

`ReceiptTransport` is what happens inside: `link` is the connection each manager keeps,
`receipt` the ticket its executor prints, `tool` a bridge call that uses the same
connection, `inProgress` and `crashSeen` the two statics of the process. Strategies are
told apart by the calls they make; a ticket is a list of legs, each a list of calls.

### AttentionAlerts and AttentionQueue

| model | code |
|---|---|
| `status`, `valid` | the server: each record, and the pairing it honours |
| `token`, `mode`, `ticking` | `tokenStore`, `state.mode`, `state.pairingInFlight` |
| `call` | submissions of a code, verifications, validations and unpairings in flight |
| `poll` | `receiverInFlight` and the answer of `loadOperationalData` |
| `view`, `seen`, `hydrated` | `state.orders`/`reservations`, the seen sets, the silent baseline |
| `active`, `pending` | `createAttentionAlertQueue` |
| `loop` | `createAttentionPlaybackController`: off, playing a cycle, in the silence |
| `busy`, `request` | `attentionConfirmation.inFlight`; status requests in flight |

One action is the code between two awaits. The server's half of a request is an
action of its own (`PollServed`, `RequestServed`), after which the answer waits
as long as it likes while anything else happens; a request can also be served
and its answer lost. `PollLoaded` is all of the success branch of
`refreshOperations`: detection, enqueue, `removeWhere`, the reset of the
confirmation. `Settle` is `activateNext` with the callbacks that start and stop
the beep. `EnterNotPaired` is the common end of a session; the list buttons end
it differently (`ListDenied`), as in the code.

The calls of the pairing dialogue (`Submit`, `PollPairing`) are answered in whatever mode the
page has reached, and the answers set the mode all the same (`StartPairing`, `PairingExpires`,
`Paired`): a dialogue that was cancelled can take a working terminal off the receiver screen, or leave a
token behind the pairing screen. "Désassocier" waits for its answer while the page goes on
(`Unpair`, `UnpairServed`, `Unpaired`).

Abstractions: a record is absent, open or handled; the two lists of a poll are
one snapshot; a validation is answered together with the server's evaluation; the server's
side of a pairing is one step (`PairingServed`), and that the pairing poll runs while the page waits
is taken from `DevicePairing`, where the dialogue is in full. A request of a page that has died and is served
later is `HandledElsewhere`; generations of the beep loop are not kept, because a
stale callback does nothing. The branch of `confirmIncomingAttention` for a record
already shown as handled is left out: `ShownAlertIsOpen` shows that it is never taken.
The ticket printed after a confirmation is in `PrintTracking`. `Array.filter` is `Filter` of
`SequenceFilter`, with the condition as the set of the records that meet it.

`AttentionQueue` knows none of this: records are found, some raise alerts, in
order, once; an alert goes only when its record has been handled or the session
is over.

### DevicePairing

`code`, `request`, `device` and `hash` are the three tables (a device is named by its
request, whose identifier is unique in the device table), `task[h]` an administrator's
`confirmRequest` or revocation between two statements, `call[v]` a verification on
its way, on the server or on its way back, `submit[r]` the page's submission, `page`
the dialogue with its poll and its ten-minute timer, `token` the `tokenStore`, `checks` the
validations in flight. One action is one statement of a handler (`ReadCode`,
`ExpireCode`, `CreateRequest`; `ConfirmBegin`, `ListDevices`, `RevokeRow`, `RevokeItsRequest`,
`CreateDevice`, `ConfirmRow`, `ConfirmCode`; `VerifyRead`, `VerifyStore`,
`VerifyFinish`) or one handler of the page; `HandlerStops`, `VerifyStops` and `VerifyLost` are
failures in between, `Reload` a death of the page. `mishap` remembers that handlers overlapped
or one stopped: `OneActiveDevice` is promised without one and is false with one.

Abstractions: the terminals share one installation identifier (others do not meet);
time stamps of the last contact are left out.

### PrintTracking

`command`, `attempts` and `printed` are the print service, moved by the actions of
`PrintCommandLifecycle`; `tracked` is `printJobsByOrderId`. A handler of the page runs in one
go up to the poll of the statuses (`DispatchTicket`, `RetryTicket`, then
`PollStatuses`), with the service moving on between. `ReloadPage`, `BootValidated`,
`Reconcile` are the boot; every change is in the local storage at once. A session that ends empties the lists
(`SessionEnds`), but a refused list button leaves them as they are (`ReceiverLeft`).
`inherited` remembers orders whose reprint kept the state of the earlier ticket, on which
`AttentionIsTrue` is silent. A ticket is dispatched when an order was confirmed and on a reprint. The former is
refused for fifteen seconds after the last, the latter never, and both do the same: one action
stands for both. The ticket of a reservation (`PrintReservation`) is a command no entry tracks.

### RestaurantSettings

`settings` is the row, as the number of edits each *part* of the document holds;
`editor[e]` a handler between its read and its write, `cache` the two Redis keys,
`fill[r]` a public read between its load and its store. `Operations` lists
what each handler changes and whether it drops the cached catalogue too; every handler writes the
whole column of what it read. `overlapped` remembers the columns that two calls edited at once.

### StorefrontOrders

`checkout[c]` is one `createStorefrontOrder`: it reads the promotion, counts by
account and address (`CountByAccount`), then by telephone (`CountByPhone`), prices the basket,
and writes order and counter (`CreateOrder`, the transaction). `UpdatePromotion` is the
staff's. `Discount`, `Charged` and `Fee` are the arithmetic, `|| subtotal` included.

Abstractions: one promotion; orders that used it are a bag of customers; a limit of 0 is none;
fewer than 500 orders use it (the telephone search stops there); amounts are whole.

### RateLimitWindow

`Count` is INCR and `SetExpiry` the EXPIRE of the call that counted one, two commands; `RedisFails`
falls before either, and the call goes through.

### CustomerAccounts

Every operation is a read with its checks (`Begin…`) and a later write (`Finish…`) that
does not look again. `row` keeps whether it is active or deleted, the address, whether
anything personal is left, and the two links; `resetBy` is a history of each link's uses.
Links expire only by not being used; log-in checks, hashing and signing are left out.

### MailDelivery

`send[e]` is the client's side of a connection (`at`, and the line it has reached),
`server[e]` the server's. `Publish` begins the mails of an event; `SendVerification` and
`SendReset` begin the one mail of a link. The server takes a line, refuses it, is silent, closes or
breaks the connection; the waits have time-outs. An error event without a listener ends the process
(`WriteLost`, `AbandonedFails`). Line contents are left out.

### OrderMails

`row` is one order or reservation as the list of its writes (status, preparation time — 0 for
none —, and the write that was read before it), `change[c]` a request between read, write, the
mails and the answer. A mail is a record of what it is about, what it tells, and the
text (`OrderText`, `ReservationText`): the status it says, the preparation time, and
whether the hour is of its change or of the row. Layout and wording are left out.

### OrderDesk

`item` is the rows (number of edits, hidden), `session`, `stored`, `entering`, `leaving` the log-in of
the app, `refresh[f]` a refresh with the session it captured and the list it has read, `shown` what the
screen shows. The two lists are read by two requests. Fewer than 200 rows are visible.

### MarketingCampaign and PromotionCodes

`listed`, `excluded` and `loading` are the audience of the page, `press[p]` one press of the
button from the page through the server's own read of the customers to the last
mail; `consent` changes meanwhile. The text of a campaign is its number; the provider
is configured; there are fewer than 5000 customers; a request that only counts the audience is left out.

`code` is the status of each code, `filter` stands for filter and search, `listRead` the
reads in flight, each with the filter it was made with, `codes` and `selected` what the page
shows and will join, `form` and `sending` the form's and the campaign's requests.
`origin` and `missed` are histories of the list shown.

### CustomerSession and CustomerCart

`signedIn` is the state of `AuthContext`, `inStore` the copy in AsyncStorage, `pushTo` the identity
OneSignal has. `persist` is cut at its waits: `Persist` (state, request to the store), `StoreDone` or
`StoreFails`, `PersistEnds` (identity); `saves` and `tells` are the calls at each wait. A login, a profile
or a deletion is asked for, served and answered in three actions, and `AppRestart` falls
anywhere. A session is its customer and how often its profile was edited; AsyncStorage keeps the
order of its requests and the app is the native build with OneSignal, which keeps its identity.

`cart` is the lines of `CartContext`, `applied` the promotion of `CartScreen` with the cart it was priced
for, `previews` the carts of the requests in flight, `checkout` the screen with the parameters it was opened
with, `orders` the orders sent. The touches go to the screen on top; `late` marks a
promotion whose preview the cart had overtaken. Every product costs 1 and there is
one delivery zone with a minimum.

## 4. The runs

| run | instance | shows |
|---|---|---|
| `nq_single` | 3 commands, 1 manager, 3 attempts, official path | types and budget; one clean print per request; implements the life cycle; every waiting command is served |
| `nq_recreate` | queue: 2 commands, 2 managers, 2 attempts, legacy path; transport: 23 plans, 2 families, 2 upsets | no lost wake-up and ownership while an old manager drains beside a new one; what a dispatch reports is true, and no connection is left |
| `lq_managers` | queue: 2 jobs, 2 managers, 3 attempts; transport: 2 managers, strategies mixed, chunks, test and parity, 1 upset | one executor and one successful execution per request, no more tickets than counted attempts (`PrintsAreCounted`), fresh jobs are seen; one ticket at a time, and when the flag may be left set |
| `aa_alerts` | 2 orders, 2 pairings, 2 calls besides the poll of the lists | implements `AttentionQueue`; beep ⇔ alert that may sound; the alert shown is open; the mark has a request behind it |
| `aa_live` | 2 reservations, 1 pairing, 1 call besides the poll | arrivals are announced and handled alerts go (`AlertsFollow`); confirmations end |
| `terminal` | pairing: 1 code, 2 requests, 1 handler, 1 verification, 2 tokens, 1 fault; tracking: 2 orders, 2 jobs, 2 attempts, 1 fault | tokens need an approval, revocations are final, one active device, waits are timed; alarms are true; both dialogues advance (`DialoguesAdvance`: a pairing ends, an alarm is shown) |
| `backoffice` | settings: 2 editors, 1 reader, 2 edits, 1 outage; 2 checkouts, 3 customers, 2 baskets, 2 promotions, 3 redemptions; 2 callers, limit 2; 1 account, 2 addresses, 2 calls, 2 links; 1 event, 2 mails, 2 breaks; 1 list, 2 refreshes, 2 sessions | no lost edit; limits and amounts; deletions and links; mails; `CopiesConverge` (cache and lists) and `WaitsEnd` (blocked clients and mail) |
| `office` | 2 customers, 2 presses, 1 change, 1 fault; 1 code, 2 filters, 2 reads, 2 writes, 1 fault; 3 changes of a row, 1 fault; 2 customers, 2 login screens, 2 logins, 2 persists, 1 fault; 1 product up to 3, minimum 2, 2 orders, 2 previews | campaigns reach their audience and repeat only after errors; the page of codes is current; mails match their changes and preparation times are kept (`ChangesKept`); the app's copies of the session agree and it orders what it showed (`AppKept`) |
| `nq_backoff`, `nq_owner`, `lq_stuck`, `aa_double` | smallest that fail | section 6 |

*Bounds.* The queues take one job at a time in order, so two jobs show a job in
execution and one waiting, and a third one that arrives while the queue looks
again; two managers are what a recreated activity leaves, and three attempts are
the code's `DEFAULT_MAX_ATTEMPTS` (see section 6 for this build). The connector tries
four families one after another with the same steps: two show a failure, a success and
the going on between. For the alerts two records give one on the
screen and one pending, two pairings an old session and a new one with an old
answer between them, and two calls a late answer and a fresh one, of whatever kinds:
`MaxRequests` bounds the submissions, verifications, validations, unpairings and status requests
outstanding together, while the poll of the lists is beside them. With the one call of `aa_live` they do not overlap
each other, only the poll. Two requests of
pairing are an old device and its successor. Two editors, checkouts, calls, refreshes and
reads are one that overtakes and one that is overtaken; three customers are an
account, a guest with its address and a guest with its telephone; three changes are a creation and
two that overlap. The `Max…` constants bound the exploration
only; the proofs hold for every value.

Deadlock is checked except in `terminal`, `backoffice` and `office`, where the bounded
work really ends (every edit made, the process dead, the last mail sent) and nothing
else is left to do.

*Mutants.* Each property of a passing run is violated by a named mutant of a
definition, placed before it in the module (for example `RecheckNothing`: the
look after the flag is cleared is dropped; `ConfirmSkips`: an acknowledgement
does not compare the key). A property that joins two has a mutant for each half.

## 5. Fairness

* Queues: the executor, JavaBridge and UI threads run what they were given, a
  dispatch returns (its waits have time-outs), time passes and the terminal is
  started again after a crash. Nobody is obliged to press a button.
* Page: polls are sent every few seconds and requests are answered or fail; `fetch`
  itself has no time-out, so this rests on the browser's limits.
* `PairingFairness`: submissions and validations are answered or fail, the ten-minute timer fires.
  Verifications may stay unanswered for ever and no administrator need confirm.
* `TrackingFairness`: the poll timer runs while the receiver is loaded.
* `SettingsFairness`, `LimitFairness`: calls that have begun go on; keys with a time to live expire.
* `MailFairness`: what the client waits for comes or the socket's timer of fifteen seconds fires; the server owes
  nothing. That timer is one of inactivity: a server that sends a little within every fifteen seconds and never ends its
  line is outside the model.
* `DeskFairness`: the five-second timer runs and requests that are not lost are answered.

The disturbances (crashes, recreated activities, operator retries; failing polls,
page deaths, revocations, settings; outages and lost answers) are assumed to stop at
some time: a process that dies again and again prints nothing. Arrivals, confirmations,
failing status requests and everything else go on for ever in the alerts; in the
bounded modules the bounds say when they end.

## 6. What was found

Where the code and the repository's own words differ:

* `nq_backoff` — a backed-off automatic retry is never resumed by itself
  ("`QUEUED` jobs are resumed", NATIVE_PRINT_SERVICE_DECISION.md:14): the drain
  ends before the delay has passed and nothing wakes it.
* `nq_owner` — two executors can execute one command after the activity is
  recreated ("Deterministic single-thread queue drain", same file :10).
* `lq_stuck` — a legacy job that a crash left PRINTING stays so ("never shown as
  ambiguous (e.g., spinner forever)", dedicated-print-service-architecture.md:18).
* `aa_double` — the late answer for an alert that a poll has removed enables the
  button of the next alert while its confirmation is in flight ("disables
  confirmation in flight", incomingItemModal.test.js:32).

Facts that bound what the properties can say; the exceptions in their statements name them:

* *Printing.* The legacy queue's `canRetry` gives up one attempt before the budget is used. With
  `DEBUG_SINGLE_ATTEMPT_MODE` set, as in this build, `DEFAULT_MAX_ATTEMPTS` is 1; the
  runs use 3. A job refused for its content returns between the
  compare-and-set of `PRINT_IN_PROGRESS` and the block that clears it, and the later
  tickets of the process are answered `SUNMI_PRINT_BUSY`. The printer tools of the page use the
  printer without that flag. `release()` leaves the executor, which may bind again. A failed
  image leg ends in `INVALID_OUTPUT_STRATEGY` although the log speaks of a fall-back to
  text. A buffered leg that throws leaves the printer in buffer mode. The parity mode does not
  look at callback errors, and the test modes print a sample and accept the ticket. An execution that ends in an
  error of the service reported late, or throws, may have brought its ticket out, and the legacy queue tries it again: what it
  promises is one success, and, with at most three attempts, no more tickets than its row counts attempts (with more, a
  manager that read the row earlier could put a lower count back). In the
  native worker a failure reported after the body is out makes the queue or the operator
  print again, the robust strategy prints twice when it falls back past a commit,
  probes and diagnostics accept a command without printing it, and a late error of the official path
  gives a report that is accepted and retryable at once.
* *Pairing.* Late answers of a dialogue are applied in whatever mode the page is: that of a submission, or an
  "expired", takes a terminal at work off the receiver screen and leaves its token stored; that of a verification replaces the
  token. With handlers that overlap or stop half-way two devices of one installation can be
  active; a verification whose answer is lost has lost the token, and the page's dialogue
  ends by its timer.
* *Back end.* Two editors of one column lose an edit. The usage limit of a promotion can be
  overrun by the checkouts that run at once, less one. A discount of the whole subtotal is not deducted from the
  total (`|| subtotalAmount`). A call that read an account before its deletion can write into it again, and
  two resets with one link can both succeed. A window whose EXPIRE failed blocks its client until the key is removed.
* *Mail.* A connection given up while it opens keeps its socket without a listener, whose late error ends
  the process. A mail the server took may be logged as failed. A mail is built from the row of its
  turn: the mail of an acceptance may say "ready", and the hour of a change may stand beside a later status;
  mails of two changes arrive in any order. A request that fails after its write has mailed nobody.
  A change that read the order before another wrote puts the old preparation time back.
* *Marketing.* A press that failed half-way leaves its text on the page, and the next press mails everyone again. A failed
  reload keeps the old audience with the exclusions cleared. The list read after a save uses the filter there was
  when the button was pressed; a code attached on save may not be on the list shown. A code joined to a
  campaign is validated and echoed, but not put in the mail.
* *Customers' app.* A profile saved before a logout and answered after it signs the customer in again. A preview
  answered late is applied to the changed cart and shown with it (the server prices the order anew). An order
  answered after its screen was left clears the cart there is by then and closes the checkout
  that is open. An app closed between the store and OneSignal starts with a session whose customer
  OneSignal has not been told of, until the next login, logout or saved profile. Nothing calls `refreshProfile`, which is left out.

Some hazards of the list are covered in part, because the code does what a full property would forbid and nothing
in the repository says otherwise. The exceptions are these, each written in the property it belongs to:

| property | catches | leaves out |
|---|---|---|
| `RevocationFinal` | a revocation undone by anything that reads after it | one between the read and the write of a verification |
| `OneActiveDevice` | confirmations one after the other | two at once, or one that stops half-way |
| `OrderTotals` | wrong discounts, fees and amounts | a discount of the whole subtotal |
| `WaitsEnd` | blocked callers, slow or broken mail servers | a window whose EXPIRE failed; a server that dribbles |
| `NoLostEdit` | a handler that forgets a part | two that edit one column at once |
| `AccountsKept` | changes and resets after a deletion or a use | those that had read the row before |
| `AttentionIsTrue` | alarms without a cause | orders reprinted over an old state |
| `PageIsCurrent` | a selection that outlives its list, a timer not armed | overtaken reads; a list read with an earlier render's filter |
| `ChangesKept` | mails that tell another change, times lost by a change that read the row as it was | an overwrite from a stale read |
| `AppKept` | totals and carts other than shown, copies that differ | a preview applied to another cart |

## 7. What is proved

All theorems hold for every value of the constants, under the assumptions named
in the modules (`CommandsAssumption` … `RequestsAssumption`, and one `…Constants` for each module of the
terminal, the back end and the office): finite counts are natural numbers, at least one
attempt, the null values are not members, and the shape of what staff may enter. The records of a
poll (`RecordsAssumption`) and the customers of a campaign (`CampaignConstants`, fewer than 5000) are finite
sets, because the code walks through them as lists. Every safety property of the passing runs is stated by a theorem.

| theorem | argument |
|---|---|
| native `TypeCorrect` | `BaseInv`: types, what each thread holds between its steps (`LocalsInv`), and that a queued row, on disk or in a thread, has an attempt left (`BudgetInv`); the last is what keeps `attempts` within its type |
| native `WakeupSafe` | `FlagInv`: the flag is set exactly while a task waits or runs up to the finally block. When `scheduleDrain` is suppressed the flag is set, so a task has yet to look |
| native `OwnedDispatch` | DISPATCHING is written only by a thread that goes on to write the result, or is found by a reconciliation that holds it in `snap` |
| native `PrintedOnce`, `QueueImplementsLifecycle` | for one manager. `StillInv`: nothing moves while the reconciliation works on its snapshot; `HoldInv`: the row a thread holds is in the state it believes; `PaperInv`: how often it has been printed at each point. Every step then maps to a step of the life cycle or a stutter |
| `TransportKeepsContract` | `TransportInv`: where the dispatch stands (`PhaseInv`) and whether it holds a connection (`BoundInv`) agree; until a run ends something is on the paper or a call that remains puts it there (`LegsInv`), so a report that accepts speaks of paper unless the plan only probes, and one of nothing attempted of none (`ReportInv`). The legs of a plan are sequences built by concatenation; `Pieces` and `PrintsConcat` say which of them print |
| legacy `TypeCorrect`, `Exclusive`, `PrintsCounted` | for any number of managers: the conditional update to PRINTING gives one owner (`OneExecutor`), and with it the owner's copy is current (`BudgetInv`, `PaperInv`). `CountInv`: with three attempts a row that waits for a retry has had one, so a manager that locks it writes back a count that is not lower, and every ticket stays counted. This is what the native queue lacks, and why its `PrintedOnce` needs a single manager |
| `FreshSeen` | `WakeInv`, beside the above: the flag of a manager is set only while a drain of its own waits or runs, and a queued row waits for no time |
| `SoundFollowsAlert` | the property is inductive; its work is in `SettleKeepsSound`, `ResetKeepsSound` and `ToggleKeepsSound`, one lemma per way in which the alert, the loop or a switch changes |
| `ConfirmationAnswered` | `ConfirmInv`: a request keeps its kind until its answer is handled, and the handling clears the mark; other steps leave both alone or clear the mark |
| `TypesHold` | types, and no alert behind an empty screen: the alerts a poll raises are some order of a finite set (`PermutationType`, `BatchType`), and what a removal leaves is a sequence of records again, none twice (`FilterType`, `FilterDistinct`) |
| `ShownIsOpen` | `AlertInv`, a chain: an alert that waits is for a record seen in this session that the page shows open (`QueueInv`); what was seen exists for the server and in the answer under way (`SeenInv`); a request in flight is for such a record, and no later poll can raise its alert again (`RequestInv`) |
| `AlertsAreAQueue` | a refinement, from `AlertInv`: one lemma for each way the queue changes (found, acknowledged, removed by a poll, emptied) maps the step to one of `AttentionQueue` or a stutter |
| `PairingTyped` | `ShapeInv` goes with the types: a statement of a handler has the request or the device it works on |
| `TokensApproved` | `ApprovedInv`: whatever may lead to a token — a confirming handler, a confirmed request, a verification past its read — belongs to a request that was approved |
| `RevocationsFinal` | an action property. `KnownInv`: nothing is under way for a request that is not there; so once both rows are revoked and no handler is pending, every statement that could write either is disabled by its read (`RevokedStep`) |
| `WaitsTimed` | every step that enters the waiting mode starts both timers and every step that stops them leaves it |
| `OneDevice` | without a mishap at most one handler runs (`SoloInv`), and what it still has to do covers every other active device (`ActiveInv`) |
| `OrdersTyped`, `AmountsAgree` | `DiscountBounded`, and `PricedInv`: what is priced already agrees, so that the transaction only copies it |
| `OverrunsBounded` | `LimitInv` counts the uses *and* the checkouts that have passed the limit and not yet used it: together they stay below the limit plus the slots |
| `UsesOncePerCustomer` | `OnceInv`: while no counts have raced, checkouts past their first count belong to different customers, whose account, address and, after the second count, telephone have not used the promotion. `PromotionIsKept` joins the two |
| `AccountsTyped` | every step has one of a few shapes (`Shape`): a call begins, ends, makes, edits, empties or removes a row; `Known` says what calls know of rows |
| `DeletedAnonymous` | `DeletedInv`: where no two calls met, only staff have a call on a deleted row |
| `ResetsOnce` | `LinksInv`: a link belongs to one account from its mailing; the link in the row is the last one mailed and unused, and a reset under way has that one. `AccountsAreKept` joins the two |
| `TicketsAlone` | `TicketInv`: an attempt that is not sending has no calls left, the buffer is entered in its own leg only, and that leg has no call whose failure is survived; so a confirmed crash finds no other attempt with the entry still before it |
| `AlarmsTrue` | `TrackInv`: each command is tracked by one order at most (`OneEach`), so that a retry, which takes the state back, changes what one entry says |
| `MailsAccounted` | `MailInv`: where a connection stands (`LinesInv`) tells whether its mail has been taken (`HasBody`), and with it how many were (`CountsInv`) |
| `NoEditLost` | `EditInv`: an operation stays within one column (`OneColumn`), and where no two calls met the one call that will write a column has read what is there (`Apart`) |
| `SettingsTyped` | `SettingsInv`: a part never holds more edits than were begun less those that editors who have read the row have yet to write (`Below`) — without the second half a write could exceed the bound |
| `LimitTyped`, `DeskTyped` | types with what bounds them: a window counts no more than the calls (`WindowInv`); the lists hold what was read under a session there was |
| `CampaignTyped`, `AudienceReached`, `TextsOnce` | `CampaignInv`: the lists the page shows are right but for those who changed since it began to read (`ListsHold`); the press that waits holds the button (`ButtonHolds`), so two presses of one text are in order and the first has failed (`PressesHold`); those shown and those owed differ by those who changed (`AudienceHolds`); and each owed is reached, left or refused, once (`MailsHold`). The count reported is a cardinality, hence the finite set of customers |
| `CodesTyped`, `PageCurrent` | `NewestHolds`: of the reads of the list the newest carries the filter shown, unless the timer has yet to start another; only its answer is shown. `SelectionHolds`: the code in the form is on the list but for the exceptions the page makes |
| `OrderMailsTyped`, `MailsTellChanges` | `OrderMailsInv`: a change knows the write it made and each write has one change (`RowHolds`, `ChangeHolds`); a mail that waits or was sent tells a state no older than its change (`InOrder`), and what a change owes is waiting or sent, not both (`DueHolds`, `SentHolds`) |
| `SessionCopiesAgree` | `CopiesInv`: the last session handed to the store is the one shown and the last one stored the one OneSignal hears of next, so an empty queue means agreement; nothing is under way before the stored session is read (`Quiet`), which is why a slow start cannot undo a login |
| `CartOrdered` | `CartInv`: the cart under an open checkout is the one it was opened with or empty, and the promotion fits the cart or is late (`Fits`); so a press sends what the screen shows |
| `NativeKeeps`, `LegacyTyped`, `LegacyKeeps`, `TerminalTyped`, `TerminalKeeps`, `BackOfficeTyped`, `BackOfficeKeeps`, `OfficeTyped`, `OfficeKeeps`, `ChangesAreKept`, `AppIsKept` | the specifications that TLC checks: a behaviour of one is a behaviour of each of its parts (`…Parts`), and the theorems above apply |

*Sequences and numbers.* The induction theorems of the library take an operator, which the provers cannot
instantiate. `LeastNat` (a non-empty set of numbers has a least element, from the well-foundedness of
`<` on the naturals) and `SetInduction` do without: `KeptEquation` shows with them that the recursive function
of `SequenceFilter` exists, and with its equation the lemmas on what a filter keeps follow. The
`SelectSeq` of the standard module is out of reach for the same reason, so `AttentionAlerts` does not use it.

Only model-checked: liveness (`EveryCommandServed`, `AlertsFollow`,
`ConfirmationEnds`, `DialoguesAdvance`, `CopiesConverge`, `WaitsEnd`), which rests on fairness and ENABLED and
which the prover does not reach. `PrintedOncePerRequest` and `ImplementsLifecycle` with several managers are
false, as `nq_owner` shows; the other three violations are TLC's as well.

## 8. What is not modelled

Every component and its reason is in `PROJECT.json`. Tenants are a look-up by host name. The plumbing of the admin
API, media storage and analytics are requests, I/O and read-only reports. Of the web front end the marketing page alone is
modelled; the other pages are views and forms over the API, and so are the menu, the list of orders and the
reservation form of the customers' app. Schema, seeds and deployment are declarations and scripts. Inside modelled
components, the layout of tickets and mails, service discovery details, the waits,
the calendar arithmetic of reservations,
and an upgrade of the terminal's database are left out. The limit of 100 open
reservations a terminal reads is not modelled because of its size. One hazard of the list has no
property, because no state of the page depends on it (an insert that fails silently).
