--------------------------- MODULE ReceiptTransport ---------------------------
(***************************************************************************)
(* What happens to one ticket of the legacy queue between its pick-up and  *)
(* its result: printReceiptWithAidl of SunmiPrinterManager, with the       *)
(* connection to the printer service that a manager keeps and the bridge   *)
(* calls that use the same connection.                                     *)
(*                                                                         *)
(* A call to the service returns, throws, or returns and reports an error  *)
(* to its callback later; one action is one call.  The service is          *)
(* external.  Two managers are alive after the activity is recreated; the  *)
(* flag of a print in progress and the confirmed crash are of the process. *)
(*                                                                         *)
(* Strategies are told apart by the calls they make.  Texts, images and    *)
(* the answers of updatePrinterState are not kept: a state is one the      *)
(* printer may be sent a ticket in, or not.  Settings of the alignment     *)
(* that follow each other are one.                                         *)
(***************************************************************************)
EXTENDS Naturals, Sequences

CONSTANTS
  Printers,       \* SunmiPrinterManager instances
  InUse,          \* the strategies that are asked for
  MaxUpsets       \* failed calls, lost connections, errors reported, deaths of
                  \* the process; bounds the model

ASSUME ReceiptConstants ==
  InUse \subseteq {"block", "sections", "mixed", "wrapped", "image", "chunks",
                   "test", "parity"}
ASSUME ReceiptBounds == MaxUpsets \in Nat

VARIABLES
  link,         \* link[m]: printerService, isBinding, and the connection
  receipt,      \* receipt[m]: the attempt the executor of m runs, or its result
  tool,         \* tool[m]: the bridge call of m that uses the printer
  inProgress,   \* PRINT_IN_PROGRESS
  crashSeen,    \* OFFICIAL_PARITY_BUFFER_CRASH_CONFIRMED
  upsets,
  leaked        \* history: this process refused a ticket with the flag set

receiptVars ==
  <<link, receipt, tool, inProgress, crashSeen, upsets, leaked>>
-----------------------------------------------------------------------------
\* What is sent for a ticket, by outputStrategy.  "feed" is the raw feed that
\* falls back to lineWrap; BITMAP_INTER_CHUNK_ADVANCE_LINES is 0.
Sections     == <<"text", "text">>
ReceiptImage == <<"bitmap">>
Aligned      == <<"tryInit", "align">>

TextLegs ==
  [block    |-> <<"align", "text", "feed">>,
   sections |-> <<"align">> \o Sections \o <<"feed">>,
   mixed    |-> <<"align", "text", "wrap", "text", "feed">>,
   wrapped  |-> <<"align">> \o Sections \o <<"wrap">>]

ImageLegs ==
  [image  |-> Aligned \o ReceiptImage \o <<"feed">>,
   chunks |-> Aligned \o ReceiptImage \o ReceiptImage \o <<"feed">>,
   test   |-> Aligned \o ReceiptImage \o ReceiptImage \o <<"feed">>]

Strategies == DOMAIN TextLegs \cup DOMAIN ImageLegs \cup {"parity"}

BufferedLeg == <<"init", "enter", "align", "text", "raw", "commit", "exit">>
SafeLeg     == <<"init", "align", "text", "raw">>

\* Strategies whose body is a sample: they need no order in the job.  A text
\* strategy here is one that prints the ticket.
PrintsSample == {"test", "parity"}

NoReceipt == [at |-> "idle", strategy |-> "block", whole |-> TRUE, todo |-> <<>>,
              errors |-> FALSE, code |-> "none"]
Unlinked  == [service |-> FALSE, binding |-> FALSE, bound |-> FALSE, open |-> TRUE]

\* Between the compare-and-set of the flag and the end.
Sending(m) == receipt[m].at \in {"claimed", "prelude", "text", "image",
                                 "buffered", "safe"}

ReceiptsInit ==
  /\ link = [m \in Printers |-> Unlinked]
  /\ receipt = [m \in Printers |-> NoReceipt]
  /\ tool = [m \in Printers |-> "idle"]
  /\ inProgress = FALSE /\ crashSeen = FALSE
  /\ upsets = 0 /\ leaked = FALSE

Upset == upsets < MaxUpsets /\ upsets' = upsets + 1
-----------------------------------------------------------------------------
(***************************************************************************)
(* The connection.                                                         *)
(***************************************************************************)

\* bindPrinterServiceAsync: what it may make of a connection; one of the
\* candidates is taken, or none.
Binds(l) ==
  IF l.service \/ l.binding THEN {l}
  ELSE {[l EXCEPT !.binding = TRUE, !.bound = TRUE], l}

\* onServiceConnected.
ServiceConnected(m) ==
  /\ link[m].bound /\ ~link[m].service
  /\ link' = [link EXCEPT ![m].service = TRUE, ![m].binding = FALSE]
  /\ UNCHANGED <<receipt, tool, inProgress, crashSeen, upsets, leaked>>

\* onServiceDisconnected, onNullBinding.
ServiceGone(m) ==
  /\ link[m].bound /\ Upset
  /\ link' = [link EXCEPT ![m].service = FALSE, ![m].binding = FALSE]
  /\ UNCHANGED <<receipt, tool, inProgress, crashSeen, leaked>>

\* release(), when the activity is destroyed: the executor goes on and may
\* bind again.
Release(m) ==
  /\ link[m].open /\ Upset
  /\ link' = [link EXCEPT ![m] = [Unlinked EXCEPT !.open = FALSE]]
  /\ UNCHANGED <<receipt, tool, inProgress, crashSeen, leaked>>

ProcessDies ==
  /\ Upset
  /\ link' = [m \in Printers |-> Unlinked]
  /\ receipt' = [m \in Printers |-> NoReceipt]
  /\ tool' = [m \in Printers |-> "idle"]
  /\ inProgress' = FALSE /\ crashSeen' = FALSE /\ leaked' = FALSE
-----------------------------------------------------------------------------
(***************************************************************************)
(* One ticket.                                                             *)
(***************************************************************************)

\* The attempt of m ends with code; only the finally block clears the flag.
Ended(m, code) ==
  /\ receipt' = [receipt EXCEPT ![m] =
       [NoReceipt EXCEPT !.strategy = receipt[m].strategy, !.code = code]]
  /\ inProgress' = (inProgress /\ ~(Sending(m) /\ receipt[m].at # "claimed"))

Goes(m, leg, calls) ==
  /\ receipt' = [receipt EXCEPT ![m].at = leg, ![m].todo = calls]
  /\ UNCHANGED inProgress

\* Everything that is refused before the service is looked for: no job, one
\* that cannot be parsed, a strategy that is not known, a V2s.
BeginReceipt(m, s, whole) ==
  /\ receipt[m].at = "idle"
  /\ \/ /\ receipt' = [receipt EXCEPT ![m] = [NoReceipt EXCEPT !.code = "REFUSED"]]
        /\ UNCHANGED link
     \/ /\ receipt' = [receipt EXCEPT ![m] =
             [NoReceipt EXCEPT !.at = "binding", !.strategy = s, !.whole = whole]]
        /\ \E l \in Binds(link[m]) : link' = [link EXCEPT ![m] = l]
  /\ UNCHANGED <<tool, inProgress, crashSeen, upsets, leaked>>

\* ensureServiceBound, and the reference that is used from here on.
FindService(m) ==
  /\ receipt[m].at = "binding"
  /\ IF link[m].service THEN Goes(m, "found", <<>>)
                        ELSE Ended(m, "SUNMI_SERVICE_UNAVAILABLE")
  /\ UNCHANGED <<link, tool, crashSeen, upsets, leaked>>

\* Mutant of Claim: the flag is set, whatever it was.
ClaimAnyway(m) ==
  /\ receipt[m].at = "found"
  /\ receipt' = [receipt EXCEPT ![m].at = "claimed"] /\ inProgress' = TRUE
  /\ UNCHANGED <<link, tool, crashSeen, upsets, leaked>>

\* PRINT_IN_PROGRESS.compareAndSet.
Claim(m) ==
  /\ receipt[m].at = "found"
  /\ IF inProgress THEN Ended(m, "SUNMI_PRINT_BUSY")
     ELSE receipt' = [receipt EXCEPT ![m].at = "claimed"] /\ inProgress' = TRUE
  /\ UNCHANGED <<link, tool, crashSeen, upsets, leaked>>

\* The job is read, and refused when it has no number or no lines -- before
\* the block that clears the flag.
ReadJob(m) ==
  /\ receipt[m].at = "claimed"
  /\ IF receipt[m].whole \/ receipt[m].strategy \in PrintsSample
       THEN Goes(m, "prelude", Aligned) /\ UNCHANGED leaked
       ELSE Ended(m, "INVALID_PRINT_JOB_CONTENT") /\ leaked' = TRUE
  /\ UNCHANGED <<link, tool, crashSeen, upsets>>

\* The choice of the text leg, which knows the text strategies only.
ToText(m) ==
  IF receipt[m].strategy \in DOMAIN TextLegs
    THEN Goes(m, "text", TextLegs[receipt[m].strategy])
    ELSE Ended(m, "INVALID_OUTPUT_STRATEGY")

\* onFailure of the image leg; the errors are forgotten.
ImageFails(m) ==
  IF receipt[m].strategy = "test" THEN Ended(m, "BITMAP_SYNTHETIC_TEST_FAILED")
                                  ELSE ToText(m)

\* One call of the current leg returns.
CallReturns(m) ==
  LET r == receipt[m]
  IN  /\ Sending(m) /\ r.todo # <<>>
      /\ receipt' = [receipt EXCEPT ![m].todo = Tail(r.todo)]
      /\ UNCHANGED <<link, tool, inProgress, crashSeen, upsets, leaked>>

\* It throws: some calls are tried only, the raw feed has a substitute, and
\* every leg has a handler of its own.
CallThrows(m) ==
  LET r == receipt[m]
  IN  /\ Sending(m) /\ r.todo # <<>> /\ Upset
      /\ CASE Head(r.todo) = "tryInit" -> Goes(m, r.at, Tail(r.todo))
           [] Head(r.todo) = "feed" -> Goes(m, r.at, <<"wrap">> \o Tail(r.todo))
           [] OTHER -> CASE r.at = "image"    -> ImageFails(m)
                         [] r.at = "buffered" -> Ended(m, "OFFICIAL_PARITY_FAILED")
                         [] r.at = "safe" -> Ended(m, "NONBUFFER_SAFE_FALLBACK_FAILED")
                         [] OTHER -> Ended(m, "SUNMI_PRINT_FAILED")
      /\ crashSeen' \in {crashSeen, crashSeen \/ r.at = "buffered"}
      /\ UNCHANGED <<link, tool, leaked>>

\* A callback reports an error.  The parity legs list theirs without
\* looking at them.
CallbackReports(m) ==
  /\ receipt[m].at \in {"prelude", "text", "image"} /\ ~receipt[m].errors /\ Upset
  /\ receipt' = [receipt EXCEPT ![m].errors = TRUE]
  /\ UNCHANGED <<link, tool, inProgress, crashSeen, leaked>>

\* waitForPrinterReadyState, and a state in which parity prints all the same.
ParityBegins(m) ==
  IF crashSeen THEN Goes(m, "safe", SafeLeg)
  ELSE Goes(m, "buffered", BufferedLeg) \/ Ended(m, "PRINTER_NOT_READY")

\* The end of a leg, after the settle wait.
LegEnds(m) ==
  LET r == receipt[m]
  IN  /\ Sending(m) /\ r.at # "claimed" /\ r.todo = <<>>
      /\ CASE r.at = "prelude" /\ r.strategy = "parity" -> ParityBegins(m)
           [] r.at = "prelude" /\ r.strategy \in DOMAIN ImageLegs ->
                Goes(m, "image", ImageLegs[r.strategy])
           [] r.at = "prelude" /\ r.strategy \in DOMAIN TextLegs -> ToText(m)
           [] r.at = "image" /\ r.errors -> ImageFails(m)
           [] r.at = "text" /\ r.errors  -> Ended(m, "SUNMI_PRINT_CALLBACK_ERROR")
           [] OTHER -> Ended(m, "PRINT_SENT")
      /\ UNCHANGED <<link, tool, crashSeen, upsets, leaked>>
-----------------------------------------------------------------------------
(***************************************************************************)
(* getPrinterInfo, openCashDrawer and runNativePrinterDebugTest: calls of  *)
(* the JavaBridge thread, which use the same connection and do not ask for *)
(* the flag.  What they call is left out; they end whatever becomes of it. *)
(***************************************************************************)
BeginTool(m) ==
  /\ tool[m] = "idle" /\ link[m].open
  /\ \E l \in Binds(link[m]) : link' = [link EXCEPT ![m] = l]
  /\ tool' = [tool EXCEPT ![m] = "binding"]
  /\ UNCHANGED <<receipt, inProgress, crashSeen, upsets, leaked>>

\* Found, or SUNMI_SERVICE_UNAVAILABLE.
UseTool(m) ==
  /\ tool[m] = "binding"
  /\ tool' = [tool EXCEPT ![m] = IF link[m].service THEN "calls" ELSE "idle"]
  /\ UNCHANGED <<link, receipt, inProgress, crashSeen, upsets, leaked>>

\* After the last of its calls, or the first that throws.
EndTool(m) ==
  /\ tool[m] = "calls" /\ tool' = [tool EXCEPT ![m] = "idle"]
  /\ UNCHANGED <<link, receipt, inProgress, crashSeen, upsets, leaked>>
-----------------------------------------------------------------------------
ReceiptsNext ==
  \/ ProcessDies
  \/ \E m \in Printers :
       \/ ServiceConnected(m) \/ ServiceGone(m) \/ Release(m)
       \/ \E s \in InUse, whole \in BOOLEAN : BeginReceipt(m, s, whole)
       \/ FindService(m) \/ Claim(m) \/ ReadJob(m)
       \/ CallReturns(m) \/ CallThrows(m) \/ CallbackReports(m) \/ LegEnds(m)
       \/ BeginTool(m) \/ UseTool(m) \/ EndTool(m)

ReceiptsSpec == ReceiptsInit /\ [][ReceiptsNext]_receiptVars
-----------------------------------------------------------------------------
Calls == {"tryInit", "init", "align", "enter", "text", "bitmap", "wrap", "feed",
          "raw", "commit", "exit"}

\* Types of the connections, the attempts and the calls of the bridge.
ReceiptsTypeOK ==
  /\ link \in [Printers -> [service : BOOLEAN, binding : BOOLEAN,
                            bound : BOOLEAN, open : BOOLEAN]]
  /\ \A m \in Printers :
       /\ receipt[m].at \in {"idle", "binding", "found", "claimed", "prelude",
                             "text", "image", "buffered", "safe"}
       /\ receipt[m].strategy \in Strategies /\ receipt[m].todo \in Seq(Calls)
       /\ tool[m] \in {"idle", "binding", "calls"}
  /\ inProgress \in BOOLEAN /\ crashSeen \in BOOLEAN /\ leaked \in BOOLEAN
  /\ upsets \in 0..MaxUpsets

\* The managers of one process, two of which live when the activity has been
\* recreated, send one ticket at a time; the flag that orders them is set
\* without a sender only after a job that was refused for its content; and the
\* buffer that crashed the service is not entered again, although the crash is
\* looked up long before.
OneTicketAtATime ==
  /\ \A m, n \in Printers : Sending(m) /\ Sending(n) => m = n
  /\ (\E m \in Printers : Sending(m)) => inProgress
  /\ inProgress => leaked \/ \E m \in Printers : Sending(m)
  /\ \A m \in Printers : "enter" \in {receipt[m].todo[i] : i \in 1..Len(receipt[m].todo)}
                           => ~crashSeen
=============================================================================
