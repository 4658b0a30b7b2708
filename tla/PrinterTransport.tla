--------------------------- MODULE PrinterTransport ---------------------------
(***************************************************************************)
(* One dispatch of the native queue, from the call of the worker to its    *)
(* report: the search for a service to bind, the calls to the printer, the *)
(* errors their callbacks report meanwhile, and the release of the         *)
(* connection.  Dispatches follow one another; the executor has one at a   *)
(* time.                                                                   *)
(*                                                                         *)
(* The services and the printer are external: a service resolves or not,   *)
(* binds, fails to, or throws; it connects or disconnects at any time; a   *)
(* call returns or throws, and what it asked for may be done even then.    *)
(*                                                                         *)
(* A plan stands for the jobs that are printed by the same calls, under    *)
(* one setting of the switches of the build.  "body" is any call that      *)
(* puts something on paper, "local" the drawing of a bitmap; what is       *)
(* drawn or written is left out, and so are the waits.                     *)
(***************************************************************************)
EXTENDS Naturals, Sequences, DispatchReports

CONSTANTS
  NumFamilies,    \* service families the connector tries, in order; 4 in the code
  InUse,          \* the plans that are asked for
  MaxUpsets       \* calls that fail, errors reported, connections lost in one
                  \* dispatch; bounds the model

ASSUME TransportConstants ==
  /\ NumFamilies \in Nat /\ MaxUpsets \in Nat
  /\ InUse \subseteq {"receipt", "officialText", "officialBitmap", "custom",
       "image", "transaction", "line", "lines", "block", "buffered", "segments",
       "probe", "gated", "text", "bufferedText", "bitmaps", "vendor", "compare",
       "diagnostics", "tiny", "smoke", "selfCheck", "robust"}

VARIABLES
  at,          \* where the executor thread is
  plan,        \* the plan of the job
  family,      \* the family the connector tries; 0 is the official library
  resolvedAny, \* the connector has found one
  ready,       \* interfaceReady, once the latch is open
  bound,       \* families whose connection is bound
  live,        \* the service reference the connection set is not null
  todo,        \* calls that remain of the current leg
  legs,        \* legs that remain
  errors,      \* errors the callbacks have reported
  seen,        \* errors there were at the last look at their list
  out,         \* something was put on paper
  report, upsets

connection == <<family, resolvedAny, ready, bound, live>>
printing == <<todo, legs, seen, out>>
transportVars == <<at, plan, connection, printing, errors, report, upsets>>
-----------------------------------------------------------------------------
(***************************************************************************)
(* Legs: what a plan asks of the printer.                                  *)
(***************************************************************************)
Finalize     == <<"wrap", "raw">>
Drawn        == <<"local", "body", "wrap">>
BufferedText == <<"enter", "body", "wrap", "body", "commit">> \o Finalize
SingleBlock  == <<"body">> \o Finalize
TextLines    == <<"body", "wrap", "body", "wrap", "wrap", "raw">>
LineByLine   == <<"body", "wrap", "body", "wrap">>

\* The ticket as bitmaps: one for each group of lines.
GroupedBlock == <<"local", "body", "wrap">>
Segments     == GroupedBlock \o GroupedBlock \o Finalize

\* Jobs that print a sample.  Tiny leaves the buffer, and commits it, last.
VendorMinimal  == <<"align", "local", "body", "wrap", "raw">>
BitmapCompare  == Drawn \o Drawn \o <<"raw">>
TinyDiagnostic == <<"enter", "align", "local", "body", "wrap", "exit">>
SmokeBlocks    == Drawn \o Drawn \o <<"raw">>
SelfCheck      == <<"check", "init", "align", "body", "wrap">>

\* Diagnostics: five experiments, each on its own.  "flush" is the exit of the
\* buffer, for which a commit stands in.
DiagnosticImage == <<"local", "body">>
Experiments ==
  LET shown == DiagnosticImage \o <<"wrap">>
  IN  <<shown, shown \o shown, <<"enter">> \o shown \o <<"flush">>,
        DiagnosticImage \o <<"raw", "wrap">>, shown \o shown>>

\* Test modes.
SampleImage     == <<"local", "body">>
BitmapBuffered  == <<"enter">> \o SampleImage \o <<"commit">>     \* mode K
BitmapPlain     == SampleImage \o <<"wrap">>                       \* mode L
BitmapCustom    == SampleImage \o <<"wrap">>                       \* mode M
SingleCallText  == <<"body">>                                      \* mode I
BufferProbe     == <<"enter", "commit", "exit">>
CallbackGated   == <<"body", "wrap">>

\* The official library: its own ticket, built and drawn, and two probes.
ReceiptLines == <<"local">>
ReceiptDrawn == <<"local">>
ProductionPrimitive == <<"body">>
Official ==
  [receipt        |-> <<"init">> \o ReceiptLines \o ReceiptDrawn
                                 \o ProductionPrimitive \o <<"wrap">>,
   officialText   |-> <<"init", "body", "wrap">>,
   officialBitmap |-> <<"init">> \o Drawn]

\* The modes of the legacy path with printerInit or the alignment before them.
Strict ==
  [custom      |-> <<"init">> \o BitmapCustom,
   image       |-> <<"init">> \o BitmapPlain,
   transaction |-> <<"init">> \o BitmapBuffered,
   line        |-> <<"init">> \o SingleCallText,
   lines       |-> <<"init", "align">> \o LineByLine,
   block       |-> <<"init", "align">> \o SingleBlock,
   buffered    |-> <<"init", "align">> \o BufferedText,
   segments    |-> <<"init", "align">> \o Segments,
   probe       |-> <<"align">> \o BufferProbe,
   gated       |-> <<"align">> \o CallbackGated]

\* The strategies a job's hints may ask for when no test mode is set; anything
\* else is robust.
ByStrategy ==
  [text         |-> <<"align">> \o TextLines,
   bufferedText |-> <<"align">> \o BufferedText,
   bitmaps      |-> <<"align">> \o Segments,
   vendor       |-> <<"align">> \o VendorMinimal,
   compare      |-> <<"align">> \o BitmapCompare,
   tiny         |-> <<"align">> \o TinyDiagnostic,
   smoke        |-> <<"align">> \o SmokeBlocks,
   selfCheck    |-> <<"align">> \o SelfCheck]

IsOfficial(p) == p \in DOMAIN Official

\* The first leg of every plan is strict; robust goes on to the next of its
\* legs when one fails, diagnostics does all of its experiments.
Legs(p) ==
  CASE p = "diagnostics"   -> <<<<"align">>>> \o Experiments
    [] p = "robust"        -> <<<<"align">>, BufferedText, SingleBlock, Segments>>
    [] IsOfficial(p)       -> <<Official[p]>>
    [] p \in DOMAIN Strict -> <<Strict[p]>>
    [] OTHER               -> <<ByStrategy[p]>>

\* The legacy jobs whose own text is not rendered.
DrawsSample(p) == p \in {"vendor", "compare", "diagnostics", "tiny", "smoke",
                          "selfCheck"}

\* Plans that may be accepted with nothing on paper.
ProbesOnly(p) == p \in {"diagnostics", "probe"}

NoReport == [accepted |-> FALSE]

TransportInit ==
  /\ at = "idle" /\ plan = "receipt"
  /\ family = 0 /\ resolvedAny = FALSE /\ ready = FALSE /\ bound = {} /\ live = FALSE
  /\ todo = <<>> /\ legs = <<>> /\ seen = 0 /\ out = FALSE
  /\ errors = 0 /\ report = NoReport /\ upsets = 0

Upset == upsets < MaxUpsets /\ upsets' = upsets + 1
-----------------------------------------------------------------------------
(***************************************************************************)
(* The connection.                                                         *)
(***************************************************************************)

\* The report is built; the connection is released after it.
Report(r) == report' = r /\ at' = "close"

\* dispatch takes one of the two paths.
BeginDispatch(p) ==
  /\ at = "idle" /\ at' = "search" /\ plan' = p
  /\ family' = IF IsOfficial(p) THEN 0 ELSE 1
  /\ resolvedAny' = FALSE /\ ready' = FALSE /\ live' = FALSE
  /\ todo' = <<>> /\ legs' = Legs(p) /\ seen' = 0 /\ out' = FALSE
  /\ errors' = 0 /\ report' = NoReport /\ upsets' = 0
  /\ UNCHANGED bound

\* The family does not resolve, or it does and cannot be bound.
NextFamily ==
  /\ at = "search" /\ family \in 1..NumFamilies
  /\ family' = family + 1 /\ resolvedAny' \in {resolvedAny, TRUE}
  /\ UNCHANGED <<at, plan, ready, bound, live, printing, errors, report, upsets>>

\* bindService is true.
Bind ==
  /\ at = "search" /\ family <= NumFamilies
  /\ at' = "latch" /\ bound' = bound \cup {family} /\ resolvedAny' = TRUE
  /\ ready' = FALSE /\ live' = FALSE
  /\ UNCHANGED <<plan, family, printing, errors, report, upsets>>

\* No family is left, or the official library throws.
NoFamily ==
  /\ at = "search"
  /\ \/ family > NumFamilies
        /\ Report(IF resolvedAny THEN ServiceUnavailable ELSE NotDispatched)
     \/ family = 0 /\ Report(BindFailed)
  /\ UNCHANGED <<plan, connection, printing, errors, upsets>>

\* onServiceConnected; the reference is looked at until the dispatch begins.
ServiceConnected ==
  /\ at \in {"latch", "adapt"} /\ ~live /\ live' = TRUE
  /\ UNCHANGED <<at, plan, family, resolvedAny, ready, bound, printing, errors,
                 report, upsets>>

\* onServiceDisconnected; the official library keeps its reference.
ServiceGone ==
  /\ at \in {"latch", "adapt"} /\ live /\ family > 0 /\ Upset /\ live' = FALSE
  /\ UNCHANGED <<at, plan, family, resolvedAny, ready, bound, printing, errors,
                 report>>

\* The latch is open, by a connection or a null binding, or the time is over.
LatchEnds ==
  /\ at = "latch" /\ at' = "adapt" /\ ready' = live
  /\ UNCHANGED <<plan, family, resolvedAny, bound, live, printing, errors, report,
                 upsets>>

\* Mutant of Adapt: a family that was not ready stays bound.
AdaptWithoutRelease ==
  /\ at = "adapt"
  /\ IF ready /\ live THEN at' = "render" /\ UNCHANGED <<family, report>>
     ELSE IF family = 0 THEN Report(BindFailed) /\ UNCHANGED family
     ELSE family' = family + 1 /\ at' = "search" /\ UNCHANGED report
  /\ UNCHANGED <<plan, bound, resolvedAny, ready, live, printing, errors, upsets>>

\* The reference is looked at once more for the result.
Adapt ==
  /\ at = "adapt"
  /\ IF ready /\ live THEN at' = "render" /\ UNCHANGED <<family, bound, report>>
     ELSE IF family = 0 THEN Report(BindFailed) /\ UNCHANGED <<family, bound>>
     ELSE /\ family' = family + 1 /\ bound' = bound \ {family}
          /\ at' = "search" /\ UNCHANGED report
  /\ UNCHANGED <<plan, resolvedAny, ready, live, printing, errors, upsets>>

\* close(), unBindService.
Close ==
  /\ at = "close" /\ at' = "idle" /\ bound' = bound \ {family}
  /\ UNCHANGED <<plan, family, resolvedAny, ready, live, printing, errors, report,
                 upsets>>
-----------------------------------------------------------------------------
(***************************************************************************)
(* The calls.                                                              *)
(***************************************************************************)

\* The next leg, at whose beginning the errors are counted.
BeginLeg ==
  /\ todo' = Head(legs) /\ legs' = Tail(legs) /\ seen' = errors
  /\ at' = "run" /\ UNCHANGED report

\* The text of the job, where it is used, cannot be rendered.
Render ==
  /\ at = "render"
  /\ \/ BeginLeg
     \/ /\ ~IsOfficial(plan) /\ ~DrawsSample(plan)
        /\ Report(RenderFailed) /\ UNCHANGED <<todo, legs, seen>>
  /\ UNCHANGED <<plan, connection, out, errors, upsets>>

CallReturns ==
  /\ at = "run" /\ todo # <<>>
  /\ todo' = Tail(todo) /\ out' = (out \/ Head(todo) = "body")
  /\ UNCHANGED <<at, plan, connection, legs, seen, errors, report, upsets>>

\* Every leg but the first.
MayFail == Len(legs) < Len(Legs(plan)) - 1

\* A leg that may fail has failed: the next, if there is one.
LegFails ==
  IF legs # <<>> THEN BeginLeg
  ELSE /\ Report(IF plan = "robust" THEN SequenceBroken
                 ELSE IF errors > 0 THEN CallbackError ELSE Clean)
       /\ UNCHANGED <<todo, legs, seen>>

\* A call throws; what it was to print may be printed.  A bitmap that cannot
\* be drawn is not an error of the printer.
CallThrows ==
  /\ at = "run" /\ todo # <<>> /\ Upset
  /\ out' \in {out, out \/ Head(todo) = "body"}
  /\ IF MayFail
       THEN IF Head(todo) = "flush"
              THEN todo' = <<"commit">> /\ UNCHANGED <<at, legs, seen, report>>
              ELSE LegFails
       ELSE /\ Report(IF Head(todo) = "local" /\ ~IsOfficial(plan)
                        THEN DispatchException ELSE SequenceBroken)
            /\ UNCHANGED <<todo, legs, seen>>
  /\ UNCHANGED <<plan, connection, errors>>

\* A callback reports an error, of this leg or an earlier one.
CallbackReports ==
  /\ at \in {"run", "reading"} /\ Upset /\ errors' = errors + 1
  /\ UNCHANGED <<at, plan, connection, printing, report>>

\* The end of a leg.  The legacy path looks at the first error once, robust for
\* each leg that may fail; the official one looks at the list, for acceptance here
\* and then for the rest.
LegBroke == plan = "robust" /\ MayFail /\ errors > seen
LastLeg  == legs = <<>> \/ (plan = "robust" /\ MayFail)

LegEnds ==
  /\ at = "run" /\ todo = <<>>
  /\ \/ /\ IsOfficial(plan)
        /\ at' = "reading" /\ seen' = errors /\ UNCHANGED <<todo, legs, report>>
     \/ LegBroke /\ LegFails
     \/ /\ LastLeg /\ ~LegBroke /\ ~IsOfficial(plan)
        /\ Report(IF errors > 0 THEN CallbackError ELSE Clean)
        /\ UNCHANGED <<todo, legs, seen>>
     \/ ~LastLeg /\ ~IsOfficial(plan) /\ BeginLeg
  /\ UNCHANGED <<plan, connection, out, errors, upsets>>

ReadErrors ==
  /\ at = "reading"
  /\ Report(IF seen > 0 THEN CallbackError ELSE IF errors > 0 THEN LateError ELSE Clean)
  /\ UNCHANGED <<plan, connection, printing, errors, upsets>>
-----------------------------------------------------------------------------
TransportNext ==
  \/ \E p \in InUse : BeginDispatch(p)
  \/ NextFamily \/ Bind \/ NoFamily \/ ServiceConnected \/ ServiceGone
  \/ LatchEnds \/ Adapt \/ Close
  \/ Render \/ CallReturns \/ CallThrows \/ CallbackReports \/ LegEnds \/ ReadErrors

TransportSpec == TransportInit /\ [][TransportNext]_transportVars
-----------------------------------------------------------------------------
\* What the queue counts on when it retries.  A dispatch that has ended holds
\* no connection, and never held two; its report is one of those the queue is
\* checked against; one that says nothing was attempted put nothing on paper,
\* and one that was accepted printed something, unless it was a probe --
\* whatever was thrown, disconnected or reported meanwhile.
TransportContract ==
  /\ \A f, g \in bound : f = g
  /\ at = "idle" /\ report # NoReport =>
       /\ bound = {}
       /\ report \in IF IsOfficial(plan) THEN OfficialReports ELSE LegacyReports
       /\ ~report.attempted => ~out
       /\ report.accepted => out \/ ProbesOnly(plan)
=============================================================================
