------------------------ MODULE NativePrintQueueProofs ------------------------
(***************************************************************************)
(* Proofs about NativePrintQueue, for any number of commands, managers and *)
(* attempts and for both printer paths: the queue and its threads, then    *)
(* what comes out of the printer, for one manager.  Before them, about     *)
(* PrinterTransport, the dispatch the reports of the queue come from.      *)
(***************************************************************************)
EXTENDS MCNativePrintQueue, TLAPS

-----------------------------------------------------------------------------
(***************************************************************************)
(* The transport, first what a plan asks of the printer: each of its legs  *)
(* is a sequence of calls, and which of them put something on paper.       *)
(***************************************************************************)
AllPlans == {"receipt", "officialText", "officialBitmap", "custom",
  "image", "transaction", "line", "lines", "block", "buffered", "segments",
  "probe", "gated", "text", "bufferedText", "bitmaps", "vendor", "compare",
  "diagnostics", "tiny", "smoke", "selfCheck", "robust"}

Ops == {"init", "align", "check", "enter", "local", "body", "wrap", "raw",
        "commit", "flush", "exit"}
Calls == Seq(Ops)

\* The leg puts something on paper.
Prints(leg) == \E j \in 1..Len(leg) : leg[j] = "body"
HasFlush(leg) == \E j \in 1..Len(leg) : leg[j] = "flush"

LEMMA PrintsConcat ==
  ASSUME NEW p \in Calls, NEW q \in Calls
  PROVE  p \o q \in Calls /\ (Prints(p) \/ Prints(q) => Prints(p \o q))
<1>1. /\ Len(p \o q) = Len(p) + Len(q) /\ Len(p) \in Nat /\ Len(q) \in Nat
      /\ \A j \in 1..Len(p) : (p \o q)[j] = p[j]
      /\ \A j \in 1..Len(q) : (p \o q)[j + Len(p)] = q[j]
  BY DEF Calls
<1>2. ASSUME NEW j \in 1..Len(q), q[j] = "body" PROVE Prints(p \o q)
  <2>1. j + Len(p) \in 1..Len(p \o q)
    BY <1>1
  <2> QED
    BY <1>1, <1>2, <2>1 DEF Prints
<1>3. ASSUME NEW j \in 1..Len(p), p[j] = "body" PROVE Prints(p \o q)
  <2>1. j \in 1..Len(p \o q)
    BY <1>1
  <2> QED
    BY <1>1, <1>3, <2>1 DEF Prints
<1> QED
  BY <1>2, <1>3 DEF Prints, Calls

LEMMA PrintsAt ==
  ASSUME NEW leg, NEW j \in 1..Len(leg), leg[j] = "body"
  PROVE  Prints(leg)
  BY DEF Prints

LEMMA OpsListed ==
  /\ "init" \in Ops /\ "align" \in Ops /\ "check" \in Ops /\ "enter" \in Ops
  /\ "local" \in Ops /\ "body" \in Ops /\ "wrap" \in Ops /\ "raw" \in Ops
  /\ "commit" \in Ops /\ "flush" \in Ops /\ "exit" \in Ops
  BY DEF Ops

\* The pieces that legs are made of.
LEMMA Pieces ==
  /\ Finalize \in Calls /\ Drawn \in Calls /\ SingleBlock \in Calls
  /\ BufferedText \in Calls /\ TextLines \in Calls /\ LineByLine \in Calls
  /\ Segments \in Calls
  /\ Prints(Drawn) /\ Prints(SingleBlock) /\ Prints(BufferedText)
  /\ Prints(TextLines) /\ Prints(LineByLine) /\ Prints(Segments)
<1>1. /\ Finalize \in Calls /\ Drawn \in Calls /\ <<"body">> \in Calls
      /\ GroupedBlock \in Calls /\ TextLines \in Calls /\ LineByLine \in Calls
  BY OpsListed DEF Finalize, Drawn, GroupedBlock, TextLines, LineByLine, Calls
<1>b. <<"enter", "body", "wrap", "body", "commit">> \in Calls
  BY OpsListed DEF Calls
<1>2. Prints(Drawn) /\ Prints(GroupedBlock)
  <2>1. 2 \in 1..Len(Drawn) /\ Drawn[2] = "body"
    BY DEF Drawn
  <2>2. 2 \in 1..Len(GroupedBlock) /\ GroupedBlock[2] = "body"
    BY DEF GroupedBlock
  <2> QED
    BY <2>1, <2>2, PrintsAt
<1>3. Prints(<<"body">>)
  BY DEF Prints
<1>4. Prints(<<"enter", "body", "wrap", "body", "commit">>)
  <2> DEFINE leg == <<"enter", "body", "wrap", "body", "commit">>
  <2>1. 2 \in 1..Len(leg) /\ leg[2] = "body"
    OBVIOUS
  <2> HIDE DEF leg
  <2>2. Prints(leg)
    BY <2>1, PrintsAt
  <2> QED
    BY <2>2 DEF leg
<1>5. Prints(TextLines) /\ Prints(LineByLine)
  <2>1. 1 \in 1..Len(TextLines) /\ TextLines[1] = "body"
    BY DEF TextLines
  <2>2. 1 \in 1..Len(LineByLine) /\ LineByLine[1] = "body"
    BY DEF LineByLine
  <2> QED
    BY <2>1, <2>2, PrintsAt
<1>6. SingleBlock \in Calls /\ Prints(SingleBlock)
  BY <1>1, <1>3, PrintsConcat DEF SingleBlock
<1>7. BufferedText \in Calls /\ Prints(BufferedText)
  BY <1>1, <1>b, <1>4, PrintsConcat DEF BufferedText
<1>8. Segments \in Calls /\ Prints(Segments)
  <2>1. GroupedBlock \o GroupedBlock \in Calls /\ Prints(GroupedBlock \o GroupedBlock)
    BY <1>1, <1>2, PrintsConcat
  <2> QED
    BY <1>1, <2>1, PrintsConcat DEF Segments
<1> QED
  BY <1>1, <1>2, <1>5, <1>6, <1>7, <1>8

LEMMA PiecesOfSamples ==
  /\ VendorMinimal \in Calls /\ BitmapCompare \in Calls /\ TinyDiagnostic \in Calls
  /\ SmokeBlocks \in Calls /\ SelfCheck \in Calls
  /\ Prints(VendorMinimal) /\ Prints(BitmapCompare) /\ Prints(TinyDiagnostic)
  /\ Prints(SmokeBlocks) /\ Prints(SelfCheck)
<1>1. VendorMinimal \in Calls /\ TinyDiagnostic \in Calls /\ SelfCheck \in Calls
      /\ <<"raw">> \in Calls
  BY OpsListed DEF VendorMinimal, TinyDiagnostic, SelfCheck, Calls
<1>2. 3 \in 1..Len(VendorMinimal) /\ VendorMinimal[3] = "body"
  BY DEF VendorMinimal
<1>3. 4 \in 1..Len(TinyDiagnostic) /\ TinyDiagnostic[4] = "body"
  BY DEF TinyDiagnostic
<1>4. 4 \in 1..Len(SelfCheck) /\ SelfCheck[4] = "body"
  BY DEF SelfCheck
<1>5. Drawn \o Drawn \in Calls /\ Prints(Drawn \o Drawn)
  BY Pieces, PrintsConcat
<1>6. (Drawn \o Drawn) \o <<"raw">> \in Calls /\ Prints((Drawn \o Drawn) \o <<"raw">>)
  BY <1>1, <1>5, PrintsConcat
<1> QED
  BY <1>1, <1>2, <1>3, <1>4, <1>6, PrintsAt DEF BitmapCompare, SmokeBlocks

LEMMA PiecesOfTests ==
  /\ SampleImage \in Calls /\ BitmapBuffered \in Calls /\ BitmapPlain \in Calls
  /\ BitmapCustom \in Calls /\ SingleCallText \in Calls /\ BufferProbe \in Calls
  /\ CallbackGated \in Calls
  /\ Prints(BitmapBuffered) /\ Prints(BitmapPlain) /\ Prints(BitmapCustom)
  /\ Prints(SingleCallText) /\ Prints(CallbackGated)
<1>1. /\ SampleImage \in Calls /\ SingleCallText \in Calls /\ BufferProbe \in Calls
      /\ CallbackGated \in Calls
      /\ <<"enter">> \in Calls /\ <<"commit">> \in Calls /\ <<"wrap">> \in Calls
  BY OpsListed DEF SampleImage, SingleCallText, BufferProbe, CallbackGated, Calls
<1>2. 2 \in 1..Len(SampleImage) /\ SampleImage[2] = "body"
  BY DEF SampleImage
<1>3. 1 \in 1..Len(SingleCallText) /\ SingleCallText[1] = "body"
  BY DEF SingleCallText
<1>4. 1 \in 1..Len(CallbackGated) /\ CallbackGated[1] = "body"
  BY DEF CallbackGated
<1>5. Prints(SampleImage) /\ Prints(SingleCallText) /\ Prints(CallbackGated)
  BY <1>2, <1>3, <1>4, PrintsAt
<1>6. SampleImage \o <<"wrap">> \in Calls /\ Prints(SampleImage \o <<"wrap">>)
  BY <1>1, <1>5, PrintsConcat
<1>7. <<"enter">> \o SampleImage \in Calls /\ Prints(<<"enter">> \o SampleImage)
  BY <1>1, <1>5, PrintsConcat
<1>8. /\ (<<"enter">> \o SampleImage) \o <<"commit">> \in Calls
      /\ Prints((<<"enter">> \o SampleImage) \o <<"commit">>)
  BY <1>1, <1>7, PrintsConcat
<1> QED
  BY <1>1, <1>5, <1>6, <1>8 DEF BitmapBuffered, BitmapPlain, BitmapCustom

\* A call or two before a leg leave it one that prints.
LEMMA Prefixed ==
  ASSUME NEW leg \in Calls
  PROVE  /\ \A a \in Ops : /\ <<a>> \o leg \in Calls
                           /\ Prints(leg) => Prints(<<a>> \o leg)
         /\ /\ <<"init", "align">> \o leg \in Calls
            /\ Prints(leg) => Prints(<<"init", "align">> \o leg)
<1>1. \A a \in Ops : <<a>> \in Calls
  BY DEF Calls
<1>2. <<"init", "align">> \in Calls
  BY OpsListed DEF Calls
<1> QED
  BY <1>1, <1>2, PrintsConcat

LEMMA OfficialLegs ==
  \A p \in DOMAIN Official : Official[p] \in Calls /\ Prints(Official[p])
<1>1. <<"init">> \o Drawn \in Calls /\ Prints(<<"init">> \o Drawn)
  BY Prefixed, Pieces, OpsListed
<1> DEFINE text == <<"init", "body", "wrap">>
<1>2. text \in Calls /\ Prints(text)
  <2>1. text \in Calls
    BY OpsListed DEF Calls
  <2>2. 2 \in 1..Len(text) /\ text[2] = "body"
    OBVIOUS
  <2> HIDE DEF text
  <2> QED
    BY <2>1, <2>2, PrintsAt
<1> DEFINE ticket == (((<<"init">> \o ReceiptLines) \o ReceiptDrawn)
                        \o ProductionPrimitive) \o <<"wrap">>
<1>3. ticket \in Calls /\ Prints(ticket)
  <2>1. /\ <<"init">> \in Calls /\ ReceiptLines \in Calls /\ ReceiptDrawn \in Calls
        /\ ProductionPrimitive \in Calls /\ <<"wrap">> \in Calls
    BY OpsListed DEF Calls, ReceiptLines, ReceiptDrawn, ProductionPrimitive
  <2>2. 1 \in 1..Len(ProductionPrimitive) /\ ProductionPrimitive[1] = "body"
    BY DEF ProductionPrimitive
  <2>3. (<<"init">> \o ReceiptLines) \o ReceiptDrawn \in Calls
    BY <2>1, PrintsConcat
  <2>4. /\ ((<<"init">> \o ReceiptLines) \o ReceiptDrawn) \o ProductionPrimitive \in Calls
        /\ Prints(((<<"init">> \o ReceiptLines) \o ReceiptDrawn) \o ProductionPrimitive)
    BY <2>1, <2>2, <2>3, PrintsAt, PrintsConcat
  <2> QED
    BY <2>1, <2>4, PrintsConcat
<1>4. /\ DOMAIN Official = {"receipt", "officialText", "officialBitmap"}
      /\ Official["receipt"] = ticket /\ Official["officialText"] = text
      /\ Official["officialBitmap"] = <<"init">> \o Drawn
  BY DEF Official
<1> HIDE DEF text, ticket
<1> QED
  BY <1>1, <1>2, <1>3, <1>4

LEMMA StrictLegs ==
  \A p \in DOMAIN Strict : /\ Strict[p] \in Calls
                           /\ p = "probe" \/ Prints(Strict[p])
<1>1. /\ DOMAIN Strict = {"custom", "image", "transaction", "line", "lines", "block",
                          "buffered", "segments", "probe", "gated"}
      /\ Strict["custom"] = <<"init">> \o BitmapCustom
      /\ Strict["image"] = <<"init">> \o BitmapPlain
      /\ Strict["transaction"] = <<"init">> \o BitmapBuffered
      /\ Strict["line"] = <<"init">> \o SingleCallText
      /\ Strict["lines"] = <<"init", "align">> \o LineByLine
      /\ Strict["block"] = <<"init", "align">> \o SingleBlock
      /\ Strict["buffered"] = <<"init", "align">> \o BufferedText
      /\ Strict["segments"] = <<"init", "align">> \o Segments
      /\ Strict["probe"] = <<"align">> \o BufferProbe
      /\ Strict["gated"] = <<"align">> \o CallbackGated
  BY DEF Strict
<1>2. /\ <<"init">> \o BitmapCustom \in Calls /\ Prints(<<"init">> \o BitmapCustom)
      /\ <<"init">> \o BitmapPlain \in Calls /\ Prints(<<"init">> \o BitmapPlain)
  BY PiecesOfTests, Prefixed, OpsListed
<1>3. /\ <<"init">> \o BitmapBuffered \in Calls /\ Prints(<<"init">> \o BitmapBuffered)
      /\ <<"init">> \o SingleCallText \in Calls /\ Prints(<<"init">> \o SingleCallText)
  BY PiecesOfTests, Prefixed, OpsListed
<1>4. \A leg \in {LineByLine, SingleBlock, BufferedText, Segments} :
        /\ <<"init", "align">> \o leg \in Calls
        /\ Prints(<<"init", "align">> \o leg)
  BY Pieces, Prefixed
<1>5. /\ <<"align">> \o BufferProbe \in Calls
      /\ <<"align">> \o CallbackGated \in Calls
      /\ Prints(<<"align">> \o CallbackGated)
  BY PiecesOfTests, Prefixed, OpsListed
<1> SUFFICES ASSUME NEW p \in DOMAIN Strict
             PROVE  Strict[p] \in Calls /\ (p = "probe" \/ Prints(Strict[p]))
  OBVIOUS
<1>6. CASE p \in {"custom", "image", "transaction", "line"}
  BY Zenon, <1>1, <1>2, <1>3, <1>6
<1>7. CASE p \in {"lines", "block", "buffered", "segments"}
  BY Zenon, <1>1, <1>4, <1>7
<1>8. CASE p \in {"probe", "gated"}
  BY Zenon, <1>1, <1>5, <1>8
<1> QED
  BY <1>1, <1>6, <1>7, <1>8

LEMMA StrategyLegs ==
  \A p \in DOMAIN ByStrategy : ByStrategy[p] \in Calls /\ Prints(ByStrategy[p])
<1>1. /\ DOMAIN ByStrategy = {"text", "bufferedText", "bitmaps", "vendor", "compare",
                              "tiny", "smoke", "selfCheck"}
      /\ ByStrategy["text"] = <<"align">> \o TextLines
      /\ ByStrategy["bufferedText"] = <<"align">> \o BufferedText
      /\ ByStrategy["bitmaps"] = <<"align">> \o Segments
      /\ ByStrategy["vendor"] = <<"align">> \o VendorMinimal
      /\ ByStrategy["compare"] = <<"align">> \o BitmapCompare
      /\ ByStrategy["tiny"] = <<"align">> \o TinyDiagnostic
      /\ ByStrategy["smoke"] = <<"align">> \o SmokeBlocks
      /\ ByStrategy["selfCheck"] = <<"align">> \o SelfCheck
  BY DEF ByStrategy
<1>2. \A leg \in {TextLines, BufferedText, Segments, VendorMinimal, BitmapCompare,
                   TinyDiagnostic, SmokeBlocks, SelfCheck} :
        leg \in Calls /\ Prints(leg)
  BY Pieces, PiecesOfSamples
<1>3. \A leg \in Calls :
        Prints(leg) => <<"align">> \o leg \in Calls /\ Prints(<<"align">> \o leg)
  BY Prefixed, OpsListed
<1> SUFFICES ASSUME NEW p \in DOMAIN ByStrategy
             PROVE  ByStrategy[p] \in Calls /\ Prints(ByStrategy[p])
  OBVIOUS
<1>4. CASE p \in {"text", "bufferedText", "bitmaps", "vendor"}
  BY Zenon, <1>1, <1>2, <1>3, <1>4
<1>5. CASE p \in {"compare", "tiny", "smoke", "selfCheck"}
  BY Zenon, <1>1, <1>2, <1>3, <1>5
<1> QED
  BY <1>1, <1>4, <1>5

\* The legs of a plan: one, that prints unless it is the probe of the buffer,
\* or those of the two plans that go on after an error.
LEMMA SingleLeg ==
  ASSUME NEW p \in AllPlans, p \notin {"robust", "diagnostics"}
  PROVE  \E leg \in Calls : Legs(p) = <<leg>> /\ (p = "probe" \/ Prints(leg))
<1>1. /\ DOMAIN Official = {"receipt", "officialText", "officialBitmap"}
      /\ DOMAIN Strict = {"custom", "image", "transaction", "line", "lines", "block",
                          "buffered", "segments", "probe", "gated"}
      /\ DOMAIN ByStrategy = {"text", "bufferedText", "bitmaps", "vendor", "compare",
                              "tiny", "smoke", "selfCheck"}
  BY DEF Official, Strict, ByStrategy
<1>2. CASE p \in DOMAIN Official
  <2>1. Legs(p) = <<Official[p]>>
    BY <1>1, <1>2 DEF Legs, IsOfficial
  <2> QED
    BY <1>2, <2>1, OfficialLegs
<1>3. CASE p \in DOMAIN Strict
  <2>1. Legs(p) = <<Strict[p]>>
    BY <1>1, <1>3 DEF Legs, IsOfficial
  <2> QED
    BY <1>3, <2>1, StrictLegs
<1>4. CASE p \in DOMAIN ByStrategy
  <2>1. Legs(p) = <<ByStrategy[p]>>
    BY <1>1, <1>4 DEF Legs, IsOfficial
  <2> QED
    BY <1>4, <2>1, StrategyLegs
<1> QED
  BY <1>1, <1>2, <1>3, <1>4 DEF AllPlans

LEMMA NoFlushConcat ==
  ASSUME NEW p \in Calls, NEW q \in Calls, ~HasFlush(p), ~HasFlush(q)
  PROVE  ~HasFlush(p \o q)
<1>1. /\ Len(p \o q) = Len(p) + Len(q) /\ Len(p) \in Nat /\ Len(q) \in Nat
      /\ \A j \in 1..Len(p) : (p \o q)[j] = p[j]
      /\ \A j \in 1..Len(q) : (p \o q)[j + Len(p)] = q[j]
  BY DEF Calls
<1> SUFFICES ASSUME NEW j \in 1..Len(p \o q), (p \o q)[j] = "flush" PROVE FALSE
  BY DEF HasFlush
<1>2. CASE j \in 1..Len(p)
  BY <1>1, <1>2 DEF HasFlush
<1>3. CASE j \notin 1..Len(p)
  <2>1. j - Len(p) \in 1..Len(q) /\ (j - Len(p)) + Len(p) = j
    BY <1>1, <1>3
  <2>2. q[j - Len(p)] = "flush"
    BY <1>1, <2>1
  <2> QED
    BY <2>1, <2>2 DEF HasFlush
<1> QED
  BY <1>2, <1>3

\* What robust begins with, and what it has then.
LEMMA RobustStart ==
  /\ Head(Legs("robust")) = <<"align">> /\ Len(Legs("robust")) = 4
  /\ Tail(Legs("robust")) = <<BufferedText, SingleBlock, Segments>>
<1>1. "robust" \notin DOMAIN Official /\ "robust" \notin DOMAIN Strict
  BY DEF Official, Strict
<1> DEFINE a == <<"align">>
<1>2. Legs("robust") = <<a, BufferedText, SingleBlock, Segments>>
  BY <1>1 DEF Legs, IsOfficial
<1> HIDE DEF a
<1> DEFINE legsOf == <<a, BufferedText, SingleBlock, Segments>>
<1>4. /\ Head(legsOf) = a /\ Len(legsOf) = 4
      /\ Tail(legsOf) = <<BufferedText, SingleBlock, Segments>>
  OBVIOUS
<1> HIDE DEF legsOf
<1>5. Legs("robust") = legsOf
  BY <1>2 DEF legsOf
<1>3. /\ Head(Legs("robust")) = a /\ Len(Legs("robust")) = 4
      /\ Tail(Legs("robust")) = <<BufferedText, SingleBlock, Segments>>
  BY Zenon, <1>4, <1>5
<1> QED
  BY <1>3 DEF a

\* No leg of robust leaves the buffer by itself.
LEMMA RobustLegs ==
  /\ <<"align">> \in Calls
  /\ \A l \in {<<"align">>, BufferedText, SingleBlock, Segments} : ~HasFlush(l)
<1>2. /\ <<"align">> \in Calls /\ <<"body">> \in Calls /\ GroupedBlock \in Calls
      /\ <<"enter", "body", "wrap", "body", "commit">> \in Calls /\ Finalize \in Calls
  BY OpsListed DEF Calls, GroupedBlock, Finalize
<1>3. /\ ~HasFlush(<<"align">>) /\ ~HasFlush(<<"body">>)
      /\ ~HasFlush(Finalize) /\ ~HasFlush(GroupedBlock)
  BY DEF HasFlush, Finalize, GroupedBlock
<1>4. ~HasFlush(<<"enter", "body", "wrap", "body", "commit">>)
  BY DEF HasFlush
<1>5. GroupedBlock \o GroupedBlock \in Calls /\ ~HasFlush(GroupedBlock \o GroupedBlock)
  BY <1>2, <1>3, NoFlushConcat, PrintsConcat
<1>6. ~HasFlush(Segments)
  BY <1>2, <1>3, <1>5, NoFlushConcat DEF Segments
<1>7. ~HasFlush(BufferedText) /\ ~HasFlush(SingleBlock)
  BY <1>2, <1>3, <1>4, NoFlushConcat DEF BufferedText, SingleBlock
<1> QED
  BY <1>2, <1>3, <1>6, <1>7

-----------------------------------------------------------------------------
PhaseInv ==
  /\ at \in {"idle", "search", "latch", "adapt", "render", "run", "reading", "close"}
  /\ plan \in AllPlans
  /\ errors \in Nat /\ seen \in Nat /\ out \in BOOLEAN
  /\ family \in Nat /\ (family = 0 <=> IsOfficial(plan))

\* One connection at most, and none before one is bound for this dispatch.
BoundInv ==
  /\ bound \subseteq {family}
  /\ at \in {"idle", "search"} => bound = {}

\* What was printed and what will be: until the end of the run something was or
\* a call that remains does it.  Robust may lose a leg to an error, but each
\* of those it goes on to prints.
LegsInv ==
  /\ at \in {"search", "latch", "adapt", "render"} => ~out /\ legs = Legs(plan)
  /\ at = "run" /\ plan \notin {"robust", "diagnostics"} =>
       /\ legs = <<>> /\ todo \in Calls
       /\ out \/ Prints(todo) \/ ProbesOnly(plan)
  /\ at = "run" /\ plan = "robust" =>
       /\ todo \in Calls /\ ~HasFlush(todo)
       /\ \/ legs = <<BufferedText, SingleBlock, Segments>>
          \/ /\ legs \in {<<SingleBlock, Segments>>, <<Segments>>, <<>>}
             /\ out \/ Prints(todo)
  /\ at = "reading" => IsOfficial(plan) /\ out

ReportInv ==
  at \in {"close", "idle"} /\ report # NoReport =>
    /\ report \in IF IsOfficial(plan) THEN OfficialReports ELSE LegacyReports
    /\ ~report.attempted => ~out
    /\ report.accepted => out \/ ProbesOnly(plan)

TransportInv == PhaseInv /\ BoundInv /\ LegsInv /\ ReportInv
-----------------------------------------------------------------------------
LEMMA OfficialPlans ==
  /\ DOMAIN Official = {"receipt", "officialText", "officialBitmap"}
  /\ ~IsOfficial("robust") /\ ~IsOfficial("diagnostics")
  /\ \A p : IsOfficial(p) => ~ProbesOnly(p)
<1>1. DOMAIN Official = {"receipt", "officialText", "officialBitmap"}
  BY DEF Official
<1> QED
  BY <1>1 DEF IsOfficial, ProbesOnly

LEMMA ReportsSay ==
  /\ Clean.attempted /\ LateError.attempted /\ CallbackError.attempted
  /\ SequenceBroken.attempted /\ DispatchException.attempted
  /\ ~CallbackError.accepted /\ ~SequenceBroken.accepted
  /\ ~DispatchException.accepted /\ ~BindFailed.accepted /\ ~RenderFailed.accepted
  /\ ~ServiceUnavailable.accepted /\ ~NotDispatched.accepted
BY DEF Clean, LateError, CallbackError, SequenceBroken, DispatchException,
       BindFailed, RenderFailed, ServiceUnavailable, NotDispatched

\* A call is done: what remains still prints, unless it was the one.
LEMMA CallDone ==
  ASSUME NEW leg \in Calls, leg # <<>>
  PROVE  /\ Tail(leg) \in Calls
         /\ Prints(leg) => Head(leg) = "body" \/ Prints(Tail(leg))
         /\ ~HasFlush(leg) => ~HasFlush(Tail(leg)) /\ Head(leg) # "flush"
<1>1. /\ Tail(leg) \in Calls /\ Len(leg) \in Nat \ {0} /\ Len(Tail(leg)) = Len(leg) - 1
      /\ Head(leg) = leg[1]
      /\ \A j \in 1..Len(Tail(leg)) : Tail(leg)[j] = leg[j + 1]
  BY DEF Calls
<1>2. ASSUME NEW j \in 1..Len(leg), leg[j] = "body"
      PROVE  Head(leg) = "body" \/ Prints(Tail(leg))
  <2>1. CASE j = 1
    BY <1>1, <1>2, <2>1
  <2>2. CASE j # 1
    <3>1. j - 1 \in 1..Len(Tail(leg)) /\ (j - 1) + 1 = j
      BY <1>1, <2>2
    <3>2. Tail(leg)[j - 1] = "body"
      BY <1>1, <1>2, <3>1
    <3> QED
      BY <3>1, <3>2, PrintsAt
  <2> QED
    BY <2>1, <2>2
<1>3. ASSUME NEW j \in 1..Len(Tail(leg)), Tail(leg)[j] = "flush"
      PROVE  HasFlush(leg)
  <2>1. j + 1 \in 1..Len(leg) /\ leg[j + 1] = "flush"
    BY <1>1, <1>3
  <2> QED
    BY <2>1 DEF HasFlush
<1>4. Head(leg) = "flush" => HasFlush(leg)
  <2>1. 1 \in 1..Len(leg)
    BY <1>1
  <2> QED
    BY <1>1, <2>1 DEF HasFlush
<1> QED
  BY <1>1, <1>2, <1>3, <1>4 DEF Prints, HasFlush

LEMMA NothingLeft == ~Prints(<<>>)
BY DEF Prints

\* A leg that may fail is one of robust's, or an experiment.
LEMMA WhoMayFail ==
  ASSUME PhaseInv, LegsInv, at = "run"
  PROVE  /\ plan \notin {"robust", "diagnostics"} => ~MayFail
         /\ plan = "robust" =>
              (MayFail <=> legs # <<BufferedText, SingleBlock, Segments>>)
<1>1. CASE plan \notin {"robust", "diagnostics"}
  <2>1. PICK leg \in Calls : Legs(plan) = <<leg>>
    BY <1>1, SingleLeg DEF PhaseInv
  <2>2. Len(Legs(plan)) = 1 /\ Len(legs) = 0
    BY <1>1, <2>1 DEF LegsInv
  <2> QED
    BY <1>1, <2>2 DEF MayFail
<1>2. CASE plan = "robust"
  <2>1. Len(Legs(plan)) = 4
    BY <1>2, RobustStart
  <2>2. Len(<<BufferedText, SingleBlock, Segments>>) = 3
    OBVIOUS
  <2>3. legs \in {<<SingleBlock, Segments>>, <<Segments>>, <<>>}
          => Len(legs) \in {0, 1, 2}
    OBVIOUS
  <2>4. \/ legs = <<BufferedText, SingleBlock, Segments>>
        \/ legs \in {<<SingleBlock, Segments>>, <<Segments>>, <<>>}
    BY <1>2 DEF LegsInv
  <2>5. legs # <<BufferedText, SingleBlock, Segments>> => Len(legs) \in {0, 1, 2}
    BY <2>3, <2>4
  <2>6. Len(legs) < 4 - 1 <=> legs # <<BufferedText, SingleBlock, Segments>>
    <3>1. CASE legs = <<BufferedText, SingleBlock, Segments>>
      BY <2>2, <3>1
    <3>2. CASE legs # <<BufferedText, SingleBlock, Segments>>
      <4>1. Len(legs) \in {0, 1, 2}
        BY <2>5, <3>2
      <4>2. Len(legs) < 4 - 1
        <5>1. \A n \in {0, 1, 2} : n < 4 - 1
          OBVIOUS
        <5> QED
          BY Zenon, <4>1, <5>1
      <4> QED
        BY Zenon, <3>2, <4>2
    <3> QED
      BY <3>1, <3>2
  <2> QED
    BY <1>2, <2>1, <2>6 DEF MayFail
<1> QED
  BY <1>1, <1>2

\* Robust goes on to its next leg.
LEMMA NextRobustLeg ==
  ASSUME legs \in {<<BufferedText, SingleBlock, Segments>>, <<SingleBlock, Segments>>,
                   <<Segments>>}
  PROVE  /\ Tail(legs) \in {<<SingleBlock, Segments>>, <<Segments>>, <<>>}
         /\ Head(legs) \in Calls /\ Prints(Head(legs)) /\ ~HasFlush(Head(legs))
<1>1. CASE legs = <<BufferedText, SingleBlock, Segments>>
  <2>1. Head(legs) = BufferedText /\ Tail(legs) = <<SingleBlock, Segments>>
    BY <1>1
  <2> QED
    BY <2>1, Pieces, RobustLegs
<1>2. CASE legs = <<SingleBlock, Segments>>
  <2>1. Head(legs) = SingleBlock /\ Tail(legs) = <<Segments>>
    BY <1>2
  <2> QED
    BY <2>1, Pieces, RobustLegs
<1>3. CASE legs = <<Segments>>
  <2>1. Head(legs) = Segments /\ Tail(legs) = <<>>
    BY <1>3
  <2> QED
    BY <2>1, Pieces, RobustLegs
<1> QED
  BY <1>1, <1>2, <1>3

-----------------------------------------------------------------------------
LEMMA TransportInvInit == TransportInit => TransportInv
<1> SUFFICES ASSUME TransportInit PROVE TransportInv
  OBVIOUS
<1>1. IsOfficial("receipt")
  BY OfficialPlans DEF IsOfficial
<1> QED
  BY <1>1 DEF TransportInit, TransportInv, PhaseInv, BoundInv, LegsInv, ReportInv,
     AllPlans

\* The connection: every step but those of the calls.
LEMMA ConnectionStep ==
  ASSUME TransportInv, TransportNext
  PROVE  PhaseInv' /\ BoundInv'
<1> USE TransportConstants DEF connection, printing, Report, Upset, BeginLeg
<1>0. PhaseInv /\ BoundInv
  BY DEF TransportInv
<1>1. ASSUME NEW p \in InUse, BeginDispatch(p) PROVE PhaseInv' /\ BoundInv'
  <2>1. p \in AllPlans
    BY DEF AllPlans
  <2>2. family' \in Nat /\ (family' = 0 <=> IsOfficial(p))
    BY <1>1 DEF BeginDispatch
  <2>5. IsOfficial(plan)' <=> IsOfficial(p)
    BY Zenon, <1>1 DEF BeginDispatch
  <2>6. at' = "search" /\ plan' \in AllPlans /\ errors' = 0 /\ seen' = 0 /\ out' = FALSE
    BY <1>1, <2>1 DEF BeginDispatch
  <2>3. PhaseInv'
    BY <2>2, <2>5, <2>6 DEF PhaseInv
  <2>4. BoundInv'
    BY <1>0, <1>1 DEF BeginDispatch, BoundInv
  <2> QED
    BY <2>3, <2>4
<1>2. CASE NextFamily
  BY <1>0, <1>2 DEF NextFamily, PhaseInv, BoundInv
<1>3. CASE Bind
  BY <1>0, <1>3 DEF Bind, PhaseInv, BoundInv
<1>4. CASE NoFamily
  BY <1>0, <1>4 DEF NoFamily, PhaseInv, BoundInv
<1>5. CASE ServiceConnected
  BY <1>0, <1>5 DEF ServiceConnected, PhaseInv, BoundInv
<1>6. CASE ServiceGone
  BY <1>0, <1>6 DEF ServiceGone, PhaseInv, BoundInv
<1>7. CASE LatchEnds
  BY <1>0, <1>7 DEF LatchEnds, PhaseInv, BoundInv
<1>8. CASE Adapt
  <2>1. bound \ {family} = {}
    BY <1>0 DEF BoundInv
  <2>2. PhaseInv'
    BY <1>0, <1>8 DEF Adapt, PhaseInv
  <2>3. BoundInv'
    BY <1>0, <1>8, <2>1 DEF Adapt, BoundInv
  <2> QED
    BY <2>2, <2>3
<1>9. CASE Close
  BY <1>0, <1>9 DEF Close, PhaseInv, BoundInv
<1>10. CASE Render
  BY <1>0, <1>10 DEF Render, PhaseInv, BoundInv
<1>11. CASE CallReturns
  <2>1. out' \in BOOLEAN
    BY Zenon, <1>0, <1>11 DEF CallReturns, PhaseInv
  <2> QED
    BY <1>0, <1>11, <2>1 DEF CallReturns, PhaseInv, BoundInv
<1>12. CASE CallThrows
  <2>1. out' \in BOOLEAN
    BY Zenon, <1>0, <1>12 DEF CallThrows, PhaseInv
  <2> QED
    BY <1>0, <1>12, <2>1 DEF CallThrows, LegFails, PhaseInv, BoundInv
<1>13. CASE CallbackReports
  BY <1>0, <1>13 DEF CallbackReports, PhaseInv, BoundInv
<1>14. CASE LegEnds
  BY <1>0, <1>14 DEF LegEnds, LegFails, PhaseInv, BoundInv
<1>15. CASE ReadErrors
  BY <1>0, <1>15 DEF ReadErrors, PhaseInv, BoundInv
<1> QED
  BY <1>1, <1>2, <1>3, <1>4, <1>5, <1>6, <1>7, <1>8, <1>9, <1>10, <1>11, <1>12,
     <1>13, <1>14, <1>15 DEF TransportNext

LEMMA LegsStep ==
  ASSUME TransportInv, TransportNext
  PROVE  LegsInv'
<1> USE DEF connection, printing, Report, Upset
<1>0. PhaseInv /\ LegsInv
  BY DEF TransportInv
<1>1. ASSUME NEW p \in InUse, BeginDispatch(p) PROVE LegsInv'
  BY <1>0, <1>1 DEF BeginDispatch, LegsInv
<1>2. CASE NextFamily
  BY <1>0, <1>2 DEF NextFamily, LegsInv
<1>3. CASE Bind
  BY <1>0, <1>3 DEF Bind, LegsInv
<1>4. CASE NoFamily
  BY <1>0, <1>4 DEF NoFamily, LegsInv
<1>5. CASE ServiceConnected
  BY <1>0, <1>5 DEF ServiceConnected, LegsInv
<1>6. CASE ServiceGone
  BY <1>0, <1>6 DEF ServiceGone, LegsInv
<1>7. CASE LatchEnds
  BY <1>0, <1>7 DEF LatchEnds, LegsInv
<1>8. CASE Adapt
  BY <1>0, <1>8 DEF Adapt, LegsInv
<1>9. CASE Close
  BY <1>0, <1>9 DEF Close, LegsInv
<1>10. CASE Render
  <2>1. CASE BeginLeg
    <3>0. /\ at' = "run" /\ todo' = Head(legs) /\ legs' = Tail(legs) /\ plan' = plan
          /\ out' = out /\ ~out /\ legs = Legs(plan) /\ plan \in AllPlans
      BY <1>0, <1>10, <2>1 DEF Render, BeginLeg, LegsInv, PhaseInv
    <3>1. CASE plan \notin {"robust", "diagnostics"}
      <4>1. PICK leg \in Calls : Legs(plan) = <<leg>> /\ (plan = "probe" \/ Prints(leg))
        BY <3>0, <3>1, SingleLeg
      <4>2. todo' = leg /\ legs' = <<>>
        BY <3>0, <4>1
      <4>3. Prints(todo)' \/ ProbesOnly(plan)'
        BY <3>0, <4>1, <4>2 DEF ProbesOnly
      <4>4. plan' # "robust" /\ at' # "reading" /\ todo' \in Calls
            /\ at' \notin {"search", "latch", "adapt", "render"}
        BY <3>0, <3>1, <4>2
      <4> QED
        BY Zenon, <4>2, <4>3, <4>4 DEF LegsInv
    <3>2. CASE plan = "robust"
      <4>1. todo' = <<"align">> /\ legs' = <<BufferedText, SingleBlock, Segments>>
        BY Zenon, <3>0, <3>2, RobustStart
      <4>2. todo' \in Calls /\ ~HasFlush(todo')
        BY <4>1, RobustLegs
      <4> QED
        BY <3>0, <3>2, <4>1, <4>2 DEF LegsInv
    <3>3. CASE plan = "diagnostics"
      BY <3>0, <3>3 DEF LegsInv
    <3> QED
      BY <3>1, <3>2, <3>3
  <2>2. CASE ~BeginLeg
    BY <1>10, <2>2 DEF Render, LegsInv
  <2> QED
    BY <2>1, <2>2
<1>11. CASE CallReturns
  <2>0. /\ at = "run" /\ at' = "run" /\ todo # <<>> /\ todo' = Tail(todo)
        /\ legs' = legs /\ plan' = plan
    BY <1>11 DEF CallReturns
  <2>1. /\ out => out'
        /\ Head(todo) = "body" => out'
    BY Zenon, <1>11 DEF CallReturns
  <2>2. CASE plan = "diagnostics"
    BY <2>0, <2>2 DEF LegsInv
  <2>3. CASE plan # "diagnostics"
    <3>1. todo \in Calls
      BY <1>0, <2>0, <2>3 DEF LegsInv
    <3>2. /\ todo' \in Calls
          /\ Prints(todo) => Head(todo) = "body" \/ Prints(todo')
          /\ ~HasFlush(todo) => ~HasFlush(todo')
      BY <2>0, <3>1, CallDone
    <3> QED
      BY <1>0, <2>0, <2>1, <2>3, <3>2 DEF LegsInv
  <2> QED
    BY <2>2, <2>3
<1>12. CASE CallThrows
  <2>0. at = "run" /\ todo # <<>> /\ plan' = plan
    BY <1>12 DEF CallThrows
  <2>1. CASE plan = "diagnostics"
    BY <1>12, <2>0, <2>1, OfficialPlans DEF CallThrows, LegsInv, LegFails, BeginLeg
  <2>2. CASE plan \notin {"robust", "diagnostics"}
    BY <1>0, <1>12, <2>0, <2>2, WhoMayFail DEF CallThrows, LegsInv
  <2>3. CASE plan = "robust" /\ ~MayFail
    BY <1>12, <2>0, <2>3 DEF CallThrows, LegsInv
  <2>4. CASE plan = "robust" /\ MayFail
    <3>1. /\ Head(todo) # "flush"
          /\ legs \in {<<SingleBlock, Segments>>, <<Segments>>, <<>>}
      BY <1>0, <2>0, <2>4, CallDone, WhoMayFail DEF LegsInv
    <3>2. LegFails
      BY <1>12, <2>4, <3>1 DEF CallThrows
    <3>3. CASE legs = <<>>
      BY <2>0, <3>2, <3>3 DEF LegFails, LegsInv
    <3>4. CASE legs # <<>>
      BY <2>0, <2>4, <3>1, <3>2, <3>4, NextRobustLeg DEF LegFails, BeginLeg, LegsInv
    <3> QED
      BY <3>3, <3>4
  <2> QED
    BY <2>1, <2>2, <2>3, <2>4
<1>13. CASE CallbackReports
  BY <1>0, <1>13 DEF CallbackReports, LegsInv
<1>14. CASE LegEnds
  <2>0. at = "run" /\ todo = <<>> /\ plan' = plan /\ out' = out
    BY <1>14 DEF LegEnds
  <2>1. CASE IsOfficial(plan)
    <3>1. plan \notin {"robust", "diagnostics"} /\ ~ProbesOnly(plan)
      BY <2>1, OfficialPlans
    <3>2. out
      BY <1>0, <2>0, <3>1, NothingLeft DEF LegsInv
    <3>3. ~LegBroke /\ ~MayFail
      BY <1>0, <2>0, <3>1, WhoMayFail DEF LegBroke
    <3>4. at' = "reading"
      BY <1>14, <2>1, <3>3 DEF LegEnds
    <3> QED
      BY <2>0, <2>1, <3>2, <3>4 DEF LegsInv
  <2>2. CASE ~IsOfficial(plan) /\ plan \notin {"robust", "diagnostics"}
    <3>1. LastLeg /\ ~LegBroke
      BY <1>0, <2>0, <2>2 DEF LegsInv, LastLeg, LegBroke
    <3> QED
      BY <1>14, <2>2, <3>1 DEF LegEnds, LegsInv
  <2>3. CASE plan = "diagnostics"
    BY <1>14, <2>0, <2>3, OfficialPlans
    DEF LegEnds, LegsInv, LegFails, LegBroke, BeginLeg
  <2>4. CASE plan = "robust"
    <3>0. /\ ~IsOfficial(plan)
          /\ legs \in {<<BufferedText, SingleBlock, Segments>>,
                       <<SingleBlock, Segments>>, <<Segments>>, <<>>}
      BY <1>0, <2>0, <2>4, OfficialPlans DEF LegsInv
    <3>1. CASE BeginLeg /\ legs # <<>>
      BY <2>0, <2>4, <3>0, <3>1, NextRobustLeg DEF BeginLeg, LegsInv
    <3>2. CASE at' = "close"
      BY <3>2 DEF LegsInv
    <3>3. (BeginLeg /\ legs # <<>>) \/ at' = "close"
      BY <1>14, <3>0 DEF LegEnds, LegFails, LastLeg
    <3> QED
      BY <3>1, <3>2, <3>3
  <2> QED
    BY <2>1, <2>2, <2>3, <2>4
<1>15. CASE ReadErrors
  BY <1>15 DEF ReadErrors, LegsInv
<1> QED
  BY <1>1, <1>2, <1>3, <1>4, <1>5, <1>6, <1>7, <1>8, <1>9, <1>10, <1>11, <1>12,
     <1>13, <1>14, <1>15 DEF TransportNext

LEMMA ReportStep ==
  ASSUME TransportInv, TransportNext
  PROVE  ReportInv'
<1> USE DEF connection, printing, Upset
<1>0. PhaseInv /\ LegsInv /\ ReportInv
  BY DEF TransportInv
<1>1. CASE at' \notin {"close", "idle"}
  BY <1>1 DEF ReportInv
<1>2. CASE Close
  BY <1>0, <1>2 DEF Close, ReportInv
<1>r. ASSUME plan' = plan, out' = out, ~out,
             report' \in IF IsOfficial(plan) THEN {BindFailed}
                         ELSE {ServiceUnavailable, NotDispatched, RenderFailed}
      PROVE  ReportInv'
  BY <1>r, ReportsSay DEF ReportInv, OfficialReports, LegacyReports
<1>s. ASSUME plan' = plan,
             report' \in {CallbackError, SequenceBroken}
               \cup (IF IsOfficial(plan) THEN {} ELSE {DispatchException})
      PROVE  ReportInv'
  BY <1>s, ReportsSay DEF ReportInv, OfficialReports, LegacyReports
<1>t. ASSUME plan' = plan, out' \/ ProbesOnly(plan),
             report' \in {Clean} \cup (IF IsOfficial(plan) THEN {LateError} ELSE {})
      PROVE  ReportInv'
  BY <1>t, ReportsSay DEF ReportInv, OfficialReports, LegacyReports
<1>4. CASE NoFamily
  <2>1. family > NumFamilies => ~IsOfficial(plan)
    BY <1>0, TransportConstants DEF PhaseInv
  <2> QED
    BY <1>0, <1>4, <1>r, <2>1 DEF NoFamily, Report, LegsInv, PhaseInv
<1>8. CASE Adapt /\ at' = "close"
  BY <1>0, <1>8, <1>r DEF Adapt, Report, LegsInv, PhaseInv
<1>10. CASE Render /\ at' = "close"
  BY <1>0, <1>10, <1>r DEF Render, BeginLeg, Report, LegsInv
<1>11. CASE LegFails /\ at' = "close" /\ plan' = plan
                     /\ (plan = "robust" \/ ProbesOnly(plan))
  BY <1>11, <1>s, <1>t DEF LegFails, BeginLeg, Report
<1>12. CASE CallThrows /\ at' = "close"
  <2>0. plan' = plan /\ at = "run"
    BY <1>12 DEF CallThrows
  <2>1. CASE MayFail
    <3>1. LegFails
      BY <1>12, <2>0, <2>1 DEF CallThrows
    <3>2. plan = "robust" \/ ProbesOnly(plan)
      BY <1>0, <2>0, <2>1, WhoMayFail DEF ProbesOnly
    <3> QED
      BY <1>11, <1>12, <2>0, <3>1, <3>2
  <2>2. CASE ~MayFail
    BY <1>12, <1>s, <2>0, <2>2 DEF CallThrows, Report
  <2> QED
    BY <2>1, <2>2
<1>14. CASE LegEnds /\ at' = "close"
  <2>0. plan' = plan /\ out' = out /\ at = "run" /\ todo = <<>>
    BY <1>14 DEF LegEnds
  <2>1. CASE LegBroke /\ LegFails
    BY <1>11, <1>14, <2>0, <2>1 DEF LegBroke
  <2>2. CASE LastLeg /\ ~IsOfficial(plan)
               /\ report' = IF errors > 0 THEN CallbackError ELSE Clean
    <3>1. out \/ ProbesOnly(plan)
      <4>1. CASE plan = "robust"
        <5>1. legs # <<BufferedText, SingleBlock, Segments>>
          BY <1>0, <2>0, <2>2, <4>1, WhoMayFail DEF LastLeg
        <5> QED
          BY <1>0, <2>0, <4>1, <5>1, NothingLeft DEF LegsInv
      <4>2. CASE plan # "robust"
        BY <1>0, <2>0, <4>2, NothingLeft DEF LegsInv, ProbesOnly
      <4> QED
        BY <4>1, <4>2
    <3> QED
      BY <1>s, <1>t, <2>0, <2>2, <3>1
  <2> QED
    BY <1>14, <2>1, <2>2 DEF LegEnds, Report, BeginLeg
<1>15. CASE ReadErrors
  BY <1>0, <1>15, <1>s, <1>t DEF ReadErrors, Report, LegsInv
<1>3. CASE \/ \E p \in InUse : BeginDispatch(p)
           \/ NextFamily \/ Bind \/ ServiceConnected \/ ServiceGone \/ LatchEnds
           \/ CallReturns \/ CallbackReports
  <2>1. at' \notin {"close", "idle"}
    BY <1>3 DEF BeginDispatch, NextFamily, Bind, ServiceConnected, ServiceGone,
       LatchEnds, CallReturns, CallbackReports
  <2> QED
    BY <1>1, <2>1
<1>5. Adapt \/ Render \/ CallThrows \/ LegEnds => at' # "idle"
  BY DEF Adapt, Render, CallThrows, LegEnds, LegFails, BeginLeg, Report
<1> QED
  BY <1>1, <1>2, <1>3, <1>5, <1>4, <1>8, <1>10, <1>12, <1>14, <1>15 DEF TransportNext
-----------------------------------------------------------------------------
(***************************************************************************)
(* What the queue counts on when it retries holds for every plan, any      *)
(* number of service families, and whatever throws, disconnects or is      *)
(* reported meanwhile.                                                     *)
(***************************************************************************)
THEOREM TransportKeepsContract == TransportSpec => []TransportContract
<1>1. TransportInv /\ [TransportNext]_transportVars => TransportInv'
  <2>1. TransportInv /\ TransportNext => TransportInv'
    BY ConnectionStep, LegsStep, ReportStep DEF TransportInv
  <2>2. TransportInv /\ UNCHANGED transportVars => TransportInv'
    BY DEF TransportInv, PhaseInv, BoundInv, LegsInv, ReportInv, transportVars,
       connection, printing, IsOfficial
  <2> QED
    BY <2>1, <2>2
<1>2. TransportInv => TransportContract
  BY DEF TransportInv, BoundInv, ReportInv, TransportContract
<1> QED
  BY <1>1, <1>2, TransportInvInit, PTL DEF TransportSpec

-----------------------------------------------------------------------------
(***************************************************************************)
(* The queue.                                                              *)
(***************************************************************************)
USE CommandsAssumption, ManagersAssumption, AttemptsAssumption, PathAssumption

-----------------------------------------------------------------------------
(***************************************************************************)
(* The inductive invariant, in named parts.                                *)
(***************************************************************************)

\* The draining flag of a manager is set exactly while a drain task waits in
\* its executor or runs, up to the point where the finally block clears it;
\* and at most one task waits, never while another one is before that point.
FlagInv ==
  \A m \in Managers :
    /\ draining[m] <=> \/ pending[m]
                       \/ pc[m] \in {"query", "mark", "dispatch", "persist",
                                     "finish"}
    /\ pending[m] => pc[m] \in {"idle", "recheck", "reschedule"}

\* What the threads hold between their steps.
LocalsInv ==
  /\ recon => cur \in Managers
  /\ up => cur \in Managers
  /\ bridge.pc # "idle" => bridge.mgr \in Managers
  /\ bridge.pc = "write" => bridge.cmd \in Commands
  /\ \A m \in Managers :
       /\ pc[m] \in {"mark", "dispatch", "persist"} => cmd[m] \in Commands
       /\ pc[m] \in {"mark", "dispatch"} => row[m].state = "DISPATCHING"
       /\ pc[m] = "persist" => row[m].state # "DISPATCHING"

\* A queued row, on disk or about to be persisted, has attempts left.
BudgetInv ==
  /\ \A c \in Commands :
       job[c].state = "QUEUED" => job[c].attempts < MaxAttempts
  /\ \A m \in Managers :
       row[m].state = "QUEUED" => row[m].attempts < MaxAttempts

\* What type correctness needs.
BaseInv == TypeOK /\ LocalsInv /\ BudgetInv

QueueInv == BaseInv /\ FlagInv /\ NoLostWakeup /\ WorkerOwnsDispatching
-----------------------------------------------------------------------------
(***************************************************************************)
(* Lemmas about rows.                                                      *)
(***************************************************************************)
LEMMA RowConstants == NoRow \in Row /\ NewRow \in Row
BY DEF NoRow, NewRow, Row, States

\* The rows the reconciliation, an operator retry and the drain loop make out
\* of the one they read.
LEMMA RowCopies ==
  ASSUME NEW r \in Row
  PROVE  /\ [r EXCEPT !.state = "NEEDS_ATTENTION", !.retryable = TRUE,
                       !.next = "none"] \in Row
         /\ [r EXCEPT !.state = "QUEUED", !.attempts = 0, !.next = "none"] \in Row
         /\ r.attempts < MaxAttempts =>
              [r EXCEPT !.state = "DISPATCHING", !.attempts = @ + 1] \in Row
<1>1. [r EXCEPT !.state = "NEEDS_ATTENTION", !.retryable = TRUE,
                !.next = "none"] \in Row
  BY DEF Row, States
<1>2. [r EXCEPT !.state = "QUEUED", !.attempts = 0, !.next = "none"] \in Row
  <2>1. 0 \in 0..MaxAttempts
    OBVIOUS
  <2> QED
    BY <2>1 DEF Row, States
<1>3. ASSUME r.attempts < MaxAttempts
      PROVE  [r EXCEPT !.state = "DISPATCHING", !.attempts = @ + 1] \in Row
  <2>1. r.attempts + 1 \in 0..MaxAttempts
    BY <1>3 DEF Row
  <2> QED
    BY <2>1 DEF Row, States
<1> QED
  BY <1>1, <1>2, <1>3

\* A verdict is a state a worker may write: never DISPATCHING, QUEUED only
\* within the budget.
LEMMA VerdictStates ==
  ASSUME NEW n \in 0..MaxAttempts, NEW rep
  PROVE  /\ Verdict(n, rep) \in States \ {"ABSENT", "DISPATCHING"}
         /\ Verdict(n, rep) = "QUEUED" => n < MaxAttempts
BY DEF Verdict, States

LEMMA OutcomeRow ==
  ASSUME NEW r \in Row, NEW rep
  PROVE  /\ Outcome(r, rep) \in Row
         /\ Outcome(r, rep).state \notin {"ABSENT", "DISPATCHING"}
         /\ Outcome(r, rep).attempts = r.attempts
         /\ Outcome(r, rep).state = "QUEUED" =>
              /\ Outcome(r, rep).attempts < MaxAttempts
              /\ Outcome(r, rep).next # "none"
<1>1. r.attempts \in 0..MaxAttempts
  BY DEF Row
<1> DEFINE s == Verdict(r.attempts, rep)
<1>2. /\ s \in States \ {"ABSENT", "DISPATCHING"}
      /\ s = "QUEUED" => r.attempts < MaxAttempts
  BY <1>1, VerdictStates
<1>3. Outcome(r, rep) =
        [state |-> s, attempts |-> r.attempts,
         retryable |-> s \in {"QUEUED", "NEEDS_ATTENTION"},
         next |-> IF s = "QUEUED" THEN "later" ELSE "none"]
  BY DEF Outcome
<1> HIDE DEF s
<1>4. (s \in {"QUEUED", "NEEDS_ATTENTION"}) \in BOOLEAN
  OBVIOUS
<1>5. (IF s = "QUEUED" THEN "later" ELSE "none") \in {"none", "later", "due"}
  OBVIOUS
<1> QED
  BY <1>1, <1>2, <1>3, <1>4, <1>5 DEF Row
-----------------------------------------------------------------------------
(***************************************************************************)
(* Types, locals and budgets.                                              *)
(***************************************************************************)
LEMMA BaseInit == Init => BaseInv
<1> SUFFICES ASSUME Init PROVE BaseInv
  OBVIOUS
<1>1. TypeOK
  <2>1. bridge \in [pc : {"idle", "write", "schedule"},
                     mgr : Managers \cup {NoManager},
                     cmd : Commands \cup {NoCommand}, row : Row]
    BY RowConstants DEF Init, IdleBridge
  <2>2. /\ job \in [Commands -> Row] /\ snap \in [Commands -> Row]
        /\ row \in [Managers -> Row]
    BY RowConstants DEF Init
  <2>3. submitted \in 0..NumCommands /\ printed \in [Commands -> 0..2]
    BY DEF Init
  <2>4. /\ draining \in [Managers -> BOOLEAN] /\ pending \in [Managers -> BOOLEAN]
        /\ pc \in [Managers -> PCs] /\ up \in BOOLEAN /\ recon \in BOOLEAN
        /\ cmd \in [Managers -> Commands \cup {NoCommand}]
        /\ cur \in Managers \cup {NoManager}
    BY DEF Init, PCs
  <2> QED
    BY <2>1, <2>2, <2>3, <2>4 DEF TypeOK
<1>2. LocalsInv /\ BudgetInv
  BY DEF Init, LocalsInv, BudgetInv, NoRow, IdleBridge
<1> QED
  BY <1>1, <1>2 DEF BaseInv

LEMMA BaseStep == BaseInv /\ [Next]_vars => BaseInv'
<1> SUFFICES ASSUME BaseInv, [Next]_vars PROVE BaseInv'
  OBVIOUS
<1> USE RowConstants
<1>0. TypeOK /\ LocalsInv /\ BudgetInv
  BY DEF BaseInv
<1>1. ASSUME StartProcess PROVE BaseInv'
  <2>1. TypeOK'
    BY <1>1, <1>0 DEF TypeOK, StartProcess, ConstructManager, disk, threads
  <2>2. LocalsInv'
    BY <1>1, <1>0 DEF LocalsInv, TypeOK, StartProcess, ConstructManager, disk,
       threads
  <2>3. BudgetInv'
    BY <1>1, <1>0 DEF BudgetInv, TypeOK, StartProcess, ConstructManager, disk,
       threads
  <2> QED
    BY <2>1, <2>2, <2>3 DEF BaseInv
<1>2. ASSUME Crash PROVE BaseInv'
  <2>1. TypeOK'
    BY <1>2, <1>0 DEF TypeOK, Crash, disk, IdleBridge, NoRow, PCs
  <2>2. LocalsInv'
    BY <1>2, <1>0 DEF LocalsInv, TypeOK, Crash, disk, IdleBridge, NoRow, PCs
  <2>3. BudgetInv'
    BY <1>2, <1>0 DEF BudgetInv, TypeOK, Crash, disk, IdleBridge, NoRow, PCs
  <2> QED
    BY <2>1, <2>2, <2>3 DEF BaseInv
<1>3. ASSUME NEW m \in Managers, RecreateActivity(m) PROVE BaseInv'
  <2>1. TypeOK'
    BY <1>3, <1>0 DEF TypeOK, RecreateActivity, ConstructManager, disk, threads
  <2>2. LocalsInv'
    BY <1>3, <1>0 DEF LocalsInv, TypeOK, RecreateActivity, ConstructManager,
       disk, threads
  <2>3. BudgetInv'
    BY <1>3, <1>0 DEF BudgetInv, TypeOK, RecreateActivity, ConstructManager,
       disk, threads
  <2> QED
    BY <2>1, <2>2, <2>3 DEF BaseInv
<1>4. ASSUME NEW c \in Commands, ReconcileJob(c) PROVE BaseInv'
  <2>1. TypeOK'
    <3>1. /\ job' = [job EXCEPT ![c] = job'[c]]
          /\ job'[c] \in Row
      BY <1>4, <1>0, RowCopies DEF TypeOK, ReconcileJob
    <3> QED
      BY <1>4, <1>0, <3>1 DEF TypeOK, ReconcileJob, threads
  <2>2. LocalsInv'
    BY <1>4, <1>0 DEF LocalsInv, TypeOK, ReconcileJob, threads, Row, States
  <2>3. BudgetInv'
    BY <1>4, <1>0 DEF BudgetInv, TypeOK, ReconcileJob, threads, Row, States
  <2> QED
    BY <2>1, <2>2, <2>3 DEF BaseInv
<1>5. ASSUME ReconcileResume PROVE BaseInv'
  <2>1. TypeOK'
    BY <1>5, <1>0 DEF TypeOK, ReconcileResume, ScheduleDrain, disk
  <2>2. LocalsInv'
    BY <1>5, <1>0 DEF LocalsInv, TypeOK, ReconcileResume, ScheduleDrain, disk
  <2>3. BudgetInv'
    BY <1>5, <1>0 DEF BudgetInv, TypeOK, ReconcileResume, ScheduleDrain, disk
  <2> QED
    BY <2>1, <2>2, <2>3 DEF BaseInv
<1>6. ASSUME SubmitPrintCommand PROVE BaseInv'
  <2>1. TypeOK'
    <3>1. submitted + 1 \in Commands /\ submitted' \in 0..NumCommands
      BY <1>6, <1>0 DEF TypeOK, SubmitPrintCommand, Commands
    <3>2. job' \in [Commands -> Row]
      BY <1>6, <1>0, <3>1 DEF TypeOK, SubmitPrintCommand
    <3>3. bridge' \in [pc : {"idle", "write", "schedule"},
                       mgr : Managers \cup {NoManager},
                       cmd : Commands \cup {NoCommand}, row : Row]
      BY <1>6, <1>0 DEF TypeOK, SubmitPrintCommand, IdleBridge
    <3> QED
      BY <1>6, <1>0, <3>1, <3>2, <3>3 DEF TypeOK, SubmitPrintCommand, threads
  <2>2. LocalsInv'
    BY <1>6, <1>0 DEF LocalsInv, TypeOK, SubmitPrintCommand, BridgeFree,
       threads, Commands, IdleBridge, NewRow
  <2>3. BudgetInv'
    <3>1. NewRow.attempts < MaxAttempts
      BY DEF NewRow
    <3>2. \A c \in Commands : job'[c] = job[c] \/ job'[c] = NewRow
      BY <1>6, <1>0 DEF TypeOK, SubmitPrintCommand
    <3> QED
      BY <1>6, <1>0, <3>1, <3>2 DEF BudgetInv, SubmitPrintCommand, threads
  <2> QED
    BY <2>1, <2>2, <2>3 DEF BaseInv
<1>7. ASSUME NEW c \in Commands, RetryRead(c) PROVE BaseInv'
  <2>1. TypeOK'
    BY <1>7, <1>0 DEF TypeOK, RetryRead, BridgeFree, disk, threads
  <2>2. LocalsInv'
    BY <1>7, <1>0 DEF LocalsInv, TypeOK, RetryRead, BridgeFree, disk, threads
  <2>3. BudgetInv'
    BY <1>7, <1>0 DEF BudgetInv, TypeOK, RetryRead, BridgeFree, disk, threads
  <2> QED
    BY <2>1, <2>2, <2>3 DEF BaseInv
<1>8. ASSUME RetryWrite PROVE BaseInv'
  <2>1. TypeOK'
    <3>1. bridge.row \in Row /\ bridge.cmd \in Commands /\ bridge.mgr \in Managers
      BY <1>8, <1>0 DEF TypeOK, LocalsInv, RetryWrite
    <3>2. job' \in [Commands -> Row]
      BY <1>8, <1>0, <3>1, RowCopies DEF TypeOK, RetryWrite
    <3>3. printed' \in [Commands -> 0..2]
      <4>1. printed \in [Commands -> 0..2]
        BY <1>0 DEF TypeOK
      <4>2. printed' = [printed EXCEPT ![bridge.cmd] = 0]
        BY <1>8 DEF RetryWrite
      <4> QED
        BY <3>1, <4>1, <4>2
    <3>4. bridge' \in [pc : {"idle", "write", "schedule"},
                       mgr : Managers \cup {NoManager},
                       cmd : Commands \cup {NoCommand}, row : Row]
      BY <1>8, <1>0, <3>1 DEF TypeOK, RetryWrite, IdleBridge
    <3> QED
      BY <1>8, <1>0, <3>2, <3>3, <3>4 DEF TypeOK, RetryWrite, threads
  <2>2. LocalsInv'
    BY <1>8, <1>0 DEF LocalsInv, TypeOK, RetryWrite, threads, IdleBridge, Row,
       States
  <2>3. BudgetInv'
    BY <1>8, <1>0 DEF BudgetInv, TypeOK, RetryWrite, threads, IdleBridge, Row,
       States
  <2> QED
    BY <2>1, <2>2, <2>3 DEF BaseInv
<1>9. ASSUME BridgeSchedule PROVE BaseInv'
  <2>1. TypeOK'
    BY <1>9, <1>0 DEF TypeOK, BridgeSchedule, ScheduleDrain, IdleBridge, disk
  <2>2. LocalsInv'
    BY <1>9, <1>0 DEF LocalsInv, TypeOK, BridgeSchedule, ScheduleDrain,
       IdleBridge, disk
  <2>3. BudgetInv'
    BY <1>9, <1>0 DEF BudgetInv, TypeOK, BridgeSchedule, ScheduleDrain,
       IdleBridge, disk
  <2> QED
    BY <2>1, <2>2, <2>3 DEF BaseInv
<1>10. ASSUME NEW m \in Managers, BeginDrain(m) PROVE BaseInv'
  <2>1. TypeOK'
    BY <1>10, <1>0 DEF TypeOK, BeginDrain, Goto, disk, PCs
  <2>2. LocalsInv'
    BY <1>10, <1>0 DEF LocalsInv, TypeOK, BeginDrain, Goto, disk, PCs
  <2>3. BudgetInv'
    BY <1>10, <1>0 DEF BudgetInv, TypeOK, BeginDrain, Goto, disk, PCs
  <2> QED
    BY <2>1, <2>2, <2>3 DEF BaseInv
<1>11. ASSUME NEW m \in Managers, PickJob(m) PROVE BaseInv'
  <2>1. TypeOK'
    <3>1. PICK c \in Commands :
            /\ NextRunnable(c)
            /\ cmd' = [cmd EXCEPT ![m] = c]
            /\ row' = [row EXCEPT ![m] = [job[c] EXCEPT
                         !.state = "DISPATCHING", !.attempts = @ + 1]]
      BY <1>11 DEF PickJob
    <3>2. job[c] \in Row /\ job[c].attempts < MaxAttempts
      BY <1>0, <3>1 DEF TypeOK, BudgetInv, NextRunnable, Runnable
    <3>3. row' \in [Managers -> Row]
      BY <1>0, <3>1, <3>2, RowCopies DEF TypeOK
    <3> QED
      BY <1>11, <1>0, <3>1, <3>3 DEF TypeOK, PickJob, Goto, disk, PCs
  <2>2. LocalsInv'
    BY <1>11, <1>0 DEF LocalsInv, TypeOK, PickJob, Goto, NextRunnable,
       Runnable, disk, PCs, Row, States
  <2>3. BudgetInv'
    BY <1>11, <1>0 DEF BudgetInv, TypeOK, PickJob, Goto, NextRunnable,
       Runnable, disk, PCs, Row, States
  <2> QED
    BY <2>1, <2>2, <2>3 DEF BaseInv
<1>12. ASSUME NEW m \in Managers, NothingRunnable(m) PROVE BaseInv'
  <2>1. TypeOK'
    BY <1>12, <1>0 DEF TypeOK, NothingRunnable, Goto, disk, PCs
  <2>2. LocalsInv'
    BY <1>12, <1>0 DEF LocalsInv, TypeOK, NothingRunnable, Goto, disk, PCs
  <2>3. BudgetInv'
    BY <1>12, <1>0 DEF BudgetInv, TypeOK, NothingRunnable, Goto, disk, PCs
  <2> QED
    BY <2>1, <2>2, <2>3 DEF BaseInv
<1>13. ASSUME NEW m \in Managers, MarkDispatching(m) PROVE BaseInv'
  <2>1. TypeOK'
    BY <1>13, <1>0 DEF TypeOK, MarkDispatching, Goto, PCs
  <2>2. LocalsInv'
    BY <1>13, <1>0 DEF LocalsInv, TypeOK, MarkDispatching, Goto, PCs
  <2>3. BudgetInv'
    BY <1>13, <1>0 DEF BudgetInv, TypeOK, MarkDispatching, Goto, PCs
  <2> QED
    BY <2>1, <2>2, <2>3 DEF BaseInv
<1>14. ASSUME NEW m \in Managers, Dispatch(m) PROVE BaseInv'
  <2>1. TypeOK'
    <3>1. row' \in [Managers -> Row]
      BY <1>14, <1>0, OutcomeRow DEF TypeOK, Dispatch
    <3>2. printed' \in [Commands -> 0..2]
      <4>1. cmd[m] \in Commands /\ printed \in [Commands -> 0..2]
        BY <1>14, <1>0 DEF TypeOK, LocalsInv, Dispatch, Goto
      <4>2. \/ printed' = printed
            \/ /\ printed[cmd[m]] < 2
               /\ printed' = [printed EXCEPT ![cmd[m]] = @ + 1]
        BY <1>14 DEF Dispatch
      <4> QED
        BY <4>1, <4>2
    <3> QED
      BY <1>14, <1>0, <3>1, <3>2 DEF TypeOK, Dispatch, Goto, PCs
  <2>2. LocalsInv'
    BY <1>14, <1>0, OutcomeRow DEF LocalsInv, TypeOK, Dispatch, Goto, PCs
  <2>3. BudgetInv'
    BY <1>14, <1>0, OutcomeRow DEF BudgetInv, TypeOK, Dispatch, Goto, PCs
  <2> QED
    BY <2>1, <2>2, <2>3 DEF BaseInv
<1>15. ASSUME NEW m \in Managers, PersistResult(m) PROVE BaseInv'
  <2>1. TypeOK'
    BY <1>15, <1>0 DEF TypeOK, PersistResult, Goto, PCs, NoRow
  <2>2. LocalsInv'
    BY <1>15, <1>0 DEF LocalsInv, TypeOK, PersistResult, Goto, PCs, NoRow
  <2>3. BudgetInv'
    BY <1>15, <1>0 DEF BudgetInv, TypeOK, PersistResult, Goto, PCs, NoRow
  <2> QED
    BY <2>1, <2>2, <2>3 DEF BaseInv
<1>16. ASSUME NEW m \in Managers, FinishDrain(m) PROVE BaseInv'
  <2>1. TypeOK'
    BY <1>16, <1>0 DEF TypeOK, FinishDrain, Goto, disk, PCs
  <2>2. LocalsInv'
    BY <1>16, <1>0 DEF LocalsInv, TypeOK, FinishDrain, Goto, disk, PCs
  <2>3. BudgetInv'
    BY <1>16, <1>0 DEF BudgetInv, TypeOK, FinishDrain, Goto, disk, PCs
  <2> QED
    BY <2>1, <2>2, <2>3 DEF BaseInv
<1>17. ASSUME NEW m \in Managers, Recheck(m) PROVE BaseInv'
  <2>1. TypeOK'
    BY <1>17, <1>0 DEF TypeOK, Recheck, Goto, disk, PCs
  <2>2. LocalsInv'
    BY <1>17, <1>0 DEF LocalsInv, TypeOK, Recheck, Goto, disk, PCs
  <2>3. BudgetInv'
    BY <1>17, <1>0 DEF BudgetInv, TypeOK, Recheck, Goto, disk, PCs
  <2> QED
    BY <2>1, <2>2, <2>3 DEF BaseInv
<1>18. ASSUME NEW m \in Managers, Reschedule(m) PROVE BaseInv'
  <2>1. TypeOK'
    BY <1>18, <1>0 DEF TypeOK, Reschedule, ScheduleDrain, Goto, disk, PCs
  <2>2. LocalsInv'
    BY <1>18, <1>0 DEF LocalsInv, TypeOK, Reschedule, ScheduleDrain, Goto,
       disk, PCs
  <2>3. BudgetInv'
    BY <1>18, <1>0 DEF BudgetInv, TypeOK, Reschedule, ScheduleDrain, Goto,
       disk, PCs
  <2> QED
    BY <2>1, <2>2, <2>3 DEF BaseInv
<1>19. ASSUME NEW c \in Commands, BackoffElapses(c) PROVE BaseInv'
  <2>1. TypeOK'
    <3>1. [job[c] EXCEPT !.next = "due"] \in Row
      <4>1. job[c] \in Row
        BY <1>0 DEF TypeOK
      <4> QED
        BY <4>1 DEF Row
    <3>2. job' = [job EXCEPT ![c] = [job[c] EXCEPT !.next = "due"]]
      BY <1>19 DEF BackoffElapses
    <3>3. job' \in [Commands -> Row]
      BY <1>0, <3>1, <3>2 DEF TypeOK
    <3> QED
      BY <1>19, <1>0, <3>3 DEF TypeOK, BackoffElapses, threads
  <2>2. LocalsInv'
    BY <1>19, <1>0 DEF LocalsInv, TypeOK, BackoffElapses, threads, Row
  <2>3. BudgetInv'
    BY <1>19, <1>0 DEF BudgetInv, TypeOK, BackoffElapses, threads, Row
  <2> QED
    BY <2>1, <2>2, <2>3 DEF BaseInv
<1>20. CASE UNCHANGED vars
  BY <1>0, <1>20 DEF BaseInv, TypeOK, LocalsInv, BudgetInv, vars, disk, threads
<1> QED
  BY <1>1, <1>2, <1>3, <1>4, <1>5, <1>6, <1>7, <1>8, <1>9, <1>10, <1>11,
     <1>12, <1>13, <1>14, <1>15, <1>16, <1>17, <1>18, <1>19, <1>20 DEF Next,
     Worker

(***************************************************************************)
(* Type correctness, with the attempt budget in the type of a row, for any *)
(* number of commands, managers and attempts: however many automatic and   *)
(* operator retries, restarts and recreated activities there are, no       *)
(* attempt is begun beyond MaxAttempts.                                    *)
(***************************************************************************)
THEOREM TypeCorrect == Spec => []TypeOK
<1>1. BaseInv => TypeOK
  BY DEF BaseInv
<1> QED
  BY <1>1, BaseInit, BaseStep, PTL DEF Spec
-----------------------------------------------------------------------------
(***************************************************************************)
(* The draining flag.                                                      *)
(***************************************************************************)
LEMMA FlagStep == BaseInv /\ FlagInv /\ [Next]_vars => FlagInv'
<1> SUFFICES ASSUME BaseInv, FlagInv, [Next]_vars PROVE FlagInv'
  OBVIOUS
<1>0. TypeOK /\ LocalsInv
  BY DEF BaseInv
<1>1. ASSUME StartProcess PROVE FlagInv'
  BY <1>1, <1>0 DEF FlagInv, TypeOK, LocalsInv, StartProcess,
     ConstructManager, disk, threads
<1>2. ASSUME Crash PROVE FlagInv'
  BY <1>2, <1>0 DEF FlagInv, TypeOK, LocalsInv, Crash, disk
<1>3. ASSUME NEW m \in Managers, RecreateActivity(m) PROVE FlagInv'
  BY <1>3, <1>0 DEF FlagInv, TypeOK, LocalsInv, RecreateActivity,
     ConstructManager, disk, threads
<1>4. ASSUME NEW c \in Commands, ReconcileJob(c) PROVE FlagInv'
  BY <1>4, <1>0 DEF FlagInv, TypeOK, LocalsInv, ReconcileJob, threads
<1>5. ASSUME ReconcileResume PROVE FlagInv'
  BY <1>5, <1>0 DEF FlagInv, TypeOK, LocalsInv, ReconcileResume, PCs,
     ScheduleDrain, disk
<1>6. ASSUME SubmitPrintCommand PROVE FlagInv'
  BY <1>6, <1>0 DEF FlagInv, TypeOK, LocalsInv, SubmitPrintCommand, threads
<1>7. ASSUME NEW c \in Commands, RetryRead(c) PROVE FlagInv'
  BY <1>7, <1>0 DEF FlagInv, TypeOK, LocalsInv, RetryRead, disk, threads
<1>8. ASSUME RetryWrite PROVE FlagInv'
  BY <1>8, <1>0 DEF FlagInv, TypeOK, LocalsInv, RetryWrite, threads
<1>9. ASSUME BridgeSchedule PROVE FlagInv'
  BY <1>9, <1>0 DEF FlagInv, TypeOK, LocalsInv, BridgeSchedule, PCs,
     ScheduleDrain, disk
<1>10. ASSUME NEW m \in Managers, BeginDrain(m) PROVE FlagInv'
  BY <1>10, <1>0 DEF FlagInv, TypeOK, LocalsInv, BeginDrain, Goto, disk
<1>11. ASSUME NEW m \in Managers, PickJob(m) PROVE FlagInv'
  BY <1>11, <1>0 DEF FlagInv, TypeOK, LocalsInv, PickJob, Goto, disk
<1>12. ASSUME NEW m \in Managers, NothingRunnable(m) PROVE FlagInv'
  BY <1>12, <1>0 DEF FlagInv, TypeOK, LocalsInv, NothingRunnable, Goto, disk
<1>13. ASSUME NEW m \in Managers, MarkDispatching(m) PROVE FlagInv'
  BY <1>13, <1>0 DEF FlagInv, TypeOK, LocalsInv, MarkDispatching, Goto
<1>14. ASSUME NEW m \in Managers, Dispatch(m) PROVE FlagInv'
  BY <1>14, <1>0 DEF FlagInv, TypeOK, LocalsInv, Dispatch, Goto
<1>15. ASSUME NEW m \in Managers, PersistResult(m) PROVE FlagInv'
  BY <1>15, <1>0 DEF FlagInv, TypeOK, LocalsInv, PersistResult, Goto
<1>16. ASSUME NEW m \in Managers, FinishDrain(m) PROVE FlagInv'
  BY <1>16, <1>0 DEF FlagInv, TypeOK, LocalsInv, FinishDrain, Goto, disk
<1>17. ASSUME NEW m \in Managers, Recheck(m) PROVE FlagInv'
  BY <1>17, <1>0 DEF FlagInv, TypeOK, LocalsInv, Recheck, Goto, disk
<1>18. ASSUME NEW m \in Managers, Reschedule(m) PROVE FlagInv'
  BY <1>18, <1>0 DEF FlagInv, TypeOK, LocalsInv, Reschedule, Goto, PCs,
     ScheduleDrain, disk
<1>19. ASSUME NEW c \in Commands, BackoffElapses(c) PROVE FlagInv'
  BY <1>19, <1>0 DEF FlagInv, TypeOK, LocalsInv, BackoffElapses, threads
<1>20. CASE UNCHANGED vars
  BY <1>20 DEF FlagInv, vars, threads
<1> QED
  BY <1>1, <1>2, <1>3, <1>4, <1>5, <1>6, <1>7, <1>8, <1>9, <1>10, <1>11,
  <1>12, <1>13, <1>14, <1>15, <1>16, <1>17, <1>18, <1>19, <1>20 DEF Next,
  Worker
-----------------------------------------------------------------------------
(***************************************************************************)
(* No lost wake-up.                                                        *)
(***************************************************************************)

\* What each step has to show: a job that waits without back-off either
\* waited before, when someone was due to look, or is put there by a thread
\* that is about to schedule.
LEMMA WakeupStep ==
  BaseInv /\ FlagInv /\ NoLostWakeup /\ [Next]_vars => NoLostWakeup'
<1> SUFFICES ASSUME BaseInv, FlagInv, NoLostWakeup, [Next]_vars
             PROVE  NoLostWakeup'
  OBVIOUS
<1>0. TypeOK /\ LocalsInv
  BY DEF BaseInv
<1>1. ASSUME StartProcess PROVE NoLostWakeup'
  BY <1>1, <1>0 DEF NoLostWakeup, DrainComing, FlagInv, TypeOK, LocalsInv,
     Runnable, IdleBridge, NewRow, StartProcess, ConstructManager, disk, threads
<1>2. ASSUME Crash PROVE NoLostWakeup'
  BY <1>2, <1>0 DEF NoLostWakeup, DrainComing, FlagInv, TypeOK, LocalsInv,
     Runnable, IdleBridge, NewRow, Crash, disk
<1>3. ASSUME NEW m \in Managers, RecreateActivity(m) PROVE NoLostWakeup'
  BY <1>3, <1>0 DEF NoLostWakeup, DrainComing, FlagInv, TypeOK, LocalsInv,
     Runnable, IdleBridge, NewRow, RecreateActivity, ConstructManager, disk, threads
<1>4. ASSUME NEW c \in Commands, ReconcileJob(c) PROVE NoLostWakeup'
  BY <1>4, <1>0 DEF NoLostWakeup, DrainComing, FlagInv, TypeOK, LocalsInv,
     Runnable, IdleBridge, NewRow, ReconcileJob, threads
<1>5. ASSUME ReconcileResume PROVE NoLostWakeup'
  BY <1>5, <1>0 DEF NoLostWakeup, DrainComing, FlagInv, TypeOK, LocalsInv,
     Runnable, IdleBridge, NewRow, ReconcileResume, ScheduleDrain, disk
<1>6. ASSUME SubmitPrintCommand PROVE NoLostWakeup'
  <2>1. CASE bridge' = [IdleBridge EXCEPT !.pc = "schedule", !.mgr = cur]
    <3>1. bridge'.pc = "schedule"
      BY <2>1 DEF IdleBridge
    <3> QED
      BY <3>1 DEF NoLostWakeup, DrainComing
  <2>2. CASE UNCHANGED <<job, bridge>>
    BY <1>6, <2>2 DEF NoLostWakeup, DrainComing, SubmitPrintCommand, threads
  <2> QED
    BY <1>6, <2>1, <2>2 DEF SubmitPrintCommand
<1>7. ASSUME NEW c \in Commands, RetryRead(c) PROVE NoLostWakeup'
  BY <1>7, <1>0 DEF NoLostWakeup, DrainComing, FlagInv, TypeOK, LocalsInv,
     Runnable, IdleBridge, NewRow, RetryRead, BridgeFree, disk, threads
<1>8. ASSUME RetryWrite PROVE NoLostWakeup'
  BY <1>8, <1>0 DEF NoLostWakeup, DrainComing, FlagInv, TypeOK, LocalsInv,
     Runnable, IdleBridge, NewRow, RetryWrite, threads
<1>9. ASSUME BridgeSchedule PROVE NoLostWakeup'
  BY <1>9, <1>0 DEF NoLostWakeup, DrainComing, FlagInv, TypeOK, LocalsInv,
     Runnable, IdleBridge, NewRow, BridgeSchedule, ScheduleDrain, disk
<1>10. ASSUME NEW m \in Managers, BeginDrain(m) PROVE NoLostWakeup'
  BY <1>10, <1>0 DEF NoLostWakeup, DrainComing, FlagInv, TypeOK, LocalsInv,
     Runnable, IdleBridge, NewRow, BeginDrain, Goto, disk
<1>11. ASSUME NEW m \in Managers, PickJob(m) PROVE NoLostWakeup'
  BY <1>11, <1>0 DEF NoLostWakeup, DrainComing, FlagInv, TypeOK, LocalsInv,
     Runnable, IdleBridge, NewRow, PickJob, Goto, disk
<1>12. ASSUME NEW m \in Managers, NothingRunnable(m) PROVE NoLostWakeup'
  BY <1>12, <1>0 DEF NoLostWakeup, DrainComing, FlagInv, TypeOK, LocalsInv,
     Runnable, IdleBridge, NewRow, NothingRunnable, Goto, disk
<1>13. ASSUME NEW m \in Managers, MarkDispatching(m) PROVE NoLostWakeup'
  BY <1>13, <1>0 DEF NoLostWakeup, DrainComing, FlagInv, TypeOK, LocalsInv,
     Runnable, IdleBridge, NewRow, MarkDispatching, Goto
<1>14. ASSUME NEW m \in Managers, Dispatch(m) PROVE NoLostWakeup'
  BY <1>14, <1>0 DEF NoLostWakeup, DrainComing, FlagInv, TypeOK, LocalsInv,
     Runnable, IdleBridge, NewRow, Dispatch, Goto
<1>15. ASSUME NEW m \in Managers, PersistResult(m) PROVE NoLostWakeup'
  BY <1>15, <1>0 DEF NoLostWakeup, DrainComing, FlagInv, TypeOK, LocalsInv,
     Runnable, IdleBridge, NewRow, PersistResult, Goto
<1>16. ASSUME NEW m \in Managers, FinishDrain(m) PROVE NoLostWakeup'
  BY <1>16, <1>0 DEF NoLostWakeup, DrainComing, FlagInv, TypeOK, LocalsInv,
     Runnable, IdleBridge, NewRow, FinishDrain, Goto, disk
<1>17. ASSUME NEW m \in Managers, Recheck(m) PROVE NoLostWakeup'
  BY <1>17, <1>0 DEF NoLostWakeup, DrainComing, FlagInv, TypeOK, LocalsInv,
     Runnable, IdleBridge, NewRow, Recheck, Goto, disk
<1>18. ASSUME NEW m \in Managers, Reschedule(m) PROVE NoLostWakeup'
  BY <1>18, <1>0 DEF NoLostWakeup, DrainComing, FlagInv, TypeOK, LocalsInv,
     Runnable, IdleBridge, NewRow, Reschedule, Goto, ScheduleDrain, disk
<1>19. ASSUME NEW c \in Commands, BackoffElapses(c) PROVE NoLostWakeup'
  BY <1>19, <1>0 DEF NoLostWakeup, DrainComing, FlagInv, TypeOK, LocalsInv,
     Runnable, IdleBridge, NewRow, BackoffElapses, threads
<1>20. CASE UNCHANGED vars
  BY <1>20 DEF NoLostWakeup, DrainComing, vars, disk, threads
<1> QED
  BY <1>1, <1>2, <1>3, <1>4, <1>5, <1>6, <1>7, <1>8, <1>9, <1>10, <1>11,
  <1>12, <1>13, <1>14, <1>15, <1>16, <1>17, <1>18, <1>19, <1>20 DEF Next,
  Worker
-----------------------------------------------------------------------------
(***************************************************************************)
(* Ownership of dispatching rows.                                          *)
(***************************************************************************)
LEMMA OwnerStep ==
  BaseInv /\ WorkerOwnsDispatching /\ [Next]_vars => WorkerOwnsDispatching'
<1> SUFFICES ASSUME BaseInv, WorkerOwnsDispatching, [Next]_vars
             PROVE  WorkerOwnsDispatching'
  OBVIOUS
<1>0. TypeOK /\ LocalsInv
  BY DEF BaseInv
<1>1. ASSUME StartProcess PROVE WorkerOwnsDispatching'
  BY <1>1, <1>0 DEF WorkerOwnsDispatching, Owns, InFlight, TypeOK,
     LocalsInv, NewRow, StartProcess, ConstructManager, disk, threads
<1>2. ASSUME Crash PROVE WorkerOwnsDispatching'
  BY <1>2, <1>0 DEF WorkerOwnsDispatching, Owns, InFlight, TypeOK,
     LocalsInv, NewRow, Crash, disk
<1>3. ASSUME NEW m \in Managers, RecreateActivity(m) PROVE WorkerOwnsDispatching'
  BY <1>3, <1>0 DEF WorkerOwnsDispatching, Owns, InFlight, TypeOK,
     LocalsInv, NewRow, RecreateActivity, ConstructManager, disk, threads
<1>4. ASSUME NEW c \in Commands, ReconcileJob(c) PROVE WorkerOwnsDispatching'
  BY <1>4, <1>0 DEF WorkerOwnsDispatching, Owns, InFlight, TypeOK,
     LocalsInv, NewRow, ReconcileJob, threads
<1>5. ASSUME ReconcileResume PROVE WorkerOwnsDispatching'
  BY <1>5, <1>0 DEF WorkerOwnsDispatching, Owns, InFlight, TypeOK,
     LocalsInv, NewRow, ReconcileResume, ScheduleDrain, disk
<1>6. ASSUME SubmitPrintCommand PROVE WorkerOwnsDispatching'
  BY <1>6, <1>0 DEF WorkerOwnsDispatching, Owns, InFlight, TypeOK,
     LocalsInv, NewRow, SubmitPrintCommand, threads
<1>7. ASSUME NEW c \in Commands, RetryRead(c) PROVE WorkerOwnsDispatching'
  BY <1>7, <1>0 DEF WorkerOwnsDispatching, Owns, InFlight, TypeOK,
     LocalsInv, NewRow, RetryRead, disk, threads
<1>8. ASSUME RetryWrite PROVE WorkerOwnsDispatching'
  BY <1>8, <1>0 DEF WorkerOwnsDispatching, Owns, InFlight, TypeOK,
     LocalsInv, NewRow, RetryWrite, threads
<1>9. ASSUME BridgeSchedule PROVE WorkerOwnsDispatching'
  BY <1>9, <1>0 DEF WorkerOwnsDispatching, Owns, InFlight, TypeOK,
     LocalsInv, NewRow, BridgeSchedule, ScheduleDrain, disk
<1>10. ASSUME NEW m \in Managers, BeginDrain(m) PROVE WorkerOwnsDispatching'
  BY <1>10, <1>0 DEF WorkerOwnsDispatching, Owns, InFlight, TypeOK,
     LocalsInv, NewRow, BeginDrain, Goto, disk
<1>11. ASSUME NEW m \in Managers, PickJob(m) PROVE WorkerOwnsDispatching'
  BY <1>11, <1>0 DEF WorkerOwnsDispatching, Owns, InFlight, TypeOK,
     LocalsInv, NewRow, PickJob, Goto, disk
<1>12. ASSUME NEW m \in Managers, NothingRunnable(m) PROVE WorkerOwnsDispatching'
  BY <1>12, <1>0 DEF WorkerOwnsDispatching, Owns, InFlight, TypeOK,
     LocalsInv, NewRow, NothingRunnable, Goto, disk
<1>13. ASSUME NEW m \in Managers, MarkDispatching(m) PROVE WorkerOwnsDispatching'
  BY <1>13, <1>0 DEF WorkerOwnsDispatching, Owns, InFlight, TypeOK,
     LocalsInv, NewRow, MarkDispatching, Goto
<1>14. ASSUME NEW m \in Managers, Dispatch(m) PROVE WorkerOwnsDispatching'
  BY <1>14, <1>0 DEF WorkerOwnsDispatching, Owns, InFlight, TypeOK,
     LocalsInv, NewRow, Dispatch, Goto
<1>15. ASSUME NEW m \in Managers, PersistResult(m) PROVE WorkerOwnsDispatching'
  BY <1>15, <1>0 DEF WorkerOwnsDispatching, Owns, InFlight, TypeOK,
     LocalsInv, NewRow, PersistResult, Goto
<1>16. ASSUME NEW m \in Managers, FinishDrain(m) PROVE WorkerOwnsDispatching'
  BY <1>16, <1>0 DEF WorkerOwnsDispatching, Owns, InFlight, TypeOK,
     LocalsInv, NewRow, FinishDrain, Goto, disk
<1>17. ASSUME NEW m \in Managers, Recheck(m) PROVE WorkerOwnsDispatching'
  BY <1>17, <1>0 DEF WorkerOwnsDispatching, Owns, InFlight, TypeOK,
     LocalsInv, NewRow, Recheck, Goto, disk
<1>18. ASSUME NEW m \in Managers, Reschedule(m) PROVE WorkerOwnsDispatching'
  BY <1>18, <1>0 DEF WorkerOwnsDispatching, Owns, InFlight, TypeOK,
     LocalsInv, NewRow, Reschedule, Goto, ScheduleDrain, disk
<1>19. ASSUME NEW c \in Commands, BackoffElapses(c) PROVE WorkerOwnsDispatching'
  BY <1>19, <1>0 DEF WorkerOwnsDispatching, Owns, InFlight, TypeOK,
     LocalsInv, NewRow, BackoffElapses, threads
<1>20. CASE UNCHANGED vars
  BY <1>20 DEF WorkerOwnsDispatching, Owns, InFlight, vars, disk, threads
<1> QED
  BY <1>1, <1>2, <1>3, <1>4, <1>5, <1>6, <1>7, <1>8, <1>9, <1>10, <1>11,
  <1>12, <1>13, <1>14, <1>15, <1>16, <1>17, <1>18, <1>19, <1>20 DEF Next,
  Worker
-----------------------------------------------------------------------------
(***************************************************************************)
(* The whole invariant and what follows from it.                           *)
(***************************************************************************)
LEMMA QueueInvInit == Init => QueueInv
<1> SUFFICES ASSUME Init PROVE QueueInv
  OBVIOUS
<1>1. BaseInv
  BY BaseInit
<1>2. FlagInv
  BY DEF Init, FlagInv
<1>3. NoLostWakeup /\ WorkerOwnsDispatching
  BY DEF Init, NoLostWakeup, WorkerOwnsDispatching
<1> QED
  BY <1>1, <1>2, <1>3 DEF QueueInv

LEMMA QueueInvStep == QueueInv /\ [Next]_vars => QueueInv'
BY BaseStep, FlagStep, WakeupStep, OwnerStep DEF QueueInv

\* No lost wake-up, for any number of managers: scheduleDrain may return
\* without doing anything because the flag is set, and still no job that could
\* run is left without a drain that will see it.
THEOREM WakeupSafe == Spec => []NoLostWakeup
<1>1. QueueInv => NoLostWakeup
  BY DEF QueueInv
<1> QED
  BY <1>1, QueueInvInit, QueueInvStep, PTL DEF Spec

\* A row found DISPATCHING in a running process is being executed, or is about
\* to be handed to the operator: crashes and recreated activities leave none
\* behind.
THEOREM OwnedDispatch == Spec => []WorkerOwnsDispatching
<1>1. QueueInv => WorkerOwnsDispatching
  BY DEF QueueInv
<1> QED
  BY <1>1, QueueInvInit, QueueInvStep, PTL DEF Spec

-----------------------------------------------------------------------------
(***************************************************************************)
(* What comes out of the printer: one manager (one activity per process),  *)
(* any number of commands and attempts and both printer paths.             *)
(*                                                                         *)
(* With two managers the same command can be executed twice at once; the   *)
(* run of OneWorkerPerCommand shows it, and nothing below holds.           *)
(***************************************************************************)
OneManager == \A m, n \in Managers : m = n

-----------------------------------------------------------------------------
(***************************************************************************)
(* The inductive invariant, in named parts.                                *)
(***************************************************************************)

\* While the process is down or the reconciliation runs nothing else does,
\* so what the reconciliation has read is still what the table holds.
StillInv ==
  /\ recon => up
  /\ ~up \/ recon => /\ bridge.pc = "idle"
                     /\ \A m \in Managers : pc[m] = "idle" /\ ~pending[m]
  /\ \A c \in Commands :
       snap[c].state = "DISPATCHING" =>
         /\ recon
         /\ InFlight(c)
         /\ snap[c].attempts = job[c].attempts

\* The row each thread holds a copy of is in the state the thread believes.
HoldInv ==
  /\ \A c \in Commands : c > submitted => job[c] = NoRow
  /\ bridge.pc = "write" => job[bridge.cmd].state = "NEEDS_ATTENTION"
  /\ \A m \in Managers :
       /\ pc[m] = "mark" => /\ job[cmd[m]].state = "QUEUED"
                            /\ row[m].attempts = job[cmd[m]].attempts + 1
       /\ pc[m] \in {"dispatch", "persist"} =>
            InFlight(cmd[m]) /\ row[m].attempts = job[cmd[m]].attempts

\* How often the current request of a command has been printed.
PaperInv ==
  /\ \A c \in Commands :
       /\ printed[c] \in {0, 1}
       /\ job[c].state \in {"ABSENT", "QUEUED"} => printed[c] = 0
       /\ job[c].state = "ACCEPTED_BY_NATIVE" => printed[c] = 1
  /\ \A m \in Managers :
       /\ pc[m] = "dispatch" => printed[cmd[m]] = 0
       /\ pc[m] = "persist" =>
            /\ row[m].state # "ABSENT"
            /\ row[m].state \in {"QUEUED", "FAILED"} => printed[cmd[m]] = 0
            /\ row[m].state \in {"ACCEPTED_BY_NATIVE",
                                 "PRINTED_IF_CONFIRMABLE"}
                 => printed[cmd[m]] = 1

PaperQueueInv == BaseInv /\ StillInv /\ HoldInv /\ PaperInv
-----------------------------------------------------------------------------
\* What a report says of the paper is what the row will say: requeued or
\* failed only without a clean print, accepted only with one.
LEMMA OutcomePaper ==
  ASSUME NEW r, NEW rep \in Reports
  PROVE  /\ Outcome(r, rep).state \in {"QUEUED", "FAILED"} => ~rep.accepted
         /\ Outcome(r, rep).state \in {"ACCEPTED_BY_NATIVE",
                                       "PRINTED_IF_CONFIRMABLE"}
              => rep.accepted
<1>1. Clean.accepted /\ Clean.attempted /\ LateError.accepted /\ LateError.attempted
  BY DEF Clean, LateError
<1>2. /\ ~CallbackError.accepted /\ ~SequenceBroken.accepted
      /\ ~DispatchException.accepted /\ ~BindFailed.accepted
      /\ ~RenderFailed.accepted /\ ~ServiceUnavailable.accepted
      /\ ~NotDispatched.accepted
  BY DEF Clean, CallbackError, SequenceBroken, DispatchException, BindFailed,
         RenderFailed, ServiceUnavailable, NotDispatched
<1>3. rep.accepted => rep.attempted
  BY <1>1, <1>2 DEF Reports, OfficialReports, LegacyReports
<1>4. Outcome(r, rep).state = Verdict(r.attempts, rep)
  BY DEF Outcome
<1> QED
  BY <1>3, <1>4 DEF Verdict

LEMMA PaperInit == Init => PaperQueueInv
<1> SUFFICES ASSUME Init PROVE PaperQueueInv
  OBVIOUS
<1>1. BaseInv
  BY BaseInit
<1>2. StillInv /\ HoldInv
  BY DEF Init, StillInv, HoldInv, InFlight, NoRow, IdleBridge
<1>3. PaperInv
  BY DEF Init, PaperInv, NoRow
<1> QED
  BY <1>1, <1>2, <1>3 DEF PaperQueueInv

-----------------------------------------------------------------------------
LEMMA StillStep ==
  ASSUME OneManager, PaperQueueInv, [Next]_vars
  PROVE  StillInv'
<1>0. BaseInv /\ TypeOK /\ LocalsInv /\ StillInv /\ HoldInv /\ PaperInv
  BY DEF PaperQueueInv, BaseInv
<1>1. ASSUME StartProcess PROVE StillInv'
  BY <1>1, <1>0 DEF StillInv, InFlight, TypeOK, LocalsInv, OneManager,
     StartProcess, ConstructManager, disk, threads, NoRow
<1>2. ASSUME Crash PROVE StillInv'
  BY <1>2, <1>0 DEF StillInv, InFlight, TypeOK, LocalsInv, OneManager,
     Crash, disk, IdleBridge, NoRow
<1>3. ASSUME NEW m \in Managers, RecreateActivity(m) PROVE StillInv'
  BY <1>3, <1>0 DEF StillInv, InFlight, TypeOK, LocalsInv, OneManager,
     RecreateActivity, ConstructManager, disk, threads, NoRow,
     ExecutorIdle
<1>4. ASSUME NEW c \in Commands, ReconcileJob(c) PROVE StillInv'
  BY <1>4, <1>0 DEF StillInv, InFlight, TypeOK, LocalsInv, OneManager,
     ReconcileJob, threads, NoRow
<1>5. ASSUME ReconcileResume PROVE StillInv'
  BY <1>5, <1>0 DEF StillInv, InFlight, TypeOK, LocalsInv, OneManager,
     ReconcileResume, ScheduleDrain, disk
<1>6. ASSUME SubmitPrintCommand PROVE StillInv'
  BY <1>6, <1>0 DEF StillInv, InFlight, TypeOK, LocalsInv, OneManager,
     SubmitPrintCommand, threads, BridgeFree, HoldInv, NoRow
<1>7. ASSUME NEW c \in Commands, RetryRead(c) PROVE StillInv'
  BY <1>7, <1>0 DEF StillInv, InFlight, TypeOK, LocalsInv, OneManager,
     RetryRead, disk, threads, BridgeFree, IdleBridge
<1>8. ASSUME RetryWrite PROVE StillInv'
  BY <1>8, <1>0 DEF StillInv, InFlight, TypeOK, LocalsInv, OneManager,
     RetryWrite, threads, IdleBridge
<1>9. ASSUME BridgeSchedule PROVE StillInv'
  BY <1>9, <1>0 DEF StillInv, InFlight, TypeOK, LocalsInv, OneManager,
     BridgeSchedule, ScheduleDrain, disk, IdleBridge
<1>10. ASSUME NEW m \in Managers, BeginDrain(m) PROVE StillInv'
  BY <1>10, <1>0 DEF StillInv, InFlight, TypeOK, LocalsInv, OneManager,
     BeginDrain, Goto, disk
<1>11. ASSUME NEW m \in Managers, PickJob(m) PROVE StillInv'
  BY <1>11, <1>0 DEF StillInv, InFlight, TypeOK, LocalsInv, OneManager,
     PickJob, Goto, disk
<1>12. ASSUME NEW m \in Managers, NothingRunnable(m) PROVE StillInv'
  BY <1>12, <1>0 DEF StillInv, InFlight, TypeOK, LocalsInv, OneManager,
     NothingRunnable, Goto, disk
<1>13. ASSUME NEW m \in Managers, MarkDispatching(m) PROVE StillInv'
  BY <1>13, <1>0 DEF StillInv, InFlight, TypeOK, LocalsInv, OneManager,
     MarkDispatching, Goto
<1>14. ASSUME NEW m \in Managers, Dispatch(m) PROVE StillInv'
  BY <1>14, <1>0 DEF StillInv, InFlight, TypeOK, LocalsInv, OneManager,
     Dispatch, Goto
<1>15. ASSUME NEW m \in Managers, PersistResult(m) PROVE StillInv'
  BY <1>15, <1>0 DEF StillInv, InFlight, TypeOK, LocalsInv, OneManager,
     PersistResult, Goto
<1>16. ASSUME NEW m \in Managers, FinishDrain(m) PROVE StillInv'
  BY <1>16, <1>0 DEF StillInv, InFlight, TypeOK, LocalsInv, OneManager,
     FinishDrain, Goto, disk
<1>17. ASSUME NEW m \in Managers, Recheck(m) PROVE StillInv'
  BY <1>17, <1>0 DEF StillInv, InFlight, TypeOK, LocalsInv, OneManager,
     Recheck, Goto, disk
<1>18. ASSUME NEW m \in Managers, Reschedule(m) PROVE StillInv'
  BY <1>18, <1>0 DEF StillInv, InFlight, TypeOK, LocalsInv, OneManager,
     Reschedule, Goto, ScheduleDrain, disk
<1>19. ASSUME NEW c \in Commands, BackoffElapses(c) PROVE StillInv'
  BY <1>19, <1>0 DEF StillInv, InFlight, TypeOK, LocalsInv, OneManager,
     BackoffElapses, threads
<1>20. CASE UNCHANGED vars
  BY <1>0, <1>20 DEF StillInv, InFlight, vars, disk, threads
<1> QED
  BY <1>1, <1>2, <1>3, <1>4, <1>5, <1>6, <1>7, <1>8, <1>9, <1>10, <1>11,
  <1>12, <1>13, <1>14, <1>15, <1>16, <1>17, <1>18, <1>19, <1>20 DEF Next,
  Worker
-----------------------------------------------------------------------------
LEMMA HoldStep ==
  ASSUME OneManager, PaperQueueInv, [Next]_vars
  PROVE  HoldInv'
<1>0. BaseInv /\ TypeOK /\ LocalsInv /\ StillInv /\ HoldInv /\ PaperInv
  BY DEF PaperQueueInv, BaseInv
<1>1. ASSUME StartProcess PROVE HoldInv'
  BY <1>1, <1>0 DEF HoldInv, InFlight, StillInv, TypeOK, LocalsInv,
     OneManager, StartProcess, ConstructManager, disk, threads
<1>2. ASSUME Crash PROVE HoldInv'
  BY <1>2, <1>0 DEF HoldInv, InFlight, StillInv, TypeOK, LocalsInv,
     OneManager, Crash, disk, IdleBridge, NoRow
<1>3. ASSUME NEW m \in Managers, RecreateActivity(m) PROVE HoldInv'
  BY <1>3, <1>0 DEF HoldInv, InFlight, StillInv, TypeOK, LocalsInv,
     OneManager, RecreateActivity, ConstructManager, disk, threads
<1>4. ASSUME NEW c \in Commands, ReconcileJob(c) PROVE HoldInv'
  <2>1. /\ InFlight(c) /\ \A d \in Commands : d # c => job'[d] = job[d]
    BY <1>4, <1>0 DEF ReconcileJob, StillInv, TypeOK
  <2>2. bridge'.pc = "idle" /\ \A m \in Managers : pc'[m] = "idle"
    BY <1>4, <1>0 DEF ReconcileJob, StillInv, threads
  <2>3. ASSUME NEW d \in Commands, d > submitted' PROVE job'[d] = NoRow
    BY <1>4, <1>0, <2>1, <2>3 DEF ReconcileJob, HoldInv, InFlight, NoRow
  <2> QED
    BY <2>2, <2>3 DEF HoldInv
<1>5. ASSUME ReconcileResume PROVE HoldInv'
  BY <1>5, <1>0 DEF HoldInv, InFlight, StillInv, TypeOK, LocalsInv,
     OneManager, ReconcileResume, ScheduleDrain, disk
<1>6. ASSUME SubmitPrintCommand PROVE HoldInv'
  <2>1. submitted + 1 \in Commands /\ job[submitted + 1].state = "ABSENT"
    <3>1. submitted + 1 \in Commands
      BY <1>6, <1>0, CommandsAssumption
      DEF SubmitPrintCommand, TypeOK, Commands
    <3>2. submitted + 1 > submitted
      BY <1>0 DEF TypeOK
    <3>3. job[submitted + 1] = NoRow
      BY <1>0, <3>1, <3>2 DEF HoldInv
    <3> QED
      BY <3>1, <3>3 DEF NoRow
  <2>2. \A d \in Commands : d # submitted + 1 => job'[d] = job[d]
    BY <1>6, <1>0 DEF SubmitPrintCommand, TypeOK
  <2>3. ASSUME NEW d \in Commands, d > submitted' PROVE job'[d] = NoRow
    <3>1. d > submitted /\ d # submitted + 1
      BY <1>6, <1>0, <2>3 DEF SubmitPrintCommand, TypeOK, Commands
    <3> QED
      BY <1>0, <2>2, <3>1 DEF HoldInv
  <2>4. bridge'.pc # "write"
    BY <1>6 DEF SubmitPrintCommand, BridgeFree, IdleBridge
  <2>5. ASSUME NEW m \in Managers, pc[m] \in {"mark", "dispatch", "persist"}
        PROVE  job'[cmd[m]] = job[cmd[m]]
    BY <1>0, <2>1, <2>2, <2>5 DEF HoldInv, InFlight, LocalsInv
  <2>6. pc' = pc /\ cmd' = cmd /\ row' = row
    BY <1>6 DEF SubmitPrintCommand, threads
  <2> QED
    BY <1>0, <2>3, <2>4, <2>5, <2>6 DEF HoldInv, InFlight
<1>7. ASSUME NEW c \in Commands, RetryRead(c) PROVE HoldInv'
  BY <1>7, <1>0 DEF HoldInv, InFlight, StillInv, TypeOK, LocalsInv,
     OneManager, RetryRead, disk, threads, BridgeFree, NoRow
<1>8. ASSUME RetryWrite PROVE HoldInv'
  <2>1. /\ bridge.cmd \in Commands
        /\ job[bridge.cmd].state = "NEEDS_ATTENTION"
        /\ \A d \in Commands : d # bridge.cmd => job'[d] = job[d]
    BY <1>8, <1>0 DEF RetryWrite, HoldInv, LocalsInv, TypeOK
  <2>2. ASSUME NEW d \in Commands, d > submitted' PROVE job'[d] = NoRow
    BY <1>8, <1>0, <2>1, <2>2 DEF RetryWrite, HoldInv, NoRow
  <2>3. bridge'.pc # "write"
    BY <1>8 DEF RetryWrite, IdleBridge
  <2>4. ASSUME NEW m \in Managers, pc[m] \in {"mark", "dispatch", "persist"}
        PROVE  job'[cmd[m]] = job[cmd[m]]
    BY <1>0, <2>1, <2>4 DEF HoldInv, InFlight, LocalsInv
  <2>5. pc' = pc /\ cmd' = cmd /\ row' = row
    BY <1>8 DEF RetryWrite, threads
  <2> QED
    BY <1>0, <2>2, <2>3, <2>4, <2>5 DEF HoldInv, InFlight
<1>9. ASSUME BridgeSchedule PROVE HoldInv'
  BY <1>9, <1>0 DEF HoldInv, InFlight, StillInv, TypeOK, LocalsInv,
     OneManager, BridgeSchedule, ScheduleDrain, disk, IdleBridge
<1>10. ASSUME NEW m \in Managers, BeginDrain(m) PROVE HoldInv'
  BY <1>10, <1>0 DEF HoldInv, InFlight, StillInv, TypeOK, LocalsInv,
     OneManager, BeginDrain, Goto, disk
<1>11. ASSUME NEW m \in Managers, PickJob(m) PROVE HoldInv'
  BY <1>11, <1>0 DEF HoldInv, InFlight, StillInv, TypeOK, LocalsInv,
     OneManager, PickJob, Goto, disk, NextRunnable, Runnable, NoRow
<1>12. ASSUME NEW m \in Managers, NothingRunnable(m) PROVE HoldInv'
  BY <1>12, <1>0 DEF HoldInv, InFlight, StillInv, TypeOK, LocalsInv,
     OneManager, NothingRunnable, Goto, disk
<1>13. ASSUME NEW m \in Managers, MarkDispatching(m) PROVE HoldInv'
  <2>1. /\ pc[m] = "mark" /\ cmd[m] \in Commands
        /\ job[cmd[m]].state = "QUEUED"
        /\ job' = [job EXCEPT ![cmd[m]] = row[m]]
    BY <1>13, <1>0 DEF MarkDispatching, Goto, HoldInv, LocalsInv
  <2>2. /\ job'[cmd[m]] = row[m] /\ row[m].state = "DISPATCHING"
        /\ \A d \in Commands : d # cmd[m] => job'[d] = job[d]
    BY <1>0, <2>1 DEF TypeOK, LocalsInv
  <2>3. ASSUME NEW d \in Commands, d > submitted' PROVE job'[d] = NoRow
    BY <1>13, <1>0, <2>1, <2>2, <2>3 DEF MarkDispatching, HoldInv, NoRow
  <2>4. bridge'.pc = "write" => job'[bridge'.cmd].state = "NEEDS_ATTENTION"
    BY <1>13, <1>0, <2>1, <2>2 DEF MarkDispatching, HoldInv, LocalsInv
  <2>5. \A n \in Managers : n = m
    BY OneManager DEF OneManager
  <2> QED
    BY <1>13, <1>0, <2>1, <2>2, <2>3, <2>4, <2>5
    DEF MarkDispatching, Goto, HoldInv, InFlight, TypeOK
<1>14. ASSUME NEW m \in Managers, Dispatch(m) PROVE HoldInv'
  BY <1>14, <1>0, OutcomeRow DEF HoldInv, InFlight, StillInv, TypeOK,
     LocalsInv, OneManager, Dispatch, Goto
<1>15. ASSUME NEW m \in Managers, PersistResult(m) PROVE HoldInv'
  <2>1. /\ pc[m] = "persist" /\ cmd[m] \in Commands
        /\ InFlight(cmd[m])
        /\ job' = [job EXCEPT ![cmd[m]] = row[m]]
    BY <1>15, <1>0 DEF PersistResult, Goto, HoldInv, LocalsInv
  <2>2. \A d \in Commands : d # cmd[m] => job'[d] = job[d]
    BY <1>0, <2>1 DEF TypeOK
  <2>3. ASSUME NEW d \in Commands, d > submitted' PROVE job'[d] = NoRow
    BY <1>15, <1>0, <2>1, <2>2, <2>3 DEF PersistResult, HoldInv, InFlight, NoRow
  <2>4. bridge'.pc = "write" => job'[bridge'.cmd].state = "NEEDS_ATTENTION"
    BY <1>15, <1>0, <2>1, <2>2 DEF PersistResult, HoldInv, InFlight, LocalsInv
  <2>5. \A n \in Managers : pc'[n] = "query"
    BY <1>15, <1>0, OneManager DEF PersistResult, Goto, TypeOK, OneManager
  <2> QED
    BY <2>3, <2>4, <2>5 DEF HoldInv
<1>16. ASSUME NEW m \in Managers, FinishDrain(m) PROVE HoldInv'
  BY <1>16, <1>0 DEF HoldInv, InFlight, StillInv, TypeOK, LocalsInv,
     OneManager, FinishDrain, Goto, disk
<1>17. ASSUME NEW m \in Managers, Recheck(m) PROVE HoldInv'
  BY <1>17, <1>0 DEF HoldInv, InFlight, StillInv, TypeOK, LocalsInv,
     OneManager, Recheck, Goto, disk
<1>18. ASSUME NEW m \in Managers, Reschedule(m) PROVE HoldInv'
  BY <1>18, <1>0 DEF HoldInv, InFlight, StillInv, TypeOK, LocalsInv,
     OneManager, Reschedule, Goto, ScheduleDrain, disk
<1>19. ASSUME NEW c \in Commands, BackoffElapses(c) PROVE HoldInv'
  <2>1. /\ \A d \in Commands : /\ job'[d].state = job[d].state
                                /\ job'[d].attempts = job[d].attempts
        /\ \A d \in Commands : job[d] = NoRow => job'[d] = job[d]
    <3>1. job[c] \in Row /\ job[c] # NoRow
      BY <1>19, <1>0 DEF BackoffElapses, TypeOK, NoRow
    <3> QED
      BY <1>19, <1>0, <3>1 DEF BackoffElapses, TypeOK, Row
  <2>2. /\ pc' = pc /\ cmd' = cmd /\ row' = row /\ bridge' = bridge
        /\ submitted' = submitted
    BY <1>19 DEF BackoffElapses, threads
  <2> QED
    BY <1>0, <2>1, <2>2 DEF HoldInv, InFlight, LocalsInv
<1>20. CASE UNCHANGED vars
  BY <1>0, <1>20 DEF HoldInv, InFlight, vars, disk, threads
<1> QED
  BY <1>1, <1>2, <1>3, <1>4, <1>5, <1>6, <1>7, <1>8, <1>9, <1>10, <1>11,
  <1>12, <1>13, <1>14, <1>15, <1>16, <1>17, <1>18, <1>19, <1>20 DEF Next,
  Worker
-----------------------------------------------------------------------------
LEMMA PaperStep ==
  ASSUME OneManager, PaperQueueInv, [Next]_vars
  PROVE  PaperInv'
<1>0. BaseInv /\ TypeOK /\ LocalsInv /\ StillInv /\ HoldInv /\ PaperInv
  BY DEF PaperQueueInv, BaseInv
<1>1. ASSUME StartProcess PROVE PaperInv'
  BY <1>1, <1>0 DEF PaperInv, HoldInv, InFlight, StillInv, TypeOK,
     LocalsInv, OneManager, StartProcess, ConstructManager, disk, threads
<1>2. ASSUME Crash PROVE PaperInv'
  BY <1>2, <1>0 DEF PaperInv, HoldInv, InFlight, StillInv, TypeOK,
     LocalsInv, OneManager, Crash, disk, IdleBridge, NoRow
<1>3. ASSUME NEW m \in Managers, RecreateActivity(m) PROVE PaperInv'
  BY <1>3, <1>0 DEF PaperInv, HoldInv, InFlight, StillInv, TypeOK,
     LocalsInv, OneManager, RecreateActivity, ConstructManager, disk,
     threads
<1>4. ASSUME NEW c \in Commands, ReconcileJob(c) PROVE PaperInv'
  BY <1>4, <1>0 DEF PaperInv, HoldInv, InFlight, StillInv, TypeOK,
     LocalsInv, OneManager, ReconcileJob, threads
<1>5. ASSUME ReconcileResume PROVE PaperInv'
  BY <1>5, <1>0 DEF PaperInv, HoldInv, InFlight, StillInv, TypeOK,
     LocalsInv, OneManager, ReconcileResume, ScheduleDrain, disk
<1>6. ASSUME SubmitPrintCommand PROVE PaperInv'
  <2>1. /\ submitted + 1 \in Commands
        /\ job[submitted + 1].state = "ABSENT"
    <3>1. submitted + 1 \in Commands
      BY <1>6, <1>0, CommandsAssumption
      DEF SubmitPrintCommand, TypeOK, Commands
    <3>2. submitted + 1 > submitted
      BY <1>0 DEF TypeOK
    <3>3. job[submitted + 1] = NoRow
      BY <1>0, <3>1, <3>2 DEF HoldInv
    <3> QED
      BY <3>1, <3>3 DEF NoRow
  <2>2. \A d \in Commands : \/ job'[d] = job[d]
                            \/ job[d].state = "ABSENT" /\ job'[d].state = "QUEUED"
    BY <1>6, <1>0, <2>1 DEF SubmitPrintCommand, TypeOK, NewRow
  <2>3. pc' = pc /\ cmd' = cmd /\ row' = row /\ printed' = printed
    BY <1>6 DEF SubmitPrintCommand, threads
  <2> QED
    BY <1>0, <2>2, <2>3 DEF PaperInv
<1>7. ASSUME NEW c \in Commands, RetryRead(c) PROVE PaperInv'
  BY <1>7, <1>0 DEF PaperInv, HoldInv, InFlight, StillInv, TypeOK,
     LocalsInv, OneManager, RetryRead, disk, threads
<1>8. ASSUME RetryWrite PROVE PaperInv'
  BY <1>8, <1>0 DEF PaperInv, HoldInv, InFlight, StillInv, TypeOK,
     LocalsInv, OneManager, RetryWrite, threads
<1>9. ASSUME BridgeSchedule PROVE PaperInv'
  BY <1>9, <1>0 DEF PaperInv, HoldInv, InFlight, StillInv, TypeOK,
     LocalsInv, OneManager, BridgeSchedule, ScheduleDrain, disk
<1>10. ASSUME NEW m \in Managers, BeginDrain(m) PROVE PaperInv'
  BY <1>10, <1>0 DEF PaperInv, HoldInv, InFlight, StillInv, TypeOK,
     LocalsInv, OneManager, BeginDrain, Goto, disk
<1>11. ASSUME NEW m \in Managers, PickJob(m) PROVE PaperInv'
  BY <1>11, <1>0 DEF PaperInv, HoldInv, InFlight, StillInv, TypeOK,
     LocalsInv, OneManager, PickJob, Goto, disk, NextRunnable, Runnable
<1>12. ASSUME NEW m \in Managers, NothingRunnable(m) PROVE PaperInv'
  BY <1>12, <1>0 DEF PaperInv, HoldInv, InFlight, StillInv, TypeOK,
     LocalsInv, OneManager, NothingRunnable, Goto, disk
<1>13. ASSUME NEW m \in Managers, MarkDispatching(m) PROVE PaperInv'
  BY <1>13, <1>0 DEF PaperInv, HoldInv, InFlight, StillInv, TypeOK,
     LocalsInv, OneManager, MarkDispatching, Goto
<1>14. ASSUME NEW m \in Managers, Dispatch(m) PROVE PaperInv'
  BY <1>14, <1>0, OutcomePaper, OutcomeRow DEF PaperInv, HoldInv,
     InFlight, StillInv, TypeOK, LocalsInv, OneManager, Dispatch, Goto
<1>15. ASSUME NEW m \in Managers, PersistResult(m) PROVE PaperInv'
  <2>1. /\ pc[m] = "persist" /\ cmd[m] \in Commands /\ printed' = printed
        /\ job' = [job EXCEPT ![cmd[m]] = row[m]]
    BY <1>15, <1>0 DEF PersistResult, Goto, LocalsInv
  <2>2. /\ job'[cmd[m]] = row[m] 
        /\ \A d \in Commands : d # cmd[m] => job'[d] = job[d]
    BY <1>0, <2>1 DEF TypeOK
  <2>3. row[m].state # "ABSENT"
    BY <1>0, <2>1 DEF PaperInv
  <2>4. \A n \in Managers : pc'[n] = "query"
    BY <1>15, <1>0, OneManager DEF PersistResult, Goto, TypeOK, OneManager
  <2> QED
    BY <1>0, <2>1, <2>2, <2>3, <2>4 DEF PaperInv
<1>16. ASSUME NEW m \in Managers, FinishDrain(m) PROVE PaperInv'
  BY <1>16, <1>0 DEF PaperInv, HoldInv, InFlight, StillInv, TypeOK,
     LocalsInv, OneManager, FinishDrain, Goto, disk
<1>17. ASSUME NEW m \in Managers, Recheck(m) PROVE PaperInv'
  BY <1>17, <1>0 DEF PaperInv, HoldInv, InFlight, StillInv, TypeOK,
     LocalsInv, OneManager, Recheck, Goto, disk
<1>18. ASSUME NEW m \in Managers, Reschedule(m) PROVE PaperInv'
  BY <1>18, <1>0 DEF PaperInv, HoldInv, InFlight, StillInv, TypeOK,
     LocalsInv, OneManager, Reschedule, Goto, ScheduleDrain, disk
<1>19. ASSUME NEW c \in Commands, BackoffElapses(c) PROVE PaperInv'
  BY <1>19, <1>0 DEF PaperInv, HoldInv, InFlight, StillInv, TypeOK,
     LocalsInv, OneManager, BackoffElapses, threads
<1>20. CASE UNCHANGED vars
  BY <1>0, <1>20 DEF PaperInv, InFlight, vars, disk, threads
<1> QED
  BY <1>1, <1>2, <1>3, <1>4, <1>5, <1>6, <1>7, <1>8, <1>9, <1>10, <1>11,
  <1>12, <1>13, <1>14, <1>15, <1>16, <1>17, <1>18, <1>19, <1>20 DEF Next,
  Worker
-----------------------------------------------------------------------------
(***************************************************************************)
(* One clean print per request: with one activity, a command is printed    *)
(* without error at most once per submission or operator retry, a job      *)
(* shown as accepted was printed exactly once, and a printed one is never  *)
(* queued again by itself, across crashes at any step.                     *)
(***************************************************************************)
THEOREM PrintedOnce ==
  ASSUME OneManager
  PROVE  Spec => []PrintedOncePerRequest
<1>1. PaperQueueInv => PrintedOncePerRequest
  BY DEF PaperQueueInv, PaperInv, PrintedOncePerRequest
<1>2. PaperQueueInv /\ [Next]_vars => PaperQueueInv'
  BY OneManager, BaseStep, StillStep, HoldStep, PaperStep DEF PaperQueueInv
<1> QED
  BY <1>1, <1>2, PaperInit, PTL DEF Spec
-----------------------------------------------------------------------------
(***************************************************************************)
(* The refinement of the life cycle promised for a command.                *)
(***************************************************************************)
ShownState == [c \in Commands |-> job[c].state]
ShownAttempts == [c \in Commands |-> job[c].attempts]

\* Writing one row changes what is shown of that command and nothing else.
LEMMA ShownRow ==
  ASSUME NEW c \in Commands, NEW r, job \in [Commands -> Row],
         job' = [job EXCEPT ![c] = r]
  PROVE  /\ ShownState' = [ShownState EXCEPT ![c] = r.state]
         /\ ShownAttempts' = [ShownAttempts EXCEPT ![c] = r.attempts]
BY DEF ShownState, ShownAttempts

\* Any move of one command is a step of the life cycle.
LEMMA LifecycleMove ==
  ASSUME NEW c \in Commands,
         \/ Lifecycle!Submit(c) \/ Lifecycle!Dispatch(c) \/ Lifecycle!Accept(c)
         \/ Lifecycle!PrintCleanly(c) \/ Lifecycle!Requeue(c) \/ Lifecycle!GiveUp(c)
         \/ Lifecycle!Retry(c)
  PROVE  Lifecycle!Next
BY DEF Lifecycle!Next

LEMMA RefineInit == Init => Lifecycle!Init
BY DEF Init, NoRow, Lifecycle!Init

LEMMA RefineStep ==
  ASSUME OneManager, PaperQueueInv, [Next]_vars
  PROVE  [Lifecycle!Next]_(Lifecycle!vars)
<1>0. /\ BaseInv /\ TypeOK /\ LocalsInv /\ BudgetInv
      /\ StillInv /\ HoldInv /\ PaperInv
  BY DEF PaperQueueInv, BaseInv
<1>1. ASSUME StartProcess
      PROVE  [Lifecycle!Next]_(Lifecycle!vars)
  BY <1>1 DEF StartProcess, disk, Lifecycle!vars
<1>2. ASSUME Crash
      PROVE  [Lifecycle!Next]_(Lifecycle!vars)
  BY <1>2 DEF Crash, disk, Lifecycle!vars
<1>3. ASSUME NEW m \in Managers, RecreateActivity(m)
      PROVE  [Lifecycle!Next]_(Lifecycle!vars)
  BY <1>3 DEF RecreateActivity, disk, Lifecycle!vars
<1>4. ASSUME NEW c \in Commands, ReconcileJob(c)
      PROVE  [Lifecycle!Next]_(Lifecycle!vars)
  <2>1. PICK r : r = job'[c]
    OBVIOUS
  <2>2. /\ InFlight(c) /\ job' = [job EXCEPT ![c] = r]
        /\ r.state = "NEEDS_ATTENTION" /\ r.attempts = job[c].attempts
    BY <1>4, <1>0, <2>1 DEF ReconcileJob, StillInv, TypeOK, Row
  <2>3. /\ ShownState' = [ShownState EXCEPT ![c] = "NEEDS_ATTENTION"]
        /\ ShownAttempts' = [ShownAttempts EXCEPT ![c] = job[c].attempts]
    <3>1. /\ ShownState' = [ShownState EXCEPT ![c] = r.state]
          /\ ShownAttempts' = [ShownAttempts EXCEPT ![c] = r.attempts]
      BY <1>0, <2>2, ShownRow DEF TypeOK
    <3> QED
      BY <2>2, <3>1
  <2>4. ShownState[c] = "DISPATCHING" /\ ShownAttempts[c] = job[c].attempts
    BY <2>2 DEF ShownState, ShownAttempts, InFlight
  <2>5. ShownAttempts' = ShownAttempts
    BY <2>3, <2>4 DEF ShownAttempts
  <2>6. Lifecycle!GiveUp(c)
    BY <1>4, <2>3, <2>4, <2>5
    DEF ReconcileJob, Lifecycle!GiveUp, ShownState, ShownAttempts
  <2> QED
    BY <2>6, LifecycleMove
<1>5. ASSUME ReconcileResume
      PROVE  [Lifecycle!Next]_(Lifecycle!vars)
  BY <1>5 DEF ReconcileResume, disk, Lifecycle!vars
<1>6. ASSUME SubmitPrintCommand
      PROVE  [Lifecycle!Next]_(Lifecycle!vars)
  <2>k. PICK k \in Commands : k = submitted + 1
    BY <1>6, <1>0, CommandsAssumption
    DEF SubmitPrintCommand, TypeOK, Commands
  <2>1. ASSUME job' = job PROVE UNCHANGED Lifecycle!vars
    BY <1>6, <2>1 DEF SubmitPrintCommand, Lifecycle!vars
  <2>2. ASSUME job' = [job EXCEPT ![submitted + 1] = NewRow]
        PROVE  Lifecycle!Submit(k)
    <3>1. submitted + 1 \in Commands /\ submitted + 1 > submitted
      BY <1>6, <1>0, CommandsAssumption
      DEF SubmitPrintCommand, TypeOK, Commands
    <3>2. job[submitted + 1] = NoRow
      BY <1>0, <3>1 DEF HoldInv
    <3>3. /\ ShownState' = [ShownState EXCEPT ![submitted + 1] = "QUEUED"]
          /\ ShownAttempts' = [ShownAttempts EXCEPT ![submitted + 1] = 0]
      <4>1. /\ ShownState' = [ShownState EXCEPT ![submitted + 1] = NewRow.state]
            /\ ShownAttempts' =
                 [ShownAttempts EXCEPT ![submitted + 1] = NewRow.attempts]
        BY <1>0, <2>2, <3>1, ShownRow DEF TypeOK
      <4> QED
        BY <4>1 DEF NewRow
    <3>4. /\ ShownState[submitted + 1] = "ABSENT"
          /\ ShownAttempts[submitted + 1] = 0
      BY <3>1, <3>2 DEF ShownState, ShownAttempts, NoRow
    <3>5. ShownAttempts' = ShownAttempts
      BY <3>3, <3>4 DEF ShownAttempts
    <3> QED
      BY <1>6, <2>k, <3>3, <3>4, <3>5
      DEF SubmitPrintCommand, Lifecycle!Submit, ShownState, ShownAttempts
  <2> QED
    BY <1>6, <2>1, <2>2, LifecycleMove DEF SubmitPrintCommand
<1>7. ASSUME NEW c \in Commands, RetryRead(c)
      PROVE  [Lifecycle!Next]_(Lifecycle!vars)
  BY <1>7 DEF RetryRead, disk, Lifecycle!vars
<1>8. ASSUME RetryWrite
      PROVE  [Lifecycle!Next]_(Lifecycle!vars)
  <2>k. PICK k \in Commands : k = bridge.cmd
    BY <1>8, <1>0 DEF RetryWrite, LocalsInv
  <2>1. PICK r : r = job'[bridge.cmd]
    OBVIOUS
  <2>2. bridge.cmd \in Commands /\ job[bridge.cmd].state = "NEEDS_ATTENTION"
    BY <1>8, <1>0 DEF RetryWrite, LocalsInv, HoldInv
  <2>3. /\ job' = [job EXCEPT ![bridge.cmd] = r]
        /\ r.state = "QUEUED" /\ r.attempts = 0
    BY <1>8, <1>0, <2>1, <2>2 DEF RetryWrite, TypeOK, Row
  <2>4. /\ ShownState' = [ShownState EXCEPT ![bridge.cmd] = "QUEUED"]
        /\ ShownAttempts' = [ShownAttempts EXCEPT ![bridge.cmd] = 0]
    BY <1>0, <2>2, <2>3, ShownRow DEF TypeOK
  <2>5. ShownState[bridge.cmd] = "NEEDS_ATTENTION"
    BY <2>2 DEF ShownState
  <2>6. Lifecycle!Retry(k)
    BY <2>k, <1>8, <2>4, <2>5
    DEF RetryWrite, Lifecycle!Retry, ShownState, ShownAttempts
  <2> QED
    BY <2>2, <2>6, LifecycleMove
<1>9. ASSUME BridgeSchedule
      PROVE  [Lifecycle!Next]_(Lifecycle!vars)
  BY <1>9 DEF BridgeSchedule, disk, Lifecycle!vars
<1>10. ASSUME NEW m \in Managers, BeginDrain(m)
      PROVE  [Lifecycle!Next]_(Lifecycle!vars)
  BY <1>10 DEF BeginDrain, disk, Lifecycle!vars
<1>11. ASSUME NEW m \in Managers, PickJob(m)
      PROVE  [Lifecycle!Next]_(Lifecycle!vars)
  BY <1>11 DEF PickJob, disk, Lifecycle!vars
<1>12. ASSUME NEW m \in Managers, NothingRunnable(m)
      PROVE  [Lifecycle!Next]_(Lifecycle!vars)
  BY <1>12 DEF NothingRunnable, disk, Lifecycle!vars
<1>13. ASSUME NEW m \in Managers, MarkDispatching(m)
      PROVE  [Lifecycle!Next]_(Lifecycle!vars)
  <2>k. PICK k \in Commands : k = cmd[m]
    BY <1>13, <1>0 DEF MarkDispatching, Goto, LocalsInv
  <2>1. /\ cmd[m] \in Commands /\ job[cmd[m]].state = "QUEUED"
        /\ row[m].state = "DISPATCHING"
        /\ row[m].attempts = job[cmd[m]].attempts + 1
        /\ job[cmd[m]].attempts < MaxAttempts
    BY <1>13, <1>0 DEF MarkDispatching, Goto, LocalsInv, HoldInv, BudgetInv
  <2>2. /\ ShownState' = [ShownState EXCEPT ![cmd[m]] = "DISPATCHING"]
        /\ ShownAttempts' = [ShownAttempts EXCEPT
                               ![cmd[m]] = job[cmd[m]].attempts + 1]
    <3>1. /\ ShownState' = [ShownState EXCEPT ![cmd[m]] = row[m].state]
          /\ ShownAttempts' = [ShownAttempts EXCEPT ![cmd[m]] = row[m].attempts]
      <4>1. job' = [job EXCEPT ![cmd[m]] = row[m]] /\ job \in [Commands -> Row]
        BY <1>13, <1>0 DEF MarkDispatching, TypeOK
      <4> QED
        BY <2>1, <4>1, ShownRow
    <3> QED
      BY <2>1, <3>1
  <2>3. /\ ShownState[cmd[m]] = "QUEUED"
        /\ ShownAttempts[cmd[m]] = job[cmd[m]].attempts
    BY <2>1 DEF ShownState, ShownAttempts
  <2>4. Lifecycle!Dispatch(k)
    BY <2>k, <1>13, <2>1, <2>2, <2>3
    DEF MarkDispatching, Lifecycle!Dispatch, ShownState, ShownAttempts
  <2> QED
    BY <2>1, <2>4, LifecycleMove
<1>14. ASSUME NEW m \in Managers, Dispatch(m)
      PROVE  [Lifecycle!Next]_(Lifecycle!vars)
  <2>k. PICK k \in Commands : k = cmd[m]
    BY <1>14, <1>0 DEF Dispatch, Goto, LocalsInv
  <2>1. /\ cmd[m] \in Commands /\ ShownState[cmd[m]] = "DISPATCHING"
        /\ printed[cmd[m]] = 0 /\ printed \in [Commands -> 0..2]
    BY <1>14, <1>0
    DEF Dispatch, Goto, LocalsInv, HoldInv, PaperInv, InFlight, ShownState, TypeOK
  <2>2. CASE printed' = printed
    BY <1>14, <2>2 DEF Dispatch, Lifecycle!vars
  <2>3. CASE printed' = [printed EXCEPT ![cmd[m]] = @ + 1]
    <3>1. printed' = [printed EXCEPT ![cmd[m]] = 1]
      BY <2>1, <2>3
    <3>2. Lifecycle!PrintCleanly(k)
      BY <2>k, <1>14, <2>1, <3>1 DEF Dispatch, Lifecycle!PrintCleanly, ShownState
    <3> QED
      BY <2>1, <3>2, LifecycleMove
  <2> QED
    BY <1>14, <2>2, <2>3 DEF Dispatch
<1>15. ASSUME NEW m \in Managers, PersistResult(m)
      PROVE  [Lifecycle!Next]_(Lifecycle!vars)
  <2>k. PICK k \in Commands : k = cmd[m]
    BY <1>15, <1>0 DEF PersistResult, Goto, LocalsInv
  <2>1. /\ cmd[m] \in Commands /\ job[cmd[m]].state = "DISPATCHING"
        /\ row[m].attempts = job[cmd[m]].attempts
        /\ row[m].state \in States \ {"ABSENT", "DISPATCHING"}
        /\ row[m].state = "QUEUED" => job[cmd[m]].attempts < MaxAttempts
    BY <1>15, <1>0 DEF PersistResult, Goto, LocalsInv, HoldInv, PaperInv,
       InFlight, BudgetInv, TypeOK, Row
  <2>2. /\ row[m].state \in {"QUEUED", "FAILED"} => printed[cmd[m]] = 0
        /\ row[m].state \in {"ACCEPTED_BY_NATIVE", "PRINTED_IF_CONFIRMABLE"}
             => printed[cmd[m]] = 1
    BY <1>15, <1>0 DEF PersistResult, Goto, PaperInv
  <2>3. /\ ShownState' = [ShownState EXCEPT ![cmd[m]] = row[m].state]
        /\ ShownAttempts' = [ShownAttempts EXCEPT ![cmd[m]] = job[cmd[m]].attempts]
    <3>1. /\ ShownState' = [ShownState EXCEPT ![cmd[m]] = row[m].state]
          /\ ShownAttempts' = [ShownAttempts EXCEPT ![cmd[m]] = row[m].attempts]
      <4>1. job' = [job EXCEPT ![cmd[m]] = row[m]] /\ job \in [Commands -> Row]
        BY <1>15, <1>0 DEF PersistResult, TypeOK
      <4> QED
        BY <2>1, <4>1, ShownRow
    <3> QED
      BY <2>1, <3>1
  <2>4. /\ ShownState[cmd[m]] = "DISPATCHING"
        /\ ShownAttempts[cmd[m]] = job[cmd[m]].attempts
    BY <2>1 DEF ShownState, ShownAttempts
  <2>5. ShownAttempts' = ShownAttempts /\ printed' = printed
    BY <1>15, <2>3, <2>4 DEF ShownAttempts, PersistResult
  <2>6. CASE row[m].state = "QUEUED"
    <3>1. Lifecycle!Requeue(k)
      BY <2>k, <2>1, <2>2, <2>3, <2>4, <2>5, <2>6
      DEF Lifecycle!Requeue, ShownState, ShownAttempts
    <3> QED
      BY <2>1, <3>1, LifecycleMove
  <2>7. CASE row[m].state \in {"ACCEPTED_BY_NATIVE", "PRINTED_IF_CONFIRMABLE"}
    <3>1. Lifecycle!Accept(k)
      BY <2>k, <2>1, <2>2, <2>3, <2>4, <2>5, <2>7
      DEF Lifecycle!Accept, ShownState, ShownAttempts
    <3> QED
      BY <2>1, <3>1, LifecycleMove
  <2>8. CASE row[m].state \in {"NEEDS_ATTENTION", "FAILED"}
    <3>1. Lifecycle!GiveUp(k)
      BY <2>k, <2>1, <2>2, <2>3, <2>4, <2>5, <2>8
      DEF Lifecycle!GiveUp, ShownState, ShownAttempts
    <3> QED
      BY <2>1, <3>1, LifecycleMove
  <2> QED
    BY <2>1, <2>6, <2>7, <2>8 DEF States
<1>16. ASSUME NEW m \in Managers, FinishDrain(m)
      PROVE  [Lifecycle!Next]_(Lifecycle!vars)
  BY <1>16 DEF FinishDrain, disk, Lifecycle!vars
<1>17. ASSUME NEW m \in Managers, Recheck(m)
      PROVE  [Lifecycle!Next]_(Lifecycle!vars)
  BY <1>17 DEF Recheck, disk, Lifecycle!vars
<1>18. ASSUME NEW m \in Managers, Reschedule(m)
      PROVE  [Lifecycle!Next]_(Lifecycle!vars)
  BY <1>18 DEF Reschedule, disk, Lifecycle!vars
<1>19. ASSUME NEW c \in Commands, BackoffElapses(c)
      PROVE  [Lifecycle!Next]_(Lifecycle!vars)
  <2>1. \A d \in Commands : /\ job'[d].state = job[d].state
                            /\ job'[d].attempts = job[d].attempts
    BY <1>19, <1>0 DEF BackoffElapses, TypeOK, Row
  <2> QED
    BY <1>19, <2>1 DEF BackoffElapses, Lifecycle!vars
<1>20. CASE UNCHANGED vars
  BY <1>20 DEF vars, disk, Lifecycle!vars
<1> QED
  BY <1>1, <1>2, <1>3, <1>4, <1>5, <1>6, <1>7, <1>8, <1>9, <1>10, <1>11,
  <1>12, <1>13, <1>14, <1>15, <1>16, <1>17, <1>18, <1>19, <1>20 DEF Next,
  Worker

(***************************************************************************)
(* The queue implements PrintCommandLifecycle: every step of the threads,  *)
(* the reconciliation, a crash or a recreation is a move the life cycle    *)
(* allows for one command, or leaves what is shown of all of them alone.   *)
(***************************************************************************)
THEOREM QueueImplementsLifecycle ==
  ASSUME OneManager
  PROVE  Spec => ImplementsLifecycle
<1>1. PaperQueueInv /\ [Next]_vars => PaperQueueInv'
  BY OneManager, BaseStep, StillStep, HoldStep, PaperStep DEF PaperQueueInv
<1>2. PaperQueueInv /\ [Next]_vars => [Lifecycle!Next]_(Lifecycle!vars)
  BY OneManager, RefineStep
<1> QED
  BY <1>1, <1>2, PaperInit, RefineInit, PTL
  DEF Spec, ImplementsLifecycle, Lifecycle!Spec

-----------------------------------------------------------------------------
(***************************************************************************)
(* The queue and the transport as TLC checks them together.                *)
(***************************************************************************)
\* A behaviour of the two is a behaviour of each.
LEMMA NativeParts == NativeSpec => Spec /\ TransportSpec
<1>1. NativeInit => Init /\ TransportInit
  BY DEF NativeInit
<1>2. [NativeNext]_nativeVars => [Next]_vars /\ [TransportNext]_transportVars
  BY DEF NativeNext, nativeVars
<1> QED
  BY <1>1, <1>2, PTL DEF NativeSpec, Spec, TransportSpec

\* What the queue and a dispatch keep holds of the two together, for any number of
\* managers: a recreated activity loses no wake-up and leaves no row without its
\* executor (NativePrintQueueManager.kt), and a report is true (NativePrinterWorker.kt).
THEOREM NativeKeeps ==
  NativeSpec => [](TypeOK /\ NoLostWakeup /\ WorkerOwnsDispatching /\ TransportContract)
BY NativeParts, TypeCorrect, WakeupSafe, OwnedDispatch, TransportKeepsContract, PTL
=============================================================================
