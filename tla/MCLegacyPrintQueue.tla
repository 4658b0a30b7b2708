-------------------------- MODULE MCLegacyPrintQueue --------------------------
(***************************************************************************)
(* TLC instances of LegacyPrintQueue, and of ReceiptTransport, which it    *)
(* drives.  The queue sees of the transport a success or a failure only,   *)
(* so a behaviour follows the one that focus names.                        *)
(***************************************************************************)
EXTENDS LegacyPrintQueue, ReceiptTransport, TLC

VARIABLE focus

legacyVars == <<vars, receiptVars, focus>>

LegacyInit == Init /\ ReceiptsInit /\ focus \in {"queue", "transport"}

LegacyNext ==
  \/ focus = "queue" /\ Next /\ UNCHANGED <<receiptVars, focus>>
  \/ focus = "transport" /\ ReceiptsNext /\ UNCHANGED <<vars, focus>>

LegacySpec == LegacyInit /\ [][LegacyNext]_legacyVars

LegacyTypeOK == TypeOK /\ ReceiptsTypeOK

\* Managers differ only in identity, and so do printers; sound for the runs
\* without liveness.
ManagerSymmetry == Permutations(Managers) \cup Permutations(Printers)
=============================================================================
