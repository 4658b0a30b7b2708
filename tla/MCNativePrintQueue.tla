-------------------------- MODULE MCNativePrintQueue --------------------------
(***************************************************************************)
(* TLC instances of NativePrintQueue, and of PrinterTransport, which it    *)
(* drives.  The queue sees the report of a dispatch only, so a behaviour   *)
(* follows the one that focus names.                                       *)
(***************************************************************************)
EXTENDS NativePrintQueue, PrinterTransport, TLC

VARIABLE focus

nativeVars == <<vars, transportVars, focus>>

NativeInit == Init /\ TransportInit /\ focus \in {"queue", "transport"}

NativeNext ==
  \/ focus = "queue" /\ Next /\ UNCHANGED <<transportVars, focus>>
  \/ focus = "transport" /\ TransportNext /\ UNCHANGED <<vars, focus>>

NativeSpec == NativeInit /\ [][NativeNext]_nativeVars

\* Managers differ only in identity; sound for the runs without liveness.
ManagerSymmetry == Permutations(Managers)
=============================================================================
