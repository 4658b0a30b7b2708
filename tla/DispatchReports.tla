--------------------------- MODULE DispatchReports ---------------------------
(***************************************************************************)
(* NativeDispatchReport: what one dispatch of the printer worker tells the *)
(* queue.  No worker ever reports a confirmed print.                       *)
(***************************************************************************)

Clean == [accepted |-> TRUE, completed |-> TRUE, confirmed |-> FALSE,
          entered |-> TRUE, attempted |-> TRUE, retryable |-> FALSE]

CallbackError == [Clean EXCEPT !.accepted = FALSE, !.retryable = TRUE]
SequenceBroken == [CallbackError EXCEPT !.completed = FALSE]
DispatchException == [SequenceBroken EXCEPT !.retryable = FALSE]
BindFailed == [SequenceBroken EXCEPT !.attempted = FALSE]
RenderFailed == [BindFailed EXCEPT !.retryable = FALSE]
ServiceUnavailable == [BindFailed EXCEPT !.entered = FALSE]

\* NATIVE_PRINT_SERVICE_FAMILY_NOT_FOUND, and the queue's own report for a
\* worker that throws.
NotDispatched == [ServiceUnavailable EXCEPT !.retryable = FALSE]

\* The official library reads its list of errors for each field: an error may
\* come in between.
LateError == [Clean EXCEPT !.retryable = TRUE]

OfficialReports == {BindFailed, Clean, LateError, CallbackError, SequenceBroken}
LegacyReports == {ServiceUnavailable, NotDispatched, Clean, CallbackError,
                  RenderFailed, SequenceBroken, DispatchException}
=============================================================================
