--------------------------- MODULE DispatchReport ---------------------------
(***************************************************************************)
(* reconcile:dispatch (dispatch/reconcile-dispatch.ts) while the worker    *)
(* runs: the claims and the claimed assets are read by separate queries.   *)
(* The third query, for audit rows, is left out: they are written by the   *)
(* transactions that change the claim, and read together with it.          *)
(***************************************************************************)
EXTENDS Worker

VARIABLE report  \* the run of reconcile:dispatch

reportVars == <<vars, report>>

NoReport == [pc |-> "idle", seen |-> {}, issues |-> {}, moved |-> FALSE]

ReportInit == Init /\ report = NoReport

\* Confirmed claims: a signature is on record, and the asset is claimed.
ReadConfirmed ==
  LET confirmed == {c \in Claims : status[c] = "confirmed"}
  IN /\ report.pc = "idle"
     /\ report' = [pc |-> "reading", seen |-> confirmed, moved |-> FALSE,
                   issues |-> {c \in confirmed : sig[c] = None \/ asset[c] # "claimed"}]
     /\ UNCHANGED vars

\* Claimed assets: each belongs to a claim that was read.
ReadClaimedAssets ==
  /\ report.pc = "reading"
  /\ report' = [report EXCEPT !.pc = "done",
                  !.issues = @ \cup {c \in Claims : asset[c] = "claimed" /\ c \notin report.seen}]
  /\ UNCHANGED vars

\* The operator looks at the report and runs it again some time.
CloseReport ==
  /\ report.pc = "done"
  /\ report' = NoReport
  /\ UNCHANGED vars

\* moved, which no code reads, notes that a claim was finalized meanwhile.
WorkOn ==
  /\ Next
  /\ report' = IF /\ report.pc = "reading"
                  /\ \E c \in Claims : status[c] # "confirmed" /\ status'[c] = "confirmed"
               THEN [report EXCEPT !.moved = TRUE] ELSE report

ReportNext == ReadConfirmed \/ ReadClaimedAssets \/ CloseReport \/ WorkOn

ReportSpec == ReportInit /\ [][ReportNext]_reportVars

\* The report raises no issue, with one worker, unless a claim was finalized
\* between its queries: whatever crashes, expiries and re-signs there were, a
\* confirmed claim keeps a signature and its asset is claimed.
OnlyMovementIsReported == report.pc = "done" /\ report.issues # {} => report.moved
=============================================================================
