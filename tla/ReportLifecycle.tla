---------------------------- MODULE ReportLifecycle ----------------------------
(***************************************************************************)
(* The life cycle of a report as docs/architecture/STATE-MACHINES.md draws *)
(* it: no row yet (PENDING), GENERATING, then READY or FAILED, and from    *)
(* FAILED back to GENERATING.  READY is final.  The content appears with   *)
(* READY, together with ReportGenerated, and goes only with the recording. *)
(*                                                                         *)
(* AnalysisClaim follows this as long as its workers keep what they have   *)
(* claimed.                                                                *)
(***************************************************************************)
CONSTANT Recordings

VARIABLES
  live,      \* recordings whose row exists
  report,    \* reports.status, "absent" without a row
  filled,    \* recordings whose report has its content
  generated  \* recordings with a ReportGenerated event

reportVars == <<live, report, filled, generated>>

Init ==
  /\ live = Recordings
  /\ report = [r \in Recordings |-> "absent"]
  /\ filled = {} /\ generated = {}

Changes(r, from, to) ==
  /\ r \in live /\ r \in live'
  /\ report[r] \in from /\ report'[r] = to

Announced(r) == r \in generated' <=> r \in generated

KeepsContent(r) == Announced(r) /\ (r \in filled' <=> r \in filled)

Start(r) == Changes(r, {"absent", "FAILED"}, "GENERATING") /\ KeepsContent(r)

Fail(r) == Changes(r, {"GENERATING"}, "FAILED") /\ KeepsContent(r)

Publish(r) ==
  /\ Changes(r, {"GENERATING"}, "READY")
  /\ r \in filled' /\ r \in generated'

Delete(r) ==
  /\ r \in live /\ r \notin live'
  /\ report'[r] = "absent" /\ r \notin filled'
  /\ Announced(r)

Stay(r) ==
  /\ r \in live' <=> r \in live
  /\ report'[r] = report[r]
  /\ KeepsContent(r)

(* What a step may do to one recording, whatever it does to the others.    *)
Move(r) == Start(r) \/ Fail(r) \/ Publish(r) \/ Delete(r) \/ Stay(r)

Next == \A r \in Recordings : Move(r)

Spec == Init /\ [][Next]_reportVars
================================================================================
