----------------------------- MODULE MCRecords -----------------------------
(***************************************************************************)
(* The two records of what was decided, each on its own: live names the    *)
(* one that moves, the other rests in its initial state, in which nothing  *)
(* that is fair is enabled.                                                *)
(***************************************************************************)
EXTENDS AuditLog, SiemDispatch

VARIABLE live

RecordsInit ==
  /\ live \in {"audit", "siem"}
  /\ AuditInit /\ SiemInit

Only(s) ==
  /\ live = s /\ UNCHANGED live
  /\ IF s = "audit" THEN TRUE ELSE UNCHANGED auditVars
  /\ IF s = "siem" THEN TRUE ELSE UNCHANGED siemVars

(***************************************************************************)
(* Bound: a second dispatcher thread is met without hooks.  Neither of the *)
(* two counts is changed by an action that is fair.                        *)
(***************************************************************************)
SecondThreadAlone == threads' < 2 \/ Hooks \cap Range(backends') = {}

RecordsNext ==
  \/ Only("audit") /\ AuditNext
  \/ Only("siem") /\ SiemNext /\ SecondThreadAlone

RecordsSpec ==
  /\ RecordsInit /\ [][RecordsNext]_<<live, auditVars, siemVars>>
  /\ AuditFairness /\ SiemFairness

(***************************************************************************)
(* Database, JSONL file and every SIEM backend implement EventLog: what is *)
(* accepted is settled once in each, and never returns.                    *)
(***************************************************************************)
RecordsAreLogs == TableIsALog /\ MirrorIsALog /\ SinksAreLogs

(***************************************************************************)
(* record() and both stop() return and what is queued leaves the queue,    *)
(* but for the full queue that nobody drains.                              *)
(***************************************************************************)
RecordsMoveOn ==
  /\ RecordReturns /\ StopReturns /\ EventsAreWritten /\ SiemStops /\ MessagesLeave

=============================================================================
