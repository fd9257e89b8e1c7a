----------------------------- MODULE AlertEngine -----------------------------
(***************************************************************************)
(* AlertEngine (alerts/engine.py): alerts are deduplicated by key, held    *)
(* back in quiet hours, and audited in memory and in a file.  The file is  *)
(* only written: an engine that starts on it remembers nothing.            *)
(*                                                                         *)
(* Abstracted: of an alert its type, instrument, severity and key; time is *)
(* the hour of the day.                                                    *)
(***************************************************************************)
EXTENDS Integers, Sequences, SequencesExt

CONSTANTS
  Alerts,      \* the alerts raised by whoever calls emit
  Quiet,       \* quiet_hours: <<start, end>>, or <<>> for None
  Hours,       \* the hours of the day that occur
  MaxAudit     \* bound on the audit and on the file

ASSUME AlertAssumption == MaxAudit \in Nat /\ Hours \subseteq 0..23

VARIABLES
  engine,     \* [keys, delivered, audit]: _delivered_keys, delivered, audit
  auditFile,  \* the actions appended to audit_path
  hour        \* of the clock

alerting == <<engine, auditFile, hour>>

\* The builders: what an alert is about, and the key that makes it the same alert.
Alert(type, i, severity, about) ==
  [type |-> type, name |-> i, severity |-> severity, key |-> <<type, i, about>>]
NewOpportunity(i, asOf) == Alert("new_opportunity", i, "INFO", asOf)
ThesisInvalidated(i, stop) == Alert("thesis_invalidated", i, "CRITICAL", stop)
TargetHit(i, target) == Alert("target_hit", i, "INFO", target)
RiskVetoed(i, reasons) == Alert("risk_veto", i, "WARN", reasons)

NewEngine == [keys |-> {}, delivered |-> <<>>, audit |-> <<>>]

\* Quiet hours may go over midnight.
IsQuiet(q, h) ==
  /\ q # <<>>
  /\ IF q[1] <= q[2] THEN q[1] <= h /\ h < q[2] ELSE h >= q[1] \/ h < q[2]

ActionOn(e, a, q, h) ==
  IF a.key \in e.keys THEN "deduped"
  ELSE IF IsQuiet(q, h) /\ a.severity # "CRITICAL" THEN "quiet" ELSE "delivered"

\* Mutant: the key of an alert that is held back is remembered too.
EmittedOnce(e, a, q, h) ==
  LET action == ActionOn(e, a, q, h)
  IN [keys |-> e.keys \cup {a.key},
      delivered |-> IF action = "delivered" THEN Append(e.delivered, a) ELSE e.delivered,
      audit |-> Append(e.audit, [alert |-> a, action |-> action, at |-> h])]

\* The engine after emit: it remembers a key only when it delivers.
Emitted(e, a, q, h) ==
  LET action == ActionOn(e, a, q, h)
  IN [keys |-> IF action = "delivered" THEN e.keys \cup {a.key} ELSE e.keys,
      delivered |-> IF action = "delivered" THEN Append(e.delivered, a) ELSE e.delivered,
      audit |-> Append(e.audit, [alert |-> a, action |-> action, at |-> h])]

AlertInit == engine = NewEngine /\ auditFile = <<>> /\ hour \in Hours

Room == Len(engine.audit) < MaxAudit /\ Len(auditFile) < MaxAudit

\* emit: the engine has changed before the append, which may raise.
Emit(a) ==
  /\ Room
  /\ engine' = Emitted(engine, a, Quiet, hour)
  /\ \/ auditFile' = Append(auditFile, Last(engine'.audit))
     \/ UNCHANGED auditFile
  /\ UNCHANGED hour

EngineRestarts == engine' = NewEngine /\ UNCHANGED <<auditFile, hour>>
HourPasses == hour' \in Hours /\ UNCHANGED <<engine, auditFile>>

AlertNext == (\E a \in Alerts : Emit(a)) \/ EngineRestarts \/ HourPasses

AlertSpec == AlertInit /\ [][AlertNext]_alerting

-----------------------------------------------------------------------------
\* An alert is deduped only after the same alert was delivered, and is delivered
\* once: what was held back in quiet hours is no reason to drop it when it comes
\* again (engine.py emit).  A critical alert is never held back, and another only in
\* quiet hours; what was delivered is what the audit says was.
DedupeFollowsDelivery ==
  /\ \A n \in 1..Len(engine.audit) :
       LET e == engine.audit[n]
           before == \E k \in 1..n - 1 :
             engine.audit[k].action = "delivered" /\ engine.audit[k].alert.key = e.alert.key
       IN /\ (e.action = "deduped") <=> before
          /\ e.action = "quiet" => e.alert.severity # "CRITICAL" /\ IsQuiet(Quiet, e.at)
          /\ e.action = "delivered" => e.alert \in Range(engine.delivered)
  /\ \A k \in 1..Len(engine.delivered) : \E n \in 1..Len(engine.audit) :
       engine.audit[n].action = "delivered" /\ engine.audit[n].alert = engine.delivered[k]
===============================================================================
