---------------------------- MODULE RemoteProofs ----------------------------
(***************************************************************************)
(* Safety of RemoteConfiguration for every number of requests, sizes and   *)
(* calls, any owner and any number of revisions.                           *)
(***************************************************************************)
EXTENDS RemoteInvariant, TLAPS

USE RemoteAssumption
USE DEF vars, policy, worker, asked, edit, receipts, settings, machine, work, link, table, ghosts,
        Statuses, Open, Final, Tasks, Local, Messages, Reports
\* What an action may call on the way.
USE DEF OwnerMay, OwnerLeaves, Ticks, Shares, Goto, Return, Spoils

\* A new revision takes the edit in hand away and passes every request.
LEMMA AdvanceInv ==
  ASSUME IInv, Advance, UNCHANGED <<task, claimed, calls, answer, report, row, expected>>
  PROVE  Asked' /\ InHand' /\ Revised' /\ Snapshots' /\ Consented' /\ Passed' /\ Shown'
<1>1. /\ revision \in Nat /\ revision' = revision + 1 /\ pending' = None
      /\ receipt \in [Requests -> Statuses] /\ receiptAt \in [Requests -> Nat]
      /\ calls \in [Calls -> Messages \cup {None}] /\ expected \in [Requests -> Nat]
      /\ report \in Reports \cup {None}
  BY DEF Advance, IInv, TypeOK, SettingsType, EditType, LinkType, TableType
<1>2. pending # None => pending \in Requests /\ receipt[pending] = "pending"
  BY DEF IInv, TypeOK, EditType, InHand
<1>3. \A q \in Requests :
        /\ receipt'[q] = IF q = pending THEN "rejected" ELSE receipt[q]
        /\ receiptAt'[q] = IF q = pending THEN revision + 1 ELSE receiptAt[q]
  BY <1>1, <1>2 DEF Advance
<1>4. \A q \in Requests : q \in overtaken' =>
        q \in overtaken \/ (row[q] # "none" /\ receipt[q] # "applied")
  BY DEF Advance
<1>5. Asked'
  BY <1>1, <1>3, <1>4 DEF IInv, Asked
<1>6. InHand'
  BY <1>1, <1>2, <1>3 DEF IInv, InHand, TypeOK, TaskType
<1>7. Revised'
  BY <1>1, <1>3 DEF IInv, Revised
<1>8. Snapshots'
  <2> SUFFICES ASSUME NEW c \in Calls, calls[c] # None PROVE Snapshot(calls[c])'
    BY DEF Snapshots
  <2>1. calls[c] \in Messages /\ Snapshot(calls[c])
    BY <1>1 DEF IInv, Snapshots
  <2>2. calls' = calls /\ row' = row /\ expected' = expected
    OBVIOUS
  <2> QED
    BY <1>1, <1>2, <1>3, <2>1, <2>2 DEF Snapshot
<1>9. Consented'
  <2>1. \A c \in Calls :
        calls[c] # None => calls[c].revision \in Nat /\ calls[c].revision # revision + 1
    BY <1>1 DEF IInv, Snapshots, Snapshot
  <2>2. report # None => report.revision \in Nat /\ report.revision # revision + 1
    BY <1>1 DEF IInv, Revised
  <2>3. \A q \in Requests : row[q] # "none" => expected[q] # revision + 1
    BY <1>1, <2>2 DEF IInv, Revised
  <2> QED
    BY <1>1, <2>1, <2>2, <2>3 DEF IInv, Consented, OneConsent
<1>10. Passed'
  BY <1>1, <1>3 DEF IInv, Passed
<1>11. Shown'
  <2>1. \A q \in Requests : row[q] # "none" => revision + 1 > expected[q]
    BY <1>1 DEF IInv, Revised
  <2>2. \A q \in Requests : receipt[q] # "applied" => receipt'[q] # "applied"
    BY <1>3
  <2> QED
    BY <1>1, <1>2, <1>3, <1>4, <2>1, <2>2 DEF IInv, Shown
<1> QED
  BY <1>5, <1>6, <1>7, <1>8, <1>9, <1>10, <1>11

\* A request is answered by the agent with "rejected", or taken in hand.
LEMMA RecordInv ==
  ASSUME IInv, NEW r \in Requests, row[r] # "none", NEW status \in {"pending", "rejected"},
         Record(r, status), receipt[r] = "none" \/ (status = "rejected" /\ receipt[r] #
           "applied"),
         UNCHANGED <<consent, revision, calls, report, row, expected, overtaken>>
  PROVE  Revised' /\ Snapshots' /\ Consented' /\ Passed' /\ Shown'
<1>1. /\ revision \in Nat /\ row \in [Requests -> Statuses]
      /\ receipt \in [Requests -> Statuses] /\ receiptAt \in [Requests -> Nat]
      /\ calls \in [Calls -> Messages \cup {None}] /\ expected \in [Requests -> Nat]
      /\ report \in Reports \cup {None}
  BY DEF IInv, TypeOK, SettingsType, EditType, LinkType, TableType
<1>2. \A q \in Requests :
        /\ receipt'[q] = IF q = r THEN status ELSE receipt[q]
        /\ receiptAt'[q] = IF q = r THEN revision ELSE receiptAt[q]
  BY <1>1 DEF Record
<1>3. Revised'
  BY <1>1, <1>2 DEF IInv, Revised
<1>4. Snapshots'
  <2> SUFFICES ASSUME NEW c \in Calls, calls[c] # None PROVE Snapshot(calls[c])'
    BY DEF Snapshots
  <2>1. calls[c] \in Messages /\ Snapshot(calls[c])
    BY <1>1 DEF IInv, Snapshots
  <2>2. calls' = calls /\ row' = row /\ expected' = expected /\ revision' = revision
    OBVIOUS
  <2> QED
    BY <1>1, <1>2, <2>1, <2>2 DEF Snapshot
<1>5. Consented'
  BY DEF IInv, Consented, OneConsent
<1>6. Passed'
  BY <1>2 DEF IInv, Passed
<1>7. Shown'
  BY <1>2 DEF IInv, Shown
<1> QED
  BY <1>3, <1>4, <1>5, <1>6, <1>7

\* The owner's settings.
LEMMA OwnerInv ==
  ASSUME IInv, SetRemoteConsent \/ (\E s \in Sizes, e \in BOOLEAN : SavePolicy(s, e)) \/ Prepare
         \/ Resume \/ Pause \/ StopNow
  PROVE  IInv'
<1>1. UNCHANGED <<allocated, created, configured, recreation, applying, repair, vm, running, task,
                  claimed, target, calls, awaits, answer, report, row, expected, newSize,
                  newEnabled, faults>>
  BY DEF SetRemoteConsent, Advance, SavePolicy, Prepare, Resume, Pause, StopNow
<1>2. TaskType' /\ LinkType'
  BY <1>1 DEF IInv, TypeOK, TaskType, LinkType
<1>3. Advance /\ UNCHANGED <<task, claimed, calls, answer, report, row, expected>>
  BY <1>1 DEF SetRemoteConsent, SavePolicy, Prepare, Resume, Pause, StopNow
<1>4. SettingsType'
  <2>1. {consent', enabled', prepare', stopping'} \subseteq BOOLEAN
    BY <1>1 DEF SetRemoteConsent, SavePolicy, Prepare, Resume, Pause, StopNow, IInv, TypeOK,
                SettingsType
  <2>2. size' \in Sizes
    BY <1>1 DEF SetRemoteConsent, SavePolicy, Prepare, Resume, Pause, StopNow, IInv, TypeOK,
                SettingsType
  <2> QED
    BY <1>1, <1>3, <2>1, <2>2 DEF Advance, IInv, TypeOK, SettingsType
<1>5. EditType'
  BY <1>1, <1>3 DEF SetRemoteConsent, Advance, SavePolicy, Prepare, Resume, Pause, StopNow, IInv,
                    TypeOK, EditType, SettingsType
<1>6. TableType'
  BY <1>1, <1>3 DEF SetRemoteConsent, Advance, SavePolicy, Prepare, Resume, Pause, StopNow, IInv,
                    TypeOK, TableType
<1>7. Asked'
  BY <1>3, AdvanceInv
<1>8. InHand'
  BY <1>3, AdvanceInv
<1>9. Revised'
  BY <1>3, AdvanceInv
<1>10. Snapshots'
  BY <1>3, AdvanceInv
<1>11. Consented'
  BY <1>3, AdvanceInv
<1>12. Passed'
  BY <1>3, AdvanceInv
<1>13. Shown'
  BY <1>3, AdvanceInv
<1> QED
  BY <1>2, <1>4, <1>5, <1>6, <1>7, <1>8, <1>9, <1>10, <1>11, <1>12, <1>13 DEF IInv, TypeOK

\* The worker is to be replaced, and is forgotten.
LEMMA ReplaceInv ==
  ASSUME IInv, (\E s \in Sizes : RecreateWorker(s)) \/ ForgetWorker
  PROVE  IInv'
<1>1. UNCHANGED <<consent, stopping, vm, running, task, claimed, target, calls, awaits, answer,
                  report, row, expected, newSize, newEnabled, faults>>
  BY DEF RecreateWorker, Advance, ForgetWorker
<1>2. TaskType' /\ LinkType'
  BY <1>1 DEF IInv, TypeOK, TaskType, LinkType
<1>3. Advance /\ UNCHANGED <<task, claimed, calls, answer, report, row, expected>>
  BY <1>1 DEF RecreateWorker, ForgetWorker
<1>4. SettingsType'
  <2>1. {enabled', prepare', recreation', created', configured'} \subseteq BOOLEAN
    BY <1>1 DEF RecreateWorker, ForgetWorker, IInv, TypeOK, SettingsType
  <2>2. size' \in Sizes /\ allocated' \in Sizes \cup {None}
    BY <1>1 DEF RecreateWorker, ForgetWorker, IInv, TypeOK, SettingsType
  <2> QED
    BY <1>1, <1>3, <2>1, <2>2 DEF Advance, IInv, TypeOK, SettingsType
<1>5. EditType'
  <2>1. {applying', repair'} \subseteq BOOLEAN
    BY <1>1 DEF RecreateWorker, ForgetWorker, IInv, TypeOK, EditType
  <2> QED
    BY <1>1, <1>3, <2>1 DEF Advance, IInv, TypeOK, SettingsType, EditType
<1>6. TableType'
  BY <1>1, <1>3 DEF RecreateWorker, Advance, ForgetWorker, IInv, TypeOK, TableType
<1>7. Asked'
  BY <1>3, AdvanceInv
<1>8. InHand'
  BY <1>3, AdvanceInv
<1>9. Revised'
  BY <1>3, AdvanceInv
<1>10. Snapshots'
  BY <1>3, AdvanceInv
<1>11. Consented'
  BY <1>3, AdvanceInv
<1>12. Passed'
  BY <1>3, AdvanceInv
<1>13. Shown'
  BY <1>3, AdvanceInv
<1> QED
  BY <1>2, <1>4, <1>5, <1>6, <1>7, <1>8, <1>9, <1>10, <1>11, <1>12, <1>13 DEF IInv, TypeOK

\* A request is made with the revision and the consent of the last report.
LEMMA RequestInv ==
  ASSUME IInv, NEW q \in Requests, NEW s \in Sizes, NEW e \in BOOLEAN, RequestConfiguration(q, s,
         e)
  PROVE  IInv'
<1>1. UNCHANGED <<consent, revision, size, enabled, allocated, created, configured, prepare,
                  stopping, recreation, pending, applying, repair, receipt, receiptAt, vm,
                  running, task, claimed, target, calls, awaits, answer, report, faults>>
  BY DEF RequestConfiguration
<1>2. SettingsType' /\ EditType' /\ TaskType' /\ LinkType'
  BY <1>1 DEF IInv, TypeOK, SettingsType, EditType, TaskType, LinkType
<1>3. InHand'
  BY <1>1 DEF IInv, TypeOK, InHand
<1>4. TableType'
  BY <1>1 DEF RequestConfiguration, IInv, TypeOK, TableType
<1>5. Asked'
  BY <1>1 DEF RequestConfiguration, IInv, TypeOK, Asked, TableType
<1>6. Revised'
  BY <1>1 DEF RequestConfiguration, IInv, TypeOK, Revised, SettingsType, EditType, TaskType,
              LinkType, TableType, Asked
<1>7. Snapshots'
  BY <1>1 DEF RequestConfiguration, IInv, TypeOK, Snapshots, Snapshot, SettingsType, EditType,
              TaskType, LinkType, TableType, Asked, Revised, InHand
<1>8. Consented'
  <2>1. /\ report # None /\ report.consent = TRUE /\ row[q] = "none"
        /\ row' = [row EXCEPT ![q] = "requested"]
        /\ expected' = [expected EXCEPT ![q] = report.revision]
        /\ row \in [Requests -> Statuses] /\ expected \in [Requests -> Nat]
        /\ consent \in BOOLEAN
    BY DEF RequestConfiguration, IInv, TypeOK, SettingsType, TableType
  <2>2. \A p \in Requests : p # q => row'[p] = row[p] /\ expected'[p] = expected[p]
    BY <2>1
  <2>3. expected'[q] = report.revision
    BY <2>1
  <2> QED
    BY <1>1, <2>1, <2>2, <2>3 DEF IInv, Consented, OneConsent
<1>9. Passed'
  BY <1>1 DEF RequestConfiguration, IInv, TypeOK, Passed, SettingsType, EditType, TaskType,
              LinkType, TableType, Asked, Revised, Snapshots, Snapshot, InHand
<1>10. Shown'
  BY <1>1 DEF RequestConfiguration, IInv, TypeOK, Shown, SettingsType, EditType, TaskType,
              LinkType, TableType, Asked, Revised, InHand
<1> QED
  BY <1>2, <1>3, <1>4, <1>5, <1>6, <1>7, <1>8, <1>9, <1>10 DEF IInv, TypeOK

\* A message says what is true now.
LEMMA HeartbeatInv ==
  ASSUME IInv, NEW c \in Calls, Heartbeat(c)
  PROVE  IInv'
<1>1. UNCHANGED <<consent, revision, size, enabled, allocated, created, configured, prepare,
                  stopping, recreation, pending, applying, repair, receipt, receiptAt, vm,
                  running, claimed, target, report, row, expected, newSize, newEnabled, overtaken,
                  faults>>
  BY DEF Heartbeat
<1>2. SettingsType' /\ EditType' /\ TableType' /\ Revised'
  BY <1>1 DEF IInv, TypeOK, SettingsType, EditType, TableType, Revised
<1>3. Shown'
  BY <1>1 DEF IInv, TypeOK, Shown
<1>4. TaskType'
  BY <1>1 DEF Heartbeat, IInv, TypeOK, TaskType
<1>5. LinkType'
  BY <1>1 DEF Heartbeat, IInv, TypeOK, LinkType, SettingsType, EditType
<1>6. Asked'
  BY <1>1 DEF Heartbeat, IInv, TypeOK, Asked
<1>7. InHand'
  BY <1>1 DEF Heartbeat, IInv, TypeOK, InHand
<1>8. Snapshots'
  BY <1>1 DEF Heartbeat, IInv, TypeOK, Snapshots, Snapshot, SettingsType, EditType, TaskType,
              LinkType, TableType, Asked, Revised, InHand
<1>9. Consented'
  BY <1>1 DEF Heartbeat, IInv, TypeOK, Consented, OneConsent
<1>10. Passed'
  BY <1>1 DEF Heartbeat, IInv, TypeOK, Passed
<1> QED
  BY <1>2, <1>3, <1>4, <1>5, <1>6, <1>7, <1>8, <1>9, <1>10 DEF IInv, TypeOK

\* The controller acknowledges, confirms, refuses or sends.
LEMMA ExchangeInv ==
  ASSUME IInv, NEW c \in Calls, Exchange(c)
  PROVE  IInv'
<1>1. UNCHANGED <<consent, revision, size, enabled, allocated, created, configured, prepare,
                  stopping, recreation, pending, applying, repair, receipt, receiptAt, vm,
                  running, claimed, target, expected, newSize, newEnabled, overtaken, faults>>
  BY DEF Exchange
<1>2. SettingsType' /\ EditType'
  BY <1>1 DEF IInv, TypeOK, SettingsType, EditType
<1>3. calls[c] # None /\ calls[c] \in Messages /\ Snapshot(calls[c])
  BY DEF Exchange, IInv, TypeOK, LinkType, Snapshots
<1>4. /\ calls' = [calls EXCEPT ![c] = None]
      /\ \/ UNCHANGED <<task, answer, awaits>>
         \/ task' = "answered" /\ awaits' = None /\ answer' \in Commands(calls[c]) \cup {None}
  BY DEF Exchange, Answer
<1>5. /\ row \in [Requests -> Statuses] /\ expected \in [Requests -> Nat] /\ revision \in Nat
      /\ receipt \in [Requests -> Statuses] /\ report \in Reports \cup {None}
      /\ calls \in [Calls -> Messages \cup {None}] /\ answer \in Requests \cup {None}
  BY DEF IInv, TypeOK, SettingsType, EditType, LinkType, TableType
<1>6. \A b \in Calls : calls'[b] # None => calls'[b] = calls[b] /\ calls[b] # None
  BY <1>4, <1>5
<1>7. \/ UNCHANGED <<report, row>>
      \/ /\ ~Older(calls[c])
         /\ report' = [consent |-> calls[c].consent, revision |-> calls[c].revision]
         /\ row' = [q \in Requests |->
                      IF Unanswered(calls[c], q) /\ Refused(calls[c], q) THEN "rejected"
                      ELSE Acknowledged(calls[c], q)]
  BY DEF Exchange
\* An open request may get the status in the message.
<1>8. \A q \in Requests :
        /\ Acknowledged(calls[c], q) \in Statuses
        /\ Acknowledged(calls[c], q) # row[q] =>
             /\ row[q] \in Open /\ calls[c].receipt[q] # "none"
             /\ Acknowledged(calls[c], q) = calls[c].receipt[q]
        /\ Acknowledged(calls[c], q) \in Open => row[q] \in Open
  BY <1>3, <1>5 DEF Acknowledged
\* One that is refused was passed by a revision and is not applied any more.
<1>9. ASSUME NEW q \in Requests, ~Older(calls[c]), Unanswered(calls[c], q), Refused(calls[c], q)
      PROVE  row[q] \in Open /\ receipt[q] # "applied" /\ revision > expected[q]
  <2>1. row[q] \in Open /\ Acknowledged(calls[c], q) \in Open
    BY <1>9, <1>8 DEF Unanswered
  <2>2. calls[c].receipt[q] # "applied"
    BY <1>3, <2>1 DEF Acknowledged, Snapshot
  <2>3. calls[c].revision # expected[q]
    BY <1>9, <1>3, <2>1 DEF Refused, IInv, Consented
  <2>4. report # None /\ expected[q] <= report.revision /\ report.revision <= calls[c].revision
    BY <1>9, <1>3, <1>5, <2>1 DEF IInv, Revised, Older
  <2>5. {calls[c].revision, expected[q], report.revision, revision} \subseteq Nat
    BY <1>3, <1>5, <2>4
  <2>6. calls[c].revision <= revision
    BY <1>3 DEF Snapshot
  <2>7. calls[c].revision > expected[q]
    BY <2>3, <2>4, <2>5
  <2>8. receipt[q] # "applied"
    BY <1>3, <2>1, <2>2, <2>7 DEF IInv, Passed
  <2> QED
    BY <2>1, <2>5, <2>6, <2>7, <2>8
\* What becomes of each row.
<1>10. \A q \in Requests :
        /\ row'[q] \in Statuses
        /\ \/ row'[q] = row[q]
           \/ row[q] \in Open /\ row'[q] = calls[c].receipt[q] /\ row'[q] # "none"
           \/ row[q] \in Open /\ row'[q] = "rejected" /\ receipt[q] # "applied" /\ revision >
             expected[q]
  BY <1>5, <1>7, <1>8, <1>9
<1>11. answer' # None => answer' \in Requests /\ row'[answer'] # "none"
  <2>1. CASE answer' = answer
    BY <1>5, <1>10, <2>1 DEF IInv, Asked
  <2>2. CASE answer' \in Commands(calls[c])
    BY <1>10, <1>8, <2>2 DEF Commands, Unanswered
  <2> QED
    BY <1>4, <2>1, <2>2
<1>12. TaskType'
  BY <1>1, <1>4 DEF IInv, TypeOK, TaskType
<1>13. LinkType'
  <2>1. calls' \in [Calls -> Messages \cup {None}] /\ answer' \in Requests \cup {None}
    BY <1>4, <1>5, <1>11
  <2>2. awaits' \in Calls \cup {None}
    BY <1>4 DEF IInv, TypeOK, LinkType
  <2> QED
    BY <2>1, <2>2 DEF LinkType
<1>14. TableType'
  <2>1. row' \in [Requests -> Statuses]
    BY <1>5, <1>7, <1>8
  <2>2. report' \in Reports \cup {None}
    BY <1>3, <1>5, <1>7
  <2> QED
    BY <1>1, <2>1, <2>2 DEF IInv, TypeOK, TableType
<1>15. Asked'
  BY <1>1, <1>6, <1>11, <1>10 DEF IInv, Asked
<1>16. InHand'
  <2>1. task' \in {"resizing", "resized"} => task' = task
    BY <1>4
  <2> QED
    BY <1>1, <2>1 DEF IInv, InHand
<1>17. Revised'
  <2>1. report' # None => report'.revision <= revision
    BY <1>3, <1>7 DEF IInv, Revised, Snapshot
  <2>2. ASSUME report # None
        PROVE  /\ report' # None /\ report.revision <= report'.revision
               /\ {report.revision, report'.revision} \subseteq Nat
    <3>1. CASE UNCHANGED report
      BY <1>5, <2>2, <3>1
    <3>2. CASE ~Older(calls[c]) /\ report'.revision = calls[c].revision /\ report' # None
      BY <1>3, <1>5, <2>2, <3>2 DEF Older
    <3>3. [consent |-> calls[c].consent, revision |-> calls[c].revision] \in Reports
      BY <1>3
    <3> QED
      BY <1>7, <3>1, <3>2, <3>3
  <2>3. \A q \in Requests : row'[q] # "none" => row[q] # "none"
    BY <1>10
  <2> QED
    BY <1>1, <1>5, <2>1, <2>2, <2>3 DEF IInv, Revised
<1>18. Snapshots'
  <2> SUFFICES ASSUME NEW b \in Calls, calls'[b] # None PROVE Snapshot(calls[b])'
    BY DEF Snapshots
  <2>1. calls'[b] = calls[b] /\ Snapshot(calls[b])
    BY <1>6 DEF IInv, Snapshots
  <2>2. \A q \in Requests : row'[q] # "none" => row[q] # "none"
    BY <1>10
  <2> QED
    BY <1>1, <2>1, <2>2 DEF Snapshot
<1>19. Consented'
  <2>1. \A q \in Requests : row'[q] # "none" => row[q] # "none"
    BY <1>10
  <2>2. /\ \/ report' = report
           \/ report' # None /\ report'.revision = calls[c].revision /\ report'.consent =
             calls[c].consent
        /\ \A b \in Calls : calls'[b] # None => calls'[b] = calls[b] /\ calls[b] # None
    <3>1. [consent |-> calls[c].consent, revision |-> calls[c].revision] \in Reports
      BY <1>3
    <3> QED
      BY <1>6, <1>7, <3>1
  <2> QED
    BY <1>1, <1>3, <2>1, <2>2 DEF IInv, Consented, OneConsent
<1>20. Passed'
  <2>1. \A q \in Requests : row'[q] # "none" => row[q] # "none"
    BY <1>10
  <2> QED
    BY <1>1, <1>6, <2>1 DEF IInv, Passed
<1>21. Shown'
  <2>1. \A q \in Requests : calls[c].receipt[q] \in Final => receipt[q] = calls[c].receipt[q]
    BY <1>3 DEF Snapshot
  <2> QED
    BY <1>1, <1>10, <2>1 DEF IInv, Shown
<1> QED
  BY <1>2, <1>12, <1>13, <1>14, <1>15, <1>16, <1>17, <1>18, <1>19, <1>20, <1>21 DEF IInv, TypeOK

\* Calls and ticks end early.
LEMMA DropInv ==
  ASSUME IInv, Timeout \/ (\E c \in Calls : Lost(c)) \/ Interrupt \/ FinishStop \/ Crash
  PROVE  IInv'
<1>1. UNCHANGED <<consent, revision, size, enabled, allocated, created, configured, prepare,
                  recreation, pending, applying, repair, receipt, receiptAt, vm, report, row,
                  expected, newSize, newEnabled, overtaken>>
  BY DEF Timeout, Lost, Interrupt, Drop, FinishStop, Crash
<1>2. EditType' /\ Revised' /\ Shown'
  BY <1>1 DEF IInv, TypeOK, EditType, Revised, Shown
<1>3. SettingsType'
  <2>1. stopping' \in BOOLEAN
    BY DEF Timeout, Lost, Interrupt, FinishStop, Crash, IInv, TypeOK, SettingsType
  <2> QED
    BY <1>1, <2>1 DEF IInv, TypeOK, SettingsType
<1>4. TaskType'
  BY <1>1 DEF Timeout, Lost, Interrupt, Drop, FinishStop, Crash, IInv, TypeOK, TaskType
<1>5. LinkType'
  BY <1>1 DEF Timeout, Lost, Interrupt, Drop, FinishStop, Crash, IInv, TypeOK, LinkType
<1>6. TableType'
  BY <1>1 DEF Timeout, Lost, Interrupt, Drop, FinishStop, Crash, IInv, TypeOK, TableType
<1>7. Asked'
  BY <1>1 DEF Timeout, Lost, Interrupt, Drop, FinishStop, Crash, IInv, TypeOK, Asked, LinkType
<1>8. InHand'
  BY <1>1 DEF Timeout, Lost, Interrupt, Drop, FinishStop, Crash, IInv, TypeOK, InHand
<1>9. Snapshots'
  BY <1>1 DEF Timeout, Lost, Interrupt, Drop, FinishStop, Crash, IInv, TypeOK, Snapshots,
              Snapshot, LinkType
<1>10. Consented'
  BY <1>1 DEF Timeout, Lost, Interrupt, Drop, FinishStop, Crash, IInv, TypeOK, Consented,
              OneConsent, LinkType
<1>11. Passed'
  BY <1>1 DEF Timeout, Lost, Interrupt, Drop, FinishStop, Crash, IInv, TypeOK, Passed, LinkType
<1> QED
  BY <1>2, <1>3, <1>4, <1>5, <1>6, <1>7, <1>8, <1>9, <1>10, <1>11 DEF IInv, TypeOK

\* A command is taken in hand or rejected.
LEMMA ReceiveInv ==
  ASSUME IInv, ReceiveConfiguration
  PROVE  IInv'
<1>1. UNCHANGED <<consent, revision, size, enabled, allocated, created, configured, prepare,
                  stopping, recreation, applying, repair, vm, running, calls, awaits, report, row,
                  expected, newSize, newEnabled, overtaken, faults>>
  BY DEF ReceiveConfiguration, Record
<1>2. SettingsType' /\ TableType' /\ Consented'
  BY <1>1 DEF IInv, TypeOK, SettingsType, TableType, Consented, OneConsent
<1>3. EditType'
  BY <1>1 DEF ReceiveConfiguration, Record, IInv, TypeOK, EditType, SettingsType, TaskType,
              LinkType, TableType
<1>4. TaskType'
  BY <1>1 DEF ReceiveConfiguration, Record, IInv, TypeOK, TaskType
<1>5. LinkType'
  BY <1>1 DEF ReceiveConfiguration, Record, IInv, TypeOK, LinkType
<1>6. Asked'
  BY <1>1 DEF ReceiveConfiguration, Record, IInv, TypeOK, Asked, EditType
<1>7. InHand'
  BY <1>1 DEF ReceiveConfiguration, Record, IInv, TypeOK, InHand, SettingsType, EditType,
              TaskType, LinkType, TableType
<1>8. Revised'
  BY <1>1 DEF ReceiveConfiguration, Record, IInv, TypeOK, Revised, SettingsType, EditType,
              TaskType, LinkType, TableType, Asked
<1>9. Snapshots'
  BY <1>1 DEF ReceiveConfiguration, Record, IInv, TypeOK, Snapshots, Snapshot, EditType
<1>10. Passed'
  BY <1>1 DEF ReceiveConfiguration, Record, IInv, TypeOK, Passed, EditType
<1>11. Shown'
  BY <1>1 DEF ReceiveConfiguration, Record, IInv, TypeOK, Shown, EditType
<1> QED
  BY <1>2, <1>3, <1>4, <1>5, <1>6, <1>7, <1>8, <1>9, <1>10, <1>11 DEF IInv, TypeOK

\* A claim is made for the edit in hand.
LEMMA ClaimInv ==
  ASSUME IInv, ClaimConfiguration
  PROVE  IInv'
<1>1. UNCHANGED <<consent, revision, size, enabled, allocated, created, configured, prepare,
                  stopping, recreation, pending, receipt, receiptAt, vm, running, calls, awaits,
                  answer, report, row, expected, newSize, newEnabled, overtaken, faults>>
  BY DEF ClaimConfiguration, Valid, Resizes
<1>2. SettingsType' /\ LinkType' /\ TableType' /\ Revised'
  BY <1>1 DEF IInv, TypeOK, SettingsType, LinkType, TableType, Revised
<1>3. Snapshots' /\ Consented' /\ Passed' /\ Shown'
  BY <1>1 DEF IInv, TypeOK, Snapshots, Consented, Passed, Shown, Snapshot, OneConsent
<1>4. EditType'
  BY <1>1 DEF ClaimConfiguration, Valid, Resizes, IInv, TypeOK, EditType
<1>5. TaskType'
  BY <1>1 DEF ClaimConfiguration, Valid, Resizes, IInv, TypeOK, TaskType, EditType, TableType
<1>6. Asked'
  BY <1>1 DEF ClaimConfiguration, Valid, Resizes, IInv, TypeOK, Asked
<1>7. InHand'
  BY <1>1 DEF ClaimConfiguration, Valid, Resizes, IInv, TypeOK, InHand
<1> QED
  BY <1>2, <1>3, <1>4, <1>5, <1>6, <1>7 DEF IInv, TypeOK

\* The machine is worked on.
LEMMA WorkInv ==
  ASSUME IInv, ResizeDone \/ ResizePart \/ ResizeLocal \/ PrepareWorker \/ CreateWorker \/
         RemoveWorker \/ AlreadyPrepared \/ AllowSharing \/ StartWorker \/ StopWorker
  PROVE  IInv'
<1>1. UNCHANGED <<consent, revision, size, enabled, allocated, created, configured, stopping,
                  recreation, pending, applying, repair, receipt, receiptAt, calls, awaits,
                  answer, report, row, expected, newSize, newEnabled, overtaken, faults>>
  BY DEF ResizeDone, ResizePart, ResizeLocal, PrepareWorker, CreateWorker, RemoveWorker,
     AlreadyPrepared, AllowSharing, StartWorker, StopWorker
<1>2. EditType' /\ LinkType' /\ TableType' /\ Revised'
  BY <1>1 DEF IInv, TypeOK, EditType, LinkType, TableType, Revised
<1>3. Snapshots' /\ Consented' /\ Passed' /\ Shown'
  BY <1>1 DEF IInv, TypeOK, Snapshots, Consented, Passed, Shown, Snapshot, OneConsent
<1>4. SettingsType'
  <2>1. prepare' \in BOOLEAN
    BY DEF ResizeDone, ResizePart, ResizeLocal, PrepareWorker, CreateWorker, RemoveWorker,
           AlreadyPrepared, AllowSharing, StartWorker, StopWorker, IInv, TypeOK, SettingsType
  <2> QED
    BY <1>1, <2>1 DEF IInv, TypeOK, SettingsType
<1>5. TaskType'
  BY <1>1 DEF ResizeDone, ResizePart, ResizeLocal, PrepareWorker, CreateWorker, RemoveWorker,
              AlreadyPrepared, AllowSharing, StartWorker, StopWorker, IInv, TypeOK, TaskType,
              SettingsType, EditType
<1>6. Asked'
  BY <1>1 DEF ResizeDone, ResizePart, ResizeLocal, PrepareWorker, CreateWorker, RemoveWorker,
              AlreadyPrepared, AllowSharing, StartWorker, StopWorker, IInv, TypeOK, Asked
<1>7. InHand'
  BY <1>1 DEF ResizeDone, ResizePart, ResizeLocal, PrepareWorker, CreateWorker, RemoveWorker,
              AlreadyPrepared, AllowSharing, StartWorker, StopWorker, IInv, TypeOK, InHand
<1> QED
  BY <1>2, <1>3, <1>4, <1>5, <1>6, <1>7 DEF IInv, TypeOK

\* The owner's own operations are recorded.
LEMMA LocalInv ==
  ASSUME IInv, RecordLocal \/ RecordWorker \/ ConfigureWorker
  PROVE  IInv'
<1>1. UNCHANGED <<consent, revision, size, enabled, stopping, recreation, pending, applying,
                  repair, receipt, receiptAt, vm, calls, awaits, answer, report, row, expected,
                  newSize, newEnabled, overtaken, faults>>
  BY DEF RecordLocal, RecordWorker, ConfigureWorker
<1>2. EditType' /\ LinkType' /\ TableType' /\ Revised'
  BY <1>1 DEF IInv, TypeOK, EditType, LinkType, TableType, Revised
<1>3. Snapshots' /\ Consented' /\ Passed' /\ Shown'
  BY <1>1 DEF IInv, TypeOK, Snapshots, Consented, Passed, Shown, Snapshot, OneConsent
<1>4. SettingsType'
  BY <1>1 DEF RecordLocal, RecordWorker, ConfigureWorker, IInv, TypeOK, SettingsType, TaskType
<1>5. TaskType'
  BY <1>1 DEF RecordLocal, RecordWorker, ConfigureWorker, IInv, TypeOK, TaskType, SettingsType,
              EditType
<1>6. Asked'
  BY <1>1 DEF RecordLocal, RecordWorker, ConfigureWorker, IInv, TypeOK, Asked
<1>7. InHand'
  BY <1>1 DEF RecordLocal, RecordWorker, ConfigureWorker, IInv, TypeOK, InHand
<1> QED
  BY <1>2, <1>3, <1>4, <1>5, <1>6, <1>7 DEF IInv, TypeOK

\* The claimed edit is still in hand, at its revision.
LEMMA CommitInv ==
  ASSUME IInv, CommitConfiguration
  PROVE  IInv'
<1>1. UNCHANGED <<consent, created, configured, prepare, stopping, recreation, vm, running, calls,
                  awaits, answer, report, row, expected, newSize, newEnabled, overtaken, faults>>
  BY DEF CommitConfiguration, Authorized, ChangesPolicy
<1>2. LinkType' /\ TableType'
  BY <1>1 DEF IInv, TypeOK, LinkType, TableType
<1>3. /\ claimed \in Requests /\ pending = claimed /\ row[claimed] # "none"
      /\ revision = expected[claimed] /\ receipt[claimed] = "pending" /\ consent = TRUE
  BY DEF CommitConfiguration, Authorized, IInv, TypeOK, SettingsType, EditType, TaskType, InHand,
     Asked
<1>4. /\ revision \in Nat
      /\ revision' \in {revision, revision + 1}
      /\ expected \in [Requests -> Nat]
      /\ receipt \in [Requests -> Statuses] /\ receiptAt \in [Requests -> Nat]
      /\ receipt' = [receipt EXCEPT ![claimed] = "applied"]
      /\ receiptAt' = [receiptAt EXCEPT ![claimed] = revision']
      /\ pending' = None /\ claimed' = None /\ task' = "idle"
  BY DEF CommitConfiguration, IInv, TypeOK, SettingsType, EditType, TableType
<1>5. SettingsType'
  <2>1. size' \in Sizes /\ enabled' \in BOOLEAN /\ allocated' \in Sizes \cup {None}
    BY <1>3 DEF CommitConfiguration, IInv, TypeOK, SettingsType, TableType
  <2> QED
    BY <1>1, <1>4, <2>1 DEF IInv, TypeOK, SettingsType
<1>6. EditType'
  <2>1. applying' = FALSE /\ repair' = FALSE
    BY DEF CommitConfiguration
  <2>2. receipt' \in [Requests -> Statuses]
    BY <1>3, <1>4
  <2>3. revision' \in Nat
    BY <1>4
  <2>4. receiptAt' \in [Requests -> Nat]
    BY <1>3, <1>4, <2>3
  <2> QED
    BY <1>4, <2>1, <2>2, <2>4 DEF EditType
<1>7. TaskType'
  BY <1>1 DEF CommitConfiguration, IInv, TypeOK, TaskType
<1>8. Asked'
  BY <1>1, <1>3, <1>4 DEF IInv, Asked
<1>9. InHand'
  BY <1>4 DEF InHand
<1>10. Revised'
  BY <1>1, <1>3, <1>4 DEF IInv, TypeOK, TableType, Revised
<1>11. Snapshots'
  <2> SUFFICES ASSUME NEW c \in Calls, calls[c] # None PROVE Snapshot(calls[c])'
    BY <1>1 DEF Snapshots
  <2>1. calls[c] \in Messages /\ Snapshot(calls[c])
    BY DEF IInv, TypeOK, LinkType, Snapshots
  <2>2. \A q \in Requests : calls[c].receipt[q] \in Final => q # claimed
    BY <1>3, <2>1 DEF Snapshot
  <2> QED
    BY <1>1, <1>4, <2>1, <2>2 DEF Snapshot
<1>12. Consented'
  <2>1. \A c \in Calls :
        calls[c] # None => calls[c].revision \in Nat /\ calls[c].revision # revision + 1
    BY <1>4 DEF IInv, TypeOK, LinkType, Snapshots, Snapshot
  <2>2. report # None => report.revision \in Nat /\ report.revision # revision + 1
    BY <1>4 DEF IInv, TypeOK, TableType, Revised
  <2>3. \A q \in Requests : row[q] # "none" => expected[q] # revision + 1
    BY <1>4, <2>2 DEF IInv, Revised
  <2> QED
    BY <1>1, <1>4, <2>1, <2>2, <2>3 DEF IInv, Consented, OneConsent
<1>13. Passed'
  <2>1. \A c \in Calls : calls[c] # None => calls[c] \in Messages /\ calls[c].revision <= revision
    BY DEF IInv, TypeOK, LinkType, Snapshots, Snapshot
  <2> QED
    BY <1>1, <1>3, <1>4, <2>1 DEF IInv, Passed
<1>14. Shown'
  <2>1. claimed \notin overtaken /\ row[claimed] # "rejected"
    BY <1>3, <1>4 DEF IInv, Shown
  <2> QED
    BY <1>1, <1>3, <1>4, <2>1 DEF IInv, Shown
<1> QED
  BY <1>2, <1>5, <1>6, <1>7, <1>8, <1>9, <1>10, <1>11, <1>12, <1>13, <1>14 DEF IInv, TypeOK

\* The claimed edit is rejected, unless it was taken away already.
LEMMA FailInv ==
  ASSUME IInv, FailConfiguration
  PROVE  IInv'
<1>1. UNCHANGED <<consent, revision, size, enabled, created, configured, prepare, stopping,
                  recreation, repair, vm, running, calls, awaits, answer, report, row, expected,
                  newSize, newEnabled, overtaken, faults>>
  BY DEF FailConfiguration, Record
<1>2. LinkType' /\ TableType' /\ Consented'
  BY <1>1 DEF IInv, TypeOK, LinkType, TableType, Consented, OneConsent
<1>3. Record(claimed, "rejected") /\ claimed \in Requests /\ row[claimed] # "none" /\
  receipt[claimed] \in {"pending", "rejected"}
  BY DEF FailConfiguration, IInv, TypeOK, TaskType, InHand, Asked
<1>4. /\ receipt \in [Requests -> Statuses]
      /\ receiptAt \in [Requests -> Nat]
      /\ revision \in Nat
      /\ pending' = None /\ applying' = FALSE
      /\ \A q \in Requests : receipt'[q] = IF q = claimed THEN "rejected" ELSE receipt[q]
  BY <1>3 DEF FailConfiguration, Record, IInv, TypeOK, SettingsType, EditType
<1>5. SettingsType'
  BY <1>1, <1>3 DEF FailConfiguration, Record, IInv, TypeOK, SettingsType
<1>6. EditType'
  BY <1>1, <1>3, <1>4 DEF Record, IInv, TypeOK, EditType
<1>7. TaskType'
  BY <1>1, <1>3 DEF FailConfiguration, Record, IInv, TypeOK, TaskType
<1>8. Asked'
  <2>1. claimed' \in {claimed, None}
    BY DEF FailConfiguration
  <2> QED
    BY <1>1, <1>3, <1>4, <2>1 DEF IInv, Asked
<1>9. InHand'
  <2>1. task' = "idle"
    BY DEF FailConfiguration
  <2> QED
    BY <1>4, <2>1 DEF InHand
<1>10. Revised'
  BY <1>1, <1>3, RecordInv
<1>11. Snapshots'
  BY <1>1, <1>3, RecordInv
<1>12. Passed'
  BY <1>1, <1>3, RecordInv
<1>13. Shown'
  BY <1>1, <1>3, RecordInv
<1> QED
  BY <1>2, <1>5, <1>6, <1>7, <1>8, <1>9, <1>10, <1>11, <1>12, <1>13 DEF IInv, TypeOK

\* The edit in hand is rejected.
LEMMA RefuseInv ==
  ASSUME IInv, RefuseConfiguration \/ RecoverConfiguration
  PROVE  IInv'
<1>1. UNCHANGED <<consent, revision, size, enabled, created, configured, prepare, stopping,
                  recreation, vm, running, task, claimed, target, calls, awaits, answer, report,
                  row, expected, newSize, newEnabled, overtaken, faults>>
  BY DEF RefuseConfiguration, Record, RecoverConfiguration
<1>2. TaskType' /\ LinkType' /\ TableType' /\ Consented'
  BY <1>1 DEF IInv, TypeOK, TaskType, LinkType, TableType, Consented, OneConsent
<1>3. \/ UNCHANGED <<receipt, receiptAt>>
      \/ Record(pending, "rejected") /\ pending \in Requests /\ row[pending] # "none" /\
        receipt[pending] = "pending"
  BY DEF RefuseConfiguration, RecoverConfiguration, IInv, TypeOK, EditType, InHand, Asked
<1>4. /\ receipt \in [Requests -> Statuses]
      /\ receiptAt \in [Requests -> Nat]
      /\ revision \in Nat
      /\ pending' = None
      /\ \A q \in Requests : receipt'[q] = receipt[q] \/ (q = pending /\ receipt'[q] = "rejected")
  BY <1>3 DEF RefuseConfiguration, RecoverConfiguration, Record, IInv, TypeOK, SettingsType,
              EditType
<1>5. SettingsType'
  BY <1>1, <1>3 DEF RefuseConfiguration, Record, RecoverConfiguration, IInv, TypeOK, SettingsType
<1>6. EditType'
  <2>1. pending' = None /\ {applying', repair'} \subseteq BOOLEAN
    BY <1>1 DEF RefuseConfiguration, RecoverConfiguration, IInv, TypeOK, EditType
  <2> QED
    BY <1>3, <1>4, <2>1 DEF Record, IInv, TypeOK, EditType, SettingsType
<1>7. Asked'
  BY <1>1, <1>3, <1>4 DEF IInv, Asked
<1>8. InHand'
  <2>1. claimed # None /\ task \in {"resizing", "resized"} => claimed \in Requests
    BY DEF IInv, TypeOK, TaskType
  <2> QED
    BY <1>1, <1>4, <2>1 DEF IInv, InHand
<1>9. Revised'
  <2>1. CASE UNCHANGED <<receipt, receiptAt>>
    BY <1>1, <2>1 DEF IInv, Revised
  <2>2. CASE ~UNCHANGED <<receipt, receiptAt>>
    BY <1>1, <1>3, <2>2, RecordInv
  <2> QED
    BY <2>1, <2>2
<1>10. Snapshots'
  <2>1. CASE UNCHANGED <<receipt, receiptAt>>
    BY <1>1, <2>1 DEF IInv, Snapshots, Snapshot
  <2>2. CASE ~UNCHANGED <<receipt, receiptAt>>
    BY <1>1, <1>3, <2>2, RecordInv
  <2> QED
    BY <2>1, <2>2
<1>11. Passed'
  <2>1. CASE UNCHANGED <<receipt, receiptAt>>
    BY <1>1, <2>1 DEF IInv, Passed
  <2>2. CASE ~UNCHANGED <<receipt, receiptAt>>
    BY <1>1, <1>3, <2>2, RecordInv
  <2> QED
    BY <2>1, <2>2
<1>12. Shown'
  <2>1. CASE UNCHANGED <<receipt, receiptAt>>
    BY <1>1, <2>1 DEF IInv, Shown
  <2>2. CASE ~UNCHANGED <<receipt, receiptAt>>
    BY <1>1, <1>3, <2>2, RecordInv
  <2> QED
    BY <2>1, <2>2
<1> QED
  BY <1>2, <1>5, <1>6, <1>7, <1>8, <1>9, <1>10, <1>11, <1>12 DEF IInv, TypeOK

LEMMA InitInv == Init => IInv
<1> SUFFICES ASSUME Init PROVE IInv
  OBVIOUS
<1> USE DEF Init
<1>1. SettingsType /\ EditType
  BY DEF SettingsType, EditType
<1>2. TaskType /\ LinkType
  BY DEF TaskType, LinkType
<1>3. TableType
  BY DEF TableType
<1>4. Asked /\ InHand /\ Revised
  BY DEF Asked, InHand, Revised
<1>5. \A c \in Calls : calls[c] = None
  OBVIOUS
<1>6. Snapshots /\ Consented /\ Passed /\ Shown
  BY <1>5 DEF Snapshots, Consented, Passed, Shown
<1> QED
  BY <1>1, <1>2, <1>3, <1>4, <1>6 DEF IInv, TypeOK

LEMMA StutterInv == IInv /\ UNCHANGED vars => IInv'
<1> SUFFICES ASSUME IInv, UNCHANGED vars PROVE IInv'
  OBVIOUS
<1>1. TypeOK'
  BY DEF IInv, TypeOK, SettingsType, EditType, TaskType, LinkType, TableType
<1>2. Asked' /\ InHand' /\ Revised' /\ Passed' /\ Shown'
  BY DEF IInv, Asked, InHand, Revised, Passed, Shown
<1>3. Snapshots'
  BY DEF IInv, Snapshots, Snapshot
<1>4. Consented'
  BY DEF IInv, Consented, OneConsent
<1> QED
  BY <1>1, <1>2, <1>3, <1>4 DEF IInv

\* The invariant is inductive.
LEMMA NextInv == IInv /\ [Next]_vars => IInv'
<1> SUFFICES ASSUME IInv, Next PROVE IInv'
  BY StutterInv
<1>1. CASE Owner
  BY <1>1, OwnerInv, ReplaceInv DEF Owner
<1>2. CASE Administrator
  BY <1>2, RequestInv DEF Administrator
<1>3. CASE Network
  BY <1>3, HeartbeatInv, ExchangeInv, DropInv DEF Network
<1>4. CASE Supervise
  BY <1>4, ReceiveInv, ClaimInv, WorkInv, LocalInv, CommitInv, FailInv, RefuseInv, ReplaceInv,
     DropInv
     DEF Supervise, Apply
<1>5. CASE StopWorker \/ ResizePart \/ Timeout \/ Crash
  BY <1>5, WorkInv, DropInv
<1> QED
  BY <1>1, <1>2, <1>3, <1>4, <1>5 DEF Next

LEMMA Invariance == Spec => []IInv
  BY InitInv, NextInv, PTL DEF Spec

(***************************************************************************)
(* Settings, messages, machine and table keep their types.                 *)
(***************************************************************************)
THEOREM TypeCorrect == Spec => []TypeOK
<1>1. IInv => TypeOK
  BY DEF IInv
<1> QED
  BY <1>1, Invariance, PTL

(***************************************************************************)
(* A request whose settings the owner has replaced is never applied,       *)
(* whatever is delivered late, twice or not at all.                        *)
(***************************************************************************)
THEOREM OvertakenIsDead == Spec => []OvertakenIsNotApplied
<1>1. IInv => OvertakenIsNotApplied
  BY DEF IInv, Shown, OvertakenIsNotApplied, TypeOK, TableType
<1> QED
  BY <1>1, Invariance, PTL

(***************************************************************************)
(* The dashboard shows a request as applied or rejected only if it was,    *)
(* and no late report can make it untrue.                                  *)
(***************************************************************************)
THEOREM AnswersStayTrue == Spec => []AnswersAreTrue
<1>1. IInv => AnswersAreTrue
  BY DEF IInv, Shown, AnswersAreTrue
<1> QED
  BY <1>1, Invariance, PTL

\* What is final on either side stays.
FinalStays ==
  \A q \in Requests :
    /\ receipt[q] \in Final => receipt'[q] = receipt[q]
    /\ row[q] \in Final => row'[q] = row[q]

LEMMA FinalStep == IInv /\ [Next]_vars => FinalStays
<1> SUFFICES ASSUME IInv, Next PROVE FinalStays
  BY DEF FinalStays
<1>t. /\ receipt \in [Requests -> Statuses] /\ row \in [Requests -> Statuses]
      /\ pending # None => pending \in Requests /\ receipt[pending] = "pending"
  BY DEF IInv, TypeOK, EditType, TableType, InHand
<1>1. CASE Owner \/ ForgetWorker
  <2>1. Advance /\ row' = row
    BY <1>1 DEF Owner, SetRemoteConsent, SavePolicy, Prepare, Resume, Pause, StopNow,
                RecreateWorker, ForgetWorker
  <2> QED
    BY <1>t, <2>1 DEF Advance, FinalStays
<1>2. CASE Administrator
  BY <1>t, <1>2 DEF Administrator, RequestConfiguration, FinalStays
<1>3. CASE \E c \in Calls : Heartbeat(c) \/ Lost(c)
  BY <1>3 DEF Heartbeat, Lost, FinalStays
<1>4. ASSUME NEW c \in Calls, Exchange(c)
      PROVE  FinalStays
  <2>1. receipt' = receipt
    BY <1>4 DEF Exchange
  <2>2. \/ row' = row
        \/ row' = [q \in Requests |->
                    IF Unanswered(calls[c], q) /\ Refused(calls[c], q) THEN "rejected"
                    ELSE Acknowledged(calls[c], q)]
    BY <1>4 DEF Exchange
  <2>3. \A q \in Requests : row[q] \in Final =>
          Acknowledged(calls[c], q) = row[q] /\ ~Unanswered(calls[c], q)
    BY DEF Acknowledged, Unanswered
  <2> QED
    BY <2>1, <2>2, <2>3 DEF FinalStays
<1>5. CASE ReceiveConfiguration
  <2>1. row' = row
    BY <1>5 DEF ReceiveConfiguration
  <2>2. UNCHANGED receipt \/ (receipt[answer] = "none" /\ \E s \in Statuses : Record(answer, s))
    BY <1>5 DEF ReceiveConfiguration
  <2> QED
    BY <1>t, <2>1, <2>2 DEF Record, FinalStays
<1>6. CASE FailConfiguration
  BY <1>t, <1>6 DEF FailConfiguration, Record, FinalStays, IInv, InHand
<1>7. CASE RefuseConfiguration \/ RecoverConfiguration
  BY <1>t, <1>7 DEF RefuseConfiguration, RecoverConfiguration, Record, FinalStays
<1>8. CASE CommitConfiguration
  BY <1>t, <1>8 DEF CommitConfiguration, Authorized, FinalStays, IInv, TypeOK, TaskType, InHand
<1>9. CASE UNCHANGED <<receipt, row>>
  BY <1>9 DEF FinalStays
<1> QED
  BY <1>1, <1>2, <1>3, <1>4, <1>5, <1>6, <1>7, <1>8, <1>9
     DEF Next, Network, Supervise, Apply, ClaimConfiguration, ResizeDone, ResizePart, ResizeLocal,
         RecordLocal, PrepareWorker, CreateWorker, RecordWorker, ConfigureWorker, AlreadyPrepared,
         RemoveWorker, AllowSharing, StartWorker, StopWorker, Interrupt, FinishStop, Drop,
           Timeout,
         Crash

(***************************************************************************)
(* A finished request stays finished on both sides, however often it or    *)
(* its report is delivered.                                                *)
(***************************************************************************)
THEOREM FinishedIsFinal == Spec => FinishedStaysFinished
<1>1. IInv /\ [Next]_vars => [FinalStays]_vars
  BY FinalStep
<1>2. Spec => [][FinalStays]_vars
  BY <1>1, Invariance, PTL DEF Spec
<1>3. [FinalStays]_vars =>
        [\A q \in Requests :
           /\ receipt[q] \in Final => receipt'[q] = receipt[q]
           /\ row[q] \in Final => row'[q] = row[q]]_vars
  BY DEF FinalStays
<1> QED
  BY <1>2, <1>3, PTL DEF FinishedStaysFinished

-----------------------------------------------------------------------------
(***************************************************************************)
(* The machine.  A resize the owner asked for is assumed not to be         *)
(* interrupted: nothing is written before it.                              *)
(***************************************************************************)

\* The owner's settings take the edit in hand away.
LEMMA OwnerWorks ==
  ASSUME MachineInv, LocalFaults = 0, SetRemoteConsent \/ (\E s \in Sizes, e \in BOOLEAN :
         SavePolicy(s, e)) \/ Prepare \/ Resume \/ Pause \/ StopNow
  PROVE  Works'
<1>1. UNCHANGED <<allocated, created, configured, recreation, applying, repair, vm, running, task,
                  claimed, target, calls, awaits, answer, report, row, expected, newSize,
                  newEnabled, faults>>
  BY DEF SetRemoteConsent, Advance, SavePolicy, Prepare, Resume, Pause, StopNow
<1>2. Off' /\ OnRecord' /\ LocalHolds' /\ SharedIsVerified'
  BY <1>1 DEF MachineInv, Works, Off, OnRecord, LocalHolds, SharedIsVerified
<1>3. ClaimHolds'
  <2>1. pending' = None /\ (task \in {"resizing", "resized"} => claimed # None)
    BY DEF SetRemoteConsent, Advance, SavePolicy, Prepare, Resume, Pause, StopNow, MachineInv,
       IInv,
           InHand
  <2> QED
    BY <1>1, <2>1 DEF MachineInv, Works, ClaimHolds
<1> QED
  BY <1>2, <1>3 DEF Works

\* A worker that is to be replaced is off the record until it is gone.
LEMMA ReplaceWorks ==
  ASSUME MachineInv, LocalFaults = 0, (\E s \in Sizes : RecreateWorker(s)) \/ ForgetWorker \/
         RemoveWorker
  PROVE  Works'
<1>1. UNCHANGED <<consent, stopping, running, task, claimed, target, calls, awaits, answer,
                  report, row, expected, newSize, newEnabled, faults>>
  BY DEF RecreateWorker, Advance, ForgetWorker, RemoveWorker
<1>2. Off'
  BY <1>1 DEF RecreateWorker, Advance, ForgetWorker, RemoveWorker, MachineInv, Works, Off
<1>3. OnRecord'
  BY <1>1 DEF RecreateWorker, Advance, ForgetWorker, RemoveWorker, MachineInv, Works, OnRecord
<1>4. ClaimHolds'
  <2>1. \/ pending' = None /\ (task \in {"resizing", "resized"} => claimed # None)
        \/ task = "idle"
    BY DEF RecreateWorker, Advance, ForgetWorker, RemoveWorker, MachineInv, IInv, InHand
  <2>2. task = "resizing" => recreation' \/ UNCHANGED <<repair, recreation>>
    BY DEF RecreateWorker, ForgetWorker, RemoveWorker
  <2> QED
    BY <1>1, <2>1, <2>2 DEF MachineInv, Works, ClaimHolds
<1>5. LocalHolds'
  BY <1>1 DEF RecreateWorker, Advance, ForgetWorker, RemoveWorker, MachineInv, Works, LocalHolds
<1>6. SharedIsVerified'
  BY <1>1 DEF RecreateWorker, Advance, ForgetWorker, RemoveWorker, MachineInv, Works,
              SharedIsVerified
<1> QED
  BY <1>2, <1>3, <1>4, <1>5, <1>6 DEF Works

\* Messages leave the machine alone.
LEMMA LinkWorks ==
  ASSUME MachineInv, LocalFaults = 0, (\E q \in Requests, s \in Sizes, e \in BOOLEAN :
         RequestConfiguration(q, s, e)) \/ (\E c \in Calls : Heartbeat(c)) \/ (\E c \in Calls :
         Exchange(c)) \/ Timeout \/ (\E c \in Calls : Lost(c)) \/ ReceiveConfiguration
  PROVE  Works'
<1>1. UNCHANGED <<consent, revision, size, enabled, allocated, created, configured, prepare,
                  stopping, recreation, applying, repair, vm, running, faults>>
  BY DEF RequestConfiguration, Heartbeat, Exchange, Answer, Timeout, Lost, ReceiveConfiguration,
     Record
<1>2. SharedIsVerified'
  BY <1>1 DEF MachineInv, Works, SharedIsVerified
<1>3. Off'
  BY <1>1 DEF RequestConfiguration, Heartbeat, Exchange, Answer, Timeout, Lost,
              ReceiveConfiguration, Record, MachineInv, Works, Off
<1>4. OnRecord'
  <2>1. task' = task \/ task \in {"idle", "heartbeat", "answered"}
    BY DEF RequestConfiguration, Heartbeat, Exchange, Answer, Timeout, Lost, ReceiveConfiguration,
           MachineInv, Works, LocalHolds
  <2> QED
    BY <1>1, <2>1 DEF MachineInv, Works, OnRecord
<1>5. ClaimHolds'
  <2>1. \/ UNCHANGED <<task, pending, claimed, target>>
        \/ task' \in {"idle", "heartbeat", "answered"}
    BY DEF RequestConfiguration, Heartbeat, Exchange, Answer, Timeout, Lost, ReceiveConfiguration
  <2>2. claimed \in Requests => newSize'[claimed] = newSize[claimed] \/ row[claimed] = "none"
    BY DEF RequestConfiguration, Heartbeat, Exchange, Timeout, Lost, ReceiveConfiguration,
           MachineInv, IInv, TypeOK, TableType
  <2>3. task \in {"resizing", "resized"} => claimed \in Requests /\ row[claimed] # "none"
    BY DEF MachineInv, IInv, TypeOK, TaskType, InHand, Asked
  <2> QED
    BY <1>1, <2>1, <2>2, <2>3 DEF MachineInv, Works, ClaimHolds
<1>6. LocalHolds'
  BY <1>1 DEF RequestConfiguration, Heartbeat, Exchange, Answer, Timeout, Lost,
              ReceiveConfiguration, Record, MachineInv, Works, LocalHolds
<1> QED
  BY <1>2, <1>3, <1>4, <1>5, <1>6 DEF Works

\* Nothing is dropped while a local resize is under way.
LEMMA DropWorks ==
  ASSUME MachineInv, LocalFaults = 0, Interrupt \/ FinishStop \/ Crash
  PROVE  Works'
<1>1. UNCHANGED <<consent, revision, size, enabled, allocated, created, configured, prepare,
                  recreation, pending, applying, repair, receipt, receiptAt, vm, calls, report,
                  row, expected, newSize, newEnabled, overtaken>>
  BY DEF Interrupt, Drop, FinishStop, Crash
<1>2. Off'
  BY <1>1 DEF Interrupt, Drop, FinishStop, Crash, MachineInv, Works, Off
<1>3. OnRecord'
  BY <1>1 DEF Interrupt, Drop, FinishStop, Crash, MachineInv, Works, OnRecord, IInv, TypeOK,
              SettingsType, EditType, TaskType, TableType, Off, ClaimHolds, LocalHolds,
              SharedIsVerified
<1>4. ClaimHolds'
  BY <1>1 DEF Interrupt, Drop, FinishStop, Crash, MachineInv, Works, ClaimHolds
<1>5. LocalHolds'
  BY <1>1 DEF Interrupt, Drop, FinishStop, Crash, MachineInv, Works, LocalHolds
<1>6. SharedIsVerified'
  BY <1>1 DEF Interrupt, Drop, FinishStop, Crash, MachineInv, Works, SharedIsVerified
<1> QED
  BY <1>2, <1>3, <1>4, <1>5, <1>6 DEF Works

\* A resize is uncertain from its claim on.
LEMMA ClaimWorks ==
  ASSUME MachineInv, LocalFaults = 0, ClaimConfiguration
  PROVE  Works'
<1>1. UNCHANGED <<consent, revision, size, enabled, allocated, created, configured, prepare,
                  stopping, recreation, pending, receipt, receiptAt, vm, running, calls, awaits,
                  answer, report, row, expected, newSize, newEnabled, overtaken, faults>>
  BY DEF ClaimConfiguration, Valid, Resizes
<1>2. Off'
  BY <1>1 DEF ClaimConfiguration, Valid, Resizes, MachineInv, Works, Off
<1>3. OnRecord'
  BY <1>1 DEF ClaimConfiguration, Valid, Resizes, MachineInv, Works, OnRecord
<1>4. ClaimHolds'
  BY <1>1 DEF ClaimConfiguration, Valid, Resizes, MachineInv, Works, ClaimHolds, IInv, TypeOK,
              SettingsType, EditType, TaskType, TableType, Off, OnRecord, LocalHolds,
              SharedIsVerified
<1>5. LocalHolds'
  BY <1>1 DEF ClaimConfiguration, Valid, Resizes, MachineInv, Works, LocalHolds
<1>6. SharedIsVerified'
  BY <1>1 DEF ClaimConfiguration, Valid, Resizes, MachineInv, Works, SharedIsVerified
<1> QED
  BY <1>2, <1>3, <1>4, <1>5, <1>6 DEF Works

\* The machine gets its size, or a part of it.
LEMMA ResizeWorks ==
  ASSUME MachineInv, LocalFaults = 0, ResizeDone \/ ResizePart
  PROVE  Works'
<1>1. UNCHANGED <<consent, revision, size, enabled, allocated, created, configured, prepare,
                  stopping, recreation, pending, applying, repair, receipt, receiptAt, running,
                  claimed, target, calls, awaits, answer, report, row, expected, newSize,
                  newEnabled, overtaken, faults>>
  BY DEF ResizeDone, ResizePart
<1>2. Off'
  BY <1>1 DEF ResizeDone, ResizePart, MachineInv, Works, Off
<1>3. OnRecord'
  BY <1>1 DEF ResizeDone, ResizePart, MachineInv, Works, OnRecord, IInv, TypeOK, SettingsType,
              EditType, TaskType, TableType, Off, ClaimHolds, LocalHolds, SharedIsVerified
<1>4. ClaimHolds'
  BY <1>1 DEF ResizeDone, ResizePart, MachineInv, Works, ClaimHolds
<1>5. LocalHolds'
  BY <1>1 DEF ResizeDone, ResizePart, MachineInv, Works, LocalHolds
<1>6. SharedIsVerified'
  BY <1>1 DEF ResizeDone, ResizePart, MachineInv, Works, SharedIsVerified, Off, LocalHolds
<1> QED
  BY <1>2, <1>3, <1>4, <1>5, <1>6 DEF Works

\* The size is recorded when the machine has it.
LEMMA CommitWorks ==
  ASSUME MachineInv, LocalFaults = 0, CommitConfiguration
  PROVE  Works'
<1>1. UNCHANGED <<consent, created, configured, prepare, stopping, recreation, vm, running, calls,
                  awaits, answer, report, row, expected, newSize, newEnabled, overtaken, faults>>
  BY DEF CommitConfiguration, Authorized, ChangesPolicy
<1>2. Off'
  BY <1>1 DEF CommitConfiguration, Authorized, ChangesPolicy, MachineInv, Works, Off
<1>3. OnRecord'
  BY <1>1 DEF CommitConfiguration, Authorized, ChangesPolicy, MachineInv, Works, OnRecord, IInv,
              TypeOK, SettingsType, EditType, TaskType, TableType, Off, ClaimHolds, LocalHolds,
              SharedIsVerified
<1>4. ClaimHolds'
  BY <1>1 DEF CommitConfiguration, Authorized, ChangesPolicy, MachineInv, Works, ClaimHolds
<1>5. LocalHolds'
  BY <1>1 DEF CommitConfiguration, Authorized, ChangesPolicy, MachineInv, Works, LocalHolds
<1>6. SharedIsVerified'
  BY <1>1 DEF CommitConfiguration, Authorized, ChangesPolicy, MachineInv, Works, SharedIsVerified,
              Off, LocalHolds
<1> QED
  BY <1>2, <1>3, <1>4, <1>5, <1>6 DEF Works

\* After a failure the record says that nothing is known.
LEMMA FailWorks ==
  ASSUME MachineInv, LocalFaults = 0, FailConfiguration \/ RefuseConfiguration \/
         RecoverConfiguration
  PROVE  Works'
<1>1. UNCHANGED <<consent, revision, size, enabled, created, configured, prepare, stopping,
                  recreation, vm, running, calls, awaits, answer, report, row, expected, newSize,
                  newEnabled, overtaken, faults>>
  BY DEF FailConfiguration, Record, RefuseConfiguration, RecoverConfiguration
<1>2. Off'
  BY <1>1 DEF FailConfiguration, Record, RefuseConfiguration, RecoverConfiguration, MachineInv,
              Works, Off
<1>3. OnRecord'
  BY <1>1 DEF FailConfiguration, Record, RefuseConfiguration, RecoverConfiguration, MachineInv,
              Works, OnRecord
<1>4. ClaimHolds'
  BY <1>1 DEF FailConfiguration, Record, RefuseConfiguration, RecoverConfiguration, MachineInv,
              Works, ClaimHolds
<1>5. LocalHolds'
  BY <1>1 DEF FailConfiguration, Record, RefuseConfiguration, RecoverConfiguration, MachineInv,
              Works, LocalHolds
<1>6. SharedIsVerified'
  BY <1>1 DEF FailConfiguration, Record, RefuseConfiguration, RecoverConfiguration, MachineInv,
              Works, SharedIsVerified, Off, LocalHolds
<1> QED
  BY <1>2, <1>3, <1>4, <1>5, <1>6 DEF Works

\* The owner's resize.
LEMMA LocalWorks ==
  ASSUME MachineInv, LocalFaults = 0, ResizeLocal \/ RecordLocal
  PROVE  Works'
<1>1. UNCHANGED <<consent, revision, size, enabled, created, configured, prepare, stopping,
                  recreation, pending, applying, repair, receipt, receiptAt, vm, running, calls,
                  awaits, answer, report, row, expected, newSize, newEnabled, overtaken, faults>>
  BY DEF ResizeLocal, RecordLocal
<1>2. Off'
  BY <1>1 DEF ResizeLocal, RecordLocal, MachineInv, Works, Off
<1>3. OnRecord'
  BY <1>1 DEF ResizeLocal, RecordLocal, MachineInv, Works, OnRecord, Off, LocalHolds
<1>4. ClaimHolds'
  BY <1>1 DEF ResizeLocal, RecordLocal, MachineInv, Works, ClaimHolds
<1>5. LocalHolds'
  BY <1>1 DEF ResizeLocal, RecordLocal, MachineInv, Works, LocalHolds
<1>6. SharedIsVerified'
  BY <1>1 DEF ResizeLocal, RecordLocal, MachineInv, Works, SharedIsVerified, Off, LocalHolds
<1> QED
  BY <1>2, <1>3, <1>4, <1>5, <1>6 DEF Works

\* Preparation.
LEMMA PrepareWorks ==
  ASSUME MachineInv, LocalFaults = 0, PrepareWorker \/ CreateWorker \/ RecordWorker \/
         ConfigureWorker \/ AlreadyPrepared
  PROVE  Works'
<1>1. UNCHANGED <<consent, revision, size, enabled, stopping, recreation, pending, applying,
                  repair, receipt, receiptAt, calls, awaits, answer, report, row, expected,
                  newSize, newEnabled, overtaken, faults>>
  BY DEF PrepareWorker, CreateWorker, RecordWorker, ConfigureWorker, AlreadyPrepared
<1>2. Off'
  BY <1>1 DEF PrepareWorker, CreateWorker, RecordWorker, ConfigureWorker, AlreadyPrepared,
              MachineInv, Works, Off, LocalHolds
<1>3. OnRecord'
  BY <1>1 DEF PrepareWorker, CreateWorker, RecordWorker, ConfigureWorker, AlreadyPrepared,
              MachineInv, Works, OnRecord, Off, LocalHolds
<1>4. ClaimHolds'
  BY <1>1 DEF PrepareWorker, CreateWorker, RecordWorker, ConfigureWorker, AlreadyPrepared,
              MachineInv, Works, ClaimHolds
<1>5. LocalHolds'
  <2>1. CASE PrepareWorker
    BY <1>1, <2>1 DEF PrepareWorker, MachineInv, IInv, TypeOK, SettingsType, EditType, TaskType,
                      Works, OnRecord, LocalHolds
  <2>2. CASE CreateWorker
    BY <1>1, <2>2 DEF CreateWorker, MachineInv, IInv, TypeOK, SettingsType, EditType, TaskType,
                      Works, OnRecord, LocalHolds
  <2>3. CASE RecordWorker
    BY <1>1, <2>3 DEF RecordWorker, MachineInv, IInv, TypeOK, SettingsType, EditType, TaskType,
                      Works, OnRecord, LocalHolds
  <2>4. CASE ConfigureWorker
    BY <1>1, <2>4 DEF ConfigureWorker, MachineInv, IInv, TypeOK, SettingsType, EditType, TaskType,
                      Works, OnRecord, LocalHolds
  <2>5. CASE AlreadyPrepared
    BY <1>1, <2>5 DEF AlreadyPrepared, MachineInv, IInv, TypeOK, SettingsType, EditType, TaskType,
                      Works, OnRecord, LocalHolds
  <2> QED
    BY <2>1, <2>2, <2>3, <2>4, <2>5
<1>6. SharedIsVerified'
  BY <1>1 DEF PrepareWorker, CreateWorker, RecordWorker, ConfigureWorker, AlreadyPrepared,
              MachineInv, Works, SharedIsVerified, Off, LocalHolds
<1> QED
  BY <1>2, <1>3, <1>4, <1>5, <1>6 DEF Works

\* Sharing.
LEMMA ShareWorks ==
  ASSUME MachineInv, LocalFaults = 0, AllowSharing \/ StartWorker \/ StopWorker
  PROVE  Works'
<1>1. UNCHANGED <<consent, revision, size, enabled, allocated, created, configured, prepare,
                  stopping, recreation, pending, applying, repair, receipt, receiptAt, vm, calls,
                  awaits, answer, report, row, expected, newSize, newEnabled, overtaken, faults>>
  BY DEF AllowSharing, StartWorker, StopWorker
<1>2. Off'
  BY <1>1 DEF AllowSharing, StartWorker, StopWorker, MachineInv, Works, Off, LocalHolds
<1>3. OnRecord'
  BY <1>1 DEF AllowSharing, StartWorker, StopWorker, MachineInv, Works, OnRecord
<1>4. ClaimHolds'
  BY <1>1 DEF AllowSharing, StartWorker, StopWorker, MachineInv, Works, ClaimHolds
<1>5. LocalHolds'
  BY <1>1 DEF AllowSharing, StartWorker, StopWorker, MachineInv, Works, LocalHolds, IInv, TypeOK,
              TaskType, SettingsType, OnRecord
<1>6. SharedIsVerified'
  BY <1>1 DEF AllowSharing, StartWorker, StopWorker, MachineInv, Works, SharedIsVerified, Off,
              LocalHolds
<1> QED
  BY <1>2, <1>3, <1>4, <1>5, <1>6 DEF Works

LEMMA InitWorks == Init => Works
<1> SUFFICES ASSUME Init PROVE Works
  OBVIOUS
<1>1. Off /\ OnRecord /\ SharedIsVerified
  BY DEF Init, Off, OnRecord, SharedIsVerified
<1>2. ClaimHolds /\ LocalHolds
  BY DEF Init, ClaimHolds, LocalHolds
<1> QED
  BY <1>1, <1>2 DEF Works

LEMMA NextWorks == LocalFaults = 0 /\ MachineInv /\ [Next]_vars => MachineInv'
<1> SUFFICES ASSUME LocalFaults = 0, MachineInv, [Next]_vars PROVE Works'
  BY NextInv DEF MachineInv
<1>1. CASE UNCHANGED vars
  BY <1>1 DEF MachineInv, Works, Off, OnRecord, ClaimHolds, LocalHolds, SharedIsVerified
<1>2. CASE Owner \/ Administrator
  BY <1>2, OwnerWorks, ReplaceWorks, LinkWorks DEF Owner, Administrator
<1>3. CASE Network \/ Timeout \/ Crash \/ StopWorker \/ ResizePart
  BY <1>3, LinkWorks, DropWorks, ShareWorks, ResizeWorks DEF Network
<1>4. CASE Supervise
  BY <1>4, LinkWorks, ClaimWorks, ResizeWorks, CommitWorks, FailWorks, LocalWorks, PrepareWorks,
     ReplaceWorks, ShareWorks, DropWorks
     DEF Supervise, Apply
<1> QED
  BY <1>1, <1>2, <1>3, <1>4 DEF Next

(***************************************************************************)
(* A configured worker runs only at the size on record, whatever fails or  *)
(* crashes, as long as no resize of the owner's own is interrupted.        *)
(***************************************************************************)
THEOREM SharedWorkerIsVerified == LocalFaults = 0 => (Spec => []SharedIsVerified)
<1> SUFFICES ASSUME LocalFaults = 0 PROVE Spec => []SharedIsVerified
  OBVIOUS
<1>1. Init => MachineInv
  BY InitInv, InitWorks DEF MachineInv
<1>2. MachineInv /\ [Next]_vars => MachineInv'
  BY NextWorks
<1>3. MachineInv => SharedIsVerified
  BY DEF MachineInv, Works
<1> QED
  BY <1>1, <1>2, <1>3, PTL DEF Spec
=============================================================================
