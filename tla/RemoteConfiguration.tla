------------------------ MODULE RemoteConfiguration ------------------------
(***************************************************************************)
(* Remote configuration of one device: the administrator's requests in the *)
(* controller's database, the heartbeats that carry reports to it and one  *)
(* command back, the settings file the owner and the agent share, and the  *)
(* virtual machine the agent resizes.                                      *)
(*                                                                         *)
(* The settings are replaced atomically under a file lock, so every update *)
(* is one step and survives a crash.  The agent's supervisor is one task:  *)
(* `task` is the await it is in, and is lost by a crash.  The owner edits  *)
(* the settings from another process or thread between any two steps.      *)
(* Requests here edit sharing rules; storage operations have their own     *)
(* journal and are not part of this module.                                *)
(***************************************************************************)
EXTENDS Naturals, FiniteSets

CONSTANTS
  Requests,     \* identities of configuration requests
  Sizes,        \* policy.resources: what a worker may be given
  Calls,        \* bound: heartbeats under way or abandoned at one time
  OwnerActs,    \* bound: what the owner does
  MaxRevision,  \* bound: the owner changes settings below this revision
  LocalFaults,  \* bound: interruptions of a resize the owner asked for
  None,         \* absent: no request, no size, no report
  Mixed         \* the size of a machine whose resize was cut short

ASSUME RemoteAssumption ==
  /\ None \notin Requests \cup Sizes \cup Calls \cup [consent : BOOLEAN, revision : Nat]
  /\ Mixed \notin Sizes /\ Mixed # None
  /\ Sizes # {}
  /\ MaxRevision \in Nat
  /\ LocalFaults \in Nat

VARIABLES
  consent, revision, size, enabled,   \* settings: remote consent and revision; policy
  allocated, created, configured,     \* settings: what the worker was given
  prepare, stopping, recreation,      \* settings: local operations requested
  pending, applying, repair,          \* settings: the remote edit in hand
  receipt, receiptAt,                 \* settings: status and revision per request
  vm, running,          \* the machine: its actual size, None when not installed
  task,                 \* supervisor: the await it is in
  claimed, target,      \* its locals: the request it applies, the size it works towards
  calls, awaits, answer,\* heartbeats under way; the one awaited; its command
  report,               \* table node_configuration: last consent and revision
  row, expected, newSize, newEnabled, \* table configuration_requests
  overtaken,            \* requests whose settings the owner replaced (ghost)
  faults                \* local resizes interrupted so far

policy   == <<size, enabled>>
worker   == <<allocated, created, configured>>
asked    == <<prepare, stopping, recreation>>
edit     == <<pending, applying, repair>>
receipts == <<receipt, receiptAt>>
settings == <<consent, revision, policy, worker, asked, edit, receipts>>
machine  == <<vm, running>>
work     == <<task, claimed, target>>
link     == <<calls, awaits, answer>>
table    == <<report, row, expected, newSize, newEnabled>>
ghosts   == <<overtaken, faults>>
vars     == <<settings, machine, work, link, table, ghosts>>

Statuses == {"none", "requested", "pending", "applied", "rejected"}
Open     == {"requested", "pending"}
Final    == {"applied", "rejected"}
Tasks    == {"idle", "heartbeat", "answered", "resizing", "resized", "resizingLocal",
             "resizedLocal", "creating", "installed", "configuring", "starting"}
Local    == {"resizingLocal", "resizedLocal", "creating", "installed"}

Reports  == [consent : BOOLEAN, revision : Nat]
Messages == [consent : BOOLEAN, revision : Nat,
             receipt : [Requests -> Statuses], receiptAt : [Requests -> Nat]]

(***************************************************************************)
(* A device just enrolled, without a worker or with a prepared one.        *)
(***************************************************************************)
Init ==
  /\ consent = FALSE /\ revision = 0
  /\ size \in Sizes /\ enabled = FALSE
  /\ created \in BOOLEAN /\ configured = created
  /\ allocated = IF created THEN size ELSE None
  /\ vm = allocated /\ running = FALSE
  /\ prepare = FALSE /\ stopping = FALSE /\ recreation = FALSE
  /\ pending = None /\ applying = FALSE /\ repair = FALSE
  /\ receipt = [q \in Requests |-> "none"] /\ receiptAt = [q \in Requests |-> 0]
  /\ task = "idle" /\ claimed = None /\ target = None
  /\ calls = [c \in Calls |-> None] /\ awaits = None /\ answer = None
  /\ report = None /\ row = [q \in Requests |-> "none"]
  /\ expected = [q \in Requests |-> 0]
  /\ newSize = [q \in Requests |-> size] /\ newEnabled = [q \in Requests |-> FALSE]
  /\ overtaken = {} /\ faults = 0

(***************************************************************************)
(* Store::update notices a change of a tracked setting: the revision moves *)
(* on and an edit in hand is cancelled.                                    *)
(***************************************************************************)
Advance ==
  /\ revision' = revision + 1
  /\ pending' = None
  /\ receipt' = IF pending = None THEN receipt
                ELSE [receipt EXCEPT ![pending] = "rejected"]
  /\ receiptAt' = IF pending = None THEN receiptAt
                  ELSE [receiptAt EXCEPT ![pending] = revision + 1]
  /\ overtaken' = overtaken \cup {q \in Requests : row[q] # "none" /\ receipt[q] # "applied"}

OwnerMay(act) == act \in OwnerActs /\ revision < MaxRevision
OwnerLeaves == UNCHANGED <<worker, machine, work, link, table, faults>>

-----------------------------------------------------------------------------
(* The owner, through the desktop application or the command line.         *)

\* mutant: consent is not one of the tracked settings
SetRemoteConsentUntracked ==
  /\ OwnerMay("consent") /\ OwnerLeaves
  /\ consent' = ~consent
  /\ overtaken' = overtaken \cup {q \in Requests : row[q] # "none" /\ receipt[q] # "applied"}
  /\ UNCHANGED <<revision, policy, asked, edit, receipts>>

SetRemoteConsent ==
  /\ OwnerMay("consent") /\ Advance /\ OwnerLeaves
  /\ consent' = ~consent
  /\ UNCHANGED <<policy, asked, applying, repair>>

SavePolicy(s, e) ==
  /\ OwnerMay("policy") /\ ~recreation /\ <<s, e>> # policy
  /\ Advance /\ OwnerLeaves
  /\ size' = s /\ enabled' = e
  /\ UNCHANGED <<consent, asked, applying, repair>>

Prepare ==
  /\ OwnerMay("prepare") /\ ~recreation
  /\ Advance /\ OwnerLeaves
  /\ prepare' = TRUE /\ stopping' = FALSE
  /\ UNCHANGED <<consent, policy, recreation, applying, repair>>

Resume ==
  /\ OwnerMay("resume") /\ ~recreation /\ configured
  /\ Advance /\ OwnerLeaves
  /\ enabled' = TRUE /\ stopping' = FALSE
  /\ UNCHANGED <<consent, size, prepare, recreation, applying, repair>>

Pause ==
  /\ OwnerMay("pause")
  /\ Advance /\ OwnerLeaves
  /\ enabled' = FALSE /\ prepare' = FALSE
  /\ UNCHANGED <<consent, size, stopping, recreation, applying, repair>>

StopNow ==
  /\ OwnerMay("stop")
  /\ Advance /\ OwnerLeaves
  /\ enabled' = FALSE /\ prepare' = FALSE /\ stopping' = TRUE
  /\ UNCHANGED <<consent, size, recreation, applying, repair>>

RecreateWorker(s) ==
  /\ OwnerMay("recreate") /\ ~recreation /\ vm # None
  /\ Advance /\ OwnerLeaves
  /\ size' = s /\ enabled' = FALSE
  /\ prepare' = FALSE /\ recreation' = TRUE
  /\ repair' = FALSE /\ applying' = FALSE
  /\ UNCHANGED <<consent, stopping>>

Owner ==
  \/ SetRemoteConsent
  \/ \E s \in Sizes, e \in BOOLEAN : SavePolicy(s, e)
  \/ Prepare \/ Resume \/ Pause \/ StopNow
  \/ \E s \in Sizes : RecreateWorker(s)

-----------------------------------------------------------------------------
(* The administrator and the controller.                                   *)

(***************************************************************************)
(* configuration::request: the last report allows it and no request is     *)
(* open.  Repeating a request answers what is recorded and changes nothing.*)
(***************************************************************************)
RequestConfiguration(q, s, e) ==
  /\ row[q] = "none" /\ \A p \in Requests : row[p] \notin Open
  /\ report # None /\ report.consent
  /\ row' = [row EXCEPT ![q] = "requested"]
  /\ expected' = [expected EXCEPT ![q] = report.revision]
  /\ newSize' = [newSize EXCEPT ![q] = s]
  /\ newEnabled' = [newEnabled EXCEPT ![q] = e]
  /\ overtaken' = overtaken \cup (IF report.revision = revision THEN {} ELSE {q})
  /\ UNCHANGED <<settings, machine, work, link, report, faults>>

\* mutant: reports are stored in whatever order they arrive
OlderNever(m) == m.revision < 0

Older(m) == report # None /\ report.revision > m.revision

\* mutant: a late receipt reopens a finished request
AcknowledgedAgain(m, q) ==
  IF row[q] # "none" /\ m.receipt[q] # "none" /\ m.receiptAt[q] >= expected[q]
  THEN m.receipt[q] ELSE row[q]

(***************************************************************************)
(* configuration::exchange, one transaction: the receipts close requests,  *)
(* then a request still open is confirmed, refused or sent.                *)
(***************************************************************************)
Acknowledged(m, q) ==
  IF row[q] \in Open /\ m.receipt[q] # "none" /\ m.receiptAt[q] >= expected[q]
  THEN m.receipt[q] ELSE row[q]

Confirmed(m, q) ==
  /\ m.consent /\ Acknowledged(m, q) = "pending"
  /\ m.receipt[q] = "pending" /\ m.receiptAt[q] = m.revision

Refused(m, q) == ~m.consent \/ m.revision # expected[q]

Unanswered(m, q) == Acknowledged(m, q) \in Open /\ ~Confirmed(m, q)

Commands(m) == {q \in Requests : Unanswered(m, q) /\ ~Refused(m, q)}

Answer(c, command) ==
  /\ calls' = [calls EXCEPT ![c] = None]
  /\ IF awaits = c
     THEN task' = "answered" /\ answer' = command /\ awaits' = None
     ELSE UNCHANGED <<task, answer, awaits>>

Exchange(c) ==
  /\ calls[c] # None
  /\ IF Older(calls[c])
     THEN /\ Answer(c, None)
          /\ UNCHANGED <<report, row>>
     ELSE /\ report' = [consent |-> calls[c].consent, revision |-> calls[c].revision]
          /\ row' = [q \in Requests |->
                       IF Unanswered(calls[c], q) /\ Refused(calls[c], q)
                       THEN "rejected" ELSE Acknowledged(calls[c], q)]
          /\ \E command \in Commands(calls[c]) \cup {None} :
               /\ command = None => Commands(calls[c]) = {}
               /\ Answer(c, command)
  /\ UNCHANGED <<settings, machine, claimed, target, expected, newSize, newEnabled, ghosts>>

-----------------------------------------------------------------------------
(* The supervisor task.                                                    *)

Ticks == task = "idle" /\ ~stopping /\ ~applying
Shares == Ticks /\ ~recreation /\ ~repair /\ ~prepare
Goto(t) == task' = t /\ UNCHANGED <<claimed, target>>
Return  == task' = "idle" /\ claimed' = None /\ target' = None

(***************************************************************************)
(* A tick reports the settings it has just loaded.  It does not reach its  *)
(* heartbeat while it prepares or replaces the worker.                     *)
(***************************************************************************)
Heartbeat(c) ==
  /\ Ticks /\ ~recreation /\ (prepare => repair) /\ calls[c] = None
  /\ calls' = [calls EXCEPT ![c] =
       [consent |-> consent, revision |-> revision, receipt |-> receipt, receiptAt |-> receiptAt]]
  /\ awaits' = c /\ answer' = None
  /\ Goto("heartbeat")
  /\ UNCHANGED <<settings, machine, table, ghosts>>

\* The agent gives up; the controller may still process the call.
Timeout ==
  /\ task = "heartbeat"
  /\ awaits' = None /\ Return
  /\ UNCHANGED <<settings, machine, calls, answer, table, ghosts>>

Lost(c) ==
  /\ calls[c] # None /\ awaits # c
  /\ calls' = [calls EXCEPT ![c] = None]
  /\ UNCHANGED <<settings, machine, work, awaits, answer, table, ghosts>>

Record(q, status) ==
  /\ receipt' = [receipt EXCEPT ![q] = status]
  /\ receiptAt' = [receiptAt EXCEPT ![q] = revision]

(***************************************************************************)
(* validate_edit and validate_remote_runtime.                              *)
(***************************************************************************)
Valid(q) ==
  /\ consent /\ expected[q] = revision
  /\ ~repair /\ ~recreation /\ ~prepare /\ ~stopping
  /\ newEnabled[q] => configured

(***************************************************************************)
(* receive_configuration, then reject_configuration when it fails.  The    *)
(* capacity it checks against may have shrunk: a valid edit may be refused.*)
(***************************************************************************)
ReceiveConfiguration ==
  /\ task = "answered" /\ Return /\ answer' = None
  /\ \/ /\ answer = None \/ pending = answer
        /\ UNCHANGED <<pending, receipts>>
     \/ /\ answer # None /\ receipt[answer] # "none"
        /\ UNCHANGED <<pending, receipts>>
     \/ /\ answer # None /\ pending = None /\ receipt[answer] = "none"
        /\ Valid(answer)
        /\ pending' = answer /\ Record(answer, "pending")
     \/ /\ answer # None /\ pending # answer /\ receipt[answer] = "none"
        /\ Record(answer, "rejected")
        /\ UNCHANGED pending
  /\ UNCHANGED <<consent, revision, policy, worker, asked, applying, repair, machine,
                 calls, awaits, table, ghosts>>

(***************************************************************************)
(* apply_configuration, once the worker has stopped.  It writes that the   *)
(* allocation is uncertain before it touches the machine.                  *)
(***************************************************************************)
Resizes(q) == created /\ allocated # newSize[q]

\* mutant: uncertainty is not written before the resize
ClaimConfigurationCertain ==
  /\ Shares /\ pending # None /\ ~running /\ Valid(pending)
  /\ applying' = TRUE /\ UNCHANGED repair
  /\ task' = IF Resizes(pending) THEN "resizing" ELSE "resized"
  /\ claimed' = pending /\ target' = newSize[pending]
  /\ UNCHANGED <<consent, revision, policy, worker, asked, pending, receipts, machine,
                 link, table, ghosts>>

ClaimConfiguration ==
  /\ Shares /\ pending # None /\ ~running /\ Valid(pending)
  /\ applying' = TRUE /\ repair' = Resizes(pending)
  /\ task' = IF Resizes(pending) THEN "resizing" ELSE "resized"
  /\ claimed' = pending /\ target' = newSize[pending]
  /\ UNCHANGED <<consent, revision, policy, worker, asked, pending, receipts, machine,
                 link, table, ghosts>>

ResizeDone ==
  /\ task \in {"resizing", "resizingLocal"} /\ vm' = target
  /\ task' = IF task = "resizing" THEN "resized" ELSE "resizedLocal"
  /\ UNCHANGED <<settings, running, claimed, target, link, table, ghosts>>

\* `multipass set` changes one value at a time.
ResizePart ==
  /\ task \in {"resizing", "resizingLocal", "creating"} /\ vm # None /\ vm' = Mixed
  /\ UNCHANGED <<settings, running, work, link, table, ghosts>>

\* Commit finds the request it claimed still in hand at its revision.
Authorized(q) == consent /\ pending = q /\ revision = expected[q]

ChangesPolicy(q) == <<newSize[q], newEnabled[q]>> # policy

CommitConfiguration ==
  /\ task = "resized" /\ Authorized(claimed)
  /\ revision' = IF ChangesPolicy(claimed) THEN revision + 1 ELSE revision
  /\ size' = newSize[claimed] /\ enabled' = newEnabled[claimed]
  /\ allocated' = IF created THEN newSize[claimed] ELSE allocated
  /\ pending' = None /\ applying' = FALSE /\ repair' = FALSE
  /\ receipt' = [receipt EXCEPT ![claimed] = "applied"]
  /\ receiptAt' = [receiptAt EXCEPT ![claimed] = revision']
  /\ Return
  /\ UNCHANGED <<consent, created, configured, asked, machine, link, table, ghosts>>

\* mutant: a failed resize records what the machine says
FailConfigurationTrusting ==
  /\ task \in {"resizing", "resized"}
  /\ allocated' = vm
  /\ applying' = FALSE /\ pending' = None
  /\ Record(claimed, "rejected")
  /\ Return
  /\ UNCHANGED <<consent, revision, policy, created, configured, asked, repair, machine,
                 link, table, ghosts>>

(***************************************************************************)
(* Any error of apply_configuration after its claim: the resize failed, or *)
(* the owner took the request away.                                        *)
(***************************************************************************)
FailConfiguration ==
  /\ task \in {"resizing", "resized"}
  /\ allocated' = IF repair THEN None ELSE allocated
  /\ applying' = FALSE /\ pending' = None
  /\ Record(claimed, "rejected")
  /\ Return
  /\ UNCHANGED <<consent, revision, policy, created, configured, asked, repair, machine,
                 link, table, ghosts>>

\* The claim itself is refused: the capacity is gone.
RefuseConfiguration ==
  /\ Shares /\ pending # None /\ ~running
  /\ pending' = None /\ Record(pending, "rejected")
  /\ UNCHANGED <<consent, revision, policy, worker, asked, applying, repair, machine,
                 work, link, table, ghosts>>

\* mutant: recovery keeps the request in hand
RecoverConfigurationKeeps ==
  /\ task = "idle" /\ ~stopping /\ applying
  /\ applying' = FALSE /\ repair' = TRUE /\ allocated' = None
  /\ UNCHANGED <<pending, receipts, consent, revision, policy, created, configured, asked,
                 machine, work, link, table, ghosts>>

(***************************************************************************)
(* The first thing a tick does after a crash or a dropped future.          *)
(***************************************************************************)
RecoverConfiguration ==
  /\ task = "idle" /\ ~stopping /\ applying
  /\ applying' = FALSE /\ repair' = TRUE /\ allocated' = None /\ pending' = None
  /\ IF pending = None THEN UNCHANGED receipts ELSE Record(pending, "rejected")
  /\ UNCHANGED <<consent, revision, policy, created, configured, asked, machine, work,
                 link, table, ghosts>>

(***************************************************************************)
(* The owner's own resize: the same call, with nothing written before it.  *)
(***************************************************************************)
ResizeLocal ==
  /\ Shares /\ pending = None /\ configured /\ allocated # size /\ ~running
  /\ task' = "resizingLocal" /\ target' = size /\ UNCHANGED claimed
  /\ UNCHANGED <<settings, machine, link, table, ghosts>>

\* It records what it applied, even if the owner has edited the policy since.
RecordLocal ==
  /\ task = "resizedLocal" /\ allocated' = target
  /\ Return
  /\ UNCHANGED <<consent, revision, policy, created, configured, asked, edit, receipts,
                 machine, link, table, ghosts>>

(***************************************************************************)
(* Preparation: create the machine, or resize one an earlier attempt left; *)
(* record it; fetch credentials and configure the guest.                   *)
(***************************************************************************)
PrepareWorker ==
  /\ Ticks /\ prepare /\ ~configured /\ ~recreation /\ ~repair
  /\ target' = size /\ UNCHANGED claimed
  /\ task' = IF vm # None /\ allocated = size THEN "installed" ELSE "creating"
  /\ running' = FALSE
  /\ UNCHANGED <<settings, vm, link, table, ghosts>>

\* A new machine is launched; an existing one was stopped and is resized.
CreateWorker ==
  /\ task = "creating" /\ vm' = target /\ running' = (vm = None)
  /\ Goto("installed")
  /\ UNCHANGED <<settings, link, table, ghosts>>

RecordWorker ==
  /\ task = "installed"
  /\ created' = TRUE /\ allocated' = target
  /\ running' = prepare
  /\ IF prepare THEN Goto("configuring") ELSE Return
  /\ UNCHANGED <<consent, revision, policy, configured, asked, edit, receipts, vm, link,
                 table, ghosts>>

ConfigureWorker ==
  /\ task = "configuring"
  /\ configured' = TRUE /\ prepare' = FALSE
  /\ Return
  /\ UNCHANGED <<consent, revision, policy, allocated, created, stopping, recreation, edit,
                 receipts, machine, link, table, ghosts>>

\* An already prepared worker uses the normal policy and drain flow.
AlreadyPrepared ==
  /\ Ticks /\ prepare /\ configured /\ ~recreation /\ ~repair
  /\ prepare' = FALSE
  /\ UNCHANGED <<consent, revision, policy, worker, stopping, recreation, edit, receipts,
                 machine, work, link, table, ghosts>>

(***************************************************************************)
(* Replacement: drain and stop, remove the old access and disk, forget the *)
(* worker.  Removal finds nothing to do when it is repeated.               *)
(***************************************************************************)
RemoveWorker ==
  /\ Ticks /\ recreation /\ ~running /\ vm # None /\ vm' = None
  /\ UNCHANGED <<settings, running, work, link, table, ghosts>>

ForgetWorker ==
  /\ Ticks /\ recreation /\ vm = None
  /\ Advance
  /\ recreation' = FALSE /\ prepare' = FALSE /\ enabled' = FALSE
  /\ created' = FALSE /\ configured' = FALSE /\ allocated' = None
  /\ UNCHANGED <<consent, size, stopping, applying, repair, machine, work, link, table,
                 faults>>

(***************************************************************************)
(* Sharing: the machine starts when the policy allows it and nothing is    *)
(* left to apply, and is drained and stopped otherwise.  What the host     *)
(* observes may stop it at any time.                                       *)
(***************************************************************************)
AllowSharing ==
  /\ Shares /\ configured /\ ~running
  /\ enabled /\ pending = None /\ allocated = size
  /\ Goto("starting")
  /\ UNCHANGED <<settings, machine, link, table, ghosts>>

StartWorker ==
  /\ task = "starting" /\ running' = TRUE
  /\ Return
  /\ UNCHANGED <<settings, vm, link, table, ghosts>>

StopWorker ==
  /\ Ticks /\ running /\ running' = FALSE
  /\ UNCHANGED <<settings, vm, work, link, table, ghosts>>

(***************************************************************************)
(* The owner's interruption drops the tick and stops the machine at once;  *)
(* the request to stop is kept until the machine has stopped.              *)
(***************************************************************************)
Spoils == task \in Local /\ allocated # None
Drop ==
  /\ Spoils => faults < LocalFaults
  /\ faults' = IF Spoils THEN faults + 1 ELSE faults
  /\ Return /\ awaits' = None /\ answer' = None
  /\ UNCHANGED <<calls, machine, table, overtaken>>

Interrupt ==
  /\ \/ task # "idle" /\ stopping
     \/ task = "starting" /\ ~enabled
     \/ task \in {"creating", "installed", "configuring"} /\ ~prepare
  /\ Drop /\ stopping' = TRUE
  /\ UNCHANGED <<consent, revision, policy, worker, prepare, recreation, edit, receipts>>

FinishStop ==
  /\ task = "idle" /\ stopping
  /\ running' = FALSE /\ stopping' = FALSE
  /\ UNCHANGED <<consent, revision, policy, worker, prepare, recreation, edit, receipts,
                 vm, work, link, table, ghosts>>

\* The agent dies and starts again.  A local resize that fails ends the same way.
Crash == task # "idle" /\ Drop /\ UNCHANGED settings

-----------------------------------------------------------------------------

Apply ==
  \/ ClaimConfiguration \/ ResizeDone \/ CommitConfiguration \/ FailConfiguration
  \/ RefuseConfiguration \/ RecoverConfiguration

Supervise ==
  \/ Apply \/ ReceiveConfiguration
  \/ ResizeLocal \/ RecordLocal
  \/ PrepareWorker \/ CreateWorker \/ RecordWorker \/ ConfigureWorker \/ AlreadyPrepared
  \/ RemoveWorker \/ ForgetWorker
  \/ AllowSharing \/ StartWorker
  \/ Interrupt \/ FinishStop

Network == \E c \in Calls : Heartbeat(c) \/ Exchange(c) \/ Lost(c)

Administrator ==
  \E q \in Requests, s \in Sizes, e \in BOOLEAN : RequestConfiguration(q, s, e)

Next ==
  \/ Owner \/ Administrator \/ Network \/ Supervise
  \/ StopWorker \/ ResizePart \/ Timeout \/ Crash

Spec == Init /\ [][Next]_vars

(***************************************************************************)
(* The supervisor keeps ticking and reaches its heartbeat and the remote   *)
(* edit whatever else it does; a worker that must stop is stopped by the   *)
(* end of its drain.  From some time on the network carries calls, and     *)
(* neither crashes nor the owner's Stop now cut the work short.            *)
(***************************************************************************)
CutShort == (Timeout \/ Crash \/ \E c \in Calls : Lost(c)) /\ ~Supervise

Fairness ==
  /\ WF_vars(Supervise) /\ SF_vars(Apply)
  /\ SF_vars(\E c \in Calls : Heartbeat(c))
  /\ \A c \in Calls : WF_vars(Exchange(c))
  /\ SF_vars((pending # None \/ recreation) /\ StopWorker)
  /\ <>[][~CutShort]_vars

FairSpec == Spec /\ Fairness

-----------------------------------------------------------------------------

SettingsType ==
  /\ consent \in BOOLEAN /\ revision \in Nat
  /\ size \in Sizes /\ enabled \in BOOLEAN
  /\ allocated \in Sizes \cup {None} /\ created \in BOOLEAN /\ configured \in BOOLEAN
  /\ prepare \in BOOLEAN /\ stopping \in BOOLEAN /\ recreation \in BOOLEAN

EditType ==
  /\ pending \in Requests \cup {None} /\ applying \in BOOLEAN /\ repair \in BOOLEAN
  /\ receipt \in [Requests -> Statuses] /\ receiptAt \in [Requests -> Nat]

TaskType ==
  /\ vm \in Sizes \cup {None, Mixed} /\ running \in BOOLEAN
  /\ task \in Tasks /\ claimed \in Requests \cup {None} /\ target \in Sizes \cup {None}

LinkType ==
  /\ calls \in [Calls -> Messages \cup {None}]
  /\ awaits \in Calls \cup {None} /\ answer \in Requests \cup {None}

TableType ==
  /\ report \in Reports \cup {None}
  /\ row \in [Requests -> Statuses] /\ expected \in [Requests -> Nat]
  /\ newSize \in [Requests -> Sizes] /\ newEnabled \in [Requests -> BOOLEAN]
  /\ overtaken \subseteq Requests /\ faults \in Nat

TypeOK == SettingsType /\ EditType /\ TaskType /\ LinkType /\ TableType

(***************************************************************************)
(* A request written against settings the owner has since replaced,        *)
(* consent given and taken back included, is never applied: late delivery, *)
(* a crash or a resize under way cannot revive it.                         *)
(***************************************************************************)
OvertakenIsNotApplied ==
  \A q \in overtaken : receipt[q] # "applied" /\ row[q] # "applied"

(***************************************************************************)
(* What the dashboard says became of a request is what the device did: a   *)
(* request shown as rejected is not applied there, now or later, though    *)
(* the controller rejects some on its own, and one shown as applied is.    *)
(***************************************************************************)
AnswersAreTrue ==
  \A q \in Requests : row[q] \in Final => (row[q] = "applied" <=> receipt[q] = "applied")

(***************************************************************************)
(* A finished request stays finished: neither side reopens it or changes   *)
(* its outcome, however often the command or the report is delivered.      *)
(***************************************************************************)
FinishedStaysFinished ==
  [][\A q \in Requests :
       /\ receipt[q] \in Final => receipt'[q] = receipt[q]
       /\ row[q] \in Final => row'[q] = row[q]]_vars

(***************************************************************************)
(* A configured worker runs only at the size the settings say it was       *)
(* given: a resize that failed or was interrupted prevents sharing.        *)
(***************************************************************************)
SharedIsVerified == running /\ configured => vm = allocated /\ ~repair

(***************************************************************************)
(* Every request is answered: applied or rejected.                         *)
(***************************************************************************)
RequestsAreAnswered ==
  \A q \in Requests : row[q] \in Open ~> row[q] \in Final

=============================================================================
