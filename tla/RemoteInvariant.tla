--------------------------- MODULE RemoteInvariant ---------------------------
(***************************************************************************)
(* The inductive invariants of RemoteConfiguration: what the two ends may  *)
(* rely on while messages between them are late, lost and overtaken, and   *)
(* what the machine and the settings say of each other.                    *)
(***************************************************************************)
EXTENDS RemoteConfiguration

-----------------------------------------------------------------------------
(* The requests and their answers.                                         *)

\* A request that was not made is nowhere.
Asked ==
  /\ answer # None => row[answer] # "none"
  /\ \A q \in Requests : row[q] = "none" =>
       /\ receipt[q] = "none" /\ pending # q /\ claimed # q /\ q \notin overtaken
       /\ \A c \in Calls : calls[c] # None => calls[c].receipt[q] = "none"

\* The edit in hand, and the one being applied, have not been answered with "applied".
InHand ==
  /\ pending # None => receipt[pending] = "pending"
  /\ task \in {"resizing", "resized"} => claimed # None /\ receipt[claimed] \in {"pending", "rejected"}

\* A request is written for a revision there was, and answered at a later one.
Revised ==
  /\ report # None => report.revision <= revision
  /\ \A q \in Requests : row[q] # "none" =>
       /\ report # None /\ expected[q] <= report.revision
       /\ receipt[q] # "none" => receiptAt[q] >= expected[q]

\* A message says what was true when it was sent, and answers are final.
Snapshot(m) ==
  /\ m.revision <= revision
  /\ \A q \in Requests :
       /\ m.receipt[q] \in Final => receipt[q] = m.receipt[q]
       /\ row[q] # "none" /\ m.receipt[q] # "none" => m.receiptAt[q] >= expected[q]

Snapshots == \A c \in Calls : calls[c] # None => Snapshot(calls[c])

\* Each revision has one consent, which a request is made with.
OneConsent(r, consented) ==
  /\ r = revision => consented = consent
  /\ report # None /\ r = report.revision => consented = report.consent

Consented ==
  /\ report # None => OneConsent(report.revision, report.consent)
  /\ \A c \in Calls : calls[c] # None => OneConsent(calls[c].revision, calls[c].consent)
  /\ \A c, e \in Calls : calls[c] # None /\ calls[e] # None /\ calls[c].revision = calls[e].revision
                           => calls[c].consent = calls[e].consent
  /\ \A q \in Requests : row[q] # "none" =>
       /\ expected[q] = revision => consent
       /\ report # None /\ expected[q] = report.revision => report.consent
       /\ \A c \in Calls : calls[c] # None /\ calls[c].revision = expected[q] => calls[c].consent

\* Whoever was sent past a request's revision without an answer will not see it applied.
Passed ==
  \A c \in Calls, q \in Requests :
    /\ calls[c] # None /\ row[q] # "none"
    /\ calls[c].revision > expected[q] /\ calls[c].receipt[q] # "applied"
    => receipt[q] # "applied"

\* What the controller shows is what the device did or can still only do.
Shown ==
  \A q \in Requests :
    /\ row[q] = "applied" => receipt[q] = "applied"
    /\ row[q] = "rejected" =>
         \/ receipt[q] = "rejected"
         \/ receipt[q] # "applied" /\ revision > expected[q]
    /\ q \in overtaken => receipt[q] # "applied" /\ revision > expected[q]

(***************************************************************************)
(* Every reachable state satisfies this, and every step keeps it (core/    *)
(* configuration.rs, controller/configuration.rs, agent/remote.rs).        *)
(***************************************************************************)
IInv ==
  TypeOK /\ Asked /\ InHand /\ Revised /\ Snapshots /\ Consented /\ Passed /\ Shown

-----------------------------------------------------------------------------
(* The machine and what the settings say it was given.                     *)

\* A remote edit is applied to a machine that is off.
Off == applying \/ task \in {"resizing", "resized", "resizingLocal", "resizedLocal"} => ~running

\* Unless a resize is under way or failed, or all is to be replaced, the size is on record.
OnRecord == ~repair /\ ~recreation /\ allocated # None /\ task \notin Local => vm = allocated

\* The edit that was claimed, as long as its owner leaves it.
ClaimHolds ==
  /\ task = "resizing" => repair \/ recreation
  /\ task \in {"resizing", "resized"} /\ pending = claimed =>
       /\ ~recreation /\ target = newSize[claimed] /\ (repair => created)
       /\ task = "resized" /\ created => vm = target

\* Preparation, the owner's resize and a start: nothing is uncertain meanwhile.
LocalHolds ==
  /\ awaits # None => task = "heartbeat"
  /\ task \in Local \cup {"configuring", "starting"} => ~repair /\ ~applying
  /\ task \in {"resizedLocal", "installed"} => vm = target
  /\ task \in {"configuring", "starting"} => vm = allocated
  /\ task \in {"creating", "installed", "configuring"} => ~configured
  /\ configured \/ task = "configuring" => created

\* As above, of what runs (the resize in vm.rs, apply_configuration in remote.rs).
Works == Off /\ OnRecord /\ ClaimHolds /\ LocalHolds /\ SharedIsVerified

MachineInv == IInv /\ Works
=============================================================================
