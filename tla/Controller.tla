----------------------------- MODULE Controller -----------------------------
(***************************************************************************)
(* The NodeHarbor controller: the SQLite tables it keeps for each enrolled *)
(* device, the HTTP handlers and maintenance jobs that change them, and    *)
(* the NetBird and Kubernetes objects those handlers create and delete.    *)
(*                                                                         *)
(* Every handler that calls the cluster holds the `operations` mutex, so   *)
(* at most one is between two awaits; `job` is that handler with its local *)
(* variables and `at` the next call it makes.  A call to NetBird or Kubernetes,  *)
(* and a database transaction, is one step.  `Abort` ends a handler before *)
(* any step: the API refused the call, the answer to the previous call was *)
(* lost, the process died, or the HTTP client went away and its future was *)
(* dropped.  What the handler leaves behind is in the tables.              *)
(*                                                                         *)
(* The guest acts on its own: it joins the network with a setup key it was *)
(* sent and registers a node through that network.                         *)
(***************************************************************************)
EXTENDS Naturals, FiniteSets

CONSTANTS
  Devices,        \* enrolled devices
  Requests,       \* identities of worker reset requests
  Reports,        \* bound: worker states a heartbeat reports
  Allowances,     \* bound: workload kinds an owner's policy allows
  MaxGeneration,  \* bound: storage generations reported by heartbeats
  Window,         \* 30-second slots that must be healthy for CI admission
  MaxGrants       \* bound: bootstraps per device

Kinds  == {"ci", "services"}
States == {"paused", "sharing", "draining"}

ASSUME ControllerAssumption ==
  /\ Devices # {}
  /\ Reports \subseteq States
  /\ Allowances \subseteq SUBSET Kinds
  /\ MaxGeneration \in Nat
  /\ Window \in Nat \ {0}
  /\ MaxGrants \in Nat

VARIABLES
  revoked, remotePaused, state, fresh, eligible,  \* table devices
  permitted, allow,                               \* table device_policy
  generation, drainPending,                       \* table device_storage
  samples,        \* table health_samples, by age in slots; each row also
                  \* says which storage generation it measured (ghost)
  pending, complete,                              \* table worker_resets
  revocations,                                    \* table pending_revocations
  keyRows, tokenRows,         \* tables setup_grants and bootstrap_grants
  setupKeys, peers,           \* NetBird: usable setup keys, joined devices
  tokens,                     \* Kubernetes: bootstrap-token secrets
  registered, cordoned, labels,  \* Kubernetes: node, cordon, protected labels
  labelled,       \* generation the labels were granted for (ghost)
  minted,         \* bootstraps started for the device
  issued,         \* grants sent to the guest (ghost)
  certified,      \* guests that hold kubelet certificates
  job, at         \* the handler that holds State.operations; its next step

deviceTable == <<revoked, remotePaused, state, fresh, eligible>>
policyTable == <<permitted, allow>>
healthTable == <<generation, drainPending, samples>>
resetTable  == <<pending, complete>>
grantTables == <<keyRows, tokenRows>>
network     == <<setupKeys, peers>>
node        == <<registered, cordoned, labels, labelled>>
guest       == <<minted, issued, certified>>

tables == <<deviceTable, policyTable, healthTable, resetTable, revocations>>
world  == <<grantTables, network, tokens, node, guest>>
lock   == <<job, at>>
vars   == <<tables, world, lock>>

Generations == 0..MaxGeneration
Grants      == 1..MaxGrants
Ages        == 0..(Window - 1)
Sample      == [age : Ages, ready : BOOLEAN, generation : Generations]

JobKinds == {"idle", "heartbeat", "bootstrap", "maintenance", "drain", "resume",
             "pause", "revoke", "reset", "expire", "reconcile"}
Steps    == {"idle", "cordon", "uncordon", "undrain", "group", "keys", "mintKey",
             "recordKey", "mintToken", "recordToken", "peerGroup", "peer", "node",
             "tokens", "forget", "complete", "place", "publish"}

(***************************************************************************)
(* A handler, the device it is for, and its locals: whether bootstrap saw  *)
(* a peer, and what reconciliation decided.                                *)
(***************************************************************************)
Job(kind, d) == [kind |-> kind, dev |-> d, joined |-> FALSE,
                 labels |-> {}, accepting |-> FALSE]
NoJob == Job("idle", CHOOSE d \in Devices : TRUE)

Free     == at = "idle"
At(step) == at = step
Goto(step) == at' = step /\ UNCHANGED job
Return     == at' = "idle" /\ job' = NoJob
Begin(kind, d, step) == at' = step /\ job' = Job(kind, d)

Resetting(d) == \E r \in Requests : <<d, r>> \in pending

(***************************************************************************)
(* Just enrolled devices, the worker_resets table empty, nothing minted.   *)
(***************************************************************************)
Init ==
  /\ revoked = {} /\ remotePaused = {} /\ fresh = {}
  /\ state = [d \in Devices |-> "paused"]
  /\ eligible = [d \in Devices |-> {}]
  /\ permitted = {} /\ allow = [d \in Devices |-> {}]
  /\ generation = [d \in Devices |-> 0] /\ drainPending = {}
  /\ samples = [d \in Devices |-> {}]
  /\ pending = {} /\ complete = {} /\ revocations = {}
  /\ keyRows = [d \in Devices |-> {}] /\ tokenRows = [d \in Devices |-> {}]
  /\ setupKeys = [d \in Devices |-> {}] /\ peers = {}
  /\ tokens = [d \in Devices |-> {}]
  /\ registered = {} /\ cordoned = {}
  /\ labels = [d \in Devices |-> {}] /\ labelled = [d \in Devices |-> 0]
  /\ minted = [d \in Devices |-> 0] /\ issued = [d \in Devices |-> {}]
  /\ certified = {}
  /\ at = "idle" /\ job = NoJob

-----------------------------------------------------------------------------
(***************************************************************************)
(* Heartbeat: a report older than the stored generation is refused.  A new *)
(* generation discards the evidence for the previous one and leaves a      *)
(* drain to do, which this and every later heartbeat tries until it works. *)
(***************************************************************************)
DrainOwedNow(d, changed) ==  \* mutant: only the last report counts
  IF changed THEN drainPending \cup {d} ELSE drainPending \ {d}

DrainOwed(d, changed) == IF changed THEN drainPending \cup {d} ELSE drainPending

Heartbeat(d, g, st, owner, kinds) ==
  /\ Free /\ d \notin revoked /\ g >= generation[d]
  /\ LET changed == g # generation[d]
     IN /\ samples' = IF changed THEN [samples EXCEPT ![d] = {}] ELSE samples
        /\ eligible' = IF changed THEN [eligible EXCEPT ![d] = {}] ELSE eligible
        /\ drainPending' = DrainOwed(d, changed)
  /\ generation' = [generation EXCEPT ![d] = g]
  /\ state' = [state EXCEPT ![d] = st]
  /\ fresh' = fresh \cup {d}
  /\ permitted' = IF owner THEN permitted \cup {d} ELSE permitted \ {d}
  /\ allow' = [allow EXCEPT ![d] = kinds]
  /\ IF d \in drainPending' THEN Begin("heartbeat", d, "cordon") ELSE Return
  /\ UNCHANGED <<revoked, remotePaused, resetTable, revocations, world>>

ClearDrainPending ==
  /\ At("undrain")
  /\ drainPending' = drainPending \ {job.dev}
  /\ Return
  /\ UNCHANGED <<deviceTable, policyTable, generation, samples, resetTable,
                 revocations, world>>

-----------------------------------------------------------------------------
(***************************************************************************)
(* The device's own controls.  Bootstrap and resume are refused while a    *)
(* reset is pending; bootstrap also while the administrator paused the     *)
(* device.                                                                 *)
(***************************************************************************)
Bootstrap(d) ==
  /\ Free /\ d \notin revoked /\ ~Resetting(d) /\ d \notin remotePaused
  /\ minted[d] < MaxGrants
  /\ minted' = [minted EXCEPT ![d] = @ + 1]
  /\ Begin("bootstrap", d, "group")
  /\ UNCHANGED <<tables, grantTables, network, tokens, node, issued, certified>>

MaintenanceUnlocked(d) ==  \* mutant: the handler does not take the lock
  /\ d \notin revoked /\ d \in registered
  /\ state' = [state EXCEPT ![d] = "draining"]
  /\ eligible' = [eligible EXCEPT ![d] = {}]
  /\ cordoned' = cordoned \cup {d}
  /\ labels' = [labels EXCEPT ![d] = {}]
  /\ UNCHANGED <<revoked, remotePaused, fresh, policyTable, healthTable, resetTable,
                 revocations, grantTables, network, tokens, registered, labelled,
                 guest, lock>>

Maintenance(d) ==
  /\ Free /\ d \notin revoked
  /\ state' = [state EXCEPT ![d] = "draining"]
  /\ eligible' = [eligible EXCEPT ![d] = {}]
  /\ Begin("maintenance", d, "cordon")
  /\ UNCHANGED <<revoked, remotePaused, fresh, policyTable, healthTable,
                 resetTable, revocations, world>>

Drain(d) ==
  /\ Free /\ d \notin revoked
  /\ state' = [state EXCEPT ![d] = "draining"]
  /\ eligible' = [eligible EXCEPT ![d] = {}]
  /\ permitted' = permitted \ {d}
  /\ Begin("drain", d, "cordon")
  /\ UNCHANGED <<revoked, remotePaused, fresh, allow, healthTable, resetTable,
                 revocations, world>>

Resume(d) ==
  /\ Free /\ d \notin revoked /\ ~Resetting(d)
  /\ Begin("resume", d, "uncordon")
  /\ UNCHANGED <<tables, world>>

(***************************************************************************)
(* The administrator's controls.                                           *)
(***************************************************************************)
AdminPauseKeepsEligible(d) ==  \* mutant: the dashboard is not cleared
  /\ Free /\ d \notin revoked
  /\ remotePaused' = remotePaused \cup {d}
  /\ Begin("pause", d, "cordon")
  /\ UNCHANGED <<revoked, state, fresh, eligible, policyTable, healthTable,
                 resetTable, revocations, world>>

AdminPause(d) ==
  /\ Free /\ d \notin revoked
  /\ remotePaused' = remotePaused \cup {d}
  /\ eligible' = [eligible EXCEPT ![d] = {}]
  /\ Begin("pause", d, "cordon")
  /\ UNCHANGED <<revoked, state, fresh, policyTable, healthTable, resetTable,
                 revocations, world>>

AdminResume(d) ==
  /\ Free /\ d \notin revoked /\ ~Resetting(d)
  /\ remotePaused' = remotePaused \ {d}
  /\ eligible' = [eligible EXCEPT ![d] = {}]
  /\ UNCHANGED <<revoked, state, fresh, policyTable, healthTable, resetTable,
                 revocations, world, lock>>

Revoke(d) ==
  /\ Free
  /\ revoked' = revoked \cup {d}
  /\ remotePaused' = remotePaused \cup {d}
  /\ eligible' = [eligible EXCEPT ![d] = {}]
  /\ revocations' = revocations \cup {d}
  /\ Begin("revoke", d, "keys")
  /\ UNCHANGED <<state, fresh, policyTable, healthTable, resetTable, world>>

RetryRevocationUnlessReset(d) ==  \* mutant: leaves it to the pending reset
  /\ Free /\ d \in revoked \cap revocations /\ ~Resetting(d)
  /\ Begin("revoke", d, "keys")
  /\ UNCHANGED <<tables, world>>

RetryRevocation(d) ==
  /\ Free /\ d \in revoked \cap revocations
  /\ Begin("revoke", d, "keys")
  /\ UNCHANGED <<tables, world>>

(***************************************************************************)
(* Worker reset.  The request is durable before the first cluster call, so *)
(* both the device and the maintenance loop can finish it later.           *)
(***************************************************************************)
RequestReset(d, r) ==
  /\ Free /\ d \notin revoked
  /\ <<d, r>> \notin complete /\ ~Resetting(d)
  /\ pending' = pending \cup {<<d, r>>}
  /\ samples' = [samples EXCEPT ![d] = {}]
  /\ eligible' = [eligible EXCEPT ![d] = {}]
  /\ state' = [state EXCEPT ![d] = "paused"]
  /\ permitted' = permitted \ {d}
  /\ Begin("reset", d, "cordon")
  /\ UNCHANGED <<revoked, remotePaused, fresh, allow, generation, drainPending,
                 complete, revocations, world>>

RetryResetSkipsKeys(d) ==  \* mutant: assumes the first attempt removed them
  /\ Free /\ d \notin revoked /\ Resetting(d)
  /\ Begin("reset", d, "peerGroup")
  /\ UNCHANGED <<tables, world>>

RetryResetUnlessPaused(d) ==  \* mutant: a paused device is not retried
  /\ Free /\ d \notin revoked \cup remotePaused /\ Resetting(d)
  /\ Begin("reset", d, "cordon")
  /\ UNCHANGED <<tables, world>>

RetryReset(d) ==
  /\ Free /\ d \notin revoked /\ Resetting(d)
  /\ Begin("reset", d, "cordon")
  /\ UNCHANGED <<tables, world>>

CompleteReset ==
  LET d == job.dev
      finished == {<<d, r>> : r \in {q \in Requests : <<d, q>> \in pending}}
  IN /\ At("complete")
     /\ samples' = [samples EXCEPT ![d] = {}]
     /\ eligible' = [eligible EXCEPT ![d] = {}]
     /\ state' = [state EXCEPT ![d] = "paused"]
     /\ permitted' = permitted \ {d}
     /\ pending' = pending \ finished
     /\ complete' = complete \cup finished
     /\ Return
     /\ UNCHANGED <<revoked, remotePaused, fresh, allow, generation,
                    drainPending, revocations, world>>

-----------------------------------------------------------------------------
(***************************************************************************)
(* Provisioner::drain and maintenance: GET the node, PATCH it unschedulable*)
(* with both protected labels removed.  Without a node drain has nothing   *)
(* to do and maintenance fails.                                            *)
(***************************************************************************)
AfterCordon ==
  \/ job.kind = "heartbeat" /\ Goto("undrain")
  \/ job.kind = "reset" /\ Goto("keys")
  \/ job.kind \notin {"heartbeat", "reset"} /\ Return

Cordon ==
  /\ At("cordon") /\ job.dev \in registered
  /\ cordoned' = cordoned \cup {job.dev}
  /\ labels' = [labels EXCEPT ![job.dev] = {}]
  /\ AfterCordon
  /\ UNCHANGED <<tables, grantTables, network, tokens, registered, labelled, guest>>

NothingToCordon ==
  /\ At("cordon") /\ job.dev \notin registered
  /\ AfterCordon
  /\ UNCHANGED <<tables, world>>

Uncordon ==
  /\ At("uncordon")
  /\ \/ /\ job.dev \in registered
        /\ cordoned' = cordoned \ {job.dev}
        /\ labels' = [labels EXCEPT ![job.dev] = {}]
        /\ UNCHANGED <<registered, labelled>>
     \/ job.dev \notin registered /\ UNCHANGED node
  /\ Return
  /\ UNCHANGED <<tables, grantTables, network, tokens, guest>>

(***************************************************************************)
(* Provisioner::bootstrap: inspect the device's group, drop older setup    *)
(* keys, mint a one-off key unless a peer was in the group, then mint a    *)
(* bootstrap token.  Each credential is recorded after it is created, and  *)
(* the answer that carries both leaves after the last row.                 *)
(***************************************************************************)
InspectGroup ==
  /\ At("group")
  /\ at' = "keys"
  /\ job' = [kind |-> "bootstrap", dev |-> job.dev, joined |-> job.dev \in peers,
             labels |-> {}, accepting |-> FALSE]
  /\ UNCHANGED <<tables, world>>

MintKey ==
  /\ At("mintKey")
  /\ setupKeys' = [setupKeys EXCEPT ![job.dev] = @ \cup {minted[job.dev]}]
  /\ Goto("recordKey")
  /\ UNCHANGED <<tables, grantTables, peers, tokens, node, guest>>

RecordKey ==
  /\ At("recordKey")
  /\ keyRows' = [keyRows EXCEPT ![job.dev] = @ \cup {minted[job.dev]}]
  /\ Goto("mintToken")
  /\ UNCHANGED <<tables, tokenRows, network, tokens, node, guest>>

MintToken ==
  /\ At("mintToken")
  /\ tokens' = [tokens EXCEPT ![job.dev] = @ \cup {minted[job.dev]}]
  /\ Goto("recordToken")
  /\ UNCHANGED <<tables, grantTables, network, node, guest>>

RecordToken ==
  /\ At("recordToken")
  /\ tokenRows' = [tokenRows EXCEPT ![job.dev] = @ \cup {minted[job.dev]}]
  /\ issued' = [issued EXCEPT ![job.dev] = @ \cup {minted[job.dev]}]
  /\ Return
  /\ UNCHANGED <<tables, keyRows, network, tokens, node, minted, certified>>

-----------------------------------------------------------------------------
(***************************************************************************)
(* Provisioner::remove_keys, the loop over bootstrap tokens at the end of  *)
(* revoke, and expire_grants, which is both loops over the expired rows    *)
(* (any of them: the clock is not modelled).  A credential is deleted at   *)
(* its service, then its row; the row is all that remembers it.            *)
(***************************************************************************)
DeleteKey(k) ==
  /\ At("keys") /\ k \in keyRows[job.dev] \cap setupKeys[job.dev]
  /\ setupKeys' = [setupKeys EXCEPT ![job.dev] = @ \ {k}]
  /\ UNCHANGED <<tables, grantTables, peers, tokens, node, guest, lock>>

ForgetKeyFirst(k) ==  \* mutant: the row goes before the key
  /\ At("keys") /\ k \in keyRows[job.dev]
  /\ keyRows' = [keyRows EXCEPT ![job.dev] = @ \ {k}]
  /\ UNCHANGED <<tables, tokenRows, network, tokens, node, guest, lock>>

ForgetKey(k) ==
  /\ At("keys") /\ k \in keyRows[job.dev] \ setupKeys[job.dev]
  /\ keyRows' = [keyRows EXCEPT ![job.dev] = @ \ {k}]
  /\ UNCHANGED <<tables, tokenRows, network, tokens, node, guest, lock>>

KeysRemoved ==
  /\ At("keys") /\ (job.kind = "expire" \/ keyRows[job.dev] = {})
  /\ \/ job.kind = "bootstrap" /\ Goto(IF job.joined THEN "mintToken" ELSE "mintKey")
     \/ job.kind = "expire" /\ Goto("tokens")
     \/ job.kind \in {"revoke", "reset"} /\ Goto("peerGroup")
  /\ UNCHANGED <<tables, world>>

DeleteToken(t) ==
  /\ At("tokens") /\ t \in tokenRows[job.dev] \cap tokens[job.dev]
  /\ tokens' = [tokens EXCEPT ![job.dev] = @ \ {t}]
  /\ UNCHANGED <<tables, grantTables, network, node, guest, lock>>

ForgetToken(t) ==
  /\ At("tokens") /\ t \in tokenRows[job.dev] \ tokens[job.dev]
  /\ tokenRows' = [tokenRows EXCEPT ![job.dev] = @ \ {t}]
  /\ UNCHANGED <<tables, keyRows, network, tokens, node, guest, lock>>

TokensRemoved ==
  /\ At("tokens") /\ (job.kind = "expire" \/ tokenRows[job.dev] = {})
  /\ \/ job.kind = "expire" /\ Return
     \/ job.kind = "revoke" /\ Goto("forget")
     \/ job.kind = "reset" /\ Goto("complete")
  /\ UNCHANGED <<tables, world>>

ExpireGrants(d) ==
  /\ Free /\ keyRows[d] \cup tokenRows[d] # {}
  /\ Begin("expire", d, "keys")
  /\ UNCHANGED <<tables, world>>

(***************************************************************************)
(* The rest of Provisioner::revoke: delete the peer found in the device's  *)
(* group, then the node, and between them the tokens above.                *)
(***************************************************************************)
InspectPeersOfNode ==  \* mutant: no node, so no peer to remove
  /\ At("peerGroup")
  /\ Goto(IF job.dev \in peers \cap registered THEN "peer" ELSE "node")
  /\ UNCHANGED <<tables, world>>

InspectPeers ==
  /\ At("peerGroup")
  /\ Goto(IF job.dev \in peers THEN "peer" ELSE "node")
  /\ UNCHANGED <<tables, world>>

DeletePeer ==
  /\ At("peer")
  /\ peers' = peers \ {job.dev}
  /\ Goto("node")
  /\ UNCHANGED <<tables, grantTables, setupKeys, tokens, node, guest>>

DeleteNode ==
  /\ At("node")
  /\ registered' = registered \ {job.dev}
  /\ cordoned' = cordoned \ {job.dev}
  /\ labels' = [labels EXCEPT ![job.dev] = {}]
  /\ Goto("tokens")
  /\ UNCHANGED <<tables, grantTables, network, tokens, labelled, guest>>

ForgetRevocation ==
  /\ At("forget")
  /\ revocations' = revocations \ {job.dev}
  /\ Return
  /\ UNCHANGED <<deviceTable, policyTable, healthTable, resetTable, world>>

-----------------------------------------------------------------------------
(***************************************************************************)
(* Reconciliation of one device.  The code keeps the lock for a whole pass *)
(* over the devices; here others may come in between two of them.  An      *)
(* observation needs the node and the peer and may fail; the slot's row    *)
(* keeps its worst measurement.  CI needs a good row in every slot of the  *)
(* window; the longer window for services is not followed, so services is  *)
(* any choice CI permits.                                                  *)
(***************************************************************************)
AcceptingUndrained(d) ==  \* mutant: ignores the drain the device owes
  /\ d \in fresh /\ d \notin remotePaused
  /\ d \in permitted /\ state[d] = "sharing"

Accepting(d) ==
  /\ d \in fresh /\ d \notin drainPending /\ d \notin remotePaused
  /\ d \in permitted /\ state[d] = "sharing"

Recorded(d, ok) ==
  IF \E s \in samples[d] : s.age = 0
  THEN {[age |-> s.age, ready |-> s.ready /\ (ok \/ s.age # 0),
         generation |-> s.generation] : s \in samples[d]}
  ELSE samples[d] \cup {[age |-> 0, ready |-> ok, generation |-> generation[d]]}

Healthy(rows) == \A a \in Ages : \E s \in rows : s.age = a /\ s.ready

Selected(d) == d \notin revoked /\ ~Resetting(d)

Reconcile(d, ok, services) ==
  /\ Free /\ Selected(d)
  /\ ok => Accepting(d) /\ d \in registered /\ d \in peers
  /\ LET rows == Recorded(d, ok)
         qualified == IF ~Healthy(rows) THEN {}
                      ELSE IF services THEN Kinds ELSE {"ci"}
     IN /\ services => Healthy(rows)
        /\ samples' = [samples EXCEPT ![d] = rows]
        /\ job' = [kind |-> "reconcile", dev |-> d, joined |-> FALSE,
                   labels |-> IF Accepting(d) THEN qualified \cap allow[d] ELSE {},
                   accepting |-> Accepting(d)]
  /\ at' = "place"
  /\ eligible' = [eligible EXCEPT ![d] = {}]
  /\ UNCHANGED <<revoked, remotePaused, state, fresh, policyTable, generation,
                 drainPending, resetTable, revocations, world>>

PlaceLeavesOpen ==  \* mutant: the node of a device that does not accept is not cordoned
  /\ At("place")
  /\ \/ /\ job.dev \in registered
        /\ cordoned' = IF job.accepting THEN cordoned \ {job.dev} ELSE cordoned
        /\ labels' = [labels EXCEPT ![job.dev] = job.labels]
        /\ labelled' = [labelled EXCEPT ![job.dev] = generation[job.dev]]
        /\ UNCHANGED registered
     \/ job.dev \notin registered /\ job.labels = {} /\ UNCHANGED node
  /\ Goto("publish")
  /\ UNCHANGED <<tables, grantTables, network, tokens, guest>>

Place ==
  /\ At("place")
  /\ \/ /\ job.dev \in registered
        /\ cordoned' = IF job.accepting THEN cordoned \ {job.dev} ELSE cordoned \cup {job.dev}
        /\ labels' = [labels EXCEPT ![job.dev] = job.labels]
        /\ labelled' = [labelled EXCEPT ![job.dev] = generation[job.dev]]
        /\ UNCHANGED registered
     \/ job.dev \notin registered /\ job.labels = {} /\ UNCHANGED node
  /\ Goto("publish")
  /\ UNCHANGED <<tables, grantTables, network, tokens, guest>>

Publish ==
  /\ At("publish")
  /\ eligible' = [eligible EXCEPT ![job.dev] = job.labels]
  /\ Return
  /\ UNCHANGED <<revoked, remotePaused, state, fresh, policyTable, healthTable,
                 resetTable, revocations, world>>

-----------------------------------------------------------------------------
(***************************************************************************)
(* A handler may end before any of its steps.                              *)
(***************************************************************************)
Abort ==
  /\ ~Free
  /\ Return
  /\ UNCHANGED <<tables, world>>

(***************************************************************************)
(* Time: 90 seconds without a heartbeat; the next observation slot.        *)
(***************************************************************************)
HeartbeatAges(d) ==
  /\ d \in fresh
  /\ fresh' = fresh \ {d}
  /\ UNCHANGED <<revoked, remotePaused, state, eligible, policyTable, healthTable,
                 resetTable, revocations, world, lock>>

Older(s) == [age |-> s.age + 1, ready |-> s.ready, generation |-> s.generation]

NextSlotKeepsOld ==  \* mutant: old rows are never deleted
  /\ \E d \in Devices : samples[d] # {}
  /\ samples' = [d \in Devices |-> {Older(s) : s \in samples[d]}]
  /\ UNCHANGED <<deviceTable, policyTable, generation, drainPending, resetTable,
                 revocations, world, lock>>

NextSlot ==
  /\ \E d \in Devices : samples[d] # {}
  /\ samples' = [d \in Devices |->
       {Older(s) : s \in {x \in samples[d] : x.age + 1 \in Ages}}]
  /\ UNCHANGED <<deviceTable, policyTable, generation, drainPending, resetTable,
                 revocations, world, lock>>

(***************************************************************************)
(* The guest, through the services: a one-off setup key is used up by the  *)
(* peer it admits; a node registers over the network with a bootstrap      *)
(* token, or with the kubelet certificates an earlier token obtained.      *)
(***************************************************************************)
JoinNetwork(d, k) ==
  /\ d \notin peers /\ k \in issued[d] \cap setupKeys[d]
  /\ setupKeys' = [setupKeys EXCEPT ![d] = @ \ {k}]
  /\ peers' = peers \cup {d}
  /\ UNCHANGED <<tables, grantTables, tokens, node, guest, lock>>

RegisterNode(d) ==
  /\ d \in peers /\ d \notin registered
  /\ d \in certified \/ issued[d] \cap tokens[d] # {}
  /\ registered' = registered \cup {d}
  /\ certified' = certified \cup {d}
  /\ UNCHANGED <<tables, grantTables, network, tokens, cordoned, labels, labelled,
                 minted, issued, lock>>

-----------------------------------------------------------------------------
Request(d) ==
  \/ \E g \in Generations, st \in Reports, owner \in BOOLEAN, kinds \in Allowances :
       Heartbeat(d, g, st, owner, kinds)
  \/ Bootstrap(d) \/ Maintenance(d) \/ Drain(d) \/ Resume(d)
  \/ AdminPause(d) \/ AdminResume(d) \/ Revoke(d)
  \/ \E r \in Requests : RequestReset(d, r)

Maintain(d) ==
  \/ RetryRevocation(d) \/ RetryReset(d) \/ ExpireGrants(d)
  \/ \E ok, services \in BOOLEAN : Reconcile(d, ok, services)

BookStep == ClearDrainPending \/ CompleteReset \/ ForgetRevocation \/ Publish

NodeStep == Cordon \/ NothingToCordon \/ Uncordon \/ DeleteNode \/ Place

MintStep == InspectGroup \/ MintKey \/ RecordKey \/ MintToken \/ RecordToken

RemoveStep ==
  \/ \E g \in Grants : DeleteKey(g) \/ ForgetKey(g) \/ DeleteToken(g) \/ ForgetToken(g)
  \/ KeysRemoved \/ TokensRemoved \/ InspectPeers \/ DeletePeer

HandlerStep == BookStep \/ NodeStep \/ MintStep \/ RemoveStep

Guest(d) == RegisterNode(d) \/ \E k \in Grants : JoinNetwork(d, k)

Clock == NextSlot \/ \E d \in Devices : HeartbeatAges(d)

Next ==
  \/ \E d \in Devices : Request(d) \/ Maintain(d) \/ Guest(d)
  \/ HandlerStep
  \/ Abort
  \/ Clock

Spec == Init /\ [][Next]_vars

(***************************************************************************)
(* The maintenance loop runs every 30 seconds for as long as the process   *)
(* lives and tokio's mutex is first come, first served, so a job that is   *)
(* due again and again gets the lock.  A handler runs on until it ends,    *)
(* and handlers stop being cut short once NetBird, Kubernetes and the      *)
(* process itself stay up.  A last step that changes no table and nothing  *)
(* in the cluster looks like Abort and is none: publishing no labels over  *)
(* none, or finding no node to cordon.                                     *)
(***************************************************************************)
CutShort == Abort /\ ~HandlerStep

Fairness ==
  /\ WF_vars(HandlerStep)
  /\ <>[][~CutShort]_vars
  /\ \A d \in Devices :
       /\ SF_vars(RetryRevocation(d))
       /\ SF_vars(RetryReset(d))
       /\ SF_vars(\E ok, services \in BOOLEAN : Reconcile(d, ok, services))

FairSpec == Spec /\ Fairness

-----------------------------------------------------------------------------
JobType == [kind : JobKinds, dev : Devices, joined : BOOLEAN,
            labels : SUBSET Kinds, accepting : BOOLEAN]

(***************************************************************************)
(* The types of the tables, of the cluster's objects and of the handler.   *)
(***************************************************************************)
TypeOK ==
  /\ revoked \subseteq Devices /\ remotePaused \subseteq Devices
  /\ fresh \subseteq Devices /\ permitted \subseteq Devices
  /\ drainPending \subseteq Devices /\ revocations \subseteq Devices
  /\ peers \subseteq Devices /\ registered \subseteq Devices
  /\ cordoned \subseteq Devices /\ certified \subseteq Devices
  /\ state \in [Devices -> States]
  /\ eligible \in [Devices -> SUBSET Kinds]
  /\ allow \in [Devices -> SUBSET Kinds]
  /\ labels \in [Devices -> SUBSET Kinds]
  /\ generation \in [Devices -> Generations]
  /\ labelled \in [Devices -> Generations]
  /\ samples \in [Devices -> SUBSET Sample]
  /\ pending \subseteq Devices \X Requests
  /\ complete \subseteq Devices \X Requests
  /\ keyRows \in [Devices -> SUBSET Grants]
  /\ tokenRows \in [Devices -> SUBSET Grants]
  /\ setupKeys \in [Devices -> SUBSET Grants]
  /\ tokens \in [Devices -> SUBSET Grants]
  /\ issued \in [Devices -> SUBSET Grants]
  /\ minted \in [Devices -> 0..MaxGrants]
  /\ job \in JobType /\ at \in Steps

(***************************************************************************)
(* Whatever a guest was sent and can still use is on record, so that a     *)
(* revocation or a reset finds it: creating a credential, recording it and *)
(* answering, and deleting it and its row, may each be cut in two.         *)
(* (Provisioner::bootstrap, remove_keys, revoke, expire_grants)            *)
(***************************************************************************)
IssuedIsRecorded ==
  \A d \in Devices :
    /\ issued[d] \cap setupKeys[d] \subseteq keyRows[d]
    /\ issued[d] \cap tokens[d] \subseteq tokenRows[d]

NoAccess(d) ==
  /\ d \notin peers /\ d \notin registered
  /\ issued[d] \cap setupKeys[d] = {}
  /\ issued[d] \cap tokens[d] = {}

(***************************************************************************)
(* Once no cleanup is pending for a revoked device, its guest has no peer, *)
(* no node and no usable credential left, and never gets one again: keys   *)
(* go before the peer, the peer before the node it could register.         *)
(* (revoke, retry_revocations, Provisioner::revoke)                        *)
(***************************************************************************)
RevokedLeavesNoAccess ==
  \A d \in revoked \ revocations : NoAccess(d)

(***************************************************************************)
(* A reset reported complete has removed the previous worker: at that step *)
(* nothing of it is left in NetBird or Kubernetes and no evidence for it   *)
(* is left in the tables.  (reset, finish_worker_reset)                    *)
(***************************************************************************)
CompletedResetIsClean ==
  [][\A d \in Devices : \A r \in Requests :
       <<d, r>> \in complete' \ complete =>
         /\ NoAccess(d)' /\ samples'[d] = {} /\ eligible'[d] = {}
         /\ d \notin permitted']_vars

(***************************************************************************)
(* Health evidence is never carried over a change of storage, and labels   *)
(* granted to the previous storage stay only while their drain is owed.    *)
(* (heartbeat, reconcile_at)                                               *)
(***************************************************************************)
StorageChangeRequalifies ==
  \A d \in Devices :
    /\ \A s \in samples[d] : s.generation = generation[d]
    /\ labels[d] # {} /\ d \notin drainPending => labelled[d] = generation[d]

(***************************************************************************)
(* The dashboard never shows a device as eligible while the controller     *)
(* itself holds it closed: revoked, paused by the administrator, being     *)
(* reset, or owing a drain.  (every handler that clears eligibility)       *)
(***************************************************************************)
EligibleRowsAreOpen ==
  \A d \in Devices : eligible[d] # {} =>
    /\ d \notin revoked \cup remotePaused \cup drainPending
    /\ ~Resetting(d)

(***************************************************************************)
(* Labels appear only on the node of a device whose row, at that moment,   *)
(* is open to work of those kinds: reconciliation weighs every way in      *)
(* which a device is closed, the drain it owes included, and what it read  *)
(* holds until the labels are placed.  (reconcile_at, Provisioner::place)  *)
(***************************************************************************)
AdmissionNeedsConsent ==
  [][\A d \in Devices : labels'[d] \ labels[d] # {} =>
       /\ labels'[d] \subseteq allow[d]
       /\ d \in permitted /\ state[d] = "sharing"
       /\ d \notin revoked \cup remotePaused \cup drainPending
       /\ ~Resetting(d)]_vars

(***************************************************************************)
(* A cordon put on a node is lifted only when the owner's device asks for  *)
(* it or reconciliation finds the row sharing: "qualification cannot undo  *)
(* the cordon while the update is waiting for existing jobs".              *)
(* (device_control maintenance and drain, resume, place)                   *)
(***************************************************************************)
CordonIsHeld ==
  [][\A d \in Devices : d \in cordoned /\ d \in registered' /\ d \notin cordoned' =>
       /\ job.dev = d
       /\ job.kind = "resume" \/ (d \in permitted \ remotePaused /\ state[d] = "sharing")]_vars

(***************************************************************************)
(* A cleanup the administrator asked for is finished in the end, whatever  *)
(* cut it short.  (retry_revocations)                                      *)
(***************************************************************************)
RevocationFinishes ==
  \A d \in Devices : d \in revocations ~> d \notin revocations

(***************************************************************************)
(* A requested reset completes in the end unless the device is revoked.    *)
(* (retry_worker_resets)                                                   *)
(***************************************************************************)
ResetFinishes ==
  \A d \in Devices : Resetting(d) ~> ~Resetting(d) \/ d \in revoked

Closed(d) == labels[d] = {} /\ (d \in registered => d \in cordoned)

(***************************************************************************)
(* A pause whose drain failed still closes the node in the end: the next   *)
(* reconciliations repeat what the handler could not.  (admin_control,     *)
(* reconcile_at)                                                           *)
(***************************************************************************)
PauseCloses ==
  \A d \in Devices : d \in remotePaused ~> d \notin remotePaused \/ Closed(d)
=============================================================================
