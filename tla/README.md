# A TLA+ model of the Thalassa Cloud CSI driver

The driver (`driver/`, `cmd/`) lets a container orchestrator (CO, in practice
Kubernetes with its CSI sidecars and the kubelet) create, attach, mount, grow and
delete block volumes of the Thalassa IaaS API. It runs in two modes: one
*controller*, which talks to the IaaS API, and one *node* plugin per machine, which
formats and mounts devices. Neither keeps state of its own. Every handler decides on
what its last API call or command told it, and the CO repeats calls whose answer it
did not get. So the interesting questions are about what happens **between** the
steps of a handler and about **repeated** calls, and that is what is modelled: one
step per API call or command, with other actors and failures in between.

## 1. Inventory

| Part | State | Operations | Interacts with | What makes it correct |
|---|---|---|---|---|
| Attachment (`controller_attachment.go`) | none; the API's volume status, attachments, machines | ControllerPublishVolume, ControllerUnpublishVolume | IaaS API, external-attacher, handlers of other nodes, DeleteVolume | a published volume is attached to the right machine; an unpublished one is free; retries converge |
| Node service (`node.go`, `mounter.go`) | the node's mounts, the device, the filesystem | NodeStageVolume, NodeUnstageVolume, NodePublishVolume, NodeUnpublishVolume, NodeExpandVolume | kubelet, `blkid`, `mkfs`, `findmnt`, `mount`, `umount`, resize tools, udev | data is never formatted; a pod sees its volume; teardown leaves nothing mounted; the filesystem fills the device |
| Provisioning (`controller_volumes.go`, `controller_resize.go`, `capacity.go`) | the API's volumes | CreateVolume, DeleteVolume, ControllerExpandVolume | IaaS API, external-provisioner, external-resizer | no volume lost however often a call is repeated; at least the capacity asked for and reported |
| Snapshots (`controller_snapshots.go`) | the API's snapshots | CreateSnapshot, DeleteSnapshot | IaaS API, external-snapshotter, CreateVolume | one snapshot per name, of the right source volume, ready when reported so |
| Listing (`pagination.go`, ListVolumes, ListSnapshots) | the token, in the CO's hands | paginateIdentities | IaaS API | every item that exists throughout is listed exactly once |
| Lifecycle (`controller.go`, `nodedriver.go`, `identity.go`, `health*.go`, `cmd/plugin.go`) | `ready`, two servers, the socket file | RunE, Run, RunNode, Probe, Check | gRPC, HTTP health server, signals, kubelet, a previous instance | the socket is the serving instance's; Probe tells the truth; a signal ends the process and cuts no call off |
| Capabilities, volume types, errors, flags | none | table lookups, flag parsing | — | — |
| Machine identity (`machineidentity.go`) | none | getNodeMachineIdentity | Kubernetes API | dead code: no constructor sets `kubeConfig` |

What is hard here, each listed with its line under `hazards` in `PROJECT.json`:
values read from the API and used after another call; polls that look at a status
anyone may have changed; a caller's deadline (3 minutes in `deploy/`) shorter than the
handler's 5 minute poll; requests that arrive after their call was given up; lost
answers; node handlers that take no lock and ignore their context; restarts and
reboots half way; `blkid` not telling a blank device from an absent one; arithmetic
on optional bounds and truncation to GiB; a page token looked up in a newer list; five
goroutines whose order of start nobody fixes when a signal arrives.

## 2. Modules

| Module | Models | Runs / proofs |
|---|---|---|
| `VolumeLease` | what publish and unpublish promise: the abstract specification | implemented by `Attachment` |
| `Attachment` | publish and unpublish of one volume, over several nodes | `MCAttachment`, `AttachmentProofs` |
| `System` | `Attachment` composed with `NodeVolume` for one node; extends both | `MCSystem`, `SystemProofs` |
| `NodeVolume` | the node service for one volume on one node | its own cfgs, `NodeVolumeProofs` |
| `Capacity` | `getStorageSizeFromCapacityRange` | through `Provisioning` |
| `Provisioning` | create, expand and delete of one volume name; extends `Capacity` | `MCProvisioning`, `ProvisioningProofs` |
| `Snapshots` | create and delete of one snapshot name | `MCSnapshots`, `SnapshotsProofs` |
| `Listing` | `paginateIdentities`, ListVolumes and ListSnapshots, called page by page | `MCListing`, `ListingProofs` |
| `Lifecycle` | the plugin command, Run, RunNode and Probe | its own cfg, `LifecycleProofs` |

Operators named `X_Y` under a comment "Mutant:" are wrong versions of the operator
`X`, one for every checked property, to show that the property notices the mistake.
No specification uses them.

### Attachment

`status`, `att` and `mstate` are the API's side: the volume's status, the machines in
its `Attachments`, and which machines exist. Machine identities are never reused, node
names are: a deleted machine's replacement may run under the same name, so that one
node id stands for different machines over time. `pc[n]` is the API call the handler
for node id `n` is about to make; `snap[n]` is `vol.Attachments`, kept from GetVolume
to the decision after ListMachines; `target[n]` is `attachToIdentity`. `co[n]` is the
CO's VolumeAttachment.

| Code | Action |
|---|---|
| ControllerPublishVolume | `PublishCall`, `PubGetVolume`, `PubListMachines`, `PubAttach`, `PubPoll` |
| ControllerUnpublishVolume | `UnpublishCall`, `UnpubGetVolume`, `UnpubGetMachine`, `UnpubListMachines`, `UnpubDetach`, `UnpubPoll` |
| timeouts of either poll, any other error | `PollTimeout`, `CallFails` |
| DeleteVolume (one API call) | `DeleteVolume` |

External, modelled from how the handlers use it: the API lists one attachment from
the moment an attach is accepted; a detachment removes the attachment first and makes
the volume available after; the attachment of a deleted machine is released in time;
a volume in use is not deleted. `LateRequest` is a request still under way when its
call was given up. The external-attacher makes one call at a time per volume and node.

`PublishedNodeIds` is what ListVolumes tells of the volume's attachments.

### VolumeLease

The promise of the two handlers without their steps: `holders`, the machines that have
the volume; `gone`, the machines that are no more; `claim[n]`, what node `n` has asked
for. `Take` lends the free volume to a live machine of a node that has asked; `Grant` (a
successful publish) needs a holder or a lost machine; `Drop` takes the volume back only
from machines that are gone or whose node is returning it; `Close` (a successful
unpublish) needs that the node does not hold it. `Attachment!Lease` maps `att` to
`holders` and the CO's VolumeAttachments to claims. Publish and unpublish become one
atomic step each, whose conditions the handlers have to establish by calls that are not.

### NodeVolume

`dev`, `disk` and `full` are the device link, what is on the device and whether the
filesystem fills it. `staged` is the mount at the staging path and `bound[t]` the stack
of bind mounts at a target path. `call[s]` is a running handler and `waiting` the one
the kubelet waits for: after `Abandon` (its deadline) a handler runs on, because the
handlers never look at their context, and the kubelet's next call may run beside it if
another slot is free. `co*` is the kubelet's view.

| Code | Action |
|---|---|
| NodeStageVolume | `StageCall`, `StageIsAttached`, `StageIsFormatted`, `StageFormat`, `StageIsMounted`, `StageMount`, `StageResize` |
| NodeUnstageVolume | `UnstageCall`, `UnstageIsMounted`, `Unmount`, `Cleanup` |
| NodePublishVolume | `NodePublishCall`, `PublishResolve` (block), `PublishIsMounted`, `PublishMount` |
| NodeUnpublishVolume | `NodeUnpublishCall`, `Unmount`, `Cleanup` |
| NodeExpandVolume | `ExpandCall`, `ExpandIsMounted`, `ExpandResize` |
| a command fails | `CommandFails` |

`Unmount` and `Cleanup` are `CleanupMountPoint` of mount-utils: unmount once, look
again. Two checks that the code does in one go, `os.Stat` and `mount` in
`mounter.Mount` and the two reads of `IsAttached`, are one step each.

`DeviceGone` and `UsedElsewhere` are what may happen to a volume that has been handed
back: its device leaves, another node formats, writes and grows it. The names that
`Attachment` has too begin with `Node` here (`NodeInit`, `NodeNext`, `NodeSpec`,
`NodeTypeOK`), so that `System` can extend both modules.

### System

The controller and the node service of the node id `Here`. They meet in three places.
The CO stages a volume after its publish has succeeded (`SeesAttached`) and unpublishes
it after it is unstaged (`CalledByCO`). The device comes with the attachment
(`DeviceComes`) and leaves with it, *whatever is mounted* (`Detached`). A deleted
machine takes its mounts with it and its replacement runs a new node service under the
same node id (`ThisMachineDeleted`). No request outlives its call here
(`SystemAssumption`). `NodeVolume` alone assumes that a device does not leave under a
mount; here that has to follow from the controller, and `ImplementsNode` says that it does.
Expansion is left to the components' own modules.

### Capacity and Provisioning

`Capacity` translates the early returns of `getStorageSizeFromCapacityRange`; 0 stands
for its error. `Provisioning` has `vols`, the API's volumes of one name and the one to
adopt, the request
`req` with its capacity range and whether its volume type is known, it restores from a
snapshot or it adopts a volume (`volume-identity`), the handler's `pc` and `size`, and
the answer `ans`, which is a step of its own (`Reply`) so that it can be lost. `late` is
a create request that has outlived its call; `LateCreate` is its arrival.

| Code | Action |
|---|---|
| CreateVolume | `CreateCall`, `CreateGetVolume`, `CreateListVolumeTypes`, `CreateGetSnapshot`, `CreateCreateVolume` |
| DeleteVolume | `DeleteCall`, `DeleteDeleteVolume` |
| ControllerExpandVolume | `ExpandCall`, `ExpandGetVolume`, `ExpandUpdateVolume` |
| DeleteSnapshot | `DeleteSnapshot` |

CreateVolume gives GetVolume the `volume-identity`, if there is one, or else the name, and
goes on to create a volume under the name if nothing is found. The identity `Adopted` is
that of the volume to adopt, which exists from the start or not at all. `byName` says
whether the API's GetVolume takes a name in place of an identity: FALSE is what the client
documents, TRUE what CreateVolume hopes for. The passing run and the proofs cover both.

### Snapshots

`source` is the request's SourceVolumeId, an identity or a name. `vol`, `snap`, `created`
and `late` are the API's side: its volumes, the snapshot that has the name, the number
created so far and a create request that has outlived its call. `seen`, `volume`, `id`
and `ans` are the handler's variables: what the list returned, the resolved volume, the
snapshot it waits for and the answer. `co` and `coSnap` are what the CO knows.

| Code | Action |
|---|---|
| CreateSnapshot, getOrCreateSnapshot | `CreateCall`, `ListSnapshots`, `Decide`, `CreateSnapshot`, `Reply` |
| resolveVolumeIdentity | `ListByIdentity`, `ListByName` |
| the wait, the last read and mapToCSISnapshot | `WaitUntilAvailable`, `WaitDeadline`, `GetSnapshot` |
| DeleteSnapshot | `DeleteCall`, `DeleteSnapshot`, `ReplyDeleted` |
| any error | `CallFails` |

The code resolves the source volume inside the loop over the snapshots found, or after
it if there is none; both are the same two API calls after the list, so `Decide` comes
once. External, from the client's comments: a snapshot's name is unique, `SourceVolumeId`
never changes, `SourceVolume` is there while the volume exists, and a snapshot is taken
of a volume only while it is available and not attached, so `vol` tells "available" from
"inUse" and `VolumeAttached` and `VolumeDetached` change it at any time. Several
volumes may have one name, at the same time or one after the other; identities are not
reused.

### Listing

An item is its identity, a number, since `paginateIdentities` only compares identities.
`Sorted` is `sort.Strings`; `StartOf` the search for the token, `Page` the slice and the
next token. Both handlers make one API call and cut a page from its result: `ListPages`
(ListVolumes, and ListSnapshots with or without a source volume) and `ListOne`
(ListSnapshots by id, where an unknown id is an Internal error). The client is external:
it follows `next_token`, starts again after Aborted as CSI asks of it, and may repeat a
call. `stay` and `seen` are what existed all the time of a listing, and at some time of
it. The driver never sets `defaultVolumesPageSize`, so a request without `max_entries`
gets everything.

### Lifecycle

| Code | Action |
|---|---|
| RunE: mode, signal channel, result | `Start`, `Signal`, `Ends` |
| NewDriver's errors, the endpoint's | `StartFails` |
| os.Remove, net.Listen | `RemoveSocket`, `Listen` |
| `ready = true`, the goroutines | `Run` |
| Serve | `Serve`, `ServeReturns`, `AcceptFails` |
| the goroutine that waits for ctx | `NotReady`, `GracefulStop` |
| the health server's goroutines | `HealthListens`, `HealthShutdown` |
| eg.Wait | `Exit` |
| the interceptor around each handler | `RpcEnds` |

`sock` is whose socket file is at the endpoint's path: a killed process leaves its own
there, and closing a unix listener unlinks the path. `errs` collects what went wrong in
an instance; Run returns the first. Run and RunNode are the same code but for the health
server, which exists in controller mode with `--debug-addr` only, so `Start` chooses. From
grpc: GracefulStop before Serve makes Serve return ErrServerStopped; Serve otherwise
returns nil only after the last connection is drained; a permanent Accept error makes
Serve return while connections go on. Exits with an error after an early signal are
therefore part of the model: the plugin command then fails although it was stopped in
order.

## 3. Runs

| Run | Shows | Bounds |
|---|---|---|
| `attachment` | `UnpublishReplyTruthful`, `UnpublishConverges`, `PublishConverges` | 2 node ids, 3 machines, 1 failed call, 1 late request |
| `system` | `PublishedIsAttached`, `DetachedIsDetached`, `InUseIsHeldHere`, `ImplementsLease`, `ImplementsNode` | the same nodes without late requests, 1 failed call; on the node 1 pod, one handler at a time, 1 failure, attachment validation on, volumes that may be formatted |
| `node` | `PublishedSeesVolume`, `UnusedIsUnmounted`, `StagedSpansDevice`, `NoReformat` | 2 pods, one handler at a time, 3 failures, attachment validation on |
| `node_orphans` | `UnmountReplyTruthful`, `TeardownConverges`, `StageConverges` | 1 pod, 2 handlers at a time, 2 failures |
| `provisioning` | `SizeHonoursRange`, `OrphansNeedFailures`, `CapacityTruthful`, `CreateConverges`, `DeleteConverges` | a GiB of 2 units, sizes -1 to 5 GiB in whole GiB, GetVolume with and without names, 4 volumes, 2 expansions, 2 failures, late creates |
| `snapshots` | `SnapshotOfSource`, `DeletesItsOwn`, `CreateConverges`, `DeleteConverges` | 3 volumes, two of one name; the source by identity or by name; 2 snapshots, 1 failure |
| `listing` | `ListingExact`, `PageFits`, `NoRepeats`, `ListingEnds` | 4 identities of 2 source volumes, pages of 0 (all) to 2, a negative size, 1 failure |
| `lifecycle` | `NewestIsReachable`, `ProbeTruthful`, `StopDrains`, `StartServes`, `SignalEnds` | 2 instances in turn, without end; 2 calls at a time, 2 faults |

Four more runs are expected to find a violation; section 6 describes them.

**Why the bounds are enough.** Two node ids are all a volume can move between; one of
them is a name with two machines, the other an identity, so both ways to resolve a node
id and the replacement of a machine occur. `Attachment`'s results are proved for all
sizes besides. On the node, three failures allow an abandoned call, a restart and a
failing command in one behaviour; the second pod makes unstaging wait for the last
target. In provisioning the sizes cover each side of every comparison (not set,
negative, the minimum, the default, in between, above the maximum), and four volumes are
the one to adopt, one for each failure and the CO's own, so that the API never runs out.
For snapshots, a volume, a second one of the same name and
an unrelated one cover the ways a source can be mistaken for another, and the second
snapshot is someone else's under the name. Runs of `Provisioning` and `Snapshots` do not
check for deadlock, since the life of a volume or snapshot ends with its deletion; all
others do. In `system` the other node is present by its attachments and by what it writes,
and the machine of this node may be replaced once; one failure on each side is enough for
a call that is repeated while the other side moves on. Four identities make listings of
three pages whose token is deleted, and the filter leaves gaps in the order. Two
instances that take turns without end cover any number, since an instance meets only its
predecessor's socket; two faults allow a crash and a broken listener or health server in
one behaviour.

**Fairness.** A handler that runs takes its next step (weak fairness): its goroutine is
scheduled and each API call or command ends. A poll ends by its timeout, the wait for a snapshot by the caller's deadline. The CO repeats
a call that failed, as the sidecars' work queues and the kubelet's reconciler do. The
kubelet's retries are strongly fair, since another of its calls for the volume may be
under way each time one becomes due. The API completes what it has accepted, and an
attached device appears. The goroutines of Run go on, every call in flight ends, and a
client stops using a connection it is told to leave (grpc closes it otherwise); nobody has
to send a signal or to call. A listing's client takes its answers, and items are created
and deleted finitely often. Nothing makes a failure happen or stop, but their number is
bounded.

**What has a condition.**
- `DetachedIsDetached` holds while no request outlives its call (`MaxLate = 0`). An
  attach request that reaches the API after a successful unpublish attaches the volume
  behind the CO's back; no check in the handler can prevent it. That the answer was true
  when it was given holds for any number of late requests.
- `ImplementsLease` holds under the same condition. `System` leaves late requests out, so
  that `ImplementsNode` and `InUseIsHeldHere` are about the same case.
- `NewestIsReachable` holds when an instance starts after the other has ended, as a
  DaemonSet without surge does. With `Overlap = TRUE`, the case the comment at
  `controller.go:204` names, TLC violates it: the old instance's GracefulStop closes its
  listener, which unlinks the path, where the new instance's socket is by then.
- `SignalEnds` needs handlers that end. Nothing limits GracefulStop, and the node's
  handlers do not watch their context.
- The invariants of `node` hold with one handler at a time. With two slots TLC violates
  `NoReformat`, `PublishedSeesVolume`, `UnusedIsUnmounted` and `StagedSpansDevice`: the
  handlers take no lock per volume and do not watch their context, so an abandoned stage,
  publish or unstage acts after the CO has moved on.
- `NoReformat` needs `--validate-attachment`, which is off by default.
- `CreateConverges` of `Snapshots` is about a source given by identity and leaves out a
  snapshot whose status is Failed: every retry finds it and waits for it in vain. It also
  leaves out a volume that stays attached, whose snapshot the API refuses every time.
- `OrphansNeedFailures` says that CreateVolume, DeleteVolume and ControllerExpandVolume
  leave over at most one volume for each call that failed half way. That there is never
  more than one volume of a name (`OneVolumePerName`) does not hold: see finding 4.
- `CapacityTruthful` needs sizes in whole GiB. With `Sizes = {0, 2, 3}`, 3 for one and a half
  GiB, TLC violates it: CreateVolume sends the size rounded down (`controller_volumes.go:121`)
  and reports it in full (`controller_volumes.go:240`), and ControllerExpandVolume rounds down
  too (`controller_resize.go:40`), although CSI says of RequiredBytes "Volume MUST be at least
  this big". If GetVolume finds such a volume, a repeated CreateVolume fails with
  AlreadyExists. `CapacityLossBounded` says what holds of all sizes.

## 4. Proofs

`AttachmentProofs`, for every set of machines and node ids and every bound:

- `TypeCorrect`: `Spec => []TypeOK`.
- `UnpublishTruthful`: `Spec => UnpublishReplyTruthful`. The property is about steps; the
  invariant it needs, `Base`, says that a volume has one attachment at most and only
  while it is in use (`ApiInv`), that a handler's target runs under its node id
  (`TargetInv`), and that the machine the handler is about to detach is the only live one
  under that node id that holds the volume or may get it by a late request
  (`DetachInv`). Without the last, a machine replaced between ListMachines and
  DetachVolume would refute the "not found" return.
- `PublishExact`, `DetachExact`: `PublishedIsAttached` and `DetachedIsDetached`, assuming
  `MaxLate = 0`. `Inv` adds that a handler runs only for the call the CO waits for
  (`CallInv`), that a live machine holds the volume only for a node the CO has a claim
  for and loses it only while that node is unpublished (`ClaimInv`), and that what the
  publish handler read about *its own* machine is still true when it uses it, although
  the rest of the snapshot may be stale (`PublishInv`).

- `LeaseImplemented`: `Spec => ImplementsLease`, assuming `MaxLate = 0`. From `Inv`, every
  step is a step of the lease or leaves its variables alone (`NextLease`): an accepted
  attach is a `Take`, as only a free volume has no attachment and the handler runs for a
  node that asks; a publish answer is a `Grant` by `PublishInv`; the end of a detachment
  is a `Drop` by `ClaimInv`; an unpublish answer is a `Close` for the reasons given under
  `UnpublishTruthful`.
- `ListedByIdentity` is the counterpart of finding 1: where all node ids are machine
  identities, `[]PublishedIsListed` holds, by `TargetInv`. Names are the only cause.

`NodeVolumeProofs`, for any number of target paths, failures, restarts and reboots:

- `NodeTypeCorrect` and `UnmountTruthful` (`UnmountReplyTruthful`) hold for any number of
  handlers at a time. The invariant `NodeBase` adds to the types only that a handler works
  on the kind of path its operation has; the second look of `CleanupMountPoint` does the
  rest.
- `PublishedSees`, `UnusedUnmounted`, `StagedSpans` assume `OneSlot`, one handler at a time.
  The handlers take no lock, so what one has looked at is true at its next command only if
  no other acts meanwhile; with two slots TLC refutes all three. None is inductive. `NodeInv`
  says that the kubelet has the volume attached while it has it staged and publishes only
  what is staged (`COInv`); that a handler, *orphan or not*, runs for what the kubelet still
  wants, except an unstage of a block volume, which a stage answered at once may overtake
  (`CallerInv`); what is mounted in each of the kubelet's states, and only while the device
  is there (`StagedInv`, `BoundInv`); and that what a handler has found out holds until it
  acts on it (`CheckedInv`).
- `NeverReformats` (`NoReformat`) assumes `OneSlot` and `ValidateAttachment`. `FormatInv` adds
  that from IsAttached on the device is there and at the mkfs it is still blank. `DeviceGone`
  and `UsedElsewhere` would break it; by `CallerInv` and `COInv` neither happens while a
  stage runs.

`SystemProofs`, for any number of machines, nodes, pods, failed calls and node failures,
puts the two together. Each half sees a behaviour of `System` as one of its own, so that
what is proved of the half is carried over, and the two invariants `Inv` and `NodeInv` meet
in one state:

- `SystemIsAttachment`: every step of `System` is one of `Attachment` or leaves it alone.
  With `MaxLate = 0`, which `System` assumes, this gives `SystemClaimsExact`
  (`PublishedIsAttached`, `DetachedIsDetached`), `SystemLends` (`ImplementsLease`) and `Inv`.
- `NodeImplemented` (`ImplementsNode`), for any number of handlers on the node. `NodeSpec`
  lets a device come only after an `Attach` and leave only after a `Detach`; in `System` it
  follows the API. `DeviceInv` ties the two sides together: the kubelet has the volume only
  while it is published, and the device is there only while the volume is attached. By
  `ClaimInv` a live machine loses the volume only while its node is unpublished, so a
  `Detached` step that takes the device away is `DeviceGone` of a volume handed back.
- `UsedIsHeld` (`[]InUseIsHeldHere`), assuming `OneSlot`: by `NodeInv` a volume in use has its
  device, by `DeviceInv` it is then attached here, and by `ApiInv` it has one attachment only.
- `PodsServed` (`PublishedSeesVolume`, `UnusedIsUnmounted`), assuming `OneSlot`, and `DataKept`
  (`NoReformat`), assuming `ValidateAttachment` too: the node's promises with the controller
  in place of an assumed environment.

`SnapshotsProofs`, for any volumes, names, failures and number of snapshots:

- `SnapshotsTypeCorrect`, `SnapshotHasSource` (`[]SnapshotOfSource`) and `DeleteIsExact`
  (`DeletesItsOwn`). `Inv` says that the snapshot there is has an identity used already
  (`UsedInv`), that what the list returned is still true of that very snapshot if it exists
  (`SeenInv`), that the handler creates from a volume the request names (`VolumeInv`) and
  waits for a snapshot of such a volume (`WaitInv`), and what the CO knows (`COInv`). It all
  rests on identities that are never reused: the name may pass to another snapshot between
  any two calls.
- `SourceMissingCause` is the extent of finding 3: an answer names the snapshot's own source
  volume or none, and none only if that volume has been deleted. `ToldInv` says besides that
  the source of the snapshot there is has existed; a deleted volume does not come back.

`ListingProofs`, for any finite set of identities, any filter and page size, and any
creations, deletions, failures and repeated calls:

- `ListingTypeCorrect`, `ListingIsExact` (`[]ListingExact`) and `PagesAreDisjoint`
  (`NoRepeats`). The lemma `PageIsInterval` says what `Page` is without indices: the
  identities from the token up to the next one. `Inv` says that everything received lies
  before the token and that everything that has stayed and lies before it was received
  (`PrefixInv`), and the same of the page under way, although the list it was cut from is
  out of date (`AnswerInv`). Sorting is a choice among the sorted lists, so that no
  induction is needed; that there is one is left to TLC.
- `PagesFit` (`[]PageFits`), from the lemma `PageHasSize`: a page is the image of an interval
  of at most `max_entries` positions, and not empty when there is a next token.

`LifecycleProofs`, for any number of instances, calls and faults:

- `LifecycleTypeCorrect`, `ProbeIsTruthful`, `StopIsGraceful`, with or without overlap.
  `ReadyInv` says that `ready` is cleared after the cancellation and before the stop,
  `CallInv` in which states of the server there can be calls at all.
- `ServesAtEndpoint` (`[]NewestIsReachable`), assuming `~Overlap`: `SocketInv` says that
  from net.Listen to the close of the listener the socket at the path is the running
  instance's.

`ProvisioningProofs`, for all sizes, units, minima, maxima and defaults that satisfy
`CapacityAssumption`:

- `TypeCorrect` and `RangeHonoured` (`Spec => []SizeHonoursRange`), from the lemma
  `SizeInRange` about `getStorageSizeFromCapacityRange` on arbitrary integers.
- `BelowMinimumCause`: a size below the minimum is let through only where RequiredBytes is
  below it and LimitBytes is not. That case is real: `capacity.go:47` applies the minimum
  only when no limit is set, so such a request asks the API for 0 GiB.
- `OrphansAccounted` (`[]OrphansNeedFailures`), without any hypothesis: with and without
  lookup by name, adoption, late requests and restores. `OrphanInv` adds what makes it
  inductive: identities are given out once and name one volume each (`IdentityInv`), the CO
  knows no identity before a create and none after a delete, an answer to an expansion is
  about the CO's volume and a delete that answers has left nothing of it (`KnownInv`), and
  there is at most one late request, which is counted until it arrives (`CountInv`).
- `CapacityLossBounded` (`[]CapacityWithinGiB`), without any hypothesis: a bound volume exists
  and is less than one GiB smaller than the CO was told and than it last asked for. The
  handlers round down, compare and report in different units, so it is not evident that the
  losses of a create, of its adoption by a retry and of later expansions do not add up.
- `CapacityIsTruthful` (`[]CapacityTruthful`), assuming `Whole`, that the minimum, the default
  and all sizes asked for are whole GiB; section 3 says what happens otherwise.

  Both come from one invariant with the loss `Lost` as a parameter, 0 if `Whole` holds and one
  unit less than a GiB otherwise. `SizeInv` says that a handler's size loses no more than that
  when it is cut down, `CapacityInv` that an answer on its way, and what the CO has recorded,
  is covered by the volume the API has up to `Lost`. It does not depend on `byName`.

The assumptions of the modules (`AttachmentAssumption`, `SystemAssumption`,
`NodeVolumeAssumption`, `CapacityAssumption`, `ProvisioningAssumption`,
`SnapshotsAssumption`, `ListingAssumption`, `LifecycleAssumption`) say what the constants
are: types, an identity that belongs to one machine, a staging path that is no target path,
a default between minimum and maximum. `SystemAssumption` also
says `MaxLate = 0`.

Model-checked only: the liveness properties (`UnpublishConverges`, `PublishConverges`,
`TeardownConverges`, `StageConverges`, `CreateConverges`, `DeleteConverges`, `ListingEnds`,
`StartServes`, `SignalEnds`), which are outside the prover's reach. Every safety property that
a passing run checks is proved.

## 5. Not modelled

Left out for good: constant tables (capabilities, identity), error
wrappers and wording, flag parsing, the mock mounter, the dead `kubeConfig` branches,
NodeGetVolumeStats. Requests refused before the first API call or command change nothing
and appear as no step. Mount options, filesystem types, labels and annotations are data
no property tells apart. ControllerExpandVolume writes back labels and annotations it has
read before; another writer's change in between is lost, but nothing promises otherwise.
The health check is one API call; it is present as a request that may outlast Shutdown.
Two nodes that both run their node service are not composed; the other node of `System`
is reduced to what this one can notice of it.

Seen while modelling, without a run of its own:
- a publish that is repeated after a timeout answers "already attached" while the volume
  is still attaching (`controller_attachment.go:110`), where the first call would have
  waited; the node service's own checks have to cope;
- a snapshot of an attached volume is asked for without looking at the volume's status,
  and the refusal is reported as Internal on every retry;
- ListSnapshots with an id that does not exist answers Internal, not an empty list;
- ValidateVolumeCapabilities confirms whatever it is asked;
- `--custom-labels` and `--custom-annotations` are declared but never passed on
  (`plugin.go:83`), and NewDriver drops `KubeConfig`;
- when Serve fails in a controller with a health server, the process runs on without
  serving and its health check answers that it is well;
- after a signal that comes before Serve, the command ends with an error.

## 6. Disagreements between code and documentation

1. `attachment_listed`: ListVolumes reports machine identities as published node ids,
   while a node's id is what it was started with, its name in `deploy/`. The driver
   announces LIST_VOLUMES_PUBLISHED_NODES, so a CO compares the two.
2. `node_no_validate`: exit status 2 of `blkid` also means "no devices have been found";
   with attachment validation off a device that appears in time for `mkfs -F` is formatted
   although it holds data.
3. `snapshots_source`: the answer takes the source volume's id from a field that is there
   only while the volume exists; it is empty when the volume is deleted during the wait,
   although CSI requires it and `SourceVolumeId` still has it.
4. `provisioning_retry`: CreateVolume looks for the volume of an earlier call by its name,
   with a GetVolume that the client documents as taking an identity. Under that contract a
   retry after a lost answer creates a second volume, where CSI asks for one per name. If
   `volume-identity` names no volume the same happens whatever GetVolume takes, since only
   that identity is looked up; and a late create makes two volumes in any case.

## 7. Plan

Done, in this order: `Attachment` and its proofs (who holds a volume is the property
data depends on), `NodeVolume`, `Capacity` and `Provisioning` with proofs, `Snapshots`,
`VolumeLease` and the refinement, `System`, `Lifecycle` and `Listing` with proofs, then the
proofs about `NodeVolume`, `Snapshots` and `System`, and the extent of the findings.

Left: what survives of `NodeVolume` with several handlers at a time besides
`UnmountReplyTruthful`, and late requests in `System`.
