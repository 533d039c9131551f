# Verification of AKS Flex

AKS Flex joins machines of other clouds to an AKS cluster. Its parts are a
Karpenter provider (`karpenter/`) that launches machines for NodeClaims, a
plugin (`plugin/`) that creates networks and agent pools in the clouds and keeps
a small database of what it created, and a CLI (`cli/`) that sets up the cluster
side. This directory holds TLA+ models of the parts that carry state through
concurrency and failure, TLC configurations that check them on small instances,
and TLAPS proofs of every safety property the passing runs check. `PROJECT.json` records, for every
definition, the source lines it stands for; paths below are relative to the
repository.

## Inventory

| Part | State | Operations | What is hard |
|---|---|---|---|
| Peer address allocator, `karpenter/pkg/utils/wireguard/allocator.go` | `preAllocated` (class → address → NodeClaim), in memory | `AllocateIP`, periodic `cleanup`, `AllocateRandomIP` | the cache shows an address long after it was given out; restarts; unsigned arithmetic |
| Nebius cloud provider, `karpenter/pkg/cloudproviders/nebius/` | none of its own | `Create`, `Delete`, `Get`, `List`, quota clean-up goroutine | several cloud calls per operation, each may fail, crash between any two |
| Plugin `Parent` server and Nebius instances, `plugin/pkg/server/parent.go`, `plugin/pkg/services/agentpools/nebius/instance/`, `plugin/pkg/util/nebius/resource.go` | disk and instance in the cloud, record in the database | `CreateOrUpdate`, `Delete` | order of record and resources, retry by name, deletion by ID |
| Plugin database, `plugin/pkg/db/` | list of objects as chunked Secrets or a locked file | `CreateOrUpdate`, `Delete`, `Get`, `List` | several API calls per write, chunk order, leftover chunks, processes sharing a file |
| Instance types, `karpenter/pkg/cloudproviders/nebius/instancetype/` | LRU cache, `activeKeys` | `GetInstanceTypes`, launch selection, refresh loop, `Stop` | lookups and stores without a lock from one to the other, partial price failures, eviction |
| NebiusNodeClass controllers, `karpenter/pkg/controllers/nebius/` | finalizer and status of the NodeClass | status and termination reconcile | stale caches, optimistic locks, requeues |
| Provider ID controller, `karpenter/pkg/controllers/nodes/` | `spec.providerID` of Nodes | reconcile | Node before launch returns, no event from the NodeClaim |
| Hub and kaito provider, `karpenter/pkg/cloudproviders/` | dispatch tables; a second allocator | dispatch, `Create`, `Delete`, `List` | one database under two schemes of provider IDs; a List that fails for one provider |
| Plugin services and their Nebius network, AWS and Azure back ends, `plugin/pkg/services/`, `plugin/pkg/server/`, `plugin/pkg/util/aws/` | stacks, scale sets, networks in the clouds; a record per object, all records of a service in one file | `CreateOrUpdate`, `Delete`, `Get`, `List` | every CLI process serves its own calls, so that nothing serialises two of them, and each rewrites all records of a service; long-running operations that are waited for, roll back or are cut; deletion by name or by recorded ID |
| CLI plugin and config commands, `cli/internal/plugin/`, `cli/internal/config/` | JSON files of the operators | `plugin apply`, `get`, `delete`; `config networks`, `config agentpools`, `config karpenter helm`, `config node-bootstrap`, `config k8s-bootstrap` | what is printed is redacted or has placeholders, and is applied again; a printed token may replace the one machines have |
| CLI deployment, `cli/internal/aks/`, `cli/internal/network/` | resource group, kubeconfig file, Secrets | `network deploy`, `aks deploy` | a run of many steps fails or is interrupted anywhere and is repeated with other flags; the gateway node and the current context change under it; helm and kubectl do not take the cluster from the same place |

How they interact: Karpenter core calls the hub, which calls the provider of the
NodeClass. `Create` picks an instance type from the cache, takes a peer address
from the allocator, and calls the plugin server in its own process, which creates
disk and instance and stores the record in the Secret database. The machine boots
with the address in its user data and registers a Node; the provider ID
controller copies the NodeClaim's ID to it, and Karpenter registers it. The
informer caches through which allocator and controllers see all this lag behind.
The CLI uses the same services: `plugin apply` and `plugin delete` start them in a
process of their own, over a database in a locked file that several processes may
open.

## Modules

| Module | Models | State and actions |
|---|---|---|
| `PeerCIDR` | `AllocateRandomIP` | the offsets and addresses of a CIDR, computed modulo `2^Width` as the code does modulo `2^32` |
| `IPAllocator` | `IPAllocator` within the life of a NodeClaim | `preAllocated` as in the code; `launch`, `claim`, `vm`, `nodeIP` and the informer cache around it. `AllocateIP` and `cleanup` run under one mutex and are one step each; `Create` is split where it waits for the cloud |
| `NebiusAgentPool` | hub, nebius and kaito providers → `Parent` → instance back end; Karpenter's garbage collection | one step per cloud or database call; `pc` says where the handler of a pool is. `List` feeds the garbage collection (`HubLists`), `Get` says whether a Node may be let go (`HubGet`). Disks are numbered because they are deleted by ID. `leaked` is a history variable: a `Create` was cut short and may have left something that is not on record |
| `ObjectDB` | what callers expect of `db.DB` | an atomic map: call, take effect, return |
| `SecretDB` | `StupidDB` over `secretStore` | the chunk Secrets, `db.mu`, one step per API call. `torn` is a history variable |
| `FileDB` | `StupidDB` over `lockedFileStore` | the file, `db.mu` per process, the flock, any number of processes that write; a process may die at any step. `done` (what finished calls wrote), `last` (the list the last write left) and `exposed` (objects another process or a crash may have undone) are history variables |
| `InstanceTypeCache` | instance type provider | cache with LRU order, `activeKeys`, per goroutine the entry it has in hand and how far it is in the loop that looks for the cheapest offering. Nebius' offer is a sequence of versions |
| `PluginObjects` | the objects of the plugin API and what is derived from them | message types by type, spec, secret and status; `Redact`; what the config commands print; on which of the data the user data and the parameters of a stack, a Nebius network or a scale set depend |
| `PluginServer` | `plugin apply`, `get` and `delete` → `Parent` → the AWS, Azure and Nebius network back ends | `call` is what each CLI process is serving; one step per database or cloud call, the clouds work on stacks and scale sets by themselves. A record is stored or removed in two steps, as in `FileDB`: `list` is what the call has read of its service and writes back, over what others have written since; a process that dies in the write leaves the file of the service empty. `goal` and `file` are what operators want. `pending` and `damaged` are history variables: types with something that may be off record (an apply that was cut or raced, a record that was replaced, undone by another process or lost with the file), and records whose resources a delete may have begun to remove |
| `NodeClassTermination` | both NodeClass controllers | the NodeClass, NodeClaims, their cached copies, work queues; the list and the patch of the termination controller may fail (`TermFails`) |
| `NodeProviderID` | `SetProviderIDController` | NodeClaims, Nodes, their cached copies, work queue and requeues |
| `NodeControllers` | `NewControllers` | composes the two over the NodeClaims and the cache they share |
| `AksDeploy` | `aks deploy` and `network deploy`, and the config commands that deal in the bootstrap token | the resource group, the current context of the kubeconfig file, the Secrets, the gateway node, the add-ons and the CNI's webhook; `run` is the run in progress with its flags and what it has in memory. One action per step of `run()`, each manifest and each chart included; any step may fail with or without its effect. `SwitchContext` is the operator in another window. `handed` is the usable tokens in files made for machines since the operator last applied the output of `config k8s-bootstrap`. `ready`, `stale` and `promised` are history variables |
| `IPAllocatorProofs`, `NebiusAgentPoolProofs`, `InstanceTypeCacheProofs`, `FileDBProofs`, `SecretDBProofs`, `AksDeployProofs`, `PluginServerProofs`, `NodeControllersProofs` | – | theorems about the modules they are named after |

`MC*` modules give constants their values. In each module a definition marked
"Mutant" is a plausible wrong version of the one that follows it; each property
is known to fail under one of them.

What is abstracted: names, payloads, labels, user data and error texts are left
out; a gzip blob is "all chunks of one version, in order", everything else is
unreadable (its checksum); the time of timers is left to fairness. Code outside the
repository (Karpenter core, controller-runtime, Nebius, kubelet) is modelled by
what this code relies on, and marked external.

## Runs

Passing runs:

| Run | Question | Bounds and why they are enough |
|---|---|---|
| `ip_allocator` | Is an address ever given to two machines, forgotten while in use, or never given back? Does `AllocateRandomIP` offer exactly the usable addresses of every CIDR? | two NodeClaims, two usable addresses: a retry exhausts the block. Launches fail before or after their machine came up. All CIDRs of three bits, /0, /31 and /32 included, with every set of addresses that is taken on the way. A third NodeClaim multiplies states but the conflict is between two; the proofs cover any number |
| `agent_pool` | Does a record stand for a running instance on its own disk, and outlive it? Does a deleted NodeClaim go and leave nothing, unless a `Create` was cut short? Do garbage collection and the release of Nodes spare running machines? | one Nebius and one kaito NodeClaim, all faults at once: crashes, timeouts, rejections, quota errors, failing deletions, clean-ups and lists. Three disks: one is made, dropped and made again twice. Pools of one kind meet only in the crash and in the list |
| `secret_db` | Is the database the atomic map `ObjectDB` (refinement)? Does it become unreadable only when a write of several chunks is cut short? | two goroutines, two objects, two values; the list fills one or two chunks, so writes grow, shrink and replace |
| `file_db` | Is a finished update lost to anything but a process that had read the list before, or a crash between Truncate and Write? Does a reader ever see a file that is being written? Does every call return? | two goroutines of one process and one of another that all write, one of which deletes too and one of which reads too; both processes die at any step, any number of times. Losses take two processes, and that goroutines of one process lose nothing takes two of them |
| `plugin_server` | Does a record nobody interfered with describe the cloud? Is anything left off record but by a call that was cut or raced, another process that wrote an old list back, or a file that was truncated and not written? Do repeated applies and deletes succeed? | two processes and six scenarios, by what the operators work on and whether a fault may happen: a network with three changes of mind (apply, change type or spec, delete, in any order), or with two and a fault; a pool with two and a fault; a network and a peering in it; two peerings, which share a file, with three changes of mind or with two and a fault. Files are written, printed by a config command, or printed by `plugin get` and perhaps edited. Eight IDs: with two processes there is always one that nothing refers to, so that no creation waits for an ID |
| `instance_types` | Are cached keys refreshed, launches the cheapest available, entries current again and again? | two keys, room for one (eviction), one caller against the refresh, one preset with two capacity types whose prices change once, one of them to the fallback price; listing and price failures, `Stop`. Listings of several presets are left to the proof |
| `node_controllers` | Is a NodeClass that has the finalizer released once its NodeClaims are gone? Does a Node that registers early get its provider ID, also when its NodeClass is on the way out, and none that its NodeClaim did not have? | a Karpenter Node and a foreign Node, each with a NodeClaim of its name; stale reads, conflicts, lists and patches that fail. With two Karpenter Nodes the states (1.3 million) are too many for a liveness check; they meet only in the NodeClass |
| `aks_deploy` | After runs that failed half way, does a `--wireguard` run that succeeds leave routes, associations and keys that belong together? Are the add-ons of a run in the cluster it has deployed? Are keys and a usable token ever replaced, and are the tokens in files for machines those of the cluster? Does every run end? | two operators, as the flags of the gateway and those of the add-ons have nothing in common but the order of the steps: one combines `--wireguard`, `--cilium` and `--skip-arm`, the other the add-ons and a kubeconfig file elsewhere. Two gateway addresses, three generated secrets: keys and token are generated, lost, and one of them generated again |

Runs in which the code departs from what the repository says of it:

| Run | Shows |
|---|---|
| `ip_allocator_restart` | A restart empties `preAllocated`; a machine that is still booting keeps its address, and the next launch may get the same one (`docs/usages/cli-plugin-nebius.md:150`: "each node must be assigned a unique peer IP from this range"). |
| `agent_pool_quota` | The quota clean-up calls `Delete` with a NodeClaim without a provider ID, which returns at once: the failed instance stays (`cloudprovider.go:178`). |
| `secret_db_many_chunks` | Chunks are sorted by name as strings; from the eleventh on Read puts them in the wrong order. The run counts in base 3 instead of 10, so that the fourth chunk is already one with a two-digit name. |
| `node_class_finalizer` | `ensureFinalizer` sends an empty patch, so the finalizer the termination controller relies on is never stored and a NodeClass goes under its NodeClaims. |

### Fairness

- `IPAllocator`: informers deliver, handlers and finalizers that can run do run,
  the clean-up ticker fires with a lookup in the local cache that succeeds. Nobody
  need create or delete a NodeClaim.
- `NebiusAgentPool`: Karpenter reconciles again (weak fairness of the handler);
  each step of a deletion that is retried for ever gets through in the end (strong
  fairness; Karpenter lets go of a Node whose machine `Get` does not find as part of
  the handler), since work queues retry failed reconciles with back-off and crashes do
  not always hit the same step. Nothing is assumed of creations.
- `AksDeploy`: a command that runs goes on, AKS brings up the node of an existing
  pool and the CNI controller, and a node that is replaced or a controller that fails
  again and again is seen in the end (strong fairness of the lookup, which is repeated
  every 15 seconds, and of `kubectl rollout status`, which waits without a limit). The
  operator need neither start nor interrupt a run.
- `InstanceTypeCache`: the ticker ticks and goroutines go on; a listing and a full
  pricing that the refresh asks for again and again succeed in the end (strong
  fairness per key). `Stop` ends the obligation.
- `NodeControllers` (and `NodeClassTermination` in its own run): work queues are
  served, requeues fire, informers deliver; a list or a patch of the termination
  controller that may fail is retried with back-off and succeeds in the end (strong).
- `PluginServer`: a process that serves a call goes on, and clouds end what they
  work on (weak). An operator repeats what has not succeeded: strong fairness of the
  start of a call, since a new process can be started whenever another one ends.
  Nobody need change their mind, and no fault need happen.
- `FileDB`: Go's mutex hands itself to the goroutine that waits longest, and a flock
  that comes free again and again is granted in the end (strong).

`SecretDB` is checked for safety and refinement only and assumes no fairness.

## Proofs

`IPAllocatorProofs` proves, for every set of NodeClasses and NodeClaims, every
address width and every choice of CIDRs:

- `TypeCorrect`: `Spec => []TypeOK`;
- `AccountingCorrect`: `Spec => []HeldAddressesAccounted`;
- `PeerIPsUnique`: `Spec => []UniquePeerIPs`.

- `AddressesUsable`: `Spec => []ReturnsUsableAddresses`.

The assumptions are those of the modules on their constants (each NodeClaim has a
NodeClass, each NodeClass a CIDR, the markers are not values) and
`PowersAssumption`: the arithmetic of powers of two up to the width (`2^0 = 1`,
`2^1 = 2`, all are positive, from the second on at least 4, and each divides
`2^Width`), because the provers do not know exponentiation. TLC evaluates it for the
width of the run.

`UniquePeerIPs` is not inductive: it says nothing of launches whose machine is
still to come, nor of what the cache shows. The inductive invariant `IInv` adds
`Lifecycle` (where in its life a NodeClaim can hold an address, that the places
which show one agree, and that a NodeClaim which holds one is in the cache, so that
`cleanup` keeps its entry), `HeldAddressesAccounted` (every held address is in
`preAllocated` or on a Node in the cache) and `HeldDisjoint` (no address is held by
two NodeClaims of a class). The argument: every held address is taken
(`HeldTaken`), `AllocateRandomIP` never returns a taken one (`FreeIPsFresh`), no
other step adds a held address (`HeldShrinks`), and an entry is dropped only when
the cache shows its address on its own Node, which disjointness gives
(`AccountedStep`).

`ReturnsUsableAddresses` is no matter of steps: it compares what the code computes
from a CIDR with what the CIDR means. The block of a CIDR is the interval that starts
at the masked address (`BlockInterval`, from division with remainder), the unsigned
offsets run from 0 or 1 to the size of the block less 1 or 2, also for /0, whose size
wraps around to 0 (`LoopOffsets`), and no address in between wraps around
(`UsableAddresses`).

`NebiusAgentPoolProofs` proves, for every set of pools of both kinds, every set of
faults and any number of disks: `TypeCorrect`, `PoolsBacked`
(`[]RecordedPoolBacked`), `RecordsOutlive` (`[]RecordOutlivesResources`),
`OrphansExcluded` (`[]NoOrphans`) and `CollectSpares` (`CollectSparesRunning`). The
inductive invariant says of each pool, by the step its handler is at: a running
instance is on the disk that exists (`RunsOnDisk`: the cloud refuses to delete that
disk, and so no other is made under its name); the disk a Create has in hand is the
one that exists (`DiskInHand`); Create works on pools without, Delete on pools with a
provider ID (`Roles`); a failed instance has a quota error on its way out or a
NodeClaim that goes (`FailedInstance`); what is on record is there (`Backed`), what a
launched pool has is on record (`OnRecord`), and what an unlaunched pool has was left
by a Create that was cut short (`LeftByCut`). Garbage collection follows: a running
launched pool is on record, and the hub lists all records or none. So does the
release of Nodes: what is on record is found by `Get`.

`InstanceTypeCacheProofs` proves, for any keys, callers, listings, prices and
requirements and any capacity: `KeysTracked` (`[]CachedKeysTracked`), `TypeCorrect`
and `CheapestLaunched` (`[]LaunchesCheapest`). For the first the invariant adds that
the refresh only works on keys that are recorded, since it stores entries and records
none. `TypeOK` says that the cache and its LRU order have the same keys, each once
(`TouchedFacts`: a key that is used moves to the front; `AddKeeps`: eviction drops
the last key with its entry). For the last it adds the invariant of the loop, for a
goroutine in the midst of it: the best so far is the cheapest eligible offering of
the instance types it has looked at (`CheaperKeeps`, `ScanKeeps`). The loop is
modelled turn by turn for this reason: what a fold over a sequence computes cannot
be proved here.

`FileDBProofs` proves `TypeCorrect`, `UpdatesKept` (`[]LostOnlyAcrossProcesses`) and
`ReadsCurrent` (`ReadsAreCurrent`) for any threads in any number of processes, all of
which may write. The invariant adds that a thread at work holds the `db.mu` of its
process, that the file is locked exactly while it is truncated and is the last list
that was written otherwise (`FileComplete`), and that what a writer has in hand
differs from the file only in objects that are exposed (`ListCurrent`).

`SecretDBProofs` proves `TypeCorrect`, `PanicsTorn` (`[]PanicsOnlyWhenTorn`) and
`Refinement` (`ImplementsObjectDB`) for any goroutines, objects and values under the
hypothesis `FewChunks`: there are finitely many objects and no list of them fills
more chunks than there are digits (ten in the code). Without it the theorems are
false, as `secret_db_many_chunks` shows; it holds in the instance of `secret_db`.
The invariant says that the client at work has `db.mu`, that between writes the
Secrets are exactly those of one list unless a write was torn (`Quiet`), and that
during a write they are a mixture of the list that was read and the one that is
written, split at the chunk the write has reached (`Writing`). Each API call then
is a step of the atomic map or none: a write takes effect with the call after which
the Secrets decode to what it writes, and until then they decode to the old list or
to nothing, which nobody is served.
`NoSecretAssumption` says that the marker of a missing Secret is not a Secret.

`AksDeployProofs` proves `TypeCorrect`, `GatewayWorks` (`[]GatewayServes`),
`AddonsReachCluster` (`[]AddonsInstalled`) and `SecretsKept` (`SecretsStable`) for any
gateway addresses, any command lines and any number of runs. What makes them inductive
is what a run has in memory: the token and keys in hand are those of the cluster, if
it has any, through all steps between the lookup and the application (`TokenInHand`,
`KeysInHand`), each step of `deployWireGuard` that is behind a run is still in force
(`Progress`), each add-on that is behind a run and reaches its cluster is installed
(`AddonsDone`), and the current context is the cluster's until the operator switches
it (`ContextKept`). The lemmas on `Steps` say which step follows which under which
flags. The tokens handed out are all the cluster's, because a usable one is not
replaced while there are any.

`PluginServerProofs` proves `TypeCorrect`, `RecordsBacked` (`[]RecordBacked`) and
`NoneOrphaned` (`[]NoOrphans`) for any number of processes, objects and faults and
every schedule of operators and clouds, with records that are read and written back as
lists. The assumption on IDs (`IdsAssumption`: clouds do not run out of them) is what
makes a fresh one exist. The properties speak of what is left when calls have ended.
The invariant adds, for a call that has been alone with its object, what it has done
so far at each step (`ApplyOK`, `DeleteOK`); that a type is pending while an apply of
it works, and a record damaged while a delete does; that a record in a list which a
call is about to write back is the record of the database, or of a type that is
pending (`ListKnown`); that what exists is on record or pending (`Covered`); and that
the record of a Nebius network has the IDs of what is there (`NebiusKnown`), because
it is deleted by them. One lemma, `MovesKeep`, says which changes of resources a
working call may make (`Moves`) and that such steps keep the invariant; each action is
then shown to be one.

`NodeControllersProofs` proves, for any NodeClaims and Nodes, `TypeCorrect` (the
NodeClass has at most one write for its creation, its readiness and its deletion) and
`IDsFromClaims` (`[]IDsComeFromClaims`; the invariant adds that a cached NodeClaim
never is ahead of the API server's, and what a reconcile has read before it patches).

Only model-checked: the liveness properties (`StaleAddressesReleased`,
`DeletionCompletes`, `CallsReturn`, `RunEnds`, `ApplyCompletes`, `DeleteCompletes`,
`CacheBecomesCurrent`, `TerminationCompletes`, `NodeGetsProviderID`), since the
provers do not treat fairness.

## Assumed, and seen without a run

- A machine whose `Create` failed after it came up, and whose NodeClaim goes
  before a retry, is left running without a record; its address is released.
  `UniquePeerIPs` speaks of machines whose NodeClaims exist.
- After a quota error followed by a crash before Karpenter has deleted the
  NodeClaim, a retry finds the failed instance by name and records it as launched.
  `RecordedPoolBacked` excludes this case.
- A kaito launch never succeeds: `nodeClaimToNebiusAgentPool` of the kaito provider
  gives no Kubernetes version and the back end refuses a pool without one
  (`agentpools.go:57`). Each attempt takes a peer address before that.
- `network deploy` after `aks deploy --wireguard` takes the route table off the
  subnets, and a second `aks deploy --wireguard` empties the routes until it has
  found the gateway. With `--skip-arm` and without the gateway pool, `--wireguard`
  waits for ever. Two operators at the same time may generate two key pairs.
- Two processes that share a database file can undo each other's updates: the flock
  is released between read and write, although `filestore.go:18` says that it
  serializes across processes. `LostOnlyAcrossProcesses` names this loss and
  `PluginServer` has it happen: a process that stores the record of one object takes
  another's off record, or puts back one that was deleted.
- A crash between truncating and writing the file leaves an empty database, which
  works on; everything recorded before is orphaned. Both models have it.
- The output of `config k8s-bootstrap` has a new random token under the token ID of
  `aks deploy`: applied over its Secret it cuts off machines that are to join with the
  old one. helm takes the cluster from the default kubeconfig file, so that charts go
  elsewhere with `--kubeconfig` set or the context switched meanwhile. Two commands of
  one operator are not modelled at the same time.
- `plugin delete` of an object without a record does nothing: what an apply made that
  was cut before its record was stored stays (`NoOrphans` of `PluginServer` excludes
  it, by `pending`). So does what is left when an ID is applied again with another
  type, and after an apply and a delete at the same time. A change of region or of
  the resource ID of a scale set has the shape of a change of type.
- A stack whose creation rolled back, or whose deletion failed, is found by
  `DescribeStacks` and only ever updated, which CloudFormation refuses: applies fail
  until somebody deletes it (`Stuck` in `ApplyCompletes`).
- The Nebius network back end deletes by the IDs in the record. What a later apply
  made and did not record is missed, keeps its parents in use and the delete from
  succeeding (`DeleteCompletes` excludes it).
- `nodeLabels` orders labels at random, so that applying an unchanged AWS agent pool
  may update its stack, and replace its machine.
- What `plugin get` prints is redacted; applied again it deploys a pool without a
  token.
- A refresh in which single prices fail replaces a fully priced entry, where the
  comment at `instancetype/provider.go:400` speaks of keeping stale data.
- A cost that is empty or does not parse becomes the fallback price of an available
  offering.
- NodeClasses with overlapping CIDRs, and the kaito provider's own allocator, do not
  see each other's addresses.

## Not modelled

- The fields of translated objects.
- The instance services of agent pools (`virtualchild.go`, `instances.go`): nothing in
  the repository calls them.
- The text of bootstrap data, cloud-init and kubeadm configuration, and of the
  templates of stacks: only which data it depends on is modelled
  (`PluginObjects`).
- The text the config commands for karpenter, k8s-bootstrap and node-bootstrap print,
  but for the bootstrap token; `config env`. Option parsing and start-up wiring: runs
  once.
- The gRPC code generated from the protocol definitions: a call is a call.

## Plan

1. Done: allocator, agent pool with hub and kaito provider, databases, instance
   types, the controllers and their composition, deployment commands, the plugin
   services with all back ends, and theorems for all their safety properties.
2. `Launch`, a composition of allocator and agent pool: the addresses of machines
   whose `Create` was cut short.
