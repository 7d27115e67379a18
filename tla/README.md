# A verification of kubectl-resource-view

`kubectl resource-view node|pod` prints a table of the usage, the requests and
the limits of the nodes or pods of a Kubernetes cluster. The program is a
one-shot command, but what it does between its first request and its table is
concurrent and racy: one goroutine per row, a channel, a deadline, two rate
limiters, and a cluster that changes between any two requests. This directory
models it in TLA+, checks it with TLC and proves its safety properties with
TLAPS. There are no tests in the repository; what its README, its flags and its
comments say is all the specification it has.

## 1. Inventory

| Part | Source | State | Operations | Model |
|---|---|---|---|---|
| what both fan-outs share | `pkg/kube/kube.go` 131-276, 286-391 | context, `resultChan`, `firstError`, `resultMap`, rows; a row and an error per goroutine | sort, start, begin, one type, send, collect, rebuild, return, cancel | `FanOut` |
| node fan-out | `pkg/kube/kube.go` 56-96, 108-277, 405-432; `resource_node.go` 141-179 | NAME, map of nodes | discover, list metrics, list nodes, read pods, read metrics again | `NodeResources` |
| pod fan-out | `pkg/kube/kube.go` 99-105, 279-392, 435-463; `resource_pod.go` 162-212 | query, the samples listed | discover, list metrics, get the pod | `PodResources` |
| API client | `pkg/kube/kube.go` 33-53 | a token bucket per client | reserve, wait, refuse, send, refill | `Throttle` |
| requests of a pod | `pkg/kube/resource.go` 490-541 | `reqs`, `limits` | add a container, compare an init container, add the overhead | `PodRequests` |
| allocation of a node or pod | `pkg/kube/resource.go` 149-484; `common.go` | totals, summed samples, cells | merge a pod, add a sample, show a resource | `Allocation` |
| rounding, percentages, marks | `pkg/kube/common.go` | none | `calcPercentage`, `ExceedsCompare`, `String` | `Quantities` |
| command line and columns | `main.go`, `pkg/util/error.go`, `cmd/*`, `pkg/writer/tablewriter.go` | options, stage, request, columns of rows and heading, messages, exit status | execute, complete, validate, parse, discover, ask, columns of a type, render, fail | `Command` |
| characters of a cell, borders, help texts | `common.go`, `tablewriter.go` 94-111, `root.go`, `pkg/util/usage.go` | none | formatting | not modelled |
| API server, metrics server, client-go | outside the repository | nodes, pods, samples | changes by other clients, replies | `Cluster` and the API calls of the fan-out modules (external) |

The main goroutine calls the API server through client-go, starts the row
goroutines, and meets them only in the buffered channel and through the
context. The goroutines share the map of nodes (only read), the two clients
and nothing else. The allocation functions are pure; a goroutine calls them
once per requested type. The table is written after everything else has ended
well; a message may be printed before.

What is hard: answers in any order; the deadline at any moment, racing ready
answers; a goroutine that outlives the collector; one failing request of many;
a cluster that changes between the metrics list, the node list, and the
goroutines' own requests; limiters that refuse instead of waiting; two loops in
two packages that must make the same columns; rounding at thresholds; what the
user is told of all this. `PROJECT.json` lists these as hazards, at their lines.

## 2. Modules

```
Cluster   FanOut ---- Promise: Gather      Quantities     Gather
     \   /  |  \                               |             |
  NodeResources  Throttle                 PodRequests     Command
  PodResources                                 |
                                           Allocation
```

* `Cluster` (external): the Node and Pod objects and the changes other clients
  make to them. A pod is created pending, is bound once, completes, is deleted;
  another object of the same name may follow. Deleting a node leaves its pods.
* `Gather`: what `GetNodeResources` and `GetPodResources` promise, without
  goroutine, channel or map: names become known once, each name's row is made at
  most once, and there is one answer - all rows in the order of the names, or a
  failure that happened, or a time-out after the deadline.
* `FanOut`: the scaffold of both calls, over any set of names and any rows. One
  action per iteration of a loop and per channel operation. `CollectDone` and
  `CollectResult` are the two cases of the `select`, both enabled when both are
  ready; `Arrange` is the sort (any order of equal samples, since `sort.Sort` is
  not stable); `StartAll` makes the channel and starts the goroutines; `Send`
  blocks while the buffer is full; `KeyOf` is the key of the answer in the map,
  made of namespace and name (nodes have but one namespace). The properties of both commands are stated
  here once, `KeepsPromise` (it implements `Gather`) among them. Its actions
  leave the variables of the modules above it free: those say what becomes of
  them.
* `NodeResources`: `RunResourceNode` from the discovery on, and
  `GetNodeResources`: the API calls of the main goroutine (`Discover`, before the
  context is made; `ListMetrics`, `ListNodes`) and of a worker (`WorkerPods`,
  `WorkerMetrics`), over a changing `Cluster`. `resampled` remembers, for one
  property, which nodes were sampled after the sort.
  `GetActivePodByNodename` includes the zero `Node` of a missing map entry.
* `PodResources`: the same of `RunResourcePod` and `GetPodResources`, whose
  goroutines keep the sample they were started with, and whose discovery runs
  inside the thirty seconds but is not bound by them. (The selectors of both
  commands, and the errors of parsing them, are in `Command`.)
* `Throttle`: the fan-out again, for either command, with the limiters that
  `NewClient` sets up between a call and the server. There are two clients, made
  from one configuration but with a limiter each: the metrics client and the
  main one. A call is `Reserve` (a token, or the promise of one), `Go` (when it
  has come) and the answer; or `Refuse`, when the token would come after the
  deadline; or `GiveUp`, when the context is done. A `Tick` is the time in which
  one token comes. The server here always answers, so that the refusal is the
  only error that is not the context's: what fails, fails for the limits.
* `Quantities`: resource lists, rounding, percentages and marks, as operators.
* `PodRequests`: `PodRequestsAndLimits` as three loops, a scaffold.
* `Allocation`: `getNodeAllocatedResources` and `getPodAllocatedResources` as
  loops that run `PodRequests` step by step for one pod after the other. The
  reference definitions (`EffectiveRequest`, `EffectiveLimit`, `Required`,
  `Permitted`, `Used`) are closed forms, sums (`Total`) and a maximum for each
  resource, that share nothing with the loops over lists of resources.
* `Command`: from the arguments to the exit status: the subcommand, refusals,
  selectors, discovery, the request made, the call, the messages, and the
  columns that rows and heading get for each type. The call is any
  implementation of `Gather` (`Call == INSTANCE Gather`), which both fan-outs
  are proved to be: that is how the parts compose.
* `*Proofs`, `FanOutPromise`: theorems, section 4.
* `MC*`: small instances. Operators named `Mut*` are plausible bugs; they stand
  before the definition each would replace and nothing else uses them.

Abstractions. An object is its identity. A row of the fan-out modules is what
was read for it (pods charged, usage or sample shown, number of types done);
its cells are in `Allocation` and their number in `Command`. A sample is one
number, the one sorted by. A quantity is a natural number of small units,
`Scale` of which make a unit that `MilliValue` or `Value` counts, and `Mebi` of
those make 1Mi: `resource.Quantity` is exact and rounds up only when shown. A
percentage is a number of hundredths; the float arithmetic is the nearest
hundredth, with either neighbour on an exact half. An API call is one step, at
the moment the server answers (but in `Throttle`). While the context is live it
may succeed, fail, or never return; afterwards it fails with the context's
error. A selector is absent, good or malformed; a NAME is there or not. The error of
the allocation call, which the nodes log and pass over and the pods send
(`kube.go:180`, `327`), is left out, since `PodRequestsAndLimits` never fails.

## 3. Runs

| Run | Instance | Shows |
|---|---|---|
| `NodeChurn` | 2 nodes, 1 pod; nodes and pods change | types; rows of known nodes charge only pods that were bound to them |
| `NodeFanOut` | 3 nodes, 2 types, sorted; cluster at rest | room for every answer, answers accounted for, the collector never waits for nobody, complete rows in order, no swallowed error, genuine errors; implements `Gather` |
| `NodeLive` | 2 nodes, 2 types; samples change | the command, once the discovery has answered, and all goroutines end |
| `NodeGhostRow` | 2 nodes, 1 pod; nodes change | violation: a vanished node is charged unbound pods |
| `NodeStaleOrder` | 2 nodes; samples change | violation: two nodes, sampled since the sort, out of the order of the usage shown |
| `NodeSteadyOrder` | 3 nodes, sorted; samples change, after the sort of one node only | nodes that were not sampled since the sort are in order among themselves |
| `PodChurn` | 3 pods under 2 keys of 2 namespaces; pods change | types; usage and limits of one pod unless it was deleted; implements `Gather` |
| `PodFanOut` | 2 pods of the same name in 2 namespaces, 2 types, sorted; samples change | the collector never waits for nobody, complete rows, no swallowed error, genuine errors, usage order; the command and all goroutines end |
| `Throttle` | up to 3 names, either command; burst of 2, one more token before the deadline | types; up to the burst nothing waits or is refused; past burst and deadline nothing succeeds; a refusal never ends the command early; implements `Gather` |
| `Allocation` | four families of calls, below | effective requests and limits; limits bound requests; exact totals; excess is red; over 100% is excess; no mark without cause |
| `Command` | both commands, no command, `--version`, an unknown one; up to 2 arguments, every `--type` of up to 2 parts, good and malformed selectors; up to 2 names | heading fits rows, a row shows the types asked for, selectors applied (but a field selector with a NAME), exit status and messages true |
| `NodeDefaultHeader` | the same | violation: the default rows of the nodes have a column without heading |

Bounds. Three goroutines are enough for every pair of them to be ordered both
ways around the deadline and a third one's failure, and for the channel to hold
none, some or all answers; nothing in the code depends on a larger number. One
pod is enough where it is charged, since pods are charged independently. Two
keys with the same name in two namespaces are the case the key of the result
map is for; three objects under two keys let one be recreated. Usage is 0 or 1,
enough for an order and for ties (`MaxUsage`). In `NodeSteadyOrder` one node of
three is sampled after the sort (`MCOneResampled`): the property is about pairs of
the others, so that a second one would leave no pair.

The limiters are scaled down from 100 and 30 s x 50/s to a `Burst` of 2 and a
`Limit` of 1 tick. Nodes take one metrics and one main request each and the
lists one of each client: with one name nothing waits, with two a request of
each client waits for the tick, with three one is refused. Pods take one main
request each, and their list a metrics one: two are free, the third waits.

The families of `Allocation` are: every pod of 1-2 containers and 0-2 init
containers with requests and limits of 0..2 small units or none; up to three
pods of ten shapes on five nodes, whose requests sit below, on and above 90%,
95% and 100% of a capacity of 200 and of 20000 units (the second so that one
unit is less than a hundredth of a percent), with and without Allocatable; pods
whose limits are none or about 200 units, with up to three samples that do the
same; and calls for each of the types, with samples of other nodes. `Scale` is
2, so that quantities fall between units, and `Mebi` is 7.

Symmetry of nodes, of pods and of names is used where there is no liveness property
and the constants do not tell them apart. Deadlock is not checked because a command that has ended stops.

Fairness (`FairSpec`). The timer fires; a goroutine that can take a local step
or a channel step takes it; a call returns once the context is done, which is
what client-go does for requests made with a context. A call made while the
context is live is given no fairness: it may hang. The discovery has no context
and may hang for good, whatever the thirty seconds: `Returns` says only that the
command ends once the discovery has answered, for the nodes, whose context is
made after it, as for the pods, whose context is made before. Nothing is assumed of the cluster, and the random
choice of `select` is free. A request that waits for its token is to the command
a call that has not returned, so that `Throttle` needs no liveness of its own.

### What the violation runs say

* `NodeGhostRow`. Rows come from the metrics list. A node that is gone from
  the node list is looked up as the zero `Node`, whose name is empty, so
  `spec.nodeName=` selects the pods bound to nothing; the row charges them to
  the node, with capacity 0 (`kube.go:156`), where the README promises what
  `kubectl describe nodes` shows.
* `NodeStaleOrder`. `--sort-by` sorts by one reading, each goroutine shows
  another (`kube.go:163`). The property is of nodes that are in the node list, so
  that it takes a sample between the two readings to break it; the row of a
  vanished node, which shows 0, is not counted. `NodeSteadyOrder` is the other
  side: the rows of nodes that were not sampled in between stay in order.
* `NodeDefaultHeader`. The default rows have 17 columns, their heading 16
  (`tablewriter.go:41`); with every type named there are 17 of each.

Also met, without a run: a NAME is fetched by a Get that takes no selector
(`kube.go:443`), and `Validate` refuses `--selector` with a NAME but lets
`--field-selector` pass (`resource_pod.go:147`), so that the query is ignored
(`SelectorApplied` makes an exception of it);
`pod NAME -A` can only fail, since client-go refuses a Get without namespace
(modelled); the pod command reports a time-out as the raw error
(`resource_pod.go:207`; `TruthfulExit` asks the better message of the nodes only).
And with more nodes than the limiters let through in thirty seconds, a refusal
("would exceed context deadline", not a `DeadlineExceeded`) is among the errors
collected, but the collector waits for every answer, and somebody's promise is
for the last tick. So `NeverRefusedEarly` holds: which message is printed, "operation timed
out - too many nodes or slow API response" or the limiter's, is a race at the
deadline itself, in either case after the thirty seconds.

What a percentage without room (no capacity, no limit) should be is said nowhere;
the code shows 0 (`common.go:36`), and no property judges it.

## 4. Proofs

Every safety property that a passing run checks is proved for all values of the
constants that the modules' assumptions allow; only liveness is left to TLC. The assumptions are the ASSUMEs of the
modules: finitely many names, told apart by namespace and short name, at least one type
(what `strings.Split` gives), distinct special values, rows with a name and a number of types; for `Throttle`,
a burst of at least 1; for `Allocation`, calls as the API server lets them be
(`IsCall`): a container requests what it limits and no less, and does not limit
"pods", which is not a resource of containers.

**The fan-out, once for both commands (`FanOutProofs`).** `FanNext` is what is
left of a command's steps when only the variables of `FanOut` are looked at. No
property is inductive as it stands; the inductive invariant `FanInv` is a
conjunction of ideas:

* `NotYet`, `Phases`, `WorkersStarted`: what has not happened before each phase;
* `Enumerated`: the list names some of the items, each once, so that a name is a
  row and a goroutine;
* `Workers`: goroutines run only for listed names, and fail at most once;
* `Faithful`: an answer in the channel, or a row in the map, is that of a
  goroutine that is done;
* `AnswersAccounted`: channel plus collected equals goroutines done - the count
  from which room follows: a goroutine about to send is not done, so that fewer
  than all the slots can be taken;
* `Accounted`: a done goroutine's answer is in the channel, in the map, or was
  an error that `firstError` remembers; hence, when all answers are collected
  and `firstError` is nil, every name is in the map;
* `Rebuilt`: the rows so far are the map's, in the order of the names;
* `Finished`, `ErrorsGenuine`: what an outcome and an error imply.

The same count gives `SomebodyAnswers`: with the channel empty and every goroutine
done, as many answers have been collected as there are names, so that the loop is
over. The collector is held up by calls, never by the hand-over of answers.

**Refinement (`FanOutPromise`).** Under `FanInv` every step of `FanNext` is a
step of `Gather` or a stutter: starting the goroutines is `Ask`, the last type of
a row is `Find`, a failing call is `Break` or, in the main goroutine, `Respond`,
`Deadline` is `Expire`; the rest stutter. So what is proved of `NodeResources`,
`PodResources` and `Throttle` is only that their steps are steps of `FanNext`.

**Nodes, pods (`NodeResourcesProofs`, `PodResourcesProofs`, with
`ClusterProofs`).** The properties of `FanOut` and `KeepsPromise` of both; and,
under any change of the cluster,

* `KnownRowsAlwaysChargeOwnPods`: from `RowsCharged`, that a pod read for a node
  was bound to it, completed or deleted since, which no change undoes;
* `SteadyRowsAlwaysInUsageOrder`, whatever else is sampled: from a further
  invariant that nodes not in `resampled` still have, and their rows show, the
  samples sorted by;
* `RowsAlwaysPairOnePod`: from `SamplesRan` (a sample is of a pod that has run
  under its name), `NamesUnique` and `RowsPaired`;
* `AlwaysShownInUsageOrder` of the pods, whatever is sampled: from `Arranged`.

**Rate limits (`ThrottleProofs`).** `Stages` says whose token of which client is
taken, by where each goroutine is: nobody takes two of one client. `Balanced` are
the books of a limiter: tokens left and tokens taken make up at least the burst
and at most the burst and the ticks gone by; a promised token comes when the debt
is paid, and while tokens are owed, the caller of the last one waits for it.
`RefusedLate`: a refusal means that the next token would come after the deadline,
so that the last one before it is promised to somebody, whose request waits till
the last tick; until then the collector waits for that answer. From these:
`BurstAlwaysFree` (with at most `Burst` takers there
is always a token, so nobody waits or is refused, at any burst and deadline);
`TooManyAlwaysFail` (every row took its tokens, of which there are at most
`Burst + Limit`); `RefusedOnlyLate`; `PromiseKept`.

**Numbers (`AllocationProofs`).** Lemmas on rounding: units round up and keep the
order, a percentage is within half a hundredth of the ratio. `ExcessAlwaysRed`
follows from the order (an excess, rounded, is still a full 100%, far above 95%),
`MarksAlwaysReal` from the distance: a ratio of whole units at or below 95% is
printed at or below 95.00%. Both hold for all quantities, units and pods.
`LimitsAlwaysBoundRequests` needs no closed form of the sums: `Bounded`, request
within limit, is kept by a sum, a maximum and the overhead.

The other four say that loops compute what a definition says, for a list of any
length. The definition is a recursive function on `0..m`, `Total`; that it is
defined at all, and has the value of the sum before it plus one more (`TotalStep`),
takes an induction. The provers cannot instantiate the induction theorems of the
library, which take an operator; but a *set* of positions is a first-order value,
and `Induction` - a set that has 0, and with k < m also k + 1, has all of `0..m` -
follows from the finite sets: the positions up to which everything is in the set
have a last one (`LastPosition`), which can only be m. Existence (`SumsExist`), uniqueness
(`SumsUnique`) and range (`TotalIs`) of the sums are inductions of this form, and
the maximum with the init containers (`Passed`) is taken one at a time in the same
way. Then the invariant says where each loop stands: `Ordered` (containers before
init containers), `PassesExact` (`reqs` and `limits` are what the containers and init containers
passed so far need, and the effective amounts once the overhead is in), `SumsExact` (the totals are those of
the pods merged, the usage that of the samples added), and `PodsUnlimited` (the
count of pods is never mixed with a limit). At the end of the loops these are
`RequestsAlwaysEffective` and `LimitsAlwaysEffective`; `TotalsAlwaysExact` follows
since a cell is made of the finished sums; and `OverHundredAlwaysExcess` since a
percentage over 100 is of more units than there are (`AboveIsAbove`), hence of a
larger quantity, whose closed form is by then known.

**Command line (`CommandProofs`).** `NothingYet`, `Validated`, `Answered`,
`Announced`, `Silent` and `Ended` say what each stage knows and has printed; they
give `SelectorAlwaysApplied` and `AlwaysTruthfulExit`, for
any values of `--type` and any implementation of `Gather`. For
`KnownHeaderAlwaysFits` the two loops over the types are related without an
induction: the invariant says that there is a sequence of concatenations, one
for each number of types done (`Concatenates`), whose k-th is the row so far;
the heading is then the k-th of the same one, since the columns of the types
offered are the same on both sides (`SameColumns`), and no row is found before
it has all its columns (`RowsMade`). For `TableAlwaysAsAsked` the invariant
(`RangeMade`) says which columns the first k types have brought, as a set; the
types of a table are those of the flag (`Chosen`) and all offered (`Validated`),
and the default case has the columns of all (`AskedIsShown`).

Only model-checked: liveness (`Returns`, `NoGoroutineLeak`). It needs ENABLED, of
which the prover knows nothing, and for `Returns` a temporal induction over the
answers collected.

## 5. Not modelled

* The characters of a cell ("m", "Mi", "a/b", colour codes) and of messages.
* Layout: borders, alignment and wrapping of the table (`--no-format`).
* Help and usage texts. That help or the version is shown, and with which status,
  is in `Command`; the templates of `usage.go` are used nowhere, since
  `root.go:73-74` are commented out.
* Label and field matching, which the API server does.
* Conversions between versions of the metrics API, which fail only on
  programming errors.
* `PodMetricses` (`kube.go:395`), which nothing calls.
* A data race: there is none to model. The loop variables are arguments of the
  goroutines, and the maps they share are written before they start.

## 6. Plan

Done, in this order: `Cluster`, `Gather` and the fan-out over nodes with its
invariant and refinement; the fan-out over pods, and the scaffold of both with
the proofs that serve both; the allocation of nodes and pods over one another's
sums; the command line from arguments to exit status over `Gather`; the rate
limits; the proofs of `CommandProofs`, `AllocationProofs` and `ThrottleProofs`;
the induction over positions, and with it the closed forms of the sums.

Left: a `Throttle` instance over a cluster that changes, once a run of it fits in
minutes.
