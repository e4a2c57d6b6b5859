# GreenCloud in TLA+

GreenCloud extends the NS-2 network simulator with a cloud data center: users submit tasks, a
scheduler places them on hosts or virtual machines, tasks travel as packets, compute on cores,
and their output travels back.  This directory is a formal model of the C++ code in
`src/ns2/greencloud/`, of the patch it makes to the TCP agent of NS-2
(`src/build/ns-2.35/tcp/tcp.cc`) and to its classifier
(`src/build/ns-2.35/classifier/classifier.cc`), of the page that shows the results of a simulation
(`src/src/dashboard/`), and of the search panel of the documentation that is shipped with it
(`src/docs/html/search/search.js`).  Paths below are relative to `src/src/ns2/greencloud/` unless
they start with `src/`; `dashboard.js`, `graph-definitions.js` and `search.js` are the files just named.  The Tcl scripts in `src/src/scripts/` configure a simulation; they are read as
the environment.

The simulator is single-threaded: one event handler runs to completion before the next one starts.
Nothing is preempted inside a handler, so one handler is one action.  All the nondeterminism is in
the order of events (packet arrivals and losses, wake-ups, deadlines, submissions, acknowledgements,
migrations), and that order is what the models explore.  The two pages are single-threaded too: their
events are the statements of `init`, keys, clicks, timers and documents that finish loading.  There a
handler that moves the focus runs other handlers inside itself, and an exception ends one half-way.

## Inventory

| component | state | operations | talks to |
|---|---|---|---|
| `DataCenter` | scheduler, provider lists, `tskSubmitted_`, `tskFailed_` | `receivedTsk`, `setScheduler`, `migrateVm`, `computeLoad` | users submit; the scheduler picks; the provider's agent sends |
| `CloudUser` | `id_` counter, generated tasks | `createTask`, statistics | calls `DataCenter::receivedTsk` |
| schedulers (`dcscheduler/`) | none | `scheduleTask` (Green, RoundRobin, Random, RandDENS, BestDENS, HEROS) | probe or test providers, read their load |
| `TskComAgent`, `TskComSink` | sequence number, byte counters | `sendmsg`, `recv` | carry the task pointer to the provider |
| `ResourceProvider` (`DcHost`, `VM`) | capacities, hosted VMs, counters, one wake-up event | `recv`, `handle`, `nextEvent`, `tryToAllocate`, `releaseAllocation`, `trySchedulingTsk`, `addVM`, `removeVM` | its core schedulers, its output agent |
| `CoreScheduler` | execution list, in-fly list, `current_mips_`, hosted vcores | `startTaskExecution`, `updateTskList`, `removeCompleted`, `getMostUrgentTaskRate` | calls back `CloudTask::fail` and the provider's `nextEvent` |
| `CloudTask`, `TaskAlloc` | flags, remaining MIPS, rate, deadline | `fail`, `updateMIPS`, `execTime` | core, provider |
| `ProviderOutAgent`, patched `TcpAgent`, `TskOutSink` | message queue, `current_pointer_`, sequence numbers, window | `sendmsg`, `tryToSend`, `send_much`, `recv` | output of completed tasks |
| `VmMigration`, `VmMigrationSink` | target, `seq_expected_` | `startMigration`, `recv`, `finalizeMigration` | two providers, a TCP transfer |
| `DcHost` energy, `powermodel/` | `eConsumed_`, `eCurrentConsumption_`, `eLastUpdateTime_` | `eUpdate`, `setCurrentConsumption`, `estimate` | called by every change of allocation |
| `SwitchEnergyModel` | ports, rate, last sample, sleep timer | `start`, `stop`, `updateEnergy`, `timeout` | called by the patched classifier |
| `DcRack` | `link_load` | `updatestats` | read by the DENS and HEROS scores |
| dashboard (`dashboard.js`, `graph-definitions.js`) | `groupedData`, two id counters, the boxes of the page | `init`, `drawChart`, `createGraphContainer`, `showPieChart`, `show_description` | reads `data.js`, written by `postProcessTraceFiles.sh` from the traces of each simulation; draws with flot and jQuery UI |
| `SearchBox` (`search.js`) | `searchActive`, `lastSearchValue`, `searchIndex`, two timers, three windows | `OnSearchFieldChange`, `OnSearchSelectKey`, `OnSelectItem`, `Search`, `Activate` | the browser's focus, timers and frame; calls `NavNext` of the page in the frame |
| `SearchResults` (`search.js`) | which rows match and are unfolded, `lastKey`, `repeatOn` | `Search`, `Nav`, `NavChild`, `Toggle`, `ProcessKeys` | calls `CloseResultsWindow` of the box and moves the focus to its field |

### How they interact

1. `CloudUser` creates a task and calls `DataCenter::receivedTsk`, which asks the scheduler.  Green
   *places* the task at once: `trySchedulingTsk` walks the providers and their cores, tests memory
   with an allocation it releases again, sweeps each core, and puts the task on the *in-fly list* of
   the first core with enough MIPS.  BestDENS and HEROS only test providers
   (`testSchedulingPossibility` puts the task on a core and takes it back).  RoundRobin, Random and
   RandDENS look at nothing.
2. The task travels as a burst of packets; the first carries its pointer.
3. `ResourceProvider::recv` places the task if nobody has yet, reserves memory, and starts *every
   task with that id* on the in-fly lists of all its cores; or it refuses the task.
4. A core sweep (`updateTskList`, `getMostUrgentTaskRate`) removes the tasks that are done and
   fails those whose deadline has passed; it runs on arrivals, on probes by the scheduler and on the
   provider's one wake-up event.
5. The output of a completed task is queued in `ProviderOutAgent` and leaves over TCP.  A pointer
   added to the agent rides on the last packet; when it arrives, `TskOutSink` records the exit and
   asks the agent for the next output.
6. A script may move a VM: `VmMigration` reserves room on the target, transfers the memory over TCP,
   and its sink finalises: the VM, its vcores and its agents change host.
7. When a simulation has ended, a script turns its trace files into `data.js`.  The dashboard draws
   one tab for each simulation, all with the same list of statements and with counters, groups and
   ids shared by all tabs.
8. In the documentation, the search box sends a frame to a page of results, and the keyboard moves
   between the field, the list of filters and that frame.

### What is hard here

* The same task can be met by several events in any order: its packet, a probe by a scheduler on
  behalf of another task, a sweep, its deadline.
* One core sweep, run for another task, may fail or complete many tasks, and calls back into the
  data structures it iterates over.
* Memory is reserved in one event and released in another, through `started_`, which is not set by
  the event that reserves.
* There is one wake-up event per provider for all its cores; each core may move or cancel it.
* The power is recomputed in many places, and the elapsed time must be billed before.
* An output channel is driven from two ends, and its pointer must survive retransmission.
* Migrations reserve, transfer and commit; several can be under way, of one VM too.
* The dashboard keeps its data in the arrays it iterates over, and finds its own elements through
  ids in one document; one exception leaves the whole page hidden.
* The search box decides whether to search from what half a dozen handlers left in one variable, and
  those handlers interrupt each other through the focus.

The hazards are listed one by one, at their lines, under `hazards` in `PROJECT.json`.

## Modules

| module | models |
|---|---|
| `TaskService` | abstract: the statuses of a task, forward only, outcomes final |
| `TaskLifecycle` | submission, placement, transfer, arrival, execution, completion, failure |
| `TaskProperties` | the properties of `TaskLifecycle`, and its refinement of `TaskService` |
| `TaskLifecycleProofs` | theorems about `TaskLifecycle`, with its refinement of `TaskService` |
| `CoreRates`, `CoreRatesProperties` | one provider in time: work, shares, wake-ups, admission, billing |
| `CoreRatesProofs` | theorems about `CoreRates` |
| `VmMigration`, `VmMigrationProperties` | allocation, VM placement, vcores, migration |
| `VmMigrationProofs` | theorems about `VmMigration` |
| `OutputService` | abstract: a first-in first-out service that serves every output unless it is blocked |
| `OutputChannel`, `OutputProperties` | the output agent, the patched TCP sender, the sink, re-attachment |
| `OutputProofs` | theorems about `OutputChannel` |
| `SwitchEnergy`, `SwitchEnergyProperties` | the energy meter of a switch and its sleep timer |
| `DcScheduling`, `DcSchedulingProperties` | a decision of the schedulers that score or draw |
| `SchedulingAndSwitchProofs` | theorems about `DcScheduling` and `SwitchEnergy` |
| `FiniteSums` | lemmas about sums over finite sets, which four of the proof modules use |
| `Dashboard`, `DashboardProperties` | `init` of the results page, statement by statement, and the clicks on it |
| `DashboardPages` | what `init` draws and `graph-definitions.js` configures, as data |
| `DashboardProofs` | theorems about `Dashboard`, for any page |
| `SearchResults` | the rows of a page of results and the ways through them |
| `SearchBox` | the handlers of the search panel, as operators from panel to panel |
| `DocSearch`, `DocSearchProperties` | the events of the browser, which compose the two |
| `DocSearchProofs` | theorems about `SearchResults` and `DocSearch` |
| `MCTasks`, `MCRates`, `MCMigration`, `MCOutput`, `MCDashboard`, `MCDocSearch` | the constants of the instances |

`DcScheduling` and `SwitchEnergy` have no MC module: their constants are plain numbers.  Their theorems are in one
module, which extends both; the specification of a decision is therefore `DecisionSpec`.  A definition whose comment starts
with *Mutant* or *Mutation* is not part of the model: it is a plausible wrong version of the
definition below it, kept to show that a property depends on that code (`mutants` in `PROJECT.json`).

### TaskLifecycle

Time and rates are abstract here: `worked` and `expired` are the sets of tasks whose remaining work
is at most 1 MIPS and whose deadline has been reached, and both may grow at any moment.  Whether a
core admits a task by its MIPS is a free choice.  The variable `script` is what the Tcl scripts choose:
the scheduler, DVFS, and the ids that the users give to the tasks.  Memory is exact, in slots of one task.  A task has
one `TaskAlloc`, because `CloudUser::createTask` makes one process per task.

| action or operator | code |
|---|---|
| `SubmitGreen`, `SubmitTested`, `SubmitBlind` (with `Send`, `Reject`) | `DataCenter::receivedTsk` with each kind of scheduler; under Green with the probes of the cores scanned on the way |
| `DropPacket` | the packet with the pointer is dropped |
| `ArriveScheduled`, `ArriveUnscheduled` (with `StartTask`, `Refuse`) | `ResourceProvider::recv` with `trySchedulingTsk` and `startTaskExecution` |
| `Handle` | `ResourceProvider::handle`, the sweep of every busy core of a provider |
| `WorkDone`, `DeadlinePasses` | the clock: work runs out, a deadline is reached |
| `Probe`, `Settle`, `Cleared`, `Released`, `Blamed` | `getMostUrgentTaskRate`, `removeCompleted` and `CloudTask::fail`, for all the tasks one sweep settles |

One sweep is one operator (`Settle`) because the loop's result does not depend on the order of the
list: every task that is done completes, every other one that is overdue fails.

### CoreRates

One provider with integer time.  The clock moves one tick at a time; at each tick the arrivals, the
provider's event, probes by submissions and sweeps may come in any order, which is what the NS-2
calendar queue does with events of one time.  Work, rates and durations are chosen so that every
completion falls on a tick, and `TypeOK` states that it does: besides the types (`Typed`), every division is exact
(`WholeShares`).  Power
management is off, as it is for VMs by default (`vm(eDVFS_enabled)` in `setup_params.tcl`): a busy core
runs at all its MIPS (`setComputingRate`, the second branch).  The variable `script` is what the Tcl
script sets: the scheduler, the delays of the network, and the tasks that are created.

### VmMigration

`NextFit` is the loop of `tryToAllocate`: one pass over the units of a provider, an iterator that
stays on a unit that has served a demand and moves on from one that cannot.  `AddVm` is `addVM` with
the links of the vcores; `MigrateVm` is `DataCenter::migrateVm` with the reservation and the agents;
`Finalize` is `VmMigrationSink::recv` on the last packet with the whole of `finalizeMigration`.
`Guest` and `GuestLeaves` reserve and release the memory of tasks on VMs.  `virtual_capacities` is
modelled as the code keeps it: pushed to, never popped.

### OutputChannel

The queue, `current_pointer_`, the three sequence numbers of the TCP agent and the packets on the
way.  `SendMuch` is the patched `send_much`, with the SYN, which adds a packet to the stream the
first time it is sent and does so *after* the test for the last packet.  The congestion window is an
arbitrary value of `1..Window` at every call: congestion control has no part in the protocol.
The sink acknowledges every packet, cumulatively, and `Ack` takes the acknowledgements one by one:

| operator | code (`src/build/ns-2.35/tcp/tcp.cc`) |
|---|---|
| `NewAck` | an acknowledgement above `highest_ack_`: `newack`, then `send_much` |
| `SendOne` | the first and the second duplicate, with `singledup_` on as `ns-default.tcl` has it: `send_one` sends `t_seqno_` if it is just outside the window, *without* `current_pointer_`, even when it is the last packet |
| `Resume` | the third duplicate (unless the losses are already being repaired) and the retransmission timer (`Timeout`): the numbers go back to the last packet acknowledged |

`Reattach` is the part of `finalizeMigration` that
detaches and attaches the output agent and sink: packets under way are lost, or, if the sink returns
to its port, kept.

### DcScheduling

One decision: any score, tie value and fit for each provider, any value of `rand()`.  `max_element`
returns the first of the best; `std::sort` leaves equal elements in any order (`AtRank`);
`lower_bound` the first cumulative score that is not below the draw.  The code's floating-point
ratios are compared exactly, by cross-multiplication.

### SwitchEnergy

The meter of one switch.  `Forward` is a packet that goes through the patched `Classifier::find`,
which calls `updateEnergy` with the highest installed slot; `Install` adds and clears slots at any moment;
`Timeout` is the sleep timer; `Start` and `Stop` are the calls of the script, `Stop` at `End`, after
which packets may still be forwarded until `Finish`, as `main.tcl` allows.  Coefficients are integers
and the division by 3600 is left out.  `drawn` is a history variable: the rate of every tick, summed.

### Dashboard

`page` is what the program text fixes: the list of statements (`DashboardPages` has the shipped one)
and the configuration.  `rawData` is any content of `data.js` among those the post-processing script can
write: a trace is a sequence of points with a number or, for a line of the trace file without a value,
a blank; a simulation that ended early has traces missing.  `RunStatement` takes one statement of `init`;
`Throw` is the exception it may raise, which nothing catches; `Show` is the end of `init`.  An array of
`rawData` to which `drawChart` has added `loadFactor` and `dataSourceName` is in `tagged`, and `Keys` is what a
loop over its keys then meets.  A click reaches `show_description` with an element of the tab in view.
The icons of the summary table, and a click on the area of a tab, whose id (a date with dots) is no
selector that `querySelector` accepts, are left out.

`DashboardProperties` names four conditions on a page: the charts of one group are in different subsections
(`ChartsApart`), a pie is the only chart of its group (`PiesAlone`), a source is listed before it is charted (`ListedFirst`),
and every group is configured (`GroupsConfigured`).  `ShippedAssumption` of `MCDashboard`, which TLC evaluates, says that the
shipped page meets them; the theorems are about every page that does.

### DocSearch

The panel is one record, for a handler runs others before it ends: `MoveFocus` calls `Activate` for the
field that loses or gains the focus, and the caller goes on with what that left.  `DocSearch` has one
action for each event of the browser.  A key that goes down is held until it comes up, and `keyup` goes
to the element that has the focus by then: `Enter` in the list of filters is released in the field.
`KeyTimer` is the timer in `keyTimeout`; `StrayTimer` is one that `Search` has forgotten without clearing it.
`Load` is the frame that shows the page it was sent to last; until then the keyboard finds the old one.
An element that is no longer displayed loses the focus, as browsers have it.

| action or operator | code |
|---|---|
| `TypeIn`, `FieldKeyDown`, `KeyUp` | keys in the field; `OnSearchFieldChange` runs when one is released |
| `SelectKeyDown`, `ClickFilter` | `OnSearchSelectKey`, `OnSelectItem` |
| `FrameKeyDown`, `FrameEnter`, `KeyPress`, `KeyUp` | `Nav`, `NavChild`, `ProcessKeys`, `Toggle` |
| `PointerOut`, `PointerOver`, `HideTimer` | `OnSearchSelectHide`, `OnSearchSelectShow`, `CloseSelectionWindow` |
| `KeyTimer`, `StrayTimer`, `Load` | `Search`; the document in `MSearchResults` |
| `ClickClose`, `ClickField`, `ClickPage`, `ClickRow` | `CloseResultsWindow`, `Activate` through the focus, `Toggle` |

Which rows match a word (`createResults`, `SearchResults.Search`, `convertToId`) is the constant `Matches`.
`MatchesAssumption` says that the rows of a search are neighbours, as they are in every index that is
shipped, where rows are sorted by name.  `Nav` needs it: it looks for the last child of the row numbered one less
(606), whatever row `NavPrev` found, and so does `UpFrom`.  Without the assumption `UpUndoesDown` and
`FocusOnVisible` fail; what is checked and proved of them is that the code is right on such indexes.

`emptied` is a history field: since the last search, `Activate` has emptied the field and kept
`lastSearchValue`.  The label may be typed like any other word.

## Runs

| run | module, config | question and answer |
|---|---|---|
| `tasks` | `MCTasks`, `Tasks` | Three scripts on two hosts, one with two cores and two memory slots, one with a core and a slot: Green with DVFS, BestDENS/HEROS with two users whose ids collide, and a scheduler that looks at nothing.  No failed task stays on a core list, lists follow the pointer, memory is conserved, tasks execute where their memory is and only after they arrived, failures are counted once, outcomes are final and every submission reaches one. |
| `rates` | `MCRates`, `Rates` | Three scripts on two cores: Green with four tasks and no network delay, Green with delays, and decision on arrival with delays of up to 4 ticks.  A task admitted on a network without delay never fails; the shares of a core never exceed its rate; the wake-up event is always queued no later than the earliest completion; energy is billed before the power changes. |
| `migrate` | `MCMigration`, `Migrate` | Two VMs of two vcores, two hosts of different shape, two tasks, three migrations.  Capacity is conserved, no VM loses its home, vcores and agents follow it, next-fit finds every in-order placement. |
| `output_settled` | `MCOutput`, `OutputSettled` | Three outputs of two, one and three packets, windows up to three, two retransmissions, every duplicate acknowledgement that follows from them.  The channel implements `OutputService`: outputs leave in order, once, and all of them but for a channel that `send_one` has blocked; a queued output has a pointer ahead of it, which TCP can still send if nothing was retransmitted; an exit means the data arrived. |
| `dc_scheduling` | `DcSchedulingProperties`, `DcScheduling` | Three providers, two scores, two tie values.  HEROS and best-score pick a best provider that fits; the probabilistic draw stays inside the list. |
| `switch_energy` | `SwitchEnergyProperties`, `SwitchEnergy` | A switch with and without dynamic shutdown (DNS), slots -1 to 2, a delay of two ticks.  The account is exact at every moment; `stop` settles it; only a full delay without a change of ports puts the switch to sleep. |
| `dashboard` | `MCDashboard`, `Dashboard` | The shipped page with two simulations; all traces whole, or any one missing, or all of one simulation, or one empty or with a blank line.  Ids are unique, charts show their own simulation and group, pies are whole, a page that is shown lacks nothing, and it is shown if the results are complete. |
| `doc_search` | `MCDocSearch`, `DocSearch` | Two filters, two words (one of them the label), two rows, one of them with two children.  Windows, label and activation agree; a text that counts as searched is on display, for the filter selected unless `Activate` emptied the field since; the list of filters does not close under the pointer; the focus is on what is displayed, and Up undoes Down; a search that is due is answered. |
| `rates_late_success` | `MCRates`, `RatesLate` | *Violated.*  See findings. |
| `migrate_load` | `MCMigration`, `MigrateLoad` | *Violated.*  See findings. |
| `output_stranded` | `MCOutput`, `OutputStranded` | *Violated.*  See findings. |
| `dashboard_grouped` | `MCDashboard`, `DashboardGrouped` | *Violated.*  See findings. |

### Bounds, and why they are enough

* **Tasks.**  Three tasks are the smallest number for which a sweep can settle two while a third is
  on its way, and for which two tasks with one id and a third with another share the cores.  Three
  slots for three tasks on two hosts make admission, refusal and the recheck on arrival all happen, and a core
  that a task is moved from.  Every subset of cores may admit a task, so more cores add no new kind of choice;
  `Blind` schedulers may pick any provider.  A task is submitted once.
* **Rates.**  Cores of 4 MIPS per tick and works of 4, 8, 8 and 16 make one, two or four tasks share
  a core exactly; three tasks on a core would not divide, and `TypeOK` would say so.  Submissions
  fall on multiples of `Grid` = 2, and `Tolerance` = 1 MIPS is the code's own constant.  `Horizon`
  is later than every deadline, `Never` later than every time that is computed.
* **Migration.**  The first host holds both VMs, the second has one core for two vcores and two
  memories of which only one is large enough for the bigger VM; so placements fit, fail halfway and
  roll back.  Three migrations allow two of one VM at once with a third of the other, and a VM that
  returns.  `migrate_load` needs only two.
* **Output.**  Lengths below, at and above the smallest windows; a first output of two packets (the
  case of one packet is described below).  Two retransmissions resend a tail, and a tail that was
  itself resent, and make four duplicate acknowledgements in a row and more, so all three cases of `DupAck` occur.
* **Scheduling.**  Three providers with two scores and two ties give one best, two equal, three equal,
  and a best that does not fit.  `RandMax` = 6 is divisible by two and by three, so the draws reach
  both ends of every interval.
* **Switch.**  The bounds of `SwitchEnergy.cfg` leave room for a sleep, a wake-up and a timer that is
  moved before `End`, and for packets between `End` and `Finish`.  The theorems need no bounds.

* **Dashboard.**  Two tabs are enough for every confusion between tabs.  The results vary one trace at a
  time, because the first exception ends `init`.  `MaxOpen` = 2 descriptions show one closing the other, or not.
* **Documentation search.**  Two filters give one to leave and one to go to, and the index past the last; two
  rows of which one unfolds give every border Up and Down can cross; the pages find both rows, the
  first, or none.  One word is the label, for which `Activate` acts otherwise, and one is not.  Texts with spaces
  are left to the theorems, which cover every safety property: a third word would not finish in the time of a run.
  `MaxStrays` = 1 forgotten timer at a time: a second would do the same search again.

Deadlock is checked in `doc_search`.  In the other runs the system may stop: a simulation when every task
is settled, the horizon is reached, the bounded migrations are used up or the meter has been read; the
dashboard when `init` died of an exception.

### Fairness

* `TaskLifecycle`: weak fairness of `Event`, the disjunction of the arrivals (`Arrive`), the provider's
  events (`Handle`) and the deadlines (`DeadlinePasses`): the calendar queue goes on to the next event
  as long as there is one.  The number of these events is bounded, so one fairness
  condition on all of them is as good as one on each.  Nothing is assumed of submissions, drops,
  or of work running out.
* `OutputChannel`: packets arrive (`Recv`) and acknowledgements return (`Ack`).  The queues between
  provider and core switch are DropTail with `limit_` 2147483647 (`src/src/scripts/topology.tcl:73`), so
  nothing is dropped and nothing is reordered; retransmissions happen all the same, when a queue is
  long, and are not assumed to.  `OutputService` is fair to an exit only while the channel is not
  `blocked`: TCP holds a pointer and has sent all there is.
* `Dashboard`: weak fairness of `Initialise`; `init` is one handler, which runs to its end or to an
  exception.  Nothing is assumed of clicks.
* `DocSearch`: a key that is down comes up, the search timer fires, a page that was asked for
  loads.  Restarting the timer with every key does not disable it in the model, so this says that a
  reader pauses for half a second some time.  Nothing is assumed of the reader's next key or click, of
  the timer that closes the list, or of forgotten timers.
* `CoreRates`, `VmMigration`, `DcScheduling` and `SwitchEnergy` state no liveness and assume none.

## Findings

* **A late task can be a success** (`corescheduler.cc:181`).  The work test comes before the deadline
  test, as the TODO at line 172 says it should not: a task that the network delayed completes after
  its deadline and its output is sent.  Without such a delay it cannot happen (`PromptTasksCompleteInTime`).
* **The load of a host counts VMs that have left** (`resourceprovider.cc:156`).  `virtual_capacities`
  is only pushed to.  After a migration the utilisation of the old host adds the free memory of the VM
  that left, and the two recursive computations of the load disagree.
* **A migration can strand outputs** (`vmmigration.cc:124`).  Re-attaching the output agent drops the
  packets under way; the pointer was on one of them, and the retransmission carries NULL.  The task
  never exits, and the outputs queued behind it wait for some later completion.
* **Grouped series do not share a graph** (`dashboard.js:243`).  `drawChart` looks for the container of a
  group by one id and creates it with another (line 281): it is never found, and every series gets a
  graph of its own, all with one id.  The comment at lines 230-232 says the existing graph is drawn again.  The
  shipped page draws no two sources of a group, so only a configured one shows it.

Further behaviours were met while modelling and are stated as the limits of properties, or under
`hazards` in `PROJECT.json`:

* Under Green, a task purged from the in-fly list at its deadline and delivered afterwards reserves
  memory for good; refused on arrival, it is counted as failed twice.  `MemoryHeldOnlyByExecuting` and
  `FailuresCountedOnce` are therefore stated for schedulers that decide on arrival.
* Tasks are recognised by their id (`corescheduler.cc:115`), and every `CloudUser` counts ids from 0.  With
  two users under Green, the arrival of one task starts another user's task that has the same id and
  is still on its way.  `tasks` therefore has two users only with a scheduler that decides on arrival;
  `ExecutesWhereReserved` fails for the other configuration.
* A core that a probe empties keeps its `current_mips_`, and is billed for it, until its next task.
* The first output of a channel, if it is one packet long, rides on the SYN: its exit is recorded
  before its data is sent.  `ExitMeansDelivered` leaves that one case out.
* After a retransmission, the first or second duplicate acknowledgement may send the last packet of an output
  through `send_one` (`tcp.cc:1748`), without the pointer.  When it is acknowledged nothing is left to
  carry the pointer: the output never exits, `tryToSend` (`provideroutagent.cc:54`) waits for it,
  and all outputs behind it wait too.  `ImplementsService` and `QueueHasTrigger` name this case and except it.
* HEROS reaches one place past the best when `rand()` returns `RAND_MAX`.  `PicksBest` leaves
  that draw out.
* `stop` settles a switch's account only if its recorded number of ports is not 0, and leaves the meter enabled:
  a packet forwarded before the result is read bills the chassis again.
* `updateEnergy` acts only when the number of ports changes: a switch that DNS has put to sleep, or
  that starts asleep, forwards packets at rate 0 until its ports change.
* One trace missing in `data.js` (a simulation that ended early writes none) leaves the dashboard of all
  simulations hidden (`dashboard.js:209`).  Line and bar charts get two points without coordinates, because
  `drawChart` adds two keys to the array that `formatXyData` walks (line 497).
* A search timer that outlives the blur of the field searches for the label "Search" and opens the
  results of a panel that was closed (`search.js:307`).  Shift+Down kills the timer and never sets it
  again (158-181).  Choosing a filter with the mouse takes the focus from the field first, and
  with no results on display `Activate` then discards the text (391-397).
* With results on display, `Activate` (385-389) empties a field that holds the label and keeps `lastSearchValue`.
  Type "Search", let it search, click the page, choose another filter, type "Search" again: no search starts,
  and the results of the filter before stay.  `LastIsOnDisplay` and `DueIsAnswered` name this case
  (`panel.emptied`) and except it.
* A text with a space inside never equals `lastSearchValue` (200, 365): every key released in the field,
  Down into the results among them, starts the same search again, and the page that loads takes the
  focus away.
* Down in the list of filters goes one index past the last (270); with a word in the field, Enter
  and Escape then throw before they close the list.
* `BestDENS::calculateScore` is a stub that returns 0: BestDENS takes the first provider that fits.

## Proofs

`TaskLifecycleProofs` proves, for every finite set of tasks, every data center, every scheduler and
every assignment of ids (from `ConstantsAssumption`, which says no more than that the constants have
their types):

* `TypeCorrect` — `Spec => []TypeOK`.  The part that is not bookkeeping is `freeMem[p] \in Nat`: memory is
  tested at submission and again on arrival, and never goes negative.
* `FailedTasksLeaveCores` — `Spec => []NoFailedOnCore`.
* `CorePointersLead` — `Spec => []ListsFollowCorePointer`.

The last two are not inductive.  The invariant is `ListsInductive`: only scheduled tasks are on
lists, and a task whose packet still travels and that is not scheduled yet has not failed.  Without
the second, an arrival could put a failed task on a core; with it, a failed task can arrive only as a
scheduled one, whose list entry is already gone.  `tasks` checks the two properties.  The
proof has a lemma for each helper that several actions use (`SettleLists`, `ProbeLists`,
`StartTaskLists`, `RefuseLists`) and then a step per action.

The next group, from the same assumption, is about memory:

* `EverySlotAccounted` — `Spec => []MemoryConserved`, under every scheduler.
* `NoMemoryLeaks` and `InFlyListsAreShortLived` — `MemoryHeldOnlyByExecuting` and `InFlyEmptyBetweenEvents`.
* `ComputesWhereReserved` — `ExecutesWhereReserved`, assuming that the tasks of a script with Green have
  distinct ids.  Without it the code breaks the property (see the ids above).

The invariant is `MemoryInv`, relative to `ListsInductive`.  It adds `PendingBare`: a task that may still
arrive holds no memory, has not been received and, with a scheduler that decides on arrival, is not
scheduled.  Without it, the reservation of an arrival could overwrite one the task already has, and
its slot would be lost.  `SettleConserves` counts the slots of one event, that of every task released in it
at once; what an event does before its sweep is in `StartMemory`, `RefuseMemory`, `SweepMemory` and
`ProbeMemory`.

The last group is about outcomes:

* `LifecycleImplementsService` — `Spec => ImplementsTaskService`, that is `Service!Spec`, assuming again that the tasks
  of a script with Green have distinct ids, as they have with one `CloudUser`.  With colliding ids an
  arrival can start a task that is still on its way (see the ids above), which `StatusInv` excludes.
* `FailuresAddUp` — `Spec => []FailuresCountedOnce`.

For the refinement the invariant is `StatusInv`.  Its parts that say most: a received task is failed, completed
or executing (it is never forgotten), a task in an in-fly list was not received and travels to that
host or was lost, and a scheduled task that still travels is in an in-fly list or has failed already.
From it, `Statuses` says that a task has exactly one status and which variables it follows from;
`BystanderMoves` and `ArrivedMoves` say that each task of a step moves along an edge of the service or stays.
`FailuresAddUp` needs no more than `MemoryInv`: `CountOnce` shows that one step adds to the counters
exactly the tasks that fail in it, because none of them had failed and each is blamed on one provider.

`CoreRatesProofs` proves, for any cores, tasks, work, deadlines, delays and scripts (from `RatesAssumption` and
`SharesAssumption`):

* `TypesHold` — `Spec => []Typed /\ [](WholeShares => TypeOK)`.  `BillingType` adds to the invariant below what a core may
  draw, how a task may end, and that energy is billed up to a time that has come.
* `CoresPromiseWhatTheyHave` — `Spec => []SharesWithinRate`.
* `ProviderWakesInTime` — `Spec => []WakeupCoversCompletions`.
* `PowerIsBilledBeforeItChanges` — `Spec => BilledBeforeChange`.
* `AdmittedTasksMeetDeadlines` — `Spec /\ []ExactShares => []AdmittedMeetDeadline`, and
  `AdmittedTasksMeetDeadlinesOnFineCores`, which derives `ExactShares` for cores whose MIPS divide by every number of
  tasks.
* `PromptTasksCompleteInTime` — `Spec /\ []ExactShares /\ []Prompt => CompletesByDeadline`: where no task is
  delayed, the order of the two tests in `removeCompleted` (see the findings) does no harm.

`SharesAssumption` says that a core has at least as many MIPS per tick as there are tasks: the model counts
in whole MIPS, and with fewer a share would be 0, which the code's real numbers never are.  The
invariant is `RatesInv`.  `SharesWithinRate` and `WakeupCoversCompletions` are not inductive: that a wake-up covers the completions takes
that a task is on one core only (`PlacedOnce`; on two, the rate of one would be compared with the
completion on the other), that a wake-up to come is in the queue and the event in the queue is the one at
`eventTime` (`EventQueued`; `nextEvent` compares with `eventTime`, not with the queue), and that a core
that executes runs at all its MIPS (`CoresRun`).  `SweepKeeps` and `ProbeKeeps` are the two steps of all
events; `NextEventCovers` is `nextEvent` with its stale event time, and `LeftFinishes` says that updating
what is left of a task, rounded down to 0, never moves its completion before the wake-up.  Before its
proof the invariant was checked on the instance of `rates`.

That admission keeps its promises needs a second invariant, `AdmissionInv`, for a network that delays no
task (`Prompt`; it was checked with Green and with decisions on arrival, four tasks each).  A core that waits for a task has
room for it beside all it executes (`RoomForAssigned`), and every task that executes has a rate at which
it meets its deadline (`RatesMeetDeadlines`), no more than an equal share (`SharesAreEqual`).  A sweep keeps that
for two reasons (`SweepMeetsDeadlines`): on a core that nobody joined the shares only grow, and on the one that was
joined admission has done the sum for all.  A tick takes one share off what is left (`TickWork`), which
holds only because the wake-up keeps time from passing a completion: the theorem rests on
`ProviderWakesInTime`.  `ExactShares` says that the tasks of a core divide its MIPS: without it the
integer shares of the model would round down, which the real numbers of the code do not; a unit of MIPS that
is small enough always makes it so.

`VmMigrationProofs` proves, for every data center, any VMs, tasks and migrations, and demands and units of any
number and size (from `SizesAssumption` and `ObjectsAssumption`: hosts, VMs, tasks and migrations are different
objects, finitely many), all the properties of the run `migrate`:

* `NextFitIsComplete` — `Spec => []NextFitMissesNothing`.  The loop is a recursive function; that it exists
  (`ScanExists`) and what it has done after k demands (`ScanFitted`) are proved by induction over an
  interval, which needs no more than that the natural numbers are well-founded.  That it misses nothing is an exchange argument:
  `Ahead` compares the pass with any in-order placement, demand by demand.  The pass is never on a
  later unit, and on the same unit it has served no more, so the next demand has room wherever the
  placement has it (`StepAhead`).
* `CapacityIsConserved` — `Spec => []CapacityConserved`.  `Books` says it of a free capacity and a list of
  holders; `TakenBooks` and `ReleasedBooks` are `tryToAllocate` and `releaseAllocation`.
* `PlacedVmsStayPlaced` — `Spec => []VmKeepsHome`.  At the end of a migration the code gives back the reservation
  and places the VM anew.  The invariant adds `Reservations`: a migration under way holds an in-order
  placement of its VM on its target.  What it gives back is therefore room for an in-order placement
  (`KeepsRoom`), and by the first theorem the pass finds one, though not always the same.
* `VcoresFollowTheirVm` and `AgentsFollowTheirMigration`.

The invariant, `IInv`, is these with the types, `BooksBalance`, `HomelessHoldNothing` and `Reservations`; it was
checked on the instance of `migrate` first.

`SchedulingAndSwitchProofs` proves, for any number of providers, any scores and ties and any `RAND_MAX` (from
`SchedulingAssumption`):

* `BestIsPicked` — `DecisionSpec => []PicksBest`.  The comparison of HEROS orders the candidates, so a finite set of them
  has one that no other beats (`SomeUnbeaten`), and the place drawn, `rand() * n / RAND_MAX`, is one of the n
  best (`RankAmongBest`), whatever order `std::sort` leaves equal ones in (`AtRankUnbeaten`).
* `DrawIsProvided` — `DecisionSpec => []DrawFallsOnProvider`: the sums of the scores grow, so `lower_bound` finds one.

`FiniteSums` holds what these proofs share: that the recursion behind a sum over a finite set has one solution, and
from it what a sum is with one element more or less, with a value changed, over a subset, or of equal values.

`OutputProofs` proves, for every set of outputs, of any length, for every window and any number of
retransmissions (from `ChannelAssumption`):

* `QueueWaitsBehindPointer` — `SettledSpec => []QueueHasTrigger`.  The argument is a lemma about `send_much`
  (`SendKeepsPointer`): a pointer that TCP holds or that is on a packet is still held, or on a
  packet, afterwards.  Only the sink takes one off the network, and it then asks for the next.  That TCP has
  still a packet for the pointer it holds is `FreshInv`: before the first retransmission every packet
  is on its way once, every acknowledgement is new, and `send_one` does not run.  After it only the
  weaker half is true, and the theorem says no more.
* `TypesHold` and `ExitAfterDelivery` — `SettledSpec => []TypeOK`, `SettledSpec => []ExitMeansDelivered`.  The
  invariant is `StreamInv`.  That a pointer rides on the last packet of its output (`RidesOnLast`) says
  nothing of the packets before it; what is needed besides is that the network has no gap (`NoGap`: when a
  packet arrives, the sink has all those before it), and for that, that everything before the next
  packet to send has arrived or is on the way (`AllSent`).  `AckInv` says of the acknowledgements on the way
  that they never go down, from `highest_ack_` on, and that the sink has what they acknowledge.  `Handed` and `Waiting` say which outputs have a last
  packet, and `Produced` counts the stream.  `SendNumbers` and `SendPackets` state once what a
  burst does to it, for the actions that send one; `SendOneStream` what the single packet does.
* `OutputsLeaveInOrder` — `SettledSpec => ServesInOrder`, the safety part of the refinement of `OutputService`: the
  initial states and every step.  It is about order and number; that the service may be blocked is part of
  the abstract specification, and its fairness is checked by TLC only.  It rests on lemmas about the recursive function `Pointers`
  (of a packet more, of a concatenation, of a burst), proved by taking the least length at which each would fail.

`SchedulingAndSwitchProofs` also proves, for all coefficients, delays and times (from `SwitchAssumption`):

* `EnergyAccounted` — `Spec => []EnergyIsIntegral`.  What was billed, plus what the current rate has cost since the
  last sample, is all that was drawn.
* `StopSettlesAccount` — `Spec => StopSettles`.
* `SleepWaitsForDelay` — `Spec => SleepsAfterDelay`: a switch goes to sleep only when its ports, in use or not, have
  stayed the same for the whole delay; for a `Base` other than `PortPower`: with its highest slot at -1 a
  switch draws `Base - PortPower`, and one that draws nothing is taken for one asleep.  `TimerInv` says when the
  timer that is pending goes off.

The invariant of the account is `MeterInv`: the types, the equation itself, and that a meter that has not been started has
rate 0.  Without the last, `start`, which moves the sample without billing, could lose energy.

`DashboardProofs` proves, for any number of simulations, any page and any content of `data.js`, with traces missing or
not (from `PagesAssumption`: the statements of a page are statements, traces are sequences of points or absent):

* `ChartsShowTheirOwn` — `Spec => []SeriesBelong`, for every page.  The invariant is `PageInv`: the types, and that the
  series of a group are those of its simulation and group, in the statements that have run.
* `IdsAreUnique` — `Spec => [](ChartsApart(page) => IdsUnique)`.  The counters never start again, so an id could come
  twice only from charts of one group between two headings, or from two tabs.  `Numbered` says what is
  left of that: a box with the numbers that the counters have now was drawn since the last heading of this tab, or
  is in the last section of an earlier tab, as long as this tab has opened none.  `ChartsApart`
  excludes the first, and, since charts belong to sections, the second.
* `ShownPagesAreWhole` — `Spec => [](PiesAlone(page) => ShownWhole)`, from `ChartsDrawn`: the chart of every statement that
  has run is there.
* `PiesShowTheirTrace` — `Spec => [](ChartsApart(page) /\ PiesAlone(page) => PiesAreWhole)`.  A pie draws the first series of its
  group; `PieFindsNothing` says that there is none before its own.  Its total goes to the first header of the whole
  document with its id, and `IdIsNew` says that no earlier box has that id.
* `FitPagesAreRight` — the four together, where all pages meet the two conditions.
* `CompleteResultsNeverThrow` — `Spec => [](ListedFirst(page) /\ GroupsConfigured(page) /\ Complete => status # "dead")`, the safety
  half of `PageAppears`.  `TagsFollowCharts` says which arrays have the two keys that `showNavData` cannot take.

The conditions are needed: `IdsUnique` and `PiesAreWhole` are false where a subsection charts a group twice (see the findings), `ShownWhole`
where a pie is the second chart of its group, and a source listed after its chart makes `init` throw.  The invariants
were checked on the instances of `dashboard` and `dashboard_grouped` before their proof.

`DocSearchProofs` proves, for every index, page of rows,
list of words and number of filters, and any number of forgotten timers (from `KidsAssumption`,
`MatchesAssumption`, `TextsAssumption` and `SpacesAssumption`), every safety property of the search:

* `UpIsTheWayBack` — `Spec => []UpUndoesDown`.  `NavNext` and `NavPrev` scan the rows; that they find the nearest
  displayed one (`NavNextFinds`, `NavPrevFinds`) needs a least element, which comes from the order
  of the natural numbers being well-founded.
* `PanelIsConsistent`, `ListStaysUnderPointer`, `FocusStaysVisible`.  The invariant is `DocInv`.  Handlers run within
  handlers, so each has a lemma that it leaves a good panel good; in the middle of one only the part named
  `Base` holds, and `Activate` restores the rest at the end.
* `NothingDueIsSuppressed` — `Spec => []LastIsOnDisplay`.  `MemoryInv` adds that what is remembered is the word of the
  page asked for last; that, in an active panel whose field `Activate` has not emptied since, its filter is the one selected;
  and that the field is not empty then, unless the letter key that emptied it is still down: were a
  filter chosen in between, a later search for the word would not start.  When `Activate` did empty the field, that is
  what happens (see the findings), and the theorem says only that the word is the one on display.

The assumptions are needed.  `MatchesAssumption` says that no hidden row lies between two displayed
ones, as in a list sorted by name.  `SpacesAssumption` says what removing spaces does, and that no word consists of spaces alone: for the code
such a text is empty, and leaves a filter to be chosen without a search.

Only model-checked:

* liveness: `EverySubmissionSettles`, `PageAppears`, `DueIsAnswered`, and the fairness of `OutputService`, that every
  output leaves in the end.  They need `ENABLED`, which the proof system does not handle;
* the half of `TypeOK` of `CoreRates` that is no type, `WholeShares`: that the numbers of the instance divide, so that every
  completion falls on a tick, is a choice of the instance and no fact about the code.

## Not modelled

* **DVFS rates** (`setComputingRate`, first branch).  `TaskLifecycle` has the extra sweep of the in-fly
  list that DVFS causes; the rates themselves are not in `CoreRates`.
* **Memory in `CoreRates`**, and rates in `TaskLifecycle`: each leaves the other a free choice, or ample.
* **VMs in VMs**, and a CPU shared between VMs and tasks: one level of VMs in `VmMigration`.
* **The transfer of a migration**: one step.  Its packets stay in order and are not lost, by the
  queue limits above; `VmMigration` lets the transfer end at any later time.
* **TCP** apart from the patch, the numbers and the acknowledgements: windows and timers are arbitrary choices, and
  ECN, ELN, QuickStart and F-RTO, which are off by default and which no script turns on, are left out.
* **Power models, score formulas, statistics, random workloads**: arithmetic on real numbers without
  control.  **Racks, NICs, specifications, Tcl scripts**: set-up and sampling.
* **The rest of the documentation** (`src/docs/html/dynsections.js`, index data, jQuery): doxygen's tree of directories
  folds and unfolds at a click, and no state connects two clicks.
* Following a result of the search.
* Memory management of the C++ objects.

## Plan

Done: all components of the table of modules, with theorems that state all their safety properties (for
`Dashboard` on pages that meet its conditions, and for `TypeOK` of `CoreRates` but for `WholeShares`).

Next, in this order:

1. `CoreRates` with DVFS: the rate is the highest needed rate times the number of tasks, with
   nothing that caps it at what the core has; the property is that a core never promises more than
   it has, and where it fails.
2. `VmMigration` with nested VMs and with the packets of the transfer.
3. Power models: `LinearPModel` may be used only after every coefficient was set.
4. Proofs: the safety of what 1 to 3 add.
