# Verification of the satellite onboard control system

The repository simulates the onboard control system (OCS) of a satellite: sensor
threads fill a bounded buffer, a downlink empties it towards a ground station, a
set of periodic tasks runs beside them, and a fault injector disturbs the
sensors. This directory holds TLA+ models of those parts, TLC configurations
that check them on small instances, and TLAPS proofs of what matters most.
Paths below are relative to the repository's `src/` directory of Rust files
unless they say otherwise.

## The system

| Part | State | Operations | Interacts through |
|---|---|---|---|
| `types.rs` | none | priorities, periods, criticality, `MISS_THRESHOLD` | used by all |
| `buffer.rs` | queue sorted by priority, drop log, latency log, under one mutex | `push` (room / evict / drop), `pop`, length, fill ratio | pushed by three sensor threads, popped by the downlink |
| `a1_sensor.rs` | per thread: cycle, next scheduled time, consecutive misses, alerts | one loop: fault hooks, sleep, read, push, count | buffer, fault state, metrics |
| `a2_scheduler.rs` | per thread: job, next release, remaining work; shared: preemption flag, violation log, job log, CPU time | `run_task`, `simulate_work` | the flag, raised by ThermalControl |
| `a3_downlink.rs` | drain loop, TCP server, UDP broadcaster, heartbeat; two bounded channels; counters and flags | drain, fill check, visibility check, accept, write, broadcast | buffer, channels, sockets |
| `a4_benchmark.rs` | delay and corruption flags, fault log, fault counter, abort flag | injector loop; `apply_delay_fault`, `apply_corrupt_fault`, `record_recovery` | flags and log, used by the sensor threads |
| `metrics.rs` | per sensor: counters, running statistics | `record_cycle`, `record_drop`, `record_alert` | written by one sensor thread each, read after the joins |
| `logger.rs` | an open file | append a line | called by all |
| `main.rs` | the join handles | spawn, join in order, report | all |
| `GCS_mock.rs` | counters shared by its threads | connect, read lines, retry; receive datagrams; depacketise and count | the sockets; its user |

### What is hard about it

- *Interleaving.* Three sensor threads, the injector, the downlink's tasks and
  four scheduler threads share the buffer, the fault flags and log, and the
  preemption flag. The injector raises a flag before it logs the fault; a task
  looks at the preemption flag before it works.
- *Capacity.* The buffer evicts or drops when full; the telemetry channel
  refuses, the alert channel refuses or makes the heartbeat wait.
- *Time.* Periods, stalls, the recovery limit, visibility windows and the end of
  the run, where several things fall due at the same instant.
- *Failure.* Sockets that do not bind, a ground station that does not connect,
  connects late, stops reading or disconnects; the servers are aborted at the end.
- *Two records of one thing.* The buffer's drop log against the sensors'
  counters; the faults' recovery records against the abort flag; packets sent
  against packets on the wire.

`PROJECT.json` lists each of these hazards at its line with the properties that
cover it, or the reason why none does.

### What makes each part correct

- Buffer: bounded; in order; every reading accounted for; nothing better lost
  for something worse.
- Sensors: one reading per period; lateness does not accumulate; alerts
  exactly for the losses that call for them.
- Faults: each strikes once, is recovered once, in bounded time; abort exactly
  when one was slow.
- Scheduler: ThermalControl overrides the others within one slice; nobody stays
  suspended; deadlines are met when every thread has its processor, and misses
  are logged when not.
- Downlink: never waits for the ground; packets are in order and each has one
  fate; the connection flag is true. Towards the ground: packets come in order
  and a gap is final.
- Ground station: connects in time when it is up; shows what was sent, all of it
  and nothing else; never hangs; its totals are those of what was sent.
- Statistics: those of the samples; jitter in proportion to drift.
- The whole: ends, whatever fails; and its reports, read from records that
  different parties keep, agree.

## The modules

| Module | Models | Composes |
|---|---|---|
| `OcsTypes` | `types.rs` | |
| `SensorBuffer` | `buffer.rs`: `Push`, `Pop` and their parts, each one critical section | `OcsTypes` |
| `KeepBest` | what the buffer promises: a set of readings of which the worst is lost and the best is taken | `OcsTypes` |
| `SharedBuffer` | the buffer with its users: producers with growing cycle numbers, one consumer | `SensorBuffer`, refines `KeepBest` |
| `FaultInjector` | `a4_benchmark.rs` up to line 439: injector thread, fault state, hooks | `OcsTypes` |
| `SensorAcquisition`, `MCSensors` | `a1_sensor.rs` with the counters of `metrics.rs`; a view of its states | `SensorBuffer`, `FaultInjector` |
| `RateMonotonicScheduler`, `MCScheduler` | `a2_scheduler.rs`; values of its constants | |
| `TelemetryLink` | what the downlink promises the ground: numbered packets, one connection, each packet written in order or given up | |
| `Downlink` | `a3_downlink.rs` | `SensorBuffer`, refines `TelemetryLink` |
| `GroundStation` | `GCS_mock.rs` with its user and the datagrams | `TelemetryLink`, whose steps are its satellite |
| `OnboardControlSystem` | `main.rs`: all threads of the program, the joins, the reports of `main.rs`, `a4_benchmark.rs` and `logger.rs` | `SensorAcquisition` |
| `Metrics` | the running statistics of `metrics.rs` as `a1_sensor.rs` feeds them | |
| `SensorBuffer_proofs` | lemmas about the operations of the buffer, cited by the next three | |
| `SharedBuffer_proofs`, `Downlink_proofs`, `OnboardControlSystem_proofs`, `RateMonotonicScheduler_proofs`, `TelemetryLink_proofs`, `GroundStation_proofs`, `Metrics_proofs` | the theorems about the module of that name and their proofs; those about `FaultInjector` and `SensorAcquisition` are in `OnboardControlSystem_proofs` | |

Operators marked *Mutant* in a comment stand before the definition they are a
faulty variant of. Nothing uses them; exchanging one for its original must
make the property named for it in `PROJECT.json` fail.

### How state and actions correspond to the code

*Threads and tasks.* The locals of a thread are a record with a program counter
`pc`. One action is the code from one point where others can interfere to the
next: a lock, an atomic, a channel operation, a sleep, a look at the clock. In
`SensorAcquisition` a cycle is `BeginCycle`, `SufferDelay`/`NoDelay`,
`EndStall`, `Read`, `SufferCorruption`/`NoCorruption`, `EndCorruption`,
`PushReading`. `PushReading` contains the push and the counters that follow it
because nobody reads the counters before the thread has been joined. `Recover`
is `find_latest_fault_id` and `record_recovery` in one step, though they lock
the log twice: the entries of a sensor are changed by that sensor's thread only.

`GroundStation` is built on `TelemetryLink`: each of its satellite's actions is
one of the link's, together with the data of the lines, the queue of the
listener and the time the satellite still waits. `Downlink` implements the same
link (`ImplementsTelemetryLink`), so what holds of the ground holds with the real
downlink behind it. A connection is a number, given by the ground in the order
in which it connects; `backlog` is the listener's queue, from which the
satellite takes one. `lines` is what was written to the accepted one, a line
being its kind, what stands for the value and the status, in the order in
which serde writes them: `CutsOf` is what can be left of one when the server is
aborted in the middle. `Display` is the depacketiser and `display_telemetry`.

`OnboardControlSystem` takes the sensors and the injector of
`SensorAcquisition` as they are, and the downlink as far as the buffer and
`main` see it. `Join` is one `join` in the order of `main.rs`; after the last,
`ReportReadings`, `ReportBenchmark` and `WriteFinalReport` read the shared state
one after the other.

In `Metrics` one action is one cycle: nobody else writes a sensor's
statistics. Samples are integers and sums are exact, so `StatsSound` is what
rounding may still disturb (`stddev_us` guards against it with `max(0.0)`). The
mean is not computed: `count * min <= sum <= count * max` says where it lies.

*Time.* `now` advances by `Tick`: 50 ms in `FaultInjector` and
`SensorAcquisition` (the greatest common divisor of the periods, the stall and
the recovery limit), 1 ms in `RateMonotonicScheduler` with the program's
parameters, the 10 ms drain interval in `Downlink`, 1 s in `GroundStation`. What is
shorter (50 µs of reading, 500 µs of tolerance, the 1 ms jitter threshold) is below
the resolution: a delay is either none or whole units. A thread may be kept waiting
for any number of units, unless it is named prompt (below).

*Data.* A reading keeps its sensor, cycle, lateness and whether it is a NaN. The
logs of the buffer are sets, since reports only count them; their members name
sensor and cycle, so no two coincide. JSON, labels and console output are left
out. The stop flag is left out because nothing in the program sets it
(`main.rs:73` is a stub).

*Crash and restart.* Nothing is persisted and no thread is restarted. The ground
station may be stopped and started again while the satellite runs (`Stop`,
`Start`); its counters start anew. The satellite is started once.

*History variables.* `taken`, `delivered`, `begun`, `wire`, `lost`, `window`,
`shown`, `base`, `heard`, `steady` and `drifts` exist for the properties; no guard
of the program's actions reads them.

## The runs

| Run | Instance | Question |
|---|---|---|
| `shared_buffer` | capacity 2, three readings of each sensor | Is the buffer right under all interleavings, and does it implement `KeepBest`? |
| `whole_program` | all threads, prompt; capacity 4, five intervals of 10 units; the downlink starts or does not | How long does recovery take, and what does a fault cost? What is left in the buffer, which alerts does `main` collect, do counters and logs agree, and the verdicts of the reports with them, does the program end with nothing pending? |
| `sensor_races` | Thermal and the injector, capacity 1, 14 units, a fault every 3 units; sensor and downlink arbitrarily slow | Do the alerts match the losses, does the recovery bookkeeping stay consistent? |
| `orphaned_fault` | sensors, injector and a plain consumer, prompt; five intervals of 20 units | *violated*: see Findings |
| `stall_window` | the same | *violated* |
| `scheduler_program` | the program's task set for 1.7 s, threads prompt | Response times, deadlines |
| `scheduler_overload` | two tasks with small periods, scheduled arbitrarily during the run of 4 units and prompt from then on; fair | What holds of the flag and the violation log when threads are late? Does every suspended task go on, even if it missed the flag's fall? |
| `cpu_time` | as `scheduler_program` | *violated* |
| `downlink` | two sensors, three readings, channels of one place, a timeout of one unit | Order, accounting, connection flag; does the loop end whatever the ground does? |
| `visibility_window` | one sensor, one reading | *violated* |
| `ground_station` | two packets, three starts of the ground, one datagram, all values, status `OK` or `JITTER_WARN`; fair | Is the ground in time, served once, never stuck? Does it show exactly what was written, all of it, and are its totals those of what was sent? |
| `metrics` | four cycles, period 3, drifts and latencies up to 4 | Are the statistics those of the samples; does the drift bound the jitter? |

### Why the bounds are enough

- *Buffer.* Capacity 2 and three readings of each of three sensors reach every
  outcome of `Push` with every mix of priorities, several times in a row. The
  proofs remove both bounds.
- *Alerts.* Capacity 1 with a consumer that may never run makes Thermal lose its
  readings out of a full buffer in rows that start and break off anywhere, and
  across an alert and its reset: seven cycles hold all this. Thermal is only ever
  refused when a Thermal reading is queued. The long row of `whole_program`
  without a downlink crosses five alerts.
- *Faults.* The schedule repeats after four faults and the program's five
  intervals inject exactly four (the fifth would fall on the deadline). 10 units,
  and 20, are multiples of all periods, as 60 s are, so faults meet the cycles in
  the phase they have in the program; the orders of steps within one unit are all
  explored. In `sensor_races` the interval is no longer than a stall, so faults
  pile up on a late sensor; its view (`WithoutLateness`) leaves out what is only
  ever written, how late each reading was.
- *Scheduler.* 1.7 s contain three releases of every task or more, the
  coincidence of all four at 0 and those of every pair ThermalControl makes with
  another later; `Overrun` is large enough for every
  job to finish. Under overload, a run of four units lets a job
  miss its deadline, overlap its successor and be suspended in each of its
  slices. ThermalControl may be so late that it starts its next job at once, and a
  suspended task that polls too late does not see the flag down in between. From
  unit 5 (`PromptFrom`) threads are no longer kept waiting, and 10 units beyond the
  run let every job finish.
- *Downlink.* Channels of one place are full after one packet; three readings
  fill the channel, the server's hand and the loop's (a run of two units with two
  readings a round); two sensors give the buffer something to sort. A window of two units and a deadline of zero let
  windows pass with and without data.
- *Ground station.* Two packets give a gap before the one shown; that gaps of any
  size and number are final is proved. Three starts leave a first session, one in
  the listener's queue and one after the satellite has ended. The program's times are used: 5 s of accepting, 2 s between
  attempts; an attempt is taken to last a second at most, and with two the ground
  could come too late. One datagram suffices for the counters, each kind having
  its own. `DEGRADED` is left out of the run for its length: it is coloured like
  `JITTER_WARN` and has no counter of its own. The proofs cover it.
- *The whole program.* 50 units end the run at the due time of a reading of every
  sensor, and the last reading of each is the one begun just before. Without a
  downlink Thermal has 26 cycles for four places. With it, one reading a round
  (`MaxBatch` 1) makes the most rounds, and so the most interleavings. The proofs
  remove the bounds from everything but the liveness.
- *Statistics.* A drift of 4 exceeds the period of 3, so a cycle can begin after
  the next was due. Four cycles hold a stall between two others. The proofs
  remove the bounds.

`Overrun` bounds how long time is modelled after the end of the run, and
`PromptFrom` how long the scheduler's threads may be late. The other bounds are `MaxCycle`, `MaxReadings`, `MaxPackets`, `MaxDatagrams`, `MaxStarts`,
`MaxCycles` and `MaxSample`. Deadlock is not checked because each
system really ends: every thread returns after the run.

### Fairness and promptness

`FairSpec` gives weak fairness to the steps of every thread and to time: a
thread that is ready is not kept from running for ever, which any
general-purpose operating system provides. In `Downlink` only the loop and time
are fair: nothing is assumed of the ground, the network, the servers and the
heartbeat, so `LoopTerminates` says the loop depends on none of them. In the
scheduler each task and time are fair. Weak fairness of a task that polls is enough
for `AllTasksEnd`: ThermalControl ends by its own deadline, and from then on the
flag stays down.

In `GroundStation` the ground's main thread, time and the end of the satellite's
run are fair. The last is what `LoopTerminates` shows of the satellite. Nothing
is assumed of the user, the network or the datagrams. In
`OnboardControlSystem` every thread is fair, the downlink's too, and whether it
starts at all is left open.

*Prompt* threads run before time passes. That is what thread priorities, core
affinity and the multimedia timer of the Windows build are for, with sensor
threads on cores 1–3 and tasks on cores 4–7. It is assumed in the runs whose
properties are about times or about what is left at the end (`whole_program`,
`scheduler_program`), and not where they are about consistency (`sensor_races`,
where only the injector is prompt, `downlink`, `ground_station`).
`scheduler_overload` makes it from `PromptFrom` on, after the end of the run, so that
late threads come to their end within the time modelled. `ProgramEnds` is checked
with prompt threads only: with late ones the states of all threads together are too
many. With promptness the order of the steps within one unit is still
arbitrary.

## What the proofs show

The arguments about the operations of the buffer are in `SensorBuffer_proofs`,
because three modules use the buffer: where a new reading is inserted
(`InsertKeepsOrder`), what the outcomes of a push are (`PushFacts`), that a pop
takes the head (`PopFacts`), and between which of the queue and the logs a cycle
number moves (`PushMoves`, `PopMoves`).

### The buffer

`SharedBuffer_proofs` proves, for every capacity of at least one
(`CapacityAssumption`) and every number of readings
(`MaxCycleAssumption`), the five properties that `shared_buffer` checks, and two
that explain them: `BestFirst` and `LatencyOfAcceptedOnly`.

The invariants of the buffer are not inductive one by one. That a new reading
keeps the queue in order needs that its cycle number exceeds all earlier ones of
its sensor (`EveryReadingAccounted` bounds them by `cycle`); that deliveries are
in order needs that what is queued of a sensor is younger than what was
delivered (`OldestFirst`), which in turn needs `BestFirst` when the head is
taken; that a Thermal reading is never evicted needs that the tail is the worst
of the queue. `Inv` is the conjunction: `TypeOK`, `BestFirst`,
`DeliveredInOrder`, `OldestFirst`, `EveryReadingAccounted` and
`LatencyOfAcceptedOnly`. The proof shows first that `InsertPosition` exists and
where it lies, then what the three outcomes of a push do to the queue as a
sequence and as a set (stored, exchanged for the tail, refused), and then each
conjunct for each outcome and for a pop. `NoPriorityInversion` follows from
`Inv` and the three outcomes.

The refinement maps the queue to its set, and the drop log to the readings it
names. A push into room is an `Offer` that fits. In a full buffer the worst of
the queue and the new reading is the tail when the new one outranks it, and the
new one otherwise: with `BestFirst`, `Outranks` decides exactly that, because an
equal priority means the same sensor and then the new reading is the youngest.
The head is the best for the same reason. The initial states map to the initial
state.

### The scheduler

`RateMonotonicScheduler_proofs` proves the invariants that `scheduler_overload` checks, and `FlagFollowsThermal`, for
every task set, period, work, slice and polling time (`SchedulerAssumption`),
and for threads that get the processor at any time: nothing is assumed of
`PromptFrom`, so these proofs also cover a machine where the priorities and timer
helpers have no effect. The response times, at the end, do need prompt threads.

`Inv` adds three facts to `TypeOK` and `FlagFollowsThermal`:

- `LocalsInv`, `ThermalInv`: times a task has noted lie in the past, a released
  job has a number, and ThermalControl never polls its own flag.
- `SliceInv`: a task that has decided on a slice and not begun it yet has begun
  none under the flag. `OneSliceUnderThermal` alone does not say so, and is lost
  if such a task has already had its slice. It needs `FlagFollowsThermal`: the
  flag is down when ThermalControl raises it, and the count starts at 0.
- `LatenessInv`: until the start of the next job is in the log, the task is on
  its way to it and already as late as the completion was, because the next
  release is the deadline the completion missed. `LateFinishDelaysNext` only
  says where the task is, and not how late.

Each conjunct has a lemma for the steps of a task, with a case for each action.

`ResponsesAreBounded` proves `ResponseBound` for every task set that `Fits`: threads
are prompt from the start (`PromptFrom = 0`), no work is longer than its period, and the work of another task,
that of ThermalControl and one poll fit into the period of each of the two. For
the program the tightest case is 40 + 20 + 1 ms in 200 ms. The slice is not
bounded: a slice longer than the work left ends with the work. `PromptInv` says what the
code relies on and never checks:

- `OnTime`: a job starts at its release and goes on without a pause, so that when
  its work will end (`WorkEnds`) is fixed from the start, unless it is suspended.
- `Delayed`: a suspended job goes on one poll after the flag falls at the latest, and
  is done before ThermalControl is released again, so it is suspended for one
  activation only. That is why the bound has one `ThermalWcet` and one `Poll`, and
  it is the place where `Fits` is used: without it a second activation can meet
  the same job.
- Nothing is logged: each task is back at its release in time, so `vlog` is empty.

Time passes only when no prompt thread is ready, so a task that waits for the
clock is the one case left in which `Tick` could make it late.

### The statistics

`Metrics_proofs` proves `TypeOK` and the three invariants that `metrics` checks,
for every period, least read time and spread of the read times, any number of
samples of any size below `f64::MAX` (`MetricsAssumption`).

`StatsSound` needs that the sums are zero before the first sample
(`StatsStarted`), and three lemmas about products. That the variance stays
non-negative is one step of the inequality of Cauchy and Schwarz: from
`t * t <= n * q` follows `(t + v) * (t + v) <= (n + 1) * (q + v * v)`
(`SquareOfSum`), because the square of `t - n * v` is not negative. The solver is
given the expanded products, not the squares.

`JitterFromDrift` compares sums over all cycles. The invariant `LastRead` says
where the last reading was, relative to the next due time: later by the last drift
and the time of that read. So an interval differs from the period by the
difference of two consecutive drifts and of two read times, and each drift enters
two intervals; the `+ LastDrift` in the property is the half of the last drift's
share that the next interval will take.

`DriftMatchesSamples` speaks of a sum over a list of any length, which
`MapThenSumSet` takes in an order of its own choice. `SumCountsPoints` turns it into
the size of a set, with `f[i]` points over each `i`: that size satisfies the equation
of the recursive function, and two functions that do agree, or there would be a least
set on which they differ. So the step of the invariant `SamplesInv` is that an
appended sample adds its own points.

### The link

`TelemetryLink_proofs` proves `GapsAreLost` with `LinkTypeOK` as its invariant:
the packet written next is the least of those pending, so whatever is below it is
written or given up, and no step takes a packet out of either set. Both
programs that implement the link inherit it.

### The downlink

`Downlink_proofs` proves the four invariants that `downlink` checks and that
`Downlink` implements `TelemetryLink`, for every capacity of the buffer and of
both channels, any set of sensors, any number of readings and any timeout. No step
of the ground, the network or the servers is assumed to happen.

None of the four is inductive. A packet on its way is in one of four places: on
the wire, in the hand of `tcp_server`, in the channel, in the hand of the loop. What
must be said is about the *stream* that these make, one behind the other:

- `StreamInOrder`: the numbers grow along the whole stream, and so do the cycles
  of each sensor. `WireInOrder` is its first part, and is lost if only the first
  part is assumed.
- `OlderThanQueued`: what is on its way of a sensor is older than what is queued
  of it, and what is queued is no newer than its thread's cycle (`QueueInv`). So
  what the loop builds next goes to the end of the stream. It needs that the
  buffer is `Ordered`, since the head is then the oldest of its sensor.
- `OneFate`: the stream and `lost` together are the numbers up to `seq`, without
  overlap; `SentCount` relates them to the counter.
- `Connection`: the flag, the server's state and what has been written.

The lemmas about concatenations (`OrderOfConcat`, `AheadOfConcat`,
`ContentsOfConcat`) let a packet change its place in the stream without the stream
being taken apart. For the refinement each action is assigned a step of the link:
building a packet issues it, `try_send` into a full channel and the end of a
connection lose packets, a write delivers the least pending one, which is what
`StreamInOrder` is for.

### The ground station

`GroundStation_proofs` shows that every step of `GroundStation`, whoever takes it,
is a step of the link or leaves it alone (`ImplementsLink`), and so carries
`GapsAreLost` over, whatever the user and the network do. It proves the four
invariants and the action property that `ground_station` checks, for any number of
packets, datagrams and starts. The invariant `Inv` consists of the link's, the
types, and

- `Connections`: there is a session from the accept on, which stays the same
  (`SessionStays`), and only while the ground is on it has it read anything.
  `OneSession` rests on it.
- `ShownInv`: while the ground is on the session it has displayed what it has
  read, and afterwards what it had read when it left. `ShownIsWritten` needs it
  because `shown` outlives the connection.
- `CountsShown`: each counter is the number of lines, or datagrams, that were
  counted under it since the last start, whichever of the two threads counted.

`TotalsMatchSent` compares the totals with the lines as the satellite wrote them,
and not with the ground's own reading of them. `ReadAsSent` says what the three
extractors find in a line that arrived whole: the value is NaN exactly if NaN was sent
(serde writes `null`), and the status is the one sent. By `ShownIsWritten` all lines
shown but one at most are such lines, and that one can change a total by one
(`OneApart`).

`SteadyGroundIsInTime` is proved for all timeouts with
`ConnectTimeout > RetryDelay + 2 * AttemptTime` (5 s of accepting, `a3_downlink.rs:64`,
2 s between attempts, `GCS_mock.rs:36`, and an attempt of at most a second). Its
invariant `InTime` says for each place the ground can be in how much of the time
left it still needs. The first of the two attempts is one that was begun before the
port opened and is refused after it.

### Sensor threads, faults and the whole program

`OnboardControlSystem_proofs` proves every invariant and action property that
`whole_program` and `sensor_races` check. A step of the whole program is a step
of a sensor, of the injector, or of something that leaves both alone, or a pop by the
downlink (`AnyStep`). So an invariant of the sensor threads is shown once and holds
for `Spec`, with any consumer, and for `SystemSpec`. Constants are arbitrary
unless an assumption is named here.

*For every schedule of the threads.* `CoreInv` is inductive: the types
(`ThreadsTyped`, `FaultsTyped`), the buffer's invariant, and for each sensor that
the cycles it has pushed are the queued, the delivered, the refused and the evicted
(`Balance`) and that the counters are their numbers (`Counted`). Upon it rest

- `CountersMatchLogs` and `RecoveryIsFinal`;
- `AlertsMatchLosses`, by `AlertsInv`: the running count of misses is the length,
  modulo four, of the row of losses that ends with the last push, and the alerts
  are the losses that completed a row of four (`Fourth`). That the threshold is
  counted per row and not overall is what makes the reset after an alert matter;
- `ReportsAgree`: each pair of records that the verdicts are taken from agrees
  throughout (`VerdictInv` for the abort flag and the fault log, `Counted` for the
  counters and the drop log, `CollectedInv` for the alerts joined and those counted),
  and none changes while `main` reports, because it has joined only threads that
  have ended (`JoinsInv`, `ReportsAreFinal`);
- `DeadDownlinkRaisesAlerts`, by `SilentInv`: without a downlink, Thermal loses
  nothing until the buffer holds only Thermal's readings, and everything from then
  on. This holds for every capacity because only Thermal is never outranked.

*With a prompt downlink.* `OnlyLastReadingsStranded` needs `"downlink" \in Prompt`
and nothing of the other threads: the drain after the deadline takes everything
(`StrandedInv`), and a thread that is late pushes one reading more.

*For campaigns of at most five intervals.* `AbortIffSlow` and `OneNanPerFault` are
proved under `RunDuration <= 5 * FaultInterval`, which the program meets with
equality (300 s, `main.rs:36`, and 60 s, `a4_benchmark.rs:59`). `CampaignInv` derives
that the schedule is then gone through at most once: no sensor is given two faults
of one kind. `StallInv` says that a stall under way began after its fault was made
up, and `NanInv` that the corruption fault of a sensor is in one place, its flag,
the thread's hand, or the buffer and beyond, as long as the buffer has not
refused it. Without the assumption both properties are false for threads that may be
late: a second fault that strikes while the flag of the first is still up is
taken together with it.

*For prompt threads.* `RecoveryBound`, `StallDelaysOneReading` and
`SampledEveryPeriod` are about times. They are proved under `Timely`: sensors and
injector are prompt, `0 < RunDuration <= 5 * FaultInterval`, and a stall is no longer
than an interval (150 ms against 60 s). A run of no length is excluded because a sensor
that starts at its end takes one reading too many. `SampledEveryPeriod` needs also
that the duration is a multiple of the periods, as 300 s is of 100, 250 and 500 ms. `TimelyInv` adds to
`CampaignInv`, `StallInv` and `NanInv`

- `ClockInv`: fault `i` is raised and logged at `i` intervals;
- `TimedInv`: where a sensor thread is tells what time it is (`OnTime`), and the
  lateness so far, with that of the reading in hand, is that of the one stall that is
  over (`LateInv`). So the lateness of a cycle is not that of the next;
- `PickupInv`: a fault is taken within one period after it was raised, a delay at the
  head of a cycle, a corruption after the sleep. A corruption fault that met a
  stall would wait longer; the schedule gives a sensor the two three intervals
  apart (`ScheduleOrder`), and that is where the length of a stall enters;
- `RecoveriesInv`, which carries the bound from the hook to the log.

### Only model-checked

- Liveness under fairness (`AllTasksEnd`, `LoopTerminates`, `EveryLineShown`,
  `KeepsTrying`, `ProgramEnds`): out of the prover's reach.
- The counterexamples of the runs that expect a violation.

Every other property of a run, invariant or action property, is stated by a
theorem.

## Findings

1. `orphaned_fault`. The injector raises a flag (`a4_benchmark.rs:343,352`)
   before it enters the fault in the log (`:360`). A sensor that takes the flag in
   between recovers nothing, and the fault stays pending, although "corruption
   lasts exactly one cycle" (`:416`). A stalled sensor looks for the fault 150
   ms later, so in practice this hits corruption faults.
2. `stall_window`. "Inject a 150ms delay — inside the 200ms recovery window"
   (`:340`): the time runs from the injection, and the sensor notices the flag at
   its next cycle, so recovery takes up to a period more (`RecoveryBound`: 250 ms
   for Thermal, 650 ms for Attitude). The recorded run has 653 ms and an abort.
3. `cpu_time`. "Accumulate active CPU time" (`a2_scheduler.rs:304`): the time
   a job was suspended is included.
4. `visibility_window`. "Within 30ms of opening, we must start sending or it's
   a miss" in a window "that opens every 500ms" (`a3_downlink.rs:366-367`): the
   condition is `seq == 0`, so after the first packet of the run no window can be
   missed.

Differences met on the way that have no run of their own:

- `a4_benchmark.rs:30` and `:58` announce five faults in 300 s; the fifth falls
  due at the deadline and is not injected. The recorded run has four.
- `a1_sensor.rs:149-150` says a stall makes the sensor late. The hook runs
  before the sleep, so only a stall longer than the period does: Thermal's
  (`StallDelaysOneReading`).
- `a1_sensor.rs:176` mentions a status `"CORRUPTED"`; the downlink never sets
  one (`Status`).
- `packets_sent` counts packets the channel refused, and those lost when the
  servers are aborted or the ground is gone (`PacketsAccounted`).
- Evictions are no misses for anybody; `CountersMatchLogs` gives the exact
  relation of the two records.
- `a3_downlink.rs:10` gives the ground 5 ms to connect; `CONNECT_TIMEOUT_MS` (`:64`) is
  5000, that is 5 s. The models take 5 s.
- `a3_downlink.rs:22` and `:89` name a `SAFETY_ALERT` among the datagrams. Nothing
  sends one: the sensors' alerts reach `main` only.
- `logger.rs:522` prints "NOMINAL (all constraints satisfied)" in a run with
  safety alerts or deadline violations, too.
- `GCS_mock.rs:499`, "RED = corrupted data / safety alert": the status is matched
  first (`Colour`), so a NaN that is also late, or sent in degraded mode, is yellow.
  It is printed as `CORRUPT` all the same (`:193-195`), and yet not counted in the
  total called "Corrupt readings" (`:276`); `TotalsMatchSent` says what that total
  is.
- `GCS_mock.rs:497`, "GREEN = normal telemetry OK": the iterator of lines yields the
  part of a line that came before the satellite's server was aborted (`CutsOf`). Its
  value may be some of the digits, its status is empty, and it is green.
- `a4_benchmark.rs:559`, "NOMINAL — all faults recovered within 200ms": the abort flag
  is set by late recoveries only (`ReportBenchmark`). A fault that is never
  recovered, as in finding 1, does not set it.
- `logger.rs:539`, `zero_drops=YES`, is about refused pushes; evicted readings are
  lost as well, and `main.rs:141` counts them (`CountersMatchLogs`).
- `a4_benchmark.rs:513` takes the number of entries of the violation log for the
  number of missed deadlines, though most are late starts of jobs that finish in
  time. The recorded run reports an adherence of 48.4 % with 11 late ends in 3479
  jobs.
- `AbortIffSlow` includes that a stalled sensor is not reported recovered before
  its stall can have ended. It relies on the schedule not repeating within the
  program's five intervals: in a longer run a sensor late by a whole round of the
  schedule could have its recovery credited to a later fault.

## Not modelled, and why

- Report printing and the log file, beyond the verdicts of `ReportBenchmark` and
  `WriteFinalReport`: they read finished
  state and format it.
- Rounding: the statistics are exact here.
- Socket addresses, JSON text beyond the three fields the ground's colours depend
  on, the wording of alerts.
- `stats_printer` of the ground station: it loads independent counters one by one.
- A connection that goes silent without being closed: both programs run on one
  host. A second start of the satellite beside a running ground station.
- A poisoned mutex: no code panics while it holds one of these locks.
- `abort()` of a task takes effect at its next await; here it is one step.
  Between the two, `tcp_server` could write one more packet.

## Plan

Done, in this order: `OcsTypes`, `SensorBuffer`, `KeepBest`, `SharedBuffer` and
its proofs; `FaultInjector` and `SensorAcquisition`; `RateMonotonicScheduler` and
its proofs; `Downlink`; `TelemetryLink`, `GroundStation` and their proofs;
`OnboardControlSystem`; `Metrics` and its proofs; then the proofs about
`Downlink`, about what the ground station shows and when it comes, and about
sensor threads, faults and the whole program; last the verdicts of the reports and
late threads to the end of the scheduler.
