----------------------- MODULE RateMonotonicScheduler -----------------------
(***************************************************************************)
(* a2_scheduler.rs: the periodic tasks of the onboard computer, each in a  *)
(* thread of its own, and the flag by which ThermalControl makes the       *)
(* others suspend.  Time advances by Tick, one millisecond in the          *)
(* program's own parameters.                                               *)
(***************************************************************************)
EXTENDS Integers, FiniteSets

CONSTANTS Tasks,         \* the tasks spawned; all of TaskId in the program
          Period, Wcet,  \* TaskId::period and TaskId::wcet
          Slice,         \* SLICE of simulate_work
          Poll,          \* the sleep between two looks at the flag
          RunDuration,
          PromptFrom,    \* from when on a thread gets the processor once ready
          Overrun        \* bound: time modelled after the deadline

TaskId == {"ThermalControl", "DataCompression", "HealthMonitoring",
           "AntennaAlignment"}

ASSUME SchedulerAssumption ==
    /\ Tasks \subseteq TaskId
    /\ Period \in [Tasks -> Nat \ {0}]
    /\ Wcet \in [Tasks -> Nat \ {0}]
    /\ Slice \in Nat \ {0} /\ Poll \in Nat \ {0}
    /\ RunDuration \in Nat /\ Overrun \in Nat
    /\ PromptFrom \in Nat

VARIABLES now,
          preempt_flag,
          vlog,        \* ViolationLog; a set, each entry names its job
          cpu_nanos,   \* in clock units
          task,        \* the locals of run_task and simulate_work
          begun        \* history: slices a task has begun under the raised flag

vars == <<now, preempt_flag, vlog, cpu_nanos, task, begun>>

IsThermal(t) == t = "ThermalControl"

Init == /\ now = 0
        /\ preempt_flag = FALSE
        /\ vlog = {}
        /\ cpu_nanos = 0
        /\ task = [t \in Tasks |->
                     [pc |-> "init", job |-> 0, next_release |-> 0,
                      work_start |-> 0, finished_at |-> 0, remaining |-> 0,
                      wake |-> 0, preempted |-> FALSE]]
        /\ begun = [t \in Tasks |-> 0]

At(t, label) == task[t].pc = label

Violation(t, kind, delay) ==
    [task |-> t, job |-> task[t].job, kind |-> kind, delay |-> delay]

\* Mutant: punctual jobs are logged too.
LogAlways(t, kind, delay) == vlog' = vlog \union {Violation(t, kind, delay)}

\* An entry for t, if it was late at all.  The half millisecond of tolerance
\* at the start is below the clock's resolution.
LogIfLate(t, kind, delay) ==
    vlog' = vlog \union IF delay > 0 THEN {Violation(t, kind, delay)} ELSE {}

AbsDeadline(t) == task[t].next_release + Period[t]

-----------------------------------------------------------------------------
(* run_task                                                                *)

InitTask(t) ==
    /\ At(t, "init")
    /\ task' = [task EXCEPT ![t].pc = "top", ![t].next_release = now]
    /\ UNCHANGED <<preempt_flag, vlog, cpu_nanos, begun>>

\* The head of the loop; deadline_end was fixed at time 0.
NextJob(t) ==
    /\ At(t, "top")
    /\ task' = IF now >= RunDuration
               THEN [task EXCEPT ![t].pc = "done"]
               ELSE [task EXCEPT ![t].pc = "release", ![t].job = @ + 1]
    /\ UNCHANGED <<preempt_flag, vlog, cpu_nanos, begun>>

Start(t) ==
    /\ At(t, "release")
    /\ now >= task[t].next_release
    /\ LogIfLate(t, "StartDelay", now - task[t].next_release)
    /\ task' = [task EXCEPT ![t].pc = "begin"]
    /\ UNCHANGED <<preempt_flag, cpu_nanos, begun>>

\* ThermalControl raises the flag; every task enters simulate_work.
BeginWork(t) ==
    /\ At(t, "begin")
    /\ preempt_flag' = (preempt_flag \/ IsThermal(t))
    /\ task' = [task EXCEPT ![t].pc = "check", ![t].work_start = now,
                            ![t].remaining = Wcet[t]]
    /\ UNCHANGED <<vlog, cpu_nanos, begun>>

\* simulate_work is over; what it took counts as active time.
Finish(t) ==
    /\ At(t, "check")
    /\ task[t].remaining = 0
    /\ cpu_nanos' = cpu_nanos + (now - task[t].work_start)
    /\ task' = [task EXCEPT ![t].pc = "account", ![t].finished_at = now]
    /\ UNCHANGED <<preempt_flag, vlog, begun>>

\* Mutant: the next job is released one period from now.
NextReleaseFromNow(t) == now + Period[t]

\* The next job is released one period after this one was.
NextRelease(t) == task[t].next_release + Period[t]

\* Mutant: nobody takes the flag down.
LowersFlagNever(t) == FALSE

LowersFlag(t) == IsThermal(t)

\* ThermalControl takes the flag down; a completion after the deadline is
\* logged; the next job is set up.  (JobLog is only read by the reports: its
\* record is what the locals hold here.)
Account(t) ==
    /\ At(t, "account")
    /\ preempt_flag' = (preempt_flag /\ ~ LowersFlag(t))
    /\ LogIfLate(t, "CompletionDelay", task[t].finished_at - AbsDeadline(t))
    /\ begun' = IF IsThermal(t) THEN [u \in Tasks |-> 0] ELSE begun
    /\ task' = [task EXCEPT ![t].pc = "top",
                            ![t].next_release = NextRelease(t),
                            ![t].work_start = 0, ![t].finished_at = 0,
                            ![t].preempted = FALSE]
    /\ UNCHANGED cpu_nanos

-----------------------------------------------------------------------------
(* simulate_work                                                           *)

\* Mutant: the flag is not looked at.
GoOnBlindly(t) ==
    /\ At(t, "check")
    /\ task[t].remaining > 0
    /\ task' = [task EXCEPT ![t].pc = "slice"]
    /\ UNCHANGED <<preempt_flag, vlog, cpu_nanos, begun>>

\* Nothing in the way of the next slice.
GoOn(t) ==
    /\ At(t, "check")
    /\ task[t].remaining > 0
    /\ IsThermal(t) \/ ~ preempt_flag
    /\ task' = [task EXCEPT ![t].pc = "slice"]
    /\ UNCHANGED <<preempt_flag, vlog, cpu_nanos, begun>>

\* Mutant: the suspension is not marked.
SuspendUnmarked(t) ==
    /\ At(t, "check")
    /\ task[t].remaining > 0
    /\ ~ IsThermal(t) /\ preempt_flag
    /\ task' = [task EXCEPT ![t].pc = "suspended", ![t].wake = now]
    /\ UNCHANGED <<preempt_flag, vlog, cpu_nanos, begun>>

Suspend(t) ==
    /\ At(t, "check")
    /\ task[t].remaining > 0
    /\ ~ IsThermal(t) /\ preempt_flag
    /\ task' = [task EXCEPT ![t].pc = "suspended", ![t].preempted = TRUE,
                            ![t].wake = now]
    /\ UNCHANGED <<preempt_flag, vlog, cpu_nanos, begun>>

\* Look at the flag again; once it is down, go on with the slice without
\* another look.
PollFlag(t) ==
    /\ At(t, "suspended")
    /\ now >= task[t].wake
    /\ task' = IF preempt_flag
               THEN [task EXCEPT ![t].wake = now + Poll]
               ELSE [task EXCEPT ![t].pc = "slice"]
    /\ UNCHANGED <<preempt_flag, vlog, cpu_nanos, begun>>

SliceOf(t) == IF task[t].remaining < Slice THEN task[t].remaining ELSE Slice

BeginSlice(t) ==
    /\ At(t, "slice")
    /\ task' = [task EXCEPT ![t].pc = "working", ![t].wake = now + SliceOf(t)]
    /\ begun' = IF preempt_flag THEN [begun EXCEPT ![t] = @ + 1] ELSE begun
    /\ UNCHANGED <<preempt_flag, vlog, cpu_nanos>>

EndSlice(t) ==
    /\ At(t, "working")
    /\ now >= task[t].wake
    /\ task' = [task EXCEPT ![t].pc = "check", ![t].wake = 0,
                            ![t].remaining = @ - SliceOf(t)]
    /\ UNCHANGED <<preempt_flag, vlog, cpu_nanos, begun>>

-----------------------------------------------------------------------------
TaskStep(t) ==
    \/ InitTask(t) \/ NextJob(t) \/ Start(t) \/ BeginWork(t)
    \/ Finish(t) \/ Account(t)
    \/ GoOn(t) \/ Suspend(t) \/ PollFlag(t) \/ BeginSlice(t) \/ EndSlice(t)

Ready(t) == /\ ~ At(t, "done")
            /\ At(t, "release") => now >= task[t].next_release
            /\ (At(t, "suspended") \/ At(t, "working")) => now >= task[t].wake

Tick == /\ \E t \in Tasks : ~ At(t, "done")
        /\ now < RunDuration + Overrun
        /\ now >= PromptFrom => \A t \in Tasks : ~ Ready(t)
        /\ now' = now + 1
        /\ UNCHANGED <<preempt_flag, vlog, cpu_nanos, task, begun>>

Step(t) == TaskStep(t) /\ UNCHANGED now

Next == Tick \/ \E t \in Tasks : Step(t)

Spec == Init /\ [][Next]_vars

\* The operating system keeps no thread that is ready from running for ever.
FairSpec == Spec /\ WF_vars(Tick) /\ \A t \in Tasks : WF_vars(Step(t))
-----------------------------------------------------------------------------
ViolationKind == {"StartDelay", "CompletionDelay"}

\* Type correctness.
TypeOK ==
    /\ now \in Nat
    /\ preempt_flag \in BOOLEAN
    /\ vlog \subseteq [task : Tasks, job : Nat \ {0}, kind : ViolationKind,
                      delay : Nat \ {0}]
    /\ cpu_nanos \in Nat
    /\ task \in [Tasks ->
         [pc : {"init", "top", "release", "begin", "check", "slice", "working",
                "suspended", "account", "done"},
          job : Nat, next_release : Nat, work_start : Nat, finished_at : Nat,
          remaining : Nat, wake : Nat, preempted : BOOLEAN]]
    /\ begun \in [Tasks -> Nat]

\* ThermalControl overrides the other tasks (a2_scheduler.rs:9), up to the slice
\* a task was already past its look at the flag for: while the flag is up no other
\* task begins more than one slice, however the threads are scheduled.
OneSliceUnderThermal ==
    preempt_flag => \A t \in Tasks : ~ IsThermal(t) => begun[t] <= 1

\* The flag is up exactly while ThermalControl is in its work: it is never left up
\* behind a thermal job, which would suspend the others for good, nor taken down
\* before the job has finished.
FlagFollowsThermal ==
    preempt_flag <=>
      \E t \in Tasks : IsThermal(t) /\ task[t].pc \in
                         {"check", "slice", "working", "account"}

\* A job that finishes late makes the next one of its task start at least as
\* late, and both are logged: lateness is never forgotten between two jobs.
LateFinishDelaysNext ==
    \A v \in vlog :
        LET t == v.task IN
        v.kind = "CompletionDelay" =>
          \/ task[t].job = v.job
          \/ task[t].job = v.job + 1 /\ At(t, "release")
          \/ \E w \in vlog : /\ w.task = t /\ w.job = v.job + 1
                             /\ w.kind = "StartDelay" /\ w.delay >= v.delay

ThermalWcet == IF "ThermalControl" \in Tasks THEN Wcet["ThermalControl"] ELSE 0

\* When every thread gets its processor at once, no job waits for more than one
\* activation of ThermalControl and one poll of the flag, and ThermalControl for
\* nothing; a job that took longer than its work is marked as preempted; and no
\* violation is ever logged.
ResponseBound ==
    /\ \A t \in Tasks :
         LET response == task[t].finished_at - task[t].next_release IN
         At(t, "account") =>
           /\ response <= IF IsThermal(t) THEN Wcet[t]
                                           ELSE Wcet[t] + ThermalWcet + Poll
           /\ response > Wcet[t] => task[t].preempted
    /\ vlog = {}

\* Every task comes to its end, and so no suspension by ThermalControl lasts for
\* ever.
AllTasksEnd == <>(\A t \in Tasks : At(t, "done"))

-----------------------------------------------------------------------------
(* What comments of the code say and the code does not do.                 *)

\* cpu_nanos accumulates "active CPU time" (a2_scheduler.rs:304), from which the
\* report derives "CPU utilisation: % active time vs idle time" (line 12): a
\* finished job adds no more than the work it has done, of Wcet.
CpuTimeIsActiveTime ==
    [][\A t \in Tasks : task'[t].pc = "account" /\ ~ At(t, "account")
         => cpu_nanos' - cpu_nanos <= Wcet[t]]_vars
=============================================================================
