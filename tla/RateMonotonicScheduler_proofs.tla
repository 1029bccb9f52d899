-------------------- MODULE RateMonotonicScheduler_proofs --------------------
(***************************************************************************)
(* Proofs about the periodic tasks, for every task set, every period, work *)
(* and slice, and however late the threads get the processor; the last part*)
(* bounds the response times of threads that get it at once.               *)
(***************************************************************************)
EXTENDS RateMonotonicScheduler, TLAPS

-----------------------------------------------------------------------------
(* The inductive invariant.                                                *)

\* A task past the head of its loop has a job, and what it has noted of the
\* clock lies in the past.
LocalsInv ==
    \A t \in Tasks :
        /\ task[t].pc \notin {"init", "top", "done"} => task[t].job > 0
        /\ task[t].work_start <= now
        /\ task[t].finished_at <= now

\* ThermalControl never waits for its own flag.
ThermalInv == \A t \in Tasks : IsThermal(t) => ~ At(t, "suspended")

\* No slice counts while the flag is down; while it is up, a task that is yet to
\* begin the slice it has decided on has begun no other.
SliceInv ==
    /\ ~ preempt_flag => \A t \in Tasks : begun[t] = 0
    /\ \A t \in Tasks : ~ IsThermal(t) =>
          /\ begun[t] <= 1
          /\ At(t, "slice") => begun[t] = 0

\* The start of job v.job + 1 of v's task is in the log, at least as late as v.
Repaid(v, log) ==
    \E w \in log : /\ w.task = v.task /\ w.job = v.job + 1
                   /\ w.kind = "StartDelay" /\ w.delay >= v.delay

\* Until then the task is on its way there, and already that late.
LatenessInv ==
    \A v \in vlog : v.kind = "CompletionDelay" =>
        \/ /\ \/ task[v.task].job = v.job /\ task[v.task].pc \in {"top", "done"}
              \/ task[v.task].job = v.job + 1 /\ At(v.task, "release")
           /\ now - task[v.task].next_release >= v.delay
        \/ Repaid(v, vlog)

Inv == /\ TypeOK /\ LocalsInv /\ ThermalInv /\ FlagFollowsThermal
       /\ SliceInv /\ LatenessInv

-----------------------------------------------------------------------------
(* Preliminaries.                                                          *)

Locals == [pc : {"init", "top", "release", "begin", "check", "slice",
                 "working", "suspended", "account", "done"},
           job : Nat, next_release : Nat, work_start : Nat, finished_at : Nat,
           remaining : Nat, wake : Nat, preempted : BOOLEAN]

Entry == [task : Tasks, job : Nat \ {0}, kind : ViolationKind,
          delay : Nat \ {0}]

\* The type invariant, with names for its parts.
LEMMA TypeFacts ==
    TypeOK <=> /\ now \in Nat /\ preempt_flag \in BOOLEAN
               /\ vlog \subseteq Entry /\ cpu_nanos \in Nat
               /\ task \in [Tasks -> Locals] /\ begun \in [Tasks -> Nat]
BY DEF TypeOK, Entry, Locals

\* The constants are numbers.
LEMMA ConstantFacts ==
    ASSUME NEW t \in Tasks
    PROVE  Period[t] \in Nat /\ Wcet[t] \in Nat /\ Slice \in Nat /\ Poll \in Nat
BY SchedulerAssumption

\* A slice is no longer than the work that remains.
LEMMA SliceFacts ==
    ASSUME NEW t \in Tasks, task[t].remaining \in Nat
    PROVE  /\ SliceOf(t) \in Nat
           /\ task[t].remaining - SliceOf(t) \in Nat
BY SchedulerAssumption DEF SliceOf

\* What entering a violation, if there is one, does to the log.
LEMMA LogFacts ==
    ASSUME NEW t \in Tasks, NEW kind \in ViolationKind, NEW delay \in Int,
           vlog \subseteq Entry, task[t].job \in Nat \ {0},
           LogIfLate(t, kind, delay)
    PROVE  /\ vlog' \subseteq Entry
           /\ vlog \subseteq vlog'
           /\ \A v \in vlog' \ vlog : v = Violation(t, kind, delay) /\ delay > 0
           /\ delay > 0 => Violation(t, kind, delay) \in vlog'
<1>1. delay > 0 => Violation(t, kind, delay) \in Entry
    BY DEF Violation, Entry
<1> QED BY <1>1 DEF LogIfLate

\* A step of a task leaves the locals of the others alone.
LEMMA OthersUntouched ==
    ASSUME TypeOK, NEW t \in Tasks, TaskStep(t)
    PROVE  \A u \in Tasks \ {t} : task'[u] = task[u]
BY TypeFacts DEF TaskStep, InitTask, NextJob, Start, BeginWork, Finish, Account,
    GoOn, Suspend, PollFlag, BeginSlice, EndSlice

-----------------------------------------------------------------------------
(* Types.                                                                  *)

\* The invariant holds at first.
LEMMA InitInv == Init => Inv
<1> SUFFICES ASSUME Init
             PROVE  Inv
    OBVIOUS
<1>1. task \in [Tasks -> Locals] /\ \A t \in Tasks : task[t].pc = "init"
    BY DEF Init, Locals
<1>2. TypeOK
    BY <1>1, TypeFacts DEF Init
<1>3. LocalsInv /\ ThermalInv /\ FlagFollowsThermal /\ SliceInv /\ LatenessInv
    BY <1>1 DEF Init, LocalsInv, ThermalInv, FlagFollowsThermal, SliceInv,
        LatenessInv, At
<1> QED BY <1>2, <1>3 DEF Inv

\* A step of a task keeps the types: the number of its job, noted in the log, is
\* not the initial one once the job has been released.
LEMMA TaskStepTypeOK ==
    ASSUME TypeOK, LocalsInv, NEW t \in Tasks, Step(t)
    PROVE  TypeOK'
<1> USE ConstantFacts DEF TypeOK, At
<1>0. vlog \subseteq Entry /\ (vlog' \subseteq Entry => vlog' \subseteq
        [task : Tasks, job : Nat \ {0}, kind : ViolationKind,
         delay : Nat \ {0}])
    BY DEF Entry
<1>1. CASE InitTask(t)
  <2>1. ASSUME NEW r \in Locals
        PROVE  [r EXCEPT !.pc = "top", !.next_release = now] \in Locals
      BY DEF Locals
  <2>2. task' \in [Tasks -> Locals]
      BY <1>1, <2>1, TypeFacts DEF InitTask
  <2> QED BY <1>1, <2>2 DEF InitTask, Step, Locals
<1>2. CASE NextJob(t)
  <2>1. ASSUME NEW r \in Locals
        PROVE  /\ [r EXCEPT !.pc = "done"] \in Locals
               /\ [r EXCEPT !.pc = "release", !.job = @ + 1] \in Locals
    <3> HIDE DEF TypeOK
    <3>1. r.job + 1 \in Nat
        BY DEF Locals
    <3>2. [r EXCEPT !.pc = "done"] \in Locals
        BY DEF Locals
    <3>3. [r EXCEPT !.pc = "release", !.job = @ + 1] \in Locals
        BY <3>1 DEF Locals
    <3> QED BY <3>2, <3>3
  <2>2. CASE now >= RunDuration
    <3>1. task' = [task EXCEPT ![t].pc = "done"]
        BY <1>2, <2>2 DEF NextJob
    <3>2. task' \in [Tasks -> Locals]
        BY <2>1, <3>1, TypeFacts
    <3> QED BY <1>2, <3>2 DEF NextJob, Step, Locals
  <2>3. CASE ~ (now >= RunDuration)
    <3>1. task' = [task EXCEPT ![t].pc = "release", ![t].job = @ + 1]
        BY <1>2, <2>3 DEF NextJob
    <3>2. task' \in [Tasks -> Locals]
        BY <2>1, <3>1, TypeFacts
    <3> QED BY <1>2, <3>2 DEF NextJob, Step, Locals
  <2> QED BY <2>2, <2>3
<1>3. CASE Start(t)
  <2>1. now - task[t].next_release \in Int /\ task[t].job \in Nat \ {0}
      BY <1>3 DEF Start, LocalsInv
  <2>2. LogIfLate(t, "StartDelay", now - task[t].next_release)
      BY <1>3 DEF Start
  <2>3. vlog' \subseteq Entry
      BY <2>1, <2>2, <1>0, LogFacts DEF ViolationKind
  <2> QED BY <1>0, <1>3, <2>3 DEF Start, Step
<1>4. CASE BeginWork(t)
  <2>1. ASSUME NEW r \in Locals
        PROVE  [r EXCEPT !.pc = "check", !.work_start = now,
                         !.remaining = Wcet[t]] \in Locals
      BY DEF Locals
  <2>2. task' \in [Tasks -> Locals]
      BY <1>4, <2>1, TypeFacts DEF BeginWork
  <2> QED BY <1>4, <2>2 DEF BeginWork, Step, Locals
<1>5. CASE Finish(t)
  <2>1. now - task[t].work_start \in Nat
      BY DEF LocalsInv
  <2>2. ASSUME NEW r \in Locals
        PROVE  [r EXCEPT !.pc = "account", !.finished_at = now] \in Locals
      BY DEF Locals
  <2>3. task' \in [Tasks -> Locals]
      BY <1>5, <2>2, TypeFacts DEF Finish
  <2> QED BY <1>5, <2>1, <2>3 DEF Finish, Step, Locals
<1>6. CASE Account(t)
  <2>1. /\ task[t].finished_at - AbsDeadline(t) \in Int
        /\ task[t].job \in Nat \ {0}
      BY <1>6 DEF Account, AbsDeadline, LocalsInv
  <2>2. LogIfLate(t, "CompletionDelay", task[t].finished_at - AbsDeadline(t))
      BY <1>6 DEF Account
  <2>3. vlog' \subseteq Entry
      BY <2>1, <2>2, <1>0, LogFacts DEF ViolationKind
  <2>4. NextRelease(t) \in Nat
      BY DEF NextRelease
  <2>5. preempt_flag' \in BOOLEAN /\ begun' \in [Tasks -> Nat]
      BY <1>6 DEF Account
  <2>6. UNCHANGED <<now, cpu_nanos>>
      BY <1>6 DEF Account, Step
  <2>7. ASSUME NEW r \in Locals
        PROVE  [r EXCEPT !.pc = "top", !.next_release = NextRelease(t),
                         !.work_start = 0, !.finished_at = 0,
                         !.preempted = FALSE] \in Locals
      BY <2>4 DEF Locals
  <2>8. task' \in [Tasks -> Locals]
      BY <1>6, <2>7, TypeFacts DEF Account
  <2> QED BY <1>0, <2>3, <2>5, <2>6, <2>8 DEF Locals
<1>7. CASE GoOn(t)
    BY <1>7 DEF GoOn, Step
<1>8. CASE Suspend(t)
  <2>1. ASSUME NEW r \in Locals
        PROVE  [r EXCEPT !.pc = "suspended", !.preempted = TRUE,
                         !.wake = now] \in Locals
      BY DEF Locals
  <2>2. task' \in [Tasks -> Locals]
      BY <1>8, <2>1, TypeFacts DEF Suspend
  <2> QED BY <1>8, <2>2 DEF Suspend, Step, Locals
<1>9. CASE PollFlag(t)
    BY <1>9 DEF PollFlag, Step
<1>10. CASE BeginSlice(t)
  <2>1. now + SliceOf(t) \in Nat
      BY SliceFacts
  <2>2. ASSUME NEW r \in Locals
        PROVE  [r EXCEPT !.pc = "working", !.wake = now + SliceOf(t)] \in Locals
      BY <2>1 DEF Locals
  <2>3. task' \in [Tasks -> Locals]
      BY <1>10, <2>2, TypeFacts DEF BeginSlice
  <2>4. begun' \in [Tasks -> Nat]
      BY <1>10 DEF BeginSlice
  <2> QED BY <1>10, <2>3, <2>4 DEF BeginSlice, Step, Locals
<1>11. CASE EndSlice(t)
  <2>1. task[t].remaining - SliceOf(t) \in Nat
      BY SliceFacts
  <2>2. ASSUME NEW r \in Locals
        PROVE  [r EXCEPT !.pc = "check", !.wake = 0,
                  !.remaining = task[t].remaining - SliceOf(t)] \in Locals
      BY <2>1 DEF Locals
  <2>3. task' \in [Tasks -> Locals]
      BY <1>11, <2>2, TypeFacts DEF EndSlice
  <2> QED BY <1>11, <2>3 DEF EndSlice, Step, Locals
<1> QED
    BY <1>1, <1>2, <1>3, <1>4, <1>5, <1>6, <1>7, <1>8, <1>9, <1>10, <1>11
    DEF Step, TaskStep

-----------------------------------------------------------------------------
(* The locals.                                                             *)

\* A task takes its times from the clock, and its job from the head of the loop.
LEMMA TaskStepLocalsInv ==
    ASSUME TypeOK, LocalsInv, NEW t \in Tasks, Step(t)
    PROVE  LocalsInv'
<1> SUFFICES /\ task'[t].pc \notin {"init", "top", "done"} => task'[t].job > 0
             /\ task'[t].work_start <= now
             /\ task'[t].finished_at <= now
    BY OthersUntouched DEF Step, LocalsInv
<1> USE TypeFacts DEF LocalsInv, Locals, At
<1>1. CASE InitTask(t)
    BY <1>1 DEF InitTask
<1>2. CASE NextJob(t)
    BY <1>2 DEF NextJob
<1>3. CASE Start(t)
    BY <1>3 DEF Start
<1>4. CASE BeginWork(t)
    BY <1>4 DEF BeginWork
<1>5. CASE Finish(t)
    BY <1>5 DEF Finish
<1>6. CASE Account(t)
    BY <1>6 DEF Account
<1>7. CASE GoOn(t)
    BY <1>7 DEF GoOn
<1>8. CASE Suspend(t)
    BY <1>8 DEF Suspend
<1>9. CASE PollFlag(t)
    BY <1>9 DEF PollFlag
<1>10. CASE BeginSlice(t)
    BY <1>10 DEF BeginSlice
<1>11. CASE EndSlice(t)
    BY <1>11 DEF EndSlice
<1> QED
    BY <1>1, <1>2, <1>3, <1>4, <1>5, <1>6, <1>7, <1>8, <1>9, <1>10, <1>11
    DEF Step, TaskStep

\* Only the other tasks enter the loop that polls the flag.
LEMMA TaskStepThermalInv ==
    ASSUME TypeOK, ThermalInv, NEW t \in Tasks, Step(t)
    PROVE  ThermalInv'
<1> SUFFICES IsThermal(t) => task'[t].pc # "suspended"
    BY OthersUntouched DEF Step, ThermalInv, At
<1> USE TypeFacts DEF ThermalInv, Locals, At
<1>1. CASE InitTask(t)
    BY <1>1 DEF InitTask
<1>2. CASE NextJob(t)
    BY <1>2 DEF NextJob
<1>3. CASE Start(t)
    BY <1>3 DEF Start
<1>4. CASE BeginWork(t)
    BY <1>4 DEF BeginWork
<1>5. CASE Finish(t)
    BY <1>5 DEF Finish
<1>6. CASE Account(t)
    BY <1>6 DEF Account
<1>7. CASE GoOn(t)
    BY <1>7 DEF GoOn
<1>8. CASE Suspend(t)
    BY <1>8 DEF Suspend
<1>9. CASE PollFlag(t)
    BY <1>9 DEF PollFlag
<1>10. CASE BeginSlice(t)
    BY <1>10 DEF BeginSlice
<1>11. CASE EndSlice(t)
    BY <1>11 DEF EndSlice
<1> QED
    BY <1>1, <1>2, <1>3, <1>4, <1>5, <1>6, <1>7, <1>8, <1>9, <1>10, <1>11
    DEF Step, TaskStep

-----------------------------------------------------------------------------
(* The flag.                                                               *)

\* Only ThermalControl touches the flag, and it does so as it enters its work and
\* as it leaves it.
LEMMA TaskStepFlagFollowsThermal ==
    ASSUME TypeOK, ThermalInv, FlagFollowsThermal, NEW t \in Tasks, Step(t)
    PROVE  FlagFollowsThermal'
<1> DEFINE InWork(u) == task[u].pc \in {"check", "slice", "working", "account"}
<1>a. CASE ~ IsThermal(t)
  <2>1. preempt_flag' = preempt_flag
      BY <1>a, TypeFacts DEF Step, TaskStep, InitTask, NextJob, Start, BeginWork,
         Finish, Account, GoOn, Suspend, PollFlag, BeginSlice, EndSlice,
         LowersFlag
  <2>2. \A u \in Tasks : IsThermal(u) => task'[u] = task[u]
      BY <1>a, OthersUntouched DEF Step
  <2> QED BY <2>1, <2>2 DEF FlagFollowsThermal
<1>b. CASE IsThermal(t)
  <2>1. /\ FlagFollowsThermal <=> (preempt_flag <=> InWork(t))
        /\ FlagFollowsThermal' <=> (preempt_flag' <=> InWork(t)')
      BY <1>b DEF FlagFollowsThermal, IsThermal
  <2> SUFFICES preempt_flag' <=> InWork(t)'
      BY <2>1
  <2>2. preempt_flag <=> InWork(t)
      BY <2>1
  <2> USE <1>b, <2>2, TypeFacts DEF Locals, At, ThermalInv
  <2>3. CASE InitTask(t)
      BY <2>3 DEF InitTask
  <2>4. CASE NextJob(t)
      BY <2>4 DEF NextJob
  <2>5. CASE Start(t)
      BY <2>5 DEF Start
  <2>6. CASE BeginWork(t)
      BY <2>6 DEF BeginWork
  <2>7. CASE Finish(t)
      BY <2>7 DEF Finish
  <2>8. CASE Account(t)
      BY <2>8 DEF Account, LowersFlag
  <2>9. CASE GoOn(t)
      BY <2>9 DEF GoOn
  <2>10. CASE Suspend(t)
      BY <2>10 DEF Suspend
  <2>11. CASE PollFlag(t)
      BY <2>11 DEF PollFlag
  <2>12. CASE BeginSlice(t)
      BY <2>12 DEF BeginSlice
  <2>13. CASE EndSlice(t)
      BY <2>13 DEF EndSlice
  <2> QED
      BY <2>3, <2>4, <2>5, <2>6, <2>7, <2>8, <2>9, <2>10, <2>11, <2>12, <2>13
      DEF Step, TaskStep
<1> QED BY <1>a, <1>b

-----------------------------------------------------------------------------
(* The slices under the flag.                                              *)

\* A slice is decided on while the flag is down, so it is the first one under it,
\* should the flag go up before the slice begins.
LEMMA TaskStepSliceInv ==
    ASSUME TypeOK, FlagFollowsThermal, SliceInv, NEW t \in Tasks, Step(t)
    PROVE  SliceInv'
<1> USE TypeFacts DEF Locals, At
<1>0. \A u \in Tasks \ {t} : task'[u] = task[u]
    BY OthersUntouched DEF Step
\* Steps that touch neither the flag nor the count, and decide on no slice.
<1>1. CASE UNCHANGED <<preempt_flag, begun>> /\ task'[t].pc # "slice"
    BY <1>0, <1>1 DEF SliceInv
<1>2. CASE InitTask(t) \/ NextJob(t) \/ Start(t) \/ Finish(t) \/ Suspend(t)
             \/ EndSlice(t)
    BY <1>1, <1>2 DEF InitTask, NextJob, Start, Finish, Suspend, EndSlice
<1>3. CASE BeginWork(t)
  <2>1. IsThermal(t) => ~ preempt_flag
      BY <1>3 DEF BeginWork, FlagFollowsThermal, IsThermal
  <2>2. task'[t].pc # "slice" /\ begun' = begun
      BY <1>3 DEF BeginWork
  <2>3. preempt_flag' = (preempt_flag \/ IsThermal(t))
      BY <1>3 DEF BeginWork
  <2> QED BY <1>0, <2>1, <2>2, <2>3 DEF SliceInv
<1>4. CASE Account(t)
  <2>1. task'[t].pc # "slice"
      BY <1>4 DEF Account
  <2>2. CASE IsThermal(t)
      BY <1>0, <1>4, <2>1, <2>2 DEF Account, SliceInv
  <2>3. CASE ~ IsThermal(t)
      BY <1>1, <1>4, <2>1, <2>3 DEF Account, LowersFlag
  <2> QED BY <2>2, <2>3
<1>5. CASE GoOn(t)
    BY <1>0, <1>5 DEF GoOn, SliceInv
<1>6. CASE PollFlag(t)
    BY <1>0, <1>6 DEF PollFlag, SliceInv
<1>7. CASE BeginSlice(t)
  <2>1. task'[t].pc = "working" /\ preempt_flag' = preempt_flag
      BY <1>7 DEF BeginSlice
  <2>2. \A u \in Tasks \ {t} : begun'[u] = begun[u]
      BY <1>7 DEF BeginSlice
  <2>3. begun'[t] = IF preempt_flag THEN begun[t] + 1 ELSE begun[t]
      BY <1>7 DEF BeginSlice
  <2>4. ~ IsThermal(t) => begun[t] = 0
      BY <1>7 DEF BeginSlice, SliceInv
  <2> QED BY <1>0, <2>1, <2>2, <2>3, <2>4 DEF SliceInv
<1> QED
    BY <1>2, <1>3, <1>4, <1>5, <1>6, <1>7 DEF Step, TaskStep

-----------------------------------------------------------------------------
(* Lateness.                                                               *)

\* The task that owns a violation is on its way to the job after it.
OnTheWay(v) ==
    /\ \/ task[v.task].job = v.job /\ task[v.task].pc \in {"top", "done"}
       \/ task[v.task].job = v.job + 1 /\ At(v.task, "release")
    /\ now - task[v.task].next_release >= v.delay

\* What has been repaid stays so, as the log only grows.
LEMMA RepaidStays ==
    ASSUME NEW v, NEW log, NEW longer, log \subseteq longer, Repaid(v, log)
    PROVE  Repaid(v, longer)
BY DEF Repaid

\* Account makes the next job as late as the one it notes, NextJob leaves it so, and
\* Start notes it.
LEMMA TaskStepLatenessInv ==
    ASSUME TypeOK, LocalsInv, LatenessInv, NEW t \in Tasks, Step(t)
    PROVE  LatenessInv'
<1> USE TypeFacts DEF Locals, At, Entry
<1>0. /\ \A u \in Tasks \ {t} : task'[u] = task[u]
      /\ now' = now
    BY OthersUntouched DEF Step
<1>a. \A v \in vlog : v.kind = "CompletionDelay" => OnTheWay(v) \/ Repaid(v, vlog)
    BY DEF LatenessInv, OnTheWay
<1>b. SUFFICES ASSUME NEW v \in vlog', v.kind = "CompletionDelay"
               PROVE  OnTheWay(v)' \/ Repaid(v, vlog')
    BY DEF LatenessInv, OnTheWay
\* An entry of another task, or of this one if the step leaves it on its way.
<1>c. ASSUME v \in vlog, vlog \subseteq vlog', v.task # t
      PROVE  OnTheWay(v)' \/ Repaid(v, vlog')
    BY <1>0, <1>a, <1>b, <1>c, RepaidStays DEF OnTheWay
<1>d. ASSUME v \in vlog, vlog' = vlog,
             v.task = t => (OnTheWay(v) => OnTheWay(v)')
      PROVE  OnTheWay(v)' \/ Repaid(v, vlog')
    BY <1>a, <1>b, <1>c, <1>d
<1>1. CASE NextJob(t)
  <2>1. vlog' = vlog /\ task[t].pc = "top"
      BY <1>1 DEF NextJob
  <2>2. /\ task'[t].next_release = task[t].next_release
        /\ \/ task'[t].pc = "done" /\ task'[t].job = task[t].job
           \/ task'[t].pc = "release" /\ task'[t].job = task[t].job + 1
      BY <1>1 DEF NextJob
  <2>3. v.task = t => (OnTheWay(v) => OnTheWay(v)')
      BY <1>0, <2>1, <2>2 DEF OnTheWay
  <2> QED BY <1>d, <2>1, <2>3
<1>2. CASE InitTask(t) \/ BeginWork(t) \/ Finish(t) \/ GoOn(t) \/ Suspend(t)
             \/ PollFlag(t) \/ BeginSlice(t) \/ EndSlice(t)
  <2>1. vlog' = vlog /\ task[t].pc \notin {"top", "done", "release"}
      BY <1>2 DEF InitTask, BeginWork, Finish, GoOn, Suspend, PollFlag,
         BeginSlice, EndSlice
  <2>2. ~ (v.task = t /\ OnTheWay(v))
      BY <2>1 DEF OnTheWay
  <2> QED BY <1>d, <2>1, <2>2
\* The start of the job is noted, as late as the task is by now.
<1>3. CASE Start(t)
  <2> DEFINE late == now - task[t].next_release
             entry == Violation(t, "StartDelay", late)
  <2>1. /\ late \in Int /\ task[t].job \in Nat \ {0}
        /\ task[t].pc = "release"
        /\ LogIfLate(t, "StartDelay", late)
      BY <1>3 DEF Start, LocalsInv
  <2>2. /\ vlog \subseteq vlog'
        /\ \A w \in vlog' \ vlog : w = entry
        /\ late > 0 => entry \in vlog'
      BY <2>1, LogFacts DEF ViolationKind
  <2>3. v \in vlog
      BY <1>b, <2>2 DEF Violation
  <2>4. ASSUME v.task = t, OnTheWay(v)
        PROVE  Repaid(v, vlog')
    <3>1. task[t].job = v.job + 1 /\ late >= v.delay /\ v.delay > 0
        BY <2>1, <2>3, <2>4 DEF OnTheWay
    <3>2. entry \in vlog'
        BY <2>1, <2>2, <2>3, <3>1
    <3> QED BY <2>4, <3>1, <3>2 DEF Repaid, Violation
  <2> QED BY <1>a, <1>b, <1>c, <2>2, <2>3, <2>4, RepaidStays
\* A late end is noted, and is no later than the next job's release is past.
<1>4. CASE Account(t)
  <2> DEFINE late == task[t].finished_at - AbsDeadline(t)
             entry == Violation(t, "CompletionDelay", late)
  <2>1. /\ late \in Int /\ task[t].job \in Nat \ {0}
        /\ task[t].pc = "account"
        /\ LogIfLate(t, "CompletionDelay", late)
      BY <1>4, ConstantFacts DEF Account, LocalsInv, AbsDeadline
  <2>2. /\ vlog \subseteq vlog'
        /\ \A w \in vlog' \ vlog : w = entry
      BY <2>1, LogFacts DEF ViolationKind
  <2>3. CASE v \in vlog
    <3>1. ~ (v.task = t /\ OnTheWay(v))
        BY <2>1 DEF OnTheWay
    <3> QED BY <1>a, <1>b, <1>c, <2>2, <2>3, <3>1, RepaidStays
  <2>4. CASE v \notin vlog
    <3>1. v = entry
        BY <1>b, <2>2, <2>4
    <3>2. v.task = t /\ v.job = task[t].job /\ v.delay = late
        BY <3>1 DEF Violation
    <3>3. /\ task'[t].pc = "top" /\ task'[t].job = task[t].job
          /\ task'[t].next_release = task[t].next_release + Period[t]
        BY <1>4 DEF Account, NextRelease
    <3>4. now - (task[t].next_release + Period[t]) >= late
        BY ConstantFacts DEF LocalsInv, AbsDeadline
    <3> QED BY <1>0, <3>2, <3>3, <3>4 DEF OnTheWay
  <2> QED BY <2>3, <2>4
<1> QED BY <1>1, <1>2, <1>3, <1>4 DEF Step, TaskStep

-----------------------------------------------------------------------------
(* The invariant, and what it shows.                                       *)

\* Time makes late tasks later and changes nothing else.
LEMMA TickInv ==
    ASSUME Inv, Tick
    PROVE  Inv'
<1>1. /\ UNCHANGED <<preempt_flag, vlog, cpu_nanos, task, begun>>
      /\ now' = now + 1 /\ now \in Nat
    BY TypeFacts DEF Tick, Inv
<1>2. TypeOK' /\ ThermalInv' /\ FlagFollowsThermal' /\ SliceInv'
    BY <1>1 DEF Inv, TypeOK, ThermalInv, FlagFollowsThermal, SliceInv, At
<1>3. LocalsInv'
    BY <1>1, TypeFacts DEF Inv, LocalsInv, Locals
<1>4. LatenessInv'
  <2>1. \A v \in vlog : /\ v.task \in Tasks /\ v.delay \in Nat
                        /\ task[v.task].next_release \in Nat
      BY TypeFacts DEF Inv, Entry, Locals
  <2> QED BY <1>1, <2>1 DEF Inv, LatenessInv, At, Repaid
<1> QED BY <1>2, <1>3, <1>4 DEF Inv

\* The inductive invariant holds in every state of the scheduler.
THEOREM Invariance == Spec => []Inv
<1>1. Init => Inv
    BY InitInv
<1>2. Inv /\ [Next]_vars => Inv'
  <2> SUFFICES ASSUME Inv, [Next]_vars
               PROVE  Inv'
      OBVIOUS
  <2>1. CASE Tick
      BY <2>1, TickInv
  <2>2. ASSUME NEW t \in Tasks, Step(t)
        PROVE  Inv'
      BY <2>2, TaskStepTypeOK, TaskStepLocalsInv, TaskStepThermalInv,
         TaskStepFlagFollowsThermal, TaskStepSliceInv, TaskStepLatenessInv
      DEF Inv
  <2>3. CASE UNCHANGED vars
      BY <2>3 DEF vars, Inv, TypeOK, LocalsInv, ThermalInv, FlagFollowsThermal,
         SliceInv, LatenessInv, At, Repaid
  <2> QED BY <2>1, <2>2, <2>3 DEF Next
<1> QED BY <1>1, <1>2, PTL DEF Spec

\* The locals of the tasks, the flag, the log and the CPU counter have their types:
\* the active time counted is never negative and every violation names a job.
THEOREM TypeCorrect == Spec => []TypeOK
BY Invariance, PTL DEF Inv

\* The flag is up exactly while ThermalControl is in its work.
THEOREM FlagFollows == Spec => []FlagFollowsThermal
BY Invariance, PTL DEF Inv

\* However late the threads get the processor, no other task begins more than one
\* slice while ThermalControl holds the flag up.
THEOREM OneSlice == Spec => []OneSliceUnderThermal
<1>1. Inv => OneSliceUnderThermal
    BY DEF Inv, SliceInv, OneSliceUnderThermal
<1> QED BY <1>1, Invariance, PTL

\* A late end is followed by a start of the task's next job that is at least as late
\* and is logged, for any periods, work and delays.
THEOREM LatenessIsPassedOn == Spec => []LateFinishDelaysNext
<1>1. Inv => LateFinishDelaysNext
    BY DEF Inv, LatenessInv, Repaid, LateFinishDelaysNext
<1> QED BY <1>1, Invariance, PTL

-----------------------------------------------------------------------------
(* Response times.  What follows is about threads that get the processor   *)
(* as soon as they are ready, and task sets that leave them the time.      *)

\* The work of a job is done without interference from ThermalControl, or with one
\* activation of it: so much time each period leaves.
Fits ==
    /\ PromptFrom = 0
    /\ \A t \in Tasks : Wcet[t] <= Period[t]
    /\ \A t, u \in Tasks : IsThermal(u) /\ ~ IsThermal(t) =>
         /\ Wcet[t] + Wcet[u] + Poll <= Period[t]
         /\ Wcet[t] + Wcet[u] + Poll <= Period[u]

Working(t) == task[t].pc \in {"check", "slice", "working"}

\* When the work of t will be done, unless it is suspended.
WorkEnds(t) == IF At(t, "working") THEN task[t].wake + task[t].remaining - SliceOf(t)
                                   ELSE now + task[t].remaining

\* A job starts at its release, and goes on without a pause until it is done or
\* suspended.
OnTime(t) ==
    LET x == task[t] IN
    /\ x.pc = "init" => now = 0 /\ x.next_release = 0
    /\ x.pc \in {"top", "release"} => now <= x.next_release
    /\ x.pc = "begin" => now = x.next_release
    /\ x.pc \in {"slice", "working", "suspended"} => x.remaining > 0
    /\ x.pc \in {"working", "suspended"} => now <= x.wake
    /\ Working(t) \/ At(t, "suspended") =>
         x.next_release <= now /\ x.remaining <= Wcet[t]
    /\ x.pc = "account" => x.next_release <= now /\ x.finished_at = now
    /\ ~ x.preempted =>
         /\ Working(t) => WorkEnds(t) = x.next_release + Wcet[t]
         /\ x.pc = "account" => now = x.next_release + Wcet[t]
         /\ x.pc # "suspended"
    /\ x.preempted => /\ x.pc \in {"check", "slice", "working", "suspended", "account"}
                      /\ ~ IsThermal(t) /\ \E u \in Tasks : IsThermal(u)

\* When ThermalControl, u, was released last.
LastRelease(u) == IF preempt_flag THEN task[u].next_release
                                  ELSE task[u].next_release - Period[u]

\* A job is suspended for one activation of ThermalControl only, and is done
\* before the next.
Delayed(t) ==
    LET x == task[t] IN
    \A u \in Tasks : IsThermal(u) /\ x.preempted =>
        LET Bound == x.next_release + Wcet[t] + Wcet[u] + Poll IN
        /\ x.pc = "suspended" => /\ x.wake <= LastRelease(u) + Wcet[u] + Poll
                                 /\ LastRelease(u) + x.remaining <= x.next_release + Wcet[t]
        /\ Working(t) => WorkEnds(t) <= task[u].next_release /\ WorkEnds(t) <= Bound
        /\ x.pc = "account" => now <= Bound

PromptInv == vlog = {} /\ \A t \in Tasks : OnTime(t) /\ Delayed(t)

\* The record of t after a step.
Becomes(t, label, release, remaining, wake, finished, preempted) ==
    LET x == task'[t] IN
    /\ x.pc = label /\ x.next_release = release /\ x.remaining = remaining
    /\ x.wake = wake /\ x.finished_at = finished /\ x.preempted = preempted

\* What each action does with the times of its task, and with the flag.
LEMMA StepFacts ==
    ASSUME TypeOK, NEW t \in Tasks, Step(t)
    PROVE  LET x == task[t] IN
           /\ now' = now
           /\ \A u \in Tasks : u # t => task'[u] = task[u]
           /\ ~ IsThermal(t) => preempt_flag' = preempt_flag
           /\ InitTask(t) =>
                 /\ x.pc = "init"
                 /\ Becomes(t, "top", now, x.remaining, x.wake, x.finished_at, x.preempted)
                 /\ UNCHANGED <<preempt_flag, vlog>>
           /\ NextJob(t) =>
                 /\ x.pc = "top"
                 /\ \E label \in {"done", "release"} :
                      Becomes(t, label, x.next_release, x.remaining, x.wake,
                              x.finished_at, x.preempted)
                 /\ UNCHANGED <<preempt_flag, vlog>>
           /\ Start(t) =>
                 /\ x.pc = "release" /\ now >= x.next_release
                 /\ Becomes(t, "begin", x.next_release, x.remaining, x.wake,
                            x.finished_at, x.preempted)
                 /\ LogIfLate(t, "StartDelay", now - x.next_release)
                 /\ UNCHANGED preempt_flag
           /\ BeginWork(t) =>
                 /\ x.pc = "begin"
                 /\ Becomes(t, "check", x.next_release, Wcet[t], x.wake,
                            x.finished_at, x.preempted)
                 /\ UNCHANGED vlog /\ (IsThermal(t) => preempt_flag')
           /\ Finish(t) =>
                 /\ x.pc = "check" /\ x.remaining = 0
                 /\ Becomes(t, "account", x.next_release, x.remaining, x.wake, now,
                            x.preempted)
                 /\ UNCHANGED <<preempt_flag, vlog>>
           /\ Account(t) =>
                 /\ x.pc = "account"
                 /\ Becomes(t, "top", x.next_release + Period[t], x.remaining, x.wake,
                            0, FALSE)
                 /\ LogIfLate(t, "CompletionDelay",
                              x.finished_at - (x.next_release + Period[t]))
                 /\ (IsThermal(t) => ~ preempt_flag')
           /\ GoOn(t) =>
                 /\ x.pc = "check" /\ x.remaining > 0
                 /\ Becomes(t, "slice", x.next_release, x.remaining, x.wake,
                            x.finished_at, x.preempted)
                 /\ UNCHANGED <<preempt_flag, vlog>>
           /\ Suspend(t) =>
                 /\ x.pc = "check" /\ x.remaining > 0 /\ ~ IsThermal(t) /\ preempt_flag
                 /\ Becomes(t, "suspended", x.next_release, x.remaining, now,
                            x.finished_at, TRUE)
                 /\ UNCHANGED <<preempt_flag, vlog>>
           /\ PollFlag(t) =>
                 /\ x.pc = "suspended" /\ now >= x.wake
                 /\ IF preempt_flag
                    THEN Becomes(t, "suspended", x.next_release, x.remaining,
                                 now + Poll, x.finished_at, x.preempted)
                    ELSE Becomes(t, "slice", x.next_release, x.remaining, x.wake,
                                 x.finished_at, x.preempted)
                 /\ UNCHANGED <<preempt_flag, vlog>>
           /\ BeginSlice(t) =>
                 /\ x.pc = "slice"
                 /\ Becomes(t, "working", x.next_release, x.remaining,
                            now + SliceOf(t), x.finished_at, x.preempted)
                 /\ UNCHANGED <<preempt_flag, vlog>>
           /\ EndSlice(t) =>
                 /\ x.pc = "working" /\ now >= x.wake
                 /\ Becomes(t, "check", x.next_release, x.remaining - SliceOf(t), 0,
                            x.finished_at, x.preempted)
                 /\ UNCHANGED <<preempt_flag, vlog>>
<1> USE TypeFacts DEF Locals, At, Becomes, InitTask, NextJob, Start, BeginWork, Finish,
        Account, GoOn, Suspend, PollFlag, BeginSlice, EndSlice
<1>0. now' = now /\ \A u \in Tasks : u # t => task'[u] = task[u]
    BY OthersUntouched DEF Step
<1>1. CASE InitTask(t)
    BY <1>0, <1>1
<1>2. CASE NextJob(t)
    BY <1>0, <1>2
<1>3. CASE Start(t)
    BY <1>0, <1>3
<1>4. CASE BeginWork(t)
    <2>1. /\ task[t].pc = "begin" /\ UNCHANGED vlog
          /\ IsThermal(t) => preempt_flag'
          /\ ~ IsThermal(t) => preempt_flag' = preempt_flag
        BY <1>4
    <2>2. Becomes(t, "check", task[t].next_release, Wcet[t], task[t].wake,
                  task[t].finished_at, task[t].preempted)
        BY <1>4
    <2>3. ~ (\/ InitTask(t) \/ NextJob(t) \/ Start(t) \/ Finish(t) \/ Account(t)
             \/ GoOn(t) \/ Suspend(t) \/ PollFlag(t) \/ BeginSlice(t) \/ EndSlice(t))
        BY <2>1
    <2> HIDE DEF InitTask, NextJob, Start, BeginWork, Finish, Account, GoOn, Suspend,
            PollFlag, BeginSlice, EndSlice, Becomes
    <2> QED BY <1>0, <2>1, <2>2, <2>3
<1>5. CASE Finish(t)
    BY <1>0, <1>5
<1>6. CASE Account(t)
    BY <1>0, <1>6 DEF AbsDeadline, NextRelease, LowersFlag
<1>7. CASE GoOn(t)
    BY <1>0, <1>7
<1>8. CASE Suspend(t)
    BY <1>0, <1>8
<1>9. CASE PollFlag(t)
    BY <1>0, <1>9
<1>10. CASE BeginSlice(t)
    BY <1>0, <1>10
<1>11. CASE EndSlice(t)
    BY <1>0, <1>11
<1> HIDE DEF InitTask, NextJob, Start, BeginWork, Finish, Account, GoOn, Suspend,
        PollFlag, BeginSlice, EndSlice, Becomes
<1> QED
    BY <1>1, <1>2, <1>3, <1>4, <1>5, <1>6, <1>7, <1>8, <1>9, <1>10, <1>11
    DEF Step, TaskStep

\* The times are numbers; the work, the periods and the poll take time.
LEMMA Numbers ==
    ASSUME TypeOK, NEW t \in Tasks
    PROVE  /\ now \in Nat /\ Period[t] \in Nat \ {0} /\ Wcet[t] \in Nat \ {0}
           /\ Poll \in Nat \ {0} /\ Slice \in Nat \ {0}
           /\ task[t].next_release \in Nat /\ task[t].remaining \in Nat
           /\ task[t].wake \in Nat /\ task[t].finished_at \in Nat
           /\ task[t].preempted \in BOOLEAN
BY SchedulerAssumption, TypeFacts DEF Locals

\* A slice that has begun is followed by the rest of the work.
LEMMA SliceInWork ==
    ASSUME TypeOK, NEW t \in Tasks
    PROVE  /\ SliceOf(t) \in Nat /\ SliceOf(t) <= task[t].remaining
           /\ task[t].remaining > 0 => SliceOf(t) > 0
           /\ WorkEnds(t) \in Int
BY Numbers DEF SliceOf, WorkEnds

\* ThermalControl holds the flag up for no longer than its work takes.
LEMMA Window ==
    ASSUME Inv, NEW u \in Tasks, IsThermal(u), OnTime(u)
    PROVE  /\ preempt_flag <=> task[u].pc \in {"check", "slice", "working", "account"}
           /\ preempt_flag => /\ task[u].next_release <= now
                              /\ now <= task[u].next_release + Wcet[u]
<1>1. TypeOK /\ FlagFollowsThermal
    BY DEF Inv
<1>2. preempt_flag <=> task[u].pc \in {"check", "slice", "working", "account"}
    BY <1>1 DEF FlagFollowsThermal, IsThermal
<1>3. ASSUME preempt_flag
      PROVE  /\ task[u].next_release <= now
             /\ now <= task[u].next_release + Wcet[u]
    <2>1. task[u].pc \in {"check", "slice", "working", "account"}
        BY <1>2, <1>3
    <2>2. ~ task[u].preempted
        BY <2>1 DEF OnTime
    <2>3. CASE task[u].pc = "account"
        BY <1>1, <2>2, <2>3, Numbers DEF OnTime
    <2>4. CASE task[u].pc # "account"
        <3>1. /\ task[u].next_release <= now
              /\ WorkEnds(u) = task[u].next_release + Wcet[u]
              /\ At(u, "working") => now <= task[u].wake
            BY <2>1, <2>2, <2>4 DEF OnTime, Working, At
        <3>2. now <= WorkEnds(u)
            BY <1>1, <3>1, Numbers, SliceInWork DEF WorkEnds
        <3> QED BY <3>1, <3>2
    <2> QED BY <2>3, <2>4
<1> QED BY <1>2, <1>3

\* A step of a task is taken in time.
LEMMA StepOnTime ==
    ASSUME Fits, Inv, PromptInv, NEW t \in Tasks, Step(t)
    PROVE  OnTime(t)'
<1> DEFINE x == task[t]
<1>1. /\ TypeOK /\ OnTime(t) /\ Delayed(t) /\ now' = now
      /\ Wcet[t] <= Period[t]
    BY StepFacts DEF Inv, PromptInv, Fits
<1>2. CASE InitTask(t)
    <2>0. /\ x.pc = "init"
          /\ Becomes(t, "top", now, x.remaining, x.wake, x.finished_at, x.preempted)
        BY <1>1, <1>2, StepFacts
    <2> QED BY <1>1, <2>0, Numbers DEF Becomes, OnTime, Working, At
<1>3. CASE NextJob(t)
    <2>0. /\ x.pc = "top"
          /\ \E label \in {"done", "release"} :
               Becomes(t, label, x.next_release, x.remaining, x.wake,
                       x.finished_at, x.preempted)
        BY <1>1, <1>3, StepFacts
    <2> QED BY <1>1, <2>0, Numbers DEF Becomes, OnTime, Working, At
<1>4. CASE Start(t)
    <2>0. /\ x.pc = "release" /\ now >= x.next_release
          /\ Becomes(t, "begin", x.next_release, x.remaining, x.wake,
                     x.finished_at, x.preempted)
        BY <1>1, <1>4, StepFacts
    <2> QED BY <1>1, <2>0, Numbers DEF Becomes, OnTime, Working, At
<1>5. CASE BeginWork(t)
    <2>0. /\ x.pc = "begin"
          /\ Becomes(t, "check", x.next_release, Wcet[t], x.wake,
                     x.finished_at, x.preempted)
        BY <1>1, <1>5, StepFacts
    <2>1. WorkEnds(t)' = now + Wcet[t]
        BY <1>1, <2>0 DEF Becomes, WorkEnds, At
    <2> QED BY <1>1, <2>0, <2>1, Numbers DEF Becomes, OnTime, Working, At
<1>6. CASE Finish(t)
    <2>0. /\ x.pc = "check" /\ x.remaining = 0
          /\ Becomes(t, "account", x.next_release, x.remaining, x.wake, now,
                     x.preempted)
        BY <1>1, <1>6, StepFacts
    <2>1. WorkEnds(t) = now
        BY <1>1, <2>0, Numbers DEF Becomes, WorkEnds, At
    <2> QED BY <1>1, <2>0, <2>1, Numbers DEF Becomes, OnTime, Working, At
<1>7. CASE Account(t)
    <2>0. /\ x.pc = "account"
          /\ Becomes(t, "top", x.next_release + Period[t], x.remaining, x.wake,
                     0, FALSE)
        BY <1>1, <1>7, StepFacts
    <2>1. now <= x.next_release + Period[t]
        <3>1. CASE ~ x.preempted
            BY <1>1, <2>0, <3>1, Numbers DEF OnTime
        <3>2. CASE x.preempted
            <4>1. PICK u \in Tasks : IsThermal(u)
                BY <1>1, <3>2 DEF OnTime
            <4>2. Wcet[t] + Wcet[u] + Poll <= Period[t]
                BY <1>1, <3>2, <4>1 DEF OnTime, Fits
            <4>3. now <= x.next_release + Wcet[t] + Wcet[u] + Poll
                BY <1>1, <2>0, <3>2, <4>1 DEF Delayed
            <4> QED BY <1>1, <4>2, <4>3, Numbers
        <3> QED BY <3>1, <3>2
    <2> QED BY <1>1, <2>0, <2>1, Numbers DEF Becomes, OnTime, Working, At
<1>8. CASE GoOn(t)
    <2>0. /\ x.pc = "check" /\ x.remaining > 0
          /\ Becomes(t, "slice", x.next_release, x.remaining, x.wake,
                     x.finished_at, x.preempted)
        BY <1>1, <1>8, StepFacts
    <2>1. WorkEnds(t)' = WorkEnds(t)
        BY <1>1, <2>0 DEF Becomes, WorkEnds, At
    <2> QED BY <1>1, <2>0, <2>1, Numbers DEF Becomes, OnTime, Working, At
<1>9. CASE Suspend(t)
    <2>0. /\ x.pc = "check" /\ x.remaining > 0 /\ ~ IsThermal(t) /\ preempt_flag
          /\ Becomes(t, "suspended", x.next_release, x.remaining, now,
                     x.finished_at, TRUE)
        BY <1>1, <1>9, StepFacts
    <2>1. \E u \in Tasks : IsThermal(u)
        BY <2>0 DEF Inv, FlagFollowsThermal
    <2> QED BY <1>1, <2>0, <2>1, Numbers DEF Becomes, OnTime, Working, At
<1>10. CASE PollFlag(t)
    <2>0. /\ x.pc = "suspended" /\ now >= x.wake
          /\ IF preempt_flag
             THEN Becomes(t, "suspended", x.next_release, x.remaining,
                          now + Poll, x.finished_at, x.preempted)
             ELSE Becomes(t, "slice", x.next_release, x.remaining, x.wake,
                          x.finished_at, x.preempted)
        BY <1>1, <1>10, StepFacts
    <2>1. x.preempted /\ x.remaining > 0 /\ x.next_release <= now
          /\ x.remaining <= Wcet[t] /\ ~ IsThermal(t) /\ \E u \in Tasks : IsThermal(u)
        BY <1>1, <2>0 DEF OnTime, At
    <2>2. CASE preempt_flag
        <3>1. Becomes(t, "suspended", x.next_release, x.remaining, now + Poll,
                      x.finished_at, x.preempted)
            BY <2>0, <2>2
        <3> QED BY <1>1, <2>1, <3>1, Numbers DEF Becomes, OnTime, Working, At
    <2>3. CASE ~ preempt_flag
        BY <1>1, <2>0, <2>1, <2>3, Numbers DEF Becomes, OnTime, Working, At
    <2> QED BY <2>2, <2>3
<1>11. CASE BeginSlice(t)
    <2>0. /\ x.pc = "slice"
          /\ Becomes(t, "working", x.next_release, x.remaining,
                     now + SliceOf(t), x.finished_at, x.preempted)
        BY <1>1, <1>11, StepFacts
    <2>1. SliceOf(t)' = SliceOf(t)
        BY <2>0 DEF Becomes, SliceOf
    <2>2. WorkEnds(t)' = WorkEnds(t)
        BY <1>1, <2>0, <2>1, Numbers, SliceInWork DEF Becomes, WorkEnds, At
    <2> QED BY <1>1, <2>0, <2>2, Numbers, SliceInWork DEF Becomes, OnTime, Working, At
<1>12. CASE EndSlice(t)
    <2>0. /\ x.pc = "working" /\ now >= x.wake
          /\ Becomes(t, "check", x.next_release, x.remaining - SliceOf(t), 0,
                     x.finished_at, x.preempted)
        BY <1>1, <1>12, StepFacts
    <2>1. now = x.wake
        BY <1>1, <2>0, Numbers DEF OnTime
    <2>2. WorkEnds(t)' = WorkEnds(t)
        BY <1>1, <2>0, <2>1, Numbers, SliceInWork DEF Becomes, WorkEnds, At
    <2> QED BY <1>1, <2>0, <2>2, Numbers, SliceInWork DEF Becomes, OnTime, Working, At
<1> QED
    BY <1>2, <1>3, <1>4, <1>5, <1>6, <1>7, <1>8, <1>9, <1>10, <1>11, <1>12
    DEF Step, TaskStep

\* What one activation of ThermalControl costs the job of t.
LEMMA StepDelayed ==
    ASSUME Fits, Inv, PromptInv, NEW t \in Tasks, Step(t)
    PROVE  Delayed(t)'
<1> DEFINE x == task[t]
<1>1. /\ TypeOK /\ OnTime(t) /\ Delayed(t) /\ now' = now /\ OnTime(t)'
    BY StepFacts, StepOnTime DEF Inv, PromptInv
<1> SUFFICES ASSUME NEW u \in Tasks, IsThermal(u), task'[t].preempted
             PROVE  LET y == task'[t]
                        Bound == y.next_release + Wcet[t] + Wcet[u] + Poll
                    IN /\ y.pc = "suspended" =>
                            /\ y.wake <= LastRelease(u)' + Wcet[u] + Poll
                            /\ LastRelease(u)' + y.remaining <= y.next_release + Wcet[t]
                       /\ Working(t)' => /\ WorkEnds(t)' <= task'[u].next_release
                                         /\ WorkEnds(t)' <= Bound
                       /\ y.pc = "account" => now' <= Bound
    BY DEF Delayed
<1>2. ~ IsThermal(t) /\ u # t
    BY <1>1 DEF OnTime
<1>3. /\ task'[u] = task[u] /\ preempt_flag' = preempt_flag
      /\ LastRelease(u)' = LastRelease(u)
    <2>1. task'[u] = task[u] /\ preempt_flag' = preempt_flag
        BY <1>1, <1>2, StepFacts
    <2> QED BY <2>1 DEF LastRelease
<1>4. /\ preempt_flag => /\ task[u].next_release <= now
                         /\ now <= task[u].next_release + Wcet[u]
                         /\ LastRelease(u) = task[u].next_release
      /\ ~ preempt_flag => LastRelease(u) = task[u].next_release - Period[u]
    BY Window DEF PromptInv, LastRelease
<1>5. /\ Wcet[t] + Wcet[u] + Poll <= Period[u]
      /\ task[u].next_release \in Nat /\ Wcet[u] \in Nat /\ Period[u] \in Nat
    BY <1>1, <1>2, Numbers DEF Fits
<1>6. x.preempted =>
         LET Bound == x.next_release + Wcet[t] + Wcet[u] + Poll IN
         /\ x.pc = "suspended" =>
              /\ x.wake <= LastRelease(u) + Wcet[u] + Poll
              /\ LastRelease(u) + x.remaining <= x.next_release + Wcet[t]
         /\ Working(t) => WorkEnds(t) <= task[u].next_release /\ WorkEnds(t) <= Bound
         /\ x.pc = "account" => now <= Bound
    BY <1>1 DEF Delayed
<1> USE DEF Becomes
<1>7. CASE InitTask(t) \/ NextJob(t) \/ Start(t) \/ BeginWork(t) \/ Account(t)
    <2>1. task'[t].pc \notin {"account", "suspended"} /\ ~ task'[t].preempted
        <3>1. x.pc \in {"init", "top", "release", "begin"} => ~ x.preempted
            BY <1>1 DEF OnTime
        <3> QED BY <1>1, <1>7, <3>1, StepFacts
    <2> QED BY <2>1
<1>8. CASE Finish(t)
    <2>1. /\ x.pc = "check" /\ x.remaining = 0
          /\ Becomes(t, "account", x.next_release, x.remaining, x.wake, now,
                     x.preempted)
        BY <1>1, <1>8, StepFacts
    <2>2. Working(t) /\ WorkEnds(t) = now
        BY <1>1, <2>1, Numbers DEF WorkEnds, Working, At
    <2> QED BY <1>1, <1>6, <2>1, <2>2 DEF Working
<1>9. CASE GoOn(t)
    <2>1. /\ x.pc = "check"
          /\ Becomes(t, "slice", x.next_release, x.remaining, x.wake,
                     x.finished_at, x.preempted)
        BY <1>1, <1>9, StepFacts
    <2>2. Working(t) /\ WorkEnds(t)' = WorkEnds(t)
        BY <1>1, <2>1 DEF WorkEnds, Working, At
    <2> QED BY <1>3, <1>6, <2>1, <2>2
\* The flag is up: this is the first activation that the job meets.
<1>10. CASE Suspend(t)
    <2>1. /\ x.pc = "check" /\ x.remaining > 0 /\ preempt_flag
          /\ Becomes(t, "suspended", x.next_release, x.remaining, now,
                     x.finished_at, TRUE)
        BY <1>1, <1>10, StepFacts
    <2>2. Working(t) /\ WorkEnds(t) = now + x.remaining
        BY <2>1 DEF WorkEnds, Working, At
    <2>3. ~ x.preempted
        BY <1>1, <1>4, <1>5, <1>6, <2>1, <2>2, Numbers
    <2>4. now + x.remaining = x.next_release + Wcet[t]
        BY <1>1, <2>2, <2>3 DEF OnTime
    <2>5. /\ now <= LastRelease(u) + Wcet[u] + Poll
          /\ LastRelease(u) + x.remaining <= x.next_release + Wcet[t]
        BY <1>1, <1>4, <1>5, <2>1, <2>4, Numbers
    <2> QED BY <1>3, <2>1, <2>5 DEF Working
<1>11. CASE PollFlag(t)
    <2>1. /\ x.pc = "suspended" /\ now >= x.wake /\ x.preempted
          /\ x.remaining <= Wcet[t] /\ now <= x.wake
        BY <1>1, <1>11, StepFacts DEF OnTime, At
    <2>2. now = x.wake
        BY <1>1, <2>1, Numbers
    <2>3. CASE preempt_flag
        <3>1. Becomes(t, "suspended", x.next_release, x.remaining, now + Poll,
                      x.finished_at, x.preempted)
            BY <1>1, <1>11, <2>3, StepFacts
        <3>2. now + Poll <= LastRelease(u) + Wcet[u] + Poll
            BY <1>1, <1>4, <1>5, <2>3, Numbers
        <3> QED BY <1>3, <1>6, <2>1, <3>1, <3>2 DEF Working
    <2>4. CASE ~ preempt_flag
        <3>1. Becomes(t, "slice", x.next_release, x.remaining, x.wake, x.finished_at,
                      x.preempted)
            BY <1>1, <1>11, <2>4, StepFacts
        <3>2. WorkEnds(t)' = now + x.remaining
            BY <1>1, <3>1 DEF WorkEnds, At
        <3>3. /\ now + x.remaining <= task[u].next_release
              /\ now + x.remaining <= x.next_release + Wcet[t] + Wcet[u] + Poll
            BY <1>1, <1>4, <1>5, <1>6, <2>1, <2>2, <2>4, Numbers
        <3> QED BY <1>3, <3>1, <3>2, <3>3
    <2> QED BY <2>3, <2>4
<1>12. CASE BeginSlice(t)
    <2>1. /\ x.pc = "slice"
          /\ Becomes(t, "working", x.next_release, x.remaining, now + SliceOf(t),
                     x.finished_at, x.preempted)
        BY <1>1, <1>12, StepFacts
    <2>2. SliceOf(t)' = SliceOf(t)
        BY <2>1 DEF SliceOf
    <2>3. Working(t) /\ WorkEnds(t)' = WorkEnds(t)
        BY <1>1, <2>1, <2>2, Numbers, SliceInWork DEF WorkEnds, Working, At
    <2> QED BY <1>3, <1>6, <2>1, <2>3
<1>13. CASE EndSlice(t)
    <2>1. /\ x.pc = "working" /\ now >= x.wake
          /\ Becomes(t, "check", x.next_release, x.remaining - SliceOf(t), 0,
                     x.finished_at, x.preempted)
        BY <1>1, <1>13, StepFacts
    <2>2. now = x.wake
        BY <1>1, <2>1, Numbers DEF OnTime
    <2>3. Working(t) /\ WorkEnds(t)' = WorkEnds(t)
        BY <1>1, <2>1, <2>2, Numbers, SliceInWork DEF WorkEnds, Working, At
    <2> QED BY <1>3, <1>6, <2>1, <2>3
<1> QED
    BY <1>7, <1>8, <1>9, <1>10, <1>11, <1>12, <1>13 DEF Step, TaskStep

\* The others are where they were, and ThermalControl begins its work when nobody
\* is suspended any more.
LEMMA OthersStay ==
    ASSUME Fits, Inv, PromptInv, NEW t \in Tasks, Step(t), NEW w \in Tasks, w # t
    PROVE  OnTime(w)' /\ Delayed(w)'
<1>1. /\ TypeOK /\ OnTime(w) /\ Delayed(w) /\ OnTime(t) /\ now' = now
      /\ task'[w] = task[w]
    BY StepFacts DEF Inv, PromptInv
<1>2. /\ Working(w)' <=> Working(w)
      /\ WorkEnds(w)' = WorkEnds(w)
    BY <1>1 DEF Working, WorkEnds, SliceOf, At
<1>3. OnTime(w)'
    BY <1>1, <1>2 DEF OnTime, At
<1>4. ASSUME NEW u \in Tasks, IsThermal(u), task[w].preempted
      PROVE  /\ task[w].pc = "suspended" =>
                  /\ task[w].wake <= LastRelease(u)' + Wcet[u] + Poll
                  /\ LastRelease(u)' + task[w].remaining
                       <= task[w].next_release + Wcet[w]
             /\ Working(w) => WorkEnds(w) <= task'[u].next_release
    <2>1. /\ task[w].pc = "suspended" =>
               /\ task[w].wake <= LastRelease(u) + Wcet[u] + Poll
               /\ LastRelease(u) + task[w].remaining <= task[w].next_release + Wcet[w]
          /\ Working(w) => WorkEnds(w) <= task[u].next_release
        BY <1>1, <1>4 DEF Delayed
    <2>2. CASE u # t
        <3>1. ~ IsThermal(t)
            BY <1>4, <2>2 DEF IsThermal
        <3>2. task'[u] = task[u] /\ preempt_flag' = preempt_flag
            BY <1>1, <2>2, <3>1, StepFacts
        <3> QED BY <2>1, <3>2 DEF LastRelease
    <2>3. CASE u = t
        <3>1. /\ preempt_flag <=> task[u].pc \in {"check", "slice", "working", "account"}
              /\ task[u].next_release \in Nat /\ Period[u] \in Nat
            BY <1>1, <1>4, <2>3, Window, Numbers
        <3>2. CASE BeginWork(t)
            <4>1. /\ task[u].pc = "begin" /\ task'[u].next_release = task[u].next_release
                  /\ now = task[u].next_release
                BY <1>1, <2>3, <3>2, StepFacts DEF OnTime, Becomes
            <4>2. task[w].pc # "suspended"
                <5>1. LastRelease(u) = task[u].next_release - Period[u]
                    BY <3>1, <4>1 DEF LastRelease
                <5>2. Wcet[w] + Wcet[u] + Poll <= Period[u]
                    BY <1>1, <1>4 DEF OnTime, Fits
                <5>3. task[w].pc = "suspended" => now <= task[w].wake
                    BY <1>1 DEF OnTime
                <5> QED BY <1>1, <2>1, <4>1, <5>1, <5>2, <5>3, Numbers
            <4> QED BY <2>1, <4>1, <4>2
        <3>3. CASE Account(t)
            <4>1. /\ task[u].pc = "account"
                  /\ task'[u].next_release = task[u].next_release + Period[u]
                  /\ ~ preempt_flag'
                BY <1>1, <1>4, <2>3, <3>3, StepFacts DEF Becomes
            <4>2. LastRelease(u)' = LastRelease(u)
                BY <3>1, <4>1 DEF LastRelease
            <4> QED BY <1>1, <2>1, <3>1, <4>1, <4>2, Numbers, SliceInWork
        <3>4. CASE InitTask(t)
            <4>1. /\ task[u].pc = "init" /\ task'[u].next_release = now
                  /\ preempt_flag' = preempt_flag
                BY <1>1, <2>3, <3>4, StepFacts DEF Becomes
            <4>2. task'[u].next_release = task[u].next_release
                BY <1>1, <2>3, <4>1 DEF OnTime
            <4> QED BY <2>1, <4>1, <4>2 DEF LastRelease
        <3>5. CASE \/ NextJob(t) \/ Start(t) \/ Finish(t) \/ GoOn(t)
                   \/ Suspend(t) \/ PollFlag(t) \/ BeginSlice(t) \/ EndSlice(t)
            <4>1. task'[u].next_release = task[u].next_release
                  /\ preempt_flag' = preempt_flag
                BY <1>1, <2>3, <3>5, StepFacts DEF Becomes
            <4> QED BY <2>1, <4>1 DEF LastRelease
        <3> QED BY <3>2, <3>3, <3>4, <3>5 DEF Step, TaskStep
    <2> QED BY <2>2, <2>3
<1>5. Delayed(w)'
    BY <1>1, <1>2, <1>4 DEF Delayed
<1> QED BY <1>3, <1>5

\* Nothing is late, so nothing is logged.
LEMMA StepLogsNothing ==
    ASSUME Fits, Inv, PromptInv, NEW t \in Tasks, Step(t)
    PROVE  vlog' = {}
<1> DEFINE x == task[t]
<1>1. TypeOK /\ OnTime(t) /\ OnTime(t)' /\ vlog = {} /\ now' = now
    BY StepOnTime, StepFacts DEF Inv, PromptInv
<1>2. CASE Start(t)
    <2>1. x.pc = "release" /\ LogIfLate(t, "StartDelay", now - x.next_release)
        BY <1>1, <1>2, StepFacts
    <2>2. ~ (now - x.next_release > 0)
        BY <1>1, <2>1, Numbers DEF OnTime
    <2> QED BY <1>1, <2>1, <2>2 DEF LogIfLate
<1>3. CASE Account(t)
    <2>1. /\ x.pc = "account" /\ task'[t].pc = "top"
          /\ task'[t].next_release = x.next_release + Period[t]
          /\ LogIfLate(t, "CompletionDelay",
                       x.finished_at - (x.next_release + Period[t]))
        BY <1>1, <1>3, StepFacts DEF Becomes
    <2>2. ~ (x.finished_at - (x.next_release + Period[t]) > 0)
        BY <1>1, <2>1, Numbers DEF OnTime
    <2> QED BY <1>1, <2>1, <2>2 DEF LogIfLate
<1>4. CASE ~ Start(t) /\ ~ Account(t)
    BY <1>1, <1>4, StepFacts DEF Step, TaskStep
<1> QED BY <1>2, <1>3, <1>4

\* Time passes only while every task waits for its release or its wake.
LEMMA TickInTime ==
    ASSUME Fits, Inv, PromptInv, Tick
    PROVE  PromptInv'
<1>1. /\ UNCHANGED <<preempt_flag, vlog, cpu_nanos, task, begun>> /\ now' = now + 1
      /\ \A t \in Tasks : ~ Ready(t)
    <2>1. now >= PromptFrom
        BY Numbers DEF Fits, Inv, TypeOK
    <2> QED BY <2>1 DEF Tick
<1>2. ASSUME NEW t \in Tasks
      PROVE  OnTime(t)' /\ Delayed(t)'
    <2>1. /\ TypeOK /\ OnTime(t) /\ Delayed(t) /\ task'[t] = task[t]
          /\ task[t].pc \in {"done", "release", "suspended", "working"}
          /\ task[t].pc = "release" => now < task[t].next_release
          /\ task[t].pc \in {"suspended", "working"} => now < task[t].wake
        BY <1>1, <1>2, Numbers DEF Inv, PromptInv, Ready, At
    <2>2. /\ Working(t)' <=> Working(t)
          /\ Working(t) => WorkEnds(t)' = WorkEnds(t)
        BY <1>1, <2>1 DEF Working, WorkEnds, SliceOf, At
    <2>3. OnTime(t)'
        BY <1>1, <2>1, <2>2, Numbers DEF OnTime, At
    <2>4. \A u \in Tasks : LastRelease(u)' = LastRelease(u)
        BY <1>1 DEF LastRelease
    <2>5. Delayed(t)'
        BY <1>1, <2>1, <2>2, <2>4 DEF Delayed
    <2> QED BY <2>3, <2>5
<1> QED BY <1>1, <1>2 DEF PromptInv

\* The invariant of prompt threads holds at the start, and every step keeps it.
LEMMA InitInTime == Init => PromptInv
<1> SUFFICES ASSUME Init, NEW t \in Tasks PROVE OnTime(t) /\ Delayed(t)
    BY DEF Init, PromptInv
<1>1. /\ now = 0 /\ task[t].pc = "init" /\ task[t].next_release = 0
      /\ ~ task[t].preempted
    BY DEF Init
<1> QED BY <1>1 DEF OnTime, Delayed, Working, At

LEMMA NextInTime == Fits /\ Inv /\ PromptInv /\ [Next]_vars => PromptInv'
<1> SUFFICES ASSUME Fits, Inv, PromptInv, [Next]_vars PROVE PromptInv'
    OBVIOUS
<1>1. CASE Tick
    BY <1>1, TickInTime
<1>2. ASSUME NEW t \in Tasks, Step(t)
      PROVE  PromptInv'
    BY <1>2, StepOnTime, StepDelayed, OthersStay, StepLogsNothing DEF PromptInv
<1>3. CASE UNCHANGED vars
    BY <1>3 DEF vars, PromptInv, OnTime, Delayed, Working, WorkEnds, SliceOf, At,
                LastRelease
<1> QED BY <1>1, <1>2, <1>3 DEF Next

\* ResponseBound: with prompt threads every task set that fits meets its deadlines, and
\* a job waits for one activation of ThermalControl and one poll at most.
THEOREM ResponsesAreBounded ==
    ASSUME Fits
    PROVE  Spec => []ResponseBound
<1>1. Inv /\ PromptInv => ResponseBound
    <2> SUFFICES ASSUME Inv, PromptInv, NEW t \in Tasks, At(t, "account")
                 PROVE  LET response == task[t].finished_at - task[t].next_release IN
                        /\ response <= IF IsThermal(t) THEN Wcet[t]
                                       ELSE Wcet[t] + ThermalWcet + Poll
                        /\ response > Wcet[t] => task[t].preempted
        BY DEF ResponseBound, PromptInv
    <2>1. TypeOK /\ OnTime(t) /\ Delayed(t)
        BY DEF Inv, PromptInv
    <2>2. task[t].pc = "account" /\ task[t].finished_at = now
        BY <2>1 DEF OnTime, At
    <2>3. ThermalWcet \in Nat
        BY SchedulerAssumption DEF ThermalWcet
    <2>4. CASE ~ task[t].preempted
        <3>1. now = task[t].next_release + Wcet[t]
            BY <2>1, <2>2, <2>4 DEF OnTime
        <3> QED BY <2>1, <2>2, <2>3, <2>4, <3>1, Numbers
    <2>5. CASE task[t].preempted
        <3>1. ~ IsThermal(t) /\ \E u \in Tasks : IsThermal(u)
            BY <2>1, <2>5 DEF OnTime
        <3>2. PICK u \in Tasks : IsThermal(u)
            BY <3>1
        <3>3. now <= task[t].next_release + Wcet[t] + Wcet[u] + Poll
            BY <2>1, <2>2, <2>5, <3>2 DEF Delayed
        <3>4. ThermalWcet = Wcet[u]
            BY <3>2 DEF ThermalWcet, IsThermal
        <3> QED BY <2>1, <2>2, <2>5, <3>1, <3>3, <3>4, Numbers
    <2> QED BY <2>4, <2>5
<1> QED BY <1>1, Invariance, InitInTime, NextInTime, PTL DEF Spec
=============================================================================
