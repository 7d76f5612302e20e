------------------------------- MODULE Sched -------------------------------
(***************************************************************************)
(* The SMP scheduler core: task ownership, per-CPU run queues, blocking,   *)
(* waking, work stealing, CPU affinity and the RESCHEDULE doorbell.        *)
(* Sources: os/src/task/{run_queue,manager,task,processor,mod}.rs.         *)
(*                                                                         *)
(* Every step below is one critical section or one atomic access of the    *)
(* code; what happens between two of them may be interleaved with steps of *)
(* every other CPU.  The masks online/scheduler/stopped of the code are    *)
(* those of a booted machine: every CPU of CPUs schedules.                 *)
(***************************************************************************)
EXTENDS Naturals, Sequences, Queue

CONSTANTS
  CPUs,         \* the configured CPUs
  BootCpu,      \* the CPU that owns the global timers
  Tasks,        \* task control blocks
  InitTask,     \* the first task, which never exits
  Sleepers,     \* tasks that may block
  Mortals,      \* tasks that may exit
  NoCpu,        \* "no CPU": NO_MIGRATION_TARGET, or a status without owner
  NoTask,       \* "no task": an empty slot
  SelfMasks,    \* masks a task may give itself
  RemoteMasks,  \* masks a task may give another task
  Callers,      \* tasks that set the affinity of other tasks
  MaxCalls      \* bound on the number of sched_setaffinity calls

ASSUME CpusAssumption == BootCpu \in CPUs /\ NoCpu \notin CPUs
ASSUME TasksAssumption == /\ InitTask \in Tasks /\ NoTask \notin Tasks
                          /\ Sleepers \subseteq Tasks /\ Mortals \subseteq Tasks \ {InitTask}
                          /\ Callers \subseteq Tasks
ASSUME MasksAssumption == SelfMasks \cup RemoteMasks \subseteq (SUBSET CPUs) \ {{}}
ASSUME BoundAssumption == MaxCalls \in Nat

VARIABLES
  status,            \* sched_state: the owner of each task, one atomic word
  cpus_allowed,      \* affinity mask of each task
  migration_target,  \* one-shot target of a self-migration
  request,           \* remote_affinity_request: the caller whose request is in the slot
  interruptible,     \* the registry behind TASK_MANAGER
  run_queue,         \* per-CPU queue of runnable tasks
  local_zombies,     \* per-CPU exited tasks waiting to be dropped
  pc,                \* where each CPU is in its scheduler loop or on a task's stack
  hand,              \* the task a CPU has claimed, runs, or is switching out
  victims,           \* run queues a stealing CPU has still to look at
  ipi,               \* a RESCHEDULE reason is pending for the CPU
  need_resched,      \* the flag the interrupt handler leaves for the safe point
  bell,              \* CPUs that this CPU has yet to send RESCHEDULE
  call,              \* each task's sched_setaffinity call on another task
  calls              \* number of sched_setaffinity calls so far

ownVars  == <<status, interruptible, run_queue, local_zombies>>
maskVars == <<cpus_allowed, migration_target, request>>
cpuVars  == <<pc, hand, victims>>
irqVars  == <<ipi, need_resched, bell>>
callVars == <<call, calls>>
vars == <<ownVars, maskVars, cpuVars, irqVars, callVars>>

-----------------------------------------------------------------------------
(* The scheduling status: a tag and, for some tags, the owning CPU. *)

New         == [tag |-> "New",       cpu |-> NoCpu]
Queued(c)   == [tag |-> "Queued",    cpu |-> c]
Migrating   == [tag |-> "Migrating", cpu |-> NoCpu]
Running(c)  == [tag |-> "Running",   cpu |-> c]
Blocking(c) == [tag |-> "Blocking",  cpu |-> c]
Blocked     == [tag |-> "Blocked",   cpu |-> NoCpu]
Zombie      == [tag |-> "Zombie",    cpu |-> NoCpu]

TaskStatus == {New, Migrating, Blocked, Zombie}
                \cup { Queued(c)   : c \in CPUs }
                \cup { Running(c)  : c \in CPUs }
                \cup { Blocking(c) : c \in CPUs }

(* Where a CPU can be.  From "claimed" to "dead" it owns hand[c]; at "late" *)
(* it still refers to a task that is already Blocked.                       *)
OnStack == {"run", "mig", "sleep", "dead"}
Holding == OnStack \cup {"steal", "claimed", "out"}
CpuPc   == Holding \cup {"top", "fetch", "scan", "wfi", "late"}

(* A sched_setaffinity call on another task.  While pc = "wait" the record *)
(* is also the RemoteAffinityRequest: mask, target and completion state.   *)
(* The field stored is history: the call has published its mask.           *)
CallPc == {"none", "read", "blocked", "reblock", "queued", "move", "detached",
           "running", "wait"}
Call == [pc : CallPc, task : Tasks \cup {NoTask}, mask : SUBSET CPUs,
         src : CPUs \cup {NoCpu}, tgt : CPUs \cup {NoCpu},
         state : {"Pending", "Applied", "Retry"}, stored : BOOLEAN,
         ret : {"none", "ok", "fail"}]

NoCall == [pc |-> "none", task |-> NoTask, mask |-> {}, src |-> NoCpu,
           tgt |-> NoCpu, state |-> "Retry", stored |-> FALSE, ret |-> "none"]

Init ==
  /\ status = [t \in Tasks |-> IF t = InitTask THEN Queued(BootCpu) ELSE New]
  /\ cpus_allowed = [t \in Tasks |-> CPUs]
  /\ migration_target = [t \in Tasks |-> NoCpu]
  /\ request = [t \in Tasks |-> NoTask]
  /\ interruptible = {}
  /\ run_queue = [c \in CPUs |-> IF c = BootCpu THEN <<InitTask>> ELSE <<>>]
  /\ local_zombies = [c \in CPUs |-> {}]
  /\ pc = [c \in CPUs |-> "top"]
  /\ hand = [c \in CPUs |-> NoTask]
  /\ victims = [c \in CPUs |-> {}]
  /\ ipi = [c \in CPUs |-> FALSE]
  /\ need_resched = [c \in CPUs |-> FALSE]
  /\ bell = [c \in CPUs |-> {}]
  /\ call = [t \in Tasks |-> NoCall]
  /\ calls = 0

-----------------------------------------------------------------------------
(* Helpers shared by the operations. *)

Goto(c, where) == pc' = [pc EXCEPT ![c] = where]
SetStatus(t, s) == status' = [status EXCEPT ![t] = s]
StoreMask(t, mask) == cpus_allowed' = [cpus_allowed EXCEPT ![t] = mask]

PushBack(c, t)  == run_queue' = [run_queue EXCEPT ![c] = Append(@, t)]
PushFront(c, t) == run_queue' = [run_queue EXCEPT ![c] = <<t>> \o @]
TakeAt(c, i)    == run_queue' = [run_queue EXCEPT ![c] = Remove(@, i)]

(* notify_wake_targets / request_reschedule: the doorbell rings after all  *)
(* locks are released, and never for the sending CPU itself.               *)
Notify(c, targets) == bell' = [bell EXCEPT ![c] = @ \cup (targets \ {c})]

(* complete(): publish the outcome of the request in t's slot, if any, and *)
(* empty the slot.                                                         *)
Complete(t, outcome) ==
  /\ request' = [request EXCEPT ![t] = NoTask]
  /\ call' = IF request[t] = NoTask THEN call
             ELSE [call EXCEPT ![request[t]] =
                     [@ EXCEPT !.state = outcome, !.stored = (outcome = "Applied")]]

(* The CPU executes code of its current task and has no doorbell to send.  *)
Runs(c) == pc[c] = "run" /\ bell[c] = {}
(* ... and that task is not inside a sched_setaffinity call. *)
Free(c) == Runs(c) /\ call[hand[c]].pc = "none"

-----------------------------------------------------------------------------
(* The idle loop: run_tasks, run_secondary_scheduler and fetch_or_steal.   *)

(* Open interrupts briefly, consume RESCHEDULE, drop the local zombies.    *)
Top(c) ==
  /\ pc[c] = "top" /\ bell[c] = {}
  /\ ipi' = [ipi EXCEPT ![c] = FALSE]
  /\ need_resched' = [need_resched EXCEPT ![c] = FALSE]
  /\ local_zombies' = [local_zombies EXCEPT ![c] = {}]
  /\ Goto(c, "fetch")
  /\ UNCHANGED <<status, interruptible, run_queue, maskVars, hand, victims, bell, callVars>>

(* fetch: pop and claim in one run queue section.  Which task is popped    *)
(* (FIFO, or the least virtual runtime) is left open.                      *)
Fetch(c) ==
  /\ pc[c] = "fetch"
  /\ \E i \in DOMAIN run_queue[c] :
       /\ TakeAt(c, i)
       /\ SetStatus(run_queue[c][i], Running(c))
       /\ hand' = [hand EXCEPT ![c] = run_queue[c][i]]
  /\ Goto(c, "claimed")
  /\ UNCHANGED <<interruptible, local_zombies, maskVars, victims, irqVars, callVars>>

(* The local queue is empty: snapshot the remote queue lengths. *)
FetchEmpty(c) ==
  /\ pc[c] = "fetch" /\ run_queue[c] = <<>>
  /\ victims' = [victims EXCEPT ![c] = { v \in CPUs \ {c} : run_queue[v] # <<>> }]
  /\ Goto(c, "scan")
  /\ UNCHANGED <<ownVars, maskVars, hand, irqVars, callVars>>

(* Mutant: stealing ignores the affinity mask. *)
StealableAnywhere(c, v) ==
  { i \in DOMAIN run_queue[v] : migration_target[run_queue[v][i]] = NoCpu }

(* The positions of queue v that CPU c may steal. *)
Stealable(c, v) ==
  { i \in DOMAIN run_queue[v] : /\ c \in cpus_allowed[run_queue[v][i]]
                                /\ migration_target[run_queue[v][i]] = NoCpu }

(* steal: under the victim's lock, claim the eligible task nearest the     *)
(* tail; the task is then in no container.                                 *)
StealClaim(c, v) ==
  /\ pc[c] = "scan" /\ v \in victims[c]
  /\ \E i \in Stealable(c, v) :
       /\ \A j \in Stealable(c, v) : j <= i
       /\ TakeAt(v, i)
       /\ SetStatus(run_queue[v][i], Migrating)
       /\ hand' = [hand EXCEPT ![c] = run_queue[v][i]]
  /\ victims' = [victims EXCEPT ![c] = {}]
  /\ Goto(c, "steal")
  /\ UNCHANGED <<interruptible, local_zombies, maskVars, irqVars, callVars>>

StealSkip(c, v) ==
  /\ pc[c] = "scan" /\ v \in victims[c]
  /\ Stealable(c, v) = {}
  /\ victims' = [victims EXCEPT ![c] = @ \ {v}]
  /\ UNCHANGED <<ownVars, maskVars, pc, hand, irqVars, callVars>>

(* Mutant: RESCHEDULE is consumed once more, after the queues were looked at. *)
StealNoneConsumes(c) ==
  /\ pc[c] = "scan" /\ victims[c] = {}
  /\ ipi' = [ipi EXCEPT ![c] = FALSE]
  /\ Goto(c, "wfi")
  /\ UNCHANGED <<ownVars, maskVars, hand, victims, need_resched, bell, callVars>>

(* Nothing to steal: wait for an interrupt with interrupts disabled.       *)
StealNone(c) ==
  /\ pc[c] = "scan" /\ victims[c] = {}
  /\ Goto(c, "wfi")
  /\ UNCHANGED <<ownVars, maskVars, hand, victims, irqVars, callVars>>

(* The thief has synchronised its kernel TLB and takes the task over. *)
StealFinish(c) ==
  /\ pc[c] = "steal"
  /\ SetStatus(hand[c], Running(c))
  /\ Goto(c, "claimed")
  /\ UNCHANGED <<interruptible, run_queue, local_zombies, maskVars, hand, victims,
                 irqVars, callVars>>

(* dispatch_task: publish current and switch to the task's stack. *)
Dispatch(c) ==
  /\ pc[c] = "claimed"
  /\ Goto(c, "run")
  /\ UNCHANGED <<ownVars, maskVars, hand, victims, irqVars, callVars>>

(* Mutant: only the timer ends the wait. *)
WaitEndsByTimer(c) ==
  /\ pc[c] = "wfi" /\ c = BootCpu
  /\ Goto(c, "top")
  /\ UNCHANGED <<ownVars, maskVars, hand, victims, irqVars, callVars>>

(* The wait ends when a doorbell is pending, on the boot CPU also with the *)
(* periodic timer (idle secondary CPUs have stopped theirs).               *)
WaitEnds(c) ==
  /\ pc[c] = "wfi" /\ (ipi[c] \/ c = BootCpu)
  /\ Goto(c, "top")
  /\ UNCHANGED <<ownVars, maskVars, hand, victims, irqVars, callVars>>

(* handle_ipi for RESCHEDULE while a task runs: only leave a flag. *)
HandleIpi(c) ==
  /\ pc[c] = "run" /\ ipi[c]
  /\ ipi' = [ipi EXCEPT ![c] = FALSE]
  /\ need_resched' = [need_resched EXCEPT ![c] = TRUE]
  /\ UNCHANGED <<ownVars, maskVars, cpuVars, bell, callVars>>

(* request_reschedule_mask: publish the reason, then ring. *)
SendBell(c) ==
  /\ bell[c] # {}
  /\ ipi' = [d \in CPUs |-> ipi[d] \/ d \in bell[c]]
  /\ bell' = [bell EXCEPT ![c] = {}]
  /\ UNCHANGED <<ownVars, maskVars, cpuVars, need_resched, callVars>>

-----------------------------------------------------------------------------
(* What the current task does to itself and to other tasks. *)

(* try_publish_task: the new task inherits the creator's mask; the target  *)
(* is an allowed CPU (the load snapshot only biases which).                *)
Publish(c, t, target) ==
  /\ Free(c)
  /\ status[t] = New
  /\ target \in cpus_allowed[hand[c]]
  /\ StoreMask(t, cpus_allowed[hand[c]])
  /\ SetStatus(t, Queued(target))
  /\ PushBack(target, t)
  /\ Notify(c, {target})
  /\ UNCHANGED <<interruptible, local_zombies, migration_target, request, cpuVars,
                 ipi, need_resched, callVars>>

(* suspend_current_and_run_next: sched_yield, and the points where a       *)
(* sched_setaffinity call waits for its target.                            *)
Suspend(c) ==
  /\ Runs(c)
  /\ LET a == call[hand[c]] IN
       \/ a.pc = "none"
       \/ a.pc = "wait" /\ a.state = "Pending"
       \/ a.pc = "read" /\ status[a.task].tag = "Blocking"
  /\ Goto(c, "out")
  /\ UNCHANGED <<ownVars, maskVars, hand, victims, irqVars, callVars>>

(* run_task_safe_point after a scheduler tick: switch if the local queue   *)
(* has a competitor.                                                       *)
TimerPreempt(c) ==
  /\ Free(c) /\ run_queue[c] # <<>>
  /\ Goto(c, "out")
  /\ UNCHANGED <<ownVars, maskVars, hand, victims, irqVars, callVars>>

(* run_task_safe_point: a RESCHEDULE request forces the switch. *)
SafePoint(c) ==
  /\ Free(c) /\ need_resched[c]
  /\ need_resched' = [need_resched EXCEPT ![c] = FALSE]
  /\ Goto(c, "out")
  /\ UNCHANGED <<ownVars, maskVars, hand, victims, ipi, bell, callVars>>

(* Mutant: the sleeper leaves a remote request in its slot. *)
BeginSleepKeepsRequest(c) ==
  /\ Free(c) /\ hand[c] \in Sleepers
  /\ SetStatus(hand[c], Blocking(c))
  /\ interruptible' = interruptible \cup {hand[c]}
  /\ Goto(c, "sleep")
  /\ UNCHANGED <<run_queue, local_zombies, maskVars, hand, victims, irqVars, callVars>>

(* begin_interruptible_sleep: register the intent to sleep and cancel a    *)
(* remote affinity request, in one TASK_MANAGER section.                   *)
BeginInterruptibleSleep(c) ==
  /\ Free(c) /\ hand[c] \in Sleepers
  /\ SetStatus(hand[c], Blocking(c))
  /\ interruptible' = interruptible \cup {hand[c]}
  /\ Complete(hand[c], "Retry")
  /\ Goto(c, "sleep")
  /\ UNCHANGED <<run_queue, local_zombies, cpus_allowed, migration_target, hand,
                 victims, irqVars, calls>>

(* Mutant: the wake forgets which CPU the task is still on. *)
WakeBlockingForgetsCpu(c, t) ==
  /\ pc[c] \in {"run", "top"} \/ (pc[c] = "sleep" /\ t = hand[c])
  /\ status[t].tag = "Blocking"
  /\ SetStatus(t, Running(NoCpu))
  /\ interruptible' = interruptible \ {t}
  /\ UNCHANGED <<run_queue, local_zombies, maskVars, cpuVars, irqVars, callVars>>

(* try_wake_interruptible by CPU c, for a task that has not left its CPU:  *)
(* undo the intent to sleep.  The waker is the current task, a handler that *)
(* interrupted it, the timer work of the idle loop, or the sleeper itself  *)
(* when its last check says that it must not block.                        *)
WakeBlocking(c, t) ==
  /\ pc[c] \in {"run", "top"} \/ (pc[c] = "sleep" /\ t = hand[c])
  /\ status[t].tag = "Blocking"
  /\ SetStatus(t, Running(status[t].cpu))
  /\ interruptible' = interruptible \ {t}
  /\ UNCHANGED <<run_queue, local_zombies, maskVars, cpuVars, irqVars, callVars>>

(* ... and for a task that has: queue it on an allowed CPU, at the front.  *)
WakeBlocked(c, t, target) ==
  /\ pc[c] \in {"run", "top"}
  /\ status[t] = Blocked
  /\ target \in cpus_allowed[t]
  /\ interruptible' = interruptible \ {t}
  /\ SetStatus(t, Queued(target))
  /\ PushFront(target, t)
  /\ Notify(c, {target})
  /\ UNCHANGED <<local_zombies, maskVars, cpuVars, ipi, need_resched, callVars>>

(* The sleeping (or just woken) task leaves the CPU. *)
SleepSchedule(c) ==
  /\ pc[c] = "sleep" /\ bell[c] = {}
  /\ Goto(c, "out")
  /\ UNCHANGED <<ownVars, maskVars, hand, victims, irqVars, callVars>>

(* mark_zombie: terminal, and cancels a remote affinity request. *)
MarkZombie(c) ==
  /\ Free(c) /\ hand[c] \in Mortals
  /\ SetStatus(hand[c], Zombie)
  /\ Complete(hand[c], "Retry")
  /\ Goto(c, "dead")
  /\ UNCHANGED <<interruptible, run_queue, local_zombies, cpus_allowed,
                 migration_target, hand, victims, irqVars, calls>>

ExitSchedule(c) ==
  /\ pc[c] = "dead"
  /\ Goto(c, "out")
  /\ UNCHANGED <<ownVars, maskVars, hand, victims, irqVars, callVars>>

(* remove_zombie_tasks_by_pid: a reaper drops a TCB from any zombie queue. *)
TakeZombie(c, v, t) ==
  /\ Free(c) /\ t \in local_zombies[v]
  /\ local_zombies' = [local_zombies EXCEPT ![v] = @ \ {t}]
  /\ UNCHANGED <<status, interruptible, run_queue, maskVars, cpuVars, irqVars, callVars>>

-----------------------------------------------------------------------------
(* finish_switch_out, on the idle stack. *)

(* The task is still Running: apply a remote request or a self-migration,  *)
(* and hand the task to the target queue.  The code halts the machine when *)
(* the target is not allowed (require_cpu_allowed).                        *)
HandoffTarget(c) ==
  LET t == hand[c] IN
  IF request[t] # NoTask THEN call[request[t]].tgt
  ELSE IF migration_target[t] # NoCpu THEN migration_target[t] ELSE c

HandoffMask(c) ==
  LET t == hand[c] IN
  IF request[t] # NoTask THEN call[request[t]].mask ELSE cpus_allowed[t]

FinishRunning(c) ==
  /\ pc[c] = "out" /\ bell[c] = {}
  /\ status[hand[c]] = Running(c)
  /\ HandoffTarget(c) \in HandoffMask(c)
  /\ StoreMask(hand[c], HandoffMask(c))
  /\ migration_target' = [migration_target EXCEPT ![hand[c]] = NoCpu]
  /\ SetStatus(hand[c], Queued(HandoffTarget(c)))
  /\ PushBack(HandoffTarget(c), hand[c])
  /\ Complete(hand[c], "Applied")
  /\ Notify(c, {HandoffTarget(c)})
  /\ hand' = [hand EXCEPT ![c] = NoTask]
  /\ Goto(c, "top")
  /\ UNCHANGED <<interruptible, local_zombies, victims, ipi, need_resched, calls>>

(* Mutant: a store instead of a compare-and-swap loses a concurrent wake. *)
FinishBlockingStores(c) ==
  /\ pc[c] = "out" /\ bell[c] = {}
  /\ status[hand[c]] \in {Blocking(c), Running(c)}
  /\ SetStatus(hand[c], Blocked)
  /\ Goto(c, "late")
  /\ UNCHANGED <<interruptible, run_queue, local_zombies, maskVars, hand, victims,
                 irqVars, callVars>>

(* The task is Blocking and no wake won the race: it is now Blocked, and   *)
(* belongs to whoever wakes it.                                            *)
FinishBlocking(c) ==
  /\ pc[c] = "out" /\ bell[c] = {}
  /\ status[hand[c]] = Blocking(c)
  /\ SetStatus(hand[c], Blocked)
  /\ Goto(c, "late")
  /\ UNCHANGED <<interruptible, run_queue, local_zombies, maskVars, hand, victims,
                 irqVars, callVars>>

(* Only then does the old CPU drop the unconsumed migration target. *)
DropTarget(c) ==
  /\ pc[c] = "late"
  /\ migration_target' = [migration_target EXCEPT ![hand[c]] = NoCpu]
  /\ hand' = [hand EXCEPT ![c] = NoTask]
  /\ Goto(c, "top")
  /\ UNCHANGED <<ownVars, cpus_allowed, request, victims, irqVars, callVars>>

FinishZombie(c) ==
  /\ pc[c] = "out" /\ bell[c] = {}
  /\ status[hand[c]] = Zombie
  /\ migration_target' = [migration_target EXCEPT ![hand[c]] = NoCpu]
  /\ local_zombies' = [local_zombies EXCEPT ![c] = @ \cup {hand[c]}]
  /\ hand' = [hand EXCEPT ![c] = NoTask]
  /\ Goto(c, "top")
  /\ UNCHANGED <<status, interruptible, run_queue, cpus_allowed, request, victims,
                 irqVars, callVars>>

-----------------------------------------------------------------------------
(* sched_setaffinity on the current task: set_current_affinity. *)

SetCurrentAffinity(c, mask) ==
  /\ Free(c) /\ calls < MaxCalls
  /\ migration_target[hand[c]] = NoCpu
  /\ StoreMask(hand[c], mask)
  /\ Complete(hand[c], "Retry")
  /\ IF c \in mask
     THEN UNCHANGED <<migration_target, pc>>
     ELSE /\ \E target \in mask :
               migration_target' = [migration_target EXCEPT ![hand[c]] = target]
          /\ Goto(c, "mig")
  /\ calls' = calls + 1
  /\ UNCHANGED <<ownVars, hand, victims, irqVars>>

(* The new mask excludes this CPU: the system call switches out at once. *)
MigrateSuspend(c) ==
  /\ pc[c] = "mig"
  /\ Goto(c, "out")
  /\ UNCHANGED <<ownVars, maskVars, hand, victims, irqVars, callVars>>

-----------------------------------------------------------------------------
(* sched_setaffinity on another task: set_remote_affinity, with            *)
(* update_blocked_affinity and set_queued_affinity.  A caller that finds   *)
(* the slot taken waits by starting over.                                  *)

Update(u, fields) == call' = [call EXCEPT ![u] = fields]
Return(u, result) == Update(u, [NoCall EXCEPT !.ret = result, !.stored = call[u].stored])
(* The call publishes its mask and succeeds. *)
Succeed(u) ==
  /\ StoreMask(call[u].task, call[u].mask)
  /\ Update(u, [NoCall EXCEPT !.ret = "ok", !.stored = TRUE])
At(c, where) == Runs(c) /\ call[hand[c]].pc = where

(* select_runnable_cpu, when the mask excludes the task's CPU. *)
Targets(mask, cpu) == IF cpu \in mask THEN {NoCpu} ELSE mask

RemoteCall(c, t, mask) ==
  /\ Free(c) /\ calls < MaxCalls
  /\ hand[c] \in Callers /\ t # hand[c]
  /\ Update(hand[c], [NoCall EXCEPT !.pc = "read", !.task = t, !.mask = mask])
  /\ calls' = calls + 1
  /\ UNCHANGED <<ownVars, maskVars, cpuVars, irqVars>>

(* Dispatch on the status; Blocking is waited out with Suspend. *)
RemoteRead(c) ==
  /\ At(c, "read")
  /\ LET u == hand[c]  a == call[u]  s == status[a.task] IN
       \/ s.tag = "Blocked" /\ Update(u, [a EXCEPT !.pc = "blocked"])
       \/ s.tag \in {"Queued", "Migrating"} /\ Update(u, [a EXCEPT !.pc = "queued"])
       \/ /\ s.tag = "Running"
          /\ \E target \in Targets(a.mask, s.cpu) :
               Update(u, [a EXCEPT !.pc = "running", !.src = s.cpu, !.tgt = target])
       \/ s.tag \in {"New", "Zombie"} /\ Return(u, "fail")
  /\ UNCHANGED <<ownVars, maskVars, cpuVars, irqVars, calls>>

(* update_blocked_affinity, under TASK_MANAGER. *)
UpdateBlocked(c) ==
  /\ At(c, "blocked")
  /\ LET u == hand[c]  a == call[u] IN
       IF status[a.task] = Blocked /\ a.task \in interruptible
       THEN Succeed(u)
       ELSE UNCHANGED cpus_allowed /\ Update(u, [a EXCEPT !.pc = "reblock"])
  /\ UNCHANGED <<ownVars, migration_target, request, cpuVars, irqVars, calls>>

RecheckBlocked(c) ==
  /\ At(c, "reblock")
  /\ LET u == hand[c]  a == call[u] IN
       IF status[a.task] = Blocked THEN Return(u, "fail")
       ELSE Update(u, [a EXCEPT !.pc = "read"])
  /\ UNCHANGED <<ownVars, maskVars, cpuVars, irqVars, calls>>

(* set_queued_affinity found the task in no run queue: retry or give up.   *)
LostQueued(u, s) ==
  \/ s.tag \in {"Queued", "Migrating"} /\ Update(u, [call[u] EXCEPT !.pc = "queued"])
  \/ s.tag = "Blocked" /\ Update(u, [call[u] EXCEPT !.pc = "read"])
  \/ s.tag \in {"New", "Running", "Blocking", "Zombie"} /\ Return(u, "fail")

(* Read the source queue and choose a target before taking any lock; while *)
(* the task is Migrating the caller spins.                                 *)
QueuedRead(c) ==
  /\ At(c, "queued")
  /\ LET u == hand[c]  a == call[u]  s == status[a.task] IN
       IF s.tag = "Queued"
       THEN \E target \in Targets(a.mask, s.cpu) :
              Update(u, [a EXCEPT !.pc = "move", !.src = s.cpu, !.tgt = target])
       ELSE s.tag # "Migrating" /\ LostQueued(u, s)
  /\ UNCHANGED <<ownVars, maskVars, cpuVars, irqVars, calls>>

(* Under the source lock, the task is gone from the queue. *)
QueuedLost(c) ==
  /\ At(c, "move")
  /\ LET u == hand[c]  a == call[u] IN
       /\ a.task \notin Elems(run_queue[a.src])
       /\ LostQueued(u, status[a.task])
  /\ UNCHANGED <<ownVars, maskVars, cpuVars, irqVars, calls>>

(* Still queued and its CPU stays allowed: store the mask; an idle allowed *)
(* CPU may be told that there is something to steal.                       *)
QueuedStay(c) ==
  /\ At(c, "move")
  /\ LET u == hand[c]  a == call[u] IN
       /\ a.tgt = NoCpu
       /\ a.task \in Elems(run_queue[a.src])
       /\ Succeed(u)
       /\ \E stealer \in {{}} \cup { {d} : d \in a.mask \ {a.src} } : Notify(c, stealer)
  /\ UNCHANGED <<ownVars, migration_target, request, cpuVars, ipi, need_resched, calls>>

(* Mutant: the task is taken although it has left the queue meanwhile. *)
QueuedDetachStale(c) ==
  /\ At(c, "move")
  /\ LET u == hand[c]  a == call[u] IN
       /\ a.tgt # NoCpu
       /\ run_queue' = [run_queue EXCEPT ![a.src] = SelectSeq(@, LAMBDA t : t # a.task)]
       /\ SetStatus(a.task, Migrating)
       /\ Update(u, [a EXCEPT !.pc = "detached"])
  /\ UNCHANGED <<interruptible, local_zombies, maskVars, cpuVars, irqVars, calls>>

(* Still queued and its CPU is excluded: take it out of the queue. *)
QueuedDetach(c) ==
  /\ At(c, "move")
  /\ LET u == hand[c]  a == call[u] IN
       /\ a.tgt # NoCpu
       /\ \E i \in DOMAIN run_queue[a.src] :
            run_queue[a.src][i] = a.task /\ TakeAt(a.src, i)
       /\ SetStatus(a.task, Migrating)
       /\ Update(u, [a EXCEPT !.pc = "detached"])
  /\ UNCHANGED <<interruptible, local_zombies, maskVars, cpuVars, irqVars, calls>>

(* Publish the mask while nobody owns the task, then attach it. *)
QueuedAttach(c) ==
  /\ At(c, "detached")
  /\ LET u == hand[c]  a == call[u] IN
       /\ Succeed(u)
       /\ SetStatus(a.task, Queued(a.tgt))
       /\ PushBack(a.tgt, a.task)
       /\ Notify(c, {a.tgt})
  /\ UNCHANGED <<interruptible, local_zombies, migration_target, request, cpuVars,
                 ipi, need_resched, calls>>

(* Under the slot lock, in the order of the code's checks. *)
RemoteBusy(c) ==
  /\ At(c, "running")
  /\ LET u == hand[c]  a == call[u] IN
       /\ request[a.task] # NoTask \/ migration_target[a.task] # NoCpu
       /\ IF request[a.task] # NoTask THEN UNCHANGED bell ELSE Notify(c, {a.src})
       /\ Update(u, [a EXCEPT !.pc = "read"])
  /\ Goto(c, "out")
  /\ UNCHANGED <<ownVars, maskVars, hand, victims, ipi, need_resched, calls>>

SlotFree(t) == request[t] = NoTask /\ migration_target[t] = NoCpu

(* The task has left the CPU, or the request found in the slot was         *)
(* completed before the caller looked at its state.                        *)
RemoteMoved(c) ==
  /\ At(c, "running")
  /\ LET u == hand[c]  a == call[u] IN
       /\ \/ request[a.task] # NoTask
          \/ SlotFree(a.task) /\ status[a.task] # Running(a.src)
       /\ Update(u, [a EXCEPT !.pc = "read"])
  /\ UNCHANGED <<ownVars, maskVars, cpuVars, irqVars, calls>>

(* Mutant: the request is published without a doorbell. *)
RemoteRequestSilent(c) ==
  /\ At(c, "running")
  /\ LET u == hand[c]  a == call[u] IN
       /\ SlotFree(a.task) /\ a.tgt # NoCpu
       /\ status[a.task] = Running(a.src)
       /\ request' = [request EXCEPT ![a.task] = u]
       /\ Update(u, [a EXCEPT !.pc = "wait", !.state = "Pending"])
  /\ UNCHANGED <<ownVars, cpus_allowed, migration_target, cpuVars, irqVars, calls>>

RemoteStay(c) ==
  /\ At(c, "running")
  /\ LET u == hand[c]  a == call[u] IN
       /\ SlotFree(a.task) /\ a.tgt = NoCpu
       /\ status[a.task] = Running(a.src)
       /\ Succeed(u)
  /\ UNCHANGED <<ownVars, migration_target, request, cpuVars, irqVars, calls>>

(* Mutant: a cancelled request is taken for an applied one. *)
RemoteDoneAlways(c) ==
  /\ At(c, "wait")
  /\ call[hand[c]].state # "Pending" /\ Return(hand[c], "ok")
  /\ UNCHANGED <<ownVars, maskVars, cpuVars, irqVars, calls>>

RemoteRequest(c) ==
  /\ At(c, "running")
  /\ LET u == hand[c]  a == call[u] IN
       /\ SlotFree(a.task) /\ a.tgt # NoCpu
       /\ status[a.task] = Running(a.src)
       /\ request' = [request EXCEPT ![a.task] = u]
       /\ Update(u, [a EXCEPT !.pc = "wait", !.state = "Pending"])
       /\ Notify(c, {a.src})
  /\ UNCHANGED <<ownVars, cpus_allowed, migration_target, cpuVars, ipi, need_resched,
                 calls>>

RemoteDone(c) ==
  /\ At(c, "wait")
  /\ LET u == hand[c]  a == call[u] IN
       \/ a.state = "Applied" /\ Return(u, "ok")
       \/ a.state = "Retry" /\ Update(u, [a EXCEPT !.pc = "read"])
  /\ UNCHANGED <<ownVars, maskVars, cpuVars, irqVars, calls>>

-----------------------------------------------------------------------------
IdleStep(c) ==
  \/ Top(c) \/ Fetch(c) \/ FetchEmpty(c)
  \/ \E v \in CPUs : StealClaim(c, v) \/ StealSkip(c, v)
  \/ StealNone(c) \/ StealFinish(c) \/ Dispatch(c)

IrqStep(c) == WaitEnds(c) \/ HandleIpi(c) \/ SendBell(c)

SwitchStep(c) ==
  \/ SafePoint(c) \/ TimerPreempt(c) \/ SleepSchedule(c) \/ ExitSchedule(c) \/ MigrateSuspend(c)
  \/ FinishRunning(c) \/ FinishBlocking(c) \/ DropTarget(c) \/ FinishZombie(c)

RemoteStep(c) ==
  \/ RemoteRead(c) \/ UpdateBlocked(c) \/ RecheckBlocked(c)
  \/ QueuedRead(c) \/ QueuedLost(c) \/ QueuedStay(c) \/ QueuedDetach(c) \/ QueuedAttach(c)
  \/ RemoteBusy(c) \/ RemoteMoved(c) \/ RemoteStay(c) \/ RemoteRequest(c) \/ RemoteDone(c)

TaskStep(c) ==
  \/ Suspend(c) \/ BeginInterruptibleSleep(c) \/ MarkZombie(c)
  \/ \E t \in Tasks : \/ WakeBlocking(c, t)
                      \/ \E d \in CPUs : \/ Publish(c, t, d)
                                         \/ WakeBlocked(c, t, d)
                                         \/ TakeZombie(c, d, t)
  \/ \E mask \in SelfMasks : SetCurrentAffinity(c, mask)
  \/ \E t \in Tasks, mask \in RemoteMasks : RemoteCall(c, t, mask)

Next == \E c \in CPUs :
  IdleStep(c) \/ IrqStep(c) \/ SwitchStep(c) \/ RemoteStep(c) \/ TaskStep(c)

Spec == Init /\ [][Next]_vars

(* Interrupts are delivered, the scheduler loop and a system call in        *)
(* progress go on, the tick preempts; nothing forces a task to yield, block *)
(* or wake another.  Fairness is strong for the steps that wait for the CPU *)
(* to have no doorbell left to send: one pass of interrupt or timer work    *)
(* wakes finitely many tasks.                                               *)
Fairness == \A c \in CPUs :
  /\ WF_vars(IrqStep(c)) /\ WF_vars(IdleStep(c) \/ SwitchStep(c))
  /\ SF_vars(\/ Top(c) \/ SafePoint(c) \/ TimerPreempt(c)
             \/ RemoteStep(c) \/ (Suspend(c) /\ call[hand[c]].pc # "none"))

FairSpec == Spec /\ Fairness

-----------------------------------------------------------------------------
(* Properties. *)

TypeOK ==
  /\ status \in [Tasks -> TaskStatus]
  /\ cpus_allowed \in [Tasks -> SUBSET CPUs]
  /\ migration_target \in [Tasks -> CPUs \cup {NoCpu}]
  /\ request \in [Tasks -> Tasks \cup {NoTask}]
  /\ interruptible \in SUBSET Tasks
  /\ run_queue \in [CPUs -> Seq(Tasks)]
  /\ local_zombies \in [CPUs -> SUBSET Tasks]
  /\ pc \in [CPUs -> CpuPc]
  /\ hand \in [CPUs -> Tasks \cup {NoTask}]
  /\ victims \in [CPUs -> SUBSET CPUs]
  /\ ipi \in [CPUs -> BOOLEAN]
  /\ need_resched \in [CPUs -> BOOLEAN]
  /\ bell \in [CPUs -> SUBSET CPUs]
  /\ call \in [Tasks -> Call]
  /\ calls \in 0..MaxCalls

(* A run queue holds exactly the tasks whose status names it, each once.    *)
QueueExact ==
  \A c \in CPUs :
    /\ Distinct(run_queue[c])
    /\ \A t \in Tasks : t \in Elems(run_queue[c]) <=> status[t] = Queued(c)

(* A task Running or Blocking on a CPU is the one that CPU holds, and what  *)
(* a CPU holds has the status its place in the code relies on: none of the  *)
(* require_sched_transition calls ahead of it can fail.                     *)
HoldExact ==
  /\ \A t \in Tasks, c \in CPUs :
       status[t] \in {Running(c), Blocking(c)} => pc[c] \in Holding /\ hand[c] = t
  /\ \A c \in CPUs :
       /\ pc[c] \in Holding \cup {"late"} => hand[c] \in Tasks
       /\ pc[c] = "steal" => status[hand[c]] = Migrating
       /\ pc[c] \in {"claimed", "run", "mig"} => status[hand[c]] = Running(c)
       /\ pc[c] = "sleep" => status[hand[c]] \in {Running(c), Blocking(c)}
       /\ pc[c] = "dead" => status[hand[c]] = Zombie
       /\ pc[c] = "out" => status[hand[c]] \in {Running(c), Blocking(c), Zombie}

(* A task, and so its kernel stack, is never in the hands of two CPUs, nor  *)
(* of a CPU and a CPU-less migration.                                       *)
HoldOnce ==
  /\ \A c, d \in CPUs :
       pc[c] \in Holding /\ pc[d] \in Holding /\ hand[c] = hand[d] => c = d
  /\ \A u \in Tasks, c \in CPUs :
       call[u].pc = "detached" /\ pc[c] \in Holding => hand[c] # call[u].task
  /\ \A u, v \in Tasks :
       call[u].pc = "detached" /\ call[v].pc = "detached" /\ call[u].task = call[v].task
         => u = v

(* A Migrating task has a mover that will give it an owner again: a thief,  *)
(* or a set_queued_affinity caller.                                         *)
MigratingHasMover ==
  /\ \A u \in Tasks : call[u].pc = "detached" => status[call[u].task] = Migrating
  /\ \A t \in Tasks : status[t] = Migrating =>
       \/ \E c \in CPUs : pc[c] = "steal" /\ hand[c] = t
       \/ \E u \in Tasks : call[u].pc = "detached" /\ call[u].task = t

(* Every task has exactly one owner, wherever it is in its life and         *)
(* whatever other CPUs do to it: the queue, CPU or mover its status names.  *)
OneOwner == QueueExact /\ HoldExact /\ HoldOnce /\ MigratingHasMover

(* The registry holds exactly the tasks that sleep or are about to: the     *)
(* panics of try_wake_interruptible are unreachable.                        *)
RegistryExact ==
  \A t \in Tasks : t \in interruptible <=> status[t].tag \in {"Blocking", "Blocked"}

(* A caller waits on a Pending request only while the request is in the     *)
(* slot of a Running task that will complete it, and a slot never competes  *)
(* with a self-migration.                                                   *)
RequestExact ==
  \A t \in Tasks :
    /\ request[t] # NoTask =>
         /\ status[t].tag = "Running" /\ migration_target[t] = NoCpu
         /\ call[request[t]].pc = "wait" /\ call[request[t]].task = t
         /\ call[request[t]].state = "Pending"
    /\ call[t].pc = "wait" /\ call[t].state = "Pending" => request[call[t].task] = t

(* Affinity is respected wherever a task can be picked up or executes: in a *)
(* queue, and on a stack up to the switch that set_current_affinity forces. *)
AffinityRespected ==
  /\ \A t \in Tasks, c \in CPUs : status[t] = Queued(c) => c \in cpus_allowed[t]
  /\ \A c \in CPUs :
       pc[c] \in {"steal", "claimed", "run", "sleep"} => c \in cpus_allowed[hand[c]]

(* No lost doorbell: a CPU that has found its queue empty and goes to wait  *)
(* is never left with a queued task unless a RESCHEDULE is pending for it   *)
(* or another CPU is about to send one.                                     *)
NoStrandedTask ==
  \A c \in CPUs : pc[c] \in {"scan", "wfi"} /\ run_queue[c] # <<>> =>
    ipi[c] \/ \E d \in CPUs : c \in bell[d]

(* set_remote_affinity tells the truth: success means that this call's mask *)
(* was published, and a call that fails has published nothing.              *)
ResultMatchesMask ==
  \A u \in Tasks : /\ call[u].ret = "ok" => call[u].stored
                   /\ call[u].ret = "fail" => ~call[u].stored

(* finish_running's assertion that the target is in the mask has failed: the *)
(* kernel panics.                                                            *)
Halted == \E c \in CPUs : /\ pc[c] = "out" /\ status[hand[c]] = Running(c)
                          /\ HandoffTarget(c) \notin HandoffMask(c)

(* A remote affinity request is eventually completed by the CPU that runs  *)
(* its task, unless the kernel has panicked.                               *)
RequestCompletes ==
  \A t \in Tasks : (request[t] # NoTask) ~> (request[t] = NoTask \/ Halted)

(* A CPU with queued tasks eventually takes one, or they are taken from it, *)
(* unless the kernel has panicked.                                          *)
QueueServed ==
  \A c \in CPUs : (run_queue[c] # <<>>) ~> (pc[c] = "claimed" \/ run_queue[c] = <<>> \/ Halted)

=============================================================================
