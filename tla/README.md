# Formal verification of the MangoCore kernel

MangoCore is a `no_std` Rust kernel for riscv64 and loongarch64 multiprocessors.
This directory holds TLA+ models of its concurrent core and of the TCP sockets
it links, the TLC configurations that check them on small instances, and TLAPS
proofs that hold for every instance. `PROJECT.json` maps every definition to the
lines it models and lists the runs, mutants, hazards and theorems.

Tools: `tlc -workers 2 -config X.cfg M` checks a run, `tlapm M.tla` a proof module.

## The system and how its parts meet

| part | module | code |
| --- | --- | --- |
| scheduler core | `Sched` | `task/run_queue.rs`, `manager.rs`, `processor.rs`, `mod.rs`, `task.rs` |
| condition waits and wake timers | `WaitQueue` | `task/manager.rs`, `fs/vfs/event.rs` |
| thread groups: clone, exit, exec | `ThreadGroup` | `task/process.rs`, `task.rs`, `mod.rs`, `registry.rs` |
| IPI mailbox and synchronous requests | `Shootdown`, `SyncCall` | `smp.rs` |
| TLB consistency of an address space | `MmTlb` | `mm/tlb.rs`, `mmu_gather.rs`, `address_space.rs` |
| ASID allocator | `Asid` | `hal/arch/riscv/sv39.rs`, `hal/arch/loongarch64/tlb.rs` |
| TCP sockets | `Tcp`, `Assembler`, `RingBuffer` | `dependency/smoltcp` |

Everything that sleeps goes through a wait queue, which uses block and wake of
the scheduler. `WaitQueue` therefore knows four of the statuses of `Sched`, and
takes its two compare-and-swaps (Blocking to Blocked, Blocking to Running) from
there. A thread that is stopped by `exit_group` or `exec` may be in such a wait:
`ThreadGroup` keeps its two checks of the stop request. Everything that crosses
CPUs goes through the IPI mailbox: `Sched` contains the RESCHEDULE reason,
`Shootdown` all the synchronous ones. A page-table write (`MmTlb`) waits for
such a request before it releases frames; what it may rely on is `SyncCall`,
which `Shootdown` is checked and proved to implement. `Asid` adds the numbers by which
hardware tells address spaces apart, and their reuse.

`Queue` holds the few operators on queues that `Sched` and `WaitQueue` share.
A module `MCx` instantiates `x` for TLC.

## The models

An action is one critical section or one atomic access of the code, and it
includes everything the code does there. Names follow the code; where an action
is one branch of a function its comment says which.

### `Sched`

| variable | code |
| --- | --- |
| `status` | `sched_state`, the atomic status word of a task |
| `cpus_allowed`, `migration_target`, `request` | the affinity fields of the task control block |
| `interruptible` | the sleep registry behind `TASK_MANAGER` |
| `run_queue`, `local_zombies` | the per-CPU containers |
| `pc`, `hand`, `victims` | where a CPU is in its loop, the task it has claimed, runs or switches out, the queues it has yet to try to steal from |
| `ipi`, `need_resched`, `bell` | the RESCHEDULE reason, the flag the handler leaves, doorbells not yet sent |
| `call`, `calls` | the progress of each task's `sched_setaffinity` |

The idle loop is `Top`, `Fetch`, the steal actions, `Dispatch` and `WaitEnds`;
`finish_switch_out` is `FinishRunning`, `FinishBlocking` with `DropTarget`, and
`FinishZombie`. A remote affinity change is one chain of actions per status it
may find the target in. Which task of a queue is fetched (virtual runtime, nice)
is left open, so the properties hold for any choice.

### `WaitQueue`

One round of the loop is `NewRound`, `Register` (once per queue), `CheckReady`
or `CheckFails`, `Arm` and `Insert` of the timer, `Block`, `Recheck`, `SwitchOut`
or `Undo`, and `FinishEntry` (once per queue). A producer makes the condition
true, then holds the queue lock while it claims tokens and wakes
(`NotifyEntry`, `BumpGeneration`, `WakeBatch`). The timer CPU takes a batch of
expired timers out of the heap (`PopExpired`, at most `MaxBatch`) and looks at
their generation later (`RunTimer`, `FireWake`). `Enforced` is compaction and the
capacity bound. A caller's list of queues may name one twice, as the lists of
`poll` and `epoll` may: the task is then in that queue twice, and one
`FinishEntry` removes both entries.

### `ThreadGroup`

`pc` says where each thread is between user mode, clone, a wait, the way back to
user mode, exit and exec; `members`, `exec`, `pending` and `gcode` are
`ThreadGroupState` and the words stored under its lock; `counted`, `inactive`
and `live` are the tokens. A thread that exits goes through
`exit_thread_resources`, `remove_thread`, perhaps `finish_exit`,
`publish_exit_inactive` (on the idle stack) and perhaps `complete` (after the
unlock). `request_sibling_exit` asks one sibling per step. TIDs are the names of
the threads that first had them, so `exchange_exec_tids` is a swap. A TCB is not
used again once it has exited; `asked` is a history variable.

### `Shootdown` and `SyncCall`

Each request is published (sequence numbers, or the payload slot of its
initiator), sent, waited for with interrupts open, kicked again and ended by its
return or its deadline. The handler takes all reasons with one swap and serves
them in the order of the code, in the separate loads and stores of the code.
`done` records which targets have really performed the operation since the call
began; `SyncCall` speaks of nothing else. Under the refinement mapping `owed`
is the targets of a waiting call that are not in `done`.

### `MmTlb`

Writes, activation and deactivation run under the VM lock and are one step
each; the flush runs after the unlock, target by target. `Fill`, the hardware
page walk, may happen at any time on an active CPU. `WriteOom` is the path that
releases a frame under the lock because the retire list cannot grow.

### `Asid`

The allocator with epoch and cursor, the rollover from the election of a leader
to the published epoch, the switch to a user root and back to the kernel root,
and a page-table write with its flush by ASID. The record `hw` selects RISC-V
with or without ASIDs, or LoongArch. On RISC-V hardware may walk the installed
root speculatively at any time.

### `Tcp`

`Process` is `Socket::process` in its order: acceptance, the verdict on the ACK,
the window, control and state transition, acknowledgement, payload and answer.
`Poll` is `dispatch`. Byte *i* of a stream is the number *i*; sequence numbers
wrap. `RingBuffer` and `Assembler` are the operations on the two buffers.

## The runs

| run | property | what it says |
| --- | --- | --- |
| `sched` | `OneOwner` | queues, CPUs and status words agree on one owner of each task; a Migrating task has one mover |
| | `RegistryExact` | the sleep registry holds exactly the sleepers |
| | `RequestExact` | a pending affinity request is in the slot of a Running task and its caller waits for it |
| | `AffinityRespected` | no task is queued on, claimed by or executing on an excluded CPU |
| | `NoStrandedTask` | a CPU that goes to wait beside a queued task has a doorbell coming |
| | `ResultMatchesMask` | a call that succeeded published its mask |
| `sched_live` | `RequestCompletes`, `QueueServed` | requests are completed, queues are served |
| `wait` | `WakeNotLost`, `SignalNotLost`, `TimeoutNotLost` | nothing is slept through, wherever it falls in the loop |
| | `RoundsSeparate` | a notification belongs to one round |
| | `TimedWaitReturns`, `ReadyWaitReturns` | waits end |
| `group` | `ExecAlone` | an exec commits only when no other thread can run |
| | `ExitIsFinal` | a zombie is complete and reports the agreed code |
| | `NoPanic` | the assertions of the thread group hold |
| | `StopCompletes` | a group exit ends in a zombie, an exec session ends |
| `tlb` | `FrameSafe`, `StaleIsPending` | no active CPU reaches a released frame; what it caches is current or being revoked |
| `shoot` | `AckMeansDone`, `NoRequestSwallowed`, `StackVisible` | an acknowledgement is truthful, no shared bit swallows a request, a task starts on a visible stack |
| | `ImplementsSyncCall` | refinement of `SyncCall` |
| `shoot_live` | `SyncReturns` | mutual requests return, with a lost doorbell |
| `asid` | `Isolated`, `NoFreedFrame`, `NoStaleInstall`, `LeaderHeard` | accesses hit their own, live translations; the epoch assertion holds; the rollover does not deadlock |
| `tcp` | `StreamInOrder`, `FinishedIsComplete`, `AckedIsHeld`, `NoPanic`, `NoStall` | the reader gets the stream; nothing is forgotten too early; the stack does not fall silent |

Each model also has a type invariant (`tlb` checks it through the proof only).

Three runs expect a violation and show a disagreement between the code and a
comment of the code.

* `group_exec`: `exec` stops its siblings with SIGKILL. A sibling that has passed
  the stop check of `run_task_safe_point` but not `do_signal` treats it as a
  fatal signal of the process, and the whole group exits, the caller of `execve`
  included.
* `shoot_reuse`: the handler reads `targets` and `acknowledged` of a slot in two
  loads. If the initiator releases and reuses the slot in between, the handler
  acknowledges the new call with the range of the old one.
* `asid_leave`: `leave_user_vm` reads the published epoch twice. A leader that
  this CPU has already answered may publish the next one in between, and the
  assertion in `install_page_table` stops the kernel. For that reason the RISC-V
  machines of the run `asid` do not return to the kernel root (`leaving`), except
  the one without ASIDs.

Other things the models show, without a run of their own:

* A task that falls asleep is given away (Blocked) before the old CPU drops its
  migration target (`DropTarget`). If it is woken, runs elsewhere and pins itself
  in that window, the new target is dropped, and `require_cpu_allowed` halts the
  machine at the next switch; `FinishRunning` has that check as a guard, so the
  model's CPU stops there too. The comment at `task/task.rs:1112` allows the call
  only on the idle stack of the source CPU. This is why `sched` does not check
  deadlock; `sched_live` has no self-migration and does.
* A FIN that arrives while data is in flight replaces the retransmit timer by the
  idle one (`socket/tcp.rs:1703`). `NoStall` excepts this and the window that is
  too narrow for the queued data. With keep-alive on, the filler byte of the
  keep-alive can then take the place of the lost byte: the scenario `MCKeepAlive`
  of `MCTcp` in place of `MCScenarios` violates `StreamInOrder`.
* A socket closed in SYN-RECEIVED takes the ACK of its SYN for that of its FIN
  (`socket/tcp.rs:887`); `AckedIsHeld` excepts it.
* With two waiters and `wake_at_most(1)` a waiter that is notified and has reached
  its deadline consumes the only notification (`WakeNotLost` fails with
  `Limits = {1}`); it is for the callers to avoid.

## Bounds

* `sched`: two CPUs and two tasks are enough for each race the code guards
  against (a mover, a waker and an owner; two callers of one target). One task
  is mortal, both sleep, two affinity calls are made. The proofs drop the bounds.
* `sched_live`: one sleeper, one remote call, no self-migration.
* `wait`: one waiter on one queue, on two, or on one twice; two producers, a heap
  of one timer (so that stale timers compete with live ones) popped one at a time,
  two calls, three operations in all. The proofs drop the bounds, the number of
  waiters included.
* `group`: three threads (an owner, a sibling that leaves, a sibling that is
  cloned late) and one exec; `group_exec` needs two. The proof covers any number
  of threads and execs.
* `tlb`: two CPUs, two pages, two frames, generations up to 3: two overlapping
  writes and a return after each. The proof drops the numbers of CPUs, pages and
  frames.
* `shoot`: three CPUs, two of them initiators with one request each, in three
  mixes of requests; a ranged flush is acknowledged by the third CPU while it
  serves the other initiator. The reuse of a slot is left to `shoot_reuse`,
  because it fails. The proofs drop the bounds.
* `asid`: two CPUs, three address spaces on one or two numbers, so that a
  rollover happens; one rollover, four switches, one write. The proofs drop the
  bounds.
* `tcp`: rings of two bytes and up to three bytes of data, so that data wraps
  around the ring; sequence numbers that wrap; six mixes of options and owners; at most one
  segment lost, repeated or late; two segments in flight.

Symmetry is used in `tlb` and `asid`, which check no liveness property.

## Fairness

* `sched_live`: interrupts are taken, the scheduler loop and a system call go on,
  and the tick preempts. Nothing forces a task to yield, sleep or wake another.
  Strong fairness is used where a step waits for the CPU to have no doorbell left
  to send: one pass of interrupt work wakes finitely many tasks.
* `wait`: threads that can run do, a spin lock is obtained, the clock advances,
  the timer CPU and signal senders finish what they began.
* `group`: a thread in the kernel goes on, and user mode is interrupted by the
  tick. Nothing forces a program to exit, nor anybody to wake a sleeper.
* `shoot_live`: a CPU with open interrupts takes them; a waiting loop runs
  between two handlers. Deadlines are off: otherwise they would do the work.

## Proofs

`tlapm` checks every proof; nothing is assumed but the named `ASSUME`s on constants.

| module | contents |
| --- | --- |
| `SchedFacts` | removing, pushing and distinctness of queues, lemmas on status words, and what the simpler actions of `Sched` preserve |
| `SchedProof` | `TypeCorrect`, `SingleOwner`, `RegistryCorrect`, `RequestsOwned`, `AffinityCorrect`, `DoorbellNotLost`, `ResultCorrect` |
| `MmTlbProof` | `TlbInvariance`, `RevocationComplete`, `NoUseAfterFree` |
| `GroupFacts`, `GroupProof` | `GroupTypeCorrect`, `ExecCommitsAlone`, `ExitStatusAgreed`, `GroupNeverPanics` |
| `ShootProof` | `ShootTypeCorrect`, `RequestsServed`, `StackAlwaysVisible`, `SequencedCallsHonest`, `CallsHonest`, `CallsImplementPromise`, `FirstCallsHonest`, `FirstCallsImplementPromise` |
| `WaitProof` | `WaitTypeCorrect`, `RoundsStaySeparate`, `SignalsKept`, `TimeoutsKept`, `EventsKept` |
| `AsidProof` | `AsidTypeCorrect`, `AddressSpacesIsolated`, `FreedFramesUnreachable`, `LeaderAlwaysHeard`, `ReturnsAlwaysFresh`, `InstallsFresh` |

* Scheduler. The invariant is the conjunction of the ownership properties with
  `CallExact`, which says what a remote call may assume at each of its steps.
  None is inductive alone: a queue is exact because a mover holds the task, a
  mover is unique because the status names no queue. `ResultMatchesMask` speaks
  of the answer only; `TruthInv` adds that a call in progress has published
  nothing unless its request is in state Applied, so that neither a retry nor a
  failure can follow a publication.
* Waits. A step is described once from each side, and the invariants are proved
  from these descriptions: `OwnMoves` (the control graph of the loop, from the
  waiter that moves), `OutsideMoves` (what others can do to a waiter: outdate its
  generation, claim its token, wake it), `WakerMoves` (a producer), `QueueMoves` (a
  queue), `Frames` (who writes what is shared). `RoundsSeparate` rests on
  `LockInv` and `ClaimInv`: a producer with a claim holds the lock of a queue its
  waiter has still to leave, so `finish_entry` cannot overtake it, and the token
  stays NOTIFIED until then. `SignalNotLost` is inductive once tasks are known to
  fall asleep in one place only (`SleepNew`). `TimeoutNotLost` needs that no two
  timers carry one generation of a task (`HeapInv`) and that a generation changes
  during a timed wait only after a claim (`GenInv`); with at most one live timer
  per task, compaction alone makes room (`LiveFit`). `WakeNotLost` needs that an
  unclaimed token is in every queue it was put in (`ListenInv`) and that an event
  after the second check has a producer still to look (`EventInv`).
  `RoundInv` needs no hypothesis; two theorems have one on the constants.
  `TimeoutsKept` assumes `TimersSuffice`: the heap has room for one timer per
  waiter. `MAX_TIMERS` is 4096, and the kernel's heap also holds the callbacks of
  POSIX and interval timers, which the model leaves out, so in the kernel the room
  is what these leave. `EventsKept` assumes `WakeEveryone`: a wake is not limited
  to fewer tasks than there are (`wake_all`), since the property is false for
  `wake_at_most(1)` with two waiters. The instance of the run `wait` satisfies both.
* TLB. `FrameSafe` needs to know, for CPUs that left the address space too, that
  what they cache is current, about to be invalidated by a flush in progress, or
  dropped at the next activation because their observed generation is old
  (`Covered`).
* Thread group. `NoPanic` and `ExecAlone` speak of counters, so the invariant
  says what they count: `live` is the number of threads at positions that hold a
  token (`TokenInv`), `pending` the number of other threads still on a CPU
  (`SessionInv`); TIDs are distinct (`TidInv`), a thread that is being cloned
  belongs to one parent (`CloneInv`), and whoever gave back the last token is
  alone (`EndInv`). The central step is `WaitAlone`: when the session is complete
  and the group is not exiting, `pending` is zero and therefore the owner is the
  only active thread.

* IPI requests. A reason is one bit for many callers, so the invariant follows
  the numbers behind it: the handler never acknowledges more than was requested
  (`NumberInv`), and a number that covers a call is acknowledged, or held by the
  handler as the next acknowledgement, only after the target acted for that call
  (`SeqInv`). `StackInv` says the same of the deferred kernel flush. That part
  needs no hypothesis, and gives `SequencedCallsHonest`. The ranged flush has a
  slot in place of numbers, and `shoot_reuse` shows that a slot which is reused
  under a late handler breaks it. `CallsHonest` and the refinement
  `CallsImplementPromise` therefore carry the hypothesis `CleanClaims`: a step
  that claims a slot finds no handler between its loads of that slot.
  Nothing in the code ensures this, so these two theorems say exactly what a
  repair would have to add. `SlotsUsedOnce`, a condition on the workload and not
  on the behaviour, implies it: it holds for any number of requests on RISC-V where
  the firmware has RFENCE, which takes the place of the slots, and for the
  workloads of the run `shoot`. The refinement is
  proved step by step (`NextMap`): every action of `Shootdown` is an action of
  `SyncCall` or changes none of what it speaks of.
* ASIDs. `Isolated` and `NoFreedFrame` speak of what an access can hit now;
  the invariant must speak of entries that could be hit later. `TagInv`: an entry
  belongs to the owner of its number in the epoch its CPU has flushed up to, and
  on LoongArch to the owner in the current epoch. `HoldInv`: a CPU that holds a
  context it has not installed is passed by a rollover only if it still owes its
  acknowledgement, and so will flush. `LeadInv`: one leader at a time.
  `EpochInv`: numbers of the current epoch have one owner and lie below the
  cursor. `FlushInv`: an old entry is on a CPU that the flush in progress still
  has to reach, or that compares generations before it uses the entry. Both
  architectures are covered by one invariant; the cases differ only in when an
  epoch is observed. `InstallsFresh` assumes `NoLateKernelRoot`, because
  `asid_leave` shows the assertion failing otherwise; `ReturnsAlwaysFresh` has no
  hypothesis and says that this is the only place where it can fail.

The inductive invariants were model-checked on the instances of the runs before
they were proved.

Only model-checked:

* all liveness properties (`RequestCompletes`, `QueueServed`, `TimedWaitReturns`,
  `ReadyWaitReturns`, `StopCompletes`, `SyncReturns`): liveness under fairness is
  outside what `tlapm` proves;
* `Tcp`. Its properties rest on what reassembly computes from a sequence of
  contigs, a recursive function over its length; that needs induction over data.

## Not modelled

* Process tree and `wait4` (`task/process.rs`, `process_manager.rs`): adoption,
  auto-reap and waiting for children. They would make a module like
  `ThreadGroup`; the main race is listed as a hazard.
* Signals beyond a wait that is interrupted and a fatal default action: masks,
  handlers, frames, job control, ptrace.
* Futexes, System V IPC, pipes, eventfd, epoll, timerfd: conditions behind the
  wait protocol that is modelled; their own data is not.
* Page cache, reclaim, swap, VFS and the file systems: large data, and locks
  spread over many files.
* Page faults, VMAs, page-table and frame allocators: sequential under a lock;
  their effect on other CPUs is the write of `MmTlb`.
* Virtual runtime and nice counters, statistics, perf and diagnostics.
* CPU bring-up, trap assembly, firmware, drivers: hardware.
* In TCP: times and round-trip estimates, congestion control, window scaling,
  MSS and SACK options; the other protocols of smoltcp and the socket layer.
* User programs, boot loader and tools. Most of the repository by lines is user
  programs, vendored libraries and file systems, so the mapped lines are a small
  share of it.

Memory is sequentially consistent in all models. Where the code uses weaker
orderings its comments argue that the accesses are paired; this is not checked.
