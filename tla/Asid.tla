-------------------------------- MODULE Asid --------------------------------
(***************************************************************************)
(* Hardware address space numbers (ASIDs): the allocator with its epochs,  *)
(* the rollover that flushes every CPU before numbers are used again, the  *)
(* switch of a CPU to a user address space and back to the kernel root,    *)
(* and the flush of a changed page table entry that names its address      *)
(* space by ASID. os/src/hal/arch/riscv/sv39.rs, hal/arch/loongarch64/     *)
(* tlb.rs, mm/tlb.rs, mm/address_space.rs, task/processor.rs.              *)
(*                                                                         *)
(* One page per address space; its contents are a version, and a write     *)
(* makes the next one. On RISC-V the hardware may walk the installed root  *)
(* at any time; on LoongArch entries are filled by user accesses only,     *)
(* because the kernel reaches user memory through the direct map.          *)
(***************************************************************************)
EXTENDS Integers, FiniteSets

CONSTANTS
  CPUs, MMs,
  NoMm,        \* the kernel root, or no address space
  Machines,    \* the hardware: architecture, allocator.max (0 without ASIDs), and
               \* whether CPUs go back to the kernel root
  MaxEpoch,    \* bound on the rollovers
  MaxSwitches, \* bound on the switches to a user address space
  Written,     \* the address spaces whose entry changes
  MaxVersion   \* bound on the writes to each of them

ASSUME AsidAssumption ==
  /\ NoMm \notin MMs /\ Written \subseteq MMs
  /\ MaxEpoch \in Nat \ {0} /\ {MaxVersion, MaxSwitches} \subseteq Nat
  /\ \A h \in Machines : h.max \in Nat /\ h.leaving \in BOOLEAN
                         /\ h.riscv \in BOOLEAN /\ (h.max = 0 => h.riscv)

VARIABLES
  hw,         \* the hardware of this behaviour
  epoch,      \* ASID_ALLOCATOR.epoch
  next,       \* ASID_ALLOCATOR.next
  rollover,   \* ASID_ROLLOVER
  published,  \* CURRENT_ASID_EPOCH
  seen,       \* CPU_ASID_EPOCH of each CPU
  context,    \* TlbContext.asid_context of each address space
  active,     \* TlbContext.active_cpus
  generation, \* TlbContext.generation
  observed,   \* TlbContext.observed
  version,    \* the contents of the page table entry
  freed,      \* the versions below this one have been released
  flush,      \* the TlbFlush of the last write, one at a time for each
  root,       \* the root and the ASID in the registers of each CPU
  tlb,        \* the translations each CPU caches
  pc,         \* where each CPU is
  want,       \* the address space it switches to, and the context it got
  current,    \* CpuTaskState.active_user_vm
  ack,        \* the CPUs that have yet to acknowledge the rollover flush
  stale,      \* an installation found another epoch than the published one
  switches    \* how many switches have begun

allocVars == <<epoch, next, rollover, published>>
mmVars    == <<context, active, generation, observed, version, freed, flush>>
cpuVars   == <<seen, root, tlb, pc, want, current>>
vars      == <<hw, allocVars, mmVars, cpuVars, ack, stale, switches>>

MaxAsid == hw.max

Riscv == hw.riscv

Hardware == MaxAsid # 0

Context == [epoch : 0..MaxEpoch, asid : 0..MaxAsid]

None == [epoch |-> 0, asid |-> 0]

Entry == [asid : 0..MaxAsid, mm : MMs, version : 0..MaxVersion]

FlushRec == [targets : SUBSET CPUs, asid : 0..MaxAsid, full : BOOLEAN, generation : Nat]

NoFlush == [targets |-> {}, asid |-> 0, full |-> FALSE, generation |-> 0]

(* Every variable has its type. *)
TypeOK ==
  /\ hw \in Machines
  /\ epoch \in 1..MaxEpoch /\ next \in 1..(MaxAsid + 1) /\ rollover \in BOOLEAN
  /\ published \in 1..MaxEpoch /\ seen \in [CPUs -> 0..MaxEpoch]
  /\ context \in [MMs -> Context] /\ active \in [MMs -> SUBSET CPUs]
  /\ generation \in [MMs -> Nat] /\ observed \in [MMs -> [CPUs -> Nat]]
  /\ version \in [MMs -> 0..MaxVersion] /\ freed \in [MMs -> 0..MaxVersion]
  /\ flush \in [MMs -> FlushRec]
  /\ root \in [CPUs -> [mm : MMs \cup {NoMm}, asid : 0..MaxAsid]]
  /\ tlb \in [CPUs -> SUBSET Entry]
  /\ pc \in [CPUs -> {"kernel", "user", "assign", "install", "roll", "cas", "wait", "lead", "sync",
                      "number", "publish", "clear", "leave"}]
  /\ want \in [CPUs -> [mm : MMs \cup {NoMm}, context : Context]]
  /\ current \in [CPUs -> MMs \cup {NoMm}]
  /\ ack \subseteq CPUs /\ stale \in BOOLEAN /\ switches \in 0..MaxSwitches

Init ==
  /\ hw \in Machines
  /\ epoch = 1 /\ next = 1 /\ rollover = FALSE /\ published = 1
  /\ seen = [c \in CPUs |-> 0]
  /\ context = [m \in MMs |-> None]
  /\ active = [m \in MMs |-> {}]
  /\ generation = [m \in MMs |-> 1]
  /\ observed = [m \in MMs |-> [c \in CPUs |-> 0]]
  /\ version = [m \in MMs |-> 0]
  /\ freed = [m \in MMs |-> 0]
  /\ flush = [m \in MMs |-> NoFlush]
  /\ root = [c \in CPUs |-> [mm |-> NoMm, asid |-> 0]]
  /\ tlb = [c \in CPUs |-> {}]
  /\ pc = [c \in CPUs |-> "kernel"]
  /\ want = [c \in CPUs |-> [mm |-> NoMm, context |-> None]]
  /\ current = [c \in CPUs |-> NoMm]
  /\ ack = {}
  /\ stale = FALSE
  /\ switches = 0

(* A CPU is at a place; the failed assertion stops the machine. *)
At(c, at) == pc[c] = at /\ ~stale

Goto(c, at) == pc' = [pc EXCEPT ![c] = at]

-----------------------------------------------------------------------------
(* A translation is cached under the installed ASID. *)
Fill(c) ==
  LET r == root[c] IN
  /\ ~stale /\ r.mm # NoMm /\ (Riscv \/ pc[c] = "user")
  /\ tlb' = [tlb EXCEPT ![c] = @ \cup {[asid |-> r.asid, mm |-> r.mm, version |-> version[r.mm]]}]
  /\ UNCHANGED <<hw, allocVars, mmVars, seen, root, pc, want, current, ack, stale, switches>>

Trap(c) ==
  /\ At(c, "user") /\ Goto(c, "kernel")
  /\ UNCHANGED <<hw, allocVars, mmVars, seen, root, tlb, want, current, ack, stale, switches>>

(* The return to user mode begins: switch_user_vm with interrupts off.      *)
(* LoongArch leaves the previous address space first.                       *)
SwitchUserVm(c, m) ==
  LET old == current[c] IN
  /\ At(c, "kernel") /\ Goto(c, "assign") /\ switches < MaxSwitches
  /\ switches' = switches + 1
  /\ want' = [want EXCEPT ![c] = [mm |-> m, context |-> None]]
  /\ IF Riscv \/ old \in {m, NoMm} THEN UNCHANGED <<active, current>>
     ELSE /\ active' = [active EXCEPT ![old] = @ \ {c}]
          /\ current' = [current EXCEPT ![c] = NoMm]
  /\ UNCHANGED <<hw, allocVars, context, generation, observed, version, freed, flush, seen, root, tlb,
       ack, stale>>

(* try_assign_asid: the context an address space would get, if any.         *)
Assignable(m) == ~Hardware \/ (~rollover /\ (context[m].epoch = epoch \/ next <= MaxAsid))

(* What try_assign_asid returns. *)
Assigned(m) ==
  IF ~Hardware THEN None
  ELSE IF context[m].epoch = epoch THEN context[m]
  ELSE [epoch |-> epoch, asid |-> next]

(* activate_cpu: the CPU is registered, and flushes what it cached when it  *)
(* missed a generation.                                                     *)
ActivateCpu(m, c) ==
  /\ active' = [active EXCEPT ![m] = @ \cup {c}]
  /\ observed' = [observed EXCEPT ![m][c] = generation[m]]
  /\ tlb' = IF observed[m][c] < generation[m] THEN [tlb EXCEPT ![c] = {}] ELSE tlb

(* One round of activate_on under the address space lock. *)
Assign(c) ==
  LET m == want[c].mm IN
  /\ At(c, "assign") /\ Assignable(m)
  /\ context' = [context EXCEPT ![m] = Assigned(m)]
  /\ next' = IF Assigned(m) # context[m] THEN next + 1 ELSE next
  /\ ActivateCpu(m, c)
  /\ want' = [want EXCEPT ![c].context = Assigned(m)]
  /\ Goto(c, "install")
  /\ UNCHANGED <<hw, epoch, rollover, published, generation, version, freed, flush, seen, root,
       current, ack, stale, switches>>

AssignFails(c) ==
  /\ At(c, "assign") /\ ~Assignable(want[c].mm) /\ Goto(c, "roll")
  /\ UNCHANGED <<hw, allocVars, mmVars, seen, root, tlb, want, current, ack, stale, switches>>

(* Mutant: the registers are written and nothing is flushed. *)
WriteLazy(c, m, ctx) ==
  /\ root' = [root EXCEPT ![c] = [mm |-> m, asid |-> ctx.asid]]
  /\ UNCHANGED <<tlb, seen>>
  /\ stale' = (stale \/ (Riscv /\ Hardware /\ ctx.epoch # published))

(* install_page_table: nothing to do when the registers hold the value and  *)
(* the CPU has seen the epoch; otherwise the registers are written, and     *)
(* everything is flushed without ASIDs or in an epoch new to the CPU.       *)
Write(c, m, ctx) ==
  LET target == [mm |-> m, asid |-> ctx.asid]
      late   == Hardware /\ seen[c] < ctx.epoch
  IN
  /\ root' = [root EXCEPT ![c] = target]
  /\ tlb' = IF Riscv /\ (late \/ (~Hardware /\ root[c] # target)) THEN [tlb EXCEPT ![c] = {}] ELSE tlb
  /\ seen' = IF Riscv /\ late THEN [seen EXCEPT ![c] = ctx.epoch] ELSE seen
  /\ stale' = (stale \/ (Riscv /\ Hardware /\ ctx.epoch # published))

(* The registers are written, then the previous address space is left, and  *)
(* the CPU goes to user mode without opening its interrupts.                *)
Install(c) ==
  LET m == want[c].mm  old == current[c] IN
  /\ At(c, "install") /\ Goto(c, "user")
  /\ Write(c, m, want[c].context)
  /\ active' = IF old \in {m, NoMm} THEN active ELSE [active EXCEPT ![old] = @ \ {c}]
  /\ current' = [current EXCEPT ![c] = m]
  /\ want' = [want EXCEPT ![c] = [mm |-> NoMm, context |-> None]]
  /\ UNCHANGED <<hw, allocVars, context, generation, observed, version, freed, flush, ack, switches>>

(* leave_user_vm on RISC-V: interrupts off, then current_asid_epoch.        *)
LeaveUserVm(c) ==
  /\ hw.leaving /\ Riscv /\ At(c, "kernel") /\ current[c] # NoMm /\ Goto(c, "leave")
  /\ want' = [want EXCEPT ![c].context =
                IF Hardware THEN [epoch |-> published, asid |-> 0] ELSE None]
  /\ UNCHANGED <<hw, allocVars, mmVars, seen, root, tlb, current, ack, stale, switches>>

(* The kernel root is installed and the address space is left. *)
InstallKernel(c) ==
  /\ At(c, "leave") /\ Goto(c, "kernel")
  /\ Write(c, NoMm, want[c].context)
  /\ active' = [active EXCEPT ![current[c]] = @ \ {c}]
  /\ current' = [current EXCEPT ![c] = NoMm]
  /\ want' = [want EXCEPT ![c].context = None]
  /\ UNCHANGED <<hw, allocVars, context, generation, observed, version, freed, flush, ack, switches>>

(* leave_user_vm on LoongArch: the registers keep their values. *)
LeaveKeepingRoot(c) ==
  /\ hw.leaving /\ ~Riscv /\ At(c, "kernel") /\ current[c] # NoMm
  /\ active' = [active EXCEPT ![current[c]] = @ \ {c}]
  /\ current' = [current EXCEPT ![c] = NoMm]
  /\ UNCHANGED <<hw, allocVars, context, generation, observed, version, freed, flush, seen, root, tlb,
       pc, want, ack, stale, switches>>

-----------------------------------------------------------------------------
(* rollover_asids: the numbers are used up, unless another leader was here. *)
RollNotNeeded(c) ==
  /\ At(c, "roll") /\ next <= MaxAsid /\ Goto(c, "assign")
  /\ UNCHANGED <<hw, allocVars, mmVars, seen, root, tlb, want, current, ack, stale, switches>>

RollNeeded(c) ==
  /\ At(c, "roll") /\ next > MaxAsid /\ Goto(c, "cas")
  /\ UNCHANGED <<hw, allocVars, mmVars, seen, root, tlb, want, current, ack, stale, switches>>

(* The exchange of the flag elects one leader. *)
RollWait(c) ==
  /\ At(c, "cas") /\ rollover /\ Goto(c, "wait")
  /\ UNCHANGED <<hw, allocVars, mmVars, seen, root, tlb, want, current, ack, stale, switches>>

RollLead(c) ==
  /\ At(c, "cas") /\ ~rollover
  /\ rollover' = TRUE /\ Goto(c, "lead")
  /\ UNCHANGED <<hw, epoch, next, published, mmVars, seen, root, tlb, want, current, ack, stale, switches>>

(* A waiter spins with its interrupts open until the flag is cleared. *)
RollWaited(c) ==
  /\ At(c, "wait") /\ ~rollover /\ Goto(c, "assign")
  /\ UNCHANGED <<hw, allocVars, mmVars, seen, root, tlb, want, current, ack, stale, switches>>

(* The leader looks again: its first look may predate the last rollover.    *)
LeadTooLate(c) ==
  /\ At(c, "lead") /\ next <= MaxAsid
  /\ rollover' = FALSE /\ Goto(c, "assign")
  /\ UNCHANGED <<hw, epoch, next, published, mmVars, seen, root, tlb, want, current, ack, stale, switches>>

(* Mutant: the leader flushes its own CPU only. *)
LeadFlushLocal(c) ==
  /\ At(c, "lead") /\ next > MaxAsid /\ epoch < MaxEpoch
  /\ tlb' = [tlb EXCEPT ![c] = {}]
  /\ Goto(c, "sync")
  /\ UNCHANGED <<hw, allocVars, mmVars, seen, root, want, current, ack, stale, switches>>

(* synchronize_user_tlb on every CPU, without a range. *)
LeadFlush(c) ==
  /\ At(c, "lead") /\ next > MaxAsid /\ epoch < MaxEpoch
  /\ ack' = CPUs \ {c}
  /\ tlb' = [tlb EXCEPT ![c] = {}]
  /\ Goto(c, "sync")
  /\ UNCHANGED <<hw, allocVars, mmVars, seen, root, want, current, stale, switches>>

(* Mutant: the CPUs that wait for a rollover keep their interrupts off. *)
IrqShut(d) == pc[d] \in {"user", "kernel", "sync"}

(* Where a CPU takes an IPI: in user mode, in the kernel with interrupts    *)
(* open, and while it waits for a flush or for the end of a rollover.       *)
IrqOpen(d) == pc[d] \in {"user", "kernel", "wait", "sync"}

(* An IPI interrupts user mode; the way back goes through switch_user_vm.   *)
Interrupted(d) == IF pc[d] = "user" THEN [pc EXCEPT ![d] = "kernel"] ELSE pc

(* The handler flushes every user translation and acknowledges. *)
AckRollover(d) ==
  /\ ~stale /\ d \in ack /\ IrqOpen(d)
  /\ ack' = ack \ {d}
  /\ tlb' = [tlb EXCEPT ![d] = {}]
  /\ pc' = Interrupted(d)
  /\ UNCHANGED <<hw, allocVars, mmVars, seen, root, want, current, stale, switches>>

LeadAcked(c) ==
  /\ At(c, "sync") /\ ack = {} /\ Goto(c, "number")
  /\ UNCHANGED <<hw, allocVars, mmVars, seen, root, tlb, want, current, ack, stale, switches>>

(* Mutant: the numbers start again at the one of the kernel. *)
LeadNumberZero(c) ==
  /\ At(c, "number") /\ epoch' = epoch + 1 /\ next' = 0 /\ Goto(c, "publish")
  /\ UNCHANGED <<hw, rollover, published, mmVars, seen, root, tlb, want, current, ack, stale, switches>>

(* The allocator first, then the published epoch, then the flag. *)
LeadNumber(c) ==
  /\ At(c, "number") /\ epoch' = epoch + 1 /\ next' = 1 /\ Goto(c, "publish")
  /\ UNCHANGED <<hw, rollover, published, mmVars, seen, root, tlb, want, current, ack, stale, switches>>

LeadPublish(c) ==
  /\ At(c, "publish") /\ published' = epoch /\ Goto(c, "clear")
  /\ UNCHANGED <<hw, epoch, next, rollover, mmVars, seen, root, tlb, want, current, ack, stale, switches>>

LeadClear(c) ==
  /\ At(c, "clear") /\ rollover' = FALSE /\ Goto(c, "assign")
  /\ UNCHANGED <<hw, epoch, next, published, mmVars, seen, root, tlb, want, current, ack, stale, switches>>

-----------------------------------------------------------------------------
(* Mutant: a changed entry is always flushed by ASID. *)
RequireFullNever(m) == FALSE

(* targets_require_full_asid_flush: a target runs an older context. *)
RequireFull(m) ==
  Riscv /\ Hardware /\ \E c \in active[m] : seen[c] < context[m].epoch

(* A page table entry changes under the address space lock: the targets and *)
(* the ASID are frozen and the generation advances.                         *)
WritePte(m) ==
  /\ ~stale /\ m \in Written /\ version[m] < MaxVersion /\ flush[m] = NoFlush
  /\ version' = [version EXCEPT ![m] = @ + 1]
  /\ generation' = [generation EXCEPT ![m] = @ + 1]
  /\ flush' = [flush EXCEPT ![m] =
       [targets |-> active[m], asid |-> context[m].asid, full |-> RequireFull(m),
        generation |-> generation[m] + 1]]
  /\ UNCHANGED <<hw, allocVars, context, active, observed, freed, cpuVars, ack, stale, switches>>

(* A target invalidates. The ranged flush of RISC-V is done by firmware,    *)
(* with the interrupts of the kernel on or off; the others by an IPI.       *)
FlushTarget(m, d) ==
  LET f == flush[m] IN
  /\ ~stale /\ d \in f.targets /\ ((Riscv /\ ~f.full) \/ IrqOpen(d))
  /\ flush' = [flush EXCEPT ![m].targets = @ \ {d}]
  /\ tlb' = [tlb EXCEPT ![d] = IF f.full THEN {} ELSE {e \in @ : e.asid # f.asid}]
  /\ observed' = [observed EXCEPT ![m][d] = IF @ < f.generation THEN f.generation ELSE @]
  /\ pc' = IF Riscv /\ ~f.full THEN pc ELSE Interrupted(d)
  /\ UNCHANGED <<hw, allocVars, context, active, generation, version, freed, seen, root, want,
       current, ack, stale, switches>>

(* Every target is done: the frame of the old version is released. *)
FinishFlush(m) ==
  /\ ~stale /\ flush[m] # NoFlush /\ flush[m].targets = {}
  /\ flush' = [flush EXCEPT ![m] = NoFlush]
  /\ freed' = [freed EXCEPT ![m] = version[m]]
  /\ UNCHANGED <<hw, allocVars, context, active, generation, observed, version, cpuVars, ack, stale, switches>>

-----------------------------------------------------------------------------
Roll(c) ==
  \/ RollNotNeeded(c) \/ RollNeeded(c) \/ RollWait(c) \/ RollLead(c) \/ RollWaited(c)
  \/ LeadTooLate(c) \/ LeadFlush(c) \/ LeadAcked(c) \/ LeadNumber(c) \/ LeadPublish(c) \/ LeadClear(c)

CpuStep(c) ==
  \/ Fill(c) \/ Trap(c) \/ Assign(c) \/ AssignFails(c) \/ Install(c) \/ LeaveUserVm(c)
  \/ InstallKernel(c) \/ LeaveKeepingRoot(c) \/ Roll(c) \/ AckRollover(c)
  \/ \E m \in MMs : SwitchUserVm(c, m)

MmStep(m) == WritePte(m) \/ FinishFlush(m) \/ \E d \in CPUs : FlushTarget(m, d)

Next == (\E c \in CPUs : CpuStep(c)) \/ \E m \in MMs : MmStep(m)

Spec == Init /\ [][Next]_vars

-----------------------------------------------------------------------------
(* The translations an access can hit: on LoongArch one of user mode, on    *)
(* RISC-V any, because the kernel runs under the installed root.            *)
Hits(c) == IF Riscv \/ pc[c] = "user" THEN {e \in tlb[c] : e.asid = root[c].asid} ELSE {}

(* An access hits translations of the installed address space only,         *)
(* although numbers are used again after a rollover; and within an epoch    *)
(* two address spaces never own the same number.                            *)
Isolated ==
  /\ \A c \in CPUs : \A e \in Hits(c) : e.mm = root[c].mm
  /\ \A m, n \in MMs :
       m # n /\ Hardware /\ context[m].epoch = epoch /\ context[n].epoch = epoch
         => context[m].asid # context[n].asid

(* No access hits a translation to a frame that was released. *)
NoFreedFrame == \A c \in CPUs : \A e \in Hits(c) : e.version >= freed[e.mm]

(* A context that is installed belongs to the published epoch: the          *)
(* assertion of local_asid_epoch_needs_flush holds.                         *)
NoStaleInstall == ~stale

(* The leader of a rollover and the CPUs it waits for do not wait for each  *)
(* other: a CPU that has yet to flush has its interrupts open, or is in a   *)
(* stretch of kernel code that ends without waiting for anyone.             *)
LeaderHeard ==
  \A d \in ack : IrqOpen(d) \/ pc[d] \in {"assign", "install", "roll", "cas", "leave"}

=============================================================================
