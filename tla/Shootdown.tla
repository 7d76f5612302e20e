----------------------------- MODULE Shootdown -----------------------------
(***************************************************************************)
(* The inter-processor requests of os/src/smp.rs: the reason mailbox and   *)
(* its doorbell, the hard IRQ handler that drains it, and the synchronous  *)
(* requests built on it: the memory barrier, the kernel and the user TLB   *)
(* flush (a request and an acknowledged sequence number per target) and    *)
(* the ranged user flush (a payload slot per initiator); the kernel flush  *)
(* deferred to the dispatch of a task; STOP.                               *)
(*                                                                         *)
(* A payload is the number of the call that published it: the handler      *)
(* invalidates what the caller asked for exactly when it reads that        *)
(* number. The words of two targets are independent, so a loop over the    *)
(* targets is one step. Sequence numbers and stopped marks only grow, so   *)
(* the scan for missing targets is one step too. RESCHEDULE and            *)
(* TIMER_REPROGRAM only set a flag; RESCHEDULE is in Sched. Ranged flushes *)
(* of RISC-V go through firmware and do not use the slots.                 *)
(***************************************************************************)
EXTENDS Integers, FiniteSets

CONSTANTS
  N,           \* number of online CPUs; CPU 0 is the boot CPU
  Workloads,   \* the sets of requests that are made together
  Budget,      \* bound on the requests each CPU makes
  Targets,     \* the sets of CPUs the callers name
  MaxLost,     \* bound on the doorbells that never arrive, for each workload
  Timeouts     \* whether a waiting CPU may reach its deadline

CPUs == 0..(N - 1)

Boot == 0

Sequenced == {"barrier", "kernel", "user"}

ASSUME ShootdownAssumption ==
  /\ N \in Nat \ {0} /\ MaxLost \in [Workloads -> Nat] /\ Budget \in [CPUs -> Nat]
  /\ Targets \subseteq SUBSET CPUs
  /\ \A load \in Workloads : load \subseteq Sequenced \cup {"range", "defer", "stop"}
  /\ Timeouts \in BOOLEAN

VARIABLES
  kinds,     \* the requests made in this behaviour
  mail,      \* pending_ipi: the reasons published to each CPU
  bell,      \* a doorbell is pending at the CPU
  request,   \* the *_request sequence of each kind and CPU
  ack,       \* the *_ack sequence of each kind and CPU
  slot,      \* USER_TLB_RANGE_SLOTS, one per initiator
  call,      \* the synchronous request each CPU is making
  handler,   \* handle_ipi on each CPU
  stopReq,   \* stop_requested
  stopped,   \* the CPUs that acknowledged STOP
  task,      \* the task published to each CPU with a deferred kernel flush
  done,      \* the CPUs that did what the call of each CPU asks, since it began
  made,      \* the requests made by each CPU
  lost       \* doorbells lost so far

seqVars  == <<request, ack>>
stopVars == <<stopReq, stopped>>
vars == <<kinds, mail, bell, seqVars, slot, call, handler, stopVars, task, done, made, lost>>

SlotRec == [targets : SUBSET CPUs, acked : SUBSET CPUs, payload : Nat]

CallRec == [pc : {"idle", "payload", "targets", "send", "wait", "stopping", "off", "failed"},
            kind : Sequenced \cup {"range"}, remote : SUBSET CPUs, expected : [CPUs -> Nat],
            result : {"none", "ok", "timeout"}]

HandlerRec == [pc : {"off", "scan", "flush", "ack", "acked", "invalidate", "rangeAck"},
               reasons : SUBSET (Sequenced \cup {"range"}), seq : Nat, slot : CPUs]

(* Every variable has its type. *)
TypeOK ==
  /\ kinds \in Workloads
  /\ mail \in [CPUs -> SUBSET (Sequenced \cup {"range", "stop"})]
  /\ bell \in [CPUs -> BOOLEAN]
  /\ request \in [Sequenced -> [CPUs -> Nat]]
  /\ ack \in [Sequenced -> [CPUs -> Nat]]
  /\ slot \in [CPUs -> SlotRec]
  /\ call \in [CPUs -> CallRec]
  /\ handler \in [CPUs -> HandlerRec]
  /\ stopReq \in [CPUs -> BOOLEAN]
  /\ stopped \subseteq CPUs \ {Boot}
  /\ task \in [CPUs -> {"none", "unseen", "seen", "running", "fault"}]
  /\ done \in [CPUs -> SUBSET CPUs]
  /\ made \in [CPUs -> Nat] /\ \A c \in CPUs : made[c] <= Budget[c]
  /\ lost \in 0..MaxLost[kinds]

Zero == [c \in CPUs |-> 0]

Idle == [pc |-> "idle", kind |-> "user", remote |-> {}, expected |-> Zero,
         result |-> "none"]

Init ==
  /\ kinds \in Workloads
  /\ mail = [c \in CPUs |-> {}]
  /\ bell = [c \in CPUs |-> FALSE]
  /\ request = [k \in Sequenced |-> Zero]
  /\ ack = [k \in Sequenced |-> Zero]
  /\ slot = [c \in CPUs |-> [targets |-> {}, acked |-> {}, payload |-> 0]]
  /\ call = [c \in CPUs |-> Idle]
  /\ handler = [c \in CPUs |-> [pc |-> "off", reasons |-> {}, seq |-> 0, slot |-> Boot]]
  /\ stopReq = [c \in CPUs |-> FALSE]
  /\ stopped = {}
  /\ task = [c \in CPUs |-> "none"]
  /\ done = [c \in CPUs |-> {}]
  /\ made = Zero
  /\ lost = 0

-----------------------------------------------------------------------------
(* Mutant: the waiting CPU keeps its interrupts off. *)
IrqClosed(c) == call[c].pc = "idle"

(* Where the interrupts of a CPU can be taken: outside a request, and while *)
(* it waits for one, because IpiWaitIrqGuard opens them.                    *)
IrqOpen(c) == call[c].pc \in {"idle", "wait"}

(* The code of CPU c runs only while its handler does not. *)
Runs(c, at) == call[c].pc = at /\ handler[c].pc = "off" /\ c \notin stopped

(* send_ipi_mask: the reason goes into every mailbox, then the doorbells    *)
(* ring; a set of at most MaxLost doorbells is lost, the reasons stay.      *)
SendIpiMask(targets, reason) ==
  /\ mail' = [d \in CPUs |-> IF d \in targets THEN mail[d] \cup {reason} ELSE mail[d]]
  /\ \E dropped \in SUBSET targets :
       /\ lost + Cardinality(dropped) <= MaxLost[kinds]
       /\ lost' = lost + Cardinality(dropped)
       /\ bell' = [d \in CPUs |-> bell[d] \/ d \in targets \ dropped]

(* The targets a waiting CPU still misses: a stopped CPU counts as done.    *)
Missing(c) ==
  {d \in call[c].remote \ stopped :
     IF call[c].kind = "range" THEN d \notin slot[c].acked
     ELSE ack[call[c].kind][d] < call[c].expected[d]}

(* A request of CPU c begins: nothing has been done for it yet. *)
Enter(c) ==
  /\ made[c] < Budget[c]
  /\ made' = [made EXCEPT ![c] = @ + 1]
  /\ done' = [done EXCEPT ![c] = {}]

(* Take the next sequence number of kind k on every target. *)
Bump(k, targets) ==
  request' = [request EXCEPT ![k] = [d \in CPUs |-> @[d] + (IF d \in targets THEN 1 ELSE 0)]]

(* A sequenced request up to its numbers on the live remote targets.        *)
Begin(c, k, targets) ==
  LET remote == targets \ (stopped \cup {c}) IN
  /\ k \in kinds /\ Runs(c, "idle") /\ remote # {}
  /\ Enter(c)
  /\ Bump(k, remote)
  /\ call' = [call EXCEPT ![c] = [pc |-> "send", kind |-> k, remote |-> remote,
                                   expected |-> request'[k], result |-> "none"]]
  /\ UNCHANGED <<kinds, mail, bell, ack, slot, handler, stopVars, task, lost>>

SynchronizeMemory(c, targets) == Begin(c, "barrier", targets)

SynchronizeKernelMappingAll(c) == Begin(c, "kernel", CPUs)

(* synchronize_user_tlb without a range. *)
SynchronizeUserTlb(c, targets) == Begin(c, "user", targets)

(* The ranged synchronize_user_tlb: claim the slot of this CPU and clear    *)
(* its acknowledgements. The slot is free: a call that keeps it fails-stop. *)
BeginRange(c, targets) ==
  LET remote == targets \ (stopped \cup {c}) IN
  /\ "range" \in kinds /\ Runs(c, "idle") /\ remote # {}
  /\ Enter(c)
  /\ slot' = [slot EXCEPT ![c].acked = {}]
  /\ call' = [call EXCEPT ![c] = [pc |-> "payload", kind |-> "range", remote |-> remote,
                                   expected |-> Zero, result |-> "none"]]
  /\ UNCHANGED <<kinds, mail, bell, seqVars, handler, stopVars, task, lost>>

(* publish: the ASID, the range, the context and its generation. *)
PublishPayload(c) ==
  /\ Runs(c, "payload")
  /\ slot' = [slot EXCEPT ![c].payload = made[c]]
  /\ call' = [call EXCEPT ![c].pc = "targets"]
  /\ UNCHANGED <<kinds, mail, bell, seqVars, handler, stopVars, task, done, made, lost>>

(* publish: the store of the targets, which hands out the payload. *)
PublishTargets(c) ==
  /\ Runs(c, "targets")
  /\ slot' = [slot EXCEPT ![c].targets = call[c].remote]
  /\ call' = [call EXCEPT ![c].pc = "send"]
  /\ UNCHANGED <<kinds, mail, bell, seqVars, handler, stopVars, task, done, made, lost>>

(* The reason is published and the doorbells ring; then the CPU waits. *)
Send(c) ==
  /\ Runs(c, "send")
  /\ SendIpiMask(call[c].remote, call[c].kind)
  /\ call' = [call EXCEPT ![c].pc = "wait"]
  /\ UNCHANGED <<kinds, seqVars, slot, handler, stopVars, task, done, made>>

(* Every 10 ms the reason is sent again to the targets that are missing, or *)
(* to every live target of a kernel flush; a barrier is sent once.          *)
Kick(c) ==
  /\ Runs(c, "wait") /\ Missing(c) # {} /\ call[c].kind # "barrier"
  /\ SendIpiMask(IF call[c].kind = "kernel" THEN call[c].remote \ stopped ELSE Missing(c),
                 call[c].kind)
  /\ UNCHANGED <<kinds, seqVars, slot, call, handler, stopVars, task, done, made>>

(* Nobody is missing: the call returns, and releases its slot. *)
Return(c) ==
  /\ Runs(c, "wait") /\ Missing(c) = {}
  /\ call' = [call EXCEPT ![c] = [Idle EXCEPT !.result = "ok"]]
  /\ slot' = IF call[c].kind = "range" THEN [slot EXCEPT ![c].targets = {}] ELSE slot
  /\ UNCHANGED <<kinds, mail, bell, seqVars, handler, stopVars, task, done, made, lost>>

(* Mutant: a deadline that passes counts as success. *)
TimeoutOk(c) ==
  /\ Timeouts /\ Runs(c, "wait") /\ Missing(c) # {}
  /\ call' = [call EXCEPT ![c] = [Idle EXCEPT !.result = "ok"]]
  /\ UNCHANGED <<kinds, mail, bell, seqVars, slot, handler, stopVars, task, done, made, lost>>

(* The deadline passes: a barrier returns the error to its caller, a TLB    *)
(* flush keeps its slot and its caller fails-stop.                          *)
Timeout(c) ==
  /\ Timeouts /\ Runs(c, "wait") /\ Missing(c) # {}
  /\ call' = [call EXCEPT ![c] =
                [(IF @.kind = "barrier" THEN Idle ELSE [@ EXCEPT !.pc = "failed"])
                   EXCEPT !.result = "timeout"]]
  /\ UNCHANGED <<kinds, mail, bell, seqVars, slot, handler, stopVars, task, done, made, lost>>

-----------------------------------------------------------------------------
(* What an operation of CPU d accomplishes for the calls under way. *)
Credit(d, what) ==
  done' = [c \in CPUs |->
             IF call[c].pc # "idle" /\ call[c].kind \in what THEN done[c] \cup {d} ELSE done[c]]

(* The instruction of the handler: a fence, a kernel or a user flush; a     *)
(* full user flush also does what a ranged one asks.                        *)
Accomplish(d, k) ==
  /\ Credit(d, IF k = "user" THEN {"user", "range"} ELSE {k})
  /\ task' = IF k = "kernel" /\ task[d] = "unseen" THEN [task EXCEPT ![d] = "seen"] ELSE task

(* Mutant: one reason is served, as by an else-if chain. *)
HandleIpiOne(d) ==
  /\ bell[d] /\ IrqOpen(d) /\ handler[d].pc = "off" /\ d \notin stopped
  /\ bell' = [bell EXCEPT ![d] = FALSE]
  /\ mail' = [mail EXCEPT ![d] = {}]
  /\ handler' = [handler EXCEPT ![d].pc = "scan",
                   ![d].reasons = IF "user" \in mail[d] THEN {"user"} ELSE mail[d] \ {"stop"}]
  /\ stopReq' = [stopReq EXCEPT ![d] = @ \/ "stop" \in mail[d]]
  /\ UNCHANGED <<kinds, seqVars, slot, call, stopped, task, done, made, lost>>

(* handle_ipi: take every reason out of the mailbox. *)
HandleIpi(d) ==
  /\ bell[d] /\ IrqOpen(d) /\ handler[d].pc = "off" /\ d \notin stopped
  /\ bell' = [bell EXCEPT ![d] = FALSE]
  /\ mail' = [mail EXCEPT ![d] = {}]
  /\ handler' = [handler EXCEPT ![d].pc = "scan", ![d].reasons = mail[d] \ {"stop"}]
  /\ stopReq' = [stopReq EXCEPT ![d] = @ \/ "stop" \in mail[d]]
  /\ UNCHANGED <<kinds, seqVars, slot, call, stopped, task, done, made, lost>>

(* The order in which the handler looks at the reasons it took. *)
First(reasons, k) ==
  /\ k \in reasons
  /\ k = "kernel" => "barrier" \notin reasons
  /\ k = "user" => reasons \cap {"barrier", "kernel"} = {}
  /\ k = "range" => reasons = {"range"}

(* Read the request; a barrier or a user flush already acknowledged is      *)
(* skipped, a kernel flush is repeated.                                     *)
Snapshot(d, k) ==
  LET seq == request[k][d] IN
  /\ handler[d].pc = "scan" /\ First(handler[d].reasons, k)
  /\ handler' = IF k # "kernel" /\ ack[k][d] >= seq
                THEN [handler EXCEPT ![d].reasons = @ \ {k}]
                ELSE [handler EXCEPT ![d].pc = "flush", ![d].seq = seq]
  /\ UNCHANGED <<kinds, mail, bell, seqVars, slot, call, stopVars, task, done, made, lost>>

(* The fence or the flush itself. *)
Flush(d, k) ==
  /\ handler[d].pc = "flush" /\ First(handler[d].reasons, k)
  /\ Accomplish(d, k)
  /\ handler' = [handler EXCEPT ![d].pc = "ack"]
  /\ UNCHANGED <<kinds, mail, bell, seqVars, slot, call, stopVars, made, lost>>

(* Mutant: the request is read after the flush. *)
AckLatest(d, k) ==
  /\ handler[d].pc = "ack" /\ First(handler[d].reasons, k)
  /\ ack' = [ack EXCEPT ![k][d] = request[k][d]]
  /\ handler' = [handler EXCEPT ![d].pc = "scan", ![d].reasons = @ \ {k}, ![d].seq = 0]
  /\ UNCHANGED <<kinds, mail, bell, request, slot, call, stopVars, task, done, made, lost>>

(* Acknowledge the number read before the flush. *)
Ack(d, k) ==
  /\ handler[d].pc = "ack" /\ First(handler[d].reasons, k)
  /\ ack' = [ack EXCEPT ![k][d] = handler[d].seq]
  /\ handler' = [handler EXCEPT ![d].pc = "scan", ![d].reasons = @ \ {k}, ![d].seq = 0]
  /\ UNCHANGED <<kinds, mail, bell, request, slot, call, stopVars, task, done, made, lost>>

(* Mutant: the scan runs past the last slot. *)
PastSlotOver(h) ==
  IF h.slot = N THEN [h EXCEPT !.pc = "scan", !.reasons = @ \ {"range"}, !.slot = Boot]
  ELSE [h EXCEPT !.pc = "scan", !.slot = @ + 1]

(* The handler record after slot s: the next slot, or the end of the scan.  *)
PastSlot(h) ==
  IF h.slot = N - 1 THEN [h EXCEPT !.pc = "scan", !.reasons = @ \ {"range"}, !.slot = Boot]
  ELSE [h EXCEPT !.pc = "scan", !.slot = @ + 1]

(* UserTlbRangeSlot::service, first load: the targets. *)
ServiceTargets(d) ==
  LET h == handler[d] IN
  /\ h.pc = "scan" /\ First(h.reasons, "range")
  /\ handler' = [handler EXCEPT ![d] =
       IF d \in slot[h.slot].targets THEN [h EXCEPT !.pc = "acked"] ELSE PastSlot(h)]
  /\ UNCHANGED <<kinds, mail, bell, seqVars, slot, call, stopVars, task, done, made, lost>>

(* Second load: the acknowledgements. *)
ServiceAcked(d) ==
  LET h == handler[d] IN
  /\ h.pc = "acked"
  /\ handler' = [handler EXCEPT ![d] =
       IF d \in slot[h.slot].acked THEN PastSlot(h) ELSE [h EXCEPT !.pc = "invalidate"]]
  /\ UNCHANGED <<kinds, mail, bell, seqVars, slot, call, stopVars, task, done, made, lost>>

(* The payload is loaded and what it names invalidated. *)
Invalidate(d) ==
  LET h == handler[d]  c == h.slot IN
  /\ h.pc = "invalidate"
  /\ handler' = [handler EXCEPT ![d].pc = "rangeAck"]
  /\ done' = IF call[c].pc # "idle" /\ slot[c].payload = made[c]
             THEN [done EXCEPT ![c] = @ \cup {d}] ELSE done
  /\ UNCHANGED <<kinds, mail, bell, seqVars, slot, call, stopVars, task, made, lost>>

(* The acknowledgement in the slot. *)
RangeAck(d) ==
  LET h == handler[d] IN
  /\ h.pc = "rangeAck"
  /\ slot' = [slot EXCEPT ![h.slot].acked = @ \cup {d}]
  /\ handler' = [handler EXCEPT ![d] = PastSlot(h)]
  /\ UNCHANGED <<kinds, mail, bell, seqVars, call, stopVars, task, done, made, lost>>

HandlerReturn(d) ==
  /\ handler[d].pc = "scan" /\ handler[d].reasons = {}
  /\ handler' = [handler EXCEPT ![d].pc = "off"]
  /\ UNCHANGED <<kinds, mail, bell, seqVars, slot, call, stopVars, task, done, made, lost>>

-----------------------------------------------------------------------------
(* A task with a new kernel stack is published to CPU d: the request is     *)
(* numbered and nobody waits.                                               *)
DeferKernelMapping(c, d) ==
  /\ "defer" \in kinds /\ Runs(c, "idle") /\ d \notin stopped \cup {c} /\ task[d] = "none"
  /\ made[c] < Budget[c]
  /\ made' = [made EXCEPT ![c] = @ + 1]
  /\ Bump("kernel", {d})
  /\ task' = [task EXCEPT ![d] = "unseen"]
  /\ UNCHANGED <<kinds, mail, bell, ack, slot, call, handler, stopVars, done, lost>>

(* Mutant: the deferred flush is skipped. *)
DispatchBlind(d) ==
  /\ Runs(d, "idle") /\ task[d] \in {"unseen", "seen"}
  /\ task' = [task EXCEPT ![d] = IF @ = "seen" THEN "running" ELSE "fault"]
  /\ UNCHANGED <<kinds, mail, bell, seqVars, slot, call, handler, stopVars, done, made, lost>>

(* service_deferred_kernel_tlb on the idle stack, interrupts off, then the  *)
(* switch to the task: a stack that is not visible faults.                  *)
Dispatch(d) ==
  LET behind == ack["kernel"][d] < request["kernel"][d] IN
  /\ Runs(d, "idle") /\ task[d] \in {"unseen", "seen"}
  /\ ack' = [ack EXCEPT !["kernel"][d] = IF behind THEN request["kernel"][d] ELSE @]
  /\ IF behind THEN Credit(d, {"kernel"}) ELSE UNCHANGED done
  /\ task' = [task EXCEPT ![d] = IF behind \/ @ = "seen" THEN "running" ELSE "fault"]
  /\ UNCHANGED <<kinds, mail, bell, request, slot, call, handler, stopVars, made, lost>>

TaskEnds(d) ==
  /\ Runs(d, "idle") /\ task[d] = "running"
  /\ task' = [task EXCEPT ![d] = "none"]
  /\ UNCHANGED <<kinds, mail, bell, seqVars, slot, call, handler, stopVars, done, made, lost>>

(* stop_secondary_cpus from shutdown, with the interrupts of CPU 0 off.     *)
StopSecondaryCpus ==
  /\ "stop" \in kinds /\ Runs(Boot, "idle") /\ made[Boot] < Budget[Boot]
  /\ SendIpiMask(CPUs \ (stopped \cup {Boot}), "stop")
  /\ made' = [made EXCEPT ![Boot] = @ + 1]
  /\ call' = [call EXCEPT ![Boot].pc = "stopping"]
  /\ UNCHANGED <<kinds, seqVars, slot, handler, stopVars, task, done>>

(* Every secondary CPU has stopped, or the deadline passes: machine_shutdown *)
StopReturn ==
  /\ Runs(Boot, "stopping") /\ (Timeouts \/ CPUs \ {Boot} \subseteq stopped)
  /\ call' = [call EXCEPT ![Boot].pc = "off"]
  /\ UNCHANGED <<kinds, mail, bell, seqVars, slot, handler, stopVars, task, done, made, lost>>

(* service_secondary_ipi_work: the request is honoured on the idle stack,   *)
(* with no task and no handler.                                             *)
StopCpu(d) ==
  /\ d # Boot /\ Runs(d, "idle") /\ task[d] # "running" /\ stopReq[d]
  /\ stopReq' = [stopReq EXCEPT ![d] = FALSE]
  /\ stopped' = stopped \cup {d}
  /\ UNCHANGED <<kinds, mail, bell, seqVars, slot, call, handler, task, done, made, lost>>

-----------------------------------------------------------------------------
Caller(c) ==
  \/ \E targets \in Targets :
       SynchronizeMemory(c, targets) \/ SynchronizeUserTlb(c, targets) \/ BeginRange(c, targets)
  \/ SynchronizeKernelMappingAll(c)
  \/ PublishPayload(c) \/ PublishTargets(c) \/ Send(c) \/ Kick(c) \/ Return(c) \/ Timeout(c)

Handler(d) ==
  \/ HandleIpi(d)
  \/ \E k \in Sequenced : Snapshot(d, k) \/ Flush(d, k) \/ Ack(d, k)
  \/ ServiceTargets(d) \/ ServiceAcked(d) \/ Invalidate(d) \/ RangeAck(d) \/ HandlerReturn(d)

IdleStep(d) ==
  \/ \E c \in CPUs : DeferKernelMapping(c, d)
  \/ Dispatch(d) \/ TaskEnds(d) \/ StopCpu(d)

Next == (\E c \in CPUs : Caller(c) \/ Handler(c) \/ IdleStep(c)) \/ StopSecondaryCpus \/ StopReturn

Spec == Init /\ [][Next]_vars

(* A CPU whose interrupts are open takes them and its handler ends; a CPU   *)
(* that runs gets on with its request. Only the loop that waits for a call  *)
(* needs strong fairness: handlers keep interrupting it, but between two of *)
(* them it runs.                                                            *)
Fairness ==
  \A c \in CPUs :
    /\ WF_vars(PublishPayload(c) \/ PublishTargets(c) \/ Send(c))
    /\ WF_vars(Handler(c)) /\ SF_vars(Kick(c) \/ Return(c))

LiveSpec == Spec /\ Fairness

-----------------------------------------------------------------------------
(* Every synchronous request implements the promise of SyncCall: it returns *)
(* Ok only after every live target performed the operation since the call.  *)
Busy == {c \in CPUs : call[c].pc \in {"payload", "targets", "send", "wait"}}

Promise == INSTANCE SyncCall WITH
  owed   <- [c \in CPUs |-> IF c \in Busy THEN call[c].remote \ done[c] ELSE {}],
  busy   <- Busy,
  result <- [c \in CPUs |-> call[c].result],
  down   <- stopped

ImplementsSyncCall == Promise!Spec

(* The caller of a synchronous request may release what it unmapped as soon *)
(* as nobody is missing: then every target that is not stopped has really   *)
(* performed the operation after the request began.                         *)
AckMeansDone ==
  \A c \in CPUs :
    call[c].pc = "wait" /\ Missing(c) = {} => call[c].remote \subseteq done[c] \cup stopped

(* The handler of d has yet to act on the request of c, which waits for it. *)
WillServe(d, c) ==
  LET h == handler[d]  k == call[c].kind IN
  \/ k \in mail[d]
  \/ /\ k \in h.reasons
     /\ k = "range" => h.slot <= c
     /\ k # "range" /\ First(h.reasons, k) /\ h.pc # "scan" => h.seq >= call[c].expected[d]

(* A reason is a single bit that several callers share and that the handler *)
(* clears before it reads what was asked. No request is swallowed: while a  *)
(* caller misses a CPU, its reason is in the mailbox of that CPU or the     *)
(* handler there will still serve it.                                       *)
NoRequestSwallowed ==
  \A c \in CPUs : call[c].pc = "wait" => \A d \in Missing(c) : WillServe(d, c)

(* A task published with a deferred kernel flush never runs on a stack that *)
(* the TLB of its CPU may not know.                                         *)
StackVisible == \A d \in CPUs : task[d] # "fault"

(* The machine goes down: a flush that timed out fails-stop, or CPU 0 shuts *)
(* the other CPUs down.                                                     *)
GoingDown == \E c \in CPUs : call[c].pc \in {"failed", "stopping", "off"}

(* CPUs that make requests of each other at the same time all return: they  *)
(* do not wait for each other with the interrupts off, and a lost doorbell  *)
(* is repaired.                                                             *)
SyncReturns == \A c \in CPUs : call[c].pc = "wait" ~> (call[c].pc = "idle" \/ GoingDown)

=============================================================================
