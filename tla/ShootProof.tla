----------------------------- MODULE ShootProof -----------------------------
(***************************************************************************)
(* The inter-processor requests keep their promise for any number of CPUs, *)
(* requests and lost doorbells.                                            *)
(***************************************************************************)
EXTENDS Shootdown, FiniteSetTheorems, TLAPS

(* Where the handler stands: outside it holds no reason, the slots are      *)
(* scanned last, and the scan starts at the first slot.                     *)
HandlerAt(d) ==
  /\ handler[d].pc = "off" => handler[d].reasons = {}
  /\ "range" \notin handler[d].reasons => handler[d].slot = Boot
  /\ handler[d].pc \in {"acked", "invalidate", "rangeAck"} => handler[d].reasons = {"range"}

HandlerInv == \A d \in CPUs : HandlerAt(d)

(* The handler of d serves requests of kind k and has read their number.    *)
Serving(d, k, at) == handler[d].pc \in at /\ First(handler[d].reasons, k)

(* No number is acknowledged, or about to be, that was not requested, and   *)
(* the acknowledged numbers only grow.                                      *)
NumberAt(d) ==
  \A k \in Sequenced :
    /\ ack[k][d] <= request[k][d]
    /\ Serving(d, k, {"flush", "ack"})
         => ack[k][d] <= handler[d].seq /\ handler[d].seq <= request[k][d]

NumberInv == \A d \in CPUs : NumberAt(d)

(* While the stack of a published task is not visible, neither the          *)
(* acknowledged number nor the one about to be covers its request.          *)
StackAt(d) ==
  /\ task[d] # "fault"
  /\ task[d] = "unseen" =>
       /\ ack["kernel"][d] < request["kernel"][d]
       /\ Serving(d, "kernel", {"ack"}) => handler[d].seq < request["kernel"][d]

StackInv == \A d \in CPUs : StackAt(d)

(* The calls that have their numbers. *)
Numbered(c) == call[c].pc \in {"send", "wait"} /\ call[c].kind \in Sequenced

(* Target d acknowledges the number of the call of c, or is about to, only  *)
(* after it acted for the call.                                             *)
Covered(c, d) ==
  LET k == call[c].kind  n == call[c].expected[d] IN
  /\ n <= request[k][d]
  /\ n <= ack[k][d] => d \in done[c]
  /\ Serving(d, k, {"ack"}) /\ n <= handler[d].seq => d \in done[c]

SeqInv == \A c \in CPUs : Numbered(c) => \A d \in call[c].remote : Covered(c, d)

(* The slot of a CPU has targets only between the publication and the end   *)
(* of its ranged call.                                                      *)
SlotInv ==
  \A c \in CPUs :
    /\ call[c].pc \in {"payload", "targets"} => call[c].kind = "range"
    /\ call[c].kind = "range" /\ call[c].pc \in {"send", "wait"}
         => slot[c].targets = call[c].remote
    /\ slot[c].targets # {}
         => call[c].kind = "range" /\ call[c].pc \in {"send", "wait", "failed"}

(* What holds in every state, also when a slot is claimed again too early.  *)
IInv ==
  /\ TypeOK /\ HandlerInv /\ NumberInv /\ StackInv /\ SeqInv /\ SlotInv
  /\ NoRequestSwallowed

-----------------------------------------------------------------------------
(* The CPUs are a finite set, so the doorbells of a send can be counted. *)
LEMMA Dropped ==
  ASSUME NEW targets \in SUBSET CPUs, NEW dropped \in SUBSET targets
  PROVE  Cardinality(dropped) \in Nat
<1>1. IsFiniteSet(CPUs)
  BY FS_Interval, ShootdownAssumption DEF CPUs
<1>2. IsFiniteSet(dropped)
  BY <1>1, FS_Subset
<1> QED BY <1>2, FS_CardinalityType

LEMMA SendFacts ==
  ASSUME TypeOK, NEW targets \in SUBSET CPUs, NEW k \in Sequenced \cup {"range", "stop"},
         SendIpiMask(targets, k)
  PROVE  /\ mail' \in [CPUs -> SUBSET (Sequenced \cup {"range", "stop"})]
         /\ bell' \in [CPUs -> BOOLEAN] /\ lost' \in 0..MaxLost[kinds]
         /\ \A d \in CPUs : mail[d] \subseteq mail'[d] /\ (d \in targets => k \in mail'[d])
<1>1. /\ mail \in [CPUs -> SUBSET (Sequenced \cup {"range", "stop"})]
      /\ bell \in [CPUs -> BOOLEAN] /\ lost \in 0..MaxLost[kinds] /\ MaxLost[kinds] \in Nat
  BY ShootdownAssumption DEF TypeOK
<1>2. PICK dropped \in SUBSET targets :
        /\ lost + Cardinality(dropped) <= MaxLost[kinds]
        /\ lost' = lost + Cardinality(dropped)
        /\ bell' = [d \in CPUs |-> bell[d] \/ d \in targets \ dropped]
  BY Zenon DEF SendIpiMask
<1>3. mail' = [d \in CPUs |-> IF d \in targets THEN mail[d] \cup {k} ELSE mail[d]]
  BY Zenon DEF SendIpiMask
<1>4. lost' \in 0..MaxLost[kinds]
  BY <1>1, <1>2, Dropped
<1>5. bell' \in [CPUs -> BOOLEAN]
  BY Zenon, <1>2
<1>6. /\ mail' \in [CPUs -> SUBSET (Sequenced \cup {"range", "stop"})]
      /\ \A d \in CPUs : mail[d] \subseteq mail'[d] /\ (d \in targets => k \in mail'[d])
  BY <1>1, <1>3
<1> QED BY Zenon, <1>4, <1>5, <1>6

(* What a caller can do, with the operations that only bump a number as one. *)
LEMMA CallerCases ==
  ASSUME NEW c \in CPUs, Caller(c)
  PROVE  \/ \E k \in Sequenced, targets \in SUBSET CPUs : Begin(c, k, targets)
         \/ \E targets \in SUBSET CPUs : BeginRange(c, targets)
         \/ PublishPayload(c) \/ PublishTargets(c) \/ Send(c) \/ Kick(c) \/ Return(c) \/ Timeout(c)
<1>1. \A targets \in Targets : targets \in SUBSET CPUs
  BY ShootdownAssumption
<1>2. "barrier" \in Sequenced /\ "kernel" \in Sequenced /\ "user" \in Sequenced
  BY DEF Sequenced
<1>3. CPUs \in SUBSET CPUs
  OBVIOUS
<1> QED
  BY Zenon, <1>1, <1>2, <1>3
  DEF Caller, SynchronizeMemory, SynchronizeUserTlb, SynchronizeKernelMappingAll

LEMMA BumpFacts ==
  ASSUME TypeOK, NEW k \in Sequenced, NEW targets \in SUBSET CPUs, Bump(k, targets)
  PROVE  /\ request' \in [Sequenced -> [CPUs -> Nat]]
         /\ \A j \in Sequenced, d \in CPUs :
              /\ request'[j][d] = IF j = k /\ d \in targets THEN request[j][d] + 1
                                                           ELSE request[j][d]
              /\ request[j][d] <= request'[j][d]
<1>1. request \in [Sequenced -> [CPUs -> Nat]]
  BY DEF TypeOK
<1>2. request' = [request EXCEPT ![k] = [d \in CPUs |-> request[k][d] + (IF d \in targets THEN 1 ELSE 0)]]
  BY DEF Bump
<1>3. [d \in CPUs |-> request[k][d] + (IF d \in targets THEN 1 ELSE 0)] \in [CPUs -> Nat]
  BY <1>1
<1>4. /\ request' \in [Sequenced -> [CPUs -> Nat]]
      /\ \A j \in Sequenced, d \in CPUs :
           request'[j][d] = IF j = k /\ d \in targets THEN request[j][d] + 1 ELSE request[j][d]
  BY <1>1, <1>2, <1>3
<1>5. \A j \in Sequenced, d \in CPUs : request[j][d] \in Nat
  BY <1>1
<1> QED BY <1>4, <1>5

LEMMA PastSlotFacts ==
  ASSUME NEW h \in HandlerRec
  PROVE  /\ PastSlot(h) \in HandlerRec /\ PastSlot(h).pc = "scan" /\ PastSlot(h).seq = h.seq
         /\ h.slot = N - 1 => PastSlot(h).reasons = h.reasons \ {"range"} /\ PastSlot(h).slot = Boot
         /\ h.slot # N - 1 => PastSlot(h).reasons = h.reasons /\ PastSlot(h).slot = h.slot + 1
<1>1. N \in Nat \ {0} /\ CPUs = 0..(N - 1) /\ Boot \in CPUs /\ h.slot \in 0..(N - 1)
  BY ShootdownAssumption DEF HandlerRec, CPUs, Boot
<1>2. CASE h.slot = N - 1
  <2>1. PastSlot(h) = [h EXCEPT !.pc = "scan", !.reasons = @ \ {"range"}, !.slot = Boot]
    BY Zenon, <1>2 DEF PastSlot
  <2>2. /\ PastSlot(h).pc = "scan" /\ PastSlot(h).seq = h.seq
        /\ PastSlot(h).reasons = h.reasons \ {"range"} /\ PastSlot(h).slot = Boot
    BY <2>1 DEF HandlerRec
  <2>3. PastSlot(h) \in HandlerRec
    BY Zenon, <1>1, <2>1 DEF HandlerRec
  <2> QED BY Zenon, <1>2, <2>2, <2>3
<1>3. CASE h.slot # N - 1
  <2>1. PastSlot(h) = [h EXCEPT !.pc = "scan", !.slot = @ + 1]
    BY Zenon, <1>3 DEF PastSlot
  <2>2. h.slot + 1 \in CPUs
    BY <1>1, <1>3
  <2> QED BY Zenon, <1>3, <2>1, <2>2 DEF HandlerRec
<1> QED BY Zenon, <1>2, <1>3

(* The record of a CPU without a request. *)
LEMMA IdleType == Idle \in CallRec /\ [Idle EXCEPT !.result = "ok"] \in CallRec
                  /\ [Idle EXCEPT !.result = "timeout"] \in CallRec
<1>1. Zero \in [CPUs -> Nat]
  BY DEF Zero
<1>2. Idle \in CallRec
  BY <1>1 DEF Idle, CallRec, Sequenced
<1> QED BY <1>2 DEF CallRec

(* The state after boot has the types. *)
LEMMA InitType == Init => TypeOK
<1> SUFFICES ASSUME Init PROVE TypeOK
  OBVIOUS
<1>1. Boot \in CPUs /\ Zero \in [CPUs -> Nat]
  BY ShootdownAssumption DEF Boot, CPUs, Zero
<1>2. Idle \in CallRec
  BY IdleType
<1>3. [pc |-> "off", reasons |-> {}, seq |-> 0, slot |-> Boot] \in HandlerRec
  BY <1>1 DEF HandlerRec
<1>4. [targets |-> {}, acked |-> {}, payload |-> 0] \in SlotRec
  BY DEF SlotRec
<1>5. mail \in [CPUs -> SUBSET (Sequenced \cup {"range", "stop"})]
  BY DEF Init
<1>6. /\ request \in [Sequenced -> [CPUs -> Nat]] /\ ack \in [Sequenced -> [CPUs -> Nat]]
      /\ made \in [CPUs -> Nat]
  BY Zenon, <1>1 DEF Init
<1>9. \A c \in CPUs : made[c] <= Budget[c]
  BY ShootdownAssumption DEF Init, Zero
<1>7. /\ slot \in [CPUs -> SlotRec] /\ call \in [CPUs -> CallRec]
      /\ handler \in [CPUs -> HandlerRec]
  BY <1>2, <1>3, <1>4 DEF Init
<1>8. lost \in 0..MaxLost[kinds]
  BY ShootdownAssumption DEF Init
<1> QED BY Zenon, <1>5, <1>6, <1>7, <1>8, <1>9 DEF Init, TypeOK

(* A request of a caller keeps the types. *)
LEMMA CallerType ==
  ASSUME TypeOK, NEW c \in CPUs, Caller(c)
  PROVE  TypeOK'
<1>0. /\ kinds \in Workloads /\ slot \in [CPUs -> SlotRec] /\ call \in [CPUs -> CallRec]
      /\ made \in [CPUs -> Nat] /\ \A d \in CPUs : made[d] <= Budget[d]
      /\ done \in [CPUs -> SUBSET CPUs] /\ Budget \in [CPUs -> Nat]
  BY ShootdownAssumption DEF TypeOK
<1>1. call[c] \in CallRec /\ slot[c] \in SlotRec /\ made[c] \in Nat
  BY <1>0
<1>2. call[c].remote \in SUBSET CPUs /\ call[c].kind \in Sequenced \cup {"range"}
  BY <1>1 DEF CallRec
<1>3. ASSUME NEW targets \in SUBSET CPUs, NEW k \in Sequenced, Begin(c, k, targets)
      PROVE  TypeOK'
  <2> DEFINE remote == targets \ (stopped \cup {c})
  <2>1. /\ Enter(c) /\ Bump(k, remote)
        /\ call' = [call EXCEPT ![c] = [pc |-> "send", kind |-> k, remote |-> remote,
                                   expected |-> request'[k], result |-> "none"]]
        /\ UNCHANGED <<kinds, mail, bell, ack, slot, handler, stopVars, task, lost>>
    BY Zenon, <1>3 DEF Begin
  <2>2. request' \in [Sequenced -> [CPUs -> Nat]]
    BY <2>1, BumpFacts
  <2>3. call' \in [CPUs -> CallRec]
    <3>1. [pc |-> "send", kind |-> k, remote |-> remote, expected |-> request'[k],
           result |-> "none"] \in CallRec
      BY <2>2 DEF CallRec
    <3> QED BY Zenon, <1>0, <2>1, <3>1
  <2>4. /\ made' \in [CPUs -> Nat] /\ \A d \in CPUs : made'[d] <= Budget[d]
        /\ done' \in [CPUs -> SUBSET CPUs]
    BY <1>0, <2>1 DEF Enter
  <2> QED BY Zenon, <2>1, <2>2, <2>3, <2>4 DEF TypeOK, stopVars
<1>4. ASSUME NEW targets \in SUBSET CPUs, BeginRange(c, targets)
      PROVE  TypeOK'
  <2> DEFINE remote == targets \ (stopped \cup {c})
  <2>1. /\ Enter(c) /\ slot' = [slot EXCEPT ![c].acked = {}]
        /\ call' = [call EXCEPT ![c] = [pc |-> "payload", kind |-> "range", remote |-> remote,
                                   expected |-> Zero, result |-> "none"]]
        /\ UNCHANGED <<kinds, mail, bell, seqVars, handler, stopVars, task, lost>>
    BY Zenon, <1>4 DEF BeginRange
  <2>2. slot' \in [CPUs -> SlotRec]
    BY <1>0, <1>1, <2>1 DEF SlotRec
  <2>3. call' \in [CPUs -> CallRec]
    <3>1. [pc |-> "payload", kind |-> "range", remote |-> remote, expected |-> Zero,
           result |-> "none"] \in CallRec
      BY DEF CallRec, Zero
    <3> QED BY Zenon, <1>0, <2>1, <3>1
  <2>4. /\ made' \in [CPUs -> Nat] /\ \A d \in CPUs : made'[d] <= Budget[d]
        /\ done' \in [CPUs -> SUBSET CPUs]
    BY <1>0, <2>1 DEF Enter
  <2> QED BY Zenon, <2>1, <2>2, <2>3, <2>4 DEF TypeOK, stopVars, seqVars
<1>5. CASE PublishPayload(c) \/ PublishTargets(c)
  <2>1. slot' \in [CPUs -> SlotRec]
    <3>1. /\ [slot[c] EXCEPT !.payload = made[c]] \in SlotRec
          /\ [slot[c] EXCEPT !.targets = call[c].remote] \in SlotRec
      BY <1>1, <1>2 DEF SlotRec
    <3> QED BY Zenon, <1>0, <1>5, <3>1 DEF PublishPayload, PublishTargets
  <2>2. call' \in [CPUs -> CallRec]
    <3>1. /\ [call[c] EXCEPT !.pc = "targets"] \in CallRec
          /\ [call[c] EXCEPT !.pc = "send"] \in CallRec
      BY <1>1 DEF CallRec
    <3> QED BY Zenon, <1>0, <1>5, <3>1 DEF PublishPayload, PublishTargets
  <2> QED BY Zenon, <1>5, <2>1, <2>2 DEF TypeOK, PublishPayload, PublishTargets, stopVars, seqVars
<1>6. CASE Send(c)
  <2>1. SendIpiMask(call[c].remote, call[c].kind)
    BY <1>6 DEF Send
  <2>2. /\ mail' \in [CPUs -> SUBSET (Sequenced \cup {"range", "stop"})]
        /\ bell' \in [CPUs -> BOOLEAN] /\ lost' \in 0..MaxLost[kinds]
    BY Zenon, <1>2, <2>1, SendFacts
  <2>3. call' \in [CPUs -> CallRec]
    BY Zenon, <1>0, <1>1, <1>6 DEF CallRec, Send
  <2> QED BY Zenon, <1>6, <2>2, <2>3 DEF TypeOK, Send, stopVars, seqVars
<1>7. CASE Kick(c)
  <2>1. PICK targets \in SUBSET CPUs : SendIpiMask(targets, call[c].kind)
    <3>1. /\ call[c].remote \ stopped \in SUBSET CPUs /\ Missing(c) \in SUBSET CPUs
      BY <1>2 DEF Missing
    <3> QED BY <1>7, <3>1 DEF Kick
  <2>2. /\ mail' \in [CPUs -> SUBSET (Sequenced \cup {"range", "stop"})]
        /\ bell' \in [CPUs -> BOOLEAN] /\ lost' \in 0..MaxLost[kinds]
    BY Zenon, <1>2, <2>1, SendFacts
  <2> QED BY Zenon, <1>7, <2>2 DEF TypeOK, Kick, stopVars, seqVars
<1>8. CASE Return(c)
  <2>1. call' \in [CPUs -> CallRec]
    BY Zenon, <1>0, <1>8, IdleType DEF Return
  <2>2. slot' \in [CPUs -> SlotRec]
    BY Zenon, <1>0, <1>1, <1>8 DEF SlotRec, Return
  <2> QED BY Zenon, <1>8, <2>1, <2>2 DEF TypeOK, Return, stopVars, seqVars
<1>9. CASE Timeout(c)
  <2>1. call' \in [CPUs -> CallRec]
    <3>1. [[call[c] EXCEPT !.pc = "failed"] EXCEPT !.result = "timeout"] \in CallRec
      BY Zenon, <1>1 DEF CallRec
    <3> QED BY Zenon, <1>0, <1>9, <3>1, IdleType DEF Timeout
  <2> QED BY Zenon, <1>9, <2>1 DEF TypeOK, Timeout, stopVars, seqVars
<1> QED
  BY Zenon, <1>3, <1>4, <1>5, <1>6, <1>7, <1>8, <1>9, CallerCases

(* A step of a handler keeps the types. *)
LEMMA HandlerType ==
  ASSUME TypeOK, NEW d \in CPUs, Handler(d)
  PROVE  TypeOK'
<1>0. /\ handler \in [CPUs -> HandlerRec] /\ done \in [CPUs -> SUBSET CPUs]
      /\ mail \in [CPUs -> SUBSET (Sequenced \cup {"range", "stop"})]
      /\ bell \in [CPUs -> BOOLEAN] /\ stopReq \in [CPUs -> BOOLEAN]
      /\ request \in [Sequenced -> [CPUs -> Nat]] /\ ack \in [Sequenced -> [CPUs -> Nat]]
      /\ task \in [CPUs -> {"none", "unseen", "seen", "running", "fault"}]
      /\ slot \in [CPUs -> SlotRec]
  BY DEF TypeOK
<1>1. handler[d] \in HandlerRec
  BY <1>0
<1>2. PastSlot(handler[d]) \in HandlerRec
  BY <1>1, PastSlotFacts
<1>3. CASE HandleIpi(d)
  <2>1. handler' \in [CPUs -> HandlerRec]
    <3>1. [handler[d] EXCEPT !.pc = "scan", !.reasons = mail[d] \ {"stop"}] \in HandlerRec
      <4>1. mail[d] \ {"stop"} \in SUBSET (Sequenced \cup {"range"})
        BY <1>0
      <4> QED BY Zenon, <1>1, <4>1 DEF HandlerRec
    <3> QED BY <1>0, <1>3, <3>1 DEF HandleIpi
  <2>2. bell' \in [CPUs -> BOOLEAN] /\ stopReq' \in [CPUs -> BOOLEAN]
    BY Zenon, <1>0, <1>3 DEF HandleIpi
  <2>3. mail' \in [CPUs -> SUBSET (Sequenced \cup {"range", "stop"})]
    BY <1>0, <1>3 DEF HandleIpi
  <2> QED BY Zenon, <1>3, <2>1, <2>2, <2>3 DEF TypeOK, HandleIpi, stopVars, seqVars
<1>4. ASSUME NEW k \in Sequenced, Snapshot(d, k)
      PROVE  TypeOK'
  <2>1. handler' \in [CPUs -> HandlerRec]
    <3>1. /\ [handler[d] EXCEPT !.reasons = @ \ {k}] \in HandlerRec
          /\ [handler[d] EXCEPT !.pc = "flush", !.seq = request[k][d]] \in HandlerRec
      <4>1. request[k][d] \in Nat
        BY <1>0
      <4> QED BY Zenon, <1>1, <4>1 DEF HandlerRec
    <3> QED BY <1>0, <1>4, <3>1 DEF Snapshot
  <2> QED BY Zenon, <1>4, <2>1 DEF TypeOK, Snapshot, stopVars, seqVars
<1>5. ASSUME NEW k \in Sequenced, Flush(d, k)
      PROVE  TypeOK'
  <2>1. handler' \in [CPUs -> HandlerRec]
    BY Zenon, <1>0, <1>1, <1>5 DEF Flush, HandlerRec
  <2>2. task' \in [CPUs -> {"none", "unseen", "seen", "running", "fault"}]
    BY <1>0, <1>5 DEF Flush, Accomplish
  <2>3. done' \in [CPUs -> SUBSET CPUs]
    BY <1>0, <1>5 DEF Flush, Accomplish, Credit
  <2> QED BY Zenon, <1>5, <2>1, <2>2, <2>3 DEF TypeOK, Flush, stopVars, seqVars
<1>6. ASSUME NEW k \in Sequenced, Ack(d, k)
      PROVE  TypeOK'
  <2>1. handler' \in [CPUs -> HandlerRec]
    <3>1. [handler[d] EXCEPT !.pc = "scan", !.reasons = @ \ {k}, !.seq = 0] \in HandlerRec
      BY Zenon, <1>1 DEF HandlerRec
    <3> QED BY Zenon, <1>0, <1>6, <3>1 DEF Ack
  <2>2. ack' \in [Sequenced -> [CPUs -> Nat]]
    BY <1>0, <1>1, <1>6 DEF Ack, HandlerRec
  <2> QED BY Zenon, <1>6, <2>1, <2>2 DEF TypeOK, Ack, stopVars
<1>7. CASE ServiceTargets(d) \/ ServiceAcked(d)
  <2>1. handler' \in [CPUs -> HandlerRec]
    <3>1. /\ [handler[d] EXCEPT !.pc = "acked"] \in HandlerRec
          /\ [handler[d] EXCEPT !.pc = "invalidate"] \in HandlerRec
      BY <1>1 DEF HandlerRec
    <3> QED BY Zenon, <1>0, <1>2, <1>7, <3>1 DEF ServiceTargets, ServiceAcked
  <2> QED BY Zenon, <1>7, <2>1 DEF TypeOK, ServiceTargets, ServiceAcked, stopVars, seqVars
<1>8. CASE Invalidate(d)
  <2>1. handler' \in [CPUs -> HandlerRec] /\ handler[d].slot \in CPUs
    BY Zenon, <1>0, <1>1, <1>8 DEF Invalidate, HandlerRec
  <2>2. done' \in [CPUs -> SUBSET CPUs]
    BY <1>0, <1>8, <2>1 DEF Invalidate
  <2> QED BY Zenon, <1>8, <2>1, <2>2 DEF TypeOK, Invalidate, stopVars, seqVars
<1>9. CASE RangeAck(d)
  <2>1. handler' \in [CPUs -> HandlerRec]
    BY Zenon, <1>0, <1>2, <1>9 DEF RangeAck
  <2>2. slot' \in [CPUs -> SlotRec]
    <3>1. handler[d].slot \in CPUs
      BY <1>1 DEF HandlerRec
    <3>2. slot[handler[d].slot] \in SlotRec
      BY Zenon, <1>0, <3>1
    <3>3. [slot[handler[d].slot] EXCEPT !.acked = @ \cup {d}] \in SlotRec
      BY <3>2 DEF SlotRec
    <3> QED BY Zenon, <1>0, <1>9, <3>3 DEF RangeAck
  <2> QED BY Zenon, <1>9, <2>1, <2>2 DEF TypeOK, RangeAck, stopVars, seqVars
<1>10. CASE HandlerReturn(d)
  <2>1. handler' \in [CPUs -> HandlerRec]
    BY Zenon, <1>0, <1>1, <1>10 DEF HandlerReturn, HandlerRec
  <2> QED BY Zenon, <1>10, <2>1 DEF TypeOK, HandlerReturn, stopVars, seqVars
<1> QED BY Zenon, <1>3, <1>4, <1>5, <1>6, <1>7, <1>8, <1>9, <1>10 DEF Handler

(* A step of the idle loop, of the publisher of a task or of the shutdown   *)
(* keeps the types.                                                         *)
LEMMA IdleStepType ==
  ASSUME TypeOK, (\E d \in CPUs : IdleStep(d)) \/ StopSecondaryCpus \/ StopReturn
  PROVE  TypeOK'
<1>0. /\ call \in [CPUs -> CallRec] /\ done \in [CPUs -> SUBSET CPUs]
      /\ stopReq \in [CPUs -> BOOLEAN] /\ stopped \subseteq CPUs \ {Boot}
      /\ request \in [Sequenced -> [CPUs -> Nat]] /\ ack \in [Sequenced -> [CPUs -> Nat]]
      /\ task \in [CPUs -> {"none", "unseen", "seen", "running", "fault"}]
      /\ made \in [CPUs -> Nat] /\ \A d \in CPUs : made[d] <= Budget[d]
      /\ Budget \in [CPUs -> Nat]
  BY ShootdownAssumption DEF TypeOK
<1>1. Boot \in CPUs
  BY ShootdownAssumption DEF Boot, CPUs
<1>8. call[Boot] \in CallRec
  BY Zenon, <1>0, <1>1
<1>2. ASSUME NEW c \in CPUs, NEW d \in CPUs, DeferKernelMapping(c, d)
      PROVE  TypeOK'
  <2>1. "kernel" \in Sequenced /\ Bump("kernel", {d})
    BY Zenon, <1>2 DEF DeferKernelMapping, Sequenced
  <2>2. request' \in [Sequenced -> [CPUs -> Nat]]
    BY <2>1, BumpFacts
  <2>3. /\ made' \in [CPUs -> Nat] /\ \A e \in CPUs : made'[e] <= Budget[e]
    BY <1>0, <1>2 DEF DeferKernelMapping
  <2>4. task' \in [CPUs -> {"none", "unseen", "seen", "running", "fault"}]
    BY <1>0, <1>2 DEF DeferKernelMapping
  <2> QED BY Zenon, <1>2, <2>2, <2>3, <2>4 DEF TypeOK, DeferKernelMapping, stopVars
<1>3. ASSUME NEW d \in CPUs, Dispatch(d)
      PROVE  TypeOK'
  <2>1. ack' \in [Sequenced -> [CPUs -> Nat]]
    BY <1>0, <1>3 DEF Dispatch, Sequenced
  <2>2. done' \in [CPUs -> SUBSET CPUs]
    BY <1>0, <1>3 DEF Dispatch, Credit
  <2>3. task' \in [CPUs -> {"none", "unseen", "seen", "running", "fault"}]
    BY <1>0, <1>3 DEF Dispatch
  <2> QED BY Zenon, <1>3, <2>1, <2>2, <2>3 DEF TypeOK, Dispatch, stopVars
<1>4. ASSUME NEW d \in CPUs, TaskEnds(d)
      PROVE  TypeOK'
  <2>1. task' \in [CPUs -> {"none", "unseen", "seen", "running", "fault"}]
    BY <1>0, <1>4 DEF TaskEnds
  <2> QED BY Zenon, <1>4, <2>1 DEF TypeOK, TaskEnds, stopVars, seqVars
<1>5. ASSUME NEW d \in CPUs, StopCpu(d)
      PROVE  TypeOK'
  <2>1. stopReq' \in [CPUs -> BOOLEAN] /\ stopped' \subseteq CPUs \ {Boot}
    BY Zenon, <1>0, <1>5 DEF StopCpu
  <2> QED BY Zenon, <1>5, <2>1 DEF TypeOK, StopCpu, seqVars
<1>6. CASE StopSecondaryCpus
  <2>1. SendIpiMask(CPUs \ (stopped \cup {Boot}), "stop")
    BY Zenon, <1>6 DEF StopSecondaryCpus
  <2>2. /\ mail' \in [CPUs -> SUBSET (Sequenced \cup {"range", "stop"})]
        /\ bell' \in [CPUs -> BOOLEAN] /\ lost' \in 0..MaxLost[kinds]
    BY <2>1, SendFacts
  <2>3. /\ made' \in [CPUs -> Nat] /\ \A e \in CPUs : made'[e] <= Budget[e]
    BY <1>0, <1>1, <1>6 DEF StopSecondaryCpus
  <2>4. call' \in [CPUs -> CallRec]
    <3>1. [call[Boot] EXCEPT !.pc = "stopping"] \in CallRec
      BY <1>8 DEF CallRec
    <3> QED BY Zenon, <1>0, <1>6, <3>1 DEF StopSecondaryCpus
  <2> QED BY Zenon, <1>6, <2>2, <2>3, <2>4 DEF TypeOK, StopSecondaryCpus, stopVars, seqVars
<1>7. CASE StopReturn
  <2>1. call' \in [CPUs -> CallRec]
    <3>1. [call[Boot] EXCEPT !.pc = "off"] \in CallRec
      BY <1>8 DEF CallRec
    <3> QED BY Zenon, <1>0, <1>7, <3>1 DEF StopReturn
  <2> QED BY Zenon, <1>7, <2>1 DEF TypeOK, StopReturn, stopVars, seqVars
<1> QED BY Zenon, <1>2, <1>3, <1>4, <1>5, <1>6, <1>7 DEF IdleStep

-----------------------------------------------------------------------------
(* The handler serves one kind at a time. *)
LEMMA FirstUnique ==
  ASSUME NEW R, NEW j \in Sequenced, NEW k \in Sequenced, First(R, j), First(R, k)
  PROVE  j = k
BY DEF First, Sequenced

(* What a step of a caller leaves alone, and what only grows. *)
LEMMA CallerEffect ==
  ASSUME TypeOK, NEW c \in CPUs, Caller(c)
  PROVE  /\ UNCHANGED <<ack, handler, task, stopped>>
         /\ \A e \in CPUs \ {c} : /\ call'[e] = call[e] /\ slot'[e] = slot[e]
                                  /\ done'[e] = done[e] /\ made'[e] = made[e]
         /\ \A k \in Sequenced, d \in CPUs : request[k][d] <= request'[k][d]
         /\ \A d \in CPUs : mail[d] \subseteq mail'[d]
<1>0. /\ slot \in [CPUs -> SlotRec] /\ call \in [CPUs -> CallRec] /\ made \in [CPUs -> Nat]
      /\ done \in [CPUs -> SUBSET CPUs] /\ request \in [Sequenced -> [CPUs -> Nat]]
  BY DEF TypeOK
<1>1. call[c].remote \in SUBSET CPUs /\ call[c].kind \in Sequenced \cup {"range"}
  BY <1>0 DEF CallRec
<1>2. /\ UNCHANGED <<ack, handler, task, stopped>>
      /\ \A e \in CPUs \ {c} : call'[e] = call[e]
      /\ \A e \in CPUs \ {c} : slot'[e] = slot[e]
      /\ \A e \in CPUs \ {c} : done'[e] = done[e]
      /\ \A e \in CPUs \ {c} : made'[e] = made[e]
  BY Zenon, <1>0
  DEF Caller, SynchronizeMemory, SynchronizeUserTlb, SynchronizeKernelMappingAll, Begin,
      BeginRange, Enter, PublishPayload, PublishTargets, Send, Kick, Return, Timeout, stopVars,
      seqVars
<1>3. /\ \A k \in Sequenced, d \in CPUs : request[k][d] <= request'[k][d]
      /\ \A d \in CPUs : mail[d] \subseteq mail'[d]
  <2>1. ASSUME NEW k \in Sequenced, NEW targets \in SUBSET CPUs, Begin(c, k, targets)
        PROVE  <1>3!1 /\ UNCHANGED mail
    <3>1. Bump(k, targets \ (stopped \cup {c})) /\ UNCHANGED mail
      BY Zenon, <2>1 DEF Begin
    <3>2. \A j \in Sequenced, d \in CPUs : request[j][d] <= request'[j][d]
      <4>1. targets \ (stopped \cup {c}) \in SUBSET CPUs
        BY Zenon
      <4> QED BY Zenon, <3>1, <4>1, BumpFacts
    <3> QED BY Zenon, <3>1, <3>2
  <2>2. CASE Send(c) \/ Kick(c)
    <3>1. UNCHANGED request
      BY Zenon, <2>2 DEF Send, Kick, seqVars
    <3>2. PICK targets \in SUBSET CPUs : SendIpiMask(targets, call[c].kind)
      <4>1. call[c].remote \ stopped \in SUBSET CPUs /\ Missing(c) \in SUBSET CPUs
        BY <1>1 DEF Missing
      <4> QED BY <1>1, <2>2, <4>1 DEF Send, Kick
    <3>3. \A d \in CPUs : mail[d] \subseteq mail'[d]
      BY Zenon, <1>1, <3>2, SendFacts
    <3> QED BY <1>0, <3>1, <3>3
  <2>3. CASE UNCHANGED <<request, mail>>
    BY <1>0, <2>3
  <2> QED
    BY Zenon, <2>1, <2>2, <2>3, CallerCases
    DEF BeginRange, PublishPayload, PublishTargets, Return, Timeout, seqVars
<1> QED BY Zenon, <1>2, <1>3

(* What a step of the handler of d leaves alone, and what only grows. *)
LEMMA HandlerEffect ==
  ASSUME TypeOK, NEW d \in CPUs, Handler(d)
  PROVE  /\ UNCHANGED <<request, call, stopped, made>>
         /\ \A e \in CPUs \ {d} : /\ handler'[e] = handler[e] /\ mail'[e] = mail[e]
                                  /\ task'[e] = task[e]
                                  /\ \A k \in Sequenced : ack'[k][e] = ack[k][e]
         /\ \A c \in CPUs : /\ slot'[c].targets = slot[c].targets
                            /\ slot'[c].payload = slot[c].payload
                            /\ slot[c].acked \subseteq slot'[c].acked
                            /\ slot'[c].acked \subseteq slot[c].acked \cup {d}
                            /\ done[c] \subseteq done'[c]
<1>0. /\ handler \in [CPUs -> HandlerRec] /\ slot \in [CPUs -> SlotRec]
      /\ mail \in [CPUs -> SUBSET (Sequenced \cup {"range", "stop"})]
      /\ done \in [CPUs -> SUBSET CPUs] /\ ack \in [Sequenced -> [CPUs -> Nat]]
      /\ task \in [CPUs -> {"none", "unseen", "seen", "running", "fault"}]
  BY DEF TypeOK
<1>1. /\ UNCHANGED <<request, call, stopped, made>>
      /\ \A e \in CPUs \ {d} : handler'[e] = handler[e]
      /\ \A e \in CPUs \ {d} : mail'[e] = mail[e]
      /\ \A e \in CPUs \ {d} : task'[e] = task[e]
  BY Zenon, <1>0
  DEF Handler, HandleIpi, Snapshot, Flush, Ack, Accomplish, ServiceTargets, ServiceAcked,
      Invalidate, RangeAck, HandlerReturn, stopVars, seqVars
<1>2. \A e \in CPUs \ {d}, k \in Sequenced : ack'[k][e] = ack[k][e]
  <2>1. ASSUME NEW k \in Sequenced, Ack(d, k)
        PROVE  <1>2
    BY <1>0, <2>1 DEF Ack
  <2>2. CASE UNCHANGED ack
    BY Zenon, <2>2
  <2> QED
    BY Zenon, <2>1, <2>2
    DEF Handler, HandleIpi, Snapshot, Flush, ServiceTargets, ServiceAcked, Invalidate, RangeAck,
        HandlerReturn, seqVars
<1>3. \A c \in CPUs : done[c] \subseteq done'[c]
  <2>1. ASSUME NEW k \in Sequenced, Flush(d, k)
        PROVE  <1>3
    BY <1>0, <2>1 DEF Flush, Accomplish, Credit
  <2>2. CASE Invalidate(d)
    BY <1>0, <2>2 DEF Invalidate
  <2>3. CASE UNCHANGED done
    BY Zenon, <2>3
  <2> QED
    BY Zenon, <2>1, <2>2, <2>3
    DEF Handler, HandleIpi, Snapshot, Ack, ServiceTargets, ServiceAcked, RangeAck, HandlerReturn
<1>4. \A c \in CPUs : /\ slot'[c].targets = slot[c].targets /\ slot'[c].payload = slot[c].payload
                      /\ slot[c].acked \subseteq slot'[c].acked
                      /\ slot'[c].acked \subseteq slot[c].acked \cup {d}
  <2>1. CASE RangeAck(d)
    <3> DEFINE s == handler[d].slot
    <3>1. slot' = [slot EXCEPT ![s].acked = @ \cup {d}]
      BY Zenon, <2>1 DEF RangeAck
    <3> HIDE DEF s
    <3> QED BY <1>0, <3>1 DEF SlotRec
  <2>2. CASE UNCHANGED slot
    BY Zenon, <2>2
  <2> QED
    BY Zenon, <2>1, <2>2
    DEF Handler, HandleIpi, Snapshot, Flush, Ack, ServiceTargets, ServiceAcked, Invalidate,
        HandlerReturn
<1> QED BY Zenon, <1>1, <1>2, <1>3, <1>4

(* The types of what the arguments below compare. *)
LEMMA Types ==
  ASSUME TypeOK
  PROVE  /\ \A k \in Sequenced, d \in CPUs : ack[k][d] \in Nat /\ request[k][d] \in Nat
         /\ \A d \in CPUs : /\ handler[d].seq \in Nat /\ handler[d].slot \in CPUs
                            /\ handler[d].reasons \subseteq Sequenced \cup {"range"}
         /\ \A c \in CPUs : /\ call[c].remote \subseteq CPUs
                            /\ call[c].kind \in Sequenced \cup {"range"}
                            /\ \A d \in CPUs : call[c].expected[d] \in Nat
<1>1. /\ request \in [Sequenced -> [CPUs -> Nat]] /\ ack \in [Sequenced -> [CPUs -> Nat]]
      /\ \A d \in CPUs : handler[d] \in HandlerRec
      /\ \A c \in CPUs : call[c] \in CallRec
  BY DEF TypeOK
<1>2. \A k \in Sequenced, d \in CPUs : ack[k][d] \in Nat /\ request[k][d] \in Nat
  BY <1>1
<1>3. \A d \in CPUs : /\ handler[d].seq \in Nat /\ handler[d].slot \in CPUs
                      /\ handler[d].reasons \subseteq Sequenced \cup {"range"}
  BY <1>1 DEF HandlerRec
<1>4. \A c \in CPUs : /\ call[c].remote \subseteq CPUs
                      /\ call[c].kind \in Sequenced \cup {"range"}
                      /\ \A d \in CPUs : call[c].expected[d] \in Nat
  BY <1>1 DEF CallRec
<1> QED BY Zenon, <1>2, <1>3, <1>4

(* The numbers in the next state are naturals too. *)
LEMMA TypesNext ==
  ASSUME TypeOK'
  PROVE  \A k \in Sequenced, d \in CPUs : request'[k][d] \in Nat
<1>1. request' \in [Sequenced -> [CPUs -> Nat]]
  BY DEF TypeOK
<1> QED BY <1>1

(* Requests that only grow disturb neither the numbers that are             *)
(* acknowledged nor the calls that have theirs.                             *)
LEMMA GrowingRequests ==
  ASSUME TypeOK, TypeOK', NumberInv, UNCHANGED <<ack, handler>>,
         \A k \in Sequenced, d \in CPUs : request[k][d] <= request'[k][d]
  PROVE  /\ NumberInv'
         /\ StackInv /\ UNCHANGED task => StackInv'
         /\ \A c \in CPUs, d \in CPUs :
              /\ call[c].kind \in Sequenced /\ Covered(c, d)
              /\ call'[c].kind = call[c].kind /\ call'[c].expected = call[c].expected
              /\ done'[c] = done[c]
              => Covered(c, d)'
<1>1. \A k \in Sequenced, d \in CPUs :
        ack[k][d] \in Nat /\ request[k][d] \in Nat /\ request'[k][d] \in Nat
  BY Zenon, Types, TypesNext
<1>2. \A d \in CPUs : handler[d].seq \in Nat
  BY Zenon, Types
<1>3. NumberInv'
  <2> SUFFICES ASSUME NEW d \in CPUs, NEW k \in Sequenced
               PROVE  /\ ack[k][d] <= request'[k][d]
                      /\ Serving(d, k, {"flush", "ack"})
                           => ack[k][d] <= handler[d].seq /\ handler[d].seq <= request'[k][d]
    BY Zenon DEF NumberInv, NumberAt, Serving
  <2>1. /\ ack[k][d] <= request[k][d]
        /\ Serving(d, k, {"flush", "ack"})
             => ack[k][d] <= handler[d].seq /\ handler[d].seq <= request[k][d]
    BY Zenon DEF NumberInv, NumberAt
  <2>2. /\ ack[k][d] \in Nat /\ request[k][d] \in Nat /\ request'[k][d] \in Nat
        /\ handler[d].seq \in Nat /\ request[k][d] <= request'[k][d]
    BY Zenon, <1>1, <1>2
  <2> QED BY <2>1, <2>2
<1>4. ASSUME StackInv, UNCHANGED task
      PROVE  StackInv'
  <2>1. "kernel" \in Sequenced
    BY DEF Sequenced
  <2> SUFFICES ASSUME NEW d \in CPUs
               PROVE  /\ task[d] # "fault"
                      /\ task[d] = "unseen" =>
                           /\ ack["kernel"][d] < request'["kernel"][d]
                           /\ Serving(d, "kernel", {"ack"})
                                => handler[d].seq < request'["kernel"][d]
    BY Zenon, <1>4 DEF StackInv, StackAt, Serving
  <2>2. /\ task[d] # "fault"
        /\ task[d] = "unseen" =>
             /\ ack["kernel"][d] < request["kernel"][d]
             /\ Serving(d, "kernel", {"ack"}) => handler[d].seq < request["kernel"][d]
    BY Zenon, <1>4 DEF StackInv, StackAt
  <2>3. /\ ack["kernel"][d] \in Nat /\ request["kernel"][d] \in Nat
        /\ request'["kernel"][d] \in Nat /\ handler[d].seq \in Nat
        /\ request["kernel"][d] <= request'["kernel"][d]
    BY Zenon, <1>1, <1>2, <2>1
  <2> QED BY <2>2, <2>3
<1>5. ASSUME NEW c \in CPUs, NEW d \in CPUs, call[c].kind \in Sequenced, Covered(c, d),
             call'[c].kind = call[c].kind, call'[c].expected = call[c].expected,
             done'[c] = done[c]
      PROVE  Covered(c, d)'
  <2> DEFINE k == call[c].kind
             n == call[c].expected[d]
  <2>1. n \in Nat /\ request[k][d] \in Nat /\ request'[k][d] \in Nat
        /\ request[k][d] <= request'[k][d]
    BY Zenon, <1>1, <1>5, Types
  <2>2. /\ n <= request[k][d]
        /\ n <= ack[k][d] => d \in done[c]
        /\ Serving(d, k, {"ack"}) /\ n <= handler[d].seq => d \in done[c]
    BY Zenon, <1>5 DEF Covered
  <2> HIDE DEF k, n
  <2>3. n <= request'[k][d]
    BY <2>1, <2>2
  <2>4. k = call'[c].kind /\ n = call'[c].expected[d]
    BY Zenon, <1>5 DEF k, n
  <2> QED BY Zenon, <1>5, <2>2, <2>3, <2>4 DEF Covered, Serving
<1> QED BY Zenon, <1>3, <1>4, <1>5

(* A caller that is missing a CPU keeps the attention of its handler while  *)
(* the mailboxes grow and nothing else that matters changes.                *)
LEMMA StillServed ==
  ASSUME NoRequestSwallowed, UNCHANGED <<ack, handler, stopped>>, NEW c \in CPUs,
         call[c].pc = "wait", call'[c] = call[c], slot'[c].acked = slot[c].acked,
         \A d \in CPUs : mail[d] \subseteq mail'[d], call[c].remote \subseteq CPUs
  PROVE  \A d \in Missing(c)' : WillServe(d, c)'
<1> SUFFICES ASSUME NEW d \in Missing(c)'
             PROVE  WillServe(d, c)'
  OBVIOUS
<1>1. d \in Missing(c) /\ d \in CPUs
  BY Zenon DEF Missing
<1>2. WillServe(d, c)
  BY Zenon, <1>1 DEF NoRequestSwallowed
<1>3. mail[d] \subseteq mail'[d]
  BY Zenon, <1>1
<1> QED BY Zenon, <1>2, <1>3 DEF WillServe

(* Where a call of c stands after a step of c. *)
LEMMA CallerPlace ==
  ASSUME TypeOK, SlotInv, NEW c \in CPUs, Caller(c)
  PROVE  \/ \E k \in Sequenced, targets \in SUBSET CPUs : Begin(c, k, targets)
         \/ call'[c].kind = "range" /\ call'[c].pc \in {"payload", "targets"}
         \/ PublishTargets(c) \/ Send(c)
         \/ Kick(c) /\ UNCHANGED <<call, slot, done>>
         \/ Return(c) /\ call'[c].pc = "idle"
         \/ Timeout(c) /\ call'[c].pc \in {"idle", "failed"}
<1>0. /\ call \in [CPUs -> CallRec] /\ call[c] \in CallRec
  BY DEF TypeOK
<1>1. ASSUME NEW targets \in SUBSET CPUs, BeginRange(c, targets)
      PROVE  call'[c].kind = "range" /\ call'[c].pc = "payload"
  BY <1>0, <1>1 DEF BeginRange
<1>2. ASSUME PublishPayload(c)
      PROVE  call'[c].kind = "range" /\ call'[c].pc = "targets"
  BY <1>0, <1>2 DEF PublishPayload, Runs, SlotInv, CallRec
<1>3. Kick(c) => UNCHANGED <<call, slot, done>>
  BY Zenon DEF Kick
<1>4. Return(c) => call'[c].pc = "idle"
  BY <1>0 DEF Return, Idle
<1>5. Timeout(c) => call'[c].pc \in {"idle", "failed"}
  BY <1>0 DEF Timeout, Idle, CallRec
<1> QED
  BY Zenon, <1>1, <1>2, <1>3, <1>4, <1>5, CallerCases

(* The call that takes its numbers: none of them is acknowledged yet. *)
LEMMA BeginCovered ==
  ASSUME TypeOK, NumberInv, NEW c \in CPUs, NEW k \in Sequenced, NEW targets \in SUBSET CPUs,
         Begin(c, k, targets)
  PROVE  /\ call'[c].pc = "send" /\ call'[c].kind = k
         /\ \A d \in call'[c].remote : d \in CPUs /\ Covered(c, d)'
<1> DEFINE remote == targets \ (stopped \cup {c})
<1>1. /\ Bump(k, remote) /\ UNCHANGED <<ack, handler>>
      /\ call' = [call EXCEPT ![c] = [pc |-> "send", kind |-> k, remote |-> remote,
                                       expected |-> request'[k], result |-> "none"]]
  BY Zenon DEF Begin
<1>2. /\ call'[c].pc = "send" /\ call'[c].kind = k /\ call'[c].remote = remote
      /\ call'[c].expected = request'[k]
  BY <1>1 DEF TypeOK
<1>3. remote \in SUBSET CPUs
  BY Zenon
<1>4. \A d \in remote : d \in CPUs /\ request'[k][d] = request[k][d] + 1
  BY <1>1, <1>3, BumpFacts
<1> HIDE DEF remote
<1>5. ASSUME NEW d \in remote
      PROVE  Covered(c, d)'
  <2>1. /\ d \in CPUs /\ request'[k][d] = request[k][d] + 1 /\ request[k][d] \in Nat
        /\ ack[k][d] \in Nat /\ handler[d].seq \in Nat
    BY Zenon, <1>4, <1>5, Types
  <2>2. ack[k][d] <= request[k][d]
    BY Zenon, <2>1 DEF NumberInv, NumberAt
  <2>3. Serving(d, k, {"ack"}) => handler[d].seq <= request[k][d]
    BY Zenon, <2>1 DEF NumberInv, NumberAt, Serving
  <2>4. /\ request'[k][d] <= request'[k][d] /\ ~ (request'[k][d] <= ack[k][d])
        /\ ~ (Serving(d, k, {"ack"}) /\ request'[k][d] <= handler[d].seq)
    BY <2>1, <2>2, <2>3
  <2> QED BY Zenon, <1>1, <1>2, <2>4 DEF Covered, Serving
<1> QED BY Zenon, <1>2, <1>4, <1>5

(* The slot of a caller has targets only while a ranged call is published.  *)
LEMMA SlotOwn ==
  ASSUME TypeOK, NumberInv, SlotInv, NEW c \in CPUs, Caller(c)
  PROVE  /\ call'[c].pc \in {"payload", "targets"} => call'[c].kind = "range"
         /\ call'[c].kind = "range" /\ call'[c].pc \in {"send", "wait"}
              => slot'[c].targets = call'[c].remote
         /\ slot'[c].targets # {}
              => call'[c].kind = "range" /\ call'[c].pc \in {"send", "wait", "failed"}
<1>0. /\ call \in [CPUs -> CallRec] /\ call[c] \in CallRec
      /\ slot \in [CPUs -> SlotRec] /\ slot[c] \in SlotRec
  BY DEF TypeOK
<1>1. /\ call[c].pc \in {"payload", "targets"} => call[c].kind = "range"
      /\ call[c].kind = "range" /\ call[c].pc \in {"send", "wait"}
           => slot[c].targets = call[c].remote
      /\ slot[c].targets # {}
           => call[c].kind = "range" /\ call[c].pc \in {"send", "wait", "failed"}
  BY Zenon DEF SlotInv
<1>2. ASSUME NEW k \in Sequenced, NEW targets \in SUBSET CPUs, Begin(c, k, targets)
      PROVE  call'[c].pc = "send" /\ call'[c].kind # "range" /\ slot'[c].targets = {}
  <2>1. call'[c].pc = "send" /\ call'[c].kind = k
    BY Zenon, <1>2, BeginCovered
  <2>2. call[c].pc = "idle" /\ UNCHANGED slot
    BY Zenon, <1>2 DEF Begin, Runs
  <2> QED BY <1>1, <2>1, <2>2 DEF Sequenced
<1>3. ASSUME NEW targets \in SUBSET CPUs, BeginRange(c, targets)
      PROVE  call'[c].pc = "payload" /\ call'[c].kind = "range" /\ slot'[c].targets = {}
  <2>1. call[c].pc = "idle" /\ slot' = [slot EXCEPT ![c].acked = {}]
    BY Zenon, <1>3 DEF BeginRange, Runs
  <2>2. slot'[c].targets = slot[c].targets
    BY <1>0, <2>1 DEF SlotRec
  <2>3. call'[c].pc = "payload" /\ call'[c].kind = "range"
    BY <1>0, <1>3 DEF BeginRange
  <2> QED BY <1>1, <2>1, <2>2, <2>3
<1>4. ASSUME PublishPayload(c)
      PROVE  call'[c].pc = "targets" /\ call'[c].kind = "range" /\ slot'[c].targets = {}
  <2>1. call[c].pc = "payload" /\ slot' = [slot EXCEPT ![c].payload = made[c]]
        /\ call' = [call EXCEPT ![c].pc = "targets"]
    BY Zenon, <1>4 DEF PublishPayload, Runs
  <2>2. slot'[c].targets = slot[c].targets
    BY <1>0, <2>1 DEF SlotRec
  <2>3. call'[c].pc = "targets" /\ call'[c].kind = call[c].kind
    BY <1>0, <2>1 DEF CallRec
  <2> QED BY <1>1, <2>1, <2>2, <2>3
<1>5. ASSUME PublishTargets(c)
      PROVE  /\ call'[c].pc = "send" /\ call'[c].kind = "range"
             /\ slot'[c].targets = call'[c].remote
  <2>1. call[c].pc = "targets" /\ slot' = [slot EXCEPT ![c].targets = call[c].remote]
        /\ call' = [call EXCEPT ![c].pc = "send"]
    BY Zenon, <1>5 DEF PublishTargets, Runs
  <2>2. slot'[c].targets = call[c].remote
    BY <1>0, <2>1 DEF SlotRec
  <2>3. call'[c].pc = "send" /\ call'[c].kind = call[c].kind /\ call'[c].remote = call[c].remote
    BY <1>0, <2>1 DEF CallRec
  <2> QED BY <1>1, <2>1, <2>2, <2>3
<1>6. ASSUME Send(c)
      PROVE  /\ call[c].pc = "send" /\ call'[c].pc = "wait" /\ call'[c].kind = call[c].kind
             /\ call'[c].remote = call[c].remote /\ slot' = slot
  BY <1>0, <1>6 DEF Send, Runs, CallRec
<1>7. ASSUME Kick(c)
      PROVE  call' = call /\ slot' = slot
  BY Zenon, <1>7 DEF Kick
<1>8. ASSUME Return(c)
      PROVE  call'[c].pc = "idle" /\ slot'[c].targets = {}
  <2>1. call'[c].pc = "idle"
    BY <1>0, <1>8 DEF Return, Idle
  <2>2. CASE call[c].kind = "range"
    BY <1>0, <1>8, <2>1, <2>2 DEF Return, SlotRec
  <2>3. CASE call[c].kind # "range"
    BY <1>1, <1>8, <2>1, <2>3 DEF Return
  <2> QED BY <2>2, <2>3
<1>9. ASSUME Timeout(c)
      PROVE  /\ slot' = slot /\ call[c].pc = "wait"
             /\ \/ call[c].kind = "barrier" /\ call'[c].pc = "idle"
                \/ call'[c].kind = call[c].kind /\ call'[c].pc = "failed"
  BY <1>0, <1>9 DEF Timeout, Runs, Idle, CallRec
<1>10. \/ \E k \in Sequenced, targets \in SUBSET CPUs : Begin(c, k, targets)
       \/ \E targets \in SUBSET CPUs : BeginRange(c, targets)
       \/ PublishPayload(c) \/ PublishTargets(c) \/ Send(c) \/ Kick(c) \/ Return(c) \/ Timeout(c)
  BY Zenon, CallerCases
<1> QED BY <1>1, <1>2, <1>3, <1>4, <1>5, <1>6, <1>7, <1>8, <1>9, <1>10

(* A step of a caller keeps the invariant. *)
LEMMA CallerInv ==
  ASSUME IInv, NEW c \in CPUs, Caller(c)
  PROVE  IInv'
<1>1. /\ TypeOK /\ HandlerInv /\ NumberInv /\ StackInv /\ SeqInv /\ SlotInv
      /\ NoRequestSwallowed
  BY Zenon DEF IInv
<1>2. TypeOK'
  BY Zenon, <1>1, CallerType
<1>3. /\ UNCHANGED <<ack, handler, task, stopped>>
      /\ \A e \in CPUs \ {c} : /\ call'[e] = call[e] /\ slot'[e] = slot[e]
                               /\ done'[e] = done[e] /\ made'[e] = made[e]
      /\ \A k \in Sequenced, d \in CPUs : request[k][d] <= request'[k][d]
      /\ \A d \in CPUs : mail[d] \subseteq mail'[d]
  BY Zenon, <1>1, CallerEffect
<1>4. HandlerInv'
  BY Zenon, <1>1, <1>3 DEF HandlerInv, HandlerAt
<1>5. NumberInv' /\ StackInv'
  BY Zenon, <1>1, <1>2, <1>3, GrowingRequests
<1>6. \A e \in CPUs : call[e].remote \subseteq CPUs
  BY Zenon, <1>1, Types
<1>7. call \in [CPUs -> CallRec] /\ call[c] \in CallRec /\ slot \in [CPUs -> SlotRec]
  BY <1>1 DEF TypeOK
<1>8. /\ PublishTargets(c) => /\ call[c].kind = "range" /\ call'[c].kind = "range"
                              /\ call'[c].pc = "send" /\ slot'[c].targets = call'[c].remote
      /\ Send(c) => /\ call[c].pc = "send" /\ call'[c].pc = "wait"
                    /\ call'[c].kind = call[c].kind /\ call'[c].expected = call[c].expected
                    /\ call'[c].remote = call[c].remote /\ UNCHANGED <<slot, done>>
  <2>1. PublishTargets(c) => call[c].kind = "range"
    BY Zenon, <1>1 DEF PublishTargets, Runs, SlotInv
  <2>2. PublishTargets(c) => /\ call'[c].kind = call[c].kind /\ call'[c].pc = "send"
                             /\ slot'[c].targets = call[c].remote
                             /\ call'[c].remote = call[c].remote
    BY <1>7 DEF PublishTargets, CallRec, SlotRec
  <2>3. Send(c) => /\ call[c].pc = "send" /\ call'[c].pc = "wait"
                   /\ call'[c].kind = call[c].kind /\ call'[c].expected = call[c].expected
                   /\ call'[c].remote = call[c].remote /\ UNCHANGED <<slot, done>>
    BY <1>7 DEF Send, Runs, CallRec
  <2> QED BY Zenon, <2>1, <2>2, <2>3
<1>9. \/ \E k \in Sequenced, targets \in SUBSET CPUs : Begin(c, k, targets)
      \/ call'[c].kind = "range" /\ call'[c].pc \in {"payload", "targets"}
      \/ PublishTargets(c) \/ Send(c)
      \/ Kick(c) /\ UNCHANGED <<call, slot, done>>
      \/ Return(c) /\ call'[c].pc = "idle"
      \/ Timeout(c) /\ call'[c].pc \in {"idle", "failed"}
  BY Zenon, <1>1, CallerPlace
<1>10. SeqInv'
  <2> SUFFICES ASSUME NEW e \in CPUs, Numbered(e)', NEW d \in call'[e].remote
               PROVE  Covered(e, d)'
    BY Zenon DEF SeqInv
  <2>1. ASSUME call'[e].kind = call[e].kind, call'[e].expected = call[e].expected,
               call'[e].remote = call[e].remote, done'[e] = done[e], Numbered(e)
        PROVE  Covered(e, d)'
    <3>1. Covered(e, d) /\ call[e].kind \in Sequenced /\ d \in CPUs
      BY Zenon, <1>1, <1>6, <2>1 DEF SeqInv, Numbered
    <3> QED BY Zenon, <1>1, <1>2, <1>3, <2>1, <3>1, GrowingRequests
  <2>2. CASE e # c
    BY Zenon, <1>3, <2>1, <2>2 DEF Numbered
  <2>3. CASE e = c
    <3>1. call'[c].kind # "range" /\ call'[c].pc \in {"send", "wait"}
      BY <2>3 DEF Numbered, Sequenced
    <3>2. ASSUME NEW k \in Sequenced, NEW targets \in SUBSET CPUs, Begin(c, k, targets)
          PROVE  Covered(e, d)'
      BY Zenon, <1>1, <2>3, <3>2, BeginCovered
    <3>3. CASE Send(c)
      <4>1. Numbered(c)
        BY Zenon, <1>8, <2>3, <3>3 DEF Numbered
      <4> QED BY Zenon, <1>8, <2>1, <2>3, <3>3, <4>1
    <3>4. CASE Kick(c) /\ UNCHANGED <<call, slot, done>>
      BY Zenon, <2>1, <3>4 DEF Numbered
    <3> QED BY <1>8, <1>9, <3>1, <3>2, <3>3, <3>4
  <2> QED BY Zenon, <2>2, <2>3
<1>11. NoRequestSwallowed'
  <2> SUFFICES ASSUME NEW e \in CPUs, call'[e].pc = "wait"
               PROVE  \A d \in Missing(e)' : WillServe(d, e)'
    BY Zenon DEF NoRequestSwallowed
  <2>1. CASE call'[e] = call[e] /\ slot'[e] = slot[e]
    BY Zenon, <1>1, <1>3, <1>6, <2>1, StillServed
  <2>2. CASE e = c /\ Send(c)
    <3>1. SendIpiMask(call[c].remote, call[c].kind)
      BY Zenon, <2>2 DEF Send
    <3>2. call[c].remote \in SUBSET CPUs /\ call[c].kind \in Sequenced \cup {"range", "stop"}
      BY <1>1, Types
    <3>3. \A d \in call[c].remote : call[c].kind \in mail'[d]
      BY Zenon, <1>1, <1>6, <3>1, <3>2, SendFacts
    <3> QED BY Zenon, <1>8, <2>2, <3>3 DEF Missing, WillServe
  <2>3. CASE e = c /\ ~ Send(c) /\ ~ (call'[e] = call[e] /\ slot'[e] = slot[e])
    <3>1. ASSUME NEW k \in Sequenced, NEW targets \in SUBSET CPUs, Begin(c, k, targets)
          PROVE  call'[c].pc = "send"
      BY Zenon, <1>1, <3>1, BeginCovered
    <3> QED BY <1>8, <1>9, <2>3, <3>1
  <2> QED BY Zenon, <1>3, <2>1, <2>2, <2>3
<1>12. SlotInv'
  <2>1. ASSUME NEW e \in CPUs \ {c}
        PROVE  /\ call'[e].pc \in {"payload", "targets"} => call'[e].kind = "range"
               /\ call'[e].kind = "range" /\ call'[e].pc \in {"send", "wait"}
                    => slot'[e].targets = call'[e].remote
               /\ slot'[e].targets # {}
                    => call'[e].kind = "range" /\ call'[e].pc \in {"send", "wait", "failed"}
    BY Zenon, <1>1, <1>3 DEF SlotInv
  <2>2. /\ call'[c].pc \in {"payload", "targets"} => call'[c].kind = "range"
        /\ call'[c].kind = "range" /\ call'[c].pc \in {"send", "wait"}
             => slot'[c].targets = call'[c].remote
        /\ slot'[c].targets # {}
             => call'[c].kind = "range" /\ call'[c].pc \in {"send", "wait", "failed"}
    BY Zenon, <1>1, SlotOwn
  <2> QED BY Zenon, <2>1, <2>2 DEF SlotInv
<1> QED BY Zenon, <1>2, <1>4, <1>5, <1>10, <1>11, <1>12 DEF IInv

-----------------------------------------------------------------------------
(* What the invariant says of the handler of one CPU and of the calls that  *)
(* have it as a target.                                                     *)
TargetInv(d) ==
  /\ HandlerAt(d) /\ NumberAt(d) /\ StackAt(d)
  /\ \A c \in CPUs : Numbered(c) /\ d \in call[c].remote => Covered(c, d)
  /\ \A c \in CPUs : call[c].pc = "wait" /\ d \in Missing(c) => WillServe(d, c)

LEMMA ByTarget ==
  ASSUME TypeOK
  PROVE  (HandlerInv /\ NumberInv /\ StackInv /\ SeqInv /\ NoRequestSwallowed)
           <=> \A d \in CPUs : TargetInv(d)
<1>1. \A c \in CPUs : call[c].remote \subseteq CPUs
  BY Zenon, Types
<1>2. \A c \in CPUs : Missing(c) \subseteq CPUs
  BY Zenon, <1>1 DEF Missing
<1> QED
  BY Zenon, <1>1, <1>2
  DEF TargetInv, HandlerInv, NumberInv, StackInv, SeqInv, NoRequestSwallowed

(* The same in the next state. *)
LEMMA ByTargetNext ==
  ASSUME TypeOK', \A d \in CPUs : TargetInv(d)'
  PROVE  (HandlerInv /\ NumberInv /\ StackInv /\ SeqInv /\ NoRequestSwallowed)'
<1>1. \A c \in CPUs : call'[c] \in CallRec
  BY DEF TypeOK
<1>2. \A c \in CPUs : call'[c].remote \subseteq CPUs
  BY <1>1 DEF CallRec
<1>3. \A c \in CPUs : Missing(c)' \subseteq CPUs
  BY Zenon, <1>2 DEF Missing
<1> QED
  BY Zenon, <1>2, <1>3
  DEF TargetInv, HandlerInv, NumberInv, StackInv, SeqInv, NoRequestSwallowed

(* A handler that takes the reasons out of its mailbox. *)
LEMMA HandleIpiInv ==
  ASSUME IInv, NEW d \in CPUs, HandleIpi(d)
  PROVE  TargetInv(d)'
<1>1. TypeOK /\ TargetInv(d)
  BY Zenon, ByTarget DEF IInv
<1>2. /\ handler[d].pc = "off" /\ handler'[d].pc = "scan"
      /\ handler'[d].reasons = mail[d] \ {"stop"} /\ handler'[d].slot = handler[d].slot
  BY <1>1 DEF HandleIpi, TypeOK, HandlerRec
<1>3. UNCHANGED <<request, ack, call, slot, stopped, task, done>>
  BY Zenon DEF HandleIpi, seqVars
<1>4. handler[d].reasons = {} /\ handler[d].slot = Boot
  BY Zenon, <1>1, <1>2 DEF TargetInv, HandlerAt
<1>5. HandlerAt(d)' /\ NumberAt(d)' /\ StackAt(d)'
  BY Zenon, <1>1, <1>2, <1>3, <1>4 DEF TargetInv, HandlerAt, NumberAt, StackAt, Serving
<1>6. ASSUME NEW c \in CPUs, Numbered(c)', d \in call'[c].remote
      PROVE  Covered(c, d)'
  BY Zenon, <1>1, <1>2, <1>3, <1>6 DEF TargetInv, Covered, Serving, Numbered
<1>7. ASSUME NEW c \in CPUs, call'[c].pc = "wait", d \in Missing(c)'
      PROVE  WillServe(d, c)'
  <2>1. WillServe(d, c)
    BY Zenon, <1>1, <1>3, <1>7 DEF TargetInv, Missing
  <2>2. call[c].kind \in mail[d] /\ call[c].kind # "stop"
    BY <1>1, <1>4, <2>1, Types DEF WillServe, Sequenced
  <2>3. Boot <= c
    BY DEF Boot, CPUs
  <2> QED BY <1>2, <1>3, <1>4, <2>2, <2>3 DEF WillServe
<1> QED BY Zenon, <1>5, <1>6, <1>7 DEF TargetInv

(* A handler that reads a request: a waiting call is not skipped. *)
LEMMA SnapshotInv ==
  ASSUME IInv, NEW d \in CPUs, NEW k \in Sequenced, Snapshot(d, k)
  PROVE  TargetInv(d)'
<1>1. TypeOK /\ TargetInv(d)
  BY Zenon, ByTarget DEF IInv
<1>2. /\ handler[d].pc = "scan" /\ First(handler[d].reasons, k)
      /\ handler' = IF k # "kernel" /\ ack[k][d] >= request[k][d]
                    THEN [handler EXCEPT ![d].reasons = @ \ {k}]
                    ELSE [handler EXCEPT ![d].pc = "flush", ![d].seq = request[k][d]]
      /\ UNCHANGED <<request, ack, call, slot, stopped, task, done, mail>>
  BY Zenon DEF Snapshot, seqVars, stopVars
<1>3. k \in handler[d].reasons /\ k # "range"
  BY <1>2 DEF First, Sequenced
<1>4. CASE k # "kernel" /\ ack[k][d] >= request[k][d]
  <2>1. /\ handler'[d].pc = "scan" /\ handler'[d].reasons = handler[d].reasons \ {k}
        /\ handler'[d].slot = handler[d].slot
    BY <1>1, <1>2, <1>4 DEF TypeOK, HandlerRec
  <2>2. HandlerAt(d)' /\ NumberAt(d)' /\ StackAt(d)'
    BY Zenon, <1>1, <1>2, <1>3, <2>1 DEF TargetInv, HandlerAt, NumberAt, StackAt, Serving
  <2>3. ASSUME NEW c \in CPUs, Numbered(c)', d \in call'[c].remote
        PROVE  Covered(c, d)'
    BY Zenon, <1>1, <1>2, <2>1, <2>3 DEF TargetInv, Covered, Serving, Numbered
  <2>4. ASSUME NEW c \in CPUs, call'[c].pc = "wait", d \in Missing(c)'
        PROVE  WillServe(d, c)'
    <3>1. call[c].pc = "wait" /\ d \in Missing(c)
      BY Zenon, <1>2, <2>4 DEF Missing
    <3>2. WillServe(d, c)
      BY Zenon, <1>1, <3>1 DEF TargetInv
    <3>3. call[c].kind # k
      <4>1. SUFFICES ASSUME call[c].kind = k PROVE FALSE
        BY Zenon
      <4>2. ack[k][d] < call[c].expected[d] /\ d \in call[c].remote
        BY <1>3, <3>1, <4>1 DEF Missing
      <4>3. call[c].expected[d] <= request[k][d]
        BY Zenon, <1>1, <3>1, <4>1, <4>2 DEF TargetInv, Covered, Numbered
      <4> QED BY <1>1, <1>4, <4>2, <4>3, Types
    <3> QED BY Zenon, <1>2, <2>1, <3>2, <3>3 DEF WillServe
  <2> QED BY Zenon, <2>2, <2>3, <2>4 DEF TargetInv
<1>5. CASE ~ (k # "kernel" /\ ack[k][d] >= request[k][d])
  <2>1. /\ handler'[d].pc = "flush" /\ handler'[d].reasons = handler[d].reasons
        /\ handler'[d].slot = handler[d].slot /\ handler'[d].seq = request[k][d]
    BY <1>1, <1>2, <1>5 DEF TypeOK, HandlerRec
  <2>2. HandlerAt(d)' /\ StackAt(d)'
    BY Zenon, <1>1, <1>2, <1>3, <2>1 DEF TargetInv, HandlerAt, StackAt, Serving
  <2>3. NumberAt(d)'
    <3> SUFFICES ASSUME NEW j \in Sequenced
                 PROVE  /\ ack[j][d] <= request[j][d]
                        /\ First(handler[d].reasons, j)
                             => ack[j][d] <= request[k][d] /\ request[k][d] <= request[j][d]
      BY Zenon, <1>2, <2>1 DEF NumberAt, Serving
    <3>1. ack[j][d] <= request[j][d]
      BY Zenon, <1>1 DEF TargetInv, NumberAt
    <3>2. First(handler[d].reasons, j) => j = k
      BY Zenon, <1>2, FirstUnique
    <3>3. request[k][d] <= request[k][d]
      BY <1>1, Types
    <3> QED BY Zenon, <3>1, <3>2, <3>3
  <2>4. ASSUME NEW c \in CPUs, Numbered(c)', d \in call'[c].remote
        PROVE  Covered(c, d)'
    BY Zenon, <1>1, <1>2, <2>1, <2>4 DEF TargetInv, Covered, Serving, Numbered
  <2>5. ASSUME NEW c \in CPUs, call'[c].pc = "wait", d \in Missing(c)'
        PROVE  WillServe(d, c)'
    <3>1. call[c].pc = "wait" /\ d \in Missing(c)
      BY Zenon, <1>2, <2>5 DEF Missing
    <3>2. WillServe(d, c)
      BY Zenon, <1>1, <3>1 DEF TargetInv
    <3>3. ASSUME call[c].kind # "range", First(handler[d].reasons, call[c].kind)
          PROVE  call[c].expected[d] <= request[k][d]
      <4>1. call[c].kind \in Sequenced /\ d \in call[c].remote
        BY <1>1, <3>1, <3>3, Types DEF Missing
      <4>2. call[c].kind = k
        BY Zenon, <1>2, <3>3, <4>1, FirstUnique
      <4>3. Covered(c, d)
        BY Zenon, <1>1, <3>1, <4>1 DEF TargetInv, Numbered
      <4> QED BY Zenon, <4>2, <4>3 DEF Covered
    <3>4. ASSUME call[c].kind # "range", First(handler[d].reasons, call[c].kind)
          PROVE  request[k][d] >= call[c].expected[d]
      BY <1>1, <3>3, <3>4, Types
    <3> QED BY Zenon, <1>2, <2>1, <3>2, <3>4 DEF WillServe
  <2> QED BY Zenon, <2>2, <2>3, <2>4, <2>5 DEF TargetInv
<1> QED BY Zenon, <1>4, <1>5

(* A handler that flushes: every call that waits for this kind is credited. *)
LEMMA FlushInv ==
  ASSUME IInv, NEW d \in CPUs, NEW k \in Sequenced, Flush(d, k)
  PROVE  TargetInv(d)'
<1>1. TypeOK /\ TargetInv(d)
  BY Zenon, ByTarget DEF IInv
<1>2. /\ handler[d].pc = "flush" /\ First(handler[d].reasons, k) /\ Accomplish(d, k)
      /\ handler' = [handler EXCEPT ![d].pc = "ack"]
      /\ UNCHANGED <<request, ack, call, slot, stopped, mail>>
  BY Zenon DEF Flush, seqVars, stopVars
<1>3. /\ handler'[d].pc = "ack" /\ handler'[d].reasons = handler[d].reasons
      /\ handler'[d].slot = handler[d].slot /\ handler'[d].seq = handler[d].seq
  BY <1>1, <1>2 DEF TypeOK, HandlerRec
<1>4. HandlerAt(d)'
  BY Zenon, <1>1, <1>2, <1>3 DEF TargetInv, HandlerAt
<1>5. NumberAt(d)'
  BY Zenon, <1>1, <1>2, <1>3 DEF TargetInv, NumberAt, Serving
<1>6. StackAt(d)'
  <2>1. task \in [CPUs -> {"none", "unseen", "seen", "running", "fault"}] /\ task[d] # "fault"
    BY Zenon, <1>1 DEF TypeOK, TargetInv, StackAt
  <2>2. task' = IF k = "kernel" /\ task[d] = "unseen" THEN [task EXCEPT ![d] = "seen"] ELSE task
    BY Zenon, <1>2 DEF Accomplish
  <2>3. CASE k = "kernel"
    BY <2>1, <2>2, <2>3 DEF StackAt
  <2>4. CASE k # "kernel"
    <3>1. "kernel" \in Sequenced /\ ~ First(handler[d].reasons, "kernel") /\ task' = task
      BY <1>2, <2>2, <2>4, FirstUnique DEF Sequenced
    <3> QED BY Zenon, <1>1, <1>2, <1>3, <3>1 DEF TargetInv, StackAt, Serving
  <2> QED BY Zenon, <2>3, <2>4
<1>7. ASSUME NEW c \in CPUs, Numbered(c)', d \in call'[c].remote
      PROVE  Covered(c, d)'
  <2>1. Numbered(c) /\ d \in call[c].remote
    BY Zenon, <1>2, <1>7 DEF Numbered
  <2>2. Covered(c, d) /\ call[c].kind \in Sequenced /\ call[c].pc # "idle"
    BY Zenon, <1>1, <2>1 DEF TargetInv, Numbered
  <2>3. /\ done[c] \subseteq done'[c] /\ (call[c].kind = k => d \in done'[c])
    BY <1>1, <1>2, <2>2 DEF Accomplish, Credit, TypeOK
  <2>4. First(handler[d].reasons, call[c].kind) => call[c].kind = k
    BY Zenon, <1>2, <2>2, FirstUnique
  <2> QED BY Zenon, <1>2, <1>3, <2>2, <2>3, <2>4 DEF Covered, Serving
<1>8. ASSUME NEW c \in CPUs, call'[c].pc = "wait", d \in Missing(c)'
      PROVE  WillServe(d, c)'
  <2>1. WillServe(d, c)
    BY Zenon, <1>1, <1>2, <1>8 DEF TargetInv, Missing
  <2> QED BY Zenon, <1>2, <1>3, <2>1 DEF WillServe
<1> QED BY Zenon, <1>4, <1>5, <1>6, <1>7, <1>8 DEF TargetInv

(* A handler that acknowledges the number it read before the flush. *)
LEMMA AckInv ==
  ASSUME IInv, NEW d \in CPUs, NEW k \in Sequenced, Ack(d, k)
  PROVE  TargetInv(d)'
<1>1. TypeOK /\ TargetInv(d)
  BY Zenon, ByTarget DEF IInv
<1>2. /\ handler[d].pc = "ack" /\ First(handler[d].reasons, k)
      /\ ack' = [ack EXCEPT ![k][d] = handler[d].seq]
      /\ handler' = [handler EXCEPT ![d].pc = "scan", ![d].reasons = @ \ {k}, ![d].seq = 0]
      /\ UNCHANGED <<request, call, slot, stopped, mail, task, done>>
  BY Zenon DEF Ack, stopVars
<1>3. /\ handler'[d].pc = "scan" /\ handler'[d].reasons = handler[d].reasons \ {k}
      /\ handler'[d].slot = handler[d].slot
  BY <1>1, <1>2 DEF TypeOK, HandlerRec
<1>4. \A j \in Sequenced : ack'[j][d] = IF j = k THEN handler[d].seq ELSE ack[j][d]
  BY <1>1, <1>2 DEF TypeOK
<1>5. k \in handler[d].reasons /\ k # "range"
  BY <1>2 DEF First, Sequenced
<1>6. Serving(d, k, {"ack"}) /\ Serving(d, k, {"flush", "ack"})
  BY <1>2 DEF Serving
<1>7. ack[k][d] <= handler[d].seq /\ handler[d].seq <= request[k][d]
  BY Zenon, <1>1, <1>6 DEF TargetInv, NumberAt
<1>8. HandlerAt(d)'
  BY <1>1, <1>3, <1>5 DEF TargetInv, HandlerAt
<1>9. NumberAt(d)'
  <2>1. \A j \in Sequenced : ack[j][d] <= request[j][d]
    BY Zenon, <1>1 DEF TargetInv, NumberAt
  <2> QED BY <1>2, <1>3, <1>4, <1>7, <2>1 DEF NumberAt, Serving
<1>10. StackAt(d)'
  <2>1. /\ task[d] # "fault"
        /\ task[d] = "unseen" =>
             /\ ack["kernel"][d] < request["kernel"][d]
             /\ k = "kernel" => handler[d].seq < request["kernel"][d]
    BY Zenon, <1>1, <1>6 DEF TargetInv, StackAt
  <2>2. "kernel" \in Sequenced
    BY DEF Sequenced
  <2>3. task[d] = "unseen" => ack'["kernel"][d] < request["kernel"][d]
    BY <1>4, <2>1, <2>2
  <2> QED BY <1>2, <1>3, <2>1, <2>3 DEF StackAt, Serving
<1>11. ASSUME NEW c \in CPUs, Numbered(c)', d \in call'[c].remote
      PROVE  Covered(c, d)'
  <2>1. Numbered(c) /\ d \in call[c].remote /\ call[c].kind \in Sequenced
    BY Zenon, <1>2, <1>11 DEF Numbered
  <2>2. Covered(c, d)
    BY Zenon, <1>1, <2>1 DEF TargetInv
  <2>3. ~ Serving(d, call[c].kind, {"ack"})'
    BY <1>3 DEF Serving
  <2>4. call[c].expected[d] <= ack'[call[c].kind][d] => d \in done[c]
    BY Zenon, <1>4, <1>6, <2>1, <2>2 DEF Covered
  <2> QED BY Zenon, <1>2, <2>2, <2>3, <2>4 DEF Covered, Serving
<1>12. ASSUME NEW c \in CPUs, call'[c].pc = "wait", d \in Missing(c)'
      PROVE  WillServe(d, c)'
  <2>1. d \in call[c].remote \ stopped /\ call[c].pc = "wait"
    BY Zenon, <1>2, <1>12 DEF Missing
  <2>2. CASE call[c].kind = k
    <3>1. handler[d].seq < call[c].expected[d]
      BY <1>2, <1>4, <1>5, <1>12, <2>2 DEF Missing
    <3>2. /\ ack[k][d] \in Nat /\ handler[d].seq \in Nat /\ call[c].expected[d] \in Nat
      BY Zenon, <1>1, Types
    <3>3. ack[k][d] < call[c].expected[d] /\ ~ (handler[d].seq >= call[c].expected[d])
      BY <1>7, <3>1, <3>2
    <3>4. d \in Missing(c)
      BY <1>5, <2>1, <2>2, <3>3 DEF Missing
    <3>5. WillServe(d, c)
      BY Zenon, <1>1, <2>1, <3>4 DEF TargetInv
    <3> QED BY <1>2, <1>5, <2>2, <3>3, <3>5 DEF WillServe
  <2>3. CASE call[c].kind # k
    <3>1. call[c].kind # "range" => call[c].kind \in Sequenced
      BY <1>1, Types
    <3>2. d \in Missing(c)
      BY <1>2, <1>4, <1>12, <2>1, <2>3, <3>1 DEF Missing
    <3>3. WillServe(d, c)
      BY Zenon, <1>1, <2>1, <3>2 DEF TargetInv
    <3> QED BY Zenon, <1>2, <1>3, <2>3, <3>3 DEF WillServe
  <2> QED BY Zenon, <2>2, <2>3
<1> QED BY Zenon, <1>8, <1>9, <1>10, <1>11, <1>12 DEF TargetInv

(* A handler that is done with slot s goes to the next one: a caller whose  *)
(* slot is s no longer misses it.                                           *)
LEMMA PastSlotInv ==
  ASSUME IInv, NEW d \in CPUs, NEW s \in CPUs, s = handler[d].slot,
         handler[d].reasons = {"range"},
         handler' = [handler EXCEPT ![d] = PastSlot(handler[d])],
         UNCHANGED <<request, ack, call, stopped, mail, task, done>>,
         \A c \in CPUs : slot[c].acked \subseteq slot'[c].acked,
         call[s].pc = "wait" /\ call[s].kind = "range" => d \notin Missing(s)'
  PROVE  TargetInv(d)'
<1>1. TypeOK /\ TargetInv(d)
  BY Zenon, ByTarget DEF IInv
<1>2. handler[d] \in HandlerRec /\ handler \in [CPUs -> HandlerRec]
  BY Zenon, <1>1 DEF TypeOK
<1>3. handler'[d] = PastSlot(handler[d])
  BY Zenon, <1>2
<1>4. /\ handler'[d].pc = "scan"
      /\ s = N - 1 => handler'[d].reasons = handler[d].reasons \ {"range"}
                      /\ handler'[d].slot = Boot
      /\ s # N - 1 => handler'[d].reasons = handler[d].reasons /\ handler'[d].slot = s + 1
  BY Zenon, <1>2, <1>3, PastSlotFacts
<1>6. HandlerAt(d)'
  BY <1>4 DEF HandlerAt
<1>7. NumberAt(d)' /\ StackAt(d)'
  BY Zenon, <1>1, <1>4 DEF TargetInv, NumberAt, StackAt, Serving
<1>8. ASSUME NEW c \in CPUs, Numbered(c)', d \in call'[c].remote
      PROVE  Covered(c, d)'
  BY Zenon, <1>1, <1>4, <1>8 DEF TargetInv, Covered, Serving, Numbered
<1>9. ASSUME NEW c \in CPUs, call'[c].pc = "wait", d \in Missing(c)'
      PROVE  WillServe(d, c)'
  <2>1. call[c].pc = "wait" /\ d \in Missing(c)
    BY Zenon, <1>9 DEF Missing
  <2>2. WillServe(d, c)
    BY Zenon, <1>1, <2>1 DEF TargetInv
  <2>3. CASE call[c].kind \in mail[d]
    BY Zenon, <2>3 DEF WillServe
  <2>4. CASE call[c].kind \notin mail[d]
    <3>1. call[c].kind = "range" /\ s <= c
      <4>1. /\ call[c].kind \in handler[d].reasons
            /\ call[c].kind = "range" => handler[d].slot <= c
        BY Zenon, <2>2, <2>4 DEF WillServe
      <4> QED BY Zenon, <4>1
    <3>2. c # s
      BY Zenon, <1>9, <2>1, <3>1
    <3>3. s # N - 1 /\ s + 1 <= c
      BY <3>1, <3>2, ShootdownAssumption DEF CPUs
    <3> QED BY <1>4, <3>1, <3>3 DEF WillServe
  <2> QED BY Zenon, <2>3, <2>4
<1> QED BY Zenon, <1>6, <1>7, <1>8, <1>9 DEF TargetInv

(* A handler that looks at a slot passes it only when no caller waits for   *)
(* it there.                                                                *)
LEMMA ServiceInv ==
  ASSUME IInv, NEW d \in CPUs, ServiceTargets(d) \/ ServiceAcked(d)
  PROVE  TargetInv(d)'
<1>1. TypeOK /\ TargetInv(d) /\ SlotInv
  BY Zenon, ByTarget DEF IInv
<1>0. PICK s \in CPUs : s = handler[d].slot
  BY Zenon, <1>1, Types
<1>2. handler \in [CPUs -> HandlerRec] /\ handler[d] \in HandlerRec
  BY Zenon, <1>1 DEF TypeOK
<1>3. UNCHANGED <<request, ack, call, stopped, mail, task, done, slot>>
  BY Zenon DEF ServiceTargets, ServiceAcked, seqVars, stopVars
<1>4. handler[d].reasons = {"range"}
  BY Zenon, <1>1 DEF ServiceTargets, ServiceAcked, First, TargetInv, HandlerAt
<1>5. CASE /\ handler' = [handler EXCEPT ![d] = PastSlot(handler[d])]
           /\ d \notin slot[s].targets \/ d \in slot[s].acked
  <2>1. ASSUME call[s].pc = "wait", call[s].kind = "range"
        PROVE  d \notin Missing(s)'
    <3>1. slot[s].targets = call[s].remote
      BY Zenon, <1>1, <2>1 DEF SlotInv
    <3> QED BY Zenon, <1>3, <1>5, <2>1, <3>1 DEF Missing
  <2> QED BY Zenon, <1>0, <1>3, <1>4, <1>5, <2>1, PastSlotInv
<1>6. ASSUME NEW at \in {"acked", "invalidate"},
             handler' = [handler EXCEPT ![d] = [handler[d] EXCEPT !.pc = at]]
      PROVE  TargetInv(d)'
  <2>1. /\ handler'[d].pc = at /\ handler'[d].reasons = handler[d].reasons
        /\ handler'[d].slot = handler[d].slot /\ handler'[d].seq = handler[d].seq
    BY <1>2, <1>6 DEF HandlerRec
  <2>2. HandlerAt(d)'
    BY <1>4, <2>1 DEF HandlerAt
  <2>3. \A k \in Sequenced : ~ First(handler[d].reasons, k)
    BY <1>4 DEF First, Sequenced
  <2>4. NumberAt(d)'
    BY Zenon, <1>1, <1>3, <2>1, <2>3 DEF TargetInv, NumberAt, Serving
  <2>5. StackAt(d)'
    <3>1. ~ First(handler[d].reasons, "kernel")
      BY <1>4 DEF First
    <3> QED BY Zenon, <1>1, <1>3, <2>1, <3>1 DEF TargetInv, StackAt, Serving
  <2>6. ASSUME NEW c \in CPUs, Numbered(c)', d \in call'[c].remote
        PROVE  Covered(c, d)'
    BY Zenon, <1>1, <1>3, <2>1, <2>3, <2>6 DEF TargetInv, Covered, Serving, Numbered
  <2>7. ASSUME NEW c \in CPUs, call'[c].pc = "wait", d \in Missing(c)'
        PROVE  WillServe(d, c)'
    <3>1. WillServe(d, c)
      BY Zenon, <1>1, <1>3, <2>7 DEF TargetInv, Missing
    <3>2. call[c].kind # "range" => ~ First(handler[d].reasons, call[c].kind)
      BY <1>1, <2>3, Types
    <3> QED BY Zenon, <1>3, <2>1, <3>1, <3>2 DEF WillServe
  <2> QED BY Zenon, <2>2, <2>4, <2>5, <2>6, <2>7 DEF TargetInv
<1>7. \/ <1>5!1
      \/ \E at \in {"acked", "invalidate"} :
           handler' = [handler EXCEPT ![d] = [handler[d] EXCEPT !.pc = at]]
  BY Zenon, <1>0 DEF ServiceTargets, ServiceAcked
<1> QED BY Zenon, <1>5, <1>6, <1>7

(* The handler invalidates, acknowledges in the slot, and returns. *)
LEMMA RangeStepInv ==
  ASSUME IInv, NEW d \in CPUs, Invalidate(d) \/ RangeAck(d) \/ HandlerReturn(d)
  PROVE  TargetInv(d)'
<1>1. TypeOK /\ TargetInv(d) /\ SlotInv
  BY Zenon, ByTarget DEF IInv
<1>2. PICK s \in CPUs : s = handler[d].slot
  BY Zenon, <1>1, Types
<1>3. handler \in [CPUs -> HandlerRec] /\ handler[d] \in HandlerRec /\ slot \in [CPUs -> SlotRec]
  BY Zenon, <1>1 DEF TypeOK
<1>4. CASE RangeAck(d)
  <2>1. /\ handler[d].pc = "rangeAck" /\ slot' = [slot EXCEPT ![s].acked = @ \cup {d}]
        /\ handler' = [handler EXCEPT ![d] = PastSlot(handler[d])]
        /\ UNCHANGED <<request, ack, call, stopped, mail, task, done>>
    BY Zenon, <1>2, <1>4 DEF RangeAck, seqVars, stopVars
  <2>2. handler[d].reasons = {"range"}
    BY Zenon, <1>1, <2>1 DEF TargetInv, HandlerAt
  <2>3. d \in slot'[s].acked /\ \A c \in CPUs : slot[c].acked \subseteq slot'[c].acked
    BY <1>3, <2>1 DEF SlotRec
  <2>4. call[s].kind = "range" => d \notin Missing(s)'
    BY Zenon, <2>1, <2>3 DEF Missing
  <2> QED BY Zenon, <1>2, <2>1, <2>2, <2>3, <2>4, PastSlotInv
<1>5. CASE Invalidate(d) \/ HandlerReturn(d)
  <2>1. /\ \/ handler'[d].pc = "rangeAck" /\ handler[d].reasons = {"range"}
           \/ handler'[d].pc = "off" /\ handler[d].reasons = {}
        /\ handler'[d].reasons = handler[d].reasons /\ handler'[d].slot = handler[d].slot
        /\ handler'[d].seq = handler[d].seq
        /\ UNCHANGED <<request, ack, call, stopped, mail, task, slot>>
    <3>1. Invalidate(d) => handler[d].reasons = {"range"}
      BY Zenon, <1>1 DEF Invalidate, TargetInv, HandlerAt
    <3>2. HandlerReturn(d) => handler[d].reasons = {}
      BY Zenon DEF HandlerReturn
    <3>3. UNCHANGED <<request, ack, call, stopped, mail, task, slot>>
      BY Zenon, <1>5 DEF Invalidate, HandlerReturn, seqVars, stopVars
    <3>4. /\ Invalidate(d) => handler'[d] = [handler[d] EXCEPT !.pc = "rangeAck"]
          /\ HandlerReturn(d) => handler'[d] = [handler[d] EXCEPT !.pc = "off"]
      BY Zenon, <1>3 DEF Invalidate, HandlerReturn
    <3>5. ASSUME NEW at, handler'[d] = [handler[d] EXCEPT !.pc = at]
          PROVE  /\ handler'[d].pc = at /\ handler'[d].reasons = handler[d].reasons
                 /\ handler'[d].slot = handler[d].slot /\ handler'[d].seq = handler[d].seq
      BY <1>3, <3>5 DEF HandlerRec
    <3>6. CASE Invalidate(d)
      BY Zenon, <3>1, <3>3, <3>4, <3>5, <3>6
    <3>7. CASE HandlerReturn(d)
      BY Zenon, <3>2, <3>3, <3>4, <3>5, <3>7
    <3> QED BY Zenon, <1>5, <3>6, <3>7
  <2>2. HandlerAt(d)'
    BY <1>1, <2>1 DEF HandlerAt, TargetInv
  <2>3. /\ \A k \in Sequenced : ~ First(handler[d].reasons, k)
        /\ ~ First(handler[d].reasons, "kernel")
    BY <2>1 DEF First, Sequenced
  <2>4. NumberAt(d)' /\ StackAt(d)'
    BY Zenon, <1>1, <2>1, <2>3 DEF TargetInv, NumberAt, StackAt, Serving
  <2>5. ASSUME NEW c \in CPUs, Numbered(c)', d \in call'[c].remote
        PROVE  Covered(c, d)'
    <3>1. Covered(c, d) /\ ~ First(handler[d].reasons, call[c].kind)
      BY Zenon, <1>1, <2>1, <2>3, <2>5 DEF TargetInv, Numbered
    <3>2. done[c] \subseteq done'[c]
      BY Zenon, <1>1, <1>5, HandlerEffect DEF Handler
    <3> QED BY Zenon, <2>1, <3>1, <3>2 DEF Covered, Serving
  <2>6. ASSUME NEW c \in CPUs, call'[c].pc = "wait", d \in Missing(c)'
        PROVE  WillServe(d, c)'
    <3>1. WillServe(d, c)
      BY Zenon, <1>1, <2>1, <2>6 DEF TargetInv, Missing
    <3>2. call[c].kind # "range" => ~ First(handler[d].reasons, call[c].kind)
      BY <1>1, <2>3, Types
    <3> QED BY Zenon, <2>1, <3>1, <3>2 DEF WillServe
  <2> QED BY Zenon, <2>2, <2>4, <2>5, <2>6 DEF TargetInv
<1> QED BY Zenon, <1>4, <1>5

(* A step of a handler keeps the invariant: the other handlers do not       *)
(* notice, and the calls only find more done.                               *)
LEMMA HandlerStepInv ==
  ASSUME IInv, NEW d \in CPUs, Handler(d)
  PROVE  IInv'
<1>1. TypeOK /\ SlotInv /\ \A e \in CPUs : TargetInv(e)
  BY Zenon, ByTarget DEF IInv
<1>2. TypeOK'
  BY Zenon, <1>1, HandlerType
<1>3. /\ UNCHANGED <<request, call, stopped>>
      /\ \A e \in CPUs \ {d} : /\ handler'[e] = handler[e] /\ mail'[e] = mail[e]
                               /\ task'[e] = task[e]
                               /\ \A k \in Sequenced : ack'[k][e] = ack[k][e]
      /\ \A c \in CPUs : /\ slot'[c].targets = slot[c].targets
                         /\ slot[c].acked \subseteq slot'[c].acked
                         /\ done[c] \subseteq done'[c]
  BY Zenon, <1>1, HandlerEffect
<1>4. SlotInv'
  BY Zenon, <1>1, <1>3 DEF SlotInv
<1>5. TargetInv(d)'
  BY Zenon, HandleIpiInv, SnapshotInv, FlushInv, AckInv, ServiceInv, RangeStepInv DEF Handler
<1>6. ASSUME NEW e \in CPUs \ {d}
      PROVE  TargetInv(e)'
  <2>1. /\ handler'[e] = handler[e] /\ mail'[e] = mail[e] /\ task'[e] = task[e]
        /\ \A k \in Sequenced : ack'[k][e] = ack[k][e]
    BY Zenon, <1>3, <1>6
  <2>2. "kernel" \in Sequenced
    BY DEF Sequenced
  <2>3. HandlerAt(e)' /\ NumberAt(e)' /\ StackAt(e)'
    <3>1. HandlerAt(e)'
      BY Zenon, <1>1, <2>1 DEF TargetInv, HandlerAt
    <3>2. NumberAt(e)'
      BY Zenon, <1>1, <1>3, <2>1 DEF TargetInv, NumberAt, Serving
    <3>3. StackAt(e)'
      BY Zenon, <1>1, <1>3, <2>1, <2>2 DEF TargetInv, StackAt, Serving
    <3> QED BY Zenon, <3>1, <3>2, <3>3
  <2>4. ASSUME NEW c \in CPUs, Numbered(c)', e \in call'[c].remote
        PROVE  Covered(c, e)'
    <3>1. Covered(c, e) /\ call[c].kind \in Sequenced
      BY Zenon, <1>1, <1>3, <2>4 DEF TargetInv, Numbered
    <3> QED BY Zenon, <1>3, <2>1, <3>1 DEF Covered, Serving
  <2>5. ASSUME NEW c \in CPUs, call'[c].pc = "wait", e \in Missing(c)'
        PROVE  WillServe(e, c)'
    <3>1. call[c].kind # "range" => call[c].kind \in Sequenced
      BY <1>1, Types
    <3>2. call[c].pc = "wait" /\ e \in Missing(c)
      BY <1>3, <2>1, <2>5, <3>1 DEF Missing
    <3>3. WillServe(e, c)
      BY Zenon, <1>1, <3>2 DEF TargetInv
    <3> QED BY Zenon, <1>3, <2>1, <3>3 DEF WillServe
  <2> QED BY Zenon, <2>3, <2>4, <2>5 DEF TargetInv
<1>7. \A e \in CPUs : TargetInv(e)'
  BY Zenon, <1>5, <1>6
<1>8. (HandlerInv /\ NumberInv /\ StackInv /\ SeqInv /\ NoRequestSwallowed)'
  BY Zenon, <1>2, <1>7, ByTargetNext
<1> QED BY Zenon, <1>2, <1>4, <1>8 DEF IInv

-----------------------------------------------------------------------------
(* Publishing a task numbers a request that is not acknowledged yet, so its *)
(* stack counts as unseen rightly.                                          *)
LEMMA DeferInv ==
  ASSUME IInv, NEW c \in CPUs, NEW d \in CPUs, DeferKernelMapping(c, d)
  PROVE  IInv'
<1>1. /\ TypeOK /\ HandlerInv /\ NumberInv /\ StackInv /\ SeqInv /\ SlotInv
      /\ NoRequestSwallowed
  BY Zenon DEF IInv
<1>2. TypeOK'
  BY Zenon, <1>1, IdleStepType DEF IdleStep
<1>3. /\ Bump("kernel", {d}) /\ task' = [task EXCEPT ![d] = "unseen"]
      /\ UNCHANGED <<mail, ack, slot, call, handler, stopped, done>>
  BY Zenon DEF DeferKernelMapping, stopVars
<1>4. "kernel" \in Sequenced /\ {d} \in SUBSET CPUs
  BY DEF Sequenced
<1>5. /\ \A k \in Sequenced, e \in CPUs : request[k][e] <= request'[k][e]
      /\ request'["kernel"][d] = request["kernel"][d] + 1
  BY <1>1, <1>3, <1>4, BumpFacts
<1>6. NumberInv'
  BY Zenon, <1>1, <1>2, <1>3, <1>5, GrowingRequests
<1>7. StackInv'
  <2> SUFFICES ASSUME NEW e \in CPUs PROVE StackAt(e)'
    BY Zenon DEF StackInv
  <2>1. /\ ack["kernel"][e] \in Nat /\ request["kernel"][e] \in Nat /\ handler[e].seq \in Nat
        /\ request'["kernel"][e] \in Nat /\ request["kernel"][e] <= request'["kernel"][e]
    BY Zenon, <1>1, <1>2, <1>4, <1>5, Types, TypesNext
  <2>2. CASE e = d
    <3>1. /\ ack["kernel"][d] <= request["kernel"][d]
          /\ Serving(d, "kernel", {"ack"}) => handler[d].seq <= request["kernel"][d]
      BY Zenon, <1>1, <1>4 DEF NumberInv, NumberAt, Serving
    <3>2. /\ ack["kernel"][d] < request'["kernel"][d]
          /\ Serving(d, "kernel", {"ack"}) => handler[d].seq < request'["kernel"][d]
      BY <1>5, <2>1, <2>2, <3>1
    <3>3. task'[d] = "unseen"
      BY <1>1, <1>3 DEF TypeOK
    <3> QED BY <1>3, <2>2, <3>2, <3>3 DEF StackAt, Serving
  <2>3. CASE e # d
    <3>1. task'[e] = task[e]
      BY Zenon, <1>1, <1>3, <2>3 DEF TypeOK
    <3>2. /\ task[e] # "fault"
          /\ task[e] = "unseen" =>
               /\ ack["kernel"][e] < request["kernel"][e]
               /\ Serving(e, "kernel", {"ack"}) => handler[e].seq < request["kernel"][e]
      BY Zenon, <1>1 DEF StackInv, StackAt
    <3>3. /\ task[e] = "unseen" =>
               /\ ack["kernel"][e] < request'["kernel"][e]
               /\ Serving(e, "kernel", {"ack"}) => handler[e].seq < request'["kernel"][e]
      BY <2>1, <3>2
    <3> QED BY Zenon, <1>3, <3>1, <3>2, <3>3 DEF StackAt, Serving
  <2> QED BY Zenon, <2>2, <2>3
<1>8. SeqInv'
  <2> SUFFICES ASSUME NEW e \in CPUs, Numbered(e)', NEW x \in call'[e].remote
               PROVE  Covered(e, x)'
    BY Zenon DEF SeqInv
  <2>1. Covered(e, x) /\ call[e].kind \in Sequenced /\ x \in CPUs
    BY Zenon, <1>1, <1>3, Types DEF SeqInv, Numbered
  <2> QED BY Zenon, <1>1, <1>2, <1>3, <1>5, <2>1, GrowingRequests
<1>9. HandlerInv' /\ SlotInv' /\ NoRequestSwallowed'
  BY Zenon, <1>1, <1>3
  DEF HandlerInv, HandlerAt, SlotInv, NoRequestSwallowed, Missing, WillServe
<1> QED BY Zenon, <1>2, <1>6, <1>7, <1>8, <1>9 DEF IInv

(* The flush of service_deferred_kernel_tlb covers every request numbered   *)
(* so far, so the task runs on a visible stack.                             *)
LEMMA DispatchInv ==
  ASSUME IInv, NEW d \in CPUs, Dispatch(d)
  PROVE  IInv'
<1> DEFINE behind == ack["kernel"][d] < request["kernel"][d]
<1>1. TypeOK /\ SlotInv /\ \A e \in CPUs : TargetInv(e)
  BY Zenon, ByTarget DEF IInv
<1>2. TypeOK'
  BY Zenon, <1>1, IdleStepType DEF IdleStep
<1>3. /\ handler[d].pc = "off" /\ task[d] \in {"unseen", "seen"}
      /\ ack' = [ack EXCEPT !["kernel"][d] = IF behind THEN request["kernel"][d] ELSE @]
      /\ IF behind THEN Credit(d, {"kernel"}) ELSE UNCHANGED done
      /\ task' = [task EXCEPT ![d] = IF behind \/ @ = "seen" THEN "running" ELSE "fault"]
      /\ UNCHANGED <<mail, request, slot, call, handler, stopped>>
  BY Zenon DEF Dispatch, Runs, stopVars
<1>4. "kernel" \in Sequenced
  BY DEF Sequenced
<1>5. /\ \A k \in Sequenced, e \in CPUs :
           ack'[k][e] = IF k = "kernel" /\ e = d /\ behind THEN request[k][e] ELSE ack[k][e]
  BY <1>1, <1>3, <1>4 DEF TypeOK
<1>6. /\ \A c \in CPUs : done[c] \subseteq done'[c]
      /\ behind => \A c \in CPUs : call[c].pc # "idle" /\ call[c].kind = "kernel" => d \in done'[c]
  <2>1. CASE behind
    <3>1. done' = [c \in CPUs |-> IF call[c].pc # "idle" /\ call[c].kind \in {"kernel"}
                                 THEN done[c] \cup {d} ELSE done[c]]
      BY Zenon, <1>3, <2>1 DEF Credit
    <3> QED BY Zenon, <3>1
  <2>2. CASE ~ behind
    BY Zenon, <1>3, <2>2
  <2> QED BY Zenon, <2>1, <2>2
<1> HIDE DEF behind
<1>7. \A e \in CPUs : \A k \in Sequenced : ~ (Serving(e, k, {"flush", "ack"}) /\ e = d)
  BY Zenon, <1>3 DEF Serving
<1>8. ASSUME NEW e \in CPUs
      PROVE  TargetInv(e)'
  <2>1. HandlerAt(e)'
    BY Zenon, <1>1, <1>3 DEF TargetInv, HandlerAt
  <2>2. NumberAt(e)'
    <3>1. ASSUME NEW k \in Sequenced
          PROVE  ack'[k][e] <= request[k][e]
      <4>0. request[k][e] \in Nat
        BY Zenon, <1>1, Types
      <4>1. ack[k][e] <= request[k][e]
        BY Zenon, <1>1 DEF TargetInv, NumberAt
      <4>2. request[k][e] <= request[k][e]
        BY <4>0
      <4> QED BY Zenon, <1>5, <4>1, <4>2
    <3>2. ASSUME NEW k \in Sequenced, Serving(e, k, {"flush", "ack"})
          PROVE  ack'[k][e] <= handler[e].seq /\ handler[e].seq <= request[k][e]
      BY Zenon, <1>1, <1>5, <1>7, <3>2 DEF TargetInv, NumberAt
    <3> QED BY Zenon, <1>3, <3>1, <3>2 DEF NumberAt, Serving
  <2>3. StackAt(e)'
    <3>1. CASE e = d
      <4>1. behind \/ task[d] = "seen"
        BY <1>1, <1>3 DEF TargetInv, StackAt, behind
      <4>2. task'[d] = "running"
        BY <1>1, <1>3, <4>1 DEF TypeOK
      <4> QED BY <3>1, <4>2 DEF StackAt
    <3>2. CASE e # d
      <4>1. task'[e] = task[e] /\ ack'["kernel"][e] = ack["kernel"][e]
        <5>1. task \in [CPUs -> {"none", "unseen", "seen", "running", "fault"}]
          BY Zenon, <1>1 DEF TypeOK
        <5>2. task'[e] = task[e]
          BY Zenon, <1>3, <3>2, <5>1
        <5>3. ack'["kernel"][e] = ack["kernel"][e]
          BY Zenon, <1>4, <1>5, <3>2
        <5> QED BY Zenon, <5>2, <5>3
      <4> QED BY Zenon, <1>1, <1>3, <4>1 DEF TargetInv, StackAt, Serving
    <3> QED BY Zenon, <3>1, <3>2
  <2>4. ASSUME NEW c \in CPUs, Numbered(c)', e \in call'[c].remote
        PROVE  Covered(c, e)'
    <3>1. Covered(c, e) /\ call[c].kind \in Sequenced /\ call[c].pc # "idle"
      BY Zenon, <1>1, <1>3, <2>4 DEF TargetInv, Numbered
    <3>2. CASE call[c].kind = "kernel" /\ e = d /\ behind
      <4>1. e \in done'[c]
        BY Zenon, <1>6, <3>1, <3>2
      <4> QED BY Zenon, <1>3, <3>1, <4>1 DEF Covered
    <3>3. CASE ~ (call[c].kind = "kernel" /\ e = d /\ behind)
      <4>1. ack'[call[c].kind][e] = ack[call[c].kind][e]
        BY Zenon, <1>5, <3>1, <3>3
      <4> QED BY Zenon, <1>3, <1>6, <3>1, <4>1 DEF Covered, Serving
    <3> QED BY Zenon, <3>2, <3>3
  <2>5. ASSUME NEW c \in CPUs, call'[c].pc = "wait", e \in Missing(c)'
        PROVE  WillServe(e, c)'
    <3>1. call[c].kind # "range" => call[c].kind \in Sequenced
      BY <1>1, Types
    <3>2. ASSUME call[c].kind # "range" PROVE ack[call[c].kind][e] < call[c].expected[e]
      <4>1. ack'[call[c].kind][e] < call[c].expected[e]
        BY <1>3, <2>5, <3>2 DEF Missing
      <4>2. /\ ack[call[c].kind][e] \in Nat /\ request[call[c].kind][e] \in Nat
            /\ call[c].expected[e] \in Nat
        BY Zenon, <1>1, <3>1, <3>2, Types
      <4>3. ack[call[c].kind][e] <= request[call[c].kind][e]
        BY Zenon, <1>1, <3>1, <3>2 DEF TargetInv, NumberAt
      <4>4. \/ ack'[call[c].kind][e] = ack[call[c].kind][e]
            \/ ack'[call[c].kind][e] = request[call[c].kind][e]
        BY Zenon, <1>5, <3>1, <3>2
      <4> QED BY <4>1, <4>2, <4>3, <4>4
    <3>3. call[c].pc = "wait" /\ e \in Missing(c)
      BY <1>3, <2>5, <3>2 DEF Missing
    <3>4. WillServe(e, c)
      BY Zenon, <1>1, <3>3 DEF TargetInv
    <3> QED BY Zenon, <1>3, <3>4 DEF WillServe
  <2> QED BY Zenon, <2>1, <2>2, <2>3, <2>4, <2>5 DEF TargetInv
<1>9. SlotInv'
  BY Zenon, <1>1, <1>3 DEF SlotInv
<1>10. (HandlerInv /\ NumberInv /\ StackInv /\ SeqInv /\ NoRequestSwallowed)'
  BY Zenon, <1>2, <1>8, ByTargetNext
<1> QED BY Zenon, <1>2, <1>9, <1>10 DEF IInv

(* The end of a task and the stop of a CPU. *)
LEMMA EndInv ==
  ASSUME IInv, NEW d \in CPUs, TaskEnds(d) \/ StopCpu(d)
  PROVE  IInv'
<1>1. /\ TypeOK /\ HandlerInv /\ NumberInv /\ StackInv /\ SeqInv /\ SlotInv
      /\ NoRequestSwallowed
  BY Zenon DEF IInv
<1>2. TypeOK'
  BY Zenon, <1>1, IdleStepType DEF IdleStep
<1>3. UNCHANGED <<mail, request, ack, slot, call, handler, done>> /\ stopped \subseteq stopped'
  BY Zenon DEF TaskEnds, StopCpu, seqVars, stopVars
<1>4. \A e \in CPUs : task'[e] = task[e] \/ task'[e] = "none"
  BY Zenon, <1>1 DEF TaskEnds, StopCpu, TypeOK
<1>5. StackInv'
  BY <1>1, <1>3, <1>4 DEF StackInv, StackAt, Serving
<1>6. NoRequestSwallowed'
  <2>1. \A c \in CPUs : Missing(c)' \subseteq Missing(c)
    BY Zenon, <1>3 DEF Missing
  <2> QED BY Zenon, <1>1, <1>3, <2>1 DEF NoRequestSwallowed, WillServe
<1>7. HandlerInv' /\ NumberInv' /\ SlotInv'
  BY Zenon, <1>1, <1>3 DEF HandlerInv, HandlerAt, NumberInv, NumberAt, SlotInv, Serving
<1>8. SeqInv'
  BY Zenon, <1>1, <1>3 DEF SeqInv, Numbered, Covered, Serving
<1> QED BY Zenon, <1>2, <1>5, <1>6, <1>7, <1>8 DEF IInv

(* The shutdown by the boot CPU, which makes no request meanwhile. *)
LEMMA ShutdownInv ==
  ASSUME IInv, StopSecondaryCpus \/ StopReturn
  PROVE  IInv'
<1>1. /\ TypeOK /\ HandlerInv /\ NumberInv /\ StackInv /\ SeqInv /\ SlotInv
      /\ NoRequestSwallowed
  BY Zenon DEF IInv
<1>2. TypeOK'
  BY Zenon, <1>1, IdleStepType
<1>3. UNCHANGED <<request, ack, slot, handler, done, stopped, task>>
  BY Zenon DEF StopSecondaryCpus, StopReturn, seqVars, stopVars
<1>4. \A d \in CPUs : mail[d] \subseteq mail'[d]
  <2>1. CASE StopSecondaryCpus
    <3>1. SendIpiMask(CPUs \ (stopped \cup {Boot}), "stop")
      BY Zenon, <2>1 DEF StopSecondaryCpus
    <3> QED BY Zenon, <1>1, <3>1, SendFacts
  <2>2. CASE StopReturn
    BY Zenon, <2>2 DEF StopReturn
  <2> QED BY Zenon, <2>1, <2>2
<1>5. /\ call[Boot].pc \in {"idle", "stopping"} /\ call'[Boot].pc \in {"stopping", "off"}
      /\ \A e \in CPUs \ {Boot} : call'[e] = call[e]
  <2>1. call \in [CPUs -> CallRec] /\ Boot \in CPUs
    BY <1>1, ShootdownAssumption DEF TypeOK, Boot, CPUs
  <2>2. call[Boot] \in CallRec
    BY Zenon, <2>1
  <2>3. call[Boot].pc \in {"idle", "stopping"}
    BY Zenon DEF StopSecondaryCpus, StopReturn, Runs
  <2>4. \E at \in {"stopping", "off"} : call' = [call EXCEPT ![Boot].pc = at]
    BY Zenon DEF StopSecondaryCpus, StopReturn
  <2> QED BY <2>1, <2>2, <2>3, <2>4 DEF CallRec
<1>6. HandlerInv' /\ NumberInv' /\ StackInv'
  BY Zenon, <1>1, <1>3
  DEF HandlerInv, HandlerAt, NumberInv, NumberAt, StackInv, StackAt, Serving
<1>7. SeqInv'
  <2> SUFFICES ASSUME NEW e \in CPUs, Numbered(e)', NEW x \in call'[e].remote
               PROVE  Covered(e, x)'
    BY Zenon DEF SeqInv
  <2>1. call'[e] = call[e]
    BY <1>5 DEF Numbered
  <2>2. Covered(e, x)
    BY Zenon, <1>1, <2>1 DEF SeqInv, Numbered
  <2> QED BY Zenon, <1>3, <2>1, <2>2 DEF Covered, Serving
<1>8. SlotInv'
  <2> SUFFICES ASSUME NEW e \in CPUs
               PROVE  /\ call'[e].pc \in {"payload", "targets"} => call'[e].kind = "range"
                      /\ call'[e].kind = "range" /\ call'[e].pc \in {"send", "wait"}
                           => slot[e].targets = call'[e].remote
                      /\ slot[e].targets # {}
                           => /\ call'[e].kind = "range"
                              /\ call'[e].pc \in {"send", "wait", "failed"}
    BY Zenon, <1>3 DEF SlotInv
  <2>1. CASE e = Boot
    BY <1>1, <1>5, <2>1 DEF SlotInv
  <2>2. CASE e # Boot
    BY Zenon, <1>1, <1>5, <2>2 DEF SlotInv
  <2> QED BY Zenon, <2>1, <2>2
<1>9. NoRequestSwallowed'
  <2> SUFFICES ASSUME NEW e \in CPUs, call'[e].pc = "wait"
               PROVE  \A d \in Missing(e)' : WillServe(d, e)'
    BY Zenon DEF NoRequestSwallowed
  <2>1. call'[e] = call[e]
    BY <1>5
  <2>2. call[e].remote \subseteq CPUs
    BY Zenon, <1>1, Types
  <2> QED BY Zenon, <1>1, <1>3, <1>4, <2>1, <2>2, StillServed
<1> QED BY Zenon, <1>2, <1>6, <1>7, <1>8, <1>9 DEF IInv

(* After boot nothing is requested. *)
LEMMA InitInv == Init => IInv
<1> SUFFICES ASSUME Init PROVE IInv
  OBVIOUS
<1>1. TypeOK
  BY Zenon, InitType
<1>2. \A c \in CPUs : /\ handler[c] = [pc |-> "off", reasons |-> {}, seq |-> 0, slot |-> Boot]
                      /\ call[c].pc = "idle" /\ slot[c].targets = {} /\ task[c] = "none"
  BY DEF Init, Idle
<1>3. \A k \in Sequenced, d \in CPUs : ack[k][d] = 0 /\ request[k][d] = 0
  BY DEF Init, Zero
<1>4. HandlerInv
  BY <1>2 DEF HandlerInv, HandlerAt
<1>5. NumberInv
  BY <1>2, <1>3 DEF NumberInv, NumberAt, Serving
<1>6. StackInv
  BY <1>2 DEF StackInv, StackAt
<1>7. SeqInv /\ SlotInv /\ NoRequestSwallowed
  BY <1>2 DEF SeqInv, Numbered, SlotInv, NoRequestSwallowed
<1> QED BY Zenon, <1>1, <1>4, <1>5, <1>6, <1>7 DEF IInv

(* Every step keeps the invariant. *)
LEMMA NextInv ==
  ASSUME IInv, [Next]_vars
  PROVE  IInv'
<1>1. CASE Next
  BY Zenon, <1>1, CallerInv, HandlerStepInv, DeferInv, DispatchInv, EndInv, ShutdownInv
  DEF Next, IdleStep
<1>2. CASE UNCHANGED vars
  <2>1. /\ UNCHANGED <<kinds, mail, bell, request, ack, slot, call, handler>>
        /\ UNCHANGED <<stopReq, stopped, task, done, made, lost>>
    BY Zenon, <1>2 DEF vars, seqVars, stopVars
  <2>2. TypeOK'
    BY Zenon, <2>1 DEF IInv, TypeOK
  <2>3. HandlerInv' /\ StackInv'
    BY Zenon, <2>1 DEF IInv, HandlerInv, HandlerAt, StackInv, StackAt, Serving
  <2>4. NumberInv'
    BY Zenon, <2>1 DEF IInv, NumberInv, NumberAt, Serving
  <2>5. SeqInv' /\ SlotInv'
    BY Zenon, <2>1 DEF IInv, SeqInv, Numbered, Covered, Serving, SlotInv
  <2>6. NoRequestSwallowed'
    BY Zenon, <2>1 DEF IInv, NoRequestSwallowed, Missing, WillServe
  <2> QED BY Zenon, <2>2, <2>3, <2>4, <2>5, <2>6 DEF IInv
<1> QED BY Zenon, <1>1, <1>2

-----------------------------------------------------------------------------
(* The invariant holds in every reachable state. *)
THEOREM ShootInvariance == Spec => []IInv
BY PTL, InitInv, NextInv DEF Spec

(* Every variable of smp.rs keeps its type; no bound is passed. *)
THEOREM ShootTypeCorrect == Spec => []TypeOK
<1>1. IInv => TypeOK
  BY Zenon DEF IInv
<1> QED BY PTL, <1>1, ShootInvariance

(* No request is swallowed: handle_ipi clears a bit that several callers    *)
(* share before it reads what they ask, and still serves each of them.      *)
THEOREM RequestsServed == Spec => []NoRequestSwallowed
<1>1. IInv => NoRequestSwallowed
  BY Zenon DEF IInv
<1> QED BY PTL, <1>1, ShootInvariance

(* A task published by defer_kernel_mapping never runs on a stack that the  *)
(* TLB of its CPU may not know.                                             *)
THEOREM StackAlwaysVisible == Spec => []StackVisible
<1>1. IInv => StackVisible
  BY Zenon DEF IInv, StackInv, StackAt, StackVisible
<1> QED BY PTL, <1>1, ShootInvariance

(* What a sequenced call is told is true: when nobody is missing, every     *)
(* target performed the operation after the call began, or has stopped.     *)
SequencedAckMeansDone ==
  \A c \in CPUs :
    call[c].pc = "wait" /\ call[c].kind \in Sequenced /\ Missing(c) = {}
      => call[c].remote \subseteq done[c] \cup stopped

LEMMA SequencedDone == IInv => SequencedAckMeansDone
<1> SUFFICES ASSUME IInv, NEW c \in CPUs, call[c].pc = "wait", call[c].kind \in Sequenced,
                    Missing(c) = {}, NEW d \in call[c].remote \ stopped
             PROVE  d \in done[c]
  BY Zenon DEF SequencedAckMeansDone
<1>1. TypeOK /\ Covered(c, d)
  BY Zenon DEF IInv, SeqInv, Numbered
<1>2. d \in CPUs /\ call[c].kind # "range"
  BY <1>1, Types DEF Sequenced
<1>3. ~ (ack[call[c].kind][d] < call[c].expected[d])
  BY <1>2 DEF Missing
<1>4. call[c].expected[d] <= ack[call[c].kind][d]
  BY <1>1, <1>2, <1>3, Types
<1> QED BY Zenon, <1>1, <1>4 DEF Covered

(* The memory barrier, the kernel and the full user flush never report a    *)
(* CPU that did not act, however the requests of several callers share      *)
(* reasons, numbers and handlers.                                           *)
THEOREM SequencedCallsHonest == Spec => []SequencedAckMeansDone
BY PTL, SequencedDone, ShootInvariance

-----------------------------------------------------------------------------
(* The handler of d is between its loads of slot c and the acknowledgement. *)
Inside(d, c) ==
  handler[d].slot = c /\ handler[d].pc \in {"acked", "invalidate", "rangeAck"}

(* A step that claims a slot finds no handler inside it. *)
CleanClaim ==
  \A c \in CPUs, targets \in SUBSET CPUs :
    BeginRange(c, targets) => \A d \in CPUs : ~ Inside(d, c)

(* The ranged flushes reuse no slot that a late handler is still in. Nothing *)
(* in synchronize_user_tlb ensures this when a CPU that was already          *)
(* acknowledged is kicked again.                                             *)
CleanClaims == [][CleanClaim]_vars

Ranged(c) == call[c].kind = "range" /\ call[c].pc \in {"payload", "targets", "send", "wait"}

(* A target acknowledges the ranged call of c, or is about to, only after   *)
(* it invalidated what the call asks for.                                   *)
RangeAt(c) ==
  Ranged(c) =>
    /\ call[c].pc # "payload" => slot[c].payload = made[c]
    /\ slot[c].acked \subseteq done[c]
    /\ \A d \in CPUs : Inside(d, c) =>
         /\ call[c].pc \in {"send", "wait"}
         /\ handler[d].pc = "rangeAck" => d \in done[c]

RangeInv == \A c \in CPUs : RangeAt(c)

(* A step of a caller keeps the invariant of its slot. *)
LEMMA CallerRange ==
  ASSUME IInv, RangeInv, CleanClaim, NEW c \in CPUs, Caller(c)
  PROVE  RangeInv'
<1>1. TypeOK /\ NumberInv /\ SlotInv
  BY Zenon DEF IInv
<1>2. /\ UNCHANGED handler
      /\ \A e \in CPUs \ {c} : /\ call'[e] = call[e] /\ slot'[e] = slot[e]
                               /\ done'[e] = done[e] /\ made'[e] = made[e]
  BY Zenon, <1>1, CallerEffect
<1>3. /\ call \in [CPUs -> CallRec] /\ call[c] \in CallRec
      /\ slot \in [CPUs -> SlotRec] /\ slot[c] \in SlotRec
  BY Zenon, <1>1 DEF TypeOK
<1>4. RangeAt(c)
  BY Zenon DEF RangeInv
<1>5. RangeAt(c)'
  <2>1. ASSUME NEW k \in Sequenced, NEW targets \in SUBSET CPUs, Begin(c, k, targets)
        PROVE  ~ Ranged(c)'
    <3>1. call'[c].kind = k
      BY Zenon, <1>1, <2>1, BeginCovered
    <3> QED BY <3>1 DEF Ranged, Sequenced
  <2>2. ASSUME NEW targets \in SUBSET CPUs, BeginRange(c, targets)
        PROVE  RangeAt(c)'
    <3>1. call'[c].pc = "payload"
      BY <1>3, <2>2 DEF BeginRange
    <3>2. slot'[c].acked = {}
      BY <1>3, <2>2 DEF BeginRange, SlotRec
    <3>3. \A d \in CPUs : ~ Inside(d, c)
      BY Zenon, <2>2 DEF CleanClaim
    <3>4. \A d \in CPUs : ~ Inside(d, c)'
      BY Zenon, <1>2, <3>3 DEF Inside
    <3> QED BY Zenon, <3>1, <3>2, <3>4 DEF RangeAt
  <2>3. CASE PublishPayload(c) \/ PublishTargets(c)
    <3>1. call[c].pc \in {"payload", "targets"} /\ UNCHANGED <<done, made>>
      BY Zenon, <2>3 DEF PublishPayload, PublishTargets, Runs
    <3>2. Ranged(c)
      BY Zenon, <1>1, <3>1 DEF Ranged, SlotInv
    <3>3. \A d \in CPUs : ~ Inside(d, c)
      BY <1>4, <3>1, <3>2 DEF RangeAt
    <3>4. \A d \in CPUs : ~ Inside(d, c)'
      BY Zenon, <1>2, <3>3 DEF Inside
    <3>5. slot'[c].acked = slot[c].acked /\ slot'[c].payload = made[c]
      <4>1. CASE PublishPayload(c)
        BY <1>3, <4>1 DEF PublishPayload, SlotRec
      <4>2. CASE PublishTargets(c)
        <5>1. slot[c].payload = made[c]
          BY <1>4, <3>2, <4>2 DEF RangeAt, PublishTargets, Runs
        <5> QED BY <1>3, <4>2, <5>1 DEF PublishTargets, SlotRec
      <4> QED BY Zenon, <2>3, <4>1, <4>2
    <3>6. slot[c].acked \subseteq done[c]
      BY Zenon, <1>4, <3>2 DEF RangeAt
    <3> QED BY Zenon, <3>1, <3>4, <3>5, <3>6 DEF RangeAt
  <2>4. CASE Send(c)
    <3>1. /\ call[c].pc = "send" /\ call'[c].pc = "wait" /\ call'[c].kind = call[c].kind
          /\ UNCHANGED <<slot, done, made>>
      BY <1>3, <2>4 DEF Send, Runs, CallRec
    <3> QED BY <1>2, <1>4, <3>1 DEF RangeAt, Ranged, Inside
  <2>5. CASE Kick(c)
    BY Zenon, <1>2, <1>4, <2>5 DEF RangeAt, Ranged, Inside, Kick
  <2>6. CASE Return(c) \/ Timeout(c)
    <3>1. CASE Return(c)
      BY <1>3, <3>1 DEF Return, Idle, RangeAt, Ranged
    <3>2. CASE Timeout(c)
      <4>1. CASE call[c].kind = "barrier"
        BY <1>3, <3>2, <4>1 DEF Timeout, Idle, RangeAt, Ranged
      <4>2. CASE call[c].kind # "barrier"
        BY <1>3, <3>2, <4>2 DEF Timeout, CallRec, RangeAt, Ranged
      <4> QED BY Zenon, <4>1, <4>2
    <3> QED BY Zenon, <2>6, <3>1, <3>2
  <2> QED
    BY Zenon, <2>1, <2>2, <2>3, <2>4, <2>5, <2>6, CallerCases DEF RangeAt
<1>6. ASSUME NEW e \in CPUs \ {c}
      PROVE  RangeAt(e)'
  BY Zenon, <1>2, <1>6 DEF RangeInv, RangeAt, Ranged, Inside
<1> QED BY Zenon, <1>5, <1>6 DEF RangeInv

(* Where the handler of d stands after a step of it. *)
LEMMA InsideStep ==
  ASSUME IInv, NEW d \in CPUs, Handler(d), NEW c \in CPUs, Inside(d, c)'
  PROVE  \/ d \in slot[c].targets /\ handler'[d].pc = "acked"
         \/ Inside(d, c) /\ handler'[d].pc = "invalidate"
         \/ Inside(d, c) /\ Invalidate(d)
<1>1. handler \in [CPUs -> HandlerRec] /\ handler[d] \in HandlerRec
  BY Zenon DEF IInv, TypeOK
<1>2. PastSlot(handler[d]).pc = "scan"
  BY Zenon, <1>1, PastSlotFacts
<1>3. handler'[d].slot = c /\ handler'[d].pc \in {"acked", "invalidate", "rangeAck"}
  BY Zenon DEF Inside
<1>4. ~ HandleIpi(d) /\ ~ HandlerReturn(d) /\ ~ RangeAck(d)
  BY <1>1, <1>2, <1>3 DEF HandleIpi, HandlerReturn, RangeAck, HandlerRec
<1>5. ASSUME NEW k \in Sequenced, Snapshot(d, k) \/ Flush(d, k) \/ Ack(d, k)
      PROVE  FALSE
  BY <1>1, <1>3, <1>5 DEF Snapshot, Flush, Ack, HandlerRec
<1>6. CASE ServiceTargets(d)
  <2>1. d \in slot[handler[d].slot].targets /\ handler'[d] = [handler[d] EXCEPT !.pc = "acked"]
    BY Zenon, <1>1, <1>2, <1>3, <1>6 DEF ServiceTargets
  <2> QED BY <1>1, <1>3, <2>1 DEF HandlerRec
<1>7. CASE ServiceAcked(d)
  <2>1. /\ handler[d].pc = "acked" /\ handler'[d] = [handler[d] EXCEPT !.pc = "invalidate"]
    BY Zenon, <1>1, <1>2, <1>3, <1>7 DEF ServiceAcked
  <2> QED BY <1>1, <1>3, <2>1 DEF HandlerRec, Inside
<1>8. CASE Invalidate(d)
  <2>1. handler[d].pc = "invalidate" /\ handler'[d].slot = handler[d].slot
    BY <1>1, <1>8 DEF Invalidate, HandlerRec
  <2> QED BY <1>3, <1>8, <2>1 DEF Inside
<1> QED BY Zenon, <1>4, <1>5, <1>6, <1>7, <1>8 DEF Handler

(* A step of a handler keeps the invariant of the slots. *)
LEMMA HandlerRange ==
  ASSUME IInv, RangeInv, NEW d \in CPUs, Handler(d)
  PROVE  RangeInv'
<1>1. TypeOK /\ SlotInv
  BY Zenon DEF IInv
<1>2. /\ UNCHANGED <<call, made>>
      /\ \A e \in CPUs \ {d} : handler'[e] = handler[e]
      /\ \A c \in CPUs : /\ slot'[c].payload = slot[c].payload
                         /\ slot'[c].acked \subseteq slot[c].acked \cup {d}
                         /\ done[c] \subseteq done'[c]
  BY Zenon, <1>1, HandlerEffect
<1> SUFFICES ASSUME NEW c \in CPUs, Ranged(c)'
             PROVE  /\ call'[c].pc # "payload" => slot'[c].payload = made'[c]
                    /\ slot'[c].acked \subseteq done'[c]
                    /\ \A e \in CPUs : Inside(e, c)' =>
                         /\ call'[c].pc \in {"send", "wait"}
                         /\ handler'[e].pc = "rangeAck" => e \in done'[c]
  BY Zenon DEF RangeInv, RangeAt
<1>3. Ranged(c)
  BY Zenon, <1>2 DEF Ranged
<1>4. /\ call[c].pc # "payload" => slot[c].payload = made[c]
      /\ slot[c].acked \subseteq done[c]
      /\ \A e \in CPUs : Inside(e, c) =>
           /\ call[c].pc \in {"send", "wait"}
           /\ handler[e].pc = "rangeAck" => e \in done[c]
  BY Zenon, <1>3 DEF RangeInv, RangeAt
<1>5. slot'[c].acked \subseteq done'[c]
  <2>1. CASE slot'[c].acked \subseteq slot[c].acked
    BY Zenon, <1>2, <1>4, <2>1
  <2>2. CASE ~ (slot'[c].acked \subseteq slot[c].acked)
    <3>1. RangeAck(d)
      BY Zenon, <2>2
      DEF Handler, HandleIpi, Snapshot, Flush, Ack, ServiceTargets, ServiceAcked, Invalidate,
          HandlerReturn
    <3>2. handler[d].pc = "rangeAck" /\ handler[d].slot = c
      <4>1. slot' = [slot EXCEPT ![handler[d].slot].acked = @ \cup {d}]
        BY Zenon, <3>1 DEF RangeAck
      <4>2. handler[d].slot # c => slot'[c] = slot[c]
        BY Zenon, <1>1, <4>1 DEF TypeOK
      <4> QED BY Zenon, <2>2, <3>1, <4>2 DEF RangeAck
    <3>3. d \in done[c]
      BY <1>4, <3>2 DEF Inside
    <3> QED BY Zenon, <1>2, <1>4, <3>3
  <2> QED BY Zenon, <2>1, <2>2
<1>6. ASSUME NEW e \in CPUs \ {d}, Inside(e, c)'
      PROVE  /\ call'[c].pc \in {"send", "wait"}
             /\ handler'[e].pc = "rangeAck" => e \in done'[c]
  <2>1. Inside(e, c) /\ handler'[e] = handler[e]
    BY Zenon, <1>2, <1>6 DEF Inside
  <2> QED BY Zenon, <1>2, <1>4, <2>1
<1>7. ASSUME Inside(d, c)'
      PROVE  /\ call'[c].pc \in {"send", "wait"}
             /\ handler'[d].pc = "rangeAck" => d \in done'[c]
  <2>1. CASE d \in slot[c].targets /\ handler'[d].pc = "acked"
    <3>1. call[c].pc \in {"send", "wait", "failed"}
      BY Zenon, <1>1, <2>1 DEF SlotInv
    <3> QED BY <1>2, <1>3, <2>1, <3>1 DEF Ranged
  <2>2. CASE Inside(d, c) /\ handler'[d].pc = "invalidate"
    BY <1>2, <1>4, <2>2
  <2>3. CASE Inside(d, c) /\ Invalidate(d)
    <3>1. call[c].pc \in {"send", "wait"} /\ slot[c].payload = made[c] /\ handler[d].slot = c
      BY <1>4, <2>3 DEF Inside
    <3>2. done' = [done EXCEPT ![c] = @ \cup {d}]
      BY <2>3, <3>1 DEF Invalidate
    <3>3. d \in done'[c]
      BY <1>1, <3>2 DEF TypeOK
    <3> QED BY Zenon, <1>2, <3>1, <3>3
  <2> QED BY Zenon, <1>7, <2>1, <2>2, <2>3, InsideStep
<1> QED BY Zenon, <1>2, <1>4, <1>5, <1>6, <1>7

(* A step that leaves the handlers and the ranged calls alone. *)
LEMMA OtherRange ==
  ASSUME IInv, RangeInv, UNCHANGED <<handler, slot>>,
         \A c \in CPUs : Ranged(c)' => /\ call'[c] = call[c] /\ made'[c] = made[c]
                                       /\ done[c] \subseteq done'[c]
  PROVE  RangeInv'
<1> SUFFICES ASSUME NEW c \in CPUs, Ranged(c)'
             PROVE  RangeAt(c)'
  BY Zenon DEF RangeInv, RangeAt
<1>1. call'[c] = call[c] /\ made'[c] = made[c] /\ done[c] \subseteq done'[c]
  OBVIOUS
<1>2. Ranged(c) /\ RangeAt(c)
  BY Zenon, <1>1 DEF Ranged, RangeInv
<1> QED BY Zenon, <1>1, <1>2 DEF RangeAt, Inside

LEMMA RangeNext ==
  ASSUME IInv, RangeInv, [Next]_vars, [CleanClaim]_vars
  PROVE  RangeInv'
<1>1. CASE UNCHANGED vars
  BY Zenon, <1>1 DEF vars, RangeInv, RangeAt, Ranged, Inside
<1>2. CASE Next /\ CleanClaim
  <2>0. /\ call \in [CPUs -> CallRec] /\ made \in [CPUs -> Nat]
        /\ done \in [CPUs -> SUBSET CPUs]
    BY Zenon DEF IInv, TypeOK
  <2>1. ASSUME NEW c \in CPUs, Caller(c)
        PROVE  RangeInv'
    BY Zenon, <1>2, <2>1, CallerRange
  <2>2. ASSUME NEW d \in CPUs, Handler(d)
        PROVE  RangeInv'
    BY Zenon, <2>2, HandlerRange
  <2>3. ASSUME NEW c \in CPUs, NEW d \in CPUs, DeferKernelMapping(c, d)
        PROVE  RangeInv'
    <3>1. /\ UNCHANGED <<handler, slot, call, done>> /\ call[c].pc = "idle"
          /\ made' = [made EXCEPT ![c] = @ + 1]
      BY Zenon, <2>3 DEF DeferKernelMapping, Runs
    <3>2. \A e \in CPUs : Ranged(e)' => e # c
      BY <3>1 DEF Ranged
    <3> QED BY Zenon, <2>0, <3>1, <3>2, OtherRange
  <2>4. ASSUME NEW d \in CPUs, Dispatch(d)
        PROVE  RangeInv'
    <3>1. UNCHANGED <<handler, slot, call, made>>
      BY Zenon, <2>4 DEF Dispatch
    <3>2. \A c \in CPUs : done[c] \subseteq done'[c]
      <4>1. CASE UNCHANGED done
        BY Zenon, <4>1
      <4>2. CASE Credit(d, {"kernel"})
        BY Zenon, <4>2 DEF Credit
      <4> QED BY Zenon, <2>4, <4>1, <4>2 DEF Dispatch
    <3> QED BY Zenon, <3>1, <3>2, OtherRange
  <2>5. ASSUME NEW d \in CPUs, TaskEnds(d) \/ StopCpu(d)
        PROVE  RangeInv'
    <3>1. UNCHANGED <<handler, slot, call, made, done>>
      BY Zenon, <2>5 DEF TaskEnds, StopCpu
    <3> QED BY Zenon, <3>1, OtherRange
  <2>6. CASE StopSecondaryCpus \/ StopReturn
    <3>0. Boot \in CPUs
      BY ShootdownAssumption DEF Boot, CPUs
    <3>1. /\ UNCHANGED <<handler, slot, done>>
          /\ \A c \in CPUs \ {Boot} : call'[c] = call[c] /\ made'[c] = made[c]
      BY Zenon, <2>0, <2>6 DEF StopSecondaryCpus, StopReturn
    <3>2. call'[Boot].pc \in {"stopping", "off"}
      <4>1. call[Boot] \in CallRec
        BY Zenon, <2>0, <3>0
      <4>2. CASE StopSecondaryCpus
        BY <2>0, <3>0, <4>1, <4>2 DEF StopSecondaryCpus, CallRec
      <4>3. CASE StopReturn
        BY <2>0, <3>0, <4>1, <4>3 DEF StopReturn, CallRec
      <4> QED BY Zenon, <2>6, <4>2, <4>3
    <3>3. ~ Ranged(Boot)'
      BY <3>2 DEF Ranged
    <3> QED BY Zenon, <3>1, <3>3, OtherRange
  <2> QED BY Zenon, <1>2, <2>1, <2>2, <2>3, <2>4, <2>5, <2>6 DEF Next, IdleStep
<1> QED BY Zenon, <1>1, <1>2

(* What every call is told is true while no slot is claimed too early. *)
LEMMA RangedDone == IInv /\ RangeInv => AckMeansDone
<1> SUFFICES ASSUME IInv, RangeInv, NEW c \in CPUs, call[c].pc = "wait", Missing(c) = {}
             PROVE  call[c].remote \subseteq done[c] \cup stopped
  BY Zenon DEF AckMeansDone
<1>1. CASE call[c].kind \in Sequenced
  BY Zenon, <1>1, SequencedDone DEF SequencedAckMeansDone
<1>2. CASE call[c].kind = "range"
  <2>1. Ranged(c) /\ RangeAt(c)
    BY <1>2 DEF Ranged, RangeInv
  <2>2. slot[c].acked \subseteq done[c]
    BY Zenon, <2>1 DEF RangeAt
  <2>3. call[c].remote \ stopped \subseteq slot[c].acked
    BY <1>2 DEF Missing
  <2> QED BY Zenon, <2>2, <2>3
<1>3. call[c].kind \in Sequenced \cup {"range"}
  <2>1. call[c] \in CallRec
    BY Zenon DEF IInv, TypeOK
  <2> QED BY <2>1 DEF CallRec
<1> QED BY Zenon, <1>1, <1>2, <1>3

LEMMA RangeInit == ASSUME Init PROVE RangeInv
<1>1. \A c \in CPUs : call[c].pc = "idle"
  BY DEF Init, Idle
<1> QED BY <1>1 DEF RangeInv, RangeAt, Ranged

(* With every slot claimed clean, a target of synchronize_user_tlb_range    *)
(* acknowledges only what it has invalidated, in every reachable state.     *)
LEMMA RangeInvariance == Spec /\ CleanClaims => []RangeInv
<1>1. IInv /\ RangeInv /\ [Next]_vars /\ [CleanClaim]_vars => RangeInv'
  BY Zenon, RangeNext
<1>2. Init => RangeInv
  BY Zenon, RangeInit
<1> QED BY PTL, <1>1, <1>2, ShootInvariance DEF Spec, CleanClaims

(* The caller of synchronize_memory, synchronize_kernel_mapping_all or      *)
(* synchronize_user_tlb may release what it unmapped: when nobody is        *)
(* missing, every live target has performed the operation since the call    *)
(* began. For a ranged call this rests on the slot being claimed clean.     *)
LEMMA CallsHonest == Spec /\ CleanClaims => []AckMeansDone
BY PTL, RangedDone, ShootInvariance, RangeInvariance

-----------------------------------------------------------------------------
(* The steps of smp.rs as steps of the promise. *)
Waits(c) == call[c].pc \in {"payload", "targets", "send", "wait"}

Owed(c) == IF Waits(c) THEN call[c].remote \ done[c] ELSE {}

LEMMA BusyWaits == \A c \in CPUs : c \in Busy <=> Waits(c)
BY Zenon DEF Busy, Waits

LEMMA BusyWaitsNext == \A c \in CPUs : c \in Busy' <=> Waits(c)'
BY Zenon DEF Busy, Waits

LEMMA OwedMap ==
  /\ [c \in CPUs |-> IF c \in Busy THEN call[c].remote \ done[c] ELSE {}] = [c \in CPUs |-> Owed(c)]
  /\ [c \in CPUs |-> IF c \in Busy' THEN call'[c].remote \ done'[c] ELSE {}] = [c \in CPUs |-> Owed(c)']
BY BusyWaits, BusyWaitsNext DEF Owed

(* A step that the promise does not see. *)
LEMMA StutterMap ==
  ASSUME UNCHANGED stopped,
         \A c \in CPUs : /\ Waits(c)' <=> Waits(c)
                         /\ Owed(c)' = Owed(c)
                         /\ call'[c].result = call[c].result
  PROVE  UNCHANGED Promise!vars
<1>1. Busy' = Busy
  BY Zenon DEF Busy, Waits
<1>2. [c \in CPUs |-> Owed(c)'] = [c \in CPUs |-> Owed(c)]
  OBVIOUS
<1>3. [c \in CPUs |-> call'[c].result] = [c \in CPUs |-> call[c].result]
  OBVIOUS
<1> QED BY Zenon, <1>1, <1>2, <1>3, OwedMap DEF Promise!vars

(* A step of one CPU that moves nothing but its own call. *)
LEMMA OwnStep ==
  ASSUME NEW c \in CPUs, NEW owes, NEW res, Owed(c)' = owes, call'[c].result = res,
         \A e \in CPUs \ {c} : Owed(e)' = Owed(e) /\ call'[e].result = call[e].result
  PROVE  /\ [e \in CPUs |-> Owed(e)'] = [[e \in CPUs |-> Owed(e)] EXCEPT ![c] = owes]
         /\ [e \in CPUs |-> call'[e].result]
              = [[e \in CPUs |-> call[e].result] EXCEPT ![c] = res]
BY Zenon

LEMMA CallMap ==
  ASSUME NEW c \in CPUs, NEW targets \in SUBSET (CPUs \ {c}), ~ Waits(c), Waits(c)',
         Owed(c)' = targets, call'[c].result = "none", UNCHANGED stopped,
         \A e \in CPUs \ {c} : /\ Owed(e)' = Owed(e) /\ call'[e].result = call[e].result
                               /\ Waits(e)' <=> Waits(e)
  PROVE  Promise!Next
<1>1. c \notin Busy /\ Busy' = Busy \cup {c}
  BY Zenon DEF Busy, Waits
<1>2. /\ [e \in CPUs |-> Owed(e)'] = [[e \in CPUs |-> Owed(e)] EXCEPT ![c] = targets]
      /\ [e \in CPUs |-> call'[e].result]
           = [[e \in CPUs |-> call[e].result] EXCEPT ![c] = "none"]
  BY Zenon, OwnStep
<1>3. Promise!Call(c, targets)
  BY Zenon, <1>1, <1>2, OwedMap DEF Promise!Call
<1> QED BY Zenon, <1>3 DEF Promise!Next

LEMMA EndMap ==
  ASSUME NEW c \in CPUs, NEW res, Waits(c), ~ Waits(c)', call'[c].result = res, UNCHANGED stopped,
         res = "timeout" \/ (res = "ok" /\ Owed(c) \subseteq stopped),
         \A e \in CPUs \ {c} : /\ Owed(e)' = Owed(e) /\ call'[e].result = call[e].result
                               /\ Waits(e)' <=> Waits(e)
  PROVE  Promise!Next
<1>1. c \in Busy /\ Busy' = Busy \ {c}
  BY Zenon DEF Busy, Waits
<1>2. Owed(c)' = {}
  BY Zenon DEF Owed
<1>3. /\ [e \in CPUs |-> Owed(e)'] = [[e \in CPUs |-> Owed(e)] EXCEPT ![c] = {}]
      /\ [e \in CPUs |-> call'[e].result]
           = [[e \in CPUs |-> call[e].result] EXCEPT ![c] = res]
  BY Zenon, <1>2, OwnStep
<1>4. [e \in CPUs |-> Owed(e)][c] = Owed(c)
  BY Zenon
<1>5. CASE res = "timeout"
  <2>1. Promise!Fail(c)
    BY Zenon, <1>1, <1>3, <1>5, OwedMap DEF Promise!Fail
  <2> QED BY Zenon, <2>1 DEF Promise!Next
<1>6. CASE res = "ok" /\ Owed(c) \subseteq stopped
  <2>1. Promise!Return(c)
    BY Zenon, <1>1, <1>3, <1>4, <1>6, OwedMap DEF Promise!Return
  <2> QED BY Zenon, <2>1 DEF Promise!Next
<1> QED BY Zenon, <1>5, <1>6

(* An operation of CPU d serves the calls that it is credited to. *)
LEMMA PerformMap ==
  ASSUME NEW d \in CPUs, UNCHANGED <<call, stopped>>,
         \A c \in CPUs : done'[c] = done[c] \/ done'[c] = done[c] \cup {d}
  PROVE  Promise!Next
<1>0. PICK served \in SUBSET CPUs : served = {c \in CPUs : d \in done'[c]}
  BY Zenon
<1>1. Busy' = Busy
  BY Zenon DEF Busy
<1>2. ASSUME NEW c \in CPUs
      PROVE  Owed(c)' = IF c \in served THEN Owed(c) \ {d} ELSE Owed(c)
  <2>1. Waits(c)' <=> Waits(c)
    BY Zenon DEF Waits
  <2>2. CASE Waits(c)
    <3>1. Owed(c) = call[c].remote \ done[c] /\ Owed(c)' = call[c].remote \ done'[c]
      BY Zenon, <2>1, <2>2 DEF Owed
    <3>2. CASE d \in done'[c]
      BY <1>0, <3>1, <3>2
    <3>3. CASE d \notin done'[c]
      <4>1. done'[c] = done[c]
        BY <3>3
      <4> QED BY Zenon, <1>0, <3>1, <3>3, <4>1
    <3> QED BY Zenon, <3>2, <3>3
  <2>3. CASE ~ Waits(c)
    <3>1. Owed(c) = {} /\ Owed(c)' = {}
      BY Zenon, <2>1, <2>3 DEF Owed
    <3> QED BY <3>1
  <2> QED BY Zenon, <2>2, <2>3
<1>3. [c \in CPUs |-> Owed(c)']
        = [c \in CPUs |-> IF c \in served THEN [e \in CPUs |-> Owed(e)][c] \ {d}
                          ELSE [e \in CPUs |-> Owed(e)][c]]
  BY <1>2
<1>4. Promise!Perform(d, served)
  BY Zenon, <1>1, <1>3, OwedMap DEF Promise!Perform
<1> QED BY Zenon, <1>4 DEF Promise!Next

LEMMA CallerMap ==
  ASSUME IInv, AckMeansDone, NEW c \in CPUs, Caller(c)
  PROVE  Promise!Next \/ UNCHANGED Promise!vars
<1>1. TypeOK
  BY Zenon DEF IInv
<1>2. /\ UNCHANGED stopped
      /\ \A e \in CPUs \ {c} : /\ Owed(e)' = Owed(e) /\ call'[e].result = call[e].result
                               /\ Waits(e)' <=> Waits(e)
  <2>1. /\ UNCHANGED stopped
        /\ \A e \in CPUs \ {c} : call'[e] = call[e] /\ done'[e] = done[e]
    BY Zenon, <1>1, CallerEffect
  <2> QED BY Zenon, <2>1 DEF Owed, Waits
<1>3. /\ call \in [CPUs -> CallRec] /\ call[c] \in CallRec /\ call[c].remote \in SUBSET CPUs
      /\ done \in [CPUs -> SUBSET CPUs]
  <2>1. call \in [CPUs -> CallRec] /\ call[c] \in CallRec /\ done \in [CPUs -> SUBSET CPUs]
    BY Zenon, <1>1 DEF TypeOK
  <2> QED BY <2>1 DEF CallRec
<1>4. ASSUME NEW targets \in SUBSET CPUs,
             BeginRange(c, targets) \/ \E k \in Sequenced : Begin(c, k, targets)
      PROVE  Promise!Next
  <2> DEFINE remote == targets \ (stopped \cup {c})
  <2>1. /\ call[c].pc = "idle" /\ call'[c].pc \in {"payload", "send"}
        /\ call'[c].remote = remote /\ call'[c].result = "none"
    <3>1. CASE BeginRange(c, targets)
      BY <1>3, <3>1 DEF BeginRange, Runs
    <3>2. ASSUME NEW k \in Sequenced, Begin(c, k, targets)
          PROVE  /\ call[c].pc = "idle" /\ call'[c].pc \in {"payload", "send"}
                 /\ call'[c].remote = remote /\ call'[c].result = "none"
      BY <1>3, <3>2 DEF Begin, Runs
    <3> QED BY Zenon, <1>4, <3>1, <3>2
  <2>2. done'[c] = {}
    BY Zenon, <1>3, <1>4 DEF BeginRange, Begin, Enter
  <2>3. ~ Waits(c) /\ Waits(c)'
    BY <2>1 DEF Waits
  <2>4. Owed(c)' = remote
    <3>1. Owed(c)' = remote \ {}
      BY Zenon, <2>1, <2>2, <2>3 DEF Owed
    <3> QED BY <3>1
  <2>5. remote \in SUBSET (CPUs \ {c})
    BY Zenon
  <2> HIDE DEF remote
  <2> QED BY Zenon, <1>2, <2>1, <2>3, <2>4, <2>5, CallMap
<1>5. CASE PublishPayload(c) \/ PublishTargets(c) \/ Send(c) \/ Kick(c)
  <2>1. /\ call[c].pc \in {"payload", "targets", "send", "wait"}
        /\ call'[c].pc \in {"payload", "targets", "send", "wait"}
        /\ call'[c].remote = call[c].remote /\ call'[c].result = call[c].result
    <3>1. CASE PublishPayload(c)
      BY <1>3, <3>1 DEF PublishPayload, Runs, CallRec
    <3>2. CASE PublishTargets(c)
      BY <1>3, <3>2 DEF PublishTargets, Runs, CallRec
    <3>3. CASE Send(c)
      BY <1>3, <3>3 DEF Send, Runs, CallRec
    <3>4. CASE Kick(c)
      BY <3>4 DEF Kick, Runs
    <3> QED BY Zenon, <1>5, <3>1, <3>2, <3>3, <3>4
  <2>2. UNCHANGED done
    BY Zenon, <1>5 DEF PublishPayload, PublishTargets, Send, Kick
  <2>3. Waits(c) /\ Waits(c)' /\ Owed(c)' = Owed(c)
    BY Zenon, <2>1, <2>2 DEF Waits, Owed
  <2> QED BY Zenon, <1>2, <2>1, <2>3, StutterMap
<1>6. CASE Return(c)
  <2>1. call[c].pc = "wait" /\ Missing(c) = {} /\ call' = [call EXCEPT ![c] = [Idle EXCEPT !.result = "ok"]]
    BY Zenon, <1>6 DEF Return, Runs
  <2>2. call'[c].pc = "idle" /\ call'[c].result = "ok"
    BY <1>3, <2>1 DEF Idle
  <2>3. Waits(c) /\ ~ Waits(c)'
    BY <2>1, <2>2 DEF Waits
  <2>4. Owed(c) \subseteq stopped
    BY Zenon, <2>1, <2>3 DEF AckMeansDone, Owed
  <2> QED BY Zenon, <1>2, <2>2, <2>3, <2>4, EndMap
<1>7. CASE Timeout(c)
  <2>1. call[c].pc = "wait" /\ call'[c].pc \in {"idle", "failed"} /\ call'[c].result = "timeout"
    <3>1. CASE call[c].kind = "barrier"
      BY <1>3, <1>7, <3>1 DEF Timeout, Runs, Idle
    <3>2. CASE call[c].kind # "barrier"
      BY <1>3, <1>7, <3>2 DEF Timeout, Runs, CallRec
    <3> QED BY Zenon, <3>1, <3>2
  <2>2. Waits(c) /\ ~ Waits(c)'
    BY <2>1 DEF Waits
  <2> QED BY Zenon, <1>2, <2>1, <2>2, EndMap
<1> QED BY Zenon, <1>4, <1>5, <1>6, <1>7, CallerCases

LEMMA HandlerMap ==
  ASSUME IInv, NEW d \in CPUs, Handler(d)
  PROVE  Promise!Next
<1>1. TypeOK
  BY Zenon DEF IInv
<1>2. UNCHANGED <<call, stopped>>
  BY Zenon, <1>1, HandlerEffect
<1>3. \A c \in CPUs : done'[c] = done[c] \/ done'[c] = done[c] \cup {d}
  <2>1. CASE UNCHANGED done
    BY Zenon, <2>1
  <2>2. ASSUME NEW what, Credit(d, what)
        PROVE  \A c \in CPUs : done'[c] = done[c] \/ done'[c] = done[c] \cup {d}
    BY Zenon, <2>2 DEF Credit
  <2>3. CASE Invalidate(d)
    <3>1. CASE done' = [done EXCEPT ![handler[d].slot] = @ \cup {d}]
      <4>0. done \in [CPUs -> SUBSET CPUs]
        BY Zenon, <1>1 DEF TypeOK
      <4>1. ASSUME NEW c \in CPUs
            PROVE  done'[c] = done[c] \/ done'[c] = done[c] \cup {d}
        BY Zenon, <3>1, <4>0
      <4> QED BY Zenon, <4>1
    <3> QED BY Zenon, <2>1, <2>3, <3>1 DEF Invalidate
  <2> QED
    BY Zenon, <2>1, <2>2, <2>3
    DEF Handler, HandleIpi, Snapshot, Flush, Accomplish, Ack, ServiceTargets, ServiceAcked,
        RangeAck, HandlerReturn
<1> QED BY Zenon, <1>2, <1>3, PerformMap

LEMMA IdleMap ==
  ASSUME IInv, (\E d \in CPUs : IdleStep(d)) \/ StopSecondaryCpus \/ StopReturn
  PROVE  Promise!Next \/ UNCHANGED Promise!vars
<1>0. call \in [CPUs -> CallRec]
  BY Zenon DEF IInv, TypeOK
<1>1. ASSUME NEW c \in CPUs, NEW d \in CPUs, DeferKernelMapping(c, d) \/ TaskEnds(d)
      PROVE  UNCHANGED Promise!vars
  <2>1. UNCHANGED <<call, done, stopped>>
    BY Zenon, <1>1 DEF DeferKernelMapping, TaskEnds, stopVars
  <2> QED BY Zenon, <2>1, StutterMap DEF Owed, Waits
<1>2. ASSUME NEW d \in CPUs, Dispatch(d)
      PROVE  Promise!Next
  <2>1. UNCHANGED <<call, stopped>>
    BY Zenon, <1>2 DEF Dispatch, stopVars
  <2>2. \A c \in CPUs : done'[c] = done[c] \/ done'[c] = done[c] \cup {d}
    <3>1. CASE UNCHANGED done
      BY Zenon, <3>1
    <3>2. CASE Credit(d, {"kernel"})
      BY Zenon, <3>2 DEF Credit
    <3> QED BY Zenon, <1>2, <3>1, <3>2 DEF Dispatch
  <2> QED BY Zenon, <2>1, <2>2, PerformMap
<1>3. ASSUME NEW d \in CPUs, StopCpu(d)
      PROVE  Promise!Next
  <2>1. UNCHANGED <<call, done>> /\ stopped' = stopped \cup {d}
    BY Zenon, <1>3 DEF StopCpu
  <2>2. Busy' = Busy
    BY Zenon, <2>1 DEF Busy
  <2>3. Promise!Stop(d)
    BY Zenon, <2>1, <2>2 DEF Promise!Stop
  <2> QED BY Zenon, <2>3 DEF Promise!Next
<1>4. CASE StopSecondaryCpus \/ StopReturn
  <2>0. Boot \in CPUs
    BY ShootdownAssumption DEF Boot, CPUs
  <2>1. /\ UNCHANGED <<done, stopped>>
        /\ \A c \in CPUs \ {Boot} : call'[c] = call[c]
    BY Zenon, <1>0, <1>4 DEF StopSecondaryCpus, StopReturn, stopVars
  <2>2. /\ call[Boot].pc \in {"idle", "stopping"} /\ call'[Boot].pc \in {"stopping", "off"}
        /\ call'[Boot].result = call[Boot].result
    <3>1. call[Boot] \in CallRec
      BY Zenon, <1>0, <2>0
    <3>2. CASE StopSecondaryCpus
      BY <1>0, <2>0, <3>1, <3>2 DEF StopSecondaryCpus, CallRec, Runs
    <3>3. CASE StopReturn
      BY <1>0, <2>0, <3>1, <3>3 DEF StopReturn, CallRec, Runs
    <3> QED BY Zenon, <1>4, <3>2, <3>3
  <2>3. ~ Waits(Boot) /\ ~ Waits(Boot)'
    BY <2>2 DEF Waits
  <2>4. Owed(Boot)' = Owed(Boot)
    BY Zenon, <2>3 DEF Owed
  <2>5. \A c \in CPUs \ {Boot} : /\ Owed(c)' = Owed(c) /\ call'[c].result = call[c].result
                                 /\ Waits(c)' <=> Waits(c)
    BY Zenon, <2>1 DEF Owed, Waits
  <2> QED BY Zenon, <2>1, <2>2, <2>3, <2>4, <2>5, StutterMap
<1> QED BY Zenon, <1>1, <1>2, <1>3, <1>4 DEF IdleStep

LEMMA InitMap == ASSUME Init PROVE Promise!Init
<1>1. \A c \in CPUs : call[c].pc = "idle" /\ call[c].result = "none"
  BY DEF Init, Idle
<1>2. Busy = {}
  BY <1>1 DEF Busy
<1>3. stopped = {}
  BY DEF Init
<1> QED BY <1>1, <1>2, <1>3 DEF Promise!Init

LEMMA NextMap ==
  ASSUME IInv, AckMeansDone, [Next]_vars
  PROVE  [Promise!Next]_(Promise!vars)
<1>1. CASE UNCHANGED vars
  <2>1. UNCHANGED <<call, done, stopped>>
    BY Zenon, <1>1 DEF vars, stopVars
  <2> QED BY Zenon, <2>1, StutterMap DEF Owed, Waits
<1>2. CASE Next
  BY Zenon, <1>2, CallerMap, HandlerMap, IdleMap DEF Next
<1> QED BY Zenon, <1>1, <1>2

(* The requests of smp.rs implement the promise of SyncCall, whatever the   *)
(* mailboxes, doorbells and numbers do, while no slot is claimed too early. *)
LEMMA CallsImplementPromise == Spec /\ CleanClaims => ImplementsSyncCall
<1>1. Init => Promise!Init
  BY Zenon, InitMap
<1>2. IInv /\ AckMeansDone /\ [Next]_vars => [Promise!Next]_(Promise!vars)
  BY Zenon, NextMap
<1> QED BY PTL, <1>1, <1>2, ShootInvariance, CallsHonest DEF Spec, ImplementsSyncCall, Promise!Spec

-----------------------------------------------------------------------------
(* No initiator uses its slot twice: always so on RISC-V where the firmware  *)
(* has RFENCE, which takes the place of the slots, and until the second      *)
(* request of a CPU elsewhere.                                               *)
SlotsUsedOnce ==
  \A load \in Workloads : "range" \in load => \A c \in CPUs : Budget[c] <= 1

(* Nobody serves the slot of a CPU that has not made a request. *)
UnclaimedInv ==
  \A c \in CPUs : made[c] = 0 =>
    call[c].pc = "idle" /\ slot[c].targets = {} /\ \A d \in CPUs : ~ Inside(d, c)

LEMMA UnclaimedNext ==
  ASSUME IInv, UnclaimedInv, [Next]_vars
  PROVE  UnclaimedInv'
<1>0. /\ TypeOK /\ call \in [CPUs -> CallRec] /\ made \in [CPUs -> Nat]
      /\ \A c \in CPUs : made[c] \in Nat
  BY DEF IInv, TypeOK
<1>1. CASE UNCHANGED vars
  BY Zenon, <1>1 DEF vars, UnclaimedInv, Inside
<1>2. ASSUME NEW c \in CPUs, Caller(c)
      PROVE  UnclaimedInv'
  <2>1. /\ UNCHANGED handler
        /\ \A e \in CPUs \ {c} : /\ call'[e] = call[e] /\ slot'[e] = slot[e]
                                 /\ made'[e] = made[e]
    BY Zenon, <1>0, <1>2, CallerEffect
  <2>2. made'[c] # 0
    <3>1. CASE made' = [made EXCEPT ![c] = @ + 1]
      BY <1>0, <3>1
    <3>2. CASE UNCHANGED made /\ call[c].pc # "idle"
      BY Zenon, <3>2 DEF UnclaimedInv
    <3>3. \A at \in {"payload", "targets", "send", "wait"} : Runs(c, at) => call[c].pc # "idle"
      BY DEF Runs
    <3> QED
      BY Zenon, <1>2, <3>1, <3>2, <3>3
      DEF Caller, SynchronizeMemory, SynchronizeUserTlb, SynchronizeKernelMappingAll, Begin,
          BeginRange, Enter, PublishPayload, PublishTargets, Send, Kick, Return, Timeout
  <2>3. ASSUME NEW e \in CPUs, made'[e] = 0
        PROVE  call'[e].pc = "idle" /\ slot'[e].targets = {} /\ \A d \in CPUs : ~ Inside(d, e)'
    <3>1. e \in CPUs \ {c} /\ made[e] = 0
      BY Zenon, <2>1, <2>2, <2>3
    <3> QED BY Zenon, <2>1, <3>1 DEF UnclaimedInv, Inside
  <2> QED BY Zenon, <2>3 DEF UnclaimedInv
<1>3. ASSUME NEW d \in CPUs, Handler(d)
      PROVE  UnclaimedInv'
  <2>1. /\ UNCHANGED <<call, made>>
        /\ \A e \in CPUs \ {d} : handler'[e] = handler[e]
        /\ \A c \in CPUs : slot'[c].targets = slot[c].targets
    BY Zenon, <1>0, <1>3, HandlerEffect
  <2>2. ASSUME NEW c \in CPUs, made'[c] = 0
        PROVE  call'[c].pc = "idle" /\ slot'[c].targets = {} /\ \A e \in CPUs : ~ Inside(e, c)'
    <3>1. call[c].pc = "idle" /\ slot[c].targets = {} /\ \A e \in CPUs : ~ Inside(e, c)
      BY Zenon, <2>1, <2>2 DEF UnclaimedInv
    <3>2. ~ Inside(d, c)'
      BY Zenon, <1>3, <3>1, InsideStep
    <3>3. \A e \in CPUs \ {d} : ~ Inside(e, c)'
      BY Zenon, <2>1, <3>1 DEF Inside
    <3> QED BY Zenon, <2>1, <3>1, <3>2, <3>3
  <2> QED BY Zenon, <2>2 DEF UnclaimedInv
<1>4. ASSUME NEW c \in CPUs, UNCHANGED <<handler, slot>>,
             \A e \in CPUs \ {c} : call'[e] = call[e] /\ made'[e] = made[e],
             made'[c] # 0 \/ (call'[c] = call[c] /\ made'[c] = made[c])
      PROVE  UnclaimedInv'
  <2>1. ASSUME NEW e \in CPUs, made'[e] = 0
        PROVE  call'[e].pc = "idle" /\ slot'[e].targets = {} /\ \A d \in CPUs : ~ Inside(d, e)'
    <3>1. call'[e] = call[e] /\ made[e] = 0
      BY Zenon, <1>4, <2>1
    <3> QED BY Zenon, <1>4, <3>1 DEF UnclaimedInv, Inside
  <2> QED BY Zenon, <2>1 DEF UnclaimedInv
<1>5. ASSUME NEW c \in CPUs, NEW d \in CPUs, DeferKernelMapping(c, d)
      PROVE  UnclaimedInv'
  <2>1. UNCHANGED <<handler, slot, call>> /\ made' = [made EXCEPT ![c] = @ + 1]
    BY Zenon, <1>5 DEF DeferKernelMapping
  <2>2. made'[c] # 0
    BY <1>0, <2>1
  <2> QED BY Zenon, <1>0, <1>4, <2>1, <2>2
<1>6. ASSUME NEW d \in CPUs, Dispatch(d) \/ TaskEnds(d) \/ StopCpu(d)
      PROVE  UnclaimedInv'
  <2>1. UNCHANGED <<handler, slot, call, made>>
    BY Zenon, <1>6 DEF Dispatch, TaskEnds, StopCpu
  <2> QED BY Zenon, <1>4, <1>6, <2>1
<1>7. CASE StopSecondaryCpus \/ StopReturn
  <2>0. Boot \in CPUs
    BY ShootdownAssumption DEF Boot, CPUs
  <2>1. /\ UNCHANGED <<handler, slot>>
        /\ \A e \in CPUs \ {Boot} : call'[e] = call[e] /\ made'[e] = made[e]
    BY Zenon, <1>0, <1>7 DEF StopSecondaryCpus, StopReturn
  <2>2. made'[Boot] # 0
    <3>1. CASE StopSecondaryCpus
      BY <1>0, <2>0, <3>1 DEF StopSecondaryCpus
    <3>2. CASE StopReturn
      <4>1. UNCHANGED made /\ call[Boot].pc # "idle"
        BY <3>2 DEF StopReturn, Runs
      <4> QED BY Zenon, <2>0, <4>1 DEF UnclaimedInv
    <3> QED BY Zenon, <1>7, <3>1, <3>2
  <2> QED BY Zenon, <1>4, <2>0, <2>1, <2>2
<1> QED BY Zenon, <1>1, <1>2, <1>3, <1>5, <1>6, <1>7 DEF Next, IdleStep

LEMMA UnclaimedInit == ASSUME Init PROVE UnclaimedInv
<1>1. \A c \in CPUs : /\ call[c].pc = "idle" /\ slot[c].targets = {} /\ handler[c].pc = "off"
  BY DEF Init, Idle
<1> QED BY <1>1 DEF UnclaimedInv, Inside

LEMMA ClaimOnce ==
  ASSUME SlotsUsedOnce, IInv, UnclaimedInv, [Next]_vars
  PROVE  CleanClaim
<1> SUFFICES ASSUME NEW c \in CPUs, NEW targets \in SUBSET CPUs, BeginRange(c, targets)
             PROVE  \A d \in CPUs : ~ Inside(d, c)
  BY Zenon DEF CleanClaim
<1>1. "range" \in kinds /\ made[c] < Budget[c]
  BY Zenon DEF BeginRange, Enter
<1>2. kinds \in Workloads /\ made[c] \in Nat /\ Budget[c] \in Nat
  BY ShootdownAssumption DEF IInv, TypeOK
<1>3. Budget[c] <= 1
  BY Zenon, <1>1, <1>2 DEF SlotsUsedOnce
<1>4. made[c] = 0
  BY <1>1, <1>2, <1>3
<1> QED BY Zenon, <1>4 DEF UnclaimedInv

LEMMA ClaimsClean == ASSUME SlotsUsedOnce PROVE Spec => CleanClaims
<1>1. Init => UnclaimedInv
  BY Zenon, UnclaimedInit
<1>2. IInv /\ UnclaimedInv /\ [Next]_vars => UnclaimedInv'
  BY Zenon, UnclaimedNext
<1>3. IInv /\ UnclaimedInv /\ [Next]_vars => [CleanClaim]_vars
  BY Zenon, ClaimOnce
<1> QED BY PTL, <1>1, <1>2, <1>3, ShootInvariance DEF Spec, CleanClaims

(* When no slot is used twice, every call is told the truth. *)
THEOREM FirstCallsHonest == ASSUME SlotsUsedOnce PROVE Spec => []AckMeansDone
BY PTL, ClaimsClean, CallsHonest

(* When no slot is used twice, the requests implement the promise. *)
THEOREM FirstCallsImplementPromise == ASSUME SlotsUsedOnce PROVE Spec => ImplementsSyncCall
BY PTL, ClaimsClean, CallsImplementPromise

=============================================================================
