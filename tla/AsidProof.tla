------------------------------ MODULE AsidProof ------------------------------
(***************************************************************************)
(* Address spaces that share hardware numbers stay isolated, and no access *)
(* reaches a released frame: the inductive invariant of Asid and its       *)
(* proof, for every number of CPUs, address spaces, numbers and rollovers. *)
(***************************************************************************)
EXTENDS Asid, TLAPS

(* The leader of a rollover, from the exchange of the flag to its clearing, *)
(* and from the flush of every CPU on.                                      *)
Past(c)  == pc[c] \in {"sync", "number", "publish", "clear"}
Leads(c) == pc[c] = "lead" \/ Past(c)

(* One CPU leads at a time; it is not among the CPUs it waits for. *)
LeadInv ==
  /\ \A c, d \in CPUs : Leads(c) /\ Leads(d) => c = d
  /\ \A c \in CPUs : Leads(c) => rollover
  /\ \A d \in ack : \E c \in CPUs \ ack : pc[c] = "sync"
  /\ \A c \in CPUs : pc[c] \in {"sync", "number"} => epoch < MaxEpoch

(* A CPU that holds a context it has yet to install, or that runs on one    *)
(* without the epoch check of RISC-V.                                       *)
Holds(c) == pc[c] = "install" \/ (~Riscv /\ pc[c] = "user")

(* A rollover passes such a CPU only through its acknowledgement. *)
HoldInv ==
  \A c \in CPUs :
    /\ Hardware /\ Holds(c) => \A d \in CPUs : Past(d) => c \in ack
    /\ ~Riscv => \A d \in CPUs : Past(d) /\ c \notin ack => tlb[c] = {}

(* The published epoch lags only while the leader publishes; a number of    *)
(* the current epoch has one owner.                                         *)
EpochInv ==
  /\ published # epoch => \E c \in CPUs : pc[c] = "publish"
  /\ published <= epoch
  /\ \A c \in CPUs : seen[c] <= published
  /\ \A m \in MMs :
       /\ context[m].epoch <= epoch
       /\ Hardware /\ context[m].epoch = epoch => context[m].asid \in 1..(next - 1)
       /\ ~Hardware => context[m] = None
  /\ \A m, n \in MMs :
       m # n /\ Hardware /\ context[m].epoch = epoch /\ context[n].epoch = epoch
         => context[m].asid # context[n].asid

(* The address space a CPU is switching to, and the one it is registered in. *)
PlaceAt(c) ==
  /\ pc[c] \notin {"kernel", "user", "leave"} => want[c].mm \in MMs
  /\ current[c] # NoMm => c \in active[current[c]]
  /\ pc[c] = "install" =>
       /\ want[c].context = context[want[c].mm]
       /\ Hardware => want[c].context.epoch = epoch
       /\ c \in active[want[c].mm]
  /\ pc[c] = "leave" =>
       /\ hw.leaving /\ Riscv /\ want[c].context.asid = 0
       /\ want[c].context.epoch <= published
  /\ Riscv => current[c] = root[c].mm
  /\ ~Riscv /\ pc[c] = "user" =>
       /\ root[c].mm \in MMs /\ current[c] = root[c].mm
       /\ context[root[c].mm] = [epoch |-> epoch, asid |-> root[c].asid]

PlaceInv == \A c \in CPUs : PlaceAt(c)

(* The number a was given to m in an epoch that CPU c has seen, or in the   *)
(* last one m got a number in.                                              *)
Tagged(c, m, a) ==
  /\ a # 0
  /\ seen[c] <= context[m].epoch
  /\ seen[c] = context[m].epoch => context[m].asid = a

TagAt(c) ==
  /\ ~Riscv => \A e \in tlb[c] : context[e.mm] = [epoch |-> epoch, asid |-> e.asid]
  /\ Riscv => \A e \in tlb[c] : e.asid = root[c].asid => e.mm = root[c].mm
  /\ Riscv /\ Hardware =>
       /\ \A e \in tlb[c] : Tagged(c, e.mm, e.asid)
       /\ IF root[c].mm = NoMm THEN root[c].asid = 0 ELSE Tagged(c, root[c].mm, root[c].asid)

TagInv == \A c \in CPUs : TagAt(c)

(* An entry older than the page table is about to be flushed, under the     *)
(* number it is cached under, or its CPU has left the address space and     *)
(* will flush before it uses it again.                                      *)
OldAt(m, c) ==
  \A e \in tlb[c] : e.mm = m /\ e.version < version[m] =>
    IF c \in flush[m].targets
    THEN e.version = version[m] - 1 /\ (~flush[m].full => e.asid = flush[m].asid)
    ELSE c \notin active[m] /\ observed[m][c] < generation[m]

FlushAt(m) ==
  /\ generation[m] = version[m] + 1
  /\ \A c \in CPUs : observed[m][c] <= generation[m]
  /\ IF flush[m] = NoFlush THEN freed[m] = version[m]
     ELSE flush[m].generation = generation[m] /\ freed[m] = version[m] - 1

FlushInv == \A m \in MMs : FlushAt(m) /\ \A c \in CPUs : OldAt(m, c)

IInv == TypeOK /\ LeadInv /\ HoldInv /\ EpochInv /\ PlaceInv /\ TagInv /\ FlushInv
-----------------------------------------------------------------------------
PcSet == {"kernel", "user", "assign", "install", "roll", "cas", "wait", "lead", "sync",
          "number", "publish", "clear", "leave"}

RootRec == [mm : MMs \cup {NoMm}, asid : 0..MaxAsid]

WantRec == [mm : MMs \cup {NoMm}, context : Context]

(* The hardware does not change. *)
LEMMA HwStep == ASSUME [Next]_vars PROVE hw' = hw
<1>1. CASE UNCHANGED vars
  BY Zenon, <1>1 DEF vars
<1>2. ASSUME NEW c \in CPUs, CpuStep(c)
      PROVE  hw' = hw
  BY Zenon, <1>2
  DEF CpuStep, Fill, Trap, Assign, AssignFails, Install, LeaveUserVm, InstallKernel,
      LeaveKeepingRoot, Roll, AckRollover, SwitchUserVm, RollNotNeeded, RollNeeded, RollWait,
      RollLead, RollWaited, LeadTooLate, LeadFlush, LeadAcked, LeadNumber, LeadPublish, LeadClear
<1>3. ASSUME NEW m \in MMs, MmStep(m)
      PROVE  hw' = hw
  BY Zenon, <1>3 DEF MmStep, WritePte, FinishFlush, FlushTarget
<1> QED BY Zenon, <1>1, <1>2, <1>3 DEF Next

LEMMA SameTypes ==
  ASSUME hw' = hw
  PROVE  /\ MaxAsid' = MaxAsid /\ (Riscv' <=> Riscv) /\ (Hardware' <=> Hardware)
         /\ Context' = Context /\ Entry' = Entry /\ FlushRec' = FlushRec
         /\ RootRec' = RootRec /\ WantRec' = WantRec
BY Zenon DEF MaxAsid, Riscv, Hardware, Context, Entry, FlushRec, RootRec, WantRec

(* The type invariant, with the types of the records named. *)
LEMMA Typed ==
  ASSUME TypeOK
  PROVE  /\ hw \in Machines /\ MaxAsid \in Nat
         /\ epoch \in 1..MaxEpoch /\ next \in 1..(MaxAsid + 1) /\ published \in 1..MaxEpoch
         /\ seen \in [CPUs -> 0..MaxEpoch] /\ context \in [MMs -> Context]
         /\ active \in [MMs -> SUBSET CPUs] /\ generation \in [MMs -> Nat]
         /\ observed \in [MMs -> [CPUs -> Nat]] /\ version \in [MMs -> 0..MaxVersion]
         /\ freed \in [MMs -> 0..MaxVersion] /\ flush \in [MMs -> FlushRec]
         /\ root \in [CPUs -> RootRec] /\ tlb \in [CPUs -> SUBSET Entry]
         /\ pc \in [CPUs -> PcSet] /\ want \in [CPUs -> WantRec]
         /\ current \in [CPUs -> MMs \cup {NoMm}] /\ ack \subseteq CPUs
         /\ None \in Context /\ (~Hardware => Riscv)
         /\ MaxEpoch \in Nat /\ MaxVersion \in Nat
<1>1. hw \in Machines /\ hw.max \in Nat /\ (hw.max = 0 => hw.riscv)
  BY AsidAssumption DEF TypeOK
<1>2. None \in Context
  BY <1>1, AsidAssumption DEF None, Context, MaxAsid
<1>3. MaxAsid \in Nat /\ (~Hardware => Riscv)
  BY <1>1 DEF MaxAsid, Hardware, Riscv
<1>4. MaxEpoch \in Nat /\ MaxVersion \in Nat
  BY AsidAssumption
<1> QED BY Zenon, <1>1, <1>2, <1>3, <1>4 DEF TypeOK, PcSet, RootRec, WantRec

(* A step on the switch and in the registers keeps the types. *)
LEMMA CpuType ==
  ASSUME TypeOK, hw' = hw, NEW c \in CPUs, NEW at \in PcSet, pc' = [pc EXCEPT ![c] = at],
         epoch' \in 1..MaxEpoch, next' \in 1..(MaxAsid + 1), published' \in 1..MaxEpoch,
         rollover' \in BOOLEAN, stale' \in BOOLEAN, switches' \in 0..MaxSwitches,
         seen' \in [CPUs -> 0..MaxEpoch], context' \in [MMs -> Context],
         active' \in [MMs -> SUBSET CPUs], observed' \in [MMs -> [CPUs -> Nat]],
         root' \in [CPUs -> RootRec], tlb' \in [CPUs -> SUBSET Entry],
         want' \in [CPUs -> WantRec], current' \in [CPUs -> MMs \cup {NoMm}], ack' \subseteq CPUs,
         UNCHANGED <<generation, version, freed>>, flush' \in [MMs -> FlushRec]
  PROVE  TypeOK'
<1>1. pc' \in [CPUs -> PcSet]
  BY Zenon, Typed
<1>2. /\ MaxAsid' = MaxAsid /\ Context' = Context /\ Entry' = Entry /\ FlushRec' = FlushRec
      /\ RootRec' = RootRec /\ WantRec' = WantRec
  BY Zenon, SameTypes
<1>3. /\ hw' \in Machines
      /\ generation' \in [MMs -> Nat] /\ version' \in [MMs -> 0..MaxVersion]
      /\ freed' \in [MMs -> 0..MaxVersion]
  BY Zenon DEF TypeOK
<1>4. /\ next' \in 1..(MaxAsid' + 1) /\ context' \in [MMs -> Context']
      /\ flush' \in [MMs -> FlushRec'] /\ root' \in [CPUs -> RootRec']
      /\ tlb' \in [CPUs -> SUBSET Entry'] /\ want' \in [CPUs -> WantRec']
  BY Zenon, <1>2
<1> QED BY Zenon, <1>1, <1>3, <1>4 DEF TypeOK, PcSet, RootRec, WantRec

-----------------------------------------------------------------------------
(* What try_assign_asid returns: the number m has in this epoch, or the     *)
(* next free one; nothing is numbered during a rollover.                    *)
LEMMA AssignFacts ==
  ASSUME IInv, NEW c \in CPUs, Assign(c)
  PROVE  \E m \in MMs, ctx \in Context :
           /\ m = want[c].mm /\ pc[c] = "assign"
           /\ context' = [context EXCEPT ![m] = ctx]
           /\ want' = [want EXCEPT ![c].context = ctx]
           /\ ActivateCpu(m, c)
           /\ Hardware => ~rollover /\ ctx.epoch = epoch
           /\ \/ ctx = context[m] /\ next' = next
              \/ /\ Hardware /\ context[m].epoch # epoch /\ next <= MaxAsid
                 /\ ctx.asid = next /\ next' = next + 1
<1>1. TypeOK /\ EpochInv /\ PlaceInv
  BY Zenon DEF IInv
<1>2. pc[c] = "assign"
  BY Zenon DEF Assign, At
<1>3. PICK m : m = want[c].mm
  OBVIOUS
<1>4. m \in MMs
  BY Zenon, <1>1, <1>2, <1>3 DEF PlaceInv, PlaceAt
<1>5. PICK ctx : ctx = Assigned(m)
  OBVIOUS
<1>6. /\ Assignable(m) /\ context' = [context EXCEPT ![m] = ctx]
      /\ want' = [want EXCEPT ![c].context = ctx] /\ ActivateCpu(m, c)
      /\ next' = IF ctx # context[m] THEN next + 1 ELSE next
  BY <1>3, <1>5 DEF Assign
<1>7. /\ context[m] \in Context /\ epoch \in 0..MaxEpoch /\ next \in 1..(MaxAsid + 1)
      /\ None \in Context /\ MaxAsid \in Nat
  <2>1. /\ context \in [MMs -> Context] /\ epoch \in 1..MaxEpoch /\ next \in 1..(MaxAsid + 1)
        /\ None \in Context /\ MaxAsid \in Nat /\ MaxEpoch \in Nat
    BY Zenon, <1>1, Typed
  <2>2. epoch \in 0..MaxEpoch
    BY <2>1
  <2> QED BY Zenon, <1>4, <2>1, <2>2
<1>8. CASE ~Hardware
  <2>1. ctx = None /\ context[m] = None
    BY Zenon, <1>1, <1>4, <1>5, <1>8 DEF Assigned, EpochInv
  <2> QED BY Zenon, <1>2, <1>3, <1>4, <1>6, <1>7, <1>8, <2>1
<1>9. CASE Hardware /\ context[m].epoch = epoch
  <2>1. ctx = context[m] /\ ~rollover
    BY Zenon, <1>5, <1>6, <1>9 DEF Assigned, Assignable
  <2> QED BY Zenon, <1>2, <1>3, <1>4, <1>6, <1>7, <1>9, <2>1
<1>10. CASE Hardware /\ context[m].epoch # epoch
  <2>1. ctx = [epoch |-> epoch, asid |-> next] /\ ~rollover /\ next <= MaxAsid
    BY Zenon, <1>5, <1>6, <1>10 DEF Assigned, Assignable
  <2>2. ctx.epoch = epoch /\ ctx.asid = next /\ ctx # context[m]
    BY <1>10, <2>1
  <2>3. ctx \in Context
    BY <1>7, <2>1 DEF Context
  <2> QED BY Zenon, <1>2, <1>3, <1>4, <1>6, <1>10, <2>1, <2>2, <2>3
<1> QED BY Zenon, <1>8, <1>9, <1>10

(* activate_cpu registers the CPU, and may flush it. *)
LEMMA ActivateFacts ==
  ASSUME TypeOK, NEW m \in MMs, NEW c \in CPUs, ActivateCpu(m, c)
  PROVE  /\ active' \in [MMs -> SUBSET CPUs] /\ observed' \in [MMs -> [CPUs -> Nat]]
         /\ tlb' \in [CPUs -> SUBSET Entry]
         /\ active'[m] = active[m] \cup {c}
         /\ \A n \in MMs \ {m} : active'[n] = active[n] /\ observed'[n] = observed[n]
         /\ observed'[m][c] = generation[m]
         /\ \A d \in CPUs \ {c} : observed'[m][d] = observed[m][d] /\ tlb'[d] = tlb[d]
         /\ tlb'[c] = IF observed[m][c] < generation[m] THEN {} ELSE tlb[c]
<1>1. /\ active \in [MMs -> SUBSET CPUs] /\ observed \in [MMs -> [CPUs -> Nat]]
      /\ generation \in [MMs -> Nat] /\ tlb \in [CPUs -> SUBSET Entry]
  BY Zenon, Typed
<1>2. active' \in [MMs -> SUBSET CPUs]
  BY <1>1 DEF ActivateCpu
<1>3. observed' \in [MMs -> [CPUs -> Nat]]
  <2>1. generation[m] \in Nat /\ observed[m] \in [CPUs -> Nat]
    BY Zenon, <1>1
  <2>2. [observed[m] EXCEPT ![c] = generation[m]] \in [CPUs -> Nat]
    BY Zenon, <2>1
  <2>3. observed' = [observed EXCEPT ![m] = [observed[m] EXCEPT ![c] = generation[m]]]
    BY Zenon DEF ActivateCpu
  <2> QED BY Zenon, <1>1, <2>2, <2>3
<1>4. tlb' \in [CPUs -> SUBSET Entry]
  BY <1>1 DEF ActivateCpu
<1>5. /\ active'[m] = active[m] \cup {c}
      /\ \A n \in MMs \ {m} : active'[n] = active[n] /\ observed'[n] = observed[n]
  BY Zenon, <1>1 DEF ActivateCpu
<1>6. /\ observed'[m][c] = generation[m]
      /\ \A d \in CPUs \ {c} : observed'[m][d] = observed[m][d]
  <2>1. observed[m] \in [CPUs -> Nat]
    BY Zenon, <1>1
  <2>2. observed'[m] = [observed[m] EXCEPT ![c] = generation[m]]
    BY Zenon, <1>1 DEF ActivateCpu
  <2> QED BY Zenon, <2>1, <2>2
<1>7. /\ tlb'[c] = IF observed[m][c] < generation[m] THEN {} ELSE tlb[c]
      /\ \A d \in CPUs \ {c} : tlb'[d] = tlb[d]
  BY Zenon, <1>1 DEF ActivateCpu
<1> QED BY Zenon, <1>2, <1>3, <1>4, <1>5, <1>6, <1>7

(* install_page_table writes the registers of its own CPU. *)
LEMMA WriteFacts ==
  ASSUME TypeOK, NEW c \in CPUs, NEW m \in MMs \cup {NoMm}, NEW ctx \in Context, Write(c, m, ctx)
  PROVE  /\ root' \in [CPUs -> RootRec] /\ seen' \in [CPUs -> 0..MaxEpoch]
         /\ tlb' \in [CPUs -> SUBSET Entry] /\ stale' \in BOOLEAN
         /\ root'[c] = [mm |-> m, asid |-> ctx.asid]
         /\ \A d \in CPUs \ {c} : root'[d] = root[d] /\ seen'[d] = seen[d] /\ tlb'[d] = tlb[d]
         /\ tlb'[c] = {} \/ tlb'[c] = tlb[c]
         /\ Riscv /\ Hardware /\ seen[c] < ctx.epoch => tlb'[c] = {} /\ seen'[c] = ctx.epoch
         /\ ~(Riscv /\ Hardware /\ seen[c] < ctx.epoch) => seen'[c] = seen[c]
         /\ Riscv /\ ~Hardware /\ root'[c] # root[c] => tlb'[c] = {}
<1>1. /\ root \in [CPUs -> RootRec] /\ seen \in [CPUs -> 0..MaxEpoch]
      /\ tlb \in [CPUs -> SUBSET Entry]
  BY Zenon, Typed
<1>2. ctx.epoch \in 0..MaxEpoch /\ [mm |-> m, asid |-> ctx.asid] \in RootRec
  BY DEF Context, RootRec
<1>3. stale' \in BOOLEAN
  BY Zenon DEF Write
<1>4. /\ root' = [root EXCEPT ![c] = [mm |-> m, asid |-> ctx.asid]]
      /\ tlb' \in {tlb, [tlb EXCEPT ![c] = {}]}
      /\ seen' \in {seen, [seen EXCEPT ![c] = ctx.epoch]}
  BY Zenon DEF Write
<1>5. /\ root' \in [CPUs -> RootRec] /\ root'[c] = [mm |-> m, asid |-> ctx.asid]
      /\ \A d \in CPUs \ {c} : root'[d] = root[d]
  BY Zenon, <1>1, <1>2, <1>4
<1>6. /\ tlb' \in [CPUs -> SUBSET Entry] /\ (tlb'[c] = {} \/ tlb'[c] = tlb[c])
      /\ \A d \in CPUs \ {c} : tlb'[d] = tlb[d]
  <2>1. CASE tlb' = tlb
    BY Zenon, <1>1, <2>1
  <2>2. CASE tlb' = [tlb EXCEPT ![c] = {}]
    BY <1>1, <2>2
  <2> QED BY <1>4, <2>1, <2>2
<1>7. seen' \in [CPUs -> 0..MaxEpoch] /\ \A d \in CPUs \ {c} : seen'[d] = seen[d]
  BY Zenon, <1>1, <1>2, <1>4
<1>8. /\ Riscv /\ Hardware /\ seen[c] < ctx.epoch => tlb'[c] = {} /\ seen'[c] = ctx.epoch
      /\ ~(Riscv /\ Hardware /\ seen[c] < ctx.epoch) => seen'[c] = seen[c]
  <2>1. ASSUME Riscv, Hardware, seen[c] < ctx.epoch
        PROVE  tlb'[c] = {} /\ seen'[c] = ctx.epoch
    BY Zenon, <1>1, <2>1 DEF Write
  <2>2. ASSUME ~(Riscv /\ Hardware /\ seen[c] < ctx.epoch)
        PROVE  seen'[c] = seen[c]
    BY Zenon, <2>2 DEF Write
  <2> QED BY Zenon, <2>1, <2>2
<1>9. Riscv /\ ~Hardware /\ root'[c] # root[c] => tlb'[c] = {}
  BY Zenon, <1>1, <1>5 DEF Write
<1> QED BY Zenon, <1>3, <1>5, <1>6, <1>7, <1>8, <1>9

(* The registers are written with the context that activate_on returned. *)
LEMMA InstallFacts ==
  ASSUME IInv, NEW c \in CPUs, Install(c)
  PROVE  \E m \in MMs, ctx \in Context :
           /\ m = want[c].mm /\ ctx = want[c].context /\ ctx = context[m]
           /\ pc[c] = "install" /\ c \in active[m]
           /\ Hardware => ctx.epoch = epoch
           /\ Write(c, m, ctx)
           /\ pc' = [pc EXCEPT ![c] = "user"]
           /\ active' = IF current[c] \in {m, NoMm} THEN active
                        ELSE [active EXCEPT ![current[c]] = @ \ {c}]
           /\ current' = [current EXCEPT ![c] = m]
           /\ want' = [want EXCEPT ![c] = [mm |-> NoMm, context |-> None]]
<1>1. TypeOK /\ PlaceAt(c)
  BY Zenon DEF IInv, PlaceInv
<1>2. pc[c] = "install"
  BY Zenon DEF Install, At
<1>3. PICK m, ctx : m = want[c].mm /\ ctx = want[c].context
  OBVIOUS
<1>4. m \in MMs /\ ctx = context[m] /\ c \in active[m] /\ (Hardware => ctx.epoch = epoch)
  BY <1>1, <1>2, <1>3 DEF PlaceAt
<1>5. ctx \in Context
  BY Zenon, <1>1, <1>4, Typed
<1>6. /\ Write(c, m, ctx)
      /\ pc' = [pc EXCEPT ![c] = "user"]
      /\ active' = IF current[c] \in {m, NoMm} THEN active
                   ELSE [active EXCEPT ![current[c]] = @ \ {c}]
      /\ current' = [current EXCEPT ![c] = m]
      /\ want' = [want EXCEPT ![c] = [mm |-> NoMm, context |-> None]]
  BY Zenon, <1>3 DEF Install, Goto
<1> QED BY Zenon, <1>2, <1>3, <1>4, <1>5, <1>6

(* leave_user_vm installs the kernel root. *)
LEMMA KernelFacts ==
  ASSUME IInv, NEW c \in CPUs, InstallKernel(c)
  PROVE  \E ctx \in Context :
           /\ ctx = want[c].context /\ ctx.asid = 0 /\ ctx.epoch <= published
           /\ pc[c] = "leave" /\ Riscv /\ hw.leaving
           /\ Write(c, NoMm, ctx)
           /\ pc' = [pc EXCEPT ![c] = "kernel"]
           /\ active' = [active EXCEPT ![current[c]] = @ \ {c}]
           /\ current' = [current EXCEPT ![c] = NoMm]
           /\ want' = [want EXCEPT ![c].context = None]
<1>1. TypeOK /\ PlaceAt(c)
  BY Zenon DEF IInv, PlaceInv
<1>2. pc[c] = "leave"
  BY Zenon DEF InstallKernel, At
<1>3. PICK ctx : ctx = want[c].context
  OBVIOUS
<1>4. ctx.asid = 0 /\ ctx.epoch <= published /\ Riscv /\ hw.leaving
  BY Zenon, <1>1, <1>2, <1>3 DEF PlaceAt
<1>5. ctx \in Context
  <2>1. want[c] \in WantRec
    BY Zenon, <1>1, Typed
  <2> QED BY <1>3, <2>1 DEF WantRec
<1>6. /\ Write(c, NoMm, ctx)
      /\ pc' = [pc EXCEPT ![c] = "kernel"]
      /\ active' = [active EXCEPT ![current[c]] = @ \ {c}]
      /\ current' = [current EXCEPT ![c] = NoMm]
      /\ want' = [want EXCEPT ![c].context = None]
  BY Zenon, <1>3 DEF InstallKernel, Goto
<1> QED BY Zenon, <1>2, <1>3, <1>4, <1>5, <1>6

(* The steps that move only the program counter of their CPU. *)
Moves(c) ==
  Trap(c) \/ AssignFails(c) \/ RollNotNeeded(c) \/ RollNeeded(c) \/ RollWait(c) \/ RollWaited(c)
    \/ LeadAcked(c)

LEMMA MovesFacts ==
  ASSUME NEW c \in CPUs, Moves(c)
  PROVE  \E from \in {"user", "assign", "roll", "cas", "wait", "sync"},
            to \in {"kernel", "roll", "assign", "cas", "wait", "number"} :
           /\ pc[c] = from /\ pc' = [pc EXCEPT ![c] = to]
           /\ from = "sync" <=> to = "number"
           /\ to = "number" => ack = {}
           /\ to = "kernel" <=> from = "user"
           /\ UNCHANGED <<hw, epoch, next, rollover, published, context, active, generation, observed,
                          version, freed, flush, seen, root, tlb, want, current, ack, stale, switches>>
<1>0. Moves(c) => UNCHANGED <<hw, epoch, next, rollover, published, context, active, generation, observed,
                          version, freed, flush, seen, root, tlb, want, current, ack, stale, switches>>
  BY DEF Moves, Trap, AssignFails, RollNotNeeded, RollNeeded, RollWait, RollWaited, LeadAcked,
         allocVars, mmVars
<1>1. CASE Trap(c)
  BY <1>0, <1>1 DEF Trap, At, Goto
<1>2. CASE AssignFails(c)
  BY <1>0, <1>2 DEF AssignFails, At, Goto
<1>3. CASE RollNotNeeded(c)
  BY <1>0, <1>3 DEF RollNotNeeded, At, Goto
<1>4. CASE RollNeeded(c)
  BY <1>0, <1>4 DEF RollNeeded, At, Goto
<1>5. CASE RollWait(c)
  BY <1>0, <1>5 DEF RollWait, At, Goto
<1>6. CASE RollWaited(c)
  BY <1>0, <1>6 DEF RollWaited, At, Goto
<1>7. CASE LeadAcked(c)
  BY <1>0, <1>7 DEF LeadAcked, At, Goto
<1> QED BY Zenon, <1>1, <1>2, <1>3, <1>4, <1>5, <1>6, <1>7 DEF Moves

LEMMA AddressType ==
  ASSUME IInv, NEW c \in CPUs,
         Fill(c) \/ Assign(c) \/ Install(c) \/ LeaveUserVm(c) \/ InstallKernel(c)
           \/ LeaveKeepingRoot(c) \/ \E m \in MMs : SwitchUserVm(c, m)
  PROVE  TypeOK'
<1>0. TypeOK
  BY Zenon DEF IInv
<1>1. /\ hw \in Machines /\ MaxAsid \in Nat
      /\ epoch \in 1..MaxEpoch /\ next \in 1..(MaxAsid + 1) /\ published \in 1..MaxEpoch
      /\ seen \in [CPUs -> 0..MaxEpoch] /\ context \in [MMs -> Context]
      /\ active \in [MMs -> SUBSET CPUs] /\ observed \in [MMs -> [CPUs -> Nat]]
      /\ flush \in [MMs -> FlushRec]
      /\ root \in [CPUs -> RootRec] /\ tlb \in [CPUs -> SUBSET Entry]
      /\ pc \in [CPUs -> PcSet] /\ want \in [CPUs -> WantRec]
      /\ current \in [CPUs -> MMs \cup {NoMm}] /\ ack \subseteq CPUs
      /\ None \in Context /\ MaxEpoch \in Nat /\ rollover \in BOOLEAN /\ stale \in BOOLEAN
      /\ switches \in 0..MaxSwitches
  BY Zenon, <1>0, Typed DEF TypeOK
<1>2. hw' = hw
  BY Zenon
  DEF Fill, Assign, Install, LeaveUserVm, InstallKernel, LeaveKeepingRoot, SwitchUserVm
<1>3. pc[c] \in PcSet /\ pc = [pc EXCEPT ![c] = pc[c]] /\ want[c] \in WantRec
  BY Zenon, <1>1
<1>4. "user" \in PcSet /\ "kernel" \in PcSet /\ "assign" \in PcSet /\ "install" \in PcSet
      /\ "leave" \in PcSet
  BY DEF PcSet
<1>5. \A ctx \in Context : [want[c] EXCEPT !.context = ctx] \in WantRec
  BY <1>3 DEF WantRec
<1>6. CASE Fill(c)
  <2>1. /\ root[c] \in RootRec /\ root[c].mm # NoMm
        /\ tlb' = [tlb EXCEPT ![c] = @ \cup {[asid |-> root[c].asid, mm |-> root[c].mm,
                                              version |-> version[root[c].mm]]}]
    BY Zenon, <1>1, <1>6 DEF Fill
  <2>2. root[c].asid \in 0..MaxAsid /\ root[c].mm \in MMs
    BY <2>1 DEF RootRec
  <2>3. version[root[c].mm] \in 0..MaxVersion
    BY Zenon, <1>0, <2>2 DEF TypeOK
  <2>4. [asid |-> root[c].asid, mm |-> root[c].mm, version |-> version[root[c].mm]] \in Entry
    BY <2>2, <2>3 DEF Entry
  <2>5. tlb' \in [CPUs -> SUBSET Entry]
    BY <1>1, <2>1, <2>4
  <2>6. UNCHANGED <<epoch, next, rollover, published, context, active, generation, observed,
                    version, freed, flush, seen, root, pc, want, current, ack, stale, switches>>
    BY Zenon, <1>6 DEF Fill, allocVars, mmVars
  <2> QED BY Zenon, <1>0, <1>1, <1>2, <1>3, <2>5, <2>6, CpuType
<1>7. CASE Assign(c)
  <2>1. PICK m \in MMs, ctx \in Context :
          /\ context' = [context EXCEPT ![m] = ctx]
          /\ want' = [want EXCEPT ![c].context = ctx]
          /\ ActivateCpu(m, c)
          /\ next' = next \/ (next <= MaxAsid /\ next' = next + 1)
    BY Zenon, <1>7, AssignFacts
  <2>2. next' \in 1..(MaxAsid + 1)
    BY <1>1, <2>1
  <2>3. /\ active' \in [MMs -> SUBSET CPUs] /\ observed' \in [MMs -> [CPUs -> Nat]]
        /\ tlb' \in [CPUs -> SUBSET Entry]
    BY ZenonT(30), <1>0, <2>1, ActivateFacts
  <2>4. context' \in [MMs -> Context] /\ want' \in [CPUs -> WantRec]
    BY Zenon, <1>1, <1>5, <2>1
  <2>5. /\ pc' = [pc EXCEPT ![c] = "install"]
        /\ UNCHANGED <<epoch, rollover, published, generation, version, freed, flush, seen, root,
                       current, ack, stale, switches>>
    BY Zenon, <1>7 DEF Assign, Goto
  <2> QED BY Zenon, <1>0, <1>1, <1>2, <1>4, <2>2, <2>3, <2>4, <2>5, CpuType
<1>8. CASE Install(c)
  <2>1. PICK m \in MMs, ctx \in Context :
          /\ Write(c, m, ctx)
          /\ pc' = [pc EXCEPT ![c] = "user"]
          /\ active' = IF current[c] \in {m, NoMm} THEN active
                       ELSE [active EXCEPT ![current[c]] = @ \ {c}]
          /\ current' = [current EXCEPT ![c] = m]
          /\ want' = [want EXCEPT ![c] = [mm |-> NoMm, context |-> None]]
    BY Zenon, <1>8, InstallFacts
  <2>2. /\ root' \in [CPUs -> RootRec] /\ seen' \in [CPUs -> 0..MaxEpoch]
        /\ tlb' \in [CPUs -> SUBSET Entry] /\ stale' \in BOOLEAN
    BY ZenonT(30), <1>0, <2>1, WriteFacts
  <2>3. [mm |-> NoMm, context |-> None] \in WantRec
    BY <1>1 DEF WantRec
  <2>4. want' \in [CPUs -> WantRec] /\ current' \in [CPUs -> MMs \cup {NoMm}]
    BY Zenon, <1>1, <2>1, <2>3
  <2>5. active' \in [MMs -> SUBSET CPUs]
    BY <1>1, <2>1
  <2>6. UNCHANGED <<epoch, next, rollover, published, context, generation, observed, version, freed,
                    flush, ack, switches>>
    BY Zenon, <1>8 DEF Install, allocVars
  <2> QED BY Zenon, <1>0, <1>1, <1>2, <1>4, <2>1, <2>2, <2>4, <2>5, <2>6, CpuType
<1>9. CASE LeaveUserVm(c)
  <2>1. [epoch |-> published, asid |-> 0] \in Context
    BY <1>1 DEF Context
  <2>2. \E ctx \in Context : want' = [want EXCEPT ![c].context = ctx]
    BY Zenon, <1>1, <1>9, <2>1 DEF LeaveUserVm
  <2>3. want' \in [CPUs -> WantRec]
    BY Zenon, <1>1, <1>5, <2>2
  <2>4. /\ pc' = [pc EXCEPT ![c] = "leave"]
        /\ UNCHANGED <<epoch, next, rollover, published, context, active, generation, observed,
                       version, freed, flush, seen, root, tlb, current, ack, stale, switches>>
    BY Zenon, <1>9 DEF LeaveUserVm, Goto, allocVars, mmVars
  <2> QED BY Zenon, <1>0, <1>1, <1>2, <1>4, <2>3, <2>4, CpuType
<1>10. CASE InstallKernel(c)
  <2>1. PICK ctx \in Context :
          /\ Write(c, NoMm, ctx)
          /\ pc' = [pc EXCEPT ![c] = "kernel"]
          /\ active' = [active EXCEPT ![current[c]] = @ \ {c}]
          /\ current' = [current EXCEPT ![c] = NoMm]
          /\ want' = [want EXCEPT ![c].context = None]
    BY Zenon, <1>10, KernelFacts
  <2>2. /\ root' \in [CPUs -> RootRec] /\ seen' \in [CPUs -> 0..MaxEpoch]
        /\ tlb' \in [CPUs -> SUBSET Entry] /\ stale' \in BOOLEAN
    BY ZenonT(30), <1>0, <2>1, WriteFacts
  <2>3. want' \in [CPUs -> WantRec] /\ current' \in [CPUs -> MMs \cup {NoMm}]
    BY Zenon, <1>1, <1>5, <2>1
  <2>4. active' \in [MMs -> SUBSET CPUs]
    BY Zenon, <1>1, <2>1
  <2>5. UNCHANGED <<epoch, next, rollover, published, context, generation, observed, version, freed,
                    flush, ack, switches>>
    BY Zenon, <1>10 DEF InstallKernel, allocVars
  <2> QED BY Zenon, <1>0, <1>1, <1>2, <1>4, <2>1, <2>2, <2>3, <2>4, <2>5, CpuType
<1>11. CASE LeaveKeepingRoot(c)
  <2>1. active' \in [MMs -> SUBSET CPUs] /\ current' \in [CPUs -> MMs \cup {NoMm}]
    BY <1>1, <1>11 DEF LeaveKeepingRoot
  <2>2. UNCHANGED <<epoch, next, rollover, published, context, generation, observed,
                    version, freed, flush, seen, root, tlb, pc, want, ack, stale, switches>>
    BY Zenon, <1>11 DEF LeaveKeepingRoot, allocVars
  <2> QED BY Zenon, <1>0, <1>1, <1>2, <1>3, <2>1, <2>2, CpuType
<1>12. ASSUME NEW m \in MMs, SwitchUserVm(c, m)
       PROVE  TypeOK'
  <2>1. [mm |-> m, context |-> None] \in WantRec
    BY <1>1 DEF WantRec
  <2>2. want' \in [CPUs -> WantRec]
    BY Zenon, <1>1, <1>12, <2>1 DEF SwitchUserVm
  <2>3. active' \in [MMs -> SUBSET CPUs] /\ current' \in [CPUs -> MMs \cup {NoMm}]
    <3>1. CASE UNCHANGED <<active, current>>
      BY Zenon, <1>1, <3>1
    <3>2. CASE /\ active' = [active EXCEPT ![current[c]] = @ \ {c}]
               /\ current' = [current EXCEPT ![c] = NoMm]
      BY Zenon, <1>1, <3>2
    <3> QED BY Zenon, <1>12, <3>1, <3>2 DEF SwitchUserVm
  <2>4. switches' \in 0..MaxSwitches
    BY <1>1, <1>12, AsidAssumption DEF SwitchUserVm
  <2>5. /\ pc' = [pc EXCEPT ![c] = "assign"]
        /\ UNCHANGED <<epoch, next, rollover, published, context, generation, observed,
                       version, freed, flush, seen, root, tlb, ack, stale>>
    BY Zenon, <1>12 DEF SwitchUserVm, Goto, allocVars
  <2> QED BY Zenon, <1>0, <1>1, <1>2, <1>4, <2>2, <2>3, <2>4, <2>5, CpuType
<1> QED BY Zenon, <1>6, <1>7, <1>8, <1>9, <1>10, <1>11, <1>12

LEMMA RollType ==
  ASSUME IInv, NEW c \in CPUs, Moves(c) \/ Roll(c) \/ AckRollover(c)
  PROVE  TypeOK'
<1>0. TypeOK /\ LeadInv
  BY Zenon DEF IInv
<1>1. /\ hw \in Machines /\ MaxAsid \in Nat
      /\ epoch \in 1..MaxEpoch /\ next \in 1..(MaxAsid + 1) /\ published \in 1..MaxEpoch
      /\ seen \in [CPUs -> 0..MaxEpoch] /\ context \in [MMs -> Context]
      /\ active \in [MMs -> SUBSET CPUs] /\ observed \in [MMs -> [CPUs -> Nat]]
      /\ flush \in [MMs -> FlushRec]
      /\ root \in [CPUs -> RootRec] /\ tlb \in [CPUs -> SUBSET Entry]
      /\ pc \in [CPUs -> PcSet] /\ want \in [CPUs -> WantRec]
      /\ current \in [CPUs -> MMs \cup {NoMm}] /\ ack \subseteq CPUs
      /\ MaxEpoch \in Nat /\ rollover \in BOOLEAN /\ stale \in BOOLEAN
      /\ switches \in 0..MaxSwitches
  BY Zenon, <1>0, Typed DEF TypeOK
<1>2. /\ {"kernel", "roll", "assign", "cas", "wait", "number"} \subseteq PcSet
      /\ "lead" \in PcSet /\ "sync" \in PcSet /\ "publish" \in PcSet /\ "clear" \in PcSet
      /\ "assign" \in PcSet /\ "kernel" \in PcSet
  BY DEF PcSet
<1>3. pc[c] \in PcSet /\ pc = [pc EXCEPT ![c] = pc[c]]
  BY Zenon, <1>1
<1>4. [tlb EXCEPT ![c] = {}] \in [CPUs -> SUBSET Entry]
  BY <1>1
<1>5. CASE Moves(c)
  <2>1. PICK to \in {"kernel", "roll", "assign", "cas", "wait", "number"} :
          /\ pc' = [pc EXCEPT ![c] = to]
          /\ UNCHANGED <<hw, epoch, next, rollover, published, context, active, generation, observed,
                         version, freed, flush, seen, root, tlb, want, current, ack, stale, switches>>
    BY Zenon, <1>5, MovesFacts
  <2>2. to \in PcSet
    BY Zenon, <1>2
  <2> QED BY Zenon, <1>0, <1>1, <2>1, <2>2, CpuType
<1>6. CASE RollLead(c) \/ LeadTooLate(c) \/ LeadClear(c)
  <2>1. PICK to \in PcSet :
          /\ pc' = [pc EXCEPT ![c] = to] /\ rollover' \in BOOLEAN
          /\ UNCHANGED <<hw, epoch, next, published, context, active, generation, observed,
                         version, freed, flush, seen, root, tlb, want, current, ack, stale, switches>>
    BY Zenon, <1>2, <1>6 DEF RollLead, LeadTooLate, LeadClear, Goto, mmVars
  <2> QED BY Zenon, <1>0, <1>1, <2>1, CpuType
<1>7. CASE LeadFlush(c)
  <2>1. /\ pc' = [pc EXCEPT ![c] = "sync"] /\ ack' = CPUs \ {c} /\ tlb' = [tlb EXCEPT ![c] = {}]
        /\ UNCHANGED <<hw, epoch, next, rollover, published, context, active, generation, observed,
                       version, freed, flush, seen, root, want, current, stale, switches>>
    BY Zenon, <1>7 DEF LeadFlush, Goto, mmVars, allocVars
  <2>2. ack' \subseteq CPUs
    BY <2>1
  <2> QED BY Zenon, <1>0, <1>1, <1>2, <1>4, <2>1, <2>2, CpuType
<1>8. CASE LeadNumber(c)
  <2>1. /\ pc' = [pc EXCEPT ![c] = "publish"] /\ epoch' = epoch + 1 /\ next' = 1 /\ pc[c] = "number"
        /\ UNCHANGED <<hw, rollover, published, context, active, generation, observed, ack,
                       version, freed, flush, seen, root, tlb, want, current, stale, switches>>
    BY Zenon, <1>8 DEF LeadNumber, Goto, At, mmVars
  <2>2. epoch < MaxEpoch
    BY <1>0, <2>1 DEF LeadInv
  <2>3. epoch' \in 1..MaxEpoch /\ next' \in 1..(MaxAsid + 1)
    BY <1>1, <2>1, <2>2
  <2> QED BY Zenon, <1>0, <1>1, <1>2, <2>1, <2>3, CpuType
<1>9. CASE LeadPublish(c)
  <2>1. /\ pc' = [pc EXCEPT ![c] = "clear"] /\ published' = epoch
        /\ UNCHANGED <<hw, epoch, next, rollover, context, active, generation, observed, ack,
                       version, freed, flush, seen, root, tlb, want, current, stale, switches>>
    BY Zenon, <1>9 DEF LeadPublish, Goto, mmVars
  <2> QED BY Zenon, <1>0, <1>1, <1>2, <2>1, CpuType
<1>10. CASE AckRollover(c)
  <2>1. /\ ack' = ack \ {c} /\ tlb' = [tlb EXCEPT ![c] = {}]
        /\ UNCHANGED <<hw, epoch, next, rollover, published, context, active, generation, observed,
                       version, freed, flush, seen, root, want, current, stale, switches>>
    BY Zenon, <1>10 DEF AckRollover, mmVars, allocVars
  <2>2. ack' \subseteq CPUs
    BY <1>1, <2>1
  <2>3. \E to \in PcSet : pc' = [pc EXCEPT ![c] = to]
    BY Zenon, <1>2, <1>3, <1>10 DEF AckRollover, Interrupted
  <2> QED BY Zenon, <1>0, <1>1, <1>4, <2>1, <2>2, <2>3, CpuType
<1> QED BY Zenon, <1>5, <1>6, <1>7, <1>8, <1>9, <1>10 DEF Roll, Moves

LEMMA MmType ==
  ASSUME IInv, NEW m \in MMs, MmStep(m)
  PROVE  TypeOK'
<1>0. TypeOK
  BY Zenon DEF IInv
<1>1. /\ hw \in Machines /\ MaxAsid \in Nat
      /\ epoch \in 1..MaxEpoch /\ next \in 1..(MaxAsid + 1) /\ published \in 1..MaxEpoch
      /\ seen \in [CPUs -> 0..MaxEpoch] /\ context \in [MMs -> Context]
      /\ active \in [MMs -> SUBSET CPUs] /\ observed \in [MMs -> [CPUs -> Nat]]
      /\ flush \in [MMs -> FlushRec] /\ generation \in [MMs -> Nat]
      /\ version \in [MMs -> 0..MaxVersion] /\ freed \in [MMs -> 0..MaxVersion]
      /\ root \in [CPUs -> RootRec] /\ tlb \in [CPUs -> SUBSET Entry]
      /\ pc \in [CPUs -> PcSet] /\ want \in [CPUs -> WantRec]
      /\ current \in [CPUs -> MMs \cup {NoMm}] /\ ack \subseteq CPUs
      /\ MaxEpoch \in Nat /\ rollover \in BOOLEAN /\ stale \in BOOLEAN
      /\ switches \in 0..MaxSwitches /\ MaxVersion \in Nat
  BY Zenon, <1>0, Typed DEF TypeOK
<1>2. flush[m] \in FlushRec
  BY Zenon, <1>1
<1>3. CASE WritePte(m) \/ FinishFlush(m)
  <2>1. UNCHANGED <<hw, epoch, next, rollover, published, context, active, observed, seen, root, tlb,
                    pc, want, current, ack, stale, switches>>
    BY Zenon, <1>3 DEF WritePte, FinishFlush, allocVars, cpuVars
  <2>2. /\ MaxAsid' = MaxAsid /\ Context' = Context /\ Entry' = Entry /\ FlushRec' = FlushRec
    BY Zenon, <2>1, SameTypes
  <2>3. /\ generation' \in [MMs -> Nat] /\ version' \in [MMs -> 0..MaxVersion]
        /\ freed' \in [MMs -> 0..MaxVersion] /\ flush' \in [MMs -> FlushRec]
    <3>1. CASE WritePte(m)
      <4>1. version[m] \in 0..MaxVersion /\ version[m] < MaxVersion /\ generation[m] \in Nat
            /\ context[m] \in Context /\ active[m] \in SUBSET CPUs
        BY Zenon, <1>1, <3>1 DEF WritePte
      <4>2. version[m] + 1 \in 0..MaxVersion /\ generation[m] + 1 \in Nat
        BY <1>1, <4>1
      <4>3. RequireFull(m) \in BOOLEAN
        BY Zenon DEF RequireFull
      <4>4. [targets |-> active[m], asid |-> context[m].asid, full |-> RequireFull(m),
             generation |-> generation[m] + 1] \in FlushRec
        BY <4>1, <4>2, <4>3 DEF FlushRec, Context
      <4>5. /\ version' = [version EXCEPT ![m] = version[m] + 1]
            /\ generation' = [generation EXCEPT ![m] = generation[m] + 1]
            /\ flush' = [flush EXCEPT ![m] =
                 [targets |-> active[m], asid |-> context[m].asid, full |-> RequireFull(m),
                  generation |-> generation[m] + 1]]
            /\ UNCHANGED freed
        BY Zenon, <3>1 DEF WritePte
      <4> QED BY Zenon, <1>1, <4>2, <4>4, <4>5
    <3>2. CASE FinishFlush(m)
      <4>1. NoFlush \in FlushRec
        BY <1>1 DEF NoFlush, FlushRec
      <4>2. version[m] \in 0..MaxVersion
        BY Zenon, <1>1
      <4> QED BY Zenon, <1>1, <3>2, <4>1, <4>2 DEF FinishFlush
    <3> QED BY Zenon, <1>3, <3>1, <3>2
  <2>4. /\ next' \in 1..(MaxAsid' + 1) /\ context' \in [MMs -> Context']
        /\ flush' \in [MMs -> FlushRec'] /\ root' \in [CPUs -> RootRec']
        /\ tlb' \in [CPUs -> SUBSET Entry'] /\ want' \in [CPUs -> WantRec']
    BY Zenon, <1>1, <2>1, <2>2, <2>3, SameTypes
  <2> QED BY Zenon, <1>1, <2>1, <2>3, <2>4 DEF TypeOK, PcSet, RootRec, WantRec
<1>4. ASSUME NEW d \in CPUs, FlushTarget(m, d)
      PROVE  TypeOK'
  <2>1. /\ flush' = [flush EXCEPT ![m].targets = @ \ {d}]
        /\ UNCHANGED <<hw, epoch, next, rollover, published, context, active, generation, version,
                       freed, seen, root, want, current, ack, stale, switches>>
    BY Zenon, <1>4 DEF FlushTarget, allocVars
  <2>2. [flush[m] EXCEPT !.targets = @ \ {d}] \in FlushRec
    BY <1>2 DEF FlushRec
  <2>3. flush' \in [MMs -> FlushRec]
    BY Zenon, <1>1, <2>1, <2>2
  <2>4. tlb' \in [CPUs -> SUBSET Entry]
    <3>1. \E some : some \subseteq tlb[d] /\ tlb' = [tlb EXCEPT ![d] = some]
      <4>1. tlb' = [tlb EXCEPT ![d] = IF flush[m].full THEN {}
                                      ELSE {e \in tlb[d] : e.asid # flush[m].asid}]
        BY Zenon, <1>4 DEF FlushTarget
      <4>2. (IF flush[m].full THEN {} ELSE {e \in tlb[d] : e.asid # flush[m].asid}) \subseteq tlb[d]
        BY Zenon
      <4> QED BY Zenon, <4>1, <4>2
    <3> QED BY <1>1, <3>1
  <2>5. observed' \in [MMs -> [CPUs -> Nat]]
    <3>1. observed[m] \in [CPUs -> Nat] /\ flush[m].generation \in Nat
      BY <1>1, <1>2 DEF FlushRec
    <3>2. observed' = [observed EXCEPT ![m] = [observed[m] EXCEPT ![d] =
                         IF observed[m][d] < flush[m].generation THEN flush[m].generation
                         ELSE observed[m][d]]]
      BY Zenon, <1>4 DEF FlushTarget
    <3>3. [observed[m] EXCEPT ![d] =
             IF observed[m][d] < flush[m].generation THEN flush[m].generation
             ELSE observed[m][d]] \in [CPUs -> Nat]
      BY Zenon, <3>1
    <3> QED BY Zenon, <1>1, <3>2, <3>3
  <2>6. \E to \in PcSet : pc' = [pc EXCEPT ![d] = to]
    <3>1. "kernel" \in PcSet /\ pc[d] \in PcSet /\ pc = [pc EXCEPT ![d] = pc[d]]
      BY <1>1 DEF PcSet
    <3> QED BY Zenon, <1>4, <3>1 DEF FlushTarget, Interrupted
  <2> QED BY Zenon, <1>0, <1>1, <2>1, <2>3, <2>4, <2>5, <2>6, CpuType
<1> QED BY Zenon, <1>3, <1>4 DEF MmStep

LEMMA TypeNext ==
  ASSUME IInv, [Next]_vars
  PROVE  TypeOK'
<1>1. CASE UNCHANGED vars
  <2>1. UNCHANGED <<hw, epoch, next, rollover, published, context, active, generation, observed,
                    version, freed, flush, seen, root, tlb, pc, want, current, ack, stale, switches>>
    BY Zenon, <1>1 DEF vars, allocVars, mmVars, cpuVars
  <2>2. /\ MaxAsid' = MaxAsid /\ Context' = Context /\ Entry' = Entry /\ FlushRec' = FlushRec
    BY Zenon, <2>1, SameTypes
  <2> QED BY Zenon, <2>1, <2>2 DEF IInv, TypeOK
<1>2. ASSUME NEW c \in CPUs, CpuStep(c)
      PROVE  TypeOK'
  BY Zenon, <1>2, AddressType, RollType DEF CpuStep, Moves
<1> QED BY Zenon, <1>1, <1>2, MmType DEF Next

-----------------------------------------------------------------------------
LEMMA PcStep ==
  ASSUME TypeOK, NEW c \in CPUs, NEW to, pc' = [pc EXCEPT ![c] = to]
  PROVE  pc'[c] = to /\ \A d \in CPUs \ {c} : pc'[d] = pc[d]
BY Zenon, Typed

(* What the step of one CPU leaves alone. *)
LEMMA CpuFrame ==
  ASSUME IInv, NEW c \in CPUs, CpuStep(c)
  PROVE  /\ UNCHANGED <<generation, version, freed, flush>>
         /\ \A d \in CPUs \ {c} :
              /\ pc'[d] = pc[d] /\ want'[d] = want[d] /\ current'[d] = current[d]
              /\ root'[d] = root[d] /\ seen'[d] = seen[d] /\ tlb'[d] = tlb[d]
              /\ \A m \in MMs : d \in active'[m] <=> d \in active[m]
<1>0. TypeOK
  BY Zenon DEF IInv
<1>1. /\ pc \in [CPUs -> PcSet] /\ want \in [CPUs -> WantRec]
      /\ current \in [CPUs -> MMs \cup {NoMm}] /\ tlb \in [CPUs -> SUBSET Entry]
      /\ active \in [MMs -> SUBSET CPUs]
  BY Zenon, <1>0, Typed
<1>2. CASE Fill(c)
  BY Zenon, <1>1, <1>2 DEF Fill, mmVars
<1>3. CASE Assign(c)
  <2>1. PICK m \in MMs, ctx \in Context :
          want' = [want EXCEPT ![c].context = ctx] /\ ActivateCpu(m, c)
    BY Zenon, <1>3, AssignFacts
  <2>2. /\ \A d \in CPUs \ {c} : observed'[m][d] = observed[m][d] /\ tlb'[d] = tlb[d]
        /\ active'[m] = active[m] \cup {c}
        /\ \A n \in MMs \ {m} : active'[n] = active[n] /\ observed'[n] = observed[n]
    <3>1. ActivateCpu(m, c)
      BY Zenon, <2>1
    <3>2. /\ active'[m] = active[m] \cup {c}
          /\ \A n \in MMs \ {m} : active'[n] = active[n] /\ observed'[n] = observed[n]
      BY ZenonT(30), <1>0, <3>1, ActivateFacts
    <3>3. \A d \in CPUs \ {c} : observed'[m][d] = observed[m][d] /\ tlb'[d] = tlb[d]
      BY ZenonT(30), <1>0, <3>1, ActivateFacts
    <3> QED BY Zenon, <3>2, <3>3
  <2>3. \A d \in CPUs \ {c}, n \in MMs : d \in active'[n] <=> d \in active[n]
    BY <2>2
  <2>4. /\ UNCHANGED <<generation, version, freed, flush, seen, root, current>>
        /\ pc' = [pc EXCEPT ![c] = "install"]
    BY Zenon, <1>3 DEF Assign, Goto
  <2> QED BY Zenon, <1>1, <2>1, <2>2, <2>3, <2>4
<1>4. CASE Install(c)
  <2>1. PICK m \in MMs, ctx \in Context :
          /\ Write(c, m, ctx)
          /\ pc' = [pc EXCEPT ![c] = "user"]
          /\ active' = IF current[c] \in {m, NoMm} THEN active
                       ELSE [active EXCEPT ![current[c]] = @ \ {c}]
          /\ current' = [current EXCEPT ![c] = m]
          /\ want' = [want EXCEPT ![c] = [mm |-> NoMm, context |-> None]]
    BY Zenon, <1>4, InstallFacts
  <2>2. \A d \in CPUs \ {c} : root'[d] = root[d] /\ seen'[d] = seen[d] /\ tlb'[d] = tlb[d]
    BY ZenonT(30), <1>0, <2>1, WriteFacts
  <2>3. \A d \in CPUs \ {c}, n \in MMs : d \in active'[n] <=> d \in active[n]
    BY <1>1, <2>1
  <2>4. UNCHANGED <<generation, version, freed, flush>>
    BY Zenon, <1>4 DEF Install
  <2> QED BY Zenon, <1>1, <2>1, <2>2, <2>3, <2>4
<1>5. CASE InstallKernel(c)
  <2>1. PICK ctx \in Context :
          /\ Write(c, NoMm, ctx)
          /\ pc' = [pc EXCEPT ![c] = "kernel"]
          /\ active' = [active EXCEPT ![current[c]] = @ \ {c}]
          /\ current' = [current EXCEPT ![c] = NoMm]
          /\ want' = [want EXCEPT ![c].context = None]
    BY Zenon, <1>5, KernelFacts
  <2>2. \A d \in CPUs \ {c} : root'[d] = root[d] /\ seen'[d] = seen[d] /\ tlb'[d] = tlb[d]
    BY ZenonT(30), <1>0, <2>1, WriteFacts
  <2>3. \A d \in CPUs \ {c}, n \in MMs : d \in active'[n] <=> d \in active[n]
    BY <1>1, <2>1
  <2>4. UNCHANGED <<generation, version, freed, flush>>
    BY Zenon, <1>5 DEF InstallKernel
  <2> QED BY Zenon, <1>1, <2>1, <2>2, <2>3, <2>4
<1>6. CASE LeaveUserVm(c)
  BY Zenon, <1>1, <1>6 DEF LeaveUserVm, Goto, mmVars
<1>7. CASE LeaveKeepingRoot(c)
  <2>1. \A d \in CPUs \ {c}, n \in MMs : d \in active'[n] <=> d \in active[n]
    BY <1>1, <1>7 DEF LeaveKeepingRoot
  <2> QED BY Zenon, <1>1, <1>7, <2>1 DEF LeaveKeepingRoot
<1>8. ASSUME NEW m \in MMs, SwitchUserVm(c, m)
      PROVE  /\ UNCHANGED <<generation, version, freed, flush, root, seen, tlb>>
             /\ \A d \in CPUs \ {c} :
                  /\ pc'[d] = pc[d] /\ want'[d] = want[d] /\ current'[d] = current[d]
                  /\ \A n \in MMs : d \in active'[n] <=> d \in active[n]
  <2>1. CASE UNCHANGED <<active, current>>
    BY Zenon, <1>1, <1>8, <2>1 DEF SwitchUserVm, Goto
  <2>2. CASE /\ active' = [active EXCEPT ![current[c]] = @ \ {c}]
             /\ current' = [current EXCEPT ![c] = NoMm]
    <3>1. \A d \in CPUs \ {c}, n \in MMs : d \in active'[n] <=> d \in active[n]
      BY <1>1, <2>2
    <3> QED BY Zenon, <1>1, <1>8, <2>2, <3>1 DEF SwitchUserVm, Goto
  <2> QED BY Zenon, <1>8, <2>1, <2>2 DEF SwitchUserVm
<1>9. CASE Moves(c)
  <2>1. PICK to \in {"kernel", "roll", "assign", "cas", "wait", "number"} :
          /\ pc' = [pc EXCEPT ![c] = to]
          /\ UNCHANGED <<active, generation, version, freed, flush, seen, root, tlb, want, current>>
    BY Zenon, <1>9, MovesFacts
  <2> QED BY Zenon, <1>1, <2>1
<1>10. CASE RollLead(c) \/ LeadTooLate(c) \/ LeadClear(c) \/ LeadNumber(c) \/ LeadPublish(c)
  BY Zenon, <1>1, <1>10 DEF RollLead, LeadTooLate, LeadClear, LeadNumber, LeadPublish, Goto, mmVars
<1>11. CASE LeadFlush(c)
  BY Zenon, <1>1, <1>11 DEF LeadFlush, Goto, mmVars
<1>12. CASE AckRollover(c)
  BY Zenon, <1>1, <1>12 DEF AckRollover, Interrupted, mmVars
<1> QED
  BY Zenon, <1>2, <1>3, <1>4, <1>5, <1>6, <1>7, <1>8, <1>9, <1>10, <1>11, <1>12
  DEF CpuStep, Roll, Moves

-----------------------------------------------------------------------------
(* A step that neither makes nor moves a leader. *)
LEMMA LeadSame ==
  ASSUME LeadInv, UNCHANGED <<rollover, ack, epoch>>,
         \A c \in CPUs : pc'[c] = pc[c] \/ (~Leads(c) /\ ~Leads(c)')
  PROVE  LeadInv'
<1>1. \A c \in CPUs : Leads(c)' => Leads(c) /\ pc'[c] = pc[c]
  BY Zenon DEF Leads, Past
<1>2. \A c \in CPUs : Leads(c) => pc'[c] = pc[c]
  BY Zenon
<1>3. \A c \in CPUs : pc[c] \in {"sync", "number"} => Leads(c)
  BY DEF Leads, Past
<1>4. \A c \in CPUs : (pc[c] \in {"sync", "number"})' => Leads(c)'
  BY DEF Leads, Past
<1>5. \A d \in ack' : \E c \in CPUs \ ack' : pc'[c] = "sync"
  <2> SUFFICES ASSUME NEW d \in ack
               PROVE  \E c \in CPUs \ ack : pc'[c] = "sync"
    BY Zenon
  <2>1. PICK c \in CPUs \ ack : pc[c] = "sync"
    BY Zenon DEF LeadInv
  <2>2. pc'[c] = pc[c]
    BY <1>2, <1>3, <2>1
  <2> QED BY Zenon, <2>1, <2>2
<1> QED BY Zenon, <1>1, <1>4, <1>5 DEF LeadInv

(* While the leader is past a point, nobody else leads. *)
LEMMA OneLeader ==
  ASSUME LeadInv, NEW c \in CPUs, Leads(c)
  PROVE  /\ rollover /\ \A d \in CPUs \ {c} : ~Leads(d) /\ ~Past(d)
         /\ pc[c] # "sync" => ack = {}
<1>1. rollover /\ \A d \in CPUs \ {c} : ~Leads(d)
  BY Zenon DEF LeadInv
<1>2. \A d \in CPUs \ {c} : ~Past(d)
  BY Zenon, <1>1 DEF Leads
<1>3. ASSUME pc[c] # "sync", NEW d \in ack
      PROVE  FALSE
  <2>1. PICK e \in CPUs \ ack : pc[e] = "sync"
    BY Zenon DEF LeadInv
  <2>2. Leads(e)
    BY <2>1 DEF Leads, Past
  <2> QED BY Zenon, <1>1, <1>3, <2>1, <2>2
<1> QED BY Zenon, <1>1, <1>2, <1>3

LEMMA LeadNext ==
  ASSUME IInv, [Next]_vars
  PROVE  LeadInv'
<1>0. TypeOK /\ LeadInv
  BY Zenon DEF IInv
<1>1. CASE UNCHANGED vars
  BY Zenon, <1>0, <1>1, LeadSame DEF vars, allocVars, cpuVars
<1>2. ASSUME NEW c \in CPUs, NEW to, pc' = [pc EXCEPT ![c] = to], UNCHANGED <<rollover, ack, epoch>>,
             pc[c] \notin {"lead", "sync", "number", "publish", "clear"},
             to \notin {"lead", "sync", "number", "publish", "clear"}
      PROVE  LeadInv'
  <2>1. pc'[c] = to /\ \A d \in CPUs \ {c} : pc'[d] = pc[d]
    BY Zenon, <1>0, <1>2, PcStep
  <2>2. ~Leads(c) /\ ~Leads(c)'
    BY <1>2, <2>1 DEF Leads, Past
  <2> QED BY Zenon, <1>0, <1>2, <2>1, <2>2, LeadSame
<1>3. ASSUME NEW c \in CPUs, Fill(c) \/ LeaveKeepingRoot(c)
      PROVE  LeadInv'
  BY Zenon, <1>0, <1>3, LeadSame DEF Fill, LeaveKeepingRoot, allocVars
<1>4. ASSUME NEW c \in CPUs,
             Assign(c) \/ Install(c) \/ LeaveUserVm(c) \/ InstallKernel(c)
               \/ \E m \in MMs : SwitchUserVm(c, m)
      PROVE  LeadInv'
  <2>1. \E from \in {"assign", "install", "kernel", "leave"},
           to \in {"install", "user", "leave", "kernel", "assign"} :
          /\ pc[c] = from /\ pc' = [pc EXCEPT ![c] = to] /\ UNCHANGED <<rollover, ack, epoch>>
    BY <1>4 DEF Assign, Install, LeaveUserVm, InstallKernel, SwitchUserVm, At, Goto, allocVars
  <2>2. PICK from \in {"assign", "install", "kernel", "leave"},
             to \in {"install", "user", "leave", "kernel", "assign"} :
          /\ pc[c] = from /\ pc' = [pc EXCEPT ![c] = to] /\ UNCHANGED <<rollover, ack, epoch>>
    BY Zenon, <2>1
  <2>3. /\ pc[c] \notin {"lead", "sync", "number", "publish", "clear"}
        /\ to \notin {"lead", "sync", "number", "publish", "clear"}
    BY <2>2
  <2> QED BY Zenon, <1>2, <2>2, <2>3
<1>5. ASSUME NEW c \in CPUs, Moves(c)
      PROVE  LeadInv'
  <2>1. PICK from \in {"user", "assign", "roll", "cas", "wait", "sync"},
             to \in {"kernel", "roll", "assign", "cas", "wait", "number"} :
          /\ pc[c] = from /\ pc' = [pc EXCEPT ![c] = to]
          /\ from = "sync" <=> to = "number"
          /\ to = "number" => ack = {}
          /\ to = "kernel" <=> from = "user"
          /\ UNCHANGED <<hw, epoch, next, rollover, published, context, active, generation, observed,
                         version, freed, flush, seen, root, tlb, want, current, ack, stale, switches>>
    BY Zenon, <1>5, MovesFacts
  <2>2. CASE to # "number"
    <3>1. /\ pc[c] \notin {"lead", "sync", "number", "publish", "clear"}
          /\ to \notin {"lead", "sync", "number", "publish", "clear"}
      BY <2>1, <2>2
    <3> QED BY Zenon, <1>2, <2>1, <3>1
  <2>3. CASE to = "number"
    <3>1. pc[c] = "sync" /\ pc'[c] = "number" /\ ack = {} /\ \A d \in CPUs \ {c} : pc'[d] = pc[d]
      BY Zenon, <1>0, <2>1, <2>3, PcStep
    <3>2. Leads(c) /\ epoch < MaxEpoch
      BY <1>0, <3>1 DEF Leads, Past, LeadInv
    <3>3. rollover /\ \A d \in CPUs \ {c} : ~Leads(d) /\ ~Past(d)
      BY Zenon, <1>0, <3>2, OneLeader
    <3>4. \A d \in CPUs \ {c} : ~Leads(d)'
      BY Zenon, <3>1, <3>3 DEF Leads, Past
    <3> QED BY Zenon, <2>1, <3>1, <3>2, <3>3, <3>4 DEF LeadInv
  <2> QED BY Zenon, <2>2, <2>3
<1>6. ASSUME NEW c \in CPUs, RollLead(c)
      PROVE  LeadInv'
  <2>1. /\ pc' = [pc EXCEPT ![c] = "lead"] /\ ~rollover /\ rollover' = TRUE
        /\ UNCHANGED <<ack, epoch>>
    BY Zenon, <1>6 DEF RollLead, Goto
  <2>2. pc'[c] = "lead" /\ \A d \in CPUs \ {c} : pc'[d] = pc[d]
    BY Zenon, <1>0, <2>1, PcStep
  <2>3. \A d \in CPUs : ~Leads(d)
    BY Zenon, <1>0, <2>1 DEF LeadInv
  <2>4. ack = {}
    BY <1>0, <2>3 DEF LeadInv, Leads, Past
  <2>5. \A d \in CPUs \ {c} : ~Leads(d)'
    BY Zenon, <2>2, <2>3 DEF Leads, Past
  <2>6. \A d \in CPUs : pc'[d] \notin {"sync", "number"}
    BY <2>2, <2>5 DEF Leads, Past
  <2> QED BY Zenon, <2>1, <2>4, <2>5, <2>6 DEF LeadInv
<1>7. ASSUME NEW c \in CPUs, NEW to \in {"assign", "publish", "clear"},
             pc[c] \in {"lead", "number", "publish", "clear"}, pc' = [pc EXCEPT ![c] = to],
             UNCHANGED ack, to # "assign" => UNCHANGED rollover
      PROVE  LeadInv'
  <2>1. pc'[c] = to /\ \A d \in CPUs \ {c} : pc'[d] = pc[d]
    BY Zenon, <1>0, <1>7, PcStep
  <2>2. Leads(c) /\ pc[c] # "sync"
    BY <1>7 DEF Leads, Past
  <2>3. rollover /\ ack = {} /\ \A d \in CPUs \ {c} : ~Leads(d)
    BY Zenon, <1>0, <2>2, OneLeader
  <2>4. \A d \in CPUs \ {c} : ~Leads(d)'
    BY Zenon, <2>1, <2>3 DEF Leads, Past
  <2>5. Leads(c)' => to # "assign"
    BY <2>1 DEF Leads, Past
  <2>6. \A d \in CPUs : pc'[d] \notin {"sync", "number"}
    BY <1>7, <2>1, <2>4 DEF Leads, Past
  <2> QED BY Zenon, <1>7, <2>3, <2>4, <2>5, <2>6 DEF LeadInv
<1>8. ASSUME NEW c \in CPUs, LeadTooLate(c) \/ LeadClear(c) \/ LeadNumber(c) \/ LeadPublish(c)
      PROVE  LeadInv'
  <2>1. \E to \in {"assign", "publish", "clear"} :
          /\ pc[c] \in {"lead", "number", "publish", "clear"} /\ pc' = [pc EXCEPT ![c] = to]
          /\ UNCHANGED ack /\ (to # "assign" => UNCHANGED rollover)
    BY <1>8 DEF LeadTooLate, LeadClear, LeadNumber, LeadPublish, At, Goto
  <2> QED BY Zenon, <1>7, <2>1
<1>9. ASSUME NEW c \in CPUs, LeadFlush(c)
      PROVE  LeadInv'
  <2>1. /\ pc[c] = "lead" /\ pc' = [pc EXCEPT ![c] = "sync"] /\ ack' = CPUs \ {c}
        /\ epoch < MaxEpoch /\ UNCHANGED <<rollover, epoch>>
    BY Zenon, <1>9 DEF LeadFlush, At, Goto, allocVars
  <2>2. pc'[c] = "sync" /\ \A d \in CPUs \ {c} : pc'[d] = pc[d]
    BY Zenon, <1>0, <2>1, PcStep
  <2>3. Leads(c)
    BY <2>1 DEF Leads
  <2>4. rollover /\ \A d \in CPUs \ {c} : ~Leads(d)
    BY Zenon, <1>0, <2>3, OneLeader
  <2>5. \A d \in CPUs \ {c} : ~Leads(d)'
    BY Zenon, <2>2, <2>4 DEF Leads, Past
  <2>6. c \in CPUs \ ack'
    BY <2>1
  <2> QED BY Zenon, <2>1, <2>2, <2>4, <2>5, <2>6 DEF LeadInv
<1>10. ASSUME NEW d \in CPUs, pc' = Interrupted(d) \/ pc' = pc, UNCHANGED <<rollover, ack, epoch>>
       PROVE  LeadInv'
  <2>1. CASE pc' = pc
    BY Zenon, <1>0, <1>10, <2>1, LeadSame
  <2>2. CASE pc[d] = "user" /\ pc' = [pc EXCEPT ![d] = "kernel"]
    BY Zenon, <1>2, <1>10, <2>2
  <2> QED BY Zenon, <1>10, <2>1, <2>2 DEF Interrupted
<1>11. ASSUME NEW d \in CPUs, AckRollover(d)
       PROVE  LeadInv'
  <2>1. d \in ack /\ ack' = ack \ {d} /\ pc' = Interrupted(d) /\ UNCHANGED <<rollover, epoch>>
    BY Zenon, <1>11 DEF AckRollover, allocVars
  <2>2. \A c \in CPUs : pc'[c] = pc[c] \/ (~Leads(c) /\ ~Leads(c)')
    <3>1. CASE pc' = pc
      BY Zenon, <3>1
    <3>2. CASE pc[d] = "user" /\ pc' = [pc EXCEPT ![d] = "kernel"]
      <4>1. pc'[d] = "kernel" /\ \A c \in CPUs \ {d} : pc'[c] = pc[c]
        BY Zenon, <1>0, <3>2, PcStep
      <4>2. ~Leads(d) /\ ~Leads(d)'
        BY <3>2, <4>1 DEF Leads, Past
      <4> QED BY Zenon, <4>1, <4>2
    <3> QED BY Zenon, <2>1, <3>1, <3>2 DEF Interrupted
  <2>3. PICK c \in CPUs \ ack : pc[c] = "sync"
    BY Zenon, <1>0, <2>1 DEF LeadInv
  <2>4. Leads(c)
    BY <2>3 DEF Leads, Past
  <2>5. pc'[c] = "sync" /\ c \in CPUs \ ack'
    BY Zenon, <2>1, <2>2, <2>3, <2>4
  <2>6. \A e \in CPUs : Leads(e)' => Leads(e) /\ pc'[e] = pc[e]
    BY Zenon, <2>2 DEF Leads, Past
  <2>7. \A e \in CPUs : pc'[e] \in {"sync", "number"} => epoch < MaxEpoch
    <3> SUFFICES ASSUME NEW e \in CPUs, pc'[e] \in {"sync", "number"}
                 PROVE  epoch < MaxEpoch
      OBVIOUS
    <3>1. Leads(e)'
      BY DEF Leads, Past
    <3> QED BY Zenon, <1>0, <2>6, <3>1 DEF LeadInv
  <2> QED BY Zenon, <1>0, <2>1, <2>5, <2>6, <2>7 DEF LeadInv
<1>12. ASSUME NEW m \in MMs, MmStep(m)
       PROVE  LeadInv'
  <2>1. CASE WritePte(m) \/ FinishFlush(m)
    BY Zenon, <1>0, <2>1, LeadSame DEF WritePte, FinishFlush, allocVars, cpuVars
  <2>2. ASSUME NEW d \in CPUs, FlushTarget(m, d)
        PROVE  LeadInv'
    BY Zenon, <1>10, <2>2 DEF FlushTarget, allocVars
  <2> QED BY Zenon, <1>12, <2>1, <2>2 DEF MmStep
<1> QED
  BY Zenon, <1>1, <1>3, <1>4, <1>5, <1>6, <1>8, <1>9, <1>11, <1>12 DEF Next, CpuStep, Roll, Moves

-----------------------------------------------------------------------------
(* A step that moves no CPU past a point of the rollover. *)
LEMMA HoldSame ==
  ASSUME HoldInv, hw' = hw, UNCHANGED ack,
         \A c \in CPUs : Past(c)' => Past(c),
         \A c \in CPUs : (Hardware /\ Holds(c)' => Holds(c) \/ \A d \in CPUs : ~Past(d)),
         \A c \in CPUs : tlb'[c] \subseteq tlb[c] \/ (~Riscv => Holds(c) /\ Hardware)
  PROVE  HoldInv'
<1>1. (Riscv' <=> Riscv) /\ (Hardware' <=> Hardware)
  BY Zenon, SameTypes
<1>2. ASSUME NEW c \in CPUs, Hardware', Holds(c)', NEW d \in CPUs, Past(d)'
      PROVE  c \in ack'
  BY Zenon, <1>1, <1>2 DEF HoldInv
<1>3. ASSUME NEW c \in CPUs, ~Riscv', NEW d \in CPUs, Past(d)', c \notin ack'
      PROVE  tlb'[c] = {}
  <2>1. ~Riscv /\ Past(d) /\ c \notin ack
    BY Zenon, <1>1, <1>3
  <2>2. tlb[c] = {}
    BY Zenon, <2>1 DEF HoldInv
  <2>3. tlb'[c] \subseteq tlb[c]
    BY Zenon, <2>1 DEF HoldInv
  <2> QED BY <2>2, <2>3
<1> QED BY Zenon, <1>2, <1>3 DEF HoldInv

(* What the return of an IPI handler does to the place of its CPU. *)
LEMMA InterruptedFacts ==
  ASSUME TypeOK, NEW d \in CPUs, pc' = Interrupted(d)
  PROVE  /\ pc'[d] = IF pc[d] = "user" THEN "kernel" ELSE pc[d]
         /\ \A c \in CPUs \ {d} : pc'[c] = pc[c]
<1>1. CASE pc[d] = "user"
  <2>1. pc' = [pc EXCEPT ![d] = "kernel"]
    BY Zenon, <1>1 DEF Interrupted
  <2>2. pc'[d] = "kernel" /\ \A c \in CPUs \ {d} : pc'[c] = pc[c]
    BY Zenon, <2>1, PcStep
  <2> QED BY Zenon, <1>1, <2>2
<1>2. CASE pc[d] # "user"
  BY Zenon, <1>2 DEF Interrupted
<1> QED BY Zenon, <1>1, <1>2

LEMMA HoldNext ==
  ASSUME IInv, [Next]_vars
  PROVE  HoldInv'
<1>0. TypeOK /\ LeadInv /\ HoldInv /\ hw' = hw
  BY Zenon, HwStep DEF IInv
<1>1. (Riscv' <=> Riscv) /\ (Hardware' <=> Hardware) /\ (~Riscv => Hardware)
  BY Zenon, <1>0, SameTypes, Typed
<1>2. tlb \in [CPUs -> SUBSET Entry]
  BY Zenon, <1>0, Typed
<1>3. CASE UNCHANGED vars
  <2>1. UNCHANGED <<hw, pc, ack, tlb>>
    BY Zenon, <1>3 DEF vars, cpuVars
  <2> QED BY Zenon, <1>0, <1>1, <2>1, HoldSame DEF Past, Holds
<1>4. ASSUME NEW c \in CPUs, Fill(c)
      PROVE  HoldInv'
  <2>1. UNCHANGED <<pc, ack>> /\ (Riscv \/ pc[c] = "user") /\ \A d \in CPUs \ {c} : tlb'[d] = tlb[d]
    BY Zenon, <1>2, <1>4 DEF Fill
  <2>2. ~Riscv => Holds(c)
    BY Zenon, <2>1 DEF Holds
  <2>3. \A d \in CPUs : Past(d)' = Past(d) /\ (Holds(d)' <=> Holds(d))
    BY Zenon, <1>1, <2>1 DEF Past, Holds
  <2>4. \A d \in CPUs : tlb'[d] \subseteq tlb[d] \/ (~Riscv => Holds(d) /\ Hardware)
    BY Zenon, <1>1, <2>1, <2>2
  <2> QED BY Zenon, <1>0, <2>1, <2>3, <2>4, HoldSame
<1>5. ASSUME NEW c \in CPUs, NEW to, pc'[c] = to, \A d \in CPUs \ {c} : pc'[d] = pc[d],
             UNCHANGED ack, \A d \in CPUs : tlb'[d] \subseteq tlb[d],
             to \in {"sync", "number", "publish", "clear"} => Past(c),
             to \in {"install", "user"} /\ Hardware
               => (to = "user" /\ (Riscv \/ Holds(c))) \/ \A d \in CPUs : ~Past(d)
      PROVE  HoldInv'
  <2>1. \A d \in CPUs : Past(d)' => Past(d)
    BY Zenon, <1>5 DEF Past
  <2>2. \A d \in CPUs \ {c} : Holds(d)' <=> Holds(d)
    BY Zenon, <1>1, <1>5 DEF Holds
  <2>3. Hardware /\ Holds(c)' => Holds(c) \/ \A d \in CPUs : ~Past(d)
    <3>1. Holds(c)' => to = "install" \/ (~Riscv /\ to = "user")
      BY Zenon, <1>1, <1>5 DEF Holds
    <3>2. to = "install" => to # "user"
      OBVIOUS
    <3> QED BY Zenon, <1>5, <3>1, <3>2
  <2> QED BY Zenon, <1>0, <1>5, <2>1, <2>2, <2>3, HoldSame
<1>6. ASSUME NEW c \in CPUs, Assign(c)
      PROVE  HoldInv'
  <2>1. PICK m \in MMs, ctx \in Context : ActivateCpu(m, c) /\ (Hardware => ~rollover)
    BY Zenon, <1>6, AssignFacts
  <2>2. ActivateCpu(m, c)
    BY Zenon, <2>1
  <2>3. /\ \A d \in CPUs \ {c} : observed'[m][d] = observed[m][d] /\ tlb'[d] = tlb[d]
        /\ tlb'[c] = IF observed[m][c] < generation[m] THEN {} ELSE tlb[c]
    BY ZenonT(30), <1>0, <2>2, ActivateFacts
  <2>4. \A d \in CPUs : tlb'[d] \subseteq tlb[d]
    BY <2>3
  <2>5. pc' = [pc EXCEPT ![c] = "install"] /\ UNCHANGED ack
    BY Zenon, <1>6 DEF Assign, Goto
  <2>6. pc'[c] = "install" /\ \A d \in CPUs \ {c} : pc'[d] = pc[d]
    BY Zenon, <1>0, <2>5, PcStep
  <2>7. Hardware => \A d \in CPUs : ~Past(d)
    BY Zenon, <1>0, <2>1 DEF LeadInv, Leads
  <2>8. "install" \notin {"sync", "number", "publish", "clear"}
    OBVIOUS
  <2> QED BY Zenon, <1>5, <2>4, <2>5, <2>6, <2>7, <2>8
<1>7. ASSUME NEW c \in CPUs, Install(c)
      PROVE  HoldInv'
  <2>1. PICK m \in MMs, ctx \in Context : Write(c, m, ctx) /\ pc[c] = "install"
    BY Zenon, <1>7, InstallFacts
  <2>2. /\ \A d \in CPUs \ {c} : root'[d] = root[d] /\ seen'[d] = seen[d] /\ tlb'[d] = tlb[d]
        /\ tlb'[c] = {} \/ tlb'[c] = tlb[c]
    BY ZenonT(30), <1>0, <2>1, WriteFacts
  <2>3. \A d \in CPUs : tlb'[d] \subseteq tlb[d]
    BY <2>2
  <2>4. pc' = [pc EXCEPT ![c] = "user"] /\ UNCHANGED ack
    BY Zenon, <1>7 DEF Install, Goto
  <2>5. pc'[c] = "user" /\ \A d \in CPUs \ {c} : pc'[d] = pc[d]
    BY Zenon, <1>0, <2>4, PcStep
  <2>6. Holds(c) /\ "user" \notin {"sync", "number", "publish", "clear"}
    BY <2>1 DEF Holds
  <2> QED BY Zenon, <1>5, <2>3, <2>4, <2>5, <2>6
<1>8. ASSUME NEW c \in CPUs, InstallKernel(c)
      PROVE  HoldInv'
  <2>1. PICK ctx \in Context : Write(c, NoMm, ctx)
    BY Zenon, <1>8, KernelFacts
  <2>2. /\ \A d \in CPUs \ {c} : root'[d] = root[d] /\ seen'[d] = seen[d] /\ tlb'[d] = tlb[d]
        /\ tlb'[c] = {} \/ tlb'[c] = tlb[c]
    BY ZenonT(30), <1>0, <2>1, WriteFacts
  <2>3. \A d \in CPUs : tlb'[d] \subseteq tlb[d]
    BY <2>2
  <2>4. pc' = [pc EXCEPT ![c] = "kernel"] /\ UNCHANGED ack
    BY Zenon, <1>8 DEF InstallKernel, Goto
  <2>5. pc'[c] = "kernel" /\ \A d \in CPUs \ {c} : pc'[d] = pc[d]
    BY Zenon, <1>0, <2>4, PcStep
  <2>6. "kernel" \notin {"sync", "number", "publish", "clear"} /\ "kernel" \notin {"install", "user"}
    OBVIOUS
  <2> QED BY Zenon, <1>5, <2>3, <2>4, <2>5, <2>6
<1>9. ASSUME NEW c \in CPUs, NEW to \in {"kernel", "roll", "assign", "cas", "wait", "lead", "leave"},
             pc' = [pc EXCEPT ![c] = to], UNCHANGED <<ack, tlb>>
      PROVE  HoldInv'
  <2>1. pc'[c] = to /\ \A d \in CPUs \ {c} : pc'[d] = pc[d]
    BY Zenon, <1>0, <1>9, PcStep
  <2>2. to \notin {"sync", "number", "publish", "clear"} /\ to \notin {"install", "user"}
    BY <1>9
  <2> QED BY Zenon, <1>5, <1>9, <2>1, <2>2
<1>10. ASSUME NEW c \in CPUs, NEW to \in {"number", "publish", "clear"}, Past(c),
              pc' = [pc EXCEPT ![c] = to], UNCHANGED <<ack, tlb>>
       PROVE  HoldInv'
  <2>1. pc'[c] = to /\ \A d \in CPUs \ {c} : pc'[d] = pc[d]
    BY Zenon, <1>0, <1>10, PcStep
  <2>2. to \notin {"install", "user"}
    BY <1>10
  <2> QED BY Zenon, <1>5, <1>10, <2>1, <2>2
<1>11. ASSUME NEW c \in CPUs, Moves(c)
       PROVE  HoldInv'
  <2>1. PICK from \in {"user", "assign", "roll", "cas", "wait", "sync"},
             to \in {"kernel", "roll", "assign", "cas", "wait", "number"} :
          /\ pc[c] = from /\ pc' = [pc EXCEPT ![c] = to]
          /\ from = "sync" <=> to = "number"
          /\ to = "number" => ack = {}
          /\ to = "kernel" <=> from = "user"
          /\ UNCHANGED <<hw, epoch, next, rollover, published, context, active, generation, observed,
                         version, freed, flush, seen, root, tlb, want, current, ack, stale, switches>>
    BY Zenon, <1>11, MovesFacts
  <2>2. CASE to = "number"
    <3>1. Past(c)
      BY <2>1, <2>2 DEF Past
    <3> QED BY Zenon, <1>10, <2>1, <2>2, <3>1
  <2>3. CASE to # "number"
    BY Zenon, <1>9, <2>1, <2>3
  <2> QED BY Zenon, <2>2, <2>3
<1>12. ASSUME NEW c \in CPUs,
              LeaveUserVm(c) \/ RollLead(c) \/ LeadTooLate(c) \/ LeadClear(c)
                \/ \E m \in MMs : SwitchUserVm(c, m)
       PROVE  HoldInv'
  <2>1. \E to \in {"kernel", "roll", "assign", "cas", "wait", "lead", "leave"} :
          pc' = [pc EXCEPT ![c] = to] /\ UNCHANGED <<ack, tlb>>
    BY <1>12 DEF LeaveUserVm, RollLead, LeadTooLate, LeadClear, SwitchUserVm, Goto
  <2> QED BY Zenon, <1>9, <2>1
<1>13. ASSUME NEW c \in CPUs, LeadNumber(c) \/ LeadPublish(c)
       PROVE  HoldInv'
  <2>1. \E to \in {"number", "publish", "clear"} :
          pc[c] \in {"number", "publish"} /\ pc' = [pc EXCEPT ![c] = to] /\ UNCHANGED <<ack, tlb>>
    BY <1>13 DEF LeadNumber, LeadPublish, At, Goto
  <2>2. Past(c)
    BY <2>1 DEF Past
  <2> QED BY Zenon, <1>10, <2>1, <2>2
<1>14. ASSUME NEW c \in CPUs, LeaveKeepingRoot(c)
       PROVE  HoldInv'
  <2>1. UNCHANGED <<pc, ack, tlb>>
    BY Zenon, <1>14 DEF LeaveKeepingRoot
  <2> QED BY Zenon, <1>0, <1>1, <2>1, HoldSame DEF Past, Holds
<1>15. ASSUME NEW c \in CPUs, LeadFlush(c)
       PROVE  HoldInv'
  <2>1. /\ pc[c] = "lead" /\ pc' = [pc EXCEPT ![c] = "sync"] /\ ack' = CPUs \ {c}
        /\ tlb' = [tlb EXCEPT ![c] = {}]
    BY Zenon, <1>15 DEF LeadFlush, At, Goto
  <2>2. pc'[c] = "sync"
    BY Zenon, <1>0, <2>1, PcStep
  <2>3. ~Holds(c)'
    BY <2>2 DEF Holds
  <2>4. tlb'[c] = {}
    BY Zenon, <1>2, <2>1
  <2>5. \A d \in CPUs : d \in ack' \/ d = c
    BY Zenon, <2>1
  <2> QED BY Zenon, <2>3, <2>4, <2>5 DEF HoldInv
<1>16. ASSUME NEW d \in CPUs, pc' = Interrupted(d) \/ pc' = pc, IrqOpen(d) \/ pc' = pc,
              UNCHANGED ack \/ (pc' = Interrupted(d) /\ IrqOpen(d) /\ ack' = ack \ {d} /\ tlb'[d] = {}),
              \A c \in CPUs : tlb'[c] \subseteq tlb[c]
       PROVE  HoldInv'
  <2>1. pc'[d] = pc[d] \/ (pc[d] = "user" /\ pc'[d] = "kernel")
    <3>1. pc' = Interrupted(d) => pc'[d] = IF pc[d] = "user" THEN "kernel" ELSE pc[d]
      BY Zenon, <1>0, InterruptedFacts
    <3> QED BY <1>16, <3>1
  <2>2. \A c \in CPUs \ {d} : pc'[c] = pc[c]
    BY Zenon, <1>0, <1>16, InterruptedFacts
  <2>3. \A c \in CPUs : (Past(c)' => Past(c)) /\ (Holds(c)' => Holds(c))
    <3>1. (Past(d)' => Past(d)) /\ (Holds(d)' => Holds(d))
      BY <1>1, <2>1 DEF Past, Holds
    <3>2. \A c \in CPUs \ {d} : (Past(c)' => Past(c)) /\ (Holds(c)' => Holds(c))
      BY Zenon, <1>1, <2>2 DEF Past, Holds
    <3> QED BY Zenon, <3>1, <3>2
  <2>4. CASE UNCHANGED ack
    BY Zenon, <1>0, <1>16, <2>3, <2>4, HoldSame
  <2>5. CASE pc' = Interrupted(d) /\ IrqOpen(d) /\ ack' = ack \ {d} /\ tlb'[d] = {}
    <3>1. ~Holds(d)'
      <4>1. pc'[d] = IF pc[d] = "user" THEN "kernel" ELSE pc[d]
        BY Zenon, <1>0, <2>5, InterruptedFacts
      <4>2. pc'[d] # "user" /\ pc'[d] # "install"
        BY <2>5, <4>1 DEF IrqOpen
      <4> QED BY Zenon, <4>2 DEF Holds
    <3>2. ASSUME NEW c \in CPUs, Hardware', Holds(c)', NEW e \in CPUs, Past(e)'
          PROVE  c \in ack'
      <4>1. c # d /\ c \in ack
        BY Zenon, <1>0, <1>1, <2>3, <3>1, <3>2 DEF HoldInv
      <4> QED BY Zenon, <2>5, <4>1
    <3>3. ASSUME NEW c \in CPUs, ~Riscv', NEW e \in CPUs, Past(e)', c \notin ack'
          PROVE  tlb'[c] = {}
      <4>1. CASE c = d
        BY Zenon, <2>5, <4>1
      <4>2. CASE c # d
        <5>1. c \notin ack /\ Past(e) /\ ~Riscv
          BY Zenon, <1>1, <2>3, <2>5, <3>3, <4>2
        <5>2. tlb[c] = {}
          BY Zenon, <1>0, <5>1 DEF HoldInv
        <5> QED BY <1>16, <5>2
      <4> QED BY Zenon, <4>1, <4>2
    <3> QED BY Zenon, <3>2, <3>3 DEF HoldInv
  <2> QED BY Zenon, <1>16, <2>4, <2>5
<1>17. ASSUME NEW d \in CPUs, AckRollover(d)
       PROVE  HoldInv'
  <2>1. pc' = Interrupted(d) /\ IrqOpen(d) /\ ack' = ack \ {d} /\ tlb' = [tlb EXCEPT ![d] = {}]
    BY Zenon, <1>17 DEF AckRollover
  <2>2. tlb'[d] = {} /\ \A c \in CPUs \ {d} : tlb'[c] = tlb[c]
    BY Zenon, <1>2, <2>1
  <2>3. \A c \in CPUs : tlb'[c] \subseteq tlb[c]
    BY <2>2
  <2> QED BY Zenon, <1>16, <2>1, <2>2, <2>3
<1>18. ASSUME NEW m \in MMs, MmStep(m)
       PROVE  HoldInv'
  <2>1. CASE WritePte(m) \/ FinishFlush(m)
    <3>1. UNCHANGED <<pc, ack, tlb>>
      BY Zenon, <2>1 DEF WritePte, FinishFlush, cpuVars
    <3> QED BY Zenon, <1>0, <1>1, <3>1, HoldSame DEF Past, Holds
  <2>2. ASSUME NEW d \in CPUs, FlushTarget(m, d)
        PROVE  HoldInv'
    <3>1. /\ pc' = Interrupted(d) \/ pc' = pc
          /\ IrqOpen(d) \/ pc' = pc
          /\ UNCHANGED ack
      BY Zenon, <2>2 DEF FlushTarget
    <3>2. tlb' = [tlb EXCEPT ![d] = IF flush[m].full THEN {}
                                    ELSE {e \in tlb[d] : e.asid # flush[m].asid}]
      BY Zenon, <2>2 DEF FlushTarget
    <3>3. \A c \in CPUs : tlb'[c] \subseteq tlb[c]
      BY <1>2, <3>2
    <3> QED BY Zenon, <1>16, <3>1, <3>3
  <2> QED BY Zenon, <1>18, <2>1, <2>2 DEF MmStep
<1> QED
  BY Zenon, <1>3, <1>4, <1>6, <1>7, <1>8, <1>11, <1>12, <1>13, <1>14, <1>15, <1>17, <1>18
  DEF Next, CpuStep, Roll, Moves

-----------------------------------------------------------------------------
(* The steps that leave the numbers, the registers and the page tables      *)
(* alone, and only take translations and registrations away.                *)
Quiet(c) ==
  Moves(c) \/ RollLead(c) \/ LeadTooLate(c) \/ LeadClear(c) \/ LeadFlush(c) \/ AckRollover(c)
    \/ LeaveUserVm(c) \/ LeaveKeepingRoot(c) \/ \E m \in MMs : SwitchUserVm(c, m)

LEMMA QuietFacts ==
  ASSUME TypeOK, NEW c \in CPUs, Quiet(c)
  PROVE  /\ UNCHANGED <<hw, epoch, next, published, context, generation, observed, version, freed,
                        flush, seen, root>>
         /\ \A d \in CPUs : tlb'[d] \subseteq tlb[d]
         /\ \A m \in MMs : active'[m] \subseteq active[m]
         /\ \A d \in CPUs : pc[d] = "publish" => pc'[d] = "publish"
<1>1. UNCHANGED <<hw, epoch, next, published, context, generation, observed, version, freed,
                  flush, seen, root>>
  BY Zenon
  DEF Quiet, Moves, Trap, AssignFails, RollNotNeeded, RollNeeded, RollWait, RollWaited, LeadAcked,
      RollLead, LeadTooLate, LeadClear, LeadFlush, AckRollover, LeaveUserVm, LeaveKeepingRoot,
      SwitchUserVm, allocVars, mmVars
<1>2. tlb \in [CPUs -> SUBSET Entry] /\ active \in [MMs -> SUBSET CPUs]
      /\ current \in [CPUs -> MMs \cup {NoMm}]
  BY Zenon, Typed
<1>3. \A d \in CPUs : tlb'[d] \subseteq tlb[d]
  <2>1. tlb' = tlb \/ tlb' = [tlb EXCEPT ![c] = {}]
    BY Zenon
    DEF Quiet, Moves, Trap, AssignFails, RollNotNeeded, RollNeeded, RollWait, RollWaited, LeadAcked,
        RollLead, LeadTooLate, LeadClear, LeadFlush, AckRollover, LeaveUserVm, LeaveKeepingRoot,
        SwitchUserVm
  <2> QED BY <1>2, <2>1
<1>4. \A m \in MMs : active'[m] \subseteq active[m]
  <2>1. active' = active \/ active' = [active EXCEPT ![current[c]] = @ \ {c}]
    BY Zenon
    DEF Quiet, Moves, Trap, AssignFails, RollNotNeeded, RollNeeded, RollWait, RollWaited, LeadAcked,
        RollLead, LeadTooLate, LeadClear, LeadFlush, AckRollover, LeaveUserVm, LeaveKeepingRoot,
        SwitchUserVm, mmVars
  <2> QED BY <1>2, <2>1
<1>5. \A d \in CPUs : pc[d] = "publish" => pc'[d] = "publish"
  <2>1. CASE AckRollover(c)
    <3>1. pc' = Interrupted(c)
      BY Zenon, <2>1 DEF AckRollover
    <3>2. /\ pc'[c] = IF pc[c] = "user" THEN "kernel" ELSE pc[c]
          /\ \A d \in CPUs \ {c} : pc'[d] = pc[d]
      BY Zenon, <3>1, InterruptedFacts
    <3> QED BY <3>2
  <2>2. CASE ~AckRollover(c)
    <3>1. (pc' = pc \/ \E to : pc' = [pc EXCEPT ![c] = to]) /\ (pc' = pc \/ pc[c] # "publish")
      BY <2>2
      DEF Quiet, Moves, Trap, AssignFails, RollNotNeeded, RollNeeded, RollWait, RollWaited, LeadAcked,
          RollLead, LeadTooLate, LeadClear, LeadFlush, LeaveUserVm, LeaveKeepingRoot,
          SwitchUserVm, At, Goto
    <3>2. CASE pc' = pc
      BY Zenon, <3>2
    <3>3. CASE pc' # pc
      <4>1. PICK to : pc' = [pc EXCEPT ![c] = to]
        BY Zenon, <3>1, <3>3
      <4>2. \A d \in CPUs \ {c} : pc'[d] = pc[d]
        BY Zenon, <4>1, PcStep
      <4> QED BY Zenon, <3>1, <3>3, <4>2
    <3> QED BY Zenon, <3>2, <3>3
  <2> QED BY Zenon, <2>1, <2>2
<1> QED BY Zenon, <1>1, <1>3, <1>4, <1>5

(* The step of a CPU is one of these. *)
LEMMA StepCases ==
  ASSUME NEW c \in CPUs, CpuStep(c)
  PROVE  Quiet(c) \/ Fill(c) \/ Assign(c) \/ Install(c) \/ InstallKernel(c)
           \/ LeadNumber(c) \/ LeadPublish(c)
BY Zenon DEF CpuStep, Roll, Quiet, Moves

(* A flush changes nothing of the numbers and the registers. *)
LEMMA MmFacts ==
  ASSUME TypeOK, NEW m \in MMs, MmStep(m)
  PROVE  /\ UNCHANGED <<hw, epoch, next, published, rollover, context, active, seen, root, want, current>>
         /\ \A d \in CPUs : pc'[d] = pc[d] \/ (pc[d] = "user" /\ pc'[d] = "kernel")
         /\ \A d \in CPUs : tlb'[d] \subseteq tlb[d]
<1>1. CASE WritePte(m) \/ FinishFlush(m)
  <2>1. UNCHANGED <<hw, epoch, next, published, rollover, context, active, seen, root, want, current, tlb, pc>>
    BY Zenon, <1>1 DEF WritePte, FinishFlush, cpuVars, allocVars
  <2> QED BY Zenon, <2>1
<1>2. ASSUME NEW d \in CPUs, FlushTarget(m, d)
      PROVE  /\ UNCHANGED <<hw, epoch, next, published, rollover, context, active, seen, root, want, current>>
             /\ \A c \in CPUs : pc'[c] = pc[c] \/ (pc[c] = "user" /\ pc'[c] = "kernel")
             /\ \A c \in CPUs : tlb'[c] \subseteq tlb[c]
  <2>1. UNCHANGED <<hw, epoch, next, published, rollover, context, active, seen, root, want, current>>
    BY Zenon, <1>2 DEF FlushTarget, allocVars
  <2>2. pc' = pc \/ pc' = Interrupted(d)
    BY Zenon, <1>2 DEF FlushTarget
  <2>3. \A c \in CPUs : pc'[c] = pc[c] \/ (pc[c] = "user" /\ pc'[c] = "kernel")
    <3>1. CASE pc' = Interrupted(d)
      <4>1. /\ pc'[d] = IF pc[d] = "user" THEN "kernel" ELSE pc[d]
            /\ \A c \in CPUs \ {d} : pc'[c] = pc[c]
        BY Zenon, <3>1, InterruptedFacts
      <4> QED BY <4>1
    <3> QED BY Zenon, <2>2, <3>1
  <2>4. tlb' = [tlb EXCEPT ![d] = IF flush[m].full THEN {}
                                  ELSE {e \in tlb[d] : e.asid # flush[m].asid}]
    BY Zenon, <1>2 DEF FlushTarget
  <2>5. tlb \in [CPUs -> SUBSET Entry]
    BY Zenon, Typed
  <2>6. \A c \in CPUs : tlb'[c] \subseteq tlb[c]
    BY <2>4, <2>5
  <2> QED BY Zenon, <2>1, <2>3, <2>6
<1>3. (WritePte(m) \/ FinishFlush(m)) \/ \E d \in CPUs : FlushTarget(m, d)
  BY Zenon DEF MmStep
<1>4. CASE \E d \in CPUs : FlushTarget(m, d)
  <2>1. PICK d \in CPUs : FlushTarget(m, d)
    BY Zenon, <1>4
  <2> QED BY Zenon, <1>2, <2>1
<1> QED BY Zenon, <1>1, <1>3, <1>4

(* While a CPU holds a context of the allocator's epoch no leader has       *)
(* numbered a new one: the published epoch is the same.                     *)
LEMMA HeldEpoch ==
  ASSUME IInv, NEW c \in CPUs, pc[c] = "install", Hardware
  PROVE  published = epoch
<1>1. LeadInv /\ HoldInv /\ EpochInv
  BY Zenon DEF IInv
<1>2. SUFFICES ASSUME published # epoch PROVE FALSE
  OBVIOUS
<1>3. PICK d \in CPUs : pc[d] = "publish"
  BY Zenon, <1>1, <1>2 DEF EpochInv
<1>4. Past(d) /\ Leads(d) /\ pc[d] # "sync"
  BY <1>3 DEF Past, Leads
<1>5. ack = {}
  BY Zenon, <1>1, <1>4, OneLeader
<1>6. c \in ack
  BY Zenon, <1>1, <1>4 DEF HoldInv, Holds
<1> QED BY Zenon, <1>5, <1>6

-----------------------------------------------------------------------------
LEMMA EpochSame ==
  ASSUME EpochInv, hw' = hw, UNCHANGED <<epoch, next, published, context>>,
         \A c \in CPUs : seen'[c] <= published,
         \A c \in CPUs : pc[c] = "publish" => pc'[c] = "publish"
  PROVE  EpochInv'
<1>1. (Hardware' <=> Hardware) /\ None' = None
  BY Zenon, SameTypes DEF None
<1>2. published' # epoch' => \E c \in CPUs : pc'[c] = "publish"
  BY Zenon DEF EpochInv
<1>3. published' <= epoch' /\ \A c \in CPUs : seen'[c] <= published'
  BY Zenon DEF EpochInv
<1>4. \A m \in MMs :
        /\ context'[m].epoch <= epoch'
        /\ Hardware' /\ context'[m].epoch = epoch' => context'[m].asid \in 1..(next' - 1)
        /\ ~Hardware' => context'[m] = None'
  BY Zenon, <1>1 DEF EpochInv
<1>5. \A m, n \in MMs :
       m # n /\ Hardware' /\ context'[m].epoch = epoch' /\ context'[n].epoch = epoch'
         => context'[m].asid # context'[n].asid
  BY Zenon, <1>1 DEF EpochInv
<1> QED BY Zenon, <1>2, <1>3, <1>4, <1>5 DEF EpochInv

LEMMA EpochAssign ==
  ASSUME IInv, NEW c \in CPUs, Assign(c)
  PROVE  EpochInv'
<1>0. TypeOK /\ EpochInv
  BY Zenon DEF IInv
<1>1. PICK m \in MMs, ctx \in Context :
        /\ pc[c] = "assign" /\ context' = [context EXCEPT ![m] = ctx]
        /\ Hardware => ~rollover /\ ctx.epoch = epoch
        /\ \/ ctx = context[m] /\ next' = next
           \/ /\ Hardware /\ context[m].epoch # epoch /\ next <= MaxAsid
              /\ ctx.asid = next /\ next' = next + 1
  BY Zenon, AssignFacts
<1>2. hw' = hw /\ UNCHANGED <<epoch, published, seen>> /\ pc' = [pc EXCEPT ![c] = "install"]
  BY Zenon DEF Assign, Goto
<1>3. \A d \in CPUs : pc[d] = "publish" => pc'[d] = "publish"
  <2>1. \A d \in CPUs \ {c} : pc'[d] = pc[d]
    BY Zenon, <1>0, <1>2, PcStep
  <2>2. pc[c] # "publish"
    BY <1>1
  <2> QED BY Zenon, <2>1, <2>2
<1>4. context \in [MMs -> Context] /\ next \in 1..(MaxAsid + 1) /\ MaxAsid \in Nat
      /\ epoch \in 1..MaxEpoch /\ MaxEpoch \in Nat
  BY Zenon, <1>0, Typed
<1>5. CASE ctx = context[m] /\ next' = next
  <2>1. context' = context
    BY <1>1, <1>4, <1>5
  <2>2. \A d \in CPUs : seen'[d] <= published
    BY Zenon, <1>0, <1>2 DEF EpochInv
  <2> QED BY Zenon, <1>0, <1>2, <1>3, <1>5, <2>1, <2>2, EpochSame
<1>6. CASE /\ Hardware /\ context[m].epoch # epoch /\ next <= MaxAsid
           /\ ctx.asid = next /\ next' = next + 1
  <2>1. context'[m] = ctx /\ \A n \in MMs \ {m} : context'[n] = context[n]
    BY Zenon, <1>1, <1>4
  <2>2. Hardware' /\ ctx.epoch = epoch /\ ctx.asid = next /\ next \in Nat
    BY <1>1, <1>2, <1>4, <1>6, SameTypes
  <2>3. \A n \in MMs \ {m} : context[n].epoch = epoch => context[n].asid \in 1..(next - 1)
    BY Zenon, <1>0, <1>6 DEF EpochInv
  <2>4. \A n \in MMs :
          /\ context'[n].epoch <= epoch
          /\ context'[n].epoch = epoch => context'[n].asid \in 1..(next + 1 - 1)
    <3>1. ASSUME NEW n \in MMs \ {m}
          PROVE  /\ context[n].epoch <= epoch
                 /\ context[n].epoch = epoch => context[n].asid \in 1..(next + 1 - 1)
      <4>1. context[n].epoch <= epoch
        BY Zenon, <1>0, <3>1 DEF EpochInv
      <4>2. context[n].epoch = epoch => context[n].asid \in 1..(next - 1)
        BY Zenon, <2>3, <3>1
      <4> QED BY <2>2, <4>1, <4>2
    <3>2. /\ ctx.epoch <= epoch
          /\ ctx.asid \in 1..(next + 1 - 1)
      BY <1>4, <2>2
    <3> QED BY Zenon, <2>1, <3>1, <3>2
  <2>5. \A n \in MMs \ {m} : context[n].epoch = epoch => context[n].asid # next
    <3>1. next \notin 1..(next - 1)
      BY <2>2
    <3> QED BY Zenon, <2>3, <3>1
  <2>6. \A n, o \in MMs :
          n # o /\ context'[n].epoch = epoch /\ context'[o].epoch = epoch
            => context'[n].asid # context'[o].asid
    <3>1. \A n, o \in MMs \ {m} :
            n # o /\ context[n].epoch = epoch /\ context[o].epoch = epoch
              => context[n].asid # context[o].asid
      BY Zenon, <1>0, <1>6 DEF EpochInv
    <3>2. ASSUME NEW n \in MMs, NEW o \in MMs, n # o,
                 context'[n].epoch = epoch, context'[o].epoch = epoch
          PROVE  context'[n].asid # context'[o].asid
      <4>1. CASE n = m
        <5>1. o \in MMs \ {m} /\ context'[o] = context[o]
          BY Zenon, <2>1, <3>2, <4>1
        <5> QED BY Zenon, <2>1, <2>2, <2>5, <3>2, <4>1, <5>1
      <4>2. CASE o = m
        <5>1. n \in MMs \ {m} /\ context'[n] = context[n]
          BY Zenon, <2>1, <3>2, <4>2
        <5> QED BY Zenon, <2>1, <2>2, <2>5, <3>2, <4>2, <5>1
      <4>3. CASE n # m /\ o # m
        BY Zenon, <2>1, <3>1, <3>2, <4>3
      <4> QED BY Zenon, <4>1, <4>2, <4>3
    <3> QED BY Zenon, <3>2
  <2>7. published' # epoch' => \E d \in CPUs : pc'[d] = "publish"
    BY Zenon, <1>0, <1>2, <1>3 DEF EpochInv
  <2>8. published' <= epoch' /\ \A d \in CPUs : seen'[d] <= published'
    BY Zenon, <1>0, <1>2 DEF EpochInv
  <2>9. \A n \in MMs :
          /\ context'[n].epoch <= epoch'
          /\ Hardware' /\ context'[n].epoch = epoch' => context'[n].asid \in 1..(next' - 1)
          /\ ~Hardware' => context'[n] = None'
    <3>1. epoch' = epoch /\ next' = next + 1 /\ Hardware'
      BY Zenon, <1>2, <1>6, <2>2
    <3>2. ASSUME NEW n \in MMs
          PROVE  /\ context'[n].epoch <= epoch'
                 /\ context'[n].epoch = epoch' => context'[n].asid \in 1..(next' - 1)
      <4>1. context'[n].epoch <= epoch
        BY Zenon, <2>4, <3>2
      <4>2. context'[n].epoch = epoch => context'[n].asid \in 1..(next + 1 - 1)
        BY Zenon, <2>4, <3>2
      <4>3. next' - 1 = next + 1 - 1
        BY <2>2, <3>1
      <4> QED BY Zenon, <3>1, <4>1, <4>2, <4>3
    <3> QED BY Zenon, <3>1, <3>2
  <2>10. \A n, o \in MMs :
           n # o /\ Hardware' /\ context'[n].epoch = epoch' /\ context'[o].epoch = epoch'
             => context'[n].asid # context'[o].asid
    BY Zenon, <1>2, <2>6
  <2> QED BY Zenon, <2>7, <2>8, <2>9, <2>10 DEF EpochInv
<1> QED BY Zenon, <1>1, <1>5, <1>6

(* A write of the registers sees no epoch past the published one. *)
LEMMA SeenWrite ==
  ASSUME IInv, NEW c \in CPUs, NEW m \in MMs \cup {NoMm}, NEW ctx \in Context, Write(c, m, ctx),
         Hardware => ctx.epoch <= published
  PROVE  \A d \in CPUs : seen'[d] <= published
<1>1. TypeOK /\ EpochInv
  BY Zenon DEF IInv
<1>2. /\ \A d \in CPUs \ {c} : root'[d] = root[d] /\ seen'[d] = seen[d] /\ tlb'[d] = tlb[d]
      /\ Riscv /\ Hardware /\ seen[c] < ctx.epoch => tlb'[c] = {} /\ seen'[c] = ctx.epoch
      /\ ~(Riscv /\ Hardware /\ seen[c] < ctx.epoch) => seen'[c] = seen[c]
  BY ZenonT(30), <1>1, WriteFacts
<1>3. \A d \in CPUs : seen[d] <= published
  BY Zenon, <1>1 DEF EpochInv
<1>4. seen'[c] <= published
  BY Zenon, <1>2, <1>3
<1> QED BY Zenon, <1>2, <1>3, <1>4

LEMMA EpochNext ==
  ASSUME IInv, [Next]_vars
  PROVE  EpochInv'
<1>0. TypeOK /\ LeadInv /\ HoldInv /\ EpochInv /\ hw' = hw
  BY Zenon, HwStep DEF IInv
<1>a. (Hardware' <=> Hardware) /\ None' = None
  BY Zenon, <1>0, SameTypes DEF None
<1>b. \A d \in CPUs : seen[d] <= published
  BY Zenon, <1>0 DEF EpochInv
<1>1. CASE UNCHANGED vars
  <2>1. UNCHANGED <<hw, epoch, next, published, context, seen, pc>>
    BY Zenon, <1>1 DEF vars, allocVars, mmVars, cpuVars
  <2> QED BY Zenon, <1>0, <1>b, <2>1, EpochSame
<1>2. ASSUME NEW c \in CPUs, Quiet(c)
      PROVE  EpochInv'
  <2>1. /\ UNCHANGED <<hw, epoch, next, published, context, generation, observed, version, freed,
                        flush, seen, root>>
        /\ \A d \in CPUs : pc[d] = "publish" => pc'[d] = "publish"
    BY Zenon, <1>0, <1>2, QuietFacts
  <2> QED BY Zenon, <1>0, <1>b, <2>1, EpochSame
<1>3. ASSUME NEW m \in MMs, MmStep(m)
      PROVE  EpochInv'
  <2>1. /\ UNCHANGED <<hw, epoch, next, published, rollover, context, active, seen, root, want, current>>
        /\ \A d \in CPUs : pc'[d] = pc[d] \/ (pc[d] = "user" /\ pc'[d] = "kernel")
    BY Zenon, <1>0, <1>3, MmFacts
  <2>2. \A d \in CPUs : pc[d] = "publish" => pc'[d] = "publish"
    BY <2>1
  <2> QED BY Zenon, <1>0, <1>b, <2>1, <2>2, EpochSame
<1>4. ASSUME NEW c \in CPUs, Fill(c)
      PROVE  EpochInv'
  <2>1. UNCHANGED <<hw, epoch, next, published, context, seen, pc>>
    BY Zenon, <1>4 DEF Fill, allocVars, mmVars
  <2> QED BY Zenon, <1>0, <1>b, <2>1, EpochSame
<1>5. ASSUME NEW c \in CPUs, Install(c)
      PROVE  EpochInv'
  <2>1. PICK m \in MMs, ctx \in Context :
          /\ pc[c] = "install" /\ (Hardware => ctx.epoch = epoch) /\ Write(c, m, ctx)
          /\ pc' = [pc EXCEPT ![c] = "user"]
    BY Zenon, <1>5, InstallFacts
  <2>2. UNCHANGED <<epoch, next, published, context>>
    BY Zenon, <1>5 DEF Install, allocVars
  <2>3. Hardware => ctx.epoch <= published
    <3>1. Hardware => published = epoch
      BY Zenon, <2>1, HeldEpoch
    <3>2. epoch <= epoch
      BY <1>0 DEF TypeOK
    <3> QED BY Zenon, <2>1, <3>1, <3>2
  <2>4. \A d \in CPUs : seen'[d] <= published
    BY Zenon, <2>1, <2>3, SeenWrite
  <2>5. \A d \in CPUs \ {c} : pc'[d] = pc[d]
    BY Zenon, <1>0, <2>1, PcStep
  <2>6. pc[c] # "publish"
    BY <2>1
  <2> QED BY Zenon, <1>0, <2>2, <2>4, <2>5, <2>6, EpochSame
<1>6. ASSUME NEW c \in CPUs, InstallKernel(c)
      PROVE  EpochInv'
  <2>1. PICK ctx \in Context :
          /\ ctx.epoch <= published /\ pc[c] = "leave" /\ Write(c, NoMm, ctx)
          /\ pc' = [pc EXCEPT ![c] = "kernel"]
    BY Zenon, <1>6, KernelFacts
  <2>2. UNCHANGED <<epoch, next, published, context>>
    BY Zenon, <1>6 DEF InstallKernel, allocVars
  <2>3. \A d \in CPUs : seen'[d] <= published
    BY Zenon, <2>1, SeenWrite
  <2>4. \A d \in CPUs \ {c} : pc'[d] = pc[d]
    BY Zenon, <1>0, <2>1, PcStep
  <2>5. pc[c] # "publish"
    BY <2>1
  <2> QED BY Zenon, <1>0, <2>2, <2>3, <2>4, <2>5, EpochSame
<1>7. ASSUME NEW c \in CPUs, LeadNumber(c)
      PROVE  EpochInv'
  <2>1. /\ epoch' = epoch + 1 /\ next' = 1 /\ pc' = [pc EXCEPT ![c] = "publish"]
        /\ UNCHANGED <<published, context, seen>>
    BY Zenon, <1>7 DEF LeadNumber, Goto, mmVars
  <2>2. /\ epoch \in 1..MaxEpoch /\ published \in 1..MaxEpoch /\ context \in [MMs -> Context]
        /\ MaxEpoch \in Nat
    BY Zenon, <1>0, Typed
  <2>3. pc'[c] = "publish"
    BY Zenon, <1>0, <2>1, PcStep
  <2>4. published <= epoch /\ \A m \in MMs : context[m].epoch <= epoch
    BY Zenon, <1>0 DEF EpochInv
  <2>5. published' <= epoch' /\ \A d \in CPUs : seen'[d] <= published'
    <3>1. published' <= epoch'
      BY <2>1, <2>2, <2>4
    <3> QED BY Zenon, <1>b, <2>1, <3>1
  <2>6. \A m \in MMs : context'[m].epoch <= epoch' /\ context'[m].epoch # epoch'
    <3>1. \A m \in MMs : context[m].epoch \in Int
      BY <2>2 DEF Context
    <3>2. \A m \in MMs : context[m].epoch <= epoch + 1 /\ context[m].epoch # epoch + 1
      BY <2>2, <2>4, <3>1
    <3> QED BY Zenon, <2>1, <3>2
  <2>7. \A m \in MMs : ~Hardware' => context'[m] = None'
    BY Zenon, <1>0, <1>a, <2>1 DEF EpochInv
  <2> QED BY Zenon, <2>3, <2>5, <2>6, <2>7 DEF EpochInv
<1>8. ASSUME NEW c \in CPUs, LeadPublish(c)
      PROVE  EpochInv'
  <2>1. published' = epoch /\ UNCHANGED <<epoch, next, context, seen>>
    BY Zenon, <1>8 DEF LeadPublish, mmVars
  <2>2. published' <= epoch' /\ \A d \in CPUs : seen'[d] <= published'
    <3>1. /\ epoch \in 1..MaxEpoch /\ published \in 1..MaxEpoch /\ seen \in [CPUs -> 0..MaxEpoch]
          /\ MaxEpoch \in Nat
      BY Zenon, <1>0, Typed
    <3>2. published <= epoch
      BY Zenon, <1>0 DEF EpochInv
    <3> QED BY <1>b, <2>1, <3>1, <3>2
  <2>3. \A m \in MMs :
          /\ context'[m].epoch <= epoch'
          /\ Hardware' /\ context'[m].epoch = epoch' => context'[m].asid \in 1..(next' - 1)
          /\ ~Hardware' => context'[m] = None'
    BY Zenon, <1>0, <1>a, <2>1 DEF EpochInv
  <2>4. \A m, n \in MMs :
          m # n /\ Hardware' /\ context'[m].epoch = epoch' /\ context'[n].epoch = epoch'
            => context'[m].asid # context'[n].asid
    BY Zenon, <1>0, <1>a, <2>1 DEF EpochInv
  <2> QED BY Zenon, <2>1, <2>2, <2>3, <2>4 DEF EpochInv
<1>9. ASSUME NEW c \in CPUs, CpuStep(c)
      PROVE  EpochInv'
  BY Zenon, <1>2, <1>4, <1>5, <1>6, <1>7, <1>8, <1>9, StepCases, EpochAssign
<1> QED BY Zenon, <1>1, <1>3, <1>9 DEF Next

-----------------------------------------------------------------------------
(* A CPU keeps its place, and the contexts it holds stay. *)
LEMMA PlaceOther ==
  ASSUME IInv, NEW d \in CPUs, hw' = hw, pc'[d] = pc[d], want'[d] = want[d],
         current'[d] = current[d], root'[d] = root[d],
         \A m \in MMs : d \in active'[m] <=> d \in active[m],
         published <= published', published' \in Int,
         pc[d] = "install" => context'[want[d].mm] = context[want[d].mm],
         ~Riscv /\ pc[d] = "user" => context'[root[d].mm] = context[root[d].mm],
         Hardware /\ Holds(d) => epoch' = epoch
  PROVE  PlaceAt(d)'
<1>0. PlaceAt(d) /\ TypeOK
  BY Zenon DEF IInv, PlaceInv
<1>1. (Riscv' <=> Riscv) /\ (Hardware' <=> Hardware)
  BY Zenon, SameTypes
<1>2. current[d] \in MMs \cup {NoMm}
  BY Zenon, <1>0, Typed
<1>3. pc'[d] \notin {"kernel", "user", "leave"} => want'[d].mm \in MMs
  BY Zenon, <1>0 DEF PlaceAt
<1>4. current'[d] # NoMm => d \in active'[current'[d]]
  <2>1. current[d] # NoMm => current[d] \in MMs /\ d \in active[current[d]]
    BY <1>0, <1>2 DEF PlaceAt
  <2> QED BY Zenon, <2>1
<1>5. pc'[d] = "install" =>
       /\ want'[d].context = context'[want'[d].mm]
       /\ Hardware' => want'[d].context.epoch = epoch'
       /\ d \in active'[want'[d].mm]
  <2>1. SUFFICES ASSUME pc[d] = "install"
                 PROVE  /\ want[d].context = context'[want[d].mm]
                        /\ Hardware => want[d].context.epoch = epoch'
                        /\ d \in active'[want[d].mm]
    BY Zenon, <1>1
  <2>2. want[d].mm \in MMs
    BY <1>0, <2>1 DEF PlaceAt
  <2>3. want[d].context = context'[want[d].mm] /\ d \in active'[want[d].mm]
    BY Zenon, <1>0, <2>1, <2>2 DEF PlaceAt
  <2>4. Hardware => want[d].context.epoch = epoch'
    BY Zenon, <1>0, <2>1 DEF PlaceAt, Holds
  <2> QED BY Zenon, <2>3, <2>4
<1>6. pc'[d] = "leave" =>
       /\ hw'.leaving /\ Riscv' /\ want'[d].context.asid = 0
       /\ want'[d].context.epoch <= published'
  <2>1. pc[d] = "leave" => hw'.leaving /\ Riscv /\ want[d].context.asid = 0
    BY Zenon, <1>0 DEF PlaceAt
  <2>2. pc[d] = "leave" => want[d].context.epoch <= published
    BY Zenon, <1>0 DEF PlaceAt
  <2>3. want[d].context.epoch \in Int /\ published \in Int
    <3>1. want[d] \in WantRec /\ published \in 1..MaxEpoch
      BY Zenon, <1>0, Typed
    <3> QED BY <3>1 DEF WantRec, Context
  <2>4. pc[d] = "leave" => want[d].context.epoch <= published'
    BY <2>2, <2>3
  <2> QED BY Zenon, <1>1, <2>1, <2>4
<1>7. Riscv' => current'[d] = root'[d].mm
  BY Zenon, <1>0, <1>1 DEF PlaceAt
<1>8. ~Riscv' /\ pc'[d] = "user" =>
       /\ root'[d].mm \in MMs /\ current'[d] = root'[d].mm
       /\ context'[root'[d].mm] = [epoch |-> epoch', asid |-> root'[d].asid]
  <2>1. ~Riscv => Hardware
    BY Zenon, <1>0, Typed
  <2> QED BY Zenon, <1>0, <1>1, <2>1 DEF PlaceAt, Holds
<1> QED BY Zenon, <1>3, <1>4, <1>5, <1>6, <1>7, <1>8 DEF PlaceAt

(* A CPU goes to a place where it holds nothing. *)
LEMMA PlaceMove ==
  ASSUME IInv, NEW c \in CPUs, hw' = hw,
         want'[c] = want[c], current'[c] = current[c], root'[c] = root[c],
         \A m \in MMs : c \in active'[m] <=> c \in active[m],
         pc'[c] \notin {"install", "leave", "user"},
         pc'[c] # "kernel" => pc[c] \notin {"kernel", "user", "leave"}
  PROVE  PlaceAt(c)'
<1>0. PlaceAt(c) /\ TypeOK
  BY Zenon DEF IInv, PlaceInv
<1>1. Riscv' <=> Riscv
  BY Zenon, SameTypes
<1>2. current[c] \in MMs \cup {NoMm}
  BY Zenon, <1>0, Typed
<1>3. pc'[c] \notin {"kernel", "user", "leave"} => want'[c].mm \in MMs
  <2>1. pc'[c] \notin {"kernel", "user", "leave"} => pc'[c] # "kernel"
    OBVIOUS
  <2> QED BY Zenon, <1>0, <2>1 DEF PlaceAt
<1>4. current'[c] # NoMm => c \in active'[current'[c]]
  <2>1. current[c] # NoMm => current[c] \in MMs /\ c \in active[current[c]]
    BY <1>0, <1>2 DEF PlaceAt
  <2> QED BY Zenon, <2>1
<1>5. Riscv' => current'[c] = root'[c].mm
  BY Zenon, <1>0, <1>1 DEF PlaceAt
<1>6. pc'[c] # "install" /\ pc'[c] # "leave" /\ pc'[c] # "user"
  OBVIOUS
<1> QED BY Zenon, <1>3, <1>4, <1>5, <1>6 DEF PlaceAt

(* The CPU of a step on the way to a user address space and back. *)
LEMMA PlaceAssign ==
  ASSUME IInv, NEW c \in CPUs, Assign(c)
  PROVE  PlaceInv'
<1>0. TypeOK /\ PlaceInv /\ PlaceAt(c)
  BY Zenon DEF IInv, PlaceInv
<1>1. PICK m \in MMs, ctx \in Context :
        /\ m = want[c].mm
        /\ context' = [context EXCEPT ![m] = ctx]
        /\ want' = [want EXCEPT ![c].context = ctx]
        /\ ActivateCpu(m, c)
        /\ Hardware => ~rollover /\ ctx.epoch = epoch
        /\ \/ ctx = context[m] /\ next' = next
           \/ /\ Hardware /\ context[m].epoch # epoch /\ next <= MaxAsid
              /\ ctx.asid = next /\ next' = next + 1
  BY Zenon, AssignFacts
<1>2. /\ hw' = hw /\ UNCHANGED <<epoch, published, root, current>>
      /\ pc' = [pc EXCEPT ![c] = "install"]
  BY Zenon DEF Assign, Goto
<1>3. (Riscv' <=> Riscv) /\ (Hardware' <=> Hardware)
  BY Zenon, <1>2, SameTypes
<1>4. context \in [MMs -> Context] /\ want \in [CPUs -> WantRec] /\ published \in 1..MaxEpoch
      /\ current \in [CPUs -> MMs \cup {NoMm}]
  BY Zenon, <1>0, Typed
<1>5. context'[m] = ctx /\ \A n \in MMs \ {m} : context'[n] = context[n]
  BY Zenon, <1>1, <1>4
<1>6. \A n \in MMs : (Hardware => context[n].epoch = epoch) => context'[n] = context[n]
  BY Zenon, <1>1, <1>5
<1>7. ASSUME NEW d \in CPUs \ {c}
      PROVE  PlaceAt(d)'
  <2>1. /\ pc'[d] = pc[d] /\ want'[d] = want[d] /\ current'[d] = current[d]
        /\ root'[d] = root[d] /\ \A n \in MMs : d \in active'[n] <=> d \in active[n]
    <3>1. CpuStep(c)
      BY Zenon DEF CpuStep
    <3> QED BY Zenon, <3>1, <1>7, CpuFrame
  <2>2. PlaceAt(d)
    BY Zenon, <1>0, <1>7 DEF PlaceInv
  <2>3. pc[d] = "install" => context'[want[d].mm] = context[want[d].mm]
    <3>1. pc[d] = "install" =>
            want[d].mm \in MMs /\ (Hardware => context[want[d].mm].epoch = epoch)
      BY <2>2 DEF PlaceAt
    <3> QED BY Zenon, <1>6, <3>1
  <2>4. ~Riscv /\ pc[d] = "user" => context'[root[d].mm] = context[root[d].mm]
    <3>1. ~Riscv /\ pc[d] = "user" =>
            root[d].mm \in MMs /\ (Hardware => context[root[d].mm].epoch = epoch)
      BY <2>2 DEF PlaceAt
    <3> QED BY Zenon, <1>6, <3>1
  <2>5. published <= published' /\ published' \in Int
    BY <1>2, <1>4
  <2> QED BY Zenon, <1>2, <1>7, <2>1, <2>3, <2>4, <2>5, PlaceOther
<1>8. PlaceAt(c)'
  <2>1. pc'[c] = "install"
    BY Zenon, <1>0, <1>2, PcStep
  <2>2. want'[c].mm = m /\ want'[c].context = ctx
    <3>1. want[c] \in WantRec
      BY Zenon, <1>4
    <3>2. want'[c] = [want[c] EXCEPT !.context = ctx]
      BY Zenon, <1>1, <1>4
    <3> QED BY <1>1, <3>1, <3>2 DEF WantRec
  <2>3. /\ active'[m] = active[m] \cup {c}
        /\ \A n \in MMs \ {m} : active'[n] = active[n] /\ observed'[n] = observed[n]
    <3>1. ActivateCpu(m, c)
      BY Zenon, <1>1
    <3> QED BY ZenonT(30), <1>0, <3>1, ActivateFacts
  <2>4. current'[c] # NoMm => c \in active'[current'[c]]
    <3>1. current[c] # NoMm => current[c] \in MMs /\ c \in active[current[c]]
      <4>1. current[c] \in MMs \cup {NoMm}
        BY Zenon, <1>4
      <4> QED BY <1>0, <4>1 DEF PlaceAt
    <3> QED BY Zenon, <1>2, <2>3, <3>1
  <2>5. c \in active'[m]
    BY Zenon, <2>3
  <2>6. Riscv' => current'[c] = root'[c].mm
    BY Zenon, <1>0, <1>2, <1>3 DEF PlaceAt
  <2>7. pc'[c] # "leave" /\ pc'[c] # "user"
    BY <2>1
  <2> QED BY Zenon, <1>1, <1>2, <1>3, <1>5, <2>2, <2>4, <2>5, <2>6, <2>7 DEF PlaceAt
<1> QED BY Zenon, <1>7, <1>8 DEF PlaceInv

LEMMA PlaceInstall ==
  ASSUME IInv, NEW c \in CPUs, Install(c)
  PROVE  PlaceAt(c)'
<1>0. TypeOK /\ PlaceAt(c)
  BY Zenon DEF IInv, PlaceInv
<1>1. PICK m \in MMs, ctx \in Context :
        /\ m = want[c].mm /\ ctx = want[c].context /\ ctx = context[m]
        /\ pc[c] = "install" /\ c \in active[m]
        /\ Hardware => ctx.epoch = epoch
        /\ Write(c, m, ctx)
        /\ pc' = [pc EXCEPT ![c] = "user"]
        /\ active' = IF current[c] \in {m, NoMm} THEN active
                     ELSE [active EXCEPT ![current[c]] = @ \ {c}]
        /\ current' = [current EXCEPT ![c] = m]
        /\ want' = [want EXCEPT ![c] = [mm |-> NoMm, context |-> None]]
  BY Zenon, InstallFacts
<1>2. hw' = hw /\ UNCHANGED <<epoch, context>>
  BY Zenon DEF Install, allocVars
<1>3. (Riscv' <=> Riscv) /\ (~Riscv => Hardware)
  BY Zenon, <1>0, <1>2, SameTypes, Typed
<1>4. active \in [MMs -> SUBSET CPUs] /\ current \in [CPUs -> MMs \cup {NoMm}]
  BY Zenon, <1>0, Typed
<1>5. root'[c] = [mm |-> m, asid |-> ctx.asid]
  <2>1. Write(c, m, ctx)
    BY Zenon, <1>1
  <2> QED BY <1>0, <2>1, WriteFacts
<1>6. current'[c] = m /\ root'[c].mm = m /\ root'[c].asid = ctx.asid
  BY <1>1, <1>4, <1>5
<1>7. c \in active'[m]
  <2>1. CASE current[c] \in {m, NoMm}
    BY Zenon, <1>1, <2>1
  <2>2. CASE current[c] \notin {m, NoMm}
    <3>1. current[c] # m /\ active' = [active EXCEPT ![current[c]] = @ \ {c}]
      BY Zenon, <1>1, <2>2
    <3>2. active'[m] = active[m]
      BY Zenon, <1>4, <3>1
    <3> QED BY Zenon, <1>1, <3>2
  <2> QED BY Zenon, <2>1, <2>2
<1>8. Hardware => ctx = [epoch |-> epoch, asid |-> ctx.asid]
  BY <1>1 DEF Context
<1>9. pc'[c] = "user"
  BY Zenon, <1>0, <1>1, PcStep
<1>10. pc'[c] # "install" /\ pc'[c] # "leave" /\ pc'[c] \in {"kernel", "user", "leave"}
  BY <1>9
<1>11. ~Riscv' => context'[root'[c].mm] = [epoch |-> epoch', asid |-> root'[c].asid]
  BY Zenon, <1>1, <1>2, <1>3, <1>6, <1>8
<1> QED BY Zenon, <1>6, <1>7, <1>10, <1>11 DEF PlaceAt

LEMMA PlaceSwitch ==
  ASSUME IInv, NEW c \in CPUs, NEW m \in MMs, SwitchUserVm(c, m)
  PROVE  PlaceAt(c)'
<1>0. TypeOK /\ PlaceAt(c)
  BY Zenon DEF IInv, PlaceInv
<1>1. /\ hw' = hw /\ root' = root /\ pc' = [pc EXCEPT ![c] = "assign"]
      /\ want' = [want EXCEPT ![c] = [mm |-> m, context |-> None]]
      /\ IF Riscv \/ current[c] \in {m, NoMm} THEN UNCHANGED <<active, current>>
         ELSE /\ active' = [active EXCEPT ![current[c]] = @ \ {c}]
              /\ current' = [current EXCEPT ![c] = NoMm]
  BY Zenon DEF SwitchUserVm, Goto
<1>2. want \in [CPUs -> WantRec] /\ current \in [CPUs -> MMs \cup {NoMm}]
  BY Zenon, <1>0, Typed
<1>3. want'[c].mm = m
  BY <1>1, <1>2
<1>4. (Riscv => current'[c] = current[c]) /\ (current'[c] # NoMm => UNCHANGED <<active, current>>)
  BY Zenon, <1>1, <1>2
<1>5. pc'[c] = "assign"
  BY Zenon, <1>0, <1>1, PcStep
<1>6. pc'[c] # "install" /\ pc'[c] # "leave" /\ pc'[c] # "user"
  BY <1>5
<1>7. Riscv' <=> Riscv
  BY Zenon, <1>1, SameTypes
<1>8. (current'[c] # NoMm => c \in active'[current'[c]]) /\ (Riscv' => current'[c] = root'[c].mm)
  BY Zenon, <1>0, <1>1, <1>4, <1>7 DEF PlaceAt
<1> QED BY Zenon, <1>3, <1>6, <1>8 DEF PlaceAt

LEMMA PlaceLeave ==
  ASSUME IInv, NEW c \in CPUs, LeaveUserVm(c) \/ InstallKernel(c) \/ LeaveKeepingRoot(c)
  PROVE  PlaceAt(c)'
<1>0. TypeOK /\ PlaceAt(c)
  BY Zenon DEF IInv, PlaceInv
<1>1. /\ want \in [CPUs -> WantRec] /\ current \in [CPUs -> MMs \cup {NoMm}]
      /\ published \in 1..MaxEpoch /\ MaxEpoch \in Nat
  BY Zenon, <1>0, Typed
<1>2. CASE LeaveUserVm(c)
  <2>1. /\ hw' = hw /\ hw.leaving /\ Riscv /\ pc' = [pc EXCEPT ![c] = "leave"]
        /\ want' = [want EXCEPT ![c].context =
                      IF Hardware THEN [epoch |-> published, asid |-> 0] ELSE None]
        /\ UNCHANGED <<published, active, current, root>>
    BY Zenon, <1>2 DEF LeaveUserVm, Goto, allocVars, mmVars
  <2>2. PICK ctx : ctx = IF Hardware THEN [epoch |-> published, asid |-> 0] ELSE None
    BY Zenon
  <2>3. ctx.asid = 0 /\ ctx.epoch <= published
    BY <1>1, <2>2 DEF None
  <2>4. want'[c].context = ctx
    <3>1. want[c] \in WantRec
      BY Zenon, <1>1
    <3>2. want' = [want EXCEPT ![c].context = ctx]
      BY Zenon, <2>1, <2>2
    <3>3. want'[c] = [want[c] EXCEPT !.context = ctx]
      BY Zenon, <1>1, <3>2
    <3> QED BY <3>1, <3>3 DEF WantRec
  <2>5. pc'[c] = "leave"
    BY Zenon, <1>0, <2>1, PcStep
  <2>6. pc'[c] # "install" /\ pc'[c] # "user" /\ pc'[c] \in {"kernel", "user", "leave"}
    BY <2>5
  <2>7. Riscv' /\ hw'.leaving
    BY Zenon, <2>1, SameTypes
  <2>8. current'[c] # NoMm => c \in active'[current'[c]]
    BY Zenon, <1>0, <2>1 DEF PlaceAt
  <2>9. current'[c] = root'[c].mm
    BY Zenon, <1>0, <2>1 DEF PlaceAt
  <2>10. want'[c].context.asid = 0 /\ want'[c].context.epoch <= published'
    BY Zenon, <2>1, <2>3, <2>4
  <2> QED BY Zenon, <2>6, <2>7, <2>8, <2>9, <2>10 DEF PlaceAt
<1>3. CASE InstallKernel(c)
  <2>1. PICK ctx \in Context :
          /\ Write(c, NoMm, ctx) /\ pc' = [pc EXCEPT ![c] = "kernel"]
          /\ current' = [current EXCEPT ![c] = NoMm]
    BY Zenon, <1>3, KernelFacts
  <2>2. root'[c].mm = NoMm
    <3>1. PICK m \in MMs \cup {NoMm} : m = NoMm
      OBVIOUS
    <3>2. Write(c, m, ctx)
      BY Zenon, <2>1, <3>1
    <3>3. root'[c] = [mm |-> m, asid |-> ctx.asid]
      BY ZenonT(30), <1>0, <3>2, WriteFacts
    <3>4. PICK r, a : r = root'[c] /\ a = ctx.asid
      OBVIOUS
    <3>5. r = [mm |-> m, asid |-> a]
      BY Zenon, <3>3, <3>4
    <3>6. r.mm = m
      BY <3>5
    <3> QED BY Zenon, <3>1, <3>4, <3>6
  <2>3. current'[c] = NoMm /\ root'[c].mm = NoMm
    BY Zenon, <1>1, <2>1, <2>2
  <2>4. pc'[c] = "kernel"
    BY Zenon, <1>0, <2>1, PcStep
  <2>5. pc'[c] # "install" /\ pc'[c] # "user" /\ pc'[c] # "leave" /\ pc'[c] \in {"kernel", "user", "leave"}
    BY <2>4
  <2> QED BY Zenon, <2>3, <2>5 DEF PlaceAt
<1>4. CASE LeaveKeepingRoot(c)
  <2>1. /\ hw' = hw /\ ~Riscv /\ pc[c] = "kernel" /\ pc' = pc
        /\ current' = [current EXCEPT ![c] = NoMm]
    BY Zenon, <1>4 DEF LeaveKeepingRoot, At
  <2>2. current'[c] = NoMm
    BY Zenon, <1>1, <2>1
  <2>3. pc'[c] # "install" /\ pc'[c] # "user" /\ pc'[c] # "leave" /\ pc'[c] \in {"kernel", "user", "leave"}
    BY <2>1
  <2>4. ~Riscv'
    BY Zenon, <2>1, SameTypes
  <2> QED BY Zenon, <2>2, <2>3, <2>4 DEF PlaceAt
<1> QED BY Zenon, <1>2, <1>3, <1>4

(* The step of a CPU that writes no context leaves the places of the others *)
(* alone.                                                                   *)
LEMMA PlaceFrame ==
  ASSUME IInv, NEW c \in CPUs, CpuStep(c), ~Assign(c), NEW d \in CPUs \ {c}
  PROVE  PlaceAt(d)'
<1>0. TypeOK /\ LeadInv /\ HoldInv /\ EpochInv
  BY Zenon DEF IInv
<1>1. /\ pc'[d] = pc[d] /\ want'[d] = want[d] /\ current'[d] = current[d]
      /\ root'[d] = root[d] /\ \A m \in MMs : d \in active'[m] <=> d \in active[m]
  BY Zenon, CpuFrame
<1>2. hw' = hw
  BY Zenon, HwStep DEF Next
<1>3. published \in 1..MaxEpoch /\ epoch \in 1..MaxEpoch /\ MaxEpoch \in Nat
  BY Zenon, <1>0, Typed
<1>4. context' = context
  BY Zenon, StepCases, QuietFacts, <1>0
  DEF Fill, Install, InstallKernel, LeadNumber, LeadPublish, mmVars
<1>5. published' = published \/ published' = epoch
  BY Zenon, StepCases, QuietFacts, <1>0
  DEF Fill, Install, InstallKernel, LeadNumber, LeadPublish, allocVars
<1>6. published <= published' /\ published' \in Int
  <2>1. published <= epoch
    BY Zenon, <1>0 DEF EpochInv
  <2> QED BY <1>3, <1>5, <2>1
<1>7. Hardware /\ Holds(d) => epoch' = epoch
  <2>1. CASE LeadNumber(c)
    <3>1. pc[c] = "number"
      BY Zenon, <2>1 DEF LeadNumber, At
    <3>2. Past(c) /\ Leads(c) /\ pc[c] # "sync"
      BY <3>1 DEF Past, Leads
    <3>3. ack = {}
      BY Zenon, <1>0, <3>2, OneLeader
    <3> QED BY Zenon, <1>0, <3>2, <3>3 DEF HoldInv
  <2>2. CASE ~LeadNumber(c)
    BY Zenon, <2>2, StepCases, QuietFacts, <1>0
    DEF Fill, Install, InstallKernel, LeadPublish, allocVars
  <2> QED BY Zenon, <2>1, <2>2
<1> QED BY Zenon, <1>1, <1>2, <1>4, <1>6, <1>7, PlaceOther

LEMMA PlaceNext ==
  ASSUME IInv, [Next]_vars
  PROVE  PlaceInv'
<1>0. TypeOK /\ PlaceInv /\ hw' = hw
  BY Zenon, HwStep DEF IInv
<1>a. published \in Int /\ published <= published
  BY <1>0 DEF TypeOK
<1>1. CASE UNCHANGED vars
  <2>1. UNCHANGED <<epoch, published, context, pc, want, current, root, active>>
    BY Zenon, <1>1 DEF vars, allocVars, mmVars, cpuVars
  <2>2. \A d \in CPUs : PlaceAt(d)'
    BY Zenon, <1>0, <1>a, <2>1, PlaceOther
  <2> QED BY Zenon, <2>2 DEF PlaceInv
<1>2. ASSUME NEW m \in MMs, MmStep(m)
      PROVE  PlaceInv'
  <2>1. /\ UNCHANGED <<hw, epoch, next, published, rollover, context, active, seen, root, want, current>>
        /\ \A d \in CPUs : pc'[d] = pc[d] \/ (pc[d] = "user" /\ pc'[d] = "kernel")
    BY Zenon, <1>0, <1>2, MmFacts
  <2>2. ASSUME NEW d \in CPUs
        PROVE  PlaceAt(d)'
    <3>1. CASE pc'[d] = pc[d]
      BY Zenon, <1>0, <1>a, <2>1, <2>2, <3>1, PlaceOther
    <3>2. CASE pc'[d] = "kernel"
      <4>1. pc'[d] \notin {"install", "leave", "user"}
        BY <3>2
      <4> QED BY Zenon, <1>0, <2>1, <2>2, <3>2, <4>1, PlaceMove
    <3> QED BY Zenon, <2>1, <3>1, <3>2
  <2> QED BY Zenon, <2>2 DEF PlaceInv
<1>3. ASSUME NEW c \in CPUs, CpuStep(c), ~Assign(c)
      PROVE  PlaceAt(c)'
  <2>1. CASE Fill(c)
    <3>1. UNCHANGED <<epoch, published, context, pc, want, current, root, active>>
      BY Zenon, <2>1 DEF Fill, allocVars, mmVars
    <3> QED BY Zenon, <1>0, <1>a, <3>1, PlaceOther
  <2>2. CASE LeaveUserVm(c) \/ InstallKernel(c) \/ LeaveKeepingRoot(c)
    BY Zenon, <2>2, PlaceLeave
  <2>3. CASE Moves(c)
    <3>1. PICK from \in {"user", "assign", "roll", "cas", "wait", "sync"},
             to \in {"kernel", "roll", "assign", "cas", "wait", "number"} :
          /\ pc[c] = from /\ pc' = [pc EXCEPT ![c] = to]
          /\ from = "sync" <=> to = "number"
          /\ to = "number" => ack = {}
          /\ to = "kernel" <=> from = "user"
          /\ UNCHANGED <<hw, epoch, next, rollover, published, context, active, generation, observed,
                         version, freed, flush, seen, root, tlb, want, current, ack, stale, switches>>
      BY Zenon, <2>3, MovesFacts
    <3>2. pc'[c] = to
      BY Zenon, <1>0, <3>1, PcStep
    <3>3. /\ to \notin {"install", "leave", "user"}
          /\ to # "kernel" => from \notin {"kernel", "user", "leave"}
      BY <3>1
    <3>4. UNCHANGED <<want, current, root, active>>
      BY Zenon, <3>1
    <3> QED BY Zenon, <1>0, <3>1, <3>2, <3>3, <3>4, PlaceMove
  <2>4. CASE RollLead(c) \/ LeadTooLate(c) \/ LeadClear(c) \/ LeadNumber(c) \/ LeadPublish(c) \/ LeadFlush(c)
    <3>1. /\ pc[c] \in {"cas", "lead", "clear", "number", "publish"}
          /\ \E to \in {"lead", "assign", "publish", "clear", "sync"} : pc' = [pc EXCEPT ![c] = to]
      BY <2>4 DEF RollLead, LeadTooLate, LeadClear, LeadNumber, LeadPublish, LeadFlush, At, Goto
    <3>2. UNCHANGED <<want, current, root, active>>
      BY Zenon, <2>4 DEF RollLead, LeadTooLate, LeadClear, LeadNumber, LeadPublish, LeadFlush, mmVars
    <3>3. PICK to \in {"lead", "assign", "publish", "clear", "sync"} : pc' = [pc EXCEPT ![c] = to]
      BY Zenon, <3>1
    <3>4. pc'[c] = to
      BY Zenon, <1>0, <3>3, PcStep
    <3>5. /\ pc'[c] \notin {"install", "leave", "user"}
          /\ pc[c] \notin {"kernel", "user", "leave"}
      BY <3>1, <3>3, <3>4
    <3> QED BY Zenon, <1>0, <3>2, <3>5, PlaceMove
  <2>5. CASE AckRollover(c)
    <3>1. pc' = Interrupted(c) /\ IrqOpen(c) /\ UNCHANGED <<want, current, root, active>>
      BY Zenon, <2>5 DEF AckRollover, mmVars
    <3>2. pc'[c] = IF pc[c] = "user" THEN "kernel" ELSE pc[c]
      BY Zenon, <1>0, <3>1, InterruptedFacts
    <3>3. /\ pc'[c] \notin {"install", "leave", "user"}
          /\ pc'[c] # "kernel" => pc[c] \notin {"kernel", "user", "leave"}
      BY <3>1, <3>2 DEF IrqOpen
    <3> QED BY Zenon, <1>0, <3>1, <3>3, PlaceMove
  <2> QED
    BY Zenon, <1>3, <2>1, <2>2, <2>3, <2>4, <2>5, PlaceInstall, PlaceSwitch DEF CpuStep, Roll, Moves
<1>4. ASSUME NEW c \in CPUs, CpuStep(c)
      PROVE  PlaceInv'
  <2>1. CASE Assign(c)
    BY Zenon, <2>1, PlaceAssign
  <2>2. CASE ~Assign(c)
    <3>1. PlaceAt(c)' /\ \A d \in CPUs \ {c} : PlaceAt(d)'
      BY Zenon, <1>3, <1>4, <2>2, PlaceFrame
    <3> QED BY Zenon, <3>1 DEF PlaceInv
  <2> QED BY Zenon, <2>1, <2>2
<1> QED BY Zenon, <1>1, <1>2, <1>4 DEF Next

-----------------------------------------------------------------------------
(* A number stays good when its address space gets a new one in a later     *)
(* epoch.                                                                   *)
LEMMA TaggedStep ==
  ASSUME TypeOK, NEW d \in CPUs, NEW m \in MMs, NEW a, Tagged(d, m, a), seen'[d] = seen[d],
         \/ context'[m] = context[m]
         \/ /\ context[m].epoch <= epoch /\ context[m].epoch # epoch
            /\ context'[m].epoch = epoch
  PROVE  Tagged(d, m, a)'
<1>1. context[m].epoch \in Int /\ epoch \in Int /\ seen[d] \in Int
  <2>1. context[m] \in Context /\ epoch \in 1..MaxEpoch /\ seen[d] \in 0..MaxEpoch /\ MaxEpoch \in Nat
    BY Zenon, Typed
  <2> QED BY <2>1 DEF Context
<1>2. CASE context'[m] = context[m]
  BY Zenon, <1>2 DEF Tagged
<1>3. CASE /\ context[m].epoch <= epoch /\ context[m].epoch # epoch
           /\ context'[m].epoch = epoch
  <2>1. a # 0 /\ seen[d] <= context[m].epoch
    BY Zenon DEF Tagged
  <2>2. seen[d] <= epoch /\ seen[d] # epoch
    BY <1>1, <1>3, <2>1
  <2> QED BY Zenon, <1>3, <2>1, <2>2 DEF Tagged
<1> QED BY Zenon, <1>2, <1>3

LEMMA TagSame ==
  ASSUME IInv, NEW d \in CPUs, hw' = hw, root'[d] = root[d], seen'[d] = seen[d],
         tlb'[d] \subseteq tlb[d],
         \A m \in MMs : \/ context'[m] = context[m]
                        \/ /\ context[m].epoch <= epoch /\ context[m].epoch # epoch
                           /\ context'[m].epoch = epoch,
         ~Riscv => epoch' = epoch \/ tlb'[d] = {}
  PROVE  TagAt(d)'
<1>0. TypeOK /\ TagAt(d)
  BY Zenon DEF IInv, TagInv
<1>1. (Riscv' <=> Riscv) /\ (Hardware' <=> Hardware)
  BY Zenon, SameTypes
<1>2. \A e \in tlb[d] : e.mm \in MMs
  <2>1. tlb[d] \subseteq Entry
    BY Zenon, <1>0, Typed
  <2> QED BY <2>1 DEF Entry
<1>3. root[d].mm \in MMs \cup {NoMm}
  <2>1. root[d] \in RootRec
    BY Zenon, <1>0, Typed
  <2> QED BY <2>1 DEF RootRec
<1>4. ASSUME ~Riscv, NEW e \in tlb'[d]
      PROVE  context'[e.mm] = [epoch |-> epoch', asid |-> e.asid]
  <2>1. e \in tlb[d] /\ e.mm \in MMs
    BY Zenon, <1>2, <1>4
  <2>2. context[e.mm] = [epoch |-> epoch, asid |-> e.asid]
    BY Zenon, <1>0, <1>4, <2>1 DEF TagAt
  <2>3. context[e.mm].epoch = epoch
    BY <2>2
  <2>4. context'[e.mm] = context[e.mm]
    BY Zenon, <2>1, <2>3
  <2>5. epoch' = epoch
    BY Zenon, <1>4
  <2> QED BY Zenon, <2>2, <2>4, <2>5
<1>5. ASSUME Riscv, NEW e \in tlb'[d], e.asid = root'[d].asid
      PROVE  e.mm = root'[d].mm
  BY Zenon, <1>0, <1>5 DEF TagAt
<1>6. ASSUME Riscv, Hardware, NEW e \in tlb'[d]
      PROVE  Tagged(d, e.mm, e.asid)'
  <2>1. e.mm \in MMs /\ Tagged(d, e.mm, e.asid)
    BY Zenon, <1>0, <1>2, <1>6 DEF TagAt
  <2>2. PICK n, a : n = e.mm /\ a = e.asid
    OBVIOUS
  <2>3. n \in MMs /\ Tagged(d, n, a)
    BY Zenon, <2>1, <2>2
  <2>4. Tagged(d, n, a)'
    BY Zenon, <1>0, <2>3, TaggedStep
  <2> QED BY Zenon, <2>2, <2>4
<1>7. ASSUME Riscv, Hardware
      PROVE  (IF root[d].mm = NoMm THEN root[d].asid = 0 ELSE Tagged(d, root[d].mm, root[d].asid))'
  <2>1. CASE root[d].mm = NoMm
    <3>1. root[d].asid = 0
      BY Zenon, <1>0, <1>7, <2>1 DEF TagAt
    <3> QED BY Zenon, <2>1, <3>1
  <2>2. CASE root[d].mm # NoMm
    <3>1. Tagged(d, root[d].mm, root[d].asid)
      BY Zenon, <1>0, <1>7, <2>2 DEF TagAt
    <3>2. PICK n, a : n = root[d].mm /\ a = root[d].asid
      OBVIOUS
    <3>3. n \in MMs /\ Tagged(d, n, a)
      BY Zenon, <1>3, <2>2, <3>1, <3>2
    <3>4. Tagged(d, n, a)'
      BY Zenon, <1>0, <3>3, TaggedStep
    <3>5. n = root'[d].mm /\ a = root'[d].asid /\ root'[d].mm # NoMm
      BY Zenon, <2>2, <3>2
    <3> QED BY Zenon, <3>4, <3>5 DEF Tagged
  <2> QED BY Zenon, <2>1, <2>2
<1>8. \A e \in tlb'[d] : Riscv /\ Hardware => Tagged(d, e.mm, e.asid)'
  BY Zenon, <1>6
<1> QED BY Zenon, <1>1, <1>4, <1>5, <1>7, <1>8 DEF TagAt

(* A translation is cached under the number in the registers. *)
LEMMA FillFacts ==
  ASSUME IInv, NEW c \in CPUs, Fill(c)
  PROVE  \E x \in Entry :
           /\ x.mm = root[c].mm /\ x.asid = root[c].asid /\ x.version = version[x.mm]
           /\ root[c].mm \in MMs /\ (Riscv \/ pc[c] = "user")
           /\ tlb'[c] = tlb[c] \cup {x}
           /\ \A d \in CPUs \ {c} : tlb'[d] = tlb[d]
           /\ UNCHANGED <<hw, epoch, next, published, context, active, generation, observed, version,
                          freed, flush, seen, root, pc>>
<1>0. TypeOK
  BY Zenon DEF IInv
<1>1. /\ root[c].mm # NoMm /\ (Riscv \/ pc[c] = "user")
      /\ tlb' = [tlb EXCEPT ![c] = @ \cup {[asid |-> root[c].asid, mm |-> root[c].mm,
                                            version |-> version[root[c].mm]]}]
      /\ UNCHANGED <<hw, epoch, next, published, context, active, generation, observed, version,
                     freed, flush, seen, root, pc>>
  BY Zenon DEF Fill, allocVars, mmVars
<1>2. PICK x : x = [asid |-> root[c].asid, mm |-> root[c].mm, version |-> version[root[c].mm]]
  BY Zenon
<1>3. root[c] \in RootRec /\ version \in [MMs -> 0..MaxVersion] /\ tlb \in [CPUs -> SUBSET Entry]
  BY Zenon, <1>0, Typed
<1>4. root[c].mm \in MMs /\ root[c].asid \in 0..MaxAsid
  BY <1>1, <1>3 DEF RootRec
<1>5. x \in Entry
  BY <1>2, <1>3, <1>4 DEF Entry
<1>6. x.mm = root[c].mm /\ x.asid = root[c].asid /\ x.version = version[x.mm]
  BY <1>2
<1>7. tlb' = [tlb EXCEPT ![c] = tlb[c] \cup {x}]
  BY Zenon, <1>1, <1>2
<1>8. tlb'[c] = tlb[c] \cup {x} /\ \A d \in CPUs \ {c} : tlb'[d] = tlb[d]
  BY Zenon, <1>3, <1>7
<1> QED BY Zenon, <1>1, <1>4, <1>5, <1>6, <1>8

LEMMA TagFill ==
  ASSUME IInv, NEW c \in CPUs, Fill(c)
  PROVE  TagAt(c)'
<1>0. TypeOK /\ TagAt(c) /\ PlaceAt(c)
  BY Zenon DEF IInv, TagInv, PlaceInv
<1>1. PICK x \in Entry :
        /\ x.mm = root[c].mm /\ x.asid = root[c].asid /\ x.version = version[x.mm]
        /\ root[c].mm \in MMs /\ (Riscv \/ pc[c] = "user")
        /\ tlb'[c] = tlb[c] \cup {x}
        /\ \A d \in CPUs \ {c} : tlb'[d] = tlb[d]
        /\ UNCHANGED <<hw, epoch, next, published, context, active, generation, observed, version,
                       freed, flush, seen, root, pc>>
  BY Zenon, FillFacts
<1>2. (Riscv' <=> Riscv) /\ (Hardware' <=> Hardware) /\ root[c].mm # NoMm
  <2>1. NoMm \notin MMs
    BY AsidAssumption
  <2> QED BY Zenon, <1>1, <2>1, SameTypes
<1>3. \A e \in tlb'[c] : e \in tlb[c] \/ e = x
  BY Zenon, <1>1
<1>4. UNCHANGED <<context, epoch, root, seen>>
  BY Zenon, <1>1
<1>5. ~Riscv => \A e \in tlb'[c] : context'[e.mm] = [epoch |-> epoch', asid |-> e.asid]
  <2>1. ~Riscv => context[x.mm] = [epoch |-> epoch, asid |-> x.asid]
    BY Zenon, <1>0, <1>1 DEF PlaceAt
  <2> QED BY Zenon, <1>0, <1>3, <1>4, <2>1 DEF TagAt
<1>6. Riscv => \A e \in tlb'[c] : e.asid = root'[c].asid => e.mm = root'[c].mm
  BY Zenon, <1>0, <1>1, <1>3, <1>4 DEF TagAt
<1>7. ASSUME Riscv, Hardware
      PROVE  /\ Tagged(c, root[c].mm, root[c].asid)
             /\ \A e \in tlb'[c] : Tagged(c, e.mm, e.asid)
  <2>1. Tagged(c, root[c].mm, root[c].asid) /\ \A e \in tlb[c] : Tagged(c, e.mm, e.asid)
    BY Zenon, <1>0, <1>2, <1>7 DEF TagAt
  <2> QED BY Zenon, <1>1, <1>3, <2>1
<1>8. ASSUME Riscv, Hardware
      PROVE  /\ Tagged(c, root[c].mm, root[c].asid)'
             /\ \A e \in tlb'[c] : Tagged(c, e.mm, e.asid)'
  <2>1. Tagged(c, root[c].mm, root[c].asid)'
    BY Zenon, <1>4, <1>7, <1>8 DEF Tagged
  <2>2. \A e \in tlb'[c] : Tagged(c, e.mm, e.asid)'
    BY Zenon, <1>4, <1>7, <1>8 DEF Tagged
  <2> QED BY Zenon, <2>1, <2>2
<1>9. \A e \in tlb'[c] : Riscv /\ Hardware => Tagged(c, e.mm, e.asid)'
  BY Zenon, <1>8
<1>10. root'[c].mm # NoMm
  BY Zenon, <1>2, <1>4
<1> QED BY Zenon, <1>2, <1>5, <1>6, <1>8, <1>9, <1>10 DEF TagAt

(* Without numbers the registers either keep their value or everything is   *)
(* flushed.                                                                 *)
LEMMA TagNoAsid ==
  ASSUME IInv, NEW c \in CPUs, NEW m \in MMs \cup {NoMm}, NEW ctx \in Context, Write(c, m, ctx),
         Riscv, ~Hardware
  PROVE  \A e \in tlb'[c] : e.asid = root'[c].asid => e.mm = root'[c].mm
<1>0. TypeOK /\ TagAt(c)
  BY Zenon DEF IInv, TagInv
<1>1. /\ tlb'[c] = {} \/ tlb'[c] = tlb[c]
      /\ Riscv /\ ~Hardware /\ root'[c] # root[c] => tlb'[c] = {}
  BY ZenonT(30), <1>0, WriteFacts
<1>2. CASE root'[c] # root[c]
  BY Zenon, <1>1, <1>2
<1>3. CASE root'[c] = root[c] /\ tlb'[c] = tlb[c]
  <2>1. \A e \in tlb[c] : e.asid = root[c].asid => e.mm = root[c].mm
    BY Zenon, <1>0 DEF TagAt
  <2>2. root'[c].asid = root[c].asid /\ root'[c].mm = root[c].mm
    BY Zenon, <1>3
  <2>3. ASSUME NEW e \in tlb'[c], e.asid = root'[c].asid
        PROVE  e.mm = root'[c].mm
    <3>1. e \in tlb[c] /\ e.asid = root[c].asid
      BY Zenon, <1>3, <2>2, <2>3
    <3> QED BY Zenon, <2>1, <2>2, <3>1
  <2> QED BY Zenon, <2>3
<1>4. CASE tlb'[c] = {}
  BY Zenon, <1>4
<1> QED BY Zenon, <1>1, <1>2, <1>3, <1>4

LEMMA TagInstall ==
  ASSUME IInv, NEW c \in CPUs, Install(c)
  PROVE  TagAt(c)'
<1>0. TypeOK /\ TagAt(c) /\ EpochInv
  BY Zenon DEF IInv, TagInv
<1>1. PICK m \in MMs, ctx \in Context :
        /\ m = want[c].mm /\ ctx = want[c].context /\ ctx = context[m]
        /\ pc[c] = "install" /\ c \in active[m]
        /\ Hardware => ctx.epoch = epoch
        /\ Write(c, m, ctx)
  BY Zenon, InstallFacts
<1>2. Write(c, m, ctx) /\ m \in MMs \cup {NoMm}
  BY Zenon, <1>1
<1>3. root'[c] = [mm |-> m, asid |-> ctx.asid]
  BY <1>0, <1>2, WriteFacts
<1>4. /\ tlb'[c] = {} \/ tlb'[c] = tlb[c]
      /\ Riscv /\ Hardware /\ seen[c] < ctx.epoch => tlb'[c] = {} /\ seen'[c] = ctx.epoch
      /\ ~(Riscv /\ Hardware /\ seen[c] < ctx.epoch) => seen'[c] = seen[c]
  BY ZenonT(30), <1>0, <1>2, WriteFacts
<1>5. hw' = hw /\ UNCHANGED <<context, epoch>>
  BY Zenon DEF Install, allocVars
<1>6. (Riscv' <=> Riscv) /\ (Hardware' <=> Hardware) /\ m # NoMm
  <2>1. NoMm \notin MMs
    BY AsidAssumption
  <2> QED BY Zenon, <1>5, <2>1, SameTypes
<1>7. root'[c].mm = m /\ root'[c].asid = ctx.asid
  BY <1>3
<1>8. ~Riscv => \A e \in tlb'[c] : context'[e.mm] = [epoch |-> epoch', asid |-> e.asid]
  BY Zenon, <1>0, <1>4, <1>5 DEF TagAt
<1>9. CASE ~Riscv
  BY Zenon, <1>6, <1>8, <1>9 DEF TagAt
<1>10. CASE Riscv /\ ~Hardware
  <2>1. \A e \in tlb'[c] : e.asid = root'[c].asid => e.mm = root'[c].mm
    BY Zenon, <1>2, <1>10, TagNoAsid
  <2> QED BY Zenon, <1>6, <1>10, <2>1 DEF TagAt
<1>11. CASE Riscv /\ Hardware
  <2>1. /\ epoch \in Int /\ seen[c] \in Int /\ published \in Int /\ next \in Int
        /\ \A n \in MMs : context[n].epoch \in Int /\ context[n].asid \in Int
    <3>1. /\ epoch \in 1..MaxEpoch /\ seen[c] \in 0..MaxEpoch /\ published \in 1..MaxEpoch
          /\ next \in 1..(MaxAsid + 1) /\ MaxEpoch \in Nat /\ MaxAsid \in Nat
          /\ \A n \in MMs : context[n] \in Context
      BY Zenon, <1>0, Typed
    <3> QED BY <3>1 DEF Context
  <2>2. seen[c] <= epoch
    <3>1. seen[c] <= published /\ published <= epoch
      BY Zenon, <1>0 DEF EpochInv
    <3> QED BY <2>1, <3>1
  <2>3. ctx.asid # 0
    <3>1. context[m].asid \in 1..(next - 1)
      BY Zenon, <1>0, <1>1, <1>11 DEF EpochInv
    <3> QED BY <1>1, <3>1
  <2>4. ctx.epoch = epoch /\ ctx = context[m]
    BY Zenon, <1>1, <1>11
  <2>5. seen'[c] = epoch
    BY <1>4, <1>11, <2>1, <2>2, <2>4
  <2>6. \A e \in tlb'[c] : Tagged(c, e.mm, e.asid) /\ seen[c] = epoch /\ e.mm \in MMs
    <3>1. CASE seen[c] < ctx.epoch
      BY Zenon, <1>4, <1>11, <3>1
    <3>2. CASE seen[c] = epoch
      <4>1. tlb[c] \subseteq Entry
        BY Zenon, <1>0, Typed
      <4>2. \A e \in tlb[c] : e.mm \in MMs
        BY <4>1 DEF Entry
      <4> QED BY Zenon, <1>0, <1>4, <1>11, <3>2, <4>2 DEF TagAt
    <3> QED BY <2>1, <2>2, <2>4, <3>1, <3>2
  <2>7. \A e \in tlb'[c] : context[e.mm].epoch = epoch /\ context[e.mm].asid = e.asid
    <3>1. ASSUME NEW e \in tlb'[c]
          PROVE  context[e.mm].epoch = epoch /\ context[e.mm].asid = e.asid
      <4>1. PICK n \in MMs : n = e.mm
        BY Zenon, <2>6, <3>1
      <4>2. seen[c] = epoch /\ seen[c] <= context[n].epoch
        BY Zenon, <2>6, <3>1, <4>1 DEF Tagged
      <4>3. context[n].epoch <= epoch
        BY Zenon, <1>0, <4>1 DEF EpochInv
      <4>4. context[n].epoch = epoch
        BY <2>1, <4>1, <4>2, <4>3
      <4> QED BY Zenon, <2>6, <3>1, <4>1, <4>2, <4>4 DEF Tagged
    <3> QED BY Zenon, <3>1
  <2>8. \A e \in tlb'[c] : e.asid = root'[c].asid => e.mm = root'[c].mm
    <3>1. ASSUME NEW e \in tlb'[c], e.asid = root'[c].asid
          PROVE  e.mm = root'[c].mm
      <4>1. e.mm \in MMs /\ context[e.mm].epoch = epoch /\ context[e.mm].asid = e.asid
        BY Zenon, <2>6, <2>7, <3>1
      <4>2. context[m].epoch = epoch /\ context[m].asid = e.asid
        BY Zenon, <1>7, <2>4, <3>1
      <4>3. e.mm = m
        BY Zenon, <1>0, <1>11, <4>1, <4>2 DEF EpochInv
      <4> QED BY Zenon, <1>7, <4>3
    <3> QED BY Zenon, <3>1
  <2>9. epoch <= epoch
    BY <2>1
  <2>10. ASSUME NEW e \in tlb'[c]
         PROVE  Tagged(c, e.mm, e.asid)'
    <3>1. Tagged(c, e.mm, e.asid) /\ seen[c] = epoch
      BY Zenon, <2>6
    <3> QED BY Zenon, <1>5, <2>5, <3>1 DEF Tagged
  <2>11. Tagged(c, root[c].mm, root[c].asid)'
    BY Zenon, <1>5, <1>7, <2>3, <2>4, <2>5, <2>9 DEF Tagged
  <2>12. root'[c].mm # NoMm
    BY Zenon, <1>6, <1>7
  <2> QED BY Zenon, <1>6, <1>11, <2>8, <2>10, <2>11, <2>12 DEF TagAt
<1> QED BY Zenon, <1>9, <1>10, <1>11

LEMMA TagKernel ==
  ASSUME IInv, NEW c \in CPUs, InstallKernel(c)
  PROVE  TagAt(c)'
<1>0. TypeOK /\ TagAt(c) /\ EpochInv
  BY Zenon DEF IInv, TagInv
<1>1. PICK ctx \in Context :
           /\ ctx = want[c].context /\ ctx.asid = 0 /\ ctx.epoch <= published
           /\ pc[c] = "leave" /\ Riscv /\ hw.leaving
           /\ Write(c, NoMm, ctx)
  BY Zenon, KernelFacts
<1>2. PICK m : m = NoMm
  OBVIOUS
<1>3. Write(c, m, ctx) /\ m \in MMs \cup {NoMm}
  BY Zenon, <1>1, <1>2
<1>4. root'[c] = [mm |-> m, asid |-> ctx.asid]
  BY <1>0, <1>3, WriteFacts
<1>5. root'[c].mm = NoMm /\ root'[c].asid = 0
  BY <1>1, <1>2, <1>4
<1>6. /\ tlb'[c] = {} \/ tlb'[c] = tlb[c]
      /\ Riscv /\ Hardware /\ seen[c] < ctx.epoch => tlb'[c] = {} /\ seen'[c] = ctx.epoch
      /\ ~(Riscv /\ Hardware /\ seen[c] < ctx.epoch) => seen'[c] = seen[c]
  BY ZenonT(30), <1>0, <1>3, WriteFacts
<1>7. hw' = hw /\ UNCHANGED <<context, epoch>>
  BY Zenon DEF InstallKernel, allocVars
<1>8. Riscv' /\ (Hardware' <=> Hardware)
  BY Zenon, <1>1, <1>7, SameTypes
<1>9. CASE ~Hardware
  <2>1. \A e \in tlb'[c] : e.asid = root'[c].asid => e.mm = root'[c].mm
    BY Zenon, <1>1, <1>3, <1>9, TagNoAsid
  <2> QED BY Zenon, <1>8, <1>9, <2>1 DEF TagAt
<1>10. CASE Hardware
  <2>1. \A e \in tlb'[c] : Tagged(c, e.mm, e.asid) /\ seen'[c] = seen[c]
    BY Zenon, <1>0, <1>1, <1>6, <1>10 DEF TagAt
  <2>2. \A e \in tlb'[c] : e.asid # 0
    BY Zenon, <2>1 DEF Tagged
  <2>3. \A e \in tlb'[c] : Tagged(c, e.mm, e.asid)'
    BY Zenon, <1>7, <2>1 DEF Tagged
  <2>4. \A e \in tlb'[c] : e.asid # root'[c].asid
    BY Zenon, <1>5, <2>2
  <2> QED BY Zenon, <1>5, <1>8, <1>10, <2>3, <2>4 DEF TagAt
<1> QED BY Zenon, <1>9, <1>10

LEMMA TagNext ==
  ASSUME IInv, [Next]_vars
  PROVE  TagInv'
<1>0. TypeOK /\ LeadInv /\ HoldInv /\ EpochInv /\ hw' = hw
  BY Zenon, HwStep DEF IInv
<1>1. ASSUME UNCHANGED <<epoch, context, root, seen>>, \A d \in CPUs : tlb'[d] \subseteq tlb[d]
      PROVE  TagInv'
  <2>1. \A d \in CPUs : TagAt(d)'
    BY Zenon, <1>0, <1>1, TagSame
  <2> QED BY Zenon, <2>1 DEF TagInv
<1>2. CASE UNCHANGED vars
  <2>1. UNCHANGED <<epoch, context, root, seen, tlb>>
    BY Zenon, <1>2 DEF vars, allocVars, mmVars, cpuVars
  <2> QED BY Zenon, <1>1, <2>1
<1>3. ASSUME NEW m \in MMs, MmStep(m)
      PROVE  TagInv'
  <2>1. /\ UNCHANGED <<hw, epoch, next, published, rollover, context, active, seen, root, want, current>>
        /\ \A d \in CPUs : tlb'[d] \subseteq tlb[d]
    BY Zenon, <1>0, <1>3, MmFacts
  <2> QED BY Zenon, <1>1, <2>1
<1>4. ASSUME NEW c \in CPUs, Quiet(c)
      PROVE  TagInv'
  <2>1. /\ UNCHANGED <<hw, epoch, next, published, context, generation, observed, version, freed,
                        flush, seen, root>>
        /\ \A d \in CPUs : tlb'[d] \subseteq tlb[d]
    BY Zenon, <1>0, <1>4, QuietFacts
  <2> QED BY Zenon, <1>1, <2>1
<1>5. ASSUME NEW c \in CPUs, Assign(c)
      PROVE  TagInv'
  <2>1. PICK m \in MMs, ctx \in Context :
          /\ m = want[c].mm /\ pc[c] = "assign"
          /\ context' = [context EXCEPT ![m] = ctx]
          /\ want' = [want EXCEPT ![c].context = ctx]
          /\ ActivateCpu(m, c)
          /\ Hardware => ~rollover /\ ctx.epoch = epoch
          /\ \/ ctx = context[m] /\ next' = next
             \/ /\ Hardware /\ context[m].epoch # epoch /\ next <= MaxAsid
                /\ ctx.asid = next /\ next' = next + 1
    BY Zenon, <1>5, AssignFacts
  <2>2. UNCHANGED <<epoch, root, seen>>
    BY Zenon, <1>5 DEF Assign
  <2>3. \A d \in CPUs : tlb'[d] \subseteq tlb[d]
    <3>1. ActivateCpu(m, c)
      BY Zenon, <2>1
    <3>2. /\ \A d \in CPUs \ {c} : observed'[m][d] = observed[m][d] /\ tlb'[d] = tlb[d]
          /\ tlb'[c] = IF observed[m][c] < generation[m] THEN {} ELSE tlb[c]
      BY ZenonT(30), <1>0, <3>1, ActivateFacts
    <3> QED BY <3>2
  <2>4. \A n \in MMs : \/ context'[n] = context[n]
                       \/ /\ context[n].epoch <= epoch /\ context[n].epoch # epoch
                          /\ context'[n].epoch = epoch
    <3>1. context \in [MMs -> Context]
      BY Zenon, <1>0, Typed
    <3>2. context'[m] = ctx /\ \A n \in MMs \ {m} : context'[n] = context[n]
      BY Zenon, <2>1, <3>1
    <3>3. \A n \in MMs : context[n].epoch <= epoch
      BY Zenon, <1>0 DEF EpochInv
    <3> QED BY Zenon, <2>1, <3>2, <3>3
  <2>5. \A d \in CPUs : TagAt(d)'
    BY Zenon, <1>0, <2>2, <2>3, <2>4, TagSame
  <2> QED BY Zenon, <2>5 DEF TagInv
<1>6. ASSUME NEW c \in CPUs, LeadNumber(c)
      PROVE  TagInv'
  <2>1. pc[c] = "number" /\ UNCHANGED <<context, root, seen, tlb>>
    BY Zenon, <1>6 DEF LeadNumber, At, mmVars
  <2>2. Past(c) /\ Leads(c) /\ pc[c] # "sync"
    BY <2>1 DEF Past, Leads
  <2>3. ack = {}
    BY Zenon, <1>0, <2>2, OneLeader
  <2>4. ~Riscv => \A d \in CPUs : tlb[d] = {}
    BY Zenon, <1>0, <2>2, <2>3 DEF HoldInv
  <2>5. \A d \in CPUs : TagAt(d)'
    BY Zenon, <1>0, <2>1, <2>4, TagSame
  <2> QED BY Zenon, <2>5 DEF TagInv
<1>7. ASSUME NEW c \in CPUs, LeadPublish(c)
      PROVE  TagInv'
  <2>1. UNCHANGED <<epoch, context, root, seen, tlb>>
    BY Zenon, <1>7 DEF LeadPublish, mmVars
  <2> QED BY Zenon, <1>1, <2>1
<1>8. ASSUME NEW c \in CPUs, Fill(c) \/ Install(c) \/ InstallKernel(c)
      PROVE  TagInv'
  <2>1. CpuStep(c)
    BY Zenon, <1>8 DEF CpuStep
  <2>2. \A d \in CPUs \ {c} : root'[d] = root[d] /\ seen'[d] = seen[d] /\ tlb'[d] = tlb[d]
    BY Zenon, <2>1, CpuFrame
  <2>3. UNCHANGED <<epoch, context>>
    BY Zenon, <1>8 DEF Fill, Install, InstallKernel, allocVars, mmVars
  <2>4. \A d \in CPUs \ {c} : TagAt(d)'
    BY Zenon, <1>0, <2>2, <2>3, TagSame
  <2>5. TagAt(c)'
    BY Zenon, <1>8, TagFill, TagInstall, TagKernel
  <2> QED BY Zenon, <2>4, <2>5 DEF TagInv
<1>9. ASSUME NEW c \in CPUs, CpuStep(c)
      PROVE  TagInv'
  BY Zenon, <1>4, <1>5, <1>6, <1>7, <1>8, <1>9, StepCases
<1> QED BY Zenon, <1>2, <1>3, <1>9 DEF Next

-----------------------------------------------------------------------------
LEMMA OldSame ==
  ASSUME NEW m \in MMs, NEW c \in CPUs, OldAt(m, c), tlb'[c] \subseteq tlb[c],
         version'[m] = version[m], generation'[m] = generation[m],
         c \in active'[m] => c \in active[m], observed'[m][c] = observed[m][c],
         c \in flush'[m].targets <=> c \in flush[m].targets,
         c \in flush[m].targets => flush'[m].full = flush[m].full /\ flush'[m].asid = flush[m].asid
  PROVE  OldAt(m, c)'
<1>1. ASSUME NEW e \in tlb'[c], e.mm = m, e.version < version'[m]
      PROVE  IF c \in flush'[m].targets
             THEN e.version = version'[m] - 1 /\ (~flush'[m].full => e.asid = flush'[m].asid)
             ELSE c \notin active'[m] /\ observed'[m][c] < generation'[m]
  <2>1. e \in tlb[c] /\ e.version < version[m]
    BY Zenon, <1>1
  <2>2. CASE c \in flush[m].targets
    <3>1. e.version = version[m] - 1 /\ (~flush[m].full => e.asid = flush[m].asid)
      BY Zenon, <1>1, <2>1, <2>2 DEF OldAt
    <3> QED BY Zenon, <2>2, <3>1
  <2>3. CASE c \notin flush[m].targets
    <3>1. c \notin active[m] /\ observed[m][c] < generation[m]
      BY Zenon, <1>1, <2>1, <2>3 DEF OldAt
    <3> QED BY Zenon, <2>3, <3>1
  <2> QED BY Zenon, <2>2, <2>3
<1> QED BY Zenon, <1>1 DEF OldAt

LEMMA FlushSame ==
  ASSUME IInv, UNCHANGED <<version, flush, observed, generation, freed>>,
         \A c \in CPUs : tlb'[c] \subseteq tlb[c],
         \A m \in MMs : active'[m] \subseteq active[m]
  PROVE  FlushInv'
<1>0. FlushInv /\ NoFlush' = NoFlush
  BY Zenon DEF IInv, NoFlush
<1>1. ASSUME NEW m \in MMs
      PROVE  FlushAt(m)' /\ \A c \in CPUs : OldAt(m, c)'
  <2>1. FlushAt(m) /\ \A c \in CPUs : OldAt(m, c)
    BY Zenon, <1>0 DEF FlushInv
  <2>2. FlushAt(m)'
    BY Zenon, <1>0, <2>1 DEF FlushAt
  <2>3. \A c \in CPUs : OldAt(m, c)'
    BY Zenon, <2>1, OldSame
  <2> QED BY Zenon, <2>2, <2>3
<1> QED BY Zenon, <1>1 DEF FlushInv

LEMMA FlushFill ==
  ASSUME IInv, NEW c \in CPUs, Fill(c)
  PROVE  FlushInv'
<1>0. FlushInv /\ NoFlush' = NoFlush /\ TypeOK
  BY Zenon DEF IInv, NoFlush
<1>1. PICK x \in Entry :
        /\ x.mm = root[c].mm /\ x.asid = root[c].asid /\ x.version = version[x.mm]
        /\ root[c].mm \in MMs /\ (Riscv \/ pc[c] = "user")
        /\ tlb'[c] = tlb[c] \cup {x}
        /\ \A d \in CPUs \ {c} : tlb'[d] = tlb[d]
        /\ UNCHANGED <<hw, epoch, next, published, context, active, generation, observed, version,
                       freed, flush, seen, root, pc>>
  BY Zenon, FillFacts
<1>2. UNCHANGED <<version, flush, observed, generation, freed, active>>
  BY Zenon, <1>1
<1>3. \A d \in CPUs : \A e \in tlb'[d] : e.version < version[e.mm] => e \in tlb[d]
  <2>1. ~(x.version < version[x.mm])
    <3>1. x.version \in Int
      BY <1>1 DEF Entry
    <3> QED BY <1>1, <3>1
  <2>2. \A e \in tlb'[c] : e \in tlb[c] \/ e = x
    BY Zenon, <1>1
  <2> QED BY Zenon, <1>1, <2>1, <2>2
<1>4. ASSUME NEW m \in MMs
      PROVE  FlushAt(m)' /\ \A d \in CPUs : OldAt(m, d)'
  <2>1. FlushAt(m) /\ \A d \in CPUs : OldAt(m, d)
    BY Zenon, <1>0 DEF FlushInv
  <2>2. FlushAt(m)'
    BY Zenon, <1>0, <1>2, <2>1 DEF FlushAt
  <2>3. \A d \in CPUs : OldAt(m, d)'
    BY Zenon, <1>2, <1>3, <2>1 DEF OldAt
  <2> QED BY Zenon, <2>2, <2>3
<1> QED BY Zenon, <1>4 DEF FlushInv

LEMMA FlushAssign ==
  ASSUME IInv, NEW c \in CPUs, Assign(c)
  PROVE  FlushInv'
<1>0. FlushInv /\ NoFlush' = NoFlush /\ TypeOK
  BY Zenon DEF IInv, NoFlush
<1>1. PICK m \in MMs, ctx \in Context : ActivateCpu(m, c)
  BY Zenon, AssignFacts
<1>2. /\ active'[m] = active[m] \cup {c}
      /\ \A n \in MMs \ {m} : active'[n] = active[n] /\ observed'[n] = observed[n]
      /\ observed'[m][c] = generation[m]
      /\ \A d \in CPUs \ {c} : observed'[m][d] = observed[m][d] /\ tlb'[d] = tlb[d]
      /\ tlb'[c] = IF observed[m][c] < generation[m] THEN {} ELSE tlb[c]
  BY ZenonT(30), <1>0, <1>1, ActivateFacts
<1>3. UNCHANGED <<version, flush, generation, freed>>
  BY Zenon DEF Assign
<1>4. \A d \in CPUs : tlb'[d] \subseteq tlb[d]
  BY <1>2
<1>5. \A n \in MMs : FlushAt(n)
  BY Zenon, <1>0 DEF FlushInv
<1>6. \A n \in MMs, d \in CPUs : OldAt(n, d)
  BY Zenon, <1>0 DEF FlushInv
<1>7. generation[m] \in Nat /\ observed[m][c] \in Nat
  BY Zenon, <1>0, Typed
<1>8. ASSUME NEW n \in MMs, NEW d \in CPUs
      PROVE  OldAt(n, d)' /\ observed'[n][d] <= generation'[n]
  <2>1. CASE n = m /\ d = c
    <3>1. observed'[n][d] <= generation'[n]
      BY <1>2, <1>3, <1>7, <2>1
    <3>2. CASE observed[m][c] < generation[m]
      <4>1. tlb'[d] = {}
        BY Zenon, <1>2, <2>1, <3>2
      <4> QED BY Zenon, <3>1, <4>1 DEF OldAt
    <3>3. CASE ~(observed[m][c] < generation[m])
      <4>1. \A e \in tlb[c] : e.mm = m /\ e.version < version[m] =>
              /\ c \in flush[m].targets /\ e.version = version[m] - 1
              /\ (~flush[m].full => e.asid = flush[m].asid)
        BY Zenon, <1>6, <3>3 DEF OldAt
      <4> QED BY Zenon, <1>3, <1>4, <2>1, <3>1, <4>1 DEF OldAt
    <3> QED BY Zenon, <3>2, <3>3
  <2>2. CASE ~(n = m /\ d = c)
    <3>1. observed'[n][d] = observed[n][d] /\ (d \in active'[n] => d \in active[n])
      <4>1. CASE n = m
        <5>1. d \in CPUs \ {c}
          BY Zenon, <2>2, <4>1
        <5> QED BY <1>2, <4>1, <5>1
      <4>2. CASE n # m
        BY Zenon, <1>2, <4>2
      <4> QED BY Zenon, <4>1, <4>2
    <3>2. OldAt(n, d)'
      BY Zenon, <1>3, <1>4, <1>6, <3>1, OldSame
    <3>3. observed'[n][d] <= generation'[n]
      BY Zenon, <1>3, <1>5, <3>1 DEF FlushAt
    <3> QED BY Zenon, <3>2, <3>3
  <2> QED BY Zenon, <2>1, <2>2
<1>9. \A n \in MMs : FlushAt(n)'
  BY Zenon, <1>0, <1>3, <1>5, <1>8 DEF FlushAt
<1> QED BY Zenon, <1>8, <1>9 DEF FlushInv

(* An entry of an address space that the CPU is registered in, when the     *)
(* flush is not a full one, is cached under the number of the context.      *)
LEMMA FlushNumber ==
  ASSUME IInv, NEW m \in MMs, NEW c \in active[m], c \in CPUs, ~RequireFull(m),
         NEW e \in tlb[c], e.mm = m
  PROVE  e.asid = context[m].asid
<1>0. TypeOK /\ TagAt(c) /\ EpochInv
  BY Zenon DEF IInv, TagInv
<1>1. e \in Entry /\ context[m] \in Context /\ seen[c] \in 0..MaxEpoch /\ (~Hardware => Riscv)
      /\ MaxEpoch \in Nat /\ MaxAsid \in Nat
  BY Zenon, <1>0, Typed
<1>2. CASE ~Riscv
  <2>1. context[m] = [epoch |-> epoch, asid |-> e.asid]
    BY Zenon, <1>0, <1>2 DEF TagAt
  <2> QED BY <2>1
<1>3. CASE ~Hardware
  <2>1. context[m] = None
    BY Zenon, <1>0, <1>3 DEF EpochInv
  <2>2. e.asid \in 0..MaxAsid /\ MaxAsid = 0
    BY <1>1, <1>3 DEF Entry, Hardware
  <2>3. e.asid = 0
    BY <2>2
  <2> QED BY <2>1, <2>3 DEF None
<1>4. CASE Riscv /\ Hardware
  <2>1. ~(seen[c] < context[m].epoch)
    BY Zenon, <1>4 DEF RequireFull
  <2>2. Tagged(c, m, e.asid)
    BY Zenon, <1>0, <1>4 DEF TagAt
  <2>3. context[m].epoch \in Int /\ seen[c] \in Int
    BY <1>1 DEF Context
  <2>4. seen[c] <= context[m].epoch
    BY Zenon, <2>2 DEF Tagged
  <2>5. seen[c] = context[m].epoch
    BY <2>1, <2>3, <2>4
  <2> QED BY Zenon, <2>2, <2>5 DEF Tagged
<1> QED BY Zenon, <1>2, <1>3, <1>4

LEMMA FlushWrite ==
  ASSUME IInv, NEW m \in MMs, WritePte(m)
  PROVE  FlushInv'
<1>0. FlushInv /\ NoFlush' = NoFlush /\ TypeOK
  BY Zenon DEF IInv, NoFlush
<1>1. PICK f : f = [targets |-> active[m], asid |-> context[m].asid, full |-> RequireFull(m),
                    generation |-> generation[m] + 1]
  BY Zenon
<1>2. /\ flush[m] = NoFlush
      /\ version' = [version EXCEPT ![m] = version[m] + 1]
      /\ generation' = [generation EXCEPT ![m] = generation[m] + 1]
      /\ flush' = [flush EXCEPT ![m] = f]
      /\ UNCHANGED <<active, observed, freed, tlb>>
  BY Zenon, <1>1 DEF WritePte, cpuVars
<1>3. /\ version \in [MMs -> 0..MaxVersion] /\ generation \in [MMs -> Nat] /\ flush \in [MMs -> FlushRec]
      /\ freed \in [MMs -> 0..MaxVersion] /\ observed \in [MMs -> [CPUs -> Nat]]
      /\ tlb \in [CPUs -> SUBSET Entry] /\ MaxVersion \in Nat
  BY Zenon, <1>0, Typed
<1>4. /\ version'[m] = version[m] + 1 /\ generation'[m] = generation[m] + 1 /\ flush'[m] = f
      /\ \A n \in MMs \ {m} :
           version'[n] = version[n] /\ generation'[n] = generation[n] /\ flush'[n] = flush[n]
  BY Zenon, <1>2, <1>3
<1>5. /\ f.targets = active[m] /\ f.asid = context[m].asid /\ f.generation = generation[m] + 1
      /\ (f.full <=> RequireFull(m))
  BY <1>1
<1>6. FlushAt(m) /\ \A c \in CPUs : OldAt(m, c)
  BY Zenon, <1>0 DEF FlushInv
<1>7. /\ version[m] \in Nat /\ generation[m] \in Nat /\ freed[m] \in Nat
      /\ \A c \in CPUs : observed[m][c] \in Nat
  <2>1. version[m] \in 0..MaxVersion /\ freed[m] \in 0..MaxVersion
    BY Zenon, <1>3
  <2>2. generation[m] \in Nat /\ \A c \in CPUs : observed[m][c] \in Nat
    BY Zenon, <1>3
  <2> QED BY <1>3, <2>1, <2>2
<1>8. \A c \in CPUs : observed[m][c] <= generation[m]
  BY Zenon, <1>6 DEF FlushAt
<1>9. \A c \in CPUs : observed[m][c] <= generation[m] + 1 /\ observed[m][c] < generation[m] + 1
  BY SMTT(30), <1>7, <1>8
<1>10. FlushAt(m)'
  <2>1. generation[m] = version[m] + 1 /\ freed[m] = version[m]
    BY Zenon, <1>2, <1>6 DEF FlushAt
  <2>2. f # NoFlush
    <3>1. f.generation # 0
      BY <1>5, <1>7
    <3> QED BY <3>1 DEF NoFlush
  <2>3. generation[m] + 1 = version[m] + 1 + 1 /\ freed[m] = version[m] + 1 - 1
    BY <1>7, <2>1
  <2>4. generation'[m] = version'[m] + 1 /\ freed'[m] = version'[m] - 1
    BY <1>2, <1>4, <1>7, <2>1
  <2>5. flush'[m] # NoFlush' /\ flush'[m].generation = generation'[m]
    BY Zenon, <1>0, <1>4, <1>5, <2>2
  <2>6. \A c \in CPUs : observed'[m][c] <= generation'[m]
    BY Zenon, <1>2, <1>4, <1>9
  <2> QED BY Zenon, <2>4, <2>5, <2>6 DEF FlushAt
<1>11. ASSUME NEW c \in CPUs
       PROVE  OldAt(m, c)'
  <2>1. ASSUME NEW e \in tlb'[c], e.mm = m, e.version < version'[m]
        PROVE  IF c \in flush'[m].targets
               THEN e.version = version'[m] - 1 /\ (~flush'[m].full => e.asid = flush'[m].asid)
               ELSE c \notin active'[m] /\ observed'[m][c] < generation'[m]
    <3>1. e \in tlb[c] /\ e.version \in Int
      <4>1. e \in tlb[c] /\ e \in Entry
        BY Zenon, <1>2, <1>3, <2>1
      <4> QED BY <4>1 DEF Entry
    <3>2. CASE c \in active[m]
      <4>1. ~(e.version < version[m])
        <5>1. c \notin flush[m].targets
          BY <1>2 DEF NoFlush
        <5>2. OldAt(m, c)
          BY Zenon, <1>6
        <5> QED BY Zenon, <2>1, <3>1, <3>2, <5>1, <5>2 DEF OldAt
      <4>2. e.version = version'[m] - 1
        <5>1. version'[m] = version[m] + 1 /\ version[m] \in Nat
          BY Zenon, <1>4, <1>7
        <5>2. e.version < version[m] + 1
          BY Zenon, <2>1, <5>1
        <5> QED BY <3>1, <4>1, <5>1, <5>2
      <4>3. ~RequireFull(m) => e.asid = context[m].asid
        BY Zenon, <2>1, <3>1, <3>2, FlushNumber
      <4>4. ~flush'[m].full => e.asid = flush'[m].asid
        BY Zenon, <1>4, <1>5, <4>3
      <4> QED BY Zenon, <1>4, <1>5, <3>2, <4>2, <4>4
    <3>3. CASE c \notin active[m]
      BY Zenon, <1>2, <1>4, <1>5, <1>9, <3>3
    <3> QED BY Zenon, <3>2, <3>3
  <2> QED BY Zenon, <2>1 DEF OldAt
<1>12. ASSUME NEW n \in MMs \ {m}
       PROVE  FlushAt(n)' /\ \A c \in CPUs : OldAt(n, c)'
  <2>1. FlushAt(n) /\ \A c \in CPUs : OldAt(n, c)
    BY Zenon, <1>0 DEF FlushInv
  <2>2. /\ version'[n] = version[n] /\ generation'[n] = generation[n] /\ flush'[n] = flush[n]
        /\ UNCHANGED <<active, observed, freed, tlb>>
    BY Zenon, <1>2, <1>4
  <2>3. FlushAt(n)'
    BY Zenon, <1>0, <2>1, <2>2 DEF FlushAt
  <2>4. \A c \in CPUs : OldAt(n, c)'
    BY Zenon, <2>1, <2>2, OldSame
  <2> QED BY Zenon, <2>3, <2>4
<1> QED BY Zenon, <1>10, <1>11, <1>12 DEF FlushInv

LEMMA FlushOne ==
  ASSUME IInv, NEW m \in MMs, NEW d \in CPUs, FlushTarget(m, d)
  PROVE  FlushInv'
<1>0. FlushInv /\ NoFlush' = NoFlush /\ TypeOK
  BY Zenon DEF IInv, NoFlush
<1>1. PICK f : f = flush[m]
  OBVIOUS
<1>2. PICK g : g = IF observed[m][d] < f.generation THEN f.generation ELSE observed[m][d]
  OBVIOUS
<1>3. /\ d \in f.targets
      /\ flush' = [flush EXCEPT ![m] = [f EXCEPT !.targets = f.targets \ {d}]]
      /\ tlb' = [tlb EXCEPT ![d] = IF f.full THEN {} ELSE {e \in tlb[d] : e.asid # f.asid}]
      /\ observed' = [observed EXCEPT ![m] = [observed[m] EXCEPT ![d] = g]]
      /\ UNCHANGED <<active, generation, version, freed>>
  BY Zenon, <1>1, <1>2 DEF FlushTarget
<1>4. /\ version \in [MMs -> 0..MaxVersion] /\ generation \in [MMs -> Nat] /\ flush \in [MMs -> FlushRec]
      /\ freed \in [MMs -> 0..MaxVersion] /\ observed \in [MMs -> [CPUs -> Nat]]
      /\ tlb \in [CPUs -> SUBSET Entry]
  BY Zenon, <1>0, Typed
<1>5. PICK h : h = [f EXCEPT !.targets = f.targets \ {d}]
  BY Zenon
<1>6. /\ h.targets = f.targets \ {d} /\ h.full = f.full /\ h.asid = f.asid
      /\ h.generation = f.generation
  <2>1. f \in FlushRec
    BY Zenon, <1>1, <1>4
  <2> QED BY <1>5, <2>1 DEF FlushRec
<1>7. flush'[m] = h /\ \A n \in MMs \ {m} : flush'[n] = flush[n] /\ observed'[n] = observed[n]
  BY Zenon, <1>3, <1>4, <1>5
<1>8. observed'[m][d] = g /\ \A c \in CPUs \ {d} : observed'[m][c] = observed[m][c]
  <2>1. observed[m] \in [CPUs -> Nat] /\ observed'[m] = [observed[m] EXCEPT ![d] = g]
    BY Zenon, <1>3, <1>4
  <2> QED BY Zenon, <2>1
<1>9. /\ \A e \in tlb'[d] : e \in tlb[d] /\ ~f.full /\ e.asid # f.asid
      /\ \A c \in CPUs \ {d} : tlb'[c] = tlb[c]
  <2>1. tlb'[d] = IF f.full THEN {} ELSE {e \in tlb[d] : e.asid # f.asid}
    BY Zenon, <1>3, <1>4
  <2>2. \A c \in CPUs \ {d} : tlb'[c] = tlb[c]
    BY Zenon, <1>3, <1>4
  <2> QED BY Zenon, <2>1, <2>2
<1>10. FlushAt(m) /\ \A c \in CPUs : OldAt(m, c)
  BY Zenon, <1>0 DEF FlushInv
<1>11. flush[m] # NoFlush
  <2>1. flush[m].targets # {}
    BY Zenon, <1>1, <1>3
  <2> QED BY SMTT(30), <2>1 DEF NoFlush
<1>12. f.generation = generation[m] /\ freed[m] = version[m] - 1 /\ generation[m] = version[m] + 1
       /\ \A c \in CPUs : observed[m][c] <= generation[m]
  BY Zenon, <1>1, <1>10, <1>11 DEF FlushAt
<1>13. generation[m] \in Nat /\ freed[m] \in Nat /\ version[m] \in Nat /\ observed[m][d] \in Nat
  <2>1. freed[m] \in 0..MaxVersion /\ version[m] \in 0..MaxVersion
    BY Zenon, <1>4
  <2>2. generation[m] \in Nat /\ observed[m][d] \in Nat
    BY Zenon, <1>4
  <2>3. MaxVersion \in Nat
    BY AsidAssumption
  <2> QED BY <2>1, <2>2, <2>3
<1>14. FlushAt(m)'
  <2>1. h # NoFlush
    <3>1. h.generation # 0
      BY <1>6, <1>12, <1>13
    <3> QED BY <3>1 DEF NoFlush
  <2>2. g <= generation[m]
    BY <1>2, <1>12, <1>13
  <2>3. \A c \in CPUs : observed'[m][c] <= generation[m]
    BY Zenon, <1>8, <1>12, <2>2
  <2> QED BY Zenon, <1>0, <1>3, <1>6, <1>7, <1>12, <2>1, <2>3 DEF FlushAt
<1>15. OldAt(m, d)'
  <2>1. ASSUME NEW e \in tlb'[d], e.mm = m, e.version < version'[m]
        PROVE  FALSE
    <3>1. e \in tlb[d] /\ ~f.full /\ e.asid # f.asid /\ e.version < version[m]
      BY Zenon, <1>3, <1>9, <2>1
    <3> QED BY Zenon, <1>1, <1>3, <1>10, <2>1, <3>1 DEF OldAt
  <2> QED BY Zenon, <2>1 DEF OldAt
<1>16. ASSUME NEW c \in CPUs \ {d}
       PROVE  OldAt(m, c)'
  <2>1. tlb'[c] \subseteq tlb[c]
    BY Zenon, <1>9, <1>16
  <2>2. c \in flush'[m].targets <=> c \in flush[m].targets
    BY <1>1, <1>6, <1>7, <1>16
  <2>3. flush'[m].full = flush[m].full /\ flush'[m].asid = flush[m].asid
    BY Zenon, <1>1, <1>6, <1>7
  <2>4. c \in CPUs /\ OldAt(m, c) /\ observed'[m][c] = observed[m][c]
    BY Zenon, <1>8, <1>10, <1>16
  <2> QED BY Zenon, <1>3, <2>1, <2>2, <2>3, <2>4, OldSame
<1>17. ASSUME NEW n \in MMs \ {m}
       PROVE  FlushAt(n)' /\ \A c \in CPUs : OldAt(n, c)'
  <2>1. FlushAt(n) /\ \A c \in CPUs : OldAt(n, c)
    BY Zenon, <1>0 DEF FlushInv
  <2>2. flush'[n] = flush[n] /\ observed'[n] = observed[n]
    BY Zenon, <1>7
  <2>3. FlushAt(n)'
    BY Zenon, <1>0, <1>3, <2>1, <2>2 DEF FlushAt
  <2>4. \A c \in CPUs : tlb'[c] \subseteq tlb[c]
    BY <1>9
  <2>5. \A c \in CPUs : OldAt(n, c)'
    BY Zenon, <1>3, <2>1, <2>2, <2>4, OldSame
  <2> QED BY Zenon, <2>3, <2>5
<1> QED BY Zenon, <1>14, <1>15, <1>16, <1>17 DEF FlushInv

LEMMA FlushEnd ==
  ASSUME IInv, NEW m \in MMs, FinishFlush(m)
  PROVE  FlushInv'
<1>0. FlushInv /\ NoFlush' = NoFlush /\ TypeOK
  BY Zenon DEF IInv, NoFlush
<1>1. /\ flush[m].targets = {}
      /\ flush' = [flush EXCEPT ![m] = NoFlush] /\ freed' = [freed EXCEPT ![m] = version[m]]
      /\ UNCHANGED <<active, generation, observed, version, tlb>>
  BY Zenon DEF FinishFlush, cpuVars
<1>2. flush \in [MMs -> FlushRec] /\ freed \in [MMs -> 0..MaxVersion]
  BY Zenon, <1>0, Typed
<1>3. /\ flush'[m] = NoFlush /\ freed'[m] = version[m]
      /\ \A n \in MMs \ {m} : flush'[n] = flush[n] /\ freed'[n] = freed[n]
  BY Zenon, <1>1, <1>2
<1>4. ASSUME NEW n \in MMs
      PROVE  FlushAt(n)' /\ \A c \in CPUs : OldAt(n, c)'
  <2>1. FlushAt(n) /\ \A c \in CPUs : OldAt(n, c)
    BY Zenon, <1>0 DEF FlushInv
  <2>2. CASE n = m
    <3>1. FlushAt(n)'
      BY Zenon, <1>0, <1>1, <1>3, <2>1, <2>2 DEF FlushAt
    <3>2. \A c \in CPUs : c \notin flush[n].targets /\ c \notin flush'[n].targets
      BY <1>1, <1>3, <2>2 DEF NoFlush
    <3>3. \A c \in CPUs : OldAt(n, c)'
      BY Zenon, <1>1, <2>1, <3>2, OldSame
    <3> QED BY Zenon, <3>1, <3>3
  <2>3. CASE n # m
    <3>1. flush'[n] = flush[n] /\ freed'[n] = freed[n]
      BY Zenon, <1>3, <2>3
    <3>2. FlushAt(n)'
      BY Zenon, <1>0, <1>1, <2>1, <3>1 DEF FlushAt
    <3>3. \A c \in CPUs : OldAt(n, c)'
      BY Zenon, <1>1, <2>1, <3>1, OldSame
    <3> QED BY Zenon, <3>2, <3>3
  <2> QED BY Zenon, <2>2, <2>3
<1> QED BY Zenon, <1>4 DEF FlushInv

LEMMA FlushNext ==
  ASSUME IInv, [Next]_vars
  PROVE  FlushInv'
<1>0. TypeOK
  BY Zenon DEF IInv
<1>1. CASE UNCHANGED vars
  <2>1. UNCHANGED <<version, flush, observed, generation, freed, active, tlb>>
    BY Zenon, <1>1 DEF vars, mmVars, cpuVars
  <2> QED BY Zenon, <2>1, FlushSame
<1>2. ASSUME NEW m \in MMs, MmStep(m)
      PROVE  FlushInv'
  BY Zenon, <1>2, FlushWrite, FlushEnd, FlushOne DEF MmStep
<1>3. ASSUME NEW c \in CPUs, Quiet(c)
      PROVE  FlushInv'
  <2>1. /\ UNCHANGED <<hw, epoch, next, published, context, generation, observed, version, freed,
                        flush, seen, root>>
        /\ \A d \in CPUs : tlb'[d] \subseteq tlb[d]
        /\ \A m \in MMs : active'[m] \subseteq active[m]
    BY Zenon, <1>0, <1>3, QuietFacts
  <2> QED BY Zenon, <2>1, FlushSame
<1>4. ASSUME NEW c \in CPUs, LeadNumber(c) \/ LeadPublish(c)
      PROVE  FlushInv'
  <2>1. UNCHANGED <<version, flush, observed, generation, freed, active, tlb>>
    BY Zenon, <1>4 DEF LeadNumber, LeadPublish, mmVars
  <2> QED BY Zenon, <2>1, FlushSame
<1>5. ASSUME NEW c \in CPUs, Install(c) \/ InstallKernel(c)
      PROVE  FlushInv'
  <2>1. UNCHANGED <<version, flush, observed, generation, freed>>
    BY Zenon, <1>5 DEF Install, InstallKernel
  <2>2. \E m \in MMs \cup {NoMm}, ctx \in Context : Write(c, m, ctx)
    <3>1. CASE Install(c)
      <4>1. PICK m \in MMs, ctx \in Context : Write(c, m, ctx)
        BY Zenon, <3>1, InstallFacts
      <4> QED BY Zenon, <4>1
    <3>2. CASE InstallKernel(c)
      <4>1. PICK ctx \in Context : Write(c, NoMm, ctx)
        BY Zenon, <3>2, KernelFacts
      <4> QED BY Zenon, <4>1
    <3> QED BY Zenon, <1>5, <3>1, <3>2
  <2>3. PICK m \in MMs \cup {NoMm}, ctx \in Context : Write(c, m, ctx)
    BY Zenon, <2>2
  <2>4. /\ \A d \in CPUs \ {c} : root'[d] = root[d] /\ seen'[d] = seen[d] /\ tlb'[d] = tlb[d]
        /\ tlb'[c] = {} \/ tlb'[c] = tlb[c]
    BY ZenonT(30), <1>0, <2>3, WriteFacts
  <2>5. \A d \in CPUs : tlb'[d] \subseteq tlb[d]
    BY <2>4
  <2>6. \A n \in MMs : active'[n] \subseteq active[n]
    <3>1. active' = active \/ active' = [active EXCEPT ![current[c]] = @ \ {c}]
      BY Zenon, <1>5 DEF Install, InstallKernel
    <3>2. active \in [MMs -> SUBSET CPUs]
      BY Zenon, <1>0, Typed
    <3> QED BY <3>1, <3>2
  <2> QED BY Zenon, <2>1, <2>5, <2>6, FlushSame
<1>6. ASSUME NEW c \in CPUs, CpuStep(c)
      PROVE  FlushInv'
  BY Zenon, <1>3, <1>4, <1>5, <1>6, FlushFill, FlushAssign, StepCases
<1> QED BY Zenon, <1>1, <1>2, <1>6 DEF Next

-----------------------------------------------------------------------------
LEMMA InitInv ==
  ASSUME Init
  PROVE  IInv
<1>1. /\ hw \in Machines /\ hw.max \in Nat
      /\ MaxEpoch \in Nat \ {0} /\ MaxVersion \in Nat /\ MaxSwitches \in Nat
  BY AsidAssumption DEF Init
<1>2. /\ 1 \in 1..MaxEpoch /\ 0 \in 0..MaxEpoch /\ 1 \in 1..(MaxAsid + 1) /\ 0 \in 0..MaxAsid
      /\ 0 \in 0..MaxVersion /\ 0 \in 0..MaxSwitches /\ MaxAsid \in Nat
  BY <1>1 DEF MaxAsid
<1>3. None \in Context /\ NoFlush \in FlushRec
      /\ [mm |-> NoMm, asid |-> 0] \in RootRec /\ [mm |-> NoMm, context |-> None] \in WantRec
  <2>1. None \in Context
    BY <1>2 DEF None, Context
  <2>2. NoFlush \in FlushRec
    BY <1>2 DEF NoFlush, FlushRec
  <2>3. [mm |-> NoMm, asid |-> 0] \in RootRec
    BY <1>2 DEF RootRec
  <2>4. [mm |-> NoMm, context |-> None] \in WantRec
    BY <2>1 DEF WantRec
  <2> QED BY Zenon, <2>1, <2>2, <2>3, <2>4
<1>4. "kernel" \in PcSet
  BY DEF PcSet
<1>5. TypeOK
  <2>1. /\ hw \in Machines /\ epoch \in 1..MaxEpoch /\ next \in 1..(MaxAsid + 1) /\ rollover \in BOOLEAN
        /\ published \in 1..MaxEpoch /\ ack \subseteq CPUs /\ stale \in BOOLEAN
        /\ switches \in 0..MaxSwitches
    BY Zenon, <1>2 DEF Init
  <2>2. /\ seen \in [CPUs -> 0..MaxEpoch] /\ context \in [MMs -> Context]
        /\ generation \in [MMs -> Nat] /\ version \in [MMs -> 0..MaxVersion]
        /\ freed \in [MMs -> 0..MaxVersion] /\ flush \in [MMs -> FlushRec]
    BY <1>2, <1>3 DEF Init
  <2>3. active \in [MMs -> SUBSET CPUs] /\ tlb \in [CPUs -> SUBSET Entry]
    BY DEF Init
  <2>4. observed \in [MMs -> [CPUs -> Nat]]
    BY DEF Init
  <2>5. root \in [CPUs -> RootRec] /\ pc \in [CPUs -> PcSet] /\ want \in [CPUs -> WantRec]
    BY Zenon, <1>3, <1>4 DEF Init
  <2>6. current \in [CPUs -> MMs \cup {NoMm}]
    BY DEF Init
  <2> QED BY Zenon, <2>1, <2>2, <2>3, <2>4, <2>5, <2>6 DEF TypeOK, PcSet, RootRec, WantRec
<1>6. \A c \in CPUs :
        /\ pc[c] = "kernel" /\ seen[c] = 0 /\ tlb[c] = {} /\ current[c] = NoMm
        /\ root[c] = [mm |-> NoMm, asid |-> 0]
  BY Zenon DEF Init
<1>7. \A c \in CPUs : ~Leads(c) /\ ~Past(c) /\ ~Holds(c)
  BY <1>6 DEF Leads, Past, Holds
<1>8. LeadInv
  <2>1. ack = {}
    BY Zenon DEF Init
  <2>2. \A c \in CPUs : pc[c] \notin {"sync", "number"}
    BY <1>6
  <2> QED BY Zenon, <1>7, <2>1, <2>2 DEF LeadInv
<1>9. HoldInv
  BY Zenon, <1>7 DEF HoldInv
<1>10. EpochInv
  <2>1. published = 1 /\ epoch = 1 /\ \A m \in MMs : context[m] = None
    BY Zenon DEF Init
  <2>2. None.epoch = 0
    BY DEF None
  <2>3. \A m \in MMs : context[m].epoch = 0
    BY Zenon, <2>1, <2>2
  <2>4. published <= epoch /\ \A c \in CPUs : seen[c] <= published
    BY <1>6, <2>1
  <2>5. \A m \in MMs : context[m].epoch <= epoch /\ context[m].epoch # epoch
    BY <2>1, <2>3
  <2> QED BY Zenon, <2>1, <2>4, <2>5 DEF EpochInv
<1>11. PlaceInv
  <2>1. ASSUME NEW c \in CPUs
        PROVE  PlaceAt(c)
    <3>1. pc[c] \in {"kernel", "user", "leave"} /\ pc[c] # "install" /\ pc[c] # "leave" /\ pc[c] # "user"
      BY <1>6
    <3>2. current[c] = NoMm /\ root[c].mm = NoMm
      BY <1>6
    <3> QED BY Zenon, <3>1, <3>2 DEF PlaceAt
  <2> QED BY Zenon, <2>1 DEF PlaceInv
<1>12. TagInv
  <2>1. ASSUME NEW c \in CPUs
        PROVE  TagAt(c)
    <3>1. root[c].mm = NoMm /\ root[c].asid = 0
      BY <1>6
    <3> QED BY Zenon, <1>6, <3>1 DEF TagAt
  <2> QED BY Zenon, <2>1 DEF TagInv
<1>13. FlushInv
  <2>1. ASSUME NEW m \in MMs
        PROVE  FlushAt(m) /\ \A c \in CPUs : OldAt(m, c)
    <3>1. /\ generation[m] = 1 /\ version[m] = 0 /\ freed[m] = 0 /\ flush[m] = NoFlush
          /\ \A c \in CPUs : observed[m][c] = 0
      BY Zenon DEF Init
    <3>2. /\ generation[m] = version[m] + 1
          /\ \A c \in CPUs : observed[m][c] <= generation[m]
      BY <3>1
    <3>3. FlushAt(m)
      BY Zenon, <3>1, <3>2 DEF FlushAt
    <3>4. \A c \in CPUs : OldAt(m, c)
      BY Zenon, <1>6 DEF OldAt
    <3> QED BY Zenon, <3>3, <3>4
  <2> QED BY Zenon, <2>1 DEF FlushInv
<1> QED BY Zenon, <1>5, <1>8, <1>9, <1>10, <1>11, <1>12, <1>13 DEF IInv

LEMMA NextInv ==
  ASSUME IInv, [Next]_vars
  PROVE  IInv'
<1>1. TypeOK' /\ LeadInv' /\ HoldInv' /\ EpochInv'
  BY Zenon, TypeNext, LeadNext, HoldNext, EpochNext
<1>2. PlaceInv' /\ TagInv' /\ FlushInv'
  BY Zenon, PlaceNext, TagNext, FlushNext
<1> QED BY Zenon, <1>1, <1>2 DEF IInv

(* The inductive invariant holds, on both architectures, for any number of  *)
(* CPUs, address spaces, hardware numbers, rollovers and page table writes. *)
THEOREM AsidInvariance == Spec => []IInv
<1>1. Init => IInv
  BY InitInv
<1>2. IInv /\ [Next]_vars => IInv'
  BY NextInv
<1> QED BY <1>1, <1>2, PTL DEF Spec

(* Every variable of the allocator, of the address spaces and of the CPUs   *)
(* keeps its type.                                                          *)
THEOREM AsidTypeCorrect == Spec => []TypeOK
<1>1. IInv => TypeOK
  BY Zenon DEF IInv
<1> QED BY <1>1, AsidInvariance, PTL

(* The two address spaces are one when an access hits. *)
LEMMA HitsOwn ==
  ASSUME IInv, NEW c \in CPUs, NEW e \in Hits(c)
  PROVE  e \in tlb[c] /\ e.asid = root[c].asid /\ e.mm = root[c].mm /\ e.mm \in MMs
         /\ (Riscv \/ pc[c] = "user")
<1>0. TypeOK /\ TagAt(c) /\ PlaceAt(c) /\ EpochInv
  BY Zenon DEF IInv, TagInv, PlaceInv
<1>1. (Riscv \/ pc[c] = "user") /\ e \in tlb[c] /\ e.asid = root[c].asid
  BY DEF Hits
<1>2. e.mm \in MMs
  <2>1. tlb[c] \subseteq Entry
    BY Zenon, <1>0, Typed
  <2> QED BY <1>1, <2>1 DEF Entry
<1>3. CASE Riscv
  BY Zenon, <1>0, <1>1, <1>2, <1>3 DEF TagAt
<1>4. CASE ~Riscv
  <2>1. /\ context[e.mm] = [epoch |-> epoch, asid |-> e.asid]
        /\ context[root[c].mm] = [epoch |-> epoch, asid |-> root[c].asid]
        /\ root[c].mm \in MMs
    BY Zenon, <1>0, <1>1, <1>4 DEF TagAt, PlaceAt
  <2>2. /\ context[e.mm].epoch = epoch /\ context[e.mm].asid = e.asid
        /\ context[root[c].mm].epoch = epoch /\ context[root[c].mm].asid = root[c].asid
    BY <2>1
  <2>3. Hardware
    BY Zenon, <1>0, <1>4, Typed
  <2>4. e.mm = root[c].mm
    BY Zenon, <1>0, <1>1, <1>2, <2>1, <2>2, <2>3 DEF EpochInv
  <2> QED BY Zenon, <1>1, <1>2, <2>4
<1> QED BY Zenon, <1>3, <1>4

(* An access hits translations of the installed address space only, although *)
(* numbers are used again after a rollover: the flush of every CPU before    *)
(* the numbers restart, the epoch check of install_page_table and the        *)
(* flushes of activate_cpu suffice, whatever the interleaving.               *)
THEOREM AddressSpacesIsolated == Spec => []Isolated
<1>1. ASSUME IInv PROVE Isolated
  <2>1. \A c \in CPUs : \A e \in Hits(c) : e.mm = root[c].mm
    BY Zenon, <1>1, HitsOwn
  <2>2. \A m, n \in MMs :
          m # n /\ Hardware /\ context[m].epoch = epoch /\ context[n].epoch = epoch
            => context[m].asid # context[n].asid
    BY Zenon, <1>1 DEF IInv, EpochInv
  <2> QED BY Zenon, <2>1, <2>2 DEF Isolated
<1> QED BY <1>1, AsidInvariance, PTL

(* No access hits a translation to a released frame: the CPUs registered    *)
(* when the entry changed have flushed it before the frame is released, and *)
(* the others flush before they use the address space.                      *)
THEOREM FreedFramesUnreachable == Spec => []NoFreedFrame
<1>1. ASSUME IInv PROVE NoFreedFrame
  <2>1. SUFFICES ASSUME NEW c \in CPUs, NEW e \in Hits(c)
                 PROVE  e.version >= freed[e.mm]
    BY Zenon DEF NoFreedFrame
  <2>2. TypeOK /\ PlaceAt(c) /\ FlushInv
    BY Zenon, <1>1 DEF IInv, PlaceInv
  <2>3. e \in tlb[c] /\ e.asid = root[c].asid /\ e.mm = root[c].mm /\ e.mm \in MMs
        /\ (Riscv \/ pc[c] = "user")
    BY Zenon, <1>1, <2>1, HitsOwn
  <2>4. PICK m \in MMs : m = e.mm
    BY Zenon, <2>3
  <2>5. c \in active[m]
    <3>1. current[c] = m
      BY Zenon, <2>2, <2>3, <2>4 DEF PlaceAt
    <3>2. m # NoMm
      BY <2>4, AsidAssumption
    <3> QED BY Zenon, <2>2, <3>1, <3>2 DEF PlaceAt
  <2>6. FlushAt(m) /\ OldAt(m, c)
    BY Zenon, <2>2, <2>4 DEF FlushInv
  <2>7. e.version \in Int /\ version[m] \in Int /\ freed[m] \in Int
    <3>1. tlb[c] \subseteq Entry /\ version[m] \in 0..MaxVersion /\ freed[m] \in 0..MaxVersion
      BY Zenon, <2>2, Typed
    <3> QED BY <2>3, <3>1 DEF Entry
  <2>8. freed[m] = version[m] \/ freed[m] = version[m] - 1
    BY Zenon, <2>6 DEF FlushAt
  <2>9. CASE e.version < version[m]
    <3>1. c \in flush[m].targets /\ e.version = version[m] - 1
      BY Zenon, <2>3, <2>4, <2>5, <2>6, <2>9 DEF OldAt
    <3>2. flush[m] # NoFlush
      BY <3>1 DEF NoFlush
    <3>3. freed[m] = version[m] - 1
      BY Zenon, <2>6, <3>2 DEF FlushAt
    <3> QED BY <2>4, <2>7, <3>1, <3>3
  <2>10. CASE ~(e.version < version[m])
    BY <2>4, <2>7, <2>8, <2>10
  <2> QED BY Zenon, <2>9, <2>10
<1> QED BY <1>1, AsidInvariance, PTL

(* The leader of a rollover is never waited for by a CPU it waits for: a    *)
(* CPU that has yet to flush is not a leader itself.                        *)
THEOREM LeaderAlwaysHeard == Spec => []LeaderHeard
<1>1. ASSUME IInv PROVE LeaderHeard
  <2>1. TypeOK /\ LeadInv
    BY Zenon, <1>1 DEF IInv
  <2>2. SUFFICES ASSUME NEW d \in ack
                 PROVE  IrqOpen(d) \/ pc[d] \in {"assign", "install", "roll", "cas", "leave"}
    BY Zenon DEF LeaderHeard
  <2>3. d \in CPUs /\ pc[d] \in PcSet
    BY Zenon, <2>1, Typed
  <2>4. PICK c \in CPUs \ ack : pc[c] = "sync"
    BY Zenon, <2>1 DEF LeadInv
  <2>5. Leads(c) /\ c # d
    BY <2>4 DEF Leads, Past
  <2>6. ~Leads(d)
    BY Zenon, <2>1, <2>3, <2>4, <2>5 DEF LeadInv
  <2> QED BY <2>3, <2>6 DEF PcSet, Leads, Past, IrqOpen
<1> QED BY <1>1, AsidInvariance, PTL

(* The assertion of local_asid_epoch_needs_flush fails in one place at      *)
(* most: where leave_user_vm installs the kernel root with an epoch it read *)
(* before. A return to user mode never installs a context of another epoch  *)
(* than the published one.                                                  *)
ReturnsFresh == stale' /\ ~stale => \E c \in CPUs : Riscv /\ Hardware /\ InstallKernel(c)

LEMMA StaleStep ==
  ASSUME IInv, [Next]_vars
  PROVE  ReturnsFresh
<1>1. CASE UNCHANGED vars
  BY Zenon, <1>1 DEF vars, ReturnsFresh
<1>2. ASSUME NEW m \in MMs, MmStep(m)
      PROVE  ReturnsFresh
  <2>1. stale' = stale
    BY Zenon, <1>2 DEF MmStep, WritePte, FinishFlush, FlushTarget
  <2> QED BY Zenon, <2>1 DEF ReturnsFresh
<1>3. ASSUME NEW c \in CPUs, Install(c)
      PROVE  ReturnsFresh
  <2>1. PICK m \in MMs, ctx \in Context :
          /\ m = want[c].mm /\ ctx = want[c].context /\ ctx = context[m]
          /\ pc[c] = "install" /\ c \in active[m]
          /\ Hardware => ctx.epoch = epoch
          /\ Write(c, m, ctx)
    BY Zenon, <1>3, InstallFacts
  <2>2. Hardware => published = epoch
    BY Zenon, <2>1, HeldEpoch
  <2>3. stale' = (stale \/ (Riscv /\ Hardware /\ ctx.epoch # published))
    BY Zenon, <2>1 DEF Write
  <2> QED BY Zenon, <2>1, <2>2, <2>3 DEF ReturnsFresh
<1>4. ASSUME NEW c \in CPUs, InstallKernel(c)
      PROVE  ReturnsFresh
  <2>1. stale' = (stale \/ (Riscv /\ Hardware /\ want[c].context.epoch # published))
    BY Zenon, <1>4 DEF InstallKernel, Write
  <2> QED BY Zenon, <1>4, <2>1 DEF ReturnsFresh
<1>5. ASSUME NEW c \in CPUs, CpuStep(c), ~Install(c), ~InstallKernel(c)
      PROVE  ReturnsFresh
  <2>1. stale' = stale
    BY Zenon, <1>5
    DEF CpuStep, Fill, Trap, Assign, AssignFails, LeaveUserVm,
        LeaveKeepingRoot, Roll, AckRollover, SwitchUserVm, RollNotNeeded, RollNeeded, RollWait,
        RollLead, RollWaited, LeadTooLate, LeadFlush, LeadAcked, LeadNumber, LeadPublish, LeadClear
  <2> QED BY Zenon, <2>1 DEF ReturnsFresh
<1> QED BY Zenon, <1>1, <1>2, <1>3, <1>4, <1>5 DEF Next

(* On every machine, no step of switch_user_vm trips the assertion. *)
THEOREM ReturnsAlwaysFresh == Spec => [][ReturnsFresh]_vars
<1>1. IInv /\ [Next]_vars => [ReturnsFresh]_vars
  BY StaleStep
<1> QED BY <1>1, AsidInvariance, PTL DEF Spec

=============================================================================
