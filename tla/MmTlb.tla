------------------------------- MODULE MmTlb -------------------------------
(***************************************************************************)
(* TLB consistency of one shared address space: CPU activation, page-table *)
(* writes collected by MmuGather, and the TlbFlush that keeps the retired  *)
(* frames until every target has invalidated.  Source: os/src/mm/tlb.rs,   *)
(* mm/mmu_gather.rs, mm/address_space.rs, task/processor.rs.               *)
(*                                                                         *)
(* AddressSpace::write, activate_on and deactivate_on all run under the VM *)
(* lock and are one step each; the flush runs after the unlock, one target *)
(* at a time.  How a target is reached is Shootdown.                       *)
(***************************************************************************)
EXTENDS Naturals, FiniteSets

CONSTANTS
  CPUs,     \* logical CPUs
  Pages,    \* user virtual pages
  Frames,   \* physical frames
  NoFrame,  \* an empty page-table entry
  MaxGen    \* bound on the generation (the code panics on overflow)

ASSUME MmTlbAssumption == NoFrame \notin Frames /\ MaxGen \in Nat \ {0}

VARIABLES
  pte,         \* the page table
  tlb,         \* translations each CPU has cached for this address space
  active,      \* TlbContext.active_cpus
  generation,  \* TlbContext.generation
  observed,    \* TlbContext.observed
  flush,       \* the TlbFlush each CPU is executing
  stopped      \* CPUs that have acknowledged STOP

vars == <<pte, tlb, active, generation, observed, flush, stopped>>

NoFlush == [on |-> FALSE, gen |-> 0, targets |-> {}, acked |-> {}, pages |-> {}, retired |-> {}]
Flush == [on : BOOLEAN, gen : Nat, targets : SUBSET CPUs, acked : SUBSET CPUs,
          pages : SUBSET Pages, retired : SUBSET Frames]

(* A new generation starts above every observed one, so that the first     *)
(* activation flushes.                                                     *)
Init ==
  /\ pte \in [Pages -> {NoFrame}]
  /\ tlb = [c \in CPUs |-> {}]
  /\ active = {} /\ generation = 1 /\ observed = [c \in CPUs |-> 0]
  /\ flush = [c \in CPUs |-> NoFlush]
  /\ stopped = {}

Later(x, y) == IF x < y THEN y ELSE x

-----------------------------------------------------------------------------
(* Hardware: a CPU caches a translation while it may use the page table.   *)
Fill(c, p) ==
  /\ c \in active /\ pte[p] # NoFrame
  /\ tlb' = [tlb EXCEPT ![c] = @ \cup {<<p, pte[p]>>}]
  /\ UNCHANGED <<pte, active, generation, observed, flush, stopped>>

(* activate_on, also of a CPU that is active already: join the mask, then  *)
(* catch up with the generation by dropping every user translation.        *)
ActivateTrusting(c) ==
  /\ c \notin stopped
  /\ active' = active \cup {c}
  /\ observed' = [observed EXCEPT ![c] = generation]
  /\ UNCHANGED <<pte, tlb, generation, flush, stopped>>
Activate(c) ==
  /\ c \notin stopped
  /\ active' = active \cup {c}
  /\ tlb' = IF observed[c] < generation THEN [tlb EXCEPT ![c] = {}] ELSE tlb
  /\ observed' = [observed EXCEPT ![c] = Later(@, generation)]
  /\ UNCHANGED <<pte, generation, flush, stopped>>

(* deactivate_on: the cached translations stay behind. *)
Deactivate(c) ==
  /\ c \in active
  /\ active' = active \ {c}
  /\ UNCHANGED <<pte, tlb, generation, observed, flush, stopped>>

(* STOP is served on the idle stack, after the CPU has left its address    *)
(* space; it never comes back.                                             *)
Stop(c) ==
  /\ c \notin active \cup stopped /\ ~flush[c].on
  /\ stopped' = stopped \cup {c}
  /\ UNCHANGED <<pte, tlb, active, generation, observed, flush>>

-----------------------------------------------------------------------------
Changed(new) == { p \in Pages : new[p] # pte[p] }
(* The frames the write removes from the page table. *)
Retired(new) == { pte[p] : p \in Changed(new) } \ {NoFrame}

(* seal: freeze the targets and take a new generation, even if no CPU is   *)
(* active.                                                                 *)
Seal(c, pages, retired) ==
  /\ generation < MaxGen
  /\ generation' = generation + 1
  /\ flush' = [flush EXCEPT ![c] = [on |-> TRUE, gen |-> generation + 1, targets |-> active,
                                    acked |-> {}, pages |-> pages, retired |-> retired]]

(* AddressSpace::write: any change of the page table.  The recorded range  *)
(* covers the changed pages, and may cover more: pages whose permissions   *)
(* changed, the gap between two pages, or everything.                      *)
Write(c, new, pages) ==
  /\ c \notin stopped /\ ~flush[c].on
  /\ Changed(new) \subseteq pages /\ pages # {}
  /\ pte' = new
  /\ Seal(c, pages, Retired(new))
  /\ UNCHANGED <<tlb, active, observed, stopped>>

(* retire_frame without memory for its list: with no other CPU active, the *)
(* range is invalidated here and the frames are freed under the lock.      *)
WriteOom(c, new, pages) ==
  /\ c \notin stopped /\ ~flush[c].on
  /\ active \subseteq {c}
  /\ Changed(new) \subseteq pages /\ Retired(new) # {}
  /\ pte' = new
  /\ tlb' = IF c \in active THEN [tlb EXCEPT ![c] = { e \in @ : e[1] \notin pages }] ELSE tlb
  /\ Seal(c, pages, {})
  /\ UNCHANGED <<active, observed, stopped>>

-----------------------------------------------------------------------------
(* TlbFlush::execute, one target at a time.                                *)

(* The precise IPI: invalidate the range, publish the generation, ack.     *)
ServiceRange(i, d) ==
  /\ flush[i].on /\ d \in flush[i].targets \ (flush[i].acked \cup stopped)
  /\ tlb' = [tlb EXCEPT ![d] = { e \in @ : e[1] \notin flush[i].pages }]
  /\ observed' = [observed EXCEPT ![d] = Later(@, flush[i].gen)]
  /\ flush' = [flush EXCEPT ![i].acked = @ \cup {d}]
  /\ UNCHANGED <<pte, active, generation, stopped>>
(* The firmware fence, or the sender's own TLB: the same without the       *)
(* generation.                                                             *)
FenceRange(i, d) ==
  /\ flush[i].on /\ d \in flush[i].targets \ (flush[i].acked \cup stopped)
  /\ tlb' = [tlb EXCEPT ![d] = { e \in @ : e[1] \notin flush[i].pages }]
  /\ flush' = [flush EXCEPT ![i].acked = @ \cup {d}]
  /\ UNCHANGED <<pte, active, generation, observed, stopped>>
(* The full request: every user translation goes. *)
ServiceFull(i, d) ==
  /\ flush[i].on /\ d \in flush[i].targets \ (flush[i].acked \cup stopped)
  /\ tlb' = [tlb EXCEPT ![d] = {}]
  /\ flush' = [flush EXCEPT ![i].acked = @ \cup {d}]
  /\ UNCHANGED <<pte, active, generation, observed, stopped>>

(* Every target has acknowledged or stopped: publish the generation for    *)
(* all of them and release the retired frames.                             *)
Marked(i) == [d \in CPUs |->
                IF d \in flush[i].targets THEN Later(observed[d], flush[i].gen) ELSE observed[d]]
FinishEarly(i) ==
  /\ flush[i].on
  /\ observed' = Marked(i)
  /\ flush' = [flush EXCEPT ![i] = NoFlush]
  /\ UNCHANGED <<pte, tlb, active, generation, stopped>>
Finish(i) ==
  /\ flush[i].on /\ flush[i].targets \subseteq flush[i].acked \cup stopped
  /\ observed' = Marked(i)
  /\ flush' = [flush EXCEPT ![i] = NoFlush]
  /\ UNCHANGED <<pte, tlb, active, generation, stopped>>

-----------------------------------------------------------------------------
CpuStep(c) ==
  \/ Activate(c) \/ Deactivate(c) \/ Stop(c) \/ Finish(c)
  \/ \E p \in Pages : Fill(c, p)
  \/ \E d \in CPUs : ServiceRange(c, d) \/ FenceRange(c, d) \/ ServiceFull(c, d)
  \/ \E new \in [Pages -> Frames \cup {NoFrame}], pages \in SUBSET Pages :
       Write(c, new, pages) \/ WriteOom(c, new, pages)

Next == \E c \in CPUs : CpuStep(c)
Spec == Init /\ [][Next]_vars

-----------------------------------------------------------------------------
(* Every variable keeps its type; no CPU has observed a generation that    *)
(* was never taken, and no flush carries one.                              *)
TypeOK ==
  /\ pte \in [Pages -> Frames \cup {NoFrame}]
  /\ tlb \in [CPUs -> SUBSET (Pages \X Frames)]
  /\ active \in SUBSET CPUs /\ stopped \in SUBSET CPUs
  /\ generation \in Nat /\ observed \in [CPUs -> Nat]
  /\ flush \in [CPUs -> Flush]
  /\ \A c \in CPUs : observed[c] <= generation /\ flush[c].gen <= generation

(* A flush that has removed frame f from page p is still waiting for c. *)
Pending(c, p, f) ==
  \E i \in CPUs : /\ flush[i].on /\ c \in flush[i].targets \ flush[i].acked
                  /\ p \in flush[i].pages /\ f \in flush[i].retired

(* Revocation: a translation an active CPU still holds is the one in the   *)
(* page table, or the write that revoked it has not returned to its caller *)
(* (AddressSpace::write returns after TlbFlush::execute).                  *)
StaleIsPending ==
  \A c \in active : \A e \in tlb[c] : pte[e[1]] = e[2] \/ Pending(c, e[1], e[2])

(* The page table or an unfinished flush owns the frame. *)
InUse(f) ==
  \/ \E p \in Pages : pte[p] = f
  \/ \E i \in CPUs : flush[i].on /\ f \in flush[i].retired

(* No active CPU can reach a frame that has been released.                 *)
FrameSafe == \A c \in active : \A e \in tlb[c] : InUse(e[2])

(* c will drop everything it has cached before it uses the page table. *)
Cold(c) ==
  /\ c \notin active /\ observed[c] < generation
  /\ \A i \in CPUs : flush[i].on /\ c \in flush[i].targets => flush[i].gen < generation

(* What is cached on any CPU is current, or about to be invalidated, or    *)
(* will be dropped at the next activation, or is on a stopped CPU.         *)
Covered ==
  \A c \in CPUs : \A e \in tlb[c] :
    \/ pte[e[1]] = e[2] \/ Pending(c, e[1], e[2]) \/ Cold(c) \/ c \in stopped

StoppedIdle == stopped \cap active = {}

IInv == TypeOK /\ Covered /\ StoppedIdle
=============================================================================
