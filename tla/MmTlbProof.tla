----------------------------- MODULE MmTlbProof -----------------------------
(***************************************************************************)
(* TLB consistency for any number of CPUs, pages and frames.               *)
(***************************************************************************)
EXTENDS MmTlb, TLAPS

(* Later is the maximum of two generations. *)
LEMMA LaterFacts ==
  ASSUME NEW x \in Nat, NEW y \in Nat
  PROVE  /\ Later(x, y) \in Nat /\ x <= Later(x, y) /\ y <= Later(x, y)
         /\ \A z \in Nat : Later(x, y) < z <=> x < z /\ y < z
         /\ \A z \in Nat : Later(x, y) <= z <=> x <= z /\ y <= z
BY DEF Later

(* A new address space satisfies the invariant. *)
LEMMA InitInv == Init => IInv
<1> SUFFICES ASSUME Init PROVE IInv
  OBVIOUS
<1>1. NoFlush \in Flush
  BY DEF NoFlush, Flush
<1>2. TypeOK
  <2>1. \A c \in CPUs : flush[c] = NoFlush /\ flush[c].gen = 0 /\ observed[c] = 0
    BY DEF Init, NoFlush
  <2>2. pte \in [Pages -> Frames \cup {NoFrame}]
    BY DEF Init
  <2> QED BY <1>1, <2>1, <2>2 DEF Init, TypeOK
<1>3. Covered
  BY DEF Init, Covered
<1> QED BY <1>2, <1>3 DEF Init, IInv, StoppedIdle

(* A cached translation is a page and a frame. *)
LEMMA EntryFacts ==
  ASSUME TypeOK, NEW c \in CPUs, NEW e \in tlb[c]
  PROVE  e[1] \in Pages /\ e[2] \in Frames /\ e = <<e[1], e[2]>>
BY DEF TypeOK

(* A hardware fill caches what the page table says. *)
LEMMA FillInv ==
  ASSUME IInv, NEW c \in CPUs, NEW p \in Pages, Fill(c, p)
  PROVE  IInv'
<1>1. pte[p] \in Frames
  BY DEF Fill, IInv, TypeOK
<1>2. TypeOK'
  BY <1>1 DEF Fill, IInv, TypeOK
<1>3. ASSUME NEW d \in CPUs, NEW e \in tlb'[d]
      PROVE  pte[e[1]] = e[2] \/ Pending(d, e[1], e[2]) \/ Cold(d) \/ d \in stopped
  <2>1. CASE e \in tlb[d]
    BY <2>1 DEF IInv, Covered
  <2>2. CASE e \notin tlb[d]
    <3>1. e = <<p, pte[p]>>
      BY <1>3, <2>2 DEF Fill, IInv, TypeOK
    <3> QED BY <3>1
  <2> QED BY <2>1, <2>2
<1>4. Covered'
  BY <1>3 DEF Fill, Covered, Pending, Cold
<1> QED BY <1>2, <1>4 DEF IInv, StoppedIdle, Fill

(* Activation leaves the CPU with nothing stale, or with what it held.     *)
LEMMA ActivateInv ==
  ASSUME IInv, NEW c \in CPUs, Activate(c)
  PROVE  IInv'
<1>1. /\ observed[c] \in Nat /\ generation \in Nat
      /\ Later(observed[c], generation) = generation
  BY DEF IInv, TypeOK, Later
<1>2. TypeOK'
  BY <1>1 DEF Activate, IInv, TypeOK
<1>3. ASSUME NEW d \in CPUs, NEW e \in tlb'[d]
      PROVE  (pte[e[1]] = e[2] \/ Pending(d, e[1], e[2]) \/ Cold(d) \/ d \in stopped)'
  <2>1. e \in tlb[d]
    BY <1>3 DEF Activate, IInv, TypeOK
  <2>2. pte[e[1]] = e[2] \/ Pending(d, e[1], e[2]) \/ Cold(d) \/ d \in stopped
    BY <2>1 DEF IInv, Covered
  <2>3. CASE d = c
    <3>1. ~ (observed[c] < generation)
      BY <1>3, <2>3 DEF Activate, IInv, TypeOK
    <3>2. ~ Cold(d)
      BY <2>3, <3>1 DEF Cold
    <3> QED BY <2>2, <3>2 DEF Activate, Pending
  <2>4. CASE d # c
    BY <2>2, <2>4 DEF Activate, Pending, Cold, IInv, TypeOK
  <2> QED BY <2>3, <2>4
<1>4. Covered'
  BY <1>3 DEF Covered
<1>5. StoppedIdle'
  BY DEF Activate, IInv, StoppedIdle
<1> QED BY <1>2, <1>4, <1>5 DEF IInv

(* Leaving an address space, or stopping, keeps what is cached covered.    *)
LEMMA DeactivateInv ==
  ASSUME IInv, NEW c \in CPUs, Deactivate(c)
  PROVE  IInv'
<1>1. TypeOK'
  BY DEF Deactivate, IInv, TypeOK
<1>2. Covered'
  BY DEF Deactivate, IInv, Covered, Pending, Cold
<1> QED BY <1>1, <1>2 DEF Deactivate, IInv, StoppedIdle

LEMMA StopInv ==
  ASSUME IInv, NEW c \in CPUs, Stop(c)
  PROVE  IInv'
<1>1. TypeOK'
  BY DEF Stop, IInv, TypeOK
<1>2. Covered'
  BY DEF Stop, IInv, Covered, Pending, Cold
<1> QED BY <1>1, <1>2 DEF Stop, IInv, StoppedIdle

(* What sealing a write on c does to the pending flushes. *)
LEMMA SealFacts ==
  ASSUME TypeOK, NEW c \in CPUs, NEW pages \in SUBSET Pages, NEW retired \in SUBSET Frames,
         ~flush[c].on, Seal(c, pages, retired)
  PROVE  /\ generation' = generation + 1 /\ generation' \in Nat /\ generation \in Nat
         /\ flush' \in [CPUs -> Flush]
         /\ flush'[c].on /\ flush'[c].targets = active /\ flush'[c].acked = {}
         /\ flush'[c].pages = pages /\ flush'[c].retired = retired
         /\ \A i \in CPUs \ {c} : flush'[i] = flush[i]
         /\ \A i \in CPUs : flush'[i].gen <= generation'
         /\ \A i \in CPUs : flush[i].on => i # c
<1>1. generation \in Nat /\ generation' = generation + 1 /\ generation' \in Nat
  BY DEF TypeOK, Seal
<1>2. /\ flush'[c].on /\ flush'[c].targets = active /\ flush'[c].acked = {}
      /\ flush'[c].pages = pages /\ flush'[c].retired = retired /\ flush'[c].gen = generation + 1
      /\ \A i \in CPUs \ {c} : flush'[i] = flush[i]
  BY DEF TypeOK, Seal
<1>3. flush' \in [CPUs -> Flush]
  BY <1>1 DEF TypeOK, Seal, Flush
<1>4. ASSUME NEW i \in CPUs PROVE flush'[i].gen <= generation'
  <2>1. CASE i = c
    BY <1>1, <1>2, <2>1
  <2>2. CASE i # c
    <3>1. flush'[i].gen = flush[i].gen /\ flush[i].gen <= generation /\ flush[i].gen \in Nat
      BY <1>2, <2>2 DEF TypeOK, Flush
    <3> QED BY <1>1, <3>1
  <2> QED BY <2>1, <2>2
<1> QED BY <1>1, <1>2, <1>3, <1>4

(* A sealed write on c leaves the CPUs outside its targets cold, and keeps *)
(* every flush that was pending.                                           *)
LEMMA SealEffect ==
  ASSUME TypeOK, NEW c \in CPUs, NEW pages \in SUBSET Pages, NEW retired \in SUBSET Frames,
         ~flush[c].on, Seal(c, pages, retired), active' = active, observed' = observed
  PROVE  /\ \A d \in CPUs : d \notin active => Cold(d)'
         /\ \A d \in CPUs, p \in Pages, f \in Frames : Pending(d, p, f) => Pending(d, p, f)'
         /\ \A d \in active, p \in pages, f \in retired : Pending(d, p, f)'
<1>1. /\ generation' = generation + 1 /\ generation' \in Nat /\ generation \in Nat
      /\ flush'[c].on /\ flush'[c].targets = active /\ flush'[c].acked = {}
      /\ flush'[c].pages = pages /\ flush'[c].retired = retired
      /\ \A i \in CPUs \ {c} : flush'[i] = flush[i]
      /\ \A i \in CPUs : flush[i].on => i # c
  BY Zenon, SealFacts
<1>2. ASSUME NEW d \in CPUs, d \notin active PROVE Cold(d)'
  <2>1. observed[d] < generation'
    BY <1>1 DEF TypeOK
  <2>2. ASSUME NEW i \in CPUs, flush'[i].on, d \in flush'[i].targets
        PROVE  flush'[i].gen < generation'
    <3>1. i # c
      BY <1>1, <1>2, <2>2
    <3>2. flush'[i] = flush[i] /\ flush[i].gen \in Nat /\ flush[i].gen <= generation
      BY <1>1, <3>1 DEF TypeOK, Flush
    <3> QED BY <1>1, <3>2
  <2> QED BY <1>2, <2>1, <2>2 DEF Cold
<1>3. ASSUME NEW d \in CPUs, NEW p \in Pages, NEW f \in Frames, Pending(d, p, f)
      PROVE  Pending(d, p, f)'
  <2>1. PICK i \in CPUs : /\ flush[i].on /\ d \in flush[i].targets \ flush[i].acked
                          /\ p \in flush[i].pages /\ f \in flush[i].retired
    BY <1>3 DEF Pending
  <2>2. flush'[i] = flush[i]
    BY <1>1, <2>1
  <2> QED BY <2>1, <2>2 DEF Pending
<1>4. ASSUME NEW d \in active, NEW p \in pages, NEW f \in retired PROVE Pending(d, p, f)'
  BY <1>1 DEF Pending
<1> QED BY <1>2, <1>3, <1>4

(* The frames a write removes were in the page table. *)
LEMMA RetiredFacts ==
  ASSUME TypeOK, NEW new \in [Pages -> Frames \cup {NoFrame}]
  PROVE  /\ Retired(new) \in SUBSET Frames
         /\ \A p \in Pages, f \in Frames : pte[p] = f /\ new[p] # f =>
               p \in Changed(new) /\ f \in Retired(new)
<1>1. \A p \in Pages : pte[p] \in Frames \cup {NoFrame}
  BY DEF TypeOK
<1>2. Retired(new) \in SUBSET Frames
  BY <1>1 DEF Retired, Changed
<1>3. \A f \in Frames : f # NoFrame
  BY MmTlbAssumption
<1> QED BY <1>2, <1>3 DEF Retired, Changed

(* A page-table write: what it revokes is pending on the active CPUs, and  *)
(* the others are cold.                                                    *)
LEMMA WriteInv ==
  ASSUME IInv, NEW c \in CPUs, NEW new \in [Pages -> Frames \cup {NoFrame}],
         NEW pages \in SUBSET Pages, Write(c, new, pages)
  PROVE  IInv'
<1> DEFINE retired == Retired(new)
<1>1. /\ TypeOK /\ ~flush[c].on /\ Changed(new) \subseteq pages /\ pte' = new
      /\ Seal(c, pages, retired) /\ tlb' = tlb /\ active' = active /\ observed' = observed
      /\ stopped' = stopped
  BY DEF Write, IInv
<1>2. /\ retired \in SUBSET Frames
      /\ \A p \in Pages, f \in Frames : pte[p] = f /\ new[p] # f => p \in pages /\ f \in retired
  BY <1>1, RetiredFacts
<1>3. /\ generation' = generation + 1 /\ generation' \in Nat /\ generation \in Nat
      /\ flush' \in [CPUs -> Flush] /\ \A i \in CPUs : flush'[i].gen <= generation'
  BY Zenon, <1>1, <1>2, SealFacts
<1>4. TypeOK'
  <2>1. \A d \in CPUs : observed'[d] <= generation'
    BY <1>1, <1>3 DEF TypeOK
  <2> QED BY <1>1, <1>3, <2>1 DEF TypeOK
<1>5. /\ \A d \in CPUs : d \notin active => Cold(d)'
      /\ \A d \in CPUs, p \in Pages, f \in Frames : Pending(d, p, f) => Pending(d, p, f)'
      /\ \A d \in active, p \in pages, f \in retired : Pending(d, p, f)'
  BY Zenon, <1>1, <1>2, SealEffect
<1>6. ASSUME NEW d \in CPUs, NEW e \in tlb'[d]
      PROVE  (pte[e[1]] = e[2] \/ Pending(d, e[1], e[2]) \/ Cold(d) \/ d \in stopped)'
  <2>1. e[1] \in Pages /\ e[2] \in Frames /\ e \in tlb[d]
    BY <1>1, <1>6, EntryFacts
  <2>2. CASE d \notin active
    BY <1>5, <2>2
  <2>3. CASE d \in active
    <3>1. pte[e[1]] = e[2] \/ Pending(d, e[1], e[2]) \/ d \in stopped
      BY <2>1, <2>3 DEF IInv, Covered, Cold
    <3> QED BY <1>1, <1>2, <1>5, <2>1, <2>3, <3>1
  <2> QED BY <2>2, <2>3
<1>7. Covered'
  BY <1>6 DEF Covered
<1> QED BY <1>1, <1>4, <1>7 DEF IInv, StoppedIdle

(* The write without memory for its retire list. *)
LEMMA WriteOomInv ==
  ASSUME IInv, NEW c \in CPUs, NEW new \in [Pages -> Frames \cup {NoFrame}],
         NEW pages \in SUBSET Pages, WriteOom(c, new, pages)
  PROVE  IInv'
<1>1. /\ TypeOK /\ ~flush[c].on /\ Changed(new) \subseteq pages /\ pte' = new
      /\ Seal(c, pages, {}) /\ active' = active /\ observed' = observed
      /\ stopped' = stopped /\ active \subseteq {c}
      /\ tlb' = IF c \in active THEN [tlb EXCEPT ![c] = { e \in @ : e[1] \notin pages }] ELSE tlb
  BY DEF WriteOom, IInv
<1>2. \A p \in Pages : pte[p] # new[p] => p \in pages
  BY <1>1 DEF Changed
<1>3. /\ generation' = generation + 1 /\ generation' \in Nat /\ generation \in Nat
      /\ flush' \in [CPUs -> Flush] /\ \A i \in CPUs : flush'[i].gen <= generation'
  BY Zenon, <1>1, SealFacts
<1>4. TypeOK'
  <2>1. \A d \in CPUs : observed'[d] <= generation'
    BY <1>1, <1>3 DEF TypeOK
  <2>2. tlb' \in [CPUs -> SUBSET (Pages \X Frames)]
    BY <1>1 DEF TypeOK
  <2> QED BY <1>1, <1>3, <2>1, <2>2 DEF TypeOK
<1>5. /\ \A d \in CPUs : d \notin active => Cold(d)'
      /\ \A d \in CPUs, p \in Pages, f \in Frames : Pending(d, p, f) => Pending(d, p, f)'
  BY Zenon, <1>1, SealEffect
<1>6. ASSUME NEW d \in CPUs, NEW e \in tlb'[d]
      PROVE  (pte[e[1]] = e[2] \/ Pending(d, e[1], e[2]) \/ Cold(d) \/ d \in stopped)'
  <2>1. CASE d \notin active
    BY <1>5, <2>1
  <2>2. CASE d \in active
    <3>1. d = c /\ e \in tlb[d] /\ e[1] \notin pages
      BY <1>1, <1>6, <2>2 DEF TypeOK
    <3>2. e[1] \in Pages /\ e[2] \in Frames
      BY <1>1, <3>1, EntryFacts
    <3>3. pte[e[1]] = e[2] \/ Pending(d, e[1], e[2]) \/ d \in stopped
      BY <2>2, <3>1 DEF IInv, Covered, Cold
    <3> QED BY <1>1, <1>2, <1>5, <3>1, <3>2, <3>3
  <2> QED BY <2>1, <2>2
<1>7. Covered'
  BY <1>6 DEF Covered
<1> QED BY <1>1, <1>4, <1>7 DEF IInv, StoppedIdle

(* One target of one flush invalidates at least the range and              *)
(* acknowledges; it may publish the generation of the flush.               *)
LEMMA AckInv ==
  ASSUME IInv, NEW i \in CPUs, NEW d \in CPUs, flush[i].on, d \in flush[i].targets,
         NEW kept, kept \subseteq { e \in tlb[d] : e[1] \notin flush[i].pages },
         tlb' = [tlb EXCEPT ![d] = kept],
         flush' = [flush EXCEPT ![i].acked = @ \cup {d}],
         observed' \in {observed, [observed EXCEPT ![d] = Later(@, flush[i].gen)]},
         UNCHANGED <<pte, active, generation, stopped>>
  PROVE  IInv'
<1>1. TypeOK
  BY DEF IInv
<1>2. /\ flush' \in [CPUs -> Flush]
      /\ \A j \in CPUs : /\ flush'[j].on = flush[j].on /\ flush'[j].gen = flush[j].gen
                         /\ flush'[j].targets = flush[j].targets /\ flush'[j].pages = flush[j].pages
                         /\ flush'[j].retired = flush[j].retired
                         /\ flush'[j].acked = IF j = i THEN flush[i].acked \cup {d} ELSE flush[j].acked
  <2>1. flush \in [CPUs -> Flush]
    BY Zenon, <1>1 DEF TypeOK
  <2>2. [flush[i] EXCEPT !.acked = @ \cup {d}] \in Flush
    BY SMTT(30), <2>1 DEF Flush
  <2>3. /\ flush' \in [CPUs -> Flush] /\ flush'[i] = [flush[i] EXCEPT !.acked = @ \cup {d}]
        /\ \A j \in CPUs \ {i} : flush'[j] = flush[j]
    BY SMTT(30), <2>1, <2>2
  <2>4. /\ flush'[i].on = flush[i].on /\ flush'[i].gen = flush[i].gen
        /\ flush'[i].targets = flush[i].targets /\ flush'[i].pages = flush[i].pages
        /\ flush'[i].retired = flush[i].retired /\ flush'[i].acked = flush[i].acked \cup {d}
    <3>1. \A a, s : \A r \in Flush : s = [r EXCEPT !.acked = a] =>
            /\ s.on = r.on /\ s.gen = r.gen /\ s.targets = r.targets /\ s.pages = r.pages
            /\ s.retired = r.retired /\ s.acked = a
      BY SMTT(30) DEF Flush
    <3>2. flush[i] \in Flush
      BY Zenon, <2>1
    <3>3. flush'[i] = [flush[i] EXCEPT !.acked = flush[i].acked \cup {d}]
      BY Zenon, <2>3
    <3> DEFINE fi == flush[i]  fn == flush'[i]  a == flush[i].acked \cup {d}
    <3>4. fi \in Flush /\ fn = [fi EXCEPT !.acked = a]
      BY Zenon, <3>2, <3>3
    <3> HIDE DEF fi, fn, a
    <3>5. /\ fn.on = fi.on /\ fn.gen = fi.gen /\ fn.targets = fi.targets
          /\ fn.pages = fi.pages /\ fn.retired = fi.retired /\ fn.acked = a
      BY <3>1, <3>4
    <3> QED BY Zenon, <3>5 DEF fi, fn, a
  <2> QED BY Zenon, <2>3, <2>4
<1>3. /\ generation \in Nat /\ flush[i].gen \in Nat /\ flush[i].gen <= generation
      /\ observed[d] \in Nat /\ observed[d] <= generation
  BY <1>1 DEF TypeOK, Flush
<1>4. /\ observed' \in [CPUs -> Nat]
      /\ \A c \in CPUs \ {d} : observed'[c] = observed[c]
      /\ observed'[d] \in {observed[d], Later(observed[d], flush[i].gen)}
  BY <1>1, <1>3, LaterFacts DEF TypeOK
<1>5. TypeOK'
  <2>1. \A c \in CPUs : observed'[c] <= generation
    <3>1. observed'[d] <= generation
      BY <1>3, <1>4, LaterFacts
    <3> QED BY <1>1, <1>4, <3>1 DEF TypeOK
  <2>2. tlb' \in [CPUs -> SUBSET (Pages \X Frames)]
    BY <1>1 DEF TypeOK
  <2> QED BY <1>1, <1>2, <1>4, <2>1, <2>2 DEF TypeOK
<1>6. ASSUME NEW c \in CPUs, Cold(c) PROVE Cold(c)'
  <2>1. observed'[c] < generation
    <3>1. CASE c # d
      BY <1>4, <1>6, <3>1 DEF Cold
    <3>2. CASE c = d
      <4>1. observed[d] < generation /\ flush[i].gen < generation
        BY <1>6, <3>2 DEF Cold
      <4> QED BY <1>3, <1>4, <3>2, <4>1, LaterFacts
    <3> QED BY <3>1, <3>2
  <2> QED BY <1>2, <1>6, <2>1 DEF Cold
<1>7. ASSUME NEW c \in CPUs, NEW e \in tlb'[c]
      PROVE  (pte[e[1]] = e[2] \/ Pending(c, e[1], e[2]) \/ Cold(c) \/ c \in stopped)'
  <2>1. e \in tlb[c] /\ (c = d => e[1] \notin flush[i].pages)
    BY <1>1, <1>7 DEF TypeOK
  <2>2. pte[e[1]] = e[2] \/ Pending(c, e[1], e[2]) \/ Cold(c) \/ c \in stopped
    BY <2>1 DEF IInv, Covered
  <2>3. ASSUME Pending(c, e[1], e[2]) PROVE Pending(c, e[1], e[2])'
    <3>1. PICK j \in CPUs : /\ flush[j].on /\ c \in flush[j].targets \ flush[j].acked
                            /\ e[1] \in flush[j].pages /\ e[2] \in flush[j].retired
      BY <2>3 DEF Pending
    <3>2. ~(j = i /\ c = d)
      BY <2>1, <3>1
    <3> QED BY <1>2, <3>1, <3>2 DEF Pending
  <2> QED BY <1>6, <2>2, <2>3
<1>8. Covered'
  BY <1>7 DEF Covered
<1> QED BY <1>5, <1>8 DEF IInv, StoppedIdle

(* The end of a flush: nothing it covered is left to invalidate. *)
LEMMA FinishInv ==
  ASSUME IInv, NEW i \in CPUs, Finish(i)
  PROVE  IInv'
<1>1. /\ TypeOK /\ flush[i].on /\ flush[i].targets \subseteq flush[i].acked \cup stopped
      /\ observed' = Marked(i) /\ flush' = [flush EXCEPT ![i] = NoFlush]
      /\ UNCHANGED <<pte, tlb, active, generation, stopped>>
  BY DEF Finish, IInv
<1>2. /\ flush' \in [CPUs -> Flush] /\ ~flush'[i].on /\ flush'[i].gen = 0
      /\ \A j \in CPUs \ {i} : flush'[j] = flush[j]
  BY <1>1 DEF TypeOK, Flush, NoFlush
<1>3. generation \in Nat /\ flush[i].gen \in Nat /\ flush[i].gen <= generation
  BY <1>1 DEF TypeOK, Flush
<1>4. ASSUME NEW c \in CPUs
      PROVE  /\ observed[c] \in Nat /\ observed[c] <= generation
             /\ observed'[c] = IF c \in flush[i].targets THEN Later(observed[c], flush[i].gen)
                               ELSE observed[c]
             /\ observed'[c] \in Nat /\ observed'[c] <= generation
  <2>1. observed[c] \in Nat /\ observed[c] <= generation
    BY <1>1 DEF TypeOK
  <2>2. observed'[c] = IF c \in flush[i].targets THEN Later(observed[c], flush[i].gen) ELSE observed[c]
    BY <1>1 DEF Marked
  <2>3. /\ Later(observed[c], flush[i].gen) \in Nat
        /\ Later(observed[c], flush[i].gen) <= generation
    BY Zenon, <1>3, <2>1, LaterFacts
  <2> QED BY Zenon, <2>1, <2>2, <2>3
<1>5. TypeOK'
  <2>1. observed' \in [CPUs -> Nat]
    BY <1>1, <1>4 DEF Marked
  <2>2. \A c \in CPUs : flush'[c].gen <= generation
    BY <1>1, <1>2, <1>3 DEF TypeOK
  <2> QED BY <1>1, <1>2, <1>4, <2>1, <2>2 DEF TypeOK
<1>6. ASSUME NEW c \in CPUs, Cold(c) PROVE Cold(c)'
  <2>1. observed'[c] < generation
    <3>1. CASE c \in flush[i].targets
      <4>1. observed[c] < generation /\ flush[i].gen < generation
        BY <1>1, <1>6, <3>1 DEF Cold
      <4>2. /\ observed'[c] = Later(observed[c], flush[i].gen) /\ observed[c] \in Nat
            /\ (Later(observed[c], flush[i].gen) < generation
                  <=> observed[c] < generation /\ flush[i].gen < generation)
        <5>1. observed[c] \in Nat
          BY Zenon, <1>4
        <5> QED BY Zenon, <1>3, <1>4, <3>1, <5>1, LaterFacts
      <4> QED BY Zenon, <4>1, <4>2
    <3>2. CASE c \notin flush[i].targets
      BY <1>4, <1>6, <3>2 DEF Cold
    <3> QED BY <3>1, <3>2
  <2> QED BY <1>1, <1>2, <1>6, <2>1 DEF Cold
<1>7. ASSUME NEW c \in CPUs, NEW e \in tlb'[c]
      PROVE  (pte[e[1]] = e[2] \/ Pending(c, e[1], e[2]) \/ Cold(c) \/ c \in stopped)'
  <2>1. pte[e[1]] = e[2] \/ Pending(c, e[1], e[2]) \/ Cold(c) \/ c \in stopped
    BY <1>1, <1>7 DEF IInv, Covered
  <2>2. ASSUME Pending(c, e[1], e[2]), c \notin stopped PROVE Pending(c, e[1], e[2])'
    <3>1. PICK j \in CPUs : /\ flush[j].on /\ c \in flush[j].targets \ flush[j].acked
                            /\ e[1] \in flush[j].pages /\ e[2] \in flush[j].retired
      BY <2>2 DEF Pending
    <3>2. j # i
      BY <1>1, <2>2, <3>1
    <3> QED BY <1>2, <3>1, <3>2 DEF Pending
  <2> QED BY <1>1, <1>6, <2>1, <2>2
<1>8. Covered'
  BY <1>7 DEF Covered
<1> QED BY <1>1, <1>5, <1>8 DEF IInv, StoppedIdle

(* Every step keeps the inductive invariant. *)
LEMMA NextInv == IInv /\ [Next]_vars => IInv'
<1> SUFFICES ASSUME IInv, [Next]_vars PROVE IInv'
  OBVIOUS
<1>1. CASE UNCHANGED vars
  BY <1>1 DEF vars, IInv, TypeOK, Covered, Pending, Cold, StoppedIdle
<1>2. ASSUME NEW c \in CPUs, CpuStep(c) PROVE IInv'
  <2>1. CASE Activate(c) \/ Deactivate(c) \/ Stop(c) \/ Finish(c)
    BY <2>1, ActivateInv, DeactivateInv, StopInv, FinishInv
  <2>2. CASE \E p \in Pages : Fill(c, p)
    BY <2>2, FillInv
  <2>3. ASSUME NEW d \in CPUs, ServiceRange(c, d) \/ FenceRange(c, d) \/ ServiceFull(c, d)
        PROVE  IInv'
    <3>1. /\ flush[c].on /\ d \in flush[c].targets
          /\ flush' = [flush EXCEPT ![c].acked = @ \cup {d}]
          /\ UNCHANGED <<pte, active, generation, stopped>>
      BY <2>3 DEF ServiceRange, FenceRange, ServiceFull
    <3>2. observed' \in {observed, [observed EXCEPT ![d] = Later(@, flush[c].gen)]}
      BY <2>3 DEF ServiceRange, FenceRange, ServiceFull
    <3>3. PICK kept : /\ kept \subseteq { e \in tlb[d] : e[1] \notin flush[c].pages }
                      /\ tlb' = [tlb EXCEPT ![d] = kept]
      <4>1. CASE ServiceFull(c, d)
        <5>1. tlb' = [tlb EXCEPT ![d] = {}]
          BY Zenon, <4>1 DEF ServiceFull
        <5> QED BY Zenon, <5>1
      <4>2. CASE ServiceRange(c, d) \/ FenceRange(c, d)
        <5>1. tlb' = [tlb EXCEPT ![d] = { e \in @ : e[1] \notin flush[c].pages }]
          BY Zenon, <4>2 DEF ServiceRange, FenceRange
        <5>2. tlb' = [tlb EXCEPT ![d] = { e \in tlb[d] : e[1] \notin flush[c].pages }]
          BY Zenon, <5>1
        <5> QED BY Zenon, <5>2
      <4> QED BY Zenon, <2>3, <4>1, <4>2
    <3> QED BY Zenon, <3>1, <3>2, <3>3, AckInv
  <2>4. CASE \E new \in [Pages -> Frames \cup {NoFrame}], pages \in SUBSET Pages :
               Write(c, new, pages) \/ WriteOom(c, new, pages)
    BY <2>4, WriteInv, WriteOomInv
  <2> QED BY <1>2, <2>1, <2>2, <2>3, <2>4 DEF CpuStep
<1> QED BY <1>1, <1>2 DEF Next

(* The inductive invariant holds in every reachable state. *)
THEOREM TlbInvariance == Spec => []IInv
<1> QED BY InitInv, NextInv, PTL DEF Spec

(* Every variable keeps its type, and no generation is observed before it  *)
(* is taken, for any number of CPUs.                                       *)
THEOREM TlbTypeCorrect == Spec => []TypeOK
<1>1. IInv => TypeOK
  BY DEF IInv
<1> QED BY <1>1, TlbInvariance, PTL

(* When AddressSpace::write has returned, no active CPU holds a            *)
(* translation it revoked.                                                 *)
THEOREM RevocationComplete == Spec => []StaleIsPending
<1>1. IInv => StaleIsPending
  <2> SUFFICES ASSUME IInv, NEW c \in active, NEW e \in tlb[c]
               PROVE  pte[e[1]] = e[2] \/ Pending(c, e[1], e[2])
    BY DEF StaleIsPending
  <2>1. c \in CPUs /\ c \notin stopped /\ ~Cold(c)
    BY DEF IInv, TypeOK, StoppedIdle, Cold
  <2> QED BY <2>1 DEF IInv, Covered
<1> QED BY <1>1, TlbInvariance, PTL

(* No active CPU can reach a released frame. *)
THEOREM NoUseAfterFree == Spec => []FrameSafe
<1>1. IInv => FrameSafe
  <2> SUFFICES ASSUME IInv, NEW c \in active, NEW e \in tlb[c]
               PROVE  InUse(e[2])
    BY DEF FrameSafe
  <2>1. c \in CPUs /\ c \notin stopped /\ ~Cold(c)
    BY DEF IInv, TypeOK, StoppedIdle, Cold
  <2>2. e[1] \in Pages
    BY <2>1, EntryFacts DEF IInv
  <2>3. pte[e[1]] = e[2] \/ Pending(c, e[1], e[2])
    BY <2>1 DEF IInv, Covered
  <2> QED BY <2>2, <2>3 DEF InUse, Pending
<1> QED BY <1>1, TlbInvariance, PTL

=============================================================================
