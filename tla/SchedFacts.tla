----------------------------- MODULE SchedFacts -----------------------------
(***************************************************************************)
(* Facts about queues; the inductive invariant of the scheduler core and   *)
(* facts about the states that satisfy it; the steps that move no task     *)
(* (boot, program counters, doorbells and idling); the steps of a remote   *)
(* affinity call (set_remote_affinity, set_queued_affinity).               *)
(***************************************************************************)
EXTENDS Sched, TLAPS

(* Removing position i moves the later elements up by one. *)
LEMMA RemoveType ==
  ASSUME NEW S, NEW q \in Seq(S), NEW i \in 1..Len(q)
  PROVE  /\ Remove(q, i) \in Seq(S)
         /\ Len(Remove(q, i)) = Len(q) - 1
         /\ \A j \in 1..Len(q)-1 : Remove(q, i)[j] = IF j < i THEN q[j] ELSE q[j+1]
<1> DEFINE a == SubSeq(q, 1, i-1)
           b == SubSeq(q, i+1, Len(q))
<1>1. a \in Seq(S) /\ Len(a) = i - 1 /\ \A j \in 1..i-1 : a[j] = q[j]
  OBVIOUS
<1>2. b \in Seq(S) /\ Len(b) = Len(q) - i /\ \A j \in 1..Len(q)-i : b[j] = q[i+j]
  OBVIOUS
<1>3. Remove(q, i) = a \o b
  BY DEF Remove
<1> HIDE DEF a, b
<1>4. /\ a \o b \in Seq(S) /\ Len(a \o b) = Len(a) + Len(b)
      /\ \A j \in 1..Len(a)+Len(b) :
            (a \o b)[j] = IF j <= Len(a) THEN a[j] ELSE b[j - Len(a)]
  <2>1. a \in Seq(S) /\ b \in Seq(S)
    BY <1>1, <1>2
  <2>2. a \o b \in Seq(S) /\ Len(a \o b) = Len(a) + Len(b)
    BY <2>1
  <2>3. ASSUME NEW j \in 1..Len(a)+Len(b), j <= Len(a)
        PROVE  (a \o b)[j] = a[j]
    BY <2>1, <2>3
  <2>4. ASSUME NEW j \in 1..Len(a)+Len(b), ~(j <= Len(a))
        PROVE  (a \o b)[j] = b[j - Len(a)]
    BY <2>1, <2>4
  <2> QED BY <2>2, <2>3, <2>4
<1>5. Len(a \o b) = Len(q) - 1
  BY <1>1, <1>2, <1>4
<1>6. ASSUME NEW j \in 1..Len(q)-1
      PROVE  (a \o b)[j] = IF j < i THEN q[j] ELSE q[j+1]
  <2>1. Len(q) \in Nat /\ Len(a) = i - 1 /\ Len(b) = Len(q) - i /\ j \in 1..Len(a)+Len(b)
    BY <1>1, <1>2
  <2>2. (a \o b)[j] = IF j <= Len(a) THEN a[j] ELSE b[j - Len(a)]
    BY Zenon, <1>4, <2>1
  <2>3. CASE j < i
    <3>1. j <= Len(a) /\ a[j] = q[j]
      BY <1>1, <2>1, <2>3
    <3> QED BY Zenon, <2>2, <2>3, <3>1
  <2>4. CASE ~(j < i)
    <3>1. ~(j <= Len(a)) /\ j - Len(a) \in 1..Len(q)-i /\ i + (j - Len(a)) = j + 1
      BY <2>1, <2>4
    <3>2. b[j - Len(a)] = q[i + (j - Len(a))]
      BY Zenon, <1>2, <3>1
    <3> QED BY Zenon, <2>2, <2>4, <3>1, <3>2
  <2> QED BY Zenon, <2>3, <2>4
<1> QED BY <1>3, <1>4, <1>5, <1>6

(* It removes exactly the element at i, and leaves no duplicates. *)
LEMMA RemoveExact ==
  ASSUME NEW S, NEW q \in Seq(S), NEW i \in DOMAIN q, Distinct(q)
  PROVE  /\ Remove(q, i) \in Seq(S)
         /\ Distinct(Remove(q, i))
         /\ Elems(Remove(q, i)) = Elems(q) \ {q[i]}
         /\ q[i] \in S /\ q[i] \in Elems(q) /\ q # <<>>
<1> DEFINE r == Remove(q, i)
<1>1. i \in 1..Len(q) /\ DOMAIN q = 1..Len(q)
  OBVIOUS
<1>2. /\ r \in Seq(S) /\ Len(r) = Len(q) - 1
      /\ \A j \in 1..Len(q)-1 : r[j] = IF j < i THEN q[j] ELSE q[j+1]
  BY Zenon, <1>1, RemoveType
<1> HIDE DEF r
<1>3. DOMAIN r = 1..Len(q)-1
  BY <1>1, <1>2
<1>4. \A j, k \in 1..Len(q) : q[j] = q[k] => j = k
  BY <1>1 DEF Distinct
<1>5. ASSUME NEW j \in 1..Len(q)-1, NEW k \in 1..Len(q)-1, r[j] = r[k]
      PROVE  j = k
  BY <1>1, <1>2, <1>4, <1>5
<1>6. Distinct(r)
  BY <1>3, <1>5 DEF Distinct
<1>7. ASSUME NEW j \in 1..Len(q)-1 PROVE r[j] \in Elems(q) \ {q[i]}
  <2>1. PICK k \in 1..Len(q) : k # i /\ r[j] = q[k]
    <3>1. CASE j < i
      BY <1>1, <1>2, <3>1
    <3>2. CASE ~(j < i)
      <4>1. j + 1 \in 1..Len(q) /\ j + 1 # i /\ r[j] = q[j + 1]
        BY <1>1, <1>2, <3>2
      <4> QED BY <4>1
    <3> QED BY <3>1, <3>2
  <2> QED BY <1>1, <1>4, <2>1 DEF Elems
<1>8. ASSUME NEW j \in 1..Len(q), j # i PROVE q[j] \in Elems(r)
  <2>1. CASE j < i
    BY <1>1, <1>2, <1>3, <2>1 DEF Elems
  <2>2. CASE j > i
    <3>1. j - 1 \in DOMAIN r /\ r[j - 1] = q[j]
      BY <1>1, <1>2, <1>3, <2>2
    <3> QED BY <3>1 DEF Elems
  <2> QED BY <1>8, <2>1, <2>2, <1>1
<1>9. Elems(r) = Elems(q) \ {q[i]}
  BY <1>1, <1>3, <1>7, <1>8 DEF Elems
<1>10. q[i] \in S /\ q[i] \in Elems(q) /\ q # <<>>
  BY <1>1 DEF Elems
<1> QED BY <1>2, <1>6, <1>9, <1>10 DEF r

(* push_back adds exactly the element pushed. *)
LEMMA AppendExact ==
  ASSUME NEW S, NEW q \in Seq(S), NEW t \in S, Distinct(q), t \notin Elems(q)
  PROVE  /\ Append(q, t) \in Seq(S)
         /\ Distinct(Append(q, t))
         /\ Elems(Append(q, t)) = Elems(q) \cup {t}
<1>1. DOMAIN q = 1..Len(q) /\ Len(q) \in Nat
  OBVIOUS
<1>2. /\ Append(q, t) \in Seq(S) /\ Len(Append(q, t)) = Len(q) + 1
      /\ DOMAIN Append(q, t) = 1..Len(q)+1
      /\ \A i \in 1..Len(q) : Append(q, t)[i] = q[i]
      /\ Append(q, t)[Len(q)+1] = t
  OBVIOUS
<1>3. \A i \in 1..Len(q) : q[i] # t
  BY <1>1 DEF Elems
<1>4. Distinct(Append(q, t))
  BY <1>1, <1>2, <1>3 DEF Distinct
<1>5. Elems(Append(q, t)) = Elems(q) \cup {t}
  BY <1>1, <1>2 DEF Elems
<1> QED BY <1>2, <1>4, <1>5

(* push_front adds exactly the element pushed. *)
LEMMA FrontExact ==
  ASSUME NEW S, NEW q \in Seq(S), NEW t \in S, Distinct(q), t \notin Elems(q)
  PROVE  /\ <<t>> \o q \in Seq(S)
         /\ Distinct(<<t>> \o q)
         /\ Elems(<<t>> \o q) = Elems(q) \cup {t}
<1> DEFINE r == <<t>> \o q
<1>1. DOMAIN q = 1..Len(q) /\ Len(q) \in Nat
  OBVIOUS
<1>2. /\ r \in Seq(S) /\ Len(r) = Len(q) + 1
      /\ r[1] = t /\ \A i \in 2..Len(q)+1 : r[i] = q[i-1]
  OBVIOUS
<1> HIDE DEF r
<1>3. DOMAIN r = 1..Len(q)+1
  BY <1>1, <1>2
<1>4. \A i \in 1..Len(q) : q[i] # t
  BY <1>1 DEF Elems
<1>5. Distinct(r)
  <2>1. ASSUME NEW i \in 1..Len(q)+1, NEW j \in 1..Len(q)+1, r[i] = r[j], i # 1, j # 1
        PROVE  i = j
    <3>1. i-1 \in DOMAIN q /\ j-1 \in DOMAIN q /\ q[i-1] = q[j-1]
      BY <1>1, <1>2, <2>1
    <3> QED BY <1>1, <2>1, <3>1 DEF Distinct
  <2>2. ASSUME NEW i \in 1..Len(q)+1, i # 1
        PROVE  r[i] # r[1]
    <3>1. i-1 \in 1..Len(q) /\ r[i] = q[i-1]
      BY <1>1, <1>2, <2>2
    <3> QED BY <1>2, <1>4, <3>1
  <2> QED BY <1>3, <2>1, <2>2 DEF Distinct
<1>6. ASSUME NEW j \in 1..Len(q) PROVE q[j] \in Elems(r)
  <2>1. j + 1 \in DOMAIN r /\ r[j + 1] = q[j]
    BY <1>1, <1>2, <1>3
  <2> QED BY <2>1 DEF Elems
<1>7. ASSUME NEW i \in 1..Len(q)+1 PROVE r[i] \in Elems(q) \cup {t}
  <2>1. CASE i = 1
    BY <1>2, <2>1
  <2>2. CASE i # 1
    <3>1. i-1 \in DOMAIN q /\ r[i] = q[i-1]
      BY <1>1, <1>2, <2>2
    <3> QED BY <3>1 DEF Elems
  <2> QED BY <2>1, <2>2
<1>8. t \in Elems(r)
  <2>1. 1 \in DOMAIN r
    BY <1>1, <1>3
  <2> QED BY <1>2, <2>1 DEF Elems
<1>9. Elems(r) = Elems(q) \cup {t}
  BY <1>1, <1>3, <1>6, <1>7, <1>8 DEF Elems
<1> QED BY <1>2, <1>5, <1>9 DEF r

-----------------------------------------------------------------------------
(* What a call knows at each of its steps: the chosen target is allowed by *)
(* the mask, and no target was chosen only if the source is allowed.       *)
CallExact ==
  \A u \in Tasks :
    /\ call[u].pc # "none" => call[u].task \in Tasks
    /\ call[u].pc \in {"move", "running"} =>
         /\ call[u].src \in CPUs
         /\ IF call[u].tgt = NoCpu THEN call[u].src \in call[u].mask
                                   ELSE call[u].tgt \in call[u].mask
    /\ call[u].pc \in {"detached", "wait"} => call[u].tgt \in call[u].mask

(* The inductive invariant. *)
IInv ==
  /\ TypeOK /\ QueueExact /\ HoldExact /\ HoldOnce /\ MigratingHasMover
  /\ RegistryExact /\ RequestExact /\ AffinityRespected /\ NoStrandedTask /\ CallExact

(* The status constructors are injective and have disjoint ranges. *)
LEMMA StatusDistinct ==
  /\ \A c, d : Queued(c) = Queued(d) => c = d
  /\ \A c, d : Running(c) = Running(d) => c = d
  /\ \A c, d : Blocking(c) = Blocking(d) => c = d
  /\ \A c, d : Queued(c) # Running(d) /\ Queued(c) # Blocking(d) /\ Running(c) # Blocking(d)
  /\ \A c : \A s \in {New, Migrating, Blocked, Zombie} :
       Queued(c) # s /\ Running(c) # s /\ Blocking(c) # s
  /\ New # Migrating /\ New # Blocked /\ New # Zombie
  /\ Migrating # Blocked /\ Migrating # Zombie /\ Blocked # Zombie
BY DEF New, Queued, Migrating, Running, Blocking, Blocked, Zombie

(* The tag and the CPU that each constructor of TaskStatus (task.rs) *)
(* records.                                                          *)
LEMMA StatusTags ==
  /\ \A c : Queued(c).tag = "Queued" /\ Running(c).tag = "Running"
            /\ Blocking(c).tag = "Blocking" /\ Blocking(c).cpu = c /\ Running(c).cpu = c
            /\ Queued(c).cpu = c
  /\ New.tag = "New" /\ Migrating.tag = "Migrating" /\ Blocked.tag = "Blocked"
  /\ Zombie.tag = "Zombie"
BY Zenon DEF New, Queued, Migrating, Running, Blocking, Blocked, Zombie

(* A status is determined by its tag and CPU. *)
LEMMA StatusByTag ==
  ASSUME NEW s \in TaskStatus
  PROVE  /\ s.tag = "Queued"   => s.cpu \in CPUs /\ s = Queued(s.cpu)
         /\ s.tag = "Running"  => s.cpu \in CPUs /\ s = Running(s.cpu)
         /\ s.tag = "Blocking" => s.cpu \in CPUs /\ s = Blocking(s.cpu)
         /\ s.tag = "Blocked"   => s = Blocked
         /\ s.tag = "Migrating" => s = Migrating
         /\ s.tag = "New"       => s = New
         /\ s.tag = "Zombie"    => s = Zombie
<1> USE DEF New, Queued, Migrating, Running, Blocking, Blocked, Zombie
<1>1. \/ s \in {New, Migrating, Blocked, Zombie}
      \/ \E c \in CPUs : s \in {Queued(c), Running(c), Blocking(c)}
  BY Zenon DEF TaskStatus
<1>2. CASE s \in {New, Migrating, Blocked, Zombie}
  BY <1>2
<1>3. CASE \E c \in CPUs : s \in {Queued(c), Running(c), Blocking(c)}
  BY <1>3
<1> QED BY Zenon, <1>1, <1>2, <1>3

(* What a CPU holds is not queued, blocked or new. *)
LEMMA HoldStatus ==
  ASSUME IInv, NEW c \in CPUs, pc[c] \in Holding
  PROVE  /\ hand[c] \in Tasks
         /\ status[hand[c]] \in {Migrating, Running(c), Blocking(c), Zombie}
<1>1. hand[c] \in Tasks
  BY Zenon DEF IInv, HoldExact
<1>2. \/ pc[c] = "steal" \/ pc[c] \in {"claimed", "run", "mig"}
      \/ pc[c] = "sleep" \/ pc[c] = "dead" \/ pc[c] = "out"
  BY Zenon DEF Holding, OnStack
<1>3. status[hand[c]] \in {Migrating, Running(c), Blocking(c), Zombie}
  BY Zenon, <1>2 DEF IInv, HoldExact
<1> QED BY Zenon, <1>1, <1>3

(* A task that is New, Queued or Blocked is in nobody's hands. *)
LEMMA Unheld ==
  ASSUME IInv, NEW t \in Tasks,
         status[t] \in {New, Blocked} \/ \E d \in CPUs : status[t] = Queued(d)
  PROVE  /\ \A c \in CPUs : pc[c] \in Holding => hand[c] # t
         /\ \A u \in Tasks : call[u].pc = "detached" => call[u].task # t
<1>1. /\ \A c \in CPUs : status[t] \notin {Running(c), Blocking(c), Migrating, Zombie}
      /\ status[t] # Migrating
  BY Zenon, StatusDistinct
<1>2. ASSUME NEW c \in CPUs, pc[c] \in Holding PROVE hand[c] # t
  BY Zenon, <1>1, <1>2, HoldStatus
<1>3. ASSUME NEW u \in Tasks, call[u].pc = "detached" PROVE call[u].task # t
  BY Zenon, <1>1, <1>3 DEF IInv, MigratingHasMover
<1> QED BY Zenon, <1>2, <1>3

(* Only the CPU named by a Running or Blocking status holds the task. *)
LEMMA HeldBy ==
  ASSUME IInv, NEW t \in Tasks, NEW c \in CPUs, status[t] \in {Running(c), Blocking(c)}
  PROVE  /\ pc[c] \in Holding /\ hand[c] = t
         /\ pc[c] \in {"claimed", "run", "mig", "sleep", "out"}
         /\ \A d \in CPUs : pc[d] \in Holding /\ hand[d] = t => d = c
         /\ \A u \in Tasks : call[u].pc = "detached" => call[u].task # t
<1>1. pc[c] \in Holding /\ hand[c] = t
  BY Zenon DEF IInv, HoldExact
<1>2. pc[c] # "steal" /\ pc[c] # "dead"
  BY Zenon, <1>1, StatusDistinct DEF IInv, HoldExact
<1>3. pc[c] \in {"claimed", "run", "mig", "sleep", "out"}
  BY Zenon, <1>1, <1>2 DEF Holding, OnStack
<1> QED BY Zenon, <1>1, <1>3 DEF IInv, HoldOnce

(* A step that only moves a program counter between places of the same kind *)
(* keeps the invariant: dispatch after a claim, entering __switch, waking   *)
(* from wfi.                                                                *)
LEMMA PcStep ==
  ASSUME IInv, NEW c \in CPUs, NEW where,
         \/ pc[c] = "claimed" /\ where = "run"
         \/ pc[c] \in {"run", "mig", "sleep", "dead"} /\ where = "out"
         \/ pc[c] = "wfi" /\ where = "top"
         \/ pc[c] = "scan" /\ where = "wfi",
         Goto(c, where), need_resched' \in [CPUs -> BOOLEAN],
         UNCHANGED <<ownVars, maskVars, hand, victims, ipi, bell, callVars>>
  PROVE  IInv'
<1>1. /\ pc \in [CPUs -> CpuPc]
      /\ pc' = [pc EXCEPT ![c] = where]
  BY Zenon DEF IInv, TypeOK, Goto
<1>2. UNCHANGED <<status, interruptible, run_queue, local_zombies, cpus_allowed,
        migration_target, request, hand, victims, ipi, bell, call, calls>>
  BY Zenon DEF ownVars, maskVars, callVars
<1>3. /\ \A d \in CPUs : pc'[d] \in Holding <=> pc[d] \in Holding
      /\ \A d \in CPUs : pc'[d] = "steal" <=> pc[d] = "steal"
  BY Zenon, <1>1 DEF Holding, OnStack, CpuPc
<1> USE <1>1, <1>2 DEF IInv
<1>t. TypeOK'
  BY Zenon DEF TypeOK, CpuPc, Holding, OnStack
<1>q. QueueExact'
  BY Zenon DEF QueueExact
<1>h. HoldExact'
  BY <1>3 DEF HoldExact, Holding, OnStack
<1>o. HoldOnce'
  BY <1>3 DEF HoldOnce
<1>m. MigratingHasMover'
  BY <1>3 DEF MigratingHasMover
<1>r. RegistryExact' /\ RequestExact' /\ CallExact'
  BY Zenon DEF RegistryExact, RequestExact, CallExact
<1>a. AffinityRespected'
  BY Zenon DEF AffinityRespected
<1>n. NoStrandedTask'
  BY Zenon DEF NoStrandedTask
<1> QED BY Zenon, <1>t, <1>q, <1>h, <1>o, <1>m, <1>r, <1>a, <1>n

(* A step that only moves one affinity call keeps the invariant when it *)
(* neither detaches a task nor touches a request slot.                  *)
LEMMA CallStep ==
  ASSUME IInv, NEW u \in Tasks, NEW a \in Call,
         call' = [call EXCEPT ![u] = a],
         call[u].pc # "detached", a.pc # "detached", a.pc # "wait",
         ~(call[u].pc = "wait" /\ call[u].state = "Pending"),
         a.pc # "none" => a.task \in Tasks,
         a.pc \in {"move", "running"} =>
           a.src \in CPUs /\ IF a.tgt = NoCpu THEN a.src \in a.mask ELSE a.tgt \in a.mask,
         calls' \in 0..MaxCalls,
         cpus_allowed' \in [Tasks -> SUBSET CPUs], AffinityRespected',
         bell' \in [CPUs -> SUBSET CPUs], \A d \in CPUs : bell[d] \subseteq bell'[d],
         UNCHANGED <<ownVars, migration_target, request, cpuVars, ipi, need_resched>>
  PROVE  IInv'
<1>1. UNCHANGED <<status, interruptible, run_queue, local_zombies, migration_target,
        request, pc, hand, victims, ipi, need_resched>>
  BY Zenon DEF ownVars, cpuVars
<1>2. call \in [Tasks -> Call]
  BY Zenon DEF IInv, TypeOK
<1>3. \A v \in Tasks : call'[v] = IF v = u THEN a ELSE call[v]
  BY Zenon, <1>2
<1> USE <1>1 DEF IInv
<1>t. TypeOK'
  BY Zenon, <1>2 DEF TypeOK
<1>q. QueueExact' /\ HoldExact' /\ RegistryExact'
  BY Zenon DEF QueueExact, HoldExact, RegistryExact
<1>o. HoldOnce'
  BY <1>3 DEF HoldOnce
<1>m. MigratingHasMover'
  BY <1>3 DEF MigratingHasMover
<1>r. RequestExact'
  <2>1. \A t \in Tasks : request[t] # u
    BY TasksAssumption DEF RequestExact
  <2>2. request \in [Tasks -> Tasks \cup {NoTask}]
    BY Zenon DEF TypeOK
  <2> QED BY <1>3, <2>1, <2>2 DEF RequestExact
<1>n. NoStrandedTask'
  BY Zenon DEF NoStrandedTask
<1>c. CallExact'
  BY Zenon, <1>3 DEF CallExact
<1> QED BY Zenon, <1>t, <1>q, <1>o, <1>m, <1>r, <1>n, <1>c

(* The record of a task that is in no call is well typed. *)
LEMMA NoCallType == NoCall \in Call /\ NoCall.pc = "none"
BY Zenon DEF NoCall, Call, CallPc

(* What Complete does to the slot and to the caller waiting on it. *)
LEMMA CompleteFacts ==
  ASSUME IInv, NEW t \in Tasks, NEW o \in {"Applied", "Retry"}, Complete(t, o)
  PROVE  /\ call' \in [Tasks -> Call]
         /\ request' = [request EXCEPT ![t] = NoTask]
         /\ \A u \in Tasks :
              /\ call'[u].pc = call[u].pc /\ call'[u].task = call[u].task
              /\ call'[u].mask = call[u].mask /\ call'[u].src = call[u].src
              /\ call'[u].tgt = call[u].tgt
              /\ (call[u].task # t \/ call[u].pc # "wait") => call'[u].state = call[u].state
              /\ (call[u].task = t /\ call[u].pc = "wait") => call'[u].state # "Pending"
<1>1. /\ call \in [Tasks -> Call] /\ request[t] \in Tasks \cup {NoTask}
  BY Zenon DEF IInv, TypeOK
<1>2. CASE request[t] = NoTask
  BY <1>1, <1>2, TasksAssumption DEF Complete, Call, IInv, RequestExact
<1>3. CASE request[t] # NoTask
  <2> DEFINE v == request[t]
  <2>1. v \in Tasks /\ call[v].pc = "wait" /\ call[v].task = t /\ call[v] \in Call
    BY Zenon, <1>1, <1>3 DEF IInv, RequestExact
  <2>2. call' = [call EXCEPT ![v] = [@ EXCEPT !.state = o, !.stored = (o = "Applied")]]
    BY Zenon, <1>3 DEF Complete
  <2> DEFINE a == [call[v] EXCEPT !.state = o, !.stored = (o = "Applied")]
  <2>3. /\ a.pc = call[v].pc /\ a.task = call[v].task /\ a.mask = call[v].mask
        /\ a.src = call[v].src /\ a.tgt = call[v].tgt /\ a.state = o /\ a \in Call
    <3> DEFINE s == (o = "Applied")
    <3>1. s \in BOOLEAN
      OBVIOUS
    <3>2. a = [call[v] EXCEPT !.state = o, !.stored = s]
      OBVIOUS
    <3> HIDE DEF s, a
    <3> QED BY Zenon, <2>1, <3>1, <3>2 DEF Call
  <2>4. call' = [call EXCEPT ![v] = a]
    BY Zenon, <2>2
  <2>5. \A u \in Tasks : call[u].task = t /\ call[u].pc = "wait"
          /\ call[u].state = "Pending" => u = v
    BY DEF IInv, RequestExact
  <2> HIDE DEF a, v
  <2>6. \A u \in Tasks : call'[u] = IF u = v THEN a ELSE call[u]
    BY Zenon, <1>1, <2>4
  <2>7. call' \in [Tasks -> Call]
    BY Zenon, <1>1, <2>3, <2>4
  <2> QED BY ZenonT(30), <2>1, <2>3, <2>5, <2>6, <2>7 DEF Complete
<1> QED BY Zenon, <1>2, <1>3

(* Notify only adds doorbells. *)
LEMMA NotifyFacts ==
  ASSUME IInv, NEW c \in CPUs, NEW T \in SUBSET CPUs, Notify(c, T)
  PROVE  /\ bell' \in [CPUs -> SUBSET CPUs]
         /\ \A d \in CPUs : bell[d] \subseteq bell'[d]
         /\ \A d \in T \ {c} : d \in bell'[c]
<1>1. bell \in [CPUs -> SUBSET CPUs]
  BY Zenon DEF IInv, TypeOK
<1> QED BY Zenon, <1>1 DEF Notify

(* The caller of a sched_setaffinity that is in progress. *)
LEMMA CallerFacts ==
  ASSUME IInv, NEW c \in CPUs, pc[c] = "run"
  PROVE  /\ hand[c] \in Tasks /\ call[hand[c]] \in Call
         /\ status[hand[c]] = Running(c)
         /\ call[hand[c]].pc # "none" => call[hand[c]].task \in Tasks
<1>1. hand[c] \in Tasks /\ status[hand[c]] = Running(c)
  BY Zenon DEF IInv, HoldExact, Holding, OnStack
<1> QED BY Zenon, <1>1 DEF IInv, TypeOK, CallExact

(* Updating the fields of a call record. *)
LEMMA CallAt ==
  ASSUME NEW a \in Call, NEW p \in CallPc
  PROVE  /\ [a EXCEPT !.pc = p] \in Call
         /\ [a EXCEPT !.pc = p].pc = p
         /\ [a EXCEPT !.pc = p].task = a.task
BY Zenon DEF Call

(* A returned call is well typed whatever its outcome. *)
LEMMA ReturnType ==
  ASSUME NEW r \in {"ok", "fail"}, NEW b \in BOOLEAN
  PROVE  /\ [NoCall EXCEPT !.ret = r, !.stored = b] \in Call
         /\ [NoCall EXCEPT !.ret = r, !.stored = b].pc = "none"
BY Zenon DEF NoCall, Call, CallPc

(* Every constructor yields a member of TaskStatus. *)
LEMMA StatusTypes ==
  /\ \A c \in CPUs : Queued(c) \in TaskStatus /\ Running(c) \in TaskStatus
                     /\ Blocking(c) \in TaskStatus
  /\ New \in TaskStatus /\ Migrating \in TaskStatus /\ Blocked \in TaskStatus
  /\ Zombie \in TaskStatus
BY Zenon DEF TaskStatus

(* Emptying t's slot keeps the other requests, whatever happens to t. *)
LEMMA CompleteFrame ==
  ASSUME IInv, NEW t \in Tasks, NEW o \in {"Applied", "Retry"}, Complete(t, o),
         \A x \in Tasks \ {t} : /\ status'[x] = status[x]
                                /\ migration_target'[x] = migration_target[x]
  PROVE  RequestExact' /\ CallExact'
<1>1. /\ request' = [request EXCEPT ![t] = NoTask]
      /\ \A u \in Tasks :
           /\ call'[u].pc = call[u].pc /\ call'[u].task = call[u].task
           /\ call'[u].mask = call[u].mask /\ call'[u].src = call[u].src
           /\ call'[u].tgt = call[u].tgt
           /\ (call[u].task # t \/ call[u].pc # "wait") => call'[u].state = call[u].state
           /\ (call[u].task = t /\ call[u].pc = "wait") => call'[u].state # "Pending"
  BY Zenon, CompleteFacts
<1>2. request \in [Tasks -> Tasks \cup {NoTask}]
  BY Zenon DEF IInv, TypeOK
<1>3. CallExact'
  BY <1>1 DEF IInv, CallExact
<1>4. ASSUME NEW x \in Tasks, request'[x] # NoTask
      PROVE  /\ status'[x].tag = "Running" /\ migration_target'[x] = NoCpu
             /\ call'[request'[x]].pc = "wait" /\ call'[request'[x]].task = x
             /\ call'[request'[x]].state = "Pending"
  <2>1. x # t /\ request'[x] = request[x] /\ request[x] \in Tasks
    BY Zenon, <1>1, <1>2, <1>4
  <2> DEFINE v == request[x]
  <2>2. /\ status[x].tag = "Running" /\ migration_target[x] = NoCpu
        /\ call[v].pc = "wait" /\ call[v].task = x /\ call[v].state = "Pending"
    BY Zenon, <1>4, <2>1 DEF IInv, RequestExact
  <2> HIDE DEF v
  <2>3. v \in Tasks /\ request'[x] = v
    BY Zenon, <2>1 DEF v
  <2>4. call'[v].pc = "wait" /\ call'[v].task = x /\ call'[v].state = "Pending"
    BY Zenon, <1>1, <2>1, <2>2, <2>3
  <2> QED BY Zenon, <2>1, <2>2, <2>3, <2>4
<1>5. ASSUME NEW x \in Tasks, call'[x].pc = "wait", call'[x].state = "Pending"
      PROVE  request'[call'[x].task] = x
  <2>1. call[x].pc = "wait" /\ call[x].task # t /\ call[x].state = "Pending"
    BY Zenon, <1>1, <1>5
  <2>2. call[x].task \in Tasks
    BY Zenon, <2>1 DEF IInv, CallExact
  <2> QED BY <1>1, <1>2, <2>1, <2>2 DEF IInv, RequestExact
<1> QED BY Zenon, <1>3, <1>4, <1>5 DEF RequestExact

(* Names of the places where a CPU holds a task. *)
LEMMA HoldingNames ==
  /\ Holding = {"run", "mig", "sleep", "dead", "steal", "claimed", "out"}
  /\ Holding \subseteq CpuPc /\ "top" \in CpuPc /\ "late" \in CpuPc
  /\ "top" \notin Holding /\ "late" \notin Holding
BY Zenon DEF Holding, OnStack, CpuPc

(* The requests stay exact in a step that leaves alone the requests, the  *)
(* tasks they are for and the calls that wait for them.                    *)
LEMMA RequestKept ==
  ASSUME RequestExact, request \in [Tasks -> Tasks \cup {NoTask}],
         UNCHANGED <<request, migration_target>>,
         \A x \in Tasks : request[x] # NoTask => status'[x] = status[x],
         \A x \in Tasks : call[x].pc = "wait" => call'[x] = call[x],
         \A x \in Tasks : call'[x].pc = "wait" => call'[x] = call[x]
  PROVE  RequestExact'
<1>1. ASSUME NEW x \in Tasks, request'[x] # NoTask
      PROVE  /\ status'[x].tag = "Running" /\ migration_target'[x] = NoCpu
             /\ call'[request'[x]].pc = "wait" /\ call'[request'[x]].task = x
             /\ call'[request'[x]].state = "Pending"
  <2>1. request'[x] = request[x] /\ request[x] \in Tasks /\ status'[x] = status[x]
    BY Zenon, <1>1
  <2>2. /\ status[x].tag = "Running" /\ migration_target[x] = NoCpu
        /\ call[request[x]].pc = "wait" /\ call[request[x]].task = x
        /\ call[request[x]].state = "Pending"
    BY Zenon, <1>1, <2>1 DEF RequestExact
  <2>3. call'[request[x]] = call[request[x]]
    BY Zenon, <2>1, <2>2
  <2> QED BY Zenon, <2>1, <2>2, <2>3
<1>2. ASSUME NEW x \in Tasks, call'[x].pc = "wait", call'[x].state = "Pending"
      PROVE  request'[call'[x].task] = x
  <2>1. call'[x] = call[x]
    BY Zenon, <1>2
  <2>2. request[call[x].task] = x
    BY <1>2, <2>1 DEF RequestExact
  <2> QED BY Zenon, <2>1, <2>2
<1> QED BY Zenon, <1>1, <1>2 DEF RequestExact

(* The state after boot, with only the init task published, satisfies the *)
(* invariant.                                                             *)
LEMMA InitInv == Init => IInv
<1> SUFFICES ASSUME Init PROVE IInv
  OBVIOUS
<1> USE CpusAssumption, TasksAssumption, BoundAssumption DEF Init
<1>1. \A t \in Tasks : status[t] \in {New, Queued(BootCpu)}
  OBVIOUS
<1>t. TypeOK
  <2>1. run_queue \in [CPUs -> Seq(Tasks)]
    OBVIOUS
  <2>2. call \in [Tasks -> Call]
    BY Zenon, NoCallType
  <2>3. status \in [Tasks -> TaskStatus]
    BY Zenon DEF TaskStatus
  <2> QED BY <2>1, <2>2, <2>3 DEF TypeOK, CpuPc
<1>q. QueueExact
  <2> SUFFICES ASSUME NEW c \in CPUs
               PROVE  /\ Distinct(run_queue[c])
                      /\ \A t \in Tasks : t \in Elems(run_queue[c]) <=> status[t] = Queued(c)
    BY Zenon DEF QueueExact
  <2>1. CASE c = BootCpu
    <3>1. run_queue[c] = <<InitTask>> /\ DOMAIN <<InitTask>> = {1} /\ <<InitTask>>[1] = InitTask
      BY <2>1
    <3> QED BY Zenon, <2>1, <3>1, StatusDistinct DEF Distinct, Elems
  <2>2. CASE c # BootCpu
    <3>1. run_queue[c] = <<>> /\ DOMAIN <<>> = {}
      BY <2>2
    <3> QED BY Zenon, <2>2, <3>1, StatusDistinct DEF Distinct, Elems
  <2> QED BY Zenon, <2>1, <2>2
<1>h. HoldExact
  BY Zenon, <1>1, StatusDistinct DEF HoldExact, Holding, OnStack
<1>o. HoldOnce
  BY Zenon, NoCallType DEF HoldOnce, Holding, OnStack
<1>m. MigratingHasMover
  BY Zenon, <1>1, NoCallType, StatusDistinct DEF MigratingHasMover
<1>g. RegistryExact
  BY Zenon, <1>1, StatusTags DEF RegistryExact
<1>r. RequestExact
  BY Zenon, NoCallType DEF RequestExact
<1>a. AffinityRespected
  BY Zenon DEF AffinityRespected
<1>n. NoStrandedTask
  BY Zenon DEF NoStrandedTask
<1>c. CallExact
  BY Zenon, NoCallType DEF CallExact
<1> QED BY Zenon, <1>t, <1>q, <1>h, <1>o, <1>m, <1>g, <1>r, <1>a, <1>n, <1>c DEF IInv

(* The steps that PcStep covers. *)
LEMMA PcActions ==
  ASSUME IInv, NEW c \in CPUs,
         \/ StealNone(c) \/ Dispatch(c) \/ WaitEnds(c) \/ Suspend(c) \/ TimerPreempt(c)
         \/ SafePoint(c) \/ SleepSchedule(c) \/ ExitSchedule(c) \/ MigrateSuspend(c)
  PROVE  IInv'
<1>1. need_resched \in [CPUs -> BOOLEAN]
  BY Zenon DEF IInv, TypeOK
<1>2. CASE StealNone(c)
  BY Zenon, <1>1, <1>2, PcStep DEF StealNone, irqVars
<1>3. CASE Dispatch(c)
  BY Zenon, <1>1, <1>3, PcStep DEF Dispatch, irqVars
<1>4. CASE WaitEnds(c)
  BY Zenon, <1>1, <1>4, PcStep DEF WaitEnds, irqVars
<1>5. CASE Suspend(c)
  BY Zenon, <1>1, <1>5, PcStep DEF Suspend, Runs, irqVars
<1>6. CASE TimerPreempt(c)
  BY Zenon, <1>1, <1>6, PcStep DEF TimerPreempt, Free, Runs, irqVars
<1>7. CASE SafePoint(c)
  BY Zenon, <1>1, <1>7, PcStep DEF SafePoint, Free, Runs
<1>8. CASE SleepSchedule(c)
  BY Zenon, <1>1, <1>8, PcStep DEF SleepSchedule, irqVars
<1>9. CASE ExitSchedule(c)
  BY Zenon, <1>1, <1>9, PcStep DEF ExitSchedule, irqVars
<1>10. CASE MigrateSuspend(c)
  BY Zenon, <1>1, <1>10, PcStep DEF MigrateSuspend, irqVars
<1> QED BY Zenon, <1>2, <1>3, <1>4, <1>5, <1>6, <1>7, <1>8, <1>9, <1>10

(* The top of the scheduler loop, which consumes a reschedule request, *)
(* keeps the invariant.                                                *)
LEMMA TopInv ==
  ASSUME IInv, NEW c \in CPUs, Top(c)
  PROVE  IInv'
<1>1. /\ pc[c] = "top" /\ pc' = [pc EXCEPT ![c] = "fetch"]
      /\ ipi' = [ipi EXCEPT ![c] = FALSE]
      /\ need_resched' = [need_resched EXCEPT ![c] = FALSE]
      /\ local_zombies' = [local_zombies EXCEPT ![c] = {}]
      /\ UNCHANGED <<status, interruptible, run_queue, cpus_allowed, migration_target,
           request, hand, victims, bell, call, calls>>
  BY Zenon DEF Top, Goto, maskVars, callVars
<1>2. pc \in [CPUs -> CpuPc] /\ ipi \in [CPUs -> BOOLEAN]
  BY Zenon DEF IInv, TypeOK
<1>3. /\ \A d \in CPUs : pc'[d] \in Holding <=> pc[d] \in Holding
      /\ \A d \in CPUs : pc'[d] = "steal" <=> pc[d] = "steal"
  BY Zenon, <1>1, <1>2 DEF Holding, OnStack, CpuPc
<1> USE <1>1, <1>2 DEF IInv
<1>t. TypeOK'
  BY Zenon DEF TypeOK, CpuPc
<1>q. QueueExact' /\ RegistryExact' /\ RequestExact' /\ CallExact'
  BY DEF QueueExact, RegistryExact, RequestExact, CallExact
<1>h. HoldExact'
  BY Zenon, <1>3 DEF HoldExact
<1>o. HoldOnce' /\ MigratingHasMover'
  BY <1>3 DEF HoldOnce, MigratingHasMover
<1>a. AffinityRespected'
  BY Zenon DEF AffinityRespected
<1>n. NoStrandedTask'
  BY Zenon DEF NoStrandedTask
<1> QED BY Zenon, <1>t, <1>q, <1>h, <1>o, <1>a, <1>n

(* Finding the local queue empty keeps the invariant. *)
LEMMA FetchEmptyInv ==
  ASSUME IInv, NEW c \in CPUs, FetchEmpty(c)
  PROVE  IInv'
<1>1. /\ pc[c] = "fetch" /\ run_queue[c] = <<>> /\ pc' = [pc EXCEPT ![c] = "scan"]
      /\ victims' = [victims EXCEPT ![c] = { v \in CPUs \ {c} : run_queue[v] # <<>> }]
      /\ UNCHANGED <<status, interruptible, run_queue, local_zombies, cpus_allowed,
           migration_target, request, hand, ipi, need_resched, bell, call, calls>>
  BY Zenon DEF FetchEmpty, Goto, ownVars, maskVars, irqVars, callVars
<1>2. pc \in [CPUs -> CpuPc]
  BY Zenon DEF IInv, TypeOK
<1>3. /\ \A d \in CPUs : pc'[d] \in Holding <=> pc[d] \in Holding
      /\ \A d \in CPUs : pc'[d] = "steal" <=> pc[d] = "steal"
  BY Zenon, <1>1, <1>2 DEF Holding, OnStack, CpuPc
<1> USE <1>1, <1>2 DEF IInv
<1>t. TypeOK'
  BY Zenon DEF TypeOK, CpuPc
<1>q. QueueExact' /\ RegistryExact' /\ RequestExact' /\ CallExact'
  BY DEF QueueExact, RegistryExact, RequestExact, CallExact
<1>h. HoldExact'
  BY Zenon, <1>3 DEF HoldExact
<1>o. HoldOnce' /\ MigratingHasMover'
  BY <1>3 DEF HoldOnce, MigratingHasMover
<1>a. AffinityRespected'
  BY Zenon DEF AffinityRespected
<1>n. NoStrandedTask'
  BY Zenon DEF NoStrandedTask
<1> QED BY Zenon, <1>t, <1>q, <1>h, <1>o, <1>a, <1>n

(* Steps that leave ownership, affinity, calls and program counters alone. *)
LEMMA QuietActions ==
  ASSUME IInv, NEW c \in CPUs,
         \/ \E v \in CPUs : StealSkip(c, v)
         \/ HandleIpi(c) \/ SendBell(c)
         \/ \E v \in CPUs, t \in Tasks : TakeZombie(c, v, t)
  PROVE  IInv'
<1>1. UNCHANGED <<status, interruptible, run_queue, cpus_allowed, migration_target,
        request, pc, hand, call, calls>>
  BY Zenon DEF StealSkip, HandleIpi, SendBell, TakeZombie, ownVars, maskVars, cpuVars, callVars
<1>t. TypeOK'
  <2> USE <1>1 DEF IInv, TypeOK
  <2>1. CASE \E v \in CPUs : StealSkip(c, v)
    BY <2>1 DEF StealSkip, ownVars, irqVars
  <2>2. CASE HandleIpi(c)
    BY Zenon, <2>2 DEF HandleIpi, ownVars, cpuVars
  <2>3. CASE SendBell(c)
    BY Zenon, <2>3 DEF SendBell, ownVars, cpuVars
  <2>4. CASE \E v \in CPUs, t \in Tasks : TakeZombie(c, v, t)
    BY <2>4 DEF TakeZombie, cpuVars, irqVars
  <2> QED BY Zenon, <2>1, <2>2, <2>3, <2>4
<1>n. NoStrandedTask'
  <2> USE <1>1 DEF IInv, TypeOK, NoStrandedTask
  <2>1. CASE HandleIpi(c)
    BY Zenon, <2>1 DEF HandleIpi
  <2>2. CASE SendBell(c)
    BY Zenon, <2>2 DEF SendBell
  <2>3. CASE UNCHANGED <<ipi, bell>>
    BY Zenon, <2>3
  <2> QED BY Zenon, <2>1, <2>2, <2>3 DEF StealSkip, TakeZombie, irqVars
<1>q. QueueExact' /\ RegistryExact' /\ AffinityRespected'
  BY Zenon, <1>1 DEF IInv, QueueExact, RegistryExact, AffinityRespected
<1>h. HoldExact' /\ HoldOnce' /\ MigratingHasMover'
  BY Zenon, <1>1 DEF IInv, HoldExact, HoldOnce, MigratingHasMover
<1>r. RequestExact' /\ CallExact'
  BY Zenon, <1>1 DEF IInv, RequestExact, CallExact
<1> QED BY Zenon, <1>t, <1>n, <1>q, <1>h, <1>r DEF IInv

-----------------------------------------------------------------------------
(* The steps of a remote affinity call. *)

(* The steps of set_remote_affinity that only advance the call. *)
LEMMA CallActions ==
  ASSUME IInv, NEW c \in CPUs, NEW a \in Call,
         pc[c] = "run", Update(hand[c], a),
         call[hand[c]].pc # "detached", a.pc \notin {"detached", "wait"},
         ~(call[hand[c]].pc = "wait" /\ call[hand[c]].state = "Pending"),
         a.pc # "none" => a.task \in Tasks,
         a.pc \in {"move", "running"} =>
           a.src \in CPUs /\ IF a.tgt = NoCpu THEN a.src \in a.mask ELSE a.tgt \in a.mask,
         calls' \in 0..MaxCalls,
         UNCHANGED <<ownVars, maskVars, cpuVars, irqVars>>
  PROVE  IInv'
<1>1. hand[c] \in Tasks
  BY Zenon, CallerFacts
<1>2. /\ cpus_allowed' \in [Tasks -> SUBSET CPUs] /\ bell' \in [CPUs -> SUBSET CPUs]
      /\ \A d \in CPUs : bell[d] \subseteq bell'[d]
  BY Zenon DEF IInv, TypeOK, maskVars, irqVars
<1>3. AffinityRespected'
  BY Zenon DEF IInv, AffinityRespected, ownVars, maskVars, cpuVars
<1>4. UNCHANGED <<ownVars, migration_target, request, cpuVars, ipi, need_resched>>
  BY Zenon DEF maskVars, irqVars
<1>5. call' = [call EXCEPT ![hand[c]] = a]
  BY Zenon DEF Update
<1> QED BY Zenon, <1>1, <1>2, <1>3, <1>4, <1>5, CallStep

(* Entering set_remote_affinity keeps the invariant. *)
LEMMA RemoteCallInv ==
  ASSUME IInv, NEW c \in CPUs, NEW t \in Tasks, NEW mask \in RemoteMasks,
         RemoteCall(c, t, mask)
  PROVE  IInv'
<1> DEFINE a == [NoCall EXCEPT !.pc = "read", !.task = t, !.mask = mask]
<1>1. a \in Call /\ a.pc = "read" /\ a.task = t
  BY Zenon, MasksAssumption DEF NoCall, Call, CallPc
<1>2. pc[c] = "run" /\ call[hand[c]].pc = "none" /\ Update(hand[c], a)
  BY Zenon DEF RemoteCall, Free, Runs
<1>3. calls' \in 0..MaxCalls
  BY BoundAssumption DEF RemoteCall, IInv, TypeOK
<1>4. UNCHANGED <<ownVars, maskVars, cpuVars, irqVars>>
  BY Zenon DEF RemoteCall
<1> HIDE DEF a
<1> QED BY Zenon, <1>1, <1>2, <1>3, <1>4, CallActions

(* The status load of set_remote_affinity keeps the invariant. *)
LEMMA RemoteReadInv ==
  ASSUME IInv, NEW c \in CPUs, RemoteRead(c)
  PROVE  IInv'
<1> DEFINE u == hand[c]
           a == call[u]
           s == status[a.task]
<1>1. /\ pc[c] = "run" /\ a.pc = "read" /\ calls' = calls
      /\ UNCHANGED <<ownVars, maskVars, cpuVars, irqVars>>
  BY Zenon DEF RemoteRead, At, Runs
<1>2. /\ u \in Tasks /\ a \in Call /\ a.task \in Tasks /\ a.mask \in SUBSET CPUs
      /\ calls' \in 0..MaxCalls /\ s \in TaskStatus /\ a.stored \in BOOLEAN
  BY Zenon, <1>1, CallerFacts DEF IInv, TypeOK, Call
<1>3. \/ Update(u, [a EXCEPT !.pc = "blocked"])
      \/ Update(u, [a EXCEPT !.pc = "queued"])
      \/ /\ s.tag = "Running"
         /\ \E target \in Targets(a.mask, s.cpu) :
              Update(u, [a EXCEPT !.pc = "running", !.src = s.cpu, !.tgt = target])
      \/ Return(u, "fail")
  BY Zenon DEF RemoteRead
<1> HIDE DEF u, a, s
<1>4. ASSUME NEW p \in {"blocked", "queued"}, Update(u, [a EXCEPT !.pc = p])
      PROVE  IInv'
  <2> DEFINE b == [a EXCEPT !.pc = p]
  <2>1. p \in CallPc
    BY Zenon DEF CallPc
  <2>2. b \in Call /\ b.pc = p /\ b.task = a.task /\ Update(u, b)
    BY Zenon, <1>2, <1>4, <2>1, CallAt
  <2> HIDE DEF b
  <2> QED BY Zenon, <1>1, <1>2, <2>2, CallActions DEF u, a
<1>5. CASE Return(u, "fail")
  BY Zenon, <1>1, <1>2, <1>5, ReturnType, CallActions DEF Return, u, a
<1>6. ASSUME s.tag = "Running", NEW target \in Targets(a.mask, s.cpu),
             Update(u, [a EXCEPT !.pc = "running", !.src = s.cpu, !.tgt = target])
      PROVE  IInv'
  <2>1. s.cpu \in CPUs /\ target \in CPUs \cup {NoCpu}
        /\ IF target = NoCpu THEN s.cpu \in a.mask ELSE target \in a.mask
    BY Zenon, <1>2, <1>6, StatusByTag, CpusAssumption DEF Targets
  <2> DEFINE b == [a EXCEPT !.pc = "running", !.src = s.cpu, !.tgt = target]
  <2>2. b \in Call /\ b.pc = "running" /\ b.task = a.task /\ b.src = s.cpu /\ b.tgt = target
        /\ b.mask = a.mask
    <3>1. "running" \in CallPc
      BY Zenon DEF CallPc
    <3> QED BY Zenon, <1>2, <2>1, <3>1 DEF Call
  <2>3. Update(u, b)
    BY Zenon, <1>6
  <2> HIDE DEF b
  <2> QED BY Zenon, <1>1, <1>2, <2>1, <2>2, <2>3, CallActions DEF u, a
<1> QED BY Zenon, <1>3, <1>4, <1>5, <1>6

(* A call advances to p without choosing a target. *)
LEMMA CallGoto ==
  ASSUME IInv, NEW c \in CPUs, pc[c] = "run",
         NEW p \in {"read", "blocked", "reblock", "queued"},
         call[hand[c]].pc \notin {"none", "detached"},
         ~(call[hand[c]].pc = "wait" /\ call[hand[c]].state = "Pending"),
         Update(hand[c], [call[hand[c]] EXCEPT !.pc = p]),
         UNCHANGED <<ownVars, maskVars, cpuVars, irqVars, calls>>
  PROVE  IInv'
<1> DEFINE a == call[hand[c]]
           b == [a EXCEPT !.pc = p]
<1>1. a \in Call /\ a.task \in Tasks /\ calls' \in 0..MaxCalls /\ p \in CallPc
  BY Zenon, CallerFacts DEF IInv, TypeOK, CallPc
<1>2. b \in Call /\ b.pc = p /\ b.task = a.task
  BY Zenon, <1>1, CallAt
<1>3. Update(hand[c], b) /\ a.pc # "detached" /\ ~(a.pc = "wait" /\ a.state = "Pending")
  OBVIOUS
<1> HIDE DEF b
<1> QED BY Zenon, <1>1, <1>2, <1>3, CallActions

(* A call returns without publishing a mask. *)
LEMMA CallReturn ==
  ASSUME IInv, NEW c \in CPUs, pc[c] = "run", NEW r \in {"ok", "fail"},
         call[hand[c]].pc # "detached",
         ~(call[hand[c]].pc = "wait" /\ call[hand[c]].state = "Pending"),
         Return(hand[c], r),
         UNCHANGED <<ownVars, maskVars, cpuVars, irqVars, calls>>
  PROVE  IInv'
<1> DEFINE b == [NoCall EXCEPT !.ret = r, !.stored = call[hand[c]].stored]
<1>1. call[hand[c]].stored \in BOOLEAN /\ calls' \in 0..MaxCalls
  BY Zenon, CallerFacts DEF IInv, TypeOK, Call
<1>2. b \in Call /\ b.pc = "none" /\ Update(hand[c], b)
  BY Zenon, <1>1, ReturnType DEF Return
<1> HIDE DEF b
<1> QED BY Zenon, <1>1, <1>2, CallActions

(* Giving up after a queued task was fetched or stolen keeps the invariant. *)
LEMMA LostQueuedInv ==
  ASSUME IInv, NEW c \in CPUs, At(c, "queued") \/ At(c, "move"), NEW s,
         LostQueued(hand[c], s),
         UNCHANGED <<ownVars, maskVars, cpuVars, irqVars, calls>>
  PROVE  IInv'
<1>1. pc[c] = "run" /\ call[hand[c]].pc \notin {"none", "detached", "wait"}
  BY Zenon DEF At, Runs
<1>2. \/ Update(hand[c], [call[hand[c]] EXCEPT !.pc = "queued"])
      \/ Update(hand[c], [call[hand[c]] EXCEPT !.pc = "read"])
      \/ Return(hand[c], "fail")
  BY Zenon DEF LostQueued
<1> QED BY Zenon, <1>1, <1>2, CallGoto, CallReturn

(* The lookup of set_queued_affinity under the queue lock keeps the *)
(* invariant.                                                       *)
LEMMA QueuedReadInv ==
  ASSUME IInv, NEW c \in CPUs, QueuedRead(c)
  PROVE  IInv'
<1> DEFINE u == hand[c]
           a == call[u]
           s == status[a.task]
<1>1. /\ pc[c] = "run" /\ a.pc = "queued" /\ At(c, "queued")
      /\ UNCHANGED <<ownVars, maskVars, cpuVars, irqVars, calls>>
  BY Zenon DEF QueuedRead, At, Runs
<1>2. CASE s.tag # "Queued"
  BY Zenon, <1>1, <1>2, LostQueuedInv DEF QueuedRead
<1>3. CASE s.tag = "Queued"
  <2>1. PICK target \in Targets(a.mask, s.cpu) :
          Update(u, [a EXCEPT !.pc = "move", !.src = s.cpu, !.tgt = target])
    BY Zenon, <1>3 DEF QueuedRead
  <2>2. /\ a \in Call /\ a.task \in Tasks /\ a.mask \in SUBSET CPUs
        /\ calls' \in 0..MaxCalls /\ s \in TaskStatus
    BY Zenon, <1>1, CallerFacts DEF IInv, TypeOK, Call
  <2>3. s.cpu \in CPUs /\ target \in CPUs \cup {NoCpu}
        /\ IF target = NoCpu THEN s.cpu \in a.mask ELSE target \in a.mask
    BY Zenon, <1>3, <2>1, <2>2, StatusByTag, CpusAssumption DEF Targets
  <2> DEFINE b == [a EXCEPT !.pc = "move", !.src = s.cpu, !.tgt = target]
  <2>4. b \in Call /\ b.pc = "move" /\ b.task = a.task /\ b.src = s.cpu /\ b.tgt = target
        /\ b.mask = a.mask
    <3>1. "move" \in CallPc
      BY Zenon DEF CallPc
    <3> HIDE DEF s, a
    <3> QED BY Zenon, <2>2, <2>3, <3>1 DEF Call
  <2>5. Update(u, b)
    BY Zenon, <2>1
  <2> HIDE DEF b
  <2> QED BY Zenon, <1>1, <2>2, <2>3, <2>4, <2>5, CallActions
<1> QED BY Zenon, <1>2, <1>3

(* A call that publishes its mask and returns. *)
LEMMA SucceedStep ==
  ASSUME IInv, NEW c \in CPUs, pc[c] = "run", Succeed(hand[c]),
         call[hand[c]].pc \notin {"none", "detached", "wait"},
         \A d \in CPUs : status[call[hand[c]].task] \in {Queued(d), Running(d), Blocking(d)}
                           => d \in call[hand[c]].mask,
         status[call[hand[c]].task] # Migrating, status[call[hand[c]].task] # Zombie,
         bell' \in [CPUs -> SUBSET CPUs], \A d \in CPUs : bell[d] \subseteq bell'[d],
         UNCHANGED <<ownVars, migration_target, request, cpuVars, ipi, need_resched, calls>>
  PROVE  IInv'
<1> DEFINE u == hand[c]
           a == call[u]
           b == [NoCall EXCEPT !.ret = "ok", !.stored = TRUE]
<1>1. /\ u \in Tasks /\ a \in Call /\ a.task \in Tasks /\ a.mask \in SUBSET CPUs
      /\ calls' \in 0..MaxCalls
  BY Zenon, CallerFacts DEF IInv, TypeOK, Call
<1>2. b \in Call /\ b.pc = "none" /\ call' = [call EXCEPT ![u] = b]
  BY Zenon, ReturnType DEF Succeed, Update
<1>3. cpus_allowed' = [cpus_allowed EXCEPT ![a.task] = a.mask]
  BY Zenon DEF Succeed, StoreMask
<1>4. cpus_allowed' \in [Tasks -> SUBSET CPUs]
  BY Zenon, <1>1, <1>3 DEF IInv, TypeOK
<1>5. AffinityRespected'
  <2>1. ASSUME NEW t \in Tasks, NEW d \in CPUs, status[t] = Queued(d)
        PROVE  d \in cpus_allowed'[t]
    BY Zenon, <1>1, <1>3, <2>1 DEF IInv, TypeOK, AffinityRespected
  <2>2. ASSUME NEW d \in CPUs, pc[d] \in {"steal", "claimed", "run", "sleep"}
        PROVE  d \in cpus_allowed'[hand[d]]
    <3>1. hand[d] \in Tasks /\ status[hand[d]] \in {Migrating, Running(d), Blocking(d), Zombie}
      BY Zenon, <2>2, HoldStatus DEF Holding, OnStack
    <3>2. CASE hand[d] = a.task
      BY Zenon, <1>1, <1>3, <3>1, <3>2 DEF IInv, TypeOK
    <3>3. CASE hand[d] # a.task
      BY Zenon, <1>1, <1>3, <2>2, <3>1, <3>3 DEF IInv, TypeOK, AffinityRespected
    <3> QED BY Zenon, <3>2, <3>3
  <2>3. UNCHANGED <<status, pc, hand>>
    BY Zenon DEF ownVars, cpuVars
  <2> QED BY Zenon, <2>1, <2>2, <2>3 DEF AffinityRespected
<1>6. a.pc \notin {"detached", "wait"}
  OBVIOUS
<1> HIDE DEF b
<1> QED BY Zenon, <1>1, <1>2, <1>4, <1>5, <1>6, CallStep

(* The steps that end a call without a new mask keep the invariant. *)
LEMMA CallEndActions ==
  ASSUME IInv, NEW c \in CPUs,
         \/ RecheckBlocked(c) \/ QueuedLost(c) \/ RemoteMoved(c) \/ RemoteDone(c)
  PROVE  IInv'
<1>1. CASE RecheckBlocked(c)
  BY Zenon, <1>1, CallGoto, CallReturn DEF RecheckBlocked, At, Runs
<1>2. CASE QueuedLost(c)
  BY Zenon, <1>2, LostQueuedInv DEF QueuedLost
<1>3. CASE RemoteMoved(c)
  BY Zenon, <1>3, CallGoto DEF RemoteMoved, At, Runs
<1>4. CASE RemoteDone(c)
  BY Zenon, <1>4, CallGoto, CallReturn DEF RemoteDone, At, Runs
<1> QED BY Zenon, <1>1, <1>2, <1>3, <1>4

(* update_blocked_affinity keeps the invariant. *)
LEMMA UpdateBlockedInv ==
  ASSUME IInv, NEW c \in CPUs, UpdateBlocked(c)
  PROVE  IInv'
<1> DEFINE a == call[hand[c]]
<1>1. /\ pc[c] = "run" /\ a.pc = "blocked"
      /\ UNCHANGED <<ownVars, migration_target, request, cpuVars, irqVars, calls>>
  BY Zenon DEF UpdateBlocked, At, Runs
<1>2. CASE status[a.task] = Blocked /\ a.task \in interruptible
  <2>1. Succeed(hand[c])
    BY Zenon, <1>2 DEF UpdateBlocked
  <2>2. /\ bell' \in [CPUs -> SUBSET CPUs] /\ \A d \in CPUs : bell[d] \subseteq bell'[d]
        /\ UNCHANGED <<ipi, need_resched>>
    BY Zenon, <1>1 DEF IInv, TypeOK, irqVars
  <2> QED BY Zenon, <1>1, <1>2, <2>1, <2>2, StatusDistinct, SucceedStep
<1>3. CASE ~(status[a.task] = Blocked /\ a.task \in interruptible)
  <2>1. UNCHANGED cpus_allowed /\ Update(hand[c], [a EXCEPT !.pc = "reblock"])
    BY Zenon, <1>3 DEF UpdateBlocked
  <2> QED BY Zenon, <1>1, <2>1, CallGoto DEF maskVars
<1> QED BY Zenon, <1>2, <1>3

(* Changing the mask of a queued task that may stay keeps the invariant. *)
LEMMA QueuedStayInv ==
  ASSUME IInv, NEW c \in CPUs, QueuedStay(c)
  PROVE  IInv'
<1> DEFINE a == call[hand[c]]
<1>1. /\ pc[c] = "run" /\ a.pc = "move" /\ a.tgt = NoCpu
      /\ a.task \in Elems(run_queue[a.src]) /\ Succeed(hand[c])
      /\ UNCHANGED <<ownVars, migration_target, request, cpuVars, ipi, need_resched, calls>>
  BY Zenon DEF QueuedStay, At, Runs
<1>2. hand[c] \in Tasks /\ a \in Call /\ a.task \in Tasks
  BY Zenon, <1>1, CallerFacts
<1>3. a.src \in CPUs /\ a.src \in a.mask /\ a.mask \subseteq CPUs
  BY Zenon, <1>1, <1>2 DEF IInv, CallExact, Call
<1>4. status[a.task] = Queued(a.src)
  BY Zenon, <1>1, <1>2, <1>3 DEF IInv, QueueExact
<1>5. PICK stealer \in {{}} \cup { {d} : d \in a.mask \ {a.src} } : Notify(c, stealer)
  BY Zenon DEF QueuedStay
<1>6. stealer \in SUBSET CPUs
  BY <1>3
<1>7. bell' \in [CPUs -> SUBSET CPUs] /\ \A d \in CPUs : bell[d] \subseteq bell'[d]
  BY Zenon, <1>5, <1>6, NotifyFacts
<1>8. /\ \A d \in CPUs : status[a.task] \in {Queued(d), Running(d), Blocking(d)} => d \in a.mask
      /\ status[a.task] # Migrating /\ status[a.task] # Zombie
  BY Zenon, <1>3, <1>4, StatusDistinct
<1> HIDE DEF a
<1> QED BY Zenon, <1>1, <1>7, <1>8, SucceedStep DEF a

(* Changing the mask of a running task that may stay keeps the invariant. *)
LEMMA RemoteStayInv ==
  ASSUME IInv, NEW c \in CPUs, RemoteStay(c)
  PROVE  IInv'
<1> DEFINE a == call[hand[c]]
<1>1. /\ pc[c] = "run" /\ a.pc = "running" /\ a.tgt = NoCpu
      /\ status[a.task] = Running(a.src) /\ Succeed(hand[c])
      /\ UNCHANGED <<ownVars, migration_target, request, cpuVars, irqVars, calls>>
  BY Zenon DEF RemoteStay, At, Runs
<1>2. hand[c] \in Tasks /\ a.src \in CPUs /\ a.src \in a.mask
  BY Zenon, <1>1, CallerFacts DEF IInv, CallExact
<1>3. /\ bell' \in [CPUs -> SUBSET CPUs] /\ \A d \in CPUs : bell[d] \subseteq bell'[d]
      /\ UNCHANGED <<ipi, need_resched>>
  BY Zenon, <1>1 DEF IInv, TypeOK, irqVars
<1>4. /\ \A d \in CPUs : status[a.task] \in {Queued(d), Running(d), Blocking(d)} => d \in a.mask
      /\ status[a.task] # Migrating /\ status[a.task] # Zombie
  BY Zenon, <1>1, <1>2, StatusDistinct
<1> HIDE DEF a
<1> QED BY Zenon, <1>1, <1>3, <1>4, SucceedStep DEF a

(* RemoteBusy is CallGoto, a doorbell and the switch to the idle stack. *)
LEMMA RemoteBusyInv ==
  ASSUME IInv, NEW c \in CPUs, RemoteBusy(c)
  PROVE  IInv'
<1> DEFINE u == hand[c]
           a == call[u]
           b == [a EXCEPT !.pc = "read"]
<1>1. /\ pc[c] = "run" /\ a.pc = "running" /\ pc' = [pc EXCEPT ![c] = "out"]
      /\ call' = [call EXCEPT ![u] = b]
      /\ UNCHANGED <<status, interruptible, run_queue, local_zombies, cpus_allowed,
           migration_target, request, hand, victims, ipi, need_resched, calls>>
  BY Zenon DEF RemoteBusy, At, Runs, Update, Goto, ownVars, maskVars
<1>2. u \in Tasks /\ a \in Call /\ a.task \in Tasks /\ a.src \in CPUs
  BY Zenon, <1>1, CallerFacts DEF IInv, CallExact
<1>3. bell' \in [CPUs -> SUBSET CPUs] /\ \A d \in CPUs : bell[d] \subseteq bell'[d]
  <2>1. CASE request[a.task] # NoTask
    BY Zenon, <2>1 DEF RemoteBusy, IInv, TypeOK
  <2>2. CASE request[a.task] = NoTask
    <3>1. Notify(c, {a.src})
      BY Zenon, <2>2 DEF RemoteBusy
    <3> QED BY Zenon, <1>2, <3>1, NotifyFacts
  <2> QED BY Zenon, <2>1, <2>2
<1>4. b \in Call /\ b.pc = "read" /\ b.task = a.task
  BY Zenon, <1>2, CallAt DEF CallPc
<1>5. pc \in [CPUs -> CpuPc] /\ call \in [Tasks -> Call]
  BY Zenon DEF IInv, TypeOK
<1> HIDE DEF b, a, u
<1>6. \A v \in Tasks : call'[v] = IF v = u THEN b ELSE call[v]
  BY Zenon, <1>1, <1>5
<1>7. \A t \in Tasks : request[t] # u
  <2>1. u # NoTask /\ call[u].pc # "wait"
    BY Zenon, <1>1, <1>2, TasksAssumption DEF a
  <2> QED BY <2>1 DEF IInv, RequestExact
<1>8. /\ \A d \in CPUs : pc'[d] \in Holding <=> pc[d] \in Holding
      /\ \A d \in CPUs : pc'[d] = "steal" <=> pc[d] = "steal"
  BY Zenon, <1>1, <1>5 DEF Holding, OnStack, CpuPc
<1> USE <1>1, <1>2, <1>4, <1>6 DEF IInv
<1>t. TypeOK'
  BY Zenon, <1>3, <1>5 DEF TypeOK, CpuPc, Holding, OnStack
<1>q. QueueExact' /\ RegistryExact'
  BY Zenon DEF QueueExact, RegistryExact
<1>h. HoldExact'
  BY <1>5, <1>8 DEF HoldExact, Holding, OnStack
<1>o. HoldOnce'
  BY <1>8 DEF HoldOnce, a
<1>m. MigratingHasMover'
  BY SMTT(30), <1>8 DEF MigratingHasMover, a
<1>r. RequestExact'
  <2>2. request \in [Tasks -> Tasks \cup {NoTask}]
    BY Zenon DEF TypeOK
  <2> QED BY <1>7, <2>2 DEF RequestExact
<1>a. AffinityRespected'
  BY Zenon, <1>5 DEF AffinityRespected
<1>n. NoStrandedTask'
  BY Zenon, <1>3, <1>5 DEF NoStrandedTask
<1>c. CallExact'
  BY Zenon DEF CallExact
<1> QED BY Zenon, <1>t, <1>q, <1>h, <1>o, <1>m, <1>r, <1>a, <1>n, <1>c

(* Publishing a request to the CPU that runs the target keeps the *)
(* invariant.                                                     *)
LEMMA RemoteRequestInv ==
  ASSUME IInv, NEW c \in CPUs, RemoteRequest(c)
  PROVE  IInv'
<1> DEFINE u == hand[c]
           a == call[u]
           t == a.task
           b == [a EXCEPT !.pc = "wait", !.state = "Pending"]
<1>1. /\ pc[c] = "run" /\ a.pc = "running" /\ request[t] = NoTask
      /\ migration_target[t] = NoCpu /\ a.tgt # NoCpu /\ status[t] = Running(a.src)
      /\ request' = [request EXCEPT ![t] = u] /\ call' = [call EXCEPT ![u] = b]
      /\ Notify(c, {a.src})
      /\ UNCHANGED <<status, interruptible, run_queue, local_zombies, cpus_allowed,
           migration_target, pc, hand, victims, ipi, need_resched, calls>>
  BY Zenon DEF RemoteRequest, At, Runs, SlotFree, Update, ownVars, cpuVars
<1>2. u \in Tasks /\ a \in Call /\ t \in Tasks /\ a.src \in CPUs /\ a.tgt \in a.mask
  BY Zenon, <1>1, CallerFacts DEF IInv, CallExact
<1>3. b \in Call /\ b.pc = "wait" /\ b.task = t /\ b.state = "Pending" /\ b.tgt = a.tgt
      /\ b.mask = a.mask
  BY Zenon, <1>2 DEF Call, CallPc
<1>4. bell' \in [CPUs -> SUBSET CPUs] /\ \A d \in CPUs : bell[d] \subseteq bell'[d]
  BY Zenon, <1>1, <1>2, NotifyFacts
<1>5. call \in [Tasks -> Call] /\ request \in [Tasks -> Tasks \cup {NoTask}]
  BY Zenon DEF IInv, TypeOK
<1>6. u # NoTask /\ call[u].pc = "running" /\ call[u].task = t
  BY Zenon, <1>1, <1>2, TasksAssumption
<1> HIDE DEF u, a, t, b
<1>7. \A v \in Tasks : call'[v] = IF v = u THEN b ELSE call[v]
  BY Zenon, <1>1, <1>5
<1>t. TypeOK'
  BY Zenon, <1>1, <1>2, <1>3, <1>4, <1>5 DEF IInv, TypeOK
<1>q. QueueExact' /\ HoldExact' /\ RegistryExact' /\ AffinityRespected'
  BY Zenon, <1>1 DEF IInv, QueueExact, HoldExact, RegistryExact, AffinityRespected
<1>o. HoldOnce'
  BY <1>1, <1>3, <1>6, <1>7 DEF IInv, HoldOnce
<1>m. MigratingHasMover'
  BY <1>1, <1>3, <1>6, <1>7 DEF IInv, MigratingHasMover
<1>r. RequestExact'
  <2>1. ASSUME NEW x \in Tasks, request'[x] # NoTask
        PROVE  /\ status'[x].tag = "Running" /\ migration_target'[x] = NoCpu
               /\ call'[request'[x]].pc = "wait" /\ call'[request'[x]].task = x
               /\ call'[request'[x]].state = "Pending"
    <3>1. CASE x = t
      <4>1. request'[x] = u /\ call'[u] = b
        BY Zenon, <1>1, <1>2, <1>5, <1>7, <3>1
      <4> QED BY SMTT(30), <1>1, <1>3, <3>1, <4>1, StatusTags
    <3>2. CASE x # t
      <4>1. request'[x] = request[x] /\ request[x] \in Tasks
        BY Zenon, <1>1, <1>5, <2>1, <3>2
      <4> DEFINE v == request[x]
      <4>2. /\ status[x].tag = "Running" /\ migration_target[x] = NoCpu
            /\ call[v].pc = "wait" /\ call[v].task = x /\ call[v].state = "Pending"
        BY Zenon, <2>1, <4>1 DEF IInv, RequestExact
      <4>3. v # u /\ v \in Tasks /\ request'[x] = v
        BY Zenon, <1>6, <4>1, <4>2
      <4> HIDE DEF v
      <4>4. call'[v] = call[v]
        BY Zenon, <1>7, <4>3
      <4> QED BY Zenon, <1>1, <4>2, <4>3, <4>4
    <3> QED BY Zenon, <3>1, <3>2
  <2>2. ASSUME NEW x \in Tasks, call'[x].pc = "wait", call'[x].state = "Pending"
        PROVE  request'[call'[x].task] = x
    <3>1. CASE x = u
      BY Zenon, <1>1, <1>2, <1>3, <1>5, <1>7, <3>1
    <3>2. CASE x # u
      <4>1. call'[x] = call[x]
        BY Zenon, <1>7, <3>2
      <4>2. call[x].task \in Tasks /\ request[call[x].task] = x
        BY SMTT(30), <2>2, <4>1 DEF IInv, CallExact, RequestExact
      <4>3. call[x].task # t
        BY Zenon, <1>1, <4>2, TasksAssumption
      <4> QED BY Zenon, <1>1, <1>5, <4>1, <4>2, <4>3
    <3> QED BY Zenon, <3>1, <3>2
  <2> QED BY Zenon, <2>1, <2>2 DEF RequestExact
<1>n. NoStrandedTask'
  BY Zenon, <1>1, <1>4 DEF IInv, NoStrandedTask
<1>c. CallExact'
  BY Zenon, <1>2, <1>3, <1>7 DEF IInv, CallExact
<1> QED BY Zenon, <1>t, <1>q, <1>o, <1>m, <1>r, <1>n, <1>c DEF IInv

(* Detaching a queued task that must move keeps the invariant. *)
LEMMA QueuedDetachInv ==
  ASSUME IInv, NEW c \in CPUs, QueuedDetach(c)
  PROVE  IInv'
<1> DEFINE u == hand[c]
           a == call[u]
           t == a.task
           v == a.src
           b == [a EXCEPT !.pc = "detached"]
<1>1. PICK i \in DOMAIN run_queue[v] : run_queue[v][i] = t /\ TakeAt(v, i)
  BY Zenon DEF QueuedDetach
<1> DEFINE q == Remove(run_queue[v], i)
<1>2. /\ pc[c] = "run" /\ a.pc = "move" /\ a.tgt # NoCpu
      /\ run_queue' = [run_queue EXCEPT ![v] = q]
      /\ status' = [status EXCEPT ![t] = Migrating] /\ call' = [call EXCEPT ![u] = b]
      /\ UNCHANGED <<interruptible, local_zombies, cpus_allowed, migration_target, request,
           pc, hand, victims, ipi, need_resched, bell, calls>>
  BY Zenon, <1>1 DEF QueuedDetach, At, Runs, TakeAt, SetStatus, Update, maskVars, cpuVars, irqVars
<1>3. u \in Tasks /\ a \in Call /\ t \in Tasks /\ v \in CPUs /\ a.tgt \in a.mask
  BY Zenon, <1>2, CallerFacts DEF IInv, CallExact
<1>4. b \in Call /\ b.pc = "detached" /\ b.task = t /\ b.tgt = a.tgt /\ b.mask = a.mask
  BY Zenon, <1>3 DEF Call, CallPc
<1>5. /\ call \in [Tasks -> Call] /\ request \in [Tasks -> Tasks \cup {NoTask}]
      /\ status \in [Tasks -> TaskStatus] /\ run_queue \in [CPUs -> Seq(Tasks)]
  BY Zenon DEF IInv, TypeOK
<1>6. /\ q \in Seq(Tasks) /\ Distinct(q) /\ Elems(q) = Elems(run_queue[v]) \ {t}
      /\ t \in Elems(run_queue[v]) /\ run_queue[v] # <<>>
  <2>1. run_queue[v] \in Seq(Tasks) /\ Distinct(run_queue[v])
    BY Zenon, <1>3, <1>5 DEF IInv, QueueExact
  <2>2. /\ q \in Seq(Tasks) /\ Distinct(q) /\ Elems(q) = Elems(run_queue[v]) \ {run_queue[v][i]}
        /\ run_queue[v][i] \in Elems(run_queue[v]) /\ run_queue[v] # <<>>
    <3>1. ASSUME NEW s \in Seq(Tasks), NEW j \in DOMAIN s, Distinct(s)
          PROVE  /\ Remove(s, j) \in Seq(Tasks) /\ Distinct(Remove(s, j))
                 /\ Elems(Remove(s, j)) = Elems(s) \ {s[j]} /\ s[j] \in Elems(s) /\ s # <<>>
      BY Zenon, <3>1, RemoveExact
    <3>2. i \in DOMAIN run_queue[v]
      BY Zenon, <1>1
    <3> QED BY Zenon, <2>1, <3>1, <3>2
  <2> QED BY Zenon, <1>1, <2>2
<1>7. status[t] = Queued(v)
  BY Zenon, <1>3, <1>6 DEF IInv, QueueExact
<1>8. u # NoTask /\ call[u].pc = "move"
  BY Zenon, <1>2, <1>3, TasksAssumption
<1> HIDE DEF u, a, t, v, b, q
<1>9. /\ \A d \in CPUs : pc[d] \in Holding => hand[d] # t
      /\ \A w \in Tasks : call[w].pc = "detached" => call[w].task # t
  BY Zenon, <1>3, <1>7, Unheld
<1>10. \A w \in Tasks : call'[w] = IF w = u THEN b ELSE call[w]
  BY Zenon, <1>2, <1>5
<1>t. TypeOK'
  BY Zenon, <1>2, <1>3, <1>4, <1>5, <1>6, StatusTypes DEF IInv, TypeOK
<1>q. QueueExact'
  BY Zenon, <1>2, <1>3, <1>5, <1>6, <1>7, StatusDistinct DEF IInv, QueueExact
<1>h. HoldExact'
  <2>1. ASSUME NEW d \in CPUs, pc[d] \in Holding
        PROVE  hand[d] \in Tasks /\ status'[hand[d]] = status[hand[d]]
    BY Zenon, <1>2, <1>5, <1>9, <2>1 DEF IInv, HoldExact
  <2>2. ASSUME NEW x \in Tasks, NEW d \in CPUs, status'[x] \in {Running(d), Blocking(d)}
        PROVE  status[x] \in {Running(d), Blocking(d)}
    BY Zenon, <1>2, <1>5, <2>2, StatusDistinct
  <2>3. UNCHANGED <<pc, hand>>
    BY Zenon, <1>2
  <2>4. HoldExact
    BY Zenon DEF IInv
  <2> QED BY Zenon, <2>1, <2>2, <2>3, <2>4, HoldingNames DEF HoldExact
<1>o. HoldOnce'
  <2>1. \A w \in Tasks : call'[w].pc = "detached" =>
          \/ w = u /\ call'[w].task = t
          \/ call[w].pc = "detached" /\ call'[w].task = call[w].task
    BY Zenon, <1>4, <1>10
  <2>2. UNCHANGED <<pc, hand>>
    BY Zenon, <1>2
  <2> QED BY Zenon, <1>9, <2>1, <2>2 DEF IInv, HoldOnce
<1>m. MigratingHasMover'
  <2>1. ASSUME NEW w \in Tasks, call'[w].pc = "detached"
        PROVE  status'[call'[w].task] = Migrating
    <3>1. CASE w = u
      BY Zenon, <1>2, <1>3, <1>4, <1>5, <1>10, <3>1
    <3>2. CASE w # u
      <4>1. call'[w] = call[w] /\ call[w].task \in Tasks /\ call[w].task # t
        BY Zenon, <1>9, <1>10, <2>1, <3>2 DEF IInv, CallExact
      <4> QED BY Zenon, <1>2, <1>5, <2>1, <4>1 DEF IInv, MigratingHasMover
    <3> QED BY Zenon, <3>1, <3>2
  <2>2. ASSUME NEW x \in Tasks, status'[x] = Migrating
        PROVE  \/ \E d \in CPUs : pc'[d] = "steal" /\ hand'[d] = x
               \/ \E w \in Tasks : call'[w].pc = "detached" /\ call'[w].task = x
    <3>1. CASE x = t
      BY Zenon, <1>3, <1>4, <1>10, <3>1
    <3>2. CASE x # t
      <4>1. status[x] = Migrating
        BY Zenon, <1>2, <1>5, <2>2, <3>2
      <4>2. \A w \in Tasks : call[w].pc = "detached" => call'[w] = call[w]
        BY Zenon, <1>8, <1>10
      <4>3. \/ \E d \in CPUs : pc[d] = "steal" /\ hand[d] = x
            \/ \E w \in Tasks : call[w].pc = "detached" /\ call[w].task = x
        BY Zenon, <4>1 DEF IInv, MigratingHasMover
      <4>4. UNCHANGED <<pc, hand>>
        BY Zenon, <1>2
      <4> QED BY Zenon, <4>2, <4>3, <4>4
    <3> QED BY Zenon, <3>1, <3>2
  <2> QED BY Zenon, <2>1, <2>2 DEF MigratingHasMover
<1>g. RegistryExact'
  BY Zenon, <1>2, <1>3, <1>5, <1>7, StatusTags DEF IInv, RegistryExact
<1>r. RequestExact'
  <2>1. status[t].tag = "Queued"
    BY Zenon, <1>3, <1>7, StatusTags
  <2>2. request[t] = NoTask
    BY Zenon, <1>3, <2>1 DEF IInv, RequestExact
  <2>3. \A x \in Tasks : x # t => status'[x] = status[x]
    BY Zenon, <1>2, <1>5
  <2>4. /\ \A x \in Tasks : call'[x].pc = "wait" => call'[x] = call[x]
        /\ \A x \in Tasks : call[x].pc = "wait" => call'[x] = call[x]
    BY Zenon, <1>4, <1>8, <1>10
  <2> QED BY Zenon, <1>2, <1>5, <2>2, <2>3, <2>4, RequestKept DEF IInv
<1>a. AffinityRespected'
  BY Zenon, <1>2, <1>3, <1>5, StatusDistinct DEF IInv, AffinityRespected
<1>n. NoStrandedTask'
  BY Zenon, <1>2, <1>3, <1>5, <1>6 DEF IInv, NoStrandedTask
<1>c. CallExact'
  BY Zenon, <1>3, <1>4, <1>10 DEF IInv, CallExact
<1> QED BY Zenon, <1>t, <1>q, <1>h, <1>o, <1>m, <1>g, <1>r, <1>a, <1>n, <1>c DEF IInv

(* Attaching the detached task to its new queue keeps the invariant. *)
LEMMA QueuedAttachInv ==
  ASSUME IInv, NEW c \in CPUs, QueuedAttach(c)
  PROVE  IInv'
<1> DEFINE u == hand[c]
           a == call[u]
           t == a.task
           v == a.tgt
           b == [NoCall EXCEPT !.ret = "ok", !.stored = TRUE]
           q == Append(run_queue[v], t)
<1>1. /\ pc[c] = "run" /\ a.pc = "detached"
      /\ cpus_allowed' = [cpus_allowed EXCEPT ![t] = a.mask]
      /\ run_queue' = [run_queue EXCEPT ![v] = q]
      /\ status' = [status EXCEPT ![t] = Queued(v)] /\ call' = [call EXCEPT ![u] = b]
      /\ Notify(c, {v})
      /\ UNCHANGED <<interruptible, local_zombies, migration_target, request,
           pc, hand, victims, ipi, need_resched, calls>>
  BY Zenon DEF QueuedAttach, At, Runs, Succeed, StoreMask, PushBack, SetStatus, Update, cpuVars
<1>2. u \in Tasks /\ a \in Call /\ t \in Tasks /\ v \in a.mask
  BY Zenon, <1>1, CallerFacts DEF IInv, CallExact
<1>3. a.mask \in SUBSET CPUs /\ v \in CPUs
  BY Zenon, <1>2 DEF Call
<1>4. b \in Call /\ b.pc = "none"
  BY Zenon, ReturnType
<1>5. /\ call \in [Tasks -> Call] /\ request \in [Tasks -> Tasks \cup {NoTask}]
      /\ status \in [Tasks -> TaskStatus] /\ run_queue \in [CPUs -> Seq(Tasks)]
      /\ cpus_allowed \in [Tasks -> SUBSET CPUs]
  BY Zenon DEF IInv, TypeOK
<1>6. status[t] = Migrating
  BY Zenon, <1>1, <1>2 DEF IInv, MigratingHasMover
<1>7. q \in Seq(Tasks) /\ Distinct(q) /\ Elems(q) = Elems(run_queue[v]) \cup {t}
  <2>1. t \notin Elems(run_queue[v])
    <3>1. t \in Elems(run_queue[v]) => status[t] = Queued(v)
      BY Zenon, <1>2, <1>3 DEF IInv, QueueExact
    <3>2. Queued(v) # Migrating
      BY StatusDistinct
    <3> QED BY Zenon, <1>6, <3>1, <3>2
  <2>2. run_queue[v] \in Seq(Tasks) /\ Distinct(run_queue[v])
    BY Zenon, <1>3, <1>5 DEF IInv, QueueExact
  <2>3. ASSUME NEW s \in Seq(Tasks), NEW x \in Tasks, Distinct(s), x \notin Elems(s)
        PROVE  /\ Append(s, x) \in Seq(Tasks) /\ Distinct(Append(s, x))
               /\ Elems(Append(s, x)) = Elems(s) \cup {x}
    BY <2>3, AppendExact
  <2> QED BY Zenon, <1>2, <2>1, <2>2, <2>3
<1>8. /\ bell' \in [CPUs -> SUBSET CPUs] /\ \A d \in CPUs : bell[d] \subseteq bell'[d]
      /\ v # c => v \in bell'[c]
  BY <1>1, <1>3, NotifyFacts
<1>9. u # NoTask /\ call[u].pc = "detached" /\ call[u].task = t
  BY Zenon, <1>1, <1>2, TasksAssumption
<1> HIDE DEF u, a, t, v, b, q
<1>10. /\ \A d \in CPUs : pc[d] \in Holding => hand[d] # t
       /\ \A w \in Tasks : w # u /\ call[w].pc = "detached" => call[w].task # t
  BY Zenon, <1>2, <1>9 DEF IInv, HoldOnce
<1>11. \A w \in Tasks : call'[w] = IF w = u THEN b ELSE call[w]
  BY Zenon, <1>1, <1>5
<1>12. UNCHANGED <<pc, hand>>
  BY Zenon, <1>1
<1>13. /\ \A x \in Tasks : status'[x] = IF x = t THEN Queued(v) ELSE status[x]
       /\ \A d \in CPUs : run_queue'[d] = IF d = v THEN q ELSE run_queue[d]
  BY Zenon, <1>1, <1>5
<1>t. TypeOK'
  BY Zenon, <1>1, <1>2, <1>3, <1>4, <1>5, <1>7, <1>8, StatusTypes DEF IInv, TypeOK
<1>q. QueueExact'
  <2>1. QueueExact
    BY Zenon DEF IInv
  <2>2. ASSUME NEW d \in CPUs
        PROVE  Distinct(run_queue'[d])
    BY Zenon, <1>7, <1>13, <2>1 DEF QueueExact
  <2>3. ASSUME NEW d \in CPUs, NEW x \in Tasks
        PROVE  x \in Elems(run_queue'[d]) <=> status'[x] = Queued(d)
    <3>1. x \in Elems(run_queue[d]) <=> status[x] = Queued(d)
      BY Zenon, <2>1 DEF QueueExact
    <3>2. Queued(v) = Queued(d) => d = v
      BY Zenon, StatusDistinct
    <3>3. CASE x = t
      <4>1. status[t] # Queued(d)
        BY Zenon, <1>6, StatusDistinct
      <4> QED BY Zenon, <1>2, <1>7, <1>13, <3>1, <3>2, <3>3, <4>1
    <3>4. CASE x # t
      BY Zenon, <1>7, <1>13, <3>1, <3>4
    <3> QED BY Zenon, <3>3, <3>4
  <2> QED BY Zenon, <2>2, <2>3 DEF QueueExact
<1>h. HoldExact'
  BY SMTT(30), <1>2, <1>10, <1>12, <1>13, HoldingNames, StatusDistinct DEF IInv, HoldExact
<1>o. HoldOnce'
  <2>1. \A w \in Tasks : call'[w].pc = "detached" => call'[w] = call[w]
    BY Zenon, <1>4, <1>11
  <2> QED BY Zenon, <1>12, <2>1 DEF IInv, HoldOnce
<1>m. MigratingHasMover'
  <2>1. ASSUME NEW w \in Tasks, call'[w].pc = "detached"
        PROVE  status'[call'[w].task] = Migrating
    <3>1. w # u /\ call'[w] = call[w]
      BY Zenon, <1>4, <1>11, <2>1
    <3>2. call[w].pc = "detached" /\ call[w].task # t
      BY Zenon, <1>10, <2>1, <3>1
    <3>3. status[call[w].task] = Migrating
      BY Zenon, <3>2 DEF IInv, MigratingHasMover
    <3>4. call[w].task \in Tasks
      BY Zenon, <3>2 DEF IInv, CallExact
    <3> QED BY Zenon, <1>13, <3>1, <3>2, <3>3, <3>4
  <2>2. ASSUME NEW x \in Tasks, status'[x] = Migrating
        PROVE  \/ \E d \in CPUs : pc'[d] = "steal" /\ hand'[d] = x
               \/ \E w \in Tasks : call'[w].pc = "detached" /\ call'[w].task = x
    <3>1. x # t /\ status[x] = Migrating
      BY Zenon, <1>1, <1>2, <1>5, <2>2, StatusDistinct
    <3>2. \A w \in Tasks : call[w].pc = "detached" /\ call[w].task = x => call'[w] = call[w]
      BY Zenon, <1>9, <1>11, <3>1
    <3>3. \/ \E d \in CPUs : pc[d] = "steal" /\ hand[d] = x
          \/ \E w \in Tasks : call[w].pc = "detached" /\ call[w].task = x
      BY Zenon, <3>1 DEF IInv, MigratingHasMover
    <3> QED BY Zenon, <1>12, <3>2, <3>3
  <2> QED BY Zenon, <2>1, <2>2 DEF MigratingHasMover
<1>g. RegistryExact'
  BY Zenon, <1>1, <1>2, <1>5, <1>6, StatusTags DEF IInv, RegistryExact
<1>r. RequestExact'
  <2>1. request[t] = NoTask
    BY Zenon, <1>2, <1>6, StatusTags DEF IInv, RequestExact
  <2>2. /\ \A x \in Tasks : call'[x].pc = "wait" => call'[x] = call[x]
        /\ \A x \in Tasks : call[x].pc = "wait" => call'[x] = call[x]
    BY Zenon, <1>4, <1>9, <1>11
  <2> QED BY Zenon, <1>1, <1>5, <1>13, <2>1, <2>2, RequestKept DEF IInv
<1>a. AffinityRespected'
  <2>1. \A d \in CPUs : pc[d] \in {"steal", "claimed", "run", "sleep"}
          => hand[d] \in Tasks /\ hand[d] # t
    BY Zenon, <1>10, HoldingNames DEF IInv, HoldExact
  <2> QED BY Zenon, <1>1, <1>2, <1>3, <1>5, <2>1, StatusDistinct DEF IInv, AffinityRespected
<1>n. NoStrandedTask'
  BY Zenon, <1>1, <1>3, <1>5, <1>8 DEF IInv, NoStrandedTask
<1>c. CallExact'
  BY Zenon, <1>4, <1>11 DEF IInv, CallExact
<1> QED BY Zenon, <1>t, <1>q, <1>h, <1>o, <1>m, <1>g, <1>r, <1>a, <1>n, <1>c DEF IInv

=============================================================================
