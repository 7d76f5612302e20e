----------------------------- MODULE SchedProof -----------------------------
(***************************************************************************)
(* The scheduler core keeps its invariants for any number of CPUs, tasks   *)
(* and affinity calls: fetching, stealing, publishing, waking, leaving a   *)
(* stack, finishing a switch, the change of a task's own mask, and the     *)
(* theorems.                                                               *)
(***************************************************************************)
EXTENDS SchedFacts

(* Taking the head of the local queue keeps the invariant. *)
LEMMA FetchInv ==
  ASSUME IInv, NEW c \in CPUs, Fetch(c)
  PROVE  IInv'
<1>1. PICK i \in DOMAIN run_queue[c] :
        /\ TakeAt(c, i)
        /\ SetStatus(run_queue[c][i], Running(c))
        /\ hand' = [hand EXCEPT ![c] = run_queue[c][i]]
  BY Zenon DEF Fetch
<1> DEFINE t == run_queue[c][i]
           q == Remove(run_queue[c], i)
<1>2. /\ run_queue[c] \in Seq(Tasks) /\ Distinct(run_queue[c])
  BY Zenon DEF IInv, TypeOK, QueueExact
<1>3. /\ q \in Seq(Tasks) /\ Distinct(q)
      /\ Elems(q) = Elems(run_queue[c]) \ {t}
      /\ t \in Tasks /\ t \in Elems(run_queue[c]) /\ run_queue[c] # <<>>
  BY Zenon, <1>1, <1>2, RemoveExact
<1>4. status[t] = Queued(c)
  BY Zenon, <1>3 DEF IInv, QueueExact
<1>5. /\ pc[c] = "fetch" /\ pc' = [pc EXCEPT ![c] = "claimed"]
      /\ run_queue' = [run_queue EXCEPT ![c] = q]
      /\ status' = [status EXCEPT ![t] = Running(c)]
      /\ hand' = [hand EXCEPT ![c] = t]
      /\ UNCHANGED <<interruptible, local_zombies, cpus_allowed, migration_target, request,
           victims, ipi, need_resched, bell, call, calls>>
  BY Zenon, <1>1 DEF Fetch, TakeAt, SetStatus, Goto, maskVars, irqVars, callVars
<1> HIDE DEF t, q
<1>6. /\ \A d \in CPUs : pc[d] \in Holding => hand[d] # t
      /\ \A u \in Tasks : call[u].pc = "detached" => call[u].task # t
  BY Zenon, <1>3, <1>4, Unheld
<1>7. /\ pc \in [CPUs -> CpuPc] /\ status \in [Tasks -> TaskStatus]
      /\ hand \in [CPUs -> Tasks \cup {NoTask}] /\ run_queue \in [CPUs -> Seq(Tasks)]
  BY Zenon DEF IInv, TypeOK
<1>8. "claimed" \in Holding /\ "fetch" \notin Holding /\ Holding \subseteq CpuPc
  BY Zenon DEF Holding, OnStack, CpuPc
<1> USE <1>3, <1>5, <1>7, <1>8, StatusDistinct DEF IInv
<1>t. TypeOK'
  BY Zenon, StatusTypes DEF TypeOK
<1>q. QueueExact'
  BY Zenon, <1>4 DEF QueueExact
<1>h. HoldExact'
  BY <1>4, <1>6 DEF HoldExact
<1>o. HoldOnce'
  BY Zenon, <1>6 DEF HoldOnce
<1>m. MigratingHasMover'
  BY <1>4, <1>6 DEF MigratingHasMover
<1>g. RegistryExact'
  BY Zenon, <1>4, StatusTags DEF RegistryExact
<1>r. RequestExact'
  BY <1>4, StatusTags DEF RequestExact
<1>a. AffinityRespected'
  BY Zenon, <1>4 DEF AffinityRespected
<1>n. NoStrandedTask'
  BY Zenon DEF NoStrandedTask
<1>c. CallExact'
  BY Zenon DEF CallExact
<1> QED BY Zenon, <1>t, <1>q, <1>h, <1>o, <1>m, <1>g, <1>r, <1>a, <1>n, <1>c

(* Claiming a task from a victim queue keeps the invariant. *)
LEMMA StealClaimInv ==
  ASSUME IInv, NEW c \in CPUs, NEW v \in CPUs, StealClaim(c, v)
  PROVE  IInv'
<1>1. PICK i \in Stealable(c, v) :
        /\ TakeAt(v, i)
        /\ SetStatus(run_queue[v][i], Migrating)
        /\ hand' = [hand EXCEPT ![c] = run_queue[v][i]]
  BY Zenon DEF StealClaim
<1> DEFINE t == run_queue[v][i]
           q == Remove(run_queue[v], i)
<1>2. /\ run_queue[v] \in Seq(Tasks) /\ Distinct(run_queue[v])
      /\ i \in DOMAIN run_queue[v] /\ c \in cpus_allowed[t]
  BY Zenon DEF IInv, TypeOK, QueueExact, Stealable
<1>3. /\ q \in Seq(Tasks) /\ Distinct(q)
      /\ Elems(q) = Elems(run_queue[v]) \ {t}
      /\ t \in Tasks /\ t \in Elems(run_queue[v]) /\ run_queue[v] # <<>>
  BY Zenon, <1>2, RemoveExact
<1>4. status[t] = Queued(v)
  BY Zenon, <1>3 DEF IInv, QueueExact
<1>5. /\ pc[c] = "scan" /\ pc' = [pc EXCEPT ![c] = "steal"]
      /\ run_queue' = [run_queue EXCEPT ![v] = q]
      /\ status' = [status EXCEPT ![t] = Migrating]
      /\ hand' = [hand EXCEPT ![c] = t]
      /\ victims' = [victims EXCEPT ![c] = {}]
      /\ UNCHANGED <<interruptible, local_zombies, cpus_allowed, migration_target, request,
           ipi, need_resched, bell, call, calls>>
  BY Zenon, <1>1 DEF StealClaim, TakeAt, SetStatus, Goto, maskVars, irqVars, callVars
<1>x. c \in cpus_allowed[t]
  BY Zenon, <1>2
<1> HIDE DEF t, q
<1>6. /\ \A d \in CPUs : pc[d] \in Holding => hand[d] # t
      /\ \A u \in Tasks : call[u].pc = "detached" => call[u].task # t
  BY Zenon, <1>3, <1>4, Unheld
<1>7. /\ pc \in [CPUs -> CpuPc] /\ status \in [Tasks -> TaskStatus]
      /\ hand \in [CPUs -> Tasks \cup {NoTask}] /\ run_queue \in [CPUs -> Seq(Tasks)]
  BY Zenon DEF IInv, TypeOK
<1>8. "steal" \in Holding /\ "scan" \notin Holding /\ Holding \subseteq CpuPc
  BY Zenon DEF Holding, OnStack, CpuPc
<1> USE <1>3, <1>5, <1>7, <1>8, StatusDistinct DEF IInv
<1>t. TypeOK'
  BY Zenon, StatusTypes DEF TypeOK
<1>q. QueueExact'
  BY Zenon, <1>4 DEF QueueExact
<1>h. HoldExact'
  BY SMTT(30), <1>4, <1>6 DEF HoldExact
<1>o. HoldOnce'
  BY Zenon, <1>6 DEF HoldOnce
<1>m. MigratingHasMover'
  BY SMTT(30), <1>4, <1>6 DEF MigratingHasMover
<1>g. RegistryExact'
  BY Zenon, <1>4, StatusTags DEF RegistryExact
<1>r. RequestExact'
  BY SMTT(30), <1>4, StatusTags DEF RequestExact
<1>a. AffinityRespected'
  BY Zenon, <1>4, <1>x DEF AffinityRespected
<1>n. NoStrandedTask'
  BY Zenon DEF NoStrandedTask
<1>c. CallExact'
  BY Zenon DEF CallExact
<1> QED BY Zenon, <1>t, <1>q, <1>h, <1>o, <1>m, <1>g, <1>r, <1>a, <1>n, <1>c

(* Turning a stolen Migrating task into a Running one keeps the invariant. *)
LEMMA StealFinishInv ==
  ASSUME IInv, NEW c \in CPUs, StealFinish(c)
  PROVE  IInv'
<1> DEFINE t == hand[c]
<1>1. /\ pc[c] = "steal" /\ pc' = [pc EXCEPT ![c] = "claimed"]
      /\ status' = [status EXCEPT ![t] = Running(c)]
      /\ UNCHANGED <<interruptible, run_queue, local_zombies, cpus_allowed, migration_target,
           request, hand, victims, ipi, need_resched, bell, call, calls>>
  BY Zenon DEF StealFinish, SetStatus, Goto, maskVars, irqVars, callVars
<1>2. "claimed" \in Holding /\ "steal" \in Holding /\ Holding \subseteq CpuPc
  BY Zenon DEF Holding, OnStack, CpuPc
<1>3. t \in Tasks /\ status[t] = Migrating
  BY Zenon, <1>1, <1>2 DEF IInv, HoldExact
<1>4. /\ \A d \in CPUs : pc[d] \in Holding /\ hand[d] = t => d = c
      /\ \A u \in Tasks : call[u].pc = "detached" => call[u].task # t
  BY Zenon, <1>1, <1>2 DEF IInv, HoldOnce
<1>5. /\ pc \in [CPUs -> CpuPc] /\ status \in [Tasks -> TaskStatus]
  BY Zenon DEF IInv, TypeOK
<1>6. /\ \A d \in CPUs : pc'[d] \in Holding <=> pc[d] \in Holding
  BY Zenon, <1>1, <1>2, <1>5
<1> USE <1>1, <1>2, <1>3, <1>5, StatusDistinct DEF IInv
<1>t. TypeOK'
  BY Zenon, StatusTypes DEF TypeOK
<1>q. QueueExact'
  BY Zenon DEF QueueExact
<1>h. HoldExact'
  <2> HIDE DEF t
  <2>1. \A d \in CPUs \ {c} : pc[d] \in Holding => hand[d] # t
    BY Zenon, <1>4
  <2>2. \A d \in CPUs : pc[d] \in {"steal", "claimed", "run", "mig", "sleep", "dead", "out"}
          => pc[d] \in Holding
    BY Zenon DEF Holding, OnStack
  <2> QED BY SMTT(30), <2>1, <2>2, <1>6 DEF HoldExact, t
<1>o. HoldOnce'
  BY Zenon, <1>6 DEF HoldOnce
<1>m. MigratingHasMover'
  BY <1>4 DEF MigratingHasMover
<1>g. RegistryExact'
  BY Zenon, StatusTags DEF RegistryExact
<1>r. RequestExact'
  BY Zenon, StatusTags DEF RequestExact
<1>a. AffinityRespected'
  BY Zenon DEF AffinityRespected
<1>n. NoStrandedTask'
  BY Zenon DEF NoStrandedTask
<1>c. CallExact'
  BY Zenon DEF CallExact
<1> QED BY Zenon, <1>t, <1>q, <1>h, <1>o, <1>m, <1>g, <1>r, <1>a, <1>n, <1>c

(* A task that is in nobody's hands is queued by CPU c on target. *)
LEMMA EnqueueStep ==
  ASSUME IInv, NEW c \in CPUs, NEW t \in Tasks, NEW target \in CPUs, NEW q \in Seq(Tasks),
         status[t] \in {New, Blocked}, pc[c] \in {"run", "top"},
         Distinct(q), Elems(q) = Elems(run_queue[target]) \cup {t},
         run_queue' = [run_queue EXCEPT ![target] = q],
         SetStatus(t, Queued(target)), Notify(c, {target}),
         interruptible' = interruptible \ {t},
         cpus_allowed' \in [Tasks -> SUBSET CPUs], target \in cpus_allowed'[t],
         \A x \in Tasks \ {t} : cpus_allowed'[x] = cpus_allowed[x],
         UNCHANGED <<local_zombies, migration_target, request, pc, hand, victims,
           ipi, need_resched, call, calls>>
  PROVE  IInv'
<1>1. status' = [status EXCEPT ![t] = Queued(target)]
  BY Zenon DEF SetStatus
<1>2. /\ bell' \in [CPUs -> SUBSET CPUs] /\ \A d \in CPUs : bell[d] \subseteq bell'[d]
      /\ target # c => target \in bell'[c]
  BY SMTT(30), NotifyFacts
<1>3. /\ \A d \in CPUs : pc[d] \in Holding => hand[d] # t
      /\ \A u \in Tasks : call[u].pc = "detached" => call[u].task # t
  BY Zenon, Unheld
<1>4. status \in [Tasks -> TaskStatus] /\ run_queue \in [CPUs -> Seq(Tasks)]
  BY Zenon DEF IInv, TypeOK
<1>5. \A d \in CPUs : pc[d] \in {"steal", "claimed", "run", "mig", "sleep", "dead", "out"}
        => pc[d] \in Holding
  BY Zenon DEF Holding, OnStack
<1>6. \A d \in CPUs : pc[d] \in Holding => hand[d] \in Tasks
  BY Zenon DEF IInv, HoldExact
<1> USE <1>1, <1>4, StatusDistinct DEF IInv
<1>t. TypeOK'
  BY Zenon, <1>2, StatusTypes DEF TypeOK
<1>q. QueueExact'
  BY SMTT(30) DEF QueueExact
<1>h. HoldExact'
  BY SMTT(30), <1>3, <1>5 DEF HoldExact
<1>o. HoldOnce'
  BY Zenon DEF HoldOnce
<1>m. MigratingHasMover'
  BY SMTT(30), <1>3 DEF MigratingHasMover
<1>g. RegistryExact'
  BY Zenon, StatusTags DEF RegistryExact
<1>r. RequestExact'
  BY SMTT(30), StatusTags DEF RequestExact
<1>a. AffinityRespected'
  BY Zenon, <1>3, <1>5, <1>6 DEF AffinityRespected
<1>n. NoStrandedTask'
  BY Zenon, <1>2 DEF NoStrandedTask
<1>c. CallExact'
  BY Zenon DEF CallExact
<1> QED BY Zenon, <1>t, <1>q, <1>h, <1>o, <1>m, <1>g, <1>r, <1>a, <1>n, <1>c

(* Publishing a new task keeps the invariant. *)
LEMMA PublishInv ==
  ASSUME IInv, NEW c \in CPUs, NEW t \in Tasks, NEW target \in CPUs, Publish(c, t, target)
  PROVE  IInv'
<1> DEFINE q == Append(run_queue[target], t)
           m == cpus_allowed[hand[c]]
<1>1. /\ pc[c] = "run" /\ status[t] = New /\ target \in m
      /\ cpus_allowed' = [cpus_allowed EXCEPT ![t] = m]
      /\ run_queue' = [run_queue EXCEPT ![target] = q]
      /\ SetStatus(t, Queued(target)) /\ Notify(c, {target})
      /\ UNCHANGED <<interruptible, local_zombies, migration_target, request, pc, hand,
           victims, ipi, need_resched, call, calls>>
  BY Zenon DEF Publish, Free, Runs, StoreMask, PushBack, cpuVars, callVars
<1>2. hand[c] \in Tasks /\ m \in SUBSET CPUs
  BY Zenon, <1>1, CallerFacts DEF IInv, TypeOK
<1>3. /\ run_queue[target] \in Seq(Tasks) /\ Distinct(run_queue[target])
      /\ t \notin Elems(run_queue[target])
  BY Zenon, <1>1, StatusDistinct DEF IInv, TypeOK, QueueExact
<1>4. q \in Seq(Tasks) /\ Distinct(q) /\ Elems(q) = Elems(run_queue[target]) \cup {t}
  BY <1>3, AppendExact
<1>5. interruptible' = interruptible \ {t}
  <2>1. t \notin interruptible
    BY Zenon, <1>1, StatusTags DEF IInv, RegistryExact
  <2> QED BY Zenon, <1>1, <2>1
<1> HIDE DEF m, q
<1>6. /\ cpus_allowed' \in [Tasks -> SUBSET CPUs] /\ target \in cpus_allowed'[t]
      /\ \A x \in Tasks \ {t} : cpus_allowed'[x] = cpus_allowed[x]
  BY Zenon, <1>1, <1>2 DEF IInv, TypeOK
<1> QED BY Zenon, <1>1, <1>4, <1>5, <1>6, EnqueueStep

(* Waking a Blocked task keeps the invariant. *)
LEMMA WakeBlockedInv ==
  ASSUME IInv, NEW c \in CPUs, NEW t \in Tasks, NEW target \in CPUs, WakeBlocked(c, t, target)
  PROVE  IInv'
<1> DEFINE q == <<t>> \o run_queue[target]
<1>1. /\ pc[c] \in {"run", "top"} /\ status[t] = Blocked /\ target \in cpus_allowed[t]
      /\ run_queue' = [run_queue EXCEPT ![target] = q]
      /\ SetStatus(t, Queued(target)) /\ Notify(c, {target})
      /\ interruptible' = interruptible \ {t}
      /\ UNCHANGED <<local_zombies, cpus_allowed, migration_target, request, pc, hand,
           victims, ipi, need_resched, call, calls>>
  BY Zenon DEF WakeBlocked, PushFront, maskVars, cpuVars, callVars
<1>2. /\ run_queue[target] \in Seq(Tasks) /\ Distinct(run_queue[target])
      /\ t \notin Elems(run_queue[target])
  BY Zenon, <1>1, StatusDistinct DEF IInv, TypeOK, QueueExact
<1>3. q \in Seq(Tasks) /\ Distinct(q) /\ Elems(q) = Elems(run_queue[target]) \cup {t}
  BY <1>2, FrontExact
<1>4. /\ cpus_allowed' \in [Tasks -> SUBSET CPUs] /\ target \in cpus_allowed'[t]
      /\ \A x \in Tasks \ {t} : cpus_allowed'[x] = cpus_allowed[x]
  BY Zenon, <1>1 DEF IInv, TypeOK
<1> HIDE DEF q
<1> QED BY Zenon, <1>1, <1>3, <1>4, EnqueueStep

(* Cancelling a sleep that has not left its stack keeps the invariant. *)
LEMMA WakeBlockingInv ==
  ASSUME IInv, NEW c \in CPUs, NEW t \in Tasks, WakeBlocking(c, t)
  PROVE  IInv'
<1> DEFINE o == status[t].cpu
<1>1. /\ status[t].tag = "Blocking"
      /\ status' = [status EXCEPT ![t] = Running(o)]
      /\ interruptible' = interruptible \ {t}
      /\ UNCHANGED <<run_queue, local_zombies, cpus_allowed, migration_target, request,
           pc, hand, victims, ipi, need_resched, bell, call, calls>>
  BY Zenon DEF WakeBlocking, SetStatus, maskVars, cpuVars, irqVars, callVars
<1>2. status \in [Tasks -> TaskStatus]
  BY Zenon DEF IInv, TypeOK
<1>3. o \in CPUs /\ status[t] = Blocking(o)
  BY Zenon, <1>1, <1>2, StatusByTag
<1> HIDE DEF o
<1>4. /\ hand[o] = t /\ pc[o] \in {"claimed", "run", "mig", "sleep", "out"}
      /\ \A d \in CPUs : pc[d] \in Holding /\ hand[d] = t => d = o
      /\ \A u \in Tasks : call[u].pc = "detached" => call[u].task # t
  BY Zenon, <1>3, HeldBy
<1>5. \A d \in CPUs : pc[d] \in {"steal", "claimed", "run", "mig", "sleep", "dead", "out"}
        => pc[d] \in Holding
  BY Zenon DEF Holding, OnStack
<1> USE <1>1, <1>2, <1>3, StatusDistinct DEF IInv
<1>t. TypeOK'
  BY Zenon, StatusTypes DEF TypeOK
<1>q. QueueExact'
  BY SMTT(30) DEF QueueExact
<1>h. HoldExact'
  <2>1. \A d \in CPUs : pc[d] \in {"steal", "dead"} => hand[d] # t
    BY Zenon, <1>4, <1>5
  <2>2. \A d \in CPUs : pc[d] \in {"claimed", "run", "mig", "sleep", "out"} /\ d # o
          => hand[d] # t
    BY Zenon, <1>4, <1>5
  <2>3. pc[o] \in Holding
    BY Zenon, <1>4, <1>5
  <2> QED BY SMTT(30), <1>4, <2>1, <2>2, <2>3 DEF HoldExact
<1>o. HoldOnce'
  BY Zenon DEF HoldOnce
<1>m. MigratingHasMover'
  BY SMTT(30), <1>4 DEF MigratingHasMover
<1>g. RegistryExact'
  BY Zenon, StatusTags DEF RegistryExact
<1>r. RequestExact'
  BY Zenon, StatusTags DEF RequestExact
<1>a. AffinityRespected'
  BY Zenon DEF AffinityRespected
<1>n. NoStrandedTask' /\ CallExact'
  BY Zenon DEF NoStrandedTask, CallExact
<1> QED BY Zenon, <1>t, <1>q, <1>h, <1>o, <1>m, <1>g, <1>r, <1>a, <1>n

(* begin_interruptible_sleep and mark_zombie: the current task gives up     *)
(* Running, together with the request in its slot.                          *)
LEMMA LeaveRunning ==
  ASSUME IInv, NEW c \in CPUs, NEW s, NEW where, pc[c] = "run",
         \/ /\ s = Blocking(c) /\ where = "sleep"
            /\ interruptible' = interruptible \cup {hand[c]}
         \/ /\ s = Zombie /\ where = "dead" /\ UNCHANGED interruptible,
         SetStatus(hand[c], s), Goto(c, where), Complete(hand[c], "Retry"),
         UNCHANGED <<run_queue, local_zombies, cpus_allowed, migration_target, hand,
           victims, ipi, need_resched, bell, calls>>
  PROVE  IInv'
<1> DEFINE t == hand[c]
<1>1. t \in Tasks /\ status[t] = Running(c)
  BY Zenon, CallerFacts
<1>2. status' = [status EXCEPT ![t] = s] /\ pc' = [pc EXCEPT ![c] = where]
  BY Zenon DEF SetStatus, Goto
<1>3. pc \in [CPUs -> CpuPc] /\ status \in [Tasks -> TaskStatus]
  BY Zenon DEF IInv, TypeOK
<1>4. /\ call' \in [Tasks -> Call] /\ request' = [request EXCEPT ![t] = NoTask]
      /\ \A u \in Tasks : call'[u].pc = call[u].pc /\ call'[u].task = call[u].task
  BY Zenon, <1>1, CompleteFacts
<1>5. RequestExact' /\ CallExact'
  BY Zenon, <1>1, <1>2, <1>3, CompleteFrame
<1>6. /\ \A d \in CPUs : pc[d] \in Holding /\ hand[d] = t => d = c
      /\ \A u \in Tasks : call[u].pc = "detached" => call[u].task # t
  BY Zenon, <1>1, HeldBy
<1>7. /\ s \in {Blocking(c), Zombie} /\ where \in {"sleep", "dead"}
      /\ s = Blocking(c) => where = "sleep" /\ interruptible' = interruptible \cup {t}
      /\ s = Zombie => where = "dead" /\ UNCHANGED interruptible
  BY Zenon, StatusDistinct
<1>8. \A d \in CPUs : pc'[d] \in Holding <=> pc[d] \in Holding
  BY Zenon, <1>2, <1>3, <1>7, HoldingNames
<1> USE <1>1, <1>2, <1>3, StatusDistinct DEF IInv
<1>t. TypeOK'
  BY <1>4, <1>7, StatusTypes, HoldingNames, TasksAssumption DEF TypeOK
<1>q. QueueExact'
  <2> HIDE DEF t
  <2>1. ASSUME NEW d \in CPUs, NEW x \in Tasks
        PROVE  status'[x] = Queued(d) <=> status[x] = Queued(d)
    <3>1. status'[t] # Queued(d) /\ status[t] # Queued(d)
      BY Zenon, <1>7
    <3>2. x # t => status'[x] = status[x]
      BY Zenon
    <3> QED BY Zenon, <3>1, <3>2
  <2>2. QueueExact /\ UNCHANGED run_queue
    BY Zenon
  <2> QED BY Zenon, <2>1, <2>2 DEF QueueExact
<1>h. HoldExact'
  <2> HIDE DEF t
  <2>1. \A d \in CPUs \ {c} : pc[d] \in Holding => hand[d] # t
    BY Zenon, <1>6
  <2>2. hand[c] = t
    BY Zenon DEF t
  <2>3. ASSUME NEW d \in CPUs
        PROVE  /\ pc'[d] \in Holding \cup {"late"} => hand[d] \in Tasks
               /\ pc'[d] = "steal" => status'[hand[d]] = Migrating
               /\ pc'[d] \in {"claimed", "run", "mig"} => status'[hand[d]] = Running(d)
               /\ pc'[d] = "sleep" => status'[hand[d]] \in {Running(d), Blocking(d)}
               /\ pc'[d] = "dead" => status'[hand[d]] = Zombie
               /\ pc'[d] = "out" => status'[hand[d]] \in {Running(d), Blocking(d), Zombie}
    <3>1. CASE d = c
      BY Zenon, <2>2, <3>1, <1>7
    <3>2. CASE d # c
      BY <2>1, <3>2, HoldingNames DEF HoldExact
    <3> QED BY Zenon, <3>1, <3>2
  <2>4. ASSUME NEW x \in Tasks, NEW d \in CPUs, status'[x] \in {Running(d), Blocking(d)}
        PROVE  pc'[d] \in Holding /\ hand[d] = x
    BY <2>2, <2>4, <1>7, <1>8, HoldingNames DEF HoldExact
  <2> QED BY <2>3, <2>4 DEF HoldExact
<1>o. HoldOnce'
  BY <1>4, <1>8 DEF HoldOnce
<1>m. MigratingHasMover'
  BY <1>4, <1>6, <1>7 DEF MigratingHasMover
<1>g. RegistryExact'
  <2>1. CASE s = Blocking(c)
    BY <2>1, <1>7, StatusTags DEF RegistryExact
  <2>2. CASE s = Zombie
    BY Zenon, <2>2, <1>7, StatusTags DEF RegistryExact
  <2> QED BY Zenon, <2>1, <2>2, <1>7
<1>a. AffinityRespected'
  BY Zenon, <1>7 DEF AffinityRespected
<1>n. NoStrandedTask'
  BY Zenon, <1>7 DEF NoStrandedTask
<1> QED BY Zenon, <1>t, <1>q, <1>h, <1>o, <1>m, <1>g, <1>5, <1>a, <1>n

(* Starting a sleep and becoming a zombie keep the invariant. *)
LEMMA LeaveActions ==
  ASSUME IInv, NEW c \in CPUs, BeginInterruptibleSleep(c) \/ MarkZombie(c)
  PROVE  IInv'
<1>1. CASE BeginInterruptibleSleep(c)
  BY Zenon, <1>1, LeaveRunning DEF BeginInterruptibleSleep, Free, Runs, irqVars
<1>2. CASE MarkZombie(c)
  BY Zenon, <1>2, LeaveRunning DEF MarkZombie, Free, Runs, irqVars
<1> QED BY Zenon, <1>1, <1>2

(* The task goes to HandoffTarget's queue with HandoffMask. *)
LEMMA FinishRunningInv ==
  ASSUME IInv, NEW c \in CPUs, FinishRunning(c)
  PROVE  IInv'
<1> DEFINE t == hand[c]
           target == HandoffTarget(c)
           m == HandoffMask(c)
           q == Append(run_queue[target], t)
<1>1. /\ pc[c] = "out" /\ status[t] = Running(c) /\ target \in m
      /\ cpus_allowed' = [cpus_allowed EXCEPT ![t] = m]
      /\ migration_target' = [migration_target EXCEPT ![t] = NoCpu]
      /\ status' = [status EXCEPT ![t] = Queued(target)]
      /\ run_queue' = [run_queue EXCEPT ![target] = q]
      /\ Complete(t, "Applied") /\ Notify(c, {target})
      /\ hand' = [hand EXCEPT ![c] = NoTask] /\ pc' = [pc EXCEPT ![c] = "top"]
      /\ UNCHANGED <<interruptible, local_zombies, victims, ipi, need_resched, calls>>
  BY Zenon DEF FinishRunning, StoreMask, SetStatus, PushBack, Goto
<1>2. t \in Tasks
  BY Zenon, <1>1, HoldStatus, HoldingNames
<1>3. m \in SUBSET CPUs
  <2>1. cpus_allowed[t] \in SUBSET CPUs
    BY Zenon, <1>2 DEF IInv, TypeOK
  <2>2. request[t] # NoTask => call[request[t]].mask \in SUBSET CPUs
    BY <1>2 DEF IInv, TypeOK, Call
  <2> QED BY Zenon, <2>1, <2>2 DEF HandoffMask
<1>4. target \in CPUs
  BY Zenon, <1>1, <1>3
<1>5. /\ run_queue[target] \in Seq(Tasks) /\ Distinct(run_queue[target])
      /\ t \notin Elems(run_queue[target])
  BY <1>1, <1>2, <1>4, StatusDistinct DEF IInv, TypeOK, QueueExact
<1>6. q \in Seq(Tasks) /\ Distinct(q) /\ Elems(q) = Elems(run_queue[target]) \cup {t}
  BY SMTT(30), <1>2, <1>5, AppendExact
<1>7. /\ call' \in [Tasks -> Call] /\ request' = [request EXCEPT ![t] = NoTask]
      /\ \A u \in Tasks : call'[u].pc = call[u].pc /\ call'[u].task = call[u].task
  BY Zenon, <1>1, <1>2, CompleteFacts
<1>8. /\ pc \in [CPUs -> CpuPc] /\ status \in [Tasks -> TaskStatus]
      /\ hand \in [CPUs -> Tasks \cup {NoTask}] /\ run_queue \in [CPUs -> Seq(Tasks)]
      /\ migration_target \in [Tasks -> CPUs \cup {NoCpu}]
      /\ cpus_allowed \in [Tasks -> SUBSET CPUs]
  BY Zenon DEF IInv, TypeOK
<1> HIDE DEF target, m, q
<1>9. RequestExact' /\ CallExact'
  BY Zenon, <1>1, <1>2, <1>8, CompleteFrame
<1>10. /\ bell' \in [CPUs -> SUBSET CPUs] /\ \A d \in CPUs : bell[d] \subseteq bell'[d]
       /\ target # c => target \in bell'[c]
  BY Zenon, <1>1, <1>4, NotifyFacts
<1>11. /\ \A d \in CPUs \ {c} : pc[d] \in Holding => hand[d] # t
       /\ \A u \in Tasks : call[u].pc = "detached" => call[u].task # t
  BY Zenon, <1>1, <1>2, HeldBy
<1>x. t = hand[c]
  OBVIOUS
<1> HIDE DEF t
<1>12. \A d \in CPUs : pc'[d] \in Holding => d # c /\ pc[d] = pc'[d] /\ hand'[d] = hand[d]
  BY Zenon, <1>1, <1>8, HoldingNames
<1>o. HoldOnce'
  BY <1>7, <1>12 DEF IInv, HoldOnce
<1>m. MigratingHasMover'
  <2>1. \A u \in Tasks : call'[u].pc = "detached" => status'[call'[u].task] = Migrating
    BY SMTT(30), <1>1, <1>2, <1>7, <1>8, <1>11 DEF IInv, MigratingHasMover
  <2>2. ASSUME NEW x \in Tasks, status'[x] = Migrating
        PROVE  \/ \E d \in CPUs : pc'[d] = "steal" /\ hand'[d] = x
               \/ \E u \in Tasks : call'[u].pc = "detached" /\ call'[u].task = x
    <3>1. status[x] = Migrating
      BY Zenon, <1>1, <1>2, <1>8, <2>2, StatusDistinct
    <3>2. \A d \in CPUs : pc[d] = "steal" => pc'[d] = "steal" /\ hand'[d] = hand[d]
      BY Zenon, <1>1, <1>8
    <3> QED BY <1>7, <3>1, <3>2 DEF IInv, MigratingHasMover
  <2> QED BY Zenon, <2>1, <2>2 DEF MigratingHasMover
<1> USE <1>1, <1>2, <1>4, <1>8, StatusDistinct, HoldingNames DEF IInv
<1>t. TypeOK'
  BY Zenon, <1>3, <1>6, <1>7, <1>10, StatusTypes, TasksAssumption DEF TypeOK
<1>q. QueueExact'
  BY SMTT(30), <1>6 DEF QueueExact
<1>h. HoldExact'
  <2>1. ASSUME NEW d \in CPUs \ {c}
        PROVE  pc'[d] = pc[d] /\ hand'[d] = hand[d]
               /\ (pc[d] \in Holding => status'[hand[d]] = status[hand[d]])
    BY <1>11
  <2>2. pc'[c] = "top"
    OBVIOUS
  <2>3. ASSUME NEW x \in Tasks, NEW d \in CPUs, status'[x] \in {Running(d), Blocking(d)}
        PROVE  pc'[d] \in Holding /\ hand'[d] = x
    <3>1. x # t /\ status[x] = status'[x]
      BY Zenon, <2>3
    <3>2. pc[d] \in Holding /\ hand[d] = x
      BY Zenon, <2>3, <3>1 DEF HoldExact
    <3>3. d # c
      BY Zenon, <3>1, <3>2, <1>x
    <3> QED BY Zenon, <2>1, <3>2, <3>3
  <2> QED BY SMTT(30), <2>1, <2>2, <2>3 DEF HoldExact
<1>g. RegistryExact'
  BY Zenon, StatusTags DEF RegistryExact
<1>a. AffinityRespected'
  <2>1. \A x \in Tasks, d \in CPUs : status'[x] = Queued(d) => d \in cpus_allowed'[x]
    BY Zenon DEF AffinityRespected
  <2>2. ASSUME NEW d \in CPUs, pc'[d] \in {"steal", "claimed", "run", "sleep"}
        PROVE  d \in cpus_allowed'[hand'[d]]
    <3>1. d # c /\ pc[d] = pc'[d] /\ hand'[d] = hand[d]
      BY Zenon, <2>2
    <3>2. hand[d] # t /\ hand[d] \in Tasks
      BY Zenon, <2>2, <3>1, <1>11 DEF HoldExact
    <3> QED BY Zenon, <2>2, <3>1, <3>2 DEF AffinityRespected
  <2> QED BY Zenon, <2>1, <2>2 DEF AffinityRespected
<1>n. NoStrandedTask'
  BY <1>10 DEF NoStrandedTask
<1> QED BY Zenon, <1>t, <1>q, <1>h, <1>o, <1>m, <1>g, <1>9, <1>a, <1>n

(* Finishing the switch of a Blocking task keeps the invariant. *)
LEMMA FinishBlockingInv ==
  ASSUME IInv, NEW c \in CPUs, FinishBlocking(c)
  PROVE  IInv'
<1> DEFINE t == hand[c]
<1>1. /\ pc[c] = "out" /\ status[t] = Blocking(c)
      /\ status' = [status EXCEPT ![t] = Blocked] /\ pc' = [pc EXCEPT ![c] = "late"]
      /\ UNCHANGED <<interruptible, run_queue, local_zombies, cpus_allowed, migration_target,
           request, hand, victims, ipi, need_resched, bell, call, calls>>
  BY Zenon DEF FinishBlocking, SetStatus, Goto, maskVars, irqVars, callVars
<1>2. t \in Tasks
  BY Zenon, <1>1, HoldStatus, HoldingNames
<1>3. pc \in [CPUs -> CpuPc] /\ status \in [Tasks -> TaskStatus]
  BY Zenon DEF IInv, TypeOK
<1>4. /\ \A d \in CPUs \ {c} : pc[d] \in Holding => hand[d] # t
      /\ \A u \in Tasks : call[u].pc = "detached" => call[u].task # t
  BY Zenon, <1>1, <1>2, HeldBy
<1>x. t = hand[c]
  OBVIOUS
<1> HIDE DEF t
<1> USE <1>1, <1>2, <1>3, StatusDistinct, HoldingNames DEF IInv
<1>t. TypeOK'
  BY Zenon, StatusTypes DEF TypeOK
<1>q. QueueExact'
  BY DEF QueueExact
<1>h. HoldExact'
  <2>1. ASSUME NEW d \in CPUs \ {c}
        PROVE  pc'[d] = pc[d] /\ (pc[d] \in Holding => status'[hand[d]] = status[hand[d]])
    BY <1>4
  <2>2. pc'[c] = "late" /\ hand[c] \in Tasks
    BY Zenon, <1>x
  <2>3. ASSUME NEW x \in Tasks, NEW d \in CPUs, status'[x] \in {Running(d), Blocking(d)}
        PROVE  pc'[d] \in Holding /\ hand[d] = x
    <3>1. x # t /\ status[x] = status'[x]
      BY Zenon, <2>3
    <3>2. pc[d] \in Holding /\ hand[d] = x
      BY Zenon, <2>3, <3>1 DEF HoldExact
    <3> QED BY Zenon, <2>1, <3>1, <3>2, <1>x
  <2> QED BY <2>1, <2>2, <2>3 DEF HoldExact
<1>o. HoldOnce'
  BY Zenon DEF HoldOnce
<1>m. MigratingHasMover'
  BY <1>4 DEF MigratingHasMover
<1>g. RegistryExact'
  BY SMTT(30), StatusTags DEF RegistryExact
<1>r. RequestExact'
  BY StatusTags DEF RequestExact
<1>a. AffinityRespected'
  BY Zenon DEF AffinityRespected
<1>n. NoStrandedTask' /\ CallExact'
  BY Zenon DEF NoStrandedTask, CallExact
<1> QED BY Zenon, <1>t, <1>q, <1>h, <1>o, <1>m, <1>g, <1>r, <1>a, <1>n

(* Dropping a target or entering the zombie queue: the CPU lets go of a    *)
(* task that is Blocked, queued by a waker, or Zombie.                     *)
LEMMA LetGo ==
  ASSUME IInv, NEW c \in CPUs,
         pc[c] = "late" \/ (pc[c] = "out" /\ status[hand[c]] = Zombie),
         migration_target' = [migration_target EXCEPT ![hand[c]] = NoCpu],
         hand' = [hand EXCEPT ![c] = NoTask], Goto(c, "top"),
         local_zombies' \in [CPUs -> SUBSET Tasks],
         UNCHANGED <<status, interruptible, run_queue, cpus_allowed, request, victims,
           ipi, need_resched, bell, call, calls>>
  PROVE  IInv'
<1>1. /\ pc \in [CPUs -> CpuPc] /\ hand \in [CPUs -> Tasks \cup {NoTask}]
      /\ migration_target \in [Tasks -> CPUs \cup {NoCpu}]
  BY Zenon DEF IInv, TypeOK
<1>2. pc' = [pc EXCEPT ![c] = "top"]
  BY Zenon DEF Goto
<1>3. \A d \in CPUs : pc'[d] \in Holding => d # c /\ pc[d] = pc'[d] /\ hand'[d] = hand[d]
  BY Zenon, <1>1, <1>2, HoldingNames
<1>4. \A d \in CPUs \ {c} : pc'[d] = pc[d] /\ hand'[d] = hand[d]
  BY Zenon, <1>1, <1>2
<1>5. hand[c] \in Tasks
  BY Zenon, HoldingNames DEF IInv, HoldExact
<1> USE <1>1, <1>2, HoldingNames DEF IInv
<1>t. TypeOK'
  BY Zenon, CpusAssumption, TasksAssumption DEF TypeOK
<1>q. QueueExact' /\ RegistryExact' /\ CallExact'
  BY Zenon DEF QueueExact, RegistryExact, CallExact
<1>h. HoldExact'
  <2>1. ASSUME NEW x \in Tasks, NEW d \in CPUs, status[x] \in {Running(d), Blocking(d)}
        PROVE  pc'[d] \in Holding /\ hand'[d] = x
    <3>1. pc[d] \in Holding /\ hand[d] = x
      BY Zenon, <2>1 DEF HoldExact
    <3>2. d # c
      BY Zenon, <2>1, <3>1, StatusDistinct
    <3> QED BY Zenon, <1>4, <3>1, <3>2
  <2> QED BY <1>4, <2>1 DEF HoldExact
<1>o. HoldOnce'
  BY <1>3 DEF HoldOnce
<1>m. MigratingHasMover'
  BY Zenon, <1>4 DEF MigratingHasMover
<1>r. RequestExact'
  BY SMTT(30), <1>5 DEF RequestExact
<1>a. AffinityRespected'
  BY Zenon, <1>4 DEF AffinityRespected
<1>n. NoStrandedTask'
  BY Zenon DEF NoStrandedTask
<1> QED BY Zenon, <1>t, <1>q, <1>h, <1>o, <1>m, <1>r, <1>a, <1>n

(* Finishing the switch of a cancelled sleeper or of a zombie keeps the *)
(* invariant.                                                           *)
LEMMA LetGoActions ==
  ASSUME IInv, NEW c \in CPUs, DropTarget(c) \/ FinishZombie(c)
  PROVE  IInv'
<1>1. CASE DropTarget(c)
  <2>1. local_zombies' \in [CPUs -> SUBSET Tasks]
    BY Zenon, <1>1 DEF DropTarget, ownVars, IInv, TypeOK
  <2> QED BY Zenon, <1>1, <2>1, LetGo DEF DropTarget, ownVars, irqVars, callVars
<1>2. CASE FinishZombie(c)
  <2>1. hand[c] \in Tasks
    BY Zenon, <1>2, HoldingNames, HoldStatus DEF FinishZombie
  <2>2. local_zombies' \in [CPUs -> SUBSET Tasks]
    BY Zenon, <1>2, <2>1 DEF FinishZombie, IInv, TypeOK
  <2> QED BY Zenon, <1>2, <2>2, LetGo DEF FinishZombie, irqVars, callVars
<1> QED BY <1>1, <1>2

-----------------------------------------------------------------------------
(* A task that changes its own mask keeps the invariant. *)
LEMMA SetCurrentAffinityInv ==
  ASSUME IInv, NEW c \in CPUs, NEW mask \in SelfMasks, SetCurrentAffinity(c, mask)
  PROVE  IInv'
<1> DEFINE t == hand[c]
<1>1. /\ pc[c] = "run" /\ migration_target[t] = NoCpu /\ calls' = calls + 1
      /\ calls < MaxCalls /\ cpus_allowed' = [cpus_allowed EXCEPT ![t] = mask]
      /\ Complete(t, "Retry")
      /\ UNCHANGED <<status, interruptible, run_queue, local_zombies, hand, victims, ipi,
           need_resched, bell>>
  BY Zenon DEF SetCurrentAffinity, Free, Runs, StoreMask, ownVars, irqVars
<1>2. t \in Tasks /\ status[t] = Running(c)
  BY Zenon, <1>1, CallerFacts
<1>3. /\ pc \in [CPUs -> CpuPc] /\ cpus_allowed \in [Tasks -> SUBSET CPUs]
      /\ migration_target \in [Tasks -> CPUs \cup {NoCpu}] /\ mask \in SUBSET CPUs
      /\ calls' \in 0..MaxCalls /\ request \in [Tasks -> Tasks \cup {NoTask}]
  BY SMTT(30), <1>1, MasksAssumption, BoundAssumption DEF IInv, TypeOK
<1>4. /\ migration_target' \in [Tasks -> CPUs \cup {NoCpu}]
      /\ \A x \in Tasks \ {t} : migration_target'[x] = migration_target[x]
      /\ pc' \in [CPUs -> CpuPc] /\ pc'[c] \in {"run", "mig"}
      /\ pc'[c] = "run" => c \in mask
      /\ \A d \in CPUs \ {c} : pc'[d] = pc[d]
  <2>1. CASE c \in mask
    BY Zenon, <1>1, <1>3, <2>1 DEF SetCurrentAffinity
  <2>2. CASE c \notin mask
    <3>1. PICK target \in mask : migration_target' = [migration_target EXCEPT ![t] = target]
      BY Zenon, <2>2 DEF SetCurrentAffinity
    <3>2. pc' = [pc EXCEPT ![c] = "mig"]
      BY Zenon, <2>2 DEF SetCurrentAffinity, Goto
    <3> QED BY Zenon, <1>2, <1>3, <2>2, <3>1, <3>2, HoldingNames
  <2> QED BY Zenon, <2>1, <2>2
<1>5. /\ call' \in [Tasks -> Call] /\ request' = [request EXCEPT ![t] = NoTask]
      /\ \A u \in Tasks : call'[u].pc = call[u].pc /\ call'[u].task = call[u].task
  BY Zenon, <1>1, <1>2, CompleteFacts
<1>6. RequestExact' /\ CallExact'
  BY Zenon, <1>1, <1>2, <1>4, CompleteFrame
<1>7. \A d \in CPUs \ {c} : pc[d] \in Holding => hand[d] # t
  BY Zenon, <1>2, HeldBy
<1>8. /\ \A d \in CPUs : pc'[d] \in Holding <=> pc[d] \in Holding
      /\ \A d \in CPUs : pc'[d] = "steal" <=> pc[d] = "steal"
  BY Zenon, <1>1, <1>4, HoldingNames
<1>9. UNCHANGED <<status, hand>>
  BY Zenon, <1>1
<1>t. TypeOK'
  BY Zenon, <1>1, <1>2, <1>3, <1>4, <1>5, TasksAssumption DEF IInv, TypeOK
<1>q. QueueExact' /\ RegistryExact'
  BY Zenon, <1>1 DEF IInv, QueueExact, RegistryExact
<1>h. HoldExact'
  <2>1. ASSUME NEW x \in Tasks, NEW d \in CPUs, status[x] \in {Running(d), Blocking(d)}
        PROVE  pc'[d] \in Holding /\ hand[d] = x
    BY Zenon, <1>8, <2>1 DEF IInv, HoldExact
  <2>2. ASSUME NEW d \in CPUs, pc'[d] \in Holding
        PROVE  pc[d] \in Holding /\ hand'[d] = hand[d] /\ (pc'[d] = pc[d] \/ d = c)
    BY Zenon, <1>4, <1>8, <1>9, <2>2
  <2>3. ASSUME NEW d \in CPUs
        PROVE  /\ pc'[d] \in Holding \cup {"late"} => hand[d] \in Tasks
               /\ pc'[d] = "steal" => status[hand[d]] = Migrating
               /\ pc'[d] \in {"claimed", "run", "mig"} => status[hand[d]] = Running(d)
               /\ pc'[d] = "sleep" => status[hand[d]] \in {Running(d), Blocking(d)}
               /\ pc'[d] = "dead" => status[hand[d]] = Zombie
               /\ pc'[d] = "out" => status[hand[d]] \in {Running(d), Blocking(d), Zombie}
    <3>1. CASE d # c
      <4>1. pc'[d] = pc[d]
        BY Zenon, <1>4, <3>1
      <4> QED BY Zenon, <4>1 DEF IInv, HoldExact
    <3>2. CASE d = c
      <4>1. pc'[d] \notin {"steal", "sleep", "dead", "out"}
        BY <1>4, <3>2
      <4>2. hand[d] \in Tasks /\ status[hand[d]] = Running(d)
        BY Zenon, <1>2, <3>2
      <4> QED BY Zenon, <4>1, <4>2
    <3> QED BY Zenon, <3>1, <3>2
  <2> QED BY Zenon, <1>9, <2>1, <2>3 DEF HoldExact
<1>o. HoldOnce'
  <2>1. \A d, e \in CPUs :
          pc'[d] \in Holding /\ pc'[e] \in Holding /\ hand'[d] = hand'[e] => d = e
    BY Zenon, <1>8, <1>9 DEF IInv, HoldOnce
  <2>2. ASSUME NEW u \in Tasks, NEW d \in CPUs, call'[u].pc = "detached", pc'[d] \in Holding
        PROVE  hand'[d] # call'[u].task
    BY <1>5, <1>8, <1>9, <2>2 DEF IInv, HoldOnce
  <2>3. ASSUME NEW u \in Tasks, NEW w \in Tasks, call'[u].pc = "detached",
               call'[w].pc = "detached", call'[u].task = call'[w].task
        PROVE  u = w
    BY <1>5, <2>3 DEF IInv, HoldOnce
  <2> QED BY Zenon, <2>1, <2>2, <2>3 DEF HoldOnce
<1>m. MigratingHasMover'
  <2>1. ASSUME NEW u \in Tasks, call'[u].pc = "detached"
        PROVE  status'[call'[u].task] = Migrating
    <3>1. call[u].pc = "detached" /\ call'[u].task = call[u].task
      BY Zenon, <1>5, <2>1
    <3>2. status[call[u].task] = Migrating
      BY Zenon, <3>1 DEF IInv, MigratingHasMover
    <3> QED BY Zenon, <1>9, <3>1, <3>2
  <2>2. ASSUME NEW x \in Tasks, status'[x] = Migrating
        PROVE  \/ \E d \in CPUs : pc'[d] = "steal" /\ hand'[d] = x
               \/ \E u \in Tasks : call'[u].pc = "detached" /\ call'[u].task = x
    <3>1. \/ \E d \in CPUs : pc[d] = "steal" /\ hand[d] = x
          \/ \E u \in Tasks : call[u].pc = "detached" /\ call[u].task = x
      BY Zenon, <1>9, <2>2 DEF IInv, MigratingHasMover
    <3> QED BY Zenon, <1>5, <1>8, <1>9, <3>1
  <2> QED BY Zenon, <2>1, <2>2 DEF MigratingHasMover
<1>a. AffinityRespected'
  <2>1. ASSUME NEW x \in Tasks, NEW d \in CPUs, status[x] = Queued(d)
        PROVE  d \in cpus_allowed'[x]
    BY Zenon, <1>1, <1>2, <1>3, <2>1, StatusDistinct DEF IInv, AffinityRespected
  <2>2. ASSUME NEW d \in CPUs, pc'[d] \in {"steal", "claimed", "run", "sleep"}
        PROVE  d \in cpus_allowed'[hand[d]]
    <3>1. CASE d = c
      BY Zenon, <1>1, <1>2, <1>3, <1>4, <2>2, <3>1
    <3>2. CASE d # c
      <4>1. pc[d] = pc'[d] /\ hand[d] # t /\ hand[d] \in Tasks
        BY Zenon, <1>4, <1>7, <2>2, <3>2, HoldingNames DEF IInv, HoldExact
      <4> QED BY Zenon, <1>1, <1>3, <2>2, <4>1 DEF IInv, AffinityRespected
    <3> QED BY Zenon, <3>1, <3>2
  <2> QED BY Zenon, <1>1, <2>1, <2>2 DEF AffinityRespected
<1>n. NoStrandedTask'
  BY Zenon, <1>1, <1>4 DEF IInv, NoStrandedTask
<1> QED BY Zenon, <1>t, <1>q, <1>h, <1>o, <1>m, <1>6, <1>a, <1>n DEF IInv

(* Every step of the scheduler keeps the inductive invariant. *)
LEMMA NextInv == IInv /\ [Next]_vars => IInv'
<1> SUFFICES ASSUME IInv, [Next]_vars PROVE IInv'
  OBVIOUS
<1>1. CASE UNCHANGED vars
  <2>1. UNCHANGED <<status, interruptible, run_queue, local_zombies, cpus_allowed,
          migration_target, request, pc, hand, victims, ipi, need_resched, bell, call, calls>>
    BY Zenon, <1>1 DEF vars, ownVars, maskVars, cpuVars, irqVars, callVars
  <2>2. TypeOK'
    BY Zenon, <2>1 DEF IInv, TypeOK
  <2>3. QueueExact' /\ HoldExact' /\ RegistryExact' /\ AffinityRespected' /\ NoStrandedTask'
    BY Zenon, <2>1 DEF IInv, QueueExact, HoldExact, RegistryExact, AffinityRespected, NoStrandedTask
  <2>4. HoldOnce' /\ MigratingHasMover' /\ RequestExact' /\ CallExact'
    <3>1. HoldOnce'
      BY Zenon, <2>1 DEF IInv, HoldOnce
    <3>2. MigratingHasMover'
      BY Zenon, <2>1 DEF IInv, MigratingHasMover
    <3>3. RequestExact'
      BY Zenon, <2>1 DEF IInv, RequestExact
    <3>4. CallExact'
      BY Zenon, <2>1 DEF IInv, CallExact
    <3> QED BY Zenon, <3>1, <3>2, <3>3, <3>4
  <2> QED BY Zenon, <2>2, <2>3, <2>4 DEF IInv
<1>2. ASSUME NEW c \in CPUs, IdleStep(c) PROVE IInv'
  BY Zenon, <1>2, TopInv, FetchInv, FetchEmptyInv, StealClaimInv, QuietActions, PcActions,
     StealFinishInv DEF IdleStep
<1>3. ASSUME NEW c \in CPUs, IrqStep(c) PROVE IInv'
  BY Zenon, <1>3, PcActions, QuietActions DEF IrqStep
<1>4. ASSUME NEW c \in CPUs, SwitchStep(c) PROVE IInv'
  BY Zenon, <1>4, PcActions, FinishRunningInv, FinishBlockingInv, LetGoActions DEF SwitchStep
<1>5. ASSUME NEW c \in CPUs, RemoteStep(c) PROVE IInv'
  BY Zenon, <1>5, RemoteReadInv, UpdateBlockedInv, CallEndActions, QueuedReadInv, QueuedStayInv,
     QueuedDetachInv, QueuedAttachInv, RemoteBusyInv, RemoteStayInv, RemoteRequestInv
     DEF RemoteStep
<1>6. ASSUME NEW c \in CPUs, TaskStep(c) PROVE IInv'
  <2>1. CASE Suspend(c) \/ BeginInterruptibleSleep(c) \/ MarkZombie(c)
    BY Zenon, <2>1, PcActions, LeaveActions
  <2>2. CASE \E t \in Tasks : WakeBlocking(c, t)
    BY Zenon, <2>2, WakeBlockingInv
  <2>3. CASE \E t \in Tasks, d \in CPUs : Publish(c, t, d)
    BY Zenon, <2>3, PublishInv
  <2>4. CASE \E t \in Tasks, d \in CPUs : WakeBlocked(c, t, d)
    BY <2>4, WakeBlockedInv
  <2>5. CASE \E t \in Tasks, d \in CPUs : TakeZombie(c, d, t)
    BY Zenon, <2>5, QuietActions
  <2>6. CASE \E mask \in SelfMasks : SetCurrentAffinity(c, mask)
    BY <2>6, SetCurrentAffinityInv
  <2>7. CASE \E t \in Tasks, mask \in RemoteMasks : RemoteCall(c, t, mask)
    BY Zenon, <2>7, RemoteCallInv
  <2> QED BY Zenon, <1>6, <2>1, <2>2, <2>3, <2>4, <2>5, <2>6, <2>7 DEF TaskStep
<1> QED BY Zenon, <1>1, <1>2, <1>3, <1>4, <1>5, <1>6 DEF Next

(* The inductive invariant holds in every reachable state. *)
THEOREM Invariance == Spec => []IInv
<1> QED BY InitInv, NextInv, PTL DEF Spec

(* Every variable keeps its type, on any machine. *)
THEOREM TypeCorrect == Spec => []TypeOK
<1>1. IInv => TypeOK
  BY Zenon DEF IInv
<1> QED BY <1>1, Invariance, PTL

(* Single ownership: a run queue holds exactly the tasks whose status word *)
(* names it, each once; a CPU holds the task its status says it holds, and *)
(* nobody else does; a Migrating task always has its mover.                *)
THEOREM SingleOwner == Spec => []OneOwner
<1>1. IInv => OneOwner
  BY Zenon DEF IInv, OneOwner
<1> QED BY <1>1, Invariance, PTL

(* The interruptible registry is exactly the set of sleepers, so that the  *)
(* consistency panics of the wake path are unreachable.                    *)
THEOREM RegistryCorrect == Spec => []RegistryExact
<1>1. IInv => RegistryExact
  BY Zenon DEF IInv
<1> QED BY <1>1, Invariance, PTL

(* A caller of set_remote_affinity never waits on a request that no CPU    *)
(* will complete.                                                          *)
THEOREM RequestsOwned == Spec => []RequestExact
<1>1. IInv => RequestExact
  BY Zenon DEF IInv
<1> QED BY <1>1, Invariance, PTL

(* A task is queued, claimed and run only on CPUs of its mask.             *)
THEOREM AffinityCorrect == Spec => []AffinityRespected
<1>1. IInv => AffinityRespected
  BY Zenon DEF IInv
<1> QED BY <1>1, Invariance, PTL

(* A CPU never waits for an interrupt with a queued task and no doorbell.  *)
THEOREM DoorbellNotLost == Spec => []NoStrandedTask
<1>1. IInv => NoStrandedTask
  BY Zenon DEF IInv
<1> QED BY <1>1, Invariance, PTL

-----------------------------------------------------------------------------
(* What the record of a call says of its mask: nothing is published before  *)
(* the call returns, but by the CPU that applied the request.               *)
Truthful(r) ==
  IF r.pc = "none" THEN (r.ret = "ok" => r.stored) /\ (r.ret = "fail" => ~r.stored)
  ELSE r.ret = "none" /\ (r.stored <=> r.pc = "wait" /\ r.state = "Applied")

TruthInv == \A u \in Tasks : Truthful(call[u])

LEMMA UpdateTruth ==
  ASSUME TypeOK, TruthInv, NEW u \in Tasks, NEW r, Update(u, r), Truthful(r)
  PROVE  TruthInv'
<1>1. call \in [Tasks -> Call]
  BY Zenon DEF TypeOK
<1>2. call'[u] = r /\ \A v \in Tasks \ {u} : call'[v] = call[v]
  BY Zenon, <1>1 DEF Update
<1>3. ASSUME NEW v \in Tasks PROVE Truthful(call'[v])
  <2>1. CASE v = u
    BY Zenon, <1>2, <2>1
  <2>2. CASE v # u
    <3>1. Truthful(call[v]) /\ call'[v] = call[v]
      BY Zenon, <1>2, <2>2 DEF TruthInv
    <3> QED BY Zenon, <3>1
  <2> QED BY Zenon, <2>1, <2>2
<1> QED BY Zenon, <1>3 DEF TruthInv

(* A call that goes on, from a place where it has published nothing. *)
LEMMA GoOnTruth ==
  ASSUME TypeOK, TruthInv, NEW u \in Tasks, NEW r \in Call,
         call[u].pc # "none", call[u].pc # "wait" \/ call[u].state # "Applied",
         r.ret = call[u].ret, r.stored = call[u].stored, r.pc # "none",
         r.pc # "wait" \/ r.state # "Applied", Update(u, r)
  PROVE  TruthInv'
<1>1. Truthful(call[u])
  BY Zenon DEF TruthInv
<1>2. call[u].ret = "none" /\ ~call[u].stored
  BY Zenon, <1>1 DEF Truthful
<1>3. Truthful(r)
  BY Zenon, <1>2 DEF Truthful
<1> QED BY Zenon, <1>3, UpdateTruth

(* A call that gives up from such a place. *)
LEMMA FailTruth ==
  ASSUME TypeOK, TruthInv, NEW u \in Tasks, call[u].pc \in CallPc \ {"none", "wait"},
         Return(u, "fail")
  PROVE  TruthInv'
<1>1. Truthful(call[u])
  BY Zenon DEF TruthInv
<1>2. call[u].pc # "none" /\ call[u].pc # "wait"
  OBVIOUS
<1>3. ~call[u].stored
  BY Zenon, <1>1, <1>2 DEF Truthful
<1>4. PICK r : r = [NoCall EXCEPT !.ret = "fail", !.stored = call[u].stored]
  OBVIOUS
<1>5. r.pc = "none" /\ r.ret = "fail" /\ r.stored = call[u].stored
  BY <1>4 DEF NoCall
<1>6. Truthful(r)
  BY <1>3, <1>5 DEF Truthful
<1>7. Update(u, r)
  BY Zenon, <1>4 DEF Return
<1> QED BY Zenon, <1>6, <1>7, UpdateTruth

LEMMA SucceedTruth ==
  ASSUME TypeOK, TruthInv, NEW u \in Tasks, Succeed(u)
  PROVE  TruthInv'
<1>1. PICK r : r = [NoCall EXCEPT !.ret = "ok", !.stored = TRUE]
  OBVIOUS
<1>2. r.pc = "none" /\ r.ret = "ok" /\ r.stored = TRUE
  BY <1>1 DEF NoCall
<1>3. Truthful(r)
  BY <1>2 DEF Truthful
<1>4. Update(u, r)
  BY Zenon, <1>1 DEF Succeed
<1> QED BY Zenon, <1>3, <1>4, UpdateTruth

(* The CPU of the task completes the request: it has published the mask, or *)
(* the caller starts over.                                                  *)
LEMMA CompleteTruth ==
  ASSUME IInv, TruthInv, NEW t \in Tasks, NEW outcome \in {"Applied", "Retry"}, Complete(t, outcome)
  PROVE  TruthInv'
<1>1. call \in [Tasks -> Call] /\ request \in [Tasks -> Tasks \cup {NoTask}] /\ TypeOK /\ RequestExact
  BY Zenon DEF IInv, TypeOK
<1>2. CASE request[t] = NoTask
  BY Zenon, <1>2 DEF Complete, TruthInv
<1>3. CASE request[t] # NoTask
  <2>1. PICK u : u = request[t]
    OBVIOUS
  <2>2. u \in Tasks /\ call[u].pc = "wait"
    BY <1>1, <1>3, <2>1 DEF RequestExact
  <2>3. PICK r : r = [call[u] EXCEPT !.state = outcome, !.stored = (outcome = "Applied")]
    OBVIOUS
  <2>4. Update(u, r)
    BY Zenon, <1>3, <2>1, <2>3 DEF Complete, Update
  <2>5. Truthful(call[u]) /\ call[u] \in Call
    BY Zenon, <1>1, <2>2 DEF TruthInv
  <2>6. call[u].ret = "none"
    BY <2>2, <2>5 DEF Truthful
  <2>7. r.pc = "wait" /\ r.ret = "none" /\ r.state = outcome /\ r.stored = (outcome = "Applied")
    BY <2>2, <2>3, <2>5, <2>6 DEF Call
  <2>8. Truthful(r)
    <3>1. r.pc # "none"
      BY <2>7
    <3> QED BY Zenon, <2>7, <3>1 DEF Truthful
  <2> QED BY Zenon, <1>1, <2>2, <2>4, <2>8, UpdateTruth
<1> QED BY Zenon, <1>2, <1>3

(* The steps of a remote affinity call. *)
LEMMA RemoteTruth ==
  ASSUME IInv, TruthInv, NEW c \in CPUs, RemoteStep(c)
  PROVE  TruthInv'
<1>0. TypeOK /\ (\E where \in CallPc \ {"none"} : At(c, where))
  <2>1. TypeOK
    BY Zenon DEF IInv
  <2>2. \E where \in {"read", "blocked", "reblock", "queued", "move", "detached", "running", "wait"} :
          At(c, where)
    BY Zenon DEF RemoteStep, RemoteRead, UpdateBlocked, RecheckBlocked, QueuedRead, QueuedLost, QueuedStay,
           QueuedDetach, QueuedAttach, RemoteBusy, RemoteMoved, RemoteStay, RemoteRequest, RemoteDone
  <2> QED BY <2>1, <2>2 DEF CallPc
<1>1. PICK where \in CallPc \ {"none"} : At(c, where)
  BY Zenon, <1>0
<1>2. PICK u : u = hand[c]
  OBVIOUS
<1>3. u \in Tasks /\ call[u] \in Call /\ call[u].pc = where /\ call[u].pc # "none"
  <2>1. hand[c] \in Tasks
    BY <1>1 DEF IInv, HoldExact, At, Runs, Holding, OnStack
  <2>2. call[u] \in Call
    BY Zenon, <1>0, <1>2, <2>1 DEF TypeOK
  <2> QED BY Zenon, <1>1, <1>2, <2>1, <2>2 DEF At
<1>4. ASSUME NEW to \in CallPc \ {"none", "wait"}, call[u].pc # "wait" \/ call[u].state # "Applied",
             Update(u, [call[u] EXCEPT !.pc = to])
      PROVE  TruthInv'
  <2>1. PICK r : r = [call[u] EXCEPT !.pc = to]
    BY Zenon
  <2>2. r \in Call /\ r.pc = to /\ r.ret = call[u].ret /\ r.stored = call[u].stored
    BY <1>3, <1>4, <2>1 DEF Call
  <2>3. r.pc # "none" /\ r.pc # "wait"
    BY <1>4, <2>2
  <2>4. Update(u, r)
    BY Zenon, <1>4, <2>1
  <2> QED BY Zenon, <1>0, <1>3, <1>4, <2>2, <2>3, <2>4, GoOnTruth
<1>5. ASSUME NEW to \in CallPc \ {"none", "wait"}, NEW src \in CPUs, NEW tgt \in CPUs \cup {NoCpu},
             call[u].pc # "wait",
             Update(u, [call[u] EXCEPT !.pc = to, !.src = src, !.tgt = tgt])
      PROVE  TruthInv'
  <2>1. PICK r : r = [call[u] EXCEPT !.pc = to, !.src = src, !.tgt = tgt]
    OBVIOUS
  <2>2. r \in Call /\ r.pc = to /\ r.ret = call[u].ret /\ r.stored = call[u].stored
    BY Zenon, <1>3, <1>5, <2>1 DEF Call
  <2>3. r.pc # "none" /\ r.pc # "wait"
    BY <1>5, <2>2
  <2>4. Update(u, r)
    BY Zenon, <1>5, <2>1
  <2> QED BY Zenon, <1>0, <1>3, <1>5, <2>2, <2>3, <2>4, GoOnTruth
<1>6. ASSUME call[u].pc \in CallPc \ {"none", "wait"}, NEW s, LostQueued(u, s)
      PROVE  TruthInv'
  <2>1. call[u].pc # "wait" /\ {"queued", "read"} \subseteq CallPc \ {"none", "wait"}
    BY <1>6 DEF CallPc
  <2> QED BY Zenon, <1>0, <1>3, <1>4, <1>6, <2>1, FailTruth DEF LostQueued
<1>7. ASSUME NEW s \in TaskStatus, s.tag \in {"Queued", "Running"}, NEW mask \in SUBSET CPUs
      PROVE  s.cpu \in CPUs /\ Targets(mask, s.cpu) \subseteq CPUs \cup {NoCpu}
  BY <1>7, StatusByTag DEF Targets
<1>8. status[call[u].task] \in TaskStatus /\ call[u].mask \in SUBSET CPUs
  <2>1. call[u].task \in Tasks
    BY Zenon, <1>3 DEF IInv, CallExact
  <2>2. status[call[u].task] \in TaskStatus
    BY Zenon, <1>0, <2>1 DEF TypeOK
  <2> QED BY <1>3, <2>2 DEF Call
<1>9. CASE RemoteRead(c)
  <2>1. call[u].pc = "read"
    BY Zenon, <1>2, <1>9 DEF RemoteRead, At
  <2>2. call[u].pc \in CallPc \ {"none", "wait"} /\ call[u].pc # "wait"
        /\ {"blocked", "queued", "running"} \subseteq CallPc \ {"none", "wait"}
    BY <2>1 DEF CallPc
  <2>3. PICK s \in TaskStatus : s = status[call[u].task]
    BY Zenon, <1>8
  <2>4. \/ Update(u, [call[u] EXCEPT !.pc = "blocked"])
        \/ Update(u, [call[u] EXCEPT !.pc = "queued"])
        \/ /\ s.tag = "Running"
           /\ \E target \in Targets(call[u].mask, s.cpu) :
                Update(u, [call[u] EXCEPT !.pc = "running", !.src = s.cpu, !.tgt = target])
        \/ Return(u, "fail")
    BY Zenon, <1>2, <1>9, <2>3 DEF RemoteRead
  <2>5. ASSUME s.tag = "Running", NEW target \in Targets(call[u].mask, s.cpu),
               Update(u, [call[u] EXCEPT !.pc = "running", !.src = s.cpu, !.tgt = target])
        PROVE  TruthInv'
    <3>1. s.cpu \in CPUs /\ target \in CPUs \cup {NoCpu}
      BY Zenon, <1>7, <1>8, <2>5
    <3>2. PICK src \in CPUs : src = s.cpu
      BY Zenon, <3>1
    <3>3. Update(u, [call[u] EXCEPT !.pc = "running", !.src = src, !.tgt = target])
      BY Zenon, <2>5, <3>2
    <3> QED BY Zenon, <1>5, <2>2, <3>1, <3>3
  <2> QED BY Zenon, <1>0, <1>3, <1>4, <2>2, <2>4, <2>5, FailTruth
<1>10. CASE UpdateBlocked(c) \/ RecheckBlocked(c)
  <2>1. call[u].pc \in {"blocked", "reblock"}
    BY <1>2, <1>10 DEF UpdateBlocked, RecheckBlocked, At
  <2>2. call[u].pc \in CallPc \ {"none", "wait"} /\ call[u].pc # "wait"
        /\ {"reblock", "read"} \subseteq CallPc \ {"none", "wait"}
    BY <2>1 DEF CallPc
  <2>3. \/ Succeed(u) \/ Return(u, "fail")
        \/ Update(u, [call[u] EXCEPT !.pc = "reblock"]) \/ Update(u, [call[u] EXCEPT !.pc = "read"])
    BY Zenon, <1>2, <1>10 DEF UpdateBlocked, RecheckBlocked
  <2> QED BY Zenon, <1>0, <1>3, <1>4, <2>2, <2>3, FailTruth, SucceedTruth
<1>11. CASE QueuedRead(c)
  <2>1. call[u].pc = "queued"
    BY Zenon, <1>2, <1>11 DEF QueuedRead, At
  <2>2. call[u].pc \in CallPc \ {"none", "wait"} /\ call[u].pc # "wait"
        /\ "move" \in CallPc \ {"none", "wait"}
    BY <2>1 DEF CallPc
  <2>3. PICK s \in TaskStatus : s = status[call[u].task]
    BY Zenon, <1>8
  <2>4. \/ /\ s.tag = "Queued"
           /\ \E target \in Targets(call[u].mask, s.cpu) :
                Update(u, [call[u] EXCEPT !.pc = "move", !.src = s.cpu, !.tgt = target])
        \/ LostQueued(u, s)
    BY Zenon, <1>2, <1>11, <2>3 DEF QueuedRead
  <2>5. ASSUME s.tag = "Queued", NEW target \in Targets(call[u].mask, s.cpu),
               Update(u, [call[u] EXCEPT !.pc = "move", !.src = s.cpu, !.tgt = target])
        PROVE  TruthInv'
    <3>1. s.cpu \in CPUs /\ target \in CPUs \cup {NoCpu}
      BY <1>7, <1>8, <2>5
    <3>2. PICK src \in CPUs : src = s.cpu
      BY Zenon, <3>1
    <3>3. Update(u, [call[u] EXCEPT !.pc = "move", !.src = src, !.tgt = target])
      BY Zenon, <2>5, <3>2
    <3> QED BY Zenon, <1>5, <2>2, <3>1, <3>3
  <2> QED BY Zenon, <1>6, <2>2, <2>4, <2>5
<1>12. CASE QueuedLost(c)
  <2>1. call[u].pc = "move" /\ \E s : LostQueued(u, s)
    BY Zenon, <1>2, <1>12 DEF QueuedLost, At
  <2>2. call[u].pc \in CallPc \ {"none", "wait"}
    BY <2>1 DEF CallPc
  <2> QED BY Zenon, <1>6, <2>1, <2>2
<1>13. CASE QueuedStay(c) \/ QueuedAttach(c) \/ RemoteStay(c)
  <2>1. Succeed(u)
    BY Zenon, <1>2, <1>13 DEF QueuedStay, QueuedAttach, RemoteStay
  <2> QED BY Zenon, <1>0, <1>3, <2>1, SucceedTruth
<1>14. CASE QueuedDetach(c)
  <2>1. call[u].pc = "move" /\ Update(u, [call[u] EXCEPT !.pc = "detached"])
    BY Zenon, <1>2, <1>14 DEF QueuedDetach, At
  <2>2. call[u].pc # "wait" /\ "detached" \in CallPc \ {"none", "wait"}
    BY <2>1 DEF CallPc
  <2> QED BY Zenon, <1>4, <2>1, <2>2
<1>15. CASE RemoteBusy(c) \/ RemoteMoved(c)
  <2>1. call[u].pc = "running" /\ Update(u, [call[u] EXCEPT !.pc = "read"])
    BY Zenon, <1>2, <1>15 DEF RemoteBusy, RemoteMoved, At
  <2>2. call[u].pc # "wait" /\ "read" \in CallPc \ {"none", "wait"}
    BY <2>1 DEF CallPc
  <2> QED BY Zenon, <1>4, <2>1, <2>2
<1>16. CASE RemoteRequest(c)
  <2>1. call[u].pc = "running" /\ Update(u, [call[u] EXCEPT !.pc = "wait", !.state = "Pending"])
    BY Zenon, <1>2, <1>16 DEF RemoteRequest, At
  <2>2. PICK r : r = [call[u] EXCEPT !.pc = "wait", !.state = "Pending"]
    OBVIOUS
  <2>3. r \in Call /\ r.pc = "wait" /\ r.state = "Pending" /\ r.ret = call[u].ret
        /\ r.stored = call[u].stored
    BY Zenon, <1>3, <2>2 DEF Call, CallPc
  <2>4. r.pc # "none" /\ r.state # "Applied" /\ call[u].pc # "wait"
    BY <2>1, <2>3
  <2>5. Update(u, r)
    BY Zenon, <2>1, <2>2
  <2> QED BY Zenon, <1>0, <1>3, <2>3, <2>4, <2>5, GoOnTruth
<1>17. CASE RemoteDone(c)
  <2>1. /\ call[u].pc = "wait"
        /\ \/ call[u].state = "Applied" /\ Return(u, "ok")
           \/ call[u].state = "Retry" /\ Update(u, [call[u] EXCEPT !.pc = "read"])
    BY Zenon, <1>2, <1>17 DEF RemoteDone, At
  <2>2. CASE call[u].state = "Applied" /\ Return(u, "ok")
    <3>1. Truthful(call[u])
      BY Zenon, <1>3 DEF TruthInv
    <3>2. call[u].stored
      BY Zenon, <1>3, <2>1, <2>2, <3>1 DEF Truthful
    <3>3. PICK r : r = [NoCall EXCEPT !.ret = "ok", !.stored = call[u].stored]
      OBVIOUS
    <3>4. r.pc = "none" /\ r.ret = "ok" /\ r.stored = call[u].stored
      BY <3>3 DEF NoCall
    <3>5. r.ret # "fail" /\ r.stored
      BY <3>2, <3>4
    <3>6. Truthful(r)
      BY Zenon, <3>4, <3>5 DEF Truthful
    <3>7. Update(u, r)
      BY Zenon, <2>2, <3>3 DEF Return
    <3> QED BY Zenon, <1>0, <1>3, <3>6, <3>7, UpdateTruth
  <2>3. CASE call[u].state = "Retry" /\ Update(u, [call[u] EXCEPT !.pc = "read"])
    <3>1. call[u].state # "Applied" /\ "read" \in CallPc \ {"none", "wait"}
      BY <2>3 DEF CallPc
    <3> QED BY Zenon, <1>4, <2>3, <3>1
  <2> QED BY Zenon, <2>1, <2>2, <2>3
<1> QED
  BY Zenon, <1>9, <1>10, <1>11, <1>12, <1>13, <1>14, <1>15, <1>16, <1>17 DEF RemoteStep

LEMMA TruthNext ==
  ASSUME IInv, TruthInv, [Next]_vars
  PROVE  TruthInv'
<1>0. TypeOK
  BY Zenon DEF IInv
<1>1. ASSUME UNCHANGED call PROVE TruthInv'
  BY Zenon, <1>1 DEF TruthInv
<1>2. CASE UNCHANGED vars
  BY Zenon, <1>1, <1>2 DEF vars, callVars
<1>3. ASSUME NEW c \in CPUs, IdleStep(c) \/ IrqStep(c)
      PROVE  TruthInv'
  <2>1. UNCHANGED call
    BY Zenon, <1>3
    DEF IdleStep, IrqStep, Top, Fetch, FetchEmpty, StealClaim, StealSkip, StealNone, StealFinish,
        Dispatch, WaitEnds, HandleIpi, SendBell, callVars
  <2> QED BY Zenon, <1>1, <2>1
<1>4. ASSUME NEW c \in CPUs, pc[c] \in {"run", "out"}
      PROVE  hand[c] \in Tasks
  BY <1>4 DEF IInv, HoldExact, Holding, OnStack
<1>5. ASSUME NEW c \in CPUs, SwitchStep(c)
      PROVE  TruthInv'
  <2>1. CASE FinishRunning(c)
    <3>1. pc[c] = "out" /\ Complete(hand[c], "Applied")
      BY Zenon, <2>1 DEF FinishRunning
    <3>2. hand[c] \in Tasks
      BY <1>4, <3>1
    <3> QED BY Zenon, <3>1, <3>2, CompleteTruth
  <2>2. CASE ~FinishRunning(c)
    <3>1. UNCHANGED call
      BY Zenon, <1>5, <2>2
      DEF SwitchStep, SafePoint, TimerPreempt, SleepSchedule, ExitSchedule, MigrateSuspend,
          FinishBlocking, DropTarget, FinishZombie, callVars
    <3> QED BY Zenon, <1>1, <3>1
  <2> QED BY Zenon, <2>1, <2>2
<1>6. ASSUME NEW c \in CPUs, TaskStep(c)
      PROVE  TruthInv'
  <2>1. CASE MarkZombie(c) \/ BeginInterruptibleSleep(c)
             \/ \E mask \in SelfMasks : SetCurrentAffinity(c, mask)
    <3>1. pc[c] = "run" /\ Complete(hand[c], "Retry")
      BY Zenon, <2>1 DEF MarkZombie, BeginInterruptibleSleep, SetCurrentAffinity, Free, Runs
    <3>2. hand[c] \in Tasks
      BY <1>4, <3>1
    <3> QED BY Zenon, <3>1, <3>2, CompleteTruth
  <2>2. ASSUME NEW t \in Tasks, NEW mask \in RemoteMasks, RemoteCall(c, t, mask)
        PROVE  TruthInv'
    <3>1. PICK r : r = [NoCall EXCEPT !.pc = "read", !.task = t, !.mask = mask]
      OBVIOUS
    <3>2. r.pc = "read" /\ r.ret = "none" /\ r.stored = FALSE
      BY <3>1 DEF NoCall
    <3>3. Truthful(r)
      BY <3>2 DEF Truthful
    <3>4. Update(hand[c], r) /\ pc[c] = "run"
      BY Zenon, <2>2, <3>1 DEF RemoteCall, Free, Runs
    <3>5. hand[c] \in Tasks
      BY <1>4, <3>4
    <3> QED BY Zenon, <1>0, <3>3, <3>4, <3>5, UpdateTruth
  <2>3. CASE \/ Suspend(c)
             \/ \E t \in Tasks : \/ WakeBlocking(c, t)
                                 \/ \E d \in CPUs : \/ Publish(c, t, d)
                                                    \/ WakeBlocked(c, t, d)
                                                    \/ TakeZombie(c, d, t)
    <3>1. Suspend(c) => UNCHANGED call
      BY Zenon DEF Suspend, callVars
    <3>2. ASSUME NEW t \in Tasks PROVE WakeBlocking(c, t) => UNCHANGED call
      BY Zenon DEF WakeBlocking, callVars
    <3>3. ASSUME NEW t \in Tasks, NEW d \in CPUs
          PROVE  (Publish(c, t, d) \/ WakeBlocked(c, t, d) \/ TakeZombie(c, d, t)) => UNCHANGED call
      BY Zenon DEF Publish, WakeBlocked, TakeZombie, callVars
    <3> QED BY Zenon, <1>1, <2>3, <3>1, <3>2, <3>3
  <2> QED BY Zenon, <1>6, <2>1, <2>2, <2>3 DEF TaskStep
<1> QED BY Zenon, <1>2, <1>3, <1>5, <1>6, RemoteTruth DEF Next

(* set_remote_affinity tells the truth: success means that the mask of this *)
(* call was published, by the caller or by the CPU that ran the task, and a *)
(* call that fails has published nothing.                                   *)
THEOREM ResultCorrect == Spec => []ResultMatchesMask
<1>1. Init => TruthInv
  <2>1. ASSUME Init, NEW u \in Tasks PROVE Truthful(call[u])
    <3>1. call[u] = NoCall
      BY Zenon, <2>1 DEF Init
    <3> QED BY <3>1 DEF NoCall, Truthful
  <2> QED BY Zenon, <2>1 DEF TruthInv
<1>2. IInv /\ TruthInv /\ [Next]_vars => TruthInv'
  BY TruthNext
<1>3. TruthInv => ResultMatchesMask
  <2>1. ASSUME TruthInv, NEW u \in Tasks
        PROVE  (call[u].ret = "ok" => call[u].stored) /\ (call[u].ret = "fail" => ~call[u].stored)
    <3>1. Truthful(call[u])
      BY Zenon, <2>1 DEF TruthInv
    <3> QED BY <3>1 DEF Truthful
  <2> QED BY Zenon, <2>1 DEF ResultMatchesMask
<1> QED BY <1>1, <1>2, <1>3, Invariance, PTL DEF Spec

=============================================================================
