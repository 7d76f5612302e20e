------------------------------ MODULE WaitQueue ------------------------------
(***************************************************************************)
(* Condition waits: WaitEntry tokens, WaitQueue, waits on one and on       *)
(* several queues, deadlines through the kernel timer queue, and signals.  *)
(* Source: os/src/task/manager.rs.                                         *)
(*                                                                         *)
(* A waiter runs wait_event_impl if it waits on one queue, and             *)
(* wait_on_queues_interruptible_timeout if it waits on several.  What the  *)
(* scheduler does to its status word is Sched; here a task that has let go *)
(* of its CPU is Blocked or Queued.  A round of the wait loop has one      *)
(* token; entries of earlier rounds have left every queue                  *)
(* (RoundsSeparate), so that the waiter's name identifies the token.       *)
(* Interval timers, POSIX timers, the timerfd sweep and the network poll   *)
(* put their actions into the same heap as the waits; when their actions   *)
(* run is not followed here, only that they take room.                     *)
(***************************************************************************)
EXTENDS Naturals, Sequences, FiniteSets, Queue

CONSTANTS
  Waiters,      \* tasks that wait
  Producers,    \* threads that make a condition true and wake a queue: 1 .. n
  Queues,       \* wait queues, one per event source
  Registrations,\* the lists of queues a call may register on, in order
  Consumers,    \* waiters whose condition takes what it finds
  Limits,       \* limits of wake_at_most that producers use
  Deadlines,    \* deadlines of the calls: times, or Never
  Never,        \* "no deadline"
  Interrupted,  \* waiters that get one signal
  Others,       \* the other timers whose actions are in the heap
  MaxTimers,    \* KernelTimerQueue::MAX_TIMERS
  MaxBatch,     \* MAX_BATCH of pop_expired
  MaxTime,      \* bound on the clock
  MaxCalls,     \* bound on the number of waits
  MaxItems,     \* bound on the number of events produced
  MaxArms,      \* bound on how often each other timer is armed
  MaxOps,       \* bound on waits, events, signals and armed other timers together
  Nobody        \* "no thread holds the lock", "no task"

ASSUME WaitAssumption ==
  /\ Producers \subseteq Nat
  /\ Registrations \subseteq Seq(Queues) \ {<<>>}
  /\ Consumers \cup Interrupted \subseteq Waiters
  /\ {MaxTimers, MaxTime, MaxCalls, MaxItems, MaxArms, MaxOps} \cup Limits \subseteq Nat
  /\ Deadlines \subseteq 0 .. MaxTime \cup {Never}
  /\ MaxBatch \in Nat \ {0}
  /\ Nobody \notin Waiters \cup Producers /\ Others \cap Waiters = {}

VARIABLES
  pc,         \* where each waiter is in the wait loop
  queues,     \* the queues of the current call
  todo,       \* queues it has still to register on or to leave
  after,      \* what follows finish_entry: another round, or a result
  result,     \* WaitResult of the last call
  deadline,   \* of the current call
  armed,      \* the generation wait_with_timeout has taken
  status,     \* the scheduling status: Running, Blocking, Blocked or Queued
  token,      \* state of the current WaitEntry
  queue,      \* WaitQueue.inner, as the names of the waiters
  lock,       \* holder of each queue's mutex between two steps
  items,      \* events available on each queue's source
  gen,        \* wait_timer_generation
  other,      \* the other timers: arm_seq, and whether the action has still to be added
  timers,     \* KERNEL_TIMER_QUEUE: the pending actions
  evicted,    \* history: live WakeTask actions dropped from the full heap
  expired,    \* actions popped by the timer CPU and not yet run
  firing,     \* the task whose generation the timer CPU has just matched
  now,        \* the clock
  signal,     \* a signal is pending / its sender has still to wake the task
  producer,   \* each producer's progress through wake_at_most
  calls, made \* waits begun, events produced

loopVars  == <<pc, queues, todo, after, result, deadline, armed, calls>>
timerVars == <<other, timers, evicted, expired, firing, now>>
vars == <<loopVars, status, token, queue, lock, items, gen, timerVars, signal, producer, made>>

Multi(w) == Len(queues[w]) > 1
Idle == [pc |-> "idle"]

Init ==
  /\ pc = [w \in Waiters |-> "idle"]
  /\ queues = [w \in Waiters |-> <<>>]
  /\ todo = [w \in Waiters |-> <<>>]
  /\ after = [w \in Waiters |-> "none"]
  /\ result = [w \in Waiters |-> "none"]
  /\ deadline = [w \in Waiters |-> Never]
  /\ armed = [w \in Waiters |-> 0]
  /\ status = [w \in Waiters |-> "Running"]
  /\ token = [w \in Waiters |-> "CLOSED"]
  /\ queue = [q \in Queues |-> <<>>]
  /\ lock = [q \in Queues |-> Nobody]
  /\ items = [q \in Queues |-> 0]
  /\ gen = [w \in Waiters |-> 0]
  /\ other = [o \in Others |-> [arm_seq |-> 0, arming |-> FALSE]]
  /\ timers = {} /\ evicted = {} /\ expired = {} /\ firing = Nobody /\ now = 0
  /\ signal = [w \in Waiters |-> [pending |-> FALSE, wake |-> FALSE, sent |-> FALSE]]
  /\ producer = [p \in Producers |-> Idle]
  /\ calls = 0 /\ made = 0

-----------------------------------------------------------------------------
(* Helpers. *)

Ops == calls + made + Cardinality({w \in Waiters : signal[w].sent})
         + Cardinality({o \in Others : other[o].arm_seq > 0})
MayAct == Ops < MaxOps

Goto(w, where) == pc' = [pc EXCEPT ![w] = where]
Expired(w) == deadline[w] # Never /\ now >= deadline[w]
Sources(w) == Elems(queues[w])
ReadyIn(qs) == \E q \in Elems(qs) : items[q] > 0
Ready(w) == ReadyIn(queues[w])

(* cond() found the event; a consumer takes it. *)
TakeFrom(w, qs) ==
  \E q \in Elems(qs) :
    /\ items[q] > 0
    /\ items' = IF w \in Consumers THEN [items EXCEPT ![q] = @ - 1] ELSE items

Take(w) == TakeFrom(w, queues[w])

(* wake_interruptible: cancel a sleep that has not left the CPU, or queue a *)
(* task that has; any other task is already awake.                          *)
Woken(s) == CASE s = "Blocking" -> "Running" [] s = "Blocked" -> "Queued" [] OTHER -> s
Wake(w) == status' = [status EXCEPT ![w] = Woken(@)]

Closed(t) == IF t = "WAITING" THEN "CLOSED" ELSE t
(* VecDeque::retain: the i-th element that stays is the one with i such    *)
(* elements up to its place.                                               *)
Kept(s, w) == { k \in DOMAIN s : s[k] # w }
Rank(K, j) == Cardinality({ k \in K : k <= j })
Without(s, w) ==
  [i \in 1 .. Cardinality(Kept(s, w)) |-> s[CHOOSE j \in Kept(s, w) : Rank(Kept(s, w), j) = i]]

-----------------------------------------------------------------------------
(* The wait loop. *)

(* The call: the first check of the condition. *)
Call(w, d, qs) ==
  /\ pc[w] = "idle" /\ calls < MaxCalls /\ MayAct
  /\ queues' = [queues EXCEPT ![w] = qs]
  /\ calls' = calls + 1
  /\ deadline' = [deadline EXCEPT ![w] = d]
  /\ IF ReadyIn(qs)
     THEN TakeFrom(w, qs) /\ result' = [result EXCEPT ![w] = "Ready"] /\ UNCHANGED pc
     ELSE Goto(w, "top") /\ UNCHANGED <<items, result>>
  /\ UNCHANGED <<todo, after, armed, status, token, queue, lock, gen, timerVars, signal, producer, made>>

(* The head of the loop tests the deadline, not the condition. *)
LoopTimedOutSpins(w) == pc[w] = "top" /\ Expired(w) /\ UNCHANGED vars
LoopTimedOut(w) ==
  /\ pc[w] = "top" /\ Expired(w)
  /\ Goto(w, "idle") /\ result' = [result EXCEPT ![w] = "TimedOut"]
  /\ UNCHANGED <<queues, todo, after, deadline, armed, calls, status, token, queue, lock, items, gen, timerVars,
       signal, producer, made>>

NewRound(w) ==
  /\ pc[w] = "top" /\ ~Expired(w)
  /\ Goto(w, "register") /\ todo' = [todo EXCEPT ![w] = queues[w]]
  /\ token' = [token EXCEPT ![w] = "WAITING"]
  /\ UNCHANGED <<queues, after, result, deadline, armed, calls, status, queue, lock, items, gen, timerVars,
       signal, producer, made>>

(* prepare_to_wait, one queue lock at a time. *)
Register(w) ==
  /\ pc[w] = "register"
  /\ LET q == Head(todo[w]) IN
     /\ lock[q] = Nobody
     /\ queue' = [queue EXCEPT ![q] = Append(@, w)]
  /\ todo' = [todo EXCEPT ![w] = Tail(@)]
  /\ Goto(w, IF Len(todo[w]) = 1 THEN "check" ELSE "register")
  /\ UNCHANGED <<queues, after, result, deadline, armed, calls, status, token, lock, items, gen, timerVars,
       signal, producer, made>>

(* Leave the queues, then do what says.  A wait on several queues closes   *)
(* the token before it takes the first lock.                               *)
Leave(w, what) ==
  /\ Goto(w, "finish")
  /\ todo' = [todo EXCEPT ![w] = queues[w]]
  /\ after' = [after EXCEPT ![w] = what]
  /\ token' = IF Multi(w) THEN [token EXCEPT ![w] = Closed(@)] ELSE token

(* The second check of the condition, with no lock held. *)
CheckReadyForgets(w) ==
  /\ pc[w] = "check" /\ Ready(w)
  /\ Leave(w, "again")
  /\ UNCHANGED <<queues, result, deadline, armed, calls, status, queue, lock, items, gen, timerVars, signal,
       producer, made>>
CheckReady(w) ==
  /\ pc[w] = "check" /\ Ready(w)
  /\ Take(w) /\ Leave(w, "Ready")
  /\ UNCHANGED <<queues, result, deadline, armed, calls, status, queue, lock, gen, timerVars, signal, producer, made>>
CheckFailsBlind(w) ==
  /\ pc[w] = "check"
  /\ Goto(w, "checked")
  /\ UNCHANGED <<queues, todo, after, result, deadline, armed, calls, status, token, queue, lock, items, gen,
       timerVars, signal, producer, made>>
CheckFails(w) ==
  /\ pc[w] = "check" /\ ~Ready(w)
  /\ Goto(w, "checked")
  /\ UNCHANGED <<queues, todo, after, result, deadline, armed, calls, status, token, queue, lock, items, gen,
       timerVars, signal, producer, made>>

(* Deadline, then signal, then, on one queue, an early notification.       *)
Checked(w) ==
  /\ pc[w] = "checked"
  /\ CASE Expired(w)                              -> Leave(w, "TimedOut")
       [] ~Expired(w) /\ signal[w].pending        -> Leave(w, "Interrupted")
       [] ~Expired(w) /\ ~signal[w].pending /\ ~Multi(w) /\ token[w] # "WAITING"
                                                  -> Leave(w, "again")
       [] OTHER -> Goto(w, "arm") /\ UNCHANGED <<todo, after, token>>
  /\ UNCHANGED <<queues, result, deadline, armed, calls, status, queue, lock, items, gen, timerVars, signal,
       producer, made>>

(* wait_with_timeout: take a new generation ... *)
Arm(w) ==
  /\ pc[w] = "arm"
  /\ IF deadline[w] = Never THEN Goto(w, "block") /\ UNCHANGED gen
     ELSE Goto(w, "insert") /\ gen' = [gen EXCEPT ![w] = @ + 1]
  /\ armed' = [armed EXCEPT ![w] = gen'[w]]
  /\ UNCHANGED <<queues, todo, after, result, deadline, calls, status, token, queue, lock, items,
       timerVars, signal, producer, made>>

(* is_live: nothing has changed the generation the action carries. *)
Live(t) == t.gen = IF t.task \in Others THEN other[t.task].arm_seq ELSE gen[t.task]
(* T, or n entries of T none of which is due later than one left out. *)
Earliest(T, n) ==
  IF Cardinality(T) <= n THEN {T}
  ELSE { S \in SUBSET T : /\ Cardinality(S) = n
                          /\ \A s \in S, t \in T \ S : s.deadline <= t.deadline }
(* What the heap may hold after an insertion: over capacity, stale entries *)
(* go first, then the entries farthest in the future.                      *)
EnforcedNever(T) == {T}
EnforcedUncompacted(T) == Earliest(T, MaxTimers)
Enforced(T) ==
  IF Cardinality(T) <= MaxTimers THEN {T} ELSE Earliest({ t \in T : Live(t) }, MaxTimers)

(* add_action.  For a wake-up that is dropped although it is live, evicted  *)
(* notes how many live actions that are due no later were kept.             *)
Rivals(t) == { s \in timers' : Live(s) /\ s.deadline <= t.deadline }
AddAction(n) ==
  /\ timers' \in Enforced(timers \cup {n})
  /\ evicted' = evicted \cup
       { [task |-> t.task, gen |-> t.gen, rivals |-> Cardinality(Rivals(t))] :
           t \in { u \in (timers \cup {n}) \ timers' : u.task \in Waiters /\ Live(u) } }

(* ... and add a WakeTask action that carries it. *)
Insert(w) ==
  /\ pc[w] = "insert"
  /\ AddAction([task |-> w, gen |-> armed[w], deadline |-> deadline[w]])
  /\ Goto(w, "block")
  /\ UNCHANGED <<queues, todo, after, result, deadline, armed, calls, status, token, queue, lock, items, gen,
       other, expired, firing, now, signal, producer, made>>

(* sleep_interruptible: Running -> Blocking. *)
Block(w) ==
  /\ pc[w] = "block"
  /\ status' = [status EXCEPT ![w] = "Blocking"]
  /\ Goto(w, "recheck")
  /\ UNCHANGED <<queues, todo, after, result, deadline, armed, calls, token, queue, lock, items, gen, timerVars,
       signal, producer, made>>

(* should_block, evaluated with the Blocking status published. *)
ShouldBlockSignalBlind(w) ==
  /\ token[w] = "WAITING" /\ ~Expired(w)
  /\ Multi(w) => ~Ready(w)
ShouldBlock(w) ==
  /\ token[w] = "WAITING" /\ ~Expired(w) /\ ~signal[w].pending
  /\ Multi(w) => ~Ready(w)
Recheck(w) ==
  /\ pc[w] = "recheck"
  /\ Goto(w, IF ShouldBlock(w) THEN "asleep" ELSE "undo")
  /\ UNCHANGED <<queues, todo, after, result, deadline, armed, calls, status, token, queue, lock, items, gen,
       timerVars, signal, producer, made>>
Undo(w) ==
  /\ pc[w] = "undo" /\ Wake(w) /\ Goto(w, "asleep")
  /\ UNCHANGED <<queues, todo, after, result, deadline, armed, calls, token, queue, lock, items, gen,
       timerVars, signal, producer, made>>

(* schedule(): the idle stack finishes the switch, and some CPU later      *)
(* fetches the task if it is queued.                                       *)
SwitchOut(w) ==
  /\ pc[w] = "asleep" /\ status[w] \in {"Blocking", "Running"}
  /\ status' = [status EXCEPT ![w] = IF @ = "Blocking" THEN "Blocked" ELSE "Queued"]
  /\ UNCHANGED <<loopVars, token, queue, lock, items, gen, timerVars, signal, producer, made>>
Dispatch(w) ==
  /\ pc[w] = "asleep" /\ status[w] = "Queued"
  /\ status' = [status EXCEPT ![w] = "Running"]
  /\ Leave(w, "slept")
  /\ UNCHANGED <<queues, result, deadline, armed, calls, queue, lock, items, gen, timerVars, signal,
       producer, made>>

(* finish_entry, one queue lock at a time; then return, or, after a sleep, *)
(* outdate this round's timer and loop.                                    *)
FinishEntryUnlocked(w) ==
  /\ pc[w] = "finish" /\ todo[w] # <<>>
  /\ queue' = [queue EXCEPT ![Head(todo[w])] = Without(@, w)]
  /\ todo' = [todo EXCEPT ![w] = Tail(@)]
  /\ token' = [token EXCEPT ![w] = Closed(@)]
  /\ UNCHANGED <<pc, queues, after, result, deadline, armed, calls, status, lock, items, gen, timerVars,
       signal, producer, made>>
FinishEntry(w) ==
  /\ pc[w] = "finish" /\ todo[w] # <<>>
  /\ LET q == Head(todo[w]) IN
     /\ lock[q] = Nobody
     /\ queue' = [queue EXCEPT ![q] = Without(@, w)]
  /\ todo' = [todo EXCEPT ![w] = Tail(@)]
  /\ token' = [token EXCEPT ![w] = Closed(@)]
  /\ UNCHANGED <<pc, queues, after, result, deadline, armed, calls, status, lock, items, gen, timerVars,
       signal, producer, made>>
Return(w) ==
  /\ pc[w] = "finish" /\ todo[w] = <<>>
  /\ after[w] \in {"Ready", "TimedOut", "Interrupted"}
  /\ Goto(w, "idle") /\ result' = [result EXCEPT ![w] = after[w]]
  /\ signal' = IF after[w] = "Interrupted" THEN [signal EXCEPT ![w].pending = FALSE] ELSE signal
  /\ UNCHANGED <<queues, todo, after, deadline, armed, calls, status, token, queue, lock, items, gen, timerVars,
       producer, made>>
Again(w) ==
  /\ pc[w] = "finish" /\ todo[w] = <<>> /\ after[w] \in {"again", "slept"}
  /\ Goto(w, "top")
  /\ gen' = IF after[w] = "slept" /\ deadline[w] # Never THEN [gen EXCEPT ![w] = @ + 1] ELSE gen
  /\ UNCHANGED <<queues, todo, after, result, deadline, armed, calls, status, token, queue, lock, items,
       timerVars, signal, producer, made>>

-----------------------------------------------------------------------------
(* A producer: make the condition true, then wake_at_most(limit) under the *)
(* queue's lock.  Producers are interchangeable: the first idle one acts.   *)

Produce(p, q, limit) ==
  /\ producer[p] = Idle /\ (\A r \in Producers : r < p => producer[r] # Idle)
  /\ made < MaxItems /\ MayAct
  /\ made' = made + 1
  /\ items' = [items EXCEPT ![q] = @ + 1]
  /\ producer' = [producer EXCEPT ![p] =
                    [pc |-> "lock", queue |-> q, limit |-> limit, task |-> Nobody, batch |-> {}]]
  /\ UNCHANGED <<loopVars, status, token, queue, lock, gen, timerVars, signal>>

TakeLock(p) ==
  /\ producer[p].pc = "lock"
  /\ LET q == producer[p].queue IN lock[q] = Nobody /\ lock' = [lock EXCEPT ![q] = p]
  /\ producer' = [producer EXCEPT ![p].pc = "scan"]
  /\ UNCHANGED <<loopVars, status, token, queue, items, gen, timerVars, signal, made>>

(* Pop the first entry and try to claim its notification. *)
NotifyEntry(p) ==
  /\ producer[p].pc = "scan" /\ Cardinality(producer[p].batch) < producer[p].limit
  /\ LET q == producer[p].queue  w == Head(queue[q]) IN
     /\ queue[q] # <<>>
     /\ queue' = [queue EXCEPT ![q] = Tail(@)]
     /\ IF token[w] = "WAITING"
        THEN /\ token' = [token EXCEPT ![w] = "NOTIFIED"]
             /\ producer' = [producer EXCEPT ![p].pc = "bump", ![p].task = w]
        ELSE UNCHANGED <<token, producer>>
  /\ UNCHANGED <<loopVars, status, lock, items, gen, timerVars, signal, made>>

(* The claimed round's timer is outdated. *)
BumpGeneration(p) ==
  /\ producer[p].pc = "bump"
  /\ gen' = [gen EXCEPT ![producer[p].task] = @ + 1]
  /\ producer' = [producer EXCEPT ![p].pc = "scan", ![p].task = Nobody,
                                  ![p].batch = @ \cup {producer[p].task}]
  /\ UNCHANGED <<loopVars, status, token, queue, lock, items, timerVars, signal, made>>

ScanDone(p) ==
  /\ producer[p].pc = "scan"
  /\ queue[producer[p].queue] = <<>> \/ Cardinality(producer[p].batch) = producer[p].limit
  /\ producer' = [producer EXCEPT ![p].pc = "wake"]
  /\ UNCHANGED <<loopVars, status, token, queue, lock, items, gen, timerVars, signal, made>>

(* enqueue_ready_batch or wake_interruptible, still under the lock.        *)
WakeBatch(p, w) ==
  /\ producer[p].pc = "wake" /\ w \in producer[p].batch
  /\ Wake(w)
  /\ producer' = [producer EXCEPT ![p].batch = @ \ {w}]
  /\ UNCHANGED <<loopVars, token, queue, lock, items, gen, timerVars, signal, made>>
Unlock(p) ==
  /\ producer[p].pc = "wake" /\ producer[p].batch = {}
  /\ lock' = [lock EXCEPT ![producer[p].queue] = Nobody]
  /\ producer' = [producer EXCEPT ![p] = Idle]
  /\ UNCHANGED <<loopVars, status, token, queue, items, gen, timerVars, signal, made>>

-----------------------------------------------------------------------------
(* Signals: mark the signal pending, then wake the task. *)

RaiseSignal(w) ==
  /\ w \in Interrupted /\ ~signal[w].sent /\ MayAct
  /\ signal' = [signal EXCEPT ![w] = [pending |-> TRUE, wake |-> TRUE, sent |-> TRUE]]
  /\ UNCHANGED <<loopVars, status, token, queue, lock, items, gen, timerVars, producer, made>>
SignalWake(w) ==
  /\ signal[w].wake
  /\ Wake(w)
  /\ signal' = [signal EXCEPT ![w].wake = FALSE]
  /\ UNCHANGED <<loopVars, token, queue, lock, items, gen, timerVars, producer, made>>

-----------------------------------------------------------------------------
(* The timer CPU: pop a batch of what is due, earliest first, then run each *)
(* action without the lock.                                                *)

Tick ==
  /\ now < MaxTime /\ now' = now + 1
  /\ UNCHANGED <<loopVars, status, token, queue, lock, items, gen, other, timers, evicted, expired, firing,
       signal, producer, made>>

PopExpired ==
  /\ expired = {} /\ firing = Nobody
  /\ \E t \in timers : t.deadline <= now
  /\ expired' \in Earliest({ t \in timers : t.deadline <= now }, MaxBatch)
  /\ timers' = timers \ expired'
  /\ UNCHANGED <<loopVars, status, token, queue, lock, items, gen, other, evicted, firing, now, signal,
       producer, made>>

(* run_timer: an outdated generation is ignored ... *)
RunTimer(t) ==
  /\ firing = Nobody /\ t \in expired
  /\ expired' = expired \ {t}
  /\ firing' = IF Live(t) /\ t.task \in Waiters THEN t.task ELSE Nobody
  /\ UNCHANGED <<loopVars, status, token, queue, lock, items, gen, other, timers, evicted, now, signal,
       producer, made>>
(* ... otherwise the task is woken if it sleeps. *)
FireWake ==
  /\ firing # Nobody
  /\ Wake(firing) /\ firing' = Nobody
  /\ UNCHANGED <<loopVars, token, queue, lock, items, gen, other, timers, evicted, expired, now, signal,
       producer, made>>

(* Another timer is armed, or armed again: a new arm_seq under the lock of  *)
(* its owner, and then, without that lock, the action that carries it.  A   *)
(* timer that is disarmed takes the first step only.                        *)
ArmOther(o) ==
  /\ other[o].arm_seq < MaxArms /\ (other[o].arm_seq = 0 => MayAct)
  /\ other' = [other EXCEPT ![o] = [arm_seq |-> @.arm_seq + 1, arming |-> TRUE]]
  /\ UNCHANGED <<loopVars, status, token, queue, lock, items, gen, timers, evicted, expired, firing, now,
       signal, producer, made>>
AddOther(o, d) ==
  /\ other[o].arming
  /\ AddAction([task |-> o, gen |-> other[o].arm_seq, deadline |-> d])
  /\ other' = [other EXCEPT ![o].arming = FALSE]
  /\ UNCHANGED <<loopVars, status, token, queue, lock, items, gen, expired, firing, now, signal, producer,
       made>>

-----------------------------------------------------------------------------
WaiterStep(w) ==
  \/ LoopTimedOut(w) \/ NewRound(w) \/ Register(w) \/ CheckReady(w) \/ CheckFails(w) \/ Checked(w)
  \/ Arm(w) \/ Insert(w) \/ Block(w) \/ Recheck(w) \/ Undo(w) \/ SwitchOut(w) \/ Dispatch(w)
  \/ FinishEntry(w) \/ Return(w) \/ Again(w)
ProducerStep(p) ==
  \/ TakeLock(p) \/ NotifyEntry(p) \/ BumpGeneration(p) \/ ScanDone(p) \/ Unlock(p)
  \/ \E w \in Waiters : WakeBatch(p, w)
TimerStep == PopExpired \/ FireWake \/ \E t \in expired : RunTimer(t)

Next ==
  \/ \E w \in Waiters : WaiterStep(w) \/ RaiseSignal(w) \/ SignalWake(w)
  \/ \E w \in Waiters, d \in Deadlines, qs \in Registrations : Call(w, d, qs)
  \/ \E p \in Producers : ProducerStep(p)
  \/ \E p \in Producers, q \in Queues, limit \in Limits : Produce(p, q, limit)
  \/ TimerStep \/ Tick
  \/ \E o \in Others : ArmOther(o) \/ \E d \in Deadlines \ {Never} : AddOther(o, d)

Spec == Init /\ [][Next]_vars

(* Every thread runs when it can, a spin lock is eventually obtained, the  *)
(* clock advances, and the timer CPU and signal senders finish.            *)
Fairness ==
  /\ \A w \in Waiters : WF_vars(WaiterStep(w)) /\ WF_vars(SignalWake(w))
  /\ \A p \in Producers : WF_vars(ProducerStep(p))
  /\ WF_vars(TimerStep) /\ WF_vars(Tick)
FairSpec == Spec /\ Fairness

-----------------------------------------------------------------------------
(* Every variable keeps its type; the heap never exceeds its capacity. *)
TypeOK ==
  /\ \A w \in Waiters :
       /\ pc[w] \in {"idle", "top", "register", "check", "checked", "arm", "insert", "block",
                     "recheck", "undo", "asleep", "finish"}
       /\ status[w] \in {"Running", "Blocking", "Blocked", "Queued"}
       /\ token[w] \in {"WAITING", "NOTIFIED", "CLOSED"}
       /\ pc[w] \notin {"recheck", "undo", "asleep"} => status[w] = "Running"
  /\ Cardinality(timers) <= MaxTimers
  /\ \A q \in Queues : Elems(queue[q]) \subseteq Waiters

(* The wait loop has gone to sleep for good: only a wake brings it back. *)
Sleeps(w) == pc[w] = "asleep" /\ status[w] \in {"Blocking", "Blocked"}

(* A producer that has made the condition true has still to look at q, or  *)
(* is going through q with room for one more.                              *)
Looks(p, q) ==
  /\ producer[p] # Idle /\ producer[p].queue = q
  /\ producer[p].pc = "lock" \/ (producer[p].pc \in {"scan", "bump"} /\ queue[q] # <<>>)
(* A producer has claimed w's notification and has still to wake w. *)
Claimed(w) ==
  \E p \in Producers : producer[p] # Idle /\ (producer[p].task = w \/ w \in producer[p].batch)

(* An event is never lost: while a waiter sleeps although an event it waits *)
(* for is there, some wake is on its way (a producer, or a waiter that was  *)
(* notified and has not yet evaluated its condition again); and one whose   *)
(* token is NOTIFIED is about to be woken by the producer that claimed it.  *)
OnItsWay(q) ==
  \/ \E p \in Producers : Looks(p, q)
  \/ \E v \in Waiters : /\ q \in Sources(v)
                        /\ \/ token[v] = "NOTIFIED" /\ pc[v] \notin {"idle"}
                           \/ pc[v] \in {"top", "register", "check"}
WakeNotLost ==
  \A w \in Waiters : Sleeps(w) =>
    IF token[w] = "WAITING" THEN \A q \in Sources(w) : items[q] > 0 => OnItsWay(q)
    ELSE token[w] = "NOTIFIED" => Claimed(w)

(* A signal is never slept through: its sender has still to wake the task. *)
SignalNotLost ==
  \A w \in Waiters : Sleeps(w) /\ signal[w].pending => signal[w].wake \/ Claimed(w)

(* The live timer of w's round was dropped while the heap was full of live *)
(* actions due no later.                                                   *)
Evicted(w) == \E e \in evicted : e.task = w /\ e.gen = gen[w] /\ e.rivals >= MaxTimers

(* A timed sleep loses its timeout to a full heap only: the timer of this  *)
(* very round is in the heap, or in the hands of the timer CPU, or the     *)
(* waiter is being woken for another reason; or enforce_capacity has       *)
(* dropped it, with MAX_TIMERS live actions due no later in the heap.      *)
TimeoutNotLost ==
  \A w \in Waiters : Sleeps(w) /\ deadline[w] # Never =>
    \/ \E t \in timers \cup expired : t.task = w /\ Live(t) /\ t.deadline = deadline[w]
    \/ firing = w
    \/ token[w] = "NOTIFIED"
    \/ Evicted(w)

(* Rounds do not leak into each other: a token is claimed by at most one    *)
(* producer, however many queues hold it; whoever still holds a claim keeps *)
(* the queue locked until its wake is done, so that none reaches a later    *)
(* round; and a wait that has returned is in no queue.                      *)
RoundsSeparate ==
  /\ \A w \in Waiters :
       /\ Cardinality({ p \in Producers :
            producer[p] # Idle /\ (producer[p].task = w \/ w \in producer[p].batch) }) <= 1
       /\ Claimed(w) => pc[w] \notin {"idle", "top"}
  /\ \A q \in Queues : \A w \in Elems(queue[q]) : pc[w] \notin {"idle", "top"}

(* Every timed wait returns, whatever the producers do, unless a full heap *)
(* has dropped its timer.                                                  *)
TimedWaitReturns ==
  \A w \in Waiters : (pc[w] = "top" /\ deadline[w] # Never) ~> (pc[w] = "idle" \/ Evicted(w))

(* A waiter whose event stays available returns. *)
ReadyWaitReturns ==
  \A w \in Waiters : (pc[w] # "idle" /\ Ready(w)) ~> (pc[w] = "idle" \/ ~Ready(w))
=============================================================================
