----------------------------- MODULE WaitProof -----------------------------
(***************************************************************************)
(* What TLAPS proves about WaitQueue, for any number of waiters, producers *)
(* and queues.  A step is described once from each side (from the waiter   *)
(* that takes it, from the waiters it does not belong to, from a producer, *)
(* from a queue); the invariants are then shown from these descriptions.   *)
(***************************************************************************)
EXTENDS WaitQueue, TLAPS

(* Push, pop and the elements of a queue, duplicates or not. *)
LEMMA TailElems ==
  ASSUME NEW S, NEW q \in Seq(S), q # <<>>
  PROVE  /\ Head(q) \in S /\ Head(q) \in Elems(q)
         /\ Tail(q) \in Seq(S)
         /\ Elems(q) = Elems(Tail(q)) \cup {Head(q)}
         /\ Len(q) = 1 <=> Tail(q) = <<>>
<1>1. Len(q) \in Nat /\ Len(q) # 0 /\ DOMAIN q = 1 .. Len(q)
  OBVIOUS
<1>2. /\ Head(q) = q[1] /\ Tail(q) \in Seq(S) /\ Len(Tail(q)) = Len(q) - 1
      /\ \A i \in 1 .. Len(q) - 1 : Tail(q)[i] = q[i + 1]
  OBVIOUS
<1>3. DOMAIN Tail(q) = 1 .. Len(q) - 1
  BY <1>2
<1>4. 1 \in DOMAIN q /\ q[1] \in S
  BY <1>1
<1>5. ASSUME NEW x \in Elems(q) PROVE x \in Elems(Tail(q)) \cup {Head(q)}
  <2>1. PICK i \in 1 .. Len(q) : x = q[i]
    BY <1>1 DEF Elems
  <2>2. CASE i = 1
    BY <1>2, <2>1, <2>2
  <2>3. CASE i # 1
    <3>1. i - 1 \in DOMAIN Tail(q) /\ Tail(q)[i - 1] = x
      BY <1>1, <1>2, <1>3, <2>1, <2>3
    <3> QED BY <3>1 DEF Elems
  <2> QED BY <2>2, <2>3
<1>6. ASSUME NEW x \in Elems(Tail(q)) PROVE x \in Elems(q)
  <2>1. PICK i \in 1 .. Len(q) - 1 : x = Tail(q)[i]
    BY <1>3 DEF Elems
  <2>2. i + 1 \in DOMAIN q /\ q[i + 1] = x
    BY <1>1, <1>2, <2>1
  <2> QED BY <2>2 DEF Elems
<1>7. Head(q) \in Elems(q)
  BY <1>2, <1>4 DEF Elems
<1>8. Len(q) = 1 <=> Tail(q) = <<>>
  <2>1. PICK r \in Seq(S) : r = Tail(q)
    BY <1>2
  <2>2. Len(r) = 0 <=> r = <<>>
    OBVIOUS
  <2> QED BY <1>1, <1>2, <2>1, <2>2
<1> QED BY <1>2, <1>4, <1>5, <1>6, <1>7, <1>8

(* Appending adds the element. *)
LEMMA PushElems ==
  ASSUME NEW S, NEW q \in Seq(S), NEW t \in S
  PROVE  /\ Append(q, t) \in Seq(S)
         /\ Elems(Append(q, t)) = Elems(q) \cup {t}
<1>1. DOMAIN q = 1..Len(q) /\ Len(q) \in Nat
  OBVIOUS
<1>2. /\ Append(q, t) \in Seq(S) /\ DOMAIN Append(q, t) = 1..Len(q)+1
      /\ \A i \in 1..Len(q) : Append(q, t)[i] = q[i]
      /\ Append(q, t)[Len(q)+1] = t
  OBVIOUS
<1> QED BY <1>1, <1>2 DEF Elems

(* Only the empty queue has no elements. *)
LEMMA EmptyElems ==
  ASSUME NEW S, NEW q \in Seq(S)
  PROVE  Elems(q) = {} <=> q = <<>>
<1>1. ASSUME q # <<>> PROVE Elems(q) # {}
  <2>1. 1 \in DOMAIN q
    BY <1>1
  <2> QED BY <2>1 DEF Elems
<1>2. Elems(<<>>) = {}
  BY DEF Elems
<1> QED BY <1>1, <1>2

-----------------------------------------------------------------------------
(* The values of the variables. *)
PcSet == {"idle", "top", "register", "check", "checked", "arm", "insert", "block",
          "recheck", "undo", "asleep", "finish"}
StatusSet == {"Running", "Blocking", "Blocked", "Queued"}
TokenSet == {"WAITING", "NOTIFIED", "CLOSED"}
TimerSet == [task : Waiters \cup Others, gen : Nat, deadline : Deadlines \ {Never}]
SignalSet == [pending : BOOLEAN, wake : BOOLEAN, sent : BOOLEAN]
BusySet == [pc : {"lock", "scan", "bump", "wake"}, queue : Queues, limit : Limits,
            task : Waiters \cup {Nobody}, batch : SUBSET Waiters]

(* The loop, the scheduler's status words and the queues. *)
LoopType ==
  /\ pc \in [Waiters -> PcSet]
  /\ queues \in [Waiters -> Seq(Queues)] /\ todo \in [Waiters -> Seq(Queues)]
  /\ deadline \in [Waiters -> Deadlines \cup {Never}]
  /\ armed \in [Waiters -> Nat] /\ gen \in [Waiters -> Nat]
  /\ status \in [Waiters -> StatusSet] /\ token \in [Waiters -> TokenSet]
  /\ \A w \in Waiters : pc[w] \notin {"recheck", "undo", "asleep"} => status[w] = "Running"
  /\ \A w \in Waiters : pc[w] = "insert" => deadline[w] # Never
  /\ \A w \in Waiters : pc[w] = "register" => todo[w] # <<>>
  /\ \A w \in Waiters : pc[w] # "idle" => queues[w] # <<>>
QueueType ==
  /\ queue \in [Queues -> Seq(Waiters)] /\ lock \in [Queues -> Producers \cup {Nobody}]
  /\ items \in [Queues -> Nat]
  /\ signal \in [Waiters -> SignalSet]
  /\ producer \in [Producers -> {Idle} \cup BusySet]
  /\ \A p \in Producers : producer[p].pc = "bump" => producer[p].task \in Waiters
TimerType ==
  /\ timers \subseteq TimerSet /\ expired \subseteq TimerSet
  /\ IsFiniteSet(timers) /\ Cardinality(timers) <= MaxTimers
  /\ firing \in Waiters \cup {Nobody} /\ now \in Nat
  /\ other \in [Others -> [arm_seq : Nat, arming : BOOLEAN]]

(* A producer in a wake is not idle. *)
LEMMA BusyNotIdle == \A b \in BusySet : b # Idle
BY DEF BusySet, Idle

(* What retain in finish_entry does to a queue; proved below (EntryRemoved). *)
RetainRemoves ==
  \A s \in Seq(Waiters), w \in Waiters :
    Without(s, w) \in Seq(Waiters) /\ Elems(Without(s, w)) = Elems(s) \ {w}

-----------------------------------------------------------------------------
(* One step, seen from one waiter. *)
OwnStep(w) == WaiterStep(w) \/ \E d \in Deadlines, qs \in Registrations : Call(w, d, qs)
Keep(f, w) == f'[w] = f[w]

(* What w's own step does to w: the control graph of the wait loop, and its *)
(* effect on what belongs to w.                                             *)
Control(w) ==
  /\ pc[w] = "idle"     => pc'[w] \in {"idle", "top"}
  /\ pc[w] = "top"      => \/ pc'[w] = "idle" /\ Keep(token, w)
                           \/ pc'[w] = "register" /\ NewRound(w) /\ todo'[w] = queues[w] /\ token'[w] = "WAITING"
  /\ pc[w] = "register" => /\ Register(w) /\ todo'[w] = Tail(todo[w])
                           /\ pc'[w] = IF Len(todo[w]) = 1 THEN "check" ELSE "register"
  /\ pc[w] = "check"    => pc'[w] \in {"checked", "finish"} /\ (pc'[w] = "checked" => CheckFails(w))
  /\ pc[w] = "checked"  => pc'[w] \in {"arm", "finish"}
  /\ pc[w] = "arm"      => /\ pc'[w] = IF deadline[w] = Never THEN "block" ELSE "insert"
                           /\ gen'[w] = IF deadline[w] = Never THEN gen[w] ELSE gen[w] + 1
                           /\ armed'[w] = gen'[w]
  /\ pc[w] = "insert"   => pc'[w] = "block" /\ Insert(w)
  /\ pc[w] = "block"    => pc'[w] = "recheck"
  /\ pc[w] = "recheck"  => pc'[w] \in {"undo", "asleep"} /\ Recheck(w)
  /\ pc[w] = "undo"     => pc'[w] = "asleep"
  /\ pc[w] = "asleep"   => pc'[w] \in {"asleep", "finish"}
  /\ pc[w] = "finish"   => \/ pc'[w] = "finish" /\ FinishEntry(w) /\ todo'[w] = Tail(todo[w]) /\ todo[w] # <<>>
                           \/ pc'[w] \in {"idle", "top"} /\ todo[w] = <<>> /\ Keep(todo, w)
(* The rest of it. *)
Effect(w) ==
  /\ pc[w] # "idle" => Keep(queues, w) /\ Keep(deadline, w)
  /\ pc[w] # "arm" => Keep(armed, w)
  /\ pc[w] \notin {"arm", "finish"} => Keep(gen, w)
  /\ gen'[w] \in {gen[w], gen[w] + 1}
  /\ pc[w] \notin {"top", "register", "finish"} => todo'[w] = IF pc'[w] = "finish" THEN queues[w] ELSE todo[w]
  /\ pc[w] # "top" => token'[w] \in {token[w], Closed(token[w])} /\ (pc'[w] # "finish" => Keep(token, w))
  /\ FinishEntry(w) => token'[w] # "WAITING"
  /\ pc[w] = "recheck" => Keep(status, w)
  /\ pc[w] = "undo" => status'[w] = Woken(status[w])
  /\ pc[w] = "asleep" /\ pc'[w] = "asleep" => status[w] \in {"Blocking", "Running"} /\
       status'[w] = (IF status[w] = "Blocking" THEN "Blocked" ELSE "Queued")

(* Each step of the wait loop follows the graph and has the effect above. *)
LEMMA OwnMoves ==
  ASSUME LoopType, NEW w \in Waiters, OwnStep(w)
  PROVE  Control(w) /\ Effect(w)
<1>1. ASSUME LoopTimedOut(w)
      PROVE  Control(w) /\ Effect(w)
  BY Zenon, <1>1 DEF LoopTimedOut, FinishEntry, Goto, loopVars, LoopType, Control, Effect, Keep
<1>2. ASSUME NewRound(w)
      PROVE  Control(w) /\ Effect(w)
  BY Zenon, <1>2 DEF NewRound, FinishEntry, Goto, loopVars, LoopType, Control, Effect, Keep
<1>3. ASSUME Register(w)
      PROVE  Control(w) /\ Effect(w)
  BY Zenon, <1>3 DEF Register, FinishEntry, Goto, loopVars, LoopType, Control, Effect, Keep
<1>4. ASSUME CheckReady(w)
      PROVE  Control(w) /\ Effect(w)
  BY Zenon, <1>4 DEF CheckReady, FinishEntry, Leave, Goto, loopVars, LoopType, Control, Effect, Keep
<1>5. ASSUME CheckFails(w)
      PROVE  Control(w) /\ Effect(w)
  BY Zenon, <1>5 DEF CheckFails, FinishEntry, Goto, loopVars, LoopType, Control, Effect, Keep
<1>6. ASSUME Checked(w)
      PROVE  Control(w) /\ Effect(w)
  <2>1. /\ pc[w] = "checked" /\ UNCHANGED <<queues, deadline, armed, gen, status>>
        /\ (\E what : Leave(w, what)) \/ (Goto(w, "arm") /\ UNCHANGED <<todo, token>>)
    BY Zenon, <1>6 DEF Checked
  <2>2. \/ pc'[w] = "finish" /\ todo'[w] = queues[w] /\ token'[w] \in {token[w], Closed(token[w])}
        \/ pc'[w] = "arm" /\ UNCHANGED <<todo, token>>
    BY <2>1 DEF Leave, Goto, LoopType
  <2> QED BY Zenon, <2>1, <2>2 DEF LoopType, Control, Effect, Keep, FinishEntry
<1>7. ASSUME Arm(w)
      PROVE  Control(w) /\ Effect(w)
  <2>1. pc[w] = "arm" /\ UNCHANGED <<queues, todo, deadline, status, token>> /\ armed' = [armed EXCEPT ![w] = gen'[w]]
    BY Zenon, <1>7 DEF Arm
  <2>2. CASE deadline[w] = Never
    <3>1. pc' = [pc EXCEPT ![w] = "block"] /\ gen' = gen
      BY Zenon, <1>7, <2>2 DEF Arm, Goto
    <3> QED BY Zenon, <2>1, <2>2, <3>1 DEF LoopType, Control, Effect, Keep, FinishEntry
  <2>3. CASE deadline[w] # Never
    <3>1. pc' = [pc EXCEPT ![w] = "insert"] /\ gen' = [gen EXCEPT ![w] = @ + 1]
      BY Zenon, <1>7, <2>3 DEF Arm, Goto
    <3> QED BY Zenon, <2>1, <2>3, <3>1 DEF LoopType, Control, Effect, Keep, FinishEntry
  <2> QED BY Zenon, <2>2, <2>3
<1>8. ASSUME Insert(w)
      PROVE  Control(w) /\ Effect(w)
  BY Zenon, <1>8 DEF Insert, FinishEntry, Goto, loopVars, LoopType, Control, Effect, Keep
<1>9. ASSUME Block(w)
      PROVE  Control(w) /\ Effect(w)
  BY Zenon, <1>9 DEF Block, FinishEntry, Goto, loopVars, LoopType, Control, Effect, Keep
<1>10. ASSUME Recheck(w)
      PROVE  Control(w) /\ Effect(w)
  BY Zenon, <1>10 DEF Recheck, FinishEntry, Goto, loopVars, LoopType, Control, Effect, Keep
<1>11. ASSUME Undo(w)
      PROVE  Control(w) /\ Effect(w)
  BY Zenon, <1>11 DEF Undo, FinishEntry, Wake, Goto, loopVars, LoopType, Control, Effect, Keep
<1>12. ASSUME SwitchOut(w)
      PROVE  Control(w) /\ Effect(w)
  BY Zenon, <1>12 DEF SwitchOut, FinishEntry, Goto, loopVars, LoopType, Control, Effect, Keep
<1>13. ASSUME Dispatch(w)
      PROVE  Control(w) /\ Effect(w)
  BY Zenon, <1>13 DEF Dispatch, FinishEntry, Leave, Goto, loopVars, LoopType, Control, Effect, Keep
<1>14. ASSUME FinishEntry(w)
      PROVE  Control(w) /\ Effect(w)
  BY Zenon, <1>14 DEF FinishEntry, Goto, loopVars, LoopType, Control, Effect, Keep, Closed, TokenSet
<1>15. ASSUME Return(w)
      PROVE  Control(w) /\ Effect(w)
  BY Zenon, <1>15 DEF Return, FinishEntry, Goto, loopVars, LoopType, Control, Effect, Keep
<1>16. ASSUME Again(w)
      PROVE  Control(w) /\ Effect(w)
  BY Zenon, <1>16 DEF Again, FinishEntry, Goto, loopVars, LoopType, Control, Effect, Keep
<1>17. ASSUME NEW d \in Deadlines, NEW qs \in Registrations, Call(w, d, qs)
      PROVE  Control(w) /\ Effect(w)
  BY Zenon, <1>17 DEF Call, FinishEntry, Goto, loopVars, LoopType, Control, Effect, Keep
<1> QED
  BY Zenon, <1>1, <1>2, <1>3, <1>4, <1>5, <1>6, <1>7, <1>8, <1>9, <1>10, <1>11, <1>12, <1>13, <1>14, <1>15, <1>16, <1>17 DEF OwnStep, WaiterStep

(* No step of the loop of another waiter touches what belongs to w. *)
Quiet(w) == Keep(pc, w) /\ Keep(queues, w) /\ Keep(todo, w) /\ Keep(deadline, w) /\ Keep(armed, w)
Untouched(w) == Quiet(w) /\ Keep(gen, w) /\ Keep(token, w) /\ Keep(status, w)

(* A step of one waiter's loop leaves the others alone. *)
LEMMA OthersMoves ==
  ASSUME LoopType, NEW v \in Waiters, OwnStep(v), NEW w \in Waiters, v # w
  PROVE  Untouched(w)
<1>1. ASSUME LoopTimedOut(v)
      PROVE  Untouched(w)
  BY Zenon, <1>1 DEF LoopTimedOut, Goto, loopVars, LoopType, Untouched, Quiet, Keep
<1>2. ASSUME NewRound(v)
      PROVE  Untouched(w)
  BY Zenon, <1>2 DEF NewRound, Goto, loopVars, LoopType, Untouched, Quiet, Keep
<1>3. ASSUME Register(v)
      PROVE  Untouched(w)
  BY Zenon, <1>3 DEF Register, Goto, loopVars, LoopType, Untouched, Quiet, Keep
<1>4. ASSUME CheckReady(v)
      PROVE  Untouched(w)
  BY Zenon, <1>4 DEF CheckReady, Leave, Goto, loopVars, LoopType, Untouched, Quiet, Keep
<1>5. ASSUME CheckFails(v)
      PROVE  Untouched(w)
  BY Zenon, <1>5 DEF CheckFails, Goto, loopVars, LoopType, Untouched, Quiet, Keep
<1>6. ASSUME Checked(v)
      PROVE  Untouched(w)
  <2>1. UNCHANGED <<queues, deadline, armed, gen, status>> /\ ((\E what : Leave(v, what)) \/ (Goto(v, "arm") /\ UNCHANGED <<todo, token>>))
    BY Zenon, <1>6 DEF Checked
  <2> QED BY <2>1 DEF Leave, Goto, LoopType, Untouched, Quiet, Keep
<1>7. ASSUME Arm(v)
      PROVE  Untouched(w)
  <2>1. /\ UNCHANGED <<queues, todo, deadline, status, token>> /\ armed' = [armed EXCEPT ![v] = gen'[v]]
        /\ gen' = gen \/ gen' = [gen EXCEPT ![v] = @ + 1]
        /\ pc' = [pc EXCEPT ![v] = "block"] \/ pc' = [pc EXCEPT ![v] = "insert"]
    BY Zenon, <1>7 DEF Arm, Goto
  <2> QED BY Zenon, <2>1 DEF LoopType, Untouched, Quiet, Keep
<1>8. ASSUME Insert(v)
      PROVE  Untouched(w)
  BY Zenon, <1>8 DEF Insert, Goto, loopVars, LoopType, Untouched, Quiet, Keep
<1>9. ASSUME Block(v)
      PROVE  Untouched(w)
  BY Zenon, <1>9 DEF Block, Goto, loopVars, LoopType, Untouched, Quiet, Keep
<1>10. ASSUME Recheck(v)
      PROVE  Untouched(w)
  BY Zenon, <1>10 DEF Recheck, Goto, loopVars, LoopType, Untouched, Quiet, Keep
<1>11. ASSUME Undo(v)
      PROVE  Untouched(w)
  BY Zenon, <1>11 DEF Undo, Wake, Goto, loopVars, LoopType, Untouched, Quiet, Keep
<1>12. ASSUME SwitchOut(v)
      PROVE  Untouched(w)
  BY Zenon, <1>12 DEF SwitchOut, Goto, loopVars, LoopType, Untouched, Quiet, Keep
<1>13. ASSUME Dispatch(v)
      PROVE  Untouched(w)
  BY Zenon, <1>13 DEF Dispatch, Leave, Goto, loopVars, LoopType, Untouched, Quiet, Keep
<1>14. ASSUME FinishEntry(v)
      PROVE  Untouched(w)
  BY Zenon, <1>14 DEF FinishEntry, Goto, loopVars, LoopType, Untouched, Quiet, Keep
<1>15. ASSUME Return(v)
      PROVE  Untouched(w)
  BY Zenon, <1>15 DEF Return, Goto, loopVars, LoopType, Untouched, Quiet, Keep
<1>16. ASSUME Again(v)
      PROVE  Untouched(w)
  BY Zenon, <1>16 DEF Again, Goto, loopVars, LoopType, Untouched, Quiet, Keep
<1>17. ASSUME NEW d \in Deadlines, NEW qs \in Registrations, Call(v, d, qs)
      PROVE  Untouched(w)
  BY Zenon, <1>17 DEF Call, Goto, loopVars, LoopType, Untouched, Quiet, Keep
<1> QED
  BY Zenon, <1>1, <1>2, <1>3, <1>4, <1>5, <1>6, <1>7, <1>8, <1>9, <1>10, <1>11, <1>12, <1>13, <1>14, <1>15, <1>16, <1>17 DEF OwnStep, WaiterStep

-----------------------------------------------------------------------------
(* Who writes what the waiters share. *)
WritesQueue == (\E v \in Waiters : Register(v) \/ FinishEntry(v)) \/ \E r \in Producers : NotifyEntry(r)
WritesProducer ==
  \/ \E r \in Producers : ProducerStep(r)
  \/ \E r \in Producers, x \in Queues, limit \in Limits : Produce(r, x, limit)
AddsOther == \E o \in Others : \E d \in Deadlines \ {Never} : AddOther(o, d)
WritesHeap ==
  (\E v \in Waiters : Insert(v)) \/ AddsOther \/ PopExpired \/ \E t \in expired : RunTimer(t)
WritesOther == AddsOther \/ \E o \in Others : ArmOther(o)
WritesFiring == FireWake \/ \E t \in expired : RunTimer(t)
WritesItems ==
  \/ \E v \in Waiters : CheckReady(v) \/ \E d \in Deadlines, qs \in Registrations : Call(v, d, qs)
  \/ \E r \in Producers, x \in Queues, limit \in Limits : Produce(r, x, limit)
WritesSignal == \E v \in Waiters : RaiseSignal(v) \/ SignalWake(v) \/ Return(v)
WritesLoop ==
  \/ \E v \in Waiters : OwnStep(v) \/ SignalWake(v)
  \/ \E r \in Producers : NotifyEntry(r) \/ BumpGeneration(r) \/ \E v \in Waiters : WakeBatch(r, v)
  \/ FireWake
Frame ==
  /\ WritesLoop \/ UNCHANGED <<loopVars, status, token, gen>>
  /\ WritesQueue \/ queue' = queue
  /\ WritesProducer \/ UNCHANGED <<lock, producer>>
  /\ WritesHeap \/ UNCHANGED <<timers, evicted, expired>>
  /\ WritesOther \/ other' = other
  /\ WritesFiring \/ firing' = firing
  /\ Tick \/ now' = now
  /\ WritesItems \/ items' = items
  /\ WritesSignal \/ signal' = signal

(* Every step writes only what its action may write. *)
LEMMA Frames == ASSUME [Next]_vars PROVE Frame
<1> USE DEF timerVars
<1>1. ASSUME NEW v \in Waiters, OwnStep(v), UNCHANGED <<queue, lock, producer, timerVars, items, signal>>
      PROVE  Frame
  BY Zenon, <1>1 DEF Frame, WritesLoop
<1>2. ASSUME NEW v \in Waiters, LoopTimedOut(v) \/ NewRound(v) \/ CheckFails(v) \/ Checked(v) \/ Arm(v) \/ Block(v)
      PROVE  UNCHANGED <<queue, lock, producer, timerVars, items, signal>>
  BY Zenon, <1>2 DEF LoopTimedOut, NewRound, CheckFails, Checked, Arm, Block
<1>3. ASSUME NEW v \in Waiters, Recheck(v) \/ Undo(v) \/ SwitchOut(v) \/ Dispatch(v) \/ Again(v)
      PROVE  UNCHANGED <<queue, lock, producer, timerVars, items, signal>>
  BY Zenon, <1>3 DEF Recheck, Undo, SwitchOut, Dispatch, Again
<1>4. ASSUME NEW v \in Waiters, Register(v)
      PROVE  Frame
  BY Zenon, <1>4 DEF Register, Frame, WritesQueue, WritesLoop, OwnStep, WaiterStep
<1>5. ASSUME NEW v \in Waiters, FinishEntry(v)
      PROVE  Frame
  BY Zenon, <1>5 DEF FinishEntry, Frame, WritesQueue, WritesLoop, OwnStep, WaiterStep
<1>6. ASSUME NEW v \in Waiters, CheckReady(v)
      PROVE  Frame
  BY Zenon, <1>6 DEF CheckReady, Frame, WritesItems, WritesLoop, OwnStep, WaiterStep
<1>7. ASSUME NEW v \in Waiters, Insert(v)
      PROVE  Frame
  BY Zenon, <1>7 DEF Insert, Frame, WritesHeap, WritesLoop, OwnStep, WaiterStep
<1>8. ASSUME NEW v \in Waiters, Return(v)
      PROVE  Frame
  BY Zenon, <1>8 DEF Return, Frame, WritesSignal, WritesLoop, OwnStep, WaiterStep
<1>9. ASSUME NEW v \in Waiters, RaiseSignal(v)
      PROVE  Frame
  BY Zenon, <1>9 DEF RaiseSignal, Frame, WritesSignal
<1>10. ASSUME NEW v \in Waiters, SignalWake(v)
      PROVE  Frame
  BY Zenon, <1>10 DEF SignalWake, Frame, WritesSignal, WritesLoop
<1>11. ASSUME NEW v \in Waiters, NEW d \in Deadlines, NEW qs \in Registrations, Call(v, d, qs)
      PROVE  Frame
  BY Zenon, <1>11 DEF Call, Frame, WritesItems, WritesLoop, OwnStep
<1>12. ASSUME NEW r \in Producers, NotifyEntry(r)
      PROVE  Frame
  BY Zenon, <1>12 DEF NotifyEntry, Frame, WritesQueue, WritesLoop, WritesProducer, ProducerStep
<1>13. ASSUME NEW r \in Producers, TakeLock(r)
      PROVE  Frame
  BY Zenon, <1>13 DEF TakeLock, Frame, WritesProducer, ProducerStep
<1>14. ASSUME NEW r \in Producers, BumpGeneration(r)
      PROVE  Frame
  BY Zenon, <1>14 DEF BumpGeneration, Frame, WritesProducer, ProducerStep, WritesLoop
<1>15. ASSUME NEW r \in Producers, ScanDone(r)
      PROVE  Frame
  BY Zenon, <1>15 DEF ScanDone, Frame, WritesProducer, ProducerStep
<1>16. ASSUME NEW r \in Producers, Unlock(r)
      PROVE  Frame
  BY Zenon, <1>16 DEF Unlock, Frame, WritesProducer, ProducerStep
<1>17. ASSUME NEW r \in Producers, NEW v \in Waiters, WakeBatch(r, v)
      PROVE  Frame
  BY Zenon, <1>17 DEF WakeBatch, Frame, WritesLoop, WritesProducer, ProducerStep
<1>18. ASSUME NEW r \in Producers, NEW x \in Queues, NEW limit \in Limits, Produce(r, x, limit)
      PROVE  Frame
  BY Zenon, <1>18 DEF Produce, Frame, WritesProducer, WritesItems
<1>19. ASSUME PopExpired
      PROVE  Frame
  BY Zenon, <1>19 DEF PopExpired, Frame, WritesHeap
<1>20. ASSUME FireWake
      PROVE  Frame
  BY Zenon, <1>20 DEF FireWake, Frame, WritesFiring, WritesLoop
<1>21. ASSUME Tick
      PROVE  Frame
  BY Zenon, <1>21 DEF Tick, Frame
<1>22. ASSUME NEW t \in expired, RunTimer(t)
      PROVE  Frame
  BY Zenon, <1>22 DEF RunTimer, Frame, WritesHeap, WritesFiring
<1>24. ASSUME NEW o \in Others, ArmOther(o)
      PROVE  Frame
  BY Zenon, <1>24 DEF ArmOther, Frame, WritesOther
<1>25. ASSUME NEW o \in Others, NEW d \in Deadlines \ {Never}, AddOther(o, d)
      PROVE  Frame
  BY Zenon, <1>25 DEF AddOther, Frame, WritesHeap, WritesOther, AddsOther
<1>23. ASSUME UNCHANGED vars
      PROVE  Frame
  BY Zenon, <1>23 DEF vars, Frame
<1> QED
  BY Zenon, <1>1, <1>2, <1>3, <1>4, <1>5, <1>6, <1>7, <1>8, <1>9, <1>10, <1>11, <1>12, <1>13, <1>14, <1>15, <1>16, <1>17, <1>18, <1>19, <1>20, <1>21, <1>22, <1>23, <1>24, <1>25
  DEF Next, OwnStep, WaiterStep, ProducerStep, TimerStep

(* What other threads may do to w. *)
FromOutside(w) ==
  /\ Quiet(w)
  /\ Keep(gen, w) \/ \E r \in Producers : BumpGeneration(r) /\ producer[r].task = w
  /\ \/ Keep(token, w)
     \/ token[w] = "WAITING" /\ token'[w] = "NOTIFIED" /\ \E r \in Producers : NotifyEntry(r)
  /\ Keep(status, w) \/ status'[w] = Woken(status[w])

(* A step that is not w's own changes w only through its generation, its *)
(* token and its status word.                                            *)
LEMMA OutsideMoves ==
  ASSUME LoopType, [Next]_vars, NEW w \in Waiters, ~OwnStep(w)
  PROVE  FromOutside(w)
<1>k. Untouched(w) => FromOutside(w)
  BY Zenon DEF Untouched, FromOutside
<1>1. ASSUME NEW v \in Waiters, OwnStep(v)
      PROVE  FromOutside(w)
  BY Zenon, <1>1, <1>k, OthersMoves
<1>2. ASSUME NEW v \in Waiters, SignalWake(v)
      PROVE  FromOutside(w)
  BY Zenon, <1>2 DEF SignalWake, Wake, loopVars, LoopType, FromOutside, Quiet, Keep
<1>3. ASSUME NEW r \in Producers, NotifyEntry(r)
      PROVE  FromOutside(w)
  <2> DEFINE v == Head(queue[producer[r].queue])
  <2>1. /\ UNCHANGED <<loopVars, status, gen>>
        /\ \/ token' = token
           \/ token[v] = "WAITING" /\ token' = [token EXCEPT ![v] = "NOTIFIED"]
    BY Zenon, <1>3 DEF NotifyEntry
  <2> HIDE DEF v
  <2> QED BY Zenon, <1>3, <2>1 DEF loopVars, LoopType, FromOutside, Quiet, Keep
<1>4. ASSUME NEW r \in Producers, BumpGeneration(r)
      PROVE  FromOutside(w)
  <2>1. UNCHANGED <<loopVars, status, token>> /\ gen' = [gen EXCEPT ![producer[r].task] = @ + 1]
    BY Zenon, <1>4 DEF BumpGeneration
  <2>2. producer[r].task # w => gen'[w] = gen[w]
    BY Zenon, <2>1 DEF LoopType
  <2> QED BY Zenon, <1>4, <2>1, <2>2 DEF loopVars, FromOutside, Quiet, Keep
<1>5. ASSUME NEW r \in Producers, NEW v \in Waiters, WakeBatch(r, v)
      PROVE  FromOutside(w)
  BY Zenon, <1>5 DEF WakeBatch, Wake, loopVars, LoopType, FromOutside, Quiet, Keep
<1>6. ASSUME FireWake
      PROVE  FromOutside(w)
  BY Zenon, <1>6 DEF FireWake, Wake, loopVars, LoopType, FromOutside, Quiet, Keep
<1>7. ASSUME UNCHANGED <<loopVars, status, token, gen>>
      PROVE  FromOutside(w)
  BY Zenon, <1>7 DEF loopVars, FromOutside, Quiet, Keep
<1> QED
  BY Zenon, <1>1, <1>2, <1>3, <1>4, <1>5, <1>6, <1>7, Frames DEF Frame, WritesLoop

-----------------------------------------------------------------------------
(* One step of producer r: what becomes of it, of the locks and of the token *)
(* it claims.                                                                *)
Takes(r, w) ==
  /\ w \in Waiters /\ w \in Elems(queue[producer[r].queue])
  /\ token[w] = "WAITING" /\ token'[w] = "NOTIFIED"
Serves(r) ==
  LET p == producer[r]
      n == producer'[r]
  IN
  \/ p = Idle /\ n \in BusySet /\ n.pc = "lock" /\ n.task = Nobody /\ n.batch = {} /\ lock' = lock
  \/ p \in BusySet /\ p.pc = "wake" /\ p.batch = {} /\ n = Idle /\ lock' = [lock EXCEPT ![p.queue] = Nobody]
  \/ /\ p \in BusySet /\ n \in BusySet /\ n.queue = p.queue
     /\ \/ /\ p.pc = "lock" /\ n.pc = "scan" /\ n.task = p.task /\ n.batch = p.batch
           /\ lock[p.queue] = Nobody /\ lock' = [lock EXCEPT ![p.queue] = r]
        \/ p.pc = "scan" /\ n = p /\ lock' = lock
        \/ p.pc = "scan" /\ n.pc = "bump" /\ n.batch = p.batch /\ Takes(r, n.task) /\ lock' = lock
        \/ p.pc = "bump" /\ n.pc = "scan" /\ n.task = Nobody /\ n.batch = p.batch \cup {p.task} /\ lock' = lock
        \/ p.pc = "scan" /\ n.pc = "wake" /\ n.task = p.task /\ n.batch = p.batch /\ lock' = lock /\ ScanDone(r)
        \/ /\ p.pc = "wake" /\ n.pc = "wake" /\ n.task = p.task /\ lock' = lock
           /\ \E v \in Waiters : n.batch = p.batch \ {v} /\ Wake(v)
ProducersType == producer \in [Producers -> {Idle} \cup BusySet]

(* A step of a producer is one of the moves above, and its alone. *)
LEMMA WakerMoves ==
  ASSUME LoopType, QueueType, NEW r \in Producers,
         ProducerStep(r) \/ \E x \in Queues, limit \in Limits : Produce(r, x, limit)
  PROVE  /\ Serves(r) /\ ProducersType'
         /\ \A y \in Producers \ {r} : producer'[y] = producer[y]
<1> DEFINE G == /\ Serves(r) /\ ProducersType'
                /\ \A y \in Producers \ {r} : producer'[y] = producer[y]
<1>0. ProducersType /\ (producer[r].pc # "idle" => producer[r] \in BusySet)
  BY DEF QueueType, ProducersType, Idle
<1>1. ASSUME NEW x \in Queues, NEW limit \in Limits, Produce(r, x, limit)
      PROVE  G
  <2> DEFINE b == [pc |-> "lock", queue |-> x, limit |-> limit, task |-> Nobody, batch |-> {}]
  <2>1. producer[r] = Idle /\ producer' = [producer EXCEPT ![r] = b] /\ lock' = lock
    BY Zenon, <1>1 DEF Produce
  <2>2. b \in BusySet /\ b.pc = "lock" /\ b.task = Nobody /\ b.batch = {}
    BY Zenon DEF BusySet
  <2> HIDE DEF b
  <2> QED BY Zenon, <1>0, <2>1, <2>2 DEF Serves, ProducersType
<1>2. ASSUME TakeLock(r)
      PROVE  G
  <2> DEFINE b == [producer[r] EXCEPT !.pc = "scan"]
  <2>1. /\ producer[r].pc = "lock" /\ producer' = [producer EXCEPT ![r] = b]
        /\ lock[producer[r].queue] = Nobody /\ lock' = [lock EXCEPT ![producer[r].queue] = r]
    BY Zenon, <1>2 DEF TakeLock
  <2>2. /\ producer[r] \in BusySet /\ b \in BusySet
        /\ b.pc = "scan" /\ b.queue = producer[r].queue /\ b.task = producer[r].task /\ b.batch = producer[r].batch
    BY Zenon, <1>0, <2>1 DEF BusySet
  <2> HIDE DEF b
  <2> QED BY Zenon, <1>0, <2>1, <2>2 DEF Serves, ProducersType
<1>3. ASSUME NotifyEntry(r)
      PROVE  G
  <2> DEFINE h == producer[r].queue
             v == Head(queue[h])
             b == [producer[r] EXCEPT !.pc = "bump", !.task = v]
  <2>1. /\ producer[r].pc = "scan" /\ queue[h] # <<>> /\ lock' = lock
        /\ \/ producer' = producer
           \/ token[v] = "WAITING" /\ producer' = [producer EXCEPT ![r] = b] /\ token' = [token EXCEPT ![v] = "NOTIFIED"]
    BY Zenon, <1>3 DEF NotifyEntry
  <2>2. producer[r] \in BusySet /\ h \in Queues
    BY Zenon, <1>0, <2>1 DEF BusySet
  <2>3. queue[h] \in Seq(Waiters)
    BY Zenon, <2>2 DEF QueueType
  <2>4. v \in Waiters /\ v \in Elems(queue[h])
    BY Zenon, <2>1, <2>3, TailElems
  <2> HIDE DEF v
  <2>5. b \in BusySet /\ b.pc = "bump" /\ b.queue = h /\ b.batch = producer[r].batch /\ b.task = v
    BY Zenon, <2>2, <2>4 DEF BusySet
  <2> HIDE DEF b
  <2>6. CASE producer' = producer
    BY Zenon, <1>0, <2>1, <2>2, <2>6 DEF Serves, ProducersType
  <2>7. CASE token[v] = "WAITING" /\ producer' = [producer EXCEPT ![r] = b] /\ token' = [token EXCEPT ![v] = "NOTIFIED"]
    <3>1. producer'[r] = b /\ ProducersType' /\ \A y \in Producers \ {r} : producer'[y] = producer[y]
      BY Zenon, <1>0, <2>5, <2>7 DEF ProducersType
    <3>2. Takes(r, b.task)
      BY Zenon, <2>4, <2>5, <2>7 DEF Takes, LoopType
    <3> HIDE DEF h
    <3>3. b.queue = producer[r].queue
      BY Zenon, <2>5 DEF h
    <3> QED BY Zenon, <2>1, <2>2, <2>5, <3>1, <3>2, <3>3 DEF Serves
  <2> QED BY Zenon, <2>1, <2>6, <2>7
<1>4. ASSUME BumpGeneration(r)
      PROVE  G
  <2> DEFINE b == [producer[r] EXCEPT !.pc = "scan", !.task = Nobody, !.batch = @ \cup {producer[r].task}]
  <2>1. producer[r].pc = "bump" /\ producer' = [producer EXCEPT ![r] = b] /\ lock' = lock
    BY Zenon, <1>4 DEF BumpGeneration
  <2>2. /\ producer[r] \in BusySet /\ b \in BusySet
        /\ b.pc = "scan" /\ b.queue = producer[r].queue /\ b.task = Nobody
        /\ b.batch = producer[r].batch \cup {producer[r].task}
    BY Zenon, <1>0, <2>1 DEF BusySet, QueueType
  <2> HIDE DEF b
  <2> QED BY Zenon, <1>0, <2>1, <2>2 DEF Serves, ProducersType
<1>5. ASSUME ScanDone(r)
      PROVE  G
  <2> DEFINE b == [producer[r] EXCEPT !.pc = "wake"]
  <2>1. producer[r].pc = "scan" /\ producer' = [producer EXCEPT ![r] = b] /\ lock' = lock
    BY Zenon, <1>5 DEF ScanDone
  <2>2. /\ producer[r] \in BusySet /\ b \in BusySet
        /\ b.pc = "wake" /\ b.queue = producer[r].queue /\ b.task = producer[r].task /\ b.batch = producer[r].batch
    BY Zenon, <1>0, <2>1 DEF BusySet
  <2> HIDE DEF b
  <2> QED BY Zenon, <1>0, <1>5, <2>1, <2>2 DEF Serves, ProducersType
<1>6. ASSUME NEW v \in Waiters, WakeBatch(r, v)
      PROVE  G
  <2> DEFINE b == [producer[r] EXCEPT !.batch = @ \ {v}]
  <2>1. producer[r].pc = "wake" /\ producer' = [producer EXCEPT ![r] = b] /\ lock' = lock /\ Wake(v)
    BY Zenon, <1>6 DEF WakeBatch
  <2>2. /\ producer[r] \in BusySet /\ b \in BusySet
        /\ b.pc = "wake" /\ b.queue = producer[r].queue /\ b.task = producer[r].task
        /\ b.batch = producer[r].batch \ {v}
    BY Zenon, <1>0, <2>1 DEF BusySet
  <2> HIDE DEF b
  <2> QED BY Zenon, <1>0, <2>1, <2>2 DEF Serves, ProducersType
<1>7. ASSUME Unlock(r)
      PROVE  G
  <2>1. /\ producer[r].pc = "wake" /\ producer[r].batch = {} /\ producer' = [producer EXCEPT ![r] = Idle]
        /\ lock' = [lock EXCEPT ![producer[r].queue] = Nobody]
    BY Zenon, <1>7 DEF Unlock
  <2>2. producer[r] \in BusySet
    BY Zenon, <1>0, <2>1
  <2> QED BY Zenon, <1>0, <2>1, <2>2 DEF Serves, ProducersType
<1> QED
  BY Zenon, <1>1, <1>2, <1>3, <1>4, <1>5, <1>6, <1>7 DEF ProducerStep

(* One step, seen from queue q. *)
Enters(q) == \E v \in Waiters : Register(v) /\ q = Head(todo[v]) /\ Elems(queue'[q]) = Elems(queue[q]) \cup {v}
Leaves(q) == \E v \in Waiters : FinishEntry(v) /\ q = Head(todo[v]) /\ Elems(queue'[q]) = Elems(queue[q]) \ {v}
Pops(q) == \E v \in Waiters : Elems(queue[q]) = Elems(queue'[q]) \cup {v} /\ token'[v] # "WAITING"

(* A queue changes by one registration, one removal or one pop. *)
LEMMA QueueMoves ==
  ASSUME RetainRemoves, LoopType, QueueType, [Next]_vars
  PROVE  /\ queue' \in [Queues -> Seq(Waiters)]
         /\ \A q \in Queues : queue'[q] = queue[q] \/ Enters(q) \/ Leaves(q) \/ Pops(q)
<1> DEFINE G == /\ queue' \in [Queues -> Seq(Waiters)]
                /\ \A q \in Queues : queue'[q] = queue[q] \/ Enters(q) \/ Leaves(q) \/ Pops(q)
<1>0. queue \in [Queues -> Seq(Waiters)]
  BY Zenon DEF QueueType
<1>1. ASSUME NEW v \in Waiters, Register(v)
      PROVE  G
  <2>1. PICK h \in Queues : h = Head(todo[v]) /\ queue' = [queue EXCEPT ![h] = Append(@, v)]
    BY Zenon, <1>1, TailElems DEF Register, LoopType
  <2>2. Append(queue[h], v) \in Seq(Waiters) /\ Elems(Append(queue[h], v)) = Elems(queue[h]) \cup {v}
    BY <1>0, PushElems
  <2>3. queue' \in [Queues -> Seq(Waiters)] /\ queue'[h] = Append(queue[h], v) /\ \A q \in Queues \ {h} : queue'[q] = queue[q]
    BY Zenon, <1>0, <2>1, <2>2
  <2>4. Enters(h)
    BY Zenon, <1>1, <2>1, <2>2, <2>3 DEF Enters
  <2> QED BY Zenon, <2>3, <2>4
<1>2. ASSUME NEW v \in Waiters, FinishEntry(v)
      PROVE  G
  <2>1. PICK h \in Queues : h = Head(todo[v]) /\ queue' = [queue EXCEPT ![h] = Without(@, v)]
    BY Zenon, <1>2, TailElems DEF FinishEntry, LoopType
  <2>2. Without(queue[h], v) \in Seq(Waiters) /\ Elems(Without(queue[h], v)) = Elems(queue[h]) \ {v}
    BY Zenon, <1>0 DEF RetainRemoves
  <2>3. queue' \in [Queues -> Seq(Waiters)] /\ queue'[h] = Without(queue[h], v) /\ \A q \in Queues \ {h} : queue'[q] = queue[q]
    BY Zenon, <1>0, <2>1, <2>2
  <2>4. Leaves(h)
    BY Zenon, <1>2, <2>1, <2>2, <2>3 DEF Leaves
  <2> QED BY Zenon, <2>3, <2>4
<1>3. ASSUME NEW r \in Producers, NotifyEntry(r)
      PROVE  G
  <2>1. producer[r] \in BusySet
    BY <1>3 DEF NotifyEntry, QueueType, Idle
  <2>2. PICK h \in Queues : h = producer[r].queue
    BY Zenon, <2>1 DEF BusySet
  <2>3. /\ queue[h] # <<>> /\ queue' = [queue EXCEPT ![h] = Tail(@)]
        /\ IF token[Head(queue[h])] = "WAITING" THEN token' = [token EXCEPT ![Head(queue[h])] = "NOTIFIED"]
           ELSE token' = token
    BY Zenon, <1>3, <2>2 DEF NotifyEntry
  <2>4. PICK v \in Waiters : v = Head(queue[h]) /\ Tail(queue[h]) \in Seq(Waiters) /\ Elems(queue[h]) = Elems(Tail(queue[h])) \cup {v}
    BY Zenon, <1>0, <2>3, TailElems
  <2>5. queue' \in [Queues -> Seq(Waiters)] /\ queue'[h] = Tail(queue[h]) /\ \A q \in Queues \ {h} : queue'[q] = queue[q]
    BY Zenon, <1>0, <2>3, <2>4
  <2>6. token'[v] # "WAITING"
    BY Zenon, <2>3, <2>4 DEF LoopType
  <2>7. Pops(h)
    BY Zenon, <2>4, <2>5, <2>6 DEF Pops
  <2> QED BY Zenon, <2>5, <2>7
<1>4. ASSUME queue' = queue
      PROVE  G
  BY Zenon, <1>0, <1>4
<1> QED
  BY Zenon, <1>1, <1>2, <1>3, <1>4, Frames DEF Frame, WritesQueue

(* The loop keeps its types: a task that runs its loop is Running. *)
LEMMA LoopTypeStep ==
  ASSUME LoopType, QueueType, [Next]_vars
  PROVE  LoopType'
<1>1. ASSUME NEW w \in Waiters, LoopTimedOut(w)
      PROVE  LoopType'
  BY Zenon, <1>1 DEF LoopTimedOut, Goto, LoopType, PcSet
<1>2. ASSUME NEW w \in Waiters, NewRound(w)
      PROVE  LoopType'
  BY Zenon, <1>2 DEF NewRound, Goto, LoopType, PcSet, TokenSet
<1>3. ASSUME NEW w \in Waiters, Register(w)
      PROVE  LoopType'
  <2>1. todo[w] \in Seq(Queues) /\ todo[w] # <<>>
    BY Zenon, <1>3 DEF Register, LoopType
  <2>2. Tail(todo[w]) \in Seq(Queues) /\ (Len(todo[w]) # 1 => Tail(todo[w]) # <<>>)
    BY Zenon, <2>1, TailElems
  <2> QED BY Zenon, <1>3, <2>2 DEF Register, Goto, loopVars, timerVars, LoopType, PcSet
<1>4. ASSUME NEW w \in Waiters, CheckReady(w)
      PROVE  LoopType'
  BY Zenon, <1>4 DEF CheckReady, Goto, Leave, Closed, LoopType, PcSet, TokenSet
<1>5. ASSUME NEW w \in Waiters, CheckFails(w)
      PROVE  LoopType'
  BY Zenon, <1>5 DEF CheckFails, Goto, LoopType, PcSet
<1>6. ASSUME NEW w \in Waiters, Checked(w)
      PROVE  LoopType'
  <2>1. CASE \E what : Leave(w, what)
    BY <1>6, <2>1 DEF Checked, Leave, Closed, Goto, timerVars, LoopType, PcSet, TokenSet
  <2>2. CASE Goto(w, "arm") /\ UNCHANGED <<todo, after, token>>
    BY Zenon, <1>6, <2>2 DEF Checked, Goto, timerVars, LoopType, PcSet
  <2> QED BY Zenon, <1>6, <2>1, <2>2 DEF Checked
<1>7. ASSUME NEW w \in Waiters, Arm(w)
      PROVE  LoopType'
  <2>1. gen' \in [Waiters -> Nat]
    <3>1. CASE deadline[w] = Never
      BY Zenon, <1>7, <3>1 DEF Arm, LoopType
    <3>2. CASE deadline[w] # Never
      <4>1. gen' = [gen EXCEPT ![w] = @ + 1] /\ gen \in [Waiters -> Nat]
        BY Zenon, <1>7, <3>2 DEF Arm, LoopType
      <4> QED BY <4>1
    <3> QED BY Zenon, <3>1, <3>2
  <2>2. armed' \in [Waiters -> Nat]
    BY Zenon, <1>7, <2>1 DEF Arm, LoopType
  <2>3. /\ pc' = [pc EXCEPT ![w] = IF deadline[w] = Never THEN "block" ELSE "insert"]
        /\ UNCHANGED <<queues, todo, deadline, status, token>> /\ pc[w] = "arm"
    BY Zenon, <1>7 DEF Arm, Goto
  <2> QED BY Zenon, <2>1, <2>2, <2>3 DEF LoopType, PcSet
<1>8. ASSUME NEW w \in Waiters, Insert(w)
      PROVE  LoopType'
  BY Zenon, <1>8 DEF Insert, Goto, LoopType, PcSet
<1>9. ASSUME NEW w \in Waiters, Block(w)
      PROVE  LoopType'
  BY Zenon, <1>9 DEF Block, Goto, LoopType, PcSet, StatusSet
<1>10. ASSUME NEW w \in Waiters, Recheck(w)
      PROVE  LoopType'
  BY Zenon, <1>10 DEF Recheck, Goto, LoopType, PcSet
<1>11. ASSUME NEW w \in Waiters, Undo(w)
      PROVE  LoopType'
  BY Zenon, <1>11 DEF Undo, Goto, Wake, Woken, LoopType, PcSet, StatusSet
<1>12. ASSUME NEW w \in Waiters, SwitchOut(w)
      PROVE  LoopType'
  BY Zenon, <1>12 DEF SwitchOut, loopVars, LoopType, StatusSet
<1>13. ASSUME NEW w \in Waiters, Dispatch(w)
      PROVE  LoopType'
  BY Zenon, <1>13 DEF Dispatch, Goto, Leave, Closed, LoopType, PcSet, StatusSet, TokenSet
<1>14. ASSUME NEW w \in Waiters, FinishEntry(w)
      PROVE  LoopType'
  BY <1>14 DEF FinishEntry, Closed, LoopType, TokenSet
<1>15. ASSUME NEW w \in Waiters, Return(w)
      PROVE  LoopType'
  BY Zenon, <1>15 DEF Return, Goto, LoopType, PcSet
<1>16. ASSUME NEW w \in Waiters, Again(w)
      PROVE  LoopType'
  BY <1>16 DEF Again, Goto, LoopType, PcSet
<1>17. ASSUME NEW w \in Waiters, NEW d \in Deadlines, NEW qs \in Registrations, Call(w, d, qs)
      PROVE  LoopType'
  <2>1. qs \in Seq(Queues) /\ qs # <<>>
    BY Zenon, WaitAssumption
  <2>2. pc' = pc \/ pc' = [pc EXCEPT ![w] = "top"]
    BY Zenon, <1>17 DEF Call, Goto
  <2> QED BY Zenon, <1>17, <2>1, <2>2 DEF Call, timerVars, LoopType, PcSet
<1>18. ASSUME NEW w \in Waiters, SignalWake(w)
      PROVE  LoopType'
  BY Zenon, <1>18 DEF SignalWake, loopVars, Wake, Woken, LoopType, StatusSet
<1>19. ASSUME NEW p \in Producers, NotifyEntry(p)
      PROVE  LoopType'
  BY Zenon, <1>19 DEF NotifyEntry, loopVars, LoopType, TokenSet
<1>20. ASSUME NEW p \in Producers, BumpGeneration(p)
      PROVE  LoopType'
  <2>1. producer[p].task \in Waiters
    BY Zenon, <1>20 DEF BumpGeneration, QueueType
  <2> QED BY <1>20, <2>1 DEF BumpGeneration, loopVars, timerVars, LoopType
<1>21. ASSUME NEW p \in Producers, NEW w \in Waiters, WakeBatch(p, w)
      PROVE  LoopType'
  BY Zenon, <1>21 DEF WakeBatch, loopVars, Wake, Woken, LoopType, StatusSet
<1>22. ASSUME FireWake
      PROVE  LoopType'
  BY Zenon, <1>22 DEF FireWake, loopVars, Wake, Woken, LoopType, StatusSet
<1>23. ASSUME UNCHANGED <<loopVars, status, token, gen>>
      PROVE  LoopType'
  BY Zenon, <1>23 DEF loopVars, LoopType
<1> QED
  BY Zenon, <1>1, <1>2, <1>3, <1>4, <1>5, <1>6, <1>7, <1>8, <1>9, <1>10, <1>11, <1>12, <1>13, <1>14, <1>15, <1>16, <1>17, <1>18, <1>19, <1>20, <1>21, <1>22, <1>23, Frames
  DEF Frame, WritesLoop, OwnStep, WaiterStep

(* Taking an item never leaves a queue with more of them. *)
LEMMA TakeLess ==
  ASSUME QueueType, NEW w, NEW qs \in Seq(Queues), TakeFrom(w, qs)
  PROVE  items' \in [Queues -> Nat] /\ \A q \in Queues : items'[q] <= items[q]
<1>1. PICK x \in Elems(qs) : items[x] > 0 /\ (items' = items \/ items' = [items EXCEPT ![x] = @ - 1])
  BY Zenon DEF TakeFrom
<1>2. x \in Queues
  BY DEF Elems
<1>3. items \in [Queues -> Nat]
  BY Zenon DEF QueueType
<1>4. CASE items' = items
  BY <1>3, <1>4
<1>5. CASE items' = [items EXCEPT ![x] = @ - 1]
  <2>1. items[x] - 1 \in Nat /\ items[x] - 1 <= items[x]
    BY <1>1, <1>2, <1>3
  <2> QED BY <1>2, <1>3, <1>5, <2>1
<1> QED BY Zenon, <1>1, <1>4, <1>5

(* The queues, the locks, the signals and the producers keep their types. *)
LEMMA QueueTypeStep ==
  ASSUME RetainRemoves, LoopType, QueueType, [Next]_vars
  PROVE  QueueType'
<1>1. queue' \in [Queues -> Seq(Waiters)]
  BY Zenon, QueueMoves
<1>2. items' \in [Queues -> Nat]
  <2>1. ASSUME NEW v \in Waiters, CheckReady(v)
        PROVE  items' \in [Queues -> Nat]
    <3>1. TakeFrom(v, queues[v]) /\ queues[v] \in Seq(Queues)
      BY Zenon, <2>1 DEF CheckReady, Take, LoopType
    <3> QED BY Zenon, <3>1, TakeLess
  <2>2. ASSUME NEW v \in Waiters, NEW d \in Deadlines, NEW qs \in Registrations, Call(v, d, qs)
        PROVE  items' \in [Queues -> Nat]
    <3>1. TakeFrom(v, qs) \/ items' = items
      BY Zenon, <2>2 DEF Call
    <3>2. qs \in Seq(Queues)
      BY Zenon, WaitAssumption
    <3> QED BY Zenon, <3>1, <3>2, TakeLess DEF QueueType
  <2>3. ASSUME NEW r \in Producers, NEW x \in Queues, NEW limit \in Limits, Produce(r, x, limit)
        PROVE  items' \in [Queues -> Nat]
    BY <2>3 DEF Produce, QueueType
  <2>4. ASSUME items' = items
        PROVE  items' \in [Queues -> Nat]
    BY Zenon, <2>4 DEF QueueType
  <2> QED BY Zenon, <2>1, <2>2, <2>3, <2>4, Frames DEF Frame, WritesItems
<1>3. signal' \in [Waiters -> SignalSet]
  <2>1. signal \in [Waiters -> SignalSet]
    BY Zenon DEF QueueType
  <2>2. ASSUME NEW v \in Waiters, RaiseSignal(v)
        PROVE  signal' \in [Waiters -> SignalSet]
    BY Zenon, <2>1, <2>2 DEF RaiseSignal, SignalSet
  <2>3. ASSUME NEW v \in Waiters, SignalWake(v) \/ Return(v)
        PROVE  signal' \in [Waiters -> SignalSet]
    <3>1. \/ signal' = signal
          \/ signal' = [signal EXCEPT ![v] = [signal[v] EXCEPT !.wake = FALSE]]
          \/ signal' = [signal EXCEPT ![v] = [signal[v] EXCEPT !.pending = FALSE]]
      BY Zenon, <2>3 DEF SignalWake, Return
    <3>2. [signal[v] EXCEPT !.wake = FALSE] \in SignalSet /\ [signal[v] EXCEPT !.pending = FALSE] \in SignalSet
      BY Zenon, <2>1 DEF SignalSet
    <3> QED BY Zenon, <2>1, <3>1, <3>2
  <2> QED BY Zenon, <2>1, <2>2, <2>3, Frames DEF Frame, WritesSignal
<1>4. /\ ProducersType' /\ lock' \in [Queues -> Producers \cup {Nobody}]
      /\ \A p \in Producers : producer'[p].pc = "bump" => producer'[p].task \in Waiters
  <2>1. ASSUME NEW r \in Producers, Serves(r), ProducersType',
               \A y \in Producers \ {r} : producer'[y] = producer[y]
        PROVE  /\ lock' \in [Queues -> Producers \cup {Nobody}]
               /\ \A p \in Producers : producer'[p].pc = "bump" => producer'[p].task \in Waiters
    <3>1. lock' \in [Queues -> Producers \cup {Nobody}]
      BY Zenon, <2>1 DEF Serves, QueueType
    <3>2. producer'[r].pc = "bump" => producer'[r].task \in Waiters
      BY <2>1 DEF Serves, Takes, QueueType, Idle
    <3> QED BY Zenon, <2>1, <3>1, <3>2 DEF QueueType
  <2>2. ASSUME UNCHANGED <<lock, producer>>
        PROVE  /\ ProducersType' /\ lock' \in [Queues -> Producers \cup {Nobody}]
               /\ \A p \in Producers : producer'[p].pc = "bump" => producer'[p].task \in Waiters
    BY Zenon, <2>2 DEF QueueType, ProducersType
  <2>3. CASE WritesProducer
    <3>1. PICK r \in Producers : ProducerStep(r) \/ \E x \in Queues, limit \in Limits : Produce(r, x, limit)
      BY Zenon, <2>3 DEF WritesProducer
    <3> QED BY Zenon, <2>1, <3>1, WakerMoves
  <2> QED BY Zenon, <2>2, <2>3, Frames DEF Frame
<1> QED BY Zenon, <1>1, <1>2, <1>3, <1>4 DEF QueueType, ProducersType

(* w's entry may be in q: its round has begun and it has still to leave q. *)
Holds(w, q) ==
  /\ pc[w] \notin {"idle", "top"}
  /\ q \in IF pc[w] = "finish" THEN Elems(todo[w]) ELSE Elems(queues[w])
(* p has claimed w's notification and has still to wake w. *)
Claims(p, w) == producer[p] # Idle /\ (producer[p].task = w \/ w \in producer[p].batch)

TodoInv == \A w \in Waiters : pc[w] = "register" => Elems(todo[w]) \subseteq Elems(queues[w])
EntryInv == \A q \in Queues, w \in Waiters : w \in Elems(queue[q]) => Holds(w, q)
LockInv ==
  \A p \in Producers :
    /\ producer[p].pc \in {"scan", "bump", "wake"} => lock[producer[p].queue] = p
    /\ producer[p].pc \in {"lock", "scan", "wake"} => producer[p].task = Nobody
    /\ producer[p].pc = "lock" => producer[p].batch = {}
ClaimInv ==
  /\ \A p \in Producers, w \in Waiters :
       Claims(p, w) => token[w] = "NOTIFIED" /\ Holds(w, producer[p].queue)
  /\ \A p, r \in Producers, w \in Waiters : Claims(p, w) /\ Claims(r, w) => p = r

(* A registration lasts until its own finish_entry. *)
LEMMA HoldsStep ==
  ASSUME LoopType, [Next]_vars, NEW w \in Waiters, NEW q \in Queues, Holds(w, q),
         ~(FinishEntry(w) /\ q = Head(todo[w]))
  PROVE  Holds(w, q)'
<1>1. CASE ~OwnStep(w)
  BY Zenon, <1>1, OutsideMoves DEF FromOutside, Quiet, Keep, Holds
<1>2. CASE OwnStep(w)
  <2>0. Control(w) /\ Effect(w) /\ pc[w] \in PcSet
    BY Zenon, <1>2, OwnMoves DEF LoopType
  <2>1. CASE pc[w] = "finish"
    <3>1. pc'[w] = "finish" /\ FinishEntry(w) /\ todo'[w] = Tail(todo[w]) /\ todo[w] # <<>> /\ q \in Elems(todo[w])
      <4>1. q \in Elems(todo[w]) /\ todo[w] # <<>>
        BY Zenon, <2>1, EmptyElems DEF Holds, LoopType
      <4> QED BY Zenon, <2>0, <2>1, <4>1 DEF Control
    <3>2. q \in Elems(Tail(todo[w]))
      BY Zenon, <3>1, TailElems DEF LoopType
    <3> QED BY Zenon, <3>1, <3>2 DEF Holds
  <2>2. CASE pc[w] # "finish"
    <3>1. q \in Elems(queues[w]) /\ pc[w] \notin {"idle", "top"} /\ queues'[w] = queues[w]
      BY Zenon, <2>0, <2>2 DEF Holds, Effect, Keep
    <3>2. pc'[w] \notin {"idle", "top"} /\ (pc[w] = "register" => pc'[w] # "finish")
      BY Zenon, <2>0, <2>2, <3>1 DEF Control, PcSet
    <3>3. pc'[w] = "finish" => todo'[w] = queues[w]
      BY Zenon, <2>0, <2>2, <3>1, <3>2 DEF Effect
    <3> QED BY Zenon, <3>1, <3>2, <3>3 DEF Holds
  <2> QED BY Zenon, <2>1, <2>2
<1> QED BY Zenon, <1>1, <1>2

(* An entry comes from prepare_to_wait. *)
LEMMA EntryNew ==
  ASSUME RetainRemoves, LoopType, QueueType, [Next]_vars, NEW w \in Waiters, NEW q \in Queues, w \in Elems(queue'[q])
  PROVE  w \in Elems(queue[q]) \/ (Register(w) /\ q = Head(todo[w]))
BY Zenon, QueueMoves DEF Enters, Leaves, Pops

(* finish_entry leaves no entry behind, however often w was registered. *)
LEMMA EntryGone ==
  ASSUME RetainRemoves, LoopType, QueueType, NEW w \in Waiters, FinishEntry(w)
  PROVE  w \notin Elems(queue'[Head(todo[w])])
<1> DEFINE h == Head(todo[w])
<1>1. h \in Queues /\ queue' = [queue EXCEPT ![h] = Without(@, w)] /\ queue \in [Queues -> Seq(Waiters)]
  BY Zenon, TailElems DEF FinishEntry, LoopType, QueueType
<1>2. Elems(Without(queue[h], w)) = Elems(queue[h]) \ {w}
  BY Zenon, <1>1 DEF RetainRemoves
<1> HIDE DEF h
<1> QED BY Zenon, <1>1, <1>2 DEF h

(* A notification lasts as long as the round. *)
LEMMA NotifiedStays ==
  ASSUME LoopType, [Next]_vars, NEW w \in Waiters, token[w] = "NOTIFIED", pc[w] # "top"
  PROVE  token'[w] = "NOTIFIED"
<1>1. CASE ~OwnStep(w)
  BY Zenon, <1>1, OutsideMoves DEF FromOutside, Keep
<1>2. CASE OwnStep(w)
  BY Zenon, <1>2, OwnMoves DEF Effect, Keep, Closed
<1> QED BY Zenon, <1>1, <1>2

(* A producer comes to hold a claim by popping the entry of a round that waits. *)
LEMMA ClaimNew ==
  ASSUME LoopType, QueueType, [Next]_vars, NEW p \in Producers, NEW w \in Waiters, Claims(p, w)'
  PROVE  /\ producer'[p].queue = producer[p].queue
         /\ \/ Claims(p, w)
            \/ /\ producer[p].pc = "scan" /\ token[w] = "WAITING" /\ token'[w] = "NOTIFIED"
               /\ w \in Elems(queue[producer[p].queue]) /\ producer[p] # Idle
               /\ \A y \in Producers \ {p} : producer'[y] = producer[y]
<1>1. CASE producer'[p] = producer[p]
  BY Zenon, <1>1 DEF Claims
<1>2. CASE producer'[p] # producer[p]
  <2>1. PICK r \in Producers : ProducerStep(r) \/ \E x \in Queues, limit \in Limits : Produce(r, x, limit)
    BY Zenon, <1>2, Frames DEF Frame, WritesProducer
  <2>2. r = p
    BY Zenon, <1>2, <2>1, WakerMoves
  <2>3. Serves(p) /\ \A y \in Producers \ {p} : producer'[y] = producer[y]
    BY Zenon, <2>1, <2>2, WakerMoves
  <2>4. producer'[p] # Idle /\ (producer'[p].task = w \/ w \in producer'[p].batch) /\ w # Nobody
    BY Zenon, WaitAssumption DEF Claims
  <2>5. ~(producer[p] = Idle)
    BY <2>3, <2>4 DEF Serves, BusySet, Idle
  <2> QED BY Zenon, <1>2, <2>3, <2>4, <2>5 DEF Serves, Takes, Claims
<1> QED BY Zenon, <1>1, <1>2

(* What is left to register is part of what was asked for. *)
LEMMA TodoStep ==
  ASSUME LoopType, TodoInv, [Next]_vars
  PROVE  TodoInv'
<1> SUFFICES ASSUME NEW w \in Waiters, pc'[w] = "register"
             PROVE  Elems(todo'[w]) \subseteq Elems(queues'[w])
  BY Zenon DEF TodoInv
<1>1. CASE ~OwnStep(w)
  BY <1>1, OutsideMoves DEF FromOutside, Quiet, Keep, TodoInv
<1>2. CASE OwnStep(w)
  <2>0. Control(w) /\ Effect(w) /\ pc[w] \in PcSet
    BY Zenon, <1>2, OwnMoves DEF LoopType
  <2>1. pc[w] \in {"top", "register"} /\ queues'[w] = queues[w]
    BY Zenon, <2>0 DEF Control, Effect, Keep, PcSet
  <2>2. CASE pc[w] = "top"
    BY Zenon, <2>0, <2>1, <2>2 DEF Control
  <2>3. CASE pc[w] = "register"
    <3>1. todo'[w] = Tail(todo[w]) /\ todo[w] # <<>>
      BY Zenon, <2>0, <2>3 DEF Control, LoopType
    <3> QED BY Zenon, <2>1, <2>3, <3>1, TailElems DEF LoopType, TodoInv
  <2> QED BY Zenon, <2>1, <2>2, <2>3
<1> QED BY Zenon, <1>1, <1>2

(* A producer that scans, claims or wakes holds its queue's lock. *)
LEMMA LockStep ==
  ASSUME LoopType, QueueType, LockInv, [Next]_vars
  PROVE  LockInv'
<1> DEFINE G(p) == /\ producer'[p].pc \in {"scan", "bump", "wake"} => lock'[producer'[p].queue] = p
                   /\ producer'[p].pc \in {"lock", "scan", "wake"} => producer'[p].task = Nobody
                   /\ producer'[p].pc = "lock" => producer'[p].batch = {}
<1> SUFFICES ASSUME NEW p \in Producers
             PROVE  G(p)
  BY Zenon DEF LockInv
<1>0. producer[p] \in {Idle} \cup BusySet /\ lock \in [Queues -> Producers \cup {Nobody}]
  BY Zenon DEF QueueType
<1>1. CASE UNCHANGED <<lock, producer>>
  BY Zenon, <1>1 DEF LockInv
<1>2. ASSUME NEW r \in Producers, ProducerStep(r) \/ \E x \in Queues, limit \in Limits : Produce(r, x, limit)
      PROVE  G(p)
  <2>1. Serves(r) /\ \A y \in Producers \ {r} : producer'[y] = producer[y]
    BY Zenon, <1>2, WakerMoves
  <2>2. CASE p = r
    <3>1. Idle.pc = "idle" /\ (producer[p] \in BusySet => producer[p].queue \in Queues)
      BY DEF Idle, BusySet
    <3>2. /\ producer[p].pc \in {"scan", "bump", "wake"} => lock[producer[p].queue] = p
          /\ producer[p].pc \in {"lock", "scan", "wake"} => producer[p].task = Nobody
      BY Zenon DEF LockInv
    <3> QED BY Zenon, <1>0, <2>1, <2>2, <3>1, <3>2 DEF Serves
  <2>3. CASE p # r
    <3>1. producer'[p] = producer[p] /\ producer[p].pc \in {"scan", "bump", "wake"} =>
            producer[p] \in BusySet /\ lock[producer[p].queue] = p
      BY <1>0, <2>1, <2>3 DEF Idle, LockInv
    <3>2. producer[r].pc = "wake" => lock[producer[r].queue] = r
      BY Zenon DEF LockInv
    <3>3. producer[p].pc \in {"scan", "bump", "wake"} => lock'[producer[p].queue] = lock[producer[p].queue]
      <4>1. \/ lock' = lock
            \/ /\ lock[producer[r].queue] \in {r, Nobody}
               /\ \E y : lock' = [lock EXCEPT ![producer[r].queue] = y]
        BY Zenon, <2>1, <3>2 DEF Serves
      <4>2. p \notin {r, Nobody}
        BY Zenon, <2>3, WaitAssumption
      <4>3. producer[p] \in BusySet => producer[p].queue \in Queues
        BY Zenon DEF BusySet
      <4> QED BY Zenon, <1>0, <2>1, <2>3, <3>1, <4>1, <4>2, <4>3
    <3> QED BY Zenon, <2>1, <2>3, <3>3 DEF LockInv
  <2> QED BY Zenon, <2>2, <2>3
<1> QED BY Zenon, <1>1, <1>2, Frames DEF Frame, WritesProducer

(* No entry outlives the registration it belongs to. *)
LEMMA EntryStep ==
  ASSUME RetainRemoves, LoopType, QueueType, TodoInv, EntryInv, [Next]_vars
  PROVE  EntryInv'
<1> SUFFICES ASSUME NEW q \in Queues, NEW w \in Waiters, w \in Elems(queue'[q])
             PROVE  Holds(w, q)'
  BY Zenon DEF EntryInv
<1>1. CASE w \in Elems(queue[q])
  <2>1. Holds(w, q)
    BY Zenon, <1>1 DEF EntryInv
  <2>2. ~(FinishEntry(w) /\ q = Head(todo[w]))
    BY Zenon, EntryGone
  <2> QED BY Zenon, <2>1, <2>2, HoldsStep
<1>2. CASE Register(w) /\ q = Head(todo[w])
  <2>1. q \in Elems(queues[w])
    BY Zenon, <1>2, TailElems DEF Register, LoopType, TodoInv
  <2> QED BY Zenon, <1>2, <2>1 DEF Register, Goto, LoopType, Holds
<1> QED BY Zenon, <1>1, <1>2, EntryNew

(* A claim is on a token whose round is not over, and has one owner: the *)
(* entry it was popped from keeps finish_entry behind the lock.          *)
LEMMA ClaimStep ==
  ASSUME LoopType, QueueType, EntryInv, LockInv, ClaimInv, [Next]_vars
  PROVE  ClaimInv'
<1>1. ASSUME NEW p \in Producers, NEW w \in Waiters, Claims(p, w)'
      PROVE  token'[w] = "NOTIFIED" /\ Holds(w, producer[p].queue)'
  <2>h. PICK h : h = producer[p].queue
    BY Zenon
  <2>q. producer'[p].queue = h
    BY Zenon, <1>1, <2>h, ClaimNew
  <2>1. CASE Claims(p, w)
    <3>1. token[w] = "NOTIFIED" /\ Holds(w, h) /\ producer[p] \in BusySet
      BY Zenon, <2>h, <2>1 DEF ClaimInv, Claims, QueueType
    <3>2. producer[p].pc \in {"scan", "bump", "wake"}
      BY Zenon, <2>1, <3>1, WaitAssumption DEF Claims, BusySet, LockInv
    <3>3. h \in Queues /\ lock[h] # Nobody
      BY <2>h, <3>1, <3>2, WaitAssumption DEF LockInv, BusySet
    <3>4. ~(FinishEntry(w) /\ h = Head(todo[w]))
      BY Zenon, <3>3 DEF FinishEntry
    <3>5. Holds(w, h)'
      BY Zenon, <3>1, <3>3, <3>4, HoldsStep
    <3>6. token'[w] = "NOTIFIED"
      BY Zenon, <3>1, NotifiedStays DEF Holds
    <3> QED BY Zenon, <2>q, <3>5, <3>6
  <2>2. CASE ~Claims(p, w)
    <3>1. /\ token[w] = "WAITING" /\ token'[w] = "NOTIFIED" /\ producer[p].pc = "scan"
          /\ w \in Elems(queue[h]) /\ producer[p] # Idle
      BY Zenon, <1>1, <2>h, <2>2, ClaimNew
    <3>2. producer[p] \in BusySet /\ h \in Queues
      BY Zenon, <2>h, <3>1 DEF QueueType, BusySet
    <3>3. Holds(w, h) /\ lock[h] # Nobody
      BY Zenon, <2>h, <3>1, <3>2, WaitAssumption DEF EntryInv, LockInv
    <3>4. ~(FinishEntry(w) /\ h = Head(todo[w]))
      BY Zenon, <3>3 DEF FinishEntry
    <3>5. Holds(w, h)'
      BY Zenon, <3>2, <3>3, <3>4, HoldsStep
    <3> QED BY Zenon, <2>q, <3>1, <3>5
  <2> QED BY Zenon, <2>1, <2>2
<1>2. ASSUME NEW p \in Producers, NEW y \in Producers, NEW w \in Waiters, Claims(p, w)', Claims(y, w)', p # y
      PROVE  FALSE
  <2>1. CASE Claims(p, w) /\ Claims(y, w)
    BY Zenon, <1>2, <2>1 DEF ClaimInv
  <2>2. CASE ~Claims(p, w)
    <3>1. token[w] = "WAITING" /\ producer'[y] = producer[y]
      BY Zenon, <1>2, <2>2, ClaimNew
    <3>2. Claims(y, w)
      BY Zenon, <1>2, <3>1 DEF Claims
    <3> QED BY Zenon, <3>1, <3>2 DEF ClaimInv
  <2>3. CASE ~Claims(y, w)
    <3>1. token[w] = "WAITING" /\ producer'[p] = producer[p]
      BY <1>2, <2>3, ClaimNew
    <3>2. Claims(p, w)
      BY Zenon, <1>2, <3>1 DEF Claims
    <3> QED BY Zenon, <3>1, <3>2 DEF ClaimInv
  <2> QED BY Zenon, <2>1, <2>2, <2>3
<1> QED BY Zenon, <1>1, <1>2 DEF ClaimInv

(* A signal that a sleeping task has not been woken for is about to wake it; *)
(* a notification that it sleeps on is in the hands of its producer.         *)
SignalInv == \A w \in Waiters : Sleeps(w) /\ signal[w].pending => signal[w].wake
NotifiedInv == \A w \in Waiters : Sleeps(w) /\ token[w] = "NOTIFIED" => \E p \in Producers : Claims(p, w)

(* Waking ends a sleep. *)
LEMMA WakeEnds ==
  ASSUME LoopType, NEW w \in Waiters, Wake(w)
  PROVE  ~Sleeps(w)'
BY Zenon DEF Wake, Woken, LoopType, StatusSet, Sleeps

(* A task goes to sleep for good in one place. *)
LEMMA SleepNew ==
  ASSUME LoopType, [Next]_vars, NEW w \in Waiters, Sleeps(w)'
  PROVE  (Sleeps(w) /\ (Keep(token, w) \/ ~OwnStep(w))) \/ (Recheck(w) /\ ShouldBlock(w))
<1>1. CASE ~OwnStep(w)
  BY Zenon, <1>1, OutsideMoves DEF FromOutside, Quiet, Keep, Sleeps, Woken, LoopType, StatusSet
<1>2. CASE OwnStep(w)
  <2>0. Control(w) /\ Effect(w) /\ pc[w] \in PcSet /\ status[w] \in StatusSet
    BY Zenon, <1>2, OwnMoves DEF LoopType
  <2>1. pc[w] \in {"recheck", "undo", "asleep"} /\ pc'[w] = "asleep" /\ status'[w] \in {"Blocking", "Blocked"}
    BY Zenon, <2>0 DEF Control, PcSet, Sleeps
  <2>2. CASE pc[w] = "recheck"
    BY Zenon, <2>0, <2>1, <2>2 DEF Control, Recheck, Goto, LoopType
  <2>3. CASE pc[w] = "undo"
    BY Zenon, <2>0, <2>1, <2>3 DEF Effect, Woken, StatusSet
  <2>4. CASE pc[w] = "asleep"
    BY Zenon, <2>0, <2>1, <2>4 DEF Effect, Keep, Sleeps
  <2> QED BY Zenon, <2>1, <2>2, <2>3, <2>4
<1> QED BY Zenon, <1>1, <1>2

(* No task goes to sleep over a signal whose sender is done with it. *)
LEMMA SignalStep ==
  ASSUME LoopType, QueueType, SignalInv, [Next]_vars
  PROVE  SignalInv'
<1> SUFFICES ASSUME NEW w \in Waiters, Sleeps(w)', signal'[w].pending
             PROVE  signal'[w].wake
  BY Zenon DEF SignalInv
<1>r. CASE Recheck(w) /\ ShouldBlock(w)
  BY Zenon, <1>r DEF Recheck, ShouldBlock
<1> SUFFICES ASSUME Sleeps(w) PROVE signal'[w].wake
  BY Zenon, <1>r, SleepNew
<1>1. CASE signal' = signal
  BY Zenon, <1>1 DEF SignalInv
<1>2. ASSUME NEW v \in Waiters, Return(v)
      PROVE  signal'[w].wake
  <2>1. signal'[w] = signal[w] \/ signal'[w] = [signal[w] EXCEPT !.pending = FALSE]
    BY Zenon, <1>2 DEF Return, QueueType
  <2>2. [signal[w] EXCEPT !.pending = FALSE].pending = FALSE
    BY Zenon DEF QueueType, SignalSet
  <2> QED BY Zenon, <2>1, <2>2 DEF SignalInv
<1>3. ASSUME NEW v \in Waiters, RaiseSignal(v)
      PROVE  signal'[w].wake
  BY Zenon, <1>3 DEF RaiseSignal, QueueType, SignalSet, SignalInv
<1>4. ASSUME NEW v \in Waiters, SignalWake(v)
      PROVE  signal'[w].wake
  <2>1. v # w
    BY Zenon, <1>4, WakeEnds DEF SignalWake
  <2> QED BY Zenon, <1>4, <2>1 DEF SignalWake, QueueType, SignalInv
<1> QED BY Zenon, <1>1, <1>2, <1>3, <1>4, Frames DEF Frame, WritesSignal

(* No task goes to sleep over a notification whose producer is done with it. *)
LEMMA NotifiedStep ==
  ASSUME LoopType, QueueType, LockInv, NotifiedInv, [Next]_vars
  PROVE  NotifiedInv'
<1> DEFINE G(w) == \E p \in Producers : Claims(p, w)'
<1> SUFFICES ASSUME NEW w \in Waiters, Sleeps(w)', token'[w] = "NOTIFIED"
             PROVE  G(w)
  BY Zenon DEF NotifiedInv
<1>r. CASE Recheck(w) /\ ShouldBlock(w)
  BY Zenon, <1>r DEF Recheck, ShouldBlock
<1>0. producer \in [Producers -> {Idle} \cup BusySet]
  BY Zenon DEF QueueType
<1>1. ASSUME Sleeps(w), token[w] = "NOTIFIED"
      PROVE  G(w)
  <2>1. PICK p \in Producers : Claims(p, w)
    BY Zenon, <1>1 DEF NotifiedInv
  <2>2. CASE producer'[p] = producer[p]
    BY Zenon, <2>1, <2>2 DEF Claims
  <2>3. CASE producer'[p] # producer[p]
    <3>1. PICK r \in Producers : ProducerStep(r) \/ \E x \in Queues, limit \in Limits : Produce(r, x, limit)
      BY Zenon, <2>3, Frames DEF Frame, WritesProducer
    <3>2. Serves(p)
      BY Zenon, <2>3, <3>1, WakerMoves
    <3>3. /\ producer[p] \in BusySet /\ w # Nobody /\ (producer[p].task = w \/ w \in producer[p].batch)
          /\ producer[p].pc \in {"scan", "wake"} => producer[p].task = Nobody
      BY Zenon, <1>0, <2>1, WaitAssumption DEF Claims, LockInv
    <3>4. \A v \in Waiters : Wake(v) => v # w
      BY Zenon, WakeEnds
    <3>5. producer'[p] \in BusySet
      BY Zenon, <3>2, <3>3 DEF Serves, BusySet, Idle
    <3>6. \/ producer'[p].batch = producer[p].batch /\ (producer'[p].task = producer[p].task \/ producer[p].pc = "scan")
          \/ producer'[p].batch = producer[p].batch \cup {producer[p].task}
          \/ \E v \in Waiters : producer'[p].batch = producer[p].batch \ {v} /\ Wake(v) /\ producer'[p].task = producer[p].task
      <4>1. producer[p] # Idle /\ producer'[p] # Idle
        BY Zenon, <2>1, <3>5, BusyNotIdle DEF Claims
      <4> QED BY Zenon, <3>2, <4>1 DEF Serves
    <3>7. producer'[p].task = w \/ w \in producer'[p].batch
      BY <3>3, <3>4, <3>6
    <3> QED BY <3>5, <3>7 DEF Claims, BusySet, Idle
  <2> QED BY Zenon, <2>2, <2>3
<1>2. ASSUME token[w] = "WAITING", NEW r \in Producers, NotifyEntry(r)
      PROVE  G(w)
  <2> DEFINE h == producer[r].queue
             v == Head(queue[h])
             b == [producer[r] EXCEPT !.pc = "bump", !.task = v]
  <2>1. b.task = v /\ b.pc = "bump" /\ Idle.pc # "bump"
    BY <1>0, <1>2 DEF BusySet, Idle, NotifyEntry
  <2>2. \/ token' = token
        \/ producer' = [producer EXCEPT ![r] = b] /\ token' = [token EXCEPT ![v] = "NOTIFIED"]
    BY Zenon, <1>2 DEF NotifyEntry
  <2> HIDE DEF b, v
  <2>3. w = v /\ producer' = [producer EXCEPT ![r] = b]
    BY Zenon, <1>2, <2>2 DEF LoopType
  <2> QED BY Zenon, <1>0, <2>1, <2>3 DEF Claims
<1>3. CASE Sleeps(w) /\ ~OwnStep(w)
  BY Zenon, <1>1, <1>2, <1>3, OutsideMoves DEF FromOutside, Keep
<1>4. CASE Sleeps(w) /\ Keep(token, w)
  BY Zenon, <1>1, <1>4 DEF Keep
<1> QED BY Zenon, <1>r, <1>3, <1>4, SleepNew

(* Generations: what wait_with_timeout took is the newest, unless a producer *)
(* has claimed the round.                                                    *)
GenInv == \A w \in Waiters : pc[w] = "insert" => armed[w] = gen[w] \/ token[w] = "NOTIFIED"
(* What has been popped is due. *)
DueInv == \A t \in expired : t.deadline <= now
HasTimer(w) == \E t \in timers \cup expired : t.task = w /\ Live(t) /\ t.deadline = deadline[w]
Covered(w) == HasTimer(w) \/ Evicted(w)
CoverInv ==
  /\ \A w \in Waiters : pc[w] \in {"block", "recheck"} /\ deadline[w] # Never =>
       Covered(w) \/ token[w] = "NOTIFIED" \/ Expired(w)
  /\ TimeoutNotLost

(* A deadline other than Never is a time. *)
LEMMA DeadlineNat == \A d \in Deadlines \ {Never} : d \in Nat
<1>1. MaxTime \in Nat /\ Deadlines \ {Never} \subseteq 0 .. MaxTime
  BY Zenon, WaitAssumption
<1> QED BY <1>1

(* A producer bumps a generation only after it has claimed the token. *)
LEMMA GenStep ==
  ASSUME LoopType, ClaimInv, GenInv, [Next]_vars
  PROVE  GenInv'
<1> SUFFICES ASSUME NEW w \in Waiters, pc'[w] = "insert"
             PROVE  armed'[w] = gen'[w] \/ token'[w] = "NOTIFIED"
  BY Zenon DEF GenInv
<1>1. CASE OwnStep(w)
  <2>0. Control(w) /\ Effect(w) /\ pc[w] \in PcSet
    BY Zenon, <1>1, OwnMoves DEF LoopType
  <2>1. pc[w] = "arm"
    BY Zenon, <2>0 DEF Control, PcSet
  <2> QED BY Zenon, <2>0, <2>1 DEF Control
<1>2. CASE ~OwnStep(w)
  <2>0. FromOutside(w)
    BY Zenon, <1>2, OutsideMoves
  <2>1. pc[w] = "insert" /\ armed'[w] = armed[w]
    BY Zenon, <2>0 DEF FromOutside, Quiet, Keep
  <2>2. token[w] = "NOTIFIED" => token'[w] = "NOTIFIED"
    BY Zenon, <2>1, NotifiedStays
  <2>3. CASE gen'[w] = gen[w]
    BY Zenon, <2>1, <2>2, <2>3 DEF GenInv
  <2>4. ASSUME NEW r \in Producers, BumpGeneration(r), producer[r].task = w
        PROVE  token[w] = "NOTIFIED"
    <3>1. Claims(r, w)
      BY <2>4 DEF Claims, Idle, BumpGeneration
    <3> QED BY Zenon, <3>1 DEF ClaimInv
  <2> QED BY Zenon, <2>0, <2>2, <2>3, <2>4 DEF FromOutside, Keep
<1> QED BY Zenon, <1>1, <1>2

(* The clock does not go back. *)
LEMMA ClockStep ==
  ASSUME TimerType, [Next]_vars
  PROVE  now' \in Nat /\ now' >= now
BY Frames DEF Frame, Tick, TimerType

(* A wait with a deadline comes to block with its timer inserted. *)
LEMMA BlockNew ==
  ASSUME LoopType, [Next]_vars, NEW w \in Waiters, pc'[w] \in {"block", "recheck", "asleep"}, deadline'[w] # Never
  PROVE  /\ deadline'[w] = deadline[w]
         /\ pc'[w] # "asleep" => pc[w] \in {"block", "recheck"} \/ Insert(w)
<1>1. CASE OwnStep(w)
  <2>1. Control(w) /\ Effect(w) /\ pc[w] \in PcSet
    BY Zenon, <1>1, OwnMoves DEF LoopType
  <2>2. pc[w] # "idle"
    BY Zenon, <2>1 DEF Control
  <2>3. deadline'[w] = deadline[w]
    BY Zenon, <2>1, <2>2 DEF Effect, Keep
  <2>4. pc'[w] # "asleep" => pc[w] \in {"arm", "insert", "block"}
    BY <2>1, <2>2 DEF Control, PcSet
  <2>5. pc[w] = "arm" => pc'[w] = "insert"
    BY Zenon, <2>1, <2>3 DEF Control
  <2> QED BY Zenon, <2>1, <2>3, <2>4, <2>5 DEF Control
<1>2. CASE ~OwnStep(w)
  BY Zenon, <1>2, OutsideMoves DEF FromOutside, Quiet, Keep
<1> QED BY Zenon, <1>1, <1>2

(* The timer CPU keeps a task it has matched until it has woken it. *)
LEMMA FiringStep ==
  ASSUME LoopType, TimerType, [Next]_vars, NEW w \in Waiters, firing = w, Sleeps(w)'
  PROVE  firing' = w
<1>1. w # Nobody
  BY Zenon, WaitAssumption
<1>2. ~Wake(w)
  BY Zenon, WakeEnds
<1>3. ASSUME NEW t \in expired, RunTimer(t)
      PROVE  firing' = w
  BY Zenon, <1>1, <1>3 DEF RunTimer
<1>4. ~FireWake
  BY Zenon, <1>2 DEF FireWake
<1> QED BY Zenon, <1>3, <1>4, Frames DEF Frame, WritesFiring

(* wake_all: no producer stops before it has looked at every waiter. *)
WakeEveryone ==
  IsFiniteSet(Waiters) /\ \A limit \in Limits : Cardinality(Waiters) <= limit

Inside == {"check", "checked", "arm", "insert", "block", "recheck", "undo", "asleep"}
(* w has been through prepare_to_wait for q. *)
Listens(w, q) ==
  q \in Sources(w) /\ (pc[w] \in Inside \/ (pc[w] = "register" /\ q \notin Elems(todo[w])))
(* An unclaimed token is in every queue it was put in. *)
ListenInv ==
  \A w \in Waiters, q \in Queues : token[w] = "WAITING" /\ Listens(w, q) => w \in Elems(queue[q])
(* An event that came after the second check is still to be announced. *)
EventInv ==
  \A w \in Waiters, q \in Queues :
    token[w] = "WAITING" /\ q \in Sources(w) /\ pc[w] \in Inside \ {"check"} /\ items[q] > 0
      => \E p \in Producers : Looks(p, q)

(* An entry leaves its queue only with its token claimed or closed. *)
LEMMA EntryStays ==
  ASSUME RetainRemoves, LoopType, QueueType, [Next]_vars, NEW w \in Waiters, NEW q \in Queues, w \in Elems(queue[q])
  PROVE  w \in Elems(queue'[q]) \/ token'[w] # "WAITING"
<1>1. ASSUME NEW v \in Waiters, FinishEntry(v)
      PROVE  token'[v] # "WAITING"
  BY Zenon, <1>1, OwnMoves DEF OwnStep, WaiterStep, Effect
<1> QED BY Zenon, <1>1, QueueMoves DEF Enters, Leaves, Pops

(* Only a new round makes a token WAITING. *)
LEMMA WaitingNew ==
  ASSUME LoopType, [Next]_vars, NEW w \in Waiters, token'[w] = "WAITING"
  PROVE  token[w] = "WAITING" \/ NewRound(w)
<1>1. CASE OwnStep(w)
  <2>1. CASE pc[w] = "top"
    BY Zenon, <1>1, <2>1, OwnMoves DEF Control, Keep
  <2>2. CASE pc[w] # "top"
    BY Zenon, <1>1, <2>2, OwnMoves DEF Effect, Closed
  <2> QED BY Zenon, <2>1, <2>2
<1>2. CASE ~OwnStep(w)
  BY Zenon, <1>2, OutsideMoves DEF FromOutside, Keep
<1> QED BY Zenon, <1>1, <1>2

(* A queue is listened to from its prepare_to_wait on. *)
LEMMA ListensNew ==
  ASSUME LoopType, [Next]_vars, NEW w \in Waiters, NEW q \in Queues, Listens(w, q)'
  PROVE  (Listens(w, q) /\ ~NewRound(w)) \/ (Register(w) /\ q = Head(todo[w]))
<1>1. CASE OwnStep(w)
  <2>0. Control(w) /\ Effect(w) /\ pc[w] \in PcSet
    BY Zenon, <1>1, OwnMoves DEF LoopType
  <2>1. CASE pc[w] = "top"
    BY Zenon, <2>0, <2>1 DEF Control, Effect, Keep, Listens, Sources, Inside
  <2>2. CASE pc[w] = "register"
    <3>1. /\ Register(w) /\ todo'[w] = Tail(todo[w]) /\ todo[w] \in Seq(Queues) /\ todo[w] # <<>>
          /\ pc'[w] = IF Len(todo[w]) = 1 THEN "check" ELSE "register"
      BY Zenon, <2>0, <2>2 DEF Control, LoopType
    <3>2. /\ Tail(todo[w]) \in Seq(Queues) /\ Elems(todo[w]) = Elems(Tail(todo[w])) \cup {Head(todo[w])}
      BY Zenon, <3>1, TailElems
    <3>3. q \in Sources(w)
      BY Zenon, <2>0, <2>2 DEF Effect, Keep, Listens, Sources
    <3>4. q \notin Elems(todo[w]) => Listens(w, q) /\ ~NewRound(w)
      BY Zenon, <2>2, <3>3 DEF Listens, NewRound
    <3>5. CASE pc'[w] = "register"
      BY Zenon, <3>1, <3>2, <3>4, <3>5 DEF Listens, Inside
    <3>6. CASE Len(todo[w]) = 1
      <4>0. Tail(todo[w]) = <<>>
        BY Zenon, <3>1, <3>6, TailElems
      <4>1. Elems(Tail(todo[w])) = {}
        BY Zenon, <3>2, <4>0, EmptyElems
      <4> QED BY Zenon, <3>1, <3>2, <3>4, <4>1
    <3> QED BY Zenon, <3>1, <3>5, <3>6
  <2>3. CASE pc[w] \notin {"top", "register"}
    <3>1. pc'[w] \in Inside /\ pc[w] \in Inside
      BY Zenon, <2>0, <2>3 DEF Control, PcSet, Inside, Listens
    <3>2. q \in Sources(w)
      BY Zenon, <2>0, <3>1 DEF Effect, Keep, Listens, Sources, Inside
    <3> QED BY Zenon, <2>3, <3>1, <3>2 DEF Listens, NewRound
  <2> QED BY Zenon, <2>1, <2>2, <2>3
<1>2. CASE ~OwnStep(w)
  BY Zenon, <1>2, OutsideMoves DEF FromOutside, Quiet, Keep, Listens, Sources, OwnStep, WaiterStep
<1> QED BY Zenon, <1>1, <1>2

(* An unclaimed token stays in every queue it was put in. *)
LEMMA ListenStep ==
  ASSUME RetainRemoves, LoopType, QueueType, ListenInv, [Next]_vars
  PROVE  ListenInv'
<1> SUFFICES ASSUME NEW w \in Waiters, NEW q \in Queues, token'[w] = "WAITING", Listens(w, q)'
             PROVE  w \in Elems(queue'[q])
  BY Zenon DEF ListenInv
<1>1. CASE Listens(w, q) /\ ~NewRound(w)
  <2>1. w \in Elems(queue[q])
    BY Zenon, <1>1, WaitingNew DEF ListenInv
  <2> QED BY Zenon, <2>1, EntryStays
<1>2. CASE Register(w) /\ q = Head(todo[w])
  <2>1. queue'[q] = Append(queue[q], w) /\ queue[q] \in Seq(Waiters)
    BY Zenon, <1>2 DEF Register, QueueType
  <2> QED BY <2>1, PushElems
<1> QED BY Zenon, <1>1, <1>2, ListensNew

(* An event after the second check comes with a producer that announces it. *)
LEMMA EventNew ==
  ASSUME LoopType, QueueType, [Next]_vars, NEW w \in Waiters, NEW q \in Queues,
         (q \in Sources(w))', pc'[w] \in Inside \ {"check"}, items'[q] > 0
  PROVE  \/ q \in Sources(w) /\ pc[w] \in Inside \ {"check"} /\ items[q] > 0
         \/ \E p \in Producers : Looks(p, q)'
<1>1. /\ q \in Sources(w) /\ pc[w] \in Inside
      /\ pc[w] = "check" => CheckFails(w)
  <2>1. CASE OwnStep(w)
    <3>0. Control(w) /\ Effect(w) /\ pc[w] \in PcSet
      BY Zenon, <2>1, OwnMoves DEF LoopType
    <3>1. pc[w] \in Inside /\ (pc[w] = "check" => CheckFails(w))
      BY Zenon, <3>0 DEF Control, PcSet, Inside
    <3> QED BY Zenon, <3>0, <3>1 DEF Effect, Keep, Sources, Inside
  <2>2. CASE ~OwnStep(w)
    BY Zenon, <2>2, OutsideMoves DEF FromOutside, Quiet, Keep, Sources
  <2> QED BY Zenon, <2>1, <2>2
<1>2. items[q] > 0 \/ \E p \in Producers : Looks(p, q)'
  <2>0. items \in [Queues -> Nat]
    BY Zenon DEF QueueType
  <2>1. ASSUME NEW v \in Waiters, NEW qs \in Seq(Queues), TakeFrom(v, qs)
        PROVE  items[q] > 0
    <3>1. items'[q] <= items[q] /\ items'[q] \in Nat
      BY Zenon, <2>1, TakeLess
    <3> QED BY <2>0, <3>1
  <2>2. ASSUME NEW v \in Waiters, CheckReady(v)
        PROVE  items[q] > 0
    BY Zenon, <2>1, <2>2 DEF CheckReady, Take, LoopType
  <2>3. ASSUME NEW v \in Waiters, NEW d \in Deadlines, NEW qs \in Registrations, Call(v, d, qs)
        PROVE  items[q] > 0
    BY Zenon, <2>1, <2>3, WaitAssumption DEF Call
  <2>4. ASSUME NEW r \in Producers, NEW x \in Queues, NEW limit \in Limits, Produce(r, x, limit)
        PROVE  items[q] > 0 \/ Looks(r, q)'
    <3>1. items' = [items EXCEPT ![x] = @ + 1]
      BY Zenon, <2>4 DEF Produce
    <3>2. CASE x = q
      <4> DEFINE b == [pc |-> "lock", queue |-> q, limit |-> limit, task |-> Nobody, batch |-> {}]
      <4>1. producer' = [producer EXCEPT ![r] = b] /\ b.pc = "lock" /\ b.queue = q /\ Idle.pc # "lock"
        BY Zenon, <2>4, <3>2 DEF Produce, Idle
      <4> HIDE DEF b
      <4> QED BY Zenon, <4>1 DEF Looks, QueueType
    <3>3. CASE x # q
      BY Zenon, <2>0, <3>1, <3>3
    <3> QED BY Zenon, <3>2, <3>3
  <2> QED BY Zenon, <2>2, <2>3, <2>4, Frames DEF Frame, WritesItems
<1>3. CheckFails(w) => items'[q] = items[q] /\ ~(items[q] > 0)
  BY Zenon, <1>1 DEF CheckFails, Ready, ReadyIn, Sources
<1> QED BY Zenon, <1>1, <1>2, <1>3

-----------------------------------------------------------------------------
INSTANCE FiniteSetTheorems

(* Ranks count up to the number kept, and keep the order. *)
LEMMA RankStrict ==
  ASSUME NEW K, IsFiniteSet(K), K \subseteq Nat, NEW i \in K, NEW j \in K
  PROVE  /\ Rank(K, j) \in 1 .. Cardinality(K)
         /\ i < j => Rank(K, i) < Rank(K, j)
<1> DEFINE Up(x) == { k \in K : k <= x }
<1>1. \A x \in K : /\ IsFiniteSet(Up(x)) /\ Cardinality(Up(x)) \in Nat
                   /\ Cardinality(Up(x)) <= Cardinality(K) /\ Rank(K, x) = Cardinality(Up(x))
  <2> SUFFICES ASSUME NEW x \in K
               PROVE  /\ IsFiniteSet(Up(x)) /\ Cardinality(Up(x)) \in Nat
                      /\ Cardinality(Up(x)) <= Cardinality(K) /\ Rank(K, x) = Cardinality(Up(x))
    BY Zenon
  <2>1. Up(x) \in SUBSET K
    BY Zenon
  <2>2. IsFiniteSet(Up(x)) /\ Cardinality(Up(x)) <= Cardinality(K)
    BY Zenon, <2>1, FS_Subset
  <2>3. Rank(K, x) = Cardinality(Up(x))
    BY Zenon DEF Rank
  <2> QED BY Zenon, <2>2, <2>3, FS_CardinalityType
<1>2. Cardinality(K) \in Nat
  BY Zenon, FS_CardinalityType
<1>3. Cardinality(Up(j)) # 0
  <2>1. j \in Up(j)
    OBVIOUS
  <2> QED BY Zenon, <2>1, <1>1, FS_EmptySet
<1>4. ASSUME i < j PROVE Cardinality(Up(i)) < Cardinality(Up(j))
  <2>1. Up(i) \in SUBSET Up(j) /\ Up(i) # Up(j)
    <3>1. j \in Up(j) /\ j \notin Up(i)
      BY <1>4
    <3>2. ASSUME NEW k \in K, k <= i PROVE k <= j
      BY <1>4, <3>2
    <3> QED BY Zenon, <3>1, <3>2
  <2>2. IsFiniteSet(Up(j))
    BY Zenon, <1>1
  <2> HIDE DEF Up
  <2>3. Cardinality(Up(i)) <= Cardinality(Up(j)) /\ Cardinality(Up(j)) # Cardinality(Up(i))
    BY Zenon, <2>1, <2>2, FS_Subset
  <2> QED BY <1>1, <2>3
<1> HIDE DEF Up
<1> QED BY <1>1, <1>2, <1>3, <1>4

(* retain drops every entry of w and no other. *)
LEMMA WithoutElems ==
  ASSUME NEW S, NEW s \in Seq(S), NEW w
  PROVE  /\ Without(s, w) \in Seq(S)
         /\ Elems(Without(s, w)) = Elems(s) \ {w}
<1> DEFINE K == Kept(s, w)
           n == Cardinality(K)
           At(i) == CHOOSE j \in K : Rank(K, j) = i
<1>1. K \subseteq 1 .. Len(s) /\ Len(s) \in Nat /\ DOMAIN s = 1 .. Len(s)
  BY DEF Kept
<1>2. IsFiniteSet(K) /\ n \in Nat /\ K \subseteq Nat
  <2>1. IsFiniteSet(1 .. Len(s))
    BY <1>1, FS_Interval
  <2>2. K \in SUBSET (1 .. Len(s))
    BY Zenon, <1>1
  <2>3. IsFiniteSet(K)
    BY Zenon, <2>1, <2>2, FS_Subset
  <2> QED BY <1>1, <2>3, FS_CardinalityType
<1>w. Without(s, w) = [i \in 1 .. n |-> s[At(i)]]
  BY Zenon DEF Without
<1>k. \A j \in K : s[j] # w /\ s[j] \in S /\ j \in DOMAIN s
  BY DEF Kept
<1>e. \A j \in DOMAIN s : s[j] # w => j \in K
  BY Zenon DEF Kept
<1> HIDE DEF K
<1>3. \A j \in K : Rank(K, j) \in 1 .. n
  BY Zenon, <1>2, RankStrict
<1>4. \A i, j \in K : i < j => Rank(K, i) < Rank(K, j)
  BY Zenon, <1>2, RankStrict
<1>5. \A i, j \in K : Rank(K, i) = Rank(K, j) => i = j
  <2> SUFFICES ASSUME NEW i \in K, NEW j \in K, Rank(K, i) = Rank(K, j), i # j PROVE FALSE
    BY Zenon
  <2>1. i \in Nat /\ j \in Nat /\ Rank(K, i) \in Nat /\ Rank(K, j) \in Nat
    BY <1>2, <1>3
  <2>2. i < j \/ j < i
    BY <2>1
  <2>3. Rank(K, i) < Rank(K, j) \/ Rank(K, j) < Rank(K, i)
    BY Zenon, <2>2, <1>4
  <2> QED BY <2>1, <2>3
<1>6. \A i \in 1 .. n : \E j \in K : Rank(K, j) = i
  <2> DEFINE f == [j \in K |-> Rank(K, j)]
  <2>1. f \in [K -> 1 .. n]
    BY Zenon, <1>3
  <2>2. f \in Injection(K, 1 .. n)
    BY Zenon, <2>1, <1>5 DEF Injection, IsInjective
  <2>3. IsFiniteSet(1 .. n) /\ Cardinality(1 .. n) = n
    BY <1>2, FS_Interval
  <2> HIDE DEF f
  <2>4. f \in Surjection(K, 1 .. n)
    BY Zenon, <2>2, <2>3, FS_Injection
  <2>5. \A i \in 1 .. n : \E j \in K : f[j] = i
    BY Zenon, <2>4 DEF Surjection
  <2> QED BY Zenon, <2>5 DEF f
<1>7. \A i \in 1 .. n : At(i) \in K /\ Rank(K, At(i)) = i
  BY Zenon, <1>6
<1>8. \A j \in K : Rank(K, j) \in 1 .. n /\ At(Rank(K, j)) = j
  BY Zenon, <1>3, <1>5, <1>7
<1> HIDE DEF n, At
<1>9. Without(s, w) \in Seq(S) /\ DOMAIN Without(s, w) = 1 .. n
  <2>1. Without(s, w) \in [1 .. n -> S]
    BY Zenon, <1>w, <1>7, <1>k
  <2> QED BY <1>2, <2>1
<1>10. ASSUME NEW x \in Elems(Without(s, w)) PROVE x \in Elems(s) \ {w}
  <2>1. PICK i \in 1 .. n : x = s[At(i)]
    BY Zenon, <1>9, <1>w DEF Elems
  <2> QED BY Zenon, <2>1, <1>7, <1>k DEF Elems
<1>11. ASSUME NEW x \in Elems(s) \ {w} PROVE x \in Elems(Without(s, w))
  <2>1. PICK j \in DOMAIN s : x = s[j]
    BY Zenon DEF Elems
  <2>2. j \in K
    BY Zenon, <2>1, <1>e
  <2>3. Without(s, w)[Rank(K, j)] = x /\ Rank(K, j) \in DOMAIN Without(s, w)
    BY Zenon, <2>1, <2>2, <1>8, <1>9, <1>w
  <2> QED BY Zenon, <2>3 DEF Elems
<1> QED BY Zenon, <1>9, <1>10, <1>11

(* What is kept of the heap fits into it. *)
LEMMA EarliestFits ==
  ASSUME NEW T, IsFiniteSet(T), NEW n \in Nat, NEW S \in Earliest(T, n)
  PROVE  S \subseteq T /\ IsFiniteSet(S) /\ Cardinality(S) <= n
<1>1. S \in SUBSET T /\ (Cardinality(T) <= n => S = T) /\ (~(Cardinality(T) <= n) => Cardinality(S) = n)
  BY Zenon DEF Earliest
<1>2. IsFiniteSet(S)
  BY Zenon, <1>1, FS_Subset
<1> QED BY <1>1, <1>2, FS_CardinalityType

(* What enforce_limit leaves is part of the heap and within MAX_TIMERS. *)
LEMMA EnforcedFits ==
  ASSUME NEW T, IsFiniteSet(T), NEW S \in Enforced(T)
  PROVE  S \subseteq T /\ IsFiniteSet(S) /\ Cardinality(S) <= MaxTimers
<1>1. CASE Cardinality(T) <= MaxTimers
  BY Zenon, <1>1 DEF Enforced
<1>2. CASE ~(Cardinality(T) <= MaxTimers)
  <2> DEFINE L == { t \in T : Live(t) }
  <2>1. S \in Earliest(L, MaxTimers) /\ L \in SUBSET T /\ MaxTimers \in Nat
    BY Zenon, <1>2, WaitAssumption DEF Enforced
  <2>2. IsFiniteSet(L)
    BY Zenon, <2>1, FS_Subset
  <2> HIDE DEF L
  <2> QED BY Zenon, <2>1, <2>2, EarliestFits
<1> QED BY Zenon, <1>1, <1>2

(* A live timer is dropped only for MAX_TIMERS live ones due no later. *)
LEMMA EnforcedEvicts ==
  ASSUME NEW T, NEW S \in Enforced(T), NEW t \in T \ S, Live(t)
  PROVE  Cardinality({ s \in S : Live(s) /\ s.deadline <= t.deadline }) = MaxTimers
<1> DEFINE L == { u \in T : Live(u) }
<1>1. S \in Earliest(L, MaxTimers) /\ t \in L
  BY Zenon DEF Enforced
<1>2. \A u \in L : Live(u)
  BY Zenon
<1> HIDE DEF L
<1>3. /\ S \in SUBSET L /\ Cardinality(S) = MaxTimers
      /\ \A s \in S, u \in L \ S : s.deadline <= u.deadline
  BY Zenon, <1>1 DEF Earliest
<1>4. \A s \in S : Live(s) /\ s.deadline <= t.deadline
  BY Zenon, <1>1, <1>2, <1>3
<1>5. { s \in S : Live(s) /\ s.deadline <= t.deadline } = S
  BY Zenon, <1>4
<1> QED BY Zenon, <1>3, <1>5

(* A live wake-up stays in the heap when an action is added, or is noted as *)
(* dropped for MAX_TIMERS rivals.                                           *)
LEMMA AddKeeps ==
  ASSUME NEW n, AddAction(n), NEW k \in timers \cup {n}, k.task \in Waiters, Live(k)
  PROVE  k \in timers' \/ \E e \in evicted' : e.task = k.task /\ e.gen = k.gen /\ e.rivals >= MaxTimers
<1> SUFFICES ASSUME k \notin timers'
             PROVE  \E e \in evicted' : e.task = k.task /\ e.gen = k.gen /\ e.rivals >= MaxTimers
  BY Zenon
<1>1. timers' \in Enforced(timers \cup {n})
  BY Zenon DEF AddAction
<1>2. Cardinality(Rivals(k)) = MaxTimers
  BY Zenon, <1>1, EnforcedEvicts DEF Rivals
<1>3. PICK e : e = [task |-> k.task, gen |-> k.gen, rivals |-> Cardinality(Rivals(k))]
  BY Zenon
<1>4. e \in evicted'
  BY Zenon, <1>3 DEF AddAction
<1>5. e.task = k.task /\ e.gen = k.gen /\ e.rivals = MaxTimers
  BY Zenon, <1>2, <1>3
<1>6. MaxTimers >= MaxTimers
  BY WaitAssumption
<1> QED BY Zenon, <1>4, <1>5, <1>6

(* Both kinds of insertion add one action and leave the rest of the heap. *)
Adds == \E n \in TimerSet : AddAction(n) /\ expired' = expired
LEMMA AddsOne ==
  ASSUME LoopType, TimerType, AddsOther \/ \E w \in Waiters : Insert(w)
  PROVE  Adds
<1>1. ASSUME NEW w \in Waiters, Insert(w)
      PROVE  Adds
  <2>1. PICK n : n = [task |-> w, gen |-> armed[w], deadline |-> deadline[w]]
    BY Zenon
  <2>2. n \in TimerSet
    BY Zenon, <1>1, <2>1 DEF Insert, LoopType, TimerSet
  <2> QED BY Zenon, <1>1, <2>1, <2>2 DEF Insert, Adds
<1>2. ASSUME NEW o \in Others, NEW d \in Deadlines \ {Never}, AddOther(o, d)
      PROVE  Adds
  <2>1. PICK n : n = [task |-> o, gen |-> other[o].arm_seq, deadline |-> d]
    BY Zenon
  <2>2. other[o].arm_seq \in Nat
    BY DEF TimerType
  <2>3. n \in TimerSet
    BY Zenon, <2>1, <2>2 DEF TimerSet
  <2> QED BY Zenon, <1>2, <2>1, <2>3 DEF AddOther, Adds
<1> QED BY Zenon, <1>1, <1>2 DEF AddsOther

(* The hypothesis of the lemmas on queues holds. *)
LEMMA EntryRemoved == RetainRemoves
BY Zenon, WithoutElems DEF RetainRemoves

(* The heap stays finite and within MAX_TIMERS. *)
LEMMA TimerTypeStep ==
  ASSUME LoopType, TimerType, [Next]_vars
  PROVE  TimerType'
<1>1. timers' \subseteq TimerSet /\ expired' \subseteq TimerSet /\ IsFiniteSet(timers') /\ Cardinality(timers') <= MaxTimers
  <2> DEFINE G == timers' \subseteq TimerSet /\ expired' \subseteq TimerSet /\ IsFiniteSet(timers') /\ Cardinality(timers') <= MaxTimers
  <2>1. ASSUME Adds
        PROVE  G
    <3>1. PICK n \in TimerSet : timers' \in Enforced(timers \cup {n}) /\ expired' = expired
      BY Zenon, <2>1 DEF Adds, AddAction
    <3>2. IsFiniteSet(timers \cup {n})
      BY Zenon, FS_AddElement DEF TimerType
    <3>3. timers' \subseteq timers \cup {n} /\ IsFiniteSet(timers') /\ Cardinality(timers') <= MaxTimers
      BY Zenon, <3>1, <3>2, EnforcedFits
    <3> QED BY Zenon, <3>1, <3>3 DEF TimerType
  <2>2. ASSUME PopExpired
        PROVE  G
    <3> DEFINE D == { t \in timers : t.deadline <= now }
    <3>1. expired' \in Earliest(D, MaxBatch) /\ timers' = timers \ expired' /\ MaxBatch \in Nat
      BY Zenon, <2>2, WaitAssumption DEF PopExpired
    <3>2. IsFiniteSet(D) /\ D \in SUBSET timers
      BY Zenon, FS_Subset DEF TimerType
    <3> HIDE DEF D
    <3>3. expired' \subseteq D /\ timers' \in SUBSET timers
      BY Zenon, <3>1, <3>2, EarliestFits
    <3>4. IsFiniteSet(timers') /\ Cardinality(timers') <= Cardinality(timers)
      BY Zenon, <3>3, FS_Subset DEF TimerType
    <3>5. Cardinality(timers') \in Nat /\ Cardinality(timers) \in Nat /\ MaxTimers \in Nat
      BY Zenon, <3>4, FS_CardinalityType, WaitAssumption DEF TimerType
    <3>6. Cardinality(timers') <= MaxTimers
      BY <3>4, <3>5 DEF TimerType
    <3> QED BY Zenon, <3>2, <3>3, <3>4, <3>6 DEF TimerType
  <2>3. ASSUME NEW t \in expired, RunTimer(t)
        PROVE  G
    BY Zenon, <2>3 DEF RunTimer, TimerType
  <2>4. ASSUME UNCHANGED <<timers, expired>>
        PROVE  G
    BY Zenon, <2>4 DEF TimerType
  <2> QED BY Zenon, <2>1, <2>2, <2>3, <2>4, AddsOne, Frames DEF Frame, WritesHeap
<1>2. firing' \in Waiters \cup {Nobody}
  <2>1. ASSUME NEW t \in expired, RunTimer(t)
        PROVE  firing' \in Waiters \cup {Nobody}
    BY Zenon, <2>1 DEF RunTimer, TimerType, TimerSet
  <2>2. FireWake => firing' \in Waiters \cup {Nobody}
    BY Zenon DEF FireWake
  <2> QED BY Zenon, <2>1, <2>2, Frames DEF Frame, WritesFiring, TimerType
<1>3. now' \in Nat /\ now' >= now
  BY Frames DEF Frame, Tick, TimerType
<1>4. other' \in [Others -> [arm_seq : Nat, arming : BOOLEAN]]
  <2>1. ASSUME NEW o \in Others, ArmOther(o)
        PROVE  other' \in [Others -> [arm_seq : Nat, arming : BOOLEAN]]
    BY <2>1 DEF ArmOther, TimerType
  <2>2. ASSUME NEW o \in Others, NEW d \in Deadlines \ {Never}, AddOther(o, d)
        PROVE  other' \in [Others -> [arm_seq : Nat, arming : BOOLEAN]]
    BY <2>2 DEF AddOther, TimerType
  <2> QED BY Zenon, <2>1, <2>2, Frames DEF Frame, WritesOther, AddsOther, TimerType
<1> QED BY Zenon, <1>1, <1>2, <1>3, <1>4 DEF TimerType

(* What pop_expired hands to the timer CPU is due. *)
LEMMA DueStep ==
  ASSUME LoopType, TimerType, DueInv, [Next]_vars
  PROVE  DueInv'
<1>1. ASSUME \A t \in expired' : t \in TimerSet /\ t.deadline <= now
      PROVE  DueInv'
  <2>1. now \in Nat /\ now' \in Nat /\ now' >= now
    BY Zenon, ClockStep DEF TimerType
  <2>2. \A t \in expired' : t.deadline \in Nat
    BY Zenon, <1>1, DeadlineNat DEF TimerSet
  <2> QED BY <1>1, <2>1, <2>2 DEF DueInv
<1>2. ASSUME expired' \subseteq expired
      PROVE  DueInv'
  BY Zenon, <1>1, <1>2 DEF DueInv, TimerType
<1>3. ASSUME PopExpired
      PROVE  DueInv'
  <2> DEFINE D == { t \in timers : t.deadline <= now }
  <2>1. expired' \in Earliest(D, MaxBatch) /\ MaxBatch \in Nat
    BY Zenon, <1>3, WaitAssumption DEF PopExpired
  <2>2. IsFiniteSet(D)
    BY Zenon, FS_Subset DEF TimerType
  <2>3. expired' \subseteq D
    <3> HIDE DEF D
    <3> QED BY Zenon, <2>1, <2>2, EarliestFits
  <2> QED BY Zenon, <1>1, <2>3 DEF TimerType
<1>4. ASSUME NEW t \in expired, RunTimer(t)
      PROVE  DueInv'
  BY Zenon, <1>2, <1>4 DEF RunTimer
<1> QED BY Zenon, <1>2, <1>3, <1>4, AddsOne, Frames DEF Frame, WritesHeap, Adds

(* The wake-up of a waiter is live as long as its generation is current. *)
LEMMA WaiterLive ==
  ASSUME NEW t, t.task \in Waiters
  PROVE  (Live(t) <=> t.gen = gen[t.task]) /\ (Live(t)' <=> t.gen = gen'[t.task])
BY Zenon, WaitAssumption DEF Live

(* Only a producer that has claimed the round outdates the timer of a wait *)
(* that is about to sleep.                                                 *)
LEMMA GenKept ==
  ASSUME LoopType, ClaimInv, [Next]_vars, NEW w \in Waiters, pc[w] \in {"block", "recheck", "asleep"}
  PROVE  (gen'[w] = gen[w] /\ deadline'[w] = deadline[w]) \/ token'[w] = "NOTIFIED"
<1>1. CASE OwnStep(w)
  BY Zenon, <1>1, OwnMoves DEF Effect, Keep
<1>2. CASE ~OwnStep(w)
  <2>0. FromOutside(w)
    BY Zenon, <1>2, OutsideMoves
  <2>1. ASSUME NEW r \in Producers, BumpGeneration(r), producer[r].task = w
        PROVE  token'[w] = "NOTIFIED"
    <3>1. Claims(r, w) /\ token' = token
      BY <2>1 DEF Claims, Idle, BumpGeneration
    <3> QED BY Zenon, <3>1 DEF ClaimInv
  <2> QED BY Zenon, <2>0, <2>1 DEF FromOutside, Quiet, Keep
<1> QED BY Zenon, <1>1, <1>2

(* What was dropped from the heap stays on record. *)
LEMMA EvictedGrows ==
  ASSUME LoopType, TimerType, [Next]_vars
  PROVE  evicted \subseteq evicted'
<1>1. Adds => evicted \subseteq evicted'
  BY Zenon DEF Adds, AddAction
<1>2. PopExpired => evicted' = evicted
  BY Zenon DEF PopExpired
<1>3. ASSUME NEW t \in expired, RunTimer(t)
      PROVE  evicted' = evicted
  BY Zenon, <1>3 DEF RunTimer
<1> QED BY Zenon, <1>1, <1>2, <1>3, AddsOne, Frames DEF Frame, WritesHeap

(* The timer of a round stays, until the round is claimed, the timer fires, *)
(* or a full heap drops it.                                                 *)
LEMMA CoveredStep ==
  ASSUME LoopType, TimerType, ClaimInv, DueInv, [Next]_vars,
         NEW w \in Waiters, pc[w] \in {"block", "recheck", "asleep"}, deadline[w] # Never, Covered(w)
  PROVE  Covered(w)' \/ token'[w] = "NOTIFIED" \/ (Expired(w) /\ firing' = w)
<1> SUFFICES ASSUME gen'[w] = gen[w], deadline'[w] = deadline[w]
             PROVE  Covered(w)' \/ (Expired(w) /\ firing' = w)
  BY Zenon, GenKept
<1>1. Evicted(w) => Evicted(w)'
  BY Zenon, EvictedGrows DEF Evicted
<1>2. ASSUME HasTimer(w)
      PROVE  Covered(w)' \/ (Expired(w) /\ firing' = w)
  <2>1. PICK k \in timers \cup expired : k.task = w /\ Live(k) /\ k.deadline = deadline[w]
    BY Zenon, <1>2 DEF HasTimer
  <2>2. k.gen = gen[w] /\ Live(k)'
    BY Zenon, <2>1, WaiterLive
  <2>3. k \in timers' \cup expired' => HasTimer(w)'
    BY Zenon, <2>1, <2>2 DEF HasTimer
  <2>4. ASSUME Adds, k \in timers
        PROVE  Covered(w)'
    <3>1. PICK n : AddAction(n)
      BY Zenon, <2>4 DEF Adds
    <3>2. k \in timers' \/ Evicted(w)'
      BY Zenon, <2>1, <2>2, <2>4, <3>1, AddKeeps DEF Evicted
    <3> QED BY Zenon, <2>3, <3>2 DEF Covered
  <2>5. ASSUME Adds, k \in expired
        PROVE  k \in expired'
    BY Zenon, <2>5 DEF Adds
  <2>6. ASSUME PopExpired
        PROVE  k \in timers' \cup expired'
    BY Zenon, <2>6 DEF PopExpired
  <2>7. ASSUME NEW t \in expired, RunTimer(t)
        PROVE  k \in timers' \cup expired' \/ (Expired(w) /\ firing' = w)
    <3>1. expired' = expired \ {t} /\ timers' = timers /\ (Live(t) /\ t.task \in Waiters => firing' = t.task)
      BY Zenon, <2>7 DEF RunTimer
    <3>2. CASE t = k
      <4>1. k.deadline <= now
        BY Zenon, <3>2 DEF DueInv
      <4>2. now >= deadline[w]
        BY Zenon, <2>1, <4>1
      <4> QED BY Zenon, <2>1, <3>1, <3>2, <4>2 DEF Expired
    <3>3. CASE t # k
      BY Zenon, <3>1, <3>3
    <3> QED BY Zenon, <3>2, <3>3
  <2> QED BY Zenon, <2>3, <2>4, <2>5, <2>6, <2>7, AddsOne, Frames DEF Frame, WritesHeap, Covered
<1> QED BY Zenon, <1>1, <1>2 DEF Covered

(* A timed wait is covered from its insertion to its wake-up. *)
LEMMA CoverStep ==
  ASSUME LoopType, TimerType, ClaimInv, GenInv, DueInv, CoverInv, [Next]_vars
  PROVE  CoverInv'
<1>1. ASSUME NEW w \in Waiters, pc'[w] \in {"block", "recheck"}, deadline'[w] # Never
      PROVE  Covered(w)' \/ token'[w] = "NOTIFIED" \/ Expired(w)'
  <2>1. deadline'[w] = deadline[w] /\ (pc[w] \in {"block", "recheck"} \/ Insert(w))
    BY Zenon, <1>1, BlockNew
  <2>2. Expired(w) => Expired(w)'
    <3>1. deadline[w] \in Nat
      BY Zenon, <1>1, <2>1, DeadlineNat DEF LoopType
    <3> QED BY <2>1, <3>1, ClockStep DEF Expired, TimerType
  <2>3. ASSUME Insert(w) PROVE Covered(w)' \/ token'[w] = "NOTIFIED"
    <3>n. PICK n : n = [task |-> w, gen |-> armed[w], deadline |-> deadline[w]]
      BY Zenon
    <3>1. pc[w] = "insert" /\ AddAction(n) /\ UNCHANGED <<gen, deadline>>
      BY Zenon, <2>3, <3>n DEF Insert
    <3>2. CASE token[w] = "NOTIFIED"
      BY Zenon, <3>1, <3>2, NotifiedStays
    <3>3. CASE armed[w] = gen[w]
      <4>1. n.task = w /\ n.gen = gen[w] /\ n.deadline = deadline[w]
        BY Zenon, <3>n, <3>3
      <4>2. Live(n) /\ Live(n)'
        BY Zenon, <3>1, <4>1, WaiterLive
      <4>3. n \in timers' \/ Evicted(w)'
        BY Zenon, <3>1, <4>1, <4>2, AddKeeps DEF Evicted
      <4> QED BY Zenon, <3>1, <4>1, <4>2, <4>3 DEF Covered, HasTimer
    <3> QED BY Zenon, <3>1, <3>2, <3>3 DEF GenInv
  <2>4. CASE pc[w] \in {"block", "recheck"}
    <3>1. Covered(w) \/ token[w] = "NOTIFIED" \/ Expired(w)
      BY Zenon, <1>1, <2>1, <2>4 DEF CoverInv
    <3>2. Covered(w) => Covered(w)' \/ token'[w] = "NOTIFIED" \/ Expired(w)
      BY Zenon, <1>1, <2>1, <2>4, CoveredStep
    <3>3. token[w] = "NOTIFIED" => token'[w] = "NOTIFIED"
      BY Zenon, <2>4, NotifiedStays
    <3> QED BY Zenon, <2>2, <3>1, <3>2, <3>3
  <2> QED BY Zenon, <2>1, <2>3, <2>4
<1>2. ASSUME NEW w \in Waiters, Sleeps(w)', deadline'[w] # Never
      PROVE  Covered(w)' \/ firing' = w \/ token'[w] = "NOTIFIED"
  <2>1. deadline'[w] = deadline[w]
    BY Zenon, <1>2, BlockNew DEF Sleeps
  <2>2. CASE Recheck(w) /\ ShouldBlock(w)
    <3>1. pc[w] = "recheck" /\ token[w] = "WAITING" /\ ~Expired(w)
      BY Zenon, <2>2 DEF Recheck, ShouldBlock
    <3>2. Covered(w)
      BY Zenon, <1>2, <2>1, <3>1 DEF CoverInv
    <3> QED BY Zenon, <1>2, <2>1, <3>1, <3>2, CoveredStep
  <2>3. CASE Sleeps(w)
    <3>1. pc[w] = "asleep"
      BY Zenon, <2>3 DEF Sleeps
    <3>2. Covered(w) \/ firing = w \/ token[w] = "NOTIFIED"
      BY Zenon, <1>2, <2>1, <2>3 DEF CoverInv, TimeoutNotLost, HasTimer, Covered
    <3>3. Covered(w) => Covered(w)' \/ token'[w] = "NOTIFIED" \/ firing' = w
      BY Zenon, <1>2, <2>1, <3>1, CoveredStep
    <3>4. token[w] = "NOTIFIED" => token'[w] = "NOTIFIED"
      BY Zenon, <3>1, NotifiedStays
    <3>5. firing = w => firing' = w
      BY Zenon, <1>2, FiringStep
    <3> QED BY Zenon, <3>2, <3>3, <3>4, <3>5
  <2> QED BY Zenon, <1>2, <2>2, <2>3, SleepNew
<1>3. TimeoutNotLost'
  BY Zenon, <1>2 DEF TimeoutNotLost, HasTimer, Covered
<1> QED BY Zenon, <1>1, <1>3 DEF CoverInv

(* A producer that has still to look at a queue with an unclaimed entry does. *)
LEMMA LooksStays ==
  ASSUME WakeEveryone, LoopType, QueueType, ClaimInv, [Next]_vars,
         NEW w \in Waiters, NEW q \in Queues, NEW p \in Producers, Looks(p, q),
         queue'[q] # <<>>, token'[w] = "WAITING"
  PROVE  Looks(p, q)'
<1>1. CASE producer'[p] = producer[p]
  BY Zenon, <1>1 DEF Looks
<1>2. CASE producer'[p] # producer[p]
  <2>1. PICK r \in Producers : ProducerStep(r) \/ \E x \in Queues, limit \in Limits : Produce(r, x, limit)
    BY Zenon, <1>2, Frames DEF Frame, WritesProducer
  <2>2. Serves(p)
    BY Zenon, <1>2, <2>1, WakerMoves
  <2>3. ~ScanDone(p) \/ queue[q] = <<>> \/ producer[p].pc # "scan"
    <3> SUFFICES ASSUME ScanDone(p), queue[q] # <<>> PROVE FALSE
      BY Zenon
    <3>1. /\ Cardinality(producer[p].batch) = producer[p].limit /\ token' = token
          /\ producer[p] \in BusySet /\ producer[p] # Idle
      BY Zenon DEF ScanDone, Looks, QueueType, Idle
    <3>2. producer[p].batch \in SUBSET Waiters /\ producer[p].limit \in Limits
      BY Zenon, <3>1 DEF BusySet
    <3>3. /\ Cardinality(producer[p].batch) <= Cardinality(Waiters) /\ Cardinality(Waiters) \in Nat
          /\ Cardinality(Waiters) = Cardinality(producer[p].batch) => Waiters = producer[p].batch
      BY Zenon, <3>2, FS_Subset, FS_CardinalityType DEF WakeEveryone
    <3>4. producer[p].limit \in Nat /\ Cardinality(Waiters) <= producer[p].limit
      BY Zenon, <3>2, WaitAssumption DEF WakeEveryone
    <3>5. Waiters = producer[p].batch
      BY <3>1, <3>3, <3>4
    <3> QED BY Zenon, <3>1, <3>5 DEF ClaimInv, Claims
  <2>4. producer'[p].queue = producer[p].queue /\ producer'[p] # Idle /\ producer'[p].pc \in {"scan", "bump"}
    <3>1. /\ producer[p] # Idle /\ producer[p].pc \in {"lock", "scan", "bump"}
          /\ producer[p].pc = "scan" => ~ScanDone(p)
      BY Zenon, <2>3 DEF Looks
    <3>2. producer'[p].queue = producer[p].queue /\ producer'[p].pc \in {"scan", "bump"}
      BY Zenon, <1>2, <2>2, <3>1 DEF Serves
    <3>3. Idle.pc \notin {"scan", "bump"}
      BY DEF Idle
    <3> QED BY Zenon, <3>2, <3>3
  <2> QED BY Zenon, <2>4 DEF Looks
<1> QED BY Zenon, <1>1, <1>2

(* An event that comes after the second check stays announced. *)
LEMMA EventStep ==
  ASSUME RetainRemoves, WakeEveryone, LoopType, QueueType, ClaimInv, ListenInv, EventInv, [Next]_vars
  PROVE  EventInv'
<1> SUFFICES ASSUME NEW w \in Waiters, NEW q \in Queues, token'[w] = "WAITING", (q \in Sources(w))',
                    pc'[w] \in Inside \ {"check"}, items'[q] > 0
             PROVE  \E p \in Producers : Looks(p, q)'
  BY Zenon DEF EventInv
<1> SUFFICES ASSUME q \in Sources(w), pc[w] \in Inside \ {"check"}, items[q] > 0
             PROVE  \E p \in Producers : Looks(p, q)'
  BY Zenon, EventNew
<1>1. token[w] = "WAITING"
  BY Zenon, WaitingNew DEF NewRound, Inside
<1>2. PICK p \in Producers : Looks(p, q)
  BY Zenon, <1>1 DEF EventInv
<1>3. w \in Elems(queue[q])
  BY Zenon, <1>1 DEF ListenInv, Listens
<1>4. w \in Elems(queue'[q])
  BY Zenon, <1>3, EntryStays
<1>5. queue'[q] # <<>>
  BY <1>4 DEF Elems
<1> QED BY Zenon, <1>2, <1>5, LooksStays

-----------------------------------------------------------------------------
(* The inductive invariants. *)
RoundInv ==
  /\ LoopType /\ QueueType /\ TimerType
  /\ TodoInv /\ EntryInv /\ LockInv /\ ClaimInv
  /\ SignalInv /\ NotifiedInv /\ GenInv /\ DueInv /\ ListenInv

(* The inductive invariants hold before the first wait. *)
LEMMA RoundInit == Init => RoundInv /\ CoverInv /\ EventInv
<1> SUFFICES ASSUME Init PROVE RoundInv /\ CoverInv /\ EventInv
  BY Zenon
<1>1. Idle.pc = "idle" /\ \A p \in Producers : producer[p] = Idle
  BY Zenon DEF Init, Idle
<1>2. \A w \in Waiters : pc[w] = "idle"
  BY Zenon DEF Init
<1>3. LoopType
  BY DEF Init, LoopType, PcSet, StatusSet, TokenSet
<1>4. QueueType
  <2>1. [pending |-> FALSE, wake |-> FALSE, sent |-> FALSE] \in SignalSet
    BY Zenon DEF SignalSet
  <2> QED BY <1>1, <2>1 DEF Init, QueueType
<1>5. TimerType
  BY FS_EmptySet, WaitAssumption DEF Init, TimerType
<1>6. TodoInv /\ SignalInv /\ NotifiedInv
  BY Zenon, <1>2 DEF TodoInv, SignalInv, NotifiedInv, Sleeps
<1>7. EntryInv
  BY DEF Init, EntryInv, Elems
<1>8. LockInv /\ ClaimInv
  BY Zenon, <1>1 DEF LockInv, ClaimInv, Claims
<1>9. GenInv /\ DueInv
  BY <1>2 DEF Init, GenInv, DueInv
<1>10. ListenInv /\ EventInv
  BY Zenon, <1>2 DEF ListenInv, EventInv, Listens, Inside
<1>11. CoverInv
  BY Zenon, <1>2 DEF CoverInv, TimeoutNotLost, Sleeps
<1> QED BY Zenon, <1>3, <1>4, <1>5, <1>6, <1>7, <1>8, <1>9, <1>10, <1>11 DEF RoundInv

(* Every step of Next, and a stutter, keeps RoundInv. *)
LEMMA RoundStep ==
  ASSUME RoundInv, [Next]_vars
  PROVE  RoundInv'
<1>1. /\ LoopType /\ QueueType /\ TimerType
      /\ TodoInv /\ EntryInv /\ LockInv /\ ClaimInv
      /\ SignalInv /\ NotifiedInv /\ GenInv /\ DueInv /\ ListenInv
  BY Zenon DEF RoundInv
<1>2. LoopType' /\ QueueType' /\ TimerType'
  BY Zenon, <1>1, EntryRemoved, LoopTypeStep, QueueTypeStep, TimerTypeStep
<1>3. TodoInv' /\ EntryInv' /\ LockInv' /\ ClaimInv'
  BY Zenon, <1>1, EntryRemoved, TodoStep, EntryStep, LockStep, ClaimStep
<1>4. SignalInv' /\ NotifiedInv' /\ GenInv' /\ DueInv' /\ ListenInv'
  BY Zenon, <1>1, EntryRemoved, SignalStep, NotifiedStep, GenStep, DueStep, ListenStep
<1> QED BY Zenon, <1>2, <1>3, <1>4 DEF RoundInv

(* RoundInv holds in every reachable state. *)
LEMMA RoundAlways == Spec => []RoundInv
<1>1. Init => RoundInv
  BY Zenon, RoundInit
<1>2. RoundInv /\ [Next]_vars => RoundInv'
  BY RoundStep
<1> QED BY <1>1, <1>2, PTL DEF Spec

(* Every variable of the wait loop, the queues, the heap and the timer CPU  *)
(* keeps its type, and the heap its capacity, for any number of waiters,    *)
(* producers and queues.                                                    *)
THEOREM WaitTypeCorrect == Spec => []TypeOK
<1>1. RoundInv => TypeOK
  <2> SUFFICES ASSUME LoopType, QueueType, TimerType PROVE TypeOK
    BY Zenon DEF RoundInv
  <2>1. \A q \in Queues : Elems(queue[q]) \subseteq Waiters
    BY DEF QueueType, Elems
  <2> QED BY <2>1 DEF LoopType, TimerType, TypeOK, PcSet, StatusSet, TokenSet
<1> QED BY <1>1, RoundAlways, PTL

(* Rounds stay apart: two producers never hold one token's notification, a  *)
(* claim is answered before the waiter leaves finish_entry, and a wait that *)
(* has returned, or begins a round, is in no queue; for lists that name a   *)
(* queue twice as well.                                                     *)
THEOREM RoundsStaySeparate == Spec => []RoundsSeparate
<1>1. RoundInv => RoundsSeparate
  <2> SUFFICES ASSUME QueueType, EntryInv, ClaimInv PROVE RoundsSeparate
    BY Zenon DEF RoundInv
  <2>1. ASSUME NEW w \in Waiters
        PROVE  Cardinality({ p \in Producers :
                 producer[p] # Idle /\ (producer[p].task = w \/ w \in producer[p].batch) }) <= 1
    <3> DEFINE C == { p \in Producers :
                 producer[p] # Idle /\ (producer[p].task = w \/ w \in producer[p].batch) }
    <3>1. \A p, r \in C : p = r
      BY Zenon DEF ClaimInv, Claims
    <3> HIDE DEF C
    <3>2. C = {} \/ \E p \in C : C = {p}
      BY Zenon, <3>1
    <3>3. Cardinality(C) \in {0, 1}
      BY Zenon, <3>2, FS_EmptySet, FS_Singleton
    <3>4. Cardinality(C) <= 1
      BY <3>3
    <3> QED BY Zenon, <3>4 DEF C
  <2>2. ASSUME NEW w \in Waiters, Claimed(w)
        PROVE  pc[w] \notin {"idle", "top"}
    BY Zenon, <2>2 DEF Claimed, ClaimInv, Claims, Holds
  <2>3. ASSUME NEW q \in Queues, NEW w \in Elems(queue[q])
        PROVE  pc[w] \notin {"idle", "top"}
    <3>1. w \in Waiters
      BY DEF QueueType, Elems
    <3> QED BY Zenon, <3>1 DEF EntryInv, Holds
  <2> QED BY <2>1, <2>2, <2>3 DEF RoundsSeparate
<1> QED BY <1>1, RoundAlways, PTL

(* No signal is slept through: as long as a task sleeps with a signal        *)
(* pending, the sender has still to wake it.                                 *)
THEOREM SignalsKept == Spec => []SignalNotLost
<1>1. RoundInv => SignalNotLost
  BY Zenon DEF RoundInv, SignalInv, SignalNotLost
<1> QED BY <1>1, RoundAlways, PTL

(* A timed sleep keeps the timer of its own round until the timer CPU has   *)
(* matched it or a producer has claimed the round, or until the full heap   *)
(* drops it for MAX_TIMERS live actions due no later; for any number of     *)
(* waits and of other timers that share the heap.                           *)
THEOREM TimeoutsKept == Spec => []TimeoutNotLost
<1>1. Init => RoundInv /\ CoverInv
  BY Zenon, RoundInit
<1>2. RoundInv /\ CoverInv /\ [Next]_vars => (RoundInv /\ CoverInv)'
  <2> SUFFICES ASSUME RoundInv, CoverInv, [Next]_vars PROVE (RoundInv /\ CoverInv)'
    BY Zenon
  <2>1. LoopType /\ QueueType /\ TimerType /\ ClaimInv /\ GenInv /\ DueInv
    BY Zenon DEF RoundInv
  <2> QED BY Zenon, <2>1, RoundStep, CoverStep
<1>3. RoundInv /\ CoverInv => TimeoutNotLost
  BY Zenon DEF CoverInv
<1> QED BY <1>1, <1>2, <1>3, PTL DEF Spec

(* With producers that wake everyone (wake_all is wake_at_most(usize::MAX)), *)
(* nobody sleeps beside an event: a producer has still to look at the queue, *)
(* or, once it has claimed the token, has still to wake the task.            *)
THEOREM EventsKept ==
  ASSUME WakeEveryone
  PROVE  Spec => []WakeNotLost
<1>1. Init => RoundInv /\ EventInv
  BY Zenon, RoundInit
<1>2. RoundInv /\ EventInv /\ [Next]_vars => (RoundInv /\ EventInv)'
  <2> SUFFICES ASSUME RoundInv, EventInv, [Next]_vars PROVE (RoundInv /\ EventInv)'
    BY Zenon
  <2>1. LoopType /\ QueueType /\ ClaimInv /\ ListenInv
    BY Zenon DEF RoundInv
  <2> QED BY Zenon, <2>1, EntryRemoved, RoundStep, EventStep
<1>3. RoundInv /\ EventInv => WakeNotLost
  <2> SUFFICES ASSUME RoundInv, EventInv, NEW w \in Waiters, Sleeps(w)
               PROVE  IF token[w] = "WAITING" THEN \A q \in Sources(w) : items[q] > 0 => OnItsWay(q)
                      ELSE token[w] = "NOTIFIED" => Claimed(w)
    BY Zenon DEF WakeNotLost
  <2>1. ASSUME token[w] = "WAITING", NEW q \in Sources(w), items[q] > 0
        PROVE  OnItsWay(q)
    <3>1. q \in Queues
      BY DEF RoundInv, LoopType, Sources, Elems
    <3> QED BY Zenon, <2>1, <3>1 DEF EventInv, Sleeps, Inside, OnItsWay
  <2>2. token[w] = "NOTIFIED" => Claimed(w)
    BY Zenon DEF RoundInv, NotifiedInv, Claims, Claimed
  <2> QED BY <2>1, <2>2
<1> QED BY <1>1, <1>2, <1>3, PTL DEF Spec
=============================================================================
