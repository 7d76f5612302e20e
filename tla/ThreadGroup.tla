---------------------------- MODULE ThreadGroup ----------------------------
(***************************************************************************)
(* The threads of one process: clone, exit, exit_group and multi-threaded  *)
(* exec (os/src/task/process.rs, task.rs, mod.rs, manager.rs).             *)
(*                                                                         *)
(* A thread is published under the lock of the group, which is also held   *)
(* to begin an exec or a group exit, so that these two find every thread   *)
(* that is already visible and keep out every later one.  The threads they *)
(* select are only told to stop: each cleans up for itself and gives back  *)
(* its live token; the thread that gives back the last one ends the        *)
(* process, and the caller of exec waits until every sibling has left its  *)
(* CPU before it replaces the address space.                               *)
(*                                                                         *)
(* Threads are TCBs and are not used again.  pc says where a thread is:    *)
(* "none" (not built), "built" (cloned, not published), "user", "clone",   *)
(* "wait", "doze" and "sleep" (in a system call), "trap" (on its way back  *)
(* to user mode), "signal" (past the stop check, before do_signal), "kill" *)
(* (exit_group, asking the others to stop), "execkill", "execwait",        *)
(* "install", "reopen" and "lead" (execve), "exit", "release", "last" and  *)
(* "switch" (exit), "complete" and "gone" (off its CPU).                   *)
(***************************************************************************)
EXTENDS Integers, FiniteSets

CONSTANTS Threads,   \* the TCBs the process may ever have
          Leader,    \* the thread the process starts with; its TID is the PID
          NoOwner,   \* no exec session
          Codes,     \* the exit codes user programs pass
          MaxExecs   \* bound: exec sessions

ASSUME ThreadsFinite == IsFiniteSet(Threads)
ASSUME LeaderIsThread == Leader \in Threads
ASSUME NoOwnerIsNone == NoOwner \notin Threads
ASSUME CodesNat == Codes \subseteq Nat
ASSUME MaxExecsNat == MaxExecs \in Nat

SIGKILL == 9
EXEC_FAILED == 127

VARIABLES
  members,   \* thread_group.members, the TCBs it refers to
  exec,      \* thread_group.exec: the owner's TID; exec_owner_tid is stored under the same lock
  pending,   \* exec.pending_inactive
  session,   \* which exec session this is: identifies its Completion
  done,      \* the sessions whose siblings_inactive is complete
  gcode,     \* group_exit_code: 0, or the code plus one
  live,      \* live_threads
  counted,   \* thread_live_counted of each TCB
  inactive,  \* exit_inactive of each TCB
  tid,       \* the TID of each TCB
  pc,        \* where each thread is
  todo,      \* siblings a thread has still to ask to stop
  child,     \* the TCB a cloning thread has built
  held,      \* the session whose Completion a leaving thread will complete
  code,      \* the exit code a thread carries
  kill,      \* SIGKILL is pending for the thread
  asleep,    \* the thread is Blocking or Blocked
  asked,     \* some thread called exit_group or took a fatal signal from outside
  zombie,    \* the process is a zombie
  status     \* its exit code

groupVars == <<members, exec, pending, session, done>>
tokenVars == <<live, counted, inactive>>
ownVars == <<todo, child, held, code>>
stopVars == <<kill, asleep>>
endVars == <<zombie, status>>
vars == <<groupVars, gcode, tokenVars, tid, pc, ownVars, stopVars, asked, endVars>>

PCs == {"none", "built", "user", "clone", "wait", "doze", "sleep", "trap", "signal", "kill",
        "execkill", "execwait", "install", "reopen", "lead", "exit", "release", "last", "switch",
        "complete", "gone"}

(* Threads that were published and may still run on a CPU. *)
Active == {t \in Threads : pc[t] \notin {"none", "built", "complete", "gone"}}

is_group_exiting == gcode # 0

(* exec_stops_thread and thread_must_exit: by TID, without the lock. *)
exec_stops_thread(t) == exec # NoOwner /\ exec # tid[t]
thread_must_exit(t) == is_group_exiting \/ exec_stops_thread(t)
thread_publish_blocked == is_group_exiting \/ exec # NoOwner

Init ==
  /\ members = {Leader} /\ exec = NoOwner /\ pending = 0 /\ session = 0 /\ done = {}
  /\ gcode = 0 /\ live = 1
  /\ counted = [t \in Threads |-> t = Leader]
  /\ inactive = [t \in Threads |-> FALSE]
  /\ tid = [t \in Threads |-> t]
  /\ pc = [t \in Threads |-> IF t = Leader THEN "user" ELSE "none"]
  /\ todo = [t \in Threads |-> {}]
  /\ child = [t \in Threads |-> t]
  /\ held = [t \in Threads |-> 0]
  /\ code = [t \in Threads |-> 0]
  /\ kill = [t \in Threads |-> FALSE]
  /\ asleep = [t \in Threads |-> FALSE]
  /\ asked = FALSE /\ zombie = FALSE /\ status = 0

Go(t, where) == pc' = [pc EXCEPT ![t] = where]

-----------------------------------------------------------------------------
(* clone(CLONE_THREAD): the TCB is built without the lock and refused early *)
(* if the gate is seen closed; publish_thread decides under the lock.       *)

CloneThread(t) ==
  /\ pc[t] = "user"
  /\ \E c \in Threads :
       /\ pc[c] = "none"
       /\ IF thread_publish_blocked
          THEN Go(t, "trap") /\ UNCHANGED child
          ELSE /\ pc' = [pc EXCEPT ![t] = "clone", ![c] = "built"]
               /\ child' = [child EXCEPT ![t] = c]
  /\ UNCHANGED <<groupVars, gcode, tokenVars, tid, todo, held, code, stopVars, asked,
                 endVars>>

(* The final check, under the lock. *)
PublishRefused == is_group_exiting \/ exec # NoOwner

(* A refused TCB is dropped; it was never a member and has no live token. *)
publish_thread(t) ==
  /\ pc[t] = "clone"
  /\ LET c == child[t]
     IN IF PublishRefused
        THEN /\ pc' = [pc EXCEPT ![t] = "trap", ![c] = "none"]
             /\ UNCHANGED <<members, tokenVars>>
        ELSE /\ pc' = [pc EXCEPT ![t] = "trap", ![c] = "user"]
             /\ members' = members \cup {c}
             /\ counted' = [counted EXCEPT ![c] = TRUE]
             /\ live' = live + 1
             /\ UNCHANGED inactive
  /\ child' = [child EXCEPT ![t] = t]
  /\ UNCHANGED <<exec, pending, session, done, gcode, tid, todo, held, code, stopVars, asked,
                 endVars>>

-----------------------------------------------------------------------------
(* Sleeping: a wait looks at the stop request, registers the sleep, looks   *)
(* again and gives up the CPU.                                              *)

WaitCheck(t) ==
  /\ pc[t] = "user"
  /\ IF thread_must_exit(t) THEN Go(t, "trap") ELSE Go(t, "wait")
  /\ UNCHANGED <<groupVars, gcode, tokenVars, tid, ownVars, stopVars, asked, endVars>>

begin_interruptible_sleep(t) ==
  /\ pc[t] = "wait"
  /\ asleep' = [asleep EXCEPT ![t] = TRUE]
  /\ Go(t, "doze")
  /\ UNCHANGED <<groupVars, gcode, tokenVars, tid, ownVars, kill, asked, endVars>>

(* Variant: no second look. *)
SleepWithoutRecheck(t) == asleep[t]

StaysAsleep(t) == asleep[t] /\ ~thread_must_exit(t)

(* The rest of sleep_interruptible: the task is still on its CPU. *)
sleep_recheck(t) ==
  /\ pc[t] = "doze"
  /\ asleep' = [asleep EXCEPT ![t] = StaysAsleep(t)]
  /\ Go(t, "sleep")
  /\ UNCHANGED <<groupVars, gcode, tokenVars, tid, ownVars, kill, asked, endVars>>

(* Somebody the sleeper waits for, or a signal, wakes it. *)
WakeUp(t) ==
  /\ asleep[t]
  /\ asleep' = [asleep EXCEPT ![t] = FALSE]
  /\ UNCHANGED <<groupVars, gcode, tokenVars, tid, pc, ownVars, kill, asked, endVars>>

Resume(t) ==
  /\ pc[t] = "sleep" /\ ~asleep[t]
  /\ Go(t, "trap")
  /\ UNCHANGED <<groupVars, gcode, tokenVars, tid, ownVars, stopVars, asked, endVars>>

-----------------------------------------------------------------------------
(* The way back to user mode: run_task_safe_point, then do_signal.          *)

Interrupt(t) ==
  /\ pc[t] = "user"
  /\ Go(t, "trap")
  /\ UNCHANGED <<groupVars, gcode, tokenVars, tid, ownVars, stopVars, asked, endVars>>

(* After the check the thread may be preempted before it reaches do_signal. *)
run_task_safe_point(t) ==
  /\ pc[t] = "trap"
  /\ IF thread_must_exit(t)
     THEN /\ Go(t, "exit")
          /\ code' = [code EXCEPT ![t] = IF is_group_exiting THEN gcode - 1 ELSE SIGKILL]
     ELSE Go(t, "signal") /\ UNCHANGED code
  /\ UNCHANGED <<groupVars, gcode, tokenVars, tid, todo, child, held, stopVars, asked,
                 endVars>>

(* begin_group_exit: the first caller fixes the code, every caller gets the *)
(* live members; the rest of the list is dropped.                           *)
begin_group_exit(t, c) ==
  /\ gcode' = IF gcode = 0 THEN c + 1 ELSE gcode
  /\ code' = [code EXCEPT ![t] = gcode' - 1]
  /\ members' = {u \in members : counted[u]}
  /\ todo' = [todo EXCEPT ![t] = members']
  /\ Go(t, "kill")
  /\ UNCHANGED <<exec, pending, session, done>>

exit_group(t) ==
  /\ pc[t] = "user"
  /\ \E c \in Codes : begin_group_exit(t, c)
  /\ asked' = TRUE
  /\ UNCHANGED <<tokenVars, tid, child, held, stopVars, endVars>>

(* do_signal: SIGKILL has its default action, exit_group. *)
TakeKill(t) ==
  /\ pc[t] = "signal" /\ kill[t]
  /\ kill' = [kill EXCEPT ![t] = FALSE]
  /\ begin_group_exit(t, SIGKILL)
  /\ UNCHANGED <<tokenVars, tid, child, held, asleep, asked, endVars>>

(* do_signal with a fatal signal from outside the group. *)
TakeFatal(t) ==
  /\ pc[t] = "signal" /\ ~kill[t]
  /\ begin_group_exit(t, SIGKILL)
  /\ asked' = TRUE
  /\ UNCHANGED <<tokenVars, tid, child, held, stopVars, endVars>>

do_signal(t) ==
  /\ pc[t] = "signal" /\ ~kill[t]
  /\ Go(t, "user")
  /\ UNCHANGED <<groupVars, gcode, tokenVars, tid, ownVars, stopVars, asked, endVars>>

-----------------------------------------------------------------------------
(* request_sibling_exit, one sibling at a time. *)

request_sibling_exit(t) ==
  /\ pc[t] \in {"kill", "execkill"}
  /\ \E u \in todo[t] :
       /\ todo' = [todo EXCEPT ![t] = @ \ {u}]
       /\ IF tid[u] = tid[t] \/ pc[u] \in {"release", "last", "switch", "complete", "gone"}
          THEN UNCHANGED stopVars
          ELSE /\ kill' = [kill EXCEPT ![u] = TRUE]
               /\ asleep' = [asleep EXCEPT ![u] = FALSE]
  /\ UNCHANGED <<groupVars, gcode, tokenVars, tid, pc, child, held, code, asked, endVars>>

AllAsked(t) ==
  /\ pc[t] \in {"kill", "execkill"} /\ todo[t] = {}
  /\ Go(t, IF pc[t] = "kill" THEN "exit" ELSE "execwait")
  /\ UNCHANGED <<groupVars, gcode, tokenVars, tid, ownVars, stopVars, asked, endVars>>

-----------------------------------------------------------------------------
(* execve: install_exec_image. *)

(* load_elf returned an error before or instead of a session. *)
ExecFails(t) ==
  /\ pc[t] = "user"
  /\ Go(t, "exit")
  /\ code' = [code EXCEPT ![t] = EXEC_FAILED]
  /\ UNCHANGED <<groupVars, gcode, tokenVars, tid, todo, child, held, stopVars, asked,
                 endVars>>

(* Variant: threads that gave back their token are not waited for. *)
WaitForLiveOnly(u) == counted[u]

WaitedFor(u) == ~inactive[u]

(* Threads without a live token that have not left their CPU are waited for *)
(* as well, and stay in the list until they have.                           *)
begin_exec(t) ==
  /\ pc[t] = "user" /\ session < MaxExecs
  /\ ~is_group_exiting /\ exec = NoOwner
  /\ LET others == {u \in members : tid[u] # tid[t]}
         waited == {u \in others : WaitedFor(u)}
     IN /\ members' = {u \in members : counted[u] \/ ~inactive[u]}
        /\ exec' = tid[t]
        /\ pending' = Cardinality(waited)
        /\ session' = session + 1
        /\ done' = IF waited = {} THEN done \cup {session'} ELSE done
        /\ todo' = [todo EXCEPT ![t] = {u \in others : counted[u]}]
        /\ Go(t, "execkill")
  /\ UNCHANGED <<gcode, tokenVars, tid, child, held, code, stopVars, asked, endVars>>

(* ExecSession::finish: opens the gate of clone. *)
finish(t) == exec' = NoOwner /\ UNCHANGED <<members, pending, session, done>>

(* Variant: it is enough that the siblings gave back their tokens. *)
TokensReturned(t) == live = 1 \/ thread_must_exit(t)

WaitOver(t) == session \in done \/ thread_must_exit(t)

(* wait_killable returns, and install_exec_image looks at the group exit. *)
exec_wait(t) ==
  /\ pc[t] = "execwait"
  /\ WaitOver(t)
  /\ IF is_group_exiting
     THEN finish(t) /\ Go(t, "exit") /\ code' = [code EXCEPT ![t] = EXEC_FAILED]
     ELSE Go(t, "install") /\ UNCHANGED <<groupVars, code>>
  /\ UNCHANGED <<gcode, tokenVars, tid, todo, child, held, stopVars, asked, endVars>>

(* reset_exec_resources runs out of memory: the process ends. *)
InstallFails(t) ==
  /\ pc[t] = "install"
  /\ finish(t)
  /\ Go(t, "exit")
  /\ code' = [code EXCEPT ![t] = EXEC_FAILED]
  /\ UNCHANGED <<gcode, tokenVars, tid, todo, child, held, stopVars, asked, endVars>>

install_exec_image(t) ==
  /\ pc[t] = "install"
  /\ Go(t, "reopen")
  /\ UNCHANGED <<groupVars, gcode, tokenVars, tid, ownVars, stopVars, asked, endVars>>

ExecFinish(t) ==
  /\ pc[t] = "reopen"
  /\ finish(t)
  /\ Go(t, "lead")
  /\ UNCHANGED <<gcode, tokenVars, tid, ownVars, stopVars, asked, endVars>>

(* exchange_exec_tids: the old leader takes the TID of the new one. *)
become_group_leader(t) ==
  /\ pc[t] = "lead"
  /\ tid' = [u \in Threads |-> CASE u = t -> Leader
                                 [] u # t /\ tid[u] = Leader -> tid[t]
                                 [] OTHER -> tid[u]]
  /\ Go(t, "trap")
  /\ UNCHANGED <<groupVars, gcode, tokenVars, ownVars, stopVars, asked, endVars>>

-----------------------------------------------------------------------------
(* finish_current_exit and the switch to idle. *)

exit_current(t) ==
  /\ pc[t] = "user"
  /\ \E c \in Codes : code' = [code EXCEPT ![t] = c]
  /\ Go(t, "exit")
  /\ UNCHANGED <<groupVars, gcode, tokenVars, tid, todo, child, held, stopVars, asked,
                 endVars>>

(* The first look at the group's code, and the thread's own cleanup; its    *)
(* signals are not looked at any more.                                      *)
exit_thread_resources(t) ==
  /\ pc[t] = "exit"
  /\ code' = [code EXCEPT ![t] = IF is_group_exiting THEN gcode - 1 ELSE @]
  /\ kill' = [kill EXCEPT ![t] = FALSE]
  /\ Go(t, "release")
  /\ UNCHANGED <<groupVars, gcode, tokenVars, tid, todo, child, held, asleep, asked,
                 endVars>>

(* Whether the list is long enough to be compacted is left open.  The token *)
(* is given back without the lock and the list compacted later under it; as *)
(* that drops only threads that have left their CPU for good, it is taken   *)
(* together with the rest.                                                  *)
remove_thread(t) ==
  /\ pc[t] = "release"
  /\ counted' = [counted EXCEPT ![t] = FALSE]
  /\ live' = live - 1
  /\ members' \in {members, {u \in members : counted'[u] \/ ~inactive[u]}}
  /\ Go(t, IF live' = 0 THEN "last" ELSE "switch")
  /\ UNCHANGED <<exec, pending, session, done, gcode, inactive, tid, ownVars, stopVars, asked,
                 endVars>>

(* Variant: the code the last thread came with. *)
OwnCode(t) == code[t]

ProcessCode(t) == IF is_group_exiting THEN gcode - 1 ELSE code[t]

(* The second look decides; mark_zombie takes the first result only. *)
finish_exit(t) ==
  /\ pc[t] = "last"
  /\ IF zombie THEN UNCHANGED endVars
     ELSE /\ zombie' = TRUE
          /\ status' = ProcessCode(t)
  /\ Go(t, "switch")
  /\ UNCHANGED <<groupVars, gcode, tokenVars, tid, ownVars, stopVars, asked>>

(* Variant: the acknowledgement is not tied to a session. *)
AckAnyway(t) == FALSE

NoAckNeeded(t) == exec = NoOwner \/ exec = tid[t]

(* On the idle stack, after the current slot was cleared; the thread's own  *)
(* stack, and the code on it, are gone.                                     *)
publish_exit_inactive(t) ==
  /\ pc[t] = "switch"
  /\ inactive' = [inactive EXCEPT ![t] = TRUE]
  /\ code' = [code EXCEPT ![t] = 0]
  /\ IF NoAckNeeded(t)
     THEN Go(t, "gone") /\ UNCHANGED <<pending, held>>
     ELSE /\ pending' = pending - 1
          /\ held' = [held EXCEPT ![t] = IF pending' = 0 THEN session ELSE 0]
          /\ Go(t, IF pending' = 0 THEN "complete" ELSE "gone")
  /\ UNCHANGED <<members, exec, session, done, gcode, live, counted, tid, todo, child,
                 stopVars, asked, endVars>>

(* The completion is triggered after the lock was released. *)
complete(t) ==
  /\ pc[t] = "complete"
  /\ done' = done \cup {held[t]}
  /\ held' = [held EXCEPT ![t] = 0]
  /\ Go(t, "gone")
  /\ UNCHANGED <<members, exec, pending, session, gcode, tokenVars, tid, todo, child, code,
                 stopVars, asked, endVars>>

-----------------------------------------------------------------------------
(* What a user program or its environment chooses to do, and what the       *)
(* kernel then does by itself.                                              *)
Choice(t) == CloneThread(t) \/ WaitCheck(t) \/ WakeUp(t) \/ exit_group(t) \/ TakeFatal(t)
             \/ ExecFails(t) \/ begin_exec(t) \/ InstallFails(t) \/ exit_current(t)

Kernel(t) == publish_thread(t) \/ begin_interruptible_sleep(t) \/ sleep_recheck(t)
             \/ Resume(t) \/ Interrupt(t) \/ run_task_safe_point(t) \/ TakeKill(t)
             \/ do_signal(t) \/ request_sibling_exit(t) \/ AllAsked(t) \/ exec_wait(t)
             \/ install_exec_image(t) \/ ExecFinish(t) \/ become_group_leader(t)
             \/ exit_thread_resources(t) \/ remove_thread(t) \/ finish_exit(t)
             \/ publish_exit_inactive(t) \/ complete(t)

(* The process is over when its last thread has left its CPU. *)
Over == zombie /\ Active = {} /\ (\A t \in Threads : pc[t] # "complete") /\ UNCHANGED vars

Next == (\E t \in Threads : Choice(t) \/ Kernel(t)) \/ Over

Spec == Init /\ [][Next]_vars

(* Every thread that can run is scheduled, and user mode is interrupted. *)
FairSpec == Spec /\ \A t \in Threads : WF_vars(Kernel(t))

-----------------------------------------------------------------------------
(* Types of the group's state. *)
TypeOK ==
  /\ members \subseteq Threads
  /\ exec \in Threads \cup {NoOwner}
  /\ pending \in Nat /\ session \in 0 .. MaxExecs /\ done \subseteq 0 .. MaxExecs
  /\ gcode \in Nat /\ live \in Nat
  /\ counted \in [Threads -> BOOLEAN] /\ inactive \in [Threads -> BOOLEAN]
  /\ tid \in [Threads -> Threads] /\ pc \in [Threads -> PCs]
  /\ todo \in [Threads -> SUBSET Threads]
  /\ child \in [Threads -> Threads] /\ held \in [Threads -> 0 .. MaxExecs]
  /\ code \in [Threads -> Nat]
  /\ kill \in [Threads -> BOOLEAN] /\ asleep \in [Threads -> BOOLEAN]
  /\ asked \in BOOLEAN /\ zombie \in BOOLEAN /\ status \in Nat

(* From the moment install_exec_image decides to commit until the owner has *)
(* taken over the PID, no other thread of the group can run (none is even   *)
(* being cloned) and the group is not exiting: nobody executes on the       *)
(* address space that is replaced.                                          *)
ExecAlone ==
  \A t \in Threads :
    pc[t] \in {"install", "reopen", "lead"} => gcode = 0 /\ Active = {t}

(* A zombie process has no thread left that holds a live token or still     *)
(* cleans up, and reports the code the group agreed on, whichever thread    *)
(* was the last and whatever code it came with.                             *)
ExitIsFinal ==
  zombie => /\ \A t \in Active : pc[t] = "switch"
            /\ gcode # 0 => status = gcode - 1

(* The assertions of the code: no thread is published twice, the live count *)
(* and pending_inactive do not go below zero, begin_exec finds its caller   *)
(* live, finish finds its own session with no sibling left unless the group *)
(* exits, and the TID of a live leader is not taken away.                   *)
NoPanic ==
  \A t \in Threads :
    /\ pc[t] = "clone" => ~counted[child[t]]
    /\ pc[t] = "release" => live > 0 /\ counted[t]
    /\ pc[t] = "switch" => /\ ~inactive[t]
                           /\ exec # NoOwner /\ exec # tid[t] => pending > 0
    /\ pc[t] = "user" => counted[t] /\ (gcode = 0 => t \in members)
    /\ pc[t] \in {"install", "reopen"} => live = 1 /\ exec = tid[t] /\ pending = 0
    /\ pc[t] = "execwait" => exec = tid[t]
    /\ pc[t] = "lead" => \A u \in Threads \ {t} : tid[u] = Leader => ~counted[u]

(* What is asked of the siblings happens: once a group exit has begun the   *)
(* process becomes a zombie, and an exec session ends, even if the threads  *)
(* were asleep, falling asleep or being cloned when they were asked.        *)
StopCompletes ==
  /\ (gcode # 0) ~> zombie
  /\ (exec # NoOwner) ~> (exec = NoOwner)

(* begin_exec asks its siblings only to exit themselves, and only a group   *)
(* exit can take the exec away from its owner: the group exits only if one  *)
(* of its threads called exit_group or took a fatal signal from outside.    *)
ExecSparesOwner == gcode # 0 => asked

=============================================================================
