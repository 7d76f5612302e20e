----------------------------- MODULE GroupFacts -----------------------------
(***************************************************************************)
(* Safety of the thread group for any finite set of threads and any number *)
(* of execs: the inductive invariant, its initial states, its types, and   *)
(* the steps that disturb nothing.  IInv adds to the properties what makes *)
(* them inductive: which positions hold a live token, that the list of     *)
(* members has everybody an exec must wait for, and that pending_inactive  *)
(* counts exactly those.                                                   *)
(***************************************************************************)
EXTENDS ThreadGroup, FiniteSetTheorems, TLAPS

Unborn == {"none", "built"}
Left == {"complete", "gone"}
Tokenless == {"last", "switch"}
Owning == {"execkill", "execwait", "install", "reopen"}
Alone == {"install", "reopen", "lead"}
Holding == PCs \ (Unborn \cup Left \cup Tokenless)

(* The flags of a TCB follow its position; members has what it must have. *)
TokenInv ==
  /\ \A t \in Threads : counted[t] <=> pc[t] \in Holding
  /\ \A t \in Threads : inactive[t] <=> pc[t] \in Left
  /\ live = Cardinality({t \in Threads : pc[t] \in Holding})
  /\ \A t \in Threads : counted[t] => t \in members
  /\ gcode = 0 => \A t \in Active : t \in members
  /\ \A t \in members : pc[t] \notin Unborn

TidInv == \A t, u \in Threads : tid[t] = tid[u] => t = u

(* A session has its owner, and counts the other threads on a CPU. *)
SessionInv ==
  /\ \A t \in Threads : pc[t] \in Owning => exec = tid[t]
  /\ exec # NoOwner => \E t \in Threads : pc[t] \in Owning /\ exec = tid[t]
  /\ exec # NoOwner => pending = Cardinality({t \in Active : tid[t] # exec})
  /\ exec # NoOwner /\ session \in done => pending = 0
  /\ \A t \in Threads : exec # NoOwner /\ pc[t] = "complete" /\ held[t] = session => pending = 0
  /\ \A t \in Threads : held[t] <= session
  /\ \A d \in done : d <= session

CloneInv ==
  /\ \A t \in Threads : pc[t] = "clone" => pc[child[t]] = "built"
  /\ \A t, u \in Threads :
       pc[t] = "clone" /\ pc[u] = "clone" /\ child[t] = child[u] => t = u

EndInv ==
  /\ \A t, u \in Threads : pc[t] = "last" => pc[u] \notin Holding /\ (pc[u] = "last" => t = u)
  /\ zombie => \A t \in Threads : pc[t] # "last"

IInv == /\ TypeOK /\ TokenInv /\ TidInv /\ SessionInv /\ CloneInv /\ EndInv
        /\ ExecAlone /\ ExitIsFinal

(* What IInv reads besides the types and pc. *)
coreVars == <<groupVars, gcode, tokenVars, tid, child, held, endVars>>

USE ThreadsFinite, LeaderIsThread, NoOwnerIsNone, CodesNat, MaxExecsNat

-----------------------------------------------------------------------------
(* The initial states have the invariant: one member, one token, no session. *)
LEMMA InitInv == Init => IInv
<1> SUFFICES ASSUME Init PROVE IInv
  OBVIOUS
<1>a. counted \in [Threads -> BOOLEAN] /\ (\A t \in Threads : counted[t] <=> t = Leader)
  BY Zenon DEF Init
<1>b. inactive \in [Threads -> BOOLEAN] /\ (\A t \in Threads : ~inactive[t])
  BY Zenon DEF Init
<1>c. kill \in [Threads -> BOOLEAN] /\ asleep \in [Threads -> BOOLEAN]
  BY Zenon DEF Init
<1>d. pc \in [Threads -> PCs]
  BY SMTT(30) DEF Init, PCs
<1>e. /\ todo \in [Threads -> SUBSET Threads] /\ tid \in [Threads -> Threads]
      /\ child \in [Threads -> Threads]
  BY Zenon DEF Init
<1>f. held \in [Threads -> 0 .. MaxExecs] /\ code \in [Threads -> Nat]
  BY SMTT(30) DEF Init
<1>g. /\ members \subseteq Threads /\ exec \in Threads \cup {NoOwner}
      /\ asked \in BOOLEAN /\ zombie \in BOOLEAN
  BY Zenon DEF Init
<1>h. /\ pending \in Nat /\ session \in 0 .. MaxExecs /\ done \subseteq 0 .. MaxExecs
      /\ gcode \in Nat /\ live \in Nat /\ status \in Nat
  BY SMTT(30) DEF Init
<1>1. TypeOK
  BY <1>a, <1>b, <1>c, <1>d, <1>e, <1>f, <1>g, <1>h DEF TypeOK
<1>2. {t \in Threads : pc[t] \in Holding} = {Leader}
  BY SMTT(30) DEF Init, Holding, PCs, Unborn, Left, Tokenless
<1>3. Cardinality({Leader}) = 1
  BY FS_Singleton
<1>4. TokenInv
  BY <1>2, <1>3, <1>a, <1>b, SMTT(30) DEF Init, TokenInv, Holding, PCs, Unborn, Left, Tokenless, Active
<1>5. TidInv /\ SessionInv /\ CloneInv /\ EndInv
  BY SMTT(30) DEF Init, TidInv, SessionInv, CloneInv, EndInv, Owning, Holding, PCs
<1>6. ExecAlone /\ ExitIsFinal
  BY SMTT(30) DEF Init, ExecAlone, ExitIsFinal
<1>7. QED
  BY <1>1, <1>4, <1>5, <1>6 DEF IInv

(* A step that moves one thread between positions that hold a token and     *)
(* take no part in exec or clone keeps everything but the types.            *)
LEMMA QuietStep ==
  ASSUME IInv, TypeOK', NEW t \in Threads, NEW w,
         pc[t] \in Holding \ (Owning \cup {"clone", "lead"}),
         w \in Holding \ (Owning \cup {"clone", "lead"}),
         Go(t, w), UNCHANGED coreVars
  PROVE  IInv'
<1> USE DEF IInv, coreVars, groupVars, tokenVars, endVars
<1> /\ pc \in [Threads -> PCs] /\ counted \in [Threads -> BOOLEAN]
    /\ tid \in [Threads -> Threads] /\ child \in [Threads -> Threads]
    /\ members \subseteq Threads
  BY DEF TypeOK
<1>1. /\ pc'[t] = w /\ w \in PCs
      /\ \A u \in Threads : u # t => pc'[u] = pc[u]
  BY DEF Go, Holding
<1>2. {u \in Threads : pc'[u] \in Holding} = {u \in Threads : pc[u] \in Holding}
  BY <1>1
<1>3. /\ pc[t] \notin Unborn \cup Left \cup Tokenless
      /\ w \notin Unborn \cup Left \cup Tokenless
  BY DEF Holding
<1>4. Active' = Active
  BY <1>1, <1>3 DEF Active, Unborn, Left
<1>5. TokenInv'
  BY Zenon, <1>1, <1>2, <1>3, <1>4 DEF TokenInv
<1>6. TidInv'
  BY DEF TidInv
<1>7. SessionInv'
  <2>1. {u \in Active' : tid'[u] # exec'} = {u \in Active : tid[u] # exec}
    BY <1>4
  <2>2. pc[t] # "complete" /\ w # "complete"
    BY <1>3 DEF Left
  <2>3. \A u \in Threads : pc'[u] \in Owning <=> pc[u] \in Owning
    BY <1>1
  <2>4. QED
    BY Zenon, <1>1, <2>1, <2>2, <2>3 DEF SessionInv
<1>8. CloneInv'
  <2>1. \A u \in Threads : pc'[u] = "clone" <=> pc[u] = "clone"
    BY <1>1
  <2>2. \A u \in Threads : pc[u] = "built" => pc'[u] = "built"
    BY <1>1, <1>3 DEF Unborn
  <2>3. QED
    BY <2>1, <2>2 DEF CloneInv
<1>9. EndInv'
  <2>1. \A u \in Threads : pc[u] # "last"
    BY <1>3 DEF EndInv, Holding
  <2>2. w # "last"
    BY <1>3 DEF Tokenless
  <2>3. QED
    BY <1>1, <2>1, <2>2 DEF EndInv
<1>10. ExecAlone'
  <2>1. t \in Active
    BY <1>3 DEF Active, Unborn, Left
  <2>2. pc[t] \notin {"install", "reopen", "lead"} /\ w \notin {"install", "reopen", "lead"}
    BY DEF Owning
  <2>3. QED
    BY <1>1, <1>4, <2>1, <2>2 DEF ExecAlone
<1>11. ExitIsFinal'
  <2>1. ~zombie
    BY <1>3 DEF ExitIsFinal, Active, Unborn, Left, Tokenless
  <2>2. QED
    BY <2>1 DEF ExitIsFinal
<1>12. QED
  BY <1>5, <1>6, <1>7, <1>8, <1>9, <1>10, <1>11

(* A thread with a token: the process is not over, nobody is the last.      *)
LEMMA HolderFacts ==
  ASSUME IInv, NEW t \in Threads, pc[t] \in Holding
  PROVE  /\ ~zombie /\ t \in Active /\ counted[t] /\ t \in members
         /\ \A u \in Threads : pc[u] # "last"
<1>1. pc[t] \notin Unborn \cup Left \cup Tokenless
  BY DEF Holding
<1>2. t \in Active /\ pc[t] # "switch"
  BY <1>1 DEF Active, Unborn, Left, Tokenless
<1>3. QED
  BY <1>2 DEF IInv, ExitIsFinal, EndInv, TokenInv

(* No completion is of a session that has not begun. *)
LEMMA SessionBounds ==
  ASSUME IInv
  PROVE  /\ session \in Nat /\ held \in [Threads -> Nat]
         /\ \A u \in Threads : held[u] <= session
         /\ \A d \in done : d \in Nat /\ d <= session
<1>1. session \in Nat /\ held \in [Threads -> Nat] /\ \A d \in done : d \in Nat
  BY DEF IInv, TypeOK
<1>2. QED
  BY <1>1 DEF IInv, SessionInv

(* While a thread is on a CPU and not itself committing an exec, nobody is. *)
LEMMA NobodyAlone ==
  ASSUME IInv, NEW t \in Threads, t \in Active, pc[t] \notin Alone
  PROVE  \A u \in Threads : pc[u] \notin Alone
BY DEF IInv, ExecAlone, Alone

(* The counters of the group, where they are decremented, are positive. *)
LEMMA CountsPositive ==
  ASSUME IInv, NEW t \in Threads
  PROVE  /\ pc[t] \in Holding => live > 0
         /\ pc[t] = "switch" /\ exec # NoOwner /\ exec # tid[t] => pending > 0
<1>1. ASSUME NEW S, S \subseteq Threads, t \in S PROVE Cardinality(S) \in Nat /\ Cardinality(S) > 0
  <2>1. IsFiniteSet(S)
    BY <1>1, FS_Subset
  <2>2. Cardinality(S) \in Nat /\ (Cardinality(S) = 0 => S = {})
    BY <2>1, FS_CardinalityType, FS_EmptySet
  <2>3. QED
    BY <1>1, <2>2
<1>2. pc[t] \in Holding => live > 0
  BY <1>1 DEF IInv, TokenInv
<1>3. ASSUME pc[t] = "switch", exec # NoOwner, exec # tid[t] PROVE pending > 0
  <2>1. t \in {u \in Active : tid[u] # exec}
    BY <1>3 DEF Active
  <2>2. {u \in Active : tid[u] # exec} \subseteq Threads
    BY DEF Active
  <2>3. QED
    BY <1>1, <1>3, <2>1, <2>2 DEF IInv, SessionInv
<1>4. QED
  BY <1>2, <1>3

-----------------------------------------------------------------------------
(* Every step keeps the types; the guards of the counters are in IInv. *)
LEMMA TypeStep ==
  ASSUME IInv, NEW t \in Threads, Choice(t) \/ Kernel(t)
  PROVE  TypeOK'
<1> USE DEF Go, groupVars, tokenVars, ownVars, stopVars, endVars
<1>0. TypeOK
  BY DEF IInv
<1>1. ASSUME NEW w \in PCs PROVE [pc EXCEPT ![t] = w] \in [Threads -> PCs]
  BY <1>0, <1>1 DEF TypeOK
<1>a. ASSUME NEW w \in PCs, NEW v \in PCs, NEW c \in Threads
      PROVE  [pc EXCEPT ![t] = w, ![c] = v] \in [Threads -> PCs]
  BY <1>0, <1>a DEF TypeOK
<1>2. CASE CloneThread(t)
  <2>1. PICK c \in Threads : IF thread_publish_blocked
                             THEN Go(t, "trap") /\ UNCHANGED child
                             ELSE /\ pc' = [pc EXCEPT ![t] = "clone", ![c] = "built"]
                                  /\ child' = [child EXCEPT ![t] = c]
    BY <1>2 DEF CloneThread
  <2>2. {"trap", "clone", "built"} \subseteq PCs
    BY DEF PCs
  <2>3. pc' \in [Threads -> PCs] /\ child' \in [Threads -> Threads]
    <3>1. CASE thread_publish_blocked
      BY <1>0, <1>1, <2>1, <2>2, <3>1 DEF TypeOK
    <3>2. CASE ~thread_publish_blocked
      <4>1. /\ pc' = [pc EXCEPT ![t] = "clone", ![c] = "built"]
            /\ child' = [child EXCEPT ![t] = c]
        BY <2>1, <3>2
      <4>2. pc' \in [Threads -> PCs]
        BY Zenon, <1>a, <2>2, <4>1
      <4>3. QED
        BY <1>0, <4>1, <4>2 DEF TypeOK
    <3>3. QED
      BY <3>1, <3>2
  <2>4. QED
    BY <1>0, <1>2, <2>3 DEF CloneThread, TypeOK
<1>3. CASE publish_thread(t)
  <2>1. {"trap", "none", "user"} \subseteq PCs
    BY DEF PCs
  <2>2. PICK c \in Threads : c = child[t]
    BY <1>0 DEF TypeOK
  <2>a. /\ child' = [child EXCEPT ![t] = t]
        /\ UNCHANGED <<exec, pending, session, done, gcode, tid, todo, held, code, stopVars, asked,
                       endVars>>
    BY <1>3 DEF publish_thread
  <2>3. CASE PublishRefused
    <3>1. pc' = [pc EXCEPT ![t] = "trap", ![c] = "none"] /\ UNCHANGED <<members, tokenVars>>
      BY <1>3, <2>2, <2>3 DEF publish_thread
    <3>2. pc' \in [Threads -> PCs]
      BY Zenon, <1>a, <2>1, <3>1
    <3>3. QED
      BY <1>0, <2>a, <3>1, <3>2, SMTT(30) DEF TypeOK
  <2>4. CASE ~PublishRefused
    <3>1. /\ pc' = [pc EXCEPT ![t] = "trap", ![c] = "user"]
          /\ members' = members \cup {c}
          /\ counted' = [counted EXCEPT ![c] = TRUE] /\ live' = live + 1 /\ UNCHANGED inactive
      BY <1>3, <2>2, <2>4 DEF publish_thread
    <3>2. pc' \in [Threads -> PCs]
      BY Zenon, <1>a, <2>1, <3>1
    <3>3. QED
      BY <1>0, <2>a, <3>1, <3>2, SMTT(30) DEF TypeOK
  <2>5. QED
    BY <2>3, <2>4
<1>4. CASE WaitCheck(t) \/ Interrupt(t) \/ do_signal(t) \/ install_exec_image(t)
            \/ AllAsked(t) \/ Resume(t)
  <2> HIDE DEF Go
  <2>1. \/ Go(t, "trap") \/ Go(t, "wait") \/ Go(t, "user")
        \/ Go(t, "reopen") \/ Go(t, "exit") \/ Go(t, "execwait")
    BY <1>4 DEF WaitCheck, Interrupt, do_signal, install_exec_image, AllAsked, Resume
  <2>a. {"trap", "wait", "user", "reopen", "exit", "execwait"} \subseteq PCs
    BY DEF PCs
  <2>2. pc' \in [Threads -> PCs]
    BY <1>1, <2>1, <2>a DEF Go
  <2>3. QED
    BY Zenon, <1>0, <1>4, <2>2 DEF WaitCheck, Interrupt, do_signal, install_exec_image, AllAsked,
       Resume, TypeOK
<1>5. CASE begin_interruptible_sleep(t) \/ sleep_recheck(t)
  <2>1. asleep' \in [Threads -> BOOLEAN]
    BY <1>0, <1>5, Zenon DEF begin_interruptible_sleep, sleep_recheck, StaysAsleep,
       thread_must_exit, exec_stops_thread, is_group_exiting, TypeOK
  <2>2. pc' \in [Threads -> PCs]
    BY <1>1, <1>5 DEF begin_interruptible_sleep, sleep_recheck, PCs
  <2>3. QED
    BY Zenon, <1>0, <1>5, <2>1, <2>2 DEF begin_interruptible_sleep, sleep_recheck, TypeOK
<1>6. CASE WakeUp(t)
  BY <1>0, <1>6 DEF WakeUp, TypeOK
<1>7. CASE run_task_safe_point(t)
  BY <1>0, <1>7, SMTT(30) DEF run_task_safe_point, is_group_exiting, SIGKILL, TypeOK, PCs
<1>8. CASE exit_group(t) \/ TakeKill(t) \/ TakeFatal(t)
  <2>1. PICK c \in Nat : begin_group_exit(t, c)
    BY <1>8 DEF exit_group, TakeKill, TakeFatal, SIGKILL
  <2>2. gcode' \in Nat \ {0}
    BY <1>0, <2>1 DEF begin_group_exit, TypeOK
  <2>3. code' \in [Threads -> Nat]
    BY <1>0, <2>1, <2>2 DEF begin_group_exit, TypeOK
  <2>4. /\ members' \subseteq Threads /\ todo' \in [Threads -> SUBSET Threads]
        /\ pc' \in [Threads -> PCs]
    BY <1>0, <1>1, <2>1 DEF begin_group_exit, TypeOK, PCs
  <2>5. /\ UNCHANGED <<exec, pending, session, done, tokenVars, tid, child, held, asleep, endVars>>
        /\ asked' \in BOOLEAN /\ kill' \in [Threads -> BOOLEAN]
    BY <1>0, <1>8, <2>1, Zenon DEF begin_group_exit, exit_group, TakeKill, TakeFatal, TypeOK
  <2>6. QED
    BY <1>0, <2>2, <2>3, <2>4, <2>5 DEF TypeOK
<1>9. CASE request_sibling_exit(t)
  <2>1. PICK u \in todo[t] :
          /\ todo' = [todo EXCEPT ![t] = @ \ {u}]
          /\ \/ UNCHANGED stopVars
             \/ /\ kill' = [kill EXCEPT ![u] = TRUE]
                /\ asleep' = [asleep EXCEPT ![u] = FALSE]
    BY <1>9, Zenon DEF request_sibling_exit
  <2>2. /\ todo' \in [Threads -> SUBSET Threads]
        /\ kill' \in [Threads -> BOOLEAN] /\ asleep' \in [Threads -> BOOLEAN]
    BY Zenon, <1>0, <2>1 DEF TypeOK
  <2>3. QED
    BY <1>0, <1>9, <2>2 DEF request_sibling_exit, TypeOK
<1>10. CASE ExecFails(t) \/ exit_current(t)
  <2>1. pc' \in [Threads -> PCs]
    BY <1>1, <1>10 DEF ExecFails, exit_current, PCs
  <2>2. PICK c \in Nat : code' = [code EXCEPT ![t] = c]
    BY <1>10 DEF ExecFails, exit_current, EXEC_FAILED
  <2>a. code' \in [Threads -> Nat]
    BY <1>0, <2>2 DEF TypeOK
  <2>3. QED
    BY Zenon, <1>0, <1>10, <2>1, <2>a DEF ExecFails, exit_current, TypeOK
<1>11. CASE begin_exec(t)
  <2>1. Cardinality({u \in {v \in members : tid[v] # tid[t]} : WaitedFor(u)}) \in Nat
    <3>1. IsFiniteSet({u \in {v \in members : tid[v] # tid[t]} : WaitedFor(u)})
      BY <1>0, FS_Subset DEF TypeOK
    <3>2. QED
      BY <3>1, FS_CardinalityType
  <2>2. pending' \in Nat
    BY <1>11, <2>1 DEF begin_exec
  <2>3. pc' \in [Threads -> PCs]
    BY <1>1, <1>11 DEF begin_exec, PCs
  <2>4. session' \in 1 .. MaxExecs /\ done' \subseteq 0 .. MaxExecs
    BY <1>0, <1>11 DEF begin_exec, TypeOK
  <2>5. /\ members' \subseteq Threads /\ exec' \in Threads
        /\ todo' \in [Threads -> SUBSET Threads]
    BY <1>0, <1>11 DEF begin_exec, TypeOK
  <2>6. UNCHANGED <<gcode, tokenVars, tid, child, held, code, stopVars, asked, endVars>>
    BY <1>11 DEF begin_exec
  <2>7. QED
    BY <1>0, <2>2, <2>3, <2>4, <2>5, <2>6, SMTT(30) DEF TypeOK
<1>12. CASE exec_wait(t) \/ InstallFails(t) \/ ExecFinish(t)
  <2>1. PICK w \in PCs : pc' = [pc EXCEPT ![t] = w]
    BY <1>12, SMTT(30) DEF exec_wait, InstallFails, ExecFinish, PCs
  <2>2. pc' \in [Threads -> PCs]
    BY <1>1, <2>1
  <2>3. exec' \in Threads \cup {NoOwner} /\ UNCHANGED <<members, pending, session, done>>
    BY <1>0, <1>12 DEF exec_wait, InstallFails, ExecFinish, finish, TypeOK
  <2>4. code' \in [Threads -> Nat]
    BY <1>0, <1>12 DEF exec_wait, InstallFails, ExecFinish, EXEC_FAILED, TypeOK
  <2>5. QED
    BY <1>0, <1>12, <2>2, <2>3, <2>4 DEF exec_wait, InstallFails, ExecFinish, TypeOK
<1>13. CASE become_group_leader(t)
  <2>1. pc' \in [Threads -> PCs]
    BY <1>1, <1>13 DEF become_group_leader, PCs
  <2>2. \A u \in Threads : (CASE u = t -> Leader
                              [] u # t /\ tid[u] = Leader -> tid[t]
                              [] OTHER -> tid[u]) \in Threads
    BY <1>0 DEF TypeOK
  <2>3. tid' \in [Threads -> Threads]
    BY <1>13, <2>2 DEF become_group_leader
  <2>4. QED
    BY <1>0, <1>13, <2>1, <2>3 DEF become_group_leader, TypeOK
<1>14. CASE exit_thread_resources(t)
  BY <1>0, <1>14, SMTT(30) DEF exit_thread_resources, is_group_exiting, TypeOK, PCs
<1>15. CASE remove_thread(t)
  <2>1. live > 0
    BY <1>15, CountsPositive DEF remove_thread, Holding, PCs, Unborn, Left, Tokenless
  <2>2. pc' \in [Threads -> PCs]
    BY <1>1, <1>15 DEF remove_thread, PCs
  <2>3. /\ members' \subseteq Threads /\ live' \in Nat
        /\ counted' \in [Threads -> BOOLEAN]
    BY <1>0, <1>15, <2>1 DEF remove_thread, TypeOK
  <2>4. QED
    BY <1>0, <1>15, <2>2, <2>3 DEF remove_thread, TypeOK
<1>16. CASE finish_exit(t)
  <2>1. pc' \in [Threads -> PCs]
    BY <1>1, <1>16 DEF finish_exit, PCs
  <2>2. ProcessCode(t) \in Nat
    BY <1>0 DEF ProcessCode, is_group_exiting, TypeOK
  <2>a. zombie' \in BOOLEAN /\ status' \in Nat
    BY Zenon, <1>0, <1>16, <2>2 DEF finish_exit, TypeOK
  <2>3. QED
    BY <1>0, <1>16, <2>1, <2>a DEF finish_exit, TypeOK
<1>17. CASE publish_exit_inactive(t)
  <2>1. ~NoAckNeeded(t) => pending > 0
    BY <1>17, CountsPositive DEF publish_exit_inactive, NoAckNeeded
  <2>2. pc' \in [Threads -> PCs]
    BY <1>1, <1>17 DEF publish_exit_inactive, PCs
  <2>3. /\ pending' \in Nat /\ held' \in [Threads -> 0 .. MaxExecs]
        /\ inactive' \in [Threads -> BOOLEAN] /\ code' \in [Threads -> Nat]
    BY <1>0, <1>17, <2>1 DEF publish_exit_inactive, TypeOK
  <2>4. QED
    BY <1>0, <1>17, <2>2, <2>3 DEF publish_exit_inactive, TypeOK
<1>18. CASE complete(t)
  <2>1. done' \subseteq 0 .. MaxExecs
    <3>1. held[t] \in 0 .. MaxExecs /\ session \in 0 .. MaxExecs /\ done \subseteq 0 .. MaxExecs
      BY <1>0 DEF TypeOK
    <3>2. QED
      BY Zenon, <1>18, <3>1 DEF complete
  <2>2. pc' \in [Threads -> PCs]
    BY <1>1, <1>18 DEF complete, PCs
  <2>3. held' \in [Threads -> 0 .. MaxExecs]
    BY <1>0, <1>18 DEF complete, TypeOK
  <2>4. UNCHANGED <<members, exec, pending, session, gcode, tokenVars, tid, todo, child, code,
                    stopVars, asked, endVars>>
    BY <1>18 DEF complete
  <2>5. QED
    BY <1>0, <2>1, <2>2, <2>3, <2>4, SMTT(30) DEF TypeOK
<1>19. QED
  BY <1>2, <1>3, <1>4, <1>5, <1>6, <1>7, <1>8, <1>9, <1>10, <1>11, <1>12, <1>13, <1>14, <1>15,
     <1>16, <1>17, <1>18 DEF Choice, Kernel

-----------------------------------------------------------------------------
(* A step that only touches signals, sleep or what is still to be asked. *)
LEMMA SameCore ==
  ASSUME IInv, TypeOK', UNCHANGED <<coreVars, pc>>
  PROVE  IInv'
<1> USE DEF IInv, coreVars, groupVars, tokenVars, endVars
<1>1. Active' = Active
  BY DEF Active
<1>2. TokenInv' /\ TidInv' /\ CloneInv' /\ EndInv'
  BY <1>1 DEF TokenInv, TidInv, CloneInv, EndInv
<1>3. SessionInv'
  BY <1>1 DEF SessionInv
<1>4. ExecAlone' /\ ExitIsFinal'
  BY <1>1 DEF ExecAlone, ExitIsFinal
<1>5. QED
  BY <1>2, <1>3, <1>4

(* The owner of a session goes on within it; to commit it must be alone. *)
LEMMA OwnerStep ==
  ASSUME IInv, TypeOK', NEW t \in Threads, NEW w \in Owning,
         pc[t] \in Owning, Go(t, w), UNCHANGED coreVars,
         w \in Alone => gcode = 0 /\ Active = {t}
  PROVE  IInv'
<1> USE DEF IInv, coreVars, groupVars, tokenVars, endVars
<1> /\ pc \in [Threads -> PCs] /\ counted \in [Threads -> BOOLEAN]
    /\ tid \in [Threads -> Threads] /\ child \in [Threads -> Threads]
    /\ members \subseteq Threads
  BY DEF TypeOK
<1>1. pc'[t] = w /\ \A u \in Threads : u # t => pc'[u] = pc[u]
  BY DEF Go
<1>2. pc[t] \in Holding /\ w \in Holding
  BY DEF Owning, Holding, PCs, Unborn, Left, Tokenless
<1>3. {u \in Threads : pc'[u] \in Holding} = {u \in Threads : pc[u] \in Holding}
  BY <1>1, <1>2
<1>4. /\ pc[t] \notin {"none", "built", "clone", "last", "switch", "complete", "gone", "lead"}
      /\ w \notin {"none", "built", "clone", "last", "switch", "complete", "gone", "lead"}
  BY DEF Owning
<1>5. Active' = Active
  BY <1>1, <1>4 DEF Active
<1>6. TokenInv'
  BY <1>1, <1>2, <1>3, <1>4, <1>5 DEF TokenInv, Left, Unborn
<1>7. TidInv'
  BY DEF TidInv
<1>8. SessionInv'
  <2>1. {u \in Active' : tid'[u] # exec'} = {u \in Active : tid[u] # exec}
    BY <1>5
  <2>2. \A u \in Threads : pc'[u] \in Owning <=> pc[u] \in Owning
    BY <1>1
  <2>3. \A u \in Threads : pc'[u] = "complete" <=> pc[u] = "complete"
    BY <1>1, <1>4
  <2>4. QED
    BY Zenon, <2>1, <2>2, <2>3 DEF SessionInv
<1>9. CloneInv'
  <2>1. \A u \in Threads : pc'[u] = "clone" <=> pc[u] = "clone"
    BY <1>1, <1>4
  <2>2. \A u \in Threads : pc[u] = "built" => pc'[u] = "built"
    BY <1>1, <1>4
  <2>3. QED
    BY <2>1, <2>2 DEF CloneInv
<1>10. EndInv' /\ ExitIsFinal'
  BY <1>1, <1>2, <1>4, HolderFacts DEF EndInv, ExitIsFinal
<1>11. ExecAlone'
  <2>1. t \in Active
    BY <1>4 DEF Active
  <2>2. QED
    BY <1>1, <1>5, <2>1 DEF ExecAlone, Alone
<1>12. QED
  BY <1>6, <1>7, <1>8, <1>9, <1>10, <1>11

(* The owner ends its session (ExecSession::finish) and exits or goes on to *)
(* take over the PID.                                                       *)
LEMMA CloseStep ==
  ASSUME IInv, TypeOK', NEW t \in Threads, NEW w \in {"exit", "lead"},
         pc[t] \in Owning, Go(t, w), finish(t),
         UNCHANGED <<gcode, tokenVars, tid, child, held, endVars>>,
         w = "lead" => gcode = 0 /\ Active = {t}
  PROVE  IInv'
<1> USE DEF IInv, groupVars, tokenVars, endVars, finish
<1> /\ pc \in [Threads -> PCs] /\ counted \in [Threads -> BOOLEAN]
    /\ tid \in [Threads -> Threads] /\ child \in [Threads -> Threads]
    /\ members \subseteq Threads
  BY DEF TypeOK
<1>1. pc'[t] = w /\ \A u \in Threads : u # t => pc'[u] = pc[u]
  BY DEF Go
<1>2. pc[t] \in Holding /\ w \in Holding
  BY DEF Owning, Holding, PCs, Unborn, Left, Tokenless
<1>3. {u \in Threads : pc'[u] \in Holding} = {u \in Threads : pc[u] \in Holding}
  BY <1>1, <1>2
<1>4. /\ pc[t] \notin {"none", "built", "clone", "last", "switch", "complete", "gone"}
      /\ w \notin {"none", "built", "clone", "last", "switch", "complete", "gone"}
      /\ w \notin Owning
  BY DEF Owning
<1>5. Active' = Active
  BY <1>1, <1>4 DEF Active
<1>6. TokenInv'
  BY Zenon, <1>1, <1>2, <1>3, <1>4, <1>5 DEF TokenInv, Left, Unborn
<1>7. TidInv'
  BY DEF TidInv
<1>8. SessionInv'
  <2>1. \A u \in Threads : pc[u] \in Owning => u = t
    BY DEF SessionInv, TidInv
  <2>2. \A u \in Threads : pc'[u] \notin Owning
    BY <1>1, <1>4, <2>1
  <2>3. QED
    BY <2>2 DEF SessionInv
<1>9. CloneInv'
  <2>1. \A u \in Threads : pc'[u] = "clone" <=> pc[u] = "clone"
    BY <1>1, <1>4
  <2>2. \A u \in Threads : pc[u] = "built" => pc'[u] = "built"
    BY <1>1, <1>4
  <2>3. QED
    BY <2>1, <2>2 DEF CloneInv
<1>10. EndInv' /\ ExitIsFinal'
  BY <1>1, <1>2, <1>4, HolderFacts DEF EndInv, ExitIsFinal
<1>11. ExecAlone'
  <2>1. t \in Active
    BY <1>4 DEF Active
  <2>2. QED
    BY <1>1, <1>5, <2>1 DEF ExecAlone
<1>12. QED
  BY <1>6, <1>7, <1>8, <1>9, <1>10, <1>11

-----------------------------------------------------------------------------
(* clone: a TCB is built; its builder alone refers to it. *)
LEMMA CloneStep ==
  ASSUME IInv, TypeOK', NEW t \in Threads, CloneThread(t)
  PROVE  IInv'
<1> USE DEF IInv, groupVars, tokenVars, endVars
<1> /\ pc \in [Threads -> PCs] /\ counted \in [Threads -> BOOLEAN]
    /\ tid \in [Threads -> Threads] /\ child \in [Threads -> Threads]
    /\ members \subseteq Threads
  BY DEF TypeOK
<1>1. pc[t] = "user" /\ pc[t] \in Holding
  BY DEF CloneThread, Holding, PCs, Unborn, Left, Tokenless
<1>2. CASE thread_publish_blocked
  <2>1. Go(t, "trap") /\ UNCHANGED coreVars
    BY <1>2 DEF CloneThread, coreVars
  <2>2. {"user", "trap"} \subseteq Holding \ (Owning \cup {"clone", "lead"})
    BY DEF Holding, PCs, Unborn, Left, Tokenless, Owning
  <2>3. QED
    BY <1>1, <2>1, <2>2, QuietStep
<1>3. CASE ~thread_publish_blocked
  <2>1. PICK c \in Threads : /\ pc[c] = "none"
                             /\ pc' = [pc EXCEPT ![t] = "clone", ![c] = "built"]
                             /\ child' = [child EXCEPT ![t] = c]
    BY <1>3 DEF CloneThread
  <2>2. UNCHANGED <<groupVars, gcode, tokenVars, tid, held, endVars>>
    BY DEF CloneThread
  <2>3. /\ c # t /\ pc'[t] = "clone" /\ pc'[c] = "built"
        /\ \A u \in Threads \ {t, c} : pc'[u] = pc[u]
    BY <1>1, <2>1
  <2>4. /\ "clone" \in Holding /\ "none" \notin Holding /\ "built" \notin Holding
        /\ {"user", "clone", "none", "built"} \cap (Owning \cup Left) = {}
    BY DEF Holding, PCs, Unborn, Left, Tokenless, Owning
  <2>5. {u \in Threads : pc'[u] \in Holding} = {u \in Threads : pc[u] \in Holding}
    <3>1. \A u \in Threads : pc'[u] \in Holding <=> pc[u] \in Holding
      BY <1>1, <2>1, <2>3, <2>4
    <3>2. QED
      BY <3>1
  <2>6. Active' = Active
    BY <1>1, <2>1, <2>3 DEF Active
  <2>7. TokenInv'
    <3>1. \A u \in Threads : /\ pc'[u] \in Holding <=> pc[u] \in Holding
                             /\ pc'[u] \in Left <=> pc[u] \in Left
      BY <1>1, <2>1, <2>3, <2>4
    <3>2. \A u \in members : pc'[u] \notin Unborn
      BY <1>1, <2>1, <2>3 DEF TokenInv, Unborn
    <3>3. QED
      BY <2>2, <2>5, <2>6, <3>1, <3>2 DEF TokenInv
  <2>8. TidInv'
    BY <2>2 DEF TidInv
  <2>9. SessionInv'
    <3>1. {u \in Active' : tid'[u] # exec'} = {u \in Active : tid[u] # exec}
      BY <2>2, <2>6
    <3>2. \A u \in Threads : pc'[u] \in Owning <=> pc[u] \in Owning
      BY <1>1, <2>1, <2>3, <2>4
    <3>3. \A u \in Threads : pc'[u] = "complete" <=> pc[u] = "complete"
      BY <1>1, <2>1, <2>3
    <3>4. QED
      BY <2>2, <3>1, <3>2, <3>3 DEF SessionInv
  <2>10. CloneInv'
    BY <1>1, <2>1, <2>3 DEF CloneInv
  <2>11. EndInv' /\ ExitIsFinal'
    BY <1>1, <2>1, <2>2, <2>3, HolderFacts DEF EndInv, ExitIsFinal
  <2>12. ExecAlone'
    <3>1. \A u \in Threads : pc[u] \notin Alone
      BY <1>1, HolderFacts, NobodyAlone DEF Alone
    <3>2. QED
      BY <2>3, <3>1 DEF ExecAlone, Alone
  <2>13. QED
    BY <2>7, <2>8, <2>9, <2>10, <2>11, <2>12
<1>4. QED
  BY <1>2, <1>3

(* publish_thread: a refused TCB leaves no trace; an accepted one becomes a *)
(* member with a token while there is neither a session nor a group exit.   *)
LEMMA PublishStep ==
  ASSUME IInv, TypeOK', NEW t \in Threads, publish_thread(t)
  PROVE  IInv'
<1> USE DEF IInv, groupVars, tokenVars, endVars
<1> /\ pc \in [Threads -> PCs] /\ counted \in [Threads -> BOOLEAN]
    /\ tid \in [Threads -> Threads] /\ child \in [Threads -> Threads]
    /\ members \subseteq Threads
  BY DEF TypeOK
<1>1. PICK c \in Threads : c = child[t]
  OBVIOUS
<1>2. pc[t] = "clone" /\ pc[c] = "built" /\ c # t
  BY <1>1 DEF publish_thread, CloneInv
<1>3. PICK w \in {"none", "user"} :
        /\ pc'[t] = "trap" /\ pc'[c] = w
        /\ \A u \in Threads \ {t, c} : pc'[u] = pc[u]
        /\ w = "none" => UNCHANGED <<members, tokenVars>>
        /\ w = "user" => /\ gcode = 0 /\ exec = NoOwner /\ members' = members \cup {c}
                         /\ counted' = [counted EXCEPT ![c] = TRUE]
                         /\ live' = live + 1 /\ UNCHANGED inactive
  <2>1. CASE PublishRefused
    <3>1. pc' = [pc EXCEPT ![t] = "trap", ![c] = "none"] /\ UNCHANGED <<members, tokenVars>>
      BY <1>1, <2>1 DEF publish_thread
    <3>2. QED
      BY <1>2, <3>1
  <2>2. CASE ~PublishRefused
    <3>1. gcode = 0 /\ exec = NoOwner
      BY <2>2 DEF PublishRefused, is_group_exiting
    <3>2. /\ pc' = [pc EXCEPT ![t] = "trap", ![c] = "user"] /\ members' = members \cup {c}
          /\ counted' = [counted EXCEPT ![c] = TRUE] /\ live' = live + 1 /\ UNCHANGED inactive
      BY <1>1, <2>2 DEF publish_thread
    <3>3. /\ pc'[t] = "trap" /\ pc'[c] = "user"
          /\ \A u \in Threads \ {t, c} : pc'[u] = pc[u]
      BY <1>2, <3>2
    <3>4. QED
      BY <3>1, <3>2, <3>3
  <2>3. QED
    BY <2>1, <2>2
<1>4. /\ child' = [child EXCEPT ![t] = t]
      /\ UNCHANGED <<exec, pending, session, done, gcode, tid, held, endVars>>
  BY DEF publish_thread
<1>5. /\ "clone" \in Holding /\ "trap" \in Holding /\ "user" \in Holding
      /\ "none" \notin Holding /\ "built" \notin Holding
      /\ {"clone", "trap", "user", "none", "built"} \cap (Owning \cup Left \cup Alone) = {}
  BY DEF Holding, PCs, Unborn, Left, Tokenless, Owning, Alone
<1>6. pc[t] \in Holding
  BY <1>2, <1>5
<1>a. {u \in Threads : pc'[u] \in Holding}
        = {u \in Threads : pc[u] \in Holding} \cup (IF w = "user" THEN {c} ELSE {})
  <2>1. \A u \in Threads : pc'[u] \in Holding <=> (pc[u] \in Holding \/ (u = c /\ w = "user"))
    BY <1>2, <1>3, <1>5
  <2>2. QED
    BY <2>1
<1>b. Active' = Active \cup (IF w = "user" THEN {c} ELSE {})
  BY <1>2, <1>3 DEF Active
<1>c. c \notin members /\ pc[c] \notin Holding
  BY <1>2, <1>5 DEF TokenInv, Unborn
<1>7. TokenInv'
  <2>1. \A u \in Threads : counted'[u] <=> pc'[u] \in Holding
    <3>1. CASE w = "none"
      <4>1. \A u \in Threads : pc'[u] \in Holding <=> pc[u] \in Holding
        BY <1>2, <1>3, <1>5, <3>1
      <4>2. counted' = counted
        BY <1>3, <3>1
      <4>3. QED
        BY <4>1, <4>2 DEF TokenInv
    <3>2. CASE w = "user"
      <4>1. \A u \in Threads : pc'[u] \in Holding <=> (u = c \/ pc[u] \in Holding)
        BY <1>2, <1>3, <1>5, <3>2
      <4>2. counted' = [counted EXCEPT ![c] = TRUE]
        BY <1>3, <3>2
      <4>3. QED
        BY <4>1, <4>2, Zenon DEF TokenInv
    <3>3. QED
      BY <3>1, <3>2
  <2>2. \A u \in Threads : inactive'[u] <=> pc'[u] \in Left
    <3>1. \A u \in Threads : pc'[u] \in Left <=> pc[u] \in Left
      BY <1>2, <1>3, <1>5
    <3>2. inactive' = inactive
      BY <1>3
    <3>3. QED
      BY <3>1, <3>2 DEF TokenInv
  <2>3. live' = Cardinality({u \in Threads : pc'[u] \in Holding})
    <3>1. IsFiniteSet({u \in Threads : pc[u] \in Holding})
      BY FS_Subset
    <3>2. CASE w = "none"
      <4>1. {u \in Threads : pc'[u] \in Holding} = {u \in Threads : pc[u] \in Holding}
        BY <1>a, <3>2
      <4>2. QED
        BY Zenon, <1>3, <3>2, <4>1 DEF TokenInv
    <3>3. CASE w = "user"
      <4>1. c \notin {u \in Threads : pc[u] \in Holding}
        BY <1>c
      <4>2. Cardinality({u \in Threads : pc[u] \in Holding} \cup {c})
              = Cardinality({u \in Threads : pc[u] \in Holding}) + 1
        BY Zenon, <3>1, <4>1, FS_AddElement
      <4>3. QED
        BY Zenon, <1>3, <1>a, <3>3, <4>2 DEF TokenInv
    <3>4. QED
      BY <3>2, <3>3
  <2>4. members' = members \cup (IF w = "user" THEN {c} ELSE {})
    BY <1>3
  <2>5. \A u \in Threads : counted'[u] => u \in members'
    BY <1>a, <2>1, <2>4 DEF TokenInv
  <2>6. gcode' = 0 => \A u \in Active' : u \in members'
    BY <1>4, <1>b, <2>4 DEF TokenInv
  <2>7. \A u \in members' : pc'[u] \notin Unborn
    BY <1>2, <1>3, <1>c, <2>4 DEF TokenInv, Unborn
  <2>8. QED
    BY <2>1, <2>2, <2>3, <2>5, <2>6, <2>7 DEF TokenInv
<1>8. TidInv'
  BY <1>4 DEF TidInv
<1>9. SessionInv'
  <2>1. \A u \in Threads : pc'[u] \in Owning <=> pc[u] \in Owning
    BY <1>2, <1>3, <1>5
  <2>2. \A u \in Threads : pc'[u] = "complete" <=> pc[u] = "complete"
    BY <1>2, <1>3
  <2>3. exec # NoOwner => {u \in Active' : tid'[u] # exec'} = {u \in Active : tid[u] # exec}
    BY <1>3, <1>4, <1>b
  <2>4. QED
    BY Zenon, <1>4, <2>1, <2>2, <2>3 DEF SessionInv
<1>10. CloneInv'
  <2>1. \A u \in Threads : pc'[u] = "clone" => u # t /\ pc[u] = "clone" /\ child'[u] = child[u]
    BY <1>2, <1>3, <1>4
  <2>2. \A u \in Threads : pc'[u] = "clone" => child[u] # c /\ pc[child[u]] = "built"
    BY <1>1, <1>2, <2>1 DEF CloneInv
  <2>3. \A u \in Threads : pc[u] = "built" /\ u # c => pc'[u] = "built"
    BY <1>2, <1>3
  <2>4. \A u \in Threads : pc'[u] = "clone" => pc'[child'[u]] = "built"
    BY <2>1, <2>2, <2>3
  <2>5. \A u, v \in Threads :
          pc'[u] = "clone" /\ pc'[v] = "clone" /\ child'[u] = child'[v] => u = v
    <3>1. \A u, v \in Threads : pc[u] = "clone" /\ pc[v] = "clone" /\ child[u] = child[v] => u = v
      BY DEF CloneInv
    <3>2. QED
      BY <2>1, <3>1
  <2>6. QED
    BY <2>4, <2>5 DEF CloneInv
<1>11. EndInv' /\ ExitIsFinal'
  <2>1. ~zombie' /\ \A u \in Threads : pc[u] # "last"
    BY <1>4, <1>6, HolderFacts
  <2>2. \A u \in Threads : pc'[u] # "last"
    BY <1>3, <2>1
  <2>3. QED
    BY <2>1, <2>2 DEF EndInv, ExitIsFinal
<1>12. ExecAlone'
  <2>1. \A u \in Threads : pc[u] \notin Alone
    BY <1>2, <1>5, <1>6, HolderFacts, NobodyAlone
  <2>2. QED
    BY <1>3, <2>1 DEF ExecAlone, Alone
<1>13. QED
  BY <1>7, <1>8, <1>9, <1>10, <1>11, <1>12

=============================================================================
