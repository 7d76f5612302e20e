----------------------------- MODULE GroupProof -----------------------------
(***************************************************************************)
(* The steps of the thread group that change tokens, sessions or clones    *)
(* keep the inductive invariant, and what follows from it.                 *)
(***************************************************************************)
EXTENDS GroupFacts

USE ThreadsFinite, LeaderIsThread, NoOwnerIsNone, CodesNat, MaxExecsNat

(* begin_group_exit, from a thread that is on its way to or from user mode: *)
(* the list keeps every thread with a token.                                *)
LEMMA GroupExitStep ==
  ASSUME IInv, TypeOK', NEW t \in Threads, NEW c \in Nat,
         pc[t] \in {"user", "signal"}, begin_group_exit(t, c),
         UNCHANGED <<tokenVars, tid, child, held, endVars>>
  PROVE  IInv'
<1> USE DEF IInv, tokenVars, endVars
<1> /\ pc \in [Threads -> PCs] /\ counted \in [Threads -> BOOLEAN]
    /\ tid \in [Threads -> Threads] /\ child \in [Threads -> Threads]
    /\ members \subseteq Threads
  BY DEF TypeOK
<1>1. /\ pc'[t] = "kill" /\ (\A u \in Threads : u # t => pc'[u] = pc[u])
      /\ gcode' \in Nat /\ gcode' # 0
      /\ members' = {u \in members : counted[u]}
      /\ UNCHANGED <<exec, pending, session, done>>
  <2>1. gcode \in Nat
    BY DEF TypeOK
  <2>2. QED
    BY <2>1 DEF begin_group_exit, Go
<1>2. /\ pc[t] \in Holding /\ "kill" \in Holding /\ "kill" \notin Owning
      /\ pc[t] \notin Owning /\ pc[t] \notin {"none", "built", "clone", "lead", "last", "complete", "gone"}
  BY DEF Holding, PCs, Unborn, Left, Tokenless, Owning
<1>3. {u \in Threads : pc'[u] \in Holding} = {u \in Threads : pc[u] \in Holding}
  <2>1. \A u \in Threads : pc'[u] \in Holding <=> pc[u] \in Holding
    BY <1>1, <1>2
  <2>2. QED
    BY <2>1
<1>4. Active' = Active
  BY <1>1, <1>2 DEF Active
<1>5. TokenInv'
  <2>1. \A u \in Threads : counted'[u] <=> pc'[u] \in Holding
    BY <1>1, <1>2 DEF TokenInv
  <2>2. \A u \in Threads : inactive'[u] <=> pc'[u] \in Left
    BY <1>1, <1>2 DEF TokenInv, Left
  <2>3. live' = Cardinality({u \in Threads : pc'[u] \in Holding})
    BY Zenon, <1>3 DEF TokenInv
  <2>4. \A u \in Threads : counted'[u] => u \in members'
    BY <1>1 DEF TokenInv
  <2>5. \A u \in members' : pc'[u] \notin Unborn
    BY <1>1 DEF TokenInv, Unborn
  <2>6. QED
    BY <1>1, <2>1, <2>2, <2>3, <2>4, <2>5 DEF TokenInv
<1>6. TidInv'
  BY DEF TidInv
<1>7. SessionInv'
  <2>1. {u \in Active' : tid'[u] # exec'} = {u \in Active : tid[u] # exec}
    BY <1>1, <1>4
  <2>2. \A u \in Threads : pc'[u] \in Owning <=> pc[u] \in Owning
    BY <1>1, <1>2
  <2>3. \A u \in Threads : pc'[u] = "complete" <=> pc[u] = "complete"
    BY <1>1, <1>2
  <2>4. QED
    BY Zenon, <1>1, <2>1, <2>2, <2>3 DEF SessionInv
<1>8. CloneInv'
  <2>1. \A u \in Threads : pc'[u] = "clone" <=> pc[u] = "clone"
    BY <1>1, <1>2
  <2>2. \A u \in Threads : pc[u] = "built" => pc'[u] = "built"
    BY <1>1, <1>2
  <2>3. QED
    BY <2>1, <2>2 DEF CloneInv
<1>9. EndInv' /\ ExitIsFinal'
  <2>1. pc[t] \in Holding /\ zombie' = zombie
    BY <1>1, <1>2
  <2>2. ~zombie' /\ \A u \in Threads : pc[u] # "last"
    BY <2>1, HolderFacts
  <2>3. \A u \in Threads : pc'[u] # "last"
    BY <1>1, <2>2
  <2>4. QED
    BY <2>2, <2>3 DEF EndInv, ExitIsFinal
<1>10. ExecAlone'
  <2>1. \A u \in Threads : pc[u] \notin Alone
    BY <1>2, HolderFacts, NobodyAlone DEF Alone
  <2>2. QED
    BY <1>1, <2>1 DEF ExecAlone, Alone
<1>11. QED
  BY <1>5, <1>6, <1>7, <1>8, <1>9, <1>10

(* begin_exec: everybody else on a CPU is a member that is not inactive, so *)
(* the count starts right.                                                  *)
LEMMA BeginExecStep ==
  ASSUME IInv, TypeOK', NEW t \in Threads, begin_exec(t)
  PROVE  IInv'
<1> USE DEF IInv, tokenVars, endVars
<1> /\ pc \in [Threads -> PCs] /\ counted \in [Threads -> BOOLEAN]
    /\ tid \in [Threads -> Threads] /\ child \in [Threads -> Threads]
    /\ members \subseteq Threads
  BY DEF TypeOK
<1> DEFINE waited == {u \in {v \in members : tid[v] # tid[t]} : WaitedFor(u)}
<1>1. /\ pc[t] = "user" /\ gcode = 0 /\ exec = NoOwner
      /\ pc'[t] = "execkill" /\ (\A u \in Threads : u # t => pc'[u] = pc[u])
      /\ members' = {u \in members : counted[u] \/ ~inactive[u]}
      /\ exec' = tid[t] /\ pending' = Cardinality(waited) /\ session' = session + 1
      /\ done' = IF waited = {} THEN done \cup {session'} ELSE done
      /\ UNCHANGED <<gcode, tokenVars, tid, child, held, endVars>>
  BY DEF begin_exec, Go, is_group_exiting
<1>2. /\ "user" \in Holding /\ "execkill" \in Holding /\ "execkill" \in Owning
      /\ "user" \notin Owning
  BY DEF Holding, PCs, Unborn, Left, Tokenless, Owning
<1>3. {u \in Threads : pc'[u] \in Holding} = {u \in Threads : pc[u] \in Holding}
  <2>1. \A u \in Threads : pc'[u] \in Holding <=> pc[u] \in Holding
    BY <1>1, <1>2
  <2>2. QED
    BY <2>1
<1>4. Active' = Active
  BY <1>1 DEF Active
<1>5. \A u \in Threads : u \in Active => u \in members /\ ~inactive[u]
  BY <1>1 DEF TokenInv, Active, Left
<1>6. \A u \in members : ~inactive[u] => u \in Active
  BY DEF TokenInv, Active, Left, Unborn
<1>7. TokenInv'
  <2>1. \A u \in Threads : counted'[u] <=> pc'[u] \in Holding
    BY <1>1, <1>2 DEF TokenInv
  <2>2. \A u \in Threads : inactive'[u] <=> pc'[u] \in Left
    BY <1>1 DEF TokenInv, Left
  <2>3. live' = Cardinality({u \in Threads : pc'[u] \in Holding})
    BY Zenon, <1>1, <1>3 DEF TokenInv
  <2>4. \A u \in Threads : counted'[u] => u \in members'
    BY <1>1 DEF TokenInv
  <2>5. \A u \in Active' : u \in members'
    BY <1>1, <1>4, <1>5 DEF Active
  <2>6. \A u \in members' : pc'[u] \notin Unborn
    BY <1>1 DEF TokenInv, Unborn
  <2>7. QED
    BY <2>1, <2>2, <2>3, <2>4, <2>5, <2>6 DEF TokenInv
<1>8. TidInv'
  BY <1>1 DEF TidInv
<1>9. SessionInv'
  <2>1. waited = {u \in Active' : tid'[u] # exec'}
    BY <1>1, <1>4, <1>5, <1>6 DEF WaitedFor, Active
  <2>2. \A u \in Threads : pc'[u] \in Owning <=> u = t
    BY <1>1, <1>2 DEF SessionInv
  <2>b. /\ session \in Nat /\ held \in [Threads -> Nat]
        /\ (\A u \in Threads : held[u] <= session) /\ (\A d \in done : d \in Nat /\ d <= session)
    BY SessionBounds
  <2>c. session' = session + 1 /\ held' = held /\ done' \subseteq done \cup {session'}
    BY <1>1
  <2>3. session' \in done' => waited = {}
    <3>1. session' \notin done
      BY <2>b, <2>c
    <3>2. QED
      BY <1>1, <3>1
  <2>4. \A u \in Threads : held'[u] < session'
    BY <2>b, <2>c
  <2>5. waited = {} => pending' = 0
    BY <1>1, FS_EmptySet
  <2>6. \A d \in done' : d <= session'
    BY <2>b, <2>c
  <2>a. \A u \in Threads : held'[u] <= session' /\ held'[u] # session'
    <3>1. session' \in Nat /\ \A u \in Threads : held'[u] \in Nat
      BY <2>b, <2>c
    <3>2. QED
      BY <2>4, <3>1
  <2> HIDE DEF waited
  <2>7. exec' # NoOwner /\ exec' = tid'[t] /\ pending' = Cardinality(waited)
    BY <1>1
  <2>8. QED
    BY Zenon, <2>1, <2>2, <2>3, <2>5, <2>6, <2>7, <2>a DEF SessionInv
<1>10. CloneInv'
  <2>1. \A u \in Threads : pc'[u] = "clone" <=> pc[u] = "clone"
    BY <1>1
  <2>2. \A u \in Threads : pc[u] = "built" => pc'[u] = "built"
    BY <1>1
  <2>3. QED
    BY <1>1, <2>1, <2>2 DEF CloneInv
<1>11. EndInv' /\ ExitIsFinal'
  <2>1. pc[t] \in Holding /\ zombie' = zombie
    BY <1>1, <1>2
  <2>2. ~zombie' /\ \A u \in Threads : pc[u] # "last"
    BY <2>1, HolderFacts
  <2>3. \A u \in Threads : pc'[u] # "last"
    BY <1>1, <2>2
  <2>4. QED
    BY <2>2, <2>3 DEF EndInv, ExitIsFinal
<1>12. ExecAlone'
  <2>1. \A u \in Threads : pc[u] \notin Alone
    BY <1>1, <1>2, HolderFacts, NobodyAlone DEF Alone
  <2>2. QED
    BY <1>1, <2>1 DEF ExecAlone, Alone
<1>13. QED
  BY <1>7, <1>8, <1>9, <1>10, <1>11, <1>12

(* The completion of a session means that nobody but its owner is on a CPU. *)
LEMMA WaitAlone ==
  ASSUME IInv, NEW t \in Threads, pc[t] = "execwait", WaitOver(t), gcode = 0
  PROVE  Active = {t}
<1>1. exec = tid[t] /\ exec # NoOwner
  <2>1. exec = tid[t]
    BY DEF IInv, SessionInv, Owning
  <2>2. tid[t] \in Threads
    BY DEF IInv, TypeOK
  <2>3. QED
    BY <2>1, <2>2
<1>2. session \in done
  BY <1>1 DEF WaitOver, thread_must_exit, is_group_exiting, exec_stops_thread
<1>3. Cardinality({u \in Active : tid[u] # exec}) = 0
  BY <1>1, <1>2 DEF IInv, SessionInv
<1>4. IsFiniteSet({u \in Active : tid[u] # exec})
  BY FS_Subset DEF Active
<1>5. {u \in Active : tid[u] # exec} = {}
  BY <1>3, <1>4, FS_EmptySet
<1>6. \A u \in Active : u = t
  BY <1>1, <1>5 DEF IInv, TidInv, Active
<1>7. t \in Active
  BY DEF Active
<1>8. QED
  BY <1>6, <1>7

(* become_group_leader: TIDs are exchanged, so they stay distinct, and no   *)
(* session refers to one.                                                   *)
LEMMA LeaderStep ==
  ASSUME IInv, TypeOK', NEW t \in Threads, become_group_leader(t)
  PROVE  IInv'
<1> USE DEF IInv, groupVars, tokenVars, ownVars, endVars
<1> /\ pc \in [Threads -> PCs] /\ counted \in [Threads -> BOOLEAN]
    /\ tid \in [Threads -> Threads] /\ child \in [Threads -> Threads]
    /\ members \subseteq Threads
  BY DEF TypeOK
<1>1. /\ pc[t] = "lead" /\ pc'[t] = "trap" /\ (\A u \in Threads : u # t => pc'[u] = pc[u])
      /\ UNCHANGED <<groupVars, gcode, tokenVars, child, held, endVars>>
  BY DEF become_group_leader, Go
<1>2. "lead" \in Holding /\ "trap" \in Holding /\ "lead" \notin Owning /\ "trap" \notin Owning
  BY DEF Holding, PCs, Unborn, Left, Tokenless, Owning
<1>3. Active = {t} /\ Active' = Active
  BY <1>1 DEF ExecAlone, Active
<1>4. \A u \in Threads : pc[u] \notin Owning
  BY <1>1, <1>2, <1>3 DEF Owning, Active
<1>5. exec = NoOwner
  BY <1>4 DEF SessionInv
<1>6. TokenInv'
  <2>1. \A u \in Threads : pc'[u] \in Holding <=> pc[u] \in Holding
    BY <1>1, <1>2
  <2>2. {u \in Threads : pc'[u] \in Holding} = {u \in Threads : pc[u] \in Holding}
    BY <2>1
  <2>3. \A u \in Threads : /\ pc'[u] \in Left <=> pc[u] \in Left
                           /\ pc'[u] \in Unborn <=> pc[u] \in Unborn
    BY <1>1 DEF Left, Unborn
  <2>4. QED
    BY Zenon, <1>1, <1>3, <2>1, <2>2, <2>3 DEF TokenInv
<1>7. TidInv'
  <2>1. \A u \in Threads : tid'[u] = IF u = t THEN Leader
                                     ELSE IF tid[u] = Leader THEN tid[t] ELSE tid[u]
    BY DEF become_group_leader
  <2>2. QED
    BY <2>1 DEF TidInv
<1>8. SessionInv'
  BY <1>1, <1>2, <1>4, <1>5 DEF SessionInv
<1>9. CloneInv'
  <2>1. \A u \in Threads : pc'[u] = "clone" <=> pc[u] = "clone"
    BY <1>1
  <2>2. \A u \in Threads : pc[u] = "built" => pc'[u] = "built"
    BY <1>1
  <2>3. QED
    BY <1>1, <2>1, <2>2 DEF CloneInv
<1>10. EndInv' /\ ExitIsFinal'
  <2>1. pc[t] \in Holding /\ zombie' = zombie
    BY <1>1, <1>2
  <2>2. ~zombie' /\ \A u \in Threads : pc[u] # "last"
    BY <2>1, HolderFacts
  <2>3. \A u \in Threads : pc'[u] # "last"
    BY <1>1, <2>2
  <2>4. QED
    BY <2>2, <2>3 DEF EndInv, ExitIsFinal
<1>11. ExecAlone'
  BY <1>1, <1>3 DEF ExecAlone, Active
<1>12. QED
  BY <1>6, <1>7, <1>8, <1>9, <1>10, <1>11

(* remove_thread: the token is given back; who takes the count to zero is   *)
(* the only one, and the last, to see that.                                 *)
LEMMA RemoveStep ==
  ASSUME IInv, TypeOK', NEW t \in Threads, remove_thread(t)
  PROVE  IInv'
<1> USE DEF IInv, groupVars, tokenVars, ownVars, endVars
<1> /\ pc \in [Threads -> PCs] /\ counted \in [Threads -> BOOLEAN]
    /\ tid \in [Threads -> Threads] /\ child \in [Threads -> Threads]
    /\ members \subseteq Threads
  BY DEF TypeOK
<1>1. PICK w \in {"last", "switch"} :
        /\ pc[t] = "release" /\ pc'[t] = w /\ (\A u \in Threads : u # t => pc'[u] = pc[u])
        /\ w = "last" => live' = 0
        /\ live' = live - 1
  BY DEF remove_thread, Go
<1>2. /\ counted' = [counted EXCEPT ![t] = FALSE]
      /\ members' \in {members, {u \in members : counted'[u] \/ ~inactive[u]}}
      /\ UNCHANGED <<exec, pending, session, done, gcode, inactive, tid, child, held, endVars>>
  BY DEF remove_thread
<1>3. /\ "release" \in Holding /\ "last" \notin Holding /\ "switch" \notin Holding
      /\ {"release", "last", "switch"} \cap (Owning \cup Left \cup Unborn \cup Alone) = {}
  BY DEF Holding, PCs, Unborn, Left, Tokenless, Owning, Alone
<1>4. {u \in Threads : pc'[u] \in Holding} = {u \in Threads : pc[u] \in Holding} \ {t}
  <2>1. \A u \in Threads : pc'[u] \in Holding <=> (pc[u] \in Holding /\ u # t)
    BY <1>1, <1>3
  <2>2. QED
    BY <2>1
<1>5. IsFiniteSet({u \in Threads : pc[u] \in Holding})
  BY FS_Subset
<1>6. live' = Cardinality({u \in Threads : pc'[u] \in Holding})
  <2>1. t \in {u \in Threads : pc[u] \in Holding}
    BY <1>1, <1>3
  <2>2. Cardinality({u \in Threads : pc[u] \in Holding} \ {t})
          = Cardinality({u \in Threads : pc[u] \in Holding}) - 1
    <3> DEFINE S == {u \in Threads : pc[u] \in Holding}
    <3>1. IsFiniteSet(S) /\ t \in S
      BY <1>5, <2>1
    <3> HIDE DEF S
    <3>2. Cardinality(S \ {t}) = Cardinality(S) - 1
      BY Zenon, <3>1, FS_RemoveElement
    <3>3. QED
      BY <3>2 DEF S
  <2>3. QED
    BY <1>1, <1>4, <2>2 DEF TokenInv
<1>7. Active' = Active
  BY <1>1 DEF Active
<1>8. TokenInv'
  <2>1. \A u \in Threads : counted'[u] <=> pc'[u] \in Holding
    <3>1. \A u \in Threads : pc'[u] \in Holding <=> (pc[u] \in Holding /\ u # t)
      BY <1>1, <1>3
    <3>2. \A u \in Threads : counted'[u] <=> (counted[u] /\ u # t)
      BY <1>2
    <3>3. \A u \in Threads : counted[u] <=> pc[u] \in Holding
      BY DEF TokenInv
    <3>4. QED
      BY <3>1, <3>2, <3>3, Zenon
  <2>2. \A u \in Threads : /\ pc'[u] \in Left <=> pc[u] \in Left
                           /\ pc'[u] \in Unborn <=> pc[u] \in Unborn
    BY <1>1, <1>3
  <2>3. \A u \in Threads : inactive'[u] <=> pc'[u] \in Left
    BY <1>2, <2>2 DEF TokenInv
  <2>4. \A u \in Threads : counted'[u] => counted[u]
    BY <1>2
  <2>5. \A u \in Threads : counted'[u] => u \in members'
    BY <1>2, <2>4 DEF TokenInv
  <2>6. \A u \in Active : ~inactive[u]
    BY DEF TokenInv, Active, Left
  <2>7. gcode' = 0 => \A u \in Active' : u \in members'
    BY <1>2, <1>7, <2>6 DEF TokenInv
  <2>8. \A u \in members' : pc'[u] \notin Unborn
    BY <1>2, <2>2 DEF TokenInv
  <2>9. QED
    BY <1>6, <2>1, <2>3, <2>5, <2>7, <2>8 DEF TokenInv
<1>9. TidInv'
  BY <1>2 DEF TidInv
<1>10. SessionInv'
  <2>1. {u \in Active' : tid'[u] # exec'} = {u \in Active : tid[u] # exec}
    BY <1>2, <1>7
  <2>2. \A u \in Threads : pc'[u] \in Owning <=> pc[u] \in Owning
    BY <1>1, <1>3
  <2>3. \A u \in Threads : pc'[u] = "complete" <=> pc[u] = "complete"
    BY <1>1
  <2>4. QED
    BY Zenon, <1>2, <2>1, <2>2, <2>3 DEF SessionInv
<1>11. CloneInv'
  <2>1. \A u \in Threads : pc'[u] = "clone" <=> pc[u] = "clone"
    BY <1>1
  <2>2. \A u \in Threads : pc[u] = "built" => pc'[u] = "built"
    BY <1>1
  <2>3. QED
    BY <1>2, <2>1, <2>2 DEF CloneInv
<1>12. EndInv' /\ ExitIsFinal'
  <2>1. ~zombie' /\ \A u \in Threads : pc[u] # "last"
    <3>1. pc[t] \in Holding
      BY <1>1, <1>3
    <3>2. QED
      BY <1>2, <3>1, HolderFacts
  <2>2. w = "last" => \A u \in Threads : pc'[u] \notin Holding
    <3>1. IsFiniteSet({u \in Threads : pc'[u] \in Holding})
      BY FS_Subset
    <3>2. w = "last" => {u \in Threads : pc'[u] \in Holding} = {}
      BY <1>1, <1>6, <3>1, FS_EmptySet
    <3>3. QED
      BY <3>2
  <2>3. QED
    BY <1>1, <2>1, <2>2 DEF EndInv, ExitIsFinal
<1>13. ExecAlone'
  <2>1. \A u \in Threads : pc[u] \notin Alone
    <3>1. t \in Active /\ pc[t] \notin Alone
      BY <1>1 DEF Active, Alone
    <3>2. QED
      BY <3>1, NobodyAlone
  <2>2. QED
    BY <1>1, <2>1 DEF ExecAlone, Alone
<1>14. QED
  BY <1>8, <1>9, <1>10, <1>11, <1>12, <1>13

(* finish_exit: by the last thread, once; everybody else has left or is     *)
(* about to.                                                                *)
LEMMA FinishExitStep ==
  ASSUME IInv, TypeOK', NEW t \in Threads, finish_exit(t)
  PROVE  IInv'
<1> USE DEF IInv, groupVars, tokenVars, ownVars, endVars
<1> /\ pc \in [Threads -> PCs] /\ counted \in [Threads -> BOOLEAN]
    /\ tid \in [Threads -> Threads] /\ child \in [Threads -> Threads]
    /\ members \subseteq Threads
  BY DEF TypeOK
<1>1. /\ pc[t] = "last" /\ pc'[t] = "switch" /\ (\A u \in Threads : u # t => pc'[u] = pc[u])
      /\ UNCHANGED <<groupVars, gcode, tokenVars, tid, child, held>>
  BY DEF finish_exit, Go
<1>2. ~zombie /\ zombie' /\ status' = ProcessCode(t)
  BY <1>1 DEF finish_exit, EndInv
<1>3. "last" \notin Holding /\ "switch" \notin Holding
  BY DEF Holding, Tokenless
<1>4. \A u \in Threads : pc'[u] \in Holding <=> pc[u] \in Holding
  <2>1. pc[t] \notin Holding /\ pc'[t] \notin Holding
    BY <1>1, <1>3
  <2>2. QED
    BY <1>1, <2>1, Zenon
<1>5. \A u \in Threads : /\ pc'[u] \in Left <=> pc[u] \in Left
                         /\ pc'[u] \in Unborn <=> pc[u] \in Unborn
                         /\ pc'[u] \in Owning <=> pc[u] \in Owning
                         /\ pc'[u] = "complete" <=> pc[u] = "complete"
                         /\ pc'[u] = "clone" <=> pc[u] = "clone"
                         /\ pc'[u] = "built" <=> pc[u] = "built"
  BY <1>1 DEF Left, Unborn, Owning
<1>6. Active' = Active
  BY <1>1 DEF Active
<1>7. TokenInv'
  <2>1. {u \in Threads : pc'[u] \in Holding} = {u \in Threads : pc[u] \in Holding}
    BY <1>4
  <2>2. QED
    BY Zenon, <1>1, <1>4, <1>5, <1>6, <2>1 DEF TokenInv
<1>8. TidInv' /\ CloneInv'
  BY <1>1, <1>5 DEF TidInv, CloneInv
<1>9. SessionInv'
  <2>1. {u \in Active' : tid'[u] # exec'} = {u \in Active : tid[u] # exec}
    BY <1>1, <1>6
  <2>2. QED
    BY Zenon, <1>1, <1>5, <2>1 DEF SessionInv
<1>10. \A u \in Threads : pc[u] = "last" => u = t
  BY <1>1 DEF EndInv
<1>11. EndInv'
  BY <1>1, <1>10 DEF EndInv
<1>12. ExecAlone'
  <2>1. t \in Active /\ pc[t] \notin Alone
    BY <1>1 DEF Active, Alone
  <2>2. \A u \in Threads : pc[u] \notin Alone
    BY <2>1, NobodyAlone
  <2>3. QED
    BY <1>1, <2>2 DEF ExecAlone, Alone
<1>13. ExitIsFinal'
  <2>1. \A u \in Active : pc[u] \in {"last", "switch"}
    BY <1>1 DEF Active, EndInv, Holding, Unborn, Left, Tokenless
  <2>2. \A u \in Active : pc'[u] = "switch"
    BY <1>1, <1>10, <2>1 DEF Active
  <2>3. gcode' # 0 => status' = gcode' - 1
    BY <1>1, <1>2 DEF ProcessCode, is_group_exiting
  <2>4. QED
    BY <1>6, <2>2, <2>3 DEF ExitIsFinal
<1>14. QED
  BY <1>7, <1>8, <1>9, <1>11, <1>12, <1>13

(* publish_exit_inactive: a thread leaves its CPU; if a session waits for   *)
(* it the count goes down with it, and whoever takes it to zero carries the *)
(* completion of this session.                                              *)
LEMMA InactiveStep ==
  ASSUME IInv, TypeOK', NEW t \in Threads, publish_exit_inactive(t)
  PROVE  IInv'
<1> USE DEF IInv, tokenVars, endVars
<1> /\ pc \in [Threads -> PCs] /\ counted \in [Threads -> BOOLEAN]
    /\ tid \in [Threads -> Threads] /\ child \in [Threads -> Threads]
    /\ members \subseteq Threads
  BY DEF TypeOK
<1>1. PICK w \in Left :
        /\ pc[t] = "switch" /\ pc'[t] = w /\ (\A u \in Threads : u # t => pc'[u] = pc[u])
        /\ NoAckNeeded(t) => w = "gone" /\ UNCHANGED <<pending, held>>
        /\ ~NoAckNeeded(t) =>
             /\ pending' = pending - 1
             /\ held' = [held EXCEPT ![t] = IF pending' = 0 THEN session ELSE 0]
  <2>1. \E w \in Left : pc'[t] = w
    BY DEF publish_exit_inactive, Go, Left
  <2>2. QED
    BY <2>1 DEF publish_exit_inactive, Go
<1>2. /\ inactive' = [inactive EXCEPT ![t] = TRUE]
      /\ UNCHANGED <<members, exec, session, done, gcode, live, counted, tid, child, endVars>>
  BY DEF publish_exit_inactive
<1>3. /\ "switch" \notin Holding \cup Left \cup Unborn \cup Owning \cup Alone
      /\ w \notin Holding \cup Unborn \cup Owning \cup Alone /\ w \in {"complete", "gone"}
  BY DEF Holding, Unborn, Left, Tokenless, Owning, Alone
<1>c. /\ pc[t] \notin Holding /\ pc'[t] \notin Holding
      /\ pc[t] \notin Owning /\ pc'[t] \notin Owning
  BY <1>1, <1>3
<1>4. Active' = Active \ {t} /\ t \in Active
  BY <1>1, <1>3 DEF Active
<1>5. TokenInv'
  <2>1. \A u \in Threads : pc'[u] \in Holding <=> pc[u] \in Holding
    BY <1>1, <1>c, Zenon
  <2>2. {u \in Threads : pc'[u] \in Holding} = {u \in Threads : pc[u] \in Holding}
    BY <2>1
  <2>3. \A u \in Threads : inactive'[u] <=> pc'[u] \in Left
    <3>1. \A u \in Threads : inactive'[u] <=> (inactive[u] \/ u = t)
      BY <1>2 DEF TypeOK
    <3>2. \A u \in Threads : pc'[u] \in Left <=> (pc[u] \in Left \/ u = t)
      BY <1>1
    <3>3. \A u \in Threads : inactive[u] <=> pc[u] \in Left
      BY DEF TokenInv
    <3>4. QED
      BY <3>1, <3>2, <3>3, Zenon
  <2>4. \A u \in members' : pc'[u] \notin Unborn
    BY <1>1, <1>2, <1>3 DEF TokenInv
  <2>5. gcode' = 0 => \A u \in Active' : u \in members'
    BY <1>2, <1>4 DEF TokenInv
  <2>6. QED
    BY Zenon, <1>2, <2>1, <2>2, <2>3, <2>4, <2>5 DEF TokenInv
<1>6. TidInv'
  BY <1>2 DEF TidInv
<1>7. SessionInv'
  <2>1. \A u \in Threads : pc'[u] \in Owning <=> pc[u] \in Owning
    BY <1>1, <1>c, Zenon
  <2>2. exec # tid[t]
    <3>1. tid[t] # NoOwner /\ pc[t] \notin Owning
      BY <1>c
    <3>2. exec # NoOwner => \E u \in Threads : pc[u] \in Owning /\ exec = tid[u]
      BY DEF SessionInv
    <3>3. QED
      BY <3>1, <3>2 DEF TidInv
  <2>3. CASE exec = NoOwner
    BY <1>1, <1>2, <2>1, <2>3 DEF SessionInv, NoAckNeeded
  <2>4. CASE exec # NoOwner
    <3>1. /\ pending' = pending - 1
          /\ held' = [held EXCEPT ![t] = IF pending' = 0 THEN session ELSE 0]
      BY <1>1, <2>2, <2>4 DEF NoAckNeeded
    <3>2. pending > 0
      BY <1>1, <2>2, <2>4, CountsPositive
    <3>3. session \notin done
      <4>1. pending # 0
        BY <3>2
      <4>2. QED
        BY <2>4, <4>1, Zenon DEF SessionInv
    <3> DEFINE S == {u \in Active : tid[u] # exec}
    <3>4. IsFiniteSet(S) /\ t \in S
      BY <1>4, <2>2, FS_Subset DEF Active
    <3>5. {u \in Active' : tid'[u] # exec'} = S \ {t}
      BY <1>2, <1>4
    <3>6. pending = Cardinality(S)
      BY <2>4 DEF SessionInv
    <3> HIDE DEF S
    <3>7. pending' = Cardinality({u \in Active' : tid'[u] # exec'})
      <4>1. Cardinality(S \ {t}) = Cardinality(S) - 1
        BY Zenon, <3>4, FS_RemoveElement
      <4>2. QED
        BY Zenon, <3>1, <3>5, <3>6, <4>1
    <3>8. \A u \in Threads : pc'[u] = "complete" /\ held'[u] = session' => pending' = 0
      <4>1. \A u \in Threads : pc[u] = "complete" => held[u] # session
        <5>1. pending # 0
          BY <3>2
        <5>2. QED
          BY <2>4, <5>1, Zenon DEF SessionInv
      <4>2. w = "complete" => pending' = 0
        BY <1>1, <2>2, <2>4 DEF publish_exit_inactive, NoAckNeeded, Go
      <4>3. \A u \in Threads : u # t => held'[u] = held[u]
        BY <3>1
      <4>4. QED
        BY <1>1, <1>2, <4>1, <4>2, <4>3
    <3>9. \A u \in Threads : held'[u] <= session'
      <4>1. /\ session \in Nat /\ held \in [Threads -> Nat]
            /\ (\A u \in Threads : held[u] <= session) /\ (\A d \in done : d \in Nat /\ d <= session)
        BY SessionBounds
      <4>2. session' = session
        BY <1>2
      <4>3. QED
        BY <3>1, <4>1, <4>2
    <3>10. QED
      BY <1>2, <2>1, <3>3, <3>7, <3>8, <3>9 DEF SessionInv
  <2>5. QED
    BY <2>3, <2>4
<1>8. CloneInv'
  <2>1. \A u \in Threads : pc'[u] = "clone" <=> pc[u] = "clone"
    BY <1>1, <1>3
  <2>2. \A u \in Threads : pc[u] = "built" => pc'[u] = "built"
    BY <1>1, <1>3
  <2>3. QED
    BY <1>2, <2>1, <2>2 DEF CloneInv
<1>9. EndInv'
  <2>1. \A u \in Threads : /\ pc'[u] \in Holding <=> pc[u] \in Holding
                           /\ pc'[u] = "last" <=> pc[u] = "last"
    BY <1>1, <1>3
  <2>2. QED
    BY <1>2, <2>1 DEF EndInv
<1>10. ExecAlone'
  <2>1. \A u \in Threads : pc[u] \notin Alone
    BY <1>1, <1>3, <1>4, NobodyAlone
  <2>2. \A u \in Threads : pc'[u] \notin Alone
    BY <1>1, <1>3, <2>1
  <2>3. QED
    BY <2>2 DEF ExecAlone, Alone
<1>11. ExitIsFinal'
  BY <1>1, <1>2, <1>4 DEF ExitIsFinal, Active
<1>12. QED
  BY <1>5, <1>6, <1>7, <1>8, <1>9, <1>10, <1>11

(* The completion is triggered after the unlock: it is the one of a session *)
(* that is over, or of the present one, which nobody holds up any more.     *)
LEMMA CompleteStep ==
  ASSUME IInv, TypeOK', NEW t \in Threads, complete(t)
  PROVE  IInv'
<1> USE DEF IInv, tokenVars, endVars
<1> /\ pc \in [Threads -> PCs] /\ counted \in [Threads -> BOOLEAN]
    /\ tid \in [Threads -> Threads] /\ child \in [Threads -> Threads]
    /\ members \subseteq Threads
  BY DEF TypeOK
<1>1. /\ pc[t] = "complete" /\ pc'[t] = "gone" /\ (\A u \in Threads : u # t => pc'[u] = pc[u])
      /\ done' = done \cup {held[t]} /\ held' = [held EXCEPT ![t] = 0]
      /\ UNCHANGED <<members, exec, pending, session, gcode, tokenVars, tid, child, endVars>>
  BY DEF complete, Go
<1>2. /\ pc[t] \notin Holding \cup Unborn \cup Owning \cup Alone
      /\ pc'[t] \notin Holding \cup Unborn \cup Owning \cup Alone
      /\ pc[t] \in Left /\ pc'[t] \in Left
  BY <1>1 DEF Holding, Unborn, Left, Owning, Alone
<1>3. \A u \in Threads : /\ pc'[u] \in Holding <=> pc[u] \in Holding
                         /\ pc'[u] \in Left <=> pc[u] \in Left
                         /\ pc'[u] \in Unborn <=> pc[u] \in Unborn
                         /\ pc'[u] \in Owning <=> pc[u] \in Owning
  BY <1>1, <1>2, Zenon
<1>4. \A u \in Threads : /\ pc'[u] = "clone" <=> pc[u] = "clone"
                         /\ pc'[u] = "built" <=> pc[u] = "built"
                         /\ pc'[u] = "last" <=> pc[u] = "last"
  BY <1>1
<1>5. Active' = Active
  BY <1>1 DEF Active
<1>6. TokenInv'
  <2>1. {u \in Threads : pc'[u] \in Holding} = {u \in Threads : pc[u] \in Holding}
    BY <1>3
  <2>2. QED
    BY Zenon, <1>1, <1>3, <1>5, <2>1 DEF TokenInv
<1>7. TidInv' /\ CloneInv' /\ EndInv'
  <2>1. TidInv'
    BY <1>1 DEF TidInv
  <2>2. CloneInv'
    BY <1>1, <1>4 DEF CloneInv
  <2>3. EndInv'
    BY <1>1, <1>3, <1>4 DEF EndInv
  <2>4. QED
    BY <2>1, <2>2, <2>3
<1>8. SessionInv'
  <2>1. {u \in Active' : tid'[u] # exec'} = {u \in Active : tid[u] # exec}
    BY <1>1, <1>5
  <2>2. exec # NoOwner /\ session \in done' => pending = 0
    BY <1>1 DEF SessionInv
  <2>3. \A u \in Threads : exec # NoOwner /\ pc'[u] = "complete" /\ held'[u] = session => pending = 0
    <3>1. \A u \in Threads : pc'[u] = "complete" => u # t /\ pc[u] = "complete" /\ held'[u] = held[u]
      BY <1>1, SessionBounds
    <3>2. QED
      BY Zenon, <3>1 DEF SessionInv
  <2>a. /\ session \in Nat /\ held \in [Threads -> Nat]
        /\ (\A u \in Threads : held[u] <= session) /\ (\A d \in done : d \in Nat /\ d <= session)
    BY SessionBounds
  <2>b. done' = done \cup {held[t]} /\ held' = [held EXCEPT ![t] = 0]
    BY <1>1
  <2>4. \A u \in Threads : held'[u] <= session
    BY <2>a, <2>b
  <2>5. \A d \in done' : d <= session
    BY <2>a, <2>b
  <2>6. UNCHANGED <<exec, pending, session, tid>>
    BY <1>1
  <2>7. \A u \in Threads : pc'[u] \in Owning <=> pc[u] \in Owning
    BY <1>3
  <2>8. QED
    BY Zenon, <2>1, <2>2, <2>3, <2>4, <2>5, <2>6, <2>7 DEF SessionInv
<1>9. ExecAlone' /\ ExitIsFinal'
  BY <1>1, <1>5 DEF ExecAlone, ExitIsFinal, Active
<1>10. QED
  BY <1>6, <1>7, <1>8, <1>9

-----------------------------------------------------------------------------
(* Every step of every thread keeps the invariant. *)
LEMMA ThreadStep ==
  ASSUME IInv, NEW t \in Threads, Choice(t) \/ Kernel(t)
  PROVE  IInv'
<1>0. TypeOK'
  BY TypeStep
<1>1. {"user", "wait", "doze", "sleep", "trap", "signal", "kill", "exit", "release"}
        \subseteq Holding \ (Owning \cup {"clone", "lead"})
  BY DEF Holding, PCs, Unborn, Left, Tokenless, Owning
<1>2. CASE WaitCheck(t) \/ begin_interruptible_sleep(t) \/ sleep_recheck(t) \/ Resume(t)
            \/ Interrupt(t) \/ run_task_safe_point(t) \/ do_signal(t) \/ ExecFails(t)
            \/ exit_current(t) \/ exit_thread_resources(t) \/ (AllAsked(t) /\ pc[t] = "kill")
  <2>1. UNCHANGED coreVars
    BY <1>2 DEF WaitCheck, begin_interruptible_sleep, sleep_recheck, Resume, Interrupt,
       run_task_safe_point, do_signal, ExecFails, exit_current, exit_thread_resources, AllAsked,
       coreVars, ownVars
  <2>2. /\ pc[t] \in {"user", "wait", "doze", "sleep", "trap", "signal", "kill", "exit"}
        /\ \/ Go(t, "wait") \/ Go(t, "doze") \/ Go(t, "sleep") \/ Go(t, "trap")
           \/ Go(t, "signal") \/ Go(t, "user") \/ Go(t, "exit") \/ Go(t, "release")
    <3>1. CASE WaitCheck(t) \/ begin_interruptible_sleep(t) \/ sleep_recheck(t)
      BY <3>1 DEF WaitCheck, begin_interruptible_sleep, sleep_recheck
    <3>2. CASE Resume(t) \/ Interrupt(t) \/ do_signal(t)
      BY <3>2 DEF Resume, Interrupt, do_signal
    <3>3. CASE run_task_safe_point(t) \/ exit_thread_resources(t)
      BY <3>3 DEF run_task_safe_point, exit_thread_resources
    <3>4. CASE ExecFails(t) \/ exit_current(t) \/ (AllAsked(t) /\ pc[t] = "kill")
      BY <3>4 DEF ExecFails, exit_current, AllAsked
    <3>5. QED
      BY <1>2, <3>1, <3>2, <3>3, <3>4
  <2>3. pc[t] \in Holding \ (Owning \cup {"clone", "lead"})
    BY <1>1, <2>2
  <2>4. ASSUME NEW w \in Holding \ (Owning \cup {"clone", "lead"}), Go(t, w)
        PROVE  IInv'
    BY <1>0, <2>1, <2>3, <2>4, QuietStep
  <2>5. QED
    BY <1>1, <2>2, <2>4
<1>3. CASE WakeUp(t) \/ request_sibling_exit(t)
  <2>1. UNCHANGED <<coreVars, pc>>
    BY <1>3 DEF WakeUp, request_sibling_exit, coreVars, ownVars
  <2>2. QED
    BY <1>0, <2>1, SameCore
<1>4. CASE exit_group(t) \/ TakeKill(t) \/ TakeFatal(t)
  <2>1. \E c \in Nat : begin_group_exit(t, c)
    BY <1>4 DEF exit_group, TakeKill, TakeFatal, SIGKILL
  <2>2. pc[t] \in {"user", "signal"} /\ UNCHANGED <<tokenVars, tid, child, held, endVars>>
    BY <1>4 DEF exit_group, TakeKill, TakeFatal
  <2>3. QED
    BY <1>0, <2>1, <2>2, GroupExitStep
<1>5. CASE (AllAsked(t) /\ pc[t] # "kill") \/ install_exec_image(t)
            \/ (exec_wait(t) /\ gcode = 0)
  <2>1. UNCHANGED coreVars
    BY <1>5 DEF AllAsked, install_exec_image, exec_wait, is_group_exiting, coreVars, ownVars
  <2>2. PICK w \in Owning : Go(t, w) /\ (w = "install" => exec_wait(t) /\ gcode = 0)
                                   /\ (w = "reopen" => install_exec_image(t))
    <3>1. CASE AllAsked(t) /\ pc[t] # "kill"
      <4>1. Go(t, "execwait")
        BY <3>1 DEF AllAsked
      <4>2. QED
        BY <4>1 DEF Owning
    <3>2. CASE install_exec_image(t)
      <4>1. Go(t, "reopen")
        BY <3>2 DEF install_exec_image
      <4>2. QED
        BY <3>2, <4>1 DEF Owning
    <3>3. CASE exec_wait(t) /\ gcode = 0
      <4>1. Go(t, "install")
        BY <3>3 DEF exec_wait, is_group_exiting
      <4>2. QED
        BY <3>3, <4>1 DEF Owning
    <3>4. QED
      BY <1>5, <3>1, <3>2, <3>3
  <2>3. pc[t] \in Owning
    BY <1>5 DEF AllAsked, install_exec_image, exec_wait, Owning
  <2>4. w = "install" => gcode = 0 /\ Active = {t}
    BY <2>2, WaitAlone DEF exec_wait
  <2>5. w = "reopen" => gcode = 0 /\ Active = {t}
    BY <2>2 DEF install_exec_image, IInv, ExecAlone
  <2>6. w \in Alone => gcode = 0 /\ Active = {t}
    BY <2>4, <2>5 DEF Alone, Owning
  <2>7. QED
    BY <1>0, <2>1, <2>2, <2>3, <2>6, OwnerStep
<1>6. CASE (exec_wait(t) /\ gcode # 0) \/ InstallFails(t) \/ ExecFinish(t)
  <2>1. /\ finish(t) /\ UNCHANGED <<gcode, tokenVars, tid, child, held, endVars>>
        /\ pc[t] \in Owning
    BY <1>6 DEF exec_wait, is_group_exiting, InstallFails, ExecFinish, ownVars, Owning
  <2>2. PICK w \in {"exit", "lead"} : Go(t, w) /\ (w = "lead" => ExecFinish(t))
    BY <1>6 DEF exec_wait, is_group_exiting, InstallFails, ExecFinish
  <2>3. w = "lead" => gcode = 0 /\ Active = {t}
    BY <2>2 DEF ExecFinish, IInv, ExecAlone
  <2>4. QED
    BY <1>0, <2>1, <2>2, <2>3, CloseStep
<1>7. CASE CloneThread(t)
  BY <1>0, <1>7, CloneStep
<1>8. CASE publish_thread(t)
  BY <1>0, <1>8, PublishStep
<1>9. CASE begin_exec(t)
  BY <1>0, <1>9, BeginExecStep
<1>10. CASE become_group_leader(t)
  BY <1>0, <1>10, LeaderStep
<1>11. CASE remove_thread(t)
  BY <1>0, <1>11, RemoveStep
<1>12. CASE finish_exit(t)
  BY <1>0, <1>12, FinishExitStep
<1>13. CASE publish_exit_inactive(t)
  BY <1>0, <1>13, InactiveStep
<1>14. CASE complete(t)
  BY <1>0, <1>14, CompleteStep
<1>15. QED
  BY <1>2, <1>3, <1>4, <1>5, <1>6, <1>7, <1>8, <1>9, <1>10, <1>11, <1>12, <1>13, <1>14
     DEF Choice, Kernel

(* The invariant of the thread group holds in every reachable state. *)
LEMMA GroupInvariance == Spec => []IInv
<1>1. IInv /\ [Next]_vars => IInv'
  <2> SUFFICES ASSUME IInv, [Next]_vars PROVE IInv'
    OBVIOUS
  <2>1. CASE \E t \in Threads : Choice(t) \/ Kernel(t)
    BY <2>1, ThreadStep
  <2>2. CASE UNCHANGED vars
    <3>1. TypeOK' /\ UNCHANGED <<coreVars, pc>>
      BY <2>2 DEF vars, coreVars, groupVars, tokenVars, ownVars, stopVars, endVars, IInv, TypeOK
    <3>2. QED
      BY <3>1, SameCore
  <2>3. QED
    BY <2>1, <2>2 DEF Next, Over
<1>2. QED
  BY InitInv, <1>1, PTL DEF Spec

(* Types: in particular neither live_threads nor pending_inactive ever goes *)
(* below zero, however many threads leave while a session begins.           *)
THEOREM GroupTypeCorrect == Spec => []TypeOK
<1>1. IInv => TypeOK
  BY DEF IInv
<1>2. QED
  BY GroupInvariance, <1>1, PTL

(* install_exec_image replaces the address space, and the owner takes the   *)
(* PID, only while it is the one thread of the group that can run.          *)
THEOREM ExecCommitsAlone == Spec => []ExecAlone
<1>1. IInv => ExecAlone
  BY DEF IInv
<1>2. QED
  BY GroupInvariance, <1>1, PTL

(* A zombie has no thread that still cleans up, and its status is the code  *)
(* the first begin_group_exit fixed.                                        *)
THEOREM ExitStatusAgreed == Spec => []ExitIsFinal
<1>1. IInv => ExitIsFinal
  BY DEF IInv
<1>2. QED
  BY GroupInvariance, <1>1, PTL

(* The assertions of publish_thread, remove_thread, publish_exit_inactive,  *)
(* begin_exec, ExecSession::finish and exchange_exec_tids never fail.       *)
THEOREM GroupNeverPanics == Spec => []NoPanic
<1>1. ASSUME IInv, NEW t \in Threads
      PROVE  /\ pc[t] = "clone" => ~counted[child[t]]
             /\ pc[t] = "release" => live > 0 /\ counted[t]
             /\ pc[t] = "user" => counted[t] /\ (gcode = 0 => t \in members)
  <2>1. "clone" \in Holding /\ "release" \in Holding /\ "user" \in Holding /\ "built" \notin Holding
    BY DEF Holding, PCs, Unborn, Left, Tokenless
  <2>2. pc[t] = "clone" => ~counted[child[t]]
    BY <1>1, <2>1 DEF IInv, CloneInv, TokenInv, TypeOK
  <2>3. QED
    BY <1>1, <2>1, <2>2, HolderFacts, CountsPositive
<1>2. ASSUME IInv, NEW t \in Threads, pc[t] = "switch"
      PROVE  ~inactive[t] /\ (exec # NoOwner /\ exec # tid[t] => pending > 0)
  <2>1. pc[t] \notin Left
    BY <1>2 DEF Left
  <2>2. QED
    BY <1>2, <2>1, CountsPositive DEF IInv, TokenInv
<1>3. ASSUME IInv, NEW t \in Threads, pc[t] \in {"install", "reopen", "execwait"}
      PROVE  exec = tid[t]
  BY <1>3 DEF IInv, SessionInv, Owning
<1>4. ASSUME IInv, NEW t \in Threads, pc[t] \in {"install", "reopen"}
      PROVE  live = 1 /\ pending = 0
  <2>1. Active = {t} /\ exec = tid[t] /\ exec # NoOwner
    <3>1. Active = {t}
      BY <1>4 DEF IInv, ExecAlone
    <3>2. tid[t] \in Threads
      BY <1>4 DEF IInv, TypeOK
    <3>3. QED
      BY <1>3, <1>4, <3>1, <3>2
  <2>2. \A u \in Threads : pc[u] \in Holding => u = t
    BY <1>4, <2>1, HolderFacts
  <2>3. pc[t] \in Holding
    BY <1>4 DEF Holding, PCs, Unborn, Left, Tokenless
  <2>4. {u \in Threads : pc[u] \in Holding} = {t}
    BY <2>2, <2>3
  <2>5. {u \in Active : tid[u] # exec} = {}
    BY <2>1
  <2>6. live = Cardinality({t})
    BY <1>4, <2>4 DEF IInv, TokenInv
  <2>7. pending = Cardinality({})
    BY <1>4, <2>1, <2>5 DEF IInv, SessionInv
  <2>8. QED
    BY Zenon, <2>6, <2>7, FS_Singleton, FS_EmptySet
<1>5. ASSUME IInv, NEW t \in Threads, pc[t] = "lead", NEW u \in Threads \ {t}
      PROVE  ~counted[u]
  <2>1. Active = {t}
    BY <1>5 DEF IInv, ExecAlone
  <2>2. pc[u] \notin Holding
    BY <1>5, <2>1, HolderFacts
  <2>3. QED
    BY <1>5, <2>2 DEF IInv, TokenInv
<1>6. IInv => NoPanic
  BY <1>1, <1>2, <1>3, <1>4, <1>5 DEF NoPanic
<1>7. QED
  BY GroupInvariance, <1>6, PTL

=============================================================================
